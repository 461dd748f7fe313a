-------------------------- MODULE PsaKeyStoreProofs --------------------------
(***************************************************************************)
(* The safety properties of PsaKeyStore and that it implements PsaKeyApi,  *)
(* proved for any number of threads, slots, identifiers and keys.          *)
(***************************************************************************)
EXTENDS PsaKeyStore, FiniteSetTheorems, WellFoundedInduction, TLAPS

\* What a slot holds in each state.
SlotShape ==
    \A s \in Slots :
        /\ slots[s].state = "FULL" => slots[s].key # NoKey
        /\ slots[s].state = "FULL" /\ slots[s].lifetime = "VOLATILE" => slots[s].id = s
        /\ slots[s].state = "FULL" /\ slots[s].lifetime = "PERSISTENT"
             => slots[s].id \in PersistentIds
        /\ slots[s].state = "FULL" /\ slots[s].lifetime = "READ_ONLY"
             => slots[s].id \in BuiltinIds
        /\ slots[s].state = "PENDING_DELETION" => slots[s].readers > 0

Registering == {"using", "destroying", "copying"}
Creating == {"reserved", "filling", "filled", "failing"}

\* What a thread holds at each point.
ThreadShape ==
    \A t \in Threads :
        /\ pc[t] = "idle" => rslot[t] = NoSlot /\ wslot[t] = NoSlot
        /\ pc[t] \in Registering => rslot[t] # NoSlot /\ wslot[t] = NoSlot
        /\ pc[t] \in Creating => wslot[t] # NoSlot
        /\ rslot[t] # NoSlot => slots[rslot[t]].state \in {"FULL", "PENDING_DELETION"}
        /\ wslot[t] # NoSlot => slots[wslot[t]].state = "FILLING"
        /\ pc[t] \in {"filling", "filled"} =>
             /\ slots[wslot[t]].lifetime = req[t].lifetime
             /\ slots[wslot[t]].id = IF req[t].lifetime = "VOLATILE"
                                     THEN wslot[t] ELSE req[t].id
        /\ pc[t] = "filled" => slots[wslot[t]].key \in Keys

CreatorUnique ==
    \A t, u \in Threads : wslot[t] # NoSlot /\ wslot[t] = wslot[u] => t = u

FillingOwned ==
    \A s \in Slots : slots[s].state = "FILLING" => \E t \in Threads : wslot[t] = s

\* The inductive invariant.
KeyStoreInv ==
    /\ TypeOK
    /\ ReaderCountExact
    /\ SlotShape
    /\ ThreadShape
    /\ CreatorUnique
    /\ FillingOwned
    /\ OneSlotPerKey
    /\ CacheIsCoherent
    /\ NoCorruption

-----------------------------------------------------------------------------
(* A nonempty set of slots has a first element.                            *)
LEMMA FirstIn ==
    ASSUME NEW S \in SUBSET Nat, S # {}
    PROVE  First(S) \in S
<1>1. IsWellFoundedOn(OpToRel(<, Nat), Nat)
  BY NatLessThanWellFounded, Zenon
<1>2. PICK x \in S : \A y \in S : ~(<<y, x>> \in OpToRel(<, Nat))
  BY <1>1, WFMin, Zenon
<1>3. \A y \in S : ~(y < x)
  BY <1>2 DEF OpToRel
<1>4. \A y \in S : x <= y
  BY <1>3
<1> QED
  BY <1>4 DEF First

\* Slot indices are natural numbers, so a set of slots has a first one.
LEMMA SlotsAreNat == Slots \subseteq Nat
BY BoundsAreNat DEF Slots

(* The readers of a slot are finitely many, at most all threads.           *)
LEMMA ReadersFinite ==
    ASSUME NEW s
    PROVE  /\ IsFiniteSet(ReadersOf(s))
           /\ Cardinality(ReadersOf(s)) \in Nat
           /\ Cardinality(ReadersOf(s)) < SIZE_MAX
<1>1. ReadersOf(s) \in SUBSET Threads
  BY DEF ReadersOf
<1>2. /\ IsFiniteSet(ReadersOf(s))
      /\ Cardinality(ReadersOf(s)) <= Cardinality(Threads)
  BY <1>1, ThreadsFinite, FS_Subset
<1>3. Cardinality(ReadersOf(s)) \in Nat /\ Cardinality(Threads) \in Nat
  BY <1>2, ThreadsFinite, FS_CardinalityType
<1> QED
  BY <1>2, <1>3, ReadersFit, BoundsAreNat

(* A slot without registered readers is read by no thread, and a thread    *)
(* that is registered is counted.                                          *)
LEMMA UnreadSlot ==
    ASSUME ReaderCountExact, NEW s \in Slots, slots[s].readers = 0
    PROVE  \A t \in Threads : rslot[t] # s
<1>1. ReadersOf(s) = {}
  BY ReadersFinite, FS_EmptySet DEF ReaderCountExact
<1> QED
  BY <1>1 DEF ReadersOf

\* A slot some thread is registered on has a positive counter.
LEMMA ReadSlot ==
    ASSUME ReaderCountExact, NEW t \in Threads, rslot[t] \in Slots
    PROVE  slots[rslot[t]].readers \in Nat /\ slots[rslot[t]].readers > 0
<1>1. t \in ReadersOf(rslot[t])
  BY DEF ReadersOf
<1>2. Cardinality(ReadersOf(rslot[t])) # 0
  BY <1>1, ReadersFinite, FS_EmptySet
<1> QED
  BY <1>2, ReadersFinite DEF ReaderCountExact

(* The counter of a readable slot cannot be at its maximum.                *)
LEMMA FullIsRegistrable ==
    ASSUME ReaderCountExact, NEW s \in Slots, slots[s].state = "FULL"
    PROVE  RegisterAllowed(slots[s])
BY ReadersFinite DEF ReaderCountExact, RegisterAllowed

(* How the set of readers changes with rslot.                              *)
LEMMA CountSame ==
    ASSUME UNCHANGED rslot, NEW s
    PROVE  Cardinality(ReadersOf(s))' = Cardinality(ReadersOf(s))
<1>1. ReadersOf(s)' = ReadersOf(s)
  BY DEF ReadersOf
<1> QED
  BY <1>1

\* When one more thread registers on a slot, its set of readers grows by
\* one.
LEMMA CountAdd ==
    ASSUME TypeOK, NEW t \in Threads, NEW s \in Slots, rslot[t] = NoSlot,
           rslot' = [rslot EXCEPT ![t] = s]
    PROVE  /\ Cardinality(ReadersOf(s))' = Cardinality(ReadersOf(s)) + 1
           /\ \A r \in Slots : r # s =>
                Cardinality(ReadersOf(r))' = Cardinality(ReadersOf(r))
<1>1. /\ ReadersOf(s)' = ReadersOf(s) \cup {t}
      /\ t \notin ReadersOf(s)
      /\ \A r \in Slots : r # s => ReadersOf(r)' = ReadersOf(r)
  BY NullsAreNull DEF ReadersOf, TypeOK
<1>2. Cardinality(ReadersOf(s) \cup {t}) = Cardinality(ReadersOf(s)) + 1
  BY <1>1, ReadersFinite, FS_AddElement
<1> QED
  BY <1>1, <1>2

\* When a reader leaves a slot, its set of readers shrinks by one.
LEMMA CountRemove ==
    ASSUME TypeOK, NEW t \in Threads, NEW s \in Slots, rslot[t] = s,
           rslot' = [rslot EXCEPT ![t] = NoSlot]
    PROVE  /\ Cardinality(ReadersOf(s))' = Cardinality(ReadersOf(s)) - 1
           /\ \A r \in Slots : r # s =>
                Cardinality(ReadersOf(r))' = Cardinality(ReadersOf(r))
<1>1. /\ ReadersOf(s)' = ReadersOf(s) \ {t}
      /\ t \in ReadersOf(s)
      /\ \A r \in Slots : r # s => ReadersOf(r)' = ReadersOf(r)
  BY NullsAreNull DEF ReadersOf, TypeOK
<1>2. Cardinality(ReadersOf(s) \ {t}) = Cardinality(ReadersOf(s)) - 1
  BY <1>1, ReadersFinite, FS_RemoveElement
<1> QED
  BY <1>1, <1>2

(* The slot psa_reserve_free_key_slot() selects is used by no thread.      *)
LEMMA SelectedIsFree ==
    ASSUME KeyStoreInv, Selected # NoSlot
    PROVE  /\ Selected \in Slots
           /\ slots[Selected].readers = 0
           /\ slots[Selected].state \in {"EMPTY", "FULL"}
           /\ slots[Selected].state = "FULL" => slots[Selected].lifetime # "VOLATILE"
           /\ EvictionAllowed(Selected)
           /\ \A t \in Threads : rslot[t] # Selected /\ wslot[t] # Selected
<1> DEFINE s == Selected
<1>1. s \in Empty \/ s \in Evictable
  <2>1. Empty \in SUBSET Nat /\ Evictable \in SUBSET Nat
    BY SlotsAreNat DEF Empty, Evictable
  <2> QED
    BY <2>1, FirstIn DEF Selected
<1>2. s \in Slots /\ slots[s].state \in {"EMPTY", "FULL"}
  BY <1>1 DEF Empty, Evictable
<1>3. s \in Evictable => slots[s].readers = 0 /\ slots[s].lifetime # "VOLATILE"
  BY DEF Evictable
<1>4. slots[s].state = "EMPTY" => \A t \in Threads : rslot[t] # s
  BY <1>2, NullsAreNull DEF KeyStoreInv, ThreadShape
<1>5. slots[s].state = "EMPTY" => slots[s].readers = 0
  <2>1. SUFFICES ASSUME slots[s].state = "EMPTY" PROVE slots[s].readers = 0
    OBVIOUS
  <2>2. ReadersOf(s) = {}
    BY <1>4, <2>1 DEF ReadersOf
  <2> QED
    BY <1>2, <2>2, FS_EmptySet DEF KeyStoreInv, ReaderCountExact
<1>6. slots[s].readers = 0 /\ (slots[s].state = "FULL" => slots[s].lifetime # "VOLATILE")
  BY <1>1, <1>3, <1>5 DEF Empty
<1>7. \A t \in Threads : rslot[t] # s
  BY <1>2, <1>6, UnreadSlot DEF KeyStoreInv
<1>8. \A t \in Threads : wslot[t] # s
  BY <1>2, NullsAreNull DEF KeyStoreInv, ThreadShape
<1>9. EvictionAllowed(s)
  <2>1. SUFFICES ASSUME slots[s].state = "FULL" PROVE WipeAllowed(Registered(slots[s]))
    BY <1>2 DEF EvictionAllowed
  <2>2. RegisterAllowed(slots[s])
    BY <1>2, <2>1, FullIsRegistrable DEF KeyStoreInv
  <2>3. slots[s] \in SlotType
    BY <1>2 DEF KeyStoreInv, TypeOK
  <2> QED
    BY <1>6, <2>1, <2>2, <2>3 DEF WipeAllowed, Registered, SlotType
<1> QED
  BY <1>2, <1>6, <1>7, <1>8, <1>9

(* What looking a key up in memory finds, and what not finding it means.   *)
LEMMA InMemoryFinds ==
    ASSUME NEW id, InMemory(id) # NoSlot
    PROVE  /\ InMemory(id) \in Slots
           /\ slots[InMemory(id)].state = "FULL"
           /\ slots[InMemory(id)].id = id
<1> DEFINE found == {s \in Slots : /\ slots[s].state = "FULL"
                                   /\ slots[s].id = id
                                   /\ id \in VolatileIds => s = id}
<1>1. found # {} /\ InMemory(id) = First(found)
  BY DEF InMemory
<1>2. found \in SUBSET Nat
  BY SlotsAreNat
<1>3. InMemory(id) \in found
  BY <1>1, <1>2, FirstIn
<1> QED
  BY <1>3

\* When psa_get_and_lock_key_slot_in_memory() finds nothing, no FULL slot
\* has the identifier.
LEMMA InMemoryMisses ==
    ASSUME NEW id, InMemory(id) = NoSlot, id \notin VolatileIds
    PROVE  \A s \in Slots : ~(slots[s].state = "FULL" /\ slots[s].id = id)
<1> DEFINE found == {s \in Slots : /\ slots[s].state = "FULL"
                                   /\ slots[s].id = id
                                   /\ id \in VolatileIds => s = id}
<1>1. found \in SUBSET Nat /\ found \in SUBSET Slots
  BY SlotsAreNat
<1>2. found = {}
  <2>1. SUFFICES ASSUME found # {} PROVE FALSE
    OBVIOUS
  <2>2. InMemory(id) = First(found)
    BY <2>1 DEF InMemory
  <2> QED
    BY <1>1, <2>1, <2>2, FirstIn, NullsAreNull
<1> QED
  BY <1>2

-----------------------------------------------------------------------------
(* A slot record after psa_unregister_read().                              *)
LEMMA UnregisteredSlot ==
    ASSUME NEW slot \in SlotType, UnregisterAllowed(slot)
    PROVE  LET new == Unregistered(slot) IN
           /\ new \in SlotType
           /\ new.readers = slot.readers - 1
           /\ new.state \in {slot.state, "EMPTY"}
           /\ new.state = "EMPTY" => slot.state = "PENDING_DELETION" /\ slot.readers = 1
           /\ new.state = slot.state =>
                /\ new.id = slot.id /\ new.lifetime = slot.lifetime /\ new.key = slot.key
                /\ slot.state = "PENDING_DELETION" => new.readers > 0
BY DEF Unregistered, UnregisterAllowed, SlotType, SlotStates, Lifetimes, ZeroSlot, KeyData

(* A thread that was registered leaves its slot, which it may have marked  *)
(* for deletion, removing the file of its key, in the same critical        *)
(* section: the common effect of EndUse, DestroyTooLate and DestroyKey.    *)
LEMMA LeavePreserves ==
    ASSUME KeyStoreInv,
           NEW t \in Threads, NEW s \in Slots, rslot[t] = s,
           pc[t] \in Registering,
           NEW marked,
           \/ marked = slots[s]
           \/ /\ slots[s].state = "FULL"
              /\ marked = [slots[s] EXCEPT !.state = "PENDING_DELETION"],
           \/ storage' = storage
           \/ /\ slots[s].state = "FULL" /\ slots[s].lifetime = "PERSISTENT"
              /\ marked.state = "PENDING_DELETION"
              /\ storage' = [storage EXCEPT ![slots[s].id] = NoKey],
           slots' = [slots EXCEPT ![s] = Unregistered(marked)],
           corrupt' = (corrupt \/ ~UnregisterAllowed(marked)),
           rslot' = [rslot EXCEPT ![t] = NoSlot],
           pc' = [pc EXCEPT ![t] = "idle"],
           UNCHANGED <<initialized, wslot, req, nextKey>>
    PROVE  KeyStoreInv'
<1> DEFINE new == Unregistered(marked)
<1> USE DEF KeyStoreInv
<1>1. /\ slots[s] \in SlotType
      /\ slots[s].state \in {"FULL", "PENDING_DELETION"}
      /\ slots[s].readers > 0
  BY ReadSlot, NullsAreNull DEF TypeOK, ThreadShape
<1>2. /\ marked \in SlotType
      /\ marked.state \in {"FULL", "PENDING_DELETION"}
      /\ marked.readers = slots[s].readers /\ marked.id = slots[s].id
      /\ marked.lifetime = slots[s].lifetime /\ marked.key = slots[s].key
      /\ slots[s].state = "PENDING_DELETION" => marked.state = "PENDING_DELETION"
  BY <1>1 DEF SlotType, SlotStates
<1>3. UnregisterAllowed(marked)
  BY <1>1, <1>2 DEF UnregisterAllowed
<1>4. /\ new \in SlotType
      /\ new.readers = slots[s].readers - 1
      /\ new.state \in {marked.state, "EMPTY"}
      /\ new.state = "EMPTY" => slots[s].readers = 1
      /\ new.state = marked.state =>
           /\ new.id = slots[s].id /\ new.lifetime = slots[s].lifetime
           /\ new.key = slots[s].key
           /\ marked.state = "PENDING_DELETION" => new.readers > 0
  BY <1>2, <1>3, UnregisteredSlot
<1> HIDE DEF new
<1>5. slots' = [slots EXCEPT ![s] = new]
  BY DEF new
<1>6. new.state = "FULL" => slots[s].state = "FULL" /\ marked.state = "FULL"
  BY <1>1, <1>2, <1>4
<1>7. TypeOK'
  <2>1. storage' \in [PersistentIds -> Keys \cup {NoKey}]
    BY DEF TypeOK
  <2> QED
    BY <1>3, <1>4, <1>5, <2>1 DEF TypeOK, PCs, NoCorruption
<1>8. ReaderCountExact'
  <2>1. Cardinality(ReadersOf(s))' = Cardinality(ReadersOf(s)) - 1
    BY CountRemove
  <2>2. \A r \in Slots : r # s => Cardinality(ReadersOf(r))' = Cardinality(ReadersOf(r))
    BY CountRemove
  <2> QED
    BY <1>4, <1>5, <2>1, <2>2 DEF ReaderCountExact, TypeOK
<1>9. SlotShape'
  BY <1>2, <1>4, <1>5, <1>6 DEF SlotShape, TypeOK
<1>10. ThreadShape'
  <2>1. \A u \in Threads : u # t /\ rslot[u] = s => slots[s].readers # 1
    <3>1. SUFFICES ASSUME NEW u \in Threads, u # t, rslot[u] = s PROVE slots[s].readers # 1
      OBVIOUS
    <3>2. ReadersOf(s) # {} /\ u \in ReadersOf(s) /\ t \in ReadersOf(s)
      BY <3>1 DEF ReadersOf
    <3>3. \A x : ReadersOf(s) # {x}
      BY <3>1, <3>2
    <3>4. IsFiniteSet(ReadersOf(s))
      BY ReadersFinite
    <3>5. Cardinality(ReadersOf(s)) = 1 <=> \E x : ReadersOf(s) = {x}
      BY <3>4, FS_Singleton, Zenon
    <3> QED
      BY <3>3, <3>5 DEF ReaderCountExact
  <2>2. new.state \in {"FULL", "PENDING_DELETION"} \/ \A u \in Threads : u # t => rslot[u] # s
    BY <1>2, <1>4, <2>1
  <2>3. \A u \in Threads : wslot[u] # s
    BY <1>1, NullsAreNull DEF ThreadShape
  <2> QED
    BY <1>1, <1>5, <2>2, <2>3, NullsAreNull DEF ThreadShape, TypeOK, Registering, Creating
<1>11. CreatorUnique' /\ FillingOwned'
  BY <1>1, <1>2, <1>4, <1>5 DEF CreatorUnique, FillingOwned, TypeOK
<1>12. OneSlotPerKey'
  BY <1>4, <1>5, <1>6 DEF OneSlotPerKey, TypeOK
<1>13. CacheIsCoherent'
  <2>1. \A r \in Slots : slots'[r].state = "FULL" =>
           /\ slots[r].state = "FULL" /\ slots'[r].lifetime = slots[r].lifetime
           /\ slots'[r].id = slots[r].id /\ slots'[r].key = slots[r].key
           /\ r = s => storage' = storage
    BY <1>4, <1>5, <1>6 DEF TypeOK
  <2>2. \A r \in Slots : slots'[r].state = "FULL" /\ r # s => slots[r].id # slots[s].id \/ storage' = storage
    BY <2>1 DEF OneSlotPerKey
  <2> QED
    BY <2>1, <2>2 DEF CacheIsCoherent, Backing, TypeOK
<1>14. NoCorruption'
  BY <1>3 DEF NoCorruption
<1> QED
  BY <1>7, <1>8, <1>9, <1>10, <1>11, <1>12, <1>13, <1>14

\* psa_unregister_read_under_mutex() at the end of an operation keeps the
\* invariant.
LEMMA EndUsePreserves ==
    ASSUME KeyStoreInv, NEW t \in Threads, EndUse(t)
    PROVE  KeyStoreInv'
<1>1. rslot[t] \in Slots /\ pc[t] \in Registering
  BY DEF KeyStoreInv, TypeOK, ThreadShape, EndUse, Registering
<1> QED
  BY <1>1, LeavePreserves DEF EndUse

\* psa_destroy_key() that finds the slot already pending deletion keeps the
\* invariant.
LEMMA DestroyTooLatePreserves ==
    ASSUME KeyStoreInv, NEW t \in Threads, DestroyTooLate(t)
    PROVE  KeyStoreInv'
<1>1. rslot[t] \in Slots /\ pc[t] \in Registering
  BY DEF KeyStoreInv, TypeOK, ThreadShape, DestroyTooLate, Registering
<1> QED
  BY <1>1, LeavePreserves DEF DestroyTooLate

\* psa_destroy_key() that marks the slot and removes the file keeps the
\* invariant.
LEMMA DestroyKeyPreserves ==
    ASSUME KeyStoreInv, NEW t \in Threads, NEW removed \in BOOLEAN, DestroyKey(t, removed)
    PROVE  KeyStoreInv'
<1> DEFINE s == rslot[t]
           marked == [slots[s] EXCEPT !.state = "PENDING_DELETION"]
<1>1. s \in Slots /\ pc[t] \in Registering /\ slots[s] \in SlotType
  BY DEF KeyStoreInv, TypeOK, ThreadShape, DestroyKey, Registering
<1>2. slots[s].state = "FULL"
  BY <1>1 DEF KeyStoreInv, ThreadShape, DestroyKey, Registering
<1>3. marked.state = "PENDING_DELETION"
  BY <1>1 DEF SlotType
<1>4. /\ slots' = [slots EXCEPT ![s] = Unregistered(marked)]
      /\ corrupt' = (corrupt \/ ~UnregisterAllowed(marked))
      /\ rslot' = [rslot EXCEPT ![t] = NoSlot]
      /\ pc' = [pc EXCEPT ![t] = "idle"]
      /\ UNCHANGED <<initialized, wslot, req, nextKey>>
      /\ \/ storage' = storage
         \/ /\ slots[s].lifetime = "PERSISTENT"
            /\ storage' = [storage EXCEPT ![slots[s].id] = NoKey]
  BY <1>2 DEF DestroyKey
<1> HIDE DEF marked
<1> QED
  BY <1>1, <1>2, <1>3, <1>4, LeavePreserves DEF marked

(* A thread registers on a slot that is FULL afterwards and holds a key    *)
(* that was in that slot before, or was in no slot.                        *)
LEMMA AcquirePreserves ==
    ASSUME KeyStoreInv, NEW t \in Threads, NEW next \in Registering,
           pc[t] = "idle",
           NEW s \in Slots, NEW new \in SlotType,
           new.state = "FULL",
           \/ /\ slots[s].state = "FULL"
              /\ new = [slots[s] EXCEPT !.readers = @ + 1]
           \/ /\ slots[s].readers = 0
              /\ slots[s].state \in {"EMPTY", "FULL"}
              /\ new.readers = 1
              /\ new.id \in PersistentIds \cup BuiltinIds
              /\ new.lifetime = IF new.id \in BuiltinIds THEN "READ_ONLY" ELSE "PERSISTENT"
              /\ new.key = Backing(new.id) /\ new.key # NoKey
              /\ \A r \in Slots : ~(slots[r].state = "FULL" /\ slots[r].id = new.id),
           slots' = [slots EXCEPT ![s] = new],
           corrupt' = corrupt,
           rslot' = [rslot EXCEPT ![t] = s],
           pc' = [pc EXCEPT ![t] = next],
           UNCHANGED <<storage, initialized, wslot, req, nextKey>>
    PROVE  KeyStoreInv'
<1> USE DEF KeyStoreInv
<1>1. slots[s] \in SlotType /\ rslot[t] = NoSlot /\ wslot[t] = NoSlot
  BY DEF TypeOK, ThreadShape
<1>2. new.readers = slots[s].readers + 1
  BY <1>1 DEF SlotType
<1>3. \/ /\ slots[s].state = "FULL" /\ new.id = slots[s].id
         /\ new.lifetime = slots[s].lifetime /\ new.key = slots[s].key
      \/ /\ new.id \in PersistentIds \cup BuiltinIds
         /\ new.lifetime = IF new.id \in BuiltinIds THEN "READ_ONLY" ELSE "PERSISTENT"
         /\ new.key = Backing(new.id) /\ new.key # NoKey
         /\ \A r \in Slots : ~(slots[r].state = "FULL" /\ slots[r].id = new.id)
  BY <1>1 DEF SlotType
<1>4. slots[s].state \in {"EMPTY", "FULL"}
  OBVIOUS
<1>5. TypeOK'
  BY DEF TypeOK, PCs, Registering
<1>6. ReaderCountExact'
  <2>1. Cardinality(ReadersOf(s))' = Cardinality(ReadersOf(s)) + 1
    BY <1>1, CountAdd
  <2>2. \A r \in Slots : r # s => Cardinality(ReadersOf(r))' = Cardinality(ReadersOf(r))
    BY <1>1, CountAdd
  <2> QED
    BY <1>2, <2>1, <2>2 DEF ReaderCountExact, TypeOK
<1>7. SlotShape'
  BY <1>3 DEF SlotShape, TypeOK
<1>8. ThreadShape'
  <2>1. \A u \in Threads : wslot[u] # s
    BY <1>4, NullsAreNull DEF ThreadShape
  <2> QED
    BY <1>1, <2>1, NullsAreNull DEF ThreadShape, TypeOK, Registering, Creating
<1>9. CreatorUnique' /\ FillingOwned'
  BY DEF CreatorUnique, FillingOwned, TypeOK
<1>10. OneSlotPerKey'
  BY <1>3 DEF OneSlotPerKey, TypeOK
<1>11. CacheIsCoherent'
  BY <1>3 DEF CacheIsCoherent, Backing, TypeOK
<1>12. NoCorruption'
  BY DEF NoCorruption
<1> QED
  BY <1>5, <1>6, <1>7, <1>8, <1>9, <1>10, <1>11, <1>12

\* psa_get_and_lock_key_slot(), from memory or after loading, keeps the
\* invariant.
LEMMA GetAndLockPreserves ==
    ASSUME KeyStoreInv, NEW t \in Threads, NEW id \in KeyIds, NEW next \in Registering,
           pc[t] = "idle", GetAndLock(t, id, next)
    PROVE  KeyStoreInv'
<1> USE DEF KeyStoreInv
<1>1. CASE LockInMemory(t, id, next)
  <2> DEFINE s == InMemory(id)
             new == [slots[s] EXCEPT !.readers = @ + 1]
  <2>1. s \in Slots /\ slots[s].state = "FULL" /\ RegisterAllowed(slots[s])
    BY <1>1, InMemoryFinds, FullIsRegistrable DEF LockInMemory
  <2>2. slots[s] \in SlotType
    BY <2>1 DEF TypeOK
  <2>3. new \in SlotType /\ new.state = "FULL"
    BY <2>1, <2>2 DEF SlotType
  <2>4. /\ slots' = [slots EXCEPT ![s] = new]
        /\ corrupt' = corrupt
        /\ rslot' = [rslot EXCEPT ![t] = s]
        /\ pc' = [pc EXCEPT ![t] = next]
        /\ UNCHANGED <<storage, initialized, wslot, req, nextKey>>
    BY <1>1, <2>1 DEF LockInMemory, Registered, TypeOK
  <2> HIDE DEF s
  <2> QED
    BY <2>1, <2>3, <2>4, AcquirePreserves
<1>2. CASE LockAfterLoading(t, id, next)
  <2> DEFINE s == Selected
             new == LoadedSlot(id)
  <2>1. /\ s \in Slots /\ slots[s].readers = 0 /\ EvictionAllowed(s)
        /\ slots[s].state \in {"EMPTY", "FULL"}
    BY <1>2, SelectedIsFree DEF LockAfterLoading, CanReserve
  <2>2. id \in PersistentIds \cup BuiltinIds /\ Backing(id) # NoKey
    BY <1>2 DEF LockAfterLoading, Backing
  <2>3. id \notin VolatileIds
    BY <2>2, IdRangesDisjoint DEF VolatileIds, Slots
  <2>4. \A r \in Slots : ~(slots[r].state = "FULL" /\ slots[r].id = id)
    BY <1>2, <2>3, InMemoryMisses DEF LockAfterLoading
  <2>5. Backing(id) \in KeyData
    BY <2>2 DEF Backing, KeyData, TypeOK
  <2>6. /\ new \in SlotType /\ new.state = "FULL" /\ new.readers = 1 /\ new.id = id
        /\ new.lifetime = IF id \in BuiltinIds THEN "READ_ONLY" ELSE "PERSISTENT"
        /\ new.key = Backing(id)
    BY <2>2, <2>5 DEF LoadedSlot, SlotType, SlotStates, Lifetimes, KeyIds
  <2>7. /\ slots' = [slots EXCEPT ![s] = new]
        /\ corrupt' = corrupt
        /\ rslot' = [rslot EXCEPT ![t] = s]
        /\ pc' = [pc EXCEPT ![t] = next]
        /\ UNCHANGED <<storage, initialized, wslot, req, nextKey>>
    BY <1>2, <2>1 DEF LockAfterLoading, TypeOK
  <2> HIDE DEF s, new
  <2> QED
    BY <2>1, <2>2, <2>4, <2>6, <2>7, AcquirePreserves
<1> QED
  BY <1>1, <1>2 DEF GetAndLock

-----------------------------------------------------------------------------
\* A wiped and a reserved slot have the type of a slot.
LEMMA ZeroSlotType == ZeroSlot \in SlotType /\ FillingSlot \in SlotType
BY DEF ZeroSlot, FillingSlot, SlotType, SlotStates, Lifetimes, KeyData

(* A slot that nobody reads and, from now on, nobody fills is zeroed: the  *)
(* effect of a load that fails, of closing and purging an unused key.      *)
LEMMA VacatePreserves ==
    ASSUME KeyStoreInv, NEW s \in Slots,
           \A u \in Threads : rslot[u] # s /\ wslot[u] # s,
           slots' = [slots EXCEPT ![s] = ZeroSlot],
           corrupt' = corrupt,
           UNCHANGED <<storage, initialized, pc, rslot, wslot, req, nextKey>>
    PROVE  KeyStoreInv'
<1> USE DEF KeyStoreInv
<1>1. ZeroSlot.state = "EMPTY" /\ ZeroSlot.readers = 0
  BY DEF ZeroSlot
<1>2. TypeOK'
  BY ZeroSlotType DEF TypeOK
<1>3. ReaderCountExact'
  <2>1. ReadersOf(s) = {}
    BY DEF ReadersOf
  <2>2. \A r \in Slots : Cardinality(ReadersOf(r))' = Cardinality(ReadersOf(r))
    BY CountSame
  <2> QED
    BY <1>1, <2>1, <2>2, FS_EmptySet DEF ReaderCountExact, TypeOK
<1>4. SlotShape' /\ OneSlotPerKey' /\ CreatorUnique' /\ FillingOwned'
  BY <1>1 DEF SlotShape, OneSlotPerKey, CreatorUnique, FillingOwned, TypeOK
<1>5. ThreadShape'
  BY DEF ThreadShape, TypeOK
<1>6. CacheIsCoherent' /\ NoCorruption'
  BY <1>1 DEF CacheIsCoherent, Backing, NoCorruption, TypeOK
<1> QED
  BY <1>2, <1>3, <1>4, <1>5, <1>6

\* psa_get_and_lock_key_slot() that reserved a slot and could not load the
\* key keeps the invariant.
LEMMA LockFailsPreserves ==
    ASSUME KeyStoreInv, NEW t \in Threads, NEW id \in KeyIds, LockFails(t, id)
    PROVE  KeyStoreInv'
<1>1. /\ Selected \in Slots /\ EvictionAllowed(Selected)
      /\ \A u \in Threads : rslot[u] # Selected /\ wslot[u] # Selected
  BY SelectedIsFree DEF LockFails, CanReserve
<1>2. WipeAllowed(FillingSlot)
  BY DEF WipeAllowed, FillingSlot, ZeroSlot
<1>3. corrupt' = corrupt
  BY <1>1, <1>2 DEF LockFails, KeyStoreInv, TypeOK
<1> QED
  BY <1>1, <1>3, VacatePreserves DEF LockFails

\* psa_unregister_read() after psa_register_read() gives the slot back as
\* it was.
LEMMA UnregisterUndoesRegister ==
    ASSUME NEW slot \in SlotType, slot.state = "FULL"
    PROVE  Unregistered([slot EXCEPT !.readers = @ + 1]) = slot
<1> DEFINE mine == [slot EXCEPT !.readers = @ + 1]
           back == [mine EXCEPT !.readers = @ - 1]
<1>1. mine.state = "FULL" /\ mine.readers = slot.readers + 1 /\ slot.readers \in Nat
  BY DEF SlotType
<1>2. Unregistered(mine) = back
  BY <1>1 DEF Unregistered, UnregisterAllowed
<1>3. mine \in SlotType
  BY <1>1 DEF SlotType
<1>4. mine.id = slot.id /\ mine.lifetime = slot.lifetime /\ mine.key = slot.key
  BY DEF SlotType
<1> HIDE DEF mine
<1>5. back \in SlotType
  BY <1>1, <1>3 DEF SlotType
<1>6. /\ back.state = mine.state /\ back.readers = mine.readers - 1
      /\ back.id = mine.id /\ back.lifetime = mine.lifetime /\ back.key = mine.key
  BY <1>3 DEF SlotType
<1> HIDE DEF back
<1>7. back = slot
  BY <1>1, <1>4, <1>5, <1>6 DEF SlotType
<1> QED
  BY <1>2, <1>7 DEF mine

\* psa_close_key() and psa_purge_key() keep the invariant.
LEMMA ForgetPreserves ==
    ASSUME KeyStoreInv, NEW t \in Threads, NEW id \in KeyIds, NEW wipe,
           ForgetIfUnused(t, id, wipe)
    PROVE  KeyStoreInv'
<1> DEFINE s == InMemory(id)
           mine == Registered(slots[s])
<1> USE DEF KeyStoreInv
<1>1. s \in Slots /\ slots[s].state = "FULL" /\ RegisterAllowed(slots[s])
  BY InMemoryFinds, FullIsRegistrable DEF ForgetIfUnused
<1>2. slots[s] \in SlotType
  BY <1>1 DEF TypeOK
<1>3. mine = [slots[s] EXCEPT !.readers = @ + 1]
  BY <1>1 DEF Registered
<1>4. Unregistered(mine) = slots[s]
  BY <1>1, <1>2, <1>3, UnregisterUndoesRegister
<1>5. corrupt' = corrupt
  BY <1>1 DEF ForgetIfUnused, TypeOK
<1>6. CASE wipe /\ mine.readers = 1
  <2>1. slots[s].readers = 0
    BY <1>2, <1>3, <1>6 DEF SlotType
  <2>2. \A u \in Threads : rslot[u] # s /\ wslot[u] # s
    BY <1>1, <2>1, UnreadSlot, NullsAreNull DEF ThreadShape
  <2>3. slots' = [slots EXCEPT ![s] = ZeroSlot]
    BY <1>6 DEF ForgetIfUnused
  <2> QED
    BY <1>1, <1>5, <2>2, <2>3, VacatePreserves DEF ForgetIfUnused
<1>7. CASE ~(wipe /\ mine.readers = 1)
  <2>1. slots' = slots
    BY <1>1, <1>4, <1>7 DEF ForgetIfUnused, TypeOK
  <2>2. UNCHANGED vars
    BY <1>5, <2>1 DEF ForgetIfUnused, vars
  <2> QED
    BY <2>2 DEF vars, TypeOK, ReaderCountExact, ReadersOf, SlotShape, ThreadShape,
                CreatorUnique, FillingOwned, OneSlotPerKey, CacheIsCoherent, Backing,
                NoCorruption
<1> QED
  BY <1>6, <1>7

(* Reserving a slot for a new key.                                         *)
LEMMA StartKeyCreationPreserves ==
    ASSUME KeyStoreInv, NEW t \in Threads, NEW attr \in Attributes,
           pc[t] \in {"idle", "copying"}, StartKeyCreation(t, attr)
    PROVE  KeyStoreInv'
<1> DEFINE s == Selected
<1> USE DEF KeyStoreInv
<1>1. /\ s \in Slots /\ EvictionAllowed(s)
      /\ slots[s].readers = 0
      /\ \A u \in Threads : rslot[u] # s /\ wslot[u] # s
  BY SelectedIsFree DEF StartKeyCreation, CanReserve
<1>2. /\ slots' = [slots EXCEPT ![s] = FillingSlot]
      /\ corrupt' = corrupt
      /\ wslot' = [wslot EXCEPT ![t] = s]
      /\ req' = [req EXCEPT ![t] = attr]
      /\ pc' = [pc EXCEPT ![t] = "reserved"]
      /\ UNCHANGED <<storage, initialized, rslot, nextKey>>
  BY <1>1 DEF StartKeyCreation, TypeOK
<1> HIDE DEF s
<1>3. FillingSlot.state = "FILLING" /\ FillingSlot.readers = 0
  BY DEF FillingSlot, ZeroSlot
<1>4. TypeOK'
  BY <1>1, <1>2, ZeroSlotType DEF TypeOK, PCs
<1>5. ReaderCountExact'
  <2>1. \A r \in Slots : Cardinality(ReadersOf(r))' = Cardinality(ReadersOf(r))
    BY <1>2, CountSame
  <2> QED
    BY <1>1, <1>2, <1>3, <2>1 DEF ReaderCountExact, TypeOK
<1>6. SlotShape' /\ OneSlotPerKey'
  BY <1>1, <1>2, <1>3 DEF SlotShape, OneSlotPerKey, TypeOK
<1>7. ThreadShape'
  BY <1>1, <1>2, <1>3, NullsAreNull DEF ThreadShape, TypeOK, Registering, Creating
<1>8. CreatorUnique' /\ FillingOwned'
  <2>1. wslot[t] = NoSlot
    BY DEF ThreadShape, Registering
  <2>2. CreatorUnique'
    BY <1>1, <1>2 DEF CreatorUnique, TypeOK
  <2>3. FillingOwned'
    BY <1>1, <1>2, <1>3, <2>1, NullsAreNull DEF FillingOwned, TypeOK
  <2> QED
    BY <2>2, <2>3
<1>9. CacheIsCoherent' /\ NoCorruption'
  BY <1>1, <1>2, <1>3 DEF CacheIsCoherent, Backing, NoCorruption, TypeOK
<1> QED
  BY <1>4, <1>5, <1>6, <1>7, <1>8, <1>9

\* psa_copy_key() that cannot reserve a target keeps the invariant.
LEMMA CopyRefusedPreserves ==
    ASSUME KeyStoreInv, NEW t \in Threads, CopyRefused(t)
    PROVE  KeyStoreInv'
<1> USE DEF KeyStoreInv, CopyRefused
<1>1. TypeOK'
  BY DEF TypeOK, PCs
<1>2. ReaderCountExact'
  BY CountSame DEF ReaderCountExact
<1>3. ThreadShape'
  BY DEF ThreadShape, TypeOK, Registering, Creating
<1> QED
  BY <1>1, <1>2, <1>3 DEF SlotShape, CreatorUnique, FillingOwned, OneSlotPerKey,
                          CacheIsCoherent, Backing, NoCorruption

(* What a thread does to the slot it is filling, outside the mutex: the    *)
(* slot stays FILLING and nobody else is registered on it.                 *)
LEMMA FillingStepPreserves ==
    ASSUME KeyStoreInv, NEW t \in Threads, NEW s \in Slots, wslot[t] = s,
           pc[t] \in Creating, NEW next \in Creating,
           NEW new \in SlotType,
           new.state = "FILLING", new.readers = slots[s].readers,
           next \in {"filling", "filled"} =>
             /\ new.lifetime = req[t].lifetime
             /\ new.id = IF req[t].lifetime = "VOLATILE" THEN s ELSE req[t].id,
           next = "filled" => new.key \in Keys,
           slots' = [slots EXCEPT ![s] = new],
           pc' = [pc EXCEPT ![t] = next],
           nextKey' \in 1 .. MaxKeys + 1,
           UNCHANGED <<storage, initialized, rslot, wslot, req, corrupt>>
    PROVE  KeyStoreInv'
<1> USE DEF KeyStoreInv
<1>1. slots[s].state = "FILLING"
  BY NullsAreNull DEF ThreadShape
<1>2. TypeOK'
  BY DEF TypeOK, PCs, Creating
<1>3. ReaderCountExact'
  <2>1. \A r \in Slots : Cardinality(ReadersOf(r))' = Cardinality(ReadersOf(r))
    BY CountSame
  <2> QED
    BY <2>1 DEF ReaderCountExact, TypeOK
<1>4. SlotShape' /\ OneSlotPerKey' /\ CreatorUnique' /\ FillingOwned'
  BY <1>1 DEF SlotShape, OneSlotPerKey, CreatorUnique, FillingOwned, TypeOK
<1>5. ThreadShape'
  <2>1. \A u \in Threads : u # t => wslot[u] # s
    BY NullsAreNull DEF CreatorUnique
  <2>2. \A u \in Threads : rslot[u] # s
    BY <1>1, NullsAreNull DEF ThreadShape
  <2> QED
    BY <2>1, <2>2, NullsAreNull DEF ThreadShape, TypeOK, Registering, Creating
<1>6. CacheIsCoherent' /\ NoCorruption'
  BY <1>1 DEF CacheIsCoherent, Backing, NoCorruption, TypeOK
<1> QED
  BY <1>2, <1>3, <1>4, <1>5, <1>6

(* The slot a creating thread owns.                                        *)
LEMMA CreatorsSlot ==
    ASSUME KeyStoreInv, NEW t \in Threads, pc[t] \in Creating
    PROVE  /\ wslot[t] \in Slots
           /\ slots[wslot[t]] \in SlotType
           /\ slots[wslot[t]].state = "FILLING"
           /\ slots[wslot[t]].readers = 0
           /\ \A u \in Threads : rslot[u] # wslot[t]
           /\ \A u \in Threads : u # t => wslot[u] # wslot[t]
<1>1. /\ wslot[t] \in Slots /\ slots[wslot[t]] \in SlotType
      /\ slots[wslot[t]].state = "FILLING"
      /\ \A u \in Threads : u # t => wslot[u] # wslot[t]
  BY DEF KeyStoreInv, TypeOK, ThreadShape, CreatorUnique
<1>2. \A u \in Threads : rslot[u] # wslot[t]
  BY <1>1, NullsAreNull DEF KeyStoreInv, ThreadShape
<1>3. ReadersOf(wslot[t]) = {}
  BY <1>2 DEF ReadersOf
<1>4. slots[wslot[t]].readers = 0
  BY <1>1, <1>3, FS_EmptySet DEF KeyStoreInv, ReaderCountExact
<1> QED
  BY <1>1, <1>2, <1>4

\* Writing the attributes into the reserved slot keeps the invariant.
LEMMA SetAttributesPreserves ==
    ASSUME KeyStoreInv, NEW t \in Threads, SetAttributes(t)
    PROVE  KeyStoreInv'
<1> DEFINE s == wslot[t]
           id == IF req[t].lifetime = "VOLATILE" THEN s ELSE req[t].id
           new == [slots[s] EXCEPT !.id = id, !.lifetime = req[t].lifetime]
<1>1. /\ s \in Slots /\ slots[s] \in SlotType /\ slots[s].state = "FILLING"
      /\ pc[t] \in Creating
  BY CreatorsSlot DEF SetAttributes, Creating
<1>2. req[t] \in Attributes
  BY DEF KeyStoreInv, TypeOK
<1>3. id \in KeyIds /\ req[t].lifetime \in Lifetimes
  BY <1>1, <1>2 DEF Attributes, KeyIds, VolatileIds, Lifetimes
<1>4. /\ new \in SlotType /\ new.state = "FILLING" /\ new.readers = slots[s].readers
      /\ new.lifetime = req[t].lifetime /\ new.id = id
  BY <1>1, <1>3 DEF SlotType
<1>5. slots' = [slots EXCEPT ![s] = new]
  BY <1>1 DEF SetAttributes, KeyStoreInv, TypeOK
<1>6. nextKey' \in 1 .. MaxKeys + 1
  BY DEF SetAttributes, KeyStoreInv, TypeOK
<1>7. "filling" \in Creating
  BY DEF Creating
<1> HIDE DEF new
<1> QED
  BY <1>1, <1>4, <1>5, <1>6, <1>7, FillingStepPreserves, ZenonT(40) DEF SetAttributes

\* Writing the key material into the reserved slot keeps the invariant.
LEMMA FillMaterialPreserves ==
    ASSUME KeyStoreInv, NEW t \in Threads, FillMaterial(t)
    PROVE  KeyStoreInv'
<1> DEFINE s == wslot[t]
           new == [slots[s] EXCEPT !.key = nextKey]
<1>1. /\ s \in Slots /\ slots[s] \in SlotType /\ slots[s].state = "FILLING"
      /\ pc[t] \in Creating
  BY CreatorsSlot DEF FillMaterial, Creating
<1>2. nextKey \in Keys /\ nextKey + 1 \in 1 .. MaxKeys + 1
  BY BoundsAreNat DEF KeyStoreInv, TypeOK, FillMaterial, Keys
<1>3. /\ new \in SlotType /\ new.state = "FILLING" /\ new.readers = slots[s].readers
      /\ new.lifetime = slots[s].lifetime /\ new.id = slots[s].id /\ new.key \in Keys
  BY <1>1, <1>2 DEF SlotType, KeyData
<1>4. /\ slots[s].lifetime = req[t].lifetime
      /\ slots[s].id = IF req[t].lifetime = "VOLATILE" THEN s ELSE req[t].id
  BY DEF KeyStoreInv, ThreadShape, FillMaterial
<1>5. slots' = [slots EXCEPT ![s] = new]
  BY <1>1 DEF FillMaterial, KeyStoreInv, TypeOK
<1>6. "filled" \in Creating
  BY DEF Creating
<1>7. /\ nextKey' \in 1 .. MaxKeys + 1
      /\ pc' = [pc EXCEPT ![t] = "filled"]
      /\ UNCHANGED <<storage, initialized, rslot, wslot, req, corrupt>>
  BY <1>2 DEF FillMaterial
<1>8. /\ new.lifetime = req[t].lifetime
      /\ new.id = IF req[t].lifetime = "VOLATILE" THEN s ELSE req[t].id
  BY <1>3, <1>4
<1> HIDE DEF new
<1> QED
  BY <1>1, <1>3, <1>5, <1>6, <1>7, <1>8, FillingStepPreserves

\* A creation whose material cannot be made keeps the invariant.
LEMMA FillFailsPreserves ==
    ASSUME KeyStoreInv, NEW t \in Threads, FillFails(t)
    PROVE  KeyStoreInv'
<1>1. /\ wslot[t] \in Slots /\ slots[wslot[t]] \in SlotType
      /\ slots[wslot[t]].state = "FILLING" /\ pc[t] \in Creating
  BY CreatorsSlot DEF FillFails, Creating
<1>2. slots' = [slots EXCEPT ![wslot[t]] = slots[wslot[t]]]
  BY <1>1 DEF FillFails, KeyStoreInv, TypeOK
<1>3. nextKey' \in 1 .. MaxKeys + 1
  BY DEF FillFails, KeyStoreInv, TypeOK
<1>4. "failing" \in Creating /\ "failing" \notin {"filling", "filled"}
  BY DEF Creating
<1> QED
  BY <1>1, <1>2, <1>3, <1>4, FillingStepPreserves DEF FillFails

(* Saving the key failed; the file may have been left in storage.          *)
LEMMA FinishFailsPreserves ==
    ASSUME KeyStoreInv, NEW t \in Threads, NEW left \in BOOLEAN, FinishFails(t, left)
    PROVE  KeyStoreInv'
<1> DEFINE s == wslot[t]
<1> USE DEF KeyStoreInv
<1>1. /\ s \in Slots /\ slots[s] \in SlotType /\ pc[t] = "filled"
      /\ slots[s].id = req[t].id /\ slots[s].key \in Keys
      /\ req[t].lifetime # "VOLATILE" /\ req[t] \in Attributes
  BY DEF FinishFails, TypeOK, ThreadShape, Creating
<1>2. slots[s].id \in PersistentIds
  BY <1>1 DEF Attributes
<1>3. /\ storage' \in [PersistentIds -> Keys \cup {NoKey}]
      /\ \A id \in PersistentIds : storage[id] # NoKey => storage'[id] = storage[id]
  <2>1. \/ storage' = storage
        \/ /\ storage[slots[s].id] = NoKey
           /\ storage' = [storage EXCEPT ![slots[s].id] = slots[s].key]
    BY Zenon DEF FinishFails
  <2>2. storage \in [PersistentIds -> Keys \cup {NoKey}]
    BY DEF TypeOK
  <2> HIDE DEF s
  <2> QED
    BY <1>1, <1>2, <2>1, <2>2
<1>4. TypeOK'
  BY <1>3 DEF FinishFails, TypeOK, PCs
<1>5. ReaderCountExact'
  BY CountSame DEF ReaderCountExact, FinishFails
<1>6. SlotShape' /\ OneSlotPerKey' /\ CreatorUnique' /\ FillingOwned' /\ NoCorruption'
  BY DEF SlotShape, OneSlotPerKey, CreatorUnique, FillingOwned, NoCorruption, FinishFails
<1>7. ThreadShape'
  BY <1>1 DEF ThreadShape, TypeOK, Registering, Creating, FinishFails
<1>8. CacheIsCoherent'
  <2>1. SUFFICES ASSUME NEW r \in Slots, slots[r].state = "FULL",
                        slots[r].lifetime # "VOLATILE"
                 PROVE  slots[r].key = Backing(slots[r].id)'
    BY DEF CacheIsCoherent, FinishFails
  <2>2. slots[r].key = Backing(slots[r].id) /\ slots[r].key # NoKey
    BY <2>1 DEF CacheIsCoherent, SlotShape
  <2> QED
    BY <1>3, <2>2 DEF Backing, FinishFails
<1> QED
  BY <1>4, <1>5, <1>6, <1>7, <1>8

\* NoRequest, what a thread that creates no key has in req, has the type of
\* the attributes.
LEMMA NoRequestType == NoRequest \in Attributes
BY DEF NoRequest, Attributes

(* The creator gives its slot up, filled or wiped.                         *)
LEMMA FinishKeyCreationPreserves ==
    ASSUME KeyStoreInv, NEW t \in Threads, FinishKeyCreation(t)
    PROVE  KeyStoreInv'
<1> DEFINE s == wslot[t]
           new == [slots[s] EXCEPT !.state = "FULL"]
<1> USE DEF KeyStoreInv
<1>1. /\ s \in Slots /\ slots[s] \in SlotType /\ slots[s].state = "FILLING"
      /\ slots[s].readers = 0 /\ pc[t] = "filled"
      /\ \A u \in Threads : rslot[u] # s
      /\ \A u \in Threads : u # t => wslot[u] # s
  BY CreatorsSlot DEF FinishKeyCreation, Creating
<1>2. /\ slots[s].lifetime = req[t].lifetime /\ req[t] \in Attributes
      /\ slots[s].id = IF req[t].lifetime = "VOLATILE" THEN s ELSE req[t].id
      /\ slots[s].key \in Keys
  BY <1>1 DEF ThreadShape, TypeOK
<1>3. /\ slots[s].lifetime = "VOLATILE" => slots[s].id = s
      /\ slots[s].lifetime # "VOLATILE" =>
           slots[s].id \in PersistentIds /\ slots[s].lifetime = "PERSISTENT"
  BY <1>2 DEF Attributes
<1>4. slots[s].key # NoKey
  BY <1>2, NullsAreNull DEF Keys
<1>5. /\ new \in SlotType /\ new.state = "FULL" /\ new.readers = 0
      /\ new.id = slots[s].id /\ new.lifetime = slots[s].lifetime /\ new.key = slots[s].key
  BY <1>1 DEF SlotType, SlotStates
<1>6. slots' = [slots EXCEPT ![s] = new]
  BY <1>1 DEF FinishKeyCreation, TypeOK
<1>7. \/ slots[s].lifetime = "VOLATILE" /\ storage' = storage
      \/ /\ slots[s].lifetime = "PERSISTENT"
         /\ storage[slots[s].id] = NoKey
         /\ storage' = [storage EXCEPT ![slots[s].id] = slots[s].key]
  BY <1>3 DEF FinishKeyCreation
<1>8. /\ wslot' = [wslot EXCEPT ![t] = NoSlot]
      /\ pc' = [pc EXCEPT ![t] = IF rslot[t] = NoSlot THEN "idle" ELSE "using"]
      /\ corrupt' = corrupt
      /\ UNCHANGED <<initialized, rslot, nextKey>>
      /\ req' = [req EXCEPT ![t] = NoRequest]
  BY <1>1 DEF FinishKeyCreation, AfterCreation, TypeOK
<1> HIDE DEF s, new
<1>9. TypeOK'
  BY <1>1, <1>2, <1>3, <1>5, <1>6, <1>7, <1>8, NoRequestType DEF TypeOK, PCs
<1>10. ReaderCountExact'
  <2>1. \A r \in Slots : Cardinality(ReadersOf(r))' = Cardinality(ReadersOf(r))
    BY <1>8, CountSame
  <2> QED
    BY <1>1, <1>5, <1>6, <2>1 DEF ReaderCountExact, TypeOK
<1>11. SlotShape'
  BY <1>1, <1>3, <1>4, <1>5, <1>6 DEF SlotShape, TypeOK
<1>12. ThreadShape'
  BY <1>1, <1>6, <1>8, NullsAreNull DEF ThreadShape, TypeOK, Registering, Creating
<1>13. CreatorUnique' /\ FillingOwned'
  <2>1. CreatorUnique'
    BY <1>8 DEF CreatorUnique, TypeOK
  <2>2. \A r \in Slots : slots'[r].state = "FILLING" => r # s /\ slots[r].state = "FILLING"
    BY <1>1, <1>5, <1>6 DEF TypeOK
  <2>3. \A u \in Threads, r \in Slots : wslot[u] = r /\ r # s => wslot'[u] = r
    BY <1>8 DEF s, TypeOK
  <2> QED
    BY <2>1, <2>2, <2>3 DEF FillingOwned
<1>14. \A r \in Slots : r # s /\ slots[r].state = "FULL" => slots[r].id # slots[s].id
  <2>1. SUFFICES ASSUME NEW r \in Slots, r # s, slots[r].state = "FULL",
                        slots[r].id = slots[s].id
                 PROVE  FALSE
    OBVIOUS
  <2>2. slots[r].lifetime \in Lifetimes
    BY DEF TypeOK, SlotType
  <2>3. CASE slots[s].lifetime = "VOLATILE"
    <3>1. slots[r].id \in Int
      BY <1>1, <1>3, <2>1, <2>3, SlotsAreNat
    <3> QED
      BY <1>3, <2>1, <2>2, <2>3, <3>1, IdRangesDisjoint DEF SlotShape, Lifetimes
  <2>4. CASE slots[s].lifetime = "PERSISTENT"
    <3>1. slots[r].id \in PersistentIds /\ storage[slots[r].id] = NoKey
      BY <1>3, <1>7, <2>1, <2>4
    <3>2. slots[r].lifetime # "VOLATILE"
      BY <2>1, <3>1, SlotsAreNat, IdRangesDisjoint DEF SlotShape
    <3>3. slots[r].key = NoKey
      BY <2>1, <3>1, <3>2, IdRangesDisjoint DEF CacheIsCoherent, Backing
    <3> QED
      BY <2>1, <3>3 DEF SlotShape
  <2> QED
    BY <1>7, <2>3, <2>4
<1>15. OneSlotPerKey'
  BY <1>1, <1>5, <1>6, <1>14 DEF OneSlotPerKey, TypeOK
<1>16. CacheIsCoherent'
  <2>1. \A r \in Slots : r # s => slots'[r] = slots[r]
    BY <1>1, <1>6 DEF TypeOK
  <2>2. slots'[s] = new
    BY <1>1, <1>6 DEF TypeOK
  <2>3. \A id \in PersistentIds : id # slots[s].id => storage'[id] = storage[id]
    BY <1>7 DEF TypeOK
  <2>4. slots[s].lifetime # "VOLATILE" =>
          slots[s].id \in PersistentIds /\ storage'[slots[s].id] = slots[s].key
    BY <1>3, <1>7 DEF TypeOK
  <2>5. SUFFICES ASSUME NEW r \in Slots, slots'[r].state = "FULL",
                        slots'[r].lifetime # "VOLATILE"
                 PROVE  slots'[r].key = IF slots'[r].id \in BuiltinIds THEN slots'[r].id
                                        ELSE IF slots'[r].id \in PersistentIds
                                             THEN storage'[slots'[r].id] ELSE NoKey
    BY DEF CacheIsCoherent, Backing
  <2>6. CASE r = s
    BY <1>5, <2>2, <2>4, <2>5, <2>6, IdRangesDisjoint
  <2>7. CASE r # s
    <3>1. slots'[r] = slots[r] /\ slots[r].id # slots[s].id
      BY <1>14, <2>1, <2>5, <2>7
    <3> QED
      BY <2>3, <2>5, <3>1 DEF CacheIsCoherent, Backing
  <2> QED
    BY <2>6, <2>7
<1>17. NoCorruption'
  BY <1>8 DEF NoCorruption
<1> QED
  BY <1>9, <1>10, <1>11, <1>12, <1>13, <1>15, <1>16, <1>17

\* psa_fail_key_creation() wipes the reserved slot and keeps the invariant.
LEMMA FailKeyCreationPreserves ==
    ASSUME KeyStoreInv, NEW t \in Threads, FailKeyCreation(t)
    PROVE  KeyStoreInv'
<1> DEFINE s == wslot[t]
<1> USE DEF KeyStoreInv
<1>1. /\ s \in Slots /\ slots[s].state = "FILLING"
      /\ slots[s].readers = 0 /\ pc[t] = "failing"
      /\ \A u \in Threads : rslot[u] # s
      /\ \A u \in Threads : u # t => wslot[u] # s
  BY CreatorsSlot DEF FailKeyCreation, Creating
<1>2. WipeAllowed(slots[s])
  BY <1>1 DEF WipeAllowed
<1>3. /\ slots' = [slots EXCEPT ![s] = ZeroSlot]
      /\ corrupt' = corrupt
      /\ wslot' = [wslot EXCEPT ![t] = NoSlot]
      /\ pc' = [pc EXCEPT ![t] = IF rslot[t] = NoSlot THEN "idle" ELSE "using"]
      /\ UNCHANGED <<storage, initialized, rslot, nextKey>>
      /\ req' = [req EXCEPT ![t] = NoRequest]
  BY <1>2 DEF FailKeyCreation, AfterCreation, TypeOK
<1>4. ZeroSlot.state = "EMPTY" /\ ZeroSlot.readers = 0
  BY DEF ZeroSlot
<1>5. TypeOK'
  BY <1>1, <1>3, ZeroSlotType, NoRequestType DEF TypeOK, PCs
<1>6. ReaderCountExact'
  <2>1. \A r \in Slots : Cardinality(ReadersOf(r))' = Cardinality(ReadersOf(r))
    BY <1>3, CountSame
  <2> QED
    BY <1>1, <1>3, <1>4, <2>1 DEF ReaderCountExact, TypeOK
<1> HIDE DEF s
<1>7. SlotShape' /\ OneSlotPerKey'
  BY <1>1, <1>3, <1>4 DEF SlotShape, OneSlotPerKey, TypeOK
<1>8. ThreadShape'
  BY <1>1, <1>3, NullsAreNull DEF ThreadShape, TypeOK, Registering, Creating
<1>9. CreatorUnique' /\ FillingOwned'
  <2>1. CreatorUnique'
    BY <1>3 DEF CreatorUnique, TypeOK
  <2>2. \A r \in Slots : slots'[r].state = "FILLING" => r # s /\ slots[r].state = "FILLING"
    BY <1>1, <1>3, <1>4 DEF TypeOK
  <2>3. \A u \in Threads, r \in Slots : wslot[u] = r /\ r # s => wslot'[u] = r
    BY <1>3 DEF s, TypeOK
  <2> QED
    BY <2>1, <2>2, <2>3 DEF FillingOwned
<1>10. CacheIsCoherent' /\ NoCorruption'
  BY <1>1, <1>3, <1>4 DEF CacheIsCoherent, Backing, NoCorruption, TypeOK
<1> QED
  BY <1>5, <1>6, <1>7, <1>8, <1>9, <1>10

-----------------------------------------------------------------------------
(* Nobody holds anything: start, shutdown and restart.                     *)
LEMMA QuietState ==
    ASSUME TypeOK, corrupt = FALSE,
           slots = [s \in Slots |-> ZeroSlot],
           \A t \in Threads : pc[t] = "idle" /\ rslot[t] = NoSlot /\ wslot[t] = NoSlot
    PROVE  KeyStoreInv
<1>1. \A s \in Slots : slots[s].state = "EMPTY" /\ slots[s].readers = 0
  BY DEF ZeroSlot
<1>2. ReaderCountExact
  <2>1. \A s \in Slots : ReadersOf(s) = {}
    BY NullsAreNull DEF ReadersOf
  <2> QED
    BY <1>1, <2>1, FS_EmptySet DEF ReaderCountExact
<1>3. SlotShape /\ OneSlotPerKey /\ CacheIsCoherent /\ FillingOwned
  BY <1>1 DEF SlotShape, OneSlotPerKey, CacheIsCoherent, FillingOwned
<1>4. ThreadShape /\ CreatorUnique /\ NoCorruption
  BY DEF ThreadShape, CreatorUnique, NoCorruption, Registering, Creating
<1> QED
  BY <1>2, <1>3, <1>4 DEF KeyStoreInv

\* The store after psa_initialize_key_slots() satisfies the invariant.
LEMMA InitEstablishes == Init => KeyStoreInv
<1> SUFFICES ASSUME Init PROVE KeyStoreInv
  OBVIOUS
<1>1. slots \in [Slots -> SlotType] /\ storage \in [PersistentIds -> Keys \cup {NoKey}]
  BY ZeroSlotType DEF Init
<1>2. NoRequest \in Attributes
  BY NoRequestType
<1>3. req \in [Threads -> Attributes]
  BY <1>2 DEF Init
<1>4. /\ pc \in [Threads -> PCs]
      /\ rslot \in [Threads -> Slots \cup {NoSlot}]
      /\ wslot \in [Threads -> Slots \cup {NoSlot}]
  BY DEF Init, PCs
<1>5. nextKey \in 1 .. MaxKeys + 1
  BY BoundsAreNat DEF Init
<1>6. initialized \in BOOLEAN /\ corrupt \in BOOLEAN
  BY DEF Init
<1>7. TypeOK
  BY <1>1, <1>3, <1>4, <1>5, <1>6 DEF TypeOK
<1> QED
  BY <1>7, QuietState DEF Init

\* Shutdown, start-up and a crash keep the invariant.
LEMMA LifePreserves ==
    ASSUME KeyStoreInv, CryptoFree \/ CryptoInit \/ Crash
    PROVE  KeyStoreInv'
<1>1. CASE CryptoInit
  BY <1>1 DEF CryptoInit, KeyStoreInv, TypeOK, ReaderCountExact, ReadersOf, SlotShape,
              ThreadShape, CreatorUnique, FillingOwned, OneSlotPerKey, CacheIsCoherent,
              Backing, NoCorruption
<1>2. CASE CryptoFree \/ Crash
  <2>1. TypeOK'
    <3>1. /\ slots' = [s \in Slots |-> ZeroSlot] /\ initialized' = FALSE
          /\ UNCHANGED <<storage, nextKey, corrupt>>
      BY <1>2 DEF CryptoFree, Crash
    <3>2. \/ UNCHANGED <<pc, rslot, wslot, req>>
          \/ /\ pc' = [t \in Threads |-> "idle"] /\ req' = [t \in Threads |-> NoRequest]
             /\ rslot' = [t \in Threads |-> NoSlot] /\ wslot' = [t \in Threads |-> NoSlot]
      BY <1>2 DEF CryptoFree, Crash
    <3>3. /\ pc' \in [Threads -> PCs] /\ req' \in [Threads -> Attributes]
          /\ rslot' \in [Threads -> Slots \cup {NoSlot}]
          /\ wslot' \in [Threads -> Slots \cup {NoSlot}]
      BY <3>2, NoRequestType DEF KeyStoreInv, TypeOK, PCs
    <3>4. slots' \in [Slots -> SlotType]
      BY <3>1, ZeroSlotType
    <3> QED
      BY <3>1, <3>3, <3>4 DEF KeyStoreInv, TypeOK
  <2>2. /\ corrupt' = FALSE
        /\ slots' = [s \in Slots |-> ZeroSlot]
    BY <1>2 DEF CryptoFree, Crash, KeyStoreInv, NoCorruption, TypeOK
  <2>3. \A t \in Threads : pc'[t] = "idle" /\ rslot'[t] = NoSlot /\ wslot'[t] = NoSlot
    BY <1>2 DEF CryptoFree, Crash, KeyStoreInv, ThreadShape
  <2>4. (\A s \in Slots : slots[s].state = "EMPTY" /\ slots[s].readers = 0)'
    BY <2>2 DEF ZeroSlot
  <2>5. ReaderCountExact'
    <3>1. \A s \in Slots : ReadersOf(s)' = {}
      BY <2>3, NullsAreNull DEF ReadersOf
    <3> QED
      BY <2>4, <3>1, FS_EmptySet DEF ReaderCountExact
  <2>6. SlotShape' /\ OneSlotPerKey' /\ CacheIsCoherent' /\ FillingOwned'
    BY <2>4 DEF SlotShape, OneSlotPerKey, CacheIsCoherent, FillingOwned
  <2>7. ThreadShape' /\ CreatorUnique' /\ NoCorruption'
    BY <2>2, <2>3 DEF ThreadShape, CreatorUnique, NoCorruption, Registering, Creating
  <2> QED
    BY <2>1, <2>5, <2>6, <2>7 DEF KeyStoreInv
<1> QED
  BY <1>1, <1>2

\* The first step of every API call keeps the invariant.
LEMMA CallPreserves ==
    ASSUME KeyStoreInv, NEW t \in Threads, Call(t)
    PROVE  KeyStoreInv'
<1>0. "using" \in Registering /\ "destroying" \in Registering /\ "copying" \in Registering
  BY DEF Registering
<1>1. ASSUME NEW id \in KeyIds, BeginUse(t, id) \/ BeginDestroy(t, id) \/ BeginCopy(t, id)
      PROVE  KeyStoreInv'
  BY <1>0, <1>1, GetAndLockPreserves DEF BeginUse, BeginDestroy, BeginCopy
<1>2. ASSUME NEW id \in KeyIds, LockFails(t, id) PROVE KeyStoreInv'
  BY <1>2, LockFailsPreserves
<1>3. ASSUME NEW id \in KeyIds, CloseKey(t, id) \/ PurgeKey(t, id) PROVE KeyStoreInv'
  BY <1>3, ForgetPreserves DEF CloseKey, PurgeKey
<1>4. ASSUME NEW attr \in Attributes, BeginCreate(t, attr) PROVE KeyStoreInv'
  BY <1>4, StartKeyCreationPreserves DEF BeginCreate
<1> QED
  BY <1>1, <1>2, <1>3, <1>4 DEF Call

\* Every later step of an API call keeps the invariant.
LEMMA ContinuePreserves ==
    ASSUME KeyStoreInv, NEW t \in Threads, Continue(t)
    PROVE  KeyStoreInv'
<1>1. ASSUME NEW attr \in Attributes, CopyTarget(t, attr) PROVE KeyStoreInv'
  BY <1>1, StartKeyCreationPreserves DEF CopyTarget
<1>2. ASSUME NEW b \in BOOLEAN, DestroyKey(t, b) \/ FinishFails(t, b) PROVE KeyStoreInv'
  BY <1>2, DestroyKeyPreserves, FinishFailsPreserves
<1> QED
  BY <1>1, <1>2, EndUsePreserves, DestroyTooLatePreserves, CopyRefusedPreserves,
     SetAttributesPreserves, FillMaterialPreserves, FillFailsPreserves,
     FinishKeyCreationPreserves, FailKeyCreationPreserves
     DEF Continue

\* A step that changes no variable keeps the invariant.
LEMMA StutterPreserves ==
    ASSUME KeyStoreInv, UNCHANGED vars
    PROVE  KeyStoreInv'
BY DEF vars, KeyStoreInv, TypeOK, ReaderCountExact, ReadersOf, SlotShape, ThreadShape,
       CreatorUnique, FillingOwned, OneSlotPerKey, CacheIsCoherent, Backing, NoCorruption

(* The inductive invariant holds in every reachable state of the key       *)
(* store, for any number of threads, slots, identifiers and keys.          *)
THEOREM KeyStoreInvariant == Spec => []KeyStoreInv
<1>1. KeyStoreInv /\ [Next]_vars => KeyStoreInv'
  <2> SUFFICES ASSUME KeyStoreInv, [Next]_vars PROVE KeyStoreInv'
    OBVIOUS
  <2>1. CASE UNCHANGED vars
    BY <2>1, StutterPreserves
  <2>2. ASSUME NEW t \in Threads, Call(t) \/ Continue(t) PROVE KeyStoreInv'
    BY <2>2, CallPreserves, ContinuePreserves
  <2>3. CASE CryptoFree \/ CryptoInit \/ Crash
    BY <2>3, LifePreserves
  <2> QED
    BY <2>1, <2>2, <2>3 DEF Next
<1> QED
  BY <1>1, InitEstablishes, PTL DEF Spec

(* psa_crypto_slot_management.c keeps its state well typed.                *)
THEOREM KeyStoreTypeOK == Spec => []TypeOK
<1>1. KeyStoreInv => TypeOK
  BY DEF KeyStoreInv
<1> QED
  BY <1>1, KeyStoreInvariant, PTL

(* registered_readers always equals the number of threads between          *)
(* psa_get_and_lock_key_slot() and psa_unregister_read().                  *)
THEOREM ReaderCountIsExact == Spec => []ReaderCountExact
<1>1. KeyStoreInv => ReaderCountExact
  BY DEF KeyStoreInv
<1> QED
  BY <1>1, KeyStoreInvariant, PTL

(* The slots answering for two identifiers are different: no interleaving  *)
(* of creation, loading, eviction and destruction duplicates a key.        *)
THEOREM KeysAreNotDuplicated == Spec => []OneSlotPerKey
<1>1. KeyStoreInv => OneSlotPerKey
  BY DEF KeyStoreInv
<1> QED
  BY <1>1, KeyStoreInvariant, PTL

(* A cached persistent or built-in key is always the stored one.           *)
THEOREM CacheStaysCoherent == Spec => []CacheIsCoherent
<1>1. KeyStoreInv => CacheIsCoherent
  BY DEF KeyStoreInv
<1> QED
  BY <1>1, KeyStoreInvariant, PTL

(* A FILLING slot belongs to exactly one creating thread.                  *)
THEOREM FillingIsExclusive == Spec => []FillingHasOneCreator
<1>1. KeyStoreInv => FillingHasOneCreator
  <2> SUFFICES ASSUME KeyStoreInv, NEW s \in Slots
               PROVE  Cardinality(CreatorsOf(s)) =
                        IF slots[s].state = "FILLING" THEN 1 ELSE 0
    BY DEF FillingHasOneCreator
  <2>1. CASE slots[s].state = "FILLING"
    <3>1. PICK t \in Threads : wslot[t] = s
      BY <2>1 DEF KeyStoreInv, FillingOwned
    <3>2. CreatorsOf(s) = {t}
      BY <3>1, NullsAreNull DEF CreatorsOf, KeyStoreInv, CreatorUnique
    <3> QED
      BY <2>1, <3>2, FS_Singleton
  <2>2. CASE slots[s].state # "FILLING"
    <3>1. CreatorsOf(s) = {}
      BY <2>2, NullsAreNull DEF CreatorsOf, KeyStoreInv, ThreadShape
    <3> QED
      BY <2>2, <3>1, FS_EmptySet
  <2> QED
    BY <2>1, <2>2
<1> QED
  BY <1>1, KeyStoreInvariant, PTL

(* No branch that returns PSA_ERROR_CORRUPTION_DETECTED is ever taken.     *)
THEOREM CorruptionIsUnreachable == Spec => []NoCorruption
<1>1. KeyStoreInv => NoCorruption
  BY DEF KeyStoreInv
<1> QED
  BY <1>1, KeyStoreInvariant, PTL

-----------------------------------------------------------------------------
(* PsaKeyStore implements PsaKeyApi.                                       *)

\* Slots with the only copy of their key: that of a volatile key, and the
\* slot of a thread that has written the key material and has not finished.
Private(s) ==
    \/ slots[s].state = "FULL" /\ slots[s].lifetime = "VOLATILE"
    \/ \E t \in Threads : pc[t] = "filled" /\ wslot[t] = s

\* Key objects are numbered in the order of their creation, and no other
\* slot and no file has the key of a private slot.  Without this a reader of
\* an old key could be taken for a reader of the key that is being closed.
KeysAreOwn ==
    /\ \A s \in Slots : slots[s].key \in Keys => slots[s].key < nextKey
    /\ \A id \in PersistentIds : storage[id] \in Keys => storage[id] < nextKey
    /\ \A s \in Slots : Private(s) =>
         /\ slots[s].key \in Keys
         /\ \A r \in Slots : slots[r].key = slots[s].key => r = s
         /\ \A id \in PersistentIds : storage[id] # slots[s].key

\* The mapped variables of PsaKeyApi, by thread and as a set.
HeldBy(t) == IF rslot[t] = NoSlot THEN NoKey ELSE slots[rslot[t]].key
Spent == {k \in 1 .. nextKey - 1 : ~InCreation(k)}

(* What callers see is the same if every identifier has the same key,      *)
(* every thread the same key in its hands, and no creation ended.          *)
LEMMA SameView ==
    ASSUME \A id \in KeyIds : KeyOf(id)' = KeyOf(id),
           \A t \in Threads : HeldBy(t)' = HeldBy(t),
           Spent' = Spent
    PROVE  UNCHANGED Api!apiVars
BY DEF Api!apiVars, HeldBy, Spent

\* The start of a use in PsaKeyApi.
LEMMA AcquireView ==
    ASSUME NEW t \in Threads, NEW id \in KeyIds,
           HeldBy(t) = NoKey, KeyOf(id) # NoKey, HeldBy(t)' = KeyOf(id),
           \A i \in KeyIds : KeyOf(i)' = KeyOf(i),
           \A u \in Threads : u # t => HeldBy(u)' = HeldBy(u),
           Spent' = Spent
    PROVE  Api!Acquire(t, id)
BY DEF Api!Acquire, HeldBy, Spent

\* The end of a use in PsaKeyApi.
LEMMA ReleaseView ==
    ASSUME NEW t \in Threads, HeldBy(t)' = NoKey,
           \A i \in KeyIds : KeyOf(i)' = KeyOf(i),
           \A u \in Threads : u # t => HeldBy(u)' = HeldBy(u),
           Spent' = Spent
    PROVE  Api!Release(t)
BY DEF Api!Release, HeldBy, Spent

\* The destruction of a key in PsaKeyApi.
LEMMA DestroyView ==
    ASSUME NEW t \in Threads, NEW id \in KeyIds, id \notin BuiltinIds,
           KeyOf(id) = HeldBy(t), KeyOf(id)' = NoKey, HeldBy(t)' = NoKey,
           \A i \in KeyIds : i # id => KeyOf(i)' = KeyOf(i),
           \A u \in Threads : u # t => HeldBy(u)' = HeldBy(u),
           Spent' = Spent
    PROVE  Api!Destroy(t, id)
BY DEF Api!Destroy, HeldBy, Spent

\* The creation of a key in PsaKeyApi.
LEMMA CreateView ==
    ASSUME NEW id \in KeyIds, NEW k, KeyOf(id) = NoKey, KeyOf(id)' = k, k \notin Spent,
           \A i \in KeyIds : i # id => KeyOf(i)' = KeyOf(i),
           \A u \in Threads : HeldBy(u)' = HeldBy(u),
           Spent' = Spent \cup {k}
    PROVE  Api!Create(id, k)
BY DEF Api!Create, HeldBy, Spent

\* A creation that fails in PsaKeyApi.
LEMMA AbandonView ==
    ASSUME NEW k,
           \A i \in KeyIds : KeyOf(i)' = KeyOf(i),
           \A u \in Threads : HeldBy(u)' = HeldBy(u),
           Spent' = Spent \cup {k}
    PROVE  Api!Abandon(k)
BY DEF Api!Abandon, HeldBy, Spent

\* The handle of a volatile key is closed in PsaKeyApi.
LEMMA CloseView ==
    ASSUME NEW id \in KeyIds, id \in VolatileIds, KeyOf(id)' = NoKey,
           \A u \in Threads : HeldBy(u) # KeyOf(id),
           \A i \in KeyIds : i # id => KeyOf(i)' = KeyOf(i),
           \A u \in Threads : HeldBy(u)' = HeldBy(u),
           Spent' = Spent
    PROVE  Api!Close(id)
BY DEF Api!Close, HeldBy, Spent

\* A restart in PsaKeyApi.
LEMMA RestartView ==
    ASSUME \A i \in KeyIds : KeyOf(i)' = IF i \in VolatileIds THEN NoKey ELSE KeyOf(i),
           \A u \in Threads : HeldBy(u)' = NoKey,
           Spent \subseteq Spent', Spent' \subseteq Keys
    PROVE  Api!Restart
BY DEF Api!Restart, Api!KeyIds, KeyIds, HeldBy, Spent

(* How one slot changes what callers see.                                  *)
LEMMA OneSlotView ==
    ASSUME TypeOK, NEW s \in Slots, NEW new, slots' = [slots EXCEPT ![s] = new],
           storage' = storage
    PROVE  /\ \A id \in KeyIds : id # s => KeyOf(id)' = KeyOf(id)
           /\ KeyOf(s) = IF slots[s].state = "FULL" /\ slots[s].id = s
                         THEN slots[s].key ELSE NoKey
           /\ KeyOf(s)' = IF new.state = "FULL" /\ new.id = s THEN new.key ELSE NoKey
           /\ \A u \in Threads : rslot'[u] = rslot[u] /\ (rslot[u] # s \/ new.key = slots[s].key)
                => HeldBy(u)' = HeldBy(u)
<1>1. slots'[s] = new /\ \A r \in Slots : r # s => slots'[r] = slots[r]
  BY DEF TypeOK
<1>2. \A id \in KeyIds : id # s => KeyOf(id)' = KeyOf(id)
  BY <1>1 DEF KeyOf, Backing, VolatileIds
<1>3. /\ KeyOf(s) = IF slots[s].state = "FULL" /\ slots[s].id = s
                    THEN slots[s].key ELSE NoKey
      /\ KeyOf(s)' = IF new.state = "FULL" /\ new.id = s THEN new.key ELSE NoKey
  BY <1>1 DEF KeyOf, VolatileIds
<1>4. ASSUME NEW u \in Threads, rslot'[u] = rslot[u], rslot[u] # s \/ new.key = slots[s].key
      PROVE  HeldBy(u)' = HeldBy(u)
  BY <1>1, <1>4 DEF HeldBy, TypeOK
<1> QED
  BY <1>2, <1>3, <1>4

(* No creation begins its last step or ends.                               *)
LEMMA SameSpent ==
    ASSUME nextKey' = nextKey,
           \A t \in Threads : pc'[t] = "filled" <=> pc[t] = "filled",
           \A t \in Threads : pc[t] = "filled" =>
                slots'[wslot'[t]].key = slots[wslot[t]].key
    PROVE  Spent' = Spent
<1>1. \A k : InCreation(k)' <=> InCreation(k)
  BY DEF InCreation
<1> QED
  BY <1>1 DEF Spent

(* KeysAreOwn when one slot changes: its key stays, is wiped or is loaded, *)
(* and what is saved is the key of that slot, no longer private.           *)
LEMMA OwnKept ==
    ASSUME TypeOK, KeysAreOwn, NEW s \in Slots, NEW new,
           slots' = [slots EXCEPT ![s] = new],
           nextKey' = nextKey,
           \/ new.key = slots[s].key
           \/ new.key \notin Keys
           \/ \E id \in PersistentIds : new.key = storage[id],
           \A r \in Slots : Private(r)' => Private(r) /\ (r = s => new.key = slots[s].key),
           \A id \in PersistentIds :
                \/ storage'[id] = storage[id]
                \/ storage'[id] \notin Keys
                \/ storage'[id] = slots[s].key /\ ~Private(s)'
    PROVE  KeysAreOwn'
<1>1. slots'[s] = new /\ \A r \in Slots : r # s => slots'[r] = slots[r]
  BY DEF TypeOK
<1>2. \A r \in Slots : \/ slots'[r].key = slots[r].key
                       \/ slots'[r].key \notin Keys
                       \/ \E id \in PersistentIds : slots'[r].key = storage[id]
  BY <1>1
<1>3. \A r \in Slots : slots'[r].key \in Keys => slots'[r].key < nextKey
  BY <1>2 DEF KeysAreOwn
<1>4. \A id \in PersistentIds : storage'[id] \in Keys => storage'[id] < nextKey
  BY DEF KeysAreOwn
<1>5. ASSUME NEW r \in Slots, Private(r)'
      PROVE  /\ slots'[r].key \in Keys
             /\ \A q \in Slots : slots'[q].key = slots'[r].key => q = r
             /\ \A id \in PersistentIds : storage'[id] # slots'[r].key
  <2>1. Private(r) /\ slots'[r].key = slots[r].key
    BY <1>1, <1>5
  <2>2. /\ slots[r].key \in Keys
        /\ \A q \in Slots : slots[q].key = slots[r].key => q = r
        /\ \A id \in PersistentIds : storage[id] # slots[r].key
    BY <2>1 DEF KeysAreOwn
  <2>3. \A q \in Slots : slots'[q].key = slots'[r].key => q = r
    BY <1>2, <2>1, <2>2
  <2>4. \A id \in PersistentIds : storage'[id] # slots'[r].key
    BY <1>5, <2>1, <2>2
  <2> QED
    BY <2>1, <2>2, <2>3, <2>4
<1> QED
  BY <1>3, <1>4, <1>5 DEF KeysAreOwn

\* The invariant of the refinement.
ApiInv == KeyStoreInv /\ KeysAreOwn

\* What every step does to it and to the view of the callers.
Refined == KeysAreOwn' /\ [Api!ApiNext]_Api!apiVars

(* A slot that nobody reads or has filled and that shows no volatile key,  *)
(* before or after, is reserved, written or wiped.                         *)
LEMMA UnseenSlot ==
    ASSUME ApiInv, NEW s \in Slots, NEW new,
           slots' = [slots EXCEPT ![s] = new],
           UNCHANGED <<storage, rslot, nextKey>>,
           \A u \in Threads : rslot[u] # s,
           new.key = slots[s].key \/ new.key \notin Keys,
           new.state # "FULL",
           slots[s].state = "FULL" => slots[s].lifetime # "VOLATILE",
           \A u \in Threads :
                /\ pc'[u] = "filled" <=> pc[u] = "filled"
                /\ pc[u] = "filled" => wslot'[u] = wslot[u] /\ wslot[u] # s
    PROVE  Refined
<1>1. TypeOK /\ KeysAreOwn /\ SlotShape
  BY DEF ApiInv, KeyStoreInv
<1>2. slots'[s] = new /\ \A r \in Slots : r # s => slots'[r] = slots[r]
  BY <1>1 DEF TypeOK
<1>3. KeysAreOwn'
  <2>1. \A r \in Slots : Private(r)' => Private(r) /\ r # s
    BY <1>2 DEF Private
  <2> QED
    BY <1>1, <2>1, OwnKept
<1>4. ~(slots[s].state = "FULL" /\ slots[s].id = s)
  BY <1>1, SlotsAreNat, IdRangesDisjoint DEF SlotShape, TypeOK, SlotType, Lifetimes
<1>5. \A id \in KeyIds : KeyOf(id)' = KeyOf(id)
  BY <1>1, <1>4, OneSlotView
<1>6. \A u \in Threads : HeldBy(u)' = HeldBy(u)
  BY <1>1, OneSlotView
<1>7. Spent' = Spent
  <2>1. \A t \in Threads : pc[t] = "filled" => wslot[t] \in Slots
    BY <1>1 DEF ApiInv, KeyStoreInv, ThreadShape, Creating, TypeOK
  <2> QED
    BY <1>2, <2>1, SameSpent
<1> QED
  BY <1>3, <1>5, <1>6, <1>7, SameView DEF Refined

\* A step that changes no slot, file or registration, and no creation.
LEMMA NothingSeen ==
    ASSUME ApiInv, UNCHANGED <<slots, storage, rslot, wslot, nextKey>>,
           \A u \in Threads : pc'[u] = "filled" <=> pc[u] = "filled"
    PROVE  Refined
<1>1. \A s : Private(s)' <=> Private(s)
  BY DEF Private
<1>2. KeysAreOwn'
  BY <1>1 DEF ApiInv, KeysAreOwn
<1>3. Spent' = Spent
  BY SameSpent
<1>4. \A id \in KeyIds : KeyOf(id)' = KeyOf(id)
  BY DEF KeyOf, Backing
<1>5. \A u \in Threads : HeldBy(u)' = HeldBy(u)
  BY DEF HeldBy
<1> QED
  BY <1>2, <1>3, <1>4, <1>5, SameView DEF Refined

-----------------------------------------------------------------------------
(* The operations, step by step.                                           *)

\* A call that finds its key, in memory or by loading it, acquires it.
LEMMA GetAndLockRefines ==
    ASSUME ApiInv, NEW t \in Threads, NEW id \in KeyIds, NEW next \in Registering,
           pc[t] = "idle", GetAndLock(t, id, next)
    PROVE  Refined
<1> USE DEF ApiInv, KeyStoreInv
<1>1. rslot[t] = NoSlot
  BY DEF ThreadShape
<1>2. /\ \A u \in Threads : pc'[u] = "filled" <=> pc[u] = "filled"
      /\ \A u \in Threads : u # t => rslot'[u] = rslot[u]
      /\ wslot' = wslot /\ nextKey' = nextKey /\ storage' = storage
  BY DEF GetAndLock, LockInMemory, LockAfterLoading, TypeOK, Registering
<1>3. \A u \in Threads : pc[u] = "filled" =>
        wslot[u] \in Slots /\ slots[wslot[u]].state = "FILLING"
  BY DEF ThreadShape, Creating, TypeOK
<1>4. ASSUME NEW s \in Slots, NEW new,
             slots' = [slots EXCEPT ![s] = new], rslot'[t] = s,
             slots[s].state # "FILLING",
             KeyOf(id) # NoKey, new.key = KeyOf(id), KeysAreOwn',
             KeyOf(s)' = KeyOf(s),
             \A u \in Threads : u # t => rslot[u] # s \/ new.key = slots[s].key
      PROVE  Refined
  <2>1. \A i \in KeyIds : KeyOf(i)' = KeyOf(i)
    BY <1>2, <1>4, OneSlotView
  <2>2. \A u \in Threads : u # t => HeldBy(u)' = HeldBy(u)
    BY <1>2, <1>4 DEF HeldBy, TypeOK
  <2>3. Spent' = Spent
    BY <1>2, <1>3, <1>4, SameSpent DEF TypeOK
  <2>4. HeldBy(t) = NoKey /\ HeldBy(t)' = KeyOf(id)
    BY <1>1, <1>4, NullsAreNull DEF HeldBy, TypeOK
  <2>5. Api!Acquire(t, id)
    BY <1>4, <2>1, <2>2, <2>3, <2>4, AcquireView
  <2> QED
    BY <1>4, <2>5 DEF Refined, Api!ApiNext, Api!KeyIds, KeyIds
<1>5. CASE LockInMemory(t, id, next)
  <2>1. PICK s \in Slots : s = InMemory(id) /\ slots[s].state = "FULL" /\ slots[s].id = id
    BY <1>5, InMemoryFinds DEF LockInMemory
  <2> DEFINE new == Registered(slots[s])
  <2>2. /\ new.key = slots[s].key /\ new.state = "FULL" /\ new.id = id
        /\ new.lifetime = slots[s].lifetime
    BY <2>1 DEF Registered, RegisterAllowed, TypeOK, SlotType
  <2>3. slots' = [slots EXCEPT ![s] = new] /\ rslot'[t] = s
    BY <1>5, <2>1 DEF LockInMemory, TypeOK
  <2>4. slots[s].key # NoKey /\ KeyOf(id) = slots[s].key
    <3>1. slots[s].key # NoKey
      BY <2>1 DEF SlotShape
    <3>2. CASE id \in VolatileIds
      <4>1. slots[s].lifetime \in Lifetimes
        BY DEF TypeOK, SlotType
      <4>2. id \notin PersistentIds /\ id \notin BuiltinIds
        BY <3>2, SlotsAreNat, IdRangesDisjoint DEF VolatileIds
      <4>3. slots[s].id = s
        BY <2>1, <4>1, <4>2 DEF SlotShape, Lifetimes
      <4> QED
        BY <2>1, <3>1, <3>2, <4>3 DEF KeyOf
    <3>3. CASE id \notin VolatileIds
      <4>1. slots[s].lifetime # "VOLATILE"
        BY <2>1, <3>3 DEF SlotShape, VolatileIds
      <4> QED
        BY <2>1, <3>1, <3>3, <4>1 DEF CacheIsCoherent, KeyOf
    <3> QED
      BY <3>2, <3>3
  <2> HIDE DEF new
  <2>5. KeysAreOwn'
    <3>1. \A r \in Slots : Private(r)' => Private(r)
      BY <1>2, <2>1, <2>2, <2>3 DEF Private, TypeOK
    <3> QED
      BY <1>2, <2>1, <2>2, <2>3, <3>1, OwnKept
  <2>6. KeyOf(s)' = KeyOf(s)
    BY <2>1, <2>2, <2>3 DEF KeyOf, VolatileIds, TypeOK
  <2> QED
    BY <1>4, <2>1, <2>2, <2>3, <2>4, <2>5, <2>6, ZenonT(40)
<1>6. CASE LockAfterLoading(t, id, next)
  <2> DEFINE new == LoadedSlot(id)
  <2>1. PICK s \in Slots :
            /\ s = Selected /\ slots[s].state \in {"EMPTY", "FULL"}
            /\ slots[s].state = "FULL" => slots[s].lifetime # "VOLATILE"
            /\ \A u \in Threads : rslot[u] # s
    BY <1>6, SelectedIsFree DEF LockAfterLoading, CanReserve
  <2>2. id \in PersistentIds \cup BuiltinIds /\ Backing(id) # NoKey
    BY <1>6 DEF LockAfterLoading, Backing
  <2>3. id \notin VolatileIds /\ KeyOf(id) = Backing(id)
    BY <2>2, IdRangesDisjoint DEF VolatileIds, Slots, KeyOf
  <2>4. /\ new.key = Backing(id) /\ new.state = "FULL" /\ new.id = id
        /\ new.lifetime # "VOLATILE"
    BY DEF LoadedSlot
  <2>5. slots' = [slots EXCEPT ![s] = new] /\ rslot'[t] = s
    BY <1>6, <2>1 DEF LockAfterLoading, TypeOK
  <2> HIDE DEF new
  <2>6. KeysAreOwn'
    <3>1. \A r \in Slots : Private(r)' => Private(r) /\ r # s
      BY <1>2, <1>3, <2>1, <2>4, <2>5 DEF Private, TypeOK
    <3>2. new.key \notin Keys \/ \E i \in PersistentIds : new.key = storage[i]
      BY <2>2, <2>4, IdRangesDisjoint DEF Backing, Keys
    <3> QED
      BY <1>2, <2>1, <2>5, <3>1, <3>2, OwnKept
  <2>7. KeyOf(s)' = KeyOf(s)
    <3>1. new.id # s
      BY <2>1, <2>3, <2>4 DEF VolatileIds
    <3>2. ~(slots[s].state = "FULL" /\ slots[s].id = s)
      BY <2>1, SlotsAreNat, IdRangesDisjoint DEF SlotShape, TypeOK, SlotType, Lifetimes
    <3> QED
      BY <2>1, <2>5, <3>1, <3>2 DEF KeyOf, VolatileIds, TypeOK
  <2> QED
    BY <1>4, <2>1, <2>2, <2>3, <2>4, <2>5, <2>6, <2>7
<1> QED
  BY <1>5, <1>6 DEF GetAndLock

(* A thread leaves the slot it reads: a use ends in PsaKeyApi, or a        *)
(* destruction if it marked the slot and the key does not survive that.    *)
LEMMA LeaveRefines ==
    ASSUME ApiInv, NEW t \in Threads, NEW s \in Slots, rslot[t] = s,
           pc[t] \in Registering,
           NEW marked,
           \/ marked = slots[s]
           \/ /\ slots[s].state = "FULL"
              /\ marked = [slots[s] EXCEPT !.state = "PENDING_DELETION"],
           \/ storage' = storage
           \/ /\ slots[s].state = "FULL" /\ slots[s].lifetime = "PERSISTENT"
              /\ marked.state = "PENDING_DELETION"
              /\ storage' = [storage EXCEPT ![slots[s].id] = NoKey],
           slots' = [slots EXCEPT ![s] = Unregistered(marked)],
           rslot' = [rslot EXCEPT ![t] = NoSlot],
           pc' = [pc EXCEPT ![t] = "idle"],
           UNCHANGED <<wslot, nextKey>>
    PROVE  Refined
<1> DEFINE new == Unregistered(marked)
<1> USE DEF ApiInv, KeyStoreInv
<1>1. /\ slots[s] \in SlotType
      /\ slots[s].state \in {"FULL", "PENDING_DELETION"}
      /\ slots[s].readers > 0
  BY ReadSlot, NullsAreNull DEF TypeOK, ThreadShape
<1>2. /\ marked \in SlotType
      /\ marked.state \in {"FULL", "PENDING_DELETION"}
      /\ marked.readers = slots[s].readers /\ marked.id = slots[s].id
      /\ marked.lifetime = slots[s].lifetime /\ marked.key = slots[s].key
  BY <1>1 DEF SlotType, SlotStates
<1>3. UnregisterAllowed(marked)
  BY <1>1, <1>2 DEF UnregisterAllowed
<1>4. /\ new.state \in {marked.state, "EMPTY"}
      /\ new.state = "EMPTY" => slots[s].readers = 1 /\ marked.state = "PENDING_DELETION"
      /\ new.state = marked.state =>
           /\ new.id = slots[s].id /\ new.lifetime = slots[s].lifetime
           /\ new.key = slots[s].key
      /\ new.key = slots[s].key \/ new.key = NoKey
  BY <1>2, <1>3, UnregisteredSlot DEF Unregistered, ZeroSlot, SlotType
<1> HIDE DEF new
<1>5. slots' = [slots EXCEPT ![s] = new]
  BY DEF new
<1>6. \A u \in Threads : u # t /\ rslot[u] = s => new.key = slots[s].key
  <2>1. SUFFICES ASSUME NEW u \in Threads, u # t, rslot[u] = s PROVE slots[s].readers # 1
    BY <1>4, <1>2
  <2>2. u \in ReadersOf(s) /\ t \in ReadersOf(s)
    BY <2>1 DEF ReadersOf
  <2>3. \A x : ReadersOf(s) # {x}
    BY <2>1, <2>2
  <2>4. Cardinality(ReadersOf(s)) = 1 <=> \E x : ReadersOf(s) = {x}
    BY ReadersFinite, FS_Singleton, Zenon
  <2> QED
    BY <2>3, <2>4 DEF ReaderCountExact
<1>7. \A u \in Threads : u # t => HeldBy(u)' = HeldBy(u)
  BY <1>5, <1>6 DEF HeldBy, TypeOK
<1>8. HeldBy(t)' = NoKey /\ HeldBy(t) = slots[s].key
  BY NullsAreNull DEF HeldBy, TypeOK
<1>9. Spent' = Spent
  <2>1. \A u \in Threads : pc'[u] = "filled" <=> pc[u] = "filled"
    BY DEF TypeOK, Registering
  <2>2. \A u \in Threads : pc[u] = "filled" => wslot[u] \in Slots /\ wslot[u] # s
    BY <1>1 DEF ThreadShape, Creating, TypeOK
  <2> QED
    BY <1>5, <2>1, <2>2, SameSpent DEF TypeOK
<1>10. KeysAreOwn'
  <2>1. \A r \in Slots : Private(r)' => Private(r) /\ (r = s => new.key = slots[s].key)
    BY <1>1, <1>2, <1>4, <1>5 DEF Private, TypeOK, Registering, ThreadShape, Creating
  <2>2. NoKey \notin Keys
    BY NullsAreNull DEF Keys
  <2>3. \A id \in PersistentIds : storage'[id] = storage[id] \/ storage'[id] \notin Keys
    BY <2>2 DEF TypeOK
  <2>4. new.key = slots[s].key \/ new.key \notin Keys
    BY <1>4, <2>2
  <2>5. TypeOK /\ KeysAreOwn
    OBVIOUS
  <2> QED
    BY <1>5, <2>1, <2>3, <2>4, <2>5, OwnKept
<1>11. \A r \in Slots : r # s => slots'[r] = slots[r]
  BY <1>5 DEF TypeOK
<1>12. slots'[s] = new
  BY <1>5 DEF TypeOK
<1>13. ASSUME NEW id \in KeyIds, id \notin BuiltinIds,
              KeyOf(id) = slots[s].key, KeyOf(id)' = NoKey,
              \A i \in KeyIds : i # id => KeyOf(i)' = KeyOf(i)
       PROVE  Refined
  <2>1. Api!Destroy(t, id)
    BY <1>7, <1>8, <1>9, <1>13, DestroyView
  <2> QED
    BY <1>10, <2>1 DEF Refined, Api!ApiNext, Api!KeyIds, KeyIds
<1>14. ASSUME \A i \in KeyIds : KeyOf(i)' = KeyOf(i) PROVE Refined
  <2>1. Api!Release(t)
    BY <1>7, <1>8, <1>9, <1>14, ReleaseView
  <2> QED
    BY <1>10, <2>1 DEF Refined, Api!ApiNext
<1>15. CASE storage' # storage
  <2>1. PICK id \in PersistentIds :
            /\ slots[s].state = "FULL" /\ slots[s].lifetime = "PERSISTENT"
            /\ id = slots[s].id /\ storage' = [storage EXCEPT ![id] = NoKey]
    BY <1>15 DEF SlotShape
  <2>2. id \in KeyIds /\ id \notin VolatileIds /\ id \notin BuiltinIds
    BY <2>1, IdRangesDisjoint, SlotsAreNat DEF KeyIds, VolatileIds
  <2>3. KeyOf(id) = slots[s].key
    BY <2>1, <2>2 DEF KeyOf, CacheIsCoherent
  <2>4. KeyOf(id)' = NoKey
    BY <2>1, <2>2 DEF KeyOf, Backing, TypeOK
  <2>5. id # s /\ new.state # "FULL"
    BY <1>4, <2>1, <2>2, <1>15 DEF VolatileIds
  <2>6. ASSUME NEW i \in KeyIds, i # id PROVE KeyOf(i)' = KeyOf(i)
    <3>1. CASE i \in VolatileIds
      BY <1>11, <1>12, <2>1, <2>5, <3>1 DEF KeyOf, VolatileIds
    <3>2. CASE i \notin VolatileIds
      BY <2>1, <2>6, <3>2 DEF KeyOf, Backing, TypeOK
    <3> QED
      BY <3>1, <3>2
  <2> QED
    BY <1>13, <2>2, <2>3, <2>4, <2>6
<1>16. CASE storage' = storage
  <2>1. \A i \in KeyIds : i # s => KeyOf(i)' = KeyOf(i)
    BY <1>5, <1>16, OneSlotView
  <2>2. CASE slots[s].state = "FULL" /\ slots[s].id = s /\ new.state # "FULL"
    <3>1. s \in KeyIds /\ s \notin BuiltinIds
      BY IdRangesDisjoint, SlotsAreNat DEF KeyIds, VolatileIds
    <3>2. KeyOf(s) = slots[s].key /\ KeyOf(s)' = NoKey
      BY <1>5, <1>16, <2>2, OneSlotView
    <3> QED
      BY <1>13, <2>1, <3>1, <3>2
  <2>3. CASE ~(slots[s].state = "FULL" /\ slots[s].id = s /\ new.state # "FULL")
    <3>1. new.state = "FULL" => slots[s].state = "FULL"
      BY <1>1, <1>2, <1>4
    <3>2. new.state = "FULL" => new.id = slots[s].id /\ new.key = slots[s].key
      BY <1>4
    <3>3. KeyOf(s)' = KeyOf(s)
      BY <1>12, <2>3, <3>1, <3>2 DEF KeyOf, VolatileIds
    <3> QED
      BY <1>14, <2>1, <3>3
  <2> QED
    BY <2>2, <2>3
<1> QED
  BY <1>15, <1>16

\* EndUse, DestroyTooLate and DestroyKey.
LEMMA LeavesRefine ==
    ASSUME ApiInv, NEW t \in Threads, NEW removed \in BOOLEAN,
           EndUse(t) \/ DestroyTooLate(t) \/ DestroyKey(t, removed)
    PROVE  Refined
<1>1. pc[t] \in Registering
  BY DEF Registering, EndUse, DestroyTooLate, DestroyKey
<1>2. PICK s \in Slots : s = rslot[t]
  BY <1>1 DEF ApiInv, KeyStoreInv, TypeOK, ThreadShape
<1>3. slots[s] \in SlotType
  BY DEF ApiInv, KeyStoreInv, TypeOK
<1>4. CASE EndUse(t)
  BY <1>1, <1>2, <1>4, LeaveRefines DEF EndUse
<1>5. CASE DestroyTooLate(t)
  BY <1>1, <1>2, <1>5, LeaveRefines DEF DestroyTooLate
<1>6. CASE DestroyKey(t, removed)
  <2> DEFINE marked == [slots[s] EXCEPT !.state = "PENDING_DELETION"]
  <2>1. slots[s].state = "FULL"
    BY <1>1, <1>2, <1>6
       DEF ApiInv, KeyStoreInv, TypeOK, ThreadShape, Registering, DestroyKey
  <2>2. marked.state = "PENDING_DELETION"
    BY <1>3 DEF SlotType
  <2>3. /\ slots' = [slots EXCEPT ![s] = Unregistered(marked)]
        /\ rslot' = [rslot EXCEPT ![t] = NoSlot]
        /\ pc' = [pc EXCEPT ![t] = "idle"]
        /\ UNCHANGED <<wslot, nextKey>>
        /\ \/ storage' = storage
           \/ /\ slots[s].lifetime = "PERSISTENT"
              /\ storage' = [storage EXCEPT ![slots[s].id] = NoKey]
    BY <1>2, <1>6, <2>1 DEF DestroyKey
  <2> HIDE DEF marked
  <2> QED
    BY <1>1, <1>2, <2>1, <2>2, <2>3, LeaveRefines DEF marked
<1> QED
  BY <1>4, <1>5, <1>6

\* psa_get_and_lock_key_slot() that finds no key may evict one: nobody sees
\* it.
LEMMA LockFailsRefines ==
    ASSUME ApiInv, NEW t \in Threads, NEW id \in KeyIds, LockFails(t, id)
    PROVE  Refined
<1>1. PICK s \in Slots :
          /\ s = Selected
          /\ slots[s].state = "FULL" => slots[s].lifetime # "VOLATILE"
          /\ slots[s].state \in {"EMPTY", "FULL"}
          /\ \A u \in Threads : rslot[u] # s /\ wslot[u] # s
  BY SelectedIsFree DEF ApiInv, LockFails, CanReserve
<1>2. ZeroSlot.key \notin Keys /\ ZeroSlot.state = "EMPTY"
  BY NullsAreNull DEF ZeroSlot, Keys
<1> QED
  BY <1>1, <1>2, UnseenSlot DEF LockFails

\* Reserving a slot for a new key.
LEMMA StartKeyCreationRefines ==
    ASSUME ApiInv, NEW t \in Threads, NEW attr \in Attributes,
           pc[t] \in {"idle", "copying"}, StartKeyCreation(t, attr)
    PROVE  Refined
<1>1. PICK s \in Slots :
          /\ s = Selected
          /\ slots[s].state = "FULL" => slots[s].lifetime # "VOLATILE"
          /\ slots[s].state \in {"EMPTY", "FULL"}
          /\ \A u \in Threads : rslot[u] # s /\ wslot[u] # s
  BY SelectedIsFree DEF ApiInv, StartKeyCreation, CanReserve
<1>2. FillingSlot.key \notin Keys /\ FillingSlot.state = "FILLING"
  BY NullsAreNull DEF FillingSlot, ZeroSlot, Keys
<1>3. \A u \in Threads : /\ pc'[u] = "filled" <=> pc[u] = "filled"
                         /\ pc[u] = "filled" => wslot'[u] = wslot[u] /\ wslot[u] # s
  BY <1>1 DEF StartKeyCreation, ApiInv, KeyStoreInv, TypeOK
<1>4. /\ slots' = [slots EXCEPT ![s] = FillingSlot]
      /\ UNCHANGED <<storage, rslot, nextKey>>
  BY <1>1 DEF StartKeyCreation
<1>5. FillingSlot.key \notin Keys /\ FillingSlot.state # "FULL"
  BY <1>2
<1>6. \A u \in Threads : rslot[u] # s
  BY <1>1
<1>7. slots[s].state = "FULL" => slots[s].lifetime # "VOLATILE"
  BY <1>1
<1> QED
  BY <1>3, <1>4, <1>5, <1>6, <1>7, UnseenSlot

\* The steps of a creation between the reservation and the key material, and
\* the end of one that failed.
LEMMA UnfilledRefines ==
    ASSUME ApiInv, NEW t \in Threads,
           SetAttributes(t) \/ FillFails(t) \/ FailKeyCreation(t)
    PROVE  Refined
<1>1. pc[t] \in Creating /\ pc[t] # "filled"
  BY DEF SetAttributes, FillFails, FailKeyCreation, Creating
<1>2. PICK s \in Slots :
          /\ s = wslot[t] /\ slots[s] \in SlotType
          /\ slots[s].state = "FILLING"
          /\ \A u \in Threads : rslot[u] # s
          /\ \A u \in Threads : u # t => wslot[u] # s
  BY <1>1, CreatorsSlot DEF ApiInv
<1>3. \A u \in Threads : /\ pc'[u] = "filled" <=> pc[u] = "filled"
                         /\ pc[u] = "filled" => wslot'[u] = wslot[u] /\ wslot[u] # s
  BY <1>1, <1>2 DEF SetAttributes, FillFails, FailKeyCreation, AfterCreation,
                    ApiInv, KeyStoreInv, TypeOK
<1>4. PICK new :
          /\ slots' = [slots EXCEPT ![s] = new]
          /\ new.state # "FULL"
          /\ new.key = slots[s].key \/ new.key \notin Keys
  <2>1. CASE SetAttributes(t)
    <3> DEFINE new == [slots[s] EXCEPT
                         !.id = IF req[t].lifetime = "VOLATILE" THEN s ELSE req[t].id,
                         !.lifetime = req[t].lifetime]
    <3>1. new.state = "FILLING" /\ new.key = slots[s].key
      BY <1>2 DEF SlotType
    <3>2. slots' = [slots EXCEPT ![s] = new]
      BY <1>2, <2>1 DEF SetAttributes, ApiInv, KeyStoreInv, TypeOK
    <3> HIDE DEF new
    <3> QED
      BY <3>1, <3>2
  <2>2. CASE FillFails(t)
    <3>1. slots' = [slots EXCEPT ![s] = slots[s]]
      BY <2>2 DEF FillFails, ApiInv, KeyStoreInv, TypeOK
    <3> QED
      BY <1>2, <3>1
  <2>3. CASE FailKeyCreation(t)
    <3>1. ZeroSlot.key \notin Keys /\ ZeroSlot.state = "EMPTY"
      BY NullsAreNull DEF ZeroSlot, Keys
    <3> QED
      BY <1>2, <2>3, <3>1 DEF FailKeyCreation
  <2> QED
    BY <2>1, <2>2, <2>3
<1>5. UNCHANGED <<storage, rslot, nextKey>>
  BY DEF SetAttributes, FillFails, FailKeyCreation
<1>6. slots[s].state # "FULL"
  BY <1>2
<1>7. \A u \in Threads : rslot[u] # s
  BY <1>2
<1> QED
  BY <1>3, <1>4, <1>5, <1>6, <1>7, UnseenSlot

\* A new key object is made and nobody sees it yet.
LEMMA FillMaterialRefines ==
    ASSUME ApiInv, NEW t \in Threads, FillMaterial(t)
    PROVE  Refined
<1> USE DEF ApiInv, KeyStoreInv
<1>1. PICK s \in Slots :
          /\ s = wslot[t] /\ slots[s] \in SlotType
          /\ slots[s].state = "FILLING"
          /\ \A u \in Threads : rslot[u] # s
          /\ \A u \in Threads : u # t => wslot[u] # s
  BY CreatorsSlot DEF FillMaterial, Creating
<1>2. PICK k \in Keys : k = nextKey
  BY BoundsAreNat DEF TypeOK, FillMaterial, Keys
<1> DEFINE new == [slots[s] EXCEPT !.key = k]
<1>3. new.state = "FILLING" /\ new.key = k
  BY <1>1 DEF SlotType
<1>4. /\ slots' = [slots EXCEPT ![s] = new]
      /\ nextKey' = k + 1
      /\ pc' = [pc EXCEPT ![t] = "filled"]
      /\ UNCHANGED <<storage, rslot, wslot>>
  BY <1>1, <1>2 DEF FillMaterial, TypeOK
<1> HIDE DEF new
<1>5. slots'[s] = new /\ \A r \in Slots : r # s => slots'[r] = slots[r]
  BY <1>4 DEF TypeOK
<1>6. k \in Nat /\ k >= 1 /\ \A j \in Keys : j < k => j < k + 1
  BY <1>2, BoundsAreNat DEF Keys
<1>7. /\ \A r \in Slots : slots[r].key \in Keys => slots[r].key < k
      /\ \A id \in PersistentIds : storage[id] \in Keys => storage[id] < k
  BY <1>2 DEF KeysAreOwn
<1>8. /\ \A r \in Slots : slots[r].key # k
      /\ \A id \in PersistentIds : storage[id] # k
  BY <1>6, <1>7
<1>9. KeysAreOwn'
  <2>1. \A r \in Slots : slots'[r].key \in Keys => slots'[r].key < k + 1
    <3>1. k < k + 1
      BY <1>6
    <3>2. \A r \in Slots : slots'[r].key = slots[r].key \/ slots'[r].key = k
      BY <1>3, <1>5
    <3> QED
      BY <1>6, <1>7, <3>1, <3>2
  <2>2. \A id \in PersistentIds : storage'[id] \in Keys => storage'[id] < k + 1
    BY <1>4, <1>6, <1>7
  <2>3. ASSUME NEW r \in Slots, Private(r)'
        PROVE  /\ slots'[r].key \in Keys
               /\ \A q \in Slots : slots'[q].key = slots'[r].key => q = r
               /\ \A id \in PersistentIds : storage'[id] # slots'[r].key
    <3>1. CASE r = s
      BY <1>3, <1>4, <1>5, <1>8, <3>1
    <3>2. CASE r # s
      <4>1. Private(r) /\ slots'[r] = slots[r]
        BY <1>1, <1>4, <1>5, <2>3, <3>2 DEF Private, TypeOK
      <4>2. /\ slots[r].key \in Keys
            /\ \A q \in Slots : slots[q].key = slots[r].key => q = r
            /\ \A id \in PersistentIds : storage[id] # slots[r].key
        BY <4>1 DEF KeysAreOwn
      <4> QED
        BY <1>3, <1>4, <1>5, <1>8, <4>1, <4>2
    <3> QED
      BY <3>1, <3>2
  <2> QED
    BY <1>4, <2>1, <2>2, <2>3 DEF KeysAreOwn
<1>10. \A id \in KeyIds : KeyOf(id)' = KeyOf(id)
  BY <1>1, <1>3, <1>4, <1>5 DEF KeyOf, Backing, VolatileIds
<1>11. \A u \in Threads : HeldBy(u)' = HeldBy(u)
  BY <1>1, <1>4, <1>5 DEF HeldBy, TypeOK
<1>12. Spent' = Spent
  <2>1. InCreation(k)'
    BY <1>1, <1>3, <1>4, <1>5 DEF InCreation, TypeOK
  <2>2. ASSUME NEW j, j # k PROVE InCreation(j)' <=> InCreation(j)
    <3>1. \A u \in Threads : u # t => pc'[u] = pc[u]
      BY <1>4 DEF TypeOK
    <3>2. \A u \in Threads : u # t /\ pc[u] = "filled" => slots'[wslot[u]] = slots[wslot[u]]
      BY <1>1, <1>5 DEF ThreadShape, Creating, TypeOK
    <3>3. pc[t] # "filled" /\ slots'[wslot[t]].key = k
      BY <1>1, <1>3, <1>5 DEF FillMaterial
    <3> QED
      BY <1>4, <2>2, <3>1, <3>2, <3>3 DEF InCreation
  <2>3. nextKey - 1 = k - 1 /\ nextKey' - 1 = k
    BY <1>2, <1>4, <1>6
  <2>4. \A j : j \in 1 .. k <=> j \in 1 .. k - 1 \/ j = k
    BY <1>6
  <2>5. \A j \in 1 .. k - 1 : j # k
    BY <1>6
  <2> QED
    BY <2>1, <2>2, <2>3, <2>4, <2>5 DEF Spent
<1> QED
  BY <1>9, <1>10, <1>11, <1>12, SameView DEF Refined

(* A creation ends, by psa_finish_key_creation() or because saving fails:  *)
(* the key appears under its identifier, or is abandoned.                  *)
LEMMA CreationEnds ==
    ASSUME ApiInv, NEW t \in Threads, pc[t] = "filled",
           NEW next \in PCs \ {"filled"}, pc' = [pc EXCEPT ![t] = next],
           UNCHANGED <<rslot, nextKey>>,
           \A u \in Threads : u # t => wslot'[u] = wslot[u],
           \A r \in Slots : slots'[r].key = slots[r].key
    PROVE  /\ slots[wslot[t]].key \in Keys
           /\ slots[wslot[t]].key \notin Spent
           /\ Spent' = Spent \cup {slots[wslot[t]].key}
           /\ \A u \in Threads : HeldBy(u)' = HeldBy(u)
<1> USE DEF ApiInv, KeyStoreInv
<1>1. PICK s \in Slots : s = wslot[t] /\ \A u \in Threads : u # t => wslot[u] # s
  BY CreatorsSlot DEF Creating
<1>2. PICK k : k = slots[s].key
  OBVIOUS
<1>3. Private(s)
  BY <1>1 DEF Private
<1>4. /\ k \in Keys /\ k < nextKey
      /\ \A r \in Slots : slots[r].key = k => r = s
  BY <1>2, <1>3 DEF KeysAreOwn
<1>5. InCreation(k)
  BY <1>1, <1>2 DEF InCreation
<1>6. \A u \in Threads : u # t /\ pc[u] = "filled" => wslot[u] \in Slots /\ wslot[u] # s
  BY <1>1 DEF ThreadShape, Creating, TypeOK
<1>7. ~InCreation(k)'
  BY <1>4, <1>6 DEF InCreation, TypeOK
<1>8. ASSUME NEW j, j # k PROVE InCreation(j)' <=> InCreation(j)
  BY <1>1, <1>2, <1>6, <1>8 DEF InCreation, TypeOK
<1>9. k \in 1 .. nextKey - 1
  BY <1>4, BoundsAreNat DEF Keys, TypeOK
<1>10. k \notin Spent /\ Spent' = Spent \cup {k}
  BY <1>5, <1>7, <1>8, <1>9 DEF Spent
<1>11. \A u \in Threads : HeldBy(u)' = HeldBy(u)
  BY DEF HeldBy, TypeOK
<1> QED
  BY <1>1, <1>2, <1>4, <1>10, <1>11

\* psa_finish_key_creation() that saves the key creates it.
LEMMA FinishKeyCreationRefines ==
    ASSUME ApiInv, NEW t \in Threads, FinishKeyCreation(t)
    PROVE  Refined
<1> USE DEF ApiInv, KeyStoreInv
<1>1. PICK s \in Slots :
          /\ s = wslot[t] /\ slots[s] \in SlotType
          /\ slots[s].state = "FILLING"
          /\ \A u \in Threads : rslot[u] # s
          /\ \A u \in Threads : u # t => wslot[u] # s
  BY CreatorsSlot DEF FinishKeyCreation, Creating
<1>2. PICK id \in KeyIds, k \in Keys : id = slots[s].id /\ k = slots[s].key
  <2>1. slots[s].key \in Keys /\ req[t] \in Attributes
    BY <1>1 DEF FinishKeyCreation, ThreadShape, TypeOK
  <2>2. slots[s].id = IF req[t].lifetime = "VOLATILE" THEN s ELSE req[t].id
    BY <1>1 DEF FinishKeyCreation, ThreadShape
  <2>3. slots[s].id \in KeyIds
    BY <2>1, <2>2 DEF Attributes, KeyIds, VolatileIds
  <2> QED
    BY <2>1, <2>3
<1>3. /\ slots[s].lifetime = "VOLATILE" => id = s
      /\ slots[s].lifetime # "VOLATILE" =>
            /\ id \in PersistentIds
            /\ slots[s].lifetime = "PERSISTENT"
  BY <1>1, <1>2 DEF FinishKeyCreation, ThreadShape, Attributes, TypeOK
<1>4. id \in VolatileIds \cup PersistentIds /\ id \notin BuiltinIds
  BY <1>3, SlotsAreNat, IdRangesDisjoint DEF VolatileIds
<1> DEFINE new == [slots[s] EXCEPT !.state = "FULL"]
<1>5. new.state = "FULL" /\ new.id = id /\ new.key = k /\ new.lifetime = slots[s].lifetime
  BY <1>1, <1>2 DEF SlotType
<1>6. /\ slots' = [slots EXCEPT ![s] = new]
      /\ wslot' = [wslot EXCEPT ![t] = NoSlot]
      /\ pc' = [pc EXCEPT ![t] = AfterCreation(t)]
      /\ UNCHANGED <<rslot, nextKey>>
      /\ \/ slots[s].lifetime = "VOLATILE" /\ storage' = storage
         \/ /\ slots[s].lifetime # "VOLATILE"
            /\ storage[id] = NoKey /\ storage' = [storage EXCEPT ![id] = k]
  BY <1>1, <1>2 DEF FinishKeyCreation, TypeOK
<1> HIDE DEF new
<1>7. slots'[s] = new /\ \A r \in Slots : r # s => slots'[r] = slots[r]
  BY <1>6 DEF TypeOK
<1>8. AfterCreation(t) \in PCs \ {"filled"}
  BY DEF AfterCreation, PCs
<1>9. /\ k \notin Spent
      /\ Spent' = Spent \cup {k}
      /\ \A u \in Threads : HeldBy(u)' = HeldBy(u)
  <2>1. \A r \in Slots : slots'[r].key = slots[r].key
    BY <1>2, <1>5, <1>7
  <2>2. \A u \in Threads : u # t => wslot'[u] = wslot[u]
    BY <1>6 DEF TypeOK
  <2>3. pc[t] = "filled"
    BY DEF FinishKeyCreation
  <2> QED
    BY <1>1, <1>2, <1>6, <1>8, <2>1, <2>2, <2>3, CreationEnds
<1>10. KeysAreOwn'
  <2>1. Private(s)
    BY <1>1 DEF Private, FinishKeyCreation
  <2>2. ASSUME NEW r \in Slots PROVE Private(r)' => Private(r)
    <3>1. CASE r = s
      BY <2>1, <3>1
    <3>2. CASE r # s
      BY <1>6, <1>7, <1>8, <3>2 DEF Private, TypeOK
    <3> QED
      BY <3>1, <3>2
  <2>3. slots[s].lifetime # "VOLATILE" => ~Private(s)'
    BY <1>1, <1>5, <1>6, <1>7, <1>8 DEF Private, TypeOK
  <2>4. \A i \in PersistentIds :
          \/ storage'[i] = storage[i]
          \/ storage'[i] = slots[s].key /\ ~Private(s)'
    BY <1>2, <1>6, <2>3 DEF TypeOK
  <2>5. new.key = slots[s].key
    BY <1>2, <1>5
  <2> QED
    BY <1>6, <2>2, <2>4, <2>5, OwnKept
<1>11. KeyOf(id) = NoKey
  <2>1. CASE slots[s].lifetime = "VOLATILE"
    BY <1>1, <1>3, <2>1 DEF KeyOf, VolatileIds
  <2>2. CASE slots[s].lifetime # "VOLATILE"
    BY <1>3, <1>4, <1>6, <2>2, SlotsAreNat, IdRangesDisjoint DEF KeyOf, Backing, VolatileIds
  <2> QED
    BY <2>1, <2>2
<1>12. KeyOf(id)' = k
  <2>1. CASE slots[s].lifetime = "VOLATILE"
    BY <1>3, <1>5, <1>7, <2>1 DEF KeyOf, VolatileIds
  <2>2. CASE slots[s].lifetime # "VOLATILE"
    BY <1>3, <1>4, <1>6, <2>2, SlotsAreNat, IdRangesDisjoint
       DEF KeyOf, Backing, VolatileIds, TypeOK
  <2> QED
    BY <2>1, <2>2
<1>13. ASSUME NEW i \in KeyIds, i # id PROVE KeyOf(i)' = KeyOf(i)
  <2>1. CASE i \in VolatileIds
    BY <1>1, <1>5, <1>7, <1>13, <2>1 DEF KeyOf, VolatileIds
  <2>2. CASE i \notin VolatileIds
    BY <1>6, <1>13, <2>2 DEF KeyOf, Backing, TypeOK
  <2> QED
    BY <2>1, <2>2
<1>14. Api!Create(id, k)
  BY <1>9, <1>11, <1>12, <1>13, CreateView
<1> QED
  BY <1>4, <1>10, <1>14 DEF Refined, Api!ApiNext

\* A key that could not be saved is abandoned, or it was created all the
\* same if its file stays in storage.
LEMMA FinishFailsRefines ==
    ASSUME ApiInv, NEW t \in Threads, NEW left \in BOOLEAN, FinishFails(t, left)
    PROVE  Refined
<1> USE DEF ApiInv, KeyStoreInv
<1>1. PICK s \in Slots :
          /\ s = wslot[t] /\ slots[s] \in SlotType
          /\ slots[s].state = "FILLING"
          /\ \A u \in Threads : u # t => wslot[u] # s
  BY CreatorsSlot DEF FinishFails, Creating
<1>2. PICK id \in PersistentIds, k \in Keys : id = slots[s].id /\ k = slots[s].key
  BY <1>1 DEF FinishFails, ThreadShape, Attributes, TypeOK
<1>3. /\ pc[t] = "filled" /\ pc' = [pc EXCEPT ![t] = "failing"]
      /\ UNCHANGED <<slots, rslot, wslot, nextKey>>
      /\ left => storage[id] = NoKey
      /\ storage' = IF left THEN [storage EXCEPT ![id] = k] ELSE storage
  BY <1>1, <1>2 DEF FinishFails
<1>4. /\ k \notin Spent
      /\ Spent' = Spent \cup {k}
      /\ \A u \in Threads : HeldBy(u)' = HeldBy(u)
  <2>1. "failing" \in PCs \ {"filled"}
    BY DEF PCs
  <2> QED
    BY <1>1, <1>2, <1>3, <2>1, CreationEnds
<1>5. KeysAreOwn'
  <2>1. \A r \in Slots : Private(r)' => Private(r) /\ r # s
    BY <1>1, <1>3 DEF Private, TypeOK
  <2>2. slots' = [slots EXCEPT ![s] = slots[s]]
    BY <1>3 DEF TypeOK
  <2>3. \A i \in PersistentIds :
          \/ storage'[i] = storage[i]
          \/ storage'[i] = slots[s].key /\ ~Private(s)'
    BY <1>2, <1>3, <2>1 DEF TypeOK
  <2> QED
    BY <1>3, <2>1, <2>2, <2>3, OwnKept
<1>6. id \in KeyIds /\ id \notin VolatileIds /\ id \notin BuiltinIds
  <2>1. id \in PersistentIds
    BY <1>2
  <2>2. id \notin Int /\ id \notin BuiltinIds
    BY <2>1, IdRangesDisjoint
  <2>3. id \in KeyIds
    BY <2>1 DEF KeyIds
  <2>4. \A v \in VolatileIds : v \in Int
    BY SlotsAreNat DEF VolatileIds
  <2> QED
    BY <2>2, <2>3, <2>4
<1>7. CASE left
  <2>1. KeyOf(id) = NoKey /\ KeyOf(id)' = k
    BY <1>3, <1>6, <1>7 DEF KeyOf, Backing, TypeOK
  <2>2. ASSUME NEW i \in KeyIds, i # id PROVE KeyOf(i)' = KeyOf(i)
    BY <1>3, <1>7, <2>2 DEF KeyOf, Backing, TypeOK
  <2>3. Api!Create(id, k)
    BY <1>4, <1>6, <2>1, <2>2, CreateView
  <2> QED
    BY <1>5, <2>3 DEF Refined, Api!ApiNext
<1>8. CASE ~left
  <2>1. \A i \in KeyIds : KeyOf(i)' = KeyOf(i)
    BY <1>3, <1>8 DEF KeyOf, Backing
  <2>2. Api!Abandon(k)
    BY <1>4, <2>1, AbandonView
  <2> QED
    BY <1>5, <2>2 DEF Refined, Api!ApiNext
<1> QED
  BY <1>7, <1>8

(* psa_close_key() and psa_purge_key(): only a volatile key that nobody is *)
(* using goes away, by psa_close_key().                                    *)
LEMMA ForgetRefines ==
    ASSUME ApiInv, NEW t \in Threads, NEW id \in KeyIds, NEW wipe,
           ForgetIfUnused(t, id, wipe)
    PROVE  Refined
<1> USE DEF ApiInv, KeyStoreInv
<1>1. PICK s \in Slots : s = InMemory(id) /\ slots[s].state = "FULL" /\ slots[s].id = id
  BY InMemoryFinds DEF ForgetIfUnused
<1>2. slots[s] \in SlotType /\ RegisterAllowed(slots[s])
  BY <1>1, FullIsRegistrable DEF TypeOK
<1> DEFINE mine == Registered(slots[s])
<1>3. mine = [slots[s] EXCEPT !.readers = @ + 1]
  BY <1>2 DEF Registered
<1>4. Unregistered(mine) = slots[s]
  BY <1>1, <1>2, <1>3, UnregisterUndoesRegister
<1>5. UNCHANGED <<storage, pc, rslot, wslot, nextKey>>
  BY DEF ForgetIfUnused
<1>6. CASE wipe /\ mine.readers = 1
  <2>1. slots[s].readers = 0
    BY <1>2, <1>3, <1>6 DEF SlotType
  <2>2. \A u \in Threads : rslot[u] # s
    BY <2>1, UnreadSlot
  <2>3. slots' = [slots EXCEPT ![s] = ZeroSlot]
    BY <1>1, <1>6 DEF ForgetIfUnused
  <2>4. ZeroSlot.key \notin Keys /\ ZeroSlot.state = "EMPTY"
    BY NullsAreNull DEF ZeroSlot, Keys
  <2>5. \A u \in Threads : pc[u] = "filled" => wslot[u] \in Slots /\ wslot[u] # s
    BY <1>1 DEF ThreadShape, Creating, TypeOK
  <2>6. CASE slots[s].lifetime # "VOLATILE"
    BY <1>5, <2>2, <2>3, <2>4, <2>5, <2>6, UnseenSlot
  <2>7. CASE slots[s].lifetime = "VOLATILE"
    <3>1. id = s /\ id \in VolatileIds
      BY <1>1, <2>7 DEF SlotShape, VolatileIds
    <3>2. /\ KeyOf(s) = slots[s].key /\ KeyOf(s)' = NoKey
          /\ \A i \in KeyIds : i # s => KeyOf(i)' = KeyOf(i)
          /\ \A u \in Threads : HeldBy(u)' = HeldBy(u)
      BY <1>1, <1>5, <2>2, <2>3, <2>4, <3>1, OneSlotView
    <3>3. Private(s) /\ slots[s].key # NoKey
      BY <1>1, <2>7 DEF Private, SlotShape
    <3>4. \A u \in Threads : HeldBy(u) # slots[s].key
      BY <2>2, <3>3 DEF HeldBy, KeysAreOwn, TypeOK
    <3>5. Spent' = Spent
      BY <1>5, <2>3, <2>5, SameSpent DEF TypeOK
    <3>6. Api!Close(s)
      BY <3>1, <3>2, <3>4, <3>5, CloseView
    <3>7. \A r \in Slots : Private(r)' => Private(r) /\ r # s
      BY <1>5, <2>3, <2>4, <2>5 DEF Private, TypeOK
    <3>8. KeysAreOwn'
      BY <1>5, <2>3, <2>4, <3>7, OwnKept
    <3> QED
      BY <3>1, <3>6, <3>8 DEF Refined, Api!ApiNext, Api!KeyIds, KeyIds
  <2> QED
    BY <2>6, <2>7
<1>7. CASE ~(wipe /\ mine.readers = 1)
  <2>1. slots' = slots
    BY <1>1, <1>4, <1>7 DEF ForgetIfUnused, TypeOK
  <2> QED
    BY <1>5, <2>1, NothingSeen
<1> QED
  BY <1>6, <1>7

(* Shutdown and loss of power: files and built-in keys survive.            *)
LEMMA RestartRefines ==
    ASSUME ApiInv, CryptoFree \/ Crash
    PROVE  Refined
<1> USE DEF ApiInv, KeyStoreInv
<1>1. /\ slots' = [s \in Slots |-> ZeroSlot]
      /\ UNCHANGED <<storage, nextKey>>
      /\ \A t \in Threads : pc'[t] = "idle" /\ rslot'[t] = NoSlot
  BY DEF CryptoFree, Crash, ThreadShape
<1>2. \A s \in Slots : slots'[s].state = "EMPTY" /\ slots'[s].key \notin Keys
  BY <1>1, NullsAreNull DEF ZeroSlot, Keys
<1>3. \A s \in Slots : ~Private(s)'
  BY <1>1, <1>2 DEF Private
<1>4. KeysAreOwn'
  BY <1>1, <1>2, <1>3 DEF KeysAreOwn
<1>5. \A i \in KeyIds : KeyOf(i)' = IF i \in VolatileIds THEN NoKey ELSE KeyOf(i)
  BY <1>1, <1>2 DEF KeyOf, Backing, VolatileIds
<1>6. \A u \in Threads : HeldBy(u)' = NoKey
  BY <1>1 DEF HeldBy
<1>7. Spent \subseteq Spent'
  BY <1>1 DEF Spent, InCreation
<1>8. Spent' \subseteq Keys
  <2>1. nextKey \in 1 .. MaxKeys + 1 /\ MaxKeys \in Nat
    BY BoundsAreNat DEF TypeOK
  <2>2. 1 .. nextKey - 1 \subseteq Keys
    BY <2>1 DEF Keys
  <2> QED
    BY <1>1, <2>2 DEF Spent
<1>9. Api!Restart
  BY <1>5, <1>6, <1>7, <1>8, RestartView
<1> QED
  BY <1>4, <1>9 DEF Refined, Api!ApiNext

-----------------------------------------------------------------------------
\* Every step of the key store is a step of PsaKeyApi or none.
LEMMA StepRefines ==
    ASSUME ApiInv, [Next]_vars
    PROVE  Refined
<1>0. "using" \in Registering /\ "destroying" \in Registering /\ "copying" \in Registering
  BY DEF Registering
<1>1. ASSUME NEW t \in Threads, Call(t) PROVE Refined
  <2>1. ASSUME NEW id \in KeyIds, BeginUse(t, id) \/ BeginDestroy(t, id) \/ BeginCopy(t, id)
        PROVE  Refined
    BY <1>0, <2>1, GetAndLockRefines DEF BeginUse, BeginDestroy, BeginCopy
  <2>2. ASSUME NEW id \in KeyIds, LockFails(t, id) PROVE Refined
    BY <2>2, LockFailsRefines
  <2>3. ASSUME NEW id \in KeyIds, CloseKey(t, id) \/ PurgeKey(t, id) PROVE Refined
    BY <2>3, ForgetRefines DEF CloseKey, PurgeKey
  <2>4. ASSUME NEW attr \in Attributes, BeginCreate(t, attr) PROVE Refined
    BY <2>4, StartKeyCreationRefines DEF BeginCreate
  <2> QED
    BY <1>1, <2>1, <2>2, <2>3, <2>4 DEF Call
<1>2. ASSUME NEW t \in Threads, Continue(t) PROVE Refined
  <2>1. ASSUME NEW attr \in Attributes, CopyTarget(t, attr) PROVE Refined
    BY <2>1, StartKeyCreationRefines DEF CopyTarget
  <2>2. ASSUME NEW b \in BOOLEAN,
               EndUse(t) \/ DestroyTooLate(t) \/ DestroyKey(t, b) \/ FinishFails(t, b)
        PROVE  Refined
    BY <2>2, LeavesRefine, FinishFailsRefines
  <2>3. CASE CopyRefused(t)
    BY <2>3, NothingSeen DEF CopyRefused, ApiInv, KeyStoreInv, TypeOK
  <2>4. CASE SetAttributes(t) \/ FillFails(t) \/ FailKeyCreation(t)
    BY <2>4, UnfilledRefines
  <2>5. CASE FillMaterial(t) \/ FinishKeyCreation(t)
    BY <2>5, FillMaterialRefines, FinishKeyCreationRefines
  <2> QED
    BY <1>2, <2>1, <2>2, <2>3, <2>4, <2>5 DEF Continue
<1>3. CASE CryptoInit
  BY <1>3, NothingSeen DEF CryptoInit
<1>4. CASE CryptoFree \/ Crash
  BY <1>4, RestartRefines
<1>5. CASE UNCHANGED vars
  BY <1>5, NothingSeen DEF vars
<1> QED
  BY <1>1, <1>2, <1>3, <1>4, <1>5 DEF Next

\* The empty key store is the empty map.
LEMMA InitRefines == Init => KeysAreOwn /\ Api!ApiInit
<1> SUFFICES ASSUME Init PROVE KeysAreOwn /\ Api!ApiInit
  OBVIOUS
<1>1. \A s \in Slots : slots[s].state = "EMPTY" /\ slots[s].key \notin Keys
  BY NullsAreNull DEF Init, ZeroSlot, Keys
<1>2. KeysAreOwn
  BY <1>1, NullsAreNull DEF Init, KeysAreOwn, Private, Keys
<1>3. \A id \in KeyIds : KeyOf(id) = IF id \in BuiltinIds THEN id ELSE NoKey
  BY <1>1, SlotsAreNat, IdRangesDisjoint DEF Init, KeyOf, Backing, KeyIds, VolatileIds
<1>4. \A t \in Threads : rslot[t] = NoSlot
  BY DEF Init
<1>5. 1 .. nextKey - 1 = {}
  BY DEF Init
<1>6. Api!ApiInit
  BY <1>3, <1>4, <1>5 DEF Api!ApiInit, Api!KeyIds, KeyIds
<1> QED
  BY <1>2, <1>6

(* The key store of psa_crypto_slot_management.c and psa_crypto.c          *)
(* implements the map from identifiers to keys that callers rely on: for   *)
(* any number of threads, slots, identifiers and keys, every critical      *)
(* section is one operation of PsaKeyApi or is invisible.                  *)
THEOREM KeyStoreImplementsApi == Spec => ImplementsApi
<1>1. Init => ApiInv /\ Api!ApiInit
  BY InitEstablishes, InitRefines DEF ApiInv
<1>2. ApiInv /\ KeyStoreInv' /\ [Next]_vars => ApiInv' /\ [Api!ApiNext]_Api!apiVars
  BY StepRefines DEF Refined, ApiInv
<1> QED
  BY <1>1, <1>2, KeyStoreInvariant, PTL DEF Spec, ImplementsApi, Api!ApiSpec
=============================================================================
