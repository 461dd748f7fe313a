----------------------------- MODULE PsaKeyStore -----------------------------
(***************************************************************************)
(* The PSA key store (psa_crypto_slot_management.c and the key creation,   *)
(* destruction and policy functions of psa_crypto.c) with several threads. *)
(*                                                                         *)
(* Every critical section under mbedtls_threading_key_slot_mutex is one    *)
(* action; what a thread does to a slot between two critical sections is   *)
(* an action of its own.  The key store is the static one: one array of    *)
(* slots in which a volatile key has the identifier of its slot and a      *)
(* persistent key is cached in any slot.  A call that returns an error and *)
(* changes nothing is not an action.                                       *)
(***************************************************************************)
EXTENDS Integers, FiniteSets

CONSTANTS
    Threads,        \* threads that call the PSA API
    SlotCount,      \* MBEDTLS_PSA_KEY_SLOT_COUNT
    PersistentIds,  \* identifiers in the user range
    BuiltinIds,     \* identifiers in the built-in range, provided by the platform
    MaxKeys,        \* bound: number of key objects created in a behaviour
    SIZE_MAX,       \* largest value of registered_readers
    NoSlot,         \* the null slot pointer
    NoKey,          \* the null key data pointer
    NullId          \* the key identifier 0

Slots == 0 .. SlotCount - 1

\* PSA_KEY_ID_VOLATILE_MIN + slot_idx is written as the slot index itself.
VolatileIds == Slots
KeyIds == VolatileIds \cup PersistentIds \cup BuiltinIds
Keys == 1 .. MaxKeys
KeyData == Keys \cup BuiltinIds \cup {NoKey}

ASSUME ThreadsFinite == IsFiniteSet(Threads)
ASSUME BoundsAreNat == SlotCount \in Nat /\ MaxKeys \in Nat /\ SIZE_MAX \in Nat
ASSUME ReadersFit == Cardinality(Threads) < SIZE_MAX
ASSUME IdRangesDisjoint ==
    /\ PersistentIds \cap (Int \cup BuiltinIds) = {}
    /\ BuiltinIds \cap Int = {}
    /\ NullId \notin KeyIds
ASSUME NullsAreNull ==
    /\ NoSlot \notin Slots
    /\ NoKey \notin Int \cup BuiltinIds

VARIABLES
    slots,          \* global_data.key_slots
    storage,        \* storage[id]: the key in the file of id, or NoKey
    initialized,    \* global_data.key_slots_initialized
    pc,             \* where each thread is between two critical sections
    rslot,          \* the slot a thread is registered to read
    wslot,          \* the slot a thread has reserved and is filling
    req,            \* the attributes of the key a thread is creating
    nextKey,        \* the next key object: key material is fresh
    corrupt         \* some call returned PSA_ERROR_CORRUPTION_DETECTED

vars == <<slots, storage, initialized, pc, rslot, wslot, req, nextKey, corrupt>>

SlotStates == {"EMPTY", "FILLING", "FULL", "PENDING_DELETION"}
Lifetimes == {"VOLATILE", "PERSISTENT", "READ_ONLY"}
SlotType == [state : SlotStates, readers : Nat, id : KeyIds \cup {NullId},
             lifetime : Lifetimes, key : KeyData]

\* Attributes psa_validate_key_attributes() accepts.
Attributes == [id : {NullId}, lifetime : {"VOLATILE"}]
              \cup [id : PersistentIds, lifetime : {"PERSISTENT"}]

\* req[t] while thread t creates no key.
NoRequest == [id |-> NullId, lifetime |-> "VOLATILE"]

\* idle      no call in progress
\* using     registered on rslot, operating with the key outside the mutex
\* destroying registered on rslot, in psa_destroy_key before its critical section
\* copying   registered on rslot, in psa_copy_key before psa_start_key_creation
\* reserved  wslot reserved, attributes not written yet
\* filling   attributes written, key material not
\* filled    ready for psa_finish_key_creation
\* failing   about to call psa_fail_key_creation
PCs == {"idle", "using", "destroying", "copying",
        "reserved", "filling", "filled", "failing"}

\* Every variable has its type; a slot never has a negative number of
\* readers.
TypeOK ==
    /\ slots \in [Slots -> SlotType]
    /\ storage \in [PersistentIds -> Keys \cup {NoKey}]
    /\ initialized \in BOOLEAN
    /\ pc \in [Threads -> PCs]
    /\ rslot \in [Threads -> Slots \cup {NoSlot}]
    /\ wslot \in [Threads -> Slots \cup {NoSlot}]
    /\ req \in [Threads -> Attributes]
    /\ nextKey \in 1 .. MaxKeys + 1
    /\ corrupt \in BOOLEAN

-----------------------------------------------------------------------------
(* One slot.                                                               *)

\* memset(slot, 0, sizeof(*slot))
ZeroSlot == [state |-> "EMPTY", readers |-> 0, id |-> NullId,
             lifetime |-> "VOLATILE", key |-> NoKey]

\* The conditions under which psa_wipe_key_slot() does not report corruption.
WipeAllowed(slot) ==
    \/ slot.state \in {"FULL", "PENDING_DELETION"} /\ slot.readers = 1
    \/ slot.state = "FILLING" /\ slot.readers = 0

RegisterAllowed(slot) == slot.state = "FULL" /\ slot.readers < SIZE_MAX

Registered(slot) == IF RegisterAllowed(slot)
                    THEN [slot EXCEPT !.readers = @ + 1]
                    ELSE slot

UnregisterAllowed(slot) ==
    slot.state \in {"FULL", "PENDING_DELETION"} /\ slot.readers > 0

\* Fault: the last reader does not wipe a slot pending deletion.
UnregisteredNoWipe(slot) ==
    IF UnregisterAllowed(slot) THEN [slot EXCEPT !.readers = @ - 1] ELSE slot

\* psa_unregister_read(): the last reader of a slot pending deletion wipes it.
Unregistered(slot) ==
    IF ~UnregisterAllowed(slot) THEN slot
    ELSE IF slot.state = "PENDING_DELETION" /\ slot.readers = 1 THEN ZeroSlot
    ELSE [slot EXCEPT !.readers = @ - 1]

-----------------------------------------------------------------------------
(* Searching the slots.                                                    *)

First(S) == CHOOSE s \in S : \A r \in S : s <= r

\* psa_get_and_lock_key_slot_in_memory(), without the registration.
InMemory(id) ==
    LET found == {s \in Slots : /\ slots[s].state = "FULL"
                                /\ slots[s].id = id
                                /\ id \in VolatileIds => s = id}
    IN  IF found = {} THEN NoSlot ELSE First(found)

Empty == {s \in Slots : slots[s].state = "EMPTY"}
\* Fault: the lifetime of the evicted key is not looked at.
EvictableAnyLifetime == {s \in Slots : slots[s].state = "FULL" /\ slots[s].readers = 0}
Evictable == {s \in Slots : /\ slots[s].state = "FULL"
                            /\ slots[s].readers = 0
                            /\ slots[s].lifetime # "VOLATILE"}

\* The slot psa_reserve_free_key_slot() selects: the first empty one, else the
\* first unused slot of a key that can be loaded again.
Selected == IF Empty # {} THEN First(Empty)
            ELSE IF Evictable # {} THEN First(Evictable)
            ELSE NoSlot

\* The eviction registers as a reader and wipes, so that wiping is allowed.
EvictionAllowed(s) ==
    slots[s].state # "EMPTY" => WipeAllowed(Registered(slots[s]))

FillingSlot == [ZeroSlot EXCEPT !.state = "FILLING"]

CanReserve == initialized /\ Selected # NoSlot

\* What loading a key into a slot finds: a built-in key, or the file of id.
Backing(id) == IF id \in BuiltinIds THEN id
               ELSE IF id \in PersistentIds THEN storage[id]
               ELSE NoKey

LoadedSlot(id) ==
    [state |-> "FULL", readers |-> 1, id |-> id, key |-> Backing(id),
     lifetime |-> IF id \in BuiltinIds THEN "READ_ONLY" ELSE "PERSISTENT"]

-----------------------------------------------------------------------------
(* psa_get_and_lock_key_slot(), one critical section; on success the       *)
(* thread goes on at `next`.                                               *)

LockInMemory(t, id, next) ==
    LET s == InMemory(id)
    IN  /\ initialized
        /\ s # NoSlot
        /\ slots' = [slots EXCEPT ![s] = Registered(slots[s])]
        /\ corrupt' = (corrupt \/ ~RegisterAllowed(slots[s]))
        /\ rslot' = [rslot EXCEPT ![t] = s]
        /\ pc' = [pc EXCEPT ![t] = next]
        /\ UNCHANGED <<storage, initialized, wslot, req, nextKey>>

LockAfterLoading(t, id, next) ==
    LET s == Selected
    IN  /\ CanReserve
        /\ InMemory(id) = NoSlot
        /\ Backing(id) # NoKey
        /\ slots' = [slots EXCEPT ![s] = LoadedSlot(id)]
        /\ corrupt' = (corrupt \/ ~EvictionAllowed(s))
        /\ rslot' = [rslot EXCEPT ![t] = s]
        /\ pc' = [pc EXCEPT ![t] = next]
        /\ UNCHANGED <<storage, initialized, wslot, req, nextKey>>

\* The key does not exist, or its file cannot be read, parsed or held in
\* memory.  The slot reserved for it is wiped, an evicted key stays evicted.
LockFails(t, id) ==
    LET s == Selected
    IN  /\ pc[t] = "idle"
        /\ CanReserve
        /\ InMemory(id) = NoSlot
        /\ slots' = [slots EXCEPT ![s] = ZeroSlot]
        /\ corrupt' = (corrupt \/ ~EvictionAllowed(s) \/ ~WipeAllowed(FillingSlot))
        /\ UNCHANGED <<storage, initialized, pc, rslot, wslot, req, nextKey>>

GetAndLock(t, id, next) ==
    LockInMemory(t, id, next) \/ LockAfterLoading(t, id, next)

-----------------------------------------------------------------------------
(* Operations with a key: psa_open_key, psa_get_key_attributes,            *)
(* psa_export_key and every cryptographic operation.  When the policy      *)
(* does not permit the use the thread unregisters at once.                 *)

BeginUse(t, id) == pc[t] = "idle" /\ GetAndLock(t, id, "using")

\* psa_unregister_read_under_mutex()
EndUse(t) ==
    LET s == rslot[t]
    IN  /\ pc[t] = "using"
        /\ slots' = [slots EXCEPT ![s] = Unregistered(slots[s])]
        /\ corrupt' = (corrupt \/ ~UnregisterAllowed(slots[s]))
        /\ rslot' = [rslot EXCEPT ![t] = NoSlot]
        /\ pc' = [pc EXCEPT ![t] = "idle"]
        /\ UNCHANGED <<storage, initialized, wslot, req, nextKey>>

-----------------------------------------------------------------------------
(* psa_destroy_key().                                                      *)

BeginDestroy(t, id) == pc[t] = "idle" /\ GetAndLock(t, id, "destroying")

\* Fault: the early return does not unregister.
DestroyTooLateLeaks(t) ==
    /\ pc[t] = "destroying"
    /\ slots[rslot[t]].state = "PENDING_DELETION"
    /\ rslot' = [rslot EXCEPT ![t] = NoSlot]
    /\ pc' = [pc EXCEPT ![t] = "idle"]
    /\ UNCHANGED <<slots, storage, initialized, wslot, req, nextKey, corrupt>>

\* Another thread destroyed the key after this one had looked it up.
DestroyTooLate(t) ==
    LET s == rslot[t]
    IN  /\ pc[t] = "destroying"
        /\ slots[s].state = "PENDING_DELETION"
        /\ slots' = [slots EXCEPT ![s] = Unregistered(slots[s])]
        /\ corrupt' = (corrupt \/ ~UnregisterAllowed(slots[s]))
        /\ rslot' = [rslot EXCEPT ![t] = NoSlot]
        /\ pc' = [pc EXCEPT ![t] = "idle"]
        /\ UNCHANGED <<storage, initialized, wslot, req, nextKey>>

\* Fault: the file is removed but the slot stays readable for its readers.
DestroyUnmarked(t, removed) ==
    LET s == rslot[t]
    IN  /\ pc[t] = "destroying"
        /\ slots[s].state # "PENDING_DELETION"
        /\ storage' = IF removed /\ slots[s].lifetime = "PERSISTENT"
                      THEN [storage EXCEPT ![slots[s].id] = NoKey]
                      ELSE storage
        /\ slots' = [slots EXCEPT ![s] = Unregistered(slots[s])]
        /\ rslot' = [rslot EXCEPT ![t] = NoSlot]
        /\ pc' = [pc EXCEPT ![t] = "idle"]
        /\ UNCHANGED <<initialized, wslot, req, nextKey, corrupt>>

\* The slot is marked, the file of a persistent key is removed (`removed` says
\* whether the storage could do it) and the thread unregisters, all in one
\* critical section.  A read-only key only loses its copy in memory.
DestroyKey(t, removed) ==
    LET s == rslot[t]
        marked == IF slots[s].state = "FULL"
                  THEN [slots[s] EXCEPT !.state = "PENDING_DELETION"]
                  ELSE slots[s]
    IN  /\ pc[t] = "destroying"
        /\ slots[s].state # "PENDING_DELETION"
        /\ storage' = IF /\ removed
                         /\ slots[s].state = "FULL"
                         /\ slots[s].lifetime = "PERSISTENT"
                      THEN [storage EXCEPT ![slots[s].id] = NoKey]
                      ELSE storage
        /\ slots' = [slots EXCEPT ![s] = Unregistered(marked)]
        /\ corrupt' = (corrupt \/ slots[s].state # "FULL" \/ ~UnregisterAllowed(marked))
        /\ rslot' = [rslot EXCEPT ![t] = NoSlot]
        /\ pc' = [pc EXCEPT ![t] = "idle"]
        /\ UNCHANGED <<initialized, wslot, req, nextKey>>

-----------------------------------------------------------------------------
(* Creating a key: psa_import_key, psa_generate_key, the key derivation    *)
(* output and psa_copy_key.                                                *)

\* psa_start_key_creation() up to the end of its critical section.
StartKeyCreation(t, attr) ==
    LET s == Selected
    IN  /\ CanReserve
        /\ nextKey <= MaxKeys
        /\ slots' = [slots EXCEPT ![s] = FillingSlot]
        /\ corrupt' = (corrupt \/ ~EvictionAllowed(s))
        /\ wslot' = [wslot EXCEPT ![t] = s]
        /\ req' = [req EXCEPT ![t] = attr]
        /\ pc' = [pc EXCEPT ![t] = "reserved"]
        /\ UNCHANGED <<storage, initialized, rslot, nextKey>>

BeginCreate(t, attr) == pc[t] = "idle" /\ StartKeyCreation(t, attr)

\* psa_copy_key() registers on the source before it creates the target.
BeginCopy(t, id) == pc[t] = "idle" /\ GetAndLock(t, id, "copying")
CopyTarget(t, attr) == pc[t] = "copying" /\ StartKeyCreation(t, attr)
CopyRefused(t) ==
    /\ pc[t] = "copying"
    /\ pc' = [pc EXCEPT ![t] = "using"]
    /\ UNCHANGED <<slots, storage, initialized, rslot, wslot, req, nextKey, corrupt>>

\* Fault: off by one in the identifier of a volatile key.
SetAttributesOffByOne(t) ==
    LET s == wslot[t]
    IN  /\ pc[t] = "reserved"
        /\ slots' = [slots EXCEPT
             ![s].id = IF req[t].lifetime = "VOLATILE" THEN s + 1 ELSE req[t].id,
             ![s].lifetime = req[t].lifetime]
        /\ pc' = [pc EXCEPT ![t] = "filling"]
        /\ UNCHANGED <<storage, initialized, rslot, wslot, req, nextKey, corrupt>>

\* slot->attr = *attributes, written without the mutex.
SetAttributes(t) ==
    LET s == wslot[t]
    IN  /\ pc[t] = "reserved"
        /\ slots' = [slots EXCEPT
             ![s].id = IF req[t].lifetime = "VOLATILE" THEN s ELSE req[t].id,
             ![s].lifetime = req[t].lifetime]
        /\ pc' = [pc EXCEPT ![t] = "filling"]
        /\ UNCHANGED <<storage, initialized, rslot, wslot, req, nextKey, corrupt>>

\* The buffer is allocated and the key material written, without the mutex.
FillMaterial(t) ==
    /\ pc[t] = "filling"
    /\ nextKey <= MaxKeys
    /\ slots[wslot[t]].key = NoKey
    /\ slots' = [slots EXCEPT ![wslot[t]].key = nextKey]
    /\ nextKey' = nextKey + 1
    /\ pc' = [pc EXCEPT ![t] = "filled"]
    /\ UNCHANGED <<storage, initialized, rslot, wslot, req, corrupt>>

\* No memory for the buffer, or the material is refused.
FillFails(t) ==
    /\ pc[t] = "filling"
    /\ pc' = [pc EXCEPT ![t] = "failing"]
    /\ UNCHANGED <<slots, storage, initialized, rslot, wslot, req, nextKey, corrupt>>

\* Where a creation goes on once the target slot is settled: psa_copy_key()
\* still has to unregister from the source.
AfterCreation(t) == IF rslot[t] = NoSlot THEN "idle" ELSE "using"

\* Fault: the key is saved without a check that its identifier is free.
FinishOverwrites(t) ==
    LET s == wslot[t]
    IN  /\ pc[t] = "filled"
        /\ storage' = IF slots[s].lifetime = "VOLATILE" THEN storage
                      ELSE [storage EXCEPT ![slots[s].id] = slots[s].key]
        /\ slots' = [slots EXCEPT ![s].state = "FULL"]
        /\ wslot' = [wslot EXCEPT ![t] = NoSlot]
        /\ req' = [req EXCEPT ![t] = NoRequest]
        /\ pc' = [pc EXCEPT ![t] = AfterCreation(t)]
        /\ UNCHANGED <<initialized, rslot, nextKey, corrupt>>

\* psa_finish_key_creation(): a persistent key is saved, if no key has its
\* identifier, and the slot becomes readable, all in one critical section.
FinishKeyCreation(t) ==
    LET s == wslot[t]
        id == slots[s].id
    IN  /\ pc[t] = "filled"
        /\ \/ slots[s].lifetime = "VOLATILE" /\ UNCHANGED storage
           \/ /\ slots[s].lifetime # "VOLATILE"
              /\ storage[id] = NoKey
              /\ storage' = [storage EXCEPT ![id] = slots[s].key]
        /\ slots' = [slots EXCEPT ![s].state = "FULL"]
        /\ corrupt' = (corrupt \/ slots[s].state # "FILLING")
        /\ wslot' = [wslot EXCEPT ![t] = NoSlot]
        /\ req' = [req EXCEPT ![t] = NoRequest]
        /\ pc' = [pc EXCEPT ![t] = AfterCreation(t)]
        /\ UNCHANGED <<initialized, rslot, nextKey>>

\* Saving fails: the identifier is taken, there is no memory, or the file
\* cannot be written.  `left` is the case in which the file was written, its
\* check failed and it could not be removed either.
FinishFails(t, left) ==
    LET s == wslot[t]
        id == slots[s].id
    IN  /\ pc[t] = "filled"
        /\ slots[s].lifetime # "VOLATILE"
        /\ left => storage[id] = NoKey
        /\ storage' = IF left THEN [storage EXCEPT ![id] = slots[s].key] ELSE storage
        /\ pc' = [pc EXCEPT ![t] = "failing"]
        /\ UNCHANGED <<slots, initialized, rslot, wslot, req, nextKey, corrupt>>

\* Fault: a failed creation does not wipe the slot it had reserved.
FailKeepsSlot(t) ==
    /\ pc[t] = "failing"
    /\ wslot' = [wslot EXCEPT ![t] = NoSlot]
    /\ req' = [req EXCEPT ![t] = NoRequest]
    /\ pc' = [pc EXCEPT ![t] = AfterCreation(t)]
    /\ UNCHANGED <<slots, storage, initialized, rslot, nextKey, corrupt>>

\* psa_fail_key_creation()
FailKeyCreation(t) ==
    LET s == wslot[t]
    IN  /\ pc[t] = "failing"
        /\ slots' = [slots EXCEPT ![s] = ZeroSlot]
        /\ corrupt' = (corrupt \/ ~WipeAllowed(slots[s]))
        /\ wslot' = [wslot EXCEPT ![t] = NoSlot]
        /\ req' = [req EXCEPT ![t] = NoRequest]
        /\ pc' = [pc EXCEPT ![t] = AfterCreation(t)]
        /\ UNCHANGED <<storage, initialized, rslot, nextKey>>

-----------------------------------------------------------------------------
(* psa_close_key() and psa_purge_key(): one critical section each, in      *)
(* which the caller registers and either wipes the slot or unregisters.    *)

\* Fault: the slot is wiped while other threads read it.
ForgetUnderReaders(t, id, wipe) ==
    LET s == InMemory(id)
    IN  /\ pc[t] = "idle"
        /\ s # NoSlot
        /\ slots' = [slots EXCEPT ![s] = IF wipe THEN ZeroSlot ELSE slots[s]]
        /\ UNCHANGED <<storage, initialized, pc, rslot, wslot, req, nextKey, corrupt>>

ForgetIfUnused(t, id, wipe) ==
    LET s == InMemory(id)
        mine == Registered(slots[s])
    IN  /\ pc[t] = "idle"
        /\ s # NoSlot
        /\ slots' = [slots EXCEPT ![s] = IF wipe /\ mine.readers = 1
                                         THEN ZeroSlot ELSE Unregistered(mine)]
        /\ corrupt' = (corrupt \/ ~RegisterAllowed(slots[s]))
        /\ UNCHANGED <<storage, initialized, pc, rslot, wslot, req, nextKey>>

CloseKey(t, id) == ForgetIfUnused(t, id, TRUE)
PurgeKey(t, id) == ForgetIfUnused(t, id, slots[InMemory(id)].lifetime # "VOLATILE")

-----------------------------------------------------------------------------
(* The life of the library.                                                *)

\* psa_wipe_all_key_slots(), which must only be called when no slot is in use.
CryptoFree ==
    /\ initialized
    /\ \A t \in Threads : pc[t] = "idle"
    /\ slots' = [s \in Slots |-> ZeroSlot]
    /\ initialized' = FALSE
    /\ UNCHANGED <<storage, pc, rslot, wslot, req, nextKey, corrupt>>

CryptoInit ==
    /\ ~initialized
    /\ initialized' = TRUE
    /\ UNCHANGED <<slots, storage, pc, rslot, wslot, req, nextKey, corrupt>>

\* Power is lost: only the files remain.
Crash ==
    /\ slots' = [s \in Slots |-> ZeroSlot]
    /\ initialized' = FALSE
    /\ pc' = [t \in Threads |-> "idle"]
    /\ rslot' = [t \in Threads |-> NoSlot]
    /\ wslot' = [t \in Threads |-> NoSlot]
    /\ req' = [t \in Threads |-> NoRequest]
    /\ UNCHANGED <<storage, nextKey, corrupt>>

Init ==
    /\ slots = [s \in Slots |-> ZeroSlot]
    /\ storage = [id \in PersistentIds |-> NoKey]
    /\ initialized = FALSE
    /\ pc = [t \in Threads |-> "idle"]
    /\ rslot = [t \in Threads |-> NoSlot]
    /\ wslot = [t \in Threads |-> NoSlot]
    /\ req = [t \in Threads |-> NoRequest]
    /\ nextKey = 1
    /\ corrupt = FALSE

\* A new call of the API.
Call(t) ==
    \/ \E id \in KeyIds : \/ BeginUse(t, id)
                          \/ BeginDestroy(t, id)
                          \/ BeginCopy(t, id)
                          \/ LockFails(t, id)
                          \/ CloseKey(t, id)
                          \/ PurgeKey(t, id)
    \/ \E attr \in Attributes : BeginCreate(t, attr)

\* A call in progress goes on.
Continue(t) ==
    \/ EndUse(t)
    \/ DestroyTooLate(t)
    \/ \E removed \in BOOLEAN : DestroyKey(t, removed)
    \/ \E attr \in Attributes : CopyTarget(t, attr)
    \/ CopyRefused(t)
    \/ SetAttributes(t)
    \/ FillMaterial(t)
    \/ FillFails(t)
    \/ FinishKeyCreation(t)
    \/ \E left \in BOOLEAN : FinishFails(t, left)
    \/ FailKeyCreation(t)

Next ==
    \/ \E t \in Threads : Call(t) \/ Continue(t)
    \/ CryptoFree
    \/ CryptoInit
    \/ Crash

Spec == Init /\ [][Next]_vars

\* A thread inside a call goes on, and gets the mutex when it asks for it.
Fairness == \A t \in Threads : WF_vars(Continue(t))
FairSpec == Spec /\ Fairness

-----------------------------------------------------------------------------
(* Properties.                                                             *)

ReadersOf(s) == {t \in Threads : rslot[t] = s}
CreatorsOf(s) == {t \in Threads : wslot[t] = s}

(* The registered_readers counter of every slot is the number of threads   *)
(* that are between psa_get_and_lock_key_slot() and psa_unregister_read(): *)
(* no interleaving of locking, destroying, closing, purging and evicting   *)
(* loses or leaks a registration.                                          *)
ReaderCountExact ==
    \A s \in Slots : slots[s].readers = Cardinality(ReadersOf(s))

(* A slot is in the FILLING state exactly while one thread is creating a   *)
(* key in it: psa_reserve_free_key_slot() never hands the same slot to two *)
(* threads, and a failed creation gives it back.                           *)
FillingHasOneCreator ==
    \A s \in Slots : Cardinality(CreatorsOf(s)) = IF slots[s].state = "FILLING" THEN 1 ELSE 0

(* At most one slot answers for a key identifier, although threads create, *)
(* load, evict and destroy keys with that identifier concurrently.         *)
OneSlotPerKey ==
    \A r, s \in Slots :
        slots[r].state = "FULL" /\ slots[s].state = "FULL" /\ slots[r].id = slots[s].id
            => r = s

(* The copy of a persistent or built-in key in memory is the key that      *)
(* would be loaded: evicting it with psa_reserve_free_key_slot() or        *)
(* psa_purge_key() loses nothing, and it never outlives its file.          *)
CacheIsCoherent ==
    \A s \in Slots : slots[s].state = "FULL" /\ slots[s].lifetime # "VOLATILE"
                        => slots[s].key = Backing(slots[s].id)

(* No branch that reports PSA_ERROR_CORRUPTION_DETECTED is reachable: not  *)
(* in psa_wipe_key_slot(), psa_register_read(), psa_unregister_read() or   *)
(* psa_key_slot_state_transition().                                        *)
NoCorruption == ~corrupt

(* The key store implements the map from identifiers to keys of PsaKeyApi: *)
(* a reader keeps the key object it looked up until it unregisters, even   *)
(* when the key is destroyed and its identifier reused meanwhile; what is  *)
(* destroyed or replaced is exactly the object that was looked up; a       *)
(* destroyed key never comes back; cache and storage are one store.        *)
KeyOf(id) == IF id \in VolatileIds
             THEN IF slots[id].state = "FULL" /\ slots[id].id = id
                  THEN slots[id].key ELSE NoKey
             ELSE Backing(id)

InCreation(k) == \E t \in Threads : pc[t] = "filled" /\ slots[wslot[t]].key = k

Api == INSTANCE PsaKeyApi WITH
    LastingIds <- PersistentIds,
    keys <- [id \in KeyIds |-> KeyOf(id)],
    hold <- [t \in Threads |-> IF rslot[t] = NoSlot THEN NoKey ELSE slots[rslot[t]].key],
    used <- {k \in 1 .. nextKey - 1 : ~InCreation(k)}

\* The slots, the cache and the files of the key store implement PsaKeyApi:
\* callers see a map from identifiers to keys.
ImplementsApi == Api!ApiSpec

(* A slot marked by psa_destroy_key() is wiped as soon as its readers are  *)
(* done: key material does not stay in memory.                             *)
DeletionCompletes ==
    \A s \in Slots : slots[s].state = "PENDING_DELETION" ~> slots[s].state # "PENDING_DELETION"
=============================================================================
