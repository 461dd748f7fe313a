------------------------ MODULE DtlsReassemblyProofs ------------------------
(***************************************************************************)
(* Proofs about DtlsReassembly, for every handshake, every set of          *)
(* fragments and every size of the buffer: messages reach the handshake in *)
(* order and whole, the bitmask and the account of bytes are exact, early  *)
(* messages never starve the next one, and a flight leaves nothing behind. *)
(***************************************************************************)
EXTENDS DtlsReassembly, FiniteSetTheorems, WellFoundedInduction, TLAPS

-----------------------------------------------------------------------------
(* The sum over slots.  The induction theorems of the library cannot be    *)
(* used with these provers; the well-foundedness of finite sets can.       *)

\* A nonempty family of subsets of a finite set has a minimal member.
LEMMA MinimalSet ==
    ASSUME NEW S, IsFiniteSet(S), NEW T, T \subseteq SUBSET S, T # {}
    PROVE  \E U \in T : \A V \in T : V \subseteq U => V = U
<1>1. T \subseteq FiniteSubsetsOf(S)
  BY FS_FiniteSubsetsOfFinite
<1>2. \E U \in T : \A V \in T : ~ (<<V, U>> \in StrictSubsetOrdering(S))
  BY <1>1, FS_StrictSubsetOrderingWellFounded, WFMin
<1> QED
  BY <1>2 DEF StrictSubsetOrdering

Chosen(s) == CHOOSE x \in s : TRUE

\* g is the function that MapThenSumSet() walks down the subsets of S with.
Walks(hs, S, g) ==
    g = [s \in SUBSET S |->
            IF s = {} THEN 0 ELSE hs[Chosen(s)].data_len + g[s \ {Chosen(s)}]]

\* Two ways to add up slots agree on the sets that both reach.
LEMMA WalksAgree ==
    ASSUME NEW hs, NEW S, IsFiniteSet(S), NEW V \in SUBSET S, NEW W \in SUBSET S,
           NEW g, Walks(hs, V, g), NEW h, Walks(hs, W, h)
    PROVE  \A s \in SUBSET S : s \subseteq V /\ s \subseteq W => g[s] = h[s]
<1> DEFINE T == {s \in SUBSET S : s \subseteq V /\ s \subseteq W /\ g[s] # h[s]}
<1> SUFFICES ASSUME T # {} PROVE FALSE
  OBVIOUS
<1>0. T \subseteq SUBSET S
  OBVIOUS
<1>1. PICK s \in T : \A t \in T : t \subseteq s => t = s
  <2> HIDE DEF T
  <2> QED
    BY <1>0, MinimalSet
<1>2. s # {} => Chosen(s) \in s
  BY DEF Chosen
<1>3. /\ g[s] = IF s = {} THEN 0 ELSE hs[Chosen(s)].data_len + g[s \ {Chosen(s)}]
      /\ h[s] = IF s = {} THEN 0 ELSE hs[Chosen(s)].data_len + h[s \ {Chosen(s)}]
  BY DEF Walks
<1>4. s # {} => g[s \ {Chosen(s)}] = h[s \ {Chosen(s)}]
  <2> SUFFICES ASSUME s # {} PROVE g[s \ {Chosen(s)}] = h[s \ {Chosen(s)}]
    OBVIOUS
  <2>1. s \ {Chosen(s)} \notin T
    BY <1>1, <1>2
  <2> QED
    BY <2>1
<1> QED
  BY <1>3, <1>4

\* Every finite set of slots can be added up one by one.
LEMMA WalkExists ==
    ASSUME NEW hs, NEW S, IsFiniteSet(S)
    PROVE  \A U \in SUBSET S : \E g : Walks(hs, U, g)
<1> DEFINE T == {U \in SUBSET S : ~ \E g : Walks(hs, U, g)}
<1> SUFFICES ASSUME T # {} PROVE FALSE
  OBVIOUS
<1>0. T \subseteq SUBSET S
  OBVIOUS
<1>1. PICK U \in T : \A V \in T : V \subseteq U => V = U
  <2> HIDE DEF T
  <2> QED
    BY <1>0, MinimalSet
<1> DEFINE walk(t) == CHOOSE g : Walks(hs, t, g)
           g == [s \in SUBSET U |->
                    IF s = {} THEN 0
                    ELSE hs[Chosen(s)].data_len + walk(s \ {Chosen(s)})[s \ {Chosen(s)}]]
<1>2. \A t \in SUBSET U : t # U => Walks(hs, t, walk(t))
  <2> TAKE t \in SUBSET U
  <2> HAVE t # U
  <2>1. \E f : Walks(hs, t, f)
    BY <1>1
  <2> QED
    BY <2>1
<1> HIDE DEF walk
<1>3. \A t \in SUBSET U : t # U => walk(t)[t] = g[t]
  <2> TAKE t \in SUBSET U
  <2> HAVE t # U
  <2>1. walk(t)[t] = IF t = {} THEN 0 ELSE hs[Chosen(t)].data_len + walk(t)[t \ {Chosen(t)}]
    BY <1>2 DEF Walks
  <2>2. ASSUME t # {}
        PROVE  walk(t)[t \ {Chosen(t)}] = walk(t \ {Chosen(t)})[t \ {Chosen(t)}]
    <3> DEFINE r == t \ {Chosen(t)}
    <3>1. Chosen(t) \in t
      BY <2>2 DEF Chosen
    <3>2. r \in SUBSET U /\ r # U /\ r \in SUBSET S /\ t \in SUBSET S /\ r \subseteq t
      BY <3>1
    <3>3. Walks(hs, r, walk(r)) /\ Walks(hs, t, walk(t))
      BY <1>2, <3>2
    <3> HIDE DEF r
    <3>4. \A s \in SUBSET S : s \subseteq t /\ s \subseteq r => walk(t)[s] = walk(r)[s]
      <4> DEFINE f == walk(t)
                 h == walk(r)
      <4>1. Walks(hs, t, f) /\ Walks(hs, r, h) /\ t \in SUBSET S /\ r \in SUBSET S
        BY <3>2, <3>3
      <4> HIDE DEF f, h, g
      <4>2. \A s \in SUBSET S : s \subseteq t /\ s \subseteq r => f[s] = h[s]
        BY <4>1, WalksAgree
      <4> QED
        BY <4>2 DEF f, h
    <3>5. walk(t)[r] = walk(r)[r]
      BY <3>2, <3>4
    <3> QED
      BY <3>5 DEF r
  <2> QED
    BY <2>1, <2>2
<1>4. g = [s \in SUBSET U |-> IF s = {} THEN 0 ELSE hs[Chosen(s)].data_len + g[s \ {Chosen(s)}]]
  <2>1. ASSUME NEW s \in SUBSET U, s # {}
        PROVE  walk(s \ {Chosen(s)})[s \ {Chosen(s)}] = g[s \ {Chosen(s)}]
    <3>1. Chosen(s) \in s
      BY <2>1 DEF Chosen
    <3>2. s \ {Chosen(s)} \in SUBSET U /\ s \ {Chosen(s)} # U
      BY <3>1
    <3> HIDE DEF g
    <3> QED
      BY <1>3, <3>2
  <2>2. \A s \in SUBSET U :
            g[s] = IF s = {} THEN 0 ELSE hs[Chosen(s)].data_len + g[s \ {Chosen(s)}]
    BY <2>1
  <2>3. g = [s \in SUBSET U |-> g[s]]
    OBVIOUS
  <2> HIDE DEF g
  <2> QED
    BY <2>2, <2>3
<1>5. Walks(hs, U, g)
  <2> HIDE DEF g
  <2> QED
    BY <1>4 DEF Walks
<1> QED
  BY <1>1, <1>5

\* HeldBytes, a fold in the community modules, is the sum of such a walk.
LEMMA HeldIsWalked ==
    ASSUME NEW hs, NEW S, IsFiniteSet(S)
    PROVE  \E g : Walks(hs, S, g) /\ HeldBytes(hs, S) = g[S]
<1> DEFINE c == CHOOSE g : g = [s \in SUBSET S |->
                                  IF s = {} THEN 0
                                  ELSE hs[CHOOSE x \in s : TRUE].data_len + g[s \ {CHOOSE x \in s : TRUE}]]
<1>1. HeldBytes(hs, S) = c[S]
  BY DEF HeldBytes, MapThenSumSet, MapThenFoldSet
<1>2. \E g : Walks(hs, S, g)
  BY WalkExists
<1>3. Walks(hs, S, c)
  BY <1>2 DEF Walks, Chosen
<1> QED
  BY <1>1, <1>3

(* The sum of the slots S, one taken off as CHOOSE takes them.             *)
LEMMA HeldUnfolds ==
    ASSUME NEW hs, NEW S, IsFiniteSet(S)
    PROVE  /\ HeldBytes(hs, {}) = 0
           /\ S # {} => /\ Chosen(S) \in S
                        /\ HeldBytes(hs, S) = hs[Chosen(S)].data_len + HeldBytes(hs, S \ {Chosen(S)})
<1>1. HeldBytes(hs, {}) = 0
  <2>1. PICK g : Walks(hs, {}, g) /\ HeldBytes(hs, {}) = g[{}]
    BY HeldIsWalked, FS_EmptySet
  <2> QED
    BY <2>1 DEF Walks
<1>2. ASSUME S # {}
      PROVE  /\ Chosen(S) \in S
             /\ HeldBytes(hs, S) = hs[Chosen(S)].data_len + HeldBytes(hs, S \ {Chosen(S)})
  <2> DEFINE r == S \ {Chosen(S)}
  <2>1. Chosen(S) \in S
    BY <1>2 DEF Chosen
  <2>2. IsFiniteSet(r) /\ r \in SUBSET S
    BY FS_Subset
  <2>3. PICK g : Walks(hs, S, g) /\ HeldBytes(hs, S) = g[S]
    BY HeldIsWalked
  <2>4. PICK h : Walks(hs, r, h) /\ HeldBytes(hs, r) = h[r]
    BY <2>2, HeldIsWalked
  <2>5. g[S] = hs[Chosen(S)].data_len + g[r]
    BY <1>2, <2>3 DEF Walks
  <2> HIDE DEF r
  <2>6. g[r] = h[r]
    BY <2>2, <2>3, <2>4, WalksAgree
  <2> QED
    BY <2>1, <2>3, <2>4, <2>5, <2>6 DEF r
<1> QED
  BY <1>1, <1>2

Counted(hs, S) == \A i \in S : hs[i].data_len \in Nat

\* A sum of lengths is a natural number.
LEMMA HeldType ==
    ASSUME NEW hs, NEW S, IsFiniteSet(S), Counted(hs, S)
    PROVE  HeldBytes(hs, S) \in Nat
<1> DEFINE T == {U \in SUBSET S : HeldBytes(hs, U) \notin Nat}
<1> SUFFICES ASSUME T # {} PROVE FALSE
  BY DEF T
<1>0. T \subseteq SUBSET S
  OBVIOUS
<1>1. PICK U \in T : \A V \in T : V \subseteq U => V = U
  <2> HIDE DEF T
  <2> QED
    BY <1>0, MinimalSet
<1>2. IsFiniteSet(U)
  BY FS_Subset
<1>3. /\ HeldBytes(hs, {}) = 0
      /\ U # {} => /\ Chosen(U) \in U
                   /\ HeldBytes(hs, U) = hs[Chosen(U)].data_len + HeldBytes(hs, U \ {Chosen(U)})
  BY <1>2, HeldUnfolds
<1>4. U # {}
  <2> SUFFICES ASSUME U = {} PROVE FALSE
    OBVIOUS
  <2>1. HeldBytes(hs, U) \notin Nat
    OBVIOUS
  <2>2. HeldBytes(hs, U) = 0
    BY <1>3, Zenon
  <2> QED
    BY <2>1, <2>2
<1>5. HeldBytes(hs, U \ {Chosen(U)}) \in Nat
  BY <1>1, <1>3, <1>4
<1>6. hs[Chosen(U)].data_len \in Nat
  BY <1>3, <1>4 DEF Counted
<1> QED
  BY <1>3, <1>4, <1>5, <1>6

(* Any slot may be taken off first.                                        *)
LEMMA HeldRemove ==
    ASSUME NEW hs, NEW S, IsFiniteSet(S), Counted(hs, S), NEW x \in S
    PROVE  HeldBytes(hs, S) = hs[x].data_len + HeldBytes(hs, S \ {x})
<1> DEFINE Off(U, y) == HeldBytes(hs, U) = hs[y].data_len + HeldBytes(hs, U \ {y})
           T == {U \in SUBSET S : \E y \in U : ~Off(U, y)}
<1> SUFFICES ASSUME T # {} PROVE FALSE
  OBVIOUS
<1>0. T \subseteq SUBSET S
  OBVIOUS
<1>1. PICK U \in T : \A V \in T : V \subseteq U => V = U
  <2> HIDE DEF T
  <2> QED
    BY <1>0, MinimalSet
<1>2. PICK y \in U : ~Off(U, y)
  OBVIOUS
<1> DEFINE c == Chosen(U)
<1>3. IsFiniteSet(U)
  BY FS_Subset
<1>4. c \in U /\ Off(U, c)
  BY <1>3, HeldUnfolds
<1>5. c # y
  BY <1>2, <1>4
<1>6. \A V \in SUBSET U : V # U => V \notin T
  BY <1>1
<1>7. Off(U \ {c}, y) /\ Off(U \ {y}, c)
  <2> HIDE DEF c, Off
  <2>1. U \ {c} \notin T /\ U \ {y} \notin T
    <3> HIDE DEF T
    <3> QED
      BY <1>4, <1>6
  <2> QED
    BY <2>1, <1>4, <1>5
<1>8. (U \ {c}) \ {y} = (U \ {y}) \ {c}
  OBVIOUS
<1>9. /\ hs[c].data_len \in Nat
      /\ hs[y].data_len \in Nat
      /\ HeldBytes(hs, (U \ {y}) \ {c}) \in Nat
  <2>1. Counted(hs, (U \ {y}) \ {c})
    BY DEF Counted
  <2>2. IsFiniteSet((U \ {y}) \ {c})
    BY <1>3, FS_Subset
  <2>3. HeldBytes(hs, (U \ {y}) \ {c}) \in Nat
    BY <2>1, <2>2, HeldType
  <2> QED
    BY <2>3, <1>4 DEF Counted
<1> HIDE DEF c, T
<1>10. Off(U, y)
  BY <1>4, <1>7, <1>8, <1>9
<1> QED
  BY <1>2, <1>10

\* The sum depends on the lengths of the slots only.
LEMMA HeldSame ==
    ASSUME NEW hs, NEW gs, NEW S, IsFiniteSet(S),
           \A i \in S : hs[i].data_len = gs[i].data_len
    PROVE  HeldBytes(hs, S) = HeldBytes(gs, S)
<1> DEFINE T == {U \in SUBSET S : HeldBytes(hs, U) # HeldBytes(gs, U)}
<1> SUFFICES ASSUME T # {} PROVE FALSE
  BY DEF T
<1>0. T \subseteq SUBSET S
  OBVIOUS
<1>1. PICK U \in T : \A V \in T : V \subseteq U => V = U
  <2> HIDE DEF T
  <2> QED
    BY <1>0, MinimalSet
<1>2. IsFiniteSet(U)
  BY FS_Subset
<1>3. /\ HeldBytes(hs, {}) = HeldBytes(gs, {})
      /\ U # {} => /\ Chosen(U) \in U
                   /\ HeldBytes(hs, U) = hs[Chosen(U)].data_len + HeldBytes(hs, U \ {Chosen(U)})
                   /\ HeldBytes(gs, U) = gs[Chosen(U)].data_len + HeldBytes(gs, U \ {Chosen(U)})
  BY <1>2, HeldUnfolds
<1>4. U # {}
  BY <1>3
<1>5. HeldBytes(hs, U \ {Chosen(U)}) = HeldBytes(gs, U \ {Chosen(U)})
  BY <1>1, <1>3, <1>4
<1> QED
  BY <1>3, <1>4, <1>5

\* Slots that hold nothing add up to nothing.
LEMMA HeldZero ==
    ASSUME NEW hs, NEW S, IsFiniteSet(S), \A i \in S : hs[i].data_len = 0
    PROVE  HeldBytes(hs, S) = 0
<1> DEFINE T == {U \in SUBSET S : HeldBytes(hs, U) # 0}
<1> SUFFICES ASSUME T # {} PROVE FALSE
  BY DEF T
<1>0. T \subseteq SUBSET S
  OBVIOUS
<1>1. PICK U \in T : \A V \in T : V \subseteq U => V = U
  <2> HIDE DEF T
  <2> QED
    BY <1>0, MinimalSet
<1>2. IsFiniteSet(U)
  BY FS_Subset
<1>3. /\ HeldBytes(hs, {}) = 0
      /\ U # {} => /\ Chosen(U) \in U
                   /\ HeldBytes(hs, U) = hs[Chosen(U)].data_len + HeldBytes(hs, U \ {Chosen(U)})
  BY <1>2, HeldUnfolds
<1>4. U # {}
  BY <1>3
<1>5. HeldBytes(hs, U \ {Chosen(U)}) = 0
  BY <1>1, <1>3, <1>4
<1> QED
  BY <1>3, <1>4, <1>5

\* A sum is that of a part and that of the rest.
LEMMA HeldSplit ==
    ASSUME NEW hs, NEW S, IsFiniteSet(S), Counted(hs, S), NEW R \in SUBSET S
    PROVE  HeldBytes(hs, S) = HeldBytes(hs, R) + HeldBytes(hs, S \ R)
<1> DEFINE Cut(V) == HeldBytes(hs, S) = HeldBytes(hs, V) + HeldBytes(hs, S \ V)
           T == {V \in SUBSET S : ~Cut(V)}
<1> SUFFICES ASSUME T # {} PROVE FALSE
  OBVIOUS
<1>0. T \subseteq SUBSET S
  OBVIOUS
<1>1. PICK V \in T : \A W \in T : W \subseteq V => W = V
  <2> HIDE DEF T
  <2> QED
    BY <1>0, MinimalSet
<1>2. IsFiniteSet(V) /\ IsFiniteSet(S \ V) /\ Counted(hs, V) /\ Counted(hs, S \ V)
  BY FS_Subset DEF Counted
<1>3. HeldBytes(hs, {}) = 0 /\ HeldBytes(hs, S) \in Nat
  BY HeldUnfolds, HeldType
<1>4. V # {}
  <2> SUFFICES ASSUME V = {} PROVE FALSE
    OBVIOUS
  <2>1. S \ V = S
    OBVIOUS
  <2> QED
    BY <2>1, <1>3
<1>5. PICK x \in V : TRUE
  BY <1>4
<1> DEFINE W == V \ {x}
<1>6. Cut(W)
  BY <1>1
<1>7. HeldBytes(hs, V) = hs[x].data_len + HeldBytes(hs, W)
  BY <1>2, HeldRemove
<1>8. HeldBytes(hs, S \ W) = hs[x].data_len + HeldBytes(hs, S \ V)
  <2>1. /\ IsFiniteSet(S \ W)
        /\ Counted(hs, S \ W)
        /\ x \in S \ W
        /\ (S \ W) \ {x} = S \ V
    BY FS_Subset DEF Counted
  <2> HIDE DEF W
  <2> QED
    BY <2>1, HeldRemove
<1>9. /\ hs[x].data_len \in Nat
      /\ HeldBytes(hs, W) \in Nat
      /\ HeldBytes(hs, S \ V) \in Nat
  <2>1. IsFiniteSet(W) /\ Counted(hs, W)
    BY <1>2, FS_Subset DEF Counted
  <2>2. hs[x].data_len \in Nat
    BY DEF Counted
  <2> HIDE DEF W
  <2> QED
    BY <2>1, <2>2, <1>2, HeldType
<1> HIDE DEF W
<1>10. Cut(V)
  BY <1>6, <1>7, <1>8, <1>9
<1> QED
  BY <1>10

(* What every slot holds moves up by one.                                  *)
LEMMA HeldShift ==
    ASSUME NEW hs, NEW gs, NEW n \in Nat, Counted(gs, 1 .. n),
           \A i \in 0 .. n - 1 : hs[i].data_len = gs[i + 1].data_len
    PROVE  HeldBytes(hs, 0 .. n - 1) = HeldBytes(gs, 1 .. n)
<1> DEFINE S == 0 .. n - 1
           Up(U) == {i + 1 : i \in U}
           T == {U \in SUBSET S : HeldBytes(hs, U) # HeldBytes(gs, Up(U))}
<1>a. IsFiniteSet(S) /\ IsFiniteSet(1 .. n)
  BY FS_Interval
<1>b. Up(S) = 1 .. n
  <2>1. ASSUME NEW k \in 1 .. n PROVE k \in Up(S)
    <3>1. k - 1 \in S /\ k = (k - 1) + 1
      OBVIOUS
    <3> QED
      BY <3>1
  <2> QED
    BY <2>1
<1> SUFFICES ASSUME T # {} PROVE FALSE
  BY <1>b
<1>0. T \subseteq SUBSET S
  OBVIOUS
<1>1. PICK U \in T : \A V \in T : V \subseteq U => V = U
  <2> HIDE DEF T, S
  <2> QED
    BY <1>0, <1>a, MinimalSet
<1>2. U \in SUBSET S /\ HeldBytes(hs, U) # HeldBytes(gs, Up(U))
  OBVIOUS
<1>3. Up(U) \subseteq 1 .. n
  BY <1>2
<1>4. IsFiniteSet(U) /\ IsFiniteSet(Up(U))
  <2> HIDE DEF S, Up
  <2> QED
    BY <1>2, <1>3, <1>a, FS_Subset
<1>5. Counted(hs, U) /\ Counted(gs, Up(U))
  <2>1. \A i \in U : i \in S /\ i + 1 \in 1 .. n
    BY <1>2
  <2> QED
    BY <2>1, <1>3 DEF Counted
<1>6. U # {}
  <2> SUFFICES ASSUME U = {} PROVE FALSE
    OBVIOUS
  <2>1. Up(U) = {}
    OBVIOUS
  <2>2. HeldBytes(hs, {}) = 0 /\ HeldBytes(gs, {}) = 0
    BY <1>a, HeldUnfolds
  <2> QED
    BY <1>2, <2>1, <2>2
<1>7. PICK x \in U : TRUE
  BY <1>6
<1>8. x + 1 \in Up(U) /\ Up(U) \ {x + 1} = Up(U \ {x})
  BY <1>2
<1>9. HeldBytes(hs, U \ {x}) = HeldBytes(gs, Up(U \ {x}))
  <2>1. U \ {x} \notin T
    BY <1>1
  <2> QED
    BY <2>1, <1>2
<1>10. HeldBytes(hs, U) = hs[x].data_len + HeldBytes(hs, U \ {x})
  BY <1>4, <1>5, HeldRemove, SMTT(30)
<1>11. HeldBytes(gs, Up(U)) = gs[x + 1].data_len + HeldBytes(gs, Up(U) \ {x + 1})
  <2> DEFINE W == Up(U)
             y == x + 1
  <2>1. IsFiniteSet(W) /\ Counted(gs, W) /\ y \in W
    BY <1>4, <1>5, <1>8
  <2> HIDE DEF W, y
  <2>2. HeldBytes(gs, W) = gs[y].data_len + HeldBytes(gs, W \ {y})
    BY <2>1, HeldRemove
  <2> QED
    BY <2>2 DEF W, y
<1>12. hs[x].data_len = gs[x + 1].data_len
  BY <1>2
<1> HIDE DEF Up, T
<1> QED
  BY <1>2, <1>8, <1>9, <1>10, <1>11, <1>12

-----------------------------------------------------------------------------
(* The bitmask.                                                            *)

(* Where a bit of a mask comes from.                                       *)
LEMMA MaskBits ==
    ASSUME NEW S \in SUBSET Nat
    PROVE  /\ MaskOf(S) \subseteq Nat \X (0 .. 7)
           /\ \A i \in Nat : \A b \in 0 .. 7 : <<i, b>> \in MaskOf(S) <=> 8 * i + (7 - b) \in S
<1>1. ASSUME NEW o \in Nat
      PROVE  o \div 8 \in Nat /\ 7 - (o % 8) \in 0 .. 7 /\ o = 8 * (o \div 8) + (o % 8)
  OBVIOUS
<1>2. MaskOf(S) \subseteq Nat \X (0 .. 7)
  BY <1>1 DEF MaskOf, BitOf
<1>3. ASSUME NEW i \in Nat, NEW b \in 0 .. 7
      PROVE  <<i, b>> \in MaskOf(S) <=> 8 * i + (7 - b) \in S
  <2>1. (8 * i + (7 - b)) \div 8 = i /\ (8 * i + (7 - b)) % 8 = 7 - b
    OBVIOUS
  <2>2. ASSUME 8 * i + (7 - b) \in S PROVE <<i, b>> \in MaskOf(S)
    BY <2>1, <2>2 DEF MaskOf, BitOf
  <2>3. ASSUME NEW o \in S, <<i, b>> = BitOf(o) PROVE 8 * i + (7 - b) \in S
    <3>1. i = o \div 8 /\ b = 7 - (o % 8)
      BY <2>3 DEF BitOf
    <3>2. 8 * i + (7 - b) = o
      BY <3>1, <1>1
    <3> QED
      BY <3>2
  <2> QED
    BY <2>2, <2>3 DEF MaskOf
<1> QED
  BY <1>2, <1>3

\* An element of a product is the pair of its components.
LEMMA Pairs ==
    ASSUME NEW A, NEW B
    PROVE  \A p \in A \X B : p[1] \in A /\ p[2] \in B /\ p = <<p[1], p[2]>>
OBVIOUS

\* A set of bits that holds exactly the bits of the bytes in S is the mask of
\* S.
LEMMA MasksEqual ==
    ASSUME NEW S \in SUBSET Nat, NEW M \in SUBSET (Nat \X (0 .. 7)),
           \A i \in Nat : \A b \in 0 .. 7 : <<i, b>> \in M <=> 8 * i + (7 - b) \in S
    PROVE  M = MaskOf(S)
<1>1. ASSUME NEW p \in Nat \X (0 .. 7) PROVE p \in M <=> p \in MaskOf(S)
  <2>1. p[1] \in Nat /\ p[2] \in 0 .. 7 /\ p = <<p[1], p[2]>>
    <3> DEFINE B == 0 .. 7
    <3>1. p \in Nat \X B
      OBVIOUS
    <3> HIDE DEF B
    <3>2. p[1] \in Nat /\ p[2] \in B /\ p = <<p[1], p[2]>>
      BY <3>1, Pairs
    <3> QED
      BY <3>2 DEF B
  <2>2. <<p[1], p[2]>> \in M <=> <<p[1], p[2]>> \in MaskOf(S)
    BY <2>1, MaskBits
  <2> QED
    BY <2>1, <2>2
<1> QED
  BY <1>1, MaskBits

\* A bit number is eight times a byte number and a remainder.
LEMMA Bytes ==
    ASSUME NEW n \in Nat
    PROVE  \E q \in Nat : \E r \in 0 .. 7 : n = 8 * q + r /\ n \div 8 = q /\ n % 8 = r
<1>1. n \div 8 \in Nat /\ n % 8 \in 0 .. 7 /\ n = 8 * (n \div 8) + (n % 8)
  OBVIOUS
<1> QED
  BY <1>1

\* ssl_bitmask_set() from an offset on a byte boundary marks exactly the
\* bytes of its range.
LEMMA AlignedBitsMark ==
    ASSUME NEW offset \in Nat, offset % 8 = 0, NEW len \in Nat
    PROVE  AlignedBits(offset, len) = MaskOf(offset .. offset + len - 1)
<1>1. PICK q \in Nat : offset = 8 * q /\ offset \div 8 = q
  BY Bytes
<1>2. PICK k \in Nat, e \in 0 .. 7 : len = 8 * k + e /\ len \div 8 = k /\ len % 8 = e
  BY Bytes
<1>3. (offset + len) \div 8 = q + k /\ (len - e) \div 8 = k
  BY <1>1, <1>2
<1> DEFINE M == {<<q + k, 8 - n>> : n \in 1 .. e} \cup ((q .. q + k - 1) \X (0 .. 7))
<1>4. AlignedBits(offset, len) = M
  BY <1>1, <1>2, <1>3 DEF AlignedBits, FullBytes
<1>5. M \in SUBSET (Nat \X (0 .. 7))
  OBVIOUS
<1>6. ASSUME NEW i \in Nat, NEW b \in 0 .. 7
      PROVE  <<i, b>> \in M <=> 8 * i + (7 - b) \in offset .. offset + len - 1
  <2>1. <<i, b>> \in M <=> \/ i = q + k /\ (8 - b) \in 1 .. e
                           \/ i \in q .. q + k - 1
    <3>1. ASSUME i = q + k, 8 - b \in 1 .. e PROVE <<i, b>> \in M
      <4>1. b = 8 - (8 - b)
        OBVIOUS
      <4> QED
        BY <3>1, <4>1
    <3>2. ASSUME NEW n \in 1 .. e, <<i, b>> = <<q + k, 8 - n>> PROVE i = q + k /\ (8 - b) \in 1 .. e
      BY <3>2
    <3> QED
      BY <3>1, <3>2
  <2> HIDE DEF M
  <2>2. CASE i = q + k
    BY <2>1, <2>2, <1>1, <1>2
  <2>3. CASE i > q + k
    BY <2>1, <2>3, <1>1, <1>2
  <2>4. CASE i < q + k
    BY <2>1, <2>4, <1>1, <1>2
  <2> QED
    BY <2>2, <2>3, <2>4
<1>7. offset .. offset + len - 1 \in SUBSET Nat
  OBVIOUS
<1> HIDE DEF M
<1>8. M = MaskOf(offset .. offset + len - 1)
  BY <1>5, <1>6, <1>7, MasksEqual
<1> QED
  BY <1>4, <1>8

\* The mask of a union is the union of the masks.
LEMMA MaskOfUnion ==
    ASSUME NEW S, NEW T
    PROVE  MaskOf(S \cup T) = MaskOf(S) \cup MaskOf(T)
BY DEF MaskOf

(* ssl_bitmask_set() marks the bits of its bytes and no other.             *)
LEMMA BitmaskSetMarks ==
    ASSUME NEW mask, NEW offset \in Nat, NEW len \in Nat
    PROVE  BitmaskSet(mask, offset, len) = mask \cup MaskOf(offset .. offset + len - 1)
<1>1. PICK q \in Nat, r \in 0 .. 7 : offset = 8 * q + r /\ offset \div 8 = q /\ offset % 8 = r
  BY Bytes
<1>2. CASE r = 0
  <2>1. BitmaskSet(mask, offset, len) = mask \cup AlignedBits(offset, len)
    BY <1>1, <1>2 DEF BitmaskSet
  <2> QED
    BY <2>1, <1>1, <1>2, AlignedBitsMark
<1>3. CASE r # 0 /\ len <= 8 - r
  <2> DEFINE M == {<<q, (8 - r) - n>> : n \in 1 .. len}
  <2>1. BitmaskSet(mask, offset, len) = mask \cup M
    BY <1>1, <1>3 DEF BitmaskSet
  <2>2. M \in SUBSET (Nat \X (0 .. 7))
    BY <1>3
  <2>3. ASSUME NEW i \in Nat, NEW b \in 0 .. 7
        PROVE  <<i, b>> \in M <=> 8 * i + (7 - b) \in offset .. offset + len - 1
    <3>1. <<i, b>> \in M <=> i = q /\ (8 - r) - b \in 1 .. len
      <4>1. ASSUME i = q, (8 - r) - b \in 1 .. len PROVE <<i, b>> \in M
        <5>1. b = (8 - r) - ((8 - r) - b)
          OBVIOUS
        <5> QED
          BY <4>1, <5>1
      <4>2. ASSUME NEW n \in 1 .. len, <<i, b>> = <<q, (8 - r) - n>>
            PROVE  i = q /\ (8 - r) - b \in 1 .. len
        BY <4>2
      <4> QED
        BY <4>1, <4>2
    <3> HIDE DEF M
    <3>2. CASE i = q
      BY <3>1, <3>2, <1>1, <1>3
    <3>3. CASE i > q
      BY <3>1, <3>3, <1>1, <1>3
    <3>4. CASE i < q
      BY <3>1, <3>4, <1>1, <1>3
    <3> QED
      BY <3>2, <3>3, <3>4
  <2>4. offset .. offset + len - 1 \in SUBSET Nat
    OBVIOUS
  <2> HIDE DEF M
  <2>5. M = MaskOf(offset .. offset + len - 1)
    BY <2>2, <2>3, <2>4, MasksEqual
  <2> QED
    BY <2>1, <2>5
<1>4. CASE r # 0 /\ len > 8 - r
  <2> DEFINE M == {<<q, n - 1>> : n \in 1 .. 8 - r}
             next == offset + (8 - r)
             rest == len - (8 - r)
  <2>1. BitmaskSet(mask, offset, len) = mask \cup (M \cup AlignedBits(next, rest))
    BY <1>1, <1>4 DEF BitmaskSet
  <2>2. M \in SUBSET (Nat \X (0 .. 7))
    BY <1>4
  <2>3. ASSUME NEW i \in Nat, NEW b \in 0 .. 7
        PROVE  <<i, b>> \in M <=> 8 * i + (7 - b) \in offset .. next - 1
    <3>1. <<i, b>> \in M <=> i = q /\ b + 1 \in 1 .. 8 - r
      <4>1. ASSUME i = q, b + 1 \in 1 .. 8 - r PROVE <<i, b>> \in M
        <5>1. b = (b + 1) - 1
          OBVIOUS
        <5> QED
          BY <4>1, <5>1
      <4>2. ASSUME NEW n \in 1 .. 8 - r, <<i, b>> = <<q, n - 1>>
            PROVE  i = q /\ b + 1 \in 1 .. 8 - r
        BY <4>2
      <4> QED
        BY <4>1, <4>2
    <3> HIDE DEF M
    <3>2. CASE i = q
      BY <3>1, <3>2, <1>1, <1>4
    <3>3. CASE i > q
      BY <3>1, <3>3, <1>1, <1>4
    <3>4. CASE i < q
      BY <3>1, <3>4, <1>1, <1>4
    <3> QED
      BY <3>2, <3>3, <3>4
  <2>4. offset .. next - 1 \in SUBSET Nat
    OBVIOUS
  <2>5. next \in Nat /\ next % 8 = 0 /\ rest \in Nat
    <3>1. next = 8 * (q + 1)
      BY <1>1
    <3> QED
      BY <3>1, <1>4
  <2>6. offset .. offset + len - 1 = (offset .. next - 1) \cup (next .. next + rest - 1)
    BY <1>4
  <2> HIDE DEF M, next, rest
  <2>7. M = MaskOf(offset .. next - 1)
    BY <2>2, <2>3, <2>4, MasksEqual
  <2>8. AlignedBits(next, rest) = MaskOf(next .. next + rest - 1)
    BY <2>5, AlignedBitsMark
  <2>9. MaskOf(offset .. offset + len - 1) = M \cup AlignedBits(next, rest)
    <3> DEFINE s == offset .. next - 1
               t == next .. next + rest - 1
    <3>1. MaskOf(s \cup t) = MaskOf(s) \cup MaskOf(t)
      BY MaskOfUnion
    <3> QED
      BY <3>1, <2>6, <2>7, <2>8
  <2> QED
    BY <2>1, <2>9
<1> QED
  BY <1>2, <1>3, <1>4

(* ssl_bitmask_check() asks for all of the first bytes.                    *)
LEMMA BitmaskCheckAsks ==
    ASSUME NEW S \in SUBSET Nat, NEW len \in Nat
    PROVE  BitmaskCheck(MaskOf(S), len) <=> 0 .. len - 1 \subseteq S
<1>1. PICK k \in Nat, e \in 0 .. 7 : len = 8 * k + e /\ len \div 8 = k /\ len % 8 = e
  BY Bytes
<1> DEFINE Full == \A i \in 0 .. k - 1 : \A b \in 0 .. 7 : 8 * i + (7 - b) \in S
           Part == \A c \in 0 .. e - 1 : 8 * k + c \in S
<1>2. BitmaskCheck(MaskOf(S), len) <=> (Full /\ Part)
  <2> DEFINE FullMask == \A i \in 0 .. k - 1 : \A b \in 0 .. 7 : <<i, b>> \in MaskOf(S)
             PartMask == \A c \in 0 .. e - 1 : <<k, 7 - c>> \in MaskOf(S)
  <2>1. FullMask <=> FullBytes(0, k) \subseteq MaskOf(S)
    <3>1. FullBytes(0, k) = (0 .. k - 1) \X (0 .. 7)
      BY DEF FullBytes
    <3>2. ASSUME FullMask, NEW p \in (0 .. k - 1) \X (0 .. 7) PROVE p \in MaskOf(S)
      <4>1. p[1] \in 0 .. k - 1 /\ p[2] \in 0 .. 7 /\ p = <<p[1], p[2]>>
        <5> DEFINE A == 0 .. k - 1
                   B == 0 .. 7
        <5>1. p \in A \X B
          OBVIOUS
        <5> HIDE DEF A, B
        <5>2. p[1] \in A /\ p[2] \in B /\ p = <<p[1], p[2]>>
          BY <5>1, Pairs
        <5> QED
          BY <5>2 DEF A, B
      <4> QED
        BY <3>2, <4>1
    <3> QED
      BY <3>1, <3>2
  <2>2. BitmaskCheck(MaskOf(S), len) <=> (FullMask /\ PartMask)
    <3> HIDE DEF FullMask
    <3> QED
      BY <1>1, <2>1 DEF BitmaskCheck
  <2>3. FullMask <=> Full
    <3>1. \A i \in 0 .. k - 1 : i \in Nat
      OBVIOUS
    <3> QED
      BY <3>1, MaskBits
  <2>4. PartMask <=> Part
    <3>1. \A c \in 0 .. e - 1 : 7 - c \in 0 .. 7 /\ 7 - (7 - c) = c
      OBVIOUS
    <3>2. \A c \in 0 .. e - 1 : <<k, 7 - c>> \in MaskOf(S) <=> 8 * k + (7 - (7 - c)) \in S
      BY <3>1, MaskBits
    <3> QED
      BY <3>1, <3>2
  <2> HIDE DEF FullMask, PartMask, Full, Part
  <2> QED
    BY <2>2, <2>3, <2>4
<1>3. ASSUME 0 .. len - 1 \subseteq S PROVE Full /\ Part
  BY <1>1, <1>3
<1>4. ASSUME Full, Part PROVE 0 .. len - 1 \subseteq S
  <2> SUFFICES ASSUME NEW n \in 0 .. len - 1 PROVE n \in S
    OBVIOUS
  <2>1. PICK i \in Nat, c \in 0 .. 7 : n = 8 * i + c
    BY Bytes
  <2>2. CASE i < k
    <3>1. i \in 0 .. k - 1 /\ 7 - c \in 0 .. 7 /\ n = 8 * i + (7 - (7 - c))
      BY <2>1, <2>2
    <3> QED
      BY <3>1, <1>4
  <2>3. CASE i >= k
    <3>1. 8 * i + c <= 8 * k + e - 1
      BY <1>1, <2>1
    <3>2. i = k /\ c \in 0 .. e - 1
      BY <3>1, <2>3
    <3> QED
      BY <3>2, <2>1, <1>4
  <2> QED
    BY <2>2, <2>3
<1> HIDE DEF Full, Part
<1> QED
  BY <1>2, <1>3, <1>4

-----------------------------------------------------------------------------
(* The inductive invariant *)

Messages ==
    [is_valid : BOOLEAN, is_complete : BOOLEAN, is_fragmented : BOOLEAN, seq : Nat, total : Nat,
     data : SUBSET Nat, mask : SUBSET (Nat \X (0 .. 7)), data_len : Nat]
Records == [data : SUBSET Fragments, epoch : Nat, len : Nat]
Buffers ==
    [hs : [Slots -> Messages], total_bytes_buffered : Nat, seen_ccs : BOOLEAN,
     future_record : Records]

RecordBytes(record) == IF record.data = {} THEN 0 ELSE record.len

\* The account of b is exact.
Accounted(b) ==
    b.total_bytes_buffered = HeldBytes(b.hs, Slots) + RecordBytes(b.future_record)

\* slot is free, or holds some or all of the message seq and says which.
SlotIsRight(slot, seq) ==
    /\ ~slot.is_valid => slot = NoMessage
    /\ slot.is_valid =>
         /\ slot.seq = seq
         /\ slot.data \subseteq 0 .. slot.total - 1
         /\ slot.is_fragmented => slot.mask = MaskOf(slot.data)
         /\ slot.is_fragmented \/ slot.is_complete
         /\ slot.is_complete => slot.data = 0 .. slot.total - 1

SlotsAreRight(hs, seq) == \A i \in Slots : SlotIsRight(hs[i], seq + i)

BufferIsRight(b, seq) == b \in Buffers /\ Accounted(b) /\ SlotsAreRight(b.hs, seq)

TypeOK ==
    /\ hostile \in BOOLEAN
    /\ pos \in Nat
    /\ in_msg_seq \in Nat
    /\ in_flight_start_seq \in Nat
    /\ in_epoch \in Nat
    /\ in_datagram \in BOOLEAN
    /\ delivered \in Seq([seq : Nat, total : Nat, data : SUBSET Nat])
    /\ failed \in {"no", "unexpected_message", "buffer_too_small", "alloc_failed"}

\* Every message that was counted was given to the handshake.
CountIsRight == failed = "no" => Len(delivered) = in_msg_seq

ReassemblyInv ==
    /\ TypeOK
    /\ BufferIsRight(buffering, in_msg_seq)
    /\ CountIsRight
    /\ DeliveredInOrder

-----------------------------------------------------------------------------
(* The operations on the buffer *)

\* The buffer has finitely many slots.
LEMMA SlotsAreFinite == IsFiniteSet(Slots)
BY ReassemblyConstants, FS_Interval DEF Slots

\* A free slot holds no bytes and is right for any message.
LEMMA FreeSlot ==
    /\ NoMessage \in Messages
    /\ NoMessage.data_len = 0
    /\ ~NoMessage.is_valid
    /\ \A seq : SlotIsRight(NoMessage, seq)
BY DEF NoMessage, Messages, SlotIsRight

\* The types of the fields of a buffer.
LEMMA BufferFields ==
    ASSUME NEW b \in Buffers
    PROVE  /\ b.hs \in [Slots -> Messages]
           /\ b.total_bytes_buffered \in Nat
           /\ b.seen_ccs \in BOOLEAN
           /\ b.future_record \in Records
           /\ RecordBytes(b.future_record) \in Nat
           /\ \A S \in SUBSET Slots :
                /\ IsFiniteSet(S)
                /\ Counted(b.hs, S)
                /\ HeldBytes(b.hs, S) \in Nat
<1>1. /\ b.hs \in [Slots -> Messages]
      /\ b.total_bytes_buffered \in Nat
      /\ b.seen_ccs \in BOOLEAN
      /\ b.future_record \in Records
  BY DEF Buffers
<1>2. RecordBytes(b.future_record) \in Nat
  BY <1>1 DEF RecordBytes, Records
<1>3. ASSUME NEW S \in SUBSET Slots
      PROVE  IsFiniteSet(S) /\ Counted(b.hs, S) /\ HeldBytes(b.hs, S) \in Nat
  <2>1. IsFiniteSet(S)
    BY SlotsAreFinite, FS_Subset
  <2>2. Counted(b.hs, S)
    BY <1>1 DEF Counted, Messages
  <2> QED
    BY <2>1, <2>2, HeldType
<1> QED
  BY <1>1, <1>2, <1>3

\* Freeing slots keeps the account and the slots right.
LEMMA FreeSlotsKeepsRight ==
    ASSUME NEW b, NEW seq \in Nat, BufferIsRight(b, seq), NEW S \in SUBSET Slots
    PROVE  LET c == FreeSlots(b, S)
           IN  /\ BufferIsRight(c, seq)
               /\ c.hs = [i \in Slots |-> IF i \in S THEN NoMessage ELSE b.hs[i]]
               /\ c.future_record = b.future_record
               /\ c.seen_ccs = b.seen_ccs
               /\ S = Slots => c.total_bytes_buffered = RecordBytes(b.future_record)
<1> DEFINE c == FreeSlots(b, S)
           g == [i \in Slots |-> IF i \in S THEN NoMessage ELSE b.hs[i]]
<1>1. b \in Buffers /\ Accounted(b) /\ SlotsAreRight(b.hs, seq)
  BY DEF BufferIsRight
<1>2. c = [b EXCEPT !.hs = g, !.total_bytes_buffered = b.total_bytes_buffered - HeldBytes(b.hs, S)]
  BY <1>1 DEF FreeSlots, Buffers
<1>3. /\ c.hs = g
      /\ c.total_bytes_buffered = b.total_bytes_buffered - HeldBytes(b.hs, S)
      /\ c.future_record = b.future_record
      /\ c.seen_ccs = b.seen_ccs
  BY <1>1, <1>2 DEF Buffers
<1>4. g \in [Slots -> Messages]
  BY <1>1, BufferFields, FreeSlot
<1> DEFINE R == Slots \ S
<1>5. /\ \A i \in S : g[i].data_len = 0
      /\ \A i \in R : g[i].data_len = b.hs[i].data_len
  BY FreeSlot
<1> HIDE DEF g
<1>6. /\ HeldBytes(b.hs, Slots) = HeldBytes(b.hs, S) + HeldBytes(b.hs, R)
      /\ {HeldBytes(b.hs, S), HeldBytes(b.hs, R), HeldBytes(b.hs, Slots)} \subseteq Nat
  <2>1. Counted(b.hs, Slots) /\ R \in SUBSET Slots
    BY <1>1, BufferFields
  <2>2. HeldBytes(b.hs, Slots) = HeldBytes(b.hs, S) + HeldBytes(b.hs, R)
    BY <2>1, SlotsAreFinite, HeldSplit
  <2> QED
    BY <2>1, <2>2, <1>1, BufferFields
<1>7. HeldBytes(g, Slots) = HeldBytes(b.hs, R)
  <2>1. Counted(g, Slots) /\ IsFiniteSet(S) /\ IsFiniteSet(R)
    BY <1>4, SlotsAreFinite, FS_Subset DEF Counted, Messages
  <2>2. HeldBytes(g, Slots) = HeldBytes(g, S) + HeldBytes(g, R)
    BY <2>1, SlotsAreFinite, HeldSplit
  <2> HIDE DEF R
  <2>3. HeldBytes(g, S) = 0 /\ HeldBytes(g, R) = HeldBytes(b.hs, R)
    BY <2>1, <1>5, HeldZero, HeldSame
  <2> QED
    BY <2>2, <2>3, <1>6
<1>8. /\ b.total_bytes_buffered = HeldBytes(b.hs, Slots) + RecordBytes(b.future_record)
      /\ RecordBytes(b.future_record) \in Nat
      /\ b.total_bytes_buffered \in Nat
  BY <1>1, BufferFields DEF Accounted
<1> HIDE DEF R, c
<1>9. /\ c.total_bytes_buffered = HeldBytes(g, Slots) + RecordBytes(b.future_record)
      /\ c.total_bytes_buffered \in Nat
  BY <1>3, <1>6, <1>7, <1>8
<1>10. Accounted(c)
  BY <1>3, <1>9 DEF Accounted
<1>11. c \in Buffers
  BY <1>1, <1>2, <1>3, <1>4, <1>9 DEF Buffers
<1>12. SlotsAreRight(c.hs, seq)
  <2> SUFFICES ASSUME NEW i \in Slots PROVE SlotIsRight(c.hs[i], seq + i)
    BY DEF SlotsAreRight
  <2>1. SlotIsRight(b.hs[i], seq + i) /\ SlotIsRight(NoMessage, seq + i)
    BY <1>1, FreeSlot DEF SlotsAreRight
  <2>2. g[i] = IF i \in S THEN NoMessage ELSE b.hs[i]
    BY DEF g
  <2> QED
    BY <2>1, <2>2, <1>3
<1>13. ASSUME S = Slots PROVE c.total_bytes_buffered = RecordBytes(b.future_record)
  <2>1. R = {}
    BY <1>13 DEF R
  <2>2. HeldBytes(b.hs, R) = 0
    BY <2>1, SlotsAreFinite, HeldUnfolds
  <2> QED
    BY <2>2, <1>7, <1>8, <1>9
<1>14. BufferIsRight(c, seq)
  BY <1>10, <1>11, <1>12 DEF BufferIsRight
<1> QED
  BY <1>3, <1>13, <1>14 DEF c, g

\* ssl_free_buffered_record() keeps the account right.
LEMMA FreeRecordKeepsRight ==
    ASSUME NEW b, NEW seq \in Nat, BufferIsRight(b, seq)
    PROVE  LET c == FreeRecord(b)
           IN  /\ BufferIsRight(c, seq)
               /\ c.hs = b.hs
               /\ c.future_record.data = {}
               /\ c.seen_ccs = b.seen_ccs
<1>1. b \in Buffers /\ Accounted(b) /\ SlotsAreRight(b.hs, seq)
  BY DEF BufferIsRight
<1>2. CASE b.future_record.data = {}
  BY <1>2 DEF FreeRecord
<1>3. CASE b.future_record.data # {}
  <2> DEFINE c == FreeRecord(b)
             r == [b.future_record EXCEPT !.data = {}]
             t == b.total_bytes_buffered - b.future_record.len
  <2>1. c = [b EXCEPT !.future_record = r, !.total_bytes_buffered = t]
    BY <1>1, <1>3 DEF FreeRecord, Buffers, Records
  <2>2. r \in Records /\ r.data = {} /\ RecordBytes(r) = 0
    BY <1>1 DEF Buffers, Records, RecordBytes
  <2>3. RecordBytes(b.future_record) = b.future_record.len
    BY <1>3 DEF RecordBytes
  <2>4. t = HeldBytes(b.hs, Slots) /\ t \in Nat
    BY <1>1, <2>3, BufferFields DEF Accounted
  <2> HIDE DEF t, r
  <2>5. /\ c.hs = b.hs
        /\ c.future_record = r
        /\ c.total_bytes_buffered = t
        /\ c.seen_ccs = b.seen_ccs
        /\ c \in Buffers
    BY <1>1, <2>1, <2>2, <2>4 DEF Buffers
  <2> HIDE DEF c
  <2>6. Accounted(c)
    BY <2>2, <2>4, <2>5 DEF Accounted
  <2>7. BufferIsRight(c, seq)
    BY <1>1, <2>5, <2>6 DEF BufferIsRight
  <2> QED
    BY <2>2, <2>5, <2>7 DEF c
<1> QED
  BY <1>2, <1>3

(* A finite, nonempty set of numbers has a greatest one.                   *)
LEMMA GreatestExists ==
    ASSUME NEW n \in Nat, NEW E \in SUBSET (0 .. n), E # {}
    PROVE  Max(E) \in E
<1> DEFINE Above(x) == {y \in E : y > x}
           T == {Above(x) : x \in E}
           D == 0 .. n
<1>1. T \subseteq SUBSET D /\ T # {}
  OBVIOUS
<1>2. PICK U \in T : \A V \in T : V \subseteq U => V = U
  <2>1. IsFiniteSet(D)
    BY FS_Interval
  <2> HIDE DEF T, D
  <2> QED
    BY <1>1, <2>1, MinimalSet
<1>3. PICK x \in E : U = Above(x)
  OBVIOUS
<1>4. ASSUME NEW y \in E, y > x PROVE FALSE
  <2>1. Above(y) \in T /\ Above(y) \subseteq Above(x)
    <3>1. ASSUME NEW z \in E, z > y PROVE z > x
      BY <1>4, <3>1
    <3> QED
      BY <3>1
  <2>2. y \in Above(x) /\ y \notin Above(y)
    BY <1>4
  <2> HIDE DEF Above
  <2> QED
    BY <2>1, <2>2, <1>2, <1>3
<1>5. \A y \in E : x >= y
  BY <1>4
<1> QED
  BY <1>5 DEF Max

\* ssl_buffer_make_space() keeps the buffer right, and finds no room only for
\* what is larger than the whole buffer.
LEMMA MakeSpaceKeepsRight ==
    ASSUME NEW b, NEW seq \in Nat, BufferIsRight(b, seq), NEW size \in Nat
    PROVE  LET c == MakeSpace(b, size)
           IN  /\ BufferIsRight(c, seq)
               /\ \A i \in Slots : ~b.hs[i].is_valid => ~c.hs[i].is_valid
               /\ ~Fits(c, size) => size > MaxBuffering
<1> DEFINE a == FreeRecord(b)
           Freed(first) == FreeSlots(a, first .. MaxBufferedHs - 1)
           enough == {first \in 0 .. MaxBufferedHs : Fits(Freed(first), size)}
           m == Max(enough \cup {0})
           c == Freed(m)
<1>1. BufferIsRight(a, seq) /\ a.hs = b.hs /\ a.future_record.data = {}
  BY FreeRecordKeepsRight
<1>2. MaxBufferedHs \in Nat \ {0} /\ MaxBuffering \in Nat
  BY ReassemblyConstants
<1>3. MakeSpace(b, size) = c
  BY DEF MakeSpace
<1> HIDE DEF a
<1>4. m \in enough \cup {0}
  <2> DEFINE E == enough \cup {0}
  <2>1. E \in SUBSET (0 .. MaxBufferedHs) /\ E # {}
    BY <1>2
  <2> HIDE DEF E
  <2>2. Max(E) \in E
    BY <2>1, <1>2, GreatestExists
  <2> QED
    BY <2>2 DEF E
<1> HIDE DEF m
<1>5. m \in 0 .. MaxBufferedHs
  BY <1>2, <1>4
<1> DEFINE S == m .. MaxBufferedHs - 1
<1>6. S \in SUBSET Slots
  BY <1>2, <1>5 DEF Slots
<1>7. c = FreeSlots(a, S)
  OBVIOUS
<1>8. /\ BufferIsRight(c, seq)
      /\ c.hs = [i \in Slots |-> IF i \in S THEN NoMessage ELSE a.hs[i]]
      /\ S = Slots => c.total_bytes_buffered = RecordBytes(a.future_record)
  <2> HIDE DEF c, S
  <2> QED
    BY <1>1, <1>6, <1>7, FreeSlotsKeepsRight
<1>9. \A i \in Slots : ~b.hs[i].is_valid => ~c.hs[i].is_valid
  <2> HIDE DEF c, S
  <2> QED
    BY <1>1, <1>8, FreeSlot
<1>10. ASSUME ~Fits(c, size) PROVE size > MaxBuffering
  <2>1. m \notin enough
    BY <1>10
  <2>2. m = 0
    BY <1>4, <2>1
  <2>3. S = Slots
    BY <2>2 DEF Slots
  <2>4. c.total_bytes_buffered = 0
    <3> HIDE DEF c, S
    <3> QED
      BY <2>3, <1>1, <1>8 DEF RecordBytes
  <2> HIDE DEF c
  <2> QED
    BY <2>4, <1>2, <1>10 DEF Fits
<1> HIDE DEF c
<1> QED
  BY <1>3, <1>8, <1>9, <1>10

\* The types of the fields of a fragment, which lies within its message.
LEMMA FragmentFields ==
    ASSUME NEW f \in Fragments
    PROVE  /\ f.seq \in Nat /\ f.total \in Nat /\ f.off \in Nat /\ f.len \in Nat /\ f.epoch \in Nat
           /\ f.off + f.len <= f.total
           /\ \A bitmap \in BOOLEAN : ReassemblyBufferSize(f.total, bitmap) \in Nat
           /\ IsProperFragment(f) \in BOOLEAN
           /\ ~IsProperFragment(f) => f.off = 0 /\ f.len = f.total
<1>1. /\ f.seq \in Nat /\ f.total \in Nat /\ f.off \in Nat /\ f.len \in Nat /\ f.epoch \in Nat
      /\ f.off + f.len <= f.total
  BY ReassemblyConstants
<1>2. ASSUME NEW bitmap \in BOOLEAN PROVE ReassemblyBufferSize(f.total, bitmap) \in Nat
  <2>1. f.total \div 8 \in Nat
    BY <1>1
  <2> QED
    BY <1>1, <2>1 DEF ReassemblyBufferSize, HsHeader
<1> QED
  BY <1>1, <1>2 DEF IsProperFragment

\* A slot of b gets another content.
LEMMA SlotChangeKeepsRight ==
    ASSUME NEW b, NEW seq \in Nat, BufferIsRight(b, seq), NEW i \in Slots,
           NEW slot \in Messages, SlotIsRight(slot, seq + i), NEW c,
           c = [b EXCEPT !.hs = [b.hs EXCEPT ![i] = slot],
                         !.total_bytes_buffered = b.total_bytes_buffered - b.hs[i].data_len
                                                    + slot.data_len]
    PROVE  BufferIsRight(c, seq)
<1>1. b \in Buffers /\ Accounted(b) /\ SlotsAreRight(b.hs, seq)
  BY DEF BufferIsRight
<1> DEFINE g == [b.hs EXCEPT ![i] = slot]
           t == b.total_bytes_buffered - b.hs[i].data_len + slot.data_len
           R == Slots \ {i}
<1>2. b.hs \in [Slots -> Messages]
  BY <1>1, BufferFields
<1>3. /\ g \in [Slots -> Messages]
      /\ g[i] = slot
      /\ \A j \in R : g[j] = b.hs[j]
  BY <1>2
<1>4. /\ HeldBytes(b.hs, Slots) = b.hs[i].data_len + HeldBytes(b.hs, R)
      /\ HeldBytes(b.hs, R) \in Nat
      /\ b.hs[i].data_len \in Nat
      /\ slot.data_len \in Nat
  <2>1. Counted(b.hs, Slots) /\ R \in SUBSET Slots
    BY <1>1, BufferFields
  <2>2. HeldBytes(b.hs, R) \in Nat
    BY <2>1, <1>1, BufferFields
  <2> QED
    BY <2>1, <2>2, <1>2, SlotsAreFinite, HeldRemove DEF Messages
<1> HIDE DEF g
<1>5. HeldBytes(g, Slots) = slot.data_len + HeldBytes(b.hs, R)
  <2>1. Counted(g, Slots)
    BY <1>3 DEF Counted, Messages
  <2>2. HeldBytes(g, Slots) = g[i].data_len + HeldBytes(g, R)
    BY <2>1, SlotsAreFinite, HeldRemove
  <2>3. IsFiniteSet(R)
    BY SlotsAreFinite, FS_Subset
  <2> HIDE DEF R
  <2>4. HeldBytes(g, R) = HeldBytes(b.hs, R)
    <3>1. \A j \in R : g[j].data_len = b.hs[j].data_len
      BY <1>3
    <3> QED
      BY <3>1, <2>3, HeldSame
  <2> QED
    BY <2>2, <2>4, <1>3
<1>6. /\ b.total_bytes_buffered = HeldBytes(b.hs, Slots) + RecordBytes(b.future_record)
      /\ RecordBytes(b.future_record) \in Nat
      /\ b.total_bytes_buffered \in Nat
  BY <1>1, BufferFields DEF Accounted
<1> HIDE DEF R
<1>7. t = HeldBytes(g, Slots) + RecordBytes(b.future_record) /\ t \in Nat
  BY <1>4, <1>5, <1>6
<1>8. c = [b EXCEPT !.hs = g, !.total_bytes_buffered = t]
  BY DEF g
<1> HIDE DEF t
<1>9. /\ c \in Buffers
      /\ c.hs = g
      /\ c.total_bytes_buffered = t
      /\ c.future_record = b.future_record
  BY <1>1, <1>3, <1>7, <1>8 DEF Buffers
<1>10. Accounted(c)
  BY <1>7, <1>9 DEF Accounted
<1>11. SlotsAreRight(c.hs, seq)
  <2> SUFFICES ASSUME NEW j \in Slots PROVE SlotIsRight(g[j], seq + j)
    BY <1>9 DEF SlotsAreRight
  <2>1. CASE j = i
    BY <2>1, <1>3
  <2>2. CASE j # i
    <3>1. g[j] = b.hs[j]
      BY <2>2, <1>3 DEF R
    <3> QED
      BY <3>1, <1>1 DEF SlotsAreRight
  <2> QED
    BY <2>1, <2>2
<1> QED
  BY <1>9, <1>10, <1>11 DEF BufferIsRight

(* A fragment makes a message complete with its last missing byte, never   *)
(* earlier.                                                                *)
LEMMA FilledIsRight ==
    ASSUME NEW slot \in Messages, NEW seq \in Nat, NEW f \in Fragments,
           slot.is_valid, slot.seq = seq, slot.data \subseteq 0 .. slot.total - 1,
           slot.is_fragmented => slot.mask = MaskOf(slot.data),
           slot.is_complete => slot.data = 0 .. slot.total - 1,
           \/ slot.is_fragmented
           \/ slot.is_complete
           \/ slot.total = f.total /\ ~IsProperFragment(f)
    PROVE  /\ Filled(slot, f) \in Messages
           /\ SlotIsRight(Filled(slot, f), seq)
           /\ Filled(slot, f).data_len = slot.data_len
           /\ Filled(slot, f).is_valid
<1>1. CASE slot.total # f.total \/ slot.is_complete
  <2>1. Filled(slot, f) = slot
    BY <1>1 DEF Filled
  <2>2. slot.is_fragmented \/ slot.is_complete
    BY <1>1
  <2> QED
    BY <2>1, <2>2 DEF SlotIsRight
<1>2. CASE slot.total = f.total /\ ~slot.is_complete
  <2> DEFINE marked == BitmaskSet(slot.mask, f.off, f.len)
             bytes == f.off .. f.off + f.len - 1
             data == slot.data \cup bytes
             mask == IF slot.is_fragmented THEN marked ELSE slot.mask
             complete == slot.is_fragmented => BitmaskCheck(marked, f.total)
             new == [slot EXCEPT !.data = data, !.mask = mask, !.is_complete = complete]
  <2>1. Filled(slot, f) = new
    BY <1>2 DEF Filled, Messages
  <2>2. slot.data \in SUBSET Nat /\ slot.mask \in SUBSET (Nat \X (0 .. 7))
    BY DEF Messages
  <2>3. bytes \in SUBSET (0 .. slot.total - 1) /\ bytes \in SUBSET Nat
    BY <1>2, FragmentFields, SMTT(30)
  <2>4. data \in SUBSET Nat /\ data \in SUBSET (0 .. slot.total - 1)
    BY <2>2, <2>3
  <2>5. marked = slot.mask \cup MaskOf(bytes)
    BY FragmentFields, BitmaskSetMarks, SMTT(30)
  <2>6. mask \in SUBSET (Nat \X (0 .. 7))
    <3> HIDE DEF bytes, marked
    <3> QED
      BY <2>2, <2>3, <2>5, MaskBits
  <2>7. slot.is_fragmented => marked = MaskOf(data)
    <3> HIDE DEF bytes, marked
    <3> QED
      BY <2>5, MaskOfUnion
  <2>8. complete \in BOOLEAN
    <3>1. slot.is_fragmented \in BOOLEAN
      BY DEF Messages
    <3>2. CASE slot.is_fragmented
      BY <3>2 DEF BitmaskCheck
    <3>3. CASE ~slot.is_fragmented
      BY <3>3
    <3> QED
      BY <3>1, <3>2, <3>3
  <2>9. slot.total \in Nat
    BY DEF Messages
  <2>10. complete => data = 0 .. slot.total - 1
    <3>1. CASE slot.is_fragmented
      <4> SUFFICES ASSUME BitmaskCheck(marked, f.total) PROVE data = 0 .. slot.total - 1
        BY <3>1
      <4>1. BitmaskCheck(MaskOf(data), slot.total)
        <5> HIDE DEF marked, data
        <5> QED
          BY <2>7, <3>1, <1>2
      <4> HIDE DEF data
      <4>2. 0 .. slot.total - 1 \subseteq data
        BY <4>1, <2>4, <2>9, BitmaskCheckAsks
      <4> QED
        BY <4>2, <2>4
    <3>2. CASE ~slot.is_fragmented
      <4>1. f.off = 0 /\ f.len = f.total
        BY <3>2, <1>2, FragmentFields
      <4>2. bytes = 0 .. slot.total - 1
        BY <4>1, <1>2, <2>9
      <4> QED
        BY <4>2, <2>4
    <3> QED
      BY <3>1, <3>2
  <2>11. slot.is_fragmented \/ complete
    OBVIOUS
  <2>12. slot.is_fragmented => mask = MaskOf(data)
    BY <2>7
  <2> HIDE DEF complete, data, mask
  <2>13. /\ new \in Messages
         /\ new.is_valid
         /\ new.data_len = slot.data_len
         /\ new.seq = seq
         /\ new.total = slot.total
         /\ new.data = data
         /\ new.mask = mask
         /\ new.is_fragmented = slot.is_fragmented
         /\ new.is_complete = complete
    BY <2>4, <2>6, <2>8 DEF Messages
  <2> HIDE DEF new
  <2>14. SlotIsRight(new, seq)
    BY <2>4, <2>10, <2>11, <2>12, <2>13 DEF SlotIsRight
  <2> QED
    BY <2>1, <2>13, <2>14
<1> QED
  BY <1>1, <1>2

\* A fragment copied into a slot that is in use keeps the buffer right: the
\* bitmask has the bytes that were copied.
LEMMA AddFragmentKeepsRight ==
    ASSUME NEW b, NEW seq \in Nat, BufferIsRight(b, seq), NEW i \in Slots, NEW f \in Fragments,
           b.hs[i].is_valid
    PROVE  BufferIsRight(AddFragment(b, i, f), seq)
<1>1. b \in Buffers /\ SlotsAreRight(b.hs, seq) /\ b.hs \in [Slots -> Messages]
  BY BufferFields DEF BufferIsRight
<1> DEFINE old == b.hs[i]
           new == Filled(old, f)
<1>2. /\ old \in Messages
      /\ SlotIsRight(old, seq + i)
      /\ old.is_valid
      /\ seq + i \in Nat
  <2>1. seq + i \in Nat
    BY DEF Slots
  <2>2. old \in Messages /\ SlotIsRight(old, seq + i)
    BY <1>1 DEF SlotsAreRight
  <2> QED
    BY <2>1, <2>2
<1> HIDE DEF old
<1>3. /\ new \in Messages
      /\ SlotIsRight(new, seq + i)
      /\ new.data_len = old.data_len
  BY <1>2, FilledIsRight DEF SlotIsRight
<1> HIDE DEF new
<1>4. AddFragment(b, i, f) = [b EXCEPT !.hs = [b.hs EXCEPT ![i] = new]]
  BY <1>1 DEF AddFragment, Buffers, new, old
<1>5. b.total_bytes_buffered - b.hs[i].data_len + new.data_len = b.total_bytes_buffered
  <2>1. b.total_bytes_buffered \in Nat /\ old.data_len \in Nat
    BY <1>1, <1>2, BufferFields DEF Messages
  <2> QED
    BY <2>1, <1>3 DEF old
<1> DEFINE c == AddFragment(b, i, f)
<1>6. c = [b EXCEPT !.hs = [b.hs EXCEPT ![i] = new],
                    !.total_bytes_buffered = b.total_bytes_buffered - b.hs[i].data_len + new.data_len]
  BY <1>1, <1>4, <1>5 DEF Buffers
<1> HIDE DEF c
<1>7. BufferIsRight(c, seq)
  BY <1>3, <1>6, SlotChangeKeepsRight
<1> QED
  BY <1>7 DEF c

\* A slot opened for the first fragment of a message keeps the buffer right.
LEMMA NewMessageKeepsRight ==
    ASSUME NEW b, NEW seq \in Nat, BufferIsRight(b, seq), NEW i \in Slots, NEW f \in Fragments,
           ~b.hs[i].is_valid, f.seq = seq + i
    PROVE  BufferIsRight(AddFragment(OpenSlot(b, i, f), i, f), seq)
<1>1. b \in Buffers /\ SlotsAreRight(b.hs, seq) /\ b.hs \in [Slots -> Messages]
  BY BufferFields DEF BufferIsRight
<1> DEFINE size == ReassemblyBufferSize(f.total, IsProperFragment(f))
           empty == [NoMessage EXCEPT !.is_valid = TRUE, !.is_fragmented = IsProperFragment(f),
                                      !.seq = f.seq, !.total = f.total, !.data_len = size]
           new == Filled(empty, f)
           c == AddFragment(OpenSlot(b, i, f), i, f)
<1>2. size \in Nat
  BY FragmentFields
<1> HIDE DEF size
<1>3. /\ empty \in Messages
      /\ empty.is_valid
      /\ ~empty.is_complete
      /\ empty.seq = seq + i
      /\ empty.total = f.total
      /\ empty.data = {}
      /\ empty.mask = {}
      /\ empty.is_fragmented = IsProperFragment(f)
      /\ empty.data_len = size
  BY <1>2, FragmentFields, FreeSlot DEF NoMessage, Messages
<1> HIDE DEF empty
<1>4. MaskOf({}) = {}
  BY DEF MaskOf
<1>5. seq + i \in Nat
  BY DEF Slots
<1>6. new \in Messages /\ SlotIsRight(new, seq + i) /\ new.data_len = size
  BY <1>3, <1>4, <1>5, FilledIsRight
<1> HIDE DEF new
<1>7. b.hs[i].data_len = 0
  BY <1>1, FreeSlot DEF SlotsAreRight, SlotIsRight
<1>8. OpenSlot(b, i, f) =
        [b EXCEPT !.hs = [b.hs EXCEPT ![i] = empty],
                  !.total_bytes_buffered = b.total_bytes_buffered + size]
  BY <1>1 DEF OpenSlot, Buffers, empty, size
<1>9. c = [b EXCEPT !.hs = [b.hs EXCEPT ![i] = new],
                    !.total_bytes_buffered = b.total_bytes_buffered + size]
  <2> DEFINE o == [b EXCEPT !.hs = [b.hs EXCEPT ![i] = empty],
                            !.total_bytes_buffered = b.total_bytes_buffered + size]
  <2>1. o.hs[i] = empty
    BY <1>1 DEF Buffers
  <2>2. c = [o EXCEPT !.hs = [o.hs EXCEPT ![i] = new]]
    BY <1>1, <1>8, <2>1 DEF AddFragment, Buffers, new
  <2>3. [o.hs EXCEPT ![i] = new] = [b.hs EXCEPT ![i] = new]
    BY <1>1 DEF Buffers
  <2> QED
    BY <2>2, <2>3, <1>1 DEF Buffers
<1>10. b.total_bytes_buffered - b.hs[i].data_len + new.data_len = b.total_bytes_buffered + size
  <2>1. b.total_bytes_buffered \in Nat
    BY <1>1, BufferFields
  <2> QED
    BY <2>1, <1>2, <1>6, <1>7
<1> HIDE DEF c
<1>11. c = [b EXCEPT !.hs = [b.hs EXCEPT ![i] = new],
                     !.total_bytes_buffered = b.total_bytes_buffered - b.hs[i].data_len + new.data_len]
  BY <1>9, <1>10
<1>12. BufferIsRight(c, seq)
  BY <1>6, <1>11, SlotChangeKeepsRight
<1> QED
  BY <1>12 DEF c

\* ssl_buffering_shift_slots() makes the slots right for the next message.
LEMMA ShiftKeepsRight ==
    ASSUME NEW b, NEW seq \in Nat, BufferIsRight(b, seq)
    PROVE  BufferIsRight(ShiftSlots(b), seq + 1)
<1> DEFINE a == FreeSlots(b, {0})
           g == [i \in Slots |-> IF i + 1 \in Slots THEN a.hs[i + 1] ELSE NoMessage]
           c == ShiftSlots(b)
           n == MaxBufferedHs - 1
<1>1. n \in Nat /\ Slots = 0 .. n
  BY ReassemblyConstants DEF Slots
<1>2. /\ BufferIsRight(a, seq)
      /\ a.hs = [i \in Slots |-> IF i \in {0} THEN NoMessage ELSE b.hs[i]]
  BY <1>1, FreeSlotsKeepsRight
<1>3. c = [a EXCEPT !.hs = g]
  BY DEF ShiftSlots
<1> HIDE DEF a, c, n
<1>4. /\ a \in Buffers
      /\ Accounted(a)
      /\ SlotsAreRight(a.hs, seq)
      /\ a.hs \in [Slots -> Messages]
      /\ a.hs[0] = NoMessage
  BY <1>1, <1>2, BufferFields DEF BufferIsRight
<1>5. g \in [Slots -> Messages]
  BY <1>4, FreeSlot
<1>6. /\ \A i \in 0 .. n - 1 : g[i] = a.hs[i + 1]
      /\ g[n] = NoMessage
  BY <1>1
<1> HIDE DEF g
<1>7. HeldBytes(g, Slots) = HeldBytes(a.hs, Slots)
  <2>1. Counted(g, Slots) /\ Counted(a.hs, Slots) /\ Counted(a.hs, 1 .. n)
    <3>1. Counted(g, Slots)
      BY <1>5 DEF Counted, Messages
    <3>2. 1 .. n \in SUBSET Slots
      BY <1>1
    <3>3. Counted(a.hs, Slots) /\ Counted(a.hs, 1 .. n)
      BY <1>4, <3>2, BufferFields
    <3> QED
      BY <3>1, <3>3
  <2>2. Slots \ {n} = 0 .. n - 1 /\ Slots \ {0} = 1 .. n /\ 0 \in Slots /\ n \in Slots
    BY <1>1
  <2>3. HeldBytes(g, Slots) = g[n].data_len + HeldBytes(g, 0 .. n - 1)
    BY <2>1, <2>2, SlotsAreFinite, HeldRemove
  <2>4. HeldBytes(a.hs, Slots) = a.hs[0].data_len + HeldBytes(a.hs, 1 .. n)
    BY <2>1, <2>2, SlotsAreFinite, HeldRemove
  <2>5. HeldBytes(g, 0 .. n - 1) = HeldBytes(a.hs, 1 .. n)
    <3> DEFINE h == a.hs
    <3>1. Counted(h, 1 .. n) /\ \A i \in 0 .. n - 1 : g[i].data_len = h[i + 1].data_len
      BY <1>6, <2>1
    <3> HIDE DEF h
    <3>2. HeldBytes(g, 0 .. n - 1) = HeldBytes(h, 1 .. n)
      BY <3>1, <1>1, HeldShift
    <3> QED
      BY <3>2 DEF h
  <2>6. g[n].data_len = a.hs[0].data_len
    BY <1>4, <1>6
  <2> QED
    BY <2>3, <2>4, <2>5, <2>6
<1>8. /\ c \in Buffers
      /\ c.hs = g
      /\ c.total_bytes_buffered = a.total_bytes_buffered
      /\ c.future_record = a.future_record
  BY <1>3, <1>4, <1>5 DEF Buffers
<1>9. Accounted(c)
  BY <1>4, <1>7, <1>8 DEF Accounted
<1>10. SlotsAreRight(c.hs, seq + 1)
  <2> SUFFICES ASSUME NEW i \in Slots PROVE SlotIsRight(g[i], seq + 1 + i)
    BY <1>8 DEF SlotsAreRight
  <2>1. CASE i = n
    BY <2>1, <1>6, FreeSlot
  <2>2. CASE i # n
    <3>1. i + 1 \in Slots /\ i \in 0 .. n - 1 /\ seq + (i + 1) = seq + 1 + i
      BY <2>2, <1>1
    <3>2. SlotIsRight(a.hs[i + 1], seq + (i + 1))
      BY <3>1, <1>4 DEF SlotsAreRight
    <3> QED
      BY <3>1, <3>2, <1>6
  <2> QED
    BY <2>1, <2>2
<1>11. BufferIsRight(c, seq + 1)
  BY <1>8, <1>9, <1>10 DEF BufferIsRight
<1> QED
  BY <1>11 DEF c

\* The flag for a ChangeCipherSpec has no part in the account.
LEMMA SeenCcsIsIndependent ==
    ASSUME NEW b, NEW seq, BufferIsRight(b, seq), NEW ccs \in BOOLEAN
    PROVE  BufferIsRight([b EXCEPT !.seen_ccs = ccs], seq)
<1> DEFINE c == [b EXCEPT !.seen_ccs = ccs]
<1>1. b \in Buffers /\ Accounted(b) /\ SlotsAreRight(b.hs, seq)
  BY DEF BufferIsRight
<1>2. /\ c \in Buffers
      /\ c.hs = b.hs
      /\ c.total_bytes_buffered = b.total_bytes_buffered
      /\ c.future_record = b.future_record
  BY <1>1 DEF Buffers
<1> HIDE DEF c
<1>3. BufferIsRight(c, seq)
  BY <1>1, <1>2 DEF BufferIsRight, Accounted
<1> QED
  BY <1>3 DEF c

\* mbedtls_ssl_recv_flight_completed() leaves nothing in the buffer.
LEMMA FlightIsForgotten ==
    ASSUME NEW b, NEW seq \in Nat, BufferIsRight(b, seq)
    PROVE  LET c == RecvFlightCompleted(b)
           IN  /\ BufferIsRight(c, seq)
               /\ c.total_bytes_buffered = 0
               /\ ~c.seen_ccs
<1> DEFINE a == FreeRecord(b)
           d == FreeSlots(a, Slots)
           c == [d EXCEPT !.seen_ccs = FALSE]
<1>1. BufferIsRight(a, seq) /\ a.future_record.data = {}
  BY FreeRecordKeepsRight
<1> HIDE DEF a
<1>2. BufferIsRight(d, seq) /\ d.total_bytes_buffered = RecordBytes(a.future_record)
  BY <1>1, FreeSlotsKeepsRight
<1>3. d.total_bytes_buffered = 0
  BY <1>1, <1>2 DEF RecordBytes
<1>4. RecvFlightCompleted(b) = c
  BY DEF RecvFlightCompleted, BufferingFree, a
<1> HIDE DEF d
<1>5. BufferIsRight(c, seq)
  <2> DEFINE ccs == FALSE
  <2>1. ccs \in BOOLEAN
    OBVIOUS
  <2> HIDE DEF ccs
  <2>2. BufferIsRight([d EXCEPT !.seen_ccs = ccs], seq)
    BY <1>2, <2>1, SeenCcsIsIndependent
  <2> QED
    BY <2>2 DEF ccs
<1>6. d \in Buffers
  BY <1>2 DEF BufferIsRight
<1>7. c.total_bytes_buffered = 0 /\ ~c.seen_ccs
  BY <1>3, <1>6 DEF Buffers
<1> QED
  BY <1>4, <1>5, <1>7

-----------------------------------------------------------------------------
(* The steps *)

\* What a step on a handshake message does to the variables of the invariant.
Progresses ==
    /\ BufferIsRight(buffering', in_msg_seq')
    /\ pos' \in Nat
    /\ in_msg_seq' \in Nat
    /\ in_flight_start_seq' \in Nat
    /\ in_epoch' \in Nat
    /\ delivered' \in Seq([seq : Nat, total : Nat, data : SUBSET Nat])
    /\ failed' \in {"no", "unexpected_message", "buffer_too_small", "alloc_failed"}
    /\ CountIsRight'
    /\ DeliveredInOrder'

\* Handing the next message to the handshake keeps the invariant.
LEMMA DeliverKeepsInv ==
    ASSUME ReassemblyInv, Reading, NEW b, BufferIsRight(b, in_msg_seq), NEW message,
           message \in [seq : Nat, total : Nat, data : SUBSET Nat],
           message.seq = in_msg_seq, message.data = 0 .. message.total - 1,
           Deliver(b, message)
    PROVE  Progresses
<1>1. /\ pos \in Nat /\ in_msg_seq \in Nat /\ in_flight_start_seq \in Nat /\ in_epoch \in Nat
      /\ delivered \in Seq([seq : Nat, total : Nat, data : SUBSET Nat])
      /\ Len(delivered) = in_msg_seq
      /\ DeliveredInOrder
  BY DEF ReassemblyInv, TypeOK, CountIsRight, Reading
<1> DEFINE shifted == ShiftSlots(b)
           next == in_msg_seq + 1
<1>2. BufferIsRight(shifted, next) /\ next \in Nat
  BY <1>1, ShiftKeepsRight
<1> HIDE DEF shifted
<1>3. BufferIsRight(RecvFlightCompleted(shifted), next)
  <2> HIDE DEF next
  <2> QED
    BY <1>2, FlightIsForgotten
<1>4. /\ in_msg_seq' = next
      /\ buffering' = shifted \/ buffering' = RecvFlightCompleted(shifted)
      /\ in_flight_start_seq' = next \/ in_flight_start_seq' = in_flight_start_seq
      /\ in_epoch' = in_epoch
      /\ \/ pos' = pos + 1 /\ delivered' = Append(delivered, message) /\ failed' = "no"
         \/ pos' = pos /\ delivered' = delivered /\ failed' = "unexpected_message"
  BY DEF Deliver, shifted
<1>5. BufferIsRight(buffering', in_msg_seq')
  <2> HIDE DEF next
  <2> QED
    BY <1>2, <1>3, <1>4
<1>6. CASE pos' = pos + 1 /\ delivered' = Append(delivered, message) /\ failed' = "no"
  <2>1. /\ delivered' \in Seq([seq : Nat, total : Nat, data : SUBSET Nat])
        /\ Len(delivered') = in_msg_seq'
    BY <1>1, <1>4, <1>6
  <2>2. DeliveredInOrder'
    <3> SUFFICES ASSUME NEW n \in 1 .. Len(delivered')
                 PROVE  /\ delivered'[n].seq = n - 1
                        /\ delivered'[n].data = 0 .. delivered'[n].total - 1
      BY DEF DeliveredInOrder
    <3>1. CASE n = Len(delivered')
      <4>1. delivered'[n] = message /\ n - 1 = in_msg_seq
        BY <1>1, <1>6, <3>1
      <4> QED
        BY <4>1
    <3>2. CASE n # Len(delivered')
      <4>1. n \in 1 .. Len(delivered) /\ delivered'[n] = delivered[n]
        BY <1>1, <1>6, <3>2
      <4> QED
        BY <4>1, <1>1 DEF DeliveredInOrder
    <3> QED
      BY <3>1, <3>2
  <2> QED
    BY <1>1, <1>2, <1>4, <1>5, <1>6, <2>1, <2>2 DEF Progresses, CountIsRight
<1>7. CASE pos' = pos /\ delivered' = delivered /\ failed' = "unexpected_message"
  BY <1>1, <1>2, <1>4, <1>5, <1>7 DEF Progresses, CountIsRight, DeliveredInOrder
<1> QED
  BY <1>4, <1>6, <1>7

\* A step that only changes the buffer, to a right one, keeps the invariant.
LEMMA BufferBecomesKeepsInv ==
    ASSUME ReassemblyInv, NEW b, NEW error, BufferIsRight(b, in_msg_seq), BufferBecomes(b, error),
           Reading, error \in {"no", "buffer_too_small", "alloc_failed"}
    PROVE  Progresses
BY DEF ReassemblyInv, TypeOK, CountIsRight, DeliveredInOrder, Reading, BufferBecomes, Progresses

\* ssl_buffer_message() and the delivery of a message that came whole keep
\* the invariant.
LEMMA HandleHandshakeKeepsInv ==
    ASSUME ReassemblyInv, Reading, NEW b, BufferIsRight(b, in_msg_seq), NEW f \in Fragments,
           HandleHandshake(b, f)
    PROVE  Progresses
<1>1. in_msg_seq \in Nat
  BY DEF ReassemblyInv, TypeOK
<1>2. CASE DropOldMessage(b, f)
  BY <1>2, BufferBecomesKeepsInv DEF DropOldMessage
<1>3. CASE DeliverWhole(b, f)
  <2> DEFINE message == [seq |-> f.seq, total |-> f.total, data |-> f.off .. f.off + f.len - 1]
  <2>1. /\ f.seq = in_msg_seq
        /\ f.off = 0 /\ f.len = f.total
        /\ Deliver(b, message)
    BY <1>3, FragmentFields DEF DeliverWhole
  <2>2. /\ message \in [seq : Nat, total : Nat, data : SUBSET Nat]
        /\ message.seq = in_msg_seq
        /\ message.data = 0 .. message.total - 1
    <3>1. /\ f.off .. f.off + f.len - 1 \in SUBSET Nat
          /\ f.off .. f.off + f.len - 1 = 0 .. f.total - 1
      BY <2>1, FragmentFields
    <3> QED
      BY <2>1, <3>1, FragmentFields
  <2> HIDE DEF message
  <2> QED
    BY <2>1, <2>2, DeliverKeepsInv
<1>4. CASE BufferMessage(b, f)
  <2> DEFINE i == f.seq - in_msg_seq
             size == ReassemblyBufferSize(f.total, IsProperFragment(f))
             made == IF Fits(b, size) THEN b ELSE MakeSpace(b, size)
  <2>1. size \in Nat /\ i \in Nat /\ f.seq = in_msg_seq + i
    <3>1. f.seq >= in_msg_seq
      BY <1>1, <1>4, FragmentFields DEF BufferMessage, Early
    <3> QED
      BY <1>1, <3>1, FragmentFields
  <2>2. \/ BufferBecomes(b, "no")
        \/ i \in Slots /\ b.hs[i].is_valid /\ BufferBecomes(AddFragment(b, i, f), "no")
        \/ BufferBecomes(made, "buffer_too_small")
        \/ /\ i \in Slots /\ ~b.hs[i].is_valid
           /\ BufferBecomes(AddFragment(OpenSlot(made, i, f), i, f), "no")
        \/ BufferBecomes(made, "alloc_failed")
    <3>1. i < MaxBufferedHs => i \in Slots
      BY <2>1, ReassemblyConstants DEF Slots
    <3> HIDE DEF size
    <3> QED
      BY <1>4, <3>1 DEF BufferMessage, size
  <2> HIDE DEF size, i
  <2>3. /\ BufferIsRight(made, in_msg_seq)
        /\ \A j \in Slots : ~b.hs[j].is_valid => ~made.hs[j].is_valid
    BY <1>1, <2>1, MakeSpaceKeepsRight
  <2> HIDE DEF made
  <2>4. CASE BufferBecomes(b, "no")
    BY <2>4, BufferBecomesKeepsInv
  <2>5. CASE i \in Slots /\ b.hs[i].is_valid /\ BufferBecomes(AddFragment(b, i, f), "no")
    <3>1. BufferIsRight(AddFragment(b, i, f), in_msg_seq)
      BY <1>1, <2>5, AddFragmentKeepsRight
    <3> QED
      BY <2>5, <3>1, BufferBecomesKeepsInv
  <2>6. CASE BufferBecomes(made, "buffer_too_small")
    BY <2>3, <2>6, BufferBecomesKeepsInv
  <2>7. CASE /\ i \in Slots /\ ~b.hs[i].is_valid
             /\ BufferBecomes(AddFragment(OpenSlot(made, i, f), i, f), "no")
    <3>1. BufferIsRight(AddFragment(OpenSlot(made, i, f), i, f), in_msg_seq)
      BY <1>1, <2>1, <2>3, <2>7, NewMessageKeepsRight
    <3> QED
      BY <2>7, <3>1, BufferBecomesKeepsInv
  <2>8. CASE BufferBecomes(made, "alloc_failed")
    BY <2>3, <2>8, BufferBecomesKeepsInv
  <2> QED
    BY <2>2, <2>4, <2>5, <2>6, <2>7, <2>8
<1> QED
  BY <1>2, <1>3, <1>4 DEF HandleHandshake

\* ssl_buffer_future_record() keeps the invariant.
LEMMA FutureRecordKeepsInv ==
    ASSUME ReassemblyInv, Reading, NEW f \in Fragments, BufferFutureRecord(f)
    PROVE  Progresses
<1> DEFINE b == buffering
           len == RecordOverhead + HsHeader + f.len
           full == [data |-> {f}, epoch |-> in_epoch + 1, len |-> len]
           none == [data |-> {}, epoch |-> in_epoch + 1, len |-> len]
           kept == [b EXCEPT !.future_record = full,
                             !.total_bytes_buffered = b.total_bytes_buffered + len]
           lost == [b EXCEPT !.future_record = none]
<1>1. in_epoch + 1 \in Nat /\ in_msg_seq \in Nat /\ BufferIsRight(b, in_msg_seq)
  BY DEF ReassemblyInv, TypeOK
<1>2. b \in Buffers /\ Accounted(b) /\ SlotsAreRight(b.hs, in_msg_seq)
  BY <1>1 DEF BufferIsRight
<1>3. len \in Nat
  BY FragmentFields DEF RecordOverhead, HsHeader
<1>4. \/ BufferBecomes(b, "no")
      \/ b.future_record.data = {} /\ BufferBecomes(kept, "no")
      \/ b.future_record.data = {} /\ BufferBecomes(lost, "no")
  <2>1. kept = [buffering EXCEPT !.future_record = full, !.total_bytes_buffered = @ + len]
    BY <1>2 DEF Buffers
  <2> HIDE DEF full, none, len
  <2> QED
    BY <2>1 DEF BufferFutureRecord, full, none, len
<1>5. full \in Records /\ none \in Records /\ RecordBytes(full) = len /\ RecordBytes(none) = 0
  BY <1>1, <1>3 DEF Records, RecordBytes
<1> HIDE DEF len, full, none
<1>6. ASSUME b.future_record.data = {}
      PROVE  BufferIsRight(kept, in_msg_seq) /\ BufferIsRight(lost, in_msg_seq)
  <2>1. /\ b.total_bytes_buffered = HeldBytes(b.hs, Slots)
        /\ b.total_bytes_buffered \in Nat
    BY <1>2, <1>6, BufferFields DEF Accounted, RecordBytes
  <2>2. /\ kept \in Buffers /\ lost \in Buffers
        /\ kept.hs = b.hs /\ lost.hs = b.hs
        /\ kept.future_record = full /\ lost.future_record = none
        /\ kept.total_bytes_buffered = b.total_bytes_buffered + len
        /\ lost.total_bytes_buffered = b.total_bytes_buffered
    <3> DEFINE t == b.total_bytes_buffered + len
    <3>1. t \in Nat
      BY <1>3, <2>1
    <3> HIDE DEF t
    <3>2. kept = [b EXCEPT !.future_record = full, !.total_bytes_buffered = t]
      BY DEF t
    <3> HIDE DEF b, kept
    <3>3. /\ kept \in Buffers
          /\ kept.hs = b.hs
          /\ kept.future_record = full
          /\ kept.total_bytes_buffered = t
      BY <1>2, <1>5, <3>1, <3>2 DEF Buffers
    <3>4. /\ lost \in Buffers
          /\ lost.hs = b.hs
          /\ lost.future_record = none
          /\ lost.total_bytes_buffered = b.total_bytes_buffered
      BY <1>2, <1>5 DEF Buffers
    <3> QED
      BY <3>3, <3>4 DEF t
  <2> HIDE DEF b, kept, lost
  <2>3. Accounted(kept) /\ Accounted(lost)
    BY <2>1, <2>2, <1>3, <1>5 DEF Accounted
  <2> QED
    BY <2>2, <2>3, <1>2 DEF BufferIsRight
<1> HIDE DEF b, kept, lost
<1>7. CASE BufferBecomes(b, "no")
  BY <1>1, <1>7, BufferBecomesKeepsInv
<1>8. CASE b.future_record.data = {} /\ BufferBecomes(kept, "no")
  BY <1>6, <1>8, BufferBecomesKeepsInv
<1>9. CASE b.future_record.data = {} /\ BufferBecomes(lost, "no")
  BY <1>6, <1>9, BufferBecomesKeepsInv
<1> QED
  BY <1>4, <1>7, <1>8, <1>9

\* A handshake record from the network keeps the invariant.
LEMMA ReceiveKeepsInv ==
    ASSUME ReassemblyInv, NEW f \in Fragments, NEW more \in BOOLEAN, ReceiveHandshake(f, more)
    PROVE  Progresses
<1>1. BufferIsRight(buffering, in_msg_seq) /\ Reading
  BY DEF ReassemblyInv, ReceiveHandshake
<1>2. CASE HandleHandshake(buffering, f)
  BY <1>1, <1>2, HandleHandshakeKeepsInv
<1>3. CASE BufferFutureRecord(f)
  BY <1>1, <1>3, FutureRecordKeepsInv
<1>4. CASE BufferBecomes(buffering, "no")
  BY <1>1, <1>4, BufferBecomesKeepsInv
<1> QED
  BY <1>2, <1>3, <1>4 DEF ReceiveHandshake

\* ssl_load_buffered_message() keeps the invariant.
LEMMA LoadMessageKeepsInv ==
    ASSUME ReassemblyInv, LoadBufferedMessage
    PROVE  Progresses
<1> DEFINE slot == buffering.hs[0]
           message == [seq |-> slot.seq, total |-> slot.total, data |-> slot.data]
<1>1. /\ BufferIsRight(buffering, in_msg_seq)
      /\ Reading
      /\ in_msg_seq \in Nat
      /\ slot.is_valid /\ slot.is_complete
      /\ Deliver(buffering, message)
  BY DEF ReassemblyInv, TypeOK, LoadBufferedMessage, MessageIsBuffered
<1>2. 0 \in Slots
  BY ReassemblyConstants DEF Slots
<1>3. slot \in Messages /\ SlotIsRight(slot, in_msg_seq)
  <2>1. SlotIsRight(slot, in_msg_seq + 0) /\ in_msg_seq + 0 = in_msg_seq
    BY <1>1, <1>2 DEF BufferIsRight, SlotsAreRight
  <2> QED
    BY <2>1, <1>1, <1>2, BufferFields DEF BufferIsRight
<1> HIDE DEF slot
<1>4. /\ message \in [seq : Nat, total : Nat, data : SUBSET Nat]
      /\ message.seq = in_msg_seq
      /\ message.data = 0 .. message.total - 1
  BY <1>1, <1>3 DEF Messages, SlotIsRight
<1> HIDE DEF message
<1> QED
  BY <1>1, <1>4, DeliverKeepsInv

\* ssl_load_buffered_record() keeps the invariant.
LEMMA LoadRecordKeepsInv ==
    ASSUME ReassemblyInv, LoadBufferedRecord
    PROVE  Progresses
<1>1. BufferIsRight(buffering, in_msg_seq) /\ Reading /\ in_msg_seq \in Nat
  BY DEF ReassemblyInv, TypeOK, LoadBufferedRecord
<1>2. PICK f \in buffering.future_record.data : HandleHandshake(FreeRecord(buffering), f)
  BY DEF LoadBufferedRecord
<1>3. f \in Fragments
  BY <1>1, BufferFields DEF BufferIsRight, Records
<1>4. BufferIsRight(FreeRecord(buffering), in_msg_seq)
  BY <1>1, FreeRecordKeepsRight
<1> QED
  BY <1>1, <1>2, <1>3, <1>4, HandleHandshakeKeepsInv

\* A ChangeCipherSpec, from the network or remembered, keeps the invariant.
LEMMA CcsKeepsInv ==
    ASSUME ReassemblyInv, InjectBufferedCcs \/ \E more \in BOOLEAN : ReceiveCcs(more)
    PROVE  Progresses
<1> DEFINE b(ccs) == [buffering EXCEPT !.seen_ccs = ccs]
<1>1. BufferIsRight(buffering, in_msg_seq) /\ Reading
  BY DEF ReassemblyInv, InjectBufferedCcs, ReceiveCcs
<1>2. \A ccs \in BOOLEAN : BufferIsRight(b(ccs), in_msg_seq)
  BY <1>1, SeenCcsIsIndependent
<1>3. \/ ChangeCipherSpec /\ (buffering' = buffering \/ buffering' = b(FALSE))
      \/ BufferBecomes(b(TRUE), "no")
  BY DEF InjectBufferedCcs, ReceiveCcs
<1>4. BufferIsRight(b(FALSE), in_msg_seq) /\ BufferIsRight(b(TRUE), in_msg_seq)
  BY <1>2
<1> HIDE DEF b
<1>5. CASE ChangeCipherSpec /\ (buffering' = buffering \/ buffering' = b(FALSE))
  <2>1. BufferIsRight(buffering', in_msg_seq')
    BY <1>1, <1>4, <1>5 DEF ChangeCipherSpec
  <2> QED
    BY <2>1, <1>5
    DEF ReassemblyInv, TypeOK, CountIsRight, DeliveredInOrder, ChangeCipherSpec, Progresses
<1>6. CASE BufferBecomes(b(TRUE), "no")
  BY <1>1, <1>4, <1>6, BufferBecomesKeepsInv
<1> QED
  BY <1>3, <1>5, <1>6

\* A new handshake has an empty buffer, which is right.
LEMMA InitIsRight ==
    Init => ReassemblyInv
<1> SUFFICES ASSUME Init PROVE ReassemblyInv
  OBVIOUS
<1> DEFINE hs == [i \in Slots |-> NoMessage]
<1>1. hs \in [Slots -> Messages] /\ \A i \in Slots : hs[i] = NoMessage
  BY FreeSlot
<1>2. /\ buffering.hs = hs
      /\ buffering.total_bytes_buffered = 0
      /\ buffering.future_record = NoRecord
      /\ in_msg_seq = 0
      /\ delivered = <<>>
  BY DEF Init
<1>3. NoRecord \in Records /\ RecordBytes(NoRecord) = 0
  BY DEF NoRecord, Records, RecordBytes
<1>4. buffering \in Buffers
  BY <1>1, <1>3 DEF Init, Buffers
<1> HIDE DEF hs
<1>5. HeldBytes(hs, Slots) = 0
  BY <1>1, FreeSlot, SlotsAreFinite, HeldZero
<1>6. Accounted(buffering)
  BY <1>2, <1>3, <1>5 DEF Accounted
<1>7. SlotsAreRight(buffering.hs, in_msg_seq)
  BY <1>1, <1>2, FreeSlot DEF SlotsAreRight
<1>8. BufferIsRight(buffering, in_msg_seq)
  BY <1>4, <1>6, <1>7 DEF BufferIsRight
<1>9. CountIsRight /\ DeliveredInOrder
  BY <1>2 DEF CountIsRight, DeliveredInOrder
<1>10. TypeOK
  <2> DEFINE S == [seq : Nat, total : Nat, data : SUBSET Nat]
  <2>1. delivered \in Seq(S)
    <3> HIDE DEF S
    <3> QED
      BY <1>2
  <2> QED
    BY <2>1 DEF Init, TypeOK
<1> QED
  BY <1>8, <1>9, <1>10 DEF ReassemblyInv

\* Every step keeps the invariant.
LEMMA StepKeepsInv ==
    ReassemblyInv /\ [Next]_vars => ReassemblyInv'
<1> SUFFICES ASSUME ReassemblyInv, [Next]_vars PROVE ReassemblyInv'
  OBVIOUS
<1>1. CASE UNCHANGED vars
  BY <1>1
  DEF ReassemblyInv, TypeOK, CountIsRight, DeliveredInOrder, BufferIsRight, Accounted,
      SlotsAreRight, vars
<1>2. ASSUME Progresses, hostile' = hostile, in_datagram' \in BOOLEAN PROVE ReassemblyInv'
  BY <1>2 DEF Progresses, ReassemblyInv, TypeOK
<1>3. hostile \in BOOLEAN /\ in_datagram \in BOOLEAN
  BY DEF ReassemblyInv, TypeOK
<1>4. CASE LoadBufferedMessage /\ hostile' = hostile
  BY <1>2, <1>3, <1>4, LoadMessageKeepsInv DEF LoadBufferedMessage
<1>5. CASE InjectBufferedCcs /\ hostile' = hostile
  BY <1>2, <1>3, <1>5, CcsKeepsInv DEF InjectBufferedCcs
<1>6. CASE LoadBufferedRecord /\ hostile' = hostile
  BY <1>2, <1>3, <1>6, LoadRecordKeepsInv DEF LoadBufferedRecord
<1>7. CASE (\E more \in BOOLEAN : \E f \in Fragments : ReceiveHandshake(f, more)) /\ hostile' = hostile
  BY <1>2, <1>3, <1>7, ReceiveKeepsInv DEF ReceiveHandshake
<1>8. CASE (\E more \in BOOLEAN : ReceiveCcs(more)) /\ hostile' = hostile
  BY <1>2, <1>3, <1>8, CcsKeepsInv DEF ReceiveCcs
<1>9. CASE Over
  BY <1>1, <1>9 DEF Over
<1> QED
  BY <1>1, <1>4, <1>5, <1>6, <1>7, <1>8, <1>9 DEF Next

(* The invariant of the reassembly.                                        *)
THEOREM Invariant == Spec => []ReassemblyInv
<1>1. Init => ReassemblyInv
  BY InitIsRight
<1>2. ReassemblyInv /\ [Next]_vars => ReassemblyInv'
  BY StepKeepsInv
<1> QED
  BY <1>1, <1>2, PTL DEF Spec

(* The handshake gets every message once, in order and with all of its     *)
(* bytes, whatever fragments come, repeat, overlap, contradict each other  *)
(* or overtake each other, and whichever of them are dropped for space or  *)
(* memory (mbedtls_ssl_read_record(), ssl_buffer_message(),                *)
(* ssl_load_buffered_message()).                                           *)
THEOREM MessagesComeInOrder == Spec => []DeliveredInOrder
<1>1. ReassemblyInv => DeliveredInOrder
  BY DEF ReassemblyInv
<1> QED
  BY <1>1, Invariant, PTL

(* total_bytes_buffered is exactly what is allocated, on every path of     *)
(* ssl_msg.c that allocates or frees, so that the limit holds and the      *)
(* buffer is never closed by bytes nobody holds.                           *)
THEOREM AccountIsExact == Spec => []BudgetIsExact
<1>1. ReassemblyInv => BudgetIsExact
  BY DEF ReassemblyInv, BufferIsRight, Accounted, RecordBytes, BudgetIsExact
<1> QED
  BY <1>1, Invariant, PTL

(* The arithmetic of ssl_bitmask_set() and ssl_bitmask_check() is exact    *)
(* for every alignment and length: the mask of a message that is being     *)
(* reassembled is the image of the bytes that were copied.                 *)
THEOREM BitmasksAreExact == Spec => []BitmaskIsExact
<1>1. ASSUME ReassemblyInv PROVE BitmaskIsExact
  <2> SUFFICES ASSUME NEW i \in Slots,
                      buffering.hs[i].is_valid, buffering.hs[i].is_fragmented,
                      NEW off \in 0 .. BitmaskLen, NEW len \in 0 .. BitmaskLen - off
               PROVE  LET slot == buffering.hs[i]
                          mask == BitmaskSet(slot.mask, off, len)
                          offsets == slot.data \cup (off .. off + len - 1)
                      IN  /\ mask = MaskOf(offsets)
                          /\ \A n \in {off, off + len} :
                               BitmaskCheck(mask, n) <=> 0 .. n - 1 \subseteq offsets
    BY DEF BitmaskIsExact
  <2> DEFINE slot == buffering.hs[i]
             bytes == off .. off + len - 1
             offsets == slot.data \cup bytes
             mask == BitmaskSet(slot.mask, off, len)
  <2>1. off \in Nat /\ len \in Nat /\ off + len \in Nat /\ bytes \in SUBSET Nat
    BY ReassemblyConstants
  <2>2. slot.mask = MaskOf(slot.data) /\ slot.data \in SUBSET Nat
    <3>1. BufferIsRight(buffering, in_msg_seq)
      BY <1>1 DEF ReassemblyInv
    <3>2. SlotIsRight(slot, in_msg_seq + i)
      BY <3>1 DEF BufferIsRight, SlotsAreRight
    <3>3. slot \in Messages
      BY <3>1, BufferFields DEF BufferIsRight
    <3> QED
      BY <3>2, <3>3 DEF SlotIsRight, Messages
  <2>3. mask = slot.mask \cup MaskOf(bytes)
    BY <2>1, BitmaskSetMarks
  <2> HIDE DEF slot, bytes, mask
  <2>4. mask = MaskOf(offsets)
    BY <2>2, <2>3, MaskOfUnion
  <2>5. offsets \in SUBSET Nat
    BY <2>1, <2>2
  <2> HIDE DEF offsets
  <2>6. ASSUME NEW n \in {off, off + len}
        PROVE  BitmaskCheck(mask, n) <=> 0 .. n - 1 \subseteq offsets
    <3>1. n \in Nat
      BY <2>1
    <3> QED
      BY <3>1, <2>4, <2>5, BitmaskCheckAsks
  <2> QED
    BY <2>4, <2>6 DEF slot, bytes, mask, offsets
<1> QED
  BY <1>1, Invariant, PTL

\* Space is refused with an error to the next message only, and only when it
\* is larger than the whole buffer.
LEMMA OnlyTheNextIsTooLarge ==
    ASSUME ReassemblyInv, NEW b, BufferIsRight(b, in_msg_seq), NEW f \in Fragments,
           HandleHandshake(b, f), failed' = "buffer_too_small", failed = "no"
    PROVE  f.seq = in_msg_seq /\ ReassemblyBufferSize(f.total, TRUE) > MaxBuffering
<1> DEFINE i == f.seq - in_msg_seq
           size == ReassemblyBufferSize(f.total, IsProperFragment(f))
           made == IF Fits(b, size) THEN b ELSE MakeSpace(b, size)
<1>1. in_msg_seq \in Nat /\ size \in Nat
  BY FragmentFields DEF ReassemblyInv, TypeOK
<1>2. BufferMessage(b, f)
  BY DEF HandleHandshake, DropOldMessage, DeliverWhole, Deliver, BufferBecomes
<1>3. /\ Early(f)
      /\ ~(i > 0 /\ ~Fits(b, size))
      /\ ~Fits(made, size)
  <2> HIDE DEF made, size
  <2> QED
    BY <1>2 DEF BufferMessage, BufferBecomes, made, size
<1>4. ~Fits(b, size) /\ made = MakeSpace(b, size)
  <2> HIDE DEF size
  <2> QED
    BY <1>3
<1>5. size > MaxBuffering
  <2> HIDE DEF size, made
  <2> QED
    BY <1>1, <1>3, <1>4, MakeSpaceKeepsRight
<1>6. f.seq = in_msg_seq /\ IsProperFragment(f)
  BY <1>1, <1>3, <1>4, FragmentFields DEF Early
<1>7. IsProperFragment(f) = TRUE
  BY <1>6, FragmentFields
<1> QED
  BY <1>5, <1>6, <1>7

(* A message that is buffered for later never makes the handshake fail:    *)
(* "buffer too small" is returned only for the next message, when it does  *)
(* not fit in the empty buffer (ssl_buffer_make_space()).                  *)
THEOREM TheFutureStarvesNothing == Spec => FutureNeverStarvesNext
<1> DEFINE Large == \E f \in Fragments :
                        f.seq = in_msg_seq /\ ReassemblyBufferSize(f.total, TRUE) > MaxBuffering
           Small == failed' = "buffer_too_small" /\ failed = "no"
<1>1. ASSUME ReassemblyInv, [Next]_vars, Small PROVE Large
  <2>1. BufferIsRight(buffering, in_msg_seq) /\ in_msg_seq \in Nat
    BY <1>1 DEF ReassemblyInv, TypeOK
  <2>2. ASSUME NEW b, BufferIsRight(b, in_msg_seq), NEW f \in Fragments, HandleHandshake(b, f)
        PROVE  Large
    BY <1>1, <2>2, OnlyTheNextIsTooLarge
  <2>3. CASE LoadBufferedRecord
    <3>1. PICK f \in buffering.future_record.data : HandleHandshake(FreeRecord(buffering), f)
      BY <2>3 DEF LoadBufferedRecord
    <3>2. f \in Fragments
      BY <2>1, BufferFields DEF BufferIsRight, Records
    <3>3. BufferIsRight(FreeRecord(buffering), in_msg_seq)
      BY <2>1, FreeRecordKeepsRight
    <3> QED
      BY <3>1, <3>2, <3>3, <2>2
  <2>4. ASSUME NEW more \in BOOLEAN, NEW f \in Fragments, ReceiveHandshake(f, more)
        PROVE  Large
    <3>1. HandleHandshake(buffering, f)
      BY <1>1, <2>4 DEF ReceiveHandshake, BufferFutureRecord, BufferBecomes
    <3> QED
      BY <3>1, <2>1, <2>2
  <2>5. CASE LoadBufferedMessage
    BY <1>1, <2>5 DEF LoadBufferedMessage, Deliver
  <2>6. CASE InjectBufferedCcs \/ \E more \in BOOLEAN : ReceiveCcs(more)
    BY <1>1, <2>6 DEF InjectBufferedCcs, ReceiveCcs, ChangeCipherSpec, BufferBecomes
  <2>7. CASE UNCHANGED vars
    BY <1>1, <2>7 DEF vars
  <2> HIDE DEF Large
  <2> QED
    BY <1>1, <2>3, <2>4, <2>5, <2>6, <2>7 DEF Next, Over
<1>2. ReassemblyInv /\ [Next]_vars => [Small => Large]_vars
  BY <1>1
<1> QED
  BY <1>2, Invariant, PTL DEF Spec, FutureNeverStarvesNext

\* A delivery that ends a flight leaves nothing of it behind.
LEMMA OnlyDeliveryEndsAFlight ==
    ASSUME ReassemblyInv, NEW b, BufferIsRight(b, in_msg_seq), NEW message, Deliver(b, message),
           in_flight_start_seq' # in_flight_start_seq
    PROVE  ~buffering'.seen_ccs /\ buffering'.total_bytes_buffered = 0
<1> DEFINE shifted == ShiftSlots(b)
           next == in_msg_seq + 1
<1>1. BufferIsRight(shifted, next) /\ next \in Nat
  BY ShiftKeepsRight DEF ReassemblyInv, TypeOK
<1>2. buffering' = RecvFlightCompleted(shifted)
  BY DEF Deliver
<1> HIDE DEF shifted, next
<1> QED
  BY <1>1, <1>2, FlightIsForgotten

(* Once the flight of the peer is complete nothing of it stays buffered,   *)
(* its ChangeCipherSpec included (mbedtls_ssl_recv_flight_completed()).    *)
THEOREM FlightsLeaveNothing == Spec => FlightLeavesNothing
<1> DEFINE Ends == in_flight_start_seq' # in_flight_start_seq
           Empty == ~buffering'.seen_ccs /\ buffering'.total_bytes_buffered = 0
<1>1. ASSUME ReassemblyInv, [Next]_vars, Ends PROVE Empty
  <2>1. BufferIsRight(buffering, in_msg_seq) /\ in_msg_seq \in Nat
    BY <1>1 DEF ReassemblyInv, TypeOK
  <2>2. ASSUME NEW b, BufferIsRight(b, in_msg_seq), NEW message, Deliver(b, message)
        PROVE  Empty
    BY <1>1, <2>2, OnlyDeliveryEndsAFlight
  <2>3. ASSUME NEW b, BufferIsRight(b, in_msg_seq), NEW f, HandleHandshake(b, f)
        PROVE  Empty
    <3>1. DeliverWhole(b, f)
      BY <1>1, <2>3 DEF HandleHandshake, DropOldMessage, BufferMessage, BufferBecomes
    <3>2. \E message : Deliver(b, message)
      BY <3>1 DEF DeliverWhole
    <3> QED
      BY <2>2, <2>3, <3>2
  <2>4. CASE LoadBufferedRecord
    <3>1. BufferIsRight(FreeRecord(buffering), in_msg_seq)
      BY <2>1, FreeRecordKeepsRight
    <3> QED
      BY <2>4, <3>1, <2>3 DEF LoadBufferedRecord
  <2>5. ASSUME NEW more \in BOOLEAN, NEW f \in Fragments, ReceiveHandshake(f, more)
        PROVE  Empty
    <3>1. HandleHandshake(buffering, f)
      BY <1>1, <2>5 DEF ReceiveHandshake, BufferFutureRecord, BufferBecomes
    <3> QED
      BY <3>1, <2>1, <2>3
  <2>6. CASE LoadBufferedMessage
    BY <2>1, <2>2, <2>6 DEF LoadBufferedMessage
  <2>7. CASE InjectBufferedCcs \/ \E more \in BOOLEAN : ReceiveCcs(more)
    BY <1>1, <2>7 DEF InjectBufferedCcs, ReceiveCcs, ChangeCipherSpec, BufferBecomes
  <2>8. CASE UNCHANGED vars
    BY <1>1, <2>8 DEF vars
  <2> HIDE DEF Empty
  <2> QED
    BY <1>1, <2>4, <2>5, <2>6, <2>7, <2>8 DEF Next, Over
<1>2. ReassemblyInv /\ [Next]_vars => [Ends => Empty]_vars
  BY <1>1
<1> QED
  BY <1>2, Invariant, PTL DEF Spec, FlightLeavesNothing

=============================================================================
