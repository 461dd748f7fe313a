--------------------------- MODULE SslCacheProofs ---------------------------
(***************************************************************************)
(* Proofs about SslCache and the buffer allocator it stands on, for any    *)
(* identifiers, limits, timeouts, sizes and alignment.                     *)
(*                                                                         *)
(* The argument: the blocks tile the buffer and no two free ones touch,    *)
(* and the free list links the free ones and no other, both of which       *)
(* calloc() and free() keep; the chain of the cache and the other users of *)
(* the memory hold every used block, each of them once; an entry's session *)
(* is the last one that was set for its identifier.                        *)
(***************************************************************************)
EXTENDS SslCache, FiniteSetTheorems, WellFoundedInduction, SequenceTheorems, TLAPS

-----------------------------------------------------------------------------
(* Sums over sets of blocks, as total_used is one.                         *)

SizeSum(hs, S) == MapThenSumSet(LAMBDA a : hs[a].size, S)

\* A nonempty family of subsets of a finite set has a minimal member.
LEMMA MinimalSet ==
    ASSUME NEW S, IsFiniteSet(S), NEW T, T \subseteq SUBSET S, T # {}
    PROVE  \E U \in T : \A V \in T : V \subseteq U => V = U
<1>1. T \subseteq FiniteSubsetsOf(S)
  BY FS_FiniteSubsetsOfFinite
<1>2. \E U \in T : \A V \in T : ~ (<<V, U>> \in StrictSubsetOrdering(S))
  BY <1>1, FS_StrictSubsetOrderingWellFounded, WFMin
<1> QED
  BY <1>2 DEF StrictSubsetOrdering

Chosen(s) == CHOOSE x \in s : TRUE

\* g is the function that MapThenSumSet() walks down the subsets of S with.
SumWalks(hs, S, g) ==
    g = [s \in SUBSET S |->
            IF s = {} THEN 0 ELSE hs[Chosen(s)].size + g[s \ {Chosen(s)}]]

\* Two ways to add up blocks agree on the sets that both reach.
LEMMA SumWalksAgree ==
    ASSUME NEW hs, NEW S, IsFiniteSet(S), NEW V \in SUBSET S, NEW W \in SUBSET S,
           NEW g, SumWalks(hs, V, g), NEW h, SumWalks(hs, W, h)
    PROVE  \A s \in SUBSET S : s \subseteq V /\ s \subseteq W => g[s] = h[s]
<1> DEFINE T == {s \in SUBSET S : s \subseteq V /\ s \subseteq W /\ g[s] # h[s]}
<1> SUFFICES ASSUME T # {} PROVE FALSE
  OBVIOUS
<1>0. T \subseteq SUBSET S
  OBVIOUS
<1>1. PICK s \in T : \A t \in T : t \subseteq s => t = s
  <2> HIDE DEF T
  <2> QED
    BY <1>0, MinimalSet
<1>2. s # {} => Chosen(s) \in s
  BY DEF Chosen
<1>3. /\ g[s] = IF s = {} THEN 0 ELSE hs[Chosen(s)].size + g[s \ {Chosen(s)}]
      /\ h[s] = IF s = {} THEN 0 ELSE hs[Chosen(s)].size + h[s \ {Chosen(s)}]
  BY DEF SumWalks
<1>4. s # {} => g[s \ {Chosen(s)}] = h[s \ {Chosen(s)}]
  <2> SUFFICES ASSUME s # {} PROVE g[s \ {Chosen(s)}] = h[s \ {Chosen(s)}]
    OBVIOUS
  <2>1. s \ {Chosen(s)} \notin T
    BY <1>1, <1>2
  <2> QED
    BY <2>1
<1> QED
  BY <1>3, <1>4

\* Every finite set of blocks can be added up one by one.
LEMMA SumWalkExists ==
    ASSUME NEW hs, NEW S, IsFiniteSet(S)
    PROVE  \A U \in SUBSET S : \E g : SumWalks(hs, U, g)
<1> DEFINE T == {U \in SUBSET S : ~ \E g : SumWalks(hs, U, g)}
<1> SUFFICES ASSUME T # {} PROVE FALSE
  OBVIOUS
<1>0. T \subseteq SUBSET S
  OBVIOUS
<1>1. PICK U \in T : \A V \in T : V \subseteq U => V = U
  <2> HIDE DEF T
  <2> QED
    BY <1>0, MinimalSet
<1> DEFINE walk(t) == CHOOSE g : SumWalks(hs, t, g)
           g == [s \in SUBSET U |->
                    IF s = {} THEN 0
                    ELSE hs[Chosen(s)].size + walk(s \ {Chosen(s)})[s \ {Chosen(s)}]]
<1>2. \A t \in SUBSET U : t # U => SumWalks(hs, t, walk(t))
  <2> TAKE t \in SUBSET U
  <2> HAVE t # U
  <2>1. \E f : SumWalks(hs, t, f)
    BY <1>1
  <2> QED
    BY <2>1
<1> HIDE DEF walk
<1>3. \A t \in SUBSET U : t # U => walk(t)[t] = g[t]
  <2> TAKE t \in SUBSET U
  <2> HAVE t # U
  <2>1. walk(t)[t] = IF t = {} THEN 0 ELSE hs[Chosen(t)].size + walk(t)[t \ {Chosen(t)}]
    BY <1>2 DEF SumWalks
  <2>2. ASSUME t # {}
        PROVE  walk(t)[t \ {Chosen(t)}] = walk(t \ {Chosen(t)})[t \ {Chosen(t)}]
    <3> DEFINE r == t \ {Chosen(t)}
    <3>1. Chosen(t) \in t
      BY <2>2 DEF Chosen
    <3>2. r \in SUBSET U /\ r # U /\ r \in SUBSET S /\ t \in SUBSET S /\ r \subseteq t
      BY <3>1
    <3>3. SumWalks(hs, r, walk(r)) /\ SumWalks(hs, t, walk(t))
      BY <1>2, <3>2
    <3> HIDE DEF r
    <3>4. \A s \in SUBSET S : s \subseteq t /\ s \subseteq r => walk(t)[s] = walk(r)[s]
      <4> DEFINE f == walk(t)
                 h == walk(r)
      <4>1. SumWalks(hs, t, f) /\ SumWalks(hs, r, h) /\ t \in SUBSET S /\ r \in SUBSET S
        BY <3>2, <3>3
      <4> HIDE DEF f, h, g
      <4>2. \A s \in SUBSET S : s \subseteq t /\ s \subseteq r => f[s] = h[s]
        BY <4>1, SumWalksAgree
      <4> QED
        BY <4>2 DEF f, h
    <3>5. walk(t)[r] = walk(r)[r]
      BY <3>2, <3>4
    <3> QED
      BY <3>5 DEF r
  <2> QED
    BY <2>1, <2>2
<1>4. g = [s \in SUBSET U |-> IF s = {} THEN 0 ELSE hs[Chosen(s)].size + g[s \ {Chosen(s)}]]
  <2>1. ASSUME NEW s \in SUBSET U, s # {}
        PROVE  walk(s \ {Chosen(s)})[s \ {Chosen(s)}] = g[s \ {Chosen(s)}]
    <3>1. Chosen(s) \in s
      BY <2>1 DEF Chosen
    <3>2. s \ {Chosen(s)} \in SUBSET U /\ s \ {Chosen(s)} # U
      BY <3>1
    <3> HIDE DEF g
    <3> QED
      BY <1>3, <3>2
  <2>2. \A s \in SUBSET U :
            g[s] = IF s = {} THEN 0 ELSE hs[Chosen(s)].size + g[s \ {Chosen(s)}]
    BY <2>1
  <2>3. g = [s \in SUBSET U |-> g[s]]
    OBVIOUS
  <2> HIDE DEF g
  <2> QED
    BY <2>2, <2>3
<1>5. SumWalks(hs, U, g)
  <2> HIDE DEF g
  <2> QED
    BY <1>4 DEF SumWalks
<1> QED
  BY <1>1, <1>5

\* SizeSum, a fold in the community modules, is the sum of such a walk.
LEMMA SizeSumIsWalked ==
    ASSUME NEW hs, NEW S, IsFiniteSet(S)
    PROVE  \E g : SumWalks(hs, S, g) /\ SizeSum(hs, S) = g[S]
<1> DEFINE c == CHOOSE g : g = [s \in SUBSET S |->
                                  IF s = {} THEN 0
                                  ELSE hs[CHOOSE x \in s : TRUE].size + g[s \ {CHOOSE x \in s : TRUE}]]
<1>1. SizeSum(hs, S) = c[S]
  BY DEF SizeSum, MapThenSumSet, MapThenFoldSet
<1>2. \E g : SumWalks(hs, S, g)
  BY SumWalkExists
<1>3. SumWalks(hs, S, c)
  BY <1>2 DEF SumWalks, Chosen
<1> QED
  BY <1>1, <1>3

(* The sum of the blocks S, one taken off as CHOOSE takes them.             *)
LEMMA SizeSumUnfolds ==
    ASSUME NEW hs, NEW S, IsFiniteSet(S)
    PROVE  /\ SizeSum(hs, {}) = 0
           /\ S # {} => /\ Chosen(S) \in S
                        /\ SizeSum(hs, S) = hs[Chosen(S)].size + SizeSum(hs, S \ {Chosen(S)})
<1>1. SizeSum(hs, {}) = 0
  <2>1. PICK g : SumWalks(hs, {}, g) /\ SizeSum(hs, {}) = g[{}]
    BY SizeSumIsWalked, FS_EmptySet
  <2> QED
    BY <2>1 DEF SumWalks
<1>2. ASSUME S # {}
      PROVE  /\ Chosen(S) \in S
             /\ SizeSum(hs, S) = hs[Chosen(S)].size + SizeSum(hs, S \ {Chosen(S)})
  <2> DEFINE r == S \ {Chosen(S)}
  <2>1. Chosen(S) \in S
    BY <1>2 DEF Chosen
  <2>2. IsFiniteSet(r) /\ r \in SUBSET S
    BY FS_Subset
  <2>3. PICK g : SumWalks(hs, S, g) /\ SizeSum(hs, S) = g[S]
    BY SizeSumIsWalked
  <2>4. PICK h : SumWalks(hs, r, h) /\ SizeSum(hs, r) = h[r]
    BY <2>2, SizeSumIsWalked
  <2>5. g[S] = hs[Chosen(S)].size + g[r]
    BY <1>2, <2>3 DEF SumWalks
  <2> HIDE DEF r
  <2>6. g[r] = h[r]
    BY <2>2, <2>3, <2>4, SumWalksAgree
  <2> QED
    BY <2>1, <2>3, <2>4, <2>5, <2>6 DEF r
<1> QED
  BY <1>1, <1>2

Sized(hs, S) == \A i \in S : hs[i].size \in Nat

\* A sum of sizes is a natural number.
LEMMA SizeSumType ==
    ASSUME NEW hs, NEW S, IsFiniteSet(S), Sized(hs, S)
    PROVE  SizeSum(hs, S) \in Nat
<1> DEFINE T == {U \in SUBSET S : SizeSum(hs, U) \notin Nat}
<1> SUFFICES ASSUME T # {} PROVE FALSE
  BY DEF T
<1>0. T \subseteq SUBSET S
  OBVIOUS
<1>1. PICK U \in T : \A V \in T : V \subseteq U => V = U
  <2> HIDE DEF T
  <2> QED
    BY <1>0, MinimalSet
<1>2. IsFiniteSet(U)
  BY FS_Subset
<1>3. /\ SizeSum(hs, {}) = 0
      /\ U # {} => /\ Chosen(U) \in U
                   /\ SizeSum(hs, U) = hs[Chosen(U)].size + SizeSum(hs, U \ {Chosen(U)})
  BY <1>2, SizeSumUnfolds
<1>4. U # {}
  <2> SUFFICES ASSUME U = {} PROVE FALSE
    OBVIOUS
  <2>1. SizeSum(hs, U) \notin Nat
    OBVIOUS
  <2>2. SizeSum(hs, U) = 0
    BY <1>3, Zenon
  <2> QED
    BY <2>1, <2>2
<1>5. SizeSum(hs, U \ {Chosen(U)}) \in Nat
  BY <1>1, <1>3, <1>4
<1>6. hs[Chosen(U)].size \in Nat
  BY <1>3, <1>4 DEF Sized
<1> QED
  BY <1>3, <1>4, <1>5, <1>6

(* Any block may be taken off first.                                        *)
LEMMA SizeSumRemove ==
    ASSUME NEW hs, NEW S, IsFiniteSet(S), Sized(hs, S), NEW x \in S
    PROVE  SizeSum(hs, S) = hs[x].size + SizeSum(hs, S \ {x})
<1> DEFINE Off(U, y) == SizeSum(hs, U) = hs[y].size + SizeSum(hs, U \ {y})
           T == {U \in SUBSET S : \E y \in U : ~Off(U, y)}
<1> SUFFICES ASSUME T # {} PROVE FALSE
  OBVIOUS
<1>0. T \subseteq SUBSET S
  OBVIOUS
<1>1. PICK U \in T : \A V \in T : V \subseteq U => V = U
  <2> HIDE DEF T
  <2> QED
    BY <1>0, MinimalSet
<1>2. PICK y \in U : ~Off(U, y)
  OBVIOUS
<1> DEFINE c == Chosen(U)
<1>3. IsFiniteSet(U)
  BY FS_Subset
<1>4. c \in U /\ Off(U, c)
  BY <1>3, SizeSumUnfolds
<1>5. c # y
  BY <1>2, <1>4
<1>6. \A V \in SUBSET U : V # U => V \notin T
  BY <1>1
<1>7. Off(U \ {c}, y) /\ Off(U \ {y}, c)
  <2> HIDE DEF c, Off
  <2>1. U \ {c} \notin T /\ U \ {y} \notin T
    <3> HIDE DEF T
    <3> QED
      BY <1>4, <1>6
  <2> QED
    BY <2>1, <1>4, <1>5
<1>8. (U \ {c}) \ {y} = (U \ {y}) \ {c}
  OBVIOUS
<1>9. /\ hs[c].size \in Nat
      /\ hs[y].size \in Nat
      /\ SizeSum(hs, (U \ {y}) \ {c}) \in Nat
  <2>1. Sized(hs, (U \ {y}) \ {c})
    BY DEF Sized
  <2>2. IsFiniteSet((U \ {y}) \ {c})
    BY <1>3, FS_Subset
  <2>3. SizeSum(hs, (U \ {y}) \ {c}) \in Nat
    BY <2>1, <2>2, SizeSumType
  <2> QED
    BY <2>3, <1>4 DEF Sized
<1> HIDE DEF c, T
<1>10. Off(U, y)
  BY <1>4, <1>7, <1>8, <1>9, SMTT(30)
<1> QED
  BY <1>2, <1>10

\* The sum depends on the sizes of the blocks only.
LEMMA SizeSumSame ==
    ASSUME NEW hs, NEW gs, NEW S, IsFiniteSet(S),
           \A i \in S : hs[i].size = gs[i].size
    PROVE  SizeSum(hs, S) = SizeSum(gs, S)
<1> DEFINE T == {U \in SUBSET S : SizeSum(hs, U) # SizeSum(gs, U)}
<1> SUFFICES ASSUME T # {} PROVE FALSE
  BY DEF T
<1>0. T \subseteq SUBSET S
  OBVIOUS
<1>1. PICK U \in T : \A V \in T : V \subseteq U => V = U
  <2> HIDE DEF T
  <2> QED
    BY <1>0, MinimalSet
<1>2. IsFiniteSet(U)
  BY FS_Subset
<1>3. /\ SizeSum(hs, {}) = SizeSum(gs, {})
      /\ U # {} => /\ Chosen(U) \in U
                   /\ SizeSum(hs, U) = hs[Chosen(U)].size + SizeSum(hs, U \ {Chosen(U)})
                   /\ SizeSum(gs, U) = gs[Chosen(U)].size + SizeSum(gs, U \ {Chosen(U)})
  BY <1>2, SizeSumUnfolds
<1>4. U # {}
  BY <1>3
<1>5. SizeSum(hs, U \ {Chosen(U)}) = SizeSum(gs, U \ {Chosen(U)})
  BY <1>1, <1>3, <1>4
<1> QED
  BY <1>3, <1>4, <1>5

-----------------------------------------------------------------------------
(* Walking a list.                                                         *)

\* A nonempty set of numbers has a least one.
LEMMA LeastNumber ==
    ASSUME NEW S, S \subseteq Nat, S # {}
    PROVE  \E x \in S : \A y \in S : x <= y
<1> DEFINE R == OpToRel(<, Nat)
<1>1. IsWellFoundedOn(R, Nat)
  BY NatLessThanWellFounded
<1>2. \A x, y \in Nat : y < x => <<y, x>> \in R
  BY DEF OpToRel
<1> HIDE DEF R
<1>3. PICK x \in S : \A y \in S : ~ (<<y, x>> \in R)
  BY <1>1, WFMin
<1>4. x \in Nat /\ \A y \in S : y \in Nat /\ ~ (y < x)
  BY <1>2, <1>3, Zenon
<1> QED
  BY <1>4, SMT

\* Min() is the least.
LEMMA MinIsLeast ==
    ASSUME NEW S, S \subseteq Nat, S # {}
    PROVE  Min(S) \in S /\ \A y \in S : Min(S) <= y
BY LeastNumber DEF Min

\* g is the walk from p along a link, n steps long.
Walks(h, p, link, n, g) ==
    g = [k \in 0 .. n |->
            IF k = 0 THEN p
            ELSE IF g[k - 1] = NULL THEN NULL ELSE h.hdr[g[k - 1]][link]]

LEMMA BlocksAreNumbers == MaxBlocks \in Nat
BY SizesFit DEF MaxBlocks

\* There is such a walk of any length.
LEMMA WalkExists ==
    ASSUME NEW h, NEW p, NEW link
    PROVE  \A n \in Nat : \E g : Walks(h, p, link, n, g)
<1> DEFINE T == {n \in Nat : ~ \E g : Walks(h, p, link, n, g)}
<1> SUFFICES ASSUME T # {} PROVE FALSE
  OBVIOUS
<1>1. PICK n \in T : \A m \in T : n <= m
  <2> HIDE DEF T
  <2>1. T \subseteq Nat
    BY DEF T
  <2> QED
    BY <2>1, LeastNumber
<1>2. CASE n = 0
  <2> DEFINE g == [k \in 0 .. 0 |-> p]
  <2>1. g = [k \in 0 .. 0 |->
                IF k = 0 THEN p
                ELSE IF g[k - 1] = NULL THEN NULL ELSE h.hdr[g[k - 1]][link]]
    OBVIOUS
  <2> QED
    BY <1>1, <1>2, <2>1 DEF Walks
<1>3. CASE n # 0
  <2>1. n - 1 \in Nat /\ n \in Nat /\ n - 1 \notin T
    BY <1>1, <1>3
  <2>2. PICK g : Walks(h, p, link, n - 1, g)
    BY <2>1
  <2> DEFINE f == [k \in 0 .. n |->
                      IF k = 0 THEN p
                      ELSE IF g[k - 1] = NULL THEN NULL ELSE h.hdr[g[k - 1]][link]]
  <2>3. \A k \in 0 .. n - 1 : f[k] = g[k]
    <3>1. \A k \in 0 .. n - 1 :
              g[k] = IF k = 0 THEN p
                     ELSE IF g[k - 1] = NULL THEN NULL ELSE h.hdr[g[k - 1]][link]
      BY <2>2, Zenon DEF Walks
    <3>2. \A k \in 0 .. n - 1 : k \in 0 .. n
      BY <2>1
    <3> QED
      BY <3>1, <3>2
  <2>4. \A k \in 0 .. n : k # 0 => k - 1 \in 0 .. n - 1
    BY <2>1
  <2>5. f = [k \in 0 .. n |-> f[k]]
    OBVIOUS
  <2>6. \A k \in 0 .. n :
            f[k] = IF k = 0 THEN p
                   ELSE IF f[k - 1] = NULL THEN NULL ELSE h.hdr[f[k - 1]][link]
    BY <2>3, <2>4
  <2> HIDE DEF f
  <2>7. Walks(h, p, link, n, f)
    BY <2>5, <2>6 DEF Walks
  <2> QED
    BY <1>1, <2>7
<1> QED
  BY <1>2, <1>3

\* What Walk() computes.
LEMMA WalkIs ==
    ASSUME NEW h, NEW p, NEW link
    PROVE  LET at == Walk(h, p, link)
           IN  /\ DOMAIN at = 0 .. MaxBlocks
               /\ at[0] = p
               /\ \A k \in 1 .. MaxBlocks :
                      at[k] = IF at[k - 1] = NULL THEN NULL ELSE h.hdr[at[k - 1]][link]
<1> DEFINE c == CHOOSE g : g = [k \in 0 .. MaxBlocks |->
                                  IF k = 0 THEN p
                                  ELSE IF g[k - 1] = NULL THEN NULL ELSE h.hdr[g[k - 1]][link]]
<1>1. Walk(h, p, link) = c
  BY DEF Walk
<1>2. \E g : Walks(h, p, link, MaxBlocks, g)
  BY WalkExists, BlocksAreNumbers
<1>3. Walks(h, p, link, MaxBlocks, c)
  BY <1>2, Zenon DEF Walks
<1> HIDE DEF c
<1>4. /\ DOMAIN c = 0 .. MaxBlocks
      /\ \A k \in 0 .. MaxBlocks :
             c[k] = IF k = 0 THEN p
                    ELSE IF c[k - 1] = NULL THEN NULL ELSE h.hdr[c[k - 1]][link]
  BY <1>3, Zenon DEF Walks
<1>5. /\ 0 \in 0 .. MaxBlocks
      /\ \A k \in 1 .. MaxBlocks : k \in 0 .. MaxBlocks /\ k # 0
  BY BlocksAreNumbers
<1> QED
  BY <1>1, <1>4, <1>5

\* The blocks F are a list from first on, linked both ways: their ranks grow
\* along it.
Ranks(hdr, F, link, r) ==
    /\ r \in [F -> Nat]
    /\ \A a \in F : hdr[a][link] # NULL => r[a] < r[hdr[a][link]]

IsList(hdr, F, first, link, back) ==
    /\ first # NULL => first \in F /\ hdr[first][back] = NULL
    /\ \A a \in F : hdr[a][link] # NULL => hdr[a][link] \in F /\ hdr[hdr[a][link]][back] = a
    /\ \A a \in F : hdr[a][back] = NULL => a = first
    /\ \A a \in F : hdr[a][back] # NULL => hdr[a][back] \in F /\ hdr[hdr[a][back]][link] = a
    /\ \E r : Ranks(hdr, F, link, r)

\* A property that some block of a list has not, a first block on the list has
\* not.
LEMMA FirstWithout ==
    ASSUME NEW hdr, NEW F, NEW link, NEW r, Ranks(hdr, F, link, r), NEW B, B \subseteq F, B # {}
    PROVE  \E a \in B : \A b \in B : r[a] <= r[b]
<1> DEFINE S == {r[a] : a \in B}
<1>1. S \subseteq Nat /\ S # {}
  BY DEF Ranks
<1>2. PICK x \in S : \A y \in S : x <= y
  <2> HIDE DEF S
  <2> QED
    BY <1>1, LeastNumber
<1> QED
  BY <1>2

\* The steps of a walk are the blocks of the list, in order, and its end.
LEMMA ListIsWalked ==
    ASSUME NEW hdr, NEW F, NULL \notin F, IsFiniteSet(F), NEW n \in Nat, Cardinality(F) <= n,
           NEW first, NEW link, NEW back, IsList(hdr, F, first, link, back),
           NEW at, DOMAIN at = 0 .. n, at[0] = first,
           \A k \in 1 .. n : at[k] = IF at[k - 1] = NULL THEN NULL ELSE hdr[at[k - 1]][link]
    PROVE  /\ Ends(at)
           /\ Blocks(at) = F
           /\ \A k \in 0 .. n : at[k] # NULL =>
                  at[k] \in F /\ hdr[at[k]][back] = IF k = 0 THEN NULL ELSE at[k - 1]
<1> DEFINE Good(k) == at[k] # NULL =>
                  at[k] \in F /\ hdr[at[k]][back] = IF k = 0 THEN NULL ELSE at[k - 1]
<1>1. \A k \in 0 .. n : Good(k)
  <2> DEFINE T == {k \in 0 .. n : ~Good(k)}
  <2> SUFFICES ASSUME T # {} PROVE FALSE
    OBVIOUS
  <2>1. PICK k \in T : \A m \in T : k <= m
    <3>1. T \subseteq Nat
      OBVIOUS
    <3> HIDE DEF T
    <3> QED
      BY <3>1, LeastNumber
  <2>2. k # 0
    BY <2>1 DEF IsList
  <2>3. k - 1 \in 0 .. n /\ k - 1 \notin T /\ k \in 1 .. n
    BY <2>1, <2>2
  <2>4. Good(k - 1)
    BY <2>3
  <2>5. at[k] # NULL => at[k - 1] # NULL /\ at[k] = hdr[at[k - 1]][link]
    BY <2>3
  <2>6. at[k] # NULL => at[k - 1] \in F /\ hdr[at[k - 1]][link] # NULL
    BY <2>4, <2>5
  <2>7. at[k] # NULL => at[k] \in F /\ hdr[at[k]][back] = at[k - 1]
    BY <2>5, <2>6 DEF IsList
  <2>8. Good(k)
    BY <2>2, <2>7
  <2> QED
    BY <2>1, <2>8
<1>2. PICK r : Ranks(hdr, F, link, r)
  BY DEF IsList
<1> DEFINE Grows(k) == \A j \in 0 .. n : j < k /\ at[k] # NULL => at[j] # NULL /\ r[at[j]] < r[at[k]]
<1>3. \A k \in 0 .. n : Grows(k)
  <2> DEFINE T == {k \in 0 .. n : ~Grows(k)}
  <2> SUFFICES ASSUME T # {} PROVE FALSE
    OBVIOUS
  <2>1. PICK k \in T : \A m \in T : k <= m
    <3>1. T \subseteq Nat
      OBVIOUS
    <3> HIDE DEF T
    <3> QED
      BY <3>1, LeastNumber
  <2>2. PICK j \in 0 .. n : j < k /\ at[k] # NULL /\ ~(at[j] # NULL /\ r[at[j]] < r[at[k]])
    BY <2>1
  <2>3. k - 1 \in 0 .. n /\ k - 1 \notin T /\ k \in 1 .. n /\ j <= k - 1
    BY <2>1, <2>2
  <2>4. Grows(k - 1)
    BY <2>3
  <2>5. at[k - 1] # NULL /\ at[k] = hdr[at[k - 1]][link]
    BY <2>2, <2>3
  <2>6. at[k - 1] \in F /\ at[k] \in F
    BY <1>1, <2>2, <2>3, <2>5
  <2>7. r[at[k - 1]] < r[at[k]] /\ r[at[k - 1]] \in Nat /\ r[at[k]] \in Nat
    BY <1>2, <2>2, <2>5, <2>6 DEF Ranks
  <2>8. j < k - 1 => at[j] # NULL /\ r[at[j]] < r[at[k - 1]]
    BY <2>2, <2>4, <2>5
  <2>9. j < k - 1 => at[j] \in F /\ r[at[j]] \in Nat
    BY <1>1, <1>2, <2>8 DEF Ranks
  <2>10. j = k - 1 \/ j < k - 1
    BY <2>2, <2>3
  <2> QED
    BY <2>2, <2>5, <2>7, <2>8, <2>9, <2>10, SMTT(30)
<1>4. ~(\A k \in 0 .. n : at[k] # NULL)
  <2> SUFFICES ASSUME \A k \in 0 .. n : at[k] # NULL PROVE FALSE
    OBVIOUS
  <2> DEFINE f == [k \in 0 .. n |-> at[k]]
  <2>1. f \in [0 .. n -> F]
    BY <1>1
  <2>2. IsFiniteSet(0 .. n) /\ Cardinality(0 .. n) = n + 1
    BY FS_Interval
  <2>3. Cardinality(F) \in Nat
    BY FS_CardinalityType
  <2>4. Cardinality(F) < Cardinality(0 .. n)
    BY <2>2, <2>3
  <2> HIDE DEF f
  <2>5. PICK j, k \in 0 .. n : j # k /\ f[j] = f[k]
    BY <2>1, <2>2, <2>4, FS_PigeonHole
  <2>6. at[j] = at[k] /\ at[j] \in F
    BY <2>1, <2>5 DEF f
  <2>7. r[at[j]] \in Nat /\ r[at[k]] \in Nat
    BY <1>2, <2>6 DEF Ranks
  <2>8. j < k \/ k < j
    BY <2>5
  <2>9. j < k => r[at[j]] < r[at[k]]
    BY <1>3
  <2>10. k < j => r[at[k]] < r[at[j]]
    BY <1>3
  <2> QED
    BY <2>6, <2>7, <2>8, <2>9, <2>10
<1>5. Ends(at)
  BY <1>4 DEF Ends
<1>6. \A a \in F : \E k \in 0 .. n : at[k] = a
  <2> DEFINE B == {a \in F : \A k \in 0 .. n : at[k] # a}
  <2> SUFFICES ASSUME B # {} PROVE FALSE
    OBVIOUS
  <2>1. PICK a \in B : \A b \in B : r[a] <= r[b]
    <3>1. B \subseteq F
      OBVIOUS
    <3> HIDE DEF B
    <3> QED
      BY <1>2, <3>1, FirstWithout
  <2> DEFINE b == hdr[a][back]
  <2>2. b # NULL
    <3>1. 0 \in 0 .. n
      OBVIOUS
    <3> QED
      BY <2>1, <3>1 DEF IsList
  <2>3. b \in F /\ hdr[b][link] = a
    BY <2>1, <2>2 DEF IsList
  <2>4. r[b] < r[a] /\ r[a] \in Nat /\ r[b] \in Nat
    BY <1>2, <2>1, <2>3 DEF Ranks
  <2>5. b \notin B
    BY <2>1, <2>4
  <2>6. PICK k \in 0 .. n : at[k] = b
    BY <2>3, <2>5
  <2>7. k # n
    <3> SUFFICES ASSUME k = n PROVE FALSE
      OBVIOUS
    <3>1. \A j \in 0 .. n : j < n => at[j] # NULL
      BY <1>3, <2>2, <2>6
    <3>2. \A j \in 0 .. n : j = n \/ j < n
      OBVIOUS
    <3> QED
      BY <1>4, <2>2, <2>6, <3>1, <3>2
  <2>8. k + 1 \in 1 .. n /\ k + 1 \in 0 .. n /\ (k + 1) - 1 = k
    BY <2>6, <2>7
  <2>9. at[k + 1] = a
    BY <2>2, <2>3, <2>6, <2>8
  <2> QED
    BY <2>1, <2>8, <2>9
<1>7. Blocks(at) = F
  BY <1>1, <1>6 DEF Blocks
<1> QED
  BY <1>1, <1>5, <1>7

\* A block of a list without neighbours is alone.
LEMMA AloneInList ==
    ASSUME NEW hdr, NEW F, NULL \notin F, NEW first, NEW link, NEW back,
           IsList(hdr, F, first, link, back), NEW p \in F,
           hdr[p][link] = NULL, hdr[p][back] = NULL, NEW q \in F
    PROVE  q = p
<1> DEFINE B == F \ {p}
<1> SUFFICES ASSUME B # {} PROVE FALSE
  OBVIOUS
<1>1. PICK r : Ranks(hdr, F, link, r)
  BY DEF IsList
<1>2. PICK a \in B : \A b \in B : r[a] <= r[b]
  <2>1. B \subseteq F
    OBVIOUS
  <2> HIDE DEF B
  <2> QED
    BY <1>1, <2>1, FirstWithout
<1> DEFINE b == hdr[a][back]
<1>3. b # NULL
  BY <1>2 DEF IsList
<1>4. b \in F /\ hdr[b][link] = a
  BY <1>2, <1>3 DEF IsList
<1>5. r[b] < r[a] /\ r[a] \in Nat /\ r[b] \in Nat
  BY <1>1, <1>2, <1>4 DEF Ranks
<1>6. b \notin B
  BY <1>2, <1>5
<1> QED
  BY <1>2, <1>4, <1>6

\* A block is not behind itself, nor is the one behind it before it.
LEMMA ListHasOrder ==
    ASSUME NEW hdr, NEW F, NEW first, NEW link, NEW back,
           IsList(hdr, F, first, link, back), NULL \notin F, NEW p \in F
    PROVE  /\ hdr[p][link] # p /\ hdr[p][back] # p
           /\ hdr[p][link] # NULL => hdr[p][link] # hdr[p][back]
<1>1. PICK r : Ranks(hdr, F, link, r)
  BY DEF IsList
<1>2. hdr[p][link] # NULL => hdr[p][link] \in F /\ r[p] < r[hdr[p][link]] /\ r[p] \in Nat
  BY <1>1 DEF IsList, Ranks
<1>3. hdr[p][back] # NULL =>
         /\ hdr[p][back] \in F /\ hdr[hdr[p][back]][link] = p
         /\ p # NULL => r[hdr[p][back]] < r[p] /\ r[hdr[p][back]] \in Nat
  BY <1>1 DEF IsList, Ranks
<1> QED
  BY <1>1, <1>2, <1>3 DEF Ranks

-----------------------------------------------------------------------------
(* Changing a list.                                                        *)

\* A list is what its links are.
LEMMA ListIsLinks ==
    ASSUME NEW hdr, NEW F, NEW first, NEW link, NEW back, IsList(hdr, F, first, link, back),
           NEW g, \A a \in F : g[a][link] = hdr[a][link] /\ g[a][back] = hdr[a][back]
    PROVE  IsList(g, F, first, link, back)
<1>1. PICK r : Ranks(hdr, F, link, r)
  BY DEF IsList
<1>2. Ranks(g, F, link, r)
  BY <1>1 DEF Ranks
<1>3. first # NULL => first \in F /\ g[first][back] = NULL
  BY DEF IsList
<1>4. \A a \in F : g[a][link] # NULL => g[a][link] \in F /\ g[g[a][link]][back] = a
  BY DEF IsList
<1>5. \A a \in F : g[a][back] = NULL => a = first
  BY DEF IsList
<1>6. \A a \in F : g[a][back] # NULL => g[a][back] \in F /\ g[g[a][back]][link] = a
  BY DEF IsList
<1> QED
  BY <1>2, <1>3, <1>4, <1>5, <1>6 DEF IsList

\* A block leaves the list: its neighbours are linked.
LEMMA ListWithout ==
    ASSUME NEW hdr, NEW F, NULL \notin F, NEW first, NEW link, NEW back,
           IsList(hdr, F, first, link, back), NEW p \in F, NEW g,
           \A a \in F \ {p} :
             /\ g[a][link] = IF a = hdr[p][back] THEN hdr[p][link] ELSE hdr[a][link]
             /\ g[a][back] = IF a = hdr[p][link] THEN hdr[p][back] ELSE hdr[a][back]
    PROVE  IsList(g, F \ {p}, IF hdr[p][back] = NULL THEN hdr[p][link] ELSE first, link, back)
<1> DEFINE start == IF hdr[p][back] = NULL THEN hdr[p][link] ELSE first
           prv == hdr[p][back]
           nxt == hdr[p][link]
           E == F \ {p}
<1>1. PICK r : Ranks(hdr, F, link, r)
  BY DEF IsList
<1>2. /\ prv # NULL => prv \in E /\ hdr[prv][link] = p
      /\ nxt # NULL => nxt \in E /\ hdr[nxt][back] = p
      /\ nxt # NULL => nxt # prv
  <2>1. /\ nxt # p /\ prv # p
        /\ nxt # NULL => nxt # prv
    BY ListHasOrder
  <2>2. /\ nxt # NULL => nxt \in F /\ hdr[nxt][back] = p
        /\ prv # NULL => prv \in F /\ hdr[prv][link] = p
    BY DEF IsList
  <2> QED
    BY <2>1, <2>2
<1>3. \A a \in E : /\ hdr[a][link] = p => a = prv
                   /\ hdr[a][back] = p => a = nxt
                   /\ hdr[a][link] = p <=> a = prv
                   /\ hdr[a][back] = p <=> a = nxt
  BY <1>2 DEF IsList
<1>4. start # NULL => start \in E /\ g[start][back] = NULL
  <2>1. CASE prv = NULL
    BY <1>2, <2>1
  <2>2. CASE prv # NULL
    <3>1. first # NULL => first \in F /\ hdr[first][back] = NULL /\ first # p
      BY <2>2 DEF IsList
    <3>2. first # NULL => first # nxt
      BY <1>2, <3>1
    <3> QED
      BY <2>2, <3>1, <3>2
  <2> QED
    BY <2>1, <2>2
<1>5. \A a \in E : g[a][link] # NULL => g[a][link] \in E /\ g[g[a][link]][back] = a
  <2> TAKE a \in E
  <2> HAVE g[a][link] # NULL
  <2>1. CASE a = prv
    <3>1. nxt # NULL /\ g[a][link] = nxt
      BY <2>1
    <3> QED
      BY <1>2, <2>1, <3>1
  <2>2. CASE a # prv
    <3>1. g[a][link] = hdr[a][link] /\ hdr[a][link] # p
      BY <1>3, <2>2
    <3>2. hdr[a][link] \in E /\ hdr[hdr[a][link]][back] = a
      BY <3>1 DEF IsList
    <3>3. hdr[a][link] # nxt
      BY <1>2, <3>2
    <3> QED
      BY <3>1, <3>2, <3>3
  <2> QED
    BY <2>1, <2>2
<1>6. \A a \in E : g[a][back] = NULL => a = start
  <2> TAKE a \in E
  <2> HAVE g[a][back] = NULL
  <2>1. CASE a = nxt
    BY <2>1
  <2>2. CASE a # nxt
    <3>1. hdr[a][back] = NULL
      BY <2>2
    <3>2. a = first
      BY <3>1 DEF IsList
    <3>3. prv # NULL
      BY <3>2 DEF IsList
    <3> QED
      BY <3>2, <3>3
  <2> QED
    BY <2>1, <2>2
<1>7. \A a \in E : g[a][back] # NULL => g[a][back] \in E /\ g[g[a][back]][link] = a
  <2> TAKE a \in E
  <2> HAVE g[a][back] # NULL
  <2>1. CASE a = nxt
    <3>1. prv # NULL /\ g[a][back] = prv
      BY <2>1
    <3> QED
      BY <1>2, <2>1, <3>1
  <2>2. CASE a # nxt
    <3>1. g[a][back] = hdr[a][back] /\ hdr[a][back] # p
      BY <1>3, <2>2
    <3>2. hdr[a][back] \in E /\ hdr[hdr[a][back]][link] = a
      BY <3>1 DEF IsList
    <3>3. hdr[a][back] # prv
      BY <1>2, <3>2
    <3> QED
      BY <3>1, <3>2, <3>3
  <2> QED
    BY <2>1, <2>2
<1>8. Ranks(g, E, link, [a \in E |-> r[a]])
  <2>1. \A a \in E : r[a] \in Nat
    BY <1>1 DEF Ranks
  <2>2. \A a \in E : g[a][link] # NULL => r[a] < r[g[a][link]]
    <3> TAKE a \in E
    <3> HAVE g[a][link] # NULL
    <3>1. CASE a = prv
      <4>1. r[prv] < r[p] /\ r[p] < r[nxt] /\ g[a][link] = nxt /\ nxt # NULL
        BY <1>1, <1>2, <3>1 DEF Ranks
      <4>2. r[prv] \in Nat /\ r[p] \in Nat /\ r[nxt] \in Nat
        BY <1>1, <1>2, <3>1, <4>1 DEF Ranks
      <4> QED
        BY <3>1, <4>1, <4>2
    <3>2. CASE a # prv
      BY <1>1, <3>2 DEF Ranks
    <3> QED
      BY <3>1, <3>2
  <2> QED
    BY <1>5, <2>1, <2>2 DEF Ranks
<1> HIDE DEF start, E
<1>9. IsList(g, E, start, link, back)
  BY <1>4, <1>5, <1>6, <1>7, <1>8 DEF IsList
<1> QED
  BY <1>9 DEF start, E

\* A block takes the place of another one.
LEMMA ListInstead ==
    ASSUME NEW hdr, NEW F, NULL \notin F, NEW first, NEW link, NEW back,
           IsList(hdr, F, first, link, back), NEW p \in F, NEW q, q \notin F, q # NULL, NEW g,
           g[q][link] = hdr[p][link], g[q][back] = hdr[p][back],
           \A a \in F \ {p} :
             /\ g[a][link] = IF a = hdr[p][back] THEN q ELSE hdr[a][link]
             /\ g[a][back] = IF a = hdr[p][link] THEN q ELSE hdr[a][back]
    PROVE  IsList(g, (F \ {p}) \cup {q}, IF hdr[p][back] = NULL THEN q ELSE first, link, back)
<1> DEFINE start == IF hdr[p][back] = NULL THEN q ELSE first
           prv == hdr[p][back]
           nxt == hdr[p][link]
           E == (F \ {p}) \cup {q}
<1>1. PICK r : Ranks(hdr, F, link, r)
  BY DEF IsList
<1>2. /\ prv # NULL => prv \in F \ {p} /\ hdr[prv][link] = p
      /\ nxt # NULL => nxt \in F \ {p} /\ hdr[nxt][back] = p
      /\ nxt # NULL => nxt # prv
  <2>1. /\ nxt # p /\ prv # p
        /\ nxt # NULL => nxt # prv
    BY ListHasOrder
  <2>2. /\ nxt # NULL => nxt \in F /\ hdr[nxt][back] = p
        /\ prv # NULL => prv \in F /\ hdr[prv][link] = p
    BY DEF IsList
  <2> QED
    BY <2>1, <2>2
<1>3. \A a \in F \ {p} : /\ hdr[a][link] = p <=> a = prv
                         /\ hdr[a][back] = p <=> a = nxt
  BY <1>2 DEF IsList
<1>4. start # NULL => start \in E /\ g[start][back] = NULL
  <2>1. CASE prv = NULL
    BY <2>1
  <2>2. CASE prv # NULL
    <3>1. first # NULL => first \in F /\ hdr[first][back] = NULL /\ first # p
      BY <2>2 DEF IsList
    <3>2. first # NULL => first # nxt
      BY <1>2, <3>1
    <3> QED
      BY <2>2, <3>1, <3>2
  <2> QED
    BY <2>1, <2>2
<1>5. \A a \in E : g[a][link] # NULL => g[a][link] \in E /\ g[g[a][link]][back] = a
  <2> TAKE a \in E
  <2> HAVE g[a][link] # NULL
  <2>1. CASE a = q
    BY <1>2, <2>1
  <2>2. CASE a # q /\ a = prv
    BY <1>2, <2>2
  <2>3. CASE a # q /\ a # prv
    <3>1. a \in F \ {p} /\ g[a][link] = hdr[a][link] /\ hdr[a][link] # p
      BY <1>3, <2>3
    <3>2. hdr[a][link] \in F \ {p} /\ hdr[hdr[a][link]][back] = a
      BY <3>1 DEF IsList
    <3>3. hdr[a][link] # nxt
      BY <1>2, <3>1, <3>2
    <3> QED
      BY <3>1, <3>2, <3>3
  <2> QED
    BY <2>1, <2>2, <2>3
<1>6. \A a \in E : g[a][back] = NULL => a = start
  <2> TAKE a \in E
  <2> HAVE g[a][back] = NULL
  <2>1. CASE a = q
    BY <2>1
  <2>2. CASE a # q /\ a = nxt
    BY <2>2
  <2>3. CASE a # q /\ a # nxt
    <3>1. a \in F \ {p} /\ hdr[a][back] = NULL
      BY <2>3
    <3>2. a = first
      BY <3>1 DEF IsList
    <3>3. prv # NULL
      BY <3>1, <3>2 DEF IsList
    <3> QED
      BY <3>2, <3>3
  <2> QED
    BY <2>1, <2>2, <2>3
<1>7. \A a \in E : g[a][back] # NULL => g[a][back] \in E /\ g[g[a][back]][link] = a
  <2> TAKE a \in E
  <2> HAVE g[a][back] # NULL
  <2>1. CASE a = q
    BY <1>2, <2>1
  <2>2. CASE a # q /\ a = nxt
    BY <1>2, <2>2
  <2>3. CASE a # q /\ a # nxt
    <3>1. a \in F \ {p} /\ g[a][back] = hdr[a][back] /\ hdr[a][back] # p
      BY <1>3, <2>3
    <3>2. hdr[a][back] \in F \ {p} /\ hdr[hdr[a][back]][link] = a
      BY <3>1 DEF IsList
    <3>3. hdr[a][back] # prv
      BY <1>2, <3>1, <3>2
    <3> QED
      BY <3>1, <3>2, <3>3
  <2> QED
    BY <2>1, <2>2, <2>3
<1> DEFINE s == [a \in E |-> IF a = q THEN r[p] ELSE r[a]]
<1>8. Ranks(g, E, link, s)
  <2>1. \A a \in E : s[a] \in Nat
    BY <1>1 DEF Ranks
  <2>2. \A a \in E : g[a][link] # NULL => s[a] < s[g[a][link]]
    <3> TAKE a \in E
    <3> HAVE g[a][link] # NULL
    <3>1. CASE a = q
      <4>1. nxt # NULL /\ g[a][link] = nxt /\ nxt \in E /\ nxt # q
        BY <1>2, <3>1
      <4>2. r[p] < r[nxt]
        BY <1>1, <4>1 DEF Ranks
      <4> QED
        BY <3>1, <4>1, <4>2
    <3>2. CASE a # q /\ a = prv
      <4>1. a \in F /\ hdr[a][link] = p /\ g[a][link] = q
        BY <1>2, <3>2
      <4>2. r[a] < r[p]
        BY <1>1, <4>1 DEF Ranks
      <4> QED
        BY <3>2, <4>1, <4>2
    <3>3. CASE a # q /\ a # prv
      <4>1. a \in F \ {p} /\ g[a][link] = hdr[a][link] /\ hdr[a][link] # p
        BY <1>3, <3>3
      <4>2. hdr[a][link] \in F \ {p}
        BY <4>1 DEF IsList
      <4>3. r[a] < r[hdr[a][link]]
        BY <1>1, <4>1 DEF Ranks
      <4> QED
        BY <3>3, <4>1, <4>2, <4>3
    <3> QED
      BY <3>1, <3>2, <3>3
  <2> HIDE DEF E
  <2>3. s = [a \in E |-> s[a]]
    OBVIOUS
  <2> HIDE DEF s
  <2> QED
    BY <2>1, <2>2, <2>3 DEF Ranks
<1> HIDE DEF start, E
<1>9. IsList(g, E, start, link, back)
  BY <1>4, <1>5, <1>6, <1>7, <1>8 DEF IsList
<1> QED
  BY <1>9 DEF start, E

\* A block becomes the first one.
LEMMA ListBefore ==
    ASSUME NEW hdr, NEW F, NULL \notin F, NEW first, NEW link, NEW back,
           IsList(hdr, F, first, link, back), NEW p, p \notin F, p # NULL, NEW g,
           g[p][link] = first, g[p][back] = NULL,
           \A a \in F :
             /\ g[a][link] = hdr[a][link]
             /\ g[a][back] = IF a = first THEN p ELSE hdr[a][back]
    PROVE  IsList(g, F \cup {p}, p, link, back)
<1> DEFINE E == F \cup {p}
<1>1. PICK r : Ranks(hdr, F, link, r)
  BY DEF IsList
<1>2. first # NULL => first \in F /\ hdr[first][back] = NULL
  BY DEF IsList
<1>3. \A a \in E : g[a][link] # NULL => g[a][link] \in E /\ g[g[a][link]][back] = a
  <2> TAKE a \in E
  <2> HAVE g[a][link] # NULL
  <2>1. CASE a = p
    BY <1>2, <2>1
  <2>2. CASE a # p
    <3>1. a \in F /\ hdr[a][link] \in F /\ hdr[hdr[a][link]][back] = a
      BY <2>2 DEF IsList
    <3>2. hdr[a][link] # first
      BY <1>2, <3>1
    <3> QED
      BY <3>1, <3>2
  <2> QED
    BY <2>1, <2>2
<1>4. \A a \in E : g[a][back] = NULL => a = p
  BY DEF IsList
<1>5. \A a \in E : g[a][back] # NULL => g[a][back] \in E /\ g[g[a][back]][link] = a
  <2> TAKE a \in E
  <2> HAVE g[a][back] # NULL
  <2>1. CASE a = first
    BY <1>2, <2>1
  <2>2. CASE a # first
    <3>1. a \in F /\ hdr[a][back] \in F /\ hdr[hdr[a][back]][link] = a
      BY <2>2 DEF IsList
    <3> QED
      BY <2>2, <3>1
  <2> QED
    BY <2>1, <2>2
<1> DEFINE s == [a \in E |-> IF a = p THEN 0 ELSE r[a] + 1]
<1>6. Ranks(g, E, link, s)
  <2>1. \A a \in E : s[a] \in Nat
    BY <1>1 DEF Ranks
  <2>2. \A a \in E : g[a][link] # NULL => s[a] < s[g[a][link]]
    <3> TAKE a \in E
    <3> HAVE g[a][link] # NULL
    <3>1. CASE a = p
      <4>1. g[a][link] = first /\ first \in F
        BY <1>2, <3>1
      <4>2. r[first] \in Nat /\ first # p
        BY <1>1, <4>1 DEF Ranks
      <4> QED
        BY <3>1, <4>1, <4>2
    <3>2. CASE a # p
      <4>1. a \in F /\ g[a][link] = hdr[a][link] /\ hdr[a][link] \in F
        BY <3>2 DEF IsList
      <4>2. r[a] < r[hdr[a][link]] /\ r[a] \in Nat /\ r[hdr[a][link]] \in Nat
        BY <1>1, <4>1 DEF Ranks
      <4> QED
        BY <3>2, <4>1, <4>2
    <3> QED
      BY <3>1, <3>2
  <2> HIDE DEF E
  <2>3. s = [a \in E |-> s[a]]
    OBVIOUS
  <2> HIDE DEF s
  <2> QED
    BY <2>1, <2>2, <2>3 DEF Ranks
<1>7. p \in E /\ g[p][back] = NULL
  OBVIOUS
<1> HIDE DEF E
<1>8. IsList(g, E, p, link, back)
  BY <1>3, <1>4, <1>5, <1>6, <1>7 DEF IsList
<1> QED
  BY <1>8 DEF E

-----------------------------------------------------------------------------
(* The invariant of the heap.                                              *)

EndOf(h, a) == a + HdrSize + h.hdr[a].size
FreeBlocks(h) == {a \in DOMAIN h.hdr : h.hdr[a].alloc = 0}
UsedBlocks(h) == {a \in DOMAIN h.hdr : h.hdr[a].alloc = 1}

HeapIsTyped(h) ==
    /\ h = [first |-> h.first, first_free |-> h.first_free, hdr |-> h.hdr,
            total_used |-> h.total_used, header_count |-> h.header_count, exited |-> h.exited]
    /\ h.hdr \in [DOMAIN h.hdr -> Headers]
    /\ DOMAIN h.hdr \subseteq Addresses

\* The blocks lie behind each other and fill the buffer.
BlocksTile(h) ==
    /\ h.first = 0 /\ 0 \in DOMAIN h.hdr /\ h.hdr[0].prev = NULL
    /\ \A a \in DOMAIN h.hdr :
         /\ h.hdr[a].next # NULL => /\ h.hdr[a].next \in DOMAIN h.hdr
                                    /\ h.hdr[h.hdr[a].next].prev = a
         /\ h.hdr[a].prev = NULL => a = 0
         /\ h.hdr[a].prev # NULL => /\ h.hdr[a].prev \in DOMAIN h.hdr
                                    /\ h.hdr[h.hdr[a].prev].next = a
         /\ EndOf(h, a) = IF h.hdr[a].next = NULL THEN BufLen ELSE h.hdr[a].next
    /\ \A a, b \in DOMAIN h.hdr : a < b => EndOf(h, a) <= b

\* The blocks F are on the free list.
FreeIsListed(h, F) ==
    /\ F \subseteq FreeBlocks(h)
    /\ IsList(h.hdr, F, h.first_free, "next_free", "prev_free")
    /\ \A a \in DOMAIN h.hdr \ F : h.hdr[a].prev_free = NULL /\ h.hdr[a].next_free = NULL

BlocksAreCounted(h) ==
    /\ h.total_used = SizeSum(h.hdr, UsedBlocks(h))
    /\ h.header_count = Cardinality(DOMAIN h.hdr) - 1
    /\ ~h.exited

\* No block outside X is free with a free one behind it.
FreeAreApart(h, X) ==
    \A a \in DOMAIN h.hdr \ X :
        ~(h.hdr[a].alloc = 0 /\ h.hdr[a].next # NULL /\ h.hdr[h.hdr[a].next].alloc = 0)

\* The heap, in the middle of a call.
HeapStage(h, F, X) ==
    /\ HeapIsTyped(h) /\ BlocksTile(h) /\ FreeIsListed(h, F) /\ BlocksAreCounted(h)
    /\ FreeAreApart(h, X)

\* The heap between two calls.
HeapInv(h) == HeapStage(h, FreeBlocks(h), {})

LEMMA SizesAreNumbers ==
    /\ BufLen \in Nat \ {0} /\ HdrSize \in Nat \ {0} /\ Align \in Nat \ {0} /\ SizeMod \in Nat \ {0}
    /\ NULL \notin Nat
BY SizesFit

LEMMA BlocksAreAddresses ==
    ASSUME NEW h, HeapIsTyped(h)
    PROVE  /\ DOMAIN h.hdr \subseteq Nat /\ NULL \notin DOMAIN h.hdr
           /\ IsFiniteSet(DOMAIN h.hdr) /\ Cardinality(DOMAIN h.hdr) \in Nat
           /\ \A a \in DOMAIN h.hdr : a \in Nat /\ a < BufLen /\ h.hdr[a].size \in Nat
                                      /\ h.hdr[a].alloc \in {0, 1}
<1>1. DOMAIN h.hdr \subseteq 0 .. BufLen - 1
  BY DEF HeapIsTyped, Addresses
<1>2. IsFiniteSet(0 .. BufLen - 1)
  BY SizesAreNumbers, FS_Interval
<1>3. IsFiniteSet(DOMAIN h.hdr)
  BY <1>1, <1>2, FS_Subset
<1>4. \A a \in DOMAIN h.hdr : h.hdr[a] \in Headers
  BY DEF HeapIsTyped
<1> QED
  BY <1>1, <1>3, <1>4, SizesAreNumbers, FS_CardinalityType DEF Headers

\* Not more blocks than their headers fill the buffer.
LEMMA BlocksAreFew ==
    ASSUME NEW h, HeapIsTyped(h), BlocksTile(h)
    PROVE  Cardinality(DOMAIN h.hdr) <= MaxBlocks
<1> DEFINE D == DOMAIN h.hdr
           f == [a \in D |-> a \div HdrSize]
           m == MaxBlocks
<1>1. /\ D \subseteq Nat /\ IsFiniteSet(D) /\ Cardinality(D) \in Nat
      /\ \A a \in D : a \in Nat /\ h.hdr[a].size \in Nat
  BY BlocksAreAddresses
<1>2. \A a \in D : EndOf(h, a) \in Nat /\ a + HdrSize <= EndOf(h, a)
  BY <1>1, SizesAreNumbers DEF EndOf
<1>3. \A a \in D : EndOf(h, a) <= BufLen
  BY <1>1, <1>2, SizesAreNumbers DEF BlocksTile, HeapIsTyped, Addresses
<1>4. \A a \in D : a + HdrSize <= BufLen
  BY <1>1, <1>2, <1>3, SizesAreNumbers
<1>5. \A a, b \in D : a < b => a + HdrSize <= b
  BY <1>1, <1>2, SizesAreNumbers DEF BlocksTile
<1>6. m \in Nat /\ BufLen < HdrSize * (m + 1)
  BY SizesAreNumbers DEF MaxBlocks
<1> HIDE DEF m
<1>7. \A a \in D : f[a] \in Nat /\ HdrSize * f[a] <= a /\ a < HdrSize * (f[a] + 1)
  BY <1>1, SizesAreNumbers
<1> HIDE DEF f
<1>8. \A a, b \in D : f[a] = f[b] => a = b
  <2>1. \A a, b \in D : f[a] = f[b] => ~(a < b)
    <3> SUFFICES ASSUME NEW a \in D, NEW b \in D, f[a] = f[b], a < b PROVE FALSE
      OBVIOUS
    <3> DEFINE x == HdrSize * f[a]
    <3>1. x \in Nat /\ HdrSize * (f[a] + 1) = x + HdrSize
      BY <1>7, SizesAreNumbers
    <3>2. x <= a /\ b < x + HdrSize
      BY <1>7, <3>1
    <3> HIDE DEF x
    <3> QED
      BY <1>1, <1>5, <3>1, <3>2, SizesAreNumbers
  <2> QED
    BY <1>1, <2>1
<1>9. \A a \in D : f[a] \in 0 .. m - 1
  <2> TAKE a \in D
  <2> SUFFICES ASSUME f[a] >= m PROVE FALSE
    BY <1>6, <1>7
  <2> DEFINE x == HdrSize * f[a]
             y == HdrSize * m
  <2>1. x \in Nat /\ y \in Nat /\ HdrSize * (m + 1) = y + HdrSize
    BY <1>6, <1>7, SizesAreNumbers
  <2>2. y <= x
    BY <1>6, <1>7, SizesAreNumbers
  <2>3. x <= a /\ BufLen < y + HdrSize
    BY <1>6, <1>7, <2>1
  <2> HIDE DEF x, y
  <2> QED
    BY <1>1, <1>4, <2>1, <2>2, <2>3, SizesAreNumbers
<1>10. IsFiniteSet(0 .. m - 1) /\ Cardinality(0 .. m - 1) = m
  <2> DEFINE l == m - 1
  <2>1. l \in Int /\ 0 \in Int
    BY <1>6
  <2> HIDE DEF l
  <2>2. IsFiniteSet(0 .. l) /\ Cardinality(0 .. l) = IF 0 > l THEN 0 ELSE l - 0 + 1
    BY <2>1, FS_Interval
  <2> QED
    BY <1>6, <2>2 DEF l
<1>11. f \in [D -> 0 .. m - 1]
  BY <1>9 DEF f
<1>12. ~(Cardinality(D) > m)
  <2> SUFFICES ASSUME Cardinality(D) > m PROVE FALSE
    OBVIOUS
  <2>1. \E a, b \in D : a # b /\ f[a] = f[b]
    <3> HIDE DEF D
    <3> QED
      BY <1>1, <1>6, <1>10, <1>11, FS_PigeonHole
  <2> QED
    BY <1>8, <2>1
<1> QED
  BY <1>1, <1>6, <1>12 DEF m

\* The blocks in the order of their addresses.
LEMMA TilesAreList ==
    ASSUME NEW h, HeapIsTyped(h), BlocksTile(h)
    PROVE  IsList(h.hdr, DOMAIN h.hdr, h.first, "next", "prev")
<1> DEFINE D == DOMAIN h.hdr
           r == [a \in D |-> a]
<1>1. /\ D \subseteq Nat
      /\ \A a \in D : a \in Nat /\ h.hdr[a].size \in Nat
  BY BlocksAreAddresses
<1>2. \A a \in D : h.hdr[a].next # NULL => a < h.hdr[a].next
  <2> TAKE a \in D
  <2> HAVE h.hdr[a].next # NULL
  <2>1. h.hdr[a].next = a + HdrSize + h.hdr[a].size
    BY DEF BlocksTile, EndOf
  <2> QED
    BY <1>1, <2>1, SizesAreNumbers
<1>3. Ranks(h.hdr, D, "next", r)
  BY <1>1, <1>2 DEF Ranks, BlocksTile
<1>4. /\ h.first = 0 /\ 0 \in D /\ h.hdr[0].prev = NULL
      /\ \A a \in D :
           /\ h.hdr[a].next # NULL => h.hdr[a].next \in D /\ h.hdr[h.hdr[a].next].prev = a
           /\ h.hdr[a].prev = NULL => a = 0
           /\ h.hdr[a].prev # NULL => h.hdr[a].prev \in D /\ h.hdr[h.hdr[a].prev].next = a
  BY DEF BlocksTile
<1> HIDE DEF D, r
<1>5. IsList(h.hdr, D, 0, "next", "prev")
  BY <1>3, <1>4 DEF IsList
<1> QED
  BY <1>4, <1>5 DEF D

\* A walk passes the blocks S of a list, in order, and ends.
WalkFinds(h, at, S, back) ==
    /\ DOMAIN at = 0 .. MaxBlocks
    /\ Ends(at) /\ Blocks(at) = S
    /\ \A k \in 0 .. MaxBlocks : at[k] # NULL =>
         /\ at[k] \in S
         /\ h.hdr[at[k]][back] = IF k = 0 THEN NULL ELSE at[k - 1]

LEMMA WalkFindsList ==
    ASSUME NEW h, NEW p, NEW S, NULL \notin S, IsFiniteSet(S), Cardinality(S) <= MaxBlocks,
           NEW link, NEW back, IsList(h.hdr, S, p, link, back)
    PROVE  WalkFinds(h, Walk(h, p, link), S, back)
<1> DEFINE at == Walk(h, p, link)
<1>1. /\ DOMAIN at = 0 .. MaxBlocks
      /\ at[0] = p
      /\ \A k \in 1 .. MaxBlocks :
             at[k] = IF at[k - 1] = NULL THEN NULL ELSE h.hdr[at[k - 1]][link]
  BY WalkIs
<1> DEFINE hdr == h.hdr
<1> HIDE DEF at
<1>2. IsList(hdr, S, p, link, back)
  OBVIOUS
<1>3. \A k \in 1 .. MaxBlocks : at[k] = IF at[k - 1] = NULL THEN NULL ELSE hdr[at[k - 1]][link]
  BY <1>1
<1> HIDE DEF hdr
<1>4. /\ Ends(at)
      /\ Blocks(at) = S
      /\ \A k \in 0 .. MaxBlocks : at[k] # NULL =>
             at[k] \in S /\ hdr[at[k]][back] = IF k = 0 THEN NULL ELSE at[k - 1]
  BY <1>1, <1>2, <1>3, BlocksAreNumbers, ListIsWalked, SMTT(30)
<1>5. WalkFinds(h, at, S, back)
  BY <1>1, <1>4 DEF WalkFinds, hdr
<1> QED
  BY <1>5 DEF at

\* What the walks over the two lists of the heap find.
LEMMA ListsAreWalked ==
    ASSUME NEW h, HeapIsTyped(h), BlocksTile(h), NEW F, FreeIsListed(h, F)
    PROVE  /\ WalkFinds(h, Walk(h, h.first, "next"), DOMAIN h.hdr, "prev")
           /\ WalkFinds(h, Walk(h, h.first_free, "next_free"), F, "prev_free")
<1> DEFINE D == DOMAIN h.hdr
<1>1. /\ NULL \notin D /\ IsFiniteSet(D) /\ Cardinality(D) \in Nat /\ Cardinality(D) <= MaxBlocks
      /\ MaxBlocks \in Nat
  BY BlocksAreAddresses, BlocksAreFew, BlocksAreNumbers
<1>2. F \subseteq D
  BY DEF FreeIsListed, FreeBlocks
<1>3. /\ NULL \notin F /\ IsFiniteSet(F) /\ Cardinality(F) \in Nat /\ Cardinality(F) <= Cardinality(D)
  BY <1>1, <1>2, FS_Subset, FS_CardinalityType
<1>4. Cardinality(F) <= MaxBlocks
  BY <1>1, <1>3
<1>5. /\ IsList(h.hdr, D, h.first, "next", "prev")
      /\ IsList(h.hdr, F, h.first_free, "next_free", "prev_free")
  BY TilesAreList DEF FreeIsListed
<1> HIDE DEF D
<1>6. WalkFinds(h, Walk(h, h.first, "next"), D, "prev")
  BY <1>1, <1>5, WalkFindsList
<1>7. WalkFinds(h, Walk(h, h.first_free, "next_free"), F, "prev_free")
  BY <1>3, <1>4, <1>5, WalkFindsList
<1> QED
  BY <1>6, <1>7 DEF D

LEMMA HeapIsVerified ==
    ASSUME NEW h, NEW F, NEW X, HeapStage(h, F, X)
    PROVE  /\ \A a \in DOMAIN h.hdr : VerifyHeader(h, a)
           /\ VerifyChain(h)
<1>1. /\ HeapIsTyped(h) /\ BlocksTile(h) /\ FreeIsListed(h, F)
  BY DEF HeapStage
<1>2. /\ DOMAIN h.hdr \subseteq Nat /\ NULL \notin DOMAIN h.hdr
      /\ \A a \in DOMAIN h.hdr : a \in Nat /\ h.hdr[a].size \in Nat /\ h.hdr[a].alloc \in {0, 1}
  BY <1>1, BlocksAreAddresses
<1>3. ASSUME NEW a \in DOMAIN h.hdr PROVE VerifyHeader(h, a)
  <2>1. h.hdr[a].next # NULL => h.hdr[a].next \in Nat /\ h.hdr[a].next > a
    BY <1>1, <1>2, SizesAreNumbers DEF BlocksTile, EndOf
  <2>2. h.hdr[a].prev # NULL => h.hdr[a].prev \in Nat /\ a > h.hdr[a].prev
    <3> SUFFICES ASSUME h.hdr[a].prev # NULL
                 PROVE  h.hdr[a].prev \in Nat /\ a > h.hdr[a].prev
      OBVIOUS
    <3> DEFINE b == h.hdr[a].prev
    <3>1. b \in DOMAIN h.hdr /\ h.hdr[b].next = a
      BY <1>1 DEF BlocksTile
    <3>2. a = b + HdrSize + h.hdr[b].size
      BY <1>1, <1>2, <3>1 DEF BlocksTile, EndOf
    <3> HIDE DEF b
    <3>3. b \in Nat /\ h.hdr[b].size \in Nat
      BY <1>2, <3>1
    <3>4. b \in Nat /\ a > b
      BY <3>2, <3>3, SizesAreNumbers
    <3> QED
      BY <3>4 DEF b
  <2>3. h.hdr[a].prev_free # NULL => h.hdr[a].prev_free # h.hdr[a].next_free
    <3>1. CASE a \in F
      <4>1. IsList(h.hdr, F, h.first_free, "next_free", "prev_free") /\ NULL \notin F
        BY <1>1, <1>2 DEF FreeIsListed, FreeBlocks
      <4>2. h.hdr[a]["next_free"] # NULL => h.hdr[a]["next_free"] # h.hdr[a]["prev_free"]
        BY <3>1, <4>1, ListHasOrder
      <4> QED
        BY <4>2
    <3>2. CASE a \notin F
      BY <1>1, <3>2 DEF FreeIsListed
    <3> QED
      BY <3>1, <3>2
  <2>4. h.hdr[a].alloc <= 1
    BY <1>2
  <2>5. ~(h.hdr[a].prev # NULL /\ h.hdr[a].prev = h.hdr[a].next)
    BY <1>2, <2>1, <2>2
  <2> QED
    BY <2>3, <2>4, <2>5 DEF VerifyHeader
<1>4. VerifyChain(h)
  <2> DEFINE at == Walk(h, h.first, "next")
  <2>1. WalkFinds(h, at, DOMAIN h.hdr, "prev")
    BY <1>1, ListsAreWalked
  <2> HIDE DEF at
  <2>2. h.first # NULL /\ h.hdr[h.first].prev = NULL
    BY <1>1, <1>2 DEF BlocksTile
  <2>3. \A k \in DOMAIN at :
           at[k] # NULL => VerifyHeader(h, at[k]) /\ (k > 0 => h.hdr[at[k]].prev = at[k - 1])
    BY <1>3, <2>1, BlocksAreNumbers DEF WalkFinds
  <2> QED
    BY <2>2, <2>3 DEF VerifyChain, at
<1> QED
  BY <1>3, <1>4

LEMMA HeapInvImplies ==
    ASSUME BufLen >= HdrSize + Align, HeapInv(heap)
    PROVE  HeapIsExact
<1> DEFINE F == FreeBlocks(heap)
           D == DOMAIN heap.hdr
<1>1. /\ HeapIsTyped(heap) /\ BlocksTile(heap) /\ FreeIsListed(heap, F)
      /\ BlocksAreCounted(heap) /\ FreeAreApart(heap, {})
  BY DEF HeapInv, HeapStage
<1>2. NULL \notin D /\ \A a \in D : heap.hdr[a].alloc \in {0, 1}
  BY <1>1, BlocksAreAddresses
<1>3. VerifyChain(heap)
  BY HeapIsVerified DEF HeapInv
<1>4. BufferIsTiled
  <2> DEFINE at == Walk(heap, heap.first, "next")
  <2>1. WalkFinds(heap, at, D, "prev")
    BY <1>1, ListsAreWalked
  <2> HIDE DEF at
  <2>2. Ends(at) /\ Blocks(at) = D
    BY <2>1 DEF WalkFinds
  <2>3. \A a \in D :
           /\ a + HdrSize + heap.hdr[a].size
                = IF heap.hdr[a].next = NULL THEN BufLen ELSE heap.hdr[a].next
           /\ ~(IsFree(heap, a) /\ IsFree(heap, heap.hdr[a].next))
    BY <1>1 DEF BlocksTile, EndOf, FreeAreApart, IsFree
  <2> QED
    BY <2>2, <2>3 DEF BufferIsTiled, at
<1>5. FreeListIsExact
  <2> DEFINE at == Walk(heap, heap.first_free, "next_free")
  <2>1. WalkFinds(heap, at, F, "prev_free")
    BY <1>1, ListsAreWalked
  <2> HIDE DEF at
  <2> DEFINE used == {a \in D : heap.hdr[a].alloc = 1}
  <2>2. F = D \ used
    BY <1>2 DEF FreeBlocks
  <2>3. Ends(at) /\ Blocks(at) = D \ used
    BY <2>1, <2>2 DEF WalkFinds
  <2>4. \A k \in DOMAIN at :
           at[k] # NULL => heap.hdr[at[k]].prev_free = IF k = 0 THEN NULL ELSE at[k - 1]
    BY <2>1 DEF WalkFinds
  <2>5. heap.total_used = MapThenSumSet(LAMBDA a : heap.hdr[a].size, used)
    BY <1>1, Zenon DEF BlocksAreCounted, SizeSum, UsedBlocks
  <2>6. heap.header_count = Cardinality(D) - 1 /\ ~heap.exited
    BY <1>1 DEF BlocksAreCounted
  <2> HIDE DEF D
  <2> QED
    BY <1>3, <2>3, <2>4, <2>5, <2>6 DEF FreeListIsExact, at, D
<1>6. ~(BufLen < HdrSize + Align)
  BY SizesAreNumbers
<1> QED
  BY <1>4, <1>5, <1>6 DEF HeapIsExact

-----------------------------------------------------------------------------
(* Release, step by step.                                                  *)

\* The fields of a heap, and what happens to them when one is set.
HeapIs(h, first, ff, hdr, total, count, exited) ==
    h = [first |-> first, first_free |-> ff, hdr |-> hdr, total_used |-> total,
         header_count |-> count, exited |-> exited]

LEMMA HdrIsSet ==
    ASSUME NEW h, NEW f, NEW ff, NEW d, NEW t, NEW c, NEW x, HeapIs(h, f, ff, d, t, c, x), NEW v
    PROVE  HeapIs([h EXCEPT !.hdr = v], f, ff, v, t, c, x)
BY DEF HeapIs

LEMMA FirstFreeIsSet ==
    ASSUME NEW h, NEW f, NEW ff, NEW d, NEW t, NEW c, NEW x, HeapIs(h, f, ff, d, t, c, x), NEW v
    PROVE  HeapIs([h EXCEPT !.first_free = v], f, v, d, t, c, x)
BY DEF HeapIs

LEMMA TotalIsSet ==
    ASSUME NEW h, NEW f, NEW ff, NEW d, NEW t, NEW c, NEW x, HeapIs(h, f, ff, d, t, c, x), NEW v
    PROVE  HeapIs([h EXCEPT !.total_used = v], f, ff, d, v, c, x)
BY DEF HeapIs

LEMMA CountIsSet ==
    ASSUME NEW h, NEW f, NEW ff, NEW d, NEW t, NEW c, NEW x, HeapIs(h, f, ff, d, t, c, x), NEW v
    PROVE  HeapIs([h EXCEPT !.header_count = v], f, ff, d, t, v, x)
BY DEF HeapIs

LEMMA HeapFields ==
    ASSUME NEW h, NEW f, NEW ff, NEW d, NEW t, NEW c, NEW x, HeapIs(h, f, ff, d, t, c, x)
    PROVE  /\ h.first = f /\ h.first_free = ff /\ h.hdr = d /\ h.total_used = t
           /\ h.header_count = c /\ h.exited = x
BY DEF HeapIs

LEMMA TypedHeapIs ==
    ASSUME NEW h, HeapIsTyped(h)
    PROVE  HeapIs(h, h.first, h.first_free, h.hdr, h.total_used, h.header_count, h.exited)
BY Zenon DEF HeapIs, HeapIsTyped

\* The block is not in use any more, but not yet in the free list.
Marked(h, p) == [h EXCEPT !.hdr[p].alloc = 0, !.total_used = @ - h.hdr[p].size]

\* The sizes of the blocks in use stay.
RoomStays(h, g) == \A a \in UsedBlocks(g) : a \in UsedBlocks(h) /\ g.hdr[a].size = h.hdr[a].size

LEMMA MarkDoes ==
    ASSUME NEW h, HeapIsTyped(h), NEW p \in UsedBlocks(h)
    PROVE  LET g == Marked(h, p)
           IN  /\ g = [first |-> h.first, first_free |-> h.first_free, hdr |-> g.hdr,
                       total_used |-> h.total_used - h.hdr[p].size,
                       header_count |-> h.header_count, exited |-> h.exited]
               /\ g.hdr \in [DOMAIN h.hdr -> Headers]
               /\ \A a \in DOMAIN h.hdr :
                    /\ g.hdr[a].size = h.hdr[a].size
                    /\ g.hdr[a].alloc = IF a = p THEN 0 ELSE h.hdr[a].alloc
                    /\ g.hdr[a].prev = h.hdr[a].prev /\ g.hdr[a].next = h.hdr[a].next
                    /\ g.hdr[a].prev_free = h.hdr[a].prev_free
                    /\ g.hdr[a].next_free = h.hdr[a].next_free
<1>1. h.hdr[p] \in Headers /\ p \in DOMAIN h.hdr
  BY DEF HeapIsTyped, UsedBlocks
<1>2. Marked(h, p).hdr = [h.hdr EXCEPT ![p] = [h.hdr[p] EXCEPT !.alloc = 0]]
  BY <1>1 DEF Marked, HeapIsTyped
<1>3. [h.hdr[p] EXCEPT !.alloc = 0] \in Headers
  BY <1>1 DEF Headers
<1>4. Marked(h, p).hdr \in [DOMAIN h.hdr -> Headers]
  BY <1>1, <1>2, <1>3 DEF HeapIsTyped
<1>5. \A a \in DOMAIN h.hdr :
           Marked(h, p).hdr[a] = IF a = p THEN [h.hdr[p] EXCEPT !.alloc = 0] ELSE h.hdr[a]
  BY <1>1, <1>2
<1>6. \A a \in DOMAIN h.hdr : h.hdr[a] \in Headers
  BY DEF HeapIsTyped
<1>7. ASSUME NEW a \in DOMAIN h.hdr
      PROVE  LET b == Marked(h, p).hdr[a]
             IN  /\ b.size = h.hdr[a].size
                 /\ b.alloc = IF a = p THEN 0 ELSE h.hdr[a].alloc
                 /\ b.prev = h.hdr[a].prev /\ b.next = h.hdr[a].next
                 /\ b.prev_free = h.hdr[a].prev_free
                 /\ b.next_free = h.hdr[a].next_free
  BY <1>5, <1>6 DEF Headers
<1>8. Marked(h, p) = [first |-> h.first, first_free |-> h.first_free, hdr |-> Marked(h, p).hdr,
                      total_used |-> h.total_used - h.hdr[p].size,
                      header_count |-> h.header_count, exited |-> h.exited]
  <2> DEFINE hdr1 == [h.hdr EXCEPT ![p] = [h.hdr[p] EXCEPT !.alloc = 0]]
             g1 == [h EXCEPT !.hdr = hdr1]
             t1 == h.total_used - h.hdr[p].size
             g2 == [g1 EXCEPT !.total_used = t1]
  <2>1. HeapIs(h, h.first, h.first_free, h.hdr, h.total_used, h.header_count, h.exited)
    BY TypedHeapIs
  <2>2. Marked(h, p) = g2
    BY DEF Marked, HeapIsTyped
  <2> HIDE DEF hdr1, t1
  <2>3. HeapIs(g1, h.first, h.first_free, hdr1, h.total_used, h.header_count, h.exited)
    BY <2>1, HdrIsSet
  <2> HIDE DEF g1
  <2>4. HeapIs(g2, h.first, h.first_free, hdr1, t1, h.header_count, h.exited)
    BY <2>3, TotalIsSet, Zenon
  <2> QED
    BY <2>2, <2>4 DEF HeapIs, t1
<1> QED
  BY <1>4, <1>7, <1>8

LEMMA BlocksAreUsedOrFree ==
    ASSUME NEW h, HeapIsTyped(h)
    PROVE  /\ UsedBlocks(h) = DOMAIN h.hdr \ FreeBlocks(h)
           /\ FreeBlocks(h) = DOMAIN h.hdr \ UsedBlocks(h)
           /\ IsFiniteSet(UsedBlocks(h))
<1>1. \A a \in DOMAIN h.hdr : h.hdr[a].alloc \in {0, 1}
  BY BlocksAreAddresses
<1>2. IsFiniteSet(DOMAIN h.hdr)
  BY BlocksAreAddresses
<1> QED
  BY <1>1, <1>2, FS_Subset DEF UsedBlocks, FreeBlocks

LEMMA MarkKeeps ==
    ASSUME NEW h, HeapInv(h), NEW p \in UsedBlocks(h)
    PROVE  LET g == Marked(h, p)
           IN  /\ HeapStage(g, FreeBlocks(g) \ {p}, {p, h.hdr[p].prev})
               /\ p \in FreeBlocks(g) /\ g.hdr[p].prev = h.hdr[p].prev
               /\ UsedBlocks(g) = UsedBlocks(h) \ {p} /\ RoomStays(h, g)
<1> DEFINE g == Marked(h, p)
           D == DOMAIN h.hdr
           F == FreeBlocks(h)
           U == UsedBlocks(h)
<1>1. /\ HeapIsTyped(h) /\ BlocksTile(h) /\ FreeIsListed(h, F)
      /\ BlocksAreCounted(h) /\ FreeAreApart(h, {})
  BY DEF HeapInv, HeapStage
<1>2. /\ g = [first |-> h.first, first_free |-> h.first_free, hdr |-> g.hdr,
              total_used |-> h.total_used - h.hdr[p].size,
              header_count |-> h.header_count, exited |-> h.exited]
      /\ g.hdr \in [D -> Headers]
      /\ \A a \in D :
           /\ g.hdr[a].size = h.hdr[a].size
           /\ g.hdr[a].alloc = IF a = p THEN 0 ELSE h.hdr[a].alloc
           /\ g.hdr[a].prev = h.hdr[a].prev /\ g.hdr[a].next = h.hdr[a].next
           /\ g.hdr[a].prev_free = h.hdr[a].prev_free
           /\ g.hdr[a].next_free = h.hdr[a].next_free
  BY <1>1, MarkDoes
<1> HIDE DEF g
<1>3. p \in D /\ p \in U /\ U \subseteq D
  BY DEF UsedBlocks
<1>4. DOMAIN g.hdr = D
  BY <1>2
<1>5. /\ g.first = h.first /\ g.first_free = h.first_free
      /\ g.total_used = h.total_used - h.hdr[p].size
      /\ g.header_count = h.header_count /\ g.exited = h.exited
  BY <1>2
<1>6. /\ g = [first |-> g.first, first_free |-> g.first_free, hdr |-> g.hdr,
              total_used |-> g.total_used, header_count |-> g.header_count, exited |-> g.exited]
  BY <1>2, <1>5
<1>7. HeapIsTyped(g)
  BY <1>1, <1>2, <1>4, <1>6 DEF HeapIsTyped
<1>8. UsedBlocks(g) = U \ {p} /\ FreeBlocks(g) = F \cup {p}
  BY <1>2, <1>3, <1>4 DEF UsedBlocks, FreeBlocks
<1>9. F = FreeBlocks(g) \ {p} /\ F \subseteq D /\ p \notin F
  BY <1>3, <1>8 DEF UsedBlocks, FreeBlocks
<1>10. \A a \in D : EndOf(g, a) = EndOf(h, a)
  BY <1>2 DEF EndOf
<1>11. BlocksTile(g)
  BY <1>1, <1>2, <1>4, <1>5, <1>10 DEF BlocksTile
<1>12. FreeIsListed(g, F)
  <2>1. IsList(h.hdr, F, h.first_free, "next_free", "prev_free")
    BY <1>1 DEF FreeIsListed
  <2>2. \A a \in F : /\ g.hdr[a]["next_free"] = h.hdr[a]["next_free"]
                     /\ g.hdr[a]["prev_free"] = h.hdr[a]["prev_free"]
    BY <1>2, <1>9
  <2>3. IsList(g.hdr, F, g.first_free, "next_free", "prev_free")
    BY <1>5, <2>1, <2>2, ListIsLinks
  <2>4. F \subseteq FreeBlocks(g)
    BY <1>8
  <2> QED
    BY <1>1, <1>2, <1>4, <2>3, <2>4 DEF FreeIsListed
<1>13. FreeAreApart(g, {p, h.hdr[p].prev})
  <2> SUFFICES ASSUME NEW a \in D, a # p, a # h.hdr[p].prev, h.hdr[a].alloc = 0,
                      h.hdr[a].next # NULL, g.hdr[h.hdr[a].next].alloc = 0
               PROVE  FALSE
    BY <1>2, <1>4 DEF FreeAreApart
  <2>1. h.hdr[a].next \in D /\ h.hdr[h.hdr[a].next].prev = a
    BY <1>1 DEF BlocksTile
  <2>2. h.hdr[a].next # p
    BY <2>1
  <2>3. h.hdr[h.hdr[a].next].alloc = 0
    BY <1>2, <2>1, <2>2
  <2> QED
    BY <1>1, <2>3 DEF FreeAreApart
<1>14. BlocksAreCounted(g)
  <2>1. IsFiniteSet(U) /\ IsFiniteSet(U \ {p})
    BY <1>1, BlocksAreUsedOrFree, FS_Subset
  <2>2. \A a \in U : h.hdr[a].size \in Nat
    BY <1>1, <1>3, BlocksAreAddresses
  <2>3. SizeSum(h.hdr, U) = h.hdr[p].size + SizeSum(h.hdr, U \ {p})
    BY <1>3, <2>1, <2>2, SizeSumRemove DEF Sized
  <2>4. SizeSum(h.hdr, U \ {p}) \in Nat
    BY <2>1, <2>2, SizeSumType DEF Sized
  <2>5. \A a \in U \ {p} : h.hdr[a].size = g.hdr[a].size
    BY <1>2, <1>3
  <2>6. SizeSum(h.hdr, U \ {p}) = SizeSum(g.hdr, U \ {p})
    BY <2>1, <2>5, SizeSumSame
  <2>7. g.total_used = SizeSum(g.hdr, U \ {p})
    <3>1. h.total_used = SizeSum(h.hdr, U) /\ h.hdr[p].size \in Nat
      BY <1>1, <1>3, <2>2 DEF BlocksAreCounted
    <3> QED
      BY <1>5, <2>3, <2>4, <2>6, <3>1
  <2> QED
    BY <1>1, <1>4, <1>5, <1>8, <2>7 DEF BlocksAreCounted
<1>15. RoomStays(h, g)
  BY <1>2, <1>3, <1>8 DEF RoomStays
<1>16. HeapStage(g, FreeBlocks(g) \ {p}, {p, h.hdr[p].prev})
  BY <1>7, <1>9, <1>11, <1>12, <1>13, <1>14 DEF HeapStage
<1>17. p \in FreeBlocks(g) /\ g.hdr[p].prev = h.hdr[p].prev
  BY <1>2, <1>3, <1>8
<1> QED
  BY <1>8, <1>15, <1>16, <1>17 DEF g

\* What merging the block at p into the one before it does.
MergedBefore(h, p, into, g) ==
    /\ HeapIs(g, h.first, h.first_free, g.hdr, h.total_used, h.header_count - 1, h.exited)
    /\ g.hdr \in [DOMAIN h.hdr \ {p} -> Headers]
    /\ \A a \in DOMAIN h.hdr \ {p} :
         /\ g.hdr[a].size = IF a = into THEN h.hdr[into].size + HdrSize + h.hdr[p].size
                            ELSE h.hdr[a].size
         /\ g.hdr[a].alloc = h.hdr[a].alloc
         /\ g.hdr[a].prev = IF a = h.hdr[p].next THEN into ELSE h.hdr[a].prev
         /\ g.hdr[a].next = IF a = into THEN h.hdr[p].next ELSE h.hdr[a].next
         /\ g.hdr[a].prev_free = h.hdr[a].prev_free
         /\ g.hdr[a].next_free = h.hdr[a].next_free

LEMMA MergeBeforeDoes ==
    ASSUME NEW h, HeapIsTyped(h), NEW p \in DOMAIN h.hdr, NEW into \in DOMAIN h.hdr,
           h.hdr[p].prev = into, into # p,
           h.hdr[p].next # NULL => h.hdr[p].next \in DOMAIN h.hdr
    PROVE  MergedBefore(h, p, into, MergeBefore(h, p))
<1> DEFINE D == DOMAIN h.hdr
           b == h.hdr[p]
           wide == [h.hdr[into] EXCEPT !.size = @ + HdrSize + b.size, !.next = b.next]
           wider == [h.hdr EXCEPT ![into] = wide]
           linked == Store(wider, b.next, "prev", into)
           cut == [a \in DOMAIN linked \ {p} |-> linked[a]]
           g == MergeBefore(h, p)
<1>1. \A a \in D : h.hdr[a] \in Headers
  BY DEF HeapIsTyped
<1>2. \A a \in D : a \in Nat /\ h.hdr[a].size \in Nat /\ a \in Pointers
  BY BlocksAreAddresses DEF HeapIsTyped, Pointers
<1>3. NULL \notin D
  BY BlocksAreAddresses
<1>4. wide \in Headers /\ /\ wide.size = h.hdr[into].size + HdrSize + b.size
                          /\ wide.alloc = h.hdr[into].alloc
                          /\ wide.prev = h.hdr[into].prev /\ wide.next = b.next
                          /\ wide.prev_free = h.hdr[into].prev_free
                          /\ wide.next_free = h.hdr[into].next_free
  <2> DEFINE x == h.hdr[into]
             n == x.size + HdrSize + b.size
             y == [x EXCEPT !.size = n]
             z == [y EXCEPT !.next = b.next]
  <2>1. x \in Headers /\ n \in Nat /\ b.next \in Pointers
    BY <1>1, <1>2, SizesAreNumbers DEF Headers
  <2>2. wide = z
    BY DEF wide
  <2> HIDE DEF x, n
  <2>3. /\ y \in Headers /\ y.size = n /\ y.alloc = x.alloc /\ y.prev = x.prev
        /\ y.next = x.next /\ y.prev_free = x.prev_free /\ y.next_free = x.next_free
    BY <2>1 DEF Headers
  <2> HIDE DEF y
  <2>4. /\ z \in Headers /\ z.size = y.size /\ z.alloc = y.alloc /\ z.prev = y.prev
        /\ z.next = b.next /\ z.prev_free = y.prev_free /\ z.next_free = y.next_free
    BY <2>1, <2>3 DEF Headers
  <2> HIDE DEF z
  <2> QED
    BY <2>2, <2>3, <2>4 DEF n, x
<1> HIDE DEF wide
<1>5. wider \in [D -> Headers] /\ \A a \in D : wider[a] = IF a = into THEN wide ELSE h.hdr[a]
  BY <1>4 DEF HeapIsTyped
<1> HIDE DEF wider
<1>6. /\ linked \in [D -> Headers]
      /\ \A a \in D : /\ linked[a].size = wider[a].size /\ linked[a].alloc = wider[a].alloc
                      /\ linked[a].next = wider[a].next
                      /\ linked[a].prev_free = wider[a].prev_free
                      /\ linked[a].next_free = wider[a].next_free
                      /\ linked[a].prev = IF a = b.next THEN into ELSE wider[a].prev
  BY <1>2, <1>3, <1>5 DEF Store, Headers
<1>7. g = [h EXCEPT !.hdr = cut, !.header_count = @ - 1]
  <2>1. wider = [h.hdr EXCEPT ![into].size = @ + HdrSize + b.size, ![into].next = b.next]
    BY DEF wider, wide, HeapIsTyped
  <2> QED
    BY <2>1, Zenon DEF MergeBefore
<1> HIDE DEF linked
<1>8. cut \in [D \ {p} -> Headers] /\ \A a \in D \ {p} : cut[a] = linked[a]
  BY <1>6
<1> HIDE DEF cut
<1>9. HeapIs(g, h.first, h.first_free, cut, h.total_used, h.header_count - 1, h.exited)
  <2> DEFINE g1 == [h EXCEPT !.hdr = cut]
             g2 == [g1 EXCEPT !.header_count = h.header_count - 1]
  <2>1. g = g2
    BY <1>7 DEF HeapIsTyped
  <2>2. HeapIs(h, h.first, h.first_free, h.hdr, h.total_used, h.header_count, h.exited)
    BY TypedHeapIs
  <2>3. HeapIs(g1, h.first, h.first_free, cut, h.total_used, h.header_count, h.exited)
    BY <2>2, HdrIsSet, Zenon
  <2> HIDE DEF g1
  <2>4. HeapIs(g2, h.first, h.first_free, cut, h.total_used, h.header_count - 1, h.exited)
    BY <2>3, CountIsSet, Zenon
  <2> QED
    BY <2>1, <2>4, Zenon
<1>10. g.hdr = cut
  BY <1>9 DEF HeapIs
<1> HIDE DEF g
<1>11. ASSUME NEW a \in D \ {p}
       PROVE  /\ g.hdr[a].size = IF a = into THEN h.hdr[into].size + HdrSize + h.hdr[p].size
                                 ELSE h.hdr[a].size
              /\ g.hdr[a].alloc = h.hdr[a].alloc
              /\ g.hdr[a].prev = IF a = h.hdr[p].next THEN into ELSE h.hdr[a].prev
              /\ g.hdr[a].next = IF a = into THEN h.hdr[p].next ELSE h.hdr[a].next
              /\ g.hdr[a].prev_free = h.hdr[a].prev_free
              /\ g.hdr[a].next_free = h.hdr[a].next_free
  BY <1>4, <1>5, <1>6, <1>8, <1>10
<1> QED
  <2>1. MergedBefore(h, p, into, g)
    BY <1>8, <1>9, <1>10, <1>11, Zenon DEF MergedBefore
  <2> QED
    BY <2>1 DEF g

\* What is left of a stage once a block is gone.
LEMMA BlockIsGone ==
    ASSUME NEW D, IsFiniteSet(D), NEW p \in D
    PROVE  /\ IsFiniteSet(D \ {p}) /\ Cardinality(D \ {p}) = Cardinality(D) - 1
           /\ Cardinality(D) \in Nat
BY FS_RemoveElement, FS_CardinalityType

\* The block at p, behind the one at into, has become part of it.
Fused(h, p, into, g) ==
    /\ g.first = h.first /\ g.total_used = h.total_used
    /\ g.header_count = h.header_count - 1 /\ g.exited = h.exited
    /\ DOMAIN g.hdr = DOMAIN h.hdr \ {p}
    /\ \A a \in DOMAIN h.hdr \ {p} :
         /\ g.hdr[a].size = IF a = into THEN h.hdr[into].size + HdrSize + h.hdr[p].size
                            ELSE h.hdr[a].size
         /\ g.hdr[a].alloc = h.hdr[a].alloc
         /\ g.hdr[a].prev = IF a = h.hdr[p].next THEN into ELSE h.hdr[a].prev
         /\ g.hdr[a].next = IF a = into THEN h.hdr[p].next ELSE h.hdr[a].next

LEMMA FusedKeeps ==
    ASSUME NEW h, HeapIsTyped(h), BlocksTile(h), BlocksAreCounted(h),
           NEW p \in FreeBlocks(h), IsFree(h, h.hdr[p].prev), NEW g, Fused(h, p, h.hdr[p].prev, g)
    PROVE  LET into == h.hdr[p].prev
           IN  /\ BlocksTile(g) /\ BlocksAreCounted(g)
               /\ FreeAreApart(h, {p, into}) => FreeAreApart(g, {into})
               /\ FreeAreApart(h, {into}) => FreeAreApart(g, {})
               /\ into \in FreeBlocks(g) /\ FreeBlocks(g) = FreeBlocks(h) \ {p}
               /\ UsedBlocks(g) = UsedBlocks(h) /\ RoomStays(h, g)
<1> DEFINE into == h.hdr[p].prev
           D == DOMAIN h.hdr
           F == FreeBlocks(h) \ {p}
           U == UsedBlocks(h)
           E == D \ {p}
           after == h.hdr[p].next
<1>1. /\ HeapIsTyped(h) /\ BlocksTile(h) /\ BlocksAreCounted(h)
  OBVIOUS
<1>2. /\ p \in D /\ h.hdr[p].alloc = 0 /\ D \subseteq Nat /\ NULL \notin D /\ IsFiniteSet(D)
      /\ \A a \in D : a \in Nat /\ h.hdr[a].size \in Nat /\ h.hdr[a].alloc \in {0, 1}
  BY <1>1, BlocksAreAddresses DEF FreeBlocks
<1>3. into \in D /\ h.hdr[into].alloc = 0 /\ h.hdr[into].next = p
  BY <1>1, <1>2 DEF BlocksTile, IsFree
<1>4. EndOf(h, into) = p /\ into < p
  BY <1>1, <1>2, <1>3, SizesAreNumbers DEF BlocksTile, EndOf
<1>5. after # NULL => after \in D /\ h.hdr[after].prev = p /\ p < after
  BY <1>1, <1>2, SizesAreNumbers DEF BlocksTile, EndOf
<1>6. into # p /\ into # after /\ p # after
  BY <1>2, <1>3, <1>4, <1>5
<1>7. \A a \in E :
           /\ g.hdr[a].size = IF a = into THEN h.hdr[into].size + HdrSize + h.hdr[p].size
                              ELSE h.hdr[a].size
           /\ g.hdr[a].alloc = h.hdr[a].alloc
           /\ g.hdr[a].prev = IF a = after THEN into ELSE h.hdr[a].prev
           /\ g.hdr[a].next = IF a = into THEN after ELSE h.hdr[a].next
  BY DEF Fused
<1>8. /\ DOMAIN g.hdr = E /\ E \subseteq D /\ p \notin E /\ into \in E
      /\ \A a \in D : a # p => a \in E
  BY <1>3, <1>6 DEF Fused
<1>9. /\ g.first = h.first /\ g.total_used = h.total_used
      /\ g.header_count = h.header_count - 1 /\ g.exited = h.exited
  BY DEF Fused
<1>10. FreeAreApart(h, {into}) => after = NULL \/ h.hdr[after].alloc # 0
  BY <1>2, <1>3, <1>6 DEF FreeAreApart
<1> HIDE DEF into, after
<1>11. UsedBlocks(g) = U /\ FreeBlocks(g) = F
  <2>1. U \subseteq E
    BY <1>2, <1>8 DEF UsedBlocks
  <2> QED
    BY <1>2, <1>7, <1>8, <2>1 DEF UsedBlocks, FreeBlocks
<1>12. EndOf(g, into) = EndOf(h, p) /\ \A a \in E : a # into => EndOf(g, a) = EndOf(h, a)
  <2>1. g.hdr[into].size = h.hdr[into].size + HdrSize + h.hdr[p].size
    BY <1>7, <1>8
  <2>2. p = into + HdrSize + h.hdr[into].size
    BY <1>4 DEF EndOf
  <2>3. EndOf(g, into) = EndOf(h, p)
    BY <1>2, <1>3, <2>1, <2>2, SizesAreNumbers DEF EndOf
  <2> QED
    BY <1>7, <2>3 DEF EndOf
<1>13. BlocksTile(g)
  <2>1. g.first = 0 /\ 0 \in DOMAIN g.hdr /\ g.hdr[0].prev = NULL
    <3>1. 0 # p /\ 0 \in E
      BY <1>1, <1>2, <1>3, <1>4, <1>8 DEF BlocksTile
    <3>2. 0 # after
      BY <1>1, <1>2, <1>5 DEF BlocksTile
    <3> QED
      BY <1>1, <1>7, <1>8, <1>9, <3>1, <3>2 DEF BlocksTile
  <2>2. ASSUME NEW a \in E
        PROVE  g.hdr[a].next # NULL => g.hdr[a].next \in E /\ g.hdr[g.hdr[a].next].prev = a
    <3>1. CASE a = into
      BY <1>5, <1>6, <1>7, <1>8, <3>1
    <3>2. CASE a # into
      <4>1. g.hdr[a].next = h.hdr[a].next
        BY <1>7, <3>2
      <4>2. ASSUME h.hdr[a].next # NULL
            PROVE  h.hdr[a].next \in D /\ h.hdr[h.hdr[a].next].prev = a
        BY <1>1, <1>8, <4>2 DEF BlocksTile
      <4>3. h.hdr[p].prev = into /\ (after # NULL => h.hdr[after].prev = p)
        BY <1>5 DEF into
      <4>4. h.hdr[a].next # NULL => h.hdr[a].next # p /\ h.hdr[a].next # after
        BY <1>8, <3>2, <4>2, <4>3
      <4> QED
        BY <1>7, <1>8, <4>1, <4>2, <4>4
    <3> QED
      BY <3>1, <3>2
  <2>3. ASSUME NEW a \in E
        PROVE  /\ g.hdr[a].prev = NULL => a = 0
               /\ g.hdr[a].prev # NULL => g.hdr[a].prev \in E /\ g.hdr[g.hdr[a].prev].next = a
    <3>1. CASE a = after
      BY <1>2, <1>3, <1>7, <1>8, <3>1
    <3>2. CASE a # after
      <4>1. g.hdr[a].prev = h.hdr[a].prev
        BY <1>7, <3>2
      <4>2. h.hdr[a].prev # NULL => h.hdr[a].prev \in D /\ h.hdr[h.hdr[a].prev].next = a
        BY <1>1, <1>8 DEF BlocksTile
      <4>3. h.hdr[p].next = after
        BY DEF after
      <4>4. h.hdr[a].prev # p /\ (h.hdr[a].prev # NULL => h.hdr[a].prev # into)
        BY <1>2, <1>3, <1>8, <3>2, <4>2, <4>3
      <4> QED
        BY <1>1, <1>7, <1>8, <4>1, <4>2, <4>4 DEF BlocksTile
    <3> QED
      BY <3>1, <3>2
  <2>4. ASSUME NEW a \in E
        PROVE  EndOf(g, a) = IF g.hdr[a].next = NULL THEN BufLen ELSE g.hdr[a].next
    <3>1. EndOf(h, p) = IF after = NULL THEN BufLen ELSE after
      BY <1>1, <1>2 DEF BlocksTile, after
    <3>2. EndOf(h, a) = IF h.hdr[a].next = NULL THEN BufLen ELSE h.hdr[a].next
      BY <1>1, <1>8 DEF BlocksTile
    <3> QED
      BY <1>7, <1>12, <3>1, <3>2
  <2>5. ASSUME NEW a \in E, NEW b \in E, a < b PROVE EndOf(g, a) <= b
    <3>1. CASE a = into
      <4>1. p <= b
        BY <1>1, <1>3, <1>4, <1>8, <2>5, <3>1 DEF BlocksTile
      <4>2. p < b
        BY <1>2, <1>8, <4>1
      <4>3. EndOf(h, p) <= b
        BY <1>1, <1>2, <1>8, <4>2 DEF BlocksTile
      <4> QED
        BY <1>12, <3>1, <4>3
    <3>2. CASE a # into
      BY <1>1, <1>8, <1>12, <2>5, <3>2 DEF BlocksTile
    <3> QED
      BY <3>1, <3>2
  <2> QED
    BY <1>8, <2>1, <2>2, <2>3, <2>4, <2>5 DEF BlocksTile
<1>15. ASSUME FreeAreApart(h, {p, into})
       PROVE  FreeAreApart(g, {into})
  <2> SUFFICES ASSUME NEW a \in E, a # into, g.hdr[a].alloc = 0, g.hdr[a].next # NULL,
                      g.hdr[g.hdr[a].next].alloc = 0
               PROVE  FALSE
    BY <1>8 DEF FreeAreApart
  <2>1. h.hdr[a].alloc = 0 /\ g.hdr[a].next = h.hdr[a].next /\ g.hdr[a].next \in E
    BY <1>7, <1>8, <1>13 DEF BlocksTile
  <2>2. h.hdr[h.hdr[a].next].alloc = 0
    BY <1>7, <2>1
  <2> QED
    BY <1>8, <1>15, <2>1, <2>2 DEF FreeAreApart
<1>18. ASSUME FreeAreApart(h, {into})
       PROVE  FreeAreApart(g, {})
  <2> SUFFICES ASSUME NEW a \in E, g.hdr[a].alloc = 0, g.hdr[a].next # NULL,
                      g.hdr[g.hdr[a].next].alloc = 0
               PROVE  FALSE
    BY <1>8 DEF FreeAreApart
  <2>1. g.hdr[a].next \in E /\ h.hdr[g.hdr[a].next].alloc = 0 /\ h.hdr[a].alloc = 0
    BY <1>7, <1>8, <1>13 DEF BlocksTile
  <2>2. CASE a = into
    BY <1>7, <1>8, <1>10, <1>18, <2>1, <2>2
  <2>3. CASE a # into
    <3>1. g.hdr[a].next = h.hdr[a].next
      BY <1>7, <2>3
    <3> QED
      BY <1>8, <1>18, <2>1, <2>3, <3>1 DEF FreeAreApart
  <2> QED
    BY <2>2, <2>3
<1>16. BlocksAreCounted(g)
  <2>1. IsFiniteSet(U)
    BY <1>1, BlocksAreUsedOrFree
  <2>2. \A a \in U : h.hdr[a].size = g.hdr[a].size
    BY <1>2, <1>3, <1>7, <1>8 DEF UsedBlocks
  <2>3. SizeSum(h.hdr, U) = SizeSum(g.hdr, U)
    BY <2>1, <2>2, SizeSumSame
  <2>4. Cardinality(E) = Cardinality(D) - 1 /\ Cardinality(D) \in Nat
    BY <1>2, BlockIsGone
  <2> QED
    BY <1>1, <1>8, <1>9, <1>11, <2>3, <2>4 DEF BlocksAreCounted
<1>17. RoomStays(h, g)
  BY <1>2, <1>3, <1>7, <1>8, <1>11 DEF RoomStays, UsedBlocks
<1>19. into \in FreeBlocks(g)
  BY <1>3, <1>7, <1>8 DEF FreeBlocks
<1> QED
  BY <1>11, <1>13, <1>15, <1>16, <1>17, <1>18, <1>19 DEF into

LEMMA MergeBeforeKeeps ==
    ASSUME NEW h, NEW p \in FreeBlocks(h),
           HeapStage(h, FreeBlocks(h) \ {p}, {p, h.hdr[p].prev}), IsFree(h, h.hdr[p].prev)
    PROVE  LET g == MergeBefore(h, p)
               into == h.hdr[p].prev
           IN  /\ HeapStage(g, FreeBlocks(g), {into})
               /\ into \in FreeBlocks(g)
               /\ UsedBlocks(g) = UsedBlocks(h) /\ RoomStays(h, g)
<1> DEFINE g == MergeBefore(h, p)
           into == h.hdr[p].prev
           D == DOMAIN h.hdr
           F == FreeBlocks(h) \ {p}
           U == UsedBlocks(h)
           E == D \ {p}
           after == h.hdr[p].next
<1>1. /\ HeapIsTyped(h) /\ BlocksTile(h) /\ FreeIsListed(h, F)
      /\ BlocksAreCounted(h) /\ FreeAreApart(h, {p, into})
  BY DEF HeapStage
<1>2. /\ p \in D /\ h.hdr[p].alloc = 0 /\ D \subseteq Nat /\ NULL \notin D /\ IsFiniteSet(D)
      /\ \A a \in D : a \in Nat /\ h.hdr[a].size \in Nat /\ h.hdr[a].alloc \in {0, 1}
  BY <1>1, BlocksAreAddresses DEF FreeBlocks
<1>3. into \in D /\ h.hdr[into].alloc = 0 /\ h.hdr[into].next = p
  BY <1>1, <1>2 DEF BlocksTile, IsFree
<1>4. EndOf(h, into) = p /\ into < p
  BY <1>1, <1>2, <1>3, SizesAreNumbers DEF BlocksTile, EndOf
<1>5. after # NULL => after \in D /\ h.hdr[after].prev = p /\ p < after
  BY <1>1, <1>2, SizesAreNumbers DEF BlocksTile, EndOf
<1>6. into # p /\ into # after /\ p # after
  BY <1>2, <1>3, <1>4, <1>5
<1>7. /\ HeapIs(g, h.first, h.first_free, g.hdr, h.total_used, h.header_count - 1, h.exited)
      /\ g.hdr \in [E -> Headers]
      /\ \A a \in E :
           /\ g.hdr[a].size = IF a = into THEN h.hdr[into].size + HdrSize + h.hdr[p].size
                              ELSE h.hdr[a].size
           /\ g.hdr[a].alloc = h.hdr[a].alloc
           /\ g.hdr[a].prev = IF a = after THEN into ELSE h.hdr[a].prev
           /\ g.hdr[a].next = IF a = into THEN after ELSE h.hdr[a].next
           /\ g.hdr[a].prev_free = h.hdr[a].prev_free
           /\ g.hdr[a].next_free = h.hdr[a].next_free
  <2> HIDE DEF after
  <2>1. h.hdr[p].next # NULL => h.hdr[p].next \in D
    BY <1>5 DEF after
  <2> HIDE DEF into
  <2>2. h.hdr[p].prev = into
    BY DEF into
  <2>3. MergedBefore(h, p, into, MergeBefore(h, p))
    BY <1>1, <1>2, <1>3, <1>6, <2>1, <2>2, MergeBeforeDoes
  <2> QED
    BY <2>3 DEF MergedBefore, after
<1> HIDE DEF g
<1>8. /\ DOMAIN g.hdr = E /\ E \subseteq D /\ p \notin E /\ into \in E
      /\ \A a \in D : a # p => a \in E
  BY <1>3, <1>6, <1>7
<1>9. /\ g.first = h.first /\ g.first_free = h.first_free /\ g.total_used = h.total_used
      /\ g.header_count = h.header_count - 1 /\ g.exited = h.exited
  BY <1>7, HeapFields
<1>10. HeapIsTyped(g)
  <2>1. g = [first |-> g.first, first_free |-> g.first_free, hdr |-> g.hdr,
             total_used |-> g.total_used, header_count |-> g.header_count, exited |-> g.exited]
    BY <1>7, <1>9 DEF HeapIs
  <2>2. DOMAIN g.hdr \subseteq Addresses
    BY <1>1, <1>8 DEF HeapIsTyped
  <2> QED
    BY <1>7, <1>8, <2>1, <2>2 DEF HeapIsTyped
<1>11. Fused(h, p, into, g)
  BY <1>7, <1>8, <1>9 DEF Fused
<1>12. /\ BlocksTile(g) /\ BlocksAreCounted(g) /\ FreeAreApart(g, {into})
       /\ into \in FreeBlocks(g) /\ FreeBlocks(g) = F
       /\ UsedBlocks(g) = U /\ RoomStays(h, g)
  BY <1>1, <1>11, FusedKeeps
<1> HIDE DEF into, after
<1>13. FreeIsListed(g, F)
  <2>1. F \subseteq E
    BY <1>8 DEF FreeBlocks
  <2>2. IsList(h.hdr, F, h.first_free, "next_free", "prev_free")
    BY <1>1 DEF FreeIsListed
  <2>3. \A a \in F : /\ g.hdr[a]["next_free"] = h.hdr[a]["next_free"]
                     /\ g.hdr[a]["prev_free"] = h.hdr[a]["prev_free"]
    BY <1>7, <2>1
  <2>4. IsList(g.hdr, F, g.first_free, "next_free", "prev_free")
    BY <1>9, <2>2, <2>3, ListIsLinks
  <2>5. \A a \in E \ F : g.hdr[a].prev_free = NULL /\ g.hdr[a].next_free = NULL
    BY <1>1, <1>7, <1>8 DEF FreeIsListed
  <2> QED
    BY <1>8, <1>12, <2>4, <2>5 DEF FreeIsListed
<1>14. HeapStage(g, FreeBlocks(g), {into})
  BY <1>10, <1>12, <1>13 DEF HeapStage
<1> QED
  BY <1>12, <1>14 DEF g, into

\* Setting a field of the header at p.
LEMMA SizeIsSet ==
    ASSUME NEW h, NEW f, NEW ff, NEW d, NEW t, NEW c, NEW x, HeapIs(h, f, ff, d, t, c, x),
           NEW p, NEW v
    PROVE  HeapIs([h EXCEPT !.hdr[p].size = v], f, ff,
                  [d EXCEPT ![p] = [d[p] EXCEPT !.size = v]], t, c, x)
<1>1. h.hdr = d
  BY HeapFields
<1>2. [h EXCEPT !.hdr[p].size = v]
        = [h EXCEPT !.hdr = [h.hdr EXCEPT ![p] = [h.hdr[p] EXCEPT !.size = v]]]
  BY DEF HeapIs
<1>3. HeapIs([h EXCEPT !.hdr = [d EXCEPT ![p] = [d[p] EXCEPT !.size = v]]], f, ff,
             [d EXCEPT ![p] = [d[p] EXCEPT !.size = v]], t, c, x)
  BY HdrIsSet, Zenon
<1> QED
  BY <1>1, <1>2, <1>3

LEMMA NextIsSet ==
    ASSUME NEW h, NEW f, NEW ff, NEW d, NEW t, NEW c, NEW x, HeapIs(h, f, ff, d, t, c, x),
           NEW p, NEW v
    PROVE  HeapIs([h EXCEPT !.hdr[p].next = v], f, ff,
                  [d EXCEPT ![p] = [d[p] EXCEPT !.next = v]], t, c, x)
<1>1. h.hdr = d
  BY HeapFields
<1>2. [h EXCEPT !.hdr[p].next = v]
        = [h EXCEPT !.hdr = [h.hdr EXCEPT ![p] = [h.hdr[p] EXCEPT !.next = v]]]
  BY DEF HeapIs
<1>3. HeapIs([h EXCEPT !.hdr = [d EXCEPT ![p] = [d[p] EXCEPT !.next = v]]], f, ff,
             [d EXCEPT ![p] = [d[p] EXCEPT !.next = v]], t, c, x)
  BY HdrIsSet, Zenon
<1> QED
  BY <1>1, <1>2, <1>3

LEMMA PrevFreeIsSet ==
    ASSUME NEW h, NEW f, NEW ff, NEW d, NEW t, NEW c, NEW x, HeapIs(h, f, ff, d, t, c, x),
           NEW p, NEW v
    PROVE  HeapIs([h EXCEPT !.hdr[p].prev_free = v], f, ff,
                  [d EXCEPT ![p] = [d[p] EXCEPT !.prev_free = v]], t, c, x)
<1>1. h.hdr = d
  BY HeapFields
<1>2. [h EXCEPT !.hdr[p].prev_free = v]
        = [h EXCEPT !.hdr = [h.hdr EXCEPT ![p] = [h.hdr[p] EXCEPT !.prev_free = v]]]
  BY DEF HeapIs
<1>3. HeapIs([h EXCEPT !.hdr = [d EXCEPT ![p] = [d[p] EXCEPT !.prev_free = v]]], f, ff,
             [d EXCEPT ![p] = [d[p] EXCEPT !.prev_free = v]], t, c, x)
  BY HdrIsSet, Zenon
<1> QED
  BY <1>1, <1>2, <1>3

LEMMA NextFreeIsSet ==
    ASSUME NEW h, NEW f, NEW ff, NEW d, NEW t, NEW c, NEW x, HeapIs(h, f, ff, d, t, c, x),
           NEW p, NEW v
    PROVE  HeapIs([h EXCEPT !.hdr[p].next_free = v], f, ff,
                  [d EXCEPT ![p] = [d[p] EXCEPT !.next_free = v]], t, c, x)
<1>1. h.hdr = d
  BY HeapFields
<1>2. [h EXCEPT !.hdr[p].next_free = v]
        = [h EXCEPT !.hdr = [h.hdr EXCEPT ![p] = [h.hdr[p] EXCEPT !.next_free = v]]]
  BY DEF HeapIs
<1>3. HeapIs([h EXCEPT !.hdr = [d EXCEPT ![p] = [d[p] EXCEPT !.next_free = v]]], f, ff,
             [d EXCEPT ![p] = [d[p] EXCEPT !.next_free = v]], t, c, x)
  BY HdrIsSet, Zenon
<1> QED
  BY <1>1, <1>2, <1>3

LEMMA AllocIsSet ==
    ASSUME NEW h, NEW f, NEW ff, NEW d, NEW t, NEW c, NEW x, HeapIs(h, f, ff, d, t, c, x),
           NEW p, NEW v
    PROVE  HeapIs([h EXCEPT !.hdr[p].alloc = v], f, ff,
                  [d EXCEPT ![p] = [d[p] EXCEPT !.alloc = v]], t, c, x)
<1>1. h.hdr = d
  BY HeapFields
<1>2. [h EXCEPT !.hdr[p].alloc = v]
        = [h EXCEPT !.hdr = [h.hdr EXCEPT ![p] = [h.hdr[p] EXCEPT !.alloc = v]]]
  BY DEF HeapIs
<1>3. HeapIs([h EXCEPT !.hdr = [d EXCEPT ![p] = [d[p] EXCEPT !.alloc = v]]], f, ff,
             [d EXCEPT ![p] = [d[p] EXCEPT !.alloc = v]], t, c, x)
  BY HdrIsSet, Zenon
<1> QED
  BY <1>1, <1>2, <1>3

\* What taking the block at p out of the free list does.
Unlinked(h, p, g) ==
    /\ HeapIs(g, h.first,
              IF h.hdr[p].prev_free = NULL THEN h.hdr[p].next_free ELSE h.first_free,
              g.hdr, h.total_used, h.header_count, h.exited)
    /\ g.hdr \in [DOMAIN h.hdr -> Headers]
    /\ \A a \in DOMAIN h.hdr :
         /\ g.hdr[a].size = h.hdr[a].size /\ g.hdr[a].alloc = h.hdr[a].alloc
         /\ g.hdr[a].prev = h.hdr[a].prev /\ g.hdr[a].next = h.hdr[a].next
         /\ g.hdr[a].next_free = IF a = h.hdr[p].prev_free THEN h.hdr[p].next_free
                                 ELSE h.hdr[a].next_free
         /\ g.hdr[a].prev_free = IF a = h.hdr[p].next_free THEN h.hdr[p].prev_free
                                 ELSE h.hdr[a].prev_free

\* Storing a link at q, where there may be no block.
NextFreeIs(D, hdr, q, v, new) ==
    /\ new \in [D -> Headers]
    /\ \A a \in D : /\ new[a].size = hdr[a].size /\ new[a].alloc = hdr[a].alloc
                    /\ new[a].prev = hdr[a].prev /\ new[a].next = hdr[a].next
                    /\ new[a].prev_free = hdr[a].prev_free
                    /\ new[a].next_free = IF a = q THEN v ELSE hdr[a].next_free

PrevFreeIs(D, hdr, q, v, new) ==
    /\ new \in [D -> Headers]
    /\ \A a \in D : /\ new[a].size = hdr[a].size /\ new[a].alloc = hdr[a].alloc
                    /\ new[a].prev = hdr[a].prev /\ new[a].next = hdr[a].next
                    /\ new[a].prev_free = IF a = q THEN v ELSE hdr[a].prev_free
                    /\ new[a].next_free = hdr[a].next_free

PrevIs(D, hdr, q, v, new) ==
    /\ new \in [D -> Headers]
    /\ \A a \in D : /\ new[a].size = hdr[a].size /\ new[a].alloc = hdr[a].alloc
                    /\ new[a].prev = IF a = q THEN v ELSE hdr[a].prev
                    /\ new[a].next = hdr[a].next
                    /\ new[a].prev_free = hdr[a].prev_free
                    /\ new[a].next_free = hdr[a].next_free

LEMMA LinkIsStored ==
    ASSUME NEW D, NEW hdr \in [D -> Headers], NULL \notin D, NEW q \in D \cup {NULL},
           NEW v \in Pointers
    PROVE  /\ NextFreeIs(D, hdr, q, v, Store(hdr, q, "next_free", v))
           /\ PrevFreeIs(D, hdr, q, v, Store(hdr, q, "prev_free", v))
           /\ PrevIs(D, hdr, q, v, Store(hdr, q, "prev", v))
BY DEF NextFreeIs, PrevFreeIs, PrevIs, Store, Headers

LEMMA UnlinkDoes ==
    ASSUME NEW h, HeapIsTyped(h), NEW p \in DOMAIN h.hdr,
           h.hdr[p].prev_free \in DOMAIN h.hdr \cup {NULL},
           h.hdr[p].next_free \in DOMAIN h.hdr \cup {NULL}
    PROVE  Unlinked(h, p, UnlinkFree(h, p))
<1> DEFINE D == DOMAIN h.hdr
           b == h.hdr[p]
           hdr1 == Store(h.hdr, b.prev_free, "next_free", b.next_free)
           hdr2 == Store(hdr1, b.next_free, "prev_free", b.prev_free)
           first == IF b.prev_free = NULL THEN b.next_free ELSE h.first_free
           g1 == [h EXCEPT !.hdr = hdr2]
           g2 == [g1 EXCEPT !.first_free = first]
<1>1. NULL \notin D /\ h.hdr \in [D -> Headers]
  BY BlocksAreAddresses DEF HeapIsTyped
<1>2. b.prev_free \in Pointers /\ b.next_free \in Pointers
  BY <1>1 DEF Headers
<1>3. UnlinkFree(h, p) = g2
  BY DEF UnlinkFree, HeapIsTyped
<1>4. NextFreeIs(D, h.hdr, b.prev_free, b.next_free, hdr1)
  BY <1>1, <1>2, LinkIsStored
<1> HIDE DEF hdr1
<1>5. PrevFreeIs(D, hdr1, b.next_free, b.prev_free, hdr2)
  BY <1>1, <1>2, <1>4, LinkIsStored DEF NextFreeIs
<1> HIDE DEF hdr2, first
<1>6. HeapIs(h, h.first, h.first_free, h.hdr, h.total_used, h.header_count, h.exited)
  BY TypedHeapIs
<1>7. HeapIs(g1, h.first, h.first_free, hdr2, h.total_used, h.header_count, h.exited)
  BY <1>6, HdrIsSet, Zenon
<1> HIDE DEF g1
<1>8. HeapIs(g2, h.first, first, hdr2, h.total_used, h.header_count, h.exited)
  BY <1>7, FirstFreeIsSet, Zenon
<1> HIDE DEF g2
<1>9. g2.hdr = hdr2
  BY <1>8, HeapFields
<1>10. Unlinked(h, p, g2)
  BY <1>4, <1>5, <1>8, <1>9 DEF Unlinked, NextFreeIs, PrevFreeIs, first
<1> QED
  BY <1>3, <1>10

\* What linking the neighbours in the free list to the block at p does.
Relinked(h, p, g) ==
    /\ HeapIs(g, h.first, IF h.hdr[p].prev_free = NULL THEN p ELSE h.first_free,
              g.hdr, h.total_used, h.header_count, h.exited)
    /\ g.hdr \in [DOMAIN h.hdr -> Headers]
    /\ \A a \in DOMAIN h.hdr :
         /\ g.hdr[a].size = h.hdr[a].size /\ g.hdr[a].alloc = h.hdr[a].alloc
         /\ g.hdr[a].prev = h.hdr[a].prev /\ g.hdr[a].next = h.hdr[a].next
         /\ g.hdr[a].next_free = IF a = h.hdr[p].prev_free THEN p ELSE h.hdr[a].next_free
         /\ g.hdr[a].prev_free = IF a = h.hdr[p].next_free THEN p ELSE h.hdr[a].prev_free

LEMMA RelinkDoes ==
    ASSUME NEW h, HeapIsTyped(h), NEW p \in DOMAIN h.hdr,
           h.hdr[p].prev_free \in DOMAIN h.hdr \cup {NULL},
           h.hdr[p].next_free \in DOMAIN h.hdr \cup {NULL}
    PROVE  Relinked(h, p, RelinkFree(h, p))
<1> DEFINE D == DOMAIN h.hdr
           b == h.hdr[p]
           hdr1 == Store(h.hdr, b.prev_free, "next_free", p)
           hdr2 == Store(hdr1, b.next_free, "prev_free", p)
           first == IF b.prev_free = NULL THEN p ELSE h.first_free
           g1 == [h EXCEPT !.hdr = hdr2]
           g2 == [g1 EXCEPT !.first_free = first]
<1>1. NULL \notin D /\ h.hdr \in [D -> Headers]
  BY BlocksAreAddresses DEF HeapIsTyped
<1>2. p \in Pointers
  BY DEF Pointers, HeapIsTyped
<1>3. RelinkFree(h, p) = g2
  BY DEF RelinkFree, HeapIsTyped
<1>4. NextFreeIs(D, h.hdr, b.prev_free, p, hdr1)
  BY <1>1, <1>2, LinkIsStored
<1> HIDE DEF hdr1
<1>5. PrevFreeIs(D, hdr1, b.next_free, p, hdr2)
  BY <1>1, <1>2, <1>4, LinkIsStored DEF NextFreeIs
<1> HIDE DEF hdr2, first
<1>6. HeapIs(h, h.first, h.first_free, h.hdr, h.total_used, h.header_count, h.exited)
  BY TypedHeapIs
<1>7. HeapIs(g1, h.first, h.first_free, hdr2, h.total_used, h.header_count, h.exited)
  BY <1>6, HdrIsSet, Zenon
<1> HIDE DEF g1
<1>8. HeapIs(g2, h.first, first, hdr2, h.total_used, h.header_count, h.exited)
  BY <1>7, FirstFreeIsSet, Zenon
<1> HIDE DEF g2
<1>9. g2.hdr = hdr2
  BY <1>8, HeapFields
<1>10. Relinked(h, p, g2)
  BY <1>4, <1>5, <1>8, <1>9 DEF Relinked, NextFreeIs, PrevFreeIs, first
<1> QED
  BY <1>3, <1>10

LEMMA HeapIsIsTyped ==
    ASSUME NEW g, NEW f, NEW ff, NEW t, NEW c, NEW x, NEW hdr, HeapIs(g, f, ff, hdr, t, c, x),
           NEW D, hdr \in [D -> Headers], D \subseteq Addresses
    PROVE  HeapIsTyped(g) /\ DOMAIN g.hdr = D /\ g.hdr = hdr
<1>1. /\ g.first = f /\ g.first_free = ff /\ g.hdr = hdr /\ g.total_used = t
      /\ g.header_count = c /\ g.exited = x
  BY HeapFields
<1>2. g = [first |-> g.first, first_free |-> g.first_free, hdr |-> g.hdr,
           total_used |-> g.total_used, header_count |-> g.header_count, exited |-> g.exited]
  BY <1>1 DEF HeapIs
<1> QED
  BY <1>1, <1>2 DEF HeapIsTyped

\* The end of MergeAfter(): the block at p takes over the one at old.
Grown(h, p, size, b) ==
    [h EXCEPT !.hdr[p].size = @ + HdrSize + size,
              !.hdr[p].next = b.next,
              !.hdr[p].prev_free = b.prev_free,
              !.hdr[p].next_free = b.next_free,
              !.header_count = @ - 1]

LEMMA GrownDoes ==
    ASSUME NEW h, HeapIsTyped(h), NEW p \in DOMAIN h.hdr, NEW size \in Nat, NEW b \in Headers
    PROVE  \E hdr1 \in [DOMAIN h.hdr -> Headers] :
             /\ HeapIs(Grown(h, p, size, b), h.first, h.first_free, hdr1, h.total_used,
                       h.header_count - 1, h.exited)
             /\ \A a \in DOMAIN h.hdr : a # p => hdr1[a] = h.hdr[a]
             /\ hdr1[p].size = h.hdr[p].size + HdrSize + size
             /\ hdr1[p].alloc = h.hdr[p].alloc /\ hdr1[p].prev = h.hdr[p].prev
             /\ hdr1[p].next = b.next
             /\ hdr1[p].prev_free = b.prev_free /\ hdr1[p].next_free = b.next_free
<1> DEFINE D == DOMAIN h.hdr
           n == h.hdr[p].size + HdrSize + size
           d1 == [h.hdr EXCEPT ![p] = [h.hdr[p] EXCEPT !.size = n]]
           d2 == [d1 EXCEPT ![p] = [d1[p] EXCEPT !.next = b.next]]
           d3 == [d2 EXCEPT ![p] = [d2[p] EXCEPT !.prev_free = b.prev_free]]
           d4 == [d3 EXCEPT ![p] = [d3[p] EXCEPT !.next_free = b.next_free]]
           g1 == [h EXCEPT !.hdr[p].size = n]
           g2 == [g1 EXCEPT !.hdr[p].next = b.next]
           g3 == [g2 EXCEPT !.hdr[p].prev_free = b.prev_free]
           g4 == [g3 EXCEPT !.hdr[p].next_free = b.next_free]
           g5 == [g4 EXCEPT !.header_count = h.header_count - 1]
           c == h.header_count
           H(g, d, k) == HeapIs(g, h.first, h.first_free, d, h.total_used, k, h.exited)
<1>1. H(h, h.hdr, c)
  BY TypedHeapIs
<1>2. h.hdr \in [D -> Headers] /\ h.hdr[p] \in Headers /\ n \in Nat
  BY SizesAreNumbers DEF HeapIsTyped, Headers
<1>3. Grown(h, p, size, b)
        = [[[[[h EXCEPT !.hdr[p].size = @ + HdrSize + size]
                 EXCEPT !.hdr[p].next = b.next]
                 EXCEPT !.hdr[p].prev_free = b.prev_free]
                 EXCEPT !.hdr[p].next_free = b.next_free]
                 EXCEPT !.header_count = @ - 1]
  BY DEF Grown
<1>4. [h EXCEPT !.hdr[p].size = @ + HdrSize + size] = g1
  OBVIOUS
<1>5. H(g1, d1, c)
  BY <1>1, SizeIsSet, Zenon
<1>6. Grown(h, p, size, b)
        = [[[[g1 EXCEPT !.hdr[p].next = b.next]
                 EXCEPT !.hdr[p].prev_free = b.prev_free]
                 EXCEPT !.hdr[p].next_free = b.next_free]
                 EXCEPT !.header_count = @ - 1]
  BY <1>3, <1>4
<1>7. d1 \in [D -> Headers] /\ (\A a \in D : a # p => d1[a] = h.hdr[a])
      /\ d1[p].size = n /\ d1[p].alloc = h.hdr[p].alloc /\ d1[p].prev = h.hdr[p].prev
  BY <1>2 DEF Headers
<1> HIDE DEF g1, d1
<1>8. H(g2, d2, c)
  BY <1>5, NextIsSet, Zenon
<1>9. d2 \in [D -> Headers] /\ (\A a \in D : a # p => d2[a] = h.hdr[a])
      /\ d2[p].size = n /\ d2[p].alloc = h.hdr[p].alloc /\ d2[p].prev = h.hdr[p].prev
      /\ d2[p].next = b.next
  BY <1>7 DEF Headers
<1> HIDE DEF g2, d2
<1>10. H(g3, d3, c)
  BY <1>8, PrevFreeIsSet, Zenon
<1>11. d3 \in [D -> Headers] /\ (\A a \in D : a # p => d3[a] = h.hdr[a])
      /\ d3[p].size = n /\ d3[p].alloc = h.hdr[p].alloc /\ d3[p].prev = h.hdr[p].prev
      /\ d3[p].next = b.next /\ d3[p].prev_free = b.prev_free
  BY <1>9 DEF Headers
<1> HIDE DEF g3, d3
<1>12. H(g4, d4, c)
  BY <1>10, NextFreeIsSet, Zenon
<1>13. d4 \in [D -> Headers] /\ (\A a \in D : a # p => d4[a] = h.hdr[a])
      /\ d4[p].size = n /\ d4[p].alloc = h.hdr[p].alloc /\ d4[p].prev = h.hdr[p].prev
      /\ d4[p].next = b.next /\ d4[p].prev_free = b.prev_free /\ d4[p].next_free = b.next_free
  BY <1>11 DEF Headers
<1>14. Grown(h, p, size, b) = [g4 EXCEPT !.header_count = @ - 1]
  BY <1>6 DEF g2, g3
<1> HIDE DEF g4, d4
<1>15. g4.header_count = c
  BY <1>12, HeapFields
<1>16. Grown(h, p, size, b) = g5
  BY <1>14, <1>15
<1>17. H(g5, d4, c - 1)
  BY <1>12, CountIsSet, Zenon
<1> HIDE DEF g5
<1> QED
  BY <1>13, <1>16, <1>17

Swallow(out, p, old) ==
    LET b == out.hdr[old]
        relinked == RelinkFree(Grown(out, p, b.size, b), p)
        linked == Store(relinked.hdr, b.next, "prev", p)
    IN  [relinked EXCEPT !.hdr = [a \in DOMAIN linked \ {old} |-> linked[a]]]

Swallowed(h, p, old, g) ==
    /\ HeapIs(g, h.first, IF h.hdr[old].prev_free = NULL THEN p ELSE h.first_free,
              g.hdr, h.total_used, h.header_count - 1, h.exited)
    /\ g.hdr \in [DOMAIN h.hdr \ {old} -> Headers]
    /\ \A a \in DOMAIN h.hdr \ {old} :
         /\ g.hdr[a].size = IF a = p THEN h.hdr[p].size + HdrSize + h.hdr[old].size
                            ELSE h.hdr[a].size
         /\ g.hdr[a].alloc = h.hdr[a].alloc
         /\ g.hdr[a].next = IF a = p THEN h.hdr[old].next ELSE h.hdr[a].next
         /\ g.hdr[a].prev = IF a = h.hdr[old].next THEN p ELSE h.hdr[a].prev
         /\ g.hdr[a].next_free = IF a = h.hdr[old].prev_free THEN p
                                 ELSE IF a = p THEN h.hdr[old].next_free ELSE h.hdr[a].next_free
         /\ g.hdr[a].prev_free = IF a = h.hdr[old].next_free THEN p
                                 ELSE IF a = p THEN h.hdr[old].prev_free ELSE h.hdr[a].prev_free

LEMMA SwallowDoes ==
    ASSUME NEW h, HeapIsTyped(h), NEW p \in DOMAIN h.hdr, NEW old \in DOMAIN h.hdr, old # p,
           h.hdr[old].prev_free \in DOMAIN h.hdr \cup {NULL},
           h.hdr[old].next_free \in DOMAIN h.hdr \cup {NULL},
           h.hdr[old].next \in DOMAIN h.hdr \cup {NULL}
    PROVE  Swallowed(h, p, old, Swallow(h, p, old))
<1> DEFINE D == DOMAIN h.hdr
           b == h.hdr[old]
           x == h.hdr[p]
           n == x.size + HdrSize + b.size
           g2 == Grown(h, p, b.size, b)
           g3 == RelinkFree(g2, p)
           hdr4 == Store(g3.hdr, b.next, "prev", p)
           hdr5 == [a \in DOMAIN hdr4 \ {old} |-> hdr4[a]]
           g5 == [g3 EXCEPT !.hdr = hdr5]
<1>1. NULL \notin D /\ h.hdr \in [D -> Headers] /\ D \subseteq Addresses
  BY BlocksAreAddresses DEF HeapIsTyped
<1>2. b \in Headers /\ p \in Pointers
  BY <1>1 DEF Pointers
<1>3. b.size \in Nat /\ b.next \in Pointers /\ b.prev_free \in Pointers /\ b.next_free \in Pointers
  BY <1>2 DEF Headers
<1>4. Swallow(h, p, old) = g5
  BY DEF Swallow
<1>5. PICK hdr1 \in [D -> Headers] :
        /\ HeapIs(g2, h.first, h.first_free, hdr1, h.total_used, h.header_count - 1, h.exited)
        /\ \A a \in D : a # p => hdr1[a] = h.hdr[a]
        /\ hdr1[p].size = n
        /\ hdr1[p].alloc = x.alloc /\ hdr1[p].prev = x.prev
        /\ hdr1[p].next = b.next
        /\ hdr1[p].prev_free = b.prev_free /\ hdr1[p].next_free = b.next_free
  BY <1>2, <1>3, GrownDoes, ZenonT(40)
<1> HIDE DEF g2
<1>9. HeapIs(g2, h.first, h.first_free, hdr1, h.total_used, h.header_count - 1, h.exited)
  BY <1>5
<1>10. HeapIsTyped(g2) /\ DOMAIN g2.hdr = D /\ g2.hdr = hdr1
  BY <1>1, <1>9, HeapIsIsTyped
<1>11. /\ g2.first = h.first /\ g2.first_free = h.first_free /\ g2.total_used = h.total_used
       /\ g2.header_count = h.header_count - 1 /\ g2.exited = h.exited
  BY <1>9, HeapFields
<1>12. g2.hdr[p].prev_free = b.prev_free /\ g2.hdr[p].next_free = b.next_free
  BY <1>5, <1>10
<1>13. Relinked(g2, p, g3)
  BY <1>10, <1>12, RelinkDoes
<1> HIDE DEF g3
<1>14. /\ HeapIs(g3, h.first, IF b.prev_free = NULL THEN p ELSE h.first_free,
                 g3.hdr, h.total_used, h.header_count - 1, h.exited)
       /\ g3.hdr \in [D -> Headers]
       /\ \A a \in D :
            /\ g3.hdr[a].size = hdr1[a].size /\ g3.hdr[a].alloc = hdr1[a].alloc
            /\ g3.hdr[a].prev = hdr1[a].prev /\ g3.hdr[a].next = hdr1[a].next
            /\ g3.hdr[a].next_free = IF a = b.prev_free THEN p ELSE hdr1[a].next_free
            /\ g3.hdr[a].prev_free = IF a = b.next_free THEN p ELSE hdr1[a].prev_free
  BY <1>10, <1>11, <1>12, <1>13 DEF Relinked
<1>15. PrevIs(D, g3.hdr, b.next, p, hdr4)
  BY <1>1, <1>2, <1>14, LinkIsStored
<1> HIDE DEF hdr4
<1>16. /\ hdr5 \in [D \ {old} -> Headers]
       /\ \A a \in D \ {old} : hdr5[a] = hdr4[a]
  BY <1>15 DEF PrevIs
<1> HIDE DEF hdr5
<1>17. HeapIs(g5, h.first, IF b.prev_free = NULL THEN p ELSE h.first_free,
              hdr5, h.total_used, h.header_count - 1, h.exited)
  BY <1>14, HdrIsSet, Zenon
<1> HIDE DEF g5
<1>18. g5.hdr = hdr5
  BY <1>17, HeapFields
<1>19. ASSUME NEW a \in D \ {old}
       PROVE  /\ g5.hdr[a].size = IF a = p THEN h.hdr[p].size + HdrSize + h.hdr[old].size
                                  ELSE h.hdr[a].size
              /\ g5.hdr[a].alloc = h.hdr[a].alloc
              /\ g5.hdr[a].next = IF a = p THEN h.hdr[old].next ELSE h.hdr[a].next
              /\ g5.hdr[a].prev = IF a = h.hdr[old].next THEN p ELSE h.hdr[a].prev
              /\ g5.hdr[a].next_free = IF a = h.hdr[old].prev_free THEN p
                                       ELSE IF a = p THEN h.hdr[old].next_free
                                       ELSE h.hdr[a].next_free
              /\ g5.hdr[a].prev_free = IF a = h.hdr[old].next_free THEN p
                                       ELSE IF a = p THEN h.hdr[old].prev_free
                                       ELSE h.hdr[a].prev_free
  BY <1>5, <1>14, <1>15, <1>16, <1>18 DEF PrevIs
<1>20. Swallowed(h, p, old, g5)
  BY <1>16, <1>17, <1>18, <1>19, Zenon DEF Swallowed
<1> QED
  BY <1>4, <1>20

\* The block at p is not in the free list, whether it was or not.
Unlisted(h, p, out) ==
    /\ HeapIs(out, h.first, out.first_free, out.hdr, h.total_used, h.header_count, h.exited)
    /\ out.hdr \in [DOMAIN h.hdr -> Headers]
    /\ \A a \in DOMAIN h.hdr :
         /\ out.hdr[a].size = h.hdr[a].size /\ out.hdr[a].alloc = h.hdr[a].alloc
         /\ out.hdr[a].prev = h.hdr[a].prev /\ out.hdr[a].next = h.hdr[a].next
    /\ IsList(out.hdr, FreeBlocks(h) \ {p}, out.first_free, "next_free", "prev_free")
    /\ \A a \in DOMAIN h.hdr \ FreeBlocks(h) :
           out.hdr[a].prev_free = NULL /\ out.hdr[a].next_free = NULL

LEMMA UnlinkUnlists ==
    ASSUME NEW h, HeapIsTyped(h), NEW p \in FreeBlocks(h), FreeIsListed(h, FreeBlocks(h))
    PROVE  Unlisted(h, p, UnlinkFree(h, p))
<1> DEFINE D == DOMAIN h.hdr
           F == FreeBlocks(h)
           g == UnlinkFree(h, p)
<1>1. /\ IsList(h.hdr, F, h.first_free, "next_free", "prev_free")
      /\ \A a \in D \ F : h.hdr[a].prev_free = NULL /\ h.hdr[a].next_free = NULL
  BY DEF FreeIsListed
<1>2. p \in D /\ p \in F /\ F \subseteq D /\ NULL \notin D
  BY BlocksAreAddresses DEF FreeBlocks
<1>3. /\ h.hdr[p]["prev_free"] # NULL => h.hdr[p]["prev_free"] \in F
      /\ h.hdr[p]["next_free"] # NULL => h.hdr[p]["next_free"] \in F
  BY <1>1, <1>2 DEF IsList
<1>4. Unlinked(h, p, g)
  BY <1>2, <1>3, UnlinkDoes
<1> HIDE DEF g
<1>5. /\ HeapIs(g, h.first,
                IF h.hdr[p].prev_free = NULL THEN h.hdr[p].next_free ELSE h.first_free,
                g.hdr, h.total_used, h.header_count, h.exited)
      /\ g.hdr \in [D -> Headers]
      /\ \A a \in D :
           /\ g.hdr[a].size = h.hdr[a].size /\ g.hdr[a].alloc = h.hdr[a].alloc
           /\ g.hdr[a].prev = h.hdr[a].prev /\ g.hdr[a].next = h.hdr[a].next
           /\ g.hdr[a].next_free = IF a = h.hdr[p].prev_free THEN h.hdr[p].next_free
                                   ELSE h.hdr[a].next_free
           /\ g.hdr[a].prev_free = IF a = h.hdr[p].next_free THEN h.hdr[p].prev_free
                                   ELSE h.hdr[a].prev_free
  BY <1>4 DEF Unlinked
<1>6. g.first_free = IF h.hdr[p].prev_free = NULL THEN h.hdr[p].next_free ELSE h.first_free
  BY <1>5, HeapFields
<1>7. HeapIs(g, h.first, g.first_free, g.hdr, h.total_used, h.header_count, h.exited)
  BY <1>5, <1>6
<1>8. IsList(g.hdr, F \ {p}, g.first_free, "next_free", "prev_free")
  <2> DEFINE x == h.hdr
             y == g.hdr
             first == h.first_free
  <2>1. \A a \in F \ {p} :
          /\ y[a]["next_free"] = IF a = x[p]["prev_free"] THEN x[p]["next_free"] ELSE x[a]["next_free"]
          /\ y[a]["prev_free"] = IF a = x[p]["next_free"] THEN x[p]["prev_free"] ELSE x[a]["prev_free"]
    BY <1>2, <1>5
  <2>2. IsList(x, F, first, "next_free", "prev_free")
    BY <1>1
  <2>3. g.first_free = IF x[p]["prev_free"] = NULL THEN x[p]["next_free"] ELSE first
    BY <1>6
  <2> HIDE DEF x, y, first, F
  <2>4. IsList(y, F \ {p}, IF x[p]["prev_free"] = NULL THEN x[p]["next_free"] ELSE first,
               "next_free", "prev_free")
    BY <1>2, <2>1, <2>2, ListWithout
  <2> QED
    BY <2>3, <2>4 DEF y
<1>9. \A a \in D \ F : g.hdr[a].prev_free = NULL /\ g.hdr[a].next_free = NULL
  BY <1>1, <1>2, <1>3, <1>5
<1> QED
  BY <1>5, <1>7, <1>8, <1>9 DEF Unlisted, g

LEMMA NotListedIsUnlisted ==
    ASSUME NEW h, HeapIsTyped(h), NEW p \in FreeBlocks(h), FreeIsListed(h, FreeBlocks(h) \ {p})
    PROVE  Unlisted(h, p, h) /\ h.hdr[p].prev_free = NULL /\ h.hdr[p].next_free = NULL
<1>1. HeapIs(h, h.first, h.first_free, h.hdr, h.total_used, h.header_count, h.exited)
  BY TypedHeapIs
<1>2. h.hdr \in [DOMAIN h.hdr -> Headers]
  BY DEF HeapIsTyped
<1> QED
  BY <1>1, <1>2 DEF Unlisted, FreeIsListed, FreeBlocks

LEMMA MergeAfterSwallows ==
    ASSUME NEW h, HeapIsTyped(h), NEW p \in FreeBlocks(h), NEW F \in {FreeBlocks(h), FreeBlocks(h) \ {p}},
           FreeIsListed(h, F), NEW old \in FreeBlocks(h), old # p, h.hdr[p].next = old
    PROVE  \E out : Unlisted(h, p, out) /\ MergeAfter(h, p) = Swallow(out, p, old)
<1> DEFINE listed == h.hdr[p].prev_free # NULL \/ h.hdr[p].next_free # NULL
           out == IF listed THEN UnlinkFree(h, p) ELSE h
<1>1. NULL \notin FreeBlocks(h)
  BY BlocksAreAddresses DEF FreeBlocks
<1>2. Unlisted(h, p, out)
  <2>1. CASE F = FreeBlocks(h)
    <3>1. listed
      <4> SUFFICES ASSUME ~listed PROVE FALSE
        OBVIOUS
      <4>1. h.hdr[p]["prev_free"] = NULL /\ h.hdr[p]["next_free"] = NULL
        OBVIOUS
      <4>2. IsList(h.hdr, F, h.first_free, "next_free", "prev_free")
        BY DEF FreeIsListed
      <4> DEFINE hdr == h.hdr
      <4> HIDE DEF hdr, listed
      <4>3. old = p
        BY <1>1, <2>1, <4>1, <4>2, AloneInList DEF hdr
      <4> QED
        BY <4>3
    <3> QED
      BY <2>1, <3>1, UnlinkUnlists
  <2>2. CASE F = FreeBlocks(h) \ {p}
    BY <2>2, NotListedIsUnlisted
  <2> QED
    BY <2>1, <2>2
<1>3. MergeAfter(h, p) = Swallow(out, p, old)
  BY DEF MergeAfter, Swallow, Grown
<1> QED
  BY <1>2, <1>3

LEMMA MergeAfterKeeps ==
    ASSUME NEW h, NEW p \in FreeBlocks(h), NEW F \in {FreeBlocks(h), FreeBlocks(h) \ {p}},
           HeapStage(h, F, {p}), IsFree(h, h.hdr[p].next)
    PROVE  LET g == MergeAfter(h, p)
           IN  HeapInv(g) /\ UsedBlocks(g) = UsedBlocks(h) /\ RoomStays(h, g)
<1> DEFINE g == MergeAfter(h, p)
           old == h.hdr[p].next
           D == DOMAIN h.hdr
           E == D \ {old}
           L == FreeBlocks(h) \ {p}
<1>1. /\ HeapIsTyped(h) /\ BlocksTile(h) /\ FreeIsListed(h, F)
      /\ BlocksAreCounted(h) /\ FreeAreApart(h, {p})
  BY DEF HeapStage
<1>2. /\ p \in D /\ D \subseteq Nat /\ NULL \notin D /\ h.hdr[p].alloc = 0 /\ D \subseteq Addresses
      /\ \A a \in D : a \in Nat /\ h.hdr[a].size \in Nat /\ h.hdr[a].alloc \in {0, 1}
  BY <1>1, BlocksAreAddresses DEF FreeBlocks, HeapIsTyped
<1>3. old \in D /\ h.hdr[old].alloc = 0 /\ h.hdr[old].prev = p
  BY <1>1, <1>2 DEF BlocksTile, IsFree
<1>4. old # p
  BY <1>1, <1>2, <1>3, SizesAreNumbers DEF BlocksTile, EndOf
<1>5. h.hdr[old].next # NULL => h.hdr[old].next \in D
  BY <1>1, <1>3 DEF BlocksTile
<1>6. old \in FreeBlocks(h) /\ old \in L /\ L \subseteq D
  BY <1>3, <1>4 DEF FreeBlocks
<1>7. PICK out : Unlisted(h, p, out) /\ g = Swallow(out, p, old)
  <2> HIDE DEF old
  <2>1. h.hdr[p].next = old
    BY DEF old
  <2> QED
    BY <1>1, <1>4, <1>6, <2>1, MergeAfterSwallows
<1> HIDE DEF g
<1>8. /\ HeapIs(out, h.first, out.first_free, out.hdr, h.total_used, h.header_count, h.exited)
      /\ out.hdr \in [D -> Headers]
      /\ \A a \in D :
           /\ out.hdr[a].size = h.hdr[a].size /\ out.hdr[a].alloc = h.hdr[a].alloc
           /\ out.hdr[a].prev = h.hdr[a].prev /\ out.hdr[a].next = h.hdr[a].next
      /\ IsList(out.hdr, L, out.first_free, "next_free", "prev_free")
      /\ \A a \in D \ FreeBlocks(h) : out.hdr[a].prev_free = NULL /\ out.hdr[a].next_free = NULL
  BY <1>7 DEF Unlisted
<1>9. HeapIsTyped(out) /\ DOMAIN out.hdr = D
  BY <1>2, <1>8, HeapIsIsTyped
<1>10. /\ out.first = h.first /\ out.total_used = h.total_used
       /\ out.header_count = h.header_count /\ out.exited = h.exited
  BY <1>8, HeapFields
<1>11. /\ out.hdr[old]["prev_free"] # NULL => out.hdr[old]["prev_free"] \in L
       /\ out.hdr[old]["next_free"] # NULL => out.hdr[old]["next_free"] \in L
  BY <1>6, <1>8 DEF IsList
<1>12. Swallowed(out, p, old, g)
  <2>1. out.hdr[old].next \in D \cup {NULL}
    BY <1>3, <1>5, <1>8
  <2> HIDE DEF old
  <2> QED
    BY <1>2, <1>3, <1>4, <1>6, <1>7, <1>9, <1>11, <2>1, SwallowDoes
<1>13. /\ HeapIs(g, out.first, IF out.hdr[old].prev_free = NULL THEN p ELSE out.first_free,
                 g.hdr, out.total_used, out.header_count - 1, out.exited)
       /\ g.hdr \in [E -> Headers]
  BY <1>9, <1>12, Zenon DEF Swallowed
<1>14. HeapIs(g, h.first, IF out.hdr[old].prev_free = NULL THEN p ELSE out.first_free,
              g.hdr, h.total_used, h.header_count - 1, h.exited)
  BY <1>10, <1>13, Zenon
<1>15. \A a \in E :
            /\ g.hdr[a].size = IF a = p THEN out.hdr[p].size + HdrSize + out.hdr[old].size
                               ELSE out.hdr[a].size
            /\ g.hdr[a].alloc = out.hdr[a].alloc
            /\ g.hdr[a].next = IF a = p THEN out.hdr[old].next ELSE out.hdr[a].next
            /\ g.hdr[a].prev = IF a = out.hdr[old].next THEN p ELSE out.hdr[a].prev
            /\ g.hdr[a].next_free = IF a = out.hdr[old].prev_free THEN p
                                    ELSE IF a = p THEN out.hdr[old].next_free
                                    ELSE out.hdr[a].next_free
            /\ g.hdr[a].prev_free = IF a = out.hdr[old].next_free THEN p
                                    ELSE IF a = p THEN out.hdr[old].prev_free
                                    ELSE out.hdr[a].prev_free
  BY <1>9, <1>12, Zenon DEF Swallowed
<1>16. HeapIsTyped(g) /\ DOMAIN g.hdr = E
  <2> DEFINE f == IF out.hdr[old].prev_free = NULL THEN p ELSE out.first_free
             n == h.header_count - 1
             hdr == g.hdr
  <2>1. HeapIs(g, h.first, f, hdr, h.total_used, n, h.exited) /\ hdr \in [E -> Headers]
    BY <1>13, <1>14
  <2>2. E \subseteq Addresses
    BY <1>2
  <2> HIDE DEF f, n, hdr, E
  <2> QED
    BY <2>1, <2>2, HeapIsIsTyped, SMTT(30)
<1>17. /\ g.first = h.first /\ g.total_used = h.total_used
       /\ g.header_count = h.header_count - 1 /\ g.exited = h.exited
       /\ g.first_free = IF out.hdr[old].prev_free = NULL THEN p ELSE out.first_free
  BY <1>14, HeapFields
<1>18. Fused(h, old, p, g)
  <2> HIDE DEF old
  <2> QED
    BY <1>2, <1>3, <1>8, <1>15, <1>16, <1>17 DEF Fused
<1>19. /\ BlocksTile(g) /\ BlocksAreCounted(g) /\ FreeAreApart(g, {})
       /\ p \in FreeBlocks(g) /\ FreeBlocks(g) = FreeBlocks(h) \ {old}
       /\ UsedBlocks(g) = UsedBlocks(h) /\ RoomStays(h, g)
  <2>1. IsFree(h, h.hdr[old].prev)
    BY <1>2, <1>3 DEF IsFree
  <2> HIDE DEF old
  <2> QED
    BY <1>1, <1>3, <1>6, <1>18, <2>1, FusedKeeps
<1>20. FreeIsListed(g, FreeBlocks(g))
  <2> DEFINE x == out.hdr
             y == g.hdr
             first == out.first_free
             M == (L \ {old}) \cup {p}
  <2>1. M = FreeBlocks(g)
    BY <1>4, <1>6, <1>19
  <2>2. p # NULL /\ p \notin L /\ NULL \notin L /\ p \in E
    BY <1>2, <1>4, <1>6
  <2>3. /\ x[old].prev_free # p /\ x[old].next_free # p
        /\ x[old]["prev_free"] = x[old].prev_free /\ x[old]["next_free"] = x[old].next_free
    <3> HIDE DEF old, L
    <3> QED
      BY <1>11, <2>2
  <2>4. y[p]["next_free"] = x[old]["next_free"] /\ y[p]["prev_free"] = x[old]["prev_free"]
    <3>1. y[p].next_free = x[old].next_free /\ y[p].prev_free = x[old].prev_free
      <4> HIDE DEF old, L
      <4> QED
        BY <1>15, <2>2, <2>3
    <3> QED
      BY <2>3, <3>1
  <2>5. \A a \in L \ {old} :
          /\ y[a]["next_free"] = IF a = x[old]["prev_free"] THEN p ELSE x[a]["next_free"]
          /\ y[a]["prev_free"] = IF a = x[old]["next_free"] THEN p ELSE x[a]["prev_free"]
    BY <1>6, <1>15, <2>2
  <2>6. IsList(x, L, first, "next_free", "prev_free")
    BY <1>8
  <2>7. g.first_free = IF x[old]["prev_free"] = NULL THEN p ELSE first
    <3>1. g.first_free = IF x[old].prev_free = NULL THEN p ELSE first
      BY <1>17, Zenon
    <3> HIDE DEF x, first
    <3> QED
      BY <2>3, <3>1
  <2>8. \A a \in E \ M : y[a].prev_free = NULL /\ y[a].next_free = NULL
    <3> TAKE a \in E \ M
    <3>1. a \in D /\ a \notin FreeBlocks(h) /\ a # p /\ a \notin L
      BY <1>6
    <3>2. x[old]["prev_free"] # a /\ x[old]["next_free"] # a
      BY <1>2, <1>11, <3>1
    <3> QED
      BY <1>8, <1>15, <3>1, <3>2
  <2> HIDE DEF x, y, first, L, old
  <2>9. IsList(y, M, IF x[old]["prev_free"] = NULL THEN p ELSE first, "next_free", "prev_free")
    BY <1>6, <2>2, <2>4, <2>5, <2>6, ListInstead
  <2> HIDE DEF M
  <2>10. FreeBlocks(g) \subseteq FreeBlocks(g)
    OBVIOUS
  <2>11. IsList(g.hdr, FreeBlocks(g), g.first_free, "next_free", "prev_free")
    BY <2>1, <2>7, <2>9 DEF y
  <2> QED
    BY <1>16, <2>1, <2>8, <2>11 DEF FreeIsListed, y
<1>21. HeapInv(g)
  BY <1>16, <1>19, <1>20 DEF HeapInv, HeapStage
<1> QED
  BY <1>19, <1>21 DEF g

LEMMA PrependKeeps ==
    ASSUME NEW h, NEW p \in FreeBlocks(h), HeapStage(h, FreeBlocks(h) \ {p}, {})
    PROVE  LET g == Prepend(h, p)
           IN  HeapInv(g) /\ UsedBlocks(g) = UsedBlocks(h) /\ RoomStays(h, g)
<1> DEFINE g == Prepend(h, p)
           D == DOMAIN h.hdr
           F == FreeBlocks(h)
           L == F \ {p}
           first == h.first_free
           d1 == [h.hdr EXCEPT ![p] = [h.hdr[p] EXCEPT !.next_free = first]]
           d2 == Store(d1, first, "prev_free", p)
           g1 == [h EXCEPT !.hdr = d2]
           g2 == [g1 EXCEPT !.first_free = p]
<1>1. /\ HeapIsTyped(h) /\ BlocksTile(h) /\ FreeIsListed(h, L)
      /\ BlocksAreCounted(h) /\ FreeAreApart(h, {})
  BY DEF HeapStage
<1>2. /\ p \in D /\ D \subseteq Nat /\ NULL \notin D /\ h.hdr[p].alloc = 0 /\ D \subseteq Addresses
      /\ IsFiniteSet(D) /\ h.hdr \in [D -> Headers] /\ L \subseteq D /\ F \subseteq D
  BY <1>1, BlocksAreAddresses DEF FreeBlocks, HeapIsTyped
<1>3. /\ IsList(h.hdr, L, first, "next_free", "prev_free")
      /\ \A a \in D \ L : h.hdr[a].prev_free = NULL /\ h.hdr[a].next_free = NULL
  BY <1>1 DEF FreeIsListed
<1>4. first # NULL => first \in L
  BY <1>3 DEF IsList
<1>5. first \in Pointers /\ p \in Pointers /\ first \in D \cup {NULL}
  BY <1>2, <1>4 DEF Pointers
<1>6. g = g2
  BY <1>1 DEF Prepend, HeapIsTyped
<1>7. /\ d1 \in [D -> Headers]
      /\ \A a \in D : /\ d1[a].size = h.hdr[a].size /\ d1[a].alloc = h.hdr[a].alloc
                      /\ d1[a].prev = h.hdr[a].prev /\ d1[a].next = h.hdr[a].next
                      /\ d1[a].prev_free = h.hdr[a].prev_free
                      /\ d1[a].next_free = IF a = p THEN first ELSE h.hdr[a].next_free
  BY <1>2, <1>5 DEF Headers
<1> HIDE DEF d1
<1>8. PrevFreeIs(D, d1, first, p, d2)
  BY <1>2, <1>5, <1>7, LinkIsStored
<1> HIDE DEF d2
<1>9. HeapIs(h, h.first, h.first_free, h.hdr, h.total_used, h.header_count, h.exited)
  BY <1>1, TypedHeapIs
<1>10. HeapIs(g1, h.first, h.first_free, d2, h.total_used, h.header_count, h.exited)
  BY <1>9, HdrIsSet, Zenon
<1> HIDE DEF g1
<1>11. HeapIs(g2, h.first, p, d2, h.total_used, h.header_count, h.exited)
  BY <1>10, FirstFreeIsSet, Zenon
<1>12. HeapIs(g, h.first, p, d2, h.total_used, h.header_count, h.exited)
  BY <1>6, <1>11
<1> HIDE DEF g, g2
<1>13. /\ g.hdr = d2 /\ g.first = h.first /\ g.first_free = p /\ g.total_used = h.total_used
       /\ g.header_count = h.header_count /\ g.exited = h.exited
  BY <1>12, HeapFields
<1>14. /\ d2 \in [D -> Headers]
       /\ \A a \in D : /\ d2[a].size = h.hdr[a].size /\ d2[a].alloc = h.hdr[a].alloc
                       /\ d2[a].prev = h.hdr[a].prev /\ d2[a].next = h.hdr[a].next
                       /\ d2[a].prev_free = IF a = first THEN p ELSE h.hdr[a].prev_free
                       /\ d2[a].next_free = IF a = p THEN first ELSE h.hdr[a].next_free
  BY <1>7, <1>8 DEF PrevFreeIs
<1>15. HeapIsTyped(g) /\ DOMAIN g.hdr = D
  BY <1>2, <1>12, <1>14, HeapIsIsTyped
<1>16. UsedBlocks(g) = UsedBlocks(h) /\ FreeBlocks(g) = F
  BY <1>13, <1>14, <1>15 DEF UsedBlocks, FreeBlocks
<1>17. BlocksTile(g)
  <2>1. \A a \in D : EndOf(g, a) = EndOf(h, a)
    BY <1>13, <1>14 DEF EndOf
  <2> QED
    BY <1>1, <1>13, <1>14, <1>15, <2>1 DEF BlocksTile
<1>18. FreeIsListed(g, F)
  <2> DEFINE x == h.hdr
  <2>1. p \notin L /\ p # NULL /\ NULL \notin L /\ F = L \cup {p} /\ p \in F
    BY <1>2
  <2>2. d2[p]["next_free"] = first /\ d2[p]["prev_free"] = NULL
    BY <1>2, <1>3, <1>4, <1>14, <2>1
  <2>3. \A a \in L : /\ d2[a]["next_free"] = x[a]["next_free"]
                     /\ d2[a]["prev_free"] = IF a = first THEN p ELSE x[a]["prev_free"]
    BY <1>2, <1>14
  <2>4. IsList(x, L, first, "next_free", "prev_free")
    BY <1>3
  <2>5. \A a \in D \ F : d2[a].prev_free = NULL /\ d2[a].next_free = NULL
    BY <1>2, <1>3, <1>4, <1>14, <2>1
  <2> HIDE DEF x, L, first
  <2>6. IsList(d2, L \cup {p}, p, "next_free", "prev_free")
    BY <2>1, <2>2, <2>3, <2>4, ListBefore
  <2> QED
    BY <1>13, <1>15, <1>16, <2>1, <2>5, <2>6 DEF FreeIsListed
<1>19. FreeAreApart(g, {})
  <2>1. \A a \in D : h.hdr[a].next # NULL => h.hdr[a].next \in D
    BY <1>1 DEF BlocksTile
  <2> QED
    BY <1>1, <1>13, <1>14, <1>15, <2>1 DEF FreeAreApart
<1>20. BlocksAreCounted(g)
  <2>1. IsFiniteSet(UsedBlocks(h))
    BY <1>1, BlocksAreUsedOrFree
  <2>2. \A a \in UsedBlocks(h) : h.hdr[a].size = g.hdr[a].size
    BY <1>13, <1>14 DEF UsedBlocks
  <2>3. SizeSum(h.hdr, UsedBlocks(h)) = SizeSum(g.hdr, UsedBlocks(h))
    BY <2>1, <2>2, SizeSumSame
  <2> QED
    BY <1>1, <1>13, <1>15, <1>16, <2>3 DEF BlocksAreCounted
<1>21. RoomStays(h, g)
  BY <1>13, <1>14, <1>15, <1>16 DEF RoomStays, UsedBlocks
<1>22. HeapInv(g)
  BY <1>15, <1>16, <1>17, <1>18, <1>19, <1>20 DEF HeapInv, HeapStage
<1> QED
  BY <1>16, <1>21, <1>22 DEF g

LEMMA ApartFrom ==
    ASSUME NEW h, NEW F, NEW X, NEW a, HeapStage(h, F, X \cup {a}), ~IsFree(h, a) \/ ~IsFree(h, h.hdr[a].next)
    PROVE  HeapStage(h, F, X)
<1>1. HeapIsTyped(h) /\ FreeAreApart(h, X \cup {a})
  BY DEF HeapStage
<1>2. NULL \notin DOMAIN h.hdr
  BY <1>1, BlocksAreAddresses
<1>3. FreeAreApart(h, X)
  BY <1>1, <1>2 DEF FreeAreApart, IsFree
<1> QED
  BY <1>3 DEF HeapStage

LEMMA RoomIsKept ==
    ASSUME NEW h, NEW g, NEW k, RoomStays(h, g), RoomStays(g, k)
    PROVE  RoomStays(h, k)
BY DEF RoomStays

\* The blocks in use are U, as large as they were.
Uses(h, U, g) == HeapInv(g) /\ UsedBlocks(g) = U /\ RoomStays(h, g)

LEMMA RegroupAfterKeeps ==
    ASSUME NEW h, NEW p \in FreeBlocks(h), NEW merged \in BOOLEAN,
           HeapStage(h, IF merged THEN FreeBlocks(h) ELSE FreeBlocks(h) \ {p}, {p})
    PROVE  Uses(h, UsedBlocks(h), RegroupAfter(h, p, merged))
<1> DEFINE F == IF merged THEN FreeBlocks(h) ELSE FreeBlocks(h) \ {p}
           g == RegroupAfter(h, p, merged)
<1>0. RoomStays(h, h)
  BY DEF RoomStays
<1>1. CASE IsFree(h, h.hdr[p].next)
  <2>1. g = MergeAfter(h, p)
    BY <1>1, Zenon DEF RegroupAfter
  <2>2. F \in {FreeBlocks(h), FreeBlocks(h) \ {p}}
    OBVIOUS
  <2> HIDE DEF F, g
  <2>3. HeapStage(h, F, {p})
    BY DEF F
  <2>4. HeapInv(MergeAfter(h, p)) /\ UsedBlocks(MergeAfter(h, p)) = UsedBlocks(h)
        /\ RoomStays(h, MergeAfter(h, p))
    BY <1>1, <2>2, <2>3, MergeAfterKeeps
  <2> QED
    BY <2>1, <2>4 DEF Uses, g
<1>2. CASE ~IsFree(h, h.hdr[p].next)
  <2>1. HeapStage(h, F, {} \cup {p})
    <3> HIDE DEF F
    <3> QED
      BY Zenon DEF F
  <2>2. HeapStage(h, F, {})
    <3> HIDE DEF F
    <3> QED
      BY <1>2, <2>1, ApartFrom
  <2>3. CASE merged
    <3>1. g = h
      BY <1>2, <2>3, Zenon DEF RegroupAfter
    <3>2. HeapInv(h)
      BY <2>2, <2>3 DEF HeapInv
    <3> QED
      BY <1>0, <3>1, <3>2 DEF Uses
  <2>4. CASE ~merged
    <3>1. g = Prepend(h, p)
      BY <1>2, <2>4, Zenon DEF RegroupAfter
    <3>2. HeapStage(h, FreeBlocks(h) \ {p}, {})
      BY <2>2, <2>4
    <3>3. HeapInv(Prepend(h, p)) /\ UsedBlocks(Prepend(h, p)) = UsedBlocks(h)
          /\ RoomStays(h, Prepend(h, p))
      BY <3>2, PrependKeeps
    <3> HIDE DEF g
    <3> QED
      BY <3>1, <3>3 DEF Uses, g
  <2> QED
    BY <2>3, <2>4
<1> QED
  BY <1>1, <1>2

LEMMA RegroupKeeps ==
    ASSUME NEW h, NEW p \in FreeBlocks(h),
           HeapStage(h, FreeBlocks(h) \ {p}, {p, h.hdr[p].prev})
    PROVE  Uses(h, UsedBlocks(h), Regroup(h, p))
<1> DEFINE into == h.hdr[p].prev
<1>1. CASE IsFree(h, into)
  <2> DEFINE m == MergeBefore(h, p)
  <2>1. HeapStage(m, FreeBlocks(m), {into}) /\ into \in FreeBlocks(m)
        /\ UsedBlocks(m) = UsedBlocks(h) /\ RoomStays(h, m)
    BY <1>1, MergeBeforeKeeps
  <2>2. Regroup(h, p) = RegroupAfter(m, into, TRUE)
    BY <1>1, Zenon DEF Regroup
  <2> HIDE DEF m, into
  <2>3. HeapStage(m, IF TRUE THEN FreeBlocks(m) ELSE FreeBlocks(m) \ {into}, {into})
    BY <2>1
  <2>4. Uses(m, UsedBlocks(m), RegroupAfter(m, into, TRUE))
    BY <2>1, <2>3, RegroupAfterKeeps
  <2> QED
    BY <2>1, <2>2, <2>4, RoomIsKept DEF Uses
<1>2. CASE ~IsFree(h, into)
  <2>1. Regroup(h, p) = RegroupAfter(h, p, FALSE)
    BY <1>2, Zenon DEF Regroup
  <2>2. {p, into} = {p} \cup {into}
    OBVIOUS
  <2>3. HeapStage(h, FreeBlocks(h) \ {p}, {p} \cup {into})
    BY <2>2
  <2> HIDE DEF into
  <2>4. HeapStage(h, FreeBlocks(h) \ {p}, {p})
    BY <1>2, <2>3, ApartFrom
  <2>5. HeapStage(h, IF FALSE THEN FreeBlocks(h) ELSE FreeBlocks(h) \ {p}, {p})
    BY <2>4
  <2>6. Uses(h, UsedBlocks(h), RegroupAfter(h, p, FALSE))
    BY <2>5, RegroupAfterKeeps
  <2> QED
    BY <2>1, <2>6
<1> QED
  BY <1>1, <1>2

\* The pointers that were handed out and not released, and the room behind them.
Ptrs(h) == {a + HdrSize : a \in UsedBlocks(h)}
Room(h, ptr) == h.hdr[ptr - HdrSize].size
RoomIsLeft(h, g) == \A ptr \in Ptrs(g) : ptr \in Ptrs(h) => Room(g, ptr) = Room(h, ptr)

LEMMA PtrsAreNumbers ==
    ASSUME NEW h, HeapIsTyped(h)
    PROVE  /\ UsedBlocks(h) \subseteq Nat /\ Ptrs(h) \subseteq Nat /\ NULL \notin Ptrs(h)
           /\ \A ptr \in Ptrs(h) : ptr - HdrSize \in UsedBlocks(h)
           /\ \A a \in UsedBlocks(h) : a + HdrSize \in Ptrs(h) /\ Room(h, a + HdrSize) = h.hdr[a].size
<1>1. UsedBlocks(h) \subseteq Nat
  BY BlocksAreAddresses DEF UsedBlocks
<1>2. \A a \in UsedBlocks(h) : a + HdrSize \in Nat /\ (a + HdrSize) - HdrSize = a
  BY <1>1, SizesAreNumbers
<1> QED
  BY <1>1, <1>2, SizesAreNumbers DEF Ptrs, Room

\* The pointer is released.
Freed(h, ptr, g) == HeapInv(g) /\ Ptrs(g) = Ptrs(h) \ {ptr} /\ RoomIsLeft(h, g)

LEMMA FreeKeeps ==
    ASSUME NEW h, HeapInv(h), NEW ptr \in Ptrs(h) \cup {NULL}
    PROVE  Freed(h, ptr, Free(h, ptr))
<1>1. HeapIsTyped(h) /\ BlocksTile(h)
  BY DEF HeapInv, HeapStage
<1>2. h.first # NULL
  BY <1>1, SizesAreNumbers DEF BlocksTile
<1>3. CASE ptr = NULL
  <2>1. Free(h, ptr) = h
    BY <1>3 DEF Free
  <2>2. Ptrs(h) = Ptrs(h) \ {ptr}
    BY <1>1, <1>3, PtrsAreNumbers
  <2> QED
    BY <2>1, <2>2 DEF Freed, RoomIsLeft
<1>4. CASE ptr # NULL
  <2> DEFINE p == ptr - HdrSize
             m == Marked(h, p)
             g == Free(h, ptr)
  <2>1. p \in UsedBlocks(h) /\ ptr \in Ptrs(h)
    BY <1>1, <1>4, PtrsAreNumbers
  <2>2. p \in DOMAIN h.hdr /\ h.hdr[p].alloc = 1
    BY <2>1 DEF UsedBlocks
  <2>3. VerifyHeader(h, p)
    BY <2>2, HeapIsVerified DEF HeapInv
  <2>4. g = Regroup(m, p)
    BY <1>2, <1>4, <2>2, <2>3, Zenon DEF Free, Marked
  <2>5. /\ HeapStage(m, FreeBlocks(m) \ {p}, {p, m.hdr[p].prev})
        /\ p \in FreeBlocks(m)
        /\ UsedBlocks(m) = UsedBlocks(h) \ {p} /\ RoomStays(h, m)
    BY <2>1, MarkKeeps
  <2> HIDE DEF m, g
  <2>6. Uses(m, UsedBlocks(m), Regroup(m, p))
    BY <2>5, RegroupKeeps
  <2>7. HeapInv(g) /\ UsedBlocks(g) = UsedBlocks(h) \ {p} /\ RoomStays(h, g)
    BY <2>4, <2>5, <2>6, RoomIsKept DEF Uses
  <2>8. HeapIsTyped(g)
    BY <2>7 DEF HeapInv, HeapStage
  <2>9. Ptrs(g) = Ptrs(h) \ {ptr}
    <3>1. UsedBlocks(h) \subseteq Nat /\ ptr \in Nat
      BY <1>1, <2>1, PtrsAreNumbers
    <3>2. \A a \in UsedBlocks(h) : a = p <=> a + HdrSize = ptr
      BY <3>1, SizesAreNumbers
    <3> HIDE DEF p
    <3>3. UsedBlocks(g) = UsedBlocks(h) \ {p}
      BY <2>7
    <3>4. Ptrs(g) = {a + HdrSize : a \in UsedBlocks(h) \ {p}}
      BY <3>3 DEF Ptrs
    <3> QED
      BY <3>2, <3>4 DEF Ptrs
  <2>10. RoomIsLeft(h, g)
    <3> SUFFICES ASSUME NEW q \in Ptrs(g) PROVE Room(g, q) = Room(h, q)
      BY DEF RoomIsLeft
    <3>1. q - HdrSize \in UsedBlocks(g)
      BY <2>8, PtrsAreNumbers
    <3> QED
      BY <2>7, <3>1 DEF RoomStays, Room
  <2> QED
    BY <2>7, <2>9, <2>10 DEF Freed, g
<1> QED
  BY <1>3, <1>4

-----------------------------------------------------------------------------
(* Allocation, step by step.                                               *)

LEMMA FitIsFound ==
    ASSUME NEW h, HeapInv(h), NEW len \in Nat
    PROVE  \/ FindFit(h, len) = NULL
           \/ FindFit(h, len) \in FreeBlocks(h) /\ h.hdr[FindFit(h, len)].size >= len
<1> DEFINE at == Walk(h, h.first_free, "next_free")
           F == FreeBlocks(h)
           stops == {k \in DOMAIN at : at[k] = NULL \/ h.hdr[at[k]].size >= len}
<1>1. /\ HeapIsTyped(h) /\ BlocksTile(h) /\ FreeIsListed(h, F)
  BY DEF HeapInv, HeapStage
<1>2. WalkFinds(h, at, F, "prev_free")
  BY <1>1, ListsAreWalked
<1>3. FindFit(h, len) = IF stops = {} THEN NULL ELSE at[Min(stops)]
  BY Zenon DEF FindFit
<1> HIDE DEF at
<1>4. DOMAIN at = 0 .. MaxBlocks /\ \A k \in 0 .. MaxBlocks : at[k] # NULL => at[k] \in F
  BY <1>2, Zenon DEF WalkFinds
<1>5. stops \subseteq Nat
  BY <1>4, BlocksAreNumbers
<1>6. CASE stops = {}
  BY <1>3, <1>6
<1>7. CASE stops # {}
  <2>1. Min(stops) \in stops
    <3> HIDE DEF stops
    <3> QED
      BY <1>5, <1>7, MinIsLeast
  <2> DEFINE m == Min(stops)
  <2> HIDE DEF m
  <2>2. m \in 0 .. MaxBlocks /\ (at[m] = NULL \/ h.hdr[at[m]].size >= len)
    BY <1>4, <2>1 DEF m
  <2>3. FindFit(h, len) = at[m]
    BY <1>3, <1>7 DEF m
  <2> QED
    BY <1>4, <2>2, <2>3
<1> QED
  BY <1>6, <1>7

LEMMA RoundedUp ==
    ASSUME NEW len \in Nat
    PROVE  AlignUp(len) \in Nat /\ AlignUp(len) >= len
<1>1. len % Align \in 0 .. Align - 1
  BY SizesAreNumbers
<1>2. len % Align <= len
  BY SizesAreNumbers
<1> QED
  BY <1>1, <1>2, SizesAreNumbers DEF AlignUp

LEMMA BlocksEnd ==
    ASSUME NEW h, HeapIsTyped(h), BlocksTile(h), NEW a \in DOMAIN h.hdr
    PROVE  EndOf(h, a) <= BufLen
BY SizesAreNumbers DEF BlocksTile, HeapIsTyped, Addresses

\* A block of at least this size is in use now, and the others are as they
\* were.
Took(h, cur, size, g) ==
    /\ HeapInv(g)
    /\ UsedBlocks(g) = UsedBlocks(h) \cup {cur}
    /\ g.hdr[cur].size >= size
    /\ \A a \in UsedBlocks(h) : g.hdr[a].size = h.hdr[a].size

LEMMA OneMoreIsCounted ==
    ASSUME NEW hs, NEW gs, NEW U, IsFiniteSet(U), \A a \in U : hs[a].size = gs[a].size,
           NEW c, c \notin U, Sized(gs, U \cup {c})
    PROVE  /\ SizeSum(gs, U \cup {c}) = SizeSum(hs, U) + gs[c].size
           /\ SizeSum(hs, U) \in Nat /\ gs[c].size \in Nat
<1> DEFINE V == U \cup {c}
<1>1. IsFiniteSet(V)
  BY FS_AddElement
<1>2. SizeSum(gs, V) = gs[c].size + SizeSum(gs, V \ {c})
  BY <1>1, SizeSumRemove
<1>3. V \ {c} = U
  OBVIOUS
<1>4. SizeSum(hs, U) = SizeSum(gs, U)
  BY SizeSumSame
<1>5. SizeSum(gs, U) \in Nat
  BY SizeSumType DEF Sized
<1>6. gs[c].size \in Nat
  BY DEF Sized
<1>7. SizeSum(gs, V \ {c}) = SizeSum(hs, U)
  BY <1>3, <1>4
<1> HIDE DEF V
<1>8. SizeSum(gs, V) = SizeSum(hs, U) + gs[c].size
  <2> DEFINE a == SizeSum(gs, V \ {c})
             b == SizeSum(hs, U)
             d == SizeSum(gs, V)
             e == gs[c].size
  <2>1. a = b /\ d = e + a /\ b \in Nat /\ e \in Nat
    BY <1>2, <1>4, <1>5, <1>6, <1>7
  <2> HIDE DEF a, b, d, e
  <2>2. d = b + e
    BY <2>1
  <2> QED
    BY <2>2 DEF a, b, d, e
<1> QED
  BY <1>4, <1>5, <1>6, <1>8 DEF V

LEMMA TakeKeeps ==
    ASSUME NEW h, HeapInv(h), NEW cur \in FreeBlocks(h)
    PROVE  Took(h, cur, h.hdr[cur].size, TakeBlock(h, cur))
<1> DEFINE D == DOMAIN h.hdr
           F == FreeBlocks(h)
           U == UsedBlocks(h)
           out == UnlinkFree(h, cur)
           size == h.hdr[cur].size
           d1 == [out.hdr EXCEPT ![cur] = [out.hdr[cur] EXCEPT !.alloc = 1]]
           d2 == [d1 EXCEPT ![cur] = [d1[cur] EXCEPT !.prev_free = NULL]]
           d3 == [d2 EXCEPT ![cur] = [d2[cur] EXCEPT !.next_free = NULL]]
           g1 == [out EXCEPT !.hdr[cur].alloc = 1]
           g2 == [g1 EXCEPT !.hdr[cur].prev_free = NULL]
           g3 == [g2 EXCEPT !.hdr[cur].next_free = NULL]
           t == h.total_used + size
           g4 == [g3 EXCEPT !.total_used = t]
           g == TakeBlock(h, cur)
<1>1. /\ HeapIsTyped(h) /\ BlocksTile(h) /\ FreeIsListed(h, F)
      /\ BlocksAreCounted(h) /\ FreeAreApart(h, {})
  BY DEF HeapInv, HeapStage
<1>2. /\ cur \in D /\ D \subseteq Nat /\ NULL \notin D /\ h.hdr[cur].alloc = 0 /\ D \subseteq Addresses
      /\ IsFiniteSet(D) /\ F \subseteq D /\ U \subseteq D /\ size \in Nat
      /\ \A a \in D : h.hdr[a].size \in Nat
  BY <1>1, BlocksAreAddresses DEF FreeBlocks, UsedBlocks, HeapIsTyped
<1>3. Unlisted(h, cur, out)
  BY <1>1, UnlinkUnlists
<1>4. g = [[[[out EXCEPT !.hdr[cur].alloc = 1]
                  EXCEPT !.hdr[cur].prev_free = NULL]
                  EXCEPT !.hdr[cur].next_free = NULL]
                  EXCEPT !.total_used = @ + size]
  BY DEF TakeBlock
<1> HIDE DEF out, g
<1>5. /\ HeapIs(out, h.first, out.first_free, out.hdr, h.total_used, h.header_count, h.exited)
      /\ out.hdr \in [D -> Headers]
      /\ \A a \in D :
           /\ out.hdr[a].size = h.hdr[a].size /\ out.hdr[a].alloc = h.hdr[a].alloc
           /\ out.hdr[a].prev = h.hdr[a].prev /\ out.hdr[a].next = h.hdr[a].next
      /\ IsList(out.hdr, F \ {cur}, out.first_free, "next_free", "prev_free")
      /\ \A a \in D \ F : out.hdr[a].prev_free = NULL /\ out.hdr[a].next_free = NULL
  BY <1>3 DEF Unlisted
<1> DEFINE H(k, d, total) == HeapIs(k, h.first, out.first_free, d, total, h.header_count, h.exited)
           Same(d) == /\ d \in [D -> Headers]
                      /\ \A a \in D : /\ a # cur => d[a] = out.hdr[a]
                                      /\ d[a].size = out.hdr[a].size
                                      /\ d[a].prev = out.hdr[a].prev
                                      /\ d[a].next = out.hdr[a].next
<1>6. H(g1, d1, h.total_used)
  BY <1>5, AllocIsSet, Zenon
<1>7. Same(d1) /\ d1[cur].alloc = 1
  BY <1>2, <1>5 DEF Headers
<1>8. NULL \in Pointers
  BY DEF Pointers
<1> HIDE DEF d1
<1>9. H(g2, d2, h.total_used)
  BY <1>6, PrevFreeIsSet, Zenon
<1>10. Same(d2) /\ d2[cur].alloc = 1 /\ d2[cur].prev_free = NULL
  BY <1>2, <1>7, <1>8 DEF Headers
<1> HIDE DEF d2
<1>11. H(g3, d3, h.total_used)
  BY <1>9, NextFreeIsSet, Zenon
<1>12. Same(d3) /\ d3[cur].alloc = 1 /\ d3[cur].prev_free = NULL /\ d3[cur].next_free = NULL
  BY <1>2, <1>8, <1>10 DEF Headers
<1>13. g = [g3 EXCEPT !.total_used = @ + size]
  BY <1>4
<1> HIDE DEF d3, g1, g2, g3
<1>14. g = g4
  BY <1>11, <1>13, HeapFields
<1> HIDE DEF t
<1>15. H(g4, d3, t)
  BY <1>11, TotalIsSet, Zenon
<1>16. H(g, d3, t)
  BY <1>14, <1>15
<1> HIDE DEF g4
<1>17. /\ g.hdr = d3 /\ g.first = h.first /\ g.first_free = out.first_free /\ g.total_used = t
       /\ g.header_count = h.header_count /\ g.exited = h.exited
  BY <1>16, HeapFields
<1>18. HeapIsTyped(g) /\ DOMAIN g.hdr = D
  BY <1>2, <1>12, <1>16, HeapIsIsTyped
<1>19. \A a \in D : /\ g.hdr[a].size = h.hdr[a].size
                    /\ g.hdr[a].alloc = IF a = cur THEN 1 ELSE h.hdr[a].alloc
                    /\ g.hdr[a].prev = h.hdr[a].prev /\ g.hdr[a].next = h.hdr[a].next
  BY <1>5, <1>12, <1>17
<1>20. UsedBlocks(g) = U \cup {cur} /\ FreeBlocks(g) = F \ {cur} /\ cur \notin U
  BY <1>2, <1>18, <1>19 DEF UsedBlocks, FreeBlocks
<1>21. BlocksTile(g)
  <2>1. \A a \in D : EndOf(g, a) = EndOf(h, a)
    BY <1>19 DEF EndOf
  <2> QED
    BY <1>1, <1>17, <1>18, <1>19, <2>1 DEF BlocksTile
<1>22. FreeIsListed(g, F \ {cur})
  <2>1. \A a \in F \ {cur} : g.hdr[a]["next_free"] = out.hdr[a]["next_free"]
                             /\ g.hdr[a]["prev_free"] = out.hdr[a]["prev_free"]
    BY <1>2, <1>12, <1>17
  <2>2. IsList(g.hdr, F \ {cur}, g.first_free, "next_free", "prev_free")
    BY <1>5, <1>17, <2>1, ListIsLinks
  <2>3. \A a \in D \ (F \ {cur}) : g.hdr[a].prev_free = NULL /\ g.hdr[a].next_free = NULL
    BY <1>2, <1>5, <1>12, <1>17
  <2> QED
    BY <1>18, <1>20, <2>2, <2>3 DEF FreeIsListed
<1>23. FreeAreApart(g, {})
  <2>1. \A a \in D : h.hdr[a].next # NULL => h.hdr[a].next \in D
    BY <1>1 DEF BlocksTile
  <2> QED
    BY <1>1, <1>18, <1>19, <2>1 DEF FreeAreApart
<1>24. BlocksAreCounted(g)
  <2>1. IsFiniteSet(U)
    BY <1>1, BlocksAreUsedOrFree
  <2>2. \A a \in U : h.hdr[a].size = g.hdr[a].size
    BY <1>2, <1>19
  <2>3. Sized(g.hdr, U \cup {cur})
    BY <1>2, <1>19 DEF Sized
  <2>4. /\ SizeSum(g.hdr, U \cup {cur}) = SizeSum(h.hdr, U) + g.hdr[cur].size
    BY <1>20, <2>1, <2>2, <2>3, OneMoreIsCounted
  <2> QED
    BY <1>1, <1>2, <1>17, <1>18, <1>19, <1>20, <2>4 DEF BlocksAreCounted, t
<1>25. HeapInv(g)
  BY <1>18, <1>20, <1>21, <1>22, <1>23, <1>24 DEF HeapInv, HeapStage
<1>26. g.hdr[cur].size >= size /\ \A a \in U : g.hdr[a].size = h.hdr[a].size
  BY <1>2, <1>19
<1> QED
  BY <1>20, <1>25, <1>26 DEF Took, g

\* What splitting the block at cur does: new is the rest of it.
Split(h, cur, len, new, g) ==
    /\ HeapIs(g, h.first, IF h.hdr[cur].prev_free = NULL THEN new ELSE h.first_free,
              g.hdr, h.total_used + len, h.header_count + 1, h.exited)
    /\ g.hdr \in [DOMAIN h.hdr \cup {new} -> Headers]
    /\ g.hdr[new].size = h.hdr[cur].size - len - HdrSize /\ g.hdr[new].alloc = 0
    /\ g.hdr[new].prev = cur /\ g.hdr[new].next = h.hdr[cur].next
    /\ g.hdr[new].prev_free = h.hdr[cur].prev_free /\ g.hdr[new].next_free = h.hdr[cur].next_free
    /\ g.hdr[cur].size = len /\ g.hdr[cur].alloc = 1
    /\ g.hdr[cur].prev = h.hdr[cur].prev /\ g.hdr[cur].next = new
    /\ g.hdr[cur].prev_free = NULL /\ g.hdr[cur].next_free = NULL
    /\ \A a \in DOMAIN h.hdr \ {cur} :
         /\ g.hdr[a].size = h.hdr[a].size /\ g.hdr[a].alloc = h.hdr[a].alloc
         /\ g.hdr[a].prev = IF a = h.hdr[cur].next THEN new ELSE h.hdr[a].prev
         /\ g.hdr[a].next = h.hdr[a].next
         /\ g.hdr[a].next_free = IF a = h.hdr[cur].prev_free THEN new ELSE h.hdr[a].next_free
         /\ g.hdr[a].prev_free = IF a = h.hdr[cur].next_free THEN new ELSE h.hdr[a].prev_free

LEMMA SplitDoes ==
    ASSUME NEW h, HeapIsTyped(h), NEW cur \in DOMAIN h.hdr, NEW len \in Nat,
           h.hdr[cur].size - len - HdrSize \in Nat,
           cur + HdrSize + len \in Addresses \ DOMAIN h.hdr,
           h.hdr[cur].next \in (DOMAIN h.hdr \ {cur}) \cup {NULL},
           h.hdr[cur].prev_free \in (DOMAIN h.hdr \ {cur}) \cup {NULL},
           h.hdr[cur].next_free \in (DOMAIN h.hdr \ {cur}) \cup {NULL}
    PROVE  Split(h, cur, len, cur + HdrSize + len, SplitBlock(h, cur, len))
<1> DEFINE D == DOMAIN h.hdr
           b == h.hdr[cur]
           new == cur + HdrSize + len
           E == D \cup {new}
           rest == [size |-> b.size - len - HdrSize, alloc |-> 0, prev |-> cur, next |-> b.next,
                    prev_free |-> b.prev_free, next_free |-> b.next_free]
           taken == [b EXCEPT !.alloc = 1, !.size = len, !.next = new, !.prev_free = NULL,
                              !.next_free = NULL]
           d1 == [a \in D \cup {new} |->
                     IF a = new THEN rest ELSE IF a = cur THEN taken ELSE h.hdr[a]]
           d2 == Store(d1, b.next, "prev", new)
           g1 == [h EXCEPT !.hdr = d2]
           g2 == RelinkFree(g1, new)
           t == h.total_used + len
           c == h.header_count + 1
           g3 == [g2 EXCEPT !.total_used = t]
           g4 == [g3 EXCEPT !.header_count = c]
           g == SplitBlock(h, cur, len)
<1>1. /\ h.hdr \in [D -> Headers] /\ b \in Headers /\ NULL \notin D /\ cur \in Pointers
      /\ D \subseteq Addresses /\ new \in Addresses /\ new \notin D /\ new \in Pointers /\ new # cur
      /\ NULL \in Pointers /\ new # NULL /\ E \subseteq Addresses /\ NULL \notin E /\ D \subseteq E
      /\ cur \in E /\ new \in E
  <2>1. NULL \notin Addresses
    BY SizesAreNumbers DEF Addresses
  <2> HIDE DEF new
  <2> QED
    BY <2>1 DEF HeapIsTyped, Pointers, new
<1>2. g = [[g2 EXCEPT !.total_used = @ + len] EXCEPT !.header_count = @ + 1]
  BY Zenon DEF SplitBlock
<1> HIDE DEF new
<1>3. /\ rest \in Headers /\ rest.size = b.size - len - HdrSize /\ rest.alloc = 0 /\ rest.prev = cur
      /\ rest.next = b.next /\ rest.prev_free = b.prev_free /\ rest.next_free = b.next_free
  <2>1. b.size - len - HdrSize \in Nat
    OBVIOUS
  <2> QED
    BY <1>1, <2>1 DEF Headers
<1> HIDE DEF rest
<1>4. /\ taken \in Headers /\ taken.size = len /\ taken.alloc = 1 /\ taken.prev = b.prev
      /\ taken.next = new /\ taken.prev_free = NULL /\ taken.next_free = NULL
  <2> DEFINE x1 == [b EXCEPT !.alloc = 1]
             x2 == [x1 EXCEPT !.size = len]
             x3 == [x2 EXCEPT !.next = new]
             x4 == [x3 EXCEPT !.prev_free = NULL]
             x5 == [x4 EXCEPT !.next_free = NULL]
  <2>0. taken = x5
    OBVIOUS
  <2>1. x1 \in Headers /\ x1.alloc = 1 /\ x1.prev = b.prev
    BY <1>1 DEF Headers
  <2> HIDE DEF x1, taken
  <2>2. x2 \in Headers /\ x2.alloc = 1 /\ x2.prev = b.prev /\ x2.size = len
    BY <2>1 DEF Headers
  <2> HIDE DEF x2
  <2>3. x3 \in Headers /\ x3.alloc = 1 /\ x3.prev = b.prev /\ x3.size = len /\ x3.next = new
    BY <1>1, <2>2 DEF Headers
  <2> HIDE DEF x3
  <2>4. x4 \in Headers /\ x4.alloc = 1 /\ x4.prev = b.prev /\ x4.size = len /\ x4.next = new
        /\ x4.prev_free = NULL
    BY <1>1, <2>3 DEF Headers
  <2> HIDE DEF x4
  <2>5. x5 \in Headers /\ x5.alloc = 1 /\ x5.prev = b.prev /\ x5.size = len /\ x5.next = new
        /\ x5.prev_free = NULL /\ x5.next_free = NULL
    BY <1>1, <2>4 DEF Headers
  <2> QED
    BY <2>0, <2>5
<1> HIDE DEF taken
<1>5. /\ d1 \in [E -> Headers]
      /\ \A a \in E : d1[a] = IF a = new THEN rest ELSE IF a = cur THEN taken ELSE h.hdr[a]
  BY <1>1, <1>3, <1>4
<1> HIDE DEF d1
<1>6. PrevIs(E, d1, b.next, new, d2)
  <2>1. b.next \in E \cup {NULL}
    BY <1>1
  <2> HIDE DEF E, b
  <2> QED
    BY <1>1, <1>5, <2>1, LinkIsStored
<1> HIDE DEF d2
<1>7. /\ d2 \in [E -> Headers]
      /\ \A a \in E : /\ d2[a].size = d1[a].size /\ d2[a].alloc = d1[a].alloc
                      /\ d2[a].prev = IF a = b.next THEN new ELSE d1[a].prev
                      /\ d2[a].next = d1[a].next
                      /\ d2[a].prev_free = d1[a].prev_free
                      /\ d2[a].next_free = d1[a].next_free
  BY <1>6 DEF PrevIs
<1>8. HeapIs(h, h.first, h.first_free, h.hdr, h.total_used, h.header_count, h.exited)
  BY TypedHeapIs
<1>9. HeapIs(g1, h.first, h.first_free, d2, h.total_used, h.header_count, h.exited)
  BY <1>8, HdrIsSet, Zenon
<1> HIDE DEF g1
<1>10. HeapIsTyped(g1) /\ DOMAIN g1.hdr = E /\ g1.hdr = d2
  BY <1>1, <1>7, <1>9, HeapIsIsTyped
<1>11. /\ g1.first = h.first /\ g1.first_free = h.first_free /\ g1.total_used = h.total_used
       /\ g1.header_count = h.header_count /\ g1.exited = h.exited
  BY <1>9, HeapFields
<1>12. d2[new].prev_free = b.prev_free /\ d2[new].next_free = b.next_free
  BY <1>1, <1>3, <1>5, <1>7
<1>13. b.prev_free \in E \cup {NULL} /\ b.next_free \in E \cup {NULL}
  BY <1>1
<1>14. Relinked(g1, new, g2)
  <2> HIDE DEF E, b
  <2> QED
    BY <1>1, <1>10, <1>12, <1>13, RelinkDoes
<1> HIDE DEF g2
<1> DEFINE first == IF b.prev_free = NULL THEN new ELSE h.first_free
<1>15. /\ HeapIs(g2, h.first, first, g2.hdr, h.total_used, h.header_count, h.exited)
       /\ g2.hdr \in [E -> Headers]
       /\ \A a \in E :
            /\ g2.hdr[a].size = d2[a].size /\ g2.hdr[a].alloc = d2[a].alloc
            /\ g2.hdr[a].prev = d2[a].prev /\ g2.hdr[a].next = d2[a].next
            /\ g2.hdr[a].next_free = IF a = b.prev_free THEN new ELSE d2[a].next_free
            /\ g2.hdr[a].prev_free = IF a = b.next_free THEN new ELSE d2[a].prev_free
  <2>1. /\ HeapIs(g2, g1.first, IF g1.hdr[new].prev_free = NULL THEN new ELSE g1.first_free,
                  g2.hdr, g1.total_used, g1.header_count, g1.exited)
        /\ g2.hdr \in [DOMAIN g1.hdr -> Headers]
        /\ \A a \in DOMAIN g1.hdr :
             /\ g2.hdr[a].size = g1.hdr[a].size /\ g2.hdr[a].alloc = g1.hdr[a].alloc
             /\ g2.hdr[a].prev = g1.hdr[a].prev /\ g2.hdr[a].next = g1.hdr[a].next
             /\ g2.hdr[a].next_free = IF a = g1.hdr[new].prev_free THEN new ELSE g1.hdr[a].next_free
             /\ g2.hdr[a].prev_free = IF a = g1.hdr[new].next_free THEN new ELSE g1.hdr[a].prev_free
    BY <1>14, Zenon DEF Relinked
  <2> HIDE DEF b, E
  <2> QED
    BY <1>10, <1>11, <1>12, <2>1
<1> HIDE DEF t, c, first
<1>16. g2.total_used = h.total_used
  BY <1>15, HeapFields
<1>17. HeapIs(g3, h.first, first, g2.hdr, t, h.header_count, h.exited)
  BY <1>15, TotalIsSet, Zenon
<1>18. g = [g3 EXCEPT !.header_count = @ + 1]
  BY <1>2, <1>16 DEF t
<1> HIDE DEF g3
<1>19. g = g4
  <2>1. g3.header_count = h.header_count
    BY <1>17, HeapFields
  <2> QED
    BY <1>18, <2>1 DEF c
<1>20. HeapIs(g4, h.first, first, g2.hdr, t, c, h.exited)
  BY <1>17, CountIsSet, Zenon
<1> HIDE DEF g4, g
<1>21. g.hdr = g2.hdr /\ HeapIs(g, h.first, first, g.hdr, t, c, h.exited)
  <2>1. HeapIs(g, h.first, first, g2.hdr, t, c, h.exited)
    BY <1>19, <1>20
  <2>2. g.hdr = g2.hdr
    BY <2>1, HeapFields
  <2> QED
    BY <2>1, <2>2
<1>22. ASSUME NEW a \in E
       PROVE  /\ g.hdr[a].size = d1[a].size /\ g.hdr[a].alloc = d1[a].alloc
              /\ g.hdr[a].prev = IF a = b.next THEN new ELSE d1[a].prev
              /\ g.hdr[a].next = d1[a].next
              /\ g.hdr[a].next_free = IF a = b.prev_free THEN new ELSE d1[a].next_free
              /\ g.hdr[a].prev_free = IF a = b.next_free THEN new ELSE d1[a].prev_free
  <2> HIDE DEF b, E
  <2> QED
    BY <1>7, <1>15, <1>21
<1>23. /\ cur # b.next /\ cur # b.prev_free /\ cur # b.next_free
       /\ new # b.next /\ new # b.prev_free /\ new # b.next_free
  BY <1>1
<1>24. d1[new] = rest /\ d1[cur] = taken /\ \A a \in D \ {cur} : d1[a] = h.hdr[a] /\ a \in E
  <2> HIDE DEF rest, taken
  <2> QED
    BY <1>1, <1>5
<1>25. /\ g.hdr[new].size = b.size - len - HdrSize /\ g.hdr[new].alloc = 0
       /\ g.hdr[new].prev = cur /\ g.hdr[new].next = b.next
       /\ g.hdr[new].prev_free = b.prev_free /\ g.hdr[new].next_free = b.next_free
  <2> HIDE DEF b, E, D
  <2> QED
    BY <1>1, <1>3, <1>22, <1>23, <1>24
<1>26. /\ g.hdr[cur].size = len /\ g.hdr[cur].alloc = 1
       /\ g.hdr[cur].prev = b.prev /\ g.hdr[cur].next = new
       /\ g.hdr[cur].prev_free = NULL /\ g.hdr[cur].next_free = NULL
  <2> HIDE DEF b, E, D
  <2> QED
    BY <1>1, <1>4, <1>22, <1>23, <1>24
<1>27. \A a \in D \ {cur} :
         /\ g.hdr[a].size = h.hdr[a].size /\ g.hdr[a].alloc = h.hdr[a].alloc
         /\ g.hdr[a].prev = IF a = b.next THEN new ELSE h.hdr[a].prev
         /\ g.hdr[a].next = h.hdr[a].next
         /\ g.hdr[a].next_free = IF a = b.prev_free THEN new ELSE h.hdr[a].next_free
         /\ g.hdr[a].prev_free = IF a = b.next_free THEN new ELSE h.hdr[a].prev_free
  <2> HIDE DEF b, E
  <2> QED
    BY <1>22, <1>24
<1>28. g.hdr \in [E -> Headers]
  BY <1>15, <1>21
<1>29. Split(h, cur, len, new, g)
  BY <1>21, <1>25, <1>26, <1>27, <1>28, Zenon DEF Split, first, t, c
<1> QED
  BY <1>29 DEF new, g

LEMMA SplitKeeps ==
    ASSUME NEW h, HeapInv(h), NEW cur \in FreeBlocks(h), NEW len \in Nat,
           h.hdr[cur].size - len >= HdrSize + Align
    PROVE  Took(h, cur, len, SplitBlock(h, cur, len))
<1> DEFINE D == DOMAIN h.hdr
           F == FreeBlocks(h)
           U == UsedBlocks(h)
           b == h.hdr[cur]
           new == cur + HdrSize + len
           E == D \cup {new}
           g == SplitBlock(h, cur, len)
           prv == b.prev_free
           nxt == b.next_free
           after == b.next
           first == h.first_free
<1>1. /\ HeapIsTyped(h) /\ BlocksTile(h) /\ FreeIsListed(h, F)
      /\ BlocksAreCounted(h) /\ FreeAreApart(h, {})
  BY DEF HeapInv, HeapStage
<1>2. /\ cur \in D /\ D \subseteq Nat /\ NULL \notin D /\ h.hdr[cur].alloc = 0 /\ D \subseteq Addresses
      /\ IsFiniteSet(D) /\ F \subseteq D /\ U \subseteq D /\ cur \in Nat /\ b.size \in Nat
      /\ \A a \in D : a \in Nat /\ h.hdr[a].size \in Nat /\ h.hdr[a].alloc \in {0, 1}
      /\ NULL \notin F /\ cur \in F /\ h.hdr \in [D -> Headers]
  BY <1>1, BlocksAreAddresses DEF FreeBlocks, UsedBlocks, HeapIsTyped
<1>3. /\ EndOf(h, cur) <= BufLen /\ EndOf(h, cur) = cur + HdrSize + b.size
      /\ b.size - len - HdrSize \in Nat /\ new \in Nat /\ cur < new /\ new < EndOf(h, cur)
  <2>1. EndOf(h, cur) <= BufLen
    BY <1>1, <1>2, BlocksEnd
  <2> QED
    BY <1>2, <2>1, SizesAreNumbers DEF EndOf
<1>4. new \in Addresses
  BY <1>2, <1>3, SizesAreNumbers DEF Addresses, EndOf
<1>5. \A a \in D : cur < a => EndOf(h, cur) <= a
  BY <1>1, <1>2 DEF BlocksTile
<1>6. new \notin D
  <2>1. EndOf(h, cur) \in Nat
    BY <1>2, <1>3, SizesAreNumbers
  <2> QED
    BY <1>3, <1>5, <2>1
<1>7. after # NULL => after \in D /\ h.hdr[after].prev = cur /\ after # cur
  BY <1>1, <1>2, SizesAreNumbers DEF BlocksTile, EndOf
<1>8. /\ IsList(h.hdr, F, first, "next_free", "prev_free")
      /\ \A a \in D \ F : h.hdr[a].prev_free = NULL /\ h.hdr[a].next_free = NULL
  BY <1>1 DEF FreeIsListed
<1>9. (prv # NULL => prv \in F /\ prv # cur) /\ (nxt # NULL => nxt \in F /\ nxt # cur)
  <2> DEFINE x == h.hdr
  <2>0. prv = x[cur]["prev_free"] /\ nxt = x[cur]["next_free"]
    OBVIOUS
  <2>1. IsList(x, F, first, "next_free", "prev_free")
    BY <1>8
  <2> HIDE DEF x, F, prv, nxt, first
  <2>2. x[cur]["next_free"] # cur /\ x[cur]["prev_free"] # cur
    BY <1>2, <2>1, ListHasOrder
  <2>3. /\ x[cur]["prev_free"] # NULL => x[cur]["prev_free"] \in F
        /\ x[cur]["next_free"] # NULL => x[cur]["next_free"] \in F
    BY <1>2, <2>1 DEF IsList
  <2> QED
    BY <2>0, <2>2, <2>3
<1>10. Split(h, cur, len, new, g)
  <2>1. /\ after \in (D \ {cur}) \cup {NULL} /\ prv \in (D \ {cur}) \cup {NULL}
        /\ nxt \in (D \ {cur}) \cup {NULL}
    BY <1>2, <1>7, <1>9
  <2>2. new \in Addresses \ D
    BY <1>4, <1>6
  <2>3. h.hdr[cur].size - len - HdrSize \in Nat
    BY <1>3
  <2> HIDE DEF D
  <2> QED
    BY <1>1, <1>2, <2>1, <2>2, <2>3, SplitDoes DEF D
<1> HIDE DEF g
<1>11. /\ HeapIs(g, h.first, IF prv = NULL THEN new ELSE first,
                 g.hdr, h.total_used + len, h.header_count + 1, h.exited)
       /\ g.hdr \in [E -> Headers]
  BY <1>10, Zenon DEF Split
<1>12. /\ g.hdr[new].size = b.size - len - HdrSize /\ g.hdr[new].alloc = 0
       /\ g.hdr[new].prev = cur /\ g.hdr[new].next = after
       /\ g.hdr[new].prev_free = prv /\ g.hdr[new].next_free = nxt
       /\ g.hdr[cur].size = len /\ g.hdr[cur].alloc = 1
       /\ g.hdr[cur].prev = b.prev /\ g.hdr[cur].next = new
       /\ g.hdr[cur].prev_free = NULL /\ g.hdr[cur].next_free = NULL
  BY <1>10, Zenon DEF Split
<1>13. \A a \in D \ {cur} :
         /\ g.hdr[a].size = h.hdr[a].size /\ g.hdr[a].alloc = h.hdr[a].alloc
         /\ g.hdr[a].prev = IF a = after THEN new ELSE h.hdr[a].prev
         /\ g.hdr[a].next = h.hdr[a].next
         /\ g.hdr[a].next_free = IF a = prv THEN new ELSE h.hdr[a].next_free
         /\ g.hdr[a].prev_free = IF a = nxt THEN new ELSE h.hdr[a].prev_free
  BY <1>10, Zenon DEF Split
<1>14. HeapIsTyped(g) /\ DOMAIN g.hdr = E
  <2>1. E \subseteq Addresses
    BY <1>2, <1>4
  <2> DEFINE f == IF prv = NULL THEN new ELSE first
             t == h.total_used + len
             c == h.header_count + 1
             hdr == g.hdr
  <2>2. HeapIs(g, h.first, f, hdr, t, c, h.exited) /\ hdr \in [E -> Headers]
    BY <1>11
  <2> HIDE DEF f, t, c, hdr, E
  <2> QED
    BY <2>1, <2>2, HeapIsIsTyped
<1>15. /\ g.first = h.first /\ g.total_used = h.total_used + len
       /\ g.header_count = h.header_count + 1 /\ g.exited = h.exited
       /\ g.first_free = IF prv = NULL THEN new ELSE first
  BY <1>11, HeapFields
<1>16. new # cur /\ cur \in E /\ new \in E /\ \A a \in E : a = new \/ a = cur \/ a \in D \ {cur}
  BY <1>2, <1>6
<1> HIDE DEF b, new, prv, nxt, after, first
<1>17. UsedBlocks(g) = U \cup {cur} /\ FreeBlocks(g) = (F \ {cur}) \cup {new} /\ cur \notin U
  <2>1. cur \notin U
    BY <1>2 DEF UsedBlocks
  <2>2. UsedBlocks(g) = U \cup {cur}
    BY <1>2, <1>6, <1>12, <1>13, <1>14, <1>16 DEF UsedBlocks
  <2>3. FreeBlocks(g) = (F \ {cur}) \cup {new}
    BY <1>2, <1>6, <1>12, <1>13, <1>14, <1>16 DEF FreeBlocks
  <2> QED
    BY <2>1, <2>2, <2>3
<1>18. /\ EndOf(g, cur) = new /\ EndOf(g, new) = EndOf(h, cur)
       /\ \A a \in D \ {cur} : EndOf(g, a) = EndOf(h, a)
  <2>1. EndOf(g, cur) = new
    BY <1>12 DEF EndOf, new
  <2>2. EndOf(g, new) = EndOf(h, cur)
    BY <1>2, <1>3, <1>12, SizesAreNumbers DEF EndOf, new
  <2>3. \A a \in D \ {cur} : EndOf(g, a) = EndOf(h, a)
    BY <1>13 DEF EndOf
  <2> QED
    BY <2>1, <2>2, <2>3
<1>19. BlocksTile(g)
  <2>1. g.first = 0 /\ 0 \in DOMAIN g.hdr /\ g.hdr[0].prev = NULL
    <3>1. h.first = 0 /\ 0 \in D /\ h.hdr[0].prev = NULL
      BY <1>1 DEF BlocksTile
    <3>2. 0 # after
      BY <1>2, <1>7, <3>1
    <3> QED
      BY <1>12, <1>13, <1>14, <1>15, <3>1, <3>2 DEF b
  <2>2. ASSUME NEW a \in E
        PROVE  g.hdr[a].next # NULL => g.hdr[a].next \in E /\ g.hdr[g.hdr[a].next].prev = a
    <3>1. CASE a = cur
      BY <1>12, <1>16, <3>1
    <3>2. CASE a = new
      BY <1>7, <1>12, <1>13, <3>2
    <3>3. CASE a \in D \ {cur}
      <4>1. h.hdr[a].next # NULL => h.hdr[a].next \in D /\ h.hdr[h.hdr[a].next].prev = a
        BY <1>1, <3>3 DEF BlocksTile
      <4>2. h.hdr[a].next # NULL => h.hdr[a].next # after
        BY <1>7, <3>3, <4>1
      <4>3. h.hdr[a].next = cur => b.prev = a
        BY <1>2, <4>1 DEF b
      <4> QED
        BY <1>12, <1>13, <3>3, <4>1, <4>2, <4>3
    <3> QED
      BY <1>16, <3>1, <3>2, <3>3
  <2>3. ASSUME NEW a \in E
        PROVE  /\ g.hdr[a].prev = NULL => a = 0
               /\ g.hdr[a].prev # NULL => g.hdr[a].prev \in E /\ g.hdr[g.hdr[a].prev].next = a
    <3>1. CASE a = cur
      <4>1. /\ b.prev = NULL => cur = 0
            /\ b.prev # NULL => b.prev \in D /\ h.hdr[b.prev].next = cur
        BY <1>1, <1>2 DEF BlocksTile, b
      <4>2. b.prev # cur
        <5> SUFFICES ASSUME b.prev = cur PROVE FALSE
          OBVIOUS
        <5>1. after = cur
          BY <1>2, <4>1 DEF after, b
        <5> QED
          BY <1>2, <1>7, <5>1
      <4> QED
        BY <1>12, <1>13, <3>1, <4>1, <4>2
    <3>2. CASE a = new
      BY <1>2, <1>12, <1>16, <3>2
    <3>3. CASE a \in D \ {cur}
      <4>1. CASE a = after
        <5>1. g.hdr[a].prev = new
          BY <1>13, <3>3, <4>1
        <5> QED
          BY <1>3, <1>12, <1>16, <4>1, <5>1, SizesAreNumbers
      <4>2. CASE a # after
        <5>1. g.hdr[a].prev = h.hdr[a].prev
          BY <1>13, <3>3, <4>2
        <5>2. /\ h.hdr[a].prev = NULL => a = 0
              /\ h.hdr[a].prev # NULL => h.hdr[a].prev \in D /\ h.hdr[h.hdr[a].prev].next = a
          BY <1>1, <3>3 DEF BlocksTile
        <5>3. h.hdr[a].prev # NULL => h.hdr[a].prev # cur
          BY <4>2, <5>2 DEF after, b
        <5> QED
          BY <1>13, <5>1, <5>2, <5>3
      <4> QED
        BY <4>1, <4>2
    <3> QED
      BY <1>16, <3>1, <3>2, <3>3
  <2>4. ASSUME NEW a \in E
        PROVE  EndOf(g, a) = IF g.hdr[a].next = NULL THEN BufLen ELSE g.hdr[a].next
    <3>1. \A c \in D : EndOf(h, c) = IF h.hdr[c].next = NULL THEN BufLen ELSE h.hdr[c].next
      BY <1>1 DEF BlocksTile
    <3>2. new # NULL
      BY <1>3, SizesAreNumbers
    <3>3. CASE a = cur
      BY <1>12, <1>18, <3>2, <3>3
    <3>4. CASE a = new
      BY <1>2, <1>12, <1>18, <3>1, <3>4 DEF b, after
    <3>5. CASE a \in D \ {cur}
      BY <1>13, <1>18, <3>1, <3>5
    <3> QED
      BY <1>16, <3>3, <3>4, <3>5
  <2>5. ASSUME NEW a \in E, NEW c \in E, a < c PROVE EndOf(g, a) <= c
    <3>1. \A x, y \in D : x < y => EndOf(h, x) <= y
      BY <1>1 DEF BlocksTile
    <3>2. /\ EndOf(h, cur) \in Nat /\ new \in Nat /\ cur < new /\ new < EndOf(h, cur) /\ cur \in Nat
      BY <1>2, <1>3, SizesAreNumbers
    <3>3. CASE a = cur
      <4>1. c # cur
        BY <2>5, <1>2, <3>3
      <4>2. c = new \/ EndOf(h, cur) <= c
        BY <1>2, <1>16, <2>5, <3>1, <3>3, <4>1
      <4>3. c \in Nat
        BY <1>2, <1>3
      <4> QED
        BY <1>18, <3>2, <3>3, <4>2, <4>3
    <3>4. CASE a = new
      <4>1. c \in D /\ cur < c
        BY <1>2, <1>16, <2>5, <3>2, <3>4
      <4> QED
        BY <1>2, <1>18, <3>1, <3>4, <4>1
    <3>5. CASE a \in D \ {cur}
      <4>1. CASE c = new
        <5>1. a < cur
          <6>1. ~(cur < a)
            <7> SUFFICES ASSUME cur < a PROVE FALSE
              OBVIOUS
            <7>1. EndOf(h, cur) <= a /\ a \in Nat /\ a < new
              BY <1>2, <2>5, <3>1, <3>5, <4>1
            <7> QED
              BY <3>2, <7>1
          <6>2. a \in Nat /\ a # cur
            BY <1>2, <3>5
          <6> QED
            BY <3>2, <6>1, <6>2
        <5>2. EndOf(h, a) <= cur /\ EndOf(h, a) \in Int
          BY <1>2, <3>1, <3>5, <5>1, SizesAreNumbers DEF EndOf
        <5> QED
          BY <1>18, <3>2, <3>5, <4>1, <5>2
      <4>2. CASE c # new
        BY <1>2, <1>16, <1>18, <2>5, <3>1, <3>5, <4>2
      <4> QED
        BY <4>1, <4>2
    <3> QED
      BY <1>16, <3>3, <3>4, <3>5
  <2> QED
    BY <1>14, <2>1, <2>2, <2>3, <2>4, <2>5 DEF BlocksTile
<1>20. FreeIsListed(g, (F \ {cur}) \cup {new})
  <2> DEFINE x == h.hdr
             y == g.hdr
  <2>1. new \notin F /\ new # NULL
    BY <1>2, <1>3, <1>6, SizesAreNumbers
  <2>2. y[new]["next_free"] = x[cur]["next_free"] /\ y[new]["prev_free"] = x[cur]["prev_free"]
    BY <1>12 DEF prv, nxt, b
  <2>3. \A a \in F \ {cur} :
          /\ y[a]["next_free"] = IF a = x[cur]["prev_free"] THEN new ELSE x[a]["next_free"]
          /\ y[a]["prev_free"] = IF a = x[cur]["next_free"] THEN new ELSE x[a]["prev_free"]
    BY <1>2, <1>13 DEF prv, nxt, b
  <2>4. IsList(x, F, first, "next_free", "prev_free")
    BY <1>8
  <2>5. g.first_free = IF x[cur]["prev_free"] = NULL THEN new ELSE first
    BY <1>15 DEF prv, b
  <2>6. \A a \in E \ ((F \ {cur}) \cup {new}) : y[a].prev_free = NULL /\ y[a].next_free = NULL
    <3> TAKE a \in E \ ((F \ {cur}) \cup {new})
    <3>1. CASE a = cur
      BY <1>12, <3>1
    <3>2. CASE a # cur
      <4>1. a \in D \ F /\ a \in D \ {cur}
        BY <1>2, <3>2
      <4>2. a # prv /\ a # nxt
        BY <1>2, <1>9, <4>1
      <4> QED
        BY <1>8, <1>13, <4>1, <4>2
    <3> QED
      BY <3>1, <3>2
  <2> HIDE DEF x, y, F
  <2>7. IsList(y, (F \ {cur}) \cup {new}, IF x[cur]["prev_free"] = NULL THEN new ELSE first,
               "next_free", "prev_free")
    BY <1>2, <2>1, <2>2, <2>3, <2>4, ListInstead
  <2> QED
    BY <1>14, <1>17, <2>5, <2>6, <2>7 DEF FreeIsListed, F, y
<1>21. FreeAreApart(g, {})
  <2> SUFFICES ASSUME NEW a \in E, g.hdr[a].alloc = 0, g.hdr[a].next # NULL,
                      g.hdr[g.hdr[a].next].alloc = 0
               PROVE  FALSE
    BY <1>14 DEF FreeAreApart
  <2>0. \A c \in D : ~(h.hdr[c].alloc = 0 /\ h.hdr[c].next # NULL /\ h.hdr[h.hdr[c].next].alloc = 0)
    BY <1>1 DEF FreeAreApart
  <2>1. CASE a = cur
    BY <1>12, <2>1
  <2>2. CASE a = new
    <3>1. after # NULL /\ after \in D \ {cur} /\ g.hdr[after].alloc = 0
      BY <1>7, <1>12, <2>2
    <3>2. h.hdr[after].alloc = 0
      BY <1>13, <3>1
    <3> QED
      BY <1>2, <2>0, <3>1, <3>2 DEF after, b
  <2>3. CASE a \in D \ {cur}
    <3>1. h.hdr[a].alloc = 0 /\ g.hdr[a].next = h.hdr[a].next /\ h.hdr[a].next \in D
      BY <1>1, <1>13, <2>3 DEF BlocksTile
    <3>2. h.hdr[h.hdr[a].next].alloc = 0
      BY <1>2, <1>13, <3>1
    <3> QED
      BY <2>0, <2>3, <3>1, <3>2
  <2> QED
    BY <1>16, <2>1, <2>2, <2>3
<1>22. BlocksAreCounted(g)
  <2>1. IsFiniteSet(U)
    BY <1>1, BlocksAreUsedOrFree
  <2>2. \A a \in U : h.hdr[a].size = g.hdr[a].size
    BY <1>2, <1>13, <1>17
  <2>3. Sized(g.hdr, U \cup {cur})
    BY <1>2, <1>12, <1>13 DEF Sized
  <2>4. /\ SizeSum(g.hdr, U \cup {cur}) = SizeSum(h.hdr, U) + g.hdr[cur].size
    BY <1>17, <2>1, <2>2, <2>3, OneMoreIsCounted
  <2>5. g.total_used = SizeSum(g.hdr, UsedBlocks(g))
    BY <1>1, <1>12, <1>15, <1>17, <2>4 DEF BlocksAreCounted
  <2>6. Cardinality(E) = Cardinality(D) + 1 /\ Cardinality(D) \in Nat
    BY <1>2, <1>6, FS_AddElement, FS_CardinalityType
  <2>7. g.header_count = Cardinality(E) - 1 /\ ~g.exited
    BY <1>1, <1>15, <2>6 DEF BlocksAreCounted
  <2> QED
    BY <1>14, <2>5, <2>7 DEF BlocksAreCounted
<1>23. HeapInv(g)
  BY <1>14, <1>17, <1>19, <1>20, <1>21, <1>22 DEF HeapInv, HeapStage
<1>24. g.hdr[cur].size >= len /\ \A a \in U : g.hdr[a].size = h.hdr[a].size
  BY <1>2, <1>12, <1>13, <1>17
<1> QED
  BY <1>17, <1>23, <1>24 DEF Took, g

\* The call fails and changes nothing, or the pointer is new and has the room
\* asked for.
Got(h, need, r) ==
    \/ r.ptr = NULL /\ r.heap = h
    \/ /\ r.ptr \in Addresses \ Ptrs(h)
       /\ HeapInv(r.heap) /\ Ptrs(r.heap) = Ptrs(h) \cup {r.ptr}
       /\ Room(r.heap, r.ptr) >= need /\ RoomIsLeft(h, r.heap)

LEMMA TookIsGot ==
    ASSUME NEW h, HeapInv(h), NEW cur \in FreeBlocks(h), NEW len \in Nat \ {0}, NEW g, Took(h, cur, len, g),
           NEW need \in Nat, need <= len
    PROVE  Got(h, need, [heap |-> g, ptr |-> cur + HdrSize])
<1> DEFINE ptr == cur + HdrSize
           U == UsedBlocks(h)
<1>1. HeapIsTyped(h) /\ HeapIsTyped(g) /\ BlocksTile(g) /\ HeapInv(g)
  BY DEF Took, HeapInv, HeapStage
<1>2. UsedBlocks(g) = U \cup {cur} /\ g.hdr[cur].size >= len
      /\ \A a \in U : g.hdr[a].size = h.hdr[a].size
  BY DEF Took
<1>3. cur \in DOMAIN g.hdr /\ cur \notin U /\ cur \in Nat /\ g.hdr[cur].size \in Nat
  <2>1. cur \in UsedBlocks(g)
    BY <1>2
  <2>2. cur \notin U
    BY DEF FreeBlocks, UsedBlocks
  <2> QED
    BY <1>1, <2>1, <2>2, BlocksAreAddresses DEF UsedBlocks
<1>4. ptr \in Addresses
  <2>1. EndOf(g, cur) <= BufLen
    BY <1>1, <1>3, BlocksEnd
  <2> QED
    BY <1>2, <1>3, <2>1, SizesAreNumbers DEF EndOf, Addresses
<1>5. U \subseteq Nat
  BY <1>1, PtrsAreNumbers
<1>6. ptr \notin Ptrs(h)
  BY <1>3, <1>5, SizesAreNumbers DEF Ptrs
<1>7. Ptrs(g) = Ptrs(h) \cup {ptr}
  BY <1>2 DEF Ptrs
<1>8. Room(g, ptr) >= need
  <2>1. Room(g, ptr) = g.hdr[cur].size
    BY <1>3, SizesAreNumbers DEF Room
  <2> QED
    BY <1>2, <1>3, <2>1
<1>9. RoomIsLeft(h, g)
  <2> SUFFICES ASSUME NEW q \in Ptrs(h) PROVE Room(g, q) = Room(h, q)
    BY DEF RoomIsLeft
  <2>1. q - HdrSize \in U
    BY <1>1, PtrsAreNumbers
  <2> QED
    BY <1>2, <2>1 DEF Room
<1> HIDE DEF ptr
<1> QED
  BY <1>1, <1>4, <1>6, <1>7, <1>8, <1>9 DEF Got, ptr

LEMMA CallocKeeps ==
    ASSUME NEW h, HeapInv(h), NEW n \in Nat, NEW size \in Nat
    PROVE  Got(h, n * size, Calloc(h, n, size))
<1> DEFINE len0 == (n * size) % SizeMod
           len == AlignUp(len0)
           cur == FindFit(h, len)
           refused == \/ h.first = NULL
                      \/ n = 0 \/ size = 0
                      \/ len0 \div n # size
                      \/ len0 > SizeMod - Align
           after == IF h.hdr[cur].size - len < HdrSize + Align
                    THEN TakeBlock(h, cur) ELSE SplitBlock(h, cur, len)
           r == Calloc(h, n, size)
<1>1. r = IF refused \/ cur = NULL
          THEN [heap |-> h, ptr |-> NULL]
          ELSE IF h.hdr[cur].alloc # 0
          THEN [heap |-> [h EXCEPT !.exited = TRUE], ptr |-> NULL]
          ELSE [heap |-> after, ptr |-> cur + HdrSize]
  BY Zenon DEF Calloc
<1>2. len0 \in Nat
  <2>1. n * size \in Nat
    OBVIOUS
  <2> QED
    BY <2>1, SizesAreNumbers
<1> HIDE DEF r, len0
<1>3. len \in Nat /\ len >= len0
  BY <1>2, RoundedUp
<1> HIDE DEF len
<1>4. CASE refused \/ cur = NULL
  <2>1. r = [heap |-> h, ptr |-> NULL]
    BY <1>1, <1>4, Zenon
  <2> QED
    BY <2>1 DEF Got, r
<1>5. CASE ~refused /\ cur # NULL
  <2> HIDE DEF cur
  <2>1. cur \in FreeBlocks(h) /\ h.hdr[cur].size >= len
    BY <1>3, <1>5, FitIsFound DEF cur
  <2>2. h.hdr[cur].alloc = 0
    BY <2>1 DEF FreeBlocks
  <2>3. r = [heap |-> after, ptr |-> cur + HdrSize]
    BY <1>1, <1>5, <2>2
  <2>4. n \in Nat \ {0} /\ size \in Nat \ {0} /\ len0 \div n = size
    BY <1>5
  <2>5. n * size <= len0 /\ n * size \in Nat \ {0}
    <3>1. n * (len0 \div n) <= len0
      BY <1>2, <2>4
    <3>2. n * size \in Nat \ {0}
      BY <2>4
    <3> QED
      BY <2>4, <3>1, <3>2
  <2>6. n * size <= len /\ len \in Nat \ {0}
    <3> DEFINE m == n * size
    <3>1. m \in Nat \ {0} /\ m <= len0
      BY <2>5
    <3> HIDE DEF m
    <3>2. m <= len /\ len \in Nat \ {0}
      BY <1>2, <1>3, <3>1
    <3> QED
      BY <3>2 DEF m
  <2>7. Took(h, cur, len, after)
    <3>0. HeapIsTyped(h)
      BY DEF HeapInv, HeapStage
    <3>1. h.hdr[cur].size \in Nat
      BY <2>1, <3>0, BlocksAreAddresses DEF FreeBlocks
    <3>2. CASE h.hdr[cur].size - len < HdrSize + Align
      <4>1. Took(h, cur, h.hdr[cur].size, TakeBlock(h, cur))
        BY <2>1, TakeKeeps
      <4>2. after = TakeBlock(h, cur)
        BY <3>2
      <4> HIDE DEF after
      <4>3. after.hdr[cur].size >= len
        <5>1. cur \in UsedBlocks(after) /\ HeapIsTyped(after) /\ after.hdr[cur].size >= h.hdr[cur].size
          BY <4>1, <4>2 DEF Took, HeapInv, HeapStage
        <5>2. after.hdr[cur].size \in Nat
          BY <5>1, BlocksAreAddresses DEF UsedBlocks
        <5> QED
          BY <1>3, <2>1, <3>1, <5>1, <5>2
      <4> QED
        BY <4>1, <4>2, <4>3 DEF Took
    <3>3. CASE ~(h.hdr[cur].size - len < HdrSize + Align)
      <4>1. h.hdr[cur].size - len >= HdrSize + Align
        BY <1>3, <3>1, <3>3, SizesAreNumbers
      <4>2. after = SplitBlock(h, cur, len)
        BY <3>3
      <4> HIDE DEF after
      <4> QED
        BY <1>3, <2>1, <4>1, <4>2, SplitKeeps
    <3> QED
      BY <3>2, <3>3
  <2> DEFINE m == n * size
  <2>8. m \in Nat /\ m <= len
    BY <2>5, <2>6
  <2> HIDE DEF m, after
  <2>9. Got(h, m, [heap |-> after, ptr |-> cur + HdrSize])
    BY <2>1, <2>6, <2>7, <2>8, TookIsGot
  <2>10. Got(h, m, r)
    BY <2>3, <2>9
  <2> QED
    BY <2>10 DEF m, r
<1> QED
  BY <1>4, <1>5

-----------------------------------------------------------------------------
(* The chain of the cache.                                                 *)

IsSeq(q) == q \in Seq({q[i] : i \in 1 .. Len(q)})

\* The entries that are used carry the session last asked for their
\* identifiers, one entry for each.
ChainIsRight ==
    /\ IsSeq(chain)
    /\ \A k \in 1 .. Len(chain) : chain[k].timestamp \in Nat
    /\ \A j, k \in 1 .. Len(chain) : chain[j].id = chain[k].id /\ chain[j].id # NoId => j = k
    /\ \A k \in 1 .. Len(chain) :
         chain[k].id # NoId => /\ chain[k].id \in Ids
                               /\ chain[k].session = asked[chain[k].id]

ClockIsRight ==
    /\ asked \in [Ids -> Sessions \cup {NoSession}]
    /\ timeout \in Nat /\ max_entries \in Nat /\ build \in Builds /\ now \in 1 .. MaxTime

CacheInv == ChainIsRight /\ ClockIsRight

LEMMA LengthIsNumber ==
    ASSUME NEW q, IsSeq(q)
    PROVE  Len(q) \in Nat /\ DOMAIN q = 1 .. Len(q)
BY DEF IsSeq

\* ssl_cache_find_entry() finds an entry with the identifier that is not
\* outdated, if there is one.
FindsTheEntry ==
    \A id : LET k == FindEntry(id)
            IN  \/ /\ k = 0
                   /\ \A j \in 1 .. Len(chain) : Outdated(chain[j]) \/ chain[j].id # id
                \/ k \in 1 .. Len(chain) /\ ~Outdated(chain[k]) /\ chain[k].id = id

LEMMA EntryIsFound == FindsTheEntry
<1> SUFFICES ASSUME NEW id
             PROVE  LET k == FindEntry(id)
                    IN  \/ /\ k = 0
                           /\ \A j \in 1 .. Len(chain) : Outdated(chain[j]) \/ chain[j].id # id
                        \/ k \in 1 .. Len(chain) /\ ~Outdated(chain[k]) /\ chain[k].id = id
  BY DEF FindsTheEntry
<1> DEFINE I == {i \in 1 .. Len(chain) : ~Outdated(chain[i]) /\ chain[i].id = id}
<1>1. FindEntry(id) = IF I # {} THEN Min(I) ELSE 0
  BY Zenon DEF FindEntry, SelectInSeq
<1>2. I # {} => Min(I) \in I
  <2>1. I \subseteq Nat
    OBVIOUS
  <2> HIDE DEF I
  <2> QED
    BY <2>1, MinIsLeast
<1> QED
  BY <1>1, <1>2

\* mbedtls_ssl_cache_get() returns the session of the entry with the
\* identifier, unless it is outdated.
GetsTheSession ==
    \A id \in Ids :
      /\ \A k \in 1 .. Len(chain) :
            chain[k].id = id => CacheGet(id) = IF Outdated(chain[k]) THEN NoSession
                                               ELSE chain[k].session
      /\ ~(\E k \in 1 .. Len(chain) : chain[k].id = id) => CacheGet(id) = NoSession
      /\ FindEntry(id) # 0 => /\ FindEntry(id) \in 1 .. Len(chain)
                              /\ chain[FindEntry(id)].id = id
                              /\ ~Outdated(chain[FindEntry(id)])

LEMMA SessionIsGot == CacheInv => GetsTheSession
<1> SUFFICES ASSUME CacheInv, NEW id \in Ids
             PROVE /\ \A k \in 1 .. Len(chain) :
                        chain[k].id = id => CacheGet(id) = IF Outdated(chain[k]) THEN NoSession
                                                           ELSE chain[k].session
                   /\ ~(\E k \in 1 .. Len(chain) : chain[k].id = id) => CacheGet(id) = NoSession
                   /\ FindEntry(id) # 0 => /\ FindEntry(id) \in 1 .. Len(chain)
                                           /\ chain[FindEntry(id)].id = id
                                           /\ ~Outdated(chain[FindEntry(id)])
  BY DEF GetsTheSession
<1> DEFINE k == FindEntry(id)
<1>1. \/ /\ k = 0
         /\ \A j \in 1 .. Len(chain) : Outdated(chain[j]) \/ chain[j].id # id
      \/ k \in 1 .. Len(chain) /\ ~Outdated(chain[k]) /\ chain[k].id = id
  BY EntryIsFound, Zenon DEF FindsTheEntry
<1>2. CacheGet(id) = IF k = 0 THEN NoSession ELSE chain[k].session
  BY DEF CacheGet
<1>3. \A j \in 1 .. Len(chain) : chain[j].id = id /\ k \in 1 .. Len(chain) /\ chain[k].id = id => j = k
  BY CacheConstants DEF CacheInv, ChainIsRight
<1>4. 0 \notin 1 .. Len(chain)
  BY LengthIsNumber DEF CacheInv, ChainIsRight
<1> HIDE DEF k
<1>5. \A j \in 1 .. Len(chain) :
         chain[j].id = id => CacheGet(id) = IF Outdated(chain[j]) THEN NoSession
                                            ELSE chain[j].session
  BY <1>1, <1>2, <1>3, <1>4
<1> QED
  BY <1>1, <1>2, <1>4, <1>5 DEF k

LEMMA GetIsRight == CacheInv => ServesLatest
<1> SUFFICES ASSUME CacheInv, NEW id \in Ids PROVE CacheGet(id) \in {asked[id], NoSession}
  BY DEF ServesLatest
<1>1. CASE FindEntry(id) = 0
  BY <1>1 DEF CacheGet
<1>2. CASE FindEntry(id) # 0
  <2>1. FindEntry(id) \in 1 .. Len(chain) /\ chain[FindEntry(id)].id = id
    BY <1>2, SessionIsGot DEF GetsTheSession
  <2>2. chain[FindEntry(id)].session = asked[id]
    BY <2>1, CacheConstants DEF CacheInv, ChainIsRight
  <2> QED
    BY <1>2, <2>2 DEF CacheGet
<1> QED
  BY <1>1, <1>2

\* No entry has the identifier.
Absent(id) == \A j \in 1 .. Len(chain) : chain[j].id # id

\* The cache is full, and the entry at k is an oldest one.
MakesRoom(k) ==
    /\ Len(chain) >= max_entries /\ have_time
    /\ \A j \in 1 .. Len(chain) : chain[k].timestamp <= chain[j].timestamp

\* The entries that ssl_cache_pick_writing_slot() may use again.
MayBeUsed(id, k) ==
    \/ chain[k].id = id
    \/ Absent(id) /\ (Outdated(chain[k]) \/ MakesRoom(k))

\* What ssl_cache_pick_writing_slot() does with the chain.
SlotIsRight(id, pick) ==
    \/ /\ ~pick.ok /\ pick.chain = chain /\ Absent(id)
    \/ /\ pick.ok
       /\ \E k \in 1 .. Len(chain) :
            /\ pick = Reuse(k)
            /\ MayBeUsed(id, k)
    \/ /\ pick.ok /\ pick.at = Len(chain) + 1 /\ Absent(id)
       /\ pick = NewEntry
       /\ \E p : /\ pick.entry = [Blank(p) EXCEPT !.timestamp = Time]
                 /\ pick.chain = Append(chain, pick.entry)
    \/ /\ pick.ok /\ Absent(id)
       /\ chain # <<>> /\ ~have_time /\ Len(chain) >= max_entries
       /\ pick = MoveFirst
       /\ pick.entry = Reused(Head(chain))
       /\ \/ Len(chain) = 1 /\ pick.chain = <<>> /\ pick.at = 0
          \/ Len(chain) > 1 /\ pick.chain = Append(Tail(chain), pick.entry) /\ pick.at = Len(chain)

LEMMA SlotIsPicked ==
    ASSUME CacheInv, NEW id \in Ids
    PROVE  SlotIsRight(id, PickWritingSlot(id))
<1> DEFINE Same == {i \in 1 .. Len(chain) : chain[i].id = id}
           Late == {i \in 1 .. Len(chain) : Outdated(chain[i])}
           Old == {i \in 1 .. Len(chain) :
                     \A k \in 1 .. Len(chain) : chain[i].timestamp <= chain[k].timestamp}
           pick == PickWritingSlot(id)
           same == IF Same # {} THEN Min(Same) ELSE 0
           late == IF Late # {} THEN Min(Late) ELSE 0
<1>1. pick = IF same # 0 THEN Reuse(same)
             ELSE IF late # 0 THEN Reuse(late)
             ELSE IF Len(chain) < max_entries THEN NewEntry
             ELSE IF chain = <<>> THEN NotPicked(heap)
             ELSE IF have_time THEN Reuse(Oldest) ELSE MoveFirst
  BY DEF PickWritingSlot, SelectInSeq
<1>2. Oldest = IF Old # {} THEN Min(Old) ELSE 0
  BY DEF Oldest, SelectInSeq
<1>3. /\ Same # {} => Min(Same) \in Same
      /\ Late # {} => Min(Late) \in Late
      /\ Old # {} => Min(Old) \in Old
  <2>1. Same \subseteq Nat /\ Late \subseteq Nat /\ Old \subseteq Nat
    OBVIOUS
  <2> HIDE DEF Same, Late, Old
  <2> QED
    BY <2>1, MinIsLeast
<1>4. chain # <<>> => Old # {}
  <2> SUFFICES ASSUME chain # <<>> PROVE Old # {}
    OBVIOUS
  <2> DEFINE S == {chain[k].timestamp : k \in 1 .. Len(chain)}
  <2>1. S \subseteq Nat /\ S # {}
    <3>1. Len(chain) \in Nat /\ Len(chain) # 0
      BY DEF CacheInv, ChainIsRight, IsSeq
    <3>2. 1 \in 1 .. Len(chain)
      BY <3>1
    <3> QED
      BY <3>2 DEF CacheInv, ChainIsRight
  <2>2. PICK x \in S : \A y \in S : x <= y
    <3> HIDE DEF S
    <3> QED
      BY <2>1, LeastNumber
  <2> QED
    BY <2>2
<1>5. Len(chain) \in Nat
  BY LengthIsNumber DEF CacheInv, ChainIsRight
<1>6. 0 \notin 1 .. Len(chain)
  BY <1>5
<1>7. \A k : Reuse(k).ok
  BY DEF Reuse, Picked
<1>8. CASE same # 0
  <2>1. same \in 1 .. Len(chain) /\ chain[same].id = id /\ pick = Reuse(same)
    BY <1>1, <1>3, <1>8
  <2> HIDE DEF same, pick
  <2> QED
    BY <2>1, <1>7 DEF SlotIsRight, MayBeUsed, pick
<1>9. ASSUME same = 0 PROVE Absent(id)
  <2>1. Same = {}
    BY <1>3, <1>6, <1>9
  <2> QED
    BY <2>1 DEF Absent
<1>10. CASE same = 0 /\ late # 0
  <2>1. late \in 1 .. Len(chain) /\ Outdated(chain[late]) /\ pick = Reuse(late)
    BY <1>1, <1>3, <1>10
  <2> HIDE DEF same, late, pick
  <2> QED
    BY <2>1, <1>7, <1>9, <1>10 DEF SlotIsRight, MayBeUsed, pick
<1> DEFINE e(p) == [Blank(p) EXCEPT !.timestamp = Time]
<1>11. CASE same = 0 /\ late = 0 /\ Len(chain) < max_entries
  <2>1. pick = NewEntry
    BY <1>1, <1>11
  <2>2. Absent(id)
    BY <1>9, <1>11
  <2> HIDE DEF same, late, pick
  <2> QED
    BY <2>1, <2>2 DEF SlotIsRight, NewEntry, Picked, NotPicked, pick
<1> DEFINE full == same = 0 /\ late = 0 /\ ~(Len(chain) < max_entries)
<1>12. ASSUME full PROVE Len(chain) >= max_entries
  BY <1>5, <1>12 DEF CacheInv, ClockIsRight
<1>13. CASE full /\ chain = <<>>
  <2>1. pick = NotPicked(heap) /\ Absent(id)
    BY <1>1, <1>9, <1>13
  <2> HIDE DEF same, late, pick
  <2> QED
    BY <2>1 DEF SlotIsRight, NotPicked, pick
<1>14. CASE full /\ chain # <<>> /\ have_time
  <2>1. pick = Reuse(Oldest) /\ Absent(id) /\ Len(chain) >= max_entries
    BY <1>1, <1>9, <1>12, <1>14
  <2>2. Oldest \in Old
    BY <1>2, <1>3, <1>4, <1>14
  <2> HIDE DEF same, late, pick
  <2>3. Oldest \in 1 .. Len(chain) /\ MakesRoom(Oldest)
    BY <2>1, <2>2, <1>14 DEF MakesRoom
  <2> QED
    BY <2>1, <2>3, <1>7 DEF SlotIsRight, MayBeUsed, pick
<1>15. CASE full /\ chain # <<>> /\ ~have_time
  <2>1. pick = MoveFirst /\ Absent(id) /\ Len(chain) >= max_entries
    BY <1>1, <1>9, <1>12, <1>15
  <2>2. Len(chain) # 0
    BY <1>5, <1>15 DEF CacheInv, ChainIsRight, IsSeq
  <2>3. Len(chain) = 1 \/ Len(chain) > 1
    <3> DEFINE n == Len(chain)
    <3>1. n \in Nat /\ n # 0
      BY <1>5, <2>2
    <3> HIDE DEF n
    <3>2. n = 1 \/ n > 1
      BY <3>1
    <3> QED
      BY <3>2 DEF n
  <2> HIDE DEF same, late, pick
  <2> QED
    BY <2>1, <2>3, <1>15 DEF SlotIsRight, MoveFirst, Picked, pick
<1> HIDE DEF same, late
<1> QED
  BY <1>8, <1>10, <1>11, <1>13, <1>14, <1>15

\* A chain without the identifier, all of whose entries are right.
RightWithout(q, id) ==
    /\ IsSeq(q)
    /\ \A k \in 1 .. Len(q) : q[k].timestamp \in Nat
    /\ \A j, k \in 1 .. Len(q) : q[j].id = q[k].id /\ q[j].id # NoId => j = k
    /\ \A k \in 1 .. Len(q) :
         q[k].id # NoId => q[k].id \in Ids \ {id} /\ q[k].session = asked[q[k].id]

LEMMA TimeIsNumber == CacheInv => Time \in Nat
BY DEF CacheInv, ClockIsRight, Time

\* An entry that is used again has no identifier.
LEMMA ReusedIsBlank ==
    ASSUME NEW e
    PROVE  Reused(e) = [addr |-> e.addr, id |-> NoId, ptr |-> NULL, session |-> NoSession,
                        timestamp |-> Time]
BY DEF Reused, Blank

\* Replacing an entry.
IsReplaced(r, q, k, e) ==
    /\ IsSeq(r) /\ Len(r) = Len(q)
    /\ \A j \in 1 .. Len(q) : r[j] = IF j = k THEN e ELSE q[j]

LEMMA Replacing ==
    ASSUME NEW q, IsSeq(q), NEW k \in 1 .. Len(q), NEW e
    PROVE  IsReplaced([q EXCEPT ![k] = e], q, k, e)
<1> DEFINE r == [q EXCEPT ![k] = e]
           S == {q[i] : i \in 1 .. Len(q)} \cup {e}
<1>1. q \in Seq(S)
  <2>1. {q[i] : i \in 1 .. Len(q)} \subseteq S
    OBVIOUS
  <2> HIDE DEF S
  <2> QED
    BY <2>1, SeqMonotonic, Zenon DEF IsSeq
<1>2. k \in DOMAIN q /\ e \in S
  BY <1>1
<1>3. r \in Seq(S) /\ Len(r) = Len(q)
  <2> HIDE DEF S
  <2> QED
    BY <1>1, <1>2
<1>4. \A j \in 1 .. Len(q) : r[j] = IF j = k THEN e ELSE q[j]
  BY <1>1
<1>5. IsSeq(r)
  <2>1. r \in [1 .. Len(r) -> {r[i] : i \in 1 .. Len(r)}] /\ Len(r) \in Nat
    <3> HIDE DEF S
    <3>1. r \in [1 .. Len(r) -> S] /\ Len(r) \in Nat
      BY <1>3
    <3> HIDE DEF r
    <3> QED
      BY <3>1
  <2> HIDE DEF r, S
  <2> QED
    BY <2>1, SMTT(30) DEF IsSeq
<1> HIDE DEF r, S
<1>6. IsReplaced(r, q, k, e)
  BY <1>3, <1>4, <1>5 DEF IsReplaced
<1> QED
  BY <1>6 DEF r

\* A sequence given element by element.
LEMMA SequenceOf ==
    ASSUME NEW n \in Nat, NEW r, DOMAIN r = 1 .. n, r = [i \in 1 .. n |-> r[i]]
    PROVE  IsSeq(r) /\ Len(r) = n
<1>1. r \in [1 .. n -> {r[i] : i \in 1 .. n}]
  OBVIOUS
<1>2. r \in Seq({r[i] : i \in 1 .. n}) /\ Len(r) = n
  BY <1>1
<1> QED
  BY <1>2 DEF IsSeq

LEMMA Appending ==
    ASSUME NEW q, IsSeq(q), NEW e
    PROVE  LET r == Append(q, e)
           IN  /\ IsSeq(r) /\ Len(r) = Len(q) + 1
               /\ r[Len(q) + 1] = e
               /\ \A j \in 1 .. Len(q) : r[j] = q[j]
<1> DEFINE S == {q[i] : i \in 1 .. Len(q)} \cup {e}
           r == Append(q, e)
<1>1. q \in Seq(S) /\ e \in S
  <2>1. {q[i] : i \in 1 .. Len(q)} \subseteq S /\ e \in S
    OBVIOUS
  <2> HIDE DEF S
  <2> QED
    BY <2>1, SeqMonotonic, Zenon DEF IsSeq
<1> HIDE DEF S
<1>2. /\ r \in Seq(S) /\ Len(r) = Len(q) + 1
      /\ r[Len(q) + 1] = e
      /\ \A j \in 1 .. Len(q) : r[j] = q[j]
  BY <1>1
<1>3. IsSeq(r)
  <2> HIDE DEF r
  <2>1. Len(r) \in Nat /\ DOMAIN r = 1 .. Len(r) /\ r = [i \in 1 .. Len(r) |-> r[i]]
    BY <1>2
  <2> QED
    BY <2>1, SequenceOf
<1> QED
  BY <1>2, <1>3

LEMMA TakingTheTail ==
    ASSUME NEW q, IsSeq(q), q # <<>>
    PROVE  LET r == Tail(q)
           IN  /\ IsSeq(r) /\ Len(r) + 1 = Len(q) /\ Len(r) \in Nat
               /\ Head(q) = q[1]
               /\ \A j \in 1 .. Len(r) : j + 1 \in 1 .. Len(q) /\ r[j] = q[j + 1]
<1> DEFINE S == {q[i] : i \in 1 .. Len(q)}
           r == Tail(q)
<1>1. q \in Seq(S)
  BY DEF IsSeq
<1> HIDE DEF S
<1>2. r \in Seq(S) /\ Len(r) + 1 = Len(q) /\ Len(q) # 0 /\ Head(q) = q[1]
  BY <1>1
<1>3. \A j \in 1 .. Len(r) : j + 1 \in 1 .. Len(q) /\ r[j] = q[j + 1]
  BY <1>1, <1>2
<1>4. IsSeq(r)
  <2> HIDE DEF r
  <2>1. Len(r) \in Nat /\ DOMAIN r = 1 .. Len(r) /\ r = [i \in 1 .. Len(r) |-> r[i]]
    BY <1>2
  <2> QED
    BY <2>1, SequenceOf
<1> QED
  BY <1>2, <1>3, <1>4

LEMMA Removing ==
    ASSUME NEW q, IsSeq(q), NEW k \in 1 .. Len(q)
    PROVE  LET r == RemoveAt(q, k)
               from(j) == IF j < k THEN j ELSE j + 1
           IN  /\ IsSeq(r) /\ Len(r) + 1 = Len(q) /\ Len(r) \in Nat
               /\ \A j \in 1 .. Len(r) : from(j) \in 1 .. Len(q) /\ from(j) # k /\ r[j] = q[from(j)]
<1> DEFINE S == {q[i] : i \in 1 .. Len(q)}
           a == SubSeq(q, 1, k - 1)
           b == SubSeq(q, k + 1, Len(q))
           n == Len(q)
           r == RemoveAt(q, k)
           from(j) == IF j < k THEN j ELSE j + 1
<1>1. q \in Seq(S) /\ Len(q) \in Nat /\ k \in Nat
  BY DEF IsSeq
<1> HIDE DEF S
<1>2. a \in Seq(S) /\ Len(a) = k - 1 /\ \A j \in 1 .. k - 1 : a[j] = q[j]
  BY <1>1
<1>3. b \in Seq(S) /\ Len(b) = n - k /\ \A j \in 1 .. n - k : b[j] = q[k + j]
  BY <1>1
<1>4. r = a \o b
  BY DEF RemoveAt
<1> HIDE DEF a, b, n, r
<1>5. r \in Seq(S) /\ Len(r) = Len(a) + Len(b)
  BY <1>2, <1>3, <1>4, ConcatProperties, Zenon
<1>6. \A j \in 1 .. Len(r) : r[j] = IF j <= Len(a) THEN a[j] ELSE b[j - Len(a)]
  <2>1. \A j \in 1 .. Len(a) + Len(b) : (a \o b)[j] = IF j <= Len(a) THEN a[j] ELSE b[j - Len(a)]
    BY <1>2, <1>3, ConcatProperties, Zenon
  <2> QED
    BY <1>4, <1>5, <2>1, Zenon
<1>7. n \in Nat /\ k \in 1 .. n /\ n = Len(q)
  BY <1>1 DEF n
<1>8. Len(r) = n - 1 /\ Len(r) + 1 = n /\ Len(r) \in Nat
  BY <1>2, <1>3, <1>5, <1>7
<1>9. \A j \in 1 .. Len(r) : from(j) \in 1 .. n /\ from(j) # k /\ r[j] = q[from(j)]
  <2> TAKE j \in 1 .. Len(r)
  <2>1. j \in 1 .. n - 1
    BY <1>8
  <2>2. CASE j < k
    <3>1. j \in 1 .. k - 1 /\ j <= Len(a)
      BY <1>2, <1>7, <2>1, <2>2
    <3> QED
      BY <1>2, <1>6, <1>7, <2>1, <2>2, <3>1
  <2>3. CASE ~(j < k)
    <3>1. ~(j <= Len(a)) /\ j - Len(a) = (j - k) + 1 /\ (j - k) + 1 \in 1 .. n - k
      BY <1>2, <1>7, <2>1, <2>3
    <3>2. r[j] = b[(j - k) + 1]
      BY <1>6, <3>1
    <3>3. r[j] = q[k + ((j - k) + 1)]
      BY <1>3, <3>1, <3>2
    <3>4. k + ((j - k) + 1) = j + 1
      BY <1>7, <2>1
    <3> QED
      BY <1>7, <2>1, <2>3, <3>3, <3>4
  <2> QED
    BY <2>2, <2>3
<1>10. IsSeq(r)
  <2>1. Len(r) \in Nat /\ DOMAIN r = 1 .. Len(r) /\ r = [i \in 1 .. Len(r) |-> r[i]]
    BY <1>5
  <2> QED
    BY <2>1, SequenceOf
<1> QED
  BY <1>7, <1>8, <1>9, <1>10 DEF r

\* What is left of a chain is right as long as the entries are those of it or
\* blank, at the places they come from.
LEMMA StaysRight ==
    ASSUME CacheInv, NEW id \in Ids, NEW q, IsSeq(q), NEW from,
           \A k \in 1 .. Len(q) : \/ q[k].id = NoId /\ q[k].timestamp \in Nat
                                  \/ from[k] \in 1 .. Len(chain) /\ q[k] = chain[from[k]],
           \A j, k \in 1 .. Len(q) : from[j] = from[k] => j = k,
           \A k \in 1 .. Len(q) : q[k].id # id
    PROVE  RightWithout(q, id)
<1>1. \A k \in 1 .. Len(q) : q[k].timestamp \in Nat
  BY DEF CacheInv, ChainIsRight
<1>2. \A k \in 1 .. Len(q) :
         q[k].id # NoId => q[k].id \in Ids \ {id} /\ q[k].session = asked[q[k].id]
  BY DEF CacheInv, ChainIsRight
<1>3. ASSUME NEW j \in 1 .. Len(q), NEW k \in 1 .. Len(q), q[j].id = q[k].id, q[j].id # NoId
      PROVE  j = k
  <2>1. ~(q[j].id = NoId) /\ ~(q[k].id = NoId)
    BY <1>3
  <2>2. /\ from[j] \in 1 .. Len(chain) /\ q[j] = chain[from[j]]
        /\ from[k] \in 1 .. Len(chain) /\ q[k] = chain[from[k]]
    BY <2>1
  <2>3. from[j] = from[k]
    BY <1>3, <2>2 DEF CacheInv, ChainIsRight
  <2> QED
    BY <2>3
<1> QED
  BY <1>1, <1>2, <1>3 DEF RightWithout

\* A picked slot: what is in the chain then, and where it is.
SlotIsEmpty(id, pick) ==
    /\ RightWithout(pick.chain, id)
    /\ pick.ok =>
         /\ (pick.at \in 1 .. Len(pick.chain) /\ pick.entry = pick.chain[pick.at]) \/ pick.at = 0
         /\ \E p : pick.entry = [addr |-> p, id |-> NoId, ptr |-> NULL, session |-> NoSession,
                                 timestamp |-> Time]

LEMMA SlotBecomesEmpty ==
    ASSUME CacheInv, NEW id \in Ids, NEW pick, SlotIsRight(id, pick)
    PROVE  SlotIsEmpty(id, pick)
<1> DEFINE n == Len(chain)
           q == pick.chain
<1>1. IsSeq(chain) /\ n \in Nat /\ Time \in Nat
  BY LengthIsNumber, TimeIsNumber DEF CacheInv, ChainIsRight
<1>2. id # NoId
  BY CacheConstants
<1> DEFINE same == [k \in 1 .. n |-> k]
<1>3. CASE ~pick.ok /\ q = chain /\ Absent(id)
  <2>1. RightWithout(chain, id)
    BY <1>1, <1>3 DEF CacheInv, ChainIsRight, RightWithout, Absent
  <2> QED
    BY <1>3, <2>1 DEF SlotIsEmpty
<1>4. CASE \E k \in 1 .. n : pick = Reuse(k) /\ MayBeUsed(id, k)
  <2>1. PICK k \in 1 .. n : pick = Reuse(k) /\ MayBeUsed(id, k)
    BY <1>4
  <2>2. /\ q = [chain EXCEPT ![k] = Reused(chain[k])]
        /\ pick.entry = Reused(chain[k]) /\ pick.at = k
    BY <2>1 DEF Reuse, Picked
  <2>3. /\ IsSeq(q) /\ Len(q) = n
        /\ \A j \in 1 .. n : q[j] = IF j = k THEN Reused(chain[k]) ELSE chain[j]
    BY <1>1, <2>2, Replacing DEF IsReplaced
  <2>4. Reused(chain[k]) = [addr |-> chain[k].addr, id |-> NoId, ptr |-> NULL,
                            session |-> NoSession, timestamp |-> Time]
    BY ReusedIsBlank
  <2> HIDE DEF q
  <2>5. \A j \in 1 .. n : q[j].id # id
    <3>1. chain[k].id = id => \A j \in 1 .. n : chain[j].id = id => j = k
      BY <1>2 DEF CacheInv, ChainIsRight
    <3> QED
      BY <1>2, <2>1, <2>3, <2>4, <3>1 DEF MayBeUsed, Absent
  <2>6. \A j \in 1 .. Len(q) : \/ q[j].id = NoId /\ q[j].timestamp \in Nat
                               \/ same[j] \in 1 .. n /\ q[j] = chain[same[j]]
    BY <1>1, <2>3, <2>4
  <2>7. \A i, j \in 1 .. Len(q) : same[i] = same[j] => i = j
    BY <2>3
  <2>8. \A j \in 1 .. Len(q) : q[j].id # id
    BY <2>3, <2>5
  <2> HIDE DEF same
  <2>9. RightWithout(q, id)
    BY <2>3, <2>6, <2>7, <2>8, StaysRight
  <2>10. pick.at \in 1 .. Len(q) /\ pick.entry = q[pick.at]
    BY <2>1, <2>2, <2>3
  <2> QED
    BY <2>2, <2>4, <2>9, <2>10 DEF SlotIsEmpty, q
<1>5. CASE /\ pick.ok /\ pick.at = n + 1 /\ Absent(id)
           /\ \E p : /\ pick.entry = [Blank(p) EXCEPT !.timestamp = Time]
                     /\ q = Append(chain, pick.entry)
  <2>1. PICK p : /\ pick.entry = [Blank(p) EXCEPT !.timestamp = Time]
                 /\ q = Append(chain, pick.entry)
    BY <1>5
  <2>2. pick.entry = [addr |-> p, id |-> NoId, ptr |-> NULL, session |-> NoSession,
                      timestamp |-> Time]
    BY <2>1 DEF Blank
  <2>3. /\ IsSeq(q) /\ Len(q) = n + 1 /\ q[n + 1] = pick.entry
        /\ \A j \in 1 .. n : q[j] = chain[j]
    BY <1>1, <2>1, Appending
  <2> DEFINE from == [k \in 1 .. n + 1 |-> k]
  <2> HIDE DEF q
  <2>4. \A j \in 1 .. Len(q) : j \in 1 .. n \/ j = n + 1
    BY <1>1, <2>3
  <2>5. \A j \in 1 .. Len(q) : \/ q[j].id = NoId /\ q[j].timestamp \in Nat
                               \/ from[j] \in 1 .. n /\ q[j] = chain[from[j]]
    BY <1>1, <2>2, <2>3, <2>4
  <2>6. \A i, j \in 1 .. Len(q) : from[i] = from[j] => i = j
    BY <2>3
  <2>7. \A j \in 1 .. Len(q) : q[j].id # id
    BY <1>2, <1>5, <2>2, <2>3, <2>4 DEF Absent
  <2> HIDE DEF from
  <2>8. RightWithout(q, id)
    BY <2>3, <2>5, <2>6, <2>7, StaysRight
  <2>9. pick.at \in 1 .. Len(q) /\ pick.entry = q[pick.at]
    BY <1>1, <1>5, <2>3
  <2> QED
    BY <2>2, <2>8, <2>9 DEF SlotIsEmpty, q
<1> DEFINE moved == [addr |-> Head(chain).addr, id |-> NoId, ptr |-> NULL, session |-> NoSession,
                     timestamp |-> Time]
<1>6. Reused(Head(chain)) = moved
  BY ReusedIsBlank
<1>7. CASE pick.ok /\ pick.entry = Reused(Head(chain)) /\ q = <<>> /\ pick.at = 0
  <2>1. Len(<<>>) = 0 /\ IsSeq(<<>>)
    BY EmptySeq DEF IsSeq
  <2>2. RightWithout(<<>>, id)
    BY <2>1 DEF RightWithout
  <2> QED
    BY <1>6, <1>7, <2>2 DEF SlotIsEmpty
<1>8. CASE /\ pick.ok /\ Absent(id) /\ chain # <<>> /\ pick.entry = Reused(Head(chain))
           /\ q = Append(Tail(chain), pick.entry) /\ pick.at = n
  <2> DEFINE t == Tail(chain)
  <2>1. /\ IsSeq(t) /\ Len(t) + 1 = n /\ Len(t) \in Nat
        /\ \A j \in 1 .. Len(t) : j + 1 \in 1 .. n /\ t[j] = chain[j + 1]
    BY <1>1, <1>8, TakingTheTail
  <2> HIDE DEF t
  <2>2. /\ IsSeq(q) /\ Len(q) = Len(t) + 1 /\ q[Len(t) + 1] = moved
        /\ \A j \in 1 .. Len(t) : q[j] = t[j]
    <3> HIDE DEF moved
    <3> QED
      BY <1>6, <1>8, <2>1, Appending DEF t
  <2> DEFINE from == [k \in 1 .. n |-> k + 1]
  <2> HIDE DEF q
  <2>3. \A j \in 1 .. Len(q) : j \in 1 .. n /\ (j \in 1 .. Len(t) \/ j = Len(t) + 1)
    BY <1>1, <2>1, <2>2
  <2>4. \A j \in 1 .. Len(q) : \/ q[j].id = NoId /\ q[j].timestamp \in Nat
                               \/ from[j] \in 1 .. n /\ q[j] = chain[from[j]]
    BY <1>1, <2>1, <2>2, <2>3
  <2>5. \A i, j \in 1 .. Len(q) : from[i] = from[j] => i = j
    BY <1>1, <2>3
  <2>6. \A j \in 1 .. Len(q) : q[j].id # id
    BY <1>2, <1>8, <2>1, <2>2, <2>3 DEF Absent
  <2> HIDE DEF from
  <2>7. RightWithout(q, id)
    BY <2>2, <2>4, <2>5, <2>6, StaysRight
  <2>8. pick.at \in 1 .. Len(q) /\ pick.entry = q[pick.at]
    <3> HIDE DEF moved
    <3> QED
      BY <1>1, <1>6, <1>8, <2>1, <2>2
  <2> QED
    BY <1>6, <1>8, <2>7, <2>8 DEF SlotIsEmpty, q
<1> HIDE DEF q, moved, same
<1> QED
  BY <1>3, <1>4, <1>5, <1>7, <1>8 DEF SlotIsRight, q

\* A blank entry that is filled.
IsEntry(e, q, id, p, s, t) ==
    e = [addr |-> q, id |-> id, ptr |-> p, session |-> s, timestamp |-> t]

LEMMA BlankIsFilled ==
    ASSUME NEW e, NEW q, NEW id, NEW p, NEW s, NEW t, IsEntry(e, q, NoId, NULL, NoSession, t)
    PROVE  IsEntry([e EXCEPT !.id = id, !.ptr = p, !.session = s], q, id, p, s, t)
<1>0. e = [addr |-> q, id |-> NoId, ptr |-> NULL, session |-> NoSession, timestamp |-> t]
  BY DEF IsEntry
<1> DEFINE e1 == [e EXCEPT !.id = id]
<1>1. e1 = [addr |-> q, id |-> id, ptr |-> NULL, session |-> NoSession, timestamp |-> t]
  BY <1>0
<1> DEFINE e2 == [e1 EXCEPT !.ptr = p]
<1> HIDE DEF e1
<1>2. e2 = [addr |-> q, id |-> id, ptr |-> p, session |-> NoSession, timestamp |-> t]
  BY <1>1
<1> DEFINE e3 == [e2 EXCEPT !.session = s]
<1> HIDE DEF e2
<1>3. e3 = [addr |-> q, id |-> id, ptr |-> p, session |-> s, timestamp |-> t]
  BY <1>2
<1>4. [e EXCEPT !.id = id, !.ptr = p, !.session = s] = e3
  BY DEF e1, e2
<1> HIDE DEF e3
<1> QED
  BY <1>3, <1>4, Zenon DEF IsEntry

\* mbedtls_ssl_cache_set() leaves the picked slot empty, or fills it.
LEMMA SetChain ==
    ASSUME CacheInv, NEW id \in Ids, NEW s \in Sessions, NEW o \in Outcomes, CacheSet(id, s, o)
    PROVE  \E pick : /\ pick = PickWritingSlot(id)
                     /\ SlotIsRight(id, pick) /\ SlotIsEmpty(id, pick)
                     /\ \/ chain' = pick.chain
                        \/ /\ pick.ok /\ pick.at \in 1 .. Len(pick.chain)
                           /\ \E p, q : chain' = [pick.chain EXCEPT
                                  ![pick.at] = [addr |-> q, id |-> id, ptr |-> p, session |-> s,
                                                timestamp |-> Time]]
<1> DEFINE pick == PickWritingSlot(id)
<1>1. SlotIsRight(id, pick)
  BY SlotIsPicked
<1> HIDE DEF pick
<1>2. SlotIsEmpty(id, pick)
  BY <1>1, SlotBecomesEmpty
<1>3. \/ chain' = pick.chain
      \/ /\ pick.ok
         /\ \E p : chain' = IF pick.at = 0 THEN pick.chain
                            ELSE [pick.chain EXCEPT
                                  ![pick.at] = [pick.entry EXCEPT !.id = id, !.ptr = p,
                                                                  !.session = s]]
  BY Zenon DEF CacheSet, pick
<1>4. CASE chain' = pick.chain
  BY <1>1, <1>2, <1>4 DEF pick
<1>5. CASE /\ pick.ok
           /\ \E p : chain' = IF pick.at = 0 THEN pick.chain
                              ELSE [pick.chain EXCEPT
                                    ![pick.at] = [pick.entry EXCEPT !.id = id, !.ptr = p,
                                                                    !.session = s]]
  <2>1. PICK p : chain' = IF pick.at = 0 THEN pick.chain
                          ELSE [pick.chain EXCEPT
                                ![pick.at] = [pick.entry EXCEPT !.id = id, !.ptr = p,
                                                                !.session = s]]
    BY <1>5
  <2>2. CASE pick.at = 0
    BY <1>1, <1>2, <2>1, <2>2 DEF pick
  <2>3. CASE pick.at # 0
    <3>1. PICK q : pick.entry = [addr |-> q, id |-> NoId, ptr |-> NULL, session |-> NoSession,
                                 timestamp |-> Time]
      BY <1>2, <1>5 DEF SlotIsEmpty
    <3>2. [pick.entry EXCEPT !.id = id, !.ptr = p, !.session = s]
            = [addr |-> q, id |-> id, ptr |-> p, session |-> s, timestamp |-> Time]
      <4>1. IsEntry(pick.entry, q, NoId, NULL, NoSession, Time)
        BY <3>1 DEF IsEntry
      <4>2. IsEntry([pick.entry EXCEPT !.id = id, !.ptr = p, !.session = s], q, id, p, s, Time)
        BY <4>1, BlankIsFilled
      <4> QED
        BY <4>2, Zenon DEF IsEntry
    <3>3. pick.at \in 1 .. Len(pick.chain)
      BY <1>2, <1>5, <2>3 DEF SlotIsEmpty
    <3>4. chain' = [pick.chain EXCEPT
                      ![pick.at] = [addr |-> q, id |-> id, ptr |-> p, session |-> s,
                                    timestamp |-> Time]]
      BY <2>1, <2>3, <3>2, Zenon
    <3> QED
      BY <1>1, <1>2, <1>5, <3>3, <3>4, Zenon DEF pick
  <2> QED
    BY <2>2, <2>3
<1> QED
  BY <1>3, <1>4, <1>5

LEMMA SetKeepsChain ==
    ASSUME CacheInv, NEW id \in Ids, NEW s \in Sessions, NEW o \in Outcomes, CacheSet(id, s, o)
    PROVE  CacheInv'
<1>1. PICK pick : /\ SlotIsRight(id, pick) /\ SlotIsEmpty(id, pick)
                  /\ \/ chain' = pick.chain
                     \/ /\ pick.ok /\ pick.at \in 1 .. Len(pick.chain)
                        /\ \E p, q : chain' = [pick.chain EXCEPT
                               ![pick.at] = [addr |-> q, id |-> id, ptr |-> p, session |-> s,
                                             timestamp |-> Time]]
  BY SetChain
<1>2. RightWithout(pick.chain, id)
  BY <1>1 DEF SlotIsEmpty
<1>3. /\ asked' = [asked EXCEPT ![id] = s]
      /\ UNCHANGED <<others, config, now>>
  BY Zenon DEF CacheSet
<1>4. asked \in [Ids -> Sessions \cup {NoSession}]
  BY DEF CacheInv, ClockIsRight
<1>5. asked'[id] = s /\ \A other \in Ids \ {id} : asked'[other] = asked[other]
  BY <1>3, <1>4
<1>6. asked' \in [Ids -> Sessions \cup {NoSession}]
  BY <1>3, <1>4
<1>7. ClockIsRight'
  BY <1>3, <1>6 DEF CacheInv, ClockIsRight, config
<1>8. CASE chain' = pick.chain
  BY <1>2, <1>5, <1>7, <1>8 DEF RightWithout, CacheInv, ChainIsRight
<1>9. CASE /\ pick.at \in 1 .. Len(pick.chain)
           /\ \E p, q : chain' = [pick.chain EXCEPT
                               ![pick.at] = [addr |-> q, id |-> id, ptr |-> p, session |-> s,
                                             timestamp |-> Time]]
  <2>1. PICK p, q : chain' = [pick.chain EXCEPT
                               ![pick.at] = [addr |-> q, id |-> id, ptr |-> p, session |-> s,
                                             timestamp |-> Time]]
    BY <1>9
  <2> DEFINE e == [addr |-> q, id |-> id, ptr |-> p, session |-> s, timestamp |-> Time]
             n == Len(pick.chain)
  <2>2. e.id = id /\ e.session = s /\ e.timestamp \in Nat
    BY TimeIsNumber
  <2>3. chain' = [pick.chain EXCEPT ![pick.at] = e]
    BY <2>1
  <2> HIDE DEF e
  <2>4. /\ IsSeq(chain') /\ Len(chain') = n
        /\ \A j \in 1 .. n : chain'[j] = IF j = pick.at THEN e ELSE pick.chain[j]
    <3>1. IsSeq(pick.chain)
      BY <1>2 DEF RightWithout
    <3>2. IsReplaced(chain', pick.chain, pick.at, e)
      BY <1>9, <2>3, <3>1, Replacing
    <3> QED
      BY <3>2 DEF IsReplaced
  <2>5. \A k \in 1 .. n : chain'[k].timestamp \in Nat
    BY <1>2, <2>2, <2>4 DEF RightWithout
  <2>6. \A k \in 1 .. n : chain'[k].id # NoId =>
           chain'[k].id \in Ids /\ chain'[k].session = asked'[chain'[k].id]
    BY <1>2, <1>5, <2>2, <2>4 DEF RightWithout
  <2>7. \A j \in 1 .. n : chain'[j].id = id => j = pick.at
    BY <1>2, <2>2, <2>4, CacheConstants DEF RightWithout
  <2>8. \A j, k \in 1 .. n : chain'[j].id = chain'[k].id /\ chain'[j].id # NoId => j = k
    BY <1>2, <2>2, <2>4, <2>7 DEF RightWithout
  <2> QED
    BY <1>7, <2>4, <2>5, <2>6, <2>8 DEF CacheInv, ChainIsRight
<1> QED
  BY <1>1, <1>8, <1>9

\* mbedtls_ssl_cache_remove() leaves the other entries.
LEMMA RemoveKeepsChain ==
    ASSUME CacheInv, NEW id \in Ids, CacheRemove(id)
    PROVE  CacheInv' /\ \A other \in Ids \ {id} : Has(other) => Has(other)'
<1> DEFINE k == FindEntry(id)
           n == Len(chain)
<1>1. /\ k \in 1 .. n /\ chain[k].id = id
      /\ chain' = RemoveAt(chain, k)
      /\ asked' = [asked EXCEPT ![id] = NoSession]
      /\ UNCHANGED <<others, config, now>>
  BY SessionIsGot DEF GetsTheSession, CacheRemove
<1>2. asked \in [Ids -> Sessions \cup {NoSession}]
  BY DEF CacheInv, ClockIsRight
<1>3. asked' \in [Ids -> Sessions \cup {NoSession}] /\ \A i \in Ids \ {id} : asked'[i] = asked[i]
  BY <1>1, <1>2
<1>4. ClockIsRight'
  BY <1>1, <1>3 DEF CacheInv, ClockIsRight, config
<1> HIDE DEF k
<1> DEFINE from(j) == IF j < k THEN j ELSE j + 1
           m == Len(chain')
<1>5. IsSeq(chain) /\ n \in Nat
  BY LengthIsNumber DEF CacheInv, ChainIsRight
<1>6. /\ IsSeq(chain') /\ m + 1 = n /\ m \in Nat
      /\ \A j \in 1 .. m : from(j) \in 1 .. n /\ from(j) # k /\ chain'[j] = chain[from(j)]
  BY <1>1, <1>5, Removing
<1> HIDE DEF m
<1>7. \A i, j \in 1 .. m : from(i) = from(j) => i = j
  BY <1>1, <1>5, <1>6
<1>8. \A j \in 1 .. n : j # k => \E i \in 1 .. m : from(i) = j
  <2> TAKE j \in 1 .. n
  <2> HAVE j # k
  <2> DEFINE i == IF j < k THEN j ELSE j - 1
  <2>1. i \in 1 .. m /\ from(i) = j
    BY <1>1, <1>5, <1>6
  <2> QED
    BY <2>1
<1>9. \A other \in Ids \ {id} : Has(other) => Has(other)'
  <2> TAKE other \in Ids \ {id}
  <2> HAVE Has(other)
  <2>1. PICK j \in 1 .. n : chain[j].id = other
    BY DEF Has
  <2>2. j # k
    BY <1>1, <2>1
  <2>3. PICK i \in 1 .. m : from(i) = j
    BY <1>8, <2>2
  <2>4. chain'[i].id = other
    BY <1>6, <2>1, <2>3
  <2> QED
    BY <2>4 DEF Has, m
<1> HIDE DEF from
<1>10. \A j \in 1 .. m : chain'[j].timestamp \in Nat
  BY <1>6 DEF CacheInv, ChainIsRight
<1>11. \A i, j \in 1 .. m : chain'[i].id = chain'[j].id /\ chain'[i].id # NoId => i = j
  <2> TAKE i, j \in 1 .. m
  <2> HAVE chain'[i].id = chain'[j].id /\ chain'[i].id # NoId
  <2>1. from(i) = from(j)
    BY <1>6 DEF CacheInv, ChainIsRight
  <2> QED
    BY <1>7, <2>1
<1>12. \A j \in 1 .. m : chain'[j].id # id
  BY <1>1, <1>6, CacheConstants DEF CacheInv, ChainIsRight
<1>13. \A j \in 1 .. m : chain'[j].id # NoId =>
          chain'[j].id \in Ids /\ chain'[j].session = asked'[chain'[j].id]
  <2> TAKE j \in 1 .. m
  <2> HAVE chain'[j].id # NoId
  <2>1. chain'[j].id \in Ids /\ chain'[j].session = asked[chain'[j].id]
    BY <1>6 DEF CacheInv, ChainIsRight
  <2> QED
    BY <1>3, <1>12, <2>1
<1>14. ChainIsRight'
  BY <1>6, <1>10, <1>11, <1>13 DEF ChainIsRight, m
<1> QED
  BY <1>4, <1>9, <1>14 DEF CacheInv

\* What the lookup of another identifier returns is untouched when an entry is
\* used again for its own identifier and stays empty.
LEMMA OthersStay ==
    ASSUME CacheInv, CacheInv', NEW k \in 1 .. Len(chain), NEW e, e.id = NoId,
           IsReplaced(chain', chain, k, e), UNCHANGED <<now, timeout, build>>,
           NEW other \in Ids, chain[k].id # other
    PROVE  CacheGet(other)' = CacheGet(other)
<1>1. GetsTheSession /\ GetsTheSession'
  <2>1. GetsTheSession
    BY SessionIsGot
  <2>2. CacheInv' => GetsTheSession'
    BY SessionIsGot, PTL
  <2> QED
    BY <2>1, <2>2
<1>2. Len(chain') = Len(chain) /\ \A j \in 1 .. Len(chain) : chain'[j] = IF j = k THEN e ELSE chain[j]
  BY DEF IsReplaced
<1>3. CASE \E j \in 1 .. Len(chain) : chain[j].id = other
  <2>1. PICK j \in 1 .. Len(chain) : chain[j].id = other
    BY <1>3
  <2>2. chain'[j] = chain[j] /\ j \in 1 .. Len(chain')
    BY <1>2, <2>1
  <2>3. CacheGet(other) = IF Outdated(chain[j]) THEN NoSession ELSE chain[j].session
    BY <1>1, <2>1, Zenon DEF GetsTheSession
  <2>4. CacheGet(other)' = IF Outdated(chain[j])' THEN NoSession ELSE chain'[j].session
    BY <1>1, <2>1, <2>2 DEF GetsTheSession
  <2>5. Outdated(chain[j])' = Outdated(chain[j])
    BY <2>2 DEF Outdated, have_time
  <2> QED
    BY <2>2, <2>3, <2>4, <2>5
<1>4. CASE ~ \E j \in 1 .. Len(chain) : chain[j].id = other
  <2>1. ~ \E j \in 1 .. Len(chain') : chain'[j].id = other
    BY <1>2, <1>4, CacheConstants
  <2>2. CacheGet(other) = NoSession
    BY <1>1, <1>4, Zenon DEF GetsTheSession
  <2>3. CacheGet(other)' = NoSession
    BY <1>1, <2>1, Zenon DEF GetsTheSession
  <2> QED
    BY <2>2, <2>3
<1> QED
  BY <1>3, <1>4

\* A live session leaves the chain for the sake of another identifier.
GivesWay(id) ==
    /\ CacheGet(id) # NoSession /\ ~Has(id)' /\ asked'[id] = asked[id]
    /\ \E other \in Ids \ {id} :
           asked'[other] # asked[other] \/ CacheGet(other)' # CacheGet(other)

RightOneLeaves(id) ==
    /\ Len(chain) >= max_entries
    /\ LET k == FindEntry(id) IN
          IF have_time THEN \A j \in 1 .. Len(chain) : chain[k].timestamp <= chain[j].timestamp
          ELSE k = 1

LEMMA SetEvicts ==
    ASSUME CacheInv, CacheInv', NEW new \in Ids, NEW s \in Sessions, NEW o \in Outcomes,
           CacheSet(new, s, o), NEW id \in Ids, GivesWay(id)
    PROVE  RightOneLeaves(id)
<1> DEFINE k == FindEntry(id)
           n == Len(chain)
<1>1. k \in 1 .. n /\ chain[k].id = id /\ ~Outdated(chain[k])
  BY SessionIsGot, Zenon DEF GetsTheSession, GivesWay, CacheGet
<1>2. PICK pick : /\ SlotIsRight(new, pick) /\ SlotIsEmpty(new, pick)
                  /\ \/ chain' = pick.chain
                     \/ /\ pick.ok /\ pick.at \in 1 .. Len(pick.chain)
                        /\ \E p, q : chain' = [pick.chain EXCEPT
                               ![pick.at] = [addr |-> q, id |-> new, ptr |-> p, session |-> s,
                                             timestamp |-> Time]]
  BY SetChain
<1>3. asked' = [asked EXCEPT ![new] = s] /\ UNCHANGED <<others, config, now>>
  BY Zenon DEF CacheSet
<1>4. \A other \in Ids \ {new} : asked'[other] = asked[other]
  BY <1>3 DEF CacheInv, ClockIsRight
<1>5. id # NoId /\ new # NoId
  BY CacheConstants
<1>6. IsSeq(chain) /\ n \in Nat /\ 0 \notin 1 .. n
  BY LengthIsNumber DEF CacheInv, ChainIsRight
<1> HIDE DEF k
<1> DEFINE q == pick.chain
\* The slot was filled, or not.
<1>7. \/ chain' = q
      \/ /\ pick.ok /\ pick.at \in 1 .. Len(q)
         /\ \E e : e.id = new /\ IsReplaced(chain', q, pick.at, e)
  <2>1. ASSUME NEW p, NEW a, pick.at \in 1 .. Len(q),
               chain' = [q EXCEPT ![pick.at] = [addr |-> a, id |-> new, ptr |-> p, session |-> s,
                                                timestamp |-> Time]]
        PROVE  \E e : e.id = new /\ IsReplaced(chain', q, pick.at, e)
    <3> DEFINE e == [addr |-> a, id |-> new, ptr |-> p, session |-> s, timestamp |-> Time]
    <3>1. e.id = new /\ chain' = [q EXCEPT ![pick.at] = e]
      BY <2>1
    <3>2. IsSeq(q) /\ pick.at \in 1 .. Len(q)
      BY <1>2, <2>1 DEF SlotIsEmpty, RightWithout
    <3> HIDE DEF e, q
    <3>3. IsReplaced(chain', q, pick.at, e)
      BY <3>1, <3>2, Replacing, Zenon
    <3> QED
      BY <3>1, <3>3
  <2> QED
    BY <1>2, <2>1
<1>8. CASE new = id
  <2>1. PICK j \in 1 .. n : pick = Reuse(j) /\ MayBeUsed(new, j)
    BY <1>1, <1>2, <1>8 DEF SlotIsRight, Absent
  <2>2. j = k
    BY <1>1, <1>5, <1>8, <2>1 DEF MayBeUsed, Absent, CacheInv, ChainIsRight
  <2>3. q = [chain EXCEPT ![k] = Reused(chain[k])] /\ pick.at = k
    BY <2>1, <2>2 DEF Reuse, Picked
  <2>4. IsReplaced(q, chain, k, Reused(chain[k]))
    BY <1>1, <1>6, <2>3, Replacing
  <2>5. chain' = q
    <3> SUFFICES ASSUME NEW e, e.id = id, IsReplaced(chain', q, k, e) PROVE FALSE
      BY <1>7, <1>8, <2>3
    <3>1. k \in 1 .. Len(chain') /\ chain'[k].id = id
      BY <1>1, <2>4 DEF IsReplaced
    <3> QED
      BY <3>1 DEF GivesWay, Has
  <2>6. Reused(chain[k]).id = NoId
    BY ReusedIsBlank
  <2>7. UNCHANGED <<now, timeout, build>>
    BY <1>3 DEF config
  <2>8. \A other \in Ids \ {id} : CacheGet(other)' = CacheGet(other)
    BY <1>1, <2>4, <2>5, <2>6, <2>7, OthersStay
  <2> QED
    BY <1>4, <1>8, <2>8 DEF GivesWay
<1>9. CASE new # id
  <2>1. \A j \in 1 .. Len(q) : q[j].id # id
    <3>1. CASE chain' = q
      BY <3>1 DEF GivesWay, Has
    <3>2. ASSUME NEW e, e.id = new, IsReplaced(chain', q, pick.at, e), pick.ok,
                 pick.at \in 1 .. Len(q)
          PROVE  \A j \in 1 .. Len(q) : q[j].id # id
      <4>1. q[pick.at].id # id
        <5>1. RightWithout(q, new)
          BY <1>2 DEF SlotIsEmpty
        <5>2. pick.at = 0 \/ q[pick.at].id = NoId
          <6>1. PICK p : pick.entry = [addr |-> p, id |-> NoId, ptr |-> NULL,
                                       session |-> NoSession, timestamp |-> Time]
            BY <1>2, <3>2, Zenon DEF SlotIsEmpty
          <6>2. pick.entry.id = NoId
            BY <6>1
          <6>3. pick.at = 0 \/ pick.entry = q[pick.at]
            BY <1>2, <3>2, Zenon DEF SlotIsEmpty
          <6> QED
            BY <6>2, <6>3, Zenon
        <5>3. 0 \notin 1 .. Len(q)
          BY <5>1, LengthIsNumber DEF RightWithout
        <5> QED
          BY <1>5, <3>2, <5>2, <5>3
      <4>2. \A j \in 1 .. Len(q) : j # pick.at => q[j] = chain'[j] /\ j \in 1 .. Len(chain')
        BY <3>2 DEF IsReplaced
      <4> QED
        BY <4>1, <4>2 DEF GivesWay, Has
    <3> QED
      BY <1>7, <3>1, <3>2
  <2>2. q # chain
    BY <1>1, <2>1
  <2>3. CASE \E j \in 1 .. n : pick = Reuse(j) /\ MayBeUsed(new, j)
    <3>1. PICK j \in 1 .. n : pick = Reuse(j) /\ MayBeUsed(new, j)
      BY <2>3
    <3>2. q = [chain EXCEPT ![j] = Reused(chain[j])]
      BY <3>1 DEF Reuse, Picked
    <3>3. IsReplaced(q, chain, j, Reused(chain[j]))
      BY <1>6, <3>2, Replacing
    <3>4. j = k
      BY <1>1, <2>1, <3>3 DEF IsReplaced
    <3>5. MakesRoom(k)
      BY <1>1, <1>9, <3>1, <3>4 DEF MayBeUsed
    <3> QED
      BY <3>5 DEF MakesRoom, RightOneLeaves, k
  <2>4. CASE \E e : q = Append(chain, e)
    <3>1. PICK e : q = Append(chain, e)
      BY <2>4
    <3>2. Len(q) = n + 1 /\ \A j \in 1 .. n : q[j] = chain[j]
      BY <1>6, <3>1, Appending
    <3> QED
      BY <1>1, <1>6, <2>1, <3>2
  <2>5. CASE /\ ~have_time /\ Len(chain) >= max_entries /\ chain # <<>>
             /\ Len(chain) = 1 \/ q = Append(Tail(chain), pick.entry)
    <3>1. k = 1
      <4>1. CASE Len(chain) = 1
        BY <1>1, <4>1
      <4>2. CASE q = Append(Tail(chain), pick.entry)
        <5> DEFINE t == Tail(chain)
                   m == Len(t)
        <5>1. /\ IsSeq(t) /\ m + 1 = n /\ m \in Nat
              /\ \A j \in 1 .. m : j + 1 \in 1 .. n /\ t[j] = chain[j + 1]
          BY <1>6, <2>5, TakingTheTail
        <5> HIDE DEF t
        <5>2. Len(q) = m + 1 /\ \A j \in 1 .. m : q[j] = t[j]
          BY <4>2, <5>1, Appending DEF t
        <5> HIDE DEF m
        <5>3. k # 1 => k - 1 \in 1 .. m /\ k - 1 \in 1 .. Len(q) /\ (k - 1) + 1 = k
          BY <1>1, <1>6, <5>1, <5>2
        <5> QED
          BY <1>1, <2>1, <5>1, <5>2, <5>3
      <4> QED
        BY <2>5, <4>1, <4>2
    <3> QED
      BY <2>5, <3>1 DEF RightOneLeaves, k
  <2> HIDE DEF q
  <2> QED
    BY <1>2, <2>2, <2>3, <2>4, <2>5 DEF SlotIsRight, q
<1> QED
  BY <1>8, <1>9

-----------------------------------------------------------------------------
(* What lookups return and which session makes room                        *)

LEMMA CacheInitially == Init => CacheInv
<1> SUFFICES ASSUME Init PROVE CacheInv
  OBVIOUS
<1>1. chain = <<>> /\ Len(<<>>) = 0 /\ IsSeq(<<>>)
  BY EmptySeq DEF Init, IsSeq
<1>2. ClockIsRight
  BY CacheConstants DEF Init, ClockIsRight
<1> QED
  BY <1>1, <1>2 DEF CacheInv, ChainIsRight

LEMMA LargestOfTwo ==
    ASSUME NEW a \in Int
    PROVE  Max({a, 0}) \in Nat
<1>1. \E x \in {a, 0} : \A y \in {a, 0} : x >= y
  OBVIOUS
<1>2. Max({a, 0}) \in {a, 0} /\ \A y \in {a, 0} : Max({a, 0}) >= y
  BY <1>1 DEF Max
<1> QED
  BY <1>2

LEMMA BuildIsTyped ==
    ASSUME CacheInv
    PROVE  /\ build.ids \subseteq Ids /\ build.timeouts \subseteq Int
           /\ build.limits \subseteq Int
BY CacheConstants DEF CacheInv, ClockIsRight

\* The invariant, and in the same step the session that leaves.
LEMMA CacheStep ==
    ASSUME CacheInv, [Next]_vars
    PROVE  CacheInv' /\ \A id \in Ids : GivesWay(id) => RightOneLeaves(id)
<1> DEFINE Goal == CacheInv' /\ \A id \in Ids : GivesWay(id) => RightOneLeaves(id)
<1>1. ASSUME UNCHANGED <<chain, asked, config, now>> PROVE Goal
  <2>1. CacheInv'
    BY <1>1 DEF CacheInv, ChainIsRight, ClockIsRight, config
  <2>2. \A id \in Ids : CacheGet(id) # NoSession => Has(id)
    BY SessionIsGot, Zenon DEF GetsTheSession, Has, CacheGet
  <2>3. \A id : Has(id) => Has(id)'
    BY <1>1 DEF Has
  <2> QED
    BY <2>1, <2>2, <2>3 DEF GivesWay
<1>2. ASSUME UNCHANGED <<chain, asked, build>>, now' \in 1 .. MaxTime, timeout' \in Nat,
             max_entries' \in Nat
      PROVE Goal
  <2>1. CacheInv'
    BY <1>2 DEF CacheInv, ChainIsRight, ClockIsRight
  <2>2. \A id \in Ids : CacheGet(id) # NoSession => Has(id)
    BY SessionIsGot, Zenon DEF GetsTheSession, Has, CacheGet
  <2>3. \A id : Has(id) => Has(id)'
    BY <1>2 DEF Has
  <2> QED
    BY <2>1, <2>2, <2>3 DEF GivesWay
<1>3. ASSUME NEW id \in build.ids, NEW s \in Sessions, NEW o \in Outcomes, CacheSet(id, s, o)
      PROVE  Goal
  <2>1. id \in Ids
    BY BuildIsTyped
  <2>2. CacheInv'
    BY <1>3, <2>1, SetKeepsChain
  <2> QED
    BY <1>3, <2>1, <2>2, SetEvicts
<1>4. ASSUME NEW id \in Ids, CacheRemove(id) PROVE Goal
  <2>1. CacheInv' /\ \A other \in Ids \ {id} : Has(other) => Has(other)'
    BY <1>4, RemoveKeepsChain
  <2>2. \A other \in Ids : CacheGet(other) # NoSession => Has(other)
    BY SessionIsGot, Zenon DEF GetsTheSession, Has, CacheGet
  <2>3. asked'[id] = NoSession
    BY <1>4 DEF CacheRemove, CacheInv, ClockIsRight
  <2>4. asked'[id] = asked[id] => CacheGet(id) = NoSession
    BY <2>3, GetIsRight DEF ServesLatest
  <2> QED
    BY <2>1, <2>2, <2>4 DEF GivesWay
<1>5. ASSUME NEW t \in build.timeouts, CacheSetTimeout(t) PROVE Goal
  <2>1. t \in Int
    BY BuildIsTyped
  <2>2. timeout' \in Nat /\ now \in 1 .. MaxTime /\ max_entries \in Nat
    BY <1>5, <2>1, LargestOfTwo DEF CacheSetTimeout, CacheInv, ClockIsRight
  <2>3. UNCHANGED <<chain, asked, build, now, max_entries>>
    BY <1>5 DEF CacheSetTimeout
  <2> QED
    BY <1>2, <2>2, <2>3
<1>6. ASSUME NEW max \in build.limits, CacheSetMaxEntries(max) PROVE Goal
  <2>1. max \in Int
    BY BuildIsTyped
  <2>2. max_entries' \in Nat /\ now \in 1 .. MaxTime /\ timeout \in Nat
    BY <1>6, <2>1, LargestOfTwo DEF CacheSetMaxEntries, CacheInv, ClockIsRight
  <2>3. UNCHANGED <<chain, asked, build, now, timeout>>
    BY <1>6 DEF CacheSetMaxEntries
  <2> QED
    BY <1>2, <2>2, <2>3
<1>7. CASE CacheFree
  <2>1. chain' = <<>> /\ asked' = [id \in Ids |-> NoSession] /\ UNCHANGED <<config, now>>
    BY <1>7 DEF CacheFree
  <2>2. Len(<<>>) = 0 /\ IsSeq(<<>>)
    BY EmptySeq DEF IsSeq
  <2>3. ClockIsRight'
    BY <2>1 DEF CacheInv, ClockIsRight, config
  <2>4. CacheInv'
    BY <2>1, <2>2, <2>3 DEF CacheInv, ChainIsRight
  <2>5. \A id \in Ids : asked'[id] = asked[id] => CacheGet(id) = NoSession
    BY <2>1, GetIsRight DEF ServesLatest
  <2> QED
    BY <2>4, <2>5 DEF GivesWay
<1>8. ASSUME NEW r \in Requests, OtherCalloc(r[1], r[2]) PROVE Goal
  BY <1>1, <1>8 DEF OtherCalloc
<1>9. ASSUME NEW b \in others, OtherFree(b) PROVE Goal
  BY <1>1, <1>9 DEF OtherFree
<1>10. CASE Tick
  <2>1. /\ now' \in 1 .. MaxTime /\ timeout \in Nat /\ max_entries \in Nat
        /\ UNCHANGED <<chain, asked, build, timeout, max_entries>>
    BY <1>10, CacheConstants DEF Tick, CacheInv, ClockIsRight, config
  <2> QED
    BY <1>2, <2>1
<1>11. CASE UNCHANGED vars
  BY <1>1, <1>11 DEF vars
<1> QED
  BY <1>3, <1>4, <1>5, <1>6, <1>7, <1>8, <1>9, <1>10, <1>11 DEF Next

(* The chain, what the application last stored and the clock fit together  *)
(* in every state, whatever the memory can give.                           *)
THEOREM CacheInvariant == Spec => []CacheInv
<1>1. CacheInv /\ [Next]_vars => CacheInv'
  BY CacheStep
<1> QED
  BY <1>1, CacheInitially, PTL DEF Spec

(* A lookup in mbedtls_ssl_cache_get() never returns a session that was    *)
(* replaced or removed since, nor one of another identifier, for any       *)
(* identifiers, limits, timeouts and sizes of the memory.                  *)
THEOREM LookupsAreLatest == Spec => []ServesLatest
BY CacheInvariant, GetIsRight, PTL

(* ssl_cache_pick_writing_slot() takes a live session for another          *)
(* identifier only from a full cache, and then the oldest, or the first    *)
(* without a clock.                                                        *)
THEOREM OldestMakesRoom == Spec => EvictsOldestOnly
<1> DEFINE A == \A id \in Ids : GivesWay(id) => RightOneLeaves(id)
<1>1. CacheInv /\ [Next]_vars => [A]_vars
  BY CacheStep
<1>2. EvictsOldestOnly <=> [][A]_vars
  BY DEF EvictsOldestOnly, GivesWay, RightOneLeaves
<1> QED
  BY <1>1, <1>2, CacheInvariant, PTL DEF Spec

-----------------------------------------------------------------------------
(* Who holds which block.                                                  *)

Cell(addr, ptr, session) == [addr |-> addr, ptr |-> ptr, session |-> session]

\* C is what the chain holds, B the blocks of the rest of the program or in
\* the hands of a call that is not over: each has its own block, as long as
\* it needs. If x, no other blocks are in use.
Memory(h, C, B, x) ==
    /\ HeapInv(h) /\ Ptrs(h) \subseteq Addresses
    /\ \A b \in B : b.ptr \in Ptrs(h) /\ Room(h, b.ptr) >= b.len
    /\ \A b, c \in B : b.ptr = c.ptr => b = c
    /\ \A c \in C : /\ c.addr \in Ptrs(h) /\ Room(h, c.addr) >= EntrySize
                    /\ c.ptr # NULL => /\ c.ptr \in Ptrs(h) /\ c.session \in Sessions
                                       /\ Room(h, c.ptr) >= SessionLen[c.session]
    /\ \A c, d \in C : /\ c.addr = d.addr \/ (c.ptr = d.ptr /\ c.ptr # NULL) => c = d
                       /\ c.addr # d.ptr
    /\ \A c \in C, b \in B : c.addr # b.ptr /\ c.ptr # b.ptr
    /\ x => \A ptr \in Ptrs(h) : \/ \E b \in B : b.ptr = ptr
                                 \/ \E c \in C : c.addr = ptr \/ c.ptr = ptr

LEMMA PtrsArePointers ==
    ASSUME NEW h, HeapInv(h)
    PROVE  NULL \notin Ptrs(h)
BY PtrsAreNumbers DEF HeapInv, HeapStage

\* The session of an entry is freed.
LEMMA SessionIsFreed ==
    ASSUME NEW h, NEW C, NEW B, NEW x, Memory(h, C, B, x), NEW c \in C, NEW g, Freed(h, c.ptr, g)
    PROVE  Memory(g, (C \ {c}) \cup {Cell(c.addr, NULL, NoSession)}, B, x)
<1> DEFINE e == Cell(c.addr, NULL, NoSession)
           D == (C \ {c}) \cup {e}
<1>1. NULL \notin Ptrs(h)
  BY PtrsArePointers DEF Memory
<1>2. e.addr = c.addr /\ e.ptr = NULL
  BY DEF Cell
<1>3. HeapInv(g) /\ Ptrs(g) = Ptrs(h) \ {c.ptr} /\ \A ptr \in Ptrs(g) : Room(g, ptr) = Room(h, ptr)
  BY DEF Freed, RoomIsLeft
<1> HIDE DEF e
<1>4. \A b \in B : b.ptr \in Ptrs(g) /\ Room(g, b.ptr) >= b.len
  BY <1>3 DEF Memory
<1>5. \A d \in D : /\ d.addr \in Ptrs(g) /\ Room(g, d.addr) >= EntrySize
                   /\ d.ptr # NULL => /\ d.ptr \in Ptrs(g) /\ d.session \in Sessions
                                      /\ Room(g, d.ptr) >= SessionLen[d.session]
  <2> TAKE d \in D
  <2>1. CASE d = e
    BY <1>1, <1>2, <1>3, <2>1 DEF Memory
  <2>2. CASE d \in C \ {c}
    <3>1. d.addr \in Ptrs(g)
      BY <1>3, <2>2 DEF Memory
    <3>2. d.ptr # NULL => d.ptr \in Ptrs(g)
      BY <1>3, <2>2 DEF Memory
    <3> QED
      BY <1>3, <2>2, <3>1, <3>2 DEF Memory
  <2> QED
    BY <2>1, <2>2
<1>6. \A d, f \in D : /\ d.addr = f.addr \/ (d.ptr = f.ptr /\ d.ptr # NULL) => d = f
                      /\ d.addr # f.ptr
  BY <1>1, <1>2 DEF Memory
<1>7. \A d \in D, b \in B : d.addr # b.ptr /\ d.ptr # b.ptr
  BY <1>1, <1>2 DEF Memory
<1>8. x => \A ptr \in Ptrs(g) : \/ \E b \in B : b.ptr = ptr
                                \/ \E d \in D : d.addr = ptr \/ d.ptr = ptr
  BY <1>2, <1>3 DEF Memory
<1> HIDE DEF D
<1>9. Memory(g, D, B, x)
  BY <1>3, <1>4, <1>5, <1>6, <1>7, <1>8 DEF Memory
<1> QED
  BY <1>9 DEF D, e

\* An entry without a session is freed.
LEMMA EntryIsFreed ==
    ASSUME NEW h, NEW C, NEW B, NEW x, Memory(h, C, B, x), NEW c \in C, c.ptr = NULL,
           NEW g, Freed(h, c.addr, g)
    PROVE  Memory(g, C \ {c}, B, x)
<1> DEFINE D == C \ {c}
<1>1. NULL \notin Ptrs(h)
  BY PtrsArePointers DEF Memory
<1>3. HeapInv(g) /\ Ptrs(g) = Ptrs(h) \ {c.addr} /\ \A ptr \in Ptrs(g) : Room(g, ptr) = Room(h, ptr)
  BY DEF Freed, RoomIsLeft
<1>4. \A b \in B : b.ptr \in Ptrs(g) /\ Room(g, b.ptr) >= b.len
  BY <1>3 DEF Memory
<1>5. \A d \in D : /\ d.addr \in Ptrs(g) /\ Room(g, d.addr) >= EntrySize
                   /\ d.ptr # NULL => /\ d.ptr \in Ptrs(g) /\ d.session \in Sessions
                                      /\ Room(g, d.ptr) >= SessionLen[d.session]
  <2> TAKE d \in D
  <2>1. d.addr \in Ptrs(g)
    BY <1>3 DEF Memory
  <2>2. d.ptr # NULL => d.ptr \in Ptrs(g)
    BY <1>3 DEF Memory
  <2> QED
    BY <1>3, <2>1, <2>2 DEF Memory
<1>6. \A d, f \in D : /\ d.addr = f.addr \/ (d.ptr = f.ptr /\ d.ptr # NULL) => d = f
                      /\ d.addr # f.ptr
  BY DEF Memory
<1>7. \A d \in D, b \in B : d.addr # b.ptr /\ d.ptr # b.ptr
  BY DEF Memory
<1>8. x => \A ptr \in Ptrs(g) : \/ \E b \in B : b.ptr = ptr
                                \/ \E d \in D : d.addr = ptr \/ d.ptr = ptr
  BY <1>1, <1>3 DEF Memory
<1> HIDE DEF D
<1>9. Memory(g, D, B, x)
  BY <1>3, <1>4, <1>5, <1>6, <1>7, <1>8 DEF Memory
<1> QED
  BY <1>9 DEF D

\* A call gets a block.
Block(ptr, len) == [ptr |-> ptr, len |-> len]

LEMMA BlockIsGot ==
    ASSUME NEW h, NEW C, NEW B, NEW x, Memory(h, C, B, x), NEW len \in Nat, NEW r, Got(h, len, r),
           r.ptr # NULL
    PROVE  Memory(r.heap, C, B \cup {Block(r.ptr, len)}, x) /\ Block(r.ptr, len) \notin B
           /\ r.ptr \in Addresses
<1> DEFINE g == r.heap
           b0 == Block(r.ptr, len)
           A == B \cup {b0}
<1>1. /\ HeapInv(g) /\ Ptrs(g) = Ptrs(h) \cup {r.ptr} /\ r.ptr \notin Ptrs(h) /\ Room(g, r.ptr) >= len
      /\ \A ptr \in Ptrs(h) : Room(g, ptr) = Room(h, ptr)
      /\ r.ptr \in Addresses
  BY DEF Got, RoomIsLeft
<1>2. b0.ptr = r.ptr /\ b0.len = len
  BY DEF Block
<1> HIDE DEF b0, g
<1>3. \A b \in A : b.ptr \in Ptrs(g) /\ Room(g, b.ptr) >= b.len
  BY <1>1, <1>2 DEF Memory
<1>4. \A b, c \in A : b.ptr = c.ptr => b = c
  BY <1>1, <1>2 DEF Memory
<1>5. \A c \in C : /\ c.addr \in Ptrs(g) /\ Room(g, c.addr) >= EntrySize
                   /\ c.ptr # NULL => /\ c.ptr \in Ptrs(g) /\ c.session \in Sessions
                                      /\ Room(g, c.ptr) >= SessionLen[c.session]
  BY <1>1 DEF Memory
<1>6. \A c \in C, b \in A : c.addr # b.ptr /\ c.ptr # b.ptr
  BY <1>1, <1>2 DEF Memory
<1>7. x => \A ptr \in Ptrs(g) : \/ \E b \in A : b.ptr = ptr
                                \/ \E c \in C : c.addr = ptr \/ c.ptr = ptr
  BY <1>1, <1>2 DEF Memory
<1>8. b0 \notin B
  BY <1>1, <1>2 DEF Memory
<1> HIDE DEF A
<1>9. Memory(g, C, A, x)
  BY <1>1, <1>3, <1>4, <1>5, <1>6, <1>7 DEF Memory
<1> QED
  BY <1>1, <1>8, <1>9 DEF A, b0, g

\* A block of the rest of the program, or of a call, is freed.
LEMMA BlockIsFreed ==
    ASSUME NEW h, NEW C, NEW B, NEW x, Memory(h, C, B, x), NEW b0 \in B, NEW g, Freed(h, b0.ptr, g)
    PROVE  Memory(g, C, B \ {b0}, x)
<1> DEFINE A == B \ {b0}
<1>1. HeapInv(g) /\ Ptrs(g) = Ptrs(h) \ {b0.ptr} /\ \A ptr \in Ptrs(g) : Room(g, ptr) = Room(h, ptr)
  BY DEF Freed, RoomIsLeft
<1>2. \A b \in A : b.ptr \in Ptrs(g) /\ Room(g, b.ptr) >= b.len
  BY <1>1 DEF Memory
<1>3. \A b, c \in A : b.ptr = c.ptr => b = c
  BY DEF Memory
<1>4. \A c \in C : /\ c.addr \in Ptrs(g) /\ Room(g, c.addr) >= EntrySize
                   /\ c.ptr # NULL => /\ c.ptr \in Ptrs(g) /\ c.session \in Sessions
                                      /\ Room(g, c.ptr) >= SessionLen[c.session]
  <2> TAKE c \in C
  <2>1. c.addr \in Ptrs(g) /\ (c.ptr # NULL => c.ptr \in Ptrs(g))
    BY <1>1 DEF Memory
  <2> QED
    BY <1>1, <2>1 DEF Memory
<1>5. \A c \in C, b \in A : c.addr # b.ptr /\ c.ptr # b.ptr
  BY DEF Memory
<1>6. x => \A ptr \in Ptrs(g) : \/ \E b \in A : b.ptr = ptr
                                \/ \E c \in C : c.addr = ptr \/ c.ptr = ptr
  BY <1>1 DEF Memory
<1> HIDE DEF A
<1>7. Memory(g, C, A, x)
  BY <1>1, <1>2, <1>3, <1>4, <1>5, <1>6 DEF Memory
<1> QED
  BY <1>7 DEF A

\* A block becomes an entry of the chain.
LEMMA EntryIsMade ==
    ASSUME NEW h, NEW C, NEW B, NEW x, Memory(h, C, B, x), NEW p, NEW len \in Nat,
           Block(p, len) \in B, len >= EntrySize
    PROVE  Memory(h, C \cup {Cell(p, NULL, NoSession)}, B \ {Block(p, len)}, x)
<1> DEFINE e == Cell(p, NULL, NoSession)
           b0 == Block(p, len)
           A == B \ {b0}
           D == C \cup {e}
<1>1. NULL \notin Ptrs(h) /\ b0.ptr = p /\ b0.len = len /\ e.addr = p /\ e.ptr = NULL
  BY PtrsArePointers DEF Memory, Cell, Block
<1>2. p \in Ptrs(h) /\ Room(h, p) >= len
  BY <1>1 DEF Memory
<1>3. Room(h, p) >= EntrySize
  <2>1. Room(h, p) \in Nat
    <3>1. HeapIsTyped(h)
      BY DEF Memory, HeapInv, HeapStage
    <3>2. p - HdrSize \in UsedBlocks(h)
      BY <1>2, <3>1, PtrsAreNumbers
    <3> QED
      BY <3>1, <3>2, BlocksAreAddresses DEF Room, UsedBlocks
  <2> QED
    BY <1>2, <2>1, CacheConstants
<1> HIDE DEF e, b0
<1>4. \A d \in D : /\ d.addr \in Ptrs(h) /\ Room(h, d.addr) >= EntrySize
                   /\ d.ptr # NULL => /\ d.ptr \in Ptrs(h) /\ d.session \in Sessions
                                      /\ Room(h, d.ptr) >= SessionLen[d.session]
  BY <1>1, <1>2, <1>3 DEF Memory
<1>5. \A d, f \in D : /\ d.addr = f.addr \/ (d.ptr = f.ptr /\ d.ptr # NULL) => d = f
                      /\ d.addr # f.ptr
  BY <1>1, <1>2 DEF Memory, b0
<1>6. \A d \in D, b \in A : d.addr # b.ptr /\ d.ptr # b.ptr
  BY <1>1, <1>2 DEF Memory, b0
<1>7. x => \A ptr \in Ptrs(h) : \/ \E b \in A : b.ptr = ptr
                                \/ \E d \in D : d.addr = ptr \/ d.ptr = ptr
  BY <1>1 DEF Memory
<1>8. Memory(h, D, A, x)
  BY <1>4, <1>5, <1>6, <1>7 DEF Memory
<1> QED
  BY <1>8 DEF e, b0

\* A block becomes the session of an entry that has none.
LEMMA SessionIsStored ==
    ASSUME NEW h, NEW C, NEW B, NEW x, Memory(h, C, B, x), NEW p, NEW s \in Sessions,
           Block(p, SessionLen[s]) \in B, NEW q, Cell(q, NULL, NoSession) \in C
    PROVE  Memory(h, (C \ {Cell(q, NULL, NoSession)}) \cup {Cell(q, p, s)},
                  B \ {Block(p, SessionLen[s])}, x)
<1> DEFINE e == Cell(q, p, s)
           c == Cell(q, NULL, NoSession)
           b0 == Block(p, SessionLen[s])
           A == B \ {b0}
           D == (C \ {c}) \cup {e}
<1>1. /\ NULL \notin Ptrs(h) /\ b0.ptr = p /\ b0.len = SessionLen[s]
      /\ e.addr = q /\ e.ptr = p /\ e.session = s /\ c.addr = q /\ c.ptr = NULL
  BY PtrsArePointers DEF Memory, Cell, Block
<1>2. p \in Ptrs(h) /\ Room(h, p) >= SessionLen[s] /\ b0 \in B /\ c \in C
  BY <1>1 DEF Memory
<1> HIDE DEF e, c, b0
<1>3. \A d \in D : /\ d.addr \in Ptrs(h) /\ Room(h, d.addr) >= EntrySize
                   /\ d.ptr # NULL => /\ d.ptr \in Ptrs(h) /\ d.session \in Sessions
                                      /\ Room(h, d.ptr) >= SessionLen[d.session]
  BY <1>1, <1>2 DEF Memory
<1>4. \A d, f \in D : /\ d.addr = f.addr \/ (d.ptr = f.ptr /\ d.ptr # NULL) => d = f
                      /\ d.addr # f.ptr
  BY <1>1, <1>2 DEF Memory
<1>5. \A d \in D, b \in A : d.addr # b.ptr /\ d.ptr # b.ptr
  BY <1>1, <1>2 DEF Memory
<1>6. x => \A ptr \in Ptrs(h) : \/ \E b \in A : b.ptr = ptr
                                \/ \E d \in D : d.addr = ptr \/ d.ptr = ptr
  BY <1>1, <1>2 DEF Memory
<1>7. Memory(h, D, A, x)
  BY <1>3, <1>4, <1>5, <1>6 DEF Memory
<1> QED
  BY <1>7 DEF e, c, b0

\* What is lost is still used, but nobody holds it.
LEMMA EntryIsLost ==
    ASSUME NEW h, NEW C, NEW B, NEW x, Memory(h, C, B, x), NEW D, D \subseteq C, NEW A, A \subseteq B
    PROVE  Memory(h, D, A, FALSE)
BY DEF Memory

-----------------------------------------------------------------------------
(* The blocks of a chain.                                                  *)

CellOf(e) == Cell(e.addr, e.ptr, e.session)
Cells(q) == {CellOf(q[k]) : k \in 1 .. Len(q)}
Apart(q) == \A j, k \in 1 .. Len(q) : q[j].addr = q[k].addr => j = k

\* Each entry of the chain q and each session is in its own block.
Held(h, q, B, x) ==
    /\ IsSeq(q) /\ Apart(q) /\ \A k \in 1 .. Len(q) : q[k] \in Entries
    /\ Memory(h, Cells(q), B, x)

LEMMA CellIs ==
    ASSUME NEW e
    PROVE  CellOf(e).addr = e.addr /\ CellOf(e).ptr = e.ptr /\ CellOf(e).session = e.session
BY DEF CellOf, Cell

LEMMA CellIsReplaced ==
    ASSUME NEW q, NEW r, NEW k \in 1 .. Len(q), NEW e, Apart(q), IsReplaced(r, q, k, e), e.addr = q[k].addr
    PROVE  Cells(r) = (Cells(q) \ {CellOf(q[k])}) \cup {CellOf(e)} /\ Apart(r)
<1>1. Len(r) = Len(q) /\ \A j \in 1 .. Len(q) : r[j] = IF j = k THEN e ELSE q[j]
  BY DEF IsReplaced
<1>2. \A j \in 1 .. Len(q) : j # k => CellOf(q[j]) # CellOf(q[k])
  BY CellIs DEF Apart
<1>3. Apart(r)
  BY <1>1 DEF Apart
<1>4. Cells(r) = (Cells(q) \ {CellOf(q[k])}) \cup {CellOf(e)}
  BY <1>1, <1>2 DEF Cells
<1> QED
  BY <1>3, <1>4

LEMMA CellIsAdded ==
    ASSUME NEW q, IsSeq(q), Apart(q), NEW e, \A k \in 1 .. Len(q) : q[k].addr # e.addr
    PROVE  /\ Cells(Append(q, e)) = Cells(q) \cup {CellOf(e)} /\ Apart(Append(q, e))
           /\ IsSeq(Append(q, e))
<1> DEFINE r == Append(q, e)
           n == Len(q)
<1>1. n \in Nat
  BY LengthIsNumber
<1>2. IsSeq(r) /\ Len(r) = n + 1 /\ r[n + 1] = e /\ \A j \in 1 .. n : r[j] = q[j]
  BY Appending
<1> HIDE DEF r
<1>3. \A j \in 1 .. n + 1 : j \in 1 .. n \/ j = n + 1
  BY <1>1
<1>4. \A j \in 1 .. n : j \in 1 .. n + 1
  BY <1>1
<1>5. n + 1 \in 1 .. n + 1
  BY <1>1
<1>6. Apart(r)
  BY <1>2, <1>3 DEF Apart
<1>7. Cells(r) = Cells(q) \cup {CellOf(e)}
  BY <1>2, <1>3, <1>4, <1>5 DEF Cells
<1> QED
  BY <1>2, <1>6, <1>7 DEF r

\* The entry at k is left out.
LeavesOut(r, q, k) ==
    /\ IsSeq(r) /\ Len(r) + 1 = Len(q) /\ Len(r) \in Nat
    /\ \A j \in 1 .. Len(r) : r[j] = q[IF j < k THEN j ELSE j + 1]

LEMMA CellIsLeftOut ==
    ASSUME NEW q, NEW r, NEW k \in 1 .. Len(q), Apart(q), LeavesOut(r, q, k)
    PROVE  /\ Cells(r) = Cells(q) \ {CellOf(q[k])} /\ Apart(r) /\ IsSeq(r)
           /\ \A j \in 1 .. Len(r) : r[j].addr # q[k].addr
<1> DEFINE n == Len(q)
           m == Len(r)
           from(j) == IF j < k THEN j ELSE j + 1
           to(j) == IF j < k THEN j ELSE j - 1
<1>1. IsSeq(r) /\ m + 1 = n /\ m \in Nat /\ n \in Nat /\ \A j \in 1 .. m : r[j] = q[from(j)]
  BY DEF LeavesOut
<1> HIDE DEF n, m
<1>2. k \in 1 .. n
  BY DEF n
<1>3. \A j \in 1 .. m : from(j) \in 1 .. n /\ from(j) # k
  BY <1>1, <1>2
<1>4. \A i, j \in 1 .. m : from(i) = from(j) => i = j
  BY <1>1, <1>2
<1>5. \A j \in 1 .. n : j # k => to(j) \in 1 .. m /\ from(to(j)) = j
  BY <1>1, <1>2
<1>6. \A j \in 1 .. n : j # k => q[j].addr # q[k].addr
  BY <1>2 DEF Apart, n
<1> HIDE DEF from, to
<1>7. Apart(r)
  BY <1>1, <1>3, <1>4 DEF Apart, n, m
<1>8. \A j \in 1 .. m : r[j].addr # q[k].addr
  BY <1>1, <1>3, <1>6
<1>9. \A j \in 1 .. n : j # k => CellOf(q[j]) # CellOf(q[k])
  BY <1>6, CellIs
<1>10. Cells(r) \subseteq Cells(q) \ {CellOf(q[k])}
  BY <1>1, <1>3, <1>9 DEF Cells, n, m
<1>11. Cells(q) \ {CellOf(q[k])} \subseteq Cells(r)
  <2> SUFFICES ASSUME NEW j \in 1 .. n, j # k PROVE CellOf(q[j]) \in Cells(r)
    BY DEF Cells, n
  <2>1. to(j) \in 1 .. m /\ r[to(j)] = q[j]
    BY <1>1, <1>5
  <2> QED
    BY <2>1 DEF Cells, m
<1> QED
  BY <1>1, <1>7, <1>8, <1>10, <1>11 DEF m

\* The largest of some first numbers.
LEMMA MaxIsLargest ==
    ASSUME NEW n \in Nat, NEW S, S \subseteq 1 .. n, S # {}
    PROVE  Max(S) \in S /\ \A y \in S : Max(S) >= y
<1> DEFINE T == {n - x : x \in S}
<1>1. \A x \in S : n - x \in Nat /\ x \in Nat
  OBVIOUS
<1>2. T \subseteq Nat /\ T # {}
  BY <1>1
<1> HIDE DEF T
<1>3. PICK t \in T : \A u \in T : t <= u
  BY <1>2, LeastNumber
<1>4. PICK x \in S : t = n - x
  BY <1>3 DEF T
<1>5. \A y \in S : x >= y
  <2> TAKE y \in S
  <2>1. t <= n - y
    BY <1>3 DEF T
  <2> QED
    BY <1>1, <1>4, <2>1
<1> QED
  BY <1>5 DEF Max

-----------------------------------------------------------------------------
(* mbedtls_ssl_cache_free() walks the chain.                               *)

Released(h, e) == Free(Free(h, e.ptr), e.addr)

\* g is the function that FoldLeft() walks down the places S of q with.
FreeWalks(q, h, S, g) ==
    g = [s \in SUBSET S |-> IF s = {} THEN h ELSE Released(g[s \ {Max(s)}], q[Max(s)])]

FirstNumbers(S) == \E n \in Nat : S = 1 .. n

LEMMA LargestIsMember ==
    ASSUME NEW S, FirstNumbers(S)
    PROVE  IsFiniteSet(S) /\ \A s \in SUBSET S : s # {} => Max(s) \in s
<1>1. PICK n \in Nat : S = 1 .. n
  BY DEF FirstNumbers
<1>2. IsFiniteSet(1 .. n)
  BY FS_Interval
<1>3. \A s \in SUBSET S : s # {} => Max(s) \in s
  BY <1>1, MaxIsLargest
<1> QED
  BY <1>1, <1>2, <1>3

LEMMA FreeWalksAgree ==
    ASSUME NEW q, NEW h0, NEW S, FirstNumbers(S), NEW V \in SUBSET S, NEW W \in SUBSET S,
           NEW g, FreeWalks(q, h0, V, g), NEW h, FreeWalks(q, h0, W, h)
    PROVE  \A s \in SUBSET S : s \subseteq V /\ s \subseteq W => g[s] = h[s]
<1> DEFINE T == {s \in SUBSET S : s \subseteq V /\ s \subseteq W /\ g[s] # h[s]}
<1> SUFFICES ASSUME T # {} PROVE FALSE
  OBVIOUS
<1>0. T \subseteq SUBSET S /\ IsFiniteSet(S)
  BY LargestIsMember
<1>1. PICK s \in T : \A t \in T : t \subseteq s => t = s
  <2> HIDE DEF T
  <2> QED
    BY <1>0, MinimalSet
<1>2. s # {} => Max(s) \in s
  BY LargestIsMember
<1>3. /\ g[s] = IF s = {} THEN h0 ELSE Released(g[s \ {Max(s)}], q[Max(s)])
      /\ h[s] = IF s = {} THEN h0 ELSE Released(h[s \ {Max(s)}], q[Max(s)])
  BY DEF FreeWalks
<1>4. s # {} => g[s \ {Max(s)}] = h[s \ {Max(s)}]
  <2> SUFFICES ASSUME s # {} PROVE g[s \ {Max(s)}] = h[s \ {Max(s)}]
    OBVIOUS
  <2>1. s \ {Max(s)} \notin T
    BY <1>1, <1>2
  <2> QED
    BY <2>1
<1> QED
  BY <1>3, <1>4

LEMMA FreeWalkExists ==
    ASSUME NEW q, NEW h0, NEW S, FirstNumbers(S)
    PROVE  \A U \in SUBSET S : \E g : FreeWalks(q, h0, U, g)
<1> DEFINE T == {U \in SUBSET S : ~ \E g : FreeWalks(q, h0, U, g)}
<1> SUFFICES ASSUME T # {} PROVE FALSE
  OBVIOUS
<1>0. T \subseteq SUBSET S /\ IsFiniteSet(S)
  BY LargestIsMember
<1>1. PICK U \in T : \A V \in T : V \subseteq U => V = U
  <2> HIDE DEF T
  <2> QED
    BY <1>0, MinimalSet
<1>6. \A t \in SUBSET S : t # {} => Max(t) \in t
  BY LargestIsMember
<1> DEFINE walk(t) == CHOOSE g : FreeWalks(q, h0, t, g)
           g == [s \in SUBSET U |->
                    IF s = {} THEN h0
                    ELSE Released(walk(s \ {Max(s)})[s \ {Max(s)}], q[Max(s)])]
<1>2. \A t \in SUBSET U : t # U => FreeWalks(q, h0, t, walk(t))
  <2> TAKE t \in SUBSET U
  <2> HAVE t # U
  <2>1. \E f : FreeWalks(q, h0, t, f)
    BY <1>1
  <2> QED
    BY <2>1
<1> HIDE DEF walk
<1>7. U \in SUBSET S
  BY <1>0, <1>1
<1>3. \A t \in SUBSET U : t # U => walk(t)[t] = g[t]
  <2> TAKE t \in SUBSET U
  <2> HAVE t # U
  <2>1. walk(t)[t] = IF t = {} THEN h0 ELSE Released(walk(t)[t \ {Max(t)}], q[Max(t)])
    BY <1>2 DEF FreeWalks
  <2>2. ASSUME t # {}
        PROVE  walk(t)[t \ {Max(t)}] = walk(t \ {Max(t)})[t \ {Max(t)}]
    <3> DEFINE r == t \ {Max(t)}
    <3>1. Max(t) \in t
      BY <2>2, <1>6, <1>7
    <3>2. r \in SUBSET U /\ r # U /\ r \in SUBSET S /\ t \in SUBSET S /\ r \subseteq t
      BY <3>1, <1>7
    <3>3. FreeWalks(q, h0, r, walk(r)) /\ FreeWalks(q, h0, t, walk(t))
      BY <1>2, <3>2
    <3> HIDE DEF r
    <3>4. \A s \in SUBSET S : s \subseteq t /\ s \subseteq r => walk(t)[s] = walk(r)[s]
      <4> DEFINE f == walk(t)
                 h == walk(r)
      <4>1. FreeWalks(q, h0, t, f) /\ FreeWalks(q, h0, r, h) /\ t \in SUBSET S /\ r \in SUBSET S
        BY <3>2, <3>3
      <4> HIDE DEF f, h, g
      <4>2. \A s \in SUBSET S : s \subseteq t /\ s \subseteq r => f[s] = h[s]
        BY <4>1, FreeWalksAgree
      <4> QED
        BY <4>2 DEF f, h
    <3>5. walk(t)[r] = walk(r)[r]
      BY <3>2, <3>4
    <3> QED
      BY <3>5 DEF r
  <2> QED
    BY <2>1, <2>2
<1>4. g = [s \in SUBSET U |-> IF s = {} THEN h0 ELSE Released(g[s \ {Max(s)}], q[Max(s)])]
  <2>1. ASSUME NEW s \in SUBSET U, s # {}
        PROVE  walk(s \ {Max(s)})[s \ {Max(s)}] = g[s \ {Max(s)}]
    <3>1. Max(s) \in s
      BY <2>1, <1>6, <1>7
    <3>2. s \ {Max(s)} \in SUBSET U /\ s \ {Max(s)} # U
      BY <3>1
    <3> HIDE DEF g
    <3> QED
      BY <1>3, <3>2
  <2>2. \A s \in SUBSET U :
            g[s] = IF s = {} THEN h0 ELSE Released(g[s \ {Max(s)}], q[Max(s)])
    BY <2>1
  <2>3. g = [s \in SUBSET U |-> g[s]]
    OBVIOUS
  <2> HIDE DEF g
  <2> QED
    BY <2>2, <2>3
<1>5. FreeWalks(q, h0, U, g)
  <2> HIDE DEF g
  <2> QED
    BY <1>4 DEF FreeWalks
<1> QED
  BY <1>1, <1>5

\* The fold is the end of such a walk.
LEMMA FreeIsWalked ==
    ASSUME NEW h, NEW q, IsSeq(q)
    PROVE  \E g : /\ FreeWalks(q, h, 1 .. Len(q), g)
                  /\ FoldLeft(LAMBDA f, e : Free(Free(f, e.ptr), e.addr), h, q) = g[1 .. Len(q)]
<1> DEFINE n == Len(q)
           c == CHOOSE g : g = [s \in SUBSET DOMAIN q |->
                                  IF s = {} THEN h
                                  ELSE Free(Free(g[s \ {Max(s)}], q[Max(s)].ptr), q[Max(s)].addr)]
<1>1. FoldLeft(LAMBDA f, e : Free(Free(f, e.ptr), e.addr), h, q) = c[DOMAIN q]
  BY DEF FoldLeft, MapThenFoldSet
<1>2. n \in Nat /\ DOMAIN q = 1 .. n
  BY LengthIsNumber
<1>3. \E g : FreeWalks(q, h, 1 .. n, g)
  <2>1. FirstNumbers(1 .. n)
    BY <1>2 DEF FirstNumbers
  <2> QED
    BY <2>1, FreeWalkExists
<1>4. FreeWalks(q, h, 1 .. n, c)
  BY <1>2, <1>3 DEF FreeWalks, Released
<1> HIDE DEF c, n
<1> QED
  BY <1>1, <1>2, <1>4 DEF n

\* An entry and its session are freed.
LEMMA CellIsFreed ==
    ASSUME NEW h, NEW C, NEW B, NEW x, Memory(h, C, B, x), NEW c \in C
    PROVE  Memory(Free(Free(h, c.ptr), c.addr), C \ {c}, B, x)
<1> DEFINE g == Free(h, c.ptr)
           e == Cell(c.addr, NULL, NoSession)
           D == (C \ {c}) \cup {e}
<1>1. HeapInv(h) /\ c.ptr \in Ptrs(h) \cup {NULL}
  BY DEF Memory
<1>2. Freed(h, c.ptr, g)
  BY <1>1, FreeKeeps
<1>3. Memory(g, D, B, x)
  BY <1>2, SessionIsFreed
<1>4. e \in D /\ e.ptr = NULL /\ e.addr = c.addr
  BY DEF Cell
<1>5. D \ {e} = C \ {c}
  <2>1. e \in C => e = c
    BY <1>4 DEF Memory
  <2> HIDE DEF e
  <2> QED
    BY <2>1
<1> HIDE DEF g, D, e
<1>6. HeapInv(g) /\ e.addr \in Ptrs(g)
  BY <1>3, <1>4 DEF Memory
<1>7. Freed(g, e.addr, Free(g, e.addr))
  BY <1>6, FreeKeeps
<1>8. Memory(Free(g, e.addr), D \ {e}, B, x)
  BY <1>3, <1>4, <1>7, EntryIsFreed
<1> QED
  BY <1>4, <1>5, <1>8 DEF g

LEMMA ChainIsFreed ==
    ASSUME NEW h, NEW q, NEW B, NEW x, Held(h, q, B, x)
    PROVE  Memory(FoldLeft(LAMBDA f, e : Free(Free(f, e.ptr), e.addr), h, q), {}, B, x)
<1> DEFINE n == Len(q)
           C(i) == {CellOf(q[k]) : k \in i + 1 .. n}
<1>1. IsSeq(q) /\ Apart(q) /\ Memory(h, Cells(q), B, x) /\ n \in Nat
  BY LengthIsNumber DEF Held
<1>2. PICK g : /\ FreeWalks(q, h, 1 .. n, g)
               /\ FoldLeft(LAMBDA f, e : Free(Free(f, e.ptr), e.addr), h, q) = g[1 .. n]
  BY <1>1, FreeIsWalked
<1> DEFINE T == {i \in 0 .. n : ~Memory(g[1 .. i], C(i), B, x)}
<1>3. T = {}
  <2> SUFFICES ASSUME T # {} PROVE FALSE
    OBVIOUS
  <2>1. PICK i \in T : \A j \in T : i <= j
    <3>1. T \subseteq Nat
      OBVIOUS
    <3> HIDE DEF T
    <3> QED
      BY <3>1, LeastNumber
  <2>2. i \in 0 .. n /\ ~Memory(g[1 .. i], C(i), B, x)
    OBVIOUS
  <2>3. 1 .. i \in SUBSET (1 .. n)
    BY <1>1, <2>2
  <2>4. g[1 .. i] = IF 1 .. i = {} THEN h ELSE Released(g[(1 .. i) \ {Max(1 .. i)}], q[Max(1 .. i)])
    BY <1>2, <2>3 DEF FreeWalks
  <2>5. CASE i = 0
    <3>1. 1 .. i = {}
      BY <2>5
    <3>2. g[1 .. i] = h
      BY <2>4, <3>1
    <3>3. C(0) = Cells(q)
      BY DEF Cells
    <3> QED
      BY <1>1, <2>2, <2>5, <3>2, <3>3
  <2>6. CASE i # 0
    <3>1. i \in 1 .. i /\ i \in Nat /\ 1 .. i # {} /\ 1 .. i \subseteq 1 .. i
      BY <2>2, <2>6
    <3>2. Max(1 .. i) \in 1 .. i /\ \A y \in 1 .. i : Max(1 .. i) >= y
      BY <3>1, MaxIsLargest
    <3>3. Max(1 .. i) = i
      BY <3>1, <3>2
    <3>4. (1 .. i) \ {i} = 1 .. i - 1 /\ i - 1 \in 0 .. n /\ (i - 1) + 1 = i
      BY <1>1, <2>2, <2>6
    <3>5. g[1 .. i] = Released(g[1 .. i - 1], q[i])
      BY <2>4, <3>1, <3>3, <3>4
    <3>6. Memory(g[1 .. i - 1], C(i - 1), B, x)
      <4>1. i - 1 \notin T
        <5> HIDE DEF T
        <5> QED
          BY <2>1, <3>1
      <4> QED
        BY <3>4, <4>1
    <3>7. CellOf(q[i]) \in C(i - 1)
      BY <1>1, <2>2, <2>6
    <3>8. C(i - 1) \ {CellOf(q[i])} = C(i)
      <4>1. \A k \in i .. n : k = i \/ k \in i + 1 .. n
        BY <1>1, <2>2
      <4>2. \A k \in i + 1 .. n : k \in i .. n
        BY <1>1, <2>2
      <4>3. \A k \in i + 1 .. n : CellOf(q[k]) # CellOf(q[i])
        <5> TAKE k \in i + 1 .. n
        <5>1. k \in 1 .. n /\ i \in 1 .. n /\ k # i
          BY <1>1, <2>2, <2>6
        <5> QED
          BY <1>1, <5>1, CellIs DEF Apart
      <4> QED
        BY <3>4, <4>1, <4>2, <4>3
    <3> HIDE DEF C
    <3>9. Memory(Free(Free(g[1 .. i - 1], CellOf(q[i]).ptr), CellOf(q[i]).addr),
                 C(i - 1) \ {CellOf(q[i])}, B, x)
      BY <3>6, <3>7, CellIsFreed
    <3> QED
      BY <2>2, <3>5, <3>8, <3>9, CellIs DEF Released
  <2> QED
    BY <2>5, <2>6
<1>4. Memory(g[1 .. n], C(n), B, x)
  <2>1. n \in 0 .. n
    BY <1>1
  <2> HIDE DEF C, n
  <2> QED
    BY <1>3, <2>1
<1>5. C(n) = {}
  BY <1>1
<1> QED
  BY <1>2, <1>4, <1>5

-----------------------------------------------------------------------------
(* Picking a slot.                                                         *)

\* A build without a clock keeps the entry it uses again only if there is a
\* second one: ssl_cache_pick_writing_slot() links a single entry behind itself.
KeepsTwo == \A b \in Builds : b.have_time \/ \A max \in b.limits : max > 1

LimitIsRight == KeepsTwo /\ ~have_time => max_entries > 1

LEMMA ReusedCell ==
    ASSUME NEW e, CacheInv
    PROVE  /\ CellOf(Reused(e)) = Cell(e.addr, NULL, NoSession) /\ Reused(e).addr = e.addr
           /\ e \in Entries => Reused(e) \in Entries
<1>1. Reused(e) = [addr |-> e.addr, id |-> NoId, ptr |-> NULL, session |-> NoSession,
                   timestamp |-> Time]
  BY ReusedIsBlank
<1>2. Time \in Nat /\ NULL \in Pointers
  BY TimeIsNumber DEF Pointers
<1> QED
  BY <1>1, <1>2 DEF CellOf, Cell, Entries

\* The session of the entry at k is freed.
LEMMA SlotIsFreed ==
    ASSUME NEW h, NEW q, NEW B, NEW x, Held(h, q, B, x), NEW k \in 1 .. Len(q)
    PROVE  Memory(Free(h, q[k].ptr),
                  (Cells(q) \ {CellOf(q[k])}) \cup {Cell(q[k].addr, NULL, NoSession)}, B, x)
<1> DEFINE c == CellOf(q[k])
           g == Free(h, c.ptr)
<1>1. c \in Cells(q) /\ c.ptr = q[k].ptr /\ c.addr = q[k].addr
  BY CellIs DEF Cells
<1>2. Memory(h, Cells(q), B, x)
  BY DEF Held
<1> HIDE DEF c
<1>3. HeapInv(h) /\ c.ptr \in Ptrs(h) \cup {NULL}
  BY <1>1, <1>2 DEF Memory
<1>4. Freed(h, c.ptr, g)
  BY <1>3, FreeKeeps
<1> HIDE DEF g
<1>5. Memory(g, (Cells(q) \ {c}) \cup {Cell(c.addr, NULL, NoSession)}, B, x)
  BY <1>1, <1>2, <1>4, SessionIsFreed
<1>6. Memory(Free(h, c.ptr), (Cells(q) \ {c}) \cup {Cell(c.addr, NULL, NoSession)}, B, x)
  BY <1>5 DEF g
<1> QED
  BY <1>1, <1>6 DEF c

LEMMA ReuseIsHeld ==
    ASSUME CacheInv, NEW B, NEW x, Held(heap, chain, B, x), NEW k \in 1 .. Len(chain)
    PROVE  Held(Reuse(k).heap, Reuse(k).chain, B, x)
<1> DEFINE e == Reused(chain[k])
           q == [chain EXCEPT ![k] = e]
           g == Free(heap, chain[k].ptr)
<1>1. Reuse(k).heap = g /\ Reuse(k).chain = q
  BY DEF Reuse, Picked
<1>2. IsSeq(chain) /\ Apart(chain) /\ \A j \in 1 .. Len(chain) : chain[j] \in Entries
  BY DEF Held
<1>3. CellOf(e) = Cell(chain[k].addr, NULL, NoSession) /\ e.addr = chain[k].addr /\ e \in Entries
  BY <1>2, ReusedCell
<1>4. IsReplaced(q, chain, k, e)
  BY <1>2, Replacing
<1>5. Memory(g, (Cells(chain) \ {CellOf(chain[k])}) \cup {Cell(chain[k].addr, NULL, NoSession)}, B, x)
  BY SlotIsFreed
<1> HIDE DEF e, q, g
<1>6. Cells(q) = (Cells(chain) \ {CellOf(chain[k])}) \cup {CellOf(e)} /\ Apart(q)
  BY <1>2, <1>3, <1>4, CellIsReplaced
<1>7. IsSeq(q) /\ \A j \in 1 .. Len(q) : q[j] \in Entries
  BY <1>2, <1>3, <1>4 DEF IsReplaced
<1>8. Memory(g, Cells(q), B, x)
  BY <1>3, <1>5, <1>6
<1> QED
  BY <1>1, <1>6, <1>7, <1>8 DEF Held

LEMMA NewIsHeld ==
    ASSUME CacheInv, NEW B, NEW x, Held(heap, chain, B, x), NewEntry.ok
    PROVE  Held(NewEntry.heap, NewEntry.chain, B, x)
<1> DEFINE r == Calloc(heap, 1, EntrySize)
           e == [Blank(r.ptr) EXCEPT !.timestamp = Time]
           q == Append(chain, e)
           b == Block(r.ptr, EntrySize)
           C == Cells(chain)
<1>1. r.ptr # NULL /\ NewEntry.heap = r.heap /\ NewEntry.chain = q
  BY DEF NewEntry, Picked, NotPicked
<1>2. /\ IsSeq(chain) /\ Apart(chain) /\ \A j \in 1 .. Len(chain) : chain[j] \in Entries
      /\ Memory(heap, C, B, x)
  BY DEF Held
<1>3. EntrySize \in Nat /\ 1 * EntrySize = EntrySize /\ EntrySize >= EntrySize
  BY CacheConstants
<1>4. Got(heap, EntrySize, r)
  <2>1. HeapInv(heap)
    BY <1>2 DEF Memory
  <2>2. Got(heap, 1 * EntrySize, Calloc(heap, 1, EntrySize))
    BY <1>3, <2>1, CallocKeeps
  <2> QED
    BY <1>3, <2>2
<1>5. e = [addr |-> r.ptr, id |-> NoId, ptr |-> NULL, session |-> NoSession, timestamp |-> Time]
  BY DEF Blank
<1> HIDE DEF r, e
<1>6. Memory(r.heap, C, B \cup {b}, x) /\ b \notin B /\ r.ptr \in Addresses
  BY <1>1, <1>2, <1>3, <1>4, BlockIsGot
<1>7. (B \cup {b}) \ {b} = B
  BY <1>6
<1>8. Memory(r.heap, C \cup {Cell(r.ptr, NULL, NoSession)}, (B \cup {b}) \ {b}, x)
  BY <1>3, <1>6, EntryIsMade
<1>9. e.addr = r.ptr /\ CellOf(e) = Cell(r.ptr, NULL, NoSession) /\ e \in Entries
  <2>1. Time \in Nat /\ NULL \in Pointers
    BY TimeIsNumber DEF Pointers
  <2> QED
    BY <1>5, <1>6, <2>1 DEF CellOf, Cell, Entries
<1>10. \A k \in 1 .. Len(chain) : chain[k].addr # e.addr
  <2> TAKE k \in 1 .. Len(chain)
  <2>1. CellOf(chain[k]) \in C /\ CellOf(chain[k]).addr = chain[k].addr
    BY CellIs DEF Cells
  <2>2. b.ptr = r.ptr
    BY DEF Block
  <2> HIDE DEF C, b
  <2> QED
    BY <1>6, <1>9, <2>1, <2>2 DEF Memory
<1>11. Cells(q) = C \cup {CellOf(e)} /\ Apart(q) /\ IsSeq(q)
  BY <1>2, <1>10, CellIsAdded
<1>12. \A j \in 1 .. Len(q) : q[j] \in Entries
  <2>1. Len(q) = Len(chain) + 1 /\ q[Len(chain) + 1] = e /\ \A j \in 1 .. Len(chain) : q[j] = chain[j]
    BY <1>2, Appending
  <2>2. Len(chain) \in Nat
    BY <1>2, LengthIsNumber
  <2> HIDE DEF q
  <2>3. \A j \in 1 .. Len(q) : j \in 1 .. Len(chain) \/ j = Len(chain) + 1
    BY <2>1, <2>2
  <2> QED
    BY <1>2, <1>9, <2>1, <2>3
<1>13. Memory(r.heap, Cells(q), B, x)
  BY <1>7, <1>8, <1>9, <1>11
<1> HIDE DEF q
<1> QED
  BY <1>1, <1>11, <1>12, <1>13 DEF Held

LEMMA MovedIsHeld ==
    ASSUME CacheInv, NEW B, NEW x, Held(heap, chain, B, x), chain # <<>>
    PROVE  /\ Len(chain) > 1 => Held(MoveFirst.heap, MoveFirst.chain, B, x)
           /\ Held(MoveFirst.heap, <<>>, B, FALSE)
           /\ Len(chain) = 1 => MoveFirst.chain = <<>>
<1> DEFINE e == Reused(Head(chain))
           g == Free(heap, Head(chain).ptr)
           t == Tail(chain)
           q == Append(t, e)
           n == Len(chain)
<1>1. /\ MoveFirst.heap = g
      /\ MoveFirst.chain = IF n = 1 THEN <<>> ELSE q
  BY DEF MoveFirst, Picked
<1>2. /\ IsSeq(chain) /\ Apart(chain) /\ \A j \in 1 .. Len(chain) : chain[j] \in Entries
  BY DEF Held
<1>3. /\ IsSeq(t) /\ Len(t) + 1 = n /\ Len(t) \in Nat /\ Head(chain) = chain[1]
      /\ \A j \in 1 .. Len(t) : j + 1 \in 1 .. n /\ t[j] = chain[j + 1]
  BY <1>2, TakingTheTail
<1> HIDE DEF t, n
<1>4. 1 \in 1 .. n
  BY <1>3
<1>5. LeavesOut(t, chain, 1)
  <2>1. \A j \in 1 .. Len(t) : t[j] = chain[IF j < 1 THEN j ELSE j + 1]
    <3>1. \A j \in 1 .. Len(t) : ~(j < 1)
      BY <1>3
    <3> QED
      BY <1>3, <3>1
  <2> QED
    BY <1>3, <2>1 DEF LeavesOut, n
<1>6. /\ Cells(t) = Cells(chain) \ {CellOf(chain[1])} /\ Apart(t)
      /\ \A j \in 1 .. Len(t) : t[j].addr # chain[1].addr
  BY <1>2, <1>4, <1>5, CellIsLeftOut DEF n
<1>7. /\ CellOf(e) = Cell(chain[1].addr, NULL, NoSession) /\ e.addr = chain[1].addr
      /\ e \in Entries
  BY <1>2, <1>3, <1>4, ReusedCell DEF n
<1>8. Memory(g, Cells(t) \cup {CellOf(e)}, B, x)
  <2>1. Memory(Free(heap, chain[1].ptr),
               (Cells(chain) \ {CellOf(chain[1])}) \cup {Cell(chain[1].addr, NULL, NoSession)}, B, x)
    BY <1>4, SlotIsFreed DEF n
  <2> QED
    BY <1>3, <1>6, <1>7, <2>1
<1> HIDE DEF e, g
<1>9. Cells(q) = Cells(t) \cup {CellOf(e)} /\ Apart(q) /\ IsSeq(q)
  BY <1>3, <1>6, <1>7, CellIsAdded
<1>10. \A j \in 1 .. Len(q) : q[j] \in Entries
  <2>1. Len(q) = Len(t) + 1 /\ q[Len(t) + 1] = e /\ \A j \in 1 .. Len(t) : q[j] = t[j]
    BY <1>3, Appending
  <2> HIDE DEF q
  <2>2. \A j \in 1 .. Len(q) : j \in 1 .. Len(t) \/ j = Len(t) + 1
    BY <1>3, <2>1
  <2> QED
    BY <1>2, <1>3, <1>7, <2>1, <2>2 DEF n
<1>11. Held(g, q, B, x)
  BY <1>8, <1>9, <1>10 DEF Held
<1>12. Held(g, <<>>, B, FALSE)
  <2>1. Memory(g, {}, B, FALSE)
    BY <1>8, EntryIsLost
  <2>2. IsSeq(<<>>) /\ Len(<<>>) = 0 /\ 1 .. 0 = {}
    BY EmptySeq DEF IsSeq
  <2>3. Cells(<<>>) = {} /\ Apart(<<>>)
    BY <2>2 DEF Cells, Apart
  <2> QED
    BY <2>1, <2>2, <2>3 DEF Held
<1>13. n > 1 => n # 1
  BY <1>3
<1> QED
  BY <1>1, <1>11, <1>12, <1>13 DEF n

\* The entry that is lost in a build without a clock and with room for one.
LEMMA NobodyHolds ==
    ASSUME NEW h, NEW q, NEW B, Held(h, q, B, FALSE), ~KeepsTwo
    PROVE  Held(h, q, B, KeepsTwo)
BY DEF Held, Memory

LEMMA UnpickedKeepsHeap ==
    ASSUME NEW id, ~PickWritingSlot(id).ok
    PROVE  \/ PickWritingSlot(id).heap = heap
           \/ /\ PickWritingSlot(id).heap = Calloc(heap, 1, EntrySize).heap
              /\ Calloc(heap, 1, EntrySize).ptr = NULL
<1> DEFINE pick == PickWritingSlot(id)
<1>1. (\E k : pick = Reuse(k)) \/ pick = NewEntry \/ pick = NotPicked(heap) \/ pick = MoveFirst
  BY Zenon DEF PickWritingSlot
<1>2. (\A k : Reuse(k).ok) /\ MoveFirst.ok
  BY DEF Reuse, MoveFirst, Picked
<1>3. NotPicked(heap).heap = heap
  BY DEF NotPicked
<1>4. ~NewEntry.ok => /\ NewEntry.heap = Calloc(heap, 1, EntrySize).heap
                      /\ Calloc(heap, 1, EntrySize).ptr = NULL
  BY DEF NewEntry, Picked, NotPicked
<1> HIDE DEF pick
<1>5. ~pick.ok
  BY DEF pick
<1>6. pick = NewEntry \/ pick = NotPicked(heap)
  BY <1>1, <1>2, <1>5, Zenon
<1>7. \/ pick.heap = heap
      \/ /\ pick.heap = Calloc(heap, 1, EntrySize).heap
         /\ Calloc(heap, 1, EntrySize).ptr = NULL
  BY <1>3, <1>4, <1>5, <1>6, Zenon
<1> QED
  BY <1>7 DEF pick

\* What was picked is held, by the chain or by the call.
LEMMA PickIsHeld ==
    ASSUME CacheInv, LimitIsRight, NEW B, Held(heap, chain, B, KeepsTwo), NEW id \in Ids,
           NEW pick, pick = PickWritingSlot(id)
    PROVE  Held(pick.heap, pick.chain, B, KeepsTwo) /\ (pick.ok /\ pick.at = 0 => ~KeepsTwo)
<1>1. SlotIsRight(id, pick)
  BY SlotIsPicked
<1>2. HeapInv(heap) /\ EntrySize \in Nat
  BY CacheConstants DEF Held, Memory
<1>3. Len(chain) \in Nat
  BY LengthIsNumber DEF Held
<1>4. CASE ~pick.ok /\ pick.chain = chain
  <2>1. pick.heap = heap
    <3>1. Got(heap, 1 * EntrySize, Calloc(heap, 1, EntrySize))
      BY <1>2, CallocKeeps
    <3>2. Calloc(heap, 1, EntrySize).ptr = NULL => Calloc(heap, 1, EntrySize).heap = heap
      <4>1. NULL \notin Addresses
        BY SizesAreNumbers DEF Addresses
      <4> QED
        BY <3>1, <4>1 DEF Got
    <3> QED
      BY <1>4, <3>2, UnpickedKeepsHeap, Zenon
  <2> QED
    BY <1>4, <2>1
<1>5. CASE \E k \in 1 .. Len(chain) : pick = Reuse(k)
  <2>1. PICK k \in 1 .. Len(chain) : pick = Reuse(k)
    BY <1>5
  <2>2. pick.at = k /\ k # 0
    BY <2>1, <1>3 DEF Reuse, Picked
  <2> QED
    BY <2>1, <2>2, ReuseIsHeld
<1>6. CASE pick.ok /\ pick.at = Len(chain) + 1 /\ pick = NewEntry
  <2>1. pick.at # 0
    BY <1>3, <1>6
  <2>2. Held(NewEntry.heap, NewEntry.chain, B, KeepsTwo)
    BY <1>6, NewIsHeld, Zenon
  <2> QED
    BY <1>6, <2>1, <2>2, Zenon
<1>7. CASE /\ chain # <<>> /\ ~have_time /\ Len(chain) >= max_entries /\ pick = MoveFirst
           /\ Len(chain) = 1 /\ pick.chain = <<>>
  <2>1. ~KeepsTwo
    BY <1>7 DEF LimitIsRight, CacheInv, ClockIsRight
  <2>2. Held(pick.heap, <<>>, B, FALSE)
    BY <1>7, MovedIsHeld, Zenon
  <2> QED
    BY <1>7, <2>1, <2>2, NobodyHolds
<1>8. CASE chain # <<>> /\ pick = MoveFirst /\ Len(chain) > 1 /\ pick.at = Len(chain)
  <2>1. pick.at # 0
    BY <1>8, <1>3
  <2>2. Held(MoveFirst.heap, MoveFirst.chain, B, KeepsTwo)
    BY <1>8, MovedIsHeld, Zenon
  <2> QED
    BY <1>8, <2>1, <2>2, Zenon
<1> QED
  BY <1>1, <1>4, <1>5, <1>6, <1>7, <1>8 DEF SlotIsRight

-----------------------------------------------------------------------------
(* Every block has an owner.                                               *)

OtherBlocks == [ptr : Addresses, len : Nat]

\* The chain and the rest of the program hold the blocks in use; a buffer too
\* small for a block is not used.
MemoryIsHeld ==
    IF BufLen < HdrSize + Align
    THEN heap = AllocInit /\ chain = <<>> /\ others = {}
    ELSE /\ Held(heap, chain, others, KeepsTwo)
         /\ others \subseteq OtherBlocks /\ IsFiniteSet(others)

OwnersInv == CacheInv /\ LimitIsRight /\ MemoryIsHeld

LEMMA SmallIsUnused ==
    ASSUME BufLen < HdrSize + Align
    PROVE  /\ \A n, size : Calloc(AllocInit, n, size).heap = AllocInit
           /\ \A n, size : Calloc(AllocInit, n, size).ptr = NULL
<1>1. AllocInit.first = NULL
  BY DEF AllocInit
<1> QED
  BY <1>1, Zenon DEF Calloc

\* The block of the rest of a call that failed is freed again.
LEMMA FailedIsFreed ==
    ASSUME NEW h, NEW q, NEW B, NEW x, Held(h, q, B, x), NEW len \in Nat, NEW r, Got(h, len, r)
    PROVE  Held(Free(r.heap, r.ptr), q, B, x)
<1>0. Memory(h, Cells(q), B, x)
  BY DEF Held
<1>1. CASE r.ptr = NULL
  <2>1. r.heap = h
    <3>1. NULL \notin Addresses
      BY SizesAreNumbers DEF Addresses
    <3> QED
      BY <1>1, <3>1 DEF Got
  <2>2. Free(r.heap, r.ptr) = h
    BY <1>1, <2>1 DEF Free
  <2> QED
    BY <2>2
<1>2. CASE r.ptr # NULL
  <2> DEFINE b == Block(r.ptr, len)
             g == r.heap
             C == Cells(q)
  <2>1. Memory(g, C, B \cup {b}, x) /\ b \notin B
    BY <1>0, <1>2, BlockIsGot
  <2>2. b.ptr = r.ptr
    BY DEF Block
  <2> HIDE DEF b, g, C
  <2>3. HeapInv(g) /\ b.ptr \in Ptrs(g)
    BY <2>1 DEF Memory
  <2>4. Freed(g, b.ptr, Free(g, b.ptr))
    BY <2>3, FreeKeeps
  <2>5. Memory(Free(g, b.ptr), C, (B \cup {b}) \ {b}, x)
    BY <2>1, <2>4, BlockIsFreed
  <2>6. (B \cup {b}) \ {b} = B
    BY <2>1
  <2>7. Memory(Free(g, b.ptr), C, B, x)
    BY <2>5, <2>6
  <2> QED
    BY <2>2, <2>7 DEF Held, g, C
<1> QED
  BY <1>1, <1>2

\* The session is stored in the slot.
LEMMA SlotIsFilled ==
    ASSUME NEW h, NEW q, NEW B, NEW x, Held(h, q, B, x), NEW s \in Sessions, NEW id \in Ids,
           NEW r, Got(h, SessionLen[s], r), r.ptr # NULL,
           NEW k \in 1 .. Len(q), NEW t \in Nat, IsEntry(q[k], q[k].addr, NoId, NULL, NoSession, t),
           NEW e, IsEntry(e, q[k].addr, id, r.ptr, s, t)
    PROVE  Held(r.heap, [q EXCEPT ![k] = e], B, x)
<1> DEFINE len == SessionLen[s]
           b == Block(r.ptr, len)
           C == Cells(q)
           f == [q EXCEPT ![k] = e]
           a == q[k].addr
<1>0. /\ IsSeq(q) /\ Apart(q) /\ \A j \in 1 .. Len(q) : q[j] \in Entries
      /\ Memory(h, C, B, x) /\ len \in Nat
  BY CacheConstants DEF Held
<1>1. CellOf(q[k]) = Cell(a, NULL, NoSession) /\ CellOf(q[k]) \in C /\ a \in Addresses
  BY <1>0 DEF IsEntry, CellOf, Cells, Entries
<1>2. Memory(r.heap, C, B \cup {b}, x) /\ b \notin B /\ r.ptr \in Addresses
  BY <1>0, BlockIsGot
<1>3. CellOf(e) = Cell(a, r.ptr, s) /\ e.addr = a /\ e \in Entries
  BY <1>1, <1>2 DEF IsEntry, CellOf, Cell, Entries, Pointers
<1> HIDE DEF C, a
<1>4. Memory(r.heap, (C \ {Cell(a, NULL, NoSession)}) \cup {Cell(a, r.ptr, s)},
             (B \cup {b}) \ {b}, x)
  BY <1>1, <1>2, SessionIsStored
<1>5. (B \cup {b}) \ {b} = B
  BY <1>2
<1>6. IsReplaced(f, q, k, e)
  BY <1>0, Replacing
<1> HIDE DEF f, b
<1>7. Cells(f) = (C \ {CellOf(q[k])}) \cup {CellOf(e)} /\ Apart(f)
  BY <1>0, <1>3, <1>6, CellIsReplaced DEF C, a
<1>8. IsSeq(f) /\ \A j \in 1 .. Len(f) : f[j] \in Entries
  BY <1>0, <1>3, <1>6 DEF IsReplaced
<1>9. Memory(r.heap, Cells(f), B, x)
  BY <1>1, <1>3, <1>4, <1>5, <1>7
<1> QED
  BY <1>7, <1>8, <1>9 DEF Held, f

\* mbedtls_ssl_cache_set(), whatever fails.
LEMMA SetHolds ==
    ASSUME CacheInv, LimitIsRight, NEW B, Held(heap, chain, B, KeepsTwo), NEW id \in Ids,
           NEW s \in Sessions, NEW o \in Outcomes, CacheSet(id, s, o)
    PROVE  Held(heap', chain', B, KeepsTwo)
<1>1. PICK pick : pick = PickWritingSlot(id)
  OBVIOUS
<1>2. PICK r : r = Calloc(pick.heap, 1, SessionLen[s])
  OBVIOUS
<1>3. Held(pick.heap, pick.chain, B, KeepsTwo) /\ (pick.ok /\ pick.at = 0 => ~KeepsTwo)
  BY <1>1, PickIsHeld
<1>4. SlotIsEmpty(id, pick)
  BY <1>1, SlotIsPicked, SlotBecomesEmpty
<1>5. Got(pick.heap, SessionLen[s], r) /\ SessionLen[s] \in Nat
  <2>1. SessionLen[s] \in Nat /\ 1 * SessionLen[s] = SessionLen[s]
    BY CacheConstants
  <2>2. HeapInv(pick.heap)
    BY <1>3 DEF Held, Memory
  <2>3. Got(pick.heap, 1 * SessionLen[s], Calloc(pick.heap, 1, SessionLen[s]))
    BY <2>1, <2>2, CallocKeeps
  <2> QED
    BY <1>2, <2>1, <2>3
<1>6. \/ heap' = pick.heap /\ chain' = pick.chain
      \/ heap' = Free(r.heap, r.ptr) /\ chain' = pick.chain
      \/ /\ pick.ok /\ r.ptr # NULL /\ heap' = r.heap
         /\ chain' = IF pick.at = 0 THEN pick.chain
                     ELSE [pick.chain EXCEPT
                            ![pick.at] = [pick.entry EXCEPT !.id = id, !.ptr = r.ptr,
                                                            !.session = s]]
  BY <1>1, <1>2, Zenon DEF CacheSet
<1>7. CASE heap' = pick.heap /\ chain' = pick.chain
  BY <1>3, <1>7
<1>8. CASE heap' = Free(r.heap, r.ptr) /\ chain' = pick.chain
  BY <1>3, <1>5, <1>8, FailedIsFreed
<1>9. CASE pick.ok /\ pick.at = 0 /\ r.ptr # NULL /\ heap' = r.heap /\ chain' = pick.chain
  <2> DEFINE b == Block(r.ptr, SessionLen[s])
             C == Cells(pick.chain)
  <2>1. Memory(pick.heap, C, B, KeepsTwo)
    BY <1>3 DEF Held
  <2>2. Memory(r.heap, C, B \cup {b}, KeepsTwo)
    BY <1>5, <1>9, <2>1, BlockIsGot
  <2> HIDE DEF b, C
  <2>3. Memory(r.heap, C, B, FALSE)
    BY <2>2, EntryIsLost
  <2>4. Held(r.heap, pick.chain, B, FALSE)
    BY <1>3, <2>3 DEF Held, C
  <2> QED
    BY <1>3, <1>9, <2>4, NobodyHolds
<1>10. CASE /\ pick.ok /\ pick.at # 0 /\ r.ptr # NULL /\ heap' = r.heap
            /\ chain' = [pick.chain EXCEPT
                           ![pick.at] = [pick.entry EXCEPT !.id = id, !.ptr = r.ptr,
                                                           !.session = s]]
  <2> DEFINE e == [pick.entry EXCEPT !.id = id, !.ptr = r.ptr, !.session = s]
             k == pick.at
             q == pick.chain
  <2>1. PICK p : pick.entry = [addr |-> p, id |-> NoId, ptr |-> NULL, session |-> NoSession,
                               timestamp |-> Time]
    BY <1>4, <1>10, Zenon DEF SlotIsEmpty
  <2>2. k \in 1 .. Len(q) /\ pick.entry = q[k]
    BY <1>4, <1>10, Zenon DEF SlotIsEmpty
  <2>3. IsEntry(pick.entry, p, NoId, NULL, NoSession, Time)
    BY <2>1, Zenon DEF IsEntry
  <2>4. IsEntry(e, p, id, r.ptr, s, Time)
    BY <2>3, BlankIsFilled
  <2>5. p = q[k].addr
    BY <2>1, <2>2
  <2>6. Time \in Nat
    BY TimeIsNumber
  <2>7. chain' = [q EXCEPT ![k] = e]
    BY <1>10
  <2> HIDE DEF e, k, q
  <2>8. Held(pick.heap, q, B, KeepsTwo)
    BY <1>3 DEF q
  <2>9. IsEntry(q[k], q[k].addr, NoId, NULL, NoSession, Time) /\ IsEntry(e, q[k].addr, id, r.ptr, s, Time)
    BY <2>2, <2>3, <2>4, <2>5
  <2>10. Held(r.heap, [q EXCEPT ![k] = e], B, KeepsTwo)
    BY <1>5, <1>10, <2>2, <2>6, <2>8, <2>9, SlotIsFilled
  <2> QED
    BY <1>10, <2>7, <2>10
<1> QED
  BY <1>6, <1>7, <1>8, <1>9, <1>10

\* mbedtls_ssl_cache_remove()
LEMMA RemoveHolds ==
    ASSUME CacheInv, NEW B, NEW x, Held(heap, chain, B, x), NEW id \in Ids, CacheRemove(id)
    PROVE  Held(heap', chain', B, x)
<1> DEFINE k == FindEntry(id)
           c == CellOf(chain[k])
           C == Cells(chain)
           n == Len(chain)
<1>1. k \in 1 .. n
  BY SessionIsGot DEF GetsTheSession, CacheRemove
<1>2. heap' = Free(Free(heap, chain[k].ptr), chain[k].addr) /\ chain' = RemoveAt(chain, k)
  BY DEF CacheRemove
<1> HIDE DEF k
<1>3. /\ IsSeq(chain) /\ Apart(chain) /\ \A j \in 1 .. n : chain[j] \in Entries
      /\ Memory(heap, C, B, x) /\ n \in Nat
  BY LengthIsNumber DEF Held
<1>4. c \in C /\ c.ptr = chain[k].ptr /\ c.addr = chain[k].addr
  BY <1>1, CellIs DEF Cells
<1> HIDE DEF c, C
<1>5. Memory(heap', C \ {c}, B, x)
  BY <1>2, <1>3, <1>4, CellIsFreed
<1>6. LeavesOut(chain', chain, k) /\ \A j \in 1 .. Len(chain') : \E i \in 1 .. n : chain'[j] = chain[i]
  <2> DEFINE from(j) == IF j < k THEN j ELSE j + 1
  <2>1. /\ IsSeq(chain') /\ Len(chain') + 1 = n /\ Len(chain') \in Nat
        /\ \A j \in 1 .. Len(chain') : from(j) \in 1 .. n /\ chain'[j] = chain[from(j)]
    <3>1. IsSeq(chain) /\ k \in 1 .. Len(chain) /\ n = Len(chain)
      BY <1>1, <1>3
    <3> HIDE DEF n
    <3>2. /\ IsSeq(chain') /\ Len(chain') + 1 = Len(chain) /\ Len(chain') \in Nat
          /\ \A j \in 1 .. Len(chain') : from(j) \in 1 .. Len(chain) /\ chain'[j] = chain[from(j)]
      BY <1>2, <3>1, Removing
    <3> QED
      BY <3>1, <3>2
  <2>2. \A j \in 1 .. Len(chain') : chain'[j] = chain[IF j < k THEN j ELSE j + 1]
    BY <2>1
  <2>3. LeavesOut(chain', chain, k)
    BY <2>1, <2>2 DEF LeavesOut
  <2> HIDE DEF from
  <2> QED
    BY <2>1, <2>3
<1>7. Cells(chain') = C \ {c} /\ Apart(chain') /\ IsSeq(chain')
  BY <1>1, <1>3, <1>6, CellIsLeftOut DEF c, C
<1> QED
  BY <1>3, <1>5, <1>6, <1>7 DEF Held

\* mbedtls_ssl_cache_free()
LEMMA FreeHolds ==
    ASSUME NEW B, NEW x, Held(heap, chain, B, x), CacheFree
    PROVE  Held(heap', chain', B, x)
<1>1. /\ heap' = FoldLeft(LAMBDA h, e : Free(Free(h, e.ptr), e.addr), heap, chain)
      /\ chain' = <<>>
  BY DEF CacheFree
<1>2. Memory(heap', {}, B, x)
  BY <1>1, ChainIsFreed
<1>3. IsSeq(<<>>) /\ Len(<<>>) = 0 /\ 1 .. 0 = {}
  BY EmptySeq DEF IsSeq
<1>4. Cells(<<>>) = {} /\ Apart(<<>>)
  BY <1>3 DEF Cells, Apart
<1> QED
  BY <1>1, <1>2, <1>3, <1>4 DEF Held

\* The rest of the program.
LEMMA OtherCallocHolds ==
    ASSUME Held(heap, chain, others, KeepsTwo), others \subseteq OtherBlocks, IsFiniteSet(others),
           NEW n \in Nat, NEW size \in Nat, OtherCalloc(n, size)
    PROVE  /\ Held(heap', chain', others', KeepsTwo)
           /\ others' \subseteq OtherBlocks /\ IsFiniteSet(others')
<1>1. PICK r : r = Calloc(heap, n, size)
  OBVIOUS
<1>2. /\ heap' = r.heap /\ chain' = chain
      /\ others' = IF r.ptr = NULL THEN others ELSE others \cup {[ptr |-> r.ptr, len |-> n * size]}
  BY <1>1 DEF OtherCalloc
<1>3. PICK len \in Nat : len = n * size
  OBVIOUS
<1>4. Memory(heap, Cells(chain), others, KeepsTwo)
  BY DEF Held
<1>5. Got(heap, len, r)
  <2>1. HeapInv(heap)
    BY <1>4 DEF Memory
  <2>2. Got(heap, n * size, Calloc(heap, n, size))
    BY <2>1, CallocKeeps
  <2> QED
    BY <1>1, <1>3, <2>2
<1>6. CASE r.ptr = NULL
  <2>1. r.heap = heap
    <3>1. NULL \notin Addresses
      BY SizesAreNumbers DEF Addresses
    <3> QED
      BY <1>5, <1>6, <3>1 DEF Got
  <2> QED
    BY <1>2, <1>6, <2>1
<1>7. CASE r.ptr # NULL
  <2> DEFINE b == Block(r.ptr, len)
             C == Cells(chain)
  <2>1. others' = others \cup {b}
    BY <1>2, <1>3, <1>7 DEF Block
  <2>2. Memory(r.heap, C, others \cup {b}, KeepsTwo) /\ r.ptr \in Addresses
    BY <1>4, <1>5, <1>7, BlockIsGot
  <2>3. b \in OtherBlocks
    BY <2>2 DEF Block, OtherBlocks
  <2>4. IsFiniteSet(others \cup {b})
    BY FS_AddElement
  <2> HIDE DEF b, C
  <2>5. Held(r.heap, chain, others \cup {b}, KeepsTwo)
    BY <2>2 DEF Held, C
  <2> QED
    BY <1>2, <2>1, <2>3, <2>4, <2>5
<1> QED
  BY <1>6, <1>7

LEMMA OtherFreeHolds ==
    ASSUME Held(heap, chain, others, KeepsTwo), others \subseteq OtherBlocks, IsFiniteSet(others),
           NEW b \in others, OtherFree(b)
    PROVE  /\ Held(heap', chain', others', KeepsTwo)
           /\ others' \subseteq OtherBlocks /\ IsFiniteSet(others')
<1>1. heap' = Free(heap, b.ptr) /\ others' = others \ {b} /\ chain' = chain
  BY DEF OtherFree
<1>2. Memory(heap, Cells(chain), others, KeepsTwo)
  BY DEF Held
<1>3. HeapInv(heap) /\ b.ptr \in Ptrs(heap)
  BY <1>2 DEF Memory
<1>4. Freed(heap, b.ptr, Free(heap, b.ptr))
  BY <1>3, FreeKeeps
<1>5. Memory(heap', Cells(chain), others', KeepsTwo)
  BY <1>1, <1>2, <1>4, BlockIsFreed
<1>6. others' \subseteq OtherBlocks /\ IsFiniteSet(others')
  BY <1>1, FS_RemoveElement
<1> QED
  BY <1>1, <1>5, <1>6 DEF Held

LEMMA EmptyHeapIsRight ==
    ASSUME BufLen >= HdrSize + Align
    PROVE  HeapInv(AllocInit) /\ Ptrs(AllocInit) = {}
<1> DEFINE h == AllocInit
           b == [size |-> BufLen - HdrSize, alloc |-> 0, prev |-> NULL, next |-> NULL,
                 prev_free |-> NULL, next_free |-> NULL]
<1>0. ~(BufLen < HdrSize + Align) /\ BufLen - HdrSize \in Nat /\ BufLen \in Nat /\ HdrSize \in Nat
      /\ BufLen > 0 /\ 0 # NULL
  BY SizesAreNumbers
<1>1. h = [first |-> 0, first_free |-> 0, hdr |-> [a \in {0} |-> b], total_used |-> 0,
           header_count |-> 0, exited |-> FALSE]
  BY <1>0 DEF AllocInit
<1>2. /\ h.first = 0 /\ h.first_free = 0 /\ h.hdr = [a \in {0} |-> b] /\ h.total_used = 0
      /\ h.header_count = 0 /\ h.exited = FALSE
  BY <1>1
<1>3. /\ b \in Headers /\ b.size = BufLen - HdrSize /\ b.alloc = 0 /\ b.prev = NULL
      /\ b.next = NULL /\ b.prev_free = NULL /\ b.next_free = NULL
  BY <1>0 DEF Headers, Pointers
<1> HIDE DEF b
<1>4. DOMAIN h.hdr = {0} /\ h.hdr[0] = b
  BY <1>2
<1>5. HeapIsTyped(h)
  <2>1. h = [first |-> h.first, first_free |-> h.first_free, hdr |-> h.hdr,
             total_used |-> h.total_used, header_count |-> h.header_count, exited |-> h.exited]
    BY <1>1
  <2>2. h.hdr \in [DOMAIN h.hdr -> Headers]
    BY <1>2, <1>3
  <2>3. DOMAIN h.hdr \subseteq Addresses
    BY <1>0, <1>4 DEF Addresses
  <2> HIDE DEF h
  <2> QED
    BY <2>1, <2>2, <2>3 DEF HeapIsTyped
<1> HIDE DEF h
<1>6. BlocksTile(h)
  BY <1>0, <1>2, <1>3, <1>4 DEF BlocksTile, EndOf
<1>7. FreeBlocks(h) = {0} /\ UsedBlocks(h) = {}
  BY <1>3, <1>4 DEF FreeBlocks, UsedBlocks
<1>8. FreeIsListed(h, FreeBlocks(h))
  <2>1. Ranks(h.hdr, {0}, "next_free", [a \in {0} |-> 0])
    BY <1>3, <1>4 DEF Ranks
  <2>2. \E r : Ranks(h.hdr, {0}, "next_free", r)
    BY <2>1
  <2>3. IsList(h.hdr, {0}, 0, "next_free", "prev_free")
    BY <1>0, <1>3, <1>4, <2>2 DEF IsList
  <2> QED
    BY <1>2, <1>4, <1>7, <2>3 DEF FreeIsListed
<1>9. BlocksAreCounted(h)
  <2>1. SizeSum(h.hdr, {}) = 0
    BY SizeSumUnfolds, FS_EmptySet
  <2>2. Cardinality({0}) = 1
    BY FS_Singleton
  <2> QED
    BY <1>2, <1>4, <1>7, <2>1, <2>2 DEF BlocksAreCounted
<1>10. FreeAreApart(h, {})
  BY <1>3, <1>4 DEF FreeAreApart
<1>11. Ptrs(h) = {}
  BY <1>7 DEF Ptrs
<1>12. HeapInv(h)
  BY <1>5, <1>6, <1>8, <1>9, <1>10 DEF HeapInv, HeapStage
<1> QED
  BY <1>11, <1>12 DEF h

LEMMA OwnersInitially == Init => OwnersInv
<1> SUFFICES ASSUME Init PROVE OwnersInv
  OBVIOUS
<1>1. CacheInv
  BY CacheInitially
<1>2. heap = AllocInit /\ chain = <<>> /\ others = {} /\ max_entries \in build.limits
      /\ build \in Builds
  BY DEF Init
<1>3. LimitIsRight
  BY <1>2 DEF LimitIsRight, KeepsTwo, have_time
<1>4. ASSUME ~(BufLen < HdrSize + Align)
      PROVE  Held(heap, chain, others, KeepsTwo) /\ others \subseteq OtherBlocks /\ IsFiniteSet(others)
  <2>1. BufLen >= HdrSize + Align
    BY <1>4, SizesAreNumbers
  <2>2. HeapInv(heap) /\ Ptrs(heap) = {}
    BY <1>2, <2>1, EmptyHeapIsRight
  <2>3. IsSeq(<<>>) /\ Len(<<>>) = 0 /\ 1 .. 0 = {}
    BY EmptySeq DEF IsSeq
  <2>4. Cells(<<>>) = {} /\ Apart(<<>>)
    BY <2>3 DEF Cells, Apart
  <2>5. Memory(heap, {}, {}, KeepsTwo)
    BY <2>2 DEF Memory
  <2>6. IsFiniteSet({})
    BY FS_EmptySet
  <2> QED
    BY <1>2, <2>3, <2>4, <2>5, <2>6 DEF Held
<1>5. MemoryIsHeld
  BY <1>2, <1>4 DEF MemoryIsHeld
<1> QED
  BY <1>1, <1>3, <1>5 DEF OwnersInv

LEMMA LimitStaysRight ==
    ASSUME OwnersInv, [Next]_vars
    PROVE  LimitIsRight'
<1>0. CacheInv /\ LimitIsRight /\ CacheInv'
  BY CacheStep DEF OwnersInv
<1>1. CASE UNCHANGED <<build, max_entries>>
  BY <1>0, <1>1 DEF LimitIsRight, KeepsTwo, have_time
<1>2. ASSUME NEW max \in build.limits, CacheSetMaxEntries(max)
      PROVE  LimitIsRight'
  <2>1. max_entries' = Max({max, 0}) /\ build' = build
    BY <1>2 DEF CacheSetMaxEntries
  <2>2. SUFFICES ASSUME KeepsTwo, ~have_time PROVE Max({max, 0}) > 1
    BY <2>1 DEF LimitIsRight, KeepsTwo, have_time
  <2>3. max > 1 /\ max \in Int
    BY <1>0, <1>2, <2>2, BuildIsTyped DEF KeepsTwo, CacheInv, ClockIsRight, have_time
  <2>4. \E x \in {max, 0} : \A y \in {max, 0} : x >= y
    BY <2>3
  <2>5. Max({max, 0}) \in {max, 0} /\ \A y \in {max, 0} : Max({max, 0}) >= y
    BY <2>4 DEF Max
  <2> QED
    BY <2>3, <2>5
<1>3. (\E id \in build.ids, s \in Sessions, o \in Outcomes : CacheSet(id, s, o))
         => UNCHANGED <<build, max_entries>>
  BY Zenon DEF CacheSet, config
<1>4. (\E id \in Ids : CacheRemove(id)) => UNCHANGED <<build, max_entries>>
  BY DEF CacheRemove, config
<1>5. (\E t \in build.timeouts : CacheSetTimeout(t)) => UNCHANGED <<build, max_entries>>
  BY DEF CacheSetTimeout
<1>6. CacheFree => UNCHANGED <<build, max_entries>>
  BY DEF CacheFree, config
<1>7. (\E r \in Requests : OtherCalloc(r[1], r[2])) => UNCHANGED <<build, max_entries>>
  BY DEF OtherCalloc, config
<1>8. (\E b \in others : OtherFree(b)) => UNCHANGED <<build, max_entries>>
  BY DEF OtherFree, config
<1>9. Tick \/ UNCHANGED vars => UNCHANGED <<build, max_entries>>
  BY DEF Tick, config, vars
<1> QED
  BY <1>1, <1>2, <1>3, <1>4, <1>5, <1>6, <1>7, <1>8, <1>9 DEF Next

\* What the functions of ssl_cache.c do with a buffer that is too small.
LEMMA SmallStays ==
    ASSUME OwnersInv, [Next]_vars, BufLen < HdrSize + Align
    PROVE  heap' = AllocInit /\ chain' = <<>> /\ others' = {}
<1>0. /\ CacheInv /\ heap = AllocInit /\ chain = <<>> /\ others = {} /\ Len(chain) = 0
      /\ 1 .. Len(chain) = {}
  BY DEF OwnersInv, MemoryIsHeld
<1>1. ASSUME NEW id \in Ids, NEW s \in Sessions, NEW o \in Outcomes, CacheSet(id, s, o)
      PROVE  heap' = heap /\ chain' = chain /\ others' = others
  <2>1. PICK pick : pick = PickWritingSlot(id)
    OBVIOUS
  <2>2. PICK r : r = Calloc(pick.heap, 1, SessionLen[s])
    OBVIOUS
  <2>3. Calloc(heap, 1, EntrySize).heap = heap /\ Calloc(heap, 1, EntrySize).ptr = NULL
    BY <1>0, SmallIsUnused
  <2>4. ~pick.ok /\ pick.chain = chain
    <3>1. SlotIsRight(id, pick)
      BY <1>0, <2>1, SlotIsPicked
    <3>2. ~NewEntry.ok
      BY <2>3 DEF NewEntry, NotPicked
    <3> QED
      BY <1>0, <3>1, <3>2 DEF SlotIsRight
  <2>5. pick.heap = heap
    BY <2>1, <2>3, <2>4, UnpickedKeepsHeap, Zenon
  <2>6. heap' = pick.heap /\ chain' = pick.chain
    BY <1>1, <2>1, <2>4, Zenon DEF CacheSet
  <2> QED
    BY <1>1, <2>4, <2>5, <2>6, Zenon DEF CacheSet
<1>2. \A id \in Ids : ~CacheRemove(id)
  <2> SUFFICES ASSUME NEW id \in Ids, CacheRemove(id) PROVE FALSE
    OBVIOUS
  <2>1. FindEntry(id) \in 1 .. Len(chain)
    BY <1>0, SessionIsGot DEF GetsTheSession, CacheRemove
  <2> QED
    BY <1>0, <2>1
<1>3. CASE CacheFree
  <2>1. IsSeq(chain)
    BY <1>0 DEF CacheInv, ChainIsRight
  <2>2. PICK g : /\ FreeWalks(chain, heap, 1 .. Len(chain), g)
                 /\ FoldLeft(LAMBDA h, e : Free(Free(h, e.ptr), e.addr), heap, chain)
                      = g[1 .. Len(chain)]
    BY <2>1, FreeIsWalked
  <2>3. g[{}] = heap
    <3>1. FreeWalks(chain, heap, {}, g)
      BY <1>0, <2>2
    <3> QED
      BY <3>1 DEF FreeWalks
  <2>4. heap' = heap
    BY <1>0, <1>3, <2>2, <2>3 DEF CacheFree
  <2> QED
    BY <1>0, <1>3, <2>4 DEF CacheFree
<1>4. ASSUME NEW n, NEW size, OtherCalloc(n, size) PROVE heap' = heap /\ chain' = chain /\ others' = others
  <2>1. Calloc(heap, n, size).heap = heap /\ Calloc(heap, n, size).ptr = NULL
    BY <1>0, SmallIsUnused
  <2> QED
    BY <1>4, <2>1 DEF OtherCalloc
<1>5. \A t : CacheSetTimeout(t) => UNCHANGED <<heap, others, chain>>
  BY DEF CacheSetTimeout
<1>6. \A max : CacheSetMaxEntries(max) => UNCHANGED <<heap, others, chain>>
  BY DEF CacheSetMaxEntries
<1>7. Tick \/ UNCHANGED vars => UNCHANGED <<heap, others, chain>>
  BY DEF Tick, vars
<1>8. build.ids \subseteq Ids
  BY <1>0, BuildIsTyped
<1> QED
  BY <1>0, <1>1, <1>2, <1>3, <1>4, <1>5, <1>6, <1>7, <1>8 DEF Next

LEMMA OwnersStep ==
    ASSUME OwnersInv, [Next]_vars
    PROVE  OwnersInv'
<1>1. CacheInv' /\ LimitIsRight' /\ CacheInv /\ LimitIsRight
  BY CacheStep, LimitStaysRight DEF OwnersInv
<1>2. CASE BufLen < HdrSize + Align
  BY <1>1, <1>2, SmallStays DEF OwnersInv, MemoryIsHeld
<1>3. CASE ~(BufLen < HdrSize + Align)
  <2> DEFINE Goal == /\ Held(heap', chain', others', KeepsTwo)
                     /\ others' \subseteq OtherBlocks /\ IsFiniteSet(others')
  <2>0. /\ Held(heap, chain, others, KeepsTwo)
        /\ others \subseteq OtherBlocks /\ IsFiniteSet(others)
    BY <1>3 DEF OwnersInv, MemoryIsHeld
  <2>1. ASSUME UNCHANGED <<heap, chain, others>> PROVE Goal
    BY <2>0, <2>1
  <2>2. ASSUME NEW id \in build.ids, NEW s \in Sessions, NEW o \in Outcomes, CacheSet(id, s, o)
        PROVE  Goal
    <3>1. id \in Ids
      BY <1>1, BuildIsTyped
    <3>2. others' = others
      BY <2>2, Zenon DEF CacheSet
    <3> QED
      BY <1>1, <2>0, <2>2, <3>1, <3>2, SetHolds
  <2>3. ASSUME NEW id \in Ids, CacheRemove(id) PROVE Goal
    <3>1. others' = others
      BY <2>3 DEF CacheRemove
    <3> QED
      BY <1>1, <2>0, <2>3, <3>1, RemoveHolds
  <2>4. ASSUME CacheFree PROVE Goal
    <3>1. others' = others
      BY <2>4 DEF CacheFree
    <3>2. Held(heap', chain', others, KeepsTwo)
      BY <2>0, <2>4, FreeHolds, Zenon
    <3> QED
      BY <2>0, <3>1, <3>2
  <2>5. ASSUME NEW r \in Requests, OtherCalloc(r[1], r[2]) PROVE Goal
    <3>1. r[1] \in Nat /\ r[2] \in Nat
      BY CacheConstants
    <3> QED
      BY <2>0, <2>5, <3>1, OtherCallocHolds
  <2>6. ASSUME NEW b \in others, OtherFree(b) PROVE Goal
    BY <2>0, <2>6, OtherFreeHolds
  <2>7. (\E t \in build.timeouts : CacheSetTimeout(t)) => Goal
    BY <2>1 DEF CacheSetTimeout
  <2>8. (\E max \in build.limits : CacheSetMaxEntries(max)) => Goal
    BY <2>1 DEF CacheSetMaxEntries
  <2>9. Tick \/ UNCHANGED vars => Goal
    BY <2>1 DEF Tick, vars
  <2>10. Goal
    <3> HIDE DEF Goal
    <3> QED
      BY <2>2, <2>3, <2>4, <2>5, <2>6, <2>7, <2>8, <2>9 DEF Next
  <2>11. KeepsTwo' = KeepsTwo
    BY DEF KeepsTwo
  <2>12. MemoryIsHeld' <=> Goal
    BY <1>3, <2>11 DEF MemoryIsHeld, OtherBlocks, Addresses
  <2> QED
    BY <1>1, <2>10, <2>12 DEF OwnersInv
<1> QED
  BY <1>2, <1>3

-----------------------------------------------------------------------------
(* What the invariant says.                                                *)

\* An image under a function that is one to one has as many members.
LEMMA ImageCardinality ==
    ASSUME NEW S, IsFiniteSet(S), NEW f, f = [s \in S |-> f[s]],
           \A s, t \in S : f[s] = f[t] => s = t
    PROVE  IsFiniteSet({f[s] : s \in S}) /\ Cardinality({f[s] : s \in S}) = Cardinality(S)
<1> DEFINE T == {f[s] : s \in S}
<1>1. f \in [S -> T]
  OBVIOUS
<1>2. f \in Bijection(S, T)
  BY <1>1 DEF Bijection, Injection, Surjection, IsInjective
<1> HIDE DEF T
<1>3. ExistsBijection(S, T)
  BY <1>2 DEF ExistsBijection
<1>4. IsFiniteSet(T) /\ Cardinality(T) = Cardinality(S)
  BY <1>3, FS_Bijection
<1> QED
  BY <1>4 DEF T

LEMMA HeldIsNotLost ==
    ASSUME Held(heap, chain, others, TRUE), IsFiniteSet(others)
    PROVE  NothingLeaks
<1> DEFINE n == Len(chain)
           J == {j \in 1 .. n : chain[j].ptr # NULL}
           P1 == {b.ptr : b \in others}
           P2 == {chain[k].addr : k \in 1 .. n}
           P3 == {chain[k].ptr : k \in J}
           P == {b.ptr : b \in Owned}
<1>1. n \in Nat /\ Apart(chain)
  BY LengthIsNumber DEF Held
<1>2. Memory(heap, Cells(chain), others, TRUE)
  BY DEF Held
<1>3. HeapIsTyped(heap)
  BY <1>2 DEF Memory, HeapInv, HeapStage
<1>4. \A k \in 1 .. n : /\ CellOf(chain[k]) \in Cells(chain)
                        /\ CellOf(chain[k]).addr = chain[k].addr
                        /\ CellOf(chain[k]).ptr = chain[k].ptr
                        /\ CellOf(chain[k]).session = chain[k].session
  BY CellIs DEF Cells
<1>5. \A b \in others : b.ptr \in Ptrs(heap) /\ Room(heap, b.ptr) >= b.len
  BY <1>2 DEF Memory
<1>6. \A b, c \in others : b.ptr = c.ptr => b = c
  BY <1>2 DEF Memory
<1>7. \A k \in 1 .. n : chain[k].addr \in Ptrs(heap) /\ Room(heap, chain[k].addr) >= EntrySize
  BY <1>2, <1>4 DEF Memory
<1>8. \A k \in J : chain[k].ptr \in Ptrs(heap) /\ Room(heap, chain[k].ptr) >= SessionLen[chain[k].session]
  BY <1>2, <1>4 DEF Memory
<1>9. \A j, k \in 1 .. n : /\ chain[j].addr # chain[k].ptr
                           /\ j \in J /\ chain[j].ptr = chain[k].ptr => j = k
  <2> TAKE j, k \in 1 .. n
  <2>1. chain[j].addr # chain[k].ptr
    BY <1>2, <1>4 DEF Memory
  <2>2. j \in J /\ chain[j].ptr = chain[k].ptr => CellOf(chain[j]) = CellOf(chain[k])
    BY <1>2, <1>4 DEF Memory
  <2>3. CellOf(chain[j]) = CellOf(chain[k]) => j = k
    BY <1>1, <1>4 DEF Apart
  <2> QED
    BY <2>1, <2>2, <2>3
<1>10. \A k \in 1 .. n, b \in others : chain[k].addr # b.ptr /\ chain[k].ptr # b.ptr
  BY <1>2, <1>4 DEF Memory
<1>11. \A ptr \in Ptrs(heap) : ptr \in P1 \cup P2 \cup P3
  <2> TAKE ptr \in Ptrs(heap)
  <2>1. \/ \E b \in others : b.ptr = ptr
        \/ \E c \in Cells(chain) : c.addr = ptr \/ c.ptr = ptr
    BY <1>2 DEF Memory
  <2>2. CASE \E b \in others : b.ptr = ptr
    BY <2>2
  <2>3. CASE \E c \in Cells(chain) : c.addr = ptr \/ c.ptr = ptr
    <3>1. PICK k \in 1 .. n : chain[k].addr = ptr \/ chain[k].ptr = ptr
      BY <2>3, CellIs DEF Cells
    <3>2. ptr # NULL
      BY <1>3, PtrsAreNumbers
    <3> QED
      BY <3>1, <3>2
  <2> QED
    BY <2>1, <2>2, <2>3
<1> DEFINE O2 == {[ptr |-> chain[k].addr, len |-> EntrySize] : k \in 1 .. n}
           O3 == {[ptr |-> chain[k].ptr, len |-> SessionLen[chain[k].session]] : k \in J}
<1>12. Owned = others \cup O2 \cup O3
  BY DEF Owned
<1>13. P = P1 \cup P2 \cup P3
  <2>1. {b.ptr : b \in O2} = P2
    <3>1. {b.ptr : b \in O2} \subseteq P2
      OBVIOUS
    <3>2. ASSUME NEW k \in 1 .. n PROVE chain[k].addr \in {b.ptr : b \in O2}
      <4> DEFINE b == [ptr |-> chain[k].addr, len |-> EntrySize]
      <4>1. b \in O2 /\ b.ptr = chain[k].addr
        OBVIOUS
      <4> HIDE DEF b, O2
      <4> QED
        BY <4>1
    <3> QED
      BY <3>1, <3>2
  <2>2. {b.ptr : b \in O3} = P3
    <3>1. {b.ptr : b \in O3} \subseteq P3
      OBVIOUS
    <3>2. ASSUME NEW k \in J PROVE chain[k].ptr \in {b.ptr : b \in O3}
      <4> DEFINE b == [ptr |-> chain[k].ptr, len |-> SessionLen[chain[k].session]]
      <4>1. b \in O3 /\ b.ptr = chain[k].ptr
        OBVIOUS
      <4> HIDE DEF b, O3
      <4> QED
        BY <4>1
    <3> QED
      BY <3>1, <3>2
  <2> HIDE DEF O2, O3, P2, P3
  <2> QED
    BY <1>12, <2>1, <2>2
<1>14. P = Ptrs(heap)
  <2>1. P1 \subseteq Ptrs(heap) /\ P2 \subseteq Ptrs(heap) /\ P3 \subseteq Ptrs(heap)
    BY <1>5, <1>7, <1>8
  <2> HIDE DEF P, P1, P2, P3
  <2> QED
    BY <1>11, <1>13, <2>1
<1>15. \A b \in Owned : b.ptr \in Ptrs(heap) /\ heap.hdr[b.ptr - HdrSize].size >= b.len
  <2>1. \A b \in O2 : Room(heap, b.ptr) >= b.len
    BY <1>7
  <2>2. \A b \in O3 : Room(heap, b.ptr) >= b.len
    BY <1>8
  <2>3. \A b \in Owned : b.ptr \in P
    OBVIOUS
  <2> HIDE DEF O2, O3, P
  <2> QED
    BY <1>5, <1>12, <1>14, <2>1, <2>2, <2>3 DEF Room
<1>16. {b.ptr - HdrSize : b \in Owned} = UsedBlocks(heap)
  <2> HIDE DEF P
  <2>1. {b.ptr - HdrSize : b \in Owned} = {ptr - HdrSize : ptr \in P}
    BY DEF P
  <2>2. {ptr - HdrSize : ptr \in Ptrs(heap)} = UsedBlocks(heap)
    <3>1. UsedBlocks(heap) \subseteq Nat /\ HdrSize \in Nat
      BY <1>3, PtrsAreNumbers, SizesAreNumbers
    <3>2. \A a \in UsedBlocks(heap) : (a + HdrSize) - HdrSize = a
      BY <3>1
    <3>3. \A ptr \in Ptrs(heap) : ptr - HdrSize \in UsedBlocks(heap)
      BY <1>3, PtrsAreNumbers
    <3>4. \A a \in UsedBlocks(heap) : a + HdrSize \in Ptrs(heap)
      BY <1>3, PtrsAreNumbers
    <3> QED
      BY <3>2, <3>3, <3>4
  <2> QED
    BY <1>14, <2>1, <2>2
<1>17. IsFiniteSet(P1) /\ Cardinality(P1) = Cardinality(others)
  <2> DEFINE f == [b \in others |-> b.ptr]
  <2>1. f = [b \in others |-> f[b]] /\ \A s, t \in others : f[s] = f[t] => s = t
    BY <1>6
  <2>2. P1 = {f[b] : b \in others}
    OBVIOUS
  <2> HIDE DEF f, P1
  <2> QED
    BY <2>1, <2>2, ImageCardinality
<1>18. IsFiniteSet(P2) /\ Cardinality(P2) = n
  <2> DEFINE f == [k \in 1 .. n |-> chain[k].addr]
  <2>1. f = [k \in 1 .. n |-> f[k]] /\ \A s, t \in 1 .. n : f[s] = f[t] => s = t
    BY <1>1 DEF Apart
  <2>2. P2 = {f[k] : k \in 1 .. n}
    OBVIOUS
  <2>3. IsFiniteSet(1 .. n) /\ Cardinality(1 .. n) = n
    <3> HIDE DEF n
    <3>1. /\ IsFiniteSet(1 .. n)
          /\ Cardinality(1 .. n) = IF 1 > n THEN 0 ELSE n - 1 + 1
      BY <1>1, FS_Interval
    <3> QED
      BY <1>1, <3>1
  <2> DEFINE S == 1 .. n
  <2> HIDE DEF f, P2, S
  <2>4. IsFiniteSet(P2) /\ Cardinality(P2) = Cardinality(S)
    <3>1. IsFiniteSet(S) /\ f = [k \in S |-> f[k]] /\ \A s, t \in S : f[s] = f[t] => s = t
      BY <2>1, <2>3 DEF S
    <3>2. P2 = {f[k] : k \in S}
      BY <2>2 DEF S
    <3> QED
      BY <3>1, <3>2, ImageCardinality
  <2> QED
    BY <2>3, <2>4 DEF S
<1>19. IsFiniteSet(J) /\ IsFiniteSet(P3) /\ Cardinality(P3) = Cardinality(J)
  <2> DEFINE f == [k \in J |-> chain[k].ptr]
  <2>1. f = [k \in J |-> f[k]] /\ \A s, t \in J : f[s] = f[t] => s = t
    BY <1>9
  <2>2. P3 = {f[k] : k \in J}
    OBVIOUS
  <2>3. IsFiniteSet(J)
    <3>1. IsFiniteSet(1 .. n)
      BY <1>1, FS_Interval
    <3>2. J \subseteq 1 .. n
      OBVIOUS
    <3> HIDE DEF J
    <3> QED
      BY <3>1, <3>2, FS_Subset
  <2> HIDE DEF f, P3, J
  <2> QED
    BY <2>1, <2>2, <2>3, ImageCardinality
<1>20. P1 \cap P2 = {} /\ (P1 \cup P2) \cap P3 = {}
  BY <1>9, <1>10
<1>21. Cardinality(P) = Cardinality(others) + n + Cardinality(J)
  <2> HIDE DEF P, P1, P2, P3, J, n
  <2>1. IsFiniteSet(P1 \cup P2) /\ Cardinality(P1 \cup P2) = Cardinality(P1) + Cardinality(P2) - 0
    BY <1>17, <1>18, <1>20, FS_Union, FS_EmptySet
  <2>2. Cardinality((P1 \cup P2) \cup P3) = Cardinality(P1 \cup P2) + Cardinality(P3) - 0
    BY <1>19, <1>20, <2>1, FS_Union, FS_EmptySet
  <2>3. Cardinality(others) \in Nat /\ Cardinality(J) \in Nat /\ n \in Nat
    BY <1>1, <1>19, FS_CardinalityType
  <2> QED
    BY <1>13, <1>17, <1>18, <1>19, <2>1, <2>2, <2>3
<1> HIDE DEF P, J, n
<1> QED
  BY <1>15, <1>16, <1>21 DEF NothingLeaks, P, J, n, UsedBlocks

LEMMA OwnersImply ==
    ASSUME OwnersInv
    PROVE  HeapIsExact /\ (KeepsTwo => NothingLeaks) /\ TypeOK
<1>0. CacheInv /\ ClockIsRight
  BY DEF OwnersInv, CacheInv
<1>1. CASE BufLen < HdrSize + Align
  <2>1. heap = AllocInit /\ chain = <<>> /\ others = {} /\ Len(<<>>) = 0 /\ 1 .. 0 = {}
    BY <1>1 DEF OwnersInv, MemoryIsHeld
  <2>2. heap.first = NULL /\ heap.first_free = NULL /\ heap.hdr = <<>> /\ DOMAIN heap.hdr = {}
    BY <1>1, <2>1 DEF AllocInit
  <2>3. HeapIsExact
    BY <1>1, <2>1 DEF HeapIsExact
  <2>4. NothingLeaks
    <3>1. Owned = {}
      BY <2>1 DEF Owned
    <3>2. Cardinality({}) = 0
      BY FS_EmptySet
    <3>3. /\ {b.ptr - HdrSize : b \in Owned} = {} /\ {b.ptr : b \in Owned} = {}
          /\ {a \in DOMAIN heap.hdr : heap.hdr[a].alloc = 1} = {}
          /\ {k \in 1 .. Len(chain) : chain[k].ptr # NULL} = {}
      BY <2>1, <2>2, <3>1
    <3> QED
      BY <2>1, <3>1, <3>2, <3>3, SMTT(30) DEF NothingLeaks
  <2>5. TypeOK
    <3>1. chain \in Seq(Entries)
      BY <2>1, EmptySeq
    <3> QED
      BY <1>0, <2>1, <2>2, <3>1 DEF TypeOK, ClockIsRight, Pointers
  <2> QED
    BY <2>3, <2>4, <2>5
<1>2. CASE ~(BufLen < HdrSize + Align)
  <2>1. /\ Held(heap, chain, others, KeepsTwo)
        /\ others \subseteq OtherBlocks /\ IsFiniteSet(others)
    BY <1>2 DEF OwnersInv, MemoryIsHeld
  <2>2. HeapInv(heap) /\ BufLen >= HdrSize + Align
    BY <1>2, <2>1, SizesAreNumbers DEF Held, Memory
  <2>3. HeapIsExact
    BY <2>2, HeapInvImplies
  <2>4. KeepsTwo => NothingLeaks
    <3>1. KeepsTwo => Held(heap, chain, others, TRUE)
      BY <2>1 DEF Held, Memory
    <3> QED
      BY <2>1, <3>1, HeldIsNotLost
  <2>5. TypeOK
    <3>1. HeapIsTyped(heap) /\ BlocksTile(heap) /\ FreeIsListed(heap, FreeBlocks(heap))
      BY <2>2 DEF HeapInv, HeapStage
    <3>2. DOMAIN heap.hdr \subseteq Addresses /\ \A a \in DOMAIN heap.hdr : heap.hdr[a] \in Headers
      BY <3>1 DEF HeapIsTyped
    <3>3. heap.first \in Pointers
      BY <3>1, <3>2 DEF BlocksTile, Pointers
    <3>4. heap.first_free \in Pointers
      BY <3>1, <3>2 DEF FreeIsListed, IsList, FreeBlocks, Pointers
    <3>5. chain \in Seq(Entries)
      <4> DEFINE S == {chain[i] : i \in 1 .. Len(chain)}
      <4>1. chain \in Seq(S) /\ S \subseteq Entries
        BY <2>1 DEF Held, IsSeq
      <4> HIDE DEF S
      <4> QED
        BY <4>1, SeqMonotonic
    <3> QED
      BY <1>0, <2>1, <3>2, <3>3, <3>4, <3>5 DEF TypeOK, ClockIsRight, OtherBlocks
  <2> QED
    BY <2>3, <2>4, <2>5
<1> QED
  BY <1>1, <1>2

-----------------------------------------------------------------------------
(* The memory, in every state                                              *)

(* Every block of buffer_alloc is held by the chain or by another user of  *)
(* the memory, and the two lists of the allocator are exact, or the buffer *)
(* is too small for one block and nothing was ever allocated.              *)
THEOREM OwnersInvariant == Spec => []OwnersInv
<1>1. OwnersInv /\ [Next]_vars => OwnersInv'
  BY OwnersStep
<1> QED
  BY <1>1, OwnersInitially, PTL DEF Spec

(* Every variable of the cache and of the allocator has its type, for      *)
(* buffers, blocks and alignments of any size.                             *)
THEOREM CacheIsTyped == Spec => []TypeOK
BY OwnersInvariant, OwnersImply, PTL

(* The two lists of memory_buffer_alloc.c over the buffer are exact after  *)
(* any sequence of calls of the cache and of others, for a buffer, a       *)
(* header, an alignment and sizes of any length.                           *)
THEOREM HeapStaysExact == Spec => []HeapIsExact
BY OwnersInvariant, OwnersImply, PTL

(* No block of an entry or of a session is lost, freed twice, freed while  *)
(* the chain holds it, or shorter than asked for, whatever failed in the   *)
(* middle of mbedtls_ssl_cache_set(); the limit of one entry in a build    *)
(* without a clock is left out, as its only entry is lost when it is used  *)
(* again.                                                                  *)
THEOREM NothingIsLost == KeepsTwo => (Spec => []NothingLeaks)
<1> SUFFICES ASSUME KeepsTwo PROVE Spec => []NothingLeaks
  OBVIOUS
<1>1. OwnersInv => NothingLeaks
  BY OwnersImply
<1> QED
  BY <1>1, OwnersInvariant, PTL

=============================================================================
