----------------------------- MODULE PsaProofs -----------------------------
(***************************************************************************)
(* Proofs about PsaAead (with GcmDriver) for any number of contexts, keys, *)
(* buffers and messages, and about PsaSeTransaction for any number of keys *)
(* and slots.  The two share nothing; their proofs stand side by side.     *)
(***************************************************************************)
EXTENDS PsaAead, PsaSeTransaction, TLAPS

-----------------------------------------------------------------------------
(* PsaAead: what the owner of the engine holds in its context is what its  *)
(* user passed since starts(), because only the owner's stream adds to it, *)
(* and a context that is not the owner's has no stream.                    *)

Ctxs == [key : Keys \cup {NoKey}, iv : Nonces \cup {NoNonce}, mode : Modes, aad : Seq(Ads),
         aad_len : Nat, input : Buffers \cup {NullPtr, Freed}, data_len : {0} \cup Messages]
Drivers == [owner : Contexts \cup {NoCtx}, ctx : [Contexts -> Ctxs],
            ecb : Keys \cup {NoKey}, loaded : Keys \cup {NoKey}]
Streams == [started : {TRUE}, key : Keys \cup {NoKey}, iv : Nonces, mode : Modes,
            aad : Seq(Ads), data : Seq(Messages)]
OperationObjects ==
    [id : BOOLEAN, is_encrypt : BOOLEAN, nonce_set : BOOLEAN, lengths_set : BOOLEAN,
     ad_started : BOOLEAN, body_started : BOOLEAN, ad_remaining : Nat, body_remaining : Nat]

\* result only records what a step did; given is typed in LengthsInv.
AeadTypeOK ==
    /\ drv \in Drivers
    /\ mem \in [Buffers -> Messages]
    /\ live \subseteq Direct
    /\ asked \in [Contexts -> Streams \cup {NoStream}]
    /\ op \in [Operations -> OperationObjects]

(* The context x holds what the stream s passed; a direct caller's piece   *)
(* is in its buffer still.                                                 *)
Holds(x, s, contents, direct) ==
    /\ s.key = x.key /\ s.iv = x.iv /\ s.mode = x.mode /\ s.aad = x.aad
    /\ x.data_len = 0 => s.data = <<>>
    /\ x.data_len # 0 => s.data = <<x.data_len>>
    /\ x.data_len # 0 /\ direct => x.input \in Buffers /\ contents[x.input] = x.data_len

StreamIsHeld ==
    \A c \in Contexts : asked[c].started => Holds(drv.ctx[c], asked[c], mem, c \in Direct)

(* Who may have a stream: a direct caller with a live context, and an      *)
(* operation that has set its nonce.                                       *)
StreamHasUser ==
    /\ \A c \in Direct : asked[c].started => c \in live
    /\ \A c \in Operations : /\ asked[c].started <=> op[c].nonce_set
                             /\ op[c].nonce_set => op[c].id

AeadInv ==
    /\ AeadTypeOK
    /\ OwnerIsStreaming
    /\ StreamIsHeld
    /\ StreamHasUser
    /\ EcbUsesItsKey
    /\ FinishComputesItsStream

-----------------------------------------------------------------------------
(* What each driver function does to the context it is given and leaves of *)
(* the others.                                                             *)

OthersKept(d, e, c) == \A x \in Contexts : x # c => e.ctx[x] = d.ctx[x]

\* A context that was zeroed has the type of a context.
LEMMA ZeroedIsContext == Zeroed \in Ctxs
<1>1. <<>> \in Seq(Ads)
  OBVIOUS
<1> QED
  BY <1>1 DEF Zeroed, Ctxs, Modes

\* mbedtls_gcm_init() zeroes its context and touches nothing else.
LEMMA InitDoes ==
    ASSUME NEW d \in Drivers, NEW c \in Contexts, NEW e, e = GcmInit(d, c)
    PROVE  /\ e \in Drivers /\ OthersKept(d, e, c)
           /\ e.owner = d.owner /\ e.ecb = d.ecb /\ e.loaded = d.loaded
           /\ e.ctx[c] = Zeroed
<1>1. Zeroed \in Ctxs
  BY ZeroedIsContext
<1>2. e = [owner |-> d.owner, ctx |-> [d.ctx EXCEPT ![c] = Zeroed], ecb |-> d.ecb, loaded |-> d.loaded]
  BY DEF GcmInit, Drivers
<1> QED
  BY <1>1, <1>2 DEF Drivers, OthersKept

\* mbedtls_gcm_setkey() changes its own context only.
LEMMA SetKeyDoes ==
    ASSUME NEW d \in Drivers, NEW c \in Contexts, NEW k \in Keys, NEW e, e = GcmSetKey(d, c, k)
    PROVE  /\ e \in Drivers /\ OthersKept(d, e, c)
           /\ e.owner = d.owner /\ e.ecb = d.ecb /\ e.loaded = d.loaded
<1> DEFINE x == [d.ctx[c] EXCEPT !.key = k]
<1>1. x \in Ctxs
  <2>1. d.ctx[c] \in Ctxs
    BY DEF Drivers
  <2> QED
    BY <2>1 DEF Ctxs
<1>2. e = [owner |-> d.owner, ctx |-> [d.ctx EXCEPT ![c] = x], ecb |-> d.ecb, loaded |-> d.loaded]
  BY DEF GcmSetKey, Drivers
<1> HIDE DEF x
<1> QED
  BY <1>1, <1>2 DEF Drivers, OthersKept

\* mbedtls_gcm_starts() makes its context the owner of the engine and keeps
\* the key.
LEMMA StartsDoes ==
    ASSUME NEW d \in Drivers, NEW c \in Contexts, NEW mode \in Modes, NEW iv \in Nonces,
           NEW e, e = GcmStarts(d, c, mode, iv)
    PROVE  /\ e \in Drivers /\ OthersKept(d, e, c)
           /\ e.owner = c /\ e.ecb = d.ecb /\ e.loaded = d.loaded
           /\ e.ctx[c].key = d.ctx[c].key /\ e.ctx[c].mode = mode /\ e.ctx[c].iv = iv
           /\ e.ctx[c].aad = <<>> /\ e.ctx[c].data_len = 0
<1> DEFINE x == [d.ctx[c] EXCEPT !.mode = mode, !.iv = iv, !.aad = <<>>, !.aad_len = 0,
                                !.data_len = 0, !.input = NullPtr]
<1>1. x \in Ctxs /\ d.ctx[c] \in Ctxs
  <2>1. d.ctx[c] \in Ctxs /\ <<>> \in Seq(Ads)
    BY DEF Drivers
  <2> QED
    BY <2>1 DEF Ctxs
<1>2. e = [owner |-> c, ctx |-> [d.ctx EXCEPT ![c] = x], ecb |-> d.ecb, loaded |-> d.loaded]
  BY DEF GcmStarts, Drivers
<1>3. x.key = d.ctx[c].key /\ x.mode = mode /\ x.iv = iv /\ x.aad = <<>> /\ x.data_len = 0
  BY <1>1 DEF Ctxs
<1> HIDE DEF x
<1> QED
  BY <1>1, <1>2, <1>3 DEF Drivers, OthersKept

\* mbedtls_gcm_update_ad() appends to the associated data of its context and
\* changes nothing else.
LEMMA UpdateAdDoes ==
    ASSUME NEW d \in Drivers, NEW c \in Contexts, NEW a \in Ads, NEW e, e = GcmUpdateAd(d, c, a)
    PROVE  /\ e \in Drivers /\ OthersKept(d, e, c)
           /\ e.owner = d.owner /\ e.ecb = d.ecb /\ e.loaded = d.loaded
           /\ e.ctx[c].key = d.ctx[c].key /\ e.ctx[c].mode = d.ctx[c].mode
           /\ e.ctx[c].iv = d.ctx[c].iv /\ e.ctx[c].aad = Append(d.ctx[c].aad, a)
           /\ e.ctx[c].data_len = d.ctx[c].data_len /\ e.ctx[c].input = d.ctx[c].input
<1> DEFINE x == [d.ctx[c] EXCEPT !.aad = Append(@, a), !.aad_len = @ + a]
<1>1. x \in Ctxs /\ d.ctx[c] \in Ctxs
  <2>1. d.ctx[c] \in Ctxs
    BY DEF Drivers
  <2>2. Append(d.ctx[c].aad, a) \in Seq(Ads) /\ d.ctx[c].aad_len + a \in Nat
    BY <2>1, DataAssumption DEF Ctxs
  <2> QED
    BY <2>1, <2>2 DEF Ctxs
<1>2. e = [owner |-> d.owner, ctx |-> [d.ctx EXCEPT ![c] = x], ecb |-> d.ecb, loaded |-> d.loaded]
  BY DEF GcmUpdateAd, Drivers
<1>3. /\ x.key = d.ctx[c].key /\ x.mode = d.ctx[c].mode /\ x.iv = d.ctx[c].iv
      /\ x.aad = Append(d.ctx[c].aad, a) /\ x.data_len = d.ctx[c].data_len /\ x.input = d.ctx[c].input
  BY <1>1 DEF Ctxs
<1> HIDE DEF x
<1> QED
  BY <1>1, <1>2, <1>3 DEF Drivers, OthersKept

\* mbedtls_gcm_update() keeps the address of the input in its context; key,
\* mode, nonce and associated data stay.
LEMMA UpdateDoes ==
    ASSUME NEW d \in Drivers, NEW c \in Contexts, NEW p \in Buffers \cup {Freed}, NEW m \in Messages,
           NEW e, e = GcmUpdate(d, c, p, m)
    PROVE  /\ e \in Drivers /\ OthersKept(d, e, c)
           /\ e.owner = d.owner /\ e.ecb = d.ecb /\ e.loaded = d.loaded
           /\ e.ctx[c].key = d.ctx[c].key /\ e.ctx[c].mode = d.ctx[c].mode
           /\ e.ctx[c].iv = d.ctx[c].iv /\ e.ctx[c].aad = d.ctx[c].aad
           /\ e.ctx[c].data_len = m /\ e.ctx[c].input = p
<1> DEFINE x == [d.ctx[c] EXCEPT !.input = p, !.data_len = m]
<1>1. x \in Ctxs /\ d.ctx[c] \in Ctxs
  BY DEF Drivers, Ctxs
<1>2. e = [owner |-> d.owner, ctx |-> [d.ctx EXCEPT ![c] = x], ecb |-> d.ecb, loaded |-> d.loaded]
  BY DEF GcmUpdate, Drivers
<1>3. /\ x.key = d.ctx[c].key /\ x.mode = d.ctx[c].mode /\ x.iv = d.ctx[c].iv
      /\ x.aad = d.ctx[c].aad /\ x.data_len = m /\ x.input = p
  BY <1>1 DEF Ctxs
<1> HIDE DEF x
<1> QED
  BY <1>1, <1>2, <1>3 DEF Drivers, OthersKept

\* A use of the peripheral leaves every context and its owner alone and
\* forgets the key of the ECB driver.
LEMMA PeripheralDoes ==
    ASSUME NEW d \in Drivers, NEW k \in Keys \cup {NoKey}, NEW e, e = UsePeripheral(d, k)
    PROVE  e \in Drivers /\ e.ctx = d.ctx /\ e.owner = d.owner /\ e.ecb = NoKey
BY DEF UsePeripheral, Drivers

\* mbedtls_gcm_finish() gives the engine back and changes no context.
LEMMA FinishDoes ==
    ASSUME NEW d \in Drivers, NEW c \in Contexts, NEW e, e = GcmFinish(d, c)
    PROVE  e \in Drivers /\ e.ctx = d.ctx /\ e.owner = NoCtx /\ e.ecb = NoKey
BY DEF GcmFinish, UsePeripheral, Drivers, Ctxs

\* mbedtls_gcm_free() gives the engine back if its context owns it.
LEMMA FreeDoes ==
    ASSUME NEW d \in Drivers, NEW c \in Contexts, NEW e, e = GcmFree(d, c)
    PROVE  /\ e \in Drivers /\ OthersKept(d, e, c)
           /\ e.owner = (IF d.owner = c THEN NoCtx ELSE d.owner)
           /\ e.ecb = d.ecb /\ e.loaded = d.loaded
<1>1. Zeroed \in Ctxs
  BY ZeroedIsContext
<1>2. e = [owner |-> IF d.owner = c THEN NoCtx ELSE d.owner, ctx |-> [d.ctx EXCEPT ![c] = Zeroed],
           ecb |-> d.ecb, loaded |-> d.loaded]
  BY DEF GcmFree, Drivers
<1> QED
  BY <1>1, <1>2 DEF Drivers, OthersKept

-----------------------------------------------------------------------------
(* A step on the context c leaves the streams of the others as they are.   *)
LEMMA OnlyItsStreamChanges ==
    ASSUME AeadInv, NEW c \in Contexts, OthersKept(drv, drv', c), mem' = mem,
           \A x \in Contexts : x # c => asked'[x] = asked[x],
           asked'[c].started => Holds(drv'.ctx[c], asked'[c], mem, c \in Direct)
    PROVE  StreamIsHeld'
BY DEF AeadInv, StreamIsHeld, OthersKept

\* A context belongs to a direct caller or to an operation of PSA, never to
\* both, and is not the null one.
LEMMA ContextsAreNamed ==
    /\ NoCtx \notin Contexts /\ Direct \subseteq Contexts /\ Operations \subseteq Contexts
    /\ \A c \in Direct : c \notin Operations
    /\ NoStream.started = FALSE
BY NamesAssumption DEF Contexts, NoStream

\* Adding associated data to a stream changes that part of it only.
LEMMA StreamTakesAd ==
    ASSUME NEW s \in Streams, NEW a \in Ads, NEW t, t = [s EXCEPT !.aad = Append(@, a)]
    PROVE  /\ t \in Streams /\ t.started /\ t.aad = Append(s.aad, a)
           /\ t.key = s.key /\ t.iv = s.iv /\ t.mode = s.mode /\ t.data = s.data
<1>1. Append(s.aad, a) \in Seq(Ads)
  BY DEF Streams
<1> QED
  BY <1>1 DEF Streams

\* Adding input to a stream changes that part of it only.
LEMMA StreamTakesData ==
    ASSUME NEW s \in Streams, NEW m \in Messages, NEW t, t = [s EXCEPT !.data = Append(@, m)]
    PROVE  /\ t \in Streams /\ t.started /\ t.data = Append(s.data, m)
           /\ t.key = s.key /\ t.iv = s.iv /\ t.mode = s.mode /\ t.aad = s.aad
<1>1. Append(s.data, m) \in Seq(Messages)
  BY DEF Streams
<1> QED
  BY <1>1 DEF Streams

(* What finish() may put to the hardware for the owner is its stream.      *)
LEMMA RequestIsTheStream ==
    ASSUME AeadInv, NEW c \in Contexts, asked[c].started, NEW r \in Requests(drv, c)
    PROVE  LET s == StreamRequest(asked[c])
           IN  /\ [r EXCEPT !.data = <<>>] = [s EXCEPT !.data = <<>>]
               /\ c \in Direct => r.data = s.data
<1> DEFINE x == drv.ctx[c]
<1>1. Holds(x, asked[c], mem, c \in Direct)
  BY DEF AeadInv, StreamIsHeld
<1>2. PICK data \in IF x.data_len = 0 THEN {<<>>} ELSE {<<m>> : m \in ContentsAt(x.input)} :
        r = [key |-> x.key, iv |-> x.iv, mode |-> x.mode, aad |-> x.aad, data |-> data]
  BY DEF Requests
<1>3. c \in Direct => data = asked[c].data
  BY <1>1, <1>2, NamesAssumption DEF Holds, ContentsAt
<1> QED
  BY <1>1, <1>2, <1>3 DEF StreamRequest, Holds

\* The stream that mbedtls_gcm_starts() opens is a stream, and open.
LEMMA StreamsStart ==
    ASSUME NEW x \in Ctxs, NEW c, NEW d, x = d.ctx[c], NEW mode \in Modes, NEW iv \in Nonces
    PROVE  /\ Stream(d, c, mode, iv) \in Streams
           /\ Stream(d, c, mode, iv).started
BY DEF Ctxs, Stream, Streams

\* The mode psa_aead_set_nonce() starts c in
Mode(c) == IF op[c].is_encrypt THEN "encrypt" ELSE "decrypt"

(* Direct callers                                                          *)

\* mbedtls_gcm_init() by a direct caller keeps the invariant.
LEMMA InitContextKeeps ==
    ASSUME AeadInv, NEW c \in Direct, InitContext(c), UNCHANGED <<op, given>>
    PROVE  AeadInv'
<1> USE ContextsAreNamed DEF InitContext
<1>1. /\ drv \in Drivers /\ c \in Contexts /\ asked \in [Contexts -> Streams \cup {NoStream}]
      /\ drv.ctx[c] \in Ctxs /\ drv.ctx[c].key \in Keys \cup {NoKey}
  BY DEF AeadInv, AeadTypeOK, Drivers, Ctxs
<1>2. /\ drv' \in Drivers /\ OthersKept(drv, drv', c)
      /\ drv'.owner = drv.owner /\ drv'.ecb = drv.ecb /\ drv'.loaded = drv.loaded
  BY <1>1, InitDoes DEF AeadInv, AeadTypeOK
<1>3. /\ asked'[c] \in Streams \cup {NoStream}
      /\ \A x \in Contexts : x # c => asked'[x] = asked[x]
      /\ asked'[c] = asked[c] /\ ~asked[c].started
  BY <1>1, <1>2 DEF AeadInv, AeadTypeOK, StreamHasUser
<1>4. AeadTypeOK'
  BY <1>1, <1>2, <1>3 DEF AeadInv, AeadTypeOK, OperationObjects
<1>5. OwnerIsStreaming'
  BY <1>1, <1>2, <1>3 DEF AeadInv, OwnerIsStreaming, StreamHasUser
<1>6. StreamIsHeld'
  <2>1. asked'[c].started => Holds(drv'.ctx[c], asked'[c], mem, c \in Direct)
    <3> HIDE DEF InitContext
    <3>1. asked[c].started => Holds(drv.ctx[c], asked[c], mem, c \in Direct)
      BY <1>1 DEF AeadInv, StreamIsHeld
    <3> QED
      BY <3>1, <1>2, <1>3 DEF Holds
  <2> QED
    BY <2>1, <1>1, <1>2, <1>3, OnlyItsStreamChanges
<1>7. StreamHasUser'
  BY <1>1, <1>3, <1>4 DEF AeadInv, AeadTypeOK, StreamHasUser, OperationObjects
<1>8. EcbUsesItsKey'
  BY <1>1, <1>2 DEF AeadInv, AeadTypeOK, EcbUsesItsKey
<1>9. FinishComputesItsStream'
  BY DEF FinishComputesItsStream, NoResult
<1> QED
  BY <1>4, <1>5, <1>6, <1>7, <1>8, <1>9 DEF AeadInv

\* mbedtls_gcm_setkey() by a direct caller keeps the invariant.
LEMMA SetKeyKeeps ==
    ASSUME AeadInv, NEW c \in Direct, NEW k \in Keys, SetKey(c, k), UNCHANGED <<op, given>>
    PROVE  AeadInv'
<1> USE ContextsAreNamed DEF SetKey
<1>1. /\ drv \in Drivers /\ c \in Contexts /\ asked \in [Contexts -> Streams \cup {NoStream}]
      /\ drv.ctx[c] \in Ctxs /\ drv.ctx[c].key \in Keys \cup {NoKey}
  BY DEF AeadInv, AeadTypeOK, Drivers, Ctxs
<1>2. /\ drv' \in Drivers /\ OthersKept(drv, drv', c)
      /\ drv'.owner = drv.owner /\ drv'.ecb = drv.ecb /\ drv'.loaded = drv.loaded
  BY <1>1, SetKeyDoes DEF AeadInv, AeadTypeOK
<1>3. /\ asked'[c] \in Streams \cup {NoStream}
      /\ \A x \in Contexts : x # c => asked'[x] = asked[x]
      /\ asked'[c] = asked[c]
  BY <1>1, <1>2 DEF AeadInv, AeadTypeOK, StreamHasUser
<1>4. AeadTypeOK'
  BY <1>1, <1>2, <1>3 DEF AeadInv, AeadTypeOK, OperationObjects
<1>5. OwnerIsStreaming'
  BY <1>1, <1>2, <1>3 DEF AeadInv, OwnerIsStreaming, StreamHasUser
<1>6. StreamIsHeld'
  <2>1. asked'[c].started => Holds(drv'.ctx[c], asked'[c], mem, c \in Direct)
    <3>1. asked[c].started => Holds(drv.ctx[c], asked[c], mem, c \in Direct)
      BY <1>1 DEF AeadInv, StreamIsHeld
    <3> QED
      BY <3>1, <1>2, <1>3 DEF Holds
  <2> QED
    BY <2>1, <1>1, <1>2, <1>3, OnlyItsStreamChanges
<1>7. StreamHasUser'
  BY <1>1, <1>3, <1>4 DEF AeadInv, AeadTypeOK, StreamHasUser, OperationObjects
<1>8. EcbUsesItsKey'
  BY <1>1, <1>2 DEF AeadInv, AeadTypeOK, EcbUsesItsKey
<1>9. FinishComputesItsStream'
  BY DEF FinishComputesItsStream, NoResult
<1> QED
  BY <1>4, <1>5, <1>6, <1>7, <1>8, <1>9 DEF AeadInv

\* mbedtls_gcm_starts() by a direct caller keeps the invariant.
LEMMA StartsKeeps ==
    ASSUME AeadInv, NEW c \in Direct, NEW mode \in Modes, NEW iv, Starts(c, mode, iv), UNCHANGED <<op, given>>
    PROVE  AeadInv'
<1> USE ContextsAreNamed DEF Starts, StartsOk
<1>1. /\ drv \in Drivers /\ c \in Contexts /\ asked \in [Contexts -> Streams \cup {NoStream}]
      /\ drv.ctx[c] \in Ctxs /\ drv.ctx[c].key \in Keys \cup {NoKey}
  BY DEF AeadInv, AeadTypeOK, Drivers, Ctxs
<1>2. /\ drv' \in Drivers /\ OthersKept(drv, drv', c)
      /\ drv'.owner = c /\ drv'.ecb = drv.ecb /\ drv'.loaded = drv.loaded
      /\ drv.owner \in {NoCtx, c}
      /\ drv'.ctx[c].key = drv.ctx[c].key /\ drv'.ctx[c].mode = mode /\ drv'.ctx[c].iv = iv
      /\ drv'.ctx[c].aad = <<>> /\ drv'.ctx[c].data_len = 0
  BY <1>1, StartsDoes DEF AeadInv, AeadTypeOK
<1>3. /\ asked'[c] \in Streams \cup {NoStream}
      /\ \A x \in Contexts : x # c => asked'[x] = asked[x]
      /\ asked'[c] = Stream(drv, c, mode, iv) /\ asked'[c].started
      /\ asked'[c].key = drv.ctx[c].key /\ asked'[c].mode = mode /\ asked'[c].iv = iv
      /\ asked'[c].aad = <<>> /\ asked'[c].data = <<>>
  BY <1>1, <1>2, StreamsStart DEF AeadInv, AeadTypeOK, StreamHasUser, Stream
<1>4. AeadTypeOK'
  BY <1>1, <1>2, <1>3 DEF AeadInv, AeadTypeOK, OperationObjects
<1>5. OwnerIsStreaming'
  BY <1>1, <1>2, <1>3 DEF AeadInv, OwnerIsStreaming, StreamHasUser
<1>6. StreamIsHeld'
  <2>1. asked'[c].started => Holds(drv'.ctx[c], asked'[c], mem, c \in Direct)
    <3> HIDE DEF Starts, StartsOk
    <3>1. asked[c].started => Holds(drv.ctx[c], asked[c], mem, c \in Direct)
      BY <1>1 DEF AeadInv, StreamIsHeld
    <3> QED
      BY <3>1, <1>2, <1>3 DEF Holds
  <2> QED
    BY <2>1, <1>1, <1>2, <1>3, OnlyItsStreamChanges
<1>7. StreamHasUser'
  BY <1>1, <1>3, <1>4 DEF AeadInv, AeadTypeOK, StreamHasUser, OperationObjects
<1>8. EcbUsesItsKey'
  BY <1>1, <1>2 DEF AeadInv, AeadTypeOK, EcbUsesItsKey
<1>9. FinishComputesItsStream'
  BY DEF FinishComputesItsStream, NoResult
<1> QED
  BY <1>4, <1>5, <1>6, <1>7, <1>8, <1>9 DEF AeadInv

\* mbedtls_gcm_update_ad() by a direct caller keeps the invariant.
LEMMA UpdateAdKeeps ==
    ASSUME AeadInv, NEW c \in Direct, NEW a \in Ads, UpdateAd(c, a), UNCHANGED <<op, given>>
    PROVE  AeadInv'
<1> USE ContextsAreNamed DEF UpdateAd, UpdateAdOk
<1>1. /\ drv \in Drivers /\ c \in Contexts /\ asked \in [Contexts -> Streams \cup {NoStream}]
      /\ drv.ctx[c] \in Ctxs /\ drv.ctx[c].key \in Keys \cup {NoKey}
  BY DEF AeadInv, AeadTypeOK, Drivers, Ctxs
<1>2. /\ drv' \in Drivers /\ OthersKept(drv, drv', c)
      /\ drv'.owner = drv.owner /\ drv'.ecb = drv.ecb /\ drv'.loaded = drv.loaded
      /\ drv'.ctx[c].key = drv.ctx[c].key /\ drv'.ctx[c].mode = drv.ctx[c].mode
      /\ drv'.ctx[c].iv = drv.ctx[c].iv
      /\ drv'.ctx[c].aad = Append(drv.ctx[c].aad, a)
      /\ drv'.ctx[c].data_len = drv.ctx[c].data_len /\ drv'.ctx[c].input = drv.ctx[c].input
  <2>1. a \in Ads /\ drv' = GcmUpdateAd(drv, c, a)
    OBVIOUS
  <2> HIDE DEF UpdateAd, UpdateAdOk
  <2> QED
    BY <2>1, <1>1, UpdateAdDoes
<1>3. /\ asked'[c] \in Streams \cup {NoStream}
      /\ \A x \in Contexts : x # c => asked'[x] = asked[x]
      /\ asked'[c].started <=> asked[c].started
      /\ asked[c].started =>
            /\ asked'[c].key = asked[c].key /\ asked'[c].iv = asked[c].iv
            /\ asked'[c].mode = asked[c].mode
            /\ asked'[c].aad = Append(asked[c].aad, a) /\ asked'[c].data = asked[c].data
  <2>1. CASE asked[c].started
    <3>1. asked[c] \in Streams
      BY <2>1, <1>1
    <3>2. asked'[c] = [asked[c] EXCEPT !.aad = Append(@, a)]
      BY <2>1, <1>1
    <3>3. \A y \in Contexts : y # c => asked'[y] = asked[y]
      BY <1>1
    <3> QED
      BY <2>1, <3>1, <3>2, <3>3, <1>2, StreamTakesAd
  <2>2. CASE ~asked[c].started
    BY <2>2, <1>1 DEF AeadInv, StreamHasUser
  <2> QED
    BY <2>1, <2>2
<1>4. AeadTypeOK'
  BY <1>1, <1>2, <1>3 DEF AeadInv, AeadTypeOK, OperationObjects
<1>5. OwnerIsStreaming'
  BY <1>1, <1>2, <1>3 DEF AeadInv, OwnerIsStreaming, StreamHasUser
<1>6. StreamIsHeld'
  <2>1. asked'[c].started => Holds(drv'.ctx[c], asked'[c], mem, c \in Direct)
    <3> HIDE DEF UpdateAd, UpdateAdOk
    <3>1. asked[c].started => Holds(drv.ctx[c], asked[c], mem, c \in Direct)
      BY <1>1 DEF AeadInv, StreamIsHeld
    <3> QED
      BY <3>1, <1>2, <1>3 DEF Holds
  <2> QED
    BY <2>1, <1>1, <1>2, <1>3, OnlyItsStreamChanges
<1>7. StreamHasUser'
  BY <1>1, <1>3, <1>4 DEF AeadInv, AeadTypeOK, StreamHasUser, OperationObjects
<1>8. EcbUsesItsKey'
  BY <1>1, <1>2 DEF AeadInv, AeadTypeOK, EcbUsesItsKey
<1>9. FinishComputesItsStream'
  BY DEF FinishComputesItsStream, NoResult
<1> QED
  BY <1>4, <1>5, <1>6, <1>7, <1>8, <1>9 DEF AeadInv

\* mbedtls_gcm_update() by a direct caller keeps the invariant.
LEMMA UpdateKeeps ==
    ASSUME AeadInv, NEW c \in Direct, NEW b \in Buffers, Update(c, b), UNCHANGED <<op, given>>
    PROVE  AeadInv'
<1> USE ContextsAreNamed DEF Update, UpdateOk
<1>1. /\ drv \in Drivers /\ c \in Contexts /\ asked \in [Contexts -> Streams \cup {NoStream}]
      /\ drv.ctx[c] \in Ctxs /\ drv.ctx[c].key \in Keys \cup {NoKey}
  BY DEF AeadInv, AeadTypeOK, Drivers, Ctxs
<1>2. /\ drv' \in Drivers /\ OthersKept(drv, drv', c)
      /\ drv'.owner = drv.owner /\ drv'.ecb = drv.ecb /\ drv'.loaded = drv.loaded
      /\ drv'.ctx[c].key = drv.ctx[c].key /\ drv'.ctx[c].mode = drv.ctx[c].mode
      /\ drv'.ctx[c].iv = drv.ctx[c].iv
      /\ drv'.ctx[c].aad = drv.ctx[c].aad
      /\ drv'.ctx[c].data_len = mem[b] /\ drv'.ctx[c].input = b
      /\ mem[b] \in Messages /\ mem[b] # 0 /\ drv.ctx[c].data_len = 0
  BY <1>1, UpdateDoes, DataAssumption DEF AeadInv, AeadTypeOK
<1>3. /\ asked'[c] \in Streams \cup {NoStream}
      /\ \A x \in Contexts : x # c => asked'[x] = asked[x]
      /\ asked'[c].started <=> asked[c].started
      /\ asked[c].started =>
            /\ asked'[c].key = asked[c].key /\ asked'[c].iv = asked[c].iv
            /\ asked'[c].mode = asked[c].mode
            /\ asked'[c].aad = asked[c].aad /\ asked'[c].data = Append(asked[c].data, mem[b])
  <2>1. CASE asked[c].started
    <3>1. asked[c] \in Streams
      BY <2>1, <1>1
    <3>2. asked'[c] = [asked[c] EXCEPT !.data = Append(@, mem[b])]
      BY <2>1, <1>1
    <3>3. \A y \in Contexts : y # c => asked'[y] = asked[y]
      BY <1>1
    <3> QED
      BY <2>1, <3>1, <3>2, <3>3, <1>2, StreamTakesData
  <2>2. CASE ~asked[c].started
    BY <2>2, <1>1 DEF AeadInv, StreamHasUser
  <2> QED
    BY <2>1, <2>2
<1>4. AeadTypeOK'
  BY <1>1, <1>2, <1>3 DEF AeadInv, AeadTypeOK, OperationObjects
<1>5. OwnerIsStreaming'
  BY <1>1, <1>2, <1>3 DEF AeadInv, OwnerIsStreaming, StreamHasUser
<1>6. StreamIsHeld'
  <2>1. asked'[c].started => Holds(drv'.ctx[c], asked'[c], mem, c \in Direct)
    <3> HIDE DEF Update, UpdateOk
    <3>1. asked[c].started => Holds(drv.ctx[c], asked[c], mem, c \in Direct)
      BY <1>1 DEF AeadInv, StreamIsHeld
    <3>2. Append(<<>>, mem[b]) = <<mem[b]>>
      OBVIOUS
    <3>3. asked[c].started => asked'[c].data = <<mem[b]>>
      BY <3>1, <3>2, <1>2, <1>3 DEF Holds
    <3> QED
      BY <3>1, <3>3, <1>2, <1>3 DEF Holds
  <2> QED
    BY <2>1, <1>1, <1>2, <1>3, OnlyItsStreamChanges
<1>7. StreamHasUser'
  BY <1>1, <1>3, <1>4 DEF AeadInv, AeadTypeOK, StreamHasUser, OperationObjects
<1>8. EcbUsesItsKey'
  BY <1>1, <1>2 DEF AeadInv, AeadTypeOK, EcbUsesItsKey
<1>9. FinishComputesItsStream'
  BY DEF FinishComputesItsStream, NoResult
<1> QED
  BY <1>4, <1>5, <1>6, <1>7, <1>8, <1>9 DEF AeadInv

\* mbedtls_gcm_finish() by a direct caller keeps the invariant.
LEMMA FinishKeeps ==
    ASSUME AeadInv, NEW c \in Direct, NEW out, Finish(c, out), UNCHANGED <<op, given>>
    PROVE  AeadInv'
<1> USE ContextsAreNamed DEF Finish, FinishOk, OthersKept
<1>1. /\ drv \in Drivers /\ c \in Contexts /\ asked \in [Contexts -> Streams \cup {NoStream}]
      /\ drv.ctx[c] \in Ctxs /\ drv.ctx[c].key \in Keys \cup {NoKey}
  BY DEF AeadInv, AeadTypeOK, Drivers, Ctxs
<1>2. /\ drv' \in Drivers /\ OthersKept(drv, drv', c)
      /\ drv'.ctx = drv.ctx /\ drv'.owner = NoCtx /\ drv'.ecb = NoKey
      /\ drv.owner = c
  BY <1>1, FinishDoes DEF AeadInv, AeadTypeOK
<1>3. /\ asked'[c] \in Streams \cup {NoStream}
      /\ \A x \in Contexts : x # c => asked'[x] = asked[x]
      /\ asked'[c] = NoStream
  BY <1>1, <1>2 DEF AeadInv, AeadTypeOK, StreamHasUser
<1>4. AeadTypeOK'
  BY <1>1, <1>2, <1>3 DEF AeadInv, AeadTypeOK, OperationObjects
<1>5. OwnerIsStreaming'
  BY <1>1, <1>2, <1>3 DEF AeadInv, OwnerIsStreaming, StreamHasUser
<1>6. StreamIsHeld'
  <2>1. asked'[c].started => Holds(drv'.ctx[c], asked'[c], mem, c \in Direct)
    <3> HIDE DEF Finish, FinishOk, OthersKept
    <3>1. asked[c].started => Holds(drv.ctx[c], asked[c], mem, c \in Direct)
      BY <1>1 DEF AeadInv, StreamIsHeld
    <3> QED
      BY <3>1, <1>2, <1>3 DEF Holds
  <2> QED
    BY <2>1, <1>1, <1>2, <1>3, OnlyItsStreamChanges
<1>7. StreamHasUser'
  BY <1>1, <1>3, <1>4 DEF AeadInv, AeadTypeOK, StreamHasUser, OperationObjects
<1>8. EcbUsesItsKey'
  BY <1>1, <1>2 DEF AeadInv, AeadTypeOK, EcbUsesItsKey
<1>9. FinishComputesItsStream'
  <2>1. asked[c].started
    BY <1>1, <1>2 DEF AeadInv, OwnerIsStreaming
  <2>2. PICK r \in Requests(drv, c) :
          result'.ran /\ result'.request = r /\ result'.asked = asked[c] /\ result'.ctx = c
    OBVIOUS
  <2> QED
    BY <2>1, <2>2, <1>1, RequestIsTheStream DEF FinishComputesItsStream
<1> QED
  BY <1>4, <1>5, <1>6, <1>7, <1>8, <1>9 DEF AeadInv

\* The one-shot calls, which use a context from start to finish, keep the
\* invariant.
LEMMA OneShotKeeps ==
    ASSUME AeadInv, NEW c \in Direct, OneShot(c), UNCHANGED <<op, given>>
    PROVE  AeadInv'
<1> USE ContextsAreNamed DEF OneShot
<1>1. /\ drv \in Drivers /\ c \in Contexts /\ asked \in [Contexts -> Streams \cup {NoStream}]
      /\ drv.ctx[c] \in Ctxs /\ drv.ctx[c].key \in Keys \cup {NoKey}
  BY DEF AeadInv, AeadTypeOK, Drivers, Ctxs
<1>2. /\ drv' \in Drivers /\ OthersKept(drv, drv', c)
      /\ drv'.ctx = drv.ctx /\ drv'.owner = drv.owner /\ drv'.ecb = NoKey
  BY <1>1, PeripheralDoes DEF AeadInv, AeadTypeOK, OthersKept
<1>3. /\ asked'[c] \in Streams \cup {NoStream}
      /\ \A x \in Contexts : x # c => asked'[x] = asked[x]
      /\ asked'[c] = asked[c]
  BY <1>1, <1>2 DEF AeadInv, AeadTypeOK, StreamHasUser
<1>4. AeadTypeOK'
  BY <1>1, <1>2, <1>3 DEF AeadInv, AeadTypeOK, OperationObjects
<1>5. OwnerIsStreaming'
  BY <1>1, <1>2, <1>3 DEF AeadInv, OwnerIsStreaming, StreamHasUser
<1>6. StreamIsHeld'
  <2>1. asked'[c].started => Holds(drv'.ctx[c], asked'[c], mem, c \in Direct)
    <3> HIDE DEF OneShot
    <3>1. asked[c].started => Holds(drv.ctx[c], asked[c], mem, c \in Direct)
      BY <1>1 DEF AeadInv, StreamIsHeld
    <3> QED
      BY <3>1, <1>2, <1>3 DEF Holds
  <2> QED
    BY <2>1, <1>1, <1>2, <1>3, OnlyItsStreamChanges
<1>7. StreamHasUser'
  BY <1>1, <1>3, <1>4 DEF AeadInv, AeadTypeOK, StreamHasUser, OperationObjects
<1>8. EcbUsesItsKey'
  BY <1>1, <1>2 DEF AeadInv, AeadTypeOK, EcbUsesItsKey
<1>9. FinishComputesItsStream'
  BY DEF FinishComputesItsStream, NoResult
<1> QED
  BY <1>4, <1>5, <1>6, <1>7, <1>8, <1>9 DEF AeadInv

\* mbedtls_gcm_free() by a direct caller keeps the invariant.
LEMMA FreeContextKeeps ==
    ASSUME AeadInv, NEW c \in Direct, FreeContext(c), UNCHANGED <<op, given>>
    PROVE  AeadInv'
<1> USE ContextsAreNamed DEF FreeContext
<1>1. /\ drv \in Drivers /\ c \in Contexts /\ asked \in [Contexts -> Streams \cup {NoStream}]
      /\ drv.ctx[c] \in Ctxs /\ drv.ctx[c].key \in Keys \cup {NoKey}
  BY DEF AeadInv, AeadTypeOK, Drivers, Ctxs
<1>2. /\ drv' \in Drivers /\ OthersKept(drv, drv', c)
      /\ drv'.owner = (IF drv.owner = c THEN NoCtx ELSE drv.owner)
      /\ drv'.ecb = drv.ecb /\ drv'.loaded = drv.loaded
  BY <1>1, FreeDoes DEF AeadInv, AeadTypeOK
<1>3. /\ asked'[c] \in Streams \cup {NoStream}
      /\ \A x \in Contexts : x # c => asked'[x] = asked[x]
      /\ asked'[c] = NoStream
  BY <1>1, <1>2 DEF AeadInv, AeadTypeOK, StreamHasUser
<1>4. AeadTypeOK'
  BY <1>1, <1>2, <1>3 DEF AeadInv, AeadTypeOK, OperationObjects
<1>5. OwnerIsStreaming'
  BY <1>1, <1>2, <1>3 DEF AeadInv, OwnerIsStreaming, StreamHasUser
<1>6. StreamIsHeld'
  <2>1. asked'[c].started => Holds(drv'.ctx[c], asked'[c], mem, c \in Direct)
    <3> HIDE DEF FreeContext
    <3>1. asked[c].started => Holds(drv.ctx[c], asked[c], mem, c \in Direct)
      BY <1>1 DEF AeadInv, StreamIsHeld
    <3> QED
      BY <3>1, <1>2, <1>3 DEF Holds
  <2> QED
    BY <2>1, <1>1, <1>2, <1>3, OnlyItsStreamChanges
<1>7. StreamHasUser'
  BY <1>1, <1>3, <1>4 DEF AeadInv, AeadTypeOK, StreamHasUser, OperationObjects
<1>8. EcbUsesItsKey'
  BY <1>1, <1>2 DEF AeadInv, AeadTypeOK, EcbUsesItsKey
<1>9. FinishComputesItsStream'
  BY DEF FinishComputesItsStream, NoResult
<1> QED
  BY <1>4, <1>5, <1>6, <1>7, <1>8, <1>9 DEF AeadInv

(* Operations                                                              *)

\* psa_aead_encrypt_setup() and psa_aead_decrypt_setup() keep the invariant.
LEMMA AeadSetupKeeps ==
    ASSUME AeadInv, NEW c \in Operations, NEW k \in Keys, NEW encrypt \in BOOLEAN, AeadSetup(c, k, encrypt)
    PROVE  AeadInv'
<1> USE ContextsAreNamed DEF NoHardwareRun, AeadSetup, SetupOk, Idle, OthersKept
<1>1. /\ drv \in Drivers /\ c \in Contexts /\ asked \in [Contexts -> Streams \cup {NoStream}]
      /\ drv.ctx[c] \in Ctxs /\ drv.ctx[c].key \in Keys \cup {NoKey}
  BY DEF AeadInv, AeadTypeOK, Drivers, Ctxs
<1>2. /\ drv' \in Drivers /\ OthersKept(drv, drv', c)
      /\ drv'.owner = drv.owner /\ drv'.ecb = drv.ecb /\ drv'.loaded = drv.loaded
  <2> DEFINE e == GcmInit(drv, c)
  <2>1. e \in Drivers /\ OthersKept(drv, e, c) /\ e.owner = drv.owner /\ e.ecb = drv.ecb /\ e.loaded = drv.loaded
    BY <1>1, InitDoes
  <2>2. drv' = GcmSetKey(e, c, k)
    BY DEF AeadSetup
  <2> HIDE DEF e
  <2>3. /\ drv' \in Drivers /\ OthersKept(e, drv', c)
        /\ drv'.owner = e.owner /\ drv'.ecb = e.ecb /\ drv'.loaded = e.loaded
    BY <1>1, <2>1, <2>2, SetKeyDoes
  <2> QED
    BY <2>1, <2>3 DEF OthersKept
<1>3. /\ asked'[c] \in Streams \cup {NoStream}
      /\ \A x \in Contexts : x # c => asked'[x] = asked[x]
      /\ asked'[c] = asked[c]
      /\ ~asked[c].started
  BY <1>1, <1>2 DEF AeadInv, AeadTypeOK, StreamHasUser
<1>4. AeadTypeOK'
  BY <1>1, <1>2, <1>3 DEF AeadInv, AeadTypeOK, OperationObjects
<1>5. OwnerIsStreaming'
  BY <1>1, <1>2, <1>3 DEF AeadInv, OwnerIsStreaming, StreamHasUser
<1>6. StreamIsHeld'
  <2>1. asked'[c].started => Holds(drv'.ctx[c], asked'[c], mem, c \in Direct)
    <3> HIDE DEF NoHardwareRun, AeadSetup, SetupOk, Idle, OthersKept
    <3>1. asked[c].started => Holds(drv.ctx[c], asked[c], mem, c \in Direct)
      BY <1>1 DEF AeadInv, StreamIsHeld
    <3> QED
      BY <3>1, <1>2, <1>3 DEF Holds
  <2> QED
    BY <2>1, <1>1, <1>2, <1>3, OnlyItsStreamChanges
<1>7. StreamHasUser'
  BY <1>1, <1>3, <1>4 DEF AeadInv, AeadTypeOK, StreamHasUser, OperationObjects
<1>8. EcbUsesItsKey'
  BY <1>1, <1>2 DEF AeadInv, AeadTypeOK, EcbUsesItsKey
<1>9. FinishComputesItsStream'
  BY DEF FinishComputesItsStream, NoResult
<1> QED
  BY <1>4, <1>5, <1>6, <1>7, <1>8, <1>9 DEF AeadInv

\* psa_aead_set_nonce(), which starts the context of the operation, keeps the
\* invariant.
LEMMA SetNonceInternalKeeps ==
    ASSUME AeadInv, NEW c \in Operations, NEW iv, SetNonceInternal(c, iv)
    PROVE  AeadInv'
<1> USE ContextsAreNamed DEF NoHardwareRun, SetNonceInternal, NonceOk, StartsOk, Modes, Mode
<1>1. /\ drv \in Drivers /\ c \in Contexts /\ asked \in [Contexts -> Streams \cup {NoStream}]
      /\ drv.ctx[c] \in Ctxs /\ drv.ctx[c].key \in Keys \cup {NoKey}
  BY DEF AeadInv, AeadTypeOK, Drivers, Ctxs
<1>2. /\ drv' \in Drivers /\ OthersKept(drv, drv', c)
      /\ drv'.owner = c /\ drv'.ecb = drv.ecb /\ drv'.loaded = drv.loaded
      /\ drv.owner \in {NoCtx, c}
      /\ drv'.ctx[c].key = drv.ctx[c].key /\ drv'.ctx[c].mode = Mode(c) /\ drv'.ctx[c].iv = iv
      /\ drv'.ctx[c].aad = <<>> /\ drv'.ctx[c].data_len = 0
  BY <1>1, StartsDoes DEF AeadInv, AeadTypeOK
<1>3. /\ asked'[c] \in Streams \cup {NoStream}
      /\ \A x \in Contexts : x # c => asked'[x] = asked[x]
      /\ asked'[c] = Stream(drv, c, Mode(c), iv) /\ asked'[c].started
      /\ asked'[c].key = drv.ctx[c].key /\ asked'[c].mode = Mode(c) /\ asked'[c].iv = iv
      /\ asked'[c].aad = <<>> /\ asked'[c].data = <<>>
  BY <1>1, <1>2, StreamsStart DEF AeadInv, AeadTypeOK, StreamHasUser, Stream
<1>4. AeadTypeOK'
  <2>1. op[c] \in OperationObjects
    BY DEF AeadInv, AeadTypeOK
  <2>2. op' \in [Operations -> OperationObjects]
    BY <2>1 DEF AeadInv, AeadTypeOK, OperationObjects
  <2>3. mem' = mem /\ live' = live
    OBVIOUS
  <2>4. asked' \in [Contexts -> Streams \cup {NoStream}]
    BY <1>1, <1>3
  <2> QED
    BY <2>2, <2>3, <2>4, <1>2 DEF AeadInv, AeadTypeOK
<1>5. OwnerIsStreaming'
  BY <1>1, <1>2, <1>3 DEF AeadInv, OwnerIsStreaming, StreamHasUser
<1>6. StreamIsHeld'
  <2>1. asked'[c].started => Holds(drv'.ctx[c], asked'[c], mem, c \in Direct)
    <3> HIDE DEF NoHardwareRun, SetNonceInternal, NonceOk, StartsOk, Modes, Mode
    <3>1. asked[c].started => Holds(drv.ctx[c], asked[c], mem, c \in Direct)
      BY <1>1 DEF AeadInv, StreamIsHeld
    <3> QED
      BY <3>1, <1>2, <1>3 DEF Holds
  <2> QED
    BY <2>1, <1>1, <1>2, <1>3, OnlyItsStreamChanges
<1>7. StreamHasUser'
  BY <1>1, <1>3, <1>4 DEF AeadInv, AeadTypeOK, StreamHasUser, OperationObjects
<1>8. EcbUsesItsKey'
  BY <1>1, <1>2 DEF AeadInv, AeadTypeOK, EcbUsesItsKey
<1>9. FinishComputesItsStream'
  BY DEF FinishComputesItsStream, NoResult
<1> QED
  BY <1>4, <1>5, <1>6, <1>7, <1>8, <1>9 DEF AeadInv

\* psa_aead_set_lengths() keeps the invariant.
LEMMA AeadSetLengthsKeeps ==
    ASSUME AeadInv, NEW c \in Operations, NEW ad \in Lengths, NEW body \in Lengths, AeadSetLengths(c, ad, body)
    PROVE  AeadInv'
<1> USE ContextsAreNamed DEF NoHardwareRun, AeadSetLengths, SetLengthsOk, OthersKept
<1>1. /\ drv \in Drivers /\ c \in Contexts /\ asked \in [Contexts -> Streams \cup {NoStream}]
      /\ drv.ctx[c] \in Ctxs /\ drv.ctx[c].key \in Keys \cup {NoKey}
  BY DEF AeadInv, AeadTypeOK, Drivers, Ctxs
<1>2. /\ drv' \in Drivers /\ OthersKept(drv, drv', c)
      /\ drv' = drv
  BY <1>1, ContextsAreNamed DEF AeadInv, AeadTypeOK
<1>3. /\ asked'[c] \in Streams \cup {NoStream}
      /\ \A x \in Contexts : x # c => asked'[x] = asked[x]
      /\ asked'[c] = asked[c]
  BY <1>1, <1>2 DEF AeadInv, AeadTypeOK, StreamHasUser
<1>4. AeadTypeOK'
  BY <1>1, <1>2, <1>3, LengthsAssumption DEF AeadInv, AeadTypeOK, OperationObjects
<1>5. OwnerIsStreaming'
  BY <1>1, <1>2, <1>3 DEF AeadInv, OwnerIsStreaming, StreamHasUser
<1>6. StreamIsHeld'
  <2>1. asked'[c].started => Holds(drv'.ctx[c], asked'[c], mem, c \in Direct)
    <3> HIDE DEF NoHardwareRun, AeadSetLengths, SetLengthsOk, OthersKept
    <3>1. asked[c].started => Holds(drv.ctx[c], asked[c], mem, c \in Direct)
      BY <1>1 DEF AeadInv, StreamIsHeld
    <3> QED
      BY <3>1, <1>2, <1>3 DEF Holds
  <2> QED
    BY <2>1, <1>1, <1>2, <1>3, OnlyItsStreamChanges
<1>7. StreamHasUser'
  BY <1>1, <1>3, <1>4 DEF AeadInv, AeadTypeOK, StreamHasUser, OperationObjects
<1>8. EcbUsesItsKey'
  BY <1>1, <1>2 DEF AeadInv, AeadTypeOK, EcbUsesItsKey
<1>9. FinishComputesItsStream'
  BY DEF FinishComputesItsStream, NoResult
<1> QED
  BY <1>4, <1>5, <1>6, <1>7, <1>8, <1>9 DEF AeadInv

\* psa_aead_update_ad() keeps the invariant.
LEMMA AeadUpdateAdKeeps ==
    ASSUME AeadInv, NEW c \in Operations, NEW a \in Ads, AeadUpdateAd(c, a)
    PROVE  AeadInv'
<1> USE ContextsAreNamed DEF NoHardwareRun, AeadUpdateAd, AeadUpdateAdOk, UpdateAdOk
<1>1. /\ drv \in Drivers /\ c \in Contexts /\ asked \in [Contexts -> Streams \cup {NoStream}]
      /\ drv.ctx[c] \in Ctxs /\ drv.ctx[c].key \in Keys \cup {NoKey}
  BY DEF AeadInv, AeadTypeOK, Drivers, Ctxs
<1>2. /\ drv' \in Drivers /\ OthersKept(drv, drv', c)
      /\ drv'.owner = drv.owner /\ drv'.ecb = drv.ecb /\ drv'.loaded = drv.loaded
      /\ drv'.ctx[c].key = drv.ctx[c].key /\ drv'.ctx[c].mode = drv.ctx[c].mode
      /\ drv'.ctx[c].iv = drv.ctx[c].iv
      /\ drv'.ctx[c].aad = Append(drv.ctx[c].aad, a)
      /\ drv'.ctx[c].data_len = drv.ctx[c].data_len /\ drv'.ctx[c].input = drv.ctx[c].input
  <2>1. a \in Ads /\ drv' = GcmUpdateAd(drv, c, a)
    BY DataAssumption
  <2> HIDE DEF NoHardwareRun, AeadUpdateAd, AeadUpdateAdOk, UpdateAdOk
  <2> QED
    BY <2>1, <1>1, UpdateAdDoes, SMTT(30)
<1>3. /\ asked'[c] \in Streams \cup {NoStream}
      /\ \A x \in Contexts : x # c => asked'[x] = asked[x]
      /\ asked'[c].started <=> asked[c].started
      /\ asked[c].started =>
            /\ asked'[c].key = asked[c].key /\ asked'[c].iv = asked[c].iv
            /\ asked'[c].mode = asked[c].mode
            /\ asked'[c].aad = Append(asked[c].aad, a) /\ asked'[c].data = asked[c].data
      /\ asked[c].started
  <2>1. CASE asked[c].started
    <3>1. asked[c] \in Streams
      BY <2>1, <1>1
    <3>2. asked'[c] = [asked[c] EXCEPT !.aad = Append(@, a)]
      BY <2>1, <1>1, DataAssumption
    <3>3. \A y \in Contexts : y # c => asked'[y] = asked[y]
      BY <1>1
    <3> QED
      BY <2>1, <3>1, <3>2, <3>3, <1>2, StreamTakesAd, SMTT(30)
  <2>2. asked[c].started
    <3>1. op[c].id /\ op[c].nonce_set
      OBVIOUS
    <3> HIDE DEF NoHardwareRun, AeadUpdateAd, AeadUpdateAdOk, UpdateAdOk
    <3> QED
      BY <3>1, <1>1 DEF AeadInv, StreamHasUser
  <2> QED
    BY <2>1, <2>2
<1>4. AeadTypeOK'
  <2>1. op[c] \in OperationObjects /\ a \in Nat
    BY DataAssumption DEF AeadInv, AeadTypeOK
  <2>2. op[c].lengths_set => op[c].ad_remaining - a \in Nat
    BY <2>1, DataAssumption DEF OperationObjects
  <2>3. op' \in [Operations -> OperationObjects]
    BY <2>1, <2>2 DEF AeadInv, AeadTypeOK, OperationObjects
  <2> QED
    BY <2>3, <1>1, <1>2, <1>3 DEF AeadInv, AeadTypeOK
<1>5. OwnerIsStreaming'
  BY <1>1, <1>2, <1>3 DEF AeadInv, OwnerIsStreaming, StreamHasUser
<1>6. StreamIsHeld'
  <2>1. asked'[c].started => Holds(drv'.ctx[c], asked'[c], mem, c \in Direct)
    <3> HIDE DEF NoHardwareRun, AeadUpdateAd, AeadUpdateAdOk, UpdateAdOk
    <3>1. asked[c].started => Holds(drv.ctx[c], asked[c], mem, c \in Direct)
      BY <1>1 DEF AeadInv, StreamIsHeld
    <3> QED
      BY <3>1, <1>2, <1>3, SMTT(30) DEF Holds
  <2> QED
    BY <2>1, <1>1, <1>2, <1>3, OnlyItsStreamChanges
<1>7. StreamHasUser'
  BY <1>1, <1>3, <1>4 DEF AeadInv, AeadTypeOK, StreamHasUser, OperationObjects
<1>8. EcbUsesItsKey'
  BY <1>1, <1>2 DEF AeadInv, AeadTypeOK, EcbUsesItsKey
<1>9. FinishComputesItsStream'
  BY DEF FinishComputesItsStream, NoResult
<1> QED
  BY <1>4, <1>5, <1>6, <1>7, <1>8, <1>9 DEF AeadInv

\* psa_aead_update(), which frees the copy the driver has the address of,
\* keeps the invariant.
LEMMA AeadUpdateKeeps ==
    ASSUME AeadInv, NEW c \in Operations, NEW m \in Messages, AeadUpdate(c, m)
    PROVE  AeadInv'
<1> USE ContextsAreNamed DEF NoHardwareRun, AeadUpdate, AeadUpdateOk, UpdateOk
<1>1. /\ drv \in Drivers /\ c \in Contexts /\ asked \in [Contexts -> Streams \cup {NoStream}]
      /\ drv.ctx[c] \in Ctxs /\ drv.ctx[c].key \in Keys \cup {NoKey}
  BY DEF AeadInv, AeadTypeOK, Drivers, Ctxs
<1>2. /\ drv' \in Drivers /\ OthersKept(drv, drv', c)
      /\ drv'.owner = drv.owner /\ drv'.ecb = drv.ecb /\ drv'.loaded = drv.loaded
      /\ drv'.ctx[c].key = drv.ctx[c].key /\ drv'.ctx[c].mode = drv.ctx[c].mode
      /\ drv'.ctx[c].iv = drv.ctx[c].iv
      /\ drv'.ctx[c].aad = drv.ctx[c].aad
      /\ drv'.ctx[c].data_len = m /\ drv'.ctx[c].input = Freed
      /\ m \in Messages /\ m # 0 /\ drv.ctx[c].data_len = 0
  <2>1. m \in Messages /\ m # 0 /\ drv.ctx[c].data_len = 0 /\ drv' = GcmUpdate(drv, c, Freed, m)
    BY DataAssumption
  <2> HIDE DEF NoHardwareRun, AeadUpdate, AeadUpdateOk, UpdateOk
  <2> QED
    BY <2>1, <1>1, UpdateDoes
<1>3. /\ asked'[c] \in Streams \cup {NoStream}
      /\ \A x \in Contexts : x # c => asked'[x] = asked[x]
      /\ asked'[c].started <=> asked[c].started
      /\ asked[c].started =>
            /\ asked'[c].key = asked[c].key /\ asked'[c].iv = asked[c].iv
            /\ asked'[c].mode = asked[c].mode
            /\ asked'[c].aad = asked[c].aad /\ asked'[c].data = Append(asked[c].data, m)
      /\ asked[c].started
  <2>1. CASE asked[c].started
    <3>1. asked[c] \in Streams
      BY <2>1, <1>1
    <3>2. asked'[c] = [asked[c] EXCEPT !.data = Append(@, m)]
      BY <2>1, <1>1, DataAssumption
    <3>3. \A y \in Contexts : y # c => asked'[y] = asked[y]
      BY <1>1
    <3> QED
      BY <2>1, <3>1, <3>2, <3>3, <1>2, StreamTakesData
  <2>2. CASE ~asked[c].started
    BY <2>2, <1>1 DEF AeadInv, StreamHasUser
  <2> QED
    BY <2>1, <2>2
<1>4. AeadTypeOK'
  <2>1. op[c] \in OperationObjects /\ m \in Nat
    BY DataAssumption DEF AeadInv, AeadTypeOK
  <2>2. op[c].lengths_set => op[c].body_remaining - m \in Nat
    BY <2>1, DataAssumption DEF OperationObjects
  <2>3. op' \in [Operations -> OperationObjects]
    BY <2>1, <2>2 DEF AeadInv, AeadTypeOK, OperationObjects
  <2> QED
    BY <2>3, <1>1, <1>2, <1>3 DEF AeadInv, AeadTypeOK
<1>5. OwnerIsStreaming'
  BY <1>1, <1>2, <1>3 DEF AeadInv, OwnerIsStreaming, StreamHasUser
<1>6. StreamIsHeld'
  <2>1. asked'[c].started => Holds(drv'.ctx[c], asked'[c], mem, c \in Direct)
    <3> HIDE DEF NoHardwareRun, AeadUpdate, AeadUpdateOk, UpdateOk
    <3>1. asked[c].started => Holds(drv.ctx[c], asked[c], mem, c \in Direct)
      BY <1>1 DEF AeadInv, StreamIsHeld
    <3>2. Append(<<>>, m) = <<m>>
      OBVIOUS
    <3>3. asked[c].started => asked'[c].data = <<m>>
      BY <3>1, <3>2, <1>2, <1>3 DEF Holds
    <3> QED
      BY <3>1, <3>3, <1>2, <1>3 DEF Holds
  <2> QED
    BY <2>1, <1>1, <1>2, <1>3, OnlyItsStreamChanges
<1>7. StreamHasUser'
  BY <1>1, <1>3, <1>4 DEF AeadInv, AeadTypeOK, StreamHasUser, OperationObjects
<1>8. EcbUsesItsKey'
  BY <1>1, <1>2 DEF AeadInv, AeadTypeOK, EcbUsesItsKey
<1>9. FinishComputesItsStream'
  BY DEF FinishComputesItsStream, NoResult
<1> QED
  BY <1>4, <1>5, <1>6, <1>7, <1>8, <1>9 DEF AeadInv

\* psa_aead_finish() and psa_aead_verify() keep the invariant.
LEMMA CompleteKeeps ==
    ASSUME AeadInv, NEW c \in Operations, NEW out, Complete(c, out)
    PROVE  AeadInv'
<1> USE ContextsAreNamed DEF Complete, FinalChecks, FinishOk, AbortFrom, Idle
<1>1. /\ drv \in Drivers /\ c \in Contexts /\ asked \in [Contexts -> Streams \cup {NoStream}]
      /\ drv.ctx[c] \in Ctxs /\ drv.ctx[c].key \in Keys \cup {NoKey}
  BY DEF AeadInv, AeadTypeOK, Drivers, Ctxs
<1>2. /\ drv' \in Drivers /\ OthersKept(drv, drv', c)
      /\ drv'.owner = NoCtx /\ drv'.ecb = NoKey
      /\ drv.owner = c
  <2> DEFINE e == GcmFinish(drv, c)
  <2>1. e \in Drivers /\ e.ctx = drv.ctx /\ e.owner = NoCtx /\ e.ecb = NoKey
    BY <1>1, FinishDoes
  <2>2. drv' = GcmFree(e, c) /\ drv.owner = c
    OBVIOUS
  <2> HIDE DEF e
  <2>3. /\ drv' \in Drivers /\ OthersKept(e, drv', c)
        /\ drv'.owner = NoCtx /\ drv'.ecb = NoKey
    BY <1>1, <2>1, <2>2, FreeDoes
  <2> QED
    BY <2>1, <2>2, <2>3 DEF OthersKept
<1>3. /\ asked'[c] \in Streams \cup {NoStream}
      /\ \A x \in Contexts : x # c => asked'[x] = asked[x]
      /\ asked'[c] = NoStream
  BY <1>1, <1>2 DEF AeadInv, AeadTypeOK, StreamHasUser
<1>4. AeadTypeOK'
  BY <1>1, <1>2, <1>3 DEF AeadInv, AeadTypeOK, OperationObjects
<1>5. OwnerIsStreaming'
  BY <1>1, <1>2, <1>3 DEF AeadInv, OwnerIsStreaming, StreamHasUser
<1>6. StreamIsHeld'
  <2>1. asked'[c].started => Holds(drv'.ctx[c], asked'[c], mem, c \in Direct)
    <3> HIDE DEF Complete, FinalChecks, FinishOk, AbortFrom, Idle
    <3>1. asked[c].started => Holds(drv.ctx[c], asked[c], mem, c \in Direct)
      BY <1>1 DEF AeadInv, StreamIsHeld
    <3> QED
      BY <3>1, <1>2, <1>3 DEF Holds
  <2> QED
    BY <2>1, <1>1, <1>2, <1>3, OnlyItsStreamChanges
<1>7. StreamHasUser'
  BY <1>1, <1>3, <1>4 DEF AeadInv, AeadTypeOK, StreamHasUser, OperationObjects
<1>8. EcbUsesItsKey'
  BY <1>1, <1>2 DEF AeadInv, AeadTypeOK, EcbUsesItsKey
<1>9. FinishComputesItsStream'
  <2>1. asked[c].started
    BY <1>1, <1>2 DEF AeadInv, OwnerIsStreaming
  <2>2. PICK r \in Requests(drv, c) :
          result'.ran /\ result'.request = r /\ result'.asked = asked[c] /\ result'.ctx = c
    OBVIOUS
  <2> QED
    BY <2>1, <2>2, <1>1, RequestIsTheStream DEF FinishComputesItsStream
<1> QED
  BY <1>4, <1>5, <1>6, <1>7, <1>8, <1>9 DEF AeadInv

\* An error of the peripheral when an operation finishes, which aborts it,
\* keeps the invariant.
LEMMA HardwareFailsKeeps ==
    ASSUME AeadInv, NEW c \in Operations, NEW out, HardwareFails(c, out)
    PROVE  AeadInv'
<1> USE ContextsAreNamed DEF NoHardwareRun, HardwareFails, FinalChecks, FinishOk, AbortFrom, Idle
<1>1. /\ drv \in Drivers /\ c \in Contexts /\ asked \in [Contexts -> Streams \cup {NoStream}]
      /\ drv.ctx[c] \in Ctxs /\ drv.ctx[c].key \in Keys \cup {NoKey}
  BY DEF AeadInv, AeadTypeOK, Drivers, Ctxs
<1>2. /\ drv' \in Drivers /\ OthersKept(drv, drv', c)
      /\ drv'.owner = NoCtx /\ drv'.ecb = NoKey
      /\ drv.owner = c
  <2> DEFINE e == GcmFinish(drv, c)
  <2>1. e \in Drivers /\ e.ctx = drv.ctx /\ e.owner = NoCtx /\ e.ecb = NoKey
    BY <1>1, FinishDoes
  <2>2. drv' = GcmFree(e, c) /\ drv.owner = c
    OBVIOUS
  <2> HIDE DEF e
  <2>3. /\ drv' \in Drivers /\ OthersKept(e, drv', c)
        /\ drv'.owner = NoCtx /\ drv'.ecb = NoKey
    BY <1>1, <2>1, <2>2, FreeDoes
  <2> QED
    BY <2>1, <2>2, <2>3 DEF OthersKept
<1>3. /\ asked'[c] \in Streams \cup {NoStream}
      /\ \A x \in Contexts : x # c => asked'[x] = asked[x]
      /\ asked'[c] = NoStream
  BY <1>1, <1>2 DEF AeadInv, AeadTypeOK, StreamHasUser
<1>4. AeadTypeOK'
  BY <1>1, <1>2, <1>3 DEF AeadInv, AeadTypeOK, OperationObjects
<1>5. OwnerIsStreaming'
  BY <1>1, <1>2, <1>3 DEF AeadInv, OwnerIsStreaming, StreamHasUser
<1>6. StreamIsHeld'
  <2>1. asked'[c].started => Holds(drv'.ctx[c], asked'[c], mem, c \in Direct)
    <3> HIDE DEF NoHardwareRun, HardwareFails, FinalChecks, FinishOk, AbortFrom, Idle
    <3>1. asked[c].started => Holds(drv.ctx[c], asked[c], mem, c \in Direct)
      BY <1>1 DEF AeadInv, StreamIsHeld
    <3> QED
      BY <3>1, <1>2, <1>3 DEF Holds
  <2> QED
    BY <2>1, <1>1, <1>2, <1>3, OnlyItsStreamChanges
<1>7. StreamHasUser'
  BY <1>1, <1>3, <1>4 DEF AeadInv, AeadTypeOK, StreamHasUser, OperationObjects
<1>8. EcbUsesItsKey'
  BY <1>1, <1>2 DEF AeadInv, AeadTypeOK, EcbUsesItsKey
<1>9. FinishComputesItsStream'
  BY DEF FinishComputesItsStream, NoResult
<1> QED
  BY <1>4, <1>5, <1>6, <1>7, <1>8, <1>9 DEF AeadInv

\* A call that is refused and psa_aead_abort() keep the invariant.
LEMMA FailKeeps ==
    ASSUME AeadInv, NEW c \in Operations, Fail(c)
    PROVE  AeadInv'
<1> USE ContextsAreNamed DEF NoHardwareRun, Fail, Abort, AbortFrom, Idle, OthersKept, StreamHasUser
<1>1. /\ drv \in Drivers /\ c \in Contexts /\ asked \in [Contexts -> Streams \cup {NoStream}]
      /\ drv.ctx[c] \in Ctxs /\ drv.ctx[c].key \in Keys \cup {NoKey}
  BY DEF AeadInv, AeadTypeOK, Drivers, Ctxs
<1>2. /\ drv' \in Drivers /\ OthersKept(drv, drv', c)
      /\ drv'.ecb = drv.ecb /\ drv'.loaded = drv.loaded
      /\ \/ drv'.owner = (IF drv.owner = c THEN NoCtx ELSE drv.owner)
         \/ ~asked[c].started /\ drv'.owner = drv.owner
  BY <1>1, FreeDoes DEF AeadInv, AeadTypeOK
<1>3. /\ asked'[c] \in Streams \cup {NoStream}
      /\ \A x \in Contexts : x # c => asked'[x] = asked[x]
      /\ asked'[c] = NoStream
  BY <1>1, <1>2 DEF AeadInv, AeadTypeOK, StreamHasUser
<1>4. AeadTypeOK'
  BY <1>1, <1>2, <1>3 DEF AeadInv, AeadTypeOK, OperationObjects
<1>5. OwnerIsStreaming'
  BY <1>1, <1>2, <1>3 DEF AeadInv, OwnerIsStreaming, StreamHasUser
<1>6. StreamIsHeld'
  <2>1. asked'[c].started => Holds(drv'.ctx[c], asked'[c], mem, c \in Direct)
    <3> HIDE DEF NoHardwareRun, Fail, Abort, AbortFrom, Idle, OthersKept, StreamHasUser
    <3>1. asked[c].started => Holds(drv.ctx[c], asked[c], mem, c \in Direct)
      BY <1>1 DEF AeadInv, StreamIsHeld
    <3> QED
      BY <3>1, <1>2, <1>3 DEF Holds
  <2> QED
    BY <2>1, <1>1, <1>2, <1>3, OnlyItsStreamChanges
<1>7. StreamHasUser'
  BY <1>1, <1>3, <1>4 DEF AeadInv, AeadTypeOK, StreamHasUser, OperationObjects
<1>8. EcbUsesItsKey'
  BY <1>1, <1>2 DEF AeadInv, AeadTypeOK, EcbUsesItsKey
<1>9. FinishComputesItsStream'
  BY DEF FinishComputesItsStream, NoResult
<1> QED
  BY <1>4, <1>5, <1>6, <1>7, <1>8, <1>9 DEF AeadInv

\* An empty piece reaches neither the driver nor the stream.
LEMMA EmptyPieceKeeps ==
    ASSUME AeadInv, NEW c \in Operations, AeadUpdateAd(c, 0) \/ AeadUpdate(c, 0)
    PROVE  AeadInv'
<1>1. drv' = drv /\ asked' = asked /\ mem' = mem /\ live' = live /\ result' = NoResult
  BY DEF AeadUpdateAd, AeadUpdate, NoHardwareRun
<1>2. op' \in [Operations -> OperationObjects]
  <2>1. op[c] \in OperationObjects /\ op \in [Operations -> OperationObjects]
    BY DEF AeadInv, AeadTypeOK
  <2>2. op[c].ad_remaining - 0 \in Nat /\ op[c].body_remaining - 0 \in Nat
    BY <2>1 DEF OperationObjects
  <2>3. CASE AeadUpdateAd(c, 0)
    BY <2>1, <2>2, <2>3 DEF OperationObjects, AeadUpdateAd
  <2>4. CASE AeadUpdate(c, 0)
    BY <2>1, <2>2, <2>4 DEF OperationObjects, AeadUpdate
  <2> QED
    BY <2>3, <2>4
<1>3. \A x \in Operations : op'[x].nonce_set = op[x].nonce_set /\ op'[x].id = op[x].id
  BY DEF AeadInv, AeadTypeOK, OperationObjects, AeadUpdateAd, AeadUpdate
<1> QED
  BY <1>1, <1>2, <1>3
  DEF AeadInv, AeadTypeOK, OwnerIsStreaming, StreamIsHeld, StreamHasUser, EcbUsesItsKey,
      FinishComputesItsStream, NoResult

-----------------------------------------------------------------------------
(* The other users of the peripheral and of the buffers                    *)

\* A block of AES-ECB keeps the invariant.
LEMMA EcbCryptKeeps ==
    ASSUME AeadInv, NEW k \in Keys, EcbCrypt(k), UNCHANGED <<op, given>>
    PROVE  AeadInv'
<1>1. /\ drv' \in Drivers /\ drv'.ctx = drv.ctx /\ drv'.owner = drv.owner
      /\ drv'.ecb = k /\ drv'.loaded = k
  BY NamesAssumption DEF AeadInv, AeadTypeOK, Drivers, EcbCrypt, EcbUsesItsKey
<1> QED
  BY <1>1
  DEF EcbCrypt, AeadInv, AeadTypeOK, OwnerIsStreaming, StreamIsHeld, StreamHasUser, EcbUsesItsKey,
      FinishComputesItsStream, NoResult

\* A caller that writes to its own buffer keeps the invariant.
LEMMA WriteBufferKeeps ==
    ASSUME AeadInv, NEW b \in Buffers, NEW m \in Messages, WriteBuffer(b, m), UNCHANGED <<op, given>>
    PROVE  AeadInv'
<1>1. AeadTypeOK'
  BY DEF AeadInv, AeadTypeOK, WriteBuffer
<1>2. StreamIsHeld'
  BY DEF AeadInv, AeadTypeOK, StreamIsHeld, Holds, WriteBuffer
<1> QED
  BY <1>1, <1>2
  DEF WriteBuffer, AeadInv, OwnerIsStreaming, StreamHasUser, EcbUsesItsKey, FinishComputesItsStream, NoResult

-----------------------------------------------------------------------------
(* The theorems                                                            *)

\* Contexts that nobody has used satisfy the invariant.
LEMMA AeadInitIsGood == AeadInit => AeadInv
<1> SUFFICES ASSUME AeadInit PROVE AeadInv
  OBVIOUS
<1>1. drv \in Drivers
  BY ZeroedIsContext DEF AeadInit, GcmInitState, Driver, Drivers
<1>2. AeadTypeOK
  BY <1>1 DEF AeadInit, GcmInitState, AeadTypeOK, OperationObjects, Idle
<1> QED
  BY <1>2, ContextsAreNamed
  DEF AeadInit, GcmInitState, Driver, AeadInv, OwnerIsStreaming, StreamIsHeld, StreamHasUser, EcbUsesItsKey,
      FinishComputesItsStream, NoResult, Idle

\* Every step of the callers keeps the invariant.
LEMMA AeadStepKeeps == AeadInv /\ [PsaAeadNext]_aeadVars => AeadInv'
<1> SUFFICES ASSUME AeadInv, [PsaAeadNext]_aeadVars PROVE AeadInv'
  OBVIOUS
<1>1. CASE GcmNext /\ UNCHANGED <<op, given>>
  <2>1. ASSUME NEW c \in Direct,
               InitContext(c) \/ OneShot(c) \/ FreeContext(c) \/ \E k \in Keys : SetKey(c, k)
        PROVE  AeadInv'
    BY <1>1, <2>1, InitContextKeeps, OneShotKeeps, FreeContextKeeps, SetKeyKeeps
  <2>2. ASSUME NEW c \in Direct,
               \/ \E mode \in Modes, iv \in Nonces \cup OddNonces : Starts(c, mode, iv)
               \/ \E a \in Ads : UpdateAd(c, a)
               \/ \E b \in Buffers : Update(c, b)
               \/ \E out \in Outputs : Finish(c, out)
        PROVE  AeadInv'
    BY <1>1, <2>2, StartsKeeps, UpdateAdKeeps, UpdateKeeps, FinishKeeps
  <2>3. CASE \E k \in Keys : EcbCrypt(k)
    BY <1>1, <2>3, EcbCryptKeeps
  <2>4. CASE \E b \in Buffers, m \in Messages : WriteBuffer(b, m)
    BY <1>1, <2>4, WriteBufferKeeps
  <2> QED
    BY <1>1, <2>1, <2>2, <2>3, <2>4 DEF GcmNext
<1>2. ASSUME NEW c \in Operations, AeadNext(c)
      PROVE  AeadInv'
  <2>1. CASE \E k \in Keys, encrypt \in BOOLEAN : AeadSetup(c, k, encrypt)
    BY <2>1, AeadSetupKeeps
  <2>2. CASE (\E iv \in Nonces \cup OddNonces : AeadSetNonce(c, iv)) \/ AeadGenerateNonce(c)
    BY <2>2, SetNonceInternalKeeps DEF AeadSetNonce, AeadGenerateNonce
  <2>3. CASE \E ad, body \in Lengths : AeadSetLengths(c, ad, body)
    BY <2>3, AeadSetLengthsKeeps
  <2>4. CASE \E a \in Ads \cup {0} : AeadUpdateAd(c, a)
    BY <2>4, AeadUpdateAdKeeps, EmptyPieceKeeps
  <2>5. CASE \E m \in Messages \cup {0} : AeadUpdate(c, m)
    BY <2>5, AeadUpdateKeeps, EmptyPieceKeeps
  <2>6. CASE \E out \in Outputs : AeadFinish(c, out) \/ AeadVerify(c, out) \/ HardwareFails(c, out)
    BY <2>6, CompleteKeeps, HardwareFailsKeeps DEF AeadFinish, AeadVerify
  <2>7. CASE Fail(c)
    BY <2>7, FailKeeps
  <2> QED
    BY <1>2, <2>1, <2>2, <2>3, <2>4, <2>5, <2>6, <2>7 DEF AeadNext
<1>3. CASE UNCHANGED aeadVars
  BY <1>3
  DEF aeadVars, gcmVars, AeadInv, AeadTypeOK, OwnerIsStreaming, StreamIsHeld, StreamHasUser, EcbUsesItsKey,
      FinishComputesItsStream
<1> QED
  BY <1>1, <1>2, <1>3 DEF PsaAeadNext

\* The inductive invariant of the GCM and ECB drivers and the PSA operations
\* on them holds in every reachable state.
THEOREM AeadInvariant == AeadSpec => []AeadInv
BY AeadInitIsGood, AeadStepKeeps, PTL DEF AeadSpec

(* The GCM engine has an owner exactly while that owner's user is between  *)
(* mbedtls_gcm_starts() and the end of its stream.                         *)
THEOREM EngineIsGivenBack == AeadSpec => []OwnerIsStreaming
<1>1. AeadInv => OwnerIsStreaming
  BY DEF AeadInv
<1> QED
  BY <1>1, AeadInvariant, PTL

(* mbedtls_gcm_finish() gives the hardware the key, nonce, mode and data   *)
(* that its caller passed since mbedtls_gcm_starts().                      *)
THEOREM FinishIsOfItsStream == AeadSpec => []FinishComputesItsStream
<1>1. AeadInv => FinishComputesItsStream
  BY DEF AeadInv
<1> QED
  BY <1>1, AeadInvariant, PTL

(* AesEcb never takes a key that a GCM call loaded for its own.            *)
THEOREM EcbKeyIsLoaded == AeadSpec => []EcbUsesItsKey
<1>1. AeadInv => EcbUsesItsKey
  BY DEF AeadInv
<1> QED
  BY <1>1, AeadInvariant, PTL

-----------------------------------------------------------------------------
(* Declared lengths: what is left of them and what was passed add up.      *)

Amounts == [ad : Nat, body : Nat, declared : SUBSET (Nat \X Nat)]

(* What the object of an operation says about what it was passed.          *)
Accounted(o, g) ==
    /\ ~o.id => ~o.lengths_set /\ g = NothingGiven
    /\ ~o.ad_started => g.ad = 0
    /\ ~o.body_started => g.body = 0
    /\ ~o.lengths_set => g.declared = {}
    /\ o.lengths_set => g.declared = {<<g.ad + o.ad_remaining, g.body + o.body_remaining>>}

LengthsInv ==
    /\ given \in [Operations -> Amounts]
    /\ \A c \in Operations : Accounted(op[c], given[c])
    /\ DeclaredLengthsHold

\* A step that only gives c another object and other amounts keeps the
\* account of the others.
LEMMA OneIsAccounted ==
    ASSUME AeadInv, LengthsInv, NEW c \in Operations, NEW o, NEW g \in Amounts, Accounted(o, g),
           op' = [op EXCEPT ![c] = o], given' = [given EXCEPT ![c] = g], DeclaredLengthsHold'
    PROVE  LengthsInv'
<1>1. given' \in [Operations -> Amounts]
  BY DEF LengthsInv
<1>2. \A x \in Operations : Accounted(op'[x], given'[x])
  BY DEF LengthsInv, AeadInv, AeadTypeOK
<1> QED
  BY <1>1, <1>2 DEF LengthsInv

\* Each call of an operation keeps the account of its lengths.
LEMMA OperationIsAccounted ==
    ASSUME AeadInv, LengthsInv, NEW c \in Operations, AeadNext(c)
    PROVE  LengthsInv'
<1>1. /\ op[c] \in OperationObjects
      /\ given[c] \in Amounts
      /\ Accounted(op[c], given[c])
      /\ op \in [Operations -> OperationObjects] /\ given \in [Operations -> Amounts]
  BY DEF AeadInv, AeadTypeOK, LengthsInv
<1>2. NothingGiven \in Amounts /\ Accounted(Idle, NothingGiven)
  BY DEF NothingGiven, Amounts, Accounted, Idle
<1>3. result' = NoResult => DeclaredLengthsHold'
  BY DEF DeclaredLengthsHold, NoResult
<1>4. ASSUME NEW d, AbortFrom(d, c), DeclaredLengthsHold'
      PROVE  LengthsInv'
  BY <1>2, <1>4, OneIsAccounted DEF AbortFrom
<1>5. CASE \E k \in Keys, encrypt \in BOOLEAN : AeadSetup(c, k, encrypt)
  <2>1. PICK k \in Keys, encrypt \in BOOLEAN : AeadSetup(c, k, encrypt)
    BY <1>5
  <2> DEFINE o == [Idle EXCEPT !.id = TRUE, !.is_encrypt = encrypt]
  <2>2. /\ ~op[c].id /\ op' = [op EXCEPT ![c] = o] /\ given' = given
        /\ result' = NoResult
    BY <2>1 DEF AeadSetup, SetupOk, NoHardwareRun
  <2>3. given' = [given EXCEPT ![c] = given[c]]
    BY <1>1, <2>2
  <2>4. Accounted(o, given[c])
    BY <1>1, <2>2 DEF Accounted, Idle, NothingGiven
  <2> HIDE DEF o
  <2> QED
    BY <1>1, <1>3, <2>2, <2>3, <2>4, OneIsAccounted
<1>6. CASE (\E iv \in Nonces \cup OddNonces : AeadSetNonce(c, iv)) \/ AeadGenerateNonce(c)
  <2>1. PICK iv : SetNonceInternal(c, iv)
    BY <1>6 DEF AeadSetNonce, AeadGenerateNonce
  <2> DEFINE o == [op[c] EXCEPT !.nonce_set = TRUE]
  <2>2. op' = [op EXCEPT ![c] = o] /\ given' = given /\ result' = NoResult
    BY <1>1, <2>1 DEF SetNonceInternal, NoHardwareRun
  <2>3. given' = [given EXCEPT ![c] = given[c]]
    BY <1>1, <2>2
  <2>4. Accounted(o, given[c])
    BY <1>1 DEF Accounted, OperationObjects
  <2> HIDE DEF o
  <2> QED
    BY <1>1, <1>3, <2>2, <2>3, <2>4, OneIsAccounted
<1>7. CASE \E ad, body \in Lengths : AeadSetLengths(c, ad, body)
  <2>1. PICK ad \in Lengths, body \in Lengths : AeadSetLengths(c, ad, body)
    BY <1>7
  <2> DEFINE o == [op[c] EXCEPT !.ad_remaining = ad, !.body_remaining = body, !.lengths_set = TRUE]
             g == [given[c] EXCEPT !.declared = {<<ad, body>>}]
  <2>2. /\ SetLengthsOk(c) /\ result' = NoResult
        /\ op' = [op EXCEPT ![c] = o] /\ given' = [given EXCEPT ![c] = g]
    BY <1>1, <2>1 DEF AeadSetLengths, NoHardwareRun
  <2>3. ad \in Nat /\ body \in Nat
    BY LengthsAssumption
  <2>4. g \in Amounts /\ Accounted(o, g)
    BY <1>1, <2>2, <2>3 DEF SetLengthsOk, Accounted, OperationObjects, Amounts
  <2> HIDE DEF o, g
  <2> QED
    BY <1>3, <2>2, <2>4, OneIsAccounted
<1>8. CASE \E a \in Ads \cup {0} : AeadUpdateAd(c, a)
  <2>1. PICK a \in Ads \cup {0} : AeadUpdateAd(c, a)
    BY <1>8
  <2> DEFINE o == [op[c] EXCEPT !.ad_started = TRUE,
                                !.ad_remaining = IF op[c].lengths_set THEN @ - a ELSE @]
             g == [given[c] EXCEPT !.ad = @ + a]
  <2>2. /\ AeadUpdateAdOk(c, a) /\ result' = NoResult
        /\ op' = [op EXCEPT ![c] = o] /\ given' = [given EXCEPT ![c] = g]
    BY <1>1, <2>1 DEF AeadUpdateAd, NoHardwareRun
  <2>3. a \in Nat
    BY DataAssumption
  <2>4. /\ g \in Amounts
        /\ g.ad = given[c].ad + a /\ g.body = given[c].body /\ g.declared = given[c].declared
    BY <1>1, <2>3 DEF Amounts
  <2>5. /\ o.id = op[c].id /\ o.lengths_set = op[c].lengths_set /\ o.ad_started
        /\ o.body_started = op[c].body_started /\ o.body_remaining = op[c].body_remaining
        /\ op[c].lengths_set => o.ad_remaining = op[c].ad_remaining - a
        /\ op[c].ad_remaining \in Nat /\ op[c].id
    BY <1>1, <2>2 DEF AeadUpdateAdOk, OperationObjects
  <2> HIDE DEF o, g
  <2>6. given[c].ad + a + (op[c].ad_remaining - a) = given[c].ad + op[c].ad_remaining
    BY <1>1, <2>3, <2>5 DEF Amounts
  <2>7. Accounted(o, g)
    BY <1>1, <2>4, <2>5, <2>6 DEF Accounted
  <2> QED
    BY <1>3, <2>2, <2>4, <2>7, OneIsAccounted
<1>9. CASE \E m \in Messages \cup {0} : AeadUpdate(c, m)
  <2>1. PICK m \in Messages \cup {0} : AeadUpdate(c, m)
    BY <1>9
  <2> DEFINE o == [op[c] EXCEPT !.body_started = TRUE,
                                !.body_remaining = IF op[c].lengths_set THEN @ - m ELSE @]
             g == [given[c] EXCEPT !.body = @ + m]
  <2>2. /\ AeadUpdateOk(c, m) /\ result' = NoResult
        /\ op' = [op EXCEPT ![c] = o] /\ given' = [given EXCEPT ![c] = g]
    BY <1>1, <2>1 DEF AeadUpdate, NoHardwareRun
  <2>3. m \in Nat
    BY DataAssumption
  <2>4. g \in Amounts /\ Accounted(o, g)
    BY <1>1, <2>2, <2>3 DEF AeadUpdateOk, Accounted, OperationObjects, Amounts
  <2> HIDE DEF o, g
  <2> QED
    BY <1>3, <2>2, <2>4, OneIsAccounted
<1>10. CASE \E out \in Outputs : AeadFinish(c, out) \/ AeadVerify(c, out)
  <2>1. PICK out \in Outputs : Complete(c, out)
    BY <1>10 DEF AeadFinish, AeadVerify
  <2>2. FinalChecks(c) /\ result'.given = given[c] /\ AbortFrom(GcmFinish(drv, c), c)
    BY <2>1 DEF Complete
  <2>3. DeclaredLengthsHold'
    BY <1>1, <2>2 DEF FinalChecks, Accounted, DeclaredLengthsHold, OperationObjects, Amounts
  <2> QED
    BY <1>4, <2>2, <2>3
<1>11. CASE \E out \in Outputs : HardwareFails(c, out)
  BY <1>3, <1>4, <1>11 DEF HardwareFails, NoHardwareRun
<1>12. CASE Fail(c)
  BY <1>3, <1>4, <1>12 DEF Fail, Abort, NoHardwareRun
<1> QED
  BY <1>5, <1>6, <1>7, <1>8, <1>9, <1>10, <1>11, <1>12 DEF AeadNext

(* A step of a direct caller or of the ECB driver does not finish an       *)
(* operation.                                                              *)
LEMMA CallersAreNotAccounted ==
    ASSUME LengthsInv, GcmNext, UNCHANGED <<op, given>>
    PROVE  LengthsInv'
<1>1. result' = NoResult \/ result'.ctx \in Direct
  <2>1. ASSUME NEW c \in Direct, NEW out, Finish(c, out)
        PROVE  result'.ctx \in Direct
    BY <2>1 DEF Finish
  <2> QED
    BY <2>1
    DEF GcmNext, InitContext, SetKey, Starts, UpdateAd, Update, OneShot, FreeContext, EcbCrypt, WriteBuffer
<1>2. DeclaredLengthsHold'
  BY <1>1, NamesAssumption, SMTT(30) DEF DeclaredLengthsHold, NoResult
<1> QED
  BY <1>2, SMTT(30) DEF LengthsInv

(* psa_aead_finish() and psa_aead_verify() succeed only when the declared  *)
(* lengths are what was passed, in any order of calls.                     *)
THEOREM LengthsAreAsDeclared == AeadSpec => []DeclaredLengthsHold
<1>1. AeadInit => LengthsInv
  BY DEF AeadInit, GcmInitState, LengthsInv, Accounted, Idle, NothingGiven, Amounts, DeclaredLengthsHold, NoResult
<1>2. AeadInv /\ LengthsInv /\ [PsaAeadNext]_aeadVars => LengthsInv'
  <2>1. UNCHANGED aeadVars /\ LengthsInv => LengthsInv'
    BY DEF aeadVars, gcmVars, LengthsInv, DeclaredLengthsHold
  <2> QED
    BY <2>1, OperationIsAccounted, CallersAreNotAccounted DEF PsaAeadNext
<1>3. LengthsInv => DeclaredLengthsHold
  BY DEF LengthsInv
<1> QED
  BY <1>1, <1>2, <1>3, AeadInvariant, PTL DEF AeadSpec

-----------------------------------------------------------------------------
(* PsaSeTransaction: outside of the slot of the call in progress           *)
(* everything is settled while the library is up, that is, the three       *)
(* places agree and the driver's marks in memory are those in storage.  A  *)
(* step changes only the slot of its call, and from the first change on    *)
(* the record names it.                                                    *)

Creating == call.op \in {"create", "register"}
Destroying == call.op = "destroy"

(* Which steps belong to which call; only a creation that got no slot has  *)
(* none.                                                                   *)
CallShape ==
    /\ call # NoCall => up /\ call.id \in KeyIds
    /\ call.op = "none" <=> call.step = "none"
    /\ call.op = "none" => call = NoCall
    /\ call.step = "fill" => call.op = "create"
    /\ call.step = "save_transaction" => psa_crypto_transaction # "NONE"
    /\ call.step \in {"save_file", "abort"} => Creating
    /\ call.step \in {"destroy_se", "save_se_data", "remove_file"} => Destroying
    /\ call.slot = None => call = NoCall \/ (call.op = "create" /\ call.step = "abort")

(* From the moment a call may change storage or the element the record     *)
(* names its slot.                                                         *)
RecordIsOwn ==
    \/ call.step \in {"fill", "save_file", "save_data", "destroy_se", "save_se_data", "remove_file"}
    \/ call.step = "stop" /\ Creating
    => record # None /\ record.slot = call.slot

(* The marks of the driver are saved, and the three places agree.          *)
Settled(s) == Agreed(s) /\ (s \in persistent_data <=> s \in saved_data)
OthersAreSettled ==
    up => \A s \in SeSlots \ given_up : s # call.slot => Settled(s)

(* What a creation in progress found and did so far.                       *)
CreationIsClean ==
    Creating /\ call.slot # None =>
        /\ call.slot \in persistent_data
        /\ slots[call.id] = None /\ call.id \notin durable
        /\ file[call.id] \in {None, call.slot}
        /\ call.step \in {"save_transaction", "fill", "save_file"} => file[call.id] = None
        /\ call.step \in {"save_transaction", "fill"} /\ call.op = "create" /\ call.slot \notin given_up =>
             \A id \in KeyIds : file[id] # call.slot
        /\ call.step \in {"save_file", "save_data", "stop"} => element[call.slot] = call.id
        /\ call.op = "register" => element[call.slot] = call.id
        /\ call.step = "stop" => call.slot \in saved_data

(* What a key slot in memory says about the key file.                      *)
MemoryMatchesFiles ==
    \A id \in KeyIds :
        slots[id] # None =>
            /\ file[id] \in {None, slots[id]}
            /\ slots[id] \in given_up \/ file[id] = slots[id] \/ (Destroying /\ call.id = id)

(* The key that is destroyed is no durable key any more.                   *)
DestructionIsClean ==
    Destroying => call.id \notin durable /\ file[call.id] \in {None, call.slot}

(* A slot that only its durable key ever named is not that of the call in  *)
(* progress, and the driver in memory has it marked.                       *)
DurableIsApart ==
    /\ Contested \subseteq shared
    /\ \A id \in durable :
          NumberOf(id) \notin shared =>
              NumberOf(id) # call.slot /\ (up => NumberOf(id) \in persistent_data)

SeInv ==
    /\ TypeOK
    /\ CallShape
    /\ RecordIsOwn
    /\ OthersAreSettled
    /\ CreationIsClean
    /\ MemoryMatchesFiles
    /\ DestructionIsClean
    /\ JournalCoversDamage
    /\ DurableKeysStay
    /\ DurableIsApart

-----------------------------------------------------------------------------
(* What it means that the three places agree, now and after a step.        *)
LEMMA AgreedMeans ==
    ASSUME TypeOK, NEW s \in SeSlots
    PROVE  Agreed(s) <=>
             \/ /\ \A id \in KeyIds : file[id] # s
                /\ element[s] = None /\ s \notin saved_data
             \/ /\ element[s] \in KeyIds /\ file[element[s]] = s
                /\ \A id \in KeyIds : file[id] = s => id = element[s]
                /\ s \in saved_data
BY SeConstants DEF Agreed, TypeOK

\* What it means that the three places agree after a step.
LEMMA AgreedMeansAfter ==
    ASSUME TypeOK', NEW s \in SeSlots
    PROVE  Agreed(s)' <=>
             \/ /\ \A id \in KeyIds : file'[id] # s
                /\ element'[s] = None /\ s \notin saved_data'
             \/ /\ element'[s] \in KeyIds /\ file'[element'[s]] = s
                /\ \A id \in KeyIds : file'[id] = s => id = element'[s]
                /\ s \in saved_data'
BY SeConstants DEF Agreed, TypeOK

\* A step that changes only the file of the call's key leaves every slot but
\* that of the call in the agreement it was in.
LEMMA OnlyItsSlotChanges ==
    ASSUME TypeOK, TypeOK', call.id \in KeyIds, file[call.id] \in {None, call.slot},
           file'[call.id] \in {None, call.slot},
           \A id \in KeyIds : id # call.id => file'[id] = file[id],
           NEW s \in SeSlots, s # call.slot, element'[s] = element[s],
           s \in saved_data' <=> s \in saved_data
    PROVE  Agreed(s)' <=> Agreed(s)
BY AgreedMeans, AgreedMeansAfter, SeConstants

\* Two keys with the same slot: it is shared.
LEMMA OneKeyNamesASlot ==
    ASSUME TypeOK, Contested \subseteq shared, NEW i \in KeyIds, NEW j \in KeyIds, i # j,
           NumberOf(i) = NumberOf(j), NumberOf(i) \in SeSlots
    PROVE  NumberOf(i) \in shared
BY DEF NumberOf, Contested

\* psa_start_key_creation() of a key in the element keeps the invariant: the
\* slot the driver allocates is settled.
LEMMA StartCreationKeeps ==
    ASSUME SeInv, NEW o \in {"create", "register"}, NEW i \in KeyIds, NEW n \in SeSlots,
           StartCreation(o, i, n),
           shared' = shared \cup Contested'
    PROVE  SeInv'
<1> USE SeConstants DEF Records, SaveTransaction, StopTransaction, storage, memory, history, At, GoTo, Return, NoCall, Creating, Destroying, StartCreation
<1>1. TypeOK'
  BY DEF SeInv, TypeOK, CallShape, Steps, LeftUndone, Named, Contested, LoseMemory
<1>2. \A s \in SeSlots : Agreed(s)' <=> Agreed(s)
  BY DEF Agreed
<1>3. CallShape'
  BY <1>1, <1>2 DEF SeInv, CallShape, TypeOK
<1>4. RecordIsOwn'
  BY <1>1, <1>2 DEF SeInv, RecordIsOwn, TypeOK, CallShape
<1>5. OthersAreSettled'
  BY <1>1, <1>2 DEF SeInv, OthersAreSettled, TypeOK, CallShape, Settled, LeftUndone, Named
<1>6. CreationIsClean'
  BY <1>1, <1>2 DEF SeInv, CreationIsClean, TypeOK, DurableKeysStay, NumberOf, OthersAreSettled, Settled, Agreed
<1>7. MemoryMatchesFiles'
  BY <1>1, <1>2 DEF SeInv, MemoryMatchesFiles, TypeOK, CallShape, CreationIsClean, DestructionIsClean
<1>8. DestructionIsClean'
  BY <1>1, <1>2 DEF SeInv, DestructionIsClean, TypeOK, CallShape, DurableKeysStay, MemoryMatchesFiles
<1>9. JournalCoversDamage'
  BY <1>1, <1>2 DEF SeInv, JournalCoversDamage, TypeOK, CallShape, RecordIsOwn, OthersAreSettled, Settled, Named, LeftUndone
<1>10. DurableKeysStay'
  BY <1>1 DEF SeInv, DurableKeysStay, DurableIsApart, NumberOf, TypeOK, CallShape, CreationIsClean, MemoryMatchesFiles, DestructionIsClean, LoseMemory
<1>11. DurableIsApart'
  BY <1>1 DEF SeInv, DurableKeysStay, DurableIsApart, NumberOf, TypeOK, CallShape, CreationIsClean, MemoryMatchesFiles, DestructionIsClean, LoseMemory
<1> QED
  BY <1>1, <1>3, <1>4, <1>5, <1>6, <1>7, <1>8, <1>9, <1>10, <1>11 DEF SeInv

\* A creation that gets no slot from the driver keeps the invariant.
LEMMA StartFailsKeeps ==
    ASSUME SeInv, NEW i \in KeyIds, StartFails(i),
           shared' = shared \cup Contested'
    PROVE  SeInv'
<1> USE SeConstants DEF Records, SaveTransaction, StopTransaction, storage, memory, history, At, GoTo, Return, NoCall, Creating, Destroying, StartFails
<1>1. TypeOK'
  BY DEF SeInv, TypeOK, CallShape, Steps, LeftUndone, Named, Contested, LoseMemory
<1>2. \A s \in SeSlots : Agreed(s)' <=> Agreed(s)
  BY DEF Agreed
<1>3. CallShape'
  BY <1>1, <1>2 DEF SeInv, CallShape, TypeOK
<1>4. RecordIsOwn'
  BY <1>1, <1>2 DEF SeInv, RecordIsOwn, TypeOK, CallShape
<1>5. OthersAreSettled'
  BY <1>1, <1>2 DEF SeInv, OthersAreSettled, TypeOK, CallShape, Settled, LeftUndone, Named
<1>6. CreationIsClean'
  BY <1>1, <1>2 DEF SeInv, CreationIsClean, TypeOK, CallShape, RecordIsOwn
<1>7. MemoryMatchesFiles'
  BY <1>1, <1>2 DEF SeInv, MemoryMatchesFiles, TypeOK, CallShape, CreationIsClean, DestructionIsClean
<1>8. DestructionIsClean'
  BY <1>1, <1>2 DEF SeInv, DestructionIsClean, TypeOK, CallShape, DurableKeysStay, MemoryMatchesFiles
<1>9. JournalCoversDamage'
  BY <1>1, <1>2 DEF SeInv, JournalCoversDamage, TypeOK, CallShape, RecordIsOwn, OthersAreSettled, Settled, Named, LeftUndone
<1>10. DurableKeysStay'
  BY <1>1 DEF SeInv, DurableKeysStay, DurableIsApart, NumberOf, TypeOK, CallShape, CreationIsClean, MemoryMatchesFiles, DestructionIsClean, LoseMemory
<1>11. DurableIsApart'
  BY <1>1 DEF SeInv, DurableKeysStay, DurableIsApart, NumberOf, TypeOK, CallShape, CreationIsClean, MemoryMatchesFiles, DestructionIsClean, LoseMemory
<1> QED
  BY <1>1, <1>3, <1>4, <1>5, <1>6, <1>7, <1>8, <1>9, <1>10, <1>11 DEF SeInv

\* psa_destroy_key() that finds its key keeps the invariant.
LEMMA StartDestructionKeeps ==
    ASSUME SeInv, NEW i \in KeyIds, StartDestruction(i),
           shared' = shared \cup Contested'
    PROVE  SeInv'
<1> USE SeConstants DEF Records, SaveTransaction, StopTransaction, storage, memory, history, At, GoTo, Return, NoCall, Creating, Destroying, StartDestruction, NumberOf
<1>1. TypeOK'
  BY DEF SeInv, TypeOK, CallShape, Steps, LeftUndone, Named, Contested, LoseMemory
<1>2. \A s \in SeSlots : Agreed(s)' <=> Agreed(s)
  BY DEF Agreed
<1>3. CallShape'
  BY <1>1, <1>2 DEF SeInv, CallShape, TypeOK
<1>4. RecordIsOwn'
  BY <1>1, <1>2 DEF SeInv, RecordIsOwn, TypeOK, CallShape
<1>5. OthersAreSettled'
  BY <1>1, <1>2 DEF SeInv, OthersAreSettled, TypeOK, CallShape, Settled, LeftUndone, Named
<1>6. CreationIsClean'
  BY <1>1, <1>2 DEF SeInv, CreationIsClean, TypeOK, CallShape, RecordIsOwn
<1>7. MemoryMatchesFiles'
  BY <1>1, <1>2 DEF SeInv, MemoryMatchesFiles, TypeOK, CallShape, CreationIsClean, DestructionIsClean
<1>8. DestructionIsClean'
  BY <1>1, <1>2 DEF SeInv, DestructionIsClean, TypeOK, MemoryMatchesFiles
<1>9. JournalCoversDamage'
  BY <1>1, <1>2 DEF SeInv, JournalCoversDamage, TypeOK, CallShape, RecordIsOwn, OthersAreSettled, Settled, Named, LeftUndone
<1>10. DurableKeysStay'
  BY <1>1 DEF SeInv, DurableKeysStay, DurableIsApart, NumberOf, TypeOK, CallShape, CreationIsClean, MemoryMatchesFiles, DestructionIsClean, LoseMemory
<1>11. DurableIsApart'
  <2>1. call'.id = i /\ call'.slot = NumberOf(i) /\ call'.slot \in SeSlots
    BY DEF SeInv, TypeOK
  <2>2. ASSUME NEW d \in durable'
        PROVE  /\ d \in durable /\ d # i /\ d \in KeyIds
               /\ NumberOf(d)' = NumberOf(d)
               /\ NumberOf(d) = call'.slot => NumberOf(d) \in shared
    <3>1. d \in durable /\ d # i /\ d \in KeyIds
      BY <2>2 DEF SeInv, TypeOK
    <3> HIDE DEF NumberOf
    <3>2. NumberOf(d) = call'.slot => NumberOf(d) \in shared
      BY <2>1, <3>1, OneKeyNamesASlot DEF SeInv, DurableIsApart
    <3> QED
      BY <3>1, <3>2 DEF NumberOf
  <2> HIDE DEF NumberOf
  <2>3. UNCHANGED <<up, persistent_data>>
    OBVIOUS
  <2> HIDE DEF StartDestruction
  <2> QED
    BY <1>1, <2>2, <2>3 DEF SeInv, DurableIsApart
<1> QED
  BY <1>1, <1>3, <1>4, <1>5, <1>6, <1>7, <1>8, <1>9, <1>10, <1>11 DEF SeInv

\* Writing the transaction file of a creation keeps the invariant: from here
\* on the record names the slot.
LEMMA CreateSavesTransactionKeeps ==
    ASSUME SeInv, CreateSavesTransaction,
           shared' = shared \cup Contested'
    PROVE  SeInv'
<1> USE SeConstants DEF Records, SaveTransaction, StopTransaction, storage, memory, history, At, GoTo, Return, NoCall, Creating, Destroying, CreateSavesTransaction
<1>1. TypeOK'
  BY DEF SeInv, TypeOK, CallShape, Steps, LeftUndone, Named, Contested, LoseMemory
<1>2. \A s \in SeSlots : Agreed(s)' <=> Agreed(s)
  BY DEF Agreed
<1>3. CallShape'
  BY <1>1, <1>2 DEF SeInv, CallShape, TypeOK
<1>4. RecordIsOwn'
  BY <1>1, <1>2 DEF SeInv, RecordIsOwn, TypeOK, CallShape
<1>5. OthersAreSettled'
  BY <1>1, <1>2 DEF SeInv, OthersAreSettled, TypeOK, CallShape, Settled, LeftUndone, Named
<1>6. CreationIsClean'
  BY <1>1, <1>2 DEF SeInv, CreationIsClean, TypeOK, CallShape, RecordIsOwn
<1>7. MemoryMatchesFiles'
  BY <1>1, <1>2 DEF SeInv, MemoryMatchesFiles, TypeOK, CallShape, CreationIsClean, DestructionIsClean
<1>8. DestructionIsClean'
  BY <1>1, <1>2 DEF SeInv, DestructionIsClean, TypeOK, CallShape, DurableKeysStay, MemoryMatchesFiles
<1>9. JournalCoversDamage'
  BY <1>1, <1>2 DEF SeInv, JournalCoversDamage, TypeOK, CallShape, RecordIsOwn, OthersAreSettled, Settled, Named, LeftUndone
<1>10. DurableKeysStay'
  BY <1>1 DEF SeInv, DurableKeysStay, DurableIsApart, NumberOf, TypeOK, CallShape, CreationIsClean, MemoryMatchesFiles, DestructionIsClean, LoseMemory
<1>11. DurableIsApart'
  BY <1>1 DEF SeInv, DurableKeysStay, DurableIsApart, NumberOf, TypeOK, CallShape, CreationIsClean, MemoryMatchesFiles, DestructionIsClean, LoseMemory
<1> QED
  BY <1>1, <1>3, <1>4, <1>5, <1>6, <1>7, <1>8, <1>9, <1>10, <1>11 DEF SeInv

\* Writing the transaction file of a destruction keeps the invariant.
LEMMA DestroySavesTransactionKeeps ==
    ASSUME SeInv, DestroySavesTransaction,
           shared' = shared \cup Contested'
    PROVE  SeInv'
<1> USE SeConstants DEF Records, SaveTransaction, StopTransaction, storage, memory, history, At, GoTo, Return, NoCall, Creating, Destroying, DestroySavesTransaction
<1>1. TypeOK'
  BY DEF SeInv, TypeOK, CallShape, Steps, LeftUndone, Named, Contested, LoseMemory
<1>2. \A s \in SeSlots : Agreed(s)' <=> Agreed(s)
  BY DEF Agreed
<1>3. CallShape'
  BY <1>1, <1>2 DEF SeInv, CallShape, TypeOK
<1>4. RecordIsOwn'
  BY <1>1, <1>2 DEF SeInv, RecordIsOwn, TypeOK, CallShape
<1>5. OthersAreSettled'
  BY <1>1, <1>2 DEF SeInv, OthersAreSettled, TypeOK, CallShape, Settled, LeftUndone, Named
<1>6. CreationIsClean'
  BY <1>1, <1>2 DEF SeInv, CreationIsClean, TypeOK, CallShape, RecordIsOwn
<1>7. MemoryMatchesFiles'
  BY <1>1, <1>2 DEF SeInv, MemoryMatchesFiles, TypeOK, CallShape, CreationIsClean, DestructionIsClean
<1>8. DestructionIsClean'
  BY <1>1, <1>2 DEF SeInv, DestructionIsClean, TypeOK, CallShape, DurableKeysStay, MemoryMatchesFiles
<1>9. JournalCoversDamage'
  BY <1>1, <1>2 DEF SeInv, JournalCoversDamage, TypeOK, CallShape, RecordIsOwn, OthersAreSettled, Settled, Named, LeftUndone
<1>10. DurableKeysStay'
  BY <1>1 DEF SeInv, DurableKeysStay, DurableIsApart, NumberOf, TypeOK, CallShape, CreationIsClean, MemoryMatchesFiles, DestructionIsClean, LoseMemory
<1>11. DurableIsApart'
  BY <1>1 DEF SeInv, DurableKeysStay, DurableIsApart, NumberOf, TypeOK, CallShape, CreationIsClean, MemoryMatchesFiles, DestructionIsClean, LoseMemory
<1> QED
  BY <1>1, <1>3, <1>4, <1>5, <1>6, <1>7, <1>8, <1>9, <1>10, <1>11 DEF SeInv

\* Importing or generating the key in the element, which may fail, keeps the
\* invariant.
LEMMA FillElementKeeps ==
    ASSUME SeInv, NEW ok \in BOOLEAN, NEW checked \in BOOLEAN, FillElement(ok, checked),
           shared' = shared \cup Contested'
    PROVE  SeInv'
<1> USE SeConstants DEF Records, SaveTransaction, StopTransaction, storage, memory, history, At, GoTo, Return, NoCall, Creating, Destroying, FillElement
<1>1. TypeOK'
  BY DEF SeInv, TypeOK, CallShape, Steps, LeftUndone, Named, Contested, LoseMemory
<1>2. \A s \in SeSlots \ given_up : s # call.slot =>
            Agreed(s)' /\ (s \in persistent_data' <=> s \in saved_data')
  BY <1>1, OnlyItsSlotChanges DEF SeInv, TypeOK, CallShape, CreationIsClean, DestructionIsClean, OthersAreSettled, Settled
<1>3. CallShape'
  BY <1>1, <1>2 DEF SeInv, CallShape, TypeOK
<1>4. RecordIsOwn'
  BY <1>1, <1>2 DEF SeInv, RecordIsOwn, TypeOK, CallShape
<1>5. OthersAreSettled'
  BY <1>1, <1>2 DEF SeInv, OthersAreSettled, TypeOK, CallShape, Settled, LeftUndone, Named
<1>6. CreationIsClean'
  BY <1>1, <1>2 DEF SeInv, CreationIsClean, TypeOK, CallShape, RecordIsOwn
<1>7. MemoryMatchesFiles'
  BY <1>1, <1>2 DEF SeInv, MemoryMatchesFiles, TypeOK, CallShape, CreationIsClean, DestructionIsClean
<1>8. DestructionIsClean'
  BY <1>1, <1>2 DEF SeInv, DestructionIsClean, TypeOK, CallShape, DurableKeysStay, MemoryMatchesFiles
<1>9. JournalCoversDamage'
  BY <1>1, <1>2 DEF SeInv, JournalCoversDamage, TypeOK, CallShape, RecordIsOwn, OthersAreSettled, Settled, Named, LeftUndone
<1>10. DurableKeysStay'
  BY <1>1 DEF SeInv, DurableKeysStay, DurableIsApart, NumberOf, TypeOK, CallShape, CreationIsClean, MemoryMatchesFiles, DestructionIsClean, LoseMemory
<1>11. DurableIsApart'
  BY <1>1 DEF SeInv, DurableKeysStay, DurableIsApart, NumberOf, TypeOK, CallShape, CreationIsClean, MemoryMatchesFiles, DestructionIsClean, LoseMemory
<1> QED
  BY <1>1, <1>3, <1>4, <1>5, <1>6, <1>7, <1>8, <1>9, <1>10, <1>11 DEF SeInv

\* Writing the key file, which may fail, keeps the invariant.
LEMMA SaveFileKeeps ==
    ASSUME SeInv, NEW ok \in BOOLEAN, SaveFile(ok),
           shared' = shared \cup Contested'
    PROVE  SeInv'
<1> USE SeConstants DEF Records, SaveTransaction, StopTransaction, storage, memory, history, At, GoTo, Return, NoCall, Creating, Destroying, SaveFile
<1>1. TypeOK'
  BY DEF SeInv, TypeOK, CallShape, Steps, LeftUndone, Named, Contested, LoseMemory
<1>2. \A s \in SeSlots \ given_up : s # call.slot =>
            Agreed(s)' /\ (s \in persistent_data' <=> s \in saved_data')
  BY <1>1, OnlyItsSlotChanges DEF SeInv, TypeOK, CallShape, CreationIsClean, DestructionIsClean, OthersAreSettled, Settled
<1>3. CallShape'
  BY <1>1, <1>2 DEF SeInv, CallShape, TypeOK
<1>4. RecordIsOwn'
  BY <1>1, <1>2 DEF SeInv, RecordIsOwn, TypeOK, CallShape
<1>5. OthersAreSettled'
  BY <1>1, <1>2 DEF SeInv, OthersAreSettled, TypeOK, CallShape, Settled, LeftUndone, Named
<1>6. CreationIsClean'
  BY <1>1, <1>2 DEF SeInv, CreationIsClean, TypeOK, CallShape, RecordIsOwn
<1>7. MemoryMatchesFiles'
  BY <1>1, <1>2 DEF SeInv, MemoryMatchesFiles, TypeOK, CallShape, CreationIsClean, DestructionIsClean
<1>8. DestructionIsClean'
  BY <1>1, <1>2 DEF SeInv, DestructionIsClean, TypeOK, CallShape, DurableKeysStay, MemoryMatchesFiles
<1>9. JournalCoversDamage'
  BY <1>1, <1>2 DEF SeInv, JournalCoversDamage, TypeOK, CallShape, RecordIsOwn, OthersAreSettled, Settled, Named, LeftUndone
<1>10. DurableKeysStay'
  BY <1>1 DEF SeInv, DurableKeysStay, DurableIsApart, NumberOf, TypeOK, CallShape, CreationIsClean, MemoryMatchesFiles, DestructionIsClean, LoseMemory
<1>11. DurableIsApart'
  BY <1>1 DEF SeInv, DurableKeysStay, DurableIsApart, NumberOf, TypeOK, CallShape, CreationIsClean, MemoryMatchesFiles, DestructionIsClean, LoseMemory
<1> QED
  BY <1>1, <1>3, <1>4, <1>5, <1>6, <1>7, <1>8, <1>9, <1>10, <1>11 DEF SeInv

\* Saving the driver's persistent data at the end of a creation keeps the
\* invariant.
LEMMA SaveDataKeeps ==
    ASSUME SeInv, NEW ok \in BOOLEAN, NEW checked \in BOOLEAN, SaveData(ok, checked),
           shared' = shared \cup Contested'
    PROVE  SeInv'
<1> USE SeConstants DEF Records, SaveTransaction, StopTransaction, storage, memory, history, At, GoTo, Return, NoCall, Creating, Destroying, SaveData
<1>1. TypeOK'
  BY DEF SeInv, TypeOK, CallShape, Steps, LeftUndone, Named, Contested, LoseMemory
<1>2. \A s \in SeSlots \ given_up : s # call.slot =>
            Agreed(s)' /\ (s \in persistent_data' <=> s \in saved_data')
  BY <1>1, OnlyItsSlotChanges DEF SeInv, TypeOK, CallShape, CreationIsClean, DestructionIsClean, OthersAreSettled, Settled
<1>3. CallShape'
  BY <1>1, <1>2 DEF SeInv, CallShape, TypeOK
<1>4. RecordIsOwn'
  BY <1>1, <1>2 DEF SeInv, RecordIsOwn, TypeOK, CallShape
<1>5. OthersAreSettled'
  BY <1>1, <1>2 DEF SeInv, OthersAreSettled, TypeOK, CallShape, Settled, LeftUndone, Named
<1>6. CreationIsClean'
  BY <1>1, <1>2 DEF SeInv, CreationIsClean, TypeOK, CallShape, RecordIsOwn
<1>7. MemoryMatchesFiles'
  BY <1>1, <1>2 DEF SeInv, MemoryMatchesFiles, TypeOK, CallShape, CreationIsClean, DestructionIsClean
<1>8. DestructionIsClean'
  BY <1>1, <1>2 DEF SeInv, DestructionIsClean, TypeOK, CallShape, DurableKeysStay, MemoryMatchesFiles
<1>9. JournalCoversDamage'
  BY <1>1, <1>2 DEF SeInv, JournalCoversDamage, TypeOK, CallShape, RecordIsOwn, OthersAreSettled, Settled, Named, LeftUndone
<1>10. DurableKeysStay'
  BY <1>1 DEF SeInv, DurableKeysStay, DurableIsApart, NumberOf, TypeOK, CallShape, CreationIsClean, MemoryMatchesFiles, DestructionIsClean, LoseMemory
<1>11. DurableIsApart'
  BY <1>1 DEF SeInv, DurableKeysStay, DurableIsApart, NumberOf, TypeOK, CallShape, CreationIsClean, MemoryMatchesFiles, DestructionIsClean, LoseMemory
<1> QED
  BY <1>1, <1>3, <1>4, <1>5, <1>6, <1>7, <1>8, <1>9, <1>10, <1>11 DEF SeInv

\* Removing the transaction file at the end of a creation keeps the
\* invariant: the three places agree by then, or the slot is given up.
LEMMA StopCreationKeeps ==
    ASSUME SeInv, NEW ok \in BOOLEAN, StopCreation(ok),
           shared' = shared \cup Contested'
    PROVE  SeInv'
<1> USE SeConstants DEF Records, SaveTransaction, StopTransaction, storage, memory, history, At, GoTo, Return, NoCall, Creating, Destroying, StopCreation
<1>1. TypeOK'
  BY DEF SeInv, TypeOK, CallShape, Steps, LeftUndone, Named, Contested, LoseMemory
<1>2. \A s \in SeSlots : Agreed(s)' <=> Agreed(s)
  BY DEF Agreed
<1>own. ok /\ call.slot \notin given_up' => file[call.id] = call.slot /\ call.slot \in saved_data
  <2>1. call.slot \in SeSlots /\ call.id \in KeyIds /\ element[call.slot] = call.id
    BY DEF SeInv, TypeOK, CallShape, CreationIsClean
  <2>2. ok /\ call.slot \notin given_up' => Agreed(call.slot)
    BY <2>1 DEF LeftUndone
  <2> QED
    BY <2>1, <2>2, AgreedMeans DEF SeInv
<1>3. CallShape'
  BY <1>1, <1>2 DEF SeInv, CallShape, TypeOK
<1>4. RecordIsOwn'
  BY <1>1, <1>2 DEF SeInv, RecordIsOwn, TypeOK, CallShape
<1>5. OthersAreSettled'
  BY <1>1, <1>2 DEF SeInv, OthersAreSettled, TypeOK, CallShape, Settled, LeftUndone, Named
<1>6. CreationIsClean'
  BY <1>1, <1>2 DEF SeInv, CreationIsClean, TypeOK, CallShape, RecordIsOwn
<1>7. MemoryMatchesFiles'
  BY <1>1, <1>own DEF SeInv, MemoryMatchesFiles, TypeOK, CallShape, CreationIsClean, DestructionIsClean
<1>8. DestructionIsClean'
  BY <1>1, <1>2 DEF SeInv, DestructionIsClean, TypeOK, CallShape, DurableKeysStay, MemoryMatchesFiles
<1>9. JournalCoversDamage'
  BY <1>1, <1>2 DEF SeInv, JournalCoversDamage, TypeOK, CallShape, RecordIsOwn, OthersAreSettled, Settled, Named, LeftUndone
<1>10. DurableKeysStay'
  BY <1>1 DEF SeInv, DurableKeysStay, DurableIsApart, NumberOf, TypeOK, CallShape, CreationIsClean, MemoryMatchesFiles, DestructionIsClean, LoseMemory
<1>11. DurableIsApart'
  BY <1>1 DEF SeInv, DurableKeysStay, DurableIsApart, NumberOf, TypeOK, CallShape, CreationIsClean, MemoryMatchesFiles, DestructionIsClean, LoseMemory
<1> QED
  BY <1>1, <1>3, <1>4, <1>5, <1>6, <1>7, <1>8, <1>9, <1>10, <1>11 DEF SeInv

\* psa_fail_key_creation() keeps the invariant.
LEMMA FailCreationKeeps ==
    ASSUME SeInv, NEW ok \in BOOLEAN, FailCreation(ok),
           shared' = shared \cup Contested'
    PROVE  SeInv'
<1> USE SeConstants DEF Records, SaveTransaction, StopTransaction, storage, memory, history, At, GoTo, Return, NoCall, Creating, Destroying, FailCreation
<1>1. TypeOK'
  BY DEF SeInv, TypeOK, CallShape, Steps, LeftUndone, Named, Contested, LoseMemory
<1>2. \A s \in SeSlots : Agreed(s)' <=> Agreed(s)
  BY DEF Agreed
<1>3. CallShape'
  BY <1>1, <1>2 DEF SeInv, CallShape, TypeOK
<1>4. RecordIsOwn'
  BY <1>1, <1>2 DEF SeInv, RecordIsOwn, TypeOK, CallShape
<1>5. OthersAreSettled'
  BY <1>1, <1>2 DEF SeInv, OthersAreSettled, TypeOK, CallShape, Settled, LeftUndone, Named
<1>6. CreationIsClean'
  BY <1>1, <1>2 DEF SeInv, CreationIsClean, TypeOK, CallShape, RecordIsOwn
<1>7. MemoryMatchesFiles'
  BY <1>1, <1>2 DEF SeInv, MemoryMatchesFiles, TypeOK, CallShape, CreationIsClean, DestructionIsClean
<1>8. DestructionIsClean'
  BY <1>1, <1>2 DEF SeInv, DestructionIsClean, TypeOK, CallShape, DurableKeysStay, MemoryMatchesFiles
<1>9. JournalCoversDamage'
  BY <1>1, <1>2 DEF SeInv, JournalCoversDamage, TypeOK, CallShape, RecordIsOwn, OthersAreSettled, Settled, Named, LeftUndone
<1>10. DurableKeysStay'
  BY <1>1 DEF SeInv, DurableKeysStay, DurableIsApart, NumberOf, TypeOK, CallShape, CreationIsClean, MemoryMatchesFiles, DestructionIsClean, LoseMemory
<1>11. DurableIsApart'
  BY <1>1 DEF SeInv, DurableKeysStay, DurableIsApart, NumberOf, TypeOK, CallShape, CreationIsClean, MemoryMatchesFiles, DestructionIsClean, LoseMemory
<1> QED
  BY <1>1, <1>3, <1>4, <1>5, <1>6, <1>7, <1>8, <1>9, <1>10, <1>11 DEF SeInv

\* Destroying the key in the element, which may fail, keeps the invariant.
LEMMA DestroyInElementKeeps ==
    ASSUME SeInv, NEW ok \in BOOLEAN, DestroyInElement(ok),
           shared' = shared \cup Contested'
    PROVE  SeInv'
<1> USE SeConstants DEF Records, SaveTransaction, StopTransaction, storage, memory, history, At, GoTo, Return, NoCall, Creating, Destroying, DestroyInElement
<1>1. TypeOK'
  BY DEF SeInv, TypeOK, CallShape, Steps, LeftUndone, Named, Contested, LoseMemory
<1>2. \A s \in SeSlots \ given_up : s # call.slot =>
            Agreed(s)' /\ (s \in persistent_data' <=> s \in saved_data')
  BY <1>1, OnlyItsSlotChanges DEF SeInv, TypeOK, CallShape, CreationIsClean, DestructionIsClean, OthersAreSettled, Settled
<1>3. CallShape'
  BY <1>1, <1>2 DEF SeInv, CallShape, TypeOK
<1>4. RecordIsOwn'
  BY <1>1, <1>2 DEF SeInv, RecordIsOwn, TypeOK, CallShape
<1>5. OthersAreSettled'
  BY <1>1, <1>2 DEF SeInv, OthersAreSettled, TypeOK, CallShape, Settled, LeftUndone, Named
<1>6. CreationIsClean'
  BY <1>1, <1>2 DEF SeInv, CreationIsClean, TypeOK, CallShape, RecordIsOwn
<1>7. MemoryMatchesFiles'
  BY <1>1, <1>2 DEF SeInv, MemoryMatchesFiles, TypeOK, CallShape, CreationIsClean, DestructionIsClean
<1>8. DestructionIsClean'
  BY <1>1, <1>2 DEF SeInv, DestructionIsClean, TypeOK, CallShape, DurableKeysStay, MemoryMatchesFiles
<1>9. JournalCoversDamage'
  BY <1>1, <1>2 DEF SeInv, JournalCoversDamage, TypeOK, CallShape, RecordIsOwn, OthersAreSettled, Settled, Named, LeftUndone
<1>10. DurableKeysStay'
  BY <1>1 DEF SeInv, DurableKeysStay, DurableIsApart, NumberOf, TypeOK, CallShape, CreationIsClean, MemoryMatchesFiles, DestructionIsClean, LoseMemory
<1>11. DurableIsApart'
  BY <1>1 DEF SeInv, DurableKeysStay, DurableIsApart, NumberOf, TypeOK, CallShape, CreationIsClean, MemoryMatchesFiles, DestructionIsClean, LoseMemory
<1> QED
  BY <1>1, <1>3, <1>4, <1>5, <1>6, <1>7, <1>8, <1>9, <1>10, <1>11 DEF SeInv

\* Saving the driver's persistent data in a destruction keeps the invariant.
LEMMA SaveDataAgainKeeps ==
    ASSUME SeInv, NEW ok \in BOOLEAN, SaveDataAgain(ok),
           shared' = shared \cup Contested'
    PROVE  SeInv'
<1> USE SeConstants DEF Records, SaveTransaction, StopTransaction, storage, memory, history, At, GoTo, Return, NoCall, Creating, Destroying, SaveDataAgain
<1>1. TypeOK'
  BY DEF SeInv, TypeOK, CallShape, Steps, LeftUndone, Named, Contested, LoseMemory
<1>2. \A s \in SeSlots \ given_up : s # call.slot =>
            Agreed(s)' /\ (s \in persistent_data' <=> s \in saved_data')
  BY <1>1, OnlyItsSlotChanges DEF SeInv, TypeOK, CallShape, CreationIsClean, DestructionIsClean, OthersAreSettled, Settled
<1>3. CallShape'
  BY <1>1, <1>2 DEF SeInv, CallShape, TypeOK
<1>4. RecordIsOwn'
  BY <1>1, <1>2 DEF SeInv, RecordIsOwn, TypeOK, CallShape
<1>5. OthersAreSettled'
  BY <1>1, <1>2 DEF SeInv, OthersAreSettled, TypeOK, CallShape, Settled, LeftUndone, Named
<1>6. CreationIsClean'
  BY <1>1, <1>2 DEF SeInv, CreationIsClean, TypeOK, CallShape, RecordIsOwn
<1>7. MemoryMatchesFiles'
  BY <1>1, <1>2 DEF SeInv, MemoryMatchesFiles, TypeOK, CallShape, CreationIsClean, DestructionIsClean
<1>8. DestructionIsClean'
  BY <1>1, <1>2 DEF SeInv, DestructionIsClean, TypeOK, CallShape, DurableKeysStay, MemoryMatchesFiles
<1>9. JournalCoversDamage'
  BY <1>1, <1>2 DEF SeInv, JournalCoversDamage, TypeOK, CallShape, RecordIsOwn, OthersAreSettled, Settled, Named, LeftUndone
<1>10. DurableKeysStay'
  BY <1>1 DEF SeInv, DurableKeysStay, DurableIsApart, NumberOf, TypeOK, CallShape, CreationIsClean, MemoryMatchesFiles, DestructionIsClean, LoseMemory
<1>11. DurableIsApart'
  BY <1>1 DEF SeInv, DurableKeysStay, DurableIsApart, NumberOf, TypeOK, CallShape, CreationIsClean, MemoryMatchesFiles, DestructionIsClean, LoseMemory
<1> QED
  BY <1>1, <1>3, <1>4, <1>5, <1>6, <1>7, <1>8, <1>9, <1>10, <1>11 DEF SeInv

\* Removing the key file, which may fail, keeps the invariant.
LEMMA RemoveFileKeeps ==
    ASSUME SeInv, NEW ok \in BOOLEAN, RemoveFile(ok),
           shared' = shared \cup Contested'
    PROVE  SeInv'
<1> USE SeConstants DEF Records, SaveTransaction, StopTransaction, storage, memory, history, At, GoTo, Return, NoCall, Creating, Destroying, RemoveFile
<1>1. TypeOK'
  BY DEF SeInv, TypeOK, CallShape, Steps, LeftUndone, Named, Contested, LoseMemory
<1>2. \A s \in SeSlots \ given_up : s # call.slot =>
            Agreed(s)' /\ (s \in persistent_data' <=> s \in saved_data')
  BY <1>1, OnlyItsSlotChanges DEF SeInv, TypeOK, CallShape, CreationIsClean, DestructionIsClean, OthersAreSettled, Settled
<1>3. CallShape'
  BY <1>1, <1>2 DEF SeInv, CallShape, TypeOK
<1>4. RecordIsOwn'
  BY <1>1, <1>2 DEF SeInv, RecordIsOwn, TypeOK, CallShape
<1>5. OthersAreSettled'
  BY <1>1, <1>2 DEF SeInv, OthersAreSettled, TypeOK, CallShape, Settled, LeftUndone, Named
<1>6. CreationIsClean'
  BY <1>1, <1>2 DEF SeInv, CreationIsClean, TypeOK, CallShape, RecordIsOwn
<1>7. MemoryMatchesFiles'
  BY <1>1, <1>2 DEF SeInv, MemoryMatchesFiles, TypeOK, CallShape, CreationIsClean, DestructionIsClean
<1>8. DestructionIsClean'
  BY <1>1, <1>2 DEF SeInv, DestructionIsClean, TypeOK, CallShape, DurableKeysStay, MemoryMatchesFiles
<1>9. JournalCoversDamage'
  BY <1>1, <1>2 DEF SeInv, JournalCoversDamage, TypeOK, CallShape, RecordIsOwn, OthersAreSettled, Settled, Named, LeftUndone
<1>10. DurableKeysStay'
  BY <1>1 DEF SeInv, DurableKeysStay, DurableIsApart, NumberOf, TypeOK, CallShape, CreationIsClean, MemoryMatchesFiles, DestructionIsClean, LoseMemory
<1>11. DurableIsApart'
  BY <1>1 DEF SeInv, DurableKeysStay, DurableIsApart, NumberOf, TypeOK, CallShape, CreationIsClean, MemoryMatchesFiles, DestructionIsClean, LoseMemory
<1> QED
  BY <1>1, <1>3, <1>4, <1>5, <1>6, <1>7, <1>8, <1>9, <1>10, <1>11 DEF SeInv

\* Removing the transaction file at the end of a destruction keeps the
\* invariant.
LEMMA StopDestructionKeeps ==
    ASSUME SeInv, NEW ok \in BOOLEAN, StopDestruction(ok),
           shared' = shared \cup Contested'
    PROVE  SeInv'
<1> USE SeConstants DEF Records, SaveTransaction, StopTransaction, storage, memory, history, At, GoTo, Return, NoCall, Creating, Destroying, StopDestruction
<1>1. TypeOK'
  BY DEF SeInv, TypeOK, CallShape, Steps, LeftUndone, Named, Contested, LoseMemory
<1>2. \A s \in SeSlots : Agreed(s)' <=> Agreed(s)
  BY DEF Agreed
<1>3. CallShape'
  BY <1>1, <1>2 DEF SeInv, CallShape, TypeOK
<1>4. RecordIsOwn'
  BY <1>1, <1>2 DEF SeInv, RecordIsOwn, TypeOK, CallShape
<1>5. OthersAreSettled'
  BY <1>1, <1>2 DEF SeInv, OthersAreSettled, TypeOK, CallShape, Settled, LeftUndone, Named
<1>6. CreationIsClean'
  BY <1>1, <1>2 DEF SeInv, CreationIsClean, TypeOK, CallShape, RecordIsOwn
<1>7. MemoryMatchesFiles'
  BY <1>1, <1>2 DEF SeInv, MemoryMatchesFiles, TypeOK, CallShape, CreationIsClean, DestructionIsClean
<1>8. DestructionIsClean'
  BY <1>1, <1>2 DEF SeInv, DestructionIsClean, TypeOK, CallShape, DurableKeysStay, MemoryMatchesFiles
<1>9. JournalCoversDamage'
  BY <1>1, <1>2 DEF SeInv, JournalCoversDamage, TypeOK, CallShape, RecordIsOwn, OthersAreSettled, Settled, Named, LeftUndone
<1>10. DurableKeysStay'
  BY <1>1 DEF SeInv, DurableKeysStay, DurableIsApart, NumberOf, TypeOK, CallShape, CreationIsClean, MemoryMatchesFiles, DestructionIsClean, LoseMemory
<1>11. DurableIsApart'
  BY <1>1 DEF SeInv, DurableKeysStay, DurableIsApart, NumberOf, TypeOK, CallShape, CreationIsClean, MemoryMatchesFiles, DestructionIsClean, LoseMemory
<1> QED
  BY <1>1, <1>3, <1>4, <1>5, <1>6, <1>7, <1>8, <1>9, <1>10, <1>11 DEF SeInv

\* Start-up with or without a transaction to recover keeps the invariant.
LEMMA CryptoInitKeeps ==
    ASSUME SeInv, NEW ok \in BOOLEAN, CryptoInit(ok),
           shared' = shared \cup Contested'
    PROVE  SeInv'
<1> USE SeConstants DEF Records, SaveTransaction, StopTransaction, storage, memory, history, At, GoTo, Return, NoCall, Creating, Destroying, CryptoInit
<1>1. TypeOK'
  <2>1. CASE record = None
    BY <2>1 DEF SeInv, TypeOK, Contested
  <2>2. CASE record # None
    BY <2>2 DEF SeInv, TypeOK, LeftUndone, Named, Contested, LoseMemory
  <2> QED
    BY <2>1, <2>2
<1>2. \A s \in SeSlots : Agreed(s)' <=> Agreed(s)
  BY DEF Agreed
<1>3. CallShape'
  BY <1>1, <1>2 DEF SeInv, CallShape, TypeOK
<1>4. RecordIsOwn'
  BY <1>1, <1>2 DEF SeInv, RecordIsOwn, TypeOK, CallShape
<1>5. OthersAreSettled'
  BY <1>1, <1>2 DEF SeInv, OthersAreSettled, TypeOK, JournalCoversDamage, Settled, LeftUndone, Named
<1>6. CreationIsClean'
  BY <1>1, <1>2 DEF SeInv, CreationIsClean, TypeOK, CallShape, RecordIsOwn
<1>7. MemoryMatchesFiles'
  BY <1>1, <1>2 DEF SeInv, MemoryMatchesFiles, TypeOK, CallShape, CreationIsClean, DestructionIsClean, LoseMemory
<1>8. DestructionIsClean'
  BY <1>1, <1>2 DEF SeInv, DestructionIsClean, TypeOK, CallShape, DurableKeysStay, MemoryMatchesFiles
<1>9. JournalCoversDamage'
  BY <1>1, <1>2 DEF SeInv, JournalCoversDamage, TypeOK, CallShape, RecordIsOwn, OthersAreSettled, Settled, Named, LeftUndone
<1>10. DurableKeysStay'
  BY <1>1 DEF SeInv, DurableKeysStay, DurableIsApart, NumberOf, TypeOK, CallShape, CreationIsClean, MemoryMatchesFiles, DestructionIsClean, LoseMemory
<1>11. DurableIsApart'
  BY <1>1 DEF SeInv, DurableKeysStay, DurableIsApart, NumberOf, TypeOK, CallShape, CreationIsClean, MemoryMatchesFiles, DestructionIsClean, LoseMemory
<1> QED
  BY <1>1, <1>3, <1>4, <1>5, <1>6, <1>7, <1>8, <1>9, <1>10, <1>11 DEF SeInv

\* psa_purge_key() keeps the invariant: a key that has no file is durable no
\* more.
LEMMA PurgeKeyKeeps ==
    ASSUME SeInv, NEW i \in KeyIds, PurgeKey(i),
           shared' = shared \cup Contested'
    PROVE  SeInv'
<1> USE SeConstants DEF Records, SaveTransaction, StopTransaction, storage, memory, history, At, GoTo, Return, NoCall, Creating, Destroying, PurgeKey
<1>1. TypeOK'
  BY DEF SeInv, TypeOK, CallShape, Steps, LeftUndone, Named, Contested, LoseMemory
<1>2. \A s \in SeSlots : Agreed(s)' <=> Agreed(s)
  BY DEF Agreed
<1>3. CallShape'
  BY <1>1, <1>2 DEF SeInv, CallShape, TypeOK
<1>4. RecordIsOwn'
  BY <1>1, <1>2 DEF SeInv, RecordIsOwn, TypeOK, CallShape
<1>5. OthersAreSettled'
  BY <1>1, <1>2 DEF SeInv, OthersAreSettled, TypeOK, CallShape, Settled, LeftUndone, Named
<1>6. CreationIsClean'
  BY <1>1, <1>2 DEF SeInv, CreationIsClean, TypeOK, CallShape, RecordIsOwn
<1>7. MemoryMatchesFiles'
  BY <1>1, <1>2 DEF SeInv, MemoryMatchesFiles, TypeOK, CallShape, CreationIsClean, DestructionIsClean
<1>8. DestructionIsClean'
  BY <1>1, <1>2 DEF SeInv, DestructionIsClean, TypeOK, CallShape, DurableKeysStay, MemoryMatchesFiles
<1>9. JournalCoversDamage'
  BY <1>1, <1>2 DEF SeInv, JournalCoversDamage, TypeOK, CallShape, RecordIsOwn, OthersAreSettled, Settled, Named, LeftUndone
<1>10. DurableKeysStay'
  BY <1>1 DEF SeInv, DurableKeysStay, DurableIsApart, NumberOf, TypeOK, CallShape, CreationIsClean, MemoryMatchesFiles, DestructionIsClean, LoseMemory
<1>11. DurableIsApart'
  BY <1>1 DEF SeInv, DurableKeysStay, DurableIsApart, NumberOf, TypeOK, CallShape, CreationIsClean, MemoryMatchesFiles, DestructionIsClean, LoseMemory
<1> QED
  BY <1>1, <1>3, <1>4, <1>5, <1>6, <1>7, <1>8, <1>9, <1>10, <1>11 DEF SeInv

\* A loss of power between two writes keeps the invariant: the record names
\* the slot of the call, or nothing was changed yet.
LEMMA CrashKeeps ==
    ASSUME SeInv, Crash,
           shared' = shared \cup Contested'
    PROVE  SeInv'
<1> USE SeConstants DEF Records, SaveTransaction, StopTransaction, storage, memory, history, At, GoTo, Return, NoCall, Creating, Destroying, Crash
<1>1. TypeOK'
  BY DEF SeInv, TypeOK, CallShape, Steps, LeftUndone, Named, Contested, LoseMemory
<1>2. \A s \in SeSlots : Agreed(s)' <=> Agreed(s)
  BY DEF Agreed
<1>3. CallShape'
  BY <1>1, <1>2 DEF SeInv, CallShape, TypeOK
<1>4. RecordIsOwn'
  BY <1>1, <1>2 DEF SeInv, RecordIsOwn, TypeOK, CallShape
<1>5. OthersAreSettled'
  BY <1>1, <1>2 DEF SeInv, OthersAreSettled, TypeOK, CallShape, Settled, LeftUndone, Named
<1>6. CreationIsClean'
  BY <1>1, <1>2 DEF SeInv, CreationIsClean, TypeOK, CallShape, RecordIsOwn
<1>7. MemoryMatchesFiles'
  BY <1>1, <1>2 DEF SeInv, MemoryMatchesFiles, TypeOK, CallShape, CreationIsClean, DestructionIsClean, LoseMemory
<1>8. DestructionIsClean'
  BY <1>1, <1>2 DEF SeInv, DestructionIsClean, TypeOK, CallShape, DurableKeysStay, MemoryMatchesFiles
<1>9. JournalCoversDamage'
  BY <1>1, <1>2 DEF SeInv, JournalCoversDamage, TypeOK, CallShape, RecordIsOwn, OthersAreSettled, Settled, Named, LeftUndone
<1>10. DurableKeysStay'
  BY <1>1 DEF SeInv, DurableKeysStay, DurableIsApart, NumberOf, TypeOK, CallShape, CreationIsClean, MemoryMatchesFiles, DestructionIsClean, LoseMemory
<1>11. DurableIsApart'
  BY <1>1 DEF SeInv, DurableKeysStay, DurableIsApart, NumberOf, TypeOK, CallShape, CreationIsClean, MemoryMatchesFiles, DestructionIsClean, LoseMemory
<1> QED
  BY <1>1, <1>3, <1>4, <1>5, <1>6, <1>7, <1>8, <1>9, <1>10, <1>11 DEF SeInv

\* An element and a storage without keys satisfy the invariant.
LEMMA InitIsGood == Init => SeInv
<1> SUFFICES ASSUME Init PROVE SeInv
  OBVIOUS
<1>1. TypeOK
  BY DEF Init, TypeOK, NoCall, Steps
<1>2. \A s \in SeSlots : Agreed(s)
  BY <1>1, SeConstants, AgreedMeans DEF Init
<1> QED
  BY <1>1, <1>2, SeConstants
  DEF Init, SeInv, CallShape, RecordIsOwn, OthersAreSettled, CreationIsClean, MemoryMatchesFiles,
      DestructionIsClean, JournalCoversDamage, DurableKeysStay, DurableIsApart, Contested, NoCall, Creating, Destroying

(* Every step keeps the invariant.                                         *)
LEMMA StepKeeps == SeInv /\ [Next]_vars => SeInv'
<1> SUFFICES ASSUME SeInv, [Next]_vars PROVE SeInv'
  OBVIOUS
<1>1. CASE UNCHANGED vars
  <2>1. /\ \A s \in SeSlots : Agreed(s)' <=> Agreed(s)
        /\ \A id \in KeyIds : NumberOf(id)' = NumberOf(id)
        /\ Contested' = Contested
    BY <1>1 DEF Agreed, NumberOf, Contested, vars
  <2>2. DurableKeysStay' /\ DurableIsApart'
    BY <1>1, <2>1 DEF SeInv, TypeOK, DurableKeysStay, DurableIsApart, vars
  <2> QED
    BY <1>1, <2>1, <2>2
    DEF SeInv, TypeOK, CallShape, RecordIsOwn, OthersAreSettled, Settled, CreationIsClean,
        MemoryMatchesFiles, DestructionIsClean, JournalCoversDamage, Named, Creating, Destroying, vars
<1>2. CASE Step /\ shared' = shared \cup Contested'
  <2>1. CASE \E o \in {"create", "register"}, id \in KeyIds, s \in SeSlots : StartCreation(o, id, s)
    BY <1>2, <2>1, StartCreationKeeps
  <2>2. CASE \E id \in KeyIds : StartFails(id) \/ StartDestruction(id) \/ PurgeKey(id)
    BY <1>2, <2>2, StartFailsKeeps, StartDestructionKeeps, PurgeKeyKeeps
  <2>3. CASE CreateSavesTransaction \/ DestroySavesTransaction \/ Crash
    BY <1>2, <2>3, CreateSavesTransactionKeeps, DestroySavesTransactionKeeps, CrashKeeps
  <2>4. ASSUME NEW ok \in BOOLEAN, NEW checked \in BOOLEAN,
               FillElement(ok, checked) \/ SaveData(ok, checked)
        PROVE  SeInv'
    BY <1>2, <2>4, FillElementKeeps, SaveDataKeeps
  <2>5. ASSUME NEW ok \in BOOLEAN, SaveFile(ok) \/ StopCreation(ok) \/ FailCreation(ok)
        PROVE  SeInv'
    BY <1>2, <2>5, SaveFileKeeps, StopCreationKeeps, FailCreationKeeps
  <2>6. ASSUME NEW ok \in BOOLEAN,
               \/ DestroyInElement(ok) \/ SaveDataAgain(ok) \/ RemoveFile(ok) \/ StopDestruction(ok)
               \/ CryptoInit(ok)
        PROVE  SeInv'
    BY <1>2, <2>6, DestroyInElementKeeps, SaveDataAgainKeeps, RemoveFileKeeps, StopDestructionKeeps,
       CryptoInitKeeps
  <2> QED
    BY <1>2, <2>1, <2>2, <2>3, <2>4, <2>5, <2>6 DEF Step
<1> QED
  BY <1>1, <1>2 DEF Next

\* The inductive invariant of the transactions of psa_crypto.c holds in every
\* reachable state.
THEOREM Correct == Spec => []SeInv
BY InitIsGood, StepKeeps, PTL DEF Spec

(* A secure element's keys, their files and the driver's data only ever    *)
(* hold values of their types.                                             *)
THEOREM TypeCorrect == Spec => []TypeOK
<1>1. SeInv => TypeOK
  BY DEF SeInv
<1> QED
  BY <1>1, Correct, PTL

(* The record in storage names every slot that a call of psa_crypto.c left *)
(* half done, after a power failure at any step too, unless the code ended *)
(* that transaction undone.                                                *)
THEOREM JournalIsSufficient == Spec => []JournalCoversDamage
<1>1. SeInv => JournalCoversDamage
  BY DEF SeInv
<1> QED
  BY <1>1, Correct, PTL

(* A key whose creation returned success is found under its identifier     *)
(* until psa_destroy_key() of it begins, or, when its file was not saved,  *)
(* until its key slot is wiped or power fails; and the slot of the element *)
(* it names holds this key, unless another identifier named that slot too. *)
THEOREM KeysAreDurable == Spec => []DurableKeysStay
<1>1. SeInv => DurableKeysStay
  BY DEF SeInv
<1> QED
  BY <1>1, Correct, PTL
=============================================================================
