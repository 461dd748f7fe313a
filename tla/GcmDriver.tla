----------------------------- MODULE GcmDriver -----------------------------
(***************************************************************************)
(* The AES-GCM driver of the Duet boards (drivers/aes_gcm_hardware.cpp,    *)
(* MBEDTLS_GCM_ALT).  Contexts share one AES peripheral: starts() makes a  *)
(* context the only streaming one, update_ad() copies associated data into *)
(* it, update() stores a pointer to the caller's buffer, and finish() runs *)
(* the hardware on what the context holds then.  One-shot calls and the    *)
(* ECB driver (drivers/aes_hardware.cpp) use the peripheral in between.    *)
(*                                                                         *)
(* The driver's state is the record drv, so that a caller that makes       *)
(* several driver calls in one step (PsaAead) can compose them.  Calls     *)
(* that are refused leave it as it is.  A piece of data is a positive      *)
(* number, its length; pieces of different content differ in length.       *)
(***************************************************************************)
EXTENDS Naturals, Sequences

CONSTANTS
    Direct,         \* contexts of callers of gcm.h
    Operations,     \* contexts inside PSA operations (see PsaAead)
    Keys,           \* AES keys
    Nonces,         \* nonces of 12 bytes
    OddNonces,      \* nonces of another length
    Messages,       \* pieces of plaintext or ciphertext
    Ads,            \* pieces of associated data
    Buffers,        \* the callers' buffers
    MaxAad          \* MBEDTLS_GCM_ALT_MAX_AAD_BYTES

Contexts == Direct \cup Operations
NoCtx == "no context"
NoKey == "no key"
NoNonce == "no nonce"
NullPtr == "NULL"
Freed == "freed"        \* a pointer to memory that is not the caller's any more
Modes == {"encrypt", "decrypt"}
Outputs == {"null", "small", "enough"}   \* output given to finish(), and its size

\* A pointer, a context or a key that is absent is not one that is there;
\* pieces of data have a positive length.
ASSUME DataAssumption ==
    /\ Messages \subseteq Nat \ {0}
    /\ Ads \subseteq Nat \ {0}
    /\ MaxAad \in Nat
ASSUME NamesAssumption ==
    /\ Direct \cap Operations = {}
    /\ NoCtx \notin Contexts
    /\ NoKey \notin Keys
    /\ {NullPtr, Freed} \cap Buffers = {}

VARIABLES
    drv,        \* [owner, ctx, ecb, loaded]: the driver and the peripheral
    mem,        \* what the callers' buffers hold
    live,       \* the direct contexts between init and free
    asked,      \* what the user of a context passed since starts, or NoStream
    result      \* what the step just taken made the hardware compute

gcmVars == <<drv, mem, live, asked, result>>

-----------------------------------------------------------------------------
(* mbedtls_gcm_context and the state around it *)

Zeroed == [key |-> NoKey, iv |-> NoNonce, mode |-> "decrypt", aad |-> <<>>,
           aad_len |-> 0, input |-> NullPtr, data_len |-> 0]
Driver == [owner |-> NoCtx,                   \* gcm_streaming_owner
           ctx |-> [c \in Contexts |-> Zeroed],
           ecb |-> NoKey,                     \* the key AesEcb thinks is loaded
           loaded |-> NoKey]                  \* the key in the peripheral
NoStream == [started |-> FALSE]
NoResult == [ran |-> FALSE]

-----------------------------------------------------------------------------
(* The driver's functions: the state after a call that is not refused,     *)
(* and for those that can be refused the condition under which it is not.  *)

GcmInit(d, c) == [d EXCEPT !.ctx[c] = Zeroed]

GcmSetKey(d, c, k) == [d EXCEPT !.ctx[c].key = k]

StartsOk(d, c, iv) ==
    /\ iv \in Nonces
    /\ d.owner \in {NoCtx, c}
\* FinishComputesItsStream fails: what the last stream left is kept.
GcmStartsKeepsData(d, c, mode, iv) ==
    [d EXCEPT !.owner = c, !.ctx[c] = [@ EXCEPT !.mode = mode, !.iv = iv, !.aad = <<>>, !.aad_len = 0]]
GcmStarts(d, c, mode, iv) ==
    [d EXCEPT !.owner = c,
              !.ctx[c] = [@ EXCEPT !.mode = mode, !.iv = iv, !.aad = <<>>, !.aad_len = 0,
                                   !.data_len = 0, !.input = NullPtr]]

UpdateAdOk(d, c, a) == d.ctx[c].aad_len + a <= MaxAad
GcmUpdateAd(d, c, a) ==
    [d EXCEPT !.ctx[c].aad = Append(@, a), !.ctx[c].aad_len = @ + a]

UpdateOk(d, c) ==
    /\ d.ctx[c].data_len = 0
    /\ d.owner = c
GcmUpdate(d, c, ptr, m) ==
    [d EXCEPT !.ctx[c].input = ptr, !.ctx[c].data_len = m]

FinishOk(d, c, out) ==
    /\ d.owner = c
    /\ d.ctx[c].data_len > 0 => out # "small"
\* EcbUsesItsKey fails: the ECB cache is not invalidated.
UsePeripheralQuietly(d, k) == [d EXCEPT !.loaded = k]
\* The peripheral computes with key k; the ECB driver's notion of what is
\* loaded is invalidated.
UsePeripheral(d, k) == [d EXCEPT !.loaded = k, !.ecb = NoKey]
GcmFinish(d, c) == [UsePeripheral(d, d.ctx[c].key) EXCEPT !.owner = NoCtx]

\* OwnerIsStreaming fails: the context may be the owner.
GcmFreeKeepsOwner(d, c) == [d EXCEPT !.ctx[c] = Zeroed]
GcmFree(d, c) ==
    [d EXCEPT !.owner = IF @ = c THEN NoCtx ELSE @, !.ctx[c] = Zeroed]

\* What the hardware may find at the address p: memory that was given back
\* may hold anything.
ContentsAt(p) == IF p = Freed THEN Messages ELSE {mem[p]}

\* The requests finish() may put to the hardware for c
Requests(d, c) ==
    LET x == d.ctx[c] IN
    {[key |-> x.key, iv |-> x.iv, mode |-> x.mode, aad |-> x.aad, data |-> data] :
        data \in IF x.data_len = 0 THEN {<<>>} ELSE {<<m>> : m \in ContentsAt(x.input)}}

\* What the user of c has passed since starts()
Stream(d, c, mode, iv) ==
    [started |-> TRUE, key |-> d.ctx[c].key, iv |-> iv, mode |-> mode, aad |-> <<>>, data |-> <<>>]
StreamRequest(s) == [key |-> s.key, iv |-> s.iv, mode |-> s.mode, aad |-> s.aad, data |-> s.data]

-----------------------------------------------------------------------------
(* Callers of gcm.h.  They initialise a context before they use it and free *)
(* it when they give its memory back, do not change its key in a stream and *)
(* leave a buffer alone from update() to the end of the stream.             *)

InitContext(c) ==
    /\ c \notin live
    /\ live' = live \cup {c}
    /\ drv' = GcmInit(drv, c)
    /\ result' = NoResult
    /\ UNCHANGED <<mem, asked>>

SetKey(c, k) ==
    /\ c \in live
    /\ ~asked[c].started
    /\ drv' = GcmSetKey(drv, c, k)
    /\ result' = NoResult
    /\ UNCHANGED <<mem, live, asked>>

Starts(c, mode, iv) ==
    /\ c \in live
    /\ drv.ctx[c].key # NoKey
    /\ StartsOk(drv, c, iv)
    /\ drv' = GcmStarts(drv, c, mode, iv)
    /\ asked' = [asked EXCEPT ![c] = Stream(drv, c, mode, iv)]
    /\ result' = NoResult
    /\ UNCHANGED <<mem, live>>

\* update_ad() does not look at the owner: what it adds outside of a stream
\* is forgotten by the next starts().
UpdateAd(c, a) ==
    /\ c \in live
    /\ UpdateAdOk(drv, c, a)
    /\ drv' = GcmUpdateAd(drv, c, a)
    /\ asked' = IF asked[c].started THEN [asked EXCEPT ![c].aad = Append(@, a)] ELSE asked
    /\ result' = NoResult
    /\ UNCHANGED <<mem, live>>

Update(c, b) ==
    /\ c \in live
    /\ UpdateOk(drv, c)
    /\ drv' = GcmUpdate(drv, c, b, mem[b])
    /\ asked' = IF asked[c].started THEN [asked EXCEPT ![c].data = Append(@, mem[b])] ELSE asked
    /\ result' = NoResult
    /\ UNCHANGED <<mem, live>>

\* Whether the hardware succeeds or not, the stream is over.
Finish(c, out) ==
    /\ c \in live
    /\ FinishOk(drv, c, out)
    /\ drv' = GcmFinish(drv, c)
    /\ \E r \in Requests(drv, c) :
            result' = [ran |-> TRUE, ctx |-> c, asked |-> asked[c], request |-> r]
    /\ asked' = [asked EXCEPT ![c] = NoStream]
    /\ UNCHANGED <<mem, live>>

\* mbedtls_gcm_crypt_and_tag() and mbedtls_gcm_auth_decrypt()
OneShot(c) ==
    /\ c \in live
    /\ drv.ctx[c].key # NoKey
    /\ drv' = UsePeripheral(drv, drv.ctx[c].key)
    /\ result' = NoResult
    /\ UNCHANGED <<mem, live, asked>>

FreeContext(c) ==
    /\ c \in live
    /\ live' = live \ {c}
    /\ drv' = GcmFree(drv, c)
    /\ asked' = [asked EXCEPT ![c] = NoStream]
    /\ result' = NoResult
    /\ UNCHANGED mem

\* mbedtls_aes_crypt_ecb() with key k: AesEcb loads the key unless it
\* believes that it is in the peripheral.
EcbCrypt(k) ==
    /\ drv' = [drv EXCEPT !.loaded = IF drv.ecb = k THEN @ ELSE k, !.ecb = k]
    /\ result' = NoResult
    /\ UNCHANGED <<mem, live, asked>>

\* A caller reuses a buffer that no stream of its contexts reads.
WriteBuffer(b, m) ==
    /\ \A c \in Direct : asked[c].started => drv.ctx[c].input # b
    /\ mem' = [mem EXCEPT ![b] = m]
    /\ result' = NoResult
    /\ UNCHANGED <<drv, live, asked>>

GcmInitState ==
    /\ drv = Driver
    /\ mem \in [Buffers -> Messages]
    /\ live = {}
    /\ asked = [c \in Contexts |-> NoStream]
    /\ result = NoResult

GcmNext ==
    \/ \E c \in Direct :
        \/ InitContext(c)
        \/ \E k \in Keys : SetKey(c, k)
        \/ \E mode \in Modes, iv \in Nonces \cup OddNonces : Starts(c, mode, iv)
        \/ \E a \in Ads : UpdateAd(c, a)
        \/ \E b \in Buffers : Update(c, b)
        \/ \E out \in Outputs : Finish(c, out)
        \/ OneShot(c)
        \/ FreeContext(c)
    \/ \E k \in Keys : EcbCrypt(k)
    \/ \E b \in Buffers, m \in Messages : WriteBuffer(b, m)
=============================================================================
