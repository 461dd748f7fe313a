------------------------------ MODULE PsaAead ------------------------------
(***************************************************************************)
(* PSA multipart AEAD operations (psa_crypto.c) on AES-GCM, over the       *)
(* built-in implementation (psa_crypto_aead.c) that calls the hardware     *)
(* driver of GcmDriver, next to direct callers of the same driver.         *)
(*                                                                         *)
(* An operation checks the order of its calls and the declared lengths,    *)
(* and aborts itself on every error.  psa_aead_update() passes the driver  *)
(* a local copy of the caller's input and frees the copy when it returns   *)
(* (LOCAL_INPUT_ALLOC and LOCAL_INPUT_FREE).                               *)
(***************************************************************************)
EXTENDS GcmDriver

CONSTANTS
    Lengths         \* lengths that psa_aead_set_lengths() may declare

ASSUME LengthsAssumption == Lengths \subseteq Nat

VARIABLES
    op,         \* the operation objects
    given       \* history: the bytes passed to an operation since its set-up,
                \* and the lengths declared for it

aeadVars == <<gcmVars, op, given>>

-----------------------------------------------------------------------------
(* psa_aead_operation_t after PSA_AEAD_OPERATION_INIT or psa_aead_abort() *)

Idle == [id |-> FALSE, is_encrypt |-> FALSE, nonce_set |-> FALSE, lengths_set |-> FALSE,
         ad_started |-> FALSE, body_started |-> FALSE, ad_remaining |-> 0, body_remaining |-> 0]
NothingGiven == [ad |-> 0, body |-> 0, declared |-> {}]

\* psa_aead_abort(), on an operation whose driver call left the driver as d
AbortFrom(d, c) ==
    /\ drv' = IF op[c].id THEN GcmFree(d, c) ELSE d
    /\ op' = [op EXCEPT ![c] = Idle]
    /\ asked' = [asked EXCEPT ![c] = NoStream]
    /\ given' = [given EXCEPT ![c] = NothingGiven]
Abort(c) == AbortFrom(drv, c)

NoHardwareRun ==
    /\ result' = NoResult
    /\ UNCHANGED <<mem, live>>

-----------------------------------------------------------------------------
(* The operation's calls.  Each has its successful form and Fail(c): an    *)
(* error of its checks, of an allocation, of the key store or of the       *)
(* driver, that aborts the operation.                                      *)

SetupOk(c) == ~op[c].id
\* The key is locked, checked against its policy and copied into the
\* driver's context, which is zeroed first.
AeadSetup(c, k, encrypt) ==
    /\ SetupOk(c)
    /\ drv' = GcmSetKey(GcmInit(drv, c), c, k)
    /\ op' = [op EXCEPT ![c] = [Idle EXCEPT !.id = TRUE, !.is_encrypt = encrypt]]
    /\ UNCHANGED <<asked, given>>
    /\ NoHardwareRun

NonceOk(c, iv) ==
    /\ op[c].id
    /\ ~op[c].nonce_set
    /\ StartsOk(drv, c, iv)
SetNonceInternal(c, iv) ==
    /\ NonceOk(c, iv)
    /\ LET mode == IF op[c].is_encrypt THEN "encrypt" ELSE "decrypt" IN
        /\ drv' = GcmStarts(drv, c, mode, iv)
        /\ asked' = [asked EXCEPT ![c] = Stream(drv, c, mode, iv)]
    /\ op' = [op EXCEPT ![c].nonce_set = TRUE]
    /\ UNCHANGED given
    /\ NoHardwareRun
AeadSetNonce(c, iv) == SetNonceInternal(c, iv)
AeadGenerateNonce(c) ==
    /\ op[c].is_encrypt
    /\ \E iv \in Nonces : SetNonceInternal(c, iv)

SetLengthsOk(c) ==
    /\ op[c].id
    /\ ~(op[c].lengths_set \/ op[c].ad_started \/ op[c].body_started)
AeadSetLengths(c, ad, body) ==
    /\ SetLengthsOk(c)
    /\ op' = [op EXCEPT ![c].ad_remaining = ad, ![c].body_remaining = body, ![c].lengths_set = TRUE]
    /\ given' = [given EXCEPT ![c].declared = {<<ad, body>>}]
    /\ UNCHANGED <<drv, asked>>
    /\ NoHardwareRun

AeadUpdateAdOk(c, a) ==
    /\ op[c].id
    /\ op[c].nonce_set
    /\ ~op[c].body_started
    /\ op[c].lengths_set => a <= op[c].ad_remaining
    /\ a > 0 => UpdateAdOk(drv, c, a)
\* An empty input succeeds before the driver is called.
AeadUpdateAd(c, a) ==
    /\ AeadUpdateAdOk(c, a)
    /\ drv' = IF a = 0 THEN drv ELSE GcmUpdateAd(drv, c, a)
    /\ asked' = IF a = 0 THEN asked ELSE [asked EXCEPT ![c].aad = Append(@, a)]
    /\ op' = [op EXCEPT ![c].ad_started = TRUE,
                        ![c].ad_remaining = IF op[c].lengths_set THEN @ - a ELSE @]
    /\ given' = [given EXCEPT ![c].ad = @ + a]
    /\ NoHardwareRun

AeadUpdateOk(c, m) ==
    /\ op[c].id
    /\ op[c].nonce_set
    /\ op[c].lengths_set => op[c].ad_remaining = 0 /\ m <= op[c].body_remaining
    /\ m > 0 => UpdateOk(drv, c)
\* The driver keeps a pointer to the local copy, which is freed on return.
AeadUpdate(c, m) ==
    /\ AeadUpdateOk(c, m)
    /\ drv' = IF m = 0 THEN drv ELSE GcmUpdate(drv, c, Freed, m)
    /\ asked' = IF m = 0 THEN asked ELSE [asked EXCEPT ![c].data = Append(@, m)]
    /\ op' = [op EXCEPT ![c].body_started = TRUE,
                        ![c].body_remaining = IF op[c].lengths_set THEN @ - m ELSE @]
    /\ given' = [given EXCEPT ![c].body = @ + m]
    /\ NoHardwareRun

\* DeclaredLengthsHold fails: less associated data than was declared is accepted.
FinalChecksOfBody(c) ==
    /\ op[c].id
    /\ op[c].nonce_set
    /\ op[c].lengths_set => op[c].body_remaining = 0
FinalChecks(c) ==
    /\ op[c].id
    /\ op[c].nonce_set
    /\ op[c].lengths_set => op[c].ad_remaining = 0 /\ op[c].body_remaining = 0

\* The driver finishes and the hardware succeeds; the operation is aborted.
Complete(c, out) ==
    /\ FinalChecks(c)
    /\ FinishOk(drv, c, out)
    /\ \E r \in Requests(drv, c) :
            result' = [ran |-> TRUE, ctx |-> c, asked |-> asked[c], request |-> r,
                       given |-> given[c]]
    /\ AbortFrom(GcmFinish(drv, c), c)
    /\ UNCHANGED <<mem, live>>
AeadFinish(c, out) ==
    /\ op[c].is_encrypt
    /\ Complete(c, out)
\* psa_aead_verify() of a matching tag
AeadVerify(c, out) ==
    /\ ~op[c].is_encrypt
    /\ Complete(c, out)

\* A finish or verify that reached the hardware: it failed, or the tag differs.
HardwareFails(c, out) ==
    /\ FinalChecks(c)
    /\ FinishOk(drv, c, out)
    /\ AbortFrom(GcmFinish(drv, c), c)
    /\ NoHardwareRun

\* Any call that is refused, and psa_aead_abort() itself
Fail(c) ==
    /\ Abort(c)
    /\ NoHardwareRun

AeadInit ==
    /\ GcmInitState
    /\ op = [c \in Operations |-> Idle]
    /\ given = [c \in Operations |-> NothingGiven]

AeadNext(c) ==
    \/ \E k \in Keys, encrypt \in BOOLEAN : AeadSetup(c, k, encrypt)
    \/ \E iv \in Nonces \cup OddNonces : AeadSetNonce(c, iv)
    \/ AeadGenerateNonce(c)
    \/ \E ad, body \in Lengths : AeadSetLengths(c, ad, body)
    \/ \E a \in Ads \cup {0} : AeadUpdateAd(c, a)
    \/ \E m \in Messages \cup {0} : AeadUpdate(c, m)
    \/ \E out \in Outputs : AeadFinish(c, out) \/ AeadVerify(c, out) \/ HardwareFails(c, out)
    \/ Fail(c)

PsaAeadNext ==
    \/ GcmNext /\ UNCHANGED <<op, given>>
    \/ \E c \in Operations : AeadNext(c)

AeadSpec == AeadInit /\ [][PsaAeadNext]_aeadVars

-----------------------------------------------------------------------------
(* Properties *)

\* The streaming owner is exactly the context whose user is between a
\* successful starts() and the end of its stream: an error anywhere, an
\* abort or a free gives the engine back, and no stream runs without it.
OwnerIsStreaming ==
    \A c \in Contexts : asked[c].started <=> drv.owner = c

\* finish() runs the hardware on the key, nonce, mode, associated data and
\* input of its own stream, whatever other streams, one-shot calls and
\* earlier streams of the same context did.  The input is that of the stream
\* for callers that keep the buffer, which PSA operations do not.
FinishComputesItsStream ==
    result.ran =>
        LET r == result.request
            s == StreamRequest(result.asked)
        IN /\ [r EXCEPT !.data = <<>>] = [s EXCEPT !.data = <<>>]
           /\ result.ctx \in Direct => r.data = s.data

\* The ECB driver never takes the key of a GCM call for the one it loaded.
EcbUsesItsKey == drv.ecb # NoKey => drv.loaded = drv.ecb

\* An operation that finishes or verifies with success was passed exactly
\* the lengths it declared, in whatever order the lengths, the nonce and the
\* pieces of data (empty ones too) came, and whatever was aborted before.
DeclaredLengthsHold ==
    result.ran /\ result.ctx \in Operations =>
        result.given.declared \subseteq {<<result.given.ad, result.given.body>>}
=============================================================================
