----------------------------- MODULE SslProofs -----------------------------
(***************************************************************************)
(* Proofs about DtlsRecord for every width of the window, every record     *)
(* number and every number of epochs, and about SslTicket for any          *)
(* lifetimes, builds and number of tickets.  The two share nothing; their  *)
(* proofs stand side by side.                                              *)
(***************************************************************************)
EXTENDS DtlsRecord, SslTicket, TLAPS

-----------------------------------------------------------------------------
(* DtlsRecord: the anti-replay window.                                     *)

\* Epochs the receiver has not reached have no records yet.
LaterUnseen(epoch, counts) ==
    \A e \in Epochs, s \in Seqs : e > epoch => counts[<<e, s>>] = 0

AtMostOnce(counts) == \A r \in Epochs \X Seqs : counts[r] <= 1

\* A serialised context is one of epoch 1.
SavedIsGood ==
    AntiReplay /\ saved.valid =>
        /\ AtMostOnce(saved.seen)
        /\ Tracks(saved.window, saved.top, 1, saved.seen)
        /\ LaterUnseen(1, saved.seen)

\* Without renegotiation there is one change of epoch.
EpochOfPhase ==
    ~renegotiation /\ phase \in {"finished", "idle", "over"} => in_epoch = 1

HelloIsEpochZero == ~renegotiation /\ phase = "hello" => in_epoch = 0

\* The inductive invariant.
RecordInv ==
    /\ RecordTypeOK
    /\ NoReplay
    /\ WindowIsExact
    /\ AntiReplay /\ Open => LaterUnseen(in_epoch, seen)
    /\ SavedIsGood
    /\ EpochOfPhase
    /\ HelloIsEpochZero

-----------------------------------------------------------------------------
\* Record numbers, epochs and window bits are natural numbers.
LEMMA NumbersAreNat == Seqs \subseteq Nat /\ Epochs \subseteq Nat /\ Bits \subseteq Nat
BY CountersAreNat, WindowIsPositive DEF Seqs, Epochs, Bits

(* mbedtls_ssl_dtls_replay_update() after a check that passed keeps the    *)
(* window exact.                                                           *)
LEMMA UpdateTracks ==
    ASSUME RecordTypeOK, AntiReplay,
           Tracks(in_window, in_window_top, in_epoch, seen),
           NEW q \in Seqs, ReplayCheck(q), ReplayUpdate(q),
           seen' = [seen EXCEPT ![<<in_epoch, q>>] = @ + 1]
    PROVE  /\ in_window' \in SUBSET Bits
           /\ in_window_top' \in Seqs
           /\ Tracks(in_window', in_window_top', in_epoch, seen')
<1> DEFINE top == in_window_top
           e == in_epoch
<1>1. /\ q \in Nat /\ q <= MaxSeq /\ top \in Nat /\ top <= MaxSeq /\ WindowBits \in Nat
      /\ WindowBits > 0 /\ MaxSeq \in Nat /\ e \in Epochs
  BY WindowIsPositive, CountersAreNat DEF RecordTypeOK, Seqs
<1>2. \A s \in Seqs : /\ seen[<<e, s>>] \in Nat
                      /\ seen'[<<e, s>>] = IF s = q THEN seen[<<e, s>>] + 1 ELSE seen[<<e, s>>]
  <2>1. seen \in [Epochs \X Seqs -> Nat]
    BY DEF RecordTypeOK
  <2> QED BY <2>1, <1>1
<1>3. \A s \in Seqs : seen'[<<e, s>>] > 0 <=> s = q \/ seen[<<e, s>>] > 0
  BY <1>2
<1>4. \A s \in Seqs : s # q => seen'[<<e, s>>] = seen[<<e, s>>]
  BY <1>2
<1>5. \A n \in Bits : n \in Nat /\ n < WindowBits
  BY <1>1 DEF Bits
<1>6. \A n \in Bits : n \in in_window <=> n <= top /\ seen[<<e, top - n>>] > 0
  BY DEF Tracks
<1>7. \A s \in Seqs : s > top => seen[<<e, s>>] = 0
  BY DEF Tracks
<1> HIDE DEF e
<1>8. CASE q > top
  <2>1. /\ top' = q
        /\ in_window' = {0} \cup IF q - top >= WindowBits THEN {}
                                 ELSE ShiftLeft(in_window, q - top)
    BY <1>8 DEF ReplayUpdate
  <2>2. \A n \in Bits : n \in in_window' <=> n = 0 \/ (q - top < WindowBits /\ n - (q - top) \in in_window)
    BY <2>1, <1>1, <1>5 DEF ShiftLeft
  <2>3. 0 \in Bits
    BY <1>1 DEF Bits
  <2>4. in_window' \in SUBSET Bits
    BY <2>1, <2>3 DEF ShiftLeft
  <2>5. ASSUME NEW n \in Bits
        PROVE  n \in in_window' <=> n <= q /\ seen'[<<e, q - n>>] > 0
    <3>1. CASE n = 0
      <4>1. n <= q /\ q - n = q
        BY <3>1, <1>1
      <4>2. seen'[<<e, q>>] > 0
        BY <1>3
      <4> QED BY <4>1, <4>2, <3>1, <2>2
    <3>2. CASE n # 0 /\ n <= q
      <4>1. q - n \in Seqs /\ q - n # q /\ n \in Nat
        BY <3>2, <1>1, <1>5 DEF Seqs
      <4>2. seen'[<<e, q - n>>] = seen[<<e, q - n>>]
        BY <4>1, <1>4
      <4>3. CASE n < q - top
        <5>1. q - n > top
          BY <4>3, <4>1, <1>1
        <5>2. ~(seen[<<e, q - n>>] > 0)
          BY <5>1, <4>1, <1>7
        <5>3. n - (q - top) \notin Bits
          BY <4>3, <4>1, <1>1 DEF Bits
        <5> QED BY <5>2, <5>3, <4>2, <3>2, <2>2 DEF RecordTypeOK
      <4>4. CASE n >= q - top
        <5>1. n - (q - top) \in Bits /\ q - top < WindowBits
          BY <4>4, <4>1, <1>1, <1>5, <1>8 DEF Bits
        <5>2. n - (q - top) <= top /\ top - (n - (q - top)) = q - n
          BY <4>1, <1>1, <3>2
        <5>3. n - (q - top) \in in_window <=> seen[<<e, q - n>>] > 0
          BY <5>1, <5>2, <1>6
        <5> QED BY <5>1, <5>3, <4>2, <3>2, <2>2
      <4> QED BY <4>1, <4>3, <4>4, <1>1
    <3>3. CASE n # 0 /\ ~(n <= q)
      <4>1. n \in Nat
        BY <1>5
      <4>2. CASE n - (q - top) \in in_window
        <5>1. n - (q - top) <= top
          BY <4>2, <1>6 DEF RecordTypeOK
        <5> QED BY <5>1, <4>1, <1>1, <3>3
      <4>3. CASE n - (q - top) \notin in_window
        BY <4>3, <3>3, <2>2
      <4> QED BY <4>2, <4>3
    <3> QED BY <3>1, <3>2, <3>3
  <2>6. ASSUME NEW s \in Seqs, s > q
        PROVE  seen'[<<e, s>>] = 0
    <3>1. s > top /\ s # q
      BY <2>6, <1>1, <1>8 DEF Seqs
    <3> QED BY <3>1, <1>4, <1>7
  <2> QED BY <2>1, <2>4, <2>5, <2>6 DEF Tracks, e
<1>9. CASE ~(q > top)
  <2>1. /\ top' = top
        /\ in_window' = in_window \cup ({top - q} \cap Bits)
    BY <1>9 DEF ReplayUpdate
  <2>2. top - q < WindowBits /\ top - q \in Bits
    BY <1>9, <1>1 DEF ReplayCheck, Bits
  <2>3. in_window' \in SUBSET Bits
    BY <2>1 DEF RecordTypeOK
  <2>4. ASSUME NEW n \in Bits
        PROVE  n \in in_window' <=> n <= top /\ seen'[<<e, top - n>>] > 0
    <3>1. CASE n = top - q
      <4>1. n <= top /\ top - n = q
        BY <3>1, <1>1, <1>9
      <4> QED BY <4>1, <1>3, <2>1, <2>2, <3>1
    <3>2. CASE n # top - q
      <4>1. n \in in_window' <=> n \in in_window
        BY <2>1, <3>2
      <4>2. CASE n <= top
        <5>1. top - n \in Seqs /\ top - n # q
          BY <4>2, <3>2, <1>1, <1>5 DEF Seqs
        <5> QED BY <5>1, <4>1, <1>4, <1>6
      <4>3. CASE ~(n <= top)
        BY <4>1, <4>3, <1>6
      <4> QED BY <4>2, <4>3
    <3> QED BY <3>1, <3>2
  <2>5. ASSUME NEW s \in Seqs, s > top
        PROVE  seen'[<<e, s>>] = 0
    <3>1. s # q
      BY <2>5, <1>9
    <3> QED BY <3>1, <2>5, <1>4, <1>7
  <2>6. top' \in Seqs
    BY <2>1 DEF RecordTypeOK
  <2> QED BY <2>1, <2>3, <2>4, <2>5, <2>6 DEF Tracks, e
<1> QED BY <1>8, <1>9

(* A record that passes the check has not been seen.                       *)
LEMMA CheckedIsFresh ==
    ASSUME RecordTypeOK, AntiReplay, Tracks(in_window, in_window_top, in_epoch, seen),
           NEW q \in Seqs, ReplayCheck(q)
    PROVE  seen[<<in_epoch, q>>] = 0
<1>1. q \in Nat /\ in_window_top \in Nat
  BY NumbersAreNat DEF RecordTypeOK
<1>2. CASE q > in_window_top
  BY <1>2 DEF Tracks
<1>3. CASE ~(q > in_window_top)
  <2>1. in_window_top - q \in Bits /\ in_window_top - q \notin in_window
    BY <1>1, <1>3, WindowIsPositive DEF ReplayCheck, Bits
  <2>2. in_window_top - q <= in_window_top /\ in_window_top - (in_window_top - q) = q
    BY <1>1
  <2>3. ~(seen[<<in_epoch, q>>] > 0)
    BY <2>1, <2>2 DEF Tracks
  <2>4. seen[<<in_epoch, q>>] \in Nat
    BY DEF RecordTypeOK
  <2> QED BY <2>3, <2>4
<1> QED BY <1>2, <1>3

(* An association that has seen nothing.                                   *)
LEMMA FreshAssociation ==
    /\ Unseen \in [Epochs \X Seqs -> Nat]
    /\ AtMostOnce(Unseen)
    /\ \A e \in Epochs : Tracks({}, 0, e, Unseen) /\ LaterUnseen(e, Unseen)
<1>1. \A r \in Epochs \X Seqs : Unseen[r] = 0
  BY DEF Unseen
<1>2. \A n \in Bits : n <= 0 => 0 - n \in Seqs
  BY WindowIsPositive, CountersAreNat DEF Bits, Seqs
<1>3. ASSUME NEW e \in Epochs
      PROVE  Tracks({}, 0, e, Unseen) /\ LaterUnseen(e, Unseen)
  <2>1. \A n \in Bits : n <= 0 => Unseen[<<e, 0 - n>>] = 0
    BY <1>1, <1>2
  <2>2. \A n \in Bits : ~(n \in {} \/ (n <= 0 /\ Unseen[<<e, 0 - n>>] > 0))
    BY <2>1
  <2>3. \A s \in Seqs : Unseen[<<e, s>>] = 0
    BY <1>1
  <2>4. \A f \in Epochs, s \in Seqs : Unseen[<<f, s>>] = 0
    BY <1>1
  <2> QED BY <2>2, <2>3, <2>4 DEF Tracks, LaterUnseen
<1>4. Unseen \in [Epochs \X Seqs -> Nat]
  BY DEF Unseen
<1> QED BY <1>1, <1>3, <1>4 DEF AtMostOnce

\* A context after mbedtls_ssl_setup() satisfies the invariant.
LEMMA InitialState == RecordInit => RecordInv
<1> SUFFICES ASSUME RecordInit PROVE RecordInv
  OBVIOUS
<1>1. 0 \in Epochs /\ 0 \in Seqs
  BY CountersAreNat DEF Epochs, Seqs
<1>2. RecordTypeOK
  BY <1>1, FreshAssociation DEF RecordInit, RecordTypeOK, SavedContexts, NothingSaved, Phases
<1>3. Tracks(in_window, in_window_top, in_epoch, seen) /\ LaterUnseen(in_epoch, seen)
  BY <1>1, FreshAssociation DEF RecordInit
<1>4. NoReplay
  BY FreshAssociation DEF RecordInit, NoReplay, AtMostOnce
<1>5. SavedIsGood
  BY DEF RecordInit, SavedIsGood, NothingSaved
<1> QED BY <1>2, <1>3, <1>4, <1>5
        DEF RecordInv, WindowIsExact, EpochOfPhase, HelloIsEpochZero, RecordInit

(* A step that leaves the window, the counts and the saved context alone,  *)
(* and does not reopen a connection, keeps what they say of each other.    *)
LEMMA WindowUntouched ==
    ASSUME RecordInv, UNCHANGED <<in_epoch, in_window_top, in_window, seen, saved>>,
           Open' => Open
    PROVE  /\ NoReplay'
           /\ WindowIsExact'
           /\ (AntiReplay /\ Open => LaterUnseen(in_epoch, seen))'
           /\ SavedIsGood'
BY DEF RecordInv, NoReplay, WindowIsExact, SavedIsGood, Tracks, LaterUnseen, AtMostOnce

(* Resetting the session starts a fresh association.                       *)
LEMMA ResetIsFresh ==
    ASSUME RecordTypeOK, NEW partial \in BOOLEAN, Reset(partial), UNCHANGED renegotiation
    PROVE  /\ in_epoch' \in Epochs /\ in_window_top' \in Seqs /\ in_window' \in SUBSET Bits
           /\ badmac_seen' \in Nat /\ in_msgtype' = "none" /\ in_hslen' = "zero"
           /\ future' = None /\ phase' = "hello" /\ seen' \in [Epochs \X Seqs -> Nat]
           /\ NoReplay' /\ WindowIsExact'
           /\ (AntiReplay /\ Open => LaterUnseen(in_epoch, seen))'
           /\ EpochOfPhase' /\ HelloIsEpochZero'
<1>1. 0 \in Epochs /\ 0 \in Seqs
  BY CountersAreNat DEF Epochs, Seqs
<1>2. /\ in_epoch' = 0 /\ in_window_top' = 0 /\ in_window' = {} /\ seen' = Unseen
      /\ phase' = "hello" /\ badmac_seen' \in Nat
  BY DEF Reset, ReplayReset, RecordTypeOK
<1>3. Tracks(in_window', in_window_top', in_epoch', seen') /\ LaterUnseen(in_epoch', seen')
  BY <1>1, <1>2, FreshAssociation
<1>4. NoReplay'
  BY <1>2, FreshAssociation DEF NoReplay, AtMostOnce
<1>5. WindowIsExact' /\ (AntiReplay /\ Open => LaterUnseen(in_epoch, seen))'
  BY <1>3 DEF WindowIsExact
<1>6. EpochOfPhase' /\ HelloIsEpochZero'
  BY <1>2 DEF EpochOfPhase, HelloIsEpochZero
<1> QED BY <1>1, <1>2, <1>4, <1>5, <1>6, FreshAssociation DEF Reset

\* What is known of a saved context stays true while it and the history it
\* is about stay the same.
LEMMA SavedUntouched ==
    ASSUME SavedIsGood, UNCHANGED saved
    PROVE  SavedIsGood'
BY DEF SavedIsGood, Tracks, LaterUnseen, AtMostOnce

(* Receiving an expected, authentic record.                                *)
LEMMA AcceptKeepsInv ==
    ASSUME RecordInv, NEW r \in Records, AcceptRecord(r), UNCHANGED renegotiation
    PROVE  RecordInv'
<1>1. /\ r.epoch = in_epoch /\ r.seq \in Seqs /\ r.type \in {"handshake", "other"}
      /\ ReplayCheck(r.seq) /\ ReplayUpdate(r.seq)
      /\ UNCHANGED <<in_epoch, badmac_seen, phase, saved>>
      /\ seen' = [seen EXCEPT ![<<in_epoch, r.seq>>] = @ + 1]
      /\ in_msgtype' = r.type
      /\ in_hslen' \in {"zero", "message"}
      /\ future' \in Records \cup {None}
      /\ Open
  BY DEF RecordInv, RecordTypeOK, AcceptRecord, Expected, Arrives, Records
<1>2. RecordTypeOK
  BY DEF RecordInv
<1>3. seen' \in [Epochs \X Seqs -> Nat]
  BY <1>1, <1>2 DEF RecordTypeOK
<1>4. in_window' \in SUBSET Bits /\ in_window_top' \in Seqs
  <2>1. CASE AntiReplay
    BY <1>1, <1>2, <2>1, UpdateTracks DEF RecordInv, WindowIsExact
  <2>2. CASE ~AntiReplay
    BY <1>1, <1>2, <2>2 DEF ReplayUpdate, RecordTypeOK
  <2> QED BY <2>1, <2>2
<1>5. RecordTypeOK'
  BY <1>1, <1>2, <1>3, <1>4 DEF RecordTypeOK
<1>6. ASSUME AntiReplay
      PROVE  /\ Tracks(in_window', in_window_top', in_epoch', seen')
             /\ LaterUnseen(in_epoch', seen')
             /\ AtMostOnce(seen')
  <2>1. Tracks(in_window, in_window_top, in_epoch, seen) /\ LaterUnseen(in_epoch, seen)
        /\ AtMostOnce(seen)
    BY <1>1, <1>6 DEF RecordInv, WindowIsExact, NoReplay, AtMostOnce
  <2>2. Tracks(in_window', in_window_top', in_epoch', seen')
    BY <1>1, <1>2, <1>6, <2>1, UpdateTracks
  <2>3. seen[<<in_epoch, r.seq>>] = 0
    BY <1>1, <1>2, <1>6, <2>1, CheckedIsFresh
  <2>4. \A p \in Epochs \X Seqs :
          seen'[p] = IF p = <<in_epoch, r.seq>> THEN 1 ELSE seen[p]
    BY <1>1, <1>2, <2>3 DEF RecordTypeOK
  <2>5. AtMostOnce(seen')
    BY <2>1, <2>4 DEF AtMostOnce
  <2>6. in_epoch \in Nat
    BY <1>2, NumbersAreNat DEF RecordTypeOK
  <2>7. \A e \in Epochs, s \in Seqs : e > in_epoch => <<e, s>> # <<in_epoch, r.seq>>
    BY <2>6, NumbersAreNat
  <2>8. LaterUnseen(in_epoch', seen')
    BY <1>1, <2>1, <2>4, <2>7 DEF LaterUnseen
  <2> QED BY <2>2, <2>5, <2>8
<1>7. NoReplay' /\ WindowIsExact' /\ (AntiReplay /\ Open => LaterUnseen(in_epoch, seen))'
  BY <1>6 DEF NoReplay, WindowIsExact, AtMostOnce
<1>8. SavedIsGood'
  BY <1>1, SavedUntouched DEF RecordInv
<1>9. EpochOfPhase' /\ HelloIsEpochZero'
  BY <1>1 DEF RecordInv, EpochOfPhase, HelloIsEpochZero
<1> QED BY <1>5, <1>7, <1>8, <1>9 DEF RecordInv

(* The change of epoch empties the window.                                 *)
LEMMA ChangeCipherSpecKeepsInv ==
    ASSUME RecordInv, ParseChangeCipherSpec, UNCHANGED renegotiation
    PROVE  RecordInv'
<1>1. RecordTypeOK /\ in_epoch \in Nat /\ in_epoch <= MaxEpoch /\ MaxEpoch \in Nat /\ MaxEpoch >= 1
  BY CountersAreNat DEF RecordInv, RecordTypeOK, Epochs
<1>2. /\ in_window_top' = 0 /\ in_window' = {} /\ UNCHANGED <<badmac_seen, future, saved, seen>>
      /\ in_msgtype' = "other" /\ in_hslen' = "zero"
  BY DEF ParseChangeCipherSpec, ReplayReset
<1>3. CASE in_epoch = MaxEpoch
  <2>1. in_epoch' = 0 /\ phase' = "closed"
    BY <1>1, <1>3 DEF ParseChangeCipherSpec
  <2>2. RecordTypeOK'
    BY <1>1, <1>2, <2>1, CountersAreNat DEF RecordTypeOK, Epochs, Seqs, Phases
  <2>3. SavedIsGood'
    BY <1>2, SavedUntouched DEF RecordInv
  <2>4. NoReplay'
    BY <1>2 DEF RecordInv, NoReplay
  <2> QED BY <2>1, <2>2, <2>3, <2>4
          DEF RecordInv, WindowIsExact, Open, EpochOfPhase, HelloIsEpochZero
<1>4. CASE in_epoch # MaxEpoch
  <2>1. in_epoch' = in_epoch + 1 /\ phase' = "finished" /\ in_epoch' \in Epochs
    BY <1>1, <1>4 DEF ParseChangeCipherSpec, Epochs
  <2>2. RecordTypeOK'
    BY <1>1, <1>2, <2>1, CountersAreNat DEF RecordTypeOK, Seqs, Phases
  <2>3. SavedIsGood'
    BY <1>2, SavedUntouched DEF RecordInv
  <2>4. NoReplay'
    BY <1>2 DEF RecordInv, NoReplay
  <2>5. ASSUME AntiReplay
        PROVE  Tracks(in_window', in_window_top', in_epoch', seen')
               /\ LaterUnseen(in_epoch', seen')
    <3>1. \A e \in Epochs, s \in Seqs : e > in_epoch => seen[<<e, s>>] = 0
      BY <2>5 DEF RecordInv, LaterUnseen, ParseChangeCipherSpec, Open
    <3>2. \A s \in Seqs : seen[<<in_epoch + 1, s>>] = 0
      BY <3>1, <2>1, <1>1
    <3>3. \A n \in Bits : n <= 0 => 0 - n \in Seqs
      BY WindowIsPositive, CountersAreNat DEF Bits, Seqs
    <3>4. \A n \in Bits : n <= 0 => seen[<<in_epoch + 1, 0 - n>>] = 0
      BY <3>2, <3>3
    <3>5. Tracks({}, 0, in_epoch + 1, seen)
      BY <3>2, <3>4 DEF Tracks
    <3>6. LaterUnseen(in_epoch + 1, seen)
      <4>1. \A e \in Epochs : e \in Nat /\ (e > in_epoch + 1 => e > in_epoch)
        BY <1>1, NumbersAreNat
      <4> QED BY <3>1, <4>1 DEF LaterUnseen
    <3> QED BY <3>5, <3>6, <1>2, <2>1
  <2>6. WindowIsExact' /\ (AntiReplay /\ Open => LaterUnseen(in_epoch, seen))'
    BY <2>5 DEF WindowIsExact
  <2>7. EpochOfPhase' /\ HelloIsEpochZero'
    BY <2>1 DEF RecordInv, EpochOfPhase, HelloIsEpochZero, ParseChangeCipherSpec
  <2> QED BY <2>2, <2>3, <2>4, <2>6, <2>7 DEF RecordInv
<1> QED BY <1>3, <1>4

(* Saving and loading a context.                                           *)
LEMMA SaveKeepsInv ==
    ASSUME RecordInv, ContextSave, UNCHANGED renegotiation
    PROVE  RecordInv'
<1>1. RecordTypeOK /\ Reset(FALSE)
  BY DEF RecordInv, ContextSave
<1>2. saved' = [valid |-> TRUE, top |-> in_window_top, window |-> in_window,
                badmac |-> badmac_seen, seen |-> seen]
  BY DEF ContextSave
<1>3. in_epoch = 1 /\ Open
  BY DEF RecordInv, EpochOfPhase, ContextSave, Open
<1>4. saved' \in SavedContexts
  BY <1>1, <1>2 DEF RecordTypeOK, SavedContexts
<1>5. SavedIsGood'
  <2>1. saved'.seen = seen /\ saved'.window = in_window /\ saved'.top = in_window_top
    BY <1>2
  <2>2. AntiReplay => /\ AtMostOnce(seen)
                      /\ Tracks(in_window, in_window_top, 1, seen)
                      /\ LaterUnseen(1, seen)
    BY <1>3 DEF RecordInv, NoReplay, WindowIsExact, AtMostOnce
  <2> QED BY <2>1, <2>2 DEF SavedIsGood
<1>6. RecordTypeOK'
  BY <1>1, <1>4, ResetIsFresh DEF RecordTypeOK, Phases
<1> QED BY <1>1, <1>5, <1>6, ResetIsFresh DEF RecordInv

\* mbedtls_ssl_context_load() keeps the invariant.
LEMMA LoadKeepsInv ==
    ASSUME RecordInv, ContextLoad, UNCHANGED renegotiation
    PROVE  RecordInv'
<1>1. /\ RecordTypeOK /\ saved.valid
      /\ in_epoch' = 1 /\ in_window_top' = saved.top /\ in_window' = saved.window
      /\ badmac_seen' = saved.badmac /\ phase' = "idle" /\ future' = None
      /\ seen' = saved.seen /\ saved' = NothingSaved /\ UNCHANGED <<in_msgtype, in_hslen>>
  BY DEF RecordInv, ContextLoad, message
<1>2. NothingSaved \in SavedContexts
  BY FreshAssociation, CountersAreNat DEF NothingSaved, SavedContexts, Seqs
<1>3. RecordTypeOK'
  BY <1>1, <1>2, CountersAreNat DEF RecordTypeOK, SavedContexts, Epochs, Phases
<1>4. SavedIsGood'
  BY <1>1 DEF SavedIsGood, NothingSaved
<1>5. AntiReplay => /\ AtMostOnce(seen')
                    /\ Tracks(in_window', in_window_top', in_epoch', seen')
                    /\ LaterUnseen(in_epoch', seen')
  BY <1>1 DEF RecordInv, SavedIsGood
<1>6. NoReplay' /\ WindowIsExact' /\ (AntiReplay /\ Open => LaterUnseen(in_epoch, seen))'
  BY <1>5 DEF NoReplay, WindowIsExact, AtMostOnce
<1>7. EpochOfPhase' /\ HelloIsEpochZero'
  BY <1>1 DEF EpochOfPhase, HelloIsEpochZero
<1> QED BY <1>3, <1>4, <1>6, <1>7 DEF RecordInv

(* A record that fails authentication.                                     *)
LEMMA BadMacKeepsInv ==
    ASSUME RecordInv, NEW r \in Records, BadMac(r), UNCHANGED renegotiation
    PROVE  RecordInv'
<1>1. /\ RecordTypeOK /\ Open
      /\ UNCHANGED <<in_epoch, in_window_top, in_window, seen, saved>>
      /\ badmac_seen' \in {badmac_seen, badmac_seen + 1}
      /\ phase' \in {phase, "closed"}
      /\ in_msgtype' = "none" /\ in_hslen' = "zero"
      /\ future' \in Records \cup {None}
  BY DEF RecordInv, RecordTypeOK, BadMac, Arrives, window
<1>2. RecordTypeOK'
  BY <1>1 DEF RecordTypeOK, Phases
<1>3. EpochOfPhase' /\ HelloIsEpochZero'
  BY <1>1 DEF RecordInv, EpochOfPhase, HelloIsEpochZero
<1> QED BY <1>1, <1>2, <1>3, WindowUntouched DEF RecordInv

\* Every step keeps the invariant.
LEMMA NextKeepsInv == RecordInv /\ [RecordNext]_recordVars => RecordInv'
<1> SUFFICES ASSUME RecordInv, [RecordNext]_recordVars PROVE RecordInv'
  OBVIOUS
<1>0. UNCHANGED renegotiation
  BY DEF RecordNext, recordVars
<1>1. CASE \E r \in Records : AcceptRecord(r)
  BY <1>0, <1>1, AcceptKeepsInv
<1>2. CASE \E r \in Records : BadMac(r)
  BY <1>0, <1>2, BadMacKeepsInv
<1> DEFINE Same == UNCHANGED <<in_epoch, in_window_top, in_window, badmac_seen,
                               in_msgtype, in_hslen, renegotiation, saved, seen>>
<1>3. ASSUME Same, future' \in Records \cup {None}, phase' \in Phases, Open' => Open,
             EpochOfPhase', HelloIsEpochZero'
      PROVE  RecordInv'
  <2>1. RecordTypeOK'
    BY <1>3 DEF RecordInv, RecordTypeOK
  <2> QED BY <1>3, <2>1, WindowUntouched DEF RecordInv
<1>4. CASE \/ \E r \in Records : BufferFutureRecord(r)
           \/ DropBuffered
           \/ RecvFlightCompleted
           \/ Close
           \/ UNCHANGED recordVars
  <2>1. Same /\ future' \in Records \cup {None} /\ phase' \in {phase, "closed"} /\ (Open' => Open)
    BY <1>0, <1>4 DEF RecordInv, RecordTypeOK, BufferFutureRecord, DropBuffered, RecvFlightCompleted,
                Close, recordVars, window, message, Open
  <2>2. EpochOfPhase' /\ HelloIsEpochZero' /\ phase' \in Phases
    BY <2>1 DEF RecordInv, RecordTypeOK, EpochOfPhase, HelloIsEpochZero, Phases
  <2> QED BY <2>1, <2>2, <1>3
<1>5. CASE ParseFinished \/ FreeHandshake \/ StartRenegotiation
  <2>1. Same /\ future' = None /\ phase' \in {"over", "idle", "hello"} /\ Open
        /\ phase \in {"finished", "over", "idle"} /\ (phase' = "hello" => renegotiation)
    BY <1>0, <1>5 DEF ParseFinished, FreeHandshake, StartRenegotiation, HandshakeOver,
                window, message, Open
  <2>2. EpochOfPhase' /\ HelloIsEpochZero' /\ phase' \in Phases
    BY <2>1 DEF RecordInv, EpochOfPhase, HelloIsEpochZero, Phases
  <2> QED BY <2>1, <2>2, <1>3
<1>6. CASE ParseChangeCipherSpec
  BY <1>0, <1>6, ChangeCipherSpecKeepsInv
<1>7. CASE SessionReset \/ ClientReconnect
  <2>1. PICK partial \in BOOLEAN : Reset(partial)
    BY <1>7 DEF SessionReset, ClientReconnect
  <2>2. UNCHANGED saved /\ RecordTypeOK
    BY <1>7 DEF SessionReset, ClientReconnect, RecordInv
  <2>3. RecordTypeOK'
    BY <1>0, <2>1, <2>2, ResetIsFresh DEF RecordTypeOK, Phases
  <2>4. SavedIsGood'
    BY <2>2, SavedUntouched DEF RecordInv
  <2> QED BY <1>0, <2>1, <2>2, <2>3, <2>4, ResetIsFresh DEF RecordInv
<1>8. CASE ContextSave
  BY <1>0, <1>8, SaveKeepsInv
<1>9. CASE ContextLoad
  BY <1>0, <1>9, LoadKeepsInv
<1> QED BY <1>1, <1>2, <1>4, <1>5, <1>6, <1>7, <1>8, <1>9 DEF RecordNext

-----------------------------------------------------------------------------
(* The invariant, and what it says of the receiver.                        *)
THEOREM RecordInvariant == RecordSpec => []RecordInv
BY InitialState, NextKeepsInv, PTL DEF RecordSpec

(* No record is handed to the layer above twice, for any width of the      *)
(* window and any order, duplication or forgery of records.                *)
THEOREM RecordsAreNotReplayed == RecordSpec => []NoReplay
<1>1. RecordInv => NoReplay
  BY DEF RecordInv
<1> QED BY <1>1, RecordInvariant, PTL

(* Bit n of in_window is set iff record in_window_top - n was seen.        *)
THEOREM WindowStaysExact == RecordSpec => []WindowIsExact
<1>1. RecordInv => WindowIsExact
  BY DEF RecordInv
<1> QED BY <1>1, RecordInvariant, PTL

(* The receiver refuses a record only if it was seen or left the window.   *)
THEOREM FreshRecordsAreAccepted == RecordSpec => []FreshIsAccepted
<1>1. RecordInv => FreshIsAccepted
  <2> SUFFICES ASSUME RecordInv, Open, AntiReplay, NEW s \in Seqs,
                      seen[<<in_epoch, s>>] = 0, s > in_window_top - WindowBits,
                      ~(s > in_window_top)
               PROVE  in_window_top - s < WindowBits /\ in_window_top - s \notin in_window
    BY DEF FreshIsAccepted, ReplayCheck
  <2>1. s \in Nat /\ in_window_top \in Nat /\ WindowBits \in Nat
    BY NumbersAreNat, WindowIsPositive DEF RecordInv, RecordTypeOK
  <2>2. in_window_top - s \in Bits /\ in_window_top - s < WindowBits
    BY <2>1 DEF Bits
  <2>3. in_window_top - (in_window_top - s) = s
    BY <2>1
  <2>4. in_window_top - s \notin in_window
    BY <2>2, <2>3 DEF RecordInv, WindowIsExact, Tracks
  <2> QED BY <2>2, <2>4
<1> QED BY <1>1, RecordInvariant, PTL

-----------------------------------------------------------------------------
(* SslTicket: a ticket of the key that is not active was sealed before the *)
(* active key was drawn, so when the active key is past its lifetime and   *)
(* the other one is destroyed, the tickets that this loses are past        *)
(* theirs.                                                                 *)

Contexts == [ok : BOOLEAN, keys : [{0, 1} -> KeyRecords], active : {0, 1}, tickets : SUBSET Tickets]

(* u is t after key i was replaced: it may have lost the key's name or its *)
(* material, and nothing else.                                             *)
After(u, t, i) ==
    /\ u.age = t.age /\ u.lifetime = t.lifetime
    /\ u.name = t.name \/ (t.name = i /\ u.name = Gone)
    /\ u.key = t.key \/ (t.key = i /\ u.key = Gone)

(* A key whose name and material belong together has the lifetime that its *)
(* tickets announced.                                                      *)
TicketsMatchKeys(c) ==
    \A t \in c.tickets :
        t.key # Gone /\ t.name = t.key /\ c.keys[t.key].whole => t.lifetime = c.keys[t.key].lifetime

(* While no call fails, the application does not rotate and the clock runs *)
(* forward: both keys work, and their tickets were sealed in time.         *)
TicketsAreInTime(c, L) ==
    /\ \A i \in {0, 1} :
          /\ c.keys[i].key = "valid" /\ c.keys[i].lifetime = L /\ c.keys[i].age >= 0
          /\ ~build.have_time => c.keys[i].age = 0
    /\ \A t \in c.tickets :
          /\ t.lifetime = L /\ t.age >= 0 /\ t.name = t.key
          /\ t.key = c.active /\ L # 0 => c.keys[c.active].age < L + t.age
          /\ t.key = 1 - c.active =>
                build.have_time /\ L # 0 /\ (t.age > c.keys[c.active].age \/ t.age = OldAge)
          /\ t.key = Gone => t.age > L

(* A key was destroyed and not drawn again: it has been active, and keys   *)
(* without an end of their lifetime are not replaced.                      *)
StaleKeysExpire(c, L) ==
    /\ L = 0 => c.keys[c.active].lifetime = 0
    /\ \A i \in {0, 1} : c.keys[i].key = "stale" => build.psa /\ c.keys[i].lifetime # 0

TicketInv ==
    /\ TypeOK
    /\ TicketsMatchKeys(Context)
    /\ ~disturbed => TicketsAreInTime(Context, ticket_lifetime)
    /\ StaleKeysExpire(Context, ticket_lifetime)

-----------------------------------------------------------------------------
(* What replacing a key and updating the keys do                           *)

\* Ages are integers up to OldAge, which is above every lifetime.
LEMMA AgesAreIntegers ==
    /\ OldAge \in Nat /\ OldAge > 0 /\ Ages \subseteq Int /\ 0 \in Ages /\ OldAge \in Ages
    /\ \A l \in Lifetimes : l \in Nat /\ l < OldAge
    /\ \A a \in Ages : a <= OldAge
BY TicketConstants DEF OldAge, Ages

\* Replacing one key changes that key, and each ticket is an old one as it
\* looks after the change.
LEMMA ReplaceDoes ==
    ASSUME NEW c \in Contexts, NEW i \in {0, 1}, NEW key \in KeyRecords,
           NEW lost, NEW e, e = Replace(c, i, key, lost)
    PROVE  /\ e \in Contexts
           /\ e.ok = c.ok /\ e.active = c.active /\ e.keys = [c.keys EXCEPT ![i] = key]
           /\ \A u \in e.tickets : \E t \in c.tickets :
                 /\ After(u, t, i)
                 /\ "name" \in lost => u.name # i
                 /\ "material" \in lost => u.key # i
<1> DEFINE R(t) == [t EXCEPT !.name = IF t.name = i /\ "name" \in lost THEN Gone ELSE t.name,
                             !.key = IF t.key = i /\ "material" \in lost THEN Gone ELSE t.key]
<1>1. e = [ok |-> c.ok, keys |-> [c.keys EXCEPT ![i] = key], active |-> c.active,
           tickets |-> {R(t) : t \in c.tickets}]
  BY DEF Replace, Contexts
<1>2. ASSUME NEW t \in Tickets
      PROVE  /\ R(t) \in Tickets /\ After(R(t), t, i)
             /\ "name" \in lost => R(t).name # i
             /\ "material" \in lost => R(t).key # i
  BY TicketConstants DEF Tickets, After
<1> HIDE DEF R
<1> QED
  BY <1>1, <1>2 DEF Contexts

\* Destroying one key leaves the other one, and the key becomes stale only in
\* builds with PSA.
LEMMA DestroyDoes ==
    ASSUME NEW c \in Contexts, NEW i \in {0, 1}, NEW e, e = Destroy(c, i)
    PROVE  /\ e \in Contexts /\ e.ok = c.ok /\ e.active = c.active
           /\ \A j \in {0, 1} : j # i => e.keys[j] = c.keys[j]
           /\ e.keys[i].whole <=> c.keys[i].whole
           /\ e.keys[i].key = "stale" => build.psa \/ c.keys[i].key = "stale"
           /\ \A u \in e.tickets : \E t \in c.tickets : After(u, t, i)
<1>1. c.keys[i] \in KeyRecords
  BY DEF Contexts
<1>2. CASE build.psa /\ c.keys[i].key = "valid"
  <2> DEFINE k == [c.keys[i] EXCEPT !.key = "stale"]
  <2>1. k \in KeyRecords /\ (k.whole <=> c.keys[i].whole)
    BY <1>1 DEF KeyRecords
  <2>2. e = Replace(c, i, k, {"material"})
    BY <1>2 DEF Destroy
  <2> HIDE DEF k
  <2>3. /\ e \in Contexts /\ e.ok = c.ok /\ e.active = c.active
        /\ e.keys = [c.keys EXCEPT ![i] = k]
        /\ \A u \in e.tickets : \E t \in c.tickets : After(u, t, i)
    BY <2>1, <2>2, ReplaceDoes
  <2> QED
    BY <2>1, <2>3, <1>2 DEF Contexts
<1>3. CASE ~(build.psa /\ c.keys[i].key = "valid")
  <2>1. e = c
    BY <1>3 DEF Destroy
  <2>2. \A t : After(t, t, i)
    BY DEF After
  <2> QED
    BY <2>1, <2>2
<1> QED
  BY <1>2, <1>3

(* The cases of ssl_ticket_update_keys(): nothing to do; the other key,    *)
(* now active, cannot be destroyed; it was destroyed and drawn, or not.    *)
LEMMA UpdateKeysDoes ==
    ASSUME ticket_lifetime \in Lifetimes, NEW c \in Contexts, NEW outcome \in Outcomes,
           NEW e, e = UpdateKeys(c, outcome)
    PROVE  LET other == 1 - c.active IN
           /\ e \in Contexts
           /\ \/ KeyIsCurrent(c.keys[c.active]) /\ e = c
              \/ /\ ~KeyIsCurrent(c.keys[c.active]) /\ ~Destroys(c.keys[other])
                 /\ ~e.ok /\ e.keys = c.keys /\ e.active = other /\ e.tickets = c.tickets
              \/ /\ ~KeyIsCurrent(c.keys[c.active]) /\ Destroys(c.keys[other])
                 /\ e.ok <=> outcome = "ok"
                 /\ e.active = other
                 /\ e.keys[c.active] = c.keys[c.active]
                 /\ e.keys[other].age = 0 /\ e.keys[other].lifetime = ticket_lifetime
                 /\ e.keys[other].whole <=> outcome = "ok"
                 /\ outcome = "ok" => e.keys[other].key = "valid"
                 /\ e.keys[other].key = "stale" => build.psa \/ c.keys[other].key = "stale"
                 /\ \A u \in e.tickets : \E t \in c.tickets :
                       /\ After(u, t, other)
                       /\ outcome = "ok" => u.name # other /\ u.key # other
<1> DEFINE other == 1 - c.active
           flipped == [c EXCEPT !.active = other]
           d == Destroy(flipped, other)
           key == [age |-> 0, lifetime |-> ticket_lifetime,
                   key |-> CASE outcome = "ok" -> "valid"
                             [] outcome = "not_taken" -> "null"
                             [] OTHER -> d.keys[other].key,
                   whole |-> outcome = "ok"]
           g == Replace(d, other, key, Drawn(outcome))
<1>1. other \in {0, 1} /\ other # c.active /\ c.active \in {0, 1}
  BY DEF Contexts
<1>2. /\ flipped \in Contexts
      /\ flipped.ok = c.ok /\ flipped.keys = c.keys /\ flipped.active = other /\ flipped.tickets = c.tickets
  BY <1>1 DEF Contexts
<1>3. CASE KeyIsCurrent(c.keys[c.active])
  BY <1>3 DEF UpdateKeys
<1>4. CASE ~KeyIsCurrent(c.keys[c.active]) /\ ~Destroys(c.keys[other])
  <2>1. e = [flipped EXCEPT !.ok = FALSE]
    BY <1>4 DEF UpdateKeys
  <2>2. e \in Contexts /\ ~e.ok /\ e.keys = flipped.keys /\ e.active = flipped.active /\ e.tickets = flipped.tickets
    BY <2>1, <1>2 DEF Contexts
  <2> QED
    BY <2>2, <1>2, <1>4
<1>5. CASE ~KeyIsCurrent(c.keys[c.active]) /\ Destroys(c.keys[other])
  <2>1. /\ d \in Contexts /\ d.ok = c.ok /\ d.active = other
        /\ d.keys[c.active] = c.keys[c.active]
        /\ d.keys[other].key = "stale" => build.psa \/ c.keys[other].key = "stale"
        /\ \A u \in d.tickets : \E t \in c.tickets : After(u, t, other)
    <3>1. d = Destroy(flipped, other)
      OBVIOUS
    <3> HIDE DEF d, flipped, other
    <3> QED
      BY <3>1, <1>1, <1>2, DestroyDoes
  <2>2. key \in KeyRecords
    BY <2>1, <1>1, AgesAreIntegers DEF KeyRecords, Contexts
  <2>3. e = [g EXCEPT !.ok = (outcome = "ok")]
    BY <1>5, <1>2 DEF UpdateKeys, GenKey
  <2>4. /\ key.age = 0 /\ key.lifetime = ticket_lifetime
        /\ key.whole <=> outcome = "ok"
        /\ outcome = "ok" => key.key = "valid"
        /\ key.key = "stale" => d.keys[other].key = "stale"
    BY DEF Outcomes
  <2>5. /\ g = Replace(d, other, key, Drawn(outcome))
        /\ outcome = "ok" => Drawn(outcome) = {"name", "material"}
    BY DEF Drawn
  <2> HIDE DEF d, flipped, key, g, other
  <2>6. /\ g \in Contexts
        /\ g.ok = d.ok /\ g.active = d.active /\ g.keys = [d.keys EXCEPT ![other] = key]
        /\ \A u \in g.tickets : \E t \in d.tickets :
              /\ After(u, t, other)
              /\ outcome = "ok" => u.name # other /\ u.key # other
    BY <2>1, <2>2, <2>5, <1>1, ReplaceDoes
  <2>7. /\ e \in Contexts /\ (e.ok <=> outcome = "ok")
        /\ e.active = g.active /\ e.keys = g.keys /\ e.tickets = g.tickets
    BY <2>3, <2>6 DEF Contexts
  <2>8. e.keys[other] = key /\ e.keys[c.active] = c.keys[c.active]
    BY <2>1, <2>6, <2>7, <1>1 DEF Contexts
  <2>9. ASSUME NEW u \in e.tickets
        PROVE  \E t \in c.tickets :
                   /\ After(u, t, other)
                   /\ outcome = "ok" => u.name # other /\ u.key # other
    <3>1. PICK v \in d.tickets : After(u, v, other) /\ (outcome = "ok" => u.name # other /\ u.key # other)
      BY <2>6, <2>7
    <3>2. PICK t \in c.tickets : After(v, t, other)
      BY <2>1
    <3> QED
      BY <3>1, <3>2 DEF After
  <2>10. key.key = "stale" => build.psa \/ c.keys[other].key = "stale"
    BY <2>4, <2>1
  <2>11. /\ e \in Contexts /\ (e.ok <=> outcome = "ok")
         /\ e.active = other
    BY <2>1, <2>6, <2>7
  <2> QED
    BY <1>5, <2>4, <2>8, <2>9, <2>10, <2>11 DEF other
<1> QED
  BY <1>3, <1>4, <1>5

-----------------------------------------------------------------------------
(* The parts of the invariant and ssl_ticket_update_keys()                 *)

\* ssl_ticket_update_keys() keeps tickets in accordance with their keys,
\* whatever fails on the way.
LEMMA UpdateKeepsMatch ==
    ASSUME ticket_lifetime \in Lifetimes, NEW c \in Contexts, NEW outcome \in Outcomes, TicketsMatchKeys(c),
           NEW e, e = UpdateKeys(c, outcome)
    PROVE  TicketsMatchKeys(e)
<1> SUFFICES ASSUME NEW u \in e.tickets, u.key # Gone, u.name = u.key, e.keys[u.key].whole
             PROVE  u.lifetime = e.keys[u.key].lifetime
  BY DEF TicketsMatchKeys
<1>1. e \in Contexts /\ u \in Tickets /\ u.key \in {0, 1} /\ c.active \in {0, 1}
  BY UpdateKeysDoes DEF Contexts, Tickets
<1>2. CASE e.keys = c.keys /\ e.tickets = c.tickets
  BY <1>2 DEF TicketsMatchKeys
<1>3. CASE /\ e.keys[c.active] = c.keys[c.active]
           /\ e.keys[1 - c.active].whole <=> outcome = "ok"
           /\ \E t \in c.tickets :
                 /\ After(u, t, 1 - c.active)
                 /\ outcome = "ok" => u.name # 1 - c.active /\ u.key # 1 - c.active
  <2>1. u.key = c.active
    BY <1>1, <1>3
  <2> QED
    BY <2>1, <1>3 DEF TicketsMatchKeys, After
<1> QED
  BY <1>2, <1>3, UpdateKeysDoes

\* ssl_ticket_update_keys() without a failure replaces no key whose tickets
\* are within their lifetime, and leaves an active key that is.
LEMMA UpdateKeepsTime ==
    ASSUME ticket_lifetime \in Lifetimes, NEW c \in Contexts, NEW outcome \in Outcomes,
           TicketsAreInTime(c, ticket_lifetime), NEW e, e = UpdateKeys(c, outcome), c.ok
    PROVE  /\ outcome = "ok" => e.ok
           /\ e.ok => /\ TicketsAreInTime(e, ticket_lifetime)
                      /\ ticket_lifetime # 0 => e.keys[e.active].age < ticket_lifetime
<1> DEFINE L == ticket_lifetime
           other == 1 - c.active
<1>1. L \in Nat /\ L < OldAge /\ c.active \in {0, 1} /\ other \in {0, 1} /\ other # c.active
  BY AgesAreIntegers DEF Contexts
<1>2. c.keys[c.active].age \in Int /\ c.keys[other].age \in Int
  BY <1>1, AgesAreIntegers DEF Contexts, KeyRecords
<1>3. CASE KeyIsCurrent(c.keys[c.active]) /\ e = c
  <2>1. L # 0 => c.keys[c.active].age < L
    BY <1>1, <1>2, <1>3 DEF KeyIsCurrent, TicketsAreInTime
  <2> QED
    BY <2>1, <1>3
<1>4. CASE ~KeyIsCurrent(c.keys[c.active]) /\ ~Destroys(c.keys[other])
  BY <1>4, <1>1 DEF Destroys, TicketsAreInTime
<1>5. CASE ~KeyIsCurrent(c.keys[c.active]) /\ Destroys(c.keys[other])
  <2>1. build.have_time /\ L # 0 /\ c.keys[c.active].age >= L
    BY <1>1, <1>2, <1>5 DEF KeyIsCurrent, TicketsAreInTime
  <2>2. /\ e \in Contexts /\ (e.ok <=> outcome = "ok")
        /\ e.active = other
        /\ e.keys[c.active] = c.keys[c.active]
        /\ e.keys[other].age = 0 /\ e.keys[other].lifetime = L
        /\ outcome = "ok" => e.keys[other].key = "valid"
        /\ \A u \in e.tickets : \E t \in c.tickets :
              /\ After(u, t, other)
              /\ outcome = "ok" => u.name # other /\ u.key # other
    BY <1>1, <1>5, UpdateKeysDoes
  <2>3. SUFFICES ASSUME outcome = "ok"
                 PROVE  TicketsAreInTime(e, L)
    BY <2>2, <1>1
  <2>4. ASSUME NEW u \in e.tickets
        PROVE  /\ u.lifetime = L /\ u.age >= 0 /\ u.name = u.key
               /\ u.key # other
               /\ u.key = c.active => u.age > 0
               /\ u.key = Gone => u.age > L
    <3>1. PICK t \in c.tickets : After(u, t, other) /\ u.name # other /\ u.key # other
      BY <2>2, <2>3
    <3>2. t.age \in Int /\ t.key \in {0, 1, Gone}
      BY AgesAreIntegers DEF Contexts, Tickets
    <3>3. t.lifetime = L /\ t.age >= 0 /\ t.name = t.key
      BY DEF TicketsAreInTime
    <3>4. CASE t.key = other
      <4>1. t.age > L
        BY <3>2, <3>4, <2>1, <1>1, <1>2 DEF TicketsAreInTime
      <4> QED
        BY <4>1, <3>1, <3>3, <3>4, TicketConstants, <1>1 DEF After
    <3>5. CASE t.key = c.active
      <4>1. t.age > 0
        BY <3>2, <3>5, <2>1, <1>1, <1>2 DEF TicketsAreInTime
      <4> QED
        BY <4>1, <3>1, <3>3, <3>5, TicketConstants, <1>1 DEF After
    <3>6. CASE t.key = Gone
      BY <3>1, <3>3, <3>6, TicketConstants, <1>1 DEF After, TicketsAreInTime
    <3> QED
      BY <3>2, <3>4, <3>5, <3>6, <1>1
  <2>5. \A i \in {0, 1} : e.keys[i].key = "valid" /\ e.keys[i].lifetime = L /\ e.keys[i].age >= 0
    BY <2>2, <2>3, <1>1 DEF TicketsAreInTime
  <2> QED
    BY <2>1, <2>2, <2>4, <2>5, <1>1 DEF TicketsAreInTime
<1> QED
  BY <1>3, <1>4, <1>5, UpdateKeysDoes

\* ssl_ticket_update_keys() leaves only keys stale that expire and were
\* destroyed in the key store of PSA.
LEMMA UpdateKeepsStale ==
    ASSUME ticket_lifetime \in Lifetimes, NEW c \in Contexts, NEW outcome \in Outcomes,
           StaleKeysExpire(c, ticket_lifetime), NEW e, e = UpdateKeys(c, outcome)
    PROVE  StaleKeysExpire(e, ticket_lifetime)
<1>1. c.active \in {0, 1}
  BY DEF Contexts
<1>2. ~KeyIsCurrent(c.keys[c.active]) => ticket_lifetime # 0
  BY DEF KeyIsCurrent, StaleKeysExpire
<1> QED
  BY <1>1, <1>2, UpdateKeysDoes DEF StaleKeysExpire

-----------------------------------------------------------------------------
(* The calls                                                               *)

\* The state as one record, which the operations take and return.
LEMMA ContextIsTyped ==
    /\ TypeOK <=> /\ Context \in Contexts /\ build \in Builds
                  /\ ticket_lifetime \in Lifetimes /\ disturbed \in BOOLEAN
    /\ Context.ok /\ Context.keys = keys /\ Context.active = active /\ Context.tickets = tickets
BY DEF TypeOK, Context, Contexts

(* An update that draws a key whole.                                       *)
LEMMA UpdateReplaces ==
    ASSUME ticket_lifetime \in Lifetimes, NEW c \in Contexts, NEW other, other = 1 - c.active,
           ~KeyIsCurrent(c.keys[c.active]), Destroys(c.keys[other]), NEW e, e = UpdateKeys(c, "ok")
    PROVE  e.ok /\ e.active = other /\ e.keys[other].key = "valid"
<1>1. "ok" \in Outcomes
  BY DEF Outcomes
<1> QED
  BY <1>1, UpdateKeysDoes

(* What an update of the keys leaves is a context of the invariant.        *)
LEMMA UpdateKeepsAll ==
    ASSUME TicketInv, NEW outcome \in Outcomes, NEW c, c = UpdateKeys(Context, outcome)
    PROVE  /\ c \in Contexts
           /\ TicketsMatchKeys(c)
           /\ ~disturbed /\ c.ok =>
                 /\ TicketsAreInTime(c, ticket_lifetime)
                 /\ ticket_lifetime # 0 => c.keys[c.active].age < ticket_lifetime
           /\ StaleKeysExpire(c, ticket_lifetime)
<1>1. Context \in Contexts /\ Context.ok /\ ticket_lifetime \in Lifetimes
  BY ContextIsTyped DEF TicketInv
<1>2. c \in Contexts
  BY <1>1, UpdateKeysDoes
<1> QED
  BY <1>1, <1>2, UpdateKeepsMatch, UpdateKeepsTime, UpdateKeepsStale DEF TicketInv

\* mbedtls_ssl_ticket_write() keeps the invariant.
LEMMA TicketWriteKeeps ==
    ASSUME TicketInv, NEW outcome \in Outcomes, NEW iv \in BOOLEAN, TicketWrite(outcome, iv)
    PROVE  TicketInv'
<1> DEFINE c == UpdateKeys(Context, outcome)
           new == [name |-> c.active, key |-> c.active, age |-> 0,
                   lifetime |-> c.keys[c.active].lifetime]
<1>1. /\ c \in Contexts /\ TicketsMatchKeys(c) /\ StaleKeysExpire(c, ticket_lifetime)
      /\ ~disturbed /\ c.ok =>
            /\ TicketsAreInTime(c, ticket_lifetime)
            /\ ticket_lifetime # 0 => c.keys[c.active].age < ticket_lifetime
  BY UpdateKeepsAll
<1>2. /\ keys' = c.keys /\ active' = c.active /\ tickets' \in {c.tickets, c.tickets \cup {new}}
      /\ build' = build /\ ticket_lifetime' = ticket_lifetime
      /\ disturbed' = (disturbed \/ ~c.ok)
  BY DEF TicketWrite, Apply
<1> HIDE DEF c
<1>3. new \in Tickets /\ c.active \in {0, 1} /\ c.keys[c.active].lifetime \in Nat
  BY <1>1, AgesAreIntegers DEF Contexts, Tickets, KeyRecords
<1>4. TypeOK'
  BY <1>1, <1>2, <1>3 DEF TicketInv, TypeOK, Contexts
<1>5. TicketsMatchKeys(Context)'
  BY <1>1, <1>2 DEF TicketsMatchKeys, Context
<1>6. ~disturbed' => TicketsAreInTime(Context, ticket_lifetime)'
  <2>1. SUFFICES ASSUME ~disturbed, c.ok
                 PROVE  TicketsAreInTime(Context, ticket_lifetime)'
    BY <1>2
  <2>2. /\ new.lifetime = ticket_lifetime /\ new.age >= 0 /\ new.name = new.key
        /\ new.key = c.active /\ new.key # 1 - c.active /\ new.key # Gone
        /\ ticket_lifetime # 0 => c.keys[c.active].age < ticket_lifetime + new.age
    BY <2>1, <1>1, <1>3, TicketConstants DEF TicketsAreInTime
  <2> HIDE DEF new
  <2> QED
    BY <2>1, <2>2, <1>1, <1>2 DEF TicketsAreInTime, Context
<1>7. StaleKeysExpire(Context, ticket_lifetime)'
  BY <1>1, <1>2 DEF StaleKeysExpire, Context
<1> QED
  BY <1>4, <1>5, <1>6, <1>7 DEF TicketInv

\* mbedtls_ssl_ticket_parse() keeps the invariant.
LEMMA TicketParseKeeps ==
    ASSUME TicketInv, NEW outcome \in Outcomes, TicketParse(outcome)
    PROVE  TicketInv'
<1> DEFINE c == UpdateKeys(Context, outcome)
<1>1. /\ c \in Contexts /\ TicketsMatchKeys(c) /\ StaleKeysExpire(c, ticket_lifetime)
      /\ ~disturbed /\ c.ok => TicketsAreInTime(c, ticket_lifetime)
  BY UpdateKeepsAll
<1>2. /\ keys' = c.keys /\ active' = c.active /\ tickets' = c.tickets
      /\ build' = build /\ ticket_lifetime' = ticket_lifetime
      /\ disturbed' = (disturbed \/ ~c.ok)
  BY DEF TicketParse, Apply
<1> HIDE DEF c
<1>3. TypeOK'
  BY <1>1, <1>2 DEF TicketInv, TypeOK, Contexts
<1>4. TicketsMatchKeys(Context)'
  BY <1>1, <1>2 DEF TicketsMatchKeys, Context
<1>5. (~disturbed => TicketsAreInTime(Context, ticket_lifetime))'
  BY <1>1, <1>2 DEF TicketsAreInTime, Context
<1>6. StaleKeysExpire(Context, ticket_lifetime)'
  BY <1>1, <1>2 DEF StaleKeysExpire, Context
<1> QED
  BY <1>3, <1>4, <1>5, <1>6 DEF TicketInv

\* mbedtls_ssl_ticket_rotate() keeps the invariant.
LEMMA TicketRotateKeeps ==
    ASSUME TicketInv, NEW lifetime \in Lifetimes, NEW taken \in BOOLEAN, TicketRotate(lifetime, taken)
    PROVE  TicketInv'
<1> DEFINE idx == 1 - active
           d == Destroy(Context, idx)
           null == [d.keys[idx] EXCEPT !.key = "null", !.whole = FALSE]
           new == [age |-> 0, lifetime |-> lifetime, key |-> "valid", whole |-> TRUE]
           lost == Replace(d, idx, null, {"material"})
           rotated == Replace(d, idx, new, {"name", "material"})
<1>1. Context \in Contexts /\ active \in {0, 1} /\ idx \in {0, 1} /\ idx # active
  BY ContextIsTyped DEF TicketInv, TypeOK
<1>2. d.keys[idx] \in KeyRecords /\ null \in KeyRecords /\ ~null.whole /\ null.key = "null"
  <2>1. d \in Contexts
    BY <1>1, DestroyDoes
  <2> HIDE DEF d, idx
  <2>2. d.keys[idx] \in KeyRecords
    BY <2>1, <1>1 DEF Contexts
  <2> QED
    BY <2>2 DEF KeyRecords
<1>3. new \in KeyRecords /\ new.key = "valid" /\ new.lifetime = lifetime
  BY AgesAreIntegers DEF KeyRecords
<1>4. build' = build /\ disturbed' = TRUE
  BY DEF TicketRotate
<1>5. \/ keys' = keys /\ active' = active /\ tickets' = tickets /\ ticket_lifetime' = ticket_lifetime
      \/ /\ keys' = lost.keys /\ active' = lost.active /\ tickets' = lost.tickets
         /\ ticket_lifetime' = IF lost.active = idx THEN lifetime ELSE ticket_lifetime
      \/ /\ keys' = [rotated EXCEPT !.active = idx].keys /\ active' = [rotated EXCEPT !.active = idx].active
         /\ tickets' = [rotated EXCEPT !.active = idx].tickets
         /\ ticket_lifetime' = IF [rotated EXCEPT !.active = idx].active = idx THEN lifetime ELSE ticket_lifetime
  BY <1>1 DEF TicketRotate, Apply, Context
<1>6. /\ d \in Contexts /\ d.active = active
      /\ \A j \in {0, 1} : j # idx => d.keys[j] = keys[j]
      /\ \A u \in d.tickets : \E t \in tickets : After(u, t, idx)
  BY <1>1, DestroyDoes, ContextIsTyped
<1>7. lost = Replace(d, idx, null, {"material"}) /\ rotated = Replace(d, idx, new, {"name", "material"})
  OBVIOUS
<1> HIDE DEF d, null, new, idx, lost, rotated
<1>8. /\ lost \in Contexts /\ lost.active = active
      /\ lost.keys = [d.keys EXCEPT ![idx] = null]
      /\ \A u \in lost.tickets : \E t \in d.tickets : After(u, t, idx)
  BY <1>1, <1>2, <1>6, <1>7, ReplaceDoes
<1>9. /\ rotated \in Contexts /\ rotated.keys = [d.keys EXCEPT ![idx] = new]
      /\ \A u \in rotated.tickets : /\ u.name # idx
                                     /\ \E t \in d.tickets : After(u, t, idx)
  <2>1. /\ rotated \in Contexts /\ rotated.keys = [d.keys EXCEPT ![idx] = new]
        /\ \A u \in rotated.tickets : \E t \in d.tickets : After(u, t, idx) /\ u.name # idx
    BY <1>1, <1>3, <1>6, <1>7, ReplaceDoes
  <2> QED
    BY <2>1
<1>10. TypeOK'
  BY <1>1, <1>4, <1>5, <1>8, <1>9, ContextIsTyped DEF TicketInv, TypeOK, Contexts
<1>11. TicketsMatchKeys(Context)'
  <2> SUFFICES ASSUME NEW u \in tickets', u.key # Gone, u.name = u.key, keys'[u.key].whole
               PROVE  u.lifetime = keys'[u.key].lifetime
    BY DEF TicketsMatchKeys, Context
  <2>1. CASE keys' = keys /\ tickets' = tickets
    BY <2>1 DEF TicketInv, TicketsMatchKeys, Context
  <2>2. u.key \in {0, 1}
    BY <1>10 DEF TypeOK, Tickets
  <2>3. CASE /\ u.key # idx /\ keys'[u.key] = keys[u.key]
             /\ \E v \in d.tickets : After(u, v, idx)
    <3>1. PICK v \in d.tickets : After(u, v, idx)
      BY <2>3
    <3>2. PICK t \in tickets : After(v, t, idx)
      BY <1>6
    <3>3. t \in tickets /\ t.key = u.key /\ t.name = u.name /\ t.lifetime = u.lifetime
      BY <2>3, <3>1, <3>2 DEF After
    <3> QED
      BY <3>3, <2>3 DEF TicketInv, TicketsMatchKeys, Context
  <2>4. CASE keys' = lost.keys /\ tickets' = lost.tickets
    BY <2>2, <2>3, <2>4, <1>1, <1>2, <1>6, <1>8 DEF Contexts
  <2>5. CASE keys' = rotated.keys /\ tickets' = rotated.tickets
    BY <2>2, <2>3, <2>5, <1>1, <1>6, <1>9 DEF Contexts
  <2> QED
    BY <2>1, <2>4, <2>5, <1>5, <1>8, <1>9 DEF Contexts
<1>12. StaleKeysExpire(Context, ticket_lifetime)'
  BY <1>1, <1>2, <1>3, <1>4, <1>5, <1>6, <1>8, <1>9 DEF TicketInv, StaleKeysExpire, Context, Contexts
<1> QED
  BY <1>4, <1>10, <1>11, <1>12 DEF TicketInv

-----------------------------------------------------------------------------
(* The clock and the clients                                               *)

\* Ages go up by one to OldAge, where they stay, and down by one.
LEMMA AgedDoes ==
    ASSUME NEW age \in Ages
    PROVE  /\ Aged(age, 1) \in Ages
           /\ age < OldAge => Aged(age, 1) = age + 1
           /\ age = OldAge => Aged(age, 1) = OldAge
           /\ age >= 0 => Aged(age, -1) \in Ages
BY AgesAreIntegers DEF Aged, Ages

\* The clock ages keys and tickets alike.
LEMMA ClockDoes ==
    ASSUME TypeOK, NEW by, Clock(by)
    PROVE  /\ build' = build /\ active' = active /\ ticket_lifetime' = ticket_lifetime
           /\ keys' = [i \in {0, 1} |-> [keys[i] EXCEPT !.age = Aged(keys[i].age, by)]]
           /\ \A u \in tickets' : \E t \in tickets : u = [t EXCEPT !.age = Aged(t.age, by)]
BY DEF Clock

\* The clock does not touch what says which tickets are of which key.
LEMMA ClockKeepsMatch ==
    ASSUME TicketInv, NEW by, Clock(by),
           \A i \in {0, 1} : Aged(keys[i].age, by) \in Ages,
           \A t \in tickets : Aged(t.age, by) \in Ages
    PROVE  /\ keys' \in [{0, 1} -> KeyRecords] /\ tickets' \subseteq Tickets
           /\ TicketsMatchKeys(Context)'
           /\ StaleKeysExpire(Context, ticket_lifetime)'
<1>1. keys' \in [{0, 1} -> KeyRecords]
  BY ClockDoes DEF TicketInv, TypeOK, KeyRecords
<1>2. \A i \in {0, 1} : /\ keys'[i].lifetime = keys[i].lifetime /\ keys'[i].key = keys[i].key
                        /\ keys'[i].whole = keys[i].whole
  BY ClockDoes DEF TicketInv, TypeOK, KeyRecords
<1>3. ASSUME NEW u \in tickets'
      PROVE  /\ u \in Tickets
             /\ \E t \in tickets : u.name = t.name /\ u.key = t.key /\ u.lifetime = t.lifetime
  <2>1. PICK t \in tickets : u = [t EXCEPT !.age = Aged(t.age, by)]
    BY ClockDoes DEF TicketInv
  <2>2. t \in Tickets
    BY DEF TicketInv, TypeOK
  <2> QED
    BY <2>1, <2>2 DEF Tickets
<1>4. TicketsMatchKeys(Context)'
  <2> SUFFICES ASSUME NEW u \in tickets', u.key # Gone, u.name = u.key, keys'[u.key].whole
               PROVE  u.lifetime = keys'[u.key].lifetime
    BY DEF TicketsMatchKeys, Context
  <2>1. PICK t \in tickets : u.name = t.name /\ u.key = t.key /\ u.lifetime = t.lifetime
    BY <1>3
  <2>2. u.key \in {0, 1}
    BY <1>3 DEF Tickets
  <2>3. t.key # Gone /\ t.name = t.key /\ keys[t.key].whole
    BY <2>1, <2>2, <1>2
  <2>4. t.lifetime = keys[t.key].lifetime
    BY <2>3 DEF TicketInv, TicketsMatchKeys, Context
  <2> QED
    BY <2>1, <2>2, <2>4, <1>2
<1>5. StaleKeysExpire(Context, ticket_lifetime)'
  BY <1>2, ClockDoes DEF TicketInv, TypeOK, StaleKeysExpire, Context
<1> QED
  BY <1>1, <1>3, <1>4, <1>5

\* Time that passes keeps the invariant.
LEMMA TickKeeps ==
    ASSUME TicketInv, Tick
    PROVE  TicketInv'
<1>1. Clock(1) /\ build.have_time /\ disturbed' = disturbed
  BY DEF Tick
<1>2. /\ \A i \in {0, 1} : keys[i].age \in Ages /\ keys[i] \in KeyRecords
      /\ \A t \in tickets : t.age \in Ages /\ t \in Tickets
      /\ active \in {0, 1} /\ ticket_lifetime \in Nat /\ ticket_lifetime < OldAge
  BY AgesAreIntegers DEF TicketInv, TypeOK, KeyRecords, Tickets
<1>3. /\ keys' \in [{0, 1} -> KeyRecords] /\ tickets' \subseteq Tickets
      /\ TicketsMatchKeys(Context)' /\ StaleKeysExpire(Context, ticket_lifetime)'
  BY <1>1, <1>2, AgedDoes, ClockKeepsMatch
<1>4. TypeOK'
  BY <1>1, <1>3, ClockDoes DEF TicketInv, TypeOK
<1>5. ASSUME ~disturbed
      PROVE  TicketsAreInTime(Context, ticket_lifetime)'
  <2> DEFINE L == ticket_lifetime
  <2>1. /\ build' = build /\ active' = active /\ ticket_lifetime' = L
        /\ \A i \in {0, 1} : /\ keys'[i].key = keys[i].key /\ keys'[i].lifetime = keys[i].lifetime
                             /\ keys'[i].age = Aged(keys[i].age, 1)
    BY <1>1, <1>2, ClockDoes DEF TicketInv, KeyRecords
  <2>2. TicketsAreInTime(Context, L)
    BY <1>5 DEF TicketInv
  <2>3. ASSUME NEW u \in tickets'
        PROVE  /\ u.lifetime = L /\ u.age >= 0 /\ u.name = u.key
               /\ u.key = active /\ L # 0 => keys'[active].age < L + u.age
               /\ u.key = 1 - active => L # 0 /\ (u.age > keys'[active].age \/ u.age = OldAge)
               /\ u.key = Gone => u.age > L
    <3>1. PICK t \in tickets : u = [t EXCEPT !.age = Aged(t.age, 1)]
      BY <1>1, ClockDoes DEF TicketInv
    <3>2. /\ u.lifetime = t.lifetime /\ u.name = t.name /\ u.key = t.key
          /\ u.age = Aged(t.age, 1)
      BY <3>1, <1>2 DEF Tickets
    <3>3. /\ t.lifetime = L /\ t.age >= 0 /\ t.name = t.key
          /\ t.key = active /\ L # 0 => keys[active].age < L + t.age
          /\ t.key = 1 - active => L # 0 /\ (t.age > keys[active].age \/ t.age = OldAge)
          /\ t.key = Gone => t.age > L
      BY <2>2 DEF TicketsAreInTime, Context
    <3>4. \A a \in {t.age, keys[active].age} :
             /\ a \in Int /\ a <= OldAge
             /\ a < OldAge => Aged(a, 1) = a + 1
             /\ a = OldAge => Aged(a, 1) = OldAge
      BY <1>2, AgedDoes, AgesAreIntegers
    <3> QED
      BY <3>2, <3>3, <3>4, <2>1, <1>2, AgesAreIntegers
  <2>4. \A i \in {0, 1} : keys'[i].key = "valid" /\ keys'[i].lifetime = L /\ keys'[i].age >= 0
    <3>1. \A a \in Ages : a >= 0 => Aged(a, 1) >= 0
      BY AgedDoes, AgesAreIntegers DEF Ages
    <3> QED
      BY <2>1, <2>2, <1>2, <3>1 DEF TicketsAreInTime, Context
  <2> QED
    BY <1>1, <2>1, <2>3, <2>4 DEF TicketsAreInTime, Context
<1> QED
  BY <1>1, <1>3, <1>4, <1>5 DEF TicketInv

\* A clock that is set back keeps the invariant.
LEMMA ClockBackKeeps ==
    ASSUME TicketInv, ClockBack
    PROVE  TicketInv'
<1>1. Clock(-1) /\ disturbed' = TRUE
  BY DEF ClockBack
<1>2. /\ \A i \in {0, 1} : Aged(keys[i].age, -1) \in Ages
      /\ \A t \in tickets : Aged(t.age, -1) \in Ages
  BY AgedDoes DEF ClockBack, TicketInv, TypeOK, KeyRecords, Tickets
<1>3. /\ keys' \in [{0, 1} -> KeyRecords] /\ tickets' \subseteq Tickets
      /\ TicketsMatchKeys(Context)' /\ StaleKeysExpire(Context, ticket_lifetime)'
  BY <1>1, <1>2, ClockKeepsMatch
<1> QED
  BY <1>1, <1>3, ClockDoes DEF TicketInv, TypeOK

\* A client that forgets a ticket keeps the invariant.
LEMMA DiscardKeeps ==
    ASSUME TicketInv, NEW t \in tickets, Discard(t)
    PROVE  TicketInv'
BY DEF Discard, TicketInv, TypeOK, TicketsMatchKeys, TicketsAreInTime, StaleKeysExpire, Context

-----------------------------------------------------------------------------
(* The theorems                                                            *)

\* mbedtls_ssl_ticket_setup() establishes the invariant.
LEMMA InitIsGood == Init => TicketInv
<1> SUFFICES ASSUME Init PROVE TicketInv
  OBVIOUS
<1>1. ticket_lifetime \in Nat
  BY AgesAreIntegers DEF Init
<1>2. TypeOK
  BY AgesAreIntegers DEF Init, TypeOK, KeyRecords
<1> QED
  BY <1>1, <1>2 DEF Init, TicketInv, TicketsMatchKeys, TicketsAreInTime, StaleKeysExpire, Context

\* Every step keeps the invariant.
LEMMA StepKeeps == TicketInv /\ [Next]_vars => TicketInv'
<1> SUFFICES ASSUME TicketInv, [Next]_vars PROVE TicketInv'
  OBVIOUS
<1>1. CASE UNCHANGED vars
  BY <1>1
  DEF vars, TicketInv, TypeOK, TicketsMatchKeys, TicketsAreInTime, StaleKeysExpire, Context
<1> QED
  BY <1>1, TicketWriteKeeps, TicketParseKeeps, TicketRotateKeeps, TickKeeps, ClockBackKeeps, DiscardKeeps
  DEF Next, Write

\* The inductive invariant of the ticket keys holds in every reachable state.
THEOREM TicketInvariant == Spec => []TicketInv
BY InitIsGood, StepKeeps, PTL DEF Spec

\* The invariant implies that tickets within their lifetime are accepted.
LEMMA InTimeIsAccepted == TicketInv => LiveTicketsResume
<1> DEFINE c == UpdateKeys(Context, "ok")
<1> SUFFICES ASSUME TicketInv, ~disturbed, NEW t \in c.tickets, t.age <= t.lifetime
             PROVE  Accepts(c, t)
  BY DEF LiveTicketsResume
<1>1. c \in Contexts /\ TicketsAreInTime(c, ticket_lifetime)
  <2>1. Context \in Contexts /\ Context.ok /\ ticket_lifetime \in Lifetimes /\ "ok" \in Outcomes
    BY ContextIsTyped DEF TicketInv, Outcomes
  <2> HIDE DEF c
  <2>2. c.ok
    BY <2>1, UpdateKeepsTime DEF TicketInv, c
  <2> QED
    BY <2>1, <2>2, UpdateKeepsAll DEF c
<1> HIDE DEF c
<1>2. t.key \in {0, 1, Gone} /\ t.age \in Int /\ ticket_lifetime \in Nat
  BY <1>1, AgesAreIntegers DEF Contexts, Tickets, TicketInv, TypeOK
<1> QED
  BY <1>1, <1>2 DEF TicketsAreInTime, Accepts

\* The invariant implies that no ticket outlives its lifetime.
LEMMA MatchKeepsLifetime == TicketInv => LifetimeIsKept
<1> DEFINE c == UpdateKeys(Context, "ok")
<1> SUFFICES ASSUME TicketInv, NEW t \in c.tickets, build.have_time, Accepts(c, t), c.keys[t.key].whole
             PROVE  t.age <= t.lifetime
  BY DEF LifetimeIsKept
<1>1. c \in Contexts /\ TicketsMatchKeys(c)
  BY UpdateKeepsAll DEF Outcomes
<1> HIDE DEF c
<1>2. t.lifetime = c.keys[t.key].lifetime /\ t.lifetime \in Nat
  BY <1>1, AgesAreIntegers DEF Accepts, TicketsMatchKeys, Contexts, Tickets
<1> QED
  BY <1>2 DEF Accepts

\* The invariant implies that two calls are enough to write tickets again.
LEMMA StaleKeysAreReplaced == TicketInv => TicketsComeBack
<1> DEFINE old == [Context EXCEPT !.keys = [i \in {0, 1} |-> [keys[i] EXCEPT !.age = OldAge]]]
           first == UpdateKeys(old, "ok")
           again == [first EXCEPT !.ok = TRUE]
           second == UpdateKeys(again, "ok")
           other == 1 - active
<1> SUFFICES ASSUME TicketInv, build.have_time, keys[active].lifetime # 0,
                    NEW i \in {0, 1}, keys[i].key # "stale"
             PROVE  CanSeal(first) \/ CanSeal(second)
  BY DEF TicketsComeBack
<1>1. /\ Context \in Contexts /\ active \in {0, 1} /\ other \in {0, 1} /\ other # active
      /\ ticket_lifetime \in Lifetimes /\ "ok" \in Outcomes
  BY ContextIsTyped DEF TicketInv, TypeOK, Outcomes
<1>2. /\ old \in Contexts /\ old.ok /\ old.active = active
      /\ \A j \in {0, 1} : /\ old.keys[j].age = OldAge /\ old.keys[j].key = keys[j].key
                           /\ old.keys[j].lifetime = keys[j].lifetime
  <2> DEFINE k == [j \in {0, 1} |-> [keys[j] EXCEPT !.age = OldAge]]
  <2>1. old = [ok |-> TRUE, keys |-> k, active |-> active, tickets |-> tickets]
    <3>1. old = [Context EXCEPT !.keys = k] /\ Context \in Contexts
      BY <1>1
    <3> HIDE DEF k, old
    <3> QED
      BY <3>1, ContextIsTyped DEF Contexts
  <2>2. k \in [{0, 1} -> KeyRecords]
    BY AgesAreIntegers DEF TicketInv, TypeOK, KeyRecords
  <2>3. \A j \in {0, 1} : k[j].age = OldAge /\ k[j].key = keys[j].key /\ k[j].lifetime = keys[j].lifetime
    BY DEF TicketInv, TypeOK, KeyRecords
  <2> HIDE DEF k, old
  <2> QED
    BY <2>1, <2>2, <2>3 DEF Contexts, TicketInv, TypeOK
<1>3. \A j \in {0, 1} : keys[j].lifetime # 0 => ~KeyIsCurrent(old.keys[j])
  <2>1. \A j \in {0, 1} : keys[j].lifetime \in Nat /\ keys[j].lifetime < OldAge
    BY AgesAreIntegers DEF TicketInv, TypeOK, KeyRecords
  <2> HIDE DEF old
  <2> QED
    BY <2>1, <1>2, AgesAreIntegers DEF KeyIsCurrent
<1>4. first = UpdateKeys(old, "ok") /\ again = [first EXCEPT !.ok = TRUE] /\ second = UpdateKeys(again, "ok")
  OBVIOUS
<1> HIDE DEF old, first, again, second
<1>5. CASE Destroys(old.keys[other])
  <2>1. first.ok /\ first.active = other /\ first.keys[other].key = "valid"
    BY <1>1, <1>2, <1>3, <1>4, <1>5, UpdateReplaces
  <2> QED
    BY <2>1 DEF CanSeal
<1>6. CASE ~Destroys(old.keys[other])
  <2>1. first \in Contexts /\ first.keys = old.keys /\ first.active = other
    BY <1>1, <1>2, <1>3, <1>4, <1>6, UpdateKeysDoes
  <2>2. again \in Contexts /\ again.keys = old.keys /\ again.active = other
    BY <2>1, <1>4 DEF Contexts
  <2>3. old.keys[other].key = "stale" /\ keys[other].lifetime # 0
    BY <1>1, <1>2, <1>6 DEF Destroys, TicketInv, StaleKeysExpire, Context
  <2>4. Destroys(old.keys[active]) /\ 1 - other = active
    BY <2>3, <1>1, <1>2 DEF Destroys
  <2>5. second.ok /\ second.active = active /\ second.keys[active].key = "valid"
    <3>1. ~KeyIsCurrent(again.keys[again.active]) /\ Destroys(again.keys[active]) /\ active = 1 - again.active
      BY <2>2, <2>3, <2>4, <1>1, <1>3
    <3> QED
      <4>1. /\ ticket_lifetime \in Lifetimes /\ again \in Contexts /\ active = 1 - again.active
            /\ ~KeyIsCurrent(again.keys[again.active]) /\ Destroys(again.keys[active])
            /\ second = UpdateKeys(again, "ok")
        BY <3>1, <2>2, <1>1, <1>4
      <4> QED
        BY <4>1, UpdateReplaces
  <2> QED
    BY <2>5 DEF CanSeal
<1> QED
  BY <1>5, <1>6

(* The ticket keys, the tickets and their ages only ever hold values of    *)
(* their types.                                                            *)
THEOREM TypeCorrect == Spec => []TypeOK
<1>1. TicketInv => TypeOK
  BY DEF TicketInv
<1> QED
  BY <1>1, TicketInvariant, PTL

(* While nothing fails or disturbs ssl_ticket.c, the two keys in turn      *)
(* accept every ticket that is within its lifetime.                        *)
THEOREM LiveTicketsAreAccepted == Spec => []LiveTicketsResume
BY InTimeIsAccepted, TicketInvariant, PTL

(* mbedtls_ssl_ticket_parse() accepts no ticket past the lifetime that     *)
(* mbedtls_ssl_ticket_write() announced, for keys drawn whole.             *)
THEOREM NoTicketOutlivesItsLifetime == Spec => []LifetimeIsKept
BY MatchKeepsLifetime, TicketInvariant, PTL

(* After any failure ssl_ticket_update_keys() makes tickets possible again *)
(* within two calls, unless both keys are stale.                           *)
THEOREM TicketsRecover == Spec => []TicketsComeBack
BY StaleKeysAreReplaced, TicketInvariant, PTL
=============================================================================
