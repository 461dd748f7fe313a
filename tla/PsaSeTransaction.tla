-------------------------- MODULE PsaSeTransaction --------------------------
(***************************************************************************)
(* Keys in a secure element (MBEDTLS_PSA_CRYPTO_SE_C).  A key is a key     *)
(* file in internal storage, the key inside the element and a mark in the  *)
(* persistent data of the driver; psa_crypto.c changes the three one after *)
(* the other inside a transaction, whose record in storage is to tell what *)
(* a power failure interrupted.  Each step that reaches storage or the     *)
(* element is an action and may fail; power may fail between any two.      *)
(* There is one caller (the transaction is not thread-safe) and one driver *)
(* and all keys are persistent.  The application does not create a key     *)
(* with an identifier that is in use.                                      *)
(***************************************************************************)
EXTENDS Integers, FiniteSets

CONSTANTS KeyIds, SeSlots, None

VARIABLES
    up,             \* the key slots and the driver are initialised
    initialized,    \* PSA_CRYPTO_SUBSYSTEM_TRANSACTION_INITIALIZED
    file,           \* key files: the slot number stored for an identifier
    element,        \* what each slot of the secure element holds
    persistent_data,    \* slots the driver has given away, in memory
    saved_data,         \* the same in storage
    record,         \* PSA_CRYPTO_ITS_TRANSACTION_UID
    psa_crypto_transaction,     \* its type, in memory
    slots,          \* key slots in memory that are FULL
    call,           \* the call in progress
    given_up,       \* history: slots that a call or start-up left undone when
                    \* it ended the transaction; it never shrinks
    durable,        \* history: keys whose creation returned success, and that were
                    \* not destroyed since, nor lost with the memory
    unsaved,        \* history: those of them whose file could not be saved
    shared          \* history: slots that two identifiers named at some time

vars == <<up, initialized, file, element, persistent_data, saved_data, record,
          psa_crypto_transaction, slots, call, given_up, durable, unsaved, shared>>
storage == <<file, element, saved_data>>
memory == <<up, initialized, persistent_data, slots>>
history == <<given_up, durable, unsaved>>

NoCall == [op |-> "none", id |-> None, slot |-> None, step |-> "none"]
Records == [type : {"CREATE_KEY", "DESTROY_KEY"}, id : KeyIds, slot : SeSlots]
ASSUME SeConstants == None \notin KeyIds \cup SeSlots \cup Records

Steps == {"none", "save_transaction", "fill", "save_file", "save_data", "stop", "abort",
          "destroy_se", "save_se_data", "remove_file"}

TypeOK ==
    /\ {up, initialized} \subseteq BOOLEAN
    /\ file \in [KeyIds -> SeSlots \cup {None}]
    /\ element \in [SeSlots -> KeyIds \cup {None}]
    /\ {persistent_data, saved_data} \subseteq SUBSET SeSlots
    /\ record \in Records \cup {None}
    /\ psa_crypto_transaction \in {"NONE", "CREATE_KEY", "DESTROY_KEY"}
    /\ slots \in [KeyIds -> SeSlots \cup {None}]
    /\ call \in [op : {"none", "create", "register", "destroy"}, id : KeyIds \cup {None},
                 slot : SeSlots \cup {None}, step : Steps]
    /\ {given_up, shared} \subseteq SUBSET SeSlots
    /\ {durable, unsaved} \subseteq SUBSET KeyIds

At(step) == up /\ call.step = step
GoTo(step) == call' = [call EXCEPT !.step = step]
Return == call' = NoCall

-----------------------------------------------------------------------------
(* The transaction record                                                  *)

\* psa_crypto_save_transaction(): ok is that of the storage.
SaveTransaction(next, otherwise) ==
    /\ At("save_transaction")
    /\ \/ /\ record = None
          /\ record' = [type |-> psa_crypto_transaction, id |-> call.id, slot |-> call.slot]
          /\ GoTo(next)
       \/ GoTo(otherwise) /\ UNCHANGED record
    /\ UNCHANGED <<psa_crypto_transaction, storage, memory, history>>

\* psa_crypto_stop_transaction(): the record is removed, if the storage does
\* it; in memory the transaction ends in any case.
StopTransaction(removed) ==
    /\ record' = IF removed THEN None ELSE record
    /\ psa_crypto_transaction' = "NONE"

\* The slot of a key: it is in memory, or its file is read.
NumberOf(id) == IF slots[id] # None THEN slots[id] ELSE file[id]

\* The slots that more than one identifier names, in a file or in memory.
Contested ==
    {s \in SeSlots : \E id, other \in KeyIds :
        id # other /\ s \in {file[id], slots[id]} /\ s \in {file[other], slots[other]}}

Named == IF record = None THEN {} ELSE {record.slot}

\* The key files, the element and the saved data of the driver agree about s:
\* it is free, or one key is wholly there.
Agreed(s) ==
    LET users == {id \in KeyIds : file[id] = s}
    IN  \/ users = {} /\ element[s] = None /\ s \notin saved_data
        \/ users = {element[s]} /\ s \in saved_data

\* What a call leaves undone of the slots it and the record are about: the
\* above, or a mark of the driver that differs in memory, where it is marks.
LeftUndone(marks) ==
    {s \in (Named \cup {call.slot}) \ {None} :
        ~Agreed(s) \/ ((s \in marks) # (s \in saved_data))}

-----------------------------------------------------------------------------
(* Creation: psa_import_key(), psa_generate_key() and                      *)
(* mbedtls_psa_register_se_key()                                           *)

\* psa_start_key_creation() up to the transaction: the driver chooses a slot,
\* or accepts the one to be registered.
StartCreation(op, id, s) ==
    /\ up /\ call = NoCall
    /\ file[id] = None /\ slots[id] = None
    /\ op = "create" => s \notin persistent_data
    /\ op = "register" => element[s] = id
    /\ persistent_data' = persistent_data \cup {s}
    /\ psa_crypto_transaction' = "CREATE_KEY"
    /\ call' = [op |-> op, id |-> id, slot |-> s, step |-> "save_transaction"]
    /\ UNCHANGED <<up, initialized, slots, record, storage, history>>

\* The driver has no slot: psa_fail_key_creation() at once.
StartFails(id) ==
    /\ up /\ call = NoCall
    /\ file[id] = None /\ slots[id] = None
    /\ call' = [op |-> "create", id |-> id, slot |-> None, step |-> "abort"]
    /\ UNCHANGED <<psa_crypto_transaction, record, storage, memory, history>>

CreateSavesTransaction ==
    /\ call.op \in {"create", "register"}
    /\ SaveTransaction(IF call.op = "create" THEN "fill" ELSE "save_file", "abort")

\* The driver puts the key into the element, or fails; the checks that follow
\* may fail when the key is there.
FillElement(done, checked) ==
    /\ At("fill")
    /\ element' = IF done THEN [element EXCEPT ![call.slot] = call.id] ELSE element
    /\ GoTo(IF done /\ checked THEN "save_file" ELSE "abort")
    /\ UNCHANGED <<psa_crypto_transaction, record, file, saved_data, memory, history>>

\* psa_finish_key_creation(): the key file.  Its status is overwritten below.
SaveFile(saved) ==
    /\ At("save_file")
    /\ file' = IF saved THEN [file EXCEPT ![call.id] = call.slot] ELSE file
    /\ GoTo("save_data")
    /\ UNCHANGED <<psa_crypto_transaction, record, element, saved_data, memory, history>>

\* psa_finish_key_creation(): the data of the driver; if that fails the key
\* file is removed, if it can be.
SaveData(saved, removed) ==
    /\ At("save_data") /\ call.op # "destroy"
    /\ saved_data' = IF saved THEN persistent_data ELSE saved_data
    /\ file' = IF ~saved /\ removed THEN [file EXCEPT ![call.id] = None] ELSE file
    /\ GoTo(IF saved THEN "stop" ELSE "abort")
    /\ UNCHANGED <<psa_crypto_transaction, record, element, memory, history>>

\* psa_finish_key_creation(): the end of the transaction.
StopCreation(removed) ==
    /\ At("stop") /\ call.op # "destroy"
    /\ StopTransaction(removed)
    /\ \/ /\ removed
          /\ slots' = [slots EXCEPT ![call.id] = call.slot]
          /\ Return
          /\ durable' = durable \cup {call.id}
          /\ unsaved' = IF file[call.id] = call.slot THEN unsaved ELSE unsaved \cup {call.id}
          /\ given_up' = given_up \cup LeftUndone(persistent_data)
       \/ /\ ~removed
          /\ GoTo("abort")
          /\ UNCHANGED <<slots, history>>
    /\ UNCHANGED <<up, initialized, persistent_data, storage>>

\* psa_fail_key_creation(): nothing is undone in the element.
FailCreation(removed) ==
    /\ At("abort")
    /\ StopTransaction(removed)
    /\ given_up' = given_up \cup LeftUndone(persistent_data)
    /\ Return
    /\ UNCHANGED <<durable, unsaved, storage, memory>>

-----------------------------------------------------------------------------
(* Destruction: psa_destroy_key()                                          *)

\* Fault: the key is destroyed before the transaction is recorded.
StartDestructionUnrecorded(id) ==
    /\ up /\ call = NoCall
    /\ NumberOf(id) # None
    /\ psa_crypto_transaction' = "DESTROY_KEY"
    /\ call' = [op |-> "destroy", id |-> id, slot |-> NumberOf(id), step |-> "destroy_se"]
    /\ durable' = durable \ {id} /\ unsaved' = unsaved \ {id}
    /\ UNCHANGED <<given_up, record, storage, memory>>

StartDestruction(id) ==
    /\ up /\ call = NoCall
    /\ NumberOf(id) # None
    /\ psa_crypto_transaction' = "DESTROY_KEY"
    /\ call' = [op |-> "destroy", id |-> id, slot |-> NumberOf(id), step |-> "save_transaction"]
    /\ durable' = durable \ {id} /\ unsaved' = unsaved \ {id}
    /\ UNCHANGED <<given_up, record, storage, memory>>

DestroySavesTransaction == call.op = "destroy" /\ SaveTransaction("destroy_se", "stop")

\* psa_destroy_se_key(), first half: the driver destroys the key.
DestroyInElement(done) ==
    /\ At("destroy_se")
    /\ element' = IF done THEN [element EXCEPT ![call.slot] = None] ELSE element
    /\ persistent_data' = IF done THEN persistent_data \ {call.slot} ELSE persistent_data
    /\ GoTo("save_se_data")
    /\ UNCHANGED <<psa_crypto_transaction, record, file, saved_data, up, initialized, slots, history>>

\* The data of the driver is saved by psa_destroy_se_key() and again after the
\* key file is removed; nothing depends on whether that succeeds.
SaveDataAgain(saved) ==
    /\ call.op = "destroy"
    /\ At("save_se_data") \/ At("save_data")
    /\ saved_data' = IF saved THEN persistent_data ELSE saved_data
    /\ GoTo(IF call.step = "save_se_data" THEN "remove_file" ELSE "stop")
    /\ UNCHANGED <<psa_crypto_transaction, record, file, element, memory, history>>

RemoveFile(removed) ==
    /\ At("remove_file")
    /\ file' = IF removed THEN [file EXCEPT ![call.id] = None] ELSE file
    /\ GoTo("save_data")
    /\ UNCHANGED <<psa_crypto_transaction, record, element, saved_data, memory, history>>

\* The transaction ends, and the key slot in memory is wiped.
StopDestruction(removed) ==
    /\ At("stop") /\ call.op = "destroy"
    /\ StopTransaction(removed)
    /\ slots' = [slots EXCEPT ![call.id] = None]
    /\ given_up' = given_up \cup LeftUndone(persistent_data)
    /\ Return
    /\ UNCHANGED <<up, initialized, persistent_data, storage, durable, unsaved>>

-----------------------------------------------------------------------------
(* What is only in memory is lost                                          *)

\* psa_purge_key(): the key slot in memory is wiped.
PurgeKey(id) ==
    /\ up /\ call = NoCall
    /\ slots[id] # None
    /\ slots' = [slots EXCEPT ![id] = None]
    /\ durable' = durable \ ({id} \cap unsaved) /\ unsaved' = unsaved \ {id}
    /\ UNCHANGED <<up, initialized, persistent_data, psa_crypto_transaction, record, call, storage,
                   given_up>>

\* All key slots: a key without a file is lost.
LoseMemory ==
    /\ slots' = [id \in KeyIds |-> None]
    /\ durable' = durable \ unsaved /\ unsaved' = {}

Crash ==
    /\ up' = FALSE /\ initialized' = FALSE
    /\ LoseMemory
    /\ persistent_data' = {}
    /\ psa_crypto_transaction' = "NONE"
    /\ Return
    /\ UNCHANGED <<record, storage, given_up>>

\* Fault: the saved data of the driver is not loaded.
CryptoInitForgetsData(removed) ==
    /\ call = NoCall /\ ~initialized
    /\ persistent_data' = IF up THEN persistent_data ELSE {}
    /\ \/ /\ record = None
          /\ up' = TRUE /\ initialized' = TRUE
          /\ UNCHANGED <<record, psa_crypto_transaction, slots, history>>
       \/ /\ record # None
          /\ StopTransaction(removed)
          /\ up' = removed
          /\ IF removed THEN UNCHANGED <<slots, durable, unsaved>> ELSE LoseMemory
          /\ given_up' = given_up \cup LeftUndone(persistent_data')
          /\ UNCHANGED initialized
    /\ UNCHANGED <<call, storage>>

\* psa_crypto_init(), with psa_register_se_driver() before it: a record is not
\* recovered but removed, and the status of the removal is returned.
CryptoInit(removed) ==
    /\ call = NoCall /\ ~initialized
    /\ persistent_data' = IF up THEN persistent_data ELSE saved_data
    /\ \/ /\ record = None
          /\ up' = TRUE /\ initialized' = TRUE
          /\ UNCHANGED <<record, psa_crypto_transaction, slots, history>>
       \/ /\ record # None
          /\ StopTransaction(removed)
          /\ up' = removed
          /\ IF removed THEN UNCHANGED <<slots, durable, unsaved>> ELSE LoseMemory
          /\ given_up' = given_up \cup LeftUndone(persistent_data')
          /\ UNCHANGED initialized
    /\ UNCHANGED <<call, storage>>

Init ==
    /\ up = FALSE /\ initialized = FALSE
    /\ file = [id \in KeyIds |-> None]
    /\ element = [s \in SeSlots |-> None]
    /\ persistent_data = {} /\ saved_data = {}
    /\ record = None
    /\ psa_crypto_transaction = "NONE"
    /\ slots = [id \in KeyIds |-> None]
    /\ call = NoCall
    /\ given_up = {} /\ durable = {} /\ unsaved = {} /\ shared = {}

Step ==
    \/ \E op \in {"create", "register"}, id \in KeyIds, s \in SeSlots : StartCreation(op, id, s)
    \/ \E id \in KeyIds : StartFails(id) \/ StartDestruction(id) \/ PurgeKey(id)
    \/ CreateSavesTransaction
    \/ DestroySavesTransaction
    \/ \E ok \in BOOLEAN :
          \/ \E checked \in BOOLEAN : FillElement(ok, checked) \/ SaveData(ok, checked)
          \/ SaveFile(ok) \/ StopCreation(ok) \/ FailCreation(ok)
          \/ DestroyInElement(ok) \/ SaveDataAgain(ok) \/ RemoveFile(ok) \/ StopDestruction(ok)
          \/ CryptoInit(ok)
    \/ Crash

Next == Step /\ shared' = shared \cup Contested'

Spec == Init /\ [][Next]_vars

-----------------------------------------------------------------------------
(* Properties                                                              *)

(* The record is a sufficient journal: whenever the key file, the element  *)
(* and the saved data of the driver disagree about a slot, after a crash   *)
(* at any step too, the record in storage names that slot.  What a later   *)
(* recovery would have to repair is always known, until the code itself    *)
(* gives the record up, and then the slot counts as given up for ever:     *)
(* psa_crypto_init() removes the record unread, psa_fail_key_creation()    *)
(* leaves the key in the element, psa_finish_key_creation() returns        *)
(* success although the key file was not saved, and a step of a            *)
(* destruction that failed is not repeated.                                *)
JournalCoversDamage ==
    \A s \in SeSlots \ given_up : Agreed(s) \/ s \in Named

(* A key whose creation returned success is found under its identifier     *)
(* until it is destroyed, in its file, or only in memory when the file     *)
(* could not be saved (psa_finish_key_creation() overwrites that status);  *)
(* such a key is gone when its key slot is wiped or power fails.  The slot *)
(* of the element it names holds this key and is marked as used, whatever  *)
(* fails or restarts, except when another identifier has named that slot   *)
(* too: a creation or destruction that was interrupted or failed leaves a  *)
(* key file behind, psa_crypto_init() drops the record of it, the driver   *)
(* gives the slot away again, and psa_destroy_key() of the old identifier  *)
(* destroys the new key.                                                   *)
DurableKeysStay ==
    \A id \in durable :
        LET s == NumberOf(id)
        IN  /\ s # None
            /\ file[id] = s \/ id \in unsaved
            /\ s \notin shared => element[s] = id /\ s \in saved_data
=============================================================================
