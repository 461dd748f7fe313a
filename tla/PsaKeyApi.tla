------------------------------ MODULE PsaKeyApi ------------------------------
(***************************************************************************)
(* What the PSA key store promises to its callers: a map from key          *)
(* identifiers to key objects.  Slots, reader counters, the cache of       *)
(* persistent keys and the storage behind it are invisible here; the       *)
(* module PsaKeyStore, which has them all, is shown to implement this one. *)
(***************************************************************************)
CONSTANTS
    Threads,        \* callers of the API
    VolatileIds,    \* identifiers whose keys do not survive a restart
    LastingIds,     \* identifiers of persistent keys
    BuiltinIds,     \* identifiers of the keys the platform provides
    Keys,           \* key objects an application can create
    NoKey           \* no key object

VARIABLES
    keys,           \* keys[id]: the key object with that identifier
    hold,           \* hold[t]: the key object thread t is operating with
    used            \* key objects that were created, or whose creation failed

apiVars == <<keys, hold, used>>

KeyIds == VolatileIds \cup LastingIds \cup BuiltinIds

ApiInit ==
    /\ keys = [id \in KeyIds |-> IF id \in BuiltinIds THEN id ELSE NoKey]
    /\ hold = [t \in Threads |-> NoKey]
    /\ used = {}

(* A key is created under a free identifier, and it is a new object.       *)
Create(id, k) ==
    /\ keys[id] = NoKey
    /\ k \notin used
    /\ keys' = [keys EXCEPT ![id] = k]
    /\ used' = used \cup {k}
    /\ UNCHANGED hold

(* A creation that failed.                                                 *)
Abandon(k) ==
    /\ used' = used \cup {k}
    /\ UNCHANGED <<keys, hold>>

(* An operation gets the key object that has the identifier now.           *)
Acquire(t, id) ==
    /\ hold[t] = NoKey
    /\ keys[id] # NoKey
    /\ hold' = [hold EXCEPT ![t] = keys[id]]
    /\ UNCHANGED <<keys, used>>

Release(t) ==
    /\ hold' = [hold EXCEPT ![t] = NoKey]
    /\ UNCHANGED <<keys, used>>

(* Destruction removes the very object the caller looked up, never another *)
(* one created later under the same identifier.                            *)
Destroy(t, id) ==
    /\ keys[id] = hold[t]
    /\ id \notin BuiltinIds
    /\ keys' = [keys EXCEPT ![id] = NoKey]
    /\ hold' = [hold EXCEPT ![t] = NoKey]
    /\ UNCHANGED used

(* Closing the handle of a volatile key discards it, if nobody uses it.    *)
Close(id) ==
    /\ id \in VolatileIds
    /\ \A t \in Threads : hold[t] # keys[id]
    /\ keys' = [keys EXCEPT ![id] = NoKey]
    /\ UNCHANGED <<hold, used>>

(* The library is shut down, or the system loses power.                    *)
Restart ==
    /\ keys' = [id \in KeyIds |-> IF id \in VolatileIds THEN NoKey ELSE keys[id]]
    /\ hold' = [t \in Threads |-> NoKey]
    /\ used \subseteq used' /\ used' \subseteq Keys

ApiNext ==
    \/ \E id \in VolatileIds \cup LastingIds, k \in Keys : Create(id, k)
    \/ \E k \in Keys : Abandon(k)
    \/ \E t \in Threads, id \in KeyIds : Acquire(t, id) \/ Destroy(t, id)
    \/ \E t \in Threads : Release(t)
    \/ \E id \in KeyIds : Close(id)
    \/ Restart

ApiSpec == ApiInit /\ [][ApiNext]_apiVars
=============================================================================
