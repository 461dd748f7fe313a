----------------------------- MODULE SslTicket -----------------------------
(***************************************************************************)
(* The session ticket keys of ssl_ticket.c: two keys, one of which         *)
(* protects new tickets, replaced in turn when their lifetime is over.     *)
(* A name and key material are random and do not repeat, so a ticket says  *)
(* which key still has its name and which its material; Gone when neither. *)
(* Ages stand for the differences of times that the code computes.  In     *)
(* builds with PSA a key holds an identifier of the key store, which may   *)
(* be null, or stale: the key was destroyed.  That the store may give a    *)
(* stale identifier to another key is left out.                            *)
(***************************************************************************)
EXTENDS Integers, FiniteSets

CONSTANTS
    Lifetimes,      \* lifetimes given to setup and rotate, in units of a tick
    MaxLifetime,    \* none of them is longer
    Builds,         \* the builds considered: [psa, have_time]
    MaxTickets,     \* bound: tickets that clients hold
    Gone

ASSUME TicketConstants ==
    /\ MaxLifetime \in Nat /\ Lifetimes \subseteq 0 .. MaxLifetime
    /\ Builds \subseteq [psa : BOOLEAN, have_time : BOOLEAN]
    /\ MaxTickets \in Nat
    /\ Gone \notin {0, 1}

VARIABLES
    build,              \* the build this is; never changes
    keys,               \* ctx->keys
    active,             \* ctx->active
    ticket_lifetime,    \* ctx->ticket_lifetime
    tickets,            \* the tickets that clients hold
    disturbed           \* history: a rotation failed, the application rotated
                        \* the keys, or the clock was set back

vars == <<build, keys, active, ticket_lifetime, tickets, disturbed>>

\* No comparison tells ages above every lifetime apart.
OldAge == MaxLifetime + 1
Ages == -1 .. OldAge

\* whole, a history: the name and the material were drawn by the same call.
KeyRecords == [age : Ages, lifetime : Lifetimes, key : {"valid", "null", "stale"}, whole : BOOLEAN]
Tickets == [name : {0, 1, Gone}, key : {0, 1, Gone}, age : Ages, lifetime : Lifetimes]

-----------------------------------------------------------------------------
(* The functions on the context c = [ok, keys, active, tickets]; tickets    *)
(* belong to it because they are told by the key that has their name.      *)

Context == [ok |-> TRUE, keys |-> keys, active |-> active, tickets |-> tickets]

\* How drawing a key may end: the name is not drawn, the material is not, or
\* the key store, without PSA the cipher context, does not take it and is left
\* without a key.
Outcomes == {"ok", "no_name", "no_material", "not_taken"}

\* What of a key is drawn by then.
Drawn(outcome) ==
    CASE outcome = "no_name" -> {}
      [] outcome = "no_material" -> {"name"}
      [] OTHER -> {"name", "material"}

\* Key i is now as given; of the old one the parts in lost are no more.
Replace(c, i, key, lost) ==
    [c EXCEPT !.keys[i] = key,
              !.tickets = {[t EXCEPT !.name = IF @ = i /\ "name" \in lost THEN Gone ELSE @,
                                     !.key = IF @ = i /\ "material" \in lost THEN Gone ELSE @] :
                           t \in c.tickets}]

\* psa_destroy_key(): the null identifier is no error, a stale one is.
Destroys(key) == build.psa => key.key # "stale"
Destroy(c, i) ==
    IF build.psa /\ c.keys[i].key = "valid"
    THEN Replace(c, i, [c.keys[i] EXCEPT !.key = "stale"], {"material"})
    ELSE c

\* ssl_ticket_gen_key()
GenKey(c, i, outcome) ==
    LET key == [age |-> 0,
                lifetime |-> ticket_lifetime,
                key |-> CASE outcome = "ok" -> "valid"
                          [] outcome = "not_taken" -> "null"
                          [] OTHER -> c.keys[i].key,
                whole |-> outcome = "ok"]
    IN  [Replace(c, i, key, Drawn(outcome)) EXCEPT !.ok = (outcome = "ok")]

\* The active key is within its lifetime; 0 means that it has no end.
KeyIsCurrent(key) == ~build.have_time \/ key.lifetime = 0 \/ key.age \in 0 .. key.lifetime - 1

\* Fault: the active key is replaced where it is.
UpdateInPlace(c, outcome) ==
    IF KeyIsCurrent(c.keys[c.active]) THEN c
    ELSE IF ~Destroys(c.keys[c.active]) THEN [c EXCEPT !.ok = FALSE]
    ELSE GenKey(Destroy(c, c.active), c.active, outcome)

\* Fault: the other key becomes active once it is destroyed.
UpdateFlipsLate(c, outcome) ==
    LET other == 1 - c.active
    IN  IF KeyIsCurrent(c.keys[c.active]) THEN c
        ELSE IF ~Destroys(c.keys[other]) THEN [c EXCEPT !.ok = FALSE]
        ELSE GenKey(Destroy([c EXCEPT !.active = other], other), other, outcome)

\* ssl_ticket_update_keys(): the other key becomes active first, then it is
\* destroyed, then drawn anew.
UpdateKeys(c, outcome) ==
    LET other == 1 - c.active
        flipped == [c EXCEPT !.active = other]
    IN  IF KeyIsCurrent(c.keys[c.active]) THEN c
        ELSE IF ~Destroys(c.keys[other]) THEN [flipped EXCEPT !.ok = FALSE]
        ELSE GenKey(Destroy(flipped, other), other, outcome)

\* The active key can protect a ticket.
CanSeal(c) == c.ok /\ c.keys[c.active].key = "valid"

\* Fault: the lifetime configured now decides about a ticket.
AcceptsByConfiguredLifetime(c, t) ==
    /\ t.name = t.key /\ t.key # Gone
    /\ build.have_time => t.age \in 0 .. ticket_lifetime

\* mbedtls_ssl_ticket_parse() of a ticket t of c, once the keys are updated: the
\* key that ssl_ticket_select_key() finds by the name decrypts the ticket, and
\* its age is within the lifetime of that key.
Accepts(c, t) ==
    /\ t.name = t.key /\ t.key # Gone
    /\ build.have_time => t.age \in 0 .. c.keys[t.key].lifetime

-----------------------------------------------------------------------------
(* The calls                                                               *)

Apply(c) == keys' = c.keys /\ active' = c.active

\* mbedtls_ssl_ticket_write(); iv: an initialisation vector is drawn and the
\* session serialised.
TicketWrite(outcome, iv) ==
    LET c == UpdateKeys(Context, outcome)
        written == CanSeal(c) /\ iv
    IN  /\ written => Cardinality(tickets) < MaxTickets
        /\ Apply(c)
        /\ tickets' = IF written
                      THEN c.tickets \cup {[name |-> c.active, key |-> c.active, age |-> 0,
                                            lifetime |-> c.keys[c.active].lifetime]}
                      ELSE c.tickets
        /\ disturbed' = (disturbed \/ ~c.ok)
        /\ UNCHANGED <<build, ticket_lifetime>>

\* mbedtls_ssl_ticket_parse() changes the context only by updating the keys.
TicketParse(outcome) ==
    LET c == UpdateKeys(Context, outcome)
    IN  /\ ~KeyIsCurrent(keys[active])
        /\ Apply(c)
        /\ tickets' = c.tickets
        /\ disturbed' = (disturbed \/ ~c.ok)
        /\ UNCHANGED <<build, ticket_lifetime>>

\* mbedtls_ssl_ticket_rotate(): the other key is replaced by the one of the
\* application, and becomes active if the key store, or the cipher
\* context, takes it.
TicketRotate(lifetime, taken) ==
    LET idx == 1 - active
        destroyed == Destroy(Context, idx)
        lost == Replace(destroyed, idx, [destroyed.keys[idx] EXCEPT !.key = "null", !.whole = FALSE],
                        {"material"})
        new == [age |-> 0, lifetime |-> lifetime, key |-> "valid", whole |-> TRUE]
        c == IF ~Destroys(keys[idx]) THEN Context
             ELSE IF ~taken THEN lost
             ELSE [Replace(destroyed, idx, new, {"name", "material"}) EXCEPT !.active = idx]
    IN  /\ Apply(c)
        /\ tickets' = c.tickets
        /\ ticket_lifetime' = IF c.active = idx THEN lifetime ELSE ticket_lifetime
        /\ disturbed' = TRUE
        /\ UNCHANGED build

-----------------------------------------------------------------------------
(* The clock, the clients and the environment.                             *)

Aged(age, by) == IF age = OldAge THEN age ELSE age + by

Clock(by) ==
    /\ keys' = [i \in {0, 1} |-> [keys[i] EXCEPT !.age = Aged(@, by)]]
    /\ tickets' = {[t EXCEPT !.age = Aged(@, by)] : t \in tickets}
    /\ UNCHANGED <<build, active, ticket_lifetime>>

Tick == build.have_time /\ Clock(1) /\ UNCHANGED disturbed

\* The clock is set back; bound: by one tick before the times in memory.
ClockBack ==
    /\ build.have_time
    /\ \A i \in {0, 1} : keys[i].age >= 0
    /\ \A t \in tickets : t.age >= 0
    /\ Clock(-1)
    /\ disturbed' = TRUE

Discard(t) ==
    /\ tickets' = tickets \ {t}
    /\ UNCHANGED <<build, keys, active, ticket_lifetime, disturbed>>

\* mbedtls_ssl_ticket_setup() succeeded: both keys are drawn.
Init ==
    /\ build \in Builds
    /\ ticket_lifetime \in Lifetimes
    /\ keys = [i \in {0, 1} |-> [age |-> 0, lifetime |-> ticket_lifetime, key |-> "valid",
                                 whole |-> TRUE]]
    /\ active = 0
    /\ tickets = {}
    /\ disturbed = FALSE

Write == \E o \in Outcomes, iv \in BOOLEAN : TicketWrite(o, iv)

Next ==
    \/ Write
    \/ \E o \in Outcomes : TicketParse(o)
    \/ \E l \in Lifetimes, taken \in BOOLEAN : TicketRotate(l, taken)
    \/ Tick
    \/ ClockBack
    \/ \E t \in tickets : Discard(t)

Spec == Init /\ [][Next]_vars

-----------------------------------------------------------------------------
(* Properties                                                              *)

(* Every variable has its type.                                            *)
TypeOK ==
    /\ build \in Builds
    /\ keys \in [{0, 1} -> KeyRecords]
    /\ active \in {0, 1}
    /\ ticket_lifetime \in Lifetimes
    /\ tickets \subseteq Tickets
    /\ disturbed \in BOOLEAN

(* Two keys are enough: as long as no call fails, the application does not *)
(* rotate and the clock does not go back, every ticket that is within its  *)
(* lifetime is accepted, however calls and rotations fall.                 *)
LiveTicketsResume ==
    LET c == UpdateKeys(Context, "ok")
    IN  ~disturbed => \A t \in c.tickets : t.age <= t.lifetime => Accepts(c, t)

(* A ticket is accepted only within the lifetime that was announced with   *)
(* it, although keys of different lifetimes follow each other and          *)
(* rotations fail; unless the key that accepts it was left by a rotation   *)
(* that failed half way, which gives old material a new lifetime.          *)
LifetimeIsKept ==
    LET c == UpdateKeys(Context, "ok")
    IN  \A t \in c.tickets :
            build.have_time /\ Accepts(c, t) /\ c.keys[t.key].whole => t.age <= t.lifetime

(* Whatever failed, in the middle of a rotation or between destroying a    *)
(* key and drawing the next one: once the active key is past its lifetime  *)
(* one of the next two calls to write a ticket succeeds.  Not so in builds *)
(* with PSA when both keys were destroyed and neither was drawn again: the *)
(* identifiers stay, and no call replaces them ever after.                 *)
TicketsComeBack ==
    LET old == [Context EXCEPT !.keys = [i \in {0, 1} |-> [keys[i] EXCEPT !.age = OldAge]]]
        first == UpdateKeys(old, "ok")
        second == UpdateKeys([first EXCEPT !.ok = TRUE], "ok")
    IN  build.have_time /\ keys[active].lifetime # 0 /\ (\E i \in {0, 1} : keys[i].key # "stale")
            => CanSeal(first) \/ CanSeal(second)
=============================================================================
