----------------------------- MODULE AtLeastOnce -----------------------------
(***************************************************************************)
(* What the ingestion pipeline behind the gateway promises, without queue  *)
(* deliveries, batches or workers: a message taken from the gateway is     *)
(* stored, possibly after it has been given up on, and is settled only     *)
(* once its record is stored.  A message nobody can store (no table for    *)
(* its subject, or a payload that does not parse) may be settled unstored. *)
(***************************************************************************)
CONSTANTS
    Message,
    Storable,      \* messages with a table to go to
    Same(_, _)     \* Same(m, n): the two messages carry the same record

VARIABLES
    phase,         \* [Message -> {"new", "taken", "settled", "dropped"}]
    stored         \* messages with at least one row

vars == <<phase, stored>>

Init ==
    /\ phase = [m \in Message |-> "new"]
    /\ stored = {}

Take(m) ==
    /\ phase[m] = "new"
    /\ phase' = [phase EXCEPT ![m] = "taken"]
    /\ UNCHANGED stored

\* Rows are only added, and only for messages that were taken.
Store(S) ==
    /\ S \subseteq Storable
    /\ \A m \in S : phase[m] # "new"
    /\ stored' = stored \cup S
    /\ UNCHANGED phase

Settle(m) ==
    /\ phase[m] = "taken"
    /\ m \in Storable => \E n \in stored : Same(m, n)
    /\ phase' = [phase EXCEPT ![m] = "settled"]
    /\ UNCHANGED stored

\* The queue's age limit.
Drop(m) ==
    /\ phase[m] = "taken"
    /\ phase' = [phase EXCEPT ![m] = "dropped"]
    /\ UNCHANGED stored

Next ==
    \/ \E m \in Message : Take(m) \/ Settle(m) \/ Drop(m)
    \/ \E S \in SUBSET Message : Store(S)

Spec == Init /\ [][Next]_vars
=============================================================================
