---------------------------- MODULE DeadLetters -----------------------------
(***************************************************************************)
(* Replay and drop of a dead-lettered event (platform/api/handler/dlq.go).    *)
(* A replay reads the pending row, publishes its payload to the tenant's logs *)
(* subject and marks the row: three steps without a transaction, the mark     *)
(* neither conditional on the status nor checked.  One event; operators act   *)
(* concurrently.                                                              *)
(***************************************************************************)
EXTENDS Integers, FiniteSets

CONSTANT Operator    \* concurrent requests for the event

ASSUME OperatorAssumption == IsFiniteSet(Operator)

VARIABLES
    dlq_event,    \* the row: status and attempt
    replay,       \* [Operator -> where its replay is]
    copies,       \* payloads handed to NATS
    overlapped,   \* history: replays that read the row while another was under way
    unmarked      \* history: replays whose UPDATE failed

dlqVars == <<dlq_event, replay, copies, overlapped, unmarked>>

DlqInit ==
    /\ dlq_event = [status |-> "pending", attempt |-> 0]
    /\ replay = [o \in Operator |-> "idle"]
    /\ copies = 0 /\ overlapped = 0 /\ unmarked = 0

UnderWay == {o \in Operator : replay[o] \in {"publish", "mark"}}

\* Mutant: any row of the tenant can be replayed.
ReadPendingAny(o) ==
    /\ replay[o] = "idle"
    /\ replay' = [replay EXCEPT ![o] = "publish"]
    /\ overlapped' = overlapped + IF UnderWay # {} THEN 1 ELSE 0
    /\ UNCHANGED <<dlq_event, copies, unmarked>>

\* The SELECT of a pending row; 404 otherwise.
ReadPending(o) ==
    /\ replay[o] = "idle"
    /\ IF dlq_event.status = "pending"
       THEN /\ replay' = [replay EXCEPT ![o] = "publish"]
            /\ overlapped' = overlapped + IF UnderWay # {} THEN 1 ELSE 0
       ELSE replay' = [replay EXCEPT ![o] = "done"] /\ UNCHANGED overlapped
    /\ UNCHANGED <<dlq_event, copies, unmarked>>

\* Mutant: a failed publish is marked all the same.
PublishRegardless(o, ok) ==
    /\ replay[o] = "publish"
    /\ copies' = copies + IF ok THEN 1 ELSE 0
    /\ replay' = [replay EXCEPT ![o] = "mark"]
    /\ UNCHANGED <<dlq_event, overlapped, unmarked>>

PublishCopy(o, ok) ==
    /\ replay[o] = "publish"
    /\ copies' = copies + IF ok THEN 1 ELSE 0
    /\ replay' = [replay EXCEPT ![o] = IF ok THEN "mark" ELSE "done"]
    /\ UNCHANGED <<dlq_event, overlapped, unmarked>>

MarkReplayed(o, ok) ==
    /\ replay[o] = "mark"
    /\ replay' = [replay EXCEPT ![o] = "done"]
    /\ dlq_event' = IF ok THEN [status |-> "replayed", attempt |-> dlq_event.attempt + 1] ELSE dlq_event
    /\ unmarked' = unmarked + IF ok THEN 0 ELSE 1
    /\ UNCHANGED <<copies, overlapped>>

\* DropDLQ: whatever the status.
DropDLQ(o) ==
    /\ replay[o] = "idle"
    /\ dlq_event' = [dlq_event EXCEPT !.status = "dropped"]
    /\ replay' = [replay EXCEPT ![o] = "done"]
    /\ UNCHANGED <<copies, overlapped, unmarked>>

DlqNext ==
    \E o \in Operator :
        \/ ReadPending(o) \/ DropDLQ(o)
        \/ \E ok \in BOOLEAN : PublishCopy(o, ok) \/ MarkReplayed(o, ok)

DlqSpec == DlqInit /\ [][DlqNext]_dlqVars

-----------------------------------------------------------------------------

\* ReplayDLQ: the event is published more than once only for replays that read
\* the row while another was under way, or after an UPDATE that failed.
ExtraCopyNeedsRace == copies <= 1 + overlapped + unmarked

\* ReplayDLQ: a row marked replayed has been handed to NATS at least as often
\* as its attempt count says, drops in between included.
ReplayedWasPublished == dlq_event.attempt <= copies /\ (dlq_event.status = "replayed" => copies > 0)
=============================================================================
