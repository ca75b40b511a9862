------------------------------- MODULE Ingest -------------------------------
(***************************************************************************)
(* The ingest path from the client's request to the ClickHouse row: the      *)
(* gateway's handlers (ingest/gateway/src/main.rs) and the provisioning of   *)
(* the QEET_LOGS stream by the gateway, the writer and the query API,        *)
(* composed with the stream and the writers of module Writer.                *)
(*                                                                           *)
(* A request that reaches a handler's loop has passed authorize (module      *)
(* AuthCache) and rate_limit (module RateLimit).  An input is what a client  *)
(* sends: a log line, a metric point or a span; every attempt to publish it  *)
(* builds a record with a fresh ULID, so each is another Message.            *)
(***************************************************************************)
EXTENDS Writer

CONSTANTS
    Gateway,      \* gateway replicas
    Input,        \* what clients send
    inputOf,      \* [Message -> Input]
    Invalid,      \* inputs that do not parse, or lack a metric name or a trace or span id
    DropRecord,   \* log inputs with PII whose action is drop_record
    trace,        \* [Input -> trace_id]; matters for spans
    Notable,      \* spans with an error or at least trace_slow_ns long
    Sampled,      \* trace ids whose hash is below trace_sample_rate
    MaxRequest    \* inputs in one request

VARIABLES
    subjects,     \* what QEET_LOGS captures: "none" (no stream), "all", "logs"
    gw,           \* [Gateway -> gateway state]
    reported      \* history: messages a response counted as accepted

ingestVars == <<subjects, gw, reported>>
allVars == <<vars, ingestVars>>

\* The endpoint an input is sent to decides the subject it is published on.
signalOf(i) == signal[CHOOSE m \in Message : inputOf[m] = i]

ASSUME IngestAssumption ==
    /\ inputOf \in [Message -> Input]
    /\ \A i \in Input : \E m \in Message : inputOf[m] = i
    /\ \A m \in Message : signal[m] \in Table /\ signal[m] = signalOf(inputOf[m])
    /\ Malformed = {}
    /\ Invalid \subseteq Input
    /\ DropRecord \subseteq {i \in Input : signalOf(i) = "logs"}
    /\ Notable \subseteq {i \in Input : signalOf(i) = "traces"}
    /\ MaxRequest \in Nat \ {0}

GatewayState ==
    [pc : {"down", "idle", "busy"}, todo : SUBSET Input, accepted : SUBSET Message,
     skipped : SUBSET Input, errors : SUBSET Input]

Down == [pc |-> "down", todo |-> {}, accepted |-> {}, skipped |-> {}, errors |-> {}]

IngestInit ==
    /\ Init
    /\ subjects = "none"
    /\ gw = [g \in Gateway |-> Down]
    /\ reported = {}

-----------------------------------------------------------------------------
(* The QEET_LOGS stream *)

\* get_or_create_stream: an existing stream keeps its configuration.
Provisioned == IF subjects = "none" THEN "all" ELSE subjects

Captured(s) == subjects = "all" \/ (subjects = "logs" /\ s = "logs")

StartGateway(g) ==
    /\ gw[g].pc = "down"
    /\ subjects' = Provisioned
    /\ gw' = [gw EXCEPT ![g] = [Down EXCEPT !.pc = "idle"]]
    /\ UNCHANGED <<vars, reported>>

\* The writer fetches nothing before its own get_or_create_stream.
StartWriter ==
    /\ subjects' = Provisioned
    /\ UNCHANGED <<vars, gw, reported>>

\* Mutant: the subjects are not the ones the gateway publishes on.
EnsureOtherStreams ==
    /\ subjects' = "other"
    /\ UNCHANGED <<vars, gw, reported>>

\* The query API starts: CreateOrUpdateStream with the subjects of streamDefs.
EnsureStreams ==
    /\ subjects' = "logs"
    /\ UNCHANGED <<vars, gw, reported>>

-----------------------------------------------------------------------------
(* The handlers *)

\* A request for one endpoint, with inputs that no response has confirmed yet.
Receive(g, B) ==
    /\ gw[g].pc = "idle"
    /\ B # {} /\ Cardinality(B) <= MaxRequest
    /\ \A i, j \in B : signalOf(i) = signalOf(j)
    /\ \A m \in reported : inputOf[m] \notin B
    /\ gw' = [gw EXCEPT ![g] = [Down EXCEPT !.pc = "busy", !.todo = B]]
    /\ UNCHANGED <<vars, subjects, reported>>

\* Error and slow spans always; the others by the hash of their trace id.
keep_span(i) == i \in Notable \/ trace[i] \in Sampled

Publishes(i) ==
    i \notin Invalid \cup DropRecord /\ (signalOf(i) = "traces" => keep_span(i))

\* An input that is not published: it does not parse or is unusable (an error),
\* the PII gate drops it, or it is sampled out.
SkipInput(g, i) ==
    /\ gw[g].pc = "busy"
    /\ i \in gw[g].todo
    /\ ~Publishes(i)
    /\ gw' = [gw EXCEPT ![g].todo = @ \ {i},
                        ![g].errors = IF i \in Invalid THEN @ \cup {i} ELSE @,
                        ![g].skipped = IF i \in Invalid THEN @ ELSE @ \cup {i}]
    /\ UNCHANGED <<vars, subjects, reported>>

\* js.publish and its ack.
PublishOk(g, m) ==
    /\ gw[g].pc = "busy"
    /\ inputOf[m] \in gw[g].todo
    /\ Publishes(inputOf[m])
    /\ Captured(signal[m])
    /\ Publish(m)
    /\ gw' = [gw EXCEPT ![g].todo = @ \ {inputOf[m]}, ![g].accepted = @ \cup {m}]
    /\ UNCHANGED <<subjects, reported>>

\* Mutant: the publish acknowledgement is not awaited.
PublishUnconfirmed(g, m, arrives) ==
    /\ gw[g].pc = "busy"
    /\ inputOf[m] \in gw[g].todo
    /\ Publishes(inputOf[m])
    /\ IF arrives THEN Captured(signal[m]) /\ Publish(m)
                  ELSE state[m] = "new" /\ UNCHANGED vars
    /\ gw' = [gw EXCEPT ![g].todo = @ \ {inputOf[m]}, ![g].accepted = @ \cup {m}]
    /\ UNCHANGED <<subjects, reported>>

\* The publish fails, the subject has no stream, or only the ack is lost.
PublishErr(g, m, arrives) ==
    /\ gw[g].pc = "busy"
    /\ inputOf[m] \in gw[g].todo
    /\ Publishes(inputOf[m])
    /\ IF arrives THEN Captured(signal[m]) /\ Publish(m)
                  ELSE state[m] = "new" /\ UNCHANGED vars
    /\ gw' = [gw EXCEPT ![g].todo = @ \ {inputOf[m]}, ![g].errors = @ \cup {inputOf[m]}]
    /\ UNCHANGED <<subjects, reported>>

\* The response carries the counts: accepted, dropped or sampled out, errors.
Respond(g) ==
    /\ gw[g].pc = "busy"
    /\ gw[g].todo = {}
    /\ reported' = reported \cup gw[g].accepted
    /\ gw' = [gw EXCEPT ![g] = [Down EXCEPT !.pc = "idle"]]
    /\ UNCHANGED <<vars, subjects>>

CrashGateway(g) ==
    /\ gw[g].pc # "down"
    /\ gw' = [gw EXCEPT ![g] = Down]
    /\ UNCHANGED <<vars, subjects, reported>>

Handle(g) ==
    \/ \E B \in SUBSET Input : Receive(g, B)
    \/ \E i \in Input : SkipInput(g, i)
    \/ \E m \in Message : PublishOk(g, m) \/ \E arrives \in BOOLEAN : PublishErr(g, m, arrives)
    \/ Respond(g)

\* The stream redelivers and expires, the writers work.
Downstream ==
    /\ subjects # "none"
    /\ \/ \E m \in Message : AckWait(m) \/ Expire(m)
       \/ \E w \in Worker : Work(w) \/ Crash(w)
    /\ UNCHANGED ingestVars

IngestNext ==
    \/ \E g \in Gateway : StartGateway(g) \/ Handle(g) \/ CrashGateway(g)
    \/ StartWriter
    \/ EnsureStreams
    \/ Downstream

IngestSpec == IngestInit /\ [][IngestNext]_allVars

-----------------------------------------------------------------------------
(* Properties *)

\* Type invariant of the stream configuration, the gateways and the histories.
IngestTypeOK ==
    /\ TypeOK
    /\ subjects \in {"none", "all", "logs"}
    /\ gw \in [Gateway -> GatewayState]
    /\ reported \subseteq Message

\* What a client was told is accepted is never lost except by max_age: it is in
\* its table, or still in the stream, whatever crashed, failed, was redelivered
\* or was reconfigured since the response.
AcceptedIsDurable ==
    \A m \in reported :
        Stored(m) \/ state[m] \in {"ready", "outstanding", "expired"}

\* A log line can be published to a running gateway's stream, in whatever order
\* the gateway, the writer and the query API start and restart.
LogsCaptured ==
    \A g \in Gateway : gw[g].pc # "down" => Captured("logs")

\* "`>` captures every signal subject: qeet-logs.{tenant}.{logs|metrics|traces}"
\* (gateway main.rs:108): what a running gateway publishes has a stream.
EverySignalCaptured ==
    \A g \in Gateway : gw[g].pc # "down" => \A s \in Table : Captured(s)

=============================================================================
