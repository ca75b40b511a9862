---------------------------- MODULE IngestProofs ----------------------------
(***************************************************************************)
(* Proofs about Ingest, the gateways composed with the stream and the        *)
(* writers, for any number of gateways, writers and inputs: the composition  *)
(* implements the writer's specification, so that what is proved of Writer   *)
(* holds of it; what a client was told is accepted is durable; and a running *)
(* gateway's log subject always has a stream.                                *)
(***************************************************************************)
EXTENDS Ingest, WriterProofs

-----------------------------------------------------------------------------
(* The composition implements the writer *)

\* A gateway's handler either leaves the pipeline alone or publishes a message.
LEMMA HandlePublishes ==
    ASSUME NEW g \in Gateway, Handle(g)
    PROVE  UNCHANGED vars \/ \E m \in Message : Publish(m)
  BY DEF Handle, Receive, SkipInput, PublishOk, PublishErr, Respond

\* Every step of the composition is a step of the writer's specification: the
\* gateways only ever publish, and provisioning touches none of its state.
LEMMA StepImplementsWriter == [IngestNext]_allVars => [Next]_vars
<1> SUFFICES ASSUME [IngestNext]_allVars PROVE [Next]_vars
  OBVIOUS
<1>1. ASSUME NEW g \in Gateway, StartGateway(g) \/ CrashGateway(g) PROVE UNCHANGED vars
  BY <1>1 DEF StartGateway, CrashGateway
<1>2. ASSUME NEW g \in Gateway, Handle(g) PROVE [Next]_vars
  BY <1>2, HandlePublishes DEF Next, Stream
<1>3. StartWriter \/ EnsureStreams => UNCHANGED vars
  BY DEF StartWriter, EnsureStreams
<1>4. Downstream => Next
  BY DEF Downstream, Next, Stream
<1>5. UNCHANGED allVars => UNCHANGED vars
  BY DEF allVars
<1>6. QED
  BY <1>1, <1>2, <1>3, <1>4, <1>5 DEF IngestNext

\* The ingest path with its gateways, restarts and stream provisioning is a
\* behaviour of Writer: gateways publish and never take back.
THEOREM IngestImplementsWriter == IngestSpec => Spec
<1>1. IngestInit => Init
  BY DEF IngestInit
<1>2. QED
  BY <1>1, StepImplementsWriter, PTL DEF IngestSpec, Spec

\* Seen from the client's side of the gateway the whole path stores at least
\* once, whichever gateways and writers crash and retry.
THEOREM IngestImplementsAtLeastOnce == IngestSpec => ImplementsAtLeastOnce
  BY IngestImplementsWriter, WriterImplementsAtLeastOnce, PTL

-----------------------------------------------------------------------------
(* The inductive invariant *)

\* What a handler counts as accepted, or a response has reported, is in the
\* stream or past it.
AcceptedWasPublished ==
    /\ \A g \in Gateway : \A m \in gw[g].accepted : state[m] # "new"
    /\ \A m \in reported : state[m] # "new"

IngestTypes ==
    /\ subjects \in {"none", "all", "logs"}
    /\ gw \in [Gateway -> GatewayState]
    /\ reported \subseteq Message

IngestInv == IngestTypes /\ AcceptedWasPublished /\ LogsCaptured

\* No step of the pipeline makes a published message unpublished.
LEMMA PublishedStays ==
    ASSUME TypeOK, [Next]_vars, NEW m \in Message, state[m] # "new"
    PROVE  state'[m] # "new"
<1>1. ASSUME NEW n \in Message, Publish(n) \/ AckWait(n) \/ Expire(n) PROVE state'[m] # "new"
  BY <1>1 DEF Publish, AckWait, Expire, TypeOK
<1>2. ASSUME NEW w \in Worker, NEW S \in SUBSET Message, Fetch(w, S) PROVE state'[m] # "new"
  BY <1>2 DEF Fetch
<1>3. ASSUME NEW w \in Worker, NEW n \in Message, NEW a \in BOOLEAN, Ack(w, n, a)
      PROVE  state'[m] # "new"
  BY <1>3 DEF Ack, TypeOK
<1>4. ASSUME NEW w \in Worker, NEW t \in Table, NEW D \in SUBSET Message, InsertOk(w, t, D)
      PROVE  UNCHANGED state
  BY <1>4 DEF InsertOk, streamVars
<1>5. ASSUME NEW w \in Worker, NEW t \in Table, NEW c \in BOOLEAN, InsertErr(w, t, c)
      PROVE  UNCHANGED state
  BY <1>5 DEF InsertErr, streamVars
<1>6. ASSUME NEW w \in Worker, StartAck(w) \/ Abandon(w) \/ Crash(w) PROVE UNCHANGED state
  BY <1>6 DEF StartAck, Abandon, Crash, streamVars
<1>7. UNCHANGED vars => UNCHANGED state
  BY DEF vars
<1>8. QED
  BY <1>1, <1>2, <1>3, <1>4, <1>5, <1>6, <1>7 DEF Next, Stream, Work

\* A fresh system: no stream, no gateway up, nothing reported.
LEMMA IngestInitInv == IngestInit => IngestInv
  BY DEF IngestInit, IngestInv, IngestTypes, AcceptedWasPublished, LogsCaptured, GatewayState, Down

\* A handler counts a message as accepted only with its publish acknowledged.
LEMMA HandleInv ==
    ASSUME IInv, IngestInv, NEW g \in Gateway, Handle(g)
    PROVE  IngestInv'
<1> USE DEF IngestInv
<1>p. \A m \in Message : state[m] # "new" => state'[m] # "new"
  <2>1. [Next]_vars
    BY HandlePublishes DEF Next, Stream
  <2>2. QED
    BY <2>1, PublishedStays DEF IInv
<1>t. /\ gw \in [Gateway -> GatewayState] /\ reported \subseteq Message
      /\ gw[g] \in GatewayState /\ Down \in GatewayState
  BY DEF IngestTypes, GatewayState, Down
<1>1. ASSUME NEW B \in SUBSET Input, Receive(g, B) PROVE IngestInv'
  BY <1>1, <1>p, <1>t DEF Receive, IngestTypes, AcceptedWasPublished, LogsCaptured, Captured,
                          GatewayState, Down
<1>2. ASSUME NEW i \in Input, SkipInput(g, i) PROVE IngestInv'
  <2>1. PICK E \in SUBSET Input, K \in SUBSET Input :
          gw' = [gw EXCEPT ![g].todo = @ \ {i}, ![g].errors = E, ![g].skipped = K]
    <3>1. gw[g].errors \in SUBSET Input /\ gw[g].skipped \in SUBSET Input
      BY <1>t DEF GatewayState
    <3>2. QED
      BY <1>2, <3>1 DEF SkipInput
  <2>2. IngestTypes'
    <3>1. [gw[g] EXCEPT !.todo = @ \ {i}, !.errors = E, !.skipped = K] \in GatewayState
      BY <1>t DEF GatewayState
    <3>2. gw' = [gw EXCEPT ![g] = [gw[g] EXCEPT !.todo = @ \ {i}, !.errors = E, !.skipped = K]]
      BY <1>t, <2>1 DEF GatewayState
    <3>3. UNCHANGED <<subjects, reported>>
      BY <1>2 DEF SkipInput
    <3>4. QED
      BY <1>t, <3>1, <3>2, <3>3 DEF IngestTypes
  <2>3. /\ \A h \in Gateway : gw'[h].accepted = gw[h].accepted /\ gw'[h].pc = gw[h].pc
        /\ \A h \in Gateway : gw[h].accepted \subseteq Message
        /\ reported' = reported /\ subjects' = subjects
    BY <1>2, <1>t, <2>1 DEF SkipInput, GatewayState
  <2>4. AcceptedWasPublished' /\ LogsCaptured'
    BY <1>p, <1>t, <2>3 DEF AcceptedWasPublished, LogsCaptured, Captured
  <2>5. QED
    BY <2>2, <2>4
<1>3. ASSUME NEW m \in Message, PublishOk(g, m) PROVE IngestInv'
  <2>1. state'[m] = "ready"
    BY <1>3 DEF PublishOk, Publish, IInv, TypeOK
  <2>2. IngestTypes' /\ LogsCaptured'
    BY <1>3, <1>t DEF PublishOk, IngestTypes, LogsCaptured, Captured, GatewayState
  <2>3. /\ \A h \in Gateway : gw'[h].accepted \subseteq gw[h].accepted \cup {m}
        /\ \A h \in Gateway : gw[h].accepted \subseteq Message
        /\ reported' = reported
    BY <1>3, <1>t DEF PublishOk, GatewayState
  <2>4. AcceptedWasPublished'
    BY <1>p, <1>t, <2>1, <2>3 DEF AcceptedWasPublished
  <2>5. QED
    BY <2>2, <2>4
<1>4. ASSUME NEW m \in Message, NEW arrives \in BOOLEAN, PublishErr(g, m, arrives) PROVE IngestInv'
  <2>i. inputOf[m] \in Input
    BY IngestAssumption
  <2>2. IngestTypes' /\ LogsCaptured'
    BY <1>4, <1>t, <2>i DEF PublishErr, IngestTypes, LogsCaptured, Captured, GatewayState
  <2>3. /\ \A h \in Gateway : gw'[h].accepted = gw[h].accepted
        /\ \A h \in Gateway : gw[h].accepted \subseteq Message
        /\ reported' = reported
    BY <1>4, <1>t DEF PublishErr, GatewayState
  <2>4. AcceptedWasPublished'
    BY <1>p, <1>t, <2>3 DEF AcceptedWasPublished
  <2>5. QED
    BY <2>2, <2>4
<1>5. ASSUME Respond(g) PROVE IngestInv'
  BY <1>5, <1>p, <1>t DEF Respond, IngestTypes, AcceptedWasPublished, LogsCaptured, Captured,
                          GatewayState, Down
<1>6. QED
  BY <1>1, <1>2, <1>3, <1>4, <1>5 DEF Handle

\* Starting and restarting the three services, in any order, and everything
\* downstream of the stream keep the invariant.
LEMMA IngestStepInv == IInv /\ IngestInv /\ [IngestNext]_allVars => IngestInv'
<1> SUFFICES ASSUME IInv, IngestInv, [IngestNext]_allVars PROVE IngestInv'
  OBVIOUS
<1> USE DEF IngestInv
<1>p. \A m \in Message : state[m] # "new" => state'[m] # "new"
  BY StepImplementsWriter, PublishedStays DEF IInv
<1>t. /\ gw \in [Gateway -> GatewayState] /\ reported \subseteq Message
      /\ \A g \in Gateway : gw[g].accepted \subseteq Message
      /\ Down \in GatewayState
  BY DEF IngestTypes, GatewayState, Down
<1>1. ASSUME NEW g \in Gateway, StartGateway(g) PROVE IngestInv'
  BY <1>1, <1>p, <1>t DEF StartGateway, Provisioned, IngestTypes, AcceptedWasPublished,
                          LogsCaptured, Captured, GatewayState, Down
<1>2. ASSUME NEW g \in Gateway, CrashGateway(g) PROVE IngestInv'
  BY <1>2, <1>p, <1>t DEF CrashGateway, IngestTypes, AcceptedWasPublished, LogsCaptured, Captured, Down
<1>3. ASSUME NEW g \in Gateway, Handle(g) PROVE IngestInv'
  BY <1>3, HandleInv
<1>4. ASSUME StartWriter \/ EnsureStreams PROVE IngestInv'
  BY <1>4, <1>p, <1>t DEF StartWriter, EnsureStreams, Provisioned, IngestTypes,
                          AcceptedWasPublished, LogsCaptured, Captured
<1>5. ASSUME UNCHANGED ingestVars PROVE IngestInv'
  BY <1>5, <1>p, <1>t DEF ingestVars, IngestTypes, AcceptedWasPublished, LogsCaptured, Captured
<1>6. QED
  BY <1>1, <1>2, <1>3, <1>4, <1>5 DEF IngestNext, Downstream, allVars

\* The invariant holds of the composition, beside the writer's own.
LEMMA IngestInvariance == IngestSpec => []IInv /\ []IngestInv
<1>1. IngestSpec => []IInv
  BY IngestImplementsWriter, Invariance, PTL
<1>2. QED
  BY <1>1, IngestInitInv, IngestStepInv, PTL DEF IngestSpec

-----------------------------------------------------------------------------
(* The theorems *)

\* What a response counted as accepted is in its table, in the stream, or was
\* dropped by max_age, for any number of gateways and writers, whatever crashes
\* and however the stream is reconfigured.
THEOREM IngestAcceptedIsDurable == IngestSpec => []AcceptedIsDurable
<1>1. IInv /\ IngestInv => AcceptedIsDurable
  <2> SUFFICES ASSUME IInv, IngestInv, NEW m \in reported
               PROVE  Stored(m) \/ state[m] \in {"ready", "outstanding", "expired"}
    BY DEF AcceptedIsDurable
  <2>1. m \in Message /\ state[m] # "new" /\ state[m] \in MessageState
    BY DEF IngestInv, IngestTypes, AcceptedWasPublished, IInv, TypeOK
  <2>2. Routable(m)
    BY <2>1, IngestAssumption DEF Routable
  <2>3. state[m] = "acked" => Stored(m)
    BY <2>1, <2>2 DEF IInv, AckedIsStored
  <2>4. QED
    BY <2>1, <2>3 DEF MessageState
<1>2. QED
  BY <1>1, IngestInvariance, PTL

\* In whatever order gateway, writer and query API start and restart, the log
\* subject of a running gateway has a stream.
THEOREM IngestLogsCaptured == IngestSpec => []LogsCaptured
<1>1. IngestInv => LogsCaptured
  BY DEF IngestInv
<1>2. QED
  BY <1>1, IngestInvariance, PTL

=============================================================================
