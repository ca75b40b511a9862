------------------------------- MODULE Alerter -------------------------------
(***************************************************************************)
(* The alerting engine (domains/alerting): a poll loop that evaluates every *)
(* rule, correlates firings into incidents, pages above the confidence      *)
(* gate, resolves incidents and records the firing state of each rule.      *)
(* Every SQL statement and every notification is a step of its own, so that *)
(* a crash, a failed statement or a second engine (a rolling update starts  *)
(* the new pod before the old one stops) falls between any two of them.     *)
(*                                                                          *)
(* One tenant; a fingerprint, being a hash of tenant and service, is the    *)
(* service.  Query results (counts, baselines, anomaly scores, topology)    *)
(* are choices; a confidence is a percentage, after calibration.            *)
(***************************************************************************)
EXTENDS Integers, Sequences, FiniteSets

CONSTANTS
    Engine,         \* alerter processes
    Rule,           \* alert rules
    Service,        \* services, Star included
    Star,           \* "*": the service of a rule that names none
    None,           \* no detector
    service,        \* [Rule -> Service]
    Notifies,       \* rules with a delivery channel
    Adjacent,       \* SUBSET (Service \X Service): caller, callee edges
    Score,          \* confidences the detectors can produce
    pageMinConfidence,
    MaxIncidents,   \* bound: incidents ever opened
    MaxFaults       \* bound: crashes and failed statements

VARIABLES
    rules,          \* alert_rules: the rules that exist
    alert_state,    \* [Rule -> {"absent", "quiet", "firing"}]
    incidents,      \* Seq(Incident): the incidents table, in insertion order
    eng,            \* [Engine -> engine state]
    sent,           \* history, [incident -> [Engine -> pages it sent to a channel]]
    lost,           \* history, [incident -> [Engine -> pages it sent without a record]]
    opened,         \* history, [incident -> incident.opened webhooks dispatched]
    faults          \* crashes and failed statements so far

dbVars == <<rules, alert_state, incidents>>
historyVars == <<sent, lost, opened>>
vars == <<rules, alert_state, incidents, eng, sent, lost, opened, faults>>

\* A service stands for its own anomaly signal, which is correlated as a
\* pseudo-rule without channels (sweepAnomalies).
Detector == Rule \cup Service

ASSUME ConstantsAssumption ==
    /\ Star \in Service
    /\ Rule \cap Service = {}
    /\ None \notin Detector
    /\ service \in [Rule -> Service]
    /\ Notifies \subseteq Rule
    /\ Adjacent \subseteq Service \X Service
    /\ Score \subseteq 0..100
    /\ pageMinConfidence \in 0..100
    /\ MaxIncidents \in Nat
    /\ MaxFaults \in Nat

-----------------------------------------------------------------------------
(* Detectors, severities, topology *)

serviceOf(d) == IF d \in Rule THEN service[d] ELSE d

\* Severity label of a confidence: low, medium, high, critical.
Severity(conf) ==
    CASE conf >= 85 -> 3
      [] conf >= 60 -> 2
      [] conf >= 30 -> 1
      [] OTHER      -> 0

Neighbors(s) ==
    {n \in Service : n # s /\ (<<s, n>> \in Adjacent \/ <<n, s>> \in Adjacent)}

Incident == [fp : Service, severity : 0..3, confidence : 0..100, rules : SUBSET Detector,
             status : {"open", "resolved"}, paged : BOOLEAN]

IsOpen(i, fp) == incidents[i].fp = fp /\ incidents[i].status = "open"

\* Mutants of Open: a unique index over all incidents, and none at all.
OpenOrResolved(fp) == {i \in DOMAIN incidents : incidents[i].fp = fp}
NoConflict(fp) == {i \in DOMAIN incidents : FALSE}

Open(fp) == {i \in DOMAIN incidents : IsOpen(i, fp)}

\* neighborIncidentFP: an open incident of a 1-hop neighbour, if the lookup
\* finds one; otherwise (or when the topology query fails) the service's own.
CorrelationFP(s) ==
    {s} \cup (IF s = Star THEN {} ELSE {n \in Neighbors(s) : Open(n) # {}})

-----------------------------------------------------------------------------
(* Engine state *)

PC == {"idle", "rules", "lookup", "upsert", "severity", "announce", "page",
       "mark", "resolve", "state", "sweep"}

EngineState ==
    [pc : PC, todo : SUBSET Rule, sweep : SUBSET Service, cur : Detector \cup {None},
     fp : Service, firing : BOOLEAN, changed : BOOLEAN, conf : 0..100, inc : Nat,
     newly : BOOLEAN, due : BOOLEAN]

Stopped ==
    [pc |-> "idle", todo |-> {}, sweep |-> {}, cur |-> None, fp |-> Star, firing |-> FALSE,
     changed |-> FALSE, conf |-> 0, inc |-> 0, newly |-> FALSE, due |-> FALSE]

\* What is left of an engine's state between two detectors.
Between(e, p) == [Stopped EXCEPT !.pc = p, !.todo = eng[e].todo, !.sweep = eng[e].sweep]

\* correlate has returned: evalRule records a change of state, the sweep goes on.
AfterCorrelate(e) ==
    IF eng[e].cur \in Service THEN Between(e, "sweep")
    ELSE IF eng[e].changed
         THEN [Between(e, "state") EXCEPT !.cur = eng[e].cur, !.firing = TRUE]
         ELSE Between(e, "rules")

Init ==
    /\ rules \in SUBSET Rule
    /\ alert_state = [r \in Rule |-> "absent"]
    /\ incidents = <<>>
    /\ eng = [e \in Engine |-> Stopped]
    /\ sent = <<>>
    /\ lost = <<>>
    /\ opened = <<>>
    /\ faults = 0

\* Pages by engine.
Tally == [Engine -> Nat]
NoPages == [e \in Engine |-> 0]
IsSent(tally) == \E e \in Engine : tally[e] > 0

\* A statement fails, or the process dies.
Fault == faults < MaxFaults /\ faults' = faults + 1

-----------------------------------------------------------------------------
(* The poll loop *)

\* runCycle: loadRules (a failure ends the cycle, which is a stutter).
StartCycle(e) ==
    /\ eng[e].pc = "idle"
    /\ eng' = [eng EXCEPT ![e] = [Stopped EXCEPT !.pc = "rules", !.todo = rules]]
    /\ UNCHANGED <<dbVars, historyVars, faults>>

\* evalRule up to the comparison with the recorded state.  A firing rule goes
\* on to correlate, a rule that has stopped firing to resolve; a failed query
\* skips the rule, and a quiet one only has its last_eval touched.
EvalRule(e, r, firing, conf) ==
    /\ eng[e].pc = "rules"
    /\ r \in eng[e].todo
    /\ LET was == alert_state[r] = "firing"
           rest == [eng[e] EXCEPT !.todo = @ \ {r}]
       IN eng' = [eng EXCEPT ![e] =
            CASE firing -> [rest EXCEPT !.pc = "lookup", !.cur = r, !.firing = TRUE,
                                        !.changed = ~was, !.conf = conf]
              [] ~firing /\ was -> [rest EXCEPT !.pc = "resolve", !.cur = r, !.changed = TRUE]
              [] OTHER -> rest]
    /\ UNCHANGED <<dbVars, historyVars, faults>>

SkipRule(e, r) ==
    /\ eng[e].pc = "rules"
    /\ r \in eng[e].todo
    /\ Fault
    /\ eng' = [eng EXCEPT ![e].todo = @ \ {r}]
    /\ UNCHANGED <<dbVars, historyVars>>

\* sweepAnomalies: the services whose error rate is an outlier.
StartSweep(e, A) ==
    /\ eng[e].pc = "rules"
    /\ eng[e].todo = {}
    /\ A \subseteq Service \ {Star}
    /\ eng' = [eng EXCEPT ![e].pc = "sweep", ![e].sweep = A]
    /\ UNCHANGED <<dbVars, historyVars, faults>>

SweepService(e, s, conf) ==
    /\ eng[e].pc = "sweep"
    /\ s \in eng[e].sweep
    /\ eng' = [eng EXCEPT ![e].pc = "lookup", ![e].cur = s, ![e].conf = conf,
                          ![e].firing = TRUE, ![e].sweep = @ \ {s}]
    /\ UNCHANGED <<dbVars, historyVars, faults>>

EndCycle(e) ==
    /\ eng[e].pc = "sweep"
    /\ eng[e].sweep = {}
    /\ eng' = [eng EXCEPT ![e] = Stopped]
    /\ UNCHANGED <<dbVars, historyVars, faults>>

-----------------------------------------------------------------------------
(* correlate *)

\* The fingerprint is chosen before the upsert: with a second engine, the
\* neighbour's incident may be resolved in between.
Lookup(e, fp) ==
    /\ eng[e].pc = "lookup"
    /\ fp \in CorrelationFP(serviceOf(eng[e].cur))
    /\ eng' = [eng EXCEPT ![e].pc = "upsert", ![e].fp = fp]
    /\ UNCHANGED <<dbVars, historyVars, faults>>

\* due: not paged yet, and the merged confidence is at or above the gate.
\* Mutant: the gate is dropped.
DueUngated(incident) == ~incident.paged

Due(incident) == ~incident.paged /\ incident.confidence >= pageMinConfidence

\* INSERT ... ON CONFLICT (fingerprint) WHERE status = 'open' DO UPDATE: the
\* conflict-free branch opens an incident,
OpenIncident(e) ==
    LET d == eng[e].cur
        fp == eng[e].fp
        new == [fp |-> fp, severity |-> Severity(eng[e].conf), confidence |-> eng[e].conf,
                rules |-> {d}, status |-> "open", paged |-> FALSE]
    IN /\ Open(fp) = {}
       /\ Len(incidents) < MaxIncidents
       /\ incidents' = Append(incidents, new)
       /\ sent' = Append(sent, NoPages)
       /\ lost' = Append(lost, NoPages)
       /\ opened' = Append(opened, 0)
       /\ eng' = [eng EXCEPT ![e].pc = "severity", ![e].inc = Len(incidents) + 1,
                             ![e].newly = TRUE, ![e].due = Due(new)]

MergedLatest(incident, d, conf) ==
    [incident EXCEPT !.confidence = conf, !.rules = @ \cup {d}]

\* the other one merges the signal into the open incident.
Merged(incident, d, conf) ==
    [incident EXCEPT !.confidence = IF conf > @ THEN conf ELSE @,
                     !.rules = @ \cup {d}]

MergeSignal(e, i) ==
    LET merged == Merged(incidents[i], eng[e].cur, eng[e].conf)
    IN /\ incidents' = [incidents EXCEPT ![i] = merged]
       /\ eng' = [eng EXCEPT ![e].pc = "severity", ![e].inc = i, ![e].newly = FALSE,
                             ![e].conf = merged.confidence, ![e].due = Due(merged)]
       /\ UNCHANGED historyVars

\* Mutant of Upsert's merge: xmax is not looked at, every upsert is "newly opened".
UpsertAlwaysNew(e) ==
    /\ eng[e].pc = "upsert"
    /\ OpenIncident(e) \/ \E i \in Open(eng[e].fp) :
         /\ incidents' = [incidents EXCEPT ![i] = Merged(@, eng[e].cur, eng[e].conf)]
         /\ eng' = [eng EXCEPT ![e].pc = "severity", ![e].inc = i, ![e].newly = TRUE]
         /\ UNCHANGED historyVars
    /\ UNCHANGED <<rules, alert_state, faults>>

Upsert(e) ==
    /\ eng[e].pc = "upsert"
    /\ OpenIncident(e) \/ \E i \in Open(eng[e].fp) : MergeSignal(e, i)
    /\ UNCHANGED <<rules, alert_state, faults>>

\* UPDATE incidents SET severity, from the merged confidence the upsert
\* returned.
SetSeverity(e) ==
    /\ eng[e].pc = "severity"
    /\ incidents' = [incidents EXCEPT ![eng[e].inc].severity = Severity(eng[e].conf)]
    /\ eng' = [eng EXCEPT ![e].pc = "announce"]
    /\ UNCHANGED <<rules, alert_state, historyVars, faults>>

\* The incident.opened webhook of a new incident is dispatched in the
\* background; then the page gate decides.
Announce(e) ==
    /\ eng[e].pc = "announce"
    /\ opened' = IF eng[e].newly THEN [opened EXCEPT ![eng[e].inc] = @ + 1] ELSE opened
    /\ eng' = [eng EXCEPT ![e] = IF eng[e].due THEN [@ EXCEPT !.pc = "page"]
                                 ELSE AfterCorrelate(e)]
    /\ UNCHANGED <<dbVars, sent, lost, faults>>

\* Deliver posts to every channel of the detector, which may be none; errors
\* are only logged.
Page(e) ==
    /\ eng[e].pc = "page"
    /\ sent' = IF eng[e].cur \in Notifies THEN [sent EXCEPT ![eng[e].inc][e] = @ + 1] ELSE sent
    /\ eng' = [eng EXCEPT ![e].pc = "mark"]
    /\ UNCHANGED <<dbVars, lost, opened, faults>>

\* Mutant: the page is not recorded.
MarkNothing(e) ==
    /\ eng[e].pc = "mark"
    /\ eng' = [eng EXCEPT ![e] = AfterCorrelate(e)]
    /\ UNCHANGED <<dbVars, historyVars, faults>>

MarkPaged(e) ==
    /\ eng[e].pc = "mark"
    /\ incidents' = [incidents EXCEPT ![eng[e].inc].paged = TRUE]
    /\ eng' = [eng EXCEPT ![e] = AfterCorrelate(e)]
    /\ UNCHANGED <<rules, alert_state, historyVars, faults>>

\* The page that has gone out is never recorded.
LoseRecord(e) ==
    lost' = IF eng[e].pc = "mark" /\ eng[e].cur \in Notifies
            THEN [lost EXCEPT ![eng[e].inc][e] = @ + 1] ELSE lost

\* One of the three statements fails, or takes effect although its response is
\* lost (then the failure shows at the next pc): correlate returns the error,
\* which the caller logs.
CorrelateFails(e) ==
    /\ eng[e].pc \in {"upsert", "severity", "announce", "mark"}
    /\ Fault
    /\ eng' = [eng EXCEPT ![e] = AfterCorrelate(e)]
    /\ LoseRecord(e)
    /\ UNCHANGED <<dbVars, sent, opened>>

-----------------------------------------------------------------------------
(* Resolution and rule state *)

ToState(e) == [Between(e, "state") EXCEPT !.cur = eng[e].cur]

\* resolveOpenIncident closes the incident with the rule's own fingerprint;
\* the resolve notification and webhook leave no trace in the database.
ResolveIncident(e) ==
    /\ eng[e].pc = "resolve"
    /\ incidents' = [i \in DOMAIN incidents |->
                       IF IsOpen(i, serviceOf(eng[e].cur))
                       THEN [incidents[i] EXCEPT !.status = "resolved"]
                       ELSE incidents[i]]
    /\ eng' = [eng EXCEPT ![e] = ToState(e)]
    /\ UNCHANGED <<rules, alert_state, historyVars, faults>>

ResolveFails(e) ==
    /\ eng[e].pc = "resolve"
    /\ Fault
    /\ eng' = [eng EXCEPT ![e] = ToState(e)]
    /\ UNCHANGED <<dbVars, historyVars>>

\* upsertState; the foreign key refuses the row of a rule deleted meanwhile.
UpsertState(e) ==
    /\ eng[e].pc = "state"
    /\ alert_state' = IF eng[e].cur \in rules
                      THEN [alert_state EXCEPT
                              ![eng[e].cur] = IF eng[e].firing THEN "firing" ELSE "quiet"]
                      ELSE alert_state
    /\ eng' = [eng EXCEPT ![e] = Between(e, "rules")]
    /\ UNCHANGED <<rules, incidents, historyVars, faults>>

UpsertStateFails(e) ==
    /\ eng[e].pc = "state"
    /\ Fault
    /\ eng' = [eng EXCEPT ![e] = Between(e, "rules")]
    /\ UNCHANGED <<dbVars, historyVars>>

Crash(e) ==
    /\ eng[e].pc # "idle"
    /\ Fault
    /\ eng' = [eng EXCEPT ![e] = Stopped]
    /\ LoseRecord(e)
    /\ UNCHANGED <<dbVars, sent, opened>>

-----------------------------------------------------------------------------
(* Rule administration (platform/api/handler/alerts.go) *)

\* A new rule has a fresh id: an id that was deleted is not used again.
CreateAlertRule(r) ==
    /\ r \notin rules
    /\ \A e \in Engine : r \notin eng[e].todo /\ eng[e].cur # r
    /\ \A i \in DOMAIN incidents : r \notin incidents[i].rules
    /\ rules' = rules \cup {r}
    /\ UNCHANGED <<alert_state, incidents, eng, historyVars, faults>>

\* The rule's alert_state row goes with it (ON DELETE CASCADE).
DeleteAlertRule(r) ==
    /\ r \in rules
    /\ rules' = rules \ {r}
    /\ alert_state' = [alert_state EXCEPT ![r] = "absent"]
    /\ UNCHANGED <<incidents, eng, historyVars, faults>>

Evaluate(e) ==
    \/ \E r \in Rule, conf \in Score : EvalRule(e, r, TRUE, conf)
    \/ \E r \in Rule : EvalRule(e, r, FALSE, 0) \/ SkipRule(e, r)

Sweep(e) ==
    \/ \E A \in SUBSET Service : StartSweep(e, A)
    \/ \E s \in Service, conf \in Score : SweepService(e, s, conf)

Correlate(e) ==
    \/ \E fp \in Service : Lookup(e, fp)
    \/ Upsert(e) \/ SetSeverity(e) \/ Announce(e) \/ Page(e) \/ MarkPaged(e) \/ CorrelateFails(e)

Settle(e) ==
    \/ ResolveIncident(e) \/ ResolveFails(e)
    \/ UpsertState(e) \/ UpsertStateFails(e)

Next ==
    \/ \E e \in Engine :
         \/ StartCycle(e) \/ Evaluate(e) \/ Sweep(e) \/ EndCycle(e)
         \/ Correlate(e) \/ Settle(e) \/ Crash(e)
    \/ \E r \in Rule : CreateAlertRule(r) \/ DeleteAlertRule(r)

Spec == Init /\ [][Next]_vars

-----------------------------------------------------------------------------
(* Properties *)

\* Type invariant of the rule, state and incident tables and of the engines.
TypeOK ==
    /\ rules \subseteq Rule
    /\ alert_state \in [Rule -> {"absent", "quiet", "firing"}]
    /\ incidents \in Seq(Incident)
    /\ eng \in [Engine -> EngineState]
    /\ sent \in Seq(Tally) /\ Len(sent) = Len(incidents)
    /\ lost \in Seq(Tally) /\ Len(lost) = Len(incidents)
    /\ opened \in Seq(Nat) /\ Len(opened) = Len(incidents)
    /\ faults \in 0..MaxFaults

\* "At most one OPEN incident per fingerprint" (migrations/0008): however many
\* engines upsert and resolve.
OneOpenPerFingerprint ==
    \A fp \in Service : \A i, j \in DOMAIN incidents :
        IsOpen(i, fp) /\ IsOpen(j, fp) => i = j

\* "Page ... only at/above the confidence gate" (incident.go:98): whenever a
\* page has gone out, or an incident is marked paged, the confidence the
\* incident shows is at or above the gate, whichever signals were merged, and
\* although the gate is applied to a value read two statements earlier.
PagedAboveGate ==
    \A i \in DOMAIN incidents :
        IsSent(sent[i]) \/ incidents[i].paged
            => incidents[i].confidence >= pageMinConfidence

\* "Severity tracks the merged confidence" (incident.go:81), but is written by
\* a second statement: a crash, an error or another engine between the two can
\* leave it behind the confidence, never ahead of it.
SeverityNeverOverstates ==
    \A i \in DOMAIN incidents :
        incidents[i].severity <= Severity(incidents[i].confidence)

\* "Fire the outbound incident.opened webhook once, when the incident is first
\* opened" (incident.go:87): no retry, merge or second engine repeats it.
OpenedAnnouncedOnce == \A i \in DOMAIN incidents : opened[i] <= 1

\* "pages exactly once" (incident.go:31), the at-most-once half, for any number
\* of engines and faults: an engine sends a page about an incident again only
\* for a page whose record it lost (the UPDATE failed, or it died before), and
\* never twice for one: what has been read before the page (paged, the merged
\* confidence) may be stale, but not twice.
PagedAtMostOnce ==
    \A i \in DOMAIN incidents : \A e \in Engine : sent[i][e] <= lost[i][e] + 1

\* A resolved incident is history: with one engine, nothing it has read before
\* (an incident id, a merged confidence) is written to an incident that has
\* been closed since.
ResolvedIsFinal ==
    [][\A i \in DOMAIN incidents :
         incidents[i].status = "resolved" => incidents'[i] = incidents[i]]_vars

\* What may become of an incident: signals are merged into it while it is open,
\* a page is recorded, it is resolved.
Follows(old, row) ==
    /\ row.fp = old.fp /\ old.rules \subseteq row.rules /\ old.confidence <= row.confidence
    /\ old.paged => row.paged
    /\ old.status = "resolved" =>
         row.status = "resolved" /\ row.rules = old.rules /\ row.confidence = old.confidence

\* However many engines write the table, whatever they have read before: no
\* incident is lost, reopened or given another fingerprint, no merged signal or
\* recorded page is forgotten, and the evidence of a resolved one is final (an
\* engine that still has its id may write its severity and paged).
EvidenceKept ==
    [][\A i \in DOMAIN incidents : i \in DOMAIN incidents' /\ Follows(incidents[i], incidents'[i])]_vars

\* "repeated firings and multiple rules for the same service dedup rather than
\* paging separately" (incident.go:15): a rule that was firing already opens no
\* new incident.
RepeatedFiringDedups ==
    [][\A e \in Engine :
         eng[e].pc = "upsert" /\ eng[e].cur \in Rule /\ ~eng[e].changed
             => Len(incidents') = Len(incidents)]_vars

=============================================================================
