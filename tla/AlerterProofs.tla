---------------------------- MODULE AlerterProofs ----------------------------
(***************************************************************************)
(* Proofs about Alerter, for any number of engines, rules, services and      *)
(* faults: one open incident per fingerprint, pages only above the gate,     *)
(* severities that never overstate, one incident.opened webhook, evidence    *)
(* that is never lost, no second page but for one whose record was lost.     *)
(* With one engine, resolved incidents are left alone.                       *)
(***************************************************************************)
EXTENDS Alerter, SequenceTheorems, TLAPS

-----------------------------------------------------------------------------
(* The inductive invariant *)

\* Past the loops over rules and services an engine works on a detector.
HasDetector(st) == st.pc \in {"idle", "rules", "sweep"} \/ st.cur \in Detector
WorksOnDetector == \A e \in Engine : HasDetector(eng[e])

\* correlate has an incident's id in hand.
Holding(e) == eng[e].pc \in {"severity", "announce", "page", "mark"}

\* The id is that of an incident, whose confidence has not gone below the one
\* the upsert returned: confidences are merged by GREATEST.
HeldIsMerged ==
    \A e \in Engine : Holding(e) =>
        /\ eng[e].inc \in 1..Len(incidents)
        /\ eng[e].conf <= incidents[eng[e].inc].confidence
        /\ eng[e].due => incidents[eng[e].inc].confidence >= pageMinConfidence
        /\ eng[e].pc \in {"page", "mark"} => eng[e].due

\* The engine whose upsert opened the incident has still to announce it.
Announcing(e, i) ==
    eng[e].pc \in {"severity", "announce"} /\ eng[e].newly /\ eng[e].inc = i

\* An incident to be announced has not been, and one engine is to announce it.
AnnouncedByOpener ==
    \A i \in DOMAIN incidents : \A e \in Engine : Announcing(e, i) =>
        opened[i] = 0 /\ \A f \in Engine : Announcing(f, i) => f = e

AlerterInv ==
    /\ TypeOK
    /\ WorksOnDetector
    /\ HeldIsMerged
    /\ AnnouncedByOpener
    /\ OneOpenPerFingerprint
    /\ PagedAboveGate
    /\ SeverityNeverOverstates
    /\ OpenedAnnouncedOnce

-----------------------------------------------------------------------------
(* Severities, engine states, the incidents table *)

\* A higher confidence is never of a lower severity.
LEMMA SeverityMonotone ==
    ASSUME NEW a \in 0..100, NEW b \in 0..100, a <= b
    PROVE  Severity(a) \in 0..3 /\ Severity(a) <= Severity(b)
  BY DEF Severity

\* The service of a rule or of an anomaly signal.
LEMMA ServiceOfType ==
    ASSUME NEW d \in Detector
    PROVE  serviceOf(d) \in Service
  BY ConstantsAssumption DEF Detector, serviceOf

\* What an engine is left with between two detectors is an engine state, and it
\* holds no incident.
LEMMA RestStates ==
    ASSUME TypeOK, NEW e \in Engine
    PROVE  /\ Stopped \in EngineState /\ Stopped.pc = "idle"
           /\ \A p \in PC : Between(e, p) \in EngineState /\ Between(e, p).pc = p
           /\ AfterCorrelate(e) \in EngineState
           /\ AfterCorrelate(e).pc \in {"sweep", "state", "rules"}
           /\ ToState(e) \in EngineState /\ ToState(e).pc = "state"
           /\ HasDetector(Stopped) /\ HasDetector(Between(e, "rules"))
           /\ HasDetector(eng[e]) /\ eng[e].pc \notin {"idle", "rules", "sweep"} =>
                HasDetector(AfterCorrelate(e)) /\ HasDetector(ToState(e))
<1>0. eng[e] \in EngineState
  BY DEF TypeOK
<1>1. Stopped \in EngineState /\ Stopped.pc = "idle"
  BY ConstantsAssumption DEF Stopped, EngineState, PC
<1>2. \A p \in PC : Between(e, p) \in EngineState /\ Between(e, p).pc = p
  BY <1>0, <1>1 DEF Between, EngineState, Stopped
<1>3. "sweep" \in PC /\ "state" \in PC /\ "rules" \in PC
  BY DEF PC
<1>4. ToState(e) \in EngineState /\ ToState(e).pc = "state"
  BY <1>0, <1>2, <1>3 DEF ToState, EngineState
<1>5. /\ [Between(e, "state") EXCEPT !.cur = eng[e].cur, !.firing = TRUE] \in EngineState
      /\ [Between(e, "state") EXCEPT !.cur = eng[e].cur, !.firing = TRUE].pc = "state"
  BY <1>0, <1>2, <1>3 DEF EngineState
<1>6. HasDetector(Stopped) /\ HasDetector(Between(e, "rules")) /\ HasDetector(Between(e, "sweep"))
  BY <1>1, <1>2, <1>3 DEF HasDetector
<1>7. ASSUME eng[e].cur \in Detector
      PROVE  /\ HasDetector([Between(e, "state") EXCEPT !.cur = eng[e].cur, !.firing = TRUE])
             /\ HasDetector(ToState(e))
  BY <1>2, <1>3, <1>7 DEF HasDetector, ToState, EngineState
<1>8. QED
  BY <1>1, <1>2, <1>3, <1>4, <1>5, <1>6, <1>7 DEF AfterCorrelate, HasDetector

\* Changing one row of a table keeps its length, its type and the other rows.
LEMMA RowUpdate ==
    ASSUME NEW S, NEW s \in Seq(S), NEW i \in 1..Len(s), NEW x \in S
    PROVE  /\ [s EXCEPT ![i] = x] \in Seq(S)
           /\ Len([s EXCEPT ![i] = x]) = Len(s)
           /\ DOMAIN [s EXCEPT ![i] = x] = 1..Len(s)
           /\ [s EXCEPT ![i] = x][i] = x
           /\ \A j \in 1..Len(s) : j # i => [s EXCEPT ![i] = x][j] = s[j]
  OBVIOUS

-----------------------------------------------------------------------------
(* Steps that leave the incidents and the histories alone *)

\* The ledger of lost records may grow.
LostStep == lost' = lost \/ (lost' \in Seq(Tally) /\ Len(lost') = Len(incidents))

\* A step that only moves engines to states without an incident in hand.
LEMMA QuietStep ==
    ASSUME AlerterInv, UNCHANGED <<incidents, sent, opened>>, LostStep,
           rules' \subseteq Rule,
           alert_state' \in [Rule -> {"absent", "quiet", "firing"}],
           faults' \in 0..MaxFaults,
           eng' \in [Engine -> EngineState],
           \A f \in Engine : \/ eng'[f] = eng[f]
                             \/ /\ eng'[f].pc \notin {"severity", "announce", "page", "mark"}
                                /\ HasDetector(eng'[f])
    PROVE  AlerterInv'
<1>1. TypeOK' /\ WorksOnDetector'
  BY DEF AlerterInv, TypeOK, WorksOnDetector, HasDetector, LostStep
<1>2. HeldIsMerged'
  BY DEF AlerterInv, HeldIsMerged, Holding
<1>3. AnnouncedByOpener'
  BY DEF AlerterInv, AnnouncedByOpener, Announcing
<1>4. OneOpenPerFingerprint' /\ PagedAboveGate' /\ SeverityNeverOverstates' /\ OpenedAnnouncedOnce'
  BY DEF AlerterInv, OneOpenPerFingerprint, IsOpen, PagedAboveGate, SeverityNeverOverstates,
         OpenedAnnouncedOnce
<1>5. QED
  BY <1>1, <1>2, <1>3, <1>4 DEF AlerterInv

\* Such a step of one engine.
QuietMove(e) ==
    /\ \E st \in EngineState : /\ eng' = [eng EXCEPT ![e] = st] /\ HasDetector(st)
                               /\ st.pc \notin {"severity", "announce", "page", "mark"}
    /\ UNCHANGED <<incidents, sent, opened, rules>> /\ LostStep
    /\ alert_state' \in [Rule -> {"absent", "quiet", "firing"}]
    /\ faults' \in 0..MaxFaults

\* The same, given the engine's new state.
LEMMA QuietEngine ==
    ASSUME NEW e \in Engine, NEW st \in EngineState,
           eng' = [eng EXCEPT ![e] = st],
           st.pc \notin {"severity", "announce", "page", "mark"}, HasDetector(st),
           UNCHANGED <<incidents, sent, opened, rules>>, LostStep,
           alert_state' \in [Rule -> {"absent", "quiet", "firing"}],
           faults' \in 0..MaxFaults
    PROVE  QuietMove(e)
  BY DEF QuietMove

\* A quiet step of one engine keeps the invariant.
LEMMA QuietMoveInv ==
    ASSUME AlerterInv, NEW e \in Engine, QuietMove(e)
    PROVE  AlerterInv'
<1>1. /\ eng \in [Engine -> EngineState] /\ rules \subseteq Rule
  BY DEF AlerterInv, TypeOK
<1>2. /\ eng' \in [Engine -> EngineState]
      /\ \A f \in Engine : \/ eng'[f] = eng[f]
                           \/ /\ eng'[f].pc \notin {"severity", "announce", "page", "mark"}
                              /\ HasDetector(eng'[f])
  BY <1>1 DEF QuietMove
<1>3. QED
  BY <1>1, <1>2, QuietStep DEF QuietMove

\* The poll loop, evaluation, the sweep and the neighbour lookup.
LEMMA PollQuiet ==
    ASSUME AlerterInv, NEW e \in Engine,
           \/ StartCycle(e) \/ Evaluate(e) \/ Sweep(e) \/ EndCycle(e)
           \/ \E fp \in Service : Lookup(e, fp)
    PROVE  QuietMove(e)
<1>0. /\ eng \in [Engine -> EngineState] /\ eng[e] \in EngineState /\ rules \in SUBSET Rule
      /\ alert_state \in [Rule -> {"absent", "quiet", "firing"}] /\ faults \in 0..MaxFaults
      /\ TypeOK /\ HasDetector(eng[e])
  BY DEF AlerterInv, TypeOK, WorksOnDetector
<1>r. Stopped \in EngineState /\ Stopped.pc = "idle" /\ HasDetector(Stopped)
  BY <1>0, RestStates
<1>s. \A c \in Score : c \in 0..100
  BY ConstantsAssumption
<1>1. CASE StartCycle(e)
  <2>1. /\ [Stopped EXCEPT !.pc = "rules", !.todo = rules] \in EngineState
        /\ [Stopped EXCEPT !.pc = "rules", !.todo = rules].pc = "rules"
    BY <1>0, <1>r DEF EngineState, PC
  <2>2. QED
    BY <1>0, <1>1, <2>1, QuietEngine DEF StartCycle, dbVars, historyVars, LostStep, HasDetector
<1>2. ASSUME NEW r \in Rule, NEW firing \in BOOLEAN, NEW conf \in 0..100, EvalRule(e, r, firing, conf)
      PROVE  QuietMove(e)
  <2> DEFINE was == alert_state[r] = "firing"
             rest == [eng[e] EXCEPT !.todo = @ \ {r}]
             st == CASE firing -> [rest EXCEPT !.pc = "lookup", !.cur = r, !.firing = TRUE,
                                               !.changed = ~was, !.conf = conf]
                     [] ~firing /\ was -> [rest EXCEPT !.pc = "resolve", !.cur = r, !.changed = TRUE]
                     [] OTHER -> rest
  <2>1. rest \in EngineState /\ rest.pc = "rules"
    BY <1>0, <1>2 DEF EngineState, EvalRule
  <2>2. /\ [rest EXCEPT !.pc = "lookup", !.cur = r, !.firing = TRUE, !.changed = ~was, !.conf = conf]
             \in EngineState
        /\ [rest EXCEPT !.pc = "resolve", !.cur = r, !.changed = TRUE] \in EngineState
    <3> HIDE DEF rest, was
    <3>1. r \in Detector \cup {None} /\ (~was) \in BOOLEAN
      BY DEF Detector, was
    <3>2. QED
      BY <2>1, <3>1 DEF EngineState, PC
  <2>3. /\ [rest EXCEPT !.pc = "lookup", !.cur = r, !.firing = TRUE, !.changed = ~was, !.conf = conf].pc
             = "lookup"
        /\ [rest EXCEPT !.pc = "resolve", !.cur = r, !.changed = TRUE].pc = "resolve"
        /\ [rest EXCEPT !.pc = "lookup", !.cur = r, !.firing = TRUE, !.changed = ~was, !.conf = conf].cur
             \in Detector
        /\ [rest EXCEPT !.pc = "resolve", !.cur = r, !.changed = TRUE].cur \in Detector
    <3> HIDE DEF rest, was
    <3>1. QED
      BY <2>1 DEF EngineState, Detector
  <2>4. /\ st \in EngineState /\ st.pc \notin {"severity", "announce", "page", "mark"}
        /\ HasDetector(st)
    <3> HIDE DEF rest, was
    <3>1. QED
      BY <2>1, <2>2, <2>3 DEF HasDetector
  <2>5. /\ eng' = [eng EXCEPT ![e] = st]
        /\ UNCHANGED <<rules, alert_state, incidents, sent, opened, faults>> /\ LostStep
    BY <1>2 DEF EvalRule, dbVars, historyVars, LostStep
  <2> HIDE DEF st
  <2>6. QED
    BY <1>0, <2>4, <2>5, QuietEngine
<1>3. ASSUME NEW r \in Rule, SkipRule(e, r) PROVE QuietMove(e)
  <2>1. [eng[e] EXCEPT !.todo = @ \ {r}] \in EngineState /\ [eng[e] EXCEPT !.todo = @ \ {r}].pc = "rules"
    BY <1>0, <1>3 DEF EngineState, SkipRule
  <2>2. eng' = [eng EXCEPT ![e] = [eng[e] EXCEPT !.todo = @ \ {r}]]
    BY <1>0, <1>3 DEF SkipRule
  <2>3. faults' \in 0..MaxFaults
    BY <1>0, <1>3, ConstantsAssumption DEF SkipRule, Fault
  <2>4. QED
    BY <1>0, <1>3, <2>1, <2>2, <2>3, QuietEngine DEF SkipRule, dbVars, historyVars, LostStep, HasDetector
<1>4. ASSUME NEW A \in SUBSET Service, StartSweep(e, A) PROVE QuietMove(e)
  <2>1. /\ [eng[e] EXCEPT !.pc = "sweep", !.sweep = A] \in EngineState
        /\ [eng[e] EXCEPT !.pc = "sweep", !.sweep = A].pc = "sweep"
    BY <1>0 DEF EngineState, PC
  <2>2. eng' = [eng EXCEPT ![e] = [eng[e] EXCEPT !.pc = "sweep", !.sweep = A]]
    BY <1>0, <1>4 DEF StartSweep
  <2>3. QED
    BY <1>0, <1>4, <2>1, <2>2, QuietEngine DEF StartSweep, dbVars, historyVars, LostStep, HasDetector
<1>5. ASSUME NEW s \in Service, NEW conf \in Score, SweepService(e, s, conf) PROVE QuietMove(e)
  <2> DEFINE st == [eng[e] EXCEPT !.pc = "lookup", !.cur = s, !.conf = conf, !.firing = TRUE,
                                  !.sweep = @ \ {s}]
  <2>1. st \in EngineState /\ st.pc = "lookup" /\ st.cur \in Detector
    BY <1>0, <1>s DEF EngineState, PC, Detector
  <2>2. eng' = [eng EXCEPT ![e] = st]
    BY <1>0, <1>5 DEF SweepService
  <2> HIDE DEF st
  <2>3. QED
    BY <1>0, <1>5, <2>1, <2>2, QuietEngine DEF SweepService, dbVars, historyVars, LostStep, HasDetector
<1>6. CASE EndCycle(e)
  BY <1>0, <1>6, <1>r, QuietEngine DEF EndCycle, dbVars, historyVars, LostStep
<1>7. ASSUME NEW fp \in Service, Lookup(e, fp) PROVE QuietMove(e)
  <2>1. /\ [eng[e] EXCEPT !.pc = "upsert", !.fp = fp] \in EngineState
        /\ HasDetector([eng[e] EXCEPT !.pc = "upsert", !.fp = fp])
        /\ [eng[e] EXCEPT !.pc = "upsert", !.fp = fp].pc = "upsert"
    BY <1>0, <1>7 DEF EngineState, PC, HasDetector, Lookup
  <2>2. eng' = [eng EXCEPT ![e] = [eng[e] EXCEPT !.pc = "upsert", !.fp = fp]]
    BY <1>0, <1>7 DEF Lookup
  <2>3. QED
    BY <1>0, <1>7, <2>1, <2>2, QuietEngine DEF Lookup, dbVars, historyVars, LostStep
<1>8. ASSUME NEW r \in Rule, NEW conf \in Score, EvalRule(e, r, TRUE, conf) PROVE QuietMove(e)
  BY <1>2, <1>8, <1>s
<1>9. ASSUME NEW r \in Rule, EvalRule(e, r, FALSE, 0) PROVE QuietMove(e)
  <2>1. 0 \in 0..100
    OBVIOUS
  <2>2. QED
    BY <1>2, <1>9, <2>1
<1>10. QED
  BY <1>1, <1>3, <1>4, <1>5, <1>6, <1>7, <1>8, <1>9 DEF Evaluate, Sweep

\* A failed statement, the recorded state of a rule, a crash.
LEMMA GiveUpQuiet ==
    ASSUME AlerterInv, NEW e \in Engine,
           CorrelateFails(e) \/ ResolveFails(e) \/ UpsertState(e) \/ UpsertStateFails(e) \/ Crash(e)
    PROVE  QuietMove(e)
<1>0. /\ rules \in SUBSET Rule /\ faults \in 0..MaxFaults /\ TypeOK
      /\ alert_state \in [Rule -> {"absent", "quiet", "firing"}] /\ HasDetector(eng[e])
  BY DEF AlerterInv, TypeOK, WorksOnDetector
<1>f. Fault => faults' \in 0..MaxFaults
  BY <1>0, ConstantsAssumption DEF Fault
<1>l. LoseRecord(e) => LostStep
  <2> SUFFICES ASSUME LoseRecord(e), lost' # lost PROVE LostStep
    BY DEF LostStep
  <2> DEFINE i == eng[e].inc
             tally == [lost[i] EXCEPT ![e] = @ + 1]
  <2>1. Holding(e) /\ lost' = [lost EXCEPT ![i] = tally]
    BY DEF LoseRecord, Holding
  <2>2. i \in 1..Len(lost) /\ lost \in Seq(Tally) /\ Len(lost) = Len(incidents)
    BY <1>0, <2>1 DEF AlerterInv, HeldIsMerged, TypeOK
  <2>3. tally \in Tally
    BY <2>2 DEF Tally
  <2> HIDE DEF tally, i
  <2>4. QED
    BY <2>1, <2>2, <2>3, RowUpdate DEF LostStep
<1>p. "rules" \in PC
  BY DEF PC
<1>1. CASE CorrelateFails(e)
  BY <1>0, <1>1, <1>f, <1>l, RestStates, QuietEngine DEF CorrelateFails, dbVars
<1>2. CASE ResolveFails(e)
  BY <1>0, <1>2, <1>f, RestStates, QuietEngine DEF ResolveFails, dbVars, historyVars, LostStep
<1>3. CASE UpsertState(e)
  <2>1. alert_state' \in [Rule -> {"absent", "quiet", "firing"}]
    BY <1>0, <1>3 DEF UpsertState
  <2>2. QED
    BY <1>0, <1>3, <1>p, <2>1, RestStates, QuietEngine DEF UpsertState, historyVars, LostStep
<1>4. CASE UpsertStateFails(e)
  BY <1>0, <1>4, <1>f, <1>p, RestStates, QuietEngine DEF UpsertStateFails, dbVars, historyVars, LostStep
<1>5. CASE Crash(e)
  BY <1>0, <1>5, <1>f, <1>l, RestStates, QuietEngine DEF Crash, dbVars
<1>6. QED
  BY <1>1, <1>2, <1>3, <1>4, <1>5

\* Creating and deleting rules.
LEMMA AdminInv ==
    ASSUME AlerterInv, NEW r \in Rule, CreateAlertRule(r) \/ DeleteAlertRule(r)
    PROVE  AlerterInv'
<1>1. /\ rules' \subseteq Rule /\ alert_state' \in [Rule -> {"absent", "quiet", "firing"}]
      /\ eng' = eng /\ eng \in [Engine -> EngineState] /\ faults' \in 0..MaxFaults
      /\ UNCHANGED <<incidents, sent, opened>> /\ LostStep
  BY DEF AlerterInv, TypeOK, CreateAlertRule, DeleteAlertRule, historyVars, LostStep
<1>2. QED
  BY <1>1, QuietStep

-----------------------------------------------------------------------------
(* Steps on incidents *)

\* What a step may do to a row: the fingerprint stays, an open incident may be
\* resolved but not the other way round, the confidence does not sink, the
\* severity is one the confidence allows, and a row newly marked paged is above
\* the gate.
RowStep(old, row) ==
    /\ row.fp = old.fp
    /\ row.status = "open" => old.status = "open"
    /\ row.confidence >= old.confidence
    /\ row.severity <= Severity(row.confidence)
    /\ row.paged => old.paged \/ row.confidence >= pageMinConfidence

\* The engine states of an upsert.
LEMMA UpsertStates ==
    ASSUME NEW s \in EngineState, NEW i \in Nat, NEW c \in 0..100, NEW due \in BOOLEAN
    PROVE  /\ [s EXCEPT !.pc = "severity", !.inc = i, !.newly = TRUE, !.due = due] \in EngineState
           /\ [s EXCEPT !.pc = "severity", !.inc = i, !.newly = FALSE, !.conf = c, !.due = due]
                \in EngineState
  BY DEF EngineState, PC

\* The numbers of an incident and of an engine.
LEMMA IncidentNumbers ==
    ASSUME NEW row \in Incident
    PROVE  /\ row.confidence \in 0..100 /\ row.severity \in 0..3 /\ Severity(row.confidence) \in 0..3
           /\ row.fp \in Service
  BY SeverityMonotone DEF Incident

\* A row step keeps the confidence of a paged incident above the gate.
LEMMA GateStep ==
    ASSUME NEW old \in Incident, NEW row \in Incident, RowStep(old, row),
           NEW was, NEW is,
           was \/ old.paged => old.confidence >= pageMinConfidence,
           is => was \/ old.confidence >= pageMinConfidence,
           is \/ row.paged
    PROVE  row.confidence >= pageMinConfidence
<1>1. /\ row.confidence \in 0..100 /\ old.confidence \in 0..100 /\ pageMinConfidence \in 0..100
  BY IncidentNumbers, ConstantsAssumption
<1>2. QED
  BY <1>1 DEF RowStep

\* One engine rewrites rows, pages or announces: the table takes row steps, a
\* page is only counted for an incident above the gate, nobody becomes an
\* announcer, and who still is one has not been announced.
LEMMA IncidentStep ==
    ASSUME AlerterInv, NEW e \in Engine, NEW st \in EngineState,
           eng' = [eng EXCEPT ![e] = st], HasDetector(st),
           UNCHANGED <<rules, alert_state, faults, lost>>,
           incidents' \in Seq(Incident), Len(incidents') = Len(incidents),
           \A j \in 1..Len(incidents) : RowStep(incidents[j], incidents'[j]),
           sent' \in Seq(Tally), Len(sent') = Len(incidents),
           \A j \in 1..Len(incidents) :
               IsSent(sent'[j]) => IsSent(sent[j]) \/ incidents[j].confidence >= pageMinConfidence,
           opened' \in Seq(Nat), Len(opened') = Len(incidents),
           \A j \in 1..Len(incidents) : \/ opened'[j] = opened[j]
                                        \/ opened'[j] <= 1 /\ Announcing(e, j),
           st.pc \in {"severity", "announce"} =>
               ~st.newly \/ (st.inc = eng[e].inc /\ Announcing(e, eng[e].inc) /\ opened' = opened),
           st.pc \in {"severity", "announce", "page", "mark"} =>
               /\ st.inc \in 1..Len(incidents)
               /\ st.conf <= incidents'[st.inc].confidence
               /\ st.due => incidents'[st.inc].confidence >= pageMinConfidence
               /\ st.pc \in {"page", "mark"} => st.due,
           opened' = opened \/ st.pc \notin {"severity", "announce"}
    PROVE  AlerterInv'
<1> DEFINE n == Len(incidents)
<1>0. /\ eng \in [Engine -> EngineState] /\ TypeOK
      /\ incidents \in Seq(Incident) /\ sent \in Seq(Tally) /\ opened \in Seq(Nat)
      /\ Len(sent) = n /\ Len(opened) = n /\ n \in Nat
      /\ DOMAIN incidents = 1..n /\ DOMAIN incidents' = 1..n
  BY DEF AlerterInv, TypeOK
<1>1. /\ eng' \in [Engine -> EngineState] /\ eng'[e] = st
      /\ \A f \in Engine : f # e => eng'[f] = eng[f]
  BY <1>0
<1>2. TypeOK'
  BY <1>0, <1>1 DEF TypeOK
<1>3. WorksOnDetector'
  BY <1>1 DEF AlerterInv, WorksOnDetector, HasDetector
<1>4. /\ incidents \in [1..n -> Incident] /\ incidents' \in [1..n -> Incident]
      /\ sent \in [1..n -> Tally] /\ sent' \in [1..n -> Tally]
      /\ opened \in [1..n -> Nat] /\ opened' \in [1..n -> Nat] /\ 1..n \in SUBSET Nat
  <2>1. \A S : \A s \in Seq(S) : Len(s) = n => s \in [1..n -> S]
    OBVIOUS
  <2>2. /\ incidents' \in Seq(Incident) /\ Len(incidents') = n /\ sent' \in Seq(Tally)
        /\ Len(sent') = n /\ opened' \in Seq(Nat) /\ Len(opened') = n
    OBVIOUS
  <2> HIDE DEF n
  <2>3. QED
    BY ONLY <1>0, <2>1, <2>2
<1>5. \A j \in 1..n : /\ incidents[j].confidence \in 0..100 /\ incidents'[j].confidence \in 0..100
                      /\ incidents[j].confidence <= incidents'[j].confidence
  <2> TAKE j \in 1..n
  <2>1. incidents[j] \in Incident /\ incidents'[j] \in Incident
    BY <1>4
  <2>2. RowStep(incidents[j], incidents'[j])
    OBVIOUS
  <2>3. incidents[j].confidence \in 0..100 /\ incidents'[j].confidence \in 0..100
    BY ONLY <2>1, IncidentNumbers
  <2>4. QED
    BY ONLY <2>2, <2>3 DEF RowStep
<1>6. PagedAboveGate'
  <2>1. \A j \in 1..n : IsSent(sent[j]) \/ incidents[j].paged => incidents[j].confidence >= pageMinConfidence
    BY <1>0 DEF AlerterInv, PagedAboveGate
  <2>2. \A j \in 1..n : RowStep(incidents[j], incidents'[j])
    OBVIOUS
  <2>3. \A j \in 1..n : IsSent(sent'[j]) => IsSent(sent[j]) \/ incidents[j].confidence >= pageMinConfidence
    OBVIOUS
  <2>4. \A j \in 1..n : IsSent(sent'[j]) \/ incidents'[j].paged => incidents'[j].confidence >= pageMinConfidence
    <3> TAKE j \in 1..n
    <3>1. incidents[j] \in Incident /\ incidents'[j] \in Incident
      BY ONLY <1>4
    <3>2. RowStep(incidents[j], incidents'[j])
      BY ONLY <2>2
    <3>3. IsSent(sent[j]) \/ incidents[j].paged => incidents[j].confidence >= pageMinConfidence
      BY ONLY <2>1
    <3>4. IsSent(sent'[j]) => IsSent(sent[j]) \/ incidents[j].confidence >= pageMinConfidence
      BY ONLY <2>3
    <3>5. HAVE IsSent(sent'[j]) \/ incidents'[j].paged
    <3>6. QED
      BY ONLY <3>1, <3>2, <3>3, <3>4, <3>5, GateStep
  <2>5. QED
    BY <1>0, <2>4 DEF PagedAboveGate
<1>7. SeverityNeverOverstates'
  BY <1>0 DEF SeverityNeverOverstates, RowStep
<1>8. OneOpenPerFingerprint'
  <2>1. \A j \in 1..n, fp \in Service : IsOpen(j, fp)' => IsOpen(j, fp)
    BY DEF IsOpen, RowStep
  <2>2. QED
    BY <1>0, <2>1 DEF AlerterInv, OneOpenPerFingerprint
<1>9. OpenedAnnouncedOnce'
  BY <1>0, <1>4 DEF AlerterInv, OpenedAnnouncedOnce
<1>10. HeldIsMerged'
  <2> SUFFICES ASSUME NEW f \in Engine, eng'[f].pc \in {"severity", "announce", "page", "mark"}
               PROVE  /\ eng'[f].inc \in 1..Len(incidents')
                      /\ eng'[f].conf <= incidents'[eng'[f].inc].confidence
                      /\ eng'[f].due => incidents'[eng'[f].inc].confidence >= pageMinConfidence
                      /\ eng'[f].pc \in {"page", "mark"} => eng'[f].due
    BY DEF HeldIsMerged, Holding
  <2>1. CASE f = e
    BY <2>1, <1>0, <1>1
  <2>2. CASE f # e
    <3> DEFINE h == eng[f]
    <3>1. eng'[f] = h /\ h \in EngineState /\ h.pc \in {"severity", "announce", "page", "mark"}
      BY <1>0, <1>1, <2>2
    <3>2. /\ h.inc \in 1..n
          /\ h.conf <= incidents[h.inc].confidence
          /\ h.due => incidents[h.inc].confidence >= pageMinConfidence
          /\ h.pc \in {"page", "mark"} => h.due
      <4>1. HeldIsMerged /\ Holding(f)
        BY <3>1 DEF AlerterInv, Holding
      <4>2. QED
        BY ONLY <4>1 DEF HeldIsMerged
    <3>3. h.conf \in 0..100 /\ pageMinConfidence \in 0..100 /\ Len(incidents') = n
      BY <3>1, ConstantsAssumption DEF EngineState
    <3>4. /\ incidents[h.inc].confidence \in 0..100 /\ incidents'[h.inc].confidence \in 0..100
          /\ incidents[h.inc].confidence <= incidents'[h.inc].confidence
      BY ONLY <1>5, <3>2
    <3>5. /\ h.conf <= incidents'[h.inc].confidence
          /\ h.due => incidents'[h.inc].confidence >= pageMinConfidence
      <4> DEFINE x == incidents[h.inc].confidence
                 y == incidents'[h.inc].confidence
                 c == h.conf
      <4>1. x \in 0..100 /\ y \in 0..100 /\ x <= y /\ c \in 0..100 /\ c <= x
        BY ONLY <3>2, <3>3, <3>4
      <4>2. pageMinConfidence \in 0..100 /\ (h.due => x >= pageMinConfidence)
        BY ONLY <3>2, <3>3
      <4> HIDE DEF x, y, c
      <4>3. c <= y /\ (h.due => y >= pageMinConfidence)
        BY ONLY <4>1, <4>2
      <4>4. QED
        BY ONLY <4>3 DEF c, y
    <3>6. QED
      BY ONLY <3>1, <3>2, <3>3, <3>5
  <2>3. QED
    BY <2>1, <2>2
<1>11. AnnouncedByOpener'
  <2> SUFFICES ASSUME NEW i \in 1..n, NEW f \in Engine, Announcing(f, i)'
               PROVE  opened'[i] = 0 /\ \A h \in Engine : Announcing(h, i)' => h = f
    BY <1>0 DEF AnnouncedByOpener
  <2>1. \A h \in Engine : Announcing(h, i)' => Announcing(h, i) /\ (h = e => opened' = opened)
    BY <1>1 DEF Announcing
  <2>2. opened[i] = 0 /\ \A h \in Engine : Announcing(h, i) => h = f
    BY <1>0, <2>1 DEF AlerterInv, AnnouncedByOpener
  <2>3. opened'[i] = opened[i]
    BY <2>1, <2>2
  <2>4. QED
    BY <2>1, <2>2, <2>3
<1>12. QED
  BY <1>2, <1>3, <1>6, <1>7, <1>8, <1>9, <1>10, <1>11 DEF AlerterInv

\* The same when no page is sent and nothing announced.
LEMMA RewriteStep ==
    ASSUME AlerterInv, NEW e \in Engine, NEW st \in EngineState,
           eng' = [eng EXCEPT ![e] = st], HasDetector(st),
           UNCHANGED <<rules, alert_state, faults, lost, sent, opened>>,
           incidents' \in Seq(Incident), Len(incidents') = Len(incidents),
           \A j \in 1..Len(incidents) : RowStep(incidents[j], incidents'[j]),
           st.pc \in {"severity", "announce"} =>
               ~st.newly \/ (st.inc = eng[e].inc /\ Announcing(e, eng[e].inc)),
           st.pc \in {"severity", "announce", "page", "mark"} =>
               /\ st.inc \in 1..Len(incidents)
               /\ st.conf <= incidents'[st.inc].confidence
               /\ st.due => incidents'[st.inc].confidence >= pageMinConfidence
               /\ st.pc \in {"page", "mark"} => st.due
    PROVE  AlerterInv'
<1>1. /\ sent' \in Seq(Tally) /\ Len(sent') = Len(incidents)
      /\ opened' \in Seq(Nat) /\ Len(opened') = Len(incidents)
      /\ opened' = opened /\ sent' = sent
  BY DEF AlerterInv, TypeOK
<1>2. /\ \A j \in 1..Len(incidents) :
           IsSent(sent'[j]) => IsSent(sent[j]) \/ incidents[j].confidence >= pageMinConfidence
      /\ \A j \in 1..Len(incidents) : opened'[j] = opened[j] \/ (opened'[j] <= 1 /\ Announcing(e, j))
  <2>1. ASSUME NEW j \in 1..Len(incidents)
        PROVE  sent'[j] = sent[j] /\ opened'[j] = opened[j]
    OBVIOUS
  <2>2. QED
    BY ONLY <2>1, Zenon
<1>3. QED
  BY <1>1, <1>2, IncidentStep

\* What the steps below need of the invariant.
LEMMA HoldFacts ==
    ASSUME AlerterInv, NEW e \in Engine
    PROVE  /\ TypeOK /\ eng[e] \in EngineState /\ HasDetector(eng[e])
           /\ eng \in [Engine -> EngineState]
           /\ incidents \in Seq(Incident) /\ DOMAIN incidents = 1..Len(incidents)
           /\ \A j \in 1..Len(incidents) :
                incidents[j] \in Incident /\ RowStep(incidents[j], incidents[j])
           /\ sent \in Seq(Tally) /\ Len(sent) = Len(incidents)
           /\ opened \in Seq(Nat) /\ Len(opened) = Len(incidents)
           /\ Holding(e) => /\ eng[e].inc \in 1..Len(incidents)
                            /\ eng[e].conf <= incidents[eng[e].inc].confidence
                            /\ eng[e].due => incidents[eng[e].inc].confidence >= pageMinConfidence
                            /\ eng[e].pc \in {"page", "mark"} => eng[e].due
<1>1. /\ TypeOK /\ eng[e] \in EngineState /\ HasDetector(eng[e])
      /\ eng \in [Engine -> EngineState]
      /\ incidents \in Seq(Incident) /\ DOMAIN incidents = 1..Len(incidents)
      /\ sent \in Seq(Tally) /\ Len(sent) = Len(incidents)
      /\ opened \in Seq(Nat) /\ Len(opened) = Len(incidents)
  BY DEF AlerterInv, TypeOK, WorksOnDetector
<1>2. ASSUME NEW j \in 1..Len(incidents)
      PROVE  incidents[j] \in Incident /\ RowStep(incidents[j], incidents[j])
  <2>1. incidents[j] \in Incident
    BY <1>1
  <2>2. incidents[j].severity <= Severity(incidents[j].confidence)
    BY <1>1 DEF AlerterInv, SeverityNeverOverstates
  <2>3. incidents[j].confidence \in 0..100
    BY ONLY <2>1, IncidentNumbers
  <2>4. incidents[j].confidence >= incidents[j].confidence
    <3>1. \A a \in 0..100 : a >= a
      OBVIOUS
    <3>2. QED
      BY ONLY <2>3, <3>1, Zenon
  <2> DEFINE row == incidents[j]
  <2> HIDE DEF row
  <2>5. RowStep(row, row)
    BY ONLY <2>2, <2>4 DEF RowStep, row
  <2>6. QED
    BY ONLY <2>1, <2>5 DEF row
<1>3. QED
  BY <1>1, <1>2 DEF AlerterInv, HeldIsMerged

\* The upsert's conflict branch: GREATEST of the confidences.
LEMMA MergeInv ==
    ASSUME AlerterInv, NEW e \in Engine, Upsert(e), NEW i \in Open(eng[e].fp), MergeSignal(e, i)
    PROVE  AlerterInv'
<1> DEFINE old == incidents[i]
           c == eng[e].conf
           top == IF c > old.confidence THEN c ELSE old.confidence
           merged == Merged(old, eng[e].cur, c)
           due == Due(merged)
           st == [eng[e] EXCEPT !.pc = "severity", !.inc = i, !.newly = FALSE,
                                !.conf = merged.confidence, !.due = due]
<1>0. i \in 1..Len(incidents) /\ i \in Nat /\ old \in Incident
  BY HoldFacts DEF Open
<1>1. c \in 0..100 /\ eng[e].cur \in Detector
  BY HoldFacts DEF EngineState, HasDetector, Upsert
<1>2. old.confidence \in 0..100 /\ old.severity \in 0..3 /\ Severity(old.confidence) \in 0..3
  BY ONLY <1>0, IncidentNumbers
<1>3. top \in 0..100 /\ top >= old.confidence
  <2> DEFINE o == old.confidence
  <2> HIDE DEF c, o
  <2>1. (IF c > o THEN c ELSE o) \in 0..100 /\ (IF c > o THEN c ELSE o) >= o
    BY ONLY <1>1, <1>2 DEF o
  <2>2. QED
    BY ONLY <2>1 DEF o
<1>4. /\ merged \in Incident /\ merged.confidence = top /\ merged.fp = old.fp
      /\ merged.status = old.status /\ merged.severity = old.severity /\ merged.paged = old.paged
  <2>1. merged = [old EXCEPT !.confidence = top, !.rules = old.rules \cup {eng[e].cur}]
    BY <1>0 DEF Merged, Incident
  <2> HIDE DEF old, top, c, merged
  <2>2. QED
    BY ONLY <1>0, <1>1, <1>3, <2>1 DEF Incident
<1>5. RowStep(old, merged)
  <2>1. Severity(old.confidence) <= Severity(top) /\ Severity(top) \in 0..3
    <3> HIDE DEF old, top
    <3>1. QED
      BY ONLY <1>2, <1>3, SeverityMonotone
  <2>2. old.severity <= Severity(old.confidence)
    <3>1. RowStep(old, old)
      BY <1>0, HoldFacts
    <3>2. QED
      BY ONLY <3>1 DEF RowStep
  <2>3. old.severity <= Severity(top)
    BY ONLY <1>2, <2>1, <2>2
  <2> HIDE DEF old, top, merged
  <2>4. QED
    BY ONLY <1>3, <1>4, <2>3 DEF RowStep
<1>6. due \in BOOLEAN /\ (due => merged.confidence >= pageMinConfidence)
  BY DEF Due
<1>7. /\ incidents' = [incidents EXCEPT ![i] = merged]
      /\ sent' = sent /\ opened' = opened /\ UNCHANGED <<rules, alert_state, faults, lost>>
  BY DEF MergeSignal, Upsert, historyVars
<1>8. eng' = [eng EXCEPT ![e] = st]
  BY HoldFacts DEF MergeSignal
<1> HIDE DEF merged, due, old
<1>9. /\ st \in EngineState /\ st.pc = "severity" /\ st.inc = i /\ ~st.newly
      /\ st.conf = merged.confidence /\ st.due = due /\ st.cur = eng[e].cur
  <2>1. merged.confidence \in 0..100
    BY ONLY <1>3, <1>4
  <2>2. st \in EngineState
    BY ONLY <1>0, <1>6, <2>1, UpsertStates, HoldFacts, AlerterInv
  <2>3. eng[e] \in EngineState
    BY HoldFacts
  <2>4. QED
    BY ONLY <2>2, <2>3 DEF EngineState
<1> HIDE DEF st
<1>10. /\ incidents' \in Seq(Incident) /\ Len(incidents') = Len(incidents) /\ incidents'[i] = merged
       /\ \A j \in 1..Len(incidents) : j # i => incidents'[j] = incidents[j]
  BY <1>0, <1>4, <1>7, HoldFacts, RowUpdate
<1>11. \A j \in 1..Len(incidents) : RowStep(incidents[j], incidents'[j])
  BY <1>5, <1>10, HoldFacts DEF old
<1>12. merged.confidence <= incidents'[i].confidence
  <2>1. merged.confidence \in 0..100 /\ incidents'[i] = merged
    BY ONLY <1>3, <1>4, <1>10
  <2>2. \A a \in 0..100 : a <= a
    OBVIOUS
  <2>3. QED
    BY ONLY <2>1, <2>2, Zenon
<1>13. HasDetector(st)
  BY <1>1, <1>9 DEF HasDetector
<1>14. /\ st.inc \in 1..Len(incidents) /\ st.conf <= incidents'[st.inc].confidence
       /\ st.due => incidents'[st.inc].confidence >= pageMinConfidence
       /\ st.pc = "severity"
  BY ONLY <1>0, <1>6, <1>9, <1>10, <1>12
<1>15. QED
  <2>1. st \in EngineState /\ ~st.newly /\ st.pc = "severity"
    BY ONLY <1>9
  <2>2. UNCHANGED <<rules, alert_state, faults, lost, sent, opened>>
    BY ONLY <1>7
  <2>3. incidents' \in Seq(Incident) /\ Len(incidents') = Len(incidents)
    BY ONLY <1>10
  <2>4. st.pc \in {"severity", "announce"} =>
             ~st.newly \/ (st.inc = eng[e].inc /\ Announcing(e, eng[e].inc))
    BY ONLY <2>1
  <2>5. st.pc \in {"severity", "announce", "page", "mark"} =>
             /\ st.inc \in 1..Len(incidents)
             /\ st.conf <= incidents'[st.inc].confidence
             /\ st.due => incidents'[st.inc].confidence >= pageMinConfidence
             /\ st.pc \in {"page", "mark"} => st.due
    BY ONLY <1>14
  <2>6. QED
    BY ONLY AlerterInv, <1>8, <1>11, <1>13, <2>1, <2>2, <2>3, <2>4, <2>5, RewriteStep

\* UPDATE ... SET severity: from a confidence the incident has reached.
LEMMA SetSeverityInv ==
    ASSUME AlerterInv, NEW e \in Engine, SetSeverity(e)
    PROVE  AlerterInv'
<1> DEFINE i == eng[e].inc
           old == incidents[i]
           row == [old EXCEPT !.severity = Severity(eng[e].conf)]
           st == [eng[e] EXCEPT !.pc = "announce"]
<1>0. /\ i \in 1..Len(incidents) /\ old \in Incident /\ eng[e] \in EngineState
      /\ eng[e].conf <= old.confidence
      /\ eng[e].due => old.confidence >= pageMinConfidence
      /\ HasDetector(eng[e]) /\ eng[e].pc = "severity"
  BY HoldFacts DEF SetSeverity, Holding
<1>1. eng[e].conf \in 0..100 /\ eng[e].cur \in Detector
  BY ONLY <1>0 DEF EngineState, HasDetector
<1>2. Severity(eng[e].conf) \in 0..3 /\ Severity(eng[e].conf) <= Severity(old.confidence)
  BY ONLY <1>0, <1>1, IncidentNumbers, SeverityMonotone
<1>3. /\ row \in Incident /\ row.severity = Severity(eng[e].conf) /\ row.confidence = old.confidence
      /\ row.fp = old.fp /\ row.status = old.status /\ row.paged = old.paged
  <2> HIDE DEF old
  <2>1. QED
    BY ONLY <1>0, <1>2 DEF Incident
<1>4. RowStep(old, row)
  <2>1. RowStep(old, old)
    BY <1>0, HoldFacts
  <2> HIDE DEF old, row
  <2>2. QED
    BY ONLY <1>2, <1>3, <2>1 DEF RowStep
<1>5. incidents' = [incidents EXCEPT ![i] = row] /\ eng' = [eng EXCEPT ![e] = st]
  BY HoldFacts DEF SetSeverity
<1>6. UNCHANGED <<rules, alert_state, faults, lost, sent, opened>>
  BY DEF SetSeverity, historyVars
<1>7. /\ st \in EngineState /\ st.pc = "announce" /\ st.inc = i /\ st.newly = eng[e].newly
      /\ st.conf = eng[e].conf /\ st.due = eng[e].due /\ st.cur = eng[e].cur
  BY ONLY <1>0 DEF EngineState, PC
<1>8. HasDetector(st)
  BY ONLY <1>1, <1>7 DEF HasDetector
<1> HIDE DEF st, row
<1>9. /\ incidents' \in Seq(Incident) /\ Len(incidents') = Len(incidents) /\ incidents'[i] = row
      /\ \A j \in 1..Len(incidents) : j # i => incidents'[j] = incidents[j]
  BY <1>0, <1>3, <1>5, HoldFacts, RowUpdate
<1>10. \A j \in 1..Len(incidents) : RowStep(incidents[j], incidents'[j])
  BY <1>4, <1>9, HoldFacts
<1>11. st.pc \in {"severity", "announce"} =>
           ~st.newly \/ (st.inc = eng[e].inc /\ Announcing(e, eng[e].inc))
  BY ONLY <1>0, <1>7 DEF Announcing
<1>12. st.pc \in {"severity", "announce", "page", "mark"} =>
           /\ st.inc \in 1..Len(incidents)
           /\ st.conf <= incidents'[st.inc].confidence
           /\ st.due => incidents'[st.inc].confidence >= pageMinConfidence
           /\ st.pc \in {"page", "mark"} => st.due
  <2>1. st.inc = i /\ i \in 1..Len(incidents) /\ st.pc = "announce"
    BY ONLY <1>0, <1>7
  <2>2. incidents'[st.inc].confidence = old.confidence
    BY ONLY <1>3, <1>9, <2>1
  <2>3. st.conf <= old.confidence /\ (st.due => old.confidence >= pageMinConfidence)
    BY ONLY <1>0, <1>7
  <2>4. QED
    BY ONLY <2>1, <2>2, <2>3
<1>13. incidents' \in Seq(Incident) /\ Len(incidents') = Len(incidents)
  BY ONLY <1>9
<1>14. eng' = [eng EXCEPT ![e] = st] /\ st \in EngineState
  BY ONLY <1>5, <1>7
<1>15. QED
  BY ONLY AlerterInv, <1>6, <1>8, <1>10, <1>11, <1>12, <1>13, <1>14, RewriteStep

\* The page is recorded: the engine reached it above the gate, and the
\* confidence has not sunk since.
LEMMA MarkPagedInv ==
    ASSUME AlerterInv, NEW e \in Engine, MarkPaged(e)
    PROVE  AlerterInv'
<1> DEFINE i == eng[e].inc
           old == incidents[i]
           row == [old EXCEPT !.paged = TRUE]
           st == AfterCorrelate(e)
<1>0. /\ i \in 1..Len(incidents) /\ old \in Incident /\ TypeOK
      /\ old.confidence >= pageMinConfidence
      /\ HasDetector(eng[e]) /\ eng[e].pc = "mark"
  BY HoldFacts DEF MarkPaged, Holding
<1>1. /\ row \in Incident /\ row.severity = old.severity /\ row.confidence = old.confidence
      /\ row.fp = old.fp /\ row.status = old.status
  <2> HIDE DEF old
  <2>1. QED
    BY ONLY <1>0 DEF Incident
<1>2. RowStep(old, row)
  <2>1. RowStep(old, old)
    BY <1>0, HoldFacts
  <2> HIDE DEF old, row
  <2>2. QED
    BY ONLY <1>0, <1>1, <2>1 DEF RowStep
<1>3. incidents' = [incidents EXCEPT ![i] = row] /\ eng' = [eng EXCEPT ![e] = st]
  BY HoldFacts DEF MarkPaged
<1>4. UNCHANGED <<rules, alert_state, faults, lost, sent, opened>>
  BY DEF MarkPaged, historyVars
<1>5. st \in EngineState /\ st.pc \in {"sweep", "state", "rules"} /\ HasDetector(st)
  BY ONLY <1>0, RestStates
<1> HIDE DEF st, row
<1>6. /\ incidents' \in Seq(Incident) /\ Len(incidents') = Len(incidents) /\ incidents'[i] = row
      /\ \A j \in 1..Len(incidents) : j # i => incidents'[j] = incidents[j]
  BY <1>0, <1>1, <1>3, HoldFacts, RowUpdate
<1>7. \A j \in 1..Len(incidents) : RowStep(incidents[j], incidents'[j])
  BY <1>2, <1>6, HoldFacts
<1>8. st.pc \notin {"severity", "announce", "page", "mark"}
  BY ONLY <1>5
<1>9. QED
  BY ONLY AlerterInv, <1>3, <1>4, <1>5, <1>6, <1>7, <1>8, RewriteStep

\* resolveOpenIncident: rows are resolved, never reopened.
LEMMA ResolveInv ==
    ASSUME AlerterInv, NEW e \in Engine, ResolveIncident(e)
    PROVE  AlerterInv'
<1> DEFINE st == ToState(e)
           fp == serviceOf(eng[e].cur)
<1>0. TypeOK /\ HasDetector(eng[e]) /\ eng[e].pc = "resolve"
  BY HoldFacts DEF ResolveIncident
<1>1. st \in EngineState /\ st.pc = "state" /\ HasDetector(st)
  BY ONLY <1>0, RestStates
<1>2. /\ incidents' = [j \in DOMAIN incidents |->
                         IF IsOpen(j, fp) THEN [incidents[j] EXCEPT !.status = "resolved"]
                         ELSE incidents[j]]
      /\ eng' = [eng EXCEPT ![e] = st]
      /\ UNCHANGED <<rules, alert_state, faults, lost, sent, opened>>
  BY DEF ResolveIncident, historyVars
<1>3. ASSUME NEW old \in Incident, RowStep(old, old)
      PROVE  /\ [old EXCEPT !.status = "resolved"] \in Incident
             /\ RowStep(old, [old EXCEPT !.status = "resolved"])
  <2> DEFINE row == [old EXCEPT !.status = "resolved"]
  <2>1. /\ row \in Incident /\ row.severity = old.severity /\ row.confidence = old.confidence
        /\ row.fp = old.fp /\ row.status = "resolved" /\ row.paged = old.paged
    BY ONLY <1>3 DEF Incident
  <2> HIDE DEF row
  <2>2. RowStep(old, row)
    BY ONLY <1>3, <2>1 DEF RowStep
  <2>3. QED
    BY <2>1, <2>2 DEF row
<1>4. DOMAIN incidents = 1..Len(incidents) /\ Len(incidents) \in Nat
  BY HoldFacts
<1>5. \A j \in 1..Len(incidents) : incidents'[j] \in Incident /\ RowStep(incidents[j], incidents'[j])
  <2> TAKE j \in 1..Len(incidents)
  <2>1. incidents[j] \in Incident /\ RowStep(incidents[j], incidents[j])
    BY HoldFacts
  <2>2. incidents'[j] = IF IsOpen(j, fp) THEN [incidents[j] EXCEPT !.status = "resolved"]
                        ELSE incidents[j]
    BY ONLY <1>2, <1>4
  <2>3. QED
    BY ONLY <2>1, <2>2, <1>3
<1>6. incidents' \in Seq(Incident) /\ Len(incidents') = Len(incidents)
  <2>1. incidents' \in [1..Len(incidents) -> Incident]
    BY ONLY <1>2, <1>4, <1>5
  <2>2. QED
    BY ONLY <1>4, <2>1
<1> HIDE DEF st
<1>7. st.pc \notin {"severity", "announce", "page", "mark"}
  BY ONLY <1>1
<1>8. QED
  BY ONLY AlerterInv, <1>1, <1>2, <1>5, <1>6, <1>7, RewriteStep

\* The webhook of a new incident: its announcer is the only one, and is done.
LEMMA AnnounceInv ==
    ASSUME AlerterInv, NEW e \in Engine, Announce(e)
    PROVE  AlerterInv'
<1> DEFINE i == eng[e].inc
           st == IF eng[e].due THEN [eng[e] EXCEPT !.pc = "page"] ELSE AfterCorrelate(e)
<1>0. /\ i \in 1..Len(incidents) /\ TypeOK /\ eng[e] \in EngineState
      /\ eng[e].conf <= incidents[i].confidence
      /\ eng[e].due => incidents[i].confidence >= pageMinConfidence
      /\ HasDetector(eng[e]) /\ eng[e].pc = "announce"
  BY HoldFacts DEF Announce, Holding
<1>1. /\ eng' = [eng EXCEPT ![e] = st] /\ incidents' = incidents /\ sent' = sent
      /\ UNCHANGED <<rules, alert_state, faults, lost>>
      /\ opened' = IF eng[e].newly THEN [opened EXCEPT ![i] = @ + 1] ELSE opened
  BY HoldFacts DEF Announce, dbVars
<1>2. /\ opened' \in Seq(Nat) /\ Len(opened') = Len(incidents)
      /\ \A j \in 1..Len(incidents) : \/ opened'[j] = opened[j]
                                      \/ opened'[j] <= 1 /\ Announcing(e, j)
  <2>1. opened \in Seq(Nat) /\ Len(opened) = Len(incidents) /\ i \in 1..Len(opened) /\ opened[i] \in Nat
    BY <1>0, HoldFacts
  <2>2. CASE ~eng[e].newly
    <3>1. opened' = opened
      BY ONLY <1>1, <2>2
    <3>2. QED
      BY ONLY <2>1, <3>1
  <2>3. CASE eng[e].newly
    <3>1. Announcing(e, i) /\ opened[i] = 0
      BY <1>0, <2>3, HoldFacts DEF Announcing, AlerterInv, AnnouncedByOpener
    <3>2. opened' = [opened EXCEPT ![i] = 1]
      <4>1. opened' = [opened EXCEPT ![i] = @ + 1]
        BY ONLY <1>1, <2>3
      <4>2. QED
        BY ONLY <2>1, <3>1, <4>1
    <3>3. /\ opened' \in Seq(Nat) /\ Len(opened') = Len(opened) /\ opened'[i] = 1
          /\ \A j \in 1..Len(opened) : j # i => opened'[j] = opened[j]
      BY ONLY <2>1, <3>2, RowUpdate
    <3>4. opened'[i] <= 1
      BY ONLY <3>3
    <3>5. QED
      BY ONLY <2>1, <3>1, <3>3, <3>4, Zenon
  <2>4. QED
    BY ONLY <2>2, <2>3
<1>3. /\ st \in EngineState /\ HasDetector(st) /\ st.pc \in {"page", "sweep", "state", "rules"}
      /\ st.pc = "page" => st.inc = i /\ st.conf = eng[e].conf /\ st.due /\ eng[e].due
  <2>1. /\ AfterCorrelate(e) \in EngineState /\ HasDetector(AfterCorrelate(e))
        /\ AfterCorrelate(e).pc \in {"sweep", "state", "rules"}
    BY ONLY <1>0, RestStates
  <2> DEFINE pg == [eng[e] EXCEPT !.pc = "page"]
  <2>2. /\ pg \in EngineState /\ pg.pc = "page" /\ pg.inc = i /\ pg.conf = eng[e].conf
        /\ pg.due = eng[e].due /\ pg.cur = eng[e].cur
    BY ONLY <1>0 DEF EngineState, PC
  <2>3. HasDetector(pg)
    BY ONLY <1>0, <2>2 DEF HasDetector
  <2> HIDE DEF pg
  <2>4. CASE eng[e].due
    <3>1. st = pg
      BY ONLY <2>4 DEF pg
    <3>2. QED
      BY ONLY <2>2, <2>3, <2>4, <3>1
  <2>5. CASE ~eng[e].due
    <3>1. st = AfterCorrelate(e)
      BY ONLY <2>5
    <3>2. QED
      BY ONLY <2>1, <3>1
  <2>6. QED
    BY <2>4, <2>5
<1> HIDE DEF st
<1>4. /\ incidents' \in Seq(Incident) /\ Len(incidents') = Len(incidents)
      /\ \A j \in 1..Len(incidents) : RowStep(incidents[j], incidents'[j])
      /\ sent' \in Seq(Tally) /\ Len(sent') = Len(incidents)
  BY <1>1, HoldFacts
<1>5. \A j \in 1..Len(incidents) :
        IsSent(sent'[j]) => IsSent(sent[j]) \/ incidents[j].confidence >= pageMinConfidence
  BY ONLY <1>1, Zenon
<1>6. st.pc \in {"severity", "announce", "page", "mark"} =>
         /\ st.inc \in 1..Len(incidents)
         /\ st.conf <= incidents'[st.inc].confidence
         /\ st.due => incidents'[st.inc].confidence >= pageMinConfidence
         /\ st.pc \in {"page", "mark"} => st.due
  BY ONLY <1>0, <1>1, <1>3
<1>7. st.pc \notin {"severity", "announce"}
  BY ONLY <1>3
<1>8. QED
  BY ONLY AlerterInv, <1>1, <1>2, <1>3, <1>4, <1>5, <1>6, <1>7, IncidentStep

\* A page is delivered by an engine the gate has let through.
LEMMA PageInv ==
    ASSUME AlerterInv, NEW e \in Engine, Page(e)
    PROVE  AlerterInv'
<1> DEFINE i == eng[e].inc
           st == [eng[e] EXCEPT !.pc = "mark"]
<1>0. /\ i \in 1..Len(incidents) /\ TypeOK /\ eng[e] \in EngineState
      /\ eng[e].conf <= incidents[i].confidence
      /\ incidents[i].confidence >= pageMinConfidence
      /\ eng[e].due /\ HasDetector(eng[e]) /\ eng[e].pc = "page"
  BY HoldFacts DEF Page, Holding
<1>1. /\ eng' = [eng EXCEPT ![e] = st] /\ incidents' = incidents /\ opened' = opened
      /\ UNCHANGED <<rules, alert_state, faults, lost>>
      /\ sent' = IF eng[e].cur \in Notifies THEN [sent EXCEPT ![i][e] = @ + 1] ELSE sent
  BY HoldFacts DEF Page, dbVars
<1>2. /\ sent' \in Seq(Tally) /\ Len(sent') = Len(incidents)
      /\ \A j \in 1..Len(incidents) : j # i => sent'[j] = sent[j]
  <2>1. sent \in Seq(Tally) /\ Len(sent) = Len(incidents) /\ i \in 1..Len(sent) /\ sent[i] \in Tally
    BY <1>0, HoldFacts
  <2>2. CASE eng[e].cur \notin Notifies
    <3>1. sent' = sent
      BY ONLY <1>1, <2>2
    <3>2. QED
      BY ONLY <2>1, <3>1
  <2>3. CASE eng[e].cur \in Notifies
    <3> DEFINE x == [sent[i] EXCEPT ![e] = @ + 1]
    <3>1. sent' = [sent EXCEPT ![i] = x]
      BY ONLY <1>1, <2>3
    <3>2. x \in Tally
      <4>1. \A t \in [Engine -> Nat] : [t EXCEPT ![e] = @ + 1] \in [Engine -> Nat]
        OBVIOUS
      <4>2. QED
        BY ONLY <2>1, <4>1 DEF Tally
    <3> HIDE DEF x
    <3>3. QED
      BY ONLY <2>1, <3>1, <3>2, RowUpdate
  <2>4. QED
    BY ONLY <2>2, <2>3
<1>3. /\ st \in EngineState /\ st.pc = "mark" /\ st.inc = i /\ st.conf = eng[e].conf
      /\ st.due = eng[e].due /\ st.cur = eng[e].cur
  BY ONLY <1>0 DEF EngineState, PC
<1> HIDE DEF st
<1>4. HasDetector(st)
  BY ONLY <1>0, <1>3 DEF HasDetector
<1>5. /\ incidents' \in Seq(Incident) /\ Len(incidents') = Len(incidents)
      /\ \A j \in 1..Len(incidents) : RowStep(incidents[j], incidents'[j])
      /\ opened' \in Seq(Nat) /\ Len(opened') = Len(incidents)
  BY <1>1, HoldFacts
<1>6. \A j \in 1..Len(incidents) :
        IsSent(sent'[j]) => IsSent(sent[j]) \/ incidents[j].confidence >= pageMinConfidence
  BY ONLY <1>0, <1>2, Zenon
<1>7. st.pc \in {"severity", "announce", "page", "mark"} =>
         /\ st.inc \in 1..Len(incidents)
         /\ st.conf <= incidents'[st.inc].confidence
         /\ st.due => incidents'[st.inc].confidence >= pageMinConfidence
         /\ st.pc \in {"page", "mark"} => st.due
  BY ONLY <1>0, <1>1, <1>3
<1>8. st.pc \notin {"severity", "announce"}
  BY ONLY <1>3
<1>9. \A j \in 1..Len(incidents) : opened'[j] = opened[j]
  BY ONLY <1>1
<1>10. QED
  BY ONLY AlerterInv, <1>1, <1>2, <1>3, <1>4, <1>5, <1>6, <1>7, <1>8, <1>9, IncidentStep

\* The upsert's insert branch: nobody else can hold or announce a fresh id, and
\* no incident of the fingerprint was open.
LEMMA OpenInv ==
    ASSUME AlerterInv, NEW e \in Engine, Upsert(e), OpenIncident(e)
    PROVE  AlerterInv'
<1> DEFINE new == [fp |-> eng[e].fp, severity |-> Severity(eng[e].conf), confidence |-> eng[e].conf,
                   rules |-> {eng[e].cur}, status |-> "open", paged |-> FALSE]
           due == Due(new)
           n == Len(incidents)
           st == [eng[e] EXCEPT !.pc = "severity", !.inc = n + 1, !.newly = TRUE, !.due = due]
<1>0. /\ eng \in [Engine -> EngineState] /\ eng[e] \in EngineState
      /\ incidents \in Seq(Incident) /\ sent \in Seq(Tally) /\ opened \in Seq(Nat)
      /\ lost \in Seq(Tally) /\ Len(lost) = n /\ Len(sent) = n /\ Len(opened) = n /\ n \in Nat
      /\ rules \subseteq Rule /\ alert_state \in [Rule -> {"absent", "quiet", "firing"}]
      /\ faults \in 0..MaxFaults /\ DOMAIN incidents = 1..n
  BY DEF AlerterInv, TypeOK
<1>1. eng[e].fp \in Service /\ eng[e].conf \in 0..100 /\ eng[e].cur \in Detector
  BY <1>0 DEF AlerterInv, WorksOnDetector, HasDetector, EngineState, Upsert
<1>2. new \in Incident /\ new.fp = eng[e].fp /\ new.severity = Severity(eng[e].conf)
      /\ new.confidence = eng[e].conf /\ new.status = "open" /\ new.paged = FALSE
  BY <1>1, SeverityMonotone DEF Incident
<1>3. due \in BOOLEAN /\ (due => new.confidence >= pageMinConfidence)
  BY DEF Due
<1>4. /\ Open(eng[e].fp) = {} /\ incidents' = Append(incidents, new)
      /\ sent' = Append(sent, NoPages) /\ lost' = Append(lost, NoPages) /\ opened' = Append(opened, 0)
      /\ rules' = rules /\ alert_state' = alert_state /\ faults' = faults
  BY DEF OpenIncident, Upsert
<1>5. eng' = [eng EXCEPT ![e] = st]
  BY <1>0 DEF OpenIncident
<1> HIDE DEF new, due
<1>6. /\ st \in EngineState /\ st.pc = "severity" /\ st.inc = n + 1 /\ st.newly
      /\ st.due = due /\ st.conf = eng[e].conf /\ st.cur = eng[e].cur
  <2>1. n + 1 \in Nat
    BY ONLY <1>0
  <2>2. st \in EngineState
    BY ONLY <1>0, <1>1, <1>3, <2>1, UpsertStates
  <2>3. QED
    BY ONLY <1>0, <2>2 DEF EngineState
<1> HIDE DEF st
<1>7. /\ incidents' \in Seq(Incident) /\ Len(incidents') = n + 1 /\ DOMAIN incidents' = 1..(n + 1)
      /\ incidents'[n + 1] = new /\ \A i \in 1..n : incidents'[i] = incidents[i]
  BY ONLY <1>0, <1>2, <1>4
<1>z. NoPages \in Tally /\ ~IsSent(NoPages)
  BY DEF NoPages, Tally, IsSent
<1>8. /\ lost' \in Seq(Tally) /\ Len(lost') = n + 1 /\ sent' \in Seq(Tally) /\ Len(sent') = n + 1 /\ opened' \in Seq(Nat) /\ Len(opened') = n + 1
      /\ sent'[n + 1] = NoPages /\ opened'[n + 1] = 0
      /\ \A i \in 1..n : sent'[i] = sent[i] /\ opened'[i] = opened[i]
  BY ONLY <1>0, <1>4, <1>z
<1>9. /\ eng' \in [Engine -> EngineState] /\ eng'[e] = st
      /\ \A f \in Engine : f # e => eng'[f] = eng[f]
  BY ONLY <1>0, <1>5, <1>6
<1>10. HasDetector(st)
  BY ONLY <1>1, <1>6 DEF HasDetector
<1>11. TypeOK'
  BY ONLY <1>0, <1>4, <1>7, <1>8, <1>9 DEF TypeOK
<1>12. WorksOnDetector'
  <2>1. WorksOnDetector
    BY DEF AlerterInv
  <2>2. QED
    BY ONLY <1>9, <1>10, <2>1 DEF WorksOnDetector, HasDetector
<1>n. \A i \in 1..(n + 1) : i \in 1..n \/ i = n + 1
  BY ONLY <1>0
<1>m. 1..n \subseteq 1..(n + 1) /\ n + 1 \in 1..(n + 1) /\ n + 1 \notin 1..n
  BY ONLY <1>0
<1>13. HeldIsMerged'
  <2> SUFFICES ASSUME NEW f \in Engine, Holding(f)'
               PROVE  /\ eng'[f].inc \in 1..Len(incidents')
                      /\ eng'[f].conf <= incidents'[eng'[f].inc].confidence
                      /\ eng'[f].due => incidents'[eng'[f].inc].confidence >= pageMinConfidence
                      /\ eng'[f].pc \in {"page", "mark"} => eng'[f].due
    BY DEF HeldIsMerged
  <2>1. CASE f = e
    <3>1. eng'[f] = st /\ incidents'[st.inc] = new /\ st.inc \in 1..Len(incidents')
      BY ONLY <1>6, <1>7, <1>9, <1>m, <2>1
    <3>2. st.conf <= new.confidence
      <4>1. \A a \in 0..100 : a <= a
        OBVIOUS
      <4>2. QED
        BY ONLY <1>1, <1>2, <1>6, <4>1, Zenon
    <3>3. QED
      BY ONLY <1>3, <1>6, <3>1, <3>2
  <2>2. CASE f # e
    <3>1. HeldIsMerged /\ eng'[f] = eng[f] /\ Holding(f)
      BY <1>9, <2>2 DEF Holding, AlerterInv
    <3>2. /\ eng[f].inc \in 1..n
          /\ eng[f].conf <= incidents[eng[f].inc].confidence
          /\ eng[f].due => incidents[eng[f].inc].confidence >= pageMinConfidence
          /\ eng[f].pc \in {"page", "mark"} => eng[f].due
      BY ONLY <3>1 DEF HeldIsMerged
    <3>3. incidents'[eng[f].inc] = incidents[eng[f].inc] /\ eng[f].inc \in 1..Len(incidents')
      BY ONLY <1>7, <1>m, <3>2
    <3>4. QED
      BY ONLY <3>1, <3>2, <3>3
  <2>3. QED
    BY ONLY <2>1, <2>2
<1>14. AnnouncedByOpener'
  <2> SUFFICES ASSUME NEW i \in 1..(n + 1), NEW f \in Engine, Announcing(f, i)'
               PROVE  opened'[i] = 0 /\ \A h \in Engine : Announcing(h, i)' => h = f
    BY <1>7 DEF AnnouncedByOpener
  <2>1. \A h \in Engine : Announcing(h, i)' /\ h # e => i \in 1..n /\ Announcing(h, i)
    BY <1>9 DEF Announcing, AlerterInv, HeldIsMerged, Holding
  <2>2. Announcing(e, i)' => i = n + 1
    BY ONLY <1>6, <1>9 DEF Announcing
  <2>3. CASE i = n + 1
    <3>1. \A h \in Engine : Announcing(h, i)' => h = e
      BY ONLY <2>1, <2>3, <1>m
    <3>2. QED
      BY <1>8, <2>3, <3>1
  <2>4. CASE i # n + 1
    <3>1. i \in 1..n /\ f # e /\ Announcing(f, i)
      BY <2>1, <2>2, <2>4, <1>n
    <3>2. opened[i] = 0 /\ \A h \in Engine : Announcing(h, i) => h = f
      BY <1>0, <3>1 DEF AlerterInv, AnnouncedByOpener
    <3>3. QED
      BY ONLY <2>1, <2>2, <2>4, <3>1, <3>2, <1>8
  <2>5. QED
    BY ONLY <2>3, <2>4
<1>15. OneOpenPerFingerprint'
  <2>1. \A i \in 1..n : ~IsOpen(i, eng[e].fp)
    BY <1>0, <1>4 DEF Open
  <2>2. \A i \in 1..n, fp \in Service : IsOpen(i, fp)' <=> IsOpen(i, fp)
    BY ONLY <1>7 DEF IsOpen
  <2>3. \A i, fp : i = n + 1 /\ IsOpen(i, fp)' => fp = eng[e].fp
    BY ONLY <1>2, <1>7 DEF IsOpen
  <2>4. \A fp \in Service : \A i, j \in 1..n : IsOpen(i, fp) /\ IsOpen(j, fp) => i = j
    BY <1>0 DEF AlerterInv, OneOpenPerFingerprint
  <2>5. \A fp \in Service : \A i, j \in 1..(n + 1) : IsOpen(i, fp)' /\ IsOpen(j, fp)' => i = j
    <3> TAKE fp \in Service
    <3> TAKE i, j \in 1..(n + 1)
    <3>1. HAVE IsOpen(i, fp)' /\ IsOpen(j, fp)'
    <3>2. CASE fp = eng[e].fp
      <4>1. i = n + 1 /\ j = n + 1
        BY ONLY <1>n, <2>1, <2>2, <3>1, <3>2
      <4>2. QED
        BY ONLY <4>1
    <3>3. CASE fp # eng[e].fp
      <4>1. i \in 1..n /\ j \in 1..n
        BY ONLY <1>n, <2>3, <3>1, <3>3
      <4>2. QED
        BY ONLY <2>2, <2>4, <3>1, <4>1
    <3>4. QED
      BY ONLY <3>2, <3>3
  <2>6. QED
    BY ONLY <1>7, <2>5 DEF OneOpenPerFingerprint
<1>16. PagedAboveGate'
  <2>1. \A i \in 1..n : IsSent(sent[i]) \/ incidents[i].paged => incidents[i].confidence >= pageMinConfidence
    BY <1>0 DEF AlerterInv, PagedAboveGate
  <2>2. ~(IsSent(sent'[n + 1])) /\ ~incidents'[n + 1].paged
    BY ONLY <1>2, <1>7, <1>8, <1>z
  <2>3. \A i \in 1..(n + 1) :
          IsSent(sent'[i]) \/ incidents'[i].paged => incidents'[i].confidence >= pageMinConfidence
    BY ONLY <1>n, <1>7, <1>8, <2>1, <2>2, Zenon
  <2>4. QED
    BY ONLY <1>7, <2>3 DEF PagedAboveGate
<1>17. SeverityNeverOverstates'
  <2>1. \A i \in 1..n : incidents[i].severity <= Severity(incidents[i].confidence)
    BY <1>0 DEF AlerterInv, SeverityNeverOverstates
  <2>2. new.severity <= Severity(new.confidence)
    <3>1. \A a \in 0..3 : a <= a
      OBVIOUS
    <3>2. Severity(eng[e].conf) \in 0..3
      BY ONLY <1>2 DEF Incident
    <3>3. QED
      BY ONLY <1>2, <3>1, <3>2, Zenon
  <2>3. \A i \in 1..(n + 1) : incidents'[i].severity <= Severity(incidents'[i].confidence)
    BY ONLY <1>n, <1>7, <2>1, <2>2, Zenon
  <2>4. QED
    BY ONLY <1>7, <2>3 DEF SeverityNeverOverstates
<1>18. OpenedAnnouncedOnce'
  <2>1. \A i \in 1..n : opened[i] <= 1
    BY <1>0 DEF AlerterInv, OpenedAnnouncedOnce
  <2>2. opened'[n + 1] <= 1
    BY ONLY <1>8
  <2>3. \A i \in 1..(n + 1) : opened'[i] <= 1
    BY ONLY <1>n, <1>8, <2>1, <2>2, Zenon
  <2>4. QED
    BY ONLY <1>7, <2>3 DEF OpenedAnnouncedOnce
<1>19. QED
  BY ONLY <1>11, <1>12, <1>13, <1>14, <1>15, <1>16, <1>17, <1>18 DEF AlerterInv

-----------------------------------------------------------------------------
(* The theorems *)

\* No incident exists at first.
LEMMA AlerterInitInv == Init => AlerterInv
<1> SUFFICES ASSUME Init PROVE AlerterInv
  OBVIOUS
<1>1. Stopped \in EngineState /\ Stopped.pc = "idle"
  BY ConstantsAssumption DEF Stopped, EngineState, PC
<1>2. /\ incidents = <<>> /\ sent = <<>> /\ lost = <<>> /\ opened = <<>> /\ DOMAIN incidents = {}
      /\ eng \in [Engine -> EngineState] /\ \A e \in Engine : eng[e].pc = "idle"
  BY <1>1 DEF Init
<1>3. TypeOK
  BY <1>2, ConstantsAssumption DEF Init, TypeOK
<1>4. WorksOnDetector /\ HeldIsMerged
  BY <1>2 DEF WorksOnDetector, HasDetector, HeldIsMerged, Holding
<1>5. /\ AnnouncedByOpener /\ OneOpenPerFingerprint /\ PagedAboveGate /\ SeverityNeverOverstates
      /\ OpenedAnnouncedOnce
  BY ONLY <1>2 DEF AnnouncedByOpener, OneOpenPerFingerprint, PagedAboveGate, SeverityNeverOverstates,
         OpenedAnnouncedOnce
<1>6. QED
  BY <1>3, <1>4, <1>5 DEF AlerterInv

\* Every step of every engine keeps the invariant.
LEMMA AlerterStepInv == AlerterInv /\ [Next]_vars => AlerterInv'
<1> SUFFICES ASSUME AlerterInv, [Next]_vars PROVE AlerterInv'
  OBVIOUS
<1>1. ASSUME NEW e \in Engine, Upsert(e) PROVE AlerterInv'
  <2>1. OpenIncident(e) \/ \E i \in Open(eng[e].fp) : MergeSignal(e, i)
    BY <1>1 DEF Upsert
  <2>2. QED
    BY <1>1, <2>1, OpenInv, MergeInv
<1>2. ASSUME NEW e \in Engine, Correlate(e) PROVE AlerterInv'
  BY <1>1, <1>2, PollQuiet, QuietMoveInv, SetSeverityInv, AnnounceInv, PageInv, MarkPagedInv, GiveUpQuiet DEF Correlate
<1>3. ASSUME NEW e \in Engine, Settle(e) PROVE AlerterInv'
  BY <1>3, ResolveInv, GiveUpQuiet, QuietMoveInv DEF Settle
<1>4. CASE Next
  BY <1>2, <1>3, <1>4, PollQuiet, QuietMoveInv, GiveUpQuiet, AdminInv DEF Next
<1>5. CASE UNCHANGED vars
  <2>1. /\ rules' \subseteq Rule /\ alert_state' \in [Rule -> {"absent", "quiet", "firing"}]
        /\ eng' = eng /\ eng \in [Engine -> EngineState] /\ faults' \in 0..MaxFaults
        /\ UNCHANGED <<incidents, sent, opened>> /\ LostStep
    BY <1>5 DEF AlerterInv, TypeOK, vars, LostStep
  <2>2. QED
    BY <2>1, QuietStep
<1>6. QED
  BY <1>4, <1>5

\* The invariant of any number of engines, whatever crashes and fails.
THEOREM AlerterInvariance == Spec => []AlerterInv
<1>1. QED
  BY AlerterInitInv, AlerterStepInv, PTL DEF Spec

\* The tables and engines have their types throughout.
THEOREM AlerterTypeCorrect == Spec => []TypeOK
<1>1. AlerterInv => TypeOK
  BY DEF AlerterInv
<1>2. QED
  BY <1>1, AlerterInvariance, PTL

\* "At most one OPEN incident per fingerprint" (migrations/0008).
THEOREM AlerterOneOpen == Spec => []OneOpenPerFingerprint
<1>1. AlerterInv => OneOpenPerFingerprint
  BY DEF AlerterInv
<1>2. QED
  BY <1>1, AlerterInvariance, PTL

\* "Page ... only at/above the confidence gate" (incident.go:98).
THEOREM AlerterPagedAboveGate == Spec => []PagedAboveGate
<1>1. AlerterInv => PagedAboveGate
  BY DEF AlerterInv
<1>2. QED
  BY <1>1, AlerterInvariance, PTL

\* "Severity tracks the merged confidence" (incident.go:81), from below.
THEOREM AlerterSeverity == Spec => []SeverityNeverOverstates
<1>1. AlerterInv => SeverityNeverOverstates
  BY DEF AlerterInv
<1>2. QED
  BY <1>1, AlerterInvariance, PTL

\* "Fire the outbound incident.opened webhook once" (incident.go:87): at most
\* once, and by the engine that opened the incident.
THEOREM AlerterOpenedOnce == Spec => []OpenedAnnouncedOnce
<1>1. AlerterInv => OpenedAnnouncedOnce
  BY DEF AlerterInv
<1>2. QED
  BY <1>1, AlerterInvariance, PTL

-----------------------------------------------------------------------------
(* What becomes of an incident, for any number of engines *)

Kept == \A i \in DOMAIN incidents : i \in DOMAIN incidents' /\ Follows(incidents[i], incidents'[i])

\* A row that is left alone.
LEMMA FollowsSelf ==
    ASSUME NEW row \in Incident
    PROVE  Follows(row, row)
<1>1. row.confidence \in 0..100
  BY IncidentNumbers
<1>2. row.confidence <= row.confidence
  BY <1>1
<1>3. QED
  BY <1>2 DEF Follows

\* A table left alone, and one with a row rewritten as it may be.
LEMMA KeptAlone ==
    ASSUME AlerterInv, incidents' = incidents
    PROVE  Kept
<1>1. incidents \in Seq(Incident)
  BY DEF AlerterInv, TypeOK
<1>2. \A i \in DOMAIN incidents : Follows(incidents[i], incidents[i])
  BY <1>1, FollowsSelf
<1>3. QED
  BY <1>2 DEF Kept

LEMMA KeptRewrite ==
    ASSUME AlerterInv, NEW i \in 1..Len(incidents), NEW row, Follows(incidents[i], row),
           incidents' = [incidents EXCEPT ![i] = row]
    PROVE  Kept
<1>1. incidents \in Seq(Incident) /\ DOMAIN incidents = 1..Len(incidents)
  BY DEF AlerterInv, TypeOK
<1>2. \A j \in DOMAIN incidents : Follows(incidents[j], incidents[j])
  BY <1>1, FollowsSelf
<1>3. /\ DOMAIN incidents' = DOMAIN incidents /\ incidents'[i] = row
      /\ \A j \in DOMAIN incidents : j # i => incidents'[j] = incidents[j]
  BY <1>1
<1>4. QED
  BY <1>2, <1>3 DEF Kept

\* The steps of correlate and the resolution.
LEMMA KeptCorrelate ==
    ASSUME AlerterInv, NEW e \in Engine,
           \/ Upsert(e) \/ SetSeverity(e) \/ Announce(e) \/ Page(e) \/ MarkPaged(e)
           \/ ResolveIncident(e)
    PROVE  Kept
<1>1. /\ eng[e] \in EngineState /\ incidents \in Seq(Incident) /\ DOMAIN incidents = 1..Len(incidents)
      /\ \A j \in 1..Len(incidents) : incidents[j] \in Incident
      /\ Holding(e) => eng[e].inc \in 1..Len(incidents)
  BY HoldFacts
<1>2. ASSUME Upsert(e), OpenIncident(e) PROVE Kept
  <2>1. PICK new : incidents' = Append(incidents, new)
    BY <1>2 DEF OpenIncident
  <2>2. \A j \in 1..Len(incidents) : j \in DOMAIN incidents' /\ incidents'[j] = incidents[j]
    BY <1>1, <2>1
  <2>3. \A j \in 1..Len(incidents) : Follows(incidents[j], incidents[j])
    BY <1>1, FollowsSelf
  <2>4. QED
    BY <1>1, <2>2, <2>3 DEF Kept
<1>3. ASSUME NEW i \in Open(eng[e].fp), Upsert(e), MergeSignal(e, i) PROVE Kept
  <2> DEFINE old == incidents[i]
             c == eng[e].conf
             row == Merged(old, eng[e].cur, c)
  <2>1. i \in 1..Len(incidents) /\ old \in Incident /\ old.status = "open" /\ c \in 0..100
    BY <1>1 DEF Open, IsOpen, EngineState
  <2>2. incidents' = [incidents EXCEPT ![i] = row]
    BY <1>3 DEF MergeSignal
  <2>3. old.confidence \in 0..100
    BY ONLY <2>1, IncidentNumbers
  <2> HIDE DEF old, c
  <2>4. /\ row.fp = old.fp /\ row.rules = old.rules \cup {eng[e].cur} /\ row.paged = old.paged
        /\ row.confidence = IF c > old.confidence THEN c ELSE old.confidence
    BY ONLY <2>1 DEF Merged, Incident
  <2> HIDE DEF row
  <2>5. old.confidence <= row.confidence
    <3> DEFINE o == old.confidence
               t == row.confidence
    <3>1. o \in 0..100 /\ c \in 0..100 /\ t = IF c > o THEN c ELSE o
      BY ONLY <2>1, <2>3, <2>4
    <3> HIDE DEF o, t
    <3>2. o <= t
      BY ONLY <3>1
    <3>3. QED
      BY ONLY <3>2 DEF o, t
  <2>6. Follows(old, row)
    <3>1. old.status # "resolved" /\ old.rules \subseteq row.rules
      BY ONLY <2>1, <2>4
    <3>2. QED
      BY ONLY <2>4, <2>5, <3>1 DEF Follows
  <2>7. QED
    BY <2>1, <2>2, <2>6, KeptRewrite DEF old
<1>4. ASSUME SetSeverity(e) PROVE Kept
  <2> DEFINE i == eng[e].inc
             old == incidents[i]
             row == [old EXCEPT !.severity = Severity(eng[e].conf)]
  <2>1. i \in 1..Len(incidents) /\ old \in Incident
    BY <1>1, <1>4 DEF SetSeverity, Holding
  <2>2. incidents' = [incidents EXCEPT ![i] = row]
    BY <1>1, <1>4, <2>1 DEF SetSeverity
  <2>3. Follows(old, old)
    BY <2>1, FollowsSelf
  <2> HIDE DEF old, i
  <2>4. /\ row.fp = old.fp /\ row.rules = old.rules /\ row.paged = old.paged
        /\ row.confidence = old.confidence /\ row.status = old.status
    BY ONLY <2>1 DEF Incident
  <2> HIDE DEF row
  <2>5. Follows(old, row)
    BY ONLY <2>3, <2>4 DEF Follows
  <2>6. QED
    BY <2>1, <2>2, <2>5, KeptRewrite DEF old
<1>5. ASSUME Announce(e) \/ Page(e) PROVE Kept
  BY <1>5, KeptAlone DEF Announce, Page, dbVars
<1>6. ASSUME MarkPaged(e) PROVE Kept
  <2> DEFINE i == eng[e].inc
             old == incidents[i]
             row == [old EXCEPT !.paged = TRUE]
  <2>1. i \in 1..Len(incidents) /\ old \in Incident
    BY <1>1, <1>6 DEF MarkPaged, Holding
  <2>2. incidents' = [incidents EXCEPT ![i] = row]
    BY <1>1, <1>6, <2>1 DEF MarkPaged
  <2>3. Follows(old, old)
    BY <2>1, FollowsSelf
  <2> HIDE DEF old, i
  <2>4. /\ row.fp = old.fp /\ row.rules = old.rules /\ row.paged
        /\ row.confidence = old.confidence /\ row.status = old.status
    BY ONLY <2>1 DEF Incident
  <2> HIDE DEF row
  <2>5. Follows(old, row)
    BY ONLY <2>3, <2>4 DEF Follows
  <2>6. QED
    BY <2>1, <2>2, <2>5, KeptRewrite DEF old
<1>7. ASSUME ResolveIncident(e) PROVE Kept
  <2>1. ASSUME NEW j \in 1..Len(incidents) PROVE j \in DOMAIN incidents' /\ Follows(incidents[j], incidents'[j])
    <3> DEFINE old == incidents[j]
               closed == [old EXCEPT !.status = "resolved"]
    <3>1. j \in DOMAIN incidents' /\ (incidents'[j] = old \/ incidents'[j] = closed)
      BY <1>1, <1>7, <2>1 DEF ResolveIncident
    <3>2. old \in Incident /\ Follows(old, old)
      BY <1>1, <2>1, FollowsSelf
    <3> HIDE DEF old
    <3>3. /\ closed.fp = old.fp /\ closed.rules = old.rules /\ closed.paged = old.paged
          /\ closed.confidence = old.confidence /\ closed.status = "resolved"
      BY ONLY <3>2 DEF Incident
    <3> HIDE DEF closed
    <3>4. Follows(old, closed)
      BY ONLY <3>2, <3>3 DEF Follows
    <3>5. QED
      BY <3>1, <3>2, <3>4 DEF old
  <2>2. QED
    BY <1>1, <2>1 DEF Kept
<1>8. QED
  BY <1>2, <1>3, <1>4, <1>5, <1>6, <1>7 DEF Upsert

\* Every step of every engine and of the rule administration.
LEMMA KeptStep ==
    ASSUME AlerterInv, [Next]_vars
    PROVE  Kept
<1>1. ASSUME NEW e \in Engine, QuietMove(e) PROVE Kept
  BY <1>1, KeptAlone DEF QuietMove
<1>2. ASSUME NEW r \in Rule, CreateAlertRule(r) \/ DeleteAlertRule(r) PROVE Kept
  BY <1>2, KeptAlone DEF CreateAlertRule, DeleteAlertRule
<1>3. ASSUME NEW e \in Engine, Correlate(e) PROVE Kept
  BY <1>1, <1>3, PollQuiet, GiveUpQuiet, KeptCorrelate DEF Correlate
<1>4. ASSUME NEW e \in Engine, Settle(e) PROVE Kept
  BY <1>1, <1>4, GiveUpQuiet, KeptCorrelate DEF Settle
<1>5. CASE Next
  BY <1>1, <1>2, <1>3, <1>4, <1>5, PollQuiet, GiveUpQuiet DEF Next
<1>6. CASE UNCHANGED vars
  BY <1>6, KeptAlone DEF vars
<1>7. QED
  BY <1>5, <1>6

\* For any number of engines and any faults, no incident is lost, reopened or
\* given another fingerprint, no merged signal or recorded page is forgotten, and
\* the signals and the confidence of a resolved incident are final.
THEOREM AlerterEvidenceKept == Spec => EvidenceKept
<1>1. AlerterInv /\ [Next]_vars => Kept
  BY KeptStep
<1>2. Kept => [\A i \in DOMAIN incidents : i \in DOMAIN incidents' /\ Follows(incidents[i], incidents'[i])]_vars
  BY DEF Kept
<1>3. QED
  BY <1>1, <1>2, AlerterInvariance, PTL DEF Spec, EvidenceKept

-----------------------------------------------------------------------------
(* Pages, for any number of engines and whatever fails *)

\* The engine is to page incident i; it has just done so.
ToPage(st, i) == st.pc \in {"severity", "announce", "page"} /\ st.due /\ st.inc = i
Delivered(st, i) == st.pc = "mark" /\ st.cur \in Notifies /\ st.inc = i

\* An engine that has sent a page more than it lost the record of has recorded
\* it, or is about to; it pages only while it has not.
Accounted(st, i, out, gone, paged) ==
    /\ out <= gone + 1
    /\ out = gone + 1 => paged \/ Delivered(st, i)
    /\ ToPage(st, i) => out <= gone

PageInvariant ==
    \A i \in DOMAIN incidents : \A e \in Engine :
        Accounted(eng[e], i, sent[i][e], lost[i][e], incidents[i].paged)

\* The tallies are numbers.
LEMMA Tallies ==
    ASSUME AlerterInv
    PROVE  /\ DOMAIN incidents = 1..Len(incidents) /\ Len(incidents) \in Nat
           /\ \A i \in 1..Len(incidents) : \A e \in Engine : sent[i][e] \in Nat /\ lost[i][e] \in Nat
           /\ \A i \in 1..Len(incidents) : sent[i] \in Tally /\ lost[i] \in Tally
<1>1. /\ incidents \in Seq(Incident) /\ sent \in Seq(Tally) /\ lost \in Seq(Tally)
      /\ Len(sent) = Len(incidents) /\ Len(lost) = Len(incidents)
  BY DEF AlerterInv, TypeOK
<1>2. \A i \in 1..Len(incidents) : sent[i] \in Tally /\ lost[i] \in Tally
  BY ONLY <1>1
<1>3. QED
  BY ONLY <1>1, <1>2 DEF Tally

\* The accounts of the other engines are as good as before.
LEMMA PageMove ==
    ASSUME AlerterInv, PageInvariant, Kept, NEW e \in Engine, NEW st,
           eng' = [eng EXCEPT ![e] = st], DOMAIN incidents' = 1..Len(incidents),
           \A j \in 1..Len(incidents) : \A f \in Engine :
               f # e => sent'[j][f] = sent[j][f] /\ lost'[j][f] = lost[j][f],
           \A j \in 1..Len(incidents) :
               Accounted(st, j, sent'[j][e], lost'[j][e], incidents'[j].paged)
    PROVE  PageInvariant'
<1>1. eng \in [Engine -> EngineState]
  BY DEF AlerterInv, TypeOK
<1>2. eng'[e] = st /\ \A f \in Engine : f # e => eng'[f] = eng[f]
  BY ONLY <1>1, eng' = [eng EXCEPT ![e] = st]
<1>3. ASSUME NEW j \in 1..Len(incidents), NEW f \in Engine, f # e
      PROVE  Accounted(eng'[f], j, sent'[j][f], lost'[j][f], incidents'[j].paged)
  <2>1. sent'[j][f] = sent[j][f] /\ lost'[j][f] = lost[j][f] /\ eng'[f] = eng[f]
    BY <1>2, <1>3
  <2>2. incidents[j].paged => incidents'[j].paged
    BY Tallies DEF Kept, Follows
  <2>3. Accounted(eng[f], j, sent[j][f], lost[j][f], incidents[j].paged)
    BY Tallies DEF PageInvariant
  <2>4. Accounted(eng[f], j, sent[j][f], lost[j][f], incidents'[j].paged)
    BY ONLY <2>2, <2>3 DEF Accounted
  <2>5. QED
    BY ONLY <2>1, <2>4
<1>4. \A j \in 1..Len(incidents) : \A f \in Engine :
        Accounted(eng'[f], j, sent'[j][f], lost'[j][f], incidents'[j].paged)
  <2> TAKE j \in 1..Len(incidents)
  <2> TAKE f \in Engine
  <2>1. CASE f = e
    BY <1>2, <2>1
  <2>2. CASE f # e
    BY <1>3, <2>2
  <2>3. QED
    BY ONLY <2>1, <2>2
<1>5. QED
  BY ONLY <1>4, DOMAIN incidents' = 1..Len(incidents) DEF PageInvariant

\* A step of one engine that sends and loses no page.
LEMMA PageKept ==
    ASSUME AlerterInv, PageInvariant, Kept, NEW e \in Engine, NEW st,
           eng' = [eng EXCEPT ![e] = st], DOMAIN incidents' = 1..Len(incidents),
           sent' = sent, lost' = lost,
           \A j \in 1..Len(incidents) : Delivered(eng[e], j) => incidents'[j].paged,
           \A j \in 1..Len(incidents) : ToPage(st, j) =>
               ToPage(eng[e], j) \/ (eng[e].pc # "mark" /\ ~incidents[j].paged)
    PROVE  PageInvariant'
<1>1. ASSUME NEW j \in 1..Len(incidents)
      PROVE  Accounted(st, j, sent'[j][e], lost'[j][e], incidents'[j].paged)
  <2>1. incidents[j].paged => incidents'[j].paged
    BY Tallies DEF Kept, Follows
  <2>2. sent[j][e] \in Nat /\ lost[j][e] \in Nat
    BY Tallies
  <2>3. Accounted(eng[e], j, sent[j][e], lost[j][e], incidents[j].paged)
    BY Tallies DEF PageInvariant
  <2>4. /\ Delivered(eng[e], j) => incidents'[j].paged \/ Delivered(st, j)
        /\ ToPage(st, j) => ToPage(eng[e], j) \/ (eng[e].pc # "mark" /\ ~incidents[j].paged)
    OBVIOUS
  <2>5. Accounted(st, j, sent[j][e], lost[j][e], incidents'[j].paged)
    BY ONLY <2>1, <2>2, <2>3, <2>4 DEF Accounted, Delivered
  <2>6. QED
    BY ONLY <2>5, sent' = sent, lost' = lost
<1>2. \A j \in 1..Len(incidents) : \A f \in Engine :
        f # e => sent'[j][f] = sent[j][f] /\ lost'[j][f] = lost[j][f]
  BY ONLY sent' = sent, lost' = lost
<1>3. QED
  BY <1>1, <1>2, PageMove

\* The upsert that opens an incident: nobody has paged it.
LEMMA PageOpen ==
    ASSUME AlerterInv, PageInvariant, NEW e \in Engine, Upsert(e), OpenIncident(e)
    PROVE  PageInvariant'
<1> DEFINE n == Len(incidents)
<1>1. /\ incidents \in Seq(Incident) /\ sent \in Seq(Tally) /\ lost \in Seq(Tally)
      /\ Len(sent) = n /\ Len(lost) = n /\ n \in Nat /\ DOMAIN incidents = 1..n
      /\ eng \in [Engine -> EngineState] /\ eng[e] \in EngineState
  BY DEF AlerterInv, TypeOK
<1>2. PICK new, st :
        /\ incidents' = Append(incidents, new) /\ eng' = [eng EXCEPT ![e] = st]
        /\ sent' = Append(sent, NoPages) /\ lost' = Append(lost, NoPages)
        /\ st.pc = "severity" /\ st.inc = n + 1
  <2> DEFINE r == [fp |-> eng[e].fp, severity |-> Severity(eng[e].conf),
                   confidence |-> eng[e].conf, rules |-> {eng[e].cur}, status |-> "open",
                   paged |-> FALSE]
             s == [eng[e] EXCEPT !.pc = "severity", !.inc = n + 1, !.newly = TRUE, !.due = Due(r)]
  <2>1. /\ incidents' = Append(incidents, r) /\ eng' = [eng EXCEPT ![e] = s]
        /\ sent' = Append(sent, NoPages) /\ lost' = Append(lost, NoPages)
    BY <1>1 DEF OpenIncident
  <2>2. s.pc = "severity" /\ s.inc = n + 1
    BY ONLY <1>1 DEF EngineState
  <2>3. QED
    BY ONLY <2>1, <2>2
<1>3. /\ DOMAIN incidents' = 1..(n + 1) /\ \A j \in 1..n : incidents'[j] = incidents[j]
      /\ \A j \in 1..n : sent'[j] = sent[j] /\ lost'[j] = lost[j]
      /\ sent'[n + 1] = NoPages /\ lost'[n + 1] = NoPages
  BY ONLY <1>1, <1>2
<1>4. eng'[e] = st /\ \A f \in Engine : f # e => eng'[f] = eng[f]
  BY ONLY <1>1, <1>2
<1>5. \A j \in 1..(n + 1) : j \in 1..n \/ j = n + 1
  BY ONLY <1>1
<1>6. ASSUME NEW f \in Engine
      PROVE  Accounted(eng'[f], n + 1, sent'[n + 1][f], lost'[n + 1][f], incidents'[n + 1].paged)
  <2>1. sent'[n + 1][f] = 0 /\ lost'[n + 1][f] = 0
    BY ONLY <1>3, <1>6 DEF NoPages
  <2>2. QED
    BY ONLY <2>1 DEF Accounted
<1>7. ASSUME NEW f \in Engine, NEW j \in 1..n
      PROVE  Accounted(eng'[f], j, sent'[j][f], lost'[j][f], incidents'[j].paged)
  <2>1. Accounted(eng[f], j, sent[j][f], lost[j][f], incidents[j].paged)
    BY <1>1 DEF PageInvariant
  <2>2. CASE f # e
    BY ONLY <1>3, <1>4, <1>7, <2>1, <2>2
  <2>3. CASE f = e
    <3>1. ~Delivered(eng[e], j)
      BY DEF Upsert, Delivered
    <3>2. ~ToPage(st, j)
      <4>1. j # n + 1
        BY ONLY <1>1, <1>7
      <4>2. QED
        BY ONLY <1>2, <4>1 DEF ToPage
    <3>3. Accounted(st, j, sent[j][e], lost[j][e], incidents[j].paged)
      BY ONLY <2>1, <2>3, <3>1, <3>2 DEF Accounted
    <3>4. QED
      BY ONLY <1>3, <1>4, <1>7, <2>3, <3>3
  <2>4. QED
    BY ONLY <2>2, <2>3
<1>8. \A j \in 1..(n + 1) : \A f \in Engine :
        Accounted(eng'[f], j, sent'[j][f], lost'[j][f], incidents'[j].paged)
  BY ONLY <1>5, <1>6, <1>7, Zenon
<1>9. QED
  BY ONLY <1>3, <1>8 DEF PageInvariant

\* Each other step of correlate and of the resolution.
LEMMA PageCorrelate ==
    ASSUME AlerterInv, PageInvariant, Kept, NEW e \in Engine,
           \/ \E k \in Open(eng[e].fp) : Upsert(e) /\ MergeSignal(e, k)
           \/ SetSeverity(e) \/ Announce(e) \/ Page(e) \/ MarkPaged(e) \/ ResolveIncident(e)
    PROVE  PageInvariant'
<1> DEFINE i == eng[e].inc
           n == Len(incidents)
<1>0. /\ eng[e] \in EngineState /\ incidents \in Seq(Incident) /\ TypeOK
      /\ DOMAIN incidents = 1..n /\ n \in Nat /\ \A j \in 1..n : incidents[j] \in Incident
      /\ Holding(e) => i \in 1..n
      /\ eng[e].pc = "page" => eng[e].due
  BY HoldFacts DEF Holding
<1>1. ASSUME NEW k \in Open(eng[e].fp), Upsert(e), MergeSignal(e, k) PROVE PageInvariant'
  <2> DEFINE old == incidents[k]
             row == Merged(old, eng[e].cur, eng[e].conf)
             due == Due(row)
             st == [eng[e] EXCEPT !.pc = "severity", !.inc = k, !.newly = FALSE,
                                  !.conf = row.confidence, !.due = due]
  <2>1. /\ incidents' = [incidents EXCEPT ![k] = row] /\ eng' = [eng EXCEPT ![e] = st]
        /\ sent' = sent /\ lost' = lost /\ eng[e].pc = "upsert"
    BY <1>1, HoldFacts DEF MergeSignal, historyVars, Upsert
  <2>2. k \in 1..n /\ old \in Incident
    BY <1>0, <1>1 DEF Open
  <2>3. st.inc = k /\ st.due = due
    <3> HIDE DEF due, row
    <3>1. QED
      BY ONLY <1>0 DEF EngineState
  <2>4. row.paged = old.paged
    <3> HIDE DEF old
    <3>1. QED
      BY ONLY <2>2 DEF Incident, Merged
  <2>5. due => ~row.paged
    BY DEF Due
  <2> HIDE DEF row, st, due
  <2>6. DOMAIN incidents' = 1..n
    BY ONLY <1>0, <2>1
  <2>7. \A j \in 1..n : ToPage(st, j) => ToPage(eng[e], j) \/ (eng[e].pc # "mark" /\ ~incidents[j].paged)
    BY ONLY <2>1, <2>3, <2>4, <2>5 DEF ToPage
  <2>8. \A j \in 1..n : Delivered(eng[e], j) => incidents'[j].paged
    BY ONLY <2>1 DEF Delivered
  <2>9. QED
    BY ONLY AlerterInv, PageInvariant, Kept, <2>1, <2>6, <2>7, <2>8, PageKept
<1>2. CASE SetSeverity(e)
  <2> DEFINE row == [incidents[i] EXCEPT !.severity = Severity(eng[e].conf)]
             st == [eng[e] EXCEPT !.pc = "announce"]
  <2>1. /\ incidents' = [incidents EXCEPT ![i] = row] /\ eng' = [eng EXCEPT ![e] = st]
        /\ sent' = sent /\ lost' = lost /\ eng[e].pc = "severity"
    BY <1>2, HoldFacts DEF SetSeverity, historyVars
  <2>2. st.inc = i /\ st.due = eng[e].due
    BY ONLY <1>0 DEF EngineState
  <2> HIDE DEF row, st
  <2>3. DOMAIN incidents' = 1..n
    BY ONLY <1>0, <2>1
  <2>4. \A j \in 1..n : ToPage(st, j) => ToPage(eng[e], j) \/ (eng[e].pc # "mark" /\ ~incidents[j].paged)
    BY ONLY <2>1, <2>2 DEF ToPage
  <2>5. \A j \in 1..n : Delivered(eng[e], j) => incidents'[j].paged
    BY ONLY <2>1 DEF Delivered
  <2>6. QED
    BY ONLY AlerterInv, PageInvariant, Kept, <2>1, <2>3, <2>4, <2>5, PageKept
<1>3. CASE Announce(e)
  <2> DEFINE st == IF eng[e].due THEN [eng[e] EXCEPT !.pc = "page"] ELSE AfterCorrelate(e)
  <2>1. /\ incidents' = incidents /\ eng' = [eng EXCEPT ![e] = st] /\ sent' = sent /\ lost' = lost
        /\ eng[e].pc = "announce"
    BY <1>3, HoldFacts DEF Announce, dbVars
  <2>2. st.pc \in {"severity", "announce", "page"} => st.inc = i /\ eng[e].due
    <3>1. AfterCorrelate(e).pc \in {"sweep", "state", "rules"}
      BY ONLY <1>0, RestStates
    <3>2. [eng[e] EXCEPT !.pc = "page"].inc = i
      BY ONLY <1>0 DEF EngineState
    <3>3. QED
      BY ONLY <3>1, <3>2
  <2> HIDE DEF st
  <2>3. DOMAIN incidents' = 1..n
    BY ONLY <1>0, <2>1
  <2>4. \A j \in 1..n : ToPage(st, j) => ToPage(eng[e], j) \/ (eng[e].pc # "mark" /\ ~incidents[j].paged)
    BY ONLY <2>1, <2>2 DEF ToPage
  <2>5. \A j \in 1..n : Delivered(eng[e], j) => incidents'[j].paged
    BY ONLY <2>1 DEF Delivered
  <2>6. QED
    BY ONLY AlerterInv, PageInvariant, Kept, <2>1, <2>3, <2>4, <2>5, PageKept
<1>4. CASE Page(e)
  <2> DEFINE st == [eng[e] EXCEPT !.pc = "mark"]
  <2>1. /\ incidents' = incidents /\ eng' = [eng EXCEPT ![e] = st] /\ eng[e].pc = "page"
        /\ sent' = IF eng[e].cur \in Notifies THEN [sent EXCEPT ![i][e] = @ + 1] ELSE sent
        /\ lost' = lost
    BY <1>4, HoldFacts DEF Page, dbVars
  <2>2. st.inc = i /\ st.pc = "mark" /\ st.cur = eng[e].cur
    BY ONLY <1>0 DEF EngineState
  <2> HIDE DEF st
  <2>3. DOMAIN incidents' = 1..n /\ i \in 1..n /\ ToPage(eng[e], i)
    BY <1>0, <2>1 DEF Holding, ToPage
  <2>4. CASE eng[e].cur \notin Notifies
    <3>1. sent' = sent
      BY ONLY <2>1, <2>4
    <3>2. /\ \A j \in 1..n : ToPage(st, j) => ToPage(eng[e], j) \/ (eng[e].pc # "mark" /\ ~incidents[j].paged)
          /\ \A j \in 1..n : Delivered(eng[e], j) => incidents'[j].paged
      BY ONLY <2>1, <2>2 DEF ToPage, Delivered
    <3>3. QED
      BY ONLY AlerterInv, PageInvariant, Kept, <2>1, <2>3, <3>1, <3>2, PageKept
  <2>5. CASE eng[e].cur \in Notifies
    <3>1. /\ sent \in Seq(Tally) /\ Len(sent) = n /\ \A j \in 1..n : sent[j] \in [Engine -> Nat]
          /\ \A j \in 1..n : lost[j][e] \in Nat /\ sent[j][e] \in Nat
      BY Tallies DEF AlerterInv, TypeOK, Tally
    <3>2. /\ \A j \in 1..n : \A f \in Engine : f # e => sent'[j][f] = sent[j][f]
          /\ \A j \in 1..n : j # i => sent'[j] = sent[j]
          /\ sent'[i][e] = sent[i][e] + 1
      <4> DEFINE x == [sent[i] EXCEPT ![e] = @ + 1]
      <4>1. sent' = [sent EXCEPT ![i] = x]
        BY ONLY <2>1, <2>5
      <4>2. x[e] = sent[i][e] + 1 /\ \A f \in Engine : f # e => x[f] = sent[i][f]
        BY ONLY <2>3, <3>1
      <4> HIDE DEF x
      <4>3. sent'[i] = x /\ \A j \in 1..n : j # i => sent'[j] = sent[j]
        BY ONLY <2>3, <3>1, <4>1
      <4>4. QED
        BY ONLY <4>2, <4>3
    <3>3. ASSUME NEW j \in 1..n
          PROVE  Accounted(st, j, sent'[j][e], lost'[j][e], incidents'[j].paged)
      <4>1. Accounted(eng[e], j, sent[j][e], lost[j][e], incidents[j].paged)
        BY <1>0 DEF PageInvariant
      <4>2. lost'[j][e] = lost[j][e] /\ incidents'[j] = incidents[j]
        BY ONLY <2>1
      <4>3. lost[j][e] \in Nat /\ sent[j][e] \in Nat
        BY ONLY <3>1, <3>3
      <4>4. CASE j # i
        <5>1. ~Delivered(eng[e], j) /\ ~ToPage(st, j)
          BY ONLY <2>1, <2>2 DEF Delivered, ToPage
        <5>2. Accounted(st, j, sent[j][e], lost[j][e], incidents[j].paged)
          BY ONLY <4>1, <5>1 DEF Accounted
        <5>3. QED
          BY ONLY <3>2, <3>3, <4>2, <4>4, <5>2
      <4>5. CASE j = i
        <5> DEFINE out == sent[j][e]
                   gone == lost[j][e]
        <5>1. out \in Nat /\ gone \in Nat /\ out <= gone
          BY ONLY <2>3, <4>1, <4>3, <4>5 DEF Accounted
        <5>2. Delivered(st, j) /\ ~ToPage(st, j)
          BY ONLY <2>2, <2>5, <4>5 DEF Delivered, ToPage
        <5>3. sent'[j][e] = out + 1 /\ lost'[j][e] = gone
          BY ONLY <3>2, <4>2, <4>5
        <5> HIDE DEF out, gone
        <5>4. out + 1 <= gone + 1
          BY ONLY <5>1
        <5>5. QED
          BY ONLY <5>2, <5>3, <5>4 DEF Accounted
      <4>6. QED
        BY ONLY <4>4, <4>5
    <3>4. \A j \in 1..n : \A f \in Engine :
            f # e => sent'[j][f] = sent[j][f] /\ lost'[j][f] = lost[j][f]
      BY ONLY <2>1, <3>2
    <3>5. QED
      BY ONLY AlerterInv, PageInvariant, Kept, <2>1, <2>3, <3>3, <3>4, PageMove
  <2>6. QED
    BY ONLY <2>4, <2>5
<1>5. CASE MarkPaged(e)
  <2> DEFINE old == incidents[i]
             row == [old EXCEPT !.paged = TRUE]
             st == AfterCorrelate(e)
  <2>1. /\ incidents' = [incidents EXCEPT ![i] = row] /\ eng' = [eng EXCEPT ![e] = st]
        /\ sent' = sent /\ lost' = lost /\ eng[e].pc = "mark"
    BY <1>5, HoldFacts DEF MarkPaged, historyVars
  <2>2. i \in 1..n /\ old \in Incident
    BY <1>0, <2>1 DEF Holding
  <2>3. row.paged = TRUE
    <3> HIDE DEF old
    <3>1. QED
      BY ONLY <2>2 DEF Incident
  <2>4. st.pc \in {"sweep", "state", "rules"}
    BY ONLY <1>0, RestStates
  <2> HIDE DEF row, st
  <2>5. DOMAIN incidents' = 1..n /\ incidents'[i] = row
    BY ONLY <1>0, <2>1, <2>2
  <2>6. \A j \in 1..n : ToPage(st, j) => ToPage(eng[e], j) \/ (eng[e].pc # "mark" /\ ~incidents[j].paged)
    BY ONLY <2>4 DEF ToPage
  <2>7. \A j \in 1..n : Delivered(eng[e], j) => incidents'[j].paged
    BY ONLY <2>3, <2>5 DEF Delivered
  <2>8. QED
    BY ONLY AlerterInv, PageInvariant, Kept, <2>1, <2>5, <2>6, <2>7, PageKept
<1>6. CASE ResolveIncident(e)
  <2> DEFINE st == ToState(e)
  <2>1. /\ eng' = [eng EXCEPT ![e] = st] /\ sent' = sent /\ lost' = lost /\ eng[e].pc = "resolve"
        /\ DOMAIN incidents' = 1..n
    BY <1>0, <1>6 DEF ResolveIncident, historyVars
  <2>2. st.pc = "state"
    BY ONLY <1>0, RestStates
  <2> HIDE DEF st
  <2>3. \A j \in 1..n : ToPage(st, j) => ToPage(eng[e], j) \/ (eng[e].pc # "mark" /\ ~incidents[j].paged)
    BY ONLY <2>2 DEF ToPage
  <2>4. \A j \in 1..n : Delivered(eng[e], j) => incidents'[j].paged
    BY ONLY <2>1 DEF Delivered
  <2>5. QED
    BY ONLY AlerterInv, PageInvariant, Kept, <2>1, <2>3, <2>4, PageKept
<1>7. QED
  BY <1>1, <1>2, <1>3, <1>4, <1>5, <1>6

\* A statement fails or the process dies: a page just delivered is written off.
LEMMA PageLost ==
    ASSUME AlerterInv, PageInvariant, Kept, NEW e \in Engine, CorrelateFails(e) \/ Crash(e)
    PROVE  PageInvariant'
<1> DEFINE i == eng[e].inc
           n == Len(incidents)
<1>0. TypeOK /\ DOMAIN incidents = 1..n /\ (Holding(e) => i \in 1..n)
  BY HoldFacts
<1>1. PICK st : /\ eng' = [eng EXCEPT ![e] = st]
                /\ st.pc \notin {"severity", "announce", "page", "mark"}
  BY GiveUpQuiet DEF QuietMove
<1>2. incidents' = incidents /\ sent' = sent /\ LoseRecord(e)
  BY DEF CorrelateFails, Crash, dbVars
<1>3. \A j : ~ToPage(st, j) /\ ~Delivered(st, j)
  BY ONLY <1>1 DEF ToPage, Delivered
<1>4. CASE ~(eng[e].pc = "mark" /\ eng[e].cur \in Notifies)
  <2>1. lost' = lost /\ \A j \in 1..n : ~Delivered(eng[e], j)
    BY ONLY <1>2, <1>4 DEF LoseRecord, Delivered
  <2>2. /\ \A j \in 1..n : ToPage(st, j) => ToPage(eng[e], j) \/ (eng[e].pc # "mark" /\ ~incidents[j].paged)
        /\ \A j \in 1..n : Delivered(eng[e], j) => incidents'[j].paged
        /\ DOMAIN incidents' = 1..n
    BY ONLY <1>0, <1>2, <1>3, <2>1
  <2>3. QED
    BY ONLY AlerterInv, PageInvariant, Kept, <1>1, <1>2, <2>1, <2>2, PageKept
<1>5. CASE eng[e].pc = "mark" /\ eng[e].cur \in Notifies
  <2>1. i \in 1..n
    BY <1>0, <1>5 DEF Holding
  <2>2. /\ lost \in Seq(Tally) /\ Len(lost) = n /\ \A j \in 1..n : lost[j] \in [Engine -> Nat]
        /\ \A j \in 1..n : lost[j][e] \in Nat /\ sent[j][e] \in Nat
    BY Tallies DEF AlerterInv, TypeOK, Tally
  <2>3. /\ \A j \in 1..n : \A f \in Engine : f # e => lost'[j][f] = lost[j][f]
        /\ \A j \in 1..n : j # i => lost'[j] = lost[j]
        /\ lost'[i][e] = lost[i][e] + 1
    <3> DEFINE x == [lost[i] EXCEPT ![e] = @ + 1]
    <3>1. lost' = [lost EXCEPT ![i] = x]
      BY ONLY <1>2, <1>5 DEF LoseRecord
    <3>2. x[e] = lost[i][e] + 1 /\ \A f \in Engine : f # e => x[f] = lost[i][f]
      BY ONLY <2>1, <2>2
    <3> HIDE DEF x
    <3>3. lost'[i] = x /\ \A j \in 1..n : j # i => lost'[j] = lost[j]
      BY ONLY <2>1, <2>2, <3>1
    <3>4. QED
      BY ONLY <3>2, <3>3
  <2>4. ASSUME NEW j \in 1..n
        PROVE  Accounted(st, j, sent'[j][e], lost'[j][e], incidents'[j].paged)
    <3>1. Accounted(eng[e], j, sent[j][e], lost[j][e], incidents[j].paged)
      BY <1>0 DEF PageInvariant
    <3>2. lost[j][e] \in Nat /\ sent[j][e] \in Nat /\ sent'[j][e] = sent[j][e] /\ incidents'[j] = incidents[j]
      BY ONLY <1>2, <2>2, <2>4
    <3>3. CASE j # i
      <4>1. ~Delivered(eng[e], j)
        BY ONLY <3>3 DEF Delivered
      <4>2. Accounted(st, j, sent[j][e], lost[j][e], incidents[j].paged)
        BY ONLY <1>3, <3>1, <4>1 DEF Accounted
      <4>3. QED
        BY ONLY <2>3, <2>4, <3>2, <3>3, <4>2
    <3>4. CASE j = i
      <4> DEFINE out == sent[j][e]
                 gone == lost[j][e]
      <4>1. out \in Nat /\ gone \in Nat /\ out <= gone + 1
        BY ONLY <3>1, <3>2 DEF Accounted
      <4>2. sent'[j][e] = out /\ lost'[j][e] = gone + 1
        BY ONLY <2>3, <3>2, <3>4
      <4> HIDE DEF out, gone
      <4>3. out <= (gone + 1) + 1 /\ out # (gone + 1) + 1
        BY ONLY <4>1
      <4>4. QED
        BY ONLY <1>3, <4>2, <4>3 DEF Accounted
    <3>5. QED
      BY ONLY <3>3, <3>4
  <2>5. \A j \in 1..n : \A f \in Engine :
          f # e => sent'[j][f] = sent[j][f] /\ lost'[j][f] = lost[j][f]
    BY ONLY <1>2, <2>3
  <2>6. DOMAIN incidents' = 1..n
    BY ONLY <1>0, <1>2
  <2>7. QED
    BY ONLY AlerterInv, PageInvariant, Kept, <1>1, <2>4, <2>5, <2>6, PageMove
<1>6. QED
  BY ONLY <1>4, <1>5

\* The whole next-state relation.
LEMMA PageStepInv ==
    ASSUME AlerterInv, PageInvariant, [Next]_vars
    PROVE  PageInvariant'
<1>0. Kept /\ DOMAIN incidents = 1..Len(incidents)
  BY KeptStep DEF AlerterInv, TypeOK
<1>1. ASSUME NEW e \in Engine, QuietMove(e), eng[e].pc # "mark", lost' = lost PROVE PageInvariant'
  <2>1. PICK st \in EngineState : /\ eng' = [eng EXCEPT ![e] = st]
                                  /\ st.pc \notin {"severity", "announce", "page", "mark"}
    BY <1>1 DEF QuietMove
  <2>2. incidents' = incidents /\ sent' = sent
    BY <1>1 DEF QuietMove
  <2>3. /\ \A j \in 1..Len(incidents) : ToPage(st, j) =>
             ToPage(eng[e], j) \/ (eng[e].pc # "mark" /\ ~incidents[j].paged)
        /\ \A j \in 1..Len(incidents) : Delivered(eng[e], j) => incidents'[j].paged
        /\ DOMAIN incidents' = 1..Len(incidents)
    BY ONLY <1>0, <1>1, <2>1, <2>2 DEF ToPage, Delivered
  <2>4. QED
    BY ONLY AlerterInv, PageInvariant, <1>0, <1>1, <2>1, <2>2, <2>3, PageKept
<1>2. ASSUME UNCHANGED <<eng, incidents, sent, lost>> PROVE PageInvariant'
  BY <1>2 DEF PageInvariant
<1>3. ASSUME NEW r \in Rule, CreateAlertRule(r) \/ DeleteAlertRule(r) PROVE PageInvariant'
  BY <1>2, <1>3 DEF CreateAlertRule, DeleteAlertRule, historyVars
<1>4. ASSUME NEW e \in Engine,
             \/ StartCycle(e) \/ Evaluate(e) \/ Sweep(e) \/ EndCycle(e)
             \/ \E fp \in Service : Lookup(e, fp)
      PROVE  PageInvariant'
  <2>1. eng[e].pc # "mark" /\ lost' = lost
    BY <1>4 DEF StartCycle, Evaluate, EvalRule, SkipRule, Sweep, StartSweep, SweepService, EndCycle,
                Lookup, historyVars
  <2>2. QED
    BY <1>1, <1>4, <2>1, PollQuiet
<1>5. ASSUME NEW e \in Engine, ResolveFails(e) \/ UpsertState(e) \/ UpsertStateFails(e)
      PROVE  PageInvariant'
  <2>1. eng[e].pc # "mark" /\ lost' = lost
    BY <1>5 DEF ResolveFails, UpsertState, UpsertStateFails, historyVars
  <2>2. QED
    BY <1>1, <1>5, <2>1, GiveUpQuiet
<1>6. ASSUME NEW e \in Engine, Upsert(e) PROVE PageInvariant'
  <2>1. OpenIncident(e) \/ \E k \in Open(eng[e].fp) : Upsert(e) /\ MergeSignal(e, k)
    BY <1>6 DEF Upsert
  <2>2. QED
    BY <1>0, <1>6, <2>1, PageOpen, PageCorrelate
<1>7. ASSUME NEW e \in Engine, Correlate(e) PROVE PageInvariant'
  BY <1>0, <1>4, <1>6, <1>7, PageCorrelate, PageLost DEF Correlate
<1>8. ASSUME NEW e \in Engine, Settle(e) PROVE PageInvariant'
  BY <1>0, <1>5, <1>8, PageCorrelate DEF Settle
<1>9. CASE Next
  BY <1>0, <1>3, <1>4, <1>7, <1>8, <1>9, PageLost DEF Next
<1>10. CASE UNCHANGED vars
  BY <1>2, <1>10 DEF vars
<1>11. QED
  BY <1>9, <1>10

\* "pages exactly once" (incident.go:31), at most once, for any number of engines
\* and whatever fails: an engine pages an incident again only for a page whose
\* record was lost between the page and the UPDATE.
THEOREM AlerterPagedAtMostOnce == Spec => []PagedAtMostOnce
<1>1. Init => PageInvariant
  BY DEF Init, PageInvariant
<1>2. AlerterInv /\ PageInvariant /\ [Next]_vars => PageInvariant'
  BY PageStepInv
<1>3. PageInvariant => PagedAtMostOnce
  BY DEF PageInvariant, PagedAtMostOnce, Accounted
<1>4. QED
  BY <1>1, <1>2, <1>3, AlerterInvariance, PTL DEF Spec

-----------------------------------------------------------------------------
(* One engine *)

OneEngine == \A e, f \in Engine : e = f

\* The incident in hand is open: only the engine itself could resolve it.
HeldIsOpen == \A e \in Engine : Holding(e) => incidents[eng[e].inc].status = "open"

\* What a row that is not rewritten keeps.
KeepsResolved ==
    \A j \in DOMAIN incidents : incidents[j].status = "resolved" => incidents'[j] = incidents[j]

\* Rewriting an open row leaves the resolved ones alone.
LEMMA OpenRowRewritten ==
    ASSUME AlerterInv, NEW i \in 1..Len(incidents), incidents[i].status = "open", NEW row,
           incidents' = [incidents EXCEPT ![i] = row]
    PROVE  /\ KeepsResolved /\ incidents'[i] = row
           /\ \A j \in 1..Len(incidents) : j # i => incidents'[j] = incidents[j]
<1>1. incidents \in Seq(Incident) /\ DOMAIN incidents = 1..Len(incidents)
  BY DEF AlerterInv, TypeOK
<1>2. /\ incidents'[i] = row
      /\ \A j \in 1..Len(incidents) : j # i => incidents'[j] = incidents[j]
  BY <1>1
<1>3. QED
  BY <1>1, <1>2 DEF KeepsResolved

\* The engine's own state after its step, when there is no other.
LEMMA Alone ==
    ASSUME OneEngine, AlerterInv, NEW e \in Engine, NEW st, eng' = [eng EXCEPT ![e] = st]
    PROVE  \A f \in Engine : f = e /\ eng'[f] = st
<1>1. eng \in [Engine -> EngineState]
  BY DEF AlerterInv, TypeOK
<1>2. eng'[e] = st /\ \A f \in Engine : f = e
  BY <1>1 DEF OneEngine
<1>3. QED
  BY <1>2

\* Every step of the one engine keeps the incident it holds open, and leaves
\* resolved incidents alone.
LEMMA SoloCorrelate ==
    ASSUME OneEngine, AlerterInv, HeldIsOpen, NEW e \in Engine,
           \/ Upsert(e) \/ SetSeverity(e) \/ Announce(e) \/ Page(e) \/ MarkPaged(e)
           \/ ResolveIncident(e)
    PROVE  HeldIsOpen' /\ KeepsResolved
<1> DEFINE i == eng[e].inc
<1>0. /\ eng[e] \in EngineState /\ incidents \in Seq(Incident) /\ TypeOK
      /\ DOMAIN incidents = 1..Len(incidents) /\ Len(incidents) \in Nat
  BY HoldFacts
<1>1. Holding(e) => i \in 1..Len(incidents) /\ incidents[i].status = "open"
  BY HoldFacts DEF HeldIsOpen
<1>2. CASE Upsert(e) /\ OpenIncident(e)
  <2> DEFINE new == [fp |-> eng[e].fp, severity |-> Severity(eng[e].conf),
                     confidence |-> eng[e].conf, rules |-> {eng[e].cur}, status |-> "open",
                     paged |-> FALSE]
             st == [eng[e] EXCEPT !.pc = "severity", !.inc = Len(incidents) + 1, !.newly = TRUE,
                                  !.due = Due(new)]
  <2>1. incidents' = Append(incidents, new) /\ eng' = [eng EXCEPT ![e] = st]
    BY <1>2, HoldFacts DEF OpenIncident
  <2>2. st.inc = Len(incidents) + 1
    BY ONLY <1>0 DEF EngineState
  <2>3. new.status = "open"
    OBVIOUS
  <2> HIDE DEF new, st
  <2>4. /\ incidents'[Len(incidents) + 1] = new
        /\ \A j \in 1..Len(incidents) : incidents'[j] = incidents[j]
    BY ONLY <1>0, <2>1
  <2>5. \A f \in Engine : f = e /\ eng'[f] = st
    BY ONLY OneEngine, AlerterInv, <2>1, Alone
  <2>6. HeldIsOpen'
    BY ONLY <2>2, <2>3, <2>4, <2>5 DEF HeldIsOpen
  <2>7. QED
    BY ONLY <1>0, <2>4, <2>6 DEF KeepsResolved
<1>3. ASSUME Upsert(e), NEW k \in Open(eng[e].fp), MergeSignal(e, k)
      PROVE  HeldIsOpen' /\ KeepsResolved
  <2> DEFINE old == incidents[k]
             row == Merged(old, eng[e].cur, eng[e].conf)
             st == [eng[e] EXCEPT !.pc = "severity", !.inc = k, !.newly = FALSE,
                                  !.conf = row.confidence, !.due = Due(row)]
  <2>1. incidents' = [incidents EXCEPT ![k] = row] /\ eng' = [eng EXCEPT ![e] = st]
    BY <1>3, HoldFacts DEF MergeSignal
  <2>2. k \in 1..Len(incidents) /\ old.status = "open" /\ old \in Incident
    BY <1>0, <1>3, HoldFacts DEF Open, IsOpen
  <2>3. st.inc = k
    BY ONLY <1>0 DEF EngineState
  <2>4. row.status = "open"
    <3> HIDE DEF old
    <3>1. QED
      BY ONLY <2>2 DEF Incident, Merged
  <2> HIDE DEF row, st
  <2>5. KeepsResolved /\ incidents'[k] = row
    BY ONLY AlerterInv, <2>1, <2>2, OpenRowRewritten
  <2>6. \A f \in Engine : f = e /\ eng'[f] = st
    BY ONLY OneEngine, AlerterInv, <2>1, Alone
  <2>7. HeldIsOpen'
    BY ONLY <2>3, <2>4, <2>5, <2>6 DEF HeldIsOpen
  <2>8. QED
    BY ONLY <2>5, <2>7
<1>4. CASE SetSeverity(e)
  <2> DEFINE old == incidents[i]
             row == [old EXCEPT !.severity = Severity(eng[e].conf)]
             st == [eng[e] EXCEPT !.pc = "announce"]
  <2>1. incidents' = [incidents EXCEPT ![i] = row] /\ eng' = [eng EXCEPT ![e] = st]
    BY <1>4, HoldFacts DEF SetSeverity
  <2>2. i \in 1..Len(incidents) /\ old.status = "open" /\ old \in Incident
    BY <1>0, <1>1, <1>4, HoldFacts DEF Holding, SetSeverity
  <2>3. st.inc = i
    BY ONLY <1>0 DEF EngineState
  <2>4. row.status = "open"
    <3> HIDE DEF old
    <3>1. QED
      BY ONLY <2>2 DEF Incident
  <2> HIDE DEF row, st
  <2>5. KeepsResolved /\ incidents'[i] = row
    BY ONLY AlerterInv, <2>1, <2>2, OpenRowRewritten
  <2>6. \A f \in Engine : f = e /\ eng'[f] = st
    BY ONLY OneEngine, AlerterInv, <2>1, Alone
  <2>7. HeldIsOpen'
    BY ONLY <2>3, <2>4, <2>5, <2>6 DEF HeldIsOpen
  <2>8. QED
    BY ONLY <2>5, <2>7
<1>5. CASE Announce(e)
  <2> DEFINE st == IF eng[e].due THEN [eng[e] EXCEPT !.pc = "page"] ELSE AfterCorrelate(e)
  <2>1. incidents' = incidents /\ eng' = [eng EXCEPT ![e] = st]
    BY <1>5, HoldFacts DEF Announce, dbVars
  <2>2. st.pc \in {"severity", "announce", "page", "mark"} => st.inc = i
    <3>1. AfterCorrelate(e).pc \in {"sweep", "state", "rules"}
      BY ONLY <1>0, RestStates
    <3>2. [eng[e] EXCEPT !.pc = "page"].inc = i
      BY ONLY <1>0 DEF EngineState
    <3>3. QED
      BY ONLY <3>1, <3>2
  <2>3. incidents[i].status = "open"
    BY <1>1, <1>5 DEF Holding, Announce
  <2> HIDE DEF st
  <2>4. \A f \in Engine : f = e /\ eng'[f] = st
    BY ONLY OneEngine, AlerterInv, <2>1, Alone
  <2>5. QED
    BY ONLY <2>1, <2>2, <2>3, <2>4 DEF HeldIsOpen, Holding, KeepsResolved
<1>6. CASE Page(e)
  <2> DEFINE st == [eng[e] EXCEPT !.pc = "mark"]
  <2>1. incidents' = incidents /\ eng' = [eng EXCEPT ![e] = st]
    BY <1>6, HoldFacts DEF Page, dbVars
  <2>2. st.inc = i
    BY ONLY <1>0 DEF EngineState
  <2>3. incidents[i].status = "open"
    BY <1>1, <1>6 DEF Holding, Page
  <2> HIDE DEF st
  <2>4. \A f \in Engine : f = e /\ eng'[f] = st
    BY ONLY OneEngine, AlerterInv, <2>1, Alone
  <2>5. QED
    BY ONLY <2>1, <2>2, <2>3, <2>4 DEF HeldIsOpen, Holding, KeepsResolved
<1>7. CASE MarkPaged(e)
  <2> DEFINE row == [incidents[i] EXCEPT !.paged = TRUE]
             st == AfterCorrelate(e)
  <2>1. incidents' = [incidents EXCEPT ![i] = row] /\ eng' = [eng EXCEPT ![e] = st]
    BY <1>7, HoldFacts DEF MarkPaged
  <2>2. i \in 1..Len(incidents) /\ incidents[i].status = "open"
    BY <1>1, <1>7 DEF Holding, MarkPaged
  <2>3. st.pc \in {"sweep", "state", "rules"}
    BY ONLY <1>0, RestStates
  <2> HIDE DEF row, st
  <2>4. KeepsResolved
    BY ONLY AlerterInv, <2>1, <2>2, OpenRowRewritten
  <2>5. \A f \in Engine : f = e /\ eng'[f] = st
    BY ONLY OneEngine, AlerterInv, <2>1, Alone
  <2>6. QED
    BY ONLY <2>3, <2>4, <2>5 DEF HeldIsOpen, Holding
<1>8. CASE ResolveIncident(e)
  <2> DEFINE st == ToState(e)
  <2>1. eng' = [eng EXCEPT ![e] = st]
    BY <1>8 DEF ResolveIncident
  <2>2. st.pc = "state"
    BY ONLY <1>0, RestStates
  <2>3. KeepsResolved
    BY <1>8 DEF ResolveIncident, KeepsResolved, IsOpen
  <2> HIDE DEF st
  <2>4. \A f \in Engine : f = e /\ eng'[f] = st
    BY ONLY OneEngine, AlerterInv, <2>1, Alone
  <2>5. QED
    BY ONLY <2>2, <2>3, <2>4 DEF HeldIsOpen, Holding
<1>9. QED
  BY <1>2, <1>3, <1>4, <1>5, <1>6, <1>7, <1>8 DEF Upsert

\* The whole next-state relation.
LEMMA SoloStep ==
    ASSUME OneEngine, AlerterInv, HeldIsOpen, [Next]_vars
    PROVE  HeldIsOpen' /\ KeepsResolved
<1>1. ASSUME NEW e \in Engine, QuietMove(e) PROVE HeldIsOpen' /\ KeepsResolved
  <2>1. PICK st \in EngineState : /\ eng' = [eng EXCEPT ![e] = st]
                                  /\ st.pc \notin {"severity", "announce", "page", "mark"}
    BY <1>1 DEF QuietMove
  <2>2. incidents' = incidents
    BY <1>1 DEF QuietMove
  <2>3. \A f \in Engine : eng'[f] = st
    BY ONLY OneEngine, AlerterInv, <2>1, Alone
  <2>4. QED
    BY ONLY <2>1, <2>2, <2>3 DEF HeldIsOpen, Holding, KeepsResolved
<1>2. ASSUME UNCHANGED <<eng, incidents>> PROVE HeldIsOpen' /\ KeepsResolved
  BY <1>2 DEF HeldIsOpen, Holding, KeepsResolved
<1>3. ASSUME NEW r \in Rule, CreateAlertRule(r) \/ DeleteAlertRule(r)
      PROVE  HeldIsOpen' /\ KeepsResolved
  BY <1>2, <1>3 DEF CreateAlertRule, DeleteAlertRule
<1>4. ASSUME NEW e \in Engine, Correlate(e) PROVE HeldIsOpen' /\ KeepsResolved
  BY <1>1, <1>4, PollQuiet, GiveUpQuiet, SoloCorrelate DEF Correlate
<1>5. ASSUME NEW e \in Engine, Settle(e) PROVE HeldIsOpen' /\ KeepsResolved
  BY <1>1, <1>5, GiveUpQuiet, SoloCorrelate DEF Settle
<1>6. CASE Next
  BY <1>1, <1>3, <1>4, <1>5, <1>6, PollQuiet, GiveUpQuiet DEF Next
<1>7. CASE UNCHANGED vars
  BY <1>2, <1>7 DEF vars
<1>8. QED
  BY <1>6, <1>7

\* With one engine, whatever fails: nothing it has read before is written to an
\* incident that has been closed since.
THEOREM AlerterResolvedIsFinal ==
    ASSUME OneEngine
    PROVE  Spec => ResolvedIsFinal
<1>1. Init => HeldIsOpen
  BY DEF Init, Stopped, HeldIsOpen, Holding
<1>2. AlerterInv /\ HeldIsOpen /\ [Next]_vars => HeldIsOpen' /\ KeepsResolved
  BY SoloStep
<1>3. KeepsResolved =>
        [\A i \in DOMAIN incidents :
           incidents[i].status = "resolved" => incidents'[i] = incidents[i]]_vars
  BY DEF KeepsResolved
<1>4. QED
  BY <1>1, <1>2, <1>3, AlerterInvariance, PTL DEF Spec, ResolvedIsFinal
=============================================================================
