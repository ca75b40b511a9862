---------------------------- MODULE IncidentRoom ----------------------------
(***************************************************************************)
(* After an incident is open: the war room (platform/api/handler/warroom.go,  *)
(* domains/warroom) and the postmortem with its CERT-In report                *)
(* (handler/postmortem.go, domains/postmortem).  The handoff reads session,   *)
(* roles and entries in three statements and then resolves the session;       *)
(* responders write in between.  One incident; summaries are versions.        *)
(***************************************************************************)
EXTENDS Integers, Sequences, FiniteSets

CONSTANTS
    Responder,     \* concurrent handoffs
    MaxSession,    \* bound: sessions declared
    MaxVersion,    \* bound: summaries written
    MaxEntry,      \* bound: timeline entries
    RoomTime       \* bound: hours of the postmortem's clock

ASSUME RoomAssumption == MaxSession \in Nat /\ RoomTime \in Nat

VARIABLES
    incident_sessions,  \* in the order they were opened: status, summary
    session_entries,    \* [session, n, kind]
    session_roles,      \* [session -> assignee of the commander role]
    version,            \* summaries written so far
    handoff,            \* [Responder -> handoff in progress or answered]
    hour,               \* the postmortem's clock
    postmortem,         \* its row
    incident,           \* the linked incident: first seen at hour 0; severity, resolved or not
    commitments,        \* remediation_commitments of the postmortem
    feedback            \* verdicts on the incident: what calibration reads

roomVars == <<incident_sessions, session_entries, session_roles, version, handoff>>
reportVars == <<hour, postmortem, incident, commitments, feedback>>

Unassigned == ""
NoSeverity == ""

Session == 1..Len(incident_sessions)
Open(i) == incident_sessions[i].status = "open"

NoHandoff == [pc |-> "idle", session |-> 0, summary |-> 0, roles |-> Unassigned, entries |-> {}, due |-> {},
              won |-> FALSE]

RoomInit ==
    /\ incident_sessions = <<>> /\ session_entries = {} /\ version = 0
    /\ session_roles = [i \in 1..MaxSession |-> Unassigned]
    /\ handoff = [h \in Responder |-> NoHandoff]

\* INSERT ... ON CONFLICT (incident_id) WHERE status = 'open': an empty summary
\* (0) keeps the one there is.
Declare(summary) ==
    /\ IF \E i \in Session : Open(i)
       THEN incident_sessions' = [i \in Session |->
              IF Open(i) /\ summary # 0 THEN [incident_sessions[i] EXCEPT !.summary = summary]
              ELSE incident_sessions[i]]
       ELSE /\ Len(incident_sessions) < MaxSession
            /\ incident_sessions' = Append(incident_sessions, [status |-> "open", summary |-> summary])
    /\ version' = IF summary = 0 THEN version ELSE summary
    /\ UNCHANGED <<session_entries, session_roles, handoff>>

\* Any session of the tenant, a resolved one too.
AddWarRoomEntry(i, kind) ==
    /\ Cardinality(session_entries) < MaxEntry
    /\ session_entries' = session_entries \cup {[session |-> i, n |-> Cardinality(session_entries), kind |-> kind]}
    /\ UNCHANGED <<incident_sessions, session_roles, version, handoff>>

AssignWarRoomRole(i, who) ==
    /\ session_roles' = [session_roles EXCEPT ![i] = who]
    /\ UNCHANGED <<incident_sessions, session_entries, version, handoff>>

EntriesOf(i) == {e \in session_entries : e.session = i}

\* HandoffWarRoom: the three reads and the resolving UPDATE.
ReadSession(h, i) ==
    /\ handoff[h].pc = "idle"
    /\ handoff' = [handoff EXCEPT ![h] = [NoHandoff EXCEPT !.pc = "roles", !.session = i,
                     !.summary = incident_sessions[i].summary, !.due = EntriesOf(i)]]
    /\ UNCHANGED <<incident_sessions, session_entries, session_roles, version>>

\* warroomRoles, warroomEntries: a failed query is an empty answer.
ReadRoles(h, ok) ==
    /\ handoff[h].pc = "roles"
    /\ handoff' = [handoff EXCEPT ![h].pc = "entries",
                     ![h].roles = IF ok THEN session_roles[handoff[h].session] ELSE Unassigned]
    /\ UNCHANGED <<incident_sessions, session_entries, session_roles, version>>

\* Mutant: the action items are taken for the whole timeline.
ReadEntriesActions(h, ok) ==
    /\ handoff[h].pc = "entries"
    /\ handoff' = [handoff EXCEPT ![h].pc = "resolve",
                     ![h].entries = {e \in EntriesOf(handoff[h].session) : e.kind = "action"},
                     ![h].due = IF ok THEN @ ELSE {}]
    /\ UNCHANGED <<incident_sessions, session_entries, session_roles, version>>

ReadEntries(h, ok) ==
    /\ handoff[h].pc = "entries"
    /\ handoff' = [handoff EXCEPT ![h].pc = "resolve",
                     ![h].entries = IF ok THEN EntriesOf(handoff[h].session) ELSE {},
                     ![h].due = IF ok THEN @ ELSE {}]
    /\ UNCHANGED <<incident_sessions, session_entries, session_roles, version>>

\* Mutant: a session already resolved is resolved again.
ResolveAgain(h, ok) ==
    /\ handoff[h].pc = "resolve"
    /\ handoff' = [handoff EXCEPT ![h].pc = "done", ![h].won = ok]
    /\ incident_sessions' = IF ok THEN [incident_sessions EXCEPT ![handoff[h].session] =
                                          [status |-> "resolved", summary |-> handoff[h].summary]]
                            ELSE incident_sessions
    /\ UNCHANGED <<session_entries, session_roles, version>>

\* UPDATE ... WHERE status = 'open': a session resolved meanwhile is left as it
\* is, and the handoff is answered all the same.
Resolve(h, ok) ==
    LET i == handoff[h].session IN
    /\ handoff[h].pc = "resolve"
    /\ handoff' = [handoff EXCEPT ![h].pc = "done", ![h].won = ok /\ Open(i)]
    /\ incident_sessions' = IF ok /\ Open(i)
                            THEN [incident_sessions EXCEPT ![i] = [status |-> "resolved", summary |-> handoff[h].summary]]
                            ELSE incident_sessions
    /\ UNCHANGED <<session_entries, session_roles, version>>

\* The answer: action items are the entries of that kind.
BuildHandoff(h) ==
    [summary |-> handoff[h].summary, roles |-> handoff[h].roles, timeline |-> handoff[h].entries,
     actionItems |-> {e \in handoff[h].entries : e.kind = "action"}]

RoomNext ==
    \/ \E s \in {0} \cup (IF version < MaxVersion THEN {version + 1} ELSE {}) : Declare(s)
    \/ \E i \in Session : \/ \E k \in {"note", "action"} : AddWarRoomEntry(i, k)
                          \/ AssignWarRoomRole(i, "ann")
                          \/ \E h \in Responder : ReadSession(h, i)
    \/ \E h \in Responder, ok \in BOOLEAN : ReadRoles(h, ok) \/ ReadEntries(h, ok) \/ Resolve(h, ok)

RoomSpec == RoomInit /\ [][RoomNext]_roomVars

-----------------------------------------------------------------------------
(* Postmortems; an hour is one tick, published_at -1 is NULL *)

Severity == {"critical", "high", "medium", "low"}

ReportInit ==
    /\ hour = 0
    /\ postmortem = [exists |-> FALSE, status |-> "draft", created |-> 0, published_at |-> -1, linked |-> FALSE]
    /\ incident \in [severity : Severity, resolved : {FALSE}]
    /\ commitments = {} /\ feedback = {}

CreatePostmortem(linked) ==
    /\ ~postmortem.exists
    /\ postmortem' = [postmortem EXCEPT !.exists = TRUE, !.created = hour, !.linked = linked]
    /\ UNCHANGED <<hour, incident, commitments, feedback>>

\* COALESCE keeps what the PATCH leaves out; here it names the status.
UpdatePostmortem(status) ==
    /\ postmortem.exists
    /\ postmortem' = [postmortem EXCEPT !.status = status,
                        !.published_at = IF status = "published" /\ @ = -1 THEN hour ELSE @]
    /\ UNCHANGED <<hour, incident, commitments, feedback>>

\* The parent is looked up first; nothing deletes a postmortem.
CreateCommitment(status) ==
    /\ postmortem.exists
    /\ commitments' = commitments \cup {status}
    /\ UNCHANGED <<hour, postmortem, incident, feedback>>

SubmitIncidentFeedback(verdict) ==
    /\ feedback' = feedback \cup {verdict}
    /\ UNCHANGED <<hour, postmortem, incident, commitments>>

\* incident.go:83: each correlated signal writes the severity of the merged
\* confidence, by id: an engine held up since its upsert, to a resolved row too.
UpdateSeverity(s) ==
    /\ incident' = [incident EXCEPT !.severity = s]
    /\ UNCHANGED <<hour, postmortem, commitments, feedback>>

\* resolveOpenIncident; nothing opens the row again (the next signal inserts one).
IncidentResolves ==
    /\ incident' = [incident EXCEPT !.resolved = TRUE]
    /\ UNCHANGED <<hour, postmortem, commitments, feedback>>

HourPasses ==
    /\ hour < RoomTime /\ hour' = hour + 1
    /\ UNCHANGED <<postmortem, incident, commitments, feedback>>

reportTime == IF postmortem.published_at # -1 THEN postmortem.published_at ELSE postmortem.created

\* An incident that is not linked or cannot be read is the zero one.
postmortemLoadIncident(ok) ==
    IF postmortem.linked /\ ok THEN [found |-> TRUE, severity |-> incident.severity, resolved |-> incident.resolved]
    ELSE [found |-> FALSE, severity |-> NoSeverity, resolved |-> FALSE]

reportedWithinHours(inc) == IF ~inc.found \/ reportTime <= 0 THEN 0 ELSE reportTime

classifyType(severity) ==
    CASE severity = "critical" -> "critical_infrastructure_disruption"
      [] severity = "high" -> "service_disruption"
      [] severity = "medium" -> "service_degradation"
      [] OTHER -> "operational_anomaly"

reportStatus(inc) == IF ~inc.found THEN "under_investigation" ELSE IF inc.resolved THEN "resolved" ELSE "ongoing"

BuildCERTInExport(inc) ==
    [type |-> classifyType(inc.severity), hours |-> reportedWithinHours(inc), status |-> reportStatus(inc)]

ReportNext ==
    \/ \E linked \in BOOLEAN : CreatePostmortem(linked)
    \/ \E s \in {"draft", "published"} : UpdatePostmortem(s)
    \/ \E s \in {"open", "done"} : CreateCommitment(s)
    \/ \E v \in {"actionable", "noise"} : SubmitIncidentFeedback(v)
    \/ \E s \in Severity : UpdateSeverity(s)
    \/ IncidentResolves \/ HourPasses

ReportSpec == ReportInit /\ [][ReportNext]_reportVars

-----------------------------------------------------------------------------

\* DeclareIncidentWarRoom: an incident has one open session at most, whatever
\* handoffs of earlier sessions are still under way.
OneOpenSession == Cardinality({i \in Session : Open(i)}) <= 1

\* HandoffWarRoom, BuildHandoff: the timeline of an answered handoff has every
\* entry, and its action items every action, that was there when it began (unless reading it failed), whoever else was writing.
HandoffHasTimeline ==
    \A h \in Responder : handoff[h].pc \in {"resolve", "done"} =>
        /\ handoff[h].due \subseteq BuildHandoff(h).timeline
        /\ {e \in handoff[h].due : e.kind = "action"} \subseteq BuildHandoff(h).actionItems

\* HandoffWarRoom, Declare: a resolved session is never written again, by a
\* second handoff that was under way or by a new declaration.
ResolvedSessionIsFinal ==
    [][\A i \in Session : ~Open(i) => incident_sessions'[i] = incident_sessions[i]]_roomVars

\* The report as exported when its incident can be read.
Report == BuildCERTInExport(postmortemLoadIncident(TRUE))

\* UpdatePostmortem, BuildCERTInExport: once published, the report's hours from
\* detection to reporting never change, back to draft and published again
\* included, and an incident reported as resolved stays so.  Its type follows
\* the incident's severity, which the alerting engine goes on writing.
ReportedHoursFixed ==
    [][postmortem.published_at # -1 =>
         Report'.hours = Report.hours /\ (Report.status = "resolved" => Report'.status = "resolved")]_reportVars

\* warroom.go under concurrent declarations, entries and handoffs: one open
\* session, and handoffs that miss nothing that was there when they began.
RoomConsistent == OneOpenSession /\ HandoffHasTimeline

\* What is settled about an incident stays settled: a resolved war room, and the
\* hours and resolution of a published report.
SettledIsFinal == ResolvedSessionIsFinal /\ ReportedHoursFixed
=============================================================================
