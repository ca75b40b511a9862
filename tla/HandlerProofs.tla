--------------------------- MODULE HandlerProofs ---------------------------
(***************************************************************************)
(* Proofs about the stateful handlers beside the ingest path: erasure, the    *)
(* war room and the report, the copilot, the webhooks and the dead-letter     *)
(* queue.  Each is a specification of its own; they share no state.           *)
(***************************************************************************)
EXTENDS Erasure, IncidentRoom, Copilot, Webhooks, DeadLetters, FiniteSetTheorems, TLAPS

-----------------------------------------------------------------------------
(* Erasure *)

TableName == {SignalTable[n] : n \in 1..3}

ErasureTypeOK ==
    /\ erasure \in [pc : {"idle", "submit", "done"}, by : Request, at : 1..4]
    /\ refused \in [schema : SUBSET TableName, fault : SUBSET TableName]
    /\ stored \cup streamed \subseteq Record

\* Before the request nothing is deleted, and its row follows its handler.
RowFollowsHandler ==
    /\ erasure.pc = "idle" => erasure.at = 1 /\ mutations = {} /\ erasure_row = "none" /\ Record \subseteq stored \cup streamed
    /\ erasure.pc = "submit" => erasure_row = "pending"
    /\ erasure_row = "completed" => erasure.at = 4 /\ refused.schema \cup refused.fault = {}

\* What was stored when the request was registered is not stored again.
StreamedIsNew ==
    /\ streamed \cap stored = {} /\ streamed \cap storedBefore = {}
    /\ erasure.pc = "idle" => storedBefore = {}

\* A record that is asked for, was stored when the request was registered and is
\* still there, leaves by a mutation once that of its table was submitted.
AskedIsDue ==
    \A r \in storedBefore \cap stored : \A n \in 1..3 :
        Asked(r) /\ r.table = SignalTable[n] /\ n < erasure.at =>
            r.table \in refused.schema \cup refused.fault \/ \E m \in mutations : r \in m.rows

\* Mutations delete nothing else.
MutationsAsked == \A m \in mutations : \A r \in m.rows : Asked(r)

ErasureInv ==
    ErasureTypeOK /\ RowFollowsHandler /\ StreamedIsNew /\ AskedIsDue /\ MutationsAsked /\ ErasesOnlyAsked

LEMMA ErasureInitInv == ErasureInit => ErasureInv
<1> SUFFICES ASSUME ErasureInit PROVE ErasureInv
  OBVIOUS
<1>1. ErasureTypeOK
  <2>1. [user |-> NoUser, from |-> 0, until |-> 0] \in Request
    BY DEF Request
  <2> QED
    BY <2>1 DEF ErasureInit, ErasureTypeOK
<1>2. RowFollowsHandler /\ StreamedIsNew /\ AskedIsDue /\ MutationsAsked /\ ErasesOnlyAsked
  BY DEF ErasureInit, RowFollowsHandler, StreamedIsNew, AskedIsDue, MutationsAsked, ErasesOnlyAsked
<1> QED
  BY <1>1, <1>2 DEF ErasureInv

\* The tables are told apart.
LEMMA Tables ==
    /\ Len(SignalTable) = 3
    /\ \A m, n \in 1..3 : SignalTable[m] = SignalTable[n] => m = n
<1>1. Len(SignalTable) = 3
  BY DEF SignalTable
<1>2. SignalTable[1] = "logs" /\ SignalTable[2] = "traces" /\ SignalTable[3] = "metrics"
  BY DEF SignalTable
<1>3. \A n \in 1..3 : n = 1 \/ n = 2 \/ n = 3
  OBVIOUS
<1>4. "logs" # "traces" /\ "logs" # "metrics" /\ "traces" # "metrics"
  OBVIOUS
<1>5. \A m, n \in 1..3 : SignalTable[m] = SignalTable[n] => m = n
  <2> SUFFICES ASSUME NEW m \in 1..3, NEW n \in 1..3, SignalTable[m] = SignalTable[n] PROVE m = n
    OBVIOUS
  <2>1. CASE m = 1
    BY <2>1, <1>2, <1>3, <1>4, Zenon
  <2>2. CASE m = 2
    BY <2>2, <1>2, <1>3, <1>4, Zenon
  <2>3. CASE m = 3
    BY <2>3, <1>2, <1>3, <1>4, Zenon
  <2> QED
    BY <1>3, <2>1, <2>2, <2>3
<1> QED
  BY <1>1, <1>5

\* Registering: nothing has been deleted or submitted yet.
LEMMA RegisterKeeps ==
    ASSUME ErasureInv, NEW by \in Request, NEW ok \in BOOLEAN, Register(by, ok)
    PROVE  ErasureInv'
<1>t. ErasureTypeOK /\ erasure.pc = "idle" /\ mutations = {} /\ Record \subseteq stored \cup streamed
  BY DEF ErasureInv, RowFollowsHandler, Register
<1>1. /\ erasure' = [erasure EXCEPT !.pc = IF ok THEN "submit" ELSE "done", !.by = by]
      /\ erasure_row' = IF ok THEN "pending" ELSE "none"
      /\ storedBefore' = stored
      /\ UNCHANGED <<stored, streamed, mutations, refused>>
  BY DEF Register
<1>2. erasure'.pc # "idle" /\ erasure'.at = erasure.at /\ (erasure'.pc = "submit" <=> ok)
  BY <1>1, <1>t DEF ErasureTypeOK
<1>3. ErasureTypeOK'
  BY <1>1, <1>t DEF ErasureTypeOK
<1>4. RowFollowsHandler'
  BY <1>1, <1>2 DEF RowFollowsHandler
<1>5. StreamedIsNew'
  BY <1>1, <1>2 DEF StreamedIsNew, ErasureInv
<1>6. MutationsAsked' /\ ErasesOnlyAsked'
  BY <1>1, <1>t DEF MutationsAsked, ErasesOnlyAsked
<1>7. AskedIsDue'
  <2>1. erasure'.at = 1
    BY <1>2, <1>t DEF ErasureInv, RowFollowsHandler
  <2>2. \A n \in 1..3 : ~(n < erasure'.at)
    BY <2>1
  <2> QED
    BY <2>2 DEF AskedIsDue
<1> QED
  BY <1>3, <1>4, <1>5, <1>6, <1>7 DEF ErasureInv

\* Submitting: the rows of the table that are asked for are due from here on.
LEMMA SubmitKeeps ==
    ASSUME ErasureInv, NEW ok \in BOOLEAN, NEW took \in BOOLEAN, Submit(ok, took)
    PROVE  ErasureInv'
<1> DEFINE at == erasure.at
           t == SignalTable[at]
           known == Known(t, erasure.by)
           new == [table |-> t, rows |-> predRows(t, erasure.by)]
<1>t. ErasureTypeOK /\ erasure.pc = "submit" /\ at \in 1..3 /\ t \in TableName
  <2>1. at \in 1..4 /\ at <= 3
    BY Tables DEF ErasureInv, ErasureTypeOK, Submit
  <2> QED
    BY <2>1 DEF ErasureInv, Submit, TableName
<1>1. /\ (ok => took) /\ mutations' = IF took /\ known THEN mutations \cup {new} ELSE mutations
      /\ refused' = [schema |-> refused.schema \cup IF known THEN {} ELSE {t},
                     fault |-> refused.fault \cup IF ok THEN {} ELSE {t}]
      /\ erasure' = [erasure EXCEPT !.at = @ + 1]
      /\ UNCHANGED <<stored, streamed, erasure_row, storedBefore>>
  BY DEF Submit, Exec
<1>2. erasure'.pc = "submit" /\ erasure'.at = at + 1 /\ erasure'.by = erasure.by
  BY <1>1, <1>t DEF ErasureTypeOK
<1>3. refused.schema \subseteq refused'.schema /\ refused.fault \subseteq refused'.fault
  BY <1>1
<1>4. ErasureTypeOK'
  <2>1. refused' \in [schema : SUBSET TableName, fault : SUBSET TableName]
    BY <1>1, <1>t DEF ErasureTypeOK
  <2> QED
    BY <1>1, <1>t, <2>1 DEF ErasureTypeOK
<1>5. RowFollowsHandler'
  BY <1>1, <1>2, <1>t DEF RowFollowsHandler, ErasureInv
<1>6. StreamedIsNew'
  BY <1>1, <1>2 DEF StreamedIsNew, ErasureInv
<1>7. \A r : Asked(r)' <=> Asked(r)
  BY <1>2 DEF Asked
<1>8. MutationsAsked'
  BY <1>1, <1>7 DEF MutationsAsked, ErasureInv, predRows, Asked
<1>9. AskedIsDue'
  <2> SUFFICES ASSUME NEW r \in storedBefore \cap stored, NEW n \in 1..3,
                      Asked(r), r.table = SignalTable[n], n < at + 1
               PROVE  r.table \in refused'.schema \cup refused'.fault \/ \E m \in mutations' : r \in m.rows
    BY <1>1, <1>2, <1>7 DEF AskedIsDue
  <2>1. CASE n < at
    <3>1. r.table \in refused.schema \cup refused.fault \/ \E m \in mutations : r \in m.rows
      BY <2>1 DEF AskedIsDue, ErasureInv
    <3> QED
      BY <3>1, <1>1, <1>3
  <2>2. CASE n = at
    <3>1. r \in new.rows
      BY <2>2 DEF predRows, Asked
    <3>2. CASE ok /\ known
      BY <3>1, <3>2, <1>1
    <3>3. CASE ~(ok /\ known)
      BY <3>3, <2>2, <1>1
    <3> QED
      BY <3>2, <3>3
  <2> QED
    BY <1>t, <2>1, <2>2
<1>10. ErasesOnlyAsked'
  BY <1>1, <1>7 DEF ErasesOnlyAsked, ErasureInv
<1> QED
  BY <1>4, <1>5, <1>6, <1>8, <1>9, <1>10 DEF ErasureInv

\* The receipt changes the row only.
LEMMA ReceiptKeeps ==
    ASSUME ErasureInv, NEW ok \in BOOLEAN, WriteReceipt(ok)
    PROVE  ErasureInv'
<1>t. ErasureTypeOK /\ erasure.pc = "submit" /\ erasure.at = 4
  <2>1. erasure.at \in 1..4 /\ erasure.at > 3
    BY Tables DEF ErasureInv, ErasureTypeOK, WriteReceipt
  <2> QED
    BY <2>1 DEF ErasureInv, WriteReceipt
<1>1. /\ erasure_row' = "completed" => refused.schema \cup refused.fault = {}
      /\ erasure' = [erasure EXCEPT !.pc = "done"]
      /\ UNCHANGED <<stored, streamed, mutations, storedBefore, refused>>
  BY <1>t DEF WriteReceipt, ErasureInv, RowFollowsHandler
<1>2. erasure'.pc = "done" /\ erasure'.at = erasure.at /\ erasure'.by = erasure.by
  BY <1>1, <1>t DEF ErasureTypeOK
<1>3. ErasureTypeOK'
  BY <1>1, <1>t DEF ErasureTypeOK
<1>4. RowFollowsHandler' /\ StreamedIsNew'
  BY <1>1, <1>2, <1>t DEF RowFollowsHandler, StreamedIsNew, ErasureInv
<1>5. \A r : Asked(r)' <=> Asked(r)
  BY <1>2 DEF Asked
<1>6. AskedIsDue' /\ MutationsAsked' /\ ErasesOnlyAsked'
  BY <1>1, <1>2, <1>5 DEF AskedIsDue, MutationsAsked, ErasesOnlyAsked, ErasureInv
<1> QED
  BY <1>3, <1>4, <1>6 DEF ErasureInv

\* ClickHouse and the writer change what is stored.
LEMMA StoreKeeps ==
    ASSUME ErasureInv, (\E m \in mutations : Mutate(m)) \/ (\E r \in streamed : StoreRecord(r))
    PROVE  ErasureInv'
<1>u. UNCHANGED <<erasure, erasure_row, storedBefore, refused>>
  BY DEF Mutate, StoreRecord
<1>a. \A r : Asked(r)' <=> Asked(r)
  BY <1>u DEF Asked
<1>1. ASSUME NEW m \in mutations, Mutate(m) PROVE ErasureInv'
  <2>1. stored' = stored \ m.rows /\ mutations' = mutations \ {m} /\ UNCHANGED streamed
    BY <1>1 DEF Mutate
  <2>2. ErasureTypeOK' /\ StreamedIsNew' /\ MutationsAsked'
    BY <1>u, <1>a, <2>1 DEF ErasureInv, ErasureTypeOK, StreamedIsNew, MutationsAsked
  <2>3. RowFollowsHandler'
    BY <1>u, <2>1 DEF ErasureInv, RowFollowsHandler
  <2>4. AskedIsDue'
    BY <1>u, <1>a, <2>1 DEF ErasureInv, AskedIsDue
  <2>5. ErasesOnlyAsked'
    BY <1>u, <1>a, <2>1 DEF ErasureInv, ErasesOnlyAsked, MutationsAsked
  <2> QED
    BY <2>2, <2>3, <2>4, <2>5 DEF ErasureInv
<1>2. ASSUME NEW r \in streamed, StoreRecord(r) PROVE ErasureInv'
  <2>1. stored' = stored \cup {r} /\ streamed' = streamed \ {r} /\ UNCHANGED mutations
    BY <1>2 DEF StoreRecord
  <2>2. ErasureTypeOK' /\ StreamedIsNew' /\ MutationsAsked'
    BY <1>u, <1>a, <2>1 DEF ErasureInv, ErasureTypeOK, StreamedIsNew, MutationsAsked
  <2>3. RowFollowsHandler'
    BY <1>u, <2>1 DEF ErasureInv, RowFollowsHandler
  <2>4. AskedIsDue'
    BY <1>u, <1>a, <2>1 DEF ErasureInv, AskedIsDue, StreamedIsNew
  <2>5. ErasesOnlyAsked'
    BY <1>u, <1>a, <2>1 DEF ErasureInv, ErasesOnlyAsked
  <2> QED
    BY <2>2, <2>3, <2>4, <2>5 DEF ErasureInv
<1> QED
  BY <1>1, <1>2

\* CreateErasure: a completed request whose mutations have been applied left no
\* record that was stored when it was registered and that it asks for, in any
\* table, and nothing else is ever deleted, whatever is asked for, by whom, and
\* whichever statements fail.
THEOREM ErasureIsExact == ErasureSpec => []ErasureExact
<1>1. ErasureInit => ErasureInv
  BY ErasureInitInv
<1>2. ErasureInv /\ [ErasureNext]_erasureVars => ErasureInv'
  <2> SUFFICES ASSUME ErasureInv, [ErasureNext]_erasureVars PROVE ErasureInv'
    OBVIOUS
  <2>1. CASE ErasureNext
    BY <2>1, RegisterKeeps, SubmitKeeps, ReceiptKeeps, StoreKeeps DEF ErasureNext
  <2>2. CASE UNCHANGED erasureVars
    BY <2>2 DEF erasureVars, ErasureInv, ErasureTypeOK, RowFollowsHandler, StreamedIsNew, AskedIsDue,
       MutationsAsked, ErasesOnlyAsked, Asked
  <2> QED
    BY <2>1, <2>2
<1>3. ErasureInv => ErasureExact
  <2> SUFFICES ASSUME ErasureInv, erasure_row = "completed", mutations = {},
                      NEW r \in storedBefore \cap stored, Asked(r)
               PROVE  FALSE
    BY DEF ErasureExact, CompletedErases, ErasureInv
  <2>1. PICK n \in 1..3 : r.table = SignalTable[n]
    BY RecordAssumption DEF ErasureInv, ErasureTypeOK
  <2>2. erasure.at = 4 /\ refused.schema \cup refused.fault = {}
    BY DEF ErasureInv, RowFollowsHandler
  <2>3. n < erasure.at
    BY <2>2
  <2> QED
    BY <2>1, <2>2, <2>3 DEF ErasureInv, AskedIsDue
<1> QED
  BY <1>1, <1>2, <1>3, PTL DEF ErasureSpec

-----------------------------------------------------------------------------
(* The war room *)

SessionRow == [status : {"open", "resolved"}, summary : Nat]
Entry == [session : Nat, n : Nat, kind : {"note", "action"}]
Assignee == {Unassigned, "ann"}
Handoff == [pc : {"idle", "roles", "entries", "resolve", "done"}, session : Nat, summary : Nat, roles : Assignee,
            entries : SUBSET Entry, due : SUBSET Entry, won : BOOLEAN]

RoomTypeOK ==
    /\ incident_sessions \in Seq(SessionRow) /\ Len(incident_sessions) <= MaxSession
    /\ session_entries \in SUBSET Entry /\ IsFiniteSet(session_entries)
    /\ session_roles \in [1..MaxSession -> Assignee]
    /\ version \in Nat
    /\ handoff \in [Responder -> Handoff]

\* Two open sessions are the same one.
OpenIsUnique == \A i, j \in Session : Open(i) /\ Open(j) => i = j

\* A handoff under way is one of a session that was declared, and what it owes
\* is among its entries, which are only added to.
HandoffUnderWay ==
    \A h \in Responder : handoff[h].pc \in {"roles", "entries"} =>
        handoff[h].session \in Session /\ handoff[h].due \subseteq EntriesOf(handoff[h].session)

RoomInv == RoomTypeOK /\ OpenIsUnique /\ HandoffUnderWay /\ HandoffHasTimeline

LEMMA RoomInitInv == RoomInit => RoomInv
<1> SUFFICES ASSUME RoomInit PROVE RoomInv
  OBVIOUS
<1>1. RoomTypeOK
  <2>1. NoHandoff \in Handoff
    BY DEF NoHandoff, Handoff, Assignee
  <2>2. IsFiniteSet({})
    BY FS_EmptySet
  <2>3. Unassigned \in Assignee
    BY DEF Assignee
  <2> QED
    BY <2>1, <2>2, <2>3, RoomAssumption DEF RoomInit, RoomTypeOK
<1>2. OpenIsUnique
  BY DEF RoomInit, OpenIsUnique, Session
<1>3. HandoffUnderWay /\ HandoffHasTimeline
  BY DEF RoomInit, HandoffUnderWay, HandoffHasTimeline, NoHandoff
<1> QED
  BY <1>1, <1>2, <1>3 DEF RoomInv

\* Sessions are only added, and only an open one is changed.
LEMMA SessionsMove ==
    ASSUME RoomInv, RoomNext
    PROVE  /\ incident_sessions' \in Seq(SessionRow) /\ Len(incident_sessions') <= MaxSession
           /\ version' \in Nat
           /\ Len(incident_sessions) <= Len(incident_sessions')
           /\ \A i \in Session : ~Open(i) => incident_sessions'[i] = incident_sessions[i]
           /\ OpenIsUnique'
<1> DEFINE S == incident_sessions
           n == Len(S)
<1>t. S \in Seq(SessionRow) /\ n \in Nat /\ n <= MaxSession /\ version \in Nat /\ OpenIsUnique
      /\ Session = 1..n /\ handoff \in [Responder -> Handoff]
  BY DEF RoomInv, RoomTypeOK, Session
<1>1. CASE UNCHANGED <<incident_sessions, version>>
  BY <1>1, <1>t DEF OpenIsUnique, Session, Open
<1>2. ASSUME NEW s \in Nat, Declare(s), \E i \in Session : Open(i)
      PROVE  /\ S' \in Seq(SessionRow) /\ Len(S') = n /\ version' \in Nat
             /\ \A i \in Session : ~Open(i) => S'[i] = S[i]
             /\ \A i \in 1..n : S'[i].status = S[i].status
  <2>1. S' = [i \in 1..n |-> IF Open(i) /\ s # 0 THEN [S[i] EXCEPT !.summary = s] ELSE S[i]]
    BY <1>2, <1>t DEF Declare
  <2>2. \A i \in 1..n : S[i] \in SessionRow
    BY <1>t
  <2>3. \A r \in SessionRow : [r EXCEPT !.summary = s] \in SessionRow /\ [r EXCEPT !.summary = s].status = r.status
    BY DEF SessionRow
  <2>4. \A i \in 1..n : S'[i] \in SessionRow /\ S'[i].status = S[i].status
    BY <2>1, <2>2, <2>3
  <2>5. S' \in Seq(SessionRow) /\ Len(S') = n
    <3>1. S' \in [1..n -> SessionRow]
      BY <2>1, <2>4
    <3> QED
      BY <3>1, <1>t
  <2>6. version' \in Nat
    BY <1>2, <1>t DEF Declare
  <2> QED
    BY <1>t, <2>1, <2>4, <2>5, <2>6
<1>3. ASSUME NEW s \in Nat, Declare(s), ~\E i \in Session : Open(i)
      PROVE  /\ S' \in Seq(SessionRow) /\ Len(S') = n + 1 /\ n + 1 <= MaxSession /\ version' \in Nat
             /\ \A i \in 1..n : S'[i] = S[i]
  <2>1. S' = Append(S, [status |-> "open", summary |-> s]) /\ n < MaxSession
    BY <1>3 DEF Declare
  <2>2. [status |-> "open", summary |-> s] \in SessionRow
    BY DEF SessionRow
  <2>3. version' \in Nat
    BY <1>3, <1>t DEF Declare
  <2> QED
    BY <1>t, <2>1, <2>2, <2>3, RoomAssumption
<1>4. ASSUME NEW h \in Responder, NEW ok \in BOOLEAN, Resolve(h, ok), ~UNCHANGED incident_sessions
      PROVE  LET i == handoff[h].session IN
             /\ S' = [S EXCEPT ![i] = [status |-> "resolved", summary |-> handoff[h].summary]] /\ Open(i)
             /\ UNCHANGED version /\ handoff[h].summary \in Nat
  BY <1>4, <1>t DEF Resolve, Handoff
<1>5. CASE \E s \in Nat : Declare(s) /\ \E i \in Session : Open(i)
  BY <1>2, <1>5, <1>t DEF OpenIsUnique, Session, Open
<1>6. CASE \E s \in Nat : Declare(s) /\ ~\E i \in Session : Open(i)
  BY <1>3, <1>6, <1>t DEF OpenIsUnique, Session, Open
<1>7. CASE \E h \in Responder, ok \in BOOLEAN : Resolve(h, ok) /\ ~UNCHANGED incident_sessions
  <2>1. PICK i \in Nat, v \in SessionRow :
          S' = [S EXCEPT ![i] = v] /\ Open(i) /\ v.status = "resolved" /\ UNCHANGED version
    <3>1. PICK h \in Responder, ok \in BOOLEAN : Resolve(h, ok) /\ ~UNCHANGED incident_sessions
      BY <1>7
    <3> DEFINE v == [status |-> "resolved", summary |-> handoff[h].summary]
    <3>2. v \in SessionRow /\ v.status = "resolved" /\ handoff[h].session \in Nat
      BY <1>t DEF Handoff, SessionRow
    <3> QED
      BY <1>4, <3>1, <3>2
  <2>2. S \in [1..n -> SessionRow]
    BY <1>t
  <2>3. S' \in [1..n -> SessionRow] /\ \A j \in 1..n : S'[j] = IF j = i THEN v ELSE S[j]
    BY <2>1, <2>2
  <2>4. S' \in Seq(SessionRow) /\ Len(S') = n
    BY <1>t, <2>3
  <2>5. \A j \in 1..n : S'[j].status = "open" => S[j].status = "open"
    BY <2>1, <2>3
  <2>6. OpenIsUnique'
    BY <1>t, <2>4, <2>5 DEF OpenIsUnique, Session, Open
  <2>7. \A j \in 1..n : ~Open(j) => S'[j] = S[j]
    BY <2>1, <2>3
  <2> QED
    BY <1>t, <2>1, <2>4, <2>6, <2>7
<1>8. \/ UNCHANGED <<incident_sessions, version>>
      \/ \E s \in Nat : Declare(s)
      \/ \E h \in Responder, ok \in BOOLEAN : Resolve(h, ok)
  <2>1. \A s \in {0} \cup (IF version < MaxVersion THEN {version + 1} ELSE {}) : s \in Nat
    BY <1>t
  <2> QED
    BY <2>1 DEF RoomNext, AddWarRoomEntry, AssignWarRoomRole, ReadSession, ReadRoles, ReadEntries
<1>9. \A h \in Responder, ok \in BOOLEAN : Resolve(h, ok) => UNCHANGED version
  BY DEF Resolve
<1> QED
  BY <1>1, <1>5, <1>6, <1>7, <1>8, <1>9

\* Entries are only added, and with what they need to be entries.
LEMMA EntriesMove ==
    ASSUME RoomInv, RoomNext
    PROVE  /\ session_entries' \in SUBSET Entry /\ IsFiniteSet(session_entries')
           /\ session_roles' \in [1..MaxSession -> Assignee]
           /\ session_entries \subseteq session_entries'
<1>t. /\ session_entries \in SUBSET Entry /\ IsFiniteSet(session_entries)
      /\ session_roles \in [1..MaxSession -> Assignee]
      /\ Len(incident_sessions) \in Nat /\ Len(incident_sessions) <= MaxSession
  BY DEF RoomInv, RoomTypeOK
<1>1. ASSUME NEW i \in Session, NEW k \in {"note", "action"}, AddWarRoomEntry(i, k)
      PROVE  /\ session_entries' \in SUBSET Entry /\ IsFiniteSet(session_entries')
             /\ session_entries \subseteq session_entries'
             /\ UNCHANGED session_roles
  <2> DEFINE e == [session |-> i, n |-> Cardinality(session_entries), kind |-> k]
  <2>1. Cardinality(session_entries) \in Nat
    BY <1>t, FS_CardinalityType
  <2>2. e \in Entry
    BY <1>t, <2>1 DEF Entry, Session
  <2>3. session_entries' = session_entries \cup {e} /\ UNCHANGED session_roles
    BY <1>1 DEF AddWarRoomEntry
  <2>4. IsFiniteSet(session_entries \cup {e})
    BY <1>t, FS_AddElement
  <2> QED
    BY <1>t, <2>2, <2>3, <2>4
<1>2. ASSUME NEW i \in Session, AssignWarRoomRole(i, "ann")
      PROVE  session_roles' \in [1..MaxSession -> Assignee] /\ UNCHANGED session_entries
  <2>1. "ann" \in Assignee
    BY DEF Assignee
  <2>2. session_roles' = [session_roles EXCEPT ![i] = "ann"] /\ UNCHANGED session_entries
    BY <1>2 DEF AssignWarRoomRole
  <2> QED
    BY <1>t, <2>1, <2>2
<1>3. \/ \E i \in Session, k \in {"note", "action"} : AddWarRoomEntry(i, k)
      \/ \E i \in Session : AssignWarRoomRole(i, "ann")
      \/ UNCHANGED <<session_entries, session_roles>>
  BY DEF RoomNext, Declare, ReadSession, ReadRoles, ReadEntries, Resolve
<1> QED
  BY <1>1, <1>2, <1>3, <1>t

\* What a handoff owes it has, from its first read to its answer.
LEMMA HandoffsMove ==
    ASSUME RoomInv, RoomNext
    PROVE  handoff' \in [Responder -> Handoff] /\ HandoffUnderWay' /\ HandoffHasTimeline'
<1> DEFINE Owes(q) ==
             /\ q \in Handoff
             /\ q.pc \in {"roles", "entries"} =>
                  q.session \in Session /\ q.due \subseteq EntriesOf(q.session)
             /\ q.pc \in {"resolve", "done"} => q.due \subseteq q.entries
<1>t. /\ handoff \in [Responder -> Handoff] /\ Len(incident_sessions) \in Nat /\ Session \subseteq 1..MaxSession
      /\ session_entries \subseteq Entry /\ session_roles \in [1..MaxSession -> Assignee]
      /\ \A i \in Session : incident_sessions[i].summary \in Nat
  <2>1. \A r \in SessionRow : r.summary \in Nat
    BY DEF SessionRow
  <2>2. \A i \in Session : incident_sessions[i] \in SessionRow
    BY DEF RoomInv, RoomTypeOK, Session
  <2>3. Session \subseteq 1..MaxSession
    BY RoomAssumption DEF RoomInv, RoomTypeOK, Session
  <2> QED
    BY <2>1, <2>2, <2>3 DEF RoomInv, RoomTypeOK
<1>o. \A h \in Responder : Owes(handoff[h])
  BY <1>t DEF RoomInv, HandoffUnderWay, HandoffHasTimeline, BuildHandoff
<1>s. /\ Session \subseteq Session' /\ \A i : EntriesOf(i) \subseteq EntriesOf(i)'
  <2>1. Len(incident_sessions) <= Len(incident_sessions') /\ Len(incident_sessions') \in Nat
    BY SessionsMove
  <2> QED
    BY <1>t, <2>1, EntriesMove DEF Session, EntriesOf
<1>1. ASSUME NEW h \in Responder, NEW i \in Session, ReadSession(h, i)
      PROVE  \E q : Owes(q) /\ handoff' = [handoff EXCEPT ![h] = q]
  <2> DEFINE q == [NoHandoff EXCEPT !.pc = "roles", !.session = i, !.summary = incident_sessions[i].summary,
                                    !.due = EntriesOf(i)]
  <2>1. EntriesOf(i) \subseteq Entry
    BY <1>t DEF EntriesOf
  <2>2. i \in Nat
    BY <1>t
  <2>3. NoHandoff \in Handoff
    BY DEF NoHandoff, Handoff, Assignee
  <2>4. q \in Handoff
    BY <1>t, <2>1, <2>2, <2>3 DEF Handoff
  <2>5. q.pc = "roles" /\ q.session = i /\ q.due = EntriesOf(i)
    BY <2>3 DEF Handoff
  <2> QED
    BY <1>1, <2>4, <2>5 DEF ReadSession
<1>2. ASSUME NEW h \in Responder, NEW ok \in BOOLEAN, ReadRoles(h, ok)
      PROVE  \E q : Owes(q) /\ handoff' = [handoff EXCEPT ![h] = q]
  <2> DEFINE p == handoff[h]
             role == IF ok THEN session_roles[p.session] ELSE Unassigned
             q == [p EXCEPT !.pc = "entries", !.roles = role]
  <2>1. p \in Handoff /\ p.pc = "roles" /\ p.session \in Session /\ p.due \subseteq EntriesOf(p.session)
    BY <1>2, <1>o DEF ReadRoles
  <2>2. role \in Assignee
    BY <1>t, <2>1 DEF Assignee
  <2>3. handoff' = [handoff EXCEPT ![h] = q]
    BY <1>2 DEF ReadRoles
  <2>4. q \in Handoff /\ q.pc = "entries" /\ q.session = p.session /\ q.due = p.due
    <3> HIDE DEF p, role
    <3> QED
      BY <2>1, <2>2 DEF Handoff
  <2> QED
    BY <2>1, <2>3, <2>4
<1>3. ASSUME NEW h \in Responder, NEW ok \in BOOLEAN, ReadEntries(h, ok)
      PROVE  \E q : Owes(q) /\ handoff' = [handoff EXCEPT ![h] = q]
  <2> DEFINE p == handoff[h]
             es == IF ok THEN EntriesOf(p.session) ELSE {}
             du == IF ok THEN p.due ELSE {}
             q == [p EXCEPT !.pc = "resolve", !.entries = es, !.due = du]
  <2>1. p \in Handoff /\ p.pc = "entries" /\ p.due \subseteq EntriesOf(p.session)
    BY <1>3, <1>o DEF ReadEntries
  <2>2. es \in SUBSET Entry /\ du \in SUBSET Entry /\ du \subseteq es
    BY <1>t, <2>1 DEF EntriesOf, Handoff
  <2>3. handoff' = [handoff EXCEPT ![h] = q]
    BY <1>3 DEF ReadEntries
  <2>4. q \in Handoff /\ q.pc = "resolve" /\ q.entries = es /\ q.due = du
    <3> HIDE DEF p, es, du
    <3> QED
      BY <2>1, <2>2 DEF Handoff
  <2> QED
    BY <2>2, <2>3, <2>4
<1>4. ASSUME NEW h \in Responder, NEW ok \in BOOLEAN, Resolve(h, ok)
      PROVE  \E q : Owes(q) /\ handoff' = [handoff EXCEPT ![h] = q]
  <2> DEFINE p == handoff[h]
             w == (ok /\ Open(p.session))
             q == [p EXCEPT !.pc = "done", !.won = w]
  <2>1. p \in Handoff /\ p.pc = "resolve" /\ p.due \subseteq p.entries
    BY <1>4, <1>o DEF Resolve
  <2>2. w \in BOOLEAN
    OBVIOUS
  <2>3. handoff' = [handoff EXCEPT ![h] = q]
    BY <1>4 DEF Resolve
  <2>4. q \in Handoff /\ q.pc = "done" /\ q.entries = p.entries /\ q.due = p.due
    <3> HIDE DEF p, w
    <3> QED
      BY <2>1, <2>2 DEF Handoff
  <2> QED
    BY <2>1, <2>3, <2>4
<1>5. \/ UNCHANGED handoff
      \/ \E h \in Responder : \E q : Owes(q) /\ handoff' = [handoff EXCEPT ![h] = q]
  <2>1. \/ UNCHANGED handoff
        \/ \E h \in Responder, i \in Session : ReadSession(h, i)
        \/ \E h \in Responder, ok \in BOOLEAN : ReadRoles(h, ok) \/ ReadEntries(h, ok) \/ Resolve(h, ok)
    BY DEF RoomNext, Declare, AddWarRoomEntry, AssignWarRoomRole
  <2> HIDE DEF Owes
  <2> QED
    BY <1>1, <1>2, <1>3, <1>4, <2>1
<1>6. handoff' \in [Responder -> Handoff] /\ \A h \in Responder : Owes(handoff'[h])
  <2>1. \A q : Owes(q) => q \in Handoff
    OBVIOUS
  <2> HIDE DEF Owes
  <2> QED
    BY <1>5, <1>o, <1>t, <2>1
<1>7. HandoffUnderWay'
  BY <1>6, <1>s DEF HandoffUnderWay
<1>8. HandoffHasTimeline'
  BY <1>6 DEF HandoffHasTimeline, BuildHandoff
<1> QED
  BY <1>6, <1>7, <1>8

\* An open session that is the only one is a set of one element.
LEMMA OneOpen == OpenIsUnique => OneOpenSession
<1> SUFFICES ASSUME OpenIsUnique PROVE Cardinality({i \in Session : Open(i)}) <= 1
  BY DEF OneOpenSession
<1>1. CASE ~\E i \in Session : Open(i)
  <2>1. {i \in Session : Open(i)} = {}
    BY <1>1
  <2> QED
    BY <2>1, FS_EmptySet
<1>2. ASSUME NEW i \in Session, Open(i) PROVE Cardinality({j \in Session : Open(j)}) <= 1
  <2>1. {j \in Session : Open(j)} = {i}
    BY <1>2 DEF OpenIsUnique
  <2> QED
    BY <2>1, FS_Singleton
<1> QED
  BY <1>1, <1>2

\* DeclareIncidentWarRoom, HandoffWarRoom: the war room's inductive invariant,
\* for any number of responders, sessions and entries.
THEOREM RoomInvariance == RoomSpec => []RoomInv
<1>1. RoomInit => RoomInv
  BY RoomInitInv
<1>2. RoomInv /\ [RoomNext]_roomVars => RoomInv'
  <2> SUFFICES ASSUME RoomInv, [RoomNext]_roomVars PROVE RoomInv'
    OBVIOUS
  <2>1. CASE RoomNext
    BY <2>1, SessionsMove, EntriesMove, HandoffsMove DEF RoomInv, RoomTypeOK
  <2>2. CASE UNCHANGED roomVars
    BY <2>2 DEF roomVars, RoomInv, RoomTypeOK, OpenIsUnique, HandoffUnderWay, HandoffHasTimeline, BuildHandoff,
       EntriesOf, Session, Open
  <2> QED
    BY <2>1, <2>2
<1> QED
  BY <1>1, <1>2, PTL DEF RoomSpec

\* warroom.go: one open session per incident and handoffs that miss nothing
\* that was there when they began, however many responders declare, write and
\* hand off at once.
THEOREM RoomIsConsistent == RoomSpec => []RoomConsistent
<1>1. RoomInv => RoomConsistent
  BY OneOpen DEF RoomInv, RoomConsistent
<1> QED
  BY <1>1, RoomInvariance, PTL

-----------------------------------------------------------------------------
(* The report *)

Postmortem ==
    [exists : BOOLEAN, status : {"draft", "published"}, created : Nat, published_at : Int, linked : BOOLEAN]

ReportInv ==
    /\ hour \in Nat
    /\ postmortem \in Postmortem
    /\ ~postmortem.exists => postmortem.published_at = -1
    /\ incident \in [severity : Severity, resolved : BOOLEAN]

LEMMA ReportInvariance == ReportSpec => []ReportInv
<1>1. ReportInit => ReportInv
  <2> SUFFICES ASSUME ReportInit PROVE ReportInv
    OBVIOUS
  <2>1. postmortem \in Postmortem /\ postmortem.published_at = -1
    BY DEF ReportInit, Postmortem
  <2>2. incident \in [severity : Severity, resolved : BOOLEAN]
    BY DEF ReportInit
  <2> QED
    BY <2>1, <2>2 DEF ReportInit, ReportInv
<1>2. ReportInv /\ [ReportNext]_reportVars => ReportInv'
  <2> SUFFICES ASSUME ReportInv, [ReportNext]_reportVars PROVE ReportInv'
    OBVIOUS
  <2>1. ASSUME NEW linked \in BOOLEAN, CreatePostmortem(linked) PROVE ReportInv'
    <3> DEFINE p == [postmortem EXCEPT !.exists = TRUE, !.created = hour, !.linked = linked]
    <3>1. p \in Postmortem /\ p.exists
      BY DEF ReportInv, Postmortem
    <3> QED
      BY <2>1, <3>1 DEF CreatePostmortem, ReportInv
  <2>2. ASSUME NEW s \in {"draft", "published"}, UpdatePostmortem(s) PROVE ReportInv'
    <3> DEFINE at == IF s = "published" /\ postmortem.published_at = -1 THEN hour ELSE postmortem.published_at
               p == [postmortem EXCEPT !.status = s, !.published_at = at]
    <3>1. at \in Int
      BY DEF ReportInv, Postmortem
    <3>2. postmortem' = p /\ postmortem.exists /\ UNCHANGED <<hour, incident>>
      BY <2>2 DEF UpdatePostmortem
    <3>3. p \in Postmortem /\ p.exists = postmortem.exists
      <4> HIDE DEF at
      <4> QED
        BY <3>1 DEF ReportInv, Postmortem
    <3> QED
      BY <3>2, <3>3 DEF ReportInv
  <2>3. CASE IncidentResolves \/ HourPasses
    <3>1. CASE IncidentResolves
      BY <3>1 DEF IncidentResolves, ReportInv
    <3>2. CASE HourPasses
      BY <3>2 DEF HourPasses, ReportInv
    <3> QED
      BY <2>3, <3>1, <3>2
  <2>4. CASE UNCHANGED <<hour, postmortem, incident>>
    BY <2>4 DEF ReportInv
  <2>5. ASSUME NEW s \in Severity, UpdateSeverity(s) PROVE ReportInv'
    BY <2>5 DEF UpdateSeverity, ReportInv
  <2> QED
    BY <2>1, <2>2, <2>3, <2>4, <2>5 DEF ReportNext, CreateCommitment, SubmitIncidentFeedback, reportVars
<1> QED
  BY <1>1, <1>2, PTL DEF ReportSpec

\* A published postmortem keeps its time, and the incident what the report
\* takes from it.
LEMMA PublishedKeeps ==
    ASSUME ReportInv, ReportNext, postmortem.published_at # -1
    PROVE  /\ postmortem'.published_at = postmortem.published_at /\ postmortem'.linked = postmortem.linked
           /\ incident.resolved => incident'.resolved
<1>1. ASSUME NEW s \in {"draft", "published"}, UpdatePostmortem(s)
      PROVE  /\ postmortem'.published_at = postmortem.published_at /\ postmortem'.linked = postmortem.linked
             /\ UNCHANGED incident
  BY <1>1 DEF UpdatePostmortem, ReportInv, Postmortem
<1>2. CASE IncidentResolves
  BY <1>2 DEF IncidentResolves, ReportInv
<1>3. \A linked \in BOOLEAN : ~CreatePostmortem(linked)
  BY DEF CreatePostmortem, ReportInv
<1>4. CASE UNCHANGED <<postmortem, incident>>
  BY <1>4
<1>5. ASSUME NEW s \in Severity, UpdateSeverity(s)
      PROVE  incident'.resolved = incident.resolved /\ UNCHANGED postmortem
  BY <1>5 DEF UpdateSeverity, ReportInv
<1> QED
  BY <1>1, <1>2, <1>3, <1>4, <1>5 DEF ReportNext, CreateCommitment, SubmitIncidentFeedback, HourPasses

LEMMA ReportHoursFixed == ReportSpec => ReportedHoursFixed
<1> DEFINE Fixed == postmortem.published_at # -1 =>
                      Report'.hours = Report.hours /\ (Report.status = "resolved" => Report'.status = "resolved")
<1>1. ReportInv /\ [ReportNext]_reportVars => [Fixed]_reportVars
  <2> SUFFICES ASSUME ReportInv, ReportNext, postmortem.published_at # -1
               PROVE  Report'.hours = Report.hours /\ (Report.status = "resolved" => Report'.status = "resolved")
    BY DEF Fixed
  <2>1. reportTime' = reportTime
    BY PublishedKeeps DEF reportTime
  <2> DEFINE inc == postmortemLoadIncident(TRUE)
  <2>2. inc'.found = inc.found /\ (inc.resolved => inc'.resolved)
    BY PublishedKeeps DEF postmortemLoadIncident
  <2>3. Report'.hours = Report.hours
    BY <2>1, <2>2 DEF Report, BuildCERTInExport, reportedWithinHours
  <2>5. Report.status = "resolved" => Report'.status = "resolved"
    BY <2>2 DEF Report, BuildCERTInExport, reportStatus
  <2> QED
    BY <2>3, <2>5
<1> QED
  BY <1>1, ReportInvariance, PTL DEF ReportSpec, ReportedHoursFixed, Fixed

\* HandoffWarRoom, UpdatePostmortem, BuildCERTInExport: a resolved war room and
\* the hours and resolution of a published report never change again.
THEOREM SettledStaysFinal == RoomSpec /\ ReportSpec => SettledIsFinal
<1> DEFINE Kept == \A i \in Session : ~Open(i) => incident_sessions'[i] = incident_sessions[i]
<1>1. RoomInv /\ [RoomNext]_roomVars => [Kept]_roomVars
  BY SessionsMove
<1>2. RoomSpec => ResolvedSessionIsFinal
  BY <1>1, RoomInvariance, PTL DEF RoomSpec, ResolvedSessionIsFinal, Kept
<1> QED
  BY <1>2, ReportHoursFixed, PTL DEF SettledIsFinal

-----------------------------------------------------------------------------
(* The copilot *)

TurnRow == [role : {"user", "assistant"}, by : Asker, masked : BOOLEAN]
Features == [exists : BOOLEAN, enabled : BOOLEAN, consent : BOOLEAN]
PutRow == [pc : {"idle", "read", "write", "done"}, enabled : Flag, consent : Flag, e : BOOLEAN, c : BOOLEAN]
AskRow == [pc : {"idle", "gate", "history", "user", "govern", "audit", "assistant", "done"},
           chat : BOOLEAN, gone : BOOLEAN, sawOn : BOOLEAN, prompt : Seq(TurnRow),
           llm : {"none", "ok", "error"}, lost : BOOLEAN, audited : BOOLEAN, faulted : BOOLEAN]

CopilotTypeOK ==
    /\ ai_features \in Features
    /\ put \in [Admin -> PutRow]
    /\ consentAsked \in BOOLEAN
    /\ copilot_messages \in Seq(TurnRow)
    /\ ask \in [Asker -> AskRow]
    /\ sent \in [Asker -> Seq(TurnRow)]

\* A PUT that asks for consent, or is about to write it, or has, was asked to.
ConsentFollows ==
    /\ ai_features.consent => consentAsked
    /\ \A a \in Admin : put[a].consent = "true" \/ put[a].c => consentAsked

\* The question of q ends the prompt p and is nowhere else in it.
OwnOnce(p, q) ==
    /\ Len(p) >= 1
    /\ \A i \in 1..Len(p) : (p[i].role = "user" /\ p[i].by = q) <=> i = Len(p)

\* No turn of q is in the conversation m before its question is stored there,
\* and then that is, unless it was lost.
StoredGood(r, q, m) ==
    /\ r.pc \in {"idle", "gate", "history", "user"} => \A i \in 1..Len(m) : m[i].by # q
    /\ r.pc \in {"govern", "audit", "assistant"} /\ r.chat => r.lost \/ \E i \in 1..Len(m) : m[i] = Turn("user", q)

\* What is known of the request r of q that was sent as s, with the conversation
\* m and the opt-in on: the opt-in was seen at the gate, the prompt is its own,
\* what was sent was masked and is audited.
GoodAsk(r, s, q, m, on) ==
    /\ r.pc \in {"idle", "gate", "history", "user", "govern"} => s = <<>>
    /\ r.pc = "gate" /\ on => r.sawOn
    /\ r.pc \in {"history", "user", "govern", "audit", "assistant"} => r.sawOn
    /\ r.pc \in {"user", "govern"} => OwnOnce(r.prompt, q)
    /\ s # <<>> => r.sawOn /\ OwnOnce(s, q) /\ \A i \in 1..Len(s) : s[i].masked
    /\ s # <<>> /\ r.pc \in {"assistant", "done"} => r.audited \/ r.faulted
    /\ r.pc = "assistant" => r.chat
    /\ r.pc \in {"idle", "gate", "history", "user"} => ~r.lost
    /\ StoredGood(r, q, m)

AsksGood == \A q \in Asker : GoodAsk(ask[q], sent[q], q, copilot_messages, ai_features.enabled)

\* A stored answer follows its question, unless that was lost.
AnswersFollow ==
    \A i \in 1..Len(copilot_messages) :
        LET t == copilot_messages[i] IN
        t.role = "assistant" => ask[t.by].lost \/ \E j \in 1..(i - 1) : copilot_messages[j] = Turn("user", t.by)

CopilotInv == CopilotTypeOK /\ ConsentFollows /\ AsksGood /\ AnswersFollow

LEMMA TurnTyped == ASSUME NEW q \in Asker, NEW role \in {"user", "assistant"}
                   PROVE  Turn(role, q) \in TurnRow /\ Turn(role, q).role = role /\ Turn(role, q).by = q
BY DEF Turn, TurnRow

\* BuildThreadPrompt: whatever part of a history without turns of q is replayed,
\* the prompt has the question of q at its end and only there.
LEMMA ThreadPromptOwn ==
    ASSUME NEW h \in Seq(TurnRow), NEW q \in Asker, \A i \in 1..Len(h) : h[i].by # q
    PROVE  BuildThreadPrompt(h, q) \in Seq(TurnRow) /\ OwnOnce(BuildThreadPrompt(h, q), q)
<1> DEFINE n == Len(h)
           first == n - DefaultHistoryTurns + 1
           part == IF n > DefaultHistoryTurns THEN SubSeq(h, first, n) ELSE h
           t == Turn("user", q)
<1>1. part \in Seq(TurnRow) /\ \A i \in 1..Len(part) : part[i].by # q
  <2>1. CASE n > DefaultHistoryTurns
    <3>1. first \in 1..(n + 1) /\ n \in Nat
      BY <2>1, HistoryAssumption
    <3>2. /\ SubSeq(h, first, n) \in Seq(TurnRow) /\ Len(SubSeq(h, first, n)) = n - first + 1
          /\ \A i \in 1..(n - first + 1) : SubSeq(h, first, n)[i] = h[first + i - 1]
      <4> HIDE DEF first
      <4> QED
        BY <3>1
    <3>3. \A i \in 1..(n - first + 1) : first + i - 1 \in 1..n
      BY <3>1
    <3> QED
      BY <2>1, <3>2, <3>3
  <2>2. CASE ~(n > DefaultHistoryTurns)
    BY <2>2
  <2> QED
    BY <2>1, <2>2
<1>2. BuildThreadPrompt(h, q) = Append(part, t)
  BY DEF BuildThreadPrompt
<1>3. t \in TurnRow /\ t.role = "user" /\ t.by = q
  BY TurnTyped
<1> HIDE DEF part, t
<1>4. /\ Append(part, t) \in Seq(TurnRow) /\ Len(Append(part, t)) = Len(part) + 1 /\ Len(part) \in Nat
      /\ Append(part, t)[Len(part) + 1] = t
      /\ \A i \in 1..Len(part) : Append(part, t)[i] = part[i]
  BY <1>1, <1>3
<1>5. \A i \in 1..(Len(part) + 1) : i = Len(part) + 1 \/ i \in 1..Len(part)
  BY <1>4
<1>6. \A i \in 1..Len(part) : i # Len(part) + 1
  BY <1>4
<1> QED
  BY <1>1, <1>2, <1>3, <1>4, <1>5, <1>6 DEF OwnOnce

\* MaskPII masks every turn and changes no other field.
LEMMA MaskKeeps ==
    ASSUME NEW p \in Seq(TurnRow), NEW q \in Asker, OwnOnce(p, q)
    PROVE  /\ MaskPII(p) \in Seq(TurnRow) /\ OwnOnce(MaskPII(p), q) /\ MaskPII(p) # <<>>
           /\ \A i \in 1..Len(MaskPII(p)) : MaskPII(p)[i].masked
<1> DEFINE n == Len(p)
           f == [i \in 1..n |-> [p[i] EXCEPT !.masked = TRUE]]
<1>1. MaskPII(p) = f /\ n \in Nat /\ \A i \in 1..n : p[i] \in TurnRow
  BY DEF MaskPII
<1>2. \A t \in TurnRow : LET u == [t EXCEPT !.masked = TRUE]
                         IN  u \in TurnRow /\ u.role = t.role /\ u.by = t.by /\ u.masked
  BY DEF TurnRow
<1>3. \A i \in 1..n : f[i] \in TurnRow /\ f[i].role = p[i].role /\ f[i].by = p[i].by /\ f[i].masked
  BY <1>1, <1>2
<1>4. f \in Seq(TurnRow) /\ Len(f) = n
  <2>1. f \in [1..n -> TurnRow]
    BY <1>3
  <2> HIDE DEF f
  <2> QED
    BY <1>1, <2>1
<1> HIDE DEF f
<1> QED
  BY <1>1, <1>3, <1>4 DEF OwnOnce

\* A conversation with one more turn of q: the other requests do not notice.
LEMMA TurnAdded ==
    ASSUME NEW m \in Seq(TurnRow), NEW q \in Asker, NEW role \in {"user", "assistant"}
    PROVE  LET n == Append(m, Turn(role, q)) IN
           /\ n \in Seq(TurnRow) /\ Len(n) = Len(m) + 1 /\ Len(m) \in Nat
           /\ n[Len(m) + 1] = Turn(role, q)
           /\ \A i \in 1..Len(m) : n[i] = m[i]
           /\ \A r \in AskRow, p \in Asker \ {q} : \A s, on : GoodAsk(r, s, p, m, on) => GoodAsk(r, s, p, n, on)
<1> DEFINE t == Turn(role, q)
           n == Append(m, t)
<1>1. t \in TurnRow /\ t.by = q
  BY TurnTyped
<1> HIDE DEF t
<1>2. /\ n \in Seq(TurnRow) /\ Len(n) = Len(m) + 1 /\ Len(m) \in Nat /\ n[Len(m) + 1] = t
      /\ \A i \in 1..Len(m) : n[i] = m[i]
  BY <1>1
<1> HIDE DEF n
<1>3. \A i \in 1..Len(n) : i = Len(m) + 1 \/ i \in 1..Len(m)
  BY <1>2
<1>4. \A i \in 1..Len(m) : i \in 1..Len(n)
  BY <1>2
<1>5. ASSUME NEW p \in Asker \ {q}
      PROVE  /\ (\A i \in 1..Len(m) : m[i].by # p) => \A i \in 1..Len(n) : n[i].by # p
             /\ (\E i \in 1..Len(m) : m[i] = Turn("user", p)) => \E i \in 1..Len(n) : n[i] = Turn("user", p)
  BY <1>1, <1>2, <1>3, <1>4
<1>6. \A r \in AskRow, p \in Asker \ {q} : \A s, on : GoodAsk(r, s, p, m, on) => GoodAsk(r, s, p, n, on)
  <2> SUFFICES ASSUME NEW r \in AskRow, NEW p \in Asker \ {q}, NEW s, NEW on, GoodAsk(r, s, p, m, on)
               PROVE  GoodAsk(r, s, p, n, on)
    OBVIOUS
  <2>1. StoredGood(r, p, m)
    BY DEF GoodAsk
  <2>2. r.chat \in BOOLEAN /\ r.lost \in BOOLEAN
    BY DEF AskRow
  <2>3. /\ (\A i \in 1..Len(m) : m[i].by # p) => \A i \in 1..Len(n) : n[i].by # p
        /\ (\E i \in 1..Len(m) : m[i] = Turn("user", p)) => \E i \in 1..Len(n) : n[i] = Turn("user", p)
    BY <1>5
  <2>4. StoredGood(r, p, n)
    BY ONLY <2>1, <2>2, <2>3, Zenon DEF StoredGood
  <2> QED
    BY <2>4, Zenon DEF GoodAsk
<1> QED
  BY <1>2, <1>6 DEF n, t

\* A step of the request of q that leaves the flags alone and stores at most one
\* turn of q.
LEMMA AskKeeps ==
    ASSUME CopilotInv, NEW q \in Asker, NEW r \in AskRow, NEW s \in Seq(TurnRow),
           ask' = [ask EXCEPT ![q] = r], sent' = [sent EXCEPT ![q] = s],
           UNCHANGED <<ai_features, put, consentAsked>>,
           GoodAsk(r, s, q, copilot_messages', ai_features.enabled),
           ask[q].lost => r.lost,
           \/ UNCHANGED copilot_messages
           \/ copilot_messages' = Append(copilot_messages, Turn("user", q))
           \/ /\ copilot_messages' = Append(copilot_messages, Turn("assistant", q))
              /\ r.lost \/ \E i \in 1..Len(copilot_messages) : copilot_messages[i] = Turn("user", q)
    PROVE  CopilotInv'
<1> DEFINE m == copilot_messages
<1>t. CopilotTypeOK /\ m \in Seq(TurnRow) /\ ask \in [Asker -> AskRow] /\ sent \in [Asker -> Seq(TurnRow)]
  BY DEF CopilotInv, CopilotTypeOK
<1>a. /\ ask'[q] = r /\ sent'[q] = s
      /\ \A p \in Asker \ {q} : ask'[p] = ask[p] /\ sent'[p] = sent[p]
  BY <1>t
<1>l. \A p \in Asker : ask[p].lost => ask'[p].lost
  BY <1>a
<1>1. m' \in Seq(TurnRow)
  <2>1. CASE UNCHANGED m
    BY <1>t, <2>1
  <2>2. ASSUME NEW role \in {"user", "assistant"}, m' = Append(m, Turn(role, q)) PROVE m' \in Seq(TurnRow)
    BY <1>t, <2>2, TurnAdded
  <2> QED
    BY <2>1, <2>2
<1>2. CopilotTypeOK'
  <2>1. ask' \in [Asker -> AskRow] /\ sent' \in [Asker -> Seq(TurnRow)]
    BY <1>t
  <2> QED
    BY <1>t, <1>1, <2>1 DEF CopilotTypeOK
<1>3. ConsentFollows'
  BY DEF CopilotInv, ConsentFollows
<1>4. AsksGood'
  <2>1. \A p \in Asker \ {q} : GoodAsk(ask[p], sent[p], p, m', ai_features.enabled)
    <3>1. \A p \in Asker \ {q} : GoodAsk(ask[p], sent[p], p, m, ai_features.enabled)
      BY DEF CopilotInv, AsksGood
    <3>2. CASE UNCHANGED m
      BY <3>1, <3>2
    <3>3. ASSUME NEW role \in {"user", "assistant"}, m' = Append(m, Turn(role, q))
          PROVE  \A p \in Asker \ {q} : GoodAsk(ask[p], sent[p], p, m', ai_features.enabled)
      BY <1>t, <3>1, <3>3, TurnAdded
    <3> QED
      BY <3>2, <3>3
  <2> QED
    BY <1>a, <2>1 DEF AsksGood
<1>5. AnswersFollow'
  <2>1. CASE UNCHANGED m
    <3>1. \A i \in 1..Len(m) : m[i].by \in Asker
      <4>1. \A t \in TurnRow : t.by \in Asker
        BY DEF TurnRow
      <4> QED
        BY <1>t, <4>1
    <3> QED
      BY <1>l, <2>1, <3>1 DEF CopilotInv, AnswersFollow
  <2>2. ASSUME NEW role \in {"user", "assistant"}, m' = Append(m, Turn(role, q)),
               role = "assistant" => r.lost \/ \E i \in 1..Len(m) : m[i] = Turn("user", q)
        PROVE  AnswersFollow'
    <3>1. /\ Len(m') = Len(m) + 1 /\ Len(m) \in Nat /\ m'[Len(m) + 1] = Turn(role, q)
          /\ \A i \in 1..Len(m) : m'[i] = m[i]
      BY <1>t, <2>2, TurnAdded
    <3>2. Turn(role, q).role = role /\ Turn(role, q).by = q
      BY TurnTyped
    <3> SUFFICES ASSUME NEW i \in 1..Len(m'), m'[i].role = "assistant"
                 PROVE  ask'[m'[i].by].lost \/ \E j \in 1..(i - 1) : m'[j] = Turn("user", m'[i].by)
      BY DEF AnswersFollow
    <3>3. CASE i \in 1..Len(m)
      <4>1. m'[i] = m[i] /\ m[i].by \in Asker
        <5>1. \A t \in TurnRow : t.by \in Asker
          BY DEF TurnRow
        <5> QED
          BY <1>t, <3>1, <3>3, <5>1
      <4>2. ask[m[i].by].lost \/ \E j \in 1..(i - 1) : m[j] = Turn("user", m[i].by)
        BY <3>3, <4>1 DEF CopilotInv, AnswersFollow
      <4>3. \A j \in 1..(i - 1) : j \in 1..Len(m)
        BY <3>1, <3>3
      <4> QED
        BY <1>l, <3>1, <4>1, <4>2, <4>3
    <3>4. CASE i = Len(m) + 1
      <4>1. m'[i].by = q /\ i - 1 = Len(m) /\ role = "assistant"
        BY <3>1, <3>2, <3>4
      <4> QED
        BY <1>a, <2>2, <3>1, <4>1
    <3> QED
      BY <3>1, <3>3, <3>4
  <2> QED
    BY <2>1, <2>2
<1> QED
  BY <1>2, <1>3, <1>4, <1>5 DEF CopilotInv

\* What a step of q starts from.
LEMMA AskIs ==
    ASSUME CopilotInv, NEW q \in Asker
    PROVE  /\ ask[q] \in AskRow /\ sent[q] \in Seq(TurnRow) /\ copilot_messages \in Seq(TurnRow)
           /\ ai_features \in Features
           /\ GoodAsk(ask[q], sent[q], q, copilot_messages, ai_features.enabled)
           /\ sent = [sent EXCEPT ![q] = sent[q]]
BY DEF CopilotInv, CopilotTypeOK, AsksGood

\* Arrival, the client's leaving and the conversation that is not there.
LEMMA ArrivalKeeps ==
    ASSUME CopilotInv, NEW q \in Asker, NEW chat \in BOOLEAN, Ask(q, chat) \/ ClientGone(q) \/ NotOwned(q)
    PROVE  CopilotInv'
<1> DEFINE k == ask[q]
<1>t. /\ k \in AskRow /\ sent[q] \in Seq(TurnRow) /\ ai_features.enabled \in BOOLEAN
      /\ GoodAsk(k, sent[q], q, copilot_messages, ai_features.enabled)
  BY AskIs DEF Features
<1>u. sent' = [sent EXCEPT ![q] = sent[q]] /\ UNCHANGED <<ai_features, put, consentAsked, copilot_messages>>
  BY AskIs DEF Ask, ClientGone, NotOwned
<1>1. CASE Ask(q, chat)
  <2> DEFINE r == [k EXCEPT !.pc = "gate", !.chat = chat, !.sawOn = ai_features.enabled]
  <2>1. k.pc = "idle" /\ ask' = [ask EXCEPT ![q] = r]
    BY <1>1 DEF Ask
  <2>2. r \in AskRow /\ r.pc = "gate" /\ r.sawOn = ai_features.enabled /\ r.lost = k.lost
    <3> HIDE DEF k
    <3> QED
      BY <1>t DEF AskRow
  <2> HIDE DEF r
  <2>3. GoodAsk(r, sent[q], q, copilot_messages, ai_features.enabled)
    BY <1>t, <2>1, <2>2 DEF GoodAsk, StoredGood
  <2> QED
    BY <1>t, <1>u, <2>1, <2>2, <2>3, AskKeeps
<1>2. CASE ClientGone(q)
  <2> DEFINE r == [k EXCEPT !.gone = TRUE]
  <2>1. ask' = [ask EXCEPT ![q] = r]
    BY <1>2 DEF ClientGone
  <2>2. /\ r \in AskRow /\ r.pc = k.pc /\ r.sawOn = k.sawOn /\ r.lost = k.lost /\ r.prompt = k.prompt
        /\ r.chat = k.chat /\ r.audited = k.audited /\ r.faulted = k.faulted
    <3> HIDE DEF k
    <3> QED
      BY <1>t DEF AskRow
  <2> HIDE DEF r
  <2>3. GoodAsk(r, sent[q], q, copilot_messages, ai_features.enabled)
    BY <1>t, <2>2 DEF GoodAsk, StoredGood
  <2> QED
    BY <1>t, <1>u, <2>1, <2>2, <2>3, AskKeeps
<1>3. CASE NotOwned(q)
  <2> DEFINE r == [k EXCEPT !.pc = "done"]
  <2>1. k.pc = "history" /\ ask' = [ask EXCEPT ![q] = r]
    BY <1>3 DEF NotOwned
  <2>2. r \in AskRow /\ r.pc = "done" /\ r.sawOn = k.sawOn /\ r.lost = k.lost
    <3> HIDE DEF k
    <3> QED
      BY <1>t DEF AskRow
  <2> HIDE DEF r
  <2>3. GoodAsk(r, sent[q], q, copilot_messages, ai_features.enabled)
    BY <1>t, <2>1, <2>2 DEF GoodAsk, StoredGood
  <2> QED
    BY <1>t, <1>u, <2>1, <2>2, <2>3, AskKeeps
<1> QED
  BY <1>1, <1>2, <1>3

\* copilotFeatureEnabled: past the gate the opt-in has been seen; a question
\* outside a conversation is the prompt.
LEMMA GateKeeps ==
    ASSUME CopilotInv, NEW q \in Asker, NEW ok \in BOOLEAN, Gate(q, ok)
    PROVE  CopilotInv'
<1> DEFINE k == ask[q]
           on == copilotFeatureEnabled(ok)
           pc == IF ~on THEN "done" ELSE IF k.chat THEN "history" ELSE "govern"
           prompt == IF on /\ ~k.chat THEN <<Turn("user", q)>> ELSE <<>>
           r == [k EXCEPT !.pc = pc, !.prompt = prompt]
<1>t. /\ k \in AskRow /\ sent[q] \in Seq(TurnRow) /\ k.chat \in BOOLEAN
      /\ GoodAsk(k, sent[q], q, copilot_messages, ai_features.enabled)
  BY AskIs DEF AskRow
<1>u. sent' = [sent EXCEPT ![q] = sent[q]] /\ UNCHANGED <<ai_features, put, consentAsked, copilot_messages>>
  BY AskIs DEF Gate
<1>1. k.pc = "gate" /\ ask' = [ask EXCEPT ![q] = r]
  BY DEF Gate
<1>2. on => k.sawOn
  BY <1>t, <1>1 DEF copilotFeatureEnabled, GoodAsk
<1>3. prompt \in Seq(TurnRow) /\ (on /\ ~k.chat => OwnOnce(prompt, q))
  <2>1. Turn("user", q) \in TurnRow /\ Turn("user", q).role = "user" /\ Turn("user", q).by = q
    BY TurnTyped
  <2>2. CASE on /\ ~k.chat
    <3>1. prompt = <<Turn("user", q)>>
      BY <2>2
    <3> HIDE DEF prompt
    <3> QED
      BY <2>1, <3>1 DEF OwnOnce
  <2>3. CASE ~(on /\ ~k.chat)
    <3>1. prompt = <<>>
      BY <2>3
    <3> HIDE DEF prompt
    <3> QED
      BY <2>3, <3>1
  <2> QED
    BY <2>2, <2>3
<1>4. pc \in {"done", "history", "govern"} /\ (pc # "done" => on) /\ (pc = "govern" => ~k.chat)
  OBVIOUS
<1>5. /\ r \in AskRow /\ r.pc = pc /\ r.prompt = prompt /\ r.sawOn = k.sawOn /\ r.lost = k.lost
      /\ r.chat = k.chat
  <2> HIDE DEF k, pc, prompt
  <2> QED
    BY <1>t, <1>3, <1>4 DEF AskRow
<1> HIDE DEF r, pc, prompt, on
<1>6. GoodAsk(r, sent[q], q, copilot_messages, ai_features.enabled)
  BY <1>t, <1>1, <1>2, <1>3, <1>4, <1>5 DEF GoodAsk, StoredGood
<1> QED
  BY <1>t, <1>u, <1>1, <1>5, <1>6, AskKeeps

\* copilotChatHistory: the prompt has the question of q at its end only, since
\* the conversation has no turn of q yet.
LEMMA HistoryKeeps ==
    ASSUME CopilotInv, NEW q \in Asker, NEW ok \in BOOLEAN, History(q, ok)
    PROVE  CopilotInv'
<1> DEFINE k == ask[q]
           h == IF ok THEN copilot_messages ELSE <<>>
           p == BuildThreadPrompt(h, q)
           r == [k EXCEPT !.pc = "user", !.prompt = p]
<1>t. /\ k \in AskRow /\ sent[q] \in Seq(TurnRow) /\ copilot_messages \in Seq(TurnRow)
      /\ GoodAsk(k, sent[q], q, copilot_messages, ai_features.enabled)
  BY AskIs
<1>u. sent' = [sent EXCEPT ![q] = sent[q]] /\ UNCHANGED <<ai_features, put, consentAsked, copilot_messages>>
  BY AskIs DEF History
<1>1. k.pc = "history" /\ ask' = [ask EXCEPT ![q] = r]
  BY DEF History
<1>2. h \in Seq(TurnRow) /\ \A i \in 1..Len(h) : h[i].by # q
  <2>1. \A i \in 1..Len(copilot_messages) : copilot_messages[i].by # q
    BY <1>t, <1>1 DEF GoodAsk, StoredGood
  <2>2. CASE ok
    BY <1>t, <2>1, <2>2
  <2>3. CASE ~ok
    BY <2>3
  <2> QED
    BY <2>2, <2>3
<1>3. p \in Seq(TurnRow) /\ OwnOnce(p, q)
  <2> HIDE DEF h
  <2> QED
    BY <1>2, ThreadPromptOwn
<1>4. /\ r \in AskRow /\ r.pc = "user" /\ r.prompt = p /\ r.sawOn = k.sawOn /\ r.lost = k.lost
      /\ r.chat = k.chat
  <2> HIDE DEF k, p
  <2> QED
    BY <1>t, <1>3 DEF AskRow
<1> HIDE DEF r, p
<1>5. GoodAsk(r, sent[q], q, copilot_messages, ai_features.enabled)
  BY <1>t, <1>1, <1>3, <1>4 DEF GoodAsk, StoredGood
<1> QED
  BY <1>t, <1>u, <1>1, <1>4, <1>5, AskKeeps

\* The user turn: stored at the end of the conversation, or lost.
LEMMA PersistUserKeeps ==
    ASSUME CopilotInv, NEW q \in Asker, NEW ok \in BOOLEAN, PersistUser(q, ok)
    PROVE  CopilotInv'
<1> DEFINE k == ask[q]
           m == copilot_messages
           r == [k EXCEPT !.pc = "govern", !.lost = ~ok]
<1>t. /\ k \in AskRow /\ sent[q] \in Seq(TurnRow) /\ m \in Seq(TurnRow)
      /\ GoodAsk(k, sent[q], q, m, ai_features.enabled)
  BY AskIs
<1>u. sent' = [sent EXCEPT ![q] = sent[q]] /\ UNCHANGED <<ai_features, put, consentAsked>>
  BY AskIs DEF PersistUser
<1>1. k.pc = "user" /\ ask' = [ask EXCEPT ![q] = r]
  BY DEF PersistUser
<1>2. m' = IF ok THEN Append(m, Turn("user", q)) ELSE m
  BY DEF PersistUser
<1>3. /\ r \in AskRow /\ r.pc = "govern" /\ r.prompt = k.prompt /\ r.sawOn = k.sawOn /\ r.lost = ~ok
      /\ r.chat = k.chat /\ k.lost \in BOOLEAN
  <2> HIDE DEF k
  <2> QED
    BY <1>t DEF AskRow
<1> HIDE DEF r
<1>4. ~k.lost
  BY <1>t, <1>1 DEF GoodAsk
<1>5. r.lost \/ \E i \in 1..Len(m') : m'[i] = Turn("user", q)
  <2>1. CASE ok
    <3>1. /\ Len(m') = Len(m) + 1 /\ Len(m) \in Nat
          /\ m'[Len(m) + 1] = Turn("user", q)
      BY <1>t, <1>2, <2>1, TurnAdded
    <3> QED
      BY <3>1
  <2> QED
    BY <1>3, <2>1
<1>6. GoodAsk(r, sent[q], q, m', ai_features.enabled)
  <2>1. StoredGood(r, q, m')
    BY <1>3, <1>5 DEF StoredGood
  <2> HIDE DEF m
  <2> QED
    BY <1>t, <1>1, <1>3, <2>1 DEF GoodAsk
<1>7. m' = m \/ m' = Append(m, Turn("user", q))
  BY <1>2
<1> QED
  BY <1>t, <1>u, <1>1, <1>3, <1>4, <1>6, <1>7, AskKeeps

\* Govern: what is sent is the prompt, masked.
LEMMA GovernKeeps ==
    ASSUME CopilotInv, NEW q \in Asker, NEW ok \in BOOLEAN, Govern(q, ok)
    PROVE  CopilotInv'
<1> DEFINE k == ask[q]
           s == MaskPII(k.prompt)
           r == [k EXCEPT !.pc = "audit", !.llm = Complete(ok)]
<1>t. /\ k \in AskRow /\ copilot_messages \in Seq(TurnRow)
      /\ GoodAsk(k, sent[q], q, copilot_messages, ai_features.enabled)
  BY AskIs
<1>u. UNCHANGED <<ai_features, put, consentAsked, copilot_messages>>
  BY DEF Govern
<1>1. k.pc = "govern" /\ ask' = [ask EXCEPT ![q] = r] /\ sent' = [sent EXCEPT ![q] = s]
  BY DEF Govern
<1>2. Complete(ok) \in {"none", "ok", "error"}
  BY DEF Complete
<1>3. k.prompt \in Seq(TurnRow) /\ OwnOnce(k.prompt, q)
  <2>1. \A x \in AskRow : x.prompt \in Seq(TurnRow)
    BY DEF AskRow
  <2> QED
    BY <1>t, <1>1, <2>1 DEF GoodAsk
<1>4. /\ s \in Seq(TurnRow) /\ OwnOnce(s, q) /\ s # <<>>
      /\ \A i \in 1..Len(s) : s[i].masked
  BY <1>3, MaskKeeps
<1>5. /\ r \in AskRow /\ r.pc = "audit" /\ r.prompt = k.prompt /\ r.sawOn = k.sawOn /\ r.lost = k.lost
      /\ r.chat = k.chat
  <2> HIDE DEF k
  <2> QED
    BY <1>t, <1>2 DEF AskRow
<1> HIDE DEF r, s
<1>6. GoodAsk(r, s, q, copilot_messages, ai_features.enabled)
  BY <1>t, <1>1, <1>4, <1>5 DEF GoodAsk, StoredGood
<1> QED
  BY <1>t, <1>u, <1>1, <1>4, <1>5, <1>6, AskKeeps

\* aigwLogDecision: from here on the call is audited or its INSERT failed.
LEMMA LogDecisionKeeps ==
    ASSUME CopilotInv, NEW q \in Asker, NEW ok \in BOOLEAN, LogDecision(q, ok)
    PROVE  CopilotInv'
<1> DEFINE k == ask[q]
           pc == IF k.llm = "ok" /\ k.chat THEN "assistant" ELSE "done"
           r == [k EXCEPT !.pc = pc, !.audited = ok, !.faulted = ~ok]
<1>t. /\ k \in AskRow /\ sent[q] \in Seq(TurnRow) /\ k.chat \in BOOLEAN
      /\ GoodAsk(k, sent[q], q, copilot_messages, ai_features.enabled)
  BY AskIs DEF AskRow
<1>u. sent' = [sent EXCEPT ![q] = sent[q]] /\ UNCHANGED <<ai_features, put, consentAsked, copilot_messages>>
  BY AskIs DEF LogDecision
<1>1. k.pc = "audit" /\ ask' = [ask EXCEPT ![q] = r]
  BY DEF LogDecision
<1>2. pc \in {"assistant", "done"} /\ (pc = "assistant" => k.chat)
  OBVIOUS
<1>3. /\ r \in AskRow /\ r.pc = pc /\ r.sawOn = k.sawOn /\ r.lost = k.lost
      /\ r.chat = k.chat /\ r.audited = ok /\ r.faulted = ~ok
  <2> HIDE DEF k, pc
  <2> QED
    BY <1>t, <1>2 DEF AskRow
<1> HIDE DEF r, pc
<1>4. GoodAsk(r, sent[q], q, copilot_messages, ai_features.enabled)
  BY <1>t, <1>1, <1>2, <1>3 DEF GoodAsk, StoredGood
<1> QED
  BY <1>t, <1>u, <1>1, <1>3, <1>4, AskKeeps

\* The assistant turn is stored only after a question that was, or was lost.
LEMMA PersistAssistantKeeps ==
    ASSUME CopilotInv, NEW q \in Asker, NEW ok \in BOOLEAN, PersistAssistant(q, ok)
    PROVE  CopilotInv'
<1> DEFINE k == ask[q]
           m == copilot_messages
           r == [k EXCEPT !.pc = "done"]
<1>t. /\ k \in AskRow /\ sent[q] \in Seq(TurnRow) /\ m \in Seq(TurnRow)
      /\ GoodAsk(k, sent[q], q, m, ai_features.enabled)
  BY AskIs
<1>u. sent' = [sent EXCEPT ![q] = sent[q]] /\ UNCHANGED <<ai_features, put, consentAsked>>
  BY AskIs DEF PersistAssistant
<1>1. k.pc = "assistant" /\ ask' = [ask EXCEPT ![q] = r]
  BY DEF PersistAssistant
<1>2. m' = m \/ m' = Append(m, Turn("assistant", q))
  BY DEF PersistAssistant
<1>3. /\ r \in AskRow /\ r.pc = "done" /\ r.sawOn = k.sawOn /\ r.lost = k.lost
      /\ r.audited = k.audited /\ r.faulted = k.faulted
  <2> HIDE DEF k
  <2> QED
    BY <1>t DEF AskRow
<1> HIDE DEF r
<1>4. GoodAsk(r, sent[q], q, m', ai_features.enabled)
  <2>1. StoredGood(r, q, m')
    BY <1>3 DEF StoredGood
  <2> HIDE DEF m
  <2> QED
    BY <1>t, <1>1, <1>3, <2>1 DEF GoodAsk
<1>5. r.lost \/ \E i \in 1..Len(m) : m[i] = Turn("user", q)
  BY <1>t, <1>1, <1>3 DEF GoodAsk, StoredGood
<1> QED
  BY <1>t, <1>u, <1>1, <1>2, <1>3, <1>4, <1>5, AskKeeps

\* UpdateAIFeatures up to its upsert: consent is asked for before it is merged,
\* and a merge takes it from the request or from the row.
LEMMA MergeKeeps ==
    ASSUME CopilotInv, NEW a \in Admin, NEW ok \in BOOLEAN,
           (\E e \in Flag, c \in Flag : BeginPut(a, e, c)) \/ ReadFlags(a, ok)
    PROVE  CopilotInv'
<1>t. /\ put \in [Admin -> PutRow] /\ put[a] \in PutRow /\ ai_features \in Features /\ consentAsked \in BOOLEAN
      /\ ConsentFollows
  BY DEF CopilotInv, CopilotTypeOK
<1>f. ai_features.enabled \in BOOLEAN /\ ai_features.consent \in BOOLEAN
  BY <1>t DEF Features
<1>u. UNCHANGED <<ai_features, copilot_messages, ask, sent>>
  BY DEF BeginPut, ReadFlags
<1>1. ASSUME NEW r \in PutRow, put' = [put EXCEPT ![a] = r], consentAsked' \in BOOLEAN,
             consentAsked => consentAsked', r.consent = "true" \/ r.c => consentAsked'
      PROVE  CopilotInv'
  <2>1. put' \in [Admin -> PutRow]
    BY <1>t, <1>1
  <2>2. ConsentFollows'
    <3>1. \A b \in Admin : put'[b] = IF b = a THEN r ELSE put[b]
      BY <1>t, <1>1
    <3> QED
      BY <1>t, <1>u, <1>1, <3>1 DEF ConsentFollows
  <2>3. CopilotTypeOK'
    BY <1>u, <1>1, <2>1 DEF CopilotInv, CopilotTypeOK
  <2>4. AsksGood' /\ AnswersFollow'
    BY <1>u DEF CopilotInv, AsksGood, AnswersFollow
  <2> QED
    BY <2>2, <2>3, <2>4 DEF CopilotInv
<1>2. ASSUME NEW e \in Flag, NEW c \in Flag, BeginPut(a, e, c) PROVE CopilotInv'
  <2> DEFINE r == [NoPut EXCEPT !.pc = "read", !.enabled = e, !.consent = c]
  <2>1. put' = [put EXCEPT ![a] = r] /\ consentAsked' = (consentAsked \/ c = "true")
    BY <1>2 DEF BeginPut
  <2>2. r \in PutRow /\ r.consent = c /\ r.c = FALSE
    BY DEF NoPut, PutRow, Flag
  <2> HIDE DEF r
  <2> QED
    BY <1>t, <1>1, <2>1, <2>2
<1>3. CASE ReadFlags(a, ok)
  <2> DEFINE k == put[a]
             e == Merge(k.enabled, ok /\ ai_features.enabled)
             c == Merge(k.consent, ok /\ ai_features.consent)
             r == [k EXCEPT !.pc = "write", !.e = e, !.c = c]
  <2>1. put' = [put EXCEPT ![a] = r] /\ consentAsked' = consentAsked
    BY <1>3 DEF ReadFlags
  <2>2. e \in BOOLEAN /\ c \in BOOLEAN
    BY <1>f DEF Merge
  <2>3. c => k.consent = "true" \/ ai_features.consent
    BY <1>f DEF Merge
  <2>4. r \in PutRow /\ r.consent = k.consent /\ r.c = c
    <3> HIDE DEF k, e, c
    <3> QED
      BY <1>t, <2>2 DEF PutRow, k
  <2> HIDE DEF r, c
  <2>5. k.consent = "true" => consentAsked
    BY <1>t DEF ConsentFollows
  <2>6. ai_features.consent => consentAsked
    BY <1>t DEF ConsentFollows
  <2>7. r.consent = "true" \/ r.c => consentAsked'
    BY <2>1, <2>3, <2>4, <2>5, <2>6
  <2> QED
    BY <1>t, <1>1, <2>1, <2>4, <2>7
<1> QED
  BY <1>2, <1>3

\* The upsert: a question waiting at the gate has then seen the opt-in.
LEMMA WriteFlagsKeeps ==
    ASSUME CopilotInv, NEW a \in Admin, NEW ok \in BOOLEAN, WriteFlags(a, ok)
    PROVE  CopilotInv'
<1> DEFINE k == put[a]
           r == [k EXCEPT !.pc = "done"]
           new == [exists |-> TRUE, enabled |-> k.e, consent |-> k.c]
<1>t. /\ put \in [Admin -> PutRow] /\ k \in PutRow /\ ai_features \in Features /\ consentAsked \in BOOLEAN
      /\ ask \in [Asker -> AskRow] /\ ConsentFollows
  BY DEF CopilotInv, CopilotTypeOK
<1>u. UNCHANGED <<consentAsked, copilot_messages, sent>>
  BY DEF WriteFlags
<1>1. put' = [put EXCEPT ![a] = r] /\ ai_features' = IF ok THEN new ELSE ai_features
  BY DEF WriteFlags
<1>2. r \in PutRow /\ r.consent = k.consent /\ r.c = k.c /\ k.e \in BOOLEAN /\ k.c \in BOOLEAN
  <2> HIDE DEF k
  <2> QED
    BY <1>t DEF PutRow
<1>3. ai_features' \in Features /\ (ai_features'.consent => consentAsked)
  <2>1. k.c => consentAsked
    BY <1>t DEF ConsentFollows
  <2>2. ai_features.consent => consentAsked
    BY <1>t DEF ConsentFollows
  <2>3. new \in Features /\ new.consent = k.c
    <3> HIDE DEF k
    <3> QED
      BY <1>2 DEF Features
  <2> HIDE DEF new
  <2>4. CASE ok
    BY <1>1, <2>1, <2>3, <2>4
  <2>5. CASE ~ok
    BY <1>1, <1>t, <2>2, <2>5
  <2> QED
    BY <2>4, <2>5
<1>4. put' \in [Admin -> PutRow] /\ ConsentFollows'
  <2> HIDE DEF r
  <2>1. \A b \in Admin : put'[b] = IF b = a THEN r ELSE put[b]
    BY <1>t, <1>1
  <2> QED
    BY <1>t, <1>u, <1>1, <1>2, <1>3, <2>1 DEF ConsentFollows
<1>5. \A p \in Asker : /\ ask'[p] \in AskRow /\ ask'[p].lost = ask[p].lost
                       /\ GoodAsk(ask'[p], sent[p], p, copilot_messages, ai_features'.enabled)
  <2> SUFFICES ASSUME NEW p \in Asker
               PROVE  /\ ask'[p] \in AskRow /\ ask'[p].lost = ask[p].lost
                      /\ GoodAsk(ask'[p], sent[p], p, copilot_messages, ai_features'.enabled)
    OBVIOUS
  <2> DEFINE x == ask[p]
             y == [x EXCEPT !.sawOn = TRUE]
             on == ai_features'.enabled
  <2>1. ask'[p] = IF x.pc = "gate" /\ on THEN y ELSE x
    BY DEF WriteFlags
  <2>2. x \in AskRow /\ GoodAsk(x, sent[p], p, copilot_messages, ai_features.enabled)
    BY AskIs
  <2>3. /\ y \in AskRow /\ y.pc = x.pc /\ y.sawOn /\ y.lost = x.lost /\ y.prompt = x.prompt
        /\ y.chat = x.chat /\ y.audited = x.audited /\ y.faulted = x.faulted
    <3> HIDE DEF x
    <3> QED
      BY <2>2 DEF AskRow
  <2> HIDE DEF y, x
  <2>4. CASE x.pc = "gate" /\ on
    <3>1. GoodAsk(y, sent[p], p, copilot_messages, on)
      BY <2>2, <2>3, <2>4 DEF GoodAsk, StoredGood
    <3> QED
      BY <2>1, <2>3, <2>4, <3>1 DEF x
  <2>5. CASE ~(x.pc = "gate" /\ on)
    <3>1. GoodAsk(x, sent[p], p, copilot_messages, on)
      BY <2>2, <2>5, Zenon DEF GoodAsk
    <3> QED
      BY <2>1, <2>2, <2>5, <3>1 DEF x
  <2> QED
    BY <2>4, <2>5
<1>6. CopilotTypeOK'
  <2>1. ask' = [p \in Asker |-> ask'[p]]
    BY DEF WriteFlags
  <2>2. ask' \in [Asker -> AskRow]
    BY <1>5, <2>1
  <2> QED
    BY <1>u, <1>t, <1>3, <1>4, <2>2 DEF CopilotInv, CopilotTypeOK
<1>7. AsksGood'
  BY <1>5, <1>u DEF AsksGood
<1>8. AnswersFollow'
  <2>1. \A i \in 1..Len(copilot_messages) : copilot_messages[i].by \in Asker
    <3>1. \A t \in TurnRow : t.by \in Asker
      BY DEF TurnRow
    <3> QED
      BY <3>1 DEF CopilotInv, CopilotTypeOK
  <2> QED
    BY <1>5, <1>u, <2>1 DEF CopilotInv, AnswersFollow
<1> QED
  BY <1>4, <1>6, <1>7, <1>8 DEF CopilotInv

LEMMA CopilotInitInv == CopilotInit => CopilotInv
<1> SUFFICES ASSUME CopilotInit PROVE CopilotInv
  OBVIOUS
<1>1. /\ NoAsk \in AskRow /\ NoAsk.pc = "idle" /\ NoAsk.lost = FALSE
  BY DEF NoAsk, AskRow
<1>2. NoPut \in PutRow /\ NoPut.consent = "omitted" /\ NoPut.c = FALSE
  BY DEF NoPut, PutRow, Flag
<1>3. ai_features \in Features /\ ai_features.consent = FALSE
  BY DEF CopilotInit, Features
<1>4. /\ put = [a \in Admin |-> NoPut] /\ ask = [q \in Asker |-> NoAsk] /\ sent = [q \in Asker |-> <<>>]
      /\ consentAsked = FALSE /\ copilot_messages = <<>>
  BY DEF CopilotInit
<1>5. copilot_messages \in Seq(TurnRow) /\ Len(copilot_messages) = 0 /\ sent \in [Asker -> Seq(TurnRow)]
  BY <1>4
<1>6. ConsentFollows
  BY <1>2, <1>3, <1>4 DEF ConsentFollows
<1>7. CopilotTypeOK
  BY <1>1, <1>2, <1>3, <1>4, <1>5 DEF CopilotTypeOK
<1>8. AsksGood
  <2>1. \A i \in 1..Len(copilot_messages) : FALSE
    BY <1>5
  <2> QED
    BY <1>1, <1>4, <2>1 DEF AsksGood, GoodAsk, StoredGood
<1>9. AnswersFollow
  BY <1>5 DEF AnswersFollow
<1> QED
  BY <1>6, <1>7, <1>8, <1>9 DEF CopilotInv

LEMMA CopilotInvariance == CopilotSpec => []CopilotInv
<1>1. CopilotInv /\ [PutNext(Admin, Flag) \/ AskNext]_copilotVars => CopilotInv'
  <2> SUFFICES ASSUME CopilotInv, [PutNext(Admin, Flag) \/ AskNext]_copilotVars PROVE CopilotInv'
    OBVIOUS
  <2>1. CASE PutNext(Admin, Flag)
    <3> PICK a \in Admin, ok \in BOOLEAN :
              (\E e \in Flag, c \in Flag : BeginPut(a, e, c)) \/ ReadFlags(a, ok) \/ WriteFlags(a, ok)
      BY <2>1 DEF PutNext
    <3> QED
      BY MergeKeeps, WriteFlagsKeeps
  <2>2. CASE AskNext
    BY <2>2, ArrivalKeeps, GateKeeps, HistoryKeeps, PersistUserKeeps, GovernKeeps, LogDecisionKeeps,
       PersistAssistantKeeps DEF AskNext
  <2>3. CASE UNCHANGED copilotVars
    BY <2>3 DEF copilotVars, CopilotInv, CopilotTypeOK, ConsentFollows, AsksGood, AnswersFollow
  <2> QED
    BY <2>1, <2>2, <2>3
<1> QED
  BY <1>1, CopilotInitInv, PTL DEF CopilotSpec

\* Govern and the handlers around it: however flags change, questions interleave,
\* statements fail and clients leave, a call is opted in, masked and audited, and
\* training consent is never implied.
THEOREM CopilotIsGoverned == CopilotSpec => []CopilotGoverned
<1>1. CopilotInv => CopilotGoverned
  <2> SUFFICES ASSUME CopilotInv PROVE CopilotGoverned
    OBVIOUS
  <2>1. ConsentWasAsked
    BY DEF CopilotInv, ConsentFollows, ConsentWasAsked
  <2>2. \A q \in Asker : sent[q] \in Seq(TurnRow) /\ GoodAsk(ask[q], sent[q], q, copilot_messages, ai_features.enabled)
    BY AskIs
  <2>3. CallNeedsOptIn
    BY <2>2 DEF GoodAsk, CallNeedsOptIn
  <2>4. OnlyMaskedLeaves
    BY <2>2 DEF GoodAsk, OnlyMaskedLeaves
  <2>5. AttemptAudited
    BY <2>2 DEF GoodAsk, AttemptAudited
  <2> QED
    BY <2>1, <2>3, <2>4, <2>5 DEF CopilotGoverned
<1> QED
  BY <1>1, CopilotInvariance, PTL

\* CopilotConversationMessage: with any number of questions interleaved in one
\* conversation, a prompt ends in its own question and has it once, whatever part
\* of the history is replayed, and a stored answer follows its question unless
\* that was lost.
THEOREM CopilotOwnQuestion == CopilotSpec => []OwnQuestionOnce
<1>1. CopilotInv => OwnQuestionOnce
  <2> SUFFICES ASSUME CopilotInv PROVE OwnQuestionOnce
    OBVIOUS
  <2>1. \A q \in Asker : sent[q] \in Seq(TurnRow) /\ GoodAsk(ask[q], sent[q], q, copilot_messages, ai_features.enabled)
    BY AskIs
  <2>2. \A q \in Asker : sent[q] # <<>> => OwnOnce(sent[q], q) /\ DOMAIN sent[q] = 1..Len(sent[q])
    BY <2>1 DEF GoodAsk
  <2>3. DOMAIN copilot_messages = 1..Len(copilot_messages)
    BY DEF CopilotInv, CopilotTypeOK
  <2>4. \A q \in Asker : sent[q] # <<>> =>
           \A i \in DOMAIN sent[q] : (sent[q][i].role = "user" /\ sent[q][i].by = q) <=> i = Len(sent[q])
    BY <2>2 DEF OwnOnce
  <2> QED
    BY <2>3, <2>4 DEF OwnQuestionOnce, CopilotInv, AnswersFollow
<1> QED
  BY <1>1, CopilotInvariance, PTL

-----------------------------------------------------------------------------
(* Webhooks *)

DispatchRow == [pc : {"idle", "deliver", "pause", "done"}, loaded : SUBSET Endpoint, left : Seq(Endpoint),
                attempt : Nat, elapsed : Nat, tried : SUBSET Endpoint]
Counter == [Endpoint -> Nat]

WebhookTypeOK ==
    /\ endpoints \in [Endpoint -> {"absent", "active", "deleted"}]
    /\ dispatch \in [Event -> DispatchRow]
    /\ received \in [Event -> Counter]
    /\ retriable \in [Event -> Counter]
    /\ redirected \in [Event -> Counter]
    /\ deletedBefore \in [Event -> SUBSET Endpoint]

\* The queue of a dispatch: no endpoint twice; redirects apart, the head has had
\* as many requests as attempts that have to be repeated, and no more than
\* attempts, the others none.
QueueGood(d, rc, rt, rd) ==
    /\ Len(d.left) >= 1
    /\ \A i, j \in 1..Len(d.left) : d.left[i] = d.left[j] => i = j
    /\ d.attempt < maxAttempts
    /\ rc[d.left[1]] <= d.attempt + rd[d.left[1]] /\ rc[d.left[1]] <= rt[d.left[1]] + rd[d.left[1]]
    /\ \A i \in 2..Len(d.left) : rc[d.left[i]] = 0

\* What is known of a dispatch d, the requests rc its endpoints received, the
\* attempts rt that had to be repeated, the redirects rd and the endpoints gone
\* before it.
GoodDispatch(d, rc, rt, rd, gone) ==
    /\ d.pc = "idle" => gone = {} /\ \A e \in Endpoint : rc[e] = 0
    /\ d.pc \in {"deliver", "pause"} => QueueGood(d, rc, rt, rd) /\ d.loaded = d.tried \cup {d.left[i] : i \in 1..Len(d.left)}
    /\ d.pc = "done" /\ d.elapsed < Deadline => d.tried = d.loaded
    /\ \A e \in Endpoint : rc[e] <= 1 + rt[e] + rd[e] /\ rc[e] <= maxAttempts + rd[e]
    /\ \A e \in Endpoint \ d.loaded : rc[e] = 0
    /\ d.loaded \cap gone = {}

DispatchesGood ==
    \A v \in Event : GoodDispatch(dispatch[v], received[v], retriable[v], redirected[v], deletedBefore[v])

WebhookInv == WebhookTypeOK /\ DispatchesGood

\* loadEndpoints: the rows, in any order, are the active endpoints, each once.
LEMMA OrderIsAll ==
    ASSUME NEW S \in SUBSET Endpoint, NEW order \in SetToSeqs(S)
    PROVE  /\ order \in Seq(Endpoint) /\ S = {order[i] : i \in 1..Len(order)}
           /\ \A i, j \in 1..Len(order) : order[i] = order[j] => i = j
<1> DEFINE n == Cardinality(S)
<1>1. IsFiniteSet(S) /\ n \in Nat
  BY WebhookAssumption, FS_Subset, FS_CardinalityType
<1>2. order \in [1..n -> S] /\ \A i, j \in 1..n : i # j => order[i] # order[j]
  BY DEF SetToSeqs
<1> HIDE DEF n
<1>3. order \in Injection(1..n, S)
  BY <1>2 DEF Injection, IsInjective
<1>4. Cardinality(1..n) = n
  BY <1>1, FS_Interval
<1>5. order \in Surjection(1..n, S)
  BY <1>1, <1>3, <1>4, FS_Injection DEF n
<1>6. S = {order[i] : i \in 1..n}
  BY <1>2, <1>5 DEF Surjection
<1>7. order \in Seq(Endpoint) /\ Len(order) = n
  BY <1>1, <1>2
<1> QED
  BY <1>2, <1>6, <1>7

\* The counters of an endpoint after an attempt: at most n requests before it, m
\* allowed, k repeated by redirects.
LEMMA CountersBound ==
    ASSUME NEW c \in Nat, NEW x \in Nat, NEW y \in Nat, NEW k \in Nat, NEW n \in Nat, NEW m \in Nat,
           NEW g \in {0, 1}, NEW z \in {0, 1}, c <= n + y, c <= x + y, n < m
    PROVE  /\ c + k + g <= n + 1 + (y + k) /\ c + k + g <= m + (y + k) /\ c + k + g <= 1 + (x + z) + (y + k)
           /\ g <= z => c + k + g <= (x + z) + (y + k)
OBVIOUS

\* deliver: an attempt, then the retry, the next endpoint or the end.
LEMMA AttemptGood ==
    ASSUME NEW d \in DispatchRow, NEW rc \in Counter, NEW rt \in Counter, NEW rd \in Counter, NEW gone \in SUBSET Endpoint,
           GoodDispatch(d, rc, rt, rd, gone), d.pc = "deliver", d.elapsed < Deadline, NEW o \in Outcome, NEW k \in Nat, NEW get \in BOOLEAN, NEW s \in Nat
    PROVE  LET e == Head(d.left)
               got == get \/ Got(o)
               g == IF got THEN 1 ELSE 0
               x == IF got /\ ~Final(o) THEN 1 ELSE 0
               d1 == [d EXCEPT !.tried = d.tried \cup {e}, !.elapsed = s]
           IN  /\ e \in Endpoint /\ g \in Nat /\ x \in Nat
               /\ NextAttempt(d1, o) \in DispatchRow
               /\ GoodDispatch(NextAttempt(d1, o), [rc EXCEPT ![e] = rc[e] + k + g],
                               [rt EXCEPT ![e] = rt[e] + x], [rd EXCEPT ![e] = rd[e] + k], gone)
<1> DEFINE e == Head(d.left)
           got == get \/ Got(o)
           g == IF got THEN 1 ELSE 0
           x == IF got /\ ~Final(o) THEN 1 ELSE 0
           d1 == [d EXCEPT !.tried = d.tried \cup {e}, !.elapsed = s]
<1> SUFFICES /\ e \in Endpoint /\ g \in Nat /\ x \in Nat
             /\ NextAttempt(d1, o) \in DispatchRow
             /\ GoodDispatch(NextAttempt(d1, o), [rc EXCEPT ![e] = rc[e] + k + g],
                               [rt EXCEPT ![e] = rt[e] + x], [rd EXCEPT ![e] = rd[e] + k], gone)
  OBVIOUS
<1> e = Head(d.left) /\ g = (IF got THEN 1 ELSE 0) /\ x = (IF got /\ ~Final(o) THEN 1 ELSE 0)
  OBVIOUS
<1> d1 = [d EXCEPT !.tried = d.tried \cup {e}, !.elapsed = s]
  OBVIOUS
<1> HIDE DEF e, got, g, x, d1
<1> DEFINE q == d.left
           rc2 == [rc EXCEPT ![e] = rc[e] + k + g]
           rt2 == [rt EXCEPT ![e] = rt[e] + x]
           rd2 == [rd EXCEPT ![e] = rd[e] + k]
           tr == d.tried \cup {e}
<1>1. /\ d.attempt \in Nat /\ q \in Seq(Endpoint) /\ d.tried \in SUBSET Endpoint /\ d.loaded \in SUBSET Endpoint
      /\ d.elapsed \in Nat
  BY DEF DispatchRow
<1>2. QueueGood(d, rc, rt, rd) /\ d.loaded = d.tried \cup {q[i] : i \in 1..Len(q)}
  BY DEF GoodDispatch
<1>3. Len(q) \in Nat /\ Len(q) >= 1 /\ 1 \in 1..Len(q) /\ e = q[1] /\ e \in Endpoint /\ e \in d.loaded
  BY <1>1, <1>2 DEF QueueGood
<1>4. g \in 0..1 /\ x \in 0..1 /\ (~Final(o) => g <= x)
  OBVIOUS
<1>5. /\ rc2 \in Counter /\ rt2 \in Counter /\ rd2 \in Counter
      /\ rc2[e] = rc[e] + k + g /\ rt2[e] = rt[e] + x /\ rd2[e] = rd[e] + k
      /\ \A i \in Endpoint : i # e => rc2[i] = rc[i] /\ rt2[i] = rt[i] /\ rd2[i] = rd[i]
  <2>1. rc[e] \in Nat /\ rt[e] \in Nat /\ rd[e] \in Nat
    BY <1>3 DEF Counter
  <2>2. rc[e] + k + g \in Nat /\ rt[e] + x \in Nat /\ rd[e] + k \in Nat
    BY <1>4, <2>1
  <2> QED
    BY <1>3, <2>2 DEF Counter
<1>6. rc[e] \in Nat /\ rt[e] \in Nat /\ rd[e] \in Nat
  BY <1>3 DEF Counter
<1>7. /\ rc[e] <= d.attempt + rd[e] /\ rc[e] <= rt[e] + rd[e] /\ d.attempt < maxAttempts /\ maxAttempts \in Nat \ {0}
  BY <1>2, <1>3, WebhookAssumption DEF QueueGood
<1> HIDE DEF rc2, rt2, rd2
<1>8. /\ rc2[e] <= d.attempt + 1 + rd2[e] /\ rc2[e] <= maxAttempts + rd2[e]
      /\ rc2[e] <= 1 + rt2[e] + rd2[e]
  <2>1. g \in {0, 1} /\ x \in {0, 1} /\ maxAttempts \in Nat
    BY <1>4, <1>7
  <2>2. /\ rc[e] + k + g <= d.attempt + 1 + (rd[e] + k) /\ rc[e] + k + g <= maxAttempts + (rd[e] + k)
        /\ rc[e] + k + g <= 1 + (rt[e] + x) + (rd[e] + k)
    <3>1. rc[e] \in Nat /\ rt[e] \in Nat /\ rd[e] \in Nat /\ d.attempt \in Nat /\ k \in Nat
      BY <1>1, <1>6
    <3>2. rc[e] <= d.attempt + rd[e] /\ rc[e] <= rt[e] + rd[e] /\ d.attempt < maxAttempts
      BY <1>7
    <3> DEFINE c == rc[e]
               y == rd[e]
               z == rt[e]
               n == d.attempt
    <3>3. c \in Nat /\ y \in Nat /\ z \in Nat /\ n \in Nat /\ c <= n + y /\ c <= z + y /\ n < maxAttempts
      BY <3>1, <3>2
    <3> HIDE DEF c, y, z, n
    <3>4. /\ c + k + g <= n + 1 + (y + k) /\ c + k + g <= maxAttempts + (y + k)
          /\ c + k + g <= 1 + (z + x) + (y + k)
      BY <2>1, <3>3, CountersBound
    <3> QED
      BY <3>4 DEF c, y, z, n
  <2> QED
    BY <1>5, <2>2
<1>9. \A i \in Endpoint : rc2[i] <= 1 + rt2[i] + rd2[i] /\ rc2[i] <= maxAttempts + rd2[i]
  BY <1>5, <1>8 DEF GoodDispatch
<1>10. d.loaded \cap gone = {} /\ \A i \in Endpoint \ d.loaded : rc2[i] = 0
  BY <1>3, <1>5 DEF GoodDispatch
<1>11. /\ d1 \in DispatchRow /\ d1.pc = "deliver" /\ d1.loaded = d.loaded /\ d1.left = q /\ d1.attempt = d.attempt
       /\ d1.elapsed = s /\ d1.tried = tr
  <2>1. tr \in SUBSET Endpoint
    BY <1>1, <1>3
  <2> HIDE DEF tr
  <2>2. d1 = [d EXCEPT !.tried = tr, !.elapsed = s]
    BY DEF tr
  <2> QED
    BY <2>1, <2>2 DEF DispatchRow
<1>12. d.loaded = tr \cup {q[i] : i \in 1..Len(q)}
  BY <1>2, <1>3
<1> HIDE DEF tr
<1>13. CASE (Final(o) \/ d.attempt + 1 = maxAttempts) /\ Len(q) > 1
  <2> DEFINE u == Tail(q)
             r == [d1 EXCEPT !.pc = "deliver", !.left = u, !.attempt = 0]
  <2>1. NextAttempt(d1, o) = r
    BY <1>11, <1>13 DEF NextAttempt, AfterEndpoint
  <2>2. u \in Seq(Endpoint) /\ Len(u) = Len(q) - 1 /\ \A i \in 1..(Len(q) - 1) : u[i] = q[i + 1]
    BY <1>1, <1>13
  <2> HIDE DEF u
  <2>3. r \in DispatchRow /\ r.pc = "deliver" /\ r.loaded = d.loaded /\ r.left = u /\ r.attempt = 0 /\ r.tried = tr
    BY <1>11, <2>2 DEF DispatchRow
  <2>4. \A i \in 1..Len(u) : i + 1 \in 2..Len(q) /\ i + 1 \in 1..Len(q) /\ u[i] = q[i + 1]
    BY <1>3, <2>2
  <2>5. \A i \in 1..Len(u) : u[i] \in Endpoint /\ u[i] # e /\ rc2[u[i]] = 0
    <3>1. \A i \in 2..Len(q) : q[i] \in Endpoint /\ q[i] # q[1] /\ rc[q[i]] = 0
      BY <1>1, <1>2, <1>3 DEF QueueGood
    <3> QED
      BY <1>3, <1>5, <2>4, <3>1
  <2>6. \A i, j \in 1..Len(u) : u[i] = u[j] => i = j
    <3>1. \A i, j \in 1..Len(q) : q[i] = q[j] => i = j
      BY <1>2 DEF QueueGood
    <3> QED
      BY <2>4, <3>1
  <2>7. d.loaded = tr \cup {u[i] : i \in 1..Len(u)}
    <3>1. ASSUME NEW i \in 1..Len(q), i # 1 PROVE i - 1 \in 1..Len(u) /\ q[i] = u[i - 1]
      <4>1. i - 1 \in 1..(Len(q) - 1) /\ (i - 1) + 1 = i
        BY <1>3, <3>1
      <4> QED
        BY <2>2, <4>1
    <3>2. q[1] \in tr
      BY <1>3 DEF tr
    <3>3. ASSUME NEW y \in {q[i] : i \in 1..Len(q)} PROVE y \in tr \cup {u[i] : i \in 1..Len(u)}
      <4> PICK i \in 1..Len(q) : y = q[i]
        OBVIOUS
      <4> QED
        BY <3>1, <3>2
    <3>4. ASSUME NEW y \in {u[i] : i \in 1..Len(u)} PROVE y \in {q[i] : i \in 1..Len(q)}
      BY <2>4
    <3> QED
      BY <1>12, <3>3, <3>4
  <2> HIDE DEF r
  <2>8. QueueGood(r, rc2, rt2, rd2)
    <3>1. Len(u) >= 1 /\ Len(u) \in Nat
      BY <1>3, <1>13, <2>2
    <3>2. rc2[u[1]] = 0 /\ u[1] \in Endpoint /\ rt2[u[1]] \in Nat /\ rd2[u[1]] \in Nat
      BY <1>5, <2>5, <3>1 DEF Counter
    <3>3. \A i \in 2..Len(u) : i \in 1..Len(u)
      BY <3>1
    <3> QED
      BY <1>7, <2>3, <2>5, <2>6, <3>1, <3>2, <3>3 DEF QueueGood
  <2>9. GoodDispatch(r, rc2, rt2, rd2, gone)
    BY <1>9, <1>10, <2>3, <2>7, <2>8 DEF GoodDispatch
  <2> QED
    BY <1>3, <1>4, <2>1, <2>3, <2>9 DEF rc2, rt2, rd2
<1>14. CASE (Final(o) \/ d.attempt + 1 = maxAttempts) /\ ~(Len(q) > 1)
  <2> DEFINE none == <<>>
             r == [d1 EXCEPT !.left = none, !.pc = "done"]
  <2>1. NextAttempt(d1, o) = r /\ none \in Seq(Endpoint)
    BY <1>11, <1>14 DEF NextAttempt, AfterEndpoint
  <2> HIDE DEF none
  <2>2. r \in DispatchRow /\ r.pc = "done" /\ r.loaded = d.loaded /\ r.tried = tr
    BY <1>11, <2>1 DEF DispatchRow
  <2>3. d.loaded = tr
    <3>1. \A i \in 1..Len(q) : q[i] \in tr
      BY <1>3, <1>14 DEF tr
    <3> QED
      BY <1>12, <3>1
  <2> HIDE DEF r
  <2>4. GoodDispatch(r, rc2, rt2, rd2, gone)
    BY <1>9, <1>10, <2>2, <2>3 DEF GoodDispatch
  <2> QED
    BY <1>3, <1>4, <2>1, <2>2, <2>4 DEF rc2, rt2, rd2
<1>15. CASE ~Final(o) /\ d.attempt + 1 # maxAttempts
  <2> DEFINE n == d.attempt + 1
             r == [d1 EXCEPT !.pc = "pause", !.attempt = n]
  <2>1. NextAttempt(d1, o) = r /\ n \in Nat
    BY <1>1, <1>11, <1>15 DEF NextAttempt
  <2> HIDE DEF n
  <2>2. r \in DispatchRow /\ r.pc = "pause" /\ r.loaded = d.loaded /\ r.left = q /\ r.attempt = n /\ r.tried = tr
    BY <1>11, <2>1 DEF DispatchRow
  <2> HIDE DEF r
  <2>3. QueueGood(r, rc2, rt2, rd2)
    <3>1. \A i \in 2..Len(q) : q[i] \in Endpoint /\ q[i] # e /\ rc[q[i]] = 0
      BY <1>1, <1>2, <1>3 DEF QueueGood
    <3>2. \A i \in 2..Len(q) : rc2[q[i]] = 0
      BY <1>5, <3>1
    <3>3. d.attempt + 1 < maxAttempts /\ rc2[e] <= rt2[e] + rd2[e]
      <4>1. rc[e] + k + g <= (rt[e] + x) + (rd[e] + k)
        <5>1. g \in {0, 1} /\ x \in {0, 1} /\ maxAttempts \in Nat /\ g <= x
          BY <1>4, <1>7, <1>15
        <5> QED
          BY <1>1, <1>6, <1>7, <5>1, CountersBound
      <4>2. d.attempt + 1 < maxAttempts
        BY <1>1, <1>7, <1>15
      <4> QED
        BY <1>5, <4>1, <4>2
    <3> QED
      BY <1>2, <1>3, <1>8, <2>2, <3>2, <3>3 DEF QueueGood, n
  <2>4. GoodDispatch(r, rc2, rt2, rd2, gone)
    BY <1>9, <1>10, <1>12, <2>2, <2>3 DEF GoodDispatch
  <2> QED
    BY <1>3, <1>4, <2>1, <2>2, <2>4 DEF rc2, rt2, rd2
<1> QED
  BY <1>13, <1>14, <1>15

\* A step of the goroutine of v.
LEMMA DispatchKeeps ==
    ASSUME WebhookInv, NEW v \in Event, NEW d \in DispatchRow, NEW rc \in Counter, NEW rt \in Counter, NEW rd \in Counter,
           NEW gone \in SUBSET Endpoint, GoodDispatch(d, rc, rt, rd, gone), UNCHANGED endpoints,
           dispatch' = [dispatch EXCEPT ![v] = d], received' = [received EXCEPT ![v] = rc],
           retriable' = [retriable EXCEPT ![v] = rt], redirected' = [redirected EXCEPT ![v] = rd],
           deletedBefore' = [deletedBefore EXCEPT ![v] = gone]
    PROVE  WebhookInv'
<1>1. WebhookTypeOK' /\ WebhookTypeOK
  BY DEF WebhookInv, WebhookTypeOK
<1>2. \A w \in Event : /\ dispatch'[w] = IF w = v THEN d ELSE dispatch[w]
                       /\ received'[w] = IF w = v THEN rc ELSE received[w]
                       /\ retriable'[w] = IF w = v THEN rt ELSE retriable[w]
                       /\ redirected'[w] = IF w = v THEN rd ELSE redirected[w]
                       /\ deletedBefore'[w] = IF w = v THEN gone ELSE deletedBefore[w]
  BY <1>1 DEF WebhookTypeOK
<1>3. DispatchesGood'
  BY <1>2 DEF WebhookInv, DispatchesGood
<1> QED
  BY <1>1, <1>3 DEF WebhookInv

\* What a step of the goroutine of v starts from.
LEMMA DispatchIs ==
    ASSUME WebhookInv, NEW v \in Event
    PROVE  /\ dispatch[v] \in DispatchRow /\ received[v] \in Counter /\ retriable[v] \in Counter
           /\ redirected[v] \in Counter
           /\ deletedBefore[v] \in SUBSET Endpoint
           /\ GoodDispatch(dispatch[v], received[v], retriable[v], redirected[v], deletedBefore[v])
           /\ received = [received EXCEPT ![v] = received[v]]
           /\ retriable = [retriable EXCEPT ![v] = retriable[v]]
           /\ redirected = [redirected EXCEPT ![v] = redirected[v]]
           /\ deletedBefore = [deletedBefore EXCEPT ![v] = deletedBefore[v]]
BY DEF WebhookInv, WebhookTypeOK, DispatchesGood

\* Dispatch loads the active endpoints, none of which is deleted.
LEMMA LoadKeeps ==
    ASSUME WebhookInv, NEW v \in Event, NEW ok \in BOOLEAN, NEW t \in 0..Deadline, Dispatch(v, ok, t)
    PROVE  WebhookInv'
<1> DEFINE gone == {e \in Endpoint : endpoints[e] = "deleted"}
           rc == received[v]
           rt == retriable[v]
           rd == redirected[v]
           none == <<>>
<1>t. /\ rc \in Counter /\ rt \in Counter /\ rd \in Counter /\ GoodDispatch(dispatch[v], rc, rt, rd, deletedBefore[v])
      /\ received = [received EXCEPT ![v] = rc] /\ retriable = [retriable EXCEPT ![v] = rt]
      /\ redirected = [redirected EXCEPT ![v] = rd]
      /\ gone \in SUBSET Endpoint /\ maxAttempts \in Nat \ {0} /\ t \in Nat
  BY DispatchIs, WebhookAssumption
<1>1. dispatch[v].pc = "idle" /\ UNCHANGED <<endpoints, received, retriable, redirected>>
  BY DEF Dispatch
<1>2. deletedBefore' = [deletedBefore EXCEPT ![v] = gone]
  BY DEF Dispatch
<1>3. \A e \in Endpoint : rc[e] = 0 /\ rt[e] \in Nat /\ rd[e] \in Nat
  BY <1>t, <1>1 DEF GoodDispatch, Counter
<1>4. \A e \in Endpoint : rc[e] <= 1 + rt[e] + rd[e] /\ rc[e] <= maxAttempts + rd[e]
  BY <1>t, <1>3
<1>5. loadEndpoints \in SUBSET Endpoint /\ loadEndpoints \cap gone = {}
  BY DEF loadEndpoints
<1>6. PICK order \in SetToSeqs(loadEndpoints) :
         dispatch' = [dispatch EXCEPT ![v] =
           IF ok /\ order # <<>>
           THEN [NoDispatch EXCEPT !.pc = "deliver", !.loaded = loadEndpoints, !.left = order, !.elapsed = t]
           ELSE [NoDispatch EXCEPT !.pc = "done"]]
  BY DEF Dispatch
<1> HIDE DEF gone, rc, rt, rd
<1>7. /\ order \in Seq(Endpoint) /\ loadEndpoints = {order[i] : i \in 1..Len(order)}
      /\ \A i, j \in 1..Len(order) : order[i] = order[j] => i = j
  BY <1>5, OrderIsAll
<1>8. none \in Seq(Endpoint) /\ NoDispatch = [pc |-> "idle", loaded |-> {}, left |-> none, attempt |-> 0, elapsed |-> 0, tried |-> {}]
  BY DEF NoDispatch
<1>9. CASE ok /\ order # none
  <2> DEFINE d == [NoDispatch EXCEPT !.pc = "deliver", !.loaded = loadEndpoints, !.left = order, !.elapsed = t]
  <2>1. dispatch' = [dispatch EXCEPT ![v] = d]
    BY <1>6, <1>9
  <2>2. Len(order) >= 1 /\ Len(order) \in Nat
    BY <1>7, <1>9
  <2> HIDE DEF none
  <2>3. /\ d \in DispatchRow /\ d.pc = "deliver" /\ d.loaded = loadEndpoints /\ d.left = order
        /\ d.attempt = 0 /\ d.tried = {}
    BY <1>t, <1>5, <1>7, <1>8 DEF DispatchRow
  <2> HIDE DEF d
  <2>4. QueueGood(d, rc, rt, rd)
    <3>1. \A i \in 1..Len(order) : order[i] \in Endpoint
      BY <1>7
    <3>2. 1 \in 1..Len(order) /\ \A i \in 2..Len(order) : i \in 1..Len(order)
      BY <2>2
    <3>3. rc[order[1]] = 0 /\ rt[order[1]] \in Nat /\ rd[order[1]] \in Nat /\ \A i \in 2..Len(order) : rc[order[i]] = 0
      BY <1>3, <3>1, <3>2
    <3> QED
      BY <1>t, <1>7, <2>2, <2>3, <3>3 DEF QueueGood
  <2>5. d.loaded = d.tried \cup {d.left[i] : i \in 1..Len(d.left)}
    BY <1>7, <2>3
  <2>6. GoodDispatch(d, rc, rt, rd, gone)
    BY <1>3, <1>4, <1>5, <2>3, <2>4, <2>5 DEF GoodDispatch
  <2> QED
    BY <1>t, <1>1, <1>2, <2>1, <2>3, <2>6, DispatchKeeps
<1>10. CASE ~(ok /\ order # none)
  <2> DEFINE d == [NoDispatch EXCEPT !.pc = "done"]
  <2>1. dispatch' = [dispatch EXCEPT ![v] = d]
    BY <1>6, <1>10
  <2> HIDE DEF none
  <2>2. d \in DispatchRow /\ d.pc = "done" /\ d.loaded = {} /\ d.tried = {}
    BY <1>8 DEF DispatchRow
  <2> HIDE DEF d
  <2>3. GoodDispatch(d, rc, rt, rd, gone)
    BY <1>3, <1>4, <2>2 DEF GoodDispatch
  <2> QED
    BY <1>t, <1>1, <1>2, <2>1, <2>2, <2>3, DispatchKeeps
<1> QED
  BY <1>9, <1>10

\* deliver, and the end of the shared context.
LEMMA DeliverKeeps ==
    ASSUME WebhookInv, NEW v \in Event, Deliver(v)
    PROVE  WebhookInv'
<1> DEFINE d == dispatch[v]
           rc == received[v]
           rt == retriable[v]
           rd == redirected[v]
           gone == deletedBefore[v]
<1>t. /\ d \in DispatchRow /\ rc \in Counter /\ rt \in Counter /\ rd \in Counter /\ gone \in SUBSET Endpoint
      /\ GoodDispatch(d, rc, rt, rd, gone)
      /\ received = [received EXCEPT ![v] = rc] /\ retriable = [retriable EXCEPT ![v] = rt]
      /\ redirected = [redirected EXCEPT ![v] = rd]
      /\ deletedBefore = [deletedBefore EXCEPT ![v] = gone]
  BY DispatchIs
<1>1. ASSUME NEW o \in Outcome, NEW r \in Redirects, NEW t \in 0..ClientTimeout, Attempt(v, o, r, t) PROVE WebhookInv'
  <2> DEFINE e == Head(d.left)
             got == r.get \/ Got(o)
             g == IF got THEN 1 ELSE 0
             x == IF got /\ ~Final(o) THEN 1 ELSE 0
             s == d.elapsed + t
             d1 == [d EXCEPT !.tried = d.tried \cup {e}, !.elapsed = s]
             rc2 == [rc EXCEPT ![e] = rc[e] + r.k + g]
             rt2 == [rt EXCEPT ![e] = rt[e] + x]
             rd2 == [rd EXCEPT ![e] = rd[e] + r.k]
  <2>r. r.k \in Nat /\ r.get \in BOOLEAN /\ t \in Nat
    BY WebhookAssumption DEF Redirects
  <2>1. d.pc = "deliver" /\ d.elapsed < Deadline /\ UNCHANGED <<endpoints, deletedBefore>>
    BY <1>1 DEF Attempt
  <2>2. dispatch' = [dispatch EXCEPT ![v] = NextAttempt(d1, o)]
    BY <1>1 DEF Attempt
  <2>3. /\ received' = [received EXCEPT ![v] = rc2] /\ retriable' = [retriable EXCEPT ![v] = rt2]
        /\ redirected' = [redirected EXCEPT ![v] = rd2]
    BY <1>1 DEF Attempt
  <2>4. s \in Nat
    <3>1. d.elapsed \in Nat
      BY <1>t DEF DispatchRow
    <3> QED
      BY <2>r, <3>1
  <2>5. /\ e \in Endpoint /\ g \in Nat /\ x \in Nat
        /\ NextAttempt(d1, o) \in DispatchRow
        /\ GoodDispatch(NextAttempt(d1, o), rc2, rt2, rd2, gone)
    <3> DEFINE k == r.k
               get == r.get
    <3>k. k \in Nat /\ get \in BOOLEAN /\ k = r.k /\ get = r.get
      BY <2>r
    <3> HIDE DEF d, rc, rt, rd, gone, s, k, get
    <3>1. LET e0 == Head(d.left)
              got0 == get \/ Got(o)
              g0 == IF got0 THEN 1 ELSE 0
              x0 == IF got0 /\ ~Final(o) THEN 1 ELSE 0
              d0 == [d EXCEPT !.tried = d.tried \cup {e0}, !.elapsed = s]
          IN  /\ e0 \in Endpoint /\ g0 \in Nat /\ x0 \in Nat
              /\ NextAttempt(d0, o) \in DispatchRow
              /\ GoodDispatch(NextAttempt(d0, o), [rc EXCEPT ![e0] = rc[e0] + k + g0],
                              [rt EXCEPT ![e0] = rt[e0] + x0], [rd EXCEPT ![e0] = rd[e0] + k], gone)
      BY <1>t, <2>1, <2>4, <3>k, AttemptGood
    <3> QED
      BY <3>1, <3>k
  <2>6. rc2 \in Counter /\ rt2 \in Counter /\ rd2 \in Counter
    BY <1>t, <2>r, <2>5 DEF Counter
  <2> HIDE DEF rc2, rt2, rd2, d1
  <2> QED
    BY <1>t, <2>1, <2>2, <2>3, <2>5, <2>6, DispatchKeeps
<1>3. ASSUME NEW t \in 0..1, Pause(v, t) PROVE WebhookInv'
  <2> DEFINE s == d.elapsed + t
             r == [d EXCEPT !.pc = "deliver", !.elapsed = s]
  <2>1. /\ d.pc = "pause" /\ UNCHANGED <<endpoints, received, retriable, redirected, deletedBefore>>
        /\ dispatch' = [dispatch EXCEPT ![v] = r]
    BY <1>3 DEF Pause
  <2>2. s \in Nat
    BY <1>t DEF DispatchRow
  <2> HIDE DEF s
  <2>3. /\ r \in DispatchRow /\ r.pc = "deliver" /\ r.loaded = d.loaded /\ r.left = d.left
        /\ r.attempt = d.attempt /\ r.tried = d.tried
    <3> HIDE DEF d
    <3> QED
      BY <1>t, <2>2 DEF DispatchRow
  <2> HIDE DEF r
  <2>4. GoodDispatch(r, rc, rt, rd, gone)
    <3> HIDE DEF d, rc, rt, rd, gone
    <3>1. QueueGood(d, rc, rt, rd) /\ d.loaded = d.tried \cup {d.left[i] : i \in 1..Len(d.left)}
      BY <1>t, <2>1 DEF GoodDispatch
    <3>2. QueueGood(r, rc, rt, rd)
      BY <2>3, <3>1 DEF QueueGood
    <3> QED
      BY <1>t, <2>3, <3>1, <3>2 DEF GoodDispatch
  <2>5. /\ received' = [received EXCEPT ![v] = rc] /\ retriable' = [retriable EXCEPT ![v] = rt]
        /\ redirected' = [redirected EXCEPT ![v] = rd] /\ deletedBefore' = [deletedBefore EXCEPT ![v] = gone]
        /\ dispatch' = [dispatch EXCEPT ![v] = r] /\ UNCHANGED endpoints
    BY <1>t, <2>1
  <2>6. r \in DispatchRow
    BY <2>3
  <2> HIDE DEF d, rc, rt, rd, gone
  <2> QED
    BY <1>t, <2>4, <2>5, <2>6, DispatchKeeps
<1>2. CASE DeadlinePassed(v)
  <2> DEFINE none == <<>>
             r == [d EXCEPT !.pc = "done", !.left = none]
  <2>n. none \in Seq(Endpoint)
    OBVIOUS
  <2>1. /\ d.elapsed >= Deadline /\ UNCHANGED <<endpoints, received, retriable, redirected, deletedBefore>>
        /\ dispatch' = [dispatch EXCEPT ![v] = r]
    BY <1>2 DEF DeadlinePassed
  <2> HIDE DEF none
  <2>2. r \in DispatchRow /\ r.pc = "done" /\ r.loaded = d.loaded /\ r.elapsed = d.elapsed /\ d.elapsed \in Nat
    <3> HIDE DEF d
    <3> QED
      BY <1>t, <2>n DEF DispatchRow
  <2>3. ~(r.elapsed < Deadline)
    BY <2>1, <2>2, WebhookAssumption
  <2> HIDE DEF r
  <2>4. GoodDispatch(r, rc, rt, rd, gone)
    <3> HIDE DEF d, rc, rt, rd, gone
    <3> QED
      BY <1>t, <2>2, <2>3 DEF GoodDispatch
  <2>5. /\ received' = [received EXCEPT ![v] = rc] /\ retriable' = [retriable EXCEPT ![v] = rt]
        /\ redirected' = [redirected EXCEPT ![v] = rd] /\ deletedBefore' = [deletedBefore EXCEPT ![v] = gone]
        /\ dispatch' = [dispatch EXCEPT ![v] = r] /\ UNCHANGED endpoints
    BY <1>t, <2>1
  <2>6. r \in DispatchRow
    BY <2>2
  <2> HIDE DEF d, rc, rt, rd, gone
  <2> QED
    BY <1>t, <2>4, <2>5, <2>6, DispatchKeeps
<1> QED
  BY <1>1, <1>2, <1>3 DEF Deliver

\* webhook.go: for any endpoints, events, attempts and deadline, with endpoints
\* created and deleted while events are dispatched, answers and pauses of any
\* length and redirects: no repeat without a retry or a redirect and no more than
\* maxAttempts besides redirects, no endpoint skipped unless the deadline was
\* used up, nothing for an endpoint deleted before.
THEOREM DeliveriesAreOwed == WebhookSpec => []DeliveryOwed
<1>1. WebhookInit => WebhookInv
  <2> SUFFICES ASSUME WebhookInit PROVE WebhookInv
    OBVIOUS
  <2> DEFINE none == <<>>
             zero == [e \in Endpoint |-> 0]
  <2>1. none \in Seq(Endpoint) /\ NoDispatch = [pc |-> "idle", loaded |-> {}, left |-> none, attempt |-> 0, elapsed |-> 0, tried |-> {}]
    BY DEF NoDispatch
  <2> HIDE DEF none
  <2>2. NoDispatch \in DispatchRow /\ NoDispatch.pc = "idle" /\ NoDispatch.loaded = {}
    BY <2>1 DEF DispatchRow
  <2>3. zero \in Counter /\ \A e \in Endpoint : zero[e] = 0
    BY DEF Counter
  <2> HIDE DEF zero
  <2>4. /\ dispatch = [v \in Event |-> NoDispatch] /\ received = [v \in Event |-> zero]
        /\ retriable = [v \in Event |-> zero] /\ redirected = [v \in Event |-> zero] /\ deletedBefore = [v \in Event |-> {}]
        /\ endpoints \in [Endpoint -> {"absent", "active"}]
    BY DEF WebhookInit, zero
  <2>5. WebhookTypeOK
    BY <2>2, <2>3, <2>4 DEF WebhookTypeOK
  <2>6. GoodDispatch(NoDispatch, zero, zero, zero, {})
    BY <2>2, <2>3, WebhookAssumption DEF GoodDispatch
  <2> QED
    BY <2>4, <2>5, <2>6 DEF WebhookInv, DispatchesGood
<1>2. WebhookInv /\ [WebhookNext]_webhookVars => WebhookInv'
  <2> SUFFICES ASSUME WebhookInv, [WebhookNext]_webhookVars PROVE WebhookInv'
    OBVIOUS
  <2>1. ASSUME NEW e \in Endpoint, CreateWebhook(e) \/ DeleteWebhook(e) PROVE WebhookInv'
    BY <2>1 DEF CreateWebhook, DeleteWebhook, WebhookInv, WebhookTypeOK, DispatchesGood
  <2>2. CASE UNCHANGED webhookVars
    BY <2>2 DEF webhookVars, WebhookInv, WebhookTypeOK, DispatchesGood
  <2> QED
    BY <2>1, <2>2, LoadKeeps, DeliverKeeps DEF WebhookNext
<1>3. WebhookInv => DeliveryOwed
  <2> SUFFICES ASSUME WebhookInv PROVE DeliveryOwed
    OBVIOUS
  <2>1. \A v \in Event : /\ deletedBefore[v] \in SUBSET Endpoint
                         /\ GoodDispatch(dispatch[v], received[v], retriable[v], redirected[v], deletedBefore[v])
    BY DispatchIs
  <2>2. RepeatNeedsRetry
    <3>1. ASSUME NEW v \in Event, NEW e \in Endpoint
          PROVE  /\ received[v][e] \in Nat /\ retriable[v][e] \in Nat /\ redirected[v][e] \in Nat
                 /\ received[v][e] <= 1 + retriable[v][e] + redirected[v][e]
                 /\ received[v][e] <= maxAttempts + redirected[v][e]
      BY DispatchIs DEF GoodDispatch, Counter
    <3> QED
      BY <3>1, WebhookAssumption DEF RepeatNeedsRetry
  <2>3. SkippedNeedsDeadline
    BY <2>1 DEF GoodDispatch, SkippedNeedsDeadline
  <2>4. DeletedIsLeftAlone
    BY <2>1 DEF GoodDispatch, DeletedIsLeftAlone
  <2> QED
    BY <2>2, <2>3, <2>4 DEF DeliveryOwed
<1> QED
  BY <1>1, <1>2, <1>3, PTL DEF WebhookSpec

-----------------------------------------------------------------------------
(* The dead-letter queue: replays and drops of an event *)

DlqTypeOK ==
    /\ dlq_event \in [status : {"pending", "replayed", "dropped"}, attempt : Nat]
    /\ replay \in [Operator -> {"idle", "publish", "mark", "done"}]
    /\ copies \in Nat /\ overlapped \in Nat /\ unmarked \in Nat

Publishing == {o \in Operator : replay[o] = "publish"}
Marking == {o \in Operator : replay[o] = "mark"}

\* Every copy, and every replay about to make one, is accounted for: one by the
\* row having been taken (it is not pending, or a replay of it is under way),
\* each other by a race or a failed UPDATE.
CopiesAccounted ==
    copies + Cardinality(Publishing)
        <= (IF dlq_event.status = "pending" /\ UnderWay = {} THEN 0 ELSE 1) + overlapped + unmarked

\* Every attempt counted, and every replay about to count one, made a copy.
AttemptsPublished ==
    /\ dlq_event.attempt + Cardinality(Marking) <= copies
    /\ dlq_event.status = "replayed" => dlq_event.attempt > 0

DlqInv == DlqTypeOK /\ CopiesAccounted /\ AttemptsPublished

(* Counting the replays at a step *)

\* The sets counted are finite, their sizes natural numbers.
LEMMA CountsAreNat ==
    ASSUME NEW S, S \subseteq Operator
    PROVE  IsFiniteSet(S) /\ Cardinality(S) \in Nat
BY OperatorAssumption, FS_Subset, FS_CardinalityType

\* A replay that comes to a step is one more there.
LEMMA OneMore ==
    ASSUME NEW S, S \subseteq Operator, NEW o \in Operator, o \notin S,
           NEW T, T = S \cup {o}
    PROVE  Cardinality(T) = Cardinality(S) + 1
BY CountsAreNat, FS_AddElement

\* A replay that leaves a step is one less there.
LEMMA OneLess ==
    ASSUME NEW S, S \subseteq Operator, NEW o \in S,
           NEW T, T = S \ {o}
    PROVE  Cardinality(T) = Cardinality(S) - 1
BY CountsAreNat, FS_RemoveElement

\* The invariant holds of a fresh row.
LEMMA DlqInitInv == DlqInit => DlqInv
<1> SUFFICES ASSUME DlqInit PROVE DlqInv
  OBVIOUS
<1>1. DlqTypeOK
  BY DEF DlqInit, DlqTypeOK
<1>2. Publishing = {} /\ Marking = {} /\ UnderWay = {}
  BY DEF DlqInit, Publishing, Marking, UnderWay
<1>3. Cardinality({}) = 0
  BY FS_EmptySet
<1>4. QED
  BY <1>1, <1>2, <1>3 DEF DlqInit, DlqInv, CopiesAccounted, AttemptsPublished

\* Every step of ReplayDLQ and DropDLQ preserves it.
LEMMA DlqStepInv == DlqInv /\ [DlqNext]_dlqVars => DlqInv'
<1> SUFFICES ASSUME DlqInv, [DlqNext]_dlqVars PROVE DlqInv'
  OBVIOUS
<1> USE DEF DlqInv
<1>n. /\ Cardinality(Publishing) \in Nat /\ Cardinality(Publishing') \in Nat
      /\ Cardinality(Marking) \in Nat /\ Cardinality(Marking') \in Nat
  <2>1. Publishing \subseteq Operator /\ Publishing' \subseteq Operator
        /\ Marking \subseteq Operator /\ Marking' \subseteq Operator
    BY DEF Publishing, Marking
  <2>2. QED
    BY <2>1, CountsAreNat
<1>1. ASSUME NEW o \in Operator, ReadPending(o) PROVE DlqInv'
  <2>1. DlqTypeOK'
    BY <1>1 DEF ReadPending, DlqTypeOK
  <2>2. Marking' = Marking
    BY <1>1 DEF ReadPending, Marking, DlqTypeOK
  <2>3. CASE dlq_event.status = "pending"
    <3>1. Publishing' = Publishing \cup {o} /\ o \notin Publishing /\ o \in UnderWay'
      BY <1>1, <2>3 DEF ReadPending, Publishing, UnderWay, DlqTypeOK
    <3>2. Cardinality(Publishing') = Cardinality(Publishing) + 1
      BY <3>1, OneMore DEF Publishing
    <3>3. QED
      BY <1>1, <1>n, <2>1, <2>2, <2>3, <3>1, <3>2
         DEF ReadPending, CopiesAccounted, AttemptsPublished, DlqTypeOK
  <2>4. CASE dlq_event.status # "pending"
    <3>1. Publishing' = Publishing
      BY <1>1, <2>4 DEF ReadPending, Publishing, DlqTypeOK
    <3>2. QED
      BY <1>1, <1>n, <2>1, <2>2, <2>4, <3>1 DEF ReadPending, CopiesAccounted, AttemptsPublished, DlqTypeOK
  <2>5. QED
    BY <2>3, <2>4
<1>2. ASSUME NEW o \in Operator, DropDLQ(o) PROVE DlqInv'
  <2>1. DlqTypeOK'
    BY <1>2 DEF DropDLQ, DlqTypeOK
  <2>2. Publishing' = Publishing /\ Marking' = Marking
    BY <1>2 DEF DropDLQ, Publishing, Marking, DlqTypeOK
  <2>3. QED
    BY <1>2, <1>n, <2>1, <2>2 DEF DropDLQ, CopiesAccounted, AttemptsPublished, DlqTypeOK
<1>3. ASSUME NEW o \in Operator, NEW ok \in BOOLEAN, PublishCopy(o, ok) PROVE DlqInv'
  <2>1. DlqTypeOK'
    BY <1>3 DEF PublishCopy, DlqTypeOK
  <2>2. Publishing' = Publishing \ {o} /\ o \in Publishing /\ o \in UnderWay
    BY <1>3 DEF PublishCopy, Publishing, UnderWay, DlqTypeOK
  <2>3. Cardinality(Publishing') = Cardinality(Publishing) - 1
    BY <2>2, OneLess DEF Publishing
  <2>4. CASE ok
    <3>1. Marking' = Marking \cup {o} /\ o \notin Marking /\ o \in UnderWay'
      BY <1>3, <2>4 DEF PublishCopy, Marking, UnderWay, DlqTypeOK
    <3>2. Cardinality(Marking') = Cardinality(Marking) + 1
      BY <3>1, OneMore DEF Marking
    <3>3. QED
      BY <1>3, <1>n, <2>1, <2>2, <2>3, <2>4, <3>1, <3>2
         DEF PublishCopy, CopiesAccounted, AttemptsPublished, DlqTypeOK
  <2>5. CASE ~ok
    <3>1. Marking' = Marking
      BY <1>3, <2>5 DEF PublishCopy, Marking, DlqTypeOK
    <3>2. QED
      BY <1>3, <1>n, <2>1, <2>2, <2>3, <2>5, <3>1
         DEF PublishCopy, CopiesAccounted, AttemptsPublished, DlqTypeOK
  <2>6. QED
    BY <2>4, <2>5
<1>4. ASSUME NEW o \in Operator, NEW ok \in BOOLEAN, MarkReplayed(o, ok) PROVE DlqInv'
  <2>1. DlqTypeOK'
    BY <1>4 DEF MarkReplayed, DlqTypeOK
  <2>2. Publishing' = Publishing
    BY <1>4 DEF MarkReplayed, Publishing, DlqTypeOK
  <2>3. Marking' = Marking \ {o} /\ o \in Marking /\ o \in UnderWay
    BY <1>4 DEF MarkReplayed, Marking, UnderWay, DlqTypeOK
  <2>4. Cardinality(Marking') = Cardinality(Marking) - 1
    BY <2>3, OneLess DEF Marking
  <2>5. CASE ok
    BY <1>4, <1>n, <2>1, <2>2, <2>3, <2>4, <2>5
       DEF MarkReplayed, CopiesAccounted, AttemptsPublished, DlqTypeOK
  <2>6. CASE ~ok
    BY <1>4, <1>n, <2>1, <2>2, <2>3, <2>4, <2>6
       DEF MarkReplayed, CopiesAccounted, AttemptsPublished, DlqTypeOK
  <2>7. QED
    BY <2>5, <2>6
<1>5. CASE UNCHANGED dlqVars
  BY <1>5 DEF dlqVars, DlqTypeOK, CopiesAccounted, AttemptsPublished, Publishing, Marking, UnderWay
<1>6. QED
  BY <1>1, <1>2, <1>3, <1>4, <1>5 DEF DlqNext

\* The strengthening is an invariant of replays, drops and their faults.
LEMMA DlqInvariance == DlqSpec => []DlqInv
BY DlqInitInv, DlqStepInv, PTL DEF DlqSpec

\* ReplayDLQ, any number of operators: every copy of the event beyond the first
\* is paid for by a replay that overlapped another or whose UPDATE failed.
THEOREM DlqExtraCopyNeedsRace == DlqSpec => []ExtraCopyNeedsRace
<1>1. DlqInv => ExtraCopyNeedsRace
  <2> SUFFICES ASSUME DlqInv PROVE ExtraCopyNeedsRace
    OBVIOUS
  <2>1. Cardinality(Publishing) \in Nat
    BY CountsAreNat DEF Publishing
  <2>2. QED
    BY <2>1 DEF DlqInv, DlqTypeOK, CopiesAccounted, ExtraCopyNeedsRace
<1>2. QED
  BY <1>1, DlqInvariance, PTL

\* ReplayDLQ, any number of operators: the attempts counted were published, and
\* so was a row marked replayed, whatever was dropped or failed in between.
THEOREM DlqReplayedWasPublished == DlqSpec => []ReplayedWasPublished
<1>1. DlqInv => ReplayedWasPublished
  <2> SUFFICES ASSUME DlqInv PROVE ReplayedWasPublished
    OBVIOUS
  <2>1. Cardinality(Marking) \in Nat
    BY CountsAreNat DEF Marking
  <2>2. QED
    BY <2>1 DEF DlqInv, DlqTypeOK, AttemptsPublished, ReplayedWasPublished
<1>2. QED
  BY <1>1, DlqInvariance, PTL
=============================================================================
