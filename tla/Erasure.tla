------------------------------ MODULE Erasure -------------------------------
(***************************************************************************)
(* DPDP/GDPR erasure (platform/api/handler/erasure.go): a request is          *)
(* registered, a DELETE mutation is submitted for each signal table, and the  *)
(* outcome is written back.  Mutations run later and cover the rows stored    *)
(* when they were submitted; records still in the stream are stored at any    *)
(* time.  ClickHouse refuses a mutation that names a column its table lacks.  *)
(***************************************************************************)
EXTENDS Integers, Sequences, FiniteSets

CONSTANTS
    Record,        \* [tenant, table, user, time] of the records there are
    Caller,        \* the requesting tenant
    LinkageKey,    \* user_linkage_keys a request may name
    From, Until    \* times a request may name

VARIABLES
    stored,        \* records in ClickHouse
    streamed,      \* records accepted and not yet written
    erasure,       \* the request: what it asks for and how far it is
    erasure_row,   \* its row: "none", "pending", "completed", "failed"
    mutations,     \* submitted and not yet applied: [table, rows]
    storedBefore,  \* history: what was stored when the request was registered
    refused        \* history: tables whose mutation was not submitted, and why

erasureVars == <<stored, streamed, erasure, erasure_row, mutations, storedBefore, refused>>

NoUser == ""       \* user_linkage_key left out; a time left out is 0
Request == [user : {NoUser} \cup LinkageKey, from : {0} \cup From, until : {0} \cup Until]

SignalTable == <<"logs", "traces", "metrics">>

\* ClickHouse keeps records in the signal tables.
ASSUME RecordAssumption == \A r \in Record : \E n \in 1..3 : r.table = SignalTable[n]

\* ClickHouse's schema, as far as the predicates use it (external).
HasColumn(table, col) ==
    \/ col \in {"tenant_id", "timestamp"}
    \/ col = "attributes" /\ table \in {"traces", "metrics"}

\* The columns of the predicates, and the rows they select.
predColumns(table, by) ==
    {"tenant_id"} \cup (IF by.user # NoUser THEN {IF table = "metrics" THEN "attributes" ELSE "extra_fields"} ELSE {})
                  \cup (IF by.from # 0 \/ by.until # 0 THEN {"timestamp"} ELSE {})

Known(table, by) == \A c \in predColumns(table, by) : HasColumn(table, c)

\* The client: an error of transport and a status that is not 2xx are errors;
\* ClickHouse may have taken (took) the statement whose answer is lost.
Exec(took, known) == took /\ known

predRows(table, by) ==
    {r \in stored : /\ r.table = table /\ r.tenant = Caller
                    /\ by.user # NoUser => r.user = by.user
                    /\ by.from # 0 => r.time >= by.from
                    /\ by.until # 0 => r.time <= by.until}

ErasureInit ==
    /\ stored \in SUBSET Record
    /\ streamed = Record \ stored
    /\ erasure = [pc |-> "idle", by |-> [user |-> NoUser, from |-> 0, until |-> 0], at |-> 1]
    /\ erasure_row = "none"
    /\ mutations = {}
    /\ storedBefore = {}
    /\ refused = [schema |-> {}, fault |-> {}]

\* Without a key or a time 400; the row is inserted before ClickHouse is touched.
Register(by, ok) ==
    /\ erasure.pc = "idle" /\ (by.user # NoUser \/ by.from # 0 \/ by.until # 0)
    /\ erasure' = [erasure EXCEPT !.pc = IF ok THEN "submit" ELSE "done", !.by = by]
    /\ erasure_row' = IF ok THEN "pending" ELSE "none"
    /\ storedBefore' = stored
    /\ UNCHANGED <<stored, streamed, mutations, refused>>

\* Mutant: the error of the last table is dropped.
SubmitQuietly(ok, took) ==
    /\ erasure.pc = "submit" /\ erasure.at <= Len(SignalTable) /\ (ok => took)
    /\ LET t == SignalTable[erasure.at]
           known == Known(t, erasure.by)
       IN  /\ mutations' = IF Exec(took, known) THEN mutations \cup {[table |-> t, rows |-> predRows(t, erasure.by)]}
                           ELSE mutations
           /\ refused' = [schema |-> refused.schema \cup IF known THEN {} ELSE {t}, fault |-> refused.fault]
    /\ erasure' = [erasure EXCEPT !.at = @ + 1]
    /\ UNCHANGED <<stored, streamed, erasure_row, storedBefore>>

\* One ALTER TABLE ... DELETE; an error does not stop the loop.
Submit(ok, took) ==
    /\ erasure.pc = "submit" /\ erasure.at <= Len(SignalTable) /\ (ok => took)
    /\ LET t == SignalTable[erasure.at]
           known == Known(t, erasure.by)
       IN  /\ mutations' = IF Exec(took, known) THEN mutations \cup {[table |-> t, rows |-> predRows(t, erasure.by)]}
                           ELSE mutations
           /\ refused' = [schema |-> refused.schema \cup IF known THEN {} ELSE {t},
                          fault |-> refused.fault \cup IF ok THEN {} ELSE {t}]
    /\ erasure' = [erasure EXCEPT !.at = @ + 1]
    /\ UNCHANGED <<stored, streamed, erasure_row, storedBefore>>

\* The UPDATE's error is dropped: the row then stays pending.
WriteReceipt(ok) ==
    /\ erasure.pc = "submit" /\ erasure.at > Len(SignalTable)
    /\ erasure_row' = IF ~ok THEN erasure_row
                      ELSE IF refused.schema \cup refused.fault = {} THEN "completed" ELSE "failed"
    /\ erasure' = [erasure EXCEPT !.pc = "done"]
    /\ UNCHANGED <<stored, streamed, mutations, storedBefore, refused>>

\* ClickHouse applies a mutation in the background (external).
Mutate(m) ==
    /\ m \in mutations
    /\ stored' = stored \ m.rows
    /\ mutations' = mutations \ {m}
    /\ UNCHANGED <<streamed, erasure, erasure_row, storedBefore, refused>>

\* The writer stores a record that was in the stream.
StoreRecord(r) ==
    /\ r \in streamed
    /\ stored' = stored \cup {r}
    /\ streamed' = streamed \ {r}
    /\ UNCHANGED <<erasure, erasure_row, mutations, storedBefore, refused>>

ErasureNext ==
    \/ \E ok \in BOOLEAN : \/ \E by \in Request : Register(by, ok)
                           \/ \E took \in BOOLEAN : Submit(ok, took)
                           \/ WriteReceipt(ok)
    \/ \E m \in mutations : Mutate(m)
    \/ \E r \in streamed : StoreRecord(r)

ErasureSpec == ErasureInit /\ [][ErasureNext]_erasureVars

-----------------------------------------------------------------------------

Asked(r) ==
    /\ r.tenant = Caller
    /\ erasure.by.user # NoUser => r.user = erasure.by.user
    /\ erasure.by.from # 0 => r.time >= erasure.by.from
    /\ erasure.by.until # 0 => r.time <= erasure.by.until

\* CreateErasure: once a request is completed and ClickHouse has applied its
\* mutations, no record that was stored when it was registered and that it asks
\* for is left, in whatever table.
CompletedErases ==
    erasure_row = "completed" /\ mutations = {} => ~\E r \in storedBefore \cap stored : Asked(r)

\* CreateErasure: no record of another tenant, or that was not asked for, is
\* ever deleted.
ErasesOnlyAsked == \A r \in Record : r \in stored \cup streamed \/ Asked(r)

\* CreateErasure: a completed request erased what it asked for, all of it and
\* nothing else, with records of both kinds stored while it ran.
ErasureExact == CompletedErases /\ ErasesOnlyAsked

\* SECURITY.md promises erasure by user_linkage_key across logs, metrics and
\* traces: a request that met no fault is completed.
FaultFreeCompletes == erasure_row = "failed" => refused.fault # {}
=============================================================================
