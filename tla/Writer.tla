------------------------------- MODULE Writer -------------------------------
(***************************************************************************)
(* The ClickHouse writer (ingest/writer/src/main.rs): competing consumers  *)
(* of the QEET_LOGS JetStream work queue that batch records, insert each   *)
(* table's group under an insert-deduplication token, publish log records  *)
(* to the live tail and acknowledge the batch only when every insert       *)
(* succeeded.  JetStream (delivery, ack_wait, max_age) and ClickHouse      *)
(* (deduplication window, failures) are external and modelled from the way *)
(* the writer configures and calls them.                                   *)
(*                                                                         *)
(* A record's content is abstracted to its signal (last token of the NATS  *)
(* subject), whether its payload parses, and the ULID in its `id' field.   *)
(***************************************************************************)
EXTENDS Naturals, Sequences, FiniteSets

CONSTANTS
    Message,      \* JetStream messages
    Worker,       \* writer replicas
    Id,           \* ULIDs
    signal,       \* [Message -> STRING]: last token of the message's subject
    idOf,         \* [Message -> Id]; a replayed payload repeats an id
    Malformed,    \* messages whose payload is not JSON
    Poison,       \* messages whose row ClickHouse refuses
    BatchMax,     \* BATCH_MAX
    DedupWindow   \* non_replicated_deduplication_window

VARIABLES
    \* JetStream
    state,        \* [Message -> MessageState]
    \* each writer process
    pc,           \* [Worker -> {"fetch", "insert", "ack"}]
    batch,        \* [Worker -> SUBSET Message]: msgs, minus the ones acked
    todo,         \* [Worker -> SUBSET Table]: groups not inserted yet
    allOk,        \* [Worker -> BOOLEAN]: all_ok
    \* ClickHouse
    copies,       \* [Message -> 0..Many]: rows holding the message
    window,       \* [Table -> Seq(Token)]: tokens the table remembers
    \* Redis
    tailed        \* messages published on tail.{tenant}.{service}

streamVars == <<state>>
writerVars == <<pc, batch, todo, allOk>>
storeVars  == <<copies, window>>
vars == <<state, pc, batch, todo, allOk, copies, window, tailed>>

Table == {"logs", "metrics", "traces"}
MessageState == {"new", "ready", "outstanding", "acked", "expired"}

\* The number of copies of a row is told apart up to "more than one".
Many == 2
More(n) == IF n < Many THEN n + 1 ELSE Many

ASSUME ConstantsAssumption ==
    /\ IsFiniteSet(Message)
    /\ signal \in [Message -> STRING]
    /\ idOf \in [Message -> Id]
    /\ Malformed \subseteq Message
    /\ Poison \subseteq Message
    /\ BatchMax \in Nat \ {0}
    /\ DedupWindow \in Nat \ {0}

-----------------------------------------------------------------------------
(* Routing and grouping of one batch *)

\* signal_table and from_slice: a message on an unknown subject, or whose
\* payload does not parse, is skipped (and later acked with the batch).
Routable(m) == signal[m] \in Table /\ m \notin Malformed

Group(S, t) == {m \in S : Routable(m) /\ signal[m] = t}

\* Mutant: the subject's signal is taken for a table without looking it up.
GroupSignals(S) == {signal[m] : m \in S}

GroupTables(S) == {t \in Table : Group(S, t) # {}}

\* A hash over the sorted ids of the group: order-independent, and injective
\* on the multiset of ids.
dedup_token(G) == [i \in Id |-> Cardinality({m \in G : idOf[m] = i})]

Token == [Id -> Nat]

Init ==
    /\ state = [m \in Message |-> "new"]
    /\ pc = [w \in Worker |-> "fetch"]
    /\ batch = [w \in Worker |-> {}]
    /\ todo = [w \in Worker |-> {}]
    /\ allOk = [w \in Worker |-> TRUE]
    /\ copies = [m \in Message |-> 0]
    /\ window = [t \in Table |-> <<>>]
    /\ tailed = {}

-----------------------------------------------------------------------------
(* JetStream *)

\* The gateway, or a DLQ replay, publishes a message to the stream.
Publish(m) ==
    /\ state[m] = "new"
    /\ state' = [state EXCEPT ![m] = "ready"]
    /\ UNCHANGED <<writerVars, storeVars, tailed>>

\* ack_wait runs out: the message is offered again, although the worker that
\* holds it may still be inserting it.
AckWait(m) ==
    /\ state[m] = "outstanding"
    /\ state' = [state EXCEPT ![m] = "ready"]
    /\ UNCHANGED <<writerVars, storeVars, tailed>>

\* max_age: the stream drops a message that has waited 24 hours.
Expire(m) ==
    /\ state[m] \in {"ready", "outstanding"}
    /\ state' = [state EXCEPT ![m] = "expired"]
    /\ UNCHANGED <<writerVars, storeVars, tailed>>

-----------------------------------------------------------------------------
(* ClickHouse *)

Remember(win, tok) ==
    IF Len(win) < DedupWindow THEN Append(win, tok) ELSE Append(Tail(win), tok)

Known(win, tok) == \E k \in 1..Len(win) : win[k] = tok

\* Mutant: no insert_deduplication_token is sent.
CommitWithoutToken(t, G) ==
    /\ copies' = [m \in Message |-> IF m \in G THEN More(copies[m]) ELSE copies[m]]
    /\ window' = [window EXCEPT ![t] = Remember(@, dedup_token(G))]

\* The table takes the group's rows in one block, unless it remembers the
\* token, in which case the block is discarded and reported as inserted.
Commit(t, G) ==
    IF Known(window[t], dedup_token(G))
    THEN UNCHANGED storeVars
    ELSE /\ copies' = [m \in Message |->
                         IF m \in G THEN More(copies[m]) ELSE copies[m]]
         /\ window' = [window EXCEPT ![t] = Remember(@, dedup_token(G))]

-----------------------------------------------------------------------------
(* The writer's loop *)

\* consumer.batch(): at most BatchMax of the messages on offer.
Fetch(w, S) ==
    /\ pc[w] = "fetch"
    /\ S # {}
    /\ Cardinality(S) <= BatchMax
    /\ \A m \in S : state[m] = "ready"
    /\ state' = [m \in Message |-> IF m \in S THEN "outstanding" ELSE state[m]]
    /\ pc' = [pc EXCEPT ![w] = "insert"]
    /\ batch' = [batch EXCEPT ![w] = S]
    /\ todo' = [todo EXCEPT ![w] = GroupTables(S)]
    /\ allOk' = [allOk EXCEPT ![w] = TRUE]
    /\ UNCHANGED <<storeVars, tailed>>

\* insert() returns Ok; the group's log records are published to the tail, each
\* PUBLISH failing silently (only the members of D get through).
InsertOk(w, t, D) ==
    /\ pc[w] = "insert"
    /\ t \in todo[w]
    /\ Group(batch[w], t) \cap Poison = {}
    /\ D \subseteq (IF t = "logs" THEN Group(batch[w], t) ELSE {})
    /\ Commit(t, Group(batch[w], t))
    /\ tailed' = tailed \cup D
    /\ todo' = [todo EXCEPT ![w] = @ \ {t}]
    /\ UNCHANGED <<streamVars, pc, batch, allOk>>

\* Mutant: the tail is published before the result of the insert is known.
InsertErrTailed(w, t, committed) ==
    /\ pc[w] = "insert"
    /\ t \in todo[w]
    /\ committed => Group(batch[w], t) \cap Poison = {}
    /\ IF committed THEN Commit(t, Group(batch[w], t)) ELSE UNCHANGED storeVars
    /\ tailed' = tailed \cup (IF t = "logs" THEN Group(batch[w], t) ELSE {})
    /\ allOk' = [allOk EXCEPT ![w] = FALSE]
    /\ todo' = [todo EXCEPT ![w] = @ \ {t}]
    /\ UNCHANGED <<streamVars, pc, batch>>

\* insert() returns Err: the block was refused or never arrived, or it was
\* committed and only the response was lost.  The other tables go on.
InsertErr(w, t, committed) ==
    /\ pc[w] = "insert"
    /\ t \in todo[w]
    /\ committed => Group(batch[w], t) \cap Poison = {}
    /\ IF committed THEN Commit(t, Group(batch[w], t)) ELSE UNCHANGED storeVars
    /\ allOk' = [allOk EXCEPT ![w] = FALSE]
    /\ todo' = [todo EXCEPT ![w] = @ \ {t}]
    /\ UNCHANGED <<streamVars, pc, batch, tailed>>

\* Mutant: all_ok is not consulted.
StartAckAnyway(w) ==
    /\ pc[w] = "insert"
    /\ todo[w] = {}
    /\ pc' = [pc EXCEPT ![w] = "ack"]
    /\ UNCHANGED <<streamVars, batch, todo, allOk, storeVars, tailed>>

\* The batch is acked only if every insert succeeded ...
StartAck(w) ==
    /\ pc[w] = "insert"
    /\ todo[w] = {}
    /\ allOk[w]
    /\ pc' = [pc EXCEPT ![w] = "ack"]
    /\ UNCHANGED <<streamVars, batch, todo, allOk, storeVars, tailed>>

\* ... otherwise it is left unacked, for JetStream to redeliver.
Abandon(w) ==
    /\ pc[w] = "insert"
    /\ todo[w] = {}
    /\ ~allOk[w]
    /\ pc' = [pc EXCEPT ![w] = "fetch"]
    /\ batch' = [batch EXCEPT ![w] = {}]
    /\ UNCHANGED <<streamVars, todo, allOk, storeVars, tailed>>

\* m.ack(): fire and forget; it may fail or be lost.  It settles the message
\* even if ack_wait has made it available again.
Ack(w, m, arrives) ==
    /\ pc[w] = "ack"
    /\ m \in batch[w]
    /\ batch' = [batch EXCEPT ![w] = @ \ {m}]
    /\ pc' = [pc EXCEPT ![w] = IF batch[w] = {m} THEN "fetch" ELSE "ack"]
    /\ state' = IF arrives /\ state[m] \in {"ready", "outstanding"}
                THEN [state EXCEPT ![m] = "acked"]
                ELSE state
    /\ UNCHANGED <<todo, allOk, storeVars, tailed>>

\* The process dies (or `messages().await?' fails and main returns) and is
\* restarted: it holds no state across runs.
Crash(w) ==
    /\ pc[w] # "fetch"
    /\ pc' = [pc EXCEPT ![w] = "fetch"]
    /\ batch' = [batch EXCEPT ![w] = {}]
    /\ todo' = [todo EXCEPT ![w] = {}]
    /\ allOk' = [allOk EXCEPT ![w] = TRUE]
    /\ UNCHANGED <<streamVars, storeVars, tailed>>

Stream == \E m \in Message : Publish(m) \/ AckWait(m) \/ Expire(m)

Work(w) ==
    \/ \E S \in SUBSET Message : Fetch(w, S)
    \/ \E t \in Table : \E D \in SUBSET Message : InsertOk(w, t, D)
    \/ \E t \in Table, committed \in BOOLEAN : InsertErr(w, t, committed)
    \/ StartAck(w)
    \/ Abandon(w)
    \/ \E m \in Message, arrives \in BOOLEAN : Ack(w, m, arrives)

Next == Stream \/ \E w \in Worker : Work(w) \/ Crash(w)

Spec == Init /\ [][Next]_vars

-----------------------------------------------------------------------------
(* Fairness.  A running worker goes on with what it can do without an        *)
(* answer from outside; JetStream redelivers after ack_wait and, serving      *)
(* redeliveries first and then in stream order, passes no message over for    *)
(* ever; a record ClickHouse does not refuse is accepted in some attempt.     *)
(* Publish, Expire, Crash, failed inserts and lost acks are never required.   *)

FetchOf(m) == \E w \in Worker, S \in SUBSET Message : m \in S /\ Fetch(w, S)

InsertOf(m) ==
    \E w \in Worker, D \in SUBSET Message :
        m \in Group(batch[w], signal[m]) /\ InsertOk(w, signal[m], D)

Fairness ==
    /\ \A m \in Message : WF_vars(AckWait(m))
    /\ \A m \in Message : SF_vars(FetchOf(m))
    /\ \A m \in Message : SF_vars(InsertOf(m))
    /\ \A w \in Worker : WF_vars(Work(w))

FairSpec == Spec /\ Fairness

-----------------------------------------------------------------------------
(* Properties *)

\* Type invariant of the queue, the workers, the tables and the tail.
TypeOK ==
    /\ state \in [Message -> MessageState]
    /\ pc \in [Worker -> {"fetch", "insert", "ack"}]
    /\ batch \in [Worker -> SUBSET Message]
    /\ todo \in [Worker -> SUBSET Table]
    /\ allOk \in [Worker -> BOOLEAN]
    /\ copies \in [Message -> 0..Many]
    /\ window \in [Table -> Seq(Token)]
    /\ tailed \subseteq Message

\* Two messages that carry the same record (a replayed payload).
SameRecord(m, n) ==
    Routable(m) /\ Routable(n) /\ signal[m] = signal[n] /\ idOf[m] = idOf[n]

Stored(m) == \E n \in Message : SameRecord(m, n) /\ copies[n] > 0

\* "Messages are acked only when every table's insert in the batch succeeds"
\* (main.rs:8): a record that has left the queue by acknowledgement is in its
\* table, whatever redeliveries, crashes, lost responses and deduplicated
\* blocks happened on the way, and whichever worker acked it.
AckedIsStored ==
    \A m \in Message : state[m] = "acked" /\ Routable(m) => Stored(m)

\* The live tail (main.rs:132-142) never shows a record the table does not
\* hold: it is published after the insert, and a block deduplicated away was
\* stored before.
TailedIsStored == \A m \in tailed : Stored(m)

\* The pipeline as its clients see it (refinement mapping): offered, whether or
\* not a worker holds it, is "taken"; a row in the table is "stored".
PhaseOf(s) ==
    CASE s = "new"     -> "new"
      [] s = "acked"   -> "settled"
      [] s = "expired" -> "dropped"
      [] OTHER         -> "taken"

ALO == INSTANCE AtLeastOnce WITH
    Message  <- Message,
    Storable <- {m \in Message : Routable(m)},
    Same     <- SameRecord,
    phase    <- [m \in Message |-> PhaseOf(state[m])],
    stored   <- {m \in Message : copies[m] > 0}

\* The writer implements at-least-once storage: every step of the loop, of
\* JetStream and of ClickHouse is a step of AtLeastOnce or leaves it alone.
\* In particular rows appear only for published messages, and settling comes
\* after storing although the two happen in different systems.
ImplementsAtLeastOnce == ALO!Spec

\* What the deduplication token does guarantee (main.rs:130, 201): as long as
\* no token has been forgotten, a record gets a second row only from a group
\* of another composition; re-inserting the same group never adds a row.
DuplicateNeedsRegrouping ==
    \A m \in Message :
        copies[m] = Many =>
            \E j, k \in DOMAIN window[signal[m]] :
                /\ window[signal[m]][j] # window[signal[m]][k]
                /\ window[signal[m]][j][idOf[m]] > 0
                /\ window[signal[m]][k][idOf[m]] > 0

\* Inserts are idempotent: no record ever has two rows, in one message or in
\* two messages with the same id.
AtMostOneRow ==
    /\ \A m \in Message : copies[m] <= 1
    /\ \A m, n \in Message :
         SameRecord(m, n) /\ copies[m] > 0 /\ copies[n] > 0 => m = n

\* A record on offer that ClickHouse can take is eventually in its table, or
\* has outlived max_age: redelivery after every failed, lost or crashed
\* attempt (main.rs:160) keeps it coming back.
OfferedIsStored ==
    \A m \in Message \ Poison :
        Routable(m) /\ state[m] = "ready" ~> Stored(m) \/ state[m] = "expired"

=============================================================================
