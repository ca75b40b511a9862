---------------------------- MODULE WriterProofs ----------------------------
(***************************************************************************)
(* Proofs about Writer, for every set of messages, workers and ids, every  *)
(* batch size and every deduplication window: type correctness, no         *)
(* acknowledged record is missing from its table, the live tail shows only *)
(* stored records, the writer implements AtLeastOnce, and while no token   *)
(* is forgotten a second row needs another grouping.                       *)
(***************************************************************************)
EXTENDS Writer, FiniteSetTheorems, TLAPS

-----------------------------------------------------------------------------
(* The inductive invariant *)

\* A worker holds only messages that were published.
HeldWasPublished ==
    \A w \in Worker : \A m \in batch[w] : state[m] # "new"

\* The row of every message belongs to a published, routable message.
RowWasPublished ==
    \A m \in Message : copies[m] > 0 => Routable(m) /\ state[m] # "new"

\* The table holds every record whose id is part of a token it remembers: this
\* is why a deduplicated block loses nothing.
RememberedIsStored ==
    \A t \in Table : \A k \in 1..Len(window[t]) : \A i \in Id :
        window[t][k][i] > 0 =>
            \E n \in Message :
                Routable(n) /\ signal[n] = t /\ idOf[n] = i /\ copies[n] > 0

\* While no insert of the batch has failed, the groups already inserted are in
\* their tables; a worker that acks has inserted them all.
InsertedIsStored ==
    \A w \in Worker : \A m \in batch[w] :
        Routable(m) =>
            /\ pc[w] = "insert" /\ allOk[w] /\ signal[m] \notin todo[w] => Stored(m)
            /\ pc[w] = "ack" => Stored(m)

IInv ==
    /\ TypeOK
    /\ HeldWasPublished
    /\ RowWasPublished
    /\ RememberedIsStored
    /\ InsertedIsStored
    /\ AckedIsStored
    /\ TailedIsStored

-----------------------------------------------------------------------------
(* Tokens *)

\* Counting ids yields a natural number for each id.
LEMMA TokenType ==
    ASSUME NEW G \in SUBSET Message
    PROVE  dedup_token(G) \in Token
<1>1. ASSUME NEW i \in Id
      PROVE  Cardinality({m \in G : idOf[m] = i}) \in Nat
  <2>1. IsFiniteSet({m \in G : idOf[m] = i})
    BY FS_Subset, ConstantsAssumption
  <2>2. QED
    BY <2>1, FS_CardinalityType
<1>2. QED
  BY <1>1 DEF dedup_token, Token

\* A group's token counts exactly the ids of its members.
LEMMA TokenCounts ==
    ASSUME NEW G \in SUBSET Message, NEW i \in Id
    PROVE  dedup_token(G)[i] > 0 <=> \E m \in G : idOf[m] = i
<1> DEFINE H == {m \in G : idOf[m] = i}
<1>1. IsFiniteSet(H)
  BY FS_Subset, ConstantsAssumption
<1>2. Cardinality(H) \in Nat /\ (Cardinality(H) = 0 <=> H = {})
  BY <1>1, FS_CardinalityType, FS_EmptySet
<1>3. dedup_token(G)[i] = Cardinality(H)
  BY DEF dedup_token
<1>4. H # {} <=> \E m \in G : idOf[m] = i
  OBVIOUS
<1> HIDE DEF H
<1>5. QED
  BY <1>2, <1>3, <1>4

-----------------------------------------------------------------------------
(* ClickHouse: what a committed insert does *)

\* The window stays a sequence of tokens.
LEMMA RememberType ==
    ASSUME NEW win \in Seq(Token), NEW tok \in Token
    PROVE  Remember(win, tok) \in Seq(Token)
  BY ConstantsAssumption DEF Remember

\* Every token in the window after remembering tok was there before, or is tok.
LEMMA RememberRange ==
    ASSUME NEW win \in Seq(Token), NEW tok \in Token,
           NEW k \in 1..Len(Remember(win, tok))
    PROVE  \/ Remember(win, tok)[k] = tok
           \/ \E j \in 1..Len(win) : Remember(win, tok)[k] = win[j]
  BY ConstantsAssumption DEF Remember

\* A committed insert keeps the types, removes no row, adds rows of the group
\* only, keeps the window covered, and leaves every record of the group stored:
\* by this block, or by the one that introduced the token.
LEMMA CommitEffect ==
    ASSUME TypeOK, RememberedIsStored,
           NEW t \in Table, NEW S \in SUBSET Message,
           Commit(t, Group(S, t))
    PROVE  /\ copies' \in [Message -> 0..Many]
           /\ window' \in [Table -> Seq(Token)]
           /\ \A m \in Message : copies[m] > 0 => copies'[m] > 0
           /\ \A m \in Message : copies'[m] > 0 /\ ~(copies[m] > 0) => m \in Group(S, t)
           /\ RememberedIsStored'
           /\ \A m \in Group(S, t) : Stored(m)'
<1> DEFINE G == Group(S, t)
           tok == dedup_token(G)
<1>0. G \in SUBSET Message /\ \A m \in G : Routable(m) /\ signal[m] = t /\ idOf[m] \in Id
  BY ConstantsAssumption DEF Group
<1>t. tok \in Token
  BY <1>0, TokenType
<1>c. \A m \in G : tok[idOf[m]] > 0
  BY <1>0, TokenCounts
<1>d. \A i \in Id : tok[i] > 0 => \E m \in G : idOf[m] = i
  BY <1>0, TokenCounts
<1> HIDE DEF G, tok
<1>1. CASE Known(window[t], tok)
  <2>1. UNCHANGED <<copies, window>>
    BY <1>1 DEF Commit, storeVars, G, tok
  <2>2. PICK k \in 1..Len(window[t]) : window[t][k] = tok
    BY <1>1 DEF Known
  <2>3. ASSUME NEW m \in G
        PROVE  \E n \in Message :
                 Routable(n) /\ signal[n] = t /\ idOf[n] = idOf[m] /\ copies[n] > 0
    BY <1>0, <1>c, <2>2 DEF RememberedIsStored
  <2>4. \A m \in G : Stored(m)'
    BY <1>0, <2>1, <2>3 DEF Stored, SameRecord
  <2>5. QED
    BY <2>1, <2>4 DEF TypeOK, RememberedIsStored, G
<1>2. CASE ~Known(window[t], tok)
  <2>1. /\ copies' = [m \in Message |-> IF m \in G THEN More(copies[m]) ELSE copies[m]]
        /\ window' = [window EXCEPT ![t] = Remember(window[t], tok)]
    BY <1>2 DEF Commit, G, tok
  <2>c. copies \in [Message -> 0..2]
    BY DEF TypeOK, Many
  <2>m. \A m \in Message : /\ More(copies[m]) \in 0..2
                           /\ More(copies[m]) > 0
    BY <2>c DEF More, Many
  <2>2. copies' \in [Message -> 0..Many]
    BY <2>1, <2>c, <2>m DEF Many
  <2>3. window' \in [Table -> Seq(Token)]
    BY <2>1, <1>t, RememberType DEF TypeOK
  <2>4. \A m \in Message : copies[m] > 0 => copies'[m] > 0
    BY <2>1, <2>c, <2>m
  <2>5. \A m \in Message : copies'[m] > 0 /\ ~(copies[m] > 0) => m \in G
    BY <2>1 DEF TypeOK
  <2>6. \A m \in G : copies'[m] > 0
    BY <1>0, <2>1, <2>m
  <2>7. \A m \in G : Stored(m)'
    BY <1>0, <2>6 DEF Stored, SameRecord
  <2>8. RememberedIsStored'
    <3> SUFFICES ASSUME NEW u \in Table, NEW k \in 1..Len(window'[u]), NEW i \in Id,
                        window'[u][k][i] > 0
                 PROVE  \E n \in Message :
                          Routable(n) /\ signal[n] = u /\ idOf[n] = i /\ copies'[n] > 0
      BY DEF RememberedIsStored
    <3>1. CASE \E j \in 1..Len(window[u]) : window'[u][k] = window[u][j]
      BY <3>1, <2>4 DEF RememberedIsStored
    <3>2. CASE u = t /\ window'[u][k] = tok
      BY <3>2, <1>0, <1>d, <2>6
    <3>3. CASE u # t
      <4>1. window'[u] = window[u]
        BY <3>3, <2>1 DEF TypeOK
      <4>2. QED
        BY <4>1, <3>1
    <3>4. CASE u = t
      <4>1. window'[t] = Remember(window[t], tok) /\ window[t] \in Seq(Token)
        BY <2>1 DEF TypeOK
      <4>2. QED
        BY <4>1, <3>4, <3>1, <3>2, <1>t, RememberRange
    <3>5. QED
      BY <3>3, <3>4
  <2>9. QED
    BY <2>2, <2>3, <2>4, <2>5, <2>7, <2>8 DEF G
<1>3. QED
  BY <1>1, <1>2

\* Rows that stay keep records stored.
LEMMA StoredStays ==
    ASSUME NEW m \in Message,
           \A n \in Message : copies[n] > 0 => copies'[n] > 0,
           Stored(m)
    PROVE  Stored(m)'
  BY DEF Stored, SameRecord

-----------------------------------------------------------------------------
(* One lemma per action: what each step does to the invariant *)

\* Steps that leave the tables alone leave what is stored alone.
LEMMA StoreUnchanged ==
    ASSUME IInv, UNCHANGED <<copies, window>>
    PROVE  /\ \A m \in Message : Stored(m)' <=> Stored(m)
           /\ RememberedIsStored'
  BY DEF IInv, Stored, SameRecord, RememberedIsStored

\* Publishing a message keeps the invariant: no worker holds it and no row is its own.
LEMMA PublishInv ==
    ASSUME IInv, NEW m \in Message, Publish(m)
    PROVE  IInv'
<1> USE DEF Publish, writerVars, storeVars
<1>1. \A n \in Message : (Stored(n)' <=> Stored(n))
  BY StoreUnchanged
<1>2. /\ state' \in [Message -> MessageState]
      /\ \A n \in Message : state'[n] = IF n = m THEN "ready" ELSE state[n]
  BY DEF IInv, TypeOK, MessageState
<1>3. TypeOK'
  BY <1>2 DEF IInv, TypeOK
<1>4. HeldWasPublished' /\ RowWasPublished'
  BY <1>2 DEF IInv, TypeOK, HeldWasPublished, RowWasPublished
<1>5. InsertedIsStored'
  BY <1>1 DEF IInv, TypeOK, InsertedIsStored
<1>6. AckedIsStored' /\ TailedIsStored'
  BY <1>1, <1>2 DEF IInv, TypeOK, AckedIsStored, TailedIsStored
<1>7. QED
  BY <1>3, <1>4, <1>5, <1>6, StoreUnchanged DEF IInv

\* ack_wait and max_age only move a published message: every part of the invariant survives.
LEMMA RequeueInv ==
    ASSUME IInv, NEW m \in Message, AckWait(m) \/ Expire(m)
    PROVE  IInv'
<1> USE DEF AckWait, Expire, writerVars, storeVars
<1>0. UNCHANGED <<pc, batch, todo, allOk, copies, window, tailed>>
  OBVIOUS
<1>1. \A n \in Message : (Stored(n)' <=> Stored(n))
  BY <1>0, StoreUnchanged
<1>2. /\ state' \in [Message -> MessageState]
      /\ \A n \in Message : \/ state'[n] = state[n]
                            \/ state'[n] \in {"ready", "expired"}
  BY DEF IInv, TypeOK, MessageState
<1>3. TypeOK'
  BY <1>0, <1>2 DEF IInv, TypeOK
<1>4. HeldWasPublished' /\ RowWasPublished'
  BY <1>0, <1>2 DEF IInv, TypeOK, HeldWasPublished, RowWasPublished
<1>5. InsertedIsStored'
  BY <1>0, <1>1 DEF IInv, TypeOK, InsertedIsStored
<1>6. AckedIsStored' /\ TailedIsStored'
  BY <1>0, <1>1, <1>2 DEF IInv, TypeOK, AckedIsStored, TailedIsStored
<1>7. QED
  BY <1>0, <1>3, <1>4, <1>5, <1>6, StoreUnchanged DEF IInv

\* A fetched batch starts with every group still to insert, so nothing is claimed of it yet.
LEMMA FetchInv ==
    ASSUME IInv, NEW w \in Worker, NEW S \in SUBSET Message, Fetch(w, S)
    PROVE  IInv'
<1> USE DEF Fetch, storeVars
<1>0. UNCHANGED <<copies, window, tailed>>
  OBVIOUS
<1>1. \A n \in Message : (Stored(n)' <=> Stored(n))
  BY <1>0, StoreUnchanged
<1>2. /\ state' \in [Message -> MessageState]
      /\ \A n \in Message : state'[n] = IF n \in S THEN "outstanding" ELSE state[n]
  BY DEF IInv, TypeOK, MessageState
<1>3. TypeOK'
  BY <1>0, <1>2 DEF IInv, TypeOK, GroupTables
<1>4. HeldWasPublished' /\ RowWasPublished'
  BY <1>0, <1>2 DEF IInv, TypeOK, HeldWasPublished, RowWasPublished
<1>5. InsertedIsStored'
  <2> SUFFICES ASSUME NEW v \in Worker, NEW n \in batch'[v], Routable(n)
               PROVE  /\ pc'[v] = "insert" /\ allOk'[v] /\ signal[n] \notin todo'[v]
                           => Stored(n)'
                      /\ pc'[v] = "ack" => Stored(n)'
    BY DEF InsertedIsStored
  <2>1. CASE v = w
    <3>1. n \in S /\ n \in Group(S, signal[n]) /\ signal[n] \in Table
      BY <2>1 DEF IInv, TypeOK, Group, Routable
    <3>2. signal[n] \in todo'[v] /\ pc'[v] = "insert"
      BY <2>1, <3>1 DEF IInv, TypeOK, GroupTables
    <3>3. QED
      BY <3>2
  <2>2. CASE v # w
    <3>1. /\ n \in batch[v] /\ n \in Message
          /\ pc'[v] = pc[v] /\ allOk'[v] = allOk[v] /\ todo'[v] = todo[v]
      BY <2>2 DEF IInv, TypeOK
    <3>2. QED
      BY <3>1, <1>1 DEF IInv, InsertedIsStored
  <2>3. QED
    BY <2>1, <2>2
<1>6. AckedIsStored' /\ TailedIsStored'
  BY <1>0, <1>1, <1>2 DEF IInv, TypeOK, AckedIsStored, TailedIsStored
<1>7. QED
  BY <1>0, <1>3, <1>4, <1>5, <1>6, StoreUnchanged DEF IInv

\* After a successful insert, new or deduplicated, the group is in its table; so may be its tail.
LEMMA InsertOkInv ==
    ASSUME IInv, NEW w \in Worker, NEW t \in Table, NEW D \in SUBSET Message,
           InsertOk(w, t, D)
    PROVE  IInv'
<1> USE DEF InsertOk, streamVars
<1> DEFINE G == Group(batch[w], t)
<1>0. UNCHANGED <<state, pc, batch, allOk>> /\ batch[w] \in SUBSET Message
  BY DEF IInv, TypeOK
<1>1. /\ copies' \in [Message -> 0..Many]
      /\ window' \in [Table -> Seq(Token)]
      /\ \A m \in Message : copies[m] > 0 => copies'[m] > 0
      /\ \A m \in Message : copies'[m] > 0 /\ ~(copies[m] > 0) => m \in G
      /\ RememberedIsStored'
      /\ \A m \in G : Stored(m)'
  BY <1>0, CommitEffect DEF IInv
<1>2. \A m \in Message : Stored(m) => Stored(m)'
  BY <1>1, StoredStays
<1>3. \A m \in G : m \in Message /\ m \in batch[w] /\ Routable(m) /\ state[m] # "new"
  BY <1>0 DEF Group, IInv, HeldWasPublished
<1>g. D \subseteq G
  OBVIOUS
<1>4. TypeOK'
  BY <1>0, <1>1, <1>3, <1>g DEF IInv, TypeOK
<1>5. HeldWasPublished'
  BY <1>0 DEF IInv, HeldWasPublished
<1>6. RowWasPublished'
  BY <1>0, <1>1, <1>3 DEF IInv, RowWasPublished
<1>7. InsertedIsStored'
  <2> SUFFICES ASSUME NEW v \in Worker, NEW n \in batch'[v], Routable(n)
               PROVE  /\ pc'[v] = "insert" /\ allOk'[v] /\ signal[n] \notin todo'[v]
                           => Stored(n)'
                      /\ pc'[v] = "ack" => Stored(n)'
    BY DEF InsertedIsStored
  <2>1. n \in Message /\ n \in batch[v]
    BY <1>0 DEF IInv, TypeOK
  <2>2. CASE v = w /\ signal[n] = t
    BY <2>1, <2>2, <1>1 DEF Group
  <2>3. CASE ~(v = w /\ signal[n] = t)
    <3>1. signal[n] \notin todo'[v] => signal[n] \notin todo[v]
      BY <2>3 DEF IInv, TypeOK
    <3>2. QED
      BY <3>1, <2>1, <1>0, <1>2 DEF IInv, InsertedIsStored
  <2>4. QED
    BY <2>2, <2>3
<1>8. AckedIsStored'
  BY <1>0, <1>2 DEF IInv, AckedIsStored
<1>9. TailedIsStored'
  BY <1>1, <1>2, <1>g DEF IInv, TypeOK, TailedIsStored
<1>10. QED
  BY <1>1, <1>4, <1>5, <1>6, <1>7, <1>8, <1>9 DEF IInv

\* A failed insert clears allOk, so nothing is claimed of its group whether or not it committed.
LEMMA InsertErrInv ==
    ASSUME IInv, NEW w \in Worker, NEW t \in Table, NEW committed \in BOOLEAN,
           InsertErr(w, t, committed)
    PROVE  IInv'
<1> USE DEF InsertErr, streamVars
<1> DEFINE G == Group(batch[w], t)
<1>0. UNCHANGED <<state, pc, batch, tailed>> /\ batch[w] \in SUBSET Message
  BY DEF IInv, TypeOK
<1>1. /\ copies' \in [Message -> 0..Many]
      /\ window' \in [Table -> Seq(Token)]
      /\ \A m \in Message : copies[m] > 0 => copies'[m] > 0
      /\ \A m \in Message : copies'[m] > 0 /\ ~(copies[m] > 0) => m \in G
      /\ RememberedIsStored'
  <2>1. CASE committed
    BY <2>1, <1>0, CommitEffect DEF IInv
  <2>2. CASE ~committed
    BY <2>2, StoreUnchanged DEF IInv, TypeOK, storeVars
  <2>3. QED
    BY <2>1, <2>2
<1>2. \A m \in Message : Stored(m) => Stored(m)'
  BY <1>1, StoredStays
<1>3. \A m \in G : m \in Message /\ Routable(m) /\ state[m] # "new"
  BY <1>0 DEF Group, IInv, HeldWasPublished
<1>4. TypeOK'
  BY <1>0, <1>1 DEF IInv, TypeOK
<1>5. HeldWasPublished'
  BY <1>0 DEF IInv, HeldWasPublished
<1>6. RowWasPublished'
  BY <1>0, <1>1, <1>3 DEF IInv, RowWasPublished
<1>7. InsertedIsStored'
  <2> SUFFICES ASSUME NEW v \in Worker, NEW n \in batch'[v], Routable(n)
               PROVE  /\ pc'[v] = "insert" /\ allOk'[v] /\ signal[n] \notin todo'[v]
                           => Stored(n)'
                      /\ pc'[v] = "ack" => Stored(n)'
    BY DEF InsertedIsStored
  <2>1. n \in Message /\ n \in batch[v]
    BY <1>0 DEF IInv, TypeOK
  <2>2. CASE v = w
    BY <2>2, <1>0 DEF IInv, TypeOK
  <2>3. CASE v # w
    BY <2>3, <2>1, <1>0, <1>2 DEF IInv, TypeOK, InsertedIsStored
  <2>4. QED
    BY <2>2, <2>3
<1>8. AckedIsStored' /\ TailedIsStored'
  BY <1>0, <1>2 DEF IInv, TypeOK, AckedIsStored, TailedIsStored
<1>9. QED
  BY <1>1, <1>4, <1>5, <1>6, <1>7, <1>8 DEF IInv

\* The loop's own bookkeeping: deciding to ack, giving a batch up, dying.
LEMMA ControlInv ==
    ASSUME IInv, NEW w \in Worker, StartAck(w) \/ Abandon(w) \/ Crash(w)
    PROVE  IInv'
<1> USE DEF StartAck, Abandon, Crash, streamVars, storeVars
<1>0. UNCHANGED <<state, copies, window, tailed>>
  OBVIOUS
<1>1. \A n \in Message : (Stored(n)' <=> Stored(n))
  BY <1>0, StoreUnchanged
<1>2. TypeOK'
  BY <1>0 DEF IInv, TypeOK
<1>3. \A v \in Worker :
        /\ v # w => /\ pc'[v] = pc[v] /\ batch'[v] = batch[v]
                    /\ todo'[v] = todo[v] /\ allOk'[v] = allOk[v]
        /\ \/ batch'[w] = {}
           \/ /\ batch'[w] = batch[w] /\ pc'[w] = "ack"
              /\ pc[w] = "insert" /\ todo[w] = {} /\ allOk[w]
  BY DEF IInv, TypeOK
<1>4. HeldWasPublished' /\ RowWasPublished'
  BY <1>0, <1>3 DEF IInv, HeldWasPublished, RowWasPublished
<1>5. InsertedIsStored'
  <2> SUFFICES ASSUME NEW v \in Worker, NEW n \in batch'[v], Routable(n)
               PROVE  /\ pc'[v] = "insert" /\ allOk'[v] /\ signal[n] \notin todo'[v]
                           => Stored(n)'
                      /\ pc'[v] = "ack" => Stored(n)'
    BY DEF InsertedIsStored
  <2>1. n \in Message /\ n \in batch[v]
    BY <1>3 DEF IInv, TypeOK
  <2>2. CASE v = w
    BY <2>1, <2>2, <1>1, <1>3 DEF IInv, InsertedIsStored
  <2>3. CASE v # w
    BY <2>1, <2>3, <1>1, <1>3 DEF IInv, InsertedIsStored
  <2>4. QED
    BY <2>2, <2>3
<1>6. AckedIsStored' /\ TailedIsStored'
  BY <1>0, <1>1 DEF IInv, TypeOK, AckedIsStored, TailedIsStored
<1>7. QED
  BY <1>0, <1>2, <1>4, <1>5, <1>6, StoreUnchanged DEF IInv

\* An acknowledged message was in a batch whose groups had all been inserted.
LEMMA AckInv ==
    ASSUME IInv, NEW w \in Worker, NEW m \in Message, NEW arrives \in BOOLEAN,
           Ack(w, m, arrives)
    PROVE  IInv'
<1> USE DEF Ack, storeVars
<1>0. UNCHANGED <<todo, allOk, copies, window, tailed>>
  OBVIOUS
<1>1. \A n \in Message : (Stored(n)' <=> Stored(n))
  BY <1>0, StoreUnchanged
<1>2. /\ state' \in [Message -> MessageState]
      /\ \A n \in Message : \/ state'[n] = state[n]
                            \/ n = m /\ state'[n] = "acked"
  BY DEF IInv, TypeOK, MessageState
<1>3. TypeOK'
  BY <1>0, <1>2 DEF IInv, TypeOK
<1>4. \A v \in Worker :
        /\ batch'[v] \subseteq batch[v]
        /\ pc'[v] = pc[v] \/ (pc'[v] = "fetch")
  BY DEF IInv, TypeOK
<1>5. HeldWasPublished' /\ RowWasPublished'
  BY <1>0, <1>2, <1>4 DEF IInv, TypeOK, HeldWasPublished, RowWasPublished
<1>6. InsertedIsStored'
  BY <1>0, <1>1, <1>4 DEF IInv, TypeOK, InsertedIsStored
<1>7. Routable(m) => Stored(m)
  BY DEF IInv, InsertedIsStored
<1>8. AckedIsStored' /\ TailedIsStored'
  BY <1>0, <1>1, <1>2, <1>7 DEF IInv, TypeOK, AckedIsStored, TailedIsStored
<1>9. QED
  BY <1>0, <1>3, <1>5, <1>6, <1>8, StoreUnchanged DEF IInv

-----------------------------------------------------------------------------
(* The theorems *)

\* The initial state, with nothing published, satisfies the invariant.
LEMMA InitInv == Init => IInv
  BY DEF Init, IInv, TypeOK, HeldWasPublished, RowWasPublished, RememberedIsStored,
         InsertedIsStored, AckedIsStored, TailedIsStored, MessageState, Many

\* Every step of the stream, of a worker or of a crash keeps the invariant.
LEMMA NextInv == IInv /\ [Next]_vars => IInv'
<1> SUFFICES ASSUME IInv, [Next]_vars PROVE IInv'
  OBVIOUS
<1>1. ASSUME NEW m \in Message, Publish(m) PROVE IInv'
  BY <1>1, PublishInv
<1>2. ASSUME NEW m \in Message, AckWait(m) \/ Expire(m) PROVE IInv'
  BY <1>2, RequeueInv
<1>3. ASSUME NEW w \in Worker, NEW S \in SUBSET Message, Fetch(w, S) PROVE IInv'
  BY <1>3, FetchInv
<1>4. ASSUME NEW w \in Worker, NEW t \in Table, NEW D \in SUBSET Message,
             InsertOk(w, t, D)
      PROVE  IInv'
  BY <1>4, InsertOkInv
<1>5. ASSUME NEW w \in Worker, NEW t \in Table, NEW c \in BOOLEAN, InsertErr(w, t, c)
      PROVE  IInv'
  BY <1>5, InsertErrInv
<1>6. ASSUME NEW w \in Worker, StartAck(w) \/ Abandon(w) \/ Crash(w) PROVE IInv'
  BY <1>6, ControlInv
<1>7. ASSUME NEW w \in Worker, NEW m \in Message, NEW a \in BOOLEAN, Ack(w, m, a)
      PROVE  IInv'
  BY <1>7, AckInv
<1>8. CASE UNCHANGED vars
  BY <1>8 DEF vars, IInv, TypeOK, HeldWasPublished, RowWasPublished,
              RememberedIsStored, InsertedIsStored, AckedIsStored, TailedIsStored,
              Stored, SameRecord
<1>9. QED
  BY <1>1, <1>2, <1>3, <1>4, <1>5, <1>6, <1>7, <1>8 DEF Next, Stream, Work

\* The invariant holds in every reachable state of the writer.
LEMMA Invariance == Spec => []IInv
  BY InitInv, NextInv, PTL DEF Spec

\* Every variable of the queue, the workers and the tables keeps its type.
THEOREM WriterTypeCorrect == Spec => []TypeOK
<1>1. IInv => TypeOK
  BY DEF IInv
<1>2. QED
  BY <1>1, Invariance, PTL

\* No acknowledged record is missing from its table, for any number of workers,
\* batch size and deduplication window, whatever crashes, lost responses, lost
\* acks and redeliveries happen.
THEOREM WriterAckedIsStored == Spec => []AckedIsStored
<1>1. IInv => AckedIsStored
  BY DEF IInv
<1>2. QED
  BY <1>1, Invariance, PTL

\* The live tail never runs ahead of the tables.
THEOREM WriterTailedIsStored == Spec => []TailedIsStored
<1>1. IInv => TailedIsStored
  BY DEF IInv
<1>2. QED
  BY <1>1, Invariance, PTL

-----------------------------------------------------------------------------
(* Refinement of AtLeastOnce *)

phaseBar  == [m \in Message |-> PhaseOf(state[m])]
storedBar == {m \in Message : copies[m] > 0}

\* A step that changes no row and no message's phase is a stuttering step.
LEMMA StutterRefines ==
    ASSUME UNCHANGED copies,
           \A m \in Message : PhaseOf(state'[m]) = PhaseOf(state[m])
    PROVE  UNCHANGED ALO!vars
  BY DEF ALO!vars

\* A commit is a Store of the messages that had no row.
LEMMA CommitRefines ==
    ASSUME IInv, NEW w \in Worker, NEW t \in Table, UNCHANGED state,
           Commit(t, Group(batch[w], t))
    PROVE  ALO!Next
<1> DEFINE S == {m \in Message : copies'[m] > 0 /\ ~(copies[m] > 0)}
<1>0. batch[w] \in SUBSET Message
  BY DEF IInv, TypeOK
<1>1. /\ \A m \in Message : copies[m] > 0 => copies'[m] > 0
      /\ \A m \in Message : copies'[m] > 0 /\ ~(copies[m] > 0) => m \in Group(batch[w], t)
  BY <1>0, CommitEffect DEF IInv
<1>2. \A m \in S : Routable(m) /\ state[m] \in MessageState \ {"new"}
  BY <1>0, <1>1 DEF Group, IInv, TypeOK, HeldWasPublished
<1>3. \A m \in S : phaseBar[m] # "new"
  BY <1>2 DEF phaseBar, PhaseOf, MessageState
<1>4. storedBar' = storedBar \cup S
  BY <1>1 DEF storedBar
<1>5. phaseBar' = phaseBar
  BY DEF phaseBar
<1>6. S \in SUBSET Message /\ S \subseteq {m \in Message : Routable(m)}
  BY <1>2
<1> HIDE DEF S
<1>7. PICK T \in SUBSET Message : T = S
  BY <1>6
<1>8. ALO!Store(T)
  BY <1>3, <1>4, <1>5, <1>6, <1>7 DEF ALO!Store, phaseBar, storedBar
<1>9. QED
  BY <1>8 DEF ALO!Next

\* Every step of the writer is a step of AtLeastOnce or a stutter.
LEMMA StepRefines == IInv /\ [Next]_vars => [ALO!Next]_ALO!vars
<1> SUFFICES ASSUME IInv, [Next]_vars PROVE [ALO!Next]_ALO!vars
  OBVIOUS
<1>0. state \in [Message -> MessageState]
  BY DEF IInv, TypeOK
<1>1. ASSUME NEW m \in Message, Publish(m) PROVE ALO!Next
  <2>1. ALO!Take(m)
    BY <1>0, <1>1 DEF Publish, storeVars, ALO!Take, PhaseOf
  <2>2. QED
    BY <2>1 DEF ALO!Next
<1>2. ASSUME NEW m \in Message, AckWait(m) PROVE UNCHANGED ALO!vars
  BY <1>0, <1>2, StutterRefines DEF AckWait, storeVars, PhaseOf
<1>3. ASSUME NEW m \in Message, Expire(m) PROVE ALO!Next
  <2>1. ALO!Drop(m)
    BY <1>0, <1>3 DEF Expire, storeVars, ALO!Drop, PhaseOf
  <2>2. QED
    BY <2>1 DEF ALO!Next
<1>4. ASSUME NEW w \in Worker, NEW S \in SUBSET Message, Fetch(w, S)
      PROVE  UNCHANGED ALO!vars
  BY <1>0, <1>4, StutterRefines DEF Fetch, storeVars, PhaseOf
<1>5. ASSUME NEW w \in Worker, NEW t \in Table, NEW D \in SUBSET Message,
             InsertOk(w, t, D)
      PROVE  ALO!Next
  BY <1>5, CommitRefines DEF InsertOk, streamVars
<1>6. ASSUME NEW w \in Worker, NEW t \in Table, NEW c \in BOOLEAN, InsertErr(w, t, c)
      PROVE  [ALO!Next]_ALO!vars
  <2>1. CASE c
    BY <1>6, <2>1, CommitRefines DEF InsertErr, streamVars
  <2>2. CASE ~c
    BY <1>6, <2>2, StutterRefines DEF InsertErr, streamVars, storeVars
  <2>3. QED
    BY <2>1, <2>2
<1>7. ASSUME NEW w \in Worker, StartAck(w) \/ Abandon(w) \/ Crash(w)
      PROVE  UNCHANGED ALO!vars
  BY <1>7, StutterRefines DEF StartAck, Abandon, Crash, streamVars, storeVars
<1>8. ASSUME NEW w \in Worker, NEW m \in Message, NEW a \in BOOLEAN, Ack(w, m, a)
      PROVE  [ALO!Next]_ALO!vars
  <2>1. CASE a /\ state[m] \in {"ready", "outstanding"}
    <3>1. Routable(m) => \E n \in storedBar : SameRecord(m, n)
      BY <1>8 DEF Ack, IInv, InsertedIsStored, Stored, storedBar
    <3>2. ALO!Settle(m)
      BY <1>0, <1>8, <2>1, <3>1 DEF Ack, storeVars, ALO!Settle, PhaseOf, storedBar
    <3>3. QED
      BY <3>2 DEF ALO!Next
  <2>2. CASE ~(a /\ state[m] \in {"ready", "outstanding"})
    BY <1>8, <2>2, StutterRefines DEF Ack, storeVars
  <2>3. QED
    BY <2>1, <2>2
<1>9. CASE UNCHANGED vars
  BY <1>9, StutterRefines DEF vars
<1>10. QED
  BY <1>1, <1>2, <1>3, <1>4, <1>5, <1>6, <1>7, <1>8, <1>9 DEF Next, Stream, Work

\* The writer implements at-least-once storage.
THEOREM WriterImplementsAtLeastOnce == Spec => ImplementsAtLeastOnce
<1>1. Init => ALO!Init
  BY DEF Init, ALO!Init, PhaseOf
<1>2. QED
  BY <1>1, StepRefines, Invariance, PTL DEF Spec, ALO!Spec, ImplementsAtLeastOnce

-----------------------------------------------------------------------------
(* What the deduplication token guarantees *)

\* No insert pushes a token out of a table's window: the condition under which
\* ClickHouse still knows every block it has taken.
ForgetsStep == \A t \in Table : Len(window[t]) >= DedupWindow => window'[t] = window[t]
NothingForgotten == [][ForgetsStep]_vars

\* A row is there because of a block whose token the table remembers.
RowIsRemembered ==
    \A m \in Message : copies[m] > 0 =>
        \E j \in DOMAIN window[signal[m]] : window[signal[m]][j][idOf[m]] > 0

\* Below its limit the window only grows at its end.
LEMMA RememberAppends ==
    ASSUME NEW win \in Seq(Token), NEW tok \in Token, Len(win) < DedupWindow
    PROVE  /\ Len(Remember(win, tok)) = Len(win) + 1
           /\ DOMAIN Remember(win, tok) = 1..(Len(win) + 1)
           /\ \A j \in DOMAIN win : j \in 1..(Len(win) + 1) /\ Remember(win, tok)[j] = win[j]
           /\ Remember(win, tok)[Len(win) + 1] = tok
  BY DEF Remember

\* A commit adds a row only together with a token that the table did not know,
\* so a second row comes with a second, different token.
LEMMA CommitRegroups ==
    ASSUME TypeOK, RowWasPublished, RowIsRemembered, DuplicateNeedsRegrouping, ForgetsStep,
           NEW t \in Table, NEW S \in SUBSET Message, Commit(t, Group(S, t))
    PROVE  RowIsRemembered' /\ DuplicateNeedsRegrouping'
<1> DEFINE G == Group(S, t)
           tok == dedup_token(G)
<1>0. G \in SUBSET Message /\ \A m \in G : signal[m] = t /\ idOf[m] \in Id
  BY ConstantsAssumption DEF Group
<1>1. tok \in Token /\ \A m \in G : tok[idOf[m]] > 0
  BY <1>0, TokenType, TokenCounts
<1>2. window[t] \in Seq(Token) /\ copies \in [Message -> 0..2]
  BY DEF TypeOK, Many
<1> HIDE DEF G, tok
<1>3. CASE Known(window[t], tok)
  <2>1. UNCHANGED <<copies, window>>
    BY <1>3 DEF Commit, storeVars, G, tok
  <2>2. QED
    BY <2>1 DEF RowIsRemembered, DuplicateNeedsRegrouping
<1>4. CASE ~Known(window[t], tok)
  <2>1. /\ copies' = [m \in Message |-> IF m \in G THEN More(copies[m]) ELSE copies[m]]
        /\ window' = [window EXCEPT ![t] = Remember(window[t], tok)]
    BY <1>4 DEF Commit, G, tok
  <2>2. /\ window'[t] = Remember(window[t], tok)
        /\ \A u \in Table : u # t => window'[u] = window[u]
    BY <2>1 DEF TypeOK
  <2>3. Len(window[t]) < DedupWindow
    <3>1. ASSUME Len(window[t]) >= DedupWindow PROVE FALSE
      <4>1. Remember(window[t], tok) = window[t]
        BY <2>2, <3>1 DEF ForgetsStep
      <4>2. Remember(window[t], tok)[Len(window[t])] = tok /\ Len(window[t]) \in 1..Len(window[t])
        BY <1>1, <1>2, <3>1, ConstantsAssumption DEF Remember
      <4>3. QED
        BY <4>1, <4>2, <1>4 DEF Known
    <3>2. QED
      BY <3>1, <1>2, ConstantsAssumption
  <2>4. /\ \A j \in DOMAIN window[t] : j \in DOMAIN window'[t] /\ window'[t][j] = window[t][j]
        /\ Len(window[t]) + 1 \in DOMAIN window'[t]
        /\ window'[t][Len(window[t]) + 1] = tok
    BY <1>1, <1>2, <2>2, <2>3, RememberAppends
  <2>5. \A j \in DOMAIN window[t] : window[t][j] # tok
    BY <1>2, <1>4 DEF Known
  <2>6. \A u \in Table : \A j \in DOMAIN window[u] :
          j \in DOMAIN window'[u] /\ window'[u][j] = window[u][j]
    BY <2>2, <2>4
  <2>7. ASSUME NEW m \in Message, copies'[m] > 0
        PROVE  \E j \in DOMAIN window'[signal[m]] : window'[signal[m]][j][idOf[m]] > 0
    <3>1. CASE m \in G
      BY <3>1, <1>0, <1>1, <2>4
    <3>2. CASE m \notin G
      <4>1. copies[m] > 0 /\ signal[m] \in Table
        BY <3>2, <2>1, <2>7 DEF RowWasPublished, Routable
      <4>2. PICK j \in DOMAIN window[signal[m]] : window[signal[m]][j][idOf[m]] > 0
        BY <4>1 DEF RowIsRemembered
      <4>3. QED
        BY <4>1, <4>2, <2>6
    <3>3. QED
      BY <3>1, <3>2
  <2>8. ASSUME NEW m \in Message, copies'[m] = Many
        PROVE  \E j, k \in DOMAIN window'[signal[m]] :
                 /\ window'[signal[m]][j] # window'[signal[m]][k]
                 /\ window'[signal[m]][j][idOf[m]] > 0
                 /\ window'[signal[m]][k][idOf[m]] > 0
    <3>0. copies[m] > 0 /\ signal[m] \in Table
      <4>1. copies[m] > 0
        BY <1>2, <2>1, <2>8 DEF More, Many
      <4>2. QED
        BY <4>1 DEF RowWasPublished, Routable
    <3>1. CASE m \in G
      <4>1. signal[m] = t
        BY <3>1, <1>0
      <4>2. PICK j \in DOMAIN window[t] : window[t][j][idOf[m]] > 0
        BY <3>0, <4>1 DEF RowIsRemembered
      <4>3. QED
        BY <3>1, <4>1, <4>2, <1>1, <2>4, <2>5
    <3>2. CASE m \notin G
      <4>1. copies[m] = Many
        BY <3>2, <2>1, <2>8
      <4>2. PICK j \in DOMAIN window[signal[m]], k \in DOMAIN window[signal[m]] :
              /\ window[signal[m]][j] # window[signal[m]][k]
              /\ window[signal[m]][j][idOf[m]] > 0
              /\ window[signal[m]][k][idOf[m]] > 0
        BY <4>1 DEF DuplicateNeedsRegrouping
      <4>3. QED
        BY <3>0, <4>2, <2>6
    <3>3. QED
      BY <3>1, <3>2
  <2>9. QED
    BY <2>7, <2>8 DEF RowIsRemembered, DuplicateNeedsRegrouping
<1>5. QED
  BY <1>3, <1>4

\* Only a commit touches rows and windows.
LEMMA StepRegroups ==
    IInv /\ RowIsRemembered /\ DuplicateNeedsRegrouping /\ [Next /\ ForgetsStep]_vars
        => RowIsRemembered' /\ DuplicateNeedsRegrouping'
<1> SUFFICES ASSUME IInv, RowIsRemembered, DuplicateNeedsRegrouping, [Next /\ ForgetsStep]_vars
             PROVE  RowIsRemembered' /\ DuplicateNeedsRegrouping'
  OBVIOUS
<1>1. ASSUME UNCHANGED <<copies, window>>
      PROVE  RowIsRemembered' /\ DuplicateNeedsRegrouping'
  BY <1>1 DEF RowIsRemembered, DuplicateNeedsRegrouping
<1>2. ASSUME ForgetsStep, NEW w \in Worker, NEW t \in Table, Commit(t, Group(batch[w], t))
      PROVE  RowIsRemembered' /\ DuplicateNeedsRegrouping'
  <2>1. batch[w] \in SUBSET Message
    BY DEF IInv, TypeOK
  <2>2. QED
    BY <1>2, <2>1, CommitRegroups DEF IInv
<1>3. CASE Next /\ ForgetsStep
  <2>1. ASSUME NEW w \in Worker, Work(w) \/ Crash(w)
        PROVE  \/ UNCHANGED <<copies, window>>
               \/ \E t \in Table : Commit(t, Group(batch[w], t))
    BY <2>1 DEF Work, Crash, Fetch, InsertOk, InsertErr, StartAck, Abandon, Ack, storeVars
  <2>2. Stream => UNCHANGED <<copies, window>>
    BY DEF Stream, Publish, AckWait, Expire, storeVars
  <2>3. QED
    BY <1>1, <1>2, <1>3, <2>1, <2>2 DEF Next
<1>4. QED
  BY <1>1, <1>3 DEF vars

\* For any number of workers and any batches, crashes, lost responses and
\* redeliveries: as long as the window forgets no token, a second row of a
\* record comes from a group of another composition, never from a retry of the
\* same group.
THEOREM WriterDuplicateNeedsRegrouping == Spec /\ NothingForgotten => []DuplicateNeedsRegrouping
<1>1. Init => RowIsRemembered /\ DuplicateNeedsRegrouping
  BY DEF Init, RowIsRemembered, DuplicateNeedsRegrouping, Many
<1>2. QED
  BY <1>1, Invariance, StepRegroups, PTL DEF Spec, NothingForgotten

=============================================================================
