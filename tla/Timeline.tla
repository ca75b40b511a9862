------------------------------ MODULE Timeline -------------------------------
(***************************************************************************)
(* The merged timeline of logs, spans and deploys (domains/timeline).  Rows of *)
(* one tenant have a type, a time, a service, a trace and a level; recent: the *)
(* row is in the window asked for.                                             *)
(***************************************************************************)
EXTENDS ReadSide, Integers, Sequences, FiniteSets, SequencesExt

CONSTANTS TimelineDefault, TimelineMax    \* 200 and 1000 events

ASSUME TimelineAssumption == TimelineDefault \in Nat /\ TimelineMax \in Nat

timelineLimit(n) == IF n <= 0 \/ n > TimelineMax THEN TimelineDefault ELSE n

EventType == {"log", "span", "deploy"}

\* The rows of one of the three queries, before its LIMIT.
Scope(p, rows, type) ==
    {r \in rows :
       /\ r.type = type
       /\ IF p.trace # None THEN r.trace = p.trace ELSE r.recent /\ p.service \in {None, r.service}
       /\ type = "log" /\ p.trace = None /\ ~p.includeInfo => r.level \in {"warn", "error", "fatal"}
       /\ type = "deploy" => p.trace = None}

\* ORDER BY timestamp DESC LIMIT n: rows of the same time come in any order.
Newest(rows, n) ==
    LET desc == CHOOSE q \in SetToSeqs(rows) : \A i, j \in DOMAIN q : i < j => q[i].timestamp >= q[j].timestamp
    IN  SubSeq(desc, 1, IF n < Len(desc) THEN n ELSE Len(desc))

\* sort.SliceStable by time: p[i] is where the i-th event was.
SortStable(events) ==
    LET p == CHOOSE p \in SetToSeqs(DOMAIN events) : \A i, j \in DOMAIN p : i < j =>
               \/ events[p[i]].timestamp < events[p[j]].timestamp
               \/ events[p[i]].timestamp = events[p[j]].timestamp /\ p[i] < p[j]
    IN  [i \in DOMAIN events |-> events[p[i]]]

Merged(p, rows) ==
    LET Query(type) == Newest(Scope(p, rows, type), timelineLimit(p.limit))
    IN  SortStable(Query("log") \o Query("span") \o Query("deploy"))

\* Mutant: the head of the feed is kept.
BuildHead(p, rows) ==
    LET all == Merged(p, rows)
        n == timelineLimit(p.limit)
    IN  IF Len(all) > n THEN SubSeq(all, 1, n) ELSE all

Build(p, rows) ==
    LET all == Merged(p, rows)
        n == timelineLimit(p.limit)
    IN  IF Len(all) > n THEN SubSeq(all, Len(all) - n + 1, Len(all)) ELSE all

-----------------------------------------------------------------------------

TimelineInit ==
    /\ what = "timeline" /\ ~done
    /\ IsFiniteSet(input.rows) /\ input.p.limit \in Int
    /\ \A r \in input.rows : r.timestamp \in Int

TimelineSpec == TimelineInit /\ [][Submit("timeline")]_vars

\* Build: three queries, each cut at the limit, merged and cut again, give the
\* latest events of all that are in scope: in order, as many as the limit
\* allows, none twice, and none left out is later than one shown.
TimelineIsLatest ==
    done /\ what = "timeline" =>
      LET feed == Build(input.p, input.rows)
          n == timelineLimit(input.p.limit)
          scope == UNION {Scope(input.p, input.rows, y) : y \in EventType}
      IN  /\ \A i, j \in DOMAIN feed : i < j => feed[i] # feed[j] /\ feed[i].timestamp <= feed[j].timestamp
          /\ Len(feed) = IF Cardinality(scope) < n THEN Cardinality(scope) ELSE n
          /\ ToSet(feed) \subseteq scope
          /\ \A r \in scope \ ToSet(feed), s \in ToSet(feed) : r.timestamp <= s.timestamp
=============================================================================
