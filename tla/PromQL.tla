------------------------------- MODULE PromQL --------------------------------
(***************************************************************************)
(* The Prometheus surface over metrics: domains/query/promql.go compiles an    *)
(* expression to one GROUP BY per series and bucket and one over the by        *)
(* labels; platform/api/handler/promql.go runs it and shapes the answer.  An   *)
(* expression is a record of its parts, a sample a row of metrics whose        *)
(* attributes map names to values; texts are sequences of characters.          *)
(***************************************************************************)
EXTENDS ReadSide, Integers, Sequences, FiniteSets, FiniteSetsExt, SequencesExt

CONSTANTS DefaultLookback, CardinalityWindow,    \* 300 s and an hour
          maxLabelCardinality

ASSUME PromAssumption == DefaultLookback \in Nat \ {0}

Depths(s, i) ==
    Cardinality({j \in 1..i : s[j] = "("}) - Cardinality({j \in 1..i : s[j] = ")"})

stripOuterParens(s) ==
    IF /\ s # <<>> /\ s[1] = "(" /\ s[Len(s)] = ")"
       /\ \A i \in 1..(Len(s) - 1) : s[i] = ")" => Depths(s, i) # 0
       /\ Depths(s, Len(s)) = 0
    THEN [ok |-> TRUE, inner |-> SubSeq(s, 2, Len(s) - 1)] ELSE [ok |-> FALSE]

\* A request without a step is an instant one; one bucket is to span its lookback.
Window(p) ==
    IF p.step <= 0 THEN
        LET lookback == IF p.lookback <= 0 THEN DefaultLookback ELSE p.lookback
        IN  [ok |-> TRUE, start |-> p.end - lookback, end |-> p.end, step |-> lookback]
    ELSE [ok |-> p.end > p.start, start |-> p.start, end |-> p.end, step |-> p.step]

labelExpr(lbl, s) ==
    CASE lbl = "__name__" -> s.metric
      [] lbl = "service" -> s.service
      [] lbl \in {"environment", "env"} -> s.environment
      [] OTHER -> IF lbl \in DOMAIN s.attributes THEN s.attributes[lbl] ELSE <<>>

\* m.value: for the regular-expression operators the set of texts it matches whole.
matcherSQL(m, s) ==
    CASE m.op = "=" -> labelExpr(m.label, s) = m.value
      [] m.op = "!=" -> labelExpr(m.label, s) # m.value
      [] m.op = "=~" -> labelExpr(m.label, s) \in m.value
      [] m.op = "!~" -> labelExpr(m.label, s) \notin m.value

Selected(e, tenant, w, samples) ==
    {s \in samples : /\ s.tenant_id = tenant /\ s.metric = e.metric
                     /\ s.timestamp >= w.start /\ s.timestamp <= w.end
                     /\ \A m \in e.matchers : matcherSQL(m, s)}

\* toStartOfInterval (external): intervals are counted from the epoch.
toStartOfInterval(ts, step) == ts - (ts % step)

SeriesOf(s) == [service |-> s.service, environment |-> s.environment, attributes |-> s.attributes]

\* Mutant: the largest sample, not the latest.
innerValMax(e, step, group) == Max({s.value : s \in group})

\* rate() divides by the range of the expression, the samples being the bucket's.
innerVal(e, step, group) ==
    IF e.rate
    THEN (Max({s.value : s \in group}) - Min({s.value : s \in group}))
           \div (IF e.range <= 0 THEN step ELSE e.range)
    ELSE (CHOOSE s \in group : \A r \in group : r.timestamp <= s.timestamp).value

\* One row per series and bucket.
Inner(e, tenant, w, samples) ==
    LET sel == Selected(e, tenant, w, samples)
        B(s) == toStartOfInterval(s.timestamp, w.step)
    IN  {[service |-> k[1].service, environment |-> k[1].environment, attributes |-> k[1].attributes,
          bucket |-> k[2],
          value |-> innerVal(e, w.step, {s \in sel : SeriesOf(s) = k[1] /\ B(s) = k[2]})] :
            k \in {<<SeriesOf(s), B(s)>> : s \in sel}}

Aggregate(agg, rows) ==
    LET total == FoldSet(LAMBDA r, n : n + r.value, 0, rows)
        values == {r.value : r \in rows}
    IN  CASE agg = "sum" -> total [] agg = "count" -> Cardinality(rows)
          [] agg = "avg" -> total \div Cardinality(rows)
          [] agg = "min" -> Min(values) [] agg = "max" -> Max(values)

\* ORDER BY bucket: rows of the same bucket come in any order.
ByBucket(rows) ==
    CHOOSE q \in SetToSeqs(rows) : \A i, j \in DOMAIN q : i < j => q[i].bucket <= q[j].bucket

\* The rows of the result; an aggregate's labels are those of by.  The inner
\* rows have no metric_name: ClickHouse refuses to aggregate by __name__.
compile(e, tenant, p, samples) ==
    LET w == Window(p)
        inner == Inner(e, tenant, w, samples)
        Group(r) == [l \in e.by |-> labelExpr(l, r)]
    IN  IF ~w.ok \/ (e.agg # None /\ "__name__" \in e.by) THEN [ok |-> FALSE]
        ELSE IF e.agg = None THEN [ok |-> TRUE, attrs |-> TRUE, rows |-> ByBucket(inner)]
        ELSE [ok |-> TRUE, attrs |-> FALSE,
              rows |-> ByBucket({[labels |-> k[1], bucket |-> k[2],
                                  value |-> Aggregate(e.agg, {r \in inner : Group(r) = k[1] /\ r.bucket = k[2]})] :
                                    k \in {<<Group(r), r.bucket>> : r \in inner}})]

-----------------------------------------------------------------------------
(* platform/api/handler/promql.go *)

NonEmpty(f) == [k \in {k \in DOMAIN f : f[k] # <<>>} |-> f[k]]

\* An attribute takes the place of a column of its name.
labelsOf(c, row) ==
    IF c.attrs
    THEN NonEmpty(row.attributes) @@ NonEmpty([service |-> row.service, environment |-> row.environment])
    ELSE NonEmpty(row.labels)

LabelNames == <<"environment", "job", "service", "zone">>

\* name=value; in the order of the names (of the label names of the inputs).
seriesKey(labels) ==
    FlattenSeq([i \in DOMAIN LabelNames |->
        LET k == LabelNames[i] IN IF k \in DOMAIN labels THEN <<k, "=">> \o labels[k] \o <<";">> ELSE <<>>])

writeVector(c) == [i \in DOMAIN c.rows |-> [metric |-> labelsOf(c, c.rows[i]),
                                            value |-> <<c.rows[i].bucket, c.rows[i].value>>]]

writeMatrix(c) ==
    FoldLeft(LAMBDA out, row :
        LET key == seriesKey(labelsOf(c, row))
            point == <<row.bucket, row.value>>
        IN  IF \E i \in DOMAIN out : out[i].key = key
            THEN [i \in DOMAIN out |-> IF out[i].key = key THEN [out[i] EXCEPT !.values = Append(@, point)]
                                       ELSE out[i]]
            ELSE Append(out, [key |-> key, metric |-> labelsOf(c, row), values |-> <<point>>]),
      <<>>, c.rows)

\* Too many attribute sets of the metric in the last hour refuse the query,
\* unless they could not be counted.
checkCardinality(e, tenant, now, counted, samples) ==
    counted => Cardinality({s.attributes : s \in {s \in samples : /\ s.tenant_id = tenant /\ s.metric = e.metric
                                                       /\ s.timestamp >= now - CardinalityWindow}})
      <= maxLabelCardinality

Refused == [ok |-> FALSE]

PromInstantQuery(e, tenant, end, now, counted, samples) ==
    LET c == compile(e, tenant, [step |-> 0, end |-> end, lookback |-> DefaultLookback], samples)
    IN  IF c.ok /\ checkCardinality(e, tenant, now, counted, samples)
        THEN [ok |-> TRUE, result |-> writeVector(c)] ELSE Refused

\* Unreadable steps are 60 s; none is below one.
parseStep(s) ==
    CASE s.kind = "number" -> IF s.val < 1 THEN 1 ELSE s.val
      [] s.kind = "duration" -> IF s.val >= 1 THEN s.val ELSE 60
      [] OTHER -> 60

PromRangeQuery(e, tenant, start, end, step, now, counted, samples) ==
    LET c == compile(e, tenant, [step |-> parseStep(step), start |-> start, end |-> end], samples)
    IN  IF c.ok /\ checkCardinality(e, tenant, now, counted, samples)
        THEN [ok |-> TRUE, result |-> writeMatrix(c)] ELSE Refused

-----------------------------------------------------------------------------

PromInit ==
    /\ ~done
    /\ \/ what = "parens" /\ input \in Seq(STRING)
       \/ /\ what = "prom" /\ input.req.end \in Int
          /\ IsFiniteSet(input.samples) /\ \A s \in input.samples : s.timestamp \in Int

PromSpec == PromInit /\ [][\E w \in {"parens", "prom"} : Submit(w)]_vars

Balanced(s) == Depths(s, Len(s)) = 0 /\ \A i \in DOMAIN s : Depths(s, i) >= 0

\* stripOuterParens: accepts exactly one parenthesised, balanced expression, so
\* that sum(a) / sum(b) is refused and never read as sum of something else.
ParensStripped ==
    done /\ what = "parens" =>
      LET r == stripOuterParens(input)
          inner == SubSeq(input, 2, Len(input) - 1)
      IN  r.ok <=> Len(input) >= 2 /\ input[1] = "(" /\ input[Len(input)] = ")" /\ Balanced(inner)

PromAnswer == PromInstantQuery(input.expr, input.tenant, input.req.end, input.now, input.counted, input.samples)

\* Reference: the samples of the lookback that an instant query is to answer from.
InLookback ==
    {s \in input.samples : /\ s.tenant_id = input.tenant /\ s.metric = input.expr.metric
                           /\ input.req.end - DefaultLookback <= s.timestamp /\ s.timestamp <= input.req.end
                           /\ \A m \in input.expr.matchers : matcherSQL(m, s)}
Shown(s) == labelsOf([attrs |-> TRUE], s)

\* compile, writeVector: in an instant answer the last point of a series is its
\* latest sample of the lookback, and no series of the lookback is missing.  The
\* bucket does not span the lookback (intervals are counted from the epoch), so
\* a series may have a second, older point, but no third.  Series that differ
\* only in labels the answer leaves out (empty ones) are not told apart.
InstantEndsWithLatest ==
    /\ done /\ what = "prom" /\ input.req.step = 0 /\ input.expr.agg = None /\ ~input.expr.rate
    /\ PromAnswer.ok
    => \A t \in input.samples :
         (\A s \in input.samples : Shown(s) = Shown(t) => SeriesOf(s) = SeriesOf(t)) =>
         LET result == PromAnswer.result
             win == {s \in InLookback : SeriesOf(s) = SeriesOf(t)}
             pts == {i \in DOMAIN result : result[i].metric = Shown(t)}
         IN  IF win = {} THEN pts = {}
             ELSE /\ Cardinality(pts) <= 2
                  /\ \E i \in pts, s \in win : /\ \A j \in pts : j <= i
                                               /\ \A r \in win : r.timestamp <= s.timestamp
                                               /\ result[i].value[2] = s.value

\* promql.go: an expression is read as written, and an instant answer ends with
\* the latest sample of each series.
PromAnswersSamples == ParensStripped /\ InstantEndsWithLatest
=============================================================================
