-------------------------------- MODULE Loki --------------------------------
(***************************************************************************)
(* Grafana's Loki data source: domains/grafana/loki.go translates a stream    *)
(* selector and an absolute window into a LogQL++ statement, which is parsed  *)
(* and compiled as any other; platform/api/handler/grafana.go serves it, and  *)
(* answers /series and /label/values by SQL of its own.  Times are ticks,     *)
(* Second of them in a second; ClickHouse's now() is in whole seconds.        *)
(* LIMIT 1000 of the DISTINCT queries is above the inputs.                    *)
(***************************************************************************)
EXTENDS LogQL

CONSTANT Second, Hour

Labels == {"service", "level", "environment", "trace_id", "span_id", "ingested_by"}
IsLabel(name) == name \in Labels

\* A selector: whether it starts with {, what is between the braces in order
\* (matchers, commas, and text that is neither), what follows the last }.
LokiMatcher(l, op, v) == [kind |-> "matcher", label |-> l, op |-> op, value |-> v]
ParseSelector(sel) ==
    [ok |-> sel.open /\ ~sel.rest /\ \A i \in DOMAIN sel.inner : sel.inner[i].kind # "junk",
     matchers |-> SelectSeq(sel.inner, LAMBDA m : m.kind = "matcher")]

\* Values between double quotes, character by character.
RECURSIVE unescape(_)
unescape(v) ==
    IF v = <<>> THEN <<>>
    ELSE IF v[1] = "\\" /\ Len(v) > 1 THEN <<v[2]>> \o unescape(SubSeq(v, 3, Len(v)))
    ELSE <<v[1]>> \o unescape(Tail(v))

logqlQuote(s) ==
    <<"'">> \o FlattenSeq([i \in DOMAIN s |->
                 IF s[i] \in {"\\", "'"} THEN <<"\\", s[i]>> ELSE <<s[i]>>]) \o <<"'">>

Word(s) == Tok("ident", s)
NowCall == <<Word("now"), Tok("(", ""), Tok(")", "")>>

\* Mutant: both edges are truncated.
relTimeTruncated(now, ts, roundUp) ==
    IF now - ts < Second THEN NowCall
    ELSE NowCall \o <<Tok("-", ""), Tok("duration", <<(now - ts) \div Second, "s">>)>>

relTime(now, ts, roundUp) ==
    LET diff == now - ts
        sec == diff \div Second + (IF roundUp /\ diff % Second # 0 THEN 1 ELSE 0)
    IN  IF diff <= 0 \/ sec <= 0 THEN NowCall
        ELSE NowCall \o <<Tok("-", ""), Tok("duration", <<sec, "s">>)>>

selectCols ==
    <<Word("timestamp")>> \o FlattenSeq([i \in 1..6 |->
        <<Tok(",", ""), Word(<<"service", "level", "environment", "message", "trace_id", "span_id">>[i])>>])

MatcherTokens(m) == <<Word(m.label), Tok("op", m.op), Tok("string", m.value), Word("AND")>>

\* q: selector, start and end in ticks (0: not given), limit, forward.
Translate(q, opts, now) ==
    LET p == ParseSelector(q.selector)
        end == IF q.end = 0 THEN now ELSE q.end
        start == IF q.start = 0 THEN end - Hour ELSE q.start
        asked == IF q.limit <= 0 THEN opts.default ELSE q.limit
        lim == IF opts.max > 0 /\ asked > opts.max THEN opts.max ELSE asked
    IN  IF ~p.ok \/ start > end
           \/ \E i \in DOMAIN p.matchers :
                ~IsLabel(p.matchers[i].label) \/ p.matchers[i].op \notin {"=", "!="}
        THEN [ok |-> FALSE]
        ELSE [ok |-> TRUE,
              toks |-> <<Word("SELECT")>> \o selectCols \o <<Word("FROM"), Word("logs"), Word("WHERE")>>
                       \o FlattenSeq([i \in DOMAIN p.matchers |-> MatcherTokens(p.matchers[i])])
                       \o <<Word("time"), Tok("op", ">=")>> \o relTime(now, start, TRUE)
                       \o <<Word("AND"), Word("time"), Tok("op", "<=")>> \o relTime(now, end, FALSE)
                       \o <<Word("ORDER"), Word("BY"), Word("timestamp"), Word(IF q.forward THEN "ASC" ELSE "DESC"),
                            Word("LIMIT"), Tok("number", lim), Tok("eof", "")>>]

-----------------------------------------------------------------------------
(* platform/api/handler/grafana.go *)

grafanaOpts == [default |-> 3, max |-> 5]

\* A time parameter: absent, nanoseconds (ticks), seconds, or unreadable.
lokiParseTimeNs(s, def) ==
    CASE s.kind = "ns" -> s.val
      [] s.kind = "sec" -> s.val * Second
      [] OTHER -> def

GrafanaLokiQueryRange(form, tenant, now) ==
    LET tr == Translate([selector |-> form.query,
                         start |-> lokiParseTimeNs(form.start, now - Hour),
                         end |-> lokiParseTimeNs(form.end, now),
                         limit |-> form.limit, forward |-> form.forward], grafanaOpts, now)
        s == IF tr.ok THEN Parse(tr.toks) ELSE tr
    IN  IF s.ok THEN Compile(s.val, tenant, grafanaOpts) ELSE NotCompiled

lokiMatchersSQL(matchers) ==
    IF \A i \in DOMAIN matchers : IsLabel(matchers[i].label) /\ matchers[i].op \in {"=", "!="}
    THEN Sql(matchers) ELSE SqlError

lokiTimeBoundsSQL(start, end, ts) == (start > 0 => ts >= start) /\ (end > 0 => ts <= end)

InWindow(form, now, ts) ==
    lokiTimeBoundsSQL(lokiParseTimeNs(form.start, now - 6 * Hour), lokiParseTimeNs(form.end, now), ts)

\* row: the row of the log store; match: the selectors of the request.
GrafanaLokiSeries(form, match, tenant, now, rows) ==
    LET preds == [i \in DOMAIN match |->
                    IF ParseSelector(match[i]).ok
                    THEN lokiMatchersSQL(ParseSelector(match[i]).matchers) ELSE SqlError]
        Holds(m, row) == applyOp(m.op, row[m.label], m.value)
    IN  IF \E i \in DOMAIN preds : ~preds[i].ok THEN [ok |-> FALSE]
        ELSE [ok |-> TRUE,
              series |-> {[k \in {k \in {"service", "level", "environment"} : row[k] # ""} |-> row[k]] :
                            row \in {row \in rows :
                              /\ row.tenant_id = tenant /\ InWindow(form, now, row.timestamp)
                              /\ \A i \in DOMAIN preds : \A j \in DOMAIN preds[i].sql :
                                    Holds(preds[i].sql[j], row)}}]

GrafanaLokiLabelValues(form, name, tenant, now, rows) ==
    {row[name] : row \in {row \in rows : /\ row.tenant_id = tenant /\ row[name] # ""
                                         /\ InWindow(form, now, row.timestamp)}}

StreamColumns == <<"environment", "level", "service", "span_id", "trace_id">>
lokiStreamLabels(row) == [k \in {k \in ToSet(StreamColumns) : row[k] # ""} |-> row[k]]

\* name=value, ended by a zero byte, in the order of the names.
lokiStreamKey(m) ==
    FlattenSeq([i \in DOMAIN StreamColumns |->
        LET k == StreamColumns[i] IN IF k \in DOMAIN m THEN <<k, "=", m[k], "0">> ELSE <<>>])

\* The streams, in the order of their first row.
lokiWriteStreams(rows) ==
    FoldLeft(LAMBDA out, row :
        LET key == lokiStreamKey(lokiStreamLabels(row)) IN
        IF \E i \in DOMAIN out : out[i].key = key
        THEN [i \in DOMAIN out |-> IF out[i].key = key THEN [out[i] EXCEPT !.values = Append(@, row.message)]
                                   ELSE out[i]]
        ELSE Append(out, [key |-> key, stream |-> lokiStreamLabels(row), values |-> <<row.message>>]),
      <<>>, rows)

\* ClickHouse (external): the rows a compiled condition selects at instant exec.
chSelects(where, row, exec) ==
    Truth(where, LAMBDA p :
        IF p.how = "time" THEN applyOp(p.op, row.timestamp, (exec \div Second + p.rhs) * Second)
        ELSE applyOp(p.op, row[p.lhs.col], p.rhs))
=============================================================================
