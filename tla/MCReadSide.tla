----------------------------- MODULE MCReadSide ------------------------------
(* The read side over bounded inputs: LogQL++, the Loki and the Prometheus     *)
(* surfaces, topology, timeline and routing simulation.  The kinds of input    *)
(* are in Kinds; each has its bounds.                                          *)
EXTENDS Loki, PromQL, ServiceGraph, Timeline, RoutingSim

CONSTANTS Kinds, MaxText, MaxWhere, MaxClauses, MaxParens, MaxSkew, MaxSamples, MaxRows, MaxRouting

Char == {" ", "'", "\\", "=", "!", "1", "d", "x"}

Atom(v) == <<Tok("ident", "level"), Tok("op", "="), Tok("string", v)>>
Kw(s) == Tok("ident", s)

\* A lexeme of a WHERE clause: its symbol, and the tokens it is written with.
WhereLexeme ==
    {[sym |-> "pred", val |-> "warn", toks |-> Atom("warn")],
     [sym |-> "pred", val |-> "info", toks |-> Atom("info")],
     [sym |-> "AND", toks |-> <<Kw("AND")>>], [sym |-> "OR", toks |-> <<Kw("OR")>>],
     [sym |-> "(", toks |-> <<Tok("(", "")>>], [sym |-> ")", toks |-> <<Tok(")", "")>>]}

\* A clause: its rank in a statement, and its tokens.
Clause ==
    {[name |-> "SEARCH", toks |-> <<Kw("SEARCH"), Tok("string", "x")>>],
     [name |-> "SELECT", toks |-> <<Kw("SELECT"), Kw("count"), Tok("(", ""), Tok("*", ""), Tok(")", ""),
                                    Kw("AS"), Kw("n")>>],
     [name |-> "TAIL", toks |-> <<Kw("TAIL")>>],
     [name |-> "FROM", toks |-> <<Kw("FROM"), Kw("logs")>>],
     [name |-> "WHERE", toks |-> <<Kw("WHERE"), Kw("time"), Tok("op", ">"), Kw("now"), Tok("(", ""),
                                   Tok(")", ""), Tok("-", ""), Tok("duration", <<1, "h">>)>>],
     [name |-> "GROUP", toks |-> <<Kw("GROUP"), Kw("BY"), Kw("service")>>],
     [name |-> "ORDER", toks |-> <<Kw("ORDER"), Kw("BY"), Kw("time"), Kw("DESC")>>],
     [name |-> "LIMIT", toks |-> <<Kw("LIMIT"), Tok("number", 5)>>],
     [name |-> "LIM", toks |-> <<Kw("LIMIT")>>],
     [name |-> ",", toks |-> <<Tok(",", ""), Kw("body"), Tok(".", ""), Kw("k")>>]}

TokensOf(lexemes) == FlattenSeq([i \in DOMAIN lexemes |-> lexemes[i].toks]) \o <<Tok("eof", "")>>

WhereTokens(w) == <<Kw("TAIL"), Kw("FROM"), Kw("logs"), Kw("WHERE")>> \o TokensOf(w)

Comparison(f, op, v) == [node |-> "cmp", field |-> f, op |-> op, value |-> v]
Op == {"=", "!=", "<", ">", "<=", ">="}
Comparisons ==
    {Comparison(<<"level">>, op, Value("string", l)) : op \in Op, l \in {"info", "warn", "fatal"}}
    \cup {Comparison(<<"time">>, op, Value("time", o)) : op \in Op, o \in {-1, 0}}
    \cup {Comparison(<<"_retention_days">>, op, Value("number", 1)) : op \in Op}
    \cup {Comparison(<<"body", "k">>, op, Value("string", "info")) : op \in Op}
    \cup {Comparison(<<"tenant">>, op, Value("string", "U")) : op \in {"=", "!="}}
    \cup {Comparison(<<"nosuch">>, "=", Value("string", "info"))}
Operands ==
    {Comparison(<<"level">>, ">", Value("string", "info")), Comparison(<<"body", "k">>, "=", Value("string", "info")),
     Comparison(<<"tenant">>, "=", Value("string", "U")), Comparison(<<"time">>, ">", Value("time", -1))}
Conditions ==
    Comparisons \cup {NoExpr}
    \cup {Binary(op, l, r) : op \in {"AND", "OR"}, l \in Operands, r \in Operands}
    \cup {Binary("AND", [node |-> "paren", inner |-> Binary("OR", l, r)], m) :
            l \in Operands, r \in Operands, m \in Operands}

Now == 1
Rows ==
    [tenant_id : {"T", "U"}, level : {"debug", "info", "warn", "error"}, timestamp : {0, 2},
     _retention_days : {1, 2}, message : {<<"x">>},
     body : {[p \in {<<"k">>, <<"tenant_id">>} |-> IF p = <<"k">> THEN v[1] ELSE v[2]] :
               v \in {<<"info", "T">>, <<"warn", "U">>}}]

Opts == [default : {1, 9}, max : {0, 5}]

Statement(table, items, w, n) == Stmt("select", items, table, w, <<>>, Unordered, n)
\* Items under their default names and under names of other columns.
As(it, name) == [it EXCEPT !.alias = name]
Items == {Item("", TRUE, <<>>), Item("count", TRUE, <<>>), Item("sum", TRUE, <<>>), Item("", FALSE, <<"level">>),
          Item("sum", FALSE, <<"_retention_days">>), As(Item("count", TRUE, <<>>), "level"),
          As(Item("", FALSE, <<"body", "k">>), "level"), As(Item("", FALSE, <<"tenant">>), "tenant_id"),
          Item("", FALSE, <<"body", "tenant_id">>)}
Searches == {[Stmt("search", <<>>, "logs", w, <<>>, Unordered, 0) EXCEPT !.search = phrase] :
               w \in Conditions, phrase \in {<<" ">>, <<"x">>, <<"d", " ", "x">>}}

Text(n) == UNION {[1..k -> Char] : k \in 0..n}

Selector(inner) == [open |-> TRUE, inner |-> inner, rest |-> FALSE]
LevelIs(op) == LokiMatcher("level", op, "warn")
Selectors ==
    {Selector(<<>>), Selector(<<LevelIs("=")>>), Selector(<<LevelIs("!=")>>),
     Selector(<<LevelIs("!="), [kind |-> ","], LokiMatcher("service", "=", "a")>>),
     Selector(<<LevelIs("=~")>>), Selector(<<LokiMatcher("nosuch", "=", "a")>>),
     Selector(<<LevelIs("="), [kind |-> "junk"]>>),
     [open |-> FALSE, inner |-> <<LevelIs("=")>>, rest |-> FALSE],
     [open |-> TRUE, inner |-> <<LevelIs("=")>>, rest |-> TRUE]}
NoTime == [kind |-> "none", val |-> 0]
TimeParam == {NoTime, [kind |-> "bad", val |-> 0]} \cup [kind : {"ns"}, val : {0} \cup 14..20] \cup [kind : {"sec"}, val : {8}]
LokiForm == [query : Selectors, start : TimeParam, end : TimeParam, limit : {0}, forward : {FALSE}]
LokiNow == {18, 19}
LogRow(tenant, ts, svc, l, n) ==
    [tenant_id |-> tenant, timestamp |-> ts, service |-> svc, level |-> l, environment |-> "",
     trace_id |-> "", span_id |-> "", message |-> n]
LokiRows == {LogRow(t, ts, "a", l, 1) : t \in {"T", "U"}, ts \in 9..22, l \in {"warn", "info"}}

Sample(a, ts, v) == [tenant_id |-> "T", metric |-> "m", service |-> <<"a">>, environment |-> <<>>,
                     attributes |-> a, timestamp |-> ts, value |-> v]
\* The last attribute set shows the labels of the second, the column's service.
Attrs == {[job |-> <<"1">>], [job |-> <<>>]}
Samples == {Sample(a, ts, v) : a \in Attrs, ts \in 1..6, v \in 1..2}
           \cup {Sample([service |-> <<"a">>], ts, 1) : ts \in {2, 5}}
OnePerInstant(ss) == \A s, r \in ss : SeriesOf(s) = SeriesOf(r) /\ s.timestamp = r.timestamp => s = r
PromExpr == {[metric |-> "m", matchers |-> m, agg |-> a, by |-> {"job"}, rate |-> FALSE, range |-> 0] :
               m \in {{}, {[label |-> "job", op |-> "!=", value |-> <<"1">>]}}, a \in {"", "sum"}}
PromRequest ==
    {[step |-> 0, start |-> 0, end |-> e] : e \in 4..6}
    \cup [step : {1, 2}, start : {1, 7}, end : {6}]

\* Each call is a trace of two spans; the caller's may be older than the window.
SpansOf(calls, recent) ==
    UNION {{[id |-> "p", parent |-> "", trace |-> e, service |-> e[1], recent |-> recent],
            [id |-> "c", parent |-> "p", trace |-> e, service |-> e[2], recent |-> TRUE]} : e \in calls}
LogsOf(svcs) == {[service |-> s, recent |-> TRUE] : s \in svcs}

FeedRows ==
    {[type |-> y, timestamp |-> ts, service |-> "a", trace |-> v[1], level |-> v[2], recent |-> v[3]] :
       y \in {"log", "span", "deploy"}, ts \in 1..3,
       v \in {<<"t", "warn", TRUE>>, <<"", "info", TRUE>>, <<"t", "warn", FALSE>>}}

RoutingPred(f, op, v) == [sym |-> "pred", field |-> f, op |-> op, val |-> v]
RoutingLexeme ==
    {RoutingPred("level", "=", "warn"), RoutingPred("level", ">=", "warn"), RoutingPred("level", "!=", "info"),
     RoutingPred("service", "=", "a")} \cup [sym : {"AND", "OR", "(", ")"}]

UpTo(n, S) == UNION {[1..k -> S] : k \in 0..n}
SetsUpTo(n, S) == {ToSet(q) : q \in [1..n -> S]}

Init ==
    /\ done = FALSE
    /\ what \in Kinds
    /\ \/ what = "text" /\ input \in Text(MaxText)
       \/ what = "where" /\ input \in UpTo(MaxWhere, WhereLexeme) \ {<<>>}
       \/ what = "clauses" /\ input \in UpTo(MaxClauses, Clause) \ {<<>>}
       \/ /\ what = "query"
          /\ \/ \E table \in {"logs", "metrics", "nosuch"}, it \in Items, w \in Conditions :
                   input = [stmt |-> Statement(table, <<it>>, w, 3), opts |-> [default |-> 1, max |-> 5]]
             \/ \E it \in Items, n \in {0, 3, 7}, o \in Opts :
                   input = [stmt |-> Statement("logs", <<it>>, NoExpr, n), opts |-> o]
             \/ \E s \in Searches, o \in Opts : input = [stmt |-> s, opts |-> o]
       \/ what = "parens" /\ input \in UpTo(MaxParens, {"(", ")", "x"})
       \/ what = "loki" /\ \E form \in LokiForm, now \in LokiNow : input = [form |-> form, now |-> now]
       \/ what = "streams" /\ input \in UpTo(MaxRows, {"", "a"} \X {"", "a"})
       \/ /\ what = "prom"
          /\ \E ss \in SetsUpTo(MaxSamples, Samples), e \in PromExpr, p \in PromRequest,
                c \in {[now |-> 6, counted |-> TRUE], [now |-> 12, counted |-> TRUE], [now |-> 6, counted |-> FALSE]} :
                OnePerInstant(ss) /\ input = [samples |-> ss, expr |-> e, req |-> p, tenant |-> "T",
                                              now |-> c.now, counted |-> c.counted]
       \/ /\ what = "topology"
          /\ \E calls \in SUBSET {e \in Service \X Service : e[1] # e[2]}, recent \in BOOLEAN,
                logged \in {{}, {"a", "d"}} : input = [spans |-> SpansOf(calls, recent), logs |-> LogsOf(logged)]
       \/ /\ what = "timeline"
          /\ \E rows \in SetsUpTo(MaxRows, FeedRows), n \in {0, 1, 9},
                tr \in {"", "t"}, info \in BOOLEAN :
                input = [rows |-> rows, p |-> [limit |-> n, trace |-> tr, includeInfo |-> info, service |-> "a"]]
       \/ what = "routing" /\ input \in UpTo(MaxRouting, RoutingLexeme)

Next == \E w \in Kinds : Submit(w)

Spec == Init /\ [][Next]_vars

-----------------------------------------------------------------------------

Rendered(t) == CASE t.kind = "string" -> quote(t.text) [] OTHER -> t.text
Written(toks) == FlattenSeq([i \in DOMAIN toks |-> Append(Rendered(toks[i]), " ")])

\* lex, lexNumber, quote: writing out the tokens of an accepted text, strings
\* quoted as for ClickHouse, and reading it again gives the same tokens, with a
\* single tEOF at the end; no duration swallows the first letter of a word.
LexIsStable ==
    done /\ what = "text" =>
      LET l == lex(input) IN
      l.ok => /\ lex(Written(l.toks)) = l
              /\ \A i \in DOMAIN l.toks : l.toks[i].kind = "eof" <=> i = Len(l.toks)
              /\ ToSet(input) \subseteq isIdentPart /\ l.toks[1].kind = "duration" => Len(l.toks) = 2

\* quote: ClickHouse reads back, from the literal the compiler writes, exactly
\* the text, and nothing of the query is left inside or outside the literal.
LiteralRoundTrip ==
    done /\ what = "text" =>
      LET q == quote(input)
      IN  chString(q, 2, <<>>) = [ok |-> TRUE, text |-> input, next |-> Len(q) + 1]

\* searchPredicate: the probes of a SEARCH are the words of its phrase: a
\* message passes them all exactly when it has every word, so a message that
\* contains the phrase as a whole is always found.
SearchFindsWords ==
    done /\ what = "text" =>
      LET probes == ToSet(searchPredicate(input))
          Substrings == {SubSeq(input, i, j) : i \in DOMAIN input, j \in DOMAIN input} \ {<<>>}
      IN  probes = {w \in Substrings : ToSet(w) \subseteq Alnum /\ chHasToken(input, w)}

\* orExpr, andExpr, primary: the parser accepts exactly the conditions of the
\* grammar, and groups AND before OR as ClickHouse does, parentheses first.
WhereIsGrammar ==
    done /\ what = "where" =>
      LET r == Parse(WhereTokens(input)) IN
      /\ r.ok <=> IsCondition(input)
      /\ r.ok => \A l \in {"warn", "info", "error"} :
                   Match(r.val.where, [level |-> l], Now) = Truth(input, LAMBDA s : s.val = l)

Rank(c) == CASE c.name \in {"SEARCH", "SELECT", "TAIL"} -> 1 [] c.name = "FROM" -> 2 [] c.name = "WHERE" -> 3
             [] c.name = "GROUP" -> 4 [] c.name = "ORDER" -> 5 [] c.name = "LIMIT" -> 6 [] c.name = "LIM" -> 7
             [] OTHER -> 0

Allowed(head) == CASE head = "SELECT" -> {"FROM", "WHERE", "GROUP", "ORDER", "LIMIT"}
                   [] head = "SEARCH" -> {"FROM", "WHERE", "LIMIT"}
                   [] OTHER -> {"FROM", "WHERE"}

\* Reference: a head, FROM, and the head's clauses in order; a comma only
\* goes on a SELECT or GROUP BY list.
IsStatement(cs) ==
    LET main == SelectSeq(cs, LAMBDA c : c.name # ",") IN
    /\ Len(main) >= 2 /\ cs[1].name # "," /\ Rank(main[1]) = 1 /\ main[2].name = "FROM"
    /\ \A i \in 2..Len(main) : main[i].name \in Allowed(main[1].name) /\ Rank(main[i]) > Rank(main[i - 1])
    /\ \A i \in 2..Len(cs) : cs[i].name = "," =>
         LET k == CHOOSE k \in 1..(i - 1) :
                    cs[k].name # "," /\ \A j \in (k + 1)..i : cs[j].name = ","
         IN  cs[k].name \in {"SELECT", "GROUP"}

\* Parse: the parser accepts exactly the statements of the grammar and, on
\* every sequence of tokens, never reads past tEOF (an index out of range).
ParserIsTotal ==
    done /\ what = "clauses" =>
      LET t == TokensOf(input)
          r == Parse(t)
      IN  r.pos <= Len(t) /\ (r.ok <=> IsStatement(input))

CompiledInput == Compile(input.stmt, "T", input.opts)
\* The rows ClickHouse finds for it.
Finds(c, row) == ~chRefuses(c.items, c.where) /\ Means(chCondition(c.where, chNames(c.items, row), Now))

\* whereSQL, selectItem: whatever the user's condition, OR and tenant
\* comparisons included, and whatever the phrase of a SEARCH, ClickHouse finds
\* no row of another tenant, as long as no item of the SELECT list takes the
\* name tenant_id for something else.
OnlyOwnRows ==
    done /\ what = "query" /\ CompiledInput.ok /\ Unshadowed(CompiledInput.items, "tenant_id") =>
      \A row \in Rows : Finds(CompiledInput, row) => row.tenant_id = "T"

\* "tenant / tenant_id filters are forced to the authenticated tenant - user
\* input is never trusted" (compile.go:215): the same of every statement.
TenantIsForced ==
    done /\ what = "query" /\ CompiledInput.ok =>
      \A row \in Rows : Finds(CompiledInput, row) => row.tenant_id = "T"

\* limit: with a cap configured no compiled query returns more rows, the
\* default included, and a LIMIT within the cap is kept.
LimitCapped ==
    done /\ what = "query" /\ CompiledInput.ok /\ input.opts.max > 0 =>
      /\ CompiledInput.limit <= input.opts.max
      /\ input.stmt.limit \in 1..input.opts.max => CompiledInput.limit = input.stmt.limit

\* Match: the live tail shows a record exactly when the query, run later, finds
\* it (for fields the record has; severity order, time and numbers included),
\* unless the query calls another item by the name of a column.
TailAgreesWithQuery ==
    done /\ what = "query" /\ CompiledInput.ok /\ input.stmt.table = "logs" /\ input.stmt.kind = "select"
         /\ (\A c \in columns("logs") : Unshadowed(CompiledInput.items, c)) =>
      \A row \in {r \in Rows : r.tenant_id = "T"} :
        Match(input.stmt.where, row, Now) = Finds(CompiledInput, row)

-----------------------------------------------------------------------------
(* Loki *)

EscapedDouble(s) == FlattenSeq([i \in DOMAIN s |-> IF s[i] = "\\" THEN <<"\\", "\\">> ELSE <<s[i]>>])

\* unescape, logqlQuote, lexString: a value of a stream selector reaches the
\* LogQL++ lexer as it was meant, and nothing of it ends the literal early.
SelectorValueKept ==
    done /\ what = "text" =>
      /\ unescape(EscapedDouble(input)) = input
      /\ lexString(logqlQuote(input), 1)
           = [ok |-> TRUE, text |-> input, next |-> Len(logqlQuote(input)) + 1]

LokiStart == LET end == lokiParseTimeNs(input.form.end, input.now)
                 start == lokiParseTimeNs(input.form.start, input.now - Hour)
             IN  IF start = 0 THEN (IF end = 0 THEN input.now ELSE end) - Hour ELSE start
LokiEnd == LET end == lokiParseTimeNs(input.form.end, input.now) IN IF end = 0 THEN input.now ELSE end
Earlier(a, b) == IF a < b THEN a ELSE b
LokiCompiled == GrafanaLokiQueryRange(input.form, "T", input.now)
Wanted(row) == \A i \in DOMAIN input.form.query.inner :
                 LET m == input.form.query.inner[i] IN m.kind = "matcher" => applyOp(m.op, row[m.label], m.value)

\* Translate, relTime: a query that ClickHouse runs d ticks after the handler
\* read its clock returns every matching record of the window but those within
\* d of its older and a second of its newer edge, and none that is two seconds
\* older or d and a second newer; rows of other tenants never.
LokiWindowKept ==
    done /\ what = "loki" =>
      LET c == LokiCompiled
          lo == LokiStart
          hi == Earlier(LokiEnd, input.now)
      IN  c.ok => \A d \in 0..MaxSkew, row \in LokiRows :
            LET selected == chSelects(c.where, row, input.now + d)
                mine == row.tenant_id = "T" /\ Wanted(row)
            IN  /\ selected => /\ mine
                               /\ row.timestamp > Earlier(lo, input.now) + d - 2 * Second
                               /\ row.timestamp <= hi + d + Second
                /\ mine /\ lo + d <= row.timestamp /\ row.timestamp <= hi - Second => selected

\* GrafanaLokiSeries, GrafanaLokiLabelValues, GrafanaLokiQueryRange: what the
\* label browser offers is what the query finds: a selector the query takes is
\* taken by /series, a record inside the window is found by both or by neither,
\* and the values of a label are those of its series.
LokiPathsAgree ==
    done /\ what = "loki" =>
      LET SeriesIn(match, rows) == GrafanaLokiSeries(input.form, match, "T", input.now, rows)
          c == LokiCompiled
      IN  /\ c.ok => \A row \in LokiRows :
               /\ SeriesIn(<<input.form.query>>, {row}).ok
               /\ LokiStart <= row.timestamp /\ row.timestamp <= Earlier(LokiEnd, input.now) - Second =>
                    (chSelects(c.where, row, input.now) <=> SeriesIn(<<input.form.query>>, {row}).series # {})
          /\ GrafanaLokiLabelValues(input.form, "level", "T", input.now, LokiRows)
               = {s["level"] : s \in SeriesIn(<<>>, LokiRows).series}

\* lokiWriteStreams: every row is in the one stream of its labels, in the order
\* of the query's result; no two streams have the same labels.
StreamsKeepRows ==
    done /\ what = "streams" =>
      LET rows == [i \in DOMAIN input |-> LogRow("T", 1, input[i][1], input[i][2], i)]
          out == lokiWriteStreams(rows)
          Of(labels) == SelectSeq(rows, LAMBDA r : lokiStreamLabels(r) = labels)
      IN  /\ \A i, j \in DOMAIN out : out[i].stream = out[j].stream => i = j
          /\ \A i \in DOMAIN out : out[i].values = [k \in DOMAIN Of(out[i].stream) |-> Of(out[i].stream)[k].message]
          /\ \A i \in DOMAIN rows : \E j \in DOMAIN out : out[j].stream = lokiStreamLabels(rows[i])

-----------------------------------------------------------------------------
(* PromQL *)

\* writeMatrix, seriesKey, labelsOf: in a range answer every label set is one
\* series, its points in order of time; a time has two points only where two
\* series of the store show the same labels (empty attributes are left out, and
\* an attribute service or environment takes the place of the column).  Label
\* values are free of ; and =.
MatrixOrdered ==
    done /\ what = "prom" /\ input.req.step > 0 =>
      LET r == PromRangeQuery(input.expr, input.tenant, input.req.start, input.req.end,
                              [kind |-> "number", val |-> input.req.step], input.now, input.counted, input.samples)
          Told(labels) == input.expr.agg = "" => \A s, t \in input.samples :
                            Shown(s) = labels /\ Shown(t) = labels => SeriesOf(s) = SeriesOf(t)
      IN  r.ok => /\ \A i, j \in DOMAIN r.result : r.result[i].metric = r.result[j].metric => i = j
                  /\ \A i \in DOMAIN r.result : LET v == r.result[i].values IN
                       \A k \in 1..(Len(v) - 1) :
                         /\ v[k][1] <= v[k + 1][1]
                         /\ v[k][1] = v[k + 1][1] => ~Told(r.result[i].metric)

-----------------------------------------------------------------------------
(* Routing simulation *)

Sent == {[service |-> s, severity |-> l, labels |-> <<>>] : s \in {"a", "b"}, l \in {"info", "warn", "error"}}
Rules ==
    <<[enabled |-> TRUE, service |-> "", condition |-> input, channels |-> <<"x", "y">>],
      [enabled |-> TRUE, service |-> "a", condition |-> <<>>, channels |-> <<"y", "z">>],
      [enabled |-> FALSE, service |-> "", condition |-> <<>>, channels |-> <<"w">>]>>
ChannelsOf(Selects(_)) == UNION {ToSet(Rules[i].channels) : i \in {i \in DOMAIN Rules : Rules[i].enabled /\ Selects(Rules[i])}}

\* A condition as a LogQL++ query reads it, levels by severity.
AsQuery(r, ev) ==
    /\ r.service \in {"", ev.service}
    /\ r.condition = <<>> \/ Truth(r.condition, LAMBDA p :
         CASE p.field = "service" -> applyOp(p.op, ev.service, p.val)
           [] isOrdering(p.op) -> applyOp(p.op, levelRank(ev.severity), levelRank(p.val))
           [] OTHER -> applyOp(p.op, ev.severity, p.val))

RoutingInput == done /\ what = "routing" /\ (input = <<>> \/ IsCondition(input))
UsesOr == \E i \in DOMAIN input : input[i].sym = "OR"
OrdersLevels == \E i \in DOMAIN input : input[i].sym = "pred" /\ isOrdering(input[i].op)
\* A != with an OR in its part: the rest of the part is the value it differs from.
UnequalRunsOn ==
    \E i, j \in DOMAIN input : i < j /\ input[i].sym = "pred" /\ input[i].op = "!=" /\ input[j].sym = "OR"
                               /\ \A k \in i..j : input[k].sym # "AND"

\* matchRule, splitClauses, evalClause, severityRank: the simulation fires each
\* channel at most once and, for a condition in conjunctions, those of the
\* rules whose condition holds as LogQL++ reads it, which are those whose alert
\* counts the event unless levels are ordered (the alert orders them as text).
\* A condition with OR fires nothing beyond these unless a != has an OR in its
\* part.
SimulationIsConservative ==
    RoutingInput =>
      \A ev \in Sent :
        LET fired == SimulateAlertRouting(ev, Rules)
            query == ChannelsOf(LAMBDA r : AsQuery(r, ev))
            alert == ChannelsOf(LAMBDA r : buildQuery(r, ev))
        IN  /\ \A i, j \in DOMAIN fired : fired[i] = fired[j] => i = j
            /\ ~UsesOr => ToSet(fired) = query /\ (OrdersLevels \/ ToSet(fired) = alert)
            /\ ~UnequalRunsOn => ToSet(fired) \subseteq query /\ (OrdersLevels \/ ToSet(fired) \subseteq alert)

\* "OR is not modelled; a clause the matcher cannot parse is reported and
\* treated as non-matching (conservative - an unknown selector never silently
\* fires a channel)" (routingsim.go:15-17): a condition with OR fires only the
\* channels of rules whose alert counts the event.
OrNeverFires ==
    RoutingInput /\ UsesOr /\ ~OrdersLevels =>
      \A ev \in Sent : ToSet(SimulateAlertRouting(ev, Rules)) \subseteq ChannelsOf(LAMBDA r : buildQuery(r, ev))

-----------------------------------------------------------------------------
(* The properties of the run, by surface *)

\* Texts pass lexer, quoting, search probes and selectors as they were written.
TextIsKept == LexIsStable /\ LiteralRoundTrip /\ SearchFindsWords /\ SelectorValueKept

\* Parse accepts the conditions and statements of the grammar, no others, and
\* groups them as the grammar does, without reading past the end.
ParserIsGrammar == WhereIsGrammar /\ ParserIsTotal

\* Compile confines a query to the caller's rows, unless another item is called
\* tenant_id, and to the cap on their number.
QueryIsConfined == OnlyOwnRows /\ LimitCapped

\* grafana.go, promql.go: the Loki surface finds what the window and selector
\* ask for, the same on its two paths, and shows every row in its stream; a
\* Prometheus range answer has one ordered series per label set, with one point
\* per bucket unless the store has two series of these labels.
GrafanaKeepsRows == LokiWindowKept /\ LokiPathsAgree /\ StreamsKeepRows /\ MatrixOrdered
=============================================================================
