------------------------------- MODULE LogQL --------------------------------
(***************************************************************************)
(* LogQL++ (domains/query): lexer, parser, compiler to ClickHouse SQL, and    *)
(* the live-tail matcher, as operators.  Names and keywords are in their      *)
(* canonical case.  A parse result carries the position reached, so that      *)
(* reading past tEOF (a panic in Go) shows.                                   *)
(***************************************************************************)
EXTENDS Compiler, SequencesExt

-----------------------------------------------------------------------------
(* lexer.go: characters are one-element strings, text a sequence of them *)

Tok(k, x) == [kind |-> k, text |-> x]

isDigit == {"0", "1"}
isIdentStart == {"_", "x", "d"}
isIdentPart == isIdentStart \cup isDigit
Punctuation == {"(", ")", ",", "*", ".", "-", "+"}

RECURSIVE Run(_, _, _)
Run(r, i, chars) == IF i <= Len(r) /\ r[i] \in chars THEN Run(r, i + 1, chars) ELSE i

RECURSIVE StringFrom(_, _, _, _)
StringFrom(r, i, quote, b) ==
    IF i > Len(r) THEN [ok |-> FALSE, text |-> <<>>, next |-> i]
    ELSE IF r[i] = "\\" /\ i < Len(r) THEN StringFrom(r, i + 2, quote, Append(b, r[i + 1]))
    ELSE IF r[i] = quote THEN [ok |-> TRUE, text |-> b, next |-> i + 1]
    ELSE StringFrom(r, i + 1, quote, Append(b, r[i]))

lexString(r, i) == StringFrom(r, i + 1, r[i], <<>>)

\* The characters of the operator at i, none when there is no operator.
lexOp(r, i) ==
    IF i < Len(r) /\ r[i + 1] = "=" THEN <<r[i], r[i + 1]>>
    ELSE IF r[i] # "!" THEN <<r[i]>> ELSE <<>>

lexNumber(r, i) ==
    LET j == Run(r, i, isDigit) IN
    IF /\ j <= Len(r) /\ r[j] \in {"s", "m", "h", "d"}
       /\ j + 1 > Len(r) \/ r[j + 1] \notin isIdentPart
    THEN [tok |-> Tok("duration", SubSeq(r, i, j)), next |-> j + 1]
    ELSE [tok |-> Tok("number", SubSeq(r, i, j - 1)), next |-> j]

LexError == [ok |-> FALSE, toks |-> <<>>]

RECURSIVE lexFrom(_, _, _)
lexFrom(r, i, toks) ==
    IF i > Len(r) THEN [ok |-> TRUE, toks |-> Append(toks, Tok("eof", <<>>))]
    ELSE LET c == r[i] IN
    CASE c = " " -> lexFrom(r, i + 1, toks)
      [] c \in Punctuation -> lexFrom(r, i + 1, Append(toks, Tok(c, <<c>>)))
      [] c \in {"'", "\""} ->
           LET s == lexString(r, i) IN
           IF s.ok THEN lexFrom(r, s.next, Append(toks, Tok("string", s.text))) ELSE LexError
      [] c \in {"=", "!", "<", ">"} ->
           LET op == lexOp(r, i) IN
           IF op # <<>> THEN lexFrom(r, i + Len(op), Append(toks, Tok("op", op))) ELSE LexError
      [] c \in isDigit -> LET n == lexNumber(r, i) IN lexFrom(r, n.next, Append(toks, n.tok))
      [] c \in isIdentStart ->
           LET j == Run(r, i, isIdentPart)
           IN  lexFrom(r, j, Append(toks, Tok("ident", SubSeq(r, i, j - 1))))
      [] OTHER -> LexError

lex(r) == lexFrom(r, 1, <<>>)

-----------------------------------------------------------------------------
(* parser.go over tokens whose text is a name *)

Ok(p, x) == [ok |-> TRUE, pos |-> p, val |-> x]
Fail(p) == [ok |-> FALSE, pos |-> p]
Bind(r, Then(_)) == IF r.ok THEN Then(r) ELSE r

cur(t, p) == IF p <= Len(t) THEN t[p] ELSE Tok("panic", "")
Is(t, p, k) == cur(t, p).kind = k
isKw(t, p, s) == Is(t, p, "ident") /\ cur(t, p).text = s

RECURSIVE fieldTail(_, _, _)
fieldTail(t, p, parts) ==
    IF ~Is(t, p, ".") THEN Ok(p, parts)
    ELSE IF ~Is(t, p + 1, "ident") THEN Fail(p + 1)
    ELSE fieldTail(t, p + 2, Append(parts, cur(t, p + 1).text))

field(t, p) ==
    IF Is(t, p, "ident") THEN fieldTail(t, p + 1, <<cur(t, p).text>>) ELSE Fail(p)

Unit(d) == CASE d = "s" -> 1 [] d = "m" -> 60 [] d = "h" -> 3600 [] d = "d" -> 86400

\* A duration token's text is <<n, unit>>.
durationSeconds(d) == d[1] * Unit(d[2])

Value(k, x) == [kind |-> k, val |-> x]

timeValue(t, p) ==
    IF ~Is(t, p + 1, "(") THEN Fail(p + 1)
    ELSE IF ~Is(t, p + 2, ")") THEN Fail(p + 2)
    ELSE IF ~(Is(t, p + 3, "-") \/ Is(t, p + 3, "+")) THEN Ok(p + 3, Value("time", 0))
    ELSE IF ~Is(t, p + 4, "duration") THEN Fail(p + 4)
    ELSE LET secs == durationSeconds(cur(t, p + 4).text)
         IN  Ok(p + 5, Value("time", IF Is(t, p + 3, "-") THEN -secs ELSE secs))

value(t, p) ==
    CASE Is(t, p, "string") -> Ok(p + 1, Value("string", cur(t, p).text))
      [] Is(t, p, "number") -> Ok(p + 1, Value("number", cur(t, p).text))
      [] isKw(t, p, "now") -> timeValue(t, p)
      [] OTHER -> Fail(p)

parseComparison(t, p) ==
    Bind(field(t, p), LAMBDA f :
      IF ~Is(t, f.pos, "op") THEN Fail(f.pos)
      ELSE Bind(value(t, f.pos + 1), LAMBDA v :
             Ok(v.pos, [node |-> "cmp", field |-> f.val, op |-> cur(t, f.pos).text, value |-> v.val])))

Binary(op, l, r) == [node |-> op, left |-> l, right |-> r]

RECURSIVE primary(_, _), BinaryTail(_, _, _, _), Operand(_, _, _)
primary(t, p) ==
    IF ~Is(t, p, "(") THEN parseComparison(t, p)
    ELSE Bind(Operand(t, p + 1, "OR"), LAMBDA e :
           IF Is(t, e.pos, ")") THEN Ok(e.pos + 1, [node |-> "paren", inner |-> e.val])
           ELSE Fail(e.pos))

\* Operand(t, p, "AND") is andExpr, Operand(t, p, "OR") is orExpr.
Operand(t, p, op) ==
    Bind(IF op = "AND" THEN primary(t, p) ELSE Operand(t, p, "AND"),
         LAMBDA l : BinaryTail(t, l.pos, op, l.val))

BinaryTail(t, p, op, left) ==
    IF ~isKw(t, p, op) THEN Ok(p, left)
    ELSE Bind(IF op = "AND" THEN primary(t, p + 1) ELSE Operand(t, p + 1, "AND"),
              LAMBDA r : BinaryTail(t, r.pos, op, Binary(op, left, r.val)))

\* Mutant: AND and OR at one level, left to right.
orExprFlat(t, p) ==
    LET RECURSIVE Rest(_)
        Rest(l) == IF isKw(t, l.pos, "AND") \/ isKw(t, l.pos, "OR")
                   THEN Bind(primary(t, l.pos + 1), LAMBDA r :
                          Rest(Ok(r.pos, Binary(cur(t, l.pos).text, l.val, r.val))))
                   ELSE l
    IN  Bind(primary(t, p), Rest)

orExpr(t, p) == Operand(t, p, "OR")

NoExpr == [node |-> "none"]

isAgg(s) == s \in {"count", "sum", "avg", "min", "max"}

optAlias(t, p, it) ==
    IF ~isKw(t, p, "AS") THEN Ok(p, it)
    ELSE IF Is(t, p + 1, "ident") THEN Ok(p + 2, [it EXCEPT !.alias = cur(t, p + 1).text])
    ELSE Ok(p + 1, it)

Item(agg, star, f) == [agg |-> agg, star |-> star, field |-> f, alias |-> ""]

selectItem(t, p) ==
    IF Is(t, p, "ident") /\ Is(t, p + 1, "(") THEN
        LET agg == cur(t, p).text
            arg == IF Is(t, p + 2, "*") THEN Ok(p + 3, Item(agg, TRUE, <<>>))
                   ELSE Bind(field(t, p + 2), LAMBDA f : Ok(f.pos, Item(agg, FALSE, f.val)))
        IN  IF ~isAgg(agg) THEN Fail(p + 1)
            ELSE Bind(arg, LAMBDA a :
                   IF Is(t, a.pos, ")") THEN optAlias(t, a.pos + 1, a.val) ELSE Fail(a.pos))
    ELSE Bind(field(t, p), LAMBDA f : optAlias(t, f.pos, Item("", FALSE, f.val)))

RECURSIVE selectList(_, _, _)
selectList(t, p, items) ==
    Bind(IF Is(t, p, "*") THEN Ok(p + 1, Item("", TRUE, <<>>)) ELSE selectItem(t, p), LAMBDA it :
         IF Is(t, it.pos, ",") THEN selectList(t, it.pos + 1, Append(items, it.val))
         ELSE Ok(it.pos, Append(items, it.val)))

fromClause(t, p) ==
    IF ~isKw(t, p, "FROM") THEN Fail(p)
    ELSE IF Is(t, p + 1, "ident") THEN Ok(p + 2, cur(t, p + 1).text) ELSE Fail(p + 1)

optWhere(t, p) == IF isKw(t, p, "WHERE") THEN orExpr(t, p + 1) ELSE Ok(p, NoExpr)

\* 0: unset.
optLimit(t, p) ==
    IF ~isKw(t, p, "LIMIT") THEN Ok(p, 0)
    ELSE IF Is(t, p + 1, "number") THEN Ok(p + 2, cur(t, p + 1).text) ELSE Fail(p + 1)

RECURSIVE fieldList(_, _, _)
fieldList(t, p, fs) ==
    Bind(field(t, p), LAMBDA f :
         IF Is(t, f.pos, ",") THEN fieldList(t, f.pos + 1, Append(fs, f.val))
         ELSE Ok(f.pos, Append(fs, f.val)))

optGroupBy(t, p) ==
    IF ~isKw(t, p, "GROUP") THEN Ok(p, <<>>)
    ELSE IF isKw(t, p + 1, "BY") THEN fieldList(t, p + 2, <<>>) ELSE Fail(p + 1)

optOrderBy(t, p) ==
    IF ~isKw(t, p, "ORDER") THEN Ok(p, [by |-> <<>>, desc |-> FALSE])
    ELSE IF ~isKw(t, p + 1, "BY") THEN Fail(p + 1)
    ELSE Bind(field(t, p + 2), LAMBDA f :
           LET desc == isKw(t, f.pos, "DESC")
           IN  Ok(IF desc \/ isKw(t, f.pos, "ASC") THEN f.pos + 1 ELSE f.pos,
                  [by |-> f.val, desc |-> desc]))

Stmt(kind, items, table, where, group, order, lim) ==
    [kind |-> kind, select |-> items, table |-> table, where |-> where,
     groupBy |-> group, orderBy |-> order, limit |-> lim, search |-> <<>>]

selectStmt(t, p) ==
    Bind(selectList(t, p + 1, <<>>), LAMBDA l : Bind(fromClause(t, l.pos), LAMBDA f :
    Bind(optWhere(t, f.pos), LAMBDA w : Bind(optGroupBy(t, w.pos), LAMBDA g :
    Bind(optOrderBy(t, g.pos), LAMBDA o : Bind(optLimit(t, o.pos), LAMBDA n :
      Ok(n.pos, Stmt("select", l.val, f.val, w.val, g.val, o.val, n.val))))))))

Unordered == [by |-> <<>>, desc |-> FALSE]

searchStmt(t, p) ==
    IF ~Is(t, p + 1, "string") THEN Fail(p + 1)
    ELSE Bind(fromClause(t, p + 2), LAMBDA f : Bind(optWhere(t, f.pos), LAMBDA w :
         Bind(optLimit(t, w.pos), LAMBDA n :
           Ok(n.pos, [Stmt("search", <<>>, f.val, w.val, <<>>, Unordered, n.val)
                        EXCEPT !.search = cur(t, p + 1).text]))))

tailStmt(t, p) ==
    Bind(fromClause(t, p + 1), LAMBDA f : Bind(optWhere(t, f.pos), LAMBDA w :
      Ok(w.pos, Stmt("tail", <<>>, f.val, w.val, <<>>, Unordered, 0))))

statement(t, p) ==
    CASE isKw(t, p, "SEARCH") -> searchStmt(t, p)
      [] isKw(t, p, "SELECT") -> selectStmt(t, p)
      [] isKw(t, p, "TAIL") -> tailStmt(t, p)
      [] OTHER -> Fail(p)

\* t ends in tEOF (lex appends it).
Parse(t) == Bind(statement(t, 1), LAMBDA s : IF Is(t, s.pos, "eof") THEN s ELSE Fail(s.pos))

-----------------------------------------------------------------------------
(* compile.go *)

RECURSIVE compileExpr(_, _, _)
compileExpr(table, tenant, e) ==
    compileNode(table, tenant, e, [x \in Subexpressions(e) |-> compileExpr(table, tenant, x)])

Flush(st) == IF st.cur = <<>> THEN st ELSE [toks |-> Append(st.toks, st.cur), cur |-> <<>>]
Scan(phrase) ==
    FoldLeft(LAMBDA st, c : IF c \in Alnum THEN [st EXCEPT !.cur = Append(@, c)] ELSE Flush(st),
             [toks |-> <<>>, cur |-> <<>>], phrase)

\* The probes, all of which the message must pass; none: no predicate.
searchPredicate(phrase) == Flush(Scan(phrase)).toks
probesSQL(probes) ==
    FlattenSeq([i \in DOMAIN probes |-> (IF i = 1 THEN <<>> ELSE Sym("AND"))
                                        \o Pred("token", Col("message"), "has", probes[i])])

\* Mutant: a user predicate takes the place of the tenant's.
whereSQLUserOnly(s, tenant) ==
    IF s.where.node = "none" THEN Sql(TenantIs(tenant))
    ELSE compileExpr(s.table, tenant, s.where)

whereSQL(s, tenant) ==
    LET w == IF s.where.node = "none" THEN Sql(<<>>) ELSE compileExpr(s.table, tenant, s.where)
        probes == IF s.kind = "search" THEN searchPredicate(s.search) ELSE <<>>
    IN  IF w.ok
        THEN Sql((IF w.sql = <<>> THEN TenantIs(tenant) ELSE guarded(tenant, w.sql))
                 \o (IF probes = <<>> THEN <<>> ELSE Sym("AND") \o parens(probesSQL(probes))))
        ELSE SqlError

defaultProjection(table) ==
    CASE table = "logs" -> <<"timestamp", "service", "level", "message", "body">>
      [] table = "auth_events" -> <<"timestamp", "event_type", "user_id">>
      [] table = "metrics" -> <<"timestamp", "service", "value", "attributes">>
      [] table = "traces" -> <<"timestamp", "service", "name">>
      [] table = "change_events" -> <<"timestamp", "service", "kind", "title">>

\* The columns one item of the SELECT list adds to the result.
itemColumns(table, it) ==
    IF it.star /\ it.agg = "" THEN Sql(defaultProjection(table))
    ELSE IF namedItem(table, it).ok THEN Sql(<<namedItem(table, it).name>>) ELSE SqlError

Compiled(s, cols, where, opts) ==
    [ok |-> TRUE, columns |-> cols, where |-> where, limit |-> limit(s.limit, opts),
     items |-> {namedItem(s.table, it) : it \in {it \in ToSet(s.select) : ~(it.star /\ it.agg = "")}}]
NotCompiled == [ok |-> FALSE]

compileSearch(s, tenant, opts) ==
    LET w == whereSQL(s, tenant)
    IN  IF s.table = "logs" /\ w.ok THEN Compiled(s, defaultProjection(s.table), w.sql, opts)
        ELSE NotCompiled

compileSelect(s, tenant, opts) ==
    LET its == [i \in DOMAIN s.select |-> itemColumns(s.table, s.select[i])]
        w == whereSQL(s, tenant)
    IN  IF /\ \A i \in DOMAIN its : its[i].ok
           /\ w.ok
           /\ \A i \in DOMAIN s.groupBy : mapField(s.table, s.groupBy[i]).ok
           /\ s.orderBy.by # <<>> => mapField(s.table, s.orderBy.by).ok
        THEN Compiled(s, FlattenSeq([i \in DOMAIN its |-> its[i].sql]), w.sql, opts)
        ELSE NotCompiled

Compile(s, tenant, opts) ==
    IF s.table \notin Tables \/ s.kind = "tail" THEN NotCompiled
    ELSE IF s.kind = "search" THEN compileSearch(s, tenant, opts)
    ELSE compileSelect(s, tenant, opts)

\* Mutant: the backslashes are left alone.
quoteHalf(s) ==
    <<"'">> \o FlattenSeq([i \in DOMAIN s |-> IF s[i] = "'" THEN <<"\\", "'">> ELSE <<s[i]>>]) \o <<"'">>

quote(s) ==
    <<"'">> \o FlattenSeq([i \in DOMAIN s |->
                 IF s[i] \in {"\\", "'"} THEN <<"\\", s[i]>> ELSE <<s[i]>>]) \o <<"'">>

-----------------------------------------------------------------------------
(* matcher.go: a record maps columns to values; body maps paths to strings *)

levelRank(l) == IndexIn(Levels, l) - 1

Missing == [ok |-> FALSE]
Found(v) == [ok |-> TRUE, val |-> v]

fieldString(f, rec) ==
    IF Len(f) = 1 THEN
        LET name == CASE f[1] = "time" -> "timestamp" [] f[1] = "tenant" -> "tenant_id" [] OTHER -> f[1]
        IN  IF name \in DOMAIN rec THEN Found(rec[name]) ELSE Missing
    ELSE IF f[1] \in {"body", "resource"} /\ f[1] \in DOMAIN rec /\ Tail(f) \in DOMAIN rec[f[1]]
         THEN Found(rec[f[1]][Tail(f)])
    ELSE Missing

\* Mutant: levels are compared as strings.
evalComparisonAlpha(c, rec, now) ==
    c.field \in {<<"tenant">>, <<"tenant_id">>} \/
    LET l == fieldString(c.field, rec) IN
    l.ok /\ CASE c.value.kind = "time" -> applyOp(c.op, l.val, now + c.value.val)
              [] c.value.kind = "number" -> applyOp(c.op, l.val, c.value.val)
              [] OTHER -> applyOp(c.op, IndexIn(Alphabetical, l.val), IndexIn(Alphabetical, c.value.val))

evalComparison(c, rec, now) ==
    c.field \in {<<"tenant">>, <<"tenant_id">>} \/
    LET l == fieldString(c.field, rec) IN
    l.ok /\ CASE c.field = <<"level">> /\ c.value.kind = "string" /\ isOrdering(c.op) ->
                   applyOp(c.op, levelRank(l.val), levelRank(c.value.val))
              [] c.value.kind = "time" -> applyOp(c.op, l.val, now + c.value.val)
              [] c.value.kind = "number" -> applyOp(c.op, l.val, c.value.val)
              [] OTHER -> applyOp(c.op, IndexIn(Alphabetical, l.val), IndexIn(Alphabetical, c.value.val))

RECURSIVE eval(_, _, _)
eval(e, rec, now) ==
    CASE e.node = "cmp" -> evalComparison(e, rec, now)
      [] e.node = "paren" -> eval(e.inner, rec, now)
      [] e.node = "AND" -> eval(e.left, rec, now) /\ eval(e.right, rec, now)
      [] e.node = "OR" -> eval(e.left, rec, now) \/ eval(e.right, rec, now)

Match(e, rec, now) == e.node = "none" \/ eval(e, rec, now)

-----------------------------------------------------------------------------
(* ClickHouse, as the compiler uses it (external) *)

\* How it reads the literal that starts at i: backslash escapes other than of
\* the quote and of itself denote control characters.
RECURSIVE chString(_, _, _)
chString(r, i, b) ==
    IF i > Len(r) THEN [ok |-> FALSE, text |-> <<>>, next |-> i]
    ELSE IF r[i] = "\\" /\ i < Len(r)
    THEN chString(r, i + 2, Append(b, IF r[i + 1] \in {"\\", "'"} THEN r[i + 1] ELSE "control"))
    ELSE IF r[i] = "'" THEN [ok |-> TRUE, text |-> b, next |-> i + 1]
    ELSE chString(r, i + 1, Append(b, r[i]))

\* Reference: what a condition written out in symbols means.
RECURSIVE Means(_)
Means(w) == MeansOf(w, [x \in SubConditions(w) |-> Means(x)])

Truth(w, Holds(_)) ==
    Means([i \in DOMAIN w |-> IF w[i].sym = "pred" THEN [sym |-> "pred", holds |-> Holds(w[i])] ELSE w[i]])

\* Reference: the conditions, by the ambiguous grammar
\*   e ::= atom | ( e ) | e AND e | e OR e.
RECURSIVE IsCondition(_)
IsCondition(w) ==
    \/ Len(w) = 1 /\ w[1].sym = "pred"
    \/ Len(w) > 2 /\ w[1].sym = "(" /\ w[Len(w)].sym = ")" /\ IsCondition(SubSeq(w, 2, Len(w) - 1))
    \/ \E i \in DOMAIN w : /\ w[i].sym \in {"AND", "OR"}
                           /\ i > 1 /\ i < Len(w)
                           /\ IsCondition(SubSeq(w, 1, i - 1))
                           /\ IsCondition(SubSeq(w, i + 1, Len(w)))
=============================================================================
