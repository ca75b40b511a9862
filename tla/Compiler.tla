------------------------------ MODULE Compiler ------------------------------
(***************************************************************************)
(* compile.go (domains/query): the compilation of one node of a condition to   *)
(* ClickHouse SQL, the tenant's guard, and how ClickHouse reads one level of   *)
(* the result; LogQL does the recursions.  Compiled SQL is a sequence of       *)
(* symbols whose meaning is ClickHouse's: AND binds tighter than OR.           *)
(***************************************************************************)
EXTENDS Integers, Sequences, FiniteSets

-----------------------------------------------------------------------------
(* A column set per table, of the names the inputs use *)

Common == {"timestamp", "tenant_id", "_retention_days"}
Tables == {"logs", "auth_events", "metrics", "traces", "change_events"}
columns(table) ==
    Common \cup
    CASE table = "logs" -> {"level", "service", "environment", "trace_id", "span_id", "ingested_by",
                              "message", "body", "resource"}
      [] table = "auth_events" -> {"event_type", "user_id"}
      [] table = "metrics" -> {"service", "value", "attributes", "resource"}
      [] table = "traces" -> {"service", "name", "attributes", "resource"}
      [] table = "change_events" -> {"service", "kind", "title", "metadata"}

Col(c) == [ok |-> TRUE, col |-> c, path |-> <<>>]
jsonExtract(c, keys) == [ok |-> TRUE, col |-> c, path |-> keys]
UnknownField == [ok |-> FALSE]

mapField(table, f) ==
    IF Len(f) = 1 THEN
        CASE f[1] = "time" -> Col("timestamp")
          [] f[1] = "tenant" -> Col("tenant_id")
          [] f[1] \in columns(table) -> Col(f[1])
          [] OTHER -> UnknownField
    ELSE
        CASE f[1] = "body" /\ table = "logs" -> jsonExtract("body", Tail(f))
          [] f[1] = "resource" /\ table # "auth_events" -> jsonExtract("resource", Tail(f))
          [] f[1] = "attr" /\ (table = "traces" \/ (table = "metrics" /\ Len(f) = 2)) ->
               jsonExtract("attributes", Tail(f))
          [] f[1] = "auth" /\ table = "auth_events" /\ Len(f) = 2 /\ f[2] \in columns(table) ->
               Col(f[2])
          [] OTHER -> UnknownField

isOrdering(op) == op \in {"<", ">", "<=", ">="}

Sym(s) == <<[sym |-> s]>>
Pred(how, lhs, op, rhs) == <<[sym |-> "pred", how |-> how, lhs |-> lhs, op |-> op, rhs |-> rhs]>>
TenantIs(tenant) == Pred("string", Col("tenant_id"), "=", tenant)
SqlError == [ok |-> FALSE, sql |-> <<>>]
Sql(s) == [ok |-> TRUE, sql |-> s]

compileComparison(table, tenant, c) ==
    IF c.field \in {<<"tenant">>, <<"tenant_id">>} THEN Sql(TenantIs(tenant))
    ELSE LET lhs == mapField(table, c.field) IN
         IF ~lhs.ok THEN SqlError
         ELSE IF lhs.col = "level" /\ c.value.kind = "string" /\ isOrdering(c.op)
         THEN Sql(Pred("level", lhs, c.op, c.value.val))
         ELSE Sql(Pred(c.value.kind, lhs, c.op, c.value.val))

\* What stands next to each other in SQL is put into parentheses.
parens(w) == Sym("(") \o w \o Sym(")")

\* The expressions an expression is made of.
Subexpressions(e) == CASE e.node = "cmp" -> {}
                 [] e.node = "paren" -> {e.inner}
                 [] e.node \in {"AND", "OR"} -> {e.left, e.right}

\* One node, given what its operands compile to.
compileNode(table, tenant, e, expr) ==
    CASE e.node = "cmp" -> compileComparison(table, tenant, e)
      [] e.node = "paren" -> IF expr[e.inner].ok THEN Sql(parens(expr[e.inner].sql)) ELSE SqlError
      [] e.node \in {"AND", "OR"} ->
           IF expr[e.left].ok /\ expr[e.right].ok
           THEN Sql(parens(expr[e.left].sql \o Sym(e.node) \o expr[e.right].sql)) ELSE SqlError

guarded(tenant, w) == TenantIs(tenant) \o Sym("AND") \o parens(w)

\* An item of the SELECT list other than *: the expression, and the name it is
\* given (it.alias, or one made of the last part of the field).
aliasOr(alias, def) == IF alias # "" THEN alias ELSE def
last(f) == f[Len(f)]
namedItem(table, it) ==
    LET lhs == mapField(table, it.field) IN
    CASE it.star -> [ok |-> it.agg = "count", agg |-> TRUE, expr |-> UnknownField, name |-> aliasOr(it.alias, "count")]
      [] ~it.star /\ it.agg # "" ->
           [ok |-> lhs.ok, agg |-> TRUE, expr |-> lhs, name |-> aliasOr(it.alias, it.agg \o "_" \o last(it.field))]
      [] OTHER -> [ok |-> lhs.ok, agg |-> FALSE, expr |-> lhs, name |-> aliasOr(it.alias, last(it.field))]

limit(l, opts) ==
    LET n == IF l <= 0 THEN opts.default ELSE l
    IN  IF opts.max > 0 /\ n > opts.max THEN opts.max ELSE n

-----------------------------------------------------------------------------
(* Comparing values, in matcher.go and in ClickHouse *)

Levels == <<"trace", "debug", "info", "warn", "error", "fatal">>
\* strings.Compare: the strings of the inputs, in order.
Alphabetical == <<"", "debug", "error", "fatal", "info", "trace", "warn">>
IndexIn(seq, x) == IF \E i \in DOMAIN seq : seq[i] = x
                   THEN CHOOSE i \in DOMAIN seq : seq[i] = x ELSE 0

applyOp(op, a, b) ==
    CASE op = "=" -> a = b [] op = "!=" -> a # b
      [] op = "<" -> a < b [] op = ">" -> a > b
      [] op = "<=" -> a <= b [] op = ">=" -> a >= b
      [] OTHER -> FALSE

-----------------------------------------------------------------------------
(* ClickHouse, as the compiler uses it (external) *)

\* A JSON path that is not there extracts as the empty string; == is =.
chColumn(lhs, row) ==
    IF lhs.path = <<>> THEN row[lhs.col]
    ELSE IF lhs.path \in DOMAIN row[lhs.col] THEN row[lhs.col][lhs.path] ELSE ""

\* What the names in WHERE stand for: an alias of the SELECT list comes before
\* a column of the table (prefer_column_name_to_alias is not set).  Aliases that
\* the expression of an alias names in turn are not followed.
Aliased(items, c) == {it \in items : it.name = c}
chNames(items, row) ==
    [c \in DOMAIN row |-> IF Aliased(items, c) = {} THEN row[c]
                          ELSE chColumn((CHOOSE it \in Aliased(items, c) : TRUE).expr, row)]

\* An aggregate has no value in WHERE: the query is refused.
chRefuses(items, where) ==
    \E i \in DOMAIN where : where[i].sym = "pred" /\ \E it \in Aliased(items, where[i].lhs.col) : it.agg

\* The name c is the table's column, whatever the SELECT list calls its items.
Unshadowed(items, c) == \A it \in Aliased(items, c) : ~it.agg /\ it.expr = Col(c)

\* hasTokenCaseInsensitive: a maximal alphanumeric run of the message.
Alnum == {"x", "d", "0", "1"}
chHasToken(message, w) ==
    \E i \in DOMAIN message :
        LET j == i + Len(w) - 1 IN
        /\ j <= Len(message) /\ SubSeq(message, i, j) = w
        /\ i = 1 \/ message[i - 1] \notin Alnum
        /\ j = Len(message) \/ message[j + 1] \notin Alnum

chPred(p, row, now) ==
    LET v == chColumn(p.lhs, row)
        op == IF p.op = "==" THEN "=" ELSE p.op
    IN  CASE p.how = "level" -> applyOp(op, IndexIn(Levels, v), IndexIn(Levels, p.rhs))
          [] p.how = "time" -> applyOp(op, v, now + p.rhs)
          [] p.how = "number" -> applyOp(op, v, p.rhs)
          [] p.how = "token" -> chHasToken(v, p.rhs)
          [] p.how = "string" /\ p.lhs.col = "tenant_id" -> v = p.rhs
          [] OTHER -> applyOp(op, IndexIn(Alphabetical, v), IndexIn(Alphabetical, p.rhs))

Depth(w, i) == Cardinality({j \in 1..i : w[j].sym = "("}) - Cardinality({j \in 1..i : w[j].sym = ")"})

\* The positions of op outside all parentheses.
TopLevel(w, op) == {i \in DOMAIN w : w[i].sym = op /\ Depth(w, i) = 0}

\* Where a condition is taken apart: OR is loosest.
Splits(w) == IF TopLevel(w, "OR") # {} THEN TopLevel(w, "OR") ELSE TopLevel(w, "AND")
Split(w) == CHOOSE i \in Splits(w) : TRUE
LeftPart(w, i) == SubSeq(w, 1, i - 1)
RightPart(w, i) == SubSeq(w, i + 1, Len(w))
InnerPart(w) == SubSeq(w, 2, Len(w) - 1)

SubConditions(w) ==
    IF Splits(w) # {} THEN {LeftPart(w, Split(w)), RightPart(w, Split(w))}
    ELSE IF w[1].sym = "(" THEN {InnerPart(w)} ELSE {}

\* A condition, given what the conditions in it mean.
MeansOf(w, m) ==
    LET i == Split(w) IN
    IF TopLevel(w, "OR") # {} THEN m[LeftPart(w, i)] \/ m[RightPart(w, i)]
    ELSE IF TopLevel(w, "AND") # {} THEN m[LeftPart(w, i)] /\ m[RightPart(w, i)]
    ELSE IF w[1].sym = "(" THEN m[InnerPart(w)]
    ELSE w[1].holds

\* A condition with the values of a row put in.
chCondition(w, row, now) ==
    [i \in DOMAIN w |-> IF w[i].sym = "pred" THEN [sym |-> "pred", holds |-> chPred(w[i], row, now)] ELSE w[i]]
=============================================================================
