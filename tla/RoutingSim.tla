---------------------------- MODULE RoutingSim -------------------------------
(***************************************************************************)
(* The simulation of alert routing (domains/routingsim), its handler, and the  *)
(* query of the alert it simulates.  A condition is a sequence of lexemes, as  *)
(* it is written: comparisons (sym "pred"), AND, OR and parentheses.           *)
(***************************************************************************)
EXTENDS LogQL

severityRank(s) ==
    CASE s = "trace" -> 0 [] s = "debug" -> 1 [] s = "info" -> 2 [] s \in {"warn", "warning"} -> 3
      [] s \in {"error", "err"} -> 4 [] s \in {"fatal", "critical", "crit"} -> 5 [] OTHER -> -1

RECURSIVE TrimParens(_)
TrimParens(w) ==
    IF w = <<>> THEN w
    ELSE IF w[1].sym \in {"(", ")"} THEN TrimParens(Tail(w))
    ELSE IF Last(w).sym \in {"(", ")"} THEN TrimParens(Front(w)) ELSE w

splitAt(w) ==
    FoldLeft(LAMBDA out, l : IF l.sym = "AND" THEN Append(out, <<>>)
                             ELSE Append(Front(out), Append(Last(out), l)), <<<<>>>>, w)

\* What follows a comparison in its part runs on into the value.
RunOn == "run-on"
clause(part) ==
    IF part[1].sym # "pred" THEN [ok |-> FALSE]
    ELSE [ok |-> TRUE, field |-> part[1].field, op |-> part[1].op,
          value |-> IF Len(part) = 1 THEN part[1].val ELSE RunOn]

splitClauses(cond) ==
    LET parts == SelectSeq([i \in DOMAIN splitAt(cond) |-> TrimParens(splitAt(cond)[i])], LAMBDA p : p # <<>>)
    IN  [i \in DOMAIN parts |-> clause(parts[i])]

\* An event: service and severity ("": not given) and labels.
resolveField(f, ev) ==
    CASE f = "service" -> [ok |-> ev.service # "", val |-> ev.service]
      [] f \in {"level", "severity"} -> [ok |-> ev.severity # "", val |-> ev.severity]
      [] f \in DOMAIN ev.labels -> [ok |-> TRUE, val |-> ev.labels[f]]
      [] OTHER -> [ok |-> FALSE, val |-> ""]

\* Mutant: >= and <= as > and <.
evalOrderingStrict(cl, actual) ==
    LET a == severityRank(actual)
        b == severityRank(cl.value)
    IN  /\ cl.field \in {"level", "severity"} /\ a >= 0 /\ b >= 0
        /\ IF cl.op \in {">", ">="} THEN a > b ELSE a < b

evalOrdering(cl, actual) ==
    LET a == severityRank(actual)
        b == severityRank(cl.value)
    IN  /\ cl.field \in {"level", "severity"} /\ a >= 0 /\ b >= 0
        /\ CASE cl.op = ">" -> a > b [] cl.op = "<" -> a < b [] cl.op = ">=" -> a >= b [] cl.op = "<=" -> a <= b

\* =~ (contains) is no operator of LogQL++ and not among the inputs.
evalClause(cl, ev) ==
    cl.ok /\ LET actual == resolveField(cl.field, ev) IN
             actual.ok /\ CASE cl.op \in {"=", "=="} -> actual.val = cl.value
                            [] cl.op = "!=" -> actual.val # cl.value
                            [] OTHER -> evalOrdering(cl, actual.val)

matchRule(ev, r) ==
    /\ r.enabled /\ r.service \in {"", ev.service}
    /\ LET cls == splitClauses(r.condition) IN \A i \in DOMAIN cls : evalClause(cls[i], ev)

\* The channels of the matched rules, each once, in the order of the rules.
SimulateAlertRouting(ev, rules) ==
    LET matched == SelectSeq(rules, LAMBDA r : matchRule(ev, r))
        all == FlattenSeq([i \in DOMAIN matched |-> matched[i].channels])
    IN  FoldLeft(LAMBDA fired, c : IF Contains(fired, c) THEN fired ELSE Append(fired, c), <<>>, all)

\* evaluator.go: the records an alert counts.  The condition goes into the SQL
\* as it is written, so ClickHouse orders levels as text.
buildQuery(r, ev) ==
    /\ r.service \in {"", ev.service}
    /\ r.condition = <<>> \/ Truth(r.condition, LAMBDA p :
         LET v == IF p.field = "service" THEN ev.service ELSE ev.severity
         IN  IF isOrdering(p.op) THEN applyOp(p.op, IndexIn(Alphabetical, v), IndexIn(Alphabetical, p.val))
             ELSE applyOp(p.op, v, p.val))
=============================================================================
