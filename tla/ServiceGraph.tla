---------------------------- MODULE ServiceGraph -----------------------------
(***************************************************************************)
(* The service graph and its blast radius (domains/topology) with the handler. *)
(* Spans have an id, a parent, a trace and a service, logs a service, all of   *)
(* one tenant; recent: the row is in the window asked for.                     *)
(***************************************************************************)
EXTENDS ReadSide, Integers, Sequences, FiniteSets, SequencesExt

CONSTANT Service     \* the names a request may ask for

EdgeRows(spans) ==
    {<<pc[1].service, pc[2].service>> : pc \in
        {pc \in spans \X spans : /\ pc[2].trace = pc[1].trace /\ pc[2].parent = pc[1].id
                                 /\ pc[2].recent /\ pc[1].service # pc[2].service}}

coverage(hasTraces, hasLogs) ==
    CASE hasTraces /\ hasLogs -> "full" [] hasTraces -> "traces-only" [] OTHER -> "logs-only"

Callers(edges, service) == {e[1] : e \in {e \in edges : e[2] = service}}
Ends(edges) == UNION {{e[1], e[2]} : e \in edges}

Derive(spans, logs) ==
    LET edges == EdgeRows(spans)
        traced == {s.service : s \in {s \in spans : s.recent}}
        logged == {l.service : l \in {l \in logs : l.recent}}
        HasTraces(svc) == svc \in traced \/ (svc \in Ends(edges) /\ svc \notin logged)
    IN  [edges |-> edges,
         nodes |-> {[service |-> svc, coverage |-> coverage(HasTraces(svc), svc \in logged)] :
                      svc \in (traced \cup logged \cup Ends(edges)) \ {None}}]

\* A turn of the loop over the stack.
Visit(edges, service, w) ==
    IF w.stack = <<>> THEN w
    ELSE LET new == {u \in Callers(edges, Last(w.stack)) : u \notin w.seen /\ u # service}
         IN  [stack |-> Front(w.stack) \o SetToSeq(new), seen |-> w.seen \cup new]

\* The state of the loop by its turns.
Turns(edges, service) ==
    LET walk[n \in Nat] == IF n = 0 THEN [stack |-> <<service>>, seen |-> {}]
                           ELSE Visit(edges, service, walk[n - 1])
    IN  walk

\* Nothing is pushed twice, so no more turns than there are calls, and one.
Upstream(edges, service) == Turns(edges, service)[Cardinality(edges) + 1]

\* Mutant: the callers of callers are not followed.
FocusBlastRadiusDirect(g, service) ==
    [focus |-> service, radius |-> Callers(g.edges, service) \ {service},
     edges |-> {e \in g.edges : service \in {e[1], e[2]}},
     nodes |-> {n \in g.nodes : n.service = service \/ <<n.service, service>> \in g.edges
                                                    \/ <<service, n.service>> \in g.edges}]

FocusBlastRadius(g, service) ==
    [focus |-> service, radius |-> Upstream(g.edges, service).seen,
     edges |-> {e \in g.edges : service \in {e[1], e[2]}},
     nodes |-> {n \in g.nodes : n.service = service \/ <<n.service, service>> \in g.edges
                                                    \/ <<service, n.service>> \in g.edges}]

Topology(spans, logs, service) ==
    LET g == Derive(spans, logs)
    IN  IF service = None THEN g ELSE FocusBlastRadius(g, service)

-----------------------------------------------------------------------------

TopologyInit == what = "topology" /\ IsFiniteSet(input.spans) /\ ~done

TopologySpec == TopologyInit /\ [][Submit("topology")]_vars

\* Reference: the services that reach a service over calls are the least set
\* that has its callers and the callers of its members, itself left out.
HasCallers(edges, service, C) ==
    \A e \in edges : e[2] \in C \cup {service} => e[1] \in C \cup {service}
Reaching(edges, service) ==
    LET others == Ends(edges) \ {service}
    IN  {s \in others : \A C \in SUBSET others : HasCallers(edges, service, C) => s \in C}

\* Derive, FocusBlastRadius: the radius of a service is exactly the services that
\* reach it over calls, cycles included, when the loop has emptied its stack;
\* both ends of a call are nodes, services that only log too, and the trimmed
\* graph has the direct neighbours.
BlastRadiusIsCallers ==
    done /\ what = "topology" =>
      LET g == Derive(input.spans, input.logs)
          Named(G) == {n.service : n \in G.nodes} \cup {None}
      IN  /\ Ends(g.edges) \subseteq Named(g)
          /\ \A l \in input.logs : l.recent => l.service \in Named(g)
          /\ \A svc \in Service \ {None} :
               LET f == Topology(input.spans, input.logs, svc) IN
               /\ Upstream(g.edges, svc).stack = <<>>
               /\ f.radius = Reaching(g.edges, svc)
               /\ Ends(f.edges) \subseteq Named(f)
=============================================================================
