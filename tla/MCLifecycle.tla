----------------------------- MODULE MCLifecycle ----------------------------
(* Two partitions: a tenant with a one-day hot window, one on the default. *)
EXTENDS Lifecycle

Partitions == {"p1", "p2"}
Windows == [p1 |-> 1, p2 |-> 0]
=============================================================================
