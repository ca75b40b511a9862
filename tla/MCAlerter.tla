------------------------------ MODULE MCAlerter ------------------------------
(* Instances of Alerter for TLC: two rules of a service (db) that is called  *)
(* by another (api), the anomaly signals of both, and a rule that names no   *)
(* service.                                                                  *)
EXTENDS Alerter, TLC

MCService ==
    [r \in Rule |-> IF r \in {"db_errors", "db_latency"} THEN "db" ELSE Star]

MCAdjacent == {<<"api", "db">>} \cap (Service \X Service)
\* The engines are interchangeable.
Symmetry == Permutations(Engine)
=============================================================================
