------------------------------ MODULE MCErasure -----------------------------
(* Erasure alone: a caller's records in each table and a stranger's. *)
EXTENDS Erasure

Records == {[tenant |-> "mine", table |-> t, user |-> "u", time |-> 1] : t \in {"logs", "metrics"}}
           \cup {[tenant |-> "other", table |-> "metrics", user |-> "u", time |-> 1]}
=============================================================================
