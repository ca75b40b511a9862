------------------------------ MODULE MCIngest ------------------------------
(* Ingest for TLC: one log line, and the order in which the programs that     *)
(* provision the stream start.                                                *)
EXTENDS Ingest

MCSignal == [m \in Message |-> "logs"]
MCIds == [m \in Message |-> m]
MCInputOf == [m \in Message |-> "i1"]
MCTrace == [i \in Input |-> "none"]

=============================================================================
