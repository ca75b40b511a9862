------------------------------ MODULE MCWriter ------------------------------
(* Instances of Writer for TLC: two log records and one metric point; in the *)
(* replay instance two of the messages carry one record.                     *)
EXTENDS Writer

m1 == "m1"
m2 == "m2"
m3 == "m3"

MCSignal == [m \in Message |-> IF m = m3 THEN "metrics" ELSE "logs"]

\* every message is its own record
MCIds == [m \in Message |-> m]

\* m2 repeats the payload of m1
MCReplayIds == [m \in Message |-> IF m = m2 THEN m1 ELSE m]

\* m1 is a log record, m2 a span, m3 is on a subject with no table
MCStraySignal ==
    [m \in Message |-> CASE m = m1 -> "logs" [] m = m2 -> "traces" [] OTHER -> "audit"]
=============================================================================
