----------------------------- MODULE Lifecycle ------------------------------
(***************************************************************************)
(* The cold-tier mover (cmd/lifecycle, domains/lifecycle, and the read path   *)
(* of platform/clickhouse): each cycle loads the tenants' tiers, snapshots    *)
(* system.parts, plans and moves partition by partition.  An error of either  *)
(* read ends the cycle, an error of a move skips that partition.  Partitions  *)
(* age between the steps.                                                     *)
(***************************************************************************)
EXTENDS Integers, FiniteSets

CONSTANTS
    Partition,        \* partitions, one per tenant here
    HotDays,          \* [Partition -> hot window of its tenant; 0: no tenant_tiers row]
    MaxAge            \* bound: days

VARIABLES
    part,             \* [Partition -> [age, volume]]
    cycle,            \* pc of runOnce, the plan left, what was due when it began
    faults            \* statements the cycle had refused or lost by the infrastructure

lifecycleVars == <<part, cycle, faults>>

defaultTier == [hot |-> 3, cold |-> 30]

tier(p) == IF HotDays[p] = 0 THEN defaultTier ELSE [hot |-> HotDays[p], cold |-> 30]

Classify(t, age) ==
    IF t.cold > 0 /\ age >= t.cold THEN "expired" ELSE IF age >= t.hot THEN "cold" ELSE "hot"

MovePlan(snapshot) ==
    {p \in Partition : snapshot[p].volume = "hot" /\ Classify(tier(p), snapshot[p].age) = "cold"}

LifecycleInit ==
    /\ part \in [Partition -> [age : {0}, volume : {"hot"}]]
    /\ cycle = [pc |-> "idle", plan |-> {}, due |-> {}]
    /\ faults = 0

\* The ticker, or the eager first pass; loadTiers.
LoadTiers(ok) ==
    /\ cycle.pc \in {"idle", "done"}
    /\ cycle' = [pc |-> IF ok THEN "snapshot" ELSE "done", plan |-> {}, due |-> MovePlan(part)]
    /\ faults' = IF ok THEN 0 ELSE 1
    /\ UNCHANGED part

\* Query appends a FORMAT clause to the text it is given.
formatClauses(own) == own + 1

\* ClickHouse parses one FORMAT clause per statement (external).
Parses(formats) == formats <= 1

\* snapshotParts: the text ends in FORMAT JSON.
SnapshotParts(ok) ==
    /\ cycle.pc = "snapshot"
    /\ cycle' = IF ok /\ Parses(formatClauses(1)) THEN [cycle EXCEPT !.pc = "move", !.plan = MovePlan(part)]
                ELSE [cycle EXCEPT !.pc = "done"]
    /\ faults' = IF ok THEN faults ELSE faults + 1
    /\ UNCHANGED part

MovePartition(p, ok) ==
    /\ cycle.pc = "move" /\ p \in cycle.plan
    /\ cycle' = [cycle EXCEPT !.plan = @ \ {p}]
    /\ part' = IF ok THEN [part EXCEPT ![p].volume = "cold"] ELSE part
    /\ faults' = IF ok THEN faults ELSE faults + 1

CycleComplete ==
    /\ cycle.pc = "move" /\ cycle.plan = {}
    /\ cycle' = [cycle EXCEPT !.pc = "done"]
    /\ UNCHANGED <<part, faults>>

DayPasses ==
    /\ \A p \in Partition : part[p].age < MaxAge
    /\ part' = [p \in Partition |-> [part[p] EXCEPT !.age = @ + 1]]
    /\ UNCHANGED <<cycle, faults>>

LifecycleNext ==
    \/ \E ok \in BOOLEAN : \/ LoadTiers(ok) \/ SnapshotParts(ok)
                           \/ \E p \in Partition : MovePartition(p, ok)
    \/ CycleComplete \/ DayPasses

LifecycleSpec == LifecycleInit /\ [][LifecycleNext]_lifecycleVars

-----------------------------------------------------------------------------

\* runOnce, as cmd/lifecycle describes it: when a cycle in which no statement
\* met a fault is over, every partition that was past its tenant's hot window
\* when it began is on the cold volume.
FaultFreeCycleMoves ==
    cycle.pc = "done" /\ faults = 0 => \A p \in cycle.due : part[p].volume = "cold" \/ part[p].age >= tier(p).cold
=============================================================================
