----------------------------- MODULE MCScheduler -----------------------------
(***************************************************************************)
(* Instances of Scheduler for TLC: the periods and the ids of the tasks.   *)
(***************************************************************************)
EXTENDS Scheduler

CONSTANTS c1, c2, t1, t2

(* Ids drawn in different seconds, and t1 and t2 created in one second:     *)
(* generate_task_id() seeds with time(0) and takes the first number.       *)
MCUniqueIds == [t \in Task |-> CASE t = t1 -> 7 [] t = t2 -> 3]
MCSameSecond == [t \in Task |-> CASE t = t1 -> 7 [] t = t2 -> 7]

MCPeriod == [t \in Task |-> IF t = t1 THEN 1 ELSE 2]
=============================================================================
