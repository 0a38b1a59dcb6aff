---------------------------- MODULE MCScheduler ----------------------------
(* Small instances of Scheduler for TLC. *)
EXTENDS Scheduler

CONSTANTS pa, pb, pc, os

(* The display's task first, then what an interrupt queues, then a         *)
(* background task that may be as urgent as the third. *)
MCPrio == [t \in {pa, pb, pc, os} |-> CASE t = pa -> 1 [] t = os -> 2 [] OTHER -> 3]

MCInterval == [t \in {pa, pb, pc} |-> IF t = pa THEN 1 ELSE 2]
=============================================================================
