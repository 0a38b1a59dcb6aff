----------------------------- MODULE HeapQueue -----------------------------
(***************************************************************************)
(* The heap as the scheduler uses it: tasks enter, the top one is taken,   *)
(* and DisablePeriodic takes out any other one.  An item is its own key.   *)
(***************************************************************************)
EXTENDS Heap

CONSTANTS
  Items,      (* the keys of the tasks, naturals                           *)
  MaxCancels  (* bound on the tasks taken out while queued                 *)

VARIABLES
  heap,     (* Heap::storage up to sz                                      *)
  entered,  (* the tasks that have entered: each enters once               *)
  cancels   (* tasks taken out while queued                                *)

heapVars == <<heap, entered, cancels>>

Key == [x \in Items |-> x]

Init == heap = <<>> /\ entered = {} /\ cancels = 0

Enter(x) ==
  /\ x \notin entered
  /\ heap' = HeapAdd(heap, x, Key)
  /\ entered' = entered \cup {x}
  /\ UNCHANGED cancels

Take ==
  /\ heap # <<>>
  /\ heap' = HeapRemove(heap, HeapTop(heap), Key)
  /\ UNCHANGED <<entered, cancels>>

Cancel(x) ==
  /\ cancels < MaxCancels
  /\ InHeap(heap, x)
  /\ heap' = HeapRemove(heap, x, Key)
  /\ cancels' = cancels + 1
  /\ UNCHANGED entered

Next ==
  \/ \E x \in Items : Enter(x) \/ Cancel(x)
  \/ Take

Spec == Init /\ [][Next]_heapVars

(* Scheduler.h: a lower value is a higher priority, executed in a shorter  *)
(* time frame: the top is the smallest of all that is queued.              *)
TopIsSmallest == \A i \in DOMAIN heap : HeapTop(heap) <= heap[i]
=============================================================================
