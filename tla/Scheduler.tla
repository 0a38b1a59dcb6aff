----------------------------- MODULE Scheduler -----------------------------
(***************************************************************************)
(* Service/Sched: the cooperative scheduler of the badge.  Periodic tasks  *)
(* wait in a heap ordered by wake time, tasks that are due in a heap       *)
(* ordered by priority; two circular queues take the calls of Queue()      *)
(* until the scheduler is back in its loop.                                *)
(*                                                                         *)
(* mpc says where Scheduler::Run is: "loop" before DelayedHouseKeeping,    *)
(* "callback" while the task's callback runs, "requeue" in AutoRequeueCb   *)
(* after its test of enabled, "return" before currentTask is cleared.      *)
(* Of what interrupts call, Queue(Task) comes in between any two steps;    *)
(* EnablePeriodic is the main thread's only, as Scheduler.h says.          *)
(*                                                                         *)
(* A wake time is kept as the ticks left until it is reached.              *)
(***************************************************************************)
EXTENDS Heap, FiniteSets

CONSTANTS
  Periodic,    (* the periodic tasks                                       *)
  OneShot,     (* the tasks that Queue(Task) queues                        *)
  Prio,        (* their priorities: lower runs first                       *)
  Interval,    (* the intervals of the periodic tasks, in ticks            *)
  QueueSize,   (* kAddQueueSize: the queue holds one less                  *)
  TasksCap,    (* capacity of tasks, 40                                    *)
  DelayedCap,  (* capacity of delayedTasks, 32                             *)
  MaxPending,  (* bound on the runs of a one-shot task owed at once        *)
  MaxCalls,    (* bound on the calls a callback makes                      *)
  NoTask

Task == Periodic \cup OneShot

(* A heap has a place for each of the tasks that are in use at once: when  *)
(* it has not, DelayedHouseKeeping asserts. *)
ASSUME SchedulerAssumption ==
  /\ Periodic \cap OneShot = {} /\ NoTask \notin Task
  /\ IsFiniteSet(Periodic) /\ IsFiniteSet(OneShot)
  /\ Prio \in [Task -> Nat]
  /\ Interval \in [Periodic -> Nat \ {0}]
  /\ QueueSize \in Nat \ {0, 1}
  /\ {TasksCap, DelayedCap, MaxPending, MaxCalls} \subseteq Nat
  /\ DelayedCap >= Cardinality(Periodic)
  /\ TasksCap >= Cardinality(Periodic) + MaxPending * Cardinality(OneShot)

VARIABLES
  tasks, delayed,    (* the heaps                                          *)
  tasksQ, delayedQ,  (* tasksAddQueue, delayedTasksAddQueue                *)
  enabled,           (* the tasks in enabledPeriodicTasks, whose enabled   *)
                     (* flag is set; the others are in the disabled array  *)
  wake,              (* ticks left until wakeTime                          *)
  current,           (* currentTask                                        *)
  mpc,
  calls,             (* calls the running callback may still make          *)
  owed               (* auxiliary: accepted Queue(Task) calls not run yet  *)

heaps  == <<tasks, delayed, tasksQ, delayedQ>>
schedVars == <<heaps, enabled, wake, current, mpc, calls, owed>>

Init ==
  /\ tasks = <<>> /\ delayed = <<>> /\ tasksQ = <<>> /\ delayedQ = <<>>
  /\ enabled = {}
  /\ wake = [t \in Periodic |-> 0]
  /\ current = NoTask /\ mpc = "loop" /\ calls = 0
  /\ owed = [t \in OneShot |-> 0]

(* CircularQueue::PushBack: false when full. *)
IsFull(q) == Len(q) = QueueSize - 1

-----------------------------------------------------------------------------
(* DelayedHouseKeeping, as a function of the heaps and queues.             *)

(* One round of moving a queue into a heap: the loop ends when the heap is *)
(* full. *)
MoveOne(K, cap) ==
  [s \in Seq(DOMAIN K) \X Seq(DOMAIN K) |->
     IF s[1] = <<>> \/ Len(s[2]) >= cap THEN s
     ELSE <<Tail(s[1]), HeapAdd(s[2], Head(s[1]), K)>>]

Drained(q, h, K, cap) ==
  LET s == Iterated(MoveOne(K, cap), <<q, h>>)[Len(q)]
  IN  [queue |-> s[1], heap |-> s[2]]

(* One round of moving what is due from the delayed heap to the tasks; a   *)
(* task that finds tasks full is in neither. *)
ReleaseOne(ticks) ==
  [s \in Seq(Periodic) \X Seq(Task) |->
     LET d == s[1]
         h == s[2]
     IN  IF d = <<>> \/ wake[HeapTop(d)] > ticks THEN s
         ELSE <<HeapRemove(d, HeapTop(d), wake),
                IF Len(h) < TasksCap THEN HeapAdd(h, HeapTop(d), Prio) ELSE h>>]

(* Mutant of Released: due one tick early. *)
ReleasedEarly(d, h) ==
  LET s == Iterated(ReleaseOne(1), <<d, h>>)[Len(d)] IN [delayed |-> s[1], tasks |-> s[2]]

Released(d, h) ==
  LET s == Iterated(ReleaseOne(0), <<d, h>>)[Len(d)] IN [delayed |-> s[1], tasks |-> s[2]]

HouseKept ==
  LET ready == Drained(tasksQ, tasks, Prio, TasksCap)
      late  == Drained(delayedQ, delayed, wake, DelayedCap)
      moved == Released(late.heap, ready.heap)
  IN  [tasks |-> moved.tasks, delayed |-> moved.delayed,
       tasksQ |-> ready.queue, delayedQ |-> late.queue]

-----------------------------------------------------------------------------
(* Scheduler::Run.                                                         *)

Dispatch ==
  /\ mpc = "loop"
  /\ tasksQ' = HouseKept.tasksQ
  /\ delayedQ' = HouseKept.delayedQ
  /\ delayed' = HouseKept.delayed
  /\ LET ready == HouseKept.tasks IN
       IF ready = <<>>
         THEN /\ tasks' = ready
              /\ UNCHANGED <<current, mpc, calls, owed>>
         ELSE /\ tasks' = HeapRemove(ready, HeapTop(ready), Prio)
              /\ current' = HeapTop(ready)
              /\ mpc' = "callback"
              /\ calls' = MaxCalls
              /\ owed' = [t \in OneShot |-> IF t = HeapTop(ready) THEN owed[t] - 1
                                            ELSE owed[t]]
  /\ UNCHANGED <<enabled, wake>>

(* The callback is over; AutoRequeueCb sets the next wake time. *)
EndCallback ==
  /\ mpc = "callback"
  /\ IF current \in enabled
       THEN mpc' = "requeue" /\ wake' = [wake EXCEPT ![current] = Interval[current]]
       ELSE mpc' = "return" /\ UNCHANGED wake
  /\ calls' = 0
  /\ UNCHANGED <<heaps, enabled, current, owed>>

(* Mutant of Requeue: tests the other queue. *)
RequeueWrongQueue ==
  /\ mpc = "requeue"
  /\ delayedQ' = IF IsFull(tasksQ) THEN delayedQ ELSE Append(delayedQ, current)
  /\ mpc' = "return"
  /\ UNCHANGED <<tasks, delayed, tasksQ, enabled, wake, current, calls, owed>>

(* Queue(DelayedTask): the result is ignored. *)
Requeue ==
  /\ mpc = "requeue"
  /\ delayedQ' = IF IsFull(delayedQ) THEN delayedQ ELSE Append(delayedQ, current)
  /\ mpc' = "return"
  /\ UNCHANGED <<tasks, delayed, tasksQ, enabled, wake, current, calls, owed>>

Return ==
  /\ mpc = "return"
  /\ current' = NoTask
  /\ mpc' = "loop"
  /\ UNCHANGED <<heaps, enabled, wake, calls, owed>>

-----------------------------------------------------------------------------
(* The operations.                                                         *)

(* Mutant of EnablePeriodic: the running task is queued as well. *)
EnablePeriodicRunning(t) ==
  /\ t \notin enabled
  /\ enabled' = enabled \cup {t}
  /\ delayed' = IF Len(delayed) < DelayedCap THEN HeapAdd(delayed, t, wake) ELSE delayed
  /\ UNCHANGED <<tasks, tasksQ, delayedQ, wake, current, mpc, owed>>

(* EnablePeriodic fails on a task that is not in the disabled array.  The  *)
(* running task is left to AutoRequeueCb. *)
EnablePeriodic(t) ==
  /\ t \notin enabled
  /\ enabled' = enabled \cup {t}
  /\ delayed' = IF t # current /\ Len(delayed) < DelayedCap
                  THEN HeapAdd(delayed, t, wake) ELSE delayed
  /\ UNCHANGED <<tasks, tasksQ, delayedQ, wake, current, mpc, owed>>

RemoveFrom(h, t, K) == IF InHeap(h, t) THEN HeapRemove(h, t, K) ELSE h

DisablePeriodic(t) ==
  /\ t \in enabled
  /\ enabled' = enabled \ {t}
  /\ tasks' = RemoveFrom(HouseKept.tasks, t, Prio)
  /\ delayed' = RemoveFrom(HouseKept.delayed, t, wake)
  /\ tasksQ' = HouseKept.tasksQ
  /\ delayedQ' = HouseKept.delayedQ
  /\ UNCHANGED <<wake, current, mpc, owed>>

(* Called by the callback of the running task. *)
CallEnable(t) ==
  mpc = "callback" /\ calls > 0 /\ EnablePeriodic(t) /\ calls' = calls - 1

CallDisable(t) ==
  mpc = "callback" /\ calls > 0 /\ DisablePeriodic(t) /\ calls' = calls - 1

(* Mutant of QueueTask: a full ring overwrites its oldest entry. *)
QueueTaskOverwrite(t) ==
  /\ owed[t] < MaxPending
  /\ tasksQ' = Append(IF IsFull(tasksQ) THEN Tail(tasksQ) ELSE tasksQ, t)
  /\ owed' = [owed EXCEPT ![t] = @ + 1]
  /\ UNCHANGED <<tasks, delayed, delayedQ, enabled, wake, current, mpc, calls>>

(* Queue(Task), from a callback or an interrupt; dropped when full. *)
QueueTask(t) ==
  /\ owed[t] < MaxPending
  /\ ~ IsFull(tasksQ)
  /\ tasksQ' = Append(tasksQ, t)
  /\ owed' = [owed EXCEPT ![t] = @ + 1]
  /\ UNCHANGED <<tasks, delayed, delayedQ, enabled, wake, current, mpc, calls>>

Tick ==
  /\ wake' = [t \in Periodic |-> IF wake[t] > 0 THEN wake[t] - 1 ELSE 0]
  /\ UNCHANGED <<heaps, enabled, current, mpc, calls, owed>>

MainThread == Dispatch \/ EndCallback \/ Requeue \/ Return

Next ==
  \/ MainThread
  \/ \E t \in Periodic : CallEnable(t) \/ CallDisable(t)
  \/ \E t \in OneShot : QueueTask(t)
  \/ Tick

Spec == Init /\ [][Next]_schedVars

FairSpec == Spec /\ WF_schedVars(MainThread) /\ WF_schedVars(Tick)

-----------------------------------------------------------------------------
Count(h, t) == Cardinality({i \in DOMAIN h : h[i] = t})

Places(t) == Count(tasks, t) + Count(delayed, t) + Count(tasksQ, t) + Count(delayedQ, t)

(* A periodic task that is enabled is queued exactly once or is running    *)
(* and will be queued again; one that is disabled is queued nowhere, so it *)
(* does not run, whoever enabled and disabled it and whatever was queued   *)
(* at the time.  (EnterQueue and ExitQueue assert no less.)                *)
EnabledIsScheduled ==
  \A t \in Periodic :
    Places(t) = IF t \notin enabled THEN 0
                ELSE IF t = current /\ mpc \in {"callback", "requeue"} THEN 0 ELSE 1

(* Every accepted Queue(Task) is run once: none is lost between the queue  *)
(* and the heap or run twice. *)
AcceptedRunsOnce == \A t \in OneShot : Places(t) = owed[t]

(* A periodic task in the heap of tasks is due. *)
ReadyIsDue == \A i \in DOMAIN tasks : tasks[i] \in Periodic => wake[tasks[i]] = 0

(* The task of the highest priority runs again for as long as it is        *)
(* enabled, whatever interrupts and other tasks do. *)
HighestPriorityRuns ==
  \A t \in Periodic :
    (\A u \in Task \ {t} : Prio[t] < Prio[u]) =>
      (t \in enabled ~> current = t \/ t \notin enabled)
=============================================================================
