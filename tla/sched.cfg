SPECIFICATION FairSpec
CONSTANTS
  pa = pa
  pb = pb
  pc = pc
  os = os
  Periodic = {pa, pb, pc}
  OneShot = {os}
  Prio <- MCPrio
  Interval <- MCInterval
  QueueSize = 2
  TasksCap = 5
  DelayedCap = 3
  MaxPending = 2
  MaxCalls = 2
  NoTask = NoTask
INVARIANT EnabledIsScheduled
INVARIANT AcceptedRunsOnce
INVARIANT ReadyIsDue
PROPERTY HighestPriorityRuns
