\* Two threads that call the core, two runtimes, one server and a prompt.
SPECIFICATION FairSpec
CONSTANTS
  Callers = {c1, c2}
  MaxRuntimes = 2
  Servers = {s1}
  MaxPrompts = 1
  None = None
INVARIANTS RunningIsStoppable
PROPERTIES StopReturns ListFollowed
CHECK_DEADLOCK FALSE
