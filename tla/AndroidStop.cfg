\* The claim StopStops.
SPECIFICATION Spec
CONSTANTS
  Callers = {c1, c2}
  MaxRuntimes = 2
  Servers = {s1}
  MaxPrompts = 1
  None = None
PROPERTY StopStops
CHECK_DEADLOCK FALSE
