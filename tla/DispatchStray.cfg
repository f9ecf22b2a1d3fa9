\* A device answers with an error this agent does not know.
CONSTANTS
  Devices = {d1}
  Requests = {r1}
  None = None
  StrayErrors = TRUE
SPECIFICATION Spec
INVARIANT ApprovedByAUser
CHECK_DEADLOCK FALSE
