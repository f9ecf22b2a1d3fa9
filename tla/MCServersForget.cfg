\* The claim ForgottenIsDropped.
SPECIFICATION Spec
CONSTANTS
  Servers = {s1, s2}
  Names = {host}
  Commands = {c1, c2}
  Slots = {t1, t2}
  None = None
  Name <- OneName
INVARIANT ForgottenIsDropped
CHECK_DEADLOCK FALSE
