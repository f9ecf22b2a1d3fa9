\* A device reconnects while its old connection is still being given up.
CONSTANTS
  Ids = {phone}
  Names = {n1}
  Conns = {c1, c2}
  Tokens = {t1}
  None = None
SPECIFICATION Spec
INVARIANT ConnectedDeviceRouted
CHECK_DEADLOCK FALSE
