\* A desktop and a phone, one notification; two dismissals fill a control channel
\* with room for one; a connection is lost and the agent restarts.
SPECIFICATION FairSpec
CONSTANTS
  Devices = {desktop, phone}
  Phones = {phone}
  MaxNotes = 1
  MaxFaults = 2
  MaxDismissals = 2
  Room = 1
  None = None
INVARIANTS TypeOK ShownIsDismissable DismissalUnderWay
PROPERTIES BroadcastEnds NotifyAnswered
CHECK_DEADLOCK FALSE
