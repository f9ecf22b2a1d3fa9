\* Three devices; the clock shows two instants, so that two clients can be
\* equally recent and a third more or less so.
CONSTANTS
  Devices = {1, 2, 3}
  Phones = {2}
  Caps <- MCCaps
  MaxNow = 1
  MaxQueue = 2
SPECIFICATION FairSpec
INVARIANTS
  TypeOK
  LastWordCounts
  OneOrder
PROPERTIES
  FreshestFirst
  FocusSettles
