\* Two devices, two connections at a time, two names and one token.  A torn file
\* keeps the agent from starting, hence no deadlock check.
CONSTANTS
  Ids = {phone, laptop}
  Names = {n1, n2}
  Conns = {c1, c2}
  Tokens = {t1}
  None = None
SPECIFICATION FairSpec
INVARIANTS
  EntryServed
  AdmittedIsEnrolled
  EnrolmentDurable
  SoleConnectionRouted
PROPERTIES
  TokenRedeemedOnce
  ImplementsMembership
  DeadEntryLeaves
  LostConnectionEnds
CHECK_DEADLOCK FALSE
