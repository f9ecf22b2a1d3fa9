\* One request, of either strategy, and three connections; no symmetry, for the
\* liveness properties.  Everything ends when all connections are used up,
\* hence no deadlock check.
CONSTANTS
  Devices = {d1, d2, d3}
  Requests = {r1}
  None = None
  StrayErrors = FALSE
SPECIFICATION FairSpec
INVARIANTS
  OneReachableAsked
  AbstainersDoNotVeto
PROPERTIES
  ImplementsRouting
  AnswerIsFinal
  ConfirmAnswered
  LostTargetIsPassed
CHECK_DEADLOCK FALSE
