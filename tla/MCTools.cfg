\* Two tools and two runs of the agent.
SPECIFICATION FairSpec
CONSTANTS
  text = text
  file = file
  Tools = {text, file}
  Wishes <- Choices
  Envelope = 4096
  Agents = {a1, a2}
  None = None
INVARIANTS TypeOK ExitIsTrue FilesFit ServerIsFound
PROPERTIES ToolsEnd
CHECK_DEADLOCK FALSE
