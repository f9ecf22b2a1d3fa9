\* Two prompts on a desktop and one on a phone.
SPECIFICATION FairSpec
CONSTANTS
  OnDesktop = {d1, d2}
  OnPhone = {p1}
  MaxTaps = 1
INVARIANTS TypeOK ClickIsQueued
PROPERTIES ImplementsPrompt PromptsEnd
CHECK_DEADLOCK FALSE
