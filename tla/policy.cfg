SPECIFICATION Spec
CONSTANTS
  None = None
  Keys = {"STALE", "DOWN", "HAND_BUILT"}
  Refusals = {"refusal"}
  Triggers <- MCTriggers
  Reactions = {"placed"}
  Outputs <- MCOutputs
  Failures <- MCFailures
  MaxRuns = 2
INVARIANT
  OnlyRefusedCommandsAreTranslated
PROPERTY
  EverythingIsSettled
CHECK_DEADLOCK FALSE
