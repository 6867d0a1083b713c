SPECIFICATION Spec
CONSTANTS
  None = None
  Keys = {"STALE", "DOWN", "HAND_BUILT"}
  Refusals = {"refusal"}
  Fresh <- MCFresh
  Apply <- MCApply
  Rejects <- MCRejects
  Applied <- MCApplied
  Batched = FALSE
  HasCodec = TRUE
  Dispatches = {d1}
  CommandTypes = {"do"}
  FactTypes = {"happened"}
  Events <- MCEvents
  Emissions <- MCEmissions
  MayEmit <- MCMayEmit
  Failures <- MCFailures
  MaxSteps = 4
  RulesVersion = "v1"
  Requests <- MCRequests
INVARIANTS
  TypeOK
  StepsSeeReplay
  AnswerReplays
  OnlyCommandsRefuse
  UnknownTypeIsToldFirst
  ContinuationsInOrder
PROPERTY
  EveryRequestEnds
