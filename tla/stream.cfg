SPECIFICATION StreamSpec
CONSTANTS
  None = None
  Keys = {"STALE"}
  Refusals = {}
  Fresh <- MCFresh
  Apply <- MCApply
  Rejects <- MCRejects
  Applied <- MCApplied
  Batched = TRUE
  HasCodec = TRUE
  Dispatches = {d1, d2}
  CommandTypes = {"do"}
  FactTypes = {"happened"}
  Events <- MCEvents
  Emissions <- MCEmissions
  MayEmit <- MCMayEmit
  Failures <- MCFailures
  MaxSteps = 2
  RulesVersion = "v1"
  Requests = {}
  Inputs <- MCInputs
  Cover = "stream"
  MaxFaults = 1
INVARIANTS
  SnapshotIsReplay
  PriorEventsAreKnown
PROPERTIES
  ImplementsSerial
  EveryInputSettles
CHECK_DEADLOCK FALSE
