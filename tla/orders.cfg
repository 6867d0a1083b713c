SPECIFICATION OrdersSpec
CONSTANTS
  None = None
  Keys = {"OWN"}
  Refusals = {"ItemOutOfStock"}
  Fresh <- OrderFresh
  Apply <- OrderApply
  Rejects <- OrderRejects
  Applied <- MCEvents
  Batched = FALSE
  HasCodec = TRUE
  Dispatches = {d1}
  CommandTypes = {"AddItem", "Acknowledge"}
  FactTypes = {"ItemDelivered"}
  Events <- MCEvents
  Emissions <- MCEmissions
  Failures <- MCFailures
  MaxSteps = 8
  RulesVersion = "v1"
  Does <- OrderDoes
  Inputs <- MCInputs
  Behaviours <- MCBehaviours
  CheckedSteps <- MCCheckedSteps
  MaxInputs = 3
INVARIANTS
  RestockedOnce
  CheckForetells
PROPERTIES
  ImplementsHandle
  SeesWhatIsRecorded
  EveryRequestEnds
CHECK_DEADLOCK FALSE
