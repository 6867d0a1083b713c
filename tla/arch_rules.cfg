SPECIFICATION GateSpec
CONSTANTS
  Letters <- MCLetters
  Registered <- MCModules
  Candidates <- MCCandidates
  Libraries = {"engine", "conformance", "archlint"}
INVARIANTS
  LayersHoldAllTheWay
  EngineStandsAlone
