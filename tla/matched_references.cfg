SPECIFICATION Spec
CONSTANTS
  Objects <- MatchedObjects
  Edges <- MatchedEdges
  Configs <- MatchedConfigs
  Exempt = {}
  Controlled = {}
  Satisfying <- SatisfyingMatched
  Irregular = {}
  Unserved = {}
  MaxTicks = 1
  NoObject = NoObject
  UnitsPerByte = 4
  Classes = {"", "fast", "slow"}
  AccessModes = {"ReadWriteOnce", "ReadOnlyMany"}
  Absent = Absent
  VolumeOf <- Capacities
  ClaimOf <- Requests
INVARIANTS InUseThroughoutSurvives BindableVolumeSurvives UnboundVolumeIsReaped
PROPERTIES KeepsContractSafely
