SPECIFICATION Spec
CONSTANTS
  Objects <- FlagObjects
  Edges <- FlagEdges
  Configs <- FlagConfigs
  Exempt = {}
  Controlled <- FlagControlled
  Satisfying = {}
  Irregular = {}
  Unserved = {}
  MaxTicks = 1
  NoObject = NoObject
INVARIANTS TypeOK InUseThroughoutSurvives SuccessMeansDeleted ReportsAreTrue OnlyQuietDryRunDeletes NeverUsedIsReaped
PROPERTIES RunAdvances EventuallyEnds KeepsContract
