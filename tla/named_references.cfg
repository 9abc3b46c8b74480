SPECIFICATION Spec
CONSTANTS
  Objects <- NamedObjects
  Edges <- NamedEdges
  Configs <- NamedConfigs
  Exempt = {}
  Controlled = {}
  Satisfying = {}
  Irregular = {}
  Unserved = {"externalSecrets"}
  MaxTicks = 2
  NoObject = NoObject
INVARIANTS InUseThroughoutSurvives NeverUsedIsReaped
