SPECIFICATION Spec
CONSTANTS
  Objects <- OnePod
  Edges = {}
  Configs <- OnePodConfigs
  Exempt = {}
  Controlled = {}
  Satisfying = {}
  Irregular = {}
  Unserved = {}
  MaxTicks = 0
  NoObject = NoObject
INVARIANTS DryRunDeletesNothing
