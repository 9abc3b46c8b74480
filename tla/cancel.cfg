SPECIFICATION Spec
CONSTANTS
  Objects <- OnePod
  Edges = {}
  Configs <- RealRuns
  Exempt = {}
  Controlled = {}
  Satisfying = {}
  Irregular = {}
  Unserved = {}
  MaxTicks = 0
  NoObject = NoObject
PROPERTIES CancelStopsDeletions
