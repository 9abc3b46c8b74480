SPECIFICATION Spec
CONSTANTS
  Objects <- OneConfigMap
  Edges <- TemplateOfConfigMap
  Configs <- OneConfigMapConfigs
  Exempt = {}
  Controlled = {}
  Satisfying = {}
  Irregular = {}
  Unserved = {}
  MaxTicks = 1
  NoObject = NoObject
INVARIANTS LateObjectInUseSurvives
