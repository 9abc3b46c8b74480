SPECIFICATION Spec
CONSTANTS
  Objects <- TemplateUsers
  Edges <- Templates
  Configs <- TemplateConfigs
  Exempt = {}
  Controlled = {}
  Satisfying = {}
  Irregular = {}
  Unserved = {}
  MaxTicks = 0
  NoObject = NoObject
INVARIANTS TemplateUseSurvives
