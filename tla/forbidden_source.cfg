SPECIFICATION Spec
CONSTANTS
  ForeignResources <- Foreign
  Configs <- OneSecretConfig
  Builder <- Discovery
  Users <- NoOperatorNoGrant
  Clusters <- NoOperator
PROPERTIES ForbiddenSourceIsNotFatal
