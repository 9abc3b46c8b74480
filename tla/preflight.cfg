SPECIFICATION Spec
CONSTANTS
  ForeignResources <- Foreign
  Configs <- AllConfigs
  Builder <- Discovery
  Users <- AllUsers
  Clusters <- AllClusters
INVARIANTS TypeOK CheckedRunIsNotForbidden RefusalIsJustified ReportIsComplete
