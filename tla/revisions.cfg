SPECIFICATION Spec
CONSTANTS
  ReplicaSets = {"w1", "w2", "w3", "w4", "x1", "solo"}
  Deployments = {"web", "gone"}
  Owner <- OwnerOf
  NoController = NoController
  Unparsable = Unparsable
  MaxRevision = 4
  MaxTicks = 2
  Starts <- SomeStarts
INVARIANTS TypeOK NewestRevisionsSurvive LiveRevisionSurvives ExcessIsReaped
