--------------------------- MODULE HarvestVolumes ---------------------------
(* A run over volumes and claims with their sizes, classes and modes: the  *)
(* composition of Harvest and Volumes.  A claim is an edge of Harvest; the *)
(* volumes it protects are those that CheckVolumeSatisfyClaim accepts.     *)
EXTENDS Harvest, Volumes

CONSTANTS
  VolumeOf,      \* the capacity, class and modes of each volume
  ClaimOf        \* the request, class and modes of each claim

Volume == {o \in Objects : o.kind = "PersistentVolume"}
Claim == {e \in Edges : e.source = "persistentVolumeClaims" /\ e.kind = "PersistentVolume"}

ASSUME StorageAssumption ==
  VolumeOf \in [Volume -> Storage] /\ ClaimOf \in [Claim -> Storage]

ASSUME MatchingAssumption ==
  Satisfying =
    {p \in Claim \X Volume : CheckVolumeSatisfyClaim(VolumeOf[p[2]], ClaimOf[p[1]])}

\* A volume that some claim could be bound to, and that claim was there from
\* the beginning of the run on, is not deleted, whatever else the run reaps
\* and others change (determineDeletionPersistentVolume with collectReferences
\* and CheckVolumeSatisfyClaim).  The claims are those of the run's namespace
\* (ClaimedVolumeSurvives), and the volume is not the first to be created during
\* the run (LateObjectInUseSurvives).
BindableVolumeSurvives ==
  \A o \in deleted \cap Volume : Noticed(o) =>
    ~\E e \in Steady \cap Claim :
       InScope(e.ns) /\ CouldBind(VolumeOf[o], ClaimOf[e])

RoundedUp(volume) == [volume EXCEPT !.size = Value(Quantity(@)) * UnitsPerByte]

\* The other direction: when a real run that reaps volumes succeeds, it leaves
\* no idle volume that no claim, of all that existed while it ran, could be
\* bound to; sizes may differ by the fraction of a byte that is rounded up.
UnboundVolumeIsReaped ==
  pc = "succeeded" /\ opts.dryRun = "none" /\ ~opts.interactive =>
    \A o \in (live \cap Volume) \ (touched \cup busy \cup Exempt) : AskedFor(o) =>
      \E e \in Ever \cap Claim : CouldBind(RoundedUp(VolumeOf[o]), ClaimOf[e])
=============================================================================
