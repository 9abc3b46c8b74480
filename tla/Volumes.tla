------------------------------- MODULE Volumes -------------------------------
(* pkg/resource/persistentvolume.go: does a volume satisfy what a claim    *)
(* requests?  Pure functions of the two objects; nothing here has state.   *)
EXTENDS Integers

CONSTANTS
  UnitsPerByte,  \* quantities are counted in units finer than a byte
  Classes,       \* names of storage classes
  AccessModes,
  Absent         \* the field or annotation is not there

ASSUME UnitsAssumption == UnitsPerByte \in Nat \ {0}
ASSUME ClassesAssumption == "" \in Classes /\ Absent \notin Classes

VolumeModes == {"Filesystem", "Block"}
ASSUME AbsentAssumption == Absent \notin Nat \cup VolumeModes

\* What the decision reads of a volume (capacity) or a claim (request).
Storage ==
  [size: Nat \cup {Absent}, annotation: Classes \cup {Absent},
   class: Classes \cup {Absent}, mode: VolumeModes \cup {Absent},
   access: SUBSET AccessModes]

\* The zero Quantity that a map lookup returns for a missing key.
Quantity(size) == IF size = Absent THEN 0 ELSE size

\* Quantity.Value: whole bytes, rounded up.
Value(q) == (q + UnitsPerByte - 1) \div UnitsPerByte

\* Fault: a volume of unknown capacity is large enough.
checkCapacityIfKnown(volume, claim) ==
  volume.size = Absent \/ Value(Quantity(volume.size)) >= Value(Quantity(claim.size))

checkCapacitySatisfyRequest(volume, claim) ==
  Value(Quantity(volume.size)) >= Value(Quantity(claim.size))

\* Fault: the annotation is overlooked.
ClassOfField(storage) == IF storage.class = Absent THEN "" ELSE storage.class

\* The beta annotation comes before the field, and no class is the class "".
ClassOf(storage) ==
  IF storage.annotation # Absent THEN storage.annotation
  ELSE IF storage.class # Absent THEN storage.class
  ELSE ""

checkStorageClassMatch(volume, claim) == ClassOf(claim) = ClassOf(volume)

ModeOf(storage) == IF storage.mode = Absent THEN "Filesystem" ELSE storage.mode

\* Fault: no mode is a mode of its own.
checkVolumeModeIdentical(volume, claim) == claim.mode = volume.mode

checkVolumeModeMatch(volume, claim) == ModeOf(claim) = ModeOf(volume)

checkAccessModesMatch(volume, claim) == claim.access \subseteq volume.access

CheckVolumeSatisfyClaim(volume, claim) ==
  /\ checkCapacitySatisfyRequest(volume, claim)
  /\ checkStorageClassMatch(volume, claim)
  /\ checkVolumeModeMatch(volume, claim)
  /\ checkAccessModesMatch(volume, claim)

-----------------------------------------------------------------------------
(* The reference: what the cluster's volume binder goes by.  The sizes are *)
(* compared as they are, and each field by what it says.                   *)

SaysClass(storage, class) ==
  \/ storage.annotation = class
  \/ storage.annotation = Absent /\ storage.class = class
  \/ storage.annotation = Absent /\ storage.class = Absent /\ class = ""

SaysMode(storage, mode) ==
  \/ storage.mode = mode
  \/ storage.mode = Absent /\ mode = "Filesystem"

CouldBind(volume, claim) ==
  /\ claim.size # Absent => (volume.size # Absent /\ volume.size >= claim.size)
  /\ \E class \in Classes : SaysClass(volume, class) /\ SaysClass(claim, class)
  /\ \E mode \in VolumeModes : SaysMode(volume, mode) /\ SaysMode(claim, mode)
  /\ \A a \in claim.access : a \in volume.access
=============================================================================
