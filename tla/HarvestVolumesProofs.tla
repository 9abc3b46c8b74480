------------------------ MODULE HarvestVolumesProofs ------------------------
(* The volumes a run keeps and reaps, for all sizes, classes and modes.    *)
EXTENDS HarvestVolumes, HarvestProofs

USE UnitsAssumption

-----------------------------------------------------------------------------
(* Rounding up to whole bytes.                                             *)

LEMMA DivisionBounds ==
  ASSUME NEW n \in Nat
  PROVE  LET d == n \div UnitsPerByte
         IN  d \in Nat /\ d * UnitsPerByte <= n /\ n < d * UnitsPerByte + UnitsPerByte
<1>1. /\ n \div UnitsPerByte \in Nat
      /\ n = UnitsPerByte * (n \div UnitsPerByte) + (n % UnitsPerByte)
      /\ n % UnitsPerByte \in 0..(UnitsPerByte - 1)
  OBVIOUS
<1>2. QED
  BY <1>1

LEMMA ValueRoundsUp ==
  ASSUME NEW q \in Nat
  PROVE  /\ Value(q) \in Nat
         /\ q <= Value(q) * UnitsPerByte
         /\ Value(q) * UnitsPerByte < q + UnitsPerByte
<1>1. q + UnitsPerByte - 1 \in Nat
  OBVIOUS
<1>2. QED
  BY <1>1, DivisionBounds DEF Value

\* The smaller of two products has the smaller factor.
LEMMA ProductOrder ==
  ASSUME NEW m \in Nat, NEW n \in Nat, m < n
  PROVE  m * UnitsPerByte + UnitsPerByte <= n * UnitsPerByte
<1>1. PICK k \in Nat : n = m + 1 + k
  <2>1. n - m - 1 \in Nat /\ n = m + 1 + (n - m - 1)
    OBVIOUS
  <2>2. QED
    BY <2>1
<1>2. k * UnitsPerByte \in Nat
  OBVIOUS
<1>3. n * UnitsPerByte = m * UnitsPerByte + UnitsPerByte + k * UnitsPerByte
  BY <1>1
<1>4. QED
  BY <1>2, <1>3

LEMMA ValueMonotone ==
  ASSUME NEW a \in Nat, NEW b \in Nat, a <= b
  PROVE  Value(a) <= Value(b)
<1>1. Value(a) \in Nat /\ Value(b) \in Nat
  BY ValueRoundsUp
<1>2. SUFFICES ASSUME Value(b) < Value(a) PROVE FALSE
  BY <1>1
<1>3. Value(b) * UnitsPerByte + UnitsPerByte <= Value(a) * UnitsPerByte
  BY <1>1, <1>2, ProductOrder
<1>4. b <= Value(b) * UnitsPerByte /\ Value(a) * UnitsPerByte < a + UnitsPerByte
  BY ValueRoundsUp
<1>5. Value(a) * UnitsPerByte \in Nat /\ Value(b) * UnitsPerByte \in Nat
  BY <1>1
<1>6. QED
  BY <1>3, <1>4, <1>5

LEMMA ValueOrder ==
  ASSUME NEW m \in Nat, NEW n \in Nat, m <= n
  PROVE  m * UnitsPerByte <= n * UnitsPerByte
<1>1. CASE m = n
  BY <1>1
<1>2. CASE m < n
  <2>1. m * UnitsPerByte \in Nat /\ n * UnitsPerByte \in Nat
    OBVIOUS
  <2>2. QED
    BY <1>2, <2>1, ProductOrder
<1>3. QED
  BY <1>1, <1>2

-----------------------------------------------------------------------------
(* The check against the reference.                                        *)

LEMMA ClassIsSaid ==
  ASSUME NEW s \in Storage
  PROVE  /\ ClassOf(s) \in Classes /\ SaysClass(s, ClassOf(s))
         /\ \A c \in Classes : SaysClass(s, c) => ClassOf(s) = c
BY ClassesAssumption DEF Storage, ClassOf, SaysClass

LEMMA ModeIsSaid ==
  ASSUME NEW s \in Storage
  PROVE  /\ ModeOf(s) \in VolumeModes /\ SaysMode(s, ModeOf(s))
         /\ \A m \in VolumeModes : SaysMode(s, m) => ModeOf(s) = m
BY AbsentAssumption DEF Storage, ModeOf, SaysMode, VolumeModes

LEMMA QuantityIsNat == ASSUME NEW s \in Storage PROVE Quantity(s.size) \in Nat
BY DEF Storage, Quantity

\* A volume that a claim could be bound to satisfies the claim
\* (CheckVolumeSatisfyClaim).
THEOREM BindableSatisfies ==
  ASSUME NEW volume \in Storage, NEW claim \in Storage, CouldBind(volume, claim)
  PROVE  CheckVolumeSatisfyClaim(volume, claim)
<1>1. checkCapacitySatisfyRequest(volume, claim)
  <2>1. Quantity(claim.size) \in Nat /\ Quantity(volume.size) \in Nat
    BY QuantityIsNat
  <2>2. Quantity(claim.size) <= Quantity(volume.size)
    BY <2>1 DEF CouldBind, Quantity
  <2>3. Value(Quantity(claim.size)) <= Value(Quantity(volume.size))
    BY <2>1, <2>2, ValueMonotone
  <2>4. QED
    BY <2>1, <2>3, ValueRoundsUp DEF checkCapacitySatisfyRequest
<1>2. checkStorageClassMatch(volume, claim)
  BY ClassIsSaid DEF CouldBind, checkStorageClassMatch
<1>3. checkVolumeModeMatch(volume, claim)
  BY ModeIsSaid DEF CouldBind, checkVolumeModeMatch
<1>4. checkAccessModesMatch(volume, claim)
  BY DEF CouldBind, checkAccessModesMatch
<1>5. QED
  BY <1>1, <1>2, <1>3, <1>4 DEF CheckVolumeSatisfyClaim

\* And a volume that satisfies a claim could be bound to it, but for the
\* fraction of a byte that the check rounds up.
THEOREM SatisfyingIsBindable ==
  ASSUME NEW volume \in Storage, NEW claim \in Storage,
         CheckVolumeSatisfyClaim(volume, claim)
  PROVE  CouldBind(RoundedUp(volume), claim)
<1> DEFINE rounded == RoundedUp(volume)
<1>1. Quantity(claim.size) \in Nat /\ Quantity(volume.size) \in Nat
  BY QuantityIsNat
<1>2. /\ rounded.size = Value(Quantity(volume.size)) * UnitsPerByte
      /\ rounded.annotation = volume.annotation /\ rounded.class = volume.class
      /\ rounded.mode = volume.mode /\ rounded.access = volume.access
  BY DEF Storage, RoundedUp
<1>3. claim.size # Absent => rounded.size # Absent /\ rounded.size >= claim.size
  <2>1. Value(Quantity(volume.size)) \in Nat /\ Value(Quantity(claim.size)) \in Nat
    BY <1>1, ValueRoundsUp
  <2>2. Value(Quantity(claim.size)) * UnitsPerByte <= rounded.size
    BY <1>2, <2>1, ValueOrder DEF CheckVolumeSatisfyClaim, checkCapacitySatisfyRequest
  <2>3. Quantity(claim.size) <= Value(Quantity(claim.size)) * UnitsPerByte
    BY <1>1, ValueRoundsUp
  <2>4. rounded.size \in Nat /\ Value(Quantity(claim.size)) * UnitsPerByte \in Nat
    BY <1>2, <2>1
  <2>5. Quantity(claim.size) <= rounded.size /\ rounded.size # Absent
    BY <1>1, <2>2, <2>3, <2>4, AbsentAssumption
  <2>6. QED
    BY <1>1, <2>4, <2>5 DEF Quantity
<1>4. \E class \in Classes : SaysClass(rounded, class) /\ SaysClass(claim, class)
  <2>1. ClassOf(volume) = ClassOf(claim)
    BY DEF CheckVolumeSatisfyClaim, checkStorageClassMatch
  <2>2. SaysClass(rounded, ClassOf(volume)) /\ SaysClass(claim, ClassOf(claim))
    BY <1>2, ClassIsSaid DEF SaysClass
  <2>3. QED
    BY <2>1, <2>2, ClassIsSaid
<1>5. \E mode \in VolumeModes : SaysMode(rounded, mode) /\ SaysMode(claim, mode)
  <2>1. ModeOf(volume) = ModeOf(claim)
    BY DEF CheckVolumeSatisfyClaim, checkVolumeModeMatch
  <2>2. SaysMode(rounded, ModeOf(volume)) /\ SaysMode(claim, ModeOf(claim))
    BY <1>2, ModeIsSaid DEF SaysMode
  <2>3. QED
    BY <2>1, <2>2, ModeIsSaid
<1>6. \A a \in claim.access : a \in rounded.access
  BY <1>2 DEF CheckVolumeSatisfyClaim, checkAccessModesMatch
<1>7. QED
  BY <1>3, <1>4, <1>5, <1>6 DEF CouldBind

-----------------------------------------------------------------------------
(* The run.                                                                *)

\* The claims that protect a volume are those it satisfies.
LEMMA ClaimsPoint ==
  ASSUME NEW e \in Edges, NEW o \in Volume
  PROVE  Points(e, o) <=> e \in Claim /\ CheckVolumeSatisfyClaim(VolumeOf[o], ClaimOf[e])
<1>1. o \in Objects /\ o.kind = "PersistentVolume"
  BY DEF Volume
<1>2. Points(e, o) <=> e.kind = o.kind /\ <<e, o>> \in Satisfying
  BY <1>1 DEF Points
<1>3. <<e, o>> \in Satisfying <=>
        e \in Claim /\ CheckVolumeSatisfyClaim(VolumeOf[o], ClaimOf[e])
  BY MatchingAssumption
<1>4. QED
  BY <1>1, <1>2, <1>3 DEF Claim

LEMMA StorageTypes ==
  /\ \A o \in Volume : VolumeOf[o] \in Storage
  /\ \A e \in Claim : ClaimOf[e] \in Storage
BY StorageAssumption

\* A volume that a claim of the run's namespace could be bound to throughout
\* is not deleted (New, collectReferences, determineDeletionPersistentVolume,
\* CheckVolumeSatisfyClaim).
THEOREM BindableVolumesSurvive == Spec => []BindableVolumeSurvives
<1>1. IInv => BindableVolumeSurvives
  <2>1. SUFFICES ASSUME IInv, NEW o \in deleted, o \in Volume, Noticed(o),
                        NEW e \in Steady, e \in Claim, InScope(e.ns),
                        CouldBind(VolumeOf[o], ClaimOf[e])
                 PROVE  FALSE
    BY DEF BindableVolumeSurvives
  <2>2. Points(e, o)
    BY <2>1, ClaimsPoint, StorageTypes, BindableSatisfies DEF Claim
  <2>3. e.source \in ScannedFor(o.kind) \ Unserved
    BY <2>1, UnservedAssumption DEF Claim, Volume, ScannedFor, DocumentedFor, OptionalSources
  <2>4. InUseThroughout(o)
    BY <2>1, <2>2, <2>3, IrregularAssumption DEF InUseThroughout, HeldBy, Claim
  <2>5. QED
    BY <2>1, <2>4 DEF IInv, InUseThroughoutSurvives
<1>2. QED
  BY InitInv, StepInv, <1>1, PTL DEF Spec

\* A successful real run over volumes leaves no idle one that no claim could
\* be bound to.
THEOREM UnboundVolumesAreReaped == Spec => []UnboundVolumeIsReaped
<1>1. TypeOK /\ NeverUsedIsReaped => UnboundVolumeIsReaped
  <2>1. SUFFICES ASSUME TypeOK, NeverUsedIsReaped, pc = "succeeded", opts.dryRun = "none",
                        ~opts.interactive,
                        NEW o \in live \ (touched \cup busy \cup Exempt), o \in Volume,
                        AskedFor(o)
                 PROVE  \E e \in Ever \cap Claim : CouldBind(RoundedUp(VolumeOf[o]), ClaimOf[e])
    BY DEF UnboundVolumeIsReaped
  <2>2. PICK e \in Ever : Points(e, o)
    BY <2>1 DEF NeverUsedIsReaped
  <2>3. e \in Claim /\ CheckVolumeSatisfyClaim(VolumeOf[o], ClaimOf[e])
    BY <2>1, <2>2, ClaimsPoint DEF TypeOK, Ever
  <2>4. CouldBind(RoundedUp(VolumeOf[o]), ClaimOf[e])
    BY <2>1, <2>3, StorageTypes, SatisfyingIsBindable
  <2>5. QED
    BY <2>3, <2>4
<1>2. QED
  BY TypeCorrect, ReapIsThorough, <1>1, PTL
=============================================================================
