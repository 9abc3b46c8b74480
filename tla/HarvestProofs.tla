--------------------------- MODULE HarvestProofs ---------------------------
(* What one run of kubectl-harvest guarantees, for every set of objects,   *)
(* references and command lines.                                           *)
EXTENDS Harvest, TLAPS

USE DEF world, determiner, outcome, run, vars

-----------------------------------------------------------------------------
(* Type correctness.                                                       *)

LEMMA OptionTypes ==
  ASSUME TypeOK
  PROVE  /\ opts.kinds \in Seq(Kinds)
         /\ opts.dryRun \in {"none", "client", "server"}
         /\ opts.quiet \in BOOLEAN
BY ConfigsAssumption DEF TypeOK, Options

LEMMA NeedsAreListed == \A k \in SUBSET FlaggedKinds : Needs(k) \subseteq ListedSources
BY DEF Needs

LEMMA InitType == Init => TypeOK
<1>1. SUFFICES ASSUME Init PROVE TypeOK
  OBVIOUS
<1>2. opts \in Configs /\ opts.kinds \in Seq(Kinds)
  BY <1>1, ConfigsAssumption DEF Init, Options
<1>3. todo \in Seq(Kinds) /\ ticks \in 0..MaxTicks
  BY <1>1, <1>2, MaxTicksAssumption DEF Init
<1>4. QED
  BY <1>1, <1>2, <1>3 DEF Init, TypeOK, Ended

LEMMA CompleteType == TypeOK /\ Complete => TypeOK'
<1>1. ASSUME TypeOK, NEW next \in {"survey", "failed"}, LeavePreflight(next) PROVE TypeOK'
  BY <1>1 DEF TypeOK, LeavePreflight, Ended
<1>2. QED
  BY <1>1 DEF Complete, PreflightSkipped, PreflightAllowed, PreflightMissing, PreflightBroken

LEMMA NewType == TypeOK /\ New => TypeOK'
<1>1. SUFFICES ASSUME TypeOK, New PROVE TypeOK'
  OBVIOUS
<1>2. ASSUME todo # <<>> PROVE Tail(todo) \in Seq(Kinds)
  BY <1>1, <1>2 DEF TypeOK
<1>3. CASE SurveyKind
  BY <1>1, <1>2, <1>3 DEF TypeOK, SurveyKind, Ended
<1>4. CASE SurveyListFails
  BY <1>1, <1>2, <1>4 DEF TypeOK, SurveyListFails, Ended
<1>5. CASE SurveyFailed
  BY <1>1, <1>5 DEF TypeOK, SurveyFailed, Ended
<1>6. CASE StartCollecting
  BY <1>1, <1>6, NeedsAreListed DEF TypeOK, StartCollecting, Ended
<1>7. ASSUME NEW s \in ListedSources, ListSource(s) PROVE TypeOK'
  BY <1>1, <1>7 DEF TypeOK, ListSource, NextSource, Ended
<1>8. CASE ListSourceFails
  BY <1>1, <1>8 DEF TypeOK, ListSourceFails, Ended
<1>9. CASE StartVisiting
  BY <1>1, <1>9, OptionTypes DEF TypeOK, StartVisiting, Ended
<1>10. QED
  BY <1>1, <1>3, <1>4, <1>5, <1>6, <1>7, <1>8, <1>9 DEF New

LEMMA RunType == TypeOK /\ Run => TypeOK'
<1>1. SUFFICES ASSUME TypeOK, Run PROVE TypeOK'
  OBVIOUS
<1>2. ASSUME todo # <<>> PROVE Tail(todo) \in Seq(Kinds)
  BY <1>1, <1>2 DEF TypeOK
<1>3. CASE ListKind
  <2>1. batch' \subseteq [obj: Objects, busy: BOOLEAN]
    <3>1. SUFFICES ASSUME NEW info \in batch' PROVE info \in [obj: Objects, busy: BOOLEAN]
      OBVIOUS
    <3>2. PICK o \in Listing(Head(todo)) : info = [obj |-> o, busy |-> o \in busy]
      BY <1>3 DEF ListKind
    <3>3. o \in Objects
      BY <1>1 DEF TypeOK, Listing
    <3>4. (o \in busy) = TRUE \/ (o \in busy) = FALSE
      OBVIOUS
    <3>5. QED
      BY <3>2, <3>3, <3>4, Zenon
  <2>2. QED
    BY <1>1, <1>2, <1>3, <2>1 DEF TypeOK, ListKind, Idle, Ended
<1>4. CASE ListKindFails
  BY <1>1, <1>2, <1>4 DEF TypeOK, ListKindFails, Idle, Ended
<1>5. ASSUME NEW info \in batch, Keep(info) \/ DetermineFails(info) PROVE TypeOK'
  BY <1>1, <1>5 DEF TypeOK, Keep, DetermineFails, Ended
<1>6. ASSUME NEW info \in batch, Select(info) PROVE TypeOK'
  BY <1>1, <1>6 DEF TypeOK, Select, Ended
<1>7. CASE Decline \/ AcceptDryRun \/ Accept
  BY <1>1, <1>7 DEF TypeOK, Decline, AcceptDryRun, Accept, Ended
<1>8. CASE DeleteSucceeds \/ DeleteFails \/ DeleteReplyLost
  BY <1>1, <1>8 DEF TypeOK, DeleteSucceeds, DeleteFails, DeleteReplyLost, Removed, Ended
<1>9. CASE RunFailed \/ RunSucceeded \/ StartWaiting \/ WaitReturns
  BY <1>1, <1>9 DEF TypeOK, RunFailed, RunSucceeded, StartWaiting, WaitReturns, Visited, Idle, Ended
<1>10. QED
  BY <1>1, <1>3, <1>4, <1>5, <1>6, <1>7, <1>8, <1>9 DEF Run

LEMMA OthersType == TypeOK /\ Others => TypeOK'
<1>1. SUFFICES ASSUME TypeOK, Others PROVE TypeOK'
  OBVIOUS
<1>2. ASSUME OthersStep PROVE ticks' \in 0..MaxTicks
  BY <1>1, <1>2, MaxTicksAssumption DEF TypeOK, OthersStep
<1>3. ASSUME NEW o \in Objects, Create(o) \/ Remove(o) \/ ChangeStatus(o) PROVE TypeOK'
  BY <1>1, <1>2, <1>3 DEF TypeOK, Create, Remove, ChangeStatus, OthersStep, Ended
<1>4. ASSUME NEW e \in Edges, ChangeReference(e) PROVE TypeOK'
  BY <1>1, <1>2, <1>4 DEF TypeOK, ChangeReference, OthersStep, Ended
<1>5. CASE Signal
  BY <1>1, <1>5 DEF TypeOK, Signal, Ended
<1>6. QED
  BY <1>1, <1>3, <1>4, <1>5 DEF Others

LEMMA StepType == TypeOK /\ [Next]_vars => TypeOK'
<1>1. ASSUME TypeOK, UNCHANGED vars PROVE TypeOK'
  BY <1>1 DEF TypeOK, Ended
<1>2. QED
  BY <1>1, CompleteType, NewType, RunType, OthersType DEF Next, Program, Terminated

\* The variables of a run hold values of their types, whatever the cluster
\* and the command line (all of New, Complete and Run).
THEOREM TypeCorrect == Spec => []TypeOK
BY InitType, StepType, PTL DEF Spec

-----------------------------------------------------------------------------
(* What was in use throughout survives.                                    *)

\* A reference that nobody changed, of a source that is needed and has been
\* listed, is known.
SteadyIsKnown ==
  pc \notin {"preflight", "survey", "failed"} =>
    \A e \in Steady :
      /\ e.source \in Needs(reap) \ unread
      /\ e.source \notin Unserved
      /\ InScope(e.ns)
      => e \in known

\* The candidates are visited when every needed source has been listed, and
\* none is deleted before.
AllListedBeforeVisit ==
  /\ pc \in {"visit", "confirm", "delete", "wait", "succeeded"} => unread = {}
  /\ pc \in {"preflight", "survey", "collect"} => deleted = {}

\* The status in the listing is the status at the beginning, if nobody
\* changed it.
ListedStatus == \A info \in batch : info.obj \in busy \ touched => info.busy

\* Only what the command line asks for is listed, decided and taken in hand.
Named(kind) == \E i \in DOMAIN opts.kinds : opts.kinds[i] = kind

OnlyAskedFor ==
  /\ \A i \in DOMAIN todo : Named(todo[i])
  /\ \A info \in batch : Named(info.obj.kind) /\ InScope(info.obj.ns)
  /\ pc \in {"confirm", "delete"} => AskedFor(cur)

\* The first Visit sees what is there: unless it meets with an error, of every
\* object asked for that nobody touched the kind is announced, or still to be
\* listed.
Seen(o) ==
  \/ Announced(o.kind)
  \/ pc \in {"preflight", "survey"} /\ \E i \in DOMAIN todo : todo[i] = o.kind

SurveySees ==
  \/ pc = "failed"
  \/ pc \in {"preflight", "survey"} /\ errs
  \/ \A o \in live \ touched : Named(o.kind) /\ InScope(o.ns) => Seen(o)

\* So a candidate that nobody touched has had its references collected.
UntouchedIsAnnounced == \A info \in batch : info.obj \notin touched => Announced(info.obj.kind)

\* The candidate in hand was not in use throughout, and never will be.
CurMayGo == pc \in {"confirm", "delete"} => ~InUseThroughout(cur)

IInv ==
  /\ TypeOK
  /\ SteadyIsKnown
  /\ AllListedBeforeVisit
  /\ ListedStatus
  /\ OnlyAskedFor
  /\ SurveySees
  /\ UntouchedIsAnnounced
  /\ CurMayGo
  /\ InUseThroughoutSurvives

\* Whatever a scanned source protects, the decision finds.
LEMMA ScannedIsConsulted ==
  ASSUME NEW kind \in Kinds, Announced(kind),
         NEW s \in ScannedFor(kind), kind # "HorizontalPodAutoscaler"
  PROVE  s \in Consulted(kind, reap) /\ s \in Needs(reap)
<1>1. CASE kind \in {"ConfigMap", "Secret"}
  BY <1>1 DEF ScannedFor, DocumentedFor, Consulted, Needs, NeedsPods, NeedsPodTemplates,
              NeedsRevisions, PodSpecSources, TemplateSources, SecretSources, ListedSources,
              Announced, FlaggedKinds
<1>2. CASE kind \in {"PersistentVolumeClaim", "PodDisruptionBudget", "NetworkPolicy"}
  <2>1. kind \in reap
    BY <1>2 DEF Announced, FlaggedKinds
  <2>2. CASE reap \cap {"ConfigMap", "Secret"} = {}
    BY <1>2, <2>1, <2>2 DEF ScannedFor, Consulted, Needs, NeedsPods, PodSpecSources, ListedSources
  <2>3. CASE reap \cap {"ConfigMap", "Secret"} # {}
    BY <1>2, <2>1, <2>3 DEF ScannedFor, DocumentedFor, Consulted, Needs, NeedsPods,
       NeedsPodTemplates, NeedsRevisions, PodSpecSources, TemplateSources, ListedSources
  <2>4. QED
    BY <2>2, <2>3
<1>3. CASE kind \in {"PersistentVolume", "ReplicaSet"}
  BY <1>3 DEF ScannedFor, DocumentedFor, Consulted, Needs, NeedsRevisions, TemplateSources,
              ListedSources, Announced, FlaggedKinds
<1>4. QED
  BY <1>1, <1>2, <1>3 DEF ScannedFor, DocumentedFor

\* Others can only end a use that has lasted, never start one.
LEMMA UseShrinks ==
  ASSUME TypeOK, [Next]_vars
  PROVE  /\ Steady' \subseteq Steady /\ (busy \ touched)' \subseteq busy \ touched
         /\ (live \ touched)' \subseteq live \ touched /\ touched \subseteq touched' /\ opts' = opts
<1>1. CASE Complete \/ Terminated \/ UNCHANGED vars
  BY <1>1 DEF Complete, PreflightSkipped, PreflightAllowed, PreflightMissing, PreflightBroken,
              LeavePreflight, Terminated, Steady
<1>2. CASE New
  BY <1>2 DEF New, SurveyKind, SurveyListFails, SurveyFailed, StartCollecting, ListSource,
              ListSourceFails, StartVisiting, Steady
<1>3. CASE Run
  BY <1>3 DEF Run, ListKind, ListKindFails, Keep, DetermineFails, Select, Decline, AcceptDryRun,
              Accept, DeleteSucceeds, DeleteFails, DeleteReplyLost, RunFailed, RunSucceeded,
              StartWaiting, WaitReturns, Steady
<1>4. CASE Others
  BY <1>4 DEF Others, Create, Remove, ChangeStatus, ChangeReference, OthersStep, Signal, Steady
<1>5. QED
  BY <1>1, <1>2, <1>3, <1>4 DEF Next, Program

\* The flags are settled when the first Visit is over.
LEMMA FlagsSettle ==
  ASSUME TypeOK, [Next]_vars, pc # "survey"
  PROVE  reap' = reap
<1>1. CASE Complete \/ Terminated \/ UNCHANGED vars
  BY <1>1 DEF Complete, PreflightSkipped, PreflightAllowed, PreflightMissing, PreflightBroken,
              LeavePreflight, Terminated
<1>2. CASE New
  BY <1>2 DEF New, SurveyKind, SurveyListFails, SurveyFailed, StartCollecting, ListSource,
              ListSourceFails, StartVisiting
<1>3. CASE Run
  BY <1>3 DEF Run, ListKind, ListKindFails, Keep, DetermineFails, Select, Decline, AcceptDryRun,
              Accept, DeleteSucceeds, DeleteFails, DeleteReplyLost, RunFailed, RunSucceeded,
              StartWaiting, WaitReturns
<1>4. CASE Others
  BY <1>4 DEF Others, Create, Remove, ChangeStatus, ChangeReference, OthersStep, Signal
<1>5. QED
  BY <1>1, <1>2, <1>3, <1>4 DEF Next, Program

\* So an object that is not in use throughout will not be so later.
LEMMA InUseShrinks ==
  ASSUME TypeOK, [Next]_vars, pc # "survey", NEW o, InUseThroughout(o)'
  PROVE  InUseThroughout(o)
<1>1. Steady' \subseteq Steady /\ (busy \ touched)' \subseteq busy \ touched /\ opts' = opts
  BY UseShrinks
<1>2. reap' = reap
  BY FlagsSettle
<1>3. ASSUME HeldBy(o, ScannedFor(o.kind))' PROVE HeldBy(o, ScannedFor(o.kind))
  BY <1>1, <1>2, <1>3 DEF HeldBy, InScope, Points, ScannedFor
<1>4. Noticed(o)' => Noticed(o)
  BY <1>2, UseShrinks DEF Noticed, Announced
<1>5. QED
  BY <1>1, <1>3, <1>4 DEF InUseThroughout

\* A candidate in use throughout is not selected.
LEMMA SelectsIdle ==
  ASSUME TypeOK, SteadyIsKnown, AllListedBeforeVisit, pc = "visit",
         NEW o \in Objects, NEW wasBusy \in BOOLEAN, o \in busy \ touched => wasBusy,
         Noticed(o) => Announced(o.kind), ~Spared(o), DetermineDeletion(o, wasBusy)
  PROVE  ~InUseThroughout(o)
<1>1. o.ns # KubeSystem /\ o \notin Exempt /\ o \notin busy \ touched
  BY DEF Spared, DetermineDeletion
<1>2. ASSUME Announced(o.kind), HeldBy(o, ScannedFor(o.kind)) PROVE FALSE
  <2>1. PICK e \in Steady \ Irregular : /\ e.source \in ScannedFor(o.kind) \ Unserved
                                       /\ InScope(e.ns) /\ Points(e, o)
    BY <1>2 DEF HeldBy
  <2>2. o.kind \in Kinds
    BY ObjectsAssumption
  <2>3. CASE o.kind = "HorizontalPodAutoscaler"
    <3>1. e \in refs /\ e.source = "scaleTargets"
      BY <2>1, <2>3 DEF ScannedFor, DocumentedFor, Steady
    <3>2. QED
      BY <2>1, <2>3, <3>1 DEF DetermineDeletion, Lookup, ScaleTargetFound
  <2>4. CASE o.kind # "HorizontalPodAutoscaler"
    <3>1. e.source \in Consulted(o.kind, reap) /\ e.source \in Needs(reap)
      BY <1>2, <2>1, <2>2, <2>4, ScannedIsConsulted
    <3>2. e \in known
      BY <2>1, <3>1 DEF SteadyIsKnown, AllListedBeforeVisit
    <3>3. QED
      BY <2>1, <3>1, <3>2 DEF DetermineDeletion, ReferenceFound
  <2>5. QED
    BY <2>3, <2>4
<1>3. QED
  BY <1>1, <1>2 DEF InUseThroughout

LEMMA InitInv == Init => IInv
<1>1. Init => OnlyAskedFor /\ SurveySees
  BY DEF Init, OnlyAskedFor, SurveySees, Seen, Named
<1>2. QED
  BY <1>1, InitType DEF Init, IInv, SteadyIsKnown, AllListedBeforeVisit, ListedStatus,
     UntouchedIsAnnounced, CurMayGo, InUseThroughoutSurvives, Ended

LEMMA KnownStep == IInv /\ [Next]_vars => SteadyIsKnown'
<1>1. SUFFICES ASSUME IInv, [Next]_vars PROVE SteadyIsKnown'
  OBVIOUS
<1>2. Steady' \subseteq Steady /\ opts' = opts
  BY <1>1, UseShrinks DEF IInv
<1>3. ASSUME UNCHANGED <<unread, known, pc>> PROVE SteadyIsKnown'
  BY <1>1, <1>2, <1>3, FlagsSettle DEF IInv, SteadyIsKnown, InScope
<1>4. CASE Complete
  BY <1>4 DEF Complete, PreflightSkipped, PreflightAllowed, PreflightMissing, PreflightBroken,
              LeavePreflight, SteadyIsKnown
<1>5. CASE New
  <2>1. CASE SurveyKind \/ SurveyListFails \/ SurveyFailed \/ ListSourceFails
    BY <2>1 DEF SurveyKind, SurveyListFails, SurveyFailed, ListSourceFails, SteadyIsKnown
  <2>2. CASE StartCollecting
    BY <2>2 DEF StartCollecting, SteadyIsKnown
  <2>3. ASSUME NEW s \in ListedSources, ListSource(s) PROVE SteadyIsKnown'
    BY <1>1, <1>2, <2>3 DEF ListSource, NextSource, IInv, SteadyIsKnown, InScope, Steady
  <2>4. CASE StartVisiting
    BY <1>1, <1>2, <2>4 DEF StartVisiting, IInv, SteadyIsKnown, InScope
  <2>5. QED
    BY <1>5, <2>1, <2>2, <2>3, <2>4 DEF New
<1>6. CASE Run
  <2>1. UNCHANGED <<unread, known, reap>> /\ pc \notin {"preflight", "survey", "failed"}
    BY <1>6 DEF Run, ListKind, ListKindFails, Keep, DetermineFails, Select, Decline, AcceptDryRun,
                Accept, DeleteSucceeds, DeleteFails, DeleteReplyLost, RunFailed, RunSucceeded,
                StartWaiting, WaitReturns, Visited, Idle
  <2>2. QED
    BY <1>1, <1>2, <2>1 DEF IInv, SteadyIsKnown, InScope
<1>7. CASE Others \/ Terminated \/ UNCHANGED vars
  BY <1>3, <1>7 DEF Others, Create, Remove, ChangeStatus, ChangeReference, OthersStep, Signal,
                    Terminated
<1>8. QED
  BY <1>1, <1>4, <1>5, <1>6, <1>7 DEF Next, Program

LEMMA ListedBeforeVisitStep == IInv /\ [Next]_vars => AllListedBeforeVisit'
<1>1. SUFFICES ASSUME IInv, [Next]_vars PROVE AllListedBeforeVisit'
  OBVIOUS
<1>2. CASE Complete
  BY <1>1, <1>2 DEF IInv, Complete, PreflightSkipped, PreflightAllowed, PreflightMissing,
                    PreflightBroken, LeavePreflight, AllListedBeforeVisit
<1>3. CASE New
  BY <1>1, <1>3 DEF IInv, New, SurveyKind, SurveyListFails, SurveyFailed, StartCollecting,
                    ListSource, NextSource, ListSourceFails, StartVisiting, AllListedBeforeVisit
<1>4. CASE Run
  BY <1>1, <1>4 DEF IInv, Run, ListKind, ListKindFails, Keep, DetermineFails, Select, Decline,
                    AcceptDryRun, Accept, DeleteSucceeds, DeleteFails, DeleteReplyLost, RunFailed,
                    RunSucceeded, StartWaiting, WaitReturns, Visited, Idle, AllListedBeforeVisit
<1>5. CASE Others \/ Terminated \/ UNCHANGED vars
  BY <1>1, <1>5 DEF IInv, Others, Create, Remove, ChangeStatus, ChangeReference, OthersStep,
                    Signal, Terminated, AllListedBeforeVisit
<1>6. QED
  BY <1>1, <1>2, <1>3, <1>4, <1>5 DEF Next, Program

LEMMA ListedStatusStep == IInv /\ [Next]_vars => ListedStatus'
<1>1. SUFFICES ASSUME IInv, [Next]_vars PROVE ListedStatus'
  OBVIOUS
<1>2. (busy \ touched)' \subseteq busy \ touched
  BY <1>1, UseShrinks DEF IInv
<1>3. ASSUME batch' \subseteq batch PROVE ListedStatus'
  BY <1>1, <1>2, <1>3 DEF IInv, ListedStatus
<1>4. CASE ListKind
  <2>1. SUFFICES ASSUME NEW info \in batch', info.obj \in (busy \ touched)' PROVE info.busy
    BY DEF ListedStatus
  <2>2. PICK o \in Listing(Head(todo)) : info = [obj |-> o, busy |-> o \in busy]
    BY <1>4, <2>1 DEF ListKind
  <2>3. o \in busy
    BY <1>2, <2>1, <2>2
  <2>4. info.busy = (o \in busy)
    BY <2>2
  <2>5. QED
    BY <2>3, <2>4, Zenon
<1>5. CASE Complete
  BY <1>3, <1>5 DEF Complete, PreflightSkipped, PreflightAllowed, PreflightMissing,
                    PreflightBroken, LeavePreflight
<1>6. CASE New
  BY <1>3, <1>6 DEF New, SurveyKind, SurveyListFails, SurveyFailed, StartCollecting, ListSource,
                    ListSourceFails, StartVisiting
<1>7. CASE Run /\ ~ListKind
  BY <1>3, <1>7 DEF Run, ListKindFails, Keep, DetermineFails, Select, Decline, AcceptDryRun,
                    Accept, DeleteSucceeds, DeleteFails, DeleteReplyLost, RunFailed, RunSucceeded,
                    StartWaiting, WaitReturns
<1>8. CASE Others \/ Terminated \/ UNCHANGED vars
  BY <1>3, <1>8 DEF Others, Create, Remove, ChangeStatus, ChangeReference, OthersStep, Signal,
                    Terminated
<1>9. QED
  BY <1>1, <1>4, <1>5, <1>6, <1>7, <1>8 DEF Next, Program

LEMMA OnlyAskedForStep == TypeOK /\ OnlyAskedFor /\ [Next]_vars => OnlyAskedFor'
<1>1. SUFFICES ASSUME TypeOK, OnlyAskedFor, [Next]_vars PROVE OnlyAskedFor'
  OBVIOUS
<1>2. TypeOK /\ OnlyAskedFor /\ opts' = opts
  BY <1>1, UseShrinks
<1>3. \A kind, ns : Named(kind)' = Named(kind) /\ InScope(ns)' = InScope(ns)
  BY <1>2 DEF Named, InScope
<1>4. ASSUME todo # <<>>, todo' = Tail(todo) PROVE \A i \in DOMAIN todo' : Named(todo'[i])
  BY <1>2, <1>4 DEF OnlyAskedFor, TypeOK
<1>5. ASSUME UNCHANGED todo, batch' \subseteq batch, pc' \notin {"confirm", "delete"}
      PROVE  OnlyAskedFor'
  BY <1>2, <1>3, <1>5 DEF OnlyAskedFor
<1>6. CASE Complete
  BY <1>5, <1>6 DEF Complete, PreflightSkipped, PreflightAllowed, PreflightMissing,
                    PreflightBroken, LeavePreflight
<1>7. CASE New
  <2>1. CASE SurveyKind \/ SurveyListFails
    BY <1>2, <1>3, <1>4, <2>1 DEF SurveyKind, SurveyListFails, OnlyAskedFor
  <2>2. CASE StartVisiting
    BY <1>2, <1>3, <2>2 DEF StartVisiting, OnlyAskedFor, Named
  <2>3. CASE New /\ ~(SurveyKind \/ SurveyListFails \/ StartVisiting)
    BY <1>5, <2>3 DEF New, SurveyFailed, StartCollecting, ListSource, NextSource, ListSourceFails
  <2>4. QED
    BY <1>7, <2>1, <2>2, <2>3
<1>8. CASE Run
  <2>1. CASE ListKind
    <3>1. Named(Head(todo))
      BY <1>2, <2>1 DEF ListKind, OnlyAskedFor, TypeOK
    <3>2. ASSUME NEW info \in batch' PROVE Named(info.obj.kind) /\ InScope(info.obj.ns)
      BY <2>1, <3>1, <3>2 DEF ListKind, Listing
    <3>3. QED
      BY <1>3, <1>4, <2>1, <3>2 DEF ListKind, Idle, OnlyAskedFor
  <2>2. CASE ListKindFails
    BY <1>2, <1>3, <1>4, <2>2 DEF ListKindFails, Idle, OnlyAskedFor
  <2>3. ASSUME NEW info \in batch, Keep(info) \/ DetermineFails(info) PROVE OnlyAskedFor'
    BY <1>5, <2>3 DEF Keep, DetermineFails
  <2>4. ASSUME NEW info \in batch, Select(info) PROVE OnlyAskedFor'
    <3>1. AskedFor(cur')
      BY <1>2, <2>4 DEF Select, OnlyAskedFor, AskedFor, Named
    <3>2. QED
      BY <1>2, <1>3, <2>4, <3>1 DEF Select, OnlyAskedFor, AskedFor, Spared, InScope
  <2>5. CASE Accept
    BY <1>2, <1>3, <2>5 DEF Accept, OnlyAskedFor, AskedFor, Spared, InScope
  <2>6. CASE Decline \/ AcceptDryRun \/ DeleteSucceeds \/ DeleteFails \/ DeleteReplyLost
    BY <1>5, <2>6 DEF Decline, AcceptDryRun, DeleteSucceeds, DeleteFails, DeleteReplyLost
  <2>7. CASE RunFailed \/ RunSucceeded \/ StartWaiting \/ WaitReturns
    BY <1>5, <2>7 DEF RunFailed, RunSucceeded, StartWaiting, WaitReturns
  <2>8. QED
    BY <1>8, <2>1, <2>2, <2>3, <2>4, <2>5, <2>6, <2>7 DEF Run
<1>9. CASE Others \/ Terminated \/ UNCHANGED vars
  <2>1. UNCHANGED <<pc, todo, batch, cur>>
    BY <1>9 DEF Others, Create, Remove, ChangeStatus, ChangeReference, OthersStep, Signal,
                Terminated
  <2>2. QED
    BY <1>2, <1>3, <2>1 DEF OnlyAskedFor, AskedFor, Spared, InScope
<1>10. QED
  BY <1>1, <1>6, <1>7, <1>8, <1>9 DEF Next, Program

LEMMA SurveyStep == IInv /\ [Next]_vars => SurveySees'
<1>1. SUFFICES ASSUME IInv, [Next]_vars PROVE SurveySees'
  OBVIOUS
<1>2. TypeOK /\ (live \ touched)' \subseteq live \ touched /\ opts' = opts
  BY <1>1, UseShrinks DEF IInv
<1>3. \A kind, ns : Named(kind)' = Named(kind) /\ InScope(ns)' = InScope(ns)
  BY <1>2 DEF Named, InScope
\* It is enough that what has been seen is not forgotten.
<1>4. ASSUME errs => errs', pc' \in {"preflight", "survey"} \/ pc \notin {"preflight", "survey"} \/ ~errs,
             pc # "failed",
             ASSUME NEW o \in live \ touched, Named(o.kind), InScope(o.ns), Seen(o) PROVE Seen(o)'
      PROVE  SurveySees'
  BY <1>1, <1>2, <1>3, <1>4 DEF IInv, SurveySees
<1>5. CASE Complete
  BY <1>4, <1>5 DEF Complete, PreflightSkipped, PreflightAllowed, PreflightMissing,
                    PreflightBroken, LeavePreflight, Seen, SurveySees, Announced
<1>6. CASE New
  <2>1. CASE SurveyKind
    <3>1. ASSUME NEW o \in live \ touched, Named(o.kind), InScope(o.ns), Seen(o) PROVE Seen(o)'
      <4>1. CASE Announced(o.kind)
        BY <2>1, <4>1 DEF SurveyKind, Seen, Announced
      <4>2. ASSUME NEW i \in DOMAIN todo, todo[i] = o.kind PROVE Seen(o)'
        <5>1. CASE i = 1
          <6>1. o \in Listing(Head(todo)) /\ Head(todo) = o.kind
            BY <1>2, <2>1, <3>1, <4>2, <5>1 DEF Listing, SurveyKind, TypeOK
          <6>2. QED
            BY <2>1, <6>1 DEF SurveyKind, Seen, Announced
        <5>2. CASE i # 1
          <6>1. i - 1 \in DOMAIN todo' /\ todo'[i - 1] = o.kind
            BY <1>2, <2>1, <4>2, <5>2 DEF SurveyKind, TypeOK
          <6>2. QED
            BY <2>1, <6>1 DEF SurveyKind, Seen
        <5>3. QED
          BY <5>1, <5>2
      <4>3. QED
        BY <3>1, <4>1, <4>2 DEF Seen
    <3>2. QED
      BY <1>4, <2>1, <3>1 DEF SurveyKind
  <2>2. CASE SurveyListFails \/ SurveyFailed \/ ListSourceFails
    BY <2>2 DEF SurveyListFails, SurveyFailed, ListSourceFails, SurveySees
  <2>3. CASE StartCollecting
    <3>1. todo = <<>> /\ DOMAIN todo = {}
      BY <2>3 DEF StartCollecting
    <3>2. QED
      BY <1>4, <2>3, <3>1 DEF StartCollecting, Seen, Announced
  <2>4. ASSUME NEW s \in ListedSources, ListSource(s) PROVE SurveySees'
    BY <1>4, <2>4 DEF ListSource, NextSource, Seen, Announced
  <2>5. CASE StartVisiting
    BY <1>4, <2>5 DEF StartVisiting, Seen, Announced
  <2>6. QED
    BY <1>6, <2>1, <2>2, <2>3, <2>4, <2>5 DEF New
<1>7. CASE Run
  <2>1. pc \notin {"preflight", "survey", "failed"} /\ UNCHANGED reap
    BY <1>7 DEF Run, ListKind, ListKindFails, Keep, DetermineFails, Select, Decline, AcceptDryRun,
                Accept, DeleteSucceeds, DeleteFails, DeleteReplyLost, RunFailed, RunSucceeded,
                StartWaiting, WaitReturns, Visited, Idle
  <2>2. QED
    BY <1>1, <1>2, <1>3, <2>1 DEF IInv, SurveySees, Seen, Announced
<1>8. CASE Others \/ Terminated \/ UNCHANGED vars
  <2>1. UNCHANGED <<pc, todo, reap, errs>>
    BY <1>8 DEF Others, Create, Remove, ChangeStatus, ChangeReference, OthersStep, Signal,
                Terminated
  <2>2. QED
    BY <1>1, <1>2, <1>3, <2>1 DEF IInv, SurveySees, Seen, Announced
<1>9. QED
  BY <1>1, <1>5, <1>6, <1>7, <1>8 DEF Next, Program

LEMMA AnnouncedStep == IInv /\ [Next]_vars => UntouchedIsAnnounced'
<1>1. SUFFICES ASSUME IInv, [Next]_vars PROVE UntouchedIsAnnounced'
  OBVIOUS
<1>2. touched \subseteq touched'
  BY <1>1, UseShrinks DEF IInv
<1>3. ASSUME batch' \subseteq batch, reap \subseteq reap' PROVE UntouchedIsAnnounced'
  BY <1>1, <1>2, <1>3 DEF IInv, UntouchedIsAnnounced, Announced
<1>4. CASE ListKind
  <2>1. SUFFICES ASSUME NEW info \in batch', info.obj \notin touched'
                 PROVE  Announced(info.obj.kind)'
    BY DEF UntouchedIsAnnounced
  <2>2. PICK o \in Listing(Head(todo)) : info = [obj |-> o, busy |-> o \in busy]
    BY <1>4, <2>1 DEF ListKind
  <2>3. info.obj = o /\ o \in live \ touched /\ o.kind = Head(todo) /\ InScope(o.ns)
    BY <1>2, <2>1, <2>2 DEF Listing
  <2>4. Named(Head(todo))
    BY <1>1, <1>4 DEF ListKind, IInv, OnlyAskedFor, TypeOK
  <2>5. Announced(o.kind)
    BY <1>1, <1>4, <2>3, <2>4 DEF IInv, SurveySees, Seen, ListKind, Idle
  <2>6. QED
    BY <1>4, <2>3, <2>5 DEF ListKind, Announced
<1>5. CASE Complete
  BY <1>3, <1>5 DEF Complete, PreflightSkipped, PreflightAllowed, PreflightMissing,
                    PreflightBroken, LeavePreflight
<1>6. CASE New
  BY <1>3, <1>6 DEF New, SurveyKind, SurveyListFails, SurveyFailed, StartCollecting, ListSource,
                    ListSourceFails, StartVisiting
<1>7. CASE Run /\ ~ListKind
  BY <1>3, <1>7 DEF Run, ListKindFails, Keep, DetermineFails, Select, Decline, AcceptDryRun,
                    Accept, DeleteSucceeds, DeleteFails, DeleteReplyLost, RunFailed, RunSucceeded,
                    StartWaiting, WaitReturns
<1>8. CASE Others \/ Terminated \/ UNCHANGED vars
  BY <1>3, <1>8 DEF Others, Create, Remove, ChangeStatus, ChangeReference, OthersStep, Signal,
                    Terminated
<1>9. QED
  BY <1>1, <1>4, <1>5, <1>6, <1>7, <1>8 DEF Next, Program

LEMMA CurStep == IInv /\ [Next]_vars => CurMayGo'
<1>1. SUFFICES ASSUME IInv, [Next]_vars PROVE CurMayGo'
  OBVIOUS
<1>2. ASSUME pc \in {"confirm", "delete"}, cur' = cur PROVE CurMayGo'
  BY <1>1, <1>2, InUseShrinks DEF IInv, CurMayGo
<1>3. ASSUME pc' \notin {"confirm", "delete"} PROVE CurMayGo'
  BY <1>3 DEF CurMayGo
<1>4. ASSUME NEW info \in batch, Select(info) PROVE CurMayGo'
  <2>1. info.obj \in Objects /\ info.busy \in BOOLEAN /\ pc = "visit"
    BY <1>1, <1>4 DEF IInv, TypeOK, Select
  <2>2. ~InUseThroughout(info.obj)
    BY <1>1, <1>4, <2>1, SelectsIdle DEF IInv, ListedStatus, UntouchedIsAnnounced, Noticed, Select
  <2>3. cur' = info.obj
    BY <1>4 DEF Select
  <2>4. QED
    BY <1>1, <2>1, <2>2, <2>3, InUseShrinks DEF IInv, CurMayGo
<1>5. CASE Accept
  BY <1>2, <1>5 DEF Accept
<1>6. CASE Complete
  BY <1>3, <1>6 DEF Complete, PreflightSkipped, PreflightAllowed, PreflightMissing,
                    PreflightBroken, LeavePreflight
<1>7. CASE New
  BY <1>3, <1>7 DEF New, SurveyKind, SurveyListFails, SurveyFailed, StartCollecting, ListSource,
                    NextSource, ListSourceFails, StartVisiting
<1>8. CASE Run /\ ~Accept /\ \A info \in batch : ~Select(info)
  BY <1>3, <1>8 DEF Run, ListKind, ListKindFails, Keep, DetermineFails, Decline, AcceptDryRun,
                    DeleteSucceeds, DeleteFails, DeleteReplyLost, RunFailed, RunSucceeded,
                    StartWaiting, WaitReturns, Visited, Idle
<1>9. CASE Others \/ Terminated \/ UNCHANGED vars
  <2>1. UNCHANGED <<pc, cur>>
    BY <1>9 DEF Others, Create, Remove, ChangeStatus, ChangeReference, OthersStep, Signal,
                Terminated
  <2>2. QED
    BY <1>2, <1>3, <2>1
<1>10. QED
  BY <1>1, <1>4, <1>5, <1>6, <1>7, <1>8, <1>9 DEF Next, Program

LEMMA SurvivesStep == IInv /\ [Next]_vars => InUseThroughoutSurvives'
<1>1. SUFFICES ASSUME IInv, [Next]_vars PROVE InUseThroughoutSurvives'
  OBVIOUS
<1>2. \/ deleted' = deleted
      \/ pc = "delete" /\ deleted' \subseteq deleted \cup {cur}
  <2>1. CASE Complete \/ Terminated \/ UNCHANGED vars
    BY <2>1 DEF Complete, PreflightSkipped, PreflightAllowed, PreflightMissing, PreflightBroken,
                LeavePreflight, Terminated
  <2>2. CASE New
    BY <2>2 DEF New, SurveyKind, SurveyListFails, SurveyFailed, StartCollecting, ListSource,
                ListSourceFails, StartVisiting
  <2>3. CASE Run
    BY <2>3 DEF Run, ListKind, ListKindFails, Keep, DetermineFails, Select, Decline, AcceptDryRun,
                Accept, DeleteSucceeds, DeleteFails, DeleteReplyLost, Removed, RunFailed,
                RunSucceeded, StartWaiting, WaitReturns
  <2>4. CASE Others
    BY <2>4 DEF Others, Create, Remove, ChangeStatus, ChangeReference, OthersStep, Signal
  <2>5. QED
    BY <1>1, <2>1, <2>2, <2>3, <2>4 DEF Next, Program
<1>3. CASE pc = "survey"
  <2>1. deleted' = {}
    BY <1>1, <1>2, <1>3 DEF IInv, AllListedBeforeVisit
  <2>2. QED
    BY <2>1 DEF InUseThroughoutSurvives
<1>4. CASE pc # "survey"
  <2>1. \A o \in deleted' : ~InUseThroughout(o)
    BY <1>1, <1>2 DEF IInv, InUseThroughoutSurvives, CurMayGo
  <2>2. QED
    BY <1>1, <1>4, <2>1, InUseShrinks DEF IInv, InUseThroughoutSurvives
<1>5. QED
  BY <1>3, <1>4

LEMMA StepInv == IInv /\ [Next]_vars => IInv'
BY StepType, KnownStep, ListedBeforeVisitStep, ListedStatusStep, OnlyAskedForStep, SurveyStep,
   AnnouncedStep, CurStep, SurvivesStep DEF IInv

\* Whatever was in use from the beginning of a run on is not deleted by it,
\* although the run reads the cluster source by source while others change
\* it (New, collectReferences, DetermineDeletion and Run together).
THEOREM UseIsRespected == Spec => []InUseThroughoutSurvives
<1>1. IInv => InUseThroughoutSurvives
  BY DEF IInv
<1>2. QED
  BY InitInv, StepInv, <1>1, PTL DEF Spec

\* What the README says of claimed volumes holds of a run in all namespaces:
\* only claims of other namespaces go unseen (collectReferences).
THEOREM ClaimsAreSeenEverywhere ==
  Spec => [](opts.namespace = AllNamespaces => ClaimedVolumeSurvives)
<1>1. ASSUME InUseThroughoutSurvives, opts.namespace = AllNamespaces PROVE ClaimedVolumeSurvives
  <2>1. SUFFICES ASSUME NEW o \in deleted, o.kind = "PersistentVolume", Noticed(o),
                        NEW e \in Steady, e.source = "persistentVolumeClaims", Points(e, o)
                 PROVE  FALSE
    BY DEF ClaimedVolumeSurvives
  <2>2. "persistentVolumeClaims" \in ScannedFor(o.kind) \ Unserved
    BY <2>1, UnservedAssumption DEF ScannedFor, DocumentedFor, OptionalSources
  <2>3. e \notin Irregular
    BY <2>1, IrregularAssumption
  <2>4. QED
    BY <1>1, <2>1, <2>2, <2>3 DEF InUseThroughoutSurvives, InUseThroughout, HeldBy, InScope
<1>2. QED
  BY <1>1, UseIsRespected, PTL

\* What it says of workload templates holds of a run that found ConfigMaps or
\* Secrets to look after: the templates are listed for them, and then serve
\* every kind (New, detectUsed).
THEOREM TemplatesAreSeenForOthers ==
  Spec => [](reap \cap {"ConfigMap", "Secret"} # {} => TemplateUseSurvives)
<1>1. ASSUME InUseThroughoutSurvives, reap \cap {"ConfigMap", "Secret"} # {}
      PROVE  TemplateUseSurvives
  BY <1>1 DEF InUseThroughoutSurvives, InUseThroughout, TemplateUseSurvives, ScannedFor
<1>2. QED
  BY <1>1, UseIsRespected, PTL

-----------------------------------------------------------------------------
(* What the run reports, and what success means.                           *)

\* Between Accept and the reply, the candidate in hand is accepted and not
\* yet deleted; an error is never forgotten.
Pending == IF pc = "delete" THEN {cur} ELSE {}

\* The run deletes: it is no dry run, or a quiet one on the client.
Deletes == opts.dryRun # "server" /\ ~PrintOnly

OutcomeInv ==
  /\ TypeOK
  /\ pc = "delete" => ~PrintOnly /\ cur \in deletedInfos
  /\ pc \in {"wait", "succeeded"} => ~errs
  /\ ~Deletes => deleted = {}
  /\ Deletes /\ ~errs => deletedInfos \subseteq deleted \cup Pending
  /\ Deletes => printed \subseteq deleted
  /\ printed \subseteq deletedInfos
  /\ ~errs /\ ~opts.quiet => deletedInfos \subseteq printed \cup Pending

LEMMA InitOutcome == Init => OutcomeInv
BY InitType DEF Init, OutcomeInv, Deletes, PrintOnly, Pending

LEMMA OutcomeStep == OutcomeInv /\ [Next]_vars => OutcomeInv'
<1>1. SUFFICES ASSUME OutcomeInv, [Next]_vars PROVE OutcomeInv'
  OBVIOUS
<1>2. TypeOK /\ TypeOK' /\ opts' = opts
  BY <1>1, StepType, UseShrinks DEF OutcomeInv
\* A step that accepts, deletes and reports nothing.
<1>3. ASSUME UNCHANGED outcome, errs => errs', pc # "delete" /\ pc' # "delete",
             pc' \in {"wait", "succeeded"} => ~errs'
      PROVE  OutcomeInv'
  BY <1>1, <1>2, <1>3 DEF OutcomeInv, Deletes, PrintOnly, Pending
<1>4. CASE Complete
  BY <1>3, <1>4 DEF Complete, PreflightSkipped, PreflightAllowed, PreflightMissing,
                    PreflightBroken, LeavePreflight
<1>5. CASE New
  BY <1>3, <1>5 DEF New, SurveyKind, SurveyListFails, SurveyFailed, StartCollecting, ListSource,
                    NextSource, ListSourceFails, StartVisiting
<1>6. CASE Run
  <2>1. CASE ListKind \/ ListKindFails \/ Decline
    BY <1>3, <2>1 DEF ListKind, ListKindFails, Idle, Decline
  <2>2. ASSUME NEW info \in batch, Keep(info) \/ DetermineFails(info) \/ Select(info)
        PROVE  OutcomeInv'
    BY <1>3, <2>2 DEF Keep, DetermineFails, Select
  <2>3. CASE AcceptDryRun
    BY <1>1, <1>2, <2>3 DEF AcceptDryRun, OutcomeInv, Deletes, PrintOnly, Pending
  <2>4. CASE Accept
    BY <1>1, <1>2, <2>4 DEF Accept, OutcomeInv, Deletes, PrintOnly, Pending
  <2>5. CASE DeleteSucceeds
    BY <1>1, <1>2, <2>5, OptionTypes
       DEF DeleteSucceeds, Removed, OutcomeInv, Deletes, PrintOnly, Pending
  <2>6. CASE DeleteFails \/ DeleteReplyLost
    BY <1>1, <1>2, <2>6, OptionTypes
       DEF DeleteFails, DeleteReplyLost, Removed, OutcomeInv,
           Deletes, PrintOnly, Pending
  <2>7. CASE RunFailed \/ RunSucceeded \/ StartWaiting
    BY <1>3, <2>7 DEF RunFailed, RunSucceeded, NothingToWaitFor, StartWaiting, Visited, Idle
  <2>8. CASE WaitReturns
    BY <1>1, <1>3, <2>8 DEF WaitReturns, OutcomeInv
  <2>9. QED
    BY <1>6, <2>1, <2>2, <2>3, <2>4, <2>5, <2>6, <2>7, <2>8 DEF Run
<1>7. CASE Others \/ Terminated \/ UNCHANGED vars
  <2>1. UNCHANGED <<pc, cur, errs, outcome>>
    BY <1>7 DEF Others, Create, Remove, ChangeStatus, ChangeReference, OthersStep, Signal,
                Terminated
  <2>2. QED
    BY <1>1, <1>2, <2>1 DEF OutcomeInv, Deletes, PrintOnly, Pending
<1>8. QED
  BY <1>1, <1>4, <1>5, <1>6, <1>7 DEF Next, Program

\* A run that succeeds has deleted every object it accepted, and --wait never
\* waits for an object whose deletion failed (Run, waitDeletion).
THEOREM SuccessIsHonest == Spec => []SuccessMeansDeleted
<1>1. OutcomeInv => SuccessMeansDeleted
  BY DEF OutcomeInv, SuccessMeansDeleted, Deletes, PrintOnly, Pending
<1>2. QED
  BY InitOutcome, OutcomeStep, <1>1, PTL DEF Spec

\* A real run reports what it deleted and a dry run what it would have: nothing
\* else, and if it succeeds and is not quiet, all of it (Run).
THEOREM ReportsAreHonest == Spec => []ReportsAreTrue
<1>1. OutcomeInv => ReportsAreTrue
  BY DEF OutcomeInv, ReportsAreTrue, Deletes, PrintOnly, Pending
<1>2. QED
  BY InitOutcome, OutcomeStep, <1>1, PTL DEF Spec

\* A dry run deletes nothing, unless it is a quiet one on the client (Run).
THEOREM DryRunIsDry == Spec => []OnlyQuietDryRunDeletes
<1>1. OutcomeInv => OnlyQuietDryRunDeletes
  BY DEF OutcomeInv, OnlyQuietDryRunDeletes, Deletes, PrintOnly
<1>2. QED
  BY InitOutcome, OutcomeStep, <1>1, PTL DEF Spec

-----------------------------------------------------------------------------
(* What nobody ever used is reaped, or previewed.                          *)

\* Idle since the beginning of the run, and untouched.
Idlers == live \ (touched \cup busy \cup Exempt)

\* A dry run has accepted o.
Previewed(o) == opts.dryRun # "none" /\ o \in deletedInfos

\* The run is to reap o.
Due(o) ==
  /\ o \in Idlers /\ AskedFor(o) /\ ~Previewed(o)
  /\ \A e \in Ever : ~Points(e, o)

\* And has not come to it yet.
Ahead(o) ==
  \/ \E i \in DOMAIN todo : todo[i] = o.kind
  \/ \E info \in batch : info.obj = o /\ ~info.busy
  \/ pc \in {"confirm", "delete"} /\ cur = o

Thorough == ~opts.interactive

ReapInv ==
  /\ OutcomeInv
  /\ known \subseteq Ever
  /\ pc \in {"wait", "succeeded"} => ~errs /\ todo = <<>> /\ batch = {}
  /\ Thorough /\ ~errs /\ pc \in {"visit", "confirm", "delete", "wait", "succeeded"} =>
       \A o \in Objects : Due(o) => Ahead(o)

LEMMA InitReap == Init => ReapInv
BY InitOutcome DEF Init, ReapInv

\* Nothing becomes due during the run, and what is known was true once.
LEMMA DueShrinks ==
  ASSUME TypeOK, known \subseteq Ever, [Next]_vars
  PROVE  /\ Ever \subseteq Ever' /\ known' \subseteq Ever' /\ opts' = opts
         /\ Idlers' \subseteq Idlers /\ deletedInfos \subseteq deletedInfos'
         /\ \A o : Due(o)' => Due(o)
<1>1. /\ Ever \subseteq Ever' /\ known' \subseteq Ever' /\ opts' = opts
      /\ Idlers' \subseteq Idlers /\ deletedInfos \subseteq deletedInfos'
  <2>1. CASE Complete \/ Terminated \/ UNCHANGED vars
    BY <2>1 DEF Complete, PreflightSkipped, PreflightAllowed, PreflightMissing, PreflightBroken,
                LeavePreflight, Terminated, Ever, Idlers
  <2>2. CASE New
    BY <2>2 DEF New, SurveyKind, SurveyListFails, SurveyFailed, StartCollecting, ListSource,
                ListSourceFails, StartVisiting, Ever, Idlers
  <2>3. CASE Run
    BY <2>3 DEF Run, ListKind, ListKindFails, Keep, DetermineFails, Select, Decline, AcceptDryRun,
                Accept, DeleteSucceeds, DeleteFails, DeleteReplyLost, RunFailed, RunSucceeded,
                StartWaiting, WaitReturns, Ever, Idlers
  <2>4. CASE Others
    BY <2>4 DEF Others, Create, Remove, ChangeStatus, ChangeReference, OthersStep, Signal, Ever,
                Idlers
  <2>5. QED
    BY <2>1, <2>2, <2>3, <2>4 DEF Next, Program
<1>2. ASSUME NEW o, Due(o)' PROVE Due(o)
  BY <1>1, <1>2 DEF Due, Previewed, AskedFor, InScope, Spared, Points
<1>3. QED
  BY <1>1, <1>2

LEMMA ReapStep == ReapInv /\ [Next]_vars => ReapInv'
<1>1. SUFFICES ASSUME ReapInv, [Next]_vars PROVE ReapInv'
  OBVIOUS
<1>2. /\ OutcomeInv' /\ TypeOK /\ TypeOK' /\ known' \subseteq Ever' /\ opts' = opts
      /\ \A o : Due(o)' => Due(o)
  BY <1>1, OutcomeStep, DueShrinks DEF ReapInv, OutcomeInv
\* It is enough that nothing due drops out of sight.
<1>3. ASSUME pc' \in {"wait", "succeeded"} => ~errs' /\ todo' = <<>> /\ batch' = {},
             ASSUME Thorough, ~errs', pc' \in {"visit", "confirm", "delete", "wait", "succeeded"},
                    NEW o \in Objects, Due(o), Due(o)'
             PROVE  Ahead(o)'
      PROVE  ReapInv'
  BY <1>2, <1>3 DEF ReapInv, Thorough
\* Nothing due drops out of sight in a step that keeps it in hand.
<1>4. ASSUME UNCHANGED <<todo, batch, cur>>, errs => errs',
             pc \in {"visit", "confirm", "delete", "wait", "succeeded"},
             pc \in {"confirm", "delete"} => pc' \in {"confirm", "delete", "failed"},
             NEW o \in Objects, Due(o), Thorough, ~errs', pc' # "failed"
      PROVE  Ahead(o)'
  BY <1>1, <1>4 DEF ReapInv, Ahead
<1>5. CASE Complete
  BY <1>3, <1>5 DEF Complete, PreflightSkipped, PreflightAllowed, PreflightMissing,
                    PreflightBroken, LeavePreflight
<1>6. CASE New
  <2>1. CASE StartVisiting
    BY <1>3, <2>1 DEF StartVisiting, Due, AskedFor, Ahead
  <2>2. CASE New /\ ~StartVisiting
    BY <1>3, <2>2 DEF New, SurveyKind, SurveyListFails, SurveyFailed, StartCollecting, ListSource,
                      NextSource, ListSourceFails
  <2>3. QED
    BY <1>6, <2>1, <2>2
<1>7. CASE Run
  <2>1. CASE ListKind
    <3>1. pc' \notin {"wait", "succeeded"}
      BY <2>1 DEF ListKind, Idle
    <3>2. ASSUME NEW o \in Objects, Due(o), Thorough, ~errs' PROVE Ahead(o)'
      <4>1. PICK i \in DOMAIN todo : todo[i] = o.kind
        BY <1>1, <2>1, <3>2 DEF ReapInv, Ahead, ListKind, Idle
      <4>2. CASE i = 1
        <5>1. o \in Listing(Head(todo)) /\ o \notin busy
          BY <1>2, <2>1, <3>2, <4>1, <4>2
             DEF Due, Idlers, AskedFor, Listing, ListKind, TypeOK
        <5>2. [obj |-> o, busy |-> FALSE] \in batch'
          <6>1. (o \in busy) = FALSE
            BY <5>1
          <6>2. [obj |-> o, busy |-> o \in busy] \in batch'
            BY <2>1, <5>1, Zenon DEF ListKind
          <6>3. QED
            BY <6>1, <6>2, Zenon
        <5>3. QED
          BY <5>2 DEF Ahead
      <4>3. CASE i # 1
        <5>1. i - 1 \in DOMAIN todo' /\ todo'[i - 1] = o.kind
          BY <1>2, <2>1, <4>1, <4>3 DEF ListKind, TypeOK
        <5>2. QED
          BY <5>1 DEF Ahead
      <4>4. QED
        BY <4>2, <4>3
    <3>3. QED
      BY <1>3, <3>1, <3>2
  <2>2. CASE ListKindFails
    BY <1>3, <2>2 DEF ListKindFails, Idle
  <2>3. ASSUME NEW info \in batch, DetermineFails(info) PROVE ReapInv'
    BY <1>3, <2>3 DEF DetermineFails
  <2>4. ASSUME NEW info \in batch, Keep(info) PROVE ReapInv'
    <3>1. ASSUME NEW o \in Objects, Due(o), Thorough, ~errs' PROVE Ahead(o)'
      <4>1. info.obj # o \/ info.busy
        <5>1. ASSUME info.obj = o, ~info.busy PROVE FALSE
          <6>1. ~Spared(o) /\ o \notin Exempt /\ \A e \in Ever : ~Points(e, o)
            BY <3>1 DEF Due, AskedFor, Idlers
          <6>2. ~ReferenceFound(o) /\ ~ScaleTargetFound(o)
            BY <1>1, <6>1 DEF ReapInv, ReferenceFound, ScaleTargetFound, Ever
          <6>3. Decides(o)
            BY <2>4, <5>1, <6>1 DEF Keep, Spared
          <6>4. DetermineDeletion(o, info.busy)
            BY <5>1, <6>1, <6>2, <6>3 DEF DetermineDeletion, Decides, Lookup
          <6>5. QED
            BY <2>4, <5>1, <6>1, <6>4 DEF Keep, Spared
        <5>2. QED
          BY <5>1
      <4>2. Ahead(o)
        BY <1>1, <2>4, <3>1 DEF ReapInv, Keep
      <4>3. QED
        BY <2>4, <4>1, <4>2 DEF Ahead, Keep
    <3>2. QED
      BY <1>3, <2>4, <3>1 DEF Keep
  <2>5. ASSUME NEW info \in batch, Select(info) PROVE ReapInv'
    <3>1. ASSUME NEW o \in Objects, Due(o), Thorough, ~errs' PROVE Ahead(o)'
      BY <1>1, <2>5, <3>1 DEF ReapInv, Select, Ahead
    <3>2. QED
      BY <1>3, <2>5, <3>1 DEF Select
  <2>6. CASE Decline \/ AcceptDryRun
    <3>1. ASSUME NEW o \in Objects, Due(o), Due(o)', Thorough PROVE AcceptDryRun /\ o # cur
      BY <1>2, <2>6, <3>1 DEF Decline, AcceptDryRun, PrintOnly, Thorough, Due, Previewed
    <3>2. ASSUME NEW o \in Objects, Due(o), Due(o)', Thorough, ~errs' PROVE Ahead(o)'
      BY <1>1, <2>6, <3>1, <3>2 DEF ReapInv, AcceptDryRun, Ahead
    <3>3. QED
      BY <1>3, <2>6, <3>2 DEF Decline, AcceptDryRun
  <2>7. CASE Accept
    BY <1>3, <1>4, <2>7 DEF Accept
  <2>8. CASE DeleteSucceeds
    <3>1. ASSUME NEW o \in Objects, Due(o), Due(o)', Thorough, ~errs' PROVE Ahead(o)'
      <4>1. o # cur
        BY <1>1, <2>8, <3>1
           DEF DeleteSucceeds, Removed, Due, Previewed, Idlers, ReapInv, OutcomeInv
      <4>2. QED
        BY <1>1, <2>8, <3>1, <4>1 DEF ReapInv, DeleteSucceeds, Ahead
    <3>2. QED
      BY <1>3, <2>8, <3>1 DEF DeleteSucceeds
  <2>9. CASE DeleteFails \/ DeleteReplyLost
    BY <1>3, <2>9 DEF DeleteFails, DeleteReplyLost
  <2>10. CASE RunFailed \/ RunSucceeded \/ StartWaiting
    BY <1>3, <1>4, <2>10 DEF RunFailed, RunSucceeded, NothingToWaitFor, StartWaiting, Visited, Idle
  <2>11. CASE WaitReturns
    BY <1>1, <1>3, <1>4, <2>11 DEF WaitReturns, ReapInv
  <2>12. QED
    BY <1>7, <2>1, <2>2, <2>3, <2>4, <2>5, <2>6, <2>7, <2>8, <2>9, <2>10, <2>11 DEF Run
<1>8. CASE Others \/ Terminated \/ UNCHANGED vars
  <2>1. UNCHANGED <<pc, todo, batch, cur, errs>>
    BY <1>8 DEF Others, Create, Remove, ChangeStatus, ChangeReference, OthersStep, Signal,
                Terminated
  <2>2. QED
    BY <1>1, <1>3, <1>4, <2>1 DEF ReapInv
<1>9. QED
  BY <1>1, <1>5, <1>6, <1>7, <1>8 DEF Next, Program

\* When a run succeeds, nothing is left that it was to reap: an object that
\* nobody used since the run began; a dry run has accepted it (New,
\* collectReferences, Run).
THEOREM ReapIsThorough == Spec => []NeverUsedIsReaped
<1>1. ReapInv => NeverUsedIsReaped
  <2>1. SUFFICES ASSUME ReapInv, pc = "succeeded", Thorough, NEW o \in Idlers, Due(o) PROVE FALSE
    BY DEF NeverUsedIsReaped, Thorough, Idlers, Due, Previewed
  <2>2. o \in Objects /\ ~errs /\ todo = <<>> /\ batch = {}
    BY <2>1 DEF ReapInv, OutcomeInv, TypeOK, Idlers
  <2>3. QED
    BY <2>1, <2>2 DEF ReapInv, Ahead
<1>2. QED
  BY InitReap, ReapStep, <1>1, PTL DEF Spec

-----------------------------------------------------------------------------
(* The run goes forward.                                                   *)

\* The phases in their order, and the way of one candidate.
LEMMA PhaseValues ==
  /\ pc = "preflight" => Phase = 0
  /\ pc = "survey" => Phase = 1
  /\ pc = "collect" => Phase = 2
  /\ pc \in {"visit", "confirm", "delete"} => Phase = 3
  /\ pc = "wait" => Phase = 4
  /\ pc \in Ended => Phase = 5
BY DEF Phase, Ended

LEMMA NextPhaseValues ==
  /\ pc' = "preflight" => Phase' = 0
  /\ pc' = "survey" => Phase' = 1
  /\ pc' = "collect" => Phase' = 2
  /\ pc' \in {"visit", "confirm", "delete"} => Phase' = 3
  /\ pc' = "wait" => Phase' = 4
  /\ pc' \in Ended => Phase' = 5
BY DEF Phase, Ended

\* A run never comes back to where it was: it takes a bounded number of steps,
\* whatever fails and whatever others do (New, collectReferences, Run).
THEOREM RunGoesForward == Spec => RunAdvances
<1>1. ASSUME TypeOK, [Next]_vars, ~UNCHANGED <<pc, todo, unread, batch>>
      PROVE  \/ Phase < Phase'
             \/ /\ Phase = Phase'
                /\ \/ Len(todo') < Len(todo)
                   \/ todo' = todo /\ unread' \subseteq unread /\ unread' # unread
                   \/ /\ todo' = todo /\ unread' = unread
                      /\ \/ batch' \subseteq batch /\ batch' # batch
                         \/ batch' = batch /\ Handling' < Handling
  <2>1. ASSUME todo # <<>>, todo' = Tail(todo) PROVE Len(todo') < Len(todo)
    BY <1>1, <2>1 DEF TypeOK
  <2>2. CASE Complete
    BY <2>2, PhaseValues, NextPhaseValues
       DEF Complete, PreflightSkipped, PreflightAllowed, PreflightMissing, PreflightBroken,
           LeavePreflight, Ended
  <2>3. CASE New
    <3>1. CASE SurveyKind \/ SurveyListFails
      BY <2>1, <3>1, PhaseValues, NextPhaseValues DEF SurveyKind, SurveyListFails
    <3>2. CASE SurveyFailed \/ StartCollecting \/ ListSourceFails \/ StartVisiting
      BY <3>2, PhaseValues, NextPhaseValues
         DEF SurveyFailed, StartCollecting, ListSourceFails, StartVisiting, Ended
    <3>3. ASSUME NEW s \in ListedSources, ListSource(s)
          PROVE  Phase' = Phase /\ todo' = todo /\ unread' \subseteq unread /\ unread' # unread
      BY <3>3, PhaseValues, NextPhaseValues DEF ListSource, NextSource
    <3>4. QED
      BY <2>3, <3>1, <3>2, <3>3 DEF New
  <2>4. CASE Run
    <3>1. CASE ListKind \/ ListKindFails
      BY <2>1, <3>1, PhaseValues, NextPhaseValues DEF ListKind, ListKindFails, Idle
    <3>2. ASSUME NEW info \in batch, Keep(info) \/ DetermineFails(info) \/ Select(info)
          PROVE  /\ Phase' = Phase /\ todo' = todo /\ unread' = unread
                 /\ batch' \subseteq batch /\ batch' # batch
      BY <3>2, PhaseValues, NextPhaseValues DEF Keep, DetermineFails, Select
    <3>3. CASE Decline \/ AcceptDryRun \/ Accept
      BY <3>3, PhaseValues, NextPhaseValues DEF Decline, AcceptDryRun, Accept, Handling
    <3>4. CASE DeleteSucceeds \/ DeleteFails \/ DeleteReplyLost
      BY <3>4, PhaseValues, NextPhaseValues
         DEF DeleteSucceeds, DeleteFails, DeleteReplyLost, Handling
    <3>5. CASE RunFailed \/ RunSucceeded \/ StartWaiting \/ WaitReturns
      BY <3>5, PhaseValues, NextPhaseValues
         DEF RunFailed, RunSucceeded, StartWaiting, WaitReturns, Visited, Idle, Ended
    <3>6. QED
      BY <2>4, <3>1, <3>2, <3>3, <3>4, <3>5 DEF Run
  <2>5. CASE Others \/ Terminated \/ UNCHANGED vars
    BY <1>1, <2>5 DEF Others, Create, Remove, ChangeStatus, ChangeReference, OthersStep, Signal,
                      Terminated
  <2>6. QED
    BY <1>1, <2>2, <2>3, <2>4, <2>5 DEF Next, Program
<1>2. QED
  BY <1>1, TypeCorrect, PTL DEF RunAdvances, Spec
=============================================================================
