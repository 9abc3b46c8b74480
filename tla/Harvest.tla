------------------------------- MODULE Harvest -------------------------------
(***************************************************************************)
(* One run of kubectl-harvest against a cluster that other clients keep    *)
(* changing.  The run is sequential (pkg/cmd/cmd.go): RBAC pre-flight, a   *)
(* first listing of the candidates that finds out which kinds there are    *)
(* (determiner.New), the listing of the reference sources those kinds need *)
(* (collectReferences), then a second listing of the candidates, decided   *)
(* and deleted one by one (runner.Run).  Every API request is a step of    *)
(* its own, so the cluster can change between any two of them.             *)
(*                                                                         *)
(* A reference is an edge from an object of a source to a candidate: a Pod *)
(* or template that mounts a ConfigMap, Secret or claim; one that a        *)
(* PodDisruptionBudget or NetworkPolicy selects; a claim that a volume     *)
(* satisfies; a Deployment for which a ReplicaSet is a revision to keep; a *)
(* scale target that an autoscaler names.                                  *)
(***************************************************************************)
EXTENDS HarvestKinds, Sequences

CONSTANTS
  Objects,       \* the candidates: records of kind, namespace and name
  Edges,         \* the references that can exist among them
  Configs,       \* the command lines: kinds, namespace and flags
  Exempt,        \* token Secrets and kube-root-ca.crt ConfigMaps
  Controlled,    \* Pods with a controller owner
  Satisfying,    \* which claims (edges) are satisfied by which volumes
  Irregular,     \* scale targets of kinds whose plural is not the one guessed
  Unserved,      \* optional sources this API server does not serve
  MaxTicks,      \* bound on the changes made by others during the run
  NoObject       \* no candidate in hand

KubeSystem == "kube-system"
AllNamespaces == ""     \* metav1.NamespaceAll; also a volume's namespace

\* The command line: resource types, --namespace or --all-namespaces, the
\* flags that steer the run, and what the cluster's RBAC grants its user.
Options ==
  [kinds: Seq(Kinds), namespace: STRING,
   dryRun: {"none", "client", "server"}, quiet: BOOLEAN,
   interactive: BOOLEAN, wait: BOOLEAN, skipControllerOwned: BOOLEAN,
   authorized: BOOLEAN]

ASSUME ConfigsAssumption == Configs \subseteq Options
ASSUME ObjectsAssumption ==
  /\ Objects \subseteq [kind: Kinds, ns: STRING, name: STRING]
  /\ NoObject \notin Objects
ASSUME EdgesAssumption ==
  Edges \subseteq [kind: Kinds, ns: STRING, name: STRING, source: Sources]
ASSUME SatisfyingAssumption == Satisfying \subseteq Edges \X Objects
ASSUME IrregularAssumption == Irregular \subseteq {e \in Edges : e.source = "scaleTargets"}
ASSUME ExemptAssumption == Exempt \subseteq Objects
ASSUME UnservedAssumption == Unserved \subseteq OptionalSources
ASSUME MaxTicksAssumption == MaxTicks \in Nat

VARIABLES
  live, busy, refs,         \* the cluster (external)
  touched, changed, ticks,  \* what others changed since the run began
  opts,                     \* the command line
  cancelled,                \* SIGINT or SIGTERM was handled
  pc,                       \* where the run is
  todo,                     \* resource types the current Visit has yet to list
  reap,                     \* the reap flags of New
  unread, known,            \* reference sources to list; edges listed
  batch,                    \* candidates listed and not yet visited
  cur,                      \* the candidate in hand
  errs,                     \* the current Visit has collected an error
  deletedInfos,             \* candidates accepted for deletion
  deleted, printed          \* objects removed by the run; objects reported

world == <<live, busy, refs, touched, changed, ticks>>
determiner == <<reap, unread, known>>
outcome == <<deletedInfos, deleted, printed>>
run == <<opts, cancelled, pc, todo, determiner, batch, cur, errs, outcome>>
vars == <<world, run>>

Ended == {"succeeded", "failed"}

InScope(ns) == opts.namespace = AllNamespaces \/ ns \in {AllNamespaces, opts.namespace}

\* Does reference e protect candidate o?  Names are compared within the
\* referrer's namespace; a claim bears its own name, and protects every volume
\* that satisfies it.
Points(e, o) ==
  /\ e.kind = o.kind
  /\ IF o.kind = "PersistentVolume"
     THEN <<e, o>> \in Satisfying
     ELSE e.name = o.name /\ e.ns = o.ns

Listing(kind) == {o \in live : o.kind = kind /\ InScope(o.ns)}
-----------------------------------------------------------------------------
Init ==
  /\ live \in SUBSET Objects
  /\ busy \in SUBSET {o \in Objects : o.kind \in {"Pod", "Job", "ReplicaSet", "PersistentVolume"}}
  /\ refs \in SUBSET Edges
  /\ touched = {} /\ changed = {} /\ ticks = 0
  /\ opts \in Configs
  /\ cancelled = FALSE
  /\ pc = "preflight"
  /\ todo = opts.kinds
  /\ reap = {} /\ unread = {} /\ known = {}
  /\ batch = {} /\ cur = NoObject
  /\ errs = FALSE
  /\ deletedInfos = {} /\ deleted = {} /\ printed = {}

-----------------------------------------------------------------------------
(* Complete: the RBAC pre-flight check.                                    *)

AnySupported == \E i \in DOMAIN opts.kinds : opts.kinds[i] \in SupportedKinds

LeavePreflight(next) ==
  /\ pc = "preflight"
  /\ pc' = next
  /\ UNCHANGED <<world, opts, cancelled, todo, determiner, batch, cur, errs, outcome>>

\* No argument resolves to a supported kind: there is nothing to check. (When
\* that is because a category stands for the kinds, the run goes on unchecked
\* too, as after PreflightBroken; module Preflight tells the two apart.)
PreflightSkipped == ~AnySupported /\ LeavePreflight("survey")

PreflightAllowed ==
  AnySupported /\ ~cancelled /\ opts.authorized /\ LeavePreflight("survey")

PreflightMissing ==
  AnySupported /\ ~cancelled /\ ~opts.authorized /\ LeavePreflight("failed")

\* A review could not be created: the API call failed, or its context was
\* cancelled.  The run warns and goes on.
PreflightBroken == AnySupported /\ LeavePreflight("survey")

-----------------------------------------------------------------------------
(* determiner.New: the first Visit sets the reap flags.                    *)

\* Fault: a flag for whatever kind is listed.
SurveyKindAnyFlag ==
  /\ pc = "survey" /\ todo # <<>>
  /\ todo' = Tail(todo)
  /\ reap' = reap \cup {k \in {Head(todo)} : Listing(k) # {}}
  /\ UNCHANGED <<world, opts, cancelled, pc, unread, known, batch, cur, errs, outcome>>

SurveyKind ==
  /\ pc = "survey" /\ todo # <<>>
  /\ todo' = Tail(todo)
  /\ reap' = reap \cup {k \in {Head(todo)} \cap FlaggedKinds : Listing(k) # {}}
  /\ UNCHANGED <<world, opts, cancelled, pc, unread, known, batch, cur, errs, outcome>>

\* ContinueOnError: the other resource types are still visited.
SurveyListFails ==
  /\ pc = "survey" /\ todo # <<>>
  /\ todo' = Tail(todo)
  /\ errs' = TRUE
  /\ UNCHANGED <<world, opts, cancelled, pc, determiner, batch, cur, outcome>>

SurveyFailed ==
  /\ pc = "survey" /\ todo = <<>> /\ errs
  /\ pc' = "failed"
  /\ UNCHANGED <<world, opts, cancelled, todo, determiner, batch, cur, errs, outcome>>

\* Fault: an error of the first Visit is left to the second.
StartCollectingDespiteErrors ==
  /\ pc = "survey" /\ todo = <<>>
  /\ pc' = "collect"
  /\ unread' = Needs(reap)
  /\ UNCHANGED <<world, opts, cancelled, todo, reap, known, batch, cur, errs, outcome>>

StartCollecting ==
  /\ pc = "survey" /\ todo = <<>> /\ ~errs
  /\ pc' = "collect"
  /\ unread' = Needs(reap)
  /\ UNCHANGED <<world, opts, cancelled, todo, reap, known, batch, cur, errs, outcome>>

-----------------------------------------------------------------------------
(* collectReferences: one list call after the other, in a fixed order and  *)
(* under a context that is never cancelled.                                *)

NextSource(s) ==
  /\ pc = "collect"
  /\ s \in unread
  /\ \A t \in unread : ListOrder[s] <= ListOrder[t]

\* An optional source that is not served is read as empty.
ListSource(s) ==
  /\ NextSource(s)
  /\ unread' = unread \ {s}
  /\ known' = known \cup {e \in refs : e.source = s /\ s \notin Unserved /\ InScope(e.ns)}
  /\ UNCHANGED <<world, opts, cancelled, pc, todo, reap, batch, cur, errs, outcome>>

ListSourceFails ==
  /\ pc = "collect" /\ unread # {}
  /\ pc' = "failed"
  /\ UNCHANGED <<world, opts, cancelled, todo, determiner, batch, cur, errs, outcome>>

\* Fault: a list call is still under way when the used maps are computed.
StartVisitingEarly ==
  /\ pc = "collect"
  /\ pc' = "visit"
  /\ todo' = opts.kinds
  /\ UNCHANGED <<world, opts, cancelled, determiner, batch, cur, errs, outcome>>

\* The used maps are computed from the edges listed; Run lists again.
StartVisiting ==
  /\ pc = "collect" /\ unread = {}
  /\ pc' = "visit"
  /\ todo' = opts.kinds
  /\ UNCHANGED <<world, opts, cancelled, determiner, batch, cur, errs, outcome>>

-----------------------------------------------------------------------------
(* DetermineDeletion.                                                      *)

\* The autoscaler's target, fetched when the autoscaler is decided, by a
\* resource name that is guessed from its kind.
ScaleTargetFound(o) ==
  \E e \in refs \ Irregular : e.source = "scaleTargets" /\ Points(e, o)

\* Fault: a request that fails is taken for an answer.
LookupIgnoringErrors(o) ==
  IF ~cancelled /\ ScaleTargetFound(o) THEN "found" ELSE "not found"

\* Under a cancelled context the request fails (as it can without: CanFail).
Lookup(o) ==
  IF cancelled THEN "error" ELSE IF ScaleTargetFound(o) THEN "found" ELSE "not found"

\* Fault: the used maps are keyed by the name alone.
ReferenceFoundAnywhere(o) ==
  \E e \in known : e.source \in Consulted(o.kind, reap) /\ e.kind = o.kind /\ e.name = o.name

ReferenceFound(o) ==
  \E e \in known : e.source \in Consulted(o.kind, reap) /\ Points(e, o)

\* Fault: the status is forgotten.
DeterminedByReferences(o, wasBusy) ==
  /\ o \notin Exempt
  /\ ~ReferenceFound(o)
  /\ o.kind = "HorizontalPodAutoscaler" => Lookup(o) = "not found"

\* wasBusy is the object's status in the listing: a Running Pod, a Job with
\* no completion time, a ReplicaSet with replicas, a Bound volume.
DetermineDeletion(o, wasBusy) ==
  /\ o \notin Exempt
  /\ ~wasBusy
  /\ ~ReferenceFound(o)
  /\ o.kind = "HorizontalPodAutoscaler" => Lookup(o) = "not found"

\* The decision ends in an error: a kind without a rule, or a scale target
\* that cannot be fetched.
CanFail(o) == o.kind \in {"Other", "HorizontalPodAutoscaler"}

Decides(o) == o.kind # "Other" /\ (o.kind = "HorizontalPodAutoscaler" => Lookup(o) # "error")

Spared(o) ==
  \/ o.ns = KubeSystem
  \/ opts.skipControllerOwned /\ o.kind = "Pod" /\ o \in Controlled

\* What the command line asks to reap.
AskedFor(o) ==
  /\ \E i \in DOMAIN opts.kinds : opts.kinds[i] = o.kind
  /\ InScope(o.ns)
  /\ ~Spared(o)

-----------------------------------------------------------------------------
(* runner.Run: the second Visit.                                           *)

Idle == pc = "visit" /\ batch = {}

ListKind ==
  /\ Idle /\ todo # <<>>
  /\ todo' = Tail(todo)
  /\ batch' = {[obj |-> o, busy |-> o \in busy] : o \in Listing(Head(todo))}
  /\ UNCHANGED <<world, opts, cancelled, pc, determiner, cur, errs, outcome>>

ListKindFails ==
  /\ Idle /\ todo # <<>>
  /\ todo' = Tail(todo)
  /\ errs' = TRUE
  /\ UNCHANGED <<world, opts, cancelled, pc, determiner, batch, cur, outcome>>

Keep(info) ==
  /\ pc = "visit"
  /\ \/ info.obj.ns = KubeSystem
     \/ /\ Decides(info.obj)
        /\ ~DetermineDeletion(info.obj, info.busy) \/ Spared(info.obj)
  /\ batch' = batch \ {info}
  /\ UNCHANGED <<world, opts, cancelled, pc, todo, determiner, cur, errs, outcome>>

\* Fault: a candidate that cannot be decided is passed over.
DetermineFailsUnnoticed(info) ==
  /\ pc = "visit"
  /\ info.obj.ns # KubeSystem
  /\ CanFail(info.obj)
  /\ batch' = batch \ {info}
  /\ UNCHANGED <<world, opts, cancelled, pc, todo, determiner, cur, errs, outcome>>

DetermineFails(info) ==
  /\ pc = "visit"
  /\ info.obj.ns # KubeSystem
  /\ CanFail(info.obj)
  /\ batch' = batch \ {info}
  /\ errs' = TRUE
  /\ UNCHANGED <<world, opts, cancelled, pc, todo, determiner, cur, outcome>>

Select(info) ==
  /\ pc = "visit"
  /\ ~Spared(info.obj)
  /\ Decides(info.obj)
  /\ DetermineDeletion(info.obj, info.busy)
  /\ batch' = batch \ {info}
  /\ cur' = info.obj
  /\ pc' = "confirm"
  /\ UNCHANGED <<world, opts, cancelled, todo, determiner, errs, outcome>>

\* The user says no, or the prompt fails (an interrupt at the prompt too).
Decline ==
  /\ pc = "confirm" /\ opts.interactive
  /\ pc' = "visit"
  /\ cur' = NoObject
  /\ UNCHANGED <<world, opts, cancelled, todo, determiner, batch, errs, outcome>>

\* Fault: the test is made with the wrong strategy.
PrintOnlyOnServer == opts.dryRun = "server" /\ ~opts.quiet

\* A client-side dry run stops here, unless it is quiet.
PrintOnly == opts.dryRun = "client" /\ ~opts.quiet

AcceptDryRun ==
  /\ pc = "confirm" /\ PrintOnly
  /\ deletedInfos' = deletedInfos \cup {cur}
  /\ printed' = printed \cup {cur}
  /\ pc' = "visit" /\ cur' = NoObject
  /\ UNCHANGED <<world, opts, cancelled, todo, determiner, batch, errs, deleted>>

Accept ==
  /\ pc = "confirm" /\ ~PrintOnly
  /\ deletedInfos' = deletedInfos \cup {cur}
  /\ pc' = "delete"
  /\ UNCHANGED <<world, opts, cancelled, todo, determiner, batch, cur, errs, deleted, printed>>

\* What a delete request removes from the cluster.
Removed == IF opts.dryRun = "server" THEN {} ELSE {cur}

DeleteSucceeds ==
  /\ pc = "delete" /\ cur \in live
  /\ live' = live \ Removed
  /\ deleted' = deleted \cup Removed
  /\ printed' = IF opts.quiet THEN printed ELSE printed \cup {cur}
  /\ pc' = "visit" /\ cur' = NoObject
  /\ UNCHANGED <<busy, refs, touched, changed, ticks, opts, cancelled, todo, determiner, batch, errs, deletedInfos>>

\* Fault: the object is reported before the outcome is known.
DeleteFailsAfterPrinting ==
  /\ pc = "delete"
  /\ errs' = TRUE
  /\ printed' = IF opts.quiet THEN printed ELSE printed \cup {cur}
  /\ pc' = "visit" /\ cur' = NoObject
  /\ UNCHANGED <<world, opts, cancelled, todo, determiner, batch, deletedInfos, deleted>>

\* Fault: a request that fails is made again.
DeleteFailsAndIsRetried ==
  /\ pc = "delete"
  /\ pc' = "confirm"
  /\ UNCHANGED <<world, opts, cancelled, todo, determiner, batch, cur, errs, outcome>>

\* Gone already, forbidden, or the request never arrived.
DeleteFails ==
  /\ pc = "delete"
  /\ errs' = TRUE
  /\ pc' = "visit" /\ cur' = NoObject
  /\ UNCHANGED <<world, opts, cancelled, todo, determiner, batch, outcome>>

\* The object is deleted and the reply is lost.
DeleteReplyLost ==
  /\ pc = "delete" /\ cur \in live
  /\ live' = live \ Removed
  /\ deleted' = deleted \cup Removed
  /\ errs' = TRUE
  /\ pc' = "visit" /\ cur' = NoObject
  /\ UNCHANGED <<busy, refs, touched, changed, ticks, opts, cancelled, todo, determiner, batch, deletedInfos, printed>>

Visited == Idle /\ todo = <<>>

RunFailed ==
  /\ Visited /\ errs
  /\ pc' = "failed"
  /\ UNCHANGED <<world, opts, cancelled, todo, determiner, batch, cur, errs, outcome>>

\* Fault: an error of the Visit does not keep the run from going on.
NothingToWaitForDespiteErrors == ~opts.wait \/ opts.dryRun # "none"

NothingToWaitFor == ~errs /\ (~opts.wait \/ opts.dryRun # "none")

RunSucceeded ==
  /\ Visited /\ NothingToWaitFor
  /\ pc' = "succeeded"
  /\ UNCHANGED <<world, opts, cancelled, todo, determiner, batch, cur, errs, outcome>>

StartWaiting ==
  /\ Visited /\ ~errs /\ opts.wait /\ opts.dryRun = "none"
  /\ pc' = "wait"
  /\ UNCHANGED <<world, opts, cancelled, todo, determiner, batch, cur, errs, outcome>>

\* Fault: the wait has no bound of its own.
WaitReturnsWhenGone ==
  /\ pc = "wait" /\ deletedInfos \cap live = {}
  /\ pc' = "succeeded"
  /\ UNCHANGED <<world, opts, cancelled, todo, determiner, batch, cur, errs, outcome>>

\* Gone, timed out, cancelled or forbidden: waitDeletion returns no error.
WaitReturns ==
  /\ pc = "wait"
  /\ pc' = "succeeded"
  /\ UNCHANGED <<world, opts, cancelled, todo, determiner, batch, cur, errs, outcome>>

-----------------------------------------------------------------------------
(* The rest of the cluster, and the signal handler.                        *)

OthersStep ==
  /\ pc \notin Ended
  /\ ticks < MaxTicks
  /\ ticks' = ticks + 1
  /\ UNCHANGED run

Create(o) ==
  /\ OthersStep /\ o \notin live
  /\ live' = live \cup {o}
  /\ touched' = touched \cup {o}
  /\ UNCHANGED <<busy, refs, changed>>

Remove(o) ==
  /\ OthersStep /\ o \in live
  /\ live' = live \ {o}
  /\ touched' = touched \cup {o}
  /\ UNCHANGED <<busy, refs, changed>>

ChangeStatus(o) ==
  /\ OthersStep
  /\ o.kind \in {"Pod", "Job", "ReplicaSet", "PersistentVolume"}
  /\ busy' = IF o \in busy THEN busy \ {o} ELSE busy \cup {o}
  /\ touched' = touched \cup {o}
  /\ UNCHANGED <<live, refs, changed>>

ChangeReference(e) ==
  /\ OthersStep
  /\ refs' = IF e \in refs THEN refs \ {e} ELSE refs \cup {e}
  /\ changed' = changed \cup {e}
  /\ UNCHANGED <<live, busy, touched>>

Signal ==
  /\ pc \notin Ended
  /\ ~cancelled
  /\ cancelled' = TRUE
  /\ UNCHANGED <<world, opts, pc, todo, determiner, batch, cur, errs, outcome>>

-----------------------------------------------------------------------------
Complete == PreflightSkipped \/ PreflightAllowed \/ PreflightMissing \/ PreflightBroken

New ==
  \/ SurveyKind \/ SurveyListFails \/ SurveyFailed \/ StartCollecting
  \/ \E s \in ListedSources : ListSource(s)
  \/ ListSourceFails \/ StartVisiting

Run ==
  \/ ListKind \/ ListKindFails
  \/ \E info \in batch : Keep(info) \/ DetermineFails(info) \/ Select(info)
  \/ Decline \/ AcceptDryRun \/ Accept
  \/ DeleteSucceeds \/ DeleteFails \/ DeleteReplyLost
  \/ RunFailed \/ RunSucceeded \/ StartWaiting \/ WaitReturns

Program == Complete \/ New \/ Run

Others ==
  \/ \E o \in Objects : Create(o) \/ Remove(o) \/ ChangeStatus(o)
  \/ \E e \in Edges : ChangeReference(e)
  \/ Signal

Terminated == pc \in Ended /\ UNCHANGED vars

Next == Program \/ Others \/ Terminated

\* Every API request returns or fails, a prompt is answered, and waiting is
\* bounded by --timeout (a week if it is zero).
Spec == Init /\ [][Next]_vars /\ WF_vars(Program)

-----------------------------------------------------------------------------
(* What others left alone since the run began.                             *)

Steady == refs \ changed           \* references held all along
Ever == refs \cup changed           \* references held at some time

\* The sources the README's table names for this kind ("any Pod or workload
\* template").
DocumentedFor(kind) ==
  CASE kind \in {"ConfigMap", "PersistentVolumeClaim", "PodDisruptionBudget", "NetworkPolicy"}
                                        -> {"pods"} \cup TemplateSources
    [] kind = "Secret"                  -> {"pods"} \cup TemplateSources \cup SecretSources
    [] kind = "PersistentVolume"        -> {"persistentVolumeClaims"}
    [] kind = "ReplicaSet"              -> {"deployments"}
    [] kind = "HorizontalPodAutoscaler" -> {"scaleTargets"}
    [] OTHER                            -> {}

\* The sources the run scans for this kind: those, but the templates for
\* claims, budgets and policies only if it finds ConfigMaps or Secrets, too.
ScannedFor(kind) ==
  IF /\ kind \in {"PersistentVolumeClaim", "PodDisruptionBudget", "NetworkPolicy"}
     /\ reap \cap {"ConfigMap", "Secret"} = {}
  THEN {"pods"}
  ELSE DocumentedFor(kind)

HeldBy(o, sources) ==
  \E e \in Steady \ Irregular :
    e.source \in sources \ Unserved /\ InScope(e.ns) /\ Points(e, o)

\* The first Visit saw an object of this kind, or the kind needs no flag.
Announced(kind) == kind \in FlaggedKinds => kind \in reap

\* Its references were collected: it has been there from the beginning, or else
\* the first Visit saw another object of its kind.
Noticed(o) == o \notin touched \/ Announced(o.kind)

\* kube-system and the exempt objects are in use always.
InUseThroughout(o) ==
  \/ o.ns = KubeSystem
  \/ o \in Exempt
  \/ o \in busy \ touched
  \/ Noticed(o) /\ HeldBy(o, ScannedFor(o.kind))
-----------------------------------------------------------------------------
\* The variables hold values of their types.
TypeOK ==
  /\ live \subseteq Objects /\ busy \subseteq Objects /\ touched \subseteq Objects
  /\ refs \subseteq Edges /\ changed \subseteq Edges /\ known \subseteq Edges
  /\ ticks \in 0..MaxTicks
  /\ opts \in Configs
  /\ cancelled \in BOOLEAN /\ errs \in BOOLEAN
  /\ pc \in {"preflight", "survey", "collect", "visit", "confirm", "delete", "wait"} \cup Ended
  /\ todo \in Seq(Kinds)
  /\ reap \subseteq FlaggedKinds
  /\ unread \subseteq ListedSources
  /\ batch \subseteq [obj: Objects, busy: BOOLEAN]
  /\ cur \in IF pc \in {"confirm", "delete"} THEN Objects ELSE {NoObject}
  /\ deletedInfos \subseteq Objects /\ deleted \subseteq Objects /\ printed \subseteq Objects

\* What was in use from the beginning of the run on is not deleted by it: an
\* object whose status was busy and that nobody touched, and one that some
\* reference from a scanned source protected all along, although the sources
\* were listed one after the other, before the second listing of the
\* candidates, while others added and removed references, and although the
\* lookup of a scale target can fail or be cancelled at any moment (New,
\* collectReferences, DetermineDeletion, GetUnstructured and Run together).
InUseThroughoutSurvives == \A o \in deleted : ~InUseThroughout(o)

\* The other direction: when a run succeeds that asks nobody, no object of the
\* kinds and namespace asked for is left that was idle and never referenced
\* while the run lasted; a dry run on the server has accepted it at least.  In
\* particular a reference to an object of the same name in another namespace
\* protects nothing (Run, namespacedName).
NeverUsedIsReaped ==
  pc = "succeeded" /\ ~opts.interactive =>
    \A o \in live \ (touched \cup busy \cup Exempt) :
      \/ ~AskedFor(o)
      \/ \E e \in Ever : Points(e, o)
      \/ opts.dryRun # "none" /\ o \in deletedInfos

\* A run that exits successfully, or waits for its deletions, has deleted
\* every object it accepted for deletion: deletedInfos is filled before the
\* request is made, so only the error of a failed request keeps --wait from
\* waiting for an object nobody deleted (Run, waitDeletion).
SuccessMeansDeleted ==
  pc \in {"wait", "succeeded"} /\ opts.dryRun = "none" => deletedInfos \subseteq deleted

\* A real run reports no object that it did not delete, a dry run none that it
\* did not accept; a successful run that is not quiet reports all it accepted:
\* a dry run "prints exactly what would be deleted" (Run).
ReportsAreTrue ==
  /\ printed \subseteq IF opts.dryRun = "none" THEN deleted ELSE deletedInfos
  /\ pc = "succeeded" /\ ~opts.quiet => printed = deletedInfos

\* No dry run deletes anything, except a quiet one on the client, which is
\* none (Run).
OnlyQuietDryRunDeletes ==
  opts.dryRun = "server" \/ (opts.dryRun = "client" /\ ~opts.quiet) => deleted = {}

\* How far the run has come, and how far the candidate in hand.
Phase ==
  CASE pc = "preflight"                     -> 0
    [] pc = "survey"                        -> 1
    [] pc = "collect"                       -> 2
    [] pc \in {"visit", "confirm", "delete"} -> 3
    [] pc = "wait"                          -> 4
    [] pc \in Ended                         -> 5

Handling == CASE pc = "confirm" -> 2 [] pc = "delete" -> 1 [] OTHER -> 0

\* The run never comes back to where it was: within a phase the resource
\* types, then the sources, then the candidates still to be visited become
\* fewer, or the one in hand comes closer to its end.  Nothing is retried, and
\* others cannot lengthen a listing that has been made, so a run takes a
\* bounded number of steps (New, collectReferences, Run).
RunAdvances ==
  [][\/ Phase < Phase'
     \/ /\ Phase = Phase'
        /\ \/ Len(todo') < Len(todo)
           \/ todo' = todo /\ unread' \subseteq unread /\ unread' # unread
           \/ /\ todo' = todo /\ unread' = unread
              /\ \/ batch' \subseteq batch /\ batch' # batch
                 \/ batch' = batch /\ Handling' < Handling]_<<pc, todo, unread, batch>>

\* Every run ends, whatever fails and whatever others do.
EventuallyEnds == <>(pc \in Ended)
-----------------------------------------------------------------------------
(* What the documentation promises and the code does not keep.             *)

\* README: "--dry-run=client (or =server) prints exactly what would be
\* deleted without deleting anything."
DryRunDeletesNothing == opts.dryRun # "none" => deleted = {}

\* README: a PersistentVolumeClaim is deleted only when "Not referenced by
\* any Pod or workload template", and PodDisruptionBudgets and NetworkPolicies
\* "whose selectors match any live Pod or any workload template are kept."
TemplateUseSurvives ==
  \A o \in deleted : Noticed(o) => ~HeldBy(o, DocumentedFor(o.kind))

\* README: a PersistentVolume is deleted only when it "matches no
\* PersistentVolumeClaim", of whatever namespace.
ClaimedVolumeSurvives ==
  \A o \in deleted : o.kind = "PersistentVolume" /\ Noticed(o) =>
    ~\E e \in Steady : e.source = "persistentVolumeClaims" /\ Points(e, o)

\* README: "It only deletes a resource when it can prove nothing references
\* it", also when the first object of its kind appears during the run.
LateObjectInUseSurvives == \A o \in deleted : ~HeldBy(o, ScannedFor(o.kind))

\* The signal handler prints "Canceling execution...": from then on no
\* further object is accepted for deletion.
CancelStopsDeletions == [][cancelled => deletedInfos' = deletedInfos]_vars
=============================================================================
