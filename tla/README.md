# Verification of kubectl-harvest

kubectl-harvest deletes unused Kubernetes objects. It reads a cluster in many
separate requests, while everybody else keeps changing it, and then deletes
things. The question this project asks is the one that matters for such a
tool: **can it delete something that is in use, can it leave behind what it
promised to reap, and can one believe what it says it did?**

The specifications are in TLA+, model-checked with TLC on small instances;
the theorems about them are proved with TLAPS for all instances.

## The program

One process, one run, no state kept between runs. All concurrency is with the
cluster: every API request is a separate step and other clients act between
any two of them.

| Component | Source | State | Operations | Correct when |
|---|---|---|---|---|
| command line | `pkg/cmd/cmd.go` (`NewCmdReap`, `Validate`, `Complete`) | flags, `dryRunStrategy`, `deleteOpts` | parse, validate, complete | dry runs are dry; the scope of the listing is the scope asked for |
| signal handler | `cmd.go:126-135` | the cancelled context | cancel | nothing new is started afterwards |
| RBAC pre-flight | `pkg/preflight` | permission tables | one review per permission | whatever the run will ask for is checked, and nothing else is refused |
| determiner, collection | `pkg/determiner` (`New`, `collectReferences`) | reap flags, listed objects, `used*` maps | first Visit, up to eleven list calls | every source that can hold a reference to a kind is read before a decision about it |
| determiner, decisions | `pkg/determiner` (`determineDeletion*`) | reads the above | one decision per candidate | "unused" is decided from status and references in the right namespace |
| revisions | `determiner.go:347-448` | reads the listed ReplicaSets and Deployments | `withinNewestRevisions`, `owningDeployment` | rollback targets are kept |
| volume matching | `pkg/resource/persistentvolume.go` | none | `CheckVolumeSatisfyClaim` | a volume some claim could bind is kept |
| resource client | `pkg/resource/client.go` | none | list calls, `GetUnstructured` | "not served" and "not found" are told from failure |
| reaping loop | `cmd.go:328-414` (`Run`) | `deletedInfos`, `uidMap`, aggregated errors | list, decide, ask, print, delete | survivors, reports and exit status are right |
| prompt | `pkg/prompt` | none | `Confirm` | an unanswered prompt is a no |
| wait | `cmd.go:416-437` | `uidMap`, `deletedInfos` | `waitDeletion` | it ends, takes nothing for gone that is not, and does not wait for strangers |
| conversions, fakes, main, version | `pkg/resource/resource.go`, `fake.go`, ... | none | | no decision is taken there |

How they interact: `NewCmdReap` runs `Validate`, `Complete`, `Run` in order.
`Complete` builds the listing of the candidates (lazily: each `Visit` lists
again), runs the pre-flight check and calls `determiner.New`, which visits the
candidates a first time to see which kinds there are and lists the reference
sources those kinds need. `Run` visits them a second time, asks the determiner
about each and deletes it. The context of the signal handler reaches the
pre-flight check, the autoscaler's lookup and the wait; the list calls of
`collectReferences` run under `context.Background()`, and the Visits and the
delete requests take no context.

What is hard here: the two listings and the source listings happen at
different times (stale state); which sources are read depends on the
combination of kinds; names repeat over namespaces; any request can fail, or
succeed with its reply lost, while the Visit goes on (`ContinueOnError`); the
signal arrives at any time. `PROJECT.json` lists each of these hazards with
its line and the properties aimed at it.

## Modules

| Module | Models |
|---|---|
| `HarvestKinds` | the kinds, the reference sources, and the two tables of the determiner: which sources `New` asks for (`Needs`) and which of them each decision looks at (`Consulted`) |
| `Harvest` | one run, from the pre-flight check to the end of the wait, in a cluster changed by others |
| `ReapContract` | what a reaper promises, without saying how it finds out what is unused |
| `HarvestContract` | the refinement mapping from `Harvest` to `ReapContract` |
| `Volumes` | `CheckVolumeSatisfyClaim` as pure operators, and a reference definition of "could be bound" |
| `HarvestVolumes` | `Harvest` composed with `Volumes`: a run over volumes and claims with sizes, classes and modes |
| `Revisions` | which ReplicaSets are kept for rollback, decided from three listings of different moments |
| `Preflight` | the permission tables and the check, next to the requests of the run that follows |
| `Wait` | the delete requests of a run with `--wait`, their UIDs, and the wait |
| `MCHarvest`, `MCVolumes`, `MCRevisions`, `MCPreflight`, `MCWait` | the small instances |
| `HarvestProofs`, `HarvestContractProofs`, `HarvestVolumesProofs`, `RevisionsProofs`, `PreflightProofs`, `WaitProofs` | the theorems |

`Harvest` is the run as a whole. The other models look closer at a part of it:
`Preflight` at its first step and at what each request needs permission for,
`Revisions` at one decision, `Volumes` at another, `Wait` at its last step.
`HarvestVolumes` and `HarvestContract` are built on `Harvest` itself, and
`Preflight` shares `HarvestKinds` with it, so that the permission tables are
compared with the same table of needs that the run is proved safe with.

Definitions whose comment begins with "Fault:" are deliberately wrong variants
of the definition that follows them. The specifications do not use them; each
shows that a property fails when that piece of code is wrong.

### `Harvest`: state and actions

*The cluster* (external, modelled from how the code uses it). `live` is the set
of candidate objects that exist, `busy` those whose status makes them in use by
itself (a Running Pod, a Job without completion time, a ReplicaSet with
replicas, a Bound volume), `refs` the references that exist. A reference is an
edge: the source it would be found in, the referrer's namespace, and the kind
and name it protects. The edges stand for every way `detectUsed*`, the
selectors and `withinNewestRevisions` can protect an object. An edge that is a
claim bears the claim's own name; which volumes it protects says the constant
`Satisfying`. An edge that is an autoscaler's scale target may be `Irregular`:
`GetUnstructured` guesses the plural of the target's kind (`client.go:249`),
and where the guess is wrong the API server answers that there is no such
object, so the autoscaler is deleted. `touched`, `changed` and `ticks` are history: what others changed
since the run began, and how often.

*The run.* `pc` is the place in the code; `todo` the resource types the current
Visit has not listed; `reap` the flags of `New`; `unread` the sources
`collectReferences` has not listed, `known` the edges it found; `batch` the
candidates listed and not visited; `cur` the one in hand; `errs` whether the
Visit has collected an error; `deletedInfos`, `deleted` and `printed` what was
accepted, removed and reported.

| `pc` | Actions | Code |
|---|---|---|
| `preflight` | `PreflightSkipped`, `-Allowed`, `-Missing`, `-Broken` | `cmd.go:213-221`, `238-276` |
| `survey` | `SurveyKind`, `SurveyListFails`, `SurveyFailed`, `StartCollecting` | `determiner.go:103-157` |
| `collect` | `ListSource`, `ListSourceFails`, `StartVisiting` | `determiner.go:155-254`, `client.go` |
| `visit` | `ListKind`, `ListKindFails`, `Keep`, `DetermineFails`, `Select`, `RunFailed`, `RunSucceeded`, `StartWaiting` | `cmd.go:328-414`, `determiner.go:300-562` |
| `confirm` | `Decline`, `AcceptDryRun`, `Accept` | `cmd.go:357-369` |
| `delete` | `DeleteSucceeds`, `DeleteFails`, `DeleteReplyLost` | `cmd.go:371-402` |
| `wait` | `WaitReturns` | `cmd.go:416-437` |
| any | `Create`, `Remove`, `ChangeStatus`, `ChangeReference`, `Signal` | others, `cmd.go:126-135` |

Abstractions. A resource type is listed in one step: pages of one list share a
resource version. Within a type the candidates are visited in any order. A
deletion removes the object at once. When the run deletes a Pod, the references
it made stay in `refs` until somebody removes them: the run itself never
rereads them. A label or field selector (`-l`, `--field-selector`) makes the
listing smaller and is not modelled. `-A` is the namespace `""`, as in the
code. Conversion errors and invalid selectors, which the API server rules out,
are not modelled; errors of a decision are those of a kind without a rule and
of the autoscaler's lookup (`Lookup`: an error under a cancelled context, or
whether the target was found). The kinds of the command line are those the
builder finds; what becomes of arguments that the check reads differently is
the matter of `Preflight`.

### `ReapContract` and `HarvestContract`

The abstract reaper must not choose what is protected and has to choose what is
due; about the rest it is free. It removes only what it has chosen and nothing
in a dry run, claims success only if all that is due was chosen and all it
chose is gone, and comes to an end. While it works others can lift protection
and put an object that is due to some use, never the other way round. A run
maps to it by `deletedInfos` (chosen), `deleted` (removed), and

* `Protected`: what the command line does not ask for (`AskedFor`), and what
  has been in use since the run began (`InUseThroughout`).
  Until the kinds have been surveyed that is not settled; everything is
  protected then, and nothing is chosen.
* `Owed` (due): what the command line asks for and nobody has used since the
  run began. A user who is asked may decline everything, so nothing is owed
  then.
* `Dry`: a server dry run, or a client dry run that is not quiet. A quiet
  client dry run really deletes (run `quiet_dry_run`), so it is mapped to a
  real run: the contract holds of it as such.
* `Outcome`: succeeded, failed or still running.

Listing, deciding to keep, asking and waiting are stutters of the contract, or
release what others touched meanwhile.

### `Volumes` and `HarvestVolumes`

Sizes are counted in units finer than a byte (`UnitsPerByte`), because
`Quantity.Value` rounds up to bytes. `Absent` stands for a missing map key,
annotation or pointer. Sizes are taken to be below 2^63, beyond which `Value`
is no longer exact, and not negative. `CouldBind` is the reference: it
compares sizes as they are, and says class and mode as relations, one disjunct
for each place they can stand in. `HarvestVolumes` gives every volume and
claim of a run such a record and fixes `Satisfying` to what
`CheckVolumeSatisfyClaim` computes.

### `Revisions`

The cluster: ReplicaSets that exist, with replicas (`scaled`), and with a
`revision` annotation; Deployments that are `alive`, with their own annotation
(`current`). The run lists ReplicaSets, Deployments and candidates in three
steps (`determiner.go:188-206`, `cmd.go:332`) and then visits the candidates'
copies (`Visit`; `DetermineDeletion` is `determiner.go:347-382`). Meanwhile the
Deployment controller rolls out and rolls back (`Rollout`: a ReplicaSet, new
or old, gets the highest number; `Annotate`: the Deployment's own annotation
follows in a later request), and others scale, remove and create. A ReplicaSet
is a name here: the delete request carries no UID (`cmd.go:374`), so a
ReplicaSet that was removed and rolled out again under its name is what the run
hits. `deleted` records both sides of a deletion, the `copy` the decision was
about and the `victim` as it was in the cluster at that moment. Deployments are
UIDs, as in owner references; the fallback to names (`determiner.go:389-397`) is
for objects without a UID, which an API server does not return. Annotations
that are no number are one value, so two of them count as equal, while the code
compares the strings: at worst the model keeps such a ReplicaSet as live where
the code does not, and only if `--keep-revisions` is 0.

What the model makes visible, and the properties allow for:

* A rollback or rollout after the candidates were listed makes an old
  ReplicaSet the newest and the live revision, and the run deletes it if its
  copy was idle, whatever `--keep-revisions` is. Run `rollback` shows it with
  `--keep-revisions 1`. `NewestRevisionsSurvive` therefore speaks of deleted
  ReplicaSets that kept their number since their listing (their siblings may
  be renumbered at will), and `LiveRevisionSurvives` of Deployments left alone
  since theirs (`stale`).
* ReplicaSets that others remove after the first listing still count as
  newer siblings (`lost`).
* A ReplicaSet whose Deployment is created after the Deployments were listed
  looks like an orphan, and so do those of another controller than a Deployment.

### `Preflight`

`required` is built from the tables (`PermissionsForKinds`) and from
`groupServed`, which fails open until a discovery call succeeds
(`DiscoveryFails`, `AskGroup`); `Review` asks about one permission,
`ReviewFails` is the check that breaks off, `CheckDone` refuses the run or
lets it go on. The run that follows (`SurveyKind` to `RunDone`) makes the
requests of `New`, `collectReferences`, `ListExternalSecrets`, the
autoscaler's lookup and the deletions, in their order, and `forbidden` collects
what the authorizer denied. The API server authorizes before it looks for the
resource: a list of a group that is not served is forbidden to a user without
the permission, and not found for everybody else. Other failures of requests
are the matter of `Harvest`.

The arguments are read twice. The check looks the name of each up in its own
table and drops the group (`KindForArg`; `Named` is what it finds). The run
lists what kubectl's builder makes of them with the help of discovery (`Types`;
the constant `Builder` is external): for a category like `all` several resources, for
`jobs.batch.volcano.sh` another resource than the check reviews. The determiner
then tells objects apart by their kind alone, so a foreign Job is decided as a
Job.

`CheckedRunIsNotForbidden` has exceptions, `Gaps`, each a gap of the tables:

* `Unreviewed`: types that no argument names to the check, their deletion, and
  the reference sources that only their kinds need. With `cm,all` ConfigMaps
  are reviewed; Pods, ReplicaSets, Jobs and autoscalers are listed and deleted
  too. The comment at `preflight.go:86-87` says that such arguments are left to
  the API machinery, README:79 says that the check covers "everything the run
  needs".
* `ScaleLookup`: the `get` of an autoscaler's target (`client.go:251`).
* `DryDeletes`: `delete` in dry runs, which `preflight.go:50` says "only need
  read access", although a dry run on the server sends the delete request (and
  a quiet one on the client does, too).
* `UnservedGroups`: ExternalSecret groups that are not served
  (`forbidden_source`).

No permission that the tables name is in `Gaps`. The first exception is empty for
arguments that both readers understand alike (`Ordinary`), the subject of a
theorem of its own. `RefusalIsJustified` has three: the tables review all
workload lists for PersistentVolumeClaims, of which `New` lists Pods only
(`template_use`); they review the built-in namesake of a foreign resource; and
a group counts as served when discovery fails.

### `Wait`

`holder` is the incarnation (a UID) that bears each name now; `finalized`
incarnations outlive a delete request (finalizers, grace periods) and are then
`terminating`. `victim` is what each request really hit, a history variable;
`uidMap` is what the run learned of it.

| Actions | Code |
|---|---|
| `DeleteWithUid`, `DeleteWithoutUid`, `DeleteFails`, `DeleteReplyLost`, `Spare` | `cmd.go:337-402` |
| `RunFailed`, `StartWaiting` | `cmd.go:403-413` |
| `GetFindsItGone`, `GetFindsIt`, `WatchFindsItGone`, `WatchFindsIt`, `DeletedEvent`, `AllGone` | `cmd.go:431`, with kubectl's `wait.IsDeleted` (external) |
| `WaitFails` | `cmd.go:417-437` |
| `Recreate`, `OthersDelete`, `Release` | others |

Facts of the code the model shows, and the properties allow for. Every error
of the wait is swallowed, a timeout as well as a refusal, and the run then
succeeds, although the help of `--wait` says "wait for resources to be gone"
(`cmd.go:155`). The first error skips the remaining names. kubectl looks a name
up and then starts a watch; a stranger that takes the name in between is
waited for, UID or not, which is why `StrangersAreNotAwaited` speaks of the
lookup. Assumed: a reply that names a UID names the one it deleted, never an
empty one; each candidate is listed once; `RunWaitContext` applies the
`Timeout` it is given.

## Runs

Passing:

| Run | Instance | Properties | What it shows |
|---|---|---|---|
| `named_references` | ConfigMaps of one name in `app`, `dev` and `kube-system` and a Secret; a claim in a template next to the Secret; references from Pods, CronJobs and ReplicaSets; one namespace and all; two changes by others | `InUseThroughoutSurvives`, `NeverUsedIsReaped` | used throughout means kept, never used means reaped, each namespace for itself |
| `matched_references` | two volumes and two claims: a size that suffices only after rounding up, an absent capacity and an absent request, which count as zero, classes in both places, absent modes; a policy and a ReplicaSet; one change | `InUseThroughoutSurvives`, `BindableVolumeSurvives`, `UnboundVolumeIsReaped`, `KeepsContractSafely` | a volume a claim could bind is kept and others go; the run implements the contract |
| `flags` | two Pods, an autoscaler, an object of an unsupported kind, eleven command lines, failures and a signal anywhere, one change by others | `TypeOK`, `InUseThroughoutSurvives`, `SuccessMeansDeleted`, `ReportsAreTrue`, `OnlyQuietDryRunDeletes`, `NeverUsedIsReaped`, `RunAdvances`, `EventuallyEnds`, `KeepsContract` | a lookup that the signal makes fail is no answer; reports, previews and exit status are right in every combination, every run goes forward and ends, and the contract is kept, its termination included |
| `preflight` | each kind alone, two combinations, a category, resources of foreign groups with and without a built-in namesake, alone and next to a kind, every dry-run strategy, one namespace and all; users without any one permission, with grants in one scope only, readers; clusters with no, one and an unlisted ExternalSecret version | `TypeOK`, `CheckedRunIsNotForbidden`, `RefusalIsJustified`, `ReportIsComplete` | the tables name what the run asks for on behalf of the kinds they know, but for the gaps above; refusals are justified and complete |
| `revisions` | a Deployment with three ReplicaSets and a fourth to come, every order of the three revisions, ties and unparsable ones included (eight up to exchanging names), next to every annotation of the Deployment; a ReplicaSet whose owner may be gone and one without; `--keep-revisions` 0 to 2; two changes | `TypeOK`, `NewestRevisionsSurvive`, `LiveRevisionSurvives`, `ExcessIsReaped` | rollback targets survive unless renumbered after their listing, the live revision survives if its Deployment is left alone, the excess goes |
| `wait` | two names, four incarnations, any finalizers, three changes by others | `TypeOK`, `GoneMeansGone`, `AwaitedWereDeleted`, `WaitAdvances`, `StrangersAreNotAwaited`, `EventuallyReturns` | gone means gone, nobody waits for what was not deleted, and the wait ends |

`InUseThroughoutSurvives` is the safety property of the tool. The sources are
listed one after the other, so it cannot promise to keep what was in use at
some moment; it does keep what was in use from the beginning of the run on.
The property has two conditions. `Noticed`: the object has been there,
untouched, since the run began, or else the first listing has seen another of
its kind; an object that appears during the run can miss the collection of its
kind's references and be deleted (`late_object` below).
`ScannedFor`: the sources are those the README names, but templates protect
claims, budgets and policies only in a run that looks after ConfigMaps or
Secrets, too (`template_use`); and a scale target counts only if its plural is
the one that is guessed. What comes into use during the run may be deleted, an
object whose use moves from a source not yet listed to one already listed
included, and a Pod that starts running between its listing and its deletion:
the delete request carries no precondition (`cmd.go:371`). `NeverUsedIsReaped`
is the converse, for dry runs and real ones, and makes sure that the first is
not satisfied by a tool that keeps everything; so do `UnboundVolumeIsReaped`
and `ExcessIsReaped` for volumes and revisions.

`RunAdvances` and `WaitAdvances` say that every step of the program lowers a
measure, and no step of others raises it: phase, resource types to list,
sources to list, candidates to visit, way of the candidate in hand; or phase,
names to delete or to wait for, lookup and watch. All are finite, so the number
of steps is bounded whatever fails and whatever others do. Nothing is retried,
and this is what would break if something were.

Runs that must fail, each a promise of the documentation or of a comment that
the code does not keep:

| Run | Promise | What happens |
|---|---|---|
| `quiet_dry_run` | a dry run deletes nothing (README:78) | `--dry-run=client --quiet` falls through `cmd.go:365` to a real delete |
| `template_use` | claims, budgets and policies are checked against workload templates (README:49, 73) | templates are listed only if ConfigMaps or Secrets are reaped too (`determiner.go:148`) |
| `late_object` | deleted only when proved unreferenced (README:36) | the first object of a kind appears after the first listing: no source was read for it (`determiner.go:114`) |
| `forbidden_source` | a source that cannot be inspected, "e.g. RBAC", is not fatal (`client.go:218`) | Forbidden is neither NotFound nor NoMatch: the run ends (`client.go:223`), even where the operator is not installed, and the pre-flight check did not announce it |
| `cancel` | "Canceling execution..." (`cmd.go:133`) | deletions go on: Visit and delete take no context |
| `rollback` | "always keep the newest N revisions ... The live revision is always kept regardless" (`cmd.go:160`, README:66) | a candidate is rolled back to after it was listed, and deleted by name as the newest revision (`cmd.go:371-374`) |

Three more disagreements of the kind are visible in the models without a run of
their own. A run in one namespace lists all volumes and that namespace's claims
only (`determiner.go:231`), so a volume that satisfies a claim of another
namespace is deleted, where README:48 says "matches no PersistentVolumeClaim";
`ClaimsAreSeenEverywhere` is the theorem about runs over all namespaces. A
Pod that starts running after it was listed is deleted by the same kind of
request as in `rollback`, where README:59 says "never touched, period".
And an autoscaler whose target has an irregular plural is deleted although
the target exists (README:52).

Bounds. `MaxTicks` bounds what others do during a run. In `named_references`
it is two, the least that moves a use from one source to another behind the
reader's back. In `matched_references` each kind has one source, listed in one
step, so a use cannot move and one change is enough; it is also enough for the
flags, where the cluster matters less, and for the counterexamples. `wait`
needs three: somebody deletes the object, another takes the name, and goes or
is released. `revisions` needs two: a rollout or rollback, and the annotation
that follows it. Objects: two of the same name tell namespaces apart, one of
each kind is enough otherwise, as the decision about an object looks at no
other candidate; three ReplicaSets and one to come are more than the greatest
`--keep-revisions`. The numbers 1 to 3 are enough at the start, as only their
order matters to the decision. `MaxRevision` is four, one more than the highest number at
the start, so that there is room for one renumbering. The theorems below hold
without these bounds. `Unserved`, `Exempt` and `Irregular` are exercised in full only by the
proofs.

Fairness. `WF_vars(Program)` in `Harvest` and `WF_vars(Run \/ WaitDeletion)` in
`Wait`: a run that can take a step takes one. The code justifies it as far as
API requests return or fail, prompts are answered (or fail, which counts as
no), and `waitDeletion` is bounded by `--timeout`, or a week if that is zero
(`cmd.go:417-420`). No fairness is assumed of others: finalizers may hold an
object for ever. The variants `WaitReturnsWhenGone` and `WaitFailsOnlyWhenGone`,
waits without a bound, break `EventuallyEnds` and `EventuallyReturns`.
`Preflight` and `Revisions` state no liveness: their runs are parts of one
whose termination `flags` shows.

## Theorems

All are proved from the named assumptions of the modules about their constants
(which say what kind of thing each constant is) and hold for any number of
objects, edges, users, ReplicaSets, names and changes.

| Module | Theorem | Statement |
|---|---|---|
| `HarvestProofs` | `TypeCorrect` | `Spec => []TypeOK` |
| | `UseIsRespected` | `Spec => []InUseThroughoutSurvives` |
| | `ReapIsThorough` | `Spec => []NeverUsedIsReaped` |
| | `SuccessIsHonest` | `Spec => []SuccessMeansDeleted` |
| | `ReportsAreHonest` | `Spec => []ReportsAreTrue` |
| | `DryRunIsDry` | `Spec => []OnlyQuietDryRunDeletes` |
| | `RunGoesForward` | `Spec => RunAdvances` |
| | `ClaimsAreSeenEverywhere` | `ClaimedVolumeSurvives`, in a run over all namespaces |
| | `TemplatesAreSeenForOthers` | `TemplateUseSurvives`, in a run that found ConfigMaps or Secrets |
| `HarvestContractProofs` | `ContractIsKept` | `Spec => KeepsContractSafely` |
| `HarvestVolumesProofs` | `BindableSatisfies`, `SatisfyingIsBindable` | `CheckVolumeSatisfyClaim` is `CouldBind`, up to rounding |
| | `BindableVolumesSurvive` | `Spec => []BindableVolumeSurvives` |
| | `UnboundVolumesAreReaped` | `Spec => []UnboundVolumeIsReaped` |
| `RevisionsProofs` | `TypeCorrect` | `Spec => []TypeOK` |
| | `RollbackTargetsAreKept` | `Spec => []NewestRevisionsSurvive` |
| | `LiveRevisionIsKept` | `Spec => []LiveRevisionSurvives` |
| | `ExcessIsGone` | `Spec => []ExcessIsReaped` |
| `PreflightProofs` | `TypeCorrect` | `Spec => []TypeOK` |
| | `CheckIsSufficient` | `Spec => []CheckedRunIsNotForbidden` |
| | `OrdinaryRunIsNotForbidden` | with arguments that both readers understand alike, only `ScaleLookup`, `DryDeletes` and `UnservedGroups` can be forbidden after a complete check |
| | `CheckIsNecessary` | `Spec => []RefusalIsJustified` |
| | `ReportIsTheWholeList` | `Spec => []ReportIsComplete` |
| | `CheckedRunReadsItsSources` | after a complete check no source of a kind named to it is fatal but ExternalSecrets that are not served |
| `WaitProofs` | `TypeCorrect` | `Spec => []TypeOK` |
| | `GoneIsGone` | `Spec => []GoneMeansGone` |
| | `WaitIsForTheDeleted` | `Spec => []AwaitedWereDeleted` |
| | `UidTellsStrangers` | `Spec => StrangersAreNotAwaited` |
| | `WaitGoesForward` | `Spec => WaitAdvances` |

*`UseIsRespected`.* What was in use throughout is a shrinking set: others can
end a use that has lasted, never start one (`UseShrinks`), and the flags are
settled when the first Visit is over (`FlagsSettle`), so `InUseThroughout` can
only become false (`InUseShrinks`). The inductive invariant `IInv` adds what
the property itself does not say: every steady reference of a source already
listed is known (`SteadyIsKnown`); nothing is visited before all needed
sources are listed (`AllListedBeforeVisit`); the status in the batch is the
status at the beginning unless touched (`ListedStatus`); and the candidate in
hand may go (`CurMayGo`). That an untouched candidate is `Noticed` is an
argument across both Visits: only what the command line asks for is listed
(`OnlyAskedFor`); unless the first Visit meets with an error, which ends the
run, it sees the kind of every such object (`SurveySees`); so the kind of an
untouched candidate of the second Visit is among the flags
(`UntouchedIsAnnounced`). The heart is `ScannedIsConsulted`: for every set of
flags that includes the kind, each source scanned for it is both listed and
looked at in the decision; this is where the tables of `New`,
`collectReferences` and the decision rules have to agree.

*`SuccessIsHonest`, `ReportsAreHonest`, `DryRunIsDry`* share `OutcomeInv`. It
tells the runs that delete (`Deletes`: real ones, and the quiet dry run on the
client) from those that do not, and keeps their books: between `Accept` and the
reply one candidate is pending; everything else accepted is deleted, or an
error has been collected, and an error is never forgotten.

*`ReapIsThorough`.* What is due (`Due`: idle, untouched, never referenced, asked
for, and not accepted by a dry run) only shrinks, and as long as no error
has been collected everything due is still ahead of the run (`Ahead`: its type
is to be listed, or it is in the batch, or in hand). At success nothing is
ahead. `ReapInv` is this together with `OutcomeInv`, which settles that a
deletion that succeeded did delete.

*`ContractIsKept`* is the step simulation. `ContractInv` is `IInv` (what may be
chosen) and `ReapInv` (what must be, and the books). Each action of a run is then one step of the abstract reaper or a
stutter. That `Protected` and `Owed` only shrink is the argument of
`UseIsRespected` and `ReapIsThorough` again; that `Choose` is allowed follows
from `CurMayGo` and `OnlyAskedFor`; that `Succeed` is, from `DebtIsPaid`: with
nothing ahead, what is owed was accepted.

*`RunGoesForward`, `WaitGoesForward`* need only the type invariants: each action
lowers one component of the measure and leaves the ones before it alone.

*`ClaimsAreSeenEverywhere`, `TemplatesAreSeenForOthers`,
`CheckedRunReadsItsSources`* are the other side of claims in another namespace
and of the runs `template_use` and `forbidden_source`: under the stated
condition the broken promise does hold, so the condition is all there is to
repair. The first two follow from `UseIsRespected`, the third from
`CheckIsSufficient`.

*`BindableVolumesSurvive`, `UnboundVolumesAreReaped`* combine the two pure
theorems, which rest on the arithmetic of rounding up (`ValueRoundsUp`,
`ValueMonotone`), with the invariants of `HarvestProofs`.

*`RevisionsProofs`.* `RInv` says: what was listed and is not lost is still there
with a number at least as high, unless the run deleted it (`ListedIsKept`); a
candidate's copy is no older than the sibling listing's entry of it
(`CopiesAreNoOlder`); everything deleted was so decided by the rule on the
listings, about a copy no longer among the candidates (`DeletedByRule`);
and of objects nobody touched, or Deployments nobody touched since their
listing, the listings are still true (`SteadyDeployments`, `SteadyRevisions`,
`SteadyReplicaSets`). `RollbackTargetsAreKept` then counts in the cluster: of
all copies of the Deployment that were deleted as outdated, take one with the
highest revision; at least `keep` siblings were newer than it when listed, none
of those was deleted (its copy would be newer still), so each is there, with a
number as high or higher, or was removed by others.

*`PreflightProofs`.* `PInv`: what is required is the tables' permissions and
the groups found served (`RequiredIsExact`), what is neither to be reviewed nor
missing is granted (`ReviewIsExact`), and the run asks only for what its types
and their kinds need (`RunIsOfTypes`). `CheckIsSufficient` is then a comparison
of `ReferenceSources` with `HarvestKinds!Needs`, kind by kind, for every source
that a named kind needs, also next to unreviewed ones.
`OrdinaryRunIsNotForbidden` adds that with ordinary arguments nothing is
unreviewed (`OrdinaryIsReviewed`).

*`WaitProofs`.* `WInv`: a UID that is recorded is the victim's
(`RecordedIsVictim`), a UID is not used twice (`UsedOnce`), and a watch has
found the victim unless the victim is gone (`WatchesTheVictim`); the last is
why a wait without a UID, which may watch a stranger, still means gone.

Only model-checked: `EventuallyEnds`, `EventuallyReturns` and the termination
in `KeepsContract`, because liveness under fairness and `ENABLED` are beyond the
prover (`RunGoesForward` and `WaitGoesForward` are the part of the argument that
is not: fairness adds that a run that has not ended takes its next step); and
of course the six violations.

## Not modelled

* Where in a Pod spec, ServiceAccount, Ingress or ExternalSecret a name may
  stand (`determiner.go:564-744`), and how a selector matches labels: traversals
  without state, which a model could only transcribe. They are the edges of
  `Harvest`, which takes for granted that every reference is found. Unit tests
  are the better instrument there; ephemeral containers, the secret references
  of less common volume types and annotations of the form `namespace/name`
  deserve some.
* That one ExternalSecret listed under two versions is kept once
  (`client.go:226-236`): a reference counts once or twice alike.
* Label and field selectors, grace periods, `--force`, `Validate`: they choose
  parameters of a request or the size of a listing.
* Printers and message texts, kubeconfig, conversions between typed and
  unstructured objects (generated code), the test fakes, packaging.
