------------------------------ MODULE Preflight ------------------------------
(***************************************************************************)
(* The RBAC pre-flight check (pkg/preflight) next to the requests that the *)
(* run makes afterwards.  The check reviews the permissions its own tables *)
(* name; the run asks the API server for what the determiner and the       *)
(* runner need.  Nothing but care keeps the two in step.                   *)
(*                                                                         *)
(* The API server authorizes a request before it looks for the resource,   *)
(* so a list of a group that is not served is forbidden to a user without  *)
(* the permission, and not found for everybody else.                       *)
(*                                                                         *)
(* The command line is read twice: by the check, which looks the name of   *)
(* each argument up in its table of kinds, and by the builder of kubectl,  *)
(* which asks the API server's discovery for the resources it stands for.  *)
(***************************************************************************)
EXTENDS HarvestKinds, Sequences

CONSTANTS
  ForeignResources,   \* resources that no table here names
  Configs,            \* the command lines
  Builder,            \* the resource types that the builder lists for an argument
  Users,              \* what the cluster's RBAC grants, in the run's namespace or everywhere
  Clusters            \* the ExternalSecret versions the API server serves

\* What argAliases calls each kind, singular and short names apart.
PluralName ==
  [k \in SupportedKinds |->
     CASE k = "Pod"                     -> "pods"
       [] k = "ReplicaSet"              -> "replicasets"
       [] k = "ConfigMap"               -> "configmaps"
       [] k = "Secret"                  -> "secrets"
       [] k = "PersistentVolume"        -> "persistentvolumes"
       [] k = "PersistentVolumeClaim"   -> "persistentvolumeclaims"
       [] k = "Job"                     -> "jobs"
       [] k = "PodDisruptionBudget"     -> "poddisruptionbudgets"
       [] k = "HorizontalPodAutoscaler" -> "horizontalpodautoscalers"
       [] k = "NetworkPolicy"           -> "networkpolicies"]

KindResource ==
  [k \in SupportedKinds |->
     CASE k = "Pod"                     -> "pods"
       [] k = "ReplicaSet"              -> "replicasets.apps"
       [] k = "ConfigMap"               -> "configmaps"
       [] k = "Secret"                  -> "secrets"
       [] k = "PersistentVolume"        -> "persistentvolumes"
       [] k = "PersistentVolumeClaim"   -> "persistentvolumeclaims"
       [] k = "Job"                     -> "jobs.batch"
       [] k = "PodDisruptionBudget"     -> "poddisruptionbudgets.policy"
       [] k = "HorizontalPodAutoscaler" -> "horizontalpodautoscalers.autoscaling"
       [] k = "NetworkPolicy"           -> "networkpolicies.networking.k8s.io"]

\* What the list calls of the client name; ExternalSecrets are apart.
SourceResource ==
  [s \in ListedSources \ {"externalSecrets"} |->
     CASE s = "pods"                   -> "pods"
       [] s = "replicaSets"            -> "replicasets.apps"
       [] s = "deployments"            -> "deployments.apps"
       [] s = "statefulSets"           -> "statefulsets.apps"
       [] s = "daemonSets"             -> "daemonsets.apps"
       [] s = "jobs"                   -> "jobs.batch"
       [] s = "cronJobs"               -> "cronjobs.batch"
       [] s = "persistentVolumeClaims" -> "persistentvolumeclaims"
       [] s = "serviceAccounts"        -> "serviceaccounts"
       [] s = "ingresses"              -> "ingresses.networking.k8s.io"]

\* The supported ExternalSecret operators, and the versions listed in order.
ExternalSecretGroups == <<"external-secrets.io", "kubernetes-client.io">>
ExternalSecretVersions ==
  <<[group |-> "external-secrets.io", version |-> "v1"],
    [group |-> "external-secrets.io", version |-> "v1beta1"],
    [group |-> "kubernetes-client.io", version |-> "v1"]>>

Groups == {ExternalSecretGroups[i] : i \in DOMAIN ExternalSecretGroups}
Versions == [group: Groups, version: {"v1alpha1", "v1beta1", "v1"}]

ExternalSecrets ==
  [g \in Groups |-> CASE g = "external-secrets.io"  -> "externalsecrets.external-secrets.io"
                      [] g = "kubernetes-client.io" -> "externalsecrets.kubernetes-client.io"]

\* The resource of a scale target, one of the many an autoscaler can name.
ScaleTarget == "deployments.apps"

KindResources == {KindResource[k] : k \in SupportedKinds}
SourceResources == {SourceResource[s] : s \in ListedSources \ {"externalSecrets"}}
ExternalResources == {ExternalSecrets[g] : g \in Groups}
Resources == KindResources \cup SourceResources \cup ExternalResources \cup ForeignResources

Permissions == [verb: {"list", "delete", "get"}, resource: Resources]
List(resource) == [verb |-> "list", resource |-> resource]
Delete(resource) == [verb |-> "delete", resource |-> resource]
Get(resource) == [verb |-> "get", resource |-> resource]

\* An argument: a name, and the group that may qualify it ("" when none does).
Argument == [name: STRING, group: STRING]

\* What the builder lists for it. The determiner tells objects apart by the
\* kind alone, whatever their group.
ResourceType == [resource: Resources, kind: Kinds]
TypeOf(k) == [resource |-> KindResource[k], kind |-> k]
NoType == [resource |-> "none", kind |-> "none"]

Options ==
  [args: SUBSET Argument, wide: BOOLEAN, dryRun: {"none", "client", "server"}, quiet: BOOLEAN]

ASSUME ConfigsAssumption == Configs \subseteq Options
ASSUME BuilderAssumption ==
  \A o \in Configs : \A a \in o.args : Builder[a] \in SUBSET ResourceType
ASSUME UsersAssumption ==
  Users \subseteq [here: SUBSET Permissions, everywhere: SUBSET Permissions]
ASSUME ClustersAssumption == Clusters \subseteq SUBSET Versions

VARIABLES
  opts, user, cluster,   \* the instance: these do not change
  pc,                    \* where the run is
  toAsk, discovered,     \* groups to ask groupServed about; discovery answered
  assumed,               \* groups taken as served because discovery failed
  required, toReview,    \* permissions the run needs; those not yet reviewed
  missing,               \* permissions denied
  checked,               \* every review was answered
  todo, cur,             \* types to list; the type being visited
  reap, unread,          \* the reap flags; sources to list
  versions,              \* ExternalSecret versions to list
  errs,                  \* the Visit has collected an error
  forbidden              \* requests of the run that the API server forbade

instance == <<opts, user, cluster>>
check == <<toAsk, discovered, assumed, required, toReview, missing, checked>>
visit == <<todo, cur, errs>>
collection == <<reap, unread, versions>>
vars == <<instance, pc, check, visit, collection, forbidden>>

\* The group that qualifies an argument is cut off, and a name the table does
\* not have, a category like "all" for one, stands for no kind.
KindForArg(a) == {k \in SupportedKinds : PluralName[k] = a.name}

\* The kinds the check knows of, and the types the run lists.
Named == UNION {KindForArg(a) : a \in opts.args}
Types == UNION {Builder[a] : a \in opts.args}

\* A namespaced resource is asked for in the namespace of the run, or in all;
\* foreign resources are taken to be namespaced.
Wide(resource) == opts.wide \/ resource = "persistentvolumes"

Granted(p) ==
  p \in user.everywhere \/ (~Wide(p.resource) /\ p \in user.here)
-----------------------------------------------------------------------------
(* The permission tables.                                                  *)

WorkloadLists ==
  {"pods", "replicasets.apps", "deployments.apps", "statefulsets.apps",
   "daemonsets.apps", "jobs.batch", "cronjobs.batch"}

\* Fault: NetworkPolicies are taken to need no reference source.
ReferenceSourcesWithoutPolicies(kind) ==
  CASE kind \in {"ConfigMap", "PersistentVolumeClaim"} -> WorkloadLists
    [] kind = "ReplicaSet" -> {"replicasets.apps", "deployments.apps"}
    [] kind = "PodDisruptionBudget" -> {"pods"}
    [] kind = "PersistentVolume" -> {"persistentvolumeclaims"}
    [] kind = "Secret" -> WorkloadLists \cup {"serviceaccounts", "ingresses.networking.k8s.io"}
    [] OTHER -> {}

\* Fault: the workloads are required of every kind that Pods refer to.
ReferenceSourcesForSelectors(kind) ==
  CASE kind \in {"ConfigMap", "PersistentVolumeClaim", "PodDisruptionBudget", "NetworkPolicy"}
                           -> WorkloadLists
    [] kind = "ReplicaSet" -> {"replicasets.apps", "deployments.apps"}
    [] kind = "PersistentVolume" -> {"persistentvolumeclaims"}
    [] kind = "Secret" -> WorkloadLists \cup {"serviceaccounts", "ingresses.networking.k8s.io"}
    [] OTHER -> {}

ReferenceSources(kind) ==
  CASE kind \in {"ConfigMap", "PersistentVolumeClaim"} -> WorkloadLists
    [] kind = "ReplicaSet" -> {"replicasets.apps", "deployments.apps"}
    [] kind \in {"PodDisruptionBudget", "NetworkPolicy"} -> {"pods"}
    [] kind = "PersistentVolume" -> {"persistentvolumeclaims"}
    [] kind = "Secret" -> WorkloadLists \cup {"serviceaccounts", "ingresses.networking.k8s.io"}
    [] OTHER -> {}

\* Without the ExternalSecrets, which depend on the cluster.
PermissionsForKind(kind, includeDelete) ==
  {List(KindResource[kind])}
  \cup {Delete(KindResource[k]) : k \in {k \in {kind} : includeDelete}}
  \cup {List(r) : r \in ReferenceSources(kind)}

PermissionsForKinds(kinds, includeDelete) ==
  UNION {PermissionsForKind(k, includeDelete) : k \in kinds}
-----------------------------------------------------------------------------
Init ==
  /\ opts \in Configs /\ user \in Users /\ cluster \in Clusters
  /\ pc = IF Named = {} THEN "survey" ELSE "ask"
  /\ toAsk = IF "Secret" \in Named THEN ExternalSecretGroups ELSE <<>>
  /\ discovered = FALSE /\ assumed = {}
  /\ required = PermissionsForKinds(Named, opts.dryRun = "none")
  /\ toReview = {} /\ missing = {} /\ checked = FALSE
  /\ todo = Types /\ cur = NoType /\ errs = FALSE
  /\ reap = {} /\ unread = {} /\ versions = <<>>
  /\ forbidden = {}

(* runPreflightCheck: groupServed, then one review per permission.         *)

GroupServed(g) == \E v \in cluster : v.group = g

\* The list of groups is fetched once; until a fetch succeeds every group
\* counts as served.
DiscoveryFails ==
  /\ pc = "ask" /\ toAsk # <<>> /\ ~discovered
  /\ toAsk' = Tail(toAsk)
  /\ assumed' = assumed \cup {Head(toAsk)}
  /\ required' = required \cup {List(ExternalSecrets[Head(toAsk)])}
  /\ UNCHANGED <<instance, pc, discovered, toReview, missing, checked, visit, collection, forbidden>>

AskGroup ==
  /\ pc = "ask" /\ toAsk # <<>>
  /\ toAsk' = Tail(toAsk)
  /\ discovered' = TRUE
  /\ required' = required \cup {List(ExternalSecrets[g]) : g \in {g \in {Head(toAsk)} : GroupServed(g)}}
  /\ UNCHANGED <<instance, pc, assumed, toReview, missing, checked, visit, collection, forbidden>>

StartReview ==
  /\ pc = "ask" /\ toAsk = <<>>
  /\ pc' = "review" /\ toReview' = required
  /\ UNCHANGED <<instance, toAsk, discovered, assumed, required, missing, checked, visit, collection, forbidden>>

\* Reviewed in a fixed order, whichever it is.
Reviewed == CHOOSE p \in toReview : TRUE

\* Fault: the first permission denied ends the check.
ReviewUntilDenied ==
  /\ pc = "review" /\ toReview # {}
  /\ toReview' = IF Granted(Reviewed) THEN toReview \ {Reviewed} ELSE {}
  /\ missing' = missing \cup {p \in {Reviewed} : ~Granted(p)}
  /\ UNCHANGED <<instance, pc, toAsk, discovered, assumed, required, checked, visit, collection, forbidden>>

Review ==
  /\ pc = "review" /\ toReview # {}
  /\ toReview' = toReview \ {Reviewed}
  /\ missing' = missing \cup {p \in {Reviewed} : ~Granted(p)}
  /\ UNCHANGED <<instance, pc, toAsk, discovered, assumed, required, checked, visit, collection, forbidden>>

\* A review could not be created: what was found missing is forgotten, and
\* the run goes on.
ReviewFails ==
  /\ pc = "review" /\ toReview # {}
  /\ pc' = "survey" /\ missing' = {}
  /\ UNCHANGED <<instance, toAsk, discovered, assumed, required, toReview, checked, visit, collection, forbidden>>

CheckDone ==
  /\ pc = "review" /\ toReview = {}
  /\ checked' = TRUE
  /\ pc' = IF missing = {} THEN "survey" ELSE "refused"
  /\ UNCHANGED <<instance, toAsk, discovered, assumed, required, toReview, missing, visit, collection, forbidden>>
-----------------------------------------------------------------------------
(* The requests of the run.  Only the answer of the authorizer is told     *)
(* apart here; how requests fail otherwise is the subject of Harvest.      *)

Ask(p) == forbidden' = forbidden \cup {q \in {p} : ~Granted(q)}

\* Fault: a flag for whatever kind is listed.
SurveyKindAnyFlag(t) ==
  /\ pc = "survey" /\ t \in todo
  /\ todo' = todo \ {t}
  /\ LET p == List(t.resource) IN
       /\ Ask(p)
       /\ errs' = (errs \/ ~Granted(p))
       /\ reap' \in {reap} \cup {reap \cup {t.kind} : q \in {q \in {p} : Granted(q)}}
  /\ UNCHANGED <<instance, pc, check, cur, unread, versions>>

\* New: a type is listed, and found to have objects or none. The builder
\* settles the order.
SurveyKind(t) ==
  /\ pc = "survey" /\ t \in todo
  /\ todo' = todo \ {t}
  /\ LET p == List(t.resource) IN
       /\ Ask(p)
       /\ errs' = (errs \/ ~Granted(p))
       /\ reap' \in {reap} \cup {reap \cup ({t.kind} \cap FlaggedKinds) : q \in {q \in {p} : Granted(q)}}
  /\ UNCHANGED <<instance, pc, check, cur, unread, versions>>

SurveyFailed ==
  /\ pc = "survey" /\ todo = {} /\ errs
  /\ pc' = "failed"
  /\ UNCHANGED <<instance, check, visit, collection, forbidden>>

StartCollecting ==
  /\ pc = "survey" /\ todo = {} /\ ~errs
  /\ pc' = "collect"
  /\ unread' = Needs(reap)
  /\ versions' = IF "externalSecrets" \in Needs(reap) THEN ExternalSecretVersions ELSE <<>>
  /\ UNCHANGED <<instance, check, visit, reap, forbidden>>

NextSource(s) ==
  /\ pc = "collect" /\ s \in unread
  /\ \A t \in unread : ListOrder[s] <= ListOrder[t]

\* Authorized or not, an optional source that is not served is no error; but
\* that is known only once the request is authorized.
ListSource(s) ==
  /\ NextSource(s) /\ s # "externalSecrets"
  /\ unread' = unread \ {s}
  /\ Ask(List(SourceResource[s]))
  /\ pc' = IF Granted(List(SourceResource[s])) THEN pc ELSE "failed"
  /\ UNCHANGED <<instance, check, visit, reap, versions>>

\* One list call for each version; a version not served is skipped.
ListExternalSecrets ==
  /\ NextSource("externalSecrets") /\ versions # <<>>
  /\ versions' = Tail(versions)
  /\ LET p == List(ExternalSecrets[Head(versions).group]) IN
       /\ Ask(p)
       /\ pc' = IF Granted(p) THEN pc ELSE "failed"
  /\ UNCHANGED <<instance, check, visit, reap, unread>>

ExternalSecretsListed ==
  /\ NextSource("externalSecrets") /\ versions = <<>>
  /\ unread' = unread \ {"externalSecrets"}
  /\ UNCHANGED <<instance, pc, check, visit, reap, versions, forbidden>>

StartVisiting ==
  /\ pc = "collect" /\ unread = {}
  /\ pc' = "visit" /\ todo' = Types
  /\ UNCHANGED <<instance, check, cur, errs, collection, forbidden>>

ListKind(t) ==
  /\ pc = "visit" /\ t \in todo
  /\ todo' = todo \ {t}
  /\ Ask(List(t.resource))
  /\ cur' = IF Granted(List(t.resource)) THEN t ELSE NoType
  /\ errs' = (errs \/ ~Granted(List(t.resource)))
  /\ UNCHANGED <<instance, pc, check, collection>>

\* The decision about an autoscaler fetches its scale target.
LookUpScaleTarget ==
  /\ pc = "visit" /\ cur.kind = "HorizontalPodAutoscaler"
  /\ Ask(Get(ScaleTarget))
  /\ errs' = (errs \/ ~Granted(Get(ScaleTarget)))
  /\ UNCHANGED <<instance, pc, check, todo, cur, collection>>

\* A dry run on the server is a delete request too, and so is a quiet one on
\* the client.
SendDelete ==
  /\ pc = "visit" /\ cur.kind \in SupportedKinds
  /\ ~(opts.dryRun = "client" /\ ~opts.quiet)
  /\ Ask(Delete(cur.resource))
  /\ errs' = (errs \/ ~Granted(Delete(cur.resource)))
  /\ UNCHANGED <<instance, pc, check, todo, cur, collection>>

\* No determination is made of an object of a kind without a rule.
NoRule ==
  /\ pc = "visit" /\ cur.kind = "Other"
  /\ errs' = TRUE
  /\ UNCHANGED <<instance, pc, check, todo, cur, collection, forbidden>>

RunDone ==
  /\ pc = "visit" /\ todo = {}
  /\ pc' = IF errs THEN "failed" ELSE "succeeded"
  /\ UNCHANGED <<instance, check, visit, collection, forbidden>>

Ended == {"refused", "failed", "succeeded"}

CheckStep == DiscoveryFails \/ AskGroup \/ StartReview \/ Review \/ ReviewFails \/ CheckDone

RunStep ==
  \/ \E t \in Types : SurveyKind(t) \/ ListKind(t)
  \/ SurveyFailed \/ StartCollecting
  \/ \E s \in ListedSources : ListSource(s)
  \/ ListExternalSecrets \/ ExternalSecretsListed \/ StartVisiting
  \/ LookUpScaleTarget \/ SendDelete \/ NoRule \/ RunDone

Terminated == pc \in Ended /\ UNCHANGED vars

Next == CheckStep \/ RunStep \/ Terminated

Spec == Init /\ [][Next]_vars
-----------------------------------------------------------------------------
(* What the check does not cover.                                          *)

Reaped == {t.kind : t \in Types}

\* Types that no argument named to the check, and the sources that nothing
\* but their kinds needs.
UnreviewedTypes == Types \ {TypeOf(k) : k \in Named}
UnreviewedSources == Needs(Reaped \cap FlaggedKinds) \ Needs(Named \cap FlaggedKinds)

Unreviewed ==
  {List(t.resource) : t \in UnreviewedTypes} \cup {Delete(t.resource) : t \in UnreviewedTypes}
  \cup {List(SourceResource[s]) : s \in UnreviewedSources \ {"externalSecrets"}}
  \cup {List(ExternalSecrets[g]) : g \in {g \in Groups : "externalSecrets" \in UnreviewedSources}}

\* The lookup of an autoscaler's target is not in the tables.
ScaleLookup == {Get(ScaleTarget) : k \in Reaped \cap {"HorizontalPodAutoscaler"}}

\* Delete is reviewed for real runs only, and asked for by dry runs too.
DryDeletes == {Delete(KindResource[k]) : k \in {k \in Named : opts.dryRun # "none"}}

\* A group that is not served is not reviewed, and its versions are listed.
UnservedGroups ==
  {List(ExternalSecrets[g]) : g \in {g \in Groups : "Secret" \in Named /\ ~GroupServed(g)}}

Gaps ==
  (Unreviewed \cup ScaleLookup \cup DryDeletes \cup UnservedGroups)
    \ PermissionsForKinds(Named, opts.dryRun = "none")

\* Command lines that both readers understand alike: every argument is a
\* supported kind, in its own group.
Ordinary == \A a \in opts.args : \E k \in KindForArg(a) : Builder[a] = {TypeOf(k)}

\* The most that a run of these types can list, whatever objects there are.
ListsOfRun ==
  {List(t.resource) : t \in Types}
  \cup {List(SourceResource[s]) : s \in Needs(Reaped \cap FlaggedKinds) \ {"externalSecrets"}}

-----------------------------------------------------------------------------
\* The variables hold values of their types.
TypeOK ==
  /\ opts \in Configs /\ user \in Users /\ cluster \in Clusters
  /\ pc \in {"ask", "review", "survey", "collect", "visit"} \cup Ended
  /\ toAsk \in Seq(Groups) /\ assumed \subseteq Groups
  /\ discovered \in BOOLEAN /\ checked \in BOOLEAN /\ errs \in BOOLEAN
  /\ required \subseteq Permissions /\ toReview \subseteq required /\ missing \subseteq required
  /\ todo \subseteq Types /\ cur \in Types \cup {NoType}
  /\ reap \subseteq FlaggedKinds /\ unread \subseteq ListedSources
  /\ versions \in Seq(Versions)
  /\ forbidden \subseteq Permissions

\* A run that passed a complete check is never told Forbidden, neither in a
\* listing nor in the middle of its deletions, except for the requests in
\* Gaps, none of which the tables name: whatever it reaps and finds, each
\* request that New, collectReferences and Run make on behalf of a kind that
\* KindForArg found is in the tables of pkg/preflight or one of the known
\* gaps, and so is each that they make for a category or a foreign resource
\* (KindsForResourceTypes, PermissionsForKinds, collectReferences).
CheckedRunIsNotForbidden == checked /\ pc # "refused" => forbidden \subseteq Gaps

\* A user is refused only for permissions that the run can come to use: one
\* that it lists with, or deletes with, or a served ExternalSecret group (or
\* one assumed to be served). There are two exceptions: for
\* PersistentVolumeClaims all workloads are reviewed and only Pods are listed,
\* and for an argument in a foreign group the resource of its namesake is
\* reviewed (referenceSources, KindForArg, PermissionsForKinds, groupServed).
RefusalIsJustified ==
  pc = "refused" =>
    \A p \in missing :
      \/ p \in ListsOfRun
      \/ opts.dryRun = "none" /\ \E t \in Types : p = Delete(t.resource)
      \/ "Secret" \in Named
         /\ \E g \in Groups : p = List(ExternalSecrets[g]) /\ (GroupServed(g) \/ g \in assumed)
      \/ "PersistentVolumeClaim" \in Named /\ p.resource \in WorkloadLists
      \/ \E k \in Named : TypeOf(k) \notin Types /\ p \in PermissionsForKind(k, opts.dryRun = "none")

\* The report is complete: once the permissions reported are granted, the
\* same run is not refused a second time (Run, MissingPermissionsError).
ReportIsComplete ==
  pc = "refused" =>
    \A p \in PermissionsForKinds(Named, opts.dryRun = "none") \cup
             {List(ExternalSecrets[g]) : g \in {g \in Groups : "Secret" \in Named /\ GroupServed(g)}} :
      Granted(p) \/ p \in missing

\* Comment in ListExternalSecrets: "Anything else (e.g. RBAC) is not fatal
\* either: reaping must not break just because one reference source cannot be
\* inspected."
ForbiddenSourceIsNotFatal ==
  [][\A p \in forbidden' \ forbidden : p.resource \in ExternalResources => pc' # "failed"]_vars
=============================================================================
