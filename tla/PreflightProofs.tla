--------------------------- MODULE PreflightProofs ---------------------------
(* What the pre-flight check guarantees, for every command line, user and  *)
(* cluster.                                                                *)
EXTENDS Preflight, TLAPS

USE DEF instance, check, visit, collection, vars

-----------------------------------------------------------------------------
(* The tables.                                                             *)

LEMMA ResourceTypes ==
  /\ \A k \in SupportedKinds : KindResource[k] \in Resources
  /\ \A s \in ListedSources \ {"externalSecrets"} : SourceResource[s] \in Resources
  /\ \A g \in Groups : ExternalSecrets[g] \in Resources
  /\ ScaleTarget \in Resources
<1>1. \A k \in SupportedKinds : KindResource[k] \in Resources
  BY DEF Resources, KindResources
<1>2. \A s \in ListedSources \ {"externalSecrets"} : SourceResource[s] \in Resources
  BY DEF Resources, SourceResources
<1>3. \A g \in Groups : ExternalSecrets[g] \in Resources
  BY DEF Resources, ExternalResources
<1>4. SourceResource["deployments"] = ScaleTarget
  BY DEF SourceResource, ScaleTarget, ListedSources, TemplateSources
<1>5. QED
  BY <1>1, <1>2, <1>3, <1>4 DEF ListedSources, TemplateSources

LEMMA PermissionTypes ==
  \A r \in Resources : List(r) \in Permissions /\ Delete(r) \in Permissions /\ Get(r) \in Permissions
BY DEF List, Delete, Get, Permissions

\* Each table entry names the resource of a listed source.
LEMMA SourceNames ==
  /\ SourceResource["pods"] = "pods"
  /\ SourceResource["replicaSets"] = "replicasets.apps"
  /\ SourceResource["deployments"] = "deployments.apps"
  /\ SourceResource["statefulSets"] = "statefulsets.apps"
  /\ SourceResource["daemonSets"] = "daemonsets.apps"
  /\ SourceResource["jobs"] = "jobs.batch"
  /\ SourceResource["cronJobs"] = "cronjobs.batch"
  /\ SourceResource["persistentVolumeClaims"] = "persistentvolumeclaims"
  /\ SourceResource["serviceAccounts"] = "serviceaccounts"
  /\ SourceResource["ingresses"] = "ingresses.networking.k8s.io"
BY DEF SourceResource, ListedSources, TemplateSources, SecretSources

LEMMA ReferenceSourcesType == \A k \in SupportedKinds : ReferenceSources(k) \subseteq Resources
<1>1. \A s \in ListedSources \ {"externalSecrets"} : SourceResource[s] \in Resources
  BY ResourceTypes
<1>2. /\ WorkloadLists \subseteq Resources
      /\ {"persistentvolumeclaims", "serviceaccounts", "ingresses.networking.k8s.io"} \subseteq Resources
  BY <1>1, SourceNames DEF WorkloadLists, ListedSources, TemplateSources, SecretSources
<1>3. QED
  BY <1>2 DEF ReferenceSources, WorkloadLists

\* Whatever kinds turn out to have objects, each source listed for them is in
\* the table of one of them.
LEMMA NeedsAreInTables ==
  ASSUME NEW kinds \in SUBSET FlaggedKinds,
         NEW s \in Needs(kinds), s # "externalSecrets"
  PROVE  \E k \in kinds : SourceResource[s] \in ReferenceSources(k)
<1>1. CASE s = "pods"
  <2>1. kinds \cap {"ConfigMap", "Secret", "PersistentVolumeClaim", "PodDisruptionBudget", "NetworkPolicy"} # {}
    BY <1>1 DEF Needs, NeedsPods, TemplateSources, SecretSources
  <2>2. QED
    BY <1>1, <2>1, SourceNames DEF ReferenceSources, WorkloadLists
<1>2. CASE s \in {"replicaSets", "deployments"}
  <2>1. kinds \cap {"ConfigMap", "Secret", "ReplicaSet"} # {}
    BY <1>2 DEF Needs, NeedsRevisions, TemplateSources, SecretSources
  <2>2. QED
    BY <1>2, <2>1, SourceNames DEF ReferenceSources, WorkloadLists
<1>3. CASE s \in TemplateSources \ {"replicaSets", "deployments"}
  <2>1. kinds \cap {"ConfigMap", "Secret"} # {}
    BY <1>3 DEF Needs, NeedsPodTemplates, TemplateSources, SecretSources
  <2>2. QED
    BY <1>3, <2>1, SourceNames DEF ReferenceSources, WorkloadLists, TemplateSources
<1>4. CASE s = "persistentVolumeClaims"
  BY <1>4, SourceNames DEF Needs, ReferenceSources, TemplateSources, SecretSources, WorkloadLists
<1>5. CASE s \in SecretSources \ {"externalSecrets"}
  <2>1. "Secret" \in kinds
    BY <1>5 DEF Needs, TemplateSources, SecretSources
  <2>2. QED
    BY <1>5, <2>1, SourceNames DEF ReferenceSources, SecretSources
<1>6. QED
  BY <1>1, <1>2, <1>3, <1>4, <1>5 DEF Needs, ListedSources

LEMMA NeedsGrow ==
  \A a, b \in SUBSET FlaggedKinds : a \subseteq b => Needs(a) \subseteq Needs(b)
BY DEF Needs, NeedsPods, NeedsRevisions, NeedsPodTemplates

LEMMA NeedsAreListed == \A a \in SUBSET FlaggedKinds : Needs(a) \subseteq ListedSources
BY DEF Needs

LEMMA ExternalSecretsNeedSecrets ==
  \A a \in SUBSET FlaggedKinds : "externalSecrets" \in Needs(a) => "Secret" \in a
BY DEF Needs, TemplateSources, SecretSources

LEMMA TablesType ==
  ASSUME NEW kinds \in SUBSET SupportedKinds, NEW d \in BOOLEAN
  PROVE  PermissionsForKinds(kinds, d) \subseteq Permissions
<1>1. SUFFICES ASSUME NEW k \in kinds
               PROVE  PermissionsForKind(k, d) \subseteq Permissions
  BY DEF PermissionsForKinds
<1>2. KindResource[k] \in Resources /\ ReferenceSources(k) \subseteq Resources
  BY ResourceTypes, ReferenceSourcesType
<1>3. QED
  BY <1>2, PermissionTypes DEF PermissionsForKind

-----------------------------------------------------------------------------
(* Type correctness.                                                       *)

LEMMA OptionTypes ==
  ASSUME opts \in Configs
  PROVE  /\ Named \in SUBSET SupportedKinds /\ Types \in SUBSET ResourceType
         /\ opts.dryRun \in {"none", "client", "server"} /\ opts.quiet \in BOOLEAN
<1>1. opts.dryRun \in {"none", "client", "server"} /\ opts.quiet \in BOOLEAN
  BY ConfigsAssumption DEF Options
<1>2. Named \in SUBSET SupportedKinds
  BY DEF Named, KindForArg
<1>3. Types \in SUBSET ResourceType
  BY BuilderAssumption DEF Types
<1>4. QED
  BY <1>1, <1>2, <1>3

LEMMA ArgumentsAreFixed ==
  ASSUME UNCHANGED instance
  PROVE  Named' = Named /\ Types' = Types
BY DEF Named, Types, KindForArg

LEMMA GroupTypes ==
  /\ ExternalSecretGroups \in Seq(Groups)
  /\ ExternalSecretVersions \in Seq(Versions)
<1>1. Groups = {"external-secrets.io", "kubernetes-client.io"}
  BY DEF Groups, ExternalSecretGroups
<1>2. ExternalSecretGroups \in Seq(Groups)
  BY <1>1 DEF ExternalSecretGroups
<1>3. /\ [group |-> "external-secrets.io", version |-> "v1"] \in Versions
      /\ [group |-> "external-secrets.io", version |-> "v1beta1"] \in Versions
      /\ [group |-> "kubernetes-client.io", version |-> "v1"] \in Versions
  BY <1>1 DEF Versions
<1>4. ASSUME NEW S, NEW a \in S, NEW b \in S, NEW c \in S PROVE <<a, b, c>> \in Seq(S)
  OBVIOUS
<1>5. ExternalSecretVersions \in Seq(Versions)
  BY <1>3, <1>4, Zenon DEF ExternalSecretVersions
<1>6. QED
  BY <1>2, <1>5

LEMMA InitType == Init => TypeOK
<1>1. SUFFICES ASSUME Init PROVE TypeOK
  OBVIOUS
<1>2. Named \in SUBSET SupportedKinds
  BY <1>1, OptionTypes DEF Init
<1>3. required \subseteq Permissions
  BY <1>1, <1>2, TablesType DEF Init
<1>4. toAsk \in Seq(Groups) /\ versions \in Seq(Versions)
  BY <1>1, GroupTypes DEF Init
<1>5. pc \in {"ask", "survey"}
  BY <1>1 DEF Init
<1>6. QED
  BY <1>1, <1>2, <1>3, <1>4, <1>5 DEF Init, TypeOK

LEMMA CheckType == TypeOK /\ CheckStep => TypeOK'
<1>1. SUFFICES ASSUME TypeOK, CheckStep PROVE TypeOK'
  OBVIOUS
<1>2. ASSUME toAsk # <<>>
      PROVE  Head(toAsk) \in Groups /\ Tail(toAsk) \in Seq(Groups)
  BY <1>1, <1>2 DEF TypeOK
<1>3. \A g \in Groups : List(ExternalSecrets[g]) \in Permissions
  BY ResourceTypes, PermissionTypes
<1>4. toReview # {} => Reviewed \in toReview
  BY DEF Reviewed
<1>5. UNCHANGED instance /\ Types' = Types
  BY <1>1, ArgumentsAreFixed DEF CheckStep, DiscoveryFails, AskGroup, StartReview, Review,
     ReviewFails, CheckDone
<1>6. CASE DiscoveryFails
  BY <1>1, <1>2, <1>3, <1>5, <1>6 DEF TypeOK, DiscoveryFails, Ended
<1>7. CASE AskGroup
  <2>1. required' \subseteq Permissions /\ required \subseteq required'
    BY <1>1, <1>2, <1>3, <1>7 DEF TypeOK, AskGroup
  <2>2. QED
    BY <1>1, <1>2, <1>5, <1>7, <2>1 DEF TypeOK, AskGroup, Ended
<1>8. CASE StartReview
  BY <1>1, <1>5, <1>8 DEF TypeOK, StartReview, Ended
<1>9. CASE Review
  <2>1. missing' \subseteq required /\ toReview' \subseteq required
    BY <1>1, <1>4, <1>9 DEF TypeOK, Review
  <2>2. QED
    BY <1>1, <1>5, <1>9, <2>1 DEF TypeOK, Review, Ended
<1>10. CASE ReviewFails
  BY <1>1, <1>5, <1>10 DEF TypeOK, ReviewFails, Ended
<1>11. CASE CheckDone
  BY <1>1, <1>5, <1>11 DEF TypeOK, CheckDone, Ended
<1>12. QED
  BY <1>1, <1>6, <1>7, <1>8, <1>9, <1>10, <1>11 DEF CheckStep

LEMMA AskType ==
  ASSUME NEW p \in Permissions, forbidden \subseteq Permissions, Ask(p)
  PROVE  forbidden' \subseteq Permissions
BY DEF Ask

LEMMA RunType == TypeOK /\ RunStep => TypeOK'
<1>1. SUFFICES ASSUME TypeOK, RunStep PROVE TypeOK'
  OBVIOUS
<1>2. UNCHANGED instance /\ Types' = Types
  BY <1>1, ArgumentsAreFixed DEF RunStep, SurveyKind, SurveyFailed, StartCollecting, ListSource,
     ListExternalSecrets, ExternalSecretsListed, StartVisiting, ListKind, LookUpScaleTarget,
     SendDelete, NoRule, RunDone
<1>3. ASSUME NEW t \in Types
      PROVE  List(t.resource) \in Permissions /\ Delete(t.resource) \in Permissions
  <2>1. t \in ResourceType
    BY <1>1, OptionTypes DEF TypeOK
  <2>2. QED
    BY <2>1, PermissionTypes DEF ResourceType
<1>4. ASSUME NEW t \in Types, SurveyKind(t) PROVE TypeOK'
  <2>1. forbidden' \subseteq Permissions
    BY <1>1, <1>3, <1>4, AskType DEF TypeOK, SurveyKind
  <2>2. reap' \subseteq FlaggedKinds /\ errs' \in BOOLEAN
    BY <1>1, <1>4 DEF TypeOK, SurveyKind
  <2>3. QED
    BY <1>1, <1>2, <1>4, <2>1, <2>2 DEF TypeOK, SurveyKind, Ended
<1>5. CASE SurveyFailed
  BY <1>1, <1>2, <1>5 DEF TypeOK, SurveyFailed, Ended
<1>6. CASE StartCollecting
  <2>1. versions' \in Seq(Versions)
    BY <1>6, GroupTypes DEF StartCollecting
  <2>2. unread' \subseteq ListedSources
    BY <1>1, <1>6, NeedsAreListed DEF TypeOK, StartCollecting
  <2>3. QED
    BY <1>1, <1>2, <1>6, <2>1, <2>2 DEF TypeOK, StartCollecting, Ended
<1>7. ASSUME NEW s \in ListedSources, ListSource(s) PROVE TypeOK'
  <2>1. List(SourceResource[s]) \in Permissions
    BY <1>7, ResourceTypes, PermissionTypes DEF ListSource
  <2>2. forbidden' \subseteq Permissions
    BY <1>1, <1>7, <2>1, AskType DEF TypeOK, ListSource
  <2>3. QED
    BY <1>1, <1>2, <1>7, <2>2 DEF TypeOK, ListSource, Ended
<1>8. CASE ListExternalSecrets
  <2>1. Head(versions).group \in Groups /\ Tail(versions) \in Seq(Versions)
    <3>1. Head(versions) \in Versions /\ Tail(versions) \in Seq(Versions)
      BY <1>1, <1>8 DEF TypeOK, ListExternalSecrets
    <3>2. QED
      BY <3>1 DEF Versions
  <2>2. List(ExternalSecrets[Head(versions).group]) \in Permissions
    BY <2>1, ResourceTypes, PermissionTypes
  <2>3. forbidden' \subseteq Permissions
    BY <1>1, <1>8, <2>2, AskType DEF TypeOK, ListExternalSecrets
  <2>4. QED
    BY <1>1, <1>2, <1>8, <2>1, <2>3 DEF TypeOK, ListExternalSecrets, Ended
<1>9. CASE ExternalSecretsListed
  BY <1>1, <1>2, <1>9 DEF TypeOK, ExternalSecretsListed, Ended
<1>10. CASE StartVisiting
  BY <1>1, <1>2, <1>10 DEF TypeOK, StartVisiting, Ended
<1>11. ASSUME NEW t \in Types, ListKind(t) PROVE TypeOK'
  <2>1. forbidden' \subseteq Permissions
    BY <1>1, <1>3, <1>11, AskType DEF TypeOK, ListKind
  <2>2. cur' \in Types \cup {NoType} /\ errs' \in BOOLEAN
    BY <1>1, <1>11 DEF TypeOK, ListKind
  <2>3. QED
    BY <1>1, <1>2, <1>11, <2>1, <2>2 DEF TypeOK, ListKind, Ended
<1>12. CASE LookUpScaleTarget
  <2>1. forbidden' \subseteq Permissions
    BY <1>1, <1>12, AskType, ResourceTypes, PermissionTypes DEF TypeOK, LookUpScaleTarget
  <2>2. QED
    BY <1>1, <1>2, <1>12, <2>1 DEF TypeOK, LookUpScaleTarget, Ended
<1>13. CASE SendDelete
  <2>1. Delete(cur.resource) \in Permissions
    <3>1. cur # NoType
      BY <1>13 DEF SendDelete, NoType, SupportedKinds
    <3>2. QED
      BY <1>1, <1>3, <3>1 DEF TypeOK
  <2>2. forbidden' \subseteq Permissions
    BY <1>1, <1>13, <2>1, AskType DEF TypeOK, SendDelete
  <2>3. QED
    BY <1>1, <1>2, <1>13, <2>2 DEF TypeOK, SendDelete, Ended
<1>14. CASE NoRule
  BY <1>1, <1>2, <1>14 DEF TypeOK, NoRule, Ended
<1>15. CASE RunDone
  BY <1>1, <1>2, <1>15 DEF TypeOK, RunDone, Ended
<1>16. QED
  BY <1>1, <1>4, <1>5, <1>6, <1>7, <1>8, <1>9, <1>10, <1>11, <1>12, <1>13, <1>14, <1>15 DEF RunStep

\* Each variable keeps its type, through the check and the run.
THEOREM TypeCorrect == Spec => []TypeOK
<1>1. TypeOK /\ UNCHANGED vars => TypeOK'
  BY ArgumentsAreFixed DEF TypeOK
<1>2. TypeOK /\ [Next]_vars => TypeOK'
  BY <1>1, CheckType, RunType DEF Next, Terminated
<1>3. QED
  BY <1>2, InitType, PTL DEF Spec

-----------------------------------------------------------------------------
(* The inductive invariant.                                                *)

Elements(seq) == {seq[i] : i \in DOMAIN seq}

Base == PermissionsForKinds(Named, opts.dryRun = "none")

\* What the check asks about is what the tables and the cluster say.
RequiredIsExact ==
  /\ Base \subseteq required
  /\ \A p \in required :
       \/ p \in Base
       \/ "Secret" \in Named
          /\ \E g \in Groups : p = List(ExternalSecrets[g]) /\ (GroupServed(g) \/ g \in assumed)
  /\ \A g \in Groups :
       "Secret" \in Named /\ GroupServed(g) =>
         List(ExternalSecrets[g]) \in required \/ g \in Elements(toAsk)
  /\ toAsk # <<>> => "Secret" \in Named
  /\ pc # "ask" => toAsk = <<>>

\* Each permission reviewed was granted or is missing.
ReviewIsExact ==
  /\ pc = "review" => \A p \in required : p \in toReview \/ Granted(p) \/ p \in missing
  /\ checked => \A p \in required : Granted(p) \/ p \in missing
  /\ checked /\ pc # "refused" => missing = {}
  /\ pc = "refused" => checked
  /\ pc \in {"ask", "review"} => ~checked /\ forbidden = {}

\* The run asks only for the types of its arguments, and for what they need.
RunIsOfTypes ==
  /\ reap \subseteq Reaped
  /\ unread \subseteq Needs(Reaped \cap FlaggedKinds)
  /\ versions # <<>> => "Secret" \in Reaped

PInv == TypeOK /\ RequiredIsExact /\ ReviewIsExact /\ RunIsOfTypes /\ CheckedRunIsNotForbidden

-----------------------------------------------------------------------------
(* Nothing the definitions below depend on ever changes.                   *)

LEMMA InstanceIsFixed ==
  ASSUME UNCHANGED instance
  PROVE  /\ Named' = Named /\ Types' = Types /\ Reaped' = Reaped
         /\ Base' = Base /\ Gaps' = Gaps
         /\ \A p : Granted(p)' <=> Granted(p)
         /\ \A g : GroupServed(g)' <=> GroupServed(g)
<1>1. Named' = Named /\ Types' = Types
  BY ArgumentsAreFixed
<1>2. Reaped' = Reaped
  BY <1>1 DEF Reaped
<1>3. PermissionsForKinds(Named, opts.dryRun = "none")' = PermissionsForKinds(Named, opts.dryRun = "none")
  BY <1>1 DEF PermissionsForKinds, PermissionsForKind
<1>4. \A g : GroupServed(g)' <=> GroupServed(g)
  BY DEF GroupServed
<1>5. \A p : Granted(p)' <=> Granted(p)
  BY DEF Granted, Wide
<1>6. Unreviewed' = Unreviewed
  BY <1>1, <1>2 DEF Unreviewed, UnreviewedTypes, UnreviewedSources
<1>7. Gaps' = Gaps
  BY <1>1, <1>2, <1>3, <1>4, <1>6 DEF Gaps, ScaleLookup, DryDeletes, UnservedGroups
<1>8. QED
  BY <1>1, <1>2, <1>3, <1>4, <1>5, <1>7 DEF Base

LEMMA TailElements ==
  ASSUME NEW S, NEW seq \in Seq(S), seq # <<>>
  PROVE  /\ Head(seq) \in Elements(seq)
         /\ Elements(Tail(seq)) \subseteq Elements(seq)
         /\ Elements(seq) = {Head(seq)} \cup Elements(Tail(seq))
<1>1. Len(seq) \in Nat /\ Len(seq) > 0 /\ DOMAIN seq = 1..Len(seq)
  OBVIOUS
<1>2. /\ Tail(seq) \in Seq(S) /\ DOMAIN Tail(seq) = 1..(Len(seq) - 1)
      /\ \A i \in 1..(Len(seq) - 1) : Tail(seq)[i] = seq[i + 1]
  BY <1>1
<1>3. Head(seq) = seq[1]
  OBVIOUS
<1>4. Head(seq) \in Elements(seq)
  BY <1>1, <1>3 DEF Elements
<1>5. Elements(Tail(seq)) \subseteq Elements(seq)
  <2>1. SUFFICES ASSUME NEW i \in 1..(Len(seq) - 1) PROVE Tail(seq)[i] \in Elements(seq)
    BY <1>2 DEF Elements
  <2>2. i + 1 \in DOMAIN seq /\ Tail(seq)[i] = seq[i + 1]
    BY <1>1, <1>2
  <2>3. QED
    BY <2>2 DEF Elements
<1>6. Elements(seq) \subseteq {Head(seq)} \cup Elements(Tail(seq))
  <2>1. SUFFICES ASSUME NEW i \in DOMAIN seq PROVE seq[i] \in {Head(seq)} \cup Elements(Tail(seq))
    BY DEF Elements
  <2>2. CASE i = 1
    BY <1>3, <2>2
  <2>3. CASE i # 1
    <3>1. i - 1 \in 1..(Len(seq) - 1) /\ Tail(seq)[i - 1] = seq[i]
      BY <1>1, <1>2, <2>1, <2>3
    <3>2. QED
      BY <1>2, <3>1 DEF Elements
  <2>4. QED
    BY <2>2, <2>3
<1>7. QED
  BY <1>4, <1>5, <1>6

-----------------------------------------------------------------------------
(* The heart of the argument: a user who passed the check may make every   *)
(* request of the run but those in Gaps.                                   *)

LEMMA BaseContents ==
  ASSUME NEW k \in Named
  PROVE  /\ List(KindResource[k]) \in Base
         /\ opts.dryRun = "none" => Delete(KindResource[k]) \in Base
         /\ \A r \in ReferenceSources(k) : List(r) \in Base
<1>1. PermissionsForKind(k, opts.dryRun = "none") \subseteq Base
  BY DEF Base, PermissionsForKinds
<1>2. QED
  BY <1>1 DEF PermissionsForKind

\* Whatever the tables and the cluster call for was reviewed, and granted.
LEMMA ReviewedIsGranted ==
  ASSUME PInv, checked, pc # "refused"
  PROVE  /\ \A p \in Base : Granted(p)
         /\ \A s \in Needs(Named \cap FlaggedKinds) \ {"externalSecrets"} :
              Granted(List(SourceResource[s]))
         /\ "Secret" \in Named =>
              \A g \in Groups : GroupServed(g) => Granted(List(ExternalSecrets[g]))
<1>1. \A p \in required : Granted(p)
  BY DEF PInv, ReviewIsExact
<1>2. \A p \in Base : Granted(p)
  BY <1>1 DEF PInv, RequiredIsExact
<1>3. ASSUME NEW s \in Needs(Named \cap FlaggedKinds) \ {"externalSecrets"}
      PROVE Granted(List(SourceResource[s]))
  <2>1. PICK k \in Named \cap FlaggedKinds : SourceResource[s] \in ReferenceSources(k)
    BY NeedsAreInTables
  <2>2. QED
    BY <1>2, <2>1, BaseContents
<1>4. ASSUME "Secret" \in Named, NEW g \in Groups, GroupServed(g)
      PROVE Granted(List(ExternalSecrets[g]))
  <2>1. toAsk = <<>>
    BY DEF PInv, RequiredIsExact, ReviewIsExact
  <2>2. List(ExternalSecrets[g]) \in required
    BY <1>4, <2>1 DEF PInv, RequiredIsExact, Elements
  <2>3. QED
    BY <1>1, <2>2
<1>5. QED
  BY <1>2, <1>3, <1>4

LEMMA Covered ==
  ASSUME PInv, checked, pc # "refused"
  PROVE  /\ \A t \in Types : Granted(List(t.resource)) \/ List(t.resource) \in Gaps
         /\ \A t \in Types : Granted(Delete(t.resource)) \/ Delete(t.resource) \in Gaps
         /\ \A s \in Needs(Reaped \cap FlaggedKinds) \ {"externalSecrets"} :
              Granted(List(SourceResource[s])) \/ List(SourceResource[s]) \in Gaps
         /\ "Secret" \in Reaped =>
              \A g \in Groups : Granted(List(ExternalSecrets[g])) \/ List(ExternalSecrets[g]) \in Gaps
         /\ "HorizontalPodAutoscaler" \in Reaped => Granted(Get(ScaleTarget)) \/ Get(ScaleTarget) \in Gaps
<1>1. \A p \in Unreviewed \cup ScaleLookup \cup DryDeletes \cup UnservedGroups :
        Granted(p) \/ p \in Gaps
  BY ReviewedIsGranted DEF Gaps, Base
<1>2. ASSUME NEW t \in Types
      PROVE  /\ Granted(List(t.resource)) \/ List(t.resource) \in Gaps
             /\ Granted(Delete(t.resource)) \/ Delete(t.resource) \in Gaps
  <2>1. CASE t \in UnreviewedTypes
    BY <1>1, <2>1 DEF Unreviewed
  <2>2. ASSUME NEW k \in Named, t = TypeOf(k)
        PROVE  /\ Granted(List(t.resource))
               /\ Granted(Delete(t.resource)) \/ Delete(t.resource) \in Gaps
    <3>1. t.resource = KindResource[k]
      BY <2>2 DEF TypeOf
    <3>2. Granted(List(t.resource))
      BY <3>1, BaseContents, ReviewedIsGranted
    <3>3. CASE opts.dryRun = "none"
      BY <3>1, <3>2, <3>3, BaseContents, ReviewedIsGranted
    <3>4. CASE opts.dryRun # "none"
      BY <1>1, <3>1, <3>2, <3>4 DEF DryDeletes
    <3>5. QED
      BY <3>3, <3>4
  <2>3. QED
    BY <2>1, <2>2 DEF UnreviewedTypes
<1>3. ASSUME NEW s \in Needs(Reaped \cap FlaggedKinds) \ {"externalSecrets"}
      PROVE Granted(List(SourceResource[s])) \/ List(SourceResource[s]) \in Gaps
  <2>1. CASE s \in Needs(Named \cap FlaggedKinds)
    BY <2>1, ReviewedIsGranted
  <2>2. CASE s \notin Needs(Named \cap FlaggedKinds)
    BY <1>1, <2>2 DEF Unreviewed, UnreviewedSources
  <2>3. QED
    BY <2>1, <2>2
<1>4. ASSUME "Secret" \in Reaped, NEW g \in Groups
      PROVE Granted(List(ExternalSecrets[g])) \/ List(ExternalSecrets[g]) \in Gaps
  <2>1. CASE "Secret" \in Named /\ GroupServed(g)
    BY <2>1, ReviewedIsGranted
  <2>2. CASE "Secret" \in Named /\ ~GroupServed(g)
    BY <1>1, <2>2 DEF UnservedGroups
  <2>3. CASE "Secret" \notin Named
    <3>1. "externalSecrets" \in UnreviewedSources
      BY <1>4, <2>3, ExternalSecretsNeedSecrets
         DEF UnreviewedSources, Needs, SecretSources, ListedSources, FlaggedKinds
    <3>2. QED
      BY <1>1, <3>1 DEF Unreviewed
  <2>4. QED
    BY <2>1, <2>2, <2>3
<1>5. "HorizontalPodAutoscaler" \in Reaped => Granted(Get(ScaleTarget)) \/ Get(ScaleTarget) \in Gaps
  BY <1>1 DEF ScaleLookup
<1>6. QED
  BY <1>2, <1>3, <1>4, <1>5

-----------------------------------------------------------------------------
LEMMA InitInv == Init => PInv
<1>1. SUFFICES ASSUME Init PROVE PInv
  OBVIOUS
<1>2. TypeOK /\ required = Base
  BY <1>1, InitType DEF Init, Base
<1>3. Elements(ExternalSecretGroups) = Groups
  BY DEF Elements, Groups
<1>4. RequiredIsExact
  <2>1. pc # "ask" => "Secret" \notin Named
    BY <1>1 DEF Init
  <2>2. "Secret" \in Named => Elements(toAsk) = Groups
    BY <1>1, <1>3 DEF Init
  <2>3. toAsk # <<>> => "Secret" \in Named
    BY <1>1 DEF Init
  <2>4. pc # "ask" => toAsk = <<>>
    BY <1>1, <2>1 DEF Init
  <2>5. QED
    BY <1>2, <2>2, <2>3, <2>4 DEF RequiredIsExact
<1>5. ReviewIsExact
  BY <1>1 DEF Init, ReviewIsExact
<1>6. RunIsOfTypes /\ CheckedRunIsNotForbidden
  BY <1>1 DEF Init, RunIsOfTypes, CheckedRunIsNotForbidden
<1>7. QED
  BY <1>2, <1>4, <1>5, <1>6 DEF PInv

LEMMA CheckInv == PInv /\ CheckStep => PInv'
<1>1. SUFFICES ASSUME PInv, CheckStep PROVE PInv'
  OBVIOUS
<1>2. TypeOK'
  BY <1>1, CheckType DEF PInv
<1>3. UNCHANGED instance /\ UNCHANGED visit /\ UNCHANGED collection /\ UNCHANGED forbidden
  BY <1>1 DEF CheckStep, DiscoveryFails, AskGroup, StartReview, Review, ReviewFails, CheckDone
<1>4. RunIsOfTypes'
  BY <1>1, <1>3, InstanceIsFixed DEF PInv, RunIsOfTypes
<1>5. ASSUME toAsk # <<>>
      PROVE  /\ Head(toAsk) \in Groups /\ "Secret" \in Named
             /\ Elements(toAsk) = {Head(toAsk)} \cup Elements(Tail(toAsk))
  <2>1. toAsk \in Seq(Groups)
    BY <1>1 DEF PInv, TypeOK
  <2>2. Head(toAsk) \in Groups
    BY <1>5, <2>1
  <2>3. QED
    BY <1>1, <1>5, <2>1, <2>2, TailElements DEF PInv, RequiredIsExact
<1>6. CASE DiscoveryFails
  <2>1. RequiredIsExact'
    BY <1>1, <1>3, <1>5, <1>6, InstanceIsFixed DEF PInv, RequiredIsExact, DiscoveryFails, Elements
  <2>2. ReviewIsExact' /\ CheckedRunIsNotForbidden'
    BY <1>1, <1>6 DEF PInv, ReviewIsExact, CheckedRunIsNotForbidden, DiscoveryFails
  <2>3. QED
    BY <1>2, <1>4, <2>1, <2>2 DEF PInv
<1>7. CASE AskGroup
  <2>1. RequiredIsExact'
    BY <1>1, <1>3, <1>5, <1>7, InstanceIsFixed DEF PInv, RequiredIsExact, AskGroup, Elements
  <2>2. ReviewIsExact' /\ CheckedRunIsNotForbidden'
    BY <1>1, <1>7 DEF PInv, ReviewIsExact, CheckedRunIsNotForbidden, AskGroup
  <2>3. QED
    BY <1>2, <1>4, <2>1, <2>2 DEF PInv
<1>8. CASE StartReview
  <2>1. RequiredIsExact'
    BY <1>1, <1>3, <1>8, InstanceIsFixed DEF PInv, RequiredIsExact, StartReview, Elements
  <2>2. ReviewIsExact' /\ CheckedRunIsNotForbidden'
    BY <1>1, <1>8 DEF PInv, ReviewIsExact, CheckedRunIsNotForbidden, StartReview
  <2>3. QED
    BY <1>2, <1>4, <2>1, <2>2 DEF PInv
<1>9. CASE Review
  <2>1. RequiredIsExact'
    BY <1>1, <1>3, <1>9, InstanceIsFixed DEF PInv, RequiredIsExact, Review, Elements
  <2>2. ReviewIsExact' /\ CheckedRunIsNotForbidden'
    BY <1>1, <1>3, <1>9, InstanceIsFixed DEF PInv, ReviewIsExact, CheckedRunIsNotForbidden, Review
  <2>3. QED
    BY <1>2, <1>4, <2>1, <2>2 DEF PInv
<1>10. CASE ReviewFails
  <2>1. RequiredIsExact'
    BY <1>1, <1>3, <1>10, InstanceIsFixed DEF PInv, RequiredIsExact, ReviewFails, Elements
  <2>2. ReviewIsExact' /\ CheckedRunIsNotForbidden'
    BY <1>1, <1>10 DEF PInv, ReviewIsExact, CheckedRunIsNotForbidden, ReviewFails
  <2>3. QED
    BY <1>2, <1>4, <2>1, <2>2 DEF PInv
<1>11. CASE CheckDone
  <2>1. RequiredIsExact'
    BY <1>1, <1>3, <1>11, InstanceIsFixed DEF PInv, RequiredIsExact, CheckDone, Elements
  <2>2. ReviewIsExact' /\ CheckedRunIsNotForbidden'
    BY <1>1, <1>3, <1>11, InstanceIsFixed DEF PInv, ReviewIsExact, CheckedRunIsNotForbidden, CheckDone
  <2>3. QED
    BY <1>2, <1>4, <2>1, <2>2 DEF PInv
<1>12. QED
  BY <1>1, <1>6, <1>7, <1>8, <1>9, <1>10, <1>11 DEF CheckStep

\* A step of the run touches nothing of the check.
LEMMA RunKeepsCheck ==
  ASSUME PInv, UNCHANGED instance, UNCHANGED check,
         pc \notin {"ask", "review", "refused"}, pc' \notin {"ask", "review", "refused"}
  PROVE  RequiredIsExact' /\ ReviewIsExact'
<1>1. RequiredIsExact'
  BY InstanceIsFixed DEF PInv, RequiredIsExact, Elements
<1>2. ReviewIsExact'
  BY InstanceIsFixed DEF PInv, ReviewIsExact
<1>3. QED
  BY <1>1, <1>2

\* A request that is granted or in Gaps keeps the promise.
LEMMA AskIsCovered ==
  ASSUME PInv, UNCHANGED instance, UNCHANGED check, NEW p, Ask(p),
         pc \notin {"ask", "review", "refused"}, pc' \notin {"ask", "review", "refused"},
         checked => Granted(p) \/ p \in Gaps
  PROVE  CheckedRunIsNotForbidden'
<1>1. Gaps' = Gaps
  BY InstanceIsFixed
<1>2. QED
  BY <1>1 DEF PInv, CheckedRunIsNotForbidden, Ask

LEMMA RunInv == PInv /\ RunStep => PInv'
<1>1. SUFFICES ASSUME PInv, RunStep PROVE PInv'
  OBVIOUS
<1>2. TypeOK'
  BY <1>1, RunType DEF PInv
<1>3. /\ UNCHANGED instance /\ UNCHANGED check
      /\ pc \notin {"ask", "review", "refused"} /\ pc' \notin {"ask", "review", "refused"}
  BY <1>1 DEF RunStep, SurveyKind, SurveyFailed, StartCollecting, ListSource, NextSource,
     ListExternalSecrets, ExternalSecretsListed, StartVisiting, ListKind, LookUpScaleTarget,
     SendDelete, NoRule, RunDone
<1>4. RequiredIsExact' /\ ReviewIsExact'
  BY <1>1, <1>3, RunKeepsCheck
<1>5. Reaped' = Reaped /\ Gaps' = Gaps
  BY <1>3, InstanceIsFixed
<1>6. SUFFICES RunIsOfTypes' /\ CheckedRunIsNotForbidden'
  BY <1>2, <1>4 DEF PInv
<1>7. UNCHANGED forbidden => CheckedRunIsNotForbidden'
  BY <1>1, <1>3, <1>5 DEF PInv, CheckedRunIsNotForbidden
<1>8. UNCHANGED collection => RunIsOfTypes'
  BY <1>1, <1>5 DEF PInv, RunIsOfTypes
<1>9. ASSUME NEW t \in Types, SurveyKind(t)
      PROVE  RunIsOfTypes' /\ CheckedRunIsNotForbidden'
  <2>1. CheckedRunIsNotForbidden'
    BY <1>1, <1>3, <1>9, AskIsCovered, Covered DEF SurveyKind
  <2>2. RunIsOfTypes'
    BY <1>1, <1>5, <1>9 DEF PInv, RunIsOfTypes, SurveyKind, Reaped
  <2>3. QED
    BY <2>1, <2>2
<1>10. CASE StartCollecting
  <2>1. reap \subseteq Reaped \cap FlaggedKinds
    BY <1>1 DEF PInv, TypeOK, RunIsOfTypes
  <2>2. unread' \subseteq Needs(Reaped \cap FlaggedKinds)
    BY <1>10, <2>1, NeedsGrow DEF StartCollecting
  <2>3. versions' # <<>> => "Secret" \in Reaped
    BY <1>10, <2>1, ExternalSecretsNeedSecrets DEF StartCollecting
  <2>4. RunIsOfTypes'
    BY <1>1, <1>5, <1>10, <2>2, <2>3 DEF PInv, RunIsOfTypes, StartCollecting
  <2>5. QED
    BY <1>7, <1>10, <2>4 DEF StartCollecting
<1>11. ASSUME NEW s \in ListedSources, ListSource(s)
       PROVE  RunIsOfTypes' /\ CheckedRunIsNotForbidden'
  <2>1. s \in Needs(Reaped \cap FlaggedKinds) \ {"externalSecrets"}
    BY <1>1, <1>11 DEF PInv, RunIsOfTypes, ListSource, NextSource
  <2>2. CheckedRunIsNotForbidden'
    BY <1>1, <1>3, <1>11, <2>1, AskIsCovered, Covered DEF ListSource
  <2>3. RunIsOfTypes'
    BY <1>1, <1>5, <1>11 DEF PInv, RunIsOfTypes, ListSource
  <2>4. QED
    BY <2>2, <2>3
<1>12. CASE ListExternalSecrets
  <2>1. "Secret" \in Reaped /\ Head(versions).group \in Groups
    <3>1. Head(versions) \in Versions
      BY <1>1, <1>12 DEF PInv, TypeOK, ListExternalSecrets
    <3>2. QED
      BY <1>1, <1>12, <3>1 DEF PInv, RunIsOfTypes, ListExternalSecrets, Versions
  <2>2. CheckedRunIsNotForbidden'
    BY <1>1, <1>3, <1>12, <2>1, AskIsCovered, Covered DEF ListExternalSecrets
  <2>3. RunIsOfTypes'
    BY <1>1, <1>5, <1>12, <2>1 DEF PInv, RunIsOfTypes, ListExternalSecrets
  <2>4. QED
    BY <2>2, <2>3
<1>13. ASSUME NEW t \in Types, ListKind(t)
       PROVE  RunIsOfTypes' /\ CheckedRunIsNotForbidden'
  <2>1. CheckedRunIsNotForbidden'
    BY <1>1, <1>3, <1>13, AskIsCovered, Covered DEF ListKind
  <2>2. QED
    BY <1>8, <1>13, <2>1 DEF ListKind
<1>14. CASE LookUpScaleTarget
  <2>1. "HorizontalPodAutoscaler" \in Reaped
    <3>1. cur # NoType
      BY <1>14 DEF LookUpScaleTarget, NoType
    <3>2. QED
      BY <1>1, <1>14, <3>1 DEF PInv, TypeOK, LookUpScaleTarget, Reaped
  <2>2. CheckedRunIsNotForbidden'
    BY <1>1, <1>3, <1>14, <2>1, AskIsCovered, Covered DEF LookUpScaleTarget
  <2>3. QED
    BY <1>8, <1>14, <2>2 DEF LookUpScaleTarget
<1>15. CASE SendDelete
  <2>1. cur \in Types
    <3>1. cur # NoType
      BY <1>15 DEF SendDelete, NoType, SupportedKinds
    <3>2. QED
      BY <1>1, <3>1 DEF PInv, TypeOK
  <2>2. CheckedRunIsNotForbidden'
    BY <1>1, <1>3, <1>15, <2>1, AskIsCovered, Covered DEF SendDelete
  <2>3. QED
    BY <1>8, <1>15, <2>2 DEF SendDelete
<1>16. CASE SurveyFailed \/ ExternalSecretsListed \/ StartVisiting \/ NoRule \/ RunDone
  <2>1. RunIsOfTypes' /\ UNCHANGED forbidden
    BY <1>1, <1>5, <1>16
       DEF PInv, RunIsOfTypes, SurveyFailed, ExternalSecretsListed, StartVisiting, NoRule, RunDone
  <2>2. QED
    BY <1>7, <2>1
<1>17. QED
  BY <1>1, <1>9, <1>10, <1>11, <1>12, <1>13, <1>14, <1>15, <1>16 DEF RunStep

LEMMA SpecInv == Spec => []PInv
<1>1. PInv /\ UNCHANGED vars => PInv'
  <2>1. SUFFICES ASSUME PInv, UNCHANGED vars PROVE PInv'
    OBVIOUS
  <2>2. TypeOK'
    BY <2>1, ArgumentsAreFixed DEF PInv, TypeOK
  <2>3. RequiredIsExact' /\ ReviewIsExact'
    BY <2>1, InstanceIsFixed DEF PInv, RequiredIsExact, ReviewIsExact, Elements
  <2>4. RunIsOfTypes' /\ CheckedRunIsNotForbidden'
    BY <2>1, InstanceIsFixed DEF PInv, RunIsOfTypes, CheckedRunIsNotForbidden, Elements
  <2>5. QED
    BY <2>2, <2>3, <2>4 DEF PInv
<1>2. PInv /\ [Next]_vars => PInv'
  BY <1>1, CheckInv, RunInv DEF Next, Terminated
<1>3. QED
  BY <1>2, InitInv, PTL DEF Spec

\* After a complete check no request is forbidden but those in Gaps, whatever
\* the arguments stand for and whichever types turn out to have objects.
THEOREM CheckIsSufficient == Spec => []CheckedRunIsNotForbidden
<1>1. PInv => CheckedRunIsNotForbidden
  BY DEF PInv
<1>2. QED
  BY <1>1, SpecInv, PTL

\* Arguments that are supported kinds in their own groups leave nothing
\* unreviewed.
LEMMA OrdinaryIsReviewed == Ordinary => Unreviewed = {} /\ UnreviewedSources = {}
<1>1. SUFFICES ASSUME Ordinary PROVE Unreviewed = {} /\ UnreviewedSources = {}
  OBVIOUS
<1>2. \A t \in Types : \E k \in Named : t = TypeOf(k)
  <2>1. SUFFICES ASSUME NEW a \in opts.args, NEW t \in Builder[a] PROVE \E k \in Named : t = TypeOf(k)
    BY DEF Types
  <2>2. PICK k \in KindForArg(a) : Builder[a] = {TypeOf(k)}
    BY <1>1 DEF Ordinary
  <2>3. k \in Named /\ t = TypeOf(k)
    BY <2>2 DEF Named
  <2>4. QED
    BY <2>3
<1>3. UnreviewedTypes = {}
  BY <1>2 DEF UnreviewedTypes
<1>4. Reaped \subseteq Named
  BY <1>2 DEF Reaped, TypeOf
<1>5. UnreviewedSources = {}
  <2>1. Needs(Reaped \cap FlaggedKinds) \subseteq Needs(Named \cap FlaggedKinds)
    BY <1>4, NeedsGrow
  <2>2. QED
    BY <2>1 DEF UnreviewedSources
<1>6. QED
  BY <1>3, <1>5 DEF Unreviewed

\* With such arguments only three things can be forbidden after a complete
\* check: the lookup of a scale target, the delete requests of a dry run, and
\* the ExternalSecrets of an operator that is not installed.
THEOREM OrdinaryRunIsNotForbidden ==
  Spec => [](Ordinary /\ checked /\ pc # "refused" =>
               forbidden \subseteq ScaleLookup \cup DryDeletes \cup UnservedGroups)
<1>1. PInv => (Ordinary /\ checked /\ pc # "refused" =>
                 forbidden \subseteq ScaleLookup \cup DryDeletes \cup UnservedGroups)
  BY OrdinaryIsReviewed DEF PInv, CheckedRunIsNotForbidden, Gaps
<1>2. QED
  BY <1>1, SpecInv, PTL

\* The tables name nothing else, except for PersistentVolumeClaims and for the
\* namesakes of foreign resources.
THEOREM CheckIsNecessary == Spec => []RefusalIsJustified
<1>1. ASSUME PInv PROVE RefusalIsJustified
  <2>1. SUFFICES ASSUME NEW p \in Base
                 PROVE  \/ p \in ListsOfRun
                        \/ opts.dryRun = "none" /\ \E t \in Types : p = Delete(t.resource)
                        \/ "PersistentVolumeClaim" \in Named /\ p.resource \in WorkloadLists
                        \/ \E k \in Named : /\ TypeOf(k) \notin Types
                                            /\ p \in PermissionsForKind(k, opts.dryRun = "none")
    BY <1>1 DEF PInv, TypeOK, RequiredIsExact, RefusalIsJustified
  <2>2. PICK k \in Named : p \in PermissionsForKind(k, opts.dryRun = "none")
    BY DEF Base, PermissionsForKinds
  <2>3. SUFFICES ASSUME TypeOf(k) \in Types
                 PROVE  \/ p \in ListsOfRun
                        \/ opts.dryRun = "none" /\ \E t \in Types : p = Delete(t.resource)
                        \/ "PersistentVolumeClaim" \in Named /\ p.resource \in WorkloadLists
    BY <2>2
  <2>4. TypeOf(k).resource = KindResource[k] /\ k \in Reaped
    BY <2>3 DEF TypeOf, Reaped
  <2>5. CASE p = List(KindResource[k])
    BY <2>3, <2>4, <2>5 DEF ListsOfRun
  <2>6. CASE opts.dryRun = "none" /\ p = Delete(KindResource[k])
    BY <2>3, <2>4, <2>6
  <2>7. ASSUME NEW r \in ReferenceSources(k), p = List(r)
        PROVE  \/ p \in ListsOfRun
               \/ "PersistentVolumeClaim" \in Named /\ p.resource \in WorkloadLists
    <3>1. CASE k = "PersistentVolumeClaim"
      BY <2>2, <2>7, <3>1 DEF ReferenceSources, List
    <3>2. CASE k # "PersistentVolumeClaim"
      <4>1. PICK s \in Needs(Reaped \cap FlaggedKinds) \ {"externalSecrets"} : r = SourceResource[s]
        <5>1. k \in Reaped \cap FlaggedKinds
          BY <2>4, <2>7 DEF ReferenceSources, FlaggedKinds
        <5>2. PICK s \in Needs({k}) \ {"externalSecrets"} : r = SourceResource[s]
          BY <2>7, <3>2, <5>1, SourceNames
          DEF ReferenceSources, WorkloadLists, FlaggedKinds, Needs, NeedsPods, NeedsRevisions,
              NeedsPodTemplates, ListedSources, TemplateSources, SecretSources
        <5>3. QED
          BY <5>1, <5>2, NeedsGrow
      <4>2. QED
        BY <2>7, <4>1 DEF ListsOfRun
    <3>3. QED
      BY <3>1, <3>2
  <2>8. QED
    BY <2>2, <2>5, <2>6, <2>7 DEF PermissionsForKind
<1>2. QED
  BY <1>1, SpecInv, PTL

\* Who is granted what a report names is not refused again.
THEOREM ReportIsTheWholeList == Spec => []ReportIsComplete
<1>1. ASSUME PInv PROVE ReportIsComplete
  <2>1. SUFFICES ASSUME pc = "refused" PROVE ReportIsComplete
    BY DEF ReportIsComplete
  <2>2. toAsk = <<>> /\ \A p \in required : Granted(p) \/ p \in missing
    BY <1>1, <2>1 DEF PInv, RequiredIsExact, ReviewIsExact
  <2>3. QED
    BY <1>1, <2>2 DEF PInv, RequiredIsExact, ReportIsComplete, Base, Elements
<1>2. QED
  BY <1>1, SpecInv, PTL

\* A run that passed a complete check fails on no reference source that a kind
\* named to the check needs, but the ExternalSecrets of an operator that is not
\* installed, which its user may not list; other sources are needed only by
\* kinds that a category or a foreign resource brought in
\* (collectReferences, ListExternalSecrets, groupServed, KindForArg).
THEOREM CheckedRunReadsItsSources ==
  Spec => [][checked /\ pc = "collect" /\ pc' = "failed" =>
               \/ \E g \in Groups : /\ ~Granted(List(ExternalSecrets[g]))
                                    /\ ~GroupServed(g) \/ "Secret" \notin Named
               \/ \E s \in UnreviewedSources \ {"externalSecrets"} :
                    ~Granted(List(SourceResource[s]))]_vars
<1>1. ASSUME PInv, [Next]_vars, checked, pc = "collect", pc' = "failed"
      PROVE  \/ \E g \in Groups : /\ ~Granted(List(ExternalSecrets[g]))
                                  /\ ~GroupServed(g) \/ "Secret" \notin Named
             \/ \E s \in UnreviewedSources \ {"externalSecrets"} : ~Granted(List(SourceResource[s]))
  <2>1. ASSUME NEW s \in ListedSources, ListSource(s)
        PROVE  s \in UnreviewedSources \ {"externalSecrets"} /\ ~Granted(List(SourceResource[s]))
    <3>1. ~Granted(List(SourceResource[s])) /\ s \in unread /\ s # "externalSecrets"
      BY <1>1, <2>1 DEF ListSource, NextSource
    <3>2. s \in Needs(Reaped \cap FlaggedKinds)
      BY <1>1, <3>1 DEF PInv, RunIsOfTypes
    <3>3. s \notin Needs(Named \cap FlaggedKinds)
      BY <1>1, <3>1, ReviewedIsGranted
    <3>4. QED
      BY <3>1, <3>2, <3>3 DEF UnreviewedSources
  <2>2. CASE ListExternalSecrets
    <3>1. Head(versions).group \in Groups
      <4>1. Head(versions) \in Versions
        BY <1>1, <2>2 DEF PInv, ListExternalSecrets, TypeOK
      <4>2. QED
        BY <4>1 DEF Versions
    <3>2. ~Granted(List(ExternalSecrets[Head(versions).group]))
      BY <1>1, <2>2 DEF ListExternalSecrets
    <3>3. ~("Secret" \in Named /\ GroupServed(Head(versions).group))
      BY <1>1, <3>1, <3>2, ReviewedIsGranted
    <3>4. QED
      BY <3>1, <3>2, <3>3
  <2>3. QED
    BY <1>1, <2>1, <2>2
       DEF Next, CheckStep, DiscoveryFails, AskGroup, StartReview, Review, ReviewFails, CheckDone,
           RunStep, SurveyKind, SurveyFailed, StartCollecting, ExternalSecretsListed,
           StartVisiting, ListKind, LookUpScaleTarget, SendDelete, NoRule, RunDone, Terminated,
           Ended
<1>2. QED
  BY <1>1, SpecInv, PTL DEF Spec
=============================================================================
