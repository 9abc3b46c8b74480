---------------------------- MODULE HarvestKinds ----------------------------
(***************************************************************************)
(* The resource kinds a run can reap, the reference sources it can list,   *)
(* and the two tables of pkg/determiner that tie them together: which      *)
(* sources are listed for the kinds found (New, collectReferences), and    *)
(* which of the listed sources the decision about one kind looks at        *)
(* (the detectUsed and determineDeletion functions).                       *)
(***************************************************************************)
EXTENDS Naturals

\* Kinds the determiner has a rule for.
SupportedKinds ==
  {"Pod", "ReplicaSet", "ConfigMap", "Secret", "PersistentVolume",
   "PersistentVolumeClaim", "Job", "PodDisruptionBudget",
   "HorizontalPodAutoscaler", "NetworkPolicy"}

\* "Other" is any kind the API server knows and the determiner does not.
Kinds == SupportedKinds \cup {"Other"}

\* The kinds for which New keeps a reap flag; the rest need no reference.
FlaggedKinds ==
  {"ConfigMap", "Secret", "PersistentVolume", "PersistentVolumeClaim",
   "PodDisruptionBudget", "ReplicaSet", "NetworkPolicy"}

\* The Pod templates of the workloads, next to the Pods themselves.
TemplateSources ==
  {"replicaSets", "deployments", "statefulSets", "daemonSets", "jobs",
   "cronJobs"}

SecretSources == {"serviceAccounts", "ingresses", "externalSecrets"}

ListedSources ==
  {"pods", "persistentVolumeClaims"} \cup TemplateSources \cup SecretSources

\* An autoscaler's target is not listed: it is fetched when the autoscaler
\* is decided.
Sources == ListedSources \cup {"scaleTargets"}

\* The position of each list call in collectReferences.
ListOrder ==
  [s \in ListedSources |->
     CASE s = "pods"                   -> 1
       [] s = "replicaSets"            -> 2
       [] s = "deployments"            -> 3
       [] s = "statefulSets"           -> 4
       [] s = "daemonSets"             -> 5
       [] s = "jobs"                   -> 6
       [] s = "cronJobs"               -> 7
       [] s = "persistentVolumeClaims" -> 8
       [] s = "serviceAccounts"        -> 9
       [] s = "ingresses"              -> 10
       [] s = "externalSecrets"        -> 11]

\* The sources whose absence from the API server is not an error.
OptionalSources == {"cronJobs", "ingresses", "externalSecrets"}

-----------------------------------------------------------------------------
(* What New asks collectReferences to list.                                *)

\* Fault: NetworkPolicies came later and were forgotten here.
NeedsPodsNotForPolicies(reap) ==
  reap \cap {"ConfigMap", "Secret", "PersistentVolumeClaim", "PodDisruptionBudget"} # {}

NeedsPods(reap) ==
  reap \cap {"ConfigMap", "Secret", "PersistentVolumeClaim",
             "PodDisruptionBudget", "NetworkPolicy"} # {}

\* Fault: the templates are listed for ConfigMaps and forgotten for Secrets.
NeedsPodTemplatesForConfigMapsOnly(reap) == "ConfigMap" \in reap

NeedsPodTemplates(reap) == reap \cap {"ConfigMap", "Secret"} # {}

NeedsRevisions(reap) ==
  reap \cap {"ConfigMap", "Secret", "ReplicaSet"} # {}

Needs(reap) ==
  {s \in ListedSources :
     \/ s = "pods" /\ NeedsPods(reap)
     \/ s \in {"replicaSets", "deployments"} /\ NeedsRevisions(reap)
     \/ /\ s \in TemplateSources \ {"replicaSets", "deployments"}
        /\ NeedsPodTemplates(reap)
     \/ s = "persistentVolumeClaims" /\ "PersistentVolume" \in reap
     \/ s \in SecretSources /\ "Secret" \in reap}

\* The sources whose Pod specs end up in determiner.podSpecs: ReplicaSets
\* and Deployments may be listed for their revisions alone.
PodSpecSources(reap) ==
  {s \in Needs(reap) :
     s = "pods" \/ (s \in TemplateSources /\ NeedsPodTemplates(reap))}

\* The sources the decision about an object of the given kind looks at. A
\* used* map that New did not build is nil, and nothing is found in it.
Consulted(kind, reap) ==
  {s \in Needs(reap) :
     \/ /\ kind \in {"ConfigMap", "PersistentVolumeClaim", "Secret"}
        /\ kind \in reap
        /\ \/ s \in PodSpecSources(reap)
           \/ kind = "Secret" /\ s \in SecretSources
     \/ /\ kind \in {"PodDisruptionBudget", "NetworkPolicy"}
        /\ s \in PodSpecSources(reap)
     \/ kind = "PersistentVolume" /\ s = "persistentVolumeClaims"
     \/ kind = "ReplicaSet" /\ s = "deployments"}
=============================================================================
