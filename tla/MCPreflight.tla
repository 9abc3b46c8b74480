----------------------------- MODULE MCPreflight -----------------------------
(* Small instances of Preflight.                                           *)
EXTENDS Preflight

Arg(k) == [name |-> PluralName[k], group |-> ""]
Category == [name |-> "all", group |-> ""]
Widgets == [name |-> "widgets", group |-> "example.com"]
VolcanoJobs == [name |-> "jobs", group |-> "batch.volcano.sh"]
CalicoPolicies == [name |-> "networkpolicies", group |-> "crd.projectcalico.org"]

Foreign == {"widgets.example.com", "jobs.batch.volcano.sh", "networkpolicies.crd.projectcalico.org"}

\* A category, here shortened, stands for several kinds with a rule and one
\* without; a resource may share the name and the kind of a built-in one.
Discovery ==
  [a \in {Arg(k) : k \in SupportedKinds} \cup {Category, Widgets, VolcanoJobs, CalicoPolicies} |->
     CASE a = Category ->
            {TypeOf("Pod"), TypeOf("ReplicaSet"), TypeOf("HorizontalPodAutoscaler"),
             [resource |-> "deployments.apps", kind |-> "Other"]}
       [] a = Widgets -> {[resource |-> "widgets.example.com", kind |-> "Other"]}
       [] a = VolcanoJobs -> {[resource |-> "jobs.batch.volcano.sh", kind |-> "Job"]}
       [] a = CalicoPolicies ->
            {[resource |-> "networkpolicies.crd.projectcalico.org", kind |-> "NetworkPolicy"]}
       [] OTHER -> {TypeOf(k) : k \in KindForArg(a)}]

Plain(args) == [args |-> args, wide |-> FALSE, dryRun |-> "none", quiet |-> FALSE]

\* Each kind alone, and the combinations in which one kind's sources are a
\* part of another's; arguments that the check misreads, alone and next to one
\* it does not; every dry-run strategy; one namespace and all.
EachKind == {Plain({Arg(k)}) : k \in SupportedKinds}
Mixed == {Plain({Arg("PersistentVolumeClaim"), Arg("NetworkPolicy")}), Plain({Widgets, Arg("ReplicaSet")})}
Misread ==
  {Plain({Widgets}), Plain({Category}), Plain({VolcanoJobs}), Plain({CalicoPolicies}),
   Plain({Arg("PodDisruptionBudget"), Category}), Plain({VolcanoJobs, Arg("Job")})}
Dry ==
  {[Plain({Arg(k)}) EXCEPT !.dryRun = d, !.quiet = q] :
     k \in {"Pod", "Secret"}, d \in {"client", "server"}, q \in BOOLEAN}
AllConfigs ==
  EachKind \cup Mixed \cup Misread \cup Dry
  \cup {[Plain({Arg(k)}) EXCEPT !.wide = TRUE] : k \in {"ConfigMap", "PersistentVolume"}}

\* Users who may do everything but one thing, in the namespace of the run or
\* everywhere, and users who hold grants in one of the two only.
Everything == Permissions
Reader == {p \in Permissions : p.verb # "delete"}
Asked ==
  {List(r) : r \in Resources}
  \cup {Delete(r) : r \in KindResources \cup ForeignResources} \cup {Get(ScaleTarget)}
VolumeGrants == {List("persistentvolumes"), Delete("persistentvolumes")}
AlmostAll ==
  {[here |-> Everything \ {p}, everywhere |-> VolumeGrants \ {p}] : p \in Asked}
AllUsers ==
  AlmostAll \cup
  {[here |-> {}, everywhere |-> Everything], [here |-> Everything, everywhere |-> {}],
   [here |-> {}, everywhere |-> Reader], [here |-> {}, everywhere |-> {}],
   [here |-> Reader \ {List("pods"), List("ingresses.networking.k8s.io")}, everywhere |-> {}]}

NotOurs == [group |-> "external-secrets.io", version |-> "v1alpha1"]
AllClusters ==
  {{}, {ExternalSecretVersions[1], ExternalSecretVersions[2]}, {ExternalSecretVersions[3]}, {NotOurs}}

(* A user who may read everything except the ExternalSecrets of an operator *)
(* that is not installed.                                                   *)
OneSecretConfig == {Plain({Arg("Secret")})}
NoOperatorNoGrant ==
  {[here |-> Everything \ {List(r) : r \in ExternalResources}, everywhere |-> {}]}
NoOperator == {{}}
=============================================================================
