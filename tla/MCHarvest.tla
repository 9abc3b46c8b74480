------------------------------ MODULE MCHarvest ------------------------------
(* Small instances of Harvest.                                             *)
EXTENDS HarvestContract

Obj(kind, ns, name) == [kind |-> kind, ns |-> ns, name |-> name]
Ref(source, o) == [kind |-> o.kind, ns |-> o.ns, name |-> o.name, source |-> source]

Plain(kinds, ns) ==
  [kinds |-> kinds, namespace |-> ns, dryRun |-> "none", quiet |-> FALSE,
   interactive |-> FALSE, wait |-> FALSE, skipControllerOwned |-> FALSE,
   authorized |-> TRUE]

-----------------------------------------------------------------------------
(* A ConfigMap and a Secret of one namespace, a ConfigMap of the same name *)
(* in another namespace and in kube-system; a claim that only a template   *)
(* refers to, which is scanned for it if there is a Secret to reap, too.   *)
cmWeb == Obj("ConfigMap", "app", "web")
cmDev == Obj("ConfigMap", "dev", "web")
cmSystem == Obj("ConfigMap", "kube-system", "web")
tls == Obj("Secret", "app", "tls")
pvcData == Obj("PersistentVolumeClaim", "app", "data")

NamedObjects == {cmWeb, cmDev, cmSystem, tls, pvcData}
NamedEdges ==
  {Ref("pods", cmWeb), Ref("cronJobs", cmWeb), Ref("replicaSets", pvcData)}
NamedConfigs ==
  {Plain(<<"ConfigMap">>, ""), Plain(<<"Secret", "PersistentVolumeClaim">>, "app")}

(* The flags: Pods, an autoscaler and a kind without a rule, reaped under  *)
(* every dry-run strategy, loud and quiet, waiting or not, with a prompt,  *)
(* by a user with and without the permissions.                             *)
podDone == Obj("Pod", "app", "done")
podOwned == Obj("Pod", "app", "owned")
hpaWeb == Obj("HorizontalPodAutoscaler", "app", "web")
crd == Obj("Other", "app", "crd")

FlagObjects == {podDone, podOwned, hpaWeb, crd}
FlagEdges == {Ref("scaleTargets", hpaWeb)}
FlagControlled == {podOwned}

PodsAndAutoscalers == Plain(<<"Pod", "HorizontalPodAutoscaler">>, "app")
FlagConfigs ==
  {[PodsAndAutoscalers EXCEPT !.dryRun = d, !.quiet = q] :
     d \in {"none", "client", "server"}, q \in BOOLEAN}
  \cup {[PodsAndAutoscalers EXCEPT !.wait = TRUE, !.interactive = TRUE],
        [PodsAndAutoscalers EXCEPT !.skipControllerOwned = TRUE],
        [PodsAndAutoscalers EXCEPT !.authorized = FALSE],
        Plain(<<"Other">>, "app"), Plain(<<"Other", "Pod">>, "app")}

-----------------------------------------------------------------------------
netWeb == Obj("NetworkPolicy", "app", "web")

(* The smallest instances in which a documented promise is broken.         *)
OnePod == {podDone}
OnePodConfigs ==
  {[Plain(<<"Pod">>, "app") EXCEPT !.dryRun = d, !.quiet = q] :
     d \in {"none", "client", "server"}, q \in BOOLEAN}

RealRuns == {Plain(<<"Pod">>, "app")}

TemplateUsers == {pvcData, netWeb}
Templates == {Ref("deployments", pvcData), Ref("statefulSets", netWeb)}
TemplateConfigs ==
  {Plain(<<"PersistentVolumeClaim">>, "app"), Plain(<<"NetworkPolicy">>, "app")}

OneConfigMap == {cmWeb}
TemplateOfConfigMap == {Ref("deployments", cmWeb)}
OneConfigMapConfigs == {Plain(<<"ConfigMap">>, "app")}
=============================================================================
