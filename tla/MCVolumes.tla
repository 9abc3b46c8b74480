------------------------------ MODULE MCVolumes ------------------------------
(* A small instance of HarvestVolumes: kinds whose references are not names *)
(* in a Pod spec.  Two volumes and two claims, a policy and a ReplicaSet.   *)
EXTENDS HarvestVolumes, HarvestContract, TLC

Obj(kind, ns, name) == [kind |-> kind, ns |-> ns, name |-> name]
Ref(source, o) == [kind |-> o.kind, ns |-> o.ns, name |-> o.name, source |-> source]

pvNew == Obj("PersistentVolume", "", "new")
pvOld == Obj("PersistentVolume", "", "old")
netWeb == Obj("NetworkPolicy", "app", "web")
rsOld == Obj("ReplicaSet", "app", "old")

\* Which volumes the claims protect is left to CheckVolumeSatisfyClaim.
pvcData == Ref("persistentVolumeClaims", Obj("PersistentVolume", "app", "data"))
pvcScratch == Ref("persistentVolumeClaims", Obj("PersistentVolume", "app", "scratch"))

MatchedObjects == {pvNew, pvOld, netWeb, rsOld}
MatchedEdges == {pvcData, pvcScratch, Ref("pods", netWeb), Ref("deployments", rsOld)}

Plain(kinds, ns) ==
  [kinds |-> kinds, namespace |-> ns, dryRun |-> "none", quiet |-> FALSE,
   interactive |-> FALSE, wait |-> FALSE, skipControllerOwned |-> FALSE,
   authorized |-> TRUE]
MatchedConfigs ==
  {Plain(<<"PersistentVolume", "NetworkPolicy">>, "app"), Plain(<<"ReplicaSet">>, "")}

\* Four units make a byte, so 5 and 7 units are two bytes: the old volume is
\* too small for the data by half a byte, which is rounded away. The new one
\* has no capacity, which is too little for the data and enough for the
\* scratch claim, which requests none.
Capacities ==
  pvNew :> [size |-> Absent, annotation |-> Absent, class |-> "fast", mode |-> Absent,
            access |-> {"ReadWriteOnce", "ReadOnlyMany"}]
  @@ pvOld :> [size |-> 5, annotation |-> "fast", class |-> "slow", mode |-> "Filesystem",
               access |-> {"ReadWriteOnce"}]

Requests ==
  pvcData :> [size |-> 7, annotation |-> Absent, class |-> "fast", mode |-> "Filesystem",
              access |-> {"ReadWriteOnce"}]
  @@ pvcScratch :> [size |-> Absent, annotation |-> "fast", class |-> "", mode |-> "Filesystem",
                    access |-> {"ReadOnlyMany"}]

SatisfyingMatched ==
  {p \in Claim \X Volume : CheckVolumeSatisfyClaim(Capacities[p[2]], Requests[p[1]])}
=============================================================================
