------------------------------ MODULE Revisions ------------------------------
(***************************************************************************)
(* Which ReplicaSets a run may delete (determineDeletionReplicaSet).  The  *)
(* run lists the ReplicaSets, then the Deployments, then the candidates,   *)
(* and decides about each candidate's copy from the two older listings,    *)
(* while the Deployment controller rolls out, rolls back and scales.       *)
(*                                                                         *)
(* ReplicaSets are names here: the run deletes by name, and a ReplicaSet   *)
(* that was removed can be re-created under its name by a rollout of its   *)
(* Deployment.  Deployments are UIDs, as in owner references; the          *)
(* comparison by name (objects constructed in tests) never applies.        *)
(***************************************************************************)
EXTENDS Integers, FiniteSets

CONSTANTS
  ReplicaSets, Deployments,
  Owner,           \* the controller of the ReplicaSet of each name
  NoController,    \* a ReplicaSet without one
  Unparsable,      \* a revision annotation that is absent or no number
  MaxRevision,     \* bound on the revision numbers
  MaxTicks,        \* bound on the changes made by others
  Starts           \* --keep-revisions and the cluster when the run begins

Revision == (0..MaxRevision) \cup {Unparsable}

\* A ReplicaSet and a Deployment as a listing shows them.
ListedReplicaSet == [rs: ReplicaSets, revision: Revision, scaled: BOOLEAN]
ListedDeployment == [deployment: Deployments, revision: Revision]

\* What the run decided about, and what it hit.
Deletion == [copy: ListedReplicaSet, victim: ListedReplicaSet]

ASSUME BoundsAssumption == MaxRevision \in Nat /\ MaxTicks \in Nat
ASSUME UnparsableAssumption == Unparsable \notin Int
ASSUME ReplicaSetsAssumption == IsFiniteSet(ReplicaSets)
ASSUME OwnerAssumption ==
  /\ NoController \notin Deployments
  /\ Owner \in [ReplicaSets -> Deployments \cup {NoController}]
ASSUME StartsAssumption ==
  /\ Starts \subseteq [keep: Int, exists: SUBSET ReplicaSets, scaled: SUBSET ReplicaSets,
                       revision: [ReplicaSets -> Revision],
                       alive: SUBSET Deployments, current: [Deployments -> Revision]]
  /\ \A s \in Starts : s.scaled \subseteq s.exists

VARIABLES
  exists, scaled, revision,   \* ReplicaSets: present, with replicas, annotated
  alive, current,             \* Deployments: present, annotated
  touched, ticks,             \* objects others changed during the run
  stale,                      \* Deployments changed since they were listed
  lost,                       \* ReplicaSets others removed since they were listed
  keep,                       \* --keep-revisions
  pc,                         \* the listing that comes next, or the visit
  replicaSets, deployments,   \* the determiner's listings
  candidates,                 \* listed and not yet visited
  deleted                     \* what the run deleted

cluster == <<exists, scaled, revision, alive, current>>
history == <<touched, ticks, stale, lost>>
program == <<keep, pc, replicaSets, deployments, candidates, deleted>>
vars == <<cluster, history, program>>

Owned(d) == {rs \in exists : Owner[rs] = d}
Numbers(d) == {revision[rs] : rs \in Owned(d)} \ {Unparsable}

Copy(r) == [rs |-> r, revision |-> revision[r], scaled |-> r \in scaled]

ReplicaSetList == {Copy(r) : r \in exists}

Init ==
  /\ \E s \in Starts :
       /\ keep = s.keep
       /\ exists = s.exists /\ scaled = s.scaled /\ revision = s.revision
       /\ alive = s.alive /\ current = s.current
  /\ touched = {} /\ ticks = 0 /\ stale = {} /\ lost = {}
  /\ pc = "replicaSets"
  /\ replicaSets = {} /\ deployments = {} /\ candidates = {} /\ deleted = {}

-----------------------------------------------------------------------------
(* The run.                                                                *)

ListReplicaSets ==
  /\ pc = "replicaSets"
  /\ replicaSets' = ReplicaSetList /\ lost' = {}
  /\ pc' = "deployments"
  /\ UNCHANGED <<cluster, touched, ticks, stale, keep, deployments, candidates, deleted>>

ListDeployments ==
  /\ pc = "deployments"
  /\ deployments' = {[deployment |-> d, revision |-> current[d]] : d \in alive}
  /\ stale' = {}
  /\ pc' = "candidates"
  /\ UNCHANGED <<cluster, touched, ticks, lost, keep, replicaSets, candidates, deleted>>

ListCandidates ==
  /\ pc = "candidates"
  /\ candidates' = ReplicaSetList
  /\ pc' = "visit"
  /\ UNCHANGED <<cluster, history, keep, replicaSets, deployments, deleted>>

SameOwner(s, c) == Owner[s.rs] = Owner[c.rs]

\* A candidate and its own entry in the older listing are two objects in
\* memory: the entry is a sibling like the others, and not newer than itself.
Newer(c) ==
  {s \in replicaSets :
     SameOwner(s, c) /\ s.revision # Unparsable /\ s.revision > c.revision}

\* Fault: ties count, so the candidate's own entry does.
WithinNewestCountingTies(c) ==
  \/ c.revision = Unparsable
  \/ Cardinality({s \in replicaSets :
       SameOwner(s, c) /\ s.revision # Unparsable /\ s.revision >= c.revision}) < keep

\* Fault: one revision too many is kept.
WithinNewestAndOneMore(c) ==
  \/ c.revision = Unparsable
  \/ Cardinality(Newer(c)) <= keep

WithinNewestRevisions(c) ==
  \/ c.revision = Unparsable
  \/ Cardinality(Newer(c)) < keep

OwningDeployment(c) == {d \in deployments : d.deployment = Owner[c.rs]}

\* Fault: the newest revisions are kept, and the live one is among them.
DeterminedByAgeAlone(c) ==
  /\ ~c.scaled
  /\ \A d \in OwningDeployment(c) : keep > 0 => ~WithinNewestRevisions(c)

\* Scaled down, and an orphan or neither recent nor the live revision.
DetermineDeletion(c) ==
  /\ ~c.scaled
  /\ \A d \in OwningDeployment(c) :
       /\ keep > 0 => ~WithinNewestRevisions(c)
       /\ c.revision # d.revision

\* Fault: the name is remembered, not the object deleted.
VisitByName(c) ==
  /\ pc = "visit" /\ c \in candidates
  /\ candidates' = candidates \ {c}
  /\ LET gone == {r \in exists : r = c.rs /\ DetermineDeletion(c)} IN
       /\ deleted' = deleted \cup {[copy |-> c, victim |-> [rs |-> r]] : r \in gone}
       /\ exists' = exists \ gone /\ scaled' = scaled \ gone
  /\ UNCHANGED <<revision, alive, current, history, keep, pc, replicaSets, deployments>>

\* Deleted is whatever bears the name now.
Visit(c) ==
  /\ pc = "visit" /\ c \in candidates
  /\ candidates' = candidates \ {c}
  /\ LET gone == {r \in exists : r = c.rs /\ DetermineDeletion(c)} IN
       /\ deleted' = deleted \cup {[copy |-> c, victim |-> Copy(r)] : r \in gone}
       /\ exists' = exists \ gone /\ scaled' = scaled \ gone
  /\ UNCHANGED <<revision, alive, current, history, keep, pc, replicaSets, deployments>>

Visited ==
  /\ pc = "visit" /\ candidates = {}
  /\ pc' = "done"
  /\ UNCHANGED <<cluster, history, keep, replicaSets, deployments, candidates, deleted>>

-----------------------------------------------------------------------------
(* The Deployment controller and everybody else.                           *)

OthersStep(objects) ==
  /\ pc # "done" /\ ticks < MaxTicks
  /\ ticks' = ticks + 1
  /\ touched' = touched \cup objects
  /\ stale' = stale \cup (objects \cap Deployments)
  /\ UNCHANGED program

\* A rollout makes a new ReplicaSet the newest, with replicas or without, or
\* one that was removed, under its name; a rollback one that exists.  The
\* Deployment's own annotation follows in a later request.
Rollout(d, r) ==
  /\ OthersStep({d, r})
  /\ d \in alive /\ Owner[r] = d
  /\ \E n \in 1..MaxRevision :
       /\ \A m \in Numbers(d) : n > m
       /\ n - 1 \in Numbers(d) \cup {0}
       /\ revision' = [revision EXCEPT ![r] = n]
  /\ exists' = exists \cup {r}
  /\ \E up \in SUBSET ({r} \ exists) : scaled' = scaled \cup up
  /\ UNCHANGED <<alive, current, lost>>

Annotate(d) ==
  /\ OthersStep({d})
  /\ d \in alive
  /\ \E n \in Numbers(d) :
       /\ \A m \in Numbers(d) : n >= m
       /\ current' = [current EXCEPT ![d] = n]
  /\ UNCHANGED <<exists, scaled, revision, alive, lost>>

Scale(r) ==
  /\ OthersStep({r})
  /\ r \in exists
  /\ scaled' = IF r \in scaled THEN scaled \ {r} ELSE scaled \cup {r}
  /\ UNCHANGED <<exists, revision, alive, current, lost>>

RemoveReplicaSet(r) ==
  /\ OthersStep({r})
  /\ r \in exists
  /\ exists' = exists \ {r} /\ scaled' = scaled \ {r}
  /\ lost' = lost \cup {r}
  /\ UNCHANGED <<revision, alive, current>>

CreateDeployment(d) ==
  /\ OthersStep({d})
  /\ d \notin alive
  /\ alive' = alive \cup {d}
  /\ UNCHANGED <<exists, scaled, revision, current, lost>>

RemoveDeployment(d) ==
  /\ OthersStep({d})
  /\ d \in alive
  /\ alive' = alive \ {d}
  /\ UNCHANGED <<exists, scaled, revision, current, lost>>

-----------------------------------------------------------------------------
Run == ListReplicaSets \/ ListDeployments \/ ListCandidates \/ (\E c \in candidates : Visit(c)) \/ Visited

Others ==
  \/ \E d \in Deployments : Annotate(d) \/ CreateDeployment(d) \/ RemoveDeployment(d)
  \/ \E d \in Deployments, r \in ReplicaSets : Rollout(d, r)
  \/ \E r \in ReplicaSets : Scale(r) \/ RemoveReplicaSet(r)

Terminated == pc = "done" /\ UNCHANGED vars

Next == Run \/ Others \/ Terminated

Spec == Init /\ [][Next]_vars
-----------------------------------------------------------------------------
\* The variables hold values of their types; what is deleted was there.
TypeOK ==
  /\ exists \subseteq ReplicaSets /\ scaled \subseteq exists
  /\ revision \in [ReplicaSets -> Revision]
  /\ alive \subseteq Deployments /\ current \in [Deployments -> Revision]
  /\ keep \in Int /\ ticks \in 0..MaxTicks
  /\ touched \subseteq ReplicaSets \cup Deployments
  /\ stale \subseteq Deployments /\ lost \subseteq ReplicaSets
  /\ pc \in {"replicaSets", "deployments", "candidates", "visit", "done"}
  /\ replicaSets \subseteq ListedReplicaSet /\ candidates \subseteq ListedReplicaSet
  /\ deleted \subseteq Deletion
  /\ deployments \subseteq ListedDeployment

\* The ReplicaSets of r's Deployment that are newer than the given revision
\* as the cluster is now, and those that others have removed.
NewerNow(r, n) ==
  {s \in ReplicaSets :
     /\ Owner[s] = Owner[r]
     /\ \/ s \in lost
        \/ s \in exists /\ revision[s] # Unparsable /\ revision[s] > n}

\* Deleted for its age, not as an orphan.
Outdated(x) == keep > 0 /\ OwningDeployment(x.copy) # {}

\* "kubectl rollout undo" stays possible: whatever revision the run deletes,
\* --keep-revisions newer ones of its Deployment are in the cluster then and
\* later, as far as others do not remove them; although rollouts and
\* rollbacks renumber and re-create them between the listings and the
\* decisions, and although what the run itself deletes stays in its listing
\* and is counted (determineDeletionReplicaSet, withinNewestRevisions).  The
\* deleted one must have kept its number since the candidates were listed.
NewestRevisionsSurvive ==
  \A x \in deleted :
    Outdated(x) /\ x.victim.revision = x.copy.revision =>
      Cardinality(NewerNow(x.victim.rs, x.victim.revision)) >= keep

\* Help of --keep-revisions (src/pkg/cmd/cmd.go:160): "always keep the newest
\* N revisions of each Deployment so that 'kubectl rollout undo' remains
\* possible. The live revision is always kept regardless."
NewestRevisionsAlwaysSurvive ==
  \A x \in deleted :
    Outdated(x) /\ x.victim.revision # Unparsable =>
      Cardinality(NewerNow(x.victim.rs, x.victim.revision)) >= keep

\* What is deleted is not the live revision of its Deployment, whatever
\* --keep-revisions is and whatever rollouts precede the listing of the
\* Deployments; from then on nobody may roll, annotate, create or remove that
\* Deployment (determineDeletionReplicaSet, owningDeployment).
LiveRevisionSurvives ==
  \A x \in deleted :
    LET d == Owner[x.victim.rs] IN
      d \in alive \ stale => x.victim.revision # current[d]

\* The other direction: what is left at the end, scaled down and not changed
\* by others, has an owner that others left alone, or is its live revision,
\* or one of its newest (determineDeletionReplicaSet).
ExcessIsReaped ==
  pc = "done" =>
    \A r \in exists \ (touched \cup scaled) :
      /\ Owner[r] # NoController
      /\ Owner[r] \in alive \cup touched
      /\ Owner[r] \notin touched =>
           \/ revision[r] = current[Owner[r]]
           \/ keep > 0 /\ revision[r] = Unparsable
           \/ /\ revision[r] # Unparsable
              /\ Cardinality({s \in Owned(Owner[r]) \ touched :
                   revision[s] # Unparsable /\ revision[s] > revision[r]}) < keep
=============================================================================
