--------------------------- MODULE RevisionsProofs ---------------------------
(* Which ReplicaSets survive a run, for any number of Deployments,         *)
(* ReplicaSets, revisions and changes by others.                           *)
EXTENDS Revisions, FiniteSetTheorems, TLAPS

USE DEF cluster, history, program, vars

-----------------------------------------------------------------------------
(* Type correctness.                                                       *)

LEMMA CopyType ==
  ASSUME revision \in [ReplicaSets -> Revision]
  PROVE  \A r \in ReplicaSets : Copy(r) \in ListedReplicaSet
<1>1. \A r \in ReplicaSets : (r \in scaled) \in BOOLEAN
  OBVIOUS
<1>2. QED
  BY <1>1 DEF Copy, ListedReplicaSet

LEMMA ListType ==
  ASSUME exists \subseteq ReplicaSets, revision \in [ReplicaSets -> Revision]
  PROVE  ReplicaSetList \subseteq ListedReplicaSet
BY CopyType DEF ReplicaSetList

LEMMA InitType == Init => TypeOK
<1>1. SUFFICES ASSUME Init PROVE TypeOK
  OBVIOUS
<1>2. 0 \in 0..MaxTicks
  BY BoundsAssumption
<1>3. QED
  BY <1>1, <1>2, StartsAssumption DEF Init, TypeOK

LEMMA RunType == TypeOK /\ Run => TypeOK'
<1>1. SUFFICES ASSUME TypeOK, Run PROVE TypeOK'
  OBVIOUS
<1>2. ReplicaSetList \subseteq ListedReplicaSet
  BY <1>1, ListType DEF TypeOK
<1>3. CASE ListReplicaSets
  BY <1>1, <1>2, <1>3 DEF TypeOK, ListReplicaSets
<1>4. CASE ListDeployments
  <2>1. deployments' \subseteq ListedDeployment
    BY <1>1, <1>4 DEF TypeOK, ListDeployments, ListedDeployment
  <2>2. QED
    BY <1>1, <1>4, <2>1 DEF TypeOK, ListDeployments
<1>5. CASE ListCandidates
  BY <1>1, <1>2, <1>5 DEF TypeOK, ListCandidates
<1>6. ASSUME NEW c \in candidates, Visit(c) PROVE TypeOK'
  <2>1. \A r \in ReplicaSets : Copy(r) \in ListedReplicaSet
    BY <1>1, CopyType DEF TypeOK
  <2>2. deleted' \subseteq Deletion
    BY <1>1, <1>6, <2>1 DEF TypeOK, Visit, Deletion
  <2>3. QED
    BY <1>1, <1>6, <2>2 DEF TypeOK, Visit
<1>7. CASE Visited
  BY <1>1, <1>7 DEF TypeOK, Visited
<1>8. QED
  BY <1>1, <1>3, <1>4, <1>5, <1>6, <1>7 DEF Run

LEMMA TicksType == TypeOK /\ ticks < MaxTicks => ticks + 1 \in 0..MaxTicks
BY BoundsAssumption DEF TypeOK

LEMMA OthersType == TypeOK /\ Others => TypeOK'
<1>1. SUFFICES ASSUME TypeOK, Others PROVE TypeOK'
  OBVIOUS
<1>2. ASSUME NEW d \in Deployments, Annotate(d) PROVE TypeOK'
  <2>1. current' \in [Deployments -> Revision]
    <3>1. Numbers(d) \subseteq Revision
      BY <1>1 DEF TypeOK, Numbers, Owned
    <3>2. QED
      BY <1>1, <1>2, <3>1 DEF TypeOK, Annotate
  <2>2. QED
    BY <1>1, <1>2, <2>1, TicksType DEF TypeOK, Annotate, OthersStep
<1>3. ASSUME NEW d \in Deployments, CreateDeployment(d) PROVE TypeOK'
  BY <1>1, <1>3, TicksType DEF TypeOK, CreateDeployment, OthersStep
<1>4. ASSUME NEW d \in Deployments, RemoveDeployment(d) PROVE TypeOK'
  BY <1>1, <1>4, TicksType DEF TypeOK, RemoveDeployment, OthersStep
<1>5. ASSUME NEW d \in Deployments, NEW r \in ReplicaSets, Rollout(d, r) PROVE TypeOK'
  <2>1. revision' \in [ReplicaSets -> Revision]
    BY <1>1, <1>5, BoundsAssumption DEF TypeOK, Rollout, Revision
  <2>2. QED
    BY <1>1, <1>5, <2>1, TicksType DEF TypeOK, Rollout, OthersStep
<1>6. ASSUME NEW r \in ReplicaSets, Scale(r) PROVE TypeOK'
  BY <1>1, <1>6, TicksType DEF TypeOK, Scale, OthersStep
<1>7. ASSUME NEW r \in ReplicaSets, RemoveReplicaSet(r) PROVE TypeOK'
  BY <1>1, <1>7, TicksType DEF TypeOK, RemoveReplicaSet, OthersStep
<1>8. QED
  BY <1>1, <1>2, <1>3, <1>4, <1>5, <1>6, <1>7 DEF Others

\* The variables keep their types.
THEOREM TypeCorrect == Spec => []TypeOK
<1>1. TypeOK /\ UNCHANGED vars => TypeOK'
  BY DEF TypeOK
<1>2. TypeOK /\ [Next]_vars => TypeOK'
  BY <1>1, RunType, OthersType DEF Next, Terminated
<1>3. QED
  BY <1>2, InitType, PTL DEF Spec

-----------------------------------------------------------------------------
(* Facts about numbers and finite sets.                                    *)

\* A nonempty set of bounded numbers has a greatest.
LEMMA Greatest ==
  ASSUME NEW n \in Nat, NEW S \in SUBSET (0..n), S # {}
  PROVE  \E m \in S : \A x \in S : x <= m
<1> DEFINE T == {n - x : x \in S}
<1>1. T \subseteq Nat /\ T # {}
  <2>1. \A x \in S : n - x \in Nat
    OBVIOUS
  <2>2. QED
    BY <2>1
<1>2. PICK t \in T : \A y \in T : <<y, t>> \notin OpToRel(<, Nat)
  <2> HIDE DEF T
  <2>1. QED
    BY <1>1, NatLessThanWellFounded, WFMin
<1>3. \A y \in T : ~(y < t)
  <2>1. SUFFICES ASSUME NEW y \in T, y < t PROVE <<y, t>> \in OpToRel(<, Nat)
    BY <1>2
  <2>2. y \in Nat /\ t \in Nat
    BY <1>1
  <2>3. <<y, t>> \in {ss \in Nat \X Nat : ss[1] < ss[2]}
    <3> HIDE DEF T
    <3>1. QED
      BY <2>1, <2>2
  <2>4. QED
    BY <2>3 DEF OpToRel
<1>4. PICK m \in S : t = n - m
  OBVIOUS
<1>5. ASSUME NEW x \in S PROVE x <= m
  <2>1. n - x \in T
    OBVIOUS
  <2>2. ~(n - x < n - m)
    <3> HIDE DEF T
    <3>1. QED
      BY <1>3, <1>4, <2>1
  <2>3. x \in Int /\ m \in Int /\ n \in Int
    <3>1. S \subseteq Int
      OBVIOUS
    <3> HIDE DEF T
    <3>2. QED
      BY <3>1
  <2>4. QED
    <3> HIDE DEF T
    <3>1. QED
      BY <2>2, <2>3
<1>6. QED
  BY <1>5

\* A listing is finite.
LEMMA ListIsFinite ==
  ASSUME TypeOK
  PROVE  IsFiniteSet(ReplicaSetList)
<1> DEFINE f == [r \in exists |-> Copy(r)]
<1>1. IsFiniteSet(exists)
  BY ReplicaSetsAssumption, FS_Subset DEF TypeOK
<1>2. f \in Surjection(exists, ReplicaSetList)
  BY DEF Surjection, ReplicaSetList
<1>3. QED
  BY <1>1, <1>2, FS_Surjection

-----------------------------------------------------------------------------
(* The inductive invariant.                                                *)

Visiting == pc \in {"visit", "done"}

Phases ==
  /\ pc = "replicaSets" => replicaSets = {}
  /\ ~Visiting => candidates = {} /\ deleted = {}
  /\ IsFiniteSet(replicaSets)
  /\ \A s, t \in replicaSets : s.rs = t.rs => s = t
  /\ stale \subseteq touched

Copies == candidates \cup {x.copy : x \in deleted}

\* What was listed and is not lost is still there, unless the run deleted it,
\* and revisions only grow: it and later copies of it are no older.
ListedIsKept ==
  \A s \in replicaSets :
    s.rs \notin lost /\ s.revision # Unparsable =>
      \/ s.rs \in exists /\ revision[s.rs] # Unparsable /\ revision[s.rs] >= s.revision
      \/ \E x \in deleted : x.copy.rs = s.rs

CopiesAreNoOlder ==
  \A s \in replicaSets : \A c \in Copies :
    s.rs \notin lost /\ s.revision # Unparsable /\ c.rs = s.rs =>
      c.revision # Unparsable /\ c.revision >= s.revision

DeletedByRule ==
  \A x \in deleted : DetermineDeletion(x.copy) /\ x.victim.rs = x.copy.rs

\* Of a Deployment nobody changed since, the listing is still true.
SteadyDeployments ==
  pc \in {"candidates", "visit", "done"} =>
    \A d \in Deployments \ stale :
      /\ d \in alive => \E x \in deployments : x.deployment = d
      /\ \A x \in deployments : x.deployment = d => d \in alive /\ x.revision = current[d]

\* Its ReplicaSets keep their numbers.
SteadyRevisions ==
  /\ \A c \in candidates :
       Owner[c.rs] \in Deployments \ stale /\ c.rs \in exists => c.revision = revision[c.rs]
  /\ \A x \in deleted :
       Owner[x.copy.rs] \in Deployments \ stale => x.victim.revision = x.copy.revision

\* A ReplicaSet nobody touched is in the listing as it is, and has yet to be
\* visited or may stay.
SteadyReplicaSets ==
  \A r \in exists \ touched :
    /\ pc # "replicaSets" => Copy(r) \in replicaSets
    /\ pc = "visit" => Copy(r) \in candidates \/ ~DetermineDeletion(Copy(r))
    /\ pc = "done" => ~DetermineDeletion(Copy(r))

RInv ==
  /\ TypeOK /\ Phases /\ ListedIsKept /\ CopiesAreNoOlder /\ DeletedByRule
  /\ SteadyDeployments /\ SteadyRevisions /\ SteadyReplicaSets

LEMMA RuleIsFixed ==
  ASSUME UNCHANGED <<replicaSets, deployments, keep>>
  PROVE  \A c : DetermineDeletion(c)' <=> DetermineDeletion(c)
BY DEF DetermineDeletion, OwningDeployment, WithinNewestRevisions, Newer

LEMMA ListContents ==
  /\ \A r \in exists : Copy(r) \in ReplicaSetList
  /\ \A s \in ReplicaSetList : s.rs \in exists /\ s = Copy(s.rs) /\ s.revision = revision[s.rs]
  /\ \A s, t \in ReplicaSetList : s.rs = t.rs => s = t
BY DEF ReplicaSetList, Copy

LEMMA InitInv == Init => RInv
<1>1. SUFFICES ASSUME Init PROVE RInv
  OBVIOUS
<1>2. TypeOK
  BY <1>1, InitType
<1>3. Phases /\ ListedIsKept /\ CopiesAreNoOlder
  BY <1>1, FS_EmptySet DEF Init, Phases, Visiting, ListedIsKept, CopiesAreNoOlder
<1>4. DeletedByRule /\ SteadyDeployments /\ SteadyRevisions /\ SteadyReplicaSets
  BY <1>1 DEF Init, DeletedByRule, SteadyDeployments, SteadyRevisions, SteadyReplicaSets
<1>5. QED
  BY <1>2, <1>3, <1>4 DEF RInv

LEMMA RunInv == RInv /\ Run => RInv'
<1>1. SUFFICES ASSUME RInv, Run PROVE RInv'
  OBVIOUS
<1>2. TypeOK /\ TypeOK'
  BY <1>1, RunType DEF RInv
<1>3. \A s \in ReplicaSetList : s.revision # Unparsable => s.revision \in Int
  BY <1>2, ListType DEF TypeOK, ListedReplicaSet, Revision
<1>4. CASE ListReplicaSets
  <2>1. Phases'
    BY <1>1, <1>2, <1>4, ListIsFinite, ListContents DEF RInv, Phases, Visiting, ListReplicaSets
  <2>2. ListedIsKept'
    BY <1>3, <1>4, ListContents DEF ListedIsKept, ListReplicaSets
  <2>3. CopiesAreNoOlder' /\ DeletedByRule' /\ SteadyDeployments' /\ SteadyRevisions'
    BY <1>1, <1>4 DEF RInv, Phases, Visiting, CopiesAreNoOlder, Copies, DeletedByRule, SteadyDeployments, SteadyRevisions, ListReplicaSets
  <2>4. SteadyReplicaSets'
    BY <1>4, ListContents DEF SteadyReplicaSets, ListReplicaSets, Copy
  <2>5. QED
    BY <1>2, <2>1, <2>2, <2>3, <2>4 DEF RInv
<1>5. CASE ListDeployments
  <2>1. Phases' /\ ListedIsKept' /\ CopiesAreNoOlder'
    BY <1>1, <1>5 DEF RInv, Phases, Visiting, ListedIsKept, CopiesAreNoOlder, Copies, ListDeployments
  <2>2. DeletedByRule' /\ SteadyRevisions'
    BY <1>1, <1>5 DEF RInv, Phases, Visiting, DeletedByRule, SteadyRevisions, ListDeployments
  <2>3. SteadyDeployments'
    <3>1. \A d \in alive : [deployment |-> d, revision |-> current[d]] \in deployments'
      BY <1>5 DEF ListDeployments
    <3>2. \A x \in deployments' : x.deployment \in alive /\ x.revision = current[x.deployment]
      BY <1>5 DEF ListDeployments
    <3>3. alive' = alive /\ current' = current
      BY <1>5 DEF ListDeployments
    <3>4. QED
      BY <3>1, <3>2, <3>3 DEF SteadyDeployments
  <2>4. SteadyReplicaSets'
    BY <1>1, <1>5 DEF RInv, SteadyReplicaSets, ListDeployments, Copy
  <2>5. QED
    BY <1>2, <2>1, <2>2, <2>3, <2>4 DEF RInv
<1>6. CASE ListCandidates
  <2>1. Phases' /\ ListedIsKept'
    BY <1>1, <1>6 DEF RInv, Phases, Visiting, ListedIsKept, ListCandidates
  <2>2. CopiesAreNoOlder'
    BY <1>1, <1>6, ListContents DEF RInv, Phases, Visiting, ListedIsKept, CopiesAreNoOlder, Copies, ListCandidates
  <2>3. DeletedByRule' /\ SteadyDeployments'
    BY <1>1, <1>6 DEF RInv, Phases, Visiting, DeletedByRule, SteadyDeployments, ListCandidates
  <2>4. SteadyRevisions' /\ SteadyReplicaSets'
    BY <1>1, <1>6, ListContents DEF RInv, Phases, Visiting, SteadyRevisions, SteadyReplicaSets, ListCandidates, Copy
  <2>5. QED
    BY <1>2, <2>1, <2>2, <2>3, <2>4 DEF RInv
<1>7. ASSUME NEW c \in candidates, Visit(c) PROVE RInv'
  <2>1. UNCHANGED <<replicaSets, deployments, keep, pc, revision, alive, current, touched, stale, lost>>
    BY <1>7 DEF Visit
  <2>2. \A e : DetermineDeletion(e)' <=> DetermineDeletion(e)
    BY <2>1, RuleIsFixed
  <2> DEFINE gone == {r \in exists : r = c.rs /\ DetermineDeletion(c)}
  <2>3. /\ exists' = exists \ gone /\ scaled' = scaled \ gone
        /\ deleted' = deleted \cup {[copy |-> c, victim |-> Copy(r)] : r \in gone}
        /\ candidates' = candidates \ {c} /\ pc = "visit"
    BY <1>7 DEF Visit
  <2>4. \A x \in deleted' \ deleted :
          /\ x.copy = c /\ x.victim = Copy(c.rs) /\ x.victim.rs = c.rs
          /\ c.rs \in exists /\ x.victim.revision = revision[c.rs] /\ DetermineDeletion(c)
    BY <2>3 DEF Copy
  <2>5. ASSUME NEW r \in exists \ exists' PROVE \E x \in deleted' : x.copy.rs = r
    <3>1. r \in gone /\ r = c.rs
      BY <2>3, <2>5
    <3>2. [copy |-> c, victim |-> Copy(r)] \in deleted'
      BY <2>3, <3>1
    <3>3. QED
      BY <3>1, <3>2
  <2>6. deleted \subseteq deleted' /\ exists' \subseteq exists
    BY <2>3
  <2> HIDE DEF gone
  <2>7. Phases'
    BY <1>1, <2>1, <2>3 DEF RInv, Phases, Visiting
  <2>8. ListedIsKept'
    BY <1>1, <2>1, <2>5, <2>6 DEF RInv, ListedIsKept
  <2>9. CopiesAreNoOlder'
    <3>1. Copies' \subseteq Copies
      BY <2>3, <2>4 DEF Copies
    <3>2. QED
      BY <1>1, <2>1, <3>1 DEF RInv, CopiesAreNoOlder
  <2>10. DeletedByRule'
    BY <1>1, <2>2, <2>4 DEF RInv, DeletedByRule
  <2>11. SteadyDeployments'
    BY <1>1, <2>1 DEF RInv, SteadyDeployments
  <2>12. SteadyRevisions'
    BY <1>1, <2>1, <2>3, <2>4, <2>6 DEF RInv, SteadyRevisions
  <2>13. SteadyReplicaSets'
    <3>1. SUFFICES ASSUME NEW r \in exists' \ touched'
                   PROVE  /\ Copy(r)' \in replicaSets'
                          /\ Copy(r)' \in candidates' \/ ~DetermineDeletion(Copy(r)')
      BY <2>1, <2>2, <2>3 DEF SteadyReplicaSets, DetermineDeletion, OwningDeployment, WithinNewestRevisions, Newer, Copy
    <3>2. Copy(r)' = Copy(r) /\ r \in exists \ touched
      BY <2>1, <2>3, <2>6, <3>1 DEF Copy
    <3>3. Copy(r) \in replicaSets /\ (Copy(r) \in candidates \/ ~DetermineDeletion(Copy(r)))
      BY <1>1, <2>3, <3>2 DEF RInv, SteadyReplicaSets
    <3>4. c = Copy(r) => ~DetermineDeletion(c)
      BY <2>3, <2>6, <3>1 DEF Copy, gone
    <3>5. QED
      BY <2>1, <2>3, <3>2, <3>3, <3>4
  <2>14. QED
    BY <1>2, <2>7, <2>8, <2>9, <2>10, <2>11, <2>12, <2>13 DEF RInv
<1>8. CASE Visited
  <2>1. \A e : DetermineDeletion(e)' <=> DetermineDeletion(e)
    BY <1>8, RuleIsFixed DEF Visited
  <2>2. Phases' /\ ListedIsKept' /\ CopiesAreNoOlder'
    BY <1>1, <1>8 DEF RInv, Phases, Visiting, ListedIsKept, CopiesAreNoOlder, Copies, Visited
  <2>3. SteadyDeployments' /\ SteadyRevisions'
    BY <1>1, <1>8 DEF RInv, SteadyDeployments, SteadyRevisions, Visited
  <2>4. DeletedByRule'
    BY <1>1, <1>8, <2>1 DEF RInv, DeletedByRule, Visited
  <2>5. SteadyReplicaSets'
    BY <1>1, <1>8 DEF RInv, SteadyReplicaSets, Visited, Copy, DetermineDeletion, OwningDeployment, WithinNewestRevisions, Newer
  <2>6. QED
    BY <1>2, <2>2, <2>3, <2>4, <2>5 DEF RInv
<1>9. QED
  BY <1>1, <1>4, <1>5, <1>6, <1>7, <1>8 DEF Run

\* What a step of the others can do to what the invariant speaks of.
OthersEffect ==
  /\ UNCHANGED program /\ touched \subseteq touched' /\ lost \subseteq lost'
  /\ stale \subseteq stale' /\ stale' \subseteq stale \cup touched'
  /\ \A r \in exists' \ touched' : r \in exists /\ Copy(r)' = Copy(r)
  /\ \A d \in Deployments \ stale' : (d \in alive' <=> d \in alive) /\ current'[d] = current[d]
  /\ \A r \in ReplicaSets :
       Owner[r] \in Deployments \ stale' =>
         revision'[r] = revision[r] /\ (r \in exists' => r \in exists)
  /\ \A r \in exists \ lost' :
       /\ r \in exists'
       /\ revision[r] # Unparsable => revision'[r] # Unparsable /\ revision'[r] >= revision[r]

LEMMA EffectOfOthers == TypeOK /\ Others => OthersEffect
<1> SUFFICES ASSUME TypeOK, Others PROVE OthersEffect
  OBVIOUS
<1> USE DEF Copy, OthersStep
<1>1. \A r \in ReplicaSets : revision[r] # Unparsable => revision[r] \in Int
  BY DEF TypeOK, Revision
<1>2. exists \subseteq ReplicaSets
  BY DEF TypeOK
<1>3. CASE \E d \in Deployments : Annotate(d)
  BY <1>1, <1>2, <1>3 DEF TypeOK, Annotate, OthersEffect
<1>4. CASE \E d \in Deployments : CreateDeployment(d)
  BY <1>1, <1>2, <1>4 DEF CreateDeployment, OthersEffect
<1>5. CASE \E d \in Deployments : RemoveDeployment(d)
  BY <1>1, <1>2, <1>5 DEF RemoveDeployment, OthersEffect
<1>6. ASSUME NEW d \in Deployments, NEW r \in ReplicaSets, Rollout(d, r) PROVE OthersEffect
  <2>1. PICK n \in 1..MaxRevision :
          (\A m \in Numbers(d) : n > m) /\ revision' = [revision EXCEPT ![r] = n]
    BY <1>6 DEF Rollout
  <2>2. n \in Int /\ n # Unparsable
    BY <2>1, BoundsAssumption, UnparsableAssumption
  <2>3. r \in exists /\ revision[r] # Unparsable => revision[r] \in Numbers(d)
    BY <1>6 DEF Rollout, Numbers, Owned
  <2>4. revision'[r] = n /\ \A t \in ReplicaSets \ {r} : revision'[t] = revision[t]
    BY <2>1 DEF TypeOK
  <2>5. /\ UNCHANGED <<program, lost, alive, current>> /\ exists' = exists \cup {r}
        /\ touched' = touched \cup {d, r} /\ stale' = stale \cup ({d, r} \cap Deployments)
        /\ Owner[r] = d
        /\ \A t \in ReplicaSets \ {r} : t \in scaled' <=> t \in scaled
    BY <1>6 DEF Rollout
  <2>6. ASSUME NEW t \in exists
        PROVE  revision[t] # Unparsable => revision'[t] # Unparsable /\ revision'[t] >= revision[t]
    <3>1. CASE t = r
      BY <1>1, <1>2, <2>1, <2>2, <2>3, <2>4, <3>1
    <3>2. CASE t # r
      BY <1>1, <1>2, <2>4, <3>2
    <3>3. QED
      BY <3>1, <3>2
  <2>7. ASSUME NEW t \in exists' \ touched' PROVE t \in exists /\ Copy(t)' = Copy(t)
    <3>1. t \in exists /\ t \in ReplicaSets /\ t # r
      BY <1>2, <2>5
    <3>2. QED
      BY <2>4, <2>5, <3>1
  <2>8. ASSUME NEW t \in ReplicaSets, Owner[t] \in Deployments \ stale'
        PROVE  revision'[t] = revision[t] /\ (t \in exists' => t \in exists)
    BY <2>4, <2>5, <2>8
  <2>9. QED
    <3> HIDE DEF Copy
    <3>1. QED
      BY <2>5, <2>6, <2>7, <2>8 DEF OthersEffect
<1>7. CASE \E r \in ReplicaSets : Scale(r)
  BY <1>1, <1>2, <1>7 DEF Scale, OthersEffect
<1>8. CASE \E r \in ReplicaSets : RemoveReplicaSet(r)
  BY <1>1, <1>2, <1>8 DEF RemoveReplicaSet, OthersEffect
<1>9. QED
  BY <1>3, <1>4, <1>5, <1>6, <1>7, <1>8 DEF Others

LEMMA OthersInv == RInv /\ Others => RInv'
<1>1. SUFFICES ASSUME RInv, Others PROVE RInv'
  OBVIOUS
<1>2. TypeOK /\ TypeOK'
  BY <1>1, OthersType DEF RInv
<1>3. OthersEffect
  BY <1>1, <1>2, EffectOfOthers
<1>4. UNCHANGED program
  BY <1>3 DEF OthersEffect
<1>5. Phases' /\ DeletedByRule' /\ CopiesAreNoOlder'
  <2>1. \A e : DetermineDeletion(e)' <=> DetermineDeletion(e)
    BY <1>4, RuleIsFixed
  <2>2. QED
    BY <1>1, <1>3, <1>4, <2>1 DEF RInv, Phases, Visiting, DeletedByRule, CopiesAreNoOlder, Copies, OthersEffect
<1>6. ListedIsKept'
  <2>1. SUFFICES ASSUME NEW s \in replicaSets, s.rs \notin lost', s.revision # Unparsable,
                        \A x \in deleted : x.copy.rs # s.rs
                 PROVE  s.rs \in exists' /\ revision'[s.rs] # Unparsable /\ revision'[s.rs] >= s.revision
    BY <1>4 DEF ListedIsKept
  <2>2. s.rs \notin lost
    BY <1>3, <2>1 DEF OthersEffect
  <2>3. s.rs \in exists /\ revision[s.rs] # Unparsable /\ revision[s.rs] >= s.revision
    BY <1>1, <2>1, <2>2 DEF RInv, ListedIsKept
  <2>4. s.rs \in exists' /\ revision'[s.rs] # Unparsable /\ revision'[s.rs] >= revision[s.rs]
    BY <1>3, <2>1, <2>3 DEF OthersEffect
  <2>5. s.revision \in Int /\ revision[s.rs] \in Int /\ revision'[s.rs] \in Int
    BY <1>2, <2>1, <2>3, <2>4 DEF TypeOK, ListedReplicaSet, Revision
  <2>6. QED
    BY <2>3, <2>4, <2>5
<1>7. SteadyDeployments'
  BY <1>1, <1>3, <1>4 DEF RInv, SteadyDeployments, OthersEffect
<1>8. SteadyRevisions'
  <2>1. \A c \in candidates : c.rs \in ReplicaSets
    BY <1>2 DEF TypeOK, ListedReplicaSet
  <2>2. QED
    BY <1>1, <1>3, <1>4, <2>1 DEF RInv, SteadyRevisions, OthersEffect
<1>9. SteadyReplicaSets'
  <2>1. ASSUME NEW r \in exists' \ touched'
        PROVE  /\ pc # "replicaSets" => Copy(r)' \in replicaSets
               /\ pc = "visit" => Copy(r)' \in candidates \/ ~DetermineDeletion(Copy(r)')
               /\ pc = "done" => ~DetermineDeletion(Copy(r)')
    <3>1. r \in exists \ touched /\ Copy(r)' = Copy(r)
      BY <1>3, <2>1 DEF OthersEffect
    <3>2. QED
      BY <1>1, <3>1 DEF RInv, SteadyReplicaSets
  <2>2. QED
    BY <1>4, <2>1 DEF SteadyReplicaSets, DetermineDeletion, OwningDeployment, WithinNewestRevisions, Newer
<1>10. QED
  BY <1>2, <1>5, <1>6, <1>7, <1>8, <1>9 DEF RInv

LEMMA SpecInv == Spec => []RInv
<1>1. RInv /\ UNCHANGED vars => RInv'
  <2>1. SUFFICES ASSUME RInv, UNCHANGED vars PROVE RInv'
    OBVIOUS
  <2>2. TypeOK' /\ Phases'
    BY <2>1 DEF RInv, TypeOK, Phases, Visiting
  <2>3. ListedIsKept' /\ CopiesAreNoOlder' /\ SteadyDeployments' /\ SteadyRevisions'
    BY <2>1 DEF RInv, ListedIsKept, CopiesAreNoOlder, Copies, SteadyDeployments, SteadyRevisions
  <2>4. DeletedByRule'
    BY <2>1, RuleIsFixed DEF RInv, DeletedByRule
  <2>5. SteadyReplicaSets'
    BY <2>1 DEF RInv, SteadyReplicaSets, Copy, DetermineDeletion, OwningDeployment, WithinNewestRevisions, Newer
  <2>6. QED
    BY <2>2, <2>3, <2>4, <2>5 DEF RInv
<1>2. RInv /\ [Next]_vars => RInv'
  BY <1>1, RunInv, OthersInv DEF Next, Terminated
<1>3. QED
  BY <1>2, InitInv, PTL DEF Spec

-----------------------------------------------------------------------------
\* The live revision of a Deployment that is left alone from its listing on
\* is never deleted.
THEOREM LiveRevisionIsKept == Spec => []LiveRevisionSurvives
<1>1. ASSUME RInv PROVE LiveRevisionSurvives
  <2>1. SUFFICES ASSUME NEW x \in deleted, Owner[x.victim.rs] \in alive \ stale
                 PROVE  x.victim.revision # current[Owner[x.victim.rs]]
    BY DEF LiveRevisionSurvives
  <2>2. /\ DetermineDeletion(x.copy) /\ x.victim.rs = x.copy.rs
        /\ Owner[x.copy.rs] \in Deployments \ stale /\ pc \in {"visit", "done"}
    BY <1>1, <2>1 DEF RInv, TypeOK, Phases, Visiting, DeletedByRule
  <2>3. x.victim.revision = x.copy.revision
    BY <1>1, <2>1, <2>2 DEF RInv, SteadyRevisions
  <2>4. PICK d \in deployments :
          d.deployment = Owner[x.copy.rs] /\ d.revision = current[Owner[x.copy.rs]]
    BY <1>1, <2>1, <2>2 DEF RInv, SteadyDeployments
  <2>5. QED
    BY <2>2, <2>3, <2>4 DEF DetermineDeletion, OwningDeployment
<1>2. QED
  BY <1>1, SpecInv, PTL

\* Whatever outdated revision is deleted, at least --keep-revisions newer ones
\* are in the cluster or were removed by others: those listed as newer than
\* the newest the run deletes are that many, and it deletes none of them.
THEOREM RollbackTargetsAreKept == Spec => []NewestRevisionsSurvive
<1>1. ASSUME RInv PROVE NewestRevisionsSurvive
  <2>1. SUFFICES ASSUME NEW x \in deleted, Outdated(x), x.victim.revision = x.copy.revision
                 PROVE  Cardinality(NewerNow(x.victim.rs, x.victim.revision)) >= keep
    BY DEF NewestRevisionsSurvive
  <2> DEFINE peers == {e \in deleted : SameOwner(e.copy, x.copy)}
             newer == NewerNow(x.victim.rs, x.victim.revision)
  <2>2. x.victim.rs = x.copy.rs /\ keep > 0 /\ OwningDeployment(x.copy) # {}
    BY <1>1, <2>1 DEF RInv, DeletedByRule, Outdated
  <2>3. ASSUME NEW e \in peers
        PROVE  e.copy.revision \in 0..MaxRevision /\ Cardinality(Newer(e.copy)) >= keep
    <3>1. DetermineDeletion(e.copy) /\ OwningDeployment(e.copy) = OwningDeployment(x.copy)
      BY <1>1, <2>3 DEF RInv, DeletedByRule, OwningDeployment, SameOwner
    <3>2. ~WithinNewestRevisions(e.copy)
      BY <2>2, <3>1 DEF DetermineDeletion
    <3>3. e.copy.revision \in Revision
      BY <1>1, <2>3 DEF RInv, TypeOK, Deletion, ListedReplicaSet
    <3>4. IsFiniteSet(Newer(e.copy))
      BY <1>1, FS_Subset DEF RInv, Phases, Newer
    <3>5. Cardinality(Newer(e.copy)) \in Nat /\ keep \in Int
      BY <1>1, <3>4, FS_CardinalityType DEF RInv, TypeOK
    <3>6. QED
      BY <3>2, <3>3, <3>5 DEF WithinNewestRevisions, Revision
  <2>4. x \in peers
    BY <2>1 DEF SameOwner
  <2>5. PICK top \in peers : \A e \in peers : e.copy.revision <= top.copy.revision
    <3> DEFINE R == {e.copy.revision : e \in peers}
    <3>1. R \in SUBSET (0..MaxRevision) /\ R # {}
      BY <2>3, <2>4
    <3>2. PICK m \in R : \A y \in R : y <= m
      <4> HIDE DEF R
      <4>1. QED
        BY <3>1, Greatest, BoundsAssumption
    <3>3. QED
      BY <3>2
  <2>6. ASSUME NEW s \in Newer(top.copy) PROVE s.rs \in newer
    <3>1. /\ s \in replicaSets /\ Owner[s.rs] = Owner[x.copy.rs] /\ s.rs \in ReplicaSets
          /\ s.revision # Unparsable /\ s.revision > top.copy.revision
      BY <1>1, <2>5, <2>6 DEF Newer, SameOwner, RInv, TypeOK, ListedReplicaSet
    <3>2. s.revision \in Int /\ top.copy.revision \in Int /\ x.copy.revision \in Int
      BY <1>1, <2>3, <2>4, <2>5, <3>1, BoundsAssumption DEF RInv, TypeOK, ListedReplicaSet, Revision
    <3>3. s.revision > x.copy.revision
      BY <2>4, <2>5, <3>1, <3>2
    <3>4. CASE s.rs \in lost
      BY <2>2, <3>1, <3>4 DEF NewerNow
    <3>5. ASSUME s.rs \notin lost PROVE s.rs \in newer
      <4>1. ASSUME NEW e \in deleted, e.copy.rs = s.rs PROVE FALSE
        <5>1. e \in peers
          BY <3>1, <4>1 DEF SameOwner
        <5>2. e.copy.revision >= s.revision
          BY <1>1, <3>1, <3>5, <4>1 DEF RInv, CopiesAreNoOlder, Copies
        <5>3. e.copy.revision \in Int /\ e.copy.revision <= top.copy.revision
          BY <2>3, <2>5, <5>1, BoundsAssumption
        <5>4. QED
          BY <3>1, <3>2, <5>2, <5>3
      <4>2. s.rs \in exists /\ revision[s.rs] # Unparsable /\ revision[s.rs] >= s.revision
        BY <1>1, <3>1, <3>5, <4>1 DEF RInv, ListedIsKept
      <4>3. revision[s.rs] \in Int
        BY <1>1, <3>1, <4>2 DEF RInv, TypeOK, Revision
      <4>4. revision[s.rs] > x.victim.revision
        BY <2>1, <3>2, <3>3, <4>2, <4>3
      <4>5. QED
        BY <2>2, <3>1, <4>2, <4>4 DEF NewerNow
    <3>6. QED
      BY <3>4, <3>5
  <2>7. IsFiniteSet(newer)
    BY ReplicaSetsAssumption, FS_Subset DEF NewerNow
  <2>8. Cardinality(Newer(top.copy)) <= Cardinality(newer)
    <3> DEFINE f == [s \in Newer(top.copy) |-> s.rs]
    <3>1. \A s, t \in Newer(top.copy) : s.rs = t.rs => s = t
      BY <1>1 DEF RInv, Phases, Newer
    <3>2. f \in Injection(Newer(top.copy), newer)
      <4> HIDE DEF newer
      <4>1. QED
        BY <2>6, <3>1 DEF Injection, IsInjective
    <3>3. QED
      <4> HIDE DEF f, newer
      <4>1. QED
        BY <2>7, <3>2, FS_Injection
  <2>9. /\ Cardinality(Newer(top.copy)) >= keep /\ keep \in Int
        /\ Cardinality(Newer(top.copy)) \in Nat /\ Cardinality(newer) \in Nat
    <3>1. IsFiniteSet(Newer(top.copy))
      BY <1>1, FS_Subset DEF RInv, Phases, Newer
    <3>2. QED
      BY <1>1, <2>3, <2>5, <2>7, <3>1, FS_CardinalityType DEF RInv, TypeOK
  <2>10. QED
    BY <2>8, <2>9
<1>2. QED
  BY <1>1, SpecInv, PTL

\* What is left is protected: nothing idle stays that no rule keeps.
THEOREM ExcessIsGone == Spec => []ExcessIsReaped
<1>1. ASSUME RInv PROVE ExcessIsReaped
  <2>1. SUFFICES ASSUME pc = "done", NEW r \in exists \ (touched \cup scaled)
                 PROVE  /\ Owner[r] # NoController
                        /\ Owner[r] \in alive \cup touched
                        /\ Owner[r] \notin touched =>
                             \/ revision[r] = current[Owner[r]]
                             \/ keep > 0 /\ revision[r] = Unparsable
                             \/ /\ revision[r] # Unparsable
                                /\ Cardinality({s \in Owned(Owner[r]) \ touched :
                                     revision[s] # Unparsable /\ revision[s] > revision[r]}) < keep
    BY DEF ExcessIsReaped
  <2>2. ~DetermineDeletion(Copy(r))
    BY <1>1, <2>1 DEF RInv, SteadyReplicaSets
  <2>3. /\ Copy(r).rs = r /\ Copy(r).revision = revision[r] /\ ~Copy(r).scaled
    BY <2>1 DEF Copy
  <2>4. PICK d \in deployments :
          /\ d.deployment = Owner[r]
          /\ (keep > 0 /\ WithinNewestRevisions(Copy(r))) \/ revision[r] = d.revision
    BY <2>2, <2>3 DEF DetermineDeletion, OwningDeployment
  <2>5. Owner[r] \in Deployments /\ Owner[r] # NoController
    BY <1>1, <2>4, OwnerAssumption DEF RInv, TypeOK, ListedDeployment
  <2>6. Owner[r] \notin touched => Owner[r] \in alive /\ d.revision = current[Owner[r]]
    BY <1>1, <2>1, <2>4, <2>5 DEF RInv, Phases, SteadyDeployments
  <2>7. ASSUME revision[r] # Unparsable, WithinNewestRevisions(Copy(r))
        PROVE  Cardinality({s \in Owned(Owner[r]) \ touched :
                 revision[s] # Unparsable /\ revision[s] > revision[r]}) < keep
    <3> DEFINE steady == {s \in Owned(Owner[r]) \ touched :
                            revision[s] # Unparsable /\ revision[s] > revision[r]}
               f == [s \in steady |-> Copy(s)]
    <3>1. \A s \in steady : Copy(s) \in Newer(Copy(r))
      BY <1>1, <2>1, <2>3 DEF RInv, SteadyReplicaSets, Newer, SameOwner, Owned, Copy
    <3>2. f \in Injection(steady, Newer(Copy(r)))
      BY <3>1 DEF Injection, IsInjective, Copy
    <3>3. IsFiniteSet(Newer(Copy(r)))
      BY <1>1, FS_Subset DEF RInv, Phases, Newer
    <3>4. IsFiniteSet(steady) /\ Cardinality(steady) <= Cardinality(Newer(Copy(r)))
      <4> HIDE DEF steady, f
      <4>1. QED
        BY <3>2, <3>3, FS_Injection
    <3>5. Cardinality(Newer(Copy(r))) < keep
      BY <2>3, <2>7 DEF WithinNewestRevisions
    <3>6. Cardinality(steady) \in Nat /\ Cardinality(Newer(Copy(r))) \in Nat /\ keep \in Int
      BY <1>1, <3>3, <3>4, FS_CardinalityType DEF RInv, TypeOK
    <3>7. QED
      BY <3>4, <3>5, <3>6
  <2>8. QED
    BY <2>4, <2>5, <2>6, <2>7
<1>2. QED
  BY <1>1, SpecInv, PTL
=============================================================================
