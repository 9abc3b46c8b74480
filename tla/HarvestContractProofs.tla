----------------------- MODULE HarvestContractProofs -----------------------
(* A run of kubectl-harvest implements the contract of a reaper, for every *)
(* cluster and command line.                                               *)
EXTENDS HarvestContract, HarvestProofs

USE DEF world, determiner, outcome, run, vars

\* What may be chosen, and what must be.
ContractInv == IInv /\ ReapInv

LEMMA InitContractInv == Init => ContractInv
BY InitInv, InitReap DEF ContractInv

LEMMA StepContractInv == ContractInv /\ [Next]_vars => ContractInv'
BY StepInv, ReapStep DEF ContractInv

-----------------------------------------------------------------------------
(* The refinement.                                                         *)

\* Protection is only lifted: nothing that had been out of use is taken for
\* used since the beginning.
LEMMA ProtectionShrinks ==
  ASSUME TypeOK, TypeOK', [Next]_vars,
         pc \in {"preflight", "survey"} \/ pc' \notin {"preflight", "survey"}
  PROVE  Protected' \subseteq Protected
<1>1. CASE pc \in {"preflight", "survey"}
  BY <1>1 DEF Protected
<1>2. CASE pc \notin {"preflight", "survey"}
  BY <1>2, InUseShrinks, UseShrinks DEF Protected, AskedFor, Spared, InScope
<1>3. QED
  BY <1>1, <1>2

\* So is the debt.
LEMMA OwedShrinks ==
  ASSUME TypeOK, known \subseteq Ever, [Next]_vars
  PROVE  Owed' \subseteq Owed
<1>1. /\ Ever \subseteq Ever' /\ opts' = opts /\ Idlers' \subseteq Idlers
  BY DueShrinks
<1>2. QED
  BY <1>1 DEF Owed, Idlers, AskedFor, Spared, InScope, Points

\* When everything has been visited, what is owed has been accepted.
LEMMA DebtIsPaid ==
  ASSUME ReapInv, ~errs, batch = {}, todo = <<>>, pc \in {"visit", "wait"}
  PROVE  Owed \subseteq deletedInfos
<1>1. SUFFICES ASSUME NEW o \in Owed, ~Previewed(o) PROVE FALSE
  BY DEF Previewed
<1>2. Due(o) /\ Thorough /\ o \in Objects
  BY <1>1 DEF Owed, Due, Idlers, Thorough, ReapInv, OutcomeInv, TypeOK
<1>3. QED
  BY <1>2 DEF ReapInv, Ahead

LEMMA InitContract == Init => Contract!Init
BY InitType DEF Init, TypeOK, Contract!Init, Protected, Owed, Dry, PrintOnly, Outcome, Ended

LEMMA ContractStep == ContractInv /\ [Next]_vars => [Contract!Next]_(Contract!vars)
<1>1. SUFFICES ASSUME ContractInv, [Next]_vars PROVE [Contract!Next]_(Contract!vars)
  OBVIOUS
<1>2. /\ TypeOK /\ TypeOK' /\ CurMayGo /\ ReapInv /\ OutcomeInv /\ OnlyAskedFor
      /\ opts' = opts /\ Dry' = Dry /\ (Deletes <=> ~Dry)
  BY <1>1, StepType, UseShrinks DEF ContractInv, IInv, ReapInv, Dry, PrintOnly, Deletes
<1>3. pc \in {"preflight", "survey"} \/ pc' \notin {"preflight", "survey"}
  BY <1>1 DEF Next, Program, Complete, PreflightSkipped, PreflightAllowed, PreflightMissing,
     PreflightBroken, LeavePreflight, New, SurveyKind, SurveyListFails, SurveyFailed,
     StartCollecting, ListSource, NextSource, ListSourceFails, StartVisiting, Run, ListKind,
     ListKindFails, Keep, DetermineFails, Select, Decline, AcceptDryRun, Accept, DeleteSucceeds,
     DeleteFails, DeleteReplyLost, RunFailed, RunSucceeded, StartWaiting, WaitReturns, Others,
     Create, Remove, ChangeStatus, ChangeReference, OthersStep, Signal, Terminated
<1>4. Protected' \subseteq Protected /\ Owed' \subseteq Owed
  BY <1>1, <1>2, <1>3, ProtectionShrinks, OwedShrinks DEF ReapInv
\* Steps that only lift protection, or put what is owed to some use.
<1>5. ASSUME UNCHANGED <<deletedInfos, deleted>>, Outcome' = Outcome
      PROVE  [Contract!Next]_(Contract!vars)
  BY <1>2, <1>4, <1>5 DEF Contract!Next, Contract!Release, Contract!vars
\* Steps that change neither the cluster nor the flags.
<1>6. ASSUME UNCHANGED <<world, determiner>>, pc \notin {"preflight", "survey"}
      PROVE  Protected' = Protected
  <2>1. \A o : (InUseThroughout(o)' <=> InUseThroughout(o)) /\ (AskedFor(o)' <=> AskedFor(o))
    BY <1>2, <1>6
       DEF InUseThroughout, Noticed, Announced, HeldBy, ScannedFor, Steady, AskedFor, Spared, InScope
  <2>2. QED
    BY <1>3, <1>6, <2>1 DEF Protected
<1>7. ASSUME UNCHANGED world PROVE Owed' = Owed
  BY <1>2, <1>7 DEF Owed, Ever, AskedFor, Spared, InScope
<1>8. ASSUME UNCHANGED <<world, deletedInfos, deleted>>, Outcome = "running", pc' = "failed"
      PROVE  Contract!Fail
  BY <1>2, <1>4, <1>7, <1>8 DEF Contract!Fail, Outcome, Ended
<1>9. CASE Complete
  <2>1. CASE PreflightMissing
    BY <1>8, <2>1 DEF PreflightMissing, LeavePreflight, Outcome, Ended, Contract!Next
  <2>2. CASE PreflightSkipped \/ PreflightAllowed \/ PreflightBroken
    BY <1>5, <2>2 DEF PreflightSkipped, PreflightAllowed, PreflightBroken, LeavePreflight,
                      Outcome, Ended
  <2>3. QED
    BY <1>9, <2>1, <2>2 DEF Complete
<1>10. CASE New
  <2>1. CASE SurveyFailed \/ ListSourceFails
    BY <1>8, <2>1 DEF SurveyFailed, ListSourceFails, Outcome, Ended, Contract!Next
  <2>2. CASE New /\ ~(SurveyFailed \/ ListSourceFails)
    BY <1>5, <2>2 DEF New, SurveyKind, SurveyListFails, StartCollecting, ListSource, NextSource,
                      StartVisiting, Outcome, Ended
  <2>3. QED
    BY <1>10, <2>1, <2>2
<1>11. CASE Run
  <2>1. CASE ListKind \/ ListKindFails \/ Decline \/ StartWaiting
    BY <1>5, <2>1 DEF ListKind, ListKindFails, Idle, Decline, StartWaiting, Visited, Outcome, Ended
  <2>2. ASSUME NEW info \in batch, Keep(info) \/ DetermineFails(info) \/ Select(info)
        PROVE  [Contract!Next]_(Contract!vars)
    BY <1>5, <2>2 DEF Keep, DetermineFails, Select, Outcome, Ended
  <2>3. CASE AcceptDryRun \/ Accept
    <3>1. cur \in Objects /\ cur \notin Protected /\ Outcome = "running" /\ Outcome' = "running"
      BY <1>2, <2>3
         DEF AcceptDryRun, Accept, TypeOK, CurMayGo, OnlyAskedFor, Protected, Outcome, Ended
    <3>2. Protected' = Protected /\ Owed' = Owed
      BY <1>6, <1>7, <2>3 DEF AcceptDryRun, Accept
    <3>3. Contract!Choose(cur)
      BY <1>2, <2>3, <3>1, <3>2 DEF AcceptDryRun, Accept, Contract!Choose
    <3>4. QED
      BY <3>1, <3>3 DEF Contract!Next
  <2>4. CASE DeleteSucceeds \/ DeleteReplyLost
    <3>1. cur \in Objects /\ cur \in deletedInfos /\ Outcome = "running" /\ Outcome' = "running"
      BY <1>2, <2>4 DEF DeleteSucceeds, DeleteReplyLost, TypeOK, OutcomeInv, Outcome, Ended
    <3>2. Protected' = Protected
      <4>1. \A o : (InUseThroughout(o)' <=> InUseThroughout(o)) /\ (AskedFor(o)' <=> AskedFor(o))
        BY <1>2, <2>4 DEF DeleteSucceeds, DeleteReplyLost, InUseThroughout, Noticed, Announced,
                          HeldBy, ScannedFor, Steady, AskedFor, Spared, InScope
      <4>2. QED
        BY <2>4, <4>1 DEF DeleteSucceeds, DeleteReplyLost, Protected
    <3>3. CASE Dry
      BY <1>2, <1>5, <2>4, <3>1, <3>3 DEF DeleteSucceeds, DeleteReplyLost, Removed, Dry, OutcomeInv
    <3>4. CASE ~Dry
      <4>1. Owed' = Owed \ {cur}
        BY <1>2, <2>4, <3>4
           DEF DeleteSucceeds, DeleteReplyLost, Removed, Dry, Owed, Ever, AskedFor, Spared, InScope
      <4>2. Contract!Remove(cur)
        BY <1>2, <2>4, <3>1, <3>2, <3>4, <4>1
           DEF DeleteSucceeds, DeleteReplyLost, Removed, Dry, Contract!Remove
      <4>3. QED
        BY <3>1, <4>2 DEF Contract!Next
    <3>5. QED
      BY <3>3, <3>4
  <2>5. CASE DeleteFails
    BY <1>5, <2>5 DEF DeleteFails, Outcome, Ended
  <2>6. CASE RunFailed
    BY <1>8, <2>6 DEF RunFailed, Visited, Idle, Outcome, Ended, Contract!Next
  <2>7. CASE RunSucceeded \/ WaitReturns
    <3>1. Outcome = "running" /\ Outcome' = "succeeded"
      BY <2>7 DEF RunSucceeded, WaitReturns, Visited, Idle, Outcome, Ended
    <3>2. Protected' = Protected /\ Owed' = Owed
      BY <1>6, <1>7, <2>7 DEF RunSucceeded, WaitReturns, Visited, Idle
    <3>3. ~errs /\ batch = {} /\ todo = <<>> /\ pc \in {"visit", "wait"}
      BY <1>2, <2>7 DEF RunSucceeded, NothingToWaitFor, WaitReturns, Visited, Idle, ReapInv
    <3>4. Owed \subseteq deletedInfos
      BY <1>2, <3>3, DebtIsPaid
    <3>5. ~Dry => deletedInfos \subseteq deleted
      BY <1>2, <3>3 DEF OutcomeInv, Pending
    <3>6. Contract!Succeed
      BY <1>2, <2>7, <3>1, <3>2, <3>4, <3>5 DEF RunSucceeded, WaitReturns, Contract!Succeed
    <3>7. QED
      BY <3>6 DEF Contract!Next
  <2>8. QED
    BY <1>11, <2>1, <2>2, <2>3, <2>4, <2>5, <2>6, <2>7 DEF Run
<1>12. CASE Others \/ Terminated \/ UNCHANGED vars
  BY <1>5, <1>12 DEF Others, Create, Remove, ChangeStatus, ChangeReference, OthersStep, Signal,
                     Terminated, Outcome
<1>13. QED
  BY <1>1, <1>9, <1>10, <1>11, <1>12 DEF Next, Program

\* A run accepts only what it was asked for and what has not been in use since
\* it began, deletes only what it has accepted and nothing in a dry run, and
\* succeeds only when it has accepted all that nobody used and all it accepted
\* is gone (New, Run, waitDeletion).
THEOREM ContractIsKept == Spec => KeepsContractSafely
<1>1. Spec => []ContractInv
  BY InitContractInv, StepContractInv, PTL DEF Spec
<1>2. QED
  BY <1>1, InitContract, ContractStep, PTL DEF Spec, KeepsContractSafely, Contract!Safety
=============================================================================
