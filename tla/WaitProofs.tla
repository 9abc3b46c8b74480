----------------------------- MODULE WaitProofs -----------------------------
(* What the wait for deletions can be relied on for, for any number of     *)
(* names, incarnations and changes by others.                              *)
EXTENDS Wait, TLAPS

USE DEF cluster, visit, waitOpts, vars

-----------------------------------------------------------------------------
(* Type correctness.                                                       *)

LEMMA InitType == Init => TypeOK
<1>1. SUFFICES ASSUME Init PROVE TypeOK
  OBVIOUS
<1>2. holder \in [Names -> Uids \cup {None}] /\ used \subseteq Uids
  BY <1>1, ListedAssumption DEF Init
<1>3. ticks \in 0..MaxTicks
  BY <1>1, MaxTicksAssumption DEF Init
<1>4. [n \in Names |-> None] \in [Names -> Uids \cup {None}]
  OBVIOUS
<1>5. uidMap \in [Names -> Uids \cup {None}] /\ victim \in [Names -> Uids \cup {None}]
  BY <1>1, <1>4 DEF Init
<1>6. deletedInfos \in Seq(Names) /\ rest \in Seq(Names)
  BY <1>1 DEF Init
<1>7. /\ finalized \subseteq Uids /\ terminating \subseteq Uids
      /\ todo \subseteq Names /\ waited \subseteq Names
  BY <1>1 DEF Init
<1>8. /\ errs \in BOOLEAN /\ gaveUp \in BOOLEAN
      /\ pc = "delete" /\ watching = None
  BY <1>1 DEF Init
<1>9. QED
  BY <1>2, <1>3, <1>5, <1>6, <1>7, <1>8 DEF TypeOK, Ended

\* A delete request, of the run or of others.
LEMMA DeleteType ==
  ASSUME TypeOK, NEW n \in Names, holder[n] # None, Delete(n)
  PROVE  holder' \in [Names -> Uids \cup {None}] /\ terminating' \subseteq Uids
BY DEF TypeOK, Delete

LEMMA AcceptType ==
  ASSUME TypeOK, NEW n \in Names, Accept(n)
  PROVE  /\ todo' \subseteq Names /\ deletedInfos' \in Seq(Names)
         /\ Len(deletedInfos') = Len(deletedInfos) + 1
         /\ \A i \in DOMAIN deletedInfos : deletedInfos'[i] = deletedInfos[i]
         /\ deletedInfos'[Len(deletedInfos')] = n
BY DEF TypeOK, Accept

LEMMA RunType == TypeOK /\ Run => TypeOK'
<1>1. SUFFICES ASSUME TypeOK, Run PROVE TypeOK'
  OBVIOUS
<1>2. ASSUME NEW n \in Names, DeleteWithUid(n) PROVE TypeOK'
  <2>1. Accept(n) /\ holder[n] \in Uids /\ Delete(n)
    BY <1>1, <1>2 DEF DeleteWithUid, TypeOK
  <2>2. /\ uidMap' \in [Names -> Uids \cup {None}]
        /\ victim' \in [Names -> Uids \cup {None}]
    BY <1>1, <1>2, <2>1 DEF DeleteWithUid, Recorded, TypeOK
  <2>3. QED
    BY <1>1, <1>2, <2>1, <2>2, AcceptType, DeleteType, NoneAssumption
       DEF DeleteWithUid, Accept, TypeOK, Ended
<1>3. ASSUME NEW n \in Names, DeleteWithoutUid(n) \/ DeleteReplyLost(n) PROVE TypeOK'
  <2>1. Accept(n) /\ holder[n] \in Uids /\ Delete(n)
    BY <1>1, <1>3 DEF DeleteWithoutUid, DeleteReplyLost, TypeOK
  <2>2. victim' \in [Names -> Uids \cup {None}]
    BY <1>1, <1>3, <2>1 DEF DeleteWithoutUid, DeleteReplyLost, TypeOK
  <2>3. QED
    BY <1>1, <1>3, <2>1, <2>2, AcceptType, DeleteType, NoneAssumption
       DEF DeleteWithoutUid, DeleteReplyLost, Accept, TypeOK, Ended
<1>4. ASSUME NEW n \in Names, DeleteFails(n) PROVE TypeOK'
  BY <1>1, <1>4, AcceptType DEF DeleteFails, Accept, TypeOK, Ended
<1>5. ASSUME NEW n \in Names, Spare(n) PROVE TypeOK'
  BY <1>1, <1>5 DEF Spare, TypeOK, Ended
<1>6. CASE RunFailed \/ StartWaiting
  BY <1>1, <1>6 DEF RunFailed, StartWaiting, TypeOK, Ended
<1>7. QED
  BY <1>1, <1>2, <1>3, <1>4, <1>5, <1>6 DEF Run

LEMMA AdvanceType ==
  ASSUME TypeOK, rest # <<>>, Advance
  PROVE  TypeOK'
<1>1. Head(rest) \in Names /\ Tail(rest) \in Seq(Names)
  BY DEF TypeOK
<1>2. QED
  BY <1>1 DEF Advance, TypeOK, Ended

LEMMA WaitType == TypeOK /\ WaitDeletion => TypeOK'
<1>1. SUFFICES ASSUME TypeOK, WaitDeletion PROVE TypeOK'
  OBVIOUS
<1>2. CASE GetFindsItGone \/ WatchFindsItGone \/ DeletedEvent
  BY <1>1, <1>2, AdvanceType DEF GetFindsItGone, WatchFindsItGone, DeletedEvent, TypeOK
<1>3. CASE WatchFindsIt
  <2>1. Head(rest) \in Names
    BY <1>1, <1>3 DEF WatchFindsIt, TypeOK
  <2>2. QED
    BY <1>1, <1>3, <2>1 DEF WatchFindsIt, TypeOK, Ended
<1>4. CASE GetFindsIt \/ WaitFails \/ AllGone
  BY <1>1, <1>4 DEF GetFindsIt, WaitFails, AllGone, TypeOK, Ended
<1>5. QED
  BY <1>1, <1>2, <1>3, <1>4 DEF WaitDeletion

LEMMA OthersType == TypeOK /\ Others => TypeOK'
<1>1. SUFFICES ASSUME TypeOK, NEW n \in Names, Recreate(n) \/ OthersDelete(n) \/ Release(n)
               PROVE  TypeOK'
  BY DEF Others
<1>2. OthersStep /\ ticks' \in 0..MaxTicks
  BY <1>1, MaxTicksAssumption DEF Recreate, OthersDelete, Release, OthersStep, TypeOK
<1>3. CASE Recreate(n)
  BY <1>1, <1>2, <1>3 DEF Recreate, OthersStep, TypeOK, Ended
<1>4. CASE OthersDelete(n)
  BY <1>1, <1>2, <1>4, DeleteType DEF OthersDelete, OthersStep, TypeOK, Ended
<1>5. CASE Release(n)
  BY <1>1, <1>2, <1>5 DEF Release, OthersStep, TypeOK, Ended
<1>6. QED
  BY <1>1, <1>3, <1>4, <1>5

LEMMA StepType == TypeOK /\ [Next]_vars => TypeOK'
<1>1. ASSUME TypeOK, UNCHANGED vars PROVE TypeOK'
  BY <1>1 DEF TypeOK, Ended
<1>2. QED
  BY <1>1, RunType, WaitType, OthersType DEF Next, Terminated

\* The variables hold values of their types (Run, waitDeletion).
THEOREM TypeCorrect == Spec => []TypeOK
BY InitType, StepType, PTL DEF Spec

-----------------------------------------------------------------------------
(* What is found gone is gone.                                             *)

\* A UID is used once: who bears a name or was hit by a request has been.
UsedOnce ==
  \A n \in Names : /\ holder[n] \in used \cup {None}
                   /\ victim[n] \in used \cup {None}

\* What is recorded is what the request hit.
RecordedIsVictim ==
  \A n \in Names : /\ uidMap[n] \in {None, victim[n]}
                   /\ n \in todo => uidMap[n] = None

\* Without an error, all that was accepted was hit; all that is waited for
\* was accepted.
AllWereHit ==
  /\ ~errs => \A i \in DOMAIN deletedInfos : victim[deletedInfos[i]] # None
  /\ pc \in {"wait", "watch"} => ~errs /\ ~gaveUp
  /\ pc \in {"wait", "watch"} => \A i \in DOMAIN rest : victim[rest[i]] # None
  /\ pc \in {"wait", "watch"} \/ (pc = "succeeded" /\ ~gaveUp) =>
       \A i \in DOMAIN deletedInfos :
         \/ deletedInfos[i] \in waited
         \/ pc # "succeeded" /\ \E j \in DOMAIN rest : rest[j] = deletedInfos[i]
  /\ pc = "delete" => waited = {} /\ ~gaveUp

\* The watch is over the victim or began when the victim had gone.
WatchesTheVictim ==
  /\ pc \in {"delete", "wait"} => watching = None
  /\ pc = "watch" /\ watching # None =>
       watching = victim[Head(rest)] \/ holder[Head(rest)] # victim[Head(rest)]

WInv ==
  /\ TypeOK
  /\ UsedOnce
  /\ RecordedIsVictim
  /\ AllWereHit
  /\ WatchesTheVictim
  /\ GoneMeansGone

LEMMA InitInv == Init => WInv
<1>1. SUFFICES ASSUME Init PROVE WInv
  OBVIOUS
<1>2. UsedOnce
  BY <1>1, ListedAssumption DEF Init, UsedOnce
<1>3. RecordedIsVictim
  BY <1>1 DEF Init, RecordedIsVictim
<1>4. AllWereHit /\ WatchesTheVictim /\ GoneMeansGone
  BY <1>1 DEF Init, AllWereHit, WatchesTheVictim, GoneMeansGone
<1>5. QED
  BY <1>1, <1>2, <1>3, <1>4, InitType DEF WInv

\* A delete request changes no name but its own.
LEMMA DeleteFrees ==
  ASSUME TypeOK, NEW n \in Names, holder[n] # None, Delete(n)
  PROVE  \A m \in Names : holder'[m] = holder[m] \/ holder'[m] = None
BY DEF TypeOK, Delete

\* The victims only lose their names: nobody takes a UID a second time.
LEMMA RunInv == WInv /\ Run => WInv'
<1>1. SUFFICES ASSUME WInv, Run PROVE WInv'
  OBVIOUS
<1>2. TypeOK /\ TypeOK'
  BY <1>1, RunType DEF WInv
<1>3. ASSUME NEW n \in Names, Accept(n), holder[n] # None, Delete(n), UNCHANGED <<used, pc, waitOpts>>,
             victim' = [victim EXCEPT ![n] = holder[n]],
             uidMap' = uidMap \/ uidMap' = [uidMap EXCEPT ![n] = holder[n]],
             errs => errs'
      PROVE  WInv'
  <2>1. holder[n] \in used /\ victim'[n] = holder[n] /\ \A m \in Names \ {n} : victim'[m] = victim[m]
    BY <1>1, <1>2, <1>3 DEF WInv, UsedOnce, TypeOK
  <2>2. UsedOnce'
    BY <1>1, <1>2, <1>3, <2>1, DeleteFrees DEF WInv, UsedOnce
  <2>3. RecordedIsVictim'
    <3>1. ASSUME NEW m \in Names, m # n PROVE uidMap'[m] = uidMap[m] /\ victim'[m] = victim[m]
      BY <1>2, <1>3, <2>1, <3>1 DEF TypeOK
    <3>2. uidMap'[n] \in {None, holder[n]} /\ n \notin todo'
      BY <1>1, <1>2, <1>3 DEF WInv, RecordedIsVictim, TypeOK, Accept
    <3>3. todo' \subseteq todo
      BY <1>3 DEF Accept
    <3>4. QED
      BY <1>1, <2>1, <3>1, <3>2, <3>3 DEF WInv, RecordedIsVictim
  <2>4. AllWereHit'
    <3>1. pc = "delete" /\ pc' = "delete" /\ waited' = {} /\ ~gaveUp'
      BY <1>1, <1>3 DEF Accept, WInv, AllWereHit
    <3>2. ASSUME ~errs', NEW i \in DOMAIN deletedInfos' PROVE victim'[deletedInfos'[i]] # None
      <4>1. CASE i \in DOMAIN deletedInfos
        <5>1. deletedInfos'[i] = deletedInfos[i] /\ deletedInfos[i] \in Names
          BY <1>2, <1>3, <4>1, AcceptType DEF TypeOK
        <5>2. victim[deletedInfos[i]] # None
          BY <1>1, <1>3, <3>2, <4>1 DEF WInv, AllWereHit
        <5>3. QED
          BY <1>3, <2>1, <5>1, <5>2
      <4>2. CASE i \notin DOMAIN deletedInfos
        <5>1. deletedInfos'[i] = n
          BY <1>2, <1>3, <3>2, <4>2, AcceptType DEF TypeOK
        <5>2. QED
          BY <1>3, <2>1, <5>1
      <4>3. QED
        BY <4>1, <4>2
    <3>3. QED
      BY <3>1, <3>2 DEF AllWereHit
  <2>5. WatchesTheVictim' /\ GoneMeansGone'
    BY <1>1, <1>3 DEF Accept, WInv, AllWereHit, WatchesTheVictim, GoneMeansGone
  <2>6. QED
    BY <1>2, <2>2, <2>3, <2>4, <2>5 DEF WInv
<1>4. ASSUME NEW n \in Names, DeleteWithUid(n) \/ DeleteWithoutUid(n) \/ DeleteReplyLost(n)
      PROVE  WInv'
  BY <1>3, <1>4 DEF DeleteWithUid, DeleteWithoutUid, DeleteReplyLost, Recorded
<1>5. ASSUME NEW n \in Names, DeleteFails(n) \/ Spare(n) PROVE WInv'
  <2>1. UsedOnce' /\ RecordedIsVictim' /\ WatchesTheVictim' /\ GoneMeansGone'
    BY <1>1, <1>5 DEF DeleteFails, Spare, Accept, WInv, UsedOnce, RecordedIsVictim,
                      WatchesTheVictim, GoneMeansGone, AllWereHit
  <2>2. AllWereHit'
    BY <1>1, <1>5 DEF DeleteFails, Spare, Accept, WInv, AllWereHit
  <2>3. QED
    BY <1>2, <2>1, <2>2 DEF WInv
<1>6. CASE RunFailed \/ StartWaiting
  <2>1. UsedOnce' /\ RecordedIsVictim' /\ WatchesTheVictim' /\ GoneMeansGone'
    BY <1>1, <1>6 DEF RunFailed, StartWaiting, WInv, UsedOnce, RecordedIsVictim,
                      WatchesTheVictim, GoneMeansGone
  <2>2. CASE RunFailed
    BY <1>1, <1>2, <2>1, <2>2 DEF RunFailed, WInv, AllWereHit
  <2>3. CASE StartWaiting
    BY <1>1, <1>2, <2>1, <2>3 DEF StartWaiting, WInv, AllWereHit
  <2>4. QED
    BY <1>6, <2>2, <2>3
<1>7. QED
  BY <1>1, <1>4, <1>5, <1>6 DEF Run

\* The name at the head is found gone when its victim is.
LEMMA AdvanceInv ==
  ASSUME WInv, pc \in {"wait", "watch"}, rest # <<>>, Advance,
         holder[Head(rest)] # victim[Head(rest)]
  PROVE  WInv'
<1>1. TypeOK /\ TypeOK'
  BY AdvanceType DEF WInv
<1>2. /\ Head(rest) \in Names /\ Head(rest) = rest[1] /\ 1 \in DOMAIN rest
      /\ \A i \in DOMAIN Tail(rest) : i + 1 \in DOMAIN rest /\ Tail(rest)[i] = rest[i + 1]
      /\ \A j \in DOMAIN rest : j # 1 => j - 1 \in DOMAIN Tail(rest) /\ Tail(rest)[j - 1] = rest[j]
  BY <1>1 DEF TypeOK
<1>3. UsedOnce' /\ RecordedIsVictim' /\ WatchesTheVictim'
  BY DEF Advance, WInv, UsedOnce, RecordedIsVictim, WatchesTheVictim
<1>4. GoneMeansGone'
  BY <1>2 DEF Advance, WInv, AllWereHit, GoneMeansGone
<1>5. AllWereHit'
  <2>1. \A i \in DOMAIN rest' : victim'[rest'[i]] # None
    BY <1>2 DEF Advance, WInv, AllWereHit
  <2>2. ASSUME NEW i \in DOMAIN deletedInfos', deletedInfos'[i] \notin waited'
        PROVE  \E j \in DOMAIN rest' : rest'[j] = deletedInfos'[i]
    <3>1. PICK j \in DOMAIN rest : rest[j] = deletedInfos[i]
      BY <2>2 DEF Advance, WInv, AllWereHit
    <3>2. j # 1
      BY <1>2, <2>2, <3>1 DEF Advance
    <3>3. j - 1 \in DOMAIN rest' /\ rest'[j - 1] = deletedInfos'[i]
      BY <1>2, <3>1, <3>2 DEF Advance
    <3>4. QED
      BY <3>3
  <2>3. QED
    BY <2>1, <2>2 DEF Advance, WInv, AllWereHit
<1>6. QED
  BY <1>1, <1>3, <1>4, <1>5 DEF WInv

LEMMA WaitInv == WInv /\ WaitDeletion => WInv'
<1>1. SUFFICES ASSUME WInv, WaitDeletion PROVE WInv'
  OBVIOUS
<1>2. TypeOK /\ TypeOK'
  BY <1>1, WaitType DEF WInv
<1>3. ASSUME pc \in {"wait", "watch"}, rest # <<>>
      PROVE  Head(rest) \in Names /\ victim[Head(rest)] # None
  BY <1>1, <1>2, <1>3 DEF WInv, AllWereHit, TypeOK
<1>4. CASE GetFindsItGone \/ WatchFindsItGone \/ DeletedEvent
  <2>1. pc \in {"wait", "watch"} /\ rest # <<>> /\ Advance
    BY <1>2, <1>4 DEF GetFindsItGone, WatchFindsItGone, DeletedEvent, TypeOK
  <2>2. holder[Head(rest)] # victim[Head(rest)]
    <3>1. CASE GetFindsItGone
      BY <1>1, <1>3, <2>1, <3>1 DEF GetFindsItGone, Another, WInv, RecordedIsVictim
    <3>2. CASE WatchFindsItGone
      BY <1>3, <2>1, <3>2 DEF WatchFindsItGone
    <3>3. CASE DeletedEvent
      BY <1>1, <3>3 DEF DeletedEvent, WInv, WatchesTheVictim
    <3>4. QED
      BY <1>4, <3>1, <3>2, <3>3
  <2>3. QED
    BY <1>1, <2>1, <2>2, AdvanceInv
<1>5. CASE GetFindsIt \/ WatchFindsIt \/ WaitFails \/ AllGone
  <2>1. UsedOnce' /\ RecordedIsVictim' /\ GoneMeansGone'
    BY <1>1, <1>5 DEF GetFindsIt, WatchFindsIt, WaitFails, AllGone, WInv, UsedOnce,
                      RecordedIsVictim, GoneMeansGone
  <2>2. WatchesTheVictim'
    BY <1>1, <1>5 DEF GetFindsIt, WatchFindsIt, WaitFails, AllGone, WInv, WatchesTheVictim
  <2>3. AllWereHit'
    BY <1>1, <1>5 DEF GetFindsIt, WatchFindsIt, WaitFails, AllGone, WInv, AllWereHit
  <2>4. QED
    BY <1>2, <2>1, <2>2, <2>3 DEF WInv
<1>6. QED
  BY <1>1, <1>4, <1>5 DEF WaitDeletion

LEMMA OthersInv == WInv /\ Others => WInv'
<1>1. SUFFICES ASSUME WInv, NEW n \in Names, Recreate(n) \/ OthersDelete(n) \/ Release(n)
               PROVE  WInv'
  BY DEF Others
<1>2. TypeOK /\ TypeOK' /\ UNCHANGED <<visit, pc, waitOpts>> /\ used \subseteq used'
  BY <1>1, OthersType DEF WInv, Others, Recreate, OthersDelete, Release, OthersStep
\* Whoever bears a name now bore it before, or is new.
<1>3. \A m \in Names : holder'[m] \in {holder[m], None} \cup (used' \ used)
  BY <1>1, <1>2, DeleteFrees DEF Recreate, OthersDelete, Release, TypeOK
<1>4. \A m \in Names : victim[m] # None /\ holder[m] # victim[m] => holder'[m] # victim[m]
  BY <1>1, <1>3 DEF WInv, UsedOnce
<1>5. UsedOnce' /\ RecordedIsVictim' /\ GoneMeansGone' /\ AllWereHit'
  BY <1>1, <1>2, <1>3, <1>4
     DEF WInv, UsedOnce, RecordedIsVictim, GoneMeansGone, AllWereHit, TypeOK
<1>6. WatchesTheVictim'
  <2>1. pc = "watch" => Head(rest) \in Names /\ victim[Head(rest)] # None
    BY <1>1, <1>2 DEF WInv, AllWereHit, TypeOK
  <2>2. QED
    BY <1>1, <1>2, <1>4, <2>1 DEF WInv, WatchesTheVictim
<1>7. QED
  BY <1>2, <1>5, <1>6 DEF WInv

LEMMA StepInv == WInv /\ [Next]_vars => WInv'
<1>1. ASSUME WInv, UNCHANGED vars PROVE WInv'
  <2>1. TypeOK'
    BY <1>1, StepType DEF WInv
  <2>2. QED
    BY <1>1, <2>1
       DEF WInv, UsedOnce, RecordedIsVictim, AllWereHit, WatchesTheVictim, GoneMeansGone
<1>2. QED
  BY <1>1, RunInv, WaitInv, OthersInv DEF Next, Terminated

\* What the wait has found gone is gone for good, whoever bears its name now
\* (Run, waitDeletion).
THEOREM GoneIsGone == Spec => []GoneMeansGone
<1>1. WInv => GoneMeansGone
  BY DEF WInv
<1>2. QED
  BY InitInv, StepInv, <1>1, PTL DEF Spec

\* The wait is for what was deleted, and if it does not fail for all of it
\* (Run, waitDeletion).
THEOREM WaitIsForTheDeleted == Spec => []AwaitedWereDeleted
<1>1. WInv => AwaitedWereDeleted
  BY DEF WInv, AllWereHit, AwaitedWereDeleted
<1>2. QED
  BY InitInv, StepInv, <1>1, PTL DEF Spec

\* With a UID recorded, nobody waits for a stranger (uidMap).
THEOREM UidTellsStrangers == Spec => StrangersAreNotAwaited
<1>1. ASSUME WInv, [Next]_vars, pc = "wait", pc' = "watch", uidMap[Head(rest)] # None
      PROVE  holder[Head(rest)] = victim[Head(rest)]
  <2>1. GetFindsIt
    BY <1>1 DEF Next, Run, DeleteWithUid, DeleteWithoutUid, DeleteFails, DeleteReplyLost, Accept,
       Spare, RunFailed, StartWaiting, WaitDeletion, GetFindsItGone, WatchFindsItGone,
       WatchFindsIt, DeletedEvent, Advance, WaitFails, AllGone, Others, Recreate, OthersDelete,
       Release, OthersStep, Terminated
  <2>2. Head(rest) \in Names
    BY <1>1, <2>1 DEF WInv, TypeOK, GetFindsIt
  <2>3. QED
    BY <1>1, <2>1, <2>2 DEF GetFindsIt, Another, WInv, RecordedIsVictim
<1>2. Spec => []WInv
  BY InitInv, StepInv, PTL DEF Spec
<1>3. QED
  BY <1>1, <1>2, PTL DEF Spec, StrangersAreNotAwaited

-----------------------------------------------------------------------------
(* The wait goes forward.                                                  *)

\* The phases in their order.
LEMMA PhaseValues ==
  /\ (pc = "delete" => Phase = 0) /\ (pc' = "delete" => Phase' = 0)
  /\ (pc \in {"wait", "watch"} => Phase = 1) /\ (pc' \in {"wait", "watch"} => Phase' = 1)
  /\ (pc \in Ended => Phase = 2) /\ (pc' \in Ended => Phase' = 2)
BY DEF Phase, Ended

\* A name is looked up once and watched once, whoever takes it meanwhile: the
\* run takes a bounded number of steps (Run, waitDeletion).
THEOREM WaitGoesForward == Spec => WaitAdvances
<1>1. ASSUME TypeOK, [Next]_vars, ~UNCHANGED <<pc, todo, rest, watching>>
      PROVE  \/ Phase < Phase'
             \/ /\ Phase = Phase'
                /\ \/ todo' \subseteq todo /\ todo' # todo
                   \/ todo' = todo /\ Len(rest') < Len(rest)
                   \/ todo' = todo /\ rest' = rest /\ Looking' < Looking
  <2>1. ASSUME NEW n \in Names,
               DeleteWithUid(n) \/ DeleteWithoutUid(n) \/ DeleteFails(n) \/ DeleteReplyLost(n) \/ Spare(n)
        PROVE  Phase = Phase' /\ todo' \subseteq todo /\ todo' # todo
    BY <2>1, PhaseValues
       DEF DeleteWithUid, DeleteWithoutUid, DeleteFails, DeleteReplyLost, Spare, Accept
  <2>2. CASE RunFailed \/ StartWaiting
    BY <2>2, PhaseValues DEF RunFailed, StartWaiting, Ended
  <2>3. CASE GetFindsItGone \/ WatchFindsItGone \/ DeletedEvent
    <3>1. pc \in {"wait", "watch"} /\ rest # <<>> /\ Advance
      BY <1>1, <2>3 DEF GetFindsItGone, WatchFindsItGone, DeletedEvent, TypeOK
    <3>2. Len(rest') < Len(rest)
      BY <1>1, <3>1 DEF Advance, TypeOK
    <3>3. QED
      BY <3>1, <3>2, PhaseValues DEF Advance
  <2>4. CASE GetFindsIt \/ WatchFindsIt
    BY <2>4, PhaseValues DEF GetFindsIt, WatchFindsIt, Looking
  <2>5. CASE WaitFails \/ AllGone
    BY <2>5, PhaseValues DEF WaitFails, AllGone, Ended
  <2>6. CASE Others \/ Terminated \/ UNCHANGED vars
    BY <1>1, <2>6 DEF Others, Recreate, OthersDelete, Release, OthersStep, Terminated
  <2>7. QED
    BY <1>1, <2>1, <2>2, <2>3, <2>4, <2>5, <2>6 DEF Next, Run, WaitDeletion
<1>2. QED
  BY <1>1, TypeCorrect, PTL DEF WaitAdvances, Spec
=============================================================================
