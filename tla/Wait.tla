-------------------------------- MODULE Wait --------------------------------
(* The deletions of a run with --wait, and the wait for them.              *)
(*                                                                         *)
(* A delete request names an object; which incarnation it hits, and that   *)
(* incarnation's UID, the run learns from the reply, if at all             *)
(* (runner.Run).  A finalizer or a grace period keeps a deleted object     *)
(* alive.  waitDeletion hands the names and the UIDs to kubectl's          *)
(* wait.IsDeleted (external), which looks each name up, compares UIDs and  *)
(* watches the name.  Meanwhile others delete objects, lift finalizers and *)
(* re-create objects under the same name.  Which candidates are deleted is *)
(* the matter of Harvest; each is listed once.                             *)
EXTENDS Naturals, Sequences

CONSTANTS
  Names,         \* locations: resource, namespace and name
  Uids,          \* incarnations; a UID is never used again
  Listed,        \* the incarnation the run's listing found under each name
  MaxTicks,      \* bound on the changes made by others
  None           \* no object, no UID

ASSUME ListedAssumption == Listed \in [Names -> Uids]
ASSUME NoneAssumption == None \notin Uids
ASSUME MaxTicksAssumption == MaxTicks \in Nat

VARIABLES
  holder,        \* the incarnation that bears each name now
  finalized,     \* incarnations that outlive a delete request
  terminating,   \* incarnations somebody asked to go
  used,          \* incarnations there have been
  ticks,         \* how often others changed something
  todo,          \* candidates selected and not yet deleted
  deletedInfos,  \* names accepted for deletion, in order
  uidMap,        \* UID recorded for each name, if any
  victim,        \* the incarnation each delete request hit (history)
  errs,          \* the Visit has collected an error
  pc,            \* where the run is
  rest,          \* names still to be waited for
  watching,      \* the incarnation the watch of Head(rest) found
  waited,        \* names the wait has found gone
  gaveUp         \* the wait ended in an error

cluster == <<holder, finalized, terminating, used>>
visit == <<todo, deletedInfos, uidMap, victim, errs>>
waitOpts == <<rest, watching, waited, gaveUp>>
vars == <<cluster, ticks, visit, pc, waitOpts>>

Ended == {"succeeded", "failed"}

Init ==
  /\ holder = Listed
  /\ finalized \in SUBSET Uids /\ terminating = {}
  /\ used = {Listed[n] : n \in Names}
  /\ ticks = 0
  /\ todo = Names
  /\ deletedInfos = <<>>
  /\ uidMap = [n \in Names |-> None] /\ victim = [n \in Names |-> None]
  /\ errs = FALSE
  /\ pc = "delete"
  /\ rest = <<>> /\ watching = None /\ waited = {} /\ gaveUp = FALSE

-----------------------------------------------------------------------------
(* runner.Run: the delete requests.                                        *)

\* The incarnation under the name goes, or is marked if something holds it.
Delete(n) ==
  IF holder[n] \in finalized
  THEN terminating' = terminating \cup {holder[n]} /\ UNCHANGED holder
  ELSE holder' = [holder EXCEPT ![n] = None] /\ UNCHANGED terminating

Accept(n) ==
  /\ pc = "delete" /\ n \in todo
  /\ todo' = todo \ {n}
  /\ deletedInfos' = Append(deletedInfos, n)

\* Fault: the name goes where the UID belongs.
RecordedName(n) == n

\* Fault: the UID is that of the object listed, which may have been replaced.
RecordedFromListing(n) == Listed[n]

\* The UID in the reply: Status.Details.UID or the object's own.
Recorded(n) == holder[n]

\* The reply is a Status with details or the object itself.
DeleteWithUid(n) ==
  /\ Accept(n) /\ holder[n] # None
  /\ Delete(n)
  /\ uidMap' = [uidMap EXCEPT ![n] = Recorded(n)]
  /\ victim' = [victim EXCEPT ![n] = holder[n]]
  /\ UNCHANGED <<finalized, used, ticks, errs, pc, waitOpts>>

\* The reply names no UID: "next best thing is just skipping the UID".
DeleteWithoutUid(n) ==
  /\ Accept(n) /\ holder[n] # None
  /\ Delete(n)
  /\ victim' = [victim EXCEPT ![n] = holder[n]]
  /\ UNCHANGED <<finalized, used, ticks, uidMap, errs, pc, waitOpts>>

\* Gone already, forbidden, or the request never arrived.
DeleteFails(n) ==
  /\ Accept(n)
  /\ errs' = TRUE
  /\ UNCHANGED <<cluster, ticks, uidMap, victim, pc, waitOpts>>

DeleteReplyLost(n) ==
  /\ Accept(n) /\ holder[n] # None
  /\ Delete(n)
  /\ victim' = [victim EXCEPT ![n] = holder[n]]
  /\ errs' = TRUE
  /\ UNCHANGED <<finalized, used, ticks, uidMap, pc, waitOpts>>

\* The decision, the user or a flag spares the candidate.
Spare(n) ==
  /\ pc = "delete" /\ n \in todo
  /\ todo' = todo \ {n}
  /\ UNCHANGED <<cluster, ticks, deletedInfos, uidMap, victim, errs, pc, waitOpts>>

RunFailed ==
  /\ pc = "delete" /\ todo = {} /\ errs
  /\ pc' = "failed"
  /\ UNCHANGED <<cluster, ticks, visit, waitOpts>>

\* Fault: the error of the Visit is looked at after the wait.
StartWaitingDespiteErrors ==
  /\ pc = "delete" /\ todo = {}
  /\ pc' = "wait"
  /\ rest' = deletedInfos
  /\ UNCHANGED <<cluster, ticks, visit, watching, waited, gaveUp>>

StartWaiting ==
  /\ pc = "delete" /\ todo = {} /\ ~errs
  /\ pc' = "wait"
  /\ rest' = deletedInfos
  /\ UNCHANGED <<cluster, ticks, visit, watching, waited, gaveUp>>

-----------------------------------------------------------------------------
(* waitDeletion: IsDeleted for each name in turn.                          *)

\* Fault: the wait is started without the UIDs.
AnotherUnnoticed(n) == FALSE

\* The name is borne by an incarnation other than the recorded one.
Another(n) == uidMap[n] # None /\ holder[n] # uidMap[n]

Advance ==
  /\ pc' = "wait"
  /\ waited' = waited \cup {Head(rest)}
  /\ rest' = Tail(rest)
  /\ watching' = None
  /\ UNCHANGED <<cluster, ticks, visit, gaveUp>>

GetFindsItGone ==
  /\ pc = "wait" /\ rest # <<>>
  /\ holder[Head(rest)] = None \/ Another(Head(rest))
  /\ Advance

GetFindsIt ==
  /\ pc = "wait" /\ rest # <<>>
  /\ holder[Head(rest)] # None /\ ~Another(Head(rest))
  /\ pc' = "watch"
  /\ UNCHANGED <<cluster, ticks, visit, waitOpts>>

\* The watch begins with a listing of the name.
WatchFindsItGone ==
  /\ pc = "watch" /\ watching = None /\ holder[Head(rest)] = None
  /\ Advance

WatchFindsIt ==
  /\ pc = "watch" /\ watching = None /\ holder[Head(rest)] # None
  /\ watching' = holder[Head(rest)]
  /\ UNCHANGED <<cluster, ticks, visit, pc, rest, waited, gaveUp>>

\* Fault: after a deletion the name is looked up again.
DeletedEventIsLookedUp ==
  /\ pc = "watch" /\ watching # None /\ holder[Head(rest)] # watching
  /\ pc' = "wait" /\ watching' = None
  /\ UNCHANGED <<cluster, ticks, visit, rest, waited, gaveUp>>

\* The watch reports each deletion, though the name may be taken again.
DeletedEvent ==
  /\ pc = "watch" /\ watching # None /\ holder[Head(rest)] # watching
  /\ Advance

\* Fault: the wait has no bound, it fails only when the name is free.
WaitFailsOnlyWhenGone ==
  /\ pc \in {"wait", "watch"} /\ rest # <<>> /\ holder[Head(rest)] = None
  /\ gaveUp' = TRUE
  /\ pc' = "succeeded"
  /\ UNCHANGED <<cluster, ticks, visit, rest, watching, waited>>

\* The timeout, a signal, a forbidden or failed request.  The first error
\* skips the remaining names, and waitDeletion keeps it to itself.
WaitFails ==
  /\ pc \in {"wait", "watch"} /\ rest # <<>>
  /\ gaveUp' = TRUE
  /\ pc' = "succeeded"
  /\ UNCHANGED <<cluster, ticks, visit, rest, watching, waited>>

AllGone ==
  /\ pc = "wait" /\ rest = <<>>
  /\ pc' = "succeeded"
  /\ UNCHANGED <<cluster, ticks, visit, waitOpts>>

-----------------------------------------------------------------------------
(* The rest of the cluster.                                                *)

OthersStep ==
  /\ pc \notin Ended
  /\ ticks < MaxTicks
  /\ ticks' = ticks + 1
  /\ UNCHANGED <<visit, pc, waitOpts>>

Recreate(n) ==
  /\ OthersStep /\ holder[n] = None
  /\ \E u \in Uids \ used :
       /\ holder' = [holder EXCEPT ![n] = u]
       /\ used' = used \cup {u}
  /\ UNCHANGED <<finalized, terminating>>

OthersDelete(n) ==
  /\ OthersStep /\ holder[n] # None
  /\ Delete(n)
  /\ UNCHANGED <<finalized, used>>

\* The last finalizer is removed, or the grace period is over.
Release(n) ==
  /\ OthersStep /\ holder[n] \in finalized
  /\ finalized' = finalized \ {holder[n]}
  /\ holder' = IF holder[n] \in terminating THEN [holder EXCEPT ![n] = None] ELSE holder
  /\ UNCHANGED <<terminating, used>>

-----------------------------------------------------------------------------
Run ==
  \/ \E n \in Names :
       \/ DeleteWithUid(n) \/ DeleteWithoutUid(n) \/ DeleteFails(n)
       \/ DeleteReplyLost(n) \/ Spare(n)
  \/ RunFailed \/ StartWaiting

WaitDeletion ==
  \/ GetFindsItGone \/ GetFindsIt \/ WatchFindsItGone \/ WatchFindsIt
  \/ DeletedEvent \/ WaitFails \/ AllGone

Others == \E n \in Names : Recreate(n) \/ OthersDelete(n) \/ Release(n)

Terminated == pc \in Ended /\ UNCHANGED vars

Next == Run \/ WaitDeletion \/ Others \/ Terminated

\* Requests return or fail, and the wait is bounded by --timeout or a week.
Spec == Init /\ [][Next]_vars /\ WF_vars(Run \/ WaitDeletion)

-----------------------------------------------------------------------------
\* The variables hold values of their types.
TypeOK ==
  /\ holder \in [Names -> Uids \cup {None}]
  /\ finalized \subseteq Uids /\ terminating \subseteq Uids /\ used \subseteq Uids
  /\ ticks \in 0..MaxTicks
  /\ todo \subseteq Names
  /\ deletedInfos \in Seq(Names) /\ rest \in Seq(Names)
  /\ uidMap \in [Names -> Uids \cup {None}] /\ victim \in [Names -> Uids \cup {None}]
  /\ errs \in BOOLEAN /\ gaveUp \in BOOLEAN
  /\ pc \in {"delete", "wait", "watch"} \cup Ended
  /\ pc = "watch" => rest # <<>>
  /\ watching \in Uids \cup {None}
  /\ waited \subseteq Names

\* What the wait has found gone is gone for good: the very incarnation that
\* the delete request hit, although the name may be borne by another since,
\* may have been when the request was made, and the reply may have carried no
\* UID (Run, waitDeletion).
GoneMeansGone == \A n \in waited : victim[n] # None /\ holder[n] # victim[n]

\* A run that waited to the end without an error has waited for all it
\* deleted; and nobody waits for an object nobody asked to go: if a request
\* failed the run does not wait (Run, waitDeletion).
AwaitedWereDeleted ==
  /\ pc \in {"wait", "watch"} => \A i \in DOMAIN deletedInfos : victim[deletedInfos[i]] # None
  /\ pc = "succeeded" /\ ~gaveUp => \A i \in DOMAIN deletedInfos : deletedInfos[i] \in waited

\* If the reply named the UID, the wait for a name is not started on account
\* of another object that has taken the name (uidMap).
StrangersAreNotAwaited ==
  [][pc = "wait" /\ pc' = "watch" /\ uidMap[Head(rest)] # None =>
       holder[Head(rest)] = victim[Head(rest)]]_vars

\* How far the run has come, and how far the wait for the name at the head.
Phase == CASE pc = "delete" -> 0 [] pc \in {"wait", "watch"} -> 1 [] pc \in Ended -> 2

Looking ==
  CASE pc = "watch" /\ watching # None -> 0
    [] pc = "watch" /\ watching = None -> 1
    [] OTHER                            -> 2

\* The wait never begins again for a name: it is looked up once, watched once,
\* and left for the next one, so others who keep taking the name cannot hold
\* the run up by it (Run, waitDeletion).
WaitAdvances ==
  [][\/ Phase < Phase'
     \/ /\ Phase = Phase'
        /\ \/ todo' \subseteq todo /\ todo' # todo
           \/ todo' = todo /\ Len(rest') < Len(rest)
           \/ todo' = todo /\ rest' = rest /\ Looking' < Looking]_<<pc, todo, rest, watching>>

\* The run returns, though finalizers may hold what it deleted for ever and
\* others may take its name (waitDeletion's timeout).
EventuallyReturns == <>(pc \in Ended)
=============================================================================
