---------------------------- MODULE ReapContract ----------------------------
(* What a reaper of unused objects promises, without saying how it finds   *)
(* out what is unused.  Some objects are protected, some are due, and      *)
(* about the rest it is free to decide.  It chooses among the objects that *)
(* are not protected, removes only what it has chosen and nothing in a dry *)
(* run, claims success only if all that is due was chosen and all it chose *)
(* is gone, and comes to an end.  While it works others can lift the       *)
(* protection of an object, and put an object that is due to some use;     *)
(* what was chosen may go all the same.                                    *)
CONSTANT Objects

VARIABLES
  protected,     \* objects that must not be chosen
  due,           \* objects that must be chosen, sooner or later
  chosen,        \* objects accepted for removal
  removed,       \* objects removed by the reaper
  dry,           \* the run is a dry run
  outcome        \* running, succeeded or failed

vars == <<protected, due, chosen, removed, dry, outcome>>

Init ==
  /\ protected \subseteq Objects /\ due \subseteq Objects
  /\ chosen = {} /\ removed = {}
  /\ dry \in BOOLEAN
  /\ outcome = "running"

\* Others put an object out of use, or into use.
Release ==
  /\ protected' \subseteq protected /\ due' \subseteq due
  /\ UNCHANGED <<chosen, removed, dry, outcome>>

Choose(o) ==
  /\ outcome = "running" /\ o \notin protected
  /\ chosen' = chosen \cup {o}
  /\ UNCHANGED <<protected, due, removed, dry, outcome>>

Remove(o) ==
  /\ outcome = "running" /\ o \in chosen /\ ~dry
  /\ removed' = removed \cup {o}
  /\ due' = due \ {o}
  /\ UNCHANGED <<protected, chosen, dry, outcome>>

\* Nothing is left to be decided, and all that was chosen is gone.
Succeed ==
  /\ outcome = "running"
  /\ due \subseteq chosen
  /\ ~dry => chosen \subseteq removed
  /\ outcome' = "succeeded"
  /\ UNCHANGED <<protected, due, chosen, removed, dry>>

\* The reaper may give up before it has looked at anything.
Fail ==
  /\ outcome = "running"
  /\ outcome' = "failed"
  /\ protected' \subseteq protected
  /\ UNCHANGED <<due, chosen, removed, dry>>

Next ==
  \/ Release \/ Succeed \/ Fail
  \/ \E o \in Objects : Choose(o) \/ Remove(o)

Safety == Init /\ [][Next]_vars

\* The reaper does not run for ever.
Spec == Safety /\ <>(outcome # "running")
=============================================================================
