--------------------------- MODULE HarvestContract ---------------------------
(* A run of kubectl-harvest implements the contract of a reaper.           *)
(*                                                                         *)
(* Protected is what the command line does not ask for, and what has been  *)
(* in use since the run began.  Until the kinds have been surveyed that is *)
(* not settled: everything is protected then, and nothing is chosen.  Owed *)
(* is what the command line asks for and nobody has used since the run     *)
(* began; a user who is asked may decline everything.  A dry run is dry    *)
(* unless it is a quiet one on the client, which is a real run (module     *)
(* Harvest, DryRunDeletesNothing).                                         *)
EXTENDS Harvest

Protected ==
  IF pc \in {"preflight", "survey"}
  THEN Objects
  ELSE {o \in Objects : InUseThroughout(o) \/ ~AskedFor(o)}

Owed ==
  IF opts.interactive
  THEN {}
  ELSE {o \in live \ (touched \cup busy \cup Exempt) :
          AskedFor(o) /\ \A e \in Ever : ~Points(e, o)}

Dry == opts.dryRun = "server" \/ PrintOnly

Outcome == IF pc \in Ended THEN pc ELSE "running"

Contract == INSTANCE ReapContract
  WITH protected <- Protected, due <- Owed, chosen <- deletedInfos, removed <- deleted,
       dry <- Dry, outcome <- Outcome

\* Every behaviour of a run is one the contract allows, however its requests
\* are interleaved with the changes others make, fail or lose their replies:
\* it accepts only what it was asked for and what has not been in use since
\* the run began, deletes only what it has accepted, nothing in a dry run that
\* is one, succeeds only when it has accepted all that nobody used and all it
\* accepted is gone, and ends (Run, waitDeletion, New).
KeepsContract == Contract!Spec

\* The part of it that needs no fairness.
KeepsContractSafely == Contract!Safety
=============================================================================
