------------------------------ MODULE Requests ------------------------------
(* What the account modules share: the requests under way at one time.     *)
EXTENDS FiniteSets

CONSTANTS Procs, None

ASSUME RequestsAssumption == None \notin Procs /\ IsFiniteSet(Procs)
=============================================================================
