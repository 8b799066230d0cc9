---------------------------- MODULE MCRoleActor -----------------------------
(***************************************************************************)
(* RoleActor on two processes that compete for the role, with a debit that *)
(* takes all the role has and one that it can pay twice: together they     *)
(* overdraw it, and the second one shows whether a grant is repeated.      *)
(***************************************************************************)
EXTENDS RoleActor, TLC

\* Processes are only compared for equality.
Symmetry == Permutations(Procs)

MCBundle == [s \in Sources |-> [x \in Assets |-> IF s = "pay" THEN -2 ELSE -1]]
MCReward == [x \in Assets |-> 0]
MCInitBal == [x \in Assets |-> 2]
=============================================================================
