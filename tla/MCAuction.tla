------------------------------ MODULE MCAuction -----------------------------
(***************************************************************************)
(* The auction with every role able to sell one item and to pay for one,   *)
(* and with a dungeon pass that earns the price back.                      *)
(***************************************************************************)
EXTENDS Auction, TLC

MCPrice == [l \in Listings |-> 2]
MCQty == [l \in Listings |-> 1]

\* Roles and requests are only compared for equality and all start alike.
Symmetry == Permutations(Roles) \cup Permutations(Calls)

\* Manager.ApplyGrant: whatever calls are retried or run side by side, every role only
\* takes steps AtomicRole allows, which are the ones RoleActor implements.
Role(r) ==
    INSTANCE AtomicRole WITH
        Sources <- Legs \X Listings, Bundle <- SagaBundle,
        Reward <- DungeonReward, InitBal <- StartBalance,
        data <- role[r], ledger <- ledger[r], outbox <- 2 .. role[r].level
RolesAreAtomic ==
    /\ \A r \in Roles : Role(r)!AbsInit
    /\ [][\A r \in Roles : UNCHANGED <<role[r], ledger[r]>> \/ Role(r)!AbsNext]_vars
=============================================================================
