------------------------------ MODULE RoleData ------------------------------
(***************************************************************************)
(* The player snapshot of one role (repo.RoleSnapshot, player.Actor) and   *)
(* the pure mutations the Game service applies to it.                      *)
(*                                                                         *)
(* Gold and bag items are checked and added the same way, so both are      *)
(* assets with a balance.  A bundle is named by the immutable source key   *)
(* it travels with ("mail:7", "pay:ord_1", "auction:buyer:3"): one source, *)
(* one bundle.  Skills, quests and the guild are mutated without a source; *)
(* the snapshot keeps the number of such mutations it contains.            *)
(*                                                                         *)
(* `applied' is a history component: how many times each source has been   *)
(* folded into this snapshot.  No guard reads it.                          *)
(***************************************************************************)
EXTENDS Integers

CONSTANTS
    Sources,    \* ledger source keys
    Assets,     \* gold and the item kinds
    Bundle,     \* Bundle[s][x]: signed amount of asset x that source s grants
    Reward,     \* Reward[x]: what one dungeon pass adds
    InitBal     \* balances of the role before the first operation

ASSUME BundleAssumption == Bundle \in [Sources -> [Assets -> Int]]
ASSUME RewardAssumption == Reward \in [Assets -> Nat]
ASSUME InitBalAssumption == InitBal \in [Assets -> Nat]

Data == [level   : Nat,
         bal     : [Assets -> Int],
         mutes   : Nat,
         applied : [Sources -> Nat]]

\* A row created by Ensure, decoded: level 1 and nothing applied yet.
InitData == [level   |-> 1,
             bal     |-> InitBal,
             mutes   |-> 0,
             applied |-> [s \in Sources |-> 0]]

-----------------------------------------------------------------------------
\* applyBundleUnsafe: every debit is checked before anything is changed.
AnyBalance(d, s) == TRUE

Affordable(d, s) ==
    \A x \in Assets : Bundle[s][x] < 0 => d.bal[x] >= -Bundle[s][x]

AddBundle(bal, s) == [x \in Assets |-> bal[x] + Bundle[s][x]]

ApplyBundle(d, s) ==
    [d EXCEPT !.bal     = AddBundle(d.bal, s),
              !.applied = [d.applied EXCEPT ![s] = @ + 1]]

\* dungeon.Pass: one level up, gold and a potion.
AddReward(bal) == [x \in Assets |-> bal[x] + Reward[x]]

Pass(d) == [d EXCEPT !.level = d.level + 1, !.bal = AddReward(d.bal)]

\* Book.Upgrade, State.Accept, SetGuild: a mutation without source.
Mutate(d) == [d EXCEPT !.mutes = @ + 1]
=============================================================================
