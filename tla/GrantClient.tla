----------------------------- MODULE GrantClient ----------------------------
(***************************************************************************)
(* How Pay, Mail and Activity hand out rewards: GameClient.GrantItems      *)
(* parses the reward and posts it to the Game process that owns the role,  *)
(* under a source key ("pay:<order>", "mail:<id>", ...).  Game applies a   *)
(* source once (module RoleActor); what is left of it here is the set of   *)
(* sources applied so far.  The caller learns less than what happened: an  *)
(* error may hide a grant whose answer was lost.                           *)
(***************************************************************************)

VARIABLE ledger     \* sources in role_economy_ledger

\* A reward string: empty, well formed, or one that Parse refuses.
Rewards == {"none", "good", "bad"}
Parses(items) == items # "bad"

\* handleGrant applies a source once.
Applied(source) == ledger \cup {source}

GrantItems(source, items, ok) ==
    \/ /\ ok
       /\ Parses(items)
       /\ ledger' = Applied(source)
    \/ /\ ~ok               \* refused: not parsed, no shard, not applied
       /\ ledger' = ledger
    \/ /\ ~ok               \* applied, the answer lost
       /\ Parses(items)
       /\ ledger' = Applied(source)
=============================================================================
