----------------------------- MODULE MCServices -----------------------------
(***************************************************************************)
(* Pay, Mail, Activity, Login, Match, the shared world of Game and the two *)
(* database tools on small instances.  They are separate processes with    *)
(* separate tables and keys; the only thing two of them write is the       *)
(* ledger, under sources that are never the same.  Steps of different      *)
(* services commute, so each behaviour is one of one service, chosen in    *)
(* the initial state.                                                      *)
(***************************************************************************)
EXTENDS Pay, Mail, Activity, Login, Match, World, Reshard, Migrate, TLC

CONSTANTS p1, p2, p3, A, B, C

MCReplicaOf == (p1 :> 1) @@ (p2 :> 1) @@ (p3 :> 2)
\* Events of progress: two that are needed together, one that takes away what they
\* bring, and one that is more than enough.
MCDelta == <<1, 1, -2, 3>>
\* User names that are cut to the same role name and share a rate limit.
MCShortName == [n \in Names |-> "x"]
MCRateKey == [n \in Names |-> "k"]
\* The second database of the old layout is the last one of the new layout:
\* role 2 moves to a database that the tool scans later, and role 5 changes its
\* index but not its database.
MCOldDSNs == <<"pg0", "pg1">>
MCNewDSNs == <<"pg0", "pg2", "pg1">>

\* Two releases, of which the newer adds a script.  A database is new, or has the
\* first script, from before checksums were kept or with another text.  The
\* central database is also the first role shard.
MCScripts == (p1 :> [v \in {0, 2} |-> "s"]) @@ (p2 :> [v \in {0, 2, 10} |-> "s"])
MCEarlier == {<<>>, 0 :> "", 0 :> "t"}
MCShardDSNs == <<"pg0", "pg1">>
MCShardRoles == ("pg0" :> {1}) @@ ("pg1" :> {2})

VARIABLE service

vars == <<service, ledger, payVars, mailVars, actVars, loginVars, matchVars, worldVars,
          reshardVars, migrateVars>>

dbVars == <<reshardVars, migrateVars>>

Init ==
    /\ service \in {"pay", "mail", "activity", "login", "match", "world", "reshard", "migrate"}
    /\ ledger = {}
    /\ PayInit /\ MailInit /\ ActInit /\ LoginInit
    /\ MatchInit /\ WorldInit /\ ReshardInit /\ MigrateInit
    /\ service = "migrate" \/ \A d \in DOMAIN recorded : recorded[d] = <<>>

PayService ==
    /\ service = "pay"
    /\ PayNext
    /\ UNCHANGED <<service, mailVars, actVars, loginVars, matchVars, worldVars, dbVars>>

MailService ==
    /\ service = "mail"
    /\ MailNext
    /\ UNCHANGED <<service, payVars, actVars, loginVars, matchVars, worldVars, dbVars>>

ActivityService ==
    /\ service = "activity"
    /\ ActNext
    /\ UNCHANGED <<service, payVars, mailVars, loginVars, matchVars, worldVars, dbVars>>

LoginService ==
    /\ service = "login"
    /\ LoginNext
    /\ UNCHANGED <<service, ledger, payVars, mailVars, actVars, matchVars, worldVars, dbVars>>

MatchService ==
    /\ service = "match"
    /\ MatchNext
    /\ UNCHANGED <<service, ledger, payVars, mailVars, actVars, loginVars, worldVars, dbVars>>

WorldService ==
    /\ service = "world"
    /\ WorldNext
    /\ UNCHANGED <<service, ledger, payVars, mailVars, actVars, loginVars, matchVars, dbVars>>

ReshardTool ==
    /\ service = "reshard"
    /\ ReshardNext
    /\ UNCHANGED <<service, ledger, payVars, mailVars, actVars, loginVars, matchVars, worldVars,
                   migrateVars>>

MigrateTool ==
    /\ service = "migrate"
    /\ MigrateNext
    /\ UNCHANGED <<service, ledger, payVars, mailVars, actVars, loginVars, matchVars, worldVars,
                   reshardVars>>

Next ==
    \/ PayService \/ MailService \/ ActivityService \/ LoginService
    \/ MatchService \/ WorldService \/ ReshardTool \/ MigrateTool

Spec == Init /\ [][Next]_vars

\* The values of each set are only compared for equality.  One set of values
\* serves several services, of which one behaviour runs only one.
Symmetry == Permutations(A) \cup Permutations(B) \cup Permutations(C)

-----------------------------------------------------------------------------
\* The variables of the services have their types.
TypeOK ==
    /\ PayTypeOK /\ MailTypeOK /\ ActTypeOK /\ LoginTypeOK
    /\ MatchTypeOK /\ WorldTypeOK /\ ReshardTypeOK /\ MigrateTypeOK

\* What Pay marks delivered and Mail and Activity mark claimed was applied by Game
\* first: a crash, a failed call or another call between the grant and the mark
\* may leave a reward unmarked, never a mark without the reward.  Activity has
\* the one exception that ClaimedIsRewarded names.
MarkedIsGranted == DeliveredIsGranted /\ ClaimedIsGranted /\ ClaimedIsRewarded

\* What Game applied is due: a paid order with a payment of its own, a stored
\* mail whose event was stored once, an activity for which different events add up
\* to what it needs.
GrantedIsDue == GrantedIsPaid /\ GrantedIsMailed /\ GrantedIsReached
=============================================================================
