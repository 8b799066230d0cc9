-------------------------------- MODULE World -------------------------------
(***************************************************************************)
(* The shared state that Game's HTTP handlers for guilds, the guild war    *)
(* and the world boss change: guild_members in Postgres, the season and    *)
(* the scores of the war and the boss's hp and damage board in Redis, and  *)
(* the fields of the role document (RoleActor) that the handlers save      *)
(* afterwards.  Handlers of all zones run concurrently; each Redis command *)
(* or script is one step.                                                  *)
(***************************************************************************)
EXTENDS Naturals, FiniteSets, Functions

CONSTANTS
    Roles, Guilds,
    WorldCalls,     \* requests
    Damages,        \* requested damages; 0 stands for a missing or negative one
    DefaultDamage,
    MaxHP,
    NoGuild, NoHP

ASSUME WorldAssumption ==
    /\ Damages \subseteq Nat /\ DefaultDamage \in Nat \ {0} /\ MaxHP \in Nat \ {0}
    /\ NoGuild \notin Guilds /\ NoHP \notin Nat /\ IsFiniteSet(Roles)

VARIABLES
    members,    \* guild_members: pairs of guild and role
    roleGuild,  \* the guild in the stored role
    season,     \* seasonKey; 0 when it does not exist
    score,      \* scoreKey
    hp, damage, \* hpKey and damageKey
    gold,       \* rewards for attacks in the stored role
    dirty,      \* a reset ended after its SET and before its DEL
    wcall       \* per request: next step, and the role, guild and damage

warVars == <<season, score>>
bossVars == <<hp, damage, dirty>>
guildVars == <<members, roleGuild>>
worldVars == <<guildVars, warVars, bossVars, gold, wcall>>

WorldInit ==
    /\ members = {}
    /\ roleGuild = [r \in Roles |-> NoGuild]
    /\ season = 0
    /\ score = [g \in Guilds |-> 0]
    /\ hp = NoHP
    /\ damage = [r \in Roles |-> 0]
    /\ gold = [r \in Roles |-> 0]
    /\ dirty = FALSE
    /\ wcall = [c \in WorldCalls |-> [pc |-> "none"]]

WAt(c, pc) == wcall[c].pc = pc
WTo(c, pc) == wcall' = [wcall EXCEPT ![c].pc = pc]
WEnds(c) == wcall' = [wcall EXCEPT ![c] = [pc |-> "done"]]
WStarts(c, call) == WAt(c, "none") /\ wcall' = [wcall EXCEPT ![c] = call]

\* A damage that is not positive counts as the default.
Effective(d) == IF d = 0 THEN DefaultDamage ELSE d

-----------------------------------------------------------------------------
(* Guilds.  A missing guild and a failed insert leave everything as it is. *)

Enrolled(g, r) == members \cup {<<g, r>>}

\* Variant for mutation: the role is saved even though the insert failed.
GuildJoinAlways(c, g, r) ==
    /\ WStarts(c, [pc |-> "setGuild", role |-> r, guild |-> g])
    /\ members' \in {members, Enrolled(g, r)}
    /\ UNCHANGED <<roleGuild, warVars, bossVars, gold>>

\* guild.Join: INSERT ... ON CONFLICT DO NOTHING; its answer may be lost.
GuildJoin(c, g, r) ==
    /\ members' = Enrolled(g, r)
    /\ \/ WStarts(c, [pc |-> "setGuild", role |-> r, guild |-> g])
       \/ WStarts(c, [pc |-> "done"])
    /\ UNCHANGED <<roleGuild, warVars, bossVars, gold>>

\* WithPlayerSaved of SetGuild: saved, or not.
SaveGuild(c) ==
    /\ WAt(c, "setGuild")
    /\ roleGuild' \in {roleGuild, [roleGuild EXCEPT ![wcall[c].role] = wcall[c].guild]}
    /\ WEnds(c)
    /\ UNCHANGED <<members, warVars, bossVars, gold>>

-----------------------------------------------------------------------------
(* The guild war.                                                          *)

\* SETNX of the season, whose error is only recorded, then ZINCRBY.
WarAttack(c, g, d) ==
    /\ WStarts(c, [pc |-> "zincr", guild |-> g, dmg |-> Effective(d)])
    /\ season' \in {season, IF season = 0 THEN 1 ELSE season}
    /\ UNCHANGED <<guildVars, score, bossVars, gold>>

WarScore(c) ==
    /\ WAt(c, "zincr")
    /\ \/ score' = [score EXCEPT ![wcall[c].guild] = @ + wcall[c].dmg]
       \/ UNCHANGED score
    /\ WEnds(c)
    /\ UNCHANGED <<guildVars, season, bossVars, gold>>

\* resetScript: INCR and DEL in one step.
ResetSeason(c) ==
    /\ WStarts(c, [pc |-> "done"])
    /\ season' = season + 1
    /\ score' = [g \in Guilds |-> 0]
    /\ UNCHANGED <<guildVars, bossVars, gold>>

-----------------------------------------------------------------------------
(* The world boss.                                                         *)

\* State reads hpKey and, when it does not exist, creates it with SETNX.
BossGet(c) ==
    /\ WAt(c, "none") \/ WAt(c, "state")
    /\ IF hp = NoHP THEN WTo(c, "setnx") ELSE WEnds(c)
    /\ UNCHANGED <<guildVars, warVars, bossVars, gold>>

BossSetNX(c) ==
    /\ WAt(c, "setnx")
    /\ hp' \in {hp, IF hp = NoHP THEN MaxHP ELSE hp}
    /\ WEnds(c)
    /\ UNCHANGED <<guildVars, warVars, damage, dirty, gold>>

\* attackScript: no more than what is left.
WoundBy(r, d) ==
    LET left == IF hp = NoHP THEN MaxHP ELSE hp
        dmg == IF Effective(d) > left THEN left ELSE Effective(d) IN
    /\ hp' = left - dmg
    /\ damage' = [damage EXCEPT ![r] = @ + dmg]

\* Without an answer the handler stops; with one it reads the
\* state (whose error also stops it, as in SaveGold) and saves the reward.
BossAttack(c, r, d) ==
    /\ WoundBy(r, d)
    /\ \/ WStarts(c, [pc |-> "addGold", role |-> r])
       \/ WStarts(c, [pc |-> "done"])
    /\ UNCHANGED <<guildVars, warVars, dirty, gold>>

\* WithPlayerSaved of AddGold(10): saved, or not.
SaveGold(c) ==
    /\ WAt(c, "addGold")
    /\ gold' \in {gold, [gold EXCEPT ![wcall[c].role] = @ + 1]}
    /\ WEnds(c)
    /\ UNCHANGED <<guildVars, warVars, bossVars>>

\* Variant for mutation: the pipeline clears the board before it fills the hp.
BossResetCleared(c) ==
    \/ /\ WStarts(c, [pc |-> "del"])
       /\ damage' = [r \in Roles |-> 0]
       /\ dirty' = FALSE
       /\ UNCHANGED <<guildVars, warVars, hp, gold>>
    \/ /\ WAt(c, "del")
       /\ hp' = MaxHP
       /\ WTo(c, "state")
       /\ UNCHANGED <<guildVars, warVars, damage, dirty, gold>>

\* Reset: a pipeline, not a transaction, of SET and DEL.  Commands of others
\* come between the two, and a broken connection loses the second.  The
\* handler then reads the state.
BossReset(c) ==
    \/ /\ WStarts(c, [pc |-> "del"])
       /\ hp' = MaxHP
       /\ UNCHANGED <<guildVars, warVars, damage, dirty, gold>>
    \/ /\ WAt(c, "del")
       /\ damage' = [r \in Roles |-> 0]
       /\ dirty' = FALSE
       /\ WTo(c, "state")
       /\ UNCHANGED <<guildVars, warVars, hp, gold>>
    \/ /\ WAt(c, "del")
       /\ dirty' = TRUE
       /\ WEnds(c)
       /\ UNCHANGED <<guildVars, warVars, hp, damage, gold>>

WorldNext ==
    \E c \in WorldCalls :
        \/ \E g \in Guilds, r \in Roles : GuildJoin(c, g, r)
        \/ \E g \in Guilds, d \in Damages : WarAttack(c, g, d)
        \/ \E r \in Roles, d \in Damages : BossAttack(c, r, d)
        \/ SaveGuild(c) \/ WarScore(c) \/ ResetSeason(c)
        \/ BossGet(c) \/ BossSetNX(c) \/ SaveGold(c) \/ BossReset(c)

-----------------------------------------------------------------------------
WorldTypeOK ==
    /\ members \subseteq Guilds \X Roles
    /\ roleGuild \in [Roles -> Guilds \cup {NoGuild}]
    /\ \A r \in Roles : roleGuild[r] # NoGuild => <<roleGuild[r], r>> \in members
    /\ season \in Nat /\ score \in [Guilds -> Nat]
    /\ hp \in 0..MaxHP \cup {NoHP}
    /\ dirty \in BOOLEAN
    /\ damage \in [Roles -> Nat] /\ gold \in [Roles -> Nat]

\* The damage board never shows more than the boss lost since it was filled:
\* no overkill and no damage of the round before, whatever attacks come
\* between the two commands of a reset.  The board of a reset whose DEL is
\* still to come, or was lost with the connection, is the known exception.
BoardWithinLoss ==
    /\ ~dirty
    /\ \A c \in WorldCalls : ~WAt(c, "del")
    => SumFunction(damage) + (IF hp = NoHP THEN MaxHP ELSE hp) <= MaxHP
=============================================================================
