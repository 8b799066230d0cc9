------------------------------- MODULE Migrate ------------------------------
(***************************************************************************)
(* tools/migrate: releases that are rolled out one after the other, or at  *)
(* the same time, each run the tool with the scripts of their own          *)
(* directory against the central database and the role shards.  A run      *)
(* takes the databases in order, each under an advisory lock; once all     *)
(* have its scripts it copies the shards' roles into the central directory *)
(* that Login reads.  A run may fail or be killed at any point, and is     *)
(* repeated.                                                               *)
(***************************************************************************)
EXTENDS Naturals, Sequences, SequencesExt, FiniteSets

CONSTANTS
    Migrators,
    Scripts,        \* per migrator: script versions (0 is init.sql) and checksums
    Earlier,        \* what schema_migrations may hold at the start
    \* the DSNs that are not blank; without a central one it is the first shard,
    \* and without shards the central one is the only shard
    CentralDSN, ShardDSNs,
    ShardRoles,     \* per role database: ids in roles
    Nobody

\* A checksum is the hash of a text and never empty.
ASSUME MigrateAssumption ==
    /\ \A m \in Migrators : /\ DOMAIN Scripts[m] \subseteq Nat /\ IsFiniteSet(DOMAIN Scripts[m])
                            /\ \A v \in DOMAIN Scripts[m] : Scripts[m][v] # ""
    /\ \A old \in Earlier : DOMAIN old \subseteq Nat
    /\ CentralDSN \in STRING /\ ShardDSNs \in Seq(STRING) \ {<<>>}
    /\ Nobody \notin Migrators

VARIABLES
    recorded,   \* per database: schema_migrations, version -> checksum ("" if unknown)
    applied,    \* per database: the scripts that were executed, in order
    advisory,   \* per database: who has the advisory lock
    listed,     \* role ids in the central role_directory
    mig         \* per migrator: step, database or shard, script

migrateVars == <<recorded, applied, advisory, listed, mig>>

\* uniqueDSNs: the central database first, each one once.
DSNs ==
    LET Unique[n \in 0..Len(ShardDSNs)] ==
            IF n = 0 THEN <<CentralDSN>>
            ELSE IF ShardDSNs[n] \in ToSet(Unique[n - 1]) THEN Unique[n - 1]
            ELSE Append(Unique[n - 1], ShardDSNs[n])
    IN  Unique[Len(ShardDSNs)]
\* migrationFiles: the versions in numerical order.
Files(m) ==
    CHOOSE s \in SetToSeqs(DOMAIN Scripts[m]) : \A i, j \in DOMAIN s : i < j => s[i] < s[j]

MigOff == [pc |-> "off", at |-> 0, file |-> 0]

MigrateInit ==
    /\ recorded \in [ToSet(DSNs) -> Earlier]
    /\ applied = [d \in ToSet(DSNs) |-> <<>>]
    /\ advisory = [d \in ToSet(DSNs) |-> Nobody]
    /\ listed = {}
    /\ mig = [m \in Migrators |-> MigOff]

Step(m, pc, at, file) == mig' = [mig EXCEPT ![m] = [pc |-> pc, at |-> at, file |-> file]]
MigAt(m, pc) == mig[m].pc = pc
Database(m) == DSNs[mig[m].at]
Script(m) == Files(m)[mig[m].file]
Checksum(m) == Scripts[m][Script(m)]
Unlock(m) == advisory' = [d \in DOMAIN advisory |-> IF advisory[d] = m THEN Nobody ELSE advisory[d]]

-----------------------------------------------------------------------------
RunMigrator(m) ==
    /\ MigAt(m, "off")
    /\ Step(m, "lock", 1, 1)
    /\ UNCHANGED <<recorded, applied, advisory, listed>>

Lock(m) ==
    /\ MigAt(m, "lock")
    /\ advisory[Database(m)] = Nobody
    /\ advisory' = [advisory EXCEPT ![Database(m)] = m]
    /\ Step(m, "check", mig[m].at, 1)
    /\ UNCHANGED <<recorded, applied, listed>>

\* A script that is recorded is not executed; one whose text has changed since
\* ends the run, and one without a checksum gets this one.
CheckScript(m) ==
    LET d == Database(m)  v == Script(m) IN
    /\ MigAt(m, "check") /\ mig[m].file <= Len(Files(m))
    /\ \/ /\ v \notin DOMAIN recorded[d]
          /\ Step(m, "apply", mig[m].at, mig[m].file)
          /\ UNCHANGED <<recorded, advisory>>
       \/ /\ v \in DOMAIN recorded[d] /\ recorded[d][v] \in {"", Checksum(m)}
          /\ recorded' = [recorded EXCEPT ![d][v] = Checksum(m)]
          /\ Step(m, "check", mig[m].at, mig[m].file + 1)
          /\ UNCHANGED advisory
       \/ /\ v \in DOMAIN recorded[d] /\ recorded[d][v] \notin {"", Checksum(m)}
          /\ mig' = [mig EXCEPT ![m] = MigOff]
          /\ Unlock(m)
          /\ UNCHANGED recorded
    /\ UNCHANGED <<applied, listed>>

\* Variant for mutation: the record is written after the script's transaction.
ApplyThenRecord(m) ==
    LET d == Database(m)  v == Script(m) IN
    /\ MigAt(m, "apply")
    /\ applied' = [applied EXCEPT ![d] = Append(@, v)]
    /\ recorded' \in {recorded, [recorded EXCEPT ![d] =
            [w \in DOMAIN @ \cup {v} |-> IF w = v THEN Checksum(m) ELSE @[w]]]}
    /\ Step(m, "check", mig[m].at, mig[m].file + 1)
    /\ UNCHANGED <<advisory, listed>>

\* One transaction for the script and its record.
ApplyScript(m) ==
    LET d == Database(m)  v == Script(m) IN
    /\ MigAt(m, "apply")
    /\ applied' = [applied EXCEPT ![d] = Append(@, v)]
    /\ recorded' = [recorded EXCEPT ![d] =
            [w \in DOMAIN @ \cup {v} |-> IF w = v THEN Checksum(m) ELSE @[w]]]
    /\ Step(m, "check", mig[m].at, mig[m].file + 1)
    /\ UNCHANGED <<advisory, listed>>

\* The end of run for one database: the next one, or the directory.
NextDatabase(m) ==
    /\ MigAt(m, "check") /\ mig[m].file > Len(Files(m))
    /\ Unlock(m)
    /\ IF mig[m].at < Len(DSNs) THEN Step(m, "lock", mig[m].at + 1, 1)
       ELSE Step(m, "sync", 1, 0)
    /\ UNCHANGED <<recorded, applied, listed>>

\* syncRoleShard upserts the roles by id, batch by batch.
Upserted(ids) == listed \cup ids

SyncShard(m) ==
    /\ MigAt(m, "sync")
    /\ listed' = Upserted(ShardRoles[ShardDSNs[mig[m].at]])
    /\ IF mig[m].at < Len(ShardDSNs) THEN Step(m, "sync", mig[m].at + 1, 0)
       ELSE Step(m, "done", 0, 0)
    /\ UNCHANGED <<recorded, applied, advisory>>

\* A statement fails or the process is killed: the session, its lock and its
\* open transaction end; batches that were written stay.
MigratorEnds(m) ==
    /\ mig[m].pc \notin {"off", "done"}
    /\ \/ UNCHANGED listed
       \/ /\ MigAt(m, "sync")
          /\ \E S \in SUBSET ShardRoles[ShardDSNs[mig[m].at]] : listed' = Upserted(S)
    /\ mig' = [mig EXCEPT ![m] = MigOff]
    /\ Unlock(m)
    /\ UNCHANGED <<recorded, applied>>

MigrateNext ==
    \E m \in Migrators :
        \/ RunMigrator(m) \/ Lock(m) \/ CheckScript(m) \/ ApplyScript(m)
        \/ NextDatabase(m) \/ SyncShard(m) \/ MigratorEnds(m)

-----------------------------------------------------------------------------
MigrateTypeOK ==
    /\ \A d \in ToSet(DSNs) :
          /\ DOMAIN recorded[d] \subseteq Nat /\ applied[d] \in Seq(Nat)
          /\ advisory[d] \in Migrators \cup {Nobody}
    /\ mig \in [Migrators -> [pc : {"off", "lock", "check", "apply", "sync", "done"},
                              at : Nat, file : Nat]]

\* A newer release only adds versions above those of the older: up to its last
\* version, no release lacks one that another has.
OnlyAdded ==
    \A m, n \in Migrators : \A v \in DOMAIN Scripts[m], w \in DOMAIN Scripts[n] :
        v < w => v \in DOMAIN Scripts[n]

\* Releases that overlap, fail and are repeated execute every script at most
\* once in each database, in the order of the versions when newer releases only
\* add versions above the older ones, and keep a record of each.  A
\* release copies the directory only when every database has all
\* of its scripts with the text it has, and a copy that is done misses no role.
MigrationsInOrder ==
    /\ \A d \in ToSet(DSNs) :
          /\ \A i, j \in DOMAIN applied[d] : i < j =>
                /\ applied[d][i] # applied[d][j]
                /\ OnlyAdded => applied[d][i] < applied[d][j]
          /\ ToSet(applied[d]) \subseteq DOMAIN recorded[d]
    /\ \A m \in Migrators :
          mig[m].pc \in {"sync", "done"} =>
              \A d \in ToSet(DSNs), v \in DOMAIN Scripts[m] :
                  v \in DOMAIN recorded[d] /\ recorded[d][v] = Scripts[m][v]
    /\ \A m \in Migrators : MigAt(m, "done") =>
          \A d \in ToSet(ShardDSNs) : ShardRoles[d] \subseteq listed
=============================================================================
