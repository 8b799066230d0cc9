----------------------------- MODULE RoleActor ------------------------------
(***************************************************************************)
(* One role, served by several Game processes at once: the old and the new *)
(* process of a rolling update, or two processes that both believe they    *)
(* own the shard.  Each process loads the role into an actor with a FIFO   *)
(* mailbox; a mailbox task changes the in-memory snapshot and writes it    *)
(* back with a compare-and-set on (version, owner_epoch).                  *)
(*                                                                         *)
(* Acquire hands every actor a fresh owner_epoch, so an actor is named by  *)
(* the epoch it acquired; its ownerEpoch variable may change later.        *)
(*                                                                         *)
(* A task is split where other processes can get in between: the in-memory *)
(* change (Begin), the database transaction (the Commit actions) and, for  *)
(* a grant whose source is already in the ledger, the separate reload.  A  *)
(* transaction can commit although the caller sees an error (CommitLost).  *)
(***************************************************************************)
EXTENDS RoleData, Sequences

CONSTANTS
    Procs,          \* Game processes
    None,           \* no actor, no source, no request
    MaxEpoch,       \* bound on owner_epoch: how many times the role is acquired
    MaxVersion,     \* bound on the row version: how many saves commit
    MaxQueue,       \* mailbox capacity (128 in the code)
    Offered         \* the kinds of request the callers make

ASSUME BoundsAssumption ==
    /\ MaxEpoch \in Nat /\ MaxEpoch >= 1
    /\ MaxVersion \in Nat /\ MaxVersion >= 1
    /\ MaxQueue \in Nat
    /\ Offered \subseteq {"grant", "mutate", "pass", "unload"}
ASSUME NoneAssumption == None \notin Nat /\ None \notin Procs

Actors == 2 .. MaxEpoch

\* What a mailbox task was posted for; only a grant has a source.  "unload" is the save
\* of Logout and evictLoop, "flush" that of the background saver, "stop" the last one.
Kinds == {"grant", "mutate", "pass", "unload", "flush", "stop"}
GrantOps == [kind : {"grant"}, src : Sources]
PlainOps == [kind : Kinds \ {"grant"}, src : {None}]
Op == GrantOps \cup PlainOps
NoOp == [kind |-> "flush", src |-> None]

VARIABLES
    \* the database: the roles row, economy_ledger and event_outbox
    rowData, rowVersion, rowEpoch, ledger, outbox,
    \* per process: Manager.players and AsyncSaver.pending
    players, pending,
    \* per actor: mailbox and in-memory state
    status, home, queue, pc, cur, mem, before, version, ownerEpoch,
    \* actors some caller is about to remove from players and close
    leaving,
    \* history: the grants whose callers were told that they succeeded
    acked

dbVars    == <<rowData, rowVersion, rowEpoch, ledger, outbox>>
procVars  == <<players, pending>>
boxVars   == <<status, home, queue>>
taskVars  == <<pc, cur, mem, before, version, ownerEpoch>>
vars      == <<dbVars, procVars, boxVars, taskVars, leaving, acked>>

Init ==
    /\ rowData = InitData
    /\ rowVersion = 1
    /\ rowEpoch = 1
    /\ ledger = {}
    /\ outbox = {}
    /\ players = [p \in Procs |-> None]
    /\ pending = [p \in Procs |-> None]
    /\ status = [a \in Actors |-> "unborn"]
    /\ home = [a \in Actors |-> None]
    /\ queue = [a \in Actors |-> <<>>]
    /\ pc = [a \in Actors |-> "idle"]
    /\ cur = [a \in Actors |-> NoOp]
    /\ mem = [a \in Actors |-> InitData]
    /\ before = [a \in Actors |-> InitData]
    /\ version = [a \in Actors |-> 0]
    /\ ownerEpoch = [a \in Actors |-> 0]
    /\ leaving = {}
    /\ acked = {}

-----------------------------------------------------------------------------
(* Loading: Manager.Get under the load lock, RoleRepo.Acquire, player.New. *)

Get(p) ==
    LET a == rowEpoch + 1 IN
    /\ players[p] = None
    /\ a \in Actors
    /\ rowEpoch' = a
    /\ players' = [players EXCEPT ![p] = a]
    /\ status' = [status EXCEPT ![a] = "open"]
    /\ home' = [home EXCEPT ![a] = p]
    /\ mem' = [mem EXCEPT ![a] = rowData]
    /\ before' = [before EXCEPT ![a] = rowData]
    /\ version' = [version EXCEPT ![a] = rowVersion]
    /\ ownerEpoch' = [ownerEpoch EXCEPT ![a] = a]
    /\ UNCHANGED <<rowData, rowVersion, ledger, outbox, pending, queue, pc, cur,
                   leaving, acked>>

\* The epoch is bumped, but the process sees an error (or dies) and keeps no actor.
AcquireLost(p) ==
    /\ players[p] = None
    /\ rowEpoch + 1 \in Actors
    /\ rowEpoch' = rowEpoch + 1
    /\ UNCHANGED <<rowData, rowVersion, ledger, outbox, procVars, boxVars, taskVars,
                   leaving, acked>>

-----------------------------------------------------------------------------
(* Posting to the mailbox: Mailbox.Call holds the read lock, so it either  *)
(* finds the mailbox open or returns ErrClosed; it waits while it is full. *)

Enqueue(a, op) ==
    /\ status[a] = "open"
    /\ Len(queue[a]) < MaxQueue
    /\ queue' = [queue EXCEPT ![a] = Append(@, op)]

\* ApplyGrant, HandleMsg, WithPlayerSaved, WithPlayerOutbox, Logout and evictLoop post to
\* the loaded actor.  All but ApplyGrant first take it off the saver's list.  (FlushNow
\* puts it back also after ErrClosed; flushAll then drops it.)
Request(p, op) ==
    /\ players[p] # None
    /\ op.kind \in Offered
    /\ Enqueue(players[p], op)
    /\ pending' = IF op.kind = "grant" THEN pending ELSE [pending EXCEPT ![p] = None]
    /\ UNCHANGED <<dbVars, players, status, home, taskVars, leaving, acked>>

\* AsyncSaver.flushAll: takes the batch and saves each actor; ErrClosed is dropped.
FlushAll(p) ==
    /\ pending[p] # None
    /\ pending' = [pending EXCEPT ![p] = None]
    /\ \/ Enqueue(pending[p], [kind |-> "flush", src |-> None])
       \/ status[pending[p]] = "closed" /\ UNCHANGED queue
    /\ UNCHANGED <<dbVars, players, status, home, taskVars, leaving, acked>>

\* Manager.StopAndFlush: out of players, a last save, then the mailbox is closed.
\* Nobody can reach the actor through players between the save and the close.
Stop(p) ==
    /\ players[p] # None
    /\ Enqueue(players[p], [kind |-> "stop", src |-> None])
    /\ players' = [players EXCEPT ![p] = None]
    /\ pending' = [pending EXCEPT ![p] = None]
    /\ status' = [status EXCEPT ![players[p]] = "closed"]
    /\ UNCHANGED <<dbVars, home, taskVars, leaving, acked>>

-----------------------------------------------------------------------------
(* The mailbox loop.  A closed mailbox is still drained.                   *)

Effect(op, d) ==
    CASE op.kind = "grant"  -> ApplyBundle(d, op.src)
      [] op.kind = "pass"   -> Pass(d)
      [] op.kind = "mutate" -> Mutate(d)
      [] OTHER              -> d

\* ErrInsufficientGold / ErrInsufficientItem, before the ledger is consulted.
Refused(op, d) == op.kind = "grant" /\ ~Affordable(d, op.src)

\* Take the next task and change the in-memory snapshot.
BeginWhileOpen(a) ==
    /\ status[a] = "open"
    /\ pc[a] = "idle"
    /\ queue[a] # <<>>
    /\ queue' = [queue EXCEPT ![a] = Tail(@)]
    /\ pc' = [pc EXCEPT ![a] = "commit"]
    /\ cur' = [cur EXCEPT ![a] = Head(queue[a])]
    /\ mem' = [mem EXCEPT ![a] = Effect(Head(queue[a]), @)]
    /\ UNCHANGED <<dbVars, procVars, status, home, before, version, ownerEpoch,
                   leaving, acked>>

Begin(a) ==
    /\ pc[a] = "idle"
    /\ queue[a] # <<>>
    /\ queue' = [queue EXCEPT ![a] = Tail(@)]
    /\ LET op == Head(queue[a]) IN
       IF Refused(op, mem[a])
         THEN UNCHANGED <<pc, cur, mem>>
         ELSE /\ pc' = [pc EXCEPT ![a] = "commit"]
              /\ cur' = [cur EXCEPT ![a] = op]
              /\ mem' = [mem EXCEPT ![a] = Effect(op, @)]
    /\ UNCHANGED <<dbVars, procVars, status, home, before, version, ownerEpoch,
                   leaving, acked>>

\* The row the compare-and-set matches.
FreshNoVersion(a) == ownerEpoch[a] = rowEpoch

Fresh(a) == version[a] = rowVersion /\ ownerEpoch[a] = rowEpoch

\* ON CONFLICT (role_id, source) DO NOTHING.
NeverDuplicate(a) == FALSE

AnyGrantDuplicate(a) == cur[a].kind = "grant"

Duplicate(a) == cur[a].kind = "grant" /\ cur[a].src \in ledger

\* Save, SaveIdempotent and SaveWithOutbox: one transaction each.
WriteNoEvent(a) ==
    /\ rowData' = mem[a]
    /\ rowVersion' = rowVersion + 1
    /\ ledger' = IF cur[a].kind = "grant" THEN ledger \cup {cur[a].src} ELSE ledger
    /\ UNCHANGED <<rowEpoch, outbox>>

Write(a) ==
    /\ rowData' = mem[a]
    /\ rowVersion' = rowVersion + 1
    /\ ledger' = IF cur[a].kind = "grant" THEN ledger \cup {cur[a].src} ELSE ledger
    /\ outbox' = IF cur[a].kind = "pass" THEN outbox \cup {mem[a].level} ELSE outbox
    /\ UNCHANGED rowEpoch

\* The transaction can commit.
CanWrite(a) ==
    /\ pc[a] = "commit"
    /\ ~Duplicate(a)
    /\ Fresh(a)
    /\ rowVersion < MaxVersion

\* restoreUnsafe(before) and the end of the task.
RestoreZero(a) ==
    /\ mem' = [mem EXCEPT ![a] = None]
    /\ UNCHANGED <<before, version, ownerEpoch>>

ForgetRestore(a) ==
    /\ before' = [before EXCEPT ![a] = mem[a]]
    /\ UNCHANGED <<mem, version, ownerEpoch>>

Restore(a) ==
    /\ mem' = [mem EXCEPT ![a] = before[a]]
    /\ UNCHANGED <<before, version, ownerEpoch>>

Finish(a) ==
    /\ pc' = [pc EXCEPT ![a] = "idle"]
    /\ cur' = [cur EXCEPT ![a] = NoOp]

\* Variant for mutation: a save that fails is only scheduled again.
OnErrorReschedule(a, stale) ==
    /\ pending' = IF cur[a].kind \in {"unload", "flush"}
                    THEN [pending EXCEPT ![home[a]] = a] ELSE pending
    /\ UNCHANGED <<players, leaving, acked>>

\* What the caller does with an error.  FlushNow and flushAll reschedule the save;
\* every caller but flushAll and StopAndFlush drops a stale actor.
OnError(a, stale) ==
    /\ pending' = IF cur[a].kind \in {"unload", "flush"}
                    THEN [pending EXCEPT ![home[a]] = a] ELSE pending
    /\ leaving' = IF stale /\ cur[a].kind \notin {"flush", "stop"}
                    THEN leaving \cup {a} ELSE leaving
    /\ UNCHANGED <<players, acked>>

\* The reply to a successful task, and what its caller does next: Logout unloads the
\* actor, evictLoop only if it has stayed idle meanwhile.
OnSuccess(a) ==
    /\ acked' = IF cur[a].kind = "grant" THEN acked \cup {cur[a].src} ELSE acked
    /\ \/ leaving' = leaving
       \/ leaving' = leaving \cup {a} /\ cur[a].kind = "unload"
    /\ UNCHANGED procVars

CommitOk(a) ==
    /\ CanWrite(a)
    /\ Write(a)
    /\ version' = [version EXCEPT ![a] = rowVersion + 1]
    /\ before' = [before EXCEPT ![a] = mem[a]]
    /\ Finish(a)
    /\ OnSuccess(a)
    /\ UNCHANGED <<boxVars, mem, ownerEpoch>>

\* The commit took effect, its answer is lost: cancelled context, broken connection.
CommitLost(a) ==
    /\ CanWrite(a)
    /\ Write(a)
    /\ Restore(a)
    /\ Finish(a)
    /\ OnError(a, FALSE)
    /\ UNCHANGED boxVars

\* No row matched: ErrStaleRole, and the ledger insert is rolled back.
CommitStale(a) ==
    /\ pc[a] = "commit"
    /\ ~Duplicate(a)
    /\ ~Fresh(a)
    /\ Restore(a)
    /\ Finish(a)
    /\ OnError(a, TRUE)
    /\ UNCHANGED <<dbVars, boxVars>>

\* Any other database error, nothing committed.
CommitFail(a) ==
    /\ pc[a] = "commit"
    /\ Restore(a)
    /\ Finish(a)
    /\ OnError(a, FALSE)
    /\ UNCHANGED <<dbVars, boxVars>>

\* The source is in the ledger: a successful no-op for the database.
CommitDuplicate(a) ==
    /\ pc[a] = "commit"
    /\ Duplicate(a)
    /\ pc' = [pc EXCEPT ![a] = "reload"]
    /\ UNCHANGED <<dbVars, procVars, boxVars, cur, mem, before, version, ownerEpoch,
                   leaving, acked>>

\* RoleRepo.Load and restoreUnsafe(latest): the version and the owner_epoch of the row
\* as well as the data.
Reload(a) ==
    /\ mem' = [mem EXCEPT ![a] = rowData]
    /\ before' = [before EXCEPT ![a] = rowData]
    /\ version' = [version EXCEPT ![a] = rowVersion]
    /\ ownerEpoch' = [ownerEpoch EXCEPT ![a] = rowEpoch]

ReloadOk(a) ==
    /\ pc[a] = "reload"
    /\ Reload(a)
    /\ Finish(a)
    /\ acked' = acked \cup {cur[a].src}
    /\ UNCHANGED <<dbVars, procVars, boxVars, leaving>>

ReloadFail(a) ==
    /\ pc[a] = "reload"
    /\ Restore(a)
    /\ Finish(a)
    /\ UNCHANGED <<dbVars, procVars, boxVars, leaving, acked>>

-----------------------------------------------------------------------------
(* dropIfStale and the unload of Logout and evictLoop: CompareAndDelete,   *)
(* and Close only if it removed this actor.                                *)

\* Variant for mutation: Delete in place of CompareAndDelete.
UnloadAnyway(a) ==
    /\ a \in leaving
    /\ leaving' = leaving \ {a}
    /\ players' = [players EXCEPT ![home[a]] = None]
    /\ status' = [status EXCEPT ![a] = "closed"]
    /\ UNCHANGED <<dbVars, pending, home, queue, taskVars, acked>>

Unload(a) ==
    /\ a \in leaving
    /\ leaving' = leaving \ {a}
    /\ IF players[home[a]] = a
         THEN /\ players' = [players EXCEPT ![home[a]] = None]
              /\ status' = [status EXCEPT ![a] = "closed"]
         ELSE UNCHANGED <<players, status>>
    /\ UNCHANGED <<dbVars, pending, home, queue, taskVars, acked>>

\* The process dies; another one takes its name at once.
Crash(p) ==
    LET lost == {a \in Actors : home[a] = p} IN
    /\ players' = [players EXCEPT ![p] = None]
    /\ pending' = [pending EXCEPT ![p] = None]
    /\ status' = [a \in Actors |-> IF a \in lost THEN "closed" ELSE status[a]]
    /\ queue' = [a \in Actors |-> IF a \in lost THEN <<>> ELSE queue[a]]
    /\ pc' = [a \in Actors |-> IF a \in lost THEN "idle" ELSE pc[a]]
    /\ cur' = [a \in Actors |-> IF a \in lost THEN NoOp ELSE cur[a]]
    /\ mem' = [a \in Actors |-> IF a \in lost THEN before[a] ELSE mem[a]]
    /\ leaving' = leaving \ lost
    /\ UNCHANGED <<dbVars, home, before, version, ownerEpoch, acked>>

-----------------------------------------------------------------------------
ProcStep(p) ==
    \/ Get(p)
    \/ AcquireLost(p)
    \/ \E op \in Op : Request(p, op)
    \/ FlushAll(p)
    \/ Stop(p)
    \/ Crash(p)

ActorStep(a) ==
    \/ Begin(a)
    \/ CommitOk(a)
    \/ CommitLost(a)
    \/ CommitStale(a)
    \/ CommitFail(a)
    \/ CommitDuplicate(a)
    \/ ReloadOk(a)
    \/ ReloadFail(a)
    \/ Unload(a)

Next ==
    \/ \E p \in Procs : ProcStep(p)
    \/ \E a \in Actors : ActorStep(a)

Spec == Init /\ [][Next]_vars

\* The mailbox goroutine and the goroutine that waits in Call keep running while their
\* process lives, and a database call ends with some answer or an error.
Fairness ==
    \A a \in Actors :
        /\ WF_vars(Begin(a))
        /\ WF_vars(CommitOk(a) \/ CommitLost(a) \/ CommitStale(a) \/ CommitFail(a)
                     \/ CommitDuplicate(a))
        /\ WF_vars(ReloadOk(a) \/ ReloadFail(a))
        /\ WF_vars(Unload(a))

FairSpec == Spec /\ Fairness
-----------------------------------------------------------------------------
(* Properties.                                                             *)

\* Type invariant of the database row, the process tables and the actors.
TypeOK ==
    /\ rowData \in Data
    /\ rowVersion \in Nat
    /\ rowEpoch \in 1 .. MaxEpoch
    /\ ledger \subseteq Sources
    /\ outbox \subseteq Nat
    /\ players \in [Procs -> Actors \cup {None}]
    /\ pending \in [Procs -> Actors \cup {None}]
    /\ status \in [Actors -> {"unborn", "open", "closed"}]
    /\ home \in [Actors -> Procs \cup {None}]
    /\ queue \in [Actors -> Seq(Op)]
    /\ pc \in [Actors -> {"idle", "commit", "reload"}]
    /\ cur \in [Actors -> Op]
    /\ mem \in [Actors -> Data]
    /\ before \in [Actors -> Data]
    /\ version \in [Actors -> Nat]
    /\ ownerEpoch \in [Actors -> Nat]
    /\ leaving \subseteq Actors
    /\ acked \subseteq Sources

\* No actor is ahead of the row, and one whose version is the row's started its task
\* (or is idle) with exactly the row's data: this is why the compare-and-set of
\* RoleRepo.Save never writes over an update the actor has not seen.
NotAhead == \A a \in Actors : version[a] <= rowVersion
CacheAgrees == \A a \in Actors : version[a] = rowVersion => before[a] = rowData

\* Between tasks the in-memory snapshot is the last one saved or loaded; during a task
\* it differs from it by the task's own effect, which the role could pay for.
TaskEffect ==
    \A a \in Actors :
        IF pc[a] = "idle" THEN mem[a] = before[a]
        ELSE /\ mem[a] = Effect(cur[a], before[a])
             /\ ~Refused(cur[a], before[a])

\* An epoch not yet handed out has no actor.
NotLoaded ==
    \A a \in Actors : a > rowEpoch =>
        /\ status[a] = "unborn" /\ home[a] = None /\ queue[a] = <<>>
        /\ pc[a] = "idle" /\ a \notin leaving

\* Only a grant that is in the ledger reloads.
ReloadsGranted == \A a \in Actors : pc[a] = "reload" => Duplicate(a)

\* A mailbox task restores or saves, never leaves a half-done change behind, and the
\* version check only passes on the data the task started from (the inductive invariant).
CacheCoherent == NotAhead /\ CacheAgrees /\ TaskEffect /\ NotLoaded /\ ReloadsGranted

\* economy_ledger(role_id, source): whatever the retries, duplicated deliveries, fenced
\* actors and lost answers, a source is folded into the stored snapshot exactly when its
\* ledger row exists, and once.
ExactlyOnce ==
    \A s \in Sources : rowData.applied[s] = IF s \in ledger THEN 1 ELSE 0

\* Debits affordable one by one never overdraw the role together, however the actors
\* that check them interleave.
NoOverdraft == \A x \in Assets : rowData.bal[x] >= 0

\* SaveWithOutbox: one rank event per level of the stored snapshot.
OutboxMatchesLevel == outbox = 2 .. rowData.level

\* A grant answered with success, by the transaction or by the duplicate path, is in the
\* ledger: no crash, fencing or restore takes back what a caller was told.
AckDurable == acked \subseteq ledger

\* Mailbox.Close: tasks already posted are still executed, each to its end.
MailboxDrains ==
    \A a \in Actors : status[a] = "closed" ~> (queue[a] = <<>> /\ pc[a] = "idle")

\* The process hands out exactly its open actor: dropIfStale, Logout and evictLoop
\* close the actor they remove, and a caller that is late with an older actor
\* neither removes the newer one nor leaves it open where nobody can reach it.
LoadedIsOpen ==
    \A p \in Procs, a \in Actors :
        players[p] = a <=> (status[a] = "open" /\ home[a] = p)

\* A caller of HandleMsg, WithPlayerSaved, WithPlayerOutbox, ApplyGrant, Logout or
\* evictLoop gets ErrStaleRole.
ToldStale(a) == CommitStale(a) /\ cur[a].kind \notin {"flush", "stop"}

\* Retries of a superseded role come to an end: an actor answers ErrStaleRole only
\* finitely often, after which the process has dropped it and the next request
\* loads the role anew.
StaleIsDropped == \A a \in Actors : <>[][~ToldStale(a)]_vars

\* The comment on RoleRepo.Acquire: "A stale process can no longer save after a newer
\* process acquires the role."  An actor whose write the database would accept is the
\* one that acquired the role last.
SupersededIsFenced ==
    \A a \in Actors : (pc[a] = "commit" /\ ~Duplicate(a) /\ Fresh(a)) => a = rowEpoch

\* The processes, caches and failures together behave like one atomic role.
Abs == INSTANCE AtomicRole WITH data <- rowData
RefinesAtomicRole == Abs!AbsSpec
=============================================================================
