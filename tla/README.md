# Verification of the NewGame backend

TLA+ models, TLC runs and TLAPS proofs for the Go services in `src/`. The file
`PROJECT.json` lists the components, runs, mutants, the map from definitions to source
lines, the findings, the hazards and the theorems; this file explains them.

## 1. The system

NewGame is the backend of a multi-zone online game: a TCP/WebSocket gate, a Game service
that owns the players, and small HTTP/gRPC services around it. PostgreSQL (several physical
pools, 1024 logical shards) holds what must not be lost, Redis holds boards, presence,
queues and sessions, NATS JetStream carries events.

| Component | State | Operations | Talks to | What is hard | What makes it correct |
|---|---|---|---|---|---|
| Role actor (`services/game/internal/player`, `pkg/actor`, `pkg/repo/role.go`) | row `roles` (data, version, owner_epoch), per process a table of actors, per actor a FIFO mailbox and a cached snapshot | Get/Acquire, HandleMsg, WithPlayerSaved, WithPlayerOutbox, ApplyGrant, Logout, evictLoop, StopAndFlush, AsyncSaver | PostgreSQL | two processes with the same role, commit whose answer is lost, stale cache, crash | no lost update, one grant per source, no overdraft, acknowledged means durable |
| Auction (`services/game/internal/auction`, `pkg/repo/auction.go`) | `auction_listings` | CreateWithKey, Buy | role actors of two players, perhaps on different shards | a saga of separate transactions, retries, several buyers | no offer without escrow, no sale without charge and payout, one buyer |
| Outbox (`pkg/repo/outbox.go`, `runOutbox`) | `event_outbox` with leases | SaveWithOutbox, ReserveOutbox, MarkOutboxPublished | JetStream | crash between publish and mark, expired lease, failed batch | every committed event is published |
| Durable consumers (`pkg/mq/nats.go`) | JetStream stream and consumer | Publish, SubscribeDurable, publishDeadLetter | Rank, Mail, Activity | redelivery, reordering, last delivery | acknowledged means handled; failed means dead-lettered |
| Rank (`services/rank`) | a zone board and a global board in Redis | writeScore, trimLoop | JetStream | old events after new ones, one board written and not the other | scores are earned and never drop |
| Pay (`services/pay`, `pkg/payment`) | orders, webhook nonces | create, webhook, deliver, retry | Game (grant) | repeated webhook racing a retry | paid is delivered, once |
| Mail (`services/mail`) | mails, event inbox | send, claim, claim-all | Game, JetStream | read, grant and mark are separate | claimed once |
| Activity (`services/activity`) | progress, claims, inbox | progress, claim | Game, JetStream | as Mail | claimed once, after completion |
| Gate, presence, login (`services/gate`, `services/login`, `pkg/presence`, `pkg/session`) | connections, presence record with TTL, tokens | login, takeover, kick, renew, push, cleanup | Game, Redis, other gates | takeover racing renew and cleanup | one live session per role |
| Match, battle (`services/match`, `services/battle`) | queue, tickets, rooms | join, reserve, create, compensate, publish, settle | Game, Redis | failure between taking players and storing the room | nobody is lost or matched twice |
| Guild, guild war, world boss (`services/game/internal/{guild,guildwar,worldboss}`) | Redis keys, `guilds` | join, attack, reset | roles | reset during attacks; membership and role in two stores | damage counted in one season |
| Discovery (`pkg/discovery`) | registry keys with TTL, resolver cache | register, heartbeat, deregister, resolve | Redis | heartbeat in flight during deregistration | a stopped instance goes away |
| Sharding (`pkg/shard`, `tools/reshard`) | placement, source and target rows | copy, verify, delete | PostgreSQL | rows written while they are copied | no row lost |
| Migration tool (`tools/migrate`) | `schema_migrations`, advisory lock, `role_directory` | run, sync | PostgreSQL | releases that overlap, fail and are repeated | every script once and in order |
| Social, GM, load tools, infrastructure | - | thin handlers, wiring, generated code | - | - | - |

The hazards of this code, each at its line, are in `PROJECT.json`; a hazard without a
property says why it has none.

## 2. Modules

    RoleData          snapshot of a role and its pure mutations
      AtomicRole      what role storage promises (abstract specification)
      RoleActor       processes, mailboxes, caches, transactions  -- implements AtomicRole
        MCRoleActor, RoleActorProofs
      Auction         create and buy saga over atomic roles
        MCAuction     (checks that its roles take AtomicRole steps), AuctionProofs
    EventPipeline     outbox, JetStream, Rank
      MCEventPipeline, EventPipelineProofs
    GrantClient       how a reward is sent to Game, and what the sender learns
      Pay, Mail, Activity
    Login   Match   World   Reshard   Migrate
      MCServices      the eight above, one at a time
        GrantProofs (Pay, Mail, Activity), LoginProofs,
        PlayProofs (Match, World), ToolProofs (Reshard, Migrate, types)
    Gate   Discovery
      MCOnline        the two, one at a time, under fairness
        OnlineProofs

The pieces compose by promise: `RoleActor` implements `AtomicRole`; `Auction` uses roles
that obey `AtomicRole` (checked by `RolesAreAtomic`); `EventPipeline` starts from the fact,
proved for `RoleActor` as `OutboxMatchesLevel`, that a level and its event row commit
together; `GrantClient` keeps of Game only that a source is applied at most once, which is
`GrantsExactlyOnce`, proved for `RoleActor`. `MCServices` and `MCOnline` hold several
services with disjoint state; a behaviour belongs to one of them, chosen in the initial
state. Interleaving two of them would add states and no case: their steps commute.

### RoleData and AtomicRole

Gold and bag items are checked and added alike by `applyBundleUnsafe`, so both are assets
with a balance. A bundle is identified by its immutable source key. Skills, quests and the
guild are one counter of mutations, which is enough to see one lost or repeated. The
component `applied` counts how often a source is in the snapshot; it is history, no guard
reads it. The world boss reward (`AddGold(10)`) is left to the World module.

### RoleActor

One role, any number of Game processes. An actor is named by the `owner_epoch` that
`Acquire` gave it. A mailbox task is split where another process can get in between: the
in-memory change (`Begin`), the transaction (`CommitOk`, `CommitLost`, `CommitStale`,
`CommitFail`, `CommitDuplicate`) and, for a grant already in the ledger, the separate
`Load` (`ReloadOk`, `ReloadFail`). `CommitLost` is the commit whose answer is an error: the
row is written, the actor restores the snapshot it had before.

| Code | Model |
|---|---|
| `Manager.Get`, `RoleRepo.Acquire` | `Get`, `AcquireLost` |
| `Mailbox.Call` by HandleMsg, WithPlayerSaved, WithPlayerOutbox, ApplyGrant, Logout, evictLoop | `Request`, `Enqueue` |
| `Mailbox.loop` and the body of the task | `Begin`, `Effect`, `Refused` |
| `Save`, `SaveIdempotent`, `SaveWithOutbox` | `Write` under `Fresh` and `Duplicate` |
| `restoreUnsafe(before)`, `restoreUnsafe(latest)` | `Restore`, `Reload` |
| `AsyncSaver.flushAll`, `FlushNow` | `FlushAll`, `OnError` |
| `dropIfStale`, unload of Logout and evictLoop: the caller has its answer, then CompareAndDelete and Close | `OnError`, `OnSuccess`, then `leaving`, `Unload` |
| `StopAndFlush` | `Stop` |

Simplifications: looking the actor up and posting to its mailbox is one step, because a
mailbox closed in between answers `ErrClosed` and nothing happens. For the same reason
`Unload` removes and closes in one step: what is posted in between could have been posted
before. `Acquire` is one
transaction. Logout and eviction differ only in whether the actor is unloaded after its
save, so both are the kind `"unload"` with that choice open. `Stop` closes the mailbox with
its last save queued: the actor has left the table before the save, so nobody else posts.
`FlushNow` schedules the actor again also after `ErrClosed`, which `flushAll` then drops; the
model leaves this out.
The saver's pending set is filled by failed saves only; `ScheduleSave` has no production
caller. The mode without PostgreSQL (`repo == nil`) is not modelled.

### Auction

`Pending`, `Escrow` and `Activate` are the steps of `CreateWithKey`; `Look`, `Reserve`,
`Charge`, `Release`, `Payout` and `MarkSold` those of `Buy`. Each is one transaction, any
number of calls interleave, and `Abort` may end a call at any point. A retry is a new call,
and a transaction that commits although the caller sees an error is the step followed by
`Abort`. As in the code, the balance is checked before the ledger, also for a grant that
was already made. Refusals look at the stored balance: each role has one up-to-date owner
here, stale caches being the subject of `RoleActor`. `released` is history. The in-memory
mode without a repository is not modelled.

### EventPipeline

`SaveWithOutbox` is the producer, `ReserveOutbox`, `Publish`, `MarkOutboxPublished` and
`AbandonBatch` are `publishOutboxBatch`, the rest is `SubscribeDurable` with the Rank
handler, and `Trim`. Time appears only as what it enables: `LeaseExpires`,
`AckWaitExpires`, `WindowExpires` (the message id leaves JetStream's duplicate window).
JetStream is external and modelled by what the code relies on: a stored message is kept,
delivered at most `MaxDeliver` times, and again after Nak or AckWait. Rows of a batch are
published in any order, since `UPDATE ... RETURNING` promises none. A lease matters only
for a row not yet published, so `leased` holds only those. `Silent` is a worker that dies
or whose answer is lost. Not modelled: several physical databases, the branch for an
invalid envelope (no publisher sends one), the 7 day retention, `POST /api/rank/update`
(no caller).

### GrantClient, Pay, Mail, Activity

All three read a row, post a grant to Game under a source key, and mark the row, in separate
steps. `GrantItems` has the three outcomes a sender must reckon with: applied, not applied,
applied with the answer lost. `Pay` has the webhook (`VerifyWebhook`, whose nonce is spent
whatever becomes of the call, `MarkPaidVerified`) and the retry (`ListUndeliveredPaid`,
`GetOrder`); `LockFree` is the lock per order in one process, so two processes still
compete. `Mail` has claim and claim-all over the mails of one role in id order, `Activity`
the claim of one reward with its second read. An event of `Activity` adds its `delta`, of
either sign, once; a sum outside the column's int32 is an error of the statement, and the
event stays without its inbox row. `late` is history: a claim that granted nothing found the
reward due at its second read. Rewards are only empty, well formed or
malformed; the truncation of counts past int32 in `grant.Parse` is not modelled.

### Login

One action per statement of `Authenticate`, `GetOrCreateRole`, `Ensure`, `gateAddr` and
`session.Save`; an `INSERT` that commits and loses its answer is a failed call. Role ids are
computed as in the code, with a small stride, and user names are cut, so that the rows of
two accounts can conflict. `RereadAccount` returns the outer error, as the code does.

### Gate

The connections of one role. A login stores presence, swaps the table and closes the
previous connection in three steps of the connection's goroutine; the cleanup of a
connection removes its table entry and then its record. Kicks are messages that may be late
or lost. Of a ping only the one that finds another session changes anything. Sessions are
numbered in the order they are stored. The limiter counts per address (`AddrOf`), and other
roles may hold any number of its places, so a connection may be refused at any time. The
logout that `Cleanup` sends to Game after a successful `Remove` is a request for `"unload"`
in `RoleActor`. Not modelled: the forwarding of game frames.

### Match

One queue. `JoinQueue` is the Redis script; from then on the request owns the players it
took out (`Reserve`, `CreateBattleRoom`, `DeleteRoom`, `Requeue`, `Publish`). `putRoom` and
`deleteRoom` are pipelines of which any part may be executed when they fail. `dropped` is
history: who was cost its place by a fault the code does not repair. `Shown` is what
`handleRoom` answers to a waiting player.

### World

Guild join (membership, then role), war attack (season, then score), season reset (one
script), boss attack (one script, then the role's reward), boss reset (a pipeline of two
commands). `dirty` is history: a reset that lost its second command.

### Discovery

An instance is a key with a TTL and a member of an index set; register, renew and
deregister write the two with separate commands. The resolver lists, gets, removes ids
without a key, asks the candidates for their health and caches one. The reads of the keys
are one step, since each id is treated by itself. An instance answers the health check from
its registration on; instances without an HTTP address, which count as healthy unasked, are
not modelled.

### Reshard and Migrate

`Reshard` is `reshard -execute`, row by row, while Game and Login use the old layout; one
database of the instance is in both layouts, at different places. Versions and epochs are
kept, the rest of a row is not: a save changes the version, so the comparison of the
snapshots in `verify` cannot differ while the versions agree. `Migrate` runs releases with different scripts against the
central database and the shards; the names of both are taken after blank ones are dropped
and a blank central one is replaced by the first shard. Both tools may end after any statement and be started again.

## 3. Runs

| Run | Instance | Shows |
|---|---|---|
| `role_actor` | 2 processes, 2 acquisitions, 3 commits, mailbox of 1, a debit of all the role has and one it could pay twice, dungeon passes, stop, crash; about 0.5 million states | `CacheCoherent`, `ExactlyOnce`, `NoOverdraft`, `OutboxMatchesLevel`, `AckDurable`, and that the whole implements `AtomicRole` |
| `role_unload` | 2 processes, 2 acquisitions, 2 commits, one grant, mutations, and every save without a change of its own: logout, eviction, background saver, stop; about 1.8 million states | these saves write nothing but the effect of complete operations; a process hands out exactly its open actor, also when a caller is late with an older one (`LoadedIsOpen`) |
| `role_liveness` | 2 processes, mutations and unloads, one commit, under fairness | closed mailboxes run empty (`MailboxDrains`); an actor answers `ErrStaleRole` only finitely often, so retries get to a fresh one (`StaleIsDropped`) |
| `role_fencing` | 2 processes, 2 commits, grants, passes and unloads | finding 1 |
| `auction` | 3 roles, 2 listings, 2 concurrent calls, one dungeon pass each; about 1.3 million states | offers are escrowed, sales settled, payouts funded, sold is final, a charged buyer owns the listing unless its reservation was released, roles stay atomic |
| `auction_owner` | 3 roles, 1 listing, 3 concurrent calls | finding 2 |
| `events` | 2 roles, 2 events, batches of 2, 1 publisher, 2 workers, boards of 1; about 1.2 million states | boards show only earned levels, a marked row is in the stream, an acknowledged event stays visible on both boards through reordering and trimming |
| `events_liveness` | 1 event, 2 publishers, 2 workers, one expiry of the duplicate window, under fairness | every committed event reaches both boards, the dead letters, or the end of its deliveries |
| `events_loss` | as `events` | finding 3 |
| `services` | Pay: 2 orders, 2 payments, 3 nonces, 3 calls in 2 processes. Mail: 2 mails, 2 claims. Activity: 4 events that add 1, 1, -2 and 3, a column that ends at 3, 2 claims. Login: 2 names with one short name, 2 passwords, 2 zones past the stride, 3 calls. Match: 2 players, 4 joins. World: 2 roles, 2 guilds, 3 requests. Reshard: 2 roles, 2 runs. Migrate: 2 releases, 2 databases. About 0.4 million states | `MarkedIsGranted` and `GrantedIsDue` for rewards, `TokenIsOwned`, `PlayersKept`, `BoardWithinLoss`, `NewestKept`, `MigrationsInOrder` |
| `online` | Gate: 3 connections on 2 gates, one of whose clients need not ping, 3 logins, 2 connections per address. Discovery: 2 instances, 1 fault. About 0.5 million states | `Reachable` at every moment; `EventuallySingle` and `RegistryFollows` under fairness |
| `login_race` | as `services` | finding 4 |

Bounds. Two acquisitions are the least with an old and a new owner, and two commits the
least for one actor to write over, or repeat, what the other wrote; every actor may queue
one task while it runs another. Unloads multiply the states by twenty, so `role_actor`
leaves them out and `role_unload` has them with one source. Proofs (section 5) remove these bounds for the safety
properties of most modules. In `auction`, two listings let a role be seller and buyer at once and spend
between two steps of a call; two calls give every pairwise interleaving, and three are used
in `auction_owner` on one listing. In the event runs two deliveries make the last one
different from the first; `Limit` 2 makes a batch that can fail half way, two events of
different or the same role give overtaking and a full board. Two publishers, two events
and window expiry together do not finish in reasonable time, so competing publishers are
in the liveness run with one event and no symmetry. `CHECK_DEADLOCK FALSE` stands where
the bounded instance ends: all passes done and all calls or messages handled.

In `services` a second order and payment let one payment be sent for two orders; three calls
in two processes give a webhook against a retry inside and outside the lock. The events of an
activity reach the reward together or one alone, go past the column's end, and take it back
before or after it was granted. Two zone ids
that differ by the stride make the role ids of two accounts equal. Four joins of two players
let a player be matched again while an older match of it is still being compensated. Two
runs of the reshard tool let a row be met again after it was moved. Two releases are the
least that overlap; a database may have been set up earlier, without checksums or with
another text. In `online` three sessions give a takeover in the same gate and one from
another, and the client that does not ping can be the older or the newer one on either side;
one fault separates the key from its owner.

Every property of a passing run has a mutant in `PROJECT.json`: a small change of a
definition of the model, such as a dropped guard, that TLC finds to violate the property.
The definitions of the mutants stand before the ones they change and are not used otherwise.

### Fairness

*RoleActor.* The mailbox goroutine and the goroutine waiting in `Call` keep running while
their process lives (weak fairness of `Begin` and `Unload`), and a database call ends with
some answer (weak fairness of the disjunction of its outcomes, not of success). `Crash`,
requests and loading have none.

*EventPipeline.* `runOutbox` comes round every second, leases and AckWait run out,
JetStream delivers what is ready, a worker's handler ends (weak fairness). Publishing a row
and marking it are strongly fair: both are retried for ever, and the assumption is that not
every attempt fails. Worker failures are not limited: every delivery may fail, which is why
the property has the case that deliveries are used up.

*Gate.* The goroutine of a connection goes on (weak fairness of `SwapTable`,
`ClosePrevious`). That a client keeps pinging is an assumption about the client, made of
those in `Pinging` only (weak fairness of `StalePing`). The code does not enforce it: any
frame renews the read deadline (`server.go:295`) and a game frame is served when the
connection once logged in. `EventuallySingle` therefore says which two connections may
remain: on different gates, one of them of a client that does not ping. Kicks, closes and
logins have no fairness, so the property does not depend on a kick that arrives.

*Discovery.* The heartbeat's ticker runs and its commands are answered, TTLs run out, and
somebody keeps asking the resolver (weak fairness of each). Faults are bounded, since an
instance all of whose heartbeats fail does disappear.

## 4. Findings

1. **A superseded actor can save again** (`role_fencing`; `player/actor.go:304`). The
   comment on `Acquire` (`pkg/repo/role.go:83`) says "A stale process can no longer save
   after a newer process acquires the role." On a duplicate grant the old actor reloads the
   row and adopts its `owner_epoch` too, so its next save is accepted and the new owner is
   refused. No update is lost, since the version is compared as well (theorem `Refinement`).
2. **Two buyers can be charged for one listing** (`auction_owner`;
   `auction/service.go:177`). "Reserve grants one buyer exclusive ownership of the settlement
   saga" (`pkg/repo/auction.go:62`). A buyer whose charge has committed, but whose purse no
   longer covers the price, is refused when its call is retried or doubled, because the
   purse is checked before the ledger; the refusal releases the reservation and the next
   buyer is charged. `ChargedOwns` states what remains true.
3. **An event can be dropped without a dead letter** (`events_loss`; `pkg/mq/nats.go:145`).
   The document (`docs/architecture-scale.md:69`) says that messages go to `_DLQ.*` when
   their deliveries are used up. If the last delivery fails and the dead letter cannot be
   published, or the worker dies during it, the event is in neither place.
4. **The loser of a registration race is refused** (`login_race`; `pkg/repo/account.go:48`).
   "Re-read it and verify the supplied password instead of failing randomly" (line 66). The
   re-read assigns an `err` that is local to the block, the outer one is still
   `pgx.ErrNoRows` and is returned, so the call fails although its password is right. The
   next attempt succeeds. `TokenIsOwned` is not affected.

What modelling showed besides, without a run of its own:

- *Activity.* If progress reaches 7 between `getState` and `claim`, the activity is marked
  claimed and nothing was granted; nothing grants it later. This is the exception in
  `MarkedIsGranted`.
- *Role actor.* The background saver schedules a stale actor again instead of dropping it,
  and a request that only reads does not find out that it is stale; such an actor goes on
  serving old data until a request or an eviction saves it.
- *Match.* `Requeue` uses the request's context and its error is ignored; with a client that
  has left, the other player loses its place as well. These are the exceptions in `PlayersKept`.
  The compensation of an older match queues its players whatever their tickets say, so a
  player can be queued again while it has a newer match.
- *Gate.* Of two logins in one gate, the one that stored its session first may swap the table
  last and close the newer connection. This is the exception in `Reachable`. A superseded
  client on another gate that sends game frames and no pings stays logged in when its kick is
  lost, the exception in `EventuallySingle`.
- *Guild war.* A reset before the first attack makes season 1, the season that was shown before.
- *Resharding.* After `-delete-source` has moved a row, a login on the old layout creates a
  blank one that the next run copies over the real one (the exception in `NewestKept`). With a
  database in both layouts, a row met again in its new place is copied onto itself with the
  next epoch, and its deletion then fails with "source changed during copy", which ends every
  such run. Rows are selected by index, not by DSN, and `rows.Err()` is not looked at after
  the scan. The tool's default strategy is the ring, while Game uses the modulus.
- *Pay.* A webhook's nonce is spent even when its handler fails; a repetition with the same
  nonce is refused, and the order is delivered by the retry only if it was marked paid.

## 5. Proofs

The proofs hold for every set of processes, roles, listings, calls, connections, databases
and so on and for every bound. They use only the named assumptions on the constants, which
say three kinds of things: that bounds are numbers, that the values standing for "none"
(`NoRow`, `NoRecord`, `NoAccount`, ...) are not the rows they stand in for, and that some
sets are finite: the roles in `EventPipeline` and `World` and the events of an activity (the
size of the stream and the sums of damage and progress are taken over them) and the scripts of a release in `Migrate` (they are
sorted). `Migrate` also assumes that a checksum, the hash of a script, is not the empty
string that stands for an unknown one. TLC evaluates the assumptions in the runs.

Every proof has the same shape: an inductive invariant that implies the property, one lemma
for the initial state, lemmas for the actions (often one lemma for what a kind of step does
to the shared state, cited by each action of that kind), and a last step that puts them
together. For `MCServices` and `MCOnline` a further lemma says that the steps of the other
services leave the invariant alone.

**RoleActorProofs.** None of the economy properties is inductive, because a save writes the
cached snapshot. The inductive invariant is `TypeOK /\ CacheCoherent`: an actor whose
version is the row's started its task from the row's data (`CacheAgrees`), no actor is ahead
(`NotAhead`), a running task's snapshot is its own effect on that start (`TaskEffect`),
plus two technical parts (theorems `Coherence`, `Types`). Hence a save that passes the
compare-and-set writes the effect of one operation on the current row, so every step is an
`AtomicRole` step or a stutter (`Refinement`). The owner epoch is not needed in this
argument, which is why finding 1 costs no data. The economy follows from the abstract steps:
`GrantsExactlyOnce`, `NeverOverdrawn`, `OutboxInStep`, `AcksAreDurable`. `LoadedActorsAreOpen`
is about the table: with the types and `NotLoaded`, `LoadedIsOpen` is kept by every step
(`LoadedStep`), because an actor is closed exactly by the step that takes it out of the table
and the table is written only if it still has that actor.

**AuctionProofs.** `SagaInv` is the conjunction of `TypeOK`, `OfferedIsEscrowed`,
`SoldIsSettled`, `PaidIsCharged`, `ChargedOwns` and `CallsInOrder`; the last records what
each call in progress may rely on. The lemma `StepProgress` collects how one step may move
ledgers, listings and `released` (only forwards), and each conjunct is kept from that and
the step that could disturb it. Theorems: `SagaInvariant`, `OffersAreEscrowed`,
`SalesAreSettled`, `PayoutsAreCharged`, `SagaInOrder`, `Types`, `ReservationIsExclusive`,
`SalesAreFinal`. `RolesStayAtomic` is the other half of the composition with `RoleActor`:
what a saga does to a role is a step of `AtomicRole` or a stutter.

**EventPipelineProofs.** `PublishedIsStored` depends on what JetStream's duplicate window
suppresses: a publish that is answered as a duplicate stores nothing, so the invariant says
that whatever is in the window is in the stream (`WindowStored`), and so is the row a
publisher is about to mark (`MarkingStored`). `ScoreIsEarned` needs that every message comes
from a row and every row from a committed level (`StreamOfRows`, `RowsEarned`), and
`AckedIsRanked` what a handler has done before it acknowledges (`HandledIsRanked`), for the
boards may be trimmed and overtaken in the meantime. The bound on the stream in `TypeOK` is
not inductive; `WindowCounts` counts a message for each entry of the window and each expiry.
The action property `ScoreNeverDrops` follows from the script's comparison and the types.

**GrantProofs.** A call that marks a row relies on a grant made two steps earlier, and the
grant on a row read before it. `PayInv` says that a call at `grant` or `deliver` has a paid
order and at `deliver` its source in the ledger (`CallsInStep`), that a call at a step that
uses an order or a payment has one (`CallsKnown`), that payments are unique among the orders
(`PaymentsDistinct`) and that only paid orders are in the ledger (`PaidFor`). `MailInv` says
the same of mails. `ActInv` says of claims that one that goes on to mark after a grant has its
source in the ledger, or the history says that a claim came too late (`ActCallsInStep`), and
that one about to grant has events that add up to the reward (`Enough`). These are a subset of
the inbox and not the inbox itself, since events may take progress away meanwhile. The ledger
is shared; sources of different services differ, so each invariant survives the grants of the
others. Theorems: `GrantInvariant`, `MarksAreGranted`, `GrantsAreDue`.

Progress is a sum over the inbox. The library's `SumFunction` is a recursive function on the
subsets of the domain; `SumsExist`, `SumType` and `SumAdds` prove that it exists, is an
integer and changes by what one entry changes by, from the principle `BySubsets` (a least
counterexample on the cardinality). `NothingGained` and `OneMoreGained` are what follows for
events.

**LoginProofs.** `Backed` lists, per step of a call, what the steps behind it have left in
the tables: the account with the password that was given, the account's role in the zone,
the row of that role. Rows are never changed or removed, so what one call relies on no other
can take away, and a token belongs to a call that has ended (`TokensOfCalls`). Theorem
`TokensAreOwned`; it covers ids that collide because a zone is past the stride.

**OnlineProofs.** `Reachable` speaks of the connection with the latest session only.
`SessionsDistinct` makes it unique; `LatestHeld` says that the presence record is its own
until it removes it itself, since the compare-and-delete of every other connection fails, and
`LatestInTable` that it is in its gate's table unless a login that stored its session earlier
swapped later and is about to close it. `SameGate` ties victims and table entries to their
gate. Theorems: `OnlineInvariant`, `OnlineTypes` (with the types of `Discovery`),
`LastLoginIsReachable`. A push that finds its connection is of no use when an older login can
still end that connection: `LastLoginIsSpared` is the action property that no step logs the
latest session out and no kick closes it; an older login of the same gate that swaps last
still may. It needs two more facts (`KickInv`): a kick on its
way is for a session that was followed by another (`KicksAreLate`), and the table entry that
a kick is compared with has the session of its connection (`EntryIsOwn`), which fails only
between a new login on the same connection and its swap.

**PlayProofs.** *Match.* `PlayersKept` is kept because a request owns its two players from
the script to its end (`Owns`): tickets are overwritten or deleted only by a request that has
the player in its hands, and a match is published only by the last step of its request
(`Ready`), so nobody else can take a published match away. `Touches` says what one request may
change, `OneRequest` that such a step keeps every other player's place; each action is shown
to be one. Below this, `PushKeeps` says what LREM and RPUSH make of a queue: `Without` is a
recursive function, and `KeptExists` and `WithoutIsPart` prove that it exists and what it
computes, by a least counterexample (`UpTo`) instead of an induction theorem. Theorem
`PlayersAreKept`.

*World.* The property is about a sum over the board. With the lemmas on sums of
`GrantProofs`, `BoardWithinLoss` is inductive together with the types of the calls
(`WorldInv`). Theorem `BoardIsWithinLoss`.

**ToolProofs.** *Reshard.* `NewestKept` says only that the newest version is somewhere. The
invariant says where: in the database of the old layout while that has the row, otherwise in
the one of the new layout (`KeptAt`), and nowhere else (`AtHome`); and of the row the tool has
scanned, that it is the newest if the old database no longer has the role, that it moves,
and that after the copy the new database has exactly the copy (`InHand`). A delete that finds
the scanned row finds it in the old database, as the copy has another epoch. Theorems
`ReshardInvariant` and `NewestIsKept`, for any two layouts, disjoint or not.

*Migrate.* `MigrateInv` says per run what is behind it (`RunFits`): the databases before the
current one have all its scripts with its texts, the current one is locked by it and has the
scripts before the one in hand, and a script that is being executed is not recorded. The
lock keeps this true while other runs write, and a checksum that is there is never changed,
so it stays true after the lock is given back (`OneMigrator`). Per database (`AppliedOK`)
what was executed is recorded and distinct, and all lower versions of every release are
recorded too; the latter, and with it the order of execution, holds when newer releases only
add versions above the older ones (`OnlyAdded`, a condition of the property and not an
assumption: a release that adds a version in between has it executed late, as in the code).
Below this are facts about the two computed lists: the scripts of a release are sorted and
complete (`FilesSorted`, from `SortExists` and `LargestExists`), and the list of databases is
the central one and all shards, each once (`DatabasesOnce`), both by least counterexamples.
Theorems: `MigrateInvariant`, `MigrationsAreInOrder`, `OneRunPerDatabase`, and the action
property `RecordsAreKept`.

*All services.* `ServiceTypes` is `TypeOK` of `MCServices`, from the six invariants of its
services and tools (`GrantInv`, `LoginInv`, `MatchInv`, `WorldInv`, `ReshardInv`,
`MigrateInv`).

**Only model-checked.** Liveness (`MailboxDrains`, `StaleIsDropped`, `EveryEventSettles`,
`EventuallySingle`, `RegistryFollows`), because the prover does not handle fairness. Every invariant and every action
property of a passing run is proved. The four findings are counterexamples of TLC.

## 6. Not modelled

- The modes without PostgreSQL, Redis or NATS, which are for development.
- Social (single inserts and lists) and GM (forwards requests to handlers that are modelled
  where they change state).
- The consistent hash ring of `pkg/shard`, reshard's dry run, and the time after the cut-over.
- HTTP, gRPC, TLS, framing, configuration, metrics, generated protobuf code and the load
  tools: I/O and wiring.
- Expiry of tokens, room records and of the presence record of a client that pings, each far
  longer than the protocols they appear in.

## 7. State of the project

The model covers the services with a protocol of their own, and all their safety properties
are proved. What is left rests on bounded runs (liveness) or has no property: six hazards
in `PROJECT.json`, each of which says why.

A change to the code is followed here by changing the mapped definition, running its
configuration, and then its proof module: the lemma about the action shows where an
invariant no longer holds.
