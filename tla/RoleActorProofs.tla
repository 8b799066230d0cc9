-------------------------- MODULE RoleActorProofs ---------------------------
(***************************************************************************)
(* RoleActor implements AtomicRole for every set of processes, sources and *)
(* assets and every bound, and therefore grants exactly once, never        *)
(* overdraws and keeps the outbox in step with the snapshot.  Its process  *)
(* tables hold exactly the open actors.                                    *)
(***************************************************************************)
EXTENDS RoleActor, TLAPS

USE BundleAssumption, RewardAssumption, InitBalAssumption

-----------------------------------------------------------------------------
(* The snapshot operators.                                                 *)

\* A role that has just been created is a well-formed snapshot.
LEMMA InitDataType == InitData \in Data
  BY DEF InitData, Data

\* applyBundleUnsafe keeps the snapshot well formed.
LEMMA ApplyBundleType ==
  ASSUME NEW d \in Data, NEW s \in Sources
  PROVE  ApplyBundle(d, s) \in Data
  <1>1. AddBundle(d.bal, s) \in [Assets -> Int]
    BY DEF AddBundle, Data
  <1>2. [d.applied EXCEPT ![s] = @ + 1] \in [Sources -> Nat]
    BY DEF Data
  <1> QED BY <1>1, <1>2 DEF ApplyBundle, Data

\* dungeon.Pass keeps the snapshot well formed.
LEMMA PassType ==
  ASSUME NEW d \in Data
  PROVE  Pass(d) \in Data
  <1>1. AddReward(d.bal) \in [Assets -> Int]
    BY DEF AddReward, Data
  <1>2. d.level + 1 \in Nat
    BY DEF Data
  <1> QED BY <1>1, <1>2 DEF Pass, Data

\* A mutation without source keeps the snapshot well formed.
LEMMA MutateType ==
  ASSUME NEW d \in Data
  PROVE  Mutate(d) \in Data
  BY DEF Mutate, Data

\* So does every mailbox task.
LEMMA EffectType ==
  ASSUME NEW d \in Data, NEW op \in Op
  PROVE  Effect(op, d) \in Data
  <1>1. CASE op.kind = "grant"
    <2>1. op.src \in Sources
      BY <1>1 DEF Op, GrantOps, PlainOps, Kinds
    <2> QED BY <1>1, <2>1, ApplyBundleType DEF Effect
  <1>2. CASE op.kind = "pass"
    BY <1>2, PassType DEF Effect
  <1>3. CASE op.kind = "mutate"
    BY <1>3, MutateType DEF Effect
  <1>4. CASE op.kind \notin {"grant", "pass", "mutate"}
    BY <1>4 DEF Effect
  <1> QED BY <1>1, <1>2, <1>3, <1>4

\* A grant carries a source key.
LEMMA GrantSource ==
  ASSUME NEW op \in Op, op.kind = "grant"
  PROVE  op.src \in Sources
  BY DEF Op, GrantOps, PlainOps, Kinds

\* The resting value of cur is a task.
LEMMA NoOpType == NoOp \in Op
  BY DEF NoOp, Op, PlainOps, Kinds
-----------------------------------------------------------------------------
(* Types.                                                                  *)

\* The initial state is well typed.
LEMMA TypeInit == Init => TypeOK
  BY InitDataType, NoOpType, BoundsAssumption DEF Init, TypeOK, Actors

\* Mailbox.Call only queues tasks.
LEMMA EnqueueType ==
  ASSUME TypeOK, NEW a \in Actors, NEW op \in Op, Enqueue(a, op)
  PROVE  queue' \in [Actors -> Seq(Op)]
  BY DEF TypeOK, Enqueue

\* Loading, requests, flushes, stops and crashes preserve the types.
LEMMA TypeProc ==
  ASSUME TypeOK, NEW p \in Procs, ProcStep(p)
  PROVE  TypeOK'
  <1> USE DEF TypeOK
  <1>1. CASE Get(p)
    BY SMTT(30), <1>1, BoundsAssumption DEF Get, Actors
  <1>2. CASE AcquireLost(p)
    BY <1>2, BoundsAssumption
       DEF AcquireLost, Actors, procVars, boxVars, taskVars
  <1>3. ASSUME NEW op \in Op, Request(p, op)
        PROVE  TypeOK'
    BY <1>3 DEF Request, Enqueue, dbVars, taskVars
  <1>4. CASE FlushAll(p)
    <2>1. pending[p] \in Actors /\ [kind |-> "flush", src |-> None] \in Op
      BY <1>4 DEF FlushAll, Op, PlainOps, Kinds
    <2>2. queue' \in [Actors -> Seq(Op)]
      <3>1. CASE Enqueue(pending[p], [kind |-> "flush", src |-> None])
        BY <3>1, <2>1, EnqueueType
      <3>2. CASE UNCHANGED queue
        BY <3>2
      <3> QED BY <3>1, <3>2, <1>4 DEF FlushAll
    <2> QED BY <1>4, <2>2 DEF FlushAll, dbVars, taskVars
  <1>5. CASE Stop(p)
    BY <1>5 DEF Stop, Enqueue, dbVars, taskVars, Op, PlainOps, Kinds
  <1>6. CASE Crash(p)
    BY <1>6, NoOpType DEF Crash, dbVars
  <1> QED BY <1>1, <1>2, <1>3, <1>4, <1>5, <1>6 DEF ProcStep

\* The steps of a mailbox task preserve the types.
LEMMA TypeActor ==
  ASSUME TypeOK, ReloadsGranted, NEW a \in Actors, ActorStep(a)
  PROVE  TypeOK'
  <1> USE DEF TypeOK
  <1>0. /\ mem[a].level \in Nat
        /\ cur[a].kind = "grant" => cur[a].src \in Sources
    BY GrantSource DEF Data
  <1>1. CASE Begin(a)
    <2>1. Head(queue[a]) \in Op /\ Tail(queue[a]) \in Seq(Op)
      BY <1>1 DEF Begin
    <2>2. Effect(Head(queue[a]), mem[a]) \in Data
      BY <2>1, EffectType
    <2> QED BY ZenonT(30), <1>1, <2>1, <2>2 DEF Begin, dbVars, procVars
  <1>2. CASE CommitOk(a)
    <2>1. rowData' \in Data /\ rowVersion' \in Nat /\ rowEpoch' = rowEpoch
      BY <1>2 DEF CommitOk, Write
    <2>2. ledger' \subseteq Sources /\ outbox' \subseteq Nat
      BY <1>2, <1>0 DEF CommitOk, Write
    <2>3. acked' \subseteq Sources /\ leaving' \subseteq Actors
      BY <1>2, <1>0 DEF CommitOk, OnSuccess
    <2> QED BY <1>2, <2>1, <2>2, <2>3, NoOpType
            DEF CommitOk, Finish, OnSuccess, procVars, boxVars
  <1>3. CASE CommitLost(a)
    <2>1. rowData' \in Data /\ rowVersion' \in Nat /\ rowEpoch' = rowEpoch
      BY <1>3 DEF CommitLost, Write
    <2>2. ledger' \subseteq Sources /\ outbox' \subseteq Nat
      BY <1>3, <1>0 DEF CommitLost, Write
    <2> QED BY <1>3, <2>1, <2>2, NoOpType
            DEF CommitLost, Restore, Finish, OnError, boxVars
  <1>4. CASE CommitStale(a)
    BY <1>4, NoOpType DEF CommitStale, Restore, Finish, OnError, dbVars, boxVars
  <1>5. CASE CommitFail(a)
    BY <1>5, NoOpType DEF CommitFail, Restore, Finish, OnError, dbVars, boxVars
  <1>6. CASE CommitDuplicate(a)
    BY <1>6 DEF CommitDuplicate, dbVars, procVars, boxVars
  <1>7. CASE ReloadOk(a)
    BY <1>7, <1>0, NoOpType
       DEF ReloadOk, Reload, ReloadsGranted, Duplicate, Finish, dbVars, procVars, boxVars
  <1>8. CASE ReloadFail(a)
    BY <1>8, NoOpType DEF ReloadFail, Restore, Finish, dbVars, procVars, boxVars
  <1>9. CASE Unload(a)
    BY <1>9 DEF Unload, dbVars, taskVars
  <1> QED BY <1>1, <1>2, <1>3, <1>4, <1>5, <1>6, <1>7, <1>8, <1>9 DEF ActorStep

-----------------------------------------------------------------------------
(* Coherence of the in-memory snapshots with the row.                      *)

\* Before the first load there is no actor that could disagree with the row.
LEMMA CoherentInit == Init => CacheCoherent
  BY BoundsAssumption
     DEF Init, CacheCoherent, NotAhead, CacheAgrees, TaskEffect, NotLoaded,
         ReloadsGranted, Actors

\* Acquire loads the row as it is, and nothing else a process does touches a snapshot.
LEMMA CoherentProc ==
  ASSUME TypeOK, CacheCoherent, NEW p \in Procs, ProcStep(p)
  PROVE  CacheCoherent'
  <1> USE DEF TypeOK, CacheCoherent
  <1>1. CASE Get(p)
    <2>1. NotAhead' /\ CacheAgrees'
      BY <1>1 DEF Get, NotAhead, CacheAgrees
    <2>2. TaskEffect'
      BY <1>1 DEF Get, TaskEffect, NotLoaded, Actors
    <2>3. NotLoaded'
      BY <1>1 DEF Get, NotLoaded, Actors
    <2>4. ReloadsGranted'
      BY <1>1 DEF Get, ReloadsGranted, Duplicate
    <2> QED BY <2>1, <2>2, <2>3, <2>4
  <1>2. CASE AcquireLost(p)
    BY <1>2 DEF AcquireLost, procVars, boxVars, taskVars, NotAhead, CacheAgrees,
                TaskEffect, NotLoaded, ReloadsGranted, Duplicate, Actors
  <1>3. ASSUME NEW op \in Op, Request(p, op)
        PROVE  CacheCoherent'
    BY <1>3 DEF Request, Enqueue, dbVars, taskVars, NotAhead, CacheAgrees, TaskEffect,
                NotLoaded, ReloadsGranted, Duplicate
  <1>4. CASE FlushAll(p)
    BY <1>4 DEF FlushAll, Enqueue, dbVars, taskVars, NotAhead, CacheAgrees, TaskEffect,
                NotLoaded, ReloadsGranted, Duplicate
  <1>5. CASE Stop(p)
    BY <1>5 DEF Stop, Enqueue, dbVars, taskVars, NotAhead, CacheAgrees, TaskEffect,
                NotLoaded, ReloadsGranted, Duplicate
  <1>6. CASE Crash(p)
    BY <1>6, NoneAssumption
       DEF Crash, dbVars, NotAhead, CacheAgrees, TaskEffect, NotLoaded,
           ReloadsGranted, Duplicate
  <1> QED BY <1>1, <1>2, <1>3, <1>4, <1>5, <1>6 DEF ProcStep

\* A task saves, restores or reloads; a save makes every other actor stale.
LEMMA CoherentActor ==
  ASSUME TypeOK, CacheCoherent, NEW a \in Actors, ActorStep(a)
  PROVE  CacheCoherent'
  <1> USE DEF TypeOK, CacheCoherent
  <1>1. CASE Begin(a)
    <2>1. NotAhead' /\ CacheAgrees' /\ NotLoaded'
      BY <1>1 DEF Begin, dbVars, procVars, NotAhead, CacheAgrees, NotLoaded
    <2>2. TaskEffect'
      BY <1>1 DEF Begin, TaskEffect
    <2>3. ReloadsGranted'
      BY <1>1 DEF Begin, dbVars, ReloadsGranted, Duplicate
    <2> QED BY <2>1, <2>2, <2>3
  <1>2. CASE CommitOk(a)
    <2>1. NotAhead' /\ CacheAgrees'
      BY <1>2 DEF CommitOk, Write, NotAhead, CacheAgrees
    <2>2. TaskEffect'
      BY <1>2 DEF CommitOk, Finish, TaskEffect
    <2>3. NotLoaded'
      BY <1>2 DEF CommitOk, CanWrite, Write, Finish, OnSuccess, boxVars, NotLoaded
    <2>4. ReloadsGranted'
      BY <1>2 DEF CommitOk, Write, Finish, ReloadsGranted, Duplicate
    <2> QED BY <2>1, <2>2, <2>3, <2>4
  <1>3. CASE CommitLost(a)
    <2>1. NotAhead' /\ CacheAgrees'
      BY <1>3 DEF CommitLost, Write, Restore, NotAhead, CacheAgrees
    <2>2. TaskEffect'
      BY <1>3 DEF CommitLost, Restore, Finish, TaskEffect
    <2>3. NotLoaded'
      BY <1>3 DEF CommitLost, CanWrite, Write, Finish, OnError, boxVars, NotLoaded
    <2>4. ReloadsGranted'
      BY <1>3 DEF CommitLost, Write, Finish, ReloadsGranted, Duplicate
    <2> QED BY <2>1, <2>2, <2>3, <2>4
  <1>4. CASE CommitStale(a)
    BY <1>4 DEF CommitStale, Restore, Finish, OnError, dbVars, boxVars, NotAhead,
                CacheAgrees, TaskEffect, NotLoaded, ReloadsGranted, Duplicate
  <1>5. CASE CommitFail(a)
    BY <1>5 DEF CommitFail, Restore, Finish, OnError, dbVars, boxVars, NotAhead,
                CacheAgrees, TaskEffect, NotLoaded, ReloadsGranted, Duplicate
  <1>6. CASE CommitDuplicate(a)
    BY <1>6 DEF CommitDuplicate, dbVars, procVars, boxVars, NotAhead,
                CacheAgrees, TaskEffect, NotLoaded, ReloadsGranted, Duplicate
  <1>7. CASE ReloadOk(a)
    BY <1>7 DEF ReloadOk, Reload, Finish, dbVars, procVars, boxVars, NotAhead,
                CacheAgrees, TaskEffect, NotLoaded, ReloadsGranted, Duplicate
  <1>8. CASE ReloadFail(a)
    BY <1>8 DEF ReloadFail, Restore, Finish, dbVars, procVars, boxVars, NotAhead,
                CacheAgrees, TaskEffect, NotLoaded, ReloadsGranted, Duplicate
  <1>9. CASE Unload(a)
    BY <1>9 DEF Unload, dbVars, taskVars, NotAhead, CacheAgrees, TaskEffect,
                NotLoaded, ReloadsGranted, Duplicate
  <1> QED BY <1>1, <1>2, <1>3, <1>4, <1>5, <1>6, <1>7, <1>8, <1>9 DEF ActorStep

\* The type invariant and the coherence of the in-memory snapshots with the row hold of
\* every behaviour: version and before never let a save write over an unseen update.
THEOREM Coherence == Spec => [](TypeOK /\ CacheCoherent)
  <1>1. Init => TypeOK /\ CacheCoherent
    BY TypeInit, CoherentInit
  <1>2. ASSUME TypeOK, CacheCoherent, [Next]_vars
        PROVE  TypeOK' /\ CacheCoherent'
    <2>1. CASE UNCHANGED vars
      BY <1>2, <2>1 DEF TypeOK, CacheCoherent, NotAhead, CacheAgrees, TaskEffect,
         NotLoaded, ReloadsGranted, Duplicate, vars, dbVars, procVars, boxVars, taskVars
    <2>2. CASE Next
      BY <1>2, <2>2, TypeProc, TypeActor, CoherentProc, CoherentActor
         DEF Next, CacheCoherent
    <2> QED BY <1>2, <2>1, <2>2
  <1> QED BY <1>1, <1>2, PTL DEF Spec

\* The row and its ledger, the actors' queues and their in-memory snapshots,
\* versions and epochs keep their types, whatever crashes, reloads and saves
\* interleave.
THEOREM Types == Spec => []TypeOK
  <1>1. TypeOK /\ CacheCoherent => TypeOK
    OBVIOUS
  <1> QED BY <1>1, Coherence, PTL
-----------------------------------------------------------------------------
(* RoleActor implements AtomicRole.                                        *)

\* A transaction that commits is one operation on the row's own data.
LEMMA WriteRefines ==
  ASSUME TypeOK, CacheCoherent, NEW a \in Actors, CanWrite(a), Write(a)
  PROVE  [Abs!AbsNext]_(Abs!absVars)
  <1>1. /\ before[a] = rowData
        /\ mem[a] = Effect(cur[a], rowData)
        /\ ~Refused(cur[a], rowData)
    BY DEF CanWrite, Fresh, CacheCoherent, CacheAgrees, TaskEffect, TypeOK
  <1>2. CASE cur[a].kind = "grant"
    <2>1. cur[a].src \in Sources
      BY <1>2, GrantSource DEF TypeOK
    <2>2. Abs!AbsGrant(cur[a].src)
      BY <1>1, <1>2 DEF CanWrite, Duplicate, Write, Effect, Refused, Abs!AbsGrant,
         Abs!Affordable, Abs!ApplyBundle, Abs!AddBundle, Affordable, ApplyBundle, AddBundle
    <2> QED BY <2>1, <2>2 DEF Abs!AbsNext
  <1>3. CASE cur[a].kind = "pass"
    <2>1. rowData.level \in Nat
      BY DEF TypeOK, Data
    <2>2. Pass(rowData).level = rowData.level + 1
      BY DEF TypeOK, Data, Pass
    <2>3. Abs!AbsPass
      BY <1>1, <1>3, <2>2 DEF Write, Effect, Abs!AbsPass, Abs!Pass, Abs!AddReward,
         Pass, AddReward
    <2> QED BY <2>3 DEF Abs!AbsNext
  <1>4. CASE cur[a].kind = "mutate"
    <2>1. Abs!AbsMutate
      BY <1>1, <1>4 DEF Write, Effect, Abs!AbsMutate, Abs!Mutate, Mutate
    <2> QED BY <2>1 DEF Abs!AbsNext
  <1>5. CASE cur[a].kind \notin {"grant", "pass", "mutate"}
    BY <1>1, <1>5 DEF Write, Effect, Abs!absVars
  <1> QED BY <1>2, <1>3, <1>4, <1>5

\* Every step is an operation of the atomic role or leaves it alone.
LEMMA NextRefines ==
  ASSUME TypeOK, CacheCoherent, [Next]_vars
  PROVE  [Abs!AbsNext]_(Abs!absVars)
  <1>1. ASSUME NEW p \in Procs, ProcStep(p)
        PROVE  UNCHANGED Abs!absVars
    BY <1>1 DEF ProcStep, Get, AcquireLost, Request, FlushAll, Stop, Crash, dbVars,
                Abs!absVars
  <1>2. ASSUME NEW a \in Actors, ActorStep(a)
        PROVE  [Abs!AbsNext]_(Abs!absVars)
    <2>1. CASE CommitOk(a) \/ CommitLost(a)
      BY <2>1, WriteRefines DEF CommitOk, CommitLost
    <2>2. CASE ~(CommitOk(a) \/ CommitLost(a))
      BY <1>2, <2>2 DEF ActorStep, Begin, CommitStale, CommitFail, CommitDuplicate,
         ReloadOk, ReloadFail, Unload, dbVars, Abs!absVars
    <2> QED BY <2>1, <2>2
  <1>3. CASE UNCHANGED vars
    BY <1>3 DEF vars, dbVars, Abs!absVars
  <1> QED BY <1>1, <1>2, <1>3 DEF Next

\* Whatever the processes, caches, crashes, fencing and lost answers do, the row, the
\* ledger and the outbox change exactly as those of one atomic role would.
THEOREM Refinement == Spec => RefinesAtomicRole
  <1>1. Init => Abs!AbsInit
    BY DEF Init, Abs!AbsInit, InitData, Abs!InitData
  <1> QED BY <1>1, Coherence, NextRefines, PTL DEF Spec, RefinesAtomicRole, Abs!AbsSpec
-----------------------------------------------------------------------------
(* What follows for the economy: each invariant of the row is kept by an   *)
(* atomic operation, hence by every step.                                  *)

\* What a grant changes in the snapshot.
LEMMA GrantFields ==
  ASSUME NEW d \in Data, NEW s \in Sources
  PROVE  /\ ApplyBundle(d, s).level = d.level
         /\ ApplyBundle(d, s).applied = [d.applied EXCEPT ![s] = @ + 1]
         /\ \A x \in Assets : ApplyBundle(d, s).bal[x] = d.bal[x] + Bundle[s][x]
  BY DEF ApplyBundle, AddBundle, Data

\* What a dungeon pass changes in the snapshot.
LEMMA PassFields ==
  ASSUME NEW d \in Data
  PROVE  /\ Pass(d).level = d.level + 1
         /\ Pass(d).applied = d.applied
         /\ \A x \in Assets : Pass(d).bal[x] = d.bal[x] + Reward[x]
  BY DEF Pass, AddReward, Data

\* A mutation without source leaves level, balances and grants alone.
LEMMA MutateFields ==
  ASSUME NEW d \in Data
  PROVE  /\ Mutate(d).level = d.level
         /\ Mutate(d).applied = d.applied
         /\ Mutate(d).bal = d.bal
  BY DEF Mutate, Data

EconomyInv == ExactlyOnce /\ NoOverdraft /\ OutboxMatchesLevel /\ rowData.level >= 1

\* The economy invariants hold for a new role.
LEMMA EconomyInit == Init => EconomyInv
  BY DEF Init, InitData, EconomyInv, ExactlyOnce, NoOverdraft, OutboxMatchesLevel

\* Every operation of the atomic role keeps the economy invariants.
LEMMA EconomyStep ==
  ASSUME TypeOK, EconomyInv, [Abs!AbsNext]_(Abs!absVars)
  PROVE  EconomyInv'
  <1>0. /\ rowData \in Data
        /\ rowData.level \in Nat
        /\ rowData.applied \in [Sources -> Nat]
        /\ rowData.bal \in [Assets -> Int]
    BY DEF TypeOK, Data
  <1>1. ASSUME NEW s \in Sources, Abs!AbsGrant(s)
        PROVE  EconomyInv'
    <2>1. /\ s \notin ledger /\ Affordable(rowData, s)
          /\ rowData' = ApplyBundle(rowData, s)
          /\ ledger' = ledger \cup {s} /\ outbox' = outbox
      BY <1>1 DEF Abs!AbsGrant, Abs!Affordable, Affordable, Abs!ApplyBundle,
                  ApplyBundle, Abs!AddBundle, AddBundle
    <2>2. ExactlyOnce'
      <3>1. rowData'.applied = [rowData.applied EXCEPT ![s] = @ + 1]
        BY <1>0, <2>1, GrantFields
      <3> QED BY <1>0, <2>1, <3>1 DEF EconomyInv, ExactlyOnce
    <2>3. NoOverdraft'
      <3>1. ASSUME NEW x \in Assets
            PROVE  rowData'.bal[x] >= 0
        <4>1. rowData'.bal[x] = rowData.bal[x] + Bundle[s][x]
          BY ZenonT(30), <1>0, <2>1, GrantFields
        <4>2. rowData.bal[x] \in Int /\ Bundle[s][x] \in Int
          BY <1>0
        <4>3. /\ rowData.bal[x] >= 0
              /\ Bundle[s][x] < 0 => rowData.bal[x] >= -Bundle[s][x]
          BY <2>1 DEF EconomyInv, NoOverdraft, Affordable
        <4> QED BY <4>1, <4>2, <4>3
      <3> QED BY <3>1 DEF NoOverdraft
    <2>4. OutboxMatchesLevel' /\ rowData'.level >= 1
      BY <1>0, <2>1, GrantFields DEF EconomyInv, OutboxMatchesLevel
    <2> QED BY <2>2, <2>3, <2>4 DEF EconomyInv
  <1>2. CASE Abs!AbsPass
    <2>1. /\ rowData' = Pass(rowData) /\ ledger' = ledger
          /\ outbox' = outbox \cup {rowData.level + 1}
      BY <1>2 DEF Abs!AbsPass, Abs!Pass, Pass, Abs!AddReward, AddReward
    <2>2. ExactlyOnce' /\ NoOverdraft'
      BY <1>0, <2>1, PassFields DEF EconomyInv, ExactlyOnce, NoOverdraft
    <2>3. OutboxMatchesLevel' /\ rowData'.level >= 1
      BY <1>0, <2>1, PassFields DEF EconomyInv, OutboxMatchesLevel
    <2> QED BY <2>2, <2>3 DEF EconomyInv
  <1>3. CASE Abs!AbsMutate
    <2>1. rowData' = Mutate(rowData) /\ UNCHANGED <<ledger, outbox>>
      BY <1>3 DEF Abs!AbsMutate, Abs!Mutate, Mutate
    <2> QED BY <1>0, <2>1, MutateFields
            DEF EconomyInv, ExactlyOnce, NoOverdraft, OutboxMatchesLevel
  <1>4. CASE UNCHANGED Abs!absVars
    BY <1>4 DEF Abs!absVars, EconomyInv, ExactlyOnce, NoOverdraft, OutboxMatchesLevel
  <1> QED BY <1>1, <1>2, <1>3, <1>4 DEF Abs!AbsNext

\* A success is only reported for a source that is in the ledger, which only grows.
LEMMA AckStep ==
  ASSUME TypeOK, CacheCoherent, AckDurable, [Next]_vars
  PROVE  AckDurable'
  <1>1. ASSUME NEW p \in Procs, ProcStep(p)
        PROVE  UNCHANGED <<acked, ledger>>
    BY <1>1 DEF ProcStep, Get, AcquireLost, Request, FlushAll, Stop, Crash, dbVars
  <1>2. ASSUME NEW a \in Actors, ActorStep(a)
        PROVE  AckDurable'
    <2>1. CASE CommitOk(a)
      BY <2>1 DEF CommitOk, Write, OnSuccess, AckDurable
    <2>2. CASE CommitLost(a)
      BY <2>2 DEF CommitLost, Write, OnError, AckDurable
    <2>3. CASE ReloadOk(a)
      BY <2>3 DEF ReloadOk, dbVars, CacheCoherent, ReloadsGranted, Duplicate, AckDurable
    <2>4. CASE ~(CommitOk(a) \/ CommitLost(a) \/ ReloadOk(a))
      <3>1. UNCHANGED <<acked, ledger>>
        BY <1>2, <2>4 DEF ActorStep, Begin, CommitStale, CommitFail, CommitDuplicate,
           ReloadFail, Unload, OnError, dbVars
      <3> QED BY <3>1 DEF AckDurable
    <2> QED BY <2>1, <2>2, <2>3, <2>4
  <1>3. CASE UNCHANGED vars
    BY <1>3 DEF vars, dbVars, AckDurable
  <1> QED BY <1>1, <1>2, <1>3 DEF Next, AckDurable

\* A source is folded into the stored snapshot exactly when its ledger row exists, and
\* once, for any number of processes, retries, crashes and lost answers.
THEOREM GrantsExactlyOnce == Spec => []ExactlyOnce
  <1>1. EconomyInv => ExactlyOnce
    BY DEF EconomyInv
  <1> QED BY <1>1, EconomyInit, EconomyStep, NextRefines, Coherence, PTL DEF Spec

\* Competing debits never overdraw the role.
THEOREM NeverOverdrawn == Spec => []NoOverdraft
  <1>1. EconomyInv => NoOverdraft
    BY DEF EconomyInv
  <1> QED BY <1>1, EconomyInit, EconomyStep, NextRefines, Coherence, PTL DEF Spec

\* The outbox holds one rank event for each level gained and none for a level that was
\* rolled back.
THEOREM OutboxInStep == Spec => []OutboxMatchesLevel
  <1>1. EconomyInv => OutboxMatchesLevel
    BY DEF EconomyInv
  <1> QED BY <1>1, EconomyInit, EconomyStep, NextRefines, Coherence, PTL DEF Spec

\* A grant its caller was told has succeeded is in the ledger from then on.
THEOREM AcksAreDurable == Spec => []AckDurable
  <1>1. Init => AckDurable
    BY DEF Init, AckDurable
  <1> QED BY <1>1, AckStep, Coherence, PTL DEF Spec

-----------------------------------------------------------------------------
(* The table of a process and the mailboxes.                               *)

\* No step opens an actor without putting it into the table, or takes one out
\* without closing it.
LEMMA LoadedStep ==
  ASSUME TypeOK, CacheCoherent, LoadedIsOpen, [Next]_vars
  PROVE  LoadedIsOpen'
  <1>0. /\ None \notin Actors /\ players \in [Procs -> Actors \cup {None}]
        /\ status \in [Actors -> {"unborn", "open", "closed"}]
        /\ home \in [Actors -> Procs \cup {None}]
        /\ \A p \in Procs, a \in Actors : players[p] = a <=> (status[a] = "open" /\ home[a] = p)
    BY NoneAssumption, BoundsAssumption DEF Actors, TypeOK, LoadedIsOpen
  <1>1. ASSUME NEW p \in Procs, Get(p)
        PROVE  LoadedIsOpen'
    <2> DEFINE n == rowEpoch + 1
    <2>1. /\ n \in Actors /\ players[p] = None /\ players' = [players EXCEPT ![p] = n]
          /\ status' = [status EXCEPT ![n] = "open"] /\ home' = [home EXCEPT ![n] = p]
      BY <1>1 DEF Get
    <2>2. status[n] # "open"
      BY <2>1 DEF CacheCoherent, NotLoaded, TypeOK, Actors
    <2> HIDE DEF n
    <2> QED BY <1>0, <2>1, <2>2 DEF LoadedIsOpen
  <1>2. ASSUME NEW p \in Procs, Stop(p)
        PROVE  LoadedIsOpen'
    BY <1>0, <1>2 DEF Stop, LoadedIsOpen
  <1>3. ASSUME NEW p \in Procs, Crash(p)
        PROVE  LoadedIsOpen'
    BY <1>0, <1>3 DEF Crash, LoadedIsOpen
  <1>4. ASSUME NEW a \in Actors, Unload(a)
        PROVE  LoadedIsOpen'
    BY <1>0, <1>4 DEF Unload, LoadedIsOpen
  <1>5. ASSUME UNCHANGED <<players, status, home>>
        PROVE  LoadedIsOpen'
    BY <1>0, <1>5 DEF LoadedIsOpen
  <1>6. ASSUME NEW p \in Procs, ProcStep(p), ~Get(p), ~Stop(p), ~Crash(p)
        PROVE  UNCHANGED <<players, status, home>>
    BY <1>6 DEF ProcStep, AcquireLost, Request, FlushAll, procVars, boxVars
  <1>7. ASSUME NEW a \in Actors, ActorStep(a), ~Unload(a)
        PROVE  UNCHANGED <<players, status, home>>
    BY <1>7 DEF ActorStep, Begin, CommitOk, CommitLost, CommitStale, CommitFail, CommitDuplicate,
       ReloadOk, ReloadFail, OnError, OnSuccess, procVars, boxVars
  <1>8. CASE UNCHANGED vars
    BY <1>5, <1>8 DEF vars, procVars, boxVars
  <1> QED BY <1>1, <1>2, <1>3, <1>4, <1>5, <1>6, <1>7, <1>8 DEF Next

\* A process hands out exactly the open actor it loaded last, for any number of
\* processes and acquisitions: no late unload of an older actor removes a newer one.
THEOREM LoadedActorsAreOpen == Spec => []LoadedIsOpen
  <1>1. Init => LoadedIsOpen
    BY NoneAssumption, BoundsAssumption DEF Init, LoadedIsOpen, Actors
  <1> QED BY <1>1, LoadedStep, Coherence, PTL DEF Spec
=============================================================================
