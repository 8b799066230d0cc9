----------------------------- MODULE AtomicRole -----------------------------
(***************************************************************************)
(* What the role storage promises to its callers, with no processes, no    *)
(* caches and no failures: one role whose operations happen one at a time  *)
(* and completely.  A grant happens at most once per source key and only   *)
(* if the role can pay for it, and the event of a dungeon pass exists      *)
(* exactly when the pass is part of the snapshot                           *)
(* (docs/architecture-scale.md, the section on invariants).                *)
(***************************************************************************)
EXTENDS RoleData

VARIABLES
    data,       \* the role's snapshot
    ledger,     \* sources already granted
    outbox      \* levels whose rank event has been recorded

absVars == <<data, ledger, outbox>>

AbsInit ==
    /\ data = InitData
    /\ ledger = {}
    /\ outbox = {}

\* A grant: snapshot and ledger together, once per source.
AbsGrant(s) ==
    /\ s \notin ledger
    /\ Affordable(data, s)
    /\ data' = ApplyBundle(data, s)
    /\ ledger' = ledger \cup {s}
    /\ UNCHANGED outbox

\* A dungeon pass: snapshot and rank event together.
AbsPass ==
    /\ data' = Pass(data)
    /\ outbox' = outbox \cup {data.level + 1}
    /\ UNCHANGED ledger

\* Any other mutation of the snapshot.
AbsMutate ==
    /\ data' = Mutate(data)
    /\ UNCHANGED <<ledger, outbox>>

AbsNext ==
    \/ \E s \in Sources : AbsGrant(s)
    \/ AbsPass
    \/ AbsMutate

AbsSpec == AbsInit /\ [][AbsNext]_absVars
=============================================================================
