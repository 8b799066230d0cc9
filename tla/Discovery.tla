------------------------------ MODULE Discovery -----------------------------
(***************************************************************************)
(* Service discovery in Redis for one service and zone: the instances that *)
(* register, renew and deregister themselves, and one Resolver that picks  *)
(* a healthy instance and caches it.  An instance is a key with a TTL and  *)
(* a member of the index set; register, renew and deregister write the two *)
(* with a pipeline, so that commands of others come between them.          *)
(*                                                                         *)
(* A heartbeat is three times as frequent as the TTL is long: the key of a *)
(* running instance expires only after a heartbeat was missed.             *)
(***************************************************************************)
EXTENDS Naturals, FiniteSets

CONSTANTS
    Instances,
    MaxFaults,      \* heartbeats and lookups that fail
    NoInstance

ASSUME DiscoveryAssumption == MaxFaults \in Nat /\ NoInstance \notin Instances

VARIABLES
    life,       \* per instance: down, starting, up, or a step of Stop
    hb,         \* command of its register or renew pipeline that comes next
    missed,     \* its last heartbeat failed
    key, index, \* instances whose key exists; the index set
    res,        \* the resolver's lookup: step, ids listed, instances left to try
    cache,      \* the resolver's entry, which outlives its time when a lookup fails
    faults

discVars == <<life, hb, missed, key, index, res, cache, faults>>

Idle == [pc |-> "idle", ids |-> {}, live |-> {}]

DiscInit ==
    /\ life = [i \in Instances |-> "down"]
    /\ hb = [i \in Instances |-> "rest"]
    /\ missed = [i \in Instances |-> FALSE]
    /\ key = {} /\ index = {}
    /\ res = Idle
    /\ cache = [inst |-> NoInstance, fresh |-> FALSE]
    /\ faults = 0

Fault == faults < MaxFaults /\ faults' = faults + 1
Live(i, l) == life' = [life EXCEPT ![i] = l]
Beat(i, b) == hb' = [hb EXCEPT ![i] = b]

-----------------------------------------------------------------------------
(* An instance.                                                            *)

\* Start registers before the service serves.
StartInstance(i) ==
    /\ life[i] = "down" /\ hb[i] = "rest"
    /\ Live(i, "starting") /\ Beat(i, "set")
    /\ UNCHANGED <<missed, key, index, res, cache, faults>>

Tick(i) ==
    /\ life[i] = "up" /\ hb[i] = "rest"
    /\ Beat(i, "set")
    /\ UNCHANGED <<life, missed, key, index, res, cache, faults>>

\* The commands of Register and Renew.  Stop does not cancel a renewal that is
\* on its way.
SetKey(i) ==
    /\ hb[i] = "set"
    /\ key' = key \cup {i}
    /\ missed' = [missed EXCEPT ![i] = FALSE]
    /\ Beat(i, "sadd")
    /\ UNCHANGED <<life, index, res, cache, faults>>

\* Variant for mutation: a renewal only refreshes the key.
AddIndexOnce(i) ==
    /\ hb[i] = "sadd"
    /\ index' = IF life[i] = "starting" THEN index \cup {i} ELSE index
    /\ Beat(i, "rest")
    /\ Live(i, IF life[i] = "starting" THEN "up" ELSE life[i])
    /\ UNCHANGED <<missed, key, res, cache, faults>>

AddIndex(i) ==
    /\ hb[i] = "sadd"
    /\ index' = index \cup {i}
    /\ Beat(i, "rest")
    /\ Live(i, IF life[i] = "starting" THEN "up" ELSE life[i])
    /\ UNCHANGED <<missed, key, res, cache, faults>>

\* A failed Register ends the process; a failed Renew is only logged.  What a
\* dead process had on its way may be lost.
BeatFails(i) ==
    /\ hb[i] # "rest"
    /\ Fault \/ (life[i] = "down" /\ UNCHANGED faults)
    /\ Beat(i, "rest")
    /\ missed' = [missed EXCEPT ![i] = TRUE]
    /\ Live(i, IF life[i] = "starting" THEN "down" ELSE life[i])
    /\ UNCHANGED <<key, index, res, cache>>

Stop(i) ==
    /\ life[i] = "up"
    /\ Live(i, "del")
    /\ UNCHANGED <<hb, missed, key, index, res, cache, faults>>

\* The commands of Deregister; Crash stands for the ones that fail.
DelKey(i) ==
    /\ life[i] = "del"
    /\ key' = key \ {i}
    /\ Live(i, "srem")
    /\ UNCHANGED <<hb, missed, index, res, cache, faults>>

RemIndex(i) ==
    /\ life[i] = "srem"
    /\ index' = index \ {i}
    /\ Live(i, "down")
    /\ UNCHANGED <<hb, missed, key, res, cache, faults>>

Crash(i) ==
    /\ life[i] # "down"
    /\ Live(i, "down")
    /\ UNCHANGED <<hb, missed, key, index, res, cache, faults>>

\* The TTL of the key.
Expire(i) ==
    /\ i \in key /\ hb[i] = "rest"
    /\ life[i] # "up" \/ missed[i]
    /\ key' = key \ {i}
    /\ UNCHANGED <<life, hb, missed, index, res, cache, faults>>

-----------------------------------------------------------------------------
(* The resolver.  Concurrent lookups of one key are merged into one.  A    *)
(* lookup that finds nobody leaves the entry and answers with it.          *)

CacheLapses ==
    /\ cache.fresh
    /\ cache' = [cache EXCEPT !.fresh = FALSE]
    /\ UNCHANGED <<life, hb, missed, key, index, res, faults>>

\* Discover: SMEMBERS, one GET each, and SREM of the ids without a key.
ListIds ==
    /\ res.pc = "idle" /\ ~cache.fresh
    /\ res' = IF index = {} THEN Idle ELSE [pc |-> "get", ids |-> index, live |-> {}]
    /\ UNCHANGED <<life, hb, missed, key, index, cache, faults>>

\* Variant for mutation: instances are taken from the keys, listed or not.
GetAll ==
    /\ res.pc = "get"
    /\ res' = [res EXCEPT !.pc = IF res.ids \subseteq key THEN "pick" ELSE "srem", !.live = key]
    /\ UNCHANGED <<life, hb, missed, key, index, cache, faults>>

\* The GETs of the pipeline are one read: each id is treated by itself.
GetIds ==
    /\ res.pc = "get"
    /\ res' = [res EXCEPT !.pc = IF res.ids \subseteq key THEN "pick" ELSE "srem",
                          !.live = res.ids \cap key]
    /\ UNCHANGED <<life, hb, missed, key, index, cache, faults>>

RemStale ==
    /\ res.pc = "srem"
    /\ \/ index' = index \ (res.ids \ res.live) /\ UNCHANGED faults
       \/ Fault /\ UNCHANGED index
    /\ res' = [res EXCEPT !.pc = "pick"]
    /\ UNCHANGED <<life, hb, missed, key, cache>>

\* The HTTP probe, answered from the registration on, of an instance that has an HTTP
\* address.  (One with a TCP address only counts as healthy unasked.)
Healthy(i) == life[i] = "up"

\* PickHealthy tries the instances in any order.
Pick ==
    /\ res.pc = "pick"
    /\ \/ \E i \in res.live :
             IF Healthy(i)
             THEN /\ cache' = [inst |-> i, fresh |-> TRUE]
                  /\ res' = Idle
             ELSE /\ res' = [res EXCEPT !.live = @ \ {i}]
                  /\ UNCHANGED cache
       \/ /\ res.live = {}
          /\ res' = Idle
          /\ UNCHANGED cache
    /\ UNCHANGED <<life, hb, missed, key, index, faults>>

LookupFails ==
    /\ res.pc # "idle" /\ Fault
    /\ res' = Idle
    /\ UNCHANGED <<life, hb, missed, key, index, cache>>

DiscNext ==
    \/ \E i \in Instances :
          \/ StartInstance(i) \/ Tick(i) \/ SetKey(i) \/ AddIndex(i) \/ BeatFails(i)
          \/ Stop(i) \/ DelKey(i) \/ RemIndex(i) \/ Crash(i) \/ Expire(i)
    \/ CacheLapses \/ ListIds \/ GetIds \/ RemStale \/ Pick \/ LookupFails

\* The ticker runs, commands that are sent are answered, TTLs end, and the
\* callers of the resolver keep asking.  Nobody has to start or stop.
DiscFairness ==
    /\ \A i \in Instances :
          /\ WF_discVars(Tick(i)) /\ WF_discVars(SetKey(i)) /\ WF_discVars(AddIndex(i))
          /\ WF_discVars(Expire(i))
    /\ WF_discVars(CacheLapses) /\ WF_discVars(ListIds) /\ WF_discVars(GetIds)
    /\ WF_discVars(RemStale) /\ WF_discVars(Pick)

-----------------------------------------------------------------------------
DiscTypeOK ==
    /\ life \in [Instances -> {"down", "starting", "up", "del", "srem"}]
    /\ hb \in [Instances -> {"rest", "set", "sadd"}]
    /\ missed \in [Instances -> BOOLEAN]
    /\ key \subseteq Instances /\ index \subseteq Instances
    /\ res \in [pc : {"idle", "get", "srem", "pick"}, ids : SUBSET Instances,
                live : SUBSET Instances]
    /\ res.live \subseteq res.ids
    /\ cache \in [inst : Instances \cup {NoInstance}, fresh : BOOLEAN]
    /\ faults \in 0..MaxFaults

\* The registry follows the processes.  An instance that stays up is listed
\* for good once the faults are over, although a lookup may remove it from the
\* index after it has registered again; an instance that stays down vanishes
\* from key and index, although a renewal may have come after its Deregister;
\* and while another instance stays up, the resolver stops answering with one
\* that stays down.
RegistryFollows ==
    \A i \in Instances :
        /\ <>[](life[i] = "up") => <>[](i \in key /\ i \in index)
        /\ <>[](life[i] = "down") => <>[](i \notin key /\ i \notin index)
        /\ <>[](life[i] = "down") /\ <>[](\E j \in Instances : life[j] = "up")
             => <>[](cache.inst # i)
=============================================================================
