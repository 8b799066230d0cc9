-------------------------------- MODULE Match -------------------------------
(***************************************************************************)
(* The Match service with its queue in Redis, for one scope and mode, and  *)
(* the Battle service that it creates rooms in.  A join that fills a match *)
(* takes the players out of the queue in the script and then owns them:    *)
(* it must reserve a room, create it in Battle and publish it, or bring    *)
(* them back.  Any of these calls can fail, lose its answer, or be cut off *)
(* by a crash or by the client that leaves (the request's context).        *)
(*                                                                         *)
(* Room records expire after ten minutes; the model ends before that.      *)
(***************************************************************************)
EXTENDS Naturals, Sequences, SequencesExt, FiniteSets

CONSTANTS
    Players,
    Joins,          \* join requests; a request's match has its name
    NoMatch

ASSUME MatchAssumption == NoMatch \notin Joins

PerMatch == 2

VARIABLES
    queue,      \* players that wait, oldest first
    jcall,      \* per request: next step and the players it took
    room,       \* match records: state and members
    ticket,     \* the match a waiting player is pointed to
    battle,     \* Battle's rooms (of the request that created each) and results
    waiting,    \* players that asked to be matched
    dropped     \* of these, the ones that a fault cost their place

matchVars == <<queue, jcall, room, ticket, battle, waiting, dropped>>

MatchInit ==
    /\ queue = <<>>
    /\ jcall = [j \in Joins |-> [pc |-> "none", members |-> <<>>]]
    /\ room = [j \in Joins |-> [state |-> "none", members |-> <<>>]]
    /\ ticket = [p \in Players |-> NoMatch]
    /\ battle = [j \in Joins |-> [members |-> {}, results |-> {}]]
    /\ waiting = {}
    /\ dropped = {}

Members(j) == ToSet(jcall[j].members)
JoinAt(j, pc) == jcall[j].pc = pc
JoinTo(j, pc) == jcall' = [jcall EXCEPT ![j].pc = pc]
JoinEnds(j) == jcall' = [jcall EXCEPT ![j] = [pc |-> "done", members |-> <<>>]]

\* LREM of every occurrence.
Without(q, p) ==
    LET Kept[n \in 0..Len(q)] ==
            IF n = 0 THEN <<>>
            ELSE IF q[n] = p THEN Kept[n - 1] ELSE Append(Kept[n - 1], q[n])
    IN  Kept[Len(q)]

\* LREM, then RPUSH.
Pushed(q, p) == Append(Without(q, p), p)

-----------------------------------------------------------------------------
\* joinScript, and whether its answer arrives.
JoinQueue(j, p) ==
    LET q == Pushed(queue, p) IN
    /\ JoinAt(j, "none")
    /\ waiting' = waiting \cup {p}
    /\ \/ /\ Len(q) < PerMatch
          /\ queue' = q
          /\ JoinEnds(j)
          /\ dropped' = dropped \ {p}
       \/ /\ Len(q) >= PerMatch
          /\ queue' = SubSeq(q, PerMatch + 1, Len(q))
          /\ \/ /\ jcall' = [jcall EXCEPT ![j] =
                      [pc |-> "reserve", members |-> SubSeq(q, 1, PerMatch)]]
                /\ dropped' = dropped \ {p}
             \/ /\ JoinEnds(j)
                /\ dropped' = (dropped \ {p}) \cup ToSet(SubSeq(q, 1, PerMatch))
    /\ UNCHANGED <<room, ticket, battle>>

\* putRoom: a pipeline of one SET for the record and one per ticket.  When it
\* fails, any of them may have been executed.
PutRoom(j, state, all) ==
    \E S \in SUBSET Members(j), put \in BOOLEAN :
        /\ all => put /\ S = Members(j)
        /\ room' = IF put THEN [room EXCEPT ![j] = [state |-> state, members |-> jcall[j].members]]
                   ELSE room
        /\ ticket' = [p \in Players |-> IF p \in S THEN j ELSE ticket[p]]

Reserve(j) ==
    /\ JoinAt(j, "reserve")
    /\ \E ok \in BOOLEAN :
          /\ PutRoom(j, "RESERVED", ok)
          /\ JoinTo(j, IF ok THEN "create" ELSE "requeue")
    /\ UNCHANGED <<queue, battle, waiting, dropped>>

BattleCreate(j) == battle' = [battle EXCEPT ![j].members = Members(j)]

\* Variant for mutation: the error path returns without the compensation.
CreateBattleRoomOnly(j) ==
    /\ JoinAt(j, "create")
    /\ \/ /\ BattleCreate(j)
          /\ JoinTo(j, "publish")
       \/ /\ JoinEnds(j)
          /\ UNCHANGED battle
    /\ UNCHANGED <<queue, room, ticket, waiting, dropped>>

\* createBattleRoom and Battle's handleCreate; an error may hide a room.
CreateBattleRoom(j) ==
    /\ JoinAt(j, "create")
    /\ \/ /\ BattleCreate(j)
          /\ JoinTo(j, "publish") \/ JoinTo(j, "delete")
       \/ /\ JoinTo(j, "delete")
          /\ UNCHANGED battle
    /\ UNCHANGED <<queue, room, ticket, waiting, dropped>>

\* deleteRoom deletes the members' tickets whatever match they point to; its
\* error is ignored.
DeleteRoom(j) ==
    /\ JoinAt(j, "delete")
    /\ \E S \in SUBSET Members(j), del \in BOOLEAN :
          /\ room' = IF del THEN [room EXCEPT ![j] = [state |-> "none", members |-> <<>>]]
                     ELSE room
          /\ ticket' = [p \in Players |-> IF p \in S THEN NoMatch ELSE ticket[p]]
    /\ JoinTo(j, "requeue")
    /\ UNCHANGED <<queue, battle, waiting, dropped>>

\* One transaction that pushes the two players again; its error is ignored.
Requeue(j) ==
    /\ JoinAt(j, "requeue")
    /\ \/ /\ queue' = Pushed(Pushed(queue, jcall[j].members[1]), jcall[j].members[2])
          /\ UNCHANGED dropped
       \/ /\ dropped' = dropped \cup Members(j)
          /\ UNCHANGED queue
    /\ JoinEnds(j)
    /\ UNCHANGED <<room, ticket, battle, waiting>>

\* The room id is published; when that fails the players are not told of it.
Publish(j) ==
    /\ JoinAt(j, "publish")
    /\ \E ok \in BOOLEAN :
          /\ PutRoom(j, "ROOM_CREATED", ok)
          /\ dropped' = IF ok THEN dropped ELSE dropped \cup Members(j)
    /\ JoinEnds(j)
    /\ UNCHANGED <<queue, battle, waiting>>

MatchCrash(j) ==
    /\ jcall[j].pc \notin {"none", "done"}
    /\ dropped' = dropped \cup Members(j)
    /\ JoinEnds(j)
    /\ UNCHANGED <<queue, room, ticket, battle, waiting>>

\* Battle's handleSettle takes a result from a member of the room.  Its random
\* id is in the published record only.
Settle(j, p) ==
    /\ room[j].state = "ROOM_CREATED" /\ p \in battle[j].members
    /\ battle' = [battle EXCEPT ![j].results = @ \cup {p}]
    /\ UNCHANGED <<queue, jcall, room, ticket, waiting, dropped>>

MatchNext ==
    \/ \E j \in Joins, p \in Players : JoinQueue(j, p) \/ Settle(j, p)
    \/ \E j \in Joins : Reserve(j) \/ CreateBattleRoom(j) \/ DeleteRoom(j)
                           \/ Requeue(j) \/ Publish(j) \/ MatchCrash(j)

-----------------------------------------------------------------------------
MatchTypeOK ==
    /\ queue \in Seq(Players)
    /\ \A j \in Joins :
          /\ jcall[j].pc \in {"none", "reserve", "create", "delete", "requeue", "publish", "done"}
          /\ jcall[j].members \in Seq(Players) /\ room[j].members \in Seq(Players)
          /\ room[j].state \in {"none", "RESERVED", "ROOM_CREATED"}
          /\ battle[j].results \subseteq battle[j].members
    /\ ticket \in [Players -> Joins \cup {NoMatch}]
    /\ dropped \subseteq waiting

\* handleRoom and getRoom: the published match that a waiting player is shown.
Shown(p) ==
    {j \in Joins : /\ j = ticket[p] /\ room[j].state = "ROOM_CREATED"
                   /\ p \in ToSet(room[j].members)}

\* A player that asked for a match waits in the queue, is in the hands of a
\* request, or is shown a published match of its own, unless a fault that the
\* code does not repair (a lost answer of the script, a crash, a failed Requeue
\* or a failed last putRoom) cost its place: a failed reservation or a failed
\* creation of the battle room costs nobody's, although the compensation of an
\* older match deletes the ticket of a newer one.  And nobody is queued twice,
\* so that nobody is matched with itself, however joins and requeues interleave.
PlayersKept ==
    /\ \A p \in waiting \ dropped :
          \/ p \in ToSet(queue)
          \/ \E j \in Joins : p \in Members(j)
          \/ Shown(p) # {}
    /\ IsInjective(queue)
    /\ \A j \in Joins : IsInjective(room[j].members)
=============================================================================
