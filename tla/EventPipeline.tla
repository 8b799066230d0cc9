---------------------------- MODULE EventPipeline ---------------------------
(***************************************************************************)
(* The way of a rank event: a dungeon pass commits the role's new level    *)
(* together with an event_outbox row; every Game process leases rows,      *)
(* publishes them to JetStream and marks them published; the Rank          *)
(* processes take the messages from one durable consumer and raise the     *)
(* role's score on the zone board and on the global board.                 *)
(*                                                                         *)
(* Publishers and workers can fail between any two steps.  Time appears    *)
(* only as what it makes possible: a lease that runs out, an AckWait that  *)
(* runs out, a message id that leaves JetStream's duplicate window.        *)
(*                                                                         *)
(* JetStream is external: a stored message is kept, is delivered at most   *)
(* MaxDeliver times, and is delivered again after a Nak or after AckWait.  *)
(***************************************************************************)
EXTENDS Integers, Sequences, FiniteSets

CONSTANTS
    Roles, Publishers, Workers,
    Limit,          \* rows leased at once (100 in the code)
    MaxDeliver,     \* maxDeliveries (10 in the code)
    Cap,            \* members a board keeps
    MaxEvents,      \* bound on the dungeon passes that commit
    MaxForgotten,   \* bound on message ids that leave the duplicate window
    None            \* no row, no message

ASSUME PipelineAssumption ==
    /\ Limit \in Nat \ {0} /\ MaxDeliver \in Nat \ {0} /\ Cap \in Nat
    /\ MaxEvents \in Nat /\ MaxForgotten \in Nat
    /\ None \notin Nat

\* The boards are ordered sets of finitely many members.
ASSUME RolesAssumption == IsFiniteSet(Roles)

Events == Roles \X Nat
Rows == 1 .. MaxEvents
Boards == {"zone", "global"}

VARIABLES
    level,      \* roles.level
    rows,       \* event_outbox in id order: the event of each row
    published,  \* rows with published_at
    leased,     \* rows still to publish whose available_at is in the future
    pub,        \* per publisher: rows of its batch still to do, and the row it marks
    stream,     \* per stored message: event, deliveries so far, acknowledgement state
    window,     \* events in the duplicate window
    forgotten,  \* how often an event has left it
    work,       \* per worker: message, its NumDelivered, next step
    score,      \* the two boards: score of each member, 0 for none
    dlq         \* events stored under _DLQ

dbVars == <<level, rows, published, leased>>
mqVars == <<stream, window, forgotten, dlq>>
vars == <<dbVars, pub, mqVars, work, score>>

Resting == [batch |-> {}, row |-> None]
NoWork == [msg |-> None, n |-> 0, pc |-> "idle"]

Init ==
    /\ level = [r \in Roles |-> 1]
    /\ rows = <<>>
    /\ published = {}
    /\ leased = {}
    /\ pub = [p \in Publishers |-> Resting]
    /\ stream = <<>>
    /\ window = {}
    /\ forgotten = 0
    /\ work = [w \in Workers |-> NoWork]
    /\ score = [b \in Boards |-> [r \in Roles |-> 0]]
    /\ dlq = {}

-----------------------------------------------------------------------------
(* The producer: one transaction for the snapshot and the event.           *)

PassEventFirst(r) ==
    /\ Len(rows) < MaxEvents
    /\ rows' = Append(rows, <<r, level[r] + 1>>)
    /\ UNCHANGED <<level, published, leased, pub, mqVars, work, score>>

SaveWithOutbox(r) ==
    /\ Len(rows) < MaxEvents
    /\ level' = [level EXCEPT ![r] = @ + 1]
    /\ rows' = Append(rows, <<r, level[r] + 1>>)
    /\ UNCHANGED <<published, leased, pub, mqVars, work, score>>

-----------------------------------------------------------------------------
(* publishOutboxBatch.                                                     *)

Leasable == {i \in DOMAIN rows : i \notin published /\ i \notin leased}

\* ReserveOutbox: the first Limit rows, each leased for 30 seconds.
ReserveOutbox(p) ==
    LET batch == {i \in Leasable : Cardinality({j \in Leasable : j < i}) < Limit} IN
    /\ pub[p] = Resting
    /\ batch # {}
    /\ leased' = leased \cup batch
    /\ pub' = [pub EXCEPT ![p].batch = batch]
    /\ UNCHANGED <<level, rows, published, mqVars, work, score>>

PublishUnconfirmed(p, i) ==
    /\ pub[p].row = None
    /\ i \in pub[p].batch
    /\ pub' = [pub EXCEPT ![p].row = i]
    /\ UNCHANGED <<dbVars, mqVars, work, score>>

\* mq.Publish and JetStream's answer; a message id in the duplicate window is
\* acknowledged without being stored again.
Publish(p, i) ==
    /\ pub[p].row = None
    /\ i \in pub[p].batch
    /\ IF rows[i] \in window
         THEN UNCHANGED stream
         ELSE stream' = Append(stream, [ev |-> rows[i], n |-> 0, st |-> "ready"])
    /\ window' = window \cup {rows[i]}
    /\ pub' = [pub EXCEPT ![p].row = i]
    /\ UNCHANGED <<dbVars, forgotten, dlq, work, score>>

MarkOutboxPublished(p) ==
    /\ pub[p].row # None
    /\ published' = published \cup {pub[p].row}
    /\ leased' = leased \ {pub[p].row}
    /\ pub' = [pub EXCEPT ![p] = [batch |-> @.batch \ {@.row}, row |-> None]]
    /\ UNCHANGED <<level, rows, mqVars, work, score>>

\* An error ends the whole batch, like a crash: the rest waits for its lease to run out.
\* A message stored although Publish failed is Publish followed by this step.
AbandonBatch(p) ==
    /\ pub[p] # Resting
    /\ pub' = [pub EXCEPT ![p] = Resting]
    /\ UNCHANGED <<dbVars, mqVars, work, score>>

LeaseForever(i) == FALSE /\ UNCHANGED vars

LeaseExpires(i) ==
    /\ i \in leased
    /\ leased' = leased \ {i}
    /\ UNCHANGED <<level, rows, published, pub, mqVars, work, score>>

WindowExpires(e) ==
    /\ e \in window
    /\ forgotten < MaxForgotten
    /\ window' = window \ {e}
    /\ forgotten' = forgotten + 1
    /\ UNCHANGED <<dbVars, pub, stream, dlq, work, score>>

-----------------------------------------------------------------------------
(* SubscribeDurable and the Rank handler.                                  *)

DeliverForever(w, m) ==
    /\ work[w] = NoWork
    /\ stream[m].st = "ready"
    /\ stream' = [stream EXCEPT ![m].n = @ + 1, ![m].st = "sent"]
    /\ work' = [work EXCEPT ![w] = [msg |-> m, n |-> stream[m].n + 1, pc |-> "zone"]]
    /\ UNCHANGED <<dbVars, pub, window, forgotten, dlq, score>>

Deliver(w, m) ==
    /\ work[w] = NoWork
    /\ stream[m].st = "ready"
    /\ stream[m].n < MaxDeliver
    /\ stream' = [stream EXCEPT ![m].n = @ + 1, ![m].st = "sent"]
    /\ work' = [work EXCEPT ![w] = [msg |-> m, n |-> stream[m].n + 1, pc |-> "zone"]]
    /\ UNCHANGED <<dbVars, pub, window, forgotten, dlq, score>>

\* ZADD GT.
PutScore(b, e) ==
    score' = [score EXCEPT ![b][e[1]] = e[2]]

RaiseScore(b, e) ==
    score' = [score EXCEPT ![b][e[1]] = IF e[2] > @ THEN e[2] ELSE @]

\* writeScore: the zone board, then the global board.
WriteScore(w) ==
    LET e == stream[work[w].msg].ev IN
    /\ \/ /\ work[w].pc = "zone"
          /\ RaiseScore("zone", e)
          /\ work' = [work EXCEPT ![w].pc = "global"]
       \/ /\ work[w].pc = "global"
          /\ RaiseScore("global", e)
          /\ work' = [work EXCEPT ![w].pc = "ack"]
    /\ UNCHANGED <<dbVars, pub, mqVars>>

AckEarly(w) ==
    /\ work[w].pc \in {"global", "ack"}
    /\ stream' = [stream EXCEPT ![work[w].msg].st = "done"]
    /\ work' = [work EXCEPT ![w] = NoWork]
    /\ UNCHANGED <<dbVars, pub, window, forgotten, dlq, score>>

\* An Ack counts even after AckWait.
Ack(w) ==
    /\ work[w].pc = "ack"
    /\ stream' = [stream EXCEPT ![work[w].msg].st = "done"]
    /\ work' = [work EXCEPT ![w] = NoWork]
    /\ UNCHANGED <<dbVars, pub, window, forgotten, dlq, score>>

\* The handler fails at either board and the delivery is not the last: Nak.
Nak(w) ==
    LET m == work[w].msg IN
    /\ work[w].pc \in {"zone", "global"}
    /\ work[w].n < MaxDeliver
    /\ stream' = IF stream[m].st = "sent"
                   THEN [stream EXCEPT ![m].st = "ready"] ELSE stream
    /\ work' = [work EXCEPT ![w] = NoWork]
    /\ UNCHANGED <<dbVars, pub, window, forgotten, dlq, score>>

\* The last delivery fails: publishDeadLetter, then Term.
DeadLetter(w) ==
    LET m == work[w].msg IN
    /\ work[w].pc \in {"zone", "global"}
    /\ work[w].n >= MaxDeliver
    /\ dlq' = dlq \cup {stream[m].ev}
    /\ stream' = IF stream[m].st = "done"
                   THEN stream ELSE [stream EXCEPT ![m].st = "term"]
    /\ work' = [work EXCEPT ![w] = NoWork]
    /\ UNCHANGED <<dbVars, pub, window, forgotten, score>>

\* publishDeadLetter fails too: the handler returns with neither Term nor Nak.
DeadLetterLost(w) ==
    /\ work[w].pc \in {"zone", "global"}
    /\ work[w].n >= MaxDeliver
    /\ work' = [work EXCEPT ![w] = NoWork]
    /\ UNCHANGED <<dbVars, pub, mqVars, score>>

\* The worker stops without an answer: a crash, or an Ack, Nak or Term that is lost.
Silent(w) ==
    /\ work[w] # NoWork
    /\ work' = [work EXCEPT ![w] = NoWork]
    /\ UNCHANGED <<dbVars, pub, mqVars, score>>

\* AckWait runs out, whether the worker is gone or only slow.
AckWaitExpires(m) ==
    /\ stream[m].st = "sent"
    /\ stream' = [stream EXCEPT ![m].st = "ready"]
    /\ UNCHANGED <<dbVars, pub, window, forgotten, dlq, work, score>>

\* trimLoop, ZREMRANGEBYRANK: the Cap highest scores stay (ties fall either way).
Trim(b) ==
    LET members == {r \in Roles : score[b][r] > 0} IN
    /\ Cardinality(members) > Cap
    /\ \E keep \in SUBSET members :
          /\ Cardinality(keep) = Cap
          /\ \A r \in keep, q \in members \ keep : score[b][q] <= score[b][r]
          /\ score' = [score EXCEPT ![b] = [r \in Roles |-> IF r \in keep THEN @[r] ELSE 0]]
    /\ UNCHANGED <<dbVars, pub, mqVars, work>>

-----------------------------------------------------------------------------
PublisherStep(p) ==
    \/ ReserveOutbox(p)
    \/ \E i \in DOMAIN rows : Publish(p, i)
    \/ MarkOutboxPublished(p)
    \/ AbandonBatch(p)

WorkerStep(w) ==
    \/ \E m \in DOMAIN stream : Deliver(w, m)
    \/ WriteScore(w)
    \/ Ack(w)
    \/ Nak(w)
    \/ DeadLetter(w)
    \/ DeadLetterLost(w)
    \/ Silent(w)

Time ==
    \/ \E i \in leased : LeaseExpires(i)
    \/ \E e \in window : WindowExpires(e)
    \/ \E m \in DOMAIN stream : AckWaitExpires(m)

Next ==
    \/ \E r \in Roles : SaveWithOutbox(r)
    \/ \E p \in Publishers : PublisherStep(p)
    \/ \E w \in Workers : WorkerStep(w)
    \/ Time
    \/ \E b \in Boards : Trim(b)

Spec == Init /\ [][Next]_vars

\* runOutbox comes round every second and leases run out, so a row is tried for ever:
\* some attempt reaches JetStream, and some attempt to mark it reaches the database.
\* JetStream delivers what is ready, AckWait runs out, and a worker that does not die
\* ends its handler.
Fairness ==
    /\ \A p \in Publishers :
          /\ WF_vars(ReserveOutbox(p))
          /\ WF_vars(MarkOutboxPublished(p) \/ (pub[p].row # None /\ AbandonBatch(p)))
    /\ \A i \in Rows :
          /\ SF_vars(\E p \in Publishers : Publish(p, i))
          /\ SF_vars(\E p \in Publishers : pub[p].row = i /\ MarkOutboxPublished(p))
          /\ WF_vars(LeaseExpires(i))
    /\ WF_vars(\E w \in Workers, m \in DOMAIN stream : Deliver(w, m))
    /\ \A w \in Workers : WF_vars(WriteScore(w) \/ Ack(w) \/ Nak(w) \/ DeadLetter(w)
                                      \/ DeadLetterLost(w))
    /\ \A m \in 1 .. MaxEvents + MaxForgotten :
          WF_vars(m \in DOMAIN stream /\ AckWaitExpires(m))

FairSpec == Spec /\ Fairness
-----------------------------------------------------------------------------
(* Properties.                                                             *)

\* Type invariant of the outbox, the publishers, the stream and the boards.
TypeOK ==
    /\ level \in [Roles -> Nat]
    /\ rows \in Seq(Events) /\ Len(rows) <= MaxEvents
    /\ published \subseteq DOMAIN rows /\ leased \subseteq DOMAIN rows
    /\ pub \in [Publishers -> [batch : SUBSET (DOMAIN rows), row : DOMAIN rows \cup {None}]]
    /\ stream \in Seq([ev : Events, n : 0 .. MaxDeliver,
                       st : {"ready", "sent", "done", "term"}])
    /\ Len(stream) <= MaxEvents + MaxForgotten
    /\ window \subseteq Events /\ forgotten \in 0 .. MaxForgotten /\ dlq \subseteq Events
    /\ work \in [Workers -> [msg : DOMAIN stream \cup {None}, n : 0 .. MaxDeliver,
                             pc : {"idle", "zone", "global", "ack"}]]
    /\ score \in [Boards -> [Roles -> Nat]]

\* No board ever shows a level that the role has not durably reached.
ScoreIsEarned == \A b \in Boards, r \in Roles : score[b][r] <= level[r]

\* A row is marked only when its message is in the stream: a crash, an error or an
\* expired lease between the two never loses an event.
PublishedIsStored ==
    \A i \in published : \E m \in DOMAIN stream : stream[m].ev = rows[i]

\* The event has its effect on a board: the role has this score or a higher one, or the
\* board is full of others that have.
Ranked(b, e) ==
    \/ score[b][e[1]] >= e[2]
    \/ Cardinality({q \in Roles \ {e[1]} : score[b][q] >= e[2]}) >= Cap

\* SubscribeDurable: "Messages are acknowledged only after handler succeeds".  An
\* acknowledged event stays visible on both boards, whatever older or repeated events
\* are written later and whatever the trimming removes.
AckedIsRanked ==
    \A m \in DOMAIN stream :
        stream[m].st = "done" => \A b \in Boards : Ranked(b, stream[m].ev)

\* ZADD GT: late and repeated events never lower a score; only trimming removes it.
ScoreNeverDrops ==
    [][\A b \in Boards, r \in Roles : score'[b][r] >= score[b][r] \/ score'[b][r] = 0]_vars

\* All deliveries are used up, nobody is working on the message and it was neither
\* acknowledged nor terminated: JetStream will not deliver it again.
Exhausted(m) ==
    /\ stream[m].n = MaxDeliver
    /\ stream[m].st = "ready"
    /\ \A w \in Workers : work[w].msg # m

\* Outbox and durable consumer together: every committed event ends on both boards, in
\* the dead letters, or with its deliveries used up.
Settled(e) ==
    \/ \A b \in Boards : Ranked(b, e)
    \/ e \in dlq
    \/ \E m \in DOMAIN stream : stream[m].ev = e /\ Exhausted(m)
EveryEventSettles ==
    \A i \in Rows : (i \in DOMAIN rows) ~> (i \in DOMAIN rows /\ Settled(rows[i]))

\* docs/architecture-scale.md: a failed message is NAKed and goes to the dead letters
\* when its deliveries are used up.  No event is dropped without a trace.
ExhaustedIsDeadLettered ==
    \A m \in DOMAIN stream :
        Exhausted(m) => \/ stream[m].ev \in dlq
                        \/ \A b \in Boards : Ranked(b, stream[m].ev)
=============================================================================
