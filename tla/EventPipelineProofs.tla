------------------------- MODULE EventPipelineProofs ------------------------
(***************************************************************************)
(* The rank events for every number of roles, publishers, workers and      *)
(* deliveries: a published row is in the stream, a score was earned, and   *)
(* an acknowledged event stays on the boards.                              *)
(***************************************************************************)
EXTENDS EventPipeline, FiniteSetTheorems, TLAPS

USE PipelineAssumption, RolesAssumption

Message == [ev : Events, n : 0 .. MaxDeliver, st : {"ready", "sent", "done", "term"}]
Labels == {"idle", "zone", "global", "ack"}

-----------------------------------------------------------------------------
(* The inductive invariant, in parts.                                      *)

\* TypeOK without the bound on the stream, and a worker at work has a message.
Shapes ==
    /\ level \in [Roles -> Nat]
    /\ rows \in Seq(Events) /\ Len(rows) <= MaxEvents
    /\ published \subseteq DOMAIN rows /\ leased \subseteq DOMAIN rows
    /\ pub \in [Publishers -> [batch : SUBSET (DOMAIN rows), row : DOMAIN rows \cup {None}]]
    /\ stream \in Seq(Message)
    /\ window \subseteq Events /\ forgotten \in 0 .. MaxForgotten /\ dlq \subseteq Events
    /\ work \in [Workers -> [msg : DOMAIN stream \cup {None}, n : 0 .. MaxDeliver, pc : Labels]]
    /\ \A w \in Workers : work[w].pc # "idle" => work[w].msg \in DOMAIN stream
    /\ score \in [Boards -> [Roles -> Nat]]

\* A message was stored for each event that entered the duplicate window, and
\* only events of the outbox did.
WindowCounts ==
    /\ IsFiniteSet(window)
    /\ Len(stream) = Cardinality(window) + forgotten
    /\ \A e \in window : \E i \in DOMAIN rows : rows[i] = e

\* The level of a row was committed with the row.
RowsEarned == \A i \in DOMAIN rows : rows[i][2] > 0 /\ rows[i][2] <= level[rows[i][1]]

\* Every message is one of the outbox.
StreamOfRows == \A m \in DOMAIN stream : \E i \in DOMAIN rows : rows[i] = stream[m].ev

Stored(e) == \E m \in DOMAIN stream : stream[m].ev = e

\* What the window suppresses, and what a publisher is about to mark, is stored.
WindowStored == \A e \in window : Stored(e)
MarkingStored == \A p \in Publishers : pub[p].row # None => Stored(rows[pub[p].row])

\* A handler past a board has had its effect there.
HandledIsRanked ==
    \A w \in Workers :
        /\ work[w].pc \in {"global", "ack"} => Ranked("zone", stream[work[w].msg].ev)
        /\ work[w].pc = "ack" => Ranked("global", stream[work[w].msg].ev)

PipelineInv ==
    /\ Shapes /\ WindowCounts /\ RowsEarned /\ StreamOfRows /\ WindowStored /\ MarkingStored
    /\ ScoreIsEarned /\ PublishedIsStored /\ HandledIsRanked /\ AckedIsRanked

-----------------------------------------------------------------------------
(* Sequences that grow at the end, and sequences that are updated.         *)

\* A longer sequence keeps what it had.
LEMMA Appended ==
  ASSUME NEW S, NEW s \in Seq(S), NEW x \in S
  PROVE  /\ Append(s, x) \in Seq(S)
         /\ Len(Append(s, x)) = Len(s) + 1
         /\ DOMAIN Append(s, x) = DOMAIN s \cup {Len(s) + 1}
         /\ \A i \in DOMAIN s : Append(s, x)[i] = s[i]
         /\ Append(s, x)[Len(s) + 1] = x
  OBVIOUS

\* A message that is overwritten leaves the sequence as long as it was.
LEMMA Updated ==
  ASSUME NEW S, NEW s \in Seq(S), NEW m \in DOMAIN s, NEW x \in S
  PROVE  LET t == [s EXCEPT ![m] = x] IN
         /\ t \in Seq(S)
         /\ Len(t) = Len(s) /\ DOMAIN t = DOMAIN s
         /\ t[m] = x
         /\ \A i \in DOMAIN s \ {m} : t[i] = s[i]
  OBVIOUS

-----------------------------------------------------------------------------
(* What every step does to the outbox and the stream.                      *)

WorkType(n) == [Workers -> [msg : n \cup {None}, n : 0 .. MaxDeliver, pc : Labels]]
PubType(n) == [Publishers -> [batch : SUBSET n, row : n \cup {None}]]

RowsGrow ==
    /\ rows' \in Seq(Events)
    /\ DOMAIN rows \subseteq DOMAIN rows'
    /\ \A i \in DOMAIN rows : rows'[i] = rows[i]

StreamGrows ==
    /\ stream' \in Seq(Message)
    /\ DOMAIN stream \subseteq DOMAIN stream'
    /\ \A m \in DOMAIN stream : stream'[m].ev = stream[m].ev

\* A message becomes acknowledged only by the worker that is through with it.
AcksOnly(W) ==
    \A m \in DOMAIN stream' : stream'[m].st = "done" =>
        /\ m \in DOMAIN stream
        /\ stream[m].st = "done" \/ \E w \in W : work[w].pc = "ack" /\ work[w].msg = m

States == {"ready", "sent", "done", "term"}

\* The fields of a message, and what changing them makes.
LEMMA MessageFields ==
  ASSUME Shapes, NEW m \in DOMAIN stream
  PROVE  /\ stream[m] \in Message
         /\ stream[m].ev \in Events /\ stream[m].n \in 0 .. MaxDeliver /\ stream[m].st \in States
  <1>1. stream[m] \in Message
    BY DEF Shapes
  <1> QED BY <1>1 DEF Message, States

\* JetStream gives a message another state.
LEMMA StateSet ==
  ASSUME Shapes, NEW m \in DOMAIN stream, NEW y \in States
  PROVE  [stream EXCEPT ![m].st = y]
            = [stream EXCEPT ![m] = [ev |-> stream[m].ev, n |-> stream[m].n, st |-> y]]
  <1>1. stream[m] \in Message
    BY MessageFields
  <1>2. [stream[m] EXCEPT !.st = y] = [ev |-> stream[m].ev, n |-> stream[m].n, st |-> y]
    BY <1>1 DEF Message
  <1> QED BY <1>2

\* A delivery counts and changes the state.
LEMMA CountAndStateSet ==
  ASSUME Shapes, NEW m \in DOMAIN stream, NEW k \in 0 .. MaxDeliver, NEW y \in States
  PROVE  [stream EXCEPT ![m].n = k, ![m].st = y]
            = [stream EXCEPT ![m] = [ev |-> stream[m].ev, n |-> k, st |-> y]]
  <1>1. stream[m] \in Message /\ stream \in Seq(Message)
    BY MessageFields DEF Shapes
  <1> DEFINE x == [stream[m] EXCEPT !.n = k]
  <1>2. x \in Message /\ x.ev = stream[m].ev /\ x.n = k
    BY <1>1 DEF Message
  <1>3. [x EXCEPT !.st = y] = [ev |-> stream[m].ev, n |-> k, st |-> y]
    <2> HIDE DEF x
    <2> QED BY <1>2 DEF Message
  <1>4. [stream EXCEPT ![m].n = k, ![m].st = y]
          = [[stream EXCEPT ![m] = x] EXCEPT ![m] = [[stream EXCEPT ![m] = x][m] EXCEPT !.st = y]]
    OBVIOUS
  <1> HIDE DEF x
  <1>5. [stream EXCEPT ![m] = x][m] = x
    BY <1>1
  <1> DEFINE z == [ev |-> stream[m].ev, n |-> k, st |-> y]
  <1>6. [stream EXCEPT ![m].n = k, ![m].st = y] = [[stream EXCEPT ![m] = x] EXCEPT ![m] = z]
    BY <1>3, <1>4, <1>5
  <1> HIDE DEF z
  <1>7. [[stream EXCEPT ![m] = x] EXCEPT ![m] = z] = [stream EXCEPT ![m] = z]
    BY <1>1
  <1> QED BY <1>6, <1>7 DEF z

\* A message that changes its state keeps its event.
LEMMA MessageSet ==
  ASSUME Shapes, NEW m \in DOMAIN stream, NEW x \in Message, x.ev = stream[m].ev,
         stream' = [stream EXCEPT ![m] = x]
  PROVE  /\ StreamGrows /\ DOMAIN stream' = DOMAIN stream
         /\ x.st # "done" => AcksOnly({})
         /\ \A w \in Workers : work[w].pc = "ack" /\ work[w].msg = m => AcksOnly({w})
  <1>1. stream \in Seq(Message)
    BY DEF Shapes
  <1>2. /\ stream' \in Seq(Message) /\ DOMAIN stream' = DOMAIN stream
        /\ stream'[m] = x /\ \A i \in DOMAIN stream \ {m} : stream'[i] = stream[i]
    BY <1>1, Updated
  <1> QED BY <1>2 DEF StreamGrows, AcksOnly

\* An acknowledgement by nobody is one by anybody.
LEMMA AcksMore ==
  ASSUME NEW W, AcksOnly({})
  PROVE  AcksOnly(W)
  BY DEF AcksOnly

\* Nothing happens to the stream.
LEMMA StreamSame ==
  ASSUME Shapes, UNCHANGED stream
  PROVE  StreamGrows /\ AcksOnly({})
  BY DEF Shapes, StreamGrows, AcksOnly

\* SaveWithOutbox appends a row with the level that it commits.
LEMMA ProducerStep ==
  ASSUME Shapes, NEW r \in Roles, SaveWithOutbox(r)
  PROVE  /\ Shapes' /\ RowsGrow
         /\ DOMAIN rows' = DOMAIN rows \cup {Len(rows) + 1}
         /\ rows'[Len(rows) + 1] = <<r, level[r] + 1>>
         /\ level' = [level EXCEPT ![r] = @ + 1]
         /\ UNCHANGED <<published, leased, pub, mqVars, work, score>>
  <1>1. level \in [Roles -> Nat] /\ rows \in Seq(Events)
    BY DEF Shapes
  <1>2. <<r, level[r] + 1>> \in Events
    BY <1>1 DEF Events
  <1>3. rows' = Append(rows, <<r, level[r] + 1>>) /\ level' = [level EXCEPT ![r] = @ + 1]
    BY DEF SaveWithOutbox
  <1>4. /\ RowsGrow
        /\ Len(rows') = Len(rows) + 1
        /\ DOMAIN rows' = DOMAIN rows \cup {Len(rows) + 1}
        /\ rows'[Len(rows) + 1] = <<r, level[r] + 1>>
    BY <1>1, <1>2, <1>3, Appended DEF RowsGrow
  <1>5. Len(rows') <= MaxEvents
    BY <1>4, <1>1 DEF SaveWithOutbox
  <1>6. level' \in [Roles -> Nat]
    BY <1>1, <1>3
  <1>7. PubType(DOMAIN rows) \subseteq PubType(DOMAIN rows')
    BY <1>4 DEF PubType, RowsGrow
  <1>8. UNCHANGED <<published, leased, pub, mqVars, work, score>>
    BY DEF SaveWithOutbox
  <1> QED BY <1>3, <1>4, <1>5, <1>6, <1>7, <1>8 DEF Shapes, PubType, mqVars, RowsGrow

\* A step of a publisher.
LEMMA PublisherShapes ==
  ASSUME Shapes, NEW p \in Publishers, PublisherStep(p)
  PROVE  Shapes' /\ StreamGrows /\ AcksOnly({})
  <1>1. CASE ReserveOutbox(p)
    BY <1>1, StreamSame DEF ReserveOutbox, Shapes, Leasable, mqVars, Resting
  <1>2. ASSUME NEW i \in DOMAIN rows, Publish(p, i)
        PROVE  Shapes' /\ StreamGrows /\ AcksOnly({})
    <2> DEFINE x == [ev |-> rows[i], n |-> 0, st |-> "ready"]
    <2>1. rows[i] \in Events
      BY DEF Shapes
    <2>2. x \in Message
      BY <2>1 DEF Message
    <2>3. StreamGrows /\ AcksOnly({})
      <3>1. CASE rows[i] \in window
        BY <1>2, <3>1, StreamSame DEF Publish
      <3>2. CASE rows[i] \notin window
        <4>1. stream \in Seq(Message) /\ stream' = Append(stream, x)
          BY <1>2, <3>2 DEF Publish, Shapes
        <4>2. StreamGrows
          BY <2>2, <4>1, Appended DEF StreamGrows
        <4>3. \A m \in DOMAIN stream' : \/ m \in DOMAIN stream /\ stream'[m] = stream[m]
                                       \/ stream'[m].st = "ready"
          BY <2>2, <4>1, Appended
        <4> QED BY <4>2, <4>3 DEF AcksOnly
      <3> QED BY <3>1, <3>2
    <2>4. work' \in WorkType(DOMAIN stream')
      BY <1>2, <2>3 DEF Publish, Shapes, WorkType, StreamGrows
    <2>5. pub' \in PubType(DOMAIN rows)
      BY ZenonT(90), <1>2 DEF Publish, Shapes, PubType
    <2> QED BY <1>2, <2>1, <2>3, <2>4, <2>5
            DEF Publish, Shapes, dbVars, WorkType, PubType, StreamGrows
  <1>3. CASE MarkOutboxPublished(p)
    BY <1>3, StreamSame DEF MarkOutboxPublished, Shapes, mqVars
  <1>4. CASE AbandonBatch(p)
    BY <1>4, StreamSame DEF AbandonBatch, Shapes, mqVars, dbVars, Resting
  <1> QED BY <1>1, <1>2, <1>3, <1>4 DEF PublisherStep

\* A step that changes one message and one worker.
LEMMA AnswerShapes ==
  ASSUME Shapes, NEW w \in Workers, StreamGrows, DOMAIN stream' = DOMAIN stream,
         work' = [work EXCEPT ![w] = NoWork], dlq' \subseteq Events,
         UNCHANGED <<dbVars, pub, window, forgotten, score>>
  PROVE  Shapes'
  <1>1. NoWork \in [msg : DOMAIN stream \cup {None}, n : 0 .. MaxDeliver, pc : Labels]
    BY DEF NoWork, Labels
  <1>2. work' \in WorkType(DOMAIN stream)
    BY <1>1 DEF Shapes, WorkType
  <1>3. \A v \in Workers : work'[v].pc # "idle" => work'[v].msg \in DOMAIN stream
    BY DEF Shapes, NoWork
  <1> QED BY <1>2, <1>3 DEF Shapes, StreamGrows, dbVars, WorkType

\* A step of a worker.
LEMMA WorkerShapes ==
  ASSUME Shapes, NEW w \in Workers, WorkerStep(w)
  PROVE  Shapes' /\ StreamGrows /\ AcksOnly({w}) /\ DOMAIN stream' = DOMAIN stream
  <1> DEFINE k == work[w].msg
  <1>0. stream \in Seq(Message) /\ dlq \subseteq Events
    BY DEF Shapes
  <1>1. ASSUME NEW m \in DOMAIN stream, Deliver(w, m)
        PROVE  Shapes' /\ StreamGrows /\ AcksOnly({w}) /\ DOMAIN stream' = DOMAIN stream
    <2> DEFINE x == [ev |-> stream[m].ev, n |-> stream[m].n + 1, st |-> "sent"]
    <2>0. stream[m].ev \in Events /\ stream[m].n \in 0 .. MaxDeliver
      BY MessageFields
    <2>1. stream[m].n + 1 \in 0 .. MaxDeliver /\ x \in Message
      BY <1>1, <2>0 DEF Deliver, Message
    <2>2. stream' = [stream EXCEPT ![m] = x]
      BY <1>1, <2>1, CountAndStateSet DEF Deliver, States
    <2>3. StreamGrows /\ AcksOnly({w}) /\ DOMAIN stream' = DOMAIN stream
      <3> HIDE DEF x
      <3>1. x.ev = stream[m].ev /\ x.st # "done"
        BY DEF x
      <3> QED BY <2>1, <2>2, <3>1, MessageSet, AcksMore
    <2>4. work' \in WorkType(DOMAIN stream)
      BY <1>1, <2>1 DEF Deliver, Shapes, WorkType, Labels
    <2>5. \A v \in Workers : work'[v].pc # "idle" => work'[v].msg \in DOMAIN stream
      BY <1>1 DEF Deliver, Shapes
    <2> QED BY <1>1, <2>3, <2>4, <2>5 DEF Deliver, Shapes, StreamGrows, dbVars, WorkType
  <1>2. CASE WriteScore(w)
    <2>0. k \in DOMAIN stream
      BY <1>2 DEF WriteScore, Shapes
    <2>1. stream[k].ev \in Events
      BY <2>0, MessageFields
    <2>2. PICK b \in Boards : RaiseScore(b, stream[k].ev)
      BY <1>2 DEF WriteScore, Boards
    <2>3. score' \in [Boards -> [Roles -> Nat]]
      <3>1. stream[k].ev[1] \in Roles /\ stream[k].ev[2] \in Nat
        BY <2>1 DEF Events
      <3> QED BY <2>2, <3>1 DEF RaiseScore, Shapes
    <2>4. work' \in WorkType(DOMAIN stream) /\ UNCHANGED <<dbVars, pub, mqVars>>
      BY ZenonT(30), <1>2 DEF WriteScore, Shapes, WorkType, Labels
    <2>5. \A v \in Workers : work'[v].pc # "idle" => work'[v].msg \in DOMAIN stream
      <3>1. PICK l \in Labels : work' = [work EXCEPT ![w].pc = l]
        BY <1>2 DEF WriteScore, Labels
      <3>2. work \in WorkType(DOMAIN stream)
        BY DEF Shapes, WorkType
      <3>3. \A v \in Workers : work'[v].msg = work[v].msg /\ (v # w => work'[v].pc = work[v].pc)
        BY <3>1, <3>2 DEF WorkType
      <3> QED BY <2>0, <3>3 DEF Shapes
    <2>6. StreamGrows /\ AcksOnly({w})
      BY <2>4, StreamSame, AcksMore DEF mqVars
    <2> QED BY <2>3, <2>4, <2>5, <2>6 DEF Shapes, dbVars, mqVars, WorkType
  <1>3. CASE Ack(w)
    <2> DEFINE x == [ev |-> stream[k].ev, n |-> stream[k].n, st |-> "done"]
    <2>0. k \in DOMAIN stream
      BY <1>3 DEF Ack, Shapes
    <2>5. stream[k].ev \in Events /\ stream[k].n \in 0 .. MaxDeliver
      BY <2>0, MessageFields
    <2>1. x \in Message
      BY <2>5 DEF Message
    <2>2. stream' = [stream EXCEPT ![k] = x]
      BY <1>3, <2>0, StateSet DEF Ack, States
    <2>3. StreamGrows /\ AcksOnly({w}) /\ DOMAIN stream' = DOMAIN stream
      <3> HIDE DEF x
      <3>1. x.ev = stream[k].ev
        BY DEF x
      <3> QED BY <1>3, <2>0, <2>1, <2>2, <3>1, MessageSet DEF Ack
    <2> QED BY <1>0, <1>3, <2>3, AnswerShapes DEF Ack
  <1>4. CASE Nak(w)
    <2> DEFINE x == [ev |-> stream[k].ev, n |-> stream[k].n, st |-> "ready"]
    <2>0. k \in DOMAIN stream
      BY <1>4 DEF Nak, Shapes
    <2>5. stream[k].ev \in Events /\ stream[k].n \in 0 .. MaxDeliver
      BY <2>0, MessageFields
    <2>1. x \in Message
      BY <2>5 DEF Message
    <2>2. stream' = stream \/ stream' = [stream EXCEPT ![k] = x]
      BY <1>4, <2>0, StateSet DEF Nak, States
    <2>3. StreamGrows /\ AcksOnly({w}) /\ DOMAIN stream' = DOMAIN stream
      <3> HIDE DEF x
      <3>1. x.ev = stream[k].ev /\ x.st # "done"
        BY DEF x
      <3> QED BY <2>0, <2>1, <2>2, <3>1, MessageSet, StreamSame, AcksMore
    <2> QED BY <1>0, <1>4, <2>3, AnswerShapes DEF Nak
  <1>5. CASE DeadLetter(w)
    <2> DEFINE x == [ev |-> stream[k].ev, n |-> stream[k].n, st |-> "term"]
    <2>0. k \in DOMAIN stream
      BY <1>5 DEF DeadLetter, Shapes
    <2>5. stream[k].ev \in Events /\ stream[k].n \in 0 .. MaxDeliver
      BY <2>0, MessageFields
    <2>1. x \in Message
      BY <2>5 DEF Message
    <2>2. stream' = stream \/ stream' = [stream EXCEPT ![k] = x]
      BY <1>5, <2>0, StateSet DEF DeadLetter, States
    <2>3. StreamGrows /\ AcksOnly({w}) /\ DOMAIN stream' = DOMAIN stream
      <3> HIDE DEF x
      <3>1. x.ev = stream[k].ev /\ x.st # "done"
        BY DEF x
      <3> QED BY <2>0, <2>1, <2>2, <3>1, MessageSet, StreamSame, AcksMore
    <2>4. dlq' \subseteq Events
      BY <1>0, <1>5, <2>0, MessageFields DEF DeadLetter
    <2> QED BY <1>5, <2>3, <2>4, AnswerShapes DEF DeadLetter
  <1>6. CASE DeadLetterLost(w) \/ Silent(w)
    <2>1. /\ work' = [work EXCEPT ![w] = NoWork]
          /\ UNCHANGED <<dbVars, pub, mqVars, score>>
      BY <1>6 DEF DeadLetterLost, Silent
    <2>2. StreamGrows /\ AcksOnly({w}) /\ DOMAIN stream' = DOMAIN stream
      BY <2>1, StreamSame, AcksMore DEF mqVars
    <2> QED BY <1>0, <2>1, <2>2, AnswerShapes DEF mqVars
  <1> QED BY <1>1, <1>2, <1>3, <1>4, <1>5, <1>6 DEF WorkerStep

\* Time that passes, and the trimming.
LEMMA TimeShapes ==
  ASSUME Shapes, Time \/ \E b \in Boards : Trim(b)
  PROVE  Shapes' /\ StreamGrows /\ AcksOnly({}) /\ DOMAIN stream' = DOMAIN stream
  <1>0. stream \in Seq(Message)
    BY DEF Shapes
  <1>1. ASSUME NEW i \in leased, LeaseExpires(i)
        PROVE  Shapes' /\ UNCHANGED stream
    BY <1>1 DEF LeaseExpires, Shapes, mqVars
  <1>2. ASSUME NEW e \in window, WindowExpires(e)
        PROVE  Shapes' /\ UNCHANGED stream
    BY <1>2 DEF WindowExpires, Shapes, dbVars
  <1>3. ASSUME NEW m \in DOMAIN stream, AckWaitExpires(m)
        PROVE  Shapes' /\ StreamGrows /\ AcksOnly({}) /\ DOMAIN stream' = DOMAIN stream
    <2> DEFINE x == [ev |-> stream[m].ev, n |-> stream[m].n, st |-> "ready"]
    <2>0. stream[m].ev \in Events /\ stream[m].n \in 0 .. MaxDeliver
      BY MessageFields
    <2>1. x \in Message
      BY <2>0 DEF Message
    <2>2. stream' = [stream EXCEPT ![m] = x]
      BY <1>3, StateSet DEF AckWaitExpires, States
    <2>3. StreamGrows /\ AcksOnly({}) /\ DOMAIN stream' = DOMAIN stream
      <3> HIDE DEF x
      <3>1. x.ev = stream[m].ev /\ x.st # "done"
        BY DEF x
      <3> QED BY <2>1, <2>2, <3>1, MessageSet
    <2> QED BY <1>3, <2>3 DEF AckWaitExpires, Shapes, StreamGrows, dbVars
  <1>4. ASSUME NEW b \in Boards, Trim(b)
        PROVE  Shapes' /\ UNCHANGED stream
    <2>1. score' \in [Boards -> [Roles -> Nat]]
      BY <1>4 DEF Trim, Shapes
    <2> QED BY <1>4, <2>1 DEF Trim, Shapes, dbVars, mqVars
  <1> QED BY <1>1, <1>2, <1>3, <1>4, StreamSame DEF Time

-----------------------------------------------------------------------------
(* The stream is as long as the window and what has left it say.           *)

\* An event enters the window with its message.
LEMMA PublishCounts ==
  ASSUME Shapes, WindowCounts, NEW p \in Publishers, NEW i \in DOMAIN rows, Publish(p, i)
  PROVE  WindowCounts'
  <1>1. window' = window \cup {rows[i]} /\ UNCHANGED <<rows, forgotten>>
    BY DEF Publish, dbVars
  <1>2. /\ IsFiniteSet(window')
        /\ Cardinality(window') = IF rows[i] \in window THEN Cardinality(window)
                                  ELSE Cardinality(window) + 1
    BY <1>1, FS_AddElement DEF WindowCounts
  <1>3. Cardinality(window) \in Nat /\ forgotten \in Nat
    BY FS_CardinalityType DEF WindowCounts, Shapes
  <1>4. Len(stream') = IF rows[i] \in window THEN Len(stream) ELSE Len(stream) + 1
    BY DEF Publish, Shapes
  <1>5. \A e \in window' : \E j \in DOMAIN rows : rows[j] = e
    BY <1>1 DEF WindowCounts
  <1> QED BY <1>1, <1>2, <1>3, <1>4, <1>5 DEF WindowCounts

\* An event that leaves the window is counted.
LEMMA ForgetCounts ==
  ASSUME Shapes, WindowCounts, NEW e \in window, WindowExpires(e)
  PROVE  WindowCounts'
  <1>1. /\ window' = window \ {e} /\ forgotten' = forgotten + 1
        /\ UNCHANGED <<rows, stream>>
    BY DEF WindowExpires, dbVars
  <1>2. IsFiniteSet(window') /\ Cardinality(window') = Cardinality(window) - 1
    BY <1>1, FS_RemoveElement DEF WindowCounts
  <1>3. Cardinality(window) \in Nat /\ forgotten \in Nat
    BY FS_CardinalityType DEF WindowCounts, Shapes
  <1> QED BY <1>1, <1>2, <1>3 DEF WindowCounts

\* The events in the window are those of different rows.
LEMMA StreamBounded ==
  ASSUME Shapes, WindowCounts
  PROVE  Len(stream) <= MaxEvents + MaxForgotten
  <1> DEFINE D == {j \in DOMAIN rows : rows[j] \in window}
             f == [j \in D |-> rows[j]]
  <1>1. f \in Surjection(D, window)
    BY DEF WindowCounts, Surjection
  <1>2. Len(rows) \in Nat /\ DOMAIN rows = 1 .. Len(rows)
    BY DEF Shapes
  <1>3. IsFiniteSet(DOMAIN rows) /\ Cardinality(DOMAIN rows) = Len(rows)
    <2>1. /\ IsFiniteSet(1 .. Len(rows))
          /\ Cardinality(1 .. Len(rows)) = IF 1 > Len(rows) THEN 0 ELSE Len(rows) - 1 + 1
      BY <1>2, FS_Interval
    <2> QED BY <1>2, <2>1
  <1>4. IsFiniteSet(D) /\ Cardinality(D) <= Cardinality(DOMAIN rows)
    BY <1>3, FS_Subset
  <1>5. Cardinality(window) <= Cardinality(D)
    BY <1>1, <1>4, FS_Surjection
  <1>6. Cardinality(window) \in Nat /\ Cardinality(D) \in Nat
    BY <1>4, FS_CardinalityType DEF WindowCounts
  <1> QED BY <1>2, <1>3, <1>4, <1>5, <1>6 DEF WindowCounts, Shapes

-----------------------------------------------------------------------------
(* Every step.                                                             *)

LevelsGrow == \A r \in Roles : level'[r] \in Nat /\ level[r] <= level'[r]

\* A publish stores the row's event or finds it in the window.
LEMMA PublishStores ==
  ASSUME Shapes, WindowStored, NEW p \in Publishers, NEW i \in DOMAIN rows, Publish(p, i)
  PROVE  /\ Stored(rows[i])'
         /\ \A m \in DOMAIN stream' : m \in DOMAIN stream \/ stream'[m].ev = rows[i]
  <1>1. CASE rows[i] \in window
    BY <1>1 DEF Publish, WindowStored, Stored, dbVars
  <1>2. CASE rows[i] \notin window
    <2> DEFINE x == [ev |-> rows[i], n |-> 0, st |-> "ready"]
    <2>1. stream' = Append(stream, x) /\ UNCHANGED rows
      BY <1>2 DEF Publish, dbVars
    <2>2. rows[i] \in Events /\ stream \in Seq(Message)
      BY DEF Shapes
    <2>3. x \in Message
      BY <2>2 DEF Message
    <2>4. x.ev = rows[i]
      OBVIOUS
    <2> HIDE DEF x
    <2>5. stream'[Len(stream) + 1] = x /\ DOMAIN stream' = DOMAIN stream \cup {Len(stream) + 1}
      BY <2>1, <2>2, <2>3, Appended
    <2> QED BY <2>1, <2>4, <2>5 DEF Stored
  <1> QED BY <1>1, <1>2

\* Rows, messages and levels are never taken back.
LEMMA Growth ==
  ASSUME Shapes, [Next]_vars
  PROVE  Shapes' /\ RowsGrow /\ StreamGrows /\ LevelsGrow /\ AcksOnly(Workers)
  <1>1. ASSUME NEW r \in Roles, SaveWithOutbox(r)
        PROVE  Shapes' /\ RowsGrow /\ StreamGrows /\ LevelsGrow /\ AcksOnly(Workers)
    <2>1. level \in [Roles -> Nat] /\ level' = [level EXCEPT ![r] = @ + 1]
      BY <1>1 DEF Shapes, SaveWithOutbox
    <2>2. LevelsGrow
      BY <2>1 DEF LevelsGrow
    <2>3. UNCHANGED stream
      BY <1>1 DEF SaveWithOutbox, mqVars
    <2> QED BY <1>1, <2>2, <2>3, ProducerStep, StreamSame, AcksMore
  <1>2. ASSUME UNCHANGED <<level, rows>>
        PROVE  RowsGrow /\ LevelsGrow
    BY <1>2 DEF Shapes, RowsGrow, LevelsGrow
  <1>3. ASSUME NEW p \in Publishers, PublisherStep(p)
        PROVE  Shapes' /\ RowsGrow /\ StreamGrows /\ LevelsGrow /\ AcksOnly(Workers)
    <2>1. UNCHANGED <<level, rows>>
      BY <1>3 DEF PublisherStep, ReserveOutbox, Publish, MarkOutboxPublished, AbandonBatch, dbVars
    <2> QED BY <1>2, <1>3, <2>1, PublisherShapes, AcksMore
  <1>4. ASSUME NEW w \in Workers, WorkerStep(w)
        PROVE  Shapes' /\ RowsGrow /\ StreamGrows /\ LevelsGrow /\ AcksOnly(Workers)
    <2>1. UNCHANGED <<level, rows>>
      BY <1>4 DEF WorkerStep, Deliver, WriteScore, Ack, Nak, DeadLetter, DeadLetterLost, Silent,
                  dbVars
    <2>2. AcksOnly(Workers)
      BY <1>4, WorkerShapes DEF AcksOnly
    <2> QED BY <1>2, <1>4, <2>1, <2>2, WorkerShapes
  <1>5. CASE Time \/ \E b \in Boards : Trim(b)
    <2>1. UNCHANGED <<level, rows>>
      BY <1>5 DEF Time, LeaseExpires, WindowExpires, AckWaitExpires, Trim, dbVars
    <2> QED BY <1>2, <1>5, <2>1, TimeShapes, AcksMore
  <1>6. CASE UNCHANGED vars
    <2>1. UNCHANGED <<level, rows, stream>> /\ Shapes'
      BY <1>6 DEF Shapes, vars, dbVars, mqVars
    <2> QED BY <1>2, <2>1, StreamSame, AcksMore
  <1> QED BY <1>1, <1>3, <1>4, <1>5, <1>6 DEF Next

\* The window and the stream count the same.
LEMMA CountsStep ==
  ASSUME Shapes, WindowCounts, [Next]_vars
  PROVE  WindowCounts'
  <1>1. RowsGrow
    BY Growth
  <1>2. ASSUME UNCHANGED <<window, forgotten>>, Len(stream') = Len(stream)
        PROVE  WindowCounts'
    BY <1>1, <1>2 DEF WindowCounts, RowsGrow
  <1>3. ASSUME DOMAIN stream' = DOMAIN stream, StreamGrows
        PROVE  Len(stream') = Len(stream)
    BY <1>3 DEF Shapes, StreamGrows
  <1>4. ASSUME NEW r \in Roles, SaveWithOutbox(r)
        PROVE  WindowCounts'
    BY <1>2, <1>4 DEF SaveWithOutbox, mqVars
  <1>5. ASSUME NEW p \in Publishers, PublisherStep(p)
        PROVE  WindowCounts'
    <2>1. ASSUME NEW i \in DOMAIN rows, Publish(p, i)
          PROVE  WindowCounts'
      BY <2>1, PublishCounts
    <2>2. CASE ReserveOutbox(p) \/ MarkOutboxPublished(p) \/ AbandonBatch(p)
      BY <1>2, <2>2 DEF ReserveOutbox, MarkOutboxPublished, AbandonBatch, mqVars
    <2> QED BY <1>5, <2>1, <2>2 DEF PublisherStep
  <1>6. ASSUME NEW w \in Workers, WorkerStep(w)
        PROVE  WindowCounts'
    <2>1. UNCHANGED <<window, forgotten>>
      BY <1>6 DEF WorkerStep, Deliver, WriteScore, Ack, Nak, DeadLetter, DeadLetterLost, Silent,
                  mqVars
    <2> QED BY <1>2, <1>3, <1>6, <2>1, WorkerShapes
  <1>7. ASSUME NEW e \in window, WindowExpires(e)
        PROVE  WindowCounts'
    BY <1>7, ForgetCounts
  <1>8. ASSUME NEW m \in DOMAIN stream, AckWaitExpires(m)
        PROVE  WindowCounts'
    <2>1. UNCHANGED <<window, forgotten>>
      BY <1>8 DEF AckWaitExpires
    <2> QED BY <1>2, <1>3, <1>8, <2>1, TimeShapes DEF Time
  <1>9. CASE (\E i \in leased : LeaseExpires(i)) \/ \E b \in Boards : Trim(b)
    BY <1>2, <1>9 DEF LeaseExpires, Trim, mqVars
  <1>10. CASE UNCHANGED vars
    BY <1>2, <1>10 DEF vars, mqVars
  <1> QED BY <1>4, <1>5, <1>6, <1>7, <1>8, <1>9, <1>10 DEF Next, Time

-----------------------------------------------------------------------------
(* Nothing is lost on the way into the stream.                             *)

\* A stored event stays stored.
LEMMA StaysStored ==
  ASSUME StreamGrows, NEW e, Stored(e)
  PROVE  Stored(e)'
  BY DEF StreamGrows, Stored

\* The levels of the rows were committed with them.
LEMMA EarnedStep ==
  ASSUME Shapes, RowsEarned, [Next]_vars
  PROVE  RowsEarned'
  <1>1. RowsGrow /\ LevelsGrow
    BY Growth
  <1>2. \A i \in DOMAIN rows : rows[i][1] \in Roles /\ rows[i][2] \in Nat
    BY DEF Shapes, Events
  <1>3. level \in [Roles -> Nat]
    BY DEF Shapes
  <1>4. \A i \in DOMAIN rows : rows'[i][2] > 0 /\ rows'[i][2] <= level'[rows'[i][1]]
    BY <1>1, <1>2, <1>3 DEF RowsEarned, RowsGrow, LevelsGrow
  <1>5. ASSUME NEW r \in Roles, SaveWithOutbox(r)
        PROVE  RowsEarned'
    <2>1. DOMAIN rows' = DOMAIN rows \cup {Len(rows) + 1}
      BY <1>5, ProducerStep
    <2>2. rows'[Len(rows) + 1] = <<r, level[r] + 1>> /\ level'[r] = level[r] + 1
      BY <1>3, <1>5, ProducerStep
    <2>3. level[r] + 1 > 0 /\ level[r] + 1 <= level'[r]
      BY <1>3, <2>2
    <2> QED BY <1>4, <2>1, <2>2, <2>3 DEF RowsEarned
  <1>6. CASE UNCHANGED rows
    BY <1>4, <1>6 DEF RowsEarned
  <1>7. (\E r \in Roles : SaveWithOutbox(r)) \/ UNCHANGED rows
    BY DEF Next, PublisherStep, ReserveOutbox, Publish, MarkOutboxPublished, AbandonBatch,
           WorkerStep, Deliver, WriteScore, Ack, Nak, DeadLetter, DeadLetterLost, Silent,
           Time, LeaseExpires, WindowExpires, AckWaitExpires, Trim, vars, dbVars
  <1> QED BY <1>5, <1>6, <1>7

\* What a step that does not publish leaves alone.
LEMMA OnlyPublish ==
  ASSUME Shapes, [Next]_vars
  PROVE  \/ \E p \in Publishers, i \in DOMAIN rows : Publish(p, i)
         \/ DOMAIN stream' = DOMAIN stream /\ window' \subseteq window
  <1>1. CASE \E w \in Workers : WorkerStep(w)
    <2>1. UNCHANGED window
      BY <1>1 DEF WorkerStep, Deliver, WriteScore, Ack, Nak, DeadLetter, DeadLetterLost, Silent,
                  mqVars
    <2> QED BY <1>1, <2>1, WorkerShapes
  <1>2. CASE Time \/ \E b \in Boards : Trim(b)
    <2>1. window' \subseteq window
      BY <1>2 DEF Time, LeaseExpires, WindowExpires, AckWaitExpires, Trim, mqVars
    <2> QED BY <1>2, <2>1, TimeShapes
  <1>3. CASE UNCHANGED vars
    BY <1>3 DEF vars, mqVars
  <1>4. CASE \E r \in Roles : SaveWithOutbox(r)
    BY <1>4 DEF SaveWithOutbox, mqVars
  <1>5. CASE \E p \in Publishers : PublisherStep(p)
    BY <1>5 DEF PublisherStep, ReserveOutbox, MarkOutboxPublished, AbandonBatch, mqVars
  <1> QED BY <1>1, <1>2, <1>3, <1>4, <1>5 DEF Next

\* Messages are of rows, and what the window suppresses is stored.
LEMMA StreamStep ==
  ASSUME Shapes, StreamOfRows, WindowStored, [Next]_vars
  PROVE  StreamOfRows' /\ WindowStored'
  <1>1. RowsGrow /\ StreamGrows
    BY Growth
  <1>2. \A m \in DOMAIN stream : \E i \in DOMAIN rows' : rows'[i] = stream'[m].ev
    BY <1>1 DEF StreamOfRows, RowsGrow, StreamGrows
  <1>3. \A e \in window : Stored(e)'
    BY <1>1, StaysStored DEF WindowStored
  <1>4. ASSUME NEW p \in Publishers, NEW i \in DOMAIN rows, Publish(p, i)
        PROVE  StreamOfRows' /\ WindowStored'
    <2>1. Stored(rows[i])' /\ \A m \in DOMAIN stream' : m \in DOMAIN stream \/ stream'[m].ev = rows[i]
      BY <1>4, PublishStores
    <2>2. UNCHANGED rows /\ window' = window \cup {rows[i]}
      BY <1>4 DEF Publish, dbVars
    <2>3. Stored(rows[i])' = \E m \in DOMAIN stream' : stream'[m].ev = rows[i]
      BY <2>2 DEF Stored
    <2> QED BY <1>2, <1>3, <2>1, <2>2, <2>3 DEF StreamOfRows, WindowStored, Stored
  <1>5. CASE DOMAIN stream' = DOMAIN stream /\ window' \subseteq window
    BY <1>2, <1>3, <1>5 DEF StreamOfRows, WindowStored
  <1> QED BY <1>4, <1>5, OnlyPublish

\* What a publisher marks, and what is marked, is stored.
LEMMA MarkedStep ==
  ASSUME Shapes, WindowStored, MarkingStored, PublishedIsStored, [Next]_vars
  PROVE  MarkingStored' /\ PublishedIsStored'
  <1>1. RowsGrow /\ StreamGrows /\ Shapes'
    BY Growth
  <1> DEFINE Safe(i) == \E m \in DOMAIN stream' : stream'[m].ev = rows'[i]
  <1>2. \A p \in Publishers : pub[p].row # None => Safe(pub[p].row)
    BY <1>1 DEF MarkingStored, Stored, StreamGrows, RowsGrow, Shapes
  <1>3. \A i \in published : Safe(i)
    BY <1>1 DEF PublishedIsStored, StreamGrows, RowsGrow, Shapes
  <1>4. ASSUME NEW p \in Publishers, PublisherStep(p)
        PROVE  /\ \A q \in Publishers : pub'[q].row # None => Safe(pub'[q].row)
               /\ \A i \in published' : Safe(i)
    <2>0. pub \in PubType(DOMAIN rows)
      BY DEF Shapes, PubType
    <2>1. CASE ReserveOutbox(p)
      <3>1. \A q \in Publishers : pub'[q].row = pub[q].row
        BY <2>0, <2>1 DEF ReserveOutbox, PubType
      <3> QED BY <1>2, <1>3, <2>1, <3>1 DEF ReserveOutbox
    <2>2. ASSUME NEW i \in DOMAIN rows, Publish(p, i)
          PROVE  /\ \A q \in Publishers : pub'[q].row # None => Safe(pub'[q].row)
                 /\ \A j \in published' : Safe(j)
      <3>1. UNCHANGED <<rows, published>>
        BY <2>2 DEF Publish, dbVars
      <3>2. Safe(i)
        BY <2>2, <3>1, PublishStores DEF Stored
      <3>3. \A q \in Publishers : pub'[q].row = IF q = p THEN i ELSE pub[q].row
        BY <2>0, <2>2 DEF Publish, PubType
      <3> QED BY <1>2, <1>3, <3>1, <3>2, <3>3
    <2>3. CASE MarkOutboxPublished(p)
      <3>1. \A q \in Publishers : pub'[q].row = IF q = p THEN None ELSE pub[q].row
        BY <2>0, <2>3 DEF MarkOutboxPublished, PubType
      <3>2. published' = published \cup {pub[p].row} /\ pub[p].row # None
        BY <2>3 DEF MarkOutboxPublished
      <3> QED BY <1>2, <1>3, <3>1, <3>2
    <2>4. CASE AbandonBatch(p)
      <3>1. \A q \in Publishers : pub'[q].row = IF q = p THEN None ELSE pub[q].row
        BY <2>0, <2>4 DEF AbandonBatch, PubType, Resting
      <3> QED BY <1>2, <1>3, <2>4, <3>1 DEF AbandonBatch, dbVars
    <2> QED BY <1>4, <2>1, <2>2, <2>3, <2>4 DEF PublisherStep
  <1>5. CASE UNCHANGED <<pub, published>>
    BY <1>2, <1>3, <1>5 DEF MarkingStored, PublishedIsStored, Stored
  <1>6. (\E p \in Publishers : PublisherStep(p)) \/ UNCHANGED <<pub, published>>
    BY DEF Next, SaveWithOutbox,
           WorkerStep, Deliver, WriteScore, Ack, Nak, DeadLetter, DeadLetterLost, Silent,
           Time, LeaseExpires, WindowExpires, AckWaitExpires, Trim, vars, dbVars
  <1> QED BY <1>4, <1>5, <1>6 DEF MarkingStored, PublishedIsStored, Stored

-----------------------------------------------------------------------------
(* The boards.                                                             *)

\* ZADD GT raises one score of one board to the event's, or leaves it.
LEMMA Raised ==
  ASSUME Shapes, NEW b \in Boards, NEW e \in Events, RaiseScore(b, e)
  PROVE  /\ \A c \in Boards, r \in Roles :
              /\ score'[c][r] \in Nat /\ score'[c][r] >= score[c][r]
              /\ score'[c][r] = score[c][r] \/ (r = e[1] /\ score'[c][r] = e[2])
         /\ score'[b][e[1]] >= e[2]
  <1>1. e[1] \in Roles /\ e[2] \in Nat
    BY DEF Events
  <1>2. score \in [Boards -> [Roles -> Nat]]
    BY DEF Shapes
  <1> QED BY <1>1, <1>2 DEF RaiseScore

\* Trimming keeps the scores of some roles and removes the others.
LEMMA Trimmed ==
  ASSUME Shapes, NEW b \in Boards, Trim(b)
  PROVE  \E keep \in SUBSET Roles :
           /\ Cardinality(keep) = Cap
           /\ \A r \in keep, q \in Roles \ keep : score[b][q] <= score[b][r]
           /\ \A r \in Roles : score'[b][r] = IF r \in keep THEN score[b][r] ELSE 0
           /\ \A c \in Boards \ {b} : score'[c] = score[c]
  <1> DEFINE members == {r \in Roles : score[b][r] > 0}
  <1>1. PICK keep \in SUBSET members :
          /\ Cardinality(keep) = Cap
          /\ \A r \in keep, q \in members \ keep : score[b][q] <= score[b][r]
          /\ score' = [score EXCEPT ![b] = [r \in Roles |-> IF r \in keep THEN @[r] ELSE 0]]
    BY DEF Trim
  <1>2. score \in [Boards -> [Roles -> Nat]]
    BY DEF Shapes
  <1>3. \A r \in keep, q \in Roles \ keep : score[b][q] <= score[b][r]
    <2> TAKE r \in keep, q \in Roles \ keep
    <2>1. score[b][q] \in Nat /\ score[b][r] \in Nat
      BY <1>2
    <2>2. CASE score[b][q] > 0
      BY <1>1, <2>2
    <2>3. CASE ~(score[b][q] > 0)
      BY <2>1, <2>3
    <2> QED BY <2>2, <2>3
  <1>4. \A r \in Roles : score'[b][r] = IF r \in keep THEN score[b][r] ELSE 0
    BY <1>1, <1>2
  <1>5. \A c \in Boards \ {b} : score'[c] = score[c]
    BY <1>1, <1>2
  <1> QED BY <1>1, <1>3, <1>4, <1>5

\* A step writes an event of the stream to a board, trims a board, or leaves the boards.
LEMMA ScoreCases ==
  ASSUME Shapes, [Next]_vars
  PROVE  \/ \E w \in Workers : WriteScore(w)
         \/ \E b \in Boards : Trim(b)
         \/ UNCHANGED score
  BY DEF Next, SaveWithOutbox, PublisherStep, ReserveOutbox, Publish, MarkOutboxPublished,
         AbandonBatch, WorkerStep, Deliver, Ack, Nak, DeadLetter, DeadLetterLost, Silent,
         Time, LeaseExpires, WindowExpires, AckWaitExpires, vars

\* The event that a handler writes.
LEMMA Written ==
  ASSUME Shapes, NEW w \in Workers, WriteScore(w)
  PROVE  /\ work[w].msg \in DOMAIN stream
         /\ stream[work[w].msg].ev \in Events
         /\ \/ /\ work[w].pc = "zone" /\ RaiseScore("zone", stream[work[w].msg].ev)
               /\ work' = [work EXCEPT ![w].pc = "global"]
            \/ /\ work[w].pc = "global" /\ RaiseScore("global", stream[work[w].msg].ev)
               /\ work' = [work EXCEPT ![w].pc = "ack"]
  <1>1. work[w].msg \in DOMAIN stream
    BY DEF WriteScore, Shapes
  <1> QED BY <1>1, MessageFields DEF WriteScore

\* No score without the level.
LEMMA ScoreStep ==
  ASSUME Shapes, RowsEarned, StreamOfRows, ScoreIsEarned, [Next]_vars
  PROVE  ScoreIsEarned'
  <1>1. LevelsGrow
    BY Growth
  <1>2. level \in [Roles -> Nat] /\ score \in [Boards -> [Roles -> Nat]]
    BY DEF Shapes
  <1>3. ASSUME NEW w \in Workers, WriteScore(w)
        PROVE  ScoreIsEarned'
    <2> DEFINE e == stream[work[w].msg].ev
    <2>1. PICK b \in Boards : RaiseScore(b, e)
      BY <1>3, Written DEF Boards
    <2>2. e \in Events /\ e[2] <= level[e[1]]
      BY <1>3, Written DEF StreamOfRows, RowsEarned
    <2> HIDE DEF e
    <2>3. \A c \in Boards, r \in Roles : score'[c][r] <= level[r]
      BY <1>2, <2>1, <2>2, Raised DEF ScoreIsEarned
    <2>4. UNCHANGED level
      BY <1>3 DEF WriteScore, dbVars
    <2> QED BY <2>3, <2>4 DEF ScoreIsEarned
  <1>4. ASSUME NEW b \in Boards, Trim(b)
        PROVE  ScoreIsEarned'
    <2>1. \A c \in Boards, r \in Roles : score'[c][r] = score[c][r] \/ score'[c][r] = 0
      BY <1>4, Trimmed
    <2>2. UNCHANGED level
      BY <1>4 DEF Trim, dbVars
    <2> QED BY <1>2, <2>1, <2>2 DEF ScoreIsEarned
  <1>5. CASE UNCHANGED score
    BY <1>1, <1>2, <1>5 DEF ScoreIsEarned, LevelsGrow
  <1> QED BY <1>3, <1>4, <1>5, ScoreCases

\* The members of a board are finitely many.
LEMMA FinitelyAbove ==
  ASSUME NEW S \in SUBSET Roles, NEW T \in SUBSET S
  PROVE  Cardinality(T) \in Nat /\ Cardinality(S) \in Nat /\ Cardinality(T) <= Cardinality(S)
  <1>1. IsFiniteSet(S)
    BY FS_Subset
  <1>2. IsFiniteSet(T) /\ Cardinality(T) <= Cardinality(S)
    BY <1>1, FS_Subset
  <1> QED BY <1>1, <1>2, FS_CardinalityType

\* Higher scores keep an event ranked.
LEMMA RankedRaised ==
  ASSUME NEW b \in Boards, NEW e \in Events, Ranked(b, e),
         \A r \in Roles : score[b][r] \in Nat /\ score'[b][r] \in Nat /\ score'[b][r] >= score[b][r]
  PROVE  Ranked(b, e)'
  <1>1. e[1] \in Roles /\ e[2] \in Nat
    BY DEF Events
  <1>2. CASE score[b][e[1]] >= e[2]
    BY <1>1, <1>2 DEF Ranked
  <1>3. CASE Cardinality({q \in Roles \ {e[1]} : score[b][q] >= e[2]}) >= Cap
    <2> DEFINE T == {q \in Roles \ {e[1]} : score[b][q] >= e[2]}
               S == {q \in Roles \ {e[1]} : score'[b][q] >= e[2]}
    <2>1. T \subseteq S
      BY <1>1
    <2>2. Cardinality(T) <= Cardinality(S) /\ Cardinality(T) \in Nat /\ Cardinality(S) \in Nat
      BY <2>1, FinitelyAbove
    <2>3. Cardinality(S) >= Cap
      BY <1>3, <2>2
    <2> QED BY <2>3 DEF Ranked
  <1> QED BY <1>2, <1>3 DEF Ranked

\* Trimming keeps the highest: an event whose score it removes is outranked by
\* as many as the board keeps.
LEMMA RankedTrimmed ==
  ASSUME Shapes, NEW b \in Boards, NEW e \in Events, e[2] > 0, Ranked(b, e), Trim(b)
  PROVE  Ranked(b, e)'
  <1>1. e[1] \in Roles /\ e[2] \in Nat /\ Cap \in Nat
    BY DEF Events
  <1>2. \A r \in Roles : score[b][r] \in Nat
    BY DEF Shapes
  <1>3. PICK keep \in SUBSET Roles :
          /\ Cardinality(keep) = Cap
          /\ \A r \in keep, q \in Roles \ keep : score[b][q] <= score[b][r]
          /\ \A r \in Roles : score'[b][r] = IF r \in keep THEN score[b][r] ELSE 0
    BY Trimmed
  <1> DEFINE T == {q \in Roles \ {e[1]} : score[b][q] >= e[2]}
             S == {q \in Roles \ {e[1]} : score'[b][q] >= e[2]}
  <1>4. ASSUME NEW q \in Roles \ keep, score[b][q] >= e[2]
        PROVE  Ranked(b, e)'
    <2>1. \A r \in keep : score'[b][r] >= e[2]
      BY <1>1, <1>2, <1>3, <1>4
    <2>2. CASE e[1] \in keep
      BY <2>1, <2>2 DEF Ranked
    <2>3. CASE e[1] \notin keep
      <3>1. keep \subseteq S
        BY <2>1, <2>3
      <3>2. Cardinality(S) >= Cap
        BY <1>1, <1>3, <3>1, FinitelyAbove
      <3> QED BY <3>2 DEF Ranked
    <2> QED BY <2>2, <2>3
  <1>5. ASSUME \A q \in Roles \ keep : ~(score[b][q] >= e[2])
        PROVE  Ranked(b, e)'
    <2>1. CASE score[b][e[1]] >= e[2]
      BY <1>1, <1>3, <1>5, <2>1 DEF Ranked
    <2>2. CASE Cardinality(T) >= Cap
      <3>1. T \subseteq S
        BY <1>1, <1>3, <1>5
      <3>2. Cardinality(S) >= Cap
        BY <1>1, <2>2, <3>1, FinitelyAbove
      <3> QED BY <3>2 DEF Ranked
    <2> QED BY <2>1, <2>2 DEF Ranked
  <1> QED BY <1>4, <1>5

\* Whatever is written or trimmed later, a ranked event stays ranked.
LEMMA StaysRanked ==
  ASSUME Shapes, [Next]_vars, NEW b \in Boards, NEW e \in Events, e[2] > 0, Ranked(b, e)
  PROVE  Ranked(b, e)'
  <1>1. score \in [Boards -> [Roles -> Nat]]
    BY DEF Shapes
  <1>2. ASSUME NEW w \in Workers, WriteScore(w)
        PROVE  Ranked(b, e)'
    <2>1. PICK c \in Boards : RaiseScore(c, stream[work[w].msg].ev)
      BY <1>2, Written DEF Boards
    <2>2. \A r \in Roles : score'[b][r] \in Nat /\ score'[b][r] >= score[b][r]
      BY <1>2, <2>1, Written, Raised
    <2> QED BY <1>1, <2>2, RankedRaised
  <1>3. ASSUME NEW c \in Boards, Trim(c)
        PROVE  Ranked(b, e)'
    <2>1. CASE b = c
      BY <1>3, <2>1, RankedTrimmed
    <2>2. CASE b # c
      <3>1. score'[b] = score[b]
        BY <1>3, <2>2, Trimmed
      <3>2. \A r \in Roles : score'[b][r] \in Nat /\ score'[b][r] >= score[b][r]
        BY <1>1, <3>1
      <3> QED BY <1>1, <3>2, RankedRaised
    <2> QED BY <2>1, <2>2
  <1>4. CASE UNCHANGED score
    <2>1. \A r \in Roles : score'[b][r] \in Nat /\ score'[b][r] >= score[b][r]
      BY <1>1, <1>4
    <2> QED BY <1>1, <2>1, RankedRaised
  <1> QED BY <1>2, <1>3, <1>4, ScoreCases

\* The events of the stream have levels.
LEMMA StreamEvents ==
  ASSUME Shapes, RowsEarned, StreamOfRows, NEW m \in DOMAIN stream
  PROVE  stream[m].ev \in Events /\ stream[m].ev[2] > 0
  BY MessageFields DEF RowsEarned, StreamOfRows

\* A handler passes a board only with its event ranked there.
LEMMA HandledStep ==
  ASSUME Shapes, RowsEarned, StreamOfRows, HandledIsRanked, [Next]_vars
  PROVE  HandledIsRanked'
  <1> DEFINE Ok(v) ==
        /\ work'[v].pc \in {"global", "ack"} => Ranked("zone", stream[work[v].msg].ev)'
        /\ work'[v].pc = "ack" => Ranked("global", stream[work[v].msg].ev)'
  <1>0. work \in WorkType(DOMAIN stream) /\ StreamGrows
    BY Growth DEF Shapes, WorkType
  <1>1. ASSUME NEW v \in Workers, work'[v] = work[v]
        PROVE  Ok(v)
    <2>1. CASE work[v].pc \notin {"global", "ack"}
      BY <1>1, <2>1
    <2>2. CASE work[v].pc \in {"global", "ack"}
      <3>1. work[v].msg \in DOMAIN stream
        BY <2>2 DEF Shapes
      <3>2. PICK e \in Events : e = stream[work[v].msg].ev
        BY <3>1, StreamEvents
      <3>3. e[2] > 0 /\ stream'[work'[v].msg].ev = e
        BY <1>0, <1>1, <3>1, <3>2, StreamEvents DEF StreamGrows
      <3>4. Ranked("zone", e) /\ (work[v].pc = "ack" => Ranked("global", e))
        BY <2>2, <3>2 DEF HandledIsRanked
      <3>5. "zone" \in Boards /\ "global" \in Boards
        BY DEF Boards
      <3>6. \A c \in Boards : Ranked(c, e) => Ranked(c, e)'
        BY <3>3, StaysRanked
      <3>7. Ranked("zone", e)' /\ (work[v].pc = "ack" => Ranked("global", e)')
        BY <3>4, <3>5, <3>6
      <3> QED BY <1>1, <3>3, <3>7 DEF Ranked
    <2> QED BY <2>1, <2>2
  <1>2. ASSUME NEW v \in Workers, work'[v].pc \in {"idle", "zone"}
        PROVE  Ok(v)
    BY <1>2
  <1>3. ASSUME NEW w \in Workers, WriteScore(w), NEW v \in Workers
        PROVE  Ok(v)
    <2>1. CASE v # w
      BY <1>0, <1>1, <1>3, <2>1, Written DEF WorkType
    <2>2. CASE v = w
      <3>1. work[w].msg \in DOMAIN stream
        BY <1>3, Written
      <3>2. PICK e \in Events : e = stream[work[w].msg].ev
        BY <3>1, StreamEvents
      <3>3. e[2] > 0 /\ stream'[work'[w].msg].ev = e
        <4>1. work'[w].msg = work[w].msg
          BY <1>0, <1>3, Written DEF WorkType
        <4> QED BY <1>0, <3>1, <3>2, <4>1, StreamEvents DEF StreamGrows
      <3>4. CASE work[w].pc = "zone" /\ RaiseScore("zone", e) /\ work' = [work EXCEPT ![w].pc = "global"]
        <4>1. work'[w].pc = "global"
          BY <1>0, <3>4 DEF WorkType
        <4>2. "zone" \in Boards
          BY DEF Boards
        <4>3. score'["zone"][e[1]] >= e[2]
          BY <3>4, <4>2, Raised
        <4> QED BY <2>2, <3>3, <4>1, <4>3 DEF Ranked
      <3>5. CASE work[w].pc = "global" /\ RaiseScore("global", e) /\ work' = [work EXCEPT ![w].pc = "ack"]
        <4>1. "zone" \in Boards /\ "global" \in Boards
          BY DEF Boards
        <4>2. score'["global"][e[1]] >= e[2]
          BY <3>5, <4>1, Raised
        <4>3. Ranked("zone", e)
          BY <3>2, <3>5 DEF HandledIsRanked
        <4>4. Ranked("zone", e)'
          BY <3>3, <4>1, <4>3, StaysRanked
        <4> QED BY <2>2, <3>3, <4>2, <4>4 DEF Ranked
      <3> QED BY <1>3, <3>2, <3>4, <3>5, Written
    <2> QED BY <2>1, <2>2
  <1>4. ASSUME NEW w \in Workers, WorkerStep(w), ~WriteScore(w), NEW v \in Workers
        PROVE  Ok(v)
    <2>1. work'[v] = work[v] \/ work'[v].pc \in {"idle", "zone"}
      <3>1. ASSUME NEW m \in DOMAIN stream, Deliver(w, m)
            PROVE  work'[v] = work[v] \/ work'[v].pc \in {"idle", "zone"}
        BY <1>0, <3>1 DEF Deliver, WorkType
      <3>2. ASSUME work' = [work EXCEPT ![w] = NoWork]
            PROVE  work'[v] = work[v] \/ work'[v].pc \in {"idle", "zone"}
        BY <1>0, <3>2 DEF NoWork, WorkType
      <3> QED BY <1>4, <3>1, <3>2
              DEF WorkerStep, Ack, Nak, DeadLetter, DeadLetterLost, Silent
    <2> QED BY <1>1, <1>2, <2>1
  <1>5. CASE UNCHANGED work
    BY <1>1, <1>5 DEF HandledIsRanked
  <1>6. (\E w \in Workers : WorkerStep(w)) \/ UNCHANGED work
    BY DEF Next, SaveWithOutbox, PublisherStep, ReserveOutbox, Publish, MarkOutboxPublished,
           AbandonBatch, Time, LeaseExpires, WindowExpires, AckWaitExpires, Trim, vars
  <1> QED BY <1>3, <1>4, <1>5, <1>6 DEF HandledIsRanked

\* An acknowledged event is and stays ranked.
LEMMA AckedStep ==
  ASSUME Shapes, RowsEarned, StreamOfRows, HandledIsRanked, AckedIsRanked, [Next]_vars
  PROVE  AckedIsRanked'
  <1>1. StreamGrows /\ AcksOnly(Workers)
    BY Growth
  <1>2. ASSUME NEW m \in DOMAIN stream', stream'[m].st = "done", NEW b \in Boards
        PROVE  Ranked(b, stream[m].ev)'
    <2>1. m \in DOMAIN stream
      BY <1>1, <1>2 DEF AcksOnly
    <2>0. PICK e \in Events : e = stream[m].ev
      BY <2>1, StreamEvents
    <2>2. e[2] > 0 /\ stream'[m].ev = e
      BY <1>1, <2>0, <2>1, StreamEvents DEF StreamGrows
    <2>3. Ranked(b, e)
      <3>1. CASE stream[m].st = "done"
        BY <2>0, <2>1, <3>1 DEF AckedIsRanked
      <3>2. ASSUME NEW w \in Workers, work[w].pc = "ack", work[w].msg = m
            PROVE  Ranked(b, e)
        BY <2>0, <3>2 DEF HandledIsRanked, Boards
      <3> QED BY <1>1, <1>2, <3>1, <3>2 DEF AcksOnly
    <2>4. Ranked(b, e)'
      BY <2>2, <2>3, StaysRanked
    <2> QED BY <2>2, <2>4 DEF Ranked
  <1> QED BY <1>2 DEF AckedIsRanked

-----------------------------------------------------------------------------
(* The theorems.                                                           *)

\* The empty pipeline satisfies the invariant.
LEMMA PipelineInit == Init => PipelineInv
  <1> SUFFICES ASSUME Init PROVE PipelineInv
    OBVIOUS
  <1>1. Shapes
    BY DEF Init, Shapes, Resting, NoWork, Labels, Message
  <1>2. WindowCounts
    BY FS_EmptySet DEF Init, WindowCounts
  <1>3. RowsEarned /\ StreamOfRows /\ WindowStored /\ MarkingStored
    BY DEF Init, RowsEarned, StreamOfRows, WindowStored, MarkingStored, Resting
  <1>4. ScoreIsEarned /\ PublishedIsStored /\ HandledIsRanked /\ AckedIsRanked
    BY DEF Init, ScoreIsEarned, PublishedIsStored, HandledIsRanked, AckedIsRanked, NoWork
  <1> QED BY <1>1, <1>2, <1>3, <1>4 DEF PipelineInv

\* Publishers that crash, leases that run out, deliveries that come again and
\* trimming, in any order, keep every part of the invariant.
THEOREM PipelineInvariant == Spec => []PipelineInv
  <1>1. Init => PipelineInv
    BY PipelineInit
  <1>2. PipelineInv /\ [Next]_vars => PipelineInv'
    BY Growth, CountsStep, EarnedStep, StreamStep, MarkedStep, ScoreStep, HandledStep, AckedStep
       DEF PipelineInv
  <1> QED BY <1>1, <1>2, PTL DEF Spec

\* The variables keep their types, and the stream holds no more messages than
\* the rows and the forgotten message ids account for: the duplicate window
\* stores every other repeated publish once.
THEOREM PipelineTypes == Spec => []TypeOK
  <1>1. PipelineInv => TypeOK
    BY StreamBounded DEF PipelineInv, Shapes, TypeOK, Message, Labels
  <1> QED BY <1>1, PipelineInvariant, PTL

\* No board shows a level that the role has not durably reached.
THEOREM ScoresAreEarned == Spec => []ScoreIsEarned
  <1>1. PipelineInv => ScoreIsEarned
    BY DEF PipelineInv
  <1> QED BY <1>1, PipelineInvariant, PTL

\* A row that MarkOutboxPublished marked has its message in the stream.
THEOREM PublishedRowsAreStored == Spec => []PublishedIsStored
  <1>1. PipelineInv => PublishedIsStored
    BY DEF PipelineInv
  <1> QED BY <1>1, PipelineInvariant, PTL

\* An event that a Rank handler acknowledged stays visible on both boards.
THEOREM AckedEventsAreRanked == Spec => []AckedIsRanked
  <1>1. PipelineInv => AckedIsRanked
    BY DEF PipelineInv
  <1> QED BY <1>1, PipelineInvariant, PTL

\* Late and repeated events never lower a score; only trimming removes one.
THEOREM ScoresNeverDrop == Spec => ScoreNeverDrops
  <1>1. PipelineInv /\ [Next]_vars =>
          [\A b \in Boards, r \in Roles : score'[b][r] >= score[b][r] \/ score'[b][r] = 0]_vars
    <2> SUFFICES ASSUME Shapes, [Next]_vars, NEW b \in Boards, NEW r \in Roles
                 PROVE  score'[b][r] >= score[b][r] \/ score'[b][r] = 0
      BY DEF PipelineInv
    <2>1. score[b][r] \in Nat
      BY DEF Shapes
    <2>2. ASSUME NEW w \in Workers, WriteScore(w)
          PROVE  score'[b][r] >= score[b][r]
      <3>1. PICK c \in Boards : RaiseScore(c, stream[work[w].msg].ev)
        BY <2>2, Written DEF Boards
      <3> QED BY <2>2, <3>1, Written, Raised
    <2>3. ASSUME NEW c \in Boards, Trim(c)
          PROVE  score'[b][r] >= score[b][r] \/ score'[b][r] = 0
      BY <2>1, <2>3, Trimmed
    <2>4. CASE UNCHANGED score
      BY <2>1, <2>4
    <2> QED BY <2>2, <2>3, <2>4, ScoreCases
  <1> QED BY <1>1, PipelineInvariant, PTL DEF Spec, ScoreNeverDrops

=============================================================================
