----------------------------- MODULE PlayProofs -----------------------------
(***************************************************************************)
(* Match and the world boss for every number of players, roles and calls:  *)
(* nobody loses a place in matchmaking to an overlap or to a repaired      *)
(* fault, and the damage board never shows more than the boss has lost.    *)
(***************************************************************************)
EXTENDS GrantProofs

USE MatchAssumption

-----------------------------------------------------------------------------
(* Match: what LREM and RPUSH leave of a queue.  The kept part of a queue  *)
(* is a recursive function; what it computes is proved with the smallest   *)
(* counterexample in place of an induction theorem.                        *)

\* f is the kept parts of q without p, by length.
Keeps(q, p, f) ==
    f = [n \in 0..Len(q) |->
           IF n = 0 THEN <<>> ELSE IF q[n] = p THEN f[n - 1] ELSE Append(f[n - 1], q[n])]

\* The same up to length m.
KeepsTo(q, p, f, m) ==
    f = [n \in 0..m |->
           IF n = 0 THEN <<>> ELSE IF q[n] = p THEN f[n - 1] ELSE Append(f[n - 1], q[n])]

\* Without takes the kept part of the whole queue.
LEMMA WithoutIsKept ==
  ASSUME NEW q, NEW p
  PROVE  Without(q, p) = (CHOOSE f : Keeps(q, p, f))[Len(q)]
  BY DEF Without, Keeps

\* What holds of 0, and of a number when it holds of the one before, holds up to n.
LEMMA UpTo ==
  ASSUME NEW n \in Nat, NEW H \in SUBSET (0..n), 0 \in H,
         \A m \in 1..n : m - 1 \in H => m \in H
  PROVE  n \in H
  <1> SUFFICES ASSUME n \notin H  PROVE FALSE
    OBVIOUS
  <1> DEFINE Bad == (0..n) \ H
  <1>1. PICK m \in Bad : \A l \in Bad : m <= l
    <2>1. Bad \in SUBSET Nat /\ Bad # {}
      OBVIOUS
    <2> HIDE DEF Bad
    <2> QED BY <2>1, LeastExists
  <1>2. m \in 1..n /\ m - 1 \in 0..n /\ ~(m <= m - 1)
    OBVIOUS
  <1>3. m - 1 \in H
    BY <1>1, <1>2
  <1> QED BY <1>2, <1>3

\* The kept parts exist.
LEMMA KeptExists ==
  ASSUME NEW q, NEW p, Len(q) \in Nat
  PROVE  \E f : Keeps(q, p, f)
  <1> DEFINE N == Len(q)
             Has(m) == \E f : KeepsTo(q, p, f, m)
             H == {m \in 0..N : Has(m)}
  <1>1. 0 \in H
    <2> DEFINE f == [n \in 0..0 |-> <<>>]
    <2>1. KeepsTo(q, p, f, 0)
      BY DEF KeepsTo
    <2> QED BY <2>1
  <1>2. ASSUME NEW m \in 1..N, m - 1 \in H
        PROVE  m \in H
    <2>1. PICK f : KeepsTo(q, p, f, m - 1)
      BY <1>2
    <2> DEFINE last == IF q[m] = p THEN f[m - 1] ELSE Append(f[m - 1], q[m])
               g == [n \in 0..m |-> IF n = m THEN last ELSE f[n]]
    <2>2. g[m] = last /\ g[m - 1] = f[m - 1]
      <3>1. m \in 0..m /\ m - 1 \in 0..m /\ m - 1 # m
        BY <1>2
      <3> QED BY <3>1
    <2>3. ASSUME NEW n \in 0..m - 1
          PROVE  g[n] = IF n = 0 THEN <<>> ELSE IF q[n] = p THEN g[n - 1] ELSE Append(g[n - 1], q[n])
      <3>1. n \in 0..m /\ n # m /\ (n # 0 => n - 1 \in 0..m /\ n - 1 # m)
        BY <2>3
      <3>2. g[n] = f[n] /\ (n # 0 => g[n - 1] = f[n - 1])
        BY <3>1
      <3>3. f[n] = IF n = 0 THEN <<>> ELSE IF q[n] = p THEN f[n - 1] ELSE Append(f[n - 1], q[n])
        BY <2>1, <2>3 DEF KeepsTo
      <3> QED BY <3>2, <3>3
    <2>4. g = [n \in 0..m |-> g[n]]
      OBVIOUS
    <2>5. m # 0 /\ \A n \in 0..m : n = m \/ n \in 0..m - 1
      BY <1>2
    <2>6. g[m] = IF q[m] = p THEN g[m - 1] ELSE Append(g[m - 1], q[m])
      BY <2>2
    <2> HIDE DEF g
    <2>7. \A n \in 0..m :
             g[n] = IF n = 0 THEN <<>> ELSE IF q[n] = p THEN g[n - 1] ELSE Append(g[n - 1], q[n])
      BY <2>3, <2>5, <2>6
    <2>8. KeepsTo(q, p, g, m)
      BY <2>4, <2>7 DEF KeepsTo
    <2> QED BY <1>2, <2>8
  <1>3. H \in SUBSET (0..N) /\ N \in Nat
    OBVIOUS
  <1> HIDE DEF H, N
  <1>4. N \in H
    BY <1>1, <1>2, <1>3, UpTo
  <1> QED BY <1>4 DEF H, N, KeepsTo, Keeps

\* A part of a queue: the players of the first n places but p, each once if
\* they were in the queue once.
PartOf(q, p, n, w, S) ==
    /\ w \in Seq(S)
    /\ \A i \in DOMAIN w : w[i] # p /\ \E k \in 1..n : q[k] = w[i]
    /\ \A k \in 1..n : q[k] # p => \E i \in DOMAIN w : w[i] = q[k]
    /\ IsInjective(q) => IsInjective(w)

\* One more place.
LEMMA PartGrows ==
  ASSUME NEW S, NEW q \in Seq(S), NEW p, NEW n \in 1..Len(q), NEW w, PartOf(q, p, n - 1, w, S)
  PROVE  PartOf(q, p, n, IF q[n] = p THEN w ELSE Append(w, q[n]), S)
  <1>0. Len(q) \in Nat /\ q[n] \in S /\ DOMAIN q = 1..Len(q)
    OBVIOUS
  <1>1. w \in Seq(S)
    BY DEF PartOf
  <1>2. 1..n = 1..(n - 1) \cup {n} /\ n \notin 1..(n - 1)
    BY <1>0
  <1>3. CASE q[n] = p
    BY <1>2, <1>3 DEF PartOf
  <1>4. CASE q[n] # p
    <2> DEFINE v == Append(w, q[n])
    <2>1. /\ v \in Seq(S) /\ DOMAIN v = DOMAIN w \cup {Len(w) + 1} /\ v[Len(w) + 1] = q[n]
          /\ Len(w) + 1 \notin DOMAIN w
          /\ \A i \in DOMAIN w : v[i] = w[i]
      BY <1>0, <1>1
    <2> HIDE DEF v
    <2>2. \A i \in DOMAIN v : v[i] # p /\ \E k \in 1..n : q[k] = v[i]
      BY <1>2, <1>4, <2>1 DEF PartOf
    <2>3. \A k \in 1..n : q[k] # p => \E i \in DOMAIN v : v[i] = q[k]
      BY <1>2, <2>1 DEF PartOf
    <2>4. ASSUME IsInjective(q)  PROVE IsInjective(v)
      <3>1. IsInjective(w) /\ \A k, l \in DOMAIN q : q[k] = q[l] => k = l
        BY <2>4 DEF PartOf, IsInjective
      <3>2. n \in DOMAIN q /\ \A k \in 1..(n - 1) : k \in DOMAIN q /\ k # n
        BY <1>0
      <3>3. \A i \in DOMAIN w : w[i] # q[n]
        BY <3>1, <3>2 DEF PartOf
      <3>4. \A i, k \in DOMAIN v : v[i] = v[k] => i = k
        BY <2>1, <3>1, <3>3 DEF IsInjective
      <3> QED BY <3>4 DEF IsInjective
    <2> QED BY <1>4, <2>1, <2>2, <2>3, <2>4 DEF PartOf, v
  <1> QED BY <1>3, <1>4

\* LREM leaves the other players, in a queue without repetitions.
LEMMA WithoutIsPart ==
  ASSUME NEW S, NEW q \in Seq(S), NEW p
  PROVE  PartOf(q, p, Len(q), Without(q, p), S)
  <1> DEFINE f == CHOOSE f : Keeps(q, p, f)
             N == Len(q)
             H == {n \in 0..N : PartOf(q, p, n, f[n], S)}
  <1>0. N \in Nat
    OBVIOUS
  <1>1. Keeps(q, p, f) /\ Without(q, p) = f[N]
    BY <1>0, KeptExists, WithoutIsKept
  <1> HIDE DEF f
  <1>2. /\ f[0] = <<>>
        /\ \A n \in 1..N : f[n] = IF q[n] = p THEN f[n - 1] ELSE Append(f[n - 1], q[n])
    <2>1. \A n \in 0..N :
             f[n] = IF n = 0 THEN <<>> ELSE IF q[n] = p THEN f[n - 1] ELSE Append(f[n - 1], q[n])
      BY <1>1 DEF Keeps
    <2>2. 0 \in 0..N /\ \A n \in 1..N : n \in 0..N /\ n # 0
      BY <1>0
    <2> HIDE DEF N
    <2> QED BY <2>1, <2>2
  <1>3. 0 \in H
    <2>1. <<>> \in Seq(S) /\ DOMAIN <<>> = {} /\ 1..0 = {}
      OBVIOUS
    <2>2. PartOf(q, p, 0, <<>>, S)
      BY <2>1 DEF PartOf, IsInjective
    <2> QED BY <1>0, <1>2, <2>2
  <1>4. ASSUME NEW n \in 1..N, n - 1 \in H
        PROVE  n \in H
    <2>1. PartOf(q, p, n - 1, f[n - 1], S) /\ n \in 0..N
      BY <1>0, <1>4
    <2>2. PartOf(q, p, n, IF q[n] = p THEN f[n - 1] ELSE Append(f[n - 1], q[n]), S)
      BY <2>1, PartGrows
    <2> QED BY <1>2, <2>1, <2>2
  <1>5. H \in SUBSET (0..N)
    OBVIOUS
  <1> HIDE DEF H, N
  <1>6. N \in H
    BY <1>0, <1>3, <1>4, <1>5, UpTo
  <1> QED BY <1>1, <1>6 DEF H, N

\* Pushed keeps everybody, with p at the end, and nobody twice.
LEMMA PushKeeps ==
  ASSUME NEW S, NEW q \in Seq(S), NEW p \in S, IsInjective(q)
  PROVE  /\ Pushed(q, p) \in Seq(S) /\ Len(Pushed(q, p)) > 0
         /\ ToSet(Pushed(q, p)) = ToSet(q) \cup {p}
         /\ IsInjective(Pushed(q, p))
  <1> DEFINE w == Without(q, p)
             v == Append(w, p)
  <1>1. PartOf(q, p, Len(q), w, S)
    BY WithoutIsPart
  <1> HIDE DEF w
  <1>2. w \in Seq(S) /\ DOMAIN q = 1..Len(q)
    BY <1>1 DEF PartOf
  <1>3. /\ v \in Seq(S) /\ DOMAIN v = DOMAIN w \cup {Len(w) + 1} /\ v[Len(w) + 1] = p
        /\ Len(w) + 1 \notin DOMAIN w /\ Len(v) > 0
        /\ \A i \in DOMAIN w : v[i] = w[i]
    BY <1>2
  <1> HIDE DEF v
  <1>4. ToSet(w) = ToSet(q) \ {p}
    <2>1. /\ \A x : x \in ToSet(w) <=> \E i \in DOMAIN w : w[i] = x
          /\ \A x : x \in ToSet(q) <=> \E i \in 1..Len(q) : q[i] = x
      BY <1>2 DEF ToSet
    <2>2. ASSUME NEW x  PROVE x \in ToSet(w) <=> x \in ToSet(q) /\ x # p
      BY <1>1, <2>1 DEF PartOf
    <2> QED BY <2>2
  <1>5. ToSet(v) = ToSet(w) \cup {p}
    BY <1>3 DEF ToSet
  <1>6. IsInjective(v)
    BY <1>1, <1>3 DEF PartOf, IsInjective
  <1>7. Pushed(q, p) = v
    BY DEF Pushed, v, w
  <1> QED BY <1>3, <1>4, <1>5, <1>6, <1>7

\* The first two of a queue and the others.
LEMMA TakeTwo ==
  ASSUME NEW S, NEW q \in Seq(S), IsInjective(q), Len(q) >= PerMatch
  PROVE  LET h == SubSeq(q, 1, PerMatch)
             t == SubSeq(q, PerMatch + 1, Len(q)) IN
         /\ h \in Seq(S) /\ t \in Seq(S) /\ IsInjective(h) /\ IsInjective(t)
         /\ Len(h) = PerMatch /\ ToSet(q) = ToSet(h) \cup ToSet(t)
  <1> DEFINE n == Len(q)
             h == SubSeq(q, 1, 2)
             t == SubSeq(q, 3, n)
  <1>1. n \in Nat /\ n >= 2 /\ DOMAIN q = 1..n
    BY DEF PerMatch
  <1>2. h \in Seq(S) /\ Len(h) = 2 /\ DOMAIN h = 1..2 /\ \A i \in 1..2 : h[i] = q[i]
    BY <1>1
  <1>3. t \in Seq(S) /\ Len(t) = n - 2 /\ DOMAIN t = 1..(n - 2) /\ \A i \in 1..(n - 2) : t[i] = q[i + 2]
    BY <1>1
  <1>4. \A i \in 1..2 : i \in 1..n
    BY <1>1
  <1>5. \A i \in 1..(n - 2) : i \in Nat /\ i + 2 \in 1..n
    BY <1>1
  <1>6. \A i \in 1..n : i \in 1..2 \/ (i - 2 \in 1..(n - 2) /\ (i - 2) + 2 = i)
    BY <1>1
  <1> HIDE DEF h, t, n
  <1>7. IsInjective(h)
    BY <1>1, <1>2, <1>4 DEF IsInjective
  <1>8. IsInjective(t)
    <2> SUFFICES ASSUME NEW i \in 1..(n - 2), NEW k \in 1..(n - 2), t[i] = t[k]  PROVE i = k
      BY <1>3 DEF IsInjective
    <2>1. q[i + 2] = q[k + 2] /\ i + 2 \in DOMAIN q /\ k + 2 \in DOMAIN q
      BY <1>1, <1>3, <1>5
    <2>2. i + 2 = k + 2
      BY <2>1 DEF IsInjective
    <2> QED BY <1>5, <2>2
  <1>9. ToSet(q) = ToSet(h) \cup ToSet(t)
    <2>1. \A i \in 1..n : (\E k \in 1..2 : q[i] = h[k]) \/ \E k \in 1..(n - 2) : q[i] = t[k]
      BY <1>2, <1>3, <1>6
    <2>2. \A k \in 1..2 : \E i \in 1..n : h[k] = q[i]
      BY <1>2, <1>4
    <2>3. \A k \in 1..(n - 2) : \E i \in 1..n : t[k] = q[i]
      BY <1>3, <1>5
    <2>4. /\ \A x : x \in ToSet(q) <=> \E i \in 1..n : q[i] = x
          /\ \A x : x \in ToSet(h) <=> \E i \in 1..2 : h[i] = x
          /\ \A x : x \in ToSet(t) <=> \E i \in 1..(n - 2) : t[i] = x
      BY <1>1, <1>2, <1>3 DEF ToSet
    <2>5. ASSUME NEW x  PROVE x \in ToSet(q) <=> x \in ToSet(h) \/ x \in ToSet(t)
      BY <2>1, <2>2, <2>3, <2>4
    <2> QED BY <2>5
  <1>10. PerMatch = 2 /\ PerMatch + 1 = 3
    BY DEF PerMatch
  <1> QED BY <1>2, <1>3, <1>7, <1>8, <1>9, <1>10 DEF h, t, n

-----------------------------------------------------------------------------
(* The invariant.                                                          *)

JCall == [pc : {"none", "reserve", "create", "delete", "requeue", "publish", "done"},
          members : Seq(Players)]
MRoom == [state : {"none", "RESERVED", "ROOM_CREATED"}, members : Seq(Players)]
BRoom == [members : SUBSET Players, results : SUBSET Players]

MatchShapes ==
    /\ queue \in Seq(Players) /\ jcall \in [Joins -> JCall] /\ room \in [Joins -> MRoom]
    /\ ticket \in [Players -> Joins \cup {NoMatch}] /\ battle \in [Joins -> BRoom]
    /\ waiting \subseteq Players /\ dropped \subseteq waiting

\* A request owns two players from the script to its end.
Owns(x) ==
    /\ x.pc = "none" => x.members = <<>>
    /\ x.pc \notin {"none", "done"} => Len(x.members) = PerMatch
    /\ IsInjective(x.members) /\ ToSet(x.members) \subseteq waiting

\* A match is published, and results are taken, by the end of its request.
Ready(j) ==
    /\ room[j].state = "ROOM_CREATED" => jcall[j].pc = "done"
    /\ battle[j].results # {} => jcall[j].pc = "done"
    /\ battle[j].results \subseteq battle[j].members
    /\ IsInjective(room[j].members)

Placed(p) == p \in ToSet(queue) \/ (\E j \in Joins : p \in Members(j)) \/ Shown(p) # {}

MatchInv ==
    /\ MatchShapes
    /\ IsInjective(queue) /\ ToSet(queue) \subseteq waiting
    /\ \A j \in Joins : Owns(jcall[j]) /\ Ready(j)
    /\ \A p \in waiting \ dropped : Placed(p)

\* The invariant gives the type invariant and the property.
LEMMA MatchConcludes == MatchInv => MatchTypeOK /\ PlayersKept
  <1> SUFFICES ASSUME MatchInv  PROVE MatchTypeOK /\ PlayersKept
    OBVIOUS
  <1>1. ASSUME NEW j \in Joins
        PROVE  /\ jcall[j].pc \in {"none", "reserve", "create", "delete", "requeue", "publish", "done"}
               /\ jcall[j].members \in Seq(Players) /\ room[j].members \in Seq(Players)
               /\ room[j].state \in {"none", "RESERVED", "ROOM_CREATED"}
    <2>1. jcall[j] \in JCall /\ room[j] \in MRoom
      BY DEF MatchInv, MatchShapes
    <2> QED BY <2>1 DEF JCall, MRoom
  <1>2. MatchTypeOK
    BY <1>1 DEF MatchTypeOK, MatchInv, MatchShapes, Ready
  <1>3. PlayersKept
    BY DEF PlayersKept, MatchInv, Placed, Ready
  <1> QED BY <1>2, <1>3

\* Nobody waits at the start.
LEMMA MatchStart == MatchInit => MatchInv
  <1> SUFFICES ASSUME MatchInit  PROVE MatchInv
    OBVIOUS
  <1>1. <<>> \in Seq(Players) /\ ToSet(<<>>) = {} /\ IsInjective(<<>>)
    <2>1. <<>> \in Seq(Players) /\ DOMAIN <<>> = {}
      OBVIOUS
    <2> QED BY <2>1 DEF ToSet, IsInjective
  <1>2. MatchShapes
    BY <1>1 DEF MatchInit, MatchShapes, JCall, MRoom, BRoom
  <1>3. ASSUME NEW j \in Joins
        PROVE  Owns(jcall[j]) /\ Ready(j)
    <2>1. /\ jcall[j].pc = "none" /\ jcall[j].members = <<>> /\ room[j].state = "none"
          /\ room[j].members = <<>> /\ battle[j].results = {}
      BY DEF MatchInit
    <2> QED BY <1>1, <2>1 DEF Owns, Ready
  <1> QED BY <1>1, <1>2, <1>3 DEF MatchInit, MatchInv

\* What one request j changes: its own records, the tickets of its players, the
\* queue, and who has no place.  Everybody whom it touches has a place after it.
Touches(j) ==
    /\ MatchShapes'
    /\ \A k \in Joins \ {j} :
          jcall'[k] = jcall[k] /\ room'[k] = room[k] /\ battle'[k] = battle[k]
    /\ \A p \in Players : p \notin Members(j) => ticket'[p] = ticket[p]
    /\ IsInjective(queue') /\ ToSet(queue') \subseteq waiting' /\ waiting \subseteq waiting'
    /\ Owns(jcall[j])' /\ Ready(j)' /\ jcall[j].pc # "done"
    /\ \A p \in waiting' \ dropped' :
          \/ p \in ToSet(queue') \/ p \in ToSet(jcall'[j].members) \/ (Shown(p) # {})'
          \/ p \in waiting \ dropped /\ p \notin ToSet(queue) /\ p \notin Members(j)

\* Such a step keeps the invariant.
LEMMA OneRequest ==
  ASSUME MatchInv, NEW j \in Joins, Touches(j)
  PROVE  MatchInv'
  <1>1. ASSUME NEW k \in Joins
        PROVE  (Owns(jcall[k]) /\ Ready(k))'
    <2>1. CASE k = j
      BY <2>1 DEF Touches
    <2>2. CASE k # j
      <3>1. jcall'[k] = jcall[k] /\ room'[k] = room[k] /\ battle'[k] = battle[k] /\ waiting \subseteq waiting'
        BY <2>2 DEF Touches
      <3>2. Owns(jcall[k]) /\ Ready(k)
        BY DEF MatchInv
      <3> QED BY <3>1, <3>2 DEF Owns, Ready
    <2> QED BY <2>1, <2>2
  <1>2. ASSUME NEW p \in waiting' \ dropped'
        PROVE  Placed(p)'
    <2>1. CASE p \in ToSet(queue') \/ p \in ToSet(jcall'[j].members) \/ (Shown(p) # {})'
      BY <2>1 DEF Placed, Members
    <2>2. CASE p \in waiting \ dropped /\ p \notin ToSet(queue) /\ p \notin Members(j)
      <3>1. Placed(p) /\ p \in Players
        BY <2>2 DEF MatchInv, MatchShapes
      <3>2. CASE \E k \in Joins : p \in Members(k)
        <4>1. PICK k \in Joins : p \in Members(k)
          BY <3>2
        <4>2. jcall'[k] = jcall[k]
          BY <2>2, <4>1 DEF Touches
        <4> QED BY <4>1, <4>2 DEF Placed, Members
      <3>3. CASE Shown(p) # {}
        <4>1. PICK k \in Joins : /\ k = ticket[p] /\ room[k].state = "ROOM_CREATED"
                                 /\ p \in ToSet(room[k].members)
          BY <3>3 DEF Shown
        <4>2. k # j
          BY <4>1 DEF Touches, MatchInv, Ready
        <4>3. room'[k] = room[k] /\ ticket'[p] = ticket[p]
          BY <2>2, <3>1, <4>2 DEF Touches
        <4>4. k \in Shown(p)'
          BY <4>1, <4>3 DEF Shown
        <4> QED BY <4>4 DEF Placed
      <3> QED BY <2>2, <3>1, <3>2, <3>3 DEF Placed
    <2> QED BY <1>2, <2>1, <2>2 DEF Touches
  <1> QED BY <1>1, <1>2 DEF Touches, MatchInv

\* A request that goes on keeps its players.
LEMMA GoesOn ==
  ASSUME MatchInv, NEW j \in Joins,
         NEW pc \in {"create", "delete", "requeue", "publish"}, JoinTo(j, pc),
         jcall[j].pc \notin {"none", "done"}
  PROVE  /\ jcall' \in [Joins -> JCall] /\ jcall'[j].pc = pc /\ jcall'[j].members = jcall[j].members
         /\ \A k \in Joins \ {j} : jcall'[k] = jcall[k]
         /\ UNCHANGED waiting => Owns(jcall[j])'
  <1> DEFINE x == [jcall[j] EXCEPT !.pc = pc]
  <1>1. jcall \in [Joins -> JCall] /\ jcall[j] \in JCall
    BY DEF MatchInv, MatchShapes
  <1>2. x \in JCall /\ x.pc = pc /\ x.members = jcall[j].members
    BY <1>1 DEF JCall
  <1>3. jcall' = [jcall EXCEPT ![j] = x]
    BY DEF JoinTo
  <1> HIDE DEF x
  <1>4. /\ jcall' \in [Joins -> JCall] /\ jcall'[j] = x
        /\ \A k \in Joins \ {j} : jcall'[k] = jcall[k]
    BY <1>1, <1>2, <1>3
  <1>5. Owns(jcall[j])
    BY DEF MatchInv
  <1>6. UNCHANGED waiting => Owns(jcall[j])'
    BY <1>2, <1>4, <1>5 DEF Owns
  <1> QED BY <1>2, <1>4, <1>6

\* A request that ends has no players.
LEMMA Ends ==
  ASSUME MatchInv, NEW j \in Joins, JoinEnds(j)
  PROVE  /\ jcall' \in [Joins -> JCall] /\ jcall'[j].pc = "done" /\ jcall'[j].members = <<>>
         /\ \A k \in Joins \ {j} : jcall'[k] = jcall[k]
         /\ Owns(jcall[j])'
  <1> DEFINE x == [pc |-> "done", members |-> <<>>]
  <1>0. <<>> \in Seq(Players) /\ ToSet(<<>>) = {} /\ IsInjective(<<>>)
    <2>1. <<>> \in Seq(Players) /\ DOMAIN <<>> = {}
      OBVIOUS
    <2> QED BY <2>1 DEF ToSet, IsInjective
  <1>1. jcall \in [Joins -> JCall]
    BY DEF MatchInv, MatchShapes
  <1>2. x \in JCall /\ x.pc = "done" /\ x.members = <<>>
    BY <1>0 DEF JCall
  <1>3. jcall' = [jcall EXCEPT ![j] = x]
    BY DEF JoinEnds
  <1> HIDE DEF x
  <1>4. jcall' \in [Joins -> JCall] /\ jcall'[j] = x /\ \A k \in Joins \ {j} : jcall'[k] = jcall[k]
    BY <1>1, <1>2, <1>3
  <1> QED BY <1>0, <1>2, <1>4 DEF Owns

\* The pipeline writes the record and the tickets, or some of them.
LEMMA PutRooms ==
  ASSUME MatchInv, NEW j \in Joins, NEW state \in {"RESERVED", "ROOM_CREATED"}, NEW all \in BOOLEAN,
         PutRoom(j, state, all)
  PROVE  /\ room' \in [Joins -> MRoom] /\ \A k \in Joins \ {j} : room'[k] = room[k]
         /\ IsInjective(room'[j].members) /\ room'[j].state \in {state, room[j].state}
         /\ ticket' \in [Players -> Joins \cup {NoMatch}]
         /\ \A p \in Players : p \notin Members(j) => ticket'[p] = ticket[p]
         /\ all => /\ room'[j].state = state /\ room'[j].members = jcall[j].members
                   /\ \A p \in Players : p \in Members(j) => ticket'[p] = j
  <1> DEFINE x == [state |-> state, members |-> jcall[j].members]
  <1>0. /\ jcall[j] \in JCall /\ room \in [Joins -> MRoom]
        /\ ticket \in [Players -> Joins \cup {NoMatch}]
        /\ IsInjective(room[j].members) /\ IsInjective(jcall[j].members)
    BY DEF MatchInv, MatchShapes, Ready, Owns
  <1>1. x \in MRoom /\ x.state = state /\ x.members = jcall[j].members
    BY <1>0 DEF JCall, MRoom
  <1>2. PICK S \in SUBSET Members(j), put \in BOOLEAN :
            /\ all => put /\ S = Members(j)
            /\ room' = IF put THEN [room EXCEPT ![j] = x] ELSE room
            /\ ticket' = [p \in Players |-> IF p \in S THEN j ELSE ticket[p]]
    BY DEF PutRoom
  <1> HIDE DEF x
  <1>3. /\ ticket' \in [Players -> Joins \cup {NoMatch}]
        /\ \A p \in Players : p \notin Members(j) => ticket'[p] = ticket[p]
        /\ all => \A p \in Players : p \in Members(j) => ticket'[p] = j
    BY <1>0, <1>2
  <1>4. CASE put
    <2>1. room' = [room EXCEPT ![j] = x]
      BY <1>2, <1>4
    <2>2. room' \in [Joins -> MRoom] /\ room'[j] = x /\ \A k \in Joins \ {j} : room'[k] = room[k]
      BY <1>0, <1>1, <2>1
    <2> QED BY <1>0, <1>1, <1>3, <2>2
  <1>5. CASE ~put
    BY <1>0, <1>2, <1>3, <1>5
  <1> QED BY <1>4, <1>5

\* The reservation, the creation in Battle and the compensation before Requeue:
\* the request keeps its players.
LEMMA HandsKeep ==
  ASSUME MatchInv, NEW j \in Joins, Reserve(j) \/ CreateBattleRoom(j) \/ DeleteRoom(j)
  PROVE  MatchInv'
  <1>0. /\ MatchShapes /\ Ready(j) /\ jcall[j].pc \in {"reserve", "create", "delete"}
        /\ UNCHANGED <<queue, waiting, dropped>>
    BY DEF MatchInv, Reserve, CreateBattleRoom, DeleteRoom, JoinAt
  <1>1. PICK pc \in {"create", "delete", "requeue", "publish"} : JoinTo(j, pc)
    BY DEF Reserve, CreateBattleRoom, DeleteRoom
  <1>2. /\ jcall' \in [Joins -> JCall] /\ jcall'[j].pc = pc /\ jcall'[j].members = jcall[j].members
        /\ \A k \in Joins \ {j} : jcall'[k] = jcall[k]
        /\ Owns(jcall[j])'
    BY <1>0, <1>1, GoesOn
  <1>3. room[j].state # "ROOM_CREATED" /\ battle[j].results = {}
    BY <1>0 DEF Ready
  <1>4. /\ room' \in [Joins -> MRoom] /\ (\A k \in Joins \ {j} : room'[k] = room[k])
        /\ IsInjective(room'[j].members) /\ room'[j].state # "ROOM_CREATED"
        /\ ticket' \in [Players -> Joins \cup {NoMatch}]
        /\ \A p \in Players : p \notin Members(j) => ticket'[p] = ticket[p]
    <2>1. CASE Reserve(j)
      <3>1. PICK ok \in BOOLEAN : PutRoom(j, "RESERVED", ok)
        BY <2>1 DEF Reserve
      <3> QED BY <1>3, <3>1, PutRooms
    <2>2. CASE CreateBattleRoom(j)
      BY <1>0, <1>3, <2>2 DEF CreateBattleRoom, MatchShapes, Ready
    <2>3. CASE DeleteRoom(j)
      <3> DEFINE x == [state |-> "none", members |-> <<>>]
      <3>1. PICK S \in SUBSET Members(j), del \in BOOLEAN :
                /\ room' = IF del THEN [room EXCEPT ![j] = x] ELSE room
                /\ ticket' = [p \in Players |-> IF p \in S THEN NoMatch ELSE ticket[p]]
        BY <2>3 DEF DeleteRoom
      <3>2. x \in MRoom /\ x.state = "none" /\ IsInjective(x.members)
        <4>1. <<>> \in Seq(Players) /\ DOMAIN <<>> = {}
          OBVIOUS
        <4> QED BY <4>1 DEF MRoom, IsInjective
      <3> HIDE DEF x
      <3>3. room \in [Joins -> MRoom] /\ ticket \in [Players -> Joins \cup {NoMatch}]
        BY <1>0 DEF MatchShapes
      <3>4. /\ ticket' \in [Players -> Joins \cup {NoMatch}]
            /\ \A p \in Players : p \notin Members(j) => ticket'[p] = ticket[p]
        BY <3>1, <3>3
      <3>5. CASE del
        <4>1. room' \in [Joins -> MRoom] /\ room'[j] = x /\ \A k \in Joins \ {j} : room'[k] = room[k]
          BY <3>1, <3>2, <3>3, <3>5
        <4> QED BY <3>2, <3>4, <4>1
      <3>6. CASE ~del
        BY <1>0, <1>3, <3>1, <3>3, <3>4, <3>6 DEF Ready
      <3> QED BY <3>5, <3>6
    <2> QED BY <2>1, <2>2, <2>3
  <1>5. /\ battle' \in [Joins -> BRoom] /\ (\A k \in Joins \ {j} : battle'[k] = battle[k])
        /\ battle'[j].results = {}
    <2>0. battle \in [Joins -> BRoom] /\ battle[j] \in BRoom
      BY <1>0 DEF MatchShapes
    <2>1. CASE BattleCreate(j)
      <3> DEFINE x == [battle[j] EXCEPT !.members = Members(j)]
      <3>1. Members(j) \subseteq Players
        <4>1. jcall[j].members \in Seq(Players)
          BY <1>0 DEF MatchShapes, JCall
        <4> QED BY <4>1 DEF Members, ToSet
      <3>2. x \in BRoom /\ x.results = {}
        BY <1>3, <2>0, <3>1 DEF BRoom
      <3>3. battle' = [battle EXCEPT ![j] = x]
        BY <2>1 DEF BattleCreate
      <3> HIDE DEF x
      <3> QED BY <2>0, <3>2, <3>3
    <2>2. CASE UNCHANGED battle
      BY <1>3, <2>0, <2>2
    <2> QED BY <2>1, <2>2 DEF Reserve, CreateBattleRoom, DeleteRoom
  <1>6. MatchShapes'
    BY <1>0, <1>2, <1>4, <1>5 DEF MatchShapes
  <1>7. Ready(j)'
    BY <1>4, <1>5 DEF Ready
  <1>8. Touches(j)
    BY <1>0, <1>2, <1>4, <1>5, <1>6, <1>7 DEF Touches, MatchInv, Members
  <1> QED BY <1>8, OneRequest

\* The script: the players are in the queue or in the request's hands.
LEMMA JoinKeeps ==
  ASSUME MatchInv, NEW j \in Joins, NEW p \in Players, JoinQueue(j, p)
  PROVE  MatchInv'
  <1> DEFINE q == Pushed(queue, p)
             h == SubSeq(q, 1, PerMatch)
             t == SubSeq(q, PerMatch + 1, Len(q))
  <1>0. /\ MatchShapes /\ Ready(j) /\ Owns(jcall[j]) /\ jcall[j].pc = "none"
        /\ waiting' = waiting \cup {p} /\ UNCHANGED <<room, ticket, battle>>
    BY DEF MatchInv, JoinQueue, JoinAt
  <1>1. q \in Seq(Players) /\ ToSet(q) = ToSet(queue) \cup {p} /\ IsInjective(q)
    BY PushKeeps DEF MatchInv, MatchShapes
  <1> HIDE DEF q
  <1>2. Members(j) = {} /\ room[j].state # "ROOM_CREATED" /\ battle[j].results = {}
    <2>1. jcall[j].members = <<>> /\ ToSet(<<>>) = {}
      BY <1>0 DEF Owns, ToSet
    <2> QED BY <1>0, <2>1 DEF Ready, Members
  <1>3. Ready(j)'
    BY <1>0, <1>2 DEF Ready
  <1>4. ASSUME queue' \in Seq(Players), IsInjective(queue'), ToSet(queue') \subseteq ToSet(q),
               jcall' \in [Joins -> JCall], Owns(jcall[j])',
               \A k \in Joins \ {j} : jcall'[k] = jcall[k],
               dropped' \subseteq waiting',
               \A r \in waiting' \ dropped' : r = p \/ r \notin dropped,
               \A r \in ToSet(q) : r \in dropped' \/ r \in ToSet(queue') \/ r \in ToSet(jcall'[j].members)
        PROVE  MatchInv'
    <2>1. MatchShapes'
      BY <1>0, <1>4 DEF MatchShapes
    <2>2. ToSet(queue') \subseteq waiting'
      BY <1>0, <1>1, <1>4 DEF MatchInv
    <2>3. Touches(j)
      BY <1>0, <1>1, <1>2, <1>3, <1>4, <2>1, <2>2 DEF Touches
    <2> QED BY <2>3, OneRequest
  <1>5. CASE /\ Len(q) < PerMatch /\ queue' = q /\ JoinEnds(j) /\ dropped' = dropped \ {p}
    <2>1. /\ jcall' \in [Joins -> JCall] /\ Owns(jcall[j])'
          /\ \A k \in Joins \ {j} : jcall'[k] = jcall[k]
      BY <1>5, Ends
    <2>2. dropped' \subseteq waiting'
      BY <1>0, <1>5 DEF MatchShapes
    <2> QED BY <1>1, <1>4, <1>5, <2>1, <2>2
  <1>6. CASE Len(q) >= PerMatch /\ queue' = t
    <2>1. /\ h \in Seq(Players) /\ t \in Seq(Players) /\ IsInjective(h) /\ IsInjective(t)
          /\ Len(h) = PerMatch /\ ToSet(q) = ToSet(h) \cup ToSet(t)
      BY <1>1, <1>6, TakeTwo
    <2> HIDE DEF h, t
    <2>2. ToSet(h) \subseteq waiting'
      BY <1>0, <1>1, <2>1 DEF MatchInv
    <2>3. CASE jcall' = [jcall EXCEPT ![j] = [pc |-> "reserve", members |-> h]] /\ dropped' = dropped \ {p}
      <3> DEFINE x == [pc |-> "reserve", members |-> h]
      <3>1. x \in JCall /\ x.pc = "reserve" /\ x.members = h
        BY <2>1 DEF JCall
      <3> HIDE DEF x
      <3>2. jcall' = [jcall EXCEPT ![j] = x]
        BY <2>3 DEF x
      <3>3. /\ jcall' \in [Joins -> JCall] /\ jcall'[j] = x
            /\ \A k \in Joins \ {j} : jcall'[k] = jcall[k]
        BY <1>0, <3>1, <3>2 DEF MatchShapes
      <3>4. Owns(jcall[j])'
        BY <2>1, <2>2, <3>1, <3>3 DEF Owns
      <3>5. dropped' \subseteq waiting'
        BY <1>0, <2>3 DEF MatchShapes
      <3> QED BY <1>4, <1>6, <2>1, <2>3, <3>1, <3>3, <3>4, <3>5
    <2>4. CASE JoinEnds(j) /\ dropped' = (dropped \ {p}) \cup ToSet(h)
      <3>1. /\ jcall' \in [Joins -> JCall] /\ Owns(jcall[j])'
            /\ \A k \in Joins \ {j} : jcall'[k] = jcall[k]
        BY <2>4, Ends
      <3>2. dropped' \subseteq waiting'
        BY <1>0, <2>2, <2>4 DEF MatchShapes
      <3> QED BY <1>4, <1>6, <2>1, <2>4, <3>1, <3>2
    <2> QED BY <1>6, <2>3, <2>4 DEF JoinQueue, h, q, PerMatch
  <1>7. Len(q) \in Nat /\ PerMatch = 2
    BY <1>1 DEF PerMatch
  <1> QED BY <1>5, <1>6, <1>7 DEF JoinQueue, q, t

\* The end of a request: its players are queued again, are shown their match, or
\* have lost their place.
LEMMA EndsKeep ==
  ASSUME MatchInv, NEW j \in Joins, Requeue(j) \/ Publish(j) \/ MatchCrash(j)
  PROVE  MatchInv'
  <1>0. /\ MatchShapes /\ Ready(j) /\ Owns(jcall[j]) /\ jcall[j].pc \notin {"none", "done"}
        /\ JoinEnds(j) /\ UNCHANGED <<battle, waiting>> /\ IsInjective(queue)
        /\ Members(j) \subseteq waiting
    BY DEF MatchInv, Requeue, Publish, MatchCrash, JoinAt, Owns, Members
  <1>1. /\ jcall' \in [Joins -> JCall] /\ jcall'[j].pc = "done" /\ Owns(jcall[j])'
        /\ \A k \in Joins \ {j} : jcall'[k] = jcall[k]
    BY <1>0, Ends
  <1>2. ASSUME queue' \in Seq(Players), IsInjective(queue'), ToSet(queue) \subseteq ToSet(queue'),
               ToSet(queue') \subseteq ToSet(queue) \cup Members(j),
               dropped \subseteq dropped', dropped' \subseteq dropped \cup Members(j),
               room' \in [Joins -> MRoom], \A k \in Joins \ {j} : room'[k] = room[k],
               IsInjective(room'[j].members), ticket' \in [Players -> Joins \cup {NoMatch}],
               \A p \in Players : p \notin Members(j) => ticket'[p] = ticket[p],
               \A p \in Members(j) : p \in dropped' \/ p \in ToSet(queue') \/ (Shown(p) # {})'
        PROVE  MatchInv'
    <2>1. MatchShapes'
      BY <1>0, <1>1, <1>2 DEF MatchShapes
    <2>2. ToSet(queue') \subseteq waiting'
      BY <1>0, <1>2 DEF MatchInv
    <2>3. Ready(j)'
      BY <1>0, <1>1, <1>2 DEF Ready
    <2>4. Touches(j)
      BY <1>0, <1>1, <1>2, <2>1, <2>2, <2>3 DEF Touches
    <2> QED BY <2>4, OneRequest
  <1>3. CASE Requeue(j) /\ UNCHANGED dropped
    <2> DEFINE m == jcall[j].members
               u == m[1]
               v == m[2]
               a == Pushed(queue, u)
               b == Pushed(a, v)
    <2>1. m \in Seq(Players) /\ Len(m) = 2
      BY <1>0 DEF MatchShapes, JCall, Owns, PerMatch
    <2>2. u \in Players /\ v \in Players /\ Members(j) = {u, v}
      <3>1. DOMAIN m = {1, 2}
        BY <2>1
      <3> QED BY <2>1, <3>1 DEF Members, ToSet
    <2> HIDE DEF u, v
    <2>3. a \in Seq(Players) /\ ToSet(a) = ToSet(queue) \cup {u} /\ IsInjective(a)
      BY <1>0, <2>2, PushKeeps DEF MatchShapes
    <2> HIDE DEF a
    <2>4. b \in Seq(Players) /\ ToSet(b) = ToSet(a) \cup {v} /\ IsInjective(b)
      <3>1. a \in Seq(Players) /\ IsInjective(a) /\ v \in Players
        BY <2>2, <2>3
      <3> QED BY <3>1, PushKeeps
    <2>5. CASE queue' = b
      BY <1>0, <1>2, <1>3, <2>2, <2>3, <2>4, <2>5 DEF Requeue, MatchShapes, Ready
    <2>6. CASE UNCHANGED queue /\ dropped' = dropped \cup Members(j)
      BY <1>0, <1>2, <1>3, <2>6 DEF Requeue, MatchShapes, Ready
    <2> QED BY <1>3, <2>5, <2>6 DEF Requeue, a, u, v
  <1>4. CASE UNCHANGED <<queue, room, ticket>> /\ dropped' = dropped \cup Members(j)
    BY <1>0, <1>2, <1>4 DEF MatchShapes, Ready
  <1>5. CASE Publish(j)
    <2>1. PICK ok \in BOOLEAN : /\ PutRoom(j, "ROOM_CREATED", ok)
                                /\ dropped' = IF ok THEN dropped ELSE dropped \cup Members(j)
      BY <1>5 DEF Publish
    <2>2. /\ room' \in [Joins -> MRoom] /\ (\A k \in Joins \ {j} : room'[k] = room[k])
          /\ IsInjective(room'[j].members)
          /\ ticket' \in [Players -> Joins \cup {NoMatch}]
          /\ \A p \in Players : p \notin Members(j) => ticket'[p] = ticket[p]
          /\ ok => /\ room'[j].state = "ROOM_CREATED" /\ room'[j].members = jcall[j].members
                   /\ \A p \in Players : p \in Members(j) => ticket'[p] = j
      BY <2>1, PutRooms
    <2>3. ASSUME NEW p \in Members(j), ok
          PROVE  (Shown(p) # {})'
      <3>1. p \in Players
        BY <1>0 DEF MatchShapes
      <3>2. j \in Shown(p)'
        BY <2>2, <2>3, <3>1 DEF Shown, Members
      <3> QED BY <3>2
    <2>4. UNCHANGED queue /\ queue \in Seq(Players)
      BY <1>0, <1>5 DEF Publish, MatchShapes
    <2> QED BY <1>0, <1>2, <2>1, <2>2, <2>3, <2>4
  <1> QED BY <1>3, <1>4, <1>5 DEF Requeue, MatchCrash

\* A result of a published match.
LEMMA SettleKeeps ==
  ASSUME MatchInv, NEW j \in Joins, NEW p \in Players, Settle(j, p)
  PROVE  MatchInv'
  <1> DEFINE x == [battle[j] EXCEPT !.results = battle[j].results \cup {p}]
  <1>0. /\ MatchShapes /\ Ready(j) /\ room[j].state = "ROOM_CREATED" /\ p \in battle[j].members
        /\ UNCHANGED <<queue, jcall, room, ticket, waiting, dropped>>
    BY DEF MatchInv, Settle
  <1>1. battle \in [Joins -> BRoom] /\ battle[j] \in BRoom
    BY <1>0 DEF MatchShapes
  <1>2. x \in BRoom /\ x.members = battle[j].members /\ x.results = battle[j].results \cup {p}
    BY <1>1 DEF BRoom
  <1>3. battle' = [battle EXCEPT ![j] = x]
    BY DEF Settle
  <1> HIDE DEF x
  <1>4. /\ battle' \in [Joins -> BRoom] /\ battle'[j] = x
        /\ \A k \in Joins \ {j} : battle'[k] = battle[k]
    BY <1>1, <1>2, <1>3
  <1>5. MatchShapes'
    BY <1>0, <1>4 DEF MatchShapes
  <1>6. ASSUME NEW k \in Joins
        PROVE  (Owns(jcall[k]) /\ Ready(k))'
    <2>1. Owns(jcall[k]) /\ Ready(k)
      BY DEF MatchInv
    <2>2. Owns(jcall[k])'
      BY <1>0, <2>1 DEF Owns
    <2>3. Ready(k)'
      BY <1>0, <1>2, <1>4, <2>1 DEF Ready
    <2> QED BY <2>2, <2>3
  <1>7. \A r : Placed(r)' <=> Placed(r)
    BY <1>0 DEF Placed, Members, Shown
  <1> QED BY <1>0, <1>5, <1>6, <1>7 DEF MatchInv

\* Every step of Match and Battle.
LEMMA MatchKeeps ==
  ASSUME MatchInv, MatchNext
  PROVE  MatchInv'
  BY JoinKeeps, SettleKeeps, HandsKeep, EndsKeep DEF MatchNext

\* Other services leave the queue alone.
LEMMA MatchElsewhere ==
  ASSUME MatchInv, UNCHANGED matchVars
  PROVE  MatchInv'
  BY DEF matchVars, MatchInv, MatchShapes, Owns, Ready, Placed, Members, Shown

\* The invariant of matchmaking.
THEOREM MatchInvariant == Spec => []MatchInv
  <1>1. Init => MatchInv
    BY MatchStart DEF Init
  <1>2. MatchInv /\ [Next]_vars => MatchInv'
    <2>1. ASSUME MatchInv, MatchService  PROVE MatchInv'
      BY <2>1, MatchKeeps DEF MatchService
    <2>2. ASSUME MatchInv, [Next]_vars, ~MatchService  PROVE UNCHANGED matchVars
      BY <2>2 DEF Next, vars, PayService, MailService, ActivityService, LoginService,
                  WorldService, ReshardTool, MigrateTool
    <2> QED BY <2>1, <2>2, MatchElsewhere
  <1> QED BY <1>1, <1>2, PTL DEF Spec

\* However many players and requests there are and however they overlap and
\* fail: a player that asked for a match is in the queue, in the hands of a
\* request or is shown its match, unless a fault that the code does not repair
\* cost its place; nobody is twice in the queue or matched with itself.  A player
\* may be in the queue and in a published match: a compensated match requeues
\* its members, also those that have got a newer one.
THEOREM PlayersAreKept == Spec => []PlayersKept
  BY MatchInvariant, MatchConcludes, PTL

HIDE MatchAssumption
USE WorldAssumption

-----------------------------------------------------------------------------
(* The world.                                                              *)

\* The fields of a call under way, and the membership that a saved guild needs.
WFits(x) ==
    /\ "pc" \in DOMAIN x
    /\ x.pc = "setGuild" => x.role \in Roles /\ x.guild \in Guilds /\ <<x.guild, x.role>> \in members
    /\ x.pc = "zincr" => x.guild \in Guilds /\ x.dmg \in Nat
    /\ x.pc = "addGold" => x.role \in Roles

WorldInv ==
    /\ WorldTypeOK /\ BoardWithinLoss
    /\ DOMAIN wcall = WorldCalls /\ wcall = [c \in WorldCalls |-> wcall[c]]
    /\ \A c \in WorldCalls : WFits(wcall[c])

\* The boss is new at the start.
LEMMA WorldStart == WorldInit => WorldInv
  <1> SUFFICES ASSUME WorldInit  PROVE WorldInv
    OBVIOUS
  <1>1. WorldTypeOK
    BY DEF WorldInit, WorldTypeOK
  <1>2. damage \in [Roles -> Nat] /\ (\A r \in Roles : damage[r] = 0) /\ hp = NoHP
    BY DEF WorldInit
  <1>3. SumFunction(damage) = 0
    BY <1>2, SumType
  <1>4. BoardWithinLoss
    BY <1>2, <1>3 DEF BoardWithinLoss
  <1> QED BY <1>1, <1>4 DEF WorldInv, WorldInit, WFits

\* One call moves; the rest is what each operation does with its own state.
LEMMA WorldMoves ==
  ASSUME WorldInv, NEW c \in WorldCalls, NEW x, wcall' = [wcall EXCEPT ![c] = x],
         WFits(x)', members \subseteq members', WorldTypeOK', BoardWithinLoss'
  PROVE  WorldInv'
  <1>1. wcall'[c] = x /\ \A e \in WorldCalls \ {c} : wcall'[e] = wcall[e]
    BY DEF WorldInv
  <1>2. DOMAIN wcall' = WorldCalls /\ wcall' = [e \in WorldCalls |-> wcall'[e]]
    BY DEF WorldInv
  <1>3. \A e \in WorldCalls : WFits(wcall[e])'
    BY <1>1 DEF WorldInv, WFits
  <1> QED BY <1>2, <1>3 DEF WorldInv

\* What the model's abbreviations do to the calls.
LEMMA CallForms ==
  ASSUME WorldInv, NEW c \in WorldCalls, NEW call, NEW pc \in {"none", "done", "setnx", "state", "del"}
  PROVE  /\ WStarts(c, call) => wcall' = [wcall EXCEPT ![c] = call] /\ WAt(c, "none")
         /\ WEnds(c) => \E x : wcall' = [wcall EXCEPT ![c] = x] /\ x.pc = "done" /\ "pc" \in DOMAIN x
         /\ WTo(c, pc) => \E x : wcall' = [wcall EXCEPT ![c] = x] /\ x.pc = pc /\ "pc" \in DOMAIN x
  <1>1. WStarts(c, call) => wcall' = [wcall EXCEPT ![c] = call] /\ WAt(c, "none")
    BY DEF WStarts
  <1>2. ASSUME WEnds(c)
        PROVE  \E x : wcall' = [wcall EXCEPT ![c] = x] /\ x.pc = "done" /\ "pc" \in DOMAIN x
    <2> WITNESS [pc |-> "done"]
    <2> QED BY <1>2 DEF WEnds
  <1>3. ASSUME WTo(c, pc)
        PROVE  \E x : wcall' = [wcall EXCEPT ![c] = x] /\ x.pc = pc /\ "pc" \in DOMAIN x
    <2> WITNESS [wcall[c] EXCEPT !.pc = pc]
    <2>1. "pc" \in DOMAIN wcall[c]
      BY DEF WorldInv, WFits
    <2> QED BY <1>3, <2>1 DEF WTo
  <1> QED BY <1>1, <1>2, <1>3

\* The board does not change when the boss does not and no reset ends.
LEMMA BoardKept ==
  ASSUME WorldInv, NEW c \in WorldCalls, NEW x, wcall' = [wcall EXCEPT ![c] = x],
         UNCHANGED <<hp, damage, dirty>>, ~WAt(c, "del")
  PROVE  BoardWithinLoss'
  <1>1. \A e \in WorldCalls \ {c} : wcall'[e] = wcall[e]
    BY DEF WorldInv
  <1> QED BY <1>1 DEF WorldInv, BoardWithinLoss, WAt

\* Guilds, the war and the rewards leave the boss alone.
LEMMA BesideBoss ==
  ASSUME WorldInv, NEW c \in WorldCalls,
         \/ \E g \in Guilds, r \in Roles : GuildJoin(c, g, r)
         \/ \E g \in Guilds, d \in Damages : WarAttack(c, g, d)
         \/ SaveGuild(c) \/ WarScore(c) \/ ResetSeason(c) \/ BossGet(c) \/ SaveGold(c)
  PROVE  WorldInv'
  <1>0. WorldTypeOK /\ WFits(wcall[c])
    BY DEF WorldInv
  <1>1. UNCHANGED <<hp, damage, dirty>> /\ ~WAt(c, "del")
    BY DEF GuildJoin, WarAttack, SaveGuild, WarScore, ResetSeason, BossGet, SaveGold, WStarts, WAt,
           bossVars
  <1>2. ASSUME NEW x, wcall' = [wcall EXCEPT ![c] = x], WFits(x)', members \subseteq members',
               WorldTypeOK'
        PROVE  WorldInv'
    BY <1>1, <1>2, BoardKept, WorldMoves
  <1>4. ASSUME NEW g \in Guilds, NEW r \in Roles, GuildJoin(c, g, r)
        PROVE  WorldInv'
    <2>1. /\ members' = members \cup {<<g, r>>} /\ UNCHANGED <<roleGuild, season, score, gold>>
          /\ UNCHANGED <<hp, damage, dirty>>
      BY <1>4 DEF GuildJoin, Enrolled, warVars, bossVars
    <2>2. WorldTypeOK'
      BY <1>0, <2>1 DEF WorldTypeOK
    <2>3. CASE WStarts(c, [pc |-> "setGuild", role |-> r, guild |-> g])
      <3> DEFINE x == [pc |-> "setGuild", role |-> r, guild |-> g]
      <3>1. wcall' = [wcall EXCEPT ![c] = x]
        BY <2>3 DEF WStarts
      <3>2. WFits(x)'
        BY <2>1 DEF WFits
      <3> QED BY <1>2, <2>1, <2>2, <3>1, <3>2
    <2>4. CASE WStarts(c, [pc |-> "done"])
      <3> DEFINE x == [pc |-> "done"]
      <3>1. wcall' = [wcall EXCEPT ![c] = x]
        BY <2>4 DEF WStarts
      <3>2. WFits(x)'
        BY DEF WFits
      <3> QED BY <1>2, <2>1, <2>2, <3>1, <3>2
    <2> QED BY <1>4, <2>3, <2>4 DEF GuildJoin
  <1>5. ASSUME NEW g \in Guilds, NEW d \in Damages, WarAttack(c, g, d)
        PROVE  WorldInv'
    <2> DEFINE x == [pc |-> "zincr", guild |-> g, dmg |-> Effective(d)]
    <2>1. /\ wcall' = [wcall EXCEPT ![c] = x] /\ UNCHANGED <<members, roleGuild, score, gold>>
          /\ season' \in {season, 1}
      BY <1>5 DEF WarAttack, WStarts, guildVars
    <2>2. WorldTypeOK'
      BY <1>0, <1>1, <2>1 DEF WorldTypeOK
    <2>3. WFits(x)'
      BY DEF WFits, Effective
    <2> QED BY <1>2, <2>1, <2>2, <2>3
  <1>6. CASE SaveGuild(c)
    <2>1. PICK x : wcall' = [wcall EXCEPT ![c] = x] /\ x.pc = "done" /\ "pc" \in DOMAIN x
      BY <1>6, CallForms DEF SaveGuild
    <2>2. /\ UNCHANGED <<members, season, score, gold>>
          /\ wcall[c].role \in Roles /\ wcall[c].guild \in Guilds
          /\ <<wcall[c].guild, wcall[c].role>> \in members
          /\ roleGuild' \in {roleGuild, [roleGuild EXCEPT ![wcall[c].role] = wcall[c].guild]}
      BY <1>0, <1>6 DEF SaveGuild, WFits, WAt, warVars
    <2>3. WorldTypeOK'
      BY <1>0, <1>1, <2>2 DEF WorldTypeOK
    <2>4. WFits(x)'
      BY <2>1 DEF WFits
    <2> QED BY <1>2, <2>1, <2>2, <2>3, <2>4
  <1>7. CASE WarScore(c)
    <2>1. PICK x : wcall' = [wcall EXCEPT ![c] = x] /\ x.pc = "done" /\ "pc" \in DOMAIN x
      BY <1>7, CallForms DEF WarScore
    <2>2. /\ UNCHANGED <<members, roleGuild, season, gold>>
          /\ wcall[c].guild \in Guilds /\ wcall[c].dmg \in Nat
          /\ score' = score \/ score' = [score EXCEPT ![wcall[c].guild] = @ + wcall[c].dmg]
      BY <1>0, <1>7 DEF WarScore, WFits, WAt, guildVars
    <2>3. WorldTypeOK'
      BY <1>0, <1>1, <2>2 DEF WorldTypeOK
    <2>4. WFits(x)'
      BY <2>1 DEF WFits
    <2> QED BY <1>2, <2>1, <2>2, <2>3, <2>4
  <1>8. CASE ResetSeason(c)
    <2> DEFINE x == [pc |-> "done"]
    <2>1. /\ wcall' = [wcall EXCEPT ![c] = x] /\ UNCHANGED <<members, roleGuild, gold>>
          /\ season' = season + 1 /\ score' = [g \in Guilds |-> 0]
      BY <1>8 DEF ResetSeason, WStarts, guildVars
    <2>2. WorldTypeOK'
      BY <1>0, <1>1, <2>1 DEF WorldTypeOK
    <2>3. WFits(x)'
      BY DEF WFits
    <2> QED BY <1>2, <2>1, <2>2, <2>3
  <1>9. CASE BossGet(c)
    <2>1. WTo(c, "setnx") \/ WEnds(c)
      BY <1>9 DEF BossGet
    <2>2. PICK x : wcall' = [wcall EXCEPT ![c] = x] /\ x.pc \in {"done", "setnx"} /\ "pc" \in DOMAIN x
      BY <2>1, CallForms
    <2>3. WorldTypeOK' /\ UNCHANGED members
      BY <1>0, <1>1, <1>9 DEF WorldTypeOK, BossGet, guildVars, warVars
    <2>4. WFits(x)'
      BY <2>2 DEF WFits
    <2> QED BY <1>2, <2>2, <2>3, <2>4
  <1>10. CASE SaveGold(c)
    <2>1. PICK x : wcall' = [wcall EXCEPT ![c] = x] /\ x.pc = "done" /\ "pc" \in DOMAIN x
      BY <1>10, CallForms DEF SaveGold
    <2>2. /\ UNCHANGED <<members, roleGuild, season, score>> /\ wcall[c].role \in Roles
          /\ gold' \in {gold, [gold EXCEPT ![wcall[c].role] = @ + 1]}
      BY <1>0, <1>10 DEF SaveGold, WFits, WAt, guildVars, warVars
    <2>3. WorldTypeOK'
      BY <1>0, <1>1, <2>2 DEF WorldTypeOK
    <2>4. WFits(x)'
      BY <2>1 DEF WFits
    <2> QED BY <1>2, <2>1, <2>2, <2>3, <2>4
  <1> QED BY <1>4, <1>5, <1>6, <1>7, <1>8, <1>9, <1>10

\* An attack takes from the boss what it adds to the board.
LEMMA AttackKeeps ==
  ASSUME WorldInv, NEW c \in WorldCalls, NEW r \in Roles, NEW d \in Damages, BossAttack(c, r, d)
  PROVE  WorldInv'
  <1> DEFINE left == IF hp = NoHP THEN MaxHP ELSE hp
             dmg == IF Effective(d) > left THEN left ELSE Effective(d)
  <1>0. WorldTypeOK /\ left \in 0..MaxHP /\ damage \in [Roles -> Nat]
    BY DEF WorldInv, WorldTypeOK
  <1>1. Effective(d) \in Nat
    BY DEF Effective
  <1>2. dmg \in Nat /\ dmg <= left
    BY <1>0, <1>1
  <1>3. hp' = left - dmg /\ damage' = [damage EXCEPT ![r] = damage[r] + dmg]
    BY DEF BossAttack, WoundBy
  <1>4. UNCHANGED <<members, roleGuild, season, score, dirty, gold>>
    BY DEF BossAttack, guildVars, warVars
  <1> HIDE DEF left, dmg
  <1>5. damage' \in [Roles -> Nat] /\ hp' \in 0..MaxHP /\ hp' # NoHP
    BY <1>0, <1>2, <1>3
  <1>6. WorldTypeOK'
    BY <1>0, <1>4, <1>5 DEF WorldTypeOK
  <1>7. /\ SumFunction(damage') = SumFunction(damage) + dmg
        /\ SumFunction(damage) \in Nat
    <2> DEFINE h == damage'
    <2>1. h \in [Roles -> Nat] /\ h[r] = damage[r] + dmg /\ \A q \in Roles \ {r} : h[q] = damage[q]
      BY <1>0, <1>3, <1>5
    <2> HIDE DEF h
    <2>a. h \in [Roles -> Int] /\ damage \in [Roles -> Int] /\ dmg \in Int
      BY <1>0, <1>2, <2>1
    <2>2. SumFunction(h) = SumFunction(damage) + dmg
      BY <2>1, <2>a, SumAdds
    <2>3. SumFunction(damage) \in Nat
      BY <1>0, SumType
    <2> QED BY <2>2, <2>3 DEF h
  <1>8. PICK x : /\ wcall' = [wcall EXCEPT ![c] = x] /\ "pc" \in DOMAIN x
                 /\ x.pc = "done" \/ (x.pc = "addGold" /\ x.role = r)
    <2>1. CASE WStarts(c, [pc |-> "addGold", role |-> r])
      <3> WITNESS [pc |-> "addGold", role |-> r]
      <3> QED BY <2>1 DEF WStarts
    <2>2. CASE WStarts(c, [pc |-> "done"])
      <3> WITNESS [pc |-> "done"]
      <3> QED BY <2>2 DEF WStarts
    <2> QED BY <2>1, <2>2 DEF BossAttack
  <1>9. WFits(x)'
    BY <1>8 DEF WFits
  <1>10. WAt(c, "none") /\ \A e \in WorldCalls \ {c} : wcall'[e] = wcall[e]
    BY <1>8 DEF BossAttack, WStarts, WorldInv
  <1>11. BoardWithinLoss'
    <2> SUFFICES ASSUME ~dirty', \A e \in WorldCalls : ~WAt(e, "del")'
                 PROVE  SumFunction(damage') + hp' <= MaxHP
      BY <1>5 DEF BoardWithinLoss
    <2>1. ~dirty /\ \A e \in WorldCalls : ~WAt(e, "del")
      BY <1>4, <1>10 DEF WAt
    <2>2. SumFunction(damage) + left <= MaxHP
      BY <2>1 DEF WorldInv, BoardWithinLoss, left
    <2> QED BY <1>0, <1>2, <1>3, <1>7, <2>2
  <1> QED BY <1>4, <1>6, <1>8, <1>9, <1>11, WorldMoves

\* The boss is created full, and a reset that ends leaves an empty board.
LEMMA FillKeeps ==
  ASSUME WorldInv, NEW c \in WorldCalls, BossSetNX(c) \/ BossReset(c)
  PROVE  WorldInv'
  <1>0. /\ WorldTypeOK /\ UNCHANGED <<members, roleGuild, season, score, gold>>
        /\ damage \in [Roles -> Nat] /\ hp \in 0..MaxHP \cup {NoHP} /\ dirty \in BOOLEAN
    BY DEF WorldInv, WorldTypeOK, BossSetNX, BossReset, guildVars, warVars
  <1>1. PICK x : /\ wcall' = [wcall EXCEPT ![c] = x] /\ "pc" \in DOMAIN x
                 /\ x.pc \in {"done", "del", "state"}
                 /\ WStarts(c, [pc |-> "del"]) => x.pc = "del"
    <2>1. CASE WStarts(c, [pc |-> "del"])
      <3> WITNESS [pc |-> "del"]
      <3> QED BY <2>1 DEF WStarts
    <2>2. CASE ~WStarts(c, [pc |-> "del"])
      <3>1. WEnds(c) \/ WTo(c, "state")
        BY <2>2 DEF BossSetNX, BossReset
      <3> QED BY <2>2, <3>1, CallForms
    <2> QED BY <2>1, <2>2
  <1>2. wcall'[c] = x /\ WFits(x)'
    BY <1>1 DEF WFits, WorldInv
  <1>3. ASSUME damage' \in [Roles -> Nat], hp' \in 0..MaxHP \cup {NoHP}, dirty' \in BOOLEAN,
               BoardWithinLoss'
        PROVE  WorldInv'
    <2>1. WorldTypeOK'
      BY <1>0, <1>3 DEF WorldTypeOK
    <2> QED BY <1>0, <1>1, <1>2, <1>3, <2>1, WorldMoves
  <1>4. \A e \in WorldCalls \ {c} : wcall'[e] = wcall[e]
    BY <1>1 DEF WorldInv
  <1>5. CASE BossSetNX(c)
    <2>1. /\ UNCHANGED <<damage, dirty>> /\ ~WAt(c, "del") /\ (hp' = hp \/ (hp = NoHP /\ hp' = MaxHP))
      BY <1>5 DEF BossSetNX, WAt
    <2>2. BoardWithinLoss'
      BY <1>0, <1>4, <2>1 DEF WorldInv, BoardWithinLoss, WAt
    <2> QED BY <1>0, <1>3, <2>1, <2>2
  <1>6. CASE WStarts(c, [pc |-> "del"]) /\ hp' = MaxHP /\ UNCHANGED <<damage, dirty>>
    <2>1. BoardWithinLoss'
      BY <1>1, <1>2, <1>6 DEF BoardWithinLoss, WAt
    <2> QED BY <1>0, <1>3, <1>6, <2>1
  <1>7. CASE damage' = [r \in Roles |-> 0] /\ dirty' = FALSE /\ UNCHANGED hp
    <2>1. damage' \in [Roles -> Nat] /\ \A r \in Roles : damage'[r] = 0
      BY <1>7
    <2>2. SumFunction(damage') = 0
      BY <2>1, SumType
    <2>3. BoardWithinLoss'
      BY <1>0, <1>7, <2>2 DEF BoardWithinLoss
    <2> QED BY <1>0, <1>3, <1>7, <2>1, <2>3
  <1>8. CASE dirty' = TRUE /\ UNCHANGED <<hp, damage>>
    <2>1. BoardWithinLoss'
      BY <1>8 DEF BoardWithinLoss
    <2> QED BY <1>0, <1>3, <1>8, <2>1
  <1> QED BY <1>5, <1>6, <1>7, <1>8 DEF BossReset

\* Every step of the world.
LEMMA WorldKeeps ==
  ASSUME WorldInv, WorldNext
  PROVE  WorldInv'
  BY BesideBoss, AttackKeeps, FillKeeps DEF WorldNext

\* Other services leave the world alone.
LEMMA WorldElsewhere ==
  ASSUME WorldInv, UNCHANGED worldVars
  PROVE  WorldInv'
  BY DEF worldVars, guildVars, warVars, bossVars, WorldInv, WorldTypeOK, BoardWithinLoss, WFits, WAt

\* The invariant of the world.
THEOREM WorldInvariant == Spec => []WorldInv
  <1>1. Init => WorldInv
    BY WorldStart DEF Init
  <1>2. WorldInv /\ [Next]_vars => WorldInv'
    <2>1. ASSUME WorldInv, WorldService  PROVE WorldInv'
      BY <2>1, WorldKeeps DEF WorldService
    <2>2. ASSUME WorldInv, [Next]_vars, ~WorldService  PROVE UNCHANGED worldVars
      BY <2>2 DEF Next, vars, PayService, MailService, ActivityService, LoginService,
                  MatchService, ReshardTool, MigrateTool
    <2> QED BY <2>1, <2>2, WorldElsewhere
  <1> QED BY <1>1, <1>2, PTL DEF Spec

\* The damage board shows no more than the boss has lost since it was filled,
\* for any number of roles, calls and resets and any damages, whatever attacks
\* come between the two commands of a reset.
THEOREM BoardIsWithinLoss == Spec => []BoardWithinLoss
  <1>1. WorldInv => BoardWithinLoss
    BY DEF WorldInv
  <1> QED BY <1>1, WorldInvariant, PTL

=============================================================================
