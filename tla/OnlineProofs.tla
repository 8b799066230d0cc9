---------------------------- MODULE OnlineProofs ----------------------------
(***************************************************************************)
(* Gate for every number of gates, connections and logins: a push reaches  *)
(* the connection that logged in last while it is served, and neither its  *)
(* ping nor a late kick throws it out.                                     *)
(***************************************************************************)
EXTENDS MCOnline, TLAPS

USE GateAssumption, DiscoveryAssumption

GConn == [pc : {"none", "serve", "swap", "close", "remove", "gone"},
          sess : Nat, csess : Nat, authed : BOOLEAN, open : BOOLEAN, victim : Conns \cup {NoConn}]
Record == [sess : Nat, gate : Gates]

\* Sessions are numbered from 1, below the next number, and each is of one
\* connection; a connection that was not accepted yet has none.
SessionsDistinct ==
    /\ nextSess > 0
    /\ presence # NoRecord => presence.sess > 0 /\ presence.sess < nextSess
    /\ \A c \in Conns :
          /\ conn[c].sess < nextSess
          /\ conn[c].authed => conn[c].sess > 0
          /\ conn[c].pc = "none" => conn[c].sess = 0
    /\ \A c, d \in Conns : conn[c].sess = conn[d].sess /\ conn[c].sess > 0 => c = d

\* A gate's table and the connection a login is about to close are of that gate.
SameGate ==
    /\ \A g \in Gates : table[g] # NoConn => GateOf[table[g]] = g
    /\ \A c \in Conns :
          /\ conn[c].victim # NoConn <=> conn[c].pc = "close"
          /\ conn[c].victim # NoConn =>
                conn[c].victim # c /\ GateOf[conn[c].victim] = GateOf[c]

Latest(c) == conn[c].sess > 0 /\ conn[c].sess = nextSess - 1
Served(c) == conn[c].pc \in {"serve", "close"} /\ conn[c].authed /\ conn[c].open

\* The last login's record stands until its connection removes it.
LatestHeld ==
    \A c \in Conns : Latest(c) /\ conn[c].pc \in {"serve", "swap", "close", "remove"} =>
        presence # NoRecord /\ presence.sess = conn[c].sess /\ presence.gate = GateOf[c]

\* It stays in the table after its swap, unless an older login is about to
\* close it.
LatestInTable ==
    \A c \in Conns : Latest(c) /\ Served(c) /\ (\A d \in Conns : conn[d].victim # c) =>
        table[GateOf[c]] = c

GateInv == GateTypeOK /\ SessionsDistinct /\ SameGate /\ LatestHeld /\ LatestInTable

\* The property follows from the last two parts.
LEMMA GateConcludes == GateInv => Reachable
  <1> SUFFICES ASSUME GateInv, NEW c \in Conns, conn[c].pc = "serve", conn[c].open,
                      conn[c].authed, conn[c].sess = nextSess - 1,
                      \A d \in Conns : conn[d].victim # c
               PROVE  Held(c) /\ PushTarget = {c}
    BY DEF Reachable
  <1>1. Latest(c) /\ Served(c)
    BY DEF GateInv, SessionsDistinct, Latest, Served
  <1>2. presence # NoRecord /\ presence.sess = conn[c].sess /\ presence.gate = GateOf[c]
    BY <1>1 DEF GateInv, LatestHeld
  <1>3. table[GateOf[c]] = c
    BY <1>1 DEF GateInv, LatestInTable
  <1> QED BY <1>2, <1>3 DEF Held, PushTarget, PushGates

\* No connection at the start.
LEMMA GateStart == GateInit => GateInv
  BY DEF GateInit, GateInv, GateTypeOK, SessionsDistinct, SameGate, LatestHeld, LatestInTable, Latest

\* A step that is no login and removes no record: connections go on, or end.
LEMMA NoLogin ==
  ASSUME GateInv, UNCHANGED <<presence, nextSess>>, conn' \in [Conns -> GConn],
         table' \in [Gates -> Conns \cup {NoConn}], kicks' \subseteq kicks, closing' \subseteq Gates,
         \A c \in Conns :
            /\ conn'[c].sess = conn[c].sess
            /\ conn'[c].authed => conn[c].authed
            /\ conn'[c].pc = "none" => conn[c].pc = "none"
            /\ conn[c].pc = "gone" => conn'[c].pc = "gone",
         SameGate', LatestInTable'
  PROVE  GateInv'
  <1>1. GateTypeOK'
    BY DEF GateInv, GateTypeOK, GConn
  <1>2. SessionsDistinct'
    BY DEF GateInv, SessionsDistinct
  <1>3. LatestHeld'
    <2> SUFFICES ASSUME NEW c \in Conns, Latest(c)',
                        conn'[c].pc \in {"serve", "swap", "close", "remove"}
                 PROVE  presence # NoRecord /\ presence.sess = conn[c].sess /\ presence.gate = GateOf[c]
      BY DEF LatestHeld
    <2>1. Latest(c) /\ conn[c].pc # "none" /\ conn[c].pc # "gone"
      BY DEF Latest, GateInv, SessionsDistinct
    <2>2. conn[c] \in GConn
      BY DEF GateInv, GateTypeOK, GConn
    <2>3. conn[c].pc \in {"serve", "swap", "close", "remove"}
      BY <2>1, <2>2 DEF GConn
    <2> QED BY <2>1, <2>3 DEF GateInv, LatestHeld
  <1> QED BY <1>1, <1>2, <1>3 DEF GateInv

\* A step that only closes connections, changes where those that stay connected
\* to nothing are, or takes a login away.
LEMMA NobodyNew ==
  ASSUME GateInv, UNCHANGED <<presence, nextSess, table>>, conn' \in [Conns -> GConn],
         kicks' \subseteq kicks, closing' \subseteq Gates,
         \A c \in Conns :
            /\ conn'[c].sess = conn[c].sess /\ conn'[c].victim = conn[c].victim
            /\ conn'[c].authed => conn[c].authed
            /\ conn[c].authed /\ conn'[c].open => conn[c].open
            /\ conn'[c].pc = conn[c].pc \/ (conn[c].pc = "none" /\ conn'[c].pc # "close" /\ conn'[c].pc # "none")
  PROVE  GateInv'
  <1>1. SameGate'
    BY DEF GateInv, SameGate
  <1>2. LatestInTable'
    <2> SUFFICES ASSUME NEW c \in Conns, Latest(c)', Served(c)', \A d \in Conns : conn'[d].victim # c
                 PROVE  table[GateOf[c]] = c
      BY DEF LatestInTable
    <2>1. Latest(c) /\ conn[c].pc # "none"
      BY DEF Latest, GateInv, SessionsDistinct
    <2>2. Served(c) /\ \A d \in Conns : conn[d].victim # c
      BY <2>1 DEF Served
    <2> QED BY <2>1, <2>2 DEF GateInv, LatestInTable
  <1>3. table' \in [Gates -> Conns \cup {NoConn}]
    BY DEF GateInv, GateTypeOK
  <1>4. \A c \in Conns : conn[c].pc = "gone" => conn'[c].pc = "gone"
    OBVIOUS
  <1>5. \A c \in Conns : conn'[c].pc = "none" => conn[c].pc = "none"
    OBVIOUS
  <1> QED BY <1>1, <1>2, <1>3, <1>4, <1>5, NoLogin

\* Connections that are accepted or end, and kicks.
LEMMA QuietSteps ==
  ASSUME GateInv,
         \/ \E c \in Conns : Accept(c) \/ StalePing(c) \/ ConnEnds(c)
         \/ \E k \in kicks : HandleKick(k)
         \/ \E g \in Gates : Shutdown(g)
  PROVE  GateInv'
  <1>0. /\ conn \in [Conns -> GConn] /\ table \in [Gates -> Conns \cup {NoConn}]
        /\ closing \subseteq Gates /\ \A c \in Conns : conn[c] \in GConn
        /\ \A k \in kicks : k \in Record
    BY DEF GateInv, GateTypeOK, GConn, Record
  <1>1. ASSUME NEW c \in Conns, NEW x \in GConn, conn' = [conn EXCEPT ![c] = x],
               kicks' \subseteq kicks, closing' \subseteq Gates,
               UNCHANGED <<presence, nextSess, table>>,
               x.sess = conn[c].sess, x.victim = conn[c].victim,
               x.authed => conn[c].authed, conn[c].authed /\ x.open => conn[c].open,
               x.pc = conn[c].pc \/ (conn[c].pc = "none" /\ x.pc \in {"serve", "gone"})
        PROVE  GateInv'
    <2>1. /\ conn' \in [Conns -> GConn] /\ conn'[c] = x
          /\ \A d \in Conns \ {c} : conn'[d] = conn[d]
      BY <1>0, <1>1
    <2> QED BY <1>1, <2>1, NobodyNew
  <1>2. ASSUME NEW c \in Conns, Accept(c)
        PROVE  GateInv'
    <2>p. PICK o \in 0..MaxConnPerIP :
            conn' = [conn EXCEPT ![c] =
                IF Acquires(c, o) THEN [@ EXCEPT !.pc = "serve", !.open = TRUE]
                ELSE [@ EXCEPT !.pc = "gone"]]
      BY <1>2 DEF Accept
    <2> DEFINE x == IF Acquires(c, o) THEN [conn[c] EXCEPT !.pc = "serve", !.open = TRUE]
                    ELSE [conn[c] EXCEPT !.pc = "gone"]
    <2>0. conn[c].pc = "none" /\ UNCHANGED <<presence, table, kicks, nextSess, closing>>
      BY <1>2 DEF Accept
    <2>1. ~conn[c].authed
      BY <2>0 DEF GateInv, SessionsDistinct
    <2>3. conn' = [conn EXCEPT ![c] = x]
      BY <2>p
    <2>2. /\ x \in GConn /\ x.sess = conn[c].sess /\ x.victim = conn[c].victim
          /\ x.authed = conn[c].authed /\ x.pc \in {"serve", "gone"}
      BY <1>0 DEF GConn
    <2> HIDE DEF x
    <2> QED BY <1>0, <1>1, <2>0, <2>1, <2>2, <2>3
  <1>3. ASSUME NEW c \in Conns, StalePing(c)
        PROVE  GateInv'
    <2> DEFINE x == [conn[c] EXCEPT !.authed = FALSE]
    <2>1. conn' = [conn EXCEPT ![c] = x] /\ UNCHANGED <<presence, table, kicks, nextSess, closing>>
      BY <1>3 DEF StalePing
    <2>2. /\ x \in GConn /\ x.sess = conn[c].sess /\ x.victim = conn[c].victim /\ x.authed = FALSE
          /\ x.pc = conn[c].pc /\ x.open = conn[c].open
      BY <1>0 DEF GConn
    <2> HIDE DEF x
    <2> QED BY <1>0, <1>1, <2>1, <2>2
  <1>4. ASSUME NEW c \in Conns, conn' = [conn EXCEPT ![c].open = FALSE],
               UNCHANGED <<presence, table, nextSess, closing>>, kicks' \subseteq kicks
        PROVE  GateInv'
    <2> DEFINE x == [conn[c] EXCEPT !.open = FALSE]
    <2>1. conn' = [conn EXCEPT ![c] = x]
      BY <1>4
    <2>2. /\ x \in GConn /\ x.sess = conn[c].sess /\ x.victim = conn[c].victim
          /\ x.authed = conn[c].authed /\ x.pc = conn[c].pc /\ x.open = FALSE
      BY <1>0 DEF GConn
    <2> HIDE DEF x
    <2> QED BY <1>0, <1>1, <1>4, <2>1, <2>2
  <1>5. ASSUME NEW c \in Conns, ConnEnds(c)
        PROVE  GateInv'
    BY <1>4, <1>5 DEF ConnEnds
  <1>6. ASSUME NEW k \in kicks, HandleKick(k)
        PROVE  GateInv'
    <2>1. table[k.gate] \in Conns \cup {NoConn}
      <3>1. k.gate \in Gates
        BY <1>0 DEF Record
      <3> QED BY <1>0, <3>1
    <2>2. CASE UNCHANGED conn
      BY <1>0, <1>6, <2>2, NobodyNew DEF HandleKick
    <2>3. CASE ~UNCHANGED conn
      BY <1>4, <1>6, <2>1, <2>3 DEF HandleKick
    <2> QED BY <2>2, <2>3
  <1>7. ASSUME NEW g \in Gates, Shutdown(g)
        PROVE  GateInv'
    <2>1. /\ conn' = [c \in Conns |-> [conn[c] EXCEPT !.open = conn[c].open /\ table[g] # c]]
          /\ closing' \subseteq Gates /\ UNCHANGED <<presence, table, kicks, nextSess>>
      BY <1>0, <1>7 DEF Shutdown
    <2>2. ASSUME NEW c \in Conns
          PROVE  /\ conn'[c] \in GConn
                 /\ conn'[c].sess = conn[c].sess /\ conn'[c].victim = conn[c].victim
                 /\ conn'[c].authed = conn[c].authed /\ conn'[c].pc = conn[c].pc
                 /\ conn'[c].open => conn[c].open
      <3>1. conn[c] \in GConn /\ conn'[c] = [conn[c] EXCEPT !.open = conn[c].open /\ table[g] # c]
        BY <1>0, <2>1
      <3> QED BY <3>1 DEF GConn
    <2>3. conn' \in [Conns -> GConn]
      BY <2>1, <2>2
    <2> QED BY <2>1, <2>2, <2>3, NobodyNew
  <1> QED BY <1>2, <1>3, <1>5, <1>6, <1>7

\* A login that is answered takes the record and the next session.
LEMMA LoginStep ==
  ASSUME GateInv, NEW c \in Conns, GateLogin(c)
  PROVE  GateInv'
  <1> DEFINE n == nextSess
  <1>0. /\ conn \in [Conns -> GConn] /\ conn[c] \in GConn /\ n \in Nat /\ n > 0
        /\ conn[c].pc = "serve" /\ ~conn[c].authed /\ nextSess' = n + 1
        /\ UNCHANGED <<table, closing>> /\ GateOf[c] \in Gates
        /\ presence' = [sess |-> n, gate |-> GateOf[c]]
    BY DEF GateInv, GateTypeOK, GConn, SessionsDistinct, GateLogin, Store
  <1>1. /\ presence' \in Record /\ presence' # NoRecord /\ presence'.sess = n
        /\ presence'.gate = GateOf[c]
    BY <1>0 DEF Record
  <1>2. \A k \in kicks' : k \in Record
    <2>1. presence # NoRecord => presence \in Record
      BY DEF GateInv, GateTypeOK, Record
    <2>2. \A k \in kicks : k \in Record
      BY DEF GateInv, GateTypeOK, Record
    <2> QED BY <2>1, <2>2 DEF GateLogin, KickPrevious
  <1>3. \A d \in Conns : conn[d] \in GConn /\ conn[d].sess \in Nat /\ conn[d].sess < n
    <2>1. \A d \in Conns : conn[d] \in GConn
      BY <1>0
    <2> QED BY <2>1 DEF GConn, GateInv, SessionsDistinct
  <1> HIDE DEF n
  <1>4. CASE UNCHANGED conn
    <2>1. GateTypeOK'
      BY <1>0, <1>1, <1>2, <1>4 DEF GateInv, GateTypeOK, Record
    <2>2. \A d \in Conns : ~Latest(d)'
      BY <1>0, <1>3, <1>4 DEF Latest
    <2>3. LatestHeld' /\ LatestInTable'
      BY <2>2 DEF LatestHeld, LatestInTable
    <2>4. SessionsDistinct'
      BY <1>0, <1>1, <1>3, <1>4 DEF GateInv, SessionsDistinct
    <2>5. SameGate'
      BY <1>0, <1>4 DEF GateInv, SameGate
    <2> QED BY <2>1, <2>3, <2>4, <2>5 DEF GateInv
  <1>5. CASE conn' = [conn EXCEPT ![c] = [@ EXCEPT !.pc = "swap", !.authed = TRUE, !.sess = nextSess]]
    <2> DEFINE x == [conn[c] EXCEPT !.pc = "swap", !.authed = TRUE, !.sess = n]
    <2>1. x \in GConn /\ x.pc = "swap" /\ x.sess = n /\ x.victim = conn[c].victim
      BY <1>0 DEF GConn
    <2>2. conn' = [conn EXCEPT ![c] = x]
      BY <1>5 DEF n
    <2> HIDE DEF x
    <2>3. /\ conn' \in [Conns -> GConn] /\ conn'[c] = x
          /\ \A d \in Conns \ {c} : conn'[d] = conn[d]
      BY <1>0, <2>1, <2>2
    <2>4. GateTypeOK'
      BY <1>0, <1>1, <1>2, <2>3 DEF GateInv, GateTypeOK, GConn, Record
    <2>5. \A d \in Conns : Latest(d)' => d = c
      BY <1>0, <1>3, <2>3 DEF Latest
    <2>6. LatestHeld' /\ LatestInTable'
      BY <1>1, <2>1, <2>3, <2>5 DEF LatestHeld, LatestInTable, Served
    <2>7. SessionsDistinct'
      <3>1. \A d \in Conns : conn'[d].sess < n + 1 /\ (conn'[d].authed => conn'[d].sess > 0)
                             /\ (conn'[d].pc = "none" => conn'[d].sess = 0)
        BY <1>0, <1>3, <2>1, <2>3 DEF GateInv, SessionsDistinct
      <3>2. \A d, e \in Conns : conn'[d].sess = conn'[e].sess /\ conn'[d].sess > 0 => d = e
        BY <1>3, <2>1, <2>3 DEF GateInv, SessionsDistinct
      <3> QED BY <1>0, <1>1, <3>1, <3>2 DEF SessionsDistinct
    <2>8. SameGate'
      BY <1>0, <2>1, <2>3 DEF GateInv, SameGate
    <2> QED BY <2>4, <2>6, <2>7, <2>8 DEF GateInv
  <1> QED BY <1>4, <1>5 DEF GateLogin

\* A swap puts the connection in the table; the one it replaces is its victim.
LEMMA SwapStep ==
  ASSUME GateInv, NEW c \in Conns, SwapTable(c)
  PROVE  GateInv'
  <1> DEFINE g == GateOf[c]
             x == IF table[g] \in {NoConn, c}
                  THEN [conn[c] EXCEPT !.pc = "serve", !.csess = conn[c].sess]
                  ELSE [conn[c] EXCEPT !.pc = "close", !.csess = conn[c].sess, !.victim = table[g]]
  <1>0. /\ conn \in [Conns -> GConn] /\ conn[c] \in GConn
        /\ table \in [Gates -> Conns \cup {NoConn}] /\ closing \subseteq Gates
        /\ conn[c].pc = "swap" /\ table' = [table EXCEPT ![g] = c] /\ g \in Gates
        /\ UNCHANGED <<presence, kicks, nextSess, closing>>
    BY DEF GateInv, GateTypeOK, GConn, SwapTable
  <1>1. conn' = [conn EXCEPT ![c] = x]
    BY DEF SwapTable
  <1>2. conn[c].victim = NoConn /\ table[g] \in Conns \cup {NoConn}
    BY <1>0 DEF GateInv, SameGate
  <1>3. /\ x \in GConn /\ x.sess = conn[c].sess /\ x.authed = conn[c].authed /\ x.open = conn[c].open
        /\ x.pc \in {"serve", "close"} /\ (x.victim # NoConn <=> x.pc = "close")
        /\ x.victim = IF table[g] = c THEN NoConn ELSE table[g]
    <2>1. CASE table[g] \in {NoConn, c}
      <3>1. x = [conn[c] EXCEPT !.pc = "serve", !.csess = conn[c].sess]
        BY <2>1
      <3> QED BY <1>0, <1>2, <2>1, <3>1 DEF GConn
    <2>2. CASE table[g] \notin {NoConn, c}
      <3>1. x = [conn[c] EXCEPT !.pc = "close", !.csess = conn[c].sess, !.victim = table[g]]
        BY <2>2
      <3> QED BY <1>0, <1>2, <2>2, <3>1 DEF GConn
    <2> QED BY <2>1, <2>2
  <1> HIDE DEF x
  <1>4. /\ conn' \in [Conns -> GConn] /\ conn'[c] = x
        /\ \A d \in Conns \ {c} : conn'[d] = conn[d]
        /\ table' \in [Gates -> Conns \cup {NoConn}] /\ table'[g] = c
        /\ \A h \in Gates \ {g} : table'[h] = table[h]
    BY <1>0, <1>1, <1>3
  <1>5. SameGate'
    <2>1. \A h \in Gates : table'[h] # NoConn => GateOf[table'[h]] = h
      BY <1>4 DEF GateInv, SameGate
    <2>2. table[g] # NoConn => GateOf[table[g]] = g
      BY <1>0 DEF GateInv, SameGate
    <2>3. x.victim # NoConn => x.victim # c /\ GateOf[x.victim] = g
      BY <1>3, <2>2
    <2> QED BY <1>3, <1>4, <2>1, <2>3 DEF GateInv, SameGate
  <1>6. LatestInTable'
    <2> SUFFICES ASSUME NEW d \in Conns, Latest(d)', Served(d)', \A e \in Conns : conn'[e].victim # d
                 PROVE  table'[GateOf[d]] = d
      BY DEF LatestInTable
    <2>1. CASE d = c
      BY <1>4, <2>1
    <2>2. CASE d # c
      <3>1. Latest(d) /\ Served(d)
        BY <1>0, <1>4, <2>2 DEF Latest, Served
      <3>2. \A e \in Conns : conn[e].victim # d
        BY <1>2, <1>4
      <3>3. table[GateOf[d]] = d
        BY <3>1, <3>2 DEF GateInv, LatestInTable
      <3>4. GateOf[d] # g
        BY <1>3, <1>4, <2>2, <3>3
      <3> QED BY <1>4, <3>3, <3>4
    <2> QED BY <2>1, <2>2
  <1>7. \A d \in Conns :
            /\ conn'[d].sess = conn[d].sess /\ (conn'[d].authed => conn[d].authed)
            /\ conn'[d].pc = "none" => conn[d].pc = "none"
            /\ conn[d].pc = "gone" => conn'[d].pc = "gone"
    BY <1>0, <1>3, <1>4
  <1> QED BY <1>0, <1>4, <1>5, <1>6, <1>7, NoLogin

\* The victim is closed.
LEMMA CloseStep ==
  ASSUME GateInv, NEW c \in Conns, ClosePrevious(c)
  PROVE  GateInv'
  <1> DEFINE v == conn[c].victim
             x == [conn[c] EXCEPT !.pc = "serve", !.victim = NoConn]
             y == [conn[v] EXCEPT !.open = FALSE]
  <1>0. /\ conn \in [Conns -> GConn] /\ conn[c] \in GConn /\ closing \subseteq Gates
        /\ table \in [Gates -> Conns \cup {NoConn}] /\ conn[c].pc = "close"
        /\ UNCHANGED <<presence, table, kicks, nextSess, closing>>
    BY DEF GateInv, GateTypeOK, GConn, ClosePrevious
  <1>1. v \in Conns /\ v # c /\ conn[v] \in GConn
    <2>1. v \in Conns \cup {NoConn}
      BY <1>0 DEF GConn
    <2> QED BY <1>0, <2>1 DEF GateInv, SameGate
  <1>2. /\ x \in GConn /\ x.sess = conn[c].sess /\ x.authed = conn[c].authed /\ x.open = conn[c].open
        /\ x.pc = "serve" /\ x.victim = NoConn
    BY <1>0 DEF GConn
  <1>3. /\ y \in GConn /\ y.sess = conn[v].sess /\ y.authed = conn[v].authed /\ y.open = FALSE
        /\ y.pc = conn[v].pc /\ y.victim = conn[v].victim
    BY <1>1 DEF GConn
  <1>4. conn' = [conn EXCEPT ![v] = y, ![c] = x]
    BY <1>0, <1>1 DEF ClosePrevious
  <1> HIDE DEF x, y, v
  <1>5. /\ conn' \in [Conns -> GConn] /\ conn'[c] = x /\ conn'[v] = y
        /\ \A d \in Conns \ {c, v} : conn'[d] = conn[d]
    BY <1>0, <1>1, <1>2, <1>3, <1>4
  <1>6. /\ \A d \in Conns \ {c} : conn'[d].victim = conn[d].victim /\ conn'[d].pc = conn[d].pc
        /\ \A d \in Conns : conn'[d].sess = conn[d].sess /\ conn'[d].authed = conn[d].authed
                             /\ (conn'[d].open => conn[d].open)
    BY <1>2, <1>3, <1>5
  <1>7. SameGate'
    BY <1>0, <1>2, <1>5, <1>6 DEF GateInv, SameGate
  <1>8. LatestInTable'
    <2> SUFFICES ASSUME NEW d \in Conns, Latest(d)', Served(d)', \A e \in Conns : conn'[e].victim # d
                 PROVE  table[GateOf[d]] = d
      BY <1>0 DEF LatestInTable
    <2>1. d # v
      BY <1>3, <1>5 DEF Served
    <2>2. Latest(d) /\ Served(d)
      BY <1>0, <1>6 DEF Latest, Served
    <2>3. \A e \in Conns : conn[e].victim # d
      BY <1>6, <2>1 DEF v
    <2> QED BY <2>2, <2>3 DEF GateInv, LatestInTable
  <1>9. \A d \in Conns : /\ conn'[d].pc = "none" => conn[d].pc = "none"
                         /\ conn[d].pc = "gone" => conn'[d].pc = "gone"
    BY <1>0, <1>2, <1>5, <1>6
  <1> QED BY <1>0, <1>5, <1>6, <1>7, <1>8, <1>9, NoLogin

\* The end of a connection that is in the table, and of one that is not.
LEMMA CleanupStep ==
  ASSUME GateInv, NEW c \in Conns, Cleanup(c)
  PROVE  GateInv'
  <1> DEFINE g == GateOf[c]
             mine == conn[c].authed /\ table[g] = c
             x == [conn[c] EXCEPT !.pc = IF mine THEN "remove" ELSE "gone"]
  <1>0. /\ conn \in [Conns -> GConn] /\ conn[c] \in GConn
        /\ table \in [Gates -> Conns \cup {NoConn}] /\ closing \subseteq Gates
        /\ conn[c].pc = "serve" /\ g \in Gates
        /\ UNCHANGED <<presence, kicks, nextSess, closing>>
    BY DEF GateInv, GateTypeOK, GConn, Cleanup
  <1>1. conn' = [conn EXCEPT ![c] = x] /\ table' = IF mine THEN [table EXCEPT ![g] = NoConn] ELSE table
    BY DEF Cleanup
  <1>2. /\ x \in GConn /\ x.sess = conn[c].sess /\ x.authed = conn[c].authed
        /\ x.pc \in {"remove", "gone"} /\ x.victim = conn[c].victim
    BY <1>0 DEF GConn
  <1> HIDE DEF x
  <1>3. /\ conn' \in [Conns -> GConn] /\ conn'[c] = x
        /\ \A d \in Conns \ {c} : conn'[d] = conn[d]
        /\ table' \in [Gates -> Conns \cup {NoConn}]
        /\ \A h \in Gates : table'[h] = table[h] \/ (table'[h] = NoConn /\ table[h] = c)
    BY <1>0, <1>1, <1>2
  <1>4. SameGate'
    BY <1>0, <1>2, <1>3 DEF GateInv, SameGate
  <1>5. LatestInTable'
    <2> SUFFICES ASSUME NEW d \in Conns, Latest(d)', Served(d)', \A e \in Conns : conn'[e].victim # d
                 PROVE  table'[GateOf[d]] = d
      BY DEF LatestInTable
    <2>1. d # c
      BY <1>2, <1>3 DEF Served
    <2>2. Latest(d) /\ Served(d)
      BY <1>0, <1>3, <2>1 DEF Latest, Served
    <2>3. \A e \in Conns : conn[e].victim # d
      BY <1>2, <1>3
    <2>4. table[GateOf[d]] = d /\ GateOf[d] \in Gates
      BY <2>2, <2>3 DEF GateInv, LatestInTable
    <2> QED BY <1>3, <2>1, <2>4
  <1>6. \A d \in Conns :
            /\ conn'[d].sess = conn[d].sess /\ (conn'[d].authed => conn[d].authed)
            /\ conn'[d].pc = "none" => conn[d].pc = "none"
            /\ conn[d].pc = "gone" => conn'[d].pc = "gone"
    BY <1>0, <1>2, <1>3
  <1> QED BY <1>0, <1>3, <1>4, <1>5, <1>6, NoLogin

\* A process dies: the tables and connections of other gates stay.
LEMMA CrashStep ==
  ASSUME GateInv, NEW g \in Gates, GateCrash(g)
  PROVE  GateInv'
  <1>0. /\ conn \in [Conns -> GConn] /\ closing \subseteq Gates
        /\ table \in [Gates -> Conns \cup {NoConn}] /\ table' = [table EXCEPT ![g] = NoConn]
        /\ UNCHANGED <<presence, kicks, nextSess, closing>>
    BY DEF GateInv, GateTypeOK, GConn, GateCrash
  <1>1. conn' = [c \in Conns |->
            IF GateOf[c] = g /\ Running(c)
            THEN [conn[c] EXCEPT !.pc = "gone", !.open = FALSE, !.victim = NoConn] ELSE conn[c]]
    BY DEF GateCrash
  <1>2. ASSUME NEW c \in Conns
        PROVE  /\ conn'[c] \in GConn /\ conn'[c].sess = conn[c].sess
               /\ conn'[c].authed = conn[c].authed
               /\ IF GateOf[c] = g /\ Running(c) THEN conn'[c].pc = "gone" /\ conn'[c].victim = NoConn
                  ELSE conn'[c] = conn[c]
    <2>1. conn[c] \in GConn
      BY <1>0
    <2>2. CASE GateOf[c] = g /\ Running(c)
      <3>1. conn'[c] = [conn[c] EXCEPT !.pc = "gone", !.open = FALSE, !.victim = NoConn]
        BY <1>1, <2>2
      <3> QED BY <2>1, <2>2, <3>1 DEF GConn
    <2>3. CASE ~(GateOf[c] = g /\ Running(c))
      BY <1>1, <2>1, <2>3
    <2> QED BY <2>2, <2>3
  <1>3. conn' \in [Conns -> GConn] /\ table' \in [Gates -> Conns \cup {NoConn}]
        /\ table'[g] = NoConn /\ \A h \in Gates \ {g} : table'[h] = table[h]
    BY <1>0, <1>1, <1>2
  <1>4. SameGate'
    <2>1. \A h \in Gates : table'[h] # NoConn => GateOf[table'[h]] = h
      BY <1>3 DEF GateInv, SameGate
    <2> QED BY <1>2, <2>1 DEF GateInv, SameGate
  <1>5. LatestInTable'
    <2> SUFFICES ASSUME NEW d \in Conns, Latest(d)', Served(d)', \A e \in Conns : conn'[e].victim # d
                 PROVE  table'[GateOf[d]] = d
      BY DEF LatestInTable
    <2>1. GateOf[d] # g /\ conn'[d] = conn[d]
      BY <1>2 DEF Served, Running
    <2>2. Latest(d) /\ Served(d)
      BY <1>0, <2>1 DEF Latest, Served
    <2>3. \A e \in Conns : conn[e].victim # d
      <3> SUFFICES ASSUME NEW e \in Conns, conn[e].victim = d  PROVE FALSE
        OBVIOUS
      <3>1. GateOf[e] = GateOf[d]
        BY DEF GateInv, SameGate
      <3> QED BY <1>2, <2>1, <3>1
    <2>4. table[GateOf[d]] = d /\ GateOf[d] \in Gates
      BY <2>2, <2>3 DEF GateInv, LatestInTable
    <2> QED BY <1>3, <2>1, <2>4
  <1>6. \A d \in Conns : /\ conn'[d].pc = "none" => conn[d].pc = "none"
                         /\ conn[d].pc = "gone" => conn'[d].pc = "gone"
    BY <1>2
  <1> QED BY <1>0, <1>2, <1>3, <1>4, <1>5, <1>6, NoLogin

\* A connection removes no record but its own.
LEMMA RemoveStep ==
  ASSUME GateInv, NEW c \in Conns, Remove(c)
  PROVE  GateInv'
  <1> DEFINE x == [conn[c] EXCEPT !.pc = "gone"]
  <1>0. /\ conn \in [Conns -> GConn] /\ conn[c] \in GConn
        /\ conn[c].pc = "remove" /\ UNCHANGED <<table, kicks, nextSess, closing>>
        /\ conn' = [conn EXCEPT ![c] = x]
    BY DEF GateInv, GateTypeOK, GConn, Remove
  <1>1. /\ x \in GConn /\ x.sess = conn[c].sess /\ x.authed = conn[c].authed
        /\ x.pc = "gone" /\ x.victim = conn[c].victim
    BY <1>0 DEF GConn
  <1> HIDE DEF x
  <1>2. /\ conn' \in [Conns -> GConn] /\ conn'[c] = x
        /\ \A d \in Conns \ {c} : conn'[d] = conn[d]
    BY <1>0, <1>1
  <1>3. presence' = presence \/ (Held(c) /\ presence' = NoRecord)
    BY DEF Remove
  <1>4. GateTypeOK'
    BY <1>0, <1>2, <1>3 DEF GateInv, GateTypeOK, GConn
  <1>5. SessionsDistinct'
    <2>1. \A d \in Conns : /\ conn'[d].sess = conn[d].sess /\ conn'[d].authed = conn[d].authed
                           /\ conn'[d].pc = "none" => conn[d].pc = "none"
      BY <1>1, <1>2
    <2> QED BY <1>0, <1>3, <2>1 DEF GateInv, SessionsDistinct
  <1>6. SameGate'
    BY <1>0, <1>1, <1>2 DEF GateInv, SameGate
  <1>7. LatestInTable'
    <2> SUFFICES ASSUME NEW d \in Conns, Latest(d)', Served(d)', \A e \in Conns : conn'[e].victim # d
                 PROVE  table[GateOf[d]] = d
      BY <1>0 DEF LatestInTable
    <2>1. d # c
      BY <1>1, <1>2 DEF Served
    <2>2. Latest(d) /\ Served(d)
      BY <1>0, <1>2, <2>1 DEF Latest, Served
    <2>3. \A e \in Conns : conn[e].victim # d
      BY <1>1, <1>2
    <2> QED BY <2>2, <2>3 DEF GateInv, LatestInTable
  <1>8. LatestHeld'
    <2> SUFFICES ASSUME NEW d \in Conns, Latest(d)',
                        conn'[d].pc \in {"serve", "swap", "close", "remove"}
                 PROVE  /\ presence' # NoRecord /\ presence'.sess = conn'[d].sess
                        /\ presence'.gate = GateOf[d]
      BY DEF LatestHeld
    <2>1. d # c
      BY <1>1, <1>2
    <2>2. Latest(d) /\ conn'[d] = conn[d]
      BY <1>0, <1>2, <2>1 DEF Latest
    <2>3. presence # NoRecord /\ presence.sess = conn[d].sess /\ presence.gate = GateOf[d]
      BY <2>2 DEF GateInv, LatestHeld
    <2>4. ~Held(c)
      BY <2>1, <2>2, <2>3 DEF Held, GateInv, SessionsDistinct, Latest
    <2> QED BY <1>3, <2>2, <2>3, <2>4
  <1> QED BY <1>4, <1>5, <1>6, <1>7, <1>8 DEF GateInv

\* Every step of Gate.
LEMMA GateKeeps ==
  ASSUME GateInv, GateNext
  PROVE  GateInv'
  BY QuietSteps, LoginStep, SwapStep, CloseStep, CleanupStep, CrashStep, RemoveStep DEF GateNext

\* Service discovery leaves Gate alone.
LEMMA GateElsewhere ==
  ASSUME GateInv, UNCHANGED gateVars
  PROVE  GateInv'
  BY DEF gateVars, GateInv, GateTypeOK, SessionsDistinct, SameGate, LatestHeld, LatestInTable,
         Latest, Served

-----------------------------------------------------------------------------
(* Service discovery.                                                      *)

Lookup == [pc : {"idle", "get", "srem", "pick"}, ids : SUBSET Instances, live : SUBSET Instances]
Entry == [inst : Instances \cup {NoInstance}, fresh : BOOLEAN]

\* Nobody is registered at the start.
LEMMA DiscStart == DiscInit => DiscTypeOK
  BY DEF DiscInit, DiscTypeOK, Idle

\* The steps of an instance.
LEMMA InstanceSteps ==
  ASSUME DiscTypeOK, NEW i \in Instances,
         \/ StartInstance(i) \/ Tick(i) \/ SetKey(i) \/ AddIndex(i) \/ BeatFails(i)
         \/ Stop(i) \/ DelKey(i) \/ RemIndex(i) \/ Crash(i) \/ Expire(i)
  PROVE  DiscTypeOK'
  <1>1. UNCHANGED <<res, cache>>
    BY DEF StartInstance, Tick, SetKey, AddIndex, BeatFails, Stop, DelKey, RemIndex, Crash, Expire
  <1>2. /\ life' \in [Instances -> {"down", "starting", "up", "del", "srem"}]
        /\ hb' \in [Instances -> {"rest", "set", "sadd"}]
    BY DEF DiscTypeOK, StartInstance, Tick, SetKey, AddIndex, BeatFails, Stop, DelKey, RemIndex,
           Crash, Expire, Live, Beat
  <1>3. missed' \in [Instances -> BOOLEAN] /\ key' \subseteq Instances /\ index' \subseteq Instances
    BY DEF DiscTypeOK, StartInstance, Tick, SetKey, AddIndex, BeatFails, Stop, DelKey, RemIndex,
           Crash, Expire
  <1>4. faults' \in 0..MaxFaults
    BY DEF DiscTypeOK, StartInstance, Tick, SetKey, AddIndex, BeatFails, Stop, DelKey, RemIndex,
           Crash, Expire, Fault
  <1> QED BY <1>1, <1>2, <1>3, <1>4 DEF DiscTypeOK

\* The steps of the resolver, which never tries an instance it did not list.
LEMMA ResolverSteps ==
  ASSUME DiscTypeOK,
         CacheLapses \/ ListIds \/ GetIds \/ RemStale \/ Pick \/ LookupFails
  PROVE  DiscTypeOK'
  <1>0. /\ UNCHANGED <<life, hb, missed, key>> /\ res \in Lookup /\ res.live \subseteq res.ids
        /\ res.ids \in SUBSET Instances /\ res.live \in SUBSET Instances
        /\ cache \in Entry /\ index \subseteq Instances /\ key \subseteq Instances
    BY DEF CacheLapses, ListIds, GetIds, RemStale, Pick, LookupFails, DiscTypeOK, Lookup, Entry
  <1>1. index' \subseteq Instances /\ faults' \in 0..MaxFaults
    BY <1>0 DEF CacheLapses, ListIds, GetIds, RemStale, Pick, LookupFails, DiscTypeOK, Fault
  <1>2. Idle \in Lookup /\ Idle.live \subseteq Idle.ids
    BY DEF Idle, Lookup
  <1>3. \A i \in Instances : [inst |-> i, fresh |-> TRUE] \in Entry
    BY DEF Entry
  <1>4. [cache EXCEPT !.fresh = FALSE] \in Entry
    BY <1>0 DEF Entry
  <1>5. cache' \in Entry
    BY <1>0, <1>3, <1>4 DEF CacheLapses, ListIds, GetIds, RemStale, Pick, LookupFails
  <1>6. res' \in Lookup /\ res'.live \subseteq res'.ids
    <2>1. CASE CacheLapses \/ res' = Idle
      BY <1>0, <1>2, <2>1 DEF CacheLapses
    <2>2. CASE ListIds /\ res' # Idle
      BY <1>0, <2>2 DEF ListIds, Lookup
    <2>3. CASE GetIds
      BY <1>0, <2>3 DEF GetIds, Lookup
    <2>4. CASE RemStale
      BY <1>0, <2>4 DEF RemStale, Lookup
    <2>5. CASE Pick /\ res' # Idle
      <3>1. PICK i \in res.live : res' = [res EXCEPT !.live = res.live \ {i}]
        BY <2>5 DEF Pick
      <3> QED BY <1>0, <3>1 DEF Lookup
    <2> QED BY <2>1, <2>2, <2>3, <2>4, <2>5 DEF LookupFails
  <1> QED BY <1>0, <1>1, <1>5, <1>6 DEF DiscTypeOK, Lookup, Entry

-----------------------------------------------------------------------------
(* The two together.                                                       *)

OnlineInv == GateInv /\ DiscTypeOK

\* The invariants of Gate and of service discovery hold together.
THEOREM OnlineInvariant == Spec => []OnlineInv
  <1>1. Init => OnlineInv
    BY GateStart, DiscStart DEF Init, OnlineInv
  <1>2. OnlineInv /\ [Next]_vars => OnlineInv'
    <2>1. ASSUME OnlineInv, GateService  PROVE OnlineInv'
      <3>1. GateInv'
        BY <2>1, GateKeeps DEF GateService, OnlineInv
      <3> QED BY <2>1, <3>1 DEF GateService, OnlineInv, DiscTypeOK, discVars
    <2>2. ASSUME OnlineInv, DiscoveryService  PROVE OnlineInv'
      <3>1. DiscTypeOK'
        BY <2>2, InstanceSteps, ResolverSteps DEF DiscoveryService, DiscNext, OnlineInv
      <3> QED BY <2>2, <3>1, GateElsewhere DEF DiscoveryService, OnlineInv
    <2>3. ASSUME OnlineInv, UNCHANGED vars  PROVE OnlineInv'
      <3>1. UNCHANGED gateVars /\ DiscTypeOK'
        BY <2>3 DEF vars, discVars, OnlineInv, DiscTypeOK
      <3> QED BY <2>3, <3>1, GateElsewhere DEF OnlineInv
    <2> QED BY <2>1, <2>2, <2>3 DEF Next
  <1> QED BY <1>1, <1>2, PTL DEF Spec

\* The variables of Gate and of service discovery have their types.
THEOREM OnlineTypes == Spec => []TypeOK
  <1>1. OnlineInv => TypeOK
    BY DEF OnlineInv, GateInv, TypeOK
  <1> QED BY <1>1, OnlineInvariant, PTL

\* While the connection that logged in last is served, its record and its place
\* in the table stay, so that a push reaches it: no late cleanup, removal, kick
\* or swap of another session and no crash of another gate takes them, for any
\* number of gates, connections and logins.
THEOREM LastLoginIsReachable == Spec => []Reachable
  <1>1. OnlineInv => Reachable
    BY GateConcludes DEF OnlineInv
  <1> QED BY <1>1, OnlineInvariant, PTL

-----------------------------------------------------------------------------
(* Gate: what ends a login.                                                *)

\* The entry of a connection that is served has the connection's session, and a
\* kick that is on its way is for a session that was followed by another.
EntryIsOwn == \A c \in Conns : conn[c].pc \in {"serve", "close"} /\ conn[c].authed =>
                  conn[c].csess = conn[c].sess
KicksAreLate == \A k \in kicks : k.sess < nextSess - 1

\* What a step may do to one connection.
Stays(x, y) == /\ y.sess = x.sess /\ y.csess = x.csess /\ y.authed = x.authed
               /\ y.pc = x.pc \/ y.pc \in {"remove", "gone"} \/ (x.pc = "close" /\ y.pc = "serve")
ConnMoves(c) ==
    \/ Stays(conn[c], conn'[c])
    \/ ~conn'[c].authed /\ ~conn[c].authed
    \/ ~conn'[c].authed /\ StalePing(c)
    \/ GateLogin(c) /\ conn'[c].pc = "swap" /\ conn'[c].authed
    \/ conn'[c].authed = conn[c].authed /\ conn'[c].csess = conn'[c].sess

\* Every step does one of these to each connection.
LEMMA ConnsMove ==
  ASSUME GateInv, GateNext, NEW c \in Conns
  PROVE  ConnMoves(c)
  <1>0. /\ conn \in [Conns -> GConn] /\ \A d \in Conns : conn[d] \in GConn
        /\ table \in [Gates -> Conns \cup {NoConn}] /\ \A k \in kicks : k.gate \in Gates
    BY DEF GateInv, GateTypeOK, GConn
  <1>1. CASE conn'[c] = conn[c]
    BY <1>1 DEF ConnMoves, Stays
  <1>2. ASSUME NEW d \in Conns, NEW x, conn' = [conn EXCEPT ![d] = x], conn'[c] # conn[c]
        PROVE  c = d /\ conn'[c] = x
    BY <1>0, <1>2
  <1>3. ASSUME NEW d \in Conns, Accept(d), conn'[c] # conn[c]
        PROVE  ConnMoves(c)
    <2>p. PICK o \in 0..MaxConnPerIP :
            conn' = [conn EXCEPT ![d] =
                IF Acquires(d, o) THEN [@ EXCEPT !.pc = "serve", !.open = TRUE]
                ELSE [@ EXCEPT !.pc = "gone"]]
      BY <1>3 DEF Accept
    <2> DEFINE x == IF Acquires(d, o) THEN [conn[d] EXCEPT !.pc = "serve", !.open = TRUE]
                    ELSE [conn[d] EXCEPT !.pc = "gone"]
    <2>1. conn' = [conn EXCEPT ![d] = x] /\ conn[d].pc = "none"
      BY <1>3, <2>p DEF Accept
    <2>2. ~conn[d].authed
      BY <2>1 DEF GateInv, SessionsDistinct
    <2>3. x.authed = conn[d].authed
      BY <1>0 DEF GConn
    <2> HIDE DEF x
    <2>4. c = d /\ conn'[c] = x
      BY <1>2, <1>3, <2>1
    <2> QED BY <2>2, <2>3, <2>4 DEF ConnMoves
  <1>4. ASSUME NEW d \in Conns, GateLogin(d), conn'[c] # conn[c]
        PROVE  ConnMoves(c)
    <2> DEFINE x == [conn[d] EXCEPT !.pc = "swap", !.authed = TRUE, !.sess = nextSess]
    <2>1. conn' = [conn EXCEPT ![d] = x]
      BY <1>4 DEF GateLogin
    <2>2. x.pc = "swap" /\ x.authed
      BY <1>0 DEF GConn
    <2> HIDE DEF x
    <2>3. c = d /\ conn'[c] = x
      BY <1>2, <1>4, <2>1
    <2> QED BY <1>4, <2>2, <2>3 DEF ConnMoves
  <1>5. ASSUME NEW d \in Conns, SwapTable(d), conn'[c] # conn[c]
        PROVE  ConnMoves(c)
    <2> DEFINE g == GateOf[d]
               x == IF table[g] \in {NoConn, d}
                    THEN [conn[d] EXCEPT !.pc = "serve", !.csess = conn[d].sess]
                    ELSE [conn[d] EXCEPT !.pc = "close", !.csess = conn[d].sess, !.victim = table[g]]
    <2>1. conn' = [conn EXCEPT ![d] = x]
      BY <1>5 DEF SwapTable
    <2>2. x.authed = conn[d].authed /\ x.csess = x.sess
      BY <1>0 DEF GConn
    <2> HIDE DEF x
    <2>3. c = d /\ conn'[c] = x
      BY <1>2, <1>5, <2>1
    <2> QED BY <2>2, <2>3 DEF ConnMoves
  <1>6. ASSUME NEW d \in Conns, ClosePrevious(d), conn'[c] # conn[c]
        PROVE  ConnMoves(c)
    <2> DEFINE v == conn[d].victim
               x == [conn[d] EXCEPT !.pc = "serve", !.victim = NoConn]
               y == [conn[v] EXCEPT !.open = FALSE]
    <2>0. conn[d].pc = "close"
      BY <1>6 DEF ClosePrevious
    <2>1. v \in Conns /\ v # d
      <3>1. v \in Conns \cup {NoConn}
        BY <1>0 DEF GConn
      <3> QED BY <2>0, <3>1 DEF GateInv, SameGate
    <2>2. Stays(conn[d], x) /\ Stays(conn[v], y)
      BY <1>0, <2>0, <2>1 DEF GConn, Stays
    <2>3. conn' = [conn EXCEPT ![v] = y, ![d] = x]
      BY <1>0, <1>6, <2>1 DEF ClosePrevious
    <2> HIDE DEF x, y, v
    <2>4. (c = d /\ conn'[c] = x) \/ (c = v /\ conn'[c] = y)
      BY <1>0, <1>6, <2>1, <2>3
    <2> QED BY <2>2, <2>4 DEF ConnMoves
  <1>7. ASSUME NEW d \in Conns, StalePing(d), conn'[c] # conn[c]
        PROVE  ConnMoves(c)
    <2> DEFINE x == [conn[d] EXCEPT !.authed = FALSE]
    <2>1. conn' = [conn EXCEPT ![d] = x]
      BY <1>7 DEF StalePing
    <2>2. ~x.authed
      BY <1>0 DEF GConn
    <2> HIDE DEF x
    <2>3. c = d /\ conn'[c] = x
      BY <1>2, <1>7, <2>1
    <2> QED BY <1>7, <2>2, <2>3 DEF ConnMoves
  <1>8. ASSUME NEW d \in Conns, conn' = [conn EXCEPT ![d].open = FALSE], conn'[c] # conn[c]
        PROVE  ConnMoves(c)
    <2> DEFINE x == [conn[d] EXCEPT !.open = FALSE]
    <2>1. conn' = [conn EXCEPT ![d] = x]
      BY <1>8
    <2>2. Stays(conn[d], x)
      BY <1>0 DEF GConn, Stays
    <2> HIDE DEF x
    <2>3. c = d /\ conn'[c] = x
      BY <1>2, <1>8, <2>1
    <2> QED BY <2>2, <2>3 DEF ConnMoves
  <1>9. ASSUME NEW d \in Conns, NEW pc \in {"remove", "gone"}, conn' = [conn EXCEPT ![d].pc = pc],
               conn'[c] # conn[c]
        PROVE  ConnMoves(c)
    <2> DEFINE x == [conn[d] EXCEPT !.pc = pc]
    <2>1. conn' = [conn EXCEPT ![d] = x]
      BY <1>9
    <2>2. Stays(conn[d], x)
      BY <1>0 DEF GConn, Stays
    <2> HIDE DEF x
    <2>3. c = d /\ conn'[c] = x
      BY <1>2, <1>9, <2>1
    <2> QED BY <2>2, <2>3 DEF ConnMoves
  <1>10. ASSUME NEW d \in Conns, Cleanup(d) \/ Remove(d) \/ ConnEnds(d), conn'[c] # conn[c]
         PROVE  ConnMoves(c)
    <2>1. \/ conn' = [conn EXCEPT ![d].open = FALSE]
          \/ \E pc \in {"remove", "gone"} : conn' = [conn EXCEPT ![d].pc = pc]
      BY <1>10 DEF Cleanup, Remove, ConnEnds
    <2> QED BY <1>8, <1>9, <1>10, <2>1
  <1>11. ASSUME NEW k \in kicks, HandleKick(k), conn'[c] # conn[c]
         PROVE  ConnMoves(c)
    <2>1. /\ table[k.gate] \in Conns
          /\ conn' = [conn EXCEPT ![table[k.gate]].open = FALSE]
      BY <1>0, <1>11 DEF HandleKick
    <2> QED BY <1>8, <1>11, <2>1
  <1>12. ASSUME NEW g \in Gates, Shutdown(g) \/ GateCrash(g), conn'[c] # conn[c]
         PROVE  ConnMoves(c)
    <2>1. \/ conn'[c] = [conn[c] EXCEPT !.open = conn[c].open /\ table[g] # c]
          \/ conn'[c] = [conn[c] EXCEPT !.pc = "gone", !.open = FALSE, !.victim = NoConn]
      BY <1>12 DEF Shutdown, GateCrash
    <2>2. Stays(conn[c], conn'[c])
      BY <1>0, <2>1 DEF GConn, Stays
    <2> QED BY <2>2 DEF ConnMoves
  <1> QED BY <1>1, <1>3, <1>4, <1>5, <1>6, <1>7, <1>10, <1>11, <1>12 DEF GateNext

\* A kick is sent for the session that a login replaces.
LEMMA KicksStayLate ==
  ASSUME GateInv, GateNext, KicksAreLate
  PROVE  KicksAreLate'
  <1>0. nextSess \in Nat /\ \A k \in kicks : k.sess \in Nat
    BY DEF GateInv, GateTypeOK
  <1>1. ASSUME NEW c \in Conns, GateLogin(c)
        PROVE  KicksAreLate'
    <2>1. nextSess' = nextSess + 1 /\ \A k \in kicks' : k \in kicks \/ (presence # NoRecord /\ k = presence)
      BY <1>1 DEF GateLogin, KickPrevious
    <2>2. presence # NoRecord => presence.sess \in Nat /\ presence.sess < nextSess
      BY DEF GateInv, GateTypeOK, SessionsDistinct
    <2>3. ASSUME NEW k \in kicks'  PROVE k.sess < nextSess' - 1
      <3>1. k.sess \in Nat /\ k.sess < nextSess
        BY <1>0, <2>1, <2>2, <2>3 DEF KicksAreLate
      <3> QED BY <1>0, <2>1, <3>1
    <2> QED BY <2>3 DEF KicksAreLate
  <1>2. CASE kicks' \subseteq kicks /\ nextSess' = nextSess
    BY <1>2 DEF KicksAreLate
  <1> QED BY <1>1, <1>2 DEF GateNext, Accept, SwapTable, ClosePrevious, StalePing, ConnEnds, Cleanup,
             Remove, HandleKick, Shutdown, GateCrash

\* The entry gets the session with the swap.
LEMMA EntryStaysOwn ==
  ASSUME GateInv, GateNext, EntryIsOwn
  PROVE  EntryIsOwn'
  <1> SUFFICES ASSUME NEW c \in Conns, conn'[c].pc \in {"serve", "close"}, conn'[c].authed
               PROVE  conn'[c].csess = conn'[c].sess
    BY DEF EntryIsOwn
  <1>1. ConnMoves(c)
    BY ConnsMove
  <1>2. CASE Stays(conn[c], conn'[c])
    BY <1>2 DEF Stays, EntryIsOwn
  <1>3. CASE ~Stays(conn[c], conn'[c])
    BY <1>1, <1>3 DEF ConnMoves
  <1> QED BY <1>2, <1>3

KickInv == OnlineInv /\ EntryIsOwn /\ KicksAreLate

\* Kicks are late and entries are own in every state.
THEOREM KickInvariant == Spec => []KickInv
  <1> DEFINE Late == EntryIsOwn /\ KicksAreLate
  <1>1. Init => Late
    BY DEF Init, GateInit, EntryIsOwn, KicksAreLate
  <1>2. OnlineInv /\ Late /\ [Next]_vars => Late'
    <2>1. ASSUME OnlineInv, Late, GateService  PROVE Late'
      BY <2>1, KicksStayLate, EntryStaysOwn DEF GateService, OnlineInv
    <2>2. ASSUME Late, UNCHANGED gateVars  PROVE Late'
      BY <2>2 DEF gateVars, EntryIsOwn, KicksAreLate
    <2> QED BY <2>1, <2>2 DEF Next, vars, DiscoveryService
  <1>3. OnlineInv /\ Late => KickInv
    BY DEF KickInv
  <1> HIDE DEF Late
  <1> QED BY <1>1, <1>2, <1>3, OnlineInvariant, PTL DEF Spec

\* The connection with the latest session is not logged out by a step, and no
\* kick closes it.
LatestSpared ==
    \A c \in Conns :
        conn[c].pc = "serve" /\ conn[c].authed /\ conn[c].sess = nextSess - 1 =>
            /\ conn'[c].authed
            /\ (\E k \in kicks : HandleKick(k)) => conn'[c].open = conn[c].open

\* Only a session that a newer one followed is ended by its ping or by a kick,
\* however late the kick arrives and wherever its connection has moved since.  An
\* older login of the same gate that swaps the table later may still close it.
THEOREM LastLoginIsSpared == Spec => [][LatestSpared]_gateVars
  <1>1. ASSUME KickInv, [Next]_vars
        PROVE  [LatestSpared]_gateVars
    <2>1. CASE GateService
      <3> SUFFICES ASSUME NEW c \in Conns, conn[c].pc = "serve", conn[c].authed,
                          conn[c].sess = nextSess - 1
                   PROVE  /\ conn'[c].authed
                          /\ (\E k \in kicks : HandleKick(k)) => conn'[c].open = conn[c].open
        BY DEF LatestSpared
      <3>0. /\ GateInv /\ GateNext /\ conn[c].csess = nextSess - 1 /\ nextSess \in Nat
            /\ conn \in [Conns -> GConn] /\ table \in [Gates -> Conns \cup {NoConn}]
            /\ \A k \in kicks : k.sess \in Nat /\ k.sess < nextSess - 1 /\ k.gate \in Gates
        BY <1>1, <2>1 DEF KickInv, OnlineInv, EntryIsOwn, KicksAreLate, GateInv, GateTypeOK,
                          GConn, GateService
      <3>1. Held(c)
        <4>1. Latest(c)
          BY <3>0 DEF Latest, GateInv, SessionsDistinct
        <4> QED BY <3>0, <4>1 DEF GateInv, LatestHeld, Held
      <3>2. conn'[c].authed
        <4>1. ~StalePing(c)
          BY <3>1 DEF StalePing
        <4>2. ConnMoves(c)
          BY <3>0, ConnsMove
        <4> QED BY <4>1, <4>2 DEF ConnMoves, Stays
      <3>3. ASSUME NEW k \in kicks, HandleKick(k)
            PROVE  conn'[c] = conn[c]
        <4> DEFINE t == table[k.gate]
        <4>1. CASE UNCHANGED conn
          BY <4>1
        <4>2. CASE ~UNCHANGED conn
          <5>1. t \in Conns /\ conn[t].csess = k.sess /\ conn' = [conn EXCEPT ![t].open = FALSE]
            BY <3>0, <3>3, <4>2 DEF HandleKick
          <5>2. t # c
            BY <3>0, <5>1
          <5> QED BY <3>0, <5>1, <5>2
        <4> QED BY <4>1, <4>2
      <3> QED BY <3>2, <3>3
    <2>2. CASE ~GateService
      BY <1>1, <2>2 DEF Next, vars, DiscoveryService
    <2> QED BY <2>1, <2>2
  <1> QED BY <1>1, KickInvariant, PTL DEF Spec

=============================================================================
