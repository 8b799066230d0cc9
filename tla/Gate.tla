-------------------------------- MODULE Gate --------------------------------
(***************************************************************************)
(* The connections of one role to the Gate processes, the presence record  *)
(* in Redis that says where the role is online, and the three ways a       *)
(* connection that was superseded ends: the newer connection of the same   *)
(* gate closes it, the newer gate kicks it, or its own ping finds that the *)
(* session is no longer the recorded one.                                  *)
(*                                                                         *)
(* Each connection has one goroutine that serves its frames in order; a    *)
(* login stores presence, swaps the connection table and closes the        *)
(* previous connection in three steps.                                     *)
(***************************************************************************)
EXTENDS Naturals, FiniteSets

CONSTANTS
    Gates, Conns, GateOf,   \* gate processes, connections, the gate of each
    AddrOf,                 \* the address each connection comes from
    Pinging,                \* connections whose clients send pings
    MaxConnPerIP,           \* connections a gate accepts from one address
    MaxSessions,            \* bound on the logins
    NoConn, NoRecord

ASSUME GateAssumption ==
    /\ GateOf \in [Conns -> Gates] /\ Pinging \subseteq Conns
    /\ MaxConnPerIP \in Nat \ {0} /\ MaxSessions \in Nat
    /\ NoConn \notin Conns /\ NoRecord \notin [sess : Nat, gate : Gates]

VARIABLES
    presence,   \* the record of the role: session and gate, or NoRecord
    conn,       \* connections; csess is the session of the table's clientConn
    table,      \* per gate: the connection in s.conns, or NoConn
    kicks,      \* /internal/kick requests on their way
    nextSess,   \* sessions are numbered in the order they are stored
    closing     \* gates that are shutting down

gateVars == <<presence, conn, table, kicks, nextSess, closing>>

GateInit ==
    /\ presence = NoRecord
    /\ conn = [c \in Conns |-> [pc |-> "none", sess |-> 0, csess |-> 0, authed |-> FALSE,
                                open |-> FALSE, victim |-> NoConn]]
    /\ table = [g \in Gates |-> NoConn]
    /\ kicks = {}
    /\ nextSess = 1
    /\ closing = {}

Running(c) == conn[c].pc \notin {"none", "gone"}
Held(c) == presence # NoRecord /\ presence.sess = conn[c].sess

-----------------------------------------------------------------------------
\* connLimiter: the connections from the address that are not over yet count,
\* those of the role and those of other roles.
Acquires(c, others) ==
    LET mine == {d \in Conns : /\ GateOf[d] = GateOf[c] /\ AddrOf[d] = AddrOf[c]
                               /\ Running(d)}
    IN  Cardinality(mine) + others < MaxConnPerIP

\* acceptLoop: the limiter refuses a connection past the address's limit.
Accept(c) ==
    /\ conn[c].pc = "none"
    /\ GateOf[c] \notin closing
    /\ \E others \in 0..MaxConnPerIP :
          conn' = [conn EXCEPT ![c] =
              IF Acquires(c, others) THEN [@ EXCEPT !.pc = "serve", !.open = TRUE]
              ELSE [@ EXCEPT !.pc = "gone"]]
    /\ UNCHANGED <<presence, table, kicks, nextSess, closing>>

Store(c) == presence' = [sess |-> nextSess, gate |-> GateOf[c]]

KickPrevious(c) ==
    kicks' = IF presence # NoRecord /\ presence.gate # GateOf[c]
             THEN kicks \cup {presence} ELSE kicks

\* handleLogin with a valid token: the record is replaced in one script; the
\* session it held is kicked if it was on another gate.  When the answer is
\* lost, the record stands and the connection is not logged in.
GateLogin(c) ==
    /\ conn[c].pc = "serve" /\ ~conn[c].authed
    /\ nextSess <= MaxSessions
    /\ nextSess' = nextSess + 1
    /\ Store(c)
    /\ \/ /\ conn' = [conn EXCEPT ![c] =
                [@ EXCEPT !.pc = "swap", !.authed = TRUE, !.sess = nextSess]]
          /\ KickPrevious(c)
       \/ UNCHANGED <<conn, kicks>>
    /\ UNCHANGED <<table, closing>>

SwapTable(c) ==
    LET g == GateOf[c] IN
    /\ conn[c].pc = "swap"
    /\ table' = [table EXCEPT ![g] = c]
    /\ conn' = [conn EXCEPT ![c] =
            IF table[g] \in {NoConn, c} THEN [@ EXCEPT !.pc = "serve", !.csess = conn[c].sess]
            ELSE [@ EXCEPT !.pc = "close", !.csess = conn[c].sess, !.victim = table[g]]]
    /\ UNCHANGED <<presence, kicks, nextSess, closing>>

ClosePrevious(c) ==
    /\ conn[c].pc = "close"
    /\ conn' = [conn EXCEPT ![conn[c].victim].open = FALSE,
                            ![c] = [@ EXCEPT !.pc = "serve", !.victim = NoConn]]
    /\ UNCHANGED <<presence, table, kicks, nextSess, closing>>

\* Variant for mutation: what the renewal says is not looked at.
PingIgnored(c) ==
    /\ conn[c].pc = "serve" /\ conn[c].authed
    /\ UNCHANGED gateVars

\* A ping whose renewal finds another session, or none.  One that finds its
\* own session, or fails, changes nothing here.
StalePing(c) ==
    /\ conn[c].pc = "serve" /\ conn[c].authed
    /\ ~Held(c)
    /\ conn' = [conn EXCEPT ![c].authed = FALSE]
    /\ UNCHANGED <<presence, table, kicks, nextSess, closing>>

\* handleKick closes the connection in the table if it has that session; the
\* request may also be lost.
HandleKick(k) ==
    LET c == table[k.gate] IN
    /\ kicks' = kicks \ {k}
    /\ \/ /\ c # NoConn
          /\ conn[c].csess = k.sess
          /\ conn' = [conn EXCEPT ![c].open = FALSE]
       \/ UNCHANGED conn
    /\ UNCHANGED <<presence, table, nextSess, closing>>

\* The client leaves, or the read deadline or a write ends the connection.  Every
\* frame renews the deadline, so a client may stay without sending a ping.
ConnEnds(c) ==
    /\ conn[c].open
    /\ conn' = [conn EXCEPT ![c].open = FALSE]
    /\ UNCHANGED <<presence, table, kicks, nextSess, closing>>

\* Variant for mutation: the entry is removed whoever's it is.
CleanupDelete(c) ==
    LET g == GateOf[c]  mine == conn[c].authed IN
    /\ conn[c].pc = "serve" /\ ~conn[c].open
    /\ table' = IF mine THEN [table EXCEPT ![g] = NoConn] ELSE table
    /\ conn' = [conn EXCEPT ![c].pc = IF mine THEN "remove" ELSE "gone"]
    /\ UNCHANGED <<presence, kicks, nextSess, closing>>

\* The deferred function of handleConn: only the connection that is still in
\* the table, and still logged in, goes on to remove the record.  The Logout that
\* it then sends to Game is a request for "unload" in RoleActor.
Cleanup(c) ==
    LET g == GateOf[c]  mine == conn[c].authed /\ table[g] = c IN
    /\ conn[c].pc = "serve" /\ ~conn[c].open
    /\ table' = IF mine THEN [table EXCEPT ![g] = NoConn] ELSE table
    /\ conn' = [conn EXCEPT ![c].pc = IF mine THEN "remove" ELSE "gone"]
    /\ UNCHANGED <<presence, kicks, nextSess, closing>>

Remove(c) ==
    /\ conn[c].pc = "remove"
    /\ \/ Held(c) /\ presence' = NoRecord
       \/ UNCHANGED presence            \* another session's record, or a failure
    /\ conn' = [conn EXCEPT ![c].pc = "gone"]
    /\ UNCHANGED <<table, kicks, nextSess, closing>>

\* closeConnections closes what is in the table at that moment.
Shutdown(g) ==
    /\ g \notin closing
    /\ closing' = closing \cup {g}
    /\ conn' = [c \in Conns |-> [conn[c] EXCEPT !.open = @ /\ table[g] # c]]
    /\ UNCHANGED <<presence, table, kicks, nextSess>>

\* The process dies with its connections; the record stays.
GateCrash(g) ==
    /\ \E c \in Conns : GateOf[c] = g /\ Running(c)
    /\ conn' = [c \in Conns |->
            IF GateOf[c] = g /\ Running(c)
            THEN [conn[c] EXCEPT !.pc = "gone", !.open = FALSE, !.victim = NoConn] ELSE conn[c]]
    /\ table' = [table EXCEPT ![g] = NoConn]
    /\ UNCHANGED <<presence, kicks, nextSess, closing>>

GateNext ==
    \/ \E c \in Conns :
          \/ Accept(c) \/ GateLogin(c) \/ SwapTable(c) \/ ClosePrevious(c)
          \/ StalePing(c) \/ ConnEnds(c) \/ Cleanup(c) \/ Remove(c)
    \/ \E k \in kicks : HandleKick(k)
    \/ \E g \in Gates : Shutdown(g) \/ GateCrash(g)

\* The goroutine of a connection goes on.  That a client keeps sending pings is an
\* assumption about the client, made of the connections in Pinging only.
GateFairness ==
    /\ \A c \in Conns : WF_gateVars(SwapTable(c)) /\ WF_gateVars(ClosePrevious(c))
    /\ \A c \in Pinging : WF_gateVars(StalePing(c))

-----------------------------------------------------------------------------
GateTypeOK ==
    /\ presence # NoRecord => presence \in [sess : Nat, gate : Gates]
    /\ conn \in [Conns -> [pc : {"none", "serve", "swap", "close", "remove", "gone"},
                           sess : Nat, csess : Nat, authed : BOOLEAN, open : BOOLEAN,
                           victim : Conns \cup {NoConn}]]
    /\ table \in [Gates -> Conns \cup {NoConn}]
    /\ nextSess \in Nat /\ closing \subseteq Gates
    /\ \A k \in kicks : k \in [sess : Nat, gate : Gates]

\* NotifyClient.Push asks the gate of the record; its handlePush writes to the
\* connection in the table.  Without either the role counts as offline.
PushGates == IF presence = NoRecord THEN {} ELSE {presence.gate}
PushTarget == {table[g] : g \in PushGates} \ {NoConn}

\* While the connection that logged in last is served, a push reaches it: no
\* takeover, late cleanup, late removal or late kick of an older session takes
\* its record or its place in the table, unless an older login of the same gate
\* that was slower to swap is about to close it.
Reachable ==
    \A c \in Conns :
        /\ conn[c].pc = "serve" /\ conn[c].open /\ conn[c].authed
        /\ conn[c].sess = nextSess - 1
        /\ \A d \in Conns : conn[d].victim # c
        => Held(c) /\ PushTarget = {c}

\* Once the logins end and whichever kicks are lost, two connections of the role
\* stay logged in side by side only on different gates, and only if the client of
\* one of them sends no pings: on one gate handleLogin closes the previous
\* connection, and a client that pings finds out that it was superseded.
EventuallySingle ==
    <>[](\A c, d \in {x \in Conns : conn[x].authed /\ conn[x].open} :
            c # d => GateOf[c] # GateOf[d] /\ {c, d} \cap (Conns \ Pinging) # {})
=============================================================================
