----------------------------- MODULE ToolProofs -----------------------------
(***************************************************************************)
(* The database tools for every layout and number of roles, releases and   *)
(* runs: resharding loses no version that Game committed, and migrations   *)
(* are executed once and in order.  Last, the types of all services.       *)
(***************************************************************************)
EXTENDS PlayProofs, LoginProofs

HIDE WorldAssumption
USE ReshardAssumption

Row == [version : 1..MaxRowVersion, epoch : Nat \ {0}]
Scanned == [id : RoleIds, version : 1..MaxRowVersion, epoch : Nat \ {0}]
RunState == [pc : {"scan", "next", "copy", "verify", "delete"}, shard : 1..Len(OldDSNs),
             del : BOOLEAN, todo : SUBSET Scanned, row : Scanned \cup {NoRow}]

ReshardShapes ==
    /\ rows \in [Databases -> [RoleIds -> Row \cup {NoRow}]]
    /\ tool \in RunState \cup {Off}
    /\ runs \in 0..MaxRuns /\ newest \in [RoleIds -> 1..MaxRowVersion] /\ reborn \subseteq RoleIds

\* The row of a role in its database of the old and of the new layout.
OldRow(id) == rows[OldHome(id)][id]
NewRow(id) == rows[NewHome(id)][id]

\* A role has rows at most in these two.
AtHome ==
    \A d \in Databases, id \in RoleIds : rows[d][id] # NoRow => d \in {OldHome(id), NewHome(id)}

\* Where the newest version of a role is: in the old database while it has the
\* row, otherwise in the new one.
KeptAt ==
    \A id \in RoleIds \ reborn :
        /\ OldRow(id) # NoRow => OldRow(id).version = newest[id]
        /\ OldRow(id) = NoRow => NewRow(id) # NoRow /\ NewRow(id).version = newest[id]

\* The row in the tool's hands is of a role that moves; when the old database
\* no longer has the role, what the tool still holds of it is the newest.
Current(r) == r.id \notin reborn /\ OldRow(r.id) = NoRow => r.version = newest[r.id]
InHand ==
    /\ tool.pc \in {"copy", "verify", "delete"} =>
          /\ tool.row \in Scanned /\ OldHome(tool.row.id) # NewHome(tool.row.id)
          /\ \A r \in tool.todo : r.id # tool.row.id
    /\ tool.pc = "copy" => Current(tool.row)
    /\ tool.pc \in {"verify", "delete"} => NewRow(tool.row.id) = Copied
    /\ tool.pc # "off" =>
          /\ \A r \in tool.todo : Current(r)
          /\ \A r, q \in tool.todo : r.id = q.id => r = q

ReshardInv == ReshardShapes /\ AtHome /\ KeptAt /\ InHand

\* Every role has a database in each layout.
LEMMA Homes ==
  ASSUME NEW id \in RoleIds
  PROVE  OldHome(id) \in Databases /\ NewHome(id) \in Databases
  <1>1. \A s \in Seq(STRING) \ {<<>>} : Len(s) \in Nat \ {0} /\ DOMAIN s = 1 .. Len(s)
    OBVIOUS
  <1>2. \A n \in Nat, m \in Nat \ {0} : n % m \in 0 .. m - 1
    OBVIOUS
  <1>3. ASSUME NEW s \in Seq(STRING) \ {<<>>}
        PROVE  ForRole(id, s) + 1 \in DOMAIN s
    <2> DEFINE m == Len(s)
    <2>1. m \in Nat \ {0} /\ DOMAIN s = 1 .. m /\ id \in Nat
      BY <1>1
    <2> HIDE DEF m
    <2>2. id % m \in 0 .. m - 1
      BY <1>2, <2>1
    <2>3. (id % m) + 1 \in 1 .. m
      BY <2>1, <2>2
    <2> QED BY <2>1, <2>3 DEF ForRole, m
  <1>4. ForRole(id, OldDSNs) + 1 \in DOMAIN OldDSNs /\ ForRole(id, NewDSNs) + 1 \in DOMAIN NewDSNs
    BY <1>3
  <1> QED BY <1>4 DEF OldHome, NewHome, DSN, Databases

\* The invariant gives the type invariant and the property.
LEMMA ReshardConcludes == ReshardInv => ReshardTypeOK /\ NewestKept
  <1> SUFFICES ASSUME ReshardInv  PROVE ReshardTypeOK /\ NewestKept
    OBVIOUS
  <1>1. ReshardTypeOK
    <2>1. ASSUME NEW d \in Databases, NEW id \in RoleIds
          PROVE  \/ rows[d][id] = NoRow
                 \/ rows[d][id].version \in 1..MaxRowVersion /\ rows[d][id].epoch \in Nat \ {0}
      <3>1. rows[d][id] \in Row \cup {NoRow}
        BY DEF ReshardInv, ReshardShapes
      <3> QED BY <3>1 DEF Row
    <2>2. tool.pc \in {"off", "scan", "next", "copy", "verify", "delete"}
      BY DEF ReshardInv, ReshardShapes, RunState, Off
    <2> QED BY <2>1, <2>2 DEF ReshardTypeOK, ReshardInv, ReshardShapes
  <1>2. ASSUME NEW id \in RoleIds \ reborn
        PROVE  \E d \in Databases : rows[d][id] # NoRow /\ rows[d][id].version = newest[id]
    BY <1>2, Homes DEF ReshardInv, KeptAt, OldRow, NewRow
  <1> QED BY <1>1, <1>2 DEF NewestKept

\* Every role is at home at the start.
LEMMA ReshardStart == ReshardInit => ReshardInv
  <1> SUFFICES ASSUME ReshardInit  PROVE ReshardInv
    OBVIOUS
  <1>1. Blank \in Row /\ Blank.version = 1 /\ Blank # NoRow
    BY DEF Blank, Row
  <1>2. /\ rows = [d \in Databases |-> [id \in RoleIds |-> IF d = OldHome(id) THEN Blank ELSE NoRow]]
        /\ tool = Off /\ runs = 0 /\ newest = [id \in RoleIds |-> 1] /\ reborn = {}
    BY DEF ReshardInit
  <1>3. ReshardShapes
    BY <1>1, <1>2 DEF ReshardShapes
  <1>4. AtHome
    BY <1>2 DEF AtHome
  <1>5. \A id \in RoleIds : OldRow(id) = Blank /\ newest[id] = 1
    BY <1>2, Homes DEF OldRow
  <1>6. KeptAt
    BY <1>1, <1>5 DEF KeptAt
  <1>7. InHand
    BY <1>2 DEF InHand, Off
  <1> QED BY <1>3, <1>4, <1>6, <1>7 DEF ReshardInv

\* Off holds nothing.
LEMMA ToolOff ==
  ASSUME ReshardInv, tool' = Off, UNCHANGED <<rows, newest, reborn>>, runs' \in 0..MaxRuns
  PROVE  ReshardInv'
  <1>1. ReshardShapes'
    BY DEF ReshardInv, ReshardShapes
  <1>2. AtHome' /\ KeptAt'
    BY DEF ReshardInv, AtHome, KeptAt, OldRow, NewRow, OldHome, NewHome, DSN, ForRole
  <1>3. InHand'
    BY DEF InHand, Off
  <1> QED BY <1>1, <1>2, <1>3 DEF ReshardInv

\* A step of the tool that writes no row.
LEMMA ToolReads ==
  ASSUME ReshardInv, UNCHANGED <<rows, newest, reborn>>, runs' \in 0..MaxRuns,
         tool' \in RunState, InHand'
  PROVE  ReshardInv'
  <1>1. ReshardShapes'
    BY DEF ReshardInv, ReshardShapes
  <1>2. AtHome' /\ KeptAt'
    BY DEF ReshardInv, AtHome, KeptAt, OldRow, NewRow
  <1> QED BY <1>1, <1>2 DEF ReshardInv

\* Game and Login write in the old database of a role only, and Game only
\* where there is a row.
LEMMA OldWrites ==
  ASSUME ReshardInv, NEW id \in RoleIds, NEW v \in Row, UNCHANGED <<tool, runs>>,
         rows' = [rows EXCEPT ![OldHome(id)] = [rows[OldHome(id)] EXCEPT ![id] = v]],
         newest' \in [RoleIds -> 1..MaxRowVersion],
         \A q \in RoleIds \ {id} : newest'[q] = newest[q],
         reborn \subseteq reborn', reborn' \subseteq reborn \cup {id},
         id \in reborn' \/ (OldRow(id) # NoRow /\ newest'[id] = v.version)
  PROVE  ReshardInv'
  <1> DEFINE home == OldHome(id)
  <1>0. home \in Databases /\ rows \in [Databases -> [RoleIds -> Row \cup {NoRow}]]
    BY Homes DEF ReshardInv, ReshardShapes
  <1>1. /\ rows' \in [Databases -> [RoleIds -> Row \cup {NoRow}]] /\ rows'[home][id] = v
        /\ \A d \in Databases, q \in RoleIds : d # home \/ q # id => rows'[d][q] = rows[d][q]
    BY <1>0
  <1>2. v # NoRow
    BY DEF Row
  <1>3. ReshardShapes'
    BY <1>1 DEF ReshardInv, ReshardShapes
  <1>4. AtHome'
    BY <1>1 DEF ReshardInv, AtHome
  <1>5. /\ \A q \in RoleIds \ {id} : rows'[OldHome(q)][q] = OldRow(q) /\ rows'[NewHome(q)][q] = NewRow(q)
        /\ rows'[OldHome(id)][id] = v
        /\ NewHome(id) # OldHome(id) => rows'[NewHome(id)][id] = NewRow(id)
    BY <1>1, Homes DEF OldRow, NewRow
  <1>6. KeptAt'
    BY <1>2, <1>5 DEF ReshardInv, KeptAt, OldRow, NewRow
  <1>7. ASSUME NEW r \in Scanned, Current(r)
        PROVE  r.id \notin reborn' /\ rows'[OldHome(r.id)][r.id] = NoRow => r.version = newest'[r.id]
    <2>1. r.id \in RoleIds
      BY DEF Scanned
    <2> QED BY <1>2, <1>5, <1>7, <2>1 DEF Current, OldRow
  <1>8. InHand'
    <2>0. tool.pc # "off" => tool \in RunState
      BY DEF ReshardInv, ReshardShapes, Off
    <2>1. tool.pc # "off" => tool.todo \subseteq Scanned
      BY <2>0 DEF RunState
    <2>2. tool.pc = "copy" => Current(tool.row)'
      BY <1>7 DEF ReshardInv, InHand, Current, OldRow
    <2>3. tool.pc # "off" => \A r \in tool.todo : Current(r)'
      BY <1>7, <2>1 DEF ReshardInv, InHand, Current, OldRow
    <2>4. tool.pc \in {"verify", "delete"} => (NewRow(tool.row.id) = Copied)'
      <3> SUFFICES ASSUME tool.pc \in {"verify", "delete"}
                   PROVE  rows'[NewHome(tool.row.id)][tool.row.id] = Copied
        BY DEF NewRow, Copied
      <3>1. /\ tool.row \in Scanned /\ OldHome(tool.row.id) # NewHome(tool.row.id)
            /\ NewRow(tool.row.id) = Copied
        BY DEF ReshardInv, InHand
      <3>2. tool.row.id \in RoleIds
        BY <3>1 DEF Scanned
      <3> QED BY <1>5, <3>1, <3>2
    <2> QED BY <2>2, <2>3, <2>4 DEF ReshardInv, InHand
  <1> QED BY <1>3, <1>4, <1>6, <1>8 DEF ReshardInv

\* A row keeps its type and version when its epoch grows.
LEMMA EpochAdded ==
  ASSUME NEW r \in Row
  PROVE  [r EXCEPT !.epoch = r.epoch + 1] \in Row
         /\ [r EXCEPT !.epoch = r.epoch + 1].version = r.version
  <1> DEFINE e == r.epoch + 1
  <1>1. r.epoch \in Nat \ {0}
    BY DEF Row
  <1>2. e \in Nat \ {0}
    BY <1>1
  <1> HIDE DEF e
  <1>3. [r EXCEPT !.epoch = e] \in Row /\ [r EXCEPT !.epoch = e].version = r.version
    BY <1>2 DEF Row
  <1> QED BY <1>3 DEF e

\* Loads, saves and logins.
LEMMA GameSteps ==
  ASSUME ReshardInv, NEW id \in RoleIds, LoadRole(id) \/ SaveRole(id) \/ EnsureRow(id)
  PROVE  ReshardInv'
  <1> DEFINE home == OldHome(id)
             row == rows[home][id]
  <1>0. /\ home \in Databases /\ rows \in [Databases -> [RoleIds -> Row \cup {NoRow}]]
        /\ row \in Row \cup {NoRow} /\ newest \in [RoleIds -> 1..MaxRowVersion]
    BY Homes DEF ReshardInv, ReshardShapes
  <1>1. CASE LoadRole(id)
    <2> DEFINE v == [row EXCEPT !.epoch = row.epoch + 1]
    <2>1. row \in Row /\ row # NoRow /\ UNCHANGED <<tool, runs, newest, reborn>>
      BY <1>0, <1>1 DEF LoadRole
    <2>2. v \in Row /\ v.version = row.version
      BY <2>1, EpochAdded
    <2>3. rows' = [rows EXCEPT ![home] = [rows[home] EXCEPT ![id] = v]]
      BY <1>0, <1>1 DEF LoadRole
    <2> HIDE DEF v
    <2>4. id \in reborn \/ newest[id] = v.version
      BY <2>1, <2>2 DEF ReshardInv, KeptAt, OldRow
    <2> QED BY <1>0, <2>1, <2>2, <2>3, <2>4, OldWrites DEF OldRow
  <1>2. CASE SaveRole(id)
    <2> DEFINE v == [row EXCEPT !.version = row.version + 1]
    <2>1. row \in Row /\ row # NoRow /\ row.version < MaxRowVersion /\ UNCHANGED <<tool, runs, reborn>>
          /\ newest' = [newest EXCEPT ![id] = row.version + 1]
      BY <1>0, <1>2 DEF SaveRole
    <2>2. v \in Row /\ v.version = row.version + 1 /\ row.version + 1 \in 1..MaxRowVersion
      BY <2>1 DEF Row
    <2>3. rows' = [rows EXCEPT ![home] = [rows[home] EXCEPT ![id] = v]]
      BY <1>0, <1>2 DEF SaveRole
    <2> HIDE DEF v
    <2>4. /\ newest' \in [RoleIds -> 1..MaxRowVersion] /\ newest'[id] = v.version
          /\ \A q \in RoleIds \ {id} : newest'[q] = newest[q]
      BY <1>0, <2>1, <2>2
    <2> QED BY <1>0, <2>1, <2>2, <2>3, <2>4, OldWrites DEF OldRow
  <1>3. CASE EnsureRow(id)
    <2>1. Blank \in Row
      BY DEF Blank, Row
    <2>2. /\ rows' = [rows EXCEPT ![home] = [rows[home] EXCEPT ![id] = Blank]]
          /\ reborn' = reborn \cup {id} /\ UNCHANGED <<tool, runs, newest>>
      BY <1>3 DEF EnsureRow
    <2> QED BY <1>0, <2>1, <2>2, OldWrites
  <1> QED BY <1>1, <1>2, <1>3

\* The steps of the tool up to the copy.
LEMMA ToolLooks ==
  ASSUME ReshardInv,
         (\E del \in BOOLEAN : StartRun(del)) \/ ScanShard \/ NextRow \/ VerifyRow \/ ToolAborts
  PROVE  ReshardInv'
  <1>0. /\ rows \in [Databases -> [RoleIds -> Row \cup {NoRow}]] /\ tool \in RunState \cup {Off}
        /\ runs \in 0..MaxRuns /\ UNCHANGED <<rows, newest, reborn>>
        /\ \A x : Current(x)' = Current(x)
    BY DEF ReshardInv, ReshardShapes, StartRun, ScanShard, NextRow, VerifyRow, ToolAborts,
           Current, OldRow
  <1>1. tool.pc # "off" => tool \in RunState
    BY <1>0 DEF Off
  <1>2. ASSUME NEW del \in BOOLEAN, StartRun(del)
        PROVE  ReshardInv'
    <2>1. /\ tool' = [pc |-> "scan", shard |-> 1, del |-> del, todo |-> {}, row |-> NoRow]
          /\ runs' \in 0..MaxRuns
      BY <1>0, <1>2 DEF StartRun
    <2>2. 1 \in 1..Len(OldDSNs)
      <3>1. \A s \in Seq(STRING) \ {<<>>} : 1 \in 1..Len(s)
        OBVIOUS
      <3> QED BY <3>1
    <2>3. tool' \in RunState /\ tool'.pc = "scan" /\ tool'.todo = {}
      BY <2>1, <2>2 DEF RunState
    <2>4. InHand'
      BY <2>3 DEF InHand
    <2> QED BY <1>0, <2>1, <2>3, <2>4, ToolReads
  <1>3. CASE ScanShard
    <2> DEFINE here == rows[OldDSNs[tool.shard]]
               moving == {[id |-> id, version |-> here[id].version, epoch |-> here[id].epoch] :
                     id \in {r \in RoleIds : /\ here[r] # NoRow
                                             /\ ForRole(r, OldDSNs) # ForRole(r, NewDSNs)}}
    <2>1. /\ tool \in RunState /\ UNCHANGED runs
          /\ \E todo \in SUBSET moving : tool' = [tool EXCEPT !.pc = "next", !.todo = todo]
      BY <1>1, <1>3 DEF ScanShard, ToolAt
    <2>2. PICK todo \in SUBSET moving : tool' = [tool EXCEPT !.pc = "next", !.todo = todo]
      BY <2>1
    <2>3. OldDSNs[tool.shard] \in Databases
      <3>1. tool.shard \in 1..Len(OldDSNs)
        BY <2>1 DEF RunState
      <3>2. \A s \in Seq(STRING) : DOMAIN s = 1..Len(s)
        OBVIOUS
      <3> QED BY <3>1, <3>2 DEF Databases
    <2>4. ASSUME NEW x \in moving
          PROVE  /\ x \in Scanned /\ here[x.id] # NoRow /\ x.version = here[x.id].version
                 /\ x.epoch = here[x.id].epoch
      <3>1. PICK id \in RoleIds : here[id] # NoRow /\
                x = [id |-> id, version |-> here[id].version, epoch |-> here[id].epoch]
        OBVIOUS
      <3>2. here[id] \in Row
        BY <1>0, <2>3, <3>1
      <3> QED BY <3>1, <3>2 DEF Scanned, Row
    <2>5. \A x, y \in moving : x.id = y.id => x = y
      <3> SUFFICES ASSUME NEW x \in moving, NEW y \in moving, x.id = y.id  PROVE x = y
        OBVIOUS
      <3>1. PICK id \in RoleIds :
                x = [id |-> id, version |-> here[id].version, epoch |-> here[id].epoch]
        OBVIOUS
      <3>2. PICK jd \in RoleIds :
                y = [id |-> jd, version |-> here[jd].version, epoch |-> here[jd].epoch]
        OBVIOUS
      <3>3. id = jd
        BY <3>1, <3>2
      <3> QED BY <3>1, <3>2, <3>3
    <2> HIDE DEF moving
    <2>6. ASSUME NEW x \in moving
          PROVE  Current(x)
      <3> SUFFICES ASSUME x.id \notin reborn, OldRow(x.id) = NoRow
                   PROVE  x.version = newest[x.id]
        BY DEF Current
      <3>1. x.id \in RoleIds /\ here[x.id] # NoRow /\ x.version = here[x.id].version
        BY <2>4 DEF Scanned
      <3>2. OldDSNs[tool.shard] = NewHome(x.id)
        BY <2>3, <3>1 DEF ReshardInv, AtHome, OldRow
      <3> QED BY <3>1, <3>2 DEF ReshardInv, KeptAt, NewRow
    <2>7. todo \in SUBSET Scanned /\ (\A x \in todo : Current(x))
          /\ \A x, y \in todo : x.id = y.id => x = y
      BY <2>4, <2>5, <2>6
    <2>8. tool' \in RunState /\ tool'.pc = "next" /\ tool'.todo = todo
      BY <2>1, <2>2, <2>7 DEF RunState
    <2>9. InHand'
      BY <1>0, <2>7, <2>8 DEF InHand
    <2> QED BY <1>0, <2>1, <2>8, <2>9, ToolReads
  <1>4. CASE NextRow
    <2>1. /\ tool \in RunState /\ tool.pc = "next" /\ UNCHANGED runs
          /\ tool.todo \in SUBSET Scanned /\ (\A r \in tool.todo : Current(r))
          /\ \A r, q \in tool.todo : r.id = q.id => r = q
      BY <1>1, <1>4 DEF NextRow, ToolAt, ReshardInv, InHand, RunState
    <2>2. ASSUME NEW r \in tool.todo,
                 tool' = [tool EXCEPT !.todo = tool.todo \ {r}, !.row = r,
                              !.pc = IF OldHome(r.id) = NewHome(r.id) THEN "next" ELSE "copy"]
          PROVE  ReshardInv'
      <3>1. /\ tool' \in RunState /\ tool'.todo = tool.todo \ {r} /\ tool'.row = r /\ r \in Scanned
            /\ tool'.pc = IF OldHome(r.id) = NewHome(r.id) THEN "next" ELSE "copy"
        BY <2>1, <2>2 DEF RunState
      <3>2. InHand'
        <4>1. tool'.pc = "copy" => OldHome(r.id) # NewHome(r.id)
          BY <3>1
        <4>2. \A q \in tool'.todo : q \in tool.todo /\ q.id # r.id
          BY <2>1, <3>1
        <4>3. tool'.pc \in {"next", "copy"}
          BY <3>1
        <4>4. OldHome(tool'.row.id) # NewHome(tool'.row.id) <=> OldHome(r.id) # NewHome(r.id)
          BY <3>1
        <4> QED BY <1>0, <2>1, <3>1, <4>1, <4>2, <4>3, <4>4 DEF InHand
      <3> QED BY <1>0, <2>1, <3>1, <3>2, ToolReads
    <2>3. CASE /\ tool.todo = {} /\ tool.shard < Len(OldDSNs)
               /\ tool' = [tool EXCEPT !.pc = "scan", !.shard = @ + 1]
      <3>0. \A s \in Seq(STRING) : Len(s) \in Nat
        OBVIOUS
      <3> DEFINE n == tool.shard + 1
      <3>1. tool.shard \in 1..Len(OldDSNs) /\ Len(OldDSNs) \in Nat
        BY <2>1, <3>0 DEF RunState
      <3>2. n \in 1..Len(OldDSNs)
        BY <2>3, <3>1
      <3>3. tool' = [tool EXCEPT !.pc = "scan", !.shard = n]
        BY <2>3
      <3> HIDE DEF n
      <3>4. tool' \in RunState /\ tool'.pc = "scan" /\ tool'.todo = {}
        BY <2>1, <2>3, <3>2, <3>3 DEF RunState
      <3>5. InHand'
        BY <3>4 DEF InHand
      <3> QED BY <1>0, <2>1, <3>4, <3>5, ToolReads
    <2>4. CASE tool' = Off
      BY <1>0, <2>1, <2>4, ToolOff
    <2> QED BY <1>4, <2>2, <2>3, <2>4 DEF NextRow
  <1>5. CASE VerifyRow
    <2>1. tool \in RunState /\ tool.pc = "verify" /\ UNCHANGED runs
      BY <1>1, <1>5 DEF VerifyRow, ToolAt
    <2>2. CASE tool' = Off
      BY <1>0, <2>1, <2>2, ToolOff
    <2>3. ASSUME NEW pc \in {"delete", "next"}, tool' = [tool EXCEPT !.pc = pc]
          PROVE  ReshardInv'
      <3>1. /\ tool' \in RunState /\ tool'.pc = pc /\ tool'.todo = tool.todo /\ tool'.row = tool.row
        BY <2>1, <2>3 DEF RunState
      <3>2. InHand'
        <4>1. (NewRow(tool.row.id) = Copied)'
          BY <1>0, <2>1, <3>1 DEF ReshardInv, InHand, NewRow, Copied
        <4> QED BY <1>0, <2>1, <3>1, <4>1 DEF ReshardInv, InHand
      <3> QED BY <1>0, <2>1, <3>1, <3>2, ToolReads
    <2> QED BY <1>5, <2>2, <2>3 DEF VerifyRow, ToolTo
  <1>6. CASE ToolAborts
    BY <1>0, <1>6, ToolOff DEF ToolAborts
  <1> QED BY <1>2, <1>3, <1>4, <1>5, <1>6

\* The copy is the newest where the old database no longer has the role.
LEMMA ToolCopies ==
  ASSUME ReshardInv, CopyRow
  PROVE  ReshardInv'
  <1> DEFINE id == tool.row.id
             home == NewHome(tool.row.id)
             v == Copied
  <1>0. /\ rows \in [Databases -> [RoleIds -> Row \cup {NoRow}]] /\ tool \in RunState
        /\ tool.pc = "copy" /\ runs \in 0..MaxRuns
        /\ tool' = [tool EXCEPT !.pc = "verify"] /\ UNCHANGED <<runs, newest, reborn>>
    BY DEF ReshardInv, ReshardShapes, CopyRow, ToolAt, ToolTo, Off
  <1>1. /\ tool.row \in Scanned /\ OldHome(id) # home /\ Current(tool.row)
        /\ \A r \in tool.todo : r.id # id /\ Current(r)
        /\ \A r, q \in tool.todo : r.id = q.id => r = q
    BY <1>0 DEF ReshardInv, InHand
  <1>2. id \in RoleIds /\ v \in Row /\ v.version = tool.row.version /\ tool.todo \subseteq Scanned
    BY <1>0, <1>1 DEF Scanned, Copied, Row, RunState
  <1>3. home \in Databases /\ v # NoRow
    <2>1. home \in Databases
      BY <1>2, Homes
    <2>2. \A x \in Row : x # NoRow
      BY DEF Row
    <2> QED BY <1>2, <2>1, <2>2
  <1>4. rows' = [rows EXCEPT ![home] = [rows[home] EXCEPT ![id] = v]]
    BY DEF CopyRow
  <1>5. /\ tool' \in RunState /\ tool'.pc = "verify" /\ tool'.todo = tool.todo /\ tool'.row = tool.row
        /\ Copied' = Copied
    BY <1>0 DEF RunState, Copied
  <1> HIDE DEF v
  <1>6. /\ rows' \in [Databases -> [RoleIds -> Row \cup {NoRow}]] /\ rows'[home][id] = v
        /\ \A d \in Databases, q \in RoleIds : d # home \/ q # id => rows'[d][q] = rows[d][q]
    BY <1>0, <1>2, <1>3, <1>4
  <1>7. ReshardShapes'
    BY <1>0, <1>5, <1>6 DEF ReshardInv, ReshardShapes
  <1>8. AtHome'
    BY <1>2, <1>6 DEF ReshardInv, AtHome
  <1>9. /\ \A q \in RoleIds : rows'[OldHome(q)][q] = OldRow(q)
        /\ \A q \in RoleIds \ {id} : rows'[NewHome(q)][q] = NewRow(q)
    BY <1>1, <1>2, <1>6, Homes DEF OldRow, NewRow
  <1>10. KeptAt'
    <2>1. ASSUME NEW q \in RoleIds \ reborn
          PROVE  /\ OldRow(q) # NoRow => OldRow(q).version = newest[q]
                 /\ OldRow(q) = NoRow =>
                       rows'[NewHome(q)][q] # NoRow /\ rows'[NewHome(q)][q].version = newest[q]
      <3>1. CASE q = id
        BY <1>1, <1>2, <1>3, <1>6, <3>1 DEF ReshardInv, KeptAt, Current
      <3>2. CASE q # id
        BY <1>9, <3>2 DEF ReshardInv, KeptAt
      <3> QED BY <3>1, <3>2
    <2> QED BY <1>0, <1>9, <2>1 DEF KeptAt, OldRow, NewRow
  <1>11. InHand'
    <2>1. \A r \in Scanned : Current(r)' = Current(r)
      BY <1>0, <1>9 DEF Current, OldRow, Scanned
    <2>2. (NewRow(tool.row.id) = Copied)'
      BY <1>5, <1>6 DEF NewRow, v
    <2> QED BY <1>1, <1>2, <1>5, <2>1, <2>2 DEF InHand
  <1> QED BY <1>7, <1>8, <1>10, <1>11 DEF ReshardInv

\* The delete finds the scanned row only in the old database, where it is the
\* newest, and the new database has a copy of it.
LEMMA ToolDeletes ==
  ASSUME ReshardInv, DeleteSource
  PROVE  ReshardInv'
  <1> DEFINE id == tool.row.id
             src == OldDSNs[tool.shard]
             scanned == [version |-> tool.row.version, epoch |-> tool.row.epoch]
  <1>0. /\ rows \in [Databases -> [RoleIds -> Row \cup {NoRow}]] /\ tool \in RunState
        /\ tool.pc = "delete" /\ runs \in 0..MaxRuns /\ UNCHANGED <<runs, newest, reborn>>
    BY DEF ReshardInv, ReshardShapes, DeleteSource, ToolAt, Off
  <1>1. /\ tool.row \in Scanned /\ OldHome(id) # NewHome(id) /\ NewRow(id) = Copied
        /\ \A r \in tool.todo : r.id # id /\ Current(r)
        /\ \A r, q \in tool.todo : r.id = q.id => r = q
    BY <1>0 DEF ReshardInv, InHand
  <1>2. /\ id \in RoleIds /\ scanned \in Row /\ Copied \in Row /\ Copied.version = scanned.version
        /\ Copied.epoch # scanned.epoch /\ tool.todo \subseteq Scanned
    BY <1>0, <1>1 DEF Scanned, Copied, Row, RunState
  <1>3. scanned # NoRow /\ Copied # NoRow /\ Copied # scanned
    BY <1>2 DEF Row
  <1>4. src \in Databases
    <2>1. tool.shard \in 1..Len(OldDSNs)
      BY <1>0 DEF RunState
    <2>2. \A s \in Seq(STRING) : DOMAIN s = 1..Len(s)
      OBVIOUS
    <2> QED BY <2>1, <2>2 DEF Databases
  <1>5. CASE rows[src][id] # scanned
    BY <1>0, <1>5, ToolOff DEF DeleteSource
  <1>6. CASE rows[src][id] = scanned
    <2>1. src = OldHome(id)
      BY <1>1, <1>2, <1>3, <1>4, <1>6 DEF ReshardInv, AtHome, NewRow
    <2>2. /\ rows' = [rows EXCEPT ![src] = [rows[src] EXCEPT ![id] = NoRow]]
          /\ tool' = [tool EXCEPT !.pc = "next"]
      BY <1>6 DEF DeleteSource, ToolTo
    <2>3. tool' \in RunState /\ tool'.pc = "next" /\ tool'.todo = tool.todo
      BY <1>0, <2>2 DEF RunState
    <2>4. id \notin reborn => newest[id] = scanned.version
      <3>1. OldRow(id) = scanned
        BY <1>6, <2>1 DEF OldRow
      <3> QED BY <1>2, <1>3, <3>1 DEF ReshardInv, KeptAt
    <2>5. /\ rows' \in [Databases -> [RoleIds -> Row \cup {NoRow}]] /\ rows'[src][id] = NoRow
          /\ \A d \in Databases, q \in RoleIds : d # src \/ q # id => rows'[d][q] = rows[d][q]
      BY <1>0, <1>2, <1>4, <2>2
    <2>6. ReshardShapes'
      BY <1>0, <2>3, <2>5 DEF ReshardInv, ReshardShapes
    <2>7. AtHome'
      BY <1>2, <2>5 DEF ReshardInv, AtHome
    <2>8. /\ \A q \in RoleIds \ {id} : rows'[OldHome(q)][q] = OldRow(q) /\ rows'[NewHome(q)][q] = NewRow(q)
          /\ rows'[OldHome(id)][id] = NoRow /\ rows'[NewHome(id)][id] = Copied
      BY <1>1, <1>2, <2>1, <2>5, Homes DEF OldRow, NewRow
    <2> HIDE DEF scanned
    <2>9. KeptAt'
      BY <1>0, <1>2, <1>3, <2>4, <2>8 DEF ReshardInv, KeptAt, OldRow, NewRow
    <2>10. InHand'
      <3>1. \A r \in Scanned : r.id # id => Current(r)' = Current(r)
        BY <1>0, <2>8 DEF Current, OldRow, Scanned
      <3> QED BY <1>1, <1>2, <2>3, <3>1 DEF InHand
    <2> QED BY <2>6, <2>7, <2>9, <2>10 DEF ReshardInv
  <1> QED BY <1>5, <1>6

\* Every step of Game, Login and the tool.
LEMMA ReshardKeeps ==
  ASSUME ReshardInv, ReshardNext
  PROVE  ReshardInv'
  BY GameSteps, ToolLooks, ToolCopies, ToolDeletes DEF ReshardNext

\* Other services leave the role rows alone.
LEMMA ReshardElsewhere ==
  ASSUME ReshardInv, UNCHANGED reshardVars
  PROVE  ReshardInv'
  BY DEF reshardVars, ReshardInv, ReshardShapes, AtHome, KeptAt, InHand, Current, OldRow, NewRow,
         Copied

\* The invariant of resharding.
THEOREM ReshardInvariant == Spec => []ReshardInv
  <1>1. Init => ReshardInv
    BY ReshardStart DEF Init
  <1>2. ReshardInv /\ [Next]_vars => ReshardInv'
    <2>1. ASSUME ReshardInv, ReshardTool  PROVE ReshardInv'
      BY <2>1, ReshardKeeps DEF ReshardTool
    <2>2. ASSUME ReshardInv, [Next]_vars, ~ReshardTool  PROVE UNCHANGED reshardVars
      BY <2>2 DEF Next, vars, dbVars, PayService, MailService, ActivityService, LoginService,
                  MatchService, WorldService, MigrateTool
    <2> QED BY <2>1, <2>2, ReshardElsewhere
  <1> QED BY <1>1, <1>2, PTL DEF Spec

\* Whatever the two layouts are, however many roles there are and however often
\* a run is cut off and started again while Game goes on saving, the last version
\* of a role that Game committed is in some database, unless a login created the
\* role again at its old database after it had moved away.
THEOREM NewestIsKept == Spec => []NewestKept
  BY ReshardInvariant, ReshardConcludes, PTL

HIDE ReshardAssumption

-----------------------------------------------------------------------------
(* Migrate: the order of the scripts and the list of the databases.        *)

\* f lists the elements of S by size.
Sorts(S, f) ==
    /\ f \in [1..Cardinality(S) -> S]
    /\ \A i, j \in 1..Cardinality(S) : i < j => f[i] < f[j]

\* A finite set of numbers that has an element has a largest one.
LEMMA LargestExists ==
  ASSUME NEW S \in SUBSET Nat, IsFiniteSet(S), S # {}
  PROVE  \E x \in S : \A y \in S : y <= x
  <1> DEFINE Largest(T) == \E x \in T : \A y \in T : y <= x
             H == {T \in SUBSET S : T = {} \/ Largest(T)}
  <1>1. H \in SUBSET SUBSET S /\ {} \in H
    OBVIOUS
  <1>2. ASSUME NEW T \in SUBSET S, T # {}, T \ {Some(T)} \in H
        PROVE  T \in H
    <2> DEFINE x == Some(T)
    <2>1. x \in T /\ T \subseteq Nat
      BY <1>2 DEF Some
    <2> HIDE DEF x
    <2>2. T \ {x} = {} \/ Largest(T \ {x})
      BY <1>2 DEF x
    <2>3. CASE T \ {x} = {}
      <3>1. \A y \in T : y <= x
        BY <2>1, <2>3
      <3> QED BY <2>1, <3>1
    <2>4. CASE Largest(T \ {x})
      <3>1. PICK z \in T \ {x} : \A y \in T \ {x} : y <= z
        BY <2>4
      <3>2. CASE z <= x
        <4>1. \A y \in T : y <= x
          BY <2>1, <3>1, <3>2
        <4> QED BY <2>1, <4>1
      <3>3. CASE ~(z <= x)
        <4>1. \A y \in T : y <= z
          BY <2>1, <3>1, <3>3
        <4> QED BY <3>1, <4>1
      <3> QED BY <3>2, <3>3
    <2> QED BY <2>2, <2>3, <2>4
  <1> HIDE DEF H
  <1>3. \A T \in SUBSET S : T # {} /\ T \ {Some(T)} \in H => T \in H
    BY <1>2
  <1>4. H = SUBSET S
    BY <1>1, <1>3, BySubsets
  <1>5. S \in H
    BY <1>4
  <1> QED BY <1>5 DEF H

\* Every finite set of numbers can be sorted.
LEMMA SortExists ==
  ASSUME NEW S \in SUBSET Nat, IsFiniteSet(S)
  PROVE  \E f : Sorts(S, f)
  <1> DEFINE n == Cardinality(S)
             H == {k \in 0..n : \A T \in SUBSET S : Cardinality(T) = k => \E f : Sorts(T, f)}
  <1>0. n \in Nat /\ \A T \in SUBSET S : IsFiniteSet(T) /\ Cardinality(T) \in Nat
    BY FS_Subset, FS_CardinalityType
  <1>1. 0 \in H
    <2>1. ASSUME NEW T \in SUBSET S, Cardinality(T) = 0
          PROVE  \E f : Sorts(T, f)
      <3> DEFINE f == [i \in 1..0 |-> 0]
      <3>1. f \in [1..0 -> T]
        OBVIOUS
      <3>2. Sorts(T, f)
        BY <2>1, <3>1 DEF Sorts
      <3> QED BY <3>2
    <2> QED BY <1>0, <2>1
  <1>2. ASSUME NEW k \in 1..n, k - 1 \in H
        PROVE  k \in H
    <2>1. ASSUME NEW T \in SUBSET S, Cardinality(T) = k
          PROVE  \E f : Sorts(T, f)
      <3>0. k \in Nat /\ k # 0 /\ k - 1 \in Nat
        BY <1>0
      <3>1. IsFiniteSet(T) /\ T # {} /\ T \in SUBSET Nat
        BY <1>0, <2>1, <3>0, FS_EmptySet
      <3>2. PICK x \in T : \A y \in T : y <= x
        BY <3>1, LargestExists
      <3> DEFINE R == T \ {x}
      <3>3. R \in SUBSET S /\ Cardinality(R) = k - 1
        BY <2>1, <3>1, FS_RemoveElement
      <3>4. PICK f : Sorts(R, f)
        BY <1>2, <3>3
      <3>5. /\ f \in [1..k - 1 -> R]
            /\ \A i, j \in 1..k - 1 : i < j => f[i] < f[j]
        BY <3>3, <3>4 DEF Sorts
      <3> DEFINE g == [i \in 1..k |-> IF i = k THEN x ELSE f[i]]
      <3>6. \A i \in 1..k : i = k \/ i \in 1..k - 1
        BY <3>0
      <3>7. \A y \in R : y < x
        BY <3>1, <3>2
      <3>8. g \in [1..k -> T]
        BY <3>5, <3>6
      <3>9. ASSUME NEW i \in 1..k, NEW j \in 1..k, i < j
            PROVE  g[i] < g[j]
        <4>1. i \in 1..k - 1 /\ g[i] = f[i] /\ f[i] \in R
          BY <3>0, <3>5, <3>9
        <4>2. CASE j = k
          <5>1. g[j] = x
            BY <4>2
          <5> QED BY <3>7, <4>1, <5>1
        <4>3. CASE j # k
          <5>1. j \in 1..k - 1 /\ g[j] = f[j]
            BY <3>6, <4>3
          <5>2. f[i] < f[j]
            BY <3>5, <3>9, <4>1, <5>1
          <5> QED BY <4>1, <5>1, <5>2
        <4> QED BY <4>2, <4>3
      <3> HIDE DEF g
      <3>10. Sorts(T, g)
        BY <2>1, <3>8, <3>9 DEF Sorts
      <3> QED BY <3>10
    <2>2. k \in 0..n
      BY <1>0
    <2> QED BY <2>1, <2>2
  <1>3. H \in SUBSET (0..n)
    OBVIOUS
  <1>4. n \in H
    <2> HIDE DEF H, n
    <2> QED BY <1>0, <1>1, <1>2, <1>3, UpTo
  <1> QED BY <1>4

\* The scripts of a release are in order, and all of them are there.
LEMMA FilesSorted ==
  ASSUME NEW m \in Migrators
  PROVE  /\ Len(Files(m)) \in Nat /\ DOMAIN Files(m) = 1..Len(Files(m))
         /\ \A i \in 1..Len(Files(m)) : Files(m)[i] \in DOMAIN Scripts[m] /\ Files(m)[i] \in Nat
         /\ \A i, j \in 1..Len(Files(m)) : i < j => Files(m)[i] < Files(m)[j]
         /\ \A v \in DOMAIN Scripts[m] : \E i \in 1..Len(Files(m)) : Files(m)[i] = v
  <1> DEFINE S == DOMAIN Scripts[m]
             n == Cardinality(S)
             s == Files(m)
  <1>1. S \in SUBSET Nat /\ IsFiniteSet(S)
    BY MigrateAssumption
  <1>2. n \in Nat /\ IsFiniteSet(1..n) /\ Cardinality(1..n) = n
    <2>1. n \in Nat
      BY <1>1, FS_CardinalityType
    <2>2. Cardinality(1..n) = IF 1 > n THEN 0 ELSE n - 1 + 1
      BY <2>1, FS_Interval
    <2> HIDE DEF n
    <2> QED BY <2>1, <2>2, FS_Interval
  <1>3. PICK f : Sorts(S, f)
    BY <1>1, SortExists
  <1>4. /\ f \in SetToSeqs(S)
        /\ \A i, j \in DOMAIN f : i < j => f[i] < f[j]
    <2>1. f \in [1..n -> S] /\ \A i, j \in 1..n : i < j => f[i] < f[j]
      BY <1>3 DEF Sorts
    <2>2. \A i, j \in 1..n : i # j => f[i] # f[j]
      <3> SUFFICES ASSUME NEW i \in 1..n, NEW j \in 1..n, i # j  PROVE f[i] # f[j]
        OBVIOUS
      <3>1. f[i] \in Nat /\ f[j] \in Nat
        BY <1>1, <2>1
      <3>2. i < j \/ j < i
        BY <1>2
      <3>3. f[i] < f[j] \/ f[j] < f[i]
        BY <2>1, <3>2
      <3> QED BY <3>1, <3>3
    <2> QED BY <2>1, <2>2 DEF SetToSeqs
  <1>5. s \in SetToSeqs(S) /\ \A i, j \in DOMAIN s : i < j => s[i] < s[j]
    BY <1>4 DEF Files
  <1>6. s \in [1..n -> S] /\ \A i, j \in 1..n : i # j => s[i] # s[j]
    BY <1>5 DEF SetToSeqs
  <1> HIDE DEF s, n, S
  <1>7. s \in Seq(S) /\ DOMAIN s = 1..n
    BY <1>2, <1>6
  <1>8. Len(s) = n
    BY <1>2, <1>7
  <1>9. s \in Surjection(1..n, S)
    <2>1. s \in Injection(1..n, S)
      BY <1>6 DEF Injection, IsInjective
    <2> QED BY <1>1, <1>2, <2>1, FS_Injection DEF n
  <1>10. \A v \in S : \E i \in 1..n : s[i] = v
    BY <1>9 DEF Surjection
  <1>11. \A i \in 1..n : s[i] \in S /\ s[i] \in Nat
    BY <1>1, <1>6
  <1>12. \A i, j \in 1..n : i < j => s[i] < s[j]
    BY <1>5, <1>7
  <1> QED BY <1>2, <1>7, <1>8, <1>10, <1>11, <1>12 DEF s, S

\* f is the lists of databases by the number of shards taken, up to n.
ListsTo(f, n) ==
    f = [k \in 0..n |->
           IF k = 0 THEN <<CentralDSN>>
           ELSE IF ShardDSNs[k] \in ToSet(f[k - 1]) THEN f[k - 1]
           ELSE Append(f[k - 1], ShardDSNs[k])]

\* DSNs is the last of them.
LEMMA DSNsIsList == DSNs = (CHOOSE f : ListsTo(f, Len(ShardDSNs)))[Len(ShardDSNs)]
  BY DEF DSNs, ListsTo

\* The lists exist.
LEMMA ListsExist == \E f : ListsTo(f, Len(ShardDSNs))
  <1> DEFINE N == Len(ShardDSNs)
             H == {m \in 0..N : \E f : ListsTo(f, m)}
  <1>0. N \in Nat
    <2>1. \A s \in Seq(STRING) : Len(s) \in Nat
      OBVIOUS
    <2> QED BY <2>1, MigrateAssumption
  <1>1. 0 \in H
    <2> DEFINE f == [n \in 0..0 |-> <<CentralDSN>>]
    <2>1. ListsTo(f, 0)
      BY DEF ListsTo
    <2> QED BY <1>0, <2>1
  <1>2. ASSUME NEW m \in 1..N, m - 1 \in H
        PROVE  m \in H
    <2>1. PICK f : ListsTo(f, m - 1)
      BY <1>2
    <2> DEFINE Next1(w, d) == IF d \in ToSet(w) THEN w ELSE Append(w, d)
               g == [n \in 0..m |-> IF n = m THEN Next1(f[m - 1], ShardDSNs[m]) ELSE f[n]]
    <2>2. g[m] = Next1(f[m - 1], ShardDSNs[m]) /\ g[m - 1] = f[m - 1]
      <3>1. m \in 0..m /\ m - 1 \in 0..m /\ m - 1 # m
        BY <1>2
      <3> QED BY <3>1
    <2>3. ASSUME NEW n \in 0..m - 1
          PROVE  g[n] = IF n = 0 THEN <<CentralDSN>> ELSE Next1(g[n - 1], ShardDSNs[n])
      <3>1. n \in 0..m /\ n # m /\ (n # 0 => n - 1 \in 0..m /\ n - 1 # m)
        BY <2>3
      <3>2. g[n] = f[n] /\ (n # 0 => g[n - 1] = f[n - 1])
        BY <3>1
      <3>3. f[n] = IF n = 0 THEN <<CentralDSN>> ELSE Next1(f[n - 1], ShardDSNs[n])
        BY <2>1, <2>3 DEF ListsTo
      <3> HIDE DEF g, Next1
      <3> QED BY <3>2, <3>3
    <2>4. g = [n \in 0..m |-> g[n]]
      OBVIOUS
    <2>5. m # 0 /\ \A n \in 0..m : n = m \/ n \in 0..m - 1
      BY <1>2
    <2>6. g[m] = Next1(g[m - 1], ShardDSNs[m])
      BY <2>2
    <2>7. \A n \in 0..m : g[n] = IF n = 0 THEN <<CentralDSN>> ELSE Next1(g[n - 1], ShardDSNs[n])
      <3> HIDE DEF g, Next1
      <3> QED BY <2>3, <2>5, <2>6
    <2> HIDE DEF g
    <2>8. ListsTo(g, m)
      BY <2>4, <2>7 DEF ListsTo
    <2> QED BY <1>2, <2>8
  <1>3. H \in SUBSET (0..N)
    OBVIOUS
  <1> HIDE DEF H, N
  <1>4. N \in H
    BY <1>0, <1>1, <1>2, <1>3, UpTo
  <1> QED BY <1>4 DEF H, N

\* A sequence with one more element.
LEMMA Appended ==
  ASSUME NEW T, NEW q \in Seq(T), NEW v \in T
  PROVE  /\ Append(q, v) \in Seq(T) /\ Len(q) \in Nat /\ DOMAIN q = 1..Len(q)
         /\ DOMAIN Append(q, v) = 1..Len(q) + 1 /\ Append(q, v)[Len(q) + 1] = v
         /\ \A i \in 1..Len(q) : Append(q, v)[i] = q[i] /\ q[i] \in T
         /\ \A i \in 1..Len(q) + 1 : i \in 1..Len(q) \/ i = Len(q) + 1
  OBVIOUS

\* w lists the central database and the first m shards, each once.
ListOf(w, m) ==
    /\ w \in Seq(STRING) /\ IsInjective(w)
    /\ ToSet(w) = {CentralDSN} \cup {ShardDSNs[k] : k \in 1..m}

\* One more shard.
LEMMA ListGrows ==
  ASSUME NEW m \in Nat \ {0}, NEW w, ListOf(w, m - 1), ShardDSNs[m] \in STRING
  PROVE  ListOf(IF ShardDSNs[m] \in ToSet(w) THEN w ELSE Append(w, ShardDSNs[m]), m)
  <1> DEFINE d == ShardDSNs[m]
             S(k) == {CentralDSN} \cup {ShardDSNs[i] : i \in 1..k}
             s == Append(w, d)
  <1>1. w \in Seq(STRING) /\ IsInjective(w) /\ ToSet(w) = S(m - 1)
    BY DEF ListOf
  <1>2. S(m) = S(m - 1) \cup {d}
    <2>1. \A i : i \in 1..m <=> i \in 1..m - 1 \/ i = m
      OBVIOUS
    <2> QED BY <2>1
  <1> HIDE DEF d, S
  <1>3. CASE d \in ToSet(w)
    <2>1. ToSet(w) = S(m)
      BY <1>1, <1>2, <1>3
    <2> QED BY <1>1, <1>3, <2>1 DEF ListOf, S, d
  <1>4. CASE d \notin ToSet(w)
    <2> DEFINE n == Len(w)
    <2>1. /\ s \in Seq(STRING) /\ n \in Nat /\ DOMAIN w = 1..n /\ DOMAIN s = 1..n + 1
          /\ s[n + 1] = d /\ \A i \in 1..n : s[i] = w[i]
      <3> DEFINE T == STRING
      <3>1. w \in Seq(T) /\ d \in T
        BY <1>1 DEF d
      <3> HIDE DEF T
      <3>2. /\ s \in Seq(T) /\ Len(w) \in Nat /\ DOMAIN w = 1..Len(w)
            /\ DOMAIN s = 1..Len(w) + 1
            /\ s[Len(w) + 1] = d /\ \A i \in 1..Len(w) : s[i] = w[i]
        BY <3>1, Appended
      <3> QED BY <3>2 DEF T
    <2> HIDE DEF s, n
    <2>2. \A i : i \in 1..n + 1 <=> i \in 1..n \/ i = n + 1
      BY <2>1
    <2>3. \A i \in 1..n : w[i] # d
      BY <1>4, <2>1 DEF ToSet
    <2>4. IsInjective(s)
      <3>1. \A i, j \in 1..n : w[i] = w[j] => i = j
        BY <1>1, <2>1 DEF IsInjective
      <3>2. \A i, j \in 1..n + 1 : s[i] = s[j] => i = j
        BY <2>1, <2>2, <2>3, <3>1
      <3> QED BY <2>1, <3>2 DEF IsInjective
    <2>5. \A x : x \in ToSet(s) <=> x \in ToSet(w) \/ x = d
      BY <2>1, <2>2 DEF ToSet
    <2>6. ToSet(s) = S(m)
      BY <1>1, <1>2, <2>5
    <2> QED BY <1>4, <2>1, <2>4, <2>6 DEF ListOf, S, s, d
  <1> QED BY <1>3, <1>4

\* Whatever the shards are and however often one is named, the tool takes the
\* central database and all of them, each once.
THEOREM DatabasesOnce ==
    /\ DSNs \in Seq(STRING) /\ IsInjective(DSNs)
    /\ ToSet(DSNs) = {CentralDSN} \cup ToSet(ShardDSNs)
  <1> DEFINE N == Len(ShardDSNs)
             f == CHOOSE f : ListsTo(f, N)
             H == {m \in 0..N : ListOf(f[m], m)}
  <1>0. /\ N \in Nat /\ CentralDSN \in STRING /\ DOMAIN ShardDSNs = 1..N
        /\ \A k \in 1..N : ShardDSNs[k] \in STRING
    <2>1. \A s \in Seq(STRING) : /\ Len(s) \in Nat /\ DOMAIN s = 1..Len(s)
                                 /\ \A k \in 1..Len(s) : s[k] \in STRING
      OBVIOUS
    <2> QED BY <2>1, MigrateAssumption
  <1>1. ListsTo(f, N)
    BY ListsExist
  <1> HIDE DEF f, N
  <1>2. 0 \in H
    <2>1. 0 \in 0..N
      BY <1>0
    <2>2. f[0] = <<CentralDSN>>
      BY <1>1, <2>1 DEF ListsTo
    <2>3. \A T : \A x \in T : /\ <<x>> \in Seq(T) /\ IsInjective(<<x>>) /\ ToSet(<<x>>) = {x}
      BY DEF IsInjective, ToSet
    <2>4. {ShardDSNs[k] : k \in 1..0} = {}
      OBVIOUS
    <2>5. ListOf(<<CentralDSN>>, 0)
      BY <1>0, <2>3, <2>4 DEF ListOf
    <2> QED BY <2>1, <2>2, <2>5
  <1>3. ASSUME NEW m \in 1..N, m - 1 \in H
        PROVE  m \in H
    <2>1. m \in 0..N /\ m # 0 /\ m \in Nat \ {0}
      BY <1>0
    <2>2. f[m] = IF ShardDSNs[m] \in ToSet(f[m - 1]) THEN f[m - 1] ELSE Append(f[m - 1], ShardDSNs[m])
      BY <1>1, <2>1 DEF ListsTo
    <2>3. ListOf(f[m - 1], m - 1)
      BY <1>3
    <2>4. ListOf(f[m], m)
      BY <1>0, <2>1, <2>2, <2>3, ListGrows
    <2> QED BY <2>1, <2>4
  <1>4. H \in SUBSET (0..N)
    OBVIOUS
  <1>5. N \in H
    <2> HIDE DEF H
    <2> QED BY <1>0, <1>2, <1>3, <1>4, UpTo
  <1>6. ListOf(DSNs, N)
    BY <1>5, DSNsIsList DEF f, N
  <1>7. ToSet(ShardDSNs) = {ShardDSNs[k] : k \in 1..N}
    BY <1>0 DEF ToSet
  <1> QED BY <1>6, <1>7 DEF ListOf

\* There is at least the central database.
LEMMA DSNsType == Len(DSNs) \in Nat \ {0} /\ DOMAIN DSNs = 1..Len(DSNs)
  <1>1. CentralDSN \in ToSet(DSNs)
    BY DatabasesOnce
  <1>2. DOMAIN DSNs # {}
    BY <1>1 DEF ToSet
  <1>3. \A w \in Seq(STRING) : Len(w) \in Nat /\ DOMAIN w = 1..Len(w) /\ (DOMAIN w # {} => Len(w) # 0)
    OBVIOUS
  <1> QED BY <1>2, <1>3, DatabasesOnce

-----------------------------------------------------------------------------
(* Migrate: the invariant.                                                 *)

Dbs == ToSet(DSNs)
MigState == [pc : {"off", "lock", "check", "apply", "sync", "done"}, at : Nat, file : Nat]

MigrateShapes ==
    /\ recorded = [d \in Dbs |-> recorded[d]] /\ \A d \in Dbs : DOMAIN recorded[d] \subseteq Nat
    /\ applied \in [Dbs -> Seq(Nat)]
    /\ advisory \in [Dbs -> Migrators \cup {Nobody}]
    /\ mig \in [Migrators -> MigState]

\* Database d has the script v with the text that m has.
Has(m, d, v) == v \in DOMAIN recorded[d] /\ recorded[d][v] = Scripts[m][v]
HasAll(m, d) == \A v \in DOMAIN Scripts[m] : Has(m, d, v)

\* What a run has behind it: the databases before the one it is at have its
\* scripts, that one is locked and has the scripts before the one in hand, which
\* is not recorded while it is executed; the shards before the one it copies are
\* in the directory.
RunFits(m) ==
    /\ mig[m].pc \in {"lock", "check", "apply"} =>
          /\ mig[m].at \in 1..Len(DSNs)
          /\ \A k \in 1..Len(DSNs) : k < mig[m].at => HasAll(m, DSNs[k])
    /\ mig[m].pc \in {"check", "apply"} =>
          /\ advisory[Database(m)] = m
          /\ mig[m].file \in 1..Len(Files(m)) + 1
          /\ \A k \in 1..Len(Files(m)) : k < mig[m].file => Has(m, Database(m), Files(m)[k])
    /\ mig[m].pc = "apply" =>
          mig[m].file <= Len(Files(m)) /\ Script(m) \notin DOMAIN recorded[Database(m)]
    /\ mig[m].pc \in {"sync", "done"} => \A d \in Dbs : HasAll(m, d)
    /\ mig[m].pc = "sync" =>
          /\ mig[m].at \in 1..Len(ShardDSNs)
          /\ \A k \in 1..Len(ShardDSNs) : k < mig[m].at => ShardRoles[ShardDSNs[k]] \subseteq listed
    /\ mig[m].pc = "done" =>
          \A k \in 1..Len(ShardDSNs) : ShardRoles[ShardDSNs[k]] \subseteq listed

\* What was executed is recorded, once, and in order: under releases that only
\* add versions, all versions below an executed one are recorded.
AppliedOK(d) ==
    /\ \A i \in DOMAIN applied[d] : applied[d][i] \in DOMAIN recorded[d]
    /\ \A i, j \in DOMAIN applied[d] : i < j =>
          applied[d][i] # applied[d][j] /\ (OnlyAdded => applied[d][i] < applied[d][j])
    /\ OnlyAdded =>
          \A i \in DOMAIN applied[d], n \in Migrators : \A v \in DOMAIN Scripts[n] :
              v < applied[d][i] => v \in DOMAIN recorded[d]

MigrateInv ==
    /\ MigrateShapes
    /\ \A m \in Migrators : RunFits(m)
    /\ \A d \in Dbs : AppliedOK(d)

\* The invariant gives the type invariant and the property.
LEMMA MigrateConcludes == MigrateInv => MigrateTypeOK /\ MigrationsInOrder
  <1> SUFFICES ASSUME MigrateInv  PROVE MigrateTypeOK /\ MigrationsInOrder
    OBVIOUS
  <1>1. MigrateTypeOK
    BY DEF MigrateInv, MigrateShapes, MigrateTypeOK, Dbs, MigState
  <1>2. ASSUME NEW d \in Dbs
        PROVE  /\ \A i, j \in DOMAIN applied[d] : i < j =>
                     /\ applied[d][i] # applied[d][j]
                     /\ OnlyAdded => applied[d][i] < applied[d][j]
               /\ ToSet(applied[d]) \subseteq DOMAIN recorded[d]
    BY DEF MigrateInv, AppliedOK, ToSet
  <1>3. ASSUME NEW m \in Migrators, mig[m].pc \in {"sync", "done"}
        PROVE  \A d \in Dbs, v \in DOMAIN Scripts[m] :
                   v \in DOMAIN recorded[d] /\ recorded[d][v] = Scripts[m][v]
    BY <1>3 DEF MigrateInv, RunFits, HasAll, Has
  <1>4. ASSUME NEW m \in Migrators, mig[m].pc = "done"
        PROVE  \A d \in ToSet(ShardDSNs) : ShardRoles[d] \subseteq listed
    <2>1. \A k \in 1..Len(ShardDSNs) : ShardRoles[ShardDSNs[k]] \subseteq listed
      BY <1>4 DEF MigrateInv, RunFits
    <2>2. \A s \in Seq(STRING) : DOMAIN s = 1..Len(s)
      OBVIOUS
    <2> QED BY <2>1, <2>2, MigrateAssumption DEF ToSet
  <1> QED BY <1>1, <1>2, <1>3, <1>4 DEF MigrationsInOrder, Dbs, MigAt

\* Nothing was executed at the start.
LEMMA MigrateStart == MigrateInit => MigrateInv
  <1> SUFFICES ASSUME MigrateInit  PROVE MigrateInv
    OBVIOUS
  <1>1. /\ recorded \in [Dbs -> Earlier] /\ applied = [d \in Dbs |-> <<>>]
        /\ advisory = [d \in Dbs |-> Nobody] /\ mig = [m \in Migrators |-> MigOff]
    BY DEF MigrateInit, Dbs
  <1>2. <<>> \in Seq(Nat) /\ DOMAIN <<>> = {}
    OBVIOUS
  <1>3. MigOff \in MigState /\ MigOff.pc = "off"
    BY DEF MigOff, MigState
  <1>4. MigrateShapes
    BY <1>1, <1>2, <1>3, MigrateAssumption DEF MigrateShapes
  <1>5. \A m \in Migrators : RunFits(m)
    BY <1>1, <1>3 DEF RunFits
  <1>6. \A d \in Dbs : AppliedOK(d)
    BY <1>1, <1>2 DEF AppliedOK
  <1> QED BY <1>4, <1>5, <1>6 DEF MigrateInv

\* A step of m: it writes records only in a database that it has locked, adds
\* to them and keeps the checksums there are.
LEMMA OneMigrator ==
  ASSUME MigrateInv, NEW m \in Migrators, MigrateShapes', RunFits(m)', \A d \in Dbs : AppliedOK(d)',
         \A n \in Migrators \ {m} : mig'[n] = mig[n],
         \A d \in Dbs : recorded'[d] = recorded[d] \/ advisory[d] = m,
         \A d \in Dbs : \A v \in DOMAIN recorded[d] :
             /\ v \in DOMAIN recorded'[d]
             /\ recorded[d][v] # "" => recorded'[d][v] = recorded[d][v],
         \A d \in Dbs, n \in Migrators \ {m} : advisory[d] = n => advisory'[d] = n,
         listed \subseteq listed'
  PROVE  MigrateInv'
  <1>1. ASSUME NEW n \in Migrators \ {m}
        PROVE  RunFits(n)'
    <2>0. mig'[n] = mig[n] /\ Database(n)' = Database(n) /\ Script(n)' = Script(n) /\ RunFits(n)
      BY DEF MigrateInv, Database, Script
    <2>1. ASSUME NEW d \in Dbs, NEW v \in DOMAIN Scripts[n], Has(n, d, v)
          PROVE  Has(n, d, v)'
      <3>1. Scripts[n][v] # ""
        BY MigrateAssumption
      <3> QED BY <2>1, <3>1 DEF Has
    <2>2. ASSUME NEW d \in Dbs, HasAll(n, d)
          PROVE  HasAll(n, d)'
      BY <2>1, <2>2 DEF HasAll
    <2>3. \A k \in 1..Len(DSNs) : DSNs[k] \in Dbs
      BY DSNsType DEF Dbs, ToSet
    <2>4. mig[n].pc \in {"lock", "check", "apply"} => Database(n) \in Dbs
      BY <2>0, <2>3 DEF RunFits, Database
    <2>5. \A k \in 1..Len(Files(n)) : Files(n)[k] \in DOMAIN Scripts[n]
      BY FilesSorted
    <2>6. (mig[n].pc \in {"lock", "check", "apply"} =>
              \A k \in 1..Len(DSNs) : k < mig[n].at => HasAll(n, DSNs[k]))'
      BY <2>0, <2>2, <2>3 DEF RunFits
    <2>7. (mig[n].pc \in {"check", "apply"} =>
              /\ advisory[Database(n)] = n
              /\ \A k \in 1..Len(Files(n)) : k < mig[n].file => Has(n, Database(n), Files(n)[k]))'
      <3> SUFFICES ASSUME mig[n].pc \in {"check", "apply"}
                   PROVE  /\ advisory'[Database(n)] = n
                          /\ \A k \in 1..Len(Files(n)) :
                                k < mig[n].file => Has(n, Database(n), Files(n)[k])'
        BY <2>0
      <3>1. /\ advisory[Database(n)] = n /\ Database(n) \in Dbs
            /\ \A k \in 1..Len(Files(n)) : k < mig[n].file => Has(n, Database(n), Files(n)[k])
        BY <2>0, <2>4 DEF RunFits
      <3>2. \A k \in 1..Len(Files(n)) : k < mig[n].file => Has(n, Database(n), Files(n)[k])'
        BY <2>0, <2>1, <2>5, <3>1
      <3> QED BY <3>1, <3>2
    <2>8. (mig[n].pc = "apply" => Script(n) \notin DOMAIN recorded[Database(n)])'
      <3> SUFFICES ASSUME mig[n].pc = "apply"
                   PROVE  Script(n) \notin DOMAIN recorded'[Database(n)]
        BY <2>0
      <3>1. /\ Database(n) \in Dbs /\ advisory[Database(n)] = n
            /\ Script(n) \notin DOMAIN recorded[Database(n)]
        BY <2>0, <2>4 DEF RunFits
      <3> QED BY <3>1
    <2>9. (mig[n].pc \in {"sync", "done"} => \A d \in Dbs : HasAll(n, d))'
      BY <2>0, <2>2 DEF RunFits
    <2> QED BY <2>0, <2>6, <2>7, <2>8, <2>9 DEF RunFits
  <1> QED BY <1>1 DEF MigrateInv

\* A step that executes and records nothing.
LEMMA Reads ==
  ASSUME MigrateInv, NEW m \in Migrators, UNCHANGED <<recorded, applied>>, RunFits(m)',
         mig' \in [Migrators -> MigState], \A n \in Migrators \ {m} : mig'[n] = mig[n],
         advisory' \in [Dbs -> Migrators \cup {Nobody}],
         \A d \in Dbs, n \in Migrators \ {m} : advisory[d] = n => advisory'[d] = n,
         listed \subseteq listed'
  PROVE  MigrateInv'
  <1>1. MigrateShapes'
    BY DEF MigrateInv, MigrateShapes
  <1>2. \A d \in Dbs : AppliedOK(d)'
    BY DEF MigrateInv, AppliedOK
  <1> QED BY <1>1, <1>2, OneMigrator

\* What Step writes.
LEMMA Stepped ==
  ASSUME mig \in [Migrators -> MigState], NEW m \in Migrators, NEW x \in MigState,
         mig' = [mig EXCEPT ![m] = x]
  PROVE  /\ mig' \in [Migrators -> MigState] /\ mig'[m] = x
         /\ \A n \in Migrators \ {m} : mig'[n] = mig[n]
  OBVIOUS

\* What Unlock leaves.
LEMMA Unlocked ==
  ASSUME advisory \in [Dbs -> Migrators \cup {Nobody}], NEW m \in Migrators, Unlock(m)
  PROVE  /\ advisory' \in [Dbs -> Migrators \cup {Nobody}]
         /\ \A d \in Dbs, n \in Migrators \ {m} : advisory[d] = n => advisory'[d] = n
  BY DEF Unlock

\* A run that is over, whatever way, holds nothing.
LEMMA RunEnds ==
  ASSUME MigrateInv, NEW m \in Migrators, UNCHANGED <<recorded, applied>>,
         mig' = [mig EXCEPT ![m] = MigOff], Unlock(m), listed \subseteq listed'
  PROVE  MigrateInv'
  <1>1. MigOff \in MigState /\ MigOff.pc = "off"
    BY DEF MigOff, MigState
  <1>2. /\ mig \in [Migrators -> MigState] /\ advisory \in [Dbs -> Migrators \cup {Nobody}]
    BY DEF MigrateInv, MigrateShapes
  <1>3. /\ mig' \in [Migrators -> MigState] /\ mig'[m] = MigOff
        /\ \A n \in Migrators \ {m} : mig'[n] = mig[n]
    BY <1>1, <1>2, Stepped
  <1>4. RunFits(m)'
    BY <1>1, <1>3 DEF RunFits
  <1> QED BY <1>2, <1>3, <1>4, Unlocked, Reads

\* What holds of a run at a database.
LEMMA RunAt ==
  ASSUME MigrateInv, NEW m \in Migrators
  PROVE  /\ mig[m] \in MigState /\ RunFits(m)
         /\ mig[m].pc \in {"lock", "check", "apply"} => Database(m) \in Dbs
  <1>1. mig[m] \in MigState /\ RunFits(m)
    BY DEF MigrateInv, MigrateShapes
  <1>2. \A k \in 1..Len(DSNs) : DSNs[k] \in Dbs
    BY DSNsType DEF Dbs, ToSet
  <1> QED BY <1>1, <1>2 DEF RunFits, Database

\* The start of a run and its locks.
LEMMA LockSteps ==
  ASSUME MigrateInv, NEW m \in Migrators, RunMigrator(m) \/ Lock(m)
  PROVE  MigrateInv'
  <1>0. /\ mig \in [Migrators -> MigState] /\ advisory \in [Dbs -> Migrators \cup {Nobody}]
        /\ UNCHANGED <<recorded, applied, listed>>
    BY DEF MigrateInv, MigrateShapes, RunMigrator, Lock
  <1>1. CASE RunMigrator(m)
    <2> DEFINE x == [pc |-> "lock", at |-> 1, file |-> 1]
    <2>1. x \in MigState /\ x.pc = "lock" /\ x.at = 1
      BY DEF MigState
    <2>2. mig' = [mig EXCEPT ![m] = x] /\ UNCHANGED advisory
      BY <1>1 DEF RunMigrator, Step
    <2> HIDE DEF x
    <2>3. /\ mig' \in [Migrators -> MigState] /\ mig'[m] = x
          /\ \A n \in Migrators \ {m} : mig'[n] = mig[n]
      BY <1>0, <2>1, <2>2, Stepped
    <2>4. 1 \in 1..Len(DSNs) /\ \A k \in 1..Len(DSNs) : ~(k < 1)
      BY DSNsType
    <2>5. RunFits(m)'
      BY <2>1, <2>3, <2>4 DEF RunFits
    <2> QED BY <1>0, <2>2, <2>3, <2>5, Reads
  <1>2. CASE Lock(m)
    <2> DEFINE x == [pc |-> "check", at |-> mig[m].at, file |-> 1]
    <2>0. mig[m] \in MigState /\ mig[m].pc = "lock" /\ RunFits(m) /\ Database(m) \in Dbs
      BY <1>2, RunAt DEF Lock, MigAt
    <2>1. x \in MigState /\ x.pc = "check" /\ x.at = mig[m].at /\ x.file = 1
      BY <2>0 DEF MigState
    <2>2. /\ mig' = [mig EXCEPT ![m] = x] /\ advisory' = [advisory EXCEPT ![Database(m)] = m]
          /\ advisory[Database(m)] = Nobody
      BY <1>2 DEF Lock, Step
    <2> HIDE DEF x
    <2>3. /\ mig' \in [Migrators -> MigState] /\ mig'[m] = x
          /\ \A n \in Migrators \ {m} : mig'[n] = mig[n]
      BY <1>0, <2>1, <2>2, Stepped
    <2>4. /\ advisory' \in [Dbs -> Migrators \cup {Nobody}] /\ advisory'[Database(m)] = m
          /\ \A d \in Dbs, n \in Migrators \ {m} : advisory[d] = n => advisory'[d] = n
      BY <1>0, <2>0, <2>2, MigrateAssumption
    <2>5. Database(m)' = Database(m)
      BY <2>1, <2>3 DEF Database
    <2>6. 1 \in 1..Len(Files(m)) + 1 /\ \A k \in 1..Len(Files(m)) : ~(k < 1)
      BY FilesSorted
    <2>7. \A k \in 1..Len(DSNs) : k < mig[m].at => HasAll(m, DSNs[k])'
      BY <1>0, <2>0 DEF RunFits, HasAll, Has
    <2>8. RunFits(m)'
      BY <1>0, <2>0, <2>1, <2>3, <2>4, <2>5, <2>6, <2>7 DEF RunFits
    <2> QED BY <1>0, <2>3, <2>4, <2>8, Reads
  <1> QED BY <1>1, <1>2

\* Numbers up to one more.
LEMMA OneMore ==
  ASSUME NEW i \in Nat, NEW j \in Nat
  PROVE  /\ i \in 1..j + 1 /\ i <= j => i \in 1..j /\ i + 1 \in 1..j + 1 /\ i + 1 \in Nat
         /\ i < j + 1 /\ i # j => i < j
         /\ \A k \in 1..j : k \in Nat
  OBVIOUS

\* The script in hand gets its record, and the run goes on to the next one.
LEMMA RecordsOne ==
  ASSUME MigrateInv, NEW m \in Migrators, mig[m].pc \in {"check", "apply"},
         mig[m].file <= Len(Files(m)),
         NEW d, d = Database(m), NEW v, v = Script(m),
         recorded' = [e \in Dbs |-> recorded'[e]],
         \A e \in Dbs \ {d} : recorded'[e] = recorded[e],
         DOMAIN recorded'[d] = DOMAIN recorded[d] \cup {v},
         recorded'[d][v] = Scripts[m][v],
         \A w \in DOMAIN recorded[d] \ {v} : recorded'[d][w] = recorded[d][w],
         v \in DOMAIN recorded[d] => recorded[d][v] \in {"", Scripts[m][v]},
         Step(m, "check", mig[m].at, mig[m].file + 1), UNCHANGED <<advisory, listed>>,
         applied' \in [Dbs -> Seq(Nat)], \A e \in Dbs : AppliedOK(e)'
  PROVE  MigrateInv'
  <1> DEFINE l == mig[m].file
             x == [pc |-> "check", at |-> mig[m].at, file |-> l + 1]
  <1>0. /\ mig \in [Migrators -> MigState] /\ advisory \in [Dbs -> Migrators \cup {Nobody}]
        /\ mig[m] \in MigState /\ RunFits(m) /\ d \in Dbs
    BY RunAt DEF MigrateInv, MigrateShapes
  <1>1. l \in 1..Len(Files(m)) /\ Len(Files(m)) \in Nat /\ l + 1 \in 1..Len(Files(m)) + 1 /\ l + 1 \in Nat
    <2>1. l \in 1..Len(Files(m)) + 1 /\ Len(Files(m)) \in Nat
      BY <1>0, FilesSorted DEF RunFits
    <2>2. l <= Len(Files(m)) /\ l \in Nat
      BY <1>0 DEF MigState
    <2> HIDE DEF l
    <2> QED BY <2>1, <2>2, OneMore
  <1>2. v \in DOMAIN Scripts[m] /\ v \in Nat
    BY <1>1, FilesSorted DEF Script
  <1>3. x \in MigState /\ x.pc = "check" /\ x.at = mig[m].at /\ x.file = l + 1
    <2> HIDE DEF l
    <2> QED BY <1>0, <1>1 DEF MigState
  <1>4. mig' = [mig EXCEPT ![m] = x]
    BY DEF Step
  <1> HIDE DEF x
  <1>5. /\ mig' \in [Migrators -> MigState] /\ mig'[m] = x
        /\ \A n \in Migrators \ {m} : mig'[n] = mig[n]
    BY <1>0, <1>3, <1>4, Stepped
  <1>6. Database(m)' = d
    BY <1>3, <1>5 DEF Database
  <1>7. ASSUME NEW e \in Dbs, NEW w \in DOMAIN recorded[e]
        PROVE  /\ w \in DOMAIN recorded'[e]
               /\ recorded[e][w] # "" => recorded'[e][w] = recorded[e][w]
    <2>1. CASE e # d
      BY <2>1
    <2>2. CASE e = d
      BY <2>2
    <2> QED BY <2>1, <2>2
  <1>8. ASSUME NEW e \in Dbs, NEW w \in DOMAIN Scripts[m], Has(m, e, w)
        PROVE  Has(m, e, w)'
    <2>1. Scripts[m][w] # ""
      BY MigrateAssumption
    <2> QED BY <1>7, <1>8, <2>1 DEF Has
  <1>9. Has(m, d, v)'
    BY DEF Has
  <1>10. \A k \in 1..Len(Files(m)) : k < l + 1 => Has(m, d, Files(m)[k])'
    <2> SUFFICES ASSUME NEW k \in 1..Len(Files(m)), k < l + 1
                 PROVE  Has(m, d, Files(m)[k])'
      OBVIOUS
    <2>1. CASE k = l
      BY <1>9, <2>1 DEF Script
    <2>2. CASE k # l
      <3>0. l \in Nat /\ k < l + 1
        BY <1>0 DEF MigState
      <3> HIDE DEF l
      <3>1. k \in Nat /\ l \in Nat /\ k < l + 1
        BY <1>1, <3>0, OneMore
      <3>2. k < l
        BY <2>2, <3>1, OneMore
      <3>3. Has(m, d, Files(m)[k])
        BY <1>0, <3>2 DEF RunFits, l
      <3>4. Files(m)[k] \in DOMAIN Scripts[m]
        BY FilesSorted
      <3> QED BY <1>0, <1>8, <3>3, <3>4
    <2> QED BY <2>1, <2>2
  <1>11. /\ mig[m].at \in 1..Len(DSNs)
         /\ \A k \in 1..Len(DSNs) : k < mig[m].at => HasAll(m, DSNs[k])'
    <2>1. \A k \in 1..Len(DSNs) : DSNs[k] \in Dbs
      BY DSNsType DEF Dbs, ToSet
    <2> QED BY <1>0, <1>8, <2>1 DEF RunFits, HasAll
  <1>12. advisory'[d] = m
    BY <1>0 DEF RunFits
  <1> HIDE DEF l
  <1>13. RunFits(m)'
    <2>1. mig'[m].pc = "check" /\ mig'[m].at = mig[m].at /\ mig'[m].file = l + 1
      BY <1>3, <1>5
    <2>2. (mig[m].at \in 1..Len(DSNs)
           /\ \A k \in 1..Len(DSNs) : k < mig[m].at => HasAll(m, DSNs[k]))'
      BY <1>11, <2>1
    <2>3. (/\ advisory[Database(m)] = m /\ mig[m].file \in 1..Len(Files(m)) + 1
           /\ \A k \in 1..Len(Files(m)) : k < mig[m].file => Has(m, Database(m), Files(m)[k]))'
      BY <1>1, <1>6, <1>10, <1>12, <2>1
    <2>4. mig'[m].pc \notin {"apply", "sync", "done"}
      BY <2>1
    <2> QED BY <2>2, <2>3, <2>4 DEF RunFits
  <1>14. \A e \in Dbs : DOMAIN recorded'[e] \subseteq Nat
    <2>1. \A e \in Dbs : DOMAIN recorded[e] \subseteq Nat
      BY DEF MigrateInv, MigrateShapes
    <2>2. DOMAIN recorded'[d] \subseteq Nat
      BY <1>0, <1>2, <2>1
    <2>3. \A e \in Dbs \ {d} : DOMAIN recorded'[e] \subseteq Nat
      BY <2>1
    <2> QED BY <2>2, <2>3
  <1>15. MigrateShapes'
    BY <1>0, <1>5, <1>14 DEF MigrateShapes
  <1>16. \A e \in Dbs : recorded'[e] = recorded[e] \/ advisory[e] = m
    BY <1>12
  <1> QED BY <1>5, <1>7, <1>13, <1>15, <1>16, OneMigrator

\* A script is compared with its record.
LEMMA CheckKeeps ==
  ASSUME MigrateInv, NEW m \in Migrators, CheckScript(m)
  PROVE  MigrateInv'
  <1> DEFINE d == Database(m)
             v == Script(m)
             c == Checksum(m)
  <1>0. /\ mig[m] \in MigState /\ RunFits(m) /\ d \in Dbs /\ mig[m].pc = "check"
        /\ mig[m].file <= Len(Files(m)) /\ UNCHANGED <<applied, listed>>
        /\ mig \in [Migrators -> MigState] /\ advisory \in [Dbs -> Migrators \cup {Nobody}]
        /\ recorded = [e \in Dbs |-> recorded[e]] /\ applied \in [Dbs -> Seq(Nat)]
    BY RunAt DEF CheckScript, MigAt, MigrateInv, MigrateShapes
  <1>1. CASE /\ v \notin DOMAIN recorded[d] /\ Step(m, "apply", mig[m].at, mig[m].file)
             /\ UNCHANGED <<recorded, advisory>>
    <2> DEFINE x == [pc |-> "apply", at |-> mig[m].at, file |-> mig[m].file]
    <2>1. x \in MigState /\ x.pc = "apply" /\ x.at = mig[m].at /\ x.file = mig[m].file
      BY <1>0 DEF MigState
    <2>2. mig' = [mig EXCEPT ![m] = x]
      BY <1>1 DEF Step
    <2> HIDE DEF x
    <2>3. /\ mig' \in [Migrators -> MigState] /\ mig'[m] = x
          /\ \A n \in Migrators \ {m} : mig'[n] = mig[n]
      BY <1>0, <2>1, <2>2, Stepped
    <2>4. Database(m)' = d /\ Script(m)' = v
      BY <2>1, <2>3 DEF Database, Script
    <2>5. \A e : /\ HasAll(m, e) => HasAll(m, e)'
                 /\ \A w : Has(m, e, w) => Has(m, e, w)'
      BY <1>1 DEF HasAll, Has
    <2>6. RunFits(m)'
      BY <1>0, <1>1, <2>1, <2>3, <2>4, <2>5 DEF RunFits
    <2> QED BY <1>0, <1>1, <2>3, <2>6, Reads
  <1>2. CASE /\ v \in DOMAIN recorded[d] /\ recorded[d][v] \in {"", c}
             /\ recorded' = [recorded EXCEPT ![d][v] = c]
             /\ Step(m, "check", mig[m].at, mig[m].file + 1) /\ UNCHANGED advisory
    <2>1. recorded' = [recorded EXCEPT ![d] = [recorded[d] EXCEPT ![v] = c]]
      BY <1>2
    <2>2. c = Scripts[m][v]
      BY DEF Checksum
    <2> HIDE DEF d, v, c
    <2>3. /\ recorded' = [e \in Dbs |-> recorded'[e]]
          /\ \A e \in Dbs \ {d} : recorded'[e] = recorded[e]
          /\ recorded'[d] = [recorded[d] EXCEPT ![v] = c]
      BY <1>0, <2>1
    <2>4. /\ DOMAIN recorded'[d] = DOMAIN recorded[d] /\ recorded'[d][v] = c
          /\ \A w \in DOMAIN recorded[d] \ {v} : recorded'[d][w] = recorded[d][w]
      BY <1>2, <2>3
    <2>5. DOMAIN recorded'[d] = DOMAIN recorded[d] \cup {v}
      BY <1>2, <2>4
    <2>6. \A e \in Dbs : AppliedOK(e)'
      <3>1. \A e \in Dbs : DOMAIN recorded'[e] = DOMAIN recorded[e]
        BY <2>3, <2>4
      <3> QED BY <1>0, <3>1 DEF MigrateInv, AppliedOK
    <2> QED BY <1>0, <1>2, <2>2, <2>3, <2>4, <2>5, <2>6, RecordsOne DEF d, v
  <1>3. CASE mig' = [mig EXCEPT ![m] = MigOff] /\ Unlock(m) /\ UNCHANGED recorded
    BY <1>0, <1>3, RunEnds
  <1> QED BY <1>1, <1>2, <1>3 DEF CheckScript

\* The script in hand is new, and all below it are recorded.
LEMMA ScriptIsNext ==
  ASSUME MigrateInv, NEW m \in Migrators, mig[m].pc = "apply", OnlyAdded
  PROVE  \A n \in Migrators : \A u \in DOMAIN Scripts[n] :
             u < Script(m) => u \in DOMAIN recorded[Database(m)]
  <1> SUFFICES ASSUME NEW n \in Migrators, NEW u \in DOMAIN Scripts[n], u < Script(m)
               PROVE  u \in DOMAIN recorded[Database(m)]
    OBVIOUS
  <1> DEFINE l == mig[m].file
             v == Script(m)
  <1>0. RunFits(m) /\ l \in Nat
    BY RunAt DEF MigState
  <1>1. l \in 1..Len(Files(m)) /\ Len(Files(m)) \in Nat
    <2>1. l \in 1..Len(Files(m)) + 1 /\ l <= Len(Files(m)) /\ Len(Files(m)) \in Nat
      BY <1>0, FilesSorted DEF RunFits
    <2> HIDE DEF l
    <2> QED BY <1>0, <2>1, OneMore
  <1>2. v = Files(m)[l] /\ v \in DOMAIN Scripts[m] /\ v \in Nat
    BY <1>1, FilesSorted DEF Script
  <1>3. u \in DOMAIN Scripts[m] /\ u \in Nat
    BY <1>2, MigrateAssumption DEF OnlyAdded
  <1>4. PICK k \in 1..Len(Files(m)) : Files(m)[k] = u
    BY <1>3, FilesSorted
  <1>5. u < v
    OBVIOUS
  <1> HIDE DEF l, v
  <1>6. k \in Nat /\ (k < l \/ k = l \/ l < k)
    BY <1>0, <1>1
  <1>7. k # l /\ ~(l < k)
    <2>1. k # l
      BY <1>2, <1>3, <1>4, <1>5
    <2>2. l < k => v < u
      BY <1>1, <1>2, <1>4, FilesSorted
    <2>3. ~(u < v /\ v < u)
      BY <1>2, <1>3
    <2> QED BY <1>5, <2>1, <2>2, <2>3
  <1>8. Has(m, Database(m), u)
    BY <1>0, <1>4, <1>6, <1>7 DEF RunFits, l
  <1> QED BY <1>8 DEF Has

\* A script is executed and recorded.
LEMMA ApplyKeeps ==
  ASSUME MigrateInv, NEW m \in Migrators, ApplyScript(m)
  PROVE  MigrateInv'
  <1> DEFINE d == Database(m)
             v == Script(m)
             q == applied[d]
             r == [w \in DOMAIN recorded[d] \cup {v} |-> IF w = v THEN Checksum(m) ELSE recorded[d][w]]
  <1>0. /\ mig[m] \in MigState /\ RunFits(m) /\ d \in Dbs /\ mig[m].pc = "apply"
        /\ recorded = [e \in Dbs |-> recorded[e]] /\ applied \in [Dbs -> Seq(Nat)]
    BY RunAt DEF ApplyScript, MigAt, MigrateInv, MigrateShapes
  <1>1. /\ applied' = [applied EXCEPT ![d] = Append(q, v)] /\ recorded' = [recorded EXCEPT ![d] = r]
        /\ Step(m, "check", mig[m].at, mig[m].file + 1) /\ UNCHANGED <<advisory, listed>>
    BY DEF ApplyScript
  <1>2. /\ mig[m].file <= Len(Files(m)) /\ v \notin DOMAIN recorded[d]
    BY <1>0 DEF RunFits
  <1>3. v \in DOMAIN Scripts[m] /\ v \in Nat /\ Checksum(m) = Scripts[m][v]
    <2> DEFINE l == mig[m].file
    <2>0. v = Files(m)[l] /\ Checksum(m) = Scripts[m][v]
      BY DEF Script, Checksum
    <2>1. /\ l \in 1..Len(Files(m)) + 1 /\ l <= Len(Files(m))
          /\ Len(Files(m)) \in Nat /\ l \in Nat
      BY <1>0, <1>2, FilesSorted DEF RunFits, MigState
    <2> HIDE DEF l, v
    <2>2. l \in 1..Len(Files(m))
      BY <2>1, OneMore
    <2> QED BY <2>0, <2>2, FilesSorted
  <1>4. /\ DOMAIN r = DOMAIN recorded[d] \cup {v} /\ r[v] = Scripts[m][v]
        /\ \A w \in DOMAIN recorded[d] \ {v} : r[w] = recorded[d][w]
    BY <1>3
  <1>5. OnlyAdded => \A n \in Migrators : \A u \in DOMAIN Scripts[n] : u < v => u \in DOMAIN recorded[d]
    BY <1>0, ScriptIsNext
  <1>6. AppliedOK(d) /\ q \in Seq(Nat)
    BY <1>0 DEF MigrateInv
  <1> HIDE DEF d, v, r
  <1>7. /\ recorded' = [e \in Dbs |-> recorded'[e]] /\ recorded'[d] = r
        /\ \A e \in Dbs \ {d} : recorded'[e] = recorded[e]
    BY <1>0, <1>1
  <1> DEFINE s == Append(q, v)
  <1>8. /\ s \in Seq(Nat) /\ Len(q) \in Nat /\ DOMAIN q = 1..Len(q)
        /\ DOMAIN s = 1..Len(q) + 1 /\ s[Len(q) + 1] = v
        /\ \A i \in 1..Len(q) : s[i] = q[i] /\ q[i] \in Nat
        /\ \A i \in 1..Len(q) + 1 : i \in 1..Len(q) \/ i = Len(q) + 1
    BY <1>3, <1>6, Appended
  <1> HIDE DEF s
  <1>9. /\ applied' \in [Dbs -> Seq(Nat)] /\ applied'[d] = s
        /\ \A e \in Dbs \ {d} : applied'[e] = applied[e]
    BY <1>0, <1>1, <1>8 DEF s
  <1> DEFINE n == Len(q)
             R == DOMAIN recorded[d]
  <1>10. /\ \A i \in 1..n : q[i] \in R
         /\ \A i, j \in 1..n : i < j => q[i] # q[j] /\ (OnlyAdded => q[i] < q[j])
         /\ OnlyAdded => \A i \in 1..n, k \in Migrators : \A u \in DOMAIN Scripts[k] : u < q[i] => u \in R
    BY <1>6, <1>8 DEF AppliedOK
  <1>11. v \notin R /\ v \in Nat /\ v \in DOMAIN Scripts[m]
    BY <1>2, <1>3
  <1>12. \A i \in 1..n + 1 : s[i] \in R \cup {v}
    BY <1>8, <1>10
  <1>13. ASSUME NEW i \in 1..n + 1, NEW j \in 1..n + 1, i < j
         PROVE  s[i] # s[j] /\ (OnlyAdded => s[i] < s[j])
    <2> HIDE DEF R
    <2>1. n \in Nat
      BY <1>8
    <2>2. i \in 1..n
      <3> HIDE DEF n
      <3> QED BY <1>13, <2>1
    <2>3. CASE j \in 1..n
      BY <1>8, <1>10, <1>13, <2>2, <2>3
    <2>4. CASE j = n + 1
      <3>1. s[i] = q[i] /\ q[i] \in R /\ q[i] \in Nat /\ s[j] = v
        BY <1>8, <1>10, <2>2, <2>4
      <3>2. OnlyAdded => ~(v < q[i])
        BY <1>10, <1>11, <2>2
      <3>3. q[i] # v
        BY <1>11, <3>1
      <3>4. q[i] < v \/ v < q[i]
        BY <1>11, <3>1, <3>3
      <3> QED BY <3>1, <3>2, <3>3, <3>4
    <2> QED BY <1>8, <2>3, <2>4
  <1>14. ASSUME OnlyAdded, NEW i \in 1..n + 1, NEW k \in Migrators, NEW u \in DOMAIN Scripts[k], u < s[i]
         PROVE  u \in R
    <2>1. CASE i \in 1..n
      BY <1>8, <1>10, <1>14, <2>1
    <2>2. CASE i = n + 1
      BY <1>5, <1>8, <1>14, <2>2
    <2> QED BY <1>8, <2>1, <2>2
  <1>15. DOMAIN recorded'[d] = R \cup {v}
    BY <1>4, <1>7
  <1>16. ASSUME NEW e \in Dbs, e = d
         PROVE  AppliedOK(e)'
    <2>1. applied'[e] = s /\ DOMAIN recorded'[e] = R \cup {v} /\ DOMAIN s = 1..n + 1
      BY <1>8, <1>9, <1>15, <1>16
    <2> HIDE DEF R, n
    <2> QED BY <1>12, <1>13, <1>14, <2>1 DEF AppliedOK
  <1>17. ASSUME NEW e \in Dbs, e # d
         PROVE  AppliedOK(e)'
    <2>1. applied'[e] = applied[e] /\ recorded'[e] = recorded[e]
      BY <1>7, <1>9, <1>17
    <2> QED BY <2>1 DEF MigrateInv, AppliedOK
  <1>18. \A e \in Dbs : AppliedOK(e)'
    BY <1>16, <1>17
  <1>19. /\ DOMAIN recorded'[d] = DOMAIN recorded[d] \cup {v} /\ recorded'[d][v] = Scripts[m][v]
         /\ \A w \in DOMAIN recorded[d] \ {v} : recorded'[d][w] = recorded[d][w]
    BY <1>4, <1>7
  <1> QED BY <1>0, <1>1, <1>2, <1>7, <1>9, <1>18, <1>19, RecordsOne DEF d, v

\* A database is done.
LEMMA NextKeeps ==
  ASSUME MigrateInv, NEW m \in Migrators, NextDatabase(m)
  PROVE  MigrateInv'
  <1> DEFINE a == mig[m].at
             d == Database(m)
  <1>0. /\ mig[m] \in MigState /\ RunFits(m) /\ d \in Dbs /\ mig[m].pc = "check"
        /\ mig[m].file > Len(Files(m)) /\ UNCHANGED <<recorded, applied, listed>> /\ Unlock(m)
        /\ mig \in [Migrators -> MigState] /\ advisory \in [Dbs -> Migrators \cup {Nobody}]
    BY RunAt DEF NextDatabase, MigAt, MigrateInv, MigrateShapes
  <1>1. /\ advisory' \in [Dbs -> Migrators \cup {Nobody}]
        /\ \A e \in Dbs, n \in Migrators \ {m} : advisory[e] = n => advisory'[e] = n
    BY <1>0, Unlocked
  <1>2. a \in 1..Len(DSNs) /\ d = DSNs[a] /\ Len(DSNs) \in Nat /\ a \in Nat
    BY <1>0, DSNsType DEF RunFits, Database, MigState
  <1>3. HasAll(m, d)
    <2> SUFFICES ASSUME NEW v \in DOMAIN Scripts[m]  PROVE Has(m, d, v)
      BY DEF HasAll
    <2>1. PICK k \in 1..Len(Files(m)) : Files(m)[k] = v
      BY FilesSorted
    <2>2. k < mig[m].file
      <3> DEFINE l == mig[m].file
      <3>1. l \in Nat /\ l > Len(Files(m)) /\ Len(Files(m)) \in Nat
        BY <1>0, FilesSorted DEF MigState
      <3> HIDE DEF l
      <3>2. k < l
        BY <3>1
      <3> QED BY <3>2 DEF l
    <2> QED BY <1>0, <2>1, <2>2 DEF RunFits
  <1>4. \A k \in 1..Len(DSNs) : k < a \/ k = a => HasAll(m, DSNs[k])
    BY <1>0, <1>2, <1>3 DEF RunFits
  <1>5. \A e : HasAll(m, e) => HasAll(m, e)'
    BY <1>0 DEF HasAll, Has
  <1> HIDE DEF a, d
  <1>6. CASE a < Len(DSNs) /\ Step(m, "lock", a + 1, 1)
    <2> DEFINE x == [pc |-> "lock", at |-> a + 1, file |-> 1]
    <2>0. a + 1 \in Nat /\ a + 1 \in 1..Len(DSNs) /\ \A k \in 1..Len(DSNs) : k < a + 1 => k < a \/ k = a
      BY <1>2, <1>6
    <2>1. x \in MigState /\ x.pc = "lock" /\ x.at = a + 1
      BY <2>0 DEF MigState
    <2>2. mig' = [mig EXCEPT ![m] = x]
      BY <1>6 DEF Step
    <2> HIDE DEF x
    <2>3. /\ mig' \in [Migrators -> MigState] /\ mig'[m] = x
          /\ \A n \in Migrators \ {m} : mig'[n] = mig[n]
      BY <1>0, <2>1, <2>2, Stepped
    <2>4. RunFits(m)'
      BY <1>4, <1>5, <2>0, <2>1, <2>3 DEF RunFits
    <2> QED BY <1>0, <1>1, <2>3, <2>4, Reads
  <1>7. CASE ~(a < Len(DSNs)) /\ Step(m, "sync", 1, 0)
    <2> DEFINE x == [pc |-> "sync", at |-> 1, file |-> 0]
    <2>0. \A k \in 1..Len(DSNs) : k < a \/ k = a
      BY <1>2, <1>7
    <2>1. x \in MigState /\ x.pc = "sync" /\ x.at = 1
      BY DEF MigState
    <2>2. mig' = [mig EXCEPT ![m] = x]
      BY <1>7 DEF Step
    <2> HIDE DEF x
    <2>3. /\ mig' \in [Migrators -> MigState] /\ mig'[m] = x
          /\ \A n \in Migrators \ {m} : mig'[n] = mig[n]
      BY <1>0, <2>1, <2>2, Stepped
    <2>4. \A e \in Dbs : HasAll(m, e)'
      BY <1>4, <1>5, <2>0, DSNsType DEF Dbs, ToSet
    <2>5. 1 \in 1..Len(ShardDSNs) /\ \A k \in 1..Len(ShardDSNs) : ~(k < 1)
      <3>1. \A s \in Seq(STRING) \ {<<>>} : 1 \in 1..Len(s) /\ \A k \in 1..Len(s) : ~(k < 1)
        OBVIOUS
      <3> QED BY <3>1, MigrateAssumption
    <2>6. RunFits(m)'
      BY <2>1, <2>3, <2>4, <2>5 DEF RunFits
    <2> QED BY <1>0, <1>1, <2>3, <2>6, Reads
  <1> QED BY <1>6, <1>7 DEF NextDatabase, a

\* A shard is copied into the directory.
LEMMA SyncKeeps ==
  ASSUME MigrateInv, NEW m \in Migrators, SyncShard(m)
  PROVE  MigrateInv'
  <1> DEFINE a == mig[m].at
             L == Len(ShardDSNs)
  <1>0. /\ mig[m] \in MigState /\ RunFits(m) /\ mig[m].pc = "sync"
        /\ UNCHANGED <<recorded, applied, advisory>>
        /\ mig \in [Migrators -> MigState] /\ advisory \in [Dbs -> Migrators \cup {Nobody}]
        /\ listed' = listed \cup ShardRoles[ShardDSNs[a]]
    BY RunAt DEF SyncShard, MigAt, MigrateInv, MigrateShapes, Upserted
  <1>1. L \in Nat
    <2>1. \A s \in Seq(STRING) : Len(s) \in Nat
      OBVIOUS
    <2> QED BY <2>1, MigrateAssumption
  <1>2. a \in 1..L /\ a \in Nat
    BY <1>0 DEF RunFits, MigState
  <1>3. \A k \in 1..L : k < a \/ k = a => ShardRoles[ShardDSNs[k]] \subseteq listed'
    BY <1>0 DEF RunFits
  <1>4. \A e \in Dbs : HasAll(m, e)'
    BY <1>0 DEF RunFits, HasAll, Has
  <1> HIDE DEF a, L
  <1>5. CASE a < L /\ Step(m, "sync", a + 1, 0)
    <2> DEFINE x == [pc |-> "sync", at |-> a + 1, file |-> 0]
    <2>0. a + 1 \in Nat /\ a + 1 \in 1..L /\ \A k \in 1..L : k < a + 1 => k < a \/ k = a
      BY <1>1, <1>2, <1>5
    <2>1. x \in MigState /\ x.pc = "sync" /\ x.at = a + 1
      BY <2>0 DEF MigState
    <2>2. mig' = [mig EXCEPT ![m] = x]
      BY <1>5 DEF Step
    <2> HIDE DEF x
    <2>3. /\ mig' \in [Migrators -> MigState] /\ mig'[m] = x
          /\ \A n \in Migrators \ {m} : mig'[n] = mig[n]
      BY <1>0, <2>1, <2>2, Stepped
    <2>4. RunFits(m)'
      BY <1>3, <1>4, <2>0, <2>1, <2>3 DEF RunFits, L
    <2> QED BY <1>0, <2>3, <2>4, Reads
  <1>6. CASE ~(a < L) /\ Step(m, "done", 0, 0)
    <2> DEFINE x == [pc |-> "done", at |-> 0, file |-> 0]
    <2>0. \A k \in 1..L : k < a \/ k = a
      BY <1>1, <1>2, <1>6
    <2>1. x \in MigState /\ x.pc = "done"
      BY DEF MigState
    <2>2. mig' = [mig EXCEPT ![m] = x]
      BY <1>6 DEF Step
    <2> HIDE DEF x
    <2>3. /\ mig' \in [Migrators -> MigState] /\ mig'[m] = x
          /\ \A n \in Migrators \ {m} : mig'[n] = mig[n]
      BY <1>0, <2>1, <2>2, Stepped
    <2>4. RunFits(m)'
      BY <1>3, <1>4, <2>0, <2>1, <2>3 DEF RunFits, L
    <2> QED BY <1>0, <2>3, <2>4, Reads
  <1> QED BY <1>5, <1>6 DEF SyncShard, a, L

\* Every step of a run, its failures included.
LEMMA MigrateKeeps ==
  ASSUME MigrateInv, MigrateNext
  PROVE  MigrateInv'
  <1>1. ASSUME NEW m \in Migrators, MigratorEnds(m)
        PROVE  MigrateInv'
    <2>1. listed \subseteq listed'
      BY <1>1 DEF MigratorEnds, Upserted
    <2> QED BY <1>1, <2>1, RunEnds DEF MigratorEnds
  <1> QED BY <1>1, LockSteps, CheckKeeps, ApplyKeeps, NextKeeps, SyncKeeps DEF MigrateNext

\* Other services leave the records alone.
LEMMA MigrateElsewhere ==
  ASSUME MigrateInv, UNCHANGED migrateVars
  PROVE  MigrateInv'
  <1>1. UNCHANGED <<recorded, applied, advisory, listed, mig>>
    BY DEF migrateVars
  <1>2. MigrateShapes'
    BY <1>1 DEF MigrateInv, MigrateShapes
  <1>3. \A d \in Dbs : AppliedOK(d)'
    BY <1>1 DEF MigrateInv, AppliedOK
  <1>4. ASSUME NEW m \in Migrators
        PROVE  RunFits(m)'
    <2>1. /\ Database(m)' = Database(m) /\ Script(m)' = Script(m) /\ RunFits(m)
          /\ \A e : HasAll(m, e) => HasAll(m, e)'
          /\ \A e, v : Has(m, e, v) => Has(m, e, v)'
      BY <1>1 DEF MigrateInv, Database, Script, HasAll, Has
    <2> QED BY <1>1, <2>1 DEF RunFits
  <1> QED BY <1>2, <1>3, <1>4 DEF MigrateInv

\* The invariant of the migration tool.
THEOREM MigrateInvariant == Spec => []MigrateInv
  <1>1. Init => MigrateInv
    BY MigrateStart DEF Init
  <1>2. MigrateInv /\ [Next]_vars => MigrateInv'
    <2>1. ASSUME MigrateInv, MigrateTool  PROVE MigrateInv'
      BY <2>1, MigrateKeeps DEF MigrateTool
    <2>2. ASSUME MigrateInv, [Next]_vars, ~MigrateTool  PROVE UNCHANGED migrateVars
      BY <2>2 DEF Next, vars, dbVars, PayService, MailService, ActivityService, LoginService,
                  MatchService, WorldService, ReshardTool
    <2> QED BY <2>1, <2>2, MigrateElsewhere
  <1> QED BY <1>1, <1>2, PTL DEF Spec

\* However many releases there are and whatever their scripts, however their
\* runs overlap, fail and are repeated: every database executes a script at most
\* once, in order when newer releases only add versions above the older ones, and
\* a release copies the directory, of which it misses no role, only after every
\* database has all its scripts.
THEOREM MigrationsAreInOrder == Spec => []MigrationsInOrder
  BY MigrateInvariant, MigrateConcludes, PTL

\* At most one run at a time works on a database, whatever runs fail and restart.
THEOREM OneRunPerDatabase ==
    Spec => [](\A m, n \in Migrators :
                  /\ mig[m].pc \in {"check", "apply"} /\ mig[n].pc \in {"check", "apply"}
                  /\ Database(m) = Database(n)
                  => m = n)
  <1> DEFINE Alone ==
          \A m, n \in Migrators :
              /\ mig[m].pc \in {"check", "apply"} /\ mig[n].pc \in {"check", "apply"}
              /\ Database(m) = Database(n)
              => m = n
  <1>1. MigrateInv => Alone
    BY DEF MigrateInv, RunFits
  <1> QED BY <1>1, MigrateInvariant, PTL

\* What a step may do with the records and with what was executed: add to them.
RecordsKept ==
    \A d \in Dbs :
        /\ \A v \in DOMAIN recorded[d] :
              /\ v \in DOMAIN recorded'[d]
              /\ recorded[d][v] # "" => recorded'[d][v] = recorded[d][v]
        /\ \A i \in DOMAIN applied[d] : i \in DOMAIN applied'[d] /\ applied'[d][i] = applied[d][i]

\* The two steps that write records.
LEMMA RecordsWritten ==
  ASSUME MigrateInv, NEW m \in Migrators, CheckScript(m) \/ ApplyScript(m)
  PROVE  RecordsKept
  <1> DEFINE d == Database(m)
             v == Script(m)
             c == Checksum(m)
  <1>0. /\ d \in Dbs /\ RunFits(m) /\ mig[m] \in MigState
        /\ recorded = [e \in Dbs |-> recorded[e]] /\ applied \in [Dbs -> Seq(Nat)]
    BY RunAt DEF CheckScript, ApplyScript, MigAt, MigrateInv, MigrateShapes
  <1>1. CASE UNCHANGED <<recorded, applied>>
    BY <1>1 DEF RecordsKept
  <1>2. CASE /\ recorded[d][v] \in {"", c} /\ recorded' = [recorded EXCEPT ![d][v] = c]
             /\ UNCHANGED applied
    <2>1. recorded' = [recorded EXCEPT ![d] = [recorded[d] EXCEPT ![v] = c]]
      BY <1>2
    <2> HIDE DEF d, v, c
    <2>2. /\ recorded'[d] = [recorded[d] EXCEPT ![v] = c]
          /\ \A e \in Dbs \ {d} : recorded'[e] = recorded[e]
      BY <1>0, <2>1
    <2>3. \A w \in DOMAIN recorded[d] :
             /\ w \in DOMAIN recorded'[d]
             /\ recorded[d][w] # "" => recorded'[d][w] = recorded[d][w]
      BY <1>2, <2>2
    <2> QED BY <1>2, <2>2, <2>3 DEF RecordsKept
  <1>3. CASE ApplyScript(m)
    <2> DEFINE r == [w \in DOMAIN recorded[d] \cup {v} |-> IF w = v THEN c ELSE recorded[d][w]]
               q == applied[d]
    <2>1. /\ applied' = [applied EXCEPT ![d] = Append(q, v)] /\ recorded' = [recorded EXCEPT ![d] = r]
          /\ mig[m].pc = "apply"
      BY <1>3 DEF ApplyScript, MigAt
    <2>2. v \notin DOMAIN recorded[d] /\ v \in Nat
      <3> DEFINE l == mig[m].file
      <3>1. /\ v \notin DOMAIN recorded[d] /\ v = Files(m)[l]
            /\ l \in 1..Len(Files(m)) + 1 /\ l <= Len(Files(m)) /\ Len(Files(m)) \in Nat /\ l \in Nat
        BY <1>0, <2>1, FilesSorted DEF RunFits, MigState, Script
      <3> HIDE DEF l, v
      <3>2. l \in 1..Len(Files(m))
        BY <3>1, OneMore
      <3> QED BY <3>1, <3>2, FilesSorted
    <2>3. \A w \in DOMAIN recorded[d] : w \in DOMAIN r /\ r[w] = recorded[d][w]
      BY <2>2
    <2>4. q \in Seq(Nat)
      BY <1>0
    <2> HIDE DEF d, v, r
    <2>5. \A i \in DOMAIN q : i \in DOMAIN Append(q, v) /\ Append(q, v)[i] = q[i]
      <3>1. /\ DOMAIN q = 1..Len(q) /\ Len(q) \in Nat /\ DOMAIN Append(q, v) = 1..Len(q) + 1
            /\ \A i \in 1..Len(q) : Append(q, v)[i] = q[i]
        BY <2>2, <2>4, Appended
      <3>2. \A i \in 1..Len(q) : i \in 1..Len(q) + 1
        BY <3>1
      <3> QED BY <3>1, <3>2
    <2> DEFINE s == Append(q, v)
    <2>6. /\ recorded'[d] = r /\ \A e \in Dbs \ {d} : recorded'[e] = recorded[e]
      BY <1>0, <2>1
    <2>7. /\ applied'[d] = s /\ \A e \in Dbs \ {d} : applied'[e] = applied[e]
      <3> HIDE DEF s
      <3> QED BY <1>0, <2>1 DEF s
    <2> QED BY <2>3, <2>5, <2>6, <2>7 DEF RecordsKept
  <1> QED BY <1>1, <1>2, <1>3 DEF CheckScript

\* The tool never takes a record back, never changes a checksum that is there,
\* which is how it notices a script whose text has changed, and what was
\* executed stays executed, in the same place.
THEOREM RecordsAreKept == Spec => [][RecordsKept]_migrateVars
  <1>1. ASSUME MigrateInv, [Next]_vars
        PROVE  [RecordsKept]_migrateVars
    <2>1. CASE MigrateTool
      <3>1. PICK m \in Migrators :
               \/ RunMigrator(m) \/ Lock(m) \/ CheckScript(m) \/ ApplyScript(m)
               \/ NextDatabase(m) \/ SyncShard(m) \/ MigratorEnds(m)
        BY <2>1 DEF MigrateTool, MigrateNext
      <3>2. CASE CheckScript(m) \/ ApplyScript(m)
        BY <1>1, <3>2, RecordsWritten
      <3>3. CASE UNCHANGED <<recorded, applied>>
        BY <3>3 DEF RecordsKept
      <3> QED BY <3>1, <3>2, <3>3 DEF RunMigrator, Lock, NextDatabase, SyncShard, MigratorEnds
    <2>2. CASE ~MigrateTool
      BY <1>1, <2>2 DEF Next, vars, dbVars, PayService, MailService, ActivityService, LoginService,
                        MatchService, WorldService, ReshardTool
    <2> QED BY <2>1, <2>2
  <1> QED BY <1>1, MigrateInvariant, PTL DEF Spec

-----------------------------------------------------------------------------
(* The services together.                                                  *)

\* The variables of all services and of the tools keep their types, for every
\* value of the constants.
THEOREM ServiceTypes == Spec => []TypeOK
  <1>1. GrantInv => PayTypeOK /\ MailTypeOK /\ ActTypeOK
    <2> SUFFICES ASSUME GrantInv  PROVE PayTypeOK /\ MailTypeOK /\ ActTypeOK
      OBVIOUS
    <2>1. PayTypeOK /\ ActTypeOK /\ MailShapes /\ CallsFit
      BY DEF GrantInv, PayInv, MailInv, ActInv
    <2>2. \A q \in Seq(MRow) : \A i \in DOMAIN q : q[i] \in MRow
      OBVIOUS
    <2>3. \A i \in DOMAIN mails : mails[i] \in MRow
      BY <2>1, <2>2 DEF MailShapes
    <2>4. ASSUME NEW c \in MailCalls
          PROVE  /\ mcall[c].pc \in {"none", "grant", "mark", "done"}
                 /\ mcall[c].todo \cup mcall[c].ids \subseteq DOMAIN mails
      <3>1. mcall[c] \in MCall
        BY <2>1 DEF MailShapes
      <3> QED BY <2>1, <3>1 DEF MCall, CallsFit, Fits
    <2>5. MailTypeOK
      BY <2>1, <2>3, <2>4 DEF MailShapes, MailTypeOK, MRow
    <2> QED BY <2>1, <2>5
  <1>2. WorldInv => WorldTypeOK
    BY DEF WorldInv
  <1>3. GrantInv /\ LoginInv /\ MatchInv /\ WorldInv /\ ReshardInv /\ MigrateInv => TypeOK
    BY <1>1, <1>2, LoginConcludes, MatchConcludes, ReshardConcludes, MigrateConcludes DEF TypeOK
  <1> QED BY <1>3, GrantInvariant, LoginInvariant, MatchInvariant, WorldInvariant,
             ReshardInvariant, MigrateInvariant, PTL

=============================================================================
