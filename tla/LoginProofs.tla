----------------------------- MODULE LoginProofs ----------------------------
(***************************************************************************)
(* Login for every number of names, zones and calls: the token that a call *)
(* ends with opens the role of the account whose password the call gave.   *)
(***************************************************************************)
EXTENDS MCServices, TLAPS

USE LoginAssumption

Account == [id : Nat, pw : Passwords]
LCall == [pc : {"lookup", "register", "reread", "role", "create", "again",
                "ensure", "gate", "token", "refused", "done"},
          name : Names, pw : Passwords, zone : Zones, account : Nat, role : Nat, lost : BOOLEAN]
Ended == {[pc |-> "none"], [pc |-> "failed"]}
DirRow == [id : Nat, account : Nat, zone : Zones, name : {ShortName[n] : n \in Names}]

LoginShapes ==
    /\ accounts \in [Names -> Account \cup {NoAccount}] /\ accountSeq \in Nat
    /\ directory \subseteq DirRow /\ roleRows \subseteq {d.id : d \in directory}
    /\ tokens \subseteq [call : LoginCalls, role : Nat, zone : Zones]
    /\ attempts \in [Keys -> Nat]
    /\ lcall \in [LoginCalls -> LCall \cup Ended]

\* What the steps a call has behind it have left in the tables: its account with
\* its password, its account's role in its zone, that role's row.
Backed(x) ==
    /\ x.pc \in {"role", "create", "again", "ensure", "gate", "token", "done"} =>
          /\ accounts[x.name] # NoAccount
          /\ accounts[x.name].id = x.account /\ accounts[x.name].pw = x.pw
    /\ x.pc \in {"ensure", "gate", "token", "done"} =>
          \E d \in directory : d.id = x.role /\ d.account = x.account /\ d.zone = x.zone
    /\ x.pc \in {"gate", "token", "done"} => x.role \in roleRows
CallsBacked == \A c \in LoginCalls : Backed(lcall[c])

\* A token is the last thing a call gets, and nothing of the call changes after.
TokensOfCalls ==
    \A t \in tokens :
        /\ t.call \in LoginCalls /\ lcall[t.call] \in LCall /\ lcall[t.call].pc = "done"
        /\ t.role = lcall[t.call].role /\ t.zone = lcall[t.call].zone

LoginInv == LoginShapes /\ CallsBacked /\ TokensOfCalls

\* The invariant gives the type invariant and the property.
LEMMA LoginConcludes == LoginInv => LoginTypeOK /\ TokenIsOwned
  <1> SUFFICES ASSUME LoginInv
               PROVE  LoginTypeOK /\ TokenIsOwned
    OBVIOUS
  <1>1. LoginTypeOK
    <2>1. \A c \in LoginCalls : lcall[c] \in LCall \/ lcall[c].pc \in {"none", "failed"}
      BY DEF LoginInv, LoginShapes, Ended
    <2>2. \A n \in Names : accounts[n] # NoAccount => accounts[n] \in Account
      BY DEF LoginInv, LoginShapes
    <2> QED BY <2>1, <2>2 DEF LoginInv, LoginShapes, LoginTypeOK, LCall, Account, DirRow
  <1>2. ASSUME NEW t \in tokens
        PROVE  LET call == lcall[t.call]  a == accounts[call.name] IN
               /\ a # NoAccount /\ a.pw = call.pw
               /\ \E d \in directory :
                     d.id = t.role /\ d.account = a.id /\ d.zone = call.zone /\ t.zone = call.zone
               /\ t.role \in roleRows
    <2>1. /\ t.call \in LoginCalls /\ lcall[t.call].pc = "done"
          /\ t.role = lcall[t.call].role /\ t.zone = lcall[t.call].zone
      BY DEF LoginInv, TokensOfCalls
    <2>2. Backed(lcall[t.call])
      BY <2>1 DEF LoginInv, CallsBacked
    <2> QED BY <2>1, <2>2 DEF Backed
  <1> QED BY <1>1, <1>2 DEF TokenIsOwned

\* Nobody has logged in at the start.
LEMMA LoginStart == LoginInit => LoginInv
  BY DEF LoginInit, LoginInv, LoginShapes, CallsBacked, Backed, TokensOfCalls, Ended

\* The tables only grow: an account, a directory row and a role row stay.
Grows ==
    /\ \A n \in Names : accounts[n] # NoAccount => accounts'[n] = accounts[n]
    /\ directory \subseteq directory' /\ roleRows \subseteq roleRows'

\* What a call has stays with it while the tables grow.
LEMMA BackedStays ==
  ASSUME Grows, NEW x \in LCall \cup Ended, Backed(x)
  PROVE  /\ x.pc \in {"role", "create", "again", "ensure", "gate", "token", "done"} =>
               /\ accounts'[x.name] # NoAccount
               /\ accounts'[x.name].id = x.account /\ accounts'[x.name].pw = x.pw
         /\ x.pc \in {"ensure", "gate", "token", "done"} =>
               \E d \in directory' : d.id = x.role /\ d.account = x.account /\ d.zone = x.zone
         /\ x.pc \in {"gate", "token", "done"} => x.role \in roleRows'
  <1>1. x \in Ended => x.pc \in {"none", "failed"}
    BY DEF Ended
  <1>2. x \in LCall => x.name \in Names
    BY DEF LCall
  <1> QED BY <1>1, <1>2 DEF Grows, Backed

\* A step that moves one call to where the tables have what it needs.
LEMMA CallStep ==
  ASSUME LoginInv, NEW c \in LoginCalls, NEW x \in LCall \cup Ended, Grows,
         lcall' = [lcall EXCEPT ![c] = x], lcall[c].pc # "done",
         accounts' \in [Names -> Account \cup {NoAccount}], accountSeq' \in Nat,
         directory' \subseteq DirRow, roleRows' \subseteq {d.id : d \in directory'},
         attempts' \in [Keys -> Nat],
         \/ tokens' = tokens
         \/ /\ x \in LCall /\ x.pc = "done"
            /\ tokens' = tokens \cup {[call |-> c, role |-> x.role, zone |-> x.zone]},
         x.pc \in {"role", "create", "again", "ensure", "gate", "token", "done"} =>
            /\ accounts'[x.name] # NoAccount
            /\ accounts'[x.name].id = x.account /\ accounts'[x.name].pw = x.pw,
         x.pc \in {"ensure", "gate", "token", "done"} =>
            \E d \in directory' : d.id = x.role /\ d.account = x.account /\ d.zone = x.zone,
         x.pc \in {"gate", "token", "done"} => x.role \in roleRows'
  PROVE  LoginInv'
  <1>1. lcall'[c] = x /\ \A d \in LoginCalls \ {c} : lcall'[d] = lcall[d]
    BY DEF LoginInv, LoginShapes
  <1>2. CallsBacked'
    <2> SUFFICES ASSUME NEW d \in LoginCalls  PROVE Backed(lcall[d])'
      BY DEF CallsBacked
    <2>1. CASE d = c
      BY <1>1, <2>1 DEF Backed
    <2>2. CASE d # c
      <3>1. lcall[d] \in LCall \cup Ended /\ Backed(lcall[d]) /\ lcall'[d] = lcall[d]
        BY <1>1, <2>2 DEF LoginInv, LoginShapes, CallsBacked
      <3> QED BY <3>1, BackedStays DEF Backed
    <2> QED BY <2>1, <2>2
  <1>3. \A t \in tokens : t.call # c
    BY DEF LoginInv, TokensOfCalls
  <1>4. TokensOfCalls'
    <2>1. ASSUME NEW t \in tokens
          PROVE  /\ t.call \in LoginCalls /\ lcall'[t.call] \in LCall /\ lcall'[t.call].pc = "done"
                 /\ t.role = lcall'[t.call].role /\ t.zone = lcall'[t.call].zone
      BY <1>1, <1>3 DEF LoginInv, TokensOfCalls
    <2>2. CASE tokens' = tokens
      BY <2>1, <2>2 DEF TokensOfCalls
    <2>3. CASE /\ x \in LCall /\ x.pc = "done"
               /\ tokens' = tokens \cup {[call |-> c, role |-> x.role, zone |-> x.zone]}
      <3> DEFINE new == [call |-> c, role |-> x.role, zone |-> x.zone]
      <3>1. new.call = c /\ new.role = x.role /\ new.zone = x.zone
        OBVIOUS
      <3>2. tokens' = tokens \cup {new}
        BY <2>3
      <3> HIDE DEF new
      <3> QED BY <1>1, <2>1, <2>3, <3>1, <3>2 DEF TokensOfCalls
    <2> QED BY <2>2, <2>3
  <1>5. tokens' \subseteq [call : LoginCalls, role : Nat, zone : Zones]
    BY DEF LoginInv, LoginShapes, LCall
  <1>6. LoginShapes'
    BY <1>5 DEF LoginInv, LoginShapes
  <1> QED BY <1>2, <1>4, <1>6 DEF LoginInv

\* A call that is under way has all its fields.
LEMMA UnderWay ==
  ASSUME LoginInv, NEW c \in LoginCalls, lcall[c].pc \notin {"none", "failed"}
  PROVE  lcall[c] \in LCall /\ Backed(lcall[c]) /\ lcall[c].name \in Names
  <1>1. lcall[c] \in LCall \cup Ended /\ Backed(lcall[c])
    BY DEF LoginInv, LoginShapes, CallsBacked
  <1>2. lcall[c] \notin Ended
    BY DEF Ended
  <1> QED BY <1>1, <1>2 DEF LCall

\* A step that only changes where one call is, and adds no token.
LEMMA CallOnly ==
  ASSUME LoginInv, NEW c \in LoginCalls, NEW x \in LCall \cup Ended, lcall[c].pc # "done",
         lcall' = [lcall EXCEPT ![c] = x], Backed(x),
         UNCHANGED <<accounts, accountSeq, directory, roleRows, tokens, attempts>>
  PROVE  LoginInv'
  <1>1. Grows
    BY DEF Grows
  <1> QED BY <1>1, CallStep, BackedStays DEF LoginInv, LoginShapes

\* A call may fail at any step, whatever it has written.
LEMMA CallFails ==
  ASSUME LoginInv, NEW c \in LoginCalls, lcall[c].pc # "done", Fail(c), Grows,
         accounts' \in [Names -> Account \cup {NoAccount}], accountSeq' \in Nat,
         directory' \subseteq DirRow, roleRows' \subseteq {d.id : d \in directory'},
         attempts' \in [Keys -> Nat], tokens' = tokens
  PROVE  LoginInv'
  <1> DEFINE x == [pc |-> "failed"]
  <1>1. x \in LCall \cup Ended /\ x.pc = "failed" /\ lcall' = [lcall EXCEPT ![c] = x]
    BY DEF Ended, Fail
  <1> HIDE DEF x
  <1> QED BY <1>1, CallStep

\* The steps that read or write accounts.
LEMMA AccountSteps ==
  ASSUME LoginInv, NEW c \in LoginCalls,
         \/ \E n \in Names, p \in Passwords, z \in Zones : Attempt(c, n, p, z)
         \/ LookupAccount(c) \/ InsertAccount(c) \/ RereadAccount(c)
  PROVE  LoginInv'
  <1>0. LoginShapes
    BY DEF LoginInv
  <1>1. ASSUME NEW n \in Names, NEW p \in Passwords, NEW z \in Zones, Attempt(c, n, p, z)
        PROVE  LoginInv'
    <2>1. /\ attempts' \in [Keys -> Nat] /\ lcall[c].pc = "none"
          /\ UNCHANGED <<accounts, accountSeq, directory, roleRows, tokens>>
      BY <1>0, <1>1 DEF Attempt, LoginShapes, Keys, At
    <2>2. CASE Fail(c)
      BY <1>0, <2>1, <2>2, CallFails DEF LoginShapes, Grows
    <2>3. CASE lcall' = [lcall EXCEPT ![c] =
                [pc |-> "lookup", name |-> n, pw |-> p, zone |-> z,
                 account |-> 0, role |-> 0, lost |-> FALSE]]
      <3> DEFINE x == [pc |-> "lookup", name |-> n, pw |-> p, zone |-> z,
                       account |-> 0, role |-> 0, lost |-> FALSE]
      <3>1. x \in LCall /\ x.pc = "lookup" /\ lcall' = [lcall EXCEPT ![c] = x]
        BY <2>3 DEF LCall
      <3> HIDE DEF x
      <3> QED BY <1>0, <2>1, <3>1, CallStep DEF LoginShapes, Grows
    <2> QED BY <1>1, <2>2, <2>3 DEF Attempt
  <1>2. CASE LookupAccount(c)
    <2> DEFINE x == lcall[c]
               a == accounts[x.name]
    <2>1. /\ x \in LCall /\ x.name \in Names /\ x.pc = "lookup"
          /\ UNCHANGED <<accounts, accountSeq, directory, roleRows, tokens, attempts>>
      BY <1>2, UnderWay DEF LookupAccount, At
    <2>2. a \in Account \cup {NoAccount}
      BY <1>0, <2>1 DEF LoginShapes
    <2>3. CASE a # NoAccount /\ a.pw = x.pw
      <3> DEFINE y == [x EXCEPT !.pc = "role", !.account = a.id]
      <3>1. a.id \in Nat
        BY <2>2, <2>3 DEF Account
      <3>2. lcall' = [lcall EXCEPT ![c] = y]
        BY <1>2, <2>3 DEF LookupAccount
      <3>3. y \in LCall /\ y.pc = "role" /\ y.name = x.name /\ y.pw = x.pw /\ y.account = a.id
        BY <2>1, <3>1 DEF LCall
      <3> HIDE DEF y
      <3>4. Backed(y)
        BY <2>3, <3>3 DEF Backed
      <3> QED BY <2>1, <3>2, <3>3, <3>4, CallOnly
    <2>4. CASE ~(a # NoAccount /\ a.pw = x.pw)
      <3>1. PICK pc \in {"register", "refused"} : lcall' = [lcall EXCEPT ![c] = [x EXCEPT !.pc = pc]]
        BY <1>2, <2>4 DEF LookupAccount
      <3> DEFINE y == [x EXCEPT !.pc = pc]
      <3>2. y \in LCall /\ y.pc \in {"register", "refused"}
        BY <2>1 DEF LCall
      <3> HIDE DEF y
      <3>3. Backed(y)
        BY <3>2 DEF Backed
      <3> QED BY <2>1, <3>1, <3>2, <3>3, CallOnly DEF y
    <2> QED BY <2>3, <2>4
  <1>3. CASE InsertAccount(c)
    <2> DEFINE x == lcall[c]
               n == x.name
               new == [id |-> accountSeq, pw |-> x.pw]
    <2>1. /\ x \in LCall /\ n \in Names /\ x.pc = "register" /\ x.pw \in Passwords
          /\ accountSeq \in Nat /\ accountSeq' \in Nat
          /\ UNCHANGED <<directory, roleRows, tokens, attempts>>
      BY <1>0, <1>3, UnderWay DEF InsertAccount, At, LoginShapes, LCall
    <2>2. new \in Account /\ new # NoAccount /\ new.id = accountSeq /\ new.pw = x.pw
      BY <2>1 DEF Account
    <2>3. CASE /\ accounts[n] = NoAccount
               /\ accounts' = [accounts EXCEPT ![n] = new]
      <3> HIDE DEF new
      <3>1. /\ accounts' \in [Names -> Account \cup {NoAccount}] /\ accounts'[n] = new /\ Grows
        BY <1>0, <2>1, <2>2, <2>3 DEF LoginShapes, Grows
      <3>2. CASE Fail(c)
        BY <1>0, <2>1, <3>1, <3>2, CallFails DEF LoginShapes
      <3>3. CASE lcall' = [lcall EXCEPT ![c] = [x EXCEPT !.pc = "role", !.account = accountSeq]]
        <4> DEFINE y == [x EXCEPT !.pc = "role", !.account = accountSeq]
        <4>1. y \in LCall /\ y.pc = "role" /\ y.name = n /\ y.pw = x.pw /\ y.account = accountSeq
          BY <2>1 DEF LCall
        <4> HIDE DEF y
        <4> QED BY <1>0, <2>1, <2>2, <3>1, <3>3, <4>1, CallStep DEF LoginShapes, y
      <3> QED BY <1>3, <2>2, <2>3, <3>2, <3>3 DEF InsertAccount
    <2>4. CASE UNCHANGED accounts
      <3> DEFINE y == [x EXCEPT !.pc = "reread", !.lost = TRUE]
      <3>1. lcall' = [lcall EXCEPT ![c] = y]
        <4>1. accounts[n] # NoAccount
          BY <1>0, <1>3, <2>1, <2>2, <2>4 DEF InsertAccount, LoginShapes
        <4> QED BY <1>3, <4>1 DEF InsertAccount
      <3>2. y \in LCall /\ y.pc = "reread"
        BY <2>1 DEF LCall
      <3> HIDE DEF y
      <3> QED BY <1>0, <2>1, <2>4, <3>1, <3>2, CallStep DEF LoginShapes, Grows
    <2> QED BY <1>3, <2>3, <2>4 DEF InsertAccount
  <1>4. CASE RereadAccount(c)
    <2> DEFINE y == [lcall[c] EXCEPT !.pc = "refused"]
    <2>1. /\ lcall[c] \in LCall /\ lcall[c].pc = "reread" /\ lcall' = [lcall EXCEPT ![c] = y]
          /\ UNCHANGED <<accounts, accountSeq, directory, roleRows, tokens, attempts>>
      BY <1>4, UnderWay DEF RereadAccount, At, To
    <2>2. y \in LCall /\ y.pc = "refused"
      BY <2>1 DEF LCall
    <2> HIDE DEF y
    <2>3. Backed(y)
      BY <2>2 DEF Backed
    <2> QED BY <2>1, <2>2, <2>3, CallOnly
  <1> QED BY <1>1, <1>2, <1>3, <1>4

\* A call goes on with a role of its account in its zone.
LEMMA RoleTaken ==
  ASSUME LoginInv, NEW c \in LoginCalls, lcall[c].pc \in {"role", "create", "again"},
         NEW d \in DirRow, UseRole(c, d), directory' = directory \cup {d},
         d.account = lcall[c].account, d.zone = lcall[c].zone,
         UNCHANGED <<accounts, accountSeq, roleRows, tokens, attempts>>
  PROVE  LoginInv'
  <1> DEFINE x == lcall[c]
             y == [x EXCEPT !.pc = "ensure", !.role = d.id]
  <1>1. x \in LCall /\ Backed(x) /\ LoginShapes /\ d.id \in Nat
    BY UnderWay DEF LoginInv, DirRow
  <1>2. lcall' = [lcall EXCEPT ![c] = y]
    BY DEF UseRole
  <1>3. /\ y \in LCall /\ y.pc = "ensure" /\ y.name = x.name /\ y.pw = x.pw
        /\ y.account = x.account /\ y.zone = x.zone /\ y.role = d.id
    BY <1>1 DEF LCall
  <1> HIDE DEF y
  <1>4. directory' \subseteq DirRow /\ roleRows' \subseteq {e.id : e \in directory'} /\ Grows
    BY <1>1 DEF LoginShapes, Grows
  <1>5. accounts'[y.name] # NoAccount /\ accounts'[y.name].id = y.account
        /\ accounts'[y.name].pw = y.pw
    BY <1>1, <1>3 DEF Backed
  <1>6. \E e \in directory' : e.id = y.role /\ e.account = y.account /\ e.zone = y.zone
    BY <1>3
  <1> QED BY <1>1, <1>2, <1>3, <1>4, <1>5, <1>6, CallStep DEF LoginShapes

\* The steps that read or write the directory.
LEMMA RoleSteps ==
  ASSUME LoginInv, NEW c \in LoginCalls, LookupRole(c) \/ InsertRole(c) \/ RereadRole(c)
  PROVE  LoginInv'
  <1> DEFINE x == lcall[c]
  <1>1. /\ x \in LCall /\ Backed(x) /\ LoginShapes /\ x.pc \in {"role", "create", "again"}
        /\ x.name \in Names /\ UNCHANGED <<accounts, accountSeq, roleRows, tokens, attempts>>
    BY UnderWay DEF LoginInv, LookupRole, InsertRole, RereadRole, At
  <1>2. CASE \E d \in RolesOf(c) : UseRole(c, d) /\ UNCHANGED directory
    <2>1. PICK d \in directory : UseRole(c, d) /\ UNCHANGED directory /\ d.account = x.account
                                 /\ d.zone = x.zone
      BY <1>2 DEF RolesOf
    <2>2. d \in DirRow /\ directory' = directory \cup {d}
      BY <1>1, <2>1 DEF LoginShapes
    <2> QED BY <1>1, <2>1, <2>2, RoleTaken
  <1>3. CASE UNCHANGED directory /\ \E pc \in {"create", "again", "refused"} : To(c, pc)
    <2>1. PICK pc \in {"create", "again", "refused"} : To(c, pc)
      BY <1>3
    <2> DEFINE y == [x EXCEPT !.pc = pc]
    <2>2. lcall' = [lcall EXCEPT ![c] = y]
      BY <2>1 DEF To
    <2>3. /\ y \in LCall /\ y.pc = pc /\ y.name = x.name /\ y.pw = x.pw /\ y.account = x.account
      BY <1>1 DEF LCall
    <2> HIDE DEF y
    <2>4. Backed(y)
      BY <1>1, <2>3 DEF Backed
    <2> QED BY <1>1, <1>3, <2>2, <2>3, <2>4, CallOnly
  <1>4. CASE /\ InsertRole(c) /\ ~(UNCHANGED directory /\ To(c, "again"))
    <2> DEFINE row == [id |-> x.account * Stride + x.zone, account |-> x.account,
                       zone |-> x.zone, name |-> ShortName[x.name]]
    <2>1. directory' = directory \cup {row} /\ (UseRole(c, row) \/ Fail(c))
      BY <1>4 DEF InsertRole
    <2>2. x.account \in Nat /\ x.zone \in Zones
      BY <1>1 DEF LCall
    <2>3. row \in DirRow /\ row.account = x.account /\ row.zone = x.zone
      <3>1. \A i, j, k \in Nat : i * j + k \in Nat
        OBVIOUS
      <3>2. row.id \in Nat
        BY <2>2, <3>1
      <3> QED BY <1>1, <2>2, <3>2 DEF DirRow
    <2> HIDE DEF row
    <2>4. CASE UseRole(c, row)
      BY <1>1, <2>1, <2>3, <2>4, RoleTaken
    <2>5. CASE Fail(c)
      <3>1. directory' \subseteq DirRow /\ roleRows' \subseteq {e.id : e \in directory'} /\ Grows
        BY <1>1, <2>1, <2>3 DEF LoginShapes, Grows
      <3> QED BY <1>1, <2>5, <3>1, CallFails DEF LoginShapes
    <2> QED BY <2>1, <2>4, <2>5
  <1> QED BY <1>2, <1>3, <1>4 DEF LookupRole, InsertRole, RereadRole

\* The row on the shard, the gate and the token.
LEMMA LastSteps ==
  ASSUME LoginInv, NEW c \in LoginCalls,
         Ensure(c) \/ FindGate(c) \/ IssueToken(c) \/ LoginFails(c)
  PROVE  LoginInv'
  <1> DEFINE x == lcall[c]
  <1>0. LoginShapes
    BY DEF LoginInv
  <1>1. CASE Ensure(c)
    <2>1. /\ x \in LCall /\ Backed(x) /\ x.pc = "ensure" /\ roleRows' = roleRows \cup {x.role}
          /\ UNCHANGED <<accounts, accountSeq, directory, tokens, attempts>>
      BY <1>1, UnderWay DEF Ensure, At
    <2>2. roleRows' \subseteq {d.id : d \in directory'} /\ Grows
      BY <1>0, <2>1 DEF LoginShapes, Backed, Grows
    <2>3. CASE Fail(c)
      BY <1>0, <2>1, <2>2, <2>3, CallFails DEF LoginShapes
    <2>4. CASE To(c, "gate")
      <3> DEFINE y == [x EXCEPT !.pc = "gate"]
      <3>1. lcall' = [lcall EXCEPT ![c] = y]
        BY <2>4 DEF To
      <3>2. /\ y \in LCall /\ y.pc = "gate" /\ y.name = x.name /\ y.pw = x.pw
            /\ y.account = x.account /\ y.zone = x.zone /\ y.role = x.role
        BY <2>1 DEF LCall
      <3> HIDE DEF y
      <3>3. /\ accounts'[y.name] # NoAccount /\ accounts'[y.name].id = y.account
            /\ accounts'[y.name].pw = y.pw
            /\ \E d \in directory' : d.id = y.role /\ d.account = y.account /\ d.zone = y.zone
            /\ y.role \in roleRows'
        BY <2>1, <3>2 DEF Backed
      <3> QED BY <1>0, <2>1, <2>2, <3>1, <3>2, <3>3, CallStep DEF LoginShapes
    <2> QED BY <1>1, <2>3, <2>4 DEF Ensure
  <1>2. CASE /\ FindGate(c) \/ IssueToken(c)
             /\ ~Fail(c)
    <2>1. PICK pc \in {"token", "done"} :
             /\ To(c, pc)
             /\ \/ UNCHANGED tokens
                \/ pc = "done" /\ tokens' = tokens \cup {[call |-> c, role |-> x.role, zone |-> x.zone]}
      BY <1>2 DEF FindGate, IssueToken
    <2>2. /\ x \in LCall /\ Backed(x) /\ x.pc \in {"gate", "token"}
          /\ UNCHANGED <<accounts, accountSeq, directory, roleRows, attempts>>
      BY <1>2, UnderWay DEF FindGate, IssueToken, At
    <2> DEFINE y == [x EXCEPT !.pc = pc]
    <2>3. lcall' = [lcall EXCEPT ![c] = y]
      BY <2>1 DEF To
    <2>4. /\ y \in LCall /\ y.pc = pc /\ y.name = x.name /\ y.pw = x.pw
          /\ y.account = x.account /\ y.zone = x.zone /\ y.role = x.role
      BY <2>2 DEF LCall
    <2> HIDE DEF y
    <2>5. /\ accounts'[y.name] # NoAccount /\ accounts'[y.name].id = y.account
          /\ accounts'[y.name].pw = y.pw
          /\ \E d \in directory' : d.id = y.role /\ d.account = y.account /\ d.zone = y.zone
          /\ y.role \in roleRows'
      BY <2>2, <2>4 DEF Backed
    <2>6. Grows
      BY <2>2 DEF Grows
    <2> HIDE DEF x
    <2> QED BY <1>0, <2>1, <2>2, <2>3, <2>4, <2>5, <2>6, CallStep DEF LoginShapes, x
  <1>3. CASE (FindGate(c) \/ LoginFails(c)) /\ Fail(c)
    <2>1. /\ x.pc # "done"
          /\ UNCHANGED <<accounts, accountSeq, directory, roleRows, tokens, attempts>>
      BY <1>3 DEF FindGate, LoginFails, At
    <2> QED BY <1>0, <1>3, <2>1, CallFails DEF LoginShapes, Grows
  <1>4. CASE IssueToken(c) /\ Fail(c)
    BY <1>0, <1>4 DEF IssueToken, Fail, To, LoginShapes
  <1> QED BY <1>1, <1>2, <1>3, <1>4 DEF LoginFails

\* Every step of Login.
LEMMA LoginKeeps ==
  ASSUME LoginInv, LoginNext
  PROVE  LoginInv'
  <1>1. ASSUME NEW k \in Keys, WindowEnds(k)
        PROVE  LoginInv'
    BY <1>1 DEF WindowEnds, LoginInv, LoginShapes, CallsBacked, Backed, TokensOfCalls
  <1> QED BY <1>1, AccountSteps, RoleSteps, LastSteps DEF LoginNext

\* Other services leave Login's tables alone.
LEMMA LoginElsewhere ==
  ASSUME LoginInv, UNCHANGED loginVars
  PROVE  LoginInv'
  BY DEF loginVars, LoginInv, LoginShapes, CallsBacked, Backed, TokensOfCalls

\* The invariant of the logins.
THEOREM LoginInvariant == Spec => []LoginInv
  <1>1. Init => LoginInv
    BY LoginStart DEF Init
  <1>2. LoginInv /\ [Next]_vars => LoginInv'
    <2>1. ASSUME LoginInv, LoginService  PROVE LoginInv'
      BY <2>1, LoginKeeps DEF LoginService
    <2>2. ASSUME LoginInv, [Next]_vars, ~LoginService  PROVE UNCHANGED loginVars
      BY <2>2 DEF Next, vars, PayService, MailService, ActivityService, MatchService,
                  WorldService, ReshardTool, MigrateTool
    <2> QED BY <2>1, <2>2, LoginElsewhere
  <1> QED BY <1>1, <1>2, PTL DEF Spec

\* Every token that Login issues opens the role that the caller's own account
\* has in the zone it asked for, and only for that account's password, whatever
\* names and zones there are and however calls interleave or fail.
THEOREM TokensAreOwned == Spec => []TokenIsOwned
  BY LoginInvariant, LoginConcludes, PTL

=============================================================================
