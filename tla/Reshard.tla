------------------------------- MODULE Reshard ------------------------------
(***************************************************************************)
(* tools/reshard -execute with the modulus strategy: role rows move from   *)
(* the databases of the old layout to those of the new one while Game and  *)
(* Login still run on the old layout.  The model ends at the cut-over.     *)
(*                                                                         *)
(* One database may be in both layouts, so a row the tool has moved can be *)
(* met again when the tool comes to its new database, in the same run or   *)
(* in the next one.  Any statement may fail, before or after its effect,   *)
(* and ends the run; an operator may start another one.                    *)
(***************************************************************************)
EXTENDS Naturals, Sequences, FiniteSets

CONSTANTS
    RoleIds,
    OldDSNs, NewDSNs,   \* the databases of the two layouts, in order
    MaxRuns,            \* runs of the tool
    MaxRowVersion, MaxRowEpoch,
    NoRow

ASSUME ReshardAssumption ==
    /\ RoleIds \subseteq Nat
    /\ OldDSNs \in Seq(STRING) \ {<<>>} /\ NewDSNs \in Seq(STRING) \ {<<>>}
    /\ MaxRuns \in Nat /\ MaxRowVersion \in Nat \ {0} /\ MaxRowEpoch \in Nat
    /\ NoRow \notin [version : Nat, epoch : Nat]

VARIABLES
    rows,       \* per database and role: version and owner_epoch, or no row
    tool,       \* the run: step, old shard, rows to move, row in hand, -delete-source
    runs,
    newest,     \* per role: the last version that Game committed
    reborn      \* roles that a login created again after their row had moved

reshardVars == <<rows, tool, runs, newest, reborn>>

Databases == {OldDSNs[i] : i \in DOMAIN OldDSNs} \cup {NewDSNs[i] : i \in DOMAIN NewDSNs}

\* shard.ForRole: a non-negative id modulo the count, which is the layout's length.
ForRole(id, dsns) == id % Len(dsns)
DSN(id, dsns) == dsns[ForRole(id, dsns) + 1]
OldHome(id) == DSN(id, OldDSNs)
NewHome(id) == DSN(id, NewDSNs)

Blank == [version |-> 1, epoch |-> 1]
Off == [pc |-> "off"]

ReshardInit ==
    /\ rows = [d \in Databases |->
                  [id \in RoleIds |-> IF d = OldHome(id) THEN Blank ELSE NoRow]]
    /\ tool = Off
    /\ runs = 0
    /\ newest = [id \in RoleIds |-> 1]
    /\ reborn = {}

-----------------------------------------------------------------------------
(* Game and Login, on the old layout.                                      *)

\* A load takes ownership of the role.
LoadRole(id) ==
    LET row == rows[OldHome(id)][id] IN
    /\ row # NoRow /\ row.epoch < MaxRowEpoch
    /\ rows' = [rows EXCEPT ![OldHome(id)][id].epoch = @ + 1]
    /\ UNCHANGED <<tool, runs, newest, reborn>>

\* A save of the owner; without a row it is refused.
SaveRole(id) ==
    LET row == rows[OldHome(id)][id] IN
    /\ row # NoRow /\ row.version < MaxRowVersion
    /\ rows' = [rows EXCEPT ![OldHome(id)][id].version = @ + 1]
    /\ newest' = [newest EXCEPT ![id] = row.version + 1]
    /\ UNCHANGED <<tool, runs, reborn>>

\* Ensure after a login: a blank row where there is none.
EnsureRow(id) ==
    /\ rows[OldHome(id)][id] = NoRow
    /\ rows' = [rows EXCEPT ![OldHome(id)][id] = Blank]
    /\ reborn' = reborn \cup {id}
    /\ UNCHANGED <<tool, runs, newest>>

-----------------------------------------------------------------------------
(* The tool.                                                               *)

ToolAt(pc) == tool.pc = pc
ToolTo(pc) == tool' = [tool EXCEPT !.pc = pc]

StartRun(deleteSource) ==
    /\ ToolAt("off") /\ runs < MaxRuns
    /\ runs' = runs + 1
    /\ tool' = [pc |-> "scan", shard |-> 1, del |-> deleteSource, todo |-> {}, row |-> NoRow]
    /\ UNCHANGED <<rows, newest, reborn>>

\* Rows whose index changes.  An error that ends the scan early is not
\* looked at, so the rows may be some of them.
ScanShard ==
    LET here == rows[OldDSNs[tool.shard]]
        moving == {[id |-> id, version |-> here[id].version, epoch |-> here[id].epoch] :
                     id \in {r \in RoleIds : /\ here[r] # NoRow
                                             /\ ForRole(r, OldDSNs) # ForRole(r, NewDSNs)}} IN
    /\ ToolAt("scan")
    /\ \E todo \in SUBSET moving :
          tool' = [tool EXCEPT !.pc = "next", !.todo = todo]
    /\ UNCHANGED <<rows, runs, newest, reborn>>

\* The next row, in any order; a role whose database stays is skipped.
NextRow ==
    /\ ToolAt("next")
    /\ \/ \E r \in tool.todo :
             tool' = [tool EXCEPT !.todo = @ \ {r}, !.row = r,
                                  !.pc = IF OldHome(r.id) = NewHome(r.id) THEN "next" ELSE "copy"]
       \/ /\ tool.todo = {} /\ tool.shard < Len(OldDSNs)
          /\ tool' = [tool EXCEPT !.pc = "scan", !.shard = @ + 1]
       \/ /\ tool.todo = {} /\ tool.shard = Len(OldDSNs)
          /\ tool' = Off
    /\ UNCHANGED <<rows, runs, newest, reborn>>

Copied == [version |-> tool.row.version, epoch |-> tool.row.epoch + 1]

\* INSERT ... ON CONFLICT (id) DO UPDATE.
CopyRow ==
    /\ ToolAt("copy")
    /\ rows' = [rows EXCEPT ![NewHome(tool.row.id)][tool.row.id] = Copied]
    /\ ToolTo("verify")
    /\ UNCHANGED <<runs, newest, reborn>>

\* The snapshot is compared too; here it goes with the version.
VerifyRow ==
    /\ ToolAt("verify")
    /\ IF rows[NewHome(tool.row.id)][tool.row.id] # Copied THEN tool' = Off
       ELSE ToolTo(IF tool.del THEN "delete" ELSE "next")
    /\ UNCHANGED <<rows, runs, newest, reborn>>

\* Variant for mutation: the source row is deleted by its id alone.
DeleteSourceById ==
    /\ ToolAt("delete")
    /\ rows' = [rows EXCEPT ![OldDSNs[tool.shard]][tool.row.id] = NoRow]
    /\ ToolTo("next")
    /\ UNCHANGED <<runs, newest, reborn>>

\* DELETE of the row that was scanned, in the database it was scanned in; a
\* row that has changed since ends the run.
DeleteSource ==
    LET src == OldDSNs[tool.shard]
        scanned == [version |-> tool.row.version, epoch |-> tool.row.epoch] IN
    /\ ToolAt("delete")
    /\ IF rows[src][tool.row.id] = scanned
       THEN /\ rows' = [rows EXCEPT ![src][tool.row.id] = NoRow]
            /\ ToolTo("next")
       ELSE tool' = Off /\ UNCHANGED rows
    /\ UNCHANGED <<runs, newest, reborn>>

\* A statement fails or loses its answer, the 30 minutes are over, or the
\* process is killed.
ToolAborts ==
    /\ ~ToolAt("off")
    /\ tool' = Off
    /\ UNCHANGED <<rows, runs, newest, reborn>>

ReshardNext ==
    \/ \E id \in RoleIds : LoadRole(id) \/ SaveRole(id) \/ EnsureRow(id)
    \/ \E del \in BOOLEAN : StartRun(del)
    \/ ScanShard \/ NextRow \/ CopyRow \/ VerifyRow \/ DeleteSource \/ ToolAborts

-----------------------------------------------------------------------------
ReshardTypeOK ==
    /\ \A d \in Databases, id \in RoleIds :
          \/ rows[d][id] = NoRow
          \/ rows[d][id].version \in 1..MaxRowVersion /\ rows[d][id].epoch \in Nat \ {0}
    /\ tool.pc \in {"off", "scan", "next", "copy", "verify", "delete"}
    /\ runs \in 0..MaxRuns
    /\ newest \in [RoleIds -> 1..MaxRowVersion]
    /\ reborn \subseteq RoleIds

\* The last version that Game committed for a role is in some database: a run
\* that is cut off anywhere, saves between the copy and the delete, a second
\* run and a row that is met again in the database it was moved to lose none.
\* The exception is a role that a login re-created at its old database after
\* it had moved away: the next run copies the blank row over the real one.
NewestKept ==
    \A id \in RoleIds \ reborn :
        \E d \in Databases : rows[d][id] # NoRow /\ rows[d][id].version = newest[id]
=============================================================================
