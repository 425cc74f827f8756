---------------------------- MODULE DefaultRoles ----------------------------
(***************************************************************************)
(* The default roles of one branch: PUT /branches/:id/default-roles        *)
(* (handlePutBranchDefaultRoles of internal/api/rest/admin_routes.go) and  *)
(* the workflow7 callback wf-set-default-roles (wfcallback/                *)
(* branch_default_roles.go).  Each deletes the rows of the branch and      *)
(* inserts the roles asked for in one READ COMMITTED transaction.  The GET *)
(* is one SELECT and shows what is committed.                              *)
(*                                                                         *)
(* A row has an identity, so that a DELETE that waited for another         *)
(* transaction skips the rows that are gone and does not see the rows      *)
(* inserted meanwhile.                                                     *)
(***************************************************************************)
EXTENDS Naturals, FiniteSets

CONSTANTS
    Handlers,
    Roles,
    CreatedDefault, \* TRUE: the column created_at has a default
    Failures        \* TRUE: a statement may fail, as for a role that is gone

DefaultRolesAssumption == {CreatedDefault, Failures} \subseteq BOOLEAN

VARIABLES
    table,      \* role |-> identity of its committed row, 0 if none
    tx          \* the handlers

vars == <<table, tx>>

\* want: the roles asked for; seen: the rows the DELETE's snapshot has; del, ins
\* and upd: the roles whose rows the transaction deleted, inserted and updated.
\* late: the roles others committed since that snapshot (history).
NoTx == [pc |-> "idle", wf |-> FALSE, want |-> {}, todo |-> {}, seen |-> [r \in Roles |-> 0],
         del |-> {}, ins |-> {}, upd |-> {}, late |-> {}]

Init ==
    /\ \E s \in SUBSET Roles : table = [r \in Roles |-> IF r \in s THEN 1 ELSE 0]
    /\ tx = [p \in Handlers |-> NoTx]

Present(t) == {r \in Roles : t[r] # 0}
Held(p) == UNION {tx[q].del \cup tx[q].ins \cup tx[q].upd : q \in Handlers \ {p}}
Set(p, f) == tx' = [tx EXCEPT ![p] = f]

-----------------------------------------------------------------------------
\* Begin, and the snapshot of the DELETE.
Request(p, wf, want) ==
    /\ tx[p].pc = "idle"
    /\ Set(p, [NoTx EXCEPT !.pc = "delete", !.wf = wf, !.want = want, !.todo = want,
                           !.seen = table])
    /\ UNCHANGED table

\* Mutant: the rows of the branch are left as they are.
ClearNothing(p) ==
    /\ tx[p].pc = "delete"
    /\ Set(p, [tx[p] EXCEPT !.pc = "insert"])
    /\ UNCHANGED table
\* The DELETE waits for the transactions that hold a row it has seen.
ClearRoles(p) ==
    /\ tx[p].pc = "delete"
    /\ Present(tx[p].seen) \cap Held(p) = {}
    /\ Set(p, [tx[p] EXCEPT !.pc = "insert",
                            !.del = {r \in Present(tx[p].seen) : table[r] = tx[p].seen[r]}])
    /\ UNCHANGED table

\* The INSERT gives no created_at, which the current migration requires.  It
\* waits for whoever holds a row of the role.  A row that is still there is a
\* conflict: the callback updates it, the handler fails.
InsertRole(p) ==
    /\ tx[p].pc = "insert"
    /\ IF CreatedDefault
       THEN \E r \in tx[p].todo \ Held(p) :
               CASE table[r] = 0 \/ r \in tx[p].del ->
                      Set(p, [tx[p] EXCEPT !.todo = @ \ {r}, !.ins = @ \cup {r}])
                 [] table[r] # 0 /\ r \notin tx[p].del /\ tx[p].wf ->
                      Set(p, [tx[p] EXCEPT !.todo = @ \ {r}, !.upd = @ \cup {r}])
                 [] OTHER -> Set(p, NoTx)
       ELSE tx[p].todo # {} /\ Set(p, NoTx)
    /\ UNCHANGED table

\* An identity that no row has and no DELETE has seen.
NewRow ==
    CHOOSE n \in 1 .. Cardinality(Roles) * (Cardinality(Handlers) + 1) + 1 :
        \A r \in Roles : table[r] # n /\ \A p \in Handlers : tx[p].seen[r] # n
Committed(p) == [r \in Roles |-> IF r \in tx[p].ins THEN NewRow
                                 ELSE IF r \in tx[p].del THEN 0 ELSE table[r]]
Commit(p) ==
    /\ tx[p].pc = "insert" /\ tx[p].todo = {}
    /\ table' = Committed(p)
    /\ tx' = [q \in Handlers |->
                IF q = p THEN NoTx
                ELSE IF tx[q].pc = "idle" THEN tx[q]
                ELSE [tx[q] EXCEPT !.late = @ \cup tx[p].want]]

\* An error, or the database ends a transaction that waits in a circle.
Rollback(p) ==
    /\ tx[p].pc # "idle"
    /\ \/ Failures
       \/ /\ tx[p].pc = "insert" /\ tx[p].todo # {} /\ tx[p].todo \subseteq Held(p)
          /\ \E q \in Handlers \ {p} :
                /\ tx[q].pc = "insert" /\ tx[q].todo # {} /\ tx[q].todo \subseteq Held(q)
    /\ Set(p, NoTx)
    /\ UNCHANGED table

Next == \E p \in Handlers :
    \/ \E wf \in BOOLEAN, want \in SUBSET Roles : Request(p, wf, want)
    \/ ClearRoles(p) \/ InsertRole(p) \/ Commit(p) \/ Rollback(p)
Spec == Init /\ [][Next]_vars

-----------------------------------------------------------------------------
\* What a commit leaves is the set it was asked for, and beside it only roles
\* that a transaction committed while this one ran ("Replace-the-whole-set",
\* branch_default_roles.go); without overlap exactly that set.
ReplaceStep ==
    \A p \in Handlers : Commit(p) =>
        /\ tx[p].want \subseteq Present(table')
        /\ Present(table') \subseteq tx[p].want \cup tx[p].late
ReplacesSet == [][ReplaceStep]_vars
=============================================================================
