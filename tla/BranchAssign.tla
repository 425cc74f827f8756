---------------------------- MODULE BranchAssign ----------------------------
(***************************************************************************)
(* The branches of a user: handleWfSetBranches of                          *)
(* internal/api/rest/wfcallback/user.go, which replaces them in one        *)
(* Postgres transaction, and the reads by which login, the user context    *)
(* and switch-branch choose a branch.                                      *)
(*                                                                         *)
(* One user, the rows of different users being independent.  Transactions  *)
(* are READ COMMITTED: a statement sees what was committed when it began,  *)
(* and a row another transaction has written makes it wait.                *)
(***************************************************************************)
EXTENDS Naturals, FiniteSets

CONSTANTS
    Handlers,       \* set-branches callbacks running at once
    None,           \* no branch
    Branches,       \* the branches of the organisation
    Home,           \* a branch of the user that every callback keeps, or None
    Failures,       \* TRUE: a statement may fail, a callback may be cut off
    Reads           \* TRUE: sessions read, and the projection changes, branches

BranchAssignAssumption ==
    /\ {Failures, Reads} \subseteq BOOLEAN
    /\ None \notin Branches
    /\ Home \in Branches \cup {None}

VARIABLES
    row,        \* committed rows of user_branch_assignments, by branch
    open,       \* branches.is_active, kept by the branch projection
    last,       \* what the last committed callback asked for (history)
    tx,         \* the callbacks
    got         \* the branch a session was given last (history)

vars == <<row, open, last, tx, got>>

\* live is revoked_at IS NULL.
Row == [there : BOOLEAN, live : BOOLEAN, primary : BOOLEAN]
NoRow == [there |-> FALSE, live |-> FALSE, primary |-> FALSE]
Ask == [want : SUBSET Branches, main : Branches \cup {None}]
NoAsk == [want |-> {}, main |-> None]
\* main: the session was given a primary branch.
NoAnswer == [branch |-> None, live |-> FALSE, main |-> FALSE]
\* hit are the rows the waiting UPDATE matched, todo the rows of the loop at
\* hand, locks the rows written, with their new values in rows.
TxRec == [pc : {"idle", "clear", "locked", "load", "revoke", "upsert", "primary",
                "commit"},
          ask : Ask, hit : SUBSET Branches, todo : SUBSET Branches,
          locks : SUBSET Branches, rows : [Branches -> Row]]
Idle == [pc |-> "idle", ask |-> NoAsk, hit |-> {}, todo |-> {}, locks |-> {},
         rows |-> [b \in Branches |-> NoRow]]

\* handleWfCreate gave the user its primary branch, or it has none yet.
Created(b) == [c \in Branches |->
    IF c = b THEN [there |-> TRUE, live |-> TRUE, primary |-> TRUE] ELSE NoRow]

Init ==
    /\ \E b \in Branches \cup {None} :
          /\ Home \in {b, None}
          /\ row = Created(b)
          /\ last = IF b = None THEN NoAsk ELSE [want |-> {b}, main |-> b]
    /\ open = [b \in Branches |-> TRUE]
    /\ tx = [p \in Handlers |-> Idle]
    /\ got = NoAnswer

\* A row as transaction p sees it.
View(p, b) == IF b \in tx[p].locks THEN tx[p].rows[b] ELSE row[b]
LockedByOther(p, b) == \E q \in Handlers \ {p} : b \in tx[q].locks
LiveRows == {b \in Branches : row[b].live}

\* Transaction p writes f(b) to the rows bs and goes to pc with todo.
Write(p, bs, f, pc, todo) ==
    tx' = [tx EXCEPT ![p] = [@ EXCEPT !.pc = pc, !.todo = todo,
        !.locks = @ \cup bs,
        !.rows = [b \in Branches |-> IF b \in bs THEN f[b] ELSE @[b]]]]

-----------------------------------------------------------------------------
(* handleWfSetBranches, statement by statement.                            *)

\* desired always contains the primary.
Begin(p, main, others) ==
    /\ tx[p].pc = "idle"
    /\ Home \in others \cup {main, None}
    /\ tx' = [tx EXCEPT ![p] = [Idle EXCEPT !.pc = "clear",
                  !.ask = [want |-> others \cup {main}, main |-> main]]]
    /\ UNCHANGED <<row, open, last, got>>

\* 1) UPDATE ... SET is_primary = false WHERE revoked_at IS NULL: the rows it
\* finds when it begins ...
ClearScan(p) ==
    /\ tx[p].pc = "clear"
    /\ tx' = [tx EXCEPT ![p].pc = "locked", ![p].hit = LiveRows]
    /\ UNCHANGED <<row, open, last, got>>

\* Mutant: the primary flag is not cleared.
ClearNothing(p) ==
    /\ tx[p].pc = "locked"
    /\ tx' = [tx EXCEPT ![p].pc = "load"]
    /\ UNCHANGED <<row, open, last, got>>

\* ... are locked once no other transaction holds one, and checked again.
ClearPrimary(p) ==
    /\ tx[p].pc = "locked"
    /\ \A b \in tx[p].hit : ~LockedByOther(p, b)
    /\ Write(p, tx[p].hit \cap LiveRows,
             [b \in Branches |-> [row[b] EXCEPT !.primary = FALSE]], "load", {})
    /\ UNCHANGED <<row, open, last, got>>

\* 2) SELECT the active branches.
Load(p) ==
    /\ tx[p].pc = "load"
    /\ tx' = [tx EXCEPT ![p].pc = "revoke",
           ![p].todo = {b \in Branches : View(p, b).live} \ tx[p].ask.want]
    /\ UNCHANGED <<row, open, last, got>>

\* Mutant: nothing is revoked.
RevokeNone(p) ==
    /\ tx[p].pc = "revoke"
    /\ tx' = [tx EXCEPT ![p].pc = "upsert", ![p].todo = tx[p].ask.want]
    /\ UNCHANGED <<row, open, last, got>>

\* One UPDATE for each branch that is not wanted, then the next loop.
Revoke(p) ==
    /\ tx[p].pc = "revoke"
    /\ \/ \E b \in tx[p].todo :
             /\ ~LockedByOther(p, b)
             /\ Write(p, {b}, [c \in Branches |-> [View(p, c) EXCEPT !.live = FALSE]],
                      "revoke", tx[p].todo \ {b})
       \/ /\ tx[p].todo = {}
          /\ tx' = [tx EXCEPT ![p].pc = "upsert", ![p].todo = tx[p].ask.want]
    /\ UNCHANGED <<row, open, last, got>>

\* 3) INSERT ... ON CONFLICT DO UPDATE for each wanted branch.  Another
\* transaction that has inserted or updated the row is waited for.
Upsert(p) ==
    /\ tx[p].pc = "upsert"
    /\ \/ \E b \in tx[p].todo :
             /\ ~LockedByOther(p, b)
             /\ Write(p, {b}, [c \in Branches |->
                         [there |-> TRUE, live |-> TRUE, primary |-> FALSE]],
                      "upsert", tx[p].todo \ {b})
       \/ /\ tx[p].todo = {}
          /\ tx' = [tx EXCEPT ![p].pc = "primary"]
    /\ UNCHANGED <<row, open, last, got>>

\* 4) The primary, a row this transaction has just written.
SetPrimary(p) ==
    /\ tx[p].pc = "primary"
    /\ Write(p, {tx[p].ask.main},
             [b \in Branches |-> [View(p, b) EXCEPT !.primary = View(p, b).live]],
             "commit", {})
    /\ UNCHANGED <<row, open, last, got>>

\* Mutant: the connection goes back to the pool with the transaction open.
CommitLeaks(p) ==
    /\ tx[p].pc = "commit"
    /\ row' = [b \in Branches |-> View(p, b)]
    /\ last' = tx[p].ask
    /\ tx' = [tx EXCEPT ![p].pc = "idle"]
    /\ UNCHANGED <<open, got>>

Commit(p) ==
    /\ tx[p].pc = "commit"
    /\ row' = [b \in Branches |-> View(p, b)]
    /\ last' = tx[p].ask
    /\ tx' = [tx EXCEPT ![p] = Idle]
    /\ UNCHANGED <<open, got>>

\* A statement fails or the callback is cut off: the deferred Rollback.
Rollback(p) ==
    /\ Failures
    /\ tx[p].pc # "idle"
    /\ tx' = [tx EXCEPT ![p] = Idle]
    /\ UNCHANGED <<row, open, last, got>>

\* External: p waits for a row of q and q for one of p, whose loops take the
\* branches in any order; Postgres aborts one of them.
WaitsFor(p, q) ==
    \/ tx[p].pc = "locked" /\ tx[p].hit \cap tx[q].locks # {}
    \/ tx[p].pc \in {"revoke", "upsert"} /\ tx[p].todo # {}
       /\ tx[p].todo \subseteq tx[q].locks
DeadlockAbort(p) ==
    /\ \E q \in Handlers \ {p} : WaitsFor(p, q) /\ WaitsFor(q, p)
    /\ tx' = [tx EXCEPT ![p] = Idle]
    /\ UNCHANGED <<row, open, last, got>>

-----------------------------------------------------------------------------
(* The reads.  None of them looks at revoked_at; all want an active branch. *)

\* External to this module: the branch projection changes is_active.
SetOpen(b, on) ==
    /\ Reads
    /\ open[b] # on
    /\ open' = [open EXCEPT ![b] = on]
    /\ UNCHANGED <<row, last, tx, got>>

Usable(b) == Reads /\ row[b].there /\ open[b]
Answer(b) == got' = [branch |-> b, live |-> row[b].live, main |-> row[b].primary]

\* Login and the internal user context: GetPrimaryByUserID (LIMIT 1), or
\* else GetAnyActiveByUserID.
Login(b) ==
    /\ Usable(b)
    /\ row[b].primary \/ \A c \in Branches : ~(Usable(c) /\ row[c].primary)
    /\ Answer(b)
    /\ UNCHANGED <<row, open, last, tx>>

\* handleSwitchBranch: GetByUserAndBranch.
SwitchBranch(b) ==
    /\ Usable(b)
    /\ Answer(b)
    /\ UNCHANGED <<row, open, last, tx>>

-----------------------------------------------------------------------------

TxStep(p) ==
    \/ ClearScan(p)
    \/ ClearPrimary(p)
    \/ Load(p)
    \/ Revoke(p)
    \/ Upsert(p)
    \/ SetPrimary(p)
    \/ Commit(p)
    \/ Rollback(p)
    \/ DeadlockAbort(p)

Next ==
    \/ \E p \in Handlers :
          \/ \E main \in Branches, others \in SUBSET Branches : Begin(p, main, others)
          \/ TxStep(p)
    \/ \E b \in Branches :
          \/ \E on \in BOOLEAN : SetOpen(b, on)
          \/ Login(b)
          \/ SwitchBranch(b)

Spec == Init /\ [][Next]_vars

-----------------------------------------------------------------------------
(* Properties.                                                             *)

\* The active rows are those the last committed callback asked for, with its
\* primary and no other, whatever is in flight or was rolled back.  Holds for
\* one callback at a time, and for concurrent ones that all keep one of the
\* user's branches, whose row makes them take turns (handleWfSetBranches).
LastCommitWins ==
    /\ LiveRows = last.want
    /\ \A b \in LiveRows : row[b].primary <=> b = last.main

\* With one callback at a time a session that is given a primary branch is
\* given one the user is assigned to, although the reads look at no revoked_at:
\* no revoked row keeps the flag (ClearPrimary comes before Revoke).
PrimaryIsLive == got.branch # None /\ got.main => got.live

=============================================================================
