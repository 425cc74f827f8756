---------------------------- MODULE BranchSync -----------------------------
(***************************************************************************)
(* The branch poller of internal/service/branchsync/poller.go: one pass    *)
(* fetches the pages of the enterprise's branch list one after the other,  *)
(* upserts each page in a transaction and at the end tombstones the        *)
(* branches it has not seen.  The list may change, and a fetch may fail,   *)
(* between any two steps; several instances of the service poll at once.   *)
(***************************************************************************)
EXTENDS Naturals, Sequences, SequencesExt

CONSTANTS
    Pollers,        \* instances of the service, one poller each
    None,
    Order,          \* every branch, in the order the enterprise lists them
    Codes,          \* branch codes
    PerPage,        \* Config.PerPage
    MaxChanges,     \* bound on the changes of the list
    Midpass,        \* TRUE: the list also changes during a pass
    Empties,        \* TRUE: a page may be answered 200 with no data
    CodeReuse       \* TRUE: a code may pass from one branch to another

BranchSyncAssumption ==
    /\ PerPage \in Nat \ {0} /\ MaxChanges \in Nat
    /\ {Midpass, Empties, CodeReuse} \subseteq BOOLEAN
    /\ None \notin Codes

Branches == {Order[i] : i \in DOMAIN Order}

VARIABLES
    src,        \* the enterprise's list: branch |-> None or its record
    owned,      \* branch |-> the codes it has had (history)
    db,         \* the table branches, this organisation's rows
    pass,       \* the pollers
    steady,     \* branches listed all through the pass of each poller (history)
    changes

vars == <<src, owned, db, pass, steady, changes>>

Item == [active : BOOLEAN, code : Codes]
Idle == [pc |-> "idle", page |-> 0, seen |-> {}, items |-> <<>>, pages |-> 0]

Listed == {b \in Branches : src[b] # None}
List == SelectSeq(Order, LAMBDA b : b \in Listed)
TotalPages == (Len(List) + PerPage - 1) \div PerPage
\* contractEnvelope.Data of page n: what the upstream answers
Page(n) ==
    LET part == SubSeq(List, (n - 1) * PerPage + 1,
                       IF n * PerPage < Len(List) THEN n * PerPage ELSE Len(List))
    IN  [i \in DOMAIN part |-> [id |-> part[i], active |-> src[part[i]].active,
                                code |-> src[part[i]].code]]

Init ==
    /\ src \in [Branches -> {None} \cup [active : {TRUE}, code : Codes]]
    /\ \A b, c \in Listed : b # c => src[b].code # src[c].code
    /\ owned = [b \in Branches |-> IF src[b] = None THEN {} ELSE {src[b].code}]
    /\ db = src
    /\ pass = [p \in Pollers |-> Idle]
    /\ steady = [p \in Pollers |-> {}]
    /\ changes = 0

-----------------------------------------------------------------------------
(* The enterprise domain.                                                  *)

Change(b, v) ==
    /\ changes < MaxChanges /\ v # src[b]
    /\ Midpass \/ \A p \in Pollers : pass[p].pc = "idle"
    /\ v # None =>
          /\ \A c \in Listed \ {b} : src[c].code # v.code
          /\ CodeReuse \/ \A c \in Branches \ {b} : v.code \notin owned[c]
    /\ src' = [src EXCEPT ![b] = v]
    /\ owned' = IF v = None THEN owned ELSE [owned EXCEPT ![b] = @ \cup {v.code}]
    /\ steady' = IF v = None THEN [p \in Pollers |-> steady[p] \ {b}] ELSE steady
    /\ changes' = changes + 1
    /\ UNCHANGED <<db, pass>>

-----------------------------------------------------------------------------
(* Poller.Run and Poller.tick.                                             *)

\* The first run, or the ticker.
StartPass(p) ==
    /\ pass[p].pc = "idle"
    /\ pass' = [pass EXCEPT ![p] = [Idle EXCEPT !.pc = "fetch", !.page = 1]]
    /\ steady' = [steady EXCEPT ![p] = Listed]
    /\ UNCHANGED <<src, owned, db, changes>>

\* fetchPage; an empty page ends the loop.
Got(p, items) ==
    /\ pass[p].pc = "fetch"
    /\ pass' = [pass EXCEPT ![p] = [@ EXCEPT
          !.pc = IF items = <<>> THEN "deactivate" ELSE "upsert",
          !.items = items, !.pages = TotalPages]]
    /\ UNCHANGED <<src, owned, db, steady, changes>>
FetchPage(p) == Got(p, Page(pass[p].page))
\* The upstream briefly serves an empty list.
FetchEmpty(p) == Empties /\ Got(p, <<>>)

\* Mutant: a page that failed ends the loop like an empty one.
FetchBreaks(p) ==
    /\ pass[p].pc = "fetch"
    /\ pass' = [pass EXCEPT ![p].pc = "deactivate"]
    /\ UNCHANGED <<src, owned, db, steady, changes>>
\* No token, no answer, a status of 400 or more, no JSON: tick returns.
FetchFails(p) ==
    /\ pass[p].pc = "fetch"
    /\ pass' = [pass EXCEPT ![p] = Idle]
    /\ UNCHANGED <<src, owned, db, steady, changes>>

\* INSERT ... ON CONFLICT (id) DO UPDATE: (org_id, branch_code) is UNIQUE,
\* tombstoned rows included.  None is a transaction that failed.
UpsertRow(rows, item) ==
    IF rows = None \/ \E c \in Branches \ {item.id} : rows[c] # None /\ rows[c].code = item.code
    THEN None
    ELSE [rows EXCEPT ![item.id] = [active |-> item.active, code |-> item.code]]

SeenAfter(p) == pass[p].seen \cup {pass[p].items[i].id : i \in DOMAIN pass[p].items}

\* upsertBatch
UpsertBatch(p) ==
    /\ pass[p].pc = "upsert"
    /\ LET rows == FoldLeft(UpsertRow, db, pass[p].items)
       IN  IF rows = None
           THEN pass' = [pass EXCEPT ![p] = Idle] /\ UNCHANGED db
           ELSE /\ db' = rows
                /\ pass' = [pass EXCEPT ![p] = [@ EXCEPT !.seen = SeenAfter(p), !.items = <<>>,
                      !.pc = IF pass[p].pages <= pass[p].page THEN "deactivate" ELSE "fetch",
                      !.page = @ + 1]]
    /\ UNCHANGED <<src, owned, steady, changes>>

\* The database fails, or the process stops, during a pass.
PassFails(p) ==
    /\ pass[p].pc \in {"upsert", "deactivate"}
    /\ pass' = [pass EXCEPT ![p] = Idle]
    /\ UNCHANGED <<src, owned, db, steady, changes>>

\* deactivateAbsent
DeactivateAbsent(p) ==
    /\ pass[p].pc = "deactivate"
    /\ db' = IF pass[p].seen = {} THEN db
             ELSE [b \in Branches |-> IF db[b] # None /\ b \notin pass[p].seen
                                      THEN [db[b] EXCEPT !.active = FALSE] ELSE db[b]]
    /\ pass' = [pass EXCEPT ![p] = Idle]
    /\ UNCHANGED <<src, owned, steady, changes>>

Next ==
    \/ \E b \in Branches, v \in Item \cup {None} : Change(b, v)
    \/ \E p \in Pollers :
          \/ StartPass(p) \/ FetchPage(p) \/ FetchEmpty(p) \/ FetchFails(p)
          \/ UpsertBatch(p) \/ PassFails(p) \/ DeactivateAbsent(p)

Spec == Init /\ [][Next]_vars

-----------------------------------------------------------------------------

\* deactivateAbsent never tombstones a branch that was listed all through the
\* pass, however fetches fail and passes of several instances overlap.
TombstoneStep ==
    \A p \in Pollers, b \in Branches :
        pass[p].pc = "deactivate" /\ pass'[p].pc = "idle" /\ db[b] # None /\ db[b].active
            /\ ~db'[b].active => b \notin steady[p]
TombstoneRight == [][TombstoneStep]_vars

\* A list that becomes empty leaves the projection alone (the guard of
\* deactivateAbsent): only a pass that saw some branch tombstones others.
WipeStep ==
    (\E b \in Branches : db[b] # None /\ db[b].active /\ ~db'[b].active)
        => \E p \in Pollers : /\ pass'[p] # pass[p]
                              /\ pass[p].seen # {} \/ pass[p].items # <<>>

Agrees ==
    \A b \in Branches :
        /\ b \in Listed => db[b] = src[b]
        /\ b \notin Listed => db[b] = None \/ ~db[b].active

=============================================================================
