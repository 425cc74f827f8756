---------------------------- MODULE MCBranches -----------------------------
(* For TLC: tables that are written and read by several requests at once:   *)
(* the branches of a user, the projection they are taken from, the default  *)
(* roles of a branch, and the listings.  A behaviour runs one of the        *)
(* settings below; the variables of the other components are then None.     *)
EXTENDS TLC

CONSTANTS None, One, Two, Offices, Kept, Defaults

VARIABLES setting, row, open, last, tx, got, src, owned, db, pass, steady, changes,
          table, put, listing, gone, page, ask, walk, edits

assignVars == <<row, open, last, tx, got>>
syncVars == <<src, owned, db, pass, steady, changes>>
roleVars == <<table, put>>
listVars == <<listing, gone, page, ask, walk, edits>>
vars == <<setting, assignVars, syncVars, roleVars, listVars>>

\* Two callbacks that both keep one of the user's branches.
Together == INSTANCE BranchAssign WITH
    Handlers <- Two, Home <- Kept, Branches <- Offices \cup {Kept}, Failures <- TRUE,
    Reads <- FALSE
\* One callback at a time, and the reads of sessions.
Alone == INSTANCE BranchAssign WITH
    Handlers <- One, Home <- None, Branches <- Offices \cup {Kept}, Failures <- TRUE,
    Reads <- TRUE
\* Two pollers, and two pages that change between passes.
Pages == INSTANCE BranchSync WITH
    Pollers <- Two, Order <- <<"b1", "b2", "b3">>, Codes <- {"k1", "k2", "k3"}, PerPage <- 2,
    MaxChanges <- 2, Midpass <- FALSE, Empties <- FALSE, CodeReuse <- TRUE
\* Two pollers, and one page that changes at any time and may be served empty.
Page == INSTANCE BranchSync WITH
    Pollers <- Two, Order <- <<"b1", "b2", "b3">>, Codes <- {"k1", "k2", "k3"}, PerPage <- 3,
    MaxChanges <- 1, Midpass <- TRUE, Empties <- TRUE, CodeReuse <- TRUE
\* Two requests for the default roles of a branch, with the column default of
\* the archived migration and without it.
Dated == INSTANCE DefaultRoles WITH
    Handlers <- Two, Roles <- Defaults, CreatedDefault <- TRUE, Failures <- TRUE, tx <- put
Undated == INSTANCE DefaultRoles WITH
    Handlers <- Two, Roles <- Defaults, CreatedDefault <- FALSE, Failures <- FALSE, tx <- put
\* Three pages, and rows inserted and deleted between them.
Apps == INSTANCE Listing WITH
    MaxPlace <- 6, Asked <- 2, Most <- 3, Default <- 2, Dialect <- "apps", MaxChanges <- 2,
    rows <- listing, changes <- edits
Lookup == INSTANCE Listing WITH
    MaxPlace <- 5, Asked <- 4, Most <- 3, Default <- 2, Dialect <- "lookup", MaxChanges <- 2,
    rows <- listing, changes <- edits
Users == INSTANCE Listing WITH
    MaxPlace <- 5, Asked <- 2, Most <- 3, Default <- 2, Dialect <- "users", MaxChanges <- 2,
    rows <- listing, changes <- edits
Trail == INSTANCE Listing WITH
    MaxPlace <- 5, Asked <- 4, Most <- 2, Default <- 1, Dialect <- "audit", MaxChanges <- 2,
    rows <- listing, changes <- edits

ASSUME /\ Together!BranchAssignAssumption /\ Alone!BranchAssignAssumption
       /\ Pages!BranchSyncAssumption /\ Page!BranchSyncAssumption
       /\ Dated!DefaultRolesAssumption /\ Undated!DefaultRolesAssumption
       /\ Apps!ListingAssumption /\ Lookup!ListingAssumption 
       /\ Users!ListingAssumption /\ Trail!ListingAssumption

AssignOff == row = None /\ open = None /\ last = None /\ tx = None /\ got = None
SyncOff == /\ src = None /\ owned = None /\ db = None /\ pass = None /\ steady = None
           /\ changes = None

RolesOff == table = None /\ put = None
ListOff == /\ listing = None /\ gone = None /\ page = None /\ ask = None /\ walk = None /\ edits = None

Init ==
    \/ /\ SyncOff /\ RolesOff /\ ListOff
       /\ \/ setting = "together" /\ Together!Init
          \/ setting = "alone" /\ Alone!Init
    \/ /\ AssignOff /\ RolesOff /\ ListOff
       /\ \/ setting = "pages" /\ Pages!Init
          \/ setting = "page" /\ Page!Init
    \/ /\ AssignOff /\ SyncOff /\ ListOff
       /\ \/ setting = "dated" /\ Dated!Init
          \/ setting = "undated" /\ Undated!Init
    \/ /\ AssignOff /\ SyncOff /\ RolesOff
       /\ \/ setting = "apps" /\ Apps!Init
          \/ setting = "lookup" /\ Lookup!Init
          \/ setting = "users" /\ Users!Init
          \/ setting = "trail" /\ Trail!Init

Next ==
    \/ setting = "together" /\ Together!Next /\ UNCHANGED <<setting, syncVars, roleVars, listVars>>
    \/ setting = "alone" /\ Alone!Next /\ UNCHANGED <<setting, syncVars, roleVars, listVars>>
    \/ setting = "pages" /\ Pages!Next /\ UNCHANGED <<setting, assignVars, roleVars, listVars>>
    \/ setting = "page" /\ Page!Next /\ UNCHANGED <<setting, assignVars, roleVars, listVars>>
    \/ setting = "dated" /\ Dated!Next /\ UNCHANGED <<setting, assignVars, syncVars, listVars>>
    \/ setting = "undated" /\ Undated!Next /\ UNCHANGED <<setting, assignVars, syncVars, listVars>>
    \/ setting = "apps" /\ Apps!Next /\ UNCHANGED <<setting, assignVars, syncVars, roleVars>>
    \/ setting = "lookup" /\ Lookup!Next /\ UNCHANGED <<setting, assignVars, syncVars, roleVars>>
    \/ setting = "users" /\ Users!Next /\ UNCHANGED <<setting, assignVars, syncVars, roleVars>>
    \/ setting = "trail" /\ Trail!Next /\ UNCHANGED <<setting, assignVars, syncVars, roleVars>>

Spec == Init /\ [][Next]_vars

Symmetry == Permutations(Two) \cup Permutations(Offices) \cup Permutations(Defaults)

-----------------------------------------------------------------------------
\* The user's branches are those of the last committed callback, with its
\* primary and no other (handleWfSetBranches).
LastCommitWins ==
    /\ setting = "together" => Together!LastCommitWins
    /\ setting = "alone" => Alone!LastCommitWins

\* A session given a primary branch is given an assigned one (the reads of
\* login and switch-branch after handleWfSetBranches).
PrimaryIsLive == setting = "alone" => Alone!PrimaryIsLive

\* A branch listed all through a pass is not tombstoned by it, and a pass that
\* saw no branch tombstones none (deactivateAbsent).
TombstoneRight ==
    [][(setting \in {"pages", "page"} => Pages!TombstoneStep /\ Pages!WipeStep)]_vars

\* A committed request leaves the default roles it was given, and beside them
\* only those of a request it overlapped (handlePutBranchDefaultRoles,
\* handleWfSetDefaultRoles).
ReplacesSet == [][(setting \in {"dated", "undated"} => Dated!ReplaceStep)]_vars

\* A walk through a listing misses no row that stays and, by cursor, shows none
\* twice, with what Listing says of the others; the flags of an application page are right while nothing changes
\* (handleAppsQuery, handleUserLookup, ListByOrg, List).
WalkComplete ==
    /\ setting = "apps" => Apps!WalkComplete /\ Apps!FlagsTrue
    /\ setting = "lookup" => Lookup!WalkComplete
    /\ setting = "users" => Users!WalkComplete
    /\ setting = "trail" => Trail!WalkComplete
=============================================================================
