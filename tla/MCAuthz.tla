------------------------------ MODULE MCAuthz ------------------------------
(* For TLC: what a decision is made of: the roles and permissions of the    *)
(* user, the cached operational hours, and the decision itself.  A          *)
(* behaviour runs one of the settings below; the variables of the other     *)
(* components are then None, and those of the cache keep their initial      *)
(* values.  Days have three slots in "hours", the third of which is the     *)
(* evening of the overnight windows, and two in "access".                   *)
EXTENDS PolicyCache, TLC

CONSTANTS One, Two, Codes, Perms

VARIABLES setting, user, grant, exists, perms, done, w, rd, hours, up, now, rules, answer

rolesVars == <<user, grant, exists, perms, done, w, rd>>
decisionVars == <<hours, up, now, rules, answer>>
mcVars == <<setting, vars, rolesVars, decisionVars>>

\* The constants of the configuration are those of "cache": two evaluations
\* beside lost and reordered events.

\* One role callback at a time, and a decision.
Sequential == INSTANCE Roles WITH
    Handlers <- One, Readers <- One,
    Ops <- {"create", "set-roles", "create-role", "delete-role"},
    Failures <- TRUE
\* Two callbacks at once, and a decision.
Window == INSTANCE Roles WITH
    Handlers <- Two, Readers <- One, Perms <- One,
    Ops <- {"create", "set-roles", "create-role", "set-permissions", "delete-role"},
    Failures <- TRUE
\* Every schedule of the windows below, in every slot of the week.
Hours == INSTANCE Decision WITH
    Points <- {}, Scopes <- {}, DayLen <- 3,
    Windows <- {[open |-> 0, close |-> 2], [open |-> 1, close |-> 2], [open |-> 1, close |-> 1],
                [open |-> 3, close |-> 2], [open |-> 2, close |-> 1]},
    Flats <- {[open |-> v[1], close |-> v[2], isOpen |-> v[3]] :
                 v \in {<<1, 2, "unset">>, <<2, 1, "unset">>, <<1, 2, "no">>, <<2, 1, "no">>}},
    Zones <- [WIB |-> 0], Names <- {""}, DefaultTZ <- "WIB", FailOpen <- FALSE,
    Gated <- {}, Sensitive <- {}, Perms <- {}, Any <- "*", Branches <- {}, Policies <- {}
\* Every access to data, over schedules, timezones, outages and policies.
Access == INSTANCE Decision WITH
    Points <- {"data", "four"}, Scopes <- {"all", "own"},
    DayLen <- 2, Windows <- {[open |-> 0, close |-> 1]}, Flats <- {},
    Zones <- [WIB |-> 0, WIT |-> 1], Names <- {"WIT"}, DefaultTZ <- "WIB",
    FailOpen <- FALSE, Gated <- {"account:read"}, Sensitive <- {"account:read"},
    Perms <- {"account:read", "menu:open"}, Any <- "*", Branches <- {"b1", "b2"},
    Policies <- {[effect |-> "deny", perm |-> None, branch |-> "b1", fields |-> {}],
                 [effect |-> "allow", perm |-> "*", branch |-> None, fields |-> {"pan"}]}
\* Timezones that do not resolve, and an evaluator that fails open.
Astray == INSTANCE Decision WITH
    Points <- {"check", "data", "four"}, Scopes <- {""},
    DayLen <- 2, Windows <- {[open |-> 0, close |-> 1]}, Flats <- {},
    Zones <- [WIB |-> 0], Names <- {"", "Mars"}, DefaultTZ <- "WIB",
    FailOpen <- TRUE, Gated <- {"account:read"}, Sensitive <- {},
    Perms <- {"account:read"}, Any <- "*", Branches <- {"b1"}, Policies <- {}

\* The middleware, which looks neither at hours nor at policies.
Middleware == INSTANCE Decision WITH
    Points <- {"check", "all", "any", "branch"}, Scopes <- {"all", "assigned", "own", ""},
    DayLen <- 1, Windows <- {}, Flats <- {}, Zones <- [WIB |-> 0], Names <- {""},
    DefaultTZ <- "WIB", FailOpen <- FALSE, Gated <- {}, Sensitive <- {},
    Perms <- {"account:read", "menu:open"}, Any <- "*", Branches <- {"b1", "b2"},
    Policies <- {}

ASSUME /\ Sequential!RolesAssumption /\ Window!RolesAssumption
       /\ PolicyCacheAssumption
       /\ Hours!DecisionAssumption /\ Access!DecisionAssumption
       /\ Astray!DecisionAssumption /\ Middleware!DecisionAssumption

RolesOff == /\ user = None /\ grant = None /\ exists = None /\ perms = None /\ done = None
            /\ w = None /\ rd = None
DecisionOff == hours = None /\ up = None /\ now = None /\ rules = None /\ answer = None

MCInit ==
    \/ setting = "sequential" /\ Sequential!Init /\ Init /\ DecisionOff
    \/ setting = "window" /\ Window!Init /\ Init /\ DecisionOff
    \/ setting = "cache" /\ Init /\ RolesOff /\ DecisionOff
    \/ setting = "hours" /\ Hours!Init /\ RolesOff /\ Init
    \/ setting = "access" /\ Access!Init /\ RolesOff /\ Init
    \/ setting = "astray" /\ Astray!Init /\ RolesOff /\ Init
    \/ setting = "middleware" /\ Middleware!Init /\ RolesOff /\ Init

MCNext ==
    \/ setting = "sequential" /\ Sequential!Next /\ UNCHANGED <<setting, vars, decisionVars>>
    \/ setting = "window" /\ Window!Next /\ UNCHANGED <<setting, vars, decisionVars>>
    \/ setting = "cache" /\ Next /\ UNCHANGED <<setting, rolesVars, decisionVars>>
    \/ setting = "hours" /\ Hours!Next /\ UNCHANGED <<setting, rolesVars, vars>>
    \/ setting = "access" /\ Access!Next /\ UNCHANGED <<setting, rolesVars, vars>>
    \/ setting = "astray" /\ Astray!Next /\ UNCHANGED <<setting, rolesVars, vars>>
    \/ setting = "middleware" /\ Middleware!Next /\ UNCHANGED <<setting, rolesVars, vars>>

MCSpec == MCInit /\ [][MCNext]_mcVars

Symmetry == UNION {Permutations(S) : S \in {Two, Readers, Codes}}

-----------------------------------------------------------------------------
\* The component that runs keeps its types (Roles, PolicyCache, Decision).
TypesKept ==
    /\ setting = "sequential" => Sequential!TypeOK
    /\ setting = "window" => Window!TypeOK
    /\ setting = "cache" => TypeOK
    /\ setting = "hours" => Hours!TypeOK
    /\ setting = "access" => Access!TypeOK

\* A decision finds what the user held throughout it and nothing from outside
\* its window, beside any callbacks (ResolveAuthContext).
ReadWithinWindow ==
    /\ setting = "sequential" => Sequential!ReadWithinWindow
    /\ setting = "window" => Window!ReadWithinWindow

\* One at a time, a set-roles callback that succeeds leaves exactly the roles
\* it sent, one that fails half way something between the old and the new
\* ones, and a creation the roles it is through with (handleWfSetRoles,
\* handleWfCreate).
SetRolesOutcome ==
    setting = "sequential" => Sequential!ReplaceWholeSet /\ Sequential!PartialIsBetween


\* What is allowed has the permission, the hours and no denial, and every field
\* a policy masks is masked in the answer (checker.go, abac.go, authz.go).
AccessGuarded ==
    /\ setting = "access" => Access!AccessGuarded /\ Access!MasksKept
    /\ setting = "astray" => Astray!AccessGuarded
    /\ setting = "middleware" => Middleware!AccessGuarded
=============================================================================
