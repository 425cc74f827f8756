----------------------------- MODULE Decision ------------------------------
(***************************************************************************)
(* The decisions of internal/service/authz: the operational hours of       *)
(* timewindow.go, the permission checker and the four layers of            *)
(* checker.go, the attribute policies of abac.go, and the answers the REST *)
(* and gRPC decision points give with them.                                *)
(*                                                                         *)
(* Time is the number of the slot in the week: day d (0 is Sunday) has the *)
(* slots d*DayLen .. d*DayLen + DayLen-1.  A time of day that does not     *)
(* parse ("", "24:00", "8") is written DayLen.  The decisions change no    *)
(* state, so one question per slot is enough: a question waits for Tick to *)
(* take the last answer away.                                              *)
(***************************************************************************)
EXTENDS Naturals, FiniteSets

CONSTANTS
    Points,         \* the decision points asked in this instance
    None,           \* no window, no schedule, no answer
    DayLen,         \* slots of a day
    Windows,        \* windows a day may be given: [open, close]
    Flats,          \* values of is_open, open_time and close_time
    Zones,          \* timezone |-> slots ahead of UTC; others do not resolve
    Names,          \* timezones a schedule may name
    DefaultTZ,      \* of the evaluator
    FailOpen,       \* of the evaluator
    Gated,          \* WithTimeGate: permissions bound to operational hours
    Sensitive,      \* needsABACCheck
    Perms,          \* permissions asked for
    Any,            \* the permission "*"
    Branches,
    Scopes,         \* branch_scope as the token has it
    Policies        \* ABAC policies of the organisation

AllPoints == {"check", "data", "all", "any", "branch", "four"}

DecisionAssumption ==
    /\ Points \subseteq AllPoints
    /\ Scopes \subseteq {"all", "assigned", "own", ""}
    /\ DayLen \in Nat \ {0} /\ FailOpen \in BOOLEAN
    /\ \A w \in Windows \cup Flats : {w.open, w.close} \subseteq 0..DayLen
    /\ DefaultTZ \in DOMAIN Zones
    /\ \A z \in DOMAIN Zones : Zones[z] \in Nat
    /\ Gated \cup Sensitive \subseteq Perms /\ Any \notin Perms

Week == 7 * DayLen
Dow(t) == (t \div DayLen) % 7
Day(t) == CASE Dow(t) = 6 -> "saturday" [] Dow(t) = 0 -> "sunday" [] OTHER -> "weekday"
Schedule == [weekday : Windows \cup {None}, saturday : Windows \cup {None},
             sunday : Windows \cup {None}, flat : Flats \cup {None}, tz : Names]
Context == [perms : SUBSET (Perms \cup {Any}), scope : Scopes, branch : Branches]

VARIABLES
    hours,      \* the operational_hours in force
    up,         \* policy7 answers, or the value is cached
    now,        \* UTC
    rules,      \* the ABAC policies stored
    answer      \* the last decision

vars == <<hours, up, now, rules, answer>>

-----------------------------------------------------------------------------
(* timewindow.go                                                           *)

\* windowForDay
WindowForDay(s, d) ==
    IF s[d] # None THEN s[d]
    ELSE IF s.flat # None /\ s.flat.isOpen # "no"
         THEN [open |-> s.flat.open, close |-> s.flat.close]
         ELSE None

\* parseHHMM
Parses(x) == x < DayLen

\* IsOpenAt, t being local time
IsOpenAt(s, t) ==
    LET w == WindowForDay(s, Day(t))
        m == t % DayLen
    IN  /\ w # None
        /\ Parses(w.open) /\ Parses(w.close) /\ w.open # w.close
        /\ IF w.close > w.open THEN m >= w.open /\ m < w.close
                               ELSE m >= w.open \/ m < w.close

\* resolveLocation: the zone's offset, or None.
ResolveLocation(tz) ==
    LET z == IF tz = "" THEN DefaultTZ ELSE tz
    IN  IF z \in DOMAIN Zones THEN Zones[z] ELSE None

\* Mutant: the hours are compared with UTC.
EvaluateUTC(s, ok, t) == IF ok THEN IsOpenAt(s, t) ELSE FailOpen
\* TimeWindowEvaluator.Evaluate and onError
Evaluate(s, ok, t) ==
    IF ok /\ ResolveLocation(s.tz) # None
    THEN IsOpenAt(s, (t + ResolveLocation(s.tz)) % Week)
    ELSE FailOpen

-----------------------------------------------------------------------------
(* abac.go: a policy is [effect, perm, branch, fields]; None matches all.  *)

MatchesPermission(p, perm) == p.perm \in {None, perm, Any}
MatchesConditions(p, ctx) == p.branch \in {None, ctx.branch}
Applicable(ctx, perm) == {p \in rules : MatchesPermission(p, perm) /\ MatchesConditions(p, ctx)}
\* ABACEvaluator.Evaluate: a deny wins, no policy allows.
ABACAllows(ctx, perm) == \A p \in Applicable(ctx, perm) : p.effect # "deny"
FieldMasks(ctx, perm) == UNION {p.fields : p \in Applicable(ctx, perm)}

-----------------------------------------------------------------------------
(* checker.go                                                              *)

\* CheckPermission, hasPermission
CheckPermission(ctx, perm) == perm \in ctx.perms \/ Any \in ctx.perms

\* CheckDataAccess
CheckDataAccess(ctx, perm) ==
    /\ CheckPermission(ctx, perm)
    /\ perm \in Gated => Evaluate(hours, up, now)
    /\ perm \in Sensitive => ABACAllows(ctx, perm)

\* The masks CheckDataAccess returns, with a refusal by a policy as well.
DataMasks(ctx, perm) ==
    IF /\ CheckPermission(ctx, perm) /\ perm \in Sensitive
       /\ perm \in Gated => Evaluate(hours, up, now)
    THEN FieldMasks(ctx, perm) ELSE {}

\* CheckBranchScope
CheckBranchScope(ctx, target) ==
    \/ ctx.scope = "all"
    \/ ctx.scope \in {"assigned", "own"} /\ ctx.branch = target

\* FourLayerAuth.Authorize
Authorize(ctx, page, perm, target) ==
    LET page_ok == CheckPermission(ctx, page)
        data_ok == CheckDataAccess(ctx, perm)
        branch_ok == CheckBranchScope(ctx, target)
    IN  [kind |-> "four", ctx |-> ctx, asked |-> {page, perm}, data |-> perm, target |-> target,
         allowed |-> page_ok /\ data_ok /\ branch_ok,
         masks |-> IF page_ok /\ (data_ok => branch_ok) THEN DataMasks(ctx, perm) ELSE {}]

-----------------------------------------------------------------------------
(* The decision points.                                                    *)

\* ResolveAuthContext: whatever the roles give, for the branch asked about.
ResolveAuthContext(c) == [c EXCEPT !.scope = "assigned"]

\* extractAuthContext: a scope it does not know is the assigned branch.
ExtractAuthContext(c) ==
    [c EXCEPT !.scope = IF c.scope \in {"own", "all"} THEN c.scope ELSE "assigned"]

\* An answer about permissions only.
Plain(kind, ctx, asked, allowed) ==
    [kind |-> kind, ctx |-> ctx, asked |-> asked, data |-> None, target |-> ctx.branch,
     masks |-> {}, allowed |-> allowed]

Init ==
    /\ hours \in Schedule /\ up \in BOOLEAN /\ now = 0
    /\ rules \in SUBSET Policies /\ answer = None

\* Time passes.
Tick ==
    /\ now' = (now + 1) % Week
    /\ answer' = None
    /\ UNCHANGED <<hours, up, rules>>

Answer(point, a) ==
    /\ point \in Points
    /\ answer = None
    /\ answer' = a
    /\ UNCHANGED <<hours, up, now, rules>>

\* CheckPermission of the gRPC server: the context of the identity, and what
\* the checker says of it.
Permitted(c, perm) ==
    LET ctx == ResolveAuthContext(c)
    IN  Plain("check", ctx, {perm}, CheckPermission(ctx, perm))

\* handleCheck, or the gRPC server
HandleCheck(c, perm) == Answer("check", Permitted(c, perm))

\* handleCheckDataAccess
HandleCheckDataAccess(c, perm) ==
    LET ctx == ResolveAuthContext(c)
    IN  Answer("data",
            [kind |-> "data", ctx |-> ctx, asked |-> {perm}, data |-> perm,
             target |-> ctx.branch, masks |-> DataMasks(ctx, perm),
             allowed |-> CheckDataAccess(ctx, perm)])

\* RequirePermissions; RequirePermission is the case of one permission.
RequirePermissions(c, ps) ==
    LET ctx == ExtractAuthContext(c)
    IN  Answer("all", Plain("all", ctx, ps, \A perm \in ps : CheckPermission(ctx, perm)))

RequireAnyPermission(c, ps) ==
    LET ctx == ExtractAuthContext(c)
    IN  Answer("any", Plain("any", ctx, ps, \E perm \in ps : CheckPermission(ctx, perm)))

\* RequireBranchAccess looks at the branch of the header X-Branch-ID and never
\* at the permission it is given.
RequireBranchAccess(c, b) ==
    LET ctx == ExtractAuthContext(c)
    IN  Answer("branch",
            [Plain("branch", ctx, {}, CheckBranchScope(ctx, b)) EXCEPT !.target = b])

RequireFourLayer(c, page, perm, target) ==
    Answer("four", Authorize(ExtractAuthContext(c), page, perm, target))

Next ==
    \/ Tick
    \/ \E c \in Context :
          \/ \E perm \in Perms :
                \/ HandleCheck(c, perm)
                \/ HandleCheckDataAccess(c, perm)
                \/ \E page \in Perms, b \in Branches : RequireFourLayer(c, page, perm, b)
          \/ \E ps \in SUBSET Perms \ {{}} :
                \/ RequirePermissions(c, ps)
                \/ RequireAnyPermission(c, ps)
          \/ \E b \in Branches : RequireBranchAccess(c, b)

Spec == Init /\ [][Next]_vars

-----------------------------------------------------------------------------
\* hours, now and the last answer keep their types.
TypeOK ==
    /\ hours \in Schedule /\ up \in BOOLEAN /\ now \in 0..(Week - 1)
    /\ rules \subseteq Policies
    /\ answer = None \/ /\ answer.ctx.scope \in {"all", "assigned", "own"}
                        /\ answer.asked \subseteq Perms
                        /\ answer.allowed \in BOOLEAN /\ answer.target \in Branches

\* The reference: every day's window as an interval of the week, an overnight
\* one ending the next day.
Opens(s, d) == LET w == WindowForDay(s, Day(d * DayLen)) IN
    IF w = None \/ w.open = DayLen \/ w.close = DayLen THEN {}
    ELSE LET last == IF w.close < w.open THEN w.close + DayLen ELSE w.close
         IN  {(d * DayLen + x) % Week : x \in w.open .. (last - 1)}
OpenIn(s) == UNION {Opens(s, d) : d \in 0..6}
Overnight(w) == w # None /\ w.close < w.open
SameEveryDay(s) == \A d, e \in {"weekday", "saturday", "sunday"} :
                      WindowForDay(s, d) = WindowForDay(s, e)
NoOvernight(s) == \A d \in {"weekday", "saturday", "sunday"} : ~Overnight(WindowForDay(s, d))


\* What the evaluator means by open: inside an interval of the local week, or
\* unknown and failing open.
OpenNow ==
    IF up /\ ResolveLocation(hours.tz) # None
    THEN (now + ResolveLocation(hours.tz)) % Week \in OpenIn(hours)
    ELSE FailOpen

\* What is allowed has the permissions asked for, or one of them where one is
\* enough (CheckPermission, AuthMiddleware).  A data access, alone or under
\* FourLayerAuth.Authorize, is inside operational hours too if the permission
\* is gated, and no applicable policy denies it if it is sensitive
\* (CheckDataAccess); across all the ways a schedule, its timezone and its
\* absence combine.  Another branch is reached with the scope "all" only.
AccessGuarded ==
    answer # None /\ answer.allowed =>
        /\ \/ answer.asked \subseteq answer.ctx.perms
           \/ Any \in answer.ctx.perms
           \/ answer.kind = "any" /\ answer.asked \cap answer.ctx.perms # {}
        /\ answer.target = answer.ctx.branch \/ answer.ctx.scope = "all"
        /\ answer.data \in Gated /\ (NoOvernight(hours) \/ SameEveryDay(hours)) => OpenNow
        /\ answer.data \in Sensitive =>
              ~\E p \in rules : /\ p.effect = "deny" /\ p.perm \in {None, answer.data, Any}
                                /\ p.branch \in {None, answer.ctx.branch}

\* Every field an applicable policy masks is masked in the answer of an allowed
\* access to sensitive data.
MasksKept ==
    answer # None /\ answer.allowed /\ answer.data \in Sensitive =>
        answer.masks = UNION {p.fields : p \in {q \in rules :
            q.perm \in {None, answer.data, Any} /\ q.branch \in {None, answer.ctx.branch}}}

=============================================================================
