----------------------------- MODULE MCPlatform ----------------------------
(* For TLC: what every request passes through and leaves behind: the rate   *)
(* limiter, the gate of the admin routes, the signing keys, the audit trail *)
(* and the process itself.  A behaviour runs one of the settings below; the *)
(* variables of the other components are then None, and those of the audit  *)
(* trail keep their initial values.                                         *)
EXTENDS Audit, TLC

CONSTANTS None, One, Two, Instances, Orgs

VARIABLES setting, now, count, req, made, passed, wronged,
          clock, tokens, admitted, refused, asking, worked,
          month, pairs, keys, active, token, cache, asked,
          step, phase, open, opened, closers, signal, http, rpc, served, late

limitVars == <<now, count, req, made, passed, wronged>>
adminVars == <<clock, tokens, admitted, refused, asking, worked>>
keysVars == <<month, pairs, keys, active, token, cache, asked>>
processVars == <<step, phase, open, opened, closers, signal, http, rpc, served, late>>
mcVars == <<setting, limitVars, adminVars, keysVars, vars, processVars>>

\* The constants of the configuration are those of "crash": failures, orderly
\* stops and crashes.

\* Two requests of one client at once, which may outlast their window.
Limit == INSTANCE RateLimit WITH
    Handlers <- Two, Clients <- One, Window <- 3, MaxRequests <- 2, MaxTime <- 6, MaxMade <- 7,
    Slow <- TRUE, Failures <- TRUE
\* Two addresses at one instance (instances share nothing), requests at and
\* around the edge of the second.
Admin == INSTANCE AdminLimiter WITH
    Instances <- One, Addresses <- Two, Burst <- 2, Window <- 3, MaxTime <- 5, MaxMade <- 3, now <- clock, made <- asking,
    served <- worked
\* One instance that never restarts and rotates at most once a month.
Monthly == INSTANCE SigningKeys WITH
    Instances <- One, TokenTTL <- 2, MaxKeys <- 4, MaxMonth <- 3, MaxTokens <- 2, MaxAsked <- 0,
    SameMonth <- FALSE, Restarts <- FALSE, made <- pairs
\* Two instances, restarts, several keys in one month, emergency requests.
Restarted == INSTANCE SigningKeys WITH
    TokenTTL <- 2, MaxKeys <- 4, MaxMonth <- 3, MaxTokens <- 2, MaxAsked <- 1,
    SameMonth <- TRUE, Restarts <- TRUE, made <- pairs
\* HTTP and gRPC requests while the process starts, stops and fails.
Process == INSTANCE Lifecycle WITH MaxInFlight <- 2, MaxServed <- 4

ASSUME /\ Limit!RateLimitAssumption /\ Admin!AdminLimiterAssumption
       /\ Monthly!SigningKeysAssumption /\ Restarted!SigningKeysAssumption
       /\ AuditAssumption /\ Process!LifecycleAssumption

LimitOff == /\ now = None /\ count = None /\ req = None /\ made = None /\ passed = None
            /\ wronged = None
AdminOff == /\ clock = None /\ tokens = None /\ admitted = None /\ refused = None
            /\ asking = None /\ worked = None
KeysOff == /\ month = None /\ pairs = None /\ keys = None /\ active = None /\ token = None
           /\ cache = None /\ asked = None
ProcessOff == /\ step = None /\ phase = None /\ open = None /\ opened = None /\ closers = None
              /\ signal = None /\ http = None /\ rpc = None /\ served = None /\ late = None

MCInit ==
    \/ setting = "limit" /\ Limit!Init /\ AdminOff /\ KeysOff /\ Init /\ ProcessOff
    \/ setting = "admin" /\ Admin!Init /\ LimitOff /\ KeysOff /\ Init /\ ProcessOff
    \/ /\ LimitOff /\ AdminOff /\ Init /\ ProcessOff
       /\ \/ setting = "monthly" /\ Monthly!Init
          \/ setting = "restarted" /\ Restarted!Init
    \/ setting = "crash" /\ Init /\ LimitOff /\ AdminOff /\ KeysOff /\ ProcessOff
    \/ setting = "process" /\ Process!Init /\ LimitOff /\ AdminOff /\ KeysOff /\ Init

MCNext ==
    \/ /\ setting = "limit" /\ Limit!Next
       /\ UNCHANGED <<setting, adminVars, keysVars, vars, processVars>>
    \/ /\ setting = "admin" /\ Admin!Next
       /\ UNCHANGED <<setting, limitVars, keysVars, vars, processVars>>
    \/ /\ setting = "monthly" /\ Monthly!Next
       /\ UNCHANGED <<setting, limitVars, adminVars, vars, processVars>>
    \/ /\ setting = "restarted" /\ Restarted!Next
       /\ UNCHANGED <<setting, limitVars, adminVars, vars, processVars>>
    \/ /\ setting = "crash" /\ Next
       /\ UNCHANGED <<setting, limitVars, adminVars, keysVars, processVars>>
    \/ /\ setting = "process" /\ Process!Next
       /\ UNCHANGED <<setting, limitVars, adminVars, keysVars, vars>>

MCSpec == MCInit /\ [][MCNext]_mcVars

Symmetry == Permutations(Two) \cup Permutations(Changes) \cup Permutations(Orgs)

-----------------------------------------------------------------------------
\* Of the requests decided within one window no more than MaxRequests are
\* allowed, and a client alone is refused only beyond its limit (checkLimit).
LimitExact == setting = "limit" => Limit!PerWindow /\ Limit!OwnLimit

\* An instance admits no more than Burst requests in any span as long as the
\* window, refuses one only when the window is full, and lets a handler work on
\* the organisation of the token alone (AdminAuth, requireOrgID).
GateExact == setting = "admin" => Admin!BurstKept /\ Admin!RefusedRightly /\ Admin!OrgScope

\* The active kid of an instance names a key.  An instance that never restarts
\* verifies every token it signed, and a cached key set never has the wrong key
\* for a kid (RotatedKeyManager, GetJWKS).
KeysServe ==
    /\ setting = "monthly" => Monthly!TypeOK /\ Monthly!TokenVerifies /\ Monthly!CacheVerifies
    /\ setting = "restarted" => Restarted!TypeOK

\* An HTTP request in flight has everything the start opened, until the time
\* for the shutdown has run out (runStart).
DrainedFirst == setting = "process" => Process!DrainedFirst
=============================================================================
