---------------------------- MODULE MCRevocation ---------------------------
(* For TLC: the ends of a session.  A behaviour runs one of the settings    *)
(* below.                                                                   *)
EXTENDS Session, TLC

CONSTANT Addresses

VARIABLE setting

mcVars == <<setting, vars>>

\* The constants of the configuration are those of "revoked": every operation
\* that ends sessions through RevokeSession, and restarts.

\* Redis failing, and sessions deleted without a blacklist entry.
Dropped == INSTANCE Session WITH
    Ops <- {"login", "logout", "delegate", "validate", "org"},
    Failures <- TRUE, SessionTTL <- 2, RefreshTTL <- 2, BlacklistTTL <- 2, AccessTTL <- 1,
    Latency <- 1, MaxSid <- 2, MaxTok <- 2, MaxTime <- 2
\* Machine sessions among those.
Stored == INSTANCE Session WITH
    Ops <- {"logout", "oauth", "org"},
    Failures <- TRUE, SessionTTL <- 2, RefreshTTL <- 2, BlacklistTTL <- 2, AccessTTL <- 1,
    Latency <- 1, MaxSid <- 2, MaxTok <- 2, MaxTime <- 3

\* Refreshes that overlap, from two addresses.
Refreshed == INSTANCE Session WITH IPs <- Addresses,
    Ops <- {"login", "refresh"},
    Failures <- FALSE, SessionTTL <- 1, RefreshTTL <- 1, BlacklistTTL <- 2, AccessTTL <- 1,
    Latency <- 1, MaxSid <- 2, MaxTok <- 2, MaxTime <- 2
\* One request at a time, none failing, and longer chains of refreshes.
Alone == INSTANCE Session WITH
    Ops <- {"login", "refresh", "logout"},
    Failures <- FALSE, SessionTTL <- 2, RefreshTTL <- 2, BlacklistTTL <- 2, AccessTTL <- 1,
    Latency <- 1, MaxSid <- 3, MaxTok <- 3, MaxTime <- 3

OneBusy == \A p, q \in Handlers : p # q => "idle" \in {h[p].pc, h[q].pc}

MCInit ==
    \/ setting \in {"revoked", "dropped", "stored"} /\ Init
    \/ setting = "refreshed" /\ Refreshed!Init
    \/ setting = "alone" /\ Alone!Init

MCNext ==
    \/ setting = "revoked" /\ Next /\ UNCHANGED setting
    \/ setting = "dropped" /\ Dropped!Next /\ UNCHANGED setting
    \/ setting = "stored" /\ Stored!Next /\ UNCHANGED setting
    \/ setting = "refreshed" /\ Refreshed!Next /\ UNCHANGED setting
    \/ setting = "alone" /\ Alone!Next /\ OneBusy' /\ UNCHANGED setting

MCSpec == MCInit /\ [][MCNext]_mcVars

Symmetry == Permutations(Handlers) \cup Permutations(Addresses)

-----------------------------------------------------------------------------
\* Where sessions end only through RevokeSession, a token whose session was
\* deleted verifies only until the entry is written (RevokeSession).
DeletedUntilBlacklisted == setting = "revoked" => OrphanOnlyInFlight

\* A chain of refreshes keeps account and address (RefreshTokens).
ChainKeepsBinding == setting = "refreshed" => Refreshed!RefreshKeepsBinding

\* One request at a time exchanges a refresh token once (RefreshTokens).
ExchangedOnce == setting = "alone" => Alone!RefreshOnce
=============================================================================
