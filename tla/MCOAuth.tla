------------------------------ MODULE MCOAuth ------------------------------
(* For TLC: the OAuth2 grants, where MarkUsed always succeeds ("codes") and *)
(* where writes may fail ("faults").                                        *)
EXTENDS OAuth, TLC

VARIABLE setting

mcVars == <<setting, vars>>

\* The constants of the configuration are those of "codes": one code, redeemed
\* up to the second token.

\* Failing writes, and client credentials beside the code.
Faults == INSTANCE OAuth WITH
    Ops <- {"authorize", "exchange", "machine", "update"}, Failures <- TRUE, CodeTTL <- 1,
    Latency <- 1, MaxCode <- 1, MaxTime <- 3, MaxIssued <- 1

ASSUME OAuthAssumption /\ Faults!OAuthAssumption

MCInit == setting \in {"codes", "faults"} /\ Init

MCNext ==
    \/ setting = "codes" /\ Next /\ UNCHANGED setting
    \/ setting = "faults" /\ Faults!Next /\ UNCHANGED setting

MCSpec == MCInit /\ [][MCNext]_mcVars

Symmetry == Permutations(Handlers)

-----------------------------------------------------------------------------
\* As long as MarkUsed succeeds, a code yields at most one token for each
\* exchange that can run at once (ExchangeAuthCode).
OneTokenPerExchange == setting = "codes" => RedemptionsBounded
=============================================================================
