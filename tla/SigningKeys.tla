---------------------------- MODULE SigningKeys ----------------------------
(***************************************************************************)
(* The signing keys of access tokens: RotatedKeyManager and Service of     *)
(* internal/service/jwt, the emergency request to rotate them, and         *)
(* services that verify tokens with a cached key set.                      *)
(*                                                                         *)
(* A key pair is a number, unique for ever; its kid is the month it was    *)
(* made in.  Keys live in the memory of an instance: every start makes a   *)
(* new one.  AllKeys and GetKey never drop a key.                          *)
(***************************************************************************)
EXTENDS Naturals, FiniteSets

CONSTANTS
    Instances,      \* processes of the service
    TokenTTL,       \* lifetime of a token, in months here (minutes in the code)
    MaxKeys,        \* bound on the key pairs
    MaxMonth,       \* bound on the clock
    MaxTokens,      \* bound on the tokens under way
    MaxAsked,       \* bound on the emergency requests
    SameMonth,      \* TRUE: a key may be made in the month of an earlier one
    Restarts        \* TRUE: an instance may stop and start again

SigningKeysAssumption ==
    /\ {TokenTTL, MaxKeys, MaxMonth, MaxTokens, MaxAsked} \subseteq Nat
    /\ {SameMonth, Restarts} \subseteq BOOLEAN

VARIABLES
    month,
    made,       \* key pairs made so far
    keys,       \* instance |-> its map from kid to key pair
    active,     \* instance |-> activeKid
    token,      \* tokens that have not expired
    cache,      \* a verifying service's copy of the key set
    asked       \* emergency rotations answered with success

vars == <<month, made, keys, active, token, cache, asked>>

Months == 0 .. MaxMonth
KeyPairs == 1 .. MaxKeys
Token == [kid : Months, key : KeyPairs, at : Instances, exp : 0 .. MaxMonth + TokenTTL]
NoKeys == [m \in Months |-> 0]

\* NewService on every instance, in month 0.
Init ==
    /\ month = 0 /\ made = Cardinality(Instances)
    /\ \E f \in [Instances -> 1 .. Cardinality(Instances)] :
          /\ \A i, j \in Instances : f[i] = f[j] => i = j
          /\ keys = [i \in Instances |-> [NoKeys EXCEPT ![0] = f[i]]]
    /\ active = [i \in Instances |-> 0]
    /\ token = {} /\ cache = NoKeys /\ asked = 0

Tick ==
    /\ month < MaxMonth
    /\ month' = month + 1
    /\ token' = {t \in token : t.exp > month + 1}
    /\ UNCHANGED <<made, keys, active, cache, asked>>

\* Mutant: the map is made anew.
RotateForgets(i) ==
    /\ made < MaxKeys
    /\ SameMonth \/ keys[i][month] = 0
    /\ made' = made + 1
    /\ keys' = [keys EXCEPT ![i] = [NoKeys EXCEPT ![month] = made + 1]]
    /\ active' = [active EXCEPT ![i] = month]
    /\ UNCHANGED <<month, token, cache, asked>>
\* RotateKey: GenerateNewKey stores the key under its kid and makes it
\* active.
RotateKey(i) ==
    /\ made < MaxKeys
    /\ SameMonth \/ keys[i][month] = 0
    /\ made' = made + 1
    /\ keys' = [keys EXCEPT ![i][month] = made + 1]
    /\ active' = [active EXCEPT ![i] = month]
    /\ UNCHANGED <<month, token, cache, asked>>
\* NewService in a process that starts again.
Restart(i) ==
    /\ Restarts /\ made < MaxKeys
    /\ made' = made + 1
    /\ keys' = [keys EXCEPT ![i] = [NoKeys EXCEPT ![month] = made + 1]]
    /\ active' = [active EXCEPT ![i] = month]
    /\ UNCHANGED <<month, token, cache, asked>>

\* IssueAccessToken signs with the active key and names its kid.
IssueAccessToken(i) ==
    /\ Cardinality(token) < MaxTokens
    /\ token' = token \cup {[kid |-> active[i], key |-> keys[i][active[i]], at |-> i,
                             exp |-> month + TokenTTL]}
    /\ UNCHANGED <<month, made, keys, active, cache, asked>>

\* EmergencyHandler.EmergencyKeyRotation is given no service, and asks for a
\* method with another signature than EmergencyService has: it does nothing
\* and answers with success.
EmergencyKeyRotation(i) ==
    /\ asked < MaxAsked /\ asked' = asked + 1
    /\ UNCHANGED <<month, made, keys, active, token, cache>>

\* VerifyAccessToken: the key is looked up by kid.
Verifies(map, t) == map[t.kid] = t.key
\* GetJWKS, fetched whole by a verifying service: once, or when it meets a
\* kid it does not know.
FetchJWKS(i, t) ==
    /\ cache[t.kid] = 0 /\ keys[i] # cache
    /\ cache' = keys[i]
    /\ UNCHANGED <<month, made, keys, active, token, asked>>

Next ==
    \/ Tick
    \/ \E i \in Instances :
          \/ RotateKey(i) \/ Restart(i) \/ EmergencyKeyRotation(i) \/ IssueAccessToken(i)
          \/ \E t \in token : FetchJWKS(i, t)
Spec == Init /\ [][Next]_vars

-----------------------------------------------------------------------------
\* Every variable has its type, and an instance's active kid names a key.
TypeOK ==
    /\ month \in Months /\ made \in 0 .. MaxKeys
    /\ keys \in [Instances -> [Months -> 0 .. made]] /\ active \in [Instances -> 0 .. month]
    /\ token \subseteq Token /\ cache \in [Months -> 0 .. made]
    /\ \A i \in Instances : keys[i][active[i]] # 0
    /\ asked \in 0 .. MaxAsked
\* Until it expires, every instance verifies a token (RotatedKeyManager
\* keeps the keys it replaces).
TokenVerifies == \A t \in token, i \in Instances : Verifies(keys[i], t)
\* A service that knows a token's kid verifies it (GetJWKS).
CacheVerifies == \A t \in token : cache[t.kid] # 0 => Verifies(cache, t)
=============================================================================
