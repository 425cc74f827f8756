------------------------------ MODULE Session ------------------------------
(***************************************************************************)
(* Sessions, refresh tokens, access tokens and the session blacklist:      *)
(* internal/service/session (service.go, store.go, refresh.go) driven by   *)
(* the REST handlers for login, logout, branch switch, admin revocation    *)
(* and the OAuth2 token endpoint.                                          *)
(*                                                                         *)
(* Every Redis command is one atomic step; the handlers that issue several *)
(* of them interleave.  A handler's local variables live in h[p], which is *)
(* lost on a restart, while sess, rt and blExp are Redis keys and survive. *)
(***************************************************************************)
EXTENDS Naturals, FiniteSets

CONSTANTS
    Handlers,       \* concurrently running request handlers
    None,           \* no user, no address
    Users, IPs,     \* account ids and client addresses
    Ops,            \* the operations callers invoke in this instance
    Failures,       \* TRUE: a Redis command may return an error
    SessionTTL, RefreshTTL, BlacklistTTL, AccessTTL,
    Latency,        \* longest time a handler is in flight
    MaxSid, MaxTok, MaxTime      \* bounds on ids created and on the clock

AllOps == {"login", "logout", "switch", "admin", "delegate", "oauth",
           "validate", "refresh", "org", "restart"}

ASSUME SessionAssumption ==
    /\ Ops \subseteq AllOps
    /\ Failures \in BOOLEAN
    /\ None \notin Users \cup IPs
    /\ {SessionTTL, RefreshTTL, BlacklistTTL, AccessTTL} \subseteq Nat \ {0}
    /\ {Latency, MaxSid, MaxTok, MaxTime} \subseteq Nat

\* A blacklist entry outlives every token a handler already in flight can
\* still sign for the session (8h against 15 minutes plus a request).
ASSUME BlacklistOutlivesTokens == AccessTTL + Latency <= BlacklistTTL

VARIABLES
    now,        \* wall clock
    nextSid,    \* session ids below it have been generated
    nextTok,    \* refresh tokens below it have been generated
    sess,       \* Redis session:<id>; exp = 0 when deleted or never stored
    rt,         \* Redis refresh:<hash> and refresh_family:<id>
    blExp,      \* Redis blacklist_session:<id>: expiry, 0 if never added
    atoks,      \* access tokens delivered to clients
    h           \* the handlers

vars == <<now, nextSid, nextTok, sess, rt, blExp, atoks, h>>

Sids == 1..MaxSid
Toks == 1..MaxTok
\* An expiry the clock never reaches.
Forever == MaxTime + 1

\* SessionData: user, address, ExpiresAt in the JSON (dexp), key expiry (exp).
SessionRec == [user : Users \cup {None}, ip : IPs \cup {None},
               dexp : Nat, exp : Nat]
\* RefreshTokenData: flags holds UsedAt # nil and RevokedAt # nil.  parent is
\* the token this one was exchanged for (0 at login); it is a history field.
RefreshRec == [sid : Sids \cup {0}, fam : Toks \cup {0},
               flags : SUBSET {"used", "revoked"}, dexp : Nat, exp : Nat,
               parent : Toks \cup {0}]
AccessTok == [sid : Sids, user : Users, exp : Nat]

PCs == {"idle", "scan", "revoke", "blacklist", "create", "issue", "delegate",
        "store", "touch", "touchset", "drop", "reuse", "getsess", "mark",
        "markset", "family", "familyset"}
HandlerRec == [pc : PCs, op : AllOps \cup {"none"}, user : Users \cup {None},
               ip : IPs \cup {None}, sid : Sids \cup {0}, tok : Toks \cup {0},
               cur : Sids \cup {0}, todo : SUBSET Sids, fam : SUBSET Toks,
               seen : SUBSET {"used", "revoked"}, start : Nat]

Idle == [pc |-> "idle", op |-> "none", user |-> None, ip |-> None, sid |-> 0,
         tok |-> 0, cur |-> 0, todo |-> {}, fam |-> {}, seen |-> {},
         start |-> 0]

-----------------------------------------------------------------------------
(* What a Redis read or a token check returns now.                         *)

SessionLive(s) == s \in Sids /\ sess[s].exp > now

RefreshLive(t) == t \in Toks /\ rt[t].exp > now

SessionRevoked(s) == blExp[s] > now

\* Mutant: the blacklist is not consulted.
VerifySignatureOnly(a) == now < a.exp

\* Service.VerifyAccessToken: the signature and expiry, then the blacklist.
\* The session record itself is not consulted.
VerifyAccessToken(a) == now < a.exp /\ ~SessionRevoked(a.sid)

UserSessions(u) == {s \in Sids : SessionLive(s) /\ sess[s].user = u}

FamilyOf(f) == {t \in Toks : rt[t].fam = f}

-----------------------------------------------------------------------------
Init ==
    /\ now = 1
    /\ nextSid = 1
    /\ nextTok = 1
    /\ sess = [s \in Sids |-> [user |-> None, ip |-> None, dexp |-> 0,
                               exp |-> 0]]
    /\ rt = [t \in Toks |-> [sid |-> 0, fam |-> 0, flags |-> {}, dexp |-> 0,
                             exp |-> 0, parent |-> 0]]
    /\ blExp = [s \in Sids |-> 0]
    /\ atoks = {}
    /\ h = [p \in Handlers |-> Idle]

\* Handler p begins operation op at pc with the locals f.
Begin(p, op, f) ==
    /\ op \in Ops
    /\ h[p].pc = "idle"
    /\ h' = [h EXCEPT ![p] = [f EXCEPT !.op = op, !.start = now]]

Goto(p, pc) == h' = [h EXCEPT ![p].pc = pc]

Finish(p) == h' = [h EXCEPT ![p] = Idle]

\* DEL session:<id>.
Deleted(s) == [sess EXCEPT ![s].exp = 0]

-----------------------------------------------------------------------------
(* Entry points.  Reads that only decide the outcome are part of the step. *)

\* HandleLogin, once the password has been accepted.
Login(p, u, i) ==
    /\ Begin(p, "login", [Idle EXCEPT !.pc = "scan", !.user = u, !.ip = i])
    /\ UNCHANGED <<now, nextSid, nextTok, sess, rt, blExp, atoks>>

HandleLogout(p, a) ==
    /\ VerifyAccessToken(a)
    /\ Begin(p, "logout", [Idle EXCEPT !.pc = "scan", !.user = a.user,
                                       !.sid = a.sid])
    /\ UNCHANGED <<now, nextSid, nextTok, sess, rt, blExp, atoks>>

\* handleSwitchBranch, once the branch assignment has been found.
SwitchBranch(p, a, i) ==
    /\ VerifyAccessToken(a)
    /\ Begin(p, "switch", [Idle EXCEPT !.pc = "revoke", !.user = a.user,
                                       !.ip = i, !.todo = {a.sid}])
    /\ UNCHANGED <<now, nextSid, nextTok, sess, rt, blExp, atoks>>

\* handleRevokeSession: 404 when the session is gone.
AdminRevoke(p, s) ==
    /\ SessionLive(s)
    /\ Begin(p, "admin", [Idle EXCEPT !.pc = "revoke", !.todo = {s}])
    /\ UNCHANGED <<now, nextSid, nextTok, sess, rt, blExp, atoks>>

\* handleDelegatedTokenExchange.
Delegate(p, a) ==
    /\ VerifyAccessToken(a)
    /\ Begin(p, "delegate", [Idle EXCEPT !.pc = "delegate", !.user = a.user,
                                         !.sid = a.sid])
    /\ UNCHANGED <<now, nextSid, nextTok, sess, rt, blExp, atoks>>

\* ExchangeCodeForTokens signs the access token for a new session id; the
\* session is stored afterwards.
OAuthIssue(p, u) ==
    /\ nextSid \in Sids
    /\ nextSid' = nextSid + 1
    /\ Begin(p, "oauth", [Idle EXCEPT !.pc = "store", !.user = u,
                                      !.sid = nextSid])
    /\ UNCHANGED <<now, nextTok, sess, rt, blExp, atoks>>

\* ValidateSession: an address mismatch deletes the session.
ValidateSession(p, s, i) ==
    /\ SessionLive(s)
    /\ Begin(p, "validate",
             IF sess[s].ip = i THEN [Idle EXCEPT !.pc = "touch", !.sid = s]
                               ELSE [Idle EXCEPT !.pc = "drop", !.todo = {s}])
    /\ UNCHANGED <<now, nextSid, nextTok, sess, rt, blExp, atoks>>

\* RefreshTokens up to the RevokedAt check.
RefreshTokens(p, t, i) ==
    /\ RefreshLive(t)
    /\ Begin(p, "refresh",
             IF "revoked" \in rt[t].flags
             THEN [Idle EXCEPT !.pc = "family", !.fam = FamilyOf(rt[t].fam)]
             ELSE [Idle EXCEPT !.pc = "reuse", !.ip = i, !.tok = t,
                               !.sid = rt[t].sid])
    /\ UNCHANGED <<now, nextSid, nextTok, sess, rt, blExp, atoks>>

\* RevokeAllOrgSessions: DeleteByOrg over the keys its SCAN returns.
RevokeAllOrgSessions(p) ==
    /\ \E s \in Sids : SessionLive(s)
    /\ Begin(p, "org", [Idle EXCEPT !.pc = "drop",
                                    !.todo = {s \in Sids : SessionLive(s)}])
    /\ UNCHANGED <<now, nextSid, nextTok, sess, rt, blExp, atoks>>

-----------------------------------------------------------------------------
(* RevokeAllUserSessions and RevokeSession.                                *)

\* Where the revocation loop goes when todo is empty.
AfterRevoke(op) == IF op \in {"login", "switch"} THEN "create" ELSE "idle"

RevokeNext(p, todo) ==
    LET pc == IF todo # {} THEN "revoke" ELSE AfterRevoke(h[p].op) IN
    h' = [h EXCEPT ![p] = IF pc = "idle" THEN Idle
                          ELSE [@ EXCEPT !.pc = pc, !.todo = todo]]

\* GetIDsByUser.  On an error login carries on and logout falls back to the
\* session of the presented token.
ScanUser(p) ==
    /\ h[p].pc = "scan"
    /\ \/ RevokeNext(p, UserSessions(h[p].user))
       \/ /\ Failures
          /\ RevokeNext(p, IF h[p].op = "logout" THEN {h[p].sid} ELSE {})
    /\ UNCHANGED <<now, nextSid, nextTok, sess, rt, blExp, atoks>>

\* Mutant: returns after the Delete.
RevokeDeleteOnly(p) ==
    /\ h[p].pc = "revoke"
    /\ \E s \in h[p].todo : sess' = Deleted(s) /\ RevokeNext(p, h[p].todo \ {s})
    /\ UNCHANGED <<now, nextSid, nextTok, rt, blExp, atoks>>

RevokeDelete(p) ==
    /\ h[p].pc = "revoke"
    /\ \E s \in h[p].todo :
          /\ sess' = Deleted(s)
          /\ h' = [h EXCEPT ![p].pc = "blacklist", ![p].cur = s,
                            ![p].todo = @ \ {s}]
    /\ UNCHANGED <<now, nextSid, nextTok, rt, blExp, atoks>>

\* A failed Delete skips AddSession; only RevokeAllUserSessions goes on.
RevokeDeleteFails(p) ==
    /\ Failures
    /\ h[p].pc = "revoke"
    /\ \E s \in h[p].todo :
          IF h[p].op \in {"login", "logout"} THEN RevokeNext(p, h[p].todo \ {s})
                                             ELSE Finish(p)
    /\ UNCHANGED <<now, nextSid, nextTok, sess, rt, blExp, atoks>>

\* Mutant: the entry lives as long as one access token.
BlacklistTooShort(p) ==
    /\ h[p].pc = "blacklist"
    /\ blExp' = [blExp EXCEPT ![h[p].cur] = now + AccessTTL]
    /\ RevokeNext(p, h[p].todo)
    /\ UNCHANGED <<now, nextSid, nextTok, sess, rt, atoks>>

\* AddSession; its error is ignored.
RevokeBlacklist(p) ==
    /\ h[p].pc = "blacklist"
    /\ \/ blExp' = [blExp EXCEPT ![h[p].cur] = now + BlacklistTTL]
       \/ Failures /\ UNCHANGED blExp
    /\ RevokeNext(p, h[p].todo)
    /\ UNCHANGED <<now, nextSid, nextTok, sess, rt, atoks>>

-----------------------------------------------------------------------------
(* CreateSession, and the tail of RefreshTokens.                           *)

\* sessionStore.Create under a new session id.
CreateSession(p) ==
    /\ h[p].pc = "create"
    /\ nextSid \in Sids
    /\ nextSid' = nextSid + 1
    /\ sess' = [sess EXCEPT ![nextSid] =
                  [user |-> h[p].user, ip |-> h[p].ip,
                   dexp |-> now + SessionTTL, exp |-> now + SessionTTL]]
    /\ h' = [h EXCEPT ![p].pc = "issue", ![p].sid = nextSid]
    /\ UNCHANGED <<now, nextTok, rt, blExp, atoks>>

\* IssueAccessToken and refreshTokenStore.Create with a new family; both
\* tokens are then returned to the caller.
IssueTokens(p) ==
    /\ h[p].pc = "issue"
    /\ nextTok \in Toks
    /\ nextTok' = nextTok + 1
    /\ atoks' = atoks \cup {[sid |-> h[p].sid, user |-> h[p].user,
                             exp |-> now + AccessTTL]}
    /\ rt' = [rt EXCEPT ![nextTok] =
                [sid |-> h[p].sid, fam |-> nextTok, flags |-> {},
                 dexp |-> now + RefreshTTL, exp |-> now + RefreshTTL,
                 parent |-> h[p].tok]]
    /\ Finish(p)
    /\ UNCHANGED <<now, nextSid, sess, blExp>>

\* Mutant: a failed refresh gives the token back.
UnmarkOnFailure(p) ==
    /\ Failures
    /\ h[p].pc \in {"create", "issue"}
    /\ rt' = IF h[p].tok \in Toks THEN [rt EXCEPT ![h[p].tok].flags = @ \ {"used"}]
                                  ELSE rt
    /\ Finish(p)
    /\ UNCHANGED <<now, nextSid, nextTok, sess, blExp, atoks>>

\* An error the request is not prepared for ends it; what was stored stays.
RequestFails(p) ==
    /\ Failures
    /\ h[p].pc \in {"create", "issue", "reuse", "getsess", "touch", "touchset"}
    /\ Finish(p)
    /\ UNCHANGED <<now, nextSid, nextTok, sess, rt, blExp, atoks>>

\* IssueDelegatedAccessToken after the verification: same session id.
IssueDelegated(p) ==
    /\ h[p].pc = "delegate"
    /\ atoks' = atoks \cup {[sid |-> h[p].sid, user |-> h[p].user,
                             exp |-> now + AccessTTL]}
    /\ Finish(p)
    /\ UNCHANGED <<now, nextSid, nextTok, sess, rt, blExp>>

\* StoreSession; its error is ignored and the signed token is returned.
StoreSession(p) ==
    /\ h[p].pc = "store"
    /\ \/ sess' = [sess EXCEPT ![h[p].sid] =
                     [user |-> h[p].user, ip |-> None,
                      dexp |-> now + SessionTTL, exp |-> now + SessionTTL]]
       \/ Failures /\ UNCHANGED sess
    /\ atoks' = atoks \cup {[sid |-> h[p].sid, user |-> h[p].user,
                             exp |-> h[p].start + AccessTTL]}
    /\ Finish(p)
    /\ UNCHANGED <<now, nextSid, nextTok, rt, blExp>>

-----------------------------------------------------------------------------
(* Store.Update as called by UpdateLastUsed, and plain deletions.          *)

UpdateGet(p) ==
    /\ h[p].pc = "touch"
    /\ IF SessionLive(h[p].sid) THEN Goto(p, "touchset") ELSE Finish(p)
    /\ UNCHANGED <<now, nextSid, nextTok, sess, rt, blExp, atoks>>

\* SET of the record read by UpdateGet, whether or not the key still exists.
\* user, ip and dexp never change, so the stale copy is sess[sid] itself.
UpdateSet(p) ==
    /\ h[p].pc = "touchset"
    /\ LET s == h[p].sid IN
       sess' = [sess EXCEPT ![s].exp = IF sess[s].dexp > now THEN sess[s].dexp
                                       ELSE now + SessionTTL]
    /\ Finish(p)
    /\ UNCHANGED <<now, nextSid, nextTok, rt, blExp, atoks>>

\* sessionStore.Delete without a blacklist entry; its error is ignored.
DropSession(p) ==
    /\ h[p].pc = "drop"
    /\ \E s \in h[p].todo :
          /\ sess' = Deleted(s) \/ (Failures /\ sess' = sess)
          /\ IF h[p].todo = {s} THEN Finish(p)
                                ELSE h' = [h EXCEPT ![p].todo = @ \ {s}]
    /\ UNCHANGED <<now, nextSid, nextTok, rt, blExp, atoks>>

-----------------------------------------------------------------------------
(* RefreshTokens after the RevokedAt check.                                *)

\* IsReuse reads the token again.
CheckReuse(p) ==
    LET t == h[p].tok IN
    /\ h[p].pc = "reuse"
    /\ IF RefreshLive(t) /\ "used" \in rt[t].flags
       THEN h' = [h EXCEPT ![p].pc = "family", ![p].todo = {h[p].sid},
                           ![p].fam = FamilyOf(rt[t].fam)]
       ELSE Goto(p, "getsess")
    /\ UNCHANGED <<now, nextSid, nextTok, sess, rt, blExp, atoks>>

\* Mutant: the address is not compared.
GetSessionAnyAddress(p) ==
    LET s == h[p].sid IN
    /\ h[p].pc = "getsess"
    /\ IF SessionLive(s)
       THEN h' = [h EXCEPT ![p].pc = "mark", ![p].user = sess[s].user]
       ELSE Finish(p)
    /\ UNCHANGED <<now, nextSid, nextTok, sess, rt, blExp, atoks>>

\* The session must exist and have the caller's address.
GetTokenSession(p) ==
    LET s == h[p].sid IN
    /\ h[p].pc = "getsess"
    /\ CASE ~SessionLive(s) -> Finish(p)
         [] SessionLive(s) /\ sess[s].ip # h[p].ip ->
              h' = [h EXCEPT ![p].pc = "drop", ![p].todo = {s}]
         [] OTHER -> h' = [h EXCEPT ![p].pc = "mark", ![p].user = sess[s].user]
    /\ UNCHANGED <<now, nextSid, nextTok, sess, rt, blExp, atoks>>

\* MarkUsed: GET, then SET of that copy with UsedAt; errors are ignored.
MarkUsedGet(p) ==
    LET t == h[p].tok IN
    /\ h[p].pc = "mark"
    /\ IF RefreshLive(t)
       THEN h' = [h EXCEPT ![p].pc = "markset", ![p].seen = rt[t].flags]
       ELSE Goto(p, "create")
    /\ UNCHANGED <<now, nextSid, nextTok, sess, rt, blExp, atoks>>

\* Mutant: the copy is written back without UsedAt.
MarkUsedUnset(p) ==
    /\ h[p].pc = "markset"
    /\ Goto(p, "create")
    /\ UNCHANGED <<now, nextSid, nextTok, sess, rt, blExp, atoks>>

\* A SET whose computed TTL is not positive stores the key without expiry.
MarkUsedSet(p) ==
    LET t == h[p].tok IN
    /\ h[p].pc = "markset"
    /\ \/ rt' = [rt EXCEPT ![t].flags = h[p].seen \cup {"used"},
                           ![t].exp = IF rt[t].dexp > now THEN rt[t].dexp
                                                          ELSE Forever]
       \/ Failures /\ UNCHANGED rt
    /\ Goto(p, "create")
    /\ UNCHANGED <<now, nextSid, nextTok, sess, blExp, atoks>>

FamilyNext(p, fam) ==
    h' = [h EXCEPT ![p] = IF fam # {} THEN [@ EXCEPT !.pc = "family", !.fam = fam]
                          ELSE IF @.todo # {} THEN [@ EXCEPT !.pc = "drop", !.fam = {}]
                          ELSE Idle]

\* RevokeFamily, one member: GET, skip it if gone or revoked ...
RevokeFamilyGet(p) ==
    /\ h[p].pc = "family"
    /\ \E t \in h[p].fam :
          IF RefreshLive(t) /\ "revoked" \notin rt[t].flags
          THEN h' = [h EXCEPT ![p].pc = "familyset", ![p].tok = t,
                              ![p].seen = rt[t].flags]
          ELSE FamilyNext(p, h[p].fam \ {t})
    /\ UNCHANGED <<now, nextSid, nextTok, sess, rt, blExp, atoks>>

\* ... then SET of that copy with RevokedAt, unless ExpiresAt has passed.
RevokeFamilySet(p) ==
    LET t == h[p].tok IN
    /\ h[p].pc = "familyset"
    /\ \/ rt' = IF rt[t].dexp > now
                THEN [rt EXCEPT ![t].flags = h[p].seen \cup {"revoked"},
                                ![t].exp = rt[t].dexp]
                ELSE rt
       \/ Failures /\ UNCHANGED rt
    /\ FamilyNext(p, h[p].fam \ {t})
    /\ UNCHANGED <<now, nextSid, nextTok, sess, blExp, atoks>>

-----------------------------------------------------------------------------
\* The signing keys are kept in memory: after a restart no token issued
\* before verifies, and requests in flight are gone.
Restart ==
    /\ "restart" \in Ops
    /\ atoks # {} \/ \E p \in Handlers : h[p].pc # "idle"
    /\ atoks' = {}
    /\ h' = [p \in Handlers |-> Idle]
    /\ UNCHANGED <<now, nextSid, nextTok, sess, rt, blExp>>

\* Server and Redis timeouts bound how long a request is in flight.
Tick ==
    /\ now < MaxTime
    /\ \A p \in Handlers : h[p].pc # "idle" => now < h[p].start + Latency
    /\ now' = now + 1
    /\ UNCHANGED <<nextSid, nextTok, sess, rt, blExp, atoks, h>>

Request(p) ==
    \/ \E u \in Users, i \in IPs : Login(p, u, i)
    \/ \E u \in Users : OAuthIssue(p, u)
    \/ \E a \in atoks : HandleLogout(p, a) \/ Delegate(p, a)
    \/ \E a \in atoks, i \in IPs : SwitchBranch(p, a, i)
    \/ \E s \in Sids : AdminRevoke(p, s)
    \/ \E s \in Sids, i \in IPs : ValidateSession(p, s, i)
    \/ \E t \in Toks, i \in IPs : RefreshTokens(p, t, i)
    \/ RevokeAllOrgSessions(p)

Step(p) ==
    \/ ScanUser(p) \/ RevokeDelete(p) \/ RevokeDeleteFails(p)
    \/ RevokeBlacklist(p)
    \/ CreateSession(p) \/ IssueTokens(p) \/ RequestFails(p)
    \/ IssueDelegated(p) \/ StoreSession(p)
    \/ UpdateGet(p) \/ UpdateSet(p) \/ DropSession(p)
    \/ CheckReuse(p) \/ GetTokenSession(p)
    \/ MarkUsedGet(p) \/ MarkUsedSet(p)
    \/ RevokeFamilyGet(p) \/ RevokeFamilySet(p)

Next == Tick \/ Restart \/ \E p \in Handlers : Request(p) \/ Step(p)

Spec == Init /\ [][Next]_vars

-----------------------------------------------------------------------------
\* The variables range over what the Redis values and the handlers can hold.
TypeOK ==
    /\ now \in Nat
    /\ nextSid \in Nat \ {0}
    /\ nextTok \in Nat \ {0}
    /\ sess \in [Sids -> SessionRec]
    /\ rt \in [Toks -> RefreshRec]
    /\ blExp \in [Sids -> Nat]
    /\ atoks \subseteq AccessTok
    /\ h \in [Handlers -> HandlerRec]

\* RevokeSession is final: once a session has been blacklisted no access token
\* of it ever verifies again, tokens signed by requests that were in flight at
\* that moment included, and even after the blacklist entry itself expired.
RevocationIsFinal ==
    \A a \in atoks : blExp[a.sid] > 0 => ~VerifyAccessToken(a)

\* Only generated ids are in use, and a stored record is complete.
IdsGenerated ==
    /\ \A s \in Sids : blExp[s] > 0 \/ sess[s].exp > 0 => s < nextSid
    /\ \A s \in Sids : sess[s].exp > 0 => sess[s].user \in Users
    /\ \A t \in Toks : t < nextTok => rt[t].sid \in Sids /\ rt[t].fam # 0
    /\ \A t \in Toks : rt[t].exp > 0 \/ rt[t].fam # 0 \/ rt[t].flags # {}
                         => t < nextTok
    /\ \A t \in Toks : rt[t].sid < nextSid
    /\ \A a \in atoks : a.sid < nextSid

\* The locals f of a handler that its program counter says it will use.
Ready(f) ==
    /\ f.sid < nextSid /\ f.cur < nextSid /\ f.tok < nextTok
    /\ \A s \in f.todo : s < nextSid
    /\ \A t \in f.fam : t < nextTok
    /\ f.op \in {"login", "logout", "switch"} => f.user \in Users
    /\ f.pc \in {"mark", "markset", "create", "issue", "delegate", "store"}
          => f.user \in Users
    /\ f.op = "logout" => f.sid \in Sids
    /\ f.pc \in {"issue", "delegate", "store", "touch", "touchset", "reuse",
                 "getsess"} => f.sid \in Sids
    /\ f.pc \in {"reuse", "getsess", "mark", "markset", "familyset"}
          => f.tok \in Toks
    /\ f.pc = "blacklist" => f.cur \in Sids
    /\ f.pc = "touchset" => sess[f.sid].user \in Users
    /\ f.pc # "idle" => f.start <= now /\ now <= f.start + Latency

\* A request about to sign a token of a blacklisted session will sign one
\* that expires before the blacklist entry.
Covered(f) ==
    (f.pc \in {"issue", "delegate", "store"} /\ blExp[f.sid] > 0)
        => f.start + Latency + AccessTTL <= blExp[f.sid]

\* No token delivered for a blacklisted session outlives the entry.
TokensCovered ==
    \A a \in atoks : /\ a.exp <= now + AccessTTL
                     /\ blExp[a.sid] > 0 => a.exp <= blExp[a.sid]

\* Inductive: what makes RevocationIsFinal hold from one step to the next.  A
\* handler of VerifyAccessToken's callers that passed the check before the
\* revocation is still covered by the blacklist entry's lifetime.
SessionInv ==
    /\ TypeOK
    /\ IdsGenerated
    /\ TokensCovered
    /\ \A p \in Handlers : Ready(h[p]) /\ Covered(h[p])

\* A refresh token that has been marked used or revoked stays spent: MarkUsed
\* and RevokeFamily write back stale copies of the record and may lose each
\* other's flag, but never leave the token without one.
SpentIsForever ==
    [][\A t \in Toks : rt[t].flags # {} => rt'[t].flags # {}]_vars

\* A chain of refreshes never changes account or client address: the session
\* a refresh creates has the user and address of the session it replaces.
RefreshKeepsBinding ==
    \A t \in Toks : rt[t].parent # 0 =>
        LET new == sess[rt[t].sid]
            old == sess[rt[rt[t].parent].sid] IN
        new.user = old.user /\ new.ip = old.ip

\* With one request at a time and no failures, a refresh token is exchanged
\* once: RefreshTokens marks it used before it creates the next one, and finds
\* the mark for as long as the token is stored.
RefreshOnce ==
    \A t, u \in Toks : rt[t].parent = rt[u].parent /\ rt[t].parent # 0 => t = u

\* The tokens that verify and the sessions revoked, as the caller of
\* VerifyAccessToken sees them.
Accepted == {a \in atoks : VerifyAccessToken(a)}
Ended == {s \in Sids : blExp[s] > 0}
Promise == INSTANCE Acceptance WITH Sessions <- Sids, accepted <- Accepted, ended <- Ended

\* Session implements Acceptance: every step of a request issues a token of a
\* session not revoked, revokes one session with all its tokens, lets tokens
\* run out, or changes nothing a caller of VerifyAccessToken can tell.
KeepsPromise == Promise!Spec

\* Where sessions end only through RevokeSession: a token whose session record
\* was deleted still verifies only while the request that deleted it has not
\* yet written the blacklist entry.
OrphanOnlyInFlight ==
    \A a \in atoks : (VerifyAccessToken(a) /\ sess[a.sid].exp = 0)
        => \E p \in Handlers : h[p].pc = "blacklist" /\ h[p].cur = a.sid

-----------------------------------------------------------------------------
(* What comments and documents say, and the code does not do.              *)

AllIdle == \A p \in Handlers : h[p].pc = "idle"

\* HandleLogin: "Single active session per user".
SingleActiveSession ==
    AllIdle => \A u \in Users : Cardinality(UserSessions(u)) <= 1

=============================================================================
