--------------------------- MODULE SessionProofs ---------------------------
(***************************************************************************)
(* Proofs about Session for every number of handlers, users, addresses and *)
(* ids, every clock bound and every choice of the lifetimes that satisfies *)
(* BlacklistOutlivesTokens, with and without Redis failures.               *)
(***************************************************************************)
EXTENDS Session, TLAPS

Shared == <<now, nextSid, nextTok, sess, rt, blExp, atoks>>

USE SessionAssumption, BlacklistOutlivesTokens

\* An idle handler promises nothing, as long as ids start at 1.
LEMMA IdleIsReady == ASSUME 0 < nextSid, 0 < nextTok PROVE Ready(Idle) /\ Covered(Idle)
<1> DEFINE f == Idle
<1>1. /\ f.pc = "idle" /\ f.op = "none" /\ f.sid = 0 /\ f.cur = 0 /\ f.tok = 0
      /\ f.todo = {} /\ f.fam = {}
  BY DEF Idle
<1> HIDE DEF f
<1>2. Ready(f)
  BY <1>1 DEF Ready
<1>3. Covered(f)
  BY <1>1 DEF Covered
<1> QED BY <1>2, <1>3 DEF f

\* The idle handler record is well typed and promises nothing.
LEMMA IdleReady == ASSUME SessionInv PROVE Idle \in HandlerRec /\ Ready(Idle) /\ Covered(Idle)
<1>1. Idle \in HandlerRec
  BY DEF Idle, HandlerRec, PCs, AllOps
<1>2. 0 < nextSid /\ 0 < nextTok
  BY DEF SessionInv, TypeOK
<1> QED BY <1>1, <1>2, IdleIsReady

\* A step that only moves one handler to a record that is ready and covered
\* preserves the invariant.
LEMMA HandlerStep ==
    ASSUME SessionInv, NEW p \in Handlers, NEW f \in HandlerRec,
           Ready(f), Covered(f), h' = [h EXCEPT ![p] = f], UNCHANGED Shared
    PROVE  SessionInv'
<1>1. TypeOK'
  BY DEF SessionInv, TypeOK, Shared, Sids, Toks
<1>2. IdsGenerated' /\ TokensCovered'
  BY SMTT(60) DEF SessionInv, IdsGenerated, TokensCovered, Shared, Sids, Toks
<1>3. ASSUME NEW q \in Handlers PROVE (Ready(h[q]) /\ Covered(h[q]))'
  <2>1. h'[q] = IF q = p THEN f ELSE h[q]
    BY DEF SessionInv, TypeOK
  <2>2. Ready(h'[q]) /\ Covered(h'[q])
    BY <2>1 DEF SessionInv
  <2> QED BY <2>2 DEF Ready, Covered, Shared, Sids, Toks
<1> QED BY <1>1, <1>2, <1>3 DEF SessionInv

\* The request ends.
LEMMA FinishStep ==
    ASSUME SessionInv, NEW p \in Handlers, Finish(p), UNCHANGED Shared
    PROVE  SessionInv'
BY ZenonT(60), IdleReady, HandlerStep DEF Finish

\* A request starts: its record has to be ready for the program counter it
\* starts at.
LEMMA BeginStep ==
    ASSUME SessionInv, NEW p \in Handlers, NEW op \in AllOps, NEW f \in HandlerRec,
           Begin(p, op, f), UNCHANGED Shared,
           Ready([f EXCEPT !.op = op, !.start = now]),
           Covered([f EXCEPT !.op = op, !.start = now])
    PROVE  SessionInv'
<1> DEFINE g == [f EXCEPT !.op = op, !.start = now]
<1>1. g \in HandlerRec
  BY ZenonT(60) DEF HandlerRec, SessionInv, TypeOK
<1>2. h' = [h EXCEPT ![p] = g]
  BY DEF Begin
<1> QED BY ZenonT(60), <1>1, <1>2, HandlerStep

\* A token that verifies belongs to a session that was never blacklisted.
LEMMA VerifiedNotRevoked ==
    ASSUME SessionInv, NEW a \in atoks, VerifyAccessToken(a)
    PROVE  /\ a.sid \in Sids /\ a.sid < nextSid /\ a.user \in Users
           /\ blExp[a.sid] = 0
<1>1. a.sid \in Sids /\ a.user \in Users /\ a.exp \in Nat /\ now \in Nat
  BY DEF SessionInv, TypeOK, AccessTok
<1>2. blExp[a.sid] \in Nat
  BY <1>1 DEF SessionInv, TypeOK
<1> QED BY <1>1, <1>2 DEF SessionInv, TokensCovered, IdsGenerated,
                         VerifyAccessToken, SessionRevoked

LEMMA LoginStep ==
    ASSUME SessionInv, NEW p \in Handlers, NEW u \in Users, NEW i \in IPs, Login(p, u, i)
    PROVE  SessionInv'
<1> DEFINE f == [Idle EXCEPT !.pc = "scan", !.user = u, !.ip = i]
<1> USE DEF Idle, HandlerRec, PCs, AllOps
<1>1. Begin(p, "login", f) /\ UNCHANGED Shared
  BY DEF Login, Shared
<1>2. f \in HandlerRec
  BY ZenonT(60) DEF Login
<1>3. Ready([f EXCEPT !.op = "login", !.start = now])
  BY DEF Login, Ready, SessionInv, TypeOK
<1>4. Covered([f EXCEPT !.op = "login", !.start = now])
  BY DEF Login, Covered
<1> HIDE DEF f, Idle, HandlerRec, PCs
<1> QED BY ZenonT(60), <1>1, <1>2, <1>3, <1>4, BeginStep

LEMMA HandleLogoutStep ==
    ASSUME SessionInv, NEW p \in Handlers, NEW a \in atoks, HandleLogout(p, a)
    PROVE  SessionInv'
<1> DEFINE f == [Idle EXCEPT !.pc = "scan", !.user = a.user, !.sid = a.sid]
<1> USE DEF Idle, HandlerRec, PCs, AllOps
<1>1. Begin(p, "logout", f) /\ UNCHANGED Shared
  BY DEF HandleLogout, Shared
<1>2. f \in HandlerRec
  BY ZenonT(60), VerifiedNotRevoked DEF HandleLogout
<1>3. Ready([f EXCEPT !.op = "logout", !.start = now])
  BY VerifiedNotRevoked DEF HandleLogout, Ready, SessionInv, TypeOK
<1>4. Covered([f EXCEPT !.op = "logout", !.start = now])
  BY VerifiedNotRevoked DEF HandleLogout, Covered
<1> HIDE DEF f, Idle, HandlerRec, PCs
<1> QED BY ZenonT(60), <1>1, <1>2, <1>3, <1>4, BeginStep

LEMMA SwitchBranchStep ==
    ASSUME SessionInv, NEW p \in Handlers, NEW a \in atoks, NEW i \in IPs, SwitchBranch(p, a, i)
    PROVE  SessionInv'
<1> DEFINE f == [Idle EXCEPT !.pc = "revoke", !.user = a.user, !.ip = i, !.todo = {a.sid}]
<1> USE DEF Idle, HandlerRec, PCs, AllOps
<1>1. Begin(p, "switch", f) /\ UNCHANGED Shared
  BY DEF SwitchBranch, Shared
<1>2. f \in HandlerRec
  BY ZenonT(60), VerifiedNotRevoked DEF SwitchBranch
<1>3. Ready([f EXCEPT !.op = "switch", !.start = now])
  BY VerifiedNotRevoked DEF SwitchBranch, Ready, SessionInv, TypeOK
<1>4. Covered([f EXCEPT !.op = "switch", !.start = now])
  BY VerifiedNotRevoked DEF SwitchBranch, Covered
<1> HIDE DEF f, Idle, HandlerRec, PCs
<1> QED BY ZenonT(60), <1>1, <1>2, <1>3, <1>4, BeginStep

LEMMA DelegateStep ==
    ASSUME SessionInv, NEW p \in Handlers, NEW a \in atoks, Delegate(p, a)
    PROVE  SessionInv'
<1> DEFINE f == [Idle EXCEPT !.pc = "delegate", !.user = a.user, !.sid = a.sid]
<1> USE DEF Idle, HandlerRec, PCs, AllOps
<1>1. Begin(p, "delegate", f) /\ UNCHANGED Shared
  BY DEF Delegate, Shared
<1>2. f \in HandlerRec
  BY ZenonT(60), VerifiedNotRevoked DEF Delegate
<1>3. Ready([f EXCEPT !.op = "delegate", !.start = now])
  BY VerifiedNotRevoked DEF Delegate, Ready, SessionInv, TypeOK
<1>4. Covered([f EXCEPT !.op = "delegate", !.start = now])
  BY VerifiedNotRevoked DEF Delegate, Covered
<1> HIDE DEF f, Idle, HandlerRec, PCs
<1> QED BY ZenonT(60), <1>1, <1>2, <1>3, <1>4, BeginStep

LEMMA AdminRevokeStep ==
    ASSUME SessionInv, NEW p \in Handlers, NEW s \in Sids, AdminRevoke(p, s)
    PROVE  SessionInv'
<1> DEFINE f == [Idle EXCEPT !.pc = "revoke", !.todo = {s}]
<1> USE DEF Idle, HandlerRec, PCs, AllOps
<1>1. Begin(p, "admin", f) /\ UNCHANGED Shared
  BY DEF AdminRevoke, Shared
<1>2. f \in HandlerRec
  BY ZenonT(60) DEF AdminRevoke
<1>3. Ready([f EXCEPT !.op = "admin", !.start = now])
  BY DEF AdminRevoke, Ready, SessionInv, TypeOK, IdsGenerated, SessionLive, SessionRec
<1>4. Covered([f EXCEPT !.op = "admin", !.start = now])
  BY DEF AdminRevoke, Covered
<1> HIDE DEF f, Idle, HandlerRec, PCs
<1> QED BY ZenonT(60), <1>1, <1>2, <1>3, <1>4, BeginStep

LEMMA ValidateSessionStep ==
    ASSUME SessionInv, NEW p \in Handlers, NEW s \in Sids, NEW i \in IPs, ValidateSession(p, s, i)
    PROVE  SessionInv'
<1> DEFINE f == IF sess[s].ip = i THEN [Idle EXCEPT !.pc = "touch", !.sid = s]
                   ELSE [Idle EXCEPT !.pc = "drop", !.todo = {s}]
<1> USE DEF Idle, HandlerRec, PCs, AllOps
<1>1. Begin(p, "validate", f) /\ UNCHANGED Shared
  BY DEF ValidateSession, Shared
<1>2. f \in HandlerRec
  BY ZenonT(60) DEF ValidateSession
<1>3. Ready([f EXCEPT !.op = "validate", !.start = now])
  BY DEF ValidateSession, Ready, SessionInv, TypeOK, IdsGenerated, SessionLive, SessionRec
<1>4. Covered([f EXCEPT !.op = "validate", !.start = now])
  BY DEF ValidateSession, Covered
<1> HIDE DEF f, Idle, HandlerRec, PCs
<1> QED BY ZenonT(60), <1>1, <1>2, <1>3, <1>4, BeginStep

LEMMA RevokeAllOrgSessionsStep ==
    ASSUME SessionInv, NEW p \in Handlers, RevokeAllOrgSessions(p)
    PROVE  SessionInv'
<1> DEFINE f == [Idle EXCEPT !.pc = "drop", !.todo = {s \in Sids : SessionLive(s)}]
<1> USE DEF Idle, HandlerRec, PCs, AllOps
<1>1. Begin(p, "org", f) /\ UNCHANGED Shared
  BY DEF RevokeAllOrgSessions, Shared
<1>2. f \in HandlerRec
  BY ZenonT(60) DEF RevokeAllOrgSessions
<1>3. Ready([f EXCEPT !.op = "org", !.start = now])
  BY DEF RevokeAllOrgSessions, Ready, SessionInv, TypeOK, IdsGenerated, SessionLive, SessionRec
<1>4. Covered([f EXCEPT !.op = "org", !.start = now])
  BY DEF RevokeAllOrgSessions, Covered
<1> HIDE DEF f, Idle, HandlerRec, PCs
<1> QED BY ZenonT(60), <1>1, <1>2, <1>3, <1>4, BeginStep

LEMMA RefreshTokensStep ==
    ASSUME SessionInv, NEW p \in Handlers, NEW t \in Toks, NEW i \in IPs, RefreshTokens(p, t, i)
    PROVE  SessionInv'
<1> DEFINE f == IF "revoked" \in rt[t].flags
             THEN [Idle EXCEPT !.pc = "family", !.fam = FamilyOf(rt[t].fam)]
             ELSE [Idle EXCEPT !.pc = "reuse", !.ip = i, !.tok = t,
                               !.sid = rt[t].sid]
<1> USE DEF Idle, HandlerRec, PCs, AllOps
<1>1. Begin(p, "refresh", f) /\ UNCHANGED Shared
  BY DEF RefreshTokens, Shared
<1>2. f \in HandlerRec
  BY ZenonT(60) DEF RefreshTokens, RefreshLive, FamilyOf, SessionInv, IdsGenerated, TypeOK, RefreshRec
<1>3. Ready([f EXCEPT !.op = "refresh", !.start = now])
  BY SMTT(60) DEF RefreshTokens, Ready, SessionInv, TypeOK, IdsGenerated, RefreshLive, RefreshRec, FamilyOf
<1>4. Covered([f EXCEPT !.op = "refresh", !.start = now])
  BY DEF RefreshTokens, Covered
<1> HIDE DEF f, Idle, HandlerRec, PCs
<1> QED BY ZenonT(60), <1>1, <1>2, <1>3, <1>4, BeginStep

\* A step that moves one handler and leaves the clock and the blacklist alone:
\* the other handlers stay ready because ids are only ever added.
LEMMA MoveStep ==
    ASSUME SessionInv, NEW p \in Handlers, NEW f \in HandlerRec,
           h' = [h EXCEPT ![p] = f], now' = now, blExp' = blExp,
           nextSid' \in Nat, nextSid <= nextSid',
           nextTok' \in Nat, nextTok <= nextTok',
           \A s \in Sids : sess[s].user \in Users => sess'[s].user \in Users,
           TypeOK', IdsGenerated', TokensCovered', Ready(f)', Covered(f)'
    PROVE  SessionInv'
<1> SUFFICES ASSUME NEW q \in Handlers PROVE (Ready(h[q]) /\ Covered(h[q]))'
  BY DEF SessionInv
<1>1. CASE q = p
  BY <1>1 DEF SessionInv, TypeOK, Ready, Covered
<1>2. CASE q # p
  <2>1. h'[q] = h[q] /\ h[q] \in HandlerRec
    BY <1>2 DEF SessionInv, TypeOK
  <2>2. Ready(h[q]) /\ Covered(h[q]) /\ nextSid \in Nat /\ nextTok \in Nat
    BY SMTT(60) DEF SessionInv, TypeOK
  <2>3. Ready(h[q])'
    BY <2>1, <2>2 DEF Ready, HandlerRec, Sids, Toks
  <2> QED BY <2>1, <2>2, <2>3 DEF Covered
<1> QED BY <1>1, <1>2

\* The ids the records mention are numbers.
LEMMA IdTypes ==
    ASSUME TypeOK
    PROVE  /\ now \in Nat /\ nextSid \in Nat /\ nextTok \in Nat
           /\ Sids \subseteq Nat /\ Toks \subseteq Nat
           /\ \A s \in Sids : /\ blExp[s] \in Nat /\ sess[s] \in SessionRec
                              /\ sess[s].exp \in Nat /\ sess[s].dexp \in Nat
           /\ \A t \in Toks : /\ rt[t] \in RefreshRec /\ rt[t].exp \in Nat
                              /\ rt[t].dexp \in Nat
                              /\ rt[t].sid \in Nat /\ rt[t].fam \in Nat
           /\ \A a \in atoks : a \in AccessTok /\ a.exp \in Nat /\ a.sid \in Sids
           /\ \A p \in Handlers : h[p] \in HandlerRec
<1>1. now \in Nat /\ nextSid \in Nat /\ nextTok \in Nat
  BY DEF TypeOK
<1>2. Sids \subseteq Nat /\ Toks \subseteq Nat
  BY DEF Sids, Toks
<1>3. ASSUME NEW s \in Sids
      PROVE  /\ blExp[s] \in Nat /\ sess[s] \in SessionRec
             /\ sess[s].exp \in Nat /\ sess[s].dexp \in Nat
  BY DEF TypeOK, SessionRec
<1>4. ASSUME NEW t \in Toks
      PROVE  /\ rt[t] \in RefreshRec /\ rt[t].exp \in Nat /\ rt[t].dexp \in Nat
             /\ rt[t].sid \in Nat /\ rt[t].fam \in Nat
  <2>1. rt[t] \in RefreshRec
    BY DEF TypeOK
  <2>2. /\ rt[t].sid \in Sids \cup {0} /\ rt[t].fam \in Toks \cup {0}
        /\ rt[t].exp \in Nat /\ rt[t].dexp \in Nat
    BY <2>1 DEF RefreshRec
  <2>3. rt[t].sid \in Nat
    BY <2>2 DEF Sids, Toks
  <2>4. rt[t].fam \in Nat
    BY <2>2 DEF Sids, Toks
  <2> QED BY <2>1, <2>2, <2>3, <2>4
<1>5. \A a \in atoks : a \in AccessTok /\ a.exp \in Nat /\ a.sid \in Sids
  BY DEF TypeOK, AccessTok
<1>6. \A p \in Handlers : h[p] \in HandlerRec
  BY DEF TypeOK
<1> QED BY ZenonT(60), <1>1, <1>2, <1>3, <1>4, <1>5, <1>6

LEMMA OAuthIssueStep ==
    ASSUME SessionInv, NEW p \in Handlers, NEW u \in Users, OAuthIssue(p, u)
    PROVE  SessionInv'
<1>0. TypeOK /\ IdsGenerated /\ TokensCovered
  BY DEF SessionInv
<1>1. PICK f \in HandlerRec :
        /\ f = [Idle EXCEPT !.pc = "store", !.user = u, !.sid = nextSid,
                            !.op = "oauth", !.start = now]
        /\ h' = [h EXCEPT ![p] = f]
  BY ZenonT(60) DEF OAuthIssue, Begin, Idle, HandlerRec, PCs, AllOps, SessionInv, TypeOK
<1>2. TypeOK'
  BY <1>1 DEF OAuthIssue, SessionInv, TypeOK
<1>3. IdsGenerated'
  BY <1>0, IdTypes DEF OAuthIssue, IdsGenerated
<1>4. TokensCovered'
  BY <1>0 DEF OAuthIssue, TokensCovered
<1>5. Ready(f)'
  BY <1>0, <1>1, IdTypes DEF OAuthIssue, Ready, Idle, TypeOK
<1>6. Covered(f)'
  BY <1>0, <1>1, IdTypes DEF OAuthIssue, Covered, Idle, IdsGenerated
<1>7. /\ now' = now /\ blExp' = blExp
      /\ nextSid' \in Nat /\ nextSid <= nextSid'
      /\ nextTok' \in Nat /\ nextTok <= nextTok'
      /\ sess' = sess
  BY <1>0 DEF OAuthIssue, TypeOK
<1> QED BY ZenonT(60), <1>1, <1>2, <1>3, <1>4, <1>5, <1>6, <1>7, MoveStep

\* The record RevokeNext leaves behind is ready in any state with the same ids.
LEMMA RevokeNextReady ==
    ASSUME SessionInv, NEW p \in Handlers, NEW todo \in SUBSET Sids,
           h[p].pc \in {"scan", "revoke", "blacklist"},
           \A s \in todo : s < nextSid, RevokeNext(p, todo)
    PROVE  \E f \in HandlerRec : /\ h' = [h EXCEPT ![p] = f]
                                 /\ Ready(f) /\ f.pc \notin {"issue", "delegate", "store"}
<1> DEFINE pc == IF todo # {} THEN "revoke" ELSE AfterRevoke(h[p].op)
<1> DEFINE f == IF pc = "idle" THEN Idle ELSE [h[p] EXCEPT !.pc = pc, !.todo = todo]
<1>1. h[p] \in HandlerRec /\ Ready(h[p])
  BY DEF SessionInv, TypeOK
<1>2. pc \in {"revoke", "create", "idle"}
  BY DEF AfterRevoke
<1>3. f \in HandlerRec /\ f.pc \notin {"issue", "delegate", "store"}
  <2>1. CASE pc = "idle"
    BY <2>1, IdleReady DEF Idle
  <2>2. CASE pc # "idle"
    <3> HIDE DEF pc
    <3>1. f = [h[p] EXCEPT !.pc = pc, !.todo = todo]
      BY <2>2
    <3> QED BY <1>1, <1>2, <2>2, <3>1, ZenonT(60) DEF HandlerRec, PCs
  <2> QED BY ZenonT(60), <2>1, <2>2
<1>4. Ready(f)
  BY <1>1, <1>2, IdleReady DEF Ready, HandlerRec, AfterRevoke
<1>5. h' = [h EXCEPT ![p] = f]
  BY DEF RevokeNext, SessionInv, TypeOK
<1> HIDE DEF f
<1> QED BY ZenonT(60), <1>3, <1>4, <1>5

LEMMA RevokeNextStep ==
    ASSUME SessionInv, NEW p \in Handlers, NEW todo \in SUBSET Sids,
           h[p].pc \in {"scan", "revoke", "blacklist"},
           \A s \in todo : s < nextSid, RevokeNext(p, todo), UNCHANGED Shared
    PROVE  SessionInv'
<1>1. PICK f \in HandlerRec : /\ h' = [h EXCEPT ![p] = f]
                              /\ Ready(f) /\ f.pc \notin {"issue", "delegate", "store"}
  BY RevokeNextReady
<1>2. Covered(f)
  BY <1>1 DEF Covered
<1> QED BY ZenonT(60), <1>1, <1>2, HandlerStep

LEMMA ScanUserStep ==
    ASSUME SessionInv, NEW p \in Handlers, ScanUser(p)
    PROVE  SessionInv'
<1>1. UNCHANGED Shared /\ h[p].pc \in {"scan", "revoke", "blacklist"}
  BY DEF ScanUser, Shared
<1>2. \A s \in UserSessions(h[p].user) : s < nextSid
  BY DEF SessionInv, TypeOK, IdsGenerated, UserSessions, SessionLive, SessionRec
<1>3. h[p].op = "logout" => h[p].sid \in Sids /\ h[p].sid < nextSid
  BY DEF SessionInv, Ready
<1>4. CASE RevokeNext(p, UserSessions(h[p].user))
  BY <1>1, <1>2, <1>4, RevokeNextStep DEF UserSessions
<1>5. CASE RevokeNext(p, IF h[p].op = "logout" THEN {h[p].sid} ELSE {})
  <2> DEFINE T == IF h[p].op = "logout" THEN {h[p].sid} ELSE {}
  <2>1. T \in SUBSET Sids /\ \A s \in T : s < nextSid
    BY <1>3
  <2> HIDE DEF T
  <2> QED BY <1>1, <1>5, <2>1, RevokeNextStep DEF T
<1> QED BY <1>4, <1>5 DEF ScanUser

LEMMA RevokeDeleteFailsStep ==
    ASSUME SessionInv, NEW p \in Handlers, RevokeDeleteFails(p)
    PROVE  SessionInv'
<1>1. UNCHANGED Shared /\ h[p].pc \in {"scan", "revoke", "blacklist"}
  BY SMTT(60) DEF RevokeDeleteFails, Shared
<1>2. h[p].todo \in SUBSET Sids /\ \A s \in h[p].todo : s < nextSid
  BY DEF SessionInv, TypeOK, HandlerRec, Ready
<1>3. PICK s \in h[p].todo : IF h[p].op \in {"login", "logout"}
                              THEN RevokeNext(p, h[p].todo \ {s}) ELSE Finish(p)
  BY ZenonT(60) DEF RevokeDeleteFails
<1>4. CASE Finish(p)
  BY <1>1, <1>4, FinishStep
<1>5. CASE RevokeNext(p, h[p].todo \ {s})
  <2> DEFINE T == h[p].todo \ {s}
  <2>1. T \in SUBSET Sids /\ \A r \in T : r < nextSid
    BY <1>2
  <2>2. RevokeNext(p, T)
    BY <1>5
  <2> HIDE DEF T
  <2> QED BY <1>1, <2>1, <2>2, RevokeNextStep
<1> QED BY <1>3, <1>4, <1>5

\* Facts about one handler that its steps start from.
LEMMA HandlerFacts ==
    ASSUME SessionInv, NEW p \in Handlers
    PROVE  /\ TypeOK /\ IdsGenerated /\ TokensCovered
           /\ h[p] \in HandlerRec /\ Ready(h[p]) /\ Covered(h[p])
           /\ h[p].start \in Nat /\ h[p].todo \subseteq Sids /\ h[p].fam \subseteq Toks
BY DEF SessionInv, TypeOK, HandlerRec

\* Deleting or expiring sessions leaves the id discipline in place.
LEMMA DeleteKeeps ==
    ASSUME SessionInv, NEW s \in Sids, sess' = Deleted(s),
           UNCHANGED <<nextSid, nextTok, rt, blExp, atoks>>
    PROVE  /\ sess' \in [Sids -> SessionRec] /\ IdsGenerated'
           /\ \A r \in Sids : sess'[r].user = sess[r].user
<1>1. TypeOK /\ IdsGenerated
  BY DEF SessionInv
<1>2. sess' \in [Sids -> SessionRec]
  BY <1>1 DEF TypeOK, Deleted, SessionRec
<1>3. \A r \in Sids : /\ sess'[r].exp > 0 => r # s
                      /\ r # s => sess'[r] = sess[r]
                      /\ sess'[r].user = sess[r].user
  BY <1>1 DEF TypeOK, Deleted, SessionRec
<1>4. IdsGenerated'
  <2>1. ASSUME NEW r \in Sids, sess'[r].exp > 0
        PROVE  r < nextSid /\ sess'[r].user \in Users
    <3>1. sess'[r] = sess[r]
      BY <1>3, <2>1
    <3>2. sess[r].exp > 0
      BY <2>1, <3>1
    <3> QED BY <1>1, <3>1, <3>2 DEF IdsGenerated
  <2> QED BY <1>1, <2>1 DEF IdsGenerated
<1> QED BY <1>2, <1>3, <1>4

LEMMA RevokeDeleteStep ==
    ASSUME SessionInv, NEW p \in Handlers, RevokeDelete(p)
    PROVE  SessionInv'
<1>1. PICK s \in h[p].todo :
        /\ sess' = Deleted(s)
        /\ h' = [h EXCEPT ![p].pc = "blacklist", ![p].cur = s,
                          ![p].todo = @ \ {s}]
  BY ZenonT(60) DEF RevokeDelete
<1>2. s \in Sids /\ s < nextSid
  BY HandlerFacts DEF Ready
<1>3. PICK f \in HandlerRec :
        /\ f = [h[p] EXCEPT !.pc = "blacklist", !.cur = s, !.todo = h[p].todo \ {s}]
        /\ h' = [h EXCEPT ![p] = f]
  <2> DEFINE g == [h[p] EXCEPT !.pc = "blacklist", !.cur = s, !.todo = h[p].todo \ {s}]
  <2>1. g \in HandlerRec
    <3>1. h[p] \in HandlerRec /\ h[p].todo \ {s} \in SUBSET Sids
      BY HandlerFacts
    <3> QED BY ZenonT(60), <1>2, <3>1 DEF HandlerRec, PCs
  <2>2. h' = [h EXCEPT ![p] = g]
    BY ZenonT(60), <1>1, HandlerFacts DEF TypeOK
  <2> QED BY ZenonT(60), <2>1, <2>2
<1>4. UNCHANGED <<now, nextSid, nextTok, rt, blExp, atoks>>
  BY DEF RevokeDelete
<1>5. /\ sess' \in [Sids -> SessionRec] /\ IdsGenerated'
      /\ \A r \in Sids : sess'[r].user = sess[r].user
  BY <1>1, <1>2, <1>4, DeleteKeeps
<1>6. TypeOK'
  BY <1>3, <1>4, <1>5, HandlerFacts DEF TypeOK
<1>7. TokensCovered'
  BY SMTT(60), <1>4, HandlerFacts DEF TokensCovered
<1>8. Ready(f)'
  BY <1>2, <1>3, <1>4, HandlerFacts DEF Ready, HandlerRec, RevokeDelete
<1>9. Covered(f)'
  BY <1>3, HandlerFacts DEF Covered, HandlerRec
<1>10. /\ nextSid' \in Nat /\ nextSid <= nextSid'
       /\ nextTok' \in Nat /\ nextTok <= nextTok'
  BY <1>4, HandlerFacts, IdTypes
<1> QED BY ZenonT(60), <1>3, <1>4, <1>5, <1>6, <1>7, <1>8, <1>9, <1>10, MoveStep

LEMMA DropSessionStep ==
    ASSUME SessionInv, NEW p \in Handlers, DropSession(p)
    PROVE  SessionInv'
<1>1. PICK s \in h[p].todo :
        /\ sess' = Deleted(s) \/ sess' = sess
        /\ IF h[p].todo = {s} THEN Finish(p) ELSE h' = [h EXCEPT ![p].todo = @ \ {s}]
  BY DEF DropSession
<1>2. s \in Sids /\ s < nextSid
  BY HandlerFacts DEF Ready
<1>3. PICK f \in HandlerRec :
        /\ f = Idle \/ f = [h[p] EXCEPT !.todo = h[p].todo \ {s}]
        /\ h' = [h EXCEPT ![p] = f]
  BY <1>1, <1>2, HandlerFacts, IdleReady DEF HandlerRec, TypeOK, Finish
<1>4. UNCHANGED <<now, nextSid, nextTok, rt, blExp, atoks>>
  BY DEF DropSession
<1>5. /\ sess' \in [Sids -> SessionRec] /\ IdsGenerated'
      /\ \A r \in Sids : sess'[r].user = sess[r].user
  <2>1. CASE sess' = Deleted(s)
    BY <1>2, <1>4, <2>1, DeleteKeeps
  <2>2. CASE sess' = sess
    BY SMTT(60), <1>4, <2>2, HandlerFacts DEF TypeOK, IdsGenerated
  <2> QED BY <1>1, <2>1, <2>2
<1>6. TypeOK'
  BY <1>3, <1>4, <1>5, HandlerFacts DEF TypeOK
<1>7. TokensCovered'
  BY <1>4, HandlerFacts DEF TokensCovered
<1>8. Ready(f) /\ Covered(f)
  <2>1. CASE f = Idle
    BY SMTT(60), <2>1, IdleReady
  <2>2. CASE f = [h[p] EXCEPT !.todo = h[p].todo \ {s}]
    BY SMTT(60), <2>2, HandlerFacts DEF Ready, Covered, HandlerRec, DropSession
  <2> QED BY <1>3, <2>1, <2>2
<1>9. Ready(f)' /\ Covered(f)'
  BY <1>3, <1>4, <1>8, HandlerFacts DEF Ready, Covered, DropSession, Idle, HandlerRec
<1>10. /\ nextSid' \in Nat /\ nextSid <= nextSid'
       /\ nextTok' \in Nat /\ nextTok <= nextTok'
  BY <1>4, HandlerFacts, IdTypes
<1> QED BY ZenonT(60), <1>3, <1>4, <1>5, <1>6, <1>7, <1>9, <1>10, MoveStep

\* AddSession, the step RevocationIsFinal is about: every token delivered so
\* far expires by now + AccessTTL, every token still to be signed by a request
\* in flight by start + Latency + AccessTTL, and the entry outlives both.
LEMMA BlacklistEntryCovers ==
    ASSUME SessionInv, NEW c \in Sids, c < nextSid,
           blExp' = [blExp EXCEPT ![c] = now + BlacklistTTL],
           UNCHANGED <<now, nextSid, nextTok, sess, rt, atoks>>
    PROVE  /\ blExp' \in [Sids -> Nat] /\ IdsGenerated' /\ TokensCovered'
<1>1. TypeOK /\ IdsGenerated /\ TokensCovered
  BY DEF SessionInv
<1>2. blExp' \in [Sids -> Nat] /\ \A r \in Sids : r # c => blExp'[r] = blExp[r]
  BY <1>1 DEF TypeOK
<1>3. IdsGenerated'
  BY <1>1, <1>2 DEF IdsGenerated
<1>4. ASSUME NEW a \in atoks'
      PROVE  a.exp <= now' + AccessTTL /\ (blExp'[a.sid] > 0 => a.exp <= blExp'[a.sid])
  <2>1. a.sid \in Sids /\ a.exp \in Nat /\ now \in Nat /\ a.exp <= now + AccessTTL
    BY <1>1, IdTypes DEF TokensCovered
  <2>2. CASE a.sid = c
    BY <1>1, <2>1, <2>2 DEF TypeOK
  <2>3. CASE a.sid # c
    BY <1>1, <1>2, <2>1, <2>3 DEF TokensCovered
  <2> QED BY <2>2, <2>3
<1> QED BY <1>2, <1>3, <1>4 DEF TokensCovered

LEMMA RevokeBlacklistStep ==
    ASSUME SessionInv, NEW p \in Handlers, RevokeBlacklist(p)
    PROVE  SessionInv'
<1> DEFINE c == h[p].cur
<1>1. c \in Sids /\ c < nextSid
  BY SMTT(60), HandlerFacts DEF Ready, RevokeBlacklist
<1>2. h[p].todo \in SUBSET Sids /\ \A s \in h[p].todo : s < nextSid
  BY HandlerFacts DEF Ready
<1>3. CASE blExp' = blExp
  <2>1. UNCHANGED Shared /\ h[p].pc \in {"scan", "revoke", "blacklist"}
    BY <1>3 DEF RevokeBlacklist, Shared
  <2> QED BY <1>2, <2>1, RevokeNextStep DEF RevokeBlacklist
<1>4. CASE blExp' = [blExp EXCEPT ![c] = now + BlacklistTTL]
  <2>1. UNCHANGED <<now, nextSid, nextTok, sess, rt, atoks>>
    BY DEF RevokeBlacklist
  <2>2. blExp' \in [Sids -> Nat] /\ IdsGenerated' /\ TokensCovered'
    BY ZenonT(60), <1>1, <1>4, <2>1, BlacklistEntryCovers
  <2>3. PICK f \in HandlerRec : /\ h' = [h EXCEPT ![p] = f]
                                /\ Ready(f) /\ f.pc \notin {"issue", "delegate", "store"}
    BY <1>2, RevokeNextReady DEF RevokeBlacklist
  <2>4. TypeOK'
    BY <2>1, <2>2, <2>3, HandlerFacts DEF TypeOK
  <2>5. ASSUME NEW q \in Handlers PROVE (Ready(h[q]) /\ Covered(h[q]))'
    <3>1. h'[q] = IF q = p THEN f ELSE h[q]
      BY <2>3 DEF SessionInv, TypeOK
    <3>2. Ready(h'[q])
      BY SMTT(60), <2>3, <3>1, HandlerFacts
    <3>3. Ready(h[q])'
      BY <2>1, <3>2 DEF Ready
    <3>4. Covered(h[q])'
      <4>1. CASE q = p
        BY <2>3, <3>1, <4>1 DEF Covered
      <4>2. CASE q # p /\ h[q].pc \in {"issue", "delegate", "store"}
        <5>1. /\ h'[q] = h[q] /\ Covered(h[q]) /\ h[q].sid \in Sids
              /\ h[q].start \in Nat /\ h[q].start <= now /\ now \in Nat
          BY <3>1, <4>2, HandlerFacts, IdTypes DEF Ready
        <5>2. CASE h[q].sid = c
          <6>1. blExp'[h[q].sid] = now + BlacklistTTL
            BY <1>1, <1>4, <5>2, HandlerFacts DEF TypeOK
          <6>2. h[q].start + Latency + AccessTTL <= now + BlacklistTTL
            BY SMTT(60), <5>1
          <6> QED BY <5>1, <6>1, <6>2 DEF Covered
        <5>3. CASE h[q].sid # c
          BY SMTT(60), <1>4, <5>1, <5>3, HandlerFacts DEF Covered, TypeOK
        <5> QED BY SMTT(60), <5>2, <5>3
      <4>3. CASE q # p /\ h[q].pc \notin {"issue", "delegate", "store"}
        BY <3>1, <4>3 DEF Covered
      <4> QED BY <4>1, <4>2, <4>3
    <3> QED BY <3>3, <3>4
  <2> QED BY <2>2, <2>4, <2>5 DEF SessionInv
<1> QED BY SMTT(60), <1>3, <1>4 DEF RevokeBlacklist

LEMMA CreateSessionStep ==
    ASSUME SessionInv, NEW p \in Handlers, CreateSession(p)
    PROVE  SessionInv'
<1>1. PICK f \in HandlerRec :
        /\ f = [h[p] EXCEPT !.pc = "issue", !.sid = nextSid]
        /\ h' = [h EXCEPT ![p] = f]
  <2> DEFINE g == [h[p] EXCEPT !.pc = "issue", !.sid = nextSid]
  <2>1. g \in HandlerRec
    <3>1. h[p] \in HandlerRec /\ nextSid \in Sids
      BY HandlerFacts DEF CreateSession
    <3> QED BY ZenonT(60), <3>1 DEF HandlerRec, PCs
  <2>2. h' = [h EXCEPT ![p] = g]
    BY ZenonT(60), HandlerFacts DEF CreateSession, TypeOK
  <2> QED BY ZenonT(60), <2>1, <2>2
<1>2. h[p].user \in Users /\ nextSid \in Sids /\ h[p].pc = "create"
  BY HandlerFacts DEF CreateSession, Ready
<1>3. /\ sess' \in [Sids -> SessionRec]
      /\ \A s \in Sids : s # nextSid => sess'[s] = sess[s]
      /\ sess'[nextSid].user = h[p].user
  <2>1. now \in Nat /\ h[p].ip \in IPs \cup {None}
    BY HandlerFacts DEF TypeOK, HandlerRec
  <2> QED BY SMTT(60), <1>2, <2>1, HandlerFacts DEF CreateSession, TypeOK, SessionRec
<1>4. TypeOK'
  BY <1>1, <1>3, HandlerFacts DEF CreateSession, TypeOK
<1>5. IdsGenerated'
  <2>1. ASSUME NEW s \in Sids
        PROVE  /\ blExp'[s] > 0 \/ sess'[s].exp > 0 => s < nextSid'
               /\ sess'[s].exp > 0 => sess'[s].user \in Users
    <3>1. CASE s = nextSid
      BY <1>2, <1>3, <3>1, IdTypes, HandlerFacts DEF CreateSession
    <3>2. CASE s # nextSid
      BY <1>3, <3>2, IdTypes, HandlerFacts DEF CreateSession, IdsGenerated
    <3> QED BY <3>1, <3>2
  <2>2. ASSUME NEW t \in Toks PROVE rt[t].sid < nextSid'
    <3>1. rt[t].sid \in Nat /\ nextSid \in Nat /\ rt[t].sid < nextSid
      BY IdTypes, HandlerFacts DEF IdsGenerated
    <3> QED BY SMTT(60), <3>1 DEF CreateSession
  <2>3. \A a \in atoks : a.sid < nextSid'
    BY IdTypes, HandlerFacts DEF CreateSession, IdsGenerated
  <2> QED BY <2>1, <2>2, <2>3, HandlerFacts DEF CreateSession, IdsGenerated
<1>6. TokensCovered'
  BY SMTT(60), HandlerFacts DEF CreateSession, TokensCovered
<1>7. Ready(f)'
  BY <1>1, <1>2, IdTypes, HandlerFacts DEF CreateSession, Ready, HandlerRec
<1>8. Covered(f)'
  BY <1>1, <1>2, IdTypes, HandlerFacts DEF CreateSession, Covered, HandlerRec, IdsGenerated
<1>9. /\ now' = now /\ blExp' = blExp
      /\ nextSid' \in Nat /\ nextSid <= nextSid'
      /\ nextTok' \in Nat /\ nextTok <= nextTok'
      /\ \A s \in Sids : sess[s].user \in Users => sess'[s].user \in Users
  BY SMTT(60), <1>2, <1>3, HandlerFacts DEF CreateSession, TypeOK
<1> QED BY ZenonT(60), <1>1, <1>4, <1>5, <1>6, <1>7, <1>8, <1>9, MoveStep

\* Signing a token for session s: what the signer must know.
LEMMA TokenAdded ==
    ASSUME SessionInv, NEW s \in Sids, NEW u \in Users, NEW e \in Nat,
           e <= now + AccessTTL, blExp[s] > 0 => e <= blExp[s],
           atoks' = atoks \cup {[sid |-> s, user |-> u, exp |-> e]},
           now' = now, blExp' = blExp
    PROVE  atoks' \subseteq AccessTok /\ TokensCovered'
<1>1. TypeOK /\ TokensCovered
  BY DEF SessionInv
<1>2. [sid |-> s, user |-> u, exp |-> e] \in AccessTok
  BY DEF AccessTok
<1> QED BY <1>1, <1>2 DEF TypeOK, TokensCovered

\* A request in flight signs in time: not later than start + Latency.
LEMMA SignedInTime ==
    ASSUME SessionInv, NEW p \in Handlers,
           h[p].pc \in {"issue", "delegate", "store"}
    PROVE  /\ h[p].sid \in Sids /\ h[p].user \in Users /\ h[p].sid < nextSid
           /\ now + AccessTTL \in Nat /\ h[p].start + AccessTTL \in Nat
           /\ h[p].start + AccessTTL <= now + AccessTTL
           /\ blExp[h[p].sid] > 0 => /\ now + AccessTTL <= blExp[h[p].sid]
                                     /\ h[p].start + AccessTTL <= blExp[h[p].sid]
<1>1. /\ h[p].sid \in Sids /\ h[p].user \in Users /\ h[p].sid < nextSid
      /\ h[p].start \in Nat /\ now \in Nat
      /\ h[p].start <= now /\ now <= h[p].start + Latency
  BY SMTT(60), HandlerFacts, IdTypes DEF Ready
<1>2. blExp[h[p].sid] \in Nat
  BY <1>1, HandlerFacts, IdTypes
<1>3. blExp[h[p].sid] > 0 => h[p].start + Latency + AccessTTL <= blExp[h[p].sid]
  BY HandlerFacts DEF Covered
<1> QED BY SMTT(60), <1>1, <1>2, <1>3

LEMMA IssueDelegatedStep ==
    ASSUME SessionInv, NEW p \in Handlers, IssueDelegated(p)
    PROVE  SessionInv'
<1>1. h' = [h EXCEPT ![p] = Idle]
  BY DEF IssueDelegated, Finish
<1>2. h[p].pc \in {"issue", "delegate", "store"}
  BY SMTT(60) DEF IssueDelegated
<1>3. atoks' \subseteq AccessTok /\ TokensCovered'
  BY SMTT(60), <1>2, SignedInTime, TokenAdded DEF IssueDelegated
<1>4. TypeOK'
  BY SMTT(60), <1>1, <1>3, IdleReady, HandlerFacts DEF IssueDelegated, TypeOK
<1>5. IdsGenerated'
  BY <1>2, SignedInTime, HandlerFacts DEF IssueDelegated, IdsGenerated
<1>6. Ready(Idle)' /\ Covered(Idle)'
  BY ZenonT(60), IdleReady DEF IssueDelegated, Ready, Covered, Idle
<1>7. /\ now' = now /\ blExp' = blExp
      /\ nextSid' \in Nat /\ nextSid <= nextSid'
      /\ nextTok' \in Nat /\ nextTok <= nextTok' /\ sess' = sess
  BY HandlerFacts DEF IssueDelegated, TypeOK
<1> QED BY ZenonT(60), <1>1, <1>3, <1>4, <1>5, <1>6, <1>7, IdleReady, MoveStep

LEMMA StoreSessionStep ==
    ASSUME SessionInv, NEW p \in Handlers, StoreSession(p)
    PROVE  SessionInv'
<1>1. h' = [h EXCEPT ![p] = Idle]
  BY SMTT(60) DEF StoreSession, Finish
<1>2. h[p].pc \in {"issue", "delegate", "store"}
  BY SMTT(60) DEF StoreSession
<1>3. atoks' \subseteq AccessTok /\ TokensCovered'
  BY ZenonT(60), <1>2, SignedInTime, TokenAdded DEF StoreSession
<1>4. /\ sess' \in [Sids -> SessionRec]
      /\ \A s \in Sids : s # h[p].sid => sess'[s] = sess[s]
      /\ sess' = sess \/ sess'[h[p].sid].user = h[p].user
  <2>1. h[p].sid \in Sids /\ h[p].user \in Users /\ now \in Nat
    BY ZenonT(60), <1>2, SignedInTime, IdTypes, HandlerFacts
  <2> QED BY SMTT(60), <2>1, HandlerFacts DEF StoreSession, TypeOK, SessionRec
<1>5. TypeOK'
  BY ZenonT(60), <1>1, <1>3, <1>4, IdleReady, HandlerFacts DEF StoreSession, TypeOK
<1>6. IdsGenerated'
  <2>1. h[p].sid \in Sids /\ h[p].user \in Users /\ h[p].sid < nextSid
    BY <1>2, SignedInTime
  <2>2. ASSUME NEW s \in Sids, sess'[s].exp > 0
        PROVE  s < nextSid /\ sess'[s].user \in Users
    <3>1. CASE sess'[s] = sess[s]
      BY <2>2, <3>1, HandlerFacts DEF IdsGenerated
    <3>2. CASE s = h[p].sid /\ sess'[s].user = h[p].user
      BY SMTT(60), <2>1, <3>2
    <3> QED BY SMTT(60), <1>4, <3>1, <3>2
  <2>3. UNCHANGED <<nextSid, nextTok, rt, blExp>>
    BY SMTT(60) DEF StoreSession
  <2>4. \A a \in atoks' : a.sid < nextSid
    BY <2>1, HandlerFacts DEF StoreSession, IdsGenerated
  <2> QED BY SMTT(60), <2>2, <2>3, <2>4, HandlerFacts DEF IdsGenerated
<1>7. Ready(Idle)' /\ Covered(Idle)'
  BY ZenonT(60), IdleReady DEF StoreSession, Ready, Covered, Idle
<1>8. /\ now' = now /\ blExp' = blExp
      /\ nextSid' \in Nat /\ nextSid <= nextSid'
      /\ nextTok' \in Nat /\ nextTok <= nextTok'
      /\ \A s \in Sids : sess[s].user \in Users => sess'[s].user \in Users
  <2>1. h[p].user \in Users
    BY <1>2, SignedInTime
  <2>2. ASSUME NEW s \in Sids, sess[s].user \in Users PROVE sess'[s].user \in Users
    BY <1>4, <2>1, <2>2
  <2>3. nextSid \in Nat /\ nextTok \in Nat
    BY SMTT(60), HandlerFacts, IdTypes
  <2>4. UNCHANGED <<now, nextSid, nextTok, blExp>>
    BY DEF StoreSession
  <2> QED BY SMTT(60), <2>2, <2>3, <2>4
<1> QED BY ZenonT(60), <1>1, <1>3, <1>5, <1>6, <1>7, <1>8, IdleReady, MoveStep

LEMMA IssueTokensStep ==
    ASSUME SessionInv, NEW p \in Handlers, IssueTokens(p)
    PROVE  SessionInv'
<1> DEFINE r == [sid |-> h[p].sid, fam |-> nextTok, flags |-> {},
                 dexp |-> now + RefreshTTL, exp |-> now + RefreshTTL,
                 parent |-> h[p].tok]
<1> DEFINE a == [sid |-> h[p].sid, user |-> h[p].user, exp |-> now + AccessTTL]
<1>1. /\ h' = [h EXCEPT ![p] = Idle] /\ h[p].pc \in {"issue", "delegate", "store"}
      /\ atoks' = atoks \cup {a} /\ rt' = [rt EXCEPT ![nextTok] = r]
      /\ nextTok \in Toks /\ nextTok' = nextTok + 1
      /\ UNCHANGED <<now, nextSid, sess, blExp>>
  BY ZenonT(60) DEF IssueTokens, Finish
<1>2. /\ h[p].sid \in Sids /\ h[p].sid < nextSid /\ h[p].tok \in Toks \cup {0}
      /\ nextTok \in Nat /\ 0 < nextTok /\ nextSid \in Nat /\ 0 < nextSid
      /\ now + RefreshTTL \in Nat
  <2>1. h[p].sid \in Sids /\ h[p].sid < nextSid
    BY ZenonT(60), <1>1, SignedInTime
  <2>2. h[p].tok \in Toks \cup {0}
    BY ZenonT(60), HandlerFacts DEF HandlerRec
  <2>3. now \in Nat /\ nextTok \in Nat \ {0} /\ nextSid \in Nat \ {0}
    BY ZenonT(60), HandlerFacts DEF TypeOK
  <2>4. RefreshTTL \in Nat
    BY SessionAssumption
  <2> HIDE DEF a, r
  <2> QED BY <2>1, <2>2, <2>3, <2>4
<1>3. atoks' \subseteq AccessTok /\ TokensCovered'
  <2>1. /\ h[p].sid \in Sids /\ h[p].user \in Users /\ now + AccessTTL \in Nat
        /\ blExp[h[p].sid] > 0 => now + AccessTTL <= blExp[h[p].sid]
    BY ZenonT(60), <1>1, SignedInTime
  <2>2. PICK s \in Sids, u \in Users, e \in Nat :
           /\ s = h[p].sid /\ u = h[p].user /\ e = now + AccessTTL
           /\ atoks' = atoks \cup {[sid |-> s, user |-> u, exp |-> e]}
    BY ZenonT(60), <1>1, <2>1
  <2> HIDE DEF a, r
  <2>3. e <= now + AccessTTL
    BY <2>1, <2>2
  <2>4. blExp[s] > 0 => e <= blExp[s]
    BY ZenonT(60), <2>1, <2>2
  <2> QED BY ZenonT(60), <1>1, <2>2, <2>3, <2>4, TokenAdded
<1>4. /\ r \in RefreshRec /\ r.sid = h[p].sid /\ r.fam = nextTok
  <2>1. {} \in SUBSET {"used", "revoked"} /\ nextTok \in Toks \cup {0}
        /\ h[p].sid \in Sids \cup {0}
    BY ZenonT(60), <1>1, <1>2
  <2> QED BY <1>2, <2>1 DEF RefreshRec
<1>5. a.sid = h[p].sid
  OBVIOUS
<1> HIDE DEF a, r
<1>6. /\ rt' \in [Toks -> RefreshRec] /\ rt'[nextTok] = r
      /\ \A t \in Toks : t # nextTok => rt'[t] = rt[t]
  BY <1>1, <1>4, HandlerFacts DEF TypeOK
<1>7. TypeOK'
  <2>1. nextTok' \in Nat \ {0}
    BY <1>1, <1>2
  <2>2. h' \in [Handlers -> HandlerRec]
    BY ZenonT(60), <1>1, IdleReady, HandlerFacts DEF TypeOK
  <2> QED BY ZenonT(60), <1>1, <1>3, <1>6, <2>1, <2>2, HandlerFacts DEF TypeOK
<1>8. IdsGenerated'
  <2>1. ASSUME NEW t \in Toks
        PROVE  /\ t < nextTok' => rt'[t].sid \in Sids /\ rt'[t].fam # 0
               /\ rt'[t].exp > 0 \/ rt'[t].fam # 0 \/ rt'[t].flags # {} => t < nextTok'
               /\ rt'[t].sid < nextSid
    <3>1. CASE t = nextTok
      BY <1>1, <1>2, <1>4, <1>6, <3>1
    <3>2. CASE t # nextTok
      <4>1. rt'[t] = rt[t] /\ t \in Nat
        BY <1>6, <3>2, IdTypes, HandlerFacts
      <4>2. (t < nextTok' => t < nextTok) /\ (t < nextTok => t < nextTok')
        BY <1>1, <1>2, <3>2, <4>1
      <4> QED BY <4>1, <4>2, HandlerFacts DEF IdsGenerated
    <3> QED BY <3>1, <3>2
  <2>2. \A b \in atoks' : b.sid < nextSid
    BY ZenonT(60), <1>1, <1>2, <1>5, HandlerFacts DEF IdsGenerated
  <2> QED BY ZenonT(60), <1>1, <2>1, <2>2, HandlerFacts DEF IdsGenerated
<1>9. Ready(Idle)' /\ Covered(Idle)'
  <2>1. 0 < nextSid' /\ 0 < nextTok'
    BY <1>1, <1>2
  <2> QED BY ZenonT(60), <2>1, IdleIsReady DEF Ready, Covered, Idle
<1>10. nextSid' \in Nat /\ nextSid <= nextSid' /\ nextTok' \in Nat /\ nextTok <= nextTok'
  BY <1>1, <1>2
<1> QED BY ZenonT(60), <1>1, <1>3, <1>7, <1>8, <1>9, <1>10, IdleReady, MoveStep

LEMMA RequestFailsStep ==
    ASSUME SessionInv, NEW p \in Handlers, RequestFails(p)
    PROVE  SessionInv'
BY FinishStep DEF RequestFails, Shared

LEMMA UpdateGetStep ==
    ASSUME SessionInv, NEW p \in Handlers, UpdateGet(p)
    PROVE  SessionInv'
<1>1. UNCHANGED Shared /\ h[p].pc = "touch"
  BY SMTT(60) DEF UpdateGet, Shared
<1>2. CASE Finish(p)
  BY <1>1, <1>2, FinishStep
<1>3. CASE SessionLive(h[p].sid) /\ Goto(p, "touchset")
  <2>1. PICK f \in HandlerRec : /\ f = [h[p] EXCEPT !.pc = "touchset"]
                                /\ h' = [h EXCEPT ![p] = f]
    <3> DEFINE g == [h[p] EXCEPT !.pc = "touchset"]
    <3>1. h[p] \in HandlerRec
      BY HandlerFacts
    <3>2. g \in HandlerRec
      BY <3>1 DEF HandlerRec, PCs
    <3>3. h' = [h EXCEPT ![p] = g]
      BY <1>3, HandlerFacts DEF TypeOK, Goto
    <3> QED BY ZenonT(60), <3>2, <3>3
  <2>2. Ready(f) /\ Covered(f)
    <3>1. sess[h[p].sid].user \in Users
      BY <1>1, <1>3, IdTypes, HandlerFacts DEF UpdateGet, Ready, SessionLive, IdsGenerated
    <3> QED BY ZenonT(60), <1>1, <2>1, <3>1, HandlerFacts DEF Ready, Covered, HandlerRec
  <2> QED BY ZenonT(60), <1>1, <2>1, <2>2, HandlerStep
<1> QED BY <1>2, <1>3 DEF UpdateGet

LEMMA CheckReuseStep ==
    ASSUME SessionInv, NEW p \in Handlers, CheckReuse(p)
    PROVE  SessionInv'
<1>0. UNCHANGED Shared /\ h[p].pc = "reuse" /\ h[p].tok \in Toks /\ h[p].sid \in Sids
  BY HandlerFacts DEF CheckReuse, Shared, Ready
<1>1. CASE RefreshLive(h[p].tok) /\ "used" \in rt[h[p].tok].flags
  <2> DEFINE F == FamilyOf(rt[h[p].tok].fam)
  <2>1. F \subseteq Toks /\ \A t \in F : t < nextTok
    BY <1>0, <1>1, IdTypes, HandlerFacts DEF FamilyOf, RefreshLive, IdsGenerated
  <2>2. h' = [h EXCEPT ![p].pc = "family", ![p].todo = {h[p].sid}, ![p].fam = F]
    BY <1>1 DEF CheckReuse
  <2> HIDE DEF F
  <2>3. PICK f \in HandlerRec :
          /\ f = [h[p] EXCEPT !.pc = "family", !.todo = {h[p].sid}, !.fam = F]
          /\ h' = [h EXCEPT ![p] = f]
    <3> DEFINE g == [h[p] EXCEPT !.pc = "family", !.todo = {h[p].sid}, !.fam = F]
    <3>1. h[p] \in HandlerRec
      BY HandlerFacts
    <3>2. g \in HandlerRec
      BY ZenonT(60), <1>0, <2>1, <3>1 DEF HandlerRec, PCs
    <3>3. h' = [h EXCEPT ![p] = g]
      BY ZenonT(60), <2>2, HandlerFacts DEF TypeOK
    <3> QED BY ZenonT(60), <3>2, <3>3
  <2>4. Ready(f) /\ Covered(f)
    BY <1>0, <2>1, <2>3, HandlerFacts DEF Ready, Covered, HandlerRec
  <2> QED BY ZenonT(60), <1>0, <2>3, <2>4, HandlerStep
<1>2. CASE ~(RefreshLive(h[p].tok) /\ "used" \in rt[h[p].tok].flags)
  <2>1. PICK f \in HandlerRec : /\ f = [h[p] EXCEPT !.pc = "getsess"]
                                /\ h' = [h EXCEPT ![p] = f]
    <3> DEFINE g == [h[p] EXCEPT !.pc = "getsess"]
    <3>1. h[p] \in HandlerRec
      BY HandlerFacts
    <3>2. g \in HandlerRec
      BY <3>1 DEF HandlerRec, PCs
    <3>3. h' = [h EXCEPT ![p] = g]
      BY <1>2, HandlerFacts DEF TypeOK, CheckReuse, Goto
    <3> QED BY ZenonT(60), <3>2, <3>3
  <2>2. Ready(f) /\ Covered(f)
    BY SMTT(60), <1>0, <2>1, HandlerFacts DEF Ready, Covered, HandlerRec
  <2> QED BY ZenonT(60), <1>0, <2>1, <2>2, HandlerStep
<1> QED BY <1>1, <1>2

LEMMA GetTokenSessionStep ==
    ASSUME SessionInv, NEW p \in Handlers, GetTokenSession(p)
    PROVE  SessionInv'
<1>0. UNCHANGED Shared /\ h[p].pc = "getsess" /\ h[p].tok \in Toks /\ h[p].sid \in Sids
  BY HandlerFacts DEF GetTokenSession, Shared, Ready
<1> DEFINE s == h[p].sid
<1>1. CASE ~SessionLive(s)
  BY <1>0, <1>1, FinishStep DEF GetTokenSession
<1>2. CASE SessionLive(s) /\ sess[s].ip # h[p].ip
  <2>1. h' = [h EXCEPT ![p].pc = "drop", ![p].todo = {s}]
    BY <1>2 DEF GetTokenSession
  <2>2. PICK f \in HandlerRec : /\ f = [h[p] EXCEPT !.pc = "drop", !.todo = {s}]
                                /\ h' = [h EXCEPT ![p] = f]
    <3> DEFINE g == [h[p] EXCEPT !.pc = "drop", !.todo = {s}]
    <3>1. h[p] \in HandlerRec
      BY HandlerFacts
    <3>2. g \in HandlerRec
      BY ZenonT(60), <1>0, <3>1 DEF HandlerRec, PCs
    <3>3. h' = [h EXCEPT ![p] = g]
      BY ZenonT(60), <2>1, HandlerFacts DEF TypeOK
    <3> QED BY ZenonT(60), <3>2, <3>3
  <2>3. Ready(f) /\ Covered(f)
    BY <1>0, <2>2, HandlerFacts DEF Ready, Covered, HandlerRec
  <2> QED BY ZenonT(60), <1>0, <2>2, <2>3, HandlerStep
<1>3. CASE SessionLive(s) /\ sess[s].ip = h[p].ip
  <2>1. h' = [h EXCEPT ![p].pc = "mark", ![p].user = sess[s].user]
    BY SMTT(60), <1>3 DEF GetTokenSession
  <2>2. sess[s].user \in Users
    BY <1>0, <1>3, IdTypes, HandlerFacts DEF SessionLive, IdsGenerated
  <2>3. PICK f \in HandlerRec : /\ f = [h[p] EXCEPT !.pc = "mark", !.user = sess[s].user]
                                /\ h' = [h EXCEPT ![p] = f]
    <3> DEFINE g == [h[p] EXCEPT !.pc = "mark", !.user = sess[s].user]
    <3>1. h[p] \in HandlerRec
      BY HandlerFacts
    <3>2. g \in HandlerRec
      BY ZenonT(60), <2>2, <3>1 DEF HandlerRec, PCs
    <3>3. h' = [h EXCEPT ![p] = g]
      BY ZenonT(60), <2>1, HandlerFacts DEF TypeOK
    <3> QED BY ZenonT(60), <3>2, <3>3
  <2>4. Ready(f) /\ Covered(f)
    BY <1>0, <2>2, <2>3, HandlerFacts DEF Ready, Covered, HandlerRec
  <2> QED BY ZenonT(60), <1>0, <2>3, <2>4, HandlerStep
<1> QED BY <1>1, <1>2, <1>3

LEMMA UpdateSetStep ==
    ASSUME SessionInv, NEW p \in Handlers, UpdateSet(p)
    PROVE  SessionInv'
<1>1. h' = [h EXCEPT ![p] = Idle] /\ h[p].sid \in Sids /\ h[p].sid < nextSid
  BY ZenonT(60), HandlerFacts DEF UpdateSet, Finish, Ready
<1> DEFINE s == h[p].sid
<1> DEFINE e == IF sess[s].dexp > now THEN sess[s].dexp ELSE now + SessionTTL
<1>2. e \in Nat
  BY <1>1, IdTypes, HandlerFacts
<1>3. sess' = [sess EXCEPT ![s].exp = e] /\ UNCHANGED <<now, nextSid, nextTok, rt, blExp, atoks>>
  BY DEF UpdateSet
<1> HIDE DEF e
<1>4. /\ sess' \in [Sids -> SessionRec]
      /\ \A r \in Sids : sess'[r].user = sess[r].user /\ (r # s => sess'[r] = sess[r])
  BY <1>1, <1>2, <1>3, HandlerFacts, ZenonT(60) DEF TypeOK, SessionRec
<1>5. TypeOK'
  BY <1>1, <1>3, <1>4, IdleReady, HandlerFacts DEF TypeOK
<1>6. IdsGenerated'
  <2>1. ASSUME NEW r \in Sids, sess'[r].exp > 0
        PROVE  r < nextSid /\ sess'[r].user \in Users
    <3>1. CASE r = s
      BY SMTT(60), <1>1, <1>4, <3>1, HandlerFacts DEF UpdateSet, Ready
    <3>2. CASE r # s
      BY <1>4, <2>1, <3>2, HandlerFacts DEF IdsGenerated
    <3> QED BY SMTT(60), <3>1, <3>2
  <2> QED BY <1>3, <2>1, HandlerFacts DEF IdsGenerated
<1>7. TokensCovered'
  BY <1>3, HandlerFacts DEF TokensCovered
<1>8. Ready(Idle)' /\ Covered(Idle)'
  BY <1>3, IdleReady DEF Ready, Covered, Idle
<1>9. /\ nextSid' \in Nat /\ nextSid <= nextSid'
      /\ nextTok' \in Nat /\ nextTok <= nextTok'
  BY <1>3, HandlerFacts, IdTypes
<1> QED BY ZenonT(60), <1>1, <1>3, <1>4, <1>5, <1>6, <1>7, <1>8, <1>9, IdleReady, MoveStep

LEMMA MarkUsedGetStep ==
    ASSUME SessionInv, NEW p \in Handlers, MarkUsedGet(p)
    PROVE  SessionInv'
<1>0. UNCHANGED Shared /\ h[p].pc = "mark" /\ h[p].tok \in Toks /\ h[p].user \in Users
  BY HandlerFacts DEF MarkUsedGet, Shared, Ready
<1> DEFINE t == h[p].tok
<1>1. CASE RefreshLive(t)
  <2>1. h' = [h EXCEPT ![p].pc = "markset", ![p].seen = rt[t].flags]
    BY SMTT(60), <1>1 DEF MarkUsedGet
  <2>2. rt[t].flags \in SUBSET {"used", "revoked"}
    BY <1>0, IdTypes, HandlerFacts DEF RefreshRec
  <2>3. PICK f \in HandlerRec : /\ f = [h[p] EXCEPT !.pc = "markset", !.seen = rt[t].flags]
                                /\ h' = [h EXCEPT ![p] = f]
    <3> DEFINE g == [h[p] EXCEPT !.pc = "markset", !.seen = rt[t].flags]
    <3>1. h[p] \in HandlerRec
      BY HandlerFacts
    <3>2. g \in HandlerRec
      BY ZenonT(60), <2>2, <3>1 DEF HandlerRec, PCs
    <3>3. h' = [h EXCEPT ![p] = g]
      BY <2>1, HandlerFacts, ZenonT(60) DEF TypeOK
    <3> QED BY ZenonT(60), <3>2, <3>3
  <2>4. Ready(f) /\ Covered(f)
    BY <1>0, <2>3, HandlerFacts DEF Ready, Covered, HandlerRec
  <2> QED BY ZenonT(60), <1>0, <2>3, <2>4, HandlerStep
<1>2. CASE ~RefreshLive(t)
  <2>1. h' = [h EXCEPT ![p].pc = "create"]
    BY <1>2 DEF MarkUsedGet, Goto
  <2>2. PICK f \in HandlerRec : /\ f = [h[p] EXCEPT !.pc = "create"]
                                /\ h' = [h EXCEPT ![p] = f]
    <3> DEFINE g == [h[p] EXCEPT !.pc = "create"]
    <3>1. h[p] \in HandlerRec
      BY HandlerFacts
    <3>2. g \in HandlerRec
      BY <3>1 DEF HandlerRec, PCs
    <3>3. h' = [h EXCEPT ![p] = g]
      BY <2>1, HandlerFacts DEF TypeOK
    <3> QED BY ZenonT(60), <3>2, <3>3
  <2>3. Ready(f) /\ Covered(f)
    BY <1>0, <2>2, HandlerFacts DEF Ready, Covered, HandlerRec
  <2> QED BY ZenonT(60), <1>0, <2>2, <2>3, HandlerStep
<1> QED BY <1>1, <1>2

\* Writing back a refresh token record changes neither its ids nor the rules
\* they obey.
LEMMA FlagsKeep ==
    ASSUME SessionInv, NEW t \in Toks, t < nextTok,
           NEW F \in SUBSET {"used", "revoked"}, NEW e \in Nat,
           rt' = [rt EXCEPT ![t].flags = F, ![t].exp = e],
           UNCHANGED <<nextSid, nextTok, sess, blExp, atoks>>
    PROVE  rt' \in [Toks -> RefreshRec] /\ IdsGenerated'
<1>1. TypeOK /\ IdsGenerated
  BY DEF SessionInv
<1>2. rt' \in [Toks -> RefreshRec]
  <2> DEFINE r == [rt[t] EXCEPT !.flags = F, !.exp = e]
  <2>1. rt[t] \in RefreshRec /\ rt \in [Toks -> RefreshRec]
    BY <1>1 DEF TypeOK
  <2>2. r \in RefreshRec
    BY ZenonT(60), <2>1 DEF RefreshRec
  <2>3. rt' = [rt EXCEPT ![t] = r]
    BY ZenonT(60), <2>1
  <2> HIDE DEF r
  <2> QED BY ZenonT(60), <2>1, <2>2, <2>3
<1>3. \A q \in Toks : /\ q # t => rt'[q] = rt[q]
                      /\ rt'[q].sid = rt[q].sid /\ rt'[q].fam = rt[q].fam
  BY <1>1 DEF TypeOK, RefreshRec
<1>4. ASSUME NEW q \in Toks
      PROVE  /\ q < nextTok => rt'[q].sid \in Sids /\ rt'[q].fam # 0
             /\ rt'[q].exp > 0 \/ rt'[q].fam # 0 \/ rt'[q].flags # {} => q < nextTok
             /\ rt'[q].sid < nextSid
  <2>1. CASE q = t
    BY ZenonT(60), <1>1, <1>3, <2>1 DEF IdsGenerated
  <2>2. CASE q # t
    BY ZenonT(60), <1>1, <1>3, <2>2 DEF IdsGenerated
  <2> QED BY ZenonT(60), <2>1, <2>2
<1>5. IdsGenerated'
  BY ZenonT(60), <1>1, <1>4 DEF IdsGenerated
<1> QED BY <1>2, <1>5

\* A step of one handler that also writes back a refresh token's flags.
LEMMA FlagsStep ==
    ASSUME SessionInv, NEW p \in Handlers, NEW f \in HandlerRec, Ready(f), Covered(f),
           h' = [h EXCEPT ![p] = f],
           rt' \in [Toks -> RefreshRec], IdsGenerated',
           UNCHANGED <<now, nextSid, nextTok, sess, blExp, atoks>>
    PROVE  SessionInv'
<1>1. TypeOK'
  BY SMTT(60) DEF SessionInv, TypeOK
<1>2. TokensCovered'
  BY SMTT(60) DEF SessionInv, TokensCovered
<1>3. Ready(f)' /\ Covered(f)'
  BY SMTT(60) DEF Ready, Covered
<1>4. nextSid' \in Nat /\ nextSid <= nextSid' /\ nextTok' \in Nat /\ nextTok <= nextTok'
  BY DEF SessionInv, TypeOK
<1> QED BY ZenonT(60), <1>1, <1>2, <1>3, <1>4, MoveStep

LEMMA MarkUsedSetStep ==
    ASSUME SessionInv, NEW p \in Handlers, MarkUsedSet(p)
    PROVE  SessionInv'
<1>0. /\ h[p].pc = "markset" /\ h[p].tok \in Toks /\ h[p].tok < nextTok
      /\ h[p].user \in Users /\ h[p].seen \in SUBSET {"used", "revoked"}
      /\ UNCHANGED <<now, nextSid, nextTok, sess, blExp, atoks>>
      /\ h' = [h EXCEPT ![p].pc = "create"]
  BY HandlerFacts DEF MarkUsedSet, Goto, Ready, HandlerRec
<1> DEFINE t == h[p].tok
<1> DEFINE e == IF rt[t].dexp > now THEN rt[t].dexp ELSE Forever
<1> DEFINE F == h[p].seen \cup {"used"}
<1>1. PICK f \in HandlerRec : /\ f = [h[p] EXCEPT !.pc = "create"]
                              /\ h' = [h EXCEPT ![p] = f]
  <2> DEFINE g == [h[p] EXCEPT !.pc = "create"]
  <2>1. h[p] \in HandlerRec
    BY HandlerFacts
  <2>2. g \in HandlerRec
    BY <2>1 DEF HandlerRec, PCs
  <2>3. h' = [h EXCEPT ![p] = g]
    BY <1>0, HandlerFacts DEF TypeOK
  <2> QED BY ZenonT(60), <2>2, <2>3
<1>2. Ready(f) /\ Covered(f)
  BY <1>0, <1>1, HandlerFacts DEF Ready, Covered, HandlerRec
<1>3. e \in Nat /\ F \in SUBSET {"used", "revoked"}
  BY <1>0, IdTypes, HandlerFacts DEF Forever
<1>4. rt' = [rt EXCEPT ![t].flags = F, ![t].exp = e] \/ rt' = rt
  BY DEF MarkUsedSet
<1> HIDE DEF e, F
<1>5. rt' \in [Toks -> RefreshRec] /\ IdsGenerated'
  <2>1. CASE rt' = [rt EXCEPT ![t].flags = F, ![t].exp = e]
    BY ZenonT(60), <1>0, <1>3, <2>1, FlagsKeep
  <2>2. CASE rt' = rt
    BY <1>0, <2>2, HandlerFacts DEF TypeOK, IdsGenerated
  <2> QED BY <1>4, <2>1, <2>2
<1> QED BY ZenonT(60), <1>0, <1>1, <1>2, <1>5, FlagsStep

\* The record FamilyNext leaves behind.
LEMMA FamilyNextReady ==
    ASSUME SessionInv, NEW p \in Handlers, NEW fam \in SUBSET Toks,
           h[p].pc \in {"family", "familyset"},
           \A t \in fam : t < nextTok, FamilyNext(p, fam)
    PROVE  \E f \in HandlerRec : /\ h' = [h EXCEPT ![p] = f]
                                 /\ Ready(f) /\ Covered(f)
<1> DEFINE f == IF fam # {} THEN [h[p] EXCEPT !.pc = "family", !.fam = fam]
                ELSE IF h[p].todo # {} THEN [h[p] EXCEPT !.pc = "drop", !.fam = {}]
                ELSE Idle
<1>1. h[p] \in HandlerRec /\ Ready(h[p])
  BY HandlerFacts
<1>2. h' = [h EXCEPT ![p] = f]
  BY HandlerFacts DEF FamilyNext, TypeOK
<1>3. f \in HandlerRec /\ Ready(f) /\ Covered(f)
  <2>1. CASE fam # {}
    <3>1. f = [h[p] EXCEPT !.pc = "family", !.fam = fam]
      BY <2>1
    <3> HIDE DEF f
    <3>2. f \in HandlerRec
      BY ZenonT(60), <1>1, <3>1 DEF HandlerRec, PCs
    <3> QED BY <1>1, <3>1, <3>2 DEF Ready, Covered, HandlerRec
  <2>2. CASE fam = {} /\ h[p].todo # {}
    <3>1. f = [h[p] EXCEPT !.pc = "drop", !.fam = {}]
      BY <2>2
    <3> HIDE DEF f
    <3>2. f \in HandlerRec
      BY <1>1, <3>1, ZenonT(60) DEF HandlerRec, PCs
    <3> QED BY <1>1, <3>1, <3>2 DEF Ready, Covered, HandlerRec
  <2>3. CASE fam = {} /\ h[p].todo = {}
    BY <2>3, IdleReady
  <2> QED BY <2>1, <2>2, <2>3
<1> HIDE DEF f
<1> QED BY ZenonT(60), <1>2, <1>3

LEMMA RevokeFamilyGetStep ==
    ASSUME SessionInv, NEW p \in Handlers, RevokeFamilyGet(p)
    PROVE  SessionInv'
<1>0. UNCHANGED Shared /\ h[p].pc = "family"
  BY DEF RevokeFamilyGet, Shared
<1>1. PICK t \in h[p].fam :
        IF RefreshLive(t) /\ "revoked" \notin rt[t].flags
        THEN h' = [h EXCEPT ![p].pc = "familyset", ![p].tok = t, ![p].seen = rt[t].flags]
        ELSE FamilyNext(p, h[p].fam \ {t})
  BY ZenonT(60) DEF RevokeFamilyGet
<1>2. t \in Toks /\ t < nextTok /\ h[p].fam \subseteq Toks /\ \A q \in h[p].fam : q < nextTok
  BY HandlerFacts DEF Ready
<1>3. CASE h' = [h EXCEPT ![p].pc = "familyset", ![p].tok = t, ![p].seen = rt[t].flags]
  <2>2. rt[t].flags \in SUBSET {"used", "revoked"}
    BY <1>2, IdTypes, HandlerFacts DEF RefreshRec
  <2>3. PICK f \in HandlerRec : /\ f = [h[p] EXCEPT !.pc = "familyset", !.tok = t, !.seen = rt[t].flags]
                                /\ h' = [h EXCEPT ![p] = f]
    <3> DEFINE g == [h[p] EXCEPT !.pc = "familyset", !.tok = t, !.seen = rt[t].flags]
    <3>1. h[p] \in HandlerRec
      BY HandlerFacts
    <3>2. g \in HandlerRec
      BY ZenonT(60), <1>2, <2>2, <3>1 DEF HandlerRec, PCs
    <3>3. h' = [h EXCEPT ![p] = g]
      BY ZenonT(60), <1>3, HandlerFacts DEF TypeOK
    <3> QED BY ZenonT(60), <3>2, <3>3
  <2>4. Ready(f) /\ Covered(f)
    BY <1>0, <1>2, <2>3, HandlerFacts DEF Ready, Covered, HandlerRec
  <2> QED BY ZenonT(60), <1>0, <2>3, <2>4, HandlerStep
<1>4. CASE FamilyNext(p, h[p].fam \ {t})
  <2> DEFINE G == h[p].fam \ {t}
  <2>1. G \in SUBSET Toks /\ (\A q \in G : q < nextTok) /\ FamilyNext(p, G)
    BY SMTT(60), <1>2, <1>4
  <2> HIDE DEF G
  <2>2. PICK f \in HandlerRec : h' = [h EXCEPT ![p] = f] /\ Ready(f) /\ Covered(f)
    BY <1>0, <2>1, FamilyNextReady
  <2> QED BY ZenonT(60), <1>0, <2>2, HandlerStep
<1> QED BY <1>1, <1>3, <1>4

LEMMA RevokeFamilySetStep ==
    ASSUME SessionInv, NEW p \in Handlers, RevokeFamilySet(p)
    PROVE  SessionInv'
<1>0. /\ h[p].pc = "familyset" /\ h[p].tok \in Toks /\ h[p].tok < nextTok
      /\ h[p].seen \in SUBSET {"used", "revoked"} /\ FamilyNext(p, h[p].fam \ {h[p].tok})
      /\ UNCHANGED <<now, nextSid, nextTok, sess, blExp, atoks>>
  BY ZenonT(60), HandlerFacts DEF RevokeFamilySet, Ready, HandlerRec
<1> DEFINE t == h[p].tok
<1> DEFINE F == h[p].seen \cup {"revoked"}
<1> DEFINE e == rt[t].dexp
<1> DEFINE G == h[p].fam \ {t}
<1>1. G \in SUBSET Toks /\ (\A q \in G : q < nextTok) /\ FamilyNext(p, G)
  BY <1>0, HandlerFacts DEF Ready
<1>2. e \in Nat /\ F \in SUBSET {"used", "revoked"}
  BY ZenonT(60), <1>0, IdTypes, HandlerFacts
<1>3. rt' = [rt EXCEPT ![t].flags = F, ![t].exp = e] \/ rt' = rt
  BY DEF RevokeFamilySet
<1> HIDE DEF F, e, G
<1>4. PICK f \in HandlerRec : h' = [h EXCEPT ![p] = f] /\ Ready(f) /\ Covered(f)
  BY ZenonT(60), <1>0, <1>1, FamilyNextReady
<1>5. rt' \in [Toks -> RefreshRec] /\ IdsGenerated'
  <2>1. CASE rt' = [rt EXCEPT ![t].flags = F, ![t].exp = e]
    BY ZenonT(60), <1>0, <1>2, <2>1, FlagsKeep
  <2>2. CASE rt' = rt
    BY SMTT(60), <1>0, <2>2, HandlerFacts DEF TypeOK, IdsGenerated
  <2> QED BY <1>3, <2>1, <2>2
<1> QED BY ZenonT(60), <1>0, <1>4, <1>5, FlagsStep

LEMMA RestartStep == ASSUME SessionInv, Restart PROVE SessionInv'
<1>1. TypeOK'
  BY SMTT(60), IdleReady DEF SessionInv, TypeOK, Restart
<1>2. IdsGenerated' /\ TokensCovered'
  BY DEF SessionInv, IdsGenerated, TokensCovered, Restart
<1>3. ASSUME NEW q \in Handlers PROVE (Ready(h[q]) /\ Covered(h[q]))'
  <2>1. h'[q] = Idle /\ Ready(Idle) /\ Covered(Idle)
    BY ZenonT(60), IdleReady DEF Restart
  <2> QED BY ZenonT(60), <2>1 DEF Restart, Ready, Covered, Idle
<1> QED BY SMTT(60), <1>1, <1>2, <1>3 DEF SessionInv

LEMMA TickStep == ASSUME SessionInv, Tick PROVE SessionInv'
<1>1. TypeOK'
  <2>1. now \in Nat /\ now' = now + 1
    BY ZenonT(60) DEF SessionInv, TypeOK, Tick
  <2>2. now' \in Nat
    BY <2>1
  <2> QED BY ZenonT(60), <2>2 DEF SessionInv, TypeOK, Tick
<1>2. IdsGenerated'
  BY SMTT(60) DEF SessionInv, IdsGenerated, Tick
<1>3. TokensCovered'
  <2>1. ASSUME NEW a \in atoks
        PROVE  /\ a.exp <= now + 1 + AccessTTL
               /\ blExp[a.sid] > 0 => a.exp <= blExp[a.sid]
    BY IdTypes DEF SessionInv, TokensCovered
  <2> QED BY SMTT(60), <2>1 DEF Tick, TokensCovered
<1>4. ASSUME NEW q \in Handlers PROVE (Ready(h[q]) /\ Covered(h[q]))'
  <2>1. /\ Ready(h[q]) /\ Covered(h[q]) /\ h[q].start \in Nat /\ now \in Nat
    BY SMTT(60), HandlerFacts, IdTypes
  <2>2. UNCHANGED <<nextSid, nextTok, sess, blExp, h>> /\ now' = now + 1
    BY SMTT(60) DEF Tick
  <2>3. h[q].pc # "idle" => h[q].start <= now' /\ now' <= h[q].start + Latency
    BY SMTT(60), <2>1, <2>2 DEF Tick, Ready
  <2>4. Ready(h[q])'
    BY SMTT(60), <2>1, <2>2, <2>3 DEF Ready
  <2>5. Covered(h[q])'
    BY <2>1, <2>2 DEF Covered
  <2> QED BY SMTT(60), <2>4, <2>5
<1> QED BY ZenonT(60), <1>1, <1>2, <1>3, <1>4 DEF SessionInv

LEMMA RequestStep ==
    ASSUME SessionInv, NEW p \in Handlers, Request(p)
    PROVE  SessionInv'
BY ZenonT(60), LoginStep, OAuthIssueStep, HandleLogoutStep, DelegateStep, SwitchBranchStep,
   AdminRevokeStep, ValidateSessionStep, RefreshTokensStep, RevokeAllOrgSessionsStep
   DEF Request

LEMMA StepStep ==
    ASSUME SessionInv, NEW p \in Handlers, Step(p)
    PROVE  SessionInv'
BY ZenonT(60), ScanUserStep, RevokeDeleteStep, RevokeDeleteFailsStep, RevokeBlacklistStep,
   CreateSessionStep, IssueTokensStep, RequestFailsStep, IssueDelegatedStep,
   StoreSessionStep, UpdateGetStep, UpdateSetStep, DropSessionStep, CheckReuseStep,
   GetTokenSessionStep, MarkUsedGetStep, MarkUsedSetStep, RevokeFamilyGetStep,
   RevokeFamilySetStep DEF Step

\* SessionInv is inductive.
THEOREM SessionInvariant == Spec => []SessionInv
<1>1. Init => SessionInv
  <2> SUFFICES ASSUME Init PROVE SessionInv
    OBVIOUS
  <2>1. sess \in [Sids -> SessionRec] /\ rt \in [Toks -> RefreshRec]
    BY SMTT(60) DEF Init, SessionRec, RefreshRec
  <2>2. Idle \in HandlerRec
    BY DEF Idle, HandlerRec, PCs, AllOps
  <2>3. TypeOK
    BY SMTT(60), <2>1, <2>2 DEF Init, TypeOK
  <2>4. IdsGenerated /\ TokensCovered
    BY SMTT(60) DEF Init, IdsGenerated, TokensCovered, Sids, Toks
  <2>5. Ready(Idle) /\ Covered(Idle)
    <3>1. nextSid = 1 /\ nextTok = 1
      BY DEF Init
    <3> QED BY SMTT(60), <3>1, IdleIsReady
  <2> QED BY <2>3, <2>4, <2>5 DEF Init, SessionInv
<1>2. SessionInv /\ [Next]_vars => SessionInv'
  <2> SUFFICES ASSUME SessionInv, [Next]_vars PROVE SessionInv'
    OBVIOUS
  <2>1. CASE Next
    BY SMTT(60), <2>1, TickStep, RestartStep, RequestStep, StepStep DEF Next
  <2>2. CASE UNCHANGED vars
    <3>1. TypeOK' /\ IdsGenerated' /\ TokensCovered'
      BY ZenonT(60), <2>2 DEF vars, SessionInv, TypeOK, IdsGenerated, TokensCovered
    <3>2. ASSUME NEW q \in Handlers PROVE (Ready(h[q]) /\ Covered(h[q]))'
      BY <2>2 DEF vars, SessionInv, Ready, Covered
    <3> QED BY ZenonT(60), <3>1, <3>2 DEF SessionInv
  <2> QED BY <2>1, <2>2
<1> QED BY <1>1, <1>2, PTL DEF Spec

\* The variables stay within their types, for every instance.
THEOREM TypeCorrect == Spec => []TypeOK
<1>1. SessionInv => TypeOK
  BY DEF SessionInv
<1> QED BY <1>1, SessionInvariant, PTL

\* A blacklisted session never verifies again, although AddSession's entry
\* expires, RevokeSession is not atomic, requests that verified a token before
\* the revocation still sign tokens after it, and any Redis call may fail.
THEOREM RevocationFinal == Spec => []RevocationIsFinal
<1>1. SessionInv => RevocationIsFinal
  <2> SUFFICES ASSUME SessionInv, NEW a \in atoks, blExp[a.sid] > 0, VerifyAccessToken(a)
               PROVE  FALSE
    BY DEF RevocationIsFinal
  <2> QED BY VerifiedNotRevoked
<1> QED BY <1>1, SessionInvariant, PTL

\* MarkUsed and RevokeFamily each write back a copy they read earlier; whichever
\* write comes last, the token is still used or revoked.
THEOREM SpentForever == Spec => SpentIsForever
<1>1. SessionInv /\ [Next]_vars
        => [\A t \in Toks : rt[t].flags # {} => rt'[t].flags # {}]_vars
  <2> SUFFICES ASSUME SessionInv, Next, NEW t \in Toks, rt[t].flags # {}
               PROVE  rt'[t].flags # {}
    BY ZenonT(60) DEF vars
  <2>0. TypeOK /\ IdsGenerated
    BY DEF SessionInv
  <2>1. CASE rt' = rt
    BY ZenonT(60), <2>1
  <2>2. ASSUME NEW p \in Handlers, IssueTokens(p) PROVE rt'[t].flags # {}
    <3>1. t # nextTok
      <4>1. t < nextTok /\ nextTok \in Nat
        BY ZenonT(60), <2>0, IdTypes DEF IdsGenerated
      <4> QED BY <4>1
    <3>2. PICK r : rt' = [rt EXCEPT ![nextTok] = r]
      BY ZenonT(60), <2>2 DEF IssueTokens
    <3> QED BY <2>0, <3>1, <3>2 DEF TypeOK
  <2>3. ASSUME NEW p \in Handlers, MarkUsedSet(p) PROVE rt'[t].flags # {}
    <3>1. \/ rt' = rt
          \/ \E e : rt' = [rt EXCEPT ![h[p].tok].flags = h[p].seen \cup {"used"},
                                    ![h[p].tok].exp = e]
      BY ZenonT(60), <2>3 DEF MarkUsedSet
    <3>2. ASSUME NEW e, rt' = [rt EXCEPT ![h[p].tok].flags = h[p].seen \cup {"used"},
                                         ![h[p].tok].exp = e]
          PROVE  rt'[t].flags = rt[t].flags \/ rt'[t].flags = h[p].seen \cup {"used"}
      <4> DEFINE S == h[p].seen \cup {"used"}
      <4>1. rt' = [rt EXCEPT ![h[p].tok].flags = S, ![h[p].tok].exp = e]
        BY <3>2
      <4> HIDE DEF S
      <4>2. rt'[t].flags = rt[t].flags \/ rt'[t].flags = S
        BY <2>0, <4>1 DEF TypeOK, RefreshRec
      <4> QED BY <4>2 DEF S
    <3>3. h[p].seen \cup {"used"} # {}
      OBVIOUS
    <3> QED BY ZenonT(60), <3>1, <3>2, <3>3
  <2>4. ASSUME NEW p \in Handlers, RevokeFamilySet(p) PROVE rt'[t].flags # {}
    <3>1. \/ rt' = rt
          \/ \E e : rt' = [rt EXCEPT ![h[p].tok].flags = h[p].seen \cup {"revoked"},
                                    ![h[p].tok].exp = e]
      BY ZenonT(60), <2>4 DEF RevokeFamilySet
    <3>2. ASSUME NEW e, rt' = [rt EXCEPT ![h[p].tok].flags = h[p].seen \cup {"revoked"},
                                         ![h[p].tok].exp = e]
          PROVE  rt'[t].flags = rt[t].flags \/ rt'[t].flags = h[p].seen \cup {"revoked"}
      <4> DEFINE S == h[p].seen \cup {"revoked"}
      <4>1. rt' = [rt EXCEPT ![h[p].tok].flags = S, ![h[p].tok].exp = e]
        BY <3>2
      <4> HIDE DEF S
      <4>2. rt'[t].flags = rt[t].flags \/ rt'[t].flags = S
        BY <2>0, <4>1 DEF TypeOK, RefreshRec
      <4> QED BY <4>2 DEF S
    <3>3. h[p].seen \cup {"revoked"} # {}
      OBVIOUS
    <3> QED BY ZenonT(60), <3>1, <3>2, <3>3
  <2>5. ASSUME NEW p \in Handlers, Request(p) PROVE rt' = rt
    BY ZenonT(60), <2>5 DEF Request, Login, OAuthIssue, HandleLogout, Delegate, SwitchBranch,
       AdminRevoke, ValidateSession, RefreshTokens, RevokeAllOrgSessions
  <2>6. ASSUME NEW p \in Handlers, Step(p), ~IssueTokens(p), ~MarkUsedSet(p),
               ~RevokeFamilySet(p)
        PROVE  rt' = rt
    BY ZenonT(60), <2>6 DEF Step, ScanUser, RevokeDelete, RevokeDeleteFails, RevokeBlacklist,
       CreateSession, RequestFails, IssueDelegated, StoreSession, UpdateGet,
       UpdateSet, DropSession, CheckReuse, GetTokenSession, MarkUsedGet,
       RevokeFamilyGet
  <2> QED BY <2>1, <2>2, <2>3, <2>4, <2>5, <2>6 DEF Next, Tick, Restart
<1> QED BY <1>1, SessionInvariant, PTL DEF Spec, SpentIsForever

=============================================================================
