---------------------------- MODULE OAuthProofs ----------------------------
(***************************************************************************)
(* Codes and the tokens redeemed with them, for any number of handlers,    *)
(* clients, codes and tokens, any lifetime of a code and any latency.      *)
(*                                                                         *)
(* The properties speak of the table of codes and of the tokens answered.  *)
(* In between stand the handlers, which go on with the row they read: the  *)
(* inductive invariant says what such a copy still has to do with the row, *)
(* and how old the checks it passed can be.                                *)
(***************************************************************************)
EXTENDS OAuth, FiniteSetTheorems, TLAPS

\* The row and the copy differ in the used flag at most, and the verifier
\* answers the challenge.
CopyOK(f) ==
    /\ f.code \in Codes
    /\ f.ac.client = code[f.code].client /\ f.ac.client \in Clients
    /\ f.ac.uri = code[f.code].uri
    /\ f.ac.exp = code[f.code].exp /\ f.ac.exp > 0 /\ f.start <= f.ac.exp
    /\ code[f.code].challenge \in {None, f.verifier}

\* A request in flight: it is not older than Latency, and the client it will
\* name was active when it began or later.
FlightOK(f) ==
    /\ f.pc # "idle" => f.start <= now /\ now <= f.start + Latency
    /\ f.pc = "create" => f.client \in Clients
    /\ f.pc = "get" => f.code \in Codes
    /\ f.pc \in {"mark", "client", "issue"} => CopyOK(f)
    /\ f.pc \in {"client", "issue"} => f.uri = f.ac.uri
    /\ f.pc = "issue" => f.start <= LastActive(f.ac.client)
    /\ f.pc = "machine" => f.client \in Clients /\ f.start <= LastActive(f.client)

RowsOK ==
    \A k \in Codes : /\ code[k].used => code[k].exp > 0
                     /\ code[k].exp > 0 => code[k].client \in Clients

TokensOK ==
    /\ IsFiniteSet(issued)
    /\ \A t \in issued : t.code # 0 => code[t.code].exp > 0
    /\ TokenMatchesCode
    /\ IssuedInTime

OAuthInv ==
    /\ TypeOK
    /\ \A c \in Clients : active[c] <= now
    /\ RowsOK
    /\ TokensOK
    /\ \A p \in Handlers : FlightOK(h[p])

-----------------------------------------------------------------------------
(* Types.                                                                  *)

\* What the proofs use of the constants.
LEMMA Numbers ==
    ASSUME OAuthAssumption
    PROVE  /\ CodeTTL \in Nat /\ CodeTTL > 0 /\ Latency \in Nat
           /\ Codes \subseteq Nat /\ 0 \notin Codes
BY DEF OAuthAssumption, Codes

\* The records that stand for no row and no request have their types.
LEMMA EmptyTypes == NoCode \in CodeRec /\ Idle \in HandlerRec
<1>1. NoCode \in CodeRec
  BY DEF NoCode, CodeRec
<1> QED BY <1>1 DEF Idle, HandlerRec

\* The last activity of a client is a time, and not in the future.
LEMMA LastActiveType ==
    ASSUME OAuthInv, NEW c \in Clients
    PROVE  LastActive(c) \in Nat /\ LastActive(c) <= now
BY DEF OAuthInv, TypeOK, LastActive

\* No request is in flight on an idle handler.
LEMMA IdleFlight == FlightOK(Idle)
BY DEF FlightOK, Idle

-----------------------------------------------------------------------------
(* Frames: what a step that changes one part leaves true of the others.    *)

\* Rows are only ever marked.
RowsKept ==
    \A k \in Codes : code[k].exp > 0 =>
        /\ code'[k].client = code[k].client /\ code'[k].uri = code[k].uri
        /\ code'[k].challenge = code[k].challenge /\ code'[k].exp = code[k].exp

\* A request that does not move stays as it was.
LEMMA FlightKept ==
    ASSUME OAuthInv, NEW q \in Handlers, h'[q] = h[q], now' = now, RowsKept,
           \A c \in Clients : LastActive(c) <= LastActive(c)' /\ LastActive(c)' \in Nat
    PROVE  FlightOK(h[q])'
<1>1. FlightOK(h[q]) /\ h[q] \in HandlerRec
  BY DEF OAuthInv, TypeOK
<1>2. h[q].start \in Nat
  BY <1>1 DEF HandlerRec
<1>3. CopyOK(h[q]) => CopyOK(h[q])'
  BY DEF CopyOK, RowsKept
<1>4. ASSUME NEW c \in Clients, h[q].start <= LastActive(c)
      PROVE  h[q].start <= LastActive(c)'
  BY <1>2, <1>4, LastActiveType
<1>5. h[q].pc = "issue" => h[q].ac.client \in Clients
  BY <1>1 DEF FlightOK, CopyOK
<1> QED BY <1>1, <1>3, <1>4, <1>5 DEF FlightOK

\* Tokens answered earlier still match their rows.
LEMMA TokensKept ==
    ASSUME OAuthInv, RowsKept, issued' = issued
    PROVE  TokensOK'
<1>1. \A t \in issued : t.code # 0 => t.code \in Codes /\ code[t.code].exp > 0
  BY DEF OAuthInv, TypeOK, TokensOK, TokenRec
<1> QED BY <1>1 DEF OAuthInv, TokensOK, TokenMatchesCode, IssuedInTime, RowsKept

\* A step that only moves one handler, to a request in good order.
LEMMA HandlerStep ==
    ASSUME OAuthInv, NEW p \in Handlers, NEW f \in HandlerRec, FlightOK(f),
           h' = [h EXCEPT ![p] = f], UNCHANGED <<now, client, active, code, issued>>
    PROVE  OAuthInv'
<1>1. TypeOK'
  BY DEF OAuthInv, TypeOK
<1>2. (\A c \in Clients : active[c] <= now)' /\ RowsOK'
  BY DEF OAuthInv, RowsOK
<1>3. RowsKept
  BY DEF RowsKept
<1>4. TokensOK'
  BY <1>3, TokensKept
<1>5. \A c \in Clients : LastActive(c) <= LastActive(c)' /\ LastActive(c)' \in Nat
  BY LastActiveType DEF LastActive, IsActive
<1>6. ASSUME NEW q \in Handlers PROVE FlightOK(h[q])'
  <2>1. CASE q = p
    <3>1. h'[q] = f
      BY <2>1 DEF OAuthInv, TypeOK
    <3> QED BY <3>1 DEF FlightOK, CopyOK, LastActive, IsActive
  <2>2. CASE q # p
    <3>1. h'[q] = h[q]
      BY <2>2 DEF OAuthInv, TypeOK
    <3> QED BY <1>3, <1>5, <3>1, FlightKept
  <2> QED BY <2>1, <2>2
<1> QED BY <1>1, <1>2, <1>4, <1>6 DEF OAuthInv

-----------------------------------------------------------------------------
(* The actions.                                                            *)

\* A request begins: it is as old as the clock.
LEMMA BeginStep ==
    ASSUME OAuthAssumption, OAuthInv, NEW p \in Handlers, NEW op, NEW f \in HandlerRec,
           Begin(p, op, f), UNCHANGED <<now, client, active, code, issued>>,
           f.pc \in {"create", "nobranch", "get", "machine"},
           f.pc \in {"create", "machine"} => f.client \in Clients,
           f.pc = "get" => f.code \in Codes,
           f.pc = "machine" => IsActive(f.client)
    PROVE  OAuthInv'
<1> DEFINE g == [f EXCEPT !.start = now]
<1>1. now \in Nat /\ Latency \in Nat
  BY Numbers DEF OAuthInv, TypeOK
<1>2. /\ g \in HandlerRec /\ g.pc = f.pc /\ g.start = now
      /\ g.client = f.client /\ g.code = f.code
  BY <1>1 DEF HandlerRec
<1>3. h' = [h EXCEPT ![p] = g]
  BY DEF Begin
<1> HIDE DEF g
<1>4. FlightOK(g)
  BY <1>1, <1>2 DEF FlightOK, LastActive
<1> QED BY <1>2, <1>3, <1>4, HandlerStep

\* A request ends.
LEMMA FinishStep ==
    ASSUME OAuthInv, NEW p \in Handlers, Finish(p),
           UNCHANGED <<now, client, active, code, issued>>
    PROVE  OAuthInv'
BY HandlerStep, IdleFlight, EmptyTypes DEF Finish

\* handleAuthorizeWithSession.
LEMMA BeginAuthorize ==
    ASSUME OAuthAssumption, OAuthInv, NEW p \in Handlers, NEW c \in Clients,
           NEW uri \in URIs, NEW v \in Verifiers \cup {None},
           AuthorizeWithSession(p, c, uri, v)
    PROVE  OAuthInv'
<1> DEFINE f == [Idle EXCEPT !.pc = "create", !.client = c, !.uri = uri, !.verifier = v]
<1>1. f \in HandlerRec /\ f.pc = "create" /\ f.client = c
  BY EmptyTypes DEF HandlerRec, Idle
<1>2. /\ Begin(p, "authorize", f) /\ UNCHANGED <<now, client, active, code, issued>>
  BY DEF AuthorizeWithSession
<1> HIDE DEF f
<1> QED BY <1>1, <1>2, BeginStep

\* handleTokenExchange.
LEMMA BeginExchange ==
    ASSUME OAuthAssumption, OAuthInv, NEW p \in Handlers, NEW c \in Clients,
           NEW uri \in URIs, NEW v \in Verifiers \cup {None}, NEW k \in Codes,
           TokenExchange(p, c, k, uri, v)
    PROVE  OAuthInv'
<1> DEFINE f == [Idle EXCEPT !.pc = "get", !.code = k, !.uri = uri, !.verifier = v]
<1>1. f \in HandlerRec /\ f.pc = "get" /\ f.code = k
  BY EmptyTypes DEF HandlerRec, Idle
<1>2. /\ Begin(p, "exchange", f) /\ UNCHANGED <<now, client, active, code, issued>>
  BY DEF TokenExchange
<1> HIDE DEF f
<1> QED BY <1>1, <1>2, BeginStep

\* handleAuthorize.
LEMMA BeginBranchless ==
    ASSUME OAuthAssumption, OAuthInv, NEW p \in Handlers, NEW c \in Clients,
           NEW uri \in URIs,
           Authorize(p, c, uri)
    PROVE  OAuthInv'
<1> DEFINE f == [Idle EXCEPT !.pc = "nobranch"]
<1>1. f \in HandlerRec /\ f.pc = "nobranch"
  BY EmptyTypes DEF HandlerRec, Idle
<1>2. /\ Begin(p, "authorize", f) /\ UNCHANGED <<now, client, active, code, issued>>
  BY DEF Authorize
<1> HIDE DEF f
<1> QED BY <1>1, <1>2, BeginStep

\* handleClientCredentials.
LEMMA BeginMachine ==
    ASSUME OAuthAssumption, OAuthInv, NEW p \in Handlers, NEW c \in Clients,
           ClientCredentials(p, c)
    PROVE  OAuthInv'
<1> DEFINE f == [Idle EXCEPT !.pc = "machine", !.client = c]
<1>1. f \in HandlerRec /\ f.pc = "machine" /\ f.client = c
  BY EmptyTypes DEF HandlerRec, Idle
<1>2. /\ Begin(p, "machine", f) /\ UNCHANGED <<now, client, active, code, issued>>
      /\ IsActive(c)
  BY DEF ClientCredentials
<1> HIDE DEF f
<1> QED BY <1>1, <1>2, BeginStep

\* ExchangeAuthCode takes a copy of a row it accepts.
LEMMA GetStep ==
    ASSUME OAuthInv, NEW p \in Handlers, GetByCode(p)
    PROVE  OAuthInv'
<1> DEFINE k == h[p].code
           f == [h[p] EXCEPT !.pc = "mark", !.ac = code[k]]
<1>1. h[p] \in HandlerRec /\ FlightOK(h[p]) /\ h[p].pc = "get"
  BY DEF OAuthInv, TypeOK, GetByCode
<1>2. k \in Codes /\ h[p].start <= now /\ now <= h[p].start + Latency
  BY <1>1 DEF FlightOK
<1>3. code[k] \in CodeRec
  BY <1>2 DEF OAuthInv, TypeOK
<1>4. UNCHANGED <<now, client, active, code, issued>>
  BY DEF GetByCode
<1>5. CASE Redeemable(k, h[p].verifier)
  <2>1. h' = [h EXCEPT ![p] = f]
    BY <1>1, <1>5 DEF GetByCode, OAuthInv, TypeOK
  <2>2. /\ f \in HandlerRec /\ f.pc = "mark" /\ f.code = k /\ f.ac = code[k]
        /\ f.start = h[p].start /\ f.verifier = h[p].verifier
    BY <1>1, <1>3 DEF HandlerRec
  <2>3. h[p].start \in Nat /\ now \in Nat /\ code[k].exp \in Nat
    BY <1>1, <1>3 DEF HandlerRec, CodeRec, OAuthInv, TypeOK
  <2>4. /\ code[k].exp > 0 /\ now <= code[k].exp
        /\ code[k].challenge \in {None, h[p].verifier}
    BY <1>5 DEF Redeemable, VerifyCodeChallenge
  <2>5. code[k].client \in Clients
    BY <1>2, <2>4 DEF OAuthInv, RowsOK
  <2> HIDE DEF f, k
  <2>6. CopyOK(f)
    BY <1>2, <2>2, <2>3, <2>4, <2>5 DEF CopyOK
  <2>7. FlightOK(f)
    BY <1>2, <2>2, <2>6 DEF FlightOK
  <2> QED BY <1>4, <2>1, <2>2, <2>7, HandlerStep
<1>6. CASE ~Redeemable(k, h[p].verifier)
  <2>1. Finish(p)
    BY <1>6 DEF GetByCode, Finish
  <2> QED BY <1>4, <2>1, FinishStep
<1> QED BY <1>5, <1>6

\* A step that writes one row and moves one handler.
LEMMA RowStep ==
    ASSUME OAuthInv, NEW p \in Handlers, NEW f \in HandlerRec,
           h' = [h EXCEPT ![p] = f], FlightOK(h[p])', code' \in [Codes -> CodeRec],
           RowsKept, RowsOK', UNCHANGED <<now, client, active, issued>>
    PROVE  OAuthInv'
<1>1. TypeOK'
  BY DEF OAuthInv, TypeOK
<1>2. (\A c \in Clients : active[c] <= now)'
  BY DEF OAuthInv
<1>3. TokensOK'
  BY TokensKept
<1>4. \A c \in Clients : LastActive(c) <= LastActive(c)' /\ LastActive(c)' \in Nat
  BY LastActiveType DEF LastActive, IsActive
<1>5. ASSUME NEW q \in Handlers, q # p PROVE FlightOK(h[q])'
  <2>1. h'[q] = h[q]
    BY <1>5 DEF OAuthInv, TypeOK
  <2> QED BY <1>4, <2>1, FlightKept
<1> QED BY <1>1, <1>2, <1>3, <1>5 DEF OAuthInv

\* After MarkUsed, whether it failed or not: the handler has its copy still, and
\* the addresses agree.
LEMMA AfterMarkStep ==
    ASSUME OAuthInv, NEW p \in Handlers, h[p].pc = "mark", AfterMark(p)
    PROVE  \E f \in HandlerRec : h' = [h EXCEPT ![p] = f] /\ FlightOK(f)
<1> DEFINE f == [h[p] EXCEPT !.pc = "client"]
<1>1. h[p] \in HandlerRec /\ FlightOK(h[p])
  BY DEF OAuthInv, TypeOK
<1>2. CASE h[p].uri = h[p].ac.uri
  <2>1. h' = [h EXCEPT ![p] = f]
    BY <1>2 DEF AfterMark, Goto, OAuthInv, TypeOK
  <2>2. /\ f \in HandlerRec /\ f.pc = "client" /\ f.code = h[p].code
        /\ f.ac = h[p].ac /\ f.uri = h[p].uri /\ f.start = h[p].start
        /\ f.verifier = h[p].verifier
    BY <1>1 DEF HandlerRec
  <2> HIDE DEF f
  <2>3. CopyOK(f)
    BY <1>1, <2>2 DEF FlightOK, CopyOK
  <2>4. FlightOK(f)
    BY <1>1, <1>2, <2>2, <2>3 DEF FlightOK
  <2> QED BY <2>1, <2>2, <2>4
<1>3. CASE h[p].uri # h[p].ac.uri
  <2>1. h' = [h EXCEPT ![p] = Idle]
    BY <1>3 DEF AfterMark, Finish
  <2> QED BY <2>1, IdleFlight, EmptyTypes
<1> QED BY <1>2, <1>3

\* MarkUsed changes the flag and nothing a copy or a token is compared with.
LEMMA MarkStep ==
    ASSUME OAuthInv, NEW p \in Handlers, MarkUsed(p)
    PROVE  OAuthInv'
<1> DEFINE k == h[p].code
<1>1. h[p].pc = "mark" /\ AfterMark(p) /\ UNCHANGED <<now, client, active, issued>>
  BY DEF MarkUsed
<1>2. PICK f \in HandlerRec : h' = [h EXCEPT ![p] = f] /\ FlightOK(f)
  BY <1>1, AfterMarkStep
<1>3. h'[p] = f
  BY <1>2 DEF OAuthInv, TypeOK
<1>4. FlightOK(h[p])
  BY DEF OAuthInv
<1>5. k \in Codes /\ code[k].exp > 0
  BY <1>1, <1>4 DEF FlightOK, CopyOK
<1>6. code' = [code EXCEPT ![k].used = TRUE]
  BY DEF MarkUsed
<1> HIDE DEF k
<1>7. code' \in [Codes -> CodeRec]
  BY <1>5, <1>6 DEF OAuthInv, TypeOK, CodeRec
<1>8. \A j \in Codes : /\ code'[j].client = code[j].client /\ code'[j].uri = code[j].uri
                       /\ code'[j].challenge = code[j].challenge
                       /\ code'[j].exp = code[j].exp
                       /\ j # k => code'[j].used = code[j].used
  BY <1>5, <1>6 DEF OAuthInv, TypeOK, CodeRec
<1>9. RowsKept /\ RowsOK'
  BY <1>5, <1>8 DEF RowsKept, RowsOK, OAuthInv
<1>10. FlightOK(h[p])'
  BY <1>1, <1>2, <1>3, <1>8 DEF FlightOK, CopyOK, LastActive, IsActive
<1> QED BY <1>1, <1>2, <1>7, <1>9, <1>10, RowStep

\* A code is inserted under a number no row has.
LEMMA CreateStep ==
    ASSUME OAuthAssumption, OAuthInv, NEW p \in Handlers, CreateAuthCode(p)
    PROVE  OAuthInv'
<1> DEFINE row == [client |-> h[p].client, uri |-> h[p].uri,
                   challenge |-> h[p].verifier, exp |-> now + CodeTTL, used |-> FALSE]
<1>1. PICK k \in Codes : code[k].exp = 0 /\ code' = [code EXCEPT ![k] = row]
  BY DEF CreateAuthCode
<1>2. h' = [h EXCEPT ![p] = Idle] /\ UNCHANGED <<now, client, active, issued>>
  BY DEF CreateAuthCode, Finish
<1>3. h[p] \in HandlerRec /\ FlightOK(h[p]) /\ h[p].pc = "create" /\ now \in Nat
  BY DEF OAuthInv, TypeOK, CreateAuthCode
<1>4. h[p].client \in Clients
  BY <1>3 DEF FlightOK
<1>5. now + CodeTTL \in Nat /\ now + CodeTTL > 0
  BY <1>3, Numbers
<1>6. row \in CodeRec /\ row.client \in Clients /\ row.exp > 0 /\ row.used = FALSE
  BY <1>3, <1>4, <1>5 DEF HandlerRec, CodeRec
<1> HIDE DEF row
<1>7. code' \in [Codes -> CodeRec]
  BY <1>1, <1>6 DEF OAuthInv, TypeOK
<1>8. code'[k] = row /\ \A j \in Codes : j # k => code'[j] = code[j]
  BY <1>1 DEF OAuthInv, TypeOK
<1>9. RowsKept
  BY <1>1, <1>8 DEF RowsKept
<1>10. RowsOK'
  BY <1>6, <1>8 DEF RowsOK, OAuthInv
<1>11. h'[p] = Idle
  BY <1>2 DEF OAuthInv, TypeOK
<1>12. FlightOK(h[p])'
  BY <1>11 DEF FlightOK, Idle
<1> QED BY <1>2, <1>7, <1>9, <1>10, <1>12, EmptyTypes, RowStep

\* GetByClientID found the client of the code active.
LEMMA CheckStep ==
    ASSUME OAuthInv, NEW p \in Handlers, CheckClient(p)
    PROVE  OAuthInv'
<1> DEFINE f == [h[p] EXCEPT !.pc = "issue"]
<1>1. h[p] \in HandlerRec /\ FlightOK(h[p]) /\ h[p].pc = "client"
  BY DEF OAuthInv, TypeOK, CheckClient
<1>2. UNCHANGED <<now, client, active, code, issued>>
  BY DEF CheckClient
<1>3. CASE IsActive(h[p].ac.client)
  <2>1. h' = [h EXCEPT ![p] = f]
    BY <1>3 DEF CheckClient, Goto, OAuthInv, TypeOK
  <2>2. /\ f \in HandlerRec /\ f.pc = "issue" /\ f.code = h[p].code
        /\ f.ac = h[p].ac /\ f.uri = h[p].uri /\ f.start = h[p].start
        /\ f.verifier = h[p].verifier
    BY <1>1 DEF HandlerRec
  <2> HIDE DEF f
  <2>3. CopyOK(f)
    BY <1>1, <2>2 DEF FlightOK, CopyOK
  <2>4. FlightOK(f)
    BY <1>1, <1>3, <2>2, <2>3 DEF FlightOK, LastActive
  <2> QED BY <1>2, <2>1, <2>2, <2>4, HandlerStep
<1>4. CASE ~IsActive(h[p].ac.client)
  <2>1. Finish(p)
    BY <1>4 DEF CheckClient
  <2> QED BY <1>2, <2>1, FinishStep
<1> QED BY <1>3, <1>4

\* A token in good order is answered.
LEMMA AnswerStep ==
    ASSUME OAuthInv, NEW p \in Handlers, NEW t \in TokenRec, issued' = issued \cup {t},
           Finish(p), UNCHANGED <<now, client, active, code>>,
           t.at <= t.seen + Latency,
           t.code # 0 => /\ t.client = code[t.code].client /\ t.uri = code[t.code].uri
                         /\ code[t.code].challenge \in {None, t.verifier}
                         /\ code[t.code].exp > 0 /\ t.at <= code[t.code].exp + Latency
    PROVE  OAuthInv'
<1>1. TypeOK'
  BY EmptyTypes DEF OAuthInv, TypeOK, Finish
<1>2. (\A c \in Clients : active[c] <= now)' /\ RowsOK'
  BY DEF OAuthInv, RowsOK
<1>3. IsFiniteSet(issued')
  BY FS_AddElement DEF OAuthInv, TokensOK
<1>4. TokensOK'
  BY <1>3 DEF OAuthInv, TokensOK, TokenMatchesCode, IssuedInTime
<1>5. RowsKept
  BY DEF RowsKept
<1>6. \A c \in Clients : LastActive(c) <= LastActive(c)' /\ LastActive(c)' \in Nat
  BY LastActiveType DEF LastActive, IsActive
<1>7. ASSUME NEW q \in Handlers PROVE FlightOK(h[q])'
  <2>1. CASE q = p
    <3>1. h'[q] = Idle
      BY <2>1 DEF OAuthInv, TypeOK, Finish
    <3> QED BY <3>1 DEF FlightOK, Idle
  <2>2. CASE q # p
    <3>1. h'[q] = h[q]
      BY <2>2 DEF OAuthInv, TypeOK, Finish
    <3> QED BY <1>5, <1>6, <3>1, FlightKept
  <2> QED BY <2>1, <2>2
<1> QED BY <1>1, <1>2, <1>4, <1>7 DEF OAuthInv

\* The token of a redeemed code: the copy vouches for the row, and the age of the
\* request for the checks.
LEMMA IssueStep ==
    ASSUME OAuthAssumption, OAuthInv, NEW p \in Handlers, IssueTokens(p)
    PROVE  OAuthInv'
<1> DEFINE k == h[p].code
           c == h[p].ac.client
           t == [jti |-> NextJti, code |-> k, client |-> c, uri |-> h[p].uri,
                 verifier |-> h[p].verifier, at |-> now, seen |-> LastActive(c)]
<1>1. h[p] \in HandlerRec /\ FlightOK(h[p]) /\ h[p].pc = "issue"
  BY DEF OAuthInv, TypeOK, IssueTokens
<1>2. CopyOK(h[p]) /\ h[p].uri = h[p].ac.uri
  BY <1>1 DEF FlightOK
<1>3. /\ now <= h[p].start + Latency /\ h[p].start <= LastActive(c)
      /\ h[p].start <= code[k].exp
  BY <1>1, <1>2 DEF FlightOK, CopyOK
<1>4. NextJti \in Nat
  BY FS_CardinalityType DEF OAuthInv, TokensOK, NextJti
<1>5. c \in Clients /\ k \in Codes
  BY <1>2 DEF CopyOK
<1>6. /\ now \in Nat /\ LastActive(c) \in Nat /\ h[p].start \in Nat /\ Latency \in Nat
      /\ code[k].exp \in Nat
  BY <1>1, <1>5, LastActiveType, Numbers DEF OAuthInv, TypeOK, HandlerRec, CodeRec
<1>7. now <= LastActive(c) + Latency /\ now <= code[k].exp + Latency
  BY <1>3, <1>6
<1>8. t \in TokenRec
  BY <1>1, <1>4, <1>5, <1>6 DEF TokenRec, HandlerRec
<1>9. /\ t.code = k /\ t.client = c /\ t.uri = h[p].uri /\ t.verifier = h[p].verifier
      /\ t.at = now /\ t.seen = LastActive(c)
  OBVIOUS
<1>10. issued' = issued \cup {t} /\ Finish(p) /\ UNCHANGED <<now, client, active, code>>
  BY DEF IssueTokens
<1> HIDE DEF t
<1>11. /\ t.client = code[t.code].client /\ t.uri = code[t.code].uri
       /\ code[t.code].challenge \in {None, t.verifier} /\ code[t.code].exp > 0
  BY <1>2, <1>9 DEF CopyOK
<1> QED BY <1>7, <1>8, <1>9, <1>10, <1>11, AnswerStep

\* The token of a machine, or none.
LEMMA MachineStep ==
    ASSUME OAuthAssumption, OAuthInv, NEW p \in Handlers, IssueMachine(p)
    PROVE  OAuthInv'
<1> DEFINE c == h[p].client
           t == [jti |-> NextJti, code |-> 0, client |-> c, uri |-> NoURI,
                 verifier |-> None, at |-> now, seen |-> LastActive(c)]
<1>1. h[p] \in HandlerRec /\ FlightOK(h[p]) /\ h[p].pc = "machine"
  BY DEF OAuthInv, TypeOK, IssueMachine
<1>2. c \in Clients /\ h[p].start <= LastActive(c) /\ now <= h[p].start + Latency
  BY <1>1 DEF FlightOK
<1>3. /\ now \in Nat /\ LastActive(c) \in Nat /\ h[p].start \in Nat /\ Latency \in Nat
  BY <1>1, <1>2, LastActiveType, Numbers DEF OAuthInv, TypeOK, HandlerRec
<1>4. NextJti \in Nat
  BY FS_CardinalityType DEF OAuthInv, TokensOK, NextJti
<1>5. t \in TokenRec /\ t.code = 0 /\ t.at = now /\ t.seen = LastActive(c)
  BY <1>2, <1>3, <1>4 DEF TokenRec
<1>6. Finish(p) /\ UNCHANGED <<now, client, active, code>>
  BY DEF IssueMachine
<1>7. issued' = issued \cup {t} \/ issued' = issued
  BY DEF IssueMachine
<1> HIDE DEF t
<1>8. t.at <= t.seen + Latency
  BY <1>2, <1>3, <1>5
<1>9. CASE issued' = issued \cup {t}
  BY <1>5, <1>6, <1>8, <1>9, AnswerStep
<1>10. CASE issued' = issued
  BY <1>6, <1>10, FinishStep
<1> QED BY <1>7, <1>9, <1>10

\* A client row changes; the moment it was last active is kept.
LEMMA ClientStep ==
    ASSUME OAuthInv, NEW c \in Clients, NEW row \in ClientRec,
           client' = [client EXCEPT ![c] = row],
           \/ active' = [active EXCEPT ![c] = LastActive(c)]
           \/ row.state = "active" /\ active' = active,
           UNCHANGED <<now, code, issued, h>>
    PROVE  OAuthInv'
<1>1. now \in Nat /\ active \in [Clients -> Nat] /\ client \in [Clients -> ClientRec]
  BY DEF OAuthInv, TypeOK
<1>2. LastActive(c) \in Nat /\ LastActive(c) <= now
  BY LastActiveType
<1>3. TypeOK'
  BY <1>2 DEF OAuthInv, TypeOK
<1>4. \A d \in Clients : active'[d] \in Nat /\ active'[d] <= now
  BY <1>1, <1>2 DEF OAuthInv
<1>5. RowsOK' /\ RowsKept
  BY DEF OAuthInv, RowsOK, RowsKept
<1>6. TokensOK'
  BY <1>5, TokensKept
<1>7. ASSUME NEW d \in Clients
      PROVE  LastActive(d) <= LastActive(d)' /\ LastActive(d)' \in Nat
  <2>1. LastActive(d) \in Nat /\ LastActive(d) <= now
    BY LastActiveType
  <2>2. CASE d = c
    <3>1. client'[d] = row
      BY <1>1, <2>2
    <3>2. CASE row.state = "active"
      BY <1>1, <2>1, <3>1, <3>2 DEF LastActive, IsActive
    <3>3. CASE row.state # "active"
      <4>1. active'[d] = LastActive(d)
        BY <1>1, <2>2, <3>3
      <4> QED BY <2>1, <3>1, <3>3, <4>1 DEF LastActive, IsActive
    <3> QED BY <3>2, <3>3
  <2>3. CASE d # c
    <3>1. client'[d] = client[d] /\ active'[d] = active[d]
      BY <1>1, <2>3
    <3> QED BY <2>1, <3>1 DEF LastActive, IsActive
  <2> QED BY <2>2, <2>3
<1>8. \A q \in Handlers : FlightOK(h[q])'
  BY <1>5, <1>7, FlightKept
<1> QED BY <1>3, <1>4, <1>5, <1>6, <1>8 DEF OAuthInv

\* Registration, the callbacks' update and their delete.
LEMMA LifecycleStep ==
    ASSUME OAuthInv, NEW c \in Clients, NEW us \in SUBSET Hosts, NEW on \in BOOLEAN,
           NEW grants, NEW type,
           \/ RegisterClient(c, us, grants) \/ WfCreateClient(c, us, type)
           \/ UpdateClient(c, us, on) \/ DeleteClient(c)
    PROVE  OAuthInv'
<1>1. client \in [Clients -> ClientRec] /\ client[c] \in ClientRec
  BY DEF OAuthInv, TypeOK
<1>2. ASSUME NEW m \in BOOLEAN, InsertClient(c, NewClient(us, m)) PROVE OAuthInv'
  <2>1. NewClient(us, m) \in ClientRec /\ NewClient(us, m).state = "active"
    BY ZenonT(30) DEF NewClient, ClientRec
  <2> QED BY <1>2, <2>1, ClientStep DEF InsertClient
<1>3. CASE RegisterClient(c, us, grants)
  <2>1. ("client_credentials" \in grants) \in BOOLEAN
    OBVIOUS
  <2> QED BY ZenonT(30), <1>2, <1>3, <2>1 DEF RegisterClient
<1>4. CASE WfCreateClient(c, us, type)
  BY <1>2, <1>4 DEF WfCreateClient
<1>5. CASE UpdateClient(c, us, on)
  <2>1. Edited(client[c], us, on) \in ClientRec
    BY <1>1 DEF Edited, ClientRec
  <2>2. client' = [client EXCEPT ![c] = Edited(client[c], us, on)]
    BY <1>5 DEF UpdateClient
  <2> QED BY <1>5, <2>1, <2>2, ClientStep DEF UpdateClient
<1>6. CASE DeleteClient(c)
  <2>1. [client[c] EXCEPT !.state = "deleted"] \in ClientRec
    BY <1>1 DEF ClientRec
  <2>2. client' = [client EXCEPT ![c] = [client[c] EXCEPT !.state = "deleted"]]
    BY <1>6 DEF DeleteClient
  <2> QED BY <1>6, <2>1, <2>2, ClientStep DEF DeleteClient
<1> QED BY <1>3, <1>4, <1>5, <1>6

\* The clock moves while every request has time left.
LEMMA TickStep ==
    ASSUME OAuthAssumption, OAuthInv, Tick
    PROVE  OAuthInv'
<1>1. now \in Nat /\ Latency \in Nat /\ now' = now + 1
  BY Numbers DEF OAuthInv, TypeOK, Tick
<1>2. TypeOK' /\ RowsOK' /\ RowsKept
  BY <1>1 DEF OAuthInv, TypeOK, RowsOK, RowsKept, Tick
<1>3. TokensOK'
  BY <1>2, TokensKept DEF Tick
<1>4. (\A c \in Clients : active[c] <= now)'
  BY <1>1 DEF OAuthInv, TypeOK, Tick
<1>5. ASSUME NEW c \in Clients PROVE LastActive(c) <= LastActive(c)'
  BY <1>1, LastActiveType DEF LastActive, IsActive, Tick, OAuthInv, TypeOK
<1>6. ASSUME NEW q \in Handlers PROVE FlightOK(h[q])'
  <2>1. h'[q] = h[q] /\ h[q] \in HandlerRec /\ FlightOK(h[q])
    BY DEF OAuthInv, TypeOK, Tick
  <2>2. h[q].start \in Nat
    BY <2>1 DEF HandlerRec
  <2>3. h[q].pc # "idle" => h[q].start <= now' /\ now' <= h[q].start + Latency
    BY <1>1, <2>1, <2>2 DEF FlightOK, Tick
  <2>4. CopyOK(h[q]) => CopyOK(h[q])'
    BY <2>1 DEF CopyOK, Tick
  <2>5. ASSUME NEW c \in Clients, h[q].start <= LastActive(c)
        PROVE  h[q].start <= LastActive(c)'
    <3>1. LastActive(c) \in Nat /\ LastActive(c)' \in Nat
      BY <1>1, LastActiveType DEF LastActive, IsActive, Tick, OAuthInv, TypeOK
    <3> QED BY <1>5, <2>2, <2>5, <3>1
  <2>6. h[q].pc = "issue" => h[q].ac.client \in Clients
    BY <2>1 DEF FlightOK, CopyOK
  <2> QED BY <2>1, <2>3, <2>4, <2>5, <2>6 DEF FlightOK
<1> QED BY <1>2, <1>3, <1>4, <1>6 DEF OAuthInv

-----------------------------------------------------------------------------
(* The theorems.                                                           *)

\* OAuthInv holds at the start and every step keeps it.
LEMMA OAuthInvariant == ASSUME OAuthAssumption PROVE Spec => []OAuthInv
<1>1. Init => OAuthInv
  <2> SUFFICES ASSUME Init PROVE OAuthInv
    OBVIOUS
  <2>1. TypeOK
    <3>1. [state |-> "none", uris |-> {}, machine |-> FALSE] \in ClientRec
      BY ZenonT(30) DEF ClientRec
    <3> QED BY <3>1, EmptyTypes DEF Init, TypeOK
  <2>2. RowsOK
    BY DEF Init, RowsOK, NoCode
  <2>3. TokensOK
    BY FS_EmptySet DEF Init, TokensOK, TokenMatchesCode, IssuedInTime
  <2>4. \A p \in Handlers : FlightOK(h[p])
    BY IdleFlight DEF Init
  <2>5. \A c \in Clients : active[c] <= now
    BY DEF Init
  <2> QED BY <2>1, <2>2, <2>3, <2>4, <2>5 DEF OAuthInv
<1>2. OAuthInv /\ [Next]_vars => OAuthInv'
  <2> SUFFICES ASSUME OAuthInv, [Next]_vars PROVE OAuthInv'
    OBVIOUS
  <2>1. CASE Tick
    BY <2>1, TickStep
  <2>2. ASSUME NEW c \in Clients, DeleteClient(c) PROVE OAuthInv'
    BY <2>2, LifecycleStep
  <2>3. ASSUME NEW c \in Clients, NEW us \in SUBSET Hosts,
               \/ \E grants \in SUBSET Grants : RegisterClient(c, us, grants)
               \/ \E type \in ClientTypes : WfCreateClient(c, us, type)
               \/ \E on \in BOOLEAN : UpdateClient(c, us, on)
        PROVE  OAuthInv'
    BY <2>3, LifecycleStep
  <2>4. ASSUME NEW p \in Handlers, NEW c \in Clients, NEW uri \in URIs,
               NEW v \in Verifiers \cup {None}, AuthorizeWithSession(p, c, uri, v)
        PROVE  OAuthInv'
    BY <2>4, BeginAuthorize
  <2>5. ASSUME NEW p \in Handlers, NEW c \in Clients, NEW uri \in URIs,
               NEW v \in Verifiers \cup {None}, NEW k \in Codes,
               TokenExchange(p, c, k, uri, v)
        PROVE  OAuthInv'
    BY <2>5, BeginExchange
  <2>6. ASSUME NEW p \in Handlers, NEW c \in Clients, NEW uri \in URIs,
               Authorize(p, c, uri)
        PROVE  OAuthInv'
    BY <2>6, BeginBranchless
  <2>7. ASSUME NEW p \in Handlers, NEW c \in Clients, ClientCredentials(p, c)
        PROVE  OAuthInv'
    BY <2>7, BeginMachine
  <2>8. ASSUME NEW p \in Handlers, CreateFails(p) PROVE OAuthInv'
    BY <2>8, FinishStep DEF CreateFails
  <2>9. ASSUME NEW p \in Handlers, MarkUsedFails(p) PROVE OAuthInv'
    BY <2>9, AfterMarkStep, HandlerStep DEF MarkUsedFails
  <2>10. CASE UNCHANGED vars
    BY <2>10 DEF vars, OAuthInv, TypeOK, RowsOK, TokensOK, TokenMatchesCode, IssuedInTime,
       FlightOK, CopyOK, LastActive, IsActive
  <2> QED BY <2>1, <2>2, <2>3, <2>4, <2>5, <2>6, <2>7, <2>8, <2>9, <2>10, CreateStep,
             GetStep, MarkStep, CheckStep, IssueStep, MachineStep DEF Next
<1> QED BY <1>1, <1>2, PTL DEF Spec

\* Whoever redeems a code, and whatever runs beside it, a token carries the
\* client, the address and the verifier its code was made with.
THEOREM TokensFollowCodes == ASSUME OAuthAssumption PROVE Spec => []TokenMatchesCode
<1>1. OAuthInv => TokenMatchesCode
  BY DEF OAuthInv, TokensOK
<1> QED BY <1>1, OAuthInvariant, PTL

\* The checks of a request are never older than the request when its token is
\* answered: neither the expiry of the code nor the state of the client.
THEOREM TokensInTime == ASSUME OAuthAssumption PROVE Spec => []IssuedInTime
<1>1. OAuthInv => IssuedInTime
  BY DEF OAuthInv, TokensOK
<1> QED BY <1>1, OAuthInvariant, PTL

\* An exchange at work on a code was there before, or the code is not used.
LEMMA RedeemingKept ==
    ASSUME OAuthInv, Next, NEW k \in Codes, NEW q \in Handlers, code[k].used,
           h'[q].code = k, h'[q].pc \in {"mark", "client", "issue"}
    PROVE  h[q].code = k /\ h[q].pc \in {"mark", "client", "issue"}
<1>1. h \in [Handlers -> HandlerRec] /\ h[q] \in HandlerRec
  BY DEF OAuthInv, TypeOK
<1> DEFINE Same == h'[q].code = h[q].code /\ h'[q].pc = h[q].pc
<1>2. ASSUME NEW p \in Handlers, NEW f, h' = [h EXCEPT ![p] = f],
             f.pc \in {"idle", "create", "nobranch", "get", "machine"}
      PROVE  Same
  BY <1>1, <1>2
<1>3. Idle.pc = "idle"
  BY DEF Idle
<1>4. ASSUME NEW p \in Handlers, Finish(p) PROVE Same
  BY <1>2, <1>3, <1>4 DEF Finish
<1>5. ASSUME NEW p \in Handlers, NEW op, NEW f \in HandlerRec, Begin(p, op, f),
             f.pc \in {"create", "nobranch", "get", "machine"}
      PROVE  Same
  <2>1. [f EXCEPT !.start = now].pc = f.pc
    BY <1>5 DEF HandlerRec
  <2> QED BY <1>2, <1>5, <2>1 DEF Begin
<1>6. ASSUME NEW p \in Handlers, NEW pc, Goto(p, pc),
             h[p].pc \in {"mark", "client"}
      PROVE  h[q].code = k /\ h[q].pc \in {"mark", "client", "issue"}
  BY <1>1, <1>6 DEF Goto, HandlerRec
<1>7. CASE h' = h
  BY <1>7
<1>8. ASSUME NEW p \in Handlers, GetByCode(p) PROVE Same
  <2>1. CASE Redeemable(h[p].code, h[p].verifier)
    <3>1. h' = [h EXCEPT ![p] = [h[p] EXCEPT !.pc = "mark", !.ac = code[h[p].code]]]
      BY <1>8, <2>1 DEF GetByCode
    <3>2. q = p => h'[q].code = h[q].code
      BY <1>1, <3>1 DEF HandlerRec
    <3>3. q # p
      BY <2>1, <3>2 DEF Redeemable
    <3> QED BY <1>1, <3>1, <3>3
  <2>2. CASE ~Redeemable(h[p].code, h[p].verifier)
    BY <1>4, <1>8, <2>2 DEF GetByCode, Finish
  <2> QED BY <2>1, <2>2
<1>9. ASSUME NEW p \in Handlers, NEW c \in Clients, NEW uri \in URIs,
             NEW v \in Verifiers \cup {None}, NEW j \in Codes,
             \/ AuthorizeWithSession(p, c, uri, v) \/ TokenExchange(p, c, j, uri, v)
      PROVE  Same
  <2>1. [Idle EXCEPT !.pc = "create", !.client = c, !.uri = uri, !.verifier = v].pc = "create"
    BY DEF Idle
  <2>2. [Idle EXCEPT !.pc = "get", !.code = j, !.uri = uri, !.verifier = v].pc = "get"
    BY DEF Idle
  <2>3. /\ [Idle EXCEPT !.pc = "create", !.client = c, !.uri = uri, !.verifier = v] \in HandlerRec
        /\ [Idle EXCEPT !.pc = "get", !.code = j, !.uri = uri, !.verifier = v] \in HandlerRec
    BY EmptyTypes DEF HandlerRec, Idle
  <2> QED BY <1>5, <1>9, <2>1, <2>2, <2>3 DEF AuthorizeWithSession, TokenExchange
<1>10. ASSUME NEW p \in Handlers, NEW c \in Clients, NEW uri,
              Authorize(p, c, uri) \/ ClientCredentials(p, c)
       PROVE  Same
  <2>1. /\ [Idle EXCEPT !.pc = "nobranch"].pc = "nobranch"
        /\ [Idle EXCEPT !.pc = "machine", !.client = c].pc = "machine"
        /\ [Idle EXCEPT !.pc = "nobranch"] \in HandlerRec
        /\ [Idle EXCEPT !.pc = "machine", !.client = c] \in HandlerRec
    BY EmptyTypes DEF HandlerRec, Idle
  <2> QED BY <1>5, <1>10, <2>1 DEF Authorize, ClientCredentials
<1>11. ASSUME NEW c \in Clients, NEW us \in SUBSET Hosts,
              \/ \E grants \in SUBSET Grants : RegisterClient(c, us, grants)
              \/ \E type \in ClientTypes : WfCreateClient(c, us, type)
              \/ \E on \in BOOLEAN : UpdateClient(c, us, on)
       PROVE  h' = h
  BY ZenonT(30), <1>11 DEF RegisterClient, WfCreateClient, InsertClient, UpdateClient
<1>12. ASSUME NEW c \in Clients, DeleteClient(c) PROVE h' = h
  BY <1>12 DEF DeleteClient
<1>13. Tick => h' = h
  BY DEF Tick
<1>14. ASSUME NEW p \in Handlers, \/ CreateAuthCode(p) \/ CreateFails(p)
                                  \/ IssueTokens(p) \/ IssueMachine(p)
       PROVE  Same
  <2>1. Finish(p)
    BY ZenonT(30), <1>14 DEF CreateAuthCode, CreateFails, IssueTokens, IssueMachine
  <2> QED BY <1>4, <2>1
<1>15. ASSUME NEW p \in Handlers, MarkUsed(p) \/ MarkUsedFails(p) \/ CheckClient(p)
       PROVE  h[q].code = k /\ h[q].pc \in {"mark", "client", "issue"}
  <2>1. /\ h[p].pc \in {"mark", "client"}
        /\ Finish(p) \/ Goto(p, "client") \/ Goto(p, "issue")
    BY ZenonT(30), <1>15 DEF MarkUsed, MarkUsedFails, AfterMark, CheckClient
  <2> QED BY <1>4, <1>6, <2>1
<1> HIDE DEF Same
<1>16. Same => h[q].code = k /\ h[q].pc \in {"mark", "client", "issue"}
  BY DEF Same
<1> QED BY <1>7, <1>8, <1>9, <1>10, <1>11, <1>14, <1>15, <1>16, <1>12, <1>13 DEF Next

\* A row that is used stays used.
LEMMA UsedKept ==
    ASSUME OAuthInv, Next, NEW k \in Codes, code[k].used
    PROVE  code'[k].used
<1>1. code \in [Codes -> CodeRec] /\ code[k].exp > 0 /\ code[k] \in CodeRec
  BY DEF OAuthInv, TypeOK, RowsOK
<1>2. CASE code' = code
  BY <1>2
<1>3. ASSUME NEW p \in Handlers, CreateAuthCode(p) PROVE code'[k].used
  <2>1. PICK j \in Codes : code[j].exp = 0 /\ \E row : code' = [code EXCEPT ![j] = row]
    BY <1>3 DEF CreateAuthCode
  <2>2. j # k
    BY <1>1, <2>1 DEF CodeRec
  <2> QED BY <1>1, <2>1, <2>2
<1>4. ASSUME NEW p \in Handlers, MarkUsed(p) PROVE code'[k].used
  BY <1>1, <1>4 DEF MarkUsed, CodeRec
<1>5. code' = code \/ \E p \in Handlers : CreateAuthCode(p) \/ MarkUsed(p)
  BY ZenonT(60) DEF Next, Tick, RegisterClient, WfCreateClient, InsertClient, UpdateClient,
     DeleteClient, AuthorizeWithSession, TokenExchange, Authorize, ClientCredentials,
     CreateFails, GetByCode, MarkUsedFails, CheckClient, IssueTokens, IssueMachine
<1> QED BY <1>2, <1>3, <1>4, <1>5

\* A token answered for a code comes from an exchange at work on that code.
LEMMA TokensFromExchange ==
    ASSUME OAuthAssumption, OAuthInv, Next, NEW k \in Codes, Redeeming(k) = {}
    PROVE  Tokens(k)' = Tokens(k)
<1>1. k # 0
  BY Numbers
<1>2. CASE issued' = issued
  BY <1>2 DEF Tokens
<1>3. ASSUME NEW p \in Handlers, IssueTokens(p) PROVE Tokens(k)' = Tokens(k)
  <2>1. h[p].code # k
    BY <1>3 DEF IssueTokens, Redeeming
  <2> QED BY <1>3, <2>1 DEF IssueTokens, Tokens
<1>4. ASSUME NEW p \in Handlers, IssueMachine(p) PROVE Tokens(k)' = Tokens(k)
  BY <1>1, <1>4 DEF IssueMachine, Tokens
<1>5. issued' = issued \/ \E p \in Handlers : IssueTokens(p) \/ IssueMachine(p)
  BY ZenonT(60) DEF Next, Tick, RegisterClient, WfCreateClient, InsertClient, UpdateClient,
     DeleteClient, AuthorizeWithSession, TokenExchange, Authorize, ClientCredentials,
     CreateAuthCode, CreateFails, GetByCode, MarkUsed, MarkUsedFails, CheckClient
<1> QED BY <1>2, <1>3, <1>4, <1>5

\* Once a code is marked and no exchange has it in hand, no behaviour brings it
\* back: nothing accepts it and no token is added to those it gave.
THEOREM SettledForever == ASSUME OAuthAssumption PROVE Spec => SettledIsFinal
<1>1. OAuthInv /\ [Next]_vars => [SettledStep]_vars
  <2> SUFFICES ASSUME OAuthInv, Next PROVE SettledStep
    OBVIOUS
  <2> SUFFICES ASSUME NEW k \in Codes, Settled(k)
               PROVE  Settled(k)' /\ Tokens(k)' = Tokens(k)
    BY DEF SettledStep
  <2>1. code[k].used /\ Redeeming(k) = {}
    BY DEF Settled
  <2>2. code'[k].used
    BY <2>1, UsedKept
  <2>3. Redeeming(k)' = {}
    BY <2>1, RedeemingKept DEF Redeeming
  <2>4. Tokens(k)' = Tokens(k)
    BY <2>1, TokensFromExchange
  <2> QED BY <2>2, <2>3, <2>4 DEF Settled
<1> QED BY <1>1, OAuthInvariant, PTL DEF Spec, SettledIsFinal

=============================================================================
