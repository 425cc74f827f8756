-------------------------------- MODULE MFA --------------------------------
(***************************************************************************)
(* The second factors of one user: the services of internal/service/mfa    *)
(* (TOTP, backup codes, email codes, step-up, setup) and the MFA handlers  *)
(* of internal/api/rest/auth.go, as concurrent requests.                   *)
(*                                                                         *)
(* A row of mfa_configs is read whole and written back whole.  The clock   *)
(* counts TOTP periods of 30 s, and a TOTP code is named by its period; a  *)
(* code outside the window stands for a wrong one.  A backup code is the   *)
(* pair of its generation and its place.  Enroll passes a fixed secret to  *)
(* the generator, so a secret is only present or absent.  A lookup that    *)
(* fails and a request refused at once change nothing and are no steps.    *)
(***************************************************************************)
EXTENDS Naturals, Sequences, FiniteSets, FiniteSetsExt

CONSTANTS
    Handlers,       \* requests running at once
    None,
    Ops,            \* the operations of this instance
    MaxTime,        \* bound on the clock, in TOTP periods
    MaxGen,         \* bound on the generations of backup codes
    PerGen,         \* backup codes of a generation (10 in the code)
    MaxOtp,         \* bound on the email codes
    Limit,          \* email codes allowed in a window (3 in the code)
    CurrentSchema,  \* TRUE: the tables of migrations/, FALSE: of migrations/.archive
    Failures        \* TRUE: a store may fail, a request may be cut off

AllOps == {"enroll", "enable", "verify", "generate", "redeem", "email", "otp",
           "stepup", "setup_totp", "setup_email_otp", "setup_backup", "setup_other",
           "mfaverify", "disable"}

MFAAssumption ==
    /\ Ops \subseteq AllOps
    /\ {MaxTime, MaxGen, PerGen, MaxOtp, Limit} \subseteq Nat
    /\ {CurrentSchema, Failures} \subseteq BOOLEAN

VARIABLES
    cfg,        \* the user's row of mfa_configs, or None
    user,       \* mfa_enabled and mfa_method of the users row
    now,
    replay,     \* Redis mfa:totp:replay: code |-> when the key expires
    gen,        \* generations of backup codes made
    latest,     \* the generation the last Generate stored (history)
    rate,       \* Redis rate_limit:mfa:email_otp:rate, with or without a TTL
    otp,        \* Redis mfa:email_otp:code: the code whose hash it holds
    otps,       \* email codes made
    rows,       \* email_otp_codes: the codes of the rows still active
    stepup,     \* Redis mfa:stepup exists
    log,        \* what was accepted, and what is owed (history)
    at          \* the requests

vars == <<cfg, user, now, replay, gen, latest, rate, otp, otps, rows, stepup, log, at>>

Periods == 0 .. MaxTime + 1
BackupCodes == (1 .. MaxGen) \X (1 .. PerGen)
Methods == {"none", "totp", "email_otp", "backup", "other"}
Config == [secret : BOOLEAN, totp : BOOLEAN, email : BOOLEAN, backup : BOOLEAN,
           codes : SUBSET BackupCodes]
Blank == [secret |-> FALSE, totp |-> FALSE, email |-> FALSE, backup |-> FALSE, codes |-> {}]
User == [mfa : BOOLEAN, method : Methods]
Off == [mfa |-> FALSE, method |-> "none"]
Idle == [pc |-> "idle", op |-> None, arg |-> None, cfg |-> None, usr |-> Off,
         step |-> FALSE, setup |-> None]

\* No operation inserts a row of mfa_configs (GetByUserID answers a missing
\* row with an error): it is there from outside, or never.
Init ==
    /\ cfg \in {None, Blank} /\ user = Off /\ now = 0
    /\ replay = [k \in Periods |-> 0]
    /\ gen = 0 /\ latest = 0
    /\ rate = [n |-> 0, ttl |-> FALSE] /\ otp = None /\ otps = 0 /\ rows = {}
    /\ stepup = FALSE
    /\ log = [totp |-> [k \in Periods |-> <<>>],
              backup |-> [c \in BackupCodes |-> 0], otp |-> [i \in 1 .. MaxOtp |-> 0],
              owed |-> FALSE, off |-> FALSE]
    /\ at = [h \in Handlers |-> Idle]

-----------------------------------------------------------------------------
(* Requests.                                                               *)

At(h, pc) == at[h].pc = pc
Goto(h, pc) == at' = [at EXCEPT ![h].pc = pc]
Quiet == \A h \in Handlers : At(h, "idle")

\* A request of its own, or the service called from StepUpAuth or SetupMFA.
Called(h, op, arg) ==
    \/ At(h, "idle") /\ op \in Ops
    \/ At(h, "inner") /\ at[h].op = op /\ at[h].arg = arg
Enter(h, op, arg, pc) ==
    at' = [at EXCEPT ![h] = [@ EXCEPT !.pc = pc, !.op = op, !.arg = arg, !.cfg = cfg]]
\* The service succeeded: back to its caller.
Return(h) ==
    at' = [at EXCEPT ![h] =
        IF at[h].step THEN [Idle EXCEPT !.pc = "stepdel"]
        ELSE IF at[h].setup # None THEN [Idle EXCEPT !.pc = "setupwrite", !.setup = at[h].setup]
        ELSE Idle]
\* The request ends with an error; a step-up leaves its key behind.
Refuse(h) ==
    /\ at' = [at EXCEPT ![h] = Idle]
    /\ log' = [log EXCEPT !.owed = @ \/ at[h].step]

\* MFAConfigRepository.Update: WHERE user_id = $1, the whole row.
Update(c) ==
    /\ cfg' = IF cfg = None THEN None ELSE c
    /\ log' = [log EXCEPT !.off = FALSE]

HasTOTP(c) == c.totp /\ c.secret
\* MFAConfig.IsFullyEnabled
IsFullyEnabled(c) == HasTOTP(c) \/ c.email \/ (c.backup /\ c.codes # {})
\* totp.Validate: a skew of one period on either side.
Validate(k) == k \in {now - 1, now, now + 1}

Tick ==
    /\ now < MaxTime
    /\ now' = now + 1
    /\ UNCHANGED <<cfg, user, replay, gen, latest, rate, otp, otps, rows, stepup, log, at>>

-----------------------------------------------------------------------------
(* TOTPService.                                                            *)

Enroll(h) ==
    /\ cfg # None /\ Called(h, "enroll", None) /\ Enter(h, "enroll", None, "enroll")
    /\ UNCHANGED <<cfg, user, now, replay, gen, latest, rate, otp, otps, rows, stepup, log>>
EnrollWrite(h) ==
    /\ At(h, "enroll") /\ Return(h)
    /\ Update([at[h].cfg EXCEPT !.secret = TRUE, !.totp = FALSE])
    /\ UNCHANGED <<user, now, replay, gen, latest, rate, otp, otps, rows, stepup>>

CanEnable(k) == cfg # None /\ cfg.secret /\ Validate(k)
Enable(h, k) ==
    /\ CanEnable(k) /\ Called(h, "enable", k) /\ Enter(h, "enable", k, "replay")
    /\ UNCHANGED <<cfg, user, now, replay, gen, latest, rate, otp, otps, rows, stepup, log>>

CanVerify(k) == cfg # None /\ HasTOTP(cfg) /\ Validate(k)
VerifyTOTP(h, k) ==
    /\ CanVerify(k) /\ Called(h, "verify", k) /\ Enter(h, "verify", k, "replay")
    /\ UNCHANGED <<cfg, user, now, replay, gen, latest, rate, otp, otps, rows, stepup, log>>

\* Both ask Redis for the replay key, then set it for 30 s: one period.
ReplayGet(h) ==
    /\ At(h, "replay")
    /\ IF replay[at[h].arg] > now THEN Refuse(h) ELSE Goto(h, "mark") /\ UNCHANGED log
    /\ UNCHANGED <<cfg, user, now, replay, gen, latest, rate, otp, otps, rows, stepup>>
ReplaySet(h) ==
    /\ At(h, "mark")
    /\ replay' = [replay EXCEPT ![at[h].arg] = now + 1]
    /\ log' = [log EXCEPT !.totp[at[h].arg] = IF Len(@) < 2 THEN Append(@, now) ELSE @]
    /\ IF at[h].op = "enable" THEN Goto(h, "enablewrite") ELSE Return(h)
    /\ UNCHANGED <<cfg, user, now, gen, latest, rate, otp, otps, rows, stepup>>
EnableWrite(h) ==
    /\ At(h, "enablewrite") /\ Return(h)
    /\ Update([at[h].cfg EXCEPT !.totp = TRUE])
    /\ UNCHANGED <<user, now, replay, gen, latest, rate, otp, otps, rows, stepup>>

-----------------------------------------------------------------------------
(* BackupCodeService.                                                      *)

\* Generate makes the codes first, then reads the row.
Generate(h) ==
    /\ cfg # None /\ gen < MaxGen
    /\ Called(h, "generate", None) /\ Enter(h, "generate", gen + 1, "store")
    /\ gen' = gen + 1
    /\ UNCHANGED <<cfg, user, now, replay, latest, rate, otp, otps, rows, stepup, log>>
GenerateWrite(h) ==
    /\ At(h, "store") /\ Return(h)
    /\ Update([at[h].cfg EXCEPT !.codes = {at[h].arg} \X (1 .. PerGen), !.backup = TRUE])
    /\ latest' = at[h].arg
    /\ UNCHANGED <<user, now, replay, gen, rate, otp, otps, rows, stepup>>

CanRedeem(c) == cfg # None /\ cfg.backup /\ c \in cfg.codes
\* BackupCodeService.Verify
Redeem(h, c) ==
    /\ CanRedeem(c) /\ Called(h, "redeem", c) /\ Enter(h, "redeem", c, "redeem")
    /\ UNCHANGED <<cfg, user, now, replay, gen, latest, rate, otp, otps, rows, stepup, log>>
RedeemWrite(h) ==
    /\ At(h, "redeem") /\ Return(h)
    /\ cfg' = IF cfg = None THEN None ELSE [at[h].cfg EXCEPT !.codes = @ \ {at[h].arg}]
    /\ log' = [log EXCEPT !.off = FALSE, !.backup[at[h].arg] = IF @ < 2 THEN @ + 1 ELSE @]
    /\ UNCHANGED <<user, now, replay, gen, latest, rate, otp, otps, rows, stepup>>

-----------------------------------------------------------------------------
(* EmailOTPService and RedisRateLimiter.                                   *)

\* Allow: INCR, and EXPIRE only when the counter was new.  The counter is
\* not told apart beyond the first one refused.
EmailGenerate(h) ==
    /\ At(h, "idle") /\ "email" \in Ops /\ otps < MaxOtp
    /\ rate' = [rate EXCEPT !.n = IF @ > Limit THEN @ ELSE @ + 1]
    /\ at' = [at EXCEPT ![h] =
          IF rate.n = 0 THEN [Idle EXCEPT !.pc = "expire"]
          ELSE IF rate.n < Limit THEN [Idle EXCEPT !.pc = "otpset"] ELSE Idle]
    /\ UNCHANGED <<cfg, user, now, replay, gen, latest, otp, otps, rows, stepup, log>>
RateTTL(h) ==
    /\ At(h, "expire") /\ Goto(h, "otpset")
    /\ rate' = [rate EXCEPT !.ttl = rate.n > 0]
    /\ UNCHANGED <<cfg, user, now, replay, gen, latest, otp, otps, rows, stepup, log>>
\* The error of EXPIRE is dropped.
RateTTLFails(h) ==
    /\ Failures /\ At(h, "expire") /\ Goto(h, "otpset")
    /\ UNCHANGED <<cfg, user, now, replay, gen, latest, rate, otp, otps, rows, stepup, log>>
OtpSet(h) ==
    /\ At(h, "otpset")
    /\ IF otps < MaxOtp
       THEN /\ otps' = otps + 1 /\ otp' = otps + 1
            /\ at' = [at EXCEPT ![h].pc = "otprow", ![h].arg = otps + 1]
       ELSE at' = [at EXCEPT ![h] = Idle] /\ UNCHANGED <<otp, otps>>
    /\ UNCHANGED <<cfg, user, now, replay, gen, latest, rate, rows, stepup, log>>
\* The INSERT names the column code and a purpose outside the enumeration,
\* which the tables of migrations/ refuse.
OtpRow(h) ==
    /\ At(h, "otprow")
    /\ at' = [at EXCEPT ![h] = Idle]
    /\ rows' = IF CurrentSchema THEN rows ELSE rows \cup {at[h].arg}
    /\ UNCHANGED <<cfg, user, now, replay, gen, latest, rate, otp, otps, stepup, log>>

\* EmailOTPService.Verify, for the purpose the codes are made with.  (The
\* email branch of HandleMFAVerify compares the code with its own bcrypt
\* hash and never accepts.)
EmailVerify(h, i) ==
    /\ otp = i /\ Called(h, "otp", i) /\ Enter(h, "otp", i, "otpdel")
    /\ UNCHANGED <<cfg, user, now, replay, gen, latest, rate, otp, otps, rows, stepup, log>>
OtpDel(h) ==
    /\ At(h, "otpdel") /\ Goto(h, "otpmark") /\ otp' = None
    /\ UNCHANGED <<cfg, user, now, replay, gen, latest, rate, otps, rows, stepup, log>>
\* GetActiveByUserID, MarkUsed: the newest active row, whichever it is.
OtpMark(h) ==
    /\ At(h, "otpmark") /\ Return(h)
    /\ rows' = IF rows = {} THEN rows ELSE rows \ {Max(rows)}
    /\ log' = [log EXCEPT !.otp[at[h].arg] = IF @ < 2 THEN @ + 1 ELSE @]
    /\ UNCHANGED <<cfg, user, now, replay, gen, latest, rate, otp, otps, stepup>>

RateExpires ==
    /\ rate.ttl /\ rate' = [n |-> 0, ttl |-> FALSE]
    /\ UNCHANGED <<cfg, user, now, replay, gen, latest, otp, otps, rows, stepup, log, at>>
OtpExpires ==
    /\ otp # None /\ otp' = None /\ rows' = {i \in rows : i > otp}
    /\ UNCHANGED <<cfg, user, now, replay, gen, latest, rate, otps, stepup, log, at>>

-----------------------------------------------------------------------------
(* StepUpAuth and SetupMFA.                                                *)

\* The key is set before the factor is verified.  No email code is made for
\* the purpose StepUpAuth verifies, so its email method always fails.
StepUpAuth(h, op, arg) ==
    /\ At(h, "idle") /\ "stepup" \in Ops
    /\ cfg # None /\ IsFullyEnabled(cfg)
    /\ stepup' = TRUE
    /\ at' = [at EXCEPT ![h] = [Idle EXCEPT !.pc = "inner", !.op = op, !.arg = arg, !.step = TRUE]]
    /\ UNCHANGED <<cfg, user, now, replay, gen, latest, rate, otp, otps, rows, log>>
InnerFails(h) ==
    /\ At(h, "inner")
    /\ CASE at[h].op = "verify" -> ~CanVerify(at[h].arg)
         [] at[h].op = "redeem" -> ~CanRedeem(at[h].arg)
         [] at[h].op = "enable" -> ~CanEnable(at[h].arg)
         [] at[h].op = "generate" -> cfg = None \/ gen = MaxGen
         [] OTHER -> TRUE
    /\ Refuse(h)
    /\ UNCHANGED <<cfg, user, now, replay, gen, latest, rate, otp, otps, rows, stepup>>
StepUpDel(h) ==
    /\ At(h, "stepdel") /\ stepup' = FALSE
    /\ at' = [at EXCEPT ![h] = Idle]
    /\ log' = [log EXCEPT !.owed = FALSE]
    /\ UNCHANGED <<cfg, user, now, replay, gen, latest, rate, otp, otps, rows>>
\* The key lives for 15 minutes, longer than any request.
StepUpExpires ==
    /\ \A h \in Handlers : ~at[h].step
    /\ stepup /\ stepup' = FALSE /\ log' = [log EXCEPT !.owed = FALSE]
    /\ UNCHANGED <<cfg, user, now, replay, gen, latest, rate, otp, otps, rows, at>>

\* SetupMFA reads the row, calls the service, which reads and writes it
\* itself, and then writes what it read with its own flag set.
SetupMFA(h, method, k) ==
    /\ At(h, "idle") /\ "setup_" \o method \in Ops
    /\ at' = [at EXCEPT ![h] = [Idle EXCEPT
          !.setup = [method |-> method, cfg |-> IF cfg = None THEN Blank ELSE cfg],
          !.pc = IF method \in {"totp", "backup"} THEN "inner" ELSE "setupwrite",
          !.op = CASE method = "totp" -> "enable" [] method = "backup" -> "generate" [] OTHER -> None,
          !.arg = IF method = "totp" THEN k ELSE None]]
    /\ UNCHANGED <<cfg, user, now, replay, gen, latest, rate, otp, otps, rows, stepup, log>>
SetupWrite(h) ==
    /\ At(h, "setupwrite") /\ Goto(h, "userread")
    /\ LET s == at[h].setup
       IN  Update([s.cfg EXCEPT !.totp = @ \/ s.method = "totp", !.email = @ \/ s.method = "email_otp",
                                !.backup = @ \/ s.method = "backup"])
    /\ UNCHANGED <<user, now, replay, gen, latest, rate, otp, otps, rows, stepup>>

-----------------------------------------------------------------------------
(* HandleMFAVerify, HandleMFADisable and the users row.                    *)

HandleMFAVerify(h, k) ==
    /\ At(h, "idle") /\ "mfaverify" \in Ops /\ CanVerify(k)
    /\ at' = [at EXCEPT ![h] = [Idle EXCEPT !.pc = "userread", !.op = "mfaverify"]]
    /\ UNCHANGED <<cfg, user, now, replay, gen, latest, rate, otp, otps, rows, stepup, log>>
HandleMFADisable(h) ==
    /\ At(h, "idle") /\ "disable" \in Ops /\ cfg # None
    /\ at' = [at EXCEPT ![h] = [Idle EXCEPT !.pc = "clear", !.op = "disable"]]
    /\ UNCHANGED <<cfg, user, now, replay, gen, latest, rate, otp, otps, rows, stepup, log>>
\* The secret is written as NULL; the columns of migrations/ are NOT NULL.
DisableWrite(h) ==
    /\ At(h, "clear")
    /\ IF CurrentSchema
       THEN Refuse(h) /\ UNCHANGED cfg
       ELSE cfg' = Blank /\ log' = [log EXCEPT !.off = TRUE] /\ Goto(h, "userread")
    /\ UNCHANGED <<user, now, replay, gen, latest, rate, otp, otps, rows, stepup>>

UserRead(h) ==
    /\ At(h, "userread")
    /\ at' = [at EXCEPT ![h].pc = "userwrite", ![h].usr = user]
    /\ UNCHANGED <<cfg, user, now, replay, gen, latest, rate, otp, otps, rows, stepup, log>>
UserWrite(h) ==
    /\ At(h, "userwrite")
    /\ user' = CASE at[h].op = "disable" -> Off
                 [] at[h].op = "mfaverify" -> [at[h].usr EXCEPT !.mfa = TRUE]
                 [] OTHER -> [mfa |-> TRUE, method |-> at[h].setup.method]
    /\ at' = [at EXCEPT ![h] = Idle]
    /\ UNCHANGED <<cfg, now, replay, gen, latest, rate, otp, otps, rows, stepup, log>>

\* A store fails or the request is cut off.
Fail(h) ==
    /\ Failures /\ ~At(h, "idle") /\ Refuse(h)
    /\ UNCHANGED <<cfg, user, now, replay, gen, latest, rate, otp, otps, rows, stepup>>

-----------------------------------------------------------------------------
Service(h) ==
    \/ Enroll(h) \/ EnrollWrite(h) \/ ReplayGet(h) \/ ReplaySet(h) \/ EnableWrite(h)
    \/ \E k \in Periods : Enable(h, k) \/ VerifyTOTP(h, k)
    \/ Generate(h) \/ GenerateWrite(h) \/ RedeemWrite(h) \/ \E c \in BackupCodes : Redeem(h, c)
    \/ EmailGenerate(h) \/ RateTTL(h) \/ RateTTLFails(h) \/ OtpSet(h) \/ OtpRow(h)
    \/ OtpDel(h) \/ OtpMark(h) \/ \E i \in 1 .. MaxOtp : EmailVerify(h, i)
    \/ \E k \in Periods : StepUpAuth(h, "verify", k)
    \/ \E c \in BackupCodes : StepUpAuth(h, "redeem", c)
    \/ StepUpAuth(h, "email", None) \/ InnerFails(h) \/ StepUpDel(h)
    \/ \E k \in Periods : SetupMFA(h, "totp", k)
    \/ \E m \in {"email_otp", "backup", "other"} : SetupMFA(h, m, None)
    \/ SetupWrite(h)
Handler(h) ==
    \/ \E k \in Periods : HandleMFAVerify(h, k)
    \/ HandleMFADisable(h) \/ DisableWrite(h) \/ UserRead(h) \/ UserWrite(h)
    \/ Fail(h)
Clock == Tick \/ RateExpires \/ OtpExpires \/ StepUpExpires
Next == Clock \/ \E h \in Handlers : Service(h) \/ Handler(h)

Spec == Init /\ [][Next]_vars

-----------------------------------------------------------------------------
\* Every variable has its type.  The counter of the limiter stays within one
\* of the limit.
TypeOK ==
    /\ cfg \in Config \cup {None} /\ user \in User /\ now \in 0 .. MaxTime
    /\ replay \in [Periods -> 0 .. MaxTime + 1] /\ gen \in 0 .. MaxGen /\ latest \in 0 .. gen
    /\ rate \in [n : 0 .. Limit + 1, ttl : BOOLEAN] /\ otps \in 0 .. MaxOtp
    /\ otp \in (1 .. otps) \cup {None} /\ rows \subseteq 1 .. otps /\ stepup \in BOOLEAN

\* The TOTP service accepts a code again only after its replay key expired.
TotpSpaced == \A k \in Periods : Len(log.totp[k]) = 2 => log.totp[k][1] < log.totp[k][2]
\* A backup code is accepted once (BackupCodeService.Verify).
BackupOnce == \A c \in BackupCodes : log.backup[c] <= 1
\* Storing new backup codes leaves no code of an earlier generation
\* (BackupCodeService.Generate).
CodesCurrent == cfg # None => \A c \in cfg.codes : c[1] = latest
\* An email code is accepted once, and the row marked used is its own
\* (EmailOTPService.Verify).
OtpOnce == \A i \in 1 .. MaxOtp : log.otp[i] <= 1 /\ (Quiet /\ log.otp[i] = 1 => i \notin rows)
=============================================================================
