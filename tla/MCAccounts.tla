----------------------------- MODULE MCAccounts ----------------------------
(* For TLC: an account, the counters that lock it, and its second factors.  *)
(* A behaviour runs one of the settings below; the variables of the other   *)
(* components are then None.                                                *)
EXTENDS TLC

CONSTANTS None, One, Two, Initial, Other, Another, Tokens

VARIABLES setting, user, cred, history, token, session, temp, locked, req,
          failures, ip, login, total,
          cfg, flags, now, replay, gen, latest, rate, otp, otps, rows, stepup, log, at

accountVars == <<user, cred, history, token, session, temp, locked, req>>
bruteVars == <<failures, ip, login, total>>
mfaVars == <<cfg, flags, now, replay, gen, latest, rate, otp, otps, rows, stepup, log, at>>
vars == <<setting, accountVars, bruteVars, mfaVars>>

\* Two REST requests at once, failing anywhere.
Rest == INSTANCE Account WITH
    Handlers <- Two, Passwords <- {Other}, HistoryCount <- 1, TokenColumn <- TRUE,
    Ops <- {"register", "create", "forgot", "reset", "change", "initial", "login", "lock",
            "profile", "delete"},
    Failures <- TRUE
\* Two requests of IdentityService's users, failing anywhere.
Service == INSTANCE Account WITH
    Handlers <- Two, Passwords <- {Other}, HistoryCount <- 1, TokenColumn <- TRUE,
    Ops <- {"create", "forgot", "register", "verify", "sreset", "schange", "initial", "login"},
    Failures <- TRUE
\* One REST request at a time.
Serial == INSTANCE Account WITH
    Handlers <- One, Passwords <- {Initial, Other, Another}, HistoryCount <- 1,
    TokenColumn <- TRUE, Failures <- FALSE,
    Ops <- {"register", "create", "forgot", "reset", "change", "initial", "login", "lock",
            "unlock", "suspend", "profile", "delete"}
\* The same with the columns migrations/ gives verification_tokens.
Hashed == INSTANCE Account WITH
    Handlers <- One, Passwords <- {Initial, Other}, HistoryCount <- 1, TokenColumn <- FALSE,
    Ops <- {"register", "create", "forgot", "reset", "initial", "login"}, Failures <- FALSE
\* Two logins of one user at once, while Redis may fail.
Brute == INSTANCE BruteForce WITH
    Handlers <- Two, Users <- One, Addresses <- One, MaxCount <- 8, Failures <- TRUE,
    user <- failures, req <- login
\* The second factors, one request at a time: TOTP over three periods, the
\* ways to set MFA up and to disable it, backup codes, email codes, and
\* disabling with the columns of migrations/.
Totp == INSTANCE MFA WITH
    Handlers <- One, Ops <- {"enroll", "enable", "verify", "stepup"}, MaxTime <- 2, MaxGen <- 0,
    PerGen <- 0, MaxOtp <- 0, Limit <- 1, CurrentSchema <- FALSE, Failures <- FALSE, user <- flags
Setup == INSTANCE MFA WITH
    Handlers <- One, MaxTime <- 0, MaxGen <- 2, PerGen <- 1, MaxOtp <- 0, Limit <- 1,
    Ops <- {"enroll", "generate", "setup_totp", "setup_email_otp", "setup_backup", "setup_other",
            "mfaverify", "disable"},
    CurrentSchema <- FALSE, Failures <- FALSE, user <- flags
Backup == INSTANCE MFA WITH
    Handlers <- One, Ops <- {"generate", "redeem", "stepup", "disable"}, MaxTime <- 0,
    MaxGen <- 3, PerGen <- 2, MaxOtp <- 0, Limit <- 1, CurrentSchema <- FALSE, Failures <- FALSE,
    user <- flags
Email == INSTANCE MFA WITH
    Handlers <- One, Ops <- {"email", "otp"}, MaxTime <- 0, MaxGen <- 0, PerGen <- 0,
    MaxOtp <- 5, Limit <- 2, CurrentSchema <- FALSE, Failures <- TRUE, user <- flags
Columns == INSTANCE MFA WITH
    Handlers <- One, Ops <- {"enroll", "mfaverify", "disable"}, MaxTime <- 0, MaxGen <- 0,
    PerGen <- 0, MaxOtp <- 0, Limit <- 1, CurrentSchema <- TRUE, Failures <- FALSE, user <- flags

ASSUME /\ Rest!AccountAssumption /\ Service!AccountAssumption /\ Serial!AccountAssumption
       /\ Hashed!AccountAssumption
       /\ Brute!BruteForceAssumption
       /\ Totp!MFAAssumption /\ Setup!MFAAssumption /\ Backup!MFAAssumption
       /\ Email!MFAAssumption /\ Columns!MFAAssumption

AccountOff == /\ user = None /\ cred = None /\ history = None /\ token = None
              /\ session = None /\ temp = None /\ locked = None /\ req = None
BruteOff == failures = None /\ ip = None /\ login = None /\ total = None
MFAOff == /\ cfg = None /\ flags = None /\ now = None /\ replay = None /\ gen = None
          /\ latest = None /\ rate = None /\ otp = None /\ otps = None /\ rows = None
          /\ stepup = None /\ log = None /\ at = None

Init ==
    \/ /\ BruteOff /\ MFAOff
       /\ \/ setting = "rest" /\ Rest!Init
          \/ setting = "service" /\ Service!Init
          \/ setting = "serial" /\ Serial!Init
          \/ setting = "hashed" /\ Hashed!Init
    \/ setting = "brute" /\ Brute!Init /\ AccountOff /\ MFAOff
    \/ /\ AccountOff /\ BruteOff
       /\ \/ setting = "totp" /\ Totp!Init
          \/ setting = "setup" /\ Setup!Init
          \/ setting = "backup" /\ Backup!Init
          \/ setting = "email" /\ Email!Init
          \/ setting = "columns" /\ Columns!Init

Next ==
    \/ setting = "rest" /\ Rest!Next /\ UNCHANGED <<setting, bruteVars, mfaVars>>
    \/ setting = "service" /\ Service!Next /\ UNCHANGED <<setting, bruteVars, mfaVars>>
    \/ setting = "serial" /\ Serial!Next /\ UNCHANGED <<setting, bruteVars, mfaVars>>
    \/ setting = "hashed" /\ Hashed!Next /\ UNCHANGED <<setting, bruteVars, mfaVars>>
    \/ setting = "brute" /\ Brute!Next /\ UNCHANGED <<setting, accountVars, mfaVars>>
    \/ setting = "totp" /\ Totp!Next /\ UNCHANGED <<setting, accountVars, bruteVars>>
    \/ setting = "setup" /\ Setup!Next /\ UNCHANGED <<setting, accountVars, bruteVars>>
    \/ setting = "backup" /\ Backup!Next /\ UNCHANGED <<setting, accountVars, bruteVars>>
    \/ setting = "email" /\ Email!Next /\ UNCHANGED <<setting, accountVars, bruteVars>>
    \/ setting = "columns" /\ Columns!Next /\ UNCHANGED <<setting, accountVars, bruteVars>>

Spec == Init /\ [][Next]_vars

Symmetry == Permutations(Two) \cup Permutations(Tokens)

-----------------------------------------------------------------------------
\* The component that runs keeps its types (Account, MFA).
TypeOK ==
    /\ setting = "rest" => Rest!TypeOK
    /\ setting = "service" => Service!TypeOK
    /\ setting = "serial" => Serial!TypeOK
    /\ setting = "hashed" => Hashed!TypeOK
    /\ setting = "totp" => Totp!TypeOK
    /\ setting = "setup" => Setup!TypeOK
    /\ setting = "backup" => Backup!TypeOK
    /\ setting = "email" => Email!TypeOK
    /\ setting = "columns" => Columns!TypeOK

\* No session is opened with the temporary password of an account
\* (HandleLogin, HandleInitialChangePassword), where the new password offered
\* is another one.
ForcedChange == setting \in {"rest", "service"} => Rest!ForcedChange

\* A recovery token is used up only after the password was written and, one
\* request at a time, writes it at most once (HandleResetPassword).
RecoverySpent ==
    /\ setting = "rest" => Rest!SpentMeansReplaced
    /\ setting = "serial" => Serial!TokenSpentOnce


\* The counter passes the threshold by no more than the logins under way and
\* those that Redis did not check (IsLocked, RecordFailure).
Overshoot == setting = "brute" => Brute!Overshoot



=============================================================================
