------------------------------ MODULE Sessions ------------------------------
(***************************************************************************)
(* The sessions of one account: passwords and their lazy upgrade,          *)
(* login with its lock, refresh tokens that are exchanged once and belong  *)
(* to a family, logout and change of the password (middleware/auth.py,     *)
(* routes/auth.py), and the login through GitHub with its one-time codes  *)
(* (routes/oauth.py).                                                      *)
(*                                                                         *)
(* A process is a request under way; between two of its actions it awaits  *)
(* the database or Redis. A token is named by the order of its issue.      *)
(***************************************************************************)
EXTENDS Requests, Naturals, FiniteSets, Sequences

CONSTANTS
    Passwords, FirstPassword,
    FailLimit,            \* _LOGIN_FAIL_LIMIT
    MaxRequests, MaxTime  \* bounds: requests begun, seconds that pass

ASSUME SessionAssumption ==
    /\ FirstPassword \in Passwords /\ None \notin Passwords
    /\ "1" \notin Procs \cup {None}
    /\ FailLimit \in Nat \ {0} /\ MaxRequests \in Nat /\ MaxTime \in Nat

VARIABLES
    hash,     \* users.hashed_password: the password it stands for, and its scheme
    latest,   \* history: the password set last
    active,   \* users.is_active
    now,      \* the clock, in the seconds iat is written in
    pwdChanged, \* auth:pwd_changed, 0 when absent
    token,    \* the refresh tokens issued: family, iat, the token it was exchanged for,
              \* and (history) whether its family had ended
    claim,    \* auth:refresh_blacklist: who wrote it, or None
    ended,    \* auth:refresh_family_blacklist
    left,     \* history: tokens whose logout was confirmed
    fails, locked,   \* login_fail, login_lock
    ticket,   \* oauth_code: when the pair behind it was signed, 0 without one
    op,       \* the requests under way
    begun     \* bound: MaxRequests

sessionVars == <<hash, latest, active, now, pwdChanged, token, claim, ended, left, fails, locked,
                 ticket, op, begun>>
account == <<hash, latest, active>>
login == <<fails, locked, ticket>>
black == <<claim, ended, left>>

Idle == [pc |-> "idle", tok |-> 0, old |-> None, new |-> None]
Ids == 1..MaxRequests

SessionsTypeOK ==
    /\ hash \in [pw : Passwords, legacy : BOOLEAN] /\ latest \in Passwords /\ active \in BOOLEAN
    /\ now \in 1..(MaxTime + 1) /\ pwdChanged \in 0..now
    /\ Len(token) <= MaxRequests
    /\ claim \in [Ids -> Procs \cup {None, "1"}] /\ left \subseteq Ids
    /\ fails \in 0..(FailLimit - 1) /\ locked \in BOOLEAN
    /\ \A p \in Procs : op[p].tok \in 0..MaxRequests
    /\ begun \in 0..MaxRequests

SessionsInit ==
    /\ hash = [pw |-> FirstPassword, legacy |-> TRUE] /\ latest = FirstPassword /\ active = TRUE
    /\ now = 1 /\ pwdChanged = 0 /\ token = <<>> /\ ticket = 0
    /\ claim = [t \in Ids |-> None] /\ ended = {} /\ left = {}
    /\ fails = 0 /\ locked = FALSE
    /\ op = [p \in Procs |-> Idle] /\ begun = 0

\* A request begins, goes on, ends.
Begins(p) == op[p].pc = "idle" /\ begun < MaxRequests /\ begun' = begun + 1
Goes(p, pc) == op' = [op EXCEPT ![p].pc = pc] /\ UNCHANGED begun
Done(p) == op' = [op EXCEPT ![p] = Idle] /\ UNCHANGED begun

\* create_token_pair, create_refresh_token
Issue(family, parent, at) ==
    token' = Append(token, [family |-> family, at |-> at, parent |-> parent,
                             late |-> family \in ended])
NewFamily == Len(token) + 1

-----------------------------------------------------------------------------
(* Passwords.                                                              *)

\* authenticate_user: what the row says decides; a legacy hash is upgraded next.
Authenticate(p, w, new) ==
    IF w = hash.pw /\ active
    THEN op' = [op EXCEPT ![p] = [Idle EXCEPT !.old = w, !.new = new,
                                    !.pc = IF hash.legacy THEN "upgrade" ELSE "known"]]
    ELSE op' = [op EXCEPT ![p] = [Idle EXCEPT !.pc = IF new = None THEN "refused" ELSE "idle"]]

Login(p, w) ==
    /\ Begins(p) /\ ~locked
    /\ Authenticate(p, w, None)
    /\ UNCHANGED <<account, now, pwdChanged, token, black, login>>

\* _record_login_failure, one script.
RecordFailure(p) ==
    /\ op[p].pc = "refused"
    /\ fails' = (fails + 1) % FailLimit
    /\ locked' = (locked \/ fails + 1 = FailLimit)
    /\ Done(p)
    /\ UNCHANGED <<account, now, pwdChanged, token, black, ticket>>

LoginLockLapses == /\ locked \/ fails > 0
              /\ locked' = FALSE /\ fails' = 0
              /\ UNCHANGED <<account, now, pwdChanged, token, black, ticket, op, begun>>

\* Fault: the hash is written whatever became of it.
UpgradeAlways(p) ==
    /\ op[p].pc = "upgrade"
    /\ hash' = [pw |-> op[p].old, legacy |-> FALSE]
    /\ Goes(p, "known")
    /\ UNCHANGED <<latest, active, now, pwdChanged, token, black, login>>

\* _upgrade_legacy_hash: WHERE hashed_password LIKE '$2b$%', or it fails.
UpgradeLegacyHash(p) ==
    /\ op[p].pc = "upgrade"
    /\ \/ hash.legacy /\ hash' = [pw |-> op[p].old, legacy |-> FALSE]
       \/ UNCHANGED hash
    /\ Goes(p, "known")
    /\ UNCHANGED <<latest, active, now, pwdChanged, token, black, login>>

\* login: the pair is signed, the failures are forgotten.
LogIn(p) ==
    /\ op[p].pc = "known" /\ op[p].new = None
    /\ Issue(NewFamily, 0, now)
    /\ fails' = 0
    /\ Done(p)
    /\ UNCHANGED <<account, now, pwdChanged, black, locked, ticket>>

ChangePassword(p, w, new) ==
    /\ Begins(p) /\ w # new
    /\ Authenticate(p, w, new)
    /\ UNCHANGED <<account, now, pwdChanged, token, black, login>>

\* The marker is written first; without it the password stays.
Mark(p) ==
    /\ op[p].pc = "known" /\ op[p].new # None
    /\ \/ pwdChanged' = now /\ Goes(p, "marked")
       \/ UNCHANGED pwdChanged /\ Done(p)
    /\ UNCHANGED <<account, now, token, black, login>>

StorePassword(p) ==
    /\ op[p].pc = "marked"
    /\ hash' = [pw |-> op[p].new, legacy |-> FALSE] /\ latest' = op[p].new
    /\ Done(p)
    /\ UNCHANGED <<active, now, pwdChanged, token, black, login>>

-----------------------------------------------------------------------------
(* Tokens.                                                                 *)

\* refresh_access_token, up to its look at the account.
Refresh(p, t) ==
    /\ Begins(p) /\ active /\ token[t].at >= pwdChanged
    /\ op' = [op EXCEPT ![p] = [Idle EXCEPT !.pc = "family", !.tok = t]]
    /\ UNCHANGED <<account, now, pwdChanged, token, black, login>>

CheckFamily(p) ==
    /\ op[p].pc = "family"
    /\ IF token[op[p].tok].family \in ended THEN Done(p) ELSE Goes(p, "claim")
    /\ UNCHANGED <<account, now, pwdChanged, token, black, login>>

\* Fault: the key is read, then written.
ClaimAnyway(p) ==
    LET t == op[p].tok IN
    /\ op[p].pc = "claim"
    /\ claim' = [claim EXCEPT ![t] = p] /\ UNCHANGED ended
    /\ Goes(p, "exchange")
    /\ UNCHANGED <<account, now, pwdChanged, token, left, login>>

\* SET NX; a token presented twice ends its family.
Claim(p) ==
    LET t == op[p].tok IN
    /\ op[p].pc = "claim"
    /\ IF claim[t] = None
       THEN claim' = [claim EXCEPT ![t] = p] /\ UNCHANGED ended /\ Goes(p, "exchange")
       ELSE ended' = ended \cup {token[t].family} /\ UNCHANGED claim /\ Done(p)
    /\ UNCHANGED <<account, now, pwdChanged, token, left, login>>

Exchange(p) ==
    /\ op[p].pc = "exchange"
    /\ Issue(token[op[p].tok].family, op[p].tok, now)
    /\ Done(p)
    /\ UNCHANGED <<account, now, pwdChanged, black, login>>

\* Fault: the mark is deleted whoever wrote it.
ReleaseAny(p) ==
    /\ op[p].pc = "exchange"
    /\ claim' = [claim EXCEPT ![op[p].tok] = None]
    /\ Done(p)
    /\ UNCHANGED <<account, now, pwdChanged, token, ended, left, login>>

\* Signing failed: _RELEASE_BLACKLIST_LUA takes back the claim of this request only.
Release(p) ==
    /\ op[p].pc = "exchange"
    /\ claim' = [claim EXCEPT ![op[p].tok] = IF @ = p THEN None ELSE @]
    /\ Done(p)
    /\ UNCHANGED <<account, now, pwdChanged, token, ended, left, login>>

\* revoke_refresh_token: the token, then its family.
Logout(p, t) ==
    /\ Begins(p)
    /\ claim' = [claim EXCEPT ![t] = "1"]
    /\ op' = [op EXCEPT ![p] = [Idle EXCEPT !.pc = "logout", !.tok = t]]
    /\ UNCHANGED <<account, now, pwdChanged, token, ended, left, login>>

EndFamily(p) ==
    /\ op[p].pc = "logout"
    /\ \/ /\ ended' = ended \cup {token[op[p].tok].family}
          /\ left' = left \cup {op[p].tok}
       \/ UNCHANGED <<ended, left>>
    /\ Done(p)
    /\ UNCHANGED <<account, now, pwdChanged, token, claim, login>>

-----------------------------------------------------------------------------
(* Login through GitHub: auth_github_callback, exchange_oauth_code.        *)

\* The pair is signed now and handed out for the code later.
Callback ==
    /\ active /\ ticket = 0 /\ begun < MaxRequests
    /\ ticket' = now /\ begun' = begun + 1
    /\ UNCHANGED <<account, now, pwdChanged, token, black, fails, locked, op>>

\* _CONSUME_CODE_LUA; a code lapses after a minute.
ExchangeCode ==
    /\ ticket # 0 /\ ticket' = 0
    /\ \/ Issue(NewFamily, 0, ticket)
       \/ UNCHANGED token
    /\ UNCHANGED <<account, now, pwdChanged, black, fails, locked, op, begun>>

\* An administrator blocks the account, or lets it in again.
SetActive ==
    /\ active' = ~active
    /\ UNCHANGED <<hash, latest, now, pwdChanged, token, black, login, op, begun>>

Tick == /\ now <= MaxTime /\ now' = now + 1
        /\ UNCHANGED <<account, pwdChanged, token, black, login, op, begun>>

SessionsNext ==
    \/ \E p \in Procs :
         \/ \E w \in Passwords : Login(p, w) \/ \E new \in Passwords : ChangePassword(p, w, new)
         \/ RecordFailure(p) \/ UpgradeLegacyHash(p) \/ LogIn(p) \/ Mark(p) \/ StorePassword(p)
         \/ \E t \in DOMAIN token : Refresh(p, t) \/ Logout(p, t)
         \/ CheckFamily(p) \/ Claim(p) \/ Exchange(p) \/ Release(p) \/ EndFamily(p)
    \/ LoginLockLapses \/ Callback \/ ExchangeCode \/ SetActive \/ Tick

SessionsSpec == SessionsInit /\ [][SessionsNext]_sessionVars

-----------------------------------------------------------------------------
(* Properties.                                                             *)

\* A password once changed stays changed: no request that checked the old one
\* before, and upgrades its hash afterwards, brings it back.
PasswordIsLast == hash.pw = latest

\* A refresh token is exchanged at most once, however many requests present it and
\* whichever of them fails.
ExchangedOnce ==
    \A t, u \in DOMAIN token : token[t].parent = token[u].parent /\ t # u => token[t].parent = 0

\* A confirmed logout is final: the token and its family stay barred, whatever
\* exchange was under way, and a token such an exchange still yields is never
\* exchanged in its turn.
LogoutSticks ==
    /\ \A t \in left : claim[t] # None /\ token[t].family \in ended
    /\ \A u \in DOMAIN token : token[u].parent # 0 => ~token[token[u].parent].late

\* The password set last stays, a refresh token is exchanged once, and a confirmed logout
\* is final, whatever requests are under way meanwhile.
SessionsHold == PasswordIsLast /\ ExchangedOnce /\ LogoutSticks
=============================================================================
