------------------------------ MODULE AuthService ------------------------------
(***************************************************************************)
(* Logins, tokens and lockout of one account (services/auth-service).      *)
(* Requests run concurrently and are cut at every await of Redis or of the *)
(* database; each Handler is the coroutine of one request.  Redis holds    *)
(* the failed attempts of the account, its one refresh token and the       *)
(* blacklist of access tokens.                                             *)
(*                                                                         *)
(* Time runs in ticks.  python-jose stores exp in whole seconds and        *)
(* compares whole seconds; Redis keys expire to the tick.                  *)
(* Refresh tokens outlive every run; passwords are numbered.               *)
(*                                                                         *)
(* Operators whose name ends in Mutant are faulty variants of the          *)
(* definition that follows them; no action uses them.                      *)
(***************************************************************************)
EXTENDS Integers, FiniteSets

CONSTANTS
    Handlers,
    MaxAttempts,    \* LOGIN_MAX_ATTEMPTS, 5
    AccessLife,     \* JWT_ACCESS_EXPIRE_MINUTES, in seconds
    TicksPerSecond,
    MaxTokens,      \* bound: access tokens ever issued
    MaxPasswords,   \* bound: passwords the account ever has
    MaxTime         \* bound: ticks

ASSUME HandlersAssumption == IsFiniteSet(Handlers) /\ Handlers # {}
ASSUME LimitsAssumption ==
    /\ MaxAttempts \in Nat \ {0} /\ AccessLife \in Nat /\ TicksPerSecond \in Nat \ {0}
    /\ MaxTokens \in Nat /\ MaxPasswords \in Nat \ {0} /\ MaxTime \in Nat

VARIABLES
    now,         \* ticks
    active,      \* User.is_active
    password,    \* which password the account has
    attempts,    \* Redis login_lockout:{email}, 0 when the key is absent
    refresh,     \* Redis refresh_token:{user}: the session it belongs to, or None
    blacklist,   \* Redis jwt_blacklist:{jti} -> tick at which the key expires
    issued,      \* history: access tokens given to clients
    op,          \* per handler: where it stands and what it carries
    guesses,     \* history: wrong passwords tried since the lockout key was last absent
    logged_out   \* history: access tokens whose logout has returned

vars == <<now, active, password, attempts, refresh, blacklist, issued, op,
          guesses, logged_out>>

account == <<active, password>>

None   == 0
Tokens == 1 .. MaxTokens

\* A session is named by the access token that its login returned.
Token == [exp : Nat, session : Tokens, password : 1 .. MaxPasswords]

Steps == {"idle", "verify", "failed", "verified", "store", "mint", "revoke"}
Idle  == [step |-> "idle", token |-> None, exp |-> 0, password |-> 1]

\* A request under way: token is the session to refresh or the token to log out.
Op == [step : Steps, token : {None} \cup Tokens, exp : Nat, password : 1 .. MaxPasswords]

Put(f, k, v) == [x \in DOMAIN f \cup {k} |-> IF x = k THEN v ELSE f[x]]

At(h, step)    == op[h].step = step
Become(h, rec) == op' = [op EXCEPT ![h] = rec]
Goto(h, from, to) == At(h, from) /\ Become(h, [op[h] EXCEPT !.step = to])

Second(t) == t \div TicksPerSecond

Init ==
    /\ now = 0
    /\ active = TRUE /\ password = 1
    /\ attempts = 0 /\ refresh = None
    /\ blacklist = [t \in {} |-> 0]
    /\ issued = [t \in {} |-> 0]
    /\ op = [h \in Handlers |-> Idle]
    /\ guesses = 0 /\ logged_out = {}

-----------------------------------------------------------------------------
LockedOut == attempts >= MaxAttempts

(* login_user, the lockout check.                                          *)
LoginCheck(h) ==
    /\ Goto(h, "idle", "verify")
    /\ ~ LockedOut
    /\ UNCHANGED <<now, account, attempts, refresh, blacklist, issued, guesses, logged_out>>

(* login_user, the account is read and the password compared.              *)
LoginVerify(h) ==
    /\ \/ Goto(h, "verify", "failed") /\ guesses' = guesses + 1
       \/ /\ At(h, "verify") /\ ~ active
          /\ Become(h, Idle) /\ UNCHANGED guesses
       \/ /\ At(h, "verify") /\ active
          /\ Become(h, [op[h] EXCEPT !.step = "verified", !.password = password])
          /\ UNCHANGED guesses
    /\ UNCHANGED <<now, account, attempts, refresh, blacklist, issued, logged_out>>

LoginFailMutant(h) ==           \* the failure is not recorded
    /\ At(h, "failed") /\ Become(h, Idle)
    /\ UNCHANGED <<now, account, attempts, refresh, blacklist, issued, guesses, logged_out>>
LoginFail(h) ==
    /\ At(h, "failed") /\ Become(h, Idle)
    /\ attempts' = attempts + 1
    /\ UNCHANGED <<now, account, refresh, blacklist, issued, guesses, logged_out>>

(* login_user, the lockout key is deleted and both tokens are made.        *)
LoginClear(h) ==
    /\ At(h, "verified")
    /\ Become(h, [op[h] EXCEPT !.step = "store", !.exp = Second(now) + AccessLife])
    /\ attempts' = 0 /\ guesses' = 0
    /\ UNCHANGED <<now, account, refresh, blacklist, issued, logged_out>>

\* The next access token goes to its client.
Issue(token) ==
    /\ Cardinality(DOMAIN issued) < MaxTokens
    /\ issued' = Put(issued, Cardinality(DOMAIN issued) + 1, token)

(* login_user, setex of the account's one refresh token.                   *)
LoginStore(h) ==
    LET id == Cardinality(DOMAIN issued) + 1 IN
    /\ At(h, "store") /\ Become(h, Idle)
    /\ Issue([exp |-> op[h].exp, session |-> id, password |-> op[h].password])
    /\ refresh' = id
    /\ UNCHANGED <<now, account, attempts, blacklist, guesses, logged_out>>

-----------------------------------------------------------------------------
(* refresh_access_token, the presented token must be the stored one.       *)
RefreshCheck(h, session) ==
    /\ At(h, "idle") /\ refresh = session /\ session # None
    /\ Become(h, [op[h] EXCEPT !.step = "mint", !.token = session])
    /\ UNCHANGED <<now, account, attempts, refresh, blacklist, issued, guesses, logged_out>>

Refreshed(h) ==
    [exp |-> Second(now) + AccessLife, session |-> op[h].token,
     password |-> issued[op[h].token].password]

RefreshMintMutant(h) ==         \* prolongs the refresh token it was given
    /\ At(h, "mint") /\ Become(h, Idle)
    /\ Issue(Refreshed(h))
    /\ refresh' = op[h].token
    /\ UNCHANGED <<now, account, attempts, blacklist, guesses, logged_out>>
(* refresh_access_token, the account is read: whatever is found a new      *)
(* access token is made, from the account or from the refresh token.       *)
RefreshMint(h) ==
    /\ At(h, "mint") /\ Become(h, Idle)
    /\ Issue(Refreshed(h))
    /\ UNCHANGED <<now, account, attempts, refresh, blacklist, guesses, logged_out>>

-----------------------------------------------------------------------------
BlacklistTtlMutant(exp) == 1
\* max(int(exp - now), 1): whole seconds, rounded down.
BlacklistTtl(exp) ==
    LET left == (exp * TicksPerSecond - now) \div TicksPerSecond IN
    IF left > 1 THEN left ELSE 1

LogoutBlacklistMutant(h, t) ==  \* only the refresh token is revoked
    /\ At(h, "idle") /\ t \in DOMAIN issued
    /\ Become(h, [op[h] EXCEPT !.step = "revoke", !.token = t])
    /\ UNCHANGED <<now, account, attempts, refresh, blacklist, issued, guesses, logged_out>>
(* logout_user, the presented access token is blacklisted.                 *)
LogoutBlacklist(h, t) ==
    /\ At(h, "idle") /\ t \in DOMAIN issued
    /\ Become(h, [op[h] EXCEPT !.step = "revoke", !.token = t])
    /\ blacklist' = Put(blacklist, t, now + BlacklistTtl(issued[t].exp) * TicksPerSecond)
    /\ UNCHANGED <<now, account, attempts, refresh, issued, guesses, logged_out>>

(* logout_user, the account's refresh token is deleted.                    *)
LogoutRevoke(h) ==
    /\ At(h, "revoke") /\ Become(h, Idle)
    /\ refresh' = None
    /\ logged_out' = logged_out \cup {op[h].token}
    /\ UNCHANGED <<now, account, attempts, blacklist, issued, guesses>>

\* get_current_user: not expired, not blacklisted, account active.
Accepts(t) ==
    /\ ~ (issued[t].exp < Second(now))
    /\ ~ (t \in DOMAIN blacklist /\ now < blacklist[t])
    /\ active

(* change_password with the right old password.  The route passes no Redis *)
(* client, so the branch that deletes refresh tokens is not taken.         *)
ChangePassword(h, t) ==
    /\ At(h, "idle") /\ t \in DOMAIN issued /\ Accepts(t)
    /\ password < MaxPasswords
    /\ password' = password + 1
    /\ UNCHANGED <<now, active, attempts, refresh, blacklist, issued, op, guesses, logged_out>>

-----------------------------------------------------------------------------
\* LOGIN_LOCKOUT_MINUTES after the last failure the key expires.
LockoutExpires ==
    /\ attempts > 0
    /\ attempts' = 0 /\ guesses' = 0
    /\ UNCHANGED <<now, account, refresh, blacklist, issued, op, logged_out>>

\* An operator disables or enables the account in the database.
SetActive ==
    /\ active' = ~ active
    /\ UNCHANGED <<now, password, attempts, refresh, blacklist, issued, op, guesses, logged_out>>

Tick ==
    /\ now < MaxTime
    /\ now' = now + 1
    /\ UNCHANGED <<account, attempts, refresh, blacklist, issued, op, guesses, logged_out>>

Next ==
    \/ \E h \in Handlers :
        \/ LoginCheck(h) \/ LoginVerify(h) \/ LoginFail(h) \/ LoginClear(h) \/ LoginStore(h)
        \/ RefreshMint(h) \/ LogoutRevoke(h)
        \/ \E t \in Tokens : RefreshCheck(h, t) \/ LogoutBlacklist(h, t) \/ ChangePassword(h, t)
    \/ LockoutExpires \/ SetActive \/ Tick

Spec == Init /\ [][Next]_vars

-----------------------------------------------------------------------------
(* Shapes of the Redis keys, the tokens and the requests.                  *)
TypeOK ==
    /\ now \in 0 .. MaxTime /\ active \in BOOLEAN /\ password \in 1 .. MaxPasswords
    /\ attempts \in Nat /\ guesses \in Nat
    /\ refresh \in {None} \cup DOMAIN issued
    /\ DOMAIN blacklist \subseteq DOMAIN issued /\ blacklist \in [DOMAIN blacklist -> Nat]
    /\ DOMAIN issued \subseteq Tokens /\ issued \in [DOMAIN issued -> Token]
    /\ op \in [Handlers -> Op]
    /\ \A h \in Handlers : op[h].step \in {"mint", "revoke"} => op[h].token \in DOMAIN issued
    /\ logged_out \subseteq DOMAIN blacklist

(* Brute force: however many requests race past the lockout check, the     *)
(* wrong passwords tried between two clearings of the lockout exceed       *)
(* LOGIN_MAX_ATTEMPTS by less than the number of concurrent requests.      *)
GuessBound == guesses <= MaxAttempts + Cardinality(Handlers) - 1

(* A logged-out access token is refused up to a second before it expires.  *)
LogoutHolds ==
    \A t \in logged_out : now <= (issued[t].exp - 1) * TicksPerSecond => ~ Accepts(t)

(* A session once revoked, by logout or by a later login, is not brought   *)
(* back: the refresh key only ever moves on to a newer login.              *)
RevokedStays ==
    [][refresh' # refresh => refresh' = None \/ refresh' \notin DOMAIN issued]_vars

-----------------------------------------------------------------------------
(* What comments and documentation say.                                    *)

(* "After LOGIN_MAX_ATTEMPTS failures, account is locked".                 *)
LockedAfterMax == guesses <= MaxAttempts

(* "Invalidate current tokens": a token that was logged out is refused.    *)
LogoutIsFinal == \A t \in logged_out : ~ Accepts(t)

(* "all existing sessions are revoked" when the password changes: the      *)
(* refresh token that is stored comes from a login with the current one.   *)
PasswordRevokes == refresh # None => issued[refresh].password = password
=============================================================================
