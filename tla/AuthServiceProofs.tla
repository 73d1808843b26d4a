--------------------------- MODULE AuthServiceProofs ---------------------------
(* Proofs about AuthService for any number of concurrent requests: the bound  *)
(* on wrong passwords it lets through, and that a logout holds.               *)
EXTENDS AuthService, FiniteSetTheorems, TLAPS

\* The requests that stand at a step.
In(step) == {h \in Handlers : op[h].step = step}

(* Each wrong password is recorded or about to be; and the passwords tried *)
(* together with those about to be tried stay below the bound.             *)
GuessInv ==
    /\ attempts \in Nat /\ guesses \in Nat /\ now \in Nat /\ password \in 1 .. MaxPasswords
    /\ op \in [Handlers -> Op]
    /\ guesses <= attempts + Cardinality(In("failed"))
    /\ guesses + Cardinality(In("verify")) <= MaxAttempts - 1 + Cardinality(Handlers)

LEMMA Constants ==
    /\ IsFiniteSet(Handlers) /\ Cardinality(Handlers) \in Nat /\ Cardinality(Handlers) > 0
    /\ MaxAttempts \in Nat /\ MaxAttempts > 0 /\ MaxPasswords \in Nat /\ MaxPasswords > 0
    /\ AccessLife \in Nat /\ TicksPerSecond \in Nat /\ TicksPerSecond > 0
<1>1. Cardinality(Handlers) \in Nat /\ Cardinality(Handlers) # 0
  BY HandlersAssumption, FS_CardinalityType, FS_EmptySet
<1> QED
  BY <1>1, HandlersAssumption, LimitsAssumption

\* The requests at a step are finitely many.
LEMMA InFinite ==
  \A s : /\ IsFiniteSet(In(s)) /\ IsFiniteSet(In(s)')
         /\ Cardinality(In(s)) \in Nat /\ Cardinality(In(s)') \in Nat
<1> TAKE s
<1>1. In(s) \subseteq Handlers /\ In(s)' \subseteq Handlers
  BY DEF In
<1> QED
  BY <1>1, Constants, FS_Subset, FS_CardinalityType

\* A request that leaves a step for another.
LEMMA Moves ==
  ASSUME op \in [Handlers -> Op], NEW h \in Handlers, NEW r \in Op, op' = [op EXCEPT ![h] = r],
         NEW s
  PROVE  /\ op[h].step = s /\ r.step # s => Cardinality(In(s)') = Cardinality(In(s)) - 1
         /\ op[h].step # s /\ r.step = s => Cardinality(In(s)') = Cardinality(In(s)) + 1
         /\ (op[h].step = s <=> r.step = s) => Cardinality(In(s)') = Cardinality(In(s))
<1>1. CASE op[h].step = s /\ r.step # s
  <2>1. In(s)' = In(s) \ {h} /\ h \in In(s)
    BY <1>1 DEF In
  <2> QED
    BY <1>1, <2>1, InFinite, FS_RemoveElement
<1>2. CASE op[h].step # s /\ r.step = s
  <2>1. In(s)' = In(s) \cup {h} /\ h \notin In(s)
    BY <1>2 DEF In
  <2> QED
    BY <1>2, <2>1, InFinite, FS_AddElement
<1>3. CASE op[h].step = s <=> r.step = s
  <2>1. In(s)' = In(s)
    BY <1>3 DEF In
  <2> QED
    BY <1>3, <2>1
<1> QED
  BY <1>1, <1>2, <1>3

\* Requests at two steps are distinct.
LEMMA TwoSteps ==
  /\ Cardinality(In("verify")) + Cardinality(In("failed")) <= Cardinality(Handlers)
  /\ \A h \in Handlers : op[h].step \notin {"verify", "failed"} =>
        Cardinality(In("verify")) + Cardinality(In("failed")) + 1 <= Cardinality(Handlers)
<1>0. IsFiniteSet(In("verify")) /\ IsFiniteSet(In("failed"))
  BY InFinite
<1>1. In("verify") \cap In("failed") = {}
  BY DEF In
<1> DEFINE U == In("verify") \cup In("failed")
<1>2. IsFiniteSet(U) /\ Cardinality(U) = Cardinality(In("verify")) + Cardinality(In("failed"))
  <2>1. /\ IsFiniteSet(U)
        /\ Cardinality(U) = Cardinality(In("verify")) + Cardinality(In("failed"))
                            - Cardinality(In("verify") \cap In("failed"))
    BY <1>0, FS_Union
  <2>2. Cardinality(In("verify") \cap In("failed")) = 0
    BY <1>1, FS_EmptySet
  <2> QED
    BY <2>1, <2>2, InFinite
<1>3. U \subseteq Handlers
  BY DEF In
<1>4. Cardinality(U) <= Cardinality(Handlers) /\ Cardinality(U) \in Nat
  BY <1>2, <1>3, Constants, FS_Subset, FS_CardinalityType
<1>5. ASSUME NEW h \in Handlers, op[h].step \notin {"verify", "failed"}
      PROVE  Cardinality(U) + 1 <= Cardinality(Handlers)
  <2>1. h \notin U
    BY <1>5 DEF In
  <2>2. Cardinality(U \cup {h}) = Cardinality(U) + 1
    BY <1>2, <2>1, FS_AddElement
  <2>3. U \cup {h} \subseteq Handlers
    BY <1>3
  <2>4. Cardinality(U \cup {h}) <= Cardinality(Handlers)
    BY <2>3, Constants, FS_Subset
  <2> QED
    BY <2>2, <2>4
<1> QED
  BY <1>2, <1>4, <1>5

-----------------------------------------------------------------------------
LEMMA InitGuess == Init => GuessInv
<1> SUFFICES ASSUME Init PROVE GuessInv
  OBVIOUS
<1>1. In("failed") = {} /\ In("verify") = {}
  BY DEF Init, Idle, In
<1>2. op \in [Handlers -> Op]
  BY Constants DEF Init, Idle, Op, Steps, None
<1>3. Cardinality(In("failed")) = 0 /\ Cardinality(In("verify")) = 0
  BY <1>1, FS_EmptySet
<1> QED
  BY <1>2, <1>3, Constants DEF Init, GuessInv

\* A step that moves no request into or out of a password check, and leaves
\* the counters alone or clears both, keeps the invariant.
LEMMA Neutral ==
  ASSUME GuessInv, NEW h \in Handlers, NEW r \in Op, op' = [op EXCEPT ![h] = r],
         op[h].step \notin {"verify", "failed"}, r.step \notin {"verify", "failed"},
         now' \in Nat, password' \in 1 .. MaxPasswords,
         UNCHANGED <<attempts, guesses>> \/ (attempts' = 0 /\ guesses' = 0)
  PROVE  GuessInv'
<1>1. /\ Cardinality(In("failed")') = Cardinality(In("failed"))
      /\ Cardinality(In("verify")') = Cardinality(In("verify"))
  BY Moves DEF GuessInv
<1>2. Cardinality(In("verify")) <= Cardinality(Handlers)
  BY TwoSteps, InFinite, Constants
<1>3. op' \in [Handlers -> Op]
  BY DEF GuessInv
<1> QED
  BY <1>1, <1>2, <1>3, InFinite, Constants DEF GuessInv

\* The same for a step of no request.
LEMMA NoMove ==
  ASSUME GuessInv, UNCHANGED op, now' \in Nat, password' \in 1 .. MaxPasswords,
         UNCHANGED <<attempts, guesses>> \/ (attempts' = 0 /\ guesses' = 0)
  PROVE  GuessInv'
<1>1. In("failed")' = In("failed") /\ In("verify")' = In("verify")
  BY DEF In
<1>2. Cardinality(In("verify")) <= Cardinality(Handlers)
  BY TwoSteps, InFinite, Constants
<1> QED
  BY <1>1, <1>2, InFinite, Constants DEF GuessInv

\* Every step keeps the invariant.
LEMMA NextGuess == GuessInv /\ [Next]_vars => GuessInv'
<1> SUFFICES ASSUME GuessInv, [Next]_vars PROVE GuessInv'
  OBVIOUS
<1> USE DEF At, Become, Goto, account
<1>u. CASE UNCHANGED vars
  BY <1>u, NoMove DEF vars, GuessInv
<1>i. Idle \in Op /\ Idle.step = "idle"
  BY Constants DEF Idle, Op, Steps, None
<1>1. ASSUME NEW h \in Handlers, LoginCheck(h) PROVE GuessInv'
  <2> DEFINE r == [op[h] EXCEPT !.step = "verify"]
  <2>1. r \in Op /\ r.step = "verify" /\ op' = [op EXCEPT ![h] = r] /\ op[h].step = "idle"
    BY <1>1 DEF LoginCheck, GuessInv, Op, Steps
  <2>2. /\ Cardinality(In("failed")') = Cardinality(In("failed"))
        /\ Cardinality(In("verify")') = Cardinality(In("verify")) + 1
    BY <2>1, Moves DEF GuessInv
  <2>3. attempts <= MaxAttempts - 1
    BY <1>1, Constants DEF LoginCheck, LockedOut, GuessInv
  <2>4. Cardinality(In("verify")) + Cardinality(In("failed")) + 1 <= Cardinality(Handlers)
    BY <2>1, TwoSteps
  <2>5. op' \in [Handlers -> Op]
    BY <2>1 DEF GuessInv
  <2>6. UNCHANGED <<attempts, guesses, now, password>>
    BY <1>1 DEF LoginCheck
  <2>7. guesses + Cardinality(In("verify")) + 1 <= MaxAttempts - 1 + Cardinality(Handlers)
    BY <2>3, <2>4, InFinite, Constants DEF GuessInv
  <2> QED
    BY <2>2, <2>5, <2>6, <2>7, InFinite, Constants DEF GuessInv
<1>2. ASSUME NEW h \in Handlers, LoginVerify(h) PROVE GuessInv'
  <2>0. UNCHANGED <<attempts, now, password>> /\ op[h].step = "verify"
    BY <1>2 DEF LoginVerify
  <2>1. CASE op' = [op EXCEPT ![h] = [op[h] EXCEPT !.step = "failed"]] /\ guesses' = guesses + 1
    <3> DEFINE r == [op[h] EXCEPT !.step = "failed"]
    <3>1. r \in Op /\ r.step = "failed" /\ op' = [op EXCEPT ![h] = r]
      BY <2>1 DEF GuessInv, Op, Steps
    <3>2. /\ Cardinality(In("failed")') = Cardinality(In("failed")) + 1
          /\ Cardinality(In("verify")') = Cardinality(In("verify")) - 1
      BY <2>0, <3>1, Moves DEF GuessInv
    <3>3. op' \in [Handlers -> Op]
      BY <3>1 DEF GuessInv
    <3> QED
      BY <2>0, <2>1, <3>2, <3>3, InFinite, Constants DEF GuessInv
  <2>2. ASSUME NEW r \in Op, r.step \notin {"verify", "failed"}, op' = [op EXCEPT ![h] = r],
               guesses' = guesses
        PROVE  GuessInv'
    <3>1. /\ Cardinality(In("failed")') = Cardinality(In("failed"))
          /\ Cardinality(In("verify")') = Cardinality(In("verify")) - 1
      BY <2>0, <2>2, Moves DEF GuessInv
    <3>2. op' \in [Handlers -> Op]
      BY <2>2 DEF GuessInv
    <3> QED
      BY <2>0, <2>2, <3>1, <3>2, InFinite, Constants DEF GuessInv
  <2>3. CASE op' = [op EXCEPT ![h] = Idle] /\ guesses' = guesses
    BY <1>i, <2>2, <2>3
  <2>4. CASE /\ op' = [op EXCEPT ![h] = [op[h] EXCEPT !.step = "verified", !.password = password]]
             /\ guesses' = guesses
    <3> DEFINE r == [op[h] EXCEPT !.step = "verified", !.password = password]
    <3>1. r \in Op /\ r.step = "verified"
      BY DEF GuessInv, Op, Steps
    <3> QED
      BY <2>2, <2>4, <3>1
  <2> QED
    BY <1>2, <2>1, <2>3, <2>4 DEF LoginVerify
<1>3. ASSUME NEW h \in Handlers, LoginFail(h) PROVE GuessInv'
  <2>1. /\ Cardinality(In("failed")') = Cardinality(In("failed")) - 1
        /\ Cardinality(In("verify")') = Cardinality(In("verify"))
    BY <1>3, <1>i, Moves DEF LoginFail, GuessInv
  <2>2. op' \in [Handlers -> Op]
    BY <1>3, <1>i DEF LoginFail, GuessInv
  <2> QED
    BY <1>3, <2>1, <2>2, InFinite, Constants DEF LoginFail, GuessInv
<1>4. ASSUME NEW h \in Handlers, LoginClear(h) PROVE GuessInv'
  <2> DEFINE r == [op[h] EXCEPT !.step = "store", !.exp = Second(now) + AccessLife]
  <2>1. Second(now) + AccessLife \in Nat
    BY Constants DEF GuessInv, Second
  <2>2. r \in Op /\ r.step = "store"
    BY <2>1 DEF GuessInv, Op, Steps
  <2> QED
    BY <1>4, <2>2, Neutral DEF LoginClear, GuessInv
<1>5. ASSUME NEW h \in Handlers, LoginStore(h) \/ RefreshMint(h) \/ LogoutRevoke(h) PROVE GuessInv'
  BY <1>5, <1>i, Neutral DEF LoginStore, RefreshMint, LogoutRevoke, GuessInv
<1>6. ASSUME NEW h \in Handlers, NEW t \in Tokens, RefreshCheck(h, t) \/ LogoutBlacklist(h, t)
      PROVE  GuessInv'
  <2>1. ASSUME NEW s \in {"mint", "revoke"}
        PROVE  [op[h] EXCEPT !.step = s, !.token = t] \in Op
               /\ [op[h] EXCEPT !.step = s, !.token = t].step = s
    BY DEF GuessInv, Op, Steps
  <2>2. CASE RefreshCheck(h, t)
    <3> DEFINE r == [op[h] EXCEPT !.step = "mint", !.token = t]
    <3>1. r \in Op /\ r.step = "mint"
      BY <2>1
    <3> QED
      BY <2>2, <3>1, Neutral DEF RefreshCheck, GuessInv
  <2>3. CASE LogoutBlacklist(h, t)
    <3> DEFINE r == [op[h] EXCEPT !.step = "revoke", !.token = t]
    <3>1. r \in Op /\ r.step = "revoke"
      BY <2>1
    <3> QED
      BY <2>3, <3>1, Neutral DEF LogoutBlacklist, GuessInv
  <2> QED
    BY <1>6, <2>2, <2>3
<1>7. ASSUME NEW h \in Handlers, NEW t \in Tokens, ChangePassword(h, t) PROVE GuessInv'
  <2>1. password' \in 1 .. MaxPasswords
    BY <1>7, Constants DEF ChangePassword, GuessInv
  <2> QED
    BY <1>7, <2>1, NoMove DEF ChangePassword, GuessInv
<1>8. CASE LockoutExpires \/ SetActive \/ Tick
  BY <1>8, NoMove DEF LockoutExpires, SetActive, Tick, GuessInv
<1> QED
  BY <1>u, <1>1, <1>2, <1>3, <1>4, <1>5, <1>6, <1>7, <1>8 DEF Next

(* The lockout of login_user with any number n of concurrent requests: at  *)
(* most LOGIN_MAX_ATTEMPTS + n - 1 wrong passwords are tried between two   *)
(* clearings of the lockout key.                                           *)
THEOREM Guesses == Spec => []GuessBound
<1>1. GuessInv => GuessBound
  BY InFinite, Constants DEF GuessInv, GuessBound
<1> QED
  BY <1>1, InitGuess, NextGuess, PTL DEF Spec

(* One request at a time: the account is locked after LOGIN_MAX_ATTEMPTS   *)
(* failures, as login_user says.                                           *)
THEOREM LockedSequential == ASSUME Cardinality(Handlers) = 1 PROVE Spec => []LockedAfterMax
<1>1. GuessBound /\ GuessInv => LockedAfterMax
  BY Constants DEF GuessBound, LockedAfterMax, GuessInv
<1>2. GuessInv => GuessBound
  BY InFinite, Constants DEF GuessInv, GuessBound
<1> QED
  BY <1>1, <1>2, InitGuess, NextGuess, PTL DEF Spec

-----------------------------------------------------------------------------
\* Tokens are numbered in the order in which they are issued.
Serial == \E k \in 0 .. MaxTokens : DOMAIN issued = 1 .. k

\* A key of the blacklist lives to within a second of its token's expiry.
Outlives == \A t \in DOMAIN blacklist : blacklist[t] > (issued[t].exp - 1) * TicksPerSecond

\* A logout that is to delete the refresh token has blacklisted the access token.
Listed == \A h \in Handlers : op[h].step = "revoke" => op[h].token \in DOMAIN blacklist

TokenInv == TypeOK /\ Serial /\ Outlives /\ Listed

LEMMA InitToken == Init => TokenInv
<1> SUFFICES ASSUME Init PROVE TokenInv
  OBVIOUS
<1>1. op \in [Handlers -> Op] /\ \A h \in Handlers : op[h].step = "idle"
  BY Constants DEF Init, Idle, Op, Steps, None
<1>2. DOMAIN issued = {} /\ DOMAIN blacklist = {} /\ issued \in [DOMAIN issued -> Token]
      /\ blacklist \in [DOMAIN blacklist -> Nat]
  BY DEF Init
<1>3. MaxTime \in Nat /\ MaxTokens \in Nat
  BY LimitsAssumption
<1>4. TypeOK
  BY <1>1, <1>2, <1>3, Constants DEF Init, TypeOK, None
<1>5. 0 \in 0 .. MaxTokens /\ DOMAIN issued = 1 .. 0
  BY <1>2, <1>3
<1> QED
  BY <1>1, <1>2, <1>4, <1>5 DEF TokenInv, Serial, Outlives, Listed

\* The whole seconds that are left, in ticks, fall short of the time left by
\* less than a second.
LEMMA RoundDown ==
  ASSUME NEW x \in Int, NEW y \in Int, y > 0
  PROVE  x \div y \in Int /\ (x \div y) * y > x - y
  OBVIOUS

LEMMA TtlSuffices ==
  ASSUME NEW exp \in Nat, now \in Nat
  PROVE  /\ now + BlacklistTtl(exp) * TicksPerSecond \in Nat
         /\ now + BlacklistTtl(exp) * TicksPerSecond > (exp - 1) * TicksPerSecond
<1> DEFINE E == exp * TicksPerSecond
           q == (E - now) \div TicksPerSecond
           P == q * TicksPerSecond
           ttl == BlacklistTtl(exp)
           L == ttl * TicksPerSecond
<1>1. TicksPerSecond \in Nat /\ TicksPerSecond > 0
  BY Constants
<1>2. E \in Nat /\ (exp - 1) * TicksPerSecond = E - TicksPerSecond
  BY <1>1
<1>3. q \in Int /\ P > E - now - TicksPerSecond
  BY <1>1, <1>2, RoundDown
<1>4. ttl = IF q > 1 THEN q ELSE 1
  BY DEF BlacklistTtl
<1> HIDE DEF E, q, ttl
<1>5. P \in Int /\ L \in Nat /\ L > E - now - TicksPerSecond
  <2>1. CASE q > 1
    <3>1. ttl = q /\ L = P /\ q \in Nat
      BY <1>3, <1>4, <2>1
    <3>2. P \in Nat
      BY <1>1, <3>1
    <3> HIDE DEF P, L
    <3> QED
      BY <1>2, <1>3, <3>1, <3>2
  <2>2. CASE ~ (q > 1)
    <3>1. ttl = 1 /\ L = TicksPerSecond
      BY <1>1, <1>4, <2>2
    <3>2. P \in Int /\ P <= TicksPerSecond
      <4>1. (1 - q) * TicksPerSecond \in Nat
        <5>1. 1 - q \in Nat
          BY <1>3, <2>2
        <5> QED
          BY <1>1, <5>1
      <4>2. (1 - q) * TicksPerSecond = TicksPerSecond - P /\ P \in Int
        BY <1>1, <1>3
      <4> QED
        BY <1>1, <4>1, <4>2
    <3> HIDE DEF P, L
    <3> QED
      BY <1>1, <1>2, <1>3, <3>1, <3>2
  <2> QED
    BY <2>1, <2>2
<1> HIDE DEF P, L
<1>6. now + L \in Nat /\ now + L > E - TicksPerSecond
  BY <1>1, <1>2, <1>5
<1> QED
  BY <1>2, <1>6 DEF L, ttl

\* The next number is free and, below the bound, a token.
LEMMA NextToken ==
  ASSUME Serial, Cardinality(DOMAIN issued) < MaxTokens
  PROVE  /\ Cardinality(DOMAIN issued) + 1 \in Tokens
         /\ Cardinality(DOMAIN issued) + 1 \notin DOMAIN issued
         /\ \E k \in 0 .. MaxTokens : DOMAIN issued \cup {Cardinality(DOMAIN issued) + 1} = 1 .. k
<1>1. PICK k \in 0 .. MaxTokens : DOMAIN issued = 1 .. k
  BY DEF Serial
<1>2. MaxTokens \in Nat /\ k \in Nat
  BY LimitsAssumption
<1>3. Cardinality(1 .. k) = k
  BY <1>2, FS_Interval
<1>4. Cardinality(DOMAIN issued) = k
  BY <1>1, <1>3
<1>5. k + 1 \in 0 .. MaxTokens /\ DOMAIN issued \cup {k + 1} = 1 .. k + 1
  BY <1>1, <1>2, <1>4
<1> QED
  BY <1>1, <1>2, <1>4, <1>5 DEF Tokens

\* Issuing a token disturbs neither the tokens nor the blacklist.
LEMMA IssueKeeps ==
  ASSUME TokenInv, NEW r \in Token, Issue(r), UNCHANGED blacklist
  PROVE  /\ Serial' /\ Outlives'
         /\ DOMAIN issued' = DOMAIN issued \cup {Cardinality(DOMAIN issued) + 1}
         /\ DOMAIN issued' \subseteq Tokens /\ issued' \in [DOMAIN issued' -> Token]
<1> DEFINE id == Cardinality(DOMAIN issued) + 1
<1>1. /\ id \in Tokens /\ id \notin DOMAIN issued
      /\ \E k \in 0 .. MaxTokens : DOMAIN issued \cup {id} = 1 .. k
  BY NextToken DEF Issue, TokenInv
<1>2. issued' = Put(issued, id, r)
  BY DEF Issue
<1> HIDE DEF id
<1>3. DOMAIN issued' = DOMAIN issued \cup {id} /\ issued'[id] = r
      /\ \A t \in DOMAIN issued : issued'[t] = issued[t]
  BY <1>1, <1>2 DEF Put
<1>4. DOMAIN issued' \subseteq Tokens
  BY <1>1, <1>3 DEF TokenInv, TypeOK
<1>5. \A t \in DOMAIN issued' : issued'[t] \in Token
  BY <1>3 DEF TokenInv, TypeOK
<1>6. issued' \in [DOMAIN issued' -> Token]
  <2>1. issued' = [t \in DOMAIN issued' |-> issued'[t]]
    BY <1>2, <1>3 DEF Put
  <2> QED
    BY <1>5, <2>1
<1>7. Serial'
  BY <1>1, <1>3 DEF Serial
<1>8. Outlives'
  <2>1. \A t \in DOMAIN blacklist : t \in DOMAIN issued
    BY DEF TokenInv, TypeOK
  <2> QED
    BY <1>3, <2>1 DEF Outlives, TokenInv
<1> QED
  BY <1>3, <1>4, <1>6, <1>7, <1>8 DEF id

\* What TypeOK says beyond GuessInv.
Owned == \A h \in Handlers : op[h].step \in {"mint", "revoke"} => op[h].token \in DOMAIN issued
Held ==
    /\ refresh \in {None} \cup DOMAIN issued
    /\ DOMAIN blacklist \subseteq DOMAIN issued /\ blacklist \in [DOMAIN blacklist -> Nat]
    /\ DOMAIN issued \subseteq Tokens /\ issued \in [DOMAIN issued -> Token]
    /\ logged_out \subseteq DOMAIN blacklist

LEMMA Parts ==
  /\ TypeOK => Owned /\ Held /\ now \in 0 .. MaxTime /\ active \in BOOLEAN
  /\ GuessInv /\ Owned /\ Held /\ now \in 0 .. MaxTime /\ active \in BOOLEAN => TypeOK
  BY DEF TypeOK, Owned, Held, GuessInv

LEMMA PartsNext ==
  GuessInv' /\ Owned' /\ Held' /\ (now \in 0 .. MaxTime)' /\ (active \in BOOLEAN)' /\ Serial' /\ Outlives' /\ Listed'
     => TokenInv'
  BY DEF TokenInv, TypeOK, Owned, Held, GuessInv

LEMMA OwnedKept ==
  ASSUME GuessInv, Owned, NEW h \in Handlers, NEW r, op' = [op EXCEPT ![h] = r],
         DOMAIN issued \subseteq DOMAIN issued',
         r.step \in {"mint", "revoke"} => r.token \in DOMAIN issued'
  PROVE  Owned'
<1> SUFFICES ASSUME NEW g \in Handlers, op'[g].step \in {"mint", "revoke"}
             PROVE  op'[g].token \in DOMAIN issued'
  BY DEF Owned
<1>1. CASE g = h
  <2>1. op'[g] = r
    BY <1>1 DEF GuessInv
  <2> QED
    BY <2>1
<1>2. CASE g # h
  <2>1. op'[g] = op[g]
    BY <1>2 DEF GuessInv
  <2> QED
    BY <2>1 DEF Owned
<1> QED
  BY <1>1, <1>2

LEMMA ListedKept ==
  ASSUME GuessInv, Listed, NEW h \in Handlers, NEW r, op' = [op EXCEPT ![h] = r],
         DOMAIN blacklist \subseteq DOMAIN blacklist',
         r.step = "revoke" => r.token \in DOMAIN blacklist'
  PROVE  Listed'
<1> SUFFICES ASSUME NEW g \in Handlers, op'[g].step = "revoke"
             PROVE  op'[g].token \in DOMAIN blacklist'
  BY DEF Listed
<1>1. CASE g = h
  <2>1. op'[g] = r
    BY <1>1 DEF GuessInv
  <2> QED
    BY <2>1
<1>2. CASE g # h
  <2>1. op'[g] = op[g]
    BY <1>2 DEF GuessInv
  <2> QED
    BY <2>1 DEF Listed
<1> QED
  BY <1>1, <1>2

\* Every step keeps the tokens in order and the blacklist long enough.
LEMMA NextTokens == GuessInv /\ GuessInv' /\ TokenInv /\ [Next]_vars => TokenInv'
<1> SUFFICES ASSUME GuessInv, GuessInv', TokenInv, [Next]_vars PROVE TokenInv'
  OBVIOUS
<1>p. Owned /\ Held /\ now \in 0 .. MaxTime /\ active \in BOOLEAN /\ Serial /\ Outlives /\ Listed
  BY Parts DEF TokenInv
<1>i. Idle.step = "idle"
  BY DEF Idle
<1>s. ASSUME UNCHANGED <<refresh, blacklist, issued, logged_out, now, active>>, Owned', Listed' PROVE TokenInv'
  <2>1. Held' /\ Serial' /\ Outlives' /\ (now \in 0 .. MaxTime)' /\ (active \in BOOLEAN)'
    BY <1>p, <1>s DEF Held, Serial, Outlives
  <2> QED
    BY <1>s, <2>1, PartsNext
<1>o. ASSUME UNCHANGED <<op, issued, blacklist>> PROVE Owned' /\ Listed'
  BY <1>p, <1>o DEF Owned, Listed
<1>1. ASSUME NEW h \in Handlers, LoginCheck(h) \/ LoginVerify(h) \/ LoginFail(h) \/ LoginClear(h)
      PROVE  TokenInv'
  <2>1. UNCHANGED <<refresh, blacklist, issued, logged_out, now, active>>
    BY <1>1 DEF LoginCheck, LoginVerify, LoginFail, LoginClear, account
  <2>2. PICK r : op' = [op EXCEPT ![h] = r] /\ r.step \notin {"mint", "revoke"}
    <3>1. CASE LoginCheck(h)
      <4> DEFINE r == [op[h] EXCEPT !.step = "verify"]
      <4>1. op' = [op EXCEPT ![h] = r] /\ r.step = "verify"
        BY <3>1 DEF LoginCheck, Goto, Become, GuessInv, Op
      <4> QED
        BY <4>1
    <3>2. CASE LoginVerify(h)
      <4> DEFINE r == [op[h] EXCEPT !.step = "failed"]
                 v == [op[h] EXCEPT !.step = "verified", !.password = password]
      <4>1. op' = [op EXCEPT ![h] = r] \/ op' = [op EXCEPT ![h] = Idle] \/ op' = [op EXCEPT ![h] = v]
        BY <3>2 DEF LoginVerify, Goto, Become
      <4>2. r.step = "failed" /\ v.step = "verified"
        BY DEF GuessInv, Op
      <4> HIDE DEF r, v
      <4> QED
        BY <4>1, <4>2, <1>i
    <3>3. CASE LoginFail(h)
      BY <3>3, <1>i DEF LoginFail, Become
    <3>4. CASE LoginClear(h)
      <4> DEFINE r == [op[h] EXCEPT !.step = "store", !.exp = Second(now) + AccessLife]
      <4>1. op' = [op EXCEPT ![h] = r] /\ r.step = "store"
        BY <3>4 DEF LoginClear, Become, GuessInv, Op
      <4> HIDE DEF r
      <4> QED
        BY <4>1
    <3> QED
      BY <1>1, <3>1, <3>2, <3>3, <3>4
  <2>3. Owned'
    BY <1>p, <2>1, <2>2, OwnedKept
  <2>4. Listed'
    BY <1>p, <2>1, <2>2, ListedKept
  <2> QED
    BY <1>s, <2>1, <2>3, <2>4
<1>2. ASSUME NEW h \in Handlers, NEW r \in Token, Issue(r), op' = [op EXCEPT ![h] = Idle],
             refresh' \in {refresh, Cardinality(DOMAIN issued) + 1},
             UNCHANGED <<blacklist, logged_out, now, active>>
      PROVE  TokenInv'
  <2>1. /\ Serial' /\ Outlives'
        /\ DOMAIN issued' = DOMAIN issued \cup {Cardinality(DOMAIN issued) + 1}
        /\ DOMAIN issued' \subseteq Tokens /\ issued' \in [DOMAIN issued' -> Token]
    BY <1>2, IssueKeeps
  <2>2. Held'
    BY <1>p, <1>2, <2>1 DEF Held
  <2>3. Owned'
    BY <1>p, <1>i, <1>2, <2>1, OwnedKept
  <2>4. Listed'
    BY <1>p, <1>i, <1>2, ListedKept
  <2>5. (now \in 0 .. MaxTime)' /\ (active \in BOOLEAN)'
    BY <1>p, <1>2
  <2> QED
    BY <2>1, <2>2, <2>3, <2>4, <2>5, PartsNext
<1>3. ASSUME NEW h \in Handlers, LoginStore(h) PROVE TokenInv'
  <2> DEFINE id == Cardinality(DOMAIN issued) + 1
             r == [exp |-> op[h].exp, session |-> id, password |-> op[h].password]
  <2>1. Issue(r) /\ op' = [op EXCEPT ![h] = Idle] /\ refresh' = id
        /\ UNCHANGED <<blacklist, logged_out, now, active>>
    BY <1>3 DEF LoginStore, Become, account
  <2>2. id \in Tokens
    BY <1>p, <2>1, NextToken DEF Issue
  <2> HIDE DEF id
  <2>3. r \in Token
    BY <2>2 DEF GuessInv, Op, Token
  <2> QED
    BY <1>2, <2>1, <2>3 DEF id
<1>4. ASSUME NEW h \in Handlers, RefreshMint(h) PROVE TokenInv'
  <2> DEFINE r == Refreshed(h)
  <2>1. Issue(r) /\ op' = [op EXCEPT ![h] = Idle] /\ refresh' = refresh
        /\ UNCHANGED <<blacklist, logged_out, now, active>> /\ op[h].step = "mint"
    BY <1>4 DEF RefreshMint, Become, At, account
  <2>2. op[h].token \in DOMAIN issued /\ op[h].token \in Tokens
    BY <1>p, <2>1 DEF Owned, Held
  <2>3. issued[op[h].token].password \in 1 .. MaxPasswords
    BY <1>p, <2>2 DEF Held, Token
  <2>4. Second(now) + AccessLife \in Nat
    BY Constants DEF GuessInv, Second
  <2>5. r \in Token
    BY <2>2, <2>3, <2>4 DEF Refreshed, Token
  <2> HIDE DEF r
  <2> QED
    BY <1>2, <2>1, <2>5
<1>5. ASSUME NEW h \in Handlers, LogoutRevoke(h) PROVE TokenInv'
  <2>1. /\ op' = [op EXCEPT ![h] = Idle] /\ refresh' = None /\ op[h].step = "revoke"
        /\ logged_out' = logged_out \cup {op[h].token}
        /\ UNCHANGED <<blacklist, issued, now, active>>
    BY <1>5 DEF LogoutRevoke, Become, At, account
  <2>2. op[h].token \in DOMAIN blacklist
    BY <1>p, <2>1 DEF Listed
  <2>3. Held'
    BY <1>p, <2>1, <2>2 DEF Held
  <2>4. Owned' /\ Listed'
    BY <1>p, <1>i, <2>1, OwnedKept, ListedKept
  <2>5. Serial' /\ Outlives' /\ (now \in 0 .. MaxTime)' /\ (active \in BOOLEAN)'
    BY <1>p, <2>1 DEF Serial, Outlives
  <2> QED
    BY <2>3, <2>4, <2>5, PartsNext
<1>6. ASSUME NEW h \in Handlers, NEW t \in Tokens, RefreshCheck(h, t) PROVE TokenInv'
  <2> DEFINE r == [op[h] EXCEPT !.step = "mint", !.token = t]
  <2>1. /\ op' = [op EXCEPT ![h] = r] /\ refresh = t /\ t # None
        /\ UNCHANGED <<refresh, blacklist, issued, logged_out, now, active>>
    BY <1>6 DEF RefreshCheck, Become, account
  <2>2. r.step = "mint" /\ r.token = t
    BY DEF GuessInv, Op
  <2> HIDE DEF r
  <2>3. t \in DOMAIN issued
    BY <1>p, <2>1 DEF Held
  <2>4. Owned'
    BY <1>p, <2>1, <2>2, <2>3, OwnedKept
  <2>5. Listed'
    BY <1>p, <2>1, <2>2, ListedKept
  <2> QED
    BY <1>s, <2>1, <2>4, <2>5
<1>7. ASSUME NEW h \in Handlers, NEW t \in Tokens, LogoutBlacklist(h, t) PROVE TokenInv'
  <2> DEFINE r == [op[h] EXCEPT !.step = "revoke", !.token = t]
             until == now + BlacklistTtl(issued[t].exp) * TicksPerSecond
  <2>1. /\ op' = [op EXCEPT ![h] = r] /\ t \in DOMAIN issued
        /\ blacklist' = Put(blacklist, t, until)
        /\ UNCHANGED <<refresh, issued, logged_out, now, active>>
    BY <1>7 DEF LogoutBlacklist, Become, account
  <2>2. r.step = "revoke" /\ r.token = t
    BY DEF GuessInv, Op
  <2>3. issued[t].exp \in Nat
    BY <1>p, <2>1 DEF Held, Token
  <2>4. until \in Nat /\ until > (issued[t].exp - 1) * TicksPerSecond
    BY <2>3, TtlSuffices DEF GuessInv
  <2> HIDE DEF r, until
  <2>5. DOMAIN blacklist' = DOMAIN blacklist \cup {t} /\ blacklist'[t] = until
        /\ \A k \in DOMAIN blacklist : k # t => blacklist'[k] = blacklist[k]
    BY <2>1 DEF Put
  <2>6. blacklist' \in [DOMAIN blacklist' -> Nat]
    <3>1. \A k \in DOMAIN blacklist' : blacklist'[k] \in Nat
      BY <1>p, <2>4, <2>5 DEF Held
    <3>2. blacklist' = [k \in DOMAIN blacklist' |-> blacklist'[k]]
      BY <2>1, <2>5 DEF Put
    <3> QED
      BY <3>1, <3>2
  <2>7. Held'
    BY <1>p, <2>1, <2>5, <2>6 DEF Held
  <2>8. Outlives'
    BY <1>p, <2>1, <2>4, <2>5 DEF Outlives
  <2>9. Owned'
    BY <1>p, <2>1, <2>2, OwnedKept
  <2>10. Listed'
    BY <1>p, <2>1, <2>2, <2>5, ListedKept
  <2>11. Serial' /\ (now \in 0 .. MaxTime)' /\ (active \in BOOLEAN)'
    BY <1>p, <2>1 DEF Serial
  <2> QED
    BY <2>7, <2>8, <2>9, <2>10, <2>11, PartsNext
<1>8. CASE (\E h \in Handlers, t \in Tokens : ChangePassword(h, t)) \/ LockoutExpires \/ UNCHANGED vars
  <2>1. UNCHANGED <<refresh, blacklist, issued, logged_out, now, active, op>>
    BY <1>8 DEF ChangePassword, LockoutExpires, vars, account
  <2> QED
    BY <1>o, <1>s, <2>1
<1>9. CASE SetActive \/ Tick
  <2>1. UNCHANGED <<refresh, blacklist, issued, logged_out, op>>
    BY <1>9 DEF SetActive, Tick
  <2>2. (now \in 0 .. MaxTime)'
    BY <1>9, <1>p, LimitsAssumption DEF SetActive, Tick
  <2>3. (active \in BOOLEAN)'
    <3>1. CASE SetActive
      BY <3>1 DEF SetActive
    <3>2. CASE Tick
      BY <1>p, <3>2 DEF Tick, account
    <3> QED
      BY <1>9, <3>1, <3>2
  <2>4. Held' /\ Serial' /\ Outlives'
    BY <1>p, <2>1 DEF Held, Serial, Outlives
  <2>5. Owned' /\ Listed'
    BY <1>o, <2>1
  <2> QED
    BY <2>2, <2>3, <2>4, <2>5, PartsNext
<1> QED
  BY <1>1, <1>3, <1>4, <1>5, <1>6, <1>7, <1>8, <1>9 DEF Next

(* Type correctness, for every number of requests and every bound: keys    *)
(* of the blacklist and sessions are tokens that were issued.              *)
THEOREM TypeCorrect == Spec => []TypeOK
<1>1. TokenInv => TypeOK
  BY DEF TokenInv
<1> QED
  BY <1>1, InitGuess, NextGuess, InitToken, NextTokens, PTL DEF Spec

(* logout_user: BlacklistTtl rounds the time left down, so the blacklist   *)
(* ends before the token does, but by less than a second; until then, no   *)
(* step of any request makes get_current_user accept the token again.      *)
THEOREM LoggedOut == Spec => []LogoutHolds
<1>1. GuessInv /\ TokenInv => LogoutHolds
  <2> SUFFICES ASSUME GuessInv, TokenInv, NEW t \in logged_out,
                      now <= (issued[t].exp - 1) * TicksPerSecond
               PROVE  ~ Accepts(t)
    BY DEF LogoutHolds
  <2>1. t \in DOMAIN blacklist /\ blacklist[t] \in Nat /\ issued[t].exp \in Nat
    BY DEF TokenInv, TypeOK, Token
  <2>2. blacklist[t] > (issued[t].exp - 1) * TicksPerSecond
    BY <2>1 DEF TokenInv, Outlives
  <2> DEFINE end == (issued[t].exp - 1) * TicksPerSecond
  <2>3. end \in Int /\ now <= end /\ blacklist[t] > end /\ now \in Nat
    BY <2>1, <2>2, Constants DEF GuessInv
  <2> HIDE DEF end
  <2>4. now < blacklist[t]
    BY <2>1, <2>3
  <2> QED
    BY <2>1, <2>4 DEF Accepts
<1> QED
  BY <1>1, InitGuess, NextGuess, InitToken, NextTokens, PTL DEF Spec

(* A session that logout or a later login has revoked stays revoked, also  *)
(* when a refresh of it is under way.                                      *)
THEOREM Revoked == Spec => RevokedStays
<1>1. TokenInv /\ [Next]_vars => [refresh' # refresh => refresh' = None \/ refresh' \notin DOMAIN issued]_vars
  <2> SUFFICES ASSUME TokenInv, Next, refresh' # refresh
               PROVE  refresh' = None \/ refresh' \notin DOMAIN issued
    OBVIOUS
  <2>1. PICK h \in Handlers : LoginStore(h) \/ LogoutRevoke(h)
    <3>1. ASSUME NEW h \in Handlers,
                 LoginCheck(h) \/ LoginVerify(h) \/ LoginFail(h) \/ LoginClear(h) \/ RefreshMint(h)
          PROVE  refresh' = refresh
      BY <3>1 DEF LoginCheck, LoginVerify, LoginFail, LoginClear, RefreshMint
    <3>2. ASSUME NEW h \in Handlers, NEW t \in Tokens,
                 RefreshCheck(h, t) \/ LogoutBlacklist(h, t) \/ ChangePassword(h, t)
          PROVE  refresh' = refresh
      BY <3>2 DEF RefreshCheck, LogoutBlacklist, ChangePassword
    <3>3. LockoutExpires \/ SetActive \/ Tick => refresh' = refresh
      BY DEF LockoutExpires, SetActive, Tick
    <3> QED
      BY <3>1, <3>2, <3>3 DEF Next
  <2>2. CASE LoginStore(h)
    BY <2>2, NextToken DEF LoginStore, Issue, TokenInv
  <2>3. CASE LogoutRevoke(h)
    BY <2>3 DEF LogoutRevoke
  <2> QED
    BY <2>1, <2>2, <2>3
<1> QED
  BY <1>1, InitGuess, NextGuess, InitToken, NextTokens, PTL DEF Spec, RevokedStays
=============================================================================
