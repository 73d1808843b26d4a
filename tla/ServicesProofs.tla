---------------------------- MODULE ServicesProofs ----------------------------
(* Theorems about the services behind one run: the usage queue, the registry  *)
(* of relays and the limits on requests, for any number of records, workers,  *)
(* relays and requests at a time.  Each component keeps an invariant of its   *)
(* own, and a step of the whole is a step of one of them.                     *)
EXTENDS MCUsageWorker, SumTheorems

\* The three components start as they do on their own.
LEMMA Begins == MCInit => /\ Init /\ Registry!Init /\ Limits!Init
                          /\ Registry!Constants /\ Limits!Constants
  BY ServicesAssumption DEF MCInit

\* A step of the whole is a step of each component, or leaves it alone.
LEMMA Steps ==
  [MCNext]_<<focus, vars, registry_vars, limit_vars>>
    => [Next]_vars /\ [Registry!Next]_registry_vars /\ [Limits!Next]_limit_vars
<1> SUFFICES ASSUME [MCNext]_<<focus, vars, registry_vars, limit_vars>>
             PROVE  [Next]_vars /\ [Registry!Next]_registry_vars /\ [Limits!Next]_limit_vars
  OBVIOUS
<1>1. CASE UNCHANGED <<focus, vars, registry_vars, limit_vars>>
  BY <1>1
<1>2. CASE focus = "worker" /\ Next /\ Rest
  BY <1>2 DEF Rest, Idle
<1>3. CASE focus = "registry" /\ Registry!Next /\ Rest
  BY <1>3 DEF Rest, Idle
<1>4. CASE focus = "window" /\ Limits!NextWindow /\ Rest
  BY <1>4 DEF Rest, Idle, Limits!Next
<1>5. CASE focus = "memory" /\ Limits!NextMemory /\ Rest
  BY <1>5 DEF Rest, Idle, Limits!Next
<1>6. CASE focus = "register" /\ Limits!NextRegister /\ Rest
  BY <1>6 DEF Rest, Idle, Limits!Next
<1> QED
  BY <1>1, <1>2, <1>3, <1>4, <1>5, <1>6 DEF MCNext

\* The operators of the library are the same in every instance.
LEMMA SameSize ==
  \A S : Limits!Cardinality(S) = Cardinality(S) /\ (Limits!IsFiniteSet(S) <=> IsFiniteSet(S))
<1> TAKE S
<1>1. Limits!Cardinality(S) = Cardinality(S)
  BY DEF Limits!Cardinality, Cardinality
<1>2. Limits!IsFiniteSet(S) <=> IsFiniteSet(S)
  BY DEF Limits!IsFiniteSet, IsFiniteSet
<1> QED
  BY <1>1, <1>2

Commands == {"idle", "trim", "count", "add", "incr", "expire"}
Command == [pc : Commands, at : 0 .. MaxTime]

\* What the limits and the numbers of requests are.
LEMMA Numbers ==
  ASSUME Limits!Constants
  PROVE  /\ IsFiniteSet(Callers) /\ Cardinality(Callers) \in Nat /\ Cardinality(Callers) > 0
         /\ calls_per_minute \in Nat /\ calls_per_minute > 0
         /\ MaxRegistrations \in Nat /\ MaxRegistrations > 0
         /\ Window \in Nat /\ Window > 0 /\ MaxTime \in Nat /\ MaxCount \in Nat
<1>1. IsFiniteSet(Callers) /\ Callers # {}
  BY SameSize DEF Limits!Constants
<1>2. Cardinality(Callers) \in Nat
  BY <1>1, FS_CardinalityType
<1>3. Cardinality(Callers) # 0
  BY <1>1, FS_EmptySet
<1> QED
  BY <1>1, <1>2, <1>3 DEF Limits!Constants

\* Of the requests at one command, there are no more than requests.
LEMMA PassedFew ==
  ASSUME Limits!TypeOK, NEW p
  PROVE  /\ IsFiniteSet(Limits!Passed(p)) /\ Cardinality(Limits!Passed(p)) \in Nat
         /\ Cardinality(Limits!Passed(p)) <= Cardinality(Callers)
<1>1. IsFiniteSet(Callers) /\ Limits!Passed(p) \in SUBSET Callers
  BY SameSize DEF Limits!TypeOK, Limits!Constants, Limits!Passed
<1>2. IsFiniteSet(Limits!Passed(p)) /\ Cardinality(Limits!Passed(p)) <= Cardinality(Callers)
  BY <1>1, FS_Subset
<1> QED
  BY <1>2, FS_CardinalityType

\* The entries of the sorted set are finitely many.
LEMMA EntriesFew ==
  ASSUME Limits!TypeOK
  PROVE  IsFiniteSet(entries) /\ Cardinality(entries) \in Nat
<1>1. IsFiniteSet(0 .. MaxTime)
  BY Numbers, FS_Interval DEF Limits!TypeOK
<1>2. IsFiniteSet(entries)
  BY <1>1, FS_Subset DEF Limits!TypeOK
<1> QED
  BY <1>2, FS_CardinalityType

-----------------------------------------------------------------------------
\* One request goes from one command to another.
LEMMA Moves ==
  ASSUME Limits!TypeOK, NEW c \in Callers, NEW from, NEW to \in Commands, Limits!Goto(c, from, to)
  PROVE  /\ limit_calls' \in [Callers -> Command]
         /\ limit_calls[c].pc = from /\ limit_calls'[c].pc = to /\ limit_calls'[c].at = limit_calls[c].at
         /\ \A d \in Callers : d # c => limit_calls'[d] = limit_calls[d]
<1>1. limit_calls \in [Callers -> Command] /\ limit_calls[c] \in Command
  BY DEF Limits!TypeOK, Command, Commands
<1>2. limit_calls' = [limit_calls EXCEPT ![c] = [limit_calls[c] EXCEPT !.pc = to]]
  BY <1>1 DEF Limits!Goto, Command
<1>3. /\ [limit_calls[c] EXCEPT !.pc = to] \in Command
      /\ [limit_calls[c] EXCEPT !.pc = to].pc = to /\ [limit_calls[c] EXCEPT !.pc = to].at = limit_calls[c].at
  BY <1>1 DEF Command
<1> HIDE DEF Command
<1> QED
  BY <1>1, <1>2, <1>3 DEF Limits!Goto

\* The requests at the command that is left, and at the one that is entered.
LEMMA PassedMoves ==
  ASSUME Limits!TypeOK, NEW c \in Callers, NEW from, NEW to \in Commands, Limits!Goto(c, from, to), NEW p
  PROVE  /\ p # from /\ p # to => Limits!Passed(p)' = Limits!Passed(p)
         /\ p = from /\ from # to => c \in Limits!Passed(p) /\ Limits!Passed(p)' = Limits!Passed(p) \ {c}
         /\ p = to => c \in Limits!Passed(p)'
         /\ p # to => Limits!Passed(p)' \subseteq Limits!Passed(p)
  BY Moves DEF Limits!Passed

\* The types hold at first.
LEMMA LimitsInitType == Limits!Constants /\ Limits!Init => Limits!TypeOK
<1> SUFFICES ASSUME Limits!Constants, Limits!Init PROVE Limits!TypeOK
  OBVIOUS
<1>1. 0 \in 0 .. MaxTime /\ 0 \in Nat
  BY Numbers
<1>2. rate_limits \in [Replicas -> [window_start : 0 .. MaxTime, count : Nat]]
  BY <1>1 DEF Limits!Init
<1>3. served \in [Replicas -> [0 .. MaxTime -> Nat]] /\ relay_regs \in [count : Nat, expires : BOOLEAN]
  BY <1>1 DEF Limits!Init
<1>4. limit_calls \in [Callers -> [pc : {"idle", "trim", "count", "add", "incr", "expire"}, at : 0 .. MaxTime]]
  BY <1>1 DEF Limits!Init
<1> QED
  BY <1>1, <1>2, <1>3, <1>4 DEF Limits!Init, Limits!TypeOK

\* A request counted in the memory of a replica.
LEMMA MemoryType ==
  ASSUME Limits!TypeOK, NEW i \in Replicas, Limits!CheckMemory(i)
  PROVE  Limits!TypeOK'
<1> DEFINE old == rate_limits[i]
           entry == IF old.count = 0 \/ now - old.window_start > Window THEN [window_start |-> now, count |-> 1]
                    ELSE [old EXCEPT !.count = @ + 1]
           Entry == [window_start : 0 .. MaxTime, count : Nat]
<1>1. old \in Entry /\ now \in 0 .. MaxTime
  BY DEF Limits!TypeOK
<1>2. entry \in Entry
  BY <1>1
<1>3. rate_limits' = [rate_limits EXCEPT ![i] = entry]
  BY DEF Limits!CheckMemory
<1>4. served' \in [Replicas -> [0 .. MaxTime -> Nat]]
  <2>1. served \in [Replicas -> [0 .. MaxTime -> Nat]] /\ served[i] \in [0 .. MaxTime -> Nat]
    BY DEF Limits!TypeOK
  <2>2. [served[i] EXCEPT ![now] = @ + 1] \in [0 .. MaxTime -> Nat]
    BY <2>1, <1>1
  <2>3. served' = served \/ served' = [served EXCEPT ![i] = [served[i] EXCEPT ![now] = @ + 1]]
    BY <2>1, <1>1 DEF Limits!CheckMemory
  <2> QED
    BY <2>1, <2>2, <2>3
<1> HIDE DEF entry
<1>5. rate_limits' \in [Replicas -> Entry]
  BY <1>2, <1>3 DEF Limits!TypeOK
<1> QED
  BY <1>4, <1>5 DEF Limits!TypeOK, Limits!CheckMemory, Limits!window_vars, Limits!register_vars

\* A request at the sliding window.
LEMMA WindowType ==
  ASSUME Limits!TypeOK, NEW c \in Callers, Limits!Dispatch(c) \/ Limits!Trim(c) \/ Limits!Count(c) \/ Limits!Add(c) \/ Limits!RedisFails(c)
  PROVE  Limits!TypeOK'
<1>1. limit_calls' \in [Callers -> Command]
  <2>0. limit_calls \in [Callers -> Command] /\ now \in 0 .. MaxTime
    BY DEF Limits!TypeOK, Command, Commands
  <2>1. CASE Limits!Dispatch(c)
    <3>1. [pc |-> "trim", at |-> now] \in Command
      BY <2>0 DEF Command, Commands
    <3> QED
      BY <2>0, <2>1, <3>1 DEF Limits!Dispatch
  <2>2. CASE Limits!Trim(c)
    BY <2>2, Moves DEF Limits!Trim, Commands
  <2>3. CASE Limits!Count(c)
    <3>1. Limits!Goto(c, "count", "idle") \/ Limits!Goto(c, "count", "add")
      BY <2>3, SameSize DEF Limits!Count
    <3> QED
      BY <3>1, Moves DEF Commands
  <2>4. CASE Limits!Add(c)
    BY <2>4, Moves DEF Limits!Add, Commands
  <2>5. CASE Limits!RedisFails(c)
    <3>1. Limits!Goto(c, limit_calls[c].pc, "idle")
      BY <2>5 DEF Limits!RedisFails, Limits!Goto
    <3>2. Limits!Goto(c, "trim", "idle") \/ Limits!Goto(c, "count", "idle") \/ Limits!Goto(c, "add", "idle")
      BY <2>5, <3>1 DEF Limits!RedisFails
    <3> QED
      BY <3>2, Moves DEF Commands
  <2> QED
    BY <2>1, <2>2, <2>3, <2>4, <2>5
<1>2. entries' \in SUBSET (0 .. MaxTime) /\ admitted' \in SUBSET (0 .. MaxTime)
  BY DEF Limits!TypeOK, Limits!Dispatch, Limits!Trim, Limits!Count, Limits!Add, Limits!RedisFails, Limits!window_vars
<1>3. UNCHANGED <<now, Limits!memory_vars, Limits!register_vars>>
  BY DEF Limits!Dispatch, Limits!Trim, Limits!Count, Limits!Add, Limits!RedisFails
<1> QED
  BY <1>1, <1>2, <1>3 DEF Limits!TypeOK, Command, Commands, Limits!memory_vars, Limits!register_vars

\* A registration, of an account or of a relay.
LEMMA RegisterType ==
  ASSUME Limits!TypeOK, NEW c \in Callers,
         Limits!Register(c) \/ Limits!IncrAndExpire(c) \/ Limits!IncrRelay(c) \/ Limits!ExpireRelay(c) \/ Limits!ExpireFails(c)
  PROVE  Limits!TypeOK'
<1>1. limit_calls' \in [Callers -> Command]
  <2>1. \/ Limits!Goto(c, "idle", "incr") \/ Limits!Goto(c, "incr", "idle") \/ Limits!Goto(c, "idle", "expire")
        \/ Limits!Goto(c, "idle", "idle") \/ Limits!Goto(c, "expire", "idle")
    BY DEF Limits!Register, Limits!IncrAndExpire, Limits!IncrRelay, Limits!ExpireRelay, Limits!ExpireFails
  <2> QED
    BY <2>1, Moves DEF Commands
<1>2. /\ registrations' = registrations \/ registrations' = registrations + 1
      /\ abandoned' = abandoned \/ abandoned' = TRUE
  BY DEF Limits!Register, Limits!IncrAndExpire, Limits!IncrRelay, Limits!ExpireRelay, Limits!ExpireFails, Limits!register_vars
<1>3. relay_regs' \in [count : Nat, expires : BOOLEAN]
  <2>0. relay_regs \in [count : Nat, expires : BOOLEAN]
    BY DEF Limits!TypeOK
  <2>1. CASE Limits!IncrRelay(c)
    BY <2>0, <2>1 DEF Limits!IncrRelay
  <2>2. CASE Limits!ExpireRelay(c)
    BY <2>0, <2>2 DEF Limits!ExpireRelay
  <2>3. CASE Limits!Register(c) \/ Limits!IncrAndExpire(c) \/ Limits!ExpireFails(c)
    BY <2>0, <2>3 DEF Limits!Register, Limits!IncrAndExpire, Limits!ExpireFails, Limits!register_vars
  <2> QED
    BY <2>1, <2>2, <2>3
<1>4. UNCHANGED <<now, Limits!window_vars, Limits!memory_vars>>
  BY DEF Limits!Register, Limits!IncrAndExpire, Limits!IncrRelay, Limits!ExpireRelay, Limits!ExpireFails
<1>5. registrations' \in Nat /\ abandoned' \in BOOLEAN
  <2>1. registrations \in Nat /\ abandoned \in BOOLEAN
    BY DEF Limits!TypeOK
  <2>2. registrations' \in Nat
    BY <1>2, <2>1
  <2>3. abandoned' \in BOOLEAN
    BY <1>2, <2>1, Zenon
  <2> QED
    BY <2>2, <2>3
<1> QED
  BY <1>1, <1>3, <1>4, <1>5 DEF Limits!TypeOK, Command, Commands, Limits!memory_vars, Limits!window_vars

\* Every step preserves the types.
LEMMA LimitsNextType == Limits!TypeOK /\ [Limits!Next]_limit_vars => Limits!TypeOK'
<1> SUFFICES ASSUME Limits!TypeOK, [Limits!Next]_limit_vars PROVE Limits!TypeOK'
  OBVIOUS
<1>1. CASE Limits!Tick
  <2>1. now' \in 0 .. MaxTime
    <3>1. Limits!Constants /\ now \in 0 .. MaxTime
      BY DEF Limits!TypeOK
    <3>2. now < MaxTime /\ now' = now + 1
      BY <1>1 DEF Limits!Tick
    <3> QED
      BY <3>1, <3>2, Numbers
  <2>2. UNCHANGED <<limit_calls, Limits!window_vars, Limits!memory_vars, Limits!register_vars>>
    BY <1>1 DEF Limits!Tick
  <2> QED
    BY <2>1, <2>2 DEF Limits!TypeOK, Limits!window_vars, Limits!memory_vars, Limits!register_vars
<1>2. CASE Limits!HourPasses
  BY <1>2 DEF Limits!TypeOK, Limits!HourPasses, Limits!window_vars, Limits!memory_vars
<1>3. CASE Limits!MinutePasses
  BY <1>3 DEF Limits!TypeOK, Limits!MinutePasses, Limits!window_vars, Limits!memory_vars
<1>4. CASE UNCHANGED limit_vars
  BY <1>4 DEF Limits!TypeOK, limit_vars
<1> QED
  BY <1>1, <1>2, <1>3, <1>4, MemoryType, WindowType, RegisterType DEF Limits!Next, Limits!NextWindow, Limits!NextMemory, Limits!NextRegister

\* Shapes, for every number of requests and replicas, and every limit.
LEMMA LimitsTypes == MCSpec => []Limits!TypeOK
  BY Begins, Steps, LimitsInitType, LimitsNextType, PTL DEF MCSpec

-----------------------------------------------------------------------------
(* Why the window holds.  Whatever was admitted in the last minute is in the *)
(* sorted set: a request trims by the time it was received at, which is past.*)
(* And a request that has counted stands for an entry not yet made.          *)
Live == {t \in admitted : t > now - Window}
WindowInv ==
  /\ Live \subseteq entries
  /\ Cardinality(entries) + Cardinality(Limits!Passed("add")) < calls_per_minute + Cardinality(Callers)
  /\ \A c \in Callers : limit_calls[c].at <= now

\* Nothing is counted at first.
LEMMA InitWindow == Limits!Constants /\ Limits!Init => WindowInv
<1> SUFFICES ASSUME Limits!Constants, Limits!Init PROVE WindowInv
  OBVIOUS
<1>1. Limits!Passed("add") = {} /\ entries = {} /\ Live = {}
  BY DEF Limits!Init, Limits!Passed, Live
<1>2. \A c \in Callers : limit_calls[c].at <= now
  BY DEF Limits!Init
<1>3. Cardinality(entries) = 0 /\ Cardinality(Limits!Passed("add")) = 0
  BY <1>1, FS_EmptySet
<1> QED
  BY <1>1, <1>2, <1>3, Numbers DEF WindowInv

\* A step that leaves the sorted set alone, and moves nobody to ZADD.
LEMMA NotCounting ==
  ASSUME Limits!TypeOK, Limits!TypeOK', WindowInv, now' = now, UNCHANGED Limits!window_vars,
         Limits!Passed("add")' \subseteq Limits!Passed("add"), \A c \in Callers : limit_calls'[c].at <= now
  PROVE  WindowInv'
<1>1. IsFiniteSet(Limits!Passed("add")) /\ Limits!Passed("add")' \in SUBSET Limits!Passed("add")
  BY PassedFew
<1>2. Cardinality(Limits!Passed("add")') <= Cardinality(Limits!Passed("add"))
  BY <1>1, FS_Subset
<1>3. Cardinality(entries) \in Nat /\ Cardinality(Limits!Passed("add")) \in Nat /\ Cardinality(Limits!Passed("add")') \in Nat
  BY EntriesFew, PassedFew, <1>1, FS_Subset, FS_CardinalityType
<1>4. Cardinality(entries') + Cardinality(Limits!Passed("add")') < calls_per_minute + Cardinality(Callers)
  BY <1>2, <1>3, Numbers DEF WindowInv, Limits!TypeOK, Limits!window_vars
<1> QED
  BY <1>4 DEF WindowInv, Live, Limits!window_vars

\* Every step keeps the window.
LEMMA NextWindowInv == Limits!TypeOK /\ Limits!TypeOK' /\ WindowInv /\ [Limits!Next]_limit_vars => WindowInv'
<1> SUFFICES ASSUME Limits!TypeOK, Limits!TypeOK', WindowInv, [Limits!Next]_limit_vars PROVE WindowInv'
  OBVIOUS
<1>n. /\ Cardinality(entries) \in Nat /\ IsFiniteSet(entries) /\ Cardinality(entries') \in Nat
      /\ Cardinality(Limits!Passed("add")) \in Nat /\ IsFiniteSet(Limits!Passed("add"))
      /\ Cardinality(Callers) \in Nat /\ calls_per_minute \in Nat /\ Window \in Nat /\ now \in Nat /\ now' \in Nat
  <2>1. IsFiniteSet(entries') /\ Cardinality(entries') \in Nat
    <3>1. MaxTime \in Int /\ entries' \in SUBSET (0 .. MaxTime)
      BY Numbers DEF Limits!TypeOK
    <3>2. IsFiniteSet(0 .. MaxTime)
      BY <3>1, FS_Interval
    <3> QED
      BY <3>1, <3>2, FS_Subset, FS_CardinalityType
  <2>2. now \in Nat /\ now' \in Nat /\ Limits!Constants
    BY DEF Limits!TypeOK
  <2> QED
    BY <2>1, <2>2, EntriesFew, PassedFew, Numbers
<1>1. CASE Limits!Tick
  <2>1. Limits!Passed("add")' = Limits!Passed("add") /\ now' >= now /\ UNCHANGED <<limit_calls, Limits!window_vars>>
    <3>1. now' = now + 1 /\ UNCHANGED <<limit_calls, Limits!window_vars>>
      BY <1>1 DEF Limits!Tick
    <3> QED
      BY <3>1, <1>n DEF Limits!Passed
  <2>2. Live' \subseteq Live
    <3>1. admitted' = admitted /\ admitted \in SUBSET Nat
      BY <2>1, <1>n DEF Limits!window_vars, Limits!TypeOK
    <3>2. ASSUME NEW t \in Nat, t > now' - Window PROVE t > now - Window
      <4>1. t \in Int /\ now \in Int /\ Window \in Int /\ now' = now + 1
        BY <1>1, <1>n DEF Limits!Tick
      <4> QED
        BY <4>1, <3>2
    <3> QED
      BY <3>1, <3>2 DEF Live
  <2>3. \A c \in Callers : limit_calls'[c].at <= now'
    BY <2>1, <1>n DEF WindowInv, Limits!TypeOK
  <2>4. entries' = entries /\ Cardinality(Limits!Passed("add"))' = Cardinality(Limits!Passed("add"))
    BY <2>1 DEF Limits!window_vars
  <2> QED
    BY <2>2, <2>3, <2>4 DEF WindowInv
<1>2. ASSUME NEW c \in Callers, Limits!Dispatch(c) PROVE WindowInv'
  <2>1. Limits!Passed("add")' \subseteq Limits!Passed("add") /\ \A d \in Callers : limit_calls'[d].at <= now
    BY <1>2, <1>n DEF Limits!Dispatch, Limits!Passed, WindowInv, Limits!TypeOK
  <2> QED
    BY <1>2, <2>1, NotCounting DEF Limits!Dispatch
<1>3. ASSUME NEW c \in Callers, Limits!Trim(c) PROVE WindowInv'
  <2>1. Limits!Passed("add")' = Limits!Passed("add") /\ \A d \in Callers : limit_calls'[d].at = limit_calls[d].at
    BY <1>3, Moves, PassedMoves DEF Limits!Trim, Commands
  <2>2. entries' \in SUBSET entries
    BY <1>3 DEF Limits!Trim
  <2>3. Cardinality(entries') <= Cardinality(entries)
    BY <2>2, <1>n, FS_Subset
  <2>4. Live' \subseteq entries'
    <3>1. Live' = Live /\ limit_calls[c].at \in Nat /\ limit_calls[c].at <= now
      <4>1. Live' = Live
        BY <1>3 DEF Limits!Trim, Live
      <4>2. limit_calls[c].at \in 0 .. MaxTime
        BY DEF Limits!TypeOK
      <4> QED
        BY <4>1, <4>2 DEF WindowInv
    <3>2. ASSUME NEW t \in Live PROVE t \in entries /\ t \in Nat /\ t > now - Window
      BY <3>2 DEF WindowInv, Live, Limits!TypeOK
    <3>3. ASSUME NEW t \in Live PROVE t > limit_calls[c].at - Window
      BY <3>1, <3>2, <1>n
    <3> QED
      BY <1>3, <3>1, <3>2, <3>3 DEF Limits!Trim
  <2>5. now' = now
    BY <1>3 DEF Limits!Trim
  <2>6. Cardinality(Limits!Passed("add"))' = Cardinality(Limits!Passed("add"))
    BY <2>1
  <2>7. Cardinality(entries') + Cardinality(Limits!Passed("add"))' < calls_per_minute + Cardinality(Callers)
    BY <2>3, <2>6, <1>n DEF WindowInv
  <2> QED
    BY <2>1, <2>4, <2>5, <2>7 DEF WindowInv
<1>4. ASSUME NEW c \in Callers, Limits!Count(c) PROVE WindowInv'
  <2>1. CASE Limits!Full(Cardinality(entries))
    <3>1. Limits!Goto(c, "count", "idle")
      BY <1>4, <2>1, SameSize DEF Limits!Count
    <3>2. Limits!Passed("add")' \subseteq Limits!Passed("add") /\ \A d \in Callers : limit_calls'[d].at <= now
      BY <3>1, Moves, PassedMoves DEF Commands, WindowInv
    <3> QED
      BY <1>4, <3>2, NotCounting, SameSize DEF Limits!Count
  <2>2. CASE ~Limits!Full(Cardinality(entries))
    <3>1. Limits!Goto(c, "count", "add")
      BY <1>4, <2>2, SameSize DEF Limits!Count
    <3>2. \A d \in Callers : limit_calls'[d].at <= now
      BY <3>1, Moves DEF Commands, WindowInv
    <3>3. Cardinality(entries) < calls_per_minute
      BY <2>2, <1>n DEF Limits!Full
    <3>4. Cardinality(Limits!Passed("add")') \in Nat /\ Cardinality(Limits!Passed("add")') <= Cardinality(Callers)
      <4>1. IsFiniteSet(Callers) /\ Limits!Passed("add")' \in SUBSET Callers
        BY SameSize DEF Limits!TypeOK, Limits!Constants, Limits!Passed
      <4> QED
        BY <4>1, FS_Subset, FS_CardinalityType
    <3>5. now' = now /\ entries' = entries /\ Live' = Live
      BY <1>4, SameSize DEF Limits!Count, Limits!window_vars, Live
    <3>6. Cardinality(entries') + Cardinality(Limits!Passed("add")') < calls_per_minute + Cardinality(Callers)
      BY <3>3, <3>4, <3>5, <1>n
    <3> QED
      BY <3>2, <3>5, <3>6 DEF WindowInv
  <2> QED
    BY <2>1, <2>2
<1>5. ASSUME NEW c \in Callers, Limits!Add(c) PROVE WindowInv'
  <2>1. c \in Limits!Passed("add") /\ Limits!Passed("add")' = Limits!Passed("add") \ {c}
    BY <1>5, PassedMoves DEF Limits!Add, Commands
  <2>2. \A d \in Callers : limit_calls'[d].at = limit_calls[d].at
    BY <1>5, Moves DEF Limits!Add, Commands
  <2>3. entries' = entries \cup {limit_calls[c].at} /\ now' = now
    BY <1>5 DEF Limits!Add
  <2>4. Cardinality(Limits!Passed("add")') = Cardinality(Limits!Passed("add")) - 1
    BY <2>1, <1>n, FS_RemoveElement
  <2>5. Cardinality(entries') <= Cardinality(entries) + 1
    <3>1. Cardinality(entries \cup {limit_calls[c].at})
            = IF limit_calls[c].at \in entries THEN Cardinality(entries) ELSE Cardinality(entries) + 1
      BY <1>n, FS_AddElement
    <3> QED
      BY <2>3, <3>1, <1>n
  <2>6. Live' \subseteq entries'
    BY <1>5, <2>3 DEF Limits!Add, Live, WindowInv
  <2>7. Cardinality(entries') + Cardinality(Limits!Passed("add")') < calls_per_minute + Cardinality(Callers)
    BY <2>4, <2>5, <1>n DEF WindowInv
  <2> QED
    BY <2>2, <2>3, <2>6, <2>7 DEF WindowInv
<1>6. ASSUME NEW c \in Callers, Limits!RedisFails(c) PROVE WindowInv'
  <2>1. Limits!Goto(c, "trim", "idle") \/ Limits!Goto(c, "count", "idle") \/ Limits!Goto(c, "add", "idle")
    BY <1>6 DEF Limits!RedisFails, Limits!Goto
  <2>2. Limits!Passed("add")' \subseteq Limits!Passed("add") /\ \A d \in Callers : limit_calls'[d].at <= now
    BY <2>1, Moves, PassedMoves DEF Commands, WindowInv
  <2> QED
    BY <1>6, <2>2, NotCounting DEF Limits!RedisFails
<1>7. ASSUME NEW c \in Callers,
             Limits!Register(c) \/ Limits!IncrAndExpire(c) \/ Limits!IncrRelay(c) \/ Limits!ExpireRelay(c) \/ Limits!ExpireFails(c)
      PROVE WindowInv'
  <2>1. \/ Limits!Goto(c, "idle", "incr") \/ Limits!Goto(c, "incr", "idle") \/ Limits!Goto(c, "idle", "expire")
        \/ Limits!Goto(c, "idle", "idle") \/ Limits!Goto(c, "expire", "idle")
    BY <1>7 DEF Limits!Register, Limits!IncrAndExpire, Limits!IncrRelay, Limits!ExpireRelay, Limits!ExpireFails
  <2>2. Limits!Passed("add")' \subseteq Limits!Passed("add") /\ \A d \in Callers : limit_calls'[d].at <= now
    BY <2>1, Moves, PassedMoves DEF Commands, WindowInv
  <2>3. now' = now /\ UNCHANGED Limits!window_vars
    BY <1>7 DEF Limits!Register, Limits!IncrAndExpire, Limits!IncrRelay, Limits!ExpireRelay, Limits!ExpireFails
  <2> QED
    BY <2>2, <2>3, NotCounting
<1>8. ASSUME \/ Limits!HourPasses \/ Limits!MinutePasses \/ UNCHANGED limit_vars \/ \E i \in Replicas : Limits!CheckMemory(i)
      PROVE WindowInv'
  <2>1. now' = now /\ UNCHANGED <<limit_calls, Limits!window_vars>>
    BY <1>8 DEF Limits!HourPasses, Limits!MinutePasses, Limits!CheckMemory, limit_vars, Limits!window_vars
  <2>2. Limits!Passed("add")' = Limits!Passed("add") /\ \A d \in Callers : limit_calls'[d].at <= now
    BY <2>1 DEF Limits!Passed, WindowInv
  <2> QED
    BY <2>1, <2>2, NotCounting
<1> QED
  BY <1>1, <1>2, <1>3, <1>4, <1>5, <1>6, <1>7, <1>8 DEF Limits!Next, Limits!NextWindow, Limits!NextMemory, Limits!NextRegister

(* _check_redis_rate_limit: in no minute are more milliseconds admitted than *)
(* the limit and the requests that may be between ZCARD and ZADD, but one.   *)
THEOREM SlidingBounded == MCSpec => []Limits!SlidingBound
<1>1. Limits!TypeOK /\ WindowInv => Limits!SlidingBound
  <2> SUFFICES ASSUME Limits!TypeOK, WindowInv PROVE Limits!SlidingBound
    OBVIOUS
  <2>1. IsFiniteSet(entries) /\ Cardinality(entries) \in Nat /\ Live \in SUBSET entries
    BY EntriesFew DEF WindowInv
  <2>2. Cardinality(Live) <= Cardinality(entries) /\ Cardinality(Live) \in Nat
    BY <2>1, FS_Subset, FS_CardinalityType
  <2>3. /\ Cardinality(Limits!Passed("add")) \in Nat /\ Cardinality(Callers) \in Nat /\ calls_per_minute \in Nat
    BY PassedFew, Numbers DEF Limits!TypeOK
  <2>4. Cardinality(Live) < calls_per_minute + Cardinality(Callers)
    BY <2>1, <2>2, <2>3 DEF WindowInv
  <2> QED
    BY <2>4, SameSize DEF Limits!SlidingBound, Live
<1> QED
  BY <1>1, InitWindow, NextWindowInv, LimitsTypes, Begins, Steps, PTL DEF MCSpec

-----------------------------------------------------------------------------
\* No account is registered at first.
LEMMA InitRegistration == Limits!Constants /\ Limits!Init => Limits!RegistrationBound
<1> SUFFICES ASSUME Limits!Constants, Limits!Init PROVE Limits!RegistrationBound
  OBVIOUS
<1>1. Limits!Passed("incr") = {} /\ registrations = 0
  BY DEF Limits!Init, Limits!Passed
<1>2. Cardinality(Limits!Passed("incr")) = 0
  BY <1>1, FS_EmptySet
<1> QED
  BY <1>1, <1>2, Numbers, SameSize DEF Limits!RegistrationBound

\* A step that registers nothing, and moves nobody to INCR.
LEMMA NotRegistering ==
  ASSUME Limits!TypeOK, Limits!RegistrationBound, registrations' = registrations, Limits!Passed("incr")' \subseteq Limits!Passed("incr")
  PROVE  Limits!RegistrationBound'
<1>1. IsFiniteSet(Limits!Passed("incr")) /\ Limits!Passed("incr")' \in SUBSET Limits!Passed("incr")
  BY PassedFew
<1>2. Cardinality(Limits!Passed("incr")') <= Cardinality(Limits!Passed("incr"))
  BY <1>1, FS_Subset
<1>3. Cardinality(Limits!Passed("incr")) \in Nat /\ Cardinality(Limits!Passed("incr")') \in Nat
  BY PassedFew, <1>1, FS_Subset, FS_CardinalityType
<1>4. Limits!Constants /\ registrations \in Nat
  BY DEF Limits!TypeOK
<1>5. registrations' + Cardinality(Limits!Passed("incr")') < MaxRegistrations + Cardinality(Callers)
  BY <1>2, <1>3, <1>4, Numbers, SameSize DEF Limits!RegistrationBound
<1> QED
  BY <1>5, SameSize DEF Limits!RegistrationBound

\* Every step keeps the limit on registrations.
LEMMA NextRegistration == Limits!TypeOK /\ Limits!TypeOK' /\ Limits!RegistrationBound /\ [Limits!Next]_limit_vars => Limits!RegistrationBound'
<1> SUFFICES ASSUME Limits!TypeOK, Limits!TypeOK', Limits!RegistrationBound, [Limits!Next]_limit_vars PROVE Limits!RegistrationBound'
  OBVIOUS
<1>n. /\ IsFiniteSet(Callers) /\ Cardinality(Callers) \in Nat /\ MaxRegistrations \in Nat /\ MaxRegistrations > 0
      /\ registrations \in Nat /\ Cardinality(Limits!Passed("incr")) \in Nat /\ IsFiniteSet(Limits!Passed("incr"))
  <2>1. Limits!Constants /\ registrations \in Nat
    BY DEF Limits!TypeOK
  <2> QED
    BY <2>1, Numbers, PassedFew
<1>f. Cardinality(Limits!Passed("incr")') \in Nat /\ Cardinality(Limits!Passed("incr")') <= Cardinality(Callers)
  <2>1. Limits!Passed("incr")' \in SUBSET Callers
    BY DEF Limits!Passed
  <2> QED
    BY <2>1, <1>n, FS_Subset, FS_CardinalityType
<1>1. ASSUME NEW c \in Callers, Limits!Register(c) PROVE Limits!RegistrationBound'
  <2>1. registrations < MaxRegistrations /\ registrations' = registrations
    BY <1>1 DEF Limits!Register, Limits!register_vars
  <2>2. registrations' + Cardinality(Limits!Passed("incr")') < MaxRegistrations + Cardinality(Callers)
    BY <2>1, <1>n, <1>f
  <2> QED
    BY <2>2, SameSize DEF Limits!RegistrationBound
<1>2. ASSUME NEW c \in Callers, Limits!IncrAndExpire(c) PROVE Limits!RegistrationBound'
  <2>1. c \in Limits!Passed("incr") /\ Limits!Passed("incr")' = Limits!Passed("incr") \ {c}
    BY <1>2, PassedMoves DEF Limits!IncrAndExpire, Commands
  <2>2. Cardinality(Limits!Passed("incr")') = Cardinality(Limits!Passed("incr")) - 1
    BY <2>1, <1>n, FS_RemoveElement
  <2>3. registrations' = registrations + 1
    BY <1>2 DEF Limits!IncrAndExpire
  <2>4. registrations' + Cardinality(Limits!Passed("incr")') < MaxRegistrations + Cardinality(Callers)
    BY <2>2, <2>3, <1>n, SameSize DEF Limits!RegistrationBound
  <2> QED
    BY <2>4, SameSize DEF Limits!RegistrationBound
<1>3. CASE Limits!HourPasses
  <2>1. registrations' = 0
    BY <1>3 DEF Limits!HourPasses
  <2>2. registrations' + Cardinality(Limits!Passed("incr")') < MaxRegistrations + Cardinality(Callers)
    BY <2>1, <1>n, <1>f
  <2> QED
    BY <2>2, SameSize DEF Limits!RegistrationBound
<1>4. ASSUME NEW c \in Callers, Limits!IncrRelay(c) \/ Limits!ExpireRelay(c) \/ Limits!ExpireFails(c) PROVE Limits!RegistrationBound'
  <2>1. Limits!Goto(c, "idle", "expire") \/ Limits!Goto(c, "idle", "idle") \/ Limits!Goto(c, "expire", "idle")
    BY <1>4 DEF Limits!IncrRelay, Limits!ExpireRelay, Limits!ExpireFails
  <2>2. Limits!Passed("incr")' \subseteq Limits!Passed("incr")
    BY <2>1, PassedMoves DEF Commands
  <2>3. registrations' = registrations
    BY <1>4 DEF Limits!IncrRelay, Limits!ExpireRelay, Limits!ExpireFails
  <2> QED
    BY <2>2, <2>3, NotRegistering
<1>5. ASSUME NEW c \in Callers, Limits!Trim(c) \/ Limits!Count(c) \/ Limits!Add(c) \/ Limits!RedisFails(c) PROVE Limits!RegistrationBound'
  <2>1. \/ Limits!Goto(c, "trim", "count") \/ Limits!Goto(c, "count", "idle") \/ Limits!Goto(c, "count", "add")
        \/ Limits!Goto(c, "add", "idle") \/ Limits!Goto(c, "trim", "idle")
    BY <1>5 DEF Limits!Trim, Limits!Count, Limits!Add, Limits!RedisFails, Limits!Goto
  <2>2. Limits!Passed("incr")' \subseteq Limits!Passed("incr")
    BY <2>1, PassedMoves DEF Commands
  <2>3. registrations' = registrations
    BY <1>5 DEF Limits!Trim, Limits!Count, Limits!Add, Limits!RedisFails, Limits!register_vars
  <2> QED
    BY <2>2, <2>3, NotRegistering
<1>6. ASSUME NEW c \in Callers, Limits!Dispatch(c) PROVE Limits!RegistrationBound'
  <2>1. Limits!Passed("incr")' \subseteq Limits!Passed("incr") /\ registrations' = registrations
    BY <1>6 DEF Limits!Dispatch, Limits!Passed, Limits!register_vars, Limits!TypeOK
  <2> QED
    BY <2>1, NotRegistering
<1>7. ASSUME \/ Limits!Tick \/ Limits!MinutePasses \/ UNCHANGED limit_vars \/ \E i \in Replicas : Limits!CheckMemory(i)
      PROVE Limits!RegistrationBound'
  <2>1. registrations' = registrations /\ limit_calls' = limit_calls
    BY <1>7 DEF Limits!Tick, Limits!MinutePasses, Limits!CheckMemory, limit_vars, Limits!register_vars
  <2> QED
    BY <2>1, NotRegistering DEF Limits!Passed
<1> QED
  BY <1>1, <1>2, <1>3, <1>4, <1>5, <1>6, <1>7 DEF Limits!Next, Limits!NextWindow, Limits!NextMemory, Limits!NextRegister

(* _check_registration_rate_limit: between two expirations of its key, an    *)
(* address registers no more accounts than the limit and the requests that   *)
(* may be between GET and INCR, but one.                                     *)
THEOREM RegistrationBounded == MCSpec => []Limits!RegistrationBound
  BY InitRegistration, NextRegistration, LimitsTypes, Begins, Steps, PTL DEF MCSpec

-----------------------------------------------------------------------------
\* A step that leaves the relays' count alone, and moves nobody from EXPIRE.
LEMMA KeyAlone ==
  ASSUME Limits!RelayKeyExpires, UNCHANGED <<relay_regs, abandoned>>, Limits!Passed("expire") \subseteq Limits!Passed("expire")'
  PROVE  Limits!RelayKeyExpires'
  BY DEF Limits!RelayKeyExpires

\* Every step keeps the count's time to live.
LEMMA NextKey == Limits!TypeOK /\ Limits!RelayKeyExpires /\ [Limits!Next]_limit_vars => Limits!RelayKeyExpires'
<1> SUFFICES ASSUME Limits!TypeOK, Limits!RelayKeyExpires, [Limits!Next]_limit_vars PROVE Limits!RelayKeyExpires'
  OBVIOUS
<1>t. relay_regs \in [count : Nat, expires : BOOLEAN] /\ abandoned \in BOOLEAN
  BY DEF Limits!TypeOK
<1>1. ASSUME NEW c \in Callers, Limits!IncrRelay(c) PROVE Limits!RelayKeyExpires'
  <2>1. /\ relay_regs' = [relay_regs EXCEPT !.count = relay_regs.count + 1] /\ abandoned' = abandoned
        /\ Limits!Goto(c, "idle", IF relay_regs'.count = 1 THEN "expire" ELSE "idle")
    BY <1>1 DEF Limits!IncrRelay
  <2>2. relay_regs'.count = relay_regs.count + 1 /\ relay_regs'.expires = relay_regs.expires
    BY <2>1, <1>t
  <2>3. CASE relay_regs.count = 0
    <3>1. Limits!Goto(c, "idle", "expire")
      BY <2>1, <2>2, <2>3
    <3>2. c \in Limits!Passed("expire")'
      BY <3>1, PassedMoves DEF Commands
    <3> QED
      BY <3>2 DEF Limits!RelayKeyExpires
  <2>4. CASE relay_regs.count > 0
    <3>1. Limits!Goto(c, "idle", "idle")
      BY <2>1, <2>2, <2>4, <1>t
    <3>2. Limits!Passed("expire")' = Limits!Passed("expire")
      BY <3>1, PassedMoves DEF Commands
    <3> QED
      BY <2>1, <2>2, <2>4, <3>2 DEF Limits!RelayKeyExpires
  <2> QED
    BY <2>3, <2>4, <1>t
<1>2. ASSUME NEW c \in Callers, Limits!ExpireRelay(c) PROVE Limits!RelayKeyExpires'
  <2>1. relay_regs'.expires = TRUE
    BY <1>2, <1>t DEF Limits!ExpireRelay
  <2> QED
    BY <2>1 DEF Limits!RelayKeyExpires
<1>3. ASSUME NEW c \in Callers, Limits!ExpireFails(c) PROVE Limits!RelayKeyExpires'
  BY <1>3 DEF Limits!ExpireFails, Limits!RelayKeyExpires
<1>4. CASE Limits!MinutePasses
  BY <1>4 DEF Limits!MinutePasses, Limits!RelayKeyExpires
<1>5. ASSUME NEW c \in Callers,
             Limits!Register(c) \/ Limits!IncrAndExpire(c) \/ Limits!Trim(c) \/ Limits!Count(c) \/ Limits!Add(c) \/ Limits!RedisFails(c)
      PROVE Limits!RelayKeyExpires'
  <2>1. \/ Limits!Goto(c, "idle", "incr") \/ Limits!Goto(c, "incr", "idle") \/ Limits!Goto(c, "trim", "count")
        \/ Limits!Goto(c, "count", "idle") \/ Limits!Goto(c, "count", "add") \/ Limits!Goto(c, "add", "idle") \/ Limits!Goto(c, "trim", "idle")
    BY <1>5 DEF Limits!Register, Limits!IncrAndExpire, Limits!Trim, Limits!Count, Limits!Add, Limits!RedisFails, Limits!Goto
  <2>2. Limits!Passed("expire")' = Limits!Passed("expire")
    BY <2>1, PassedMoves DEF Commands
  <2>3. UNCHANGED <<relay_regs, abandoned>>
    BY <1>5 DEF Limits!Register, Limits!IncrAndExpire, Limits!Trim, Limits!Count, Limits!Add, Limits!RedisFails, Limits!register_vars
  <2> QED
    BY <2>2, <2>3, KeyAlone
<1>6. ASSUME NEW c \in Callers, Limits!Dispatch(c) PROVE Limits!RelayKeyExpires'
  <2>1. Limits!Passed("expire") \subseteq Limits!Passed("expire")' /\ UNCHANGED <<relay_regs, abandoned>>
    BY <1>6 DEF Limits!Dispatch, Limits!Passed, Limits!register_vars, Limits!TypeOK
  <2> QED
    BY <2>1, KeyAlone
<1>7. ASSUME \/ Limits!Tick \/ Limits!HourPasses \/ UNCHANGED limit_vars \/ \E i \in Replicas : Limits!CheckMemory(i)
      PROVE Limits!RelayKeyExpires'
  <2>1. UNCHANGED <<limit_calls, relay_regs, abandoned>>
    BY <1>7 DEF Limits!Tick, Limits!HourPasses, Limits!CheckMemory, limit_vars, Limits!register_vars
  <2> QED
    BY <2>1, KeyAlone DEF Limits!Passed
<1> QED
  BY <1>1, <1>2, <1>3, <1>4, <1>5, <1>6, <1>7 DEF Limits!Next, Limits!NextWindow, Limits!NextMemory, Limits!NextRegister

(* register_relay: the only way to a count that never expires is a request   *)
(* cut off between its INCR and its EXPIRE.                                  *)
THEOREM OnlyCutOffKeepsCount == MCSpec => []Limits!RelayKeyExpires
<1>1. Limits!Init => Limits!RelayKeyExpires
  BY DEF Limits!Init, Limits!RelayKeyExpires
<1> QED
  BY <1>1, NextKey, LimitsTypes, Begins, Steps, PTL DEF MCSpec

-----------------------------------------------------------------------------
\* One replica's entry e and what its memory let through, f, at a time: nothing
\* before the first entry, in the window of the entry no more than it counted and
\* than the limit, and in the part of the last minute before it no more than that.
From(t0) == {t \in 0 .. MaxTime : t >= t0}
Before(t0, t1) == {t \in 0 .. MaxTime : t0 < t /\ t < t1}
Entry == [window_start : 0 .. MaxTime, count : Nat]
Keeps(f, e, time) ==
  /\ e.count = 0 => \A t \in 0 .. MaxTime : f[t] = 0
  /\ e.count > 0 => e.window_start <= time
  /\ PartialSums(f)[From(e.window_start)] <= e.count
  /\ PartialSums(f)[From(e.window_start)] <= calls_per_minute
  /\ PartialSums(f)[Before(time - Window, e.window_start)] <= calls_per_minute
  /\ \A t \in 0 .. MaxTime : f[t] > 0 => t <= e.window_start + Window /\ t <= time

MemoryInv == \A i \in Replicas : Keeps(served[i], rate_limits[i], now)

\* What a memory lets through can be summed up.
LEMMA ServedSums ==
  ASSUME Limits!Constants, NEW f \in [0 .. MaxTime -> Nat]
  PROVE  /\ Summable(f) /\ DOMAIN f = 0 .. MaxTime
         /\ \A S \in SUBSET (0 .. MaxTime) : PartialSums(f)[S] \in Nat
<1>1. MaxTime \in Nat
  BY Numbers
<1>2. IsFiniteSet(0 .. MaxTime)
  BY <1>1, FS_Interval
<1>3. Summable(f) /\ DOMAIN f = 0 .. MaxTime
  BY <1>2 DEF Summable
<1> QED
  BY <1>3, PartialSumsType

\* A request starts a window.
LEMMA OpensWindow ==
  ASSUME Limits!Constants, NEW f \in [0 .. MaxTime -> Nat], NEW e \in Entry, NEW time \in 0 .. MaxTime,
         Keeps(f, e, time), e.count = 0 \/ time - e.window_start > Window
  PROVE  Keeps([f EXCEPT ![time] = @ + 1], [window_start |-> time, count |-> 1], time)
<1> DEFINE g == [f EXCEPT ![time] = @ + 1]
           ws == e.window_start
           old == Before(time - Window, time)
<1>n. /\ Window \in Nat /\ calls_per_minute \in Nat /\ calls_per_minute > 0 /\ MaxTime \in Nat
      /\ ws \in Nat /\ time \in Nat /\ e.count \in Nat
  BY Numbers DEF Entry
<1>s. Summable(f) /\ DOMAIN f = 0 .. MaxTime
  BY ServedSums
<1>t. \A S \in SUBSET (0 .. MaxTime) : PartialSums(f)[S] \in Nat
  BY ServedSums
<1>1. \A t \in From(time) : f[t] = 0
  <2> SUFFICES ASSUME NEW t \in From(time) PROVE f[t] = 0
    OBVIOUS
  <2>1. t \in 0 .. MaxTime /\ t >= time /\ f[t] \in Nat
    BY DEF From
  <2>2. CASE e.count = 0
    BY <2>1, <2>2 DEF Keeps
  <2>3. CASE time - ws > Window
    <3>1. ~ (t <= ws + Window)
      BY <2>1, <2>3, <1>n
    <3>2. ~ (f[t] > 0)
      BY <2>1, <3>1 DEF Keeps
    <3> QED
      BY <2>1, <3>2
  <2> QED
    BY <2>2, <2>3
<1>2. PartialSums(f)[From(time)] = 0
  BY <1>s, <1>1, PartialSumsZero DEF From
<1>3. PartialSums(g)[From(time)] = 1
  <2>1. time \in From(time) /\ From(time) \subseteq DOMAIN f
    BY <1>n, <1>s DEF From
  <2>2. PartialSums(g)[From(time)] = IF time \in From(time) THEN PartialSums(f)[From(time)] + 1
                                     ELSE PartialSums(f)[From(time)]
    BY <1>s, <2>1, PartialSumsBump
  <2> QED
    BY <1>2, <2>1, <2>2
<1>4. PartialSums(f)[old] <= calls_per_minute
  <2>1. CASE e.count = 0
    <3>1. PartialSums(f)[old] = 0
      BY <1>s, <2>1, PartialSumsZero DEF Keeps, Before
    <3> QED
      BY <1>n, <3>1
  <2>2. CASE time - ws > Window
    <3>1. old \in SUBSET From(ws) /\ From(ws) \in SUBSET (0 .. MaxTime)
      BY <1>n, <2>2 DEF Before, From
    <3>2. PartialSums(f)[old] <= PartialSums(f)[From(ws)]
      BY <1>s, <3>1, PartialSumsGrow
    <3>3. PartialSums(f)[old] \in Nat /\ PartialSums(f)[From(ws)] \in Nat
      BY <1>t, <3>1
    <3>4. PartialSums(f)[From(ws)] <= calls_per_minute
      BY DEF Keeps
    <3> HIDE DEF old, ws
    <3> QED
      BY <1>n, <3>2, <3>3, <3>4
  <2> QED
    BY <2>1, <2>2
<1>5. PartialSums(g)[old] = PartialSums(f)[old]
  <2>1. time \notin old /\ old \subseteq DOMAIN f
    BY <1>n, <1>s DEF Before
  <2> HIDE DEF old
  <2>2. PartialSums(g)[old] = IF time \in old THEN PartialSums(f)[old] + 1 ELSE PartialSums(f)[old]
    BY <1>s, <2>1, PartialSumsBump, ZenonT(30)
  <2> QED
    BY <2>1, <2>2
<1>6. ASSUME NEW t \in 0 .. MaxTime, g[t] > 0 PROVE t <= time + Window /\ t <= time
  <2>1. t = time \/ f[t] > 0
    BY <1>6
  <2>2. t <= time
    BY <2>1, <1>n DEF Keeps
  <2> QED
    BY <2>2, <1>n
<1> HIDE DEF g, old
<1>7. 1 <= calls_per_minute /\ time <= time /\ 1 # 0
  BY <1>n
<1>8. [window_start |-> time, count |-> 1].window_start = time /\ [window_start |-> time, count |-> 1].count = 1
  OBVIOUS
<1>9. Keeps(g, [window_start |-> time, count |-> 1], time)
  BY <1>3, <1>4, <1>5, <1>6, <1>7, <1>8 DEF Keeps, old
<1> QED
  BY <1>9 DEF g

\* A request within the window is counted, and let through up to the limit.
LEMMA CountsOn ==
  ASSUME Limits!Constants, NEW f \in [0 .. MaxTime -> Nat], NEW e \in Entry, NEW time \in 0 .. MaxTime,
         Keeps(f, e, time), e.count # 0, ~ (time - e.window_start > Window),
         NEW d \in Entry, d.window_start = e.window_start, d.count = e.count + 1
  PROVE  /\ Keeps(f, d, time)
         /\ d.count <= calls_per_minute => Keeps([f EXCEPT ![time] = @ + 1], d, time)
<1> DEFINE g == [f EXCEPT ![time] = @ + 1]
           ws == e.window_start
           old == Before(time - Window, ws)
<1>n. /\ Window \in Nat /\ calls_per_minute \in Nat /\ MaxTime \in Nat
      /\ ws \in Nat /\ time \in Nat /\ e.count \in Nat /\ ws <= time /\ d.count = e.count + 1
  BY Numbers DEF Entry, Keeps
<1>s. Summable(f) /\ DOMAIN f = 0 .. MaxTime
  BY ServedSums
<1>t. PartialSums(f)[From(ws)] \in Nat
  <2>1. From(ws) \in SUBSET (0 .. MaxTime)
    BY DEF From
  <2> QED
    BY <2>1, ServedSums
<1>1. PartialSums(f)[From(ws)] <= d.count /\ d.count # 0
  <2>1. PartialSums(f)[From(ws)] <= e.count
    BY DEF Keeps
  <2> HIDE DEF ws
  <2> QED
    BY <2>1, <1>n, <1>t
<1>2. Keeps(f, d, time)
  BY <1>1, <1>n DEF Keeps
<1>3. ASSUME d.count <= calls_per_minute PROVE Keeps(g, d, time)
  <2>1. PartialSums(g)[From(ws)] = PartialSums(f)[From(ws)] + 1
    <3>1. time \in From(ws) /\ From(ws) \subseteq DOMAIN f
      BY <1>n, <1>s DEF From
    <3> QED
      BY <1>s, <3>1, PartialSumsBump
  <2>2. PartialSums(g)[From(ws)] <= d.count /\ PartialSums(g)[From(ws)] <= calls_per_minute
    <3>1. PartialSums(f)[From(ws)] <= e.count
      BY DEF Keeps
    <3> HIDE DEF ws, g
    <3> QED
      BY <1>3, <2>1, <3>1, <1>n, <1>t
  <2>3. PartialSums(g)[old] = PartialSums(f)[old]
    <3>1. time \notin old /\ old \subseteq DOMAIN f /\ time \in DOMAIN f
      BY <1>n, <1>s DEF Before
    <3> HIDE DEF old, ws
    <3>2. PartialSums(g)[old] = IF time \in old THEN PartialSums(f)[old] + 1 ELSE PartialSums(f)[old]
      BY <1>s, <3>1, PartialSumsBump
    <3> QED
      BY <3>1, <3>2
  <2>4. ASSUME NEW t \in 0 .. MaxTime, g[t] > 0 PROVE t <= ws + Window /\ t <= time
    <3>1. t = time \/ f[t] > 0
      BY <2>4
    <3> QED
      BY <3>1, <1>n DEF Keeps
  <2> HIDE DEF g
  <2> QED
    BY <1>1, <1>n, <2>2, <2>3, <2>4 DEF Keeps
<1> QED
  BY <1>2, <1>3

\* Time passes.
LEMMA LaterKeeps ==
  ASSUME Limits!Constants, NEW f \in [0 .. MaxTime -> Nat], NEW e \in Entry, NEW time \in 0 .. MaxTime,
         Keeps(f, e, time)
  PROVE  Keeps(f, e, time + 1)
<1> DEFINE ws == e.window_start
           new == Before((time + 1) - Window, ws)
           old == Before(time - Window, ws)
<1>n. Window \in Nat /\ calls_per_minute \in Nat /\ MaxTime \in Nat /\ ws \in Nat /\ time \in Nat
  BY Numbers DEF Entry
<1>s. Summable(f) /\ DOMAIN f = 0 .. MaxTime
  BY ServedSums
<1>1. new \in SUBSET old /\ old \in SUBSET (0 .. MaxTime)
  BY <1>n DEF Before
<1>2. PartialSums(f)[new] <= PartialSums(f)[old]
  BY <1>s, <1>1, PartialSumsGrow
<1>3. PartialSums(f)[new] \in Nat /\ PartialSums(f)[old] \in Nat
  BY <1>1, ServedSums
<1>4. PartialSums(f)[old] <= calls_per_minute
  BY DEF Keeps
<1>5. PartialSums(f)[new] <= calls_per_minute
  <2> HIDE DEF new, old
  <2> QED
    BY <1>2, <1>3, <1>4, <1>n
<1>6. \A t \in 0 .. MaxTime : f[t] > 0 => t <= ws + Window /\ t <= time + 1
  <2> SUFFICES ASSUME NEW t \in 0 .. MaxTime, f[t] > 0 PROVE t <= ws + Window /\ t <= time + 1
    OBVIOUS
  <2>1. t <= ws + Window /\ t <= time
    BY DEF Keeps
  <2> QED
    BY <2>1, <1>n
<1>7. e.count > 0 => ws <= time + 1
  <2>1. e.count > 0 => ws <= time
    BY DEF Keeps
  <2> QED
    BY <2>1, <1>n
<1> QED
  BY <1>5, <1>6, <1>7 DEF Keeps

\* Nothing is let through at first.
LEMMA InitMemory == Limits!Constants /\ Limits!Init => MemoryInv
<1> SUFFICES ASSUME Limits!Constants, Limits!Init, NEW i \in Replicas
             PROVE  Keeps(served[i], rate_limits[i], now)
  BY DEF MemoryInv
<1> DEFINE f == [t \in 0 .. MaxTime |-> 0]
<1>1. served[i] = f /\ rate_limits[i] = [window_start |-> 0, count |-> 0] /\ now = 0
  BY DEF Limits!Init
<1>2. f \in [0 .. MaxTime -> Nat] /\ calls_per_minute \in Nat
  BY Numbers
<1>3. Summable(f) /\ DOMAIN f = 0 .. MaxTime /\ \A t \in 0 .. MaxTime : f[t] = 0
  BY <1>2, ServedSums
<1>4. \A S \in SUBSET (0 .. MaxTime) : PartialSums(f)[S] = 0
  <2> HIDE DEF f
  <2> QED
    BY <1>3, PartialSumsZero
<1>5. From(0) \in SUBSET (0 .. MaxTime) /\ Before(0 - Window, 0) \in SUBSET (0 .. MaxTime)
  BY DEF From, Before
<1>6. [window_start |-> 0, count |-> 0].window_start = 0 /\ [window_start |-> 0, count |-> 0].count = 0
  OBVIOUS
<1>7. PartialSums(f)[From(0)] = 0 /\ PartialSums(f)[Before(0 - Window, 0)] = 0
  BY <1>4, <1>5
<1> HIDE DEF f
<1> QED
  BY <1>1, <1>2, <1>3, <1>6, <1>7 DEF Keeps

\* Every step keeps what the memories let through.
LEMMA NextMemoryInv == Limits!TypeOK /\ MemoryInv /\ [Limits!Next]_limit_vars => MemoryInv'
<1> SUFFICES ASSUME Limits!TypeOK, MemoryInv, [Limits!Next]_limit_vars, NEW i \in Replicas
             PROVE  Keeps(served'[i], rate_limits'[i], now')
  BY DEF MemoryInv
<1>t. /\ Limits!Constants /\ now \in 0 .. MaxTime /\ served \in [Replicas -> [0 .. MaxTime -> Nat]]
      /\ rate_limits \in [Replicas -> Entry] /\ served[i] \in [0 .. MaxTime -> Nat] /\ rate_limits[i] \in Entry
      /\ Keeps(served[i], rate_limits[i], now)
  BY DEF Limits!TypeOK, Entry, MemoryInv
<1>1. CASE Limits!Tick
  <2>1. now' = now + 1 /\ served' = served /\ rate_limits' = rate_limits
    BY <1>1 DEF Limits!Tick, Limits!memory_vars
  <2> QED
    BY <1>t, <2>1, LaterKeeps
<1>2. ASSUME NEW k \in Replicas, Limits!CheckMemory(k) PROVE Keeps(served'[i], rate_limits'[i], now')
  <2>1. CASE k # i
    <3>1. served'[i] = served[i] /\ rate_limits'[i] = rate_limits[i] /\ now' = now
      BY <1>2, <1>t, <2>1 DEF Limits!CheckMemory
    <3> QED
      BY <1>t, <3>1
  <2>2. CASE k = i
    <3> DEFINE old == rate_limits[i]
               one == [window_start |-> now, count |-> 1]
               more == [old EXCEPT !.count = @ + 1]
               new == IF old.count = 0 \/ now - old.window_start > Window THEN one ELSE more
               g == [served[i] EXCEPT ![now] = @ + 1]
    <3>1. now' = now /\ rate_limits'[i] = new
      BY <1>2, <1>t, <2>2 DEF Limits!CheckMemory
    <3>2. served'[i] = IF new.count <= calls_per_minute THEN g ELSE served[i]
      BY <1>2, <1>t, <2>2 DEF Limits!CheckMemory
    <3>3. CASE old.count = 0 \/ now - old.window_start > Window
      <4>1. new = one /\ one.count = 1 /\ 1 <= calls_per_minute
        BY <3>3, <1>t, Numbers
      <4>2. served'[i] = g
        BY <3>2, <4>1
      <4>3. Keeps(g, one, now)
        <5>1. old \in Entry /\ Keeps(served[i], old, now) /\ served[i] \in [0 .. MaxTime -> Nat]
          BY <1>t
        <5> HIDE DEF old
        <5> QED
          BY <1>t, <3>3, <5>1, OpensWindow
      <4> HIDE DEF g, one, new
      <4> QED
        BY <3>1, <4>1, <4>2, <4>3
    <3>4. CASE ~ (old.count = 0 \/ now - old.window_start > Window)
      <4>0. old \in Entry /\ old.count \in Nat /\ old.window_start \in 0 .. MaxTime
        BY <1>t DEF Entry
      <4>e. more \in Entry /\ more.window_start = old.window_start /\ more.count = old.count + 1
        <5> HIDE DEF old
        <5> QED
          BY <4>0 DEF Entry
      <4>1. /\ new = more /\ more \in Entry /\ more.window_start = old.window_start
            /\ more.count = old.count + 1 /\ old.count # 0 /\ ~ (now - old.window_start > Window)
        BY <3>4, <4>e
      <4> HIDE DEF new, more, old
      <4>2. Keeps(served[i], more, now) /\ (more.count <= calls_per_minute => Keeps(g, more, now))
        BY <1>t, <4>1, CountsOn DEF old
      <4> QED
        BY <3>1, <3>2, <4>1, <4>2
    <3> QED
      BY <3>3, <3>4
  <2> QED
    BY <2>1, <2>2
<1>3. ASSUME UNCHANGED <<now, Limits!memory_vars>> PROVE Keeps(served'[i], rate_limits'[i], now')
  BY <1>3, <1>t DEF Limits!memory_vars
<1>4. ASSUME NEW c \in Callers,
             Limits!Dispatch(c) \/ Limits!Trim(c) \/ Limits!Count(c) \/ Limits!Add(c) \/ Limits!RedisFails(c)
      PROVE  UNCHANGED <<now, Limits!memory_vars>>
  BY <1>4 DEF Limits!Dispatch, Limits!Trim, Limits!Count, Limits!Add, Limits!RedisFails, Limits!window_vars
<1>5. CASE Limits!NextRegister
  <2>1. UNCHANGED <<now, Limits!memory_vars>>
    BY <1>5 DEF Limits!NextRegister, Limits!Register, Limits!IncrAndExpire, Limits!IncrRelay, Limits!ExpireRelay,
                Limits!ExpireFails, Limits!HourPasses, Limits!MinutePasses
  <2> QED
    BY <2>1, <1>3
<1>6. CASE UNCHANGED limit_vars
  BY <1>6, <1>3 DEF limit_vars, Limits!memory_vars
<1> QED
  BY <1>1, <1>2, <1>3, <1>4, <1>5, <1>6 DEF Limits!Next, Limits!NextWindow, Limits!NextMemory

\* The sum of an instance of the library is the sum.
LEMMA SameSum == \A S : Limits!SumFunction(S) = SumFunction(S)
<1> TAKE S
<1> QED
  BY DEF Limits!SumFunction, SumFunction, Limits!SumFunctionOnSet, SumFunctionOnSet, Limits!FoldFunctionOnSet,
         FoldFunctionOnSet, Limits!MapThenFoldSet, MapThenFoldSet

\* The last minute lies in the window of the entry and in what was before it.
LEMMA MinuteBounded == Limits!TypeOK /\ MemoryInv => Limits!MemoryBound
<1> SUFFICES ASSUME Limits!TypeOK, MemoryInv, NEW i \in Replicas
             PROVE  Limits!Since(served[i], now - Window) <= 2 * calls_per_minute
  BY DEF Limits!MemoryBound
<1> DEFINE f == served[i]
           ws == rate_limits[i].window_start
           S == {u \in 0 .. now : u > now - Window}
           new == From(ws)
           old == Before(now - Window, ws)
<1>t. /\ Limits!Constants /\ now \in 0 .. MaxTime /\ f \in [0 .. MaxTime -> Nat] /\ ws \in 0 .. MaxTime
      /\ Keeps(f, rate_limits[i], now)
  BY DEF Limits!TypeOK, MemoryInv
<1>n. calls_per_minute \in Nat /\ MaxTime \in Nat /\ Window \in Nat
  BY <1>t, Numbers
<1>s. Summable(f) /\ DOMAIN f = 0 .. MaxTime
  BY <1>t, ServedSums
<1>1. new \cap old = {} /\ new \cup old \in SUBSET (0 .. MaxTime) /\ S \in SUBSET (new \cup old)
  BY <1>t, <1>n DEF From, Before
<1>2. /\ PartialSums(f)[S] \in Nat /\ PartialSums(f)[new] \in Nat /\ PartialSums(f)[old] \in Nat
      /\ PartialSums(f)[new \cup old] \in Nat
  BY <1>t, <1>1, ServedSums
<1>3. Limits!Since(f, now - Window) = PartialSums(f)[S]
  <2>1. S \subseteq DOMAIN f
    BY <1>1, <1>s
  <2>2. Limits!Since(f, now - Window) = SumFunction([t \in S |-> f[t]])
    BY SameSum DEF Limits!Since
  <2> HIDE DEF S, f
  <2> QED
    BY <1>s, <2>1, <2>2, SumPart
<1> HIDE DEF S, f, new, old
<1>4. PartialSums(f)[new \cup old] = PartialSums(f)[new] + PartialSums(f)[old]
  BY <1>1, <1>s, PartialSumsSplit
<1>5. PartialSums(f)[S] <= PartialSums(f)[new \cup old]
  BY <1>1, <1>s, PartialSumsGrow
<1>6. PartialSums(f)[new] <= calls_per_minute /\ PartialSums(f)[old] <= calls_per_minute
  BY <1>t DEF Keeps, new, old
<1>7. PartialSums(f)[S] <= 2 * calls_per_minute
  BY <1>2, <1>4, <1>5, <1>6, <1>n
<1> QED
  BY <1>3, <1>7 DEF f

(* _check_memory_rate_limit: in no minute does the memory of a replica let more  *)
(* than twice the limit through, wherever the windows begin.                     *)
THEOREM MemoryBounded == MCSpec => []Limits!MemoryBound
  BY InitMemory, NextMemoryInv, MinuteBounded, LimitsTypes, Begins, Steps, PTL DEF MCSpec

(* The limits keep what they say, all four.                                      *)
LEMMA LimitsSafe ==
  MCSpec => [](/\ Limits!SlidingBound /\ Limits!RegistrationBound
               /\ Limits!MemoryBound /\ Limits!RelayKeyExpires)
  BY SlidingBounded, RegistrationBounded, MemoryBounded, OnlyCutOffKeepsCount, PTL

-----------------------------------------------------------------------------
\* What a request to the registry may be about to write.
InsertCall == [op : {"insert"}, name : Names, addr : Addrs, load : Registry!Loads]
BeatCall == [op : {"heartbeat"}, id : Registry!Ids, load : Registry!Loads,
             seen : [status : Registry!Status, load : Registry!Loads]]

RegistryTypes ==
  /\ Registry!TypeOK
  /\ DOMAIN rows \subseteq 1 .. created
  /\ \A c \in DOMAIN registry_calls : registry_calls[c] \in InsertCall \cup BeatCall

\* The requests about to insert a row of the name.
Inserting(n) == {c \in DOMAIN registry_calls : registry_calls[c].op = "insert" /\ registry_calls[c].name = n}

\* A name has one row or one request that will insert it, not both.
NamesInv ==
  \A n \in Names \ raced :
    /\ \A c \in Inserting(n), d \in Inserting(n) : c = d
    /\ Inserting(n) # {} => Registry!Named(n) = {}
    /\ \A i \in Registry!Named(n), j \in Registry!Named(n) : i = j

RegistryInv == RegistryTypes /\ NamesInv /\ Registry!StatusAgrees

\* What Put and Drop make of a function.
LEMMA PutIs ==
  \A f, k, v : Registry!Put(f, k, v) = [x \in DOMAIN f \cup {k} |-> IF x = k THEN v ELSE f[x]]
  BY DEF Registry!Put
LEMMA DropIs ==
  \A f, k : Registry!Drop(f, k) = [x \in DOMAIN f \ {k} |-> f[x]]
<1> TAKE f, k
<1>1. DOMAIN f \ {k} = (DOMAIN f \ {k}) \cap DOMAIN f
  OBVIOUS
<1> QED
  BY <1>1 DEF Registry!Drop, Registry!Restrict

\* The status that a load stands for.
LEMMA UpToStatus ==
  ASSUME NEW load
  PROVE  /\ Registry!UpTo(load) \in {"online", "overloaded"} /\ Registry!UpTo(load) \in Registry!Status
         /\ Registry!UpTo(load) # "offline"
  BY DEF Registry!UpTo, Registry!Status

LEMMA InitRegistry == Registry!Constants /\ Registry!Init => RegistryInv
<1> SUFFICES ASSUME Registry!Constants, Registry!Init PROVE RegistryInv
  OBVIOUS
<1>1. /\ rows = <<>> /\ DOMAIN rows = {} /\ created = 0 /\ DOMAIN registry_calls = {}
      /\ raced = {} /\ crossed = {} /\ MaxRows \in Nat
  BY DEF Registry!Init, Registry!Constants
<1>2. rows \in [DOMAIN rows -> Registry!Row] /\ created \in 0 .. MaxRows
  BY <1>1
<1>3. RegistryTypes
  BY <1>1, <1>2 DEF RegistryTypes, Registry!TypeOK
<1>4. NamesInv
  BY <1>1 DEF NamesInv, Inserting, Registry!Named
<1>5. Registry!StatusAgrees
  BY <1>1 DEF Registry!StatusAgrees
<1> QED
  BY <1>3, <1>4, <1>5 DEF RegistryInv

\* A request takes its place among the calls.
LEMMA StartTypes ==
  ASSUME RegistryInv, NEW c \in Callers, NEW call \in InsertCall \cup BeatCall, Registry!Start(c, call),
         UNCHANGED <<rows, created, crossed>>, raced' \subseteq Names
  PROVE  /\ RegistryTypes' /\ Registry!StatusAgrees'
         /\ \A n : Inserting(n)' = Inserting(n) \cup (IF call.op = "insert" /\ call.name = n THEN {c} ELSE {})
         /\ \A n : Registry!Named(n)' = Registry!Named(n)
<1>1. /\ c \notin DOMAIN registry_calls
      /\ registry_calls' = [x \in DOMAIN registry_calls \cup {c} |-> IF x = c THEN call ELSE registry_calls[x]]
  BY PutIs DEF Registry!Start
<1>2. RegistryTypes'
  BY <1>1 DEF RegistryInv, RegistryTypes, Registry!TypeOK
<1>3. Registry!StatusAgrees'
  BY DEF RegistryInv, Registry!StatusAgrees
<1>4. ASSUME NEW n
      PROVE Inserting(n)' = Inserting(n) \cup (IF call.op = "insert" /\ call.name = n THEN {c} ELSE {})
  BY <1>1 DEF Inserting
<1> QED
  BY <1>2, <1>3, <1>4 DEF Registry!Named

\* A request ends, and its row changes or one is added.
LEMMA DropTypes ==
  ASSUME RegistryInv, NEW c \in DOMAIN registry_calls, registry_calls' = Registry!Drop(registry_calls, c)
  PROVE  /\ \A d \in DOMAIN registry_calls' : registry_calls'[d] \in InsertCall \cup BeatCall
         /\ DOMAIN registry_calls' \subseteq Callers
         /\ \A n : Inserting(n)' = Inserting(n) \ {c}
<1>1. registry_calls' = [x \in DOMAIN registry_calls \ {c} |-> registry_calls[x]]
  BY DropIs
<1>2. \A n : Inserting(n)' = Inserting(n) \ {c}
  BY <1>1 DEF Inserting
<1> QED
  BY <1>1, <1>2 DEF RegistryInv, RegistryTypes, Registry!TypeOK

\* A heartbeat, by identifier or by name, is about to be written.
LEMMA BeatStarts ==
  ASSUME RegistryInv, NEW c \in Callers, NEW load \in Registry!Loads, NEW id \in DOMAIN rows,
         Registry!Start(c, Registry!Beat(id, load)), UNCHANGED <<rows, created, raced, crossed>>
  PROVE  RegistryInv'
<1> DEFINE call == Registry!Beat(id, load)
<1>1. rows[id] \in Registry!Row /\ id \in Registry!Ids /\ raced \subseteq Names
  BY DEF RegistryInv, RegistryTypes, Registry!TypeOK
<1>2. Registry!Columns(rows[id]) \in [status : Registry!Status, load : Registry!Loads]
  BY <1>1 DEF Registry!Columns, Registry!Row
<1>3. call \in BeatCall /\ call.op = "heartbeat"
  BY <1>1, <1>2 DEF Registry!Beat, BeatCall
<1> HIDE DEF call
<1>4. /\ RegistryTypes' /\ Registry!StatusAgrees'
      /\ \A n : Inserting(n)' = Inserting(n) \cup (IF call.op = "insert" /\ call.name = n THEN {c} ELSE {})
      /\ \A n : Registry!Named(n)' = Registry!Named(n)
  <2>1. Registry!Start(c, call) /\ raced' \subseteq Names
    BY <1>1 DEF call
  <2> QED
    BY <1>3, <2>1, StartTypes
<1>5. \A n : Inserting(n)' = Inserting(n)
  BY <1>3, <1>4
<1>6. NamesInv'
  BY <1>4, <1>5 DEF NamesInv, RegistryInv
<1> QED
  BY <1>4, <1>6 DEF RegistryInv

\* A first heartbeat by name, or a registration: a row is about to be inserted.
LEMMA InsertStarts ==
  ASSUME RegistryInv, NEW c \in Callers, NEW n \in Names, NEW a \in Addrs, NEW load \in Registry!Loads,
         Registry!Start(c, [op |-> "insert", name |-> n, addr |-> a, load |-> load]),
         UNCHANGED <<rows, created, crossed>>, raced \subseteq raced', raced' \subseteq Names,
         n \in raced' \/ (Registry!Named(n) = {} /\ Inserting(n) = {})
  PROVE  RegistryInv'
<1> DEFINE call == [op |-> "insert", name |-> n, addr |-> a, load |-> load]
<1>1. call \in InsertCall /\ call.op = "insert" /\ call.name = n
  BY DEF InsertCall
<1> HIDE DEF call
<1>2. /\ RegistryTypes' /\ Registry!StatusAgrees'
      /\ \A m : Inserting(m)' = Inserting(m) \cup (IF call.op = "insert" /\ call.name = m THEN {c} ELSE {})
      /\ \A m : Registry!Named(m)' = Registry!Named(m)
  <2>1. Registry!Start(c, call)
    BY DEF call
  <2> QED
    BY <1>1, <2>1, StartTypes
<1>3. ASSUME NEW m \in Names \ raced'
      PROVE  /\ \A b \in Inserting(m)', d \in Inserting(m)' : b = d
             /\ Inserting(m)' # {} => Registry!Named(m)' = {}
             /\ \A i \in Registry!Named(m)', j \in Registry!Named(m)' : i = j
  <2>1. CASE m = n
    BY <1>1, <1>2, <1>3, <2>1
  <2>2. CASE m # n
    <3>1. Inserting(m)' = Inserting(m) /\ m \in Names \ raced
      BY <1>1, <1>2, <1>3, <2>2
    <3> QED
      BY <1>2, <3>1 DEF RegistryInv, NamesInv
  <2> QED
    BY <2>1, <2>2
<1>4. NamesInv'
  BY <1>3 DEF NamesInv
<1> QED
  BY <1>2, <1>4 DEF RegistryInv

\* A heartbeat is written.
LEMMA BeatCommits ==
  ASSUME RegistryInv, NEW c \in DOMAIN registry_calls, Registry!CommitHeartbeat(c)
  PROVE  RegistryInv'
<1> DEFINE call == registry_calls[c]
           id == call.id
           old == rows[id]
           new == Registry!Heard(old, call)
<1>0. call.op = "heartbeat" /\ call \in BeatCall
  <2>1. call.op = "heartbeat" /\ call \in InsertCall \cup BeatCall
    BY DEF Registry!CommitHeartbeat, RegistryInv, RegistryTypes
  <2>2. \A x \in InsertCall : x.op = "insert"
    BY DEF InsertCall
  <2> QED
    BY <2>1, <2>2
<1>1. /\ registry_calls' = Registry!Drop(registry_calls, c) /\ UNCHANGED <<created, raced>>
  BY DEF Registry!CommitHeartbeat
<1>2. /\ \A d \in DOMAIN registry_calls' : registry_calls'[d] \in InsertCall \cup BeatCall
      /\ DOMAIN registry_calls' \subseteq Callers
      /\ \A n : Inserting(n)' = Inserting(n) \ {c}
  BY <1>1, DropTypes
<1>c. id \in Registry!Ids /\ call.load \in Registry!Loads /\ call.seen.status \in Registry!Status /\ call.seen.load \in Registry!Loads
  BY <1>0 DEF BeatCall
<1>t. /\ rows \in [DOMAIN rows -> Registry!Row] /\ DOMAIN rows \subseteq Registry!Ids /\ crossed \subseteq Registry!Ids
      /\ DOMAIN rows \subseteq 1 .. created /\ created \in 0 .. MaxRows /\ raced \subseteq Names /\ Registry!Constants
  BY DEF RegistryInv, RegistryTypes, Registry!TypeOK
<1>3. CASE id \in DOMAIN rows
  <2>1. rows' = [rows EXCEPT ![id] = new]
    BY <1>3 DEF Registry!CommitHeartbeat
  <2>2. crossed' = IF Registry!Columns(old) = call.seen THEN crossed \ {id} ELSE crossed \cup {id}
    BY <1>3 DEF Registry!CommitHeartbeat
  <2>3. old \in Registry!Row
    BY <1>3, <1>t
  <2>4. new \in Registry!Row /\ new.name = old.name
    BY <1>c, <2>3, UpToStatus DEF Registry!Heard, Registry!Row, Registry!Changed
  <2>5. /\ new.load = Registry!Changed(call.seen.load, call.load, old.load)
        /\ new.status = Registry!Changed(call.seen.status, Registry!UpTo(call.load), old.status)
    BY <2>3 DEF Registry!Heard, Registry!Row
  <2>6. Registry!Columns(old) = call.seen => new.status = Registry!UpTo(call.load) /\ new.load = call.load
    BY <2>5 DEF Registry!Columns, Registry!Changed
  <2> HIDE DEF call, new, old, id
  <2>7. rows' \in [DOMAIN rows' -> Registry!Row] /\ DOMAIN rows' = DOMAIN rows
    BY <1>t, <2>1, <2>4
  <2>8. crossed' \subseteq Registry!Ids
    BY <1>t, <1>c, <2>2
  <2>9. RegistryTypes'
    BY <1>1, <1>2, <1>t, <2>7, <2>8 DEF RegistryTypes, Registry!TypeOK
  <2>10. \A n : Registry!Named(n)' = Registry!Named(n)
    <3>1. \A k \in DOMAIN rows : rows'[k].name = rows[k].name
      BY <2>1, <2>4 DEF old
    <3> QED
      BY <2>7, <3>1 DEF Registry!Named
  <2>11. NamesInv'
    BY <1>1, <1>2, <2>10 DEF RegistryInv, NamesInv
  <2>12. ASSUME NEW k \in DOMAIN rows' \ crossed'
         PROVE  /\ rows'[k].fresh => rows'[k].status # "offline"
                /\ rows'[k].status \in {"online", "overloaded"} => rows'[k].status = Registry!UpTo(rows'[k].load)
    <3>1. CASE k = id
      <4>1. Registry!Columns(old) = call.seen /\ rows'[k] = new
        BY <1>3, <2>1, <2>2, <2>7, <2>12, <3>1
      <4> QED
        BY <2>6, <4>1, UpToStatus
    <3>2. CASE k # id
      <4>1. rows'[k] = rows[k] /\ k \in DOMAIN rows \ crossed
        BY <2>1, <2>2, <2>7, <2>12, <3>2
      <4> QED
        BY <4>1 DEF RegistryInv, Registry!StatusAgrees
    <3> QED
      BY <3>1, <3>2
  <2>13. Registry!StatusAgrees'
    BY <2>12 DEF Registry!StatusAgrees
  <2> QED
    BY <2>9, <2>11, <2>13 DEF RegistryInv
<1>4. CASE id \notin DOMAIN rows
  <2>1. UNCHANGED <<rows, crossed>>
    BY <1>4 DEF Registry!CommitHeartbeat
  <2>2. RegistryTypes'
    BY <1>1, <1>2, <1>t, <2>1 DEF RegistryTypes, Registry!TypeOK
  <2>3. NamesInv'
    BY <1>1, <1>2, <2>1 DEF RegistryInv, NamesInv, Registry!Named
  <2>4. Registry!StatusAgrees'
    BY <2>1 DEF RegistryInv, Registry!StatusAgrees
  <2> QED
    BY <2>2, <2>3, <2>4 DEF RegistryInv
<1> QED
  BY <1>3, <1>4

\* A row is inserted.
LEMMA InsertCommits ==
  ASSUME RegistryInv, NEW c \in DOMAIN registry_calls, Registry!CommitInsert(c)
  PROVE  RegistryInv'
<1> DEFINE call == registry_calls[c]
           k == created + 1
           new == [name |-> call.name, addr |-> call.addr, status |-> Registry!UpTo(call.load),
                   load |-> call.load, fresh |-> TRUE]
<1>0. call.op = "insert" /\ call \in InsertCall
  <2>1. call.op = "insert" /\ call \in InsertCall \cup BeatCall
    BY DEF Registry!CommitInsert, RegistryInv, RegistryTypes
  <2>2. \A x \in BeatCall : x.op = "heartbeat"
    BY DEF BeatCall
  <2> QED
    BY <2>1, <2>2
<1>1. /\ registry_calls' = Registry!Drop(registry_calls, c) /\ UNCHANGED <<raced, crossed>>
      /\ created < MaxRows /\ created' = k
  BY DEF Registry!CommitInsert
<1>2. /\ \A d \in DOMAIN registry_calls' : registry_calls'[d] \in InsertCall \cup BeatCall
      /\ DOMAIN registry_calls' \subseteq Callers
      /\ \A n : Inserting(n)' = Inserting(n) \ {c}
  BY <1>1, DropTypes
<1>t. /\ rows \in [DOMAIN rows -> Registry!Row] /\ DOMAIN rows \subseteq Registry!Ids /\ crossed \subseteq Registry!Ids
      /\ DOMAIN rows \subseteq 1 .. created /\ created \in 0 .. MaxRows /\ raced \subseteq Names /\ Registry!Constants
      /\ MaxRows \in Nat
  BY DEF RegistryInv, RegistryTypes, Registry!TypeOK, Registry!Constants
<1>3. new \in Registry!Row
  BY <1>0, UpToStatus DEF InsertCall, Registry!Row
<1>4. new.name = call.name /\ new.fresh = TRUE /\ new.load = call.load /\ new.status = Registry!UpTo(call.load)
  OBVIOUS
<1>5. rows' = [x \in DOMAIN rows \cup {k} |-> IF x = k THEN new ELSE rows[x]]
  BY <1>1, PutIs DEF Registry!CommitInsert
<1>6. k \notin DOMAIN rows /\ k \in 1 .. MaxRows /\ created' \in 0 .. MaxRows /\ DOMAIN rows \cup {k} \subseteq 1 .. created'
  BY <1>1, <1>t
<1> HIDE DEF k, new
<1>7. DOMAIN rows' = DOMAIN rows \cup {k} /\ rows' \in [DOMAIN rows' -> Registry!Row]
  BY <1>3, <1>5, <1>t
<1>8. RegistryTypes'
  BY <1>1, <1>2, <1>6, <1>7, <1>t DEF RegistryTypes, Registry!TypeOK, Registry!Ids
<1>9. \A n : Registry!Named(n)' = Registry!Named(n) \cup (IF n = call.name THEN {k} ELSE {})
  <2>1. \A x \in DOMAIN rows : rows'[x] = rows[x]
    BY <1>5, <1>6
  <2>2. rows'[k].name = call.name
    BY <1>4, <1>5
  <2> HIDE DEF call
  <2> QED
    BY <1>6, <1>7, <2>1, <2>2 DEF Registry!Named
<1>10. ASSUME NEW m \in Names \ raced'
       PROVE  /\ \A b \in Inserting(m)', d \in Inserting(m)' : b = d
              /\ Inserting(m)' # {} => Registry!Named(m)' = {}
              /\ \A i \in Registry!Named(m)', j \in Registry!Named(m)' : i = j
  <2>1. m \in Names \ raced
    BY <1>1
  <2>2. CASE m = call.name
    <3>1. c \in Inserting(m)
      BY <1>0, <2>2 DEF Inserting
    <3>2. Registry!Named(m) = {} /\ Inserting(m) = {c}
      BY <2>1, <3>1 DEF RegistryInv, NamesInv
    <3> QED
      BY <1>2, <1>9, <2>2, <3>2
  <2>3. CASE m # call.name
    <3>1. c \notin Inserting(m)
      BY <2>3 DEF Inserting
    <3>2. Inserting(m)' = Inserting(m) /\ Registry!Named(m)' = Registry!Named(m)
      BY <1>2, <1>9, <2>3, <3>1
    <3> QED
      BY <2>1, <3>2 DEF RegistryInv, NamesInv
  <2> QED
    BY <2>2, <2>3
<1>11. NamesInv'
  BY <1>10 DEF NamesInv
<1>12. ASSUME NEW x \in DOMAIN rows' \ crossed'
       PROVE  /\ rows'[x].fresh => rows'[x].status # "offline"
              /\ rows'[x].status \in {"online", "overloaded"} => rows'[x].status = Registry!UpTo(rows'[x].load)
  <2>1. CASE x = k
    <3>1. rows'[x] = new
      BY <1>5, <1>7, <2>1
    <3> QED
      BY <1>4, <3>1, UpToStatus
  <2>2. CASE x # k
    <3>1. rows'[x] = rows[x] /\ x \in DOMAIN rows \ crossed
      BY <1>1, <1>5, <1>7, <1>12, <2>2
    <3> QED
      BY <3>1 DEF RegistryInv, Registry!StatusAgrees
  <2> QED
    BY <2>1, <2>2
<1> QED
  BY <1>8, <1>11, <1>12 DEF RegistryInv, Registry!StatusAgrees

\* A change to the rows that keeps their names and what they agree on, or drops some.
LEMMA RowsChange ==
  ASSUME RegistryInv, UNCHANGED <<created, registry_calls, raced, crossed>>,
         DOMAIN rows' \subseteq DOMAIN rows, rows' \in [DOMAIN rows' -> Registry!Row],
         \A k \in DOMAIN rows' : /\ rows'[k].name = rows[k].name /\ rows'[k].load = rows[k].load
                                 /\ rows'[k].fresh => rows[k].fresh /\ rows'[k].status = rows[k].status
                                 /\ rows'[k].status = rows[k].status \/ rows'[k].status = "offline"
  PROVE  RegistryInv'
<1>1. RegistryTypes'
  BY DEF RegistryInv, RegistryTypes, Registry!TypeOK
<1>2. \A n : Registry!Named(n)' \subseteq Registry!Named(n) /\ Inserting(n)' = Inserting(n)
  BY DEF Registry!Named, Inserting
<1>3. NamesInv'
  BY <1>2 DEF RegistryInv, NamesInv
<1>4. Registry!StatusAgrees'
  <2> SUFFICES ASSUME NEW k \in DOMAIN rows' \ crossed'
               PROVE  /\ rows'[k].fresh => rows'[k].status # "offline"
                      /\ rows'[k].status \in {"online", "overloaded"} => rows'[k].status = Registry!UpTo(rows'[k].load)
    BY DEF Registry!StatusAgrees
  <2>1. /\ rows[k].fresh => rows[k].status # "offline"
        /\ rows[k].status \in {"online", "overloaded"} => rows[k].status = Registry!UpTo(rows[k].load)
    BY DEF RegistryInv, Registry!StatusAgrees
  <2> QED
    BY <2>1
<1> QED
  BY <1>1, <1>3, <1>4 DEF RegistryInv

LEMMA RowsDrop ==
  ASSUME RegistryInv, NEW id \in DOMAIN rows, Registry!DeleteRelay(id)
  PROVE  RegistryInv'
<1>1. rows' = [x \in DOMAIN rows \ {id} |-> rows[x]]
  BY DropIs DEF Registry!DeleteRelay
<1>2. rows \in [DOMAIN rows -> Registry!Row]
  BY DEF RegistryInv, RegistryTypes, Registry!TypeOK
<1>3. /\ DOMAIN rows' \subseteq DOMAIN rows /\ rows' \in [DOMAIN rows' -> Registry!Row]
      /\ \A k \in DOMAIN rows' : rows'[k] = rows[k]
  BY <1>1, <1>2
<1> QED
  BY <1>3, RowsChange DEF Registry!DeleteRelay

LEMMA RowSilent ==
  ASSUME RegistryInv, NEW id \in DOMAIN rows, Registry!FallSilent(id)
  PROVE  RegistryInv'
<1> DEFINE new == [rows[id] EXCEPT !.fresh = FALSE]
<1>1. rows \in [DOMAIN rows -> Registry!Row] /\ rows[id] \in Registry!Row
  BY DEF RegistryInv, RegistryTypes, Registry!TypeOK
<1>2. /\ new \in Registry!Row /\ new.name = rows[id].name /\ new.load = rows[id].load
      /\ new.status = rows[id].status /\ new.fresh = FALSE
  BY <1>1 DEF Registry!Row
<1>3. rows' = [rows EXCEPT ![id] = new]
  BY <1>1 DEF Registry!FallSilent
<1> HIDE DEF new
<1>4. /\ DOMAIN rows' = DOMAIN rows /\ rows' \in [DOMAIN rows' -> Registry!Row]
      /\ \A k \in DOMAIN rows' : rows'[k] = rows[k] \/ (k = id /\ rows'[k] = new)
  BY <1>1, <1>2, <1>3
<1> QED
  BY <1>2, <1>4, RowsChange DEF Registry!FallSilent

LEMMA RowsCleaned ==
  ASSUME RegistryInv, Registry!CleanupStaleRelays
  PROVE  RegistryInv'
<1>1. rows \in [DOMAIN rows -> Registry!Row] /\ DOMAIN rows' = DOMAIN rows
  BY DEF RegistryInv, RegistryTypes, Registry!TypeOK, Registry!CleanupStaleRelays
<1>2. ASSUME NEW k \in DOMAIN rows
      PROVE  /\ rows'[k] \in Registry!Row
             /\ rows'[k].name = rows[k].name /\ rows'[k].load = rows[k].load
             /\ rows'[k].fresh => rows[k].fresh /\ rows'[k].status = rows[k].status
             /\ rows'[k].status = rows[k].status \/ rows'[k].status = "offline"
  <2> DEFINE new == [rows[k] EXCEPT !.status = "offline"]
  <2>1. rows[k] \in Registry!Row /\ "offline" \in Registry!Status
    BY <1>1 DEF Registry!Status
  <2>2. /\ new \in Registry!Row /\ new.name = rows[k].name /\ new.load = rows[k].load
        /\ new.status = "offline" /\ new.fresh = rows[k].fresh
    BY <2>1 DEF Registry!Row
  <2>3. rows'[k] = IF Registry!Stale(rows[k]) THEN new ELSE rows[k]
    BY DEF Registry!CleanupStaleRelays
  <2>4. Registry!Stale(rows[k]) => ~ rows[k].fresh
    BY DEF Registry!Stale
  <2> HIDE DEF new
  <2> QED
    BY <2>1, <2>2, <2>3, <2>4
<1>3. rows' \in [DOMAIN rows' -> Registry!Row]
  <2>1. rows' = [k \in DOMAIN rows |-> rows'[k]]
    BY DEF Registry!CleanupStaleRelays
  <2> QED
    BY <1>1, <1>2, <2>1
<1> QED
  BY <1>1, <1>2, <1>3, RowsChange DEF Registry!CleanupStaleRelays

\* Every step keeps the registry's invariant.
LEMMA NextRegistry == RegistryInv /\ [Registry!Next]_registry_vars => RegistryInv'
<1> SUFFICES ASSUME RegistryInv, [Registry!Next]_registry_vars PROVE RegistryInv'
  OBVIOUS
<1>t. raced \subseteq Names /\ "low" \in Registry!Loads
  BY DEF RegistryInv, RegistryTypes, Registry!TypeOK, Registry!Loads
<1>1. CASE Registry!CleanupStaleRelays
  BY <1>1, RowsCleaned
<1>2. ASSUME NEW id \in DOMAIN rows, Registry!DeleteRelay(id) \/ Registry!FallSilent(id) PROVE RegistryInv'
  BY <1>2, RowsDrop, RowSilent
<1>3. ASSUME NEW c \in Callers, NEW load \in Registry!Loads, NEW id \in DOMAIN rows,
             Registry!UpdateHeartbeat(c, id, load)
      PROVE RegistryInv'
  BY <1>3, BeatStarts DEF Registry!UpdateHeartbeat
<1>4. ASSUME NEW c \in Callers, NEW load \in Registry!Loads, NEW n \in Names, NEW a \in Addrs,
             Registry!HeartbeatByName(c, n, a, load)
      PROVE RegistryInv'
  <2>1. ASSUME NEW id \in Registry!Named(n), Registry!Start(c, Registry!Beat(id, load)), UNCHANGED raced
        PROVE  RegistryInv'
    <3>1. id \in DOMAIN rows
      BY DEF Registry!Named
    <3> QED
      BY <1>4, <2>1, <3>1, BeatStarts DEF Registry!HeartbeatByName
  <2>2. ASSUME Registry!Named(n) = {},
               Registry!Start(c, [op |-> "insert", name |-> n, addr |-> a, load |-> load]),
               raced' = IF \E d \in DOMAIN registry_calls : /\ registry_calls[d].op = "insert"
                                                            /\ registry_calls[d].name = n
                        THEN raced \cup {n} ELSE raced
        PROVE  RegistryInv'
    <3>1. raced \subseteq raced' /\ raced' \subseteq Names /\ (n \in raced' \/ Inserting(n) = {})
      BY <2>2, <1>t DEF Inserting
    <3> QED
      BY <1>4, <2>2, <3>1, InsertStarts DEF Registry!HeartbeatByName
  <2> QED
    BY <1>4, <2>1, <2>2 DEF Registry!HeartbeatByName
<1>5. ASSUME NEW c \in Callers, NEW n \in Names, NEW a \in Addrs, Registry!RegisterRelay(c, n, a)
      PROVE RegistryInv'
  <2>1. raced \subseteq raced' /\ raced' \subseteq Names /\ n \in raced'
    BY <1>5, <1>t DEF Registry!RegisterRelay
  <2> QED
    BY <1>5, <1>t, <2>1, InsertStarts DEF Registry!RegisterRelay
<1>6. ASSUME NEW c \in DOMAIN registry_calls, Registry!CommitHeartbeat(c) \/ Registry!CommitInsert(c)
      PROVE RegistryInv'
  BY <1>6, BeatCommits, InsertCommits
<1>7. ASSUME NEW c \in DOMAIN registry_calls, Registry!Rollback(c) PROVE RegistryInv'
  <2>1. /\ \A d \in DOMAIN registry_calls' : registry_calls'[d] \in InsertCall \cup BeatCall
        /\ DOMAIN registry_calls' \subseteq Callers
        /\ \A n : Inserting(n)' = Inserting(n) \ {c}
    BY <1>7, DropTypes DEF Registry!Rollback
  <2>2. UNCHANGED <<rows, created, raced, crossed>>
    BY <1>7 DEF Registry!Rollback
  <2>3. RegistryTypes'
    BY <2>1, <2>2 DEF RegistryInv, RegistryTypes, Registry!TypeOK
  <2>4. NamesInv'
    BY <2>1, <2>2 DEF RegistryInv, NamesInv, Registry!Named
  <2>5. Registry!StatusAgrees'
    BY <2>2 DEF RegistryInv, Registry!StatusAgrees
  <2> QED
    BY <2>3, <2>4, <2>5 DEF RegistryInv
<1>8. CASE UNCHANGED registry_vars
  BY <1>8 DEF registry_vars, RegistryInv, RegistryTypes, Registry!TypeOK, NamesInv, Inserting, Registry!Named,
              Registry!StatusAgrees
<1> QED
  BY <1>1, <1>2, <1>3, <1>4, <1>5, <1>6, <1>7, <1>8 DEF Registry!Next

LEMMA RegistryHolds == MCSpec => []RegistryInv
  BY Begins, Steps, InitRegistry, NextRegistry, PTL DEF MCSpec

\* Rows that are all the same are at most one.
LEMMA OneRow == RegistryInv => Registry!NamesOnce
<1> SUFFICES ASSUME RegistryInv, NEW n \in Names \ raced PROVE Registry!Cardinality(Registry!Named(n)) <= 1
  BY DEF Registry!NamesOnce
<1> DEFINE S == Registry!Named(n)
<1>1. \A i \in S, j \in S : i = j
  BY DEF RegistryInv, NamesInv
<1>2. Registry!Cardinality(S) = Cardinality(S)
  BY DEF Registry!Cardinality, Cardinality
<1> HIDE DEF S
<1>3. CASE S = {}
  BY <1>2, <1>3, FS_EmptySet DEF S
<1>4. CASE S # {}
  <2>1. PICK i \in S : TRUE
    BY <1>4
  <2>2. S = {i}
    BY <1>1, <2>1
  <2>3. Cardinality(S) = 1
    BY <2>2, FS_Singleton
  <2> QED
    BY <1>2, <2>3 DEF S
<1> QED
  BY <1>3, <1>4

(* update_heartbeat, heartbeat_by_name, cleanup_stale_relays: a name has one row *)
(* unless its registrations raced, and what a row says of its relay agrees with  *)
(* itself unless its last heartbeat crossed another change.                      *)
THEOREM RegistrySound == MCSpec => [](Registry!NamesOnce /\ Registry!StatusAgrees)
<1>1. RegistryInv => Registry!NamesOnce /\ Registry!StatusAgrees
  BY OneRow DEF RegistryInv
<1> QED
  BY <1>1, RegistryHolds, PTL

(* What a relay's row says and what the limits let through.                      *)
(* (heartbeat_by_name, cleanup_stale_relays, _check_redis_rate_limit,            *)
(* _check_registration_rate_limit).                                              *)
THEOREM ServicesSound == MCSpec => []ServicesSafe
<1>1. /\ Registry!NamesOnce /\ Registry!StatusAgrees
      /\ Limits!SlidingBound /\ Limits!RegistrationBound /\ Limits!MemoryBound /\ Limits!RelayKeyExpires
      => ServicesSafe
  BY DEF ServicesSafe
<1> QED
  BY <1>1, RegistrySound, LimitsSafe, PTL

-----------------------------------------------------------------------------
\* The places of a record in a list, and what the lists of all workers hold of it.
Places(s, r) == {i \in DOMAIN s : s[i].id = r}
One(condition) == IF condition THEN 1 ELSE 0
Held(b, r) == [w \in Workers |-> Occurs(b[w], r)]
Alive(r) == Occurs(queue, r) + SumFunction(Held(batch, r))

UsageTypes == TypeOK /\ batch \in [Workers -> Seq(Item)] /\ doubtful <= faults

\* Only records that were pushed are in the lists.
AllPushed(s, known) == \A i \in DOMAIN s : s[i].id \in known
ItemsPushed == AllPushed(queue, pushed) /\ \A w \in Workers : AllPushed(batch[w], pushed)

\* A record has not been put back more often than the database failed, and is put back
\* for a failure it has not been put back for.
Tried(s, n) == \A i \in DOMAIN s : s[i].retries <= n
Retried == faults = 0 => /\ Tried(queue, db_failures)
                         /\ \A w \in Workers :
                               Tried(batch[w], IF pc[w] = "requeue" THEN db_failures - 1 ELSE db_failures)

\* A record is in one place at a time, in the database besides for a doubtful commit,
\* and nowhere before it is pushed.
Counted == \A r \in Records :
  /\ Alive(r) <= One(r \in pushed)
  /\ r \notin pushed => Alive(r) + db[r] = 0
  /\ Alive(r) + db[r] <= 1 + doubtful
  /\ ~Uncovered /\ r \in pushed => Alive(r) + db[r] >= 1

UsageInv == UsageTypes /\ ItemsPushed /\ Retried /\ Counted

-----------------------------------------------------------------------------
LEMMA PlacesFinite ==
  ASSUME NEW s \in Seq(Item), NEW r
  PROVE  IsFiniteSet(Places(s, r)) /\ Occurs(s, r) = Cardinality(Places(s, r)) /\ Occurs(s, r) \in Nat
<1>1. DOMAIN s = 1 .. Len(s) /\ Len(s) \in Nat
  OBVIOUS
<1>2. IsFiniteSet(Places(s, r))
  <2>1. IsFiniteSet(1 .. Len(s))
    BY <1>1, FS_Interval
  <2>2. Places(s, r) \subseteq 1 .. Len(s)
    BY <1>1 DEF Places
  <2> QED
    BY <2>1, <2>2, FS_Subset
<1>3. Occurs(s, r) = Cardinality(Places(s, r))
  BY DEF Occurs, Places
<1> QED
  BY <1>2, <1>3, FS_CardinalityType

LEMMA OccursEmpty == \A r : Occurs(<<>>, r) = 0
<1> TAKE r
<1>1. Places(<<>>, r) = {} /\ <<>> \in Seq(Item)
  BY DEF Places
<1> QED
  BY <1>1, PlacesFinite, FS_EmptySet

LEMMA OccursAppend ==
  ASSUME NEW s \in Seq(Item), NEW x \in Item, NEW r
  PROVE  Occurs(Append(s, x), r) = Occurs(s, r) + One(x.id = r)
<1> DEFINE t == Append(s, x)
           n == Len(s) + 1
<1>1. /\ t \in Seq(Item) /\ DOMAIN t = DOMAIN s \cup {n} /\ n \notin DOMAIN s
      /\ t[n] = x /\ \A i \in DOMAIN s : t[i] = s[i]
  OBVIOUS
<1> HIDE DEF t, n
<1>2. Places(t, r) = Places(s, r) \cup (IF x.id = r THEN {n} ELSE {}) /\ n \notin Places(s, r)
  BY <1>1 DEF Places
<1>3. Cardinality(Places(t, r)) = Cardinality(Places(s, r)) + One(x.id = r)
  <2>1. CASE x.id = r
    <3>1. IsFiniteSet(Places(s, r)) /\ n \notin Places(s, r) /\ Places(t, r) = Places(s, r) \cup {n}
      BY <1>2, <2>1, PlacesFinite
    <3>2. Cardinality(Places(s, r) \cup {n}) = Cardinality(Places(s, r)) + 1
      BY <3>1, FS_AddElement
    <3> QED
      BY <2>1, <3>1, <3>2 DEF One
  <2>2. CASE x.id # r
    BY <1>2, <2>2, PlacesFinite DEF One
  <2> QED
    BY <2>1, <2>2
<1> QED
  BY <1>1, <1>3, PlacesFinite DEF t

LEMMA OccursTail ==
  ASSUME NEW s \in Seq(Item), s # <<>>, NEW r
  PROVE  Occurs(s, r) = Occurs(Tail(s), r) + One(Head(s).id = r)
<1> DEFINE t == Tail(s)
           S == Places(t, r)
           T == Places(s, r) \ {1}
           f == [i \in S |-> i + 1]
<1>1. /\ t \in Seq(Item) /\ DOMAIN s = 1 .. Len(s) /\ DOMAIN t = 1 .. Len(t) /\ Len(t) \in Nat
      /\ Len(s) = Len(t) + 1 /\ Head(s) = s[1] /\ 1 \in DOMAIN s
      /\ \A i \in 1 .. Len(t) : t[i] = s[i + 1]
  OBVIOUS
<1>2. \A i \in S : i \in Nat /\ i + 1 \in T
  BY <1>1 DEF Places
<1>3. \A j \in T : j - 1 \in S /\ (j - 1) + 1 = j /\ j \in Nat
  <2> SUFFICES ASSUME NEW j \in T PROVE j - 1 \in S /\ (j - 1) + 1 = j /\ j \in Nat
    OBVIOUS
  <2>1. j \in 1 .. Len(s) /\ j # 1 /\ s[j].id = r
    BY <1>1 DEF Places
  <2>2. j - 1 \in 1 .. Len(t) /\ (j - 1) + 1 = j
    BY <1>1, <2>1
  <2>3. t[j - 1] = s[j]
    BY <1>1, <2>2
  <2> QED
    BY <1>1, <2>1, <2>2, <2>3 DEF Places
<1> HIDE DEF S, T
<1>4. f \in Bijection(S, T)
  <2>1. f \in [S -> T]
    BY <1>2
  <2>2. \A i, j \in S : f[i] = f[j] => i = j
    BY <1>2
  <2>3. \A j \in T : \E i \in S : f[i] = j
    <3> SUFFICES ASSUME NEW j \in T PROVE \E i \in S : f[i] = j
      OBVIOUS
    <3>1. j - 1 \in S /\ f[j - 1] = j
      BY <1>3
    <3> QED
      BY <3>1
  <2> QED
    BY <2>1, <2>2, <2>3 DEF Bijection, Injection, Surjection, IsInjective
<1>5. IsFiniteSet(S)
  BY <1>1, PlacesFinite DEF S
<1>6. Cardinality(T) = Cardinality(S) /\ IsFiniteSet(T)
  <2>1. ExistsBijection(S, T)
    BY <1>4 DEF ExistsBijection
  <2> QED
    BY <1>5, <2>1, FS_Bijection
<1>7. Cardinality(Places(s, r)) = Cardinality(T) + One(Head(s).id = r)
  <2>1. 1 \in Places(s, r) <=> Head(s).id = r
    BY <1>1 DEF Places
  <2>2. CASE 1 \in Places(s, r)
    <3>1. Cardinality(T) = Cardinality(Places(s, r)) - 1
      BY <2>2, PlacesFinite, FS_RemoveElement DEF T
    <3> QED
      BY <2>1, <2>2, <3>1, PlacesFinite DEF One
  <2>3. CASE 1 \notin Places(s, r)
    <3>1. T = Places(s, r)
      BY <2>3 DEF T
    <3> QED
      BY <2>1, <2>3, <3>1, PlacesFinite DEF One
  <2> QED
    BY <2>2, <2>3
<1> QED
  BY <1>1, <1>6, <1>7, PlacesFinite DEF S

\* What one worker's list adds to the sum over all.
LEMMA HeldChange ==
  ASSUME NEW b \in [Workers -> Seq(Item)], NEW w \in Workers, NEW items \in Seq(Item), NEW r
  PROVE  /\ Summable(Held(b, r)) /\ SumFunction(Held(b, r)) \in Nat
         /\ Occurs(b[w], r) \in Nat /\ Occurs(items, r) \in Nat
         /\ Occurs(b[w], r) <= SumFunction(Held(b, r))
         /\ SumFunction(Held([b EXCEPT ![w] = items], r))
              = SumFunction(Held(b, r)) - Occurs(b[w], r) + Occurs(items, r)
<1> DEFINE f == Held(b, r)
           v == Occurs(items, r)
           c == [b EXCEPT ![w] = items]
<1>1. IsFiniteSet(Workers)
  BY BoundsAssumption
<1>2. DOMAIN f = Workers /\ f \in [Workers -> Nat] /\ f[w] = Occurs(b[w], r)
  BY PlacesFinite DEF Held
<1>3. Summable(f) /\ v \in Nat
  BY <1>1, <1>2, PlacesFinite DEF Summable
<1>4. Held(c, r) = With(f, w, v)
  <2>1. \A x \in Workers : Occurs(c[x], r) = IF x = w THEN v ELSE f[x]
    BY DEF Held
  <2>2. DOMAIN f \cup {w} = Workers
    BY <1>2
  <2> HIDE DEF f, v, c
  <2> QED
    BY <2>1, <2>2 DEF Held, With
<1> HIDE DEF f, v, c
<1>5. SumFunction(Held(c, r)) = v + (SumFunction(f) - f[w])
  <2>1. w \in DOMAIN f
    BY <1>2
  <2> QED
    BY <1>3, <1>4, <2>1, SumWith
<1>6. /\ f[w] \in Nat /\ SumFunction(Without(f, w)) \in Nat /\ SumFunction(f) \in Nat
      /\ SumFunction(f) = f[w] + SumFunction(Without(f, w))
  <2>1. w \in DOMAIN f
    BY <1>2
  <2> QED
    BY <1>3, <2>1, SumWithout, SumType
<1>7. f[w] <= SumFunction(f)
  BY <1>6
<1>8. SumFunction(Held(c, r)) = SumFunction(f) - f[w] + v
  BY <1>3, <1>5, <1>6
<1> QED
  BY <1>2, <1>3, <1>6, <1>7, <1>8 DEF f, v, c

\* The numbers that the invariant counts with.
LEMMA AliveType ==
  ASSUME UsageTypes, NEW r \in Records
  PROVE  /\ Occurs(queue, r) \in Nat /\ SumFunction(Held(batch, r)) \in Nat /\ Alive(r) \in Nat
         /\ db[r] \in Nat /\ doubtful \in Nat /\ faults \in Nat /\ stops \in Nat /\ db_failures \in Nat
         /\ MaxFaults \in Nat /\ MaxRetries \in Nat
<1>1. queue \in Seq(Item) /\ batch \in [Workers -> Seq(Item)] /\ db \in [Records -> Nat]
  BY DEF UsageTypes, TypeOK
<1>2. Occurs(queue, r) \in Nat
  BY <1>1, PlacesFinite
<1>3. SumFunction(Held(batch, r)) \in Nat
  <2>1. DOMAIN Held(batch, r) = Workers /\ Held(batch, r) \in [Workers -> Nat]
    BY <1>1, PlacesFinite DEF Held
  <2>2. Summable(Held(batch, r))
    BY <2>1, BoundsAssumption DEF Summable
  <2> QED
    BY <2>2, SumType
<1>4. Alive(r) \in Nat
  BY <1>2, <1>3 DEF Alive
<1> QED
  BY <1>1, <1>2, <1>3, <1>4, BoundsAssumption DEF UsageTypes, TypeOK

-----------------------------------------------------------------------------
\* A worker's list is replaced.
LEMMA HoldTypes ==
  ASSUME UsageTypes, NEW w \in Workers, NEW items \in Seq(Item), Len(items) <= MaxBatch, Hold(w, items)
  PROVE  /\ batch' = [batch EXCEPT ![w] = items] /\ batch' \in [Workers -> Seq(Item)]
         /\ \A v \in Workers : /\ batch'[v] = IF v = w THEN items ELSE batch[v]
                               /\ batch'[v] \in Seq(Item) /\ Len(batch'[v]) <= MaxBatch
  BY DEF UsageTypes, TypeOK, Hold

\* A worker goes on.
LEMMA GotoTypes ==
  ASSUME UsageTypes, NEW w \in Workers, NEW from, NEW to \in {"collect", "write", "requeue", "stopped"},
         Goto(w, from, to)
  PROVE  /\ pc' \in [Workers -> {"collect", "write", "requeue", "stopped"}]
         /\ pc[w] = from /\ pc'[w] = to /\ \A v \in Workers : v # w => pc'[v] = pc[v]
  BY DEF UsageTypes, TypeOK, Goto

\* A step after which a record is in no more places, and in as many as before unless
\* something happened that retries do not cover.
LEMMA KeepsCount ==
  ASSUME UsageInv, pushed' = pushed, doubtful' = doubtful, Uncovered => Uncovered',
         \A r \in Records : /\ Alive(r)' \in Nat /\ db'[r] \in Nat
                            /\ Alive(r)' <= Alive(r) /\ Alive(r)' + db'[r] <= Alive(r) + db[r]
                            /\ ~Uncovered' => Alive(r)' + db'[r] = Alive(r) + db[r]
  PROVE  Counted'
<1> SUFFICES ASSUME NEW r \in Records
             PROVE  /\ Alive(r)' <= One(r \in pushed')
                    /\ r \notin pushed' => Alive(r)' + db'[r] = 0
                    /\ Alive(r)' + db'[r] <= 1 + doubtful'
                    /\ ~Uncovered' /\ r \in pushed' => Alive(r)' + db'[r] >= 1
  BY DEF Counted, One
<1>1. /\ Alive(r) <= One(r \in pushed)
      /\ r \notin pushed => Alive(r) + db[r] = 0
      /\ Alive(r) + db[r] <= 1 + doubtful
      /\ ~Uncovered /\ r \in pushed => Alive(r) + db[r] >= 1
  BY DEF UsageInv, Counted
<1>2. Alive(r) \in Nat /\ db[r] \in Nat /\ doubtful \in Nat /\ One(r \in pushed) \in Nat
  BY AliveType DEF UsageInv, One
<1>3. /\ Alive(r)' \in Nat /\ db'[r] \in Nat
      /\ Alive(r)' <= Alive(r) /\ Alive(r)' + db'[r] <= Alive(r) + db[r]
      /\ ~Uncovered' => Alive(r)' + db'[r] = Alive(r) + db[r]
  OBVIOUS
<1>4. Alive(r)' <= One(r \in pushed')
  BY <1>1, <1>2, <1>3
<1>5. r \notin pushed' => Alive(r)' + db'[r] = 0
  BY <1>1, <1>2, <1>3
<1>6. Alive(r)' + db'[r] <= 1 + doubtful'
  BY <1>1, <1>2, <1>3
<1>7. ~Uncovered' /\ r \in pushed' => Alive(r)' + db'[r] >= 1
  BY <1>1, <1>2, <1>3
<1> QED
  BY <1>4, <1>5, <1>6, <1>7

\* A worker's list shrinks to nothing, by a step that retries do not cover.
LEMMA Forgets ==
  ASSUME UsageInv, NEW w \in Workers, Hold(w, <<>>), UNCHANGED <<queue, db, pushed, doubtful, db_failures>>,
         pc' \in [Workers -> {"collect", "write", "requeue", "stopped"}],
         \A v \in Workers : v # w => pc'[v] = pc[v],
         \/ faults < MaxFaults /\ faults' = faults + 1 /\ stops' = stops
         \/ stops < MaxStops /\ stops' = stops + 1 /\ faults' = faults
  PROVE  UsageInv'
<1>t. UsageTypes /\ ItemsPushed /\ Retried /\ TypeOK
  BY DEF UsageInv, UsageTypes
<1>n. /\ faults \in Nat /\ stops \in Nat /\ MaxFaults \in Nat /\ MaxStops \in Nat /\ MaxBatch \in Nat
      /\ faults <= MaxFaults /\ stops <= MaxStops /\ doubtful \in 0 .. MaxFaults /\ doubtful <= faults
  BY <1>t, BoundsAssumption DEF TypeOK, UsageTypes
<1>h. /\ batch' = [batch EXCEPT ![w] = <<>>] /\ batch' \in [Workers -> Seq(Item)]
      /\ \A v \in Workers : /\ batch'[v] = IF v = w THEN <<>> ELSE batch[v]
                            /\ batch'[v] \in Seq(Item) /\ Len(batch'[v]) <= MaxBatch
  <2>1. <<>> \in Seq(Item) /\ Len(<<>>) <= MaxBatch
    BY <1>n
  <2> QED
    BY <1>t, <2>1, HoldTypes
<1>1. UsageTypes'
  <2>1. faults' \in 0 .. MaxFaults /\ stops' \in 0 .. MaxStops /\ doubtful' <= faults'
    BY <1>n
  <2> QED
    BY <1>t, <1>h, <2>1 DEF UsageTypes, TypeOK
<1>2. ItemsPushed'
  BY <1>t, <1>h DEF ItemsPushed, AllPushed
<1>3. Retried'
  <2>1. faults' = 0 => faults = 0
    BY <1>n
  <2> QED
    BY <1>t, <1>h, <2>1 DEF Retried, Tried
<1>4. Uncovered'
  BY <1>n DEF Uncovered
<1>5. ASSUME NEW r \in Records
      PROVE  /\ Alive(r)' \in Nat /\ db'[r] \in Nat
             /\ Alive(r)' <= Alive(r) /\ Alive(r)' + db'[r] <= Alive(r) + db[r]
  <2>1. <<>> \in Seq(Item) /\ batch \in [Workers -> Seq(Item)]
    BY <1>t DEF UsageTypes
  <2>2. /\ SumFunction(Held(batch, r)) \in Nat
        /\ Occurs(batch[w], r) \in Nat /\ Occurs(batch[w], r) <= SumFunction(Held(batch, r))
        /\ SumFunction(Held(batch', r)) = SumFunction(Held(batch, r)) - Occurs(batch[w], r) + Occurs(<<>>, r)
    <3> DEFINE none == <<>>
    <3>1. none \in Seq(Item) /\ batch' = [batch EXCEPT ![w] = none]
      BY <1>h, <2>1
    <3> HIDE DEF none
    <3>2. /\ SumFunction(Held(batch, r)) \in Nat
          /\ Occurs(batch[w], r) \in Nat /\ Occurs(batch[w], r) <= SumFunction(Held(batch, r))
          /\ SumFunction(Held(batch', r)) = SumFunction(Held(batch, r)) - Occurs(batch[w], r) + Occurs(none, r)
      BY <2>1, <3>1, HeldChange
    <3> QED
      BY <3>2 DEF none
  <2>3. Occurs(<<>>, r) = 0
    BY OccursEmpty
  <2>4. Occurs(queue, r) \in Nat /\ db[r] \in Nat /\ db' = db /\ queue' = queue
    BY <1>t, AliveType
  <2>5. Alive(r)' = Occurs(queue, r) + SumFunction(Held(batch', r))
    BY <2>4 DEF Alive
  <2> QED
    BY <2>2, <2>3, <2>4, <2>5 DEF Alive
<1>6. Counted'
  BY <1>4, <1>5, KeepsCount
<1> QED
  BY <1>1, <1>2, <1>3, <1>6 DEF UsageInv

\* Nothing moves but the step the worker is at, or the database fails.
LEMMA GoesOn ==
  ASSUME UsageInv, NEW w \in Workers, UNCHANGED <<queue, batch, db, pushed, doubtful, stops, faults>>,
         \/ FinishCollect(w) \/ WriteFails(w) \/ RequeueEnds(w) \/ Start(w)
  PROVE  UsageInv'
<1>t. UsageTypes /\ ItemsPushed /\ Retried /\ TypeOK
  BY DEF UsageInv, UsageTypes
<1>n. db_failures \in Nat /\ MaxDbFailures \in Nat /\ MaxRetries \in Nat
  BY <1>t, BoundsAssumption DEF TypeOK
<1>f. db_failures' \in 0 .. MaxDbFailures /\ db_failures <= db_failures'
  BY <1>t, <1>n DEF FinishCollect, WriteFails, RequeueEnds, Start, counts, TypeOK
<1>g. /\ pc' \in [Workers -> {"collect", "write", "requeue", "stopped"}]
      /\ \A v \in Workers : v # w => pc'[v] = pc[v]
  <2>1. Goto(w, "collect", "write") \/ Goto(w, "write", "requeue") \/ Goto(w, "requeue", "collect")
        \/ Goto(w, "stopped", "collect")
    BY DEF FinishCollect, WriteFails, RequeueEnds, Start
  <2> QED
    BY <1>t, <2>1, GotoTypes
<1>1. UsageTypes'
  BY <1>t, <1>f, <1>g DEF UsageTypes, TypeOK
<1>2. ItemsPushed'
  BY <1>t DEF ItemsPushed
<1>3. Retried'
  <2> SUFFICES ASSUME faults' = 0
               PROVE  /\ Tried(queue', db_failures')
                      /\ \A v \in Workers :
                            Tried(batch'[v], IF pc'[v] = "requeue" THEN db_failures' - 1 ELSE db_failures')
    BY DEF Retried
  <2>1. /\ Tried(queue, db_failures)
        /\ \A v \in Workers : Tried(batch[v], IF pc[v] = "requeue" THEN db_failures - 1 ELSE db_failures)
    BY <1>t DEF Retried
  <2>2. ASSUME NEW s \in Seq(Item), NEW m \in Int, NEW n \in Int, m <= n, Tried(s, m) PROVE Tried(s, n)
    <3>1. \A i \in DOMAIN s : s[i].retries \in Int
      <4>1. \A i \in DOMAIN s : s[i] \in Item
        OBVIOUS
      <4>2. \A x \in Item : x.retries \in Int
        BY <1>n DEF Item
      <4> QED
        BY <4>1, <4>2
    <3> QED
      BY <2>2, <3>1 DEF Tried
  <2>3. queue \in Seq(Item) /\ batch \in [Workers -> Seq(Item)] /\ db_failures' \in Nat
    BY <1>t, <1>f DEF UsageTypes, TypeOK
  <2>4. Tried(queue', db_failures')
    BY <1>f, <1>n, <2>1, <2>2, <2>3
  <2>5. ASSUME NEW v \in Workers
        PROVE  Tried(batch'[v], IF pc'[v] = "requeue" THEN db_failures' - 1 ELSE db_failures')
    <3> DEFINE m == IF pc[v] = "requeue" THEN db_failures - 1 ELSE db_failures
               n == IF pc'[v] = "requeue" THEN db_failures' - 1 ELSE db_failures'
    <3>1. m \in Int /\ n \in Int /\ batch[v] \in Seq(Item) /\ Tried(batch[v], m) /\ batch'[v] = batch[v]
      BY <1>n, <2>1, <2>3
    <3>2. CASE v # w
      <4>0. pc'[v] = pc[v] /\ db_failures' \in Nat
        BY <1>g, <2>3, <3>2
      <4>1. m <= n
        <5>1. db_failures \in Int /\ db_failures' \in Int /\ db_failures <= db_failures'
          BY <1>f, <1>n, <4>0
        <5>2. CASE pc[v] = "requeue"
          <6>1. m = db_failures - 1 /\ n = db_failures' - 1
            BY <4>0, <5>2
          <6> QED
            BY <5>1, <6>1
        <5>3. CASE pc[v] # "requeue"
          <6>1. m = db_failures /\ n = db_failures'
            BY <4>0, <5>3
          <6> QED
            BY <5>1, <6>1
        <5> QED
          BY <5>2, <5>3
      <4> HIDE DEF m, n
      <4>2. Tried(batch'[v], n)
        BY <2>2, <3>1, <4>1
      <4> QED
        BY <4>2 DEF n
    <3>3. CASE v = w /\ RequeueEnds(w)
      <4>1. batch[v] = <<>>
        BY <3>3 DEF RequeueEnds
      <4> QED
        BY <3>1, <4>1 DEF Tried
    <3>4. CASE v = w /\ WriteFails(w)
      <4>1. pc[v] = "write" /\ db_failures' = db_failures + 1
        BY <3>4 DEF WriteFails, Goto
      <4>2. m <= n
        BY <1>n, <4>1
      <4> HIDE DEF m, n
      <4>3. Tried(batch'[v], n)
        BY <2>2, <3>1, <4>2
      <4> QED
        BY <4>3 DEF n
    <3>5. CASE v = w /\ (FinishCollect(w) \/ Start(w))
      <4>1. pc[v] # "requeue" /\ pc'[v] # "requeue" /\ db_failures' = db_failures
        BY <1>t, <3>5 DEF FinishCollect, Start, Goto, counts, TypeOK
      <4> QED
        BY <3>1, <4>1
    <3> QED
      BY <3>2, <3>3, <3>4, <3>5
  <2> QED
    BY <2>4, <2>5
<1>4. Uncovered => Uncovered'
  BY <1>f, <1>n DEF Uncovered
<1>5. ASSUME NEW r \in Records PROVE Alive(r)' = Alive(r) /\ Alive(r) \in Nat /\ db'[r] = db[r] /\ db[r] \in Nat
  BY <1>t, AliveType DEF Alive
<1>6. Counted'
  <2>1. ASSUME NEW r \in Records
        PROVE  /\ Alive(r)' \in Nat /\ db'[r] \in Nat
               /\ Alive(r)' <= Alive(r) /\ Alive(r)' + db'[r] <= Alive(r) + db[r]
               /\ ~Uncovered' => Alive(r)' + db'[r] = Alive(r) + db[r]
    BY <1>5
  <2> QED
    BY <1>4, <2>1, KeepsCount
<1> QED
  BY <1>1, <1>2, <1>3, <1>6 DEF UsageInv

\* What is known of a list holds of what is appended to it and taken from it.
LEMMA ListAppend ==
  ASSUME NEW s \in Seq(Item), NEW x \in Item
  PROVE  /\ Append(s, x) \in Seq(Item) /\ Len(Append(s, x)) = Len(s) + 1 /\ Len(s) \in Nat
         /\ \A k : AllPushed(s, k) /\ x.id \in k => AllPushed(Append(s, x), k)
         /\ \A n : Tried(s, n) /\ x.retries <= n => Tried(Append(s, x), n)
<1> DEFINE t == Append(s, x)
           n == Len(s) + 1
<1>1. /\ t \in Seq(Item) /\ DOMAIN t = DOMAIN s \cup {n} /\ Len(t) = n /\ Len(s) \in Nat
      /\ t[n] = x /\ \A i \in DOMAIN s : t[i] = s[i]
  OBVIOUS
<1> HIDE DEF t, n
<1>2. \A k : AllPushed(s, k) /\ x.id \in k => AllPushed(t, k)
  BY <1>1 DEF AllPushed
<1>3. \A m : Tried(s, m) /\ x.retries <= m => Tried(t, m)
  BY <1>1 DEF Tried
<1> QED
  BY <1>1, <1>2, <1>3 DEF t, n

LEMMA ListTail ==
  ASSUME NEW s \in Seq(Item), s # <<>>
  PROVE  /\ Tail(s) \in Seq(Item) /\ Len(Tail(s)) <= Len(s) /\ Len(s) \in Nat /\ Len(Tail(s)) \in Nat
         /\ Head(s) \in Item
         /\ \A k : AllPushed(s, k) => AllPushed(Tail(s), k) /\ Head(s).id \in k
         /\ \A n : Tried(s, n) => Tried(Tail(s), n) /\ Head(s).retries <= n
<1> DEFINE t == Tail(s)
<1>1. /\ t \in Seq(Item) /\ DOMAIN s = 1 .. Len(s) /\ DOMAIN t = 1 .. Len(t) /\ Len(t) \in Nat
      /\ Len(s) = Len(t) + 1 /\ Head(s) = s[1] /\ 1 \in DOMAIN s /\ Head(s) \in Item
      /\ \A i \in 1 .. Len(t) : t[i] = s[i + 1]
  OBVIOUS
<1>2. \A i \in DOMAIN t : i + 1 \in DOMAIN s
  BY <1>1
<1> HIDE DEF t
<1>3. \A k : AllPushed(s, k) => AllPushed(t, k) /\ Head(s).id \in k
  BY <1>1, <1>2 DEF AllPushed
<1>4. \A n : Tried(s, n) => Tried(t, n) /\ Head(s).retries <= n
  BY <1>1, <1>2 DEF Tried
<1>5. Len(t) <= Len(s) /\ Len(s) \in Nat
  BY <1>1
<1> QED
  BY <1>1, <1>3, <1>4, <1>5 DEF t

\* What an item is.
LEMMA ItemIs ==
  /\ \A x \in Item : x.id \in Records /\ x.retries \in 0 .. MaxRetries
  /\ \A r \in Records, n \in 0 .. MaxRetries :
        [id |-> r, retries |-> n] \in Item /\ [id |-> r, retries |-> n].id = r
                                           /\ [id |-> r, retries |-> n].retries = n
  BY DEF Item

LEMMA OneIs == \A c : One(c) \in {0, 1}
  BY DEF One

\* A record is pushed.
LEMMA PushKeeps ==
  ASSUME UsageInv, NEW x \in Records, Push(x)
  PROVE  UsageInv'
<1> DEFINE item == [id |-> x, retries |-> 0]
<1>t. UsageTypes /\ ItemsPushed /\ Retried /\ TypeOK /\ queue \in Seq(Item) /\ MaxRetries \in Nat
  BY BoundsAssumption DEF UsageInv, UsageTypes, TypeOK
<1>p. /\ x \notin pushed /\ pushed' = pushed \cup {x} /\ queue' = Append(queue, item)
      /\ UNCHANGED <<batch, pc, db, doubtful, db_failures, stops, faults>>
  BY DEF Push
<1>i. item \in Item /\ item.id = x /\ item.retries = 0
  BY <1>t, ItemIs
<1> HIDE DEF item
<1>1. UsageTypes'
  BY <1>t, <1>p, <1>i, ListAppend DEF UsageTypes, TypeOK
<1>2. ItemsPushed'
  <2>1. AllPushed(queue, pushed') /\ \A w \in Workers : AllPushed(batch[w], pushed')
    BY <1>t, <1>p DEF ItemsPushed, AllPushed
  <2>2. AllPushed(queue', pushed')
    BY <1>t, <1>p, <1>i, <2>1, ListAppend
  <2> QED
    BY <1>p, <2>1, <2>2 DEF ItemsPushed
<1>3. Retried'
  <2>1. db_failures \in Nat
    BY <1>t DEF TypeOK
  <2>2. Tried(queue, db_failures) => Tried(queue', db_failures)
    BY <1>t, <1>p, <1>i, <2>1, ListAppend
  <2> QED
    BY <1>t, <1>p, <2>2 DEF Retried
<1>4. Uncovered => Uncovered'
  BY <1>p DEF Uncovered
<1>5. ASSUME NEW r \in Records
      PROVE  /\ Alive(r)' <= One(r \in pushed')
             /\ r \notin pushed' => Alive(r)' + db'[r] = 0
             /\ Alive(r)' + db'[r] <= 1 + doubtful'
             /\ ~Uncovered' /\ r \in pushed' => Alive(r)' + db'[r] >= 1
  <2>1. Alive(r)' = Alive(r) + One(x = r)
    <3>1. Occurs(queue', r) = Occurs(queue, r) + One(x = r)
      BY <1>t, <1>p, <1>i, OccursAppend
    <3>2. Alive(r)' = Occurs(queue', r) + SumFunction(Held(batch, r))
      BY <1>p DEF Alive
    <3>3. Occurs(queue, r) \in Nat /\ SumFunction(Held(batch, r)) \in Nat /\ One(x = r) \in Nat
      BY <1>t, AliveType DEF One
    <3> QED
      BY <3>1, <3>2, <3>3 DEF Alive
  <2>2. /\ Alive(r) <= One(r \in pushed)
        /\ r \notin pushed => Alive(r) + db[r] = 0
        /\ Alive(r) + db[r] <= 1 + doubtful
        /\ ~Uncovered /\ r \in pushed => Alive(r) + db[r] >= 1
    BY DEF UsageInv, Counted
  <2>3. Alive(r) \in Nat /\ db[r] \in Nat /\ doubtful \in Nat
    BY <1>t, AliveType
  <2>4. CASE x = r
    <3>1. Alive(r)' = 1 /\ db[r] = 0 /\ One(r \in pushed') = 1 /\ r \in pushed'
      BY <1>p, <2>1, <2>2, <2>3, <2>4 DEF One
    <3> QED
      BY <1>p, <2>3, <3>1
  <2>5. CASE x # r
    <3>1. Alive(r)' = Alive(r) /\ One(r \in pushed') = One(r \in pushed) /\ (r \in pushed' <=> r \in pushed)
      BY <1>p, <2>1, <2>3, <2>5 DEF One
    <3> QED
      BY <1>4, <1>p, <2>2, <3>1
  <2> QED
    BY <2>4, <2>5
<1>6. Counted'
  BY <1>5 DEF Counted, One
<1> QED
  BY <1>1, <1>2, <1>3, <1>6 DEF UsageInv

\* A record goes from the queue to a worker, or the worker gives up on it.
LEMMA PopKeeps ==
  ASSUME UsageInv, NEW w \in Workers, Pop(w)
  PROVE  UsageInv'
<1> DEFINE x == Head(queue)
           items == IF x.id \in Malformed THEN <<>> ELSE Append(batch[w], x)
<1>t. /\ UsageTypes /\ ItemsPushed /\ Retried /\ TypeOK /\ queue \in Seq(Item) /\ batch \in [Workers -> Seq(Item)]
      /\ MaxBatch \in Nat /\ db_failures \in Nat
  BY BoundsAssumption DEF UsageInv, UsageTypes, TypeOK
<1>p. /\ pc[w] = "collect" /\ queue # <<>> /\ Len(batch[w]) < MaxBatch /\ queue' = Tail(queue)
      /\ Hold(w, items) /\ UNCHANGED <<pc, db, pushed, doubtful, db_failures, stops, faults>>
  BY DEF Pop, counts
<1>q. /\ queue' \in Seq(Item) /\ x \in Item
      /\ \A k : AllPushed(queue, k) => AllPushed(queue', k) /\ x.id \in k
      /\ \A n : Tried(queue, n) => Tried(queue', n) /\ x.retries <= n
  BY <1>t, <1>p, ListTail
<1> HIDE DEF x
<1>i. items \in Seq(Item) /\ Len(items) <= MaxBatch
  <2>1. /\ Append(batch[w], x) \in Seq(Item) /\ Len(Append(batch[w], x)) = Len(batch[w]) + 1
        /\ Len(batch[w]) \in Nat
    BY <1>t, <1>q, ListAppend
  <2>2. <<>> \in Seq(Item) /\ Len(<<>>) <= MaxBatch
    BY <1>t
  <2>3. CASE x.id \in Malformed
    BY <2>2, <2>3
  <2>4. CASE x.id \notin Malformed
    BY <1>p, <1>t, <2>1, <2>4
  <2> QED
    BY <2>3, <2>4
<1>h. /\ batch' = [batch EXCEPT ![w] = items] /\ batch' \in [Workers -> Seq(Item)]
      /\ \A v \in Workers : /\ batch'[v] = IF v = w THEN items ELSE batch[v]
                            /\ batch'[v] \in Seq(Item) /\ Len(batch'[v]) <= MaxBatch
  <2> HIDE DEF items
  <2> QED
    BY <1>t, <1>p, <1>i, HoldTypes
<1>1. UsageTypes'
  BY <1>t, <1>p, <1>q, <1>h DEF UsageTypes, TypeOK
<1>2. ItemsPushed'
  <2>1. AllPushed(queue, pushed) /\ \A v \in Workers : AllPushed(batch[v], pushed)
    BY <1>t DEF ItemsPushed
  <2>2. AllPushed(items, pushed)
    <3>1. AllPushed(Append(batch[w], x), pushed)
      BY <1>t, <1>q, <2>1, ListAppend
    <3>2. AllPushed(<<>>, pushed)
      BY DEF AllPushed
    <3> QED
      BY <3>1, <3>2
  <2> HIDE DEF items
  <2> QED
    BY <1>p, <1>q, <1>h, <2>1, <2>2 DEF ItemsPushed
<1>3. Retried'
  <2> SUFFICES ASSUME faults = 0
               PROVE  /\ Tried(queue', db_failures)
                      /\ \A v \in Workers :
                            Tried(batch'[v], IF pc[v] = "requeue" THEN db_failures - 1 ELSE db_failures)
    BY <1>p DEF Retried
  <2>1. /\ Tried(queue, db_failures)
        /\ \A v \in Workers : Tried(batch[v], IF pc[v] = "requeue" THEN db_failures - 1 ELSE db_failures)
    BY <1>t DEF Retried
  <2>2. Tried(items, db_failures)
    <3>1. Tried(batch[w], db_failures)
      BY <1>p, <2>1
    <3>2. Tried(Append(batch[w], x), db_failures)
      BY <1>t, <1>q, <2>1, <3>1, ListAppend
    <3>3. Tried(<<>>, db_failures)
      BY DEF Tried
    <3> QED
      BY <3>2, <3>3
  <2> HIDE DEF items
  <2> QED
    BY <1>p, <1>q, <1>h, <2>1, <2>2
<1>4. Uncovered <=> Uncovered'
  BY <1>p DEF Uncovered
<1>5. x.id \in Malformed => Uncovered'
  <2>1. x.id \in pushed
    BY <1>t, <1>q DEF ItemsPushed
  <2> QED
    BY <1>p, <2>1 DEF Uncovered
<1>6. ASSUME NEW r \in Records
      PROVE  /\ Alive(r)' \in Nat /\ db'[r] \in Nat
             /\ Alive(r)' <= Alive(r) /\ Alive(r)' + db'[r] <= Alive(r) + db[r]
             /\ ~Uncovered' => Alive(r)' + db'[r] = Alive(r) + db[r]
  <2> DEFINE h == One(x.id = r)
             o == Occurs(batch[w], r)
             S == SumFunction(Held(batch, r))
             T == SumFunction(Held(batch', r))
  <2>1. Occurs(queue, r) = Occurs(queue', r) + h
    BY <1>t, <1>p, OccursTail DEF x
  <2>2. Occurs(queue', r) \in Nat /\ Occurs(queue, r) \in Nat /\ h \in Nat /\ db[r] \in Nat /\ db'[r] = db[r]
    BY <1>t, <1>p, <1>q, PlacesFinite, AliveType DEF One
  <2>3. S \in Nat /\ o \in Nat /\ o <= S /\ T = S - o + Occurs(items, r)
    <3> HIDE DEF items
    <3>1. items \in Seq(Item) /\ batch \in [Workers -> Seq(Item)] /\ batch' = [batch EXCEPT ![w] = items]
      BY <1>t, <1>h, <1>i
    <3>2. /\ S \in Nat /\ o \in Nat /\ o <= S
          /\ SumFunction(Held([batch EXCEPT ![w] = items], r)) = S - o + Occurs(items, r)
      BY <3>1, HeldChange
    <3> QED
      BY <3>1, <3>2
  <2>4. Alive(r) = Occurs(queue, r) + S /\ Alive(r)' = Occurs(queue', r) + T
    BY DEF Alive
  <2>5. CASE x.id \in Malformed
    <3>1. Occurs(items, r) = 0
      BY <2>5, OccursEmpty
    <3> HIDE DEF h, o, S, T, items
    <3> QED
      BY <1>5, <2>1, <2>2, <2>3, <2>4, <2>5, <3>1
  <2>6. CASE x.id \notin Malformed
    <3>1. Occurs(items, r) = o + h
      BY <1>t, <1>q, <2>6, OccursAppend
    <3> HIDE DEF h, o, S, T, items
    <3> QED
      BY <2>1, <2>2, <2>3, <2>4, <3>1
  <2> QED
    BY <2>5, <2>6
<1>7. Counted'
  BY <1>p, <1>4, <1>6, KeepsCount
<1> QED
  BY <1>1, <1>2, <1>3, <1>7 DEF UsageInv

\* A transaction inserts a row per record of the batch.
LEMMA InsertedIs ==
  ASSUME UsageTypes, NEW w \in Workers, db' = Inserted(w)
  PROVE  /\ db' \in [Records -> Nat]
         /\ \A r \in Records : db'[r] = db[r] + Occurs(batch[w], r) /\ Occurs(batch[w], r) \in Nat /\ db[r] \in Nat
<1>1. batch[w] \in Seq(Item) /\ db \in [Records -> Nat]
  BY DEF UsageTypes, TypeOK
<1>2. \A r \in Records : Occurs(batch[w], r) \in Nat
  BY <1>1, PlacesFinite
<1>3. db' = [r \in Records |-> db[r] + Occurs(batch[w], r)]
  BY DEF Inserted, Occurs
<1>4. \A r \in Records : db[r] + Occurs(batch[w], r) \in Nat
  BY <1>1, <1>2
<1> QED
  BY <1>1, <1>2, <1>3, <1>4

\* A batch is written.
LEMMA CommitKeeps ==
  ASSUME UsageInv, NEW w \in Workers, WriteCommits(w)
  PROVE  UsageInv'
<1> DEFINE none == <<>>
<1>t. /\ UsageTypes /\ ItemsPushed /\ Retried /\ TypeOK /\ queue \in Seq(Item) /\ batch \in [Workers -> Seq(Item)]
      /\ MaxBatch \in Nat /\ db_failures \in Nat
  BY BoundsAssumption DEF UsageInv, UsageTypes, TypeOK
<1>p. /\ Goto(w, "write", "collect") /\ db' = Inserted(w) /\ Hold(w, none)
      /\ UNCHANGED <<queue, pushed, doubtful, db_failures, stops, faults>>
  BY DEF WriteCommits, counts
<1>d. /\ db' \in [Records -> Nat]
      /\ \A r \in Records : db'[r] = db[r] + Occurs(batch[w], r) /\ Occurs(batch[w], r) \in Nat /\ db[r] \in Nat
  BY <1>t, <1>p, InsertedIs
<1>i. none \in Seq(Item) /\ Len(none) <= MaxBatch /\ (\A k : AllPushed(none, k)) /\ (\A n : Tried(none, n))
      /\ \A r : Occurs(none, r) = 0
  BY <1>t, OccursEmpty DEF AllPushed, Tried
<1> HIDE DEF none
<1>h. /\ batch' = [batch EXCEPT ![w] = none] /\ batch' \in [Workers -> Seq(Item)]
      /\ \A v \in Workers : /\ batch'[v] = IF v = w THEN none ELSE batch[v]
                            /\ batch'[v] \in Seq(Item) /\ Len(batch'[v]) <= MaxBatch
  BY <1>t, <1>p, <1>i, HoldTypes
<1>g. /\ pc' \in [Workers -> {"collect", "write", "requeue", "stopped"}]
      /\ \A v \in Workers : v # w => pc'[v] = pc[v]
  BY <1>t, <1>p, GotoTypes
<1>1. UsageTypes'
  BY <1>t, <1>p, <1>d, <1>h, <1>g DEF UsageTypes, TypeOK
<1>2. ItemsPushed'
  BY <1>t, <1>p, <1>i, <1>h DEF ItemsPushed
<1>3. Retried'
  <2>1. ASSUME faults = 0, NEW v \in Workers
        PROVE  Tried(batch'[v], IF pc'[v] = "requeue" THEN db_failures - 1 ELSE db_failures)
    <3>1. CASE v = w
      BY <1>h, <1>i, <3>1
    <3>2. CASE v # w
      <4>1. batch'[v] = batch[v] /\ pc'[v] = pc[v]
        BY <1>h, <1>g, <3>2
      <4> QED
        BY <1>t, <2>1, <4>1 DEF Retried
    <3> QED
      BY <3>1, <3>2
  <2> QED
    BY <1>t, <1>p, <2>1 DEF Retried
<1>4. ASSUME NEW r \in Records
      PROVE  /\ Alive(r)' \in Nat /\ db'[r] \in Nat
             /\ Alive(r)' <= Alive(r) /\ Alive(r)' + db'[r] <= Alive(r) + db[r]
             /\ ~Uncovered' => Alive(r)' + db'[r] = Alive(r) + db[r]
  <2> DEFINE o == Occurs(batch[w], r)
             S == SumFunction(Held(batch, r))
             T == SumFunction(Held(batch', r))
  <2>1. /\ S \in Nat /\ o \in Nat /\ o <= S
        /\ SumFunction(Held([batch EXCEPT ![w] = none], r)) = S - o + Occurs(none, r)
    BY <1>t, <1>i, HeldChange
  <2>2. T = S - o
    <3>1. T = S - o + Occurs(none, r) /\ Occurs(none, r) = 0
      BY <1>h, <1>i, <2>1
    <3> HIDE DEF S, T, o
    <3> QED
      BY <2>1, <3>1
  <2>3. Alive(r) = Occurs(queue, r) + S /\ Alive(r)' = Occurs(queue, r) + T /\ Occurs(queue, r) \in Nat
    BY <1>t, <1>p, AliveType DEF Alive
  <2>4. db'[r] = db[r] + o /\ db[r] \in Nat
    BY <1>d
  <2> HIDE DEF S, T, o
  <2> QED
    BY <2>1, <2>2, <2>3, <2>4
<1>5. Uncovered => Uncovered'
  BY <1>p DEF Uncovered
<1>6. Counted'
  BY <1>p, <1>4, <1>5, KeepsCount
<1> QED
  BY <1>1, <1>2, <1>3, <1>6 DEF UsageInv

\* A commit that took effect is reported as failed: the batch will be put back.
LEMMA DoubtfulKeeps ==
  ASSUME UsageInv, NEW w \in Workers, WriteDoubtful(w)
  PROVE  UsageInv'
<1>t. /\ UsageTypes /\ ItemsPushed /\ TypeOK /\ batch \in [Workers -> Seq(Item)]
  BY DEF UsageInv, UsageTypes, TypeOK
<1>n. /\ faults \in Nat /\ MaxFaults \in Nat /\ doubtful \in Nat /\ doubtful <= faults
  BY <1>t, BoundsAssumption DEF TypeOK, UsageTypes
<1>p. /\ Goto(w, "write", "requeue") /\ faults < MaxFaults /\ faults' = faults + 1 /\ db' = Inserted(w)
      /\ doubtful' = doubtful + 1 /\ UNCHANGED <<queue, batch, pushed, db_failures, stops>>
  BY DEF WriteDoubtful, Fault
<1>d. /\ db' \in [Records -> Nat]
      /\ \A r \in Records : db'[r] = db[r] + Occurs(batch[w], r) /\ Occurs(batch[w], r) \in Nat /\ db[r] \in Nat
  BY <1>t, <1>p, InsertedIs
<1>g. pc' \in [Workers -> {"collect", "write", "requeue", "stopped"}]
  BY <1>t, <1>p, GotoTypes
<1>1. UsageTypes'
  <2>1. faults' \in 0 .. MaxFaults /\ doubtful' \in 0 .. MaxFaults /\ doubtful' <= faults'
    BY <1>n, <1>p
  <2> QED
    BY <1>t, <1>p, <1>d, <1>g, <2>1 DEF UsageTypes, TypeOK
<1>2. ItemsPushed'
  BY <1>t, <1>p DEF ItemsPushed
<1>3. Retried' /\ Uncovered'
  BY <1>n, <1>p DEF Retried, Uncovered
<1>4. ASSUME NEW r \in Records
      PROVE  /\ Alive(r)' <= One(r \in pushed')
             /\ r \notin pushed' => Alive(r)' + db'[r] = 0
             /\ Alive(r)' + db'[r] <= 1 + doubtful'
  <2> DEFINE o == Occurs(batch[w], r)
             S == SumFunction(Held(batch, r))
  <2>1. /\ Alive(r) <= One(r \in pushed)
        /\ r \notin pushed => Alive(r) + db[r] = 0
        /\ Alive(r) + db[r] <= 1 + doubtful
    BY DEF UsageInv, Counted
  <2>2. S \in Nat /\ o \in Nat /\ o <= S
    <3>1. <<>> \in Seq(Item)
      OBVIOUS
    <3> QED
      BY <1>t, <3>1, HeldChange
  <2>3. Alive(r) = Occurs(queue, r) + S /\ Alive(r)' = Alive(r) /\ Occurs(queue, r) \in Nat
    BY <1>t, <1>p, AliveType DEF Alive
  <2>4. db'[r] = db[r] + o /\ db[r] \in Nat /\ One(r \in pushed) \in {0, 1} /\ pushed' = pushed
    BY <1>d, <1>p, OneIs
  <2> HIDE DEF S, o
  <2>5. o <= Alive(r) /\ o <= 1 /\ Alive(r) \in Nat
    BY <2>1, <2>2, <2>3, <2>4
  <2>6. r \notin pushed => Alive(r) + db'[r] = 0
    BY <2>1, <2>2, <2>4, <2>5
  <2>7. Alive(r) + db'[r] <= 1 + doubtful'
    BY <1>n, <1>p, <2>1, <2>2, <2>4, <2>5
  <2> QED
    BY <2>1, <2>3, <2>4, <2>6, <2>7
<1>5. Counted'
  BY <1>3, <1>4 DEF Counted, One
<1> QED
  BY <1>1, <1>2, <1>3, <1>5 DEF UsageInv

\* A record is put back on the queue, unless it has no retries left.
LEMMA RequeueKeeps ==
  ASSUME UsageInv, NEW w \in Workers, Requeue(w)
  PROVE  UsageInv'
<1> DEFINE item == Head(batch[w])
           again == [item EXCEPT !.retries = @ + 1]
           items == Tail(batch[w])
<1>t. /\ UsageTypes /\ ItemsPushed /\ Retried /\ TypeOK /\ queue \in Seq(Item) /\ batch \in [Workers -> Seq(Item)]
      /\ batch[w] \in Seq(Item) /\ MaxBatch \in Nat /\ db_failures \in Nat /\ MaxRetries \in Nat
      /\ Len(batch[w]) <= MaxBatch
  BY BoundsAssumption DEF UsageInv, UsageTypes, TypeOK
<1>p. /\ pc[w] = "requeue" /\ batch[w] # <<>> /\ Hold(w, items)
      /\ queue' = IF RetryAgain(item) THEN Append(queue, again) ELSE queue
      /\ UNCHANGED <<pc, db, pushed, doubtful, db_failures, stops, faults>>
  BY DEF Requeue, counts
<1>q. /\ items \in Seq(Item) /\ Len(items) <= MaxBatch /\ item \in Item
      /\ \A k : AllPushed(batch[w], k) => AllPushed(items, k) /\ item.id \in k
      /\ \A n : Tried(batch[w], n) => Tried(items, n) /\ item.retries <= n
  <2>1. Len(items) <= Len(batch[w]) /\ Len(items) \in Nat /\ Len(batch[w]) \in Nat
    BY <1>t, <1>p, ListTail
  <2>2. Len(items) <= MaxBatch
    BY <1>t, <2>1
  <2> QED
    BY <1>t, <1>p, <2>2, ListTail
<1> HIDE DEF item, items
<1>r. item.retries \in 0 .. MaxRetries /\ item.retries \in Nat /\ item.id \in Records
  BY <1>q, <1>t, ItemIs
<1>a. RetryAgain(item) => again \in Item /\ again.id = item.id /\ again.retries = item.retries + 1
  <2>1. again.id = item.id /\ again.retries = item.retries + 1
    BY <1>q DEF Item
  <2>2. again = [id |-> item.id, retries |-> item.retries + 1]
    BY <1>q DEF Item
  <2>3. RetryAgain(item) => item.retries + 1 \in 0 .. MaxRetries
    BY <1>r, <1>t DEF RetryAgain
  <2> HIDE DEF again
  <2> QED
    BY <1>r, <2>1, <2>2, <2>3, ItemIs
<1>h. /\ batch' = [batch EXCEPT ![w] = items] /\ batch' \in [Workers -> Seq(Item)]
      /\ \A v \in Workers : /\ batch'[v] = IF v = w THEN items ELSE batch[v]
                            /\ batch'[v] \in Seq(Item) /\ Len(batch'[v]) <= MaxBatch
  BY <1>t, <1>p, <1>q, HoldTypes
<1> HIDE DEF again
<1>s. queue' \in Seq(Item)
  BY <1>t, <1>p, <1>a, ListAppend
<1>1. UsageTypes'
  BY <1>t, <1>p, <1>s, <1>h DEF UsageTypes, TypeOK
<1>2. ItemsPushed'
  <2>1. AllPushed(queue, pushed) /\ \A v \in Workers : AllPushed(batch[v], pushed)
    BY <1>t DEF ItemsPushed
  <2>2. AllPushed(items, pushed) /\ item.id \in pushed
    BY <1>q, <2>1
  <2>3. AllPushed(queue', pushed)
    <3>1. CASE RetryAgain(item)
      BY <1>t, <1>p, <1>a, <2>1, <2>2, <3>1, ListAppend
    <3>2. CASE ~RetryAgain(item)
      BY <1>p, <2>1, <3>2
    <3> QED
      BY <3>1, <3>2
  <2> QED
    BY <1>p, <1>h, <2>1, <2>2, <2>3 DEF ItemsPushed
<1>3. ASSUME faults = 0
      PROVE  /\ Tried(queue', db_failures)
             /\ \A v \in Workers : Tried(batch'[v], IF pc[v] = "requeue" THEN db_failures - 1 ELSE db_failures)
             /\ item.retries <= db_failures - 1
  <2>1. /\ Tried(queue, db_failures)
        /\ \A v \in Workers : Tried(batch[v], IF pc[v] = "requeue" THEN db_failures - 1 ELSE db_failures)
    BY <1>t, <1>3 DEF Retried
  <2>2. Tried(batch[w], db_failures - 1)
    BY <1>p, <2>1
  <2>3. Tried(items, db_failures - 1) /\ item.retries <= db_failures - 1
    BY <1>q, <2>2
  <2>4. Tried(queue', db_failures)
    <3>1. CASE RetryAgain(item)
      <4>1. again.retries <= db_failures
        BY <1>a, <1>t, <1>r, <2>3, <3>1
      <4> QED
        BY <1>t, <1>p, <1>a, <2>1, <3>1, <4>1, ListAppend
    <3>2. CASE ~RetryAgain(item)
      BY <1>p, <2>1, <3>2
    <3> QED
      BY <3>1, <3>2
  <2> QED
    BY <1>p, <1>h, <2>1, <2>3, <2>4
<1>4. Retried'
  BY <1>p, <1>3 DEF Retried
<1>5. Uncovered <=> Uncovered'
  BY <1>p DEF Uncovered
<1>6. ~Uncovered => RetryAgain(item)
  <2> SUFFICES ASSUME ~Uncovered PROVE RetryAgain(item)
    OBVIOUS
  <2>1. faults = 0 /\ db_failures <= MaxRetries
    BY <1>t DEF Uncovered, TypeOK
  <2>2. item.retries <= db_failures - 1
    BY <1>3, <2>1
  <2> QED
    BY <1>r, <1>t, <2>1, <2>2 DEF RetryAgain
<1>7. ASSUME NEW r \in Records
      PROVE  /\ Alive(r)' \in Nat /\ db'[r] \in Nat
             /\ Alive(r)' <= Alive(r) /\ Alive(r)' + db'[r] <= Alive(r) + db[r]
             /\ ~Uncovered' => Alive(r)' + db'[r] = Alive(r) + db[r]
  <2> DEFINE h == One(item.id = r)
             o == Occurs(batch[w], r)
             S == SumFunction(Held(batch, r))
             T == SumFunction(Held(batch', r))
  <2>1. /\ S \in Nat /\ o \in Nat /\ o <= S
        /\ SumFunction(Held([batch EXCEPT ![w] = items], r)) = S - o + Occurs(items, r)
    BY <1>t, <1>q, HeldChange
  <2>2. T = S - o + Occurs(items, r)
    BY <1>h, <2>1
  <2>3. o = Occurs(items, r) + h
    BY <1>t, <1>p, OccursTail DEF item, items
  <2>4. Occurs(items, r) \in Nat /\ h \in Nat /\ Occurs(queue, r) \in Nat /\ db[r] \in Nat /\ db'[r] = db[r]
    <3>1. h \in {0, 1}
      BY OneIs
    <3> HIDE DEF h
    <3> QED
      BY <1>t, <1>p, <1>q, <3>1, PlacesFinite, AliveType
  <2>5. Alive(r) = Occurs(queue, r) + S /\ Alive(r)' = Occurs(queue', r) + T
    BY DEF Alive
  <2>6. CASE RetryAgain(item)
    <3>1. Occurs(queue', r) = Occurs(queue, r) + h
      BY <1>t, <1>p, <1>a, <2>6, OccursAppend
    <3> HIDE DEF h, o, S, T
    <3> QED
      BY <2>1, <2>2, <2>3, <2>4, <2>5, <3>1
  <2>7. CASE ~RetryAgain(item)
    <3>1. queue' = queue /\ Uncovered'
      BY <1>p, <1>5, <1>6, <2>7
    <3>2. Occurs(queue', r) = Occurs(queue, r)
      BY <3>1
    <3> HIDE DEF h, o, S, T
    <3> QED
      BY <2>1, <2>2, <2>3, <2>4, <2>5, <3>1, <3>2
  <2> QED
    BY <2>6, <2>7
<1>8. Counted'
  BY <1>p, <1>5, <1>7, KeepsCount
<1> QED
  BY <1>1, <1>2, <1>4, <1>8 DEF UsageInv

-----------------------------------------------------------------------------
LEMMA InitUsage == Init => UsageInv
<1> SUFFICES ASSUME Init PROVE UsageInv
  OBVIOUS
<1> DEFINE none == <<>>
<1>1. /\ queue = none /\ batch = [w \in Workers |-> none] /\ pc = [w \in Workers |-> "collect"]
      /\ db = [r \in Records |-> 0] /\ pushed = {} /\ doubtful = 0 /\ db_failures = 0 /\ stops = 0 /\ faults = 0
  BY DEF Init
<1>2. none \in Seq(Item) /\ Len(none) <= MaxBatch /\ (\A k : AllPushed(none, k)) /\ (\A n : Tried(none, n))
      /\ \A r : Occurs(none, r) = 0
  BY BoundsAssumption, OccursEmpty DEF AllPushed, Tried
<1> HIDE DEF none
<1>3. UsageTypes
  BY <1>1, <1>2, BoundsAssumption DEF UsageTypes, TypeOK
<1>4. ItemsPushed /\ Retried
  BY <1>1, <1>2 DEF ItemsPushed, Retried
<1>5. ASSUME NEW r \in Records PROVE Alive(r) = 0 /\ db[r] = 0
  <2>1. Summable(Held(batch, r)) /\ DOMAIN Held(batch, r) = Workers /\ \A w \in Workers : Held(batch, r)[w] = 0
    BY <1>1, <1>2, BoundsAssumption DEF Held, Summable
  <2>2. PartialSums(Held(batch, r))[Workers] = 0
    BY <2>1, PartialSumsZero
  <2>3. SumFunction(Held(batch, r)) = 0
    BY <2>1, <2>2, SumUnfolds
  <2> QED
    BY <1>1, <1>2, <2>3 DEF Alive
<1>6. Counted
  BY <1>1, <1>5 DEF Counted, One
<1> QED
  BY <1>3, <1>4, <1>6 DEF UsageInv

LEMMA NextUsage == UsageInv /\ [Next]_vars => UsageInv'
<1> SUFFICES ASSUME UsageInv, [Next]_vars PROVE UsageInv'
  OBVIOUS
<1>1. ASSUME NEW r \in Records, Push(r) PROVE UsageInv'
  BY <1>1, PushKeeps
<1>2. ASSUME NEW w \in Workers, Pop(w) \/ WriteCommits(w) \/ WriteDoubtful(w) \/ Requeue(w) PROVE UsageInv'
  BY <1>2, PopKeeps, CommitKeeps, DoubtfulKeeps, RequeueKeeps
<1>3. ASSUME NEW w \in Workers, FinishCollect(w) \/ WriteFails(w) \/ RequeueEnds(w) \/ Start(w) PROVE UsageInv'
  <2>1. UNCHANGED <<queue, batch, db, pushed, doubtful, stops, faults>>
    BY <1>3 DEF FinishCollect, WriteFails, RequeueEnds, Start, counts
  <2> QED
    BY <1>3, <2>1, GoesOn
<1>4. ASSUME NEW w \in Workers, RedisError(w) \/ Stop(w) \/ Crash(w) PROVE UsageInv'
  <2>1. /\ pc' \in [Workers -> {"collect", "write", "requeue", "stopped"}]
        /\ \A v \in Workers : v # w => pc'[v] = pc[v]
    BY <1>4 DEF RedisError, Stop, Crash, UsageInv, UsageTypes, TypeOK
  <2>2. /\ Hold(w, <<>>) /\ UNCHANGED <<queue, db, pushed, doubtful, db_failures>>
        /\ \/ faults < MaxFaults /\ faults' = faults + 1 /\ stops' = stops
           \/ stops < MaxStops /\ stops' = stops + 1 /\ faults' = faults
    BY <1>4 DEF RedisError, Stop, Crash, Fault
  <2> QED
    BY <2>1, <2>2, Forgets
<1>5. CASE UNCHANGED vars
  <2>1. UNCHANGED <<queue, batch, pc, db, pushed, doubtful, db_failures, stops, faults>>
    BY <1>5 DEF vars
  <2>2. UsageTypes' /\ ItemsPushed' /\ Retried'
    BY <2>1 DEF UsageInv, UsageTypes, TypeOK, ItemsPushed, Retried
  <2>3. Counted'
    BY <2>1 DEF UsageInv, Counted, Alive, Uncovered
  <2> QED
    BY <2>2, <2>3 DEF UsageInv
<1> QED
  BY <1>1, <1>2, <1>3, <1>4, <1>5 DEF Next

LEMMA UsageHolds == MCSpec => []UsageInv
  BY Begins, Steps, InitUsage, NextUsage, PTL DEF MCSpec

(* Shapes: of the queue and the batches, of the registry and of the limits.     *)
THEOREM ServicesTyped == MCSpec => []ServicesTypes
<1>1. UsageInv /\ RegistryInv /\ Limits!TypeOK => ServicesTypes
  BY DEF ServicesTypes, UsageInv, UsageTypes, RegistryInv, RegistryTypes
<1> QED
  BY <1>1, UsageHolds, RegistryHolds, LimitsTypes, PTL

(* _process_usage_queue, _write_usage_batch: no record is billed twice unless a *)
(* commit that took effect was reported as failed, and none is lost as long as  *)
(* retries cover what failed.                                                   *)
THEOREM Billed == MCSpec => []BilledOnce
<1>1. UsageInv => BilledOnce
  <2> SUFFICES ASSUME UsageInv PROVE BilledOnce
    OBVIOUS
  <2>1. ASSUME NEW r \in Records
        PROVE  /\ Copies(r) = Alive(r) + db[r] /\ Alive(r) \in Nat /\ db[r] \in Nat
    <3>1. UsageTypes
      BY DEF UsageInv
    <3>2. /\ Occurs(queue, r) \in Nat /\ SumFunction(Held(batch, r)) \in Nat /\ Alive(r) \in Nat /\ db[r] \in Nat
      BY <3>1, AliveType
    <3>3. Copies(r) = Occurs(queue, r) + db[r] + SumFunction(Held(batch, r))
      BY DEF Copies, Held
    <3> QED
      BY <3>2, <3>3 DEF Alive
  <2>2. NoDuplicates
    BY <2>1 DEF NoDuplicates, UsageInv, Counted
  <2>3. RetriesCover
    <3> SUFFICES ASSUME ~Uncovered, NEW r \in pushed PROVE Copies(r) = 1
      BY DEF RetriesCover
    <3>1. /\ r \in Records /\ faults = 0 /\ doubtful \in Nat /\ doubtful <= faults
      BY DEF UsageInv, UsageTypes, TypeOK, Uncovered
    <3>2. Alive(r) + db[r] <= 1 + doubtful /\ Alive(r) + db[r] >= 1
      BY <3>1 DEF UsageInv, Counted
    <3> QED
      BY <2>1, <3>1, <3>2
  <2> QED
    BY <2>2, <2>3 DEF BilledOnce
<1> QED
  BY <1>1, UsageHolds, PTL
=============================================================================
