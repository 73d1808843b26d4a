------------------------------ MODULE RateLimits ------------------------------
(* The limits the services put on one client address: requests per minute      *)
(* (services/shared/app/middleware.py), in Redis or, without it, in the memory *)
(* of each replica; registrations of accounts (auth-service/app/api.py) and of *)
(* relays (relay-service/app/api.py).  Every Redis command is a round trip of  *)
(* its own.  Times are milliseconds, of one clock.                             *)
(*                                                                             *)
(* Operators whose name ends in Mutant are faulty variants of the definition   *)
(* that follows them; no action uses them.                                     *)
EXTENDS Integers, FiniteSets, Functions

CONSTANTS
    Callers,           \* requests under way at a time
    Replicas,          \* of a service
    calls_per_minute,  \* RATE_LIMIT_PER_MINUTE
    Window,            \* a minute
    MaxRegistrations,  \* 5 in the code
    MaxRelayRate,      \* RELAY_MAX_REGISTRATION_RATE
    MaxTime,           \* bound of the clock
    MaxCount           \* bound: requests counted, the refused ones included

\* What the constants stand for.
Constants ==
    /\ IsFiniteSet(Callers) /\ Callers # {}
    /\ calls_per_minute \in Nat \ {0} /\ MaxRegistrations \in Nat \ {0} /\ MaxRelayRate \in Nat \ {0}
    /\ Window \in Nat \ {0} /\ MaxTime \in Nat /\ MaxCount \in Nat

VARIABLES
    now,
    calls,          \* caller -> [pc, at]: the Redis command that comes next, and when it was received
    entries,        \* sorted set rate_limit:<ip>: a time is its own member and score
    admitted,       \* history: times of the requests admitted through Redis
    rate_limits,    \* replica -> [window_start, count]; nothing counted, no entry
    served,         \* history: replica -> time -> requests admitted by its memory
    registrations,  \* reg_rate_limit:<ip>, 0 if there is none
    relay_regs,     \* relay_reg_rate:<ip>: [count, expires]
    abandoned       \* history: was a first relay registration cut off before its EXPIRE?

vars == <<now, calls, entries, admitted, rate_limits, served, registrations, relay_regs, abandoned>>
window_vars == <<entries, admitted>>
memory_vars == <<rate_limits, served>>
register_vars == <<registrations, relay_regs, abandoned>>

Init ==
    /\ now = 0 /\ calls = [c \in Callers |-> [pc |-> "idle", at |-> 0]]
    /\ entries = {} /\ admitted = {}
    /\ rate_limits = [i \in Replicas |-> [window_start |-> 0, count |-> 0]]
    /\ served = [i \in Replicas |-> [t \in 0 .. MaxTime |-> 0]]
    /\ registrations = 0 /\ relay_regs = [count |-> 0, expires |-> FALSE] /\ abandoned = FALSE

Goto(c, from, to) == calls[c].pc = from /\ calls' = [calls EXCEPT ![c].pc = to]
Tick ==
    /\ now < MaxTime /\ now' = now + 1
    /\ UNCHANGED <<calls, window_vars, memory_vars, register_vars>>

-----------------------------------------------------------------------------
(* The sliding window: ZREMRANGEBYSCORE, ZCARD, then ZADD and EXPIRE, which *)
(* comes to nothing as long as requests come.                              *)
Dispatch(c) ==
    /\ calls[c].pc = "idle" /\ calls' = [calls EXCEPT ![c] = [pc |-> "trim", at |-> now]]
    /\ UNCHANGED <<now, window_vars, memory_vars, register_vars>>
Trim(c) ==
    /\ Goto(c, "trim", "count")
    /\ entries' = {t \in entries : t > calls[c].at - Window}
    /\ UNCHANGED <<now, admitted, memory_vars, register_vars>>

FullMutant(n) == n > calls_per_minute
Full(n) == n >= calls_per_minute
Count(c) ==
    /\ Goto(c, "count", IF Full(Cardinality(entries)) THEN "idle" ELSE "add")
    /\ UNCHANGED <<now, window_vars, memory_vars, register_vars>>
Add(c) ==
    /\ Goto(c, "add", "idle")
    /\ entries' = entries \cup {calls[c].at}
    /\ admitted' \in {admitted \cup {calls[c].at}, admitted}  \* EXPIRE may fail
    /\ UNCHANGED <<now, memory_vars, register_vars>>
(* A command fails.  The handler of the exception names the request, which *)
(* this method does not have: the call fails, there is no fallback budget. *)
RedisFails(c) ==
    /\ calls[c].pc \in {"trim", "count", "add"} /\ calls' = [calls EXCEPT ![c].pc = "idle"]
    /\ UNCHANGED <<now, window_vars, memory_vars, register_vars>>

(* Without Redis: a window that starts with a request, no await in between.*)
(* Dropping old entries changes nothing, they would start again anyway.    *)
CheckMemory(i) ==
    LET old == rate_limits[i]
        entry == IF old.count = 0 \/ now - old.window_start > Window THEN [window_start |-> now, count |-> 1]
                 ELSE [old EXCEPT !.count = @ + 1]
    IN  /\ old.count < MaxCount
        /\ rate_limits' = [rate_limits EXCEPT ![i] = entry]
        /\ served' = IF entry.count <= calls_per_minute THEN [served EXCEPT ![i][now] = @ + 1] ELSE served
        /\ UNCHANGED <<now, calls, window_vars, register_vars>>

-----------------------------------------------------------------------------
(* An account: the count is read, and incremented if it is not too high;   *)
(* the key lives an hour after the last registration.                      *)
Register(c) ==
    /\ registrations < MaxRegistrations /\ Goto(c, "idle", "incr")
    /\ UNCHANGED <<now, window_vars, memory_vars, register_vars>>
IncrAndExpire(c) ==
    /\ Goto(c, "incr", "idle") /\ registrations' = registrations + 1
    /\ UNCHANGED <<now, window_vars, memory_vars, relay_regs, abandoned>>
HourPasses ==
    /\ registrations' = 0
    /\ UNCHANGED <<now, calls, window_vars, memory_vars, relay_regs, abandoned>>

(* A relay: the count is incremented first, and its key given a minute by  *)
(* the request that made it.  Whether that request is registered depends on*)
(* the number it got.                                                      *)
IncrRelay(c) ==
    /\ relay_regs.count < MaxCount /\ relay_regs' = [relay_regs EXCEPT !.count = @ + 1]
    /\ Goto(c, "idle", IF relay_regs'.count = 1 THEN "expire" ELSE "idle")
    /\ UNCHANGED <<now, window_vars, memory_vars, registrations, abandoned>>
ExpireRelay(c) ==
    /\ Goto(c, "expire", "idle") /\ relay_regs' = [relay_regs EXCEPT !.expires = TRUE]
    /\ UNCHANGED <<now, window_vars, memory_vars, registrations, abandoned>>
(* The service stops or Redis fails between the two commands.              *)
ExpireFails(c) ==
    /\ Goto(c, "expire", "idle") /\ abandoned' = TRUE
    /\ UNCHANGED <<now, window_vars, memory_vars, registrations, relay_regs>>
MinutePasses ==
    /\ relay_regs.expires /\ relay_regs' = [count |-> 0, expires |-> FALSE]
    /\ UNCHANGED <<now, calls, window_vars, memory_vars, registrations, abandoned>>

NextWindow   == Tick \/ \E c \in Callers : Dispatch(c) \/ Trim(c) \/ Count(c) \/ Add(c) \/ RedisFails(c)
NextMemory   == Tick \/ \E i \in Replicas : CheckMemory(i)
NextRegister ==
    \/ HourPasses \/ MinutePasses
    \/ \E c \in Callers : Register(c) \/ IncrAndExpire(c) \/ IncrRelay(c) \/ ExpireRelay(c) \/ ExpireFails(c)
Next == NextWindow \/ NextMemory \/ NextRegister

Spec == Init /\ [][Next]_vars

-----------------------------------------------------------------------------
(* Shapes.                                                                 *)
TypeOK ==
    /\ Constants
    /\ now \in 0 .. MaxTime
    /\ calls \in [Callers -> [pc : {"idle", "trim", "count", "add", "incr", "expire"}, at : 0 .. MaxTime]]
    /\ entries \in SUBSET (0 .. MaxTime) /\ admitted \in SUBSET (0 .. MaxTime)
    /\ rate_limits \in [Replicas -> [window_start : 0 .. MaxTime, count : Nat]]
    /\ served \in [Replicas -> [0 .. MaxTime -> Nat]]
    /\ registrations \in Nat /\ relay_regs \in [count : Nat, expires : BOOLEAN] /\ abandoned \in BOOLEAN

Passed(pc) == {c \in Callers : calls[c].pc = pc}

(* In the last minute there were no more milliseconds in which a request   *)
(* was admitted than the limit and the requests that may be between ZCARD  *)
(* and ZADD, but one.  (Of milliseconds: two requests in one millisecond   *)
(* are one member of the set, and are counted once.)                       *)
SlidingBound ==
    Cardinality({t \in admitted : t > now - Window}) < calls_per_minute + Cardinality(Callers)

(* Between two expirations of the key there are no more registrations of   *)
(* accounts than the limit and the requests between GET and INCR, but one. *)
RegistrationBound ==
    registrations + Cardinality(Passed("incr")) < MaxRegistrations + Cardinality(Callers)

Since(f, t0) == SumFunction([t \in {u \in 0 .. now : u > t0} |-> f[t]])
(* The memory of a replica lets at most twice the limit through in any     *)
(* minute, at the seam of two windows.                                     *)
MemoryBound == \A i \in Replicas : Since(served[i], now - Window) <= 2 * calls_per_minute

(* A count of relay registrations expires, unless the request that made it *)
(* was cut off: then the address is refused for ever once the limit is     *)
(* reached.                                                                *)
RelayKeyExpires ==
    relay_regs.count > 0 /\ ~relay_regs.expires => Passed("expire") # {} \/ abandoned
=============================================================================
