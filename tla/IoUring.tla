-------------------------------- MODULE IoUring --------------------------------
(* The io_uring engine (data-plane/src/io_uring/mod.rs): the queue of          *)
(* submissions, its completions, the pool of fixed buffers and the batcher of  *)
(* sends.  Completions are simulated by the code: whatever is pending, oldest  *)
(* first, completes at the next poll.                                          *)
(*                                                                             *)
(* Operators whose name ends in Mutant are faulty variants of the definition   *)
(* that follows them; no action uses them.                                     *)
EXTENDS Naturals, Sequences, FiniteSets

CONSTANTS
    sq_entries,     \* depth of the submission queue
    PollBatch,      \* completions of one poll (32 in the code)
    MaxRecent,      \* recent completions kept (256)
    buffer_count,   \* buffers of the pool
    max_batch,      \* sends of one batch
    Users,          \* holders of buffers
    MaxSubmissions, \* bound: entries submitted
    MaxSends        \* bound: sends added to the batcher

\* What the constants stand for.
Constants == {sq_entries, PollBatch, MaxRecent, buffer_count, max_batch} \subseteq Nat \ {0}

VARIABLES
    initialized,   \* is the engine running?
    pending_sqes,  \* entries submitted and not completed
    recent_cqes,   \* how many completions are remembered
    counters,      \* [submissions, completions, errors]
    cleared,       \* history: entries dropped by shutdowns
    free_indices,  \* the free buffers, a queue
    holds,         \* user -> buffers it was given and has not released
    doubled,       \* history: a buffer was released by one that did not hold it
    batcher        \* [pending, batches, total, added]; added: history

vars == <<initialized, pending_sqes, recent_cqes, counters, cleared, free_indices, holds, doubled, batcher>>
engine == <<initialized, pending_sqes, recent_cqes, counters, cleared>>
pool   == <<free_indices, holds, doubled>>

Init ==
    /\ initialized = FALSE /\ pending_sqes = <<>> /\ recent_cqes = 0 /\ cleared = 0
    /\ counters = [submissions |-> 0, completions |-> 0, errors |-> 0]
    /\ free_indices = [i \in 1 .. buffer_count |-> i - 1]
    /\ holds = [u \in Users |-> {}] /\ doubled = FALSE
    /\ batcher = [pending |-> 0, batches |-> 0, total |-> 0, added |-> 0]

Least(m, n) == IF m < n THEN m ELSE n
Tail_(s, n) == [i \in 1 .. Len(s) - n |-> s[i + n]]

-----------------------------------------------------------------------------
Initialize ==
    /\ initialized' = TRUE
    /\ UNCHANGED <<pending_sqes, recent_cqes, counters, cleared, pool, batcher>>

\* The oldest entries beyond the queue's depth are dropped, as errors.
Dropped(c, n) == [c EXCEPT !.errors = @ + n]

(* submit: more than the depth at once is refused; otherwise all are       *)
(* queued, and the oldest make room.                                       *)
Submit(n) ==
    LET queue == pending_sqes \o [i \in 1 .. n |-> counters.submissions + i]
        over  == IF Len(queue) > sq_entries THEN Len(queue) - sq_entries ELSE 0
    IN  /\ initialized /\ n <= sq_entries /\ counters.submissions + n <= MaxSubmissions
        /\ pending_sqes' = Tail_(queue, over)
        /\ counters' = [Dropped(counters, over) EXCEPT !.submissions = @ + n]
        /\ UNCHANGED <<initialized, recent_cqes, cleared, pool, batcher>>

\* A full list of recent completions gives up its first with each completion.
Trimmed(recent, n) == Least(recent + n, MaxRecent - 1)

(* poll_completions, also for submit_and_wait: any caller's poll takes     *)
(* whoever's entries are pending.                                          *)
PollCompletions ==
    LET n == Least(Len(pending_sqes), PollBatch) IN
    /\ initialized /\ n > 0
    /\ pending_sqes' = Tail_(pending_sqes, n)
    /\ counters' = [counters EXCEPT !.completions = @ + n]
    /\ recent_cqes' = Trimmed(recent_cqes, n)
    /\ UNCHANGED <<initialized, cleared, pool, batcher>>

Shutdown ==
    /\ initialized /\ initialized' = FALSE
    /\ cleared' = cleared + Len(pending_sqes) /\ pending_sqes' = <<>> /\ recent_cqes' = 0
    /\ UNCHANGED <<counters, pool, batcher>>

-----------------------------------------------------------------------------
(* FixedBufferPool::allocate.                                              *)
Allocate(u) ==
    /\ free_indices # <<>>
    /\ holds' = [holds EXCEPT ![u] = @ \cup {Head(free_indices)}]
    /\ free_indices' = Tail(free_indices)
    /\ UNCHANGED <<engine, doubled, batcher>>

Freed(free, i) == Append(free, i)
(* release: any index in range, held by the caller or not (the model stops  *)
(* releasing after the first that was not).                                *)
Release(u, i) ==
    /\ ~doubled
    /\ free_indices' = Freed(free_indices, i)
    /\ holds' = [holds EXCEPT ![u] = @ \ {i}]
    /\ doubled' = (doubled \/ i \notin holds[u])
    /\ UNCHANGED <<engine, batcher>>

(* MultiSendBatcher: add refuses when the batch is full, flush sends it.   *)
RoomMutant(b) == b.pending <= max_batch
Room(b) == b.pending < max_batch
Add ==
    /\ Room(batcher) /\ batcher.added < MaxSends
    /\ batcher' = [batcher EXCEPT !.pending = @ + 1, !.added = @ + 1]
    /\ UNCHANGED <<engine, pool>>
Flush ==
    /\ batcher.pending > 0
    /\ batcher' = [batcher EXCEPT !.batches = @ + 1, !.total = @ + batcher.pending, !.pending = 0]
    /\ UNCHANGED <<engine, pool>>

Next ==
    \/ Initialize \/ PollCompletions \/ Shutdown \/ Add \/ Flush
    \/ \E n \in 1 .. sq_entries + 1 : Submit(n)
    \/ \E u \in Users : Allocate(u)
    \/ \E u \in Users, i \in 0 .. buffer_count - 1 : Release(u, i)

Spec == Init /\ [][Next]_vars

-----------------------------------------------------------------------------
(* Shapes, and the limits of the queue, the list and the batch.            *)
TypeOK ==
    /\ Constants
    /\ Len(pending_sqes) <= sq_entries /\ batcher.pending <= max_batch
    /\ \A i \in DOMAIN free_indices : free_indices[i] \in 0 .. buffer_count - 1

(* Every entry submitted is pending, completed, dropped for another, or    *)
(* was cleared by a shutdown; completions come in the order of submission. *)
Conserved ==
    /\ counters.submissions = Len(pending_sqes) + counters.completions + counters.errors + cleared
    /\ \A i, j \in DOMAIN pending_sqes : i < j => pending_sqes[i] < pending_sqes[j]

(* The list of recent completions stays below its limit.                   *)
RecentBounded == recent_cqes < MaxRecent

(* As long as buffers are released by who holds them, each buffer is free  *)
(* once or held by one user.                                               *)
OneOwner ==
    ~doubled => \A i \in 0 .. buffer_count - 1 :
        Cardinality({n \in DOMAIN free_indices : free_indices[n] = i})
            + Cardinality({u \in Users : i \in holds[u]}) = 1

(* What was added to the batcher was sent or is in the batch, which never  *)
(* is larger than the limit.                                               *)
BatchConserved == batcher.added = batcher.pending + batcher.total /\ batcher.pending <= max_batch
=============================================================================
