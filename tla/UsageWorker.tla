------------------------------ MODULE UsageWorker ------------------------------
(***************************************************************************)
(* The usage queue of the background worker (services/worker): records are *)
(* taken one by one from a Redis list into a batch, the batch is written   *)
(* to the database in one transaction, and put back if that fails.         *)
(* Several workers may share the queue.  Producers are external.           *)
(*                                                                         *)
(* Operators whose name ends in Mutant are faulty variants of the          *)
(* definition that follows them; no action uses them.                      *)
(***************************************************************************)
EXTENDS Integers, Sequences, FiniteSets, SequencesExt

CONSTANTS
    Records,
    Malformed,      \* records json.loads refuses
    Workers,
    MaxBatch,       \* 100 in the code
    MaxRetries,     \* 3 in the code
    MaxDbFailures,  \* bound: transactions rolled back
    MaxStops,       \* bound: graceful stops
    MaxFaults       \* bound: crashes, Redis errors, commits of unknown outcome

ASSUME BoundsAssumption ==
    /\ MaxBatch \in Nat \ {0} /\ MaxRetries \in Nat
    /\ MaxDbFailures \in Nat /\ MaxStops \in Nat /\ MaxFaults \in Nat
    /\ Malformed \subseteq Records /\ IsFiniteSet(Workers)

VARIABLES
    queue,      \* Redis list queue:usage
    batch,      \* per worker: the records it holds
    pc,         \* per worker: "collect", "write", "requeue", "stopped"
    db,         \* rows of usage_records per record
    pushed,     \* history: records a producer has pushed
    doubtful,   \* history: commits that took effect and were reported as failed
    db_failures, stops, faults

vars == <<queue, batch, pc, db, pushed, doubtful, db_failures, stops, faults>>
counts == <<pushed, doubtful, db_failures, stops, faults>>

Item == [id : Records, retries : 0 .. MaxRetries]

Goto(w, from, to) == pc[w] = from /\ pc' = [pc EXCEPT ![w] = to]
Hold(w, items)    == batch' = [batch EXCEPT ![w] = items]

Fault == faults < MaxFaults /\ faults' = faults + 1

Init ==
    /\ queue = <<>>
    /\ batch = [w \in Workers |-> <<>>]
    /\ pc = [w \in Workers |-> "collect"]
    /\ db = [r \in Records |-> 0]
    /\ pushed = {}
    /\ doubtful = 0 /\ db_failures = 0 /\ stops = 0 /\ faults = 0

\* A producer (external) reports the use of a resource.
Push(r) ==
    /\ r \notin pushed
    /\ pushed' = pushed \cup {r}
    /\ queue' = Append(queue, [id |-> r, retries |-> 0])
    /\ UNCHANGED <<batch, pc, db, doubtful, db_failures, stops, faults>>

(* _process_usage_queue: lpop, json.loads.  A record that does not parse   *)
(* raises out of the loop and the records popped so far go with it.        *)
Pop(w) ==
    /\ pc[w] = "collect" /\ queue # <<>> /\ Len(batch[w]) < MaxBatch
    /\ queue' = Tail(queue)
    /\ Hold(w, IF Head(queue).id \in Malformed THEN <<>> ELSE Append(batch[w], Head(queue)))
    /\ UNCHANGED <<pc, db, counts>>

CollectedMutant(w) == Len(batch[w]) = MaxBatch      \* waits for a full batch
Collected(w) == Len(batch[w]) = MaxBatch \/ (queue = <<>> /\ batch[w] # <<>>)

FinishCollect(w) ==
    /\ Goto(w, "collect", "write")
    /\ Collected(w)
    /\ UNCHANGED <<queue, batch, db, counts>>

\* The rows that a transaction for the batch of w adds.
Inserted(w) == [r \in Records |->
                  db[r] + Cardinality({i \in DOMAIN batch[w] : batch[w][i].id = r})]

(* _write_usage_batch: commit; rollback; and a commit that took effect     *)
(* although the connection failed before saying so.                        *)
WriteCommits(w) ==
    /\ Goto(w, "write", "collect")
    /\ db' = Inserted(w)
    /\ Hold(w, <<>>)
    /\ UNCHANGED <<queue, counts>>

WriteFails(w) ==
    /\ Goto(w, "write", "requeue")
    /\ db_failures < MaxDbFailures /\ db_failures' = db_failures + 1
    /\ UNCHANGED <<queue, batch, db, pushed, doubtful, stops, faults>>

WriteDoubtful(w) ==
    /\ Goto(w, "write", "requeue")
    /\ Fault
    /\ db' = Inserted(w) /\ doubtful' = doubtful + 1
    /\ UNCHANGED <<queue, batch, pushed, db_failures, stops>>

RetryAgainMutant(item) == item.retries <= MaxRetries
RetryAgain(item) == item.retries < MaxRetries

RequeueMutant(w) ==             \* keeps the record it has put back
    /\ pc[w] = "requeue" /\ batch[w] # <<>>
    /\ queue' = IF RetryAgain(Head(batch[w]))
                THEN Append(queue, [Head(batch[w]) EXCEPT !.retries = @ + 1]) ELSE queue
    /\ pc' = [pc EXCEPT ![w] = "collect"]
    /\ UNCHANGED <<batch, db, counts>>
(* The except clause: one rpush per record that has retries left.          *)
Requeue(w) ==
    LET item == Head(batch[w]) IN
    /\ pc[w] = "requeue" /\ batch[w] # <<>>
    /\ queue' = IF RetryAgain(item)
                THEN Append(queue, [item EXCEPT !.retries = @ + 1]) ELSE queue
    /\ Hold(w, Tail(batch[w]))
    /\ UNCHANGED <<pc, db, counts>>

RequeueEnds(w) ==
    /\ Goto(w, "requeue", "collect")
    /\ batch[w] = <<>>
    /\ UNCHANGED <<queue, batch, db, counts>>

(* Redis raises: in the loop, or in the except clause, whose error the     *)
(* loop catches; either way the batch in hand is forgotten.                *)
RedisError(w) ==
    /\ pc[w] \in {"collect", "requeue"}
    /\ Fault
    /\ pc' = [pc EXCEPT ![w] = "collect"]
    /\ Hold(w, <<>>)
    /\ UNCHANGED <<queue, db, pushed, doubtful, db_failures, stops>>

(* stop cancels the task wherever it stands; a new process takes over.     *)
Stop(w) ==
    /\ pc[w] # "stopped"
    /\ stops < MaxStops /\ stops' = stops + 1
    /\ pc' = [pc EXCEPT ![w] = "stopped"]
    /\ Hold(w, <<>>)
    /\ UNCHANGED <<queue, db, pushed, doubtful, db_failures, faults>>

Crash(w) ==
    /\ pc[w] # "stopped"
    /\ Fault
    /\ pc' = [pc EXCEPT ![w] = "stopped"]
    /\ Hold(w, <<>>)
    /\ UNCHANGED <<queue, db, pushed, doubtful, db_failures, stops>>

Start(w) ==
    /\ Goto(w, "stopped", "collect")
    /\ UNCHANGED <<queue, batch, db, counts>>

Next ==
    \/ \E r \in Records : Push(r)
    \/ \E w \in Workers :
        \/ Pop(w) \/ FinishCollect(w) \/ WriteCommits(w) \/ WriteFails(w) \/ WriteDoubtful(w)
        \/ Requeue(w) \/ RequeueEnds(w) \/ RedisError(w) \/ Stop(w) \/ Crash(w) \/ Start(w)

Spec == Init /\ [][Next]_vars

(* The loop runs while the process does, and a process is restarted.       *)
Fairness ==
    \A w \in Workers : WF_vars(\/ Pop(w) \/ FinishCollect(w) \/ WriteCommits(w) \/ WriteFails(w)
                               \/ Requeue(w) \/ RequeueEnds(w) \/ Start(w))

FairSpec == Spec /\ Fairness

-----------------------------------------------------------------------------
(* Shapes of the queue, the batches and the rows; retries stay in range.   *)
TypeOK ==
    /\ queue \in Seq(Item)
    /\ \A w \in Workers : batch[w] \in Seq(Item) /\ Len(batch[w]) <= MaxBatch
    /\ pc \in [Workers -> {"collect", "write", "requeue", "stopped"}]
    /\ db \in [Records -> Nat]
    /\ pushed \subseteq Records
    /\ doubtful \in 0 .. MaxFaults /\ db_failures \in 0 .. MaxDbFailures
    /\ stops \in 0 .. MaxStops /\ faults \in 0 .. MaxFaults

\* How often a record is in the queue, in the batches and in the database.
Occurs(items, r) == Cardinality({i \in DOMAIN items : items[i].id = r})
Copies(r) ==
    Occurs(queue, r) + db[r]
        + SumFunction([w \in Workers |-> Occurs(batch[w], r)])

\* A record is billed twice only if a commit took effect and was reported as failed;
\* crashes, stops and Redis errors never duplicate one.
NoDuplicates == \A r \in Records : Copies(r) <= 1 + doubtful

\* Something happened that retries do not cover.
Uncovered ==
    faults > 0 \/ stops > 0 \/ db_failures > MaxRetries \/ pushed \cap Malformed # {}

\* As long as the database fails no more often than a record is retried, and nothing
\* else fails, no record is lost.
RetriesCover == ~ Uncovered => \A r \in pushed : Copies(r) = 1

(* Usage is billed: no record twice unless a commit was reported as failed *)
(* that took effect, and none lost as long as retries cover what failed    *)
(* (_process_usage_queue, _write_usage_batch).                             *)
BilledOnce == NoDuplicates /\ RetriesCover

(* Every record pushed is eventually a row, unless something happens that  *)
(* retries do not cover.                                                   *)
EventuallyWritten == \A r \in Records : r \in pushed ~> (db[r] > 0 \/ Uncovered)
=============================================================================
