------------------------------ MODULE HttpGateway ------------------------------
(* The HTTP gateway (data-plane/src/http_gateway/mod.rs) with the client of it *)
(* in bin/mesh-tunnel.rs, which reports its traffic: every request is tried    *)
(* up to max_retries more times, whatever its method, and the server may have  *)
(* done what an attempt asked although the attempt failed.                     *)
(*                                                                             *)
(* Operators whose name ends in Mutant are faulty variants of the definition   *)
(* that follows them; no action uses them.                                     *)
EXTENDS Naturals, FiniteSets, Functions

CONSTANTS
    Callers,      \* tasks that share one gateway, each reporting its own traffic
    max_retries,  \* HttpGatewayConfig
    MaxReports,   \* bound: reports of a caller
    MaxBytes      \* bound: bytes received by a caller

\* What the constants stand for.
Constants == max_retries \in Nat /\ MaxReports \in Nat /\ MaxBytes \in Nat

VARIABLES
    calls,     \* caller -> [pc, attempt, report, bytes]
    consecutive_failures,
    requests,  \* attempts on their way: [caller, report, attempt, bytes]
    answers,   \* answers awaited: [caller, status]
    recorded,  \* history: attempts the server acted on
    batch,     \* caller -> bytes received since the last report: traffic_batch
    received,  \* history: caller -> bytes received
    results    \* history: <<caller, report, bytes, result>> of the calls that ended

vars == <<calls, consecutive_failures, requests, answers, recorded, batch, received, results>>

Statuses == {"Success", "Unparsed", "ServerError", "TooManyRequests", "ClientError"}
Idle == [pc |-> "idle", attempt |-> 0, report |-> 0, bytes |-> 0]
Init ==
    /\ calls = [c \in Callers |-> Idle] /\ consecutive_failures = 0
    /\ requests = {} /\ answers = {} /\ recorded = {}
    /\ batch = [c \in Callers |-> 0] /\ received = [c \in Callers |-> 0] /\ results = {}

Goto(c, pc) == calls' = [calls EXCEPT ![c].pc = pc]

-----------------------------------------------------------------------------
(* The main loop receives, and reports while there is something to report. *)
Receive(c) ==
    /\ calls[c].pc = "idle" /\ received[c] < MaxBytes
    /\ batch' = [batch EXCEPT ![c] = @ + 1] /\ received' = [received EXCEPT ![c] = @ + 1]
    /\ UNCHANGED <<calls, consecutive_failures, requests, answers, recorded, results>>
ReportTraffic(c) ==
    /\ calls[c].pc = "idle" /\ batch[c] > 0 /\ calls[c].report < MaxReports
    /\ calls' = [calls EXCEPT ![c] = [pc |-> "send", attempt |-> 0, report |-> @.report + 1, bytes |-> batch[c]]]
    /\ UNCHANGED <<consecutive_failures, requests, answers, recorded, batch, received, results>>

(* execute_once sends.                                                     *)
ExecuteOnce(c) ==
    /\ calls[c].pc = "send" /\ Goto(c, "wait")
    /\ requests' = requests \cup {[caller |-> c, report |-> calls[c].report,
                                   attempt |-> calls[c].attempt, bytes |-> calls[c].bytes]}
    /\ UNCHANGED <<consecutive_failures, answers, recorded, batch, received, results>>

Awaited(r) ==
    LET c == calls[r.caller] IN c.pc = "wait" /\ c.report = r.report /\ c.attempt = r.attempt
(* The server, now or when the caller has given the attempt up.            *)
Serve(r, status) ==
    /\ requests' = requests \ {r}
    /\ \/ status \in {"Success", "Unparsed", "ServerError"} /\ recorded' = recorded \cup {r}
       \/ status \in {"ServerError", "TooManyRequests", "ClientError"} /\ UNCHANGED recorded
    /\ answers' = IF Awaited(r) THEN answers \cup {[caller |-> r.caller, status |-> status]} ELSE answers
    /\ UNCHANGED <<calls, consecutive_failures, batch, received, results>>
Lose(r) ==
    /\ requests' = requests \ {r}
    /\ UNCHANGED <<calls, consecutive_failures, answers, recorded, batch, received, results>>

-----------------------------------------------------------------------------
IsRetryable(status) == status \in {"ServerError", "TooManyRequests", "Network"}

Last(attempt) == attempt = max_retries
(* What request does with the result of an attempt.                        *)
Attempted(c, status) ==
    Goto(c, IF status = "Success" THEN "succeeded"
            ELSE IF ~IsRetryable(status) THEN "refused"
            ELSE IF Last(calls[c].attempt) THEN "exhausted" ELSE "backoff")

Answered(c, a) ==
    /\ calls[c].pc = "wait" /\ a.caller = c
    /\ Attempted(c, a.status)
    /\ answers' = answers \ {a}
    /\ UNCHANGED <<consecutive_failures, requests, recorded, batch, received, results>>
(* A connection that fails, or a timeout.                                  *)
NetworkError(c) ==
    /\ calls[c].pc = "wait" /\ Attempted(c, "Network")
    /\ answers' = {a \in answers : a.caller # c}
    /\ UNCHANGED <<consecutive_failures, requests, recorded, batch, received, results>>
Retry(c) ==
    /\ calls[c].pc = "backoff"
    /\ calls' = [calls EXCEPT ![c].pc = "send", ![c].attempt = @ + 1]
    /\ UNCHANGED <<consecutive_failures, requests, answers, recorded, batch, received, results>>

\* The counter starts again at a success, and counts the calls that ran out of attempts.
Failures(pc) ==
    CASE pc = "succeeded" -> 0
      [] pc = "exhausted" -> consecutive_failures + 1
      [] OTHER -> consecutive_failures

KeptMutant(c) == batch[c]
\* The batch is cleared whatever became of the report.
Kept(c) == 0
(* request returns, and the main loop goes on.                             *)
Return(c) ==
    /\ calls[c].pc \in {"succeeded", "refused", "exhausted"}
    /\ consecutive_failures' = Failures(calls[c].pc)
    /\ results' = results \cup {<<c, calls[c].report, calls[c].bytes, calls[c].pc>>}
    /\ batch' = [batch EXCEPT ![c] = Kept(c)]
    /\ Goto(c, "idle")
    /\ UNCHANGED <<requests, answers, recorded, received>>

Next ==
    \/ \E c \in Callers : \/ Receive(c) \/ ReportTraffic(c) \/ ExecuteOnce(c) \/ NetworkError(c)
                          \/ Retry(c) \/ Return(c)
                          \/ \E a \in answers : Answered(c, a)
    \/ \E r \in requests : Lose(r) \/ \E s \in Statuses : Serve(r, s)

(* Tasks run, and a request times out in the end.                          *)
Fairness ==
    \A c \in Callers : WF_vars(ExecuteOnce(c) \/ NetworkError(c) \/ Retry(c) \/ Return(c))

Spec == Init /\ [][Next]_vars /\ Fairness

-----------------------------------------------------------------------------
(* Shapes.                                                                 *)
TypeOK ==
    /\ Constants
    /\ \A c \in Callers : calls[c].attempt <= max_retries /\ batch[c] <= MaxBytes
    /\ consecutive_failures \in 0 .. Cardinality(results)

Copies(c, report) == {r \in recorded : r.caller = c /\ r.report = report}

(* A report that succeeded was recorded, once at least; no report is       *)
(* recorded more often than it is tried, a retried one up to that often.   *)
ReportsRecorded ==
    /\ \A x \in results : x[4] = "succeeded" => Copies(x[1], x[2]) # {}
    /\ \A c \in Callers, n \in 1 .. MaxReports : Cardinality(Copies(c, n)) <= max_retries + 1

(* A byte received is in the batch, or in exactly one report; what a failed*)
(* report held, and the server did not record, is lost.                    *)
BytesReportedOnce ==
    \A c \in Callers :
        LET mine == {x \in results : x[1] = c} IN
        received[c] = batch[c] + SumFunction([x \in mine |-> x[3]])

(* The failure counter is zero after every success, whoever's it was.      *)
SuccessClears ==
    [][\A c \in Callers : calls[c].pc = "succeeded" /\ calls'[c].pc = "idle" => consecutive_failures' = 0]_vars

(* Every call ends.                                                        *)
CallsEnd == \A c \in Callers : []<>(calls[c].pc = "idle")
=============================================================================
