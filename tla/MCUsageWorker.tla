----------------------------- MODULE MCUsageWorker -----------------------------
(* The usage queue, the registry of relays and the limits on requests for TLC. *)
(* They share no state: a behaviour runs one of them, and of the limits one.   *)
(* Liveness is checked, so no symmetry.                                        *)
EXTENDS UsageWorker

CONSTANTS
    Callers,                          \* requests under way at a time, of either service
    Names, Addrs, MaxRows,            \* of RelayRegistry
    Replicas, calls_per_minute, Window, MaxRegistrations, MaxRelayRate, MaxTime, MaxCount  \* of RateLimits

VARIABLE focus  \* what runs

VARIABLES rows, created, registry_calls, raced, crossed
registry_vars == <<rows, created, registry_calls, raced, crossed>>
Registry == INSTANCE RelayRegistry WITH calls <- registry_calls

VARIABLES now, limit_calls, entries, admitted, rate_limits, served, registrations, relay_regs, abandoned
limit_vars == <<now, limit_calls, entries, admitted, rate_limits, served, registrations, relay_regs, abandoned>>
Limits == INSTANCE RateLimits WITH calls <- limit_calls

ASSUME ServicesAssumption == Registry!Constants /\ Limits!Constants

MCInit ==
    /\ focus \in {"worker", "registry", "window", "memory", "register"}
    /\ Init /\ Registry!Init /\ Limits!Init

Idle(components, own) == IF focus \in components THEN TRUE ELSE UNCHANGED own
Rest == /\ UNCHANGED focus
        /\ Idle({"worker"}, vars) /\ Idle({"registry"}, registry_vars)
        /\ Idle({"window", "memory", "register"}, limit_vars)
MCNext ==
    \/ focus = "worker" /\ Next /\ Rest
    \/ focus = "registry" /\ Registry!Next /\ Rest
    \/ focus = "window" /\ Limits!NextWindow /\ Rest
    \/ focus = "memory" /\ Limits!NextMemory /\ Rest
    \/ focus = "register" /\ Limits!NextRegister /\ Rest

(* The fairness of the worker's loop and of the registry's, where they run.*)
Fair ==
    /\ \A w \in Workers : WF_vars(focus = "worker" /\ (\/ Pop(w) \/ FinishCollect(w) \/ WriteCommits(w)
                                    \/ WriteFails(w) \/ Requeue(w) \/ RequeueEnds(w) \/ Start(w)))
    /\ WF_registry_vars(focus = "registry" /\ Registry!CleanupStaleRelays)
MCSpec == MCInit /\ [][MCNext]_<<focus, vars, registry_vars, limit_vars>> /\ Fair

-----------------------------------------------------------------------------
(* Shapes of the queue and its batches, of the registry and of the limits. *)
ServicesTypes == TypeOK /\ Registry!TypeOK /\ Limits!TypeOK

(* What a relay's row says agrees with itself unless two requests crossed  *)
(* (update_heartbeat, heartbeat_by_name, cleanup_stale_relays), and the    *)
(* limits let through what they say and what was under way, but one        *)
(* (_check_redis_rate_limit, _check_registration_rate_limit).              *)
ServicesSafe ==
    /\ Registry!NamesOnce /\ Registry!StatusAgrees
    /\ Limits!SlidingBound /\ Limits!RegistrationBound /\ Limits!MemoryBound /\ Limits!RelayKeyExpires

(* Every record pushed is written unless retries do not cover what happened*)
(* (_process_usage_queue), and a silent relay goes offline                 *)
(* (cleanup_stale_relays).                                                 *)
AllDone == EventuallyWritten /\ Registry!SilentGoOffline
=============================================================================
