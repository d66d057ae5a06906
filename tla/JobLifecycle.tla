---------------------------- MODULE JobLifecycle ----------------------------
(***************************************************************************)
(* What the scheduler promises about requests, with no queues, GPUs,       *)
(* messages or events: a request waits, runs in a batch of requests that   *)
(* can run together, perhaps yields and waits again with its progress      *)
(* kept, and ends once; its caller hears of the end once.                  *)
(*                                                                         *)
(* GatewayRefinement shows that the gateway and its workers implement it.  *)
(***************************************************************************)
EXTENDS Config

VARIABLES
  request,   \* job -> what was asked for, or None
  status,    \* job -> "none", "waiting", "running" or "ended"
  progress,  \* job -> denoising steps it need not repeat
  caller     \* job -> what its caller knows

lifecycleVars == <<request, status, progress, caller>>

LifecycleInit ==
  /\ request = [j \in Jobs |-> None]
  /\ status = [j \in Jobs |-> "none"]
  /\ progress = [j \in Jobs |-> 0]
  /\ caller = [j \in Jobs |-> "none"]

With(s) == {j \in Jobs : status[j] = s}

Accept(j, r) ==
  /\ request' = [request EXCEPT ![j] =
                   [queue |-> r.queue, tenant |-> r.tenant, shape |-> r.shape, steps |-> r.steps]]
  /\ status' = [status EXCEPT ![j] = "waiting"]
  /\ caller' = [caller EXCEPT ![j] = "waiting"]
  /\ UNCHANGED progress

\* Requests that one denoising loop can serve.
RunTogether(j, k) ==
  /\ request[j].queue = request[k].queue
  /\ request[j].shape = request[k].shape
  /\ request[j].steps = request[k].steps
  /\ progress[j] = progress[k]

\* Nobody starts while somebody more important waits, except under fifo.
MayStart(j) ==
  SCHED_POLICY = "fifo" \/ \A k \in With("waiting") :
    Priority[request[j].queue] <= Priority[request[k].queue]

Start(J) ==
  /\ J # {}
  /\ Cardinality(J) <= MAX_BATCH
  /\ Cardinality(J \cup With("running")) <= NUM_GPUS * MAX_BATCH
  /\ \A j \in J : MayStart(j)
  /\ \A j, k \in J : RunTogether(j, k)
  /\ status' = [j \in Jobs |-> IF j \in J THEN "running" ELSE status[j]]
  /\ UNCHANGED <<request, progress, caller>>

\* Progress is kept, and a request with nothing left to do does not yield.
Yield(j) ==
  /\ Preemptible(request[j].queue)
  /\ SCHED_POLICY = "priority_preempt"
  /\ \E p \in progress[j]..(request[j].steps - 1) :
       progress' = [progress EXCEPT ![j] = p]
  /\ status' = [status EXCEPT ![j] = "waiting"]
  /\ UNCHANGED <<request, caller>>

End(j, outcome) ==
  /\ status' = [status EXCEPT ![j] = "ended"]
  /\ caller' = [caller EXCEPT ![j] = IF @ = "waiting" THEN outcome ELSE @]
  /\ UNCHANGED <<request, progress>>

Tell(j) ==
  /\ \/ caller[j] = "result" /\ caller' = [caller EXCEPT ![j] = "answered"]
     \/ caller[j] = "error" /\ caller' = [caller EXCEPT ![j] = "failed"]
  /\ UNCHANGED <<request, status, progress>>

GoAway(j) ==
  /\ caller[j] \in {"waiting", "result", "error"}
  /\ caller' = [caller EXCEPT ![j] = "cancelled"]
  /\ UNCHANGED <<request, status, progress>>

LifecycleNext ==
  \/ \E j \in With("none"), r \in Requests : Accept(j, r)
  \/ \E J \in SUBSET With("waiting") : Start(J)
  \/ \E j \in With("running") : \/ Yield(j)
                              \/ \E outcome \in {"result", "error"} : End(j, outcome)
  \/ \E j \in Jobs : Tell(j) \/ GoAway(j)

LifecycleSpec == LifecycleInit /\ [][LifecycleNext]_lifecycleVars
=============================================================================
