------------------------- MODULE GatewayRefinement --------------------------
(***************************************************************************)
(* The gateway implements JobLifecycle.  A job waits while it is in a      *)
(* queue and runs while its entry is pending and it is in none: from the   *)
(* dispatch of its batch until its message has been handled.               *)
(***************************************************************************)
EXTENDS Gateway

AskedFor(j) ==
  IF job[j] = None THEN None
  ELSE [queue |-> job[j].queue, tenant |-> job[j].tenant,
        shape |-> job[j].shape, steps |-> job[j].steps]

Status(j) ==
  CASE job[j] = None    -> "none"
    [] j \in Queued     -> "waiting"
    [] j \in pending \ Queued -> "running"
    [] OTHER            -> "ended"

Progress(j) == IF job[j] = None THEN 0 ELSE StartIndex(j)

Lifecycle == INSTANCE JobLifecycle WITH
  request  <- [j \in Jobs |-> AskedFor(j)],
  status   <- [j \in Jobs |-> Status(j)],
  progress <- [j \in Jobs |-> Progress(j)],
  caller   <- future

\* Every step of the gateway and its workers is a step of a request's life or
\* none at all: a batch only ever holds jobs that can run together and that no
\* more important job waits for, checkpoints keep progress, production is never
\* checkpointed, and a job ends once (dispatcher and _on_worker_response).
ImplementsLifecycle == Lifecycle!LifecycleSpec
=============================================================================
