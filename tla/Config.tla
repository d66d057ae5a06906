------------------------------- MODULE Config -------------------------------
(***************************************************************************)
(* The constants of the scheduler: the environment variables that          *)
(* gateway.py reads, the queue classes of config.py, and the shapes of the *)
(* records that the gateway and the workers exchange.                      *)
(*                                                                         *)
(* Request ids are the numbers 1..MaxJobs, handed out in arrival order, so *)
(* comparing two ids compares the two Job.arrival timestamps.              *)
(***************************************************************************)
EXTENDS Integers, Sequences, FiniteSets, Functions

CONSTANTS
  NUM_GPUS,         \* worker processes, gateway.py
  MAX_BATCH,        \* most jobs in one batch, gateway.py
  BATCH_WAIT,       \* BATCH_WAIT_MS > 0: underfilled batches are held
  SCHED_POLICY,     \* one of the names policies.py registers
  max_depth,        \* QUEUE_CONFIG[class]["max_depth"]
  tenant_quota,     \* QUEUE_CONFIG[class]["tenant_inflight"]
  GPU_VRAM_BUDGET_GB,
  Requests,         \* what clients may ask for
  Cancellable,      \* requests whose handler the server may cancel
  Failing,          \* GPUs on which a batch may raise an exception
  MaxJobs,          \* bound: requests admitted in one behaviour
  MaxRejected,      \* bound: requests refused in one behaviour
  None              \* Python's None

Class  == {"production", "research", "benchmark"}
Policy == {"fifo", "priority", "edf", "priority_preempt"}

\* A lower number is a more important class.
Priority == [c \in Class |-> CASE c = "production" -> 0
                               [] c = "research"   -> 1
                               [] c = "benchmark"  -> 2]
Preemptible(c) == c # "production"
SloOnEveryClass(c) == c \in Class   \* a mutant of HasDeadline
HasDeadline(c) == c = "production"

GPUs == 0..(NUM_GPUS - 1)
Jobs == 1..MaxJobs

\* Width and height only matter through equality, so one value stands for both.
Tenant == {r.tenant : r \in Requests}
Shape  == {r.shape : r \in Requests}

\* A latents tensor, by what tells two of them apart: whose image it is and
\* how many denoising steps it has been through.
Latents == [owner : Jobs, applied : Nat]

ResumeState == [latents : Latents, step_index : Nat]

Job == [queue : Class, tenant : Tenant, shape : Shape, steps : Nat \ {0},
        dispatched_at : BOOLEAN,   \* is it set (the time itself is abstracted)
        resume_state : ResumeState \cup {None},
        preempt_requested : BOOLEAN, preempt_count : Nat]

\* The batch message on a request queue and the batch group kept in "busy".
BatchJob == [request_id : Jobs, resume_latents : Latents \cup {None}]
Batch == [batch_id : Nat, steps : Nat \ {0}, start_index : Nat,
          preemptible : BOOLEAN, jobs : Seq(BatchJob)]
Group == [batch_id : Nat, head : Jobs, jobs : SUBSET Jobs,
          remaining : Nat \ {0}]

\* A worker in the middle of _run_batch, and what it answers for each job.
Running == {r \in [batch : Batch, i : Nat, latents : Seq(Latents)] :
              Len(r.latents) = Len(r.batch.jobs)}
Response == [type : {"result", "preempted"}, request_id : Jobs,
             step_index : Nat, latents : Latents]
              \cup [type : {"error"}, request_id : Jobs]

ASSUME ConfigAssumption ==
  /\ NUM_GPUS \in Nat \ {0}
  /\ MAX_BATCH \in Nat \ {0}
  /\ BATCH_WAIT \in BOOLEAN
  /\ SCHED_POLICY \in Policy
  /\ max_depth \in [Class -> Nat]
  /\ tenant_quota \in [Class -> Nat]
  /\ GPU_VRAM_BUDGET_GB \in Nat
  /\ \A r \in Requests : /\ r.queue \in Class
                         /\ r.steps \in Nat \ {0}
                         /\ r.vram_gb \in Nat
  /\ Cancellable \subseteq Jobs
  /\ Failing \subseteq GPUs
  /\ MaxJobs \in Nat
  /\ MaxRejected \in Nat

ASSUME NoneAssumption ==
  None \notin Job \cup ResumeState \cup Latents \cup Batch \cup Group \cup Running
=============================================================================
