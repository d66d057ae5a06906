------------------------------- MODULE Worker -------------------------------
(***************************************************************************)
(* worker.py: one process per GPU.  It takes a batch from its request      *)
(* queue, runs the denoising loop one step at a time, looks at its control *)
(* queue before each step of a preemptible batch, and answers with one     *)
(* message per job.                                                        *)
(*                                                                         *)
(* The processes share one response queue.  Each worker's messages keep    *)
(* their order and interleave freely with the others', so the model has    *)
(* one sequence per worker and lets the reader take from any of them.      *)
(* A put may reach the reader late, so a drain of the control queue sees   *)
(* any prefix of what was put.                                             *)
(***************************************************************************)
EXTENDS Config

VARIABLES
  request_q,    \* GPU -> batches sent to the worker
  control_q,    \* GPU -> batch ids of the preempt messages sent to it
  response_q,   \* GPU -> messages the gateway has not handled yet
  running       \* GPU -> the worker inside _run_batch, or None

workerVars == <<request_q, control_q, response_q, running>>

WorkerTypeOK ==
  /\ request_q \in [GPUs -> Seq(Batch)]
  /\ control_q \in [GPUs -> Seq(Nat)]
  /\ response_q \in [GPUs -> Seq(Response)]
  /\ running \in [GPUs -> Running \cup {None}]

WorkerInit ==
  /\ request_q = [g \in GPUs |-> <<>>]
  /\ control_q = [g \in GPUs |-> <<>>]
  /\ response_q = [g \in GPUs |-> <<>>]
  /\ running = [g \in GPUs |-> None]

-----------------------------------------------------------------------------
\* A fresh job starts from noise, a resumed one from its checkpoint.
InitialLatents(bj) ==
  IF bj.resume_latents = None THEN [owner |-> bj.request_id, applied |-> 0]
  ELSE bj.resume_latents

StartBatch(g) ==
  /\ running[g] = None
  /\ request_q[g] # <<>>
  /\ LET b == Head(request_q[g])
     IN  running' = [running EXCEPT ![g] =
           [batch |-> b, i |-> b.start_index,
            latents |-> [k \in DOMAIN b.jobs |-> InitialLatents(b.jobs[k])]]]
  /\ request_q' = [request_q EXCEPT ![g] = Tail(@)]
  /\ UNCHANGED <<control_q, response_q>>

\* A mutant of Hit: a message for any batch counts.
HitByAnything(g, n) == n > 0

\* _preempt_requested read the first n control messages: was one for us?
Hit(g, n) ==
  \E k \in 1..n : control_q[g][k] = running[g].batch.batch_id

Drain(g, n) == control_q' = [control_q EXCEPT ![g] = SubSeq(@, n + 1, Len(@))]

\* The worker leaves _run_batch and puts its messages, one per job of the batch.
Answer(g, msgs) ==
  /\ response_q' = [response_q EXCEPT ![g] = @ \o msgs]
  /\ running' = [running EXCEPT ![g] = None]

\* Mutants of Checkpoints: the step after the boundary, no latents.
CheckpointsOneStepLate(g) ==
  [k \in DOMAIN running[g].batch.jobs |->
     [type |-> "preempted", request_id |-> running[g].batch.jobs[k].request_id,
      step_index |-> running[g].i + 1, latents |-> running[g].latents[k]]]
CheckpointsWithoutLatents(g) ==
  [k \in DOMAIN running[g].batch.jobs |->
     [type |-> "preempted", request_id |-> running[g].batch.jobs[k].request_id,
      step_index |-> running[g].i, latents |-> None]]

Checkpoints(g) ==
  [k \in DOMAIN running[g].batch.jobs |->
     [type |-> "preempted", request_id |-> running[g].batch.jobs[k].request_id,
      step_index |-> running[g].i, latents |-> running[g].latents[k]]]
Results(g) ==
  [k \in DOMAIN running[g].batch.jobs |->
     [type |-> "result", request_id |-> running[g].batch.jobs[k].request_id,
      step_index |-> running[g].batch.steps, latents |-> running[g].latents[k]]]
Failures(g) ==
  [k \in DOMAIN running[g].batch.jobs |->
     [type |-> "error", request_id |-> running[g].batch.jobs[k].request_id]]

InLoop(g) == running[g] # None /\ running[g].i < running[g].batch.steps

\* The top of the loop body found a message for this batch: all jobs checkpoint.
PreemptBatch(g) ==
  /\ InLoop(g)
  /\ running[g].batch.preemptible
  /\ \E n \in 0..Len(control_q[g]) : Hit(g, n) /\ Drain(g, n)
  /\ Answer(g, Checkpoints(g))
  /\ UNCHANGED request_q

Denoised(lat) == [lat EXCEPT !.applied = @ + 1]

\* It found none, or did not look, and the batch went through one UNet step.
Denoise(g) ==
  /\ InLoop(g)
  /\ \E n \in 0..Len(control_q[g]) :
       /\ running[g].batch.preemptible => ~Hit(g, n)
       /\ ~running[g].batch.preemptible => n = 0
       /\ Drain(g, n)
  /\ running' = [running EXCEPT
       ![g].i = @ + 1,
       ![g].latents = [k \in DOMAIN @ |-> Denoised(@[k])]]
  /\ UNCHANGED <<request_q, response_q>>

FinishBatch(g) ==
  /\ running[g] # None
  /\ running[g].i >= running[g].batch.steps
  /\ Answer(g, Results(g))
  /\ UNCHANGED <<request_q, control_q>>

\* Any exception in _run_batch answers an error for every job of the batch.
BatchError(g) ==
  /\ g \in Failing
  /\ running[g] # None
  /\ Answer(g, Failures(g))
  /\ UNCHANGED <<request_q, control_q>>

WorkerStep(g) ==
  StartBatch(g) \/ PreemptBatch(g) \/ Denoise(g) \/ FinishBatch(g)
=============================================================================
