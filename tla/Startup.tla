------------------------------ MODULE Startup -------------------------------
(***************************************************************************)
(* lifespan up to its yield: the gateway starts one worker per GPU and a   *)
(* thread that collects their "ready" messages, and polls once a second    *)
(* until all have reported, one has died or the time is up.  The loop's    *)
(* three tests are separate steps, since the thread and the workers go on  *)
(* between them.                                                           *)
(***************************************************************************)
EXTENDS Integers, FiniteSets

CONSTANTS NUM_GPUS,
          Hanging     \* GPUs whose worker may never finish loading

GPUs == 0..(NUM_GPUS - 1)

ASSUME StartupAssumption == NUM_GPUS \in Nat \ {0} /\ Hanging \subseteq GPUs

VARIABLES
  phase,     \* "starting", one of the loop's tests, "serving" or "failed"
  worker,    \* GPU -> "none", "loading", "lost" (died while loading), "up" or "dead"
  messages,  \* ready messages in the response queue, by GPU
  ready,     \* state["ready"], by GPU
  late       \* WORKER_READY_TIMEOUT_S have passed

startupVars == <<phase, worker, messages, ready, late>>

Test == {"testing ready", "testing deadline", "testing alive"}

StartupTypeOK ==
  /\ phase \in {"starting", "serving", "failed"} \cup Test
  /\ worker \in [GPUs -> {"none", "loading", "lost", "up", "dead"}]
  /\ messages \subseteq GPUs
  /\ ready \subseteq GPUs
  /\ late \in BOOLEAN

StartupInit ==
  /\ phase = "starting"
  /\ worker = [g \in GPUs |-> "none"]
  /\ messages = {}
  /\ ready = {}
  /\ late = FALSE

\* One turn of "for gpu_id in range(NUM_GPUS)".
StartWorker(g) ==
  /\ phase = "starting"
  /\ worker[g] = "none"
  /\ \A h \in GPUs : h < g => worker[h] # "none"
  /\ worker' = [worker EXCEPT ![g] = "loading"]
  /\ UNCHANGED <<phase, messages, ready, late>>

\* The thread starts, and the loop.
StartPolling ==
  /\ phase = "starting"
  /\ \A g \in GPUs : worker[g] # "none"
  /\ phase' = "testing ready"
  /\ UNCHANGED <<worker, messages, ready, late>>

\* The worker has loaded the model and warmed up.
ReportReady(g) ==
  /\ worker[g] = "loading"
  /\ worker' = [worker EXCEPT ![g] = "up"]
  /\ messages' = messages \cup {g}
  /\ UNCHANGED <<phase, ready, late>>

\* An exception while loading, or the end of the process.
Die(g) ==
  /\ worker[g] \in {"loading", "up"}
  /\ worker' = [worker EXCEPT ![g] = IF @ = "loading" THEN "lost" ELSE "dead"]
  /\ UNCHANGED <<phase, messages, ready, late>>

Collect(g) ==
  /\ phase \in Test
  /\ g \in messages
  /\ messages' = messages \ {g}
  /\ ready' = ready \cup {g}
  /\ UNCHANGED <<phase, worker, late>>

TimePasses ==
  /\ phase \in Test
  /\ ~late
  /\ late' = TRUE
  /\ UNCHANGED <<phase, worker, messages, ready>>

\* A mutant of TestReady: one worker is enough.
TestAnyReady ==
  /\ phase = "testing ready"
  /\ phase' = IF ready = {} THEN "testing deadline" ELSE "serving"
  /\ UNCHANGED <<worker, messages, ready, late>>

TestReady ==
  /\ phase = "testing ready"
  /\ phase' = IF Cardinality(ready) < NUM_GPUS THEN "testing deadline" ELSE "serving"
  /\ UNCHANGED <<worker, messages, ready, late>>

\* A mutant of TestDeadline: no deadline.
TestNoDeadline ==
  /\ phase = "testing deadline"
  /\ phase' = "testing alive"
  /\ UNCHANGED <<worker, messages, ready, late>>

TestDeadline ==
  /\ phase = "testing deadline"
  /\ phase' = IF late THEN "failed" ELSE "testing alive"
  /\ UNCHANGED <<worker, messages, ready, late>>

TestAlive ==
  /\ phase = "testing alive"
  /\ phase' = IF \E g \in GPUs : worker[g] \in {"lost", "dead"} THEN "failed"
                                                            ELSE "testing ready"
  /\ UNCHANGED <<worker, messages, ready, late>>

Poll == TestReady \/ TestDeadline \/ TestAlive

StartupNext ==
  \/ StartPolling
  \/ Poll
  \/ TimePasses
  \/ \E g \in GPUs : StartWorker(g) \/ ReportReady(g) \/ Die(g) \/ Collect(g)

\* The loop, the thread and the clock go on; a worker that does not hang loads.
StartupFairness ==
  /\ WF_startupVars(StartPolling)
  /\ WF_startupVars(Poll)
  /\ WF_startupVars(TimePasses)
  /\ \A g \in GPUs : WF_startupVars(StartWorker(g)) /\ WF_startupVars(Collect(g))
  /\ \A g \in GPUs \ Hanging : WF_startupVars(ReportReady(g))

StartupSpec == StartupInit /\ [][StartupNext]_startupVars
FairStartupSpec == StartupSpec /\ StartupFairness

-----------------------------------------------------------------------------
\* It may have died since.
Loaded(g) == worker[g] \in {"up", "dead"}

\* Every ready message, sent or collected, is of a worker that has warmed up,
\* and the loop ends with one from every worker (the inductive invariant).
ReportsAreTrue ==
  /\ StartupTypeOK
  /\ \A g \in messages \cup ready : Loaded(g)
  /\ phase = "serving" => ready = GPUs

\* The gateway serves only when every worker has loaded the model and warmed up,
\* never with one that still loads or died while it did, whatever order the
\* ready messages, the deaths and the loop's tests come in.
ServesOnlyLoaded ==
  phase = "serving" => \A g \in GPUs : Loaded(g)

\* Start-up ends, even if workers hang or die.
StartupEnds == <>(phase \in {"serving", "failed"})
=============================================================================
