------------------------------ MODULE Lifespan ------------------------------
(***************************************************************************)
(* The gateway when worker processes die and when the server stops.        *)
(*                                                                         *)
(* Nothing in gateway.py looks at a worker after start-up: a dead one      *)
(* leaves its batch in "busy" and its callers waiting, and an idle dead    *)
(* one still looks free.  A graceful stop of the server waits for the      *)
(* requests that are open, then leaves lifespan: the dispatcher is         *)
(* cancelled and None follows the last batch into every request queue.     *)
(*                                                                         *)
(* A dead worker takes no more steps: running[g] is where it was, and      *)
(* unsent[g] is how many of the messages at the end of response_q[g] had   *)
(* not left its process and will never be read.                            *)
(***************************************************************************)
EXTENDS GatewayProps

CONSTANT Mortal   \* GPUs whose worker may die

VARIABLES
  gone,       \* GPUs whose worker process has exited or died
  unsent,     \* GPU -> the messages that died with its worker
  sentinels,  \* GPUs whose request queue ends with None
  stopping,   \* lifespan has gone on after its yield
  draining    \* the drain thread has not met its None

exitVars == <<gone, unsent, sentinels, stopping, draining>>
allVars == <<vars, exitVars>>

ASSUME MortalAssumption == Mortal \subseteq GPUs

LifespanInit ==
  /\ Init
  /\ gone = {}
  /\ unsent = [g \in GPUs |-> 0]
  /\ sentinels = {}
  /\ stopping = FALSE
  /\ draining = TRUE

\* The worker dies: its batch is lost, and those of its messages that had not
\* left the process.  What is in its request queue stays there.
Crash(g) ==
  /\ g \in Mortal \ gone
  /\ gone' = gone \cup {g}
  /\ \E n \in 0..Len(response_q[g]) : unsent' = [unsent EXCEPT ![g] = n]
  /\ UNCHANGED <<vars, sentinels, stopping, draining>>

\* A mutant of Sentinels: a busy worker gets none.
SentinelsToFree == Free

Sentinels == GPUs

\* Every caller has been answered or has gone; the rest of lifespan runs.
Stop ==
  /\ LoopIdle
  /\ ~stopping
  /\ \A j \in Jobs : future[j] \notin {"waiting", "result", "error"}
  /\ stopping' = TRUE
  /\ sentinels' = Sentinels
  /\ UNCHANGED <<vars, gone, unsent, draining>>

DrainEnds ==
  /\ stopping
  /\ draining
  /\ draining' = FALSE
  /\ UNCHANGED <<vars, gone, unsent, sentinels, stopping>>

\* The worker has done its batches and takes the None.
Exit(g) ==
  /\ g \in sentinels \ gone
  /\ running[g] = None
  /\ request_q[g] = <<>>
  /\ gone' = gone \cup {g}
  /\ UNCHANGED <<vars, unsent, sentinels, stopping, draining>>

\* A batch may fail instead of going on.
WorkerRuns(g) ==
  g \notin gone /\ (WorkerStep(g) \/ BatchError(g)) /\ UNCHANGED <<gatewayVars, exitVars>>
Deliver(g) ==
  /\ draining
  /\ Len(response_q[g]) > unsent[g]
  /\ OnPreempted(g) \/ OnFinished(g)
  /\ UNCHANGED exitVars
Dispatch ==
  ~stopping /\ DispatcherStep /\ UNCHANGED exitVars

LoopRuns ==
  \/ Dispatch
  \/ \E j \in Jobs : (Respond(j) \/ TimerFire(j)) /\ UNCHANGED exitVars
  \/ \E g \in GPUs : Deliver(g)

LifespanNext ==
  \/ ~stopping /\ Client /\ UNCHANGED exitVars
  \/ LoopRuns
  \/ Age /\ UNCHANGED exitVars
  \/ \E g \in GPUs : \/ WorkerRuns(g)
                     \/ Crash(g)
                     \/ Exit(g)
  \/ Stop
  \/ DrainEnds

\* The loop runs something whenever a callback is ready, time passes, and the
\* workers that live go on.
LifespanFairness ==
  /\ WF_allVars(LoopRuns)
  /\ WF_allVars(Age /\ UNCHANGED exitVars)
  /\ \A g \in GPUs : WF_allVars(WorkerRuns(g) \/ Exit(g))

LifespanSpec == LifespanInit /\ [][LifespanNext]_allVars
FairLifespanSpec == LifespanSpec /\ LifespanFairness

-----------------------------------------------------------------------------
\* The jobs whose messages have left the worker.
ArrivingIds(g) ==
  {response_q[g][k].request_id : k \in 1..(Len(response_q[g]) - unsent[g])}

\* Pending jobs that no queue, no living worker and no message still has.
Stranded ==
  pending \ (Queued \cup (UNION {ArrivingIds(g) : g \in GPUs})
                    \cup (UNION {Outstanding(g) : g \in GPUs \ gone}))

\* A worker's death takes at most the batch it was given, whenever it dies and
\* even if the dispatcher does not know: its GPU is never taken for free again
\* (busy and remaining, _on_worker_response and the fill loop).
LossBounded ==
  /\ Stranded \subseteq UNION {busy[g].jobs : g \in {h \in gone : busy[h] # None}}
  /\ Cardinality(Stranded) <= MAX_BATCH * Cardinality(gone)

\* The death of some workers does not keep anybody else's request from its
\* answer, as long as one worker lives.
OthersAnswered ==
  \A j \in Jobs : future[j] = "waiting" ~>
    future[j] \in {"answered", "failed", "cancelled"} \/ j \in Stranded

\* Once lifespan leaves, every worker ends, after the batches it still has.
StopEnds == stopping ~> gone = GPUs
=============================================================================
