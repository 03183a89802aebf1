----------------------------- MODULE WorkerPool -----------------------------
(***************************************************************************)
(* The worker pool (internal/queue/worker.go): the buffered channel of     *)
(* jobs, the workers that drain it, the map of cancel functions, and their *)
(* callers: the POST /run handlers, which block in Enqueue, the POST /kill *)
(* handlers, and main, which closes the channel and waits at shutdown.     *)
(*                                                                         *)
(* Each operation on the channel, on the sync.Map and on a context is one  *)
(* step, as the Go runtime makes it. Execute is the interval during which  *)
(* a worker is at "exec"; module Executor has what happens in it.          *)
(***************************************************************************)
EXTENDS Naturals, Sequences, FiniteSets

CONSTANTS
  JobIDs,   \* the jobs that POST /run submits: a fresh uuid each
  Workers,  \* the worker goroutines
  Cap,      \* the capacity of the channel (100 in the code)
  Killers,  \* POST /kill requests
  Target,   \* the job each of them names
  Endless,  \* jobs whose command ends only when its context is cancelled
  Stuck,    \* jobs whose output a client that stopped reading blocks for good
  NoJob     \* what an idle worker holds

ASSUME Assumptions ==
  /\ Cap \in Nat \ {0}
  /\ Workers # {}
  /\ Target \in [Killers -> JobIDs]
  /\ Endless \subseteq JobIDs
  /\ Stuck \subseteq JobIDs
  /\ NoJob \notin JobIDs

VARIABLES
  runPc,       \* the POST /run handler of each job
  jobs,        \* the content of the channel
  closed,      \* whether the channel is closed
  workerPc,    \* where each worker is in its loop
  job,         \* the job each worker holds
  activeJobs,  \* the keys of WorkerPool.activeJobs
  cancelled,   \* jobs whose context is cancelled
  executed,    \* how many times Execute returned for each job
  killPc,      \* where each POST /kill handler is
  mainPc       \* where main is in its shutdown

callers == <<runPc, killPc, mainPc>>
channel == <<jobs, closed>>
contexts == <<activeJobs, cancelled>>
vars == <<runPc, jobs, closed, workerPc, job, activeJobs, cancelled, executed,
          killPc, mainPc>>

Executing(w) == workerPc[w] \in {"store", "exec"}

TypeOK ==
  /\ runPc \in [JobIDs -> {"new", "enqueue", "accepted", "aborted"}]
  /\ jobs \in Seq(JobIDs) /\ Len(jobs) <= Cap
  /\ closed \in BOOLEAN
  /\ workerPc \in [Workers -> {"recv", "store", "exec", "cancel", "delete", "exited"}]
  /\ job \in [Workers -> JobIDs \cup {NoJob}]
  /\ activeJobs \in SUBSET JobIDs
  /\ cancelled \in SUBSET JobIDs
  /\ executed \in [JobIDs -> Nat]
  /\ killPc \in [Killers -> {"new", "cancel", "delete", "done"}]
  /\ mainPc \in {"serving", "waiting", "stopped"}

Init ==
  /\ runPc = [j \in JobIDs |-> "new"]
  /\ jobs = <<>>
  /\ closed = FALSE
  /\ workerPc = [w \in Workers |-> "recv"]
  /\ job = [w \in Workers |-> NoJob]
  /\ activeJobs = {}
  /\ cancelled = {}
  /\ executed = [j \in JobIDs |-> 0]
  /\ killPc = [k \in Killers |-> "new"]
  /\ mainPc = "serving"
-----------------------------------------------------------------------------
(* POST /run. The HTTP server serves until main has returned from Stop, so  *)
(* a request may arrive, and block in Enqueue, while Stop waits.            *)

Submit(j) ==
  /\ runPc[j] = "new"
  /\ runPc' = [runPc EXCEPT ![j] = "enqueue"]
  /\ UNCHANGED <<channel, workerPc, job, contexts, executed, killPc, mainPc>>

\* Mutant: the channel has no bound.
EnqueueUnbounded(j) ==
  /\ runPc[j] = "enqueue"
  /\ ~closed
  /\ jobs' = Append(jobs, j)
  /\ runPc' = [runPc EXCEPT ![j] = "accepted"]
  /\ UNCHANGED <<closed, workerPc, job, contexts, executed, killPc, mainPc>>

\* Enqueue blocks while the channel is full; then the request is answered 202.
Enqueue(j) ==
  /\ runPc[j] = "enqueue"
  /\ ~closed /\ Len(jobs) < Cap
  /\ jobs' = Append(jobs, j)
  /\ runPc' = [runPc EXCEPT ![j] = "accepted"]
  /\ UNCHANGED <<closed, workerPc, job, contexts, executed, killPc, mainPc>>

\* A send on the closed channel panics, also one that was blocked when it was closed;
\* net/http recovers the handler's panic and drops the client's connection.
EnqueuePanic(j) ==
  /\ runPc[j] = "enqueue"
  /\ closed
  /\ runPc' = [runPc EXCEPT ![j] = "aborted"]
  /\ UNCHANGED <<channel, workerPc, job, contexts, executed, killPc, mainPc>>
-----------------------------------------------------------------------------
(* worker(w).                                                              *)

\* Mutant: reads the first job without taking it off the queue.
ReceivePeek(w) ==
  /\ workerPc[w] = "recv"
  /\ jobs # <<>>
  /\ job' = [job EXCEPT ![w] = Head(jobs)]
  /\ workerPc' = [workerPc EXCEPT ![w] = "store"]
  /\ UNCHANGED <<callers, channel, contexts, executed>>

Receive(w) ==
  /\ workerPc[w] = "recv"
  /\ jobs # <<>>
  /\ jobs' = Tail(jobs)
  /\ job' = [job EXCEPT ![w] = Head(jobs)]
  /\ workerPc' = [workerPc EXCEPT ![w] = "store"]
  /\ UNCHANGED <<callers, closed, contexts, executed>>

\* Mutant: the worker stops as soon as the channel is closed.
ExitOnClose(w) ==
  /\ workerPc[w] = "recv"
  /\ closed
  /\ workerPc' = [workerPc EXCEPT ![w] = "exited"]
  /\ UNCHANGED <<callers, channel, job, contexts, executed>>

\* The range loop ends once the channel is closed and drained.
Exit(w) ==
  /\ workerPc[w] = "recv"
  /\ closed /\ jobs = <<>>
  /\ workerPc' = [workerPc EXCEPT ![w] = "exited"]
  /\ UNCHANGED <<callers, channel, job, contexts, executed>>

Store(w) ==
  /\ workerPc[w] = "store"
  /\ activeJobs' = activeJobs \cup {job[w]}
  /\ workerPc' = [workerPc EXCEPT ![w] = "exec"]
  /\ UNCHANGED <<callers, channel, job, cancelled, executed>>

ExecuteReturns(w) ==
  /\ workerPc[w] = "exec"
  /\ job[w] \notin Stuck
  /\ job[w] \in Endless => job[w] \in cancelled
  /\ executed' = [executed EXCEPT ![job[w]] = @ + 1]
  /\ workerPc' = [workerPc EXCEPT ![w] = "cancel"]
  /\ UNCHANGED <<callers, channel, job, contexts>>

Cancel(w) ==
  /\ workerPc[w] = "cancel"
  /\ cancelled' = cancelled \cup {job[w]}
  /\ workerPc' = [workerPc EXCEPT ![w] = "delete"]
  /\ UNCHANGED <<callers, channel, job, activeJobs, executed>>

\* Mutant: leaves the cancel function of the finished job in the map.
DeleteNothing(w) ==
  /\ workerPc[w] = "delete"
  /\ job' = [job EXCEPT ![w] = NoJob]
  /\ workerPc' = [workerPc EXCEPT ![w] = "recv"]
  /\ UNCHANGED <<callers, channel, contexts, executed>>

Delete(w) ==
  /\ workerPc[w] = "delete"
  /\ activeJobs' = activeJobs \ {job[w]}
  /\ job' = [job EXCEPT ![w] = NoJob]
  /\ workerPc' = [workerPc EXCEPT ![w] = "recv"]
  /\ UNCHANGED <<callers, channel, cancelled, executed>>
-----------------------------------------------------------------------------
(* Kill. A client learns a job's id from the answer to its POST /run. The   *)
(* answer to POST /kill is the same whether the job was found or not.       *)

KillLoad(k) ==
  /\ killPc[k] = "new"
  /\ runPc[Target[k]] = "accepted"
  /\ killPc' = [killPc EXCEPT ![k] = IF Target[k] \in activeJobs THEN "cancel" ELSE "done"]
  /\ UNCHANGED <<runPc, mainPc, channel, workerPc, job, contexts, executed>>

\* Mutant: forgets the cancel function without calling it.
KillForget(k) ==
  /\ killPc[k] = "cancel"
  /\ killPc' = [killPc EXCEPT ![k] = "delete"]
  /\ UNCHANGED <<runPc, mainPc, channel, workerPc, job, contexts, executed>>

KillCancel(k) ==
  /\ killPc[k] = "cancel"
  /\ cancelled' = cancelled \cup {Target[k]}
  /\ killPc' = [killPc EXCEPT ![k] = "delete"]
  /\ UNCHANGED <<runPc, mainPc, channel, workerPc, job, activeJobs, executed>>

KillDelete(k) ==
  /\ killPc[k] = "delete"
  /\ activeJobs' = activeJobs \ {Target[k]}
  /\ killPc' = [killPc EXCEPT ![k] = "done"]
  /\ UNCHANGED <<runPc, mainPc, channel, workerPc, job, cancelled, executed>>
-----------------------------------------------------------------------------
(* Shutdown: on the signal main calls Stop, which closes the channel and    *)
(* waits for the workers.                                                  *)

\* Mutant: Stop waits without closing the channel.
StopOpen ==
  /\ mainPc = "serving"
  /\ mainPc' = "waiting"
  /\ UNCHANGED <<runPc, killPc, channel, workerPc, job, contexts, executed>>

StopClose ==
  /\ mainPc = "serving"
  /\ closed' = TRUE
  /\ mainPc' = "waiting"
  /\ UNCHANGED <<runPc, killPc, jobs, workerPc, job, contexts, executed>>

StopReturn ==
  /\ mainPc = "waiting"
  /\ \A w \in Workers : workerPc[w] = "exited"
  /\ mainPc' = "stopped"
  /\ UNCHANGED <<runPc, killPc, channel, workerPc, job, contexts, executed>>
-----------------------------------------------------------------------------
Handler(j) == Enqueue(j) \/ EnqueuePanic(j)

Worker(w) ==
  \/ Receive(w) \/ Exit(w) \/ Store(w) \/ ExecuteReturns(w) \/ Cancel(w) \/ Delete(w)

Kill(k) == KillCancel(k) \/ KillDelete(k)

Next ==
  \/ \E j \in JobIDs : Submit(j) \/ Handler(j)
  \/ \E w \in Workers : Worker(w)
  \/ \E k \in Killers : KillLoad(k) \/ Kill(k)
  \/ StopClose \/ StopReturn

Spec == Init /\ [][Next]_vars

(* Every goroutine that can take a step does. A blocked sender is served in *)
(* turn, since the channel keeps them in a queue: strong fairness. Nothing  *)
(* makes a client submit or kill a job, or the signal arrive.               *)
Fairness ==
  /\ \A j \in JobIDs : SF_vars(Handler(j))
  /\ \A w \in Workers : SF_vars(Worker(w))
  /\ \A k \in Killers : WF_vars(Kill(k))
  /\ WF_vars(StopReturn)

FairSpec == Spec /\ Fairness
-----------------------------------------------------------------------------
(* Properties.                                                             *)

Queued(j) == \E i \in 1..Len(jobs) : jobs[i] = j
Running(j) == \E w \in Workers : Executing(w) /\ job[w] = j

NoDuplicate == \A i, k \in 1..Len(jobs) : jobs[i] = jobs[k] => i = k

OneHolder == \A v, w \in Workers : job[v] = job[w] /\ job[v] # NoJob => v = w

Accounted ==
  \A j \in JobIDs :
    /\ runPc[j] = "accepted" <=> Queued(j) \/ Running(j) \/ executed[j] = 1
    /\ ~(Queued(j) /\ Running(j))
    /\ Queued(j) \/ Running(j) => executed[j] = 0
    /\ executed[j] <= 1

\* A job that POST /run answered 202 is in exactly one place: once in the channel, with
\* one worker, or executed once; and no other job is anywhere.
JobInOnePlace == NoDuplicate /\ OneHolder /\ Accounted

\* While a job executes, either its cancel function is in the map, where a POST /kill
\* finds it, or its context is cancelled: no kill takes the one without doing the other.
Killable ==
  \A w \in Workers : workerPc[w] = "exec" => job[w] \in activeJobs \cup cancelled

\* The map keeps no cancel function past the worker's cleanup, whatever the order of
\* that cleanup and of the kills of the same job.
NoStaleCancel ==
  \A j \in activeJobs :
    \E w \in Workers : job[w] = j /\ workerPc[w] \in {"exec", "cancel", "delete"}

\* When Stop returns every job that was answered 202 has been executed, those that were
\* still in the channel at the signal included, and no cancel function is left.
StopDrains ==
  mainPc = "stopped" =>
    /\ jobs = <<>> /\ activeJobs = {}
    /\ \A j \in JobIDs : runPc[j] = "accepted" => executed[j] = 1

\* While fewer jobs hang than there are workers, a request gets through: it is answered
\* or, at shutdown, cut off, and an accepted job is executed (one that hangs, started).
RequestServed ==
  Cardinality(Endless \cup Stuck) < Cardinality(Workers) =>
    \A j \in JobIDs :
      runPc[j] = "enqueue" ~>
        \/ runPc[j] = "aborted" \/ executed[j] = 1
        \/ j \in Endless \cup Stuck /\ Running(j)

\* A POST /kill that found the job ends it, even one that would never end by itself.
KillEnds ==
  \A k \in Killers :
    killPc[k] = "cancel" /\ Target[k] \notin Stuck ~> executed[Target[k]] = 1

\* Stop returns, unless a job that hangs was accepted before the channel was closed.
StopReturns ==
  mainPc = "waiting" /\ (\A j \in Endless \cup Stuck : runPc[j] # "accepted")
    ~> mainPc = "stopped"

\* main.go:129, "Give in-flight requests 30 seconds to complete": a POST /run that is
\* in flight when the signal arrives completes.
InFlightCompletes ==
  \A j \in JobIDs :
    [](runPc[j] = "enqueue" /\ mainPc = "serving" => [](runPc[j] # "aborted"))
-----------------------------------------------------------------------------
(* The inductive invariant behind the safety properties.                   *)

\* A worker holds a job from Receive to Delete, one that was executed from Cancel on.
HoldInv ==
  \A w \in Workers :
    /\ job[w] # NoJob <=> workerPc[w] \in {"store", "exec", "cancel", "delete"}
    /\ workerPc[w] \in {"cancel", "delete"} => executed[job[w]] = 1

\* A kill deletes an entry of the map only after it cancelled the context.
KillInv == \A k \in Killers : killPc[k] = "delete" => Target[k] \in cancelled

\* A worker exits only from a drained channel, and Stop returns only after all of them.
ExitInv ==
  /\ \A w \in Workers : workerPc[w] = "exited" => closed /\ jobs = <<>>
  /\ mainPc = "stopped" => \A w \in Workers : workerPc[w] = "exited"

IInv ==
  TypeOK /\ JobInOnePlace /\ HoldInv /\ KillInv /\ Killable /\ NoStaleCancel /\ ExitInv
=============================================================================
