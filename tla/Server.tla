-------------------------------- MODULE Server --------------------------------
(***************************************************************************)
(* The whole server process (cmd/server/main.go): the worker pool, the     *)
(* streams of output and the HTTP server, while they serve and in their    *)
(* graceful shutdown.                                                      *)
(*                                                                         *)
(* Pool is WorkerPool, without kills, which that module has. Stream is     *)
(* JobStream, which SessionManager is shown to implement: Publish, Deliver *)
(* and Join are its steps. What they lack, Session.mu and the clients that *)
(* do not read, is added here, since through it a client can hold a job,   *)
(* and a job its worker.                                                   *)
(***************************************************************************)
EXTENDS Naturals, Sequences, FiniteSets

CONSTANTS
  SessionIDs,
  JobIDs,      \* the jobs that POST /run submits
  SessionOf,   \* the session of each job
  Endless,     \* jobs whose command never ends
  Workers, Cap,
  Conns,       \* WebSocket clients
  Topic,       \* the job each of them asks for
  Stuck,       \* clients that may stop reading, for good
  Others,      \* requests to endpoints other than /run, /kill and /ws
  NoJob        \* no job; a free mutex

ASSUME Assumptions ==
  /\ SessionOf \in [JobIDs -> SessionIDs]
  /\ Topic \in [Conns -> JobIDs]
  /\ Endless \subseteq JobIDs
  /\ Stuck \subseteq Conns
  /\ Workers # {}
  /\ Conns \cap JobIDs = {} /\ NoJob \notin JobIDs \cup Conns
  /\ Cap \in Nat \ {0}

VARIABLES
  runPc, jobs, closed, workerPc, job, activeJobs, cancelled, executed, mainPc,
  log, view, status,
  sessions,  \* the keys of Manager.sessions
  mu,        \* who holds each Session.mu: a job's Send, a client's AddConnection
  stalled,   \* clients that stopped reading
  timer,     \* the 30 seconds of the shutdown's context
  http,      \* whether the HTTP server accepts requests
  others,    \* the other requests that are being handled
  proc       \* the process: "up", or how it ended

poolVars == <<runPc, jobs, closed, workerPc, job, activeJobs, cancelled, executed, mainPc>>
streamVars == <<log, view, status>>
sessionVars == <<sessions, mu, stalled>>
mainVars == <<timer, http, others, proc>>
vars == <<poolVars, streamVars, sessionVars, mainVars>>

Pool == INSTANCE WorkerPool
  WITH Killers <- {}, Target <- <<>>, killPc <- <<>>, Stuck <- {}

\* The output of a command is one message here, its end: Stream has the order of many.
Message == {"done"}
Stream == INSTANCE JobStream WITH topic <- Topic

Home(c) == SessionOf[Topic[c]]
Connected(c) == status[c] = "live" \/ mu[Home(c)] = c
Active == others \cup {j \in JobIDs : runPc[j] = "enqueue"}

TypeOK ==
  /\ Pool!TypeOK
  /\ log \in [JobIDs -> Seq(Message)]
  /\ view \in [Conns -> Seq(Message)]
  /\ status \in [Conns -> {"waiting", "live", "lost"}]
  /\ sessions \in SUBSET SessionIDs
  /\ mu \in [SessionIDs -> JobIDs \cup Conns \cup {NoJob}]
  /\ stalled \in SUBSET Conns
  /\ timer \in {"off", "ticking", "expired"}
  /\ http \in {"open", "closed"}
  /\ others \in SUBSET Others
  /\ proc \in {"up", "exited", "forced"}

Init ==
  /\ Pool!Init /\ Stream!Init
  /\ sessions = {}
  /\ mu = [s \in SessionIDs |-> NoJob]
  /\ stalled = {}
  /\ timer = "off" /\ http = "open"
  /\ others = {}
  /\ proc = "up"
-----------------------------------------------------------------------------
(* HTTP requests. The server accepts them until Shutdown, also while Stop   *)
(* waits for the workers.                                                   *)

Submit(j) ==
  /\ proc = "up" /\ http = "open"
  /\ Pool!Submit(j)
  /\ sessions' = sessions \cup {SessionOf[j]}
  /\ UNCHANGED <<streamVars, mu, stalled, mainVars>>

Handler(j) ==
  /\ proc = "up"
  /\ Pool!Handler(j)
  /\ UNCHANGED <<streamVars, sessionVars, mainVars>>

BeginOther(r) ==
  /\ proc = "up" /\ http = "open"
  /\ r \notin others
  /\ others' = others \cup {r}
  /\ UNCHANGED <<poolVars, streamVars, sessionVars, timer, http, proc>>

AnswerOther(r) ==
  /\ proc = "up"
  /\ r \in others
  /\ others' = others \ {r}
  /\ UNCHANGED <<poolVars, streamVars, sessionVars, timer, http, proc>>
-----------------------------------------------------------------------------
(* The jobs. A Send holds Session.mu until every client of the session that *)
(* is connected has taken the message.                                      *)

Ended(j) == log[j] # <<>>

Loop(w) ==
  /\ proc = "up"
  /\ Pool!Receive(w) \/ Pool!Exit(w) \/ Pool!Store(w) \/ Pool!Cancel(w) \/ Pool!Delete(w)
  /\ UNCHANGED <<streamVars, sessionVars, mainVars>>

\* Mutant: one mutex for the messages of all sessions.
SendAlone(w) ==
  /\ proc = "up" /\ workerPc[w] = "exec"
  /\ job[w] \notin Endless /\ ~Ended(job[w])
  /\ \A s \in SessionIDs : mu[s] = NoJob
  /\ mu' = [mu EXCEPT ![SessionOf[job[w]]] = job[w]]
  /\ Stream!Publish(job[w], "done")
  /\ UNCHANGED <<poolVars, sessions, stalled, mainVars>>

Send(w) ==
  /\ proc = "up" /\ workerPc[w] = "exec"
  /\ job[w] \notin Endless /\ ~Ended(job[w])
  /\ mu[SessionOf[job[w]]] = NoJob
  /\ mu' = [mu EXCEPT ![SessionOf[job[w]]] = job[w]]
  /\ Stream!Publish(job[w], "done")
  /\ UNCHANGED <<poolVars, sessions, stalled, mainVars>>

SendReturns(w) ==
  /\ proc = "up" /\ workerPc[w] = "exec"
  /\ mu[SessionOf[job[w]]] = job[w]
  /\ \A c \in Conns : status[c] = "live" /\ Home(c) = SessionOf[job[w]] =>
       c \notin stalled /\ (Topic[c] = job[w] => Stream!Complete(c))
  /\ mu' = [mu EXCEPT ![SessionOf[job[w]]] = NoJob]
  /\ UNCHANGED <<poolVars, streamVars, sessions, stalled, mainVars>>

ExecuteReturns(w) ==
  /\ proc = "up"
  /\ Pool!ExecuteReturns(w)
  /\ Ended(job[w]) /\ mu[SessionOf[job[w]]] # job[w]
  /\ UNCHANGED <<streamVars, sessionVars, mainVars>>

Worker(w) == Loop(w) \/ Send(w) \/ SendReturns(w) \/ ExecuteReturns(w)
-----------------------------------------------------------------------------
(* The WebSocket connections.                                               *)

\* AddConnection finds the session and takes its mutex.
Connect(c) ==
  /\ proc = "up" /\ http = "open"
  /\ status[c] = "waiting" /\ Home(c) \in sessions
  /\ mu[Home(c)] = NoJob
  /\ mu' = [mu EXCEPT ![Home(c)] = c]
  /\ UNCHANGED <<poolVars, streamVars, sessions, stalled, mainVars>>

\* No POST /run of the session since the process started: the connection is closed.
Reject(c) ==
  /\ proc = "up" /\ http = "open"
  /\ status[c] = "waiting" /\ Home(c) \notin sessions
  /\ Stream!Drop(c)
  /\ UNCHANGED <<poolVars, sessionVars, mainVars>>

\* One write to c, by the Send of its job or by its own flush.
Deliver(c) ==
  /\ proc = "up"
  /\ \/ mu[Home(c)] = c
     \/ mu[Home(c)] = Topic[c] /\ status[c] = "live"
  /\ c \notin stalled
  /\ Stream!Deliver(c)
  /\ UNCHANGED <<poolVars, sessionVars, mainVars>>

\* The history is flushed: c is registered, in the place of a client of the same job.
Join(c) ==
  /\ proc = "up"
  /\ mu[Home(c)] = c
  /\ Stream!Join(c)
  /\ \A d \in Conns \ {c} :
       status'[d] = IF status[d] = "live" /\ Topic[d] = Topic[c] THEN "lost" ELSE status[d]
  /\ mu' = [mu EXCEPT ![Home(c)] = NoJob]
  /\ UNCHANGED <<poolVars, sessions, stalled, mainVars>>

Stall(c) ==
  /\ proc = "up" /\ c \in Stuck /\ Connected(c) /\ c \notin stalled
  /\ stalled' = stalled \cup {c}
  /\ UNCHANGED <<poolVars, streamVars, sessions, mu, mainVars>>

\* The client goes away; a write to it fails.
Leave(c) ==
  /\ proc = "up" /\ Connected(c)
  /\ Stream!Drop(c)
  /\ stalled' = stalled \ {c}
  /\ mu' = [mu EXCEPT ![Home(c)] = IF @ = c THEN NoJob ELSE @]
  /\ UNCHANGED <<poolVars, sessions, mainVars>>
-----------------------------------------------------------------------------
(* main.                                                                    *)

\* The 30 seconds start with the signal, before the channel is closed.
Signal ==
  /\ proc = "up"
  /\ Pool!StopClose
  /\ timer' = "ticking"
  /\ UNCHANGED <<streamVars, sessionVars, http, others, proc>>

Expire ==
  /\ proc = "up" /\ timer = "ticking"
  /\ timer' = "expired"
  /\ UNCHANGED <<poolVars, streamVars, sessionVars, http, others, proc>>

\* Mutant: Stop closes the channel and does not wait for the workers.
StopReturnAtOnce ==
  /\ proc = "up" /\ mainPc = "waiting"
  /\ mainPc' = "stopped"
  /\ UNCHANGED <<runPc, jobs, closed, workerPc, job, activeJobs, cancelled, executed>>
  /\ UNCHANGED <<streamVars, sessionVars, mainVars>>

StopReturn ==
  /\ proc = "up"
  /\ Pool!StopReturn
  /\ UNCHANGED <<streamVars, sessionVars, mainVars>>

\* Shutdown closes the listener, and waits for the requests that are active; WebSocket
\* connections are hijacked and do not count.
Shutdown ==
  /\ proc = "up" /\ mainPc = "stopped" /\ http = "open"
  /\ http' = "closed"
  /\ UNCHANGED <<poolVars, streamVars, sessionVars, timer, others, proc>>

Exit ==
  /\ proc = "up" /\ http = "closed" /\ Active = {}
  /\ proc' = "exited"
  /\ UNCHANGED <<poolVars, streamVars, sessionVars, timer, http, others>>

\* log.Fatalf, with requests active.
Forced ==
  /\ proc = "up" /\ http = "closed" /\ Active # {} /\ timer = "expired"
  /\ proc' = "forced"
  /\ UNCHANGED <<poolVars, streamVars, sessionVars, timer, http, others>>

Main == StopReturn \/ Shutdown \/ Exit \/ Forced
-----------------------------------------------------------------------------
Next ==
  \/ \E j \in JobIDs : Submit(j) \/ Handler(j)
  \/ \E r \in Others : BeginOther(r) \/ AnswerOther(r)
  \/ \E w \in Workers : Worker(w)
  \/ \E c \in Conns : \/ Connect(c) \/ Reject(c) \/ Deliver(c) \/ Join(c)
                      \/ Stall(c) \/ Leave(c)
  \/ Signal \/ Expire \/ Main

Spec == Init /\ [][Next]_vars

(* Every goroutine that can take a step does: handlers and workers, and the *)
(* writes to a client that reads. A command outside Endless ends; requests  *)
(* to other endpoints may take for ever. Time passes.                       *)
Fairness ==
  /\ \A j \in JobIDs : WF_vars(Handler(j))
  /\ \A w \in Workers : WF_vars(Worker(w))
  /\ \A c \in Conns : WF_vars(Deliver(c) \/ Join(c))
  /\ WF_vars(Main) /\ WF_vars(Expire)

FairSpec == Spec /\ Fairness
-----------------------------------------------------------------------------
(* Properties.                                                             *)

\* Every worker executes a job whose command never ends, or one of a session one of whose
\* clients stopped reading.
AllHeld ==
  \A w \in Workers :
    /\ workerPc[w] = "exec"
    /\ job[w] \in Endless \/ \E c \in stalled : Home(c) = SessionOf[job[w]]

\* When the process ends by its shutdown, forced or not, every job that was answered 202
\* has run, and every client registered then has the whole output of its job, with its
\* end: Stop comes before Shutdown, and Send returns only when its writes have.
NothingCutOff ==
  proc \in {"exited", "forced"} =>
    /\ \A j \in JobIDs : runPc[j] = "accepted" => Ended(j)
    /\ \A c \in Conns : status[c] = "live" => Stream!Complete(c)

\* A connected client whose job was answered 202, and ends, gets the end of its output,
\* also while a client of another session that stopped reading holds its job's worker,
\* and a command that never ends another, unless such clients and commands hold all the
\* workers, it goes away itself, or the process ends.
HearsTheEnd ==
  \A c \in Conns :
    Topic[c] \notin Endless /\ (\A d \in Stuck : Home(d) # Home(c)) =>
      <>[]AllHeld \/
      (Connected(c) /\ runPc[Topic[c]] = "accepted"
         ~> view[c] # <<>> \/ status[c] = "lost" \/ proc # "up")

\* After the signal the process ends, although requests to other endpoints may never, unless
\* a command that never ends was accepted before the channel was closed, or a client stops
\* reading for good. It may take any time: the 30 seconds limit Shutdown, but not Stop, which
\* waits for every job that runs or is queued.
ShutdownEnds ==
  \/ <>[](stalled # {})
  \/ timer # "off" /\ (\A j \in Endless : runPc[j] # "accepted") ~> proc # "up"
-----------------------------------------------------------------------------
(* The inductive invariant behind NothingCutOff; Pool!IInv is that of the   *)
(* worker pool.                                                             *)

\* main stops the pool before it shuts the HTTP server down, and exits after that.
MainInv ==
  /\ http = "closed" => mainPc = "stopped"
  /\ proc # "up" => http = "closed"

\* A job that was executed has sent its end.
SentInv == \A j \in JobIDs : executed[j] > 0 => Ended(j)

\* Session.mu is held by a Send of a job that a worker executes, or by the AddConnection
\* of a client that found the session and is not registered yet.
LockInv ==
  \A s \in SessionIDs :
    /\ \A j \in JobIDs : mu[s] = j =>
         SessionOf[j] = s /\ \E w \in Workers : workerPc[w] = "exec" /\ job[w] = j
    /\ \A c \in Conns : mu[s] = c =>
         Home(c) = s /\ s \in sessions /\ status[c] = "waiting"

\* A registered client misses a message only while the Send of its job holds the mutex.
LiveInv ==
  \A c \in Conns : status[c] = "live" /\ ~Stream!Complete(c) => mu[Home(c)] = Topic[c]

IInv == Pool!IInv /\ TypeOK /\ MainInv /\ SentInv /\ LockInv /\ LiveInv
=============================================================================
