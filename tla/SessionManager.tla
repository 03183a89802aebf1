--------------------------- MODULE SessionManager ---------------------------
(***************************************************************************)
(* The session manager (internal/session/manager.go) with the goroutines   *)
(* that call it: the executor's goroutines, which Send a job's output, and *)
(* one WebSocket handler per client connection (handler/websocket.go).     *)
(*                                                                         *)
(* Grain of atomicity.  Manager.mu only guards the map of sessions and is  *)
(* never held across a blocking call: a critical section of it is one      *)
(* step.  Session.mu is held across network writes, which block while the  *)
(* client does not read: taking it, each write, and releasing it are steps *)
(* of their own.  Manager.Remove and Manager.ClearBuffer have no caller in *)
(* the program and are no steps of it.                                     *)
(***************************************************************************)
EXTENDS Naturals, Sequences, FiniteSets

CONSTANTS
  SessionIDs,  \* the session ids that clients use
  JobIDs,      \* the jobs that POST /run submits
  SessionOf,   \* the session of each job
  Senders,     \* goroutines of the executor that call Send
  JobOf,       \* the job each of them runs for
  Conns,       \* WebSocket connections, each with its handler goroutine
  Requests,    \* the session and job ids that connections ask for
  NoJob,       \* the job_id "" of a connection that names no job
  Nil,         \* a free lock, an absent connection
  Stuck,       \* connections whose client may stop reading for good
  MaxSends     \* bound: messages each sender sends

ASSUME Assumptions ==
  /\ SessionOf \in [JobIDs -> SessionIDs]
  /\ JobOf \in [Senders -> JobIDs]
  /\ NoJob \notin JobIDs
  /\ Requests \subseteq [sid : SessionIDs, job : JobIDs \cup {NoJob}]
  /\ Stuck \subseteq Conns
  /\ Senders \cap Conns = {}
  /\ Nil \notin Senders \cup Conns
  /\ MaxSends \in Nat

VARIABLES
  runPc,       \* the POST /run handler of each job
  sessions,    \* the keys of Manager.sessions
  mu,          \* the holder of each Session.mu
  conns,       \* Session.conns: job id -> connection
  jobBuffers,  \* Session.jobBuffers: job id -> messages sent so far
  sendPc,      \* where each sender is in Send
  sent,        \* how many Sends each sender began
  todo,        \* connections the sender's loop over conns has still to visit
  wsPc,        \* where each WebSocket handler is
  req,         \* the query parameters of each connection
  sock,        \* the state of each socket
  wire         \* what was written to each socket, by job (clients filter by job id)

serverVars == <<runPc, sessions, mu, conns, jobBuffers>>
senderVars == <<sendPc, sent, todo>>
vars == <<runPc, sessions, mu, conns, jobBuffers, sendPc, sent, todo,
          wsPc, req, sock, wire>>

Keys == JobIDs \cup {NoJob}
Procs == Senders \cup Conns
Message == [from : Senders, n : 0..MaxSends]

Home(g) == SessionOf[JobOf[g]]
Sid(c) == req[c].sid
Key(c) == req[c].job

Registered(c) == conns[Sid(c)][Key(c)] = c

TypeOK ==
  /\ runPc \in [JobIDs -> {"new", "created", "queued"}]
  /\ sessions \in SUBSET SessionIDs
  /\ mu \in [SessionIDs -> Procs \cup {Nil}]
  /\ conns \in [SessionIDs -> [Keys -> Conns \cup {Nil}]]
  /\ jobBuffers \in [SessionIDs -> [JobIDs -> Seq(Message)]]
  /\ sendPc \in [Senders -> {"idle", "lock", "write"}]
  /\ sent \in [Senders -> 0..MaxSends]
  /\ todo \in [Senders -> SUBSET Conns]
  /\ wsPc \in [Conns -> {"new", "lookup", "reject", "lock", "flush", "read", "remove", "done"}]
  /\ req \in [Conns -> Requests]
  /\ sock \in [Conns -> {"none", "open", "stalled", "gone", "closed"}]
  /\ wire \in [Conns -> [JobIDs -> Seq(Message)]]

Init ==
  /\ runPc = [j \in JobIDs |-> "new"]
  /\ sessions = {}
  /\ mu = [s \in SessionIDs |-> Nil]
  /\ conns = [s \in SessionIDs |-> [k \in Keys |-> Nil]]
  /\ jobBuffers = [s \in SessionIDs |-> [j \in JobIDs |-> <<>>]]
  /\ sendPc = [g \in Senders |-> "idle"]
  /\ sent = [g \in Senders |-> 0]
  /\ todo = [g \in Senders |-> {}]
  /\ wsPc = [c \in Conns |-> "new"]
  /\ req \in [Conns -> Requests]
  /\ sock = [c \in Conns |-> "none"]
  /\ wire = [c \in Conns |-> [j \in JobIDs |-> <<>>]]
-----------------------------------------------------------------------------
(* POST /run: the session is created before the job is queued, and the     *)
(* goroutines of a job exist only once it is queued.                       *)

GetOrCreate(j) ==
  /\ runPc[j] = "new"
  /\ runPc' = [runPc EXCEPT ![j] = "created"]
  /\ sessions' = sessions \cup {SessionOf[j]}
  /\ UNCHANGED <<mu, conns, jobBuffers, senderVars, wsPc, req, sock, wire>>

\* Mutant: the job is queued before its session exists.
EnqueueFirst(j) ==
  /\ runPc[j] \in {"new", "created"}
  /\ runPc' = [runPc EXCEPT ![j] = "queued"]
  /\ UNCHANGED <<sessions, mu, conns, jobBuffers, senderVars, wsPc, req, sock, wire>>

Enqueue(j) ==
  /\ runPc[j] = "created"
  /\ runPc' = [runPc EXCEPT ![j] = "queued"]
  /\ UNCHANGED <<sessions, mu, conns, jobBuffers, senderVars, wsPc, req, sock, wire>>
-----------------------------------------------------------------------------
(* A socket write succeeds on an open connection and blocks on a stalled   *)
(* one. Once the peer is gone the kernel may still take it, or refuse; the *)
(* library refuses every write after the first that failed, and after      *)
(* Close.                                                                  *)

WriteOK(c) == sock[c] \in {"open", "gone"}
WriteError(c) == sock[c] \in {"gone", "closed"}

Put(c, j, m) == wire' = [wire EXCEPT ![c][j] = Append(@, m)]
-----------------------------------------------------------------------------
(* Manager.Send, called by sender g for its job.                           *)

\* Looks the session up under Manager.mu; a message for an unknown session is dropped.
SendLookup(g) ==
  /\ sendPc[g] = "idle"
  /\ runPc[JobOf[g]] = "queued"
  /\ sent[g] < MaxSends
  /\ sent' = [sent EXCEPT ![g] = @ + 1]
  /\ sendPc' = [sendPc EXCEPT ![g] = IF Home(g) \in sessions THEN "lock" ELSE "idle"]
  /\ UNCHANGED <<serverVars, todo, wsPc, req, sock, wire>>

\* Mutant: takes a read lock, which does not exclude another Send.
SendLockShared(g) ==
  /\ sendPc[g] = "lock"
  /\ mu[Home(g)] \notin Conns
  /\ mu' = [mu EXCEPT ![Home(g)] = g]
  /\ jobBuffers' = [jobBuffers EXCEPT ![Home(g)][JobOf[g]] =
                      Append(@, [from |-> g, n |-> sent[g]])]
  /\ todo' = [todo EXCEPT ![g] = {c \in Conns : \E k \in Keys : conns[Home(g)][k] = c}]
  /\ sendPc' = [sendPc EXCEPT ![g] = "write"]
  /\ UNCHANGED <<runPc, sessions, conns, sent, wsPc, req, sock, wire>>

\* Mutant: releases Session.mu once the message is buffered, before the writes.
SendLockBufferOnly(g) ==
  /\ sendPc[g] = "lock"
  /\ mu[Home(g)] = Nil
  /\ jobBuffers' = [jobBuffers EXCEPT ![Home(g)][JobOf[g]] =
                      Append(@, [from |-> g, n |-> sent[g]])]
  /\ todo' = [todo EXCEPT ![g] = {c \in Conns : \E k \in Keys : conns[Home(g)][k] = c}]
  /\ sendPc' = [sendPc EXCEPT ![g] = "write"]
  /\ UNCHANGED <<runPc, sessions, mu, conns, sent, wsPc, req, sock, wire>>

\* Mutant: buffers the message without its sender's position.
SendLockBare(g) ==
  /\ sendPc[g] = "lock"
  /\ mu[Home(g)] = Nil
  /\ mu' = [mu EXCEPT ![Home(g)] = g]
  /\ jobBuffers' = [jobBuffers EXCEPT ![Home(g)][JobOf[g]] = Append(@, g)]
  /\ todo' = [todo EXCEPT ![g] = {c \in Conns : \E k \in Keys : conns[Home(g)][k] = c}]
  /\ sendPc' = [sendPc EXCEPT ![g] = "write"]
  /\ UNCHANGED <<runPc, sessions, conns, sent, wsPc, req, sock, wire>>

\* Takes Session.mu, buffers the message, and starts the loop over the connections.
SendLock(g) ==
  /\ sendPc[g] = "lock"
  /\ mu[Home(g)] = Nil
  /\ mu' = [mu EXCEPT ![Home(g)] = g]
  /\ jobBuffers' = [jobBuffers EXCEPT ![Home(g)][JobOf[g]] =
                      Append(@, [from |-> g, n |-> sent[g]])]
  /\ todo' = [todo EXCEPT ![g] = {c \in Conns : \E k \in Keys : conns[Home(g)][k] = c}]
  /\ sendPc' = [sendPc EXCEPT ![g] = "write"]
  /\ UNCHANGED <<runPc, sessions, conns, sent, wsPc, req, sock, wire>>

\* Writes to one connection of the loop.
SendWrite(g, c) ==
  /\ sendPc[g] = "write" /\ c \in todo[g]
  /\ WriteOK(c)
  /\ Put(c, JobOf[g], [from |-> g, n |-> sent[g]])
  /\ todo' = [todo EXCEPT ![g] = @ \ {c}]
  /\ UNCHANGED <<serverVars, sendPc, sent, wsPc, req, sock>>

\* Mutant: the loop stops at the first connection that fails.
SendFailBreak(g, c) ==
  /\ sendPc[g] = "write" /\ c \in todo[g]
  /\ WriteError(c)
  /\ sock' = [sock EXCEPT ![c] = "closed"]
  /\ todo' = [todo EXCEPT ![g] = {}]
  /\ UNCHANGED <<serverVars, sendPc, sent, wsPc, req, wire>>

\* The write fails: the connection is closed, and stays in the map.
SendFail(g, c) ==
  /\ sendPc[g] = "write" /\ c \in todo[g]
  /\ WriteError(c)
  /\ sock' = [sock EXCEPT ![c] = "closed"]
  /\ todo' = [todo EXCEPT ![g] = @ \ {c}]
  /\ UNCHANGED <<serverVars, sendPc, sent, wsPc, req, wire>>

SendUnlock(g) ==
  /\ sendPc[g] = "write" /\ todo[g] = {}
  /\ mu' = [mu EXCEPT ![Home(g)] = Nil]
  /\ sendPc' = [sendPc EXCEPT ![g] = "idle"]
  /\ UNCHANGED <<runPc, sessions, conns, jobBuffers, sent, todo, wsPc, req, sock, wire>>
-----------------------------------------------------------------------------
(* WSHandler.Handle for connection c: upgrade, AddConnection, the read     *)
(* loop, RemoveConnection.                                                 *)

Upgrade(c) ==
  /\ wsPc[c] = "new"
  /\ wsPc' = [wsPc EXCEPT ![c] = "lookup"]
  /\ sock' = [sock EXCEPT ![c] = "open"]
  /\ UNCHANGED <<serverVars, senderVars, req, wire>>

\* AddConnection finds no session.
AddReject(c) ==
  /\ wsPc[c] = "lookup" /\ Sid(c) \notin sessions
  /\ wsPc' = [wsPc EXCEPT ![c] = "reject"]
  /\ UNCHANGED <<serverVars, senderVars, req, sock, wire>>

\* The handler writes that to the client, which must read it, and closes the connection.
Reject(c) ==
  /\ wsPc[c] = "reject" /\ sock[c] # "stalled"
  /\ wsPc' = [wsPc EXCEPT ![c] = "done"]
  /\ sock' = [sock EXCEPT ![c] = "closed"]
  /\ UNCHANGED <<serverVars, senderVars, req, wire>>

AddLookup(c) ==
  /\ wsPc[c] = "lookup" /\ Sid(c) \in sessions
  /\ wsPc' = [wsPc EXCEPT ![c] = "lock"]
  /\ UNCHANGED <<serverVars, senderVars, req, sock, wire>>

AddLock(c) ==
  /\ wsPc[c] = "lock"
  /\ mu[Sid(c)] = Nil
  /\ mu' = [mu EXCEPT ![Sid(c)] = c]
  /\ wsPc' = [wsPc EXCEPT ![c] = "flush"]
  /\ UNCHANGED <<runPc, sessions, conns, jobBuffers, senderVars, req, sock, wire>>

\* The part of the requested job's buffer not yet written to c.
FlushPending(c) ==
  /\ Key(c) \in JobIDs
  /\ Len(wire[c][Key(c)]) < Len(jobBuffers[Sid(c)][Key(c)])

FlushWrite(c) ==
  /\ wsPc[c] = "flush" /\ FlushPending(c)
  /\ WriteOK(c)
  /\ Put(c, Key(c), jobBuffers[Sid(c)][Key(c)][Len(wire[c][Key(c)]) + 1])
  /\ UNCHANGED <<serverVars, senderVars, wsPc, req, sock>>

\* Mutant: registers the connection although its flush failed.
FlushFailRegisters(c) ==
  /\ wsPc[c] = "flush" /\ FlushPending(c)
  /\ WriteError(c)
  /\ conns' = [conns EXCEPT ![Sid(c)][Key(c)] = c]
  /\ mu' = [mu EXCEPT ![Sid(c)] = Nil]
  /\ wsPc' = [wsPc EXCEPT ![c] = "read"]
  /\ UNCHANGED <<runPc, sessions, jobBuffers, senderVars, req, sock, wire>>

\* A failed write ends AddConnection: c is neither registered nor closed.
FlushFail(c) ==
  /\ wsPc[c] = "flush" /\ FlushPending(c)
  /\ WriteError(c)
  /\ mu' = [mu EXCEPT ![Sid(c)] = Nil]
  /\ wsPc' = [wsPc EXCEPT ![c] = "read"]
  /\ UNCHANGED <<runPc, sessions, conns, jobBuffers, senderVars, req, sock, wire>>

\* Mutant: registers before the history is flushed.
RegisterEarly(c) ==
  /\ wsPc[c] = "flush"
  /\ conns' = [conns EXCEPT ![Sid(c)][Key(c)] = c]
  /\ mu' = [mu EXCEPT ![Sid(c)] = Nil]
  /\ wsPc' = [wsPc EXCEPT ![c] = "read"]
  /\ UNCHANGED <<runPc, sessions, jobBuffers, senderVars, req, sock, wire>>

\* Mutant: returns without releasing Session.mu.
RegisterHolds(c) ==
  /\ wsPc[c] = "flush" /\ ~FlushPending(c)
  /\ conns' = [conns EXCEPT ![Sid(c)][Key(c)] = c]
  /\ wsPc' = [wsPc EXCEPT ![c] = "read"]
  /\ UNCHANGED <<runPc, sessions, mu, jobBuffers, senderVars, req, sock, wire>>

\* A connection with the same job id is overwritten.
Register(c) ==
  /\ wsPc[c] = "flush" /\ ~FlushPending(c)
  /\ conns' = [conns EXCEPT ![Sid(c)][Key(c)] = c]
  /\ mu' = [mu EXCEPT ![Sid(c)] = Nil]
  /\ wsPc' = [wsPc EXCEPT ![c] = "read"]
  /\ UNCHANGED <<runPc, sessions, jobBuffers, senderVars, req, sock, wire>>

\* ReadMessage returns an error once the peer is gone or Send has closed the connection.
ReadError(c) ==
  /\ wsPc[c] = "read"
  /\ sock[c] \in {"gone", "closed"}
  /\ wsPc' = [wsPc EXCEPT ![c] = "remove"]
  /\ UNCHANGED <<serverVars, senderVars, req, sock, wire>>

\* Mutant: deletes the entry of c's job id, whichever connection holds it.
RemoveByKey(c) ==
  /\ wsPc[c] = "remove"
  /\ mu[Sid(c)] = Nil
  /\ conns' = [conns EXCEPT ![Sid(c)][Key(c)] = Nil]
  /\ wsPc' = [wsPc EXCEPT ![c] = "done"]
  /\ UNCHANGED <<runPc, sessions, mu, jobBuffers, senderVars, req, sock, wire>>

\* Mutant: looks for c under the empty job id only.
RemoveUnnamed(c) ==
  /\ wsPc[c] = "remove"
  /\ mu[Sid(c)] = Nil
  /\ conns' = [conns EXCEPT ![Sid(c)][NoJob] = IF @ = c THEN Nil ELSE @]
  /\ wsPc' = [wsPc EXCEPT ![c] = "done"]
  /\ UNCHANGED <<runPc, sessions, mu, jobBuffers, senderVars, req, sock, wire>>

\* RemoveConnection deletes the entry that holds c itself, if there is one.
RemoveConnection(c) ==
  /\ wsPc[c] = "remove"
  /\ mu[Sid(c)] = Nil
  /\ conns' = [conns EXCEPT ![Sid(c)] = [k \in Keys |-> IF @[k] = c THEN Nil ELSE @[k]]]
  /\ wsPc' = [wsPc EXCEPT ![c] = "done"]
  /\ UNCHANGED <<runPc, sessions, mu, jobBuffers, senderVars, req, sock, wire>>
-----------------------------------------------------------------------------
(* The client: it may stop reading, read again, or go away, at any time.   *)

Stall(c) ==
  /\ sock[c] = "open"
  /\ sock' = [sock EXCEPT ![c] = "stalled"]
  /\ UNCHANGED <<serverVars, senderVars, wsPc, req, wire>>

Resume(c) ==
  /\ sock[c] = "stalled"
  /\ sock' = [sock EXCEPT ![c] = "open"]
  /\ UNCHANGED <<serverVars, senderVars, wsPc, req, wire>>

Leave(c) ==
  /\ sock[c] \in {"open", "stalled"}
  /\ sock' = [sock EXCEPT ![c] = "gone"]
  /\ UNCHANGED <<serverVars, senderVars, wsPc, req, wire>>

Client(c) == Stall(c) \/ Resume(c) \/ Leave(c)

Terminated ==
  /\ \A j \in JobIDs : runPc[j] = "queued"
  /\ \A g \in Senders : sendPc[g] = "idle" /\ sent[g] = MaxSends
  /\ \A c \in Conns : wsPc[c] = "done"
  /\ UNCHANGED vars

SendRun(g) ==
  \/ SendLock(g) \/ SendUnlock(g)
  \/ \E c \in Conns : SendWrite(g, c) \/ SendFail(g, c)

AddConnection(c) ==
  AddReject(c) \/ AddLookup(c) \/ AddLock(c) \/ FlushWrite(c) \/ FlushFail(c) \/ Register(c)

HandleRun(c) == AddConnection(c) \/ Reject(c) \/ ReadError(c) \/ RemoveConnection(c)

Next ==
  \/ \E j \in JobIDs : GetOrCreate(j) \/ Enqueue(j)
  \/ \E g \in Senders : SendLookup(g) \/ SendRun(g)
  \/ \E c \in Conns : Upgrade(c) \/ HandleRun(c) \/ Client(c)
  \/ Terminated

Spec == Init /\ [][Next]_vars

(* Fairness, of each goroutine that is inside a call. A goroutine that can  *)
(* run does. A mutex whose holders release it is had by every waiter in     *)
(* turn (sync.Mutex hands it over once a waiter has starved for 1 ms), and  *)
(* a blocked write completes when its client reads again and again: hence   *)
(* strong fairness. A goroutine is at one place at a time, so that fairness *)
(* of all it does is fairness of each step. None is assumed of the commands *)
(* that produce output, nor of clients, but that those outside Stuck do not *)
(* stop reading for good while they keep their socket open.                 *)
Fairness ==
  /\ \A g \in Senders : SF_vars(SendRun(g))
  /\ \A c \in Conns : SF_vars(HandleRun(c))
  /\ \A c \in Conns \ Stuck : WF_vars(Resume(c))

FairSpec == Spec /\ Fairness
-----------------------------------------------------------------------------
(* Properties.                                                             *)

\* p is inside WriteMessage on c, or about to enter it, with Session.mu held.
Writing(p, c) ==
  \/ p \in Senders /\ sendPc[p] = "write" /\ c \in todo[p]
  \/ p = c /\ wsPc[c] = "flush"

\* At most one goroutine at a time writes to a connection: the WebSocket library
\* panics on concurrent writers, and Send runs in goroutines that nothing recovers.
SingleWriter ==
  \A c \in Conns : \A p, q \in Procs : Writing(p, c) /\ Writing(q, c) => p = q

IsPrefix(s, t) == Len(s) <= Len(t) /\ \A i \in 1..Len(s) : s[i] = t[i]

\* A client that asked for a job has received a prefix of its messages: whatever the
\* interleaving of the flush with Send, none is skipped, repeated or out of order.
Replay ==
  \A c \in Conns : Key(c) \in JobIDs =>
    IsPrefix(wire[c][Key(c)], jobBuffers[Sid(c)][Key(c)])

\* Once registered, and while its socket takes writes, it has received all of them,
\* but for the one a Send in progress has still to write to it.
CaughtUp ==
  \A c \in Conns :
    /\ Key(c) \in JobIDs /\ Registered(c) /\ sock[c] # "closed"
    /\ \A g \in Senders : ~Writing(g, c)
    => wire[c][Key(c)] = jobBuffers[Sid(c)][Key(c)]

\* Of the session's other jobs, which Send broadcasts to it too, a client receives an
\* unbroken run of messages: registration and removal are the only edges.
Contiguous ==
  \A c \in Conns, j \in JobIDs :
    LET log == jobBuffers[Sid(c)][j]
        got == wire[c][j]
    IN  \E off \in 0..(Len(log) - Len(got)) :
          \A i \in 1..Len(got) : got[i] = log[off + i]

\* buffer has the messages 1 to n of sender g, each once and in this order.
HasAll(buffer, g, n) ==
  LET own == {i \in 1..Len(buffer) : buffer[i].from = g}
  IN  /\ {buffer[i].n : i \in own} = 1..n
      /\ \A i, k \in own : i < k => buffer[i].n < buffer[k].n

\* Every Send that returned has its message in the job's buffer, in the order of the
\* sender's calls: POST /run created the session before any goroutine could send.
NoSendLost ==
  \A g \in Senders : sendPc[g] = "idle" => HasAll(jobBuffers[Home(g)][JobOf[g]], g, sent[g])

\* A connection leaves the map only in its own RemoveConnection, or when a connection
\* with the same session and job id takes its place: the removal of a replaced
\* connection never takes out the one that replaced it.
OnlyReplacedOrRemoved ==
  [][\A c \in Conns : Registered(c) /\ ~Registered(c)' =>
       \/ wsPc[c] = "remove"
       \/ \E d \in Conns \ {c} : req[d] = req[c] /\ wsPc[d] = "flush"]_vars

\* manager.go:101, "Send broadcasts a message to all connected WebSocket clients for a
\* session": a client whose handler reads and whose socket is open is in the map that
\* Send ranges over.
BroadcastReachesAll ==
  \A c \in Conns : wsPc[c] = "read" /\ sock[c] = "open" => Registered(c)

\* Every client of session s that stops reading reads again, or goes away.
NoneStuck(s) == \A c \in Stuck : Sid(c) # s

\* Send holds Session.mu across writes that have no deadline, yet only the clients of
\* the same session can keep it from returning.
SendReturns ==
  \A g \in Senders :
    sendPc[g] = "lock" /\ NoneStuck(Home(g)) ~> sendPc[g] = "idle"

\* A connection whose peer is gone, or that a failed Send closed, leaves the map, and
\* its handler ends, even when it is lost between the upgrade and its registration.
DeadConnForgotten ==
  \A c \in Conns :
    sock[c] \in {"gone", "closed"} /\ NoneStuck(Sid(c))
      ~> wsPc[c] = "done" /\ ~Registered(c)

\* The manager implements JobStream: the log of a job is its buffer; a connection waits
\* until AddConnection returns, and is live while it is registered and not closed.
Topic(c) == IF Key(c) \in JobIDs /\ SessionOf[Key(c)] = Sid(c) THEN Key(c) ELSE NoJob

Status(c) ==
  IF wsPc[c] \in {"new", "lookup", "lock", "flush"} THEN "waiting"
  ELSE IF Registered(c) /\ sock[c] # "closed" THEN "live" ELSE "lost"

JobLog == [j \in JobIDs |-> jobBuffers[SessionOf[j]][j]]
TopicOf == [c \in Conns |-> Topic(c)]
ViewOf == [c \in Conns |-> IF Topic(c) = NoJob THEN <<>> ELSE wire[c][Key(c)]]
StatusOf == [c \in Conns |-> Status(c)]

Stream == INSTANCE JobStream WITH
  log <- JobLog, topic <- TopicOf, view <- ViewOf, status <- StatusOf

ImplementsJobStream == Stream!Spec
-----------------------------------------------------------------------------
(* The inductive invariant behind the safety properties.                   *)

\* Session.mu is held exactly by the goroutine that is inside its critical section.
LockInv ==
  \A s \in SessionIDs :
    /\ \A g \in Senders : mu[s] = g <=> sendPc[g] = "write" /\ Home(g) = s
    /\ \A c \in Conns : mu[s] = c <=> wsPc[c] = "flush" /\ Sid(c) = s

\* A connection is in the map only under its own ids, and only in its read loop; the
\* connections a Send has still to visit are in the map of its session.
RegInv ==
  /\ \A c \in Conns, s \in SessionIDs, k \in Keys :
       conns[s][k] = c => s = Sid(c) /\ k = Key(c) /\ wsPc[c] \in {"read", "remove"}
  /\ \A g \in Senders, c \in Conns :
       c \in todo[g] => sendPc[g] = "write" /\ Sid(c) = Home(g) /\ Registered(c)

\* Until AddConnection returns nobody closes a connection.
OpenInv ==
  \A c \in Conns :
    wsPc[c] \in {"new", "lookup", "lock", "flush"} => sock[c] # "closed"

\* The Send in progress has still to write the last message of c's job to c.
Owed(g, c) == c \in todo[g] /\ JobOf[g] = Key(c)

\* What a connection received of its job, and all that there is of it.
Got(c) == wire[c][Key(c)]
Log(c) == jobBuffers[Sid(c)][Key(c)]

Followed(c) ==
  /\ IsPrefix(Got(c), Log(c))
  /\ wsPc[c] \in {"new", "lookup", "lock"} => Got(c) = <<>>
  /\ Registered(c) /\ sock[c] # "closed" =>
       /\ (\A g \in Senders : ~Owed(g, c)) => Len(Got(c)) = Len(Log(c))
       /\ \A g \in Senders : Owed(g, c) =>
            /\ Len(Log(c)) = Len(Got(c)) + 1
            /\ Log(c)[Len(Log(c))] = [from |-> g, n |-> sent[g]]

WireInv == \A c \in Conns : Key(c) \in JobIDs => Followed(c)

\* What a connection received of any job, all that there is of it, and whether a Send in
\* progress has still to write the last message of it.
Heard(c, j) == wire[c][j]
History(c, j) == jobBuffers[Sid(c)][j]
Due(g, c, j) == c \in todo[g] /\ JobOf[g] = j

\* s is the run of t that begins after position off.
RunAt(s, t, off) == off + Len(s) <= Len(t) /\ \A i \in 1..Len(s) : s[i] = t[off + i]

\* What c has of a job it did not ask for is a run of the job's messages: nothing before
\* its registration, and the latest ones, but for the one due, while its writes succeed.
Overheard(c, j) ==
  /\ \E off \in 0..(Len(History(c, j)) - Len(Heard(c, j))) :
       RunAt(Heard(c, j), History(c, j), off)
  /\ wsPc[c] \in {"new", "lookup", "lock", "flush"} => Heard(c, j) = <<>>
  /\ Registered(c) /\ sock[c] # "closed" =>
       /\ (\A g \in Senders : ~Due(g, c, j)) =>
            RunAt(Heard(c, j), History(c, j), Len(History(c, j)) - Len(Heard(c, j)))
       /\ \A g \in Senders : Due(g, c, j) =>
            /\ Len(Heard(c, j)) < Len(History(c, j))
            /\ History(c, j)[Len(History(c, j))] = [from |-> g, n |-> sent[g]]
            /\ RunAt(Heard(c, j), History(c, j), Len(History(c, j)) - 1 - Len(Heard(c, j)))

RunInv == \A c \in Conns, j \in JobIDs : j # Key(c) => Overheard(c, j)

\* A job is queued after its session was created, so that no Send misses the session:
\* all its messages are in the buffer, but for the one whose Send waits for the mutex.
BufferedBy(g) == IF sendPc[g] = "lock" THEN sent[g] - 1 ELSE sent[g]

SentInv ==
  /\ \A j \in JobIDs : runPc[j] # "new" => SessionOf[j] \in sessions
  /\ \A g \in Senders :
       /\ sendPc[g] = "lock" => sent[g] > 0
       /\ HasAll(jobBuffers[Home(g)][JobOf[g]], g, BufferedBy(g))

IInv == TypeOK /\ LockInv /\ RegInv /\ OpenInv /\ WireInv /\ RunInv /\ SentInv
=============================================================================
