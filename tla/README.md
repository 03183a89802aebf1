# Soroban IDE runner: verification project

TLA+ models of the Go server in this repository (`cmd/server`, `internal/`), the TLC
configurations that check them on small instances, and TLAPS proofs about them. The server
takes a command and source files (`POST /run`), executes the command in a runner container,
and streams its output over WebSockets.

Contents: [inventory](#1-the-system) ·
[modules](#2-modules-and-how-they-correspond-to-the-code) ·
[runs](#3-runs-bounds-and-what-they-show) · [fairness](#4-fairness) ·
[proofs](#5-proofs) · [findings](#6-where-the-code-and-its-comments-disagree) ·
[not modelled](#7-what-is-not-modelled) · [plan](#8-plan)

## 1. The system

```
 POST /run ──► RunHandler.Handle ──► session.Manager.GetOrCreate
                     │
                     └──► WorkerPool.Enqueue ──► jobs (buffered channel)
 POST /kill ─► RunHandler.Kill ─► WorkerPool.Kill     │
                                     │ cancel()       ▼
                                     └───────► worker: Executor.Execute ──► docker exec
                                                       │ stdout / stderr goroutines
                                                       ▼
 GET /ws ───► WSHandler.Handle ──► session.Manager ◄── Send
                     ▲                   │
                     └── client ◄────────┘  flush of the history, broadcast
 signal ────► main: WorkerPool.Stop, then http.Server.Shutdown
```

| Component | State | Operations | What makes it correct |
|---|---|---|---|
| Session manager (`session/manager.go`) | sessions; per session a mutex, a map job id → connection, a buffer of messages per job | GetOrCreate, AddConnection, RemoveConnection, Send (Remove and ClearBuffer have no caller) | one writer per connection; a client gets its job's messages from the first one, in order, once each; removal takes out nobody else; one client cannot block another session |
| WebSocket handler (`handler/websocket.go`) | one goroutine and one socket per client | upgrade, register, read loop, unregister | dead connections are forgotten |
| Worker pool (`queue/worker.go`) | a channel of 100 jobs, the map job id → cancel function, a wait group | Enqueue, worker loop, Kill, Stop | no accepted job is lost or executed twice; a running job can be killed, whatever races with the kill; Stop drains |
| Executor (`executor/docker.go`) | a process, two pipes, two reader goroutines, a wait group | Execute, sendError | output in order and complete, `done` last, errors told, no pipe deadlock, a kill always ends the call |
| Run and kill handlers (`handler/run.go`) | the workspace directory of each session on disk | validate, choose the session, write files, create the session, enqueue, answer | a job finds its session; only allowed commands; the files of a request are the files of its job, as far as overlapping requests and commands that go on allow |
| Server main (`cmd/server/main.go`) | the phase of the shutdown, its 30 seconds, the requests in flight | serve, stop the pool, shut the HTTP server down | what was answered 202 runs and reaches its client; shutdown ends, and gives requests in flight their time; one client cannot stop another's stream |
| Wallet handler (`handler/wallet.go`) | the key store in the runner container, shared by all requests | init, register, status | an answered registration is in force; the wallet that was answered is kept, funded |
| Command check (`validateCommand` in `handler/run.go`, `splitArgs` in `executor/docker.go`) | none | refuse a command, split it | what is executed is what was checked |
| Validation and interface parser (`handler/validate.go`, `interface.go`) | none | pure functions over a map of files | a result that the request determines, whatever the order of the map |
| GitHub proxy, templates, CORS | none | forwarding, reading, headers | – |

What is hard in this code is that everything above runs concurrently: every request has a
goroutine, every job three more, and they meet in the session's mutex, the channel, the map
of cancel functions and the sockets. Writes to sockets block without a deadline
(`main.go:112`); they do so while `Session.mu` is held (`manager.go:128`); a kill, the
worker's cleanup and the end of the process race; shutdown closes the channel under the
handlers that still send on it. `PROJECT.json` lists these hazards at the lines where they
bite, with the properties that would catch them going wrong. A command runs in another
container: `exec.CommandContext` ends the `docker exec` client that started it
(`docker.go:82`), so that it goes on when its job is killed or the server crashes.

## 2. Modules and how they correspond to the code

Names are the source's where TLA+ allows it. `PROJECT.json` maps each definition to the
lines it stands for. Operators commented `Mutant:` are not part of a specification: each is
a definition changed the way a plausible bug would change it, and a property is kept only if
TLC finds it violated when the mutant takes the definition's place.

### `JobStream` – what the session manager promises

The abstract specification: a log per job, and connections that wait, go live or are lost.
`Publish` appends a message, and is enabled only if no live subscriber of that job still
misses one; `Deliver` hands a connection the next message of its log; `Join` makes a
connection live once it has the whole history, possibly in the place of one other connection
with the same topic; `Drop` loses one. No lock, no socket, no handler.

### `SessionManager` – `session/manager.go`, `handler/websocket.go`

State: the keys of `Manager.sessions`, the holder of each `Session.mu` (`mu`), `conns`,
`jobBuffers`, a program counter per calling goroutine (`sendPc`, `wsPc`, `runPc`), and per
connection the state of the socket (`sock`) and what was written to it, by job (`wire`).

`Manager.mu` is never held across a blocking call, so each of its critical sections is one
step. `Session.mu` is held across network writes: taking it, every write, and releasing it
are steps of their own. So a `Send` is `SendLookup`, `SendLock` (which also appends to the
buffer and fixes the connections to visit), one `SendWrite` or `SendFail` per connection in
any order (Go's map order), `SendUnlock`. A handler is `Upgrade`, then either
`AddReject` and `Reject`, which writes the error to the client and waits for one that does not
read, or `AddLookup`, `AddLock`, one `FlushWrite` per buffered message or a `FlushFail`, `Register`,
then `ReadError` and `RemoveConnection`. `GetOrCreate` and `Enqueue` are the end of
`POST /run`; a sender of a job runs only after its `Enqueue`.

A socket is open, stalled (the client does not read: a write blocks), gone (the peer left:
the kernel may still accept a write, or refuse it), or closed. The client moves it at any
time with `Stall`, `Resume` and `Leave`.

Refinement (`ImplementsJobStream`): a job's log is its buffer; a connection waits until
`AddConnection` returns and is live while it is registered and not closed; `SendLock` is
`Publish`, `FlushWrite` and `SendWrite` of the connection's own job are `Deliver`,
`Register` is `Join`, everything else drops a connection or stutters.

### `WorkerPool` – `queue/worker.go`, and its callers in `run.go` and `main.go`

State: the content of the channel, whether it is closed, each worker's place in its loop and
the job it holds, the keys of `activeJobs`, the jobs whose context is cancelled, how often
each was executed, and the places of the `/run` and `/kill` handlers and of main. Every
operation on the channel, the `sync.Map` and a context is one step, so that `Kill`
(`KillLoad`, `KillCancel`, `KillDelete`) interleaves with the worker's `Cancel` and
`Delete`. `EnqueuePanic` is a send on the closed channel, which panics whether it comes after
the close or was blocked before it. Execute is the interval between `Store` and
`ExecuteReturns`: jobs in `Endless` end only when cancelled, jobs in `Stuck` never (their
output waits for a client that stopped reading).

### `Executor` – `executor/docker.go`

One call of `Execute`: it starts the process (or fails to), two goroutines scan the two
pipes line by line and send each line, the call waits for both (`WaitReaders`), for the
process (`WaitProcess`), and sends the error, if any, and `done`. A command is the sequence
of lines it writes and how it ends. A pipe holds `PipeCap` lines; `Write` blocks when it is
full. A line over the scanner's 1 MB ends the goroutine that reads it (`ScanTooLong`).
External: the process, the pipe, and the goroutine of `os/exec` that kills the process when
the context is cancelled (`ProcessKilled`). Sends are atomic here; `SessionManager` has their
inside, and the blocking they add is `Stuck` in `WorkerPool`.

### `RunWorkspace` – `handler/run.go`

`POST /run` from its arrival to the execution of its job, on what its requests share: the
workspaces on disk, the sessions in memory, the queue, and the cookie jars of the browsers.
Each call on the disk is a step: making the workspace and the working directory, detecting
the directory of the project, opening a file (which truncates it) and putting its content,
one file after the other in any order. Every one of them may fail and end the request, with
what it did so far left on disk. `ChooseSession` is `getOrCreateSessionID`: header, else a
cookie whose workspace exists, else a new id, which goes into the jar with the answer. The
header of a request is a session id that the client has, or one that an answer gave it. The
content of a file is the set of requests whose bytes it has: empty after a truncation, more
than one when two writers had it open.

`alive` holds the jobs whose command runs in the container. A command may write files
(`CommandWrites`, as `init` and `fmt` do), remove them (`CommandRemoves`, as `git` may: who has
the file open goes on writing to one that nobody finds) and remove directories that became
empty (`CommandRemovesDir`). `Finish` is the return of `Execute` when the command has ended;
`Killed` is its return by `POST /kill`, after which the command goes on. `Restart` is a crash:
requests in flight, sessions and queued jobs are lost; the disk, the jars and the commands go
on. Whether a request is valid is an attribute of it.

### `Wallet` – `handler/wallet.go`

Concurrent requests that run `stellar keys` commands on one key store. A registration is a
`Remove`, whose failure is ignored, then an `Add`, which takes a name that is present for a
success. An initialisation, of the endpoint or at startup, is `Generate`, `Fund`, then the
two fetches of the status. The default identity (`key`) is named by the initialisation that
made it, and `funded` has the identities with a funded account. `Fund` may leave it unfunded
although the command exits zero, and `GenerateFails` may leave the identity behind, which a
retry then finds (`GeneratePresent`). The key store is `/root` of the container: commands of `POST /run`
have another HOME (`docker.go:65`) and do not touch it.

### `Server` – `cmd/server/main.go`, and how the parts act on one another

The process as a whole: `Pool`, an instance of `WorkerPool` (without kills), and `Stream`, an
instance of `JobStream`, which `SessionManager` was shown to implement, share their jobs. What
neither has and what couples them is added: `mu`, the holder of each `Session.mu`, and
`stalled`, the clients that stopped reading. A job is in `exec` from `Store` until its output
is sent; `Send` takes the mutex of its session and `SendReturns` gives it back when every
registered client of the session has taken the message; `Connect` … `Join` is `AddConnection`,
which holds the same mutex while it flushes the history. So a client that does not read holds
its session's mutex, the job that sends, and the worker that executes it. On top are main's
`Signal` (which starts the 30 seconds and closes the channel), `StopReturn`, `Shutdown`, and
the end: `Exit` when no request is active, or `Forced` (`log.Fatalf`) when the 30 seconds are
over. Requests to the other endpoints come and go. A slow client is one whose `Deliver` takes
its time. `Endless` are the jobs whose command never ends, `Stuck` the clients that may stop
reading. The output of a job is one message here, since its order is the subject of
`JobStream` and `Executor`. A crash is not in this module: all it has is memory, and what
survives one is in `RunWorkspace`.

### `CommandLine`, `ProjectFiles`, `Requests` – the handlers that only read

`CommandLine` has the check of a command and its split into arguments, both on sequences of
tokens (the name of an allowed program, a metacharacter, `&`, a quote, a blank, a tab, another
character). `splitArgs` is the code's loop, as a recursive function of the characters read; next
to it stands a reference (`ArgsOf`) that says, without a loop, which characters belong to an
argument, to which, and at which place in it.

`ProjectFiles` has the parser of contract interfaces and every check of the validation. A path
is the sequence of its segments; a content is a record of what the code looks for in it (its
length, words, headings, patterns, the functions that `pubFnRe` matches). Where Go's random
map order shows, the order, or the file that comes first, is a parameter.

`Requests` is a client that sends one project to the three handlers, each any number of times:
`Run` (the checks of `POST /run` up to the job's arguments), `Validate`, which takes any README
and any `lib.rs` for the first, and `Interface`, which takes the files in any order. Where the
code looks for `package.json`, `index.html`, `src/app`, `src/pages` and `src/components` anywhere
in a path, `FrontendNames` are the segments that contain one of the first two, and `SrcDirs` and
`FrontendDirs` those that end and begin so that the two together contain one of the others. The body
is well-formed: a wrong method or a body that is no JSON is refused at the start of each
handler.

## 3. Runs, bounds and what they show

| Run | Instance | States | Shows |
|---|---|---|---|
| `session_safety` | 1 session, 2 jobs, 3 senders (2 for one job), 2 connections with any job id or none, 1 message per sender, connections symmetric | 373 970 | `TypeOK`, `SingleWriter`, `Replay`, `CaughtUp`, `Contiguous`, `NoSendLost`, `OnlyReplacedOrRemoved`, and the refinement `ImplementsJobStream` |
| `session_live` | 2 sessions with one job and one sender each, 2 connections, one of which may stall for good | 122 460 | `SendReturns`, `DeadConnForgotten` |
| `session_broadcast` | as `session_safety` | – | violates `BroadcastReachesAll` |
| `worker_pool` | 3 jobs (one endless, one stuck), 3 workers, channel of 1, 2 kills of the endless job | 47 515 | `JobInOnePlace`, `Killable`, `NoStaleCancel`, `StopDrains`; `RequestServed`, `KillEnds`, `StopReturns` |
| `shutdown_in_flight` | as `worker_pool` | – | violates `InFlightCompletes` |
| `executor` | every command of at most 4 lines over 2 streams and 2 sizes, with every end; pipes of 1 line | 104 284 | `DoneIsLast`, `ErrorIsTold`, `StreamInOrder`, `NothingLost`; `CancelReturns`, `EndsByItself` |
| `run_workspace` | 3 requests out of 4 kinds (a build of two files, a command in the subdirectory that changes one, an init with any session id in its header, an invalid one), 2 directories, 3 files, requests symmetric | 1 509 767 | `NoStaleFile`, `JobReady`, `SessionKept` |
| `wallet` | 3 registrations of 2 keys, 3 initialisations | 140 491 | `AliasInForce`, `WalletKept` |
| `wallet_register` | as `wallet` | – | violates `RegistersItsKey` |
| `server` | 3 jobs of 2 sessions, one of them endless, 2 workers, channel of 1, a client for each of the other two, one of which may stop reading, 1 other request | 273 054 | `NothingCutOff`; `HearsTheEnd`, `ShutdownEnds` |
| `requests` | every command of at most 5 tokens; every project made of up to 8 files with 1 to 3 contents each, 2 categories, 3 forms of `contract_path` | 301 656 | `ArgvChecked`, `ListsTheCrate`, `VerdictFollows` |
| `requests_program` | the same projects, commands of at most 3 tokens | – | violates `ProgramIsChecked` |

Why the bounds are enough. Session: two senders of one job are the two streams, the third
broadcasts the other job to the same connections; two connections are what a replacement and
a removal race need; a flush of two messages (both senders' messages) that a third can
overtake needs one message per sender. Two sessions are needed only where a property says
that one does not block the other, hence the second run. Symmetry is declared only in the
run that checks no liveness. Pool: a channel of one job is full as soon as one is queued, so
handlers block; two kills and the worker's cleanup are the three parties of that race; with
one endless and one stuck job a third worker is the one that `RequestServed` counts on.
Executor: one line per pipe makes a command block as soon as the other pipe is not read, and
four lines are an interleaving of two per stream, or an overlong line with three after it.

Workspace: three requests are one whose leftovers another finds while a third overlaps both;
two directories and three files are what detection distinguishes. A restart can happen any
number of times, and a command goes on after each. Wallet: two registrations race, the third
finds what they left; the first initialisation makes the identity, the second retries, and the
third finds what either left.

Server: with two workers the job of the client that stopped reading holds one, or the endless job
does, and leaves one, so that what it does to the other session shows; both may hold the two. With
three jobs a channel of one blocks a handler at the signal. Requests: five tokens are a name, a
blank, and a metacharacter between quotes; the files make every check pass and fail, with up to
two READMEs and three `lib.rs`, of which two are in scope of a crate or not.

`MaxSends` bounds the messages of a sender, `MaxLines` the lines of a command, `MaxCommand` the
tokens of one, and `MaxAnswers` (2) how many different answers of a handler are kept; there is
no other bound. Deadlock is checked in the session runs (`Terminated` is the one state in
which everything has ended) and in that of the workspace (where a restart is always possible). It is
not in those of the pool, the executor, the wallet, the server and the requests, where the system
stops by design: when Stop has returned, when Execute has, when a job hangs, when all requests
are answered, when the process has ended.

`NoSendLost` is about the order of `GetOrCreate` and `Enqueue` in `POST /run`: it fails as
soon as a job can send before its session exists. `CaughtUp` is why the flush and the
registration share one critical section. `OnlyReplacedOrRemoved` is why `RemoveConnection`
compares connections and not job ids. `Killable` is why `Kill` cancels before it deletes,
and `NoStaleCancel` holds because the worker deletes last, whether or not a kill did.
`NoStaleFile` says what "the files of a request are the files of its job" amounts to without
a lock on the workspace: other content can only come from a request that was in progress, or
a command that had not ended in the container, when this one was sent, and a file is missing
only if such a command removed it. A job that was killed may be such a command, however long
ago: nothing that `POST /run` does keeps it out (section 6). `JobReady` is why every failure
returns before the queue, and why the session is made after a restart as well; the directories
and files are there with the same exception, the workspace itself without one. `SessionKept` is
why the cookie is looked up on disk and not in memory.
`EndsByItself` excludes overlong lines: with one the command may block on a pipe that nobody
reads, until it is killed (`CancelReturns` has no such exception).

`NothingCutOff` is why main stops the pool before the HTTP server, and why Send returns only
after its writes: the process ends with every accepted job's output at its clients, although
it waits for no WebSocket. `HearsTheEnd` says how far a client that stops reading reaches: its
session's clients and its worker, and the others only when such clients hold all workers.
`ShutdownEnds` says the same of the shutdown. It has no bound in time, because the code has none:
the 30 seconds limit `Shutdown`, and not `Stop` before it, which waits for every command that
runs and executes what is queued. So one command that never ends, or one client that neither
reads nor leaves, keeps the process alive until it is killed. (Docker kills it 10 seconds after
the signal, since the compose file sets no `stop_grace_period`.) The other side of it is that what
`Stop` takes is taken from the 30 seconds, which may be over when `Shutdown` begins; a request
that is active then is cut off at once (`Forced`). What `NothingCutOff` says holds then as well.

`WalletKept` is what holds of a wallet that initialisations of several clients make, find and
retry: whoever was told of an address keeps it, and whoever was told that it is funded was told
the truth. That a retry of a failed funding funds it does not hold (section 6).
`ArgvChecked` compares two scans of one text that were written apart: they agree on quotes, and
differ on white space, on quotes inside a word and on one that never closes, and none of that
lets an unquoted metacharacter through. The program is the word that was checked, with one
exception, which `requests_program` shows: a tab after it ends the name for the check, but not
for the split. Case is none: the check ignores it, and so does the token `name`. The run also
shows what the split does not do: `""` gives no argument, although it is one in a shell.
`ListsTheCrate` is about the names that are listed; of two functions with one name, the
parameters are those of the file that Go visits first.
`VerdictFollows` needs its antecedent: with two READMEs, or two files that end in `lib.rs`, the
verdict on one and the same request changes from call to call.

## 4. Fairness

Every goroutine inside a call takes a step whenever it can: the Go scheduler runs every
runnable goroutine. Waiters of a mutex or a channel are served in turn (`sync.Mutex` hands
over to a waiter that starved for 1 ms; the channel queues blocked senders), so that fairness
is strong where a step waits for one of them, and weak elsewhere. Nothing is assumed of
clients and commands: no request has to arrive, no command has to write or end – except that
a client outside `Stuck` does not stop reading for good while it keeps its socket open, and
that a command outside `Endless` and `Stuck` ends. Every property that needs either says so
in its antecedent (`NoneStuck`, `Endless`, `Stuck`, `cmd.ends`), so that the runs also cover
the instance in which one client or job misbehaves.

In `Server` commands outside `Endless` end, and weak fairness is enough: with finitely many jobs
and clients a mutex or the channel is contended finitely often, and a client that stops reading
does so for good. Time passes (`Expire`); requests to other endpoints may take for ever, since the
calls to GitHub and to the container have no timeout.

## 5. Proofs

All are checked by tlapm for every value of the constants that satisfies the module's
`Assumptions` (types of the constants, markers such as `None` and `NoJob` that are no element of
the sets, a different `UUID` for each request, a positive capacity, and in `Server` at least one
worker, since main creates a positive number of them). No proof uses the bounds of the runs:
`MaxSends` and `Cap` are any numbers, the sets may be infinite. Every `IInv` was checked by TLC on
the instances of section 3 before it was proved.

`SessionManagerProofs` – `Spec => []IInv`, from which `TypeOK`, `SingleWriter`, `Replay`,
`CaughtUp`, `OnlyReplacedOrRemoved`, `Contiguous` and `NoSendLost` follow. None of these is
inductive. `IInv` adds

- `LockInv`: Session.mu is held exactly by the goroutine whose program counter says so;
- `RegInv`: a connection is in the map only under its own ids and only while its handler is in
  or after the read loop; a Send visits only registered connections of its session;
- `WireInv`: what a connection received of its job is a prefix of the buffer, empty before the
  flush; once it is registered and not closed the two are equal, except while a Send still owes
  it a message, when exactly the last one is missing. That exception is what makes it
  inductive: `SendLock` creates the debt, `SendWrite` pays it, and `SendFail` closes the
  socket, after which nothing more is claimed;
- `OpenInv`: until its registration, or its rejection, nobody closes a connection;
- `RunInv`: what a connection heard of a job it did not ask for (`Overheard`) is a
  run of the buffer that reaches, while the connection is registered and open, to its end, or to
  one short of it while a Send owes it a message. `Contiguous` alone says nothing of the end,
  and a message that is appended could then leave a gap;
- `SentInv`: a job that is past `GetOrCreate` has its session, and the buffer of a job holds
  all that each of its senders has sent, in order and once, except the message whose `Send`
  still waits for the mutex.

The lemmas follow the conjuncts, each with one step per action; the frame lemmas before them
say which variables each conjunct reads, for the actions that leave them alone.

`SessionManagerRefinement` – `Spec => ImplementsJobStream`, from that invariant. `InitRefines`
maps the initial states; `StepRefines` has one step per action: `SendLock` is `Publish`, whose
guard (nobody is behind) is what `WireInv` says when no Send is in its loop; `SendWrite` and
`FlushWrite` are `Deliver`, or stutter for a connection of another job; `Register` is `Join`,
also when it takes the place of another connection; `SendFail`, `FlushFail`, `AddReject` and
`RemoveConnection` are `Drop`, or stutter if the connection was lost already; `Reject` comes
after the loss and stutters. Everything else
leaves the mapped state as it is. The theorem covers safety; `JobStream` states no fairness.

`WorkerPoolProofs` – `Spec => []IInv`, from which `TypeOK`, `JobInOnePlace`, `Killable`,
`NoStaleCancel` and `StopDrains` follow. `IInv` adds that a worker holds a job exactly from
Receive to Delete (`HoldInv`), that a kill deletes only after it cancelled (`KillInv`), and that
workers exit only from a closed and drained channel (`ExitInv`). `JobInOnePlace` itself is the
hardest part: `Receive` moves a job from the head of a sequence to a worker, and `HeadFacts` says
that without duplicates it is then nowhere else in it.

`ExecutorProofs` – `Spec => []IInv`, from which `TypeOK`, `DoneIsLast`, `ErrorIsTold`,
`StreamInOrder` and `NothingLost` follow, for any commands, streams and capacity of the pipes.
`PhaseInv` says that the reader goroutines run only while `Execute` waits for them and that the
process is there until it is reaped, so nobody can send once `Execute` is past the wait;
`ErrorInv` that the error is in the log exactly when there is one to report; `EndInv` what may
stand after the error and after done. `StreamInv` follows the lines of one stream from the
command through the pipe to the log: what is in the log, then what is in the pipe, are the
lines of the stream that were written, in order and each once (`PipeInv`, `SentInv`); and a
goroutine ends only at an overlong line, or when the pipe is empty and nobody writes to it any
more (`ReaderInv`). The assumption it needs on the constants is that no stream is named "error"
or "done".

`RunWorkspaceProofs` – `Spec => []IInv`, from which `TypeOK`, `NoStaleFile`, `JobReady` and
`SessionKept` follow, for any requests, files, directories and failures, and with a restart at
any point, and commands that go on after a kill or a restart. `SidInv`, `OpenInv`, `QueueInv` and
`AliveInv` say where a request, its open file, a queued job and a running command are.
`PlaceInv` is the one behind `JobReady`: what a request has made so far stays on disk (`Kept`,
unless a command that `Lingers` removes it), and its session in memory until a restart, which
removes the request as well. `NoStaleFile` is about content and rests on `PastInv` and `FileInv`:
what had ended when a request was sent does not begin again, and whatever had still to run, or
ran in the container, is recorded in `busy`, whether or not its job counts as finished; so from
the moment a request opened a file (which truncates it), whatever else gets into it is of a
request or command that overlaps it, and it goes only by a command's hand. `SessionKept` is
inductive by itself, given where the ids of sessions are.

`WalletProofs` – `Spec => []IInv`, from which `TypeOK`, `AliasInForce` and `WalletKept` follow.
`AliasInv` says when the name may be without a key: while a request is between its two commands,
or after one that failed. `WalletKept` is inductive: nothing replaces an identity that is there.

`ServerProofs` – `Spec => []IInv`, from which `TypeOK` and `NothingCutOff` follow. The worker
pool is part of the server, and so is its theorem: every step of `Server` is a step of
`WorkerPool` or leaves the pool alone (`PoolStep`), so that the invariant proved in
`WorkerPoolProofs` holds of `Pool` here. Added are `MainInv` (the HTTP server closes only after
Stop has returned, the process ends only after that), `SentInv` (an execution ends only when
the output of its job is sent), `LockInv` (a session's mutex is held by a job that a worker
executes, or by a client that is being registered, each of that session) and `LiveInv` (a
registered client that misses a message has its session's mutex held by the job that owes it).
When the process ends the pool is drained (`StopDrains`, of the pool), so nobody executes, so no
job holds a mutex, so no client misses anything.

`RequestsProofs` – `Spec => []IInv`, from which `TypeOK`, `ArgvChecked`, `ListsTheCrate` and
`VerdictFollows` follow, for commands, projects and paths of any length. `IInv` says that each
answer is the one that its request has, for some order of the map; what is hard is what the
operators compute. They are loops over sequences, and the provers cannot instantiate the library's
induction theorems, whose parameter is an operator; but those that speak of a set they can.
`LeastExists` is well-foundedness of the naturals (`WFMin`), `SetInduction` is induction for a
set, and `LoopRuns`, proved with it, says that a loop has a run; from these the equations of each
recursive function follow (`ScanLoop`, `ShownLoop`, `DedupedLoop`, `CollectedLoop`).
`SplitIsRight` is then the loop invariant of `splitArgs`: after i characters the arguments so far,
the open one included, are as many, as long and with the same characters as the reference says of
the first i characters, and an argument is open just when a character has no separator after it.
`FirstArgument` and `AcceptedFacts` add what the check looked at: the first argument begins with
the name that was checked, and is that name unless a tab comes next. `ListsTheCrate` is from
`FunctionsFacts` (whatever the order, the names of all visited files, each once) and
`InScopeFacts` (a prefix with `/src/` is membership of the crate); `VerdictFollows` from these and
`LogicCheck`.

Only model-checked: liveness, which is out of the proof system's reach (`SendReturns`,
`DeadConnForgotten`, `RequestServed`, `KillEnds`, `StopReturns`, `CancelReturns`, `EndsByItself`,
`HearsTheEnd`, `ShutdownEnds`). Every safety property that a passing run checks has a theorem.

## 6. Where the code and its comments disagree

Four are runs that TLC ends with a counterexample, and findings in `PROJECT.json`.

- `session_broadcast`: `manager.go:101` says that Send broadcasts to all connected clients
  of a session. Connections are keyed by job id, so of two clients with the same job id, or
  with none (the usage that `websocket.go:34` and the repository's README show), the second
  silently takes the first's place.
- `shutdown_in_flight`: `main.go:129` gives in-flight requests 30 seconds to complete. main
  closes the job channel first, while the HTTP server still serves, so that a `POST /run` in
  flight panics in `Enqueue` and is never answered.
- `wallet_register`: `wallet.go:98` to `102` take a name that is present for a benign race, in
  which "the alias IS registered with the right public key". It is the key of whoever came
  first, which is another client's as easily.
- `requests_program`: `run.go:18` names the programs that are permitted. The check ends the
  program's name at any white space (`run.go:74`), `splitArgs` at a blank only (`docker.go:247`):
  with a tab after the name the program that is executed is not the word that was checked.

Others have no run: each shows in a definition, or in the form that a property has.

- `worker.go:46` says that Kill stops a running job. Cancelling its context ends the `docker exec`
  client (`docker.go:82`) and `Execute` returns; the command in the container goes on (`Killed`),
  and may change the files of the session's later jobs (`Lingers` in `NoStaleFile`, `JobReady`).
- `main.go:129`, once more: the 30 seconds begin before `Stop`, which has no limit; when it takes
  longer, `Shutdown` starts with its time over and cuts a request in flight off (`Expire`, then
  `Forced`, in `Server`).
- `wallet.go:37` says that `InitDefault` creates and funds the default wallet. A retry after a
  failed funding finds the identity, returns without an error, and leaves it unfunded
  (`GenerateFails`, then `GeneratePresent`); what the client is told of the funds is right
  (`WalletKept`), what `main.go:103` logs at the start is not.
- `run.go:260` to `262` detect a project directory to "use that subdirectory as the execution
  context" (`DetectWorkDir`). `Execute` does not read `job.WorkDir`: every command runs at the root
  of the workspace (`docker.go:61`).
- `docker.go:135` waits "for all output to be read", but the goroutine of a stream also ends at a
  line of more than 1 MB, and what follows it is not read (`ScanTooLong` in `Executor`).
- `validate.go:381` wants one function "beyond hello/increment", and line 385 excludes `get_count`
  too.

## 7. What is not modelled

Pure I/O without state: the GitHub proxy, which forwards a request and its answer; the template
handler, which reads a directory; CORS; `/health`; the images and compose files; the example
projects. They keep nothing, share nothing and decide nothing that a property could be about;
in `Server` they are the other requests. Code that nothing calls: `Manager.Remove`,
`Manager.ClearBuffer`, `Executor.scanDirectory`, the files handler. Content of messages and
commands: a message is its sender and number, or its stream and position. The wording of
answers, and the types of contract parameters. `sanitizeCommand`, which changes npm commands
only: `validateCommand` has refused them before it. The read-side
details of WebSocket (ping, close frames) are in `ReadError`.

Assumed of what is external: a write on a socket whose peer is gone may succeed; `stellar keys
add` and `generate` fail on a name that is present, as the strings that the handler looks for
say. A command changes files of its own workspace only, and never removes the workspace itself;
a process that it leaves behind when it ends changes none. What it writes counts as its own, also
when `git` puts back what somebody else wrote. A `stellar` command is one step, but for
`generate --fund`; an account that is funded stays so. A session id that a client sends is one
that it made itself or was given by an answer: none guesses the id that the server will generate.

## 8. Plan

Written, in this order: `SessionManager` with `JobStream`, `WorkerPool`, `Executor`, the
proofs of the first two, `RunWorkspace`, `Wallet` and its proofs, `Server`, `Requests` with
`CommandLine` and `ProjectFiles`, the proofs of `Executor`, of `RunWorkspace` and of `Server`, the
refinement of `JobStream`, the proofs of `Requests`. To come:

1. That `WorkerPool` implements an abstract pool (a job is accepted, runs once, ends), stated
   as a module, checked by the run and proved, as for the session manager.
2. The safety that the liveness properties rest on: in a state where nothing but the
   environment can move, no request, kill or Send is left waiting, as invariants of `WorkerPool`
   and `SessionManager`.
