---------------------------- MODULE RunWorkspace ----------------------------
(***************************************************************************)
(* POST /run from its arrival to the execution of its job                  *)
(* (internal/handler/run.go), on what its requests share: the workspace    *)
(* directories on disk, the sessions in memory and the queue of jobs. The  *)
(* server may crash and start again: the disk stays, the memory is lost. A *)
(* command runs in another container: neither a crash nor a kill ends it.  *)
(*                                                                         *)
(* Requests run concurrently, and each call on the disk is a step. A file  *)
(* is written in two: opening it truncates it, then the content is put at  *)
(* its start, over what another request may have put there in between.     *)
(***************************************************************************)
EXTENDS Naturals, Sequences, FiniteSets

CONSTANTS
  Reqs,        \* POST /run requests; each names its job as well
  Clients,     \* browsers, each with a cookie jar
  SessionIDs,
  UUID,        \* the session id that the server generates for a request that needs one
  Files, Dirs, \* paths in a workspace, but for hidden directories, which detection skips;
               \* a directory is at most two below the workspace itself
  Root,        \* the workspace itself
  Parent,      \* the parent of each directory
  DirOf,       \* the directory of each file
  Manifest,    \* the Cargo.toml of each directory
  Requests,    \* what requests ask for
  None

Request == [client : Clients, header : SessionIDs \cup {None}, valid : BOOLEAN,
            files : SUBSET Files, cwd : Dirs, touches : SUBSET Files]

ASSUME Assumptions ==
  /\ UUID \in [Reqs -> SessionIDs]
  /\ \A r, q \in Reqs : UUID[r] = UUID[q] => r = q
  /\ Parent \in [Dirs -> Dirs] /\ DirOf \in [Files -> Dirs] /\ Manifest \in [Dirs -> Files]
  /\ Root \in Dirs
  /\ Requests \subseteq Request
  /\ None \notin SessionIDs \cup Files \cup Dirs \cup Reqs

VARIABLES
  req,       \* what each request asks for
  pc,        \* where its handler is, then its job
  cookie,    \* the session cookie it carries
  before,    \* the requests that had been answered, or were lost, when it was sent
  busy,      \* those of them whose command had still to run or to end
  sid,       \* its session
  left,      \* the files it has still to write
  open,      \* the file it has open
  workDir,   \* Job.WorkDir
  jar,       \* the session cookie of each client
  made,      \* the directories of each workspace
  disk,      \* the files: whose content each has, {} when it was truncated
  sessions,  \* the keys of Manager.sessions
  queue,     \* the jobs that wait for a worker
  alive      \* the jobs whose command runs in the container

vars == <<req, pc, cookie, before, busy, sid, left, open, workDir, jar, made,
          disk, sessions, queue, alive>>
request == <<req, cookie, before, busy>>
stored == <<made, disk>>
memory == <<sessions, queue>>

\* What a path has that is no file; a file has a set of requests.
Absent == {None}

Handling == {"session", "base", "cwd", "detect", "write", "create", "enqueue"}
Accepted == {"queued", "running", "finished", "dropped"}
Ended == Accepted \cup {"rejected", "failed", "lost"}

TypeOK ==
  /\ req \in [Reqs -> Requests]
  /\ pc \in [Reqs -> {"new"} \cup Handling \cup Ended]
  /\ cookie \in [Reqs -> SessionIDs \cup {None}]
  /\ before \in [Reqs -> SUBSET Reqs]
  /\ busy \in [Reqs -> SUBSET Reqs]
  /\ sid \in [Reqs -> SessionIDs \cup {None}]
  /\ left \in [Reqs -> SUBSET Files]
  /\ open \in [Reqs -> Files \cup {None}]
  /\ workDir \in [Reqs -> Dirs]
  /\ jar \in [Clients -> SessionIDs \cup {None}]
  /\ made \in [SessionIDs -> SUBSET Dirs]
  /\ disk \in [SessionIDs -> [Files -> (SUBSET Reqs) \cup {Absent}]]
  /\ sessions \in SUBSET SessionIDs
  /\ queue \in Seq(Reqs)
  /\ alive \in SUBSET Reqs

Init ==
  /\ req \in [Reqs -> Requests]
  /\ pc = [r \in Reqs |-> "new"]
  /\ cookie = [r \in Reqs |-> None]
  /\ before = [r \in Reqs |-> {}]
  /\ busy = [r \in Reqs |-> {}]
  /\ sid = [r \in Reqs |-> None]
  /\ left = [r \in Reqs |-> {}]
  /\ open = [r \in Reqs |-> None]
  /\ workDir = [r \in Reqs |-> Root]
  /\ jar = [c \in Clients |-> None]
  /\ made = [s \in SessionIDs |-> {}]
  /\ disk = [s \in SessionIDs |-> [f \in Files |-> Absent]]
  /\ sessions = {}
  /\ queue = <<>>
  /\ alive = {}
-----------------------------------------------------------------------------
Exists(s, d) == d \in made[s]
Present(s, f) == disk[s][f] # Absent

Goto(r, p) == pc' = [pc EXCEPT ![r] = p]

\* Set-Cookie goes out with the answer, of whatever status.
Answer(r) ==
  jar' = IF sid[r] = UUID[r] THEN [jar EXCEPT ![req[r].client] = sid[r]] ELSE jar

\* An error answer: http.Error, and return.
Fail(r) == Goto(r, "failed") /\ Answer(r)

\* A request is sent, with the cookie of its client, and perhaps the session id that an
\* earlier answer gave; an invalid one is refused.
Arrive(r) ==
  /\ pc[r] = "new"
  /\ \A q \in Reqs : req[r].header = UUID[q] => pc[q] \in Accepted /\ sid[q] = UUID[q]
  /\ cookie' = [cookie EXCEPT ![r] = jar[req[r].client]]
  /\ before' = [before EXCEPT ![r] = {q \in Reqs : pc[q] \in Ended}]
  /\ busy' = [busy EXCEPT ![r] = {q \in Reqs : pc[q] \in {"queued", "running"}} \cup alive]
  /\ Goto(r, IF req[r].valid THEN "session" ELSE "rejected")
  /\ UNCHANGED <<req, sid, left, open, workDir, jar, stored, memory, alive>>

\* getOrCreateSessionID: the header, else the cookie of a workspace that is on disk,
\* else a new id.
Choice(r) ==
  CASE req[r].header # None -> req[r].header
    [] req[r].header = None /\ cookie[r] # None /\ Exists(cookie[r], Root) -> cookie[r]
    [] OTHER -> UUID[r]

\* Mutant: trusts a cookie only while its session is in memory.
ChooseInMemory(r) ==
  /\ pc[r] = "session"
  /\ sid' = [sid EXCEPT ![r] = IF req[r].header = None /\ cookie[r] \notin sessions
                               THEN UUID[r] ELSE Choice(r)]
  /\ Goto(r, "base")
  /\ UNCHANGED <<request, left, open, workDir, jar, stored, memory, alive>>

ChooseSession(r) ==
  /\ pc[r] = "session"
  /\ sid' = [sid EXCEPT ![r] = Choice(r)]
  /\ Goto(r, "base")
  /\ UNCHANGED <<request, left, open, workDir, jar, stored, memory, alive>>

\* MkdirAll of directory d: it and the directories above it.
Path(d) == {Root, Parent[d], d}
Emptied(r) == (UNION {Path(DirOf[f]) : f \in req[r].touches}) \ {Root}
Mkdir(r, d) == made' = [made EXCEPT ![sid[r]] = @ \cup Path(d)]

MakeBase(r) ==
  /\ pc[r] = "base"
  /\ Mkdir(r, Root)
  /\ Goto(r, "cwd")
  /\ UNCHANGED <<request, sid, left, open, workDir, jar, disk, memory, alive>>

MakeCwd(r) ==
  /\ pc[r] = "cwd"
  /\ Mkdir(r, req[r].cwd)
  /\ Goto(r, "detect")
  /\ UNCHANGED <<request, sid, left, open, workDir, jar, disk, memory, alive>>

\* A directory cannot be made.
MakeFails(r) ==
  /\ pc[r] \in {"base", "cwd"}
  /\ Fail(r)
  /\ UNCHANGED <<request, sid, left, open, workDir, stored, memory, alive>>

\* Without a Cargo.toml in d, its only subdirectory is taken if it has one.
Children(s, d) == {e \in made[s] \ {Root} : Parent[e] = d}
Detected(s, d) ==
  IF ~Present(s, Manifest[d])
     /\ \E e \in Children(s, d) : Children(s, d) = {e} /\ Present(s, Manifest[e])
  THEN CHOOSE e \in Children(s, d) : TRUE
  ELSE d

\* Mutant: leaves the working directory empty when it has no Cargo.toml.
DetectOrNone(r) ==
  /\ pc[r] = "detect"
  /\ workDir' = [workDir EXCEPT ![r] =
       IF Present(sid[r], Manifest[Detected(sid[r], req[r].cwd)])
       THEN Detected(sid[r], req[r].cwd) ELSE None]
  /\ left' = [left EXCEPT ![r] = req[r].files]
  /\ Goto(r, "write")
  /\ UNCHANGED <<request, sid, open, jar, stored, memory, alive>>

DetectWorkDir(r) ==
  /\ pc[r] = "detect"
  /\ workDir' = [workDir EXCEPT ![r] = Detected(sid[r], req[r].cwd)]
  /\ left' = [left EXCEPT ![r] = req[r].files]
  /\ Goto(r, "write")
  /\ UNCHANGED <<request, sid, open, jar, stored, memory, alive>>

\* Mutant: leaves a file that is on disk as it is.
OpenAbsent(r, f) ==
  /\ pc[r] = "write" /\ open[r] = None /\ f \in left[r]
  /\ left' = [left EXCEPT ![r] = @ \ {f}]
  /\ IF Present(sid[r], f)
     THEN UNCHANGED <<open, disk>>
     ELSE /\ open' = [open EXCEPT ![r] = f]
          /\ disk' = [disk EXCEPT ![sid[r]][f] = {}]
  /\ Mkdir(r, DirOf[f])
  /\ UNCHANGED <<request, pc, sid, workDir, jar, memory, alive>>

\* Makes the file's directory and opens the file, which truncates it; the order of the
\* files is that of Go's map.
OpenFile(r, f) ==
  /\ pc[r] = "write" /\ open[r] = None /\ f \in left[r]
  /\ left' = [left EXCEPT ![r] = @ \ {f}]
  /\ open' = [open EXCEPT ![r] = f]
  /\ disk' = [disk EXCEPT ![sid[r]][f] = {}]
  /\ Mkdir(r, DirOf[f])
  /\ UNCHANGED <<request, pc, sid, workDir, jar, memory, alive>>

\* Puts the content at the start of the open file: what another request put there since
\* it was opened is overwritten, but for a longer rest.
WriteContent(r) ==
  /\ open[r] # None
  /\ \E rest \in {{}, disk[sid[r]][open[r]]} :
       disk' = [disk EXCEPT ![sid[r]][open[r]] = rest \cup {r}]
  /\ open' = [open EXCEPT ![r] = None]
  /\ UNCHANGED <<request, pc, sid, left, workDir, jar, made, memory, alive>>

\* Mutant: logs the failure and goes on with the next file.
WriteFailsOn(r) ==
  /\ pc[r] = "write" /\ left[r] \cup {open[r]} # {None}
  /\ IF open[r] # None
     THEN open' = [open EXCEPT ![r] = None] /\ UNCHANGED left
     ELSE \E f \in left[r] : left' = [left EXCEPT ![r] = @ \ {f}] /\ UNCHANGED open
  /\ UNCHANGED <<request, pc, sid, workDir, jar, stored, memory, alive>>

\* A file cannot be made, written or closed: the files written so far stay.
WriteFails(r) ==
  /\ pc[r] = "write" /\ req[r].files # {}
  /\ open' = [open EXCEPT ![r] = None]
  /\ Fail(r)
  /\ UNCHANGED <<request, sid, left, workDir, stored, memory, alive>>

WriteEnds(r) ==
  /\ pc[r] = "write" /\ left[r] = {} /\ open[r] = None
  /\ Goto(r, "create")
  /\ UNCHANGED <<request, sid, left, open, workDir, jar, stored, memory, alive>>

GetOrCreate(r) ==
  /\ pc[r] = "create"
  /\ sessions' = sessions \cup {sid[r]}
  /\ Goto(r, "enqueue")
  /\ UNCHANGED <<request, sid, left, open, workDir, jar, stored, queue, alive>>

\* Enqueues the job and answers 202.
Enqueue(r) ==
  /\ pc[r] = "enqueue"
  /\ queue' = Append(queue, r)
  /\ Goto(r, "queued") /\ Answer(r)
  /\ UNCHANGED <<request, sid, left, open, workDir, stored, sessions, alive>>
-----------------------------------------------------------------------------
(* The job. Execute runs the command at the root of the workspace, whatever *)
(* Job.WorkDir says. The command may change files too: `contract init` and  *)
(* `fmt` write some, `git` may remove them or put older ones back.          *)

Begin(r) ==
  /\ queue # <<>> /\ r = Head(queue)
  /\ queue' = Tail(queue)
  /\ alive' = alive \cup {r}
  /\ Goto(r, "running")
  /\ UNCHANGED <<request, sid, left, open, workDir, jar, stored, sessions>>

\* What r's command puts there counts as r's, whoever wrote it once.
CommandWrites(r, f) ==
  /\ r \in alive /\ f \in req[r].touches
  /\ Mkdir(r, DirOf[f])
  /\ disk' = [disk EXCEPT ![sid[r]][f] = {r}]
  /\ UNCHANGED <<request, pc, sid, left, open, workDir, jar, memory, alive>>

\* A request that has the file open writes, from then on, to one that nobody finds.
CommandRemoves(r, f) ==
  /\ r \in alive /\ f \in req[r].touches /\ Present(sid[r], f)
  /\ disk' = [disk EXCEPT ![sid[r]][f] = Absent]
  /\ open' = [q \in Reqs |-> IF open[q] = f /\ sid[q] = sid[r] THEN None ELSE open[q]]
  /\ UNCHANGED <<request, pc, sid, left, workDir, jar, made, memory, alive>>

\* A directory that has become empty is removed, other than the workspace.
CommandRemovesDir(r, d) ==
  /\ r \in alive /\ d \in Emptied(r)
  /\ d \in made[sid[r]] /\ Children(sid[r], d) = {}
  /\ \A f \in Files : DirOf[f] = d => ~Present(sid[r], f)
  /\ made' = [made EXCEPT ![sid[r]] = @ \ {d}]
  /\ UNCHANGED <<request, pc, sid, left, open, workDir, jar, disk, memory, alive>>

CommandEnds(r) ==
  /\ r \in alive
  /\ alive' = alive \ {r}
  /\ UNCHANGED <<request, pc, sid, left, open, workDir, jar, stored, memory>>

\* docker exec ends with the command, and Execute with it.
Finish(r) ==
  /\ pc[r] = "running" /\ r \notin alive
  /\ Goto(r, "finished")
  /\ UNCHANGED <<request, sid, left, open, workDir, jar, stored, memory, alive>>

\* POST /kill ends docker exec, and Execute with it; the command in the container goes on.
Killed(r) ==
  /\ pc[r] = "running"
  /\ Goto(r, "finished")
  /\ UNCHANGED <<request, sid, left, open, workDir, jar, stored, memory, alive>>

\* The server crashes and starts again: requests in flight and queued jobs are lost;
\* a command that runs in the container goes on, and nobody waits for it.
Restart ==
  /\ pc' = [r \in Reqs |-> CASE pc[r] \in Handling -> "lost"
                             [] pc[r] \in {"queued", "running"} -> "dropped"
                             [] OTHER -> pc[r]]
  /\ sessions' = {}
  /\ queue' = <<>>
  /\ open' = [r \in Reqs |-> None]
  /\ UNCHANGED <<request, sid, left, workDir, jar, stored, alive>>
-----------------------------------------------------------------------------
Handle(r) ==
  \/ Arrive(r) \/ ChooseSession(r)
  \/ MakeBase(r) \/ MakeCwd(r) \/ MakeFails(r) \/ DetectWorkDir(r)
  \/ \E f \in Files : OpenFile(r, f)
  \/ WriteContent(r) \/ WriteFails(r) \/ WriteEnds(r)
  \/ GetOrCreate(r) \/ Enqueue(r)

Job(r) == Begin(r) \/ Finish(r) \/ Killed(r)

Command(r) ==
  \/ \E f \in Files : CommandWrites(r, f) \/ CommandRemoves(r, f)
  \/ \E d \in Dirs : CommandRemovesDir(r, d)
  \/ CommandEnds(r)

Next == Restart \/ \E r \in Reqs : Handle(r) \/ Job(r) \/ Command(r)

Spec == Init /\ [][Next]_vars
-----------------------------------------------------------------------------
(* Properties.                                                             *)

\* q's command may have changed r's workspace since r was sent, or may still.
Lingers(q, r) == q # r /\ sid[q] = sid[r] /\ (q \notin before[r] \/ q \in busy[r])

Removes(q, r, f) == Lingers(q, r) /\ f \in req[q].touches

\* q writes f in r's workspace, and was not done with it when r was sent.
Overlaps(q, r, f) ==
  \/ q # r /\ sid[q] = sid[r] /\ f \in req[q].files /\ q \notin before[r]
  \/ Removes(q, r, f)

\* r's job has not begun, or its command leaves f alone.
Untouched(r, f) ==
  \/ pc[r] = "queued"
  \/ pc[r] = "running" /\ f \notin req[r].touches

\* From its acceptance on, a job finds in each file of its request, until its own command
\* changes it, that request's content; nothing older, however the requests before it
\* ended, and nothing else but what another request in progress does to the file, or a
\* command that had not ended in the container when the request was sent. A job that was
\* killed, or whose server crashed, may still be such a command.
NoStaleFile ==
  \A r \in Reqs : \A f \in req[r].files :
    Untouched(r, f) =>
      LET content == disk[sid[r]][f]
      IN  /\ content = Absent => \E q \in Reqs : Removes(q, r, f)
          /\ content \notin {Absent, {r}} =>
               /\ \A q \in content \ {r} : Overlaps(q, r, f)
               /\ \E q \in Reqs : Overlaps(q, r, f)

\* A queued job has its session in memory and its workspace on disk, also when requests
\* failed half-way or the server restarted; so it has its directories and files, unless
\* the command of another that had not ended when it was sent removed them.
JobReady ==
  \A r \in Reqs : pc[r] = "queued" =>
    /\ sid[r] \in sessions /\ Root \in made[sid[r]]
    /\ \A d \in {req[r].cwd, workDir[r]} \ made[sid[r]] :
         \E q \in Reqs : Lingers(q, r) /\ d \in Emptied(q)
    /\ \A f \in req[r].files : ~Present(sid[r], f) => \E q \in Reqs : Removes(q, r, f)

\* A client that sends the cookie of a request that was accepted, and names no session,
\* keeps its session, across restarts too.
SessionKept ==
  \A r, q \in Reqs :
    /\ q \in before[r] /\ pc[q] \in Accepted
    /\ cookie[r] = sid[q] /\ req[r].header = None /\ sid[r] # None
    => sid[r] = sid[q]
-----------------------------------------------------------------------------
(* The inductive invariant behind NoStaleFile, JobReady and SessionKept.   *)

\* From the choice of the session on a request has one, until then none.
SidInv ==
  \A r \in Reqs :
    /\ pc[r] \in {"new", "session", "rejected"} => sid[r] = None
    /\ pc[r] \in (Handling \cup Accepted) \ {"session"} =>
         sid[r] \in SessionIDs

\* Only files of the request are left to be written or open, and only while it writes.
OpenInv ==
  \A r \in Reqs :
    /\ pc[r] = "write" => left[r] \subseteq req[r].files
    /\ open[r] # None => pc[r] = "write" /\ open[r] \in req[r].files \ left[r]

\* Each job in the queue waits there, once.
QueueInv ==
  /\ \A i \in 1..Len(queue) : pc[queue[i]] = "queued"
  /\ \A i, k \in 1..Len(queue) : queue[i] = queue[k] => i = k

\* A command that runs is that of a job that began.
AliveInv == \A r \in alive : pc[r] \in {"running", "finished", "dropped"}

\* d is on disk, unless a command removed it.
Kept(r, d) == d \in made[sid[r]] \/ \E q \in Reqs : Lingers(q, r) /\ d \in Emptied(q)

\* What a request has made so far stays on disk, and its session in memory until a restart.
PlaceOK(r) ==
  /\ pc[r] \in (Handling \cup Accepted) \ {"session", "base"} => Root \in made[sid[r]]
  /\ pc[r] \in {"detect", "write", "create", "enqueue", "queued"} => Kept(r, req[r].cwd)
  /\ pc[r] \in {"write", "create", "enqueue", "queued"} => Kept(r, workDir[r])
  /\ pc[r] \in {"enqueue", "queued"} => sid[r] \in sessions

PlaceInv == \A r \in Reqs : PlaceOK(r)

\* What had ended when r was sent does not begin again, and what had still to end then
\* is what r found busy.
PastInv ==
  \A r, q \in Reqs : q \in before[r] =>
    /\ pc[q] \in Ended
    /\ pc[q] \in {"queued", "running"} \/ q \in alive => q \in busy[r]

\* r has opened f: it truncated it; its own command has left it alone.
Opened(r, f) ==
  \/ pc[r] \in {"create", "enqueue"}
  \/ pc[r] = "write" /\ f \notin left[r]
  \/ Untouched(r, f)

\* From then on f has the content of r and of those that overlap it, and once r has
\* written it, its own alone unless another overlaps it.
FileOK(r, f) ==
  LET content == disk[sid[r]][f]
  IN  /\ content = Absent => open[r] # f /\ \E q \in Reqs : Removes(q, r, f)
      /\ content # Absent => \A q \in content \ {r} : Overlaps(q, r, f)
      /\ content \notin {Absent, {r}} /\ open[r] # f => \E q \in Reqs : Overlaps(q, r, f)

FileInv == \A r \in Reqs : \A f \in req[r].files : Opened(r, f) => FileOK(r, f)

IInv ==
  /\ TypeOK /\ SidInv /\ OpenInv /\ QueueInv /\ AliveInv /\ PlaceInv /\ PastInv
  /\ FileInv /\ SessionKept
=============================================================================
