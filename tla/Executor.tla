------------------------------ MODULE Executor ------------------------------
(***************************************************************************)
(* One call of Executor.Execute (internal/executor/docker.go): it starts   *)
(* `docker exec`, streams the lines of its two output pipes through two    *)
(* goroutines, waits for both and for the process, and reports the end.    *)
(*                                                                         *)
(* The process, the pipes and the part of os/exec that kills the process   *)
(* when the context is cancelled are external: they are modelled by what   *)
(* Execute relies on. A message is sent in one step; module SessionManager *)
(* has what Send does.                                                     *)
(***************************************************************************)
EXTENDS Naturals, Sequences

CONSTANTS
  Streams,   \* {"stdout", "stderr"}
  Commands,  \* what commands do: the lines they write, in order, and their end
  PipeCap    \* how many lines a pipe holds

\* A line is overlong when it exceeds the scanner's 1 MB; what it has beyond that is
\* counted as further lines.
Line == [stream : Streams, overlong : BOOLEAN]
Command == [output : Seq(Line), ends : {"ok", "fail", "never"}]

ASSUME Assumptions ==
  /\ PipeCap \in Nat \ {0}
  /\ \A c \in Commands : c \in Command
  /\ Streams \cap {"error", "done"} = {}

VARIABLES
  cmd,        \* the command of the job
  pc,         \* where Execute is
  failed,     \* whether Execute has a failure to report
  proc,       \* the process
  written,    \* how many lines the process has written
  pipe,       \* the positions in cmd.output of the lines in each pipe
  readerPc,   \* where the goroutine that reads each pipe is
  line,       \* the line it has scanned
  log,        \* the messages sent for the job, in order
  cancelled   \* whether the job's context is cancelled

process == <<proc, written>>
readers == <<pipe, readerPc, line>>
vars == <<cmd, pc, failed, proc, written, pipe, readerPc, line, log, cancelled>>

Lines == cmd.output
Positions == 1..Len(Lines)

\* A message: a line of a stream by its position, or the error, or the done signal.
Message(type, n) == [type |-> type, n |-> n]

TypeOK ==
  /\ cmd \in Commands
  /\ pc \in {"start", "wg", "wait", "error", "done", "returned"}
  /\ failed \in BOOLEAN
  /\ proc \in {"none", "running", "exited", "reaped"}
  /\ written \in 0..Len(Lines)
  /\ pipe \in [Streams -> Seq(Positions)]
  /\ \A s \in Streams : Len(pipe[s]) <= PipeCap
  /\ readerPc \in [Streams -> {"none", "scan", "send", "ended"}]
  /\ line \in [Streams -> 0..Len(Lines)]
  /\ log \in Seq([type : Streams \cup {"error", "done"}, n : 0..Len(Lines)])
  /\ cancelled \in BOOLEAN

Init ==
  /\ cmd \in Commands
  /\ pc = "start"
  /\ failed = FALSE
  /\ proc = "none"
  /\ written = 0
  /\ pipe = [s \in Streams |-> <<>>]
  /\ readerPc = [s \in Streams |-> "none"]
  /\ line = [s \in Streams |-> 0]
  /\ log = <<>>
  /\ cancelled = FALSE
-----------------------------------------------------------------------------
(* Execute. Start refuses a context that is already cancelled; creating a   *)
(* pipe or starting the process may fail at any time.                      *)

Start ==
  /\ pc = "start" /\ ~cancelled
  /\ pc' = "wg"
  /\ proc' = "running"
  /\ readerPc' = [s \in Streams |-> "scan"]
  /\ UNCHANGED <<cmd, failed, written, pipe, line, log, cancelled>>

\* Mutant: reports the end of a command that did not start, and no error.
StartFailsQuietly ==
  /\ pc = "start"
  /\ pc' = "done"
  /\ UNCHANGED <<cmd, failed, process, readers, log, cancelled>>

\* sendError: the error, then the done signal.
StartFails ==
  /\ pc = "start"
  /\ pc' = "error"
  /\ UNCHANGED <<cmd, failed, process, readers, log, cancelled>>

\* Mutant: does not wait for the goroutines that read the pipes.
WaitNobody ==
  /\ pc = "wg"
  /\ pc' = "wait"
  /\ UNCHANGED <<cmd, failed, process, readers, log, cancelled>>

WaitReaders ==
  /\ pc = "wg"
  /\ \A s \in Streams : readerPc[s] = "ended"
  /\ pc' = "wait"
  /\ UNCHANGED <<cmd, failed, process, readers, log, cancelled>>

\* cmd.Wait reaps the process; it fails if the process did, or was signalled.
WaitProcess ==
  /\ pc = "wait" /\ proc = "exited"
  /\ proc' = "reaped"
  /\ pc' = IF failed THEN "error" ELSE "done"
  /\ UNCHANGED <<cmd, failed, written, readers, log, cancelled>>

SendError ==
  /\ pc = "error"
  /\ log' = Append(log, Message("error", 0))
  /\ pc' = "done"
  /\ UNCHANGED <<cmd, failed, process, readers, cancelled>>

\* Mutant: the done signal carries no type.
SendUntyped ==
  /\ pc = "done"
  /\ log' = Append(log, Message("", 0))
  /\ pc' = "returned"
  /\ UNCHANGED <<cmd, failed, process, readers, cancelled>>

SendDone ==
  /\ pc = "done"
  /\ log' = Append(log, Message("done", 0))
  /\ pc' = "returned"
  /\ UNCHANGED <<cmd, failed, process, readers, cancelled>>
-----------------------------------------------------------------------------
(* The goroutine that reads stream s.                                      *)

\* Mutant: both goroutines scan into one variable.
ScanShared(s) ==
  /\ readerPc[s] = "scan"
  /\ pipe[s] # <<>> /\ ~Lines[Head(pipe[s])].overlong
  /\ line' = [r \in Streams |-> Head(pipe[s])]
  /\ pipe' = [pipe EXCEPT ![s] = Tail(@)]
  /\ readerPc' = [readerPc EXCEPT ![s] = "send"]
  /\ UNCHANGED <<cmd, pc, failed, process, log, cancelled>>

\* Mutant: reads stderr only once stdout is at its end.
ScanInTurn(s) ==
  /\ readerPc[s] = "scan"
  /\ s # "stdout" => readerPc["stdout"] = "ended"
  /\ pipe[s] # <<>> /\ ~Lines[Head(pipe[s])].overlong
  /\ line' = [line EXCEPT ![s] = Head(pipe[s])]
  /\ pipe' = [pipe EXCEPT ![s] = Tail(@)]
  /\ readerPc' = [readerPc EXCEPT ![s] = "send"]
  /\ UNCHANGED <<cmd, pc, failed, process, log, cancelled>>

\* The scanner returns the next line.
Scan(s) ==
  /\ readerPc[s] = "scan"
  /\ pipe[s] # <<>> /\ ~Lines[Head(pipe[s])].overlong
  /\ line' = [line EXCEPT ![s] = Head(pipe[s])]
  /\ pipe' = [pipe EXCEPT ![s] = Tail(@)]
  /\ readerPc' = [readerPc EXCEPT ![s] = "send"]
  /\ UNCHANGED <<cmd, pc, failed, process, log, cancelled>>

\* The scanner gives up on an overlong line: the goroutine ends, and the pipe stays
\* open until the process is reaped, with nobody to read it.
ScanTooLong(s) ==
  /\ readerPc[s] = "scan"
  /\ pipe[s] # <<>> /\ Lines[Head(pipe[s])].overlong
  /\ pipe' = [pipe EXCEPT ![s] = Tail(@)]
  /\ readerPc' = [readerPc EXCEPT ![s] = "ended"]
  /\ UNCHANGED <<cmd, pc, failed, process, line, log, cancelled>>

\* Mutant: stops reading when the process has ended, with lines still in the pipe.
ScanEnded(s) ==
  /\ readerPc[s] = "scan"
  /\ proc = "exited"
  /\ readerPc' = [readerPc EXCEPT ![s] = "ended"]
  /\ UNCHANGED <<cmd, pc, failed, process, pipe, line, log, cancelled>>

ScanEOF(s) ==
  /\ readerPc[s] = "scan"
  /\ pipe[s] = <<>> /\ proc = "exited"
  /\ readerPc' = [readerPc EXCEPT ![s] = "ended"]
  /\ UNCHANGED <<cmd, pc, failed, process, pipe, line, log, cancelled>>

SendLine(s) ==
  /\ readerPc[s] = "send"
  /\ log' = Append(log, Message(s, line[s]))
  /\ readerPc' = [readerPc EXCEPT ![s] = "scan"]
  /\ UNCHANGED <<cmd, pc, failed, process, pipe, line, cancelled>>
-----------------------------------------------------------------------------
(* The process, and the context.                                           *)

\* Writes its next line, when the pipe has room for it.
Write ==
  /\ proc = "running" /\ written < Len(Lines)
  /\ LET s == Lines[written + 1].stream
     IN  /\ Len(pipe[s]) < PipeCap
         /\ pipe' = [pipe EXCEPT ![s] = Append(@, written + 1)]
  /\ written' = written + 1
  /\ UNCHANGED <<cmd, pc, failed, proc, readerPc, line, log, cancelled>>

ProcessExit ==
  /\ proc = "running" /\ written = Len(Lines) /\ cmd.ends # "never"
  /\ proc' = "exited"
  /\ failed' = (cmd.ends = "fail")
  /\ UNCHANGED <<cmd, pc, written, readers, log, cancelled>>

\* Mutant: the context is watched only from cmd.Wait on.
KilledInWait ==
  /\ cancelled /\ proc \in {"running", "exited"} /\ pc = "wait"
  /\ proc' = "exited"
  /\ failed' = TRUE
  /\ UNCHANGED <<cmd, pc, written, readers, log, cancelled>>

\* The kill of a process that has not been reaped succeeds, and Wait reports it, also
\* when the process had ended well.
ProcessKilled ==
  /\ cancelled /\ proc \in {"running", "exited"}
  /\ proc' = "exited"
  /\ failed' = TRUE
  /\ UNCHANGED <<cmd, pc, written, readers, log, cancelled>>

\* POST /kill.
CancelContext ==
  /\ pc # "returned"
  /\ cancelled' = TRUE
  /\ UNCHANGED <<cmd, pc, failed, process, readers, log>>
-----------------------------------------------------------------------------
Execute == Start \/ StartFails \/ WaitReaders \/ WaitProcess \/ SendError \/ SendDone

Reader(s) == Scan(s) \/ ScanTooLong(s) \/ ScanEOF(s) \/ SendLine(s)

Process == Write \/ ProcessExit

Next ==
  \/ Execute
  \/ \E s \in Streams : Reader(s)
  \/ Process \/ ProcessKilled \/ CancelContext

Spec == Init /\ [][Next]_vars

(* Every goroutine takes a step when it can, and so does the process: a    *)
(* command that never ends is one whose end is "never".                    *)
Fairness ==
  /\ WF_vars(Execute)
  /\ \A s \in Streams : WF_vars(Reader(s))
  /\ WF_vars(Process) /\ WF_vars(ProcessKilled)

FairSpec == Spec /\ Fairness
-----------------------------------------------------------------------------
(* Properties.                                                             *)

HasOverlong == \E i \in Positions : Lines[i].overlong
Failed == \E i \in 1..Len(log) : log[i].type = "error"

\* The positions of the lines of stream s among the first k, and of those sent.
Emitted(s, k) == {p \in 1..k : Lines[p].stream = s}
Received(s) == {log[i].n : i \in {x \in 1..Len(log) : log[x].type = s}}

\* The log of a job ends with one done signal, sent when everything else was: no line
\* of either goroutine comes after it, nor after the error that may precede it.
DoneIsLast ==
  \A i \in 1..Len(log) :
    /\ log[i].type = "done" => i = Len(log) /\ pc = "returned"
    /\ log[i].type = "error" => \A k \in (i + 1)..Len(log) : log[k].type = "done"

\* A client is told of an error exactly when the command did not start, failed, or was
\* killed before it was reaped.
ErrorIsTold ==
  pc = "returned" => (Failed <=> failed \/ proc = "none")

\* Of each stream a client receives the first lines written to it, each once, in order.
StreamInOrder ==
  \A s \in Streams :
    /\ \E k \in 0..written : Received(s) = Emitted(s, k)
    /\ \A i, k \in 1..Len(log) :
         log[i].type = s /\ log[k].type = s /\ i < k => log[i].n < log[k].n

\* Without an overlong line nothing is lost between the process and the log: when done
\* is sent every line that was written has been, also those still in the pipes at a kill.
NothingLost ==
  pc = "returned" /\ ~HasOverlong =>
    \A s \in Streams : Received(s) = Emitted(s, written)

\* A kill ends the job, whatever its command does, even with a reader that gave up.
CancelReturns == cancelled ~> pc = "returned"

\* A command that ends by itself ends the job, unless it writes an overlong line: then
\* it may block on a pipe that nobody reads.
EndsByItself == cmd.ends # "never" /\ ~HasOverlong ~> pc = "returned"
-----------------------------------------------------------------------------
(* The inductive invariant behind the safety properties.                   *)

\* The goroutines run only while Execute waits for them, and the process until it is
\* reaped.
PhaseInv ==
  /\ pc # "wg" => \A s \in Streams : readerPc[s] \in {"none", "ended"}
  /\ pc = "start" => proc = "none" /\ ~failed
  /\ pc \in {"wg", "wait"} => proc \in {"running", "exited"}
  /\ pc \in {"error", "done", "returned"} => proc \in {"none", "reaped"}

\* The error is sent before done, and only when there is one to report.
ErrorInv ==
  /\ pc \in {"start", "wg", "wait", "error"} => ~Failed
  /\ pc = "error" => failed \/ proc = "none"
  /\ pc \in {"done", "returned"} => (Failed <=> failed \/ proc = "none")

\* Nothing is sent after done, nor between the error and done.
EndInv ==
  /\ \A i \in 1..Len(log) : log[i].type = "done" => i = Len(log) /\ pc = "returned"
  /\ \A i \in 1..Len(log) :
       log[i].type = "error" => \A k \in (i + 1)..Len(log) : log[k].type = "done"
  /\ pc = "done" => \A i \in 1..Len(log) : log[i].type = "error" => i = Len(log)

\* A pipe has, in order, the lines of its stream that were written and not yet scanned,
\* all of them unless its reader gave up.
PipeInv(s) ==
  /\ \A i \in 1..Len(pipe[s]) :
       pipe[s][i] \in (line[s] + 1)..written /\ Lines[pipe[s][i]].stream = s
  /\ \A i, k \in 1..Len(pipe[s]) : i < k => pipe[s][i] < pipe[s][k]
  /\ readerPc[s] # "ended" \/ ~HasOverlong =>
       \A p \in (line[s] + 1)..written :
         Lines[p].stream = s => \E i \in 1..Len(pipe[s]) : pipe[s][i] = p

\* The log has, in order, the lines that were scanned, but for the one about to be sent.
Unsent(s) == IF readerPc[s] = "send" THEN {line[s]} ELSE {}

SentInv(s) ==
  /\ line[s] <= written
  /\ readerPc[s] = "send" => line[s] > 0 /\ Lines[line[s]].stream = s
  /\ \A i \in 1..Len(log) : log[i].type = s =>
       log[i].n \in (1..line[s]) \ Unsent(s) /\ Lines[log[i].n].stream = s
  /\ \A p \in (1..line[s]) \ Unsent(s) :
       Lines[p].stream = s => \E i \in 1..Len(log) : log[i].type = s /\ log[i].n = p
  /\ \A i, k \in 1..Len(log) :
       log[i].type = s /\ log[k].type = s /\ i < k => log[i].n < log[k].n

\* Until the process starts nothing is written; a reader that did not give up ends with
\* its pipe empty and nobody left to write to it.
ReaderInv(s) ==
  /\ proc = "none" => written = 0
  /\ readerPc[s] = "none" => proc = "none"
  /\ readerPc[s] = "ended" /\ ~HasOverlong => pipe[s] = <<>> /\ proc \in {"exited", "reaped"}

StreamInv == \A s \in Streams : PipeInv(s) /\ SentInv(s) /\ ReaderInv(s)

IInv == TypeOK /\ PhaseInv /\ ErrorInv /\ EndInv /\ StreamInv
=============================================================================
