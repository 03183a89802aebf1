--------------------------- MODULE ExecutorProofs ---------------------------
(* Proofs about Executor, for any streams, commands and size of the pipes. *)
EXTENDS Executor, TLAPS

\* The messages of a job.
Entry == [type : Streams \cup {"error", "done"}, n : 0..Len(Lines)]

\* The output of the command is a sequence of lines.
LEMMA LinesFacts ==
  ASSUME TypeOK
  PROVE  /\ Lines \in Seq(Line)
         /\ Len(Lines) \in Nat
<1>1. cmd \in Command
  BY Assumptions DEF TypeOK
<1> QED BY <1>1 DEF Lines, Command

\* The invariant holds when the call starts.
LEMMA InitInv == Init => IInv
<1> SUFFICES ASSUME Init PROVE IInv
  OBVIOUS
<1>1. Lines \in Seq(Line) /\ Len(Lines) \in Nat
  <2>1. cmd \in Command
    BY Assumptions DEF Init
  <2> QED BY <2>1 DEF Lines, Command
<1>2. TypeOK
  <2>0. Len(<<>>) = 0 /\ 0 <= PipeCap
    BY Assumptions
  <2>1. \A s \in Streams : Len(pipe[s]) <= PipeCap
    BY <2>0 DEF Init
  <2>2. pipe \in [Streams -> Seq(Positions)]
    <3>1. <<>> \in Seq(Positions)
      OBVIOUS
    <3> QED BY <3>1 DEF Init
  <2>3. log \in Seq([type : Streams \cup {"error", "done"}, n : 0..Len(Lines)])
    BY DEF Init
  <2>4. written \in 0..Len(Lines) /\ line \in [Streams -> 0..Len(Lines)]
    BY <1>1 DEF Init
  <2> QED BY <2>1, <2>2, <2>3, <2>4 DEF Init, TypeOK
<1>3. PhaseInv /\ ErrorInv /\ EndInv
  BY DEF Init, PhaseInv, ErrorInv, EndInv, Failed
<1>4. StreamInv
  <2> SUFFICES ASSUME NEW s \in Streams PROVE PipeInv(s) /\ SentInv(s) /\ ReaderInv(s)
    BY DEF StreamInv
  <2>1. /\ pipe[s] = <<>> /\ line[s] = 0 /\ written = 0 /\ readerPc[s] = "none"
        /\ proc = "none" /\ log = <<>>
    BY DEF Init
  <2>2. PipeInv(s)
    BY <2>1 DEF PipeInv
  <2>3. SentInv(s)
    BY <2>1 DEF SentInv, Unsent
  <2> QED BY <2>1, <2>2, <2>3 DEF ReaderInv
<1> QED BY <1>2, <1>3, <1>4 DEF IInv

\* Each step keeps the types.
LEMMA TypeStep == TypeOK /\ [Next]_vars => TypeOK'
<1> SUFFICES ASSUME TypeOK, [Next]_vars PROVE TypeOK'
  OBVIOUS
<1>0. Lines \in Seq(Line) /\ Len(Lines) \in Nat
  BY LinesFacts
<1>a. cmd' = cmd /\ Lines' = Lines
  BY DEF Next, Execute, Start, StartFails, WaitReaders, WaitProcess, SendError, SendDone,
         Reader, Scan, ScanTooLong, ScanEOF, SendLine, Process, Write, ProcessExit,
         ProcessKilled, CancelContext, vars, Lines
<1> USE DEF TypeOK, process, readers
<1>1. CASE Start
  BY <1>1, <1>a DEF Start, Positions
<1>2. CASE StartFails \/ WaitReaders
  BY <1>2, <1>a DEF StartFails, WaitReaders, Positions
<1>3. CASE WaitProcess
  BY <1>3, <1>a DEF WaitProcess, Positions
<1>4. CASE SendError
  <2>1. Message("error", 0) \in Entry
    BY <1>0 DEF Message, Entry
  <2>2. log' \in Seq(Entry)
    BY <1>4, <2>1 DEF SendError, Entry
  <2> QED BY <1>4, <1>a, <2>2 DEF SendError, Positions, Entry
<1>5. CASE SendDone
  <2>1. Message("done", 0) \in Entry
    BY <1>0 DEF Message, Entry
  <2>2. log' \in Seq(Entry)
    BY <1>5, <2>1 DEF SendDone, Entry
  <2> QED BY <1>5, <1>a, <2>2 DEF SendDone, Positions, Entry
<1>6. ASSUME NEW s \in Streams, Scan(s) \/ ScanTooLong(s) PROVE TypeOK'
  <2>1. pipe[s] \in Seq(Positions) /\ pipe[s] # <<>>
    BY <1>6 DEF Scan, ScanTooLong
  <2>2. Head(pipe[s]) \in Positions /\ Tail(pipe[s]) \in Seq(Positions)
    BY <2>1
  <2>3. Len(Tail(pipe[s])) <= PipeCap
    BY <2>1, Assumptions
  <2>4. pipe' = [pipe EXCEPT ![s] = Tail(@)]
    BY <1>6 DEF Scan, ScanTooLong
  <2>5. pipe' \in [Streams -> Seq(Positions)]
    BY <2>2, <2>4
  <2>8. \A r \in Streams : Len(pipe'[r]) <= PipeCap
    BY <2>3, <2>4
  <2>6. line' \in [Streams -> 0..Len(Lines)]
    <3>1. Head(pipe[s]) \in 0..Len(Lines)
      BY <2>2, <1>0 DEF Positions
    <3>2. line' = line \/ line' = [line EXCEPT ![s] = Head(pipe[s])]
      BY <1>6 DEF Scan, ScanTooLong
    <3>3. line \in [Streams -> 0..Len(Lines)]
      OBVIOUS
    <3> HIDE DEF TypeOK
    <3> QED BY <3>1, <3>2, <3>3
  <2>7. readerPc' \in [Streams -> {"none", "scan", "send", "ended"}]
    BY <1>6 DEF Scan, ScanTooLong
  <2> QED BY <1>6, <1>a, <2>5, <2>8, <2>6, <2>7 DEF Scan, ScanTooLong, Positions
<1>7. ASSUME NEW s \in Streams, ScanEOF(s) PROVE TypeOK'
  BY <1>7, <1>a DEF ScanEOF, Positions
<1>8. ASSUME NEW s \in Streams, SendLine(s) PROVE TypeOK'
  <2>1. Message(s, line[s]) \in Entry /\ log \in Seq(Entry)
    BY DEF Message, Entry
  <2>2. log' = Append(log, Message(s, line[s]))
    BY <1>8 DEF SendLine
  <2>3. log' \in Seq(Entry)
    BY <2>1, <2>2
  <2> QED BY <1>8, <1>a, <2>3 DEF SendLine, Positions, Entry
<1>9. CASE Write
  <2> DEFINE s == Lines[written + 1].stream
  <2>1. written + 1 \in Positions
    BY <1>9, <1>0 DEF Write, Positions
  <2>2. s \in Streams
    <3>1. Lines[written + 1] \in Line
      BY <2>1, <1>0 DEF Positions
    <3> QED BY <3>1 DEF Line
  <2> HIDE DEF s
  <2>3. pipe[s] \in Seq(Positions) /\ Len(pipe[s]) \in Nat
    BY <2>2
  <2>4. pipe' = [pipe EXCEPT ![s] = Append(@, written + 1)] /\ Len(pipe[s]) < PipeCap
    BY <1>9 DEF Write, s
  <2>5. Append(pipe[s], written + 1) \in Seq(Positions)
    BY <2>1, <2>3
  <2>6. Len(Append(pipe[s], written + 1)) <= PipeCap
    BY <2>3, <2>4, Assumptions
  <2>7. pipe' \in [Streams -> Seq(Positions)] /\ \A r \in Streams : Len(pipe'[r]) <= PipeCap
    BY <2>2, <2>4, <2>5, <2>6
  <2>8. written' \in 0..Len(Lines)
    BY <1>9, <2>1, <1>0 DEF Write, Positions
  <2> QED BY <1>9, <1>a, <2>7, <2>8 DEF Write, Positions
<1>10. CASE ProcessExit \/ ProcessKilled \/ CancelContext
  BY <1>10, <1>a DEF ProcessExit, ProcessKilled, CancelContext, Positions
<1>11. CASE UNCHANGED vars
  BY <1>11, <1>a DEF vars, Positions
<1> QED BY <1>1, <1>2, <1>3, <1>4, <1>5, <1>6, <1>7, <1>8, <1>9, <1>10, <1>11
        DEF Next, Execute, Reader, Process

\* Each step keeps the phases of Execute, its goroutines and the process in line.
LEMMA PhaseStep == IInv /\ [Next]_vars => PhaseInv'
<1> SUFFICES ASSUME IInv, [Next]_vars PROVE PhaseInv'
  OBVIOUS
<1> USE DEF IInv, TypeOK, PhaseInv, process, readers
<1>1. CASE Start
  BY <1>1 DEF Start
<1>2. CASE StartFails
  BY <1>2 DEF StartFails
<1>3. CASE WaitReaders
  BY <1>3 DEF WaitReaders
<1>4. CASE WaitProcess
  BY <1>4 DEF WaitProcess
<1>5. CASE SendError \/ SendDone
  BY <1>5 DEF SendError, SendDone
<1>6. ASSUME NEW s \in Streams, Reader(s) PROVE PhaseInv'
  <2>1. pc = "wg"
    BY <1>6 DEF Reader, Scan, ScanTooLong, ScanEOF, SendLine
  <2> QED BY <1>6, <2>1 DEF Reader, Scan, ScanTooLong, ScanEOF, SendLine
<1>7. CASE Write \/ ProcessExit
  BY <1>7 DEF Write, ProcessExit
<1>8. CASE ProcessKilled
  BY <1>8 DEF ProcessKilled
<1>9. CASE CancelContext \/ UNCHANGED vars
  BY <1>9 DEF CancelContext, vars
<1> QED BY <1>1, <1>2, <1>3, <1>4, <1>5, <1>6, <1>7, <1>8, <1>9 DEF Next, Execute, Process

\* What a message appended to the log does to it.
LEMMA AppendFacts ==
  ASSUME TypeOK, NEW m, log' = Append(log, m)
  PROVE  /\ Len(log) \in Nat /\ Len(log') = Len(log) + 1
         /\ \A i \in 1..Len(log) : log'[i] = log[i]
         /\ log'[Len(log')] = m
  BY DEF TypeOK

\* Each step keeps what is said of the end of the log.
LEMMA EndStep == IInv /\ [Next]_vars => (ErrorInv /\ EndInv)'
<1> SUFFICES ASSUME IInv, [Next]_vars PROVE (ErrorInv /\ EndInv)'
  OBVIOUS
<1> USE DEF ErrorInv, EndInv, Failed
<1>1. CASE SendError
  <2>1. log' = Append(log, Message("error", 0)) /\ pc = "error" /\ pc' = "done"
    BY <1>1 DEF SendError
  <2>2. \A i \in 1..Len(log) : log[i].type \notin {"error", "done"}
    BY <2>1 DEF IInv
  <2>3. /\ Len(log) \in Nat /\ Len(log') = Len(log) + 1
        /\ \A i \in 1..Len(log) : log'[i] = log[i]
        /\ log'[Len(log')].type = "error"
    BY <2>1, AppendFacts DEF IInv, Message
  <2>4. Failed' /\ (failed' \/ proc' = "none")
    BY <1>1, <2>3 DEF SendError, IInv, process
  <2>5. \A i \in 1..Len(log') : log'[i].type # "done"
    BY <2>2, <2>3
  <2>6. \A i \in 1..Len(log') : log'[i].type = "error" => i = Len(log')
    BY <2>2, <2>3
  <2> QED BY <2>1, <2>3, <2>4, <2>5, <2>6
<1>2. CASE SendDone
  <2>1. log' = Append(log, Message("done", 0)) /\ pc = "done" /\ pc' = "returned"
    BY <1>2 DEF SendDone
  <2>2. /\ Len(log) \in Nat /\ Len(log') = Len(log) + 1
        /\ \A i \in 1..Len(log) : log'[i] = log[i]
        /\ log'[Len(log')].type = "done"
    BY <2>1, AppendFacts DEF IInv, Message
  <2>3. Failed' <=> Failed
    BY <2>2
  <2>4. ErrorInv'
    BY <1>2, <2>1, <2>3 DEF SendDone, IInv, process
  <2>5. \A i \in 1..Len(log) : log[i].type # "done"
    BY <2>1 DEF IInv
  <2>6. \A i \in 1..Len(log) : log[i].type = "error" => i = Len(log)
    BY <2>1 DEF IInv
  <2>7. \A i \in 1..Len(log') :
          log'[i].type = "error" => \A k \in (i + 1)..Len(log') : log'[k].type = "done"
    BY <2>2, <2>6
  <2> QED BY <2>1, <2>2, <2>4, <2>5, <2>7
<1>3. ASSUME NEW s \in Streams, SendLine(s) PROVE (ErrorInv /\ EndInv)'
  <2>1. log' = Append(log, Message(s, line[s])) /\ pc = "wg"
    BY <1>3 DEF SendLine, IInv, PhaseInv
  <2>2. /\ Len(log) \in Nat /\ Len(log') = Len(log) + 1
        /\ \A i \in 1..Len(log) : log'[i] = log[i]
        /\ log'[Len(log')].type = s
    BY <2>1, AppendFacts DEF IInv, Message
  <2>3. s \notin {"error", "done"}
    BY Assumptions
  <2>4. \A i \in 1..Len(log) : log[i].type \notin {"error", "done"}
    BY <2>1 DEF IInv
  <2>5. \A i \in 1..Len(log') : log'[i].type \notin {"error", "done"}
    BY <2>2, <2>3, <2>4
  <2>6. pc' = "wg"
    BY <1>3, <2>1 DEF SendLine
  <2> QED BY <2>5, <2>6
<1>4. ASSUME NEW s \in Streams, Scan(s) \/ ScanTooLong(s) \/ ScanEOF(s)
      PROVE  (ErrorInv /\ EndInv)'
  <2>1. UNCHANGED <<log, pc, failed, proc>>
    BY <1>4 DEF Scan, ScanTooLong, ScanEOF, process
  <2> QED BY <2>1 DEF IInv
<1>5. CASE Start \/ StartFails \/ WaitReaders \/ WaitProcess
  <2>1. log' = log /\ failed' = failed /\ ~Failed
    BY <1>5 DEF Start, StartFails, WaitReaders, WaitProcess, IInv
  <2>2. ErrorInv'
    BY <1>5, <2>1 DEF Start, StartFails, WaitReaders, WaitProcess, IInv, PhaseInv, process
  <2>3. pc \notin {"done", "returned"}
    BY <1>5 DEF Start, StartFails, WaitReaders, WaitProcess
  <2>4. EndInv'
    BY <2>1, <2>3 DEF IInv
  <2> QED BY <2>2, <2>4
<1>6. CASE Write \/ ProcessExit \/ ProcessKilled
  <2>1. log' = log /\ pc' = pc /\ pc \notin {"error", "done", "returned"}
    BY <1>6 DEF Write, ProcessExit, ProcessKilled, IInv, PhaseInv
  <2> QED BY <2>1 DEF IInv, TypeOK
<1>7. CASE CancelContext \/ UNCHANGED vars
  <2>1. UNCHANGED <<log, pc, failed, proc>>
    BY <1>7 DEF CancelContext, vars, process
  <2> QED BY <2>1 DEF IInv
<1> QED BY <1>1, <1>2, <1>3, <1>4, <1>5, <1>6, <1>7 DEF Next, Execute, Reader, Process

\* A step that leaves the log and stream s alone, but for the end of the process.
LEMMA StreamFrame ==
  ASSUME IInv, NEW s \in Streams,
         cmd' = cmd, log' = log, written' = written,
         pipe'[s] = pipe[s], line'[s] = line[s], readerPc'[s] = readerPc[s],
         proc' = proc \/ (proc \in {"running", "exited"} /\ proc' \in {"exited", "reaped"})
  PROVE  (PipeInv(s) /\ SentInv(s) /\ ReaderInv(s))'
<1>1. PipeInv(s) /\ SentInv(s) /\ ReaderInv(s)
  BY DEF IInv, StreamInv
<1>2. PipeInv(s)'
  BY <1>1 DEF PipeInv, Lines, HasOverlong, Positions
<1>3. SentInv(s)'
  BY <1>1 DEF SentInv, Lines, Unsent
<1>4. ReaderInv(s)'
  BY <1>1 DEF ReaderInv, HasOverlong, Positions, Lines
<1> QED BY <1>2, <1>3, <1>4

\* A message of another type does nothing to what is said of stream s.
LEMMA OtherMessage ==
  ASSUME IInv, NEW s \in Streams, NEW m, m.type # s,
         log' = Append(log, m), UNCHANGED <<cmd, pipe, line, written, proc>>,
         readerPc'[s] = readerPc[s]
  PROVE  (PipeInv(s) /\ SentInv(s) /\ ReaderInv(s))'
<1>1. PipeInv(s) /\ SentInv(s) /\ ReaderInv(s)
  BY DEF IInv, StreamInv
<1>2. /\ Len(log) \in Nat /\ Len(log') = Len(log) + 1
      /\ \A i \in 1..Len(log) : log'[i] = log[i]
      /\ log'[Len(log')] = m
  BY AppendFacts DEF IInv
<1>3. PipeInv(s)' /\ ReaderInv(s)'
  BY <1>1 DEF PipeInv, ReaderInv, HasOverlong, Positions, Lines
<1>4. \A i \in 1..Len(log') : log'[i].type = s => i \in 1..Len(log) /\ log'[i] = log[i]
  BY <1>2
<1>5. \A i \in 1..Len(log) : i \in 1..Len(log') /\ log'[i] = log[i]
  BY <1>2
<1>6. Unsent(s)' = Unsent(s) /\ Lines' = Lines /\ line'[s] = line[s] /\ written' = written
  BY DEF Unsent, Lines
<1>7. SentInv(s)'
  BY <1>1, <1>4, <1>5, <1>6 DEF SentInv
<1> QED BY <1>3, <1>7

\* Taking the first line out of a pipe leaves the others, in their order.
LEMMA TailFacts ==
  ASSUME TypeOK, NEW s \in Streams, pipe[s] # <<>>,
         pipe' = [pipe EXCEPT ![s] = Tail(@)]
  PROVE  /\ pipe[s][1] = Head(pipe[s]) /\ Len(pipe[s]) \in Nat /\ 1 \in 1..Len(pipe[s])
         /\ Len(pipe'[s]) = Len(pipe[s]) - 1
         /\ \A i \in 1..Len(pipe'[s]) :
              i + 1 \in 2..Len(pipe[s]) /\ pipe'[s][i] = pipe[s][i + 1]
         /\ \A r \in Streams : r # s => pipe'[r] = pipe[r]
<1>1. pipe[s] \in Seq(Positions) /\ pipe \in [Streams -> Seq(Positions)]
  BY DEF TypeOK
<1>2. pipe'[s] = Tail(pipe[s]) /\ \A r \in Streams : r # s => pipe'[r] = pipe[r]
  BY <1>1
<1>3. /\ Len(Tail(pipe[s])) = Len(pipe[s]) - 1 /\ Len(pipe[s]) \in Nat \ {0}
      /\ \A i \in 1..Len(Tail(pipe[s])) : Tail(pipe[s])[i] = pipe[s][i + 1]
      /\ Head(pipe[s]) = pipe[s][1]
  BY <1>1
<1>4. /\ \A i \in 1..(Len(pipe[s]) - 1) : i + 1 \in 2..Len(pipe[s])
      /\ 1 \in 1..Len(pipe[s])
  BY <1>3
<1>5. Len(pipe'[s]) = Len(pipe[s]) - 1
  BY <1>2, <1>3
<1>6. \A i \in 1..Len(pipe'[s]) : pipe'[s][i] = pipe[s][i + 1]
  BY <1>2, <1>3
<1> QED BY <1>2, <1>3, <1>4, <1>5, <1>6

\* Each step keeps the lines in order between the process, the pipes and the log.
LEMMA StreamStep == IInv /\ [Next]_vars => StreamInv'
<1> SUFFICES ASSUME IInv, [Next]_vars, NEW s \in Streams
             PROVE  (PipeInv(s) /\ SentInv(s) /\ ReaderInv(s))'
  BY DEF StreamInv
<1>0. TypeOK /\ PhaseInv /\ Lines \in Seq(Line) /\ Len(Lines) \in Nat
  BY LinesFacts DEF IInv
<1>a. PipeInv(s) /\ SentInv(s) /\ ReaderInv(s)
  BY DEF IInv, StreamInv
<1>b. cmd' = cmd /\ Lines' = Lines /\ Positions' = Positions /\ HasOverlong' = HasOverlong
  BY DEF Next, Execute, Start, StartFails, WaitReaders, WaitProcess, SendError, SendDone,
         Reader, Scan, ScanTooLong, ScanEOF, SendLine, Process, Write, ProcessExit,
         ProcessKilled, CancelContext, vars, Lines, Positions, HasOverlong
<1>c. written \in 0..Len(Lines) /\ line[s] \in 0..Len(Lines) /\ pipe[s] \in Seq(Positions)
  BY <1>0 DEF TypeOK
<1>1. CASE Start
  <2>1. proc = "none" /\ written = 0 /\ line[s] = 0
    BY <1>1, <1>0, <1>a, <1>c DEF Start, PhaseInv, ReaderInv, SentInv
  <2>2. readerPc'[s] = "scan" /\ proc' = "running" /\ UNCHANGED <<log, written, pipe, line>>
    BY <1>1 DEF Start
  <2>3. \A i \in 1..Len(log) : log[i].type # s
    BY <1>a, <2>1 DEF SentInv
  <2>4. PipeInv(s)'
    BY <2>1, <2>2, <1>a, <1>b DEF PipeInv
  <2>5. SentInv(s)'
    BY <2>1, <2>2, <2>3, <1>b DEF SentInv, Unsent
  <2> QED BY <2>2, <2>4, <2>5, <1>b DEF ReaderInv
<1>2. CASE StartFails \/ WaitReaders \/ WaitProcess \/ CancelContext
  BY <1>2, StreamFrame
     DEF StartFails, WaitReaders, WaitProcess, CancelContext, process, readers
<1>3. CASE ProcessExit \/ ProcessKilled \/ UNCHANGED vars
  BY <1>3, StreamFrame DEF ProcessExit, ProcessKilled, readers, vars
<1>4. CASE SendError
  <2>1. Message("error", 0).type # s
    BY Assumptions DEF Message
  <2> QED BY <1>4, <2>1, OtherMessage DEF SendError, process, readers
<1>5. CASE SendDone
  <2>1. Message("done", 0).type # s
    BY Assumptions DEF Message
  <2> QED BY <1>5, <2>1, OtherMessage DEF SendDone, process, readers
<1>6. ASSUME NEW r \in Streams, r # s, Scan(r) \/ ScanTooLong(r) \/ ScanEOF(r)
      PROVE  (PipeInv(s) /\ SentInv(s) /\ ReaderInv(s))'
  BY <1>6, <1>0, StreamFrame DEF Scan, ScanTooLong, ScanEOF, process, TypeOK
<1>7. ASSUME NEW r \in Streams, r # s, SendLine(r)
      PROVE  (PipeInv(s) /\ SentInv(s) /\ ReaderInv(s))'
  <2>1. Message(r, line[r]).type # s
    BY <1>7 DEF Message
  <2>2. readerPc'[s] = readerPc[s]
    BY <1>7, <1>0 DEF SendLine, TypeOK
  <2> QED BY <1>7, <2>1, <2>2, OtherMessage DEF SendLine, process
<1>8. CASE Scan(s)
  <2>1. /\ readerPc[s] = "scan" /\ pipe[s] # <<>>
        /\ pipe' = [pipe EXCEPT ![s] = Tail(@)]
        /\ UNCHANGED <<proc, written, log>>
    BY <1>8 DEF Scan, process
  <2>2. line'[s] = Head(pipe[s]) /\ readerPc'[s] = "send"
    BY <1>8, <1>0 DEF Scan, TypeOK
  <2>3. /\ pipe[s][1] = Head(pipe[s]) /\ Len(pipe[s]) \in Nat /\ 1 \in 1..Len(pipe[s])
        /\ Len(pipe'[s]) = Len(pipe[s]) - 1
        /\ \A i \in 1..Len(pipe'[s]) :
             i + 1 \in 2..Len(pipe[s]) /\ pipe'[s][i] = pipe[s][i + 1]
    BY <2>1, <1>0, TailFacts
  <2> DEFINE h == Head(pipe[s])
  <2>4. h \in (line[s] + 1)..written /\ Lines[h].stream = s /\ h \in Nat /\ line[s] \in Nat
    BY <2>3, <1>a, <1>c DEF PipeInv
  <2>5. \A i \in 2..Len(pipe[s]) : h < pipe[s][i]
    <3> TAKE i \in 2..Len(pipe[s])
    <3>1. i \in 1..Len(pipe[s]) /\ 1 < i
      BY <2>3
    <3>2. pipe[s][1] < pipe[s][i]
      BY <3>1, <2>3, <1>a DEF PipeInv
    <3> QED BY <3>2, <2>3
  <2>6. \A p \in (line[s] + 1)..written : Lines[p].stream = s => h <= p
    <3> SUFFICES ASSUME NEW p \in (line[s] + 1)..written, Lines[p].stream = s PROVE h <= p
      OBVIOUS
    <3>1. PICK i \in 1..Len(pipe[s]) : pipe[s][i] = p
      BY <2>1, <1>a DEF PipeInv
    <3>2. CASE i = 1
      BY <3>1, <3>2, <2>3, <2>4
    <3>3. CASE i \in 2..Len(pipe[s])
      BY <3>1, <3>3, <2>4, <2>5
    <3>4. i = 1 \/ i \in 2..Len(pipe[s])
      BY <2>3
    <3> QED BY <3>2, <3>3, <3>4
  <2> HIDE DEF h
  <2>7. PipeInv(s)'
    <3>1. \A i \in 1..Len(pipe'[s]) :
            pipe'[s][i] \in (h + 1)..written /\ Lines[pipe'[s][i]].stream = s
      <4> TAKE i \in 1..Len(pipe'[s])
      <4>1. i + 1 \in 2..Len(pipe[s]) /\ i + 1 \in 1..Len(pipe[s]) /\ pipe'[s][i] = pipe[s][i + 1]
        BY <2>3
      <4>2. pipe[s][i + 1] \in (line[s] + 1)..written /\ Lines[pipe[s][i + 1]].stream = s
        BY <4>1, <1>a DEF PipeInv
      <4>3. h < pipe[s][i + 1]
        BY <4>1, <2>5
      <4>4. \A x \in (line[s] + 1)..written : h < x => x \in (h + 1)..written
        BY <2>4, <1>c
      <4> QED BY <4>1, <4>2, <4>3, <4>4
    <3>2. \A i, k \in 1..Len(pipe'[s]) : i < k => pipe'[s][i] < pipe'[s][k]
      <4> SUFFICES ASSUME NEW i \in 1..Len(pipe'[s]), NEW k \in 1..Len(pipe'[s]), i < k
                   PROVE  pipe'[s][i] < pipe'[s][k]
        OBVIOUS
      <4>1. i + 1 \in 1..Len(pipe[s]) /\ k + 1 \in 1..Len(pipe[s]) /\ i + 1 < k + 1
        BY <2>3
      <4>2. pipe[s][i + 1] < pipe[s][k + 1]
        BY <4>1, <1>a DEF PipeInv
      <4> QED BY <4>2, <2>3
    <3>3. \A p \in (h + 1)..written :
            Lines[p].stream = s => \E i \in 1..Len(pipe'[s]) : pipe'[s][i] = p
      <4> SUFFICES ASSUME NEW p \in (h + 1)..written, Lines[p].stream = s
                   PROVE  \E i \in 1..Len(pipe'[s]) : pipe'[s][i] = p
        OBVIOUS
      <4>1. p \in (line[s] + 1)..written /\ p # h
        BY <2>4, <1>c
      <4>2. PICK i \in 1..Len(pipe[s]) : pipe[s][i] = p
        BY <4>1, <2>1, <1>a DEF PipeInv
      <4>3. i # 1
        BY <4>1, <4>2, <2>3 DEF h
      <4>4. i - 1 \in 1..Len(pipe'[s]) /\ pipe'[s][i - 1] = pipe[s][i]
        BY <4>3, <2>3
      <4> QED BY <4>2, <4>4
    <3> QED BY <3>1, <3>2, <3>3, <2>1, <2>2, <1>b DEF PipeInv, h
  <2>8. SentInv(s)'
    <3>1. Unsent(s) = {} /\ Unsent(s)' = {h}
      BY <2>1, <2>2 DEF Unsent, h
    <3>2. line'[s] = h /\ h <= written /\ h > 0
      BY <2>2, <2>4, <1>c DEF h
    <3>3. \A i \in 1..Len(log) : log[i].type = s =>
            log[i].n \in (1..h) \ {h} /\ Lines[log[i].n].stream = s
      BY <1>a, <3>1, <2>4 DEF SentInv
    <3>4. \A p \in (1..h) \ {h} :
            Lines[p].stream = s => \E i \in 1..Len(log) : log[i].type = s /\ log[i].n = p
      <4> SUFFICES ASSUME NEW p \in (1..h) \ {h}, Lines[p].stream = s
                   PROVE  \E i \in 1..Len(log) : log[i].type = s /\ log[i].n = p
        OBVIOUS
      <4>1. p \in 1..line[s]
        BY <2>4, <2>6, <1>c
      <4> QED BY <4>1, <3>1, <1>a DEF SentInv
    <3>5. \A i, k \in 1..Len(log) :
            log[i].type = s /\ log[k].type = s /\ i < k => log[i].n < log[k].n
      BY <1>a DEF SentInv
    <3> QED BY <3>1, <3>2, <3>3, <3>4, <3>5, <2>1, <2>2, <2>4, <1>b DEF SentInv
  <2>9. ReaderInv(s)'
    BY <2>1, <2>2, <1>a, <1>b DEF ReaderInv
  <2> QED BY <2>7, <2>8, <2>9
<1>9. CASE ScanTooLong(s)
  <2>1. /\ readerPc[s] = "scan" /\ pipe[s] # <<>> /\ Lines[Head(pipe[s])].overlong
        /\ pipe' = [pipe EXCEPT ![s] = Tail(@)]
        /\ UNCHANGED <<proc, written, log, line>>
    BY <1>9 DEF ScanTooLong, process
  <2>2. readerPc'[s] = "ended"
    BY <1>9, <1>0 DEF ScanTooLong, TypeOK
  <2>3. /\ Len(pipe[s]) \in Nat
        /\ Len(pipe'[s]) = Len(pipe[s]) - 1
        /\ \A i \in 1..Len(pipe'[s]) :
             i + 1 \in 2..Len(pipe[s]) /\ pipe'[s][i] = pipe[s][i + 1]
    BY <2>1, <1>0, TailFacts
  <2>4. HasOverlong
    <3>1. Head(pipe[s]) \in Positions
      BY <1>c, <2>1
    <3> QED BY <3>1, <2>1 DEF HasOverlong
  <2>5. \A i \in 1..Len(pipe'[s]) :
          pipe'[s][i] \in (line[s] + 1)..written /\ Lines[pipe'[s][i]].stream = s
    <3> TAKE i \in 1..Len(pipe'[s])
    <3>1. i + 1 \in 1..Len(pipe[s]) /\ pipe'[s][i] = pipe[s][i + 1]
      BY <2>3
    <3> QED BY <3>1, <1>a DEF PipeInv
  <2>6. \A i, k \in 1..Len(pipe'[s]) : i < k => pipe'[s][i] < pipe'[s][k]
    <3> SUFFICES ASSUME NEW i \in 1..Len(pipe'[s]), NEW k \in 1..Len(pipe'[s]), i < k
                 PROVE  pipe'[s][i] < pipe'[s][k]
      OBVIOUS
    <3>1. i + 1 \in 1..Len(pipe[s]) /\ k + 1 \in 1..Len(pipe[s]) /\ i + 1 < k + 1
      BY <2>3
    <3>2. pipe[s][i + 1] < pipe[s][k + 1]
      BY <3>1, <1>a DEF PipeInv
    <3> QED BY <3>2, <2>3
  <2>7. PipeInv(s)'
    BY <2>1, <2>2, <2>4, <2>5, <2>6, <1>b DEF PipeInv
  <2>8. SentInv(s)'
    <3>1. Unsent(s) = {} /\ Unsent(s)' = {}
      BY <2>1, <2>2 DEF Unsent
    <3> QED BY <3>1, <2>1, <2>2, <1>a, <1>b DEF SentInv
  <2>9. ReaderInv(s)'
    BY <2>1, <2>2, <2>4, <1>a, <1>b DEF ReaderInv
  <2> QED BY <2>7, <2>8, <2>9
<1>10. CASE ScanEOF(s)
  <2>1. /\ readerPc[s] = "scan" /\ pipe[s] = <<>> /\ proc = "exited"
        /\ UNCHANGED <<proc, written, log, line, pipe>>
    BY <1>10 DEF ScanEOF, process
  <2>2. readerPc'[s] = "ended"
    BY <1>10, <1>0 DEF ScanEOF, TypeOK
  <2>3. PipeInv(s)'
    BY <2>1, <1>a, <1>b DEF PipeInv
  <2>4. SentInv(s)'
    <3>1. Unsent(s) = {} /\ Unsent(s)' = {}
      BY <2>1, <2>2 DEF Unsent
    <3> QED BY <3>1, <2>1, <2>2, <1>a, <1>b DEF SentInv
  <2> QED BY <2>1, <2>2, <2>3, <2>4 DEF ReaderInv
<1>11. CASE SendLine(s)
  <2>1. /\ readerPc[s] = "send" /\ log' = Append(log, Message(s, line[s]))
        /\ UNCHANGED <<proc, written, line, pipe>>
    BY <1>11 DEF SendLine, process
  <2>2. readerPc'[s] = "scan"
    BY <1>11, <1>0 DEF SendLine, TypeOK
  <2> DEFINE n == Len(log)
  <2>3. /\ n \in Nat /\ Len(log') = n + 1
        /\ \A i \in 1..n : log'[i] = log[i]
        /\ log'[n + 1].type = s /\ log'[n + 1].n = line[s]
    BY <2>1, <1>0, AppendFacts DEF Message
  <2>4. Unsent(s) = {line[s]} /\ Unsent(s)' = {}
    BY <2>1, <2>2 DEF Unsent
  <2>5. \A i \in 1..n : log[i].type = s =>
          log[i].n \in 1..line[s] /\ log[i].n < line[s] /\ Lines[log[i].n].stream = s
    BY <2>4, <1>a, <1>c DEF SentInv
  <2>6. line[s] \in 1..line[s] /\ Lines[line[s]].stream = s
    BY <2>1, <1>a, <1>c DEF SentInv
  <2> HIDE DEF n
  <2>7. \A i \in 1..(n + 1) : log'[i].type = s =>
          log'[i].n \in 1..line[s] /\ Lines[log'[i].n].stream = s
    <3> TAKE i \in 1..(n + 1)
    <3>1. CASE i = n + 1
      BY <3>1, <2>3, <2>6
    <3>2. CASE i \in 1..n
      BY <3>2, <2>3, <2>5
    <3> QED BY <3>1, <3>2, <2>3
  <2>8. \A p \in 1..line[s] :
          Lines[p].stream = s => \E i \in 1..(n + 1) : log'[i].type = s /\ log'[i].n = p
    <3> SUFFICES ASSUME NEW p \in 1..line[s], Lines[p].stream = s
                 PROVE  \E i \in 1..(n + 1) : log'[i].type = s /\ log'[i].n = p
      OBVIOUS
    <3>1. CASE p = line[s]
      BY <3>1, <2>3
    <3>2. CASE p # line[s]
      <4>1. PICK i \in 1..n : log[i].type = s /\ log[i].n = p
        BY <3>2, <2>4, <1>a DEF SentInv, n
      <4> QED BY <4>1, <2>3
    <3> QED BY <3>1, <3>2
  <2>9. \A i, k \in 1..(n + 1) :
          log'[i].type = s /\ log'[k].type = s /\ i < k => log'[i].n < log'[k].n
    <3> SUFFICES ASSUME NEW i \in 1..(n + 1), NEW k \in 1..(n + 1),
                        log'[i].type = s, log'[k].type = s, i < k
                 PROVE  log'[i].n < log'[k].n
      OBVIOUS
    <3>1. i \in 1..n /\ log'[i] = log[i]
      BY <2>3
    <3>2. CASE k = n + 1
      BY <3>1, <3>2, <2>3, <2>5
    <3>3. CASE k \in 1..n
      BY <3>1, <3>3, <2>3, <1>a DEF SentInv, n
    <3> QED BY <3>2, <3>3, <2>3
  <2>10. SentInv(s)'
    <3>1. Len(log') = n + 1 /\ (1..line[s]) \ {} = 1..line[s]
      BY <2>3
    <3> QED BY <3>1, <2>1, <2>2, <2>4, <2>7, <2>8, <2>9, <1>a, <1>b DEF SentInv
  <2>11. PipeInv(s)' /\ ReaderInv(s)'
    BY <2>1, <2>2, <1>a, <1>b DEF PipeInv, ReaderInv
  <2> QED BY <2>10, <2>11
<1>12. CASE Write
  <2> DEFINE w == written + 1
  <2>1. /\ proc = "running" /\ written' = w /\ w \in 1..Len(Lines)
        /\ UNCHANGED <<proc, readerPc, line, log>>
        /\ pipe' = [pipe EXCEPT ![Lines[w].stream] = Append(@, w)]
    BY <1>12, <1>c, <1>0 DEF Write
  <2>2. SentInv(s)'
    <3>1. line[s] <= w
      BY <1>a, <1>c DEF SentInv
    <3>2. Unsent(s)' = Unsent(s)
      BY <2>1 DEF Unsent
    <3> HIDE DEF w
    <3> QED BY <3>1, <3>2, <2>1, <1>a, <1>b DEF SentInv
  <2>3. CASE Lines[w].stream # s
    <3>1. pipe'[s] = pipe[s]
      BY <2>1, <2>3, <1>0 DEF TypeOK
    <3>2. \A p \in (line[s] + 1)..w : Lines[p].stream = s => p \in (line[s] + 1)..written
      BY <2>3, <1>c
    <3>3. \A p \in (line[s] + 1)..written : p \in (line[s] + 1)..w
      BY <1>c
    <3> HIDE DEF w
    <3>4. PipeInv(s)'
      BY <3>1, <3>2, <3>3, <2>1, <1>a, <1>b DEF PipeInv
    <3>5. ReaderInv(s)'
      BY <3>1, <2>1, <1>a, <1>b DEF ReaderInv
    <3> QED BY <3>4, <3>5, <2>2
  <2>4. CASE Lines[w].stream = s
    <3> DEFINE n == Len(pipe[s])
    <3>1. pipe'[s] = Append(pipe[s], w)
      BY <2>1, <2>4, <1>0 DEF TypeOK
    <3>2. /\ n \in Nat /\ Len(pipe'[s]) = n + 1
          /\ \A i \in 1..n : pipe'[s][i] = pipe[s][i]
          /\ pipe'[s][n + 1] = w
      BY <3>1, <1>c
    <3>3. \A i \in 1..n : /\ pipe[s][i] \in (line[s] + 1)..w /\ pipe[s][i] < w
                          /\ Lines[pipe[s][i]].stream = s
      BY <1>a, <1>c DEF PipeInv
    <3>4. w \in (line[s] + 1)..w
      BY <1>a, <1>c DEF SentInv
    <3>5. \A p \in (line[s] + 1)..w : p = w \/ p \in (line[s] + 1)..written
      BY <1>c
    <3> HIDE DEF w, n
    <3>6. \A i \in 1..(n + 1) :
            pipe'[s][i] \in (line[s] + 1)..w /\ Lines[pipe'[s][i]].stream = s
      <4> TAKE i \in 1..(n + 1)
      <4>1. CASE i = n + 1
        BY <4>1, <3>2, <3>4, <2>4
      <4>2. CASE i \in 1..n
        BY <4>2, <3>2, <3>3
      <4> QED BY <4>1, <4>2, <3>2
    <3>7. \A i, k \in 1..(n + 1) : i < k => pipe'[s][i] < pipe'[s][k]
      <4> SUFFICES ASSUME NEW i \in 1..(n + 1), NEW k \in 1..(n + 1), i < k
                   PROVE  pipe'[s][i] < pipe'[s][k]
        OBVIOUS
      <4>1. i \in 1..n /\ pipe'[s][i] = pipe[s][i]
        BY <3>2
      <4>2. CASE k = n + 1
        BY <4>1, <4>2, <3>2, <3>3
      <4>3. CASE k \in 1..n
        BY <4>1, <4>3, <3>2, <1>a DEF PipeInv, n
      <4> QED BY <4>2, <4>3, <3>2
    <3>8. readerPc[s] # "ended" \/ ~HasOverlong =>
            \A p \in (line[s] + 1)..w :
              Lines[p].stream = s => \E i \in 1..(n + 1) : pipe'[s][i] = p
      <4> SUFFICES ASSUME readerPc[s] # "ended" \/ ~HasOverlong,
                          NEW p \in (line[s] + 1)..w, Lines[p].stream = s
                   PROVE  \E i \in 1..(n + 1) : pipe'[s][i] = p
        OBVIOUS
      <4>1. CASE p = w
        BY <4>1, <3>2
      <4>2. CASE p \in (line[s] + 1)..written
        <5>1. PICK i \in 1..n : pipe[s][i] = p
          BY <4>2, <1>a DEF PipeInv, n
        <5> QED BY <5>1, <3>2
      <4> QED BY <4>1, <4>2, <3>5
    <3>9. PipeInv(s)'
      BY <3>2, <3>6, <3>7, <3>8, <2>1, <1>b DEF PipeInv
    <3>10. ReaderInv(s)'
      BY <2>1, <1>a, <1>b DEF ReaderInv
    <3> QED BY <3>9, <3>10, <2>2
  <2> QED BY <2>3, <2>4
<1> QED BY <1>1, <1>2, <1>3, <1>4, <1>5, <1>6, <1>7, <1>8, <1>9, <1>10, <1>11, <1>12
        DEF Next, Execute, Reader, Process

\* The invariant holds in every reachable state.
THEOREM Invariant == Spec => []IInv
<1>1. IInv /\ [Next]_vars => IInv'
  BY TypeStep, PhaseStep, EndStep, StreamStep DEF IInv
<1> QED BY InitInv, <1>1, PTL DEF Spec

\* The variables of a call of Execute keep their types, and the pipes their capacity.
THEOREM TypeCorrect == Spec => []TypeOK
<1>1. IInv => TypeOK
  BY DEF IInv
<1> QED BY Invariant, <1>1, PTL

\* The done signal is the last message of a job, and only it comes after an error.
THEOREM DoneIsLastHolds == Spec => []DoneIsLast
<1>1. IInv => DoneIsLast
  BY DEF IInv, EndInv, DoneIsLast
<1> QED BY Invariant, <1>1, PTL

\* A client is told of an error exactly when there is one.
THEOREM ErrorIsToldHolds == Spec => []ErrorIsTold
<1>1. IInv => ErrorIsTold
  BY DEF IInv, ErrorInv, ErrorIsTold
<1> QED BY Invariant, <1>1, PTL

\* Of each stream a client receives the first lines written to it, each once, in order.
THEOREM StreamInOrderHolds == Spec => []StreamInOrder
<1>1. IInv => StreamInOrder
  <2> SUFFICES ASSUME IInv, NEW s \in Streams
               PROVE  /\ \E k \in 0..written : Received(s) = Emitted(s, k)
                      /\ \A i, k \in 1..Len(log) :
                           log[i].type = s /\ log[k].type = s /\ i < k => log[i].n < log[k].n
    BY DEF StreamInOrder
  <2>1. SentInv(s) /\ line[s] \in Nat /\ written \in Nat
    BY DEF IInv, StreamInv, TypeOK
  <2> DEFINE k == IF readerPc[s] = "send" THEN line[s] - 1 ELSE line[s]
  <2>2. k \in 0..written /\ 1..k = (1..line[s]) \ Unsent(s)
    BY <2>1 DEF SentInv, Unsent
  <2> HIDE DEF k
  <2>3. Received(s) = Emitted(s, k)
    BY <2>1, <2>2 DEF SentInv, Received, Emitted
  <2> QED BY <2>1, <2>2, <2>3 DEF SentInv
<1> QED BY Invariant, <1>1, PTL

\* Without an overlong line every line that was written has been sent before done.
THEOREM NothingLostHolds == Spec => []NothingLost
<1>1. IInv => NothingLost
  <2> SUFFICES ASSUME IInv, pc = "returned", ~HasOverlong, NEW s \in Streams
               PROVE  Received(s) = Emitted(s, written)
    BY DEF NothingLost
  <2>1. PipeInv(s) /\ SentInv(s) /\ ReaderInv(s) /\ line[s] \in Nat /\ written \in Nat
    BY DEF IInv, StreamInv, TypeOK
  <2>2. readerPc[s] \in {"none", "ended"}
    BY DEF IInv, PhaseInv
  <2>3. Unsent(s) = {}
    BY <2>2 DEF Unsent
  <2>4. \A p \in (line[s] + 1)..written : Lines[p].stream # s
    <3>1. CASE readerPc[s] = "none"
      BY <3>1, <2>1 DEF ReaderInv
    <3>2. CASE readerPc[s] = "ended"
      <4>1. Len(pipe[s]) = 0
        BY <3>2, <2>1 DEF ReaderInv
      <4> QED BY <4>1, <2>1 DEF PipeInv
    <3> QED BY <3>1, <3>2, <2>2
  <2>5. Emitted(s, written) = Emitted(s, line[s])
    BY <2>1, <2>4 DEF Emitted, SentInv
  <2>6. Received(s) = Emitted(s, line[s])
    BY <2>1, <2>3 DEF SentInv, Received, Emitted
  <2> QED BY <2>5, <2>6
<1> QED BY Invariant, <1>1, PTL
=============================================================================
