---------------------------- MODULE ServerProofs ----------------------------
(***************************************************************************)
(* TLAPS proofs about Server, for every number of sessions, jobs, workers, *)
(* clients and other requests.                                             *)
(***************************************************************************)
EXTENDS Server, TLAPS

\* The theorems about the worker pool, which is one without kills here.
PoolProofs == INSTANCE WorkerPoolProofs
  WITH Killers <- {}, Target <- <<>>, killPc <- <<>>, Stuck <- {}

LEMMA PoolAssumptions == PoolProofs!Assumptions
  BY Assumptions DEF PoolProofs!Assumptions

\* The pool of the server keeps the invariant that was proved of the worker pool.
LEMMA PoolInvariant == Pool!Spec => []Pool!IInv
<1>1. Pool!Init <=> PoolProofs!Init
  BY DEF Pool!Init, PoolProofs!Init
<1>2. [Pool!Next]_(Pool!vars) <=> [PoolProofs!Next]_(PoolProofs!vars)
  <2>1. \A j \in JobIDs : /\ Pool!Submit(j) <=> PoolProofs!Submit(j)
                          /\ Pool!Handler(j) <=> PoolProofs!Handler(j)
    BY DEF Pool!Submit, Pool!Handler, Pool!Enqueue, Pool!EnqueuePanic, Pool!channel, Pool!contexts,
           PoolProofs!Submit, PoolProofs!Handler, PoolProofs!Enqueue, PoolProofs!EnqueuePanic,
           PoolProofs!channel, PoolProofs!contexts
  <2>2. \A w \in Workers : Pool!Worker(w) <=> PoolProofs!Worker(w)
    BY DEF Pool!Worker, Pool!Receive, Pool!Exit, Pool!Store, Pool!ExecuteReturns, Pool!Cancel,
           Pool!Delete, Pool!callers, Pool!channel, Pool!contexts,
           PoolProofs!Worker, PoolProofs!Receive, PoolProofs!Exit, PoolProofs!Store,
           PoolProofs!ExecuteReturns, PoolProofs!Cancel, PoolProofs!Delete,
           PoolProofs!callers, PoolProofs!channel, PoolProofs!contexts
  <2>3. (Pool!StopClose \/ Pool!StopReturn) <=> (PoolProofs!StopClose \/ PoolProofs!StopReturn)
    BY DEF Pool!StopClose, Pool!StopReturn, Pool!channel, Pool!contexts,
           PoolProofs!StopClose, PoolProofs!StopReturn, PoolProofs!channel, PoolProofs!contexts
  <2>4. UNCHANGED Pool!vars <=> UNCHANGED PoolProofs!vars
    BY DEF Pool!vars, PoolProofs!vars
  <2> QED
    BY <2>1, <2>2, <2>3, <2>4 DEF Pool!Next, PoolProofs!Next
<1>3. Pool!IInv <=> PoolProofs!IInv
  <2>1. Pool!TypeOK <=> PoolProofs!TypeOK
    BY DEF Pool!TypeOK, PoolProofs!TypeOK
  <2>2. \A j \in JobIDs : /\ Pool!Queued(j) <=> PoolProofs!Queued(j)
                          /\ Pool!Running(j) <=> PoolProofs!Running(j)
    BY DEF Pool!Queued, Pool!Running, Pool!Executing,
           PoolProofs!Queued, PoolProofs!Running, PoolProofs!Executing
  <2>3. Pool!JobInOnePlace <=> PoolProofs!JobInOnePlace
    BY <2>2 DEF Pool!JobInOnePlace, Pool!NoDuplicate, Pool!OneHolder, Pool!Accounted,
       PoolProofs!JobInOnePlace, PoolProofs!NoDuplicate, PoolProofs!OneHolder, PoolProofs!Accounted
  <2>4. /\ Pool!HoldInv <=> PoolProofs!HoldInv
        /\ Pool!KillInv <=> PoolProofs!KillInv
    BY DEF Pool!HoldInv, Pool!KillInv, PoolProofs!HoldInv, PoolProofs!KillInv
  <2>5. /\ Pool!Killable <=> PoolProofs!Killable
        /\ Pool!NoStaleCancel <=> PoolProofs!NoStaleCancel
        /\ Pool!ExitInv <=> PoolProofs!ExitInv
    BY DEF Pool!Killable, Pool!NoStaleCancel, Pool!ExitInv,
           PoolProofs!Killable, PoolProofs!NoStaleCancel, PoolProofs!ExitInv
  <2> QED
    BY <2>1, <2>3, <2>4, <2>5 DEF Pool!IInv, PoolProofs!IInv
<1> QED
  BY <1>1, <1>2, <1>3, PoolAssumptions, PoolProofs!Invariant, PTL
     DEF Pool!Spec, PoolProofs!Spec

LEMMA AppendFacts ==
  ASSUME NEW S, NEW s \in Seq(S), NEW e \in S
  PROVE  Append(s, e) # <<>> /\ Append(s, e) \in Seq(S)
<1>1. Len(Append(s, e)) = Len(s) + 1 /\ Len(s) \in Nat /\ Append(s, e) \in Seq(S)
  OBVIOUS
<1>2. Len(Append(s, e)) # 0
  BY <1>1
<1>3. Len(<<>>) = 0
  OBVIOUS
<1> QED
  BY <1>1, <1>2, <1>3, Zenon

\* Each step of the server is one of the worker pool, or leaves the pool alone.
LEMMA PoolStep == ASSUME [Next]_vars PROVE [Pool!Next]_(Pool!vars)
<1>1. CASE UNCHANGED vars
  BY <1>1 DEF vars, poolVars, Pool!vars
<1>2. ASSUME NEW j \in JobIDs, Submit(j) \/ Handler(j) PROVE Pool!Next
  BY <1>2 DEF Submit, Handler, Pool!Next
<1>3. ASSUME NEW w \in Workers, Loop(w) \/ ExecuteReturns(w) PROVE Pool!Next
  BY <1>3 DEF Loop, ExecuteReturns, Pool!Next, Pool!Worker
<1>4. ASSUME NEW w \in Workers, Send(w) \/ SendReturns(w) PROVE UNCHANGED Pool!vars
  BY <1>4 DEF Send, SendReturns, poolVars, Pool!vars
<1>5. ASSUME NEW r \in Others, BeginOther(r) \/ AnswerOther(r) PROVE UNCHANGED Pool!vars
  BY <1>5 DEF BeginOther, AnswerOther, poolVars, Pool!vars
<1>6. ASSUME NEW c \in Conns,
             Connect(c) \/ Reject(c) \/ Deliver(c) \/ Join(c) \/ Stall(c) \/ Leave(c)
      PROVE UNCHANGED Pool!vars
  BY <1>6 DEF Connect, Reject, Deliver, Join, Stall, Leave, poolVars, Pool!vars
<1>7. ASSUME Signal \/ StopReturn PROVE Pool!Next
  BY <1>7 DEF Signal, StopReturn, Pool!Next
<1>8. ASSUME Expire \/ Shutdown \/ Exit \/ Forced PROVE UNCHANGED Pool!vars
  BY <1>8 DEF Expire, Shutdown, Exit, Forced, poolVars, Pool!vars
<1> QED
  BY <1>1, <1>2, <1>3, <1>4, <1>5, <1>6, <1>7, <1>8 DEF Next, Worker, Main

LEMMA PoolHolds == Spec => []Pool!IInv
<1>1. Init => Pool!Init
  BY DEF Init
<1> QED
  BY <1>1, PoolStep, PoolInvariant, PTL DEF Spec, Pool!Spec

\* What the pool's invariant says of a worker that executes a job, and of a stopped pool.
LEMMA PoolFacts ==
  ASSUME Pool!IInv
  PROVE  /\ Pool!TypeOK
         /\ \A w \in Workers : workerPc[w] = "exec" => job[w] \in JobIDs
         /\ mainPc = "stopped" =>
              /\ \A w \in Workers : workerPc[w] = "exited"
              /\ \A j \in JobIDs : runPc[j] = "accepted" => executed[j] = 1
<1>1. Pool!TypeOK /\ Pool!HoldInv /\ Pool!ExitInv /\ Pool!Accounted
  BY DEF Pool!IInv, Pool!JobInOnePlace
<1>2. \A w \in Workers : workerPc[w] = "exec" => job[w] \in JobIDs
  BY <1>1 DEF Pool!TypeOK, Pool!HoldInv
<1>3. ASSUME mainPc = "stopped"
      PROVE  /\ \A w \in Workers : workerPc[w] = "exited"
             /\ \A j \in JobIDs : runPc[j] = "accepted" => executed[j] = 1
  <2>1. \A w \in Workers : workerPc[w] = "exited" /\ jobs = <<>>
    BY <1>1, <1>3 DEF Pool!ExitInv
  <2>2. jobs = <<>>
    BY <2>1, Assumptions
  <2>3. \A j \in JobIDs : ~Pool!Queued(j) /\ ~Pool!Running(j)
    BY <2>1, <2>2 DEF Pool!Queued, Pool!Running, Pool!Executing
  <2> QED
    BY <1>1, <2>1, <2>3 DEF Pool!Accounted
<1> QED
  BY <1>1, <1>2, <1>3
-----------------------------------------------------------------------------
LEMMA InitInv == Init => TypeOK /\ MainInv /\ SentInv /\ LockInv /\ LiveInv
<1> SUFFICES ASSUME Init PROVE TypeOK /\ MainInv /\ SentInv /\ LockInv /\ LiveInv
  OBVIOUS
<1> USE DEF Init
<1>1. Pool!TypeOK
  <2>1. jobs \in Seq(JobIDs) /\ Len(jobs) <= Cap
    BY Assumptions DEF Pool!Init
  <2>2. <<>> \in [{} -> {"new", "cancel", "delete", "done"}]
    BY DEF Pool!Init
  <2> QED
    BY <2>1, <2>2 DEF Pool!Init, Pool!TypeOK
<1>2. /\ log = [j \in JobIDs |-> <<>>] /\ view = [c \in Conns |-> <<>>]
      /\ status = [c \in Conns |-> "waiting"]
  BY DEF Stream!Init
<1>3. TypeOK
  <2>1. <<>> \in Seq(Message)
    OBVIOUS
  <2>2. log \in [JobIDs -> Seq(Message)] /\ view \in [Conns -> Seq(Message)]
    BY <1>2, <2>1
  <2>3. status \in [Conns -> {"waiting", "live", "lost"}]
    BY <1>2
  <2> QED
    BY <1>1, <2>2, <2>3 DEF TypeOK
<1>4. MainInv
  BY DEF MainInv
<1>5. SentInv
  BY DEF SentInv, Pool!Init
<1>6. LockInv
  BY Assumptions DEF LockInv
<1>7. LiveInv
  BY <1>2 DEF LiveInv
<1> QED
  BY <1>3, <1>4, <1>5, <1>6, <1>7

\* The messages that a step adds, and what it delivers.
LEMMA TypeStep ==
  ASSUME IInv, Pool!TypeOK', [Next]_vars
  PROVE  TypeOK'
<1> DEFINE Rest == /\ sessions \in SUBSET SessionIDs
                   /\ stalled \in SUBSET Conns
                   /\ timer \in {"off", "ticking", "expired"}
                   /\ http \in {"open", "closed"}
                   /\ others \in SUBSET Others
                   /\ proc \in {"up", "exited", "forced"}
           Streams == /\ log \in [JobIDs -> Seq(Message)]
                      /\ view \in [Conns -> Seq(Message)]
                      /\ status \in [Conns -> {"waiting", "live", "lost"}]
           Mutexes == mu \in [SessionIDs -> JobIDs \cup Conns \cup {NoJob}]
<1>0. /\ Rest /\ Streams /\ Mutexes
      /\ \A w \in Workers : workerPc[w] = "exec" => job[w] \in JobIDs
  BY PoolFacts DEF IInv, TypeOK
<1>1. CASE UNCHANGED vars
  BY <1>0, <1>1 DEF TypeOK, vars, streamVars, sessionVars, mainVars
<1>2. ASSUME NEW j \in JobIDs, Submit(j) \/ Handler(j) PROVE TypeOK'
  BY <1>0, <1>2, Assumptions DEF TypeOK, Submit, Handler, streamVars, sessionVars, mainVars
<1>3. ASSUME NEW r \in Others, BeginOther(r) \/ AnswerOther(r) PROVE TypeOK'
  BY <1>0, <1>3 DEF TypeOK, BeginOther, AnswerOther, streamVars, sessionVars
<1>4. ASSUME NEW w \in Workers, Loop(w) \/ ExecuteReturns(w) PROVE TypeOK'
  BY <1>0, <1>4 DEF TypeOK, Loop, ExecuteReturns, streamVars, sessionVars, mainVars
<1>5. ASSUME NEW w \in Workers, Send(w) PROVE TypeOK'
  <2>1. job[w] \in JobIDs
    BY <1>0, <1>5 DEF Send
  <2>2. log' = [log EXCEPT ![job[w]] = Append(@, "done")] /\ UNCHANGED <<view, status>>
    BY <1>5 DEF Send, Stream!Publish
  <2>3. Append(log[job[w]], "done") \in Seq(Message)
    BY <1>0, <2>1 DEF Message
  <2>4. Streams'
    BY <1>0, <2>1, <2>2, <2>3
  <2>5. Mutexes'
    BY <1>0, <1>5, <2>1, Assumptions DEF Send
  <2>6. Rest'
    BY <1>0, <1>5 DEF Send, mainVars
  <2> QED
    BY <2>4, <2>5, <2>6 DEF TypeOK
<1>6. ASSUME NEW w \in Workers, SendReturns(w) PROVE TypeOK'
  BY <1>0, <1>6 DEF TypeOK, SendReturns, streamVars, mainVars
<1>7. ASSUME NEW c \in Conns, Connect(c) \/ Stall(c) PROVE TypeOK'
  BY <1>0, <1>7 DEF TypeOK, Connect, Stall, streamVars, mainVars
<1>8. ASSUME NEW c \in Conns, Reject(c) \/ Leave(c) PROVE TypeOK'
  BY <1>0, <1>8 DEF TypeOK, Reject, Leave, Stream!Drop, sessionVars, mainVars
<1>9. ASSUME NEW c \in Conns, Deliver(c) PROVE TypeOK'
  <2>1. Topic[c] \in JobIDs
    BY Assumptions
  <2>2. /\ Len(view[c]) < Len(log[Topic[c]])
        /\ view' = [view EXCEPT ![c] = Append(@, log[Topic[c]][Len(@) + 1])]
        /\ UNCHANGED <<log, status>>
    BY <1>9 DEF Deliver, Stream!Deliver
  <2>3. Len(view[c]) + 1 \in 1..Len(log[Topic[c]])
    BY <1>0, <2>1, <2>2
  <2>4. log[Topic[c]][Len(view[c]) + 1] \in Message
    BY <1>0, <2>1, <2>3
  <2>5. Append(view[c], log[Topic[c]][Len(view[c]) + 1]) \in Seq(Message)
    BY <1>0, <2>4
  <2>6. Streams'
    BY <1>0, <2>2, <2>5
  <2> QED
    BY <1>0, <1>9, <2>6 DEF TypeOK, Deliver, sessionVars, mainVars
<1>10. ASSUME NEW c \in Conns, Join(c) PROVE TypeOK'
  <2>1. Streams'
    BY <1>0, <1>10 DEF Join, Stream!Join
  <2> QED
    BY <1>0, <1>10, <2>1 DEF TypeOK, Join, mainVars
<1>11. ASSUME Signal \/ Expire \/ Main PROVE TypeOK'
  BY <1>0, <1>11 DEF TypeOK, Signal, Expire, Main, StopReturn, Shutdown, Exit, Forced,
                     streamVars, sessionVars, mainVars
<1> QED
  BY <1>1, <1>2, <1>3, <1>4, <1>5, <1>6, <1>7, <1>8, <1>9, <1>10, <1>11 DEF Next, Worker

LEMMA MainStep ==
  ASSUME MainInv, [Next]_vars
  PROVE  MainInv'
<1>1. UNCHANGED <<mainPc, http, proc>> => MainInv'
  BY DEF MainInv
<1>2. ASSUME NEW j \in JobIDs, Submit(j) \/ Handler(j) PROVE MainInv'
  BY <1>1, <1>2 DEF Submit, Handler, Pool!Submit, Pool!Handler, Pool!Enqueue, Pool!EnqueuePanic,
                    mainVars
<1>3. ASSUME NEW w \in Workers, Worker(w) PROVE MainInv'
  BY <1>1, <1>3 DEF Worker, Loop, Send, SendReturns, ExecuteReturns, Pool!Receive, Pool!Exit,
                    Pool!Store, Pool!Cancel, Pool!Delete, Pool!ExecuteReturns, Pool!callers,
                    mainVars, poolVars
<1>4. ASSUME NEW r \in Others, BeginOther(r) \/ AnswerOther(r) PROVE MainInv'
  BY <1>1, <1>4 DEF BeginOther, AnswerOther, poolVars
<1>5. ASSUME NEW c \in Conns,
             Connect(c) \/ Reject(c) \/ Deliver(c) \/ Join(c) \/ Stall(c) \/ Leave(c)
      PROVE MainInv'
  BY <1>1, <1>5 DEF Connect, Reject, Deliver, Join, Stall, Leave, poolVars, mainVars
<1>6. ASSUME Signal \/ Expire \/ Main PROVE MainInv'
  BY <1>6 DEF MainInv, Signal, Expire, Main, StopReturn, Shutdown, Exit, Forced,
              Pool!StopClose, Pool!StopReturn, poolVars, mainVars
<1> QED
  BY <1>1, <1>2, <1>3, <1>4, <1>5, <1>6 DEF Next, vars, poolVars, mainVars

\* Messages are never taken back, and ExecuteReturns waits for the end.
LEMMA SentStep ==
  ASSUME IInv, [Next]_vars
  PROVE  SentInv'
<1>1. /\ SentInv /\ log \in [JobIDs -> Seq(Message)] /\ executed \in [JobIDs -> Nat]
      /\ \A w \in Workers : workerPc[w] = "exec" => job[w] \in JobIDs
  BY PoolFacts DEF IInv, TypeOK, Pool!TypeOK
<1>2. UNCHANGED <<executed, log>> => SentInv'
  BY <1>1 DEF SentInv, Ended
<1>3. ASSUME NEW j \in JobIDs, Submit(j) \/ Handler(j) PROVE SentInv'
  BY <1>2, <1>3 DEF Submit, Handler, Pool!Submit, Pool!Handler, Pool!Enqueue, Pool!EnqueuePanic,
                    streamVars
<1>4. ASSUME NEW w \in Workers, Loop(w) \/ SendReturns(w) PROVE SentInv'
  BY <1>2, <1>4 DEF Loop, SendReturns, Pool!Receive, Pool!Exit, Pool!Store, Pool!Cancel,
                    Pool!Delete, streamVars, poolVars
<1>5. ASSUME NEW w \in Workers, Send(w) PROVE SentInv'
  <2>1. /\ log' = [log EXCEPT ![job[w]] = Append(@, "done")] /\ executed' = executed
        /\ job[w] \in JobIDs
    BY <1>1, <1>5 DEF Send, Stream!Publish, poolVars
  <2>2. Append(log[job[w]], "done") # <<>>
    BY <1>1, <2>1, AppendFacts DEF Message
  <2>3. \A j \in JobIDs : log[j] # <<>> => log'[j] # <<>>
    BY <1>1, <2>1, <2>2
  <2> QED
    BY <1>1, <2>1, <2>3 DEF SentInv, Ended
<1>6. ASSUME NEW w \in Workers, ExecuteReturns(w) PROVE SentInv'
  <2>1. /\ executed' = [executed EXCEPT ![job[w]] = @ + 1] /\ log' = log
        /\ log[job[w]] # <<>>
    BY <1>6 DEF ExecuteReturns, Pool!ExecuteReturns, Ended, streamVars
  <2>2. \A j \in JobIDs : j # job[w] => executed'[j] = executed[j]
    BY <1>1, <2>1
  <2> QED
    BY <1>1, <2>1, <2>2 DEF SentInv, Ended
<1>7. ASSUME NEW r \in Others, BeginOther(r) \/ AnswerOther(r) PROVE SentInv'
  BY <1>2, <1>7 DEF BeginOther, AnswerOther, poolVars, streamVars
<1>8. ASSUME NEW c \in Conns,
             Connect(c) \/ Reject(c) \/ Deliver(c) \/ Join(c) \/ Stall(c) \/ Leave(c)
      PROVE SentInv'
  BY <1>2, <1>8 DEF Connect, Reject, Deliver, Join, Stall, Leave, Stream!Drop, Stream!Deliver,
                    Stream!Join, poolVars, streamVars
<1>9. ASSUME Signal \/ Expire \/ Main PROVE SentInv'
  BY <1>2, <1>9 DEF Signal, Expire, Main, StopReturn, Shutdown, Exit, Forced, Pool!StopClose,
                    Pool!StopReturn, poolVars, streamVars
<1> QED
  BY <1>2, <1>3, <1>4, <1>5, <1>6, <1>7, <1>8, <1>9
     DEF Next, Worker, vars, poolVars, streamVars

\* Session.mu: a Send and an AddConnection take it when it is free, and give it back
\* before the job ends or the client is registered or gone.
LEMMA LockStep ==
  ASSUME IInv, [Next]_vars
  PROVE  LockInv'
<1> DEFINE Held(s, j) == SessionOf[j] = s /\ \E w \in Workers : workerPc[w] = "exec" /\ job[w] = j
           Joining(s, c) == Home(c) = s /\ s \in sessions /\ status[c] = "waiting"
<1>1. /\ \A s \in SessionIDs : /\ \A j \in JobIDs : mu[s] = j => Held(s, j)
                               /\ \A c \in Conns : mu[s] = c => Joining(s, c)
      /\ workerPc \in [Workers -> {"recv", "store", "exec", "cancel", "delete", "exited"}]
      /\ job \in [Workers -> JobIDs \cup {NoJob}]
      /\ mu \in [SessionIDs -> JobIDs \cup Conns \cup {NoJob}]
      /\ status \in [Conns -> {"waiting", "live", "lost"}]
      /\ \A w \in Workers : workerPc[w] = "exec" => job[w] \in JobIDs
      /\ \A c \in Conns : Home(c) \in SessionIDs
      /\ \A j \in JobIDs : SessionOf[j] \in SessionIDs
  BY PoolFacts, Assumptions DEF IInv, LockInv, TypeOK, Pool!TypeOK, Home
<1>2. SUFFICES /\ \A s \in SessionIDs, j \in JobIDs : mu'[s] = j => Held(s, j)'
               /\ \A s \in SessionIDs, c \in Conns : mu'[s] = c => Joining(s, c)'
  BY DEF LockInv, Home
<1> DEFINE Jobs == \A s \in SessionIDs, j \in JobIDs : mu'[s] = j => Held(s, j)'
           Clients == \A s \in SessionIDs, c \in Conns : mu'[s] = c => Joining(s, c)'
\* The job that holds a mutex stays where it is, unless its worker returns.
<1>3. ASSUME \A s \in SessionIDs, j \in JobIDs : mu'[s] = j => mu[s] = j,
             \A w \in Workers : workerPc[w] = "exec" =>
               \/ workerPc'[w] = "exec" /\ job'[w] = job[w]
               \/ mu[SessionOf[job[w]]] # job[w]
      PROVE  Jobs
  BY <1>1, <1>3
\* The client that holds a mutex goes on waiting.
<1>4. ASSUME sessions \subseteq sessions',
             \A s \in SessionIDs, c \in Conns : mu'[s] = c =>
               mu[s] = c /\ (status[c] = "waiting" => status'[c] = "waiting")
      PROVE  Clients
  BY <1>1, <1>4 DEF Home
<1>5. ASSUME UNCHANGED <<workerPc, job, mu, status>>, sessions \subseteq sessions'
      PROVE  Jobs /\ Clients
  BY <1>1, <1>3, <1>4, <1>5
<1>6. ASSUME NEW j \in JobIDs, Submit(j) \/ Handler(j) PROVE Jobs /\ Clients
  BY <1>5, <1>6 DEF Submit, Handler, Pool!Submit, Pool!Handler, Pool!Enqueue, Pool!EnqueuePanic,
                    streamVars, sessionVars
<1>7. ASSUME NEW w \in Workers, Loop(w) \/ ExecuteReturns(w) PROVE Jobs /\ Clients
  <2>1. UNCHANGED <<mu, status, sessions>>
    BY <1>7 DEF Loop, ExecuteReturns, streamVars, sessionVars
  <2>2. \A v \in Workers : workerPc[v] = "exec" =>
          \/ workerPc'[v] = "exec" /\ job'[v] = job[v]
          \/ mu[SessionOf[job[v]]] # job[v]
    BY <1>1, <1>7 DEF Loop, ExecuteReturns, Pool!Receive, Pool!Exit, Pool!Store, Pool!Cancel,
                      Pool!Delete, Pool!ExecuteReturns
  <2> QED
    BY <1>3, <1>4, <2>1, <2>2
<1>8. ASSUME NEW w \in Workers, Send(w) PROVE Jobs /\ Clients
  <2>1. /\ mu' = [mu EXCEPT ![SessionOf[job[w]]] = job[w]]
        /\ UNCHANGED <<workerPc, job, sessions, status>> /\ workerPc[w] = "exec"
        /\ job[w] \in JobIDs
    BY <1>1, <1>8 DEF Send, Stream!Publish, poolVars
  <2>2. \A s \in SessionIDs : mu'[s] = IF s = SessionOf[job[w]] THEN job[w] ELSE mu[s]
    BY <1>1, <2>1
  <2>3. Jobs
    BY <1>1, <2>1, <2>2
  <2>4. Clients
    BY <1>1, <1>4, <2>1, <2>2, Assumptions
  <2> QED
    BY <2>3, <2>4
<1>9. ASSUME NEW w \in Workers, SendReturns(w) PROVE Jobs /\ Clients
  <2>1. /\ mu' = [mu EXCEPT ![SessionOf[job[w]]] = NoJob]
        /\ UNCHANGED <<workerPc, job, sessions, status>>
    BY <1>9 DEF SendReturns, streamVars, poolVars
  <2>2. \A s \in SessionIDs : mu'[s] = NoJob \/ mu'[s] = mu[s]
    BY <1>1, <2>1
  <2> QED
    BY <1>3, <1>4, <2>1, <2>2, Assumptions
<1>10. ASSUME NEW c \in Conns, Connect(c) PROVE Jobs /\ Clients
  <2>1. /\ mu' = [mu EXCEPT ![Home(c)] = c] /\ status[c] = "waiting" /\ Home(c) \in sessions
        /\ UNCHANGED <<workerPc, job, sessions, status>>
    BY <1>10 DEF Connect, streamVars, poolVars
  <2>2. \A s \in SessionIDs : mu'[s] = IF s = Home(c) THEN c ELSE mu[s]
    BY <1>1, <2>1
  <2>3. Jobs
    BY <1>1, <1>3, <2>1, <2>2, Assumptions
  <2>4. Clients
    BY <1>1, <2>1, <2>2 DEF Home
  <2> QED
    BY <2>3, <2>4
<1>11. ASSUME NEW c \in Conns, Deliver(c) \/ Stall(c) PROVE Jobs /\ Clients
  BY <1>5, <1>11 DEF Deliver, Stall, Stream!Deliver, poolVars, sessionVars, streamVars
<1>12. ASSUME NEW c \in Conns, Reject(c) PROVE Jobs /\ Clients
  <2>1. /\ UNCHANGED <<workerPc, job, sessions, mu>> /\ Home(c) \notin sessions
        /\ status' = [status EXCEPT ![c] = "lost"]
    BY <1>12 DEF Reject, Stream!Drop, poolVars, sessionVars
  <2>2. \A s \in SessionIDs : mu[s] # c
    BY <1>1, <2>1
  <2>3. \A d \in Conns \ {c} : status'[d] = status[d]
    BY <1>1, <2>1
  <2> QED
    BY <1>3, <1>4, <2>1, <2>2, <2>3
<1>13. ASSUME NEW c \in Conns, Join(c) \/ Leave(c) PROVE Jobs /\ Clients
  <2>1. /\ UNCHANGED <<workerPc, job, sessions>>
        /\ \A s \in SessionIDs : mu'[s] # c /\ (mu'[s] = NoJob \/ mu'[s] = mu[s])
    <3>1. CASE Join(c)
      <4>1. mu' = [mu EXCEPT ![Home(c)] = NoJob] /\ UNCHANGED <<workerPc, job, sessions>>
        BY <3>1 DEF Join, poolVars
      <4> QED
        BY <1>1, <4>1, Assumptions
    <3>2. CASE Leave(c)
      <4>1. mu' = [mu EXCEPT ![Home(c)] = IF @ = c THEN NoJob ELSE @]
            /\ UNCHANGED <<workerPc, job, sessions>>
        BY <3>2 DEF Leave, poolVars
      <4> QED
        BY <1>1, <4>1, Assumptions
    <3> QED
      BY <1>13, <3>1, <3>2
  <2>2. \A d \in Conns \ {c} : status[d] = "waiting" => status'[d] = "waiting"
    BY <1>1, <1>13 DEF Join, Leave, Stream!Drop
  <2> QED
    BY <1>3, <1>4, <2>1, <2>2, Assumptions
<1>14. ASSUME NEW r \in Others, BeginOther(r) \/ AnswerOther(r) PROVE Jobs /\ Clients
  BY <1>5, <1>14 DEF BeginOther, AnswerOther, poolVars, streamVars, sessionVars
<1>15. ASSUME Signal \/ Expire \/ Main PROVE Jobs /\ Clients
  BY <1>5, <1>15 DEF Signal, Expire, Main, StopReturn, Shutdown, Exit, Forced, Pool!StopClose,
                     Pool!StopReturn, poolVars, streamVars, sessionVars
<1>16. CASE UNCHANGED vars
  BY <1>5, <1>16 DEF vars, poolVars, streamVars, sessionVars
<1> QED
  BY <1>6, <1>7, <1>8, <1>9, <1>10, <1>11, <1>12, <1>13, <1>14, <1>15, <1>16 DEF Next, Worker

\* A client misses a message only from Publish until its Send has written it; a client
\* that joins has had the whole history.
LEMMA LiveStep ==
  ASSUME IInv, [Next]_vars
  PROVE  LiveInv'
<1> DEFINE Misses(c) == status[c] = "live" /\ view[c] # log[Topic[c]]
<1>1. /\ \A c \in Conns : Misses(c) => mu[Home(c)] = Topic[c]
      /\ mu \in [SessionIDs -> JobIDs \cup Conns \cup {NoJob}]
      /\ status \in [Conns -> {"waiting", "live", "lost"}]
      /\ log \in [JobIDs -> Seq(Message)]
      /\ \A c \in Conns : Topic[c] \in JobIDs /\ Topic[c] # NoJob /\ Home(c) \in SessionIDs
      /\ \A s \in SessionIDs, c \in Conns : mu[s] = c => Home(c) = s /\ status[c] = "waiting"
      /\ \A w \in Workers : workerPc[w] = "exec" => job[w] \in JobIDs
  BY PoolFacts, Assumptions DEF IInv, LiveInv, LockInv, TypeOK, Home, Stream!Complete
<1>2. SUFFICES \A c \in Conns : Misses(c)' => mu'[Home(c)] = Topic[c]
  BY DEF LiveInv, Home, Stream!Complete
<1> DEFINE Live == \A c \in Conns : Misses(c)' => mu'[Home(c)] = Topic[c]
<1>3. ASSUME UNCHANGED <<streamVars, mu>> PROVE Live
  BY <1>1, <1>3 DEF streamVars
<1>4. ASSUME NEW j \in JobIDs, Submit(j) \/ Handler(j) PROVE Live
  BY <1>3, <1>4 DEF Submit, Handler, sessionVars
<1>5. ASSUME NEW w \in Workers, Loop(w) \/ ExecuteReturns(w) PROVE Live
  BY <1>3, <1>5 DEF Loop, ExecuteReturns, sessionVars
<1>6. ASSUME NEW w \in Workers, Send(w) PROVE Live
  <2>1. /\ mu[SessionOf[job[w]]] = NoJob /\ mu' = [mu EXCEPT ![SessionOf[job[w]]] = job[w]]
        /\ log' = [log EXCEPT ![job[w]] = Append(@, "done")]
        /\ UNCHANGED <<view, status>> /\ job[w] \in JobIDs
    BY <1>1, <1>6 DEF Send, Stream!Publish
  <2>2. ASSUME NEW c \in Conns, Misses(c)' PROVE mu'[Home(c)] = Topic[c]
    <3>1. CASE Topic[c] = job[w]
      BY <1>1, <2>1, <3>1 DEF Home
    <3>2. CASE Topic[c] # job[w]
      <4>1. Misses(c)
        BY <1>1, <2>1, <2>2, <3>2
      <4>2. mu[Home(c)] = Topic[c]
        BY <1>1, <4>1
      <4>3. Home(c) # SessionOf[job[w]]
        BY <1>1, <2>1, <4>2
      <4> QED
        BY <1>1, <2>1, <4>2, <4>3
    <3> QED
      BY <3>1, <3>2
  <2> QED
    BY <2>2
<1>7. ASSUME NEW w \in Workers, SendReturns(w) PROVE Live
  <2>1. /\ mu[SessionOf[job[w]]] = job[w] /\ mu' = [mu EXCEPT ![SessionOf[job[w]]] = NoJob]
        /\ \A c \in Conns :
             status[c] = "live" /\ Home(c) = SessionOf[job[w]] /\ Topic[c] = job[w]
               => view[c] = log[Topic[c]]
        /\ UNCHANGED streamVars /\ job[w] \in JobIDs
    BY <1>1, <1>7 DEF SendReturns, Stream!Complete
  <2>2. ASSUME NEW c \in Conns, Misses(c)' PROVE mu'[Home(c)] = Topic[c]
    <3>1. Misses(c) /\ mu[Home(c)] = Topic[c]
      BY <1>1, <2>1, <2>2 DEF streamVars
    <3>2. Home(c) # SessionOf[job[w]]
      BY <2>1, <3>1
    <3> QED
      BY <1>1, <2>1, <3>1, <3>2
  <2> QED
    BY <2>2
<1>8. ASSUME NEW c \in Conns, Connect(c) PROVE Live
  <2>1. mu[Home(c)] = NoJob /\ mu' = [mu EXCEPT ![Home(c)] = c] /\ UNCHANGED streamVars
    BY <1>8 DEF Connect
  <2> QED
    BY <1>1, <2>1 DEF streamVars
<1>9. ASSUME NEW c \in Conns, Deliver(c) PROVE Live
  <2>1. /\ mu[Home(c)] = c \/ mu[Home(c)] = Topic[c]
        /\ UNCHANGED <<log, status, mu>>
        /\ \E e : view' = [view EXCEPT ![c] = e]
    BY <1>9 DEF Deliver, Stream!Deliver, sessionVars
  <2>2. view \in [Conns -> Seq(Message)]
    BY DEF IInv, TypeOK
  <2>3. ASSUME NEW d \in Conns, Misses(d)' PROVE mu'[Home(d)] = Topic[d]
    <3>1. CASE d = c
      BY <1>1, <2>1, <2>3, <3>1
    <3>2. CASE d # c
      BY <1>1, <2>1, <2>2, <2>3, <3>2
    <3> QED
      BY <3>1, <3>2
  <2> QED
    BY <2>3
<1>10. ASSUME NEW c \in Conns, Join(c) PROVE Live
  <2>1. /\ mu[Home(c)] = c /\ mu' = [mu EXCEPT ![Home(c)] = NoJob]
        /\ view[c] = log[Topic[c]] /\ UNCHANGED <<log, view>>
        /\ \A d \in Conns \ {c} : status'[d] = "live" => status[d] = "live"
    BY <1>1, <1>10 DEF Join, Stream!Join, Stream!Complete
  <2>2. ASSUME NEW d \in Conns, Misses(d)' PROVE mu'[Home(d)] = Topic[d]
    <3>1. d # c /\ Misses(d)
      BY <2>1, <2>2
    <3>2. mu[Home(d)] = Topic[d]
      BY <1>1, <3>1
    <3>3. Home(d) # Home(c)
      BY <1>1, <2>1, <3>2, Assumptions
    <3> QED
      BY <1>1, <2>1, <3>2, <3>3
  <2> QED
    BY <2>2
<1>11. ASSUME NEW c \in Conns, Reject(c) \/ Leave(c) PROVE Live
  <2>1. /\ UNCHANGED <<log, view>> /\ status' = [status EXCEPT ![c] = "lost"]
        /\ UNCHANGED mu \/ mu' = [mu EXCEPT ![Home(c)] = IF @ = c THEN NoJob ELSE @]
    BY <1>11 DEF Reject, Leave, Stream!Drop, sessionVars
  <2>2. \A d \in Conns : Misses(d)' => Misses(d)
    BY <1>1, <2>1
  <2>3. \A s \in SessionIDs : mu'[s] = mu[s] \/ mu[s] = c
    BY <1>1, <2>1
  <2> QED
    BY <1>1, <2>2, <2>3, Assumptions
<1>12. ASSUME NEW c \in Conns, Stall(c) PROVE Live
  BY <1>3, <1>12 DEF Stall
<1>13. ASSUME NEW r \in Others, BeginOther(r) \/ AnswerOther(r) PROVE Live
  BY <1>3, <1>13 DEF BeginOther, AnswerOther, sessionVars
<1>14. ASSUME Signal \/ Expire \/ Main PROVE Live
  BY <1>3, <1>14 DEF Signal, Expire, Main, StopReturn, Shutdown, Exit, Forced, sessionVars
<1>15. CASE UNCHANGED vars
  BY <1>3, <1>15 DEF vars, sessionVars
<1> QED
  BY <1>4, <1>5, <1>6, <1>7, <1>8, <1>9, <1>10, <1>11, <1>12, <1>13, <1>14, <1>15
     DEF Next, Worker
-----------------------------------------------------------------------------
\* The invariant of the whole server: the worker pool's, and how main, the mutexes of the
\* sessions and the clients depend on each other.
THEOREM Invariant == Spec => []IInv
<1>1. Init => TypeOK /\ MainInv /\ SentInv /\ LockInv /\ LiveInv
  BY InitInv
<1>2. IInv /\ Pool!IInv' /\ [Next]_vars =>
        (TypeOK /\ MainInv /\ SentInv /\ LockInv /\ LiveInv)'
  <2> SUFFICES ASSUME IInv, Pool!IInv', [Next]_vars
               PROVE  (TypeOK /\ MainInv /\ SentInv /\ LockInv /\ LiveInv)'
    OBVIOUS
  <2>1. Pool!TypeOK'
    BY DEF Pool!IInv
  <2>2. MainInv
    BY DEF IInv
  <2> QED
    BY <2>1, <2>2, TypeStep, MainStep, SentStep, LockStep, LiveStep
<1>3. IInv <=> Pool!IInv /\ (TypeOK /\ MainInv /\ SentInv /\ LockInv /\ LiveInv)
  BY DEF IInv
<1> QED
  BY <1>1, <1>2, <1>3, PoolHolds, PTL DEF Spec

\* The variables of the server keep their types.
THEOREM TypeCorrect == Spec => []TypeOK
<1>1. IInv => TypeOK
  BY DEF IInv
<1> QED
  BY <1>1, Invariant, PTL

\* Whichever way the process ends its shutdown (main.go: Stop, then Shutdown), the jobs
\* that were answered 202 have run and the registered clients have their whole output,
\* for every number of workers, sessions, jobs and clients.
THEOREM NothingCutOffHolds == Spec => []NothingCutOff
<1>1. IInv => NothingCutOff
  <2> SUFFICES ASSUME IInv, proc \in {"exited", "forced"}
               PROVE  /\ \A j \in JobIDs : runPc[j] = "accepted" => Ended(j)
                      /\ \A c \in Conns : status[c] = "live" => Stream!Complete(c)
    BY DEF NothingCutOff
  <2>1. mainPc = "stopped"
    BY DEF IInv, MainInv
  <2>2. /\ \A w \in Workers : workerPc[w] = "exited"
        /\ \A j \in JobIDs : runPc[j] = "accepted" => executed[j] = 1
    BY <2>1, PoolFacts DEF IInv
  <2>3. \A j \in JobIDs : runPc[j] = "accepted" => Ended(j)
    BY <2>2 DEF IInv, SentInv
  <2>4. \A s \in SessionIDs, j \in JobIDs : mu[s] # j
    BY <2>2 DEF IInv, LockInv
  <2>5. \A c \in Conns : Home(c) \in SessionIDs /\ Topic[c] \in JobIDs
    BY Assumptions DEF Home
  <2>6. \A c \in Conns : status[c] = "live" => Stream!Complete(c)
    BY <2>4, <2>5 DEF IInv, LiveInv
  <2> QED
    BY <2>3, <2>6
<1> QED
  BY <1>1, Invariant, PTL
=============================================================================
