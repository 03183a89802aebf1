---------------------- MODULE SessionManagerRefinement ----------------------
(***************************************************************************)
(* The session manager implements JobStream: a TLAPS proof that, under the *)
(* mapping of SessionManager, every initial state is an initial state of   *)
(* JobStream and every step is a step of JobStream or changes nothing.     *)
(***************************************************************************)
EXTENDS SessionManagerProofs

\* The topic of a connection is the job it asked for, if that job is of its session; then
\* its view and the log of its topic are what it got of the job, and all that there is.
LEMMA TopicFacts ==
  ASSUME TypeOK, NEW c \in Conns
  PROVE  /\ TopicOf[c] = Topic(c) /\ StatusOf[c] = Status(c)
         /\ Topic(c) = NoJob => ViewOf[c] = <<>>
         /\ Topic(c) # NoJob =>
              /\ Topic(c) = Key(c) /\ Key(c) \in JobIDs /\ SessionOf[Key(c)] = Sid(c)
              /\ ViewOf[c] = Got(c) /\ JobLog[Topic(c)] = Log(c)
         /\ Key(c) \in JobIDs /\ SessionOf[Key(c)] = Sid(c) => Topic(c) = Key(c)
<1>1. Topic(c) # NoJob =>
        Topic(c) = Key(c) /\ Key(c) \in JobIDs /\ SessionOf[Key(c)] = Sid(c)
  BY DEF Topic
<1>2. Topic(c) # NoJob => JobLog[Topic(c)] = Log(c)
  BY <1>1 DEF JobLog, Log
<1>3. /\ Topic(c) = NoJob => ViewOf[c] = <<>>
      /\ Topic(c) # NoJob => ViewOf[c] = Got(c)
  BY DEF ViewOf, Got
<1> QED
  BY <1>1, <1>2, <1>3 DEF TopicOf, StatusOf, Topic

\* What a connection waits for, once it is out of AddConnection.
LEMMA StatusFacts ==
  ASSUME NEW c \in Conns
  PROVE  /\ wsPc[c] \in {"new", "lookup", "lock", "flush"} <=> Status(c) = "waiting"
         /\ Status(c) = "live" <=> /\ wsPc[c] \notin {"new", "lookup", "lock", "flush"}
                                   /\ Registered(c) /\ sock[c] # "closed"
         /\ Status(c) \in {"waiting", "live", "lost"}
  BY DEF Status

\* A step that changes no message and no status changes nothing in the abstract state.
LEMMA Quiet ==
  ASSUME UNCHANGED <<wire, jobBuffers, req>>
  PROVE  /\ UNCHANGED <<JobLog, TopicOf, ViewOf>>
         /\ (\A c \in Conns : Status(c)' = Status(c)) => StatusOf' = StatusOf
<1>1. \A c \in Conns : Topic(c)' = Topic(c) /\ Key(c)' = Key(c)
  BY DEF Topic, Key, Sid
<1>2. TopicOf' = TopicOf /\ ViewOf' = ViewOf
  BY <1>1 DEF TopicOf, ViewOf
<1> QED
  BY <1>2 DEF JobLog, StatusOf

\* A step that takes one connection off the stream, and changes nothing else, is a Drop.
LEMMA Dropped ==
  ASSUME UNCHANGED <<wire, jobBuffers, req>>, NEW c \in Conns,
         Status(c) # "lost", Status(c)' = "lost",
         \A d \in Conns : d # c => Status(d)' = Status(d)
  PROVE  Stream!Drop(c)
<1>1. StatusOf' = [StatusOf EXCEPT ![c] = "lost"]
  BY DEF StatusOf
<1>2. StatusOf[c] # "lost"
  BY DEF StatusOf
<1> QED
  BY <1>1, <1>2, Quiet DEF Stream!Drop

\* A function that differs from another one in one place is an EXCEPT of it.
LEMMA ExceptIs ==
  ASSUME NEW S, NEW f, NEW g, NEW x \in S,
         f = [y \in S |-> f[y]], g = [y \in S |-> g[y]],
         \A y \in S : y # x => g[y] = f[y]
  PROVE  g = [f EXCEPT ![x] = g[x]]
  OBVIOUS

\* The next message of its topic reaches a connection.
LEMMA Delivered ==
  ASSUME TypeOK, NEW c \in Conns, Topic(c) # NoJob, Status(c) # "lost",
         Len(Got(c)) < Len(Log(c)),
         wire' = [wire EXCEPT ![c][Key(c)] = Append(@, Log(c)[Len(Got(c)) + 1])],
         UNCHANGED <<jobBuffers, req, StatusOf>>
  PROVE  Stream!Deliver(c)
<1>1. \A d \in Conns : Topic(d)' = Topic(d) /\ Key(d)' = Key(d)
  BY DEF Topic, Key, Sid
<1>2. TopicOf' = TopicOf /\ JobLog' = JobLog
  BY <1>1 DEF TopicOf, JobLog
<1>3. /\ TopicOf[c] # NoJob /\ StatusOf[c] # "lost" /\ Key(c) \in JobIDs
      /\ ViewOf[c] = Got(c) /\ JobLog[TopicOf[c]] = Log(c)
  BY TopicFacts
<1>4. /\ wire'[c][Key(c)] = Append(Got(c), Log(c)[Len(Got(c)) + 1])
      /\ \A d \in Conns : d # c => wire'[d] = wire[d]
  BY <1>3 DEF Got, TypeOK
<1>5. ViewOf' = [ViewOf EXCEPT ![c] = Append(Got(c), Log(c)[Len(Got(c)) + 1])]
  <2> DEFINE m == Log(c)[Len(Got(c)) + 1]
  <2>1. ViewOf' = [d \in Conns |-> ViewOf'[d]] /\ ViewOf = [d \in Conns |-> ViewOf[d]]
    BY DEF ViewOf
  <2>2. ViewOf'[c] = Append(Got(c), m)
    BY <1>1, <1>4 DEF ViewOf
  <2>3. ASSUME NEW d \in Conns, d # c
        PROVE  ViewOf'[d] = ViewOf[d]
    BY <1>1, <1>4, <2>3 DEF ViewOf
  <2> HIDE DEF m
  <2>4. ViewOf' = [ViewOf EXCEPT ![c] = ViewOf'[c]]
    BY <2>1, <2>3, ExceptIs
  <2> QED
    BY <2>2, <2>4 DEF m
<1> QED
  BY <1>2, <1>3, <1>5 DEF Stream!Deliver

\* The initial states of the manager are initial states of the stream.
LEMMA InitRefines == Init => Stream!Init
<1> SUFFICES ASSUME Init PROVE Stream!Init
  OBVIOUS
<1>1. TypeOK
  BY TypeInit
<1>2. JobLog = [j \in JobIDs |-> <<>>]
  BY Assumptions DEF Init, JobLog
<1>3. TopicOf \in [Conns -> JobIDs \cup {NoJob}]
  BY DEF TopicOf, Topic
<1>4. ViewOf = [c \in Conns |-> <<>>]
  <2>1. \A c \in Conns : ViewOf[c] = <<>>
    <3> TAKE c \in Conns
    <3>1. Topic(c) # NoJob => ViewOf[c] = wire[c][Key(c)] /\ Key(c) \in JobIDs
      BY <1>1, TopicFacts DEF Got
    <3> QED
      BY <1>1, <3>1, TopicFacts DEF Init
  <2> QED
    BY <2>1 DEF ViewOf
<1>5. StatusOf = [c \in Conns |-> "waiting"]
  BY DEF Init, StatusOf, Status
<1> QED
  BY <1>2, <1>3, <1>4, <1>5 DEF Stream!Init

\* Every step of the manager is a step of the stream, or changes nothing in it.
LEMMA StepRefines ==
  ASSUME IInv, [Next]_vars
  PROVE  [Stream!Next]_(Stream!streamVars)
<1> DEFINE Step == [Stream!Next]_(Stream!streamVars)
           Add == {"new", "lookup", "lock", "flush"}
<1> USE Assumptions
<1>0. /\ TypeOK /\ LockInv /\ RegInv /\ OpenInv /\ WireInv
      /\ conns \in [SessionIDs -> [Keys -> Conns \cup {Nil}]]
      /\ wsPc \in [Conns -> {"new", "lookup", "reject", "lock", "flush", "read", "remove", "done"}]
      /\ sock \in [Conns -> {"none", "open", "stalled", "gone", "closed"}]
      /\ todo \in [Senders -> SUBSET Conns]
  BY DEF IInv, TypeOK
<1>a. ASSUME UNCHANGED <<JobLog, TopicOf, ViewOf, StatusOf>>
      PROVE  Step
  BY <1>a DEF Stream!streamVars
<1>b. ASSUME NEW c \in Conns, Stream!Deliver(c) \/ Stream!Join(c) \/ Stream!Drop(c)
      PROVE  Step
  BY <1>b DEF Stream!Next
<1>c. \A c \in Conns : Registered(c) => wsPc[c] \notin Add
  <2>1. \A c \in Conns : Sid(c) \in SessionIDs /\ Key(c) \in Keys
    BY <1>0, RequestFacts
  <2>2. \A c \in Conns : Registered(c) => wsPc[c] \in {"read", "remove"}
    BY <1>0, <2>1 DEF RegInv, Registered
  <2> QED
    BY <2>2
<1>1. ASSUME UNCHANGED <<wire, jobBuffers, req, conns>>,
             \A c \in Conns : wsPc'[c] \in Add <=> wsPc[c] \in Add,
             \A c \in Conns : sock'[c] = "closed" <=> sock[c] = "closed"
      PROVE  Step
  <2>1. \A c \in Conns : Registered(c)' <=> Registered(c)
    BY <1>1 DEF Registered, Sid, Key
  <2>2. \A c \in Conns : Status(c)' = Status(c)
    BY <1>1, <2>1 DEF Status
  <2> QED
    BY <1>1, <1>a, <2>2, Quiet
<1>2. ASSUME NEW j \in JobIDs, GetOrCreate(j) \/ Enqueue(j)
      PROVE  Step
  BY <1>1, <1>2 DEF GetOrCreate, Enqueue
<1>3. ASSUME NEW g \in Senders, SendLookup(g) \/ SendUnlock(g)
      PROVE  Step
  BY <1>1, <1>3 DEF SendLookup, SendUnlock, serverVars
<1>4. ASSUME NEW c \in Conns, Upgrade(c) \/ AddLookup(c) \/ AddLock(c) \/ ReadError(c) \/ Client(c)
      PROVE  Step
  <2>1. UNCHANGED <<wire, jobBuffers, req, conns>>
    BY <1>4 DEF Upgrade, AddLookup, AddLock, ReadError, Client, Stall, Resume, Leave, serverVars
  <2>2. \A d \in Conns : wsPc'[d] \in Add <=> wsPc[d] \in Add
    BY <1>0, <1>4 DEF Upgrade, AddLookup, AddLock, ReadError, Client, Stall, Resume, Leave
  <2>3. \A d \in Conns : sock'[d] = "closed" <=> sock[d] = "closed"
    BY <1>0, <1>4 DEF Upgrade, AddLookup, AddLock, ReadError, Client, Stall, Resume, Leave,
                      OpenInv
  <2> QED
    BY <1>1, <2>1, <2>2, <2>3
<1>5. ASSUME NEW g \in Senders, SendLock(g)
      PROVE  Step
  <2> DEFINE j == JobOf[g]
             m == [from |-> g, n |-> sent[g]]
  <2>1. j \in JobIDs /\ Home(g) = SessionOf[j] /\ Home(g) \in SessionIDs /\ m \in Message
    BY <1>0, SenderFacts DEF Home, Message, TypeOK
  <2>2. /\ mu[Home(g)] = Nil /\ UNCHANGED <<wire, req, conns, wsPc, sock>>
        /\ jobBuffers' = [jobBuffers EXCEPT ![Home(g)][j] = Append(@, m)]
    BY <1>5 DEF SendLock
  <2>3. JobLog' = [JobLog EXCEPT ![j] = Append(@, m)]
    <3>1. jobBuffers \in [SessionIDs -> [JobIDs -> Seq(Message)]]
      BY <1>0 DEF TypeOK
    <3>2. \A i \in JobIDs : jobBuffers'[SessionOf[i]][i]
            = IF i = j THEN Append(jobBuffers[SessionOf[i]][i], m) ELSE jobBuffers[SessionOf[i]][i]
      BY <2>1, <2>2, <3>1
    <3> QED
      BY <3>2 DEF JobLog
  <2>4. UNCHANGED <<TopicOf, ViewOf, StatusOf>>
    <3>1. \A c \in Conns : Topic(c)' = Topic(c) /\ Key(c)' = Key(c) /\ Status(c)' = Status(c)
      BY <2>2 DEF Topic, Status, Registered, Sid, Key
    <3> QED
      BY <2>2, <3>1 DEF TopicOf, ViewOf, StatusOf
  <2>5. ASSUME NEW c \in Conns, StatusOf[c] = "live", TopicOf[c] = j
        PROVE  Stream!Complete(c)
    <3>1. Topic(c) = j /\ j # NoJob /\ Registered(c) /\ sock[c] # "closed"
      BY <1>0, <2>1, <2>5, TopicFacts, StatusFacts
    <3>2. Key(c) = j /\ Sid(c) = Home(g) /\ ViewOf[c] = Got(c) /\ JobLog[j] = Log(c)
      BY <1>0, <2>1, <3>1, TopicFacts
    <3>3. \A h \in Senders : ~Owed(h, c)
      BY <1>0, <2>1, <2>2, <3>2, SenderFacts DEF Owed, RegInv, LockInv
    <3>4. Followed(c) /\ Got(c) \in Seq(Message) /\ Log(c) \in Seq(Message)
      BY <1>0, <2>1, <3>2, GotLogFacts DEF WireInv
    <3>5. Len(Got(c)) = Len(Log(c)) /\ \A i \in 1..Len(Got(c)) : Got(c)[i] = Log(c)[i]
      BY <3>1, <3>3, <3>4 DEF Followed, IsPrefix
    <3>6. Got(c) = Log(c)
      BY <3>4, <3>5, SeqEqual
    <3> QED
      BY <2>5, <3>2, <3>6 DEF Stream!Complete
  <2> HIDE DEF j, m
  <2>6. Stream!Publish(j, m)
    BY <2>3, <2>4, <2>5 DEF Stream!Publish
  <2> QED
    BY <2>1, <2>6 DEF Stream!Next
<1>6. ASSUME NEW g \in Senders, NEW c \in Conns, SendWrite(g, c)
      PROVE  Step
  <2>1. /\ UNCHANGED <<jobBuffers, req, conns, wsPc, sock>> /\ c \in todo[g] /\ sock[c] # "closed"
        /\ wire' = [wire EXCEPT ![c][JobOf[g]] = Append(@, [from |-> g, n |-> sent[g]])]
    BY <1>6 DEF SendWrite, serverVars, WriteOK, Put
  <2>2. Registered(c) /\ Sid(c) = Home(g) /\ JobOf[g] \in JobIDs
    BY <1>0, <2>1, SenderFacts DEF RegInv
  <2>3. StatusOf' = StatusOf
    <3>1. \A d \in Conns : Status(d)' = Status(d)
      BY <2>1 DEF Status, Registered, Sid, Key
    <3> QED
      BY <3>1 DEF StatusOf
  <2>4. CASE Key(c) = JobOf[g]
    <3>1. Topic(c) # NoJob
      BY <1>0, <2>2, <2>4, TopicFacts DEF Home
    <3>2. Status(c) # "lost"
      BY <1>c, <2>1, <2>2, StatusFacts
    <3>3. /\ Len(Log(c)) = Len(Got(c)) + 1
          /\ Log(c)[Len(Log(c))] = [from |-> g, n |-> sent[g]]
      BY <1>0, <2>1, <2>2, <2>4 DEF WireInv, Followed, Owed
    <3>4. Len(Got(c)) < Len(Log(c))
      BY <1>0, <2>2, <2>4, <3>3, GotLogFacts
    <3>5. wire' = [wire EXCEPT ![c][Key(c)] = Append(@, Log(c)[Len(Got(c)) + 1])]
      BY <2>1, <2>4, <3>3
    <3> QED
      BY <1>0, <1>b, <2>1, <2>3, <3>1, <3>2, <3>4, <3>5, Delivered
  <2>5. CASE Key(c) # JobOf[g]
    <3>1. \A d \in Conns : Topic(d)' = Topic(d) /\ Key(d)' = Key(d)
      BY <2>1 DEF Topic, Key, Sid
    <3>2. \A d \in Conns : Key(d) \in JobIDs => wire'[d][Key(d)] = wire[d][Key(d)]
      BY <1>0, <2>1, <2>2, <2>5 DEF TypeOK
    <3>3. \A d \in Conns : Topic(d) # NoJob => Key(d) \in JobIDs
      BY DEF Topic
    <3>4. UNCHANGED <<TopicOf, ViewOf, JobLog>>
      BY <2>1, <3>1, <3>2, <3>3 DEF TopicOf, ViewOf, JobLog
    <3> QED
      BY <1>a, <2>3, <3>4
  <2> QED
    BY <2>4, <2>5
<1>7. ASSUME NEW g \in Senders, NEW c \in Conns, SendFail(g, c)
      PROVE  Step
  <2>1. UNCHANGED <<wire, jobBuffers, req, conns, wsPc>> /\ c \in todo[g]
    BY <1>7 DEF SendFail, serverVars
  <2>2. sock'[c] = "closed" /\ \A d \in Conns : d # c => sock'[d] = sock[d]
    BY <1>0, <1>7 DEF SendFail
  <2>3. Registered(c) /\ wsPc[c] \notin Add
    BY <1>0, <1>c, <2>1 DEF RegInv
  <2>4. \A d \in Conns : Registered(d)' <=> Registered(d)
    BY <2>1 DEF Registered, Sid, Key
  <2>5. CASE sock[c] = "closed"
    BY <1>1, <2>1, <2>2, <2>5
  <2>6. CASE sock[c] # "closed"
    <3>1. Status(c) # "lost" /\ Status(c)' = "lost"
      BY <2>1, <2>2, <2>3, <2>6 DEF Status
    <3>2. \A d \in Conns : d # c => Status(d)' = Status(d)
      BY <2>1, <2>2, <2>4 DEF Status
    <3> QED
      BY <1>b, <2>1, <3>1, <3>2, Dropped
  <2> QED
    BY <2>5, <2>6
<1>8. ASSUME NEW c \in Conns, AddReject(c)
      PROVE  Step
  <2>1. UNCHANGED <<wire, jobBuffers, req, conns, sock>>
    BY <1>8 DEF AddReject, serverVars
  <2>2. /\ wsPc[c] = "lookup" /\ wsPc'[c] = "reject"
        /\ \A d \in Conns : d # c => wsPc'[d] = wsPc[d]
    BY <1>0, <1>8 DEF AddReject
  <2>3. \A d \in Conns : Registered(d)' <=> Registered(d)
    BY <2>1 DEF Registered, Sid, Key
  <2>4. ~Registered(c)
    BY <1>0, <2>2, RequestFacts DEF IInv, RegInv, Registered
  <2>5. Status(c) # "lost" /\ Status(c)' = "lost"
    BY <2>2, <2>3, <2>4 DEF Status
  <2>6. \A d \in Conns : d # c => Status(d)' = Status(d)
    BY <2>1, <2>2, <2>3 DEF Status
  <2> QED
    BY <1>b, <2>1, <2>5, <2>6, Dropped
<1>9. ASSUME NEW c \in Conns, FlushWrite(c)
      PROVE  Step
  <2>1. /\ UNCHANGED <<jobBuffers, req, conns, wsPc, sock>> /\ wsPc[c] = "flush"
        /\ Key(c) \in JobIDs /\ Len(Got(c)) < Len(Log(c))
        /\ wire' = [wire EXCEPT ![c][Key(c)] = Append(@, Log(c)[Len(Got(c)) + 1])]
    BY <1>9 DEF FlushWrite, FlushPending, Put, serverVars, Got, Log
  <2>2. StatusOf' = StatusOf
    <3>1. \A d \in Conns : Status(d)' = Status(d)
      BY <2>1 DEF Status, Registered, Sid, Key
    <3> QED
      BY <3>1 DEF StatusOf
  <2>3. CASE Topic(c) # NoJob
    <3>1. Status(c) # "lost"
      BY <2>1, StatusFacts
    <3> QED
      BY <1>0, <1>b, <2>1, <2>2, <2>3, <3>1, Delivered
  <2>4. CASE Topic(c) = NoJob
    <3>1. \A d \in Conns : Topic(d)' = Topic(d) /\ Key(d)' = Key(d)
      BY <2>1 DEF Topic, Key, Sid
    <3>2. \A d \in Conns : d # c => wire'[d] = wire[d]
      BY <1>0, <2>1 DEF TypeOK
    <3>3. UNCHANGED <<TopicOf, ViewOf, JobLog>>
      BY <2>1, <2>4, <3>1, <3>2 DEF TopicOf, ViewOf, JobLog
    <3> QED
      BY <1>a, <2>2, <3>3
  <2> QED
    BY <2>3, <2>4
<1>10. ASSUME NEW c \in Conns, FlushFail(c)
       PROVE  Step
  <2>1. UNCHANGED <<wire, jobBuffers, req, conns, sock>>
    BY <1>10 DEF FlushFail
  <2>2. /\ wsPc[c] = "flush" /\ wsPc'[c] = "read"
        /\ \A d \in Conns : d # c => wsPc'[d] = wsPc[d]
    BY <1>0, <1>10 DEF FlushFail
  <2>3. \A d \in Conns : Registered(d)' <=> Registered(d)
    BY <2>1 DEF Registered, Sid, Key
  <2>4. Status(c) # "lost" /\ Status(c)' = "lost"
    BY <1>c, <2>2, <2>3 DEF Status
  <2>5. \A d \in Conns : d # c => Status(d)' = Status(d)
    BY <2>1, <2>2, <2>3 DEF Status
  <2> QED
    BY <1>b, <2>1, <2>4, <2>5, Dropped
<1>11. ASSUME NEW c \in Conns, Register(c)
       PROVE  Step
  <2>1. /\ UNCHANGED <<wire, jobBuffers, req, sock>> /\ ~FlushPending(c)
        /\ conns' = [conns EXCEPT ![Sid(c)][Key(c)] = c]
    BY <1>11 DEF Register
  <2>2. /\ wsPc[c] = "flush" /\ wsPc'[c] = "read"
        /\ \A d \in Conns : d # c => wsPc'[d] = wsPc[d]
    BY <1>0, <1>11 DEF Register
  <2>3. \A d \in Conns : /\ Sid(d) \in SessionIDs /\ Key(d) \in Keys
                         /\ Sid(d)' = Sid(d) /\ Key(d)' = Key(d)
    BY <1>0, <2>1, RequestFacts DEF Sid, Key
  <2> DEFINE lost == {d \in Conns \ {c} : Registered(d) /\ Sid(d) = Sid(c) /\ Key(d) = Key(c)}
  <2>4. /\ Registered(c)' /\ \A d \in lost : ~Registered(d)'
        /\ \A d \in Conns \ ({c} \cup lost) : Registered(d)' <=> Registered(d)
    BY <1>0, <2>1, <2>3 DEF Registered
  <2>5. lost \in {{}} \cup {{d} : d \in {e \in Conns \ {c} : TopicOf[e] = TopicOf[c]}}
    <3>1. \A d \in lost : d \in Conns \ {c} /\ TopicOf[d] = TopicOf[c]
      BY DEF TopicOf, Topic
    <3>2. \A d, e \in lost : d = e
      BY DEF Registered
    <3> HIDE DEF lost
    <3>3. CASE lost = {}
      BY <3>3
    <3>4. CASE lost # {}
      <4>1. PICK d : d \in lost
        BY <3>4
      <4>2. lost = {d}
        BY <3>2, <4>1
      <4> QED
        BY <3>1, <4>1, <4>2
    <3> QED
      BY <3>3, <3>4
  <2>6. sock[c] # "closed"
    BY <1>0, <2>2 DEF OpenInv
  <2>7. \A d \in Conns : Status(d)' = IF d = c THEN "live"
                                      ELSE IF d \in lost THEN "lost" ELSE Status(d)
    <3>1. Status(c)' = "live"
      BY <2>1, <2>2, <2>4, <2>6 DEF Status
    <3>2. \A d \in lost : wsPc'[d] \notin Add
      BY <1>c, <2>2
    <3>3. \A d \in lost : Status(d)' = "lost"
      BY <2>4, <3>2 DEF Status
    <3>4. \A d \in Conns \ ({c} \cup lost) : Status(d)' = Status(d)
      BY <2>1, <2>2, <2>4 DEF Status
    <3> QED
      BY <3>1, <3>3, <3>4
  <2>8. StatusOf' = [d \in Conns |-> IF d = c THEN "live"
                                     ELSE IF d \in lost THEN "lost" ELSE StatusOf[d]]
    BY <2>7 DEF StatusOf
  <2>9. StatusOf[c] = "waiting"
    BY <2>2 DEF StatusOf, Status
  <2>10. Stream!Complete(c)
    <3> SUFFICES ASSUME TopicOf[c] # NoJob
                 PROVE  ViewOf[c] = JobLog[TopicOf[c]]
      BY DEF Stream!Complete
    <3>1. /\ Key(c) \in JobIDs /\ ViewOf[c] = Got(c) /\ JobLog[TopicOf[c]] = Log(c)
      BY <1>0, TopicFacts
    <3>2. Followed(c) /\ Got(c) \in Seq(Message) /\ Log(c) \in Seq(Message)
      BY <1>0, <3>1, GotLogFacts DEF WireInv
    <3>3. ~(Len(Got(c)) < Len(Log(c)))
      BY <2>1, <3>1 DEF FlushPending, Got, Log
    <3>4. Len(Got(c)) <= Len(Log(c)) /\ \A i \in 1..Len(Got(c)) : Got(c)[i] = Log(c)[i]
      BY <3>2 DEF Followed, IsPrefix
    <3>5. Len(Got(c)) = Len(Log(c))
      BY <3>2, <3>3, <3>4
    <3> QED
      BY <3>1, <3>2, <3>4, <3>5, SeqEqual
  <2> HIDE DEF lost
  <2>11. UNCHANGED <<JobLog, TopicOf, ViewOf>>
    BY <2>1, Quiet
  <2>12. Stream!Join(c)
    BY <2>5, <2>8, <2>9, <2>10, <2>11 DEF Stream!Join
  <2> QED
    BY <1>b, <2>12
<1>12. ASSUME NEW c \in Conns, RemoveConnection(c)
       PROVE  Step
  <2>1. /\ UNCHANGED <<wire, jobBuffers, req, sock>>
        /\ conns' = [conns EXCEPT ![Sid(c)] = [k \in Keys |-> IF @[k] = c THEN Nil ELSE @[k]]]
    BY <1>12 DEF RemoveConnection
  <2>2. /\ wsPc[c] = "remove" /\ wsPc'[c] = "done"
        /\ \A d \in Conns : d # c => wsPc'[d] = wsPc[d]
    BY <1>0, <1>12 DEF RemoveConnection
  <2>3. \A d \in Conns : /\ Sid(d) \in SessionIDs /\ Key(d) \in Keys
                         /\ Sid(d)' = Sid(d) /\ Key(d)' = Key(d) /\ d # Nil
    BY <1>0, <2>1, RequestFacts DEF Sid, Key
  <2>4. ~Registered(c)' /\ \A d \in Conns : d # c => (Registered(d)' <=> Registered(d))
    BY <1>0, <2>1, <2>3 DEF Registered
  <2>5. Status(c)' = "lost" /\ \A d \in Conns : d # c => Status(d)' = Status(d)
    BY <2>1, <2>2, <2>4 DEF Status
  <2>6. CASE Status(c) = "lost"
    <3>1. \A d \in Conns : Status(d)' = Status(d)
      BY <2>5, <2>6
    <3> QED
      BY <1>a, <2>1, <3>1, Quiet
  <2>7. CASE Status(c) # "lost"
    BY <1>b, <2>1, <2>5, <2>7, Dropped
  <2> QED
    BY <2>6, <2>7
<1>13. ASSUME NEW c \in Conns, Reject(c)
       PROVE  Step
  <2>1. UNCHANGED <<wire, jobBuffers, req, conns>>
    BY <1>13 DEF Reject, serverVars
  <2>2. /\ wsPc[c] = "reject" /\ wsPc'[c] = "done" /\ sock'[c] = "closed"
        /\ \A d \in Conns : d # c => sock'[d] = sock[d] /\ wsPc'[d] = wsPc[d]
    BY <1>0, <1>13 DEF Reject
  <2>3. \A d \in Conns : Registered(d)' <=> Registered(d)
    BY <2>1 DEF Registered, Sid, Key
  <2>4. ~Registered(c)
    BY <1>0, <2>2, RequestFacts DEF IInv, RegInv, Registered
  <2>5. \A d \in Conns : Status(d)' = Status(d)
    BY <2>2, <2>3, <2>4 DEF Status
  <2> QED
    BY <1>a, <2>1, <2>5, Quiet
<1>14. CASE UNCHANGED vars
  BY <1>1, <1>14 DEF vars
<1> QED
  BY <1>2, <1>3, <1>4, <1>5, <1>6, <1>7, <1>8, <1>9, <1>10, <1>11, <1>12, <1>13, <1>14
     DEF Next, SendRun, HandleRun, AddConnection, Terminated

\* The session manager implements JobStream: to a client that asks for a job it gives the
\* history and then every further message, in order and once each, until it is dropped.
THEOREM Refinement == Spec => ImplementsJobStream
<1>1. Init => Stream!Init
  BY InitRefines
<1>2. IInv /\ [Next]_vars => [Stream!Next]_(Stream!streamVars)
  BY StepRefines
<1> QED
  BY <1>1, <1>2, Invariant, PTL DEF Spec, ImplementsJobStream, Stream!Spec
=============================================================================
