------------------------ MODULE SessionManagerProofs ------------------------
(***************************************************************************)
(* TLAPS proofs about SessionManager, for every number of sessions, jobs,  *)
(* senders, connections and messages.                                      *)
(***************************************************************************)
EXTENDS SessionManager, SequenceTheorems, TLAPS

\* A request names a known session and a key of its maps.
LEMMA RequestFacts ==
  ASSUME TypeOK, NEW c \in Conns
  PROVE  Sid(c) \in SessionIDs /\ Key(c) \in Keys
  BY Assumptions DEF TypeOK, Sid, Key, Keys

\* A sender's job and session are known.
LEMMA SenderFacts ==
  ASSUME NEW g \in Senders
  PROVE  JobOf[g] \in JobIDs /\ Home(g) \in SessionIDs /\ g # Nil /\ g \notin Conns
  BY Assumptions DEF Home

\* Appending to one entry of a family of sequences keeps its type.
LEMMA AppendFacts ==
  ASSUME NEW S, NEW s \in Seq(S), NEW e \in S
  PROVE  /\ Append(s, e) \in Seq(S)
         /\ Len(Append(s, e)) = Len(s) + 1
         /\ Append(s, e)[Len(s) + 1] = e
         /\ \A i \in 1..Len(s) : Append(s, e)[i] = s[i]
  OBVIOUS
-----------------------------------------------------------------------------
(* Type correctness.                                                       *)

LEMMA TypeInit == Init => TypeOK
  BY Assumptions DEF Init, TypeOK, Keys, Procs

LEMMA TypeStep ==
  ASSUME TypeOK, [Next]_vars
  PROVE  TypeOK'
<1> USE Assumptions
<1>1. ASSUME NEW j \in JobIDs, GetOrCreate(j)
      PROVE  TypeOK'
  BY <1>1 DEF GetOrCreate, TypeOK, senderVars
<1>2. ASSUME NEW j \in JobIDs, Enqueue(j)
      PROVE  TypeOK'
  BY <1>2 DEF Enqueue, TypeOK, senderVars
<1>3. ASSUME NEW g \in Senders, SendLookup(g)
      PROVE  TypeOK'
  BY <1>3 DEF SendLookup, TypeOK, serverVars
<1>4. ASSUME NEW g \in Senders, SendLock(g)
      PROVE  TypeOK'
  <2>1. JobOf[g] \in JobIDs /\ Home(g) \in SessionIDs
    BY SenderFacts
  <2>2. [from |-> g, n |-> sent[g]] \in Message
    BY <1>4 DEF SendLock, Message, TypeOK
  <2>3. jobBuffers' \in [SessionIDs -> [JobIDs -> Seq(Message)]]
    <3>1. Append(jobBuffers[Home(g)][JobOf[g]], [from |-> g, n |-> sent[g]]) \in Seq(Message)
      BY <2>1, <2>2, AppendFacts DEF TypeOK
    <3> QED
      BY <1>4, <2>1, <3>1 DEF SendLock, TypeOK
  <2>4. mu' \in [SessionIDs -> Procs \cup {Nil}]
    BY <1>4, <2>1 DEF SendLock, TypeOK, Procs
  <2>5. todo' \in [Senders -> SUBSET Conns]
    BY <1>4 DEF SendLock, TypeOK
  <2> QED
    BY <1>4, <2>3, <2>4, <2>5 DEF SendLock, TypeOK
<1>5. ASSUME NEW g \in Senders, NEW c \in Conns, SendWrite(g, c)
      PROVE  TypeOK'
  <2>1. wire' \in [Conns -> [JobIDs -> Seq(Message)]]
    <3>1. [from |-> g, n |-> sent[g]] \in Message
      BY DEF Message, TypeOK
    <3>2. JobOf[g] \in JobIDs
      BY SenderFacts
    <3>3. Append(wire[c][JobOf[g]], [from |-> g, n |-> sent[g]]) \in Seq(Message)
      BY <3>1, <3>2, AppendFacts DEF TypeOK
    <3> QED
      BY <1>5, <3>2, <3>3 DEF SendWrite, Put, TypeOK
  <2> QED
    BY <1>5, <2>1 DEF SendWrite, TypeOK, serverVars
<1>6. ASSUME NEW g \in Senders, NEW c \in Conns, SendFail(g, c)
      PROVE  TypeOK'
  BY <1>6 DEF SendFail, TypeOK, serverVars
<1>7. ASSUME NEW g \in Senders, SendUnlock(g)
      PROVE  TypeOK'
  BY <1>7, SenderFacts DEF SendUnlock, TypeOK
<1>8. ASSUME NEW c \in Conns, Upgrade(c)
      PROVE  TypeOK'
  BY <1>8 DEF Upgrade, TypeOK, serverVars, senderVars
<1>9. ASSUME NEW c \in Conns, AddReject(c) \/ Reject(c)
      PROVE  TypeOK'
  <2>1. CASE AddReject(c)
    BY <2>1 DEF AddReject, TypeOK, serverVars, senderVars
  <2>2. CASE Reject(c)
    BY <2>2 DEF Reject, TypeOK, serverVars, senderVars
  <2> QED
    BY <1>9, <2>1, <2>2
<1>10. ASSUME NEW c \in Conns, AddLookup(c)
       PROVE  TypeOK'
  BY <1>10 DEF AddLookup, TypeOK, serverVars, senderVars
<1>11. ASSUME NEW c \in Conns, AddLock(c)
       PROVE  TypeOK'
  BY <1>11, RequestFacts DEF AddLock, TypeOK, senderVars, Procs
<1>12. ASSUME NEW c \in Conns, FlushWrite(c)
       PROVE  TypeOK'
  <2> DEFINE n == Len(wire[c][Key(c)]) + 1
             log == jobBuffers[Sid(c)][Key(c)]
  <2>1. Key(c) \in JobIDs /\ Sid(c) \in SessionIDs
    BY <1>12, RequestFacts DEF FlushWrite, FlushPending
  <2>2. log[n] \in Message
    <3>1. wire[c][Key(c)] \in Seq(Message) /\ log \in Seq(Message)
      BY <2>1 DEF TypeOK
    <3>2. n \in 1..Len(log)
      BY <1>12, <3>1 DEF FlushWrite, FlushPending
    <3> QED
      BY <3>1, <3>2, ElementOfSeq
  <2>3. wire' \in [Conns -> [JobIDs -> Seq(Message)]]
    BY <1>12, <2>1, <2>2 DEF FlushWrite, Put, TypeOK
  <2> QED
    BY <1>12, <2>3 DEF FlushWrite, TypeOK, serverVars, senderVars
<1>13. ASSUME NEW c \in Conns, FlushFail(c)
       PROVE  TypeOK'
  BY <1>13, RequestFacts DEF FlushFail, TypeOK, senderVars
<1>14. ASSUME NEW c \in Conns, Register(c)
       PROVE  TypeOK'
  BY <1>14, RequestFacts DEF Register, TypeOK, senderVars
<1>15. ASSUME NEW c \in Conns, ReadError(c)
       PROVE  TypeOK'
  BY <1>15 DEF ReadError, TypeOK, serverVars, senderVars
<1>16. ASSUME NEW c \in Conns, RemoveConnection(c)
       PROVE  TypeOK'
  <2>1. Sid(c) \in SessionIDs
    BY RequestFacts
  <2>2. conns' \in [SessionIDs -> [Keys -> Conns \cup {Nil}]]
    BY <1>16, <2>1 DEF RemoveConnection, TypeOK
  <2> QED
    BY <1>16, <2>2 DEF RemoveConnection, TypeOK, senderVars
<1>17. ASSUME NEW c \in Conns, Client(c)
       PROVE  TypeOK'
  <2>1. CASE Stall(c)
    BY <2>1 DEF Stall, TypeOK, serverVars, senderVars
  <2>2. CASE Resume(c)
    BY <2>2 DEF Resume, TypeOK, serverVars, senderVars
  <2>3. CASE Leave(c)
    BY <2>3 DEF Leave, TypeOK, serverVars, senderVars
  <2> QED
    BY <1>17, <2>1, <2>2, <2>3 DEF Client
<1>18. CASE UNCHANGED vars
  BY <1>18 DEF TypeOK, vars
<1> QED
  BY <1>1, <1>2, <1>3, <1>4, <1>5, <1>6, <1>7, <1>8, <1>9, <1>10, <1>11, <1>12, <1>13,
     <1>14, <1>15, <1>16, <1>17, <1>18
     DEF Next, SendRun, HandleRun, AddConnection, Terminated

\* Every reachable state is well typed: runs of the handlers and of Send never leave the
\* program points and the value sets that TypeOK names.
THEOREM TypeCorrect == Spec => []TypeOK
<1> QED
  BY TypeInit, TypeStep, PTL DEF Spec
-----------------------------------------------------------------------------
(* The inductive invariant.                                                *)

LEMMA LockInit == Init => LockInv
  BY Assumptions DEF Init, LockInv

\* A step that leaves the mutexes and the critical sections alone preserves LockInv.
LEMMA LockFrame ==
  ASSUME LockInv, UNCHANGED <<mu, sendPc, req>>,
         \A c \in Conns : wsPc'[c] = "flush" <=> wsPc[c] = "flush"
  PROVE  LockInv'
  BY DEF LockInv, Sid

LEMMA LockStep ==
  ASSUME TypeOK, LockInv, [Next]_vars
  PROVE  LockInv'
<1> USE Assumptions
<1>0. /\ mu \in [SessionIDs -> Procs \cup {Nil}]
      /\ sendPc \in [Senders -> {"idle", "lock", "write"}]
      /\ wsPc \in [Conns -> {"new", "lookup", "reject", "lock", "flush", "read", "remove", "done"}]
  BY DEF TypeOK
<1>1. ASSUME NEW j \in JobIDs, GetOrCreate(j)
      PROVE  LockInv'
  BY <1>0, <1>1, LockFrame DEF GetOrCreate, senderVars
<1>2. ASSUME NEW j \in JobIDs, Enqueue(j)
      PROVE  LockInv'
  BY <1>0, <1>2, LockFrame DEF Enqueue, senderVars
<1>3. ASSUME NEW g \in Senders, SendLookup(g)
      PROVE  LockInv'
  <2>1. UNCHANGED <<mu, wsPc, req>> /\ sendPc[g] = "idle"
    BY <1>3 DEF SendLookup, serverVars
  <2>2. \A h \in Senders : sendPc'[h] = "write" <=> sendPc[h] = "write"
    BY <1>0, <1>3 DEF SendLookup
  <2> QED
    BY <2>1, <2>2 DEF LockInv, Sid
<1>4. ASSUME NEW g \in Senders, SendLock(g)
      PROVE  LockInv'
  <2>1. mu[Home(g)] = Nil /\ Home(g) \in SessionIDs /\ g # Nil /\ g \notin Conns
    BY <1>4, SenderFacts DEF SendLock, LockInv
  <2>2. UNCHANGED <<wsPc, req>>
    BY <1>4 DEF SendLock
  <2>3. \A s \in SessionIDs, h \in Senders :
          mu'[s] = h <=> sendPc'[h] = "write" /\ Home(h) = s
    BY <1>0, <1>4, <2>1, SenderFacts DEF SendLock, LockInv
  <2>4. \A s \in SessionIDs, c \in Conns : mu'[s] = c <=> mu[s] = c
    BY <1>0, <1>4, <2>1 DEF SendLock
  <2> QED
    BY <2>2, <2>3, <2>4 DEF LockInv, Sid
<1>5. ASSUME NEW g \in Senders, NEW c \in Conns, SendWrite(g, c)
      PROVE  LockInv'
  BY <1>0, <1>5, LockFrame DEF SendWrite, serverVars
<1>6. ASSUME NEW g \in Senders, NEW c \in Conns, SendFail(g, c)
      PROVE  LockInv'
  BY <1>0, <1>6, LockFrame DEF SendFail, serverVars
<1>7. ASSUME NEW g \in Senders, SendUnlock(g)
      PROVE  LockInv'
  <2>1. mu[Home(g)] = g /\ Home(g) \in SessionIDs /\ g # Nil /\ g \notin Conns
    BY <1>7, SenderFacts DEF SendUnlock, LockInv
  <2>2. UNCHANGED <<wsPc, req>>
    BY <1>7 DEF SendUnlock
  <2>3. \A s \in SessionIDs, h \in Senders :
          mu'[s] = h <=> sendPc'[h] = "write" /\ Home(h) = s
    BY <1>0, <1>7, <2>1, SenderFacts DEF SendUnlock, LockInv
  <2>4. \A s \in SessionIDs, c \in Conns : mu'[s] = c <=> mu[s] = c
    BY <1>0, <1>7, <2>1 DEF SendUnlock
  <2> QED
    BY <2>2, <2>3, <2>4 DEF LockInv, Sid
<1>8. ASSUME NEW c \in Conns, Upgrade(c)
      PROVE  LockInv'
  BY <1>0, <1>8, LockFrame DEF Upgrade, serverVars, senderVars
<1>9. ASSUME NEW c \in Conns, AddReject(c) \/ Reject(c)
      PROVE  LockInv'
  BY <1>0, <1>9, LockFrame DEF AddReject, Reject, serverVars, senderVars
<1>10. ASSUME NEW c \in Conns, AddLookup(c)
       PROVE  LockInv'
  BY <1>0, <1>10, LockFrame DEF AddLookup, serverVars, senderVars
<1>11. ASSUME NEW c \in Conns, AddLock(c)
       PROVE  LockInv'
  <2>1. mu[Sid(c)] = Nil /\ Sid(c) \in SessionIDs /\ c # Nil /\ c \notin Senders
    BY <1>11, RequestFacts DEF AddLock, LockInv
  <2>2. UNCHANGED <<sendPc, req>>
    BY <1>11 DEF AddLock, senderVars
  <2>3. \A s \in SessionIDs, d \in Conns :
          mu'[s] = d <=> wsPc'[d] = "flush" /\ Sid(d) = s
    BY <1>0, <1>11, <2>1 DEF AddLock, LockInv
  <2>4. \A s \in SessionIDs, h \in Senders : mu'[s] = h <=> mu[s] = h
    BY <1>0, <1>11, <2>1 DEF AddLock
  <2> QED
    BY <2>2, <2>3, <2>4 DEF LockInv, Sid
<1>12. ASSUME NEW c \in Conns, FlushWrite(c)
       PROVE  LockInv'
  BY <1>0, <1>12, LockFrame DEF FlushWrite, serverVars, senderVars
<1>13. ASSUME NEW c \in Conns, FlushFail(c)
       PROVE  LockInv'
  <2>1. mu[Sid(c)] = c /\ Sid(c) \in SessionIDs /\ c # Nil /\ c \notin Senders
    BY <1>13, RequestFacts DEF FlushFail, LockInv
  <2>2. UNCHANGED <<sendPc, req>>
    BY <1>13 DEF FlushFail, senderVars
  <2>3. \A s \in SessionIDs, d \in Conns :
          mu'[s] = d <=> wsPc'[d] = "flush" /\ Sid(d) = s
    BY <1>0, <1>13, <2>1 DEF FlushFail, LockInv
  <2>4. \A s \in SessionIDs, h \in Senders : mu'[s] = h <=> mu[s] = h
    BY <1>0, <1>13, <2>1 DEF FlushFail
  <2> QED
    BY <2>2, <2>3, <2>4 DEF LockInv, Sid
<1>14. ASSUME NEW c \in Conns, Register(c)
       PROVE  LockInv'
  <2>1. mu[Sid(c)] = c /\ Sid(c) \in SessionIDs /\ c # Nil /\ c \notin Senders
    BY <1>14, RequestFacts DEF Register, LockInv
  <2>2. UNCHANGED <<sendPc, req>>
    BY <1>14 DEF Register, senderVars
  <2>3. \A s \in SessionIDs, d \in Conns :
          mu'[s] = d <=> wsPc'[d] = "flush" /\ Sid(d) = s
    BY <1>0, <1>14, <2>1 DEF Register, LockInv
  <2>4. \A s \in SessionIDs, h \in Senders : mu'[s] = h <=> mu[s] = h
    BY <1>0, <1>14, <2>1 DEF Register
  <2> QED
    BY <2>2, <2>3, <2>4 DEF LockInv, Sid
<1>15. ASSUME NEW c \in Conns, ReadError(c)
       PROVE  LockInv'
  BY <1>0, <1>15, LockFrame DEF ReadError, serverVars, senderVars
<1>16. ASSUME NEW c \in Conns, RemoveConnection(c)
       PROVE  LockInv'
  BY <1>0, <1>16, LockFrame DEF RemoveConnection, senderVars
<1>17. ASSUME NEW c \in Conns, Client(c)
       PROVE  LockInv'
  BY <1>0, <1>17, LockFrame DEF Client, Stall, Resume, Leave, serverVars, senderVars
<1>18. CASE UNCHANGED vars
  BY <1>18, LockFrame DEF vars
<1> QED
  BY <1>1, <1>2, <1>3, <1>4, <1>5, <1>6, <1>7, <1>8, <1>9, <1>10, <1>11, <1>12, <1>13,
     <1>14, <1>15, <1>16, <1>17, <1>18
     DEF Next, SendRun, HandleRun, AddConnection, Terminated

LEMMA RegInit == Init => RegInv
  BY Assumptions DEF Init, RegInv

\* A step that leaves the map alone preserves RegInv if it starts no loop over the map
\* and takes no registered connection out of its read loop.
LEMMA RegFrame ==
  ASSUME RegInv, UNCHANGED <<conns, req>>,
         \A c \in Conns : wsPc[c] \in {"read", "remove"} => wsPc'[c] \in {"read", "remove"},
         \A g \in Senders, c \in Conns :
           c \in todo'[g] => c \in todo[g] /\ sendPc'[g] = sendPc[g]
  PROVE  RegInv'
<1>1. /\ \A c \in Conns : Sid(c)' = Sid(c) /\ Key(c)' = Key(c)
      /\ \A c \in Conns : Registered(c)' <=> Registered(c)
  BY DEF Sid, Key, Registered
<1>2. \A c \in Conns, s \in SessionIDs, k \in Keys :
        conns'[s][k] = c => s = Sid(c) /\ k = Key(c) /\ wsPc'[c] \in {"read", "remove"}
  BY DEF RegInv
<1>3. \A g \in Senders, c \in Conns :
        c \in todo'[g] => sendPc'[g] = "write" /\ Sid(c) = Home(g) /\ Registered(c)
  BY DEF RegInv
<1> QED
  BY <1>1, <1>2, <1>3 DEF RegInv

LEMMA RegStep ==
  ASSUME TypeOK, LockInv, RegInv, [Next]_vars
  PROVE  RegInv'
<1> USE Assumptions
<1>0. /\ conns \in [SessionIDs -> [Keys -> Conns \cup {Nil}]]
      /\ sendPc \in [Senders -> {"idle", "lock", "write"}]
      /\ todo \in [Senders -> SUBSET Conns]
      /\ wsPc \in [Conns -> {"new", "lookup", "reject", "lock", "flush", "read", "remove", "done"}]
  BY DEF TypeOK
<1>1. ASSUME NEW j \in JobIDs, GetOrCreate(j)
      PROVE  RegInv'
  BY <1>0, <1>1, RegFrame DEF GetOrCreate, senderVars
<1>2. ASSUME NEW j \in JobIDs, Enqueue(j)
      PROVE  RegInv'
  BY <1>0, <1>2, RegFrame DEF Enqueue, senderVars
<1>3. ASSUME NEW g \in Senders, SendLookup(g)
      PROVE  RegInv'
  <2>1. \A h \in Senders, c \in Conns :
          c \in todo'[h] => c \in todo[h] /\ sendPc'[h] = sendPc[h]
    BY <1>0, <1>3 DEF SendLookup, RegInv
  <2> QED
    BY <1>3, <2>1, RegFrame DEF SendLookup, serverVars
<1>4. ASSUME NEW g \in Senders, SendLock(g)
      PROVE  RegInv'
  <2>1. Home(g) \in SessionIDs /\ UNCHANGED <<conns, wsPc, req>>
    BY <1>4, SenderFacts DEF SendLock
  <2>2. \A c \in Conns : /\ Sid(c)' = Sid(c) /\ Key(c)' = Key(c)
                         /\ Registered(c)' <=> Registered(c)
    BY <2>1 DEF Sid, Key, Registered
  <2>3. \A c \in todo'[g] : Sid(c) = Home(g) /\ Registered(c) /\ sendPc'[g] = "write"
    BY <1>0, <1>4, <2>1 DEF SendLock, RegInv, Registered
  <2>4. \A h \in Senders : h # g => todo'[h] = todo[h] /\ sendPc'[h] = sendPc[h]
    BY <1>0, <1>4 DEF SendLock
  <2>5. \A h \in Senders, c \in Conns :
          c \in todo'[h] => sendPc'[h] = "write" /\ Sid(c) = Home(h) /\ Registered(c)
    BY <2>3, <2>4 DEF RegInv
  <2> QED
    BY <2>1, <2>2, <2>5 DEF RegInv
<1>5. ASSUME NEW g \in Senders, NEW c \in Conns, SendWrite(g, c)
      PROVE  RegInv'
  BY <1>0, <1>5, RegFrame DEF SendWrite, serverVars
<1>6. ASSUME NEW g \in Senders, NEW c \in Conns, SendFail(g, c)
      PROVE  RegInv'
  BY <1>0, <1>6, RegFrame DEF SendFail, serverVars
<1>7. ASSUME NEW g \in Senders, SendUnlock(g)
      PROVE  RegInv'
  <2>1. \A h \in Senders, c \in Conns :
          c \in todo'[h] => c \in todo[h] /\ sendPc'[h] = sendPc[h]
    BY <1>0, <1>7 DEF SendUnlock
  <2> QED
    BY <1>7, <2>1, RegFrame DEF SendUnlock
<1>8. ASSUME NEW c \in Conns, Upgrade(c)
      PROVE  RegInv'
  BY <1>0, <1>8, RegFrame DEF Upgrade, serverVars, senderVars
<1>9. ASSUME NEW c \in Conns, AddReject(c) \/ Reject(c)
      PROVE  RegInv'
  BY <1>0, <1>9, RegFrame DEF AddReject, Reject, serverVars, senderVars
<1>10. ASSUME NEW c \in Conns, AddLookup(c)
       PROVE  RegInv'
  BY <1>0, <1>10, RegFrame DEF AddLookup, serverVars, senderVars
<1>11. ASSUME NEW c \in Conns, AddLock(c)
       PROVE  RegInv'
  BY <1>0, <1>11, RegFrame DEF AddLock, senderVars
<1>12. ASSUME NEW c \in Conns, FlushWrite(c)
       PROVE  RegInv'
  BY <1>0, <1>12, RegFrame DEF FlushWrite, serverVars, senderVars
<1>13. ASSUME NEW c \in Conns, FlushFail(c)
       PROVE  RegInv'
  BY <1>0, <1>13, RegFrame DEF FlushFail, senderVars
<1>14. ASSUME NEW c \in Conns, Register(c)
       PROVE  RegInv'
  <2>1. Sid(c) \in SessionIDs /\ Key(c) \in Keys /\ UNCHANGED <<sendPc, todo, req>>
    BY <1>14, RequestFacts DEF Register, senderVars
  <2>2. \A d \in Conns : Sid(d)' = Sid(d) /\ Key(d)' = Key(d)
    BY <2>1 DEF Sid, Key
  <2>3. \A d \in Conns, s \in SessionIDs, k \in Keys :
          conns'[s][k] = d => s = Sid(d) /\ k = Key(d) /\ wsPc'[d] \in {"read", "remove"}
    BY <1>0, <1>14, <2>1 DEF Register, RegInv
  <2>4. \A h \in Senders, d \in Conns : d \in todo[h] => Sid(d) # Sid(c)
    BY <1>14, <2>1, SenderFacts DEF Register, RegInv, LockInv
  <2>5. \A d \in Conns : Sid(d) # Sid(c) /\ Registered(d) => Registered(d)'
    BY <1>0, <1>14, <2>1, <2>2 DEF Register, Registered
  <2> QED
    BY <2>1, <2>2, <2>3, <2>4, <2>5 DEF RegInv
<1>15. ASSUME NEW c \in Conns, ReadError(c)
       PROVE  RegInv'
  BY <1>0, <1>15, RegFrame DEF ReadError, serverVars, senderVars
<1>16. ASSUME NEW c \in Conns, RemoveConnection(c)
       PROVE  RegInv'
  <2>1. Sid(c) \in SessionIDs /\ Key(c) \in Keys /\ UNCHANGED <<sendPc, todo, req>>
    BY <1>16, RequestFacts DEF RemoveConnection, senderVars
  <2>2. \A d \in Conns : Sid(d)' = Sid(d) /\ Key(d)' = Key(d)
    BY <2>1 DEF Sid, Key
  <2>3. \A d \in Conns, s \in SessionIDs, k \in Keys :
          conns'[s][k] = d => s = Sid(d) /\ k = Key(d) /\ wsPc'[d] \in {"read", "remove"}
    BY <1>0, <1>16, <2>1 DEF RemoveConnection, RegInv
  <2>4. \A h \in Senders, d \in Conns : d \in todo[h] => Sid(d) # Sid(c)
    BY <1>16, <2>1, SenderFacts DEF RemoveConnection, RegInv, LockInv
  <2>5. \A d \in Conns : Sid(d) # Sid(c) /\ Registered(d) => Registered(d)'
    BY <1>0, <1>16, <2>1, <2>2 DEF RemoveConnection, Registered
  <2> QED
    BY <2>1, <2>2, <2>3, <2>4, <2>5 DEF RegInv
<1>17. ASSUME NEW c \in Conns, Client(c)
       PROVE  RegInv'
  BY <1>0, <1>17, RegFrame DEF Client, Stall, Resume, Leave, serverVars, senderVars
<1>18. CASE UNCHANGED vars
  BY <1>18, RegFrame DEF vars
<1> QED
  BY <1>1, <1>2, <1>3, <1>4, <1>5, <1>6, <1>7, <1>8, <1>9, <1>10, <1>11, <1>12, <1>13,
     <1>14, <1>15, <1>16, <1>17, <1>18
     DEF Next, SendRun, HandleRun, AddConnection, Terminated

LEMMA GotLogFacts ==
  ASSUME TypeOK, NEW c \in Conns, Key(c) \in JobIDs
  PROVE  Got(c) \in Seq(Message) /\ Log(c) \in Seq(Message)
  BY RequestFacts DEF Got, Log, TypeOK

LEMMA WireInit == Init => WireInv
<1> SUFFICES ASSUME Init, NEW c \in Conns, Key(c) \in JobIDs
             PROVE  Followed(c)
  BY DEF WireInv
<1>1. TypeOK /\ Sid(c) \in SessionIDs /\ Key(c) \in Keys
  BY TypeInit, RequestFacts
<1>2. Got(c) = <<>> /\ Log(c) = <<>>
  BY <1>1 DEF Init, Got, Log
<1>3. ~Registered(c)
  BY <1>1, Assumptions DEF Init, Registered
<1> QED
  BY <1>2, <1>3 DEF Followed, IsPrefix

\* A step keeps a connection's account if it leaves its messages alone, and neither
\* registers or reopens it nor changes what the Sends in progress owe it.
LEMMA FollowedFrame ==
  ASSUME NEW d \in Conns, Followed(d),
         Got(d)' = Got(d), Log(d)' = Log(d),
         wsPc'[d] \in {"new", "lookup", "lock"} => wsPc[d] \in {"new", "lookup", "lock"},
         Registered(d)' /\ sock'[d] # "closed" =>
           /\ Registered(d) /\ sock[d] # "closed"
           /\ \A g \in Senders : /\ Owed(g, d)' <=> Owed(g, d)
                                 /\ Owed(g, d) => sent'[g] = sent[g]
  PROVE  Followed(d)'
<1>1. IsPrefix(Got(d), Log(d))' /\ (wsPc'[d] \in {"new", "lookup", "lock"} => Got(d)' = <<>>)
  BY DEF Followed, IsPrefix
<1>2. ASSUME Registered(d)', sock'[d] # "closed"
      PROVE  /\ (\A g \in Senders : ~Owed(g, d)') => Len(Got(d)') = Len(Log(d)')
             /\ \A g \in Senders : Owed(g, d)' =>
                  /\ Len(Log(d)') = Len(Got(d)') + 1
                  /\ Log(d)'[Len(Log(d)')] = [from |-> g, n |-> sent'[g]]
  <2>1. /\ Registered(d) /\ sock[d] # "closed"
        /\ \A g \in Senders : Owed(g, d)' <=> Owed(g, d)
        /\ \A g \in Senders : Owed(g, d) => sent'[g] = sent[g]
    BY <1>2
  <2>2. /\ (\A g \in Senders : ~Owed(g, d)) => Len(Got(d)) = Len(Log(d))
        /\ \A g \in Senders : Owed(g, d) =>
             /\ Len(Log(d)) = Len(Got(d)) + 1
             /\ Log(d)[Len(Log(d))] = [from |-> g, n |-> sent[g]]
    BY <2>1 DEF Followed
  <2> QED
    BY <2>1, <2>2
<1> QED
  BY <1>1, <1>2 DEF Followed

LEMMA WireFrame ==
  ASSUME WireInv, UNCHANGED <<wire, jobBuffers, req>>,
         \A d \in Conns : wsPc'[d] \in {"new", "lookup", "lock"}
                           => wsPc[d] \in {"new", "lookup", "lock"},
         \A d \in Conns : Registered(d)' /\ sock'[d] # "closed" =>
           /\ Registered(d) /\ sock[d] # "closed"
           /\ \A g \in Senders : /\ Owed(g, d)' <=> Owed(g, d)
                                 /\ Owed(g, d) => sent'[g] = sent[g]
  PROVE  WireInv'
<1> SUFFICES ASSUME NEW d \in Conns, Key(d) \in JobIDs
             PROVE  Followed(d)'
  BY DEF WireInv, Key
<1>1. Followed(d)
  BY DEF WireInv
<1>2. Got(d)' = Got(d) /\ Log(d)' = Log(d)
  BY DEF Got, Log, Sid, Key
<1> QED
  BY <1>1, <1>2, FollowedFrame

LEMMA WireStep ==
  ASSUME TypeOK, TypeOK', LockInv, RegInv, WireInv, [Next]_vars
  PROVE  WireInv'
<1> USE Assumptions
<1>0. /\ conns \in [SessionIDs -> [Keys -> Conns \cup {Nil}]]
      /\ sendPc \in [Senders -> {"idle", "lock", "write"}]
      /\ sent \in [Senders -> 0..MaxSends]
      /\ todo \in [Senders -> SUBSET Conns]
      /\ wsPc \in [Conns -> {"new", "lookup", "reject", "lock", "flush", "read", "remove", "done"}]
      /\ sock \in [Conns -> {"none", "open", "stalled", "gone", "closed"}]
  BY DEF TypeOK
<1>1. ASSUME NEW j \in JobIDs, GetOrCreate(j)
      PROVE  WireInv'
  BY <1>0, <1>1, WireFrame
     DEF GetOrCreate, senderVars, Registered, Owed, Sid, Key
<1>2. ASSUME NEW j \in JobIDs, Enqueue(j)
      PROVE  WireInv'
  BY <1>0, <1>2, WireFrame
     DEF Enqueue, senderVars, Registered, Owed, Sid, Key
<1>3. ASSUME NEW g \in Senders, SendLookup(g)
      PROVE  WireInv'
  <2>1. todo[g] = {} /\ UNCHANGED <<wire, jobBuffers, req, conns, wsPc, sock, todo>>
    BY <1>0, <1>3 DEF SendLookup, serverVars, RegInv
  <2>2. \A h \in Senders, d \in Conns : Owed(h, d) => sent'[h] = sent[h]
    BY <1>0, <1>3, <2>1 DEF SendLookup, Owed
  <2> QED
    BY <2>1, <2>2, WireFrame DEF Registered, Owed, Sid, Key
<1>4. ASSUME NEW g \in Senders, SendLock(g)
      PROVE  WireInv'
  <2> SUFFICES ASSUME NEW d \in Conns, Key(d) \in JobIDs
               PROVE  Followed(d)'
    BY <1>4 DEF WireInv, SendLock, Key
  <2>1. Followed(d)
    BY DEF WireInv
  <2>2. /\ Sid(d) \in SessionIDs /\ Sid(d)' = Sid(d) /\ Key(d)' = Key(d)
        /\ Got(d) \in Seq(Message) /\ Log(d) \in Seq(Message)
    BY <1>4, RequestFacts, GotLogFacts DEF SendLock, Sid, Key
  <2> DEFINE m == [from |-> g, n |-> sent[g]]
  <2>3. JobOf[g] \in JobIDs /\ Home(g) \in SessionIDs /\ m \in Message
    BY SenderFacts DEF Message, TypeOK
  <2>4. Got(d)' = Got(d) /\ (Registered(d)' <=> Registered(d))
    BY <1>4, <2>2 DEF SendLock, Got, Registered
  <2>5. CASE Sid(d) = Home(g) /\ Key(d) = JobOf[g]
    <3>1. Log(d)' = Append(Log(d), m)
      BY <1>4, <2>2, <2>3, <2>5 DEF SendLock, Log, TypeOK
    <3>2. \A h \in Senders : ~Owed(h, d)
      BY <1>4, <2>5, SenderFacts DEF SendLock, Owed, RegInv, LockInv, TypeOK
    <3>3. \A h \in Senders : Owed(h, d)' => h = g
      BY <1>4, <3>2, <2>2 DEF SendLock, Owed, TypeOK
    <3>4. Registered(d) => Owed(g, d)'
      BY <1>4, <2>2, <2>5 DEF SendLock, Owed, Registered, Keys, TypeOK
    <3>5. IsPrefix(Got(d), Log(d))'
      BY <2>1, <2>2, <2>3, <2>4, <3>1, AppendFacts DEF Followed, IsPrefix
    <3>6. Len(Log(d)') = Len(Log(d)) + 1 /\ Log(d)'[Len(Log(d)) + 1] = m
      BY <2>2, <2>3, <3>1, AppendFacts
    <3>7. UNCHANGED <<wsPc, sock, sent>>
      BY <1>4 DEF SendLock
    <3>8. Registered(d) /\ sock[d] # "closed" => Len(Got(d)) = Len(Log(d))
      BY <2>1, <3>2 DEF Followed
    <3>9. wsPc[d] \in {"new", "lookup", "lock"} => Got(d) = <<>>
      BY <2>1 DEF Followed
    <3> QED
      BY <2>4, <3>3, <3>4, <3>5, <3>6, <3>7, <3>8, <3>9 DEF Followed
  <2>6. CASE ~(Sid(d) = Home(g) /\ Key(d) = JobOf[g])
    <3>1. Log(d)' = Log(d)
      BY <1>4, <2>2, <2>3, <2>6 DEF SendLock, Log, TypeOK
    <3>2. \A h \in Senders : Owed(h, d)' <=> Owed(h, d)
      <4>1. \A h \in Senders : h # g => todo'[h] = todo[h]
        BY <1>0, <1>4 DEF SendLock
      <4>2. ~Owed(g, d)
        BY <1>4 DEF SendLock, RegInv, Owed
      <4>3. d \in todo'[g] => Sid(d) = Home(g)
        BY <1>0, <1>4, <2>3 DEF SendLock, RegInv
      <4>4. ~Owed(g, d)'
        BY <2>2, <2>6, <4>3 DEF Owed
      <4> QED
        BY <2>2, <4>1, <4>2, <4>4 DEF Owed
    <3>3. UNCHANGED <<wsPc, sock, sent>>
      BY <1>4 DEF SendLock
    <3> QED
      BY <2>1, <2>4, <3>1, <3>2, <3>3, FollowedFrame
  <2> QED
    BY <2>5, <2>6
<1>5. ASSUME NEW g \in Senders, NEW c \in Conns, SendWrite(g, c)
      PROVE  WireInv'
  <2> SUFFICES ASSUME NEW d \in Conns, Key(d) \in JobIDs
               PROVE  Followed(d)'
    BY <1>5 DEF WireInv, SendWrite, Key
  <2>1. Followed(d)
    BY DEF WireInv
  <2>2. /\ Sid(d) \in SessionIDs /\ Sid(d)' = Sid(d) /\ Key(d)' = Key(d)
        /\ Got(d) \in Seq(Message) /\ Log(d) \in Seq(Message)
    BY <1>5, RequestFacts, GotLogFacts DEF SendWrite, Sid, Key
  <2> DEFINE m == [from |-> g, n |-> sent[g]]
  <2>3. JobOf[g] \in JobIDs /\ m \in Message
    BY SenderFacts DEF Message, TypeOK
  <2>4. Log(d)' = Log(d) /\ (Registered(d)' <=> Registered(d))
    BY <1>5, <2>2 DEF SendWrite, serverVars, Log, Registered
  <2>5. sendPc[g] = "write" /\ Sid(c) = Home(g) /\ Registered(c) /\ sock[c] # "closed"
    BY <1>5 DEF SendWrite, RegInv, WriteOK
  <2>6. CASE d = c /\ Key(d) = JobOf[g]
    <3>1. Owed(g, d)
      BY <1>5, <2>6 DEF SendWrite, Owed
    <3>2. Len(Log(d)) = Len(Got(d)) + 1 /\ Log(d)[Len(Log(d))] = m
      BY <2>1, <2>5, <2>6, <3>1 DEF Followed
    <3>3. Got(d)' = Append(Got(d), m)
      BY <1>5, <2>2, <2>6 DEF SendWrite, Put, Got, TypeOK
    <3>4. \A h \in Senders : h # g => ~Owed(h, d)
      BY <2>5, <2>6, SenderFacts DEF Owed, RegInv, LockInv, TypeOK
    <3>5. \A h \in Senders : ~Owed(h, d)'
      BY <1>5, <2>2, <2>6, <3>4 DEF SendWrite, Owed, TypeOK
    <3>6. wsPc[d] \in {"read", "remove"}
      BY <2>2, <2>5, <2>6, RequestFacts DEF RegInv, Registered
    <3>7. IsPrefix(Got(d), Log(d))'
      BY <2>1, <2>2, <2>3, <2>4, <3>2, <3>3, AppendFacts DEF Followed, IsPrefix
    <3>8. Len(Got(d)') = Len(Got(d)) + 1
      BY <2>2, <2>3, <3>3, AppendFacts
    <3>9. UNCHANGED wsPc
      BY <1>5 DEF SendWrite
    <3> QED
      BY <2>4, <3>2, <3>5, <3>6, <3>7, <3>8, <3>9 DEF Followed
  <2>7. CASE ~(d = c /\ Key(d) = JobOf[g])
    <3>1. Got(d)' = Got(d)
      BY <1>5, <2>2, <2>7 DEF SendWrite, Put, Got, TypeOK
    <3>2. \A h \in Senders : Owed(h, d)' <=> Owed(h, d)
      <4>1. \A h \in Senders : h # g => todo'[h] = todo[h]
        BY <1>0, <1>5 DEF SendWrite
      <4>2. todo'[g] = todo[g] \ {c}
        BY <1>0, <1>5 DEF SendWrite
      <4> QED
        BY <2>2, <2>7, <4>1, <4>2 DEF Owed
    <3>3. UNCHANGED <<wsPc, sock, sent>>
      BY <1>5 DEF SendWrite
    <3> QED
      BY <2>1, <2>4, <3>1, <3>2, <3>3, FollowedFrame
  <2> QED
    BY <2>6, <2>7
<1>6. ASSUME NEW g \in Senders, NEW c \in Conns, SendFail(g, c)
      PROVE  WireInv'
  <2>1. UNCHANGED <<wire, jobBuffers, req, conns, wsPc, sent>>
    BY <1>6 DEF SendFail, serverVars
  <2>2. sock'[c] = "closed" /\ \A d \in Conns : d # c => sock'[d] = sock[d]
    BY <1>0, <1>6 DEF SendFail
  <2>3. \A h \in Senders, d \in Conns : d # c => (d \in todo'[h] <=> d \in todo[h])
    BY <1>0, <1>6 DEF SendFail
  <2>4. \A d \in Conns : /\ Registered(d)' <=> Registered(d)
                         /\ d # c => \A h \in Senders : Owed(h, d)' <=> Owed(h, d)
    BY <2>1, <2>3 DEF Registered, Owed, Sid, Key
  <2> QED
    BY <2>1, <2>2, <2>4, WireFrame
<1>7. ASSUME NEW g \in Senders, SendUnlock(g)
      PROVE  WireInv'
  BY <1>0, <1>7, WireFrame DEF SendUnlock, Registered, Owed, Sid, Key
<1>8. ASSUME NEW c \in Conns, Upgrade(c)
      PROVE  WireInv'
  <2> SUFFICES ASSUME NEW d \in Conns, Key(d) \in JobIDs
               PROVE  Followed(d)'
    BY <1>8 DEF WireInv, Upgrade, Key
  <2>1. Followed(d)
    BY DEF WireInv
  <2>2. /\ Sid(d) \in SessionIDs /\ Sid(d)' = Sid(d) /\ Key(d)' = Key(d)
        /\ Got(d) \in Seq(Message) /\ Log(d) \in Seq(Message)
    BY <1>8, RequestFacts, GotLogFacts DEF Upgrade, Sid, Key
  <2>3. Got(d)' = Got(d) /\ Log(d)' = Log(d) /\ (Registered(d)' <=> Registered(d))
    BY <1>8, <2>2 DEF Upgrade, serverVars, Log, Got, Registered
  <2>4. \A h \in Senders : Owed(h, d)' <=> Owed(h, d)
    BY <1>8, <2>2 DEF Upgrade, senderVars, Owed
  <2>5. d = c => ~Registered(d)
    BY <1>8, <2>2, RequestFacts DEF Upgrade, RegInv, Registered
  <2>6. wsPc'[d] \in {"new", "lookup", "lock"} => wsPc[d] \in {"new", "lookup", "lock"}
    BY <1>8 DEF Upgrade, TypeOK
  <2>7. d # c => sock'[d] = sock[d]
    BY <1>8 DEF Upgrade, TypeOK
  <2> QED
    BY <1>8, <2>1, <2>3, <2>4, <2>5, <2>6, <2>7 DEF Upgrade, senderVars, Followed, IsPrefix
<1>9. ASSUME NEW c \in Conns, AddReject(c) \/ Reject(c)
      PROVE  WireInv'
  BY <1>0, <1>9, WireFrame
     DEF AddReject, Reject, serverVars, senderVars, Registered, Owed, Sid, Key
<1>10. ASSUME NEW c \in Conns, AddLookup(c)
       PROVE  WireInv'
  BY <1>0, <1>10, WireFrame
     DEF AddLookup, serverVars, senderVars, Registered, Owed, Sid, Key
<1>11. ASSUME NEW c \in Conns, AddLock(c)
       PROVE  WireInv'
  BY <1>0, <1>11, WireFrame
     DEF AddLock, senderVars, Registered, Owed, Sid, Key
<1>12. ASSUME NEW c \in Conns, FlushWrite(c)
       PROVE  WireInv'
  <2> SUFFICES ASSUME NEW d \in Conns, Key(d) \in JobIDs
               PROVE  Followed(d)'
    BY <1>12 DEF WireInv, FlushWrite, Key
  <2>1. Followed(d)
    BY DEF WireInv
  <2>2. /\ Sid(d) \in SessionIDs /\ Sid(d)' = Sid(d) /\ Key(d)' = Key(d)
        /\ Got(d) \in Seq(Message) /\ Log(d) \in Seq(Message)
    BY <1>12, RequestFacts, GotLogFacts DEF FlushWrite, Sid, Key
  <2>3. Log(d)' = Log(d) /\ (Registered(d)' <=> Registered(d))
    BY <1>12, <2>2 DEF FlushWrite, serverVars, Log, Registered
  <2>4. \A h \in Senders : Owed(h, d)' <=> Owed(h, d)
    BY <1>12, <2>2 DEF FlushWrite, senderVars, Owed
  <2>5. CASE d = c
    <3> DEFINE m == Log(d)[Len(Got(d)) + 1]
    <3>1. Len(Got(d)) + 1 \in 1..Len(Log(d))
      BY <1>12, <2>2, <2>5 DEF FlushWrite, FlushPending, Got, Log
    <3>2. m \in Message
      BY <2>2, <3>1, ElementOfSeq
    <3>3. Got(d)' = Append(Got(d), m)
      BY <1>12, <2>2, <2>5 DEF FlushWrite, Put, Got, Log, TypeOK
    <3>4. ~Registered(d)
      BY <1>12, <2>2, <2>5, RequestFacts DEF FlushWrite, RegInv, Registered
    <3>5. IsPrefix(Got(d), Log(d))'
      BY <2>1, <2>2, <2>3, <3>1, <3>2, <3>3, AppendFacts DEF Followed, IsPrefix
    <3> QED
      BY <1>12, <2>3, <2>5, <3>4, <3>5 DEF FlushWrite, serverVars, Followed
  <2>6. CASE d # c
    <3>1. Got(d)' = Got(d)
      BY <1>12, <2>2, <2>6 DEF FlushWrite, Put, Got, TypeOK
    <3> QED
      BY <1>12, <2>1, <2>3, <2>4, <3>1
         DEF FlushWrite, serverVars, senderVars, Followed, IsPrefix
  <2> QED
    BY <2>5, <2>6
<1>13. ASSUME NEW c \in Conns, FlushFail(c)
       PROVE  WireInv'
  BY <1>0, <1>13, WireFrame
     DEF FlushFail, senderVars, Registered, Owed, Sid, Key
<1>14. ASSUME NEW c \in Conns, Register(c)
       PROVE  WireInv'
  <2> SUFFICES ASSUME NEW d \in Conns, Key(d) \in JobIDs
               PROVE  Followed(d)'
    BY <1>14 DEF WireInv, Register, Key
  <2>1. Followed(d)
    BY DEF WireInv
  <2>2. /\ Sid(d) \in SessionIDs /\ Sid(d)' = Sid(d) /\ Key(d)' = Key(d)
        /\ Got(d) \in Seq(Message) /\ Log(d) \in Seq(Message)
    BY <1>14, RequestFacts, GotLogFacts DEF Register, Sid, Key
  <2>3. Got(d)' = Got(d) /\ Log(d)' = Log(d)
    BY <1>14, <2>2 DEF Register, Log, Got
  <2>4. \A h \in Senders : Owed(h, d)' <=> Owed(h, d)
    BY <1>14, <2>2 DEF Register, senderVars, Owed
  <2>5. CASE d = c
    <3>1. Len(Got(d)) = Len(Log(d))
      <4>1. ~(Len(Got(d)) < Len(Log(d)))
        BY <1>14, <2>5 DEF Register, FlushPending, Got, Log
      <4>2. Len(Got(d)) <= Len(Log(d))
        BY <2>1 DEF Followed, IsPrefix
      <4>3. Len(Got(d)) \in Nat /\ Len(Log(d)) \in Nat
        BY <2>2
      <4> QED
        BY <4>1, <4>2, <4>3
    <3>2. \A h \in Senders : ~Owed(h, d)'
      <4>1. wsPc[d] = "flush" /\ Key(d) \in Keys
        BY <1>14, <2>5, RequestFacts DEF Register
      <4>2. ~Registered(d)
        BY <2>2, <4>1 DEF RegInv, Registered
      <4> QED
        BY <2>4, <4>2 DEF RegInv, Owed
    <3>3. wsPc'[d] = "read"
      BY <1>0, <1>14, <2>5 DEF Register
    <3>4. IsPrefix(Got(d), Log(d))'
      BY <2>1, <2>3 DEF Followed, IsPrefix
    <3> QED
      BY <2>3, <3>1, <3>2, <3>3, <3>4 DEF Followed
  <2>6. CASE d # c
    <3>1. Registered(d)' => Registered(d)
      BY <1>14, <2>2, <2>6, RequestFacts DEF Register, Registered, TypeOK
    <3> QED
      BY <1>14, <2>1, <2>3, <2>4, <2>6, <3>1
         DEF Register, senderVars, Followed, IsPrefix, TypeOK
  <2> QED
    BY <2>5, <2>6
<1>15. ASSUME NEW c \in Conns, ReadError(c)
       PROVE  WireInv'
  <2> SUFFICES ASSUME NEW d \in Conns, Key(d) \in JobIDs
               PROVE  Followed(d)'
    BY <1>15 DEF WireInv, ReadError, Key
  <2>1. Followed(d)
    BY DEF WireInv
  <2>2. /\ Sid(d) \in SessionIDs /\ Sid(d)' = Sid(d) /\ Key(d)' = Key(d)
        /\ Got(d) \in Seq(Message) /\ Log(d) \in Seq(Message)
    BY <1>15, RequestFacts, GotLogFacts DEF ReadError, Sid, Key
  <2>3. Got(d)' = Got(d) /\ Log(d)' = Log(d) /\ (Registered(d)' <=> Registered(d))
    BY <1>15, <2>2 DEF ReadError, serverVars, Log, Got, Registered
  <2>4. \A h \in Senders : Owed(h, d)' <=> Owed(h, d)
    BY <1>15, <2>2 DEF ReadError, senderVars, Owed
  <2>5. wsPc'[d] \in {"new", "lookup", "lock"} => wsPc[d] \in {"new", "lookup", "lock"}
    BY <1>15 DEF ReadError, TypeOK
  <2> QED
    BY <1>15, <2>1, <2>3, <2>4, <2>5
       DEF ReadError, serverVars, senderVars, Followed, IsPrefix
<1>16. ASSUME NEW c \in Conns, RemoveConnection(c)
       PROVE  WireInv'
  <2>1. Sid(c) \in SessionIDs /\ UNCHANGED <<wire, jobBuffers, req, sock, sent, todo>>
    BY <1>16, RequestFacts DEF RemoveConnection, senderVars
  <2>2. \A d \in Conns : wsPc'[d] \in {"new", "lookup", "lock"}
                          => wsPc[d] \in {"new", "lookup", "lock"}
    BY <1>0, <1>16 DEF RemoveConnection
  <2>3. \A d \in Conns : Sid(d) \in SessionIDs /\ Key(d) \in Keys
    BY RequestFacts
  <2>4. \A d \in Conns : Registered(d)' => Registered(d)
    BY <1>0, <1>16, <2>1, <2>3, Assumptions DEF RemoveConnection, Registered, Sid, Key
  <2>5. \A d \in Conns, h \in Senders : Owed(h, d)' <=> Owed(h, d)
    BY <2>1 DEF Owed, Key
  <2> QED
    BY <2>1, <2>2, <2>4, <2>5, WireFrame
<1>17. ASSUME NEW c \in Conns, Client(c)
       PROVE  WireInv'
  <2> SUFFICES ASSUME NEW d \in Conns, Key(d) \in JobIDs
               PROVE  Followed(d)'
    BY <1>17 DEF WireInv, Client, Stall, Resume, Leave, Key
  <2>1. Followed(d)
    BY DEF WireInv
  <2>2. /\ Sid(d) \in SessionIDs /\ Sid(d)' = Sid(d) /\ Key(d)' = Key(d)
        /\ Got(d) \in Seq(Message) /\ Log(d) \in Seq(Message)
    BY <1>17, RequestFacts, GotLogFacts DEF Client, Stall, Resume, Leave, Sid, Key
  <2>3. Got(d)' = Got(d) /\ Log(d)' = Log(d) /\ (Registered(d)' <=> Registered(d))
    BY <1>17, <2>2 DEF Client, Stall, Resume, Leave, serverVars, Log, Got, Registered
  <2>4. \A h \in Senders : Owed(h, d)' <=> Owed(h, d)
    BY <1>17, <2>2 DEF Client, Stall, Resume, Leave, senderVars, Owed
  <2>5. sock'[d] # "closed" => sock[d] # "closed"
    BY <1>0, <1>17 DEF Client, Stall, Resume, Leave
  <2>6. UNCHANGED <<wsPc, sent>>
    BY <1>17 DEF Client, Stall, Resume, Leave, senderVars
  <2> QED
    BY <2>1, <2>3, <2>4, <2>5, <2>6, FollowedFrame
<1>18. CASE UNCHANGED vars
  BY <1>18, WireFrame DEF vars, Registered, Owed, Sid, Key
<1> QED
  BY <1>1, <1>2, <1>3, <1>4, <1>5, <1>6, <1>7, <1>8, <1>9, <1>10, <1>11, <1>12, <1>13,
     <1>14, <1>15, <1>16, <1>17, <1>18
     DEF Next, SendRun, HandleRun, AddConnection, Terminated
-----------------------------------------------------------------------------
LEMMA OpenInit == Init => OpenInv
  BY DEF Init, OpenInv

\* A Send closes registered connections only, and those have left AddConnection.
LEMMA OpenStep ==
  ASSUME TypeOK, RegInv, OpenInv, [Next]_vars
  PROVE  OpenInv'
<1> DEFINE Adding(c) == wsPc[c] \in {"new", "lookup", "lock", "flush"}
<1>0. /\ wsPc \in [Conns -> {"new", "lookup", "reject", "lock", "flush", "read", "remove", "done"}]
      /\ sock \in [Conns -> {"none", "open", "stalled", "gone", "closed"}]
  BY DEF TypeOK
<1>1. CASE UNCHANGED <<wsPc, sock>>
  BY <1>1 DEF OpenInv
<1>2. ASSUME NEW g \in Senders, NEW c \in Conns, SendFail(g, c)
      PROVE  OpenInv'
  <2>1. UNCHANGED wsPc /\ ~Adding(c) /\ \A d \in Conns : d # c => sock'[d] = sock[d]
    BY <1>0, <1>2, RequestFacts DEF SendFail, RegInv, Registered
  <2> QED
    BY <2>1 DEF OpenInv
<1>3. ASSUME NEW c \in Conns, Reject(c)
      PROVE  OpenInv'
  BY <1>0, <1>3 DEF Reject, OpenInv
<1>4. ASSUME NEW c \in Conns, Upgrade(c) \/ Client(c)
      PROVE  OpenInv'
  <2>1. /\ sock'[c] # "closed"
        /\ \A d \in Conns : d # c => sock'[d] = sock[d] /\ wsPc'[d] = wsPc[d]
    BY <1>0, <1>4 DEF Upgrade, Client, Stall, Resume, Leave
  <2> QED
    BY <2>1 DEF OpenInv
<1>5. ASSUME NEW c \in Conns, \/ AddReject(c) \/ AddLookup(c) \/ AddLock(c)
                              \/ FlushFail(c) \/ Register(c)
                              \/ ReadError(c) \/ RemoveConnection(c)
      PROVE  OpenInv'
  <2>1. UNCHANGED sock /\ \A d \in Conns : Adding(d)' => Adding(d)
    BY <1>0, <1>5
       DEF AddReject, AddLookup, AddLock, FlushFail, Register, ReadError, RemoveConnection
  <2> QED
    BY <2>1 DEF OpenInv
<1>6. ASSUME NEW j \in JobIDs, GetOrCreate(j) \/ Enqueue(j)
      PROVE  UNCHANGED <<wsPc, sock>>
  BY <1>6 DEF GetOrCreate, Enqueue
<1>7. ASSUME NEW g \in Senders, SendLookup(g) \/ SendLock(g) \/ SendUnlock(g)
      PROVE  UNCHANGED <<wsPc, sock>>
  BY <1>7 DEF SendLookup, SendLock, SendUnlock
<1>8. ASSUME NEW c \in Conns, FlushWrite(c) \/ \E g \in Senders : SendWrite(g, c)
      PROVE  UNCHANGED <<wsPc, sock>>
  BY <1>8 DEF FlushWrite, SendWrite
<1>9. CASE UNCHANGED vars
  BY <1>1, <1>9 DEF vars
<1> QED
  BY <1>1, <1>2, <1>3, <1>4, <1>5, <1>6, <1>7, <1>8, <1>9
     DEF Next, SendRun, HandleRun, AddConnection, Terminated
-----------------------------------------------------------------------------
(* The messages of the other jobs of a session.                            *)

\* What a connection received of a job, and the job's buffer, are sequences of messages.
LEMMA HeardFacts ==
  ASSUME TypeOK, NEW c \in Conns, NEW j \in JobIDs
  PROVE  Heard(c, j) \in Seq(Message) /\ History(c, j) \in Seq(Message)
  BY RequestFacts DEF TypeOK, Heard, History

\* A run of a sequence stays one when either is extended by the message that follows.
LEMMA RunExtended ==
  ASSUME NEW S, NEW s \in Seq(S), NEW t \in Seq(S), NEW e \in S, NEW off \in Nat,
         RunAt(s, t, off)
  PROVE  /\ RunAt(s, Append(t, e), off)
         /\ off + Len(s) < Len(t) /\ t[off + Len(s) + 1] = e => RunAt(Append(s, e), t, off)
<1>1. /\ Len(Append(t, e)) = Len(t) + 1 /\ \A i \in 1..Len(t) : Append(t, e)[i] = t[i]
      /\ Len(Append(s, e)) = Len(s) + 1 /\ \A i \in 1..Len(s) : Append(s, e)[i] = s[i]
      /\ Append(s, e)[Len(s) + 1] = e
      /\ Len(s) \in Nat /\ Len(t) \in Nat
  BY AppendFacts
<1>2. RunAt(s, Append(t, e), off)
  <2>1. \A i \in 1..Len(s) : off + i \in 1..Len(t)
    BY <1>1 DEF RunAt
  <2> QED
    BY <1>1, <2>1 DEF RunAt
<1>3. ASSUME off + Len(s) < Len(t), t[off + Len(s) + 1] = e
      PROVE  RunAt(Append(s, e), t, off)
  <2>1. \A i \in 1..Len(Append(s, e)) : Append(s, e)[i] = t[off + i]
    <3> TAKE i \in 1..Len(Append(s, e))
    <3>1. CASE i \in 1..Len(s)
      BY <1>1, <3>1 DEF RunAt
    <3>2. CASE i = Len(s) + 1
      BY <1>1, <1>3, <3>2
    <3> QED
      BY <1>1, <3>1, <3>2
  <2> QED
    BY <1>1, <1>3, <2>1 DEF RunAt
<1> QED
  BY <1>2, <1>3

LEMMA RunInit == Init => RunInv
<1> SUFFICES ASSUME Init, NEW c \in Conns, NEW j \in JobIDs
             PROVE  Overheard(c, j)
  BY DEF RunInv
<1>1. TypeOK /\ Sid(c) \in SessionIDs /\ Key(c) \in Keys
  BY TypeInit, RequestFacts
<1>2. Heard(c, j) = <<>> /\ History(c, j) = <<>>
  BY <1>1 DEF Init, Heard, History
<1>3. ~Registered(c)
  BY <1>1, Assumptions DEF Init, Registered
<1>4. RunAt(<<>>, <<>>, 0) /\ 0 \in 0..(Len(<<>>) - Len(<<>>))
  BY DEF RunAt
<1> QED
  BY <1>2, <1>3, <1>4 DEF Overheard

\* A step keeps what is said of a connection and a job if it leaves their messages alone,
\* and neither registers or reopens the connection nor changes what it is due.
LEMMA OverheardFrame ==
  ASSUME NEW d \in Conns, NEW j \in JobIDs, Overheard(d, j),
         Heard(d, j)' = Heard(d, j), History(d, j)' = History(d, j),
         wsPc'[d] \in {"new", "lookup", "lock", "flush"}
           => wsPc[d] \in {"new", "lookup", "lock", "flush"},
         Registered(d)' /\ sock'[d] # "closed" =>
           /\ Registered(d) /\ sock[d] # "closed"
           /\ \A g \in Senders : /\ Due(g, d, j)' <=> Due(g, d, j)
                                 /\ Due(g, d, j) => sent'[g] = sent[g]
  PROVE  Overheard(d, j)'
<1> DEFINE got == Heard(d, j)
           log == History(d, j)
<1>1. /\ \E off \in 0..(Len(log) - Len(got)) : RunAt(got, log, off)
      /\ wsPc'[d] \in {"new", "lookup", "lock", "flush"} => got = <<>>
  BY DEF Overheard
<1>2. ASSUME Registered(d)', sock'[d] # "closed"
      PROVE  /\ (\A g \in Senders : ~Due(g, d, j)') => RunAt(got, log, Len(log) - Len(got))
             /\ \A g \in Senders : Due(g, d, j)' =>
                  /\ Len(got) < Len(log)
                  /\ log[Len(log)] = [from |-> g, n |-> sent'[g]]
                  /\ RunAt(got, log, Len(log) - 1 - Len(got))
  <2>1. /\ Registered(d) /\ sock[d] # "closed"
        /\ \A g \in Senders : Due(g, d, j)' <=> Due(g, d, j)
        /\ \A g \in Senders : Due(g, d, j) => sent'[g] = sent[g]
    BY <1>2
  <2>2. /\ (\A g \in Senders : ~Due(g, d, j)) => RunAt(got, log, Len(log) - Len(got))
        /\ \A g \in Senders : Due(g, d, j) =>
             /\ Len(got) < Len(log)
             /\ log[Len(log)] = [from |-> g, n |-> sent[g]]
             /\ RunAt(got, log, Len(log) - 1 - Len(got))
    BY <2>1 DEF Overheard
  <2> QED
    BY <2>1, <2>2
<1>3. got' = got /\ log' = log
  OBVIOUS
<1> HIDE DEF got, log
<1>4. /\ \E off \in 0..(Len(log') - Len(got')) : RunAt(got', log', off)
      /\ wsPc'[d] \in {"new", "lookup", "lock", "flush"} => got' = <<>>
      /\ Registered(d)' /\ sock'[d] # "closed" =>
           /\ (\A g \in Senders : ~Due(g, d, j)') => RunAt(got', log', Len(log') - Len(got'))
           /\ \A g \in Senders : Due(g, d, j)' =>
                /\ Len(got') < Len(log')
                /\ log'[Len(log')] = [from |-> g, n |-> sent'[g]]
                /\ RunAt(got', log', Len(log') - 1 - Len(got'))
  BY <1>1, <1>2, <1>3
<1> QED
  BY <1>4 DEF Overheard, RunAt, got, log

LEMMA RunFrame ==
  ASSUME RunInv, UNCHANGED <<wire, jobBuffers, req>>,
         \A d \in Conns : wsPc'[d] \in {"new", "lookup", "lock", "flush"}
                           => wsPc[d] \in {"new", "lookup", "lock", "flush"},
         \A d \in Conns : Registered(d)' /\ sock'[d] # "closed" =>
           /\ Registered(d) /\ sock[d] # "closed"
           /\ \A g \in Senders : /\ d \in todo'[g] <=> d \in todo[g]
                                 /\ d \in todo[g] => sent'[g] = sent[g]
  PROVE  RunInv'
<1> SUFFICES ASSUME NEW d \in Conns, NEW j \in JobIDs, j # Key(d)
             PROVE  Overheard(d, j)'
  BY DEF RunInv, Key
<1>1. Overheard(d, j)
  BY DEF RunInv
<1>2. Heard(d, j)' = Heard(d, j) /\ History(d, j)' = History(d, j)
  BY DEF Heard, History, Sid
<1>3. Registered(d)' /\ sock'[d] # "closed" =>
        /\ Registered(d) /\ sock[d] # "closed"
        /\ \A g \in Senders : /\ Due(g, d, j)' <=> Due(g, d, j)
                              /\ Due(g, d, j) => sent'[g] = sent[g]
  BY DEF Due
<1> QED
  BY <1>1, <1>2, <1>3, OverheardFrame

LEMMA RunStep ==
  ASSUME TypeOK, TypeOK', LockInv, RegInv, RunInv, [Next]_vars
  PROVE  RunInv'
<1> USE Assumptions
<1>0. /\ conns \in [SessionIDs -> [Keys -> Conns \cup {Nil}]]
      /\ sendPc \in [Senders -> {"idle", "lock", "write"}]
      /\ sent \in [Senders -> 0..MaxSends]
      /\ todo \in [Senders -> SUBSET Conns]
      /\ wsPc \in [Conns -> {"new", "lookup", "reject", "lock", "flush", "read", "remove", "done"}]
      /\ sock \in [Conns -> {"none", "open", "stalled", "gone", "closed"}]
  BY DEF TypeOK
<1>1. ASSUME NEW j \in JobIDs, GetOrCreate(j) \/ Enqueue(j)
      PROVE  RunInv'
  BY <1>0, <1>1, RunFrame DEF GetOrCreate, Enqueue, senderVars, Registered, Sid, Key
<1>2. ASSUME NEW g \in Senders, SendLookup(g)
      PROVE  RunInv'
  <2>1. todo[g] = {} /\ UNCHANGED <<wire, jobBuffers, req, conns, wsPc, sock, todo>>
    BY <1>0, <1>2 DEF SendLookup, serverVars, RegInv
  <2>2. \A h \in Senders, d \in Conns : d \in todo[h] => sent'[h] = sent[h]
    BY <1>0, <1>2, <2>1 DEF SendLookup
  <2> QED
    BY <2>1, <2>2, RunFrame DEF Registered, Sid, Key
<1>3. ASSUME NEW g \in Senders, SendLock(g)
      PROVE  RunInv'
  <2> SUFFICES ASSUME NEW d \in Conns, NEW j \in JobIDs, j # Key(d)
               PROVE  Overheard(d, j)'
    BY <1>3 DEF RunInv, SendLock, Key
  <2> DEFINE m == [from |-> g, n |-> sent[g]]
             got == Heard(d, j)
             log == History(d, j)
  <2>1. Overheard(d, j)
    BY DEF RunInv
  <2>2. Sid(d) \in SessionIDs /\ Key(d) \in Keys /\ Sid(d)' = Sid(d) /\ Key(d)' = Key(d)
    BY <1>3, RequestFacts DEF SendLock, Sid, Key
  <2>3. got \in Seq(Message) /\ log \in Seq(Message) /\ Len(got) \in Nat /\ Len(log) \in Nat
    BY HeardFacts
  <2>4. JobOf[g] \in JobIDs /\ Home(g) \in SessionIDs /\ m \in Message
    BY SenderFacts DEF Message, TypeOK
  <2>5. got' = got /\ (Registered(d)' <=> Registered(d)) /\ UNCHANGED <<wsPc, sock, sent>>
    BY <1>3, <2>2 DEF SendLock, Heard, Registered
  <2>6. CASE Sid(d) = Home(g) /\ j = JobOf[g]
    <3>1. log' = Append(log, m)
      BY <1>3, <2>2, <2>4, <2>6 DEF SendLock, History, TypeOK
    <3>2. Len(log') = Len(log) + 1 /\ log'[Len(log')] = m
      BY <2>3, <2>4, <3>1, AppendFacts
    <3>3. \A h \in Senders : ~Due(h, d, j)
      BY <1>3, <2>6, SenderFacts DEF SendLock, Due, RegInv, LockInv, TypeOK
    <3>4. \A h \in Senders : Due(h, d, j)' => h = g
      BY <1>3, <3>3 DEF SendLock, Due, TypeOK
    <3>5. Registered(d) => Due(g, d, j)'
      BY <1>3, <2>2, <2>6 DEF SendLock, Due, Registered, TypeOK
    <3>6. \E off \in 0..(Len(log') - Len(got)) : RunAt(got, log', off)
      <4>1. PICK off \in 0..(Len(log) - Len(got)) : RunAt(got, log, off)
        BY <2>1 DEF Overheard
      <4>2. off \in 0..(Len(log') - Len(got)) /\ off \in Nat
        BY <2>3, <3>2
      <4>3. RunAt(got, log', off)
        BY <2>3, <2>4, <3>1, <4>1, <4>2, RunExtended
      <4> QED
        BY <4>2, <4>3
    <3>7. Registered(d) /\ sock[d] # "closed" =>
            Len(got) < Len(log') /\ RunAt(got, log', Len(log') - 1 - Len(got))
      <4> SUFFICES ASSUME Registered(d), sock[d] # "closed"
                   PROVE  Len(got) < Len(log') /\ RunAt(got, log', Len(log') - 1 - Len(got))
        OBVIOUS
      <4>1. RunAt(got, log, Len(log) - Len(got))
        BY <2>1, <3>3 DEF Overheard
      <4>2. Len(got) <= Len(log)
        <5>1. \E off \in 0..(Len(log) - Len(got)) : TRUE
          BY <2>1 DEF Overheard
        <5> QED
          BY <2>3, <5>1
      <4>3. Len(log) - Len(got) \in Nat /\ Len(log') - 1 - Len(got) = Len(log) - Len(got)
        BY <2>3, <3>2, <4>2
      <4>4. RunAt(got, log', Len(log) - Len(got))
        BY <2>3, <2>4, <3>1, <4>1, <4>3, RunExtended
      <4> QED
        BY <2>3, <3>2, <4>2, <4>3, <4>4
    <3>8. wsPc[d] \in {"new", "lookup", "lock", "flush"} => got = <<>>
      BY <2>1 DEF Overheard
    <3> HIDE DEF got, log
    <3>9. /\ \E off \in 0..(Len(log') - Len(got')) : RunAt(got', log', off)
          /\ wsPc'[d] \in {"new", "lookup", "lock", "flush"} => got' = <<>>
          /\ Registered(d)' /\ sock'[d] # "closed" =>
               /\ ~\A h \in Senders : ~Due(h, d, j)'
               /\ \A h \in Senders : Due(h, d, j)' =>
                    /\ Len(got') < Len(log')
                    /\ log'[Len(log')] = [from |-> h, n |-> sent'[h]]
                    /\ RunAt(got', log', Len(log') - 1 - Len(got'))
      BY <2>5, <3>2, <3>4, <3>5, <3>6, <3>7, <3>8
    <3> QED
      BY <3>9 DEF Overheard, RunAt, got, log
  <2>7. CASE ~(Sid(d) = Home(g) /\ j = JobOf[g])
    <3>1. log' = log
      BY <1>3, <2>2, <2>4, <2>7 DEF SendLock, History, TypeOK
    <3>2. \A h \in Senders : Due(h, d, j)' <=> Due(h, d, j)
      <4>1. \A h \in Senders : h # g => todo'[h] = todo[h]
        BY <1>0, <1>3 DEF SendLock
      <4>2. ~Due(g, d, j)
        BY <1>3 DEF SendLock, RegInv, Due
      <4>3. d \in todo'[g] => Sid(d) = Home(g)
        BY <1>0, <1>3, <2>4 DEF SendLock, RegInv
      <4> QED
        BY <2>7, <4>1, <4>2, <4>3 DEF Due
    <3> QED
      BY <2>1, <2>5, <3>1, <3>2, OverheardFrame
  <2> QED
    BY <2>6, <2>7
<1>4. ASSUME NEW g \in Senders, NEW c \in Conns, SendWrite(g, c)
      PROVE  RunInv'
  <2> SUFFICES ASSUME NEW d \in Conns, NEW j \in JobIDs, j # Key(d)
               PROVE  Overheard(d, j)'
    BY <1>4 DEF RunInv, SendWrite, Key
  <2> DEFINE m == [from |-> g, n |-> sent[g]]
             got == Heard(d, j)
             log == History(d, j)
  <2>1. Overheard(d, j)
    BY DEF RunInv
  <2>2. Sid(d) \in SessionIDs /\ Key(d) \in Keys /\ Sid(d)' = Sid(d) /\ Key(d)' = Key(d)
    BY <1>4, RequestFacts DEF SendWrite, Sid, Key
  <2>3. got \in Seq(Message) /\ log \in Seq(Message) /\ Len(got) \in Nat /\ Len(log) \in Nat
    BY HeardFacts
  <2>4. JobOf[g] \in JobIDs /\ m \in Message
    BY SenderFacts DEF Message, TypeOK
  <2>5. /\ log' = log /\ (Registered(d)' <=> Registered(d)) /\ UNCHANGED <<wsPc, sock, sent>>
        /\ sendPc[g] = "write" /\ Sid(c) = Home(g) /\ Registered(c) /\ sock[c] # "closed"
    BY <1>4, <2>2 DEF SendWrite, serverVars, History, Registered, RegInv, WriteOK
  <2>6. CASE d = c /\ j = JobOf[g]
    <3>1. Due(g, d, j)
      BY <1>4, <2>6 DEF SendWrite, Due
    <3>2. /\ Len(got) < Len(log) /\ log[Len(log)] = m
          /\ RunAt(got, log, Len(log) - 1 - Len(got))
      BY <2>1, <2>5, <2>6, <3>1 DEF Overheard
    <3>3. got' = Append(got, m)
      BY <1>4, <2>6 DEF SendWrite, Put, Heard, TypeOK
    <3>4. Len(got') = Len(got) + 1
      BY <2>3, <2>4, <3>3, AppendFacts
    <3>5. \A h \in Senders : ~Due(h, d, j)'
      <4>1. \A h \in Senders : h # g => ~Due(h, d, j)
        BY <2>5, <2>6, SenderFacts DEF Due, RegInv, LockInv, TypeOK
      <4> QED
        BY <1>4, <2>6, <4>1 DEF SendWrite, Due, TypeOK
    <3>6. wsPc[d] \in {"read", "remove"}
      BY <2>2, <2>5, <2>6, RequestFacts DEF RegInv, Registered
    <3>7. Len(log) - Len(got') \in 0..(Len(log) - Len(got')) /\ Len(log) - Len(got') \in Nat
      BY <2>3, <3>2, <3>4
    <3>8. RunAt(got', log, Len(log) - Len(got'))
      <4>1. Len(log) - 1 - Len(got) = Len(log) - Len(got')
        BY <2>3, <3>4
      <4>2. /\ (Len(log) - Len(got')) + Len(got) < Len(log)
            /\ (Len(log) - Len(got')) + Len(got) + 1 = Len(log)
        BY <2>3, <3>4
      <4>3. RunAt(got, log, Len(log) - Len(got'))
        BY <3>2, <4>1
      <4> HIDE DEF got, log, m
      <4>4. RunAt(Append(got, m), log, Len(log) - Len(got'))
        BY <2>3, <2>4, <3>2, <3>7, <4>2, <4>3, RunExtended
      <4> QED
        BY <3>3, <4>4
    <3> HIDE DEF got, log
    <3>9. /\ \E off \in 0..(Len(log') - Len(got')) : RunAt(got', log', off)
          /\ wsPc'[d] \notin {"new", "lookup", "lock", "flush"}
          /\ RunAt(got', log', Len(log') - Len(got'))
          /\ \A h \in Senders : ~Due(h, d, j)'
      BY <2>5, <3>5, <3>6, <3>7, <3>8
    <3> QED
      BY <3>9 DEF Overheard, RunAt, got, log
  <2>7. CASE ~(d = c /\ j = JobOf[g])
    <3>1. got' = got
      BY <1>4, <2>4, <2>7 DEF SendWrite, Put, Heard, TypeOK
    <3>2. \A h \in Senders : Due(h, d, j)' <=> Due(h, d, j)
      <4>1. \A h \in Senders : h # g => todo'[h] = todo[h]
        BY <1>0, <1>4 DEF SendWrite
      <4>2. todo'[g] = todo[g] \ {c}
        BY <1>0, <1>4 DEF SendWrite
      <4> QED
        BY <2>7, <4>1, <4>2 DEF Due
    <3> QED
      BY <2>1, <2>5, <3>1, <3>2, OverheardFrame
  <2> QED
    BY <2>6, <2>7
<1>5. ASSUME NEW g \in Senders, NEW c \in Conns, SendFail(g, c)
      PROVE  RunInv'
  <2>1. UNCHANGED <<wire, jobBuffers, req, conns, wsPc, sent>>
    BY <1>5 DEF SendFail, serverVars
  <2>2. sock'[c] = "closed" /\ \A d \in Conns : d # c => sock'[d] = sock[d]
    BY <1>0, <1>5 DEF SendFail
  <2>3. \A h \in Senders, d \in Conns : d # c => (d \in todo'[h] <=> d \in todo[h])
    BY <1>0, <1>5 DEF SendFail
  <2>4. \A d \in Conns : Registered(d)' <=> Registered(d)
    BY <2>1 DEF Registered, Sid, Key
  <2> QED
    BY <2>1, <2>2, <2>3, <2>4, RunFrame
<1>6. ASSUME NEW g \in Senders, SendUnlock(g)
      PROVE  RunInv'
  BY <1>0, <1>6, RunFrame DEF SendUnlock, Registered, Sid, Key
<1>7. ASSUME NEW c \in Conns, Upgrade(c)
      PROVE  RunInv'
  <2>1. UNCHANGED <<wire, jobBuffers, req, conns, todo, sent>>
    BY <1>7 DEF Upgrade, serverVars, senderVars
  <2>2. \A d \in Conns : Registered(d)' <=> Registered(d)
    BY <2>1 DEF Registered, Sid, Key
  <2>3. ~Registered(c)
    BY <1>7, RequestFacts DEF Upgrade, RegInv, Registered
  <2>4. /\ \A d \in Conns : d # c => sock'[d] = sock[d] /\ wsPc'[d] = wsPc[d]
        /\ wsPc[c] = "new"
    BY <1>0, <1>7 DEF Upgrade
  <2> QED
    BY <2>1, <2>2, <2>3, <2>4, RunFrame
<1>8. ASSUME NEW c \in Conns, Reject(c)
      PROVE  RunInv'
  <2>1. UNCHANGED <<wire, jobBuffers, req, conns, todo, sent>>
    BY <1>8 DEF Reject, serverVars, senderVars
  <2>2. \A d \in Conns : Registered(d)' <=> Registered(d)
    BY <2>1 DEF Registered, Sid, Key
  <2>3. /\ \A d \in Conns : d # c => sock'[d] = sock[d] /\ wsPc'[d] = wsPc[d]
        /\ sock'[c] = "closed" /\ wsPc'[c] = "done"
    BY <1>0, <1>8 DEF Reject
  <2> QED
    BY <2>1, <2>2, <2>3, RunFrame
<1>9. ASSUME NEW c \in Conns, \/ AddReject(c) \/ AddLookup(c) \/ AddLock(c)
                              \/ FlushFail(c) \/ ReadError(c)
      PROVE  RunInv'
  <2>1. UNCHANGED <<wire, jobBuffers, req, conns, todo, sent, sock>>
    BY <1>9 DEF AddReject, AddLookup, AddLock, FlushFail, ReadError, serverVars, senderVars
  <2>2. \A d \in Conns : Registered(d)' <=> Registered(d)
    BY <2>1 DEF Registered, Sid, Key
  <2>3. \A d \in Conns : wsPc'[d] \in {"new", "lookup", "lock", "flush"}
                          => wsPc[d] \in {"new", "lookup", "lock", "flush"}
    BY <1>0, <1>9 DEF AddReject, AddLookup, AddLock, FlushFail, ReadError
  <2> QED
    BY <2>1, <2>2, <2>3, RunFrame
<1>10. ASSUME NEW c \in Conns, FlushWrite(c)
       PROVE  RunInv'
  <2> SUFFICES ASSUME NEW d \in Conns, NEW j \in JobIDs, j # Key(d)
               PROVE  Overheard(d, j)'
    BY <1>10 DEF RunInv, FlushWrite, Key
  <2>1. Overheard(d, j)
    BY DEF RunInv
  <2>2. UNCHANGED <<conns, jobBuffers, sent, todo, wsPc, req, sock>>
    BY <1>10 DEF FlushWrite, serverVars, senderVars
  <2>3. Heard(d, j)' = Heard(d, j)
    BY <1>10 DEF FlushWrite, FlushPending, Put, Heard, TypeOK
  <2>4. /\ History(d, j)' = History(d, j) /\ (Registered(d)' <=> Registered(d))
        /\ \A g \in Senders : Due(g, d, j)' <=> Due(g, d, j)
    BY <2>2 DEF History, Registered, Due, Sid, Key
  <2> QED
    BY <2>1, <2>2, <2>3, <2>4, OverheardFrame
<1>11. ASSUME NEW c \in Conns, Register(c)
       PROVE  RunInv'
  <2> SUFFICES ASSUME NEW d \in Conns, NEW j \in JobIDs, j # Key(d)
               PROVE  Overheard(d, j)'
    BY <1>11 DEF RunInv, Register, Key
  <2> DEFINE got == Heard(d, j)
             log == History(d, j)
  <2>1. Overheard(d, j)
    BY DEF RunInv
  <2>2. Sid(d) \in SessionIDs /\ Key(d) \in Keys /\ Sid(d)' = Sid(d) /\ Key(d)' = Key(d)
    BY <1>11, RequestFacts DEF Register, Sid, Key
  <2>3. got' = got /\ log' = log /\ UNCHANGED <<sent, todo, sock>>
    BY <1>11, <2>2 DEF Register, senderVars, Heard, History
  <2>4. \A h \in Senders : Due(h, d, j)' <=> Due(h, d, j)
    BY <2>3 DEF Due
  <2>5. CASE d = c
    <3>1. wsPc[d] = "flush" /\ wsPc'[d] = "read"
      BY <1>0, <1>11, <2>5 DEF Register
    <3>2. ~Registered(d)
      BY <2>2, <3>1 DEF RegInv, Registered
    <3>3. \A h \in Senders : ~Due(h, d, j)'
      BY <2>4, <3>2 DEF RegInv, Due
    <3>4. got = <<>> /\ \E off \in 0..(Len(log) - Len(got)) : RunAt(got, log, off)
      BY <2>1, <3>1 DEF Overheard
    <3>5. RunAt(got, log, Len(log) - Len(got))
      <4>1. Len(log) \in Nat
        BY HeardFacts
      <4> QED
        BY <3>4, <4>1 DEF RunAt
    <3> HIDE DEF got, log
    <3>6. /\ \E off \in 0..(Len(log') - Len(got')) : RunAt(got', log', off)
          /\ wsPc'[d] \notin {"new", "lookup", "lock", "flush"}
          /\ RunAt(got', log', Len(log') - Len(got'))
          /\ \A h \in Senders : ~Due(h, d, j)'
      BY <2>3, <3>1, <3>3, <3>4, <3>5
    <3> QED
      BY <3>6 DEF Overheard, RunAt, got, log
  <2>6. CASE d # c
    <3>1. Registered(d)' => Registered(d)
      BY <1>11, <2>2, <2>6, RequestFacts DEF Register, Registered, TypeOK
    <3>2. wsPc'[d] = wsPc[d]
      BY <1>0, <1>11, <2>6 DEF Register
    <3> QED
      BY <2>1, <2>3, <2>4, <3>1, <3>2, OverheardFrame
  <2> QED
    BY <2>5, <2>6
<1>12. ASSUME NEW c \in Conns, RemoveConnection(c)
       PROVE  RunInv'
  <2>1. Sid(c) \in SessionIDs /\ UNCHANGED <<wire, jobBuffers, req, sock, sent, todo>>
    BY <1>12, RequestFacts DEF RemoveConnection, senderVars
  <2>2. \A d \in Conns : wsPc'[d] \in {"new", "lookup", "lock", "flush"}
                          => wsPc[d] \in {"new", "lookup", "lock", "flush"}
    BY <1>0, <1>12 DEF RemoveConnection
  <2>3. \A d \in Conns : Sid(d) \in SessionIDs /\ Key(d) \in Keys
    BY RequestFacts
  <2>4. \A d \in Conns : Registered(d)' => Registered(d)
    BY <1>0, <1>12, <2>1, <2>3, Assumptions DEF RemoveConnection, Registered, Sid, Key
  <2> QED
    BY <2>1, <2>2, <2>4, RunFrame
<1>13. ASSUME NEW c \in Conns, Client(c)
       PROVE  RunInv'
  <2>1. UNCHANGED <<wire, jobBuffers, req, conns, todo, sent, wsPc>>
    BY <1>13 DEF Client, Stall, Resume, Leave, serverVars, senderVars
  <2>2. \A d \in Conns : Registered(d)' <=> Registered(d)
    BY <2>1 DEF Registered, Sid, Key
  <2>3. \A d \in Conns : sock'[d] # "closed" => sock[d] # "closed"
    BY <1>0, <1>13 DEF Client, Stall, Resume, Leave
  <2> QED
    BY <2>1, <2>2, <2>3, RunFrame
<1>14. CASE UNCHANGED vars
  BY <1>14, RunFrame DEF vars, Registered, Sid, Key
<1> QED
  BY <1>1, <1>2, <1>3, <1>4, <1>5, <1>6, <1>7, <1>8, <1>9, <1>10, <1>11, <1>12, <1>13, <1>14
     DEF Next, SendRun, HandleRun, AddConnection, Terminated
-----------------------------------------------------------------------------
(* The messages of the senders.                                            *)

\* A message of another sender changes nothing for g; its next one is added to its own.
LEMMA HasAllAppend ==
  ASSUME NEW b \in Seq(Message), NEW g \in Senders, NEW n \in Nat, HasAll(b, g, n),
         NEW m \in Message
  PROVE  /\ m.from # g => HasAll(Append(b, m), g, n)
         /\ m.from = g /\ m.n = n + 1 => HasAll(Append(b, m), g, n + 1)
<1> DEFINE c == Append(b, m)
           Own(s) == {i \in 1..Len(s) : s[i].from = g}
<1>1. /\ Len(b) \in Nat /\ Len(c) = Len(b) + 1 /\ c[Len(b) + 1] = m
      /\ \A i \in 1..Len(b) : c[i] = b[i]
  BY AppendFacts
<1>2. /\ {b[i].n : i \in Own(b)} = 1..n
      /\ \A i, k \in Own(b) : i < k => b[i].n < b[k].n
  BY DEF HasAll
<1> HIDE DEF c
<1>3. ASSUME m.from # g PROVE HasAll(c, g, n)
  <2>1. Own(c) = Own(b)
    BY <1>1, <1>3
  <2>2. \A i \in Own(b) : c[i] = b[i]
    BY <1>1
  <2>3. {c[i].n : i \in Own(c)} = {b[i].n : i \in Own(b)}
    BY <2>1, <2>2
  <2> QED
    BY <1>2, <2>1, <2>2, <2>3 DEF HasAll
<1>4. ASSUME m.from = g, m.n = n + 1 PROVE HasAll(c, g, n + 1)
  <2>1. Own(c) = Own(b) \cup {Len(b) + 1}
    BY <1>1, <1>4
  <2>2. \A i \in Own(b) : c[i] = b[i] /\ i < Len(b) + 1 /\ i \in Nat
    BY <1>1
  <2>3. \A i \in Own(b) : b[i].n \in 1..n
    BY <1>2
  <2>4. {c[i].n : i \in Own(c)} = {b[i].n : i \in Own(b)} \cup {n + 1}
    BY <1>1, <1>4, <2>1, <2>2
  <2>5. {c[i].n : i \in Own(c)} = 1..(n + 1)
    <3>1. 1..(n + 1) = (1..n) \cup {n + 1}
      OBVIOUS
    <3> HIDE DEF Own
    <3> QED
      BY <1>2, <2>4, <3>1
  <2>6. ASSUME NEW i \in Own(c), NEW k \in Own(c), i < k
        PROVE  c[i].n < c[k].n
    <3>1. i \in Own(b)
      BY <1>1, <2>1, <2>2, <2>6
    <3>2. CASE k \in Own(b)
      BY <1>2, <2>2, <2>6, <3>1, <3>2
    <3>3. CASE k = Len(b) + 1
      BY <1>1, <1>4, <2>2, <2>3, <3>1, <3>3
    <3> QED
      BY <2>1, <3>2, <3>3
  <2> QED
    BY <2>5, <2>6 DEF HasAll
<1> QED
  BY <1>3, <1>4 DEF c

LEMMA SentInit == Init => SentInv
<1> SUFFICES ASSUME Init PROVE SentInv
  OBVIOUS
<1>1. ASSUME NEW g \in Senders
      PROVE  HasAll(jobBuffers[Home(g)][JobOf[g]], g, BufferedBy(g))
  <2>1. jobBuffers[Home(g)][JobOf[g]] = <<>> /\ BufferedBy(g) = 0
    BY SenderFacts DEF Init, BufferedBy
  <2>2. HasAll(<<>>, g, 0)
    BY DEF HasAll
  <2> QED
    BY <2>1, <2>2
<1> QED
  BY <1>1 DEF Init, SentInv

\* A step that sends nothing keeps SentInv.
LEMMA SentFrame ==
  ASSUME SentInv, UNCHANGED <<jobBuffers, sendPc, sent>>, sessions \subseteq sessions',
         \A j \in JobIDs : runPc'[j] # "new" => runPc[j] # "new" \/ SessionOf[j] \in sessions'
  PROVE  SentInv'
  BY DEF SentInv, BufferedBy

LEMMA SentStep ==
  ASSUME TypeOK, SentInv, [Next]_vars
  PROVE  SentInv'
<1> USE Assumptions
<1>0. /\ runPc \in [JobIDs -> {"new", "created", "queued"}]
      /\ sendPc \in [Senders -> {"idle", "lock", "write"}]
      /\ sent \in [Senders -> 0..MaxSends]
      /\ jobBuffers \in [SessionIDs -> [JobIDs -> Seq(Message)]]
  BY DEF TypeOK
<1>1. ASSUME NEW j \in JobIDs, GetOrCreate(j) \/ Enqueue(j)
      PROVE  SentInv'
  BY <1>0, <1>1, SentFrame DEF GetOrCreate, Enqueue, senderVars
<1>2. ASSUME NEW g \in Senders, SendLookup(g)
      PROVE  SentInv'
  <2>1. JobOf[g] \in JobIDs /\ Home(g) \in sessions /\ sendPc[g] = "idle"
    BY <1>2, SenderFacts DEF SendLookup, SentInv, Home
  <2>2. /\ UNCHANGED <<runPc, sessions, jobBuffers>>
        /\ sendPc'[g] = "lock" /\ sent'[g] = sent[g] + 1
        /\ \A h \in Senders : h # g => sendPc'[h] = sendPc[h] /\ sent'[h] = sent[h]
    BY <1>0, <1>2, <2>1 DEF SendLookup, serverVars
  <2>3. ASSUME NEW h \in Senders
        PROVE  BufferedBy(h)' = BufferedBy(h)
    <3>1. CASE h = g
      <4>1. sent[g] \in Nat /\ sent'[g] - 1 = sent[g]
        BY <1>0, <2>2
      <4> QED
        BY <2>1, <2>2, <3>1, <4>1 DEF BufferedBy
    <3>2. CASE h # g
      BY <2>2, <3>2 DEF BufferedBy
    <3> QED
      BY <3>1, <3>2
  <2>4. sent'[g] > 0
    BY <1>0, <2>2
  <2> QED
    BY <2>2, <2>3, <2>4 DEF SentInv
<1>3. ASSUME NEW g \in Senders, SendLock(g)
      PROVE  SentInv'
  <2> DEFINE m == [from |-> g, n |-> sent[g]]
  <2>1. /\ sendPc[g] = "lock" /\ sendPc'[g] = "write" /\ UNCHANGED <<runPc, sessions, sent>>
        /\ \A h \in Senders : h # g => sendPc'[h] = sendPc[h]
    BY <1>0, <1>3 DEF SendLock
  <2>2. m \in Message /\ m.from = g /\ m.n = sent[g]
    BY <1>0 DEF Message
  <2>3. JobOf[g] \in JobIDs /\ Home(g) \in SessionIDs
    BY SenderFacts
  <2>4. ASSUME NEW h \in Senders
        PROVE  HasAll(jobBuffers[Home(h)][JobOf[h]], h, BufferedBy(h))'
    <3> DEFINE b == jobBuffers[Home(h)][JobOf[h]]
    <3>1. /\ JobOf[h] \in JobIDs /\ Home(h) \in SessionIDs
          /\ b \in Seq(Message) /\ HasAll(b, h, BufferedBy(h))
      BY <1>0, SenderFacts DEF SentInv
    <3>2. BufferedBy(h) \in Nat
      BY <1>0 DEF BufferedBy, SentInv
    <3>3. CASE h = g
      <4>1. b' = Append(b, m)
        BY <1>0, <1>3, <2>3, <3>3 DEF SendLock
      <4>2. BufferedBy(h)' = sent[g] /\ sent[g] = BufferedBy(h) + 1
        BY <1>0, <2>1, <3>3 DEF BufferedBy
      <4> HIDE DEF b, m
      <4>3. HasAll(Append(b, m), h, BufferedBy(h) + 1)
        BY <2>2, <3>1, <3>2, <3>3, <4>2, HasAllAppend
      <4>4. HasAll(b', h, BufferedBy(h)')
        BY <4>1, <4>2, <4>3
      <4> QED
        BY <4>4 DEF HasAll, b
    <3>4. CASE h # g /\ JobOf[h] = JobOf[g]
      <4>1. b' = Append(b, m)
        BY <1>0, <1>3, <2>3, <3>4 DEF SendLock, Home
      <4>2. BufferedBy(h)' = BufferedBy(h)
        BY <2>1, <3>4 DEF BufferedBy
      <4> HIDE DEF b, m
      <4>3. HasAll(Append(b, m), h, BufferedBy(h))
        BY <2>2, <3>1, <3>2, <3>4, HasAllAppend
      <4>4. HasAll(b', h, BufferedBy(h)')
        BY <4>1, <4>2, <4>3
      <4> QED
        BY <4>4 DEF HasAll, b
    <3>5. CASE h # g /\ JobOf[h] # JobOf[g]
      <4>1. b' = b
        BY <1>0, <1>3, <2>3, <3>1, <3>5 DEF SendLock
      <4>2. BufferedBy(h)' = BufferedBy(h)
        BY <2>1, <3>5 DEF BufferedBy
      <4> HIDE DEF b
      <4>3. HasAll(b', h, BufferedBy(h)')
        BY <3>1, <4>1, <4>2
      <4> QED
        BY <4>3 DEF HasAll, b
    <3> QED
      BY <3>3, <3>4, <3>5
  <2>5. \A h \in Senders : sendPc'[h] = "lock" => sendPc[h] = "lock"
    BY <2>1
  <2> QED
    BY <2>1, <2>4, <2>5 DEF SentInv
<1>4. ASSUME NEW g \in Senders, SendUnlock(g)
      PROVE  SentInv'
  <2>1. /\ UNCHANGED <<runPc, sessions, jobBuffers, sent>>
        /\ \A h \in Senders : sendPc'[h] = "lock" <=> sendPc[h] = "lock"
    BY <1>0, <1>4 DEF SendUnlock
  <2>2. \A h \in Senders : BufferedBy(h)' = BufferedBy(h)
    BY <2>1 DEF BufferedBy
  <2> QED
    BY <2>1, <2>2 DEF SentInv
<1>5. ASSUME NEW g \in Senders, NEW c \in Conns, SendWrite(g, c) \/ SendFail(g, c)
      PROVE  SentInv'
  BY <1>5, SentFrame DEF SendWrite, SendFail, serverVars
<1>6. ASSUME NEW c \in Conns, Upgrade(c) \/ HandleRun(c) \/ Client(c)
      PROVE  SentInv'
  <2>1. UNCHANGED <<runPc, sessions, jobBuffers, sendPc, sent>>
    BY <1>6 DEF Upgrade, HandleRun, AddConnection, AddReject, Reject, AddLookup, AddLock, FlushWrite,
         FlushFail, Register, ReadError, RemoveConnection, Client, Stall, Resume, Leave,
         serverVars, senderVars
  <2> QED
    BY <2>1, SentFrame
<1>7. CASE UNCHANGED vars
  BY <1>7, SentFrame DEF vars
<1> QED
  BY <1>1, <1>2, <1>3, <1>4, <1>5, <1>6, <1>7 DEF Next, SendRun, Terminated
-----------------------------------------------------------------------------
(* Theorems.                                                               *)

\* The inductive invariant: in every reachable state Session.mu is held exactly by the
\* goroutine in its critical section, the map holds what the handlers registered, and
\* each connection is where it should be in its job's messages.
THEOREM Invariant == Spec => []IInv
<1>1. Init => IInv
  BY TypeInit, LockInit, RegInit, OpenInit, WireInit, RunInit, SentInit DEF IInv
<1>2. IInv /\ [Next]_vars => IInv'
  BY TypeStep, LockStep, RegStep, OpenStep, WireStep, RunStep, SentStep DEF IInv
<1> QED
  BY <1>1, <1>2, PTL DEF Spec

\* At no time do two goroutines write to one connection: not two Sends, nor a Send and
\* the flush of AddConnection.
THEOREM SingleWriterHolds == Spec => []SingleWriter
<1>1. ASSUME IInv PROVE SingleWriter
  <2> SUFFICES ASSUME NEW c \in Conns, NEW p \in Procs, NEW q \in Procs,
                      Writing(p, c), Writing(q, c)
               PROVE  p = q
    BY DEF SingleWriter
  <2>1. ASSUME NEW r \in Procs, Writing(r, c) PROVE mu[Sid(c)] = r
    <3>1. CASE r \in Senders
      BY <1>1, <2>1, <3>1, SenderFacts DEF IInv, Writing, LockInv, RegInv
    <3>2. CASE r \notin Senders
      BY <1>1, <2>1, <3>2, RequestFacts DEF IInv, Writing, LockInv
    <3> QED
      BY <3>1, <3>2
  <2> QED
    BY <2>1
<1> QED
  BY <1>1, Invariant, PTL

\* What a client has received of the job it asked for is a prefix of the job's messages:
\* the replay of AddConnection and the writes of Send leave no gap and repeat nothing.
THEOREM ReplayHolds == Spec => []Replay
<1>1. IInv => Replay
  BY DEF IInv, WireInv, Followed, Replay, Got, Log
<1> QED
  BY <1>1, Invariant, PTL

\* A registered client whose socket takes writes misses no message of its job, but for
\* the one that a Send in progress has still to write to it.
THEOREM CaughtUpHolds == Spec => []CaughtUp
<1>1. ASSUME IInv PROVE CaughtUp
  <2> SUFFICES ASSUME NEW c \in Conns, Key(c) \in JobIDs, Registered(c),
                      sock[c] # "closed", \A g \in Senders : ~Writing(g, c)
               PROVE  Got(c) = Log(c)
    BY DEF CaughtUp, Got, Log
  <2>1. Followed(c) /\ Got(c) \in Seq(Message) /\ Log(c) \in Seq(Message)
    BY <1>1, GotLogFacts DEF IInv, WireInv
  <2>2. \A g \in Senders : ~Owed(g, c)
    BY <1>1 DEF IInv, RegInv, Writing, Owed
  <2>3. Len(Got(c)) = Len(Log(c)) /\ \A i \in 1..Len(Got(c)) : Got(c)[i] = Log(c)[i]
    BY <2>1, <2>2 DEF Followed, IsPrefix
  <2> QED
    BY <2>1, <2>3, SeqEqual
<1> QED
  BY <1>1, Invariant, PTL

\* A connection leaves the map only by its own RemoveConnection or by the registration
\* of another one with the same ids; in particular no removal takes out a successor.
THEOREM OnlyReplacedOrRemovedHolds == Spec => OnlyReplacedOrRemoved
<1> DEFINE A == \A c \in Conns : Registered(c) /\ ~Registered(c)' =>
                  \/ wsPc[c] = "remove"
                  \/ \E d \in Conns \ {c} : req[d] = req[c] /\ wsPc[d] = "flush"
<1>1. ASSUME IInv, [Next]_vars PROVE [A]_vars
  <2> SUFFICES ASSUME NEW c \in Conns, Registered(c), ~Registered(c)'
               PROVE  \/ wsPc[c] = "remove"
                      \/ \E d \in Conns \ {c} : req[d] = req[c] /\ wsPc[d] = "flush"
    OBVIOUS
  <2>1. TypeOK /\ Sid(c) \in SessionIDs /\ Key(c) \in Keys
    BY <1>1, RequestFacts DEF IInv
  <2>2. req' = req
    BY <1>1 DEF Next, SendRun, HandleRun, AddConnection, Terminated, vars, serverVars,
         senderVars, GetOrCreate, Enqueue, SendLookup, SendLock, SendWrite, SendFail,
         SendUnlock, Upgrade, AddReject, Reject, AddLookup, AddLock, FlushWrite, FlushFail,
         Register, ReadError, RemoveConnection, Client, Stall, Resume, Leave
  <2>3. conns' # conns
    BY <2>2 DEF Registered, Sid, Key
  <2>4. \E d \in Conns : Register(d) \/ RemoveConnection(d)
    BY <1>1, <2>3 DEF Next, SendRun, HandleRun, AddConnection, Terminated, vars, serverVars,
         senderVars, GetOrCreate, Enqueue, SendLookup, SendLock, SendWrite, SendFail,
         SendUnlock, Upgrade, AddReject, Reject, AddLookup, AddLock, FlushWrite, FlushFail,
         ReadError, Client, Stall, Resume, Leave
  <2>5. ASSUME NEW d \in Conns, Register(d)
        PROVE  d # c /\ req[d] = req[c] /\ wsPc[d] = "flush"
    <3>1. Sid(d) = Sid(c) /\ Key(d) = Key(c)
      BY <2>1, <2>2, <2>5 DEF Register, Registered, TypeOK, Sid, Key
    <3>2. d # c
      BY <2>1, <2>2, <2>5 DEF Register, Registered, TypeOK, Sid, Key
    <3>3. req[d] = req[c]
      <4>1. /\ req[d] \in [sid : SessionIDs, job : JobIDs \cup {NoJob}]
            /\ req[c] \in [sid : SessionIDs, job : JobIDs \cup {NoJob}]
        BY <2>1, Assumptions DEF TypeOK
      <4>2. req[d].sid = req[c].sid /\ req[d].job = req[c].job
        BY <3>1 DEF Sid, Key
      <4> QED
        BY <4>1, <4>2
    <3> QED
      BY <2>5, <3>2, <3>3 DEF Register
  <2>6. ASSUME NEW d \in Conns, RemoveConnection(d)
        PROVE  wsPc[c] = "remove"
    BY <2>1, <2>2, <2>6 DEF RemoveConnection, Registered, TypeOK, Sid, Key
  <2> QED
    BY <2>4, <2>5, <2>6
<1> QED
  BY <1>1, Invariant, PTL DEF Spec, OnlyReplacedOrRemoved

\* Of a job of its session that it did not ask for, a client receives an unbroken run of
\* the messages, as it does, from the first one on, of the job that it asked for.
THEOREM ContiguousHolds == Spec => []Contiguous
<1>1. ASSUME IInv PROVE Contiguous
  <2> SUFFICES ASSUME NEW c \in Conns, NEW j \in JobIDs
               PROVE  \E off \in 0..(Len(History(c, j)) - Len(Heard(c, j))) :
                        RunAt(Heard(c, j), History(c, j), off)
    BY DEF Contiguous, Heard, History, RunAt
  <2>1. CASE j = Key(c)
    <3>1. /\ IsPrefix(Heard(c, j), History(c, j))
          /\ Len(Heard(c, j)) \in Nat /\ Len(History(c, j)) \in Nat
      BY <1>1, <2>1, HeardFacts DEF IInv, WireInv, Followed, Got, Log, Heard, History
    <3>2. 0 \in 0..(Len(History(c, j)) - Len(Heard(c, j)))
      BY <3>1 DEF IsPrefix
    <3>3. RunAt(Heard(c, j), History(c, j), 0)
      BY <3>1 DEF IsPrefix, RunAt
    <3> QED
      BY <3>2, <3>3
  <2>2. CASE j # Key(c)
    BY <1>1, <2>2 DEF IInv, RunInv, Overheard
  <2> QED
    BY <2>1, <2>2
<1> QED
  BY <1>1, Invariant, PTL

\* Every Send that returned has its message in the buffer of its job, in its place.
THEOREM NoSendLostHolds == Spec => []NoSendLost
<1>1. IInv => NoSendLost
  BY DEF IInv, SentInv, BufferedBy, NoSendLost
<1> QED
  BY <1>1, Invariant, PTL
=============================================================================
