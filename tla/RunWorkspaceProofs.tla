-------------------------- MODULE RunWorkspaceProofs --------------------------
(* Proofs about RunWorkspace, for any requests, clients, files and directories. *)
EXTENDS RunWorkspace, SequenceTheorems, TLAPS

\* MkdirAll makes the directory, and the workspace above it.
LEMMA PathFacts ==
  ASSUME NEW d \in Dirs
  PROVE  Path(d) \subseteq Dirs /\ d \in Path(d) /\ Root \in Path(d)
BY Assumptions DEF Path

\* Nothing is removed from a workspace by making a directory.
LEMMA MkdirFacts ==
  ASSUME TypeOK, NEW r \in Reqs, sid[r] \in SessionIDs, NEW d \in Dirs, Mkdir(r, d)
  PROVE  /\ made' \in [SessionIDs -> SUBSET Dirs]
         /\ \A s \in SessionIDs : made[s] \subseteq made'[s]
         /\ d \in made'[sid[r]] /\ Root \in made'[sid[r]]
<1>1. made' = [made EXCEPT ![sid[r]] = @ \cup Path(d)] /\ made \in [SessionIDs -> SUBSET Dirs]
  BY DEF Mkdir, TypeOK
<1> QED BY <1>1, PathFacts

\* A file takes a content, and every other file keeps its own.
LEMMA DiskFacts ==
  ASSUME TypeOK, NEW s \in SessionIDs, NEW f \in Files, NEW v \in (SUBSET Reqs) \cup {Absent},
         disk' = [disk EXCEPT ![s][f] = v]
  PROVE  /\ disk' \in [SessionIDs -> [Files -> (SUBSET Reqs) \cup {Absent}]]
         /\ disk'[s][f] = v
         /\ \A t \in SessionIDs, g \in Files : t # s \/ g # f => disk'[t][g] = disk[t][g]
<1>1. disk \in [SessionIDs -> [Files -> (SUBSET Reqs) \cup {Absent}]]
  BY DEF TypeOK
<1> QED BY <1>1

\* A file that was opened has the content of requests.
LEMMA ContentFacts ==
  ASSUME TypeOK, NEW s \in SessionIDs, NEW f \in Files
  PROVE  /\ disk[s][f] # Absent <=> disk[s][f] \in SUBSET Reqs
         /\ Absent \notin SUBSET Reqs
<1>1. disk[s][f] \in (SUBSET Reqs) \cup {Absent}
  BY DEF TypeOK
<1> QED BY <1>1, Assumptions DEF Absent

\* The cookie that an answer sets.
LEMMA AnswerFacts ==
  ASSUME TypeOK, NEW r \in Reqs, Answer(r)
  PROVE  jar' \in [Clients -> SessionIDs \cup {None}]
<1>1. UUID[r] \in SessionIDs /\ jar \in [Clients -> SessionIDs \cup {None}]
  BY Assumptions DEF TypeOK
<1> QED BY <1>1 DEF Answer

\* The directory that is detected is the one given or one of those made.
LEMMA DetectedFacts ==
  ASSUME TypeOK, NEW s \in SessionIDs, NEW d \in Dirs
  PROVE  Detected(s, d) \in made[s] \cup {d} /\ Detected(s, d) \in Dirs
<1>1. Children(s, d) \subseteq made[s] /\ made[s] \subseteq Dirs
  BY DEF Children, TypeOK
<1> QED BY <1>1 DEF Detected

\* The fields of a request.
LEMMA RequestFacts ==
  ASSUME TypeOK, NEW r \in Reqs
  PROVE  /\ req[r] \in Request
         /\ req[r].client \in Clients /\ req[r].cwd \in Dirs
         /\ req[r].files \subseteq Files /\ req[r].touches \subseteq Files
         /\ req[r].header \in SessionIDs \cup {None}
<1>1. req[r] \in Request
  BY Assumptions DEF TypeOK
<1> QED BY <1>1 DEF Request

\* The job that a worker takes is the first that waits in the queue.
LEMMA BeginFacts ==
  ASSUME TypeOK, QueueInv, NEW r \in Reqs, Begin(r)
  PROVE  /\ Len(queue) \in Nat \ {0} /\ r = queue[1]
         /\ pc[r] = "queued" /\ pc' = [pc EXCEPT ![r] = "running"]
         /\ queue' \in Seq(Reqs) /\ Len(queue') = Len(queue) - 1
         /\ \A i \in 1..Len(queue') : queue'[i] = queue[i + 1]
<1>1. queue \in Seq(Reqs) /\ queue # <<>> /\ r = Head(queue) /\ queue' = Tail(queue)
  BY DEF TypeOK, Begin
<1>2. Len(queue) \in Nat \ {0} /\ Head(queue) = queue[1]
  BY <1>1, EmptySeq
<1>3. pc[queue[1]] = "queued"
  BY <1>2 DEF QueueInv
<1>4. pc' = [pc EXCEPT ![r] = "running"]
  BY DEF Begin, Goto
<1> QED BY <1>1, <1>2, <1>3, <1>4, HeadTailProperties

\* The session that a request gets.
LEMMA ChoiceFacts ==
  ASSUME TypeOK, NEW r \in Reqs
  PROVE  Choice(r) \in SessionIDs
<1>1. UUID[r] \in SessionIDs /\ cookie[r] \in SessionIDs \cup {None}
  BY Assumptions DEF TypeOK
<1> QED BY <1>1, RequestFacts DEF Choice

\* A command that runs has a session.
LEMMA AliveFacts ==
  ASSUME SidInv, AliveInv, NEW r \in alive, r \in Reqs
  PROVE  sid[r] \in SessionIDs
BY DEF SidInv, AliveInv, Handling, Accepted

\* Each step keeps the types.
LEMMA TypeStep ==
  ASSUME TypeOK, SidInv, OpenInv, QueueInv, AliveInv, FileInv, [Next]_vars
  PROVE  TypeOK'
<1>1. ASSUME NEW r \in Reqs, Arrive(r) PROVE TypeOK'
  BY <1>1, RequestFacts
     DEF Arrive, TypeOK, Handling, Accepted, Ended, Goto, stored, memory
<1>2. ASSUME NEW r \in Reqs, ChooseSession(r) PROVE TypeOK'
  <2>1. Choice(r) \in SessionIDs
    BY ChoiceFacts
  <2> QED BY <1>2, <2>1
            
                DEF ChooseSession, TypeOK, Handling, Accepted, Ended, Goto, request,
                    stored, memory
<1>3. ASSUME NEW r \in Reqs, MakeBase(r) PROVE TypeOK'
  <2>1. sid[r] \in SessionIDs
    BY <1>3 DEF MakeBase, SidInv, Handling, Accepted
  <2>2. made' \in [SessionIDs -> SUBSET Dirs]
    BY <1>3, <2>1, MkdirFacts, Assumptions DEF MakeBase
  <2> QED BY <1>3, <2>2
     DEF MakeBase, TypeOK, Handling, Accepted, Ended, Goto, request, memory
<1>4. ASSUME NEW r \in Reqs, MakeCwd(r) PROVE TypeOK'
  <2>1. sid[r] \in SessionIDs
    BY <1>4 DEF MakeCwd, SidInv, Handling, Accepted
  <2>2. made' \in [SessionIDs -> SUBSET Dirs]
    BY <1>4, <2>1, RequestFacts, MkdirFacts DEF MakeCwd
  <2> QED BY <1>4, <2>2
     DEF MakeCwd, TypeOK, Handling, Accepted, Ended, Goto, request, memory
<1>5. ASSUME NEW r \in Reqs, MakeFails(r) PROVE TypeOK'
  <2>1. jar' \in [Clients -> SessionIDs \cup {None}]
    BY <1>5, AnswerFacts DEF MakeFails, Fail
  <2> QED BY <1>5, <2>1
            
                DEF MakeFails, TypeOK, Handling, Accepted, Ended, Goto, Fail, request,
                    stored, memory
<1>6. ASSUME NEW r \in Reqs, DetectWorkDir(r) PROVE TypeOK'
  <2>1. sid[r] \in SessionIDs
    BY <1>6 DEF DetectWorkDir, SidInv, Handling, Accepted
  <2>2. Detected(sid[r], req[r].cwd) \in Dirs
    BY <2>1, RequestFacts, DetectedFacts
  <2> QED BY <1>6, <2>2, RequestFacts
            
                DEF DetectWorkDir, TypeOK, Handling, Accepted, Ended, Goto, request,
                    stored, memory
<1>7. ASSUME NEW r \in Reqs, NEW f \in Files, OpenFile(r, f) PROVE TypeOK'
  <2>0. DirOf[f] \in Dirs /\ {} \in SUBSET Reqs
    BY Assumptions
  <2>1. sid[r] \in SessionIDs
    BY <1>7 DEF OpenFile, SidInv, Handling, Accepted
  <2>2. made' \in [SessionIDs -> SUBSET Dirs]
    BY <1>7, <2>1, <2>0, MkdirFacts DEF OpenFile
  <2>3. disk' \in [SessionIDs -> [Files -> (SUBSET Reqs) \cup {Absent}]]
    BY <1>7, <2>1, <2>0, DiskFacts DEF OpenFile
  <2> QED BY <1>7, <2>2, <2>3
     DEF OpenFile, TypeOK, Handling, Accepted, Ended, request, memory
<1>8. ASSUME NEW r \in Reqs, WriteContent(r) PROVE TypeOK'
  <2>1. /\ open[r] \in req[r].files /\ open[r] \in Files /\ open[r] \notin left[r]
        /\ pc[r] = "write"
    BY <1>8, RequestFacts DEF WriteContent, OpenInv, TypeOK
  <2>2. sid[r] \in SessionIDs
    BY <2>1 DEF SidInv, Handling, Accepted
  <2>3. disk[sid[r]][open[r]] \in SUBSET Reqs
    <3>1. disk[sid[r]][open[r]] # Absent
      BY <2>1 DEF FileInv, Opened, FileOK
    <3> QED BY <2>1, <2>2, <3>1, ContentFacts
  <2>4. disk' \in [SessionIDs -> [Files -> (SUBSET Reqs) \cup {Absent}]]
    <3>1. PICK rest \in {{}, disk[sid[r]][open[r]]} :
            disk' = [disk EXCEPT ![sid[r]][open[r]] = rest \cup {r}]
      BY <1>8 DEF WriteContent
    <3>2. rest \cup {r} \in SUBSET Reqs
      BY <2>3
    <3> QED BY <2>1, <2>2, <3>1, <3>2, DiskFacts
  <2> QED BY <1>8, <2>4
     DEF WriteContent, TypeOK, Handling, Accepted, Ended, request, memory
<1>9. ASSUME NEW r \in Reqs, WriteFails(r) PROVE TypeOK'
  <2>1. jar' \in [Clients -> SessionIDs \cup {None}]
    BY <1>9, AnswerFacts DEF WriteFails, Fail
  <2> QED BY <1>9, <2>1
            
                DEF WriteFails, TypeOK, Handling, Accepted, Ended, Goto, Fail, request,
                    stored, memory
<1>10. ASSUME NEW r \in Reqs, WriteEnds(r) PROVE TypeOK'
  BY <1>10 DEF WriteEnds, TypeOK, Handling, Accepted, Ended, Goto, request, stored, memory
<1>11. ASSUME NEW r \in Reqs, GetOrCreate(r) PROVE TypeOK'
  <2>1. sid[r] \in SessionIDs
    BY <1>11 DEF GetOrCreate, SidInv, Handling, Accepted
  <2> QED BY <1>11, <2>1
     DEF GetOrCreate, TypeOK, Handling, Accepted, Ended, Goto, request, stored
<1>12. ASSUME NEW r \in Reqs, Enqueue(r) PROVE TypeOK'
  <2>1. jar' \in [Clients -> SessionIDs \cup {None}]
    BY <1>12, AnswerFacts DEF Enqueue
  <2>2. queue' \in Seq(Reqs)
    BY <1>12 DEF Enqueue, TypeOK
  <2> QED BY <1>12, <2>1, <2>2
     DEF Enqueue, TypeOK, Handling, Accepted, Ended, Goto, request, stored
<1>13. ASSUME NEW r \in Reqs, Begin(r) PROVE TypeOK'
  <2>1. queue' \in Seq(Reqs)
    BY <1>13, BeginFacts
  <2> QED BY <1>13, <2>1, Assumptions
             DEF Begin, TypeOK, Handling, Accepted, Ended, Goto, request, stored
<1>14. ASSUME NEW r \in Reqs, NEW f \in Files, CommandWrites(r, f) PROVE TypeOK'
  <2>0. DirOf[f] \in Dirs /\ {r} \in SUBSET Reqs
    BY Assumptions
  <2>1. sid[r] \in SessionIDs
    BY <1>14, AliveFacts DEF CommandWrites
  <2>2. made' \in [SessionIDs -> SUBSET Dirs]
    BY <1>14, <2>1, <2>0, MkdirFacts DEF CommandWrites
  <2>3. disk' \in [SessionIDs -> [Files -> (SUBSET Reqs) \cup {Absent}]]
    BY <1>14, <2>1, <2>0, DiskFacts DEF CommandWrites
  <2> QED BY <1>14, <2>2, <2>3
             DEF CommandWrites, TypeOK, Handling, Accepted, Ended, request, memory
<1>15. ASSUME NEW r \in Reqs, NEW f \in Files, CommandRemoves(r, f) PROVE TypeOK'
  <2>1. sid[r] \in SessionIDs
    BY <1>15, AliveFacts DEF CommandRemoves
  <2>2. disk' \in [SessionIDs -> [Files -> (SUBSET Reqs) \cup {Absent}]]
    BY <1>15, <2>1, DiskFacts DEF CommandRemoves
  <2>3. open' \in [Reqs -> Files \cup {None}]
    BY <1>15 DEF CommandRemoves, TypeOK
  <2> QED BY <1>15, <2>2, <2>3
             DEF CommandRemoves, TypeOK, Handling, Accepted, Ended, request, memory
<1>16. ASSUME NEW r \in Reqs, NEW d \in Dirs, CommandRemovesDir(r, d) PROVE TypeOK'
  <2>1. made' \in [SessionIDs -> SUBSET Dirs]
    BY <1>16 DEF CommandRemovesDir, TypeOK
  <2> QED BY <1>16, <2>1
             DEF CommandRemovesDir, TypeOK, Handling, Accepted, Ended, request, memory
<1>17. ASSUME NEW r \in Reqs, CommandEnds(r) PROVE TypeOK'
  BY <1>17 DEF CommandEnds, TypeOK, Handling, Accepted, Ended, request, stored, memory
<1>18. ASSUME NEW r \in Reqs, Finish(r) PROVE TypeOK'
  BY <1>18 DEF Finish, TypeOK, Handling, Accepted, Ended, Goto, request, stored, memory
<1>19. ASSUME NEW r \in Reqs, Killed(r) PROVE TypeOK'
  BY <1>19 DEF Killed, TypeOK, Handling, Accepted, Ended, Goto, request, stored, memory
<1>20. CASE Restart
  BY <1>20 DEF Restart, TypeOK, Handling, Accepted, Ended, request, stored
<1>21. CASE UNCHANGED vars
  BY <1>21 DEF vars, TypeOK, Handling, Accepted, Ended
<1> QED BY <1>1, <1>2, <1>3, <1>4, <1>5, <1>6, <1>7, <1>8, <1>9, <1>10, <1>11, <1>12,
           <1>13, <1>14, <1>15, <1>16, <1>17, <1>18, <1>19, <1>20, <1>21
        DEF Next, Handle, Job, Command

\* Each step keeps the session of a request.
LEMMA SidStep ==
  ASSUME TypeOK, SidInv, OpenInv, QueueInv, [Next]_vars
  PROVE  SidInv'
<1> USE Assumptions
<1>1. ASSUME NEW r \in Reqs, Arrive(r) PROVE SidInv'
  BY <1>1 DEF Arrive, TypeOK, SidInv, Handling, Accepted, Goto, stored, memory
<1>2. ASSUME NEW r \in Reqs, ChooseSession(r) PROVE SidInv'
  BY <1>2, ChoiceFacts DEF ChooseSession, TypeOK, SidInv, Handling, Accepted, Goto, request
<1>3. ASSUME NEW r \in Reqs, MakeBase(r) PROVE SidInv'
  BY <1>3 DEF MakeBase, TypeOK, SidInv, Handling, Accepted, Goto, request, memory
<1>4. ASSUME NEW r \in Reqs, MakeCwd(r) PROVE SidInv'
  BY <1>4 DEF MakeCwd, TypeOK, SidInv, Handling, Accepted, Goto, request, memory
<1>5. ASSUME NEW r \in Reqs, MakeFails(r) PROVE SidInv'
  BY <1>5
    
        DEF MakeFails, TypeOK, SidInv, Handling, Accepted, Goto, Fail, Answer, request,
            stored, memory
<1>6. ASSUME NEW r \in Reqs, DetectWorkDir(r) PROVE SidInv'
  BY <1>6 DEF DetectWorkDir, TypeOK, SidInv, Handling, Accepted, Goto, request, stored, memory
<1>7. ASSUME NEW r \in Reqs, NEW f \in Files, OpenFile(r, f) PROVE SidInv'
  BY <1>7 DEF OpenFile, TypeOK, SidInv, Handling, Accepted, request, memory
<1>8. ASSUME NEW r \in Reqs, WriteContent(r) PROVE SidInv'
  BY <1>8 DEF WriteContent, TypeOK, SidInv, Handling, Accepted, request, memory
<1>9. ASSUME NEW r \in Reqs, WriteFails(r) PROVE SidInv'
  BY <1>9
    
        DEF WriteFails, TypeOK, SidInv, Handling, Accepted, Goto, Fail, Answer, request,
            stored, memory
<1>10. ASSUME NEW r \in Reqs, WriteEnds(r) PROVE SidInv'
  BY <1>10 DEF WriteEnds, TypeOK, SidInv, Handling, Accepted, Goto, request, stored, memory
<1>11. ASSUME NEW r \in Reqs, GetOrCreate(r) PROVE SidInv'
  BY <1>11 DEF GetOrCreate, TypeOK, SidInv, Handling, Accepted, Goto, request, stored
<1>12. ASSUME NEW r \in Reqs, Enqueue(r) PROVE SidInv'
  BY <1>12 DEF Enqueue, TypeOK, SidInv, Handling, Accepted, Goto, Answer, request, stored
<1>13. ASSUME NEW r \in Reqs, Begin(r) PROVE SidInv'
  <2>1. pc[r] = "queued" /\ pc' = [pc EXCEPT ![r] = "running"]
    BY <1>13, BeginFacts
  <2>2. sid' = sid
    BY <1>13 DEF Begin
  <2> QED BY <2>1, <2>2 DEF SidInv, Handling, Accepted, TypeOK
<1>14. ASSUME NEW r \in Reqs, NEW f \in Files, CommandWrites(r, f) PROVE SidInv'
  BY <1>14 DEF CommandWrites, TypeOK, SidInv, Handling, Accepted, request, memory
<1>15. ASSUME NEW r \in Reqs, NEW f \in Files, CommandRemoves(r, f) PROVE SidInv'
  BY <1>15 DEF CommandRemoves, TypeOK, SidInv, Handling, Accepted, request, memory
<1>16. ASSUME NEW r \in Reqs, NEW d \in Dirs, CommandRemovesDir(r, d) PROVE SidInv'
  BY <1>16 DEF CommandRemovesDir, TypeOK, SidInv, Handling, Accepted, request, memory
<1>17. ASSUME NEW r \in Reqs, CommandEnds(r) PROVE SidInv'
  BY <1>17 DEF CommandEnds, TypeOK, SidInv, Handling, Accepted, request, stored, memory
<1>18. ASSUME NEW r \in Reqs, Finish(r) PROVE SidInv'
  BY <1>18 DEF Finish, TypeOK, SidInv, Handling, Accepted, Goto, request, stored, memory
<1>19. ASSUME NEW r \in Reqs, Killed(r) PROVE SidInv'
  BY <1>19 DEF Killed, TypeOK, SidInv, Handling, Accepted, Goto, request, stored, memory
<1>20. CASE Restart
  BY <1>20 DEF Restart, TypeOK, SidInv, Handling, Accepted, request, stored
<1>21. CASE UNCHANGED vars
  BY <1>21 DEF vars, TypeOK, SidInv, Handling, Accepted
<1> QED BY <1>1, <1>2, <1>3, <1>4, <1>5, <1>6, <1>7, <1>8, <1>9, <1>10, <1>11, <1>12,
           <1>13, <1>14, <1>15, <1>16, <1>17, <1>18, <1>19, <1>20, <1>21
        DEF Next, Handle, Job, Command

\* Each step keeps what is left to write.
LEMMA OpenStep ==
  ASSUME TypeOK, OpenInv, QueueInv, [Next]_vars
  PROVE  OpenInv'
<1> USE Assumptions
<1>1. ASSUME NEW r \in Reqs, Arrive(r) PROVE OpenInv'
  BY <1>1 DEF Arrive, TypeOK, OpenInv, Handling, Goto, stored, memory
<1>2. ASSUME NEW r \in Reqs, ChooseSession(r) PROVE OpenInv'
  BY <1>2 DEF ChooseSession, TypeOK, OpenInv, Handling, Goto, request, stored, memory
<1>3. ASSUME NEW r \in Reqs, MakeBase(r) PROVE OpenInv'
  BY <1>3 DEF MakeBase, TypeOK, OpenInv, Handling, Goto, request, memory
<1>4. ASSUME NEW r \in Reqs, MakeCwd(r) PROVE OpenInv'
  BY <1>4 DEF MakeCwd, TypeOK, OpenInv, Handling, Goto, request, memory
<1>5. ASSUME NEW r \in Reqs, MakeFails(r) PROVE OpenInv'
  BY <1>5
     DEF MakeFails, TypeOK, OpenInv, Handling, Goto, Fail, Answer, request, stored, memory
<1>6. ASSUME NEW r \in Reqs, DetectWorkDir(r) PROVE OpenInv'
  BY <1>6 DEF DetectWorkDir, TypeOK, OpenInv, Handling, Goto, request, stored, memory
<1>7. ASSUME NEW r \in Reqs, NEW f \in Files, OpenFile(r, f) PROVE OpenInv'
  BY <1>7 DEF OpenFile, TypeOK, OpenInv, Handling, request, memory
<1>8. ASSUME NEW r \in Reqs, WriteContent(r) PROVE OpenInv'
  BY <1>8 DEF WriteContent, TypeOK, OpenInv, Handling, request, memory
<1>9. ASSUME NEW r \in Reqs, WriteFails(r) PROVE OpenInv'
  BY <1>9
     DEF WriteFails, TypeOK, OpenInv, Handling, Goto, Fail, Answer, request, stored, memory
<1>10. ASSUME NEW r \in Reqs, WriteEnds(r) PROVE OpenInv'
  BY <1>10 DEF WriteEnds, TypeOK, OpenInv, Handling, Goto, request, stored, memory
<1>11. ASSUME NEW r \in Reqs, GetOrCreate(r) PROVE OpenInv'
  BY <1>11 DEF GetOrCreate, TypeOK, OpenInv, Handling, Goto, request, stored
<1>12. ASSUME NEW r \in Reqs, Enqueue(r) PROVE OpenInv'
  BY <1>12 DEF Enqueue, TypeOK, OpenInv, Handling, Goto, Answer, request, stored
<1>13. ASSUME NEW r \in Reqs, Begin(r) PROVE OpenInv'
  <2>1. pc[r] = "queued" /\ pc' = [pc EXCEPT ![r] = "running"]
    BY <1>13, BeginFacts
  <2>2. UNCHANGED <<req, left, open>>
    BY <1>13 DEF Begin, request
  <2> QED BY <2>1, <2>2 DEF OpenInv, TypeOK
<1>14. ASSUME NEW r \in Reqs, NEW f \in Files, CommandWrites(r, f) PROVE OpenInv'
  BY <1>14 DEF CommandWrites, TypeOK, OpenInv, Handling, request, memory
<1>15. ASSUME NEW r \in Reqs, NEW f \in Files, CommandRemoves(r, f) PROVE OpenInv'
  BY <1>15 DEF CommandRemoves, TypeOK, OpenInv, Handling, request, memory
<1>16. ASSUME NEW r \in Reqs, NEW d \in Dirs, CommandRemovesDir(r, d) PROVE OpenInv'
  BY <1>16 DEF CommandRemovesDir, TypeOK, OpenInv, Handling, request, memory
<1>17. ASSUME NEW r \in Reqs, CommandEnds(r) PROVE OpenInv'
  BY <1>17 DEF CommandEnds, TypeOK, OpenInv, Handling, request, stored, memory
<1>18. ASSUME NEW r \in Reqs, Finish(r) PROVE OpenInv'
  BY <1>18 DEF Finish, TypeOK, OpenInv, Handling, Goto, request, stored, memory
<1>19. ASSUME NEW r \in Reqs, Killed(r) PROVE OpenInv'
  BY <1>19 DEF Killed, TypeOK, OpenInv, Handling, Goto, request, stored, memory
<1>20. CASE Restart
  BY <1>20 DEF Restart, TypeOK, OpenInv, Handling, request, stored
<1>21. CASE UNCHANGED vars
  BY <1>21 DEF vars, TypeOK, OpenInv, Handling
<1> QED BY <1>1, <1>2, <1>3, <1>4, <1>5, <1>6, <1>7, <1>8, <1>9, <1>10, <1>11, <1>12,
           <1>13, <1>14, <1>15, <1>16, <1>17, <1>18, <1>19, <1>20, <1>21
        DEF Next, Handle, Job, Command

\* Each step keeps the past of a request.
LEMMA PastStep ==
  ASSUME TypeOK, OpenInv, QueueInv, PastInv, [Next]_vars
  PROVE  PastInv'
<1> USE Assumptions
<1>1. ASSUME NEW r \in Reqs, Arrive(r) PROVE PastInv'
  BY <1>1
     DEF Arrive, TypeOK, PastInv, OpenInv, Handling, Accepted, Ended, Goto, stored, memory
<1>2. ASSUME NEW r \in Reqs, ChooseSession(r) PROVE PastInv'
  BY <1>2
     DEF ChooseSession, TypeOK, PastInv, OpenInv, Handling, Accepted, Ended, Goto,
         request, stored, memory
<1>3. ASSUME NEW r \in Reqs, MakeBase(r) PROVE PastInv'
  BY <1>3
     DEF MakeBase, TypeOK, PastInv, OpenInv, Handling, Accepted, Ended, Goto, request,
         memory
<1>4. ASSUME NEW r \in Reqs, MakeCwd(r) PROVE PastInv'
  BY <1>4
     DEF MakeCwd, TypeOK, PastInv, OpenInv, Handling, Accepted, Ended, Goto, request,
         memory
<1>5. ASSUME NEW r \in Reqs, MakeFails(r) PROVE PastInv'
  BY <1>5
     DEF MakeFails, TypeOK, PastInv, OpenInv, Handling, Accepted, Ended, Goto, Fail,
         Answer,
         request, stored, memory
<1>6. ASSUME NEW r \in Reqs, DetectWorkDir(r) PROVE PastInv'
  BY <1>6
     DEF DetectWorkDir, TypeOK, PastInv, OpenInv, Handling, Accepted, Ended, Goto,
         request, stored, memory
<1>7. ASSUME NEW r \in Reqs, NEW f \in Files, OpenFile(r, f) PROVE PastInv'
  BY <1>7
     DEF OpenFile, TypeOK, PastInv, OpenInv, Handling, Accepted, Ended, request, memory
<1>8. ASSUME NEW r \in Reqs, WriteContent(r) PROVE PastInv'
  BY <1>8
     DEF WriteContent, TypeOK, PastInv, OpenInv, Handling, Accepted, Ended, request,
         memory
<1>9. ASSUME NEW r \in Reqs, WriteFails(r) PROVE PastInv'
  BY <1>9
     DEF WriteFails, TypeOK, PastInv, OpenInv, Handling, Accepted, Ended, Goto, Fail,
         Answer,
         request, stored, memory
<1>10. ASSUME NEW r \in Reqs, WriteEnds(r) PROVE PastInv'
  BY <1>10
     DEF WriteEnds, TypeOK, PastInv, OpenInv, Handling, Accepted, Ended, Goto, request,
         stored,
         memory
<1>11. ASSUME NEW r \in Reqs, GetOrCreate(r) PROVE PastInv'
  BY <1>11
     DEF GetOrCreate, TypeOK, PastInv, OpenInv, Handling, Accepted, Ended, Goto, request,
         stored
<1>12. ASSUME NEW r \in Reqs, Enqueue(r) PROVE PastInv'
  BY <1>12
    
        DEF Enqueue, TypeOK, PastInv, OpenInv, Handling, Accepted, Ended, Goto, Answer,
            request, stored
<1>13. ASSUME NEW r \in Reqs, Begin(r) PROVE PastInv'
  <2>1. pc[r] = "queued" /\ pc' = [pc EXCEPT ![r] = "running"]
    BY <1>13, BeginFacts
  <2>2. UNCHANGED <<before, busy>> /\ alive' = alive \cup {r}
    BY <1>13 DEF Begin, request
  <2> QED BY <2>1, <2>2 DEF PastInv, Ended, Accepted, TypeOK
<1>14. ASSUME NEW r \in Reqs, NEW f \in Files, CommandWrites(r, f) PROVE PastInv'
  BY <1>14
     DEF CommandWrites, TypeOK, PastInv, OpenInv, Handling, Accepted, Ended, request,
         memory
<1>15. ASSUME NEW r \in Reqs, NEW f \in Files, CommandRemoves(r, f) PROVE PastInv'
  BY <1>15
     DEF CommandRemoves, TypeOK, PastInv, OpenInv, Handling, Accepted, Ended, request,
         memory
<1>16. ASSUME NEW r \in Reqs, NEW d \in Dirs, CommandRemovesDir(r, d) PROVE PastInv'
  BY <1>16
     DEF CommandRemovesDir, TypeOK, PastInv, OpenInv, Handling, Accepted, Ended, request,
         memory
<1>17. ASSUME NEW r \in Reqs, CommandEnds(r) PROVE PastInv'
  BY <1>17
     DEF CommandEnds, TypeOK, PastInv, OpenInv, Handling, Accepted, Ended, request,
         stored, memory
<1>18. ASSUME NEW r \in Reqs, Finish(r) PROVE PastInv'
  BY <1>18
    
        DEF Finish, TypeOK, PastInv, OpenInv, Handling, Accepted, Ended, Goto, request,
            stored, memory
<1>19. ASSUME NEW r \in Reqs, Killed(r) PROVE PastInv'
  BY <1>19
    
        DEF Killed, TypeOK, PastInv, OpenInv, Handling, Accepted, Ended, Goto, request,
            stored, memory
<1>20. CASE Restart
  BY <1>20
     DEF Restart, TypeOK, PastInv, OpenInv, Handling, Accepted, Ended, request, stored
<1>21. CASE UNCHANGED vars
  BY <1>21 DEF vars, TypeOK, PastInv, OpenInv, Handling, Accepted, Ended
<1> QED BY <1>1, <1>2, <1>3, <1>4, <1>5, <1>6, <1>7, <1>8, <1>9, <1>10, <1>11, <1>12,
           <1>13, <1>14, <1>15, <1>16, <1>17, <1>18, <1>19, <1>20, <1>21
        DEF Next, Handle, Job, Command

\* Each step keeps the queue.
LEMMA QueueStep ==
  ASSUME TypeOK, OpenInv, QueueInv, [Next]_vars
  PROVE  QueueInv'
<1> USE Assumptions
<1>0. ASSUME NEW r \in Reqs, pc[r] # "queued", NEW p, pc' = [pc EXCEPT ![r] = p],
             queue' = queue
      PROVE  QueueInv'
  <2>1. \A i \in 1..Len(queue) : queue[i] \in Reqs
    BY DEF TypeOK
  <2>2. \A i \in 1..Len(queue) : queue[i] # r
    BY <1>0 DEF QueueInv
  <2>3. \A i \in 1..Len(queue) : pc'[queue[i]] = pc[queue[i]]
    BY <1>0, <2>1, <2>2 DEF TypeOK
  <2> QED BY <1>0, <2>3 DEF QueueInv
<1>1. ASSUME NEW r \in Reqs, Arrive(r) PROVE QueueInv'
  <2>1. pc[r] = "new" /\ (\E p : pc' = [pc EXCEPT ![r] = p]) /\ queue' = queue
    BY <1>1 DEF Arrive, Goto, memory
  <2> QED BY <1>0, <2>1
<1>2. ASSUME NEW r \in Reqs, ChooseSession(r) PROVE QueueInv'
  BY <1>2 DEF ChooseSession, TypeOK, QueueInv, Handling, Goto, request, stored, memory
<1>3. ASSUME NEW r \in Reqs, MakeBase(r) PROVE QueueInv'
  <2>1. pc[r] = "base" /\ pc' = [pc EXCEPT ![r] = "cwd"] /\ queue' = queue
    BY <1>3 DEF MakeBase, Goto, memory
  <2> QED BY <1>0, <2>1
<1>4. ASSUME NEW r \in Reqs, MakeCwd(r) PROVE QueueInv'
  BY <1>4 DEF MakeCwd, TypeOK, QueueInv, Handling, Goto, request, memory
<1>5. ASSUME NEW r \in Reqs, MakeFails(r) PROVE QueueInv'
  BY <1>5
     DEF MakeFails, TypeOK, QueueInv, Handling, Goto, Fail, Answer, request, stored, memory
<1>6. ASSUME NEW r \in Reqs, DetectWorkDir(r) PROVE QueueInv'
  BY <1>6 DEF DetectWorkDir, TypeOK, QueueInv, Handling, Goto, request, stored, memory
<1>7. ASSUME NEW r \in Reqs, NEW f \in Files, OpenFile(r, f) PROVE QueueInv'
  BY <1>7 DEF OpenFile, TypeOK, QueueInv, Handling, request, memory
<1>8. ASSUME NEW r \in Reqs, WriteContent(r) PROVE QueueInv'
  BY <1>8 DEF WriteContent, TypeOK, QueueInv, Handling, request, memory
<1>9. ASSUME NEW r \in Reqs, WriteFails(r) PROVE QueueInv'
  BY <1>9 DEF WriteFails, TypeOK, QueueInv, Handling, Goto, Fail, Answer, request, stored,
         memory
<1>10. ASSUME NEW r \in Reqs, WriteEnds(r) PROVE QueueInv'
  BY <1>10 DEF WriteEnds, TypeOK, QueueInv, Handling, Goto, request, stored, memory
<1>11. ASSUME NEW r \in Reqs, GetOrCreate(r) PROVE QueueInv'
  BY <1>11 DEF GetOrCreate, TypeOK, QueueInv, Handling, Goto, request, stored
<1>12. ASSUME NEW r \in Reqs, Enqueue(r) PROVE QueueInv'
  <2>1. queue' = Append(queue, r) /\ queue \in Seq(Reqs)
    BY <1>12 DEF Enqueue, TypeOK
  <2>2. /\ Len(queue) \in Nat /\ Len(queue') = Len(queue) + 1 /\ queue'[Len(queue) + 1] = r
        /\ \A i \in 1..Len(queue) : queue'[i] = queue[i]
    BY <2>1
  <2>3. /\ pc[r] = "enqueue" /\ pc'[r] = "queued"
        /\ \A q \in Reqs \ {r} : pc'[q] = pc[q]
    BY <1>12 DEF Enqueue, Goto, TypeOK
  <2>4. \A i \in 1..Len(queue) : queue[i] \in Reqs \ {r} /\ pc[queue[i]] = "queued"
    BY <2>1, <2>3 DEF QueueInv
  <2>5. \A i \in 1..Len(queue') : pc'[queue'[i]] = "queued"
    BY <2>2, <2>3, <2>4
  <2>6. \A i, k \in 1..Len(queue') : queue'[i] = queue'[k] => i = k
    BY <2>2, <2>4 DEF QueueInv
  <2> QED BY <2>5, <2>6 DEF QueueInv
<1>13. ASSUME NEW r \in Reqs, Begin(r) PROVE QueueInv'
  <2>1. /\ Len(queue) \in Nat \ {0} /\ r = queue[1] /\ queue \in Seq(Reqs)
        /\ Len(queue') = Len(queue) - 1
        /\ \A i \in 1..Len(queue') : queue'[i] = queue[i + 1]
    BY <1>13, BeginFacts DEF TypeOK
  <2>2. \A q \in Reqs \ {r} : pc'[q] = pc[q]
    BY <1>13, BeginFacts DEF TypeOK
  <2>3. \A i \in 1..Len(queue') : i + 1 \in 1..Len(queue) /\ i + 1 # 1
    BY <2>1
  <2>4. \A i \in 1..Len(queue') : queue'[i] \in Reqs \ {r} /\ pc[queue'[i]] = "queued"
    BY <2>1, <2>3 DEF QueueInv
  <2>5. \A i, k \in 1..Len(queue') : queue'[i] = queue'[k] => i = k
    <3> SUFFICES ASSUME NEW i \in 1..Len(queue'), NEW k \in 1..Len(queue'),
                        queue'[i] = queue'[k]
                 PROVE  i = k
      OBVIOUS
    <3>1. i + 1 = k + 1
      BY <2>1, <2>3 DEF QueueInv
    <3> QED BY <2>1, <3>1
  <2> QED BY <2>2, <2>4, <2>5 DEF QueueInv
<1>14. ASSUME NEW r \in Reqs, NEW f \in Files, CommandWrites(r, f) PROVE QueueInv'
  BY <1>14 DEF CommandWrites, TypeOK, QueueInv, Handling, request, memory
<1>15. ASSUME NEW r \in Reqs, NEW f \in Files, CommandRemoves(r, f) PROVE QueueInv'
  BY <1>15 DEF CommandRemoves, TypeOK, QueueInv, Handling, request, memory
<1>16. ASSUME NEW r \in Reqs, NEW d \in Dirs, CommandRemovesDir(r, d) PROVE QueueInv'
  BY <1>16 DEF CommandRemovesDir, TypeOK, QueueInv, Handling, request, memory
<1>17. ASSUME NEW r \in Reqs, CommandEnds(r) PROVE QueueInv'
  BY <1>17 DEF CommandEnds, TypeOK, QueueInv, Handling, request, stored, memory
<1>18. ASSUME NEW r \in Reqs, Finish(r) PROVE QueueInv'
  BY <1>18 DEF Finish, TypeOK, QueueInv, Handling, Goto, request, stored, memory
<1>19. ASSUME NEW r \in Reqs, Killed(r) PROVE QueueInv'
  BY <1>19 DEF Killed, TypeOK, QueueInv, Handling, Goto, request, stored, memory
<1>20. CASE Restart
  <2>1. queue' = <<>>
    BY <1>20 DEF Restart
  <2> QED BY <2>1 DEF QueueInv
<1>21. CASE UNCHANGED vars
  BY <1>21 DEF vars, TypeOK, QueueInv, Handling
<1> QED BY <1>1, <1>2, <1>3, <1>4, <1>5, <1>6, <1>7, <1>8, <1>9, <1>10, <1>11, <1>12,
           <1>13, <1>14, <1>15, <1>16, <1>17, <1>18, <1>19, <1>20, <1>21
        DEF Next, Handle, Job, Command

\* Each step keeps the commands that run those of jobs that began.
LEMMA AliveStep ==
  ASSUME TypeOK, OpenInv, QueueInv, AliveInv, [Next]_vars
  PROVE  AliveInv'
<1>1. ASSUME NEW r \in Reqs, Handle(r) PROVE AliveInv'
  <2>1. alive' = alive
    BY <1>1 DEF Handle, Arrive, ChooseSession, MakeBase, MakeCwd, MakeFails, DetectWorkDir,
                OpenFile, WriteContent, WriteFails, WriteEnds, GetOrCreate, Enqueue
  <2>2. \/ pc[r] \notin Ended /\ \E p : pc' = [pc EXCEPT ![r] = p]
        \/ pc' = pc
    BY <1>1 DEF Handle, Arrive, ChooseSession, MakeBase, MakeCwd, MakeFails, DetectWorkDir,
                OpenFile, WriteContent, WriteFails, WriteEnds, GetOrCreate, Enqueue, Fail,
                Goto, Ended, Accepted
  <2> QED BY <2>1, <2>2 DEF AliveInv, Ended, Accepted, TypeOK
<1>2. ASSUME NEW r \in Reqs, Begin(r) PROVE AliveInv'
  <2>1. pc' = [pc EXCEPT ![r] = "running"] /\ alive' = alive \cup {r}
    BY <1>2, BeginFacts DEF Begin
  <2> QED BY <2>1 DEF AliveInv, TypeOK
<1>3. ASSUME NEW r \in Reqs, Finish(r) \/ Killed(r) PROVE AliveInv'
  BY <1>3 DEF Finish, Killed, Goto, AliveInv, TypeOK
<1>4. ASSUME NEW r \in Reqs, Command(r) PROVE AliveInv'
  BY <1>4 DEF Command, CommandWrites, CommandRemoves, CommandRemovesDir, CommandEnds,
              AliveInv
<1>5. CASE Restart
  BY <1>5 DEF Restart, AliveInv, TypeOK, Handling
<1>6. CASE UNCHANGED vars
  BY <1>6 DEF vars, AliveInv
<1> QED BY <1>1, <1>2, <1>3, <1>4, <1>5, <1>6 DEF Next, Job

\* Making directories and files only adds to a workspace; only a command removes a
\* directory, and never the workspace itself.
LEMMA GrowFacts ==
  ASSUME TypeOK, SidInv, AliveInv, [Next]_vars, NEW s \in SessionIDs, NEW d \in made[s]
  PROVE  \/ d \in made'[s]
         \/ \E q \in Reqs : q \in alive /\ sid[q] = s /\ d \in Emptied(q)
<1>1. ASSUME NEW r \in Reqs, NEW e \in Dirs, sid[r] \in SessionIDs, Mkdir(r, e)
      PROVE  made[s] \subseteq made'[s]
  BY <1>1, MkdirFacts
<1>2. ASSUME NEW r \in Reqs, MakeBase(r) \/ MakeCwd(r)
      PROVE  made[s] \subseteq made'[s]
  <2>1. sid[r] \in SessionIDs
    BY <1>2 DEF MakeBase, MakeCwd, SidInv, Handling
  <2>2. Root \in Dirs /\ req[r].cwd \in Dirs
    BY RequestFacts, Assumptions
  <2> QED BY <1>1, <1>2, <2>1, <2>2 DEF MakeBase, MakeCwd
<1>3. ASSUME NEW r \in Reqs, NEW f \in Files, OpenFile(r, f) \/ CommandWrites(r, f)
      PROVE  made[s] \subseteq made'[s]
  <2>1. sid[r] \in SessionIDs
    BY <1>3, AliveFacts DEF OpenFile, CommandWrites, SidInv, Handling
  <2>2. DirOf[f] \in Dirs
    BY Assumptions
  <2> QED BY <1>1, <1>3, <2>1, <2>2 DEF OpenFile, CommandWrites
<1>4. ASSUME NEW r \in Reqs, NEW e \in Dirs, CommandRemovesDir(r, e), d \notin made'[s]
      PROVE  r \in alive /\ sid[r] = s /\ d \in Emptied(r)
  <2>1. r \in alive /\ e \in Emptied(r) /\ made' = [made EXCEPT ![sid[r]] = @ \ {e}]
    BY <1>4 DEF CommandRemovesDir
  <2> QED BY <1>4, <2>1 DEF TypeOK
<1>5. ASSUME NEW r \in Reqs, Handle(r) \/ Job(r) \/ Command(r),
             ~(MakeBase(r) \/ MakeCwd(r)),
             ~\E f \in Files : OpenFile(r, f) \/ CommandWrites(r, f),
             ~\E e \in Dirs : CommandRemovesDir(r, e)
      PROVE  UNCHANGED made
  BY <1>5 DEF Handle, Job, Command, Arrive, ChooseSession, MakeFails, DetectWorkDir,
              WriteContent, WriteFails, WriteEnds, GetOrCreate, Enqueue, Begin, Finish,
              Killed, CommandRemoves, CommandEnds, stored
<1>6. CASE Restart \/ UNCHANGED vars
  BY <1>6 DEF Restart, vars, stored
<1> QED BY <1>2, <1>3, <1>4, <1>5, <1>6 DEF Next

\* Only the choice of a session changes the session of a request.
LEMMA SidFrame ==
  ASSUME [Next]_vars
  PROVE  (\E q \in Reqs : ChooseSession(q)) \/ UNCHANGED sid
<1>1. ASSUME NEW q \in Reqs, Handle(q), ~ChooseSession(q) PROVE UNCHANGED sid
  BY <1>1 DEF Handle, Arrive, MakeBase, MakeCwd, MakeFails, DetectWorkDir, OpenFile,
              WriteContent, WriteFails, WriteEnds, GetOrCreate, Enqueue
<1>2. ASSUME NEW q \in Reqs, Job(q) \/ Command(q) PROVE UNCHANGED sid
  BY <1>2 DEF Job, Begin, Finish, Killed, Command, CommandWrites, CommandRemoves,
              CommandRemovesDir, CommandEnds
<1>3. CASE Restart \/ UNCHANGED vars
  BY <1>3 DEF Restart, vars
<1> QED BY <1>1, <1>2, <1>3 DEF Next

\* What a request asks for never changes, nor its past once it was sent, nor its session.
LEMMA KeptFacts ==
  ASSUME TypeOK, SidInv, [Next]_vars, NEW r \in Reqs
  PROVE  /\ req' = req
         /\ pc[r] # "new" => UNCHANGED <<cookie[r], before[r], busy[r]>>
         /\ sid[r] # None => sid'[r] = sid[r]
<1>1. req' = req
  <2>1. ASSUME NEW q \in Reqs, Handle(q) PROVE req' = req
    BY <2>1 DEF Handle, Arrive, ChooseSession, MakeBase, MakeCwd, MakeFails, DetectWorkDir,
                OpenFile, WriteContent, WriteFails, WriteEnds, GetOrCreate, Enqueue, request
  <2>2. ASSUME NEW q \in Reqs, Job(q) \/ Command(q) PROVE req' = req
    BY <2>2 DEF Job, Begin, Finish, Killed, Command, CommandWrites, CommandRemoves,
                CommandRemovesDir, CommandEnds, request
  <2>3. CASE Restart \/ UNCHANGED vars
    BY <2>3 DEF Restart, vars, request
  <2> QED BY <2>1, <2>2, <2>3 DEF Next
<1>2. ASSUME NEW q \in Reqs, Arrive(q)
      PROVE  pc[r] # "new" => UNCHANGED <<cookie[r], before[r], busy[r]>>
  BY <1>2 DEF Arrive, TypeOK
<1>3. (\E q \in Reqs : Arrive(q)) \/ UNCHANGED <<cookie, before, busy>>
  <2>1. ASSUME NEW q \in Reqs, Handle(q), ~Arrive(q) PROVE UNCHANGED <<cookie, before, busy>>
    BY <2>1 DEF Handle, ChooseSession, MakeBase, MakeCwd, MakeFails, DetectWorkDir,
                OpenFile, WriteContent, WriteFails, WriteEnds, GetOrCreate, Enqueue, request
  <2>2. ASSUME NEW q \in Reqs, Job(q) \/ Command(q) PROVE UNCHANGED <<cookie, before, busy>>
    BY <2>2 DEF Job, Begin, Finish, Killed, Command, CommandWrites, CommandRemoves,
                CommandRemovesDir, CommandEnds, request
  <2>3. CASE Restart \/ UNCHANGED vars
    BY <2>3 DEF Restart, vars, request
  <2> QED BY <2>1, <2>2, <2>3 DEF Next
<1>4. ASSUME NEW q \in Reqs, ChooseSession(q)
      PROVE  sid[r] # None => sid'[r] = sid[r]
  <2>1. sid[q] = None /\ \E s : sid' = [sid EXCEPT ![q] = s]
    BY <1>4 DEF ChooseSession, SidInv
  <2> QED BY <2>1 DEF TypeOK
<1>5. (\E q \in Reqs : ChooseSession(q)) \/ UNCHANGED sid
  BY SidFrame
<1> QED BY <1>1, <1>2, <1>3, <1>4, <1>5

\* A command that runs lingers for every other request of its session.
LEMMA LingersFacts ==
  ASSUME TypeOK, PastInv, NEW q \in alive, q \in Reqs, NEW r \in Reqs, q # r, sid[q] = sid[r]
  PROVE  Lingers(q, r)
BY DEF PastInv, Lingers

\* A command that lingers for a request does so for ever.
LEMMA LingersKept ==
  ASSUME TypeOK, SidInv, [Next]_vars, NEW q \in Reqs, NEW r \in Reqs,
         pc[r] # "new", sid[r] # None, Lingers(q, r)
  PROVE  Lingers(q, r)'
<1>1. sid'[q] = sid[q] /\ sid'[r] = sid[r]
  BY KeptFacts DEF Lingers
<1>2. before'[r] = before[r] /\ busy'[r] = busy[r]
  BY KeptFacts
<1> QED BY <1>1, <1>2 DEF Lingers

\* A directory that a request made is kept, until its job begins.
LEMMA KeptKept ==
  ASSUME TypeOK, SidInv, AliveInv, PastInv, [Next]_vars, NEW r \in Reqs, NEW d,
         pc[r] \in {"detect", "write", "create", "enqueue", "queued"}, Kept(r, d)
  PROVE  Kept(r, d)'
<1>1. sid[r] \in SessionIDs /\ sid'[r] = sid[r] /\ sid[r] # None /\ req' = req
  BY KeptFacts, Assumptions DEF SidInv, Handling, Accepted
<1>2. \A q \in Reqs : Emptied(q)' = Emptied(q)
  BY <1>1 DEF Emptied
<1>3. CASE d \in made[sid[r]]
  <2>1. CASE d \in made'[sid[r]]
    BY <1>1, <2>1 DEF Kept
  <2>2. CASE d \notin made'[sid[r]]
    <3>1. PICK q \in Reqs : q \in alive /\ sid[q] = sid[r] /\ d \in Emptied(q)
      BY <1>1, <1>3, <2>2, GrowFacts
    <3>2. q # r
      BY <3>1 DEF AliveInv
    <3>3. Lingers(q, r)
      BY <3>1, <3>2, LingersFacts
    <3>4. Lingers(q, r)'
      BY <1>1, <3>3, LingersKept
    <3> QED BY <1>2, <3>1, <3>4 DEF Kept
  <2> QED BY <2>1, <2>2
<1>4. CASE d \notin made[sid[r]]
  <2>1. PICK q \in Reqs : Lingers(q, r) /\ d \in Emptied(q)
    BY <1>4 DEF Kept
  <2>2. Lingers(q, r)'
    BY <1>1, <2>1, LingersKept
  <2> QED BY <1>2, <2>1, <2>2 DEF Kept
<1> QED BY <1>3, <1>4

\* Each step keeps what a request has made.
LEMMA PlaceStep ==
  ASSUME TypeOK, SidInv, QueueInv, AliveInv, PlaceInv, PastInv, [Next]_vars
  PROVE  PlaceInv'
<1> SUFFICES ASSUME NEW x \in Reqs PROVE PlaceOK(x)'
  BY DEF PlaceInv
<1>a. PlaceOK(x) /\ req' = req
  BY KeptFacts DEF PlaceInv
<1>b. pc[x] \in (Handling \cup Accepted) \ {"session"} =>
        /\ sid[x] \in SessionIDs /\ sid'[x] = sid[x]
        /\ Root \in made[sid[x]] => Root \in made'[sid[x]]
  <2> SUFFICES ASSUME pc[x] \in (Handling \cup Accepted) \ {"session"}
               PROVE  /\ sid[x] \in SessionIDs /\ sid'[x] = sid[x]
                      /\ Root \in made[sid[x]] => Root \in made'[sid[x]]
    OBVIOUS
  <2>1. sid[x] \in SessionIDs
    BY DEF SidInv
  <2>2. sid'[x] = sid[x]
    BY <2>1, KeptFacts, Assumptions
  <2>3. \A q \in Reqs : Root \notin Emptied(q)
    BY DEF Emptied
  <2>4. Root \in made[sid[x]] => Root \in made'[sid[x]]
    BY <2>1, <2>3, GrowFacts
  <2> QED BY <2>1, <2>2, <2>4
<1>c. pc[x] \in {"detect", "write", "create", "enqueue", "queued"} =>
        \A d : Kept(x, d) => Kept(x, d)'
  BY KeptKept
<1>d. \A d : sid'[x] = sid[x] /\ d \in made'[sid[x]] => Kept(x, d)'
  BY DEF Kept
<1>1. ASSUME NEW r \in Reqs, Arrive(r) PROVE PlaceOK(x)'
  BY <1>1, <1>a, <1>b, <1>c, <1>d
     DEF Arrive, TypeOK, PlaceOK, Handling, Accepted, Goto, stored, memory
<1>2. ASSUME NEW r \in Reqs, ChooseSession(r) PROVE PlaceOK(x)'
  BY <1>2, <1>a, <1>b, <1>c, <1>d
     DEF ChooseSession, TypeOK, PlaceOK, Handling, Accepted, Goto, stored, memory
<1>3. ASSUME NEW r \in Reqs, MakeBase(r) PROVE PlaceOK(x)'
  <2>1. sid[r] \in SessionIDs /\ Root \in Dirs
    BY <1>3, Assumptions DEF MakeBase, SidInv, Handling, Accepted
  <2>2. Root \in made'[sid[r]]
    BY <1>3, <2>1, MkdirFacts DEF MakeBase
  <2> QED BY <1>3, <1>a, <1>b, <1>c, <1>d, <2>2
     DEF MakeBase, TypeOK, PlaceOK, Handling, Accepted, Goto, memory
<1>4. ASSUME NEW r \in Reqs, MakeCwd(r) PROVE PlaceOK(x)'
  <2>1. sid[r] \in SessionIDs /\ req[r].cwd \in Dirs
    BY <1>4, RequestFacts DEF MakeCwd, SidInv, Handling, Accepted
  <2>2. req[r].cwd \in made'[sid[r]]
    BY <1>4, <2>1, MkdirFacts DEF MakeCwd
  <2> QED BY <1>4, <1>a, <1>b, <1>c, <1>d, <2>2
     DEF MakeCwd, TypeOK, PlaceOK, Handling, Accepted, Goto, memory
<1>5. ASSUME NEW r \in Reqs, MakeFails(r) PROVE PlaceOK(x)'
  BY <1>5, <1>a, <1>b, <1>c, <1>d
     DEF MakeFails, TypeOK, PlaceOK, Handling, Accepted, Goto, Fail, stored, memory
<1>6. ASSUME NEW r \in Reqs, DetectWorkDir(r) PROVE PlaceOK(x)'
  <2>1. sid[r] \in SessionIDs /\ req[r].cwd \in Dirs /\ Kept(r, req[r].cwd) /\ pc[r] = "detect"
    BY <1>6, RequestFacts DEF DetectWorkDir, SidInv, PlaceInv, PlaceOK, Handling
  <2>2. PICK d \in Dirs : d = Detected(sid[r], req[r].cwd)
    BY <2>1, DetectedFacts
  <2>3. Kept(r, d)
    <3>1. d \in made[sid[r]] \cup {req[r].cwd}
      BY <2>1, <2>2, DetectedFacts
    <3> QED BY <2>1, <3>1 DEF Kept
  <2>4. Kept(r, d)'
    BY <2>1, <2>3, KeptKept
  <2>5. /\ pc' = [pc EXCEPT ![r] = "write"] /\ UNCHANGED <<made, sessions>>
        /\ workDir' = [workDir EXCEPT ![r] = d]
    BY <1>6, <2>2 DEF DetectWorkDir, Goto, stored, memory
  <2> QED BY <1>a, <1>b, <1>c, <2>1, <2>4, <2>5 DEF TypeOK, PlaceOK, Handling, Accepted
<1>7. ASSUME NEW r \in Reqs, NEW f \in Files, OpenFile(r, f) PROVE PlaceOK(x)'
  BY <1>7, <1>a, <1>b, <1>c, <1>d DEF OpenFile, TypeOK, PlaceOK, Handling, Accepted, memory
<1>8. ASSUME NEW r \in Reqs, WriteContent(r) PROVE PlaceOK(x)'
  BY <1>8, <1>a, <1>b, <1>c, <1>d DEF WriteContent, TypeOK, PlaceOK, Handling, Accepted, memory
<1>9. ASSUME NEW r \in Reqs, WriteFails(r) PROVE PlaceOK(x)'
  BY <1>9, <1>a, <1>b, <1>c, <1>d
     DEF WriteFails, TypeOK, PlaceOK, Handling, Accepted, Goto, Fail, stored, memory
<1>10. ASSUME NEW r \in Reqs, WriteEnds(r) PROVE PlaceOK(x)'
  BY <1>10, <1>a, <1>b, <1>c, <1>d
     DEF WriteEnds, TypeOK, PlaceOK, Handling, Accepted, Goto, stored, memory
<1>11. ASSUME NEW r \in Reqs, GetOrCreate(r) PROVE PlaceOK(x)'
  BY <1>11, <1>a, <1>b, <1>c, <1>d
     DEF GetOrCreate, TypeOK, PlaceOK, Handling, Accepted, Goto, stored
<1>12. ASSUME NEW r \in Reqs, Enqueue(r) PROVE PlaceOK(x)'
  BY <1>12, <1>a, <1>b, <1>c, <1>d
     DEF Enqueue, TypeOK, PlaceOK, Handling, Accepted, Goto, stored
<1>13. ASSUME NEW r \in Reqs, Begin(r) PROVE PlaceOK(x)'
  <2>1. pc[r] = "queued" /\ pc' = [pc EXCEPT ![r] = "running"]
    BY <1>13, BeginFacts
  <2>2. UNCHANGED <<made, sessions, workDir>>
    BY <1>13 DEF Begin, stored
  <2> QED BY <1>a, <1>b, <1>c, <1>d, <2>1, <2>2 DEF TypeOK, PlaceOK, Handling, Accepted
<1>14. ASSUME NEW r \in Reqs, NEW f \in Files, CommandWrites(r, f) PROVE PlaceOK(x)'
  BY <1>14, <1>a, <1>b, <1>c, <1>d
     DEF CommandWrites, TypeOK, PlaceOK, Handling, Accepted, memory
<1>15. ASSUME NEW r \in Reqs, NEW f \in Files, CommandRemoves(r, f) PROVE PlaceOK(x)'
  BY <1>15, <1>a, <1>b, <1>c, <1>d
     DEF CommandRemoves, TypeOK, PlaceOK, Handling, Accepted, memory
<1>16. ASSUME NEW r \in Reqs, NEW d \in Dirs, CommandRemovesDir(r, d) PROVE PlaceOK(x)'
  BY <1>16, <1>a, <1>b, <1>c, <1>d
     DEF CommandRemovesDir, TypeOK, PlaceOK, Handling, Accepted, memory
<1>17. ASSUME NEW r \in Reqs, CommandEnds(r) PROVE PlaceOK(x)'
  BY <1>17, <1>a, <1>b, <1>c, <1>d
     DEF CommandEnds, TypeOK, PlaceOK, Handling, Accepted, stored, memory
<1>18. ASSUME NEW r \in Reqs, Finish(r) PROVE PlaceOK(x)'
  BY <1>18, <1>a, <1>b, <1>c, <1>d
     DEF Finish, TypeOK, PlaceOK, Handling, Accepted, Goto, stored, memory
<1>19. ASSUME NEW r \in Reqs, Killed(r) PROVE PlaceOK(x)'
  BY <1>19, <1>a, <1>b, <1>c, <1>d
     DEF Killed, TypeOK, PlaceOK, Handling, Accepted, Goto, stored, memory
<1>20. CASE Restart
  BY <1>20, <1>a, <1>b, <1>c, <1>d DEF Restart, TypeOK, PlaceOK, Handling, Accepted, stored
<1>21. CASE UNCHANGED vars
  BY <1>21, <1>a, <1>b, <1>c, <1>d DEF vars, TypeOK, PlaceOK, Handling, Accepted
<1> QED BY <1>1, <1>2, <1>3, <1>4, <1>5, <1>6, <1>7, <1>8, <1>9, <1>10, <1>11, <1>12,
           <1>13, <1>14, <1>15, <1>16, <1>17, <1>18, <1>19, <1>20, <1>21
        DEF Next, Handle, Job, Command

\* A request that overlaps another does so for ever.
LEMMA OverlapsKept ==
  ASSUME TypeOK, SidInv, [Next]_vars, NEW q \in Reqs, NEW r \in Reqs, NEW f,
         pc[r] # "new", sid[r] # None
  PROVE  /\ Removes(q, r, f) => Removes(q, r, f)'
         /\ Overlaps(q, r, f) => Overlaps(q, r, f)'
<1>1. Removes(q, r, f) => Removes(q, r, f)'
  BY KeptFacts, LingersKept DEF Removes
<1>2. CASE q # r /\ sid[q] = sid[r] /\ f \in req[q].files /\ q \notin before[r]
  <2>1. sid'[q] = sid[q] /\ sid'[r] = sid[r] /\ req' = req /\ before'[r] = before[r]
    BY <1>2, KeptFacts
  <2> QED BY <1>1, <1>2, <2>1 DEF Overlaps
<1> QED BY <1>1, <1>2 DEF Overlaps

\* What holds of an opened file goes on to hold when a step leaves it alone.
LEMMA FileKept ==
  ASSUME TypeOK, SidInv, [Next]_vars, NEW r \in Reqs, NEW f \in req[r].files,
         sid[r] \in SessionIDs, pc[r] # "new", FileOK(r, f),
         disk'[sid[r]][f] = disk[sid[r]][f], open'[r] = f <=> open[r] = f
  PROVE  FileOK(r, f)'
<1>1. f \in Files /\ sid[r] # None /\ sid'[r] = sid[r] /\ Absent' = Absent
  BY KeptFacts, RequestFacts, Assumptions DEF Absent
<1>2. \A q \in Reqs : /\ Removes(q, r, f) => Removes(q, r, f)'
                      /\ Overlaps(q, r, f) => Overlaps(q, r, f)'
  BY <1>1, OverlapsKept
<1>3. disk[sid[r]][f] # Absent => disk[sid[r]][f] \in SUBSET Reqs
  BY <1>1, ContentFacts
<1> QED BY <1>1, <1>2, <1>3 DEF FileOK

\* A request that writes overlaps those that are past their arrival, and so does one whose
\* command runs.
LEMMA OverlapFacts ==
  ASSUME TypeOK, PastInv, NEW q \in Reqs, NEW r \in Reqs, NEW f, q # r, sid[q] = sid[r],
         \/ pc[q] = "write" /\ f \in req[q].files
         \/ q \in alive /\ f \in req[q].touches
  PROVE  Overlaps(q, r, f)
<1>1. CASE pc[q] = "write" /\ f \in req[q].files
  BY <1>1 DEF PastInv, Overlaps, Ended, Accepted
<1>2. CASE q \in alive /\ f \in req[q].touches
  BY <1>2, LingersFacts DEF Overlaps, Removes
<1> QED BY <1>1, <1>2

\* A step that puts a content of q, and what was there, in a file that r has opened.
LEMMA FileMixed ==
  ASSUME TypeOK, SidInv, PastInv, [Next]_vars,
         NEW r \in Reqs, NEW f \in req[r].files, sid[r] \in SessionIDs, pc[r] # "new",
         FileOK(r, f), open'[r] = open[r],
         NEW q \in Reqs, q # r, sid[q] = sid[r],
         \/ pc[q] = "write" /\ f \in req[q].files
         \/ q \in alive /\ f \in req[q].touches,
         disk'[sid[r]][f] \in SUBSET Reqs,
         disk'[sid[r]][f] \subseteq disk[sid[r]][f] \cup {q}
  PROVE  FileOK(r, f)'
<1>1. f \in Files /\ sid[r] # None /\ sid'[r] = sid[r]
  BY KeptFacts, RequestFacts, Assumptions
<1>2. disk'[sid[r]][f] # Absent /\ Absent' = Absent
  BY Assumptions DEF Absent
<1>3. Overlaps(q, r, f)'
  BY <1>1, OverlapFacts, OverlapsKept
<1>4. \A p \in disk'[sid[r]][f] \ {r} : Overlaps(p, r, f)'
  <2> SUFFICES ASSUME NEW p \in disk'[sid[r]][f] \ {r} PROVE Overlaps(p, r, f)'
    OBVIOUS
  <2>1. CASE p = q
    BY <1>3, <2>1
  <2>2. CASE p # q
    <3>1. p \in Reqs /\ p \in disk[sid[r]][f] \ {r} /\ disk[sid[r]][f] # Absent
      BY <2>2, Assumptions DEF Absent
    <3>2. Overlaps(p, r, f)
      BY <3>1 DEF FileOK
    <3> QED BY <1>1, <3>1, <3>2, OverlapsKept
  <2> QED BY <2>1, <2>2
<1> QED BY <1>1, <1>2, <1>3, <1>4 DEF FileOK

\* Each step keeps what is in the files that were opened.
LEMMA FileStep ==
  ASSUME TypeOK, SidInv, OpenInv, QueueInv, AliveInv, PastInv, FileInv, [Next]_vars
  PROVE  FileInv'
<1> SUFFICES ASSUME NEW x \in Reqs, NEW g \in req'[x].files, Opened(x, g)'
             PROVE  FileOK(x, g)'
  BY DEF FileInv
<1>a. g \in req[x].files /\ g \in Files /\ req' = req
  BY KeptFacts, RequestFacts
<1>b. Opened(x, g) =>
        sid[x] \in SessionIDs /\ pc[x] # "new" /\ FileOK(x, g) /\ sid'[x] = sid[x]
  BY <1>a, KeptFacts, Assumptions
     DEF FileInv, Opened, Untouched, SidInv, Handling, Accepted
<1>c. Opened(x, g) /\ disk'[sid[x]][g] = disk[sid[x]][g] /\ (open'[x] = g <=> open[x] = g)
        => FileOK(x, g)'
  BY <1>a, <1>b, FileKept
<1>1. ASSUME NEW r \in Reqs,
             Arrive(r) \/ ChooseSession(r) \/ MakeBase(r) \/ MakeCwd(r) \/ MakeFails(r)
      PROVE  FileOK(x, g)'
  <2>1. Opened(x, g) /\ UNCHANGED <<disk, open>>
    BY <1>1, <1>a
       DEF Arrive, ChooseSession, MakeBase, MakeCwd, MakeFails, Fail, Goto, Opened,
           Untouched, TypeOK, stored
  <2> QED BY <2>1, <1>c
<1>2. ASSUME NEW r \in Reqs, DetectWorkDir(r) PROVE FileOK(x, g)'
  <2>1. Opened(x, g) /\ UNCHANGED <<disk, open>>
    BY <1>2, <1>a DEF DetectWorkDir, Goto, Opened, Untouched, TypeOK, stored
  <2> QED BY <2>1, <1>c
<1>3. ASSUME NEW r \in Reqs, NEW f \in Files, OpenFile(r, f) PROVE FileOK(x, g)'
  <2>1. /\ pc[r] = "write" /\ f \in left[r] /\ f \in req[r].files /\ sid[r] \in SessionIDs
        /\ sid' = sid /\ open' = [open EXCEPT ![r] = f] /\ left' = [left EXCEPT ![r] = @ \ {f}]
        /\ pc' = pc /\ open[r] = None
    BY <1>3 DEF OpenFile, OpenInv, SidInv, Handling
  <2>2. {} \in SUBSET Reqs /\ {} # Absent /\ Absent' = Absent
    BY DEF Absent
  <2>3. /\ disk'[sid[r]][f] = {}
        /\ \A t \in SessionIDs, h \in Files : t # sid[r] \/ h # f => disk'[t][h] = disk[t][h]
    <3>1. disk' = [disk EXCEPT ![sid[r]][f] = {}] /\ {} \in (SUBSET Reqs) \cup {Absent}
      BY <1>3 DEF OpenFile
    <3>2. disk \in [SessionIDs -> [Files -> (SUBSET Reqs) \cup {Absent}]]
      BY DEF TypeOK
    <3> QED BY <2>1, <3>1, <3>2
  <2>4. CASE x = r /\ g = f
    BY <2>1, <2>2, <2>3, <2>4 DEF FileOK, TypeOK
  <2>5. CASE x = r /\ g # f
    <3>1. Opened(x, g)
      BY <2>1, <2>5 DEF Opened, Untouched, TypeOK
    <3> QED BY <1>a, <1>b, <1>c, <2>1, <2>3, <2>5, <3>1, Assumptions DEF TypeOK
  <2>6. CASE x # r
    <3>1. Opened(x, g) /\ open'[x] = open[x]
      BY <1>a, <2>1, <2>6 DEF Opened, Untouched, TypeOK
    <3>2. CASE sid[x] = sid[r] /\ g = f
      BY <1>a, <1>b, <2>1, <2>3, <2>6, <3>1, <3>2, FileMixed
    <3>3. CASE ~(sid[x] = sid[r] /\ g = f)
      BY <1>a, <1>b, <1>c, <2>3, <3>1, <3>3
    <3> QED BY <3>2, <3>3
  <2> QED BY <2>4, <2>5, <2>6
<1>4. ASSUME NEW r \in Reqs, WriteContent(r) PROVE FileOK(x, g)'
  <2>0. PICK f \in Files : f = open[r]
    BY <1>4, RequestFacts DEF WriteContent, OpenInv
  <2>1. /\ pc[r] = "write" /\ f \in req[r].files /\ f \notin left[r]
        /\ open' = [open EXCEPT ![r] = None] /\ UNCHANGED <<pc, sid, left>>
    BY <1>4, <2>0 DEF WriteContent, OpenInv
  <2>2. sid[r] \in SessionIDs /\ FileOK(r, f)
    BY <2>1 DEF SidInv, Handling, FileInv, Opened
  <2>3. disk[sid[r]][f] \in SUBSET Reqs
    BY <2>0, <2>1, <2>2, ContentFacts DEF FileOK
  <2>4. PICK rest \in {{}, disk[sid[r]][f]} :
          disk' = [disk EXCEPT ![sid[r]][f] = rest \cup {r}]
    BY <1>4, <2>0 DEF WriteContent
  <2>5. rest \subseteq disk[sid[r]][f] /\ rest \cup {r} \in SUBSET Reqs
    BY <2>3, <2>4
  <2>6. /\ disk'[sid[r]][f] = rest \cup {r}
        /\ \A t \in SessionIDs, h \in Files : t # sid[r] \/ h # f => disk'[t][h] = disk[t][h]
    <3>1. rest \cup {r} \in (SUBSET Reqs) \cup {Absent}
      BY <2>5
    <3>2. disk \in [SessionIDs -> [Files -> (SUBSET Reqs) \cup {Absent}]]
      BY DEF TypeOK
    <3> QED BY <2>1, <2>2, <2>4, <3>1, <3>2
  <2>7. Opened(x, g)
    BY <1>a, <2>1 DEF Opened, Untouched
  <2>8. CASE x = r /\ g = f
    <3>1. ASSUME NEW q \in rest \ {r} PROVE q \in Reqs /\ Overlaps(q, r, f)'
      <4>1. q \in Reqs /\ Overlaps(q, r, f)
        BY <2>2, <2>3, <2>5, ContentFacts DEF FileOK
      <4>2. pc[r] # "new" /\ sid[r] # None
        BY <2>1, <2>2, Assumptions
      <4> QED BY <4>1, <4>2, OverlapsKept
    <3>2. rest \cup {r} # Absent /\ Absent' = Absent
      BY Assumptions DEF Absent
    <3>3. /\ disk'[sid'[r]][f] # Absent'
          /\ \A q \in disk'[sid'[r]][f] \ {r} : Overlaps(q, r, f)'
      BY <2>1, <2>6, <3>1, <3>2
    <3>4. disk'[sid'[r]][f] # {r} => \E q \in Reqs : Overlaps(q, r, f)'
      <4> SUFFICES ASSUME rest \cup {r} # {r} PROVE \E q \in Reqs : Overlaps(q, r, f)'
        BY <2>1, <2>6
      <4>1. PICK q \in rest : q # r
        OBVIOUS
      <4> QED BY <3>1, <4>1
    <3> QED BY <2>8, <3>3, <3>4 DEF FileOK
  <2>9. CASE sid[x] = sid[r] /\ x # r /\ g = f
    <3>1. open'[x] = open[x] /\ disk'[sid[x]][g] \in SUBSET Reqs
          /\ disk'[sid[x]][g] \subseteq disk[sid[x]][g] \cup {r}
      BY <2>1, <2>5, <2>6, <2>9 DEF TypeOK
    <3> QED BY <1>a, <1>b, <2>1, <2>7, <2>9, <3>1, FileMixed
  <2>10. CASE ~(sid[x] = sid[r] /\ g = f)
    <3>1. open'[x] = g <=> open[x] = g
      BY <1>a, <2>0, <2>1, <2>10, Assumptions DEF TypeOK
    <3> QED BY <1>a, <1>b, <1>c, <2>6, <2>7, <2>10, <3>1
  <2> QED BY <2>8, <2>9, <2>10
<1>5. ASSUME NEW r \in Reqs, WriteFails(r) PROVE FileOK(x, g)'
  <2>1. x # r /\ Opened(x, g) /\ open'[x] = open[x] /\ disk' = disk
    BY <1>5, <1>a DEF WriteFails, Fail, Goto, Opened, Untouched, TypeOK, stored
  <2> QED BY <2>1, <1>c
<1>6. ASSUME NEW r \in Reqs, 
             WriteEnds(r) \/ GetOrCreate(r) \/ Enqueue(r) \/ Finish(r) \/ Killed(r)
             \/ CommandEnds(r) \/ \E d \in Dirs : CommandRemovesDir(r, d)
      PROVE  FileOK(x, g)'
  <2>1. Opened(x, g) /\ UNCHANGED <<disk, open>>
    BY <1>6, <1>a
       DEF WriteEnds, GetOrCreate, Enqueue, Finish, Killed, CommandEnds, CommandRemovesDir,
           Goto, Opened, Untouched, TypeOK, stored
  <2> QED BY <2>1, <1>c
<1>7. ASSUME NEW r \in Reqs, Begin(r) PROVE FileOK(x, g)'
  <2>1. pc[r] = "queued" /\ pc' = [pc EXCEPT ![r] = "running"]
    BY <1>7, BeginFacts
  <2>2. UNCHANGED <<disk, open, left>>
    BY <1>7 DEF Begin, stored
  <2>3. Opened(x, g)
    BY <1>a, <2>1, <2>2 DEF Opened, Untouched, TypeOK
  <2> QED BY <2>2, <2>3, <1>c
<1>8. ASSUME NEW r \in Reqs, NEW f \in Files, CommandWrites(r, f) PROVE FileOK(x, g)'
  <2>1. /\ r \in alive /\ f \in req[r].touches /\ sid[r] \in SessionIDs
        /\ UNCHANGED <<pc, sid, open, left>>
    BY <1>8, AliveFacts DEF CommandWrites
  <2>2. /\ disk'[sid[r]][f] = {r}
        /\ \A t \in SessionIDs, h \in Files : t # sid[r] \/ h # f => disk'[t][h] = disk[t][h]
    <3>1. disk' = [disk EXCEPT ![sid[r]][f] = {r}] /\ {r} \in (SUBSET Reqs) \cup {Absent}
      BY <1>8 DEF CommandWrites
    <3>2. disk \in [SessionIDs -> [Files -> (SUBSET Reqs) \cup {Absent}]]
      BY DEF TypeOK
    <3> QED BY <2>1, <3>1, <3>2
  <2>3. Opened(x, g)
    BY <2>1, <1>a DEF Opened, Untouched
  <2>4. ~(x = r /\ g = f)
    BY <2>1, <2>3 DEF Opened, Untouched, AliveInv
  <2>5. CASE sid[x] = sid[r] /\ x # r /\ g = f
    BY <1>a, <1>b, <2>1, <2>2, <2>3, <2>5, FileMixed
  <2>6. CASE ~(sid[x] = sid[r] /\ g = f)
    BY <1>a, <1>b, <1>c, <2>1, <2>2, <2>3, <2>6
  <2> QED BY <2>4, <2>5, <2>6
<1>9. ASSUME NEW r \in Reqs, NEW f \in Files, CommandRemoves(r, f) PROVE FileOK(x, g)'
  <2>1. /\ r \in alive /\ f \in req[r].touches /\ sid[r] \in SessionIDs
        /\ UNCHANGED <<pc, sid, left>>
        /\ open' = [q \in Reqs |-> IF open[q] = f /\ sid[q] = sid[r] THEN None ELSE open[q]]
    BY <1>9, AliveFacts DEF CommandRemoves
  <2>2. /\ disk'[sid[r]][f] = Absent
        /\ \A t \in SessionIDs, h \in Files : t # sid[r] \/ h # f => disk'[t][h] = disk[t][h]
    <3>1. disk' = [disk EXCEPT ![sid[r]][f] = Absent]
      BY <1>9 DEF CommandRemoves
    <3>2. disk \in [SessionIDs -> [Files -> (SUBSET Reqs) \cup {Absent}]]
      BY DEF TypeOK
    <3> QED BY <2>1, <3>1, <3>2
  <2>3. Opened(x, g)
    BY <2>1, <1>a DEF Opened, Untouched
  <2>4. ~(x = r /\ g = f)
    BY <2>1, <2>3 DEF Opened, Untouched, AliveInv
  <2>5. CASE sid[x] = sid[r] /\ x # r /\ g = f
    <3>1. Removes(r, x, g)'
      BY <1>b, <2>1, <2>3, <2>5, LingersFacts, OverlapsKept, Assumptions DEF Removes
    <3>2. open'[x] # g
      BY <1>a, <2>1, <2>5, Assumptions
    <3>3. Absent' = Absent
      BY DEF Absent
    <3> QED BY <1>b, <2>2, <2>3, <2>5, <3>1, <3>2, <3>3 DEF FileOK
  <2>6. CASE ~(sid[x] = sid[r] /\ g = f)
    <3>1. open'[x] = g <=> open[x] = g
      BY <1>a, <2>1, <2>6, Assumptions
    <3> QED BY <1>a, <1>b, <1>c, <2>1, <2>2, <2>3, <2>6, <3>1
  <2> QED BY <2>4, <2>5, <2>6
<1>10. ~Restart
  <2> SUFFICES ASSUME Restart PROVE FALSE
    OBVIOUS
  <2>1. pc'[x] \notin {"create", "enqueue", "write", "queued", "running"}
    BY DEF Restart, Handling
  <2> QED BY <2>1 DEF Opened, Untouched
<1>11. CASE UNCHANGED vars
  <2>1. Opened(x, g) /\ UNCHANGED <<disk, open>>
    BY <1>11 DEF vars, Opened, Untouched
  <2> QED BY <2>1, <1>c
<1> QED BY <1>1, <1>2, <1>3, <1>4, <1>5, <1>6, <1>7, <1>8, <1>9, <1>10, <1>11
        DEF Next, Handle, Job, Command

\* Each step keeps the sessions of clients with cookies.
LEMMA KeptStep ==
  ASSUME TypeOK, SidInv, OpenInv, QueueInv, PlaceInv, PastInv, SessionKept, [Next]_vars
  PROVE  SessionKept'
<1> SUFFICES ASSUME NEW r \in Reqs, NEW q \in Reqs,
                    q \in before'[r], pc'[q] \in Accepted,
                    cookie'[r] = sid'[q], req'[r].header = None, sid'[r] # None
             PROVE  sid'[r] = sid'[q]
  BY DEF SessionKept
<1>1. pc[r] # "new"
  <2>1. ASSUME pc[r] = "new" PROVE sid'[r] = None
    <3>1. sid[r] = None
      BY <2>1 DEF SidInv
    <3>2. ASSUME NEW x \in Reqs, ChooseSession(x) PROVE sid'[r] = sid[r]
      BY <2>1, <3>2 DEF ChooseSession, TypeOK
    <3> QED BY <3>1, <3>2, SidFrame
  <2> QED BY <2>1
<1>2. q \in before[r] /\ cookie'[r] = cookie[r] /\ req' = req
  BY <1>1, KeptFacts
<1>3. pc[q] \in Accepted
  <2>1. pc[q] \in Ended
    BY <1>2 DEF PastInv
  <2>2. ASSUME NEW x \in Reqs, Begin(x) PROVE pc[q] \in Accepted
    BY <2>2, BeginFacts DEF Accepted, TypeOK
  <2>3. ASSUME NEW x \in Reqs, Handle(x) PROVE pc[q] \in Accepted
    <3>1. \/ pc[x] \notin Ended /\ \E p : pc' = [pc EXCEPT ![x] = p]
          \/ pc' = pc
      <4>1. open[x] = None \/ pc[x] = "write"
        BY DEF OpenInv
      <4> QED BY <2>3, <4>1
              DEF Handle, Arrive, ChooseSession, MakeBase, MakeCwd, MakeFails, DetectWorkDir,
                  OpenFile, WriteContent, WriteFails, WriteEnds, GetOrCreate, Enqueue, Fail,
                  Goto, Ended, Accepted
    <3> QED BY <2>1, <3>1 DEF TypeOK
  <2>4. ASSUME NEW x \in Reqs, Finish(x) \/ Killed(x) \/ Command(x)
        PROVE  pc[q] \in Accepted
    BY <2>4 DEF Finish, Killed, Command, CommandWrites, CommandRemoves, CommandRemovesDir,
                CommandEnds, Goto, Accepted, TypeOK
  <2>5. CASE Restart \/ UNCHANGED vars
    BY <2>1, <2>5 DEF Restart, vars, Ended, Accepted, Handling, TypeOK
  <2> QED BY <2>2, <2>3, <2>4, <2>5 DEF Next, Job
<1>4. sid[q] \in SessionIDs /\ sid'[q] = sid[q] /\ Root \in made[sid[q]]
  BY <1>3, KeptFacts, Assumptions DEF SidInv, PlaceInv, PlaceOK, Handling, Accepted
<1>5. CASE sid[r] # None
  <2>1. sid'[r] = sid[r]
    BY <1>5, KeptFacts
  <2> QED BY <1>2, <1>3, <1>4, <1>5, <2>1 DEF SessionKept
<1>6. CASE sid[r] = None
  <2>1. PICK x \in Reqs : ChooseSession(x)
    BY <1>6, SidFrame
  <2>2. sid'[r] = Choice(r)
    BY <1>6, <2>1 DEF ChooseSession, TypeOK
  <2>3. cookie[r] = sid[q] /\ req[r].header = None /\ cookie[r] # None
        /\ Root \in made[cookie[r]]
    BY <1>2, <1>4, Assumptions
  <2>4. Choice(r) = cookie[r]
    BY <2>3 DEF Choice, Exists
  <2> QED BY <1>4, <2>2, <2>3, <2>4
<1> QED BY <1>5, <1>6

\* The invariant holds at the start.
LEMMA InitInv == Init => IInv
<1> SUFFICES ASSUME Init PROVE IInv
  OBVIOUS
<1> USE Assumptions
<1>1. TypeOK
  <2>1. <<>> \in Seq(Reqs) /\ Absent \in (SUBSET Reqs) \cup {Absent}
    OBVIOUS
  <2> QED BY <2>1 DEF Init, TypeOK
<1>2. SidInv /\ OpenInv /\ AliveInv /\ PlaceInv /\ PastInv /\ SessionKept
  BY DEF Init, SidInv, OpenInv, PlaceInv, PlaceOK, PastInv, SessionKept, AliveInv, Handling,
         Accepted
<1>3. QueueInv
  <2>1. Len(queue) = 0
    BY DEF Init
  <2> QED BY <2>1 DEF QueueInv
<1>4. FileInv
  BY DEF Init, FileInv, Opened, Untouched
<1> QED BY <1>1, <1>2, <1>3, <1>4 DEF IInv
-----------------------------------------------------------------------------
(* Theorems.                                                               *)

\* The invariant holds in every reachable state, across restarts too.
THEOREM Invariant == Spec => []IInv
<1>1. IInv /\ [Next]_vars => IInv'
  <2> SUFFICES ASSUME IInv, [Next]_vars PROVE IInv'
    OBVIOUS
  <2>1. PastInv'
    BY PastStep DEF IInv
  <2>2. TypeOK' /\ SidInv' /\ OpenInv' /\ QueueInv' /\ AliveInv' /\ PlaceInv' /\ FileInv'
    BY TypeStep, SidStep, OpenStep, QueueStep, AliveStep, PlaceStep, FileStep DEF IInv
  <2>3. SessionKept'
    BY KeptStep DEF IInv
  <2> QED BY <2>1, <2>2, <2>3 DEF IInv
<1> QED BY InitInv, <1>1, PTL DEF Spec

\* The variables of POST /run, its disk and its queue keep their types.
THEOREM TypeCorrect == Spec => []TypeOK
<1>1. IInv => TypeOK
  BY DEF IInv
<1> QED BY Invariant, <1>1, PTL

\* Until its own command changes it, a job finds in each file of its request what the
\* request wrote, but for what requests that overlap it do, and commands that had not ended
\* in the container when it was sent, those of killed jobs and of a crashed server included.
THEOREM NoStaleFileHolds == Spec => []NoStaleFile
<1>1. IInv => NoStaleFile
  <2> SUFFICES ASSUME IInv, NEW r \in Reqs, NEW f \in req[r].files, Untouched(r, f)
               PROVE  /\ disk[sid[r]][f] = Absent => \E q \in Reqs : Removes(q, r, f)
                      /\ disk[sid[r]][f] \notin {Absent, {r}} =>
                           /\ \A q \in disk[sid[r]][f] \ {r} : Overlaps(q, r, f)
                           /\ \E q \in Reqs : Overlaps(q, r, f)
    BY DEF NoStaleFile
  <2>1. FileOK(r, f)
    BY DEF IInv, FileInv, Opened
  <2>2. open[r] # f
    <3>1. pc[r] # "write" /\ f # None
      BY RequestFacts, Assumptions DEF IInv, Untouched
    <3> QED BY <3>1 DEF IInv, OpenInv
  <2> QED BY <2>1, <2>2 DEF FileOK
<1> QED BY Invariant, <1>1, PTL

\* A job that waits in the queue has its session and its workspace, and the directories and
\* files it needs there, but for what a command of another that had not ended removed.
THEOREM JobReadyHolds == Spec => []JobReady
<1>1. IInv => JobReady
  <2> SUFFICES ASSUME IInv, NEW r \in Reqs, pc[r] = "queued"
               PROVE  /\ sid[r] \in sessions /\ Root \in made[sid[r]]
                      /\ \A d \in {req[r].cwd, workDir[r]} \ made[sid[r]] :
                           \E q \in Reqs : Lingers(q, r) /\ d \in Emptied(q)
                      /\ \A f \in req[r].files :
                           ~Present(sid[r], f) => \E q \in Reqs : Removes(q, r, f)
    BY DEF JobReady
  <2>1. PlaceOK(r)
    BY DEF IInv, PlaceInv
  <2>2. ASSUME NEW f \in req[r].files, ~Present(sid[r], f)
        PROVE  \E q \in Reqs : Removes(q, r, f)
    <3>1. FileOK(r, f)
      BY DEF IInv, FileInv, Opened, Untouched
    <3> QED BY <2>2, <3>1 DEF FileOK, Present
  <2>3. sid[r] \in sessions /\ Root \in made[sid[r]]
    BY <2>1 DEF PlaceOK, Handling, Accepted
  <2>4. Kept(r, req[r].cwd) /\ Kept(r, workDir[r])
    BY <2>1 DEF PlaceOK
  <2> QED BY <2>2, <2>3, <2>4 DEF Kept
<1> QED BY Invariant, <1>1, PTL

\* A client keeps the session of its cookie once a request of it was accepted.
THEOREM SessionKeptHolds == Spec => []SessionKept
<1>1. IInv => SessionKept
  BY DEF IInv
<1> QED BY Invariant, <1>1, PTL
=============================================================================
