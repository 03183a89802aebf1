-------------------------- MODULE WorkerPoolProofs --------------------------
(***************************************************************************)
(* TLAPS proofs about WorkerPool, for every number of jobs, workers and    *)
(* kills, and every capacity of the channel.                               *)
(***************************************************************************)
EXTENDS WorkerPool, SequenceTheorems, TLAPS

\* Appending to a sequence, and taking its first element off.
LEMMA AppendFacts ==
  ASSUME NEW S, NEW s \in Seq(S), NEW e \in S
  PROVE  /\ Append(s, e) \in Seq(S)
         /\ Len(Append(s, e)) = Len(s) + 1
         /\ Append(s, e)[Len(s) + 1] = e
         /\ \A i \in 1..Len(s) : Append(s, e)[i] = s[i]
  OBVIOUS

LEMMA HeadFacts ==
  ASSUME NEW S, NEW s \in Seq(S), s # <<>>
  PROVE  /\ Head(s) \in S /\ Head(s) = s[1] /\ Tail(s) \in Seq(S)
         /\ Len(s) \in Nat \ {0} /\ Len(Tail(s)) = Len(s) - 1
         /\ \A i \in 1..(Len(s) - 1) : Tail(s)[i] = s[i + 1]
  BY HeadTailProperties, EmptySeq

\* A worker inside the loop's body holds a job.
LEMMA HeldFacts ==
  ASSUME TypeOK, HoldInv, NEW w \in Workers,
         workerPc[w] \in {"store", "exec", "cancel", "delete"}
  PROVE  job[w] \in JobIDs
  BY DEF TypeOK, HoldInv

LEMMA InitInv == Init => IInv
<1> SUFFICES ASSUME Init PROVE IInv
  OBVIOUS
<1> USE Assumptions
<1>1. TypeOK
  <2>1. <<>> \in Seq(JobIDs) /\ Len(<<>>) = 0
    OBVIOUS
  <2>2. jobs \in Seq(JobIDs) /\ Len(jobs) <= Cap
    BY <2>1 DEF Init
  <2> QED
    BY <2>2 DEF Init, TypeOK
<1>2. JobInOnePlace
  <2>1. \A j \in JobIDs : ~Queued(j) /\ ~Running(j)
    BY DEF Init, Queued, Running, Executing
  <2> QED
    BY <2>1 DEF Init, JobInOnePlace, NoDuplicate, OneHolder, Accounted
<1>3. HoldInv /\ KillInv /\ Killable /\ NoStaleCancel /\ ExitInv
  BY DEF Init, HoldInv, KillInv, Killable, NoStaleCancel, ExitInv
<1> QED
  BY <1>1, <1>2, <1>3 DEF IInv

LEMMA TypeStep ==
  ASSUME TypeOK, HoldInv, [Next]_vars
  PROVE  TypeOK'
<1> USE Assumptions
<1>1. ASSUME NEW j \in JobIDs, Submit(j)
      PROVE  TypeOK'
  BY <1>1, HeldFacts DEF Submit, callers, channel, contexts, TypeOK
<1>2. ASSUME NEW j \in JobIDs, Enqueue(j)
      PROVE  TypeOK'
  BY <1>2, HeldFacts DEF Enqueue, callers, channel, contexts, TypeOK
<1>3. ASSUME NEW j \in JobIDs, EnqueuePanic(j)
      PROVE  TypeOK'
  BY <1>3, HeldFacts DEF EnqueuePanic, callers, channel, contexts, TypeOK
<1>4. ASSUME NEW w \in Workers, Receive(w)
      PROVE  TypeOK'
  BY <1>4, HeldFacts DEF Receive, callers, channel, contexts, TypeOK
<1>5. ASSUME NEW w \in Workers, Exit(w)
      PROVE  TypeOK'
  BY <1>5, HeldFacts DEF Exit, callers, channel, contexts, TypeOK
<1>6. ASSUME NEW w \in Workers, Store(w)
      PROVE  TypeOK'
  BY <1>6, HeldFacts DEF Store, callers, channel, contexts, TypeOK
<1>7. ASSUME NEW w \in Workers, ExecuteReturns(w)
      PROVE  TypeOK'
  BY <1>7, HeldFacts DEF ExecuteReturns, callers, channel, contexts, TypeOK
<1>8. ASSUME NEW w \in Workers, Cancel(w)
      PROVE  TypeOK'
  BY <1>8, HeldFacts DEF Cancel, callers, channel, contexts, TypeOK
<1>9. ASSUME NEW w \in Workers, Delete(w)
      PROVE  TypeOK'
  BY <1>9, HeldFacts DEF Delete, callers, channel, contexts, TypeOK
<1>10. ASSUME NEW k \in Killers, KillLoad(k)
       PROVE  TypeOK'
  BY <1>10, HeldFacts DEF KillLoad, callers, channel, contexts, TypeOK
<1>11. ASSUME NEW k \in Killers, KillCancel(k)
       PROVE  TypeOK'
  BY <1>11, HeldFacts DEF KillCancel, callers, channel, contexts, TypeOK
<1>12. ASSUME NEW k \in Killers, KillDelete(k)
       PROVE  TypeOK'
  BY <1>12, HeldFacts DEF KillDelete, callers, channel, contexts, TypeOK
<1>13. CASE StopClose
  BY <1>13, HeldFacts DEF StopClose, callers, channel, contexts, TypeOK
<1>14. CASE StopReturn
  BY <1>14, HeldFacts DEF StopReturn, callers, channel, contexts, TypeOK
<1>15. CASE UNCHANGED vars
  BY <1>15 DEF vars, TypeOK
<1> QED
  BY <1>1, <1>2, <1>3, <1>4, <1>5, <1>6, <1>7, <1>8, <1>9, <1>10, <1>11, <1>12, <1>13,
     <1>14, <1>15
     DEF Next, Handler, Worker, Kill

LEMMA HoldStep ==
  ASSUME TypeOK, TypeOK', JobInOnePlace, HoldInv, [Next]_vars
  PROVE  HoldInv'
<1> USE Assumptions
<1>1. ASSUME NEW j \in JobIDs, Submit(j)
      PROVE  HoldInv'
  BY <1>1 DEF Submit, callers, channel, contexts, HoldInv, TypeOK
<1>2. ASSUME NEW j \in JobIDs, Enqueue(j)
      PROVE  HoldInv'
  BY <1>2 DEF Enqueue, callers, channel, contexts, HoldInv, TypeOK
<1>3. ASSUME NEW j \in JobIDs, EnqueuePanic(j)
      PROVE  HoldInv'
  BY <1>3 DEF EnqueuePanic, callers, channel, contexts, HoldInv, TypeOK
<1>4. ASSUME NEW w \in Workers, Receive(w)
      PROVE  HoldInv'
  BY <1>4 DEF Receive, callers, channel, contexts, HoldInv, TypeOK
<1>5. ASSUME NEW w \in Workers, Exit(w)
      PROVE  HoldInv'
  BY <1>5 DEF Exit, callers, channel, contexts, HoldInv, TypeOK
<1>6. ASSUME NEW w \in Workers, Store(w)
      PROVE  HoldInv'
  BY <1>6 DEF Store, callers, channel, contexts, HoldInv, TypeOK
<1>7. ASSUME NEW w \in Workers, ExecuteReturns(w)
      PROVE  HoldInv'
  <2>1. job[w] \in JobIDs /\ executed[job[w]] = 0
    BY <1>7, HeldFacts DEF ExecuteReturns, JobInOnePlace, Accounted, Running, Executing
  <2>2. \A v \in Workers : v # w /\ job[v] # NoJob => job[v] # job[w]
    BY DEF JobInOnePlace, OneHolder
  <2>3. executed'[job[w]] = 1 /\ \A j \in JobIDs \ {job[w]} : executed'[j] = executed[j]
    BY <1>7, <2>1 DEF ExecuteReturns, TypeOK
  <2> QED
    BY <1>7, <2>1, <2>2, <2>3 DEF ExecuteReturns, HoldInv, TypeOK
<1>8. ASSUME NEW w \in Workers, Cancel(w)
      PROVE  HoldInv'
  BY <1>8 DEF Cancel, callers, channel, contexts, HoldInv, TypeOK
<1>9. ASSUME NEW w \in Workers, Delete(w)
      PROVE  HoldInv'
  BY <1>9 DEF Delete, callers, channel, contexts, HoldInv, TypeOK
<1>10. ASSUME NEW k \in Killers, KillLoad(k)
       PROVE  HoldInv'
  BY <1>10 DEF KillLoad, callers, channel, contexts, HoldInv, TypeOK
<1>11. ASSUME NEW k \in Killers, KillCancel(k)
       PROVE  HoldInv'
  BY <1>11 DEF KillCancel, callers, channel, contexts, HoldInv, TypeOK
<1>12. ASSUME NEW k \in Killers, KillDelete(k)
       PROVE  HoldInv'
  BY <1>12 DEF KillDelete, callers, channel, contexts, HoldInv, TypeOK
<1>13. CASE StopClose
  BY <1>13 DEF StopClose, callers, channel, contexts, HoldInv, TypeOK
<1>14. CASE StopReturn
  BY <1>14 DEF StopReturn, callers, channel, contexts, HoldInv, TypeOK
<1>15. CASE UNCHANGED vars
  BY <1>15 DEF vars, HoldInv, TypeOK
<1> QED
  BY <1>1, <1>2, <1>3, <1>4, <1>5, <1>6, <1>7, <1>8, <1>9, <1>10, <1>11, <1>12, <1>13,
     <1>14, <1>15
     DEF Next, Handler, Worker, Kill

LEMMA KillStep ==
  ASSUME TypeOK, KillInv, [Next]_vars
  PROVE  KillInv'
<1> USE Assumptions
<1>1. ASSUME NEW j \in JobIDs, Submit(j)
      PROVE  KillInv'
  BY <1>1 DEF Submit, callers, channel, contexts, KillInv, TypeOK
<1>2. ASSUME NEW j \in JobIDs, Enqueue(j)
      PROVE  KillInv'
  BY <1>2 DEF Enqueue, callers, channel, contexts, KillInv, TypeOK
<1>3. ASSUME NEW j \in JobIDs, EnqueuePanic(j)
      PROVE  KillInv'
  BY <1>3 DEF EnqueuePanic, callers, channel, contexts, KillInv, TypeOK
<1>4. ASSUME NEW w \in Workers, Receive(w)
      PROVE  KillInv'
  BY <1>4 DEF Receive, callers, channel, contexts, KillInv, TypeOK
<1>5. ASSUME NEW w \in Workers, Exit(w)
      PROVE  KillInv'
  BY <1>5 DEF Exit, callers, channel, contexts, KillInv, TypeOK
<1>6. ASSUME NEW w \in Workers, Store(w)
      PROVE  KillInv'
  BY <1>6 DEF Store, callers, channel, contexts, KillInv, TypeOK
<1>7. ASSUME NEW w \in Workers, ExecuteReturns(w)
      PROVE  KillInv'
  BY <1>7 DEF ExecuteReturns, callers, channel, contexts, KillInv, TypeOK
<1>8. ASSUME NEW w \in Workers, Cancel(w)
      PROVE  KillInv'
  BY <1>8 DEF Cancel, callers, channel, contexts, KillInv, TypeOK
<1>9. ASSUME NEW w \in Workers, Delete(w)
      PROVE  KillInv'
  BY <1>9 DEF Delete, callers, channel, contexts, KillInv, TypeOK
<1>10. ASSUME NEW k \in Killers, KillLoad(k)
       PROVE  KillInv'
  BY <1>10 DEF KillLoad, callers, channel, contexts, KillInv, TypeOK
<1>11. ASSUME NEW k \in Killers, KillCancel(k)
       PROVE  KillInv'
  BY <1>11 DEF KillCancel, callers, channel, contexts, KillInv, TypeOK
<1>12. ASSUME NEW k \in Killers, KillDelete(k)
       PROVE  KillInv'
  BY <1>12 DEF KillDelete, callers, channel, contexts, KillInv, TypeOK
<1>13. CASE StopClose
  BY <1>13 DEF StopClose, callers, channel, contexts, KillInv, TypeOK
<1>14. CASE StopReturn
  BY <1>14 DEF StopReturn, callers, channel, contexts, KillInv, TypeOK
<1>15. CASE UNCHANGED vars
  BY <1>15 DEF vars, KillInv, TypeOK
<1> QED
  BY <1>1, <1>2, <1>3, <1>4, <1>5, <1>6, <1>7, <1>8, <1>9, <1>10, <1>11, <1>12, <1>13,
     <1>14, <1>15
     DEF Next, Handler, Worker, Kill

LEMMA KillableStep ==
  ASSUME TypeOK, JobInOnePlace, HoldInv, KillInv, Killable, [Next]_vars
  PROVE  Killable'
<1> USE Assumptions
<1>1. ASSUME NEW j \in JobIDs, Submit(j)
      PROVE  Killable'
  BY <1>1
     DEF Submit, callers, channel, contexts, Killable, KillInv, HoldInv, TypeOK,
         JobInOnePlace, OneHolder
<1>2. ASSUME NEW j \in JobIDs, Enqueue(j)
      PROVE  Killable'
  BY <1>2
     DEF Enqueue, callers, channel, contexts, Killable, KillInv, HoldInv, TypeOK,
         JobInOnePlace, OneHolder
<1>3. ASSUME NEW j \in JobIDs, EnqueuePanic(j)
      PROVE  Killable'
  BY <1>3
     DEF EnqueuePanic, callers, channel, contexts, Killable, KillInv, HoldInv, TypeOK,
         JobInOnePlace, OneHolder
<1>4. ASSUME NEW w \in Workers, Receive(w)
      PROVE  Killable'
  BY <1>4
     DEF Receive, callers, channel, contexts, Killable, KillInv, HoldInv, TypeOK,
         JobInOnePlace, OneHolder
<1>5. ASSUME NEW w \in Workers, Exit(w)
      PROVE  Killable'
  BY <1>5
     DEF Exit, callers, channel, contexts, Killable, KillInv, HoldInv, TypeOK,
         JobInOnePlace, OneHolder
<1>6. ASSUME NEW w \in Workers, Store(w)
      PROVE  Killable'
  BY <1>6
     DEF Store, callers, channel, contexts, Killable, KillInv, HoldInv, TypeOK,
         JobInOnePlace, OneHolder
<1>7. ASSUME NEW w \in Workers, ExecuteReturns(w)
      PROVE  Killable'
  BY <1>7
     DEF ExecuteReturns, callers, channel, contexts, Killable, KillInv, HoldInv, TypeOK,
         JobInOnePlace, OneHolder
<1>8. ASSUME NEW w \in Workers, Cancel(w)
      PROVE  Killable'
  BY <1>8
     DEF Cancel, callers, channel, contexts, Killable, KillInv, HoldInv, TypeOK,
         JobInOnePlace, OneHolder
<1>9. ASSUME NEW w \in Workers, Delete(w)
      PROVE  Killable'
  BY <1>9
     DEF Delete, callers, channel, contexts, Killable, KillInv, HoldInv, TypeOK,
         JobInOnePlace, OneHolder
<1>10. ASSUME NEW k \in Killers, KillLoad(k)
       PROVE  Killable'
  BY <1>10
     DEF KillLoad, callers, channel, contexts, Killable, KillInv, HoldInv, TypeOK,
         JobInOnePlace, OneHolder
<1>11. ASSUME NEW k \in Killers, KillCancel(k)
       PROVE  Killable'
  BY <1>11
     DEF KillCancel, callers, channel, contexts, Killable, KillInv, HoldInv, TypeOK,
         JobInOnePlace, OneHolder
<1>12. ASSUME NEW k \in Killers, KillDelete(k)
       PROVE  Killable'
  BY <1>12
     DEF KillDelete, callers, channel, contexts, Killable, KillInv, HoldInv, TypeOK,
         JobInOnePlace, OneHolder
<1>13. CASE StopClose
  BY <1>13
     DEF StopClose, callers, channel, contexts, Killable, KillInv, HoldInv, TypeOK,
         JobInOnePlace, OneHolder
<1>14. CASE StopReturn
  BY <1>14
     DEF StopReturn, callers, channel, contexts, Killable, KillInv, HoldInv, TypeOK,
         JobInOnePlace, OneHolder
<1>15. CASE UNCHANGED vars
  BY <1>15 DEF vars, Killable, KillInv, HoldInv, TypeOK, JobInOnePlace, OneHolder
<1> QED
  BY <1>1, <1>2, <1>3, <1>4, <1>5, <1>6, <1>7, <1>8, <1>9, <1>10, <1>11, <1>12, <1>13,
     <1>14, <1>15
     DEF Next, Handler, Worker, Kill

LEMMA NoStaleStep ==
  ASSUME TypeOK, HoldInv, NoStaleCancel, [Next]_vars
  PROVE  NoStaleCancel'
<1> USE Assumptions
<1>1. ASSUME NEW j \in JobIDs, Submit(j)
      PROVE  NoStaleCancel'
  BY <1>1 DEF Submit, callers, channel, contexts, NoStaleCancel, HoldInv, TypeOK
<1>2. ASSUME NEW j \in JobIDs, Enqueue(j)
      PROVE  NoStaleCancel'
  BY <1>2 DEF Enqueue, callers, channel, contexts, NoStaleCancel, HoldInv, TypeOK
<1>3. ASSUME NEW j \in JobIDs, EnqueuePanic(j)
      PROVE  NoStaleCancel'
  BY <1>3 DEF EnqueuePanic, callers, channel, contexts, NoStaleCancel, HoldInv, TypeOK
<1>4. ASSUME NEW w \in Workers, Receive(w)
      PROVE  NoStaleCancel'
  BY <1>4 DEF Receive, callers, channel, contexts, NoStaleCancel, HoldInv, TypeOK
<1>5. ASSUME NEW w \in Workers, Exit(w)
      PROVE  NoStaleCancel'
  BY <1>5 DEF Exit, callers, channel, contexts, NoStaleCancel, HoldInv, TypeOK
<1>6. ASSUME NEW w \in Workers, Store(w)
      PROVE  NoStaleCancel'
  BY <1>6 DEF Store, callers, channel, contexts, NoStaleCancel, HoldInv, TypeOK
<1>7. ASSUME NEW w \in Workers, ExecuteReturns(w)
      PROVE  NoStaleCancel'
  BY <1>7 DEF ExecuteReturns, callers, channel, contexts, NoStaleCancel, HoldInv, TypeOK
<1>8. ASSUME NEW w \in Workers, Cancel(w)
      PROVE  NoStaleCancel'
  BY <1>8 DEF Cancel, callers, channel, contexts, NoStaleCancel, HoldInv, TypeOK
<1>9. ASSUME NEW w \in Workers, Delete(w)
      PROVE  NoStaleCancel'
  BY <1>9 DEF Delete, callers, channel, contexts, NoStaleCancel, HoldInv, TypeOK
<1>10. ASSUME NEW k \in Killers, KillLoad(k)
       PROVE  NoStaleCancel'
  BY <1>10 DEF KillLoad, callers, channel, contexts, NoStaleCancel, HoldInv, TypeOK
<1>11. ASSUME NEW k \in Killers, KillCancel(k)
       PROVE  NoStaleCancel'
  BY <1>11 DEF KillCancel, callers, channel, contexts, NoStaleCancel, HoldInv, TypeOK
<1>12. ASSUME NEW k \in Killers, KillDelete(k)
       PROVE  NoStaleCancel'
  BY <1>12 DEF KillDelete, callers, channel, contexts, NoStaleCancel, HoldInv, TypeOK
<1>13. CASE StopClose
  BY <1>13 DEF StopClose, callers, channel, contexts, NoStaleCancel, HoldInv, TypeOK
<1>14. CASE StopReturn
  BY <1>14 DEF StopReturn, callers, channel, contexts, NoStaleCancel, HoldInv, TypeOK
<1>15. CASE UNCHANGED vars
  BY <1>15 DEF vars, NoStaleCancel, HoldInv, TypeOK
<1> QED
  BY <1>1, <1>2, <1>3, <1>4, <1>5, <1>6, <1>7, <1>8, <1>9, <1>10, <1>11, <1>12, <1>13,
     <1>14, <1>15
     DEF Next, Handler, Worker, Kill

LEMMA ExitStep ==
  ASSUME TypeOK, ExitInv, [Next]_vars
  PROVE  ExitInv'
<1> USE Assumptions
<1>1. ASSUME NEW j \in JobIDs, Submit(j)
      PROVE  ExitInv'
  BY <1>1 DEF Submit, callers, channel, contexts, ExitInv, TypeOK
<1>2. ASSUME NEW j \in JobIDs, Enqueue(j)
      PROVE  ExitInv'
  BY <1>2 DEF Enqueue, callers, channel, contexts, ExitInv, TypeOK
<1>3. ASSUME NEW j \in JobIDs, EnqueuePanic(j)
      PROVE  ExitInv'
  BY <1>3 DEF EnqueuePanic, callers, channel, contexts, ExitInv, TypeOK
<1>4. ASSUME NEW w \in Workers, Receive(w)
      PROVE  ExitInv'
  BY <1>4 DEF Receive, callers, channel, contexts, ExitInv, TypeOK
<1>5. ASSUME NEW w \in Workers, Exit(w)
      PROVE  ExitInv'
  BY <1>5 DEF Exit, callers, channel, contexts, ExitInv, TypeOK
<1>6. ASSUME NEW w \in Workers, Store(w)
      PROVE  ExitInv'
  BY <1>6 DEF Store, callers, channel, contexts, ExitInv, TypeOK
<1>7. ASSUME NEW w \in Workers, ExecuteReturns(w)
      PROVE  ExitInv'
  BY <1>7 DEF ExecuteReturns, callers, channel, contexts, ExitInv, TypeOK
<1>8. ASSUME NEW w \in Workers, Cancel(w)
      PROVE  ExitInv'
  BY <1>8 DEF Cancel, callers, channel, contexts, ExitInv, TypeOK
<1>9. ASSUME NEW w \in Workers, Delete(w)
      PROVE  ExitInv'
  BY <1>9 DEF Delete, callers, channel, contexts, ExitInv, TypeOK
<1>10. ASSUME NEW k \in Killers, KillLoad(k)
       PROVE  ExitInv'
  BY <1>10 DEF KillLoad, callers, channel, contexts, ExitInv, TypeOK
<1>11. ASSUME NEW k \in Killers, KillCancel(k)
       PROVE  ExitInv'
  BY <1>11 DEF KillCancel, callers, channel, contexts, ExitInv, TypeOK
<1>12. ASSUME NEW k \in Killers, KillDelete(k)
       PROVE  ExitInv'
  BY <1>12 DEF KillDelete, callers, channel, contexts, ExitInv, TypeOK
<1>13. CASE StopClose
  BY <1>13 DEF StopClose, callers, channel, contexts, ExitInv, TypeOK
<1>14. CASE StopReturn
  BY <1>14 DEF StopReturn, callers, channel, contexts, ExitInv, TypeOK
<1>15. CASE UNCHANGED vars
  BY <1>15 DEF vars, ExitInv, TypeOK
<1> QED
  BY <1>1, <1>2, <1>3, <1>4, <1>5, <1>6, <1>7, <1>8, <1>9, <1>10, <1>11, <1>12, <1>13,
     <1>14, <1>15
     DEF Next, Handler, Worker, Kill

LEMMA DuplicateStep ==
  ASSUME TypeOK, TypeOK', HoldInv, JobInOnePlace, [Next]_vars
  PROVE  NoDuplicate'
<1> USE Assumptions
<1>1. ASSUME NEW j \in JobIDs, Submit(j)
      PROVE  NoDuplicate'
  BY <1>1 DEF Submit, callers, channel, contexts, JobInOnePlace, NoDuplicate
<1>2. ASSUME NEW j \in JobIDs, Enqueue(j)
      PROVE  NoDuplicate'
  <2>1. \A i \in 1..Len(jobs) : jobs[i] # j
    BY <1>2 DEF Enqueue, JobInOnePlace, Accounted, Queued
  <2>2. jobs' = Append(jobs, j) /\ jobs \in Seq(JobIDs)
    BY <1>2 DEF Enqueue, TypeOK
  <2>3. Len(jobs') = Len(jobs) + 1 /\ jobs'[Len(jobs) + 1] = j
        /\ \A i \in 1..Len(jobs) : jobs'[i] = jobs[i]
    BY <2>2, AppendFacts
  <2> QED
    BY <2>1, <2>2, <2>3 DEF JobInOnePlace, NoDuplicate
<1>3. ASSUME NEW j \in JobIDs, EnqueuePanic(j)
      PROVE  NoDuplicate'
  BY <1>3 DEF EnqueuePanic, callers, channel, contexts, JobInOnePlace, NoDuplicate
<1>4. ASSUME NEW w \in Workers, Receive(w)
      PROVE  NoDuplicate'
  <2>1. jobs' = Tail(jobs) /\ jobs # <<>> /\ jobs \in Seq(JobIDs)
    BY <1>4 DEF Receive, TypeOK
  <2>2. Len(jobs) \in Nat /\ Len(jobs') = Len(jobs) - 1
        /\ \A i \in 1..(Len(jobs) - 1) : jobs'[i] = jobs[i + 1]
    BY <2>1, HeadFacts
  <2> QED
    BY <2>1, <2>2 DEF JobInOnePlace, NoDuplicate
<1>5. ASSUME NEW w \in Workers, Exit(w)
      PROVE  NoDuplicate'
  BY <1>5 DEF Exit, callers, channel, contexts, JobInOnePlace, NoDuplicate
<1>6. ASSUME NEW w \in Workers, Store(w)
      PROVE  NoDuplicate'
  BY <1>6 DEF Store, callers, channel, contexts, JobInOnePlace, NoDuplicate
<1>7. ASSUME NEW w \in Workers, ExecuteReturns(w)
      PROVE  NoDuplicate'
  BY <1>7 DEF ExecuteReturns, callers, channel, contexts, JobInOnePlace, NoDuplicate
<1>8. ASSUME NEW w \in Workers, Cancel(w)
      PROVE  NoDuplicate'
  BY <1>8 DEF Cancel, callers, channel, contexts, JobInOnePlace, NoDuplicate
<1>9. ASSUME NEW w \in Workers, Delete(w)
      PROVE  NoDuplicate'
  BY <1>9 DEF Delete, callers, channel, contexts, JobInOnePlace, NoDuplicate
<1>10. ASSUME NEW k \in Killers, KillLoad(k)
       PROVE  NoDuplicate'
  BY <1>10 DEF KillLoad, callers, channel, contexts, JobInOnePlace, NoDuplicate
<1>11. ASSUME NEW k \in Killers, KillCancel(k)
       PROVE  NoDuplicate'
  BY <1>11 DEF KillCancel, callers, channel, contexts, JobInOnePlace, NoDuplicate
<1>12. ASSUME NEW k \in Killers, KillDelete(k)
       PROVE  NoDuplicate'
  BY <1>12 DEF KillDelete, callers, channel, contexts, JobInOnePlace, NoDuplicate
<1>13. CASE StopClose
  BY <1>13 DEF StopClose, callers, channel, contexts, JobInOnePlace, NoDuplicate
<1>14. CASE StopReturn
  BY <1>14 DEF StopReturn, callers, channel, contexts, JobInOnePlace, NoDuplicate
<1>15. CASE UNCHANGED vars
  BY <1>15 DEF vars, JobInOnePlace, NoDuplicate
<1> QED
  BY <1>1, <1>2, <1>3, <1>4, <1>5, <1>6, <1>7, <1>8, <1>9, <1>10, <1>11, <1>12, <1>13,
     <1>14, <1>15
     DEF Next, Handler, Worker, Kill

LEMMA HolderStep ==
  ASSUME TypeOK, TypeOK', HoldInv, JobInOnePlace, [Next]_vars
  PROVE  OneHolder'
<1> USE Assumptions
<1>1. ASSUME NEW j \in JobIDs, Submit(j)
      PROVE  OneHolder'
  BY <1>1 DEF Submit, callers, channel, contexts, JobInOnePlace, OneHolder, TypeOK
<1>2. ASSUME NEW j \in JobIDs, Enqueue(j)
      PROVE  OneHolder'
  BY <1>2 DEF Enqueue, callers, channel, contexts, JobInOnePlace, OneHolder, TypeOK
<1>3. ASSUME NEW j \in JobIDs, EnqueuePanic(j)
      PROVE  OneHolder'
  BY <1>3 DEF EnqueuePanic, callers, channel, contexts, JobInOnePlace, OneHolder, TypeOK
<1>4. ASSUME NEW w \in Workers, Receive(w)
      PROVE  OneHolder'
  <2>1. jobs' = Tail(jobs) /\ jobs # <<>> /\ jobs \in Seq(JobIDs)
    BY <1>4 DEF Receive, TypeOK
  <2> DEFINE h == Head(jobs)
  <2>2. /\ h \in JobIDs /\ h = jobs[1] /\ Len(jobs) \in Nat \ {0}
        /\ Len(jobs') = Len(jobs) - 1
        /\ \A i \in 1..(Len(jobs) - 1) : jobs'[i] = jobs[i + 1]
    BY <2>1, HeadFacts
  <2>3. Queued(h)
    BY <2>2 DEF Queued
  <2>4. job' = [job EXCEPT ![w] = h] /\ workerPc' = [workerPc EXCEPT ![w] = "store"]
        /\ ~Executing(w)
    BY <1>4 DEF Receive, Executing
  <2>5. \A v \in Workers : job[v] # h
    <3> SUFFICES ASSUME NEW v \in Workers, job[v] = h PROVE FALSE
      OBVIOUS
    <3>1. workerPc[v] \in {"store", "exec", "cancel", "delete"}
      BY <2>2 DEF HoldInv
    <3>2. CASE Executing(v)
      BY <2>2, <2>3, <3>2 DEF JobInOnePlace, Accounted, Running
    <3>3. CASE workerPc[v] \in {"cancel", "delete"}
      BY <2>2, <2>3, <3>3 DEF HoldInv, JobInOnePlace, Accounted
    <3> QED
      BY <3>1, <3>2, <3>3 DEF Executing
  <2> QED
    BY <2>4, <2>5 DEF JobInOnePlace, OneHolder, TypeOK
<1>5. ASSUME NEW w \in Workers, Exit(w)
      PROVE  OneHolder'
  BY <1>5 DEF Exit, callers, channel, contexts, JobInOnePlace, OneHolder, TypeOK
<1>6. ASSUME NEW w \in Workers, Store(w)
      PROVE  OneHolder'
  BY <1>6 DEF Store, callers, channel, contexts, JobInOnePlace, OneHolder, TypeOK
<1>7. ASSUME NEW w \in Workers, ExecuteReturns(w)
      PROVE  OneHolder'
  BY <1>7 DEF ExecuteReturns, callers, channel, contexts, JobInOnePlace, OneHolder, TypeOK
<1>8. ASSUME NEW w \in Workers, Cancel(w)
      PROVE  OneHolder'
  BY <1>8 DEF Cancel, callers, channel, contexts, JobInOnePlace, OneHolder, TypeOK
<1>9. ASSUME NEW w \in Workers, Delete(w)
      PROVE  OneHolder'
  BY <1>9 DEF Delete, callers, channel, contexts, JobInOnePlace, OneHolder, TypeOK
<1>10. ASSUME NEW k \in Killers, KillLoad(k)
       PROVE  OneHolder'
  BY <1>10 DEF KillLoad, callers, channel, contexts, JobInOnePlace, OneHolder, TypeOK
<1>11. ASSUME NEW k \in Killers, KillCancel(k)
       PROVE  OneHolder'
  BY <1>11 DEF KillCancel, callers, channel, contexts, JobInOnePlace, OneHolder, TypeOK
<1>12. ASSUME NEW k \in Killers, KillDelete(k)
       PROVE  OneHolder'
  BY <1>12 DEF KillDelete, callers, channel, contexts, JobInOnePlace, OneHolder, TypeOK
<1>13. CASE StopClose
  BY <1>13 DEF StopClose, callers, channel, contexts, JobInOnePlace, OneHolder, TypeOK
<1>14. CASE StopReturn
  BY <1>14 DEF StopReturn, callers, channel, contexts, JobInOnePlace, OneHolder, TypeOK
<1>15. CASE UNCHANGED vars
  BY <1>15 DEF vars, JobInOnePlace, OneHolder, TypeOK
<1> QED
  BY <1>1, <1>2, <1>3, <1>4, <1>5, <1>6, <1>7, <1>8, <1>9, <1>10, <1>11, <1>12, <1>13,
     <1>14, <1>15
     DEF Next, Handler, Worker, Kill

LEMMA AccountStep ==
  ASSUME TypeOK, TypeOK', HoldInv, JobInOnePlace, [Next]_vars
  PROVE  Accounted'
<1> USE Assumptions
<1>1. ASSUME NEW j \in JobIDs, Submit(j)
      PROVE  Accounted'
  BY <1>1
     DEF Submit, callers, channel, contexts, JobInOnePlace, Accounted, TypeOK, Queued,
         Running, Executing
<1>2. ASSUME NEW j \in JobIDs, Enqueue(j)
      PROVE  Accounted'
  <2>1. jobs' = Append(jobs, j) /\ jobs \in Seq(JobIDs)
    BY <1>2 DEF Enqueue, TypeOK
  <2>2. Len(jobs') = Len(jobs) + 1 /\ jobs'[Len(jobs) + 1] = j
        /\ \A i \in 1..Len(jobs) : jobs'[i] = jobs[i]
    BY <2>1, AppendFacts
  <2>3. \A x \in JobIDs : Queued(x)' <=> Queued(x) \/ x = j
    BY <2>1, <2>2 DEF Queued
  <2>4. \A x \in JobIDs : Running(x)' <=> Running(x)
    BY <1>2 DEF Enqueue, Running, Executing
  <2> QED
    BY <1>2, <2>3, <2>4 DEF Enqueue, JobInOnePlace, Accounted, TypeOK
<1>3. ASSUME NEW j \in JobIDs, EnqueuePanic(j)
      PROVE  Accounted'
  <2>1. \A x \in JobIDs : Queued(x)' <=> Queued(x)
    BY <1>3 DEF EnqueuePanic, channel, Queued
  <2>2. \A x \in JobIDs : Running(x)' <=> Running(x)
    BY <1>3 DEF EnqueuePanic, channel, Running, Executing, TypeOK
  <2> QED
    BY <1>3, <2>1, <2>2 DEF EnqueuePanic, channel, JobInOnePlace, Accounted, TypeOK
<1>4. ASSUME NEW w \in Workers, Receive(w)
      PROVE  Accounted'
  <2>1. jobs' = Tail(jobs) /\ jobs # <<>> /\ jobs \in Seq(JobIDs)
    BY <1>4 DEF Receive, TypeOK
  <2> DEFINE h == Head(jobs)
  <2>2. /\ h \in JobIDs /\ h = jobs[1] /\ Len(jobs) \in Nat \ {0}
        /\ Len(jobs') = Len(jobs) - 1
        /\ \A i \in 1..(Len(jobs) - 1) : jobs'[i] = jobs[i + 1]
    BY <2>1, HeadFacts
  <2>3. Queued(h)
    BY <2>2 DEF Queued
  <2>4. job' = [job EXCEPT ![w] = h] /\ workerPc' = [workerPc EXCEPT ![w] = "store"]
        /\ ~Executing(w)
    BY <1>4 DEF Receive, Executing
  <2>5. \A x \in JobIDs : Queued(x)' <=> Queued(x) /\ x # h
    <3> SUFFICES ASSUME NEW x \in JobIDs PROVE Queued(x)' <=> Queued(x) /\ x # h
      OBVIOUS
    <3>1. ASSUME Queued(x)' PROVE Queued(x) /\ x # h
      <4>1. PICK i \in 1..Len(jobs') : jobs'[i] = x
        BY <3>1 DEF Queued
      <4>2. i + 1 \in 1..Len(jobs) /\ jobs[i + 1] = x /\ i + 1 # 1
        BY <2>2, <4>1
      <4> QED
        BY <2>2, <4>2 DEF Queued, JobInOnePlace, NoDuplicate
    <3>2. ASSUME Queued(x), x # h PROVE Queued(x)'
      <4>1. PICK i \in 1..Len(jobs) : jobs[i] = x
        BY <3>2 DEF Queued
      <4>2. i - 1 \in 1..Len(jobs') /\ jobs'[i - 1] = x
        BY <2>2, <3>2, <4>1
      <4> QED
        BY <4>2 DEF Queued
    <3> QED
      BY <3>1, <3>2
  <2>6. \A x \in JobIDs : Running(x)' <=> Running(x) \/ x = h
    BY <2>4 DEF Running, Executing, TypeOK
  <2> QED
    BY <1>4, <2>2, <2>3, <2>5, <2>6 DEF Receive, callers, JobInOnePlace, Accounted
<1>5. ASSUME NEW w \in Workers, Exit(w)
      PROVE  Accounted'
  <2>1. \A x \in JobIDs : Queued(x)' <=> Queued(x)
    BY <1>5 DEF Exit, callers, channel, Queued
  <2>2. \A x \in JobIDs : Running(x)' <=> Running(x)
    BY <1>5 DEF Exit, callers, channel, Running, Executing, TypeOK
  <2> QED
    BY <1>5, <2>1, <2>2 DEF Exit, callers, channel, JobInOnePlace, Accounted, TypeOK
<1>6. ASSUME NEW w \in Workers, Store(w)
      PROVE  Accounted'
  <2>1. \A x \in JobIDs : Queued(x)' <=> Queued(x)
    BY <1>6 DEF Store, callers, channel, Queued
  <2>2. \A x \in JobIDs : Running(x)' <=> Running(x)
    BY <1>6 DEF Store, callers, channel, Running, Executing, TypeOK
  <2> QED
    BY <1>6, <2>1, <2>2 DEF Store, callers, channel, JobInOnePlace, Accounted, TypeOK
<1>7. ASSUME NEW w \in Workers, ExecuteReturns(w)
      PROVE  Accounted'
  <2>1. Running(job[w]) /\ job[w] \in JobIDs /\ executed[job[w]] = 0
    BY <1>7, HeldFacts DEF ExecuteReturns, JobInOnePlace, Accounted, Running, Executing
  <2>2. \A x \in JobIDs : Queued(x)' <=> Queued(x)
    BY <1>7 DEF ExecuteReturns, channel, Queued
  <2>3. \A v \in Workers : v # w /\ job[v] # NoJob => job[v] # job[w]
    BY DEF JobInOnePlace, OneHolder
  <2>4. \A x \in JobIDs : Running(x)' <=> Running(x) /\ x # job[w]
    BY <1>7, <2>1, <2>3, Assumptions DEF ExecuteReturns, Running, Executing, TypeOK
  <2>5. executed'[job[w]] = 1 /\ \A x \in JobIDs \ {job[w]} : executed'[x] = executed[x]
    BY <1>7, <2>1 DEF ExecuteReturns, TypeOK
  <2> QED
    BY <1>7, <2>1, <2>2, <2>4, <2>5 DEF ExecuteReturns, callers, JobInOnePlace, Accounted
<1>8. ASSUME NEW w \in Workers, Cancel(w)
      PROVE  Accounted'
  <2>1. \A x \in JobIDs : Queued(x)' <=> Queued(x)
    BY <1>8 DEF Cancel, callers, channel, Queued
  <2>2. \A x \in JobIDs : Running(x)' <=> Running(x)
    BY <1>8 DEF Cancel, callers, channel, Running, Executing, TypeOK
  <2> QED
    BY <1>8, <2>1, <2>2 DEF Cancel, callers, channel, JobInOnePlace, Accounted, TypeOK
<1>9. ASSUME NEW w \in Workers, Delete(w)
      PROVE  Accounted'
  <2>1. \A x \in JobIDs : Queued(x)' <=> Queued(x)
    BY <1>9 DEF Delete, callers, channel, Queued
  <2>2. \A x \in JobIDs : Running(x)' <=> Running(x)
    BY <1>9 DEF Delete, callers, channel, Running, Executing, TypeOK
  <2> QED
    BY <1>9, <2>1, <2>2 DEF Delete, callers, channel, JobInOnePlace, Accounted, TypeOK
<1>10. ASSUME NEW k \in Killers, KillLoad(k)
       PROVE  Accounted'
  BY <1>10
     DEF KillLoad, callers, channel, contexts, JobInOnePlace, Accounted, TypeOK, Queued,
         Running, Executing
<1>11. ASSUME NEW k \in Killers, KillCancel(k)
       PROVE  Accounted'
  BY <1>11
     DEF KillCancel, callers, channel, contexts, JobInOnePlace, Accounted, TypeOK, Queued,
         Running, Executing
<1>12. ASSUME NEW k \in Killers, KillDelete(k)
       PROVE  Accounted'
  BY <1>12
     DEF KillDelete, callers, channel, contexts, JobInOnePlace, Accounted, TypeOK, Queued,
         Running, Executing
<1>13. CASE StopClose
  BY <1>13
     DEF StopClose, callers, channel, contexts, JobInOnePlace, Accounted, TypeOK, Queued,
         Running, Executing
<1>14. CASE StopReturn
  BY <1>14
     DEF StopReturn, callers, channel, contexts, JobInOnePlace, Accounted, TypeOK, Queued,
         Running, Executing
<1>15. CASE UNCHANGED vars
  BY <1>15 DEF vars, JobInOnePlace, Accounted, TypeOK, Queued, Running, Executing
<1> QED
  BY <1>1, <1>2, <1>3, <1>4, <1>5, <1>6, <1>7, <1>8, <1>9, <1>10, <1>11, <1>12, <1>13,
     <1>14, <1>15
     DEF Next, Handler, Worker, Kill

-----------------------------------------------------------------------------
(* Theorems.                                                               *)

\* The inductive invariant of the pool.
THEOREM Invariant == Spec => []IInv
<1>1. IInv /\ [Next]_vars => IInv'
  <2> SUFFICES ASSUME IInv, [Next]_vars PROVE IInv'
    OBVIOUS
  <2>1. TypeOK'
    BY TypeStep DEF IInv
  <2>2. JobInOnePlace'
    BY <2>1, DuplicateStep, HolderStep, AccountStep DEF IInv, JobInOnePlace
  <2> QED
    BY <2>1, <2>2, HoldStep, KillStep, KillableStep, NoStaleStep, ExitStep DEF IInv
<1> QED
  BY <1>1, InitInv, PTL DEF Spec

\* Every reachable state is well typed, and the channel never holds more than Cap jobs.
THEOREM TypeCorrect == Spec => []TypeOK
  BY Invariant, PTL DEF IInv

\* No accepted job is lost and none is executed twice, whatever the number of workers
\* and the order in which requests, workers, kills and the shutdown take their steps.
THEOREM JobInOnePlaceHolds == Spec => []JobInOnePlace
  BY Invariant, PTL DEF IInv

\* An executing job can be killed, or was: no kill or cleanup forgets its cancel function.
THEOREM KillableHolds == Spec => []Killable
  BY Invariant, PTL DEF IInv

\* The map keeps no cancel function past the worker's cleanup of its job.
THEOREM NoStaleCancelHolds == Spec => []NoStaleCancel
<1>1. IInv => NoStaleCancel
  BY DEF IInv
<1> QED BY Invariant, <1>1, PTL

\* When Stop returns, every job that was answered 202 has been executed.
THEOREM StopDrainsHolds == Spec => []StopDrains
<1>1. ASSUME IInv PROVE StopDrains
  <2> SUFFICES ASSUME mainPc = "stopped"
               PROVE  /\ jobs = <<>> /\ activeJobs = {}
                      /\ \A j \in JobIDs : runPc[j] = "accepted" => executed[j] = 1
    BY DEF StopDrains
  <2>1. \A w \in Workers : workerPc[w] = "exited"
    BY <1>1 DEF IInv, ExitInv
  <2>2. jobs = <<>>
    BY <1>1, <2>1, Assumptions DEF IInv, ExitInv
  <2>3. activeJobs = {}
    BY <1>1, <2>1 DEF IInv, NoStaleCancel
  <2>4. \A j \in JobIDs : ~Queued(j) /\ ~Running(j)
    BY <2>1, <2>2 DEF Queued, Running, Executing
  <2> QED
    BY <1>1, <2>2, <2>3, <2>4 DEF IInv, JobInOnePlace, Accounted
<1> QED
  BY <1>1, Invariant, PTL
=============================================================================
