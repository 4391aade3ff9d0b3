--------------------------- MODULE SyncJobProofs ---------------------------
(* Theorems about SyncJob for every number of households, requests, jobs    *)
(* and restarts, and whether or not writes may fail.                        *)
EXTENDS SyncJob, TLAPS

\* Who may stand between the is_alive test and t.start(): only the holder of
\* the lock, and while it stands there no retrieval is alive.
StarterHoldsLock ==
  \A c \in Client : pc[c] \in {"insert", "launch"} => lock = c /\ ~Alive(thread)

\* The row a starter is about to run was inserted and has no thread yet.
LaunchIsFresh ==
  \A c \in Client : pc[c] = "launch" =>
    mine[c] \in 1 .. created /\ worker[mine[c]] = "none"

\* A live thread is the one _RETRIEVE_STATE names.
LiveIsPublished == \A j \in Job : Alive(j) => thread = j

\* Threads, and polls that may write, belong to rows of the table.
RowsExist ==
  /\ \A j \in Job : worker[j] # "none" => j <= created
  /\ \A c \in Client : pc[c] \in {"zombie", "mark"} => seen[c] \in 1 .. created

\* A thread that is about to settle its job has a verdict to write.
VerdictKnown == \A j \in Job : worker[j] = "link" => verdict[j] # "none"

IInv ==
  /\ TypeOK /\ StarterHoldsLock /\ LaunchIsFresh
  /\ LiveIsPublished /\ RowsExist /\ VerdictKnown

--------------------------------------------------------------------------

\* The inductive invariant holds before the first request.
LEMMA InitIInv == Init => IInv
<1> SUFFICES ASSUME Init PROVE IInv
  OBVIOUS
<1> USE SyncAssumption DEF Init, Job, Row
<1>1. TypeOK
  BY DEF TypeOK, InFlight, Settled
<1>2. \A j \in Job : ~Alive(j)
  BY DEF Alive, AliveAt, NoJob
<1>3. StarterHoldsLock /\ LaunchIsFresh
  BY DEF StarterHoldsLock, LaunchIsFresh
<1>4. LiveIsPublished /\ RowsExist /\ VerdictKnown
  BY <1>2 DEF LiveIsPublished, RowsExist, VerdictKnown
<1>5. QED
  BY <1>1, <1>3, <1>4 DEF IInv

\* Every step keeps the inductive invariant.
LEMMA StepIInv == IInv /\ [Next]_vars => IInv'
<1> SUFFICES ASSUME IInv, [Next]_vars PROVE IInv'
  OBVIOUS
<1> USE SyncAssumption
    DEF IInv, TypeOK, StarterHoldsLock, LaunchIsFresh, LiveIsPublished,
        RowsExist, VerdictKnown, Job, Row, NoJob, InFlight, Settled,
        Alive, AliveAt, table, requests
<1>1. ASSUME NEW c \in Client, NEW h \in Household, StartRequest(c, h) PROVE IInv'
  BY <1>1 DEF StartRequest
<1>2. ASSUME NEW c \in Client, NEW h \in Household, StatusRequest(c, h) PROVE IInv'
  BY <1>2 DEF StatusRequest
<1>3. ASSUME NEW c \in Client, Acquire(c) PROVE IInv'
  BY <1>3 DEF Acquire
<1>4. ASSUME NEW c \in Client, InsertJob(c) PROVE IInv'
  BY <1>4 DEF InsertJob
<1>5. ASSUME NEW c \in Client, InsertFails(c) PROVE IInv'
  BY <1>5 DEF InsertFails, Answered
<1>6. ASSUME NEW c \in Client, Launch(c) PROVE IInv'
  BY <1>6 DEF Launch
<1>7. ASSUME NEW c \in Client, ReadLatest(c) PROVE IInv'
  <2>1. PICK k \in Row :
          /\ IsLatest(asker[c], k)
          /\ \/ /\ Unfinished(k)
                /\ seen' = [seen EXCEPT ![c] = k]
                /\ pc' = [pc EXCEPT ![c] = "zombie"]
                /\ UNCHANGED <<lock, mine>>
             \/ /\ ~Unfinished(k)
                /\ Answered(c)
    BY <1>7 DEF ReadLatest
  <2>2. UNCHANGED <<table, worker, verdict, thread, asker, restarts>> /\ pc[c] = "read"
    BY <1>7 DEF ReadLatest
  <2>3. CASE Unfinished(k) /\ seen' = [seen EXCEPT ![c] = k]
             /\ pc' = [pc EXCEPT ![c] = "zombie"] /\ UNCHANGED <<lock, mine>>
    <3>1. k \in 1 .. created
      BY <2>1, <2>3 DEF IsLatest, RowsOf, Unfinished
    <3>2. QED
      BY <2>2, <2>3, <3>1
  <2>4. CASE Answered(c)
    BY <2>2, <2>4 DEF Answered
  <2>5. QED
    BY <2>1, <2>3, <2>4
<1>8. ASSUME NEW c \in Client, ZombieCheck(c) PROVE IInv'
  <2>1. UNCHANGED <<table, worker, verdict, thread, asker, restarts>> /\ pc[c] = "zombie"
    BY <1>8 DEF ZombieCheck
  <2>2. CASE pc' = [pc EXCEPT ![c] = "mark"] /\ UNCHANGED <<lock, mine, seen>>
    BY <2>1, <2>2
  <2>3. CASE Answered(c)
    BY <2>1, <2>3 DEF Answered
  <2>4. QED
    BY <1>8, <2>2, <2>3 DEF ZombieCheck
<1>9. ASSUME NEW c \in Client, MarkFailed(c) PROVE IInv'
  BY <1>9 DEF MarkFailed, Answered
<1>10. ASSUME NEW c \in Client, MarkRaises(c) PROVE IInv'
  BY <1>10 DEF MarkRaises, Answered
<1>11. ASSUME NEW j \in Job, WorkerBegins(j) PROVE IInv'
  BY <1>11 DEF WorkerBegins, WriteStatus
<1>12. ASSUME NEW j \in Job, WorkerReports(j) PROVE IInv'
  BY <1>12 DEF WorkerReports, WriteStatus
<1>13. ASSUME NEW j \in Job, RetrievalReturns(j) PROVE IInv'
  BY <1>13 DEF RetrievalReturns, WriteStatus
<1>14. ASSUME NEW j \in Job, WorkerFinishes(j) PROVE IInv'
  BY <1>14 DEF WorkerFinishes, WriteStatus
<1>15. ASSUME NEW j \in Job, WorkerRaises(j) PROVE IInv'
  BY <1>15 DEF WorkerRaises, WriteStatus
<1>16. ASSUME NEW j \in Job, WorkerRecordsFailure(j) PROVE IInv'
  BY <1>16 DEF WorkerRecordsFailure, WriteStatus
<1>17. ASSUME NEW j \in Job, WorkerDies(j) PROVE IInv'
  BY <1>17 DEF WorkerDies, WriteStatus
<1>18. ASSUME Restart PROVE IInv'
  BY <1>18 DEF Restart
<1>19. ASSUME UNCHANGED vars PROVE IInv'
  BY <1>19 DEF vars
<1>20. QED
  BY <1>1, <1>2, <1>3, <1>4, <1>5, <1>6, <1>7, <1>8, <1>9, <1>10, <1>11, <1>12, <1>13, <1>14, <1>15, <1>16, <1>17, <1>18, <1>19 DEF Next, RequestStep, WorkerStep

\* The bank is never asked to retrieve for two jobs at once: start_sync_job
\* tests is_alive and starts the thread under _RETRIEVE_LOCK, and only there.
THEOREM OneRetrievalAlways == Spec => []OneRetrieval
<1>1. IInv => OneRetrieval
  BY DEF IInv, LiveIsPublished, OneRetrieval
<1>2. QED
  BY InitIInv, StepIInv, <1>1, PTL DEF Spec

\* Rows, threads and requests keep their types, and exactly the rows that were
\* inserted carry a status.
THEOREM TypeCorrect == Spec => []TypeOK
<1>1. IInv => TypeOK
  BY DEF IInv
<1>2. QED
  BY InitIInv, StepIInv, <1>1, PTL DEF Spec

----------------------------------------------------------------------------
(* The refinement *)

\* The abstract variable "active" is the one live job, NoJob without one.
LEMMA RunningIs ==
  ASSUME OneRetrieval
  PROVE  /\ \A j \in Job : Alive(j) => Running = j
         /\ (\A j \in Job : ~Alive(j)) => Running = NoJob
BY DEF OneRetrieval, Running

LEMMA RunningIsPrime ==
  ASSUME OneRetrieval'
  PROVE  /\ \A j \in Job : Alive(j)' => Running' = j
         /\ (\A j \in Job : ~Alive(j)') => Running' = NoJob
BY DEF OneRetrieval, Running

\* Launch begins the abstract retrieval, the three ends of a thread and a
\* restart end it, and every other step leaves it as it is.
LEMMA StepRefines == IInv /\ IInv' /\ [Next]_vars => [Abstract!Next]_(Abstract!vars)
<1> SUFFICES ASSUME IInv, IInv', [Next]_vars
             PROVE  Abstract!Next \/ UNCHANGED Abstract!vars
  OBVIOUS
<1>1. OneRetrieval /\ OneRetrieval'
  BY DEF IInv, LiveIsPublished, OneRetrieval
<1>2. /\ \A j \in Job : Alive(j) => Running = j
      /\ (\A j \in Job : ~Alive(j)) => Running = NoJob
  BY <1>1, RunningIs
<1>3. /\ \A j \in Job : Alive(j)' => Running' = j
      /\ (\A j \in Job : ~Alive(j)') => Running' = NoJob
  BY <1>1, RunningIsPrime
<1>4. TypeOK
  BY DEF IInv
<1>5. ASSUME \A j \in Job : Alive(j)' <=> Alive(j), Taken' = Taken
      PROVE  UNCHANGED Abstract!vars
  <2>1. Running' = Running
    BY <1>2, <1>3, <1>5
  <2>2. QED
    BY <2>1, <1>5 DEF Abstract!vars
<1>6. ASSUME worker' = worker PROVE UNCHANGED Abstract!vars
  <2>1. \A j \in Job : Alive(j)' <=> Alive(j)
    BY <1>6 DEF Alive
  <2>2. Taken' = Taken
    BY <1>6 DEF Taken
  <2>3. QED
    BY <2>1, <2>2, <1>5
<1>7. ASSUME NEW j \in Job, NEW s \in AliveAt, Alive(j),
             worker' = [worker EXCEPT ![j] = s]
      PROVE  UNCHANGED Abstract!vars
  <2>1. \A k \in Job : Alive(k)' <=> Alive(k)
    BY <1>4, <1>7 DEF Alive, TypeOK
  <2>2. Taken' = Taken
    BY <1>4, <1>7 DEF Taken, Alive, AliveAt, TypeOK
  <2>3. QED
    BY <2>1, <2>2, <1>5
<1>8. ASSUME NEW j \in Job, NEW s \in {"done", "raised", "killed"}, Alive(j),
             worker' = [worker EXCEPT ![j] = s]
      PROVE  Abstract!End
  <2>1. Running = j /\ Running # NoJob
    BY <1>2, <1>8 DEF Alive
  <2>2. \A k \in Job : ~Alive(k)'
    BY <1>1, <1>4, <1>8 DEF OneRetrieval, Alive, AliveAt, TypeOK
  <2>3. Running' = NoJob
    BY <2>2, <1>3
  <2>4. Taken' = Taken
    BY <1>4, <1>8 DEF Taken, Alive, AliveAt, TypeOK
  <2>5. QED
    BY <2>1, <2>3, <2>4 DEF Abstract!End
<1>9. ASSUME NEW c \in Client, Launch(c) PROVE Abstract!Next
  <2>1. lock = c /\ ~Alive(thread) /\ mine[c] \in Job /\ worker[mine[c]] = "none"
    BY <1>4, <1>9 DEF IInv, StarterHoldsLock, LaunchIsFresh, Launch, TypeOK, Job
  <2>2. \A k \in Job : ~Alive(k)
    BY <2>1 DEF IInv, LiveIsPublished
  <2>3. Running = NoJob
    BY <2>2, <1>2
  <2>4. Alive(mine[c])'
    BY <1>4, <1>9, <2>1 DEF Launch, Alive, AliveAt, TypeOK, Job, NoJob
  <2>5. Running' = mine[c]
    <3>1. mine' = mine
      BY <1>9 DEF Launch
    <3>2. QED
      BY <2>1, <2>4, <3>1, <1>3
  <2>6. Taken' = Taken \cup {mine[c]}
    BY <1>4, <1>9, <2>1 DEF Launch, Taken, TypeOK
  <2>7. Abstract!Begin(mine[c])
    BY <2>1, <2>3, <2>5, <2>6 DEF Abstract!Begin, Taken
  <2>8. QED
    BY <2>1, <2>7 DEF Abstract!Next
<1>10. ASSUME Restart PROVE Abstract!Next \/ UNCHANGED Abstract!vars
  <2>1. \A k \in Job : ~Alive(k)'
    BY <1>10 DEF Restart, Alive, AliveAt
  <2>2. Running' = NoJob
    BY <2>1, <1>3
  <2>3. Taken' = Taken
    BY <1>4, <1>10 DEF Restart, Taken, Alive, AliveAt, TypeOK
  <2>4. CASE Running = NoJob
    BY <2>2, <2>3, <2>4 DEF Abstract!vars
  <2>5. CASE Running # NoJob
    BY <2>2, <2>3, <2>5 DEF Abstract!Next, Abstract!End
  <2>6. QED
    BY <2>4, <2>5
<1>11. ASSUME NEW j \in Job, WorkerStep(j)
       PROVE  Abstract!Next \/ UNCHANGED Abstract!vars
  <2>1. worker[j] \in AliveAt => Alive(j)
    BY SyncAssumption DEF Alive, Job, NoJob
  <2>2. CASE WorkerReports(j)
    BY <2>2, <1>6 DEF WorkerReports
  <2>3. CASE WorkerBegins(j)
    <3>1. Alive(j) /\ worker' = [worker EXCEPT ![j] = "retrieve"]
      BY <2>3, <2>1 DEF WorkerBegins, AliveAt
    <3>2. QED
      BY <3>1, <1>7 DEF AliveAt
  <2>4. CASE RetrievalReturns(j)
    <3>1. Alive(j) /\ worker' = [worker EXCEPT ![j] = "link"]
      BY <2>4, <2>1 DEF RetrievalReturns, AliveAt
    <3>2. QED
      BY <3>1, <1>7 DEF AliveAt
  <2>5. CASE WorkerRaises(j)
    <3>1. Alive(j) /\ worker' = [worker EXCEPT ![j] = "except"]
      BY <2>5, <2>1 DEF WorkerRaises, AliveAt
    <3>2. QED
      BY <3>1, <1>7 DEF AliveAt
  <2>6. CASE WorkerFinishes(j)
    <3>1. Alive(j) /\ worker' = [worker EXCEPT ![j] = "done"]
      BY <2>6, <2>1 DEF WorkerFinishes, AliveAt
    <3>2. QED
      BY <3>1, <1>8 DEF Abstract!Next
  <2>7. CASE WorkerRecordsFailure(j)
    <3>1. Alive(j) /\ worker' = [worker EXCEPT ![j] = "raised"]
      BY <2>7, <2>1 DEF WorkerRecordsFailure, AliveAt
    <3>2. QED
      BY <3>1, <1>8 DEF Abstract!Next
  <2>8. CASE WorkerDies(j)
    <3>1. Alive(j) /\ worker' = [worker EXCEPT ![j] = "killed"]
      BY <2>8, <2>1 DEF WorkerDies, AliveAt
    <3>2. QED
      BY <3>1, <1>8 DEF Abstract!Next
  <2>9. QED
    BY <1>11, <2>2, <2>3, <2>4, <2>5, <2>6, <2>7, <2>8 DEF WorkerStep
<1>12. ASSUME NEW c \in Client, RequestStep(c)
       PROVE  Abstract!Next \/ UNCHANGED Abstract!vars
  <2>1. Launch(c) \/ worker' = worker
    BY <1>12 DEF RequestStep, Acquire, InsertJob, InsertFails, ReadLatest,
                 ZombieCheck, MarkFailed, MarkRaises, table
  <2>2. QED
    BY <2>1, <1>6, <1>9
<1>13. ASSUME NEW c \in Client, NEW h \in Household,
              StartRequest(c, h) \/ StatusRequest(c, h)
       PROVE  UNCHANGED Abstract!vars
  BY <1>13, <1>6 DEF StartRequest, StatusRequest
<1>14. CASE UNCHANGED vars
  BY <1>14, <1>6 DEF vars
<1>15. QED
  BY <1>10, <1>11, <1>12, <1>13, <1>14 DEF Next

\* The detailed system implements the abstract retrieval: at most one runs, and
\* a job reaches the bank at most once, through every restart and failed write.
THEOREM RefinesRetrieval == Spec => ImplementsRetrieval
<1>1. Init => Abstract!Init
  <2> SUFFICES ASSUME Init PROVE Abstract!Init
    OBVIOUS
  <2>1. \A j \in Job : worker[j] = "none" /\ ~Alive(j)
    BY DEF Init, Alive, AliveAt
  <2>2. Running = NoJob /\ Taken = {}
    BY <2>1 DEF Running, Taken
  <2>3. QED
    BY <2>2 DEF Abstract!Init
<1>2. QED
  BY <1>1, InitIInv, StepIInv, StepRefines, PTL
  DEF Spec, ImplementsRetrieval, Abstract!Spec
============================================================================
