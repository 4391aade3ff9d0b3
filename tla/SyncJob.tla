----------------------------- MODULE SyncJob -----------------------------
(* The life of a bank synchronisation: start_sync_job, get_sync_status and  *)
(* the retrieval thread of backend/app/services/sync_service.py.            *)
(*                                                                          *)
(* Requests run in the thread pool of the web server, so every statement    *)
(* that reads or writes shared state (the SyncJob table, _RETRIEVE_LOCK,    *)
(* _RETRIEVE_STATE) is a step of its own.  The table survives a restart of  *)
(* the process; the lock, the thread and the requests do not.               *)
EXTENDS Naturals, FiniteSets

CONSTANTS Household,             \* tenants
          Client,                \* requests that can be in flight at once
          None,                  \* no client, no household
          MaxJobs,               \* bound: rows of the SyncJob table
          MaxRestarts,           \* bound: restarts of the process
          WritesFail             \* may an UPDATE of a SyncJob row raise?

ASSUME SyncAssumption ==
  /\ Household # {}
  /\ None \notin Client \cup Household
  /\ MaxJobs \in Nat
  /\ MaxRestarts \in Nat
  /\ WritesFail \in BOOLEAN

NoJob == 0                       \* no row, or no thread
Job == 1 .. MaxJobs              \* rows, numbered in the order of started_at
Row == Job \cup {NoJob}

InFlight == {"queued", "running"}
Settled  == {"succeeded", "completed_with_errors", "failed"}

VARIABLES
  created,      \* number of rows in the SyncJob table
  tenant,       \* job -> household_id of its row
  status,       \* job -> status of its row
  worker,       \* job -> where _run_sync_job stands in the thread of the job
  verdict,      \* job -> what retrieve_transactions returned
  thread,       \* job of the thread in _RETRIEVE_STATE, NoJob when None
  lock,         \* client that holds _RETRIEVE_LOCK
  pc,           \* client -> where its request stands
  asker,        \* client -> household of its request
  mine,         \* client -> row that start_sync_job inserted
  seen,         \* client -> row that get_sync_status read
  restarts      \* number of restarts so far

table    == <<created, tenant, status>>
requests == <<pc, asker, mine, seen>>
vars == <<table, worker, verdict, thread, lock, requests, restarts>>

--------------------------------------------------------------------------
(* The table and the thread *)

\* A job's thread is alive from t.start() until _run_sync_job returns.
AliveAt == {"begin", "retrieve", "link", "except"}
Alive(j) == j # NoJob /\ worker[j] \in AliveAt

RowsOf(h) == {j \in Job : j <= created /\ tenant[j] = h}

Unfinished(j) == j # NoJob /\ status[j] \in InFlight

\* select(SyncJob).order_by(started_at desc).limit(1), under the tenant filter.
IsLatest(h, j) ==
  \/ j = NoJob /\ RowsOf(h) = {}
  \/ j \in RowsOf(h) /\ \A k \in RowsOf(h) : k <= j

Init ==
  /\ created = 0
  /\ tenant = [j \in Job |-> None]
  /\ status = [j \in Job |-> "none"]
  /\ worker = [j \in Job |-> "none"]
  /\ verdict = [j \in Job |-> "none"]
  /\ thread = NoJob
  /\ lock = None
  /\ pc = [c \in Client |-> "idle"]
  /\ asker = [c \in Client |-> None]
  /\ mine = [c \in Client |-> NoJob]
  /\ seen = [c \in Client |-> NoJob]
  /\ restarts = 0

\* The request is answered; "with _RETRIEVE_LOCK" is left on the way out.
Answered(c) ==
  /\ pc' = [pc EXCEPT ![c] = "idle"]
  /\ mine' = [mine EXCEPT ![c] = NoJob]
  /\ seen' = [seen EXCEPT ![c] = NoJob]
  /\ lock' = IF lock = c THEN None ELSE lock

--------------------------------------------------------------------------
(* POST /api/sync/start *)

\* The bound MaxJobs is kept here, where no lock is held yet.
StartRequest(c, h) ==
  /\ pc[c] = "idle"
  /\ created + Cardinality({d \in Client : pc[d] \in {"acquire", "insert"}}) < MaxJobs
  /\ pc' = [pc EXCEPT ![c] = "acquire"]
  /\ asker' = [asker EXCEPT ![c] = h]
  /\ UNCHANGED <<table, worker, verdict, thread, lock, mine, seen, restarts>>

\* Faulty variants of the next definition: no is_alive test; no lock taken.
AcquireUnchecked(c) ==
  /\ pc[c] = "acquire"
  /\ lock = None
  /\ lock' = c
  /\ pc' = [pc EXCEPT ![c] = "insert"]
  /\ UNCHANGED <<table, worker, verdict, thread, asker, mine, seen, restarts>>
AcquireNothing(c) ==
  /\ pc[c] = "acquire"
  /\ pc' = [pc EXCEPT ![c] = IF Alive(thread) THEN "read" ELSE "insert"]
  /\ UNCHANGED <<table, worker, verdict, thread, lock, asker, mine, seen, restarts>>

\* Enters the lock and asks whether the last thread is alive.  If it is, the
\* status is answered from inside the lock.
Acquire(c) ==
  /\ pc[c] = "acquire"
  /\ lock = None
  /\ lock' = c
  /\ pc' = [pc EXCEPT ![c] = IF Alive(thread) THEN "read" ELSE "insert"]
  /\ UNCHANGED <<table, worker, verdict, thread, asker, mine, seen, restarts>>

\* Commits the new row; nothing tells it apart from a row a dead process left.
InsertJob(c) ==
  /\ pc[c] = "insert"
  /\ created < MaxJobs
  /\ created' = created + 1
  /\ tenant' = [tenant EXCEPT ![created + 1] = asker[c]]
  /\ status' = [status EXCEPT ![created + 1] = "queued"]
  /\ mine' = [mine EXCEPT ![c] = created + 1]
  /\ pc' = [pc EXCEPT ![c] = "launch"]
  /\ UNCHANGED <<worker, verdict, thread, lock, asker, seen, restarts>>

\* The INSERT raises: the request ends with an error and leaves the lock.
InsertFails(c) ==
  /\ pc[c] = "insert"
  /\ WritesFail
  /\ Answered(c)
  /\ UNCHANGED <<table, worker, verdict, thread, asker, restarts>>

\* Publishes the thread, starts it and leaves the lock.
Launch(c) ==
  /\ pc[c] = "launch"
  /\ thread' = mine[c]
  /\ worker' = [worker EXCEPT ![mine[c]] = "begin"]
  /\ lock' = None
  /\ pc' = [pc EXCEPT ![c] = "read"]
  /\ UNCHANGED <<table, verdict, asker, mine, seen, restarts>>

--------------------------------------------------------------------------
(* GET /api/sync/status, and the tail of a start request *)

StatusRequest(c, h) ==
  /\ pc[c] = "idle"
  /\ pc' = [pc EXCEPT ![c] = "read"]
  /\ asker' = [asker EXCEPT ![c] = h]
  /\ UNCHANGED <<table, worker, verdict, thread, lock, mine, seen, restarts>>

\* Faulty variant of ReadLatest: the status is read under the same lock.
ReadLatestLocked(c) ==
  /\ pc[c] = "read"
  /\ lock = None
  /\ IF \E j \in Job : IsLatest(asker[c], j) /\ Unfinished(j)
       THEN /\ \E j \in Job : /\ IsLatest(asker[c], j)
                             /\ seen' = [seen EXCEPT ![c] = j]
            /\ pc' = [pc EXCEPT ![c] = "zombie"]
            /\ UNCHANGED <<lock, mine>>
       ELSE Answered(c)
  /\ UNCHANGED <<table, worker, verdict, thread, asker, restarts>>

\* Reads the latest row.  A settled row, or none at all, is answered at once.
ReadLatest(c) ==
  /\ pc[c] = "read"
  /\ \E j \in Row :
       /\ IsLatest(asker[c], j)
       /\ \/ /\ Unfinished(j)
             /\ seen' = [seen EXCEPT ![c] = j]
             /\ pc' = [pc EXCEPT ![c] = "zombie"]
             /\ UNCHANGED <<lock, mine>>
          \/ /\ ~Unfinished(j)
             /\ Answered(c)
  /\ UNCHANGED <<table, worker, verdict, thread, asker, restarts>>

\* "Detect zombie jobs": only whether a thread was ever stored is looked at.
ZombieCheck(c) ==
  /\ pc[c] = "zombie"
  /\ \/ /\ thread = NoJob
        /\ pc' = [pc EXCEPT ![c] = "mark"]
        /\ UNCHANGED <<lock, mine, seen>>
     \/ /\ thread # NoJob
        /\ Answered(c)
  /\ UNCHANGED <<table, worker, verdict, thread, asker, restarts>>

\* Faulty variant of MarkFailed: the commit is forgotten.
MarkUncommitted(c) ==
  /\ pc[c] = "mark"
  /\ Answered(c)
  /\ UNCHANGED <<table, worker, verdict, thread, asker, restarts>>

\* Re-reads the row by id and overwrites its status whatever it is by now.
MarkFailed(c) ==
  /\ pc[c] = "mark"
  /\ status' = [status EXCEPT ![seen[c]] = "failed"]
  /\ Answered(c)
  /\ UNCHANGED <<created, tenant, worker, verdict, thread, asker, restarts>>

MarkRaises(c) ==
  /\ pc[c] = "mark"
  /\ WritesFail
  /\ Answered(c)
  /\ UNCHANGED <<table, worker, verdict, thread, asker, restarts>>

--------------------------------------------------------------------------
(* _run_sync_job *)

WriteStatus(j, s) == status' = [status EXCEPT ![j] = s]

WorkerBegins(j) ==
  /\ worker[j] = "begin"
  /\ WriteStatus(j, "running")
  /\ worker' = [worker EXCEPT ![j] = "retrieve"]
  /\ UNCHANGED <<created, tenant, verdict, thread, lock, requests, restarts>>

\* The progress callback of retrieve_transactions, once per account and page.
WorkerReports(j) ==
  /\ worker[j] = "retrieve"
  /\ WriteStatus(j, "running")
  /\ UNCHANGED <<created, tenant, worker, verdict, thread, lock, requests, restarts>>

\* Faulty variant of RetrievalReturns: the outcome is not kept.
RetrievalForgets(j) ==
  /\ worker[j] = "retrieve"
  /\ WriteStatus(j, "running")
  /\ worker' = [worker EXCEPT ![j] = "link"]
  /\ UNCHANGED <<created, tenant, verdict, thread, lock, requests, restarts>>

\* The retrieval returns, perhaps with accounts that failed; receipts are next.
RetrievalReturns(j) ==
  /\ worker[j] = "retrieve"
  /\ \E v \in {"succeeded", "completed_with_errors"} :
       verdict' = [verdict EXCEPT ![j] = v]
  /\ WriteStatus(j, "running")
  /\ worker' = [worker EXCEPT ![j] = "link"]
  /\ UNCHANGED <<created, tenant, thread, lock, requests, restarts>>

\* auto_link_receipts cannot fail the job; the last write settles it.
WorkerFinishes(j) ==
  /\ worker[j] = "link"
  /\ WriteStatus(j, verdict[j])
  /\ worker' = [worker EXCEPT ![j] = "done"]
  /\ UNCHANGED <<created, tenant, verdict, thread, lock, requests, restarts>>

\* The retrieval raises (no active connection), or a progress write does.
WorkerRaises(j) ==
  /\ \/ worker[j] = "retrieve"
     \/ WritesFail /\ worker[j] \in {"begin", "link"}
  /\ worker' = [worker EXCEPT ![j] = "except"]
  /\ UNCHANGED <<table, verdict, thread, lock, requests, restarts>>

WorkerRecordsFailure(j) ==
  /\ worker[j] = "except"
  /\ WriteStatus(j, "failed")
  /\ worker' = [worker EXCEPT ![j] = "raised"]
  /\ UNCHANGED <<created, tenant, verdict, thread, lock, requests, restarts>>

\* The write in the except branch raises: the thread dies, the row stays.
WorkerDies(j) ==
  /\ worker[j] = "except"
  /\ WritesFail
  /\ worker' = [worker EXCEPT ![j] = "killed"]
  /\ UNCHANGED <<table, verdict, thread, lock, requests, restarts>>

WorkerStep(j) ==
  \/ WorkerBegins(j) \/ WorkerReports(j) \/ RetrievalReturns(j)
  \/ WorkerFinishes(j) \/ WorkerRaises(j)
  \/ WorkerRecordsFailure(j) \/ WorkerDies(j)

--------------------------------------------------------------------------
(* The process stops and starts again: the thread is a daemon. *)

Restart ==
  /\ restarts < MaxRestarts
  /\ restarts' = restarts + 1
  /\ worker' = [j \in Job |-> IF Alive(j) THEN "killed" ELSE worker[j]]
  /\ thread' = NoJob
  /\ lock' = None
  /\ pc' = [c \in Client |-> "idle"]
  /\ mine' = [c \in Client |-> NoJob]
  /\ seen' = [c \in Client |-> NoJob]
  /\ UNCHANGED <<table, verdict, asker>>

RequestStep(c) ==
  \/ Acquire(c) \/ InsertJob(c) \/ InsertFails(c) \/ Launch(c)
  \/ ReadLatest(c) \/ ZombieCheck(c) \/ MarkFailed(c) \/ MarkRaises(c)

Next ==
  \/ \E c \in Client, h \in Household : StartRequest(c, h) \/ StatusRequest(c, h)
  \/ \E c \in Client : RequestStep(c)
  \/ \E j \in Job : WorkerStep(j)
  \/ Restart

Spec == Init /\ [][Next]_vars

\* A thread that was started runs; its HTTP calls have a timeout of a minute.
\* An admitted request runs, and the lock is not withheld from it for ever.
\* The page of a household polls the status as long as it is open.
Fairness ==
  /\ \A j \in Job :
       /\ WF_vars(WorkerBegins(j))
       /\ WF_vars(RetrievalReturns(j) \/ WorkerRaises(j))
       /\ WF_vars(WorkerFinishes(j))
       /\ WF_vars(WorkerRecordsFailure(j) \/ WorkerDies(j))
  /\ \A c \in Client : WF_vars(RequestStep(c)) /\ SF_vars(Acquire(c))
  /\ \A h \in Household : SF_vars(\E c \in Client : StatusRequest(c, h))

FairSpec == Spec /\ Fairness

--------------------------------------------------------------------------
(* Properties *)

\* Every variable stays in its range, and exactly the inserted rows have one of
\* the statuses the code writes.
TypeOK ==
  /\ created \in 0 .. MaxJobs
  /\ tenant \in [Job -> Household \cup {None}]
  /\ status \in [Job -> InFlight \cup Settled \cup {"none"}]
  /\ \A j \in Job : status[j] = "none" <=> j > created
  /\ worker \in [Job -> AliveAt \cup {"none", "done", "raised", "killed"}]
  /\ verdict \in [Job -> {"none", "succeeded", "completed_with_errors"}]
  /\ thread \in Row
  /\ lock \in Client \cup {None}
  /\ pc \in [Client -> {"idle", "acquire", "insert", "launch", "read", "zombie", "mark"}]
  /\ asker \in [Client -> Household \cup {None}]
  /\ mine \in [Client -> Row]
  /\ seen \in [Client -> Row]
  /\ restarts \in 0 .. MaxRestarts

\* Two retrieval threads never run at once, whatever requests and restarts
\* interleave: the is_alive test and the start are under one lock.
OneRetrieval == \A j, k \in Job : Alive(j) /\ Alive(k) => j = k

\* Every request is answered: get_sync_status, called from inside the lock,
\* must not wait for it, and no way out of start_sync_job may keep it.
RequestsAnswered == \A c \in Client : (pc[c] # "idle") ~> (pc[c] = "idle")

\* "Detect zombie jobs (thread died but status still says running)": a row
\* whose thread is gone does not stay the latest, unfinished job for ever.
Zombie(j) ==
  /\ Unfinished(j)
  /\ ~Alive(j)
  /\ IsLatest(tenant[j], j)
InterruptedJobSettles == \A j \in Job : Zombie(j) ~> ~Zombie(j)

\* The same comment, as what a poll may do: a job whose retrieval came to its
\* end is not the job of a dead thread, and is never reported as interrupted.
FailedMeansInterrupted == \A j \in Job : worker[j] = "done" => status[j] # "failed"

\* Locks, threads and requests implement the abstract retrieval: one at a
\* time, each job at most once.
Running == IF \E j \in Job : Alive(j) THEN CHOOSE j \in Job : Alive(j) ELSE NoJob
Taken == {j \in Job : worker[j] # "none"}
Abstract == INSTANCE Retrieval WITH active <- Running, taken <- Taken
ImplementsRetrieval == Abstract!Spec
==========================================================================
