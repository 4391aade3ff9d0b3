---------------------------- MODULE Retrieval ----------------------------
(* What the bank retrieval promises to the rest of the backend, without     *)
(* locks, threads or requests: a retrieval writes postings for many         *)
(* accounts, so two of them must never run at once, and a job is handed to  *)
(* the bank at most once.                                                   *)
CONSTANT Job                     \* identities of the sync jobs
CONSTANT NoJob                   \* a value that is no job

VARIABLES active,                \* the job whose retrieval runs, or NoJob
          taken                  \* the jobs that were ever handed to the bank

vars == <<active, taken>>

Init == active = NoJob /\ taken = {}

\* A retrieval starts only when no other one runs, for a job never retrieved.
Begin(j) ==
  /\ active = NoJob
  /\ j \notin taken
  /\ active' = j
  /\ taken' = taken \cup {j}

\* The retrieval ends: it delivered, it failed, or the process went away.
End ==
  /\ active # NoJob
  /\ active' = NoJob
  /\ UNCHANGED taken

Next == (\E j \in Job : Begin(j)) \/ End

Spec == Init /\ [][Next]_vars
==========================================================================
