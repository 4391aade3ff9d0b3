------------------------------ MODULE BankPages ------------------------------
(***************************************************************************)
(* The web client's side of the banks: a sync started on SettingsPage and  *)
(* watched by polling its status, and a bank connected by way of the       *)
(* bank's own site, which comes back to DashboardPage with a code.  The    *)
(* server's side of a sync is SyncJob; here it is the household's latest   *)
(* job.                                                                    *)
(***************************************************************************)
EXTENDS Naturals

CONSTANT MaxSteps      \* bound: what the user and others do, requests that are lost

ASSUME BankAssumption == MaxSteps \in Nat

Terminal == {"succeeded", "completed_with_errors", "failed"}

VARIABLES
    job,         \* server: number and status of the household's latest job
    busy,        \* server: the retrieval thread is alive with another household's job,
                 \* or with one that has just recorded its end
    place,       \* the page shown, or the bank's site
    syncStatus,  \* the cached answer
    question,    \* the request for the status
    isPolling,   \* isPollingSync
    starting,    \* startSyncMutation
    mine,        \* history: the first job that can be the one the page has asked for
                 \* and not told of
    told,        \* history: the job the last toast was about
    code,        \* the code in the address of the page
    effects,     \* how often the mount effect of DashboardPage still runs
    issued, sent,  \* history: codes the bank issued, requests sent with one
    steps

syncVars == <<job, busy, syncStatus, question, isPolling, starting, mine, told>>
codeVars == <<code, effects, issued, sent>>
bankVars == <<syncVars, place, codeVars, steps>>

Unknown  == [n |-> 0, status |-> "idle"]
Quiet    == [phase |-> "none", of |-> Unknown]
NoStart  == [phase |-> "none", attached |-> FALSE]

BankInit ==
    /\ \E s \in {"idle"} \cup Terminal : job = [n |-> 1, status |-> s]
    /\ busy = FALSE
    /\ place = "settings"
    /\ syncStatus = Unknown
    /\ question = Quiet
    /\ isPolling = FALSE
    /\ starting = NoStart
    /\ mine = 0
    /\ told = 0
    /\ code = FALSE
    /\ effects = 0
    /\ issued = 0
    /\ sent = 0
    /\ steps = 0

Happens == steps < MaxSteps /\ steps' = steps + 1

\* Effects run before the user can do anything else.
UserDoes ==
    /\ effects = 0
    /\ ~(isPolling /\ syncStatus.status \in Terminal)
    /\ Happens

-----------------------------------------------------------------------------
(* Moving between the pages.                                                *)

\* Mutant: the page is left with its polling on.
LeaveKeeps ==
    /\ starting' = [starting EXCEPT !.attached = FALSE]
    /\ mine' = 0
    /\ UNCHANGED isPolling

\* The state of SettingsPage goes with it, and its callbacks are not called.
Leave ==
    /\ isPolling' = FALSE
    /\ starting' = [starting EXCEPT !.attached = FALSE]
    /\ mine' = 0

\* The effect on mount runs twice under StrictMode.
GoTo(p) ==
    /\ UserDoes
    /\ place # "bank" /\ p # place
    /\ place' = p
    /\ Leave
    /\ effects' = IF p = "dashboard" THEN 2 ELSE 0
    /\ UNCHANGED <<job, busy, syncStatus, question, told, code, issued, sent>>

-----------------------------------------------------------------------------
(* Starting a sync.                                                         *)

\* With an earlier answer in the cache, or on its way, the page may take that
\* one for the end of its sync: what it tells then is not promised here.
Unspoilt == syncStatus = Unknown /\ question = Quiet

\* Mutant: the page polls from the click on.
PressSyncPolls ==
    /\ UserDoes
    /\ place = "settings"
    /\ starting.phase = "none" /\ ~isPolling
    /\ starting' = [phase |-> "sent", attached |-> TRUE]
    /\ isPolling' = TRUE
    /\ mine' = IF ~Unspoilt THEN 0 ELSE IF job.status = "running" THEN job.n ELSE job.n + 1
    /\ UNCHANGED <<job, busy, place, syncStatus, question, told, codeVars>>

\* Bound: one start at a time is on its way, also after the page was left.
PressSync ==
    /\ UserDoes
    /\ place = "settings"
    /\ starting.phase = "none" /\ ~isPolling
    /\ starting' = [phase |-> "sent", attached |-> TRUE]
    /\ mine' = IF ~Unspoilt THEN 0 ELSE IF job.status = "running" THEN job.n ELSE job.n + 1
    /\ UNCHANGED <<job, busy, place, syncStatus, question, isPolling, told, codeVars>>

\* start_sync_job: one that runs is joined; while the thread is busy otherwise,
\* none is begun, and the answer is the status as it is.
Begun ==
    IF busy \/ job.status = "running" THEN job
    ELSE [n |-> job.n + 1, status |-> "running"]

StartSync ==
    /\ starting.phase = "sent"
    /\ job' = Begun
    /\ starting' = [starting EXCEPT !.phase = "begun"]
    /\ mine' = IF job'.status = "running" THEN mine ELSE 0
    /\ UNCHANGED <<busy, place, syncStatus, question, isPolling, told, codeVars, steps>>

SyncStarted ==
    /\ starting.phase = "begun"
    /\ starting' = NoStart
    /\ isPolling' = (isPolling \/ starting.attached)
    /\ UNCHANGED <<job, busy, place, syncStatus, question, mine, told, codeVars, steps>>

\* The request or its answer is lost: the page says so.
StartLost ==
    /\ Happens
    /\ starting # NoStart
    /\ starting' = NoStart
    /\ mine' = IF starting.attached THEN 0 ELSE mine
    /\ UNCHANGED <<job, busy, place, syncStatus, question, isPolling, told, codeVars>>

-----------------------------------------------------------------------------
(* Watching it.                                                             *)

\* useSyncStatus: enabled while the page polls.
Ask ==
    /\ isPolling
    /\ question = Quiet
    /\ question' = [phase |-> "sent", of |-> Unknown]
    /\ UNCHANGED <<job, busy, place, syncStatus, isPolling, starting, mine, told, codeVars, steps>>

ReadStatus ==
    /\ question.phase = "sent"
    /\ question' = [phase |-> "read", of |-> job]
    /\ UNCHANGED <<job, busy, place, syncStatus, isPolling, starting, mine, told, codeVars, steps>>

StatusLands ==
    /\ question.phase = "read"
    /\ syncStatus' = question.of
    /\ question' = Quiet
    /\ UNCHANGED <<job, busy, place, isPolling, starting, mine, told, codeVars, steps>>

StatusLost ==
    /\ Happens
    /\ question # Quiet
    /\ question' = Quiet
    /\ UNCHANGED <<job, busy, place, syncStatus, isPolling, starting, mine, told, codeVars>>

\* Mutant: an end with errors is none.
SyncEffectTwo ==
    /\ isPolling /\ syncStatus.status \in Terminal \ {"completed_with_errors"}
    /\ isPolling' = FALSE
    /\ told' = syncStatus.n
    /\ mine' = 0
    /\ UNCHANGED <<job, busy, place, syncStatus, question, starting, codeVars, steps>>

\* The effect on the status: the end is told, and what shows postings is
\* asked for again (syncEnds in Views).
SyncEffect ==
    /\ isPolling /\ syncStatus.status \in Terminal
    /\ isPolling' = FALSE
    /\ told' = syncStatus.n
    /\ mine' = 0
    /\ UNCHANGED <<job, busy, place, syncStatus, question, starting, codeVars, steps>>

\* The job ends; "failed" is also what is found after a restart of the server.
JobEnds ==
    /\ job.status = "running"
    /\ \E s \in Terminal : job' = [job EXCEPT !.status = s]
    /\ UNCHANGED <<busy, place, syncStatus, question, isPolling, starting, mine, told, codeVars, steps>>

\* Another member starts a sync, or another household's begins or ends.
OthersSync ==
    /\ Happens
    /\ \/ job' = Begun /\ UNCHANGED busy
       \/ busy' = ~busy /\ (busy' => job.status # "running") /\ UNCHANGED job
    /\ UNCHANGED <<place, syncStatus, question, isPolling, starting, mine, told, codeVars>>

-----------------------------------------------------------------------------
(* Connecting a bank.                                                       *)

\* handleConnectBank: the answer's address replaces the page, and with it goes
\* all the client holds in memory.
Connect ==
    /\ UserDoes
    /\ place = "settings"
    /\ place' = "bank"
    /\ Leave
    /\ syncStatus' = Unknown
    /\ question' = Quiet
    /\ UNCHANGED <<job, busy, told, codeVars>>

\* The bank sends its visitor back, with a code when he has consented.
Return ==
    /\ place = "bank"
    /\ place' = "dashboard"
    /\ \E c \in BOOLEAN : code' = c /\ issued' = IF c THEN issued + 1 ELSE issued
    /\ effects' = 2
    /\ UNCHANGED <<syncVars, sent, steps>>

\* Mutant: the code leaves the address when the answer has come.
MountEffectKeeps ==
    /\ place = "dashboard" /\ effects > 0
    /\ effects' = effects - 1
    /\ sent' = IF code THEN sent + 1 ELSE sent
    /\ UNCHANGED <<syncVars, place, code, issued, steps>>

\* The code is taken out of the address before the request leaves.
MountEffect ==
    /\ place = "dashboard" /\ effects > 0
    /\ effects' = effects - 1
    /\ sent' = IF code THEN sent + 1 ELSE sent
    /\ code' = FALSE
    /\ UNCHANGED <<syncVars, place, issued, steps>>

BankNext ==
    \/ (\E p \in {"settings", "dashboard"} : GoTo(p))
    \/ PressSync \/ StartSync \/ SyncStarted \/ StartLost
    \/ Ask \/ ReadStatus \/ StatusLands \/ StatusLost \/ SyncEffect
    \/ JobEnds \/ OthersSync
    \/ Connect \/ Return \/ MountEffect

\* The interval of the query, the effects of React, and jobs that end.
BankFairness ==
    /\ WF_bankVars(Ask) /\ WF_bankVars(ReadStatus) /\ WF_bankVars(StatusLands)
    /\ WF_bankVars(SyncEffect) /\ WF_bankVars(MountEffect)
    /\ WF_bankVars(StartSync) /\ WF_bankVars(SyncStarted) /\ WF_bankVars(JobEnds)

BankSpec == BankInit /\ [][BankNext]_bankVars /\ BankFairness

-----------------------------------------------------------------------------
(* Properties.                                                              *)

\* Only the page that has asked for a sync polls, and it still waits for the one
\* it has not told of.
BankTypeOK ==
    /\ isPolling => place = "settings"
    /\ mine # 0 => isPolling \/ starting.attached
    /\ job.status \in Terminal \cup {"idle", "running"}
    /\ question.phase \in {"none", "sent", "read"} /\ question.of.n <= job.n
    /\ syncStatus.n <= job.n /\ told <= job.n

\* What the page tells as the end of the sync it has asked for is not the end of
\* one that was over before.
TellsOwnSync ==
    [][ mine # 0 /\ told' # told => told' >= mine ]_bankVars

\* A page that stays open tells the end of the sync it has asked for, however it
\* ended, after lost answers, and while others start theirs; unless the request
\* was lost or none was begun.
EndIsTold == mine # 0 ~> mine = 0

\* "Clear the code from the URL immediately to prevent double-call"
\* (DashboardPage.tsx:112): a code is sent at most once, and it is sent.
CodeSentOnce == sent <= issued /\ (place = "dashboard" /\ effects = 0 => sent = issued)
=============================================================================
