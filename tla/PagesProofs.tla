---------------------------- MODULE PagesProofs ----------------------------
(* What the bank pages tell and send, and what the bell and the review of   *)
(* duplicates keep, for any number of steps of the user, of the other       *)
(* members and of the network.                                              *)
EXTENDS BankPages, Notices, TLAPS

-----------------------------------------------------------------------------
(* The bank pages.                                                          *)

\* A code waits in the address only of a dashboard whose effect is still to run;
\* any other that was issued has been sent.
CodeInv ==
    /\ issued \in Nat /\ sent \in Nat /\ effects \in Nat /\ code \in BOOLEAN
    /\ code => place = "dashboard" /\ effects > 0 /\ issued = sent + 1
    /\ ~code => issued = sent

CodeVars == <<place, codeVars>>

\* While the start is on its way the page knows no status at all; from then on
\* every status it has or is sent is of the job it waits for or of a later one.
Waits ==
    mine # 0 =>
        /\ starting.phase = "sent" =>
             /\ starting.attached /\ ~isPolling
             /\ syncStatus = Unknown /\ question = Quiet
             /\ mine <= job.n \/ (mine = job.n + 1 /\ job.status # "running")
        /\ starting.phase # "sent" =>
             /\ starting.phase # "none" => starting.attached
             /\ mine <= job.n
             /\ syncStatus = Unknown \/ syncStatus.n >= mine
             /\ question.phase = "read" => question.of.n >= mine

Jobs ==
    /\ job \in [n: Nat, status: Terminal \cup {"idle", "running"}]
    /\ mine \in Nat
    /\ syncStatus.n \in Nat
    /\ question.phase \in {"none", "sent", "read"} /\ question.of.n \in Nat
    /\ starting.attached \in BOOLEAN
    /\ starting = [phase |-> starting.phase, attached |-> starting.attached]

OwnInv == Jobs /\ Waits

-----------------------------------------------------------------------------
(* Codes.                                                                    *)

LEMMA CodeStep == CodeInv /\ [BankNext]_bankVars => CodeInv'
<1> SUFFICES ASSUME CodeInv, [BankNext]_bankVars
             PROVE  CodeInv'
  OBVIOUS
<1>1. CASE UNCHANGED CodeVars
  BY <1>1 DEF CodeInv, CodeVars, codeVars
<1>2. CASE \E p \in {"settings", "dashboard"} : GoTo(p)
  BY <1>2 DEF CodeInv, GoTo, UserDoes
<1>3. CASE Connect
  BY <1>3 DEF CodeInv, Connect, UserDoes, codeVars
<1>4. CASE Return
  <2>1. ~code /\ issued = sent
    BY <1>4 DEF CodeInv, Return
  <2>2. PICK c \in BOOLEAN : code' = c /\ issued' = IF c THEN issued + 1 ELSE issued
    BY <1>4 DEF Return
  <2>3. place' = "dashboard" /\ effects' = 2 /\ sent' = sent
    BY <1>4 DEF Return
  <2>4. QED
    BY <2>1, <2>2, <2>3 DEF CodeInv
<1>5. CASE MountEffect
  <2>1. effects > 0 /\ effects' = effects - 1 /\ issued' = issued
    BY <1>5 DEF MountEffect
  <2>2. ~code'
    BY <1>5 DEF MountEffect
  <2>3. code' \in BOOLEAN
    BY <1>5, Zenon DEF MountEffect
  <2>4. sent' \in Nat /\ issued' = sent'
    <3>1. CASE code
      BY <1>5, <2>1, <3>1 DEF CodeInv, MountEffect
    <3>2. CASE ~code
      BY <1>5, <2>1, <3>2 DEF CodeInv, MountEffect
    <3>3. QED
      BY <3>1, <3>2
  <2>5. issued' \in Nat /\ effects' \in Nat
    BY <2>1 DEF CodeInv
  <2>6. QED
    BY <2>2, <2>3, <2>4, <2>5 DEF CodeInv
<1>6. CASE PressSync \/ StartSync \/ SyncStarted \/ StartLost
  BY <1>6, <1>1 DEF PressSync, StartSync, SyncStarted, StartLost, CodeVars
<1>7. CASE Ask \/ ReadStatus \/ StatusLands \/ StatusLost \/ SyncEffect
  BY <1>7, <1>1 DEF Ask, ReadStatus, StatusLands, StatusLost, SyncEffect, CodeVars
<1>8. CASE JobEnds \/ OthersSync
  BY <1>8, <1>1 DEF JobEnds, OthersSync, CodeVars
<1>9. CASE UNCHANGED bankVars
  BY <1>9, <1>1 DEF bankVars, CodeVars, codeVars
<1>10. QED
  BY <1>2, <1>3, <1>4, <1>5, <1>6, <1>7, <1>8, <1>9 DEF BankNext

\* A code the bank has issued is sent at most once, and is sent when the effects
\* of the dashboard have run (DashboardPage's effect on mount).
THEOREM CodeIsSentOnce == BankSpec => []CodeSentOnce
<1>1. BankInit => CodeInv
  <2> SUFFICES ASSUME BankInit PROVE CodeInv
    OBVIOUS
  <2>1. code = FALSE /\ issued = 0 /\ sent = 0 /\ effects = 0
    BY Zenon DEF BankInit
  <2>2. QED
    BY <2>1 DEF CodeInv
<1>2. CodeInv => CodeSentOnce
  BY DEF CodeInv, CodeSentOnce
<1>3. QED
  BY <1>1, <1>2, CodeStep, PTL DEF BankSpec

-----------------------------------------------------------------------------
(* A sync and its end.                                                       *)

LEMMA NothingAwaited ==
  ASSUME Jobs', mine' = 0
  PROVE  OwnInv'
  BY DEF OwnInv, Waits

\* A start joins the job that runs, or begins one; only a busy thread refuses it.
LEMMA BegunIsLater ==
  ASSUME OwnInv
  PROVE  /\ Begun \in [n: Nat, status: Terminal \cup {"idle", "running"}]
         /\ Begun.n >= job.n
         /\ Begun.status = "running" /\ job.status # "running" => Begun.n = job.n + 1
  BY DEF OwnInv, Jobs, Begun

LEMMA OwnPress == ASSUME OwnInv, PressSync PROVE OwnInv'
<1>1. /\ starting' = [phase |-> "sent", attached |-> TRUE] /\ ~isPolling
      /\ mine' = IF ~Unspoilt THEN 0 ELSE IF job.status = "running" THEN job.n ELSE job.n + 1
      /\ UNCHANGED <<job, syncStatus, question, isPolling>>
  BY DEF PressSync
<1>2. Jobs'
  BY <1>1 DEF OwnInv, Jobs
<1>3. CASE Unspoilt
  BY <1>1, <1>2, <1>3 DEF OwnInv, Jobs, Waits, Unspoilt
<1>4. CASE ~Unspoilt
  BY <1>1, <1>2, <1>4, NothingAwaited
<1>5. QED
  BY <1>3, <1>4

LEMMA OwnStart == ASSUME OwnInv, StartSync PROVE OwnInv'
<1>1. /\ starting.phase = "sent" /\ job' = Begun
      /\ starting' = [starting EXCEPT !.phase = "begun"]
      /\ mine' = IF job'.status = "running" THEN mine ELSE 0
      /\ UNCHANGED <<syncStatus, question, isPolling>>
  BY DEF StartSync
<1>2. starting'.phase = "begun" /\ starting'.attached = starting.attached
  BY <1>1 DEF OwnInv, Jobs
<1>3. Jobs'
  BY <1>1, <1>2, BegunIsLater DEF OwnInv, Jobs
<1>4. CASE mine = 0 \/ job'.status # "running"
  BY <1>1, <1>3, <1>4, NothingAwaited
<1>5. CASE mine # 0 /\ job'.status = "running"
  <2>1. /\ starting.attached /\ syncStatus = Unknown /\ question = Quiet
        /\ mine <= job.n \/ (mine = job.n + 1 /\ job.status # "running")
    BY <1>1, <1>5 DEF OwnInv, Waits
  <2>2. mine <= job'.n
    BY <1>1, <1>5, <2>1, BegunIsLater DEF OwnInv, Jobs
  <2>3. Waits'
    BY <1>1, <1>2, <2>1, <2>2 DEF Waits, Quiet
  <2>4. QED
    BY <1>3, <2>3 DEF OwnInv
<1>6. QED
  BY <1>4, <1>5

LEMMA OwnJob ==
  ASSUME OwnInv, JobEnds \/ OthersSync
  PROVE  OwnInv'
<1>1. /\ UNCHANGED <<syncStatus, question, isPolling, starting, mine>>
      /\ \/ job' = Begun
         \/ job' = job
         \/ job.status = "running" /\ \E s \in Terminal : job' = [job EXCEPT !.status = s]
  BY DEF JobEnds, OthersSync
<1>2. /\ job' \in [n: Nat, status: Terminal \cup {"idle", "running"}] /\ job'.n >= job.n
      /\ job.status # "running" =>
           (job'.n = job.n /\ job'.status # "running") \/ job'.n >= job.n + 1
  BY <1>1, BegunIsLater DEF OwnInv, Jobs, Terminal, Begun
<1>3. Jobs'
  BY <1>1, <1>2 DEF OwnInv, Jobs
<1>4. Waits'
  BY <1>1, <1>2 DEF OwnInv, Jobs, Waits
<1>5. QED
  BY <1>3, <1>4 DEF OwnInv

LEMMA OwnLost == ASSUME OwnInv, StartLost PROVE OwnInv'
<1>1. starting # NoStart /\ starting' = NoStart
  BY DEF StartLost
<1>2. mine' = IF starting.attached THEN 0 ELSE mine
  BY DEF StartLost
<1>3. UNCHANGED <<job, syncStatus, question, isPolling>>
  BY DEF StartLost
<1>4. mine' \in Nat
  BY <1>2 DEF OwnInv, Jobs
<1>5. Jobs'
  BY <1>1, <1>3, <1>4 DEF OwnInv, Jobs, NoStart
<1>6. CASE starting.attached
  BY <1>2, <1>5, <1>6, NothingAwaited
<1>7. CASE ~starting.attached
  <2>1. starting.phase # "none"
    BY <1>1, <1>7 DEF OwnInv, Jobs, NoStart
  <2>2. mine = 0
    BY <1>7, <2>1 DEF OwnInv, Waits
  <2>3. QED
    BY <1>2, <1>5, <2>2, NothingAwaited
<1>8. QED
  BY <1>6, <1>7

LEMMA OwnStep == OwnInv /\ [BankNext]_bankVars => OwnInv'
<1> SUFFICES ASSUME OwnInv, [BankNext]_bankVars
             PROVE  OwnInv'
  OBVIOUS
<1>1. CASE UNCHANGED <<job, mine, syncStatus, question, starting, isPolling>>
  BY <1>1 DEF OwnInv, Jobs, Waits
<1>2. CASE \E p \in {"settings", "dashboard"} : GoTo(p)
  <2>1. mine' = 0 /\ UNCHANGED <<job, syncStatus, question>>
        /\ starting' = [starting EXCEPT !.attached = FALSE]
    BY <1>2 DEF GoTo, Leave
  <2>2. QED
    BY <2>1, NothingAwaited DEF OwnInv, Jobs
<1>3. CASE Connect
  <2>1. mine' = 0 /\ UNCHANGED job /\ syncStatus' = Unknown /\ question' = Quiet
        /\ starting' = [starting EXCEPT !.attached = FALSE]
    BY <1>3 DEF Connect, Leave
  <2>2. QED
    BY <2>1, NothingAwaited DEF OwnInv, Jobs, Unknown, Quiet
<1>4. CASE PressSync
  BY <1>4, OwnPress
<1>5. CASE StartSync
  BY <1>5, OwnStart
<1>6. CASE SyncStarted
  BY <1>6 DEF SyncStarted, OwnInv, Jobs, Waits, NoStart
<1>7. CASE StartLost
  BY <1>7, OwnLost
<1>8. CASE Ask
  BY <1>8 DEF Ask, OwnInv, Jobs, Waits, Unknown
<1>9. CASE ReadStatus
  BY <1>9 DEF ReadStatus, OwnInv, Jobs, Waits, Quiet
<1>10. CASE StatusLands
  BY <1>10 DEF StatusLands, OwnInv, Jobs, Waits, Quiet, Unknown
<1>11. CASE StatusLost
  BY <1>11 DEF StatusLost, OwnInv, Jobs, Waits, Quiet, Unknown
<1>12. CASE SyncEffect
  BY <1>12, NothingAwaited DEF SyncEffect, OwnInv, Jobs
<1>13. CASE JobEnds \/ OthersSync
  BY <1>13, OwnJob
<1>14. CASE Return \/ MountEffect
  BY <1>14, <1>1 DEF Return, MountEffect, syncVars
<1>15. CASE UNCHANGED bankVars
  BY <1>15, <1>1 DEF bankVars, syncVars
<1>16. QED
  BY <1>2, <1>3, <1>4, <1>5, <1>6, <1>7, <1>8, <1>9, <1>10, <1>11, <1>12, <1>13, <1>14, <1>15
  DEF BankNext

LEMMA TellsStep == OwnInv /\ [BankNext]_bankVars => (mine # 0 /\ told' # told => told' >= mine)
<1> SUFFICES ASSUME OwnInv, [BankNext]_bankVars, mine # 0, told' # told
             PROVE  told' >= mine
  OBVIOUS
<1>1. SyncEffect
  BY DEF BankNext, bankVars, syncVars, GoTo, PressSync, StartSync, SyncStarted, StartLost, Ask,
         ReadStatus, StatusLands, StatusLost, JobEnds, OthersSync, Connect, Return, MountEffect
<1>2. isPolling /\ syncStatus.status \in Terminal /\ told' = syncStatus.n
  BY <1>1 DEF SyncEffect
<1>3. syncStatus # Unknown
  BY <1>2 DEF Unknown, Terminal
<1>4. QED
  BY <1>2, <1>3 DEF OwnInv, Waits

\* A page that started its sync with no older status in hand tells no end of a
\* sync that was over before (SettingsPage's effect on syncStatus).
THEOREM OwnSyncIsTold == BankSpec => TellsOwnSync
<1>1. BankInit => OwnInv
  BY DEF BankInit, OwnInv, Jobs, Waits, Unknown, Quiet, NoStart
<1>2. OwnInv /\ [BankNext]_bankVars => [mine # 0 /\ told' # told => told' >= mine]_bankVars
  BY TellsStep
<1>3. QED
  BY <1>1, <1>2, OwnStep, PTL DEF BankSpec, TellsOwnSync

-----------------------------------------------------------------------------
(* Who polls, and what can be known of the jobs.                             *)

\* A page that waits for its start, or polls, is the page of the settings, and
\* one that waits for an end does either; nothing is known of a job before it
\* is there.
Watch ==
    /\ isPolling \/ starting.attached => place = "settings"
    /\ mine # 0 => isPolling \/ starting.attached
    /\ question.of.n <= job.n /\ syncStatus.n <= job.n
    /\ told \in Nat /\ told <= job.n

\* What is known stays behind a job's number that grows.
LEMMA JobsGrow ==
  ASSUME OwnInv, Watch, job'.n \in Nat, job'.n >= job.n, UNCHANGED <<question, syncStatus, told>>
  PROVE  question'.of.n <= job'.n /\ syncStatus'.n <= job'.n /\ told' \in Nat /\ told' <= job'.n
<1>1. question.of.n \in Nat /\ syncStatus.n \in Nat /\ job.n \in Nat
  BY DEF OwnInv, Jobs
<1>2. QED
  BY <1>1 DEF Watch

LEMMA WatchStep == OwnInv /\ Watch /\ [BankNext]_bankVars => Watch'
<1> SUFFICES ASSUME OwnInv, Watch, [BankNext]_bankVars PROVE Watch'
  OBVIOUS
<1>0. /\ job.n \in Nat /\ starting = [phase |-> starting.phase, attached |-> starting.attached]
      /\ starting.attached \in BOOLEAN
  BY DEF OwnInv, Jobs
<1>1. CASE UNCHANGED <<job, mine, syncStatus, question, starting, isPolling, place, told>>
  BY <1>1 DEF Watch
<1>2. ASSUME Leave, UNCHANGED <<job, told>>,
             UNCHANGED <<syncStatus, question>> \/ (syncStatus' = Unknown /\ question' = Quiet)
      PROVE  Watch'
  <2>1. isPolling' = FALSE /\ mine' = 0 /\ starting' = [starting EXCEPT !.attached = FALSE]
    BY <1>2 DEF Leave
  <2>2. starting'.attached = FALSE
    BY <1>0, <2>1
  <2>3. QED
    BY <1>0, <1>2, <2>1, <2>2 DEF Watch, Unknown, Quiet
<1>3. CASE \E p \in {"settings", "dashboard"} : GoTo(p)
  BY <1>2, <1>3 DEF GoTo
<1>4. CASE Connect
  BY <1>2, <1>4 DEF Connect
<1>5. CASE PressSync
  BY <1>5 DEF PressSync, Watch
<1>6. CASE StartSync
  <2>1. /\ job' = Begun /\ starting' = [starting EXCEPT !.phase = "begun"] /\ mine' \in {mine, 0}
        /\ UNCHANGED <<place, syncStatus, question, isPolling, told>>
    BY <1>6 DEF StartSync
  <2>2. starting'.attached = starting.attached
    BY <1>0, <2>1
  <2>3. job'.n \in Nat /\ job'.n >= job.n
    BY <2>1, BegunIsLater
  <2>4. QED
    BY <2>1, <2>2, <2>3, JobsGrow DEF Watch
<1>7. CASE SyncStarted
  BY <1>7 DEF SyncStarted, NoStart, Watch
<1>8. CASE StartLost
  <2>1. starting' = NoStart /\ mine' = (IF starting.attached THEN 0 ELSE mine)
        /\ UNCHANGED <<job, place, syncStatus, question, isPolling, told>>
    BY <1>8 DEF StartLost
  <2>2. starting'.attached = FALSE
    BY <2>1 DEF NoStart
  <2>3. QED
    BY <2>1, <2>2 DEF Watch
<1>9. CASE Ask
  BY <1>0, <1>9 DEF Ask, Watch, Unknown
<1>10. CASE ReadStatus
  BY <1>0, <1>10 DEF ReadStatus, Watch
<1>11. CASE StatusLands
  BY <1>0, <1>11 DEF StatusLands, Watch, Quiet, Unknown
<1>12. CASE StatusLost
  BY <1>0, <1>12 DEF StatusLost, Watch, Quiet, Unknown
<1>13. CASE SyncEffect
  <2>1. syncStatus.n \in Nat
    BY DEF OwnInv, Jobs
  <2>2. QED
    BY <1>13, <2>1 DEF SyncEffect, Watch
<1>14. CASE JobEnds \/ OthersSync
  <2>1. /\ UNCHANGED <<place, syncStatus, question, isPolling, starting, mine, told>>
        /\ \/ job' = Begun \/ job' = job
           \/ \E s \in Terminal : job' = [job EXCEPT !.status = s]
    BY <1>14 DEF JobEnds, OthersSync
  <2>2. job'.n \in Nat /\ job'.n >= job.n
    BY <1>0, <2>1, BegunIsLater DEF OwnInv, Jobs
  <2>3. QED
    BY <2>1, <2>2, JobsGrow DEF Watch
<1>15. CASE Return
  BY <1>15 DEF Return, syncVars, Watch
<1>16. CASE MountEffect \/ UNCHANGED bankVars
  BY <1>1, <1>16 DEF MountEffect, bankVars, syncVars
<1>17. QED
  BY <1>3, <1>4, <1>5, <1>6, <1>7, <1>8, <1>9, <1>10, <1>11, <1>12, <1>13, <1>14, <1>15, <1>16
  DEF BankNext

\* Only the page of the settings polls, and it does or will for as long as it has
\* a sync of its own whose end it has not told (SettingsPage's isPollingSync and
\* startSyncMutation).
THEOREM OnlySettingsPolls == BankSpec => []BankTypeOK
<1>1. BankInit => OwnInv /\ Watch
  BY DEF BankInit, OwnInv, Jobs, Waits, Watch, Unknown, Quiet, NoStart
<1>2. OwnInv /\ Watch => BankTypeOK
  BY DEF OwnInv, Jobs, Watch, BankTypeOK
<1>3. QED
  BY <1>1, <1>2, OwnStep, WatchStep, PTL DEF BankSpec

-----------------------------------------------------------------------------
(* The bell and the review of duplicates.                                   *)

\* The window shows one of the bells, each has a set of its own, and the cache
\* an entry for each query.
Shapes ==
    /\ bell \in Bell
    /\ readIds = [b \in Bell |-> readIds[b]]
    /\ cache = [q \in Feed |-> cache[q]]

\* The bell in use, or each while none has been, holds what is stored.
UsedIsStored == ~crossed => \A b \in Bell : used \in {"none", b} => readIds[b] = storage

\* What a list has marked is in it, so that marking all takes no mark away.
TickedIsListed == cache["list"] # {} => ticked \subseteq cache["list"]

ReadInv == Shapes /\ UsedIsStored /\ TickedIsListed /\ ReadStaysRead

readStateVars == <<bell, cache, readVars, histVars>>

-----------------------------------------------------------------------------

LEMMA ReadUnchanged ==
  ASSUME ReadInv, UNCHANGED readStateVars
  PROVE  ReadInv'
  BY DEF readStateVars, readVars, histVars, ReadInv, Shapes, UsedIsStored, TickedIsListed, ReadStaysRead

\* A bell that overwrites what is stored with its own marks, and with those that
\* are new, gives up none as long as it is the only one in use.
LEMMA SetReadIdsKeeps ==
  ASSUME ReadInv, NEW b \in Bell, NEW ids, NEW new, SetReadIds(b, ids, new),
         UNCHANGED <<bell, cache>>,
         new \subseteq ids, new \subseteq cache["list"],
         readIds[b] \subseteq ids \/ (cache["list"] # {} /\ cache["list"] \subseteq ids)
  PROVE  ReadInv'
<1>1. /\ readIds' = [readIds EXCEPT ![b] = ids] /\ storage' = ids
      /\ ticked' = ticked \cup new
      /\ used' = b /\ crossed' = (crossed \/ used \notin {"none", b})
  BY DEF SetReadIds, Uses
<1>2. Shapes'
  BY <1>1 DEF ReadInv, Shapes
<1>3. UsedIsStored'
  <2>1. readIds'[b] = ids
    BY <1>1 DEF ReadInv, Shapes
  <2>2. b # "none"
    BY DEF Bell
  <2>3. QED
    BY <1>1, <2>1, <2>2 DEF UsedIsStored
<1>4. TickedIsListed'
  BY <1>1 DEF ReadInv, TickedIsListed
<1>5. ReadStaysRead'
  <2>1. CASE crossed'
    BY <2>1 DEF ReadStaysRead
  <2>2. CASE ~crossed'
    <3>1. ~crossed /\ used \in {"none", b}
      BY <1>1, <2>2
    <3>2. readIds[b] = storage /\ ticked \subseteq storage
      BY <3>1 DEF ReadInv, UsedIsStored, ReadStaysRead
    <3>3. ticked \subseteq ids
      BY <3>2 DEF ReadInv, TickedIsListed
    <3>4. QED
      BY <1>1, <3>3 DEF ReadStaysRead
  <2>3. QED
    BY <2>1, <2>2
<1>6. QED
  BY <1>2, <1>3, <1>4, <1>5 DEF ReadInv

LEMMA MarkAsReadKeeps ==
  ASSUME ReadInv, NEW b \in Bell, NEW n, MarkAsRead(b, n), UNCHANGED <<bell, cache>>
  PROVE  ReadInv'
<1>1. SetReadIds(b, readIds[b] \cup {n}, {n} \cap cache["list"])
  BY DEF MarkAsRead
<1>2. QED
  BY <1>1, SetReadIdsKeeps

\* A list that arrives takes the marks of what it no longer names out of ticked.
LEMMA FeedLandsKeeps ==
  ASSUME ReadInv, NEW q \in Feed, FeedLands(q)
  PROVE  ReadInv'
<1>1. /\ cache' = [cache EXCEPT ![q] = request[q].val]
      /\ ticked' = IF q = "list" THEN ticked \cap request[q].val ELSE ticked
      /\ UNCHANGED <<bell, readIds, storage, used, crossed>>
  BY DEF FeedLands, FeedStep, bellVars, histVars
<1>2. Shapes' /\ UsedIsStored'
  BY <1>1 DEF ReadInv, Shapes, UsedIsStored
<1>3. TickedIsListed' /\ ReadStaysRead'
  <2>1. CASE q = "list"
    BY <1>1, <2>1 DEF ReadInv, Shapes, TickedIsListed, ReadStaysRead
  <2>2. CASE q # "list"
    <3>1. cache'["list"] = cache["list"]
      BY <1>1, <2>2 DEF ReadInv, Shapes, Feed
    <3>2. QED
      BY <1>1, <2>2, <3>1 DEF ReadInv, TickedIsListed, ReadStaysRead
  <2>3. QED
    BY <2>1, <2>2
<1>4. QED
  BY <1>2, <1>3 DEF ReadInv

LEMMA ReloadBellsKeeps ==
  ASSUME ReadInv, ReloadBells
  PROVE  ReadInv'
<1>1. /\ cache' = [q \in Feed |-> {}]
      /\ readIds' = [b \in Bell |-> storage]
      /\ UNCHANGED <<bell, storage, ticked, crossed>>
  BY DEF ReloadBells
<1>2. "list" \in Feed
  BY DEF Feed
<1>3. QED
  BY <1>1, <1>2 DEF ReadInv, Shapes, UsedIsStored, TickedIsListed, ReadStaysRead

-----------------------------------------------------------------------------

LEMMA StepKeepsRead == ReadInv /\ [NoticesNext]_noticesVars => ReadInv'
<1> SUFFICES ASSUME ReadInv, [NoticesNext]_noticesVars
             PROVE  ReadInv'
  OBVIOUS
<1> USE DEF readStateVars
<1>0. bell \in Bell
  BY DEF ReadInv, Shapes
<1>1. CASE UNCHANGED noticesVars
  BY <1>1, ReadUnchanged DEF noticesVars, feedVars, bellVars, readVars, histVars
<1>2. CASE FeedPolled \/ NoticeComes
  BY <1>2, ReadUnchanged DEF FeedPolled, NoticeComes, FeedStep, feedVars, bellVars, readVars, histVars
<1>3. CASE \E q \in Feed : FeedRead(q) \/ FeedLands(q) \/ FeedLost(q)
  <2>1. PICK q \in Feed : FeedRead(q) \/ FeedLands(q) \/ FeedLost(q)
    BY <1>3
  <2>2. CASE FeedRead(q) \/ FeedLost(q)
    BY <2>2, ReadUnchanged DEF FeedRead, FeedLost, FeedStep, bellVars, readVars, histVars
  <2>3. QED
    BY <2>1, <2>2, FeedLandsKeeps
<1>4. CASE OpenDrawer \/ CloseDrawer \/ SetTab
  BY <1>4, ReadUnchanged DEF OpenDrawer, CloseDrawer, SetTab, InDrawer, Glance, feedVars, readVars, histVars
<1>5. CASE Resize
  <2>1. bell' \in Bell /\ UNCHANGED <<cache, readIds, storage, ticked, used, crossed>>
    BY <1>5 DEF Resize, Glance, feedVars, readVars, histVars
  <2>2. QED
    BY <2>1 DEF ReadInv, Shapes, UsedIsStored, TickedIsListed, ReadStaysRead
<1>6. CASE MarkNotice
  BY <1>0, <1>6, MarkAsReadKeeps DEF MarkNotice, InDrawer, Glance, feedVars
<1>7. CASE MarkAllAsRead
  <2>1. /\ SetReadIds(bell, cache["list"], cache["list"]) /\ UNCHANGED <<bell, cache>>
        /\ cache["list"] # {}
    BY <1>7 DEF MarkAllAsRead, Unread, InDrawer, Glance, feedVars
  <2>2. QED
    BY <1>0, <2>1, SetReadIdsKeeps
<1>8. CASE ClickNotice
  BY <1>0, <1>8, MarkAsReadKeeps DEF ClickNotice, InDrawer, Glance, feedVars
<1>9. CASE CreateRule
  <2>1. /\ used' = bell /\ crossed' = (crossed \/ used \notin {"none", bell})
        /\ UNCHANGED <<bell, cache, readIds, storage, ticked>>
    BY <1>9 DEF CreateRule, Uses, InDrawer, Glance, feedVars, readVars
  <2>2. UsedIsStored'
    BY <1>0, <2>1 DEF ReadInv, UsedIsStored, Bell
  <2>3. QED
    BY <2>1, <2>2 DEF ReadInv, Shapes, TickedIsListed, ReadStaysRead
<1>10. CASE OpenReview \/ CloseReview \/ ViewInTransactions
  BY <1>10, ReadUnchanged
  DEF OpenReview, CloseReview, ViewInTransactions, InReview, Glance, feedVars, bellVars, readVars, histVars
<1>11. CASE ResolveOverlaps \/ DismissGroup \/ DismissAllSameAccount
  BY <1>11, ReadUnchanged
  DEF ResolveOverlaps, DismissGroup, DismissAllSameAccount, Begins, InReview, Glance, feedVars, readVars, histVars
<1>12. CASE \E b \in Bell : RuleStored(b) \/ RuleAnswered(b) \/ RuleLost(b)
  <2>1. PICK b \in Bell : RuleStored(b) \/ RuleAnswered(b) \/ RuleLost(b)
    BY <1>12
  <2>2. CASE RuleStored(b) \/ RuleLost(b)
    BY <2>2, ReadUnchanged DEF RuleStored, RuleLost, feedVars, bellVars, readVars, histVars
  <2>3. CASE RuleAnswered(b)
    BY <2>3, MarkAsReadKeeps DEF RuleAnswered, bellVars
  <2>4. QED
    BY <2>1, <2>2, <2>3
<1>13. CASE \E b \in Bell, k \in Task : ReviewStored(b, k) \/ ReviewAnswered(b, k) \/ ReviewLost(b, k)
  BY <1>13, ReadUnchanged DEF ReviewStored, ReviewAnswered, ReviewLost, feedVars, bellVars, readVars, histVars
<1>14. CASE ReloadBells
  BY <1>14, ReloadBellsKeeps
<1>15. QED
  BY <1>1, <1>2, <1>3, <1>4, <1>5, <1>6, <1>7, <1>8, <1>9, <1>10, <1>11, <1>12, <1>13, <1>14
  DEF NoticesNext

\* While one bell is used, no sequence of marks, lists and reloads loses the mark
\* of a notice that is still listed (NotificationDrawer's readIds and its effect).
THEOREM ReadIsKept == NoticesSpec => []ReadStaysRead
<1>1. NoticesInit => ReadInv
  BY DEF NoticesInit, ReadInv, Shapes, UsedIsStored, TickedIsListed, ReadStaysRead, Bell, Feed
<1>2. ReadInv => ReadStaysRead
  BY DEF ReadInv
<1>3. QED
  BY <1>1, <1>2, StepKeepsRead, PTL DEF NoticesSpec

-----------------------------------------------------------------------------
(* Groups that are settled.                                                  *)

Reply == [phase: {"none", "sent", "read"}, val: SUBSET Notice]
Chore == [phase: {"none", "sent", "stored"}, what: SUBSET Notice]

FeedTypes ==
    /\ live \subseteq Notice /\ coming \subseteq {"overlap"} /\ missed \in Nat
    /\ cache \in [Feed -> SUBSET Notice]
    /\ request \in [Feed -> Reply]
    /\ \A q \in Feed : request[q].phase = "none" => request[q] = NoAnswer
    /\ doing \in [Bell -> [Task -> Chore]]

\* What is still to come has been seen by no one.
Novel ==
    \A n \in coming :
        /\ n \notin live /\ n \notin gone
        /\ \A q \in Feed : n \notin cache[q] /\ n \notin request[q].val
        /\ \A b \in Bell, k \in Task : n \notin doing[b][k].what

\* What a review has settled, or the server for one, is not there any more.
Settled ==
    /\ gone \cap live = {}
    /\ \A b \in Bell, k \in Task : doing[b][k].phase = "stored" => doing[b][k].what \cap live = {}

FeedInv == FeedTypes /\ Novel /\ Settled /\ GoneIsGone

aboutFeeds == <<live, coming, cache, request, doing, gone, missed>>

LEMMA FeedUnchanged ==
  ASSUME FeedInv, UNCHANGED aboutFeeds
  PROVE  FeedInv'
  BY DEF aboutFeeds, FeedInv, FeedTypes, Novel, Settled, GoneIsGone

\* A request becomes the reply r.
LEMMA RequestSet ==
  ASSUME FeedInv, NEW q \in Feed, NEW r \in Reply, request' = [request EXCEPT ![q] = r],
         r.phase = "none" => r = NoAnswer
  PROVE  /\ request' \in [Feed -> Reply]
         /\ \A p \in Feed : request'[p].phase = "none" => request'[p] = NoAnswer
         /\ \A p \in Feed : request'[p] = IF p = q THEN r ELSE request[p]
  BY DEF FeedInv, FeedTypes

LEMMA Replies == NoAnswer \in Reply /\ Wanted \in Reply /\ Wanted.phase = "sent" /\ Wanted.val = {}
                 /\ NoAnswer.val = {} /\ NoAnswer.phase = "none"
  BY DEF NoAnswer, Wanted, Reply

\* One of the mutations of a review becomes the chore v.
LEMMA ChoreSet ==
  ASSUME FeedInv, NEW b \in Bell, NEW k \in Task, NEW v \in Chore, doing' = [doing EXCEPT ![b][k] = v]
  PROVE  /\ doing' \in [Bell -> [Task -> Chore]]
         /\ \A c \in Bell, j \in Task : doing'[c][j] = IF c = b /\ j = k THEN v ELSE doing[c][j]
<1>1. doing \in [Bell -> [Task -> Chore]]
  BY DEF FeedInv, FeedTypes
<1>2. doing' = [doing EXCEPT ![b] = [doing[b] EXCEPT ![k] = v]]
  OBVIOUS
<1>3. [doing[b] EXCEPT ![k] = v] \in [Task -> Chore]
  BY <1>1
<1>4. doing' \in [Bell -> [Task -> Chore]]
  BY <1>1, <1>2, <1>3
<1>5. \A c \in Bell : doing'[c] = IF c = b THEN [doing[b] EXCEPT ![k] = v] ELSE doing[c]
  BY <1>1, <1>2
<1>6. \A j \in Task : [doing[b] EXCEPT ![k] = v][j] = IF j = k THEN v ELSE doing[b][j]
  BY <1>1
<1>7. QED
  BY <1>4, <1>5, <1>6

\* What is asked for again is wanted, unless its first answer is on its way.
LEMMA AskedAgain ==
  ASSUME FeedInv, NEW qs, AskAgain(qs)
  PROVE  /\ request' \in [Feed -> Reply]
         /\ \A q \in Feed : request'[q] = Wanted \/ request'[q] = request[q]
         /\ missed' \in Nat /\ missed' >= missed
         /\ missed' = missed => \A q \in Feed \cap qs : request'[q].phase = "sent"
<1>1. request' = [q \in Feed |-> IF q \in qs /\ (q \in loaded \/ request[q] = NoAnswer)
                                 THEN Wanted ELSE request[q]]
  BY DEF AskAgain
<1>2. missed' = IF \E q \in qs \ loaded : request[q].phase = "read" THEN missed + 1 ELSE missed
  BY DEF AskAgain
<1>3. request \in [Feed -> Reply] /\ missed \in Nat
  BY DEF FeedInv, FeedTypes
<1>4. \A q \in Feed : request'[q] = Wanted \/ request'[q] = request[q]
  BY <1>1
<1>5. request' \in [Feed -> Reply]
  BY <1>1, <1>3, Replies
<1>6. missed' \in Nat /\ missed' >= missed
  BY <1>2, <1>3
<1>7. ASSUME missed' = missed, NEW q \in Feed \cap qs PROVE request'[q].phase = "sent"
  <2>1. CASE q \in loaded \/ request[q] = NoAnswer
    BY <1>1, <2>1, Replies
  <2>2. CASE ~(q \in loaded \/ request[q] = NoAnswer)
    <3>1. ~(\E p \in qs \ loaded : request[p].phase = "read")
      BY <1>2, <1>3, <1>7
    <3>2. request[q].phase \in {"none", "sent", "read"}
      BY <1>3 DEF Reply
    <3>3. request[q].phase = "sent"
      BY <2>2, <3>1, <3>2 DEF FeedInv, FeedTypes
    <3>4. QED
      BY <1>1, <2>2, <3>3
  <2>3. QED
    BY <2>1, <2>2
<1>8. QED
  BY <1>4, <1>5, <1>6, <1>7

\* The requests of the two queries and their answers.
LEMMA GonePolled == ASSUME FeedInv, FeedPolled PROVE FeedInv'
<1>1. /\ request' = [request EXCEPT !["list"] = Wanted] /\ "list" \in Feed
      /\ UNCHANGED <<live, coming, cache, doing, gone, missed>>
  BY DEF FeedPolled, FeedStep, reviewVars, Feed
<1>2. request' \in [Feed -> Reply] /\ (\A p \in Feed : request'[p].phase = "none" => request'[p] = NoAnswer)
      /\ \A p \in Feed : request'[p] = IF p = "list" THEN Wanted ELSE request[p]
  BY <1>1, RequestSet, Replies
<1>3. QED
  BY <1>1, <1>2, Replies DEF FeedInv, FeedTypes, Novel, Settled, GoneIsGone

LEMMA GoneRead == ASSUME FeedInv, NEW q \in Feed, FeedRead(q) PROVE FeedInv'
<1> DEFINE r == [phase |-> "read", val |-> Serves(q)]
<1>1. /\ request' = [request EXCEPT ![q] = r]
      /\ UNCHANGED <<live, coming, cache, doing, gone, missed>>
  BY DEF FeedRead, FeedStep, reviewVars
<1>2. Serves(q) \subseteq live /\ Serves(q) \subseteq Notice
  BY DEF Serves, FeedInv, FeedTypes
<1>3. r \in Reply /\ r.phase = "read" /\ r.val = Serves(q)
  BY <1>2 DEF Reply
<1> HIDE DEF r
<1>4. request' \in [Feed -> Reply] /\ (\A p \in Feed : request'[p].phase = "none" => request'[p] = NoAnswer)
      /\ \A p \in Feed : request'[p] = IF p = q THEN r ELSE request[p]
  BY <1>1, <1>3, RequestSet
<1>5. FeedTypes'
  BY <1>1, <1>4 DEF FeedInv, FeedTypes
<1>6. Novel'
  BY <1>1, <1>2, <1>3, <1>4 DEF FeedInv, Novel
<1>7. GoneIsGone'
  BY <1>1, <1>2, <1>3, <1>4 DEF FeedInv, Settled, GoneIsGone
<1>8. QED
  BY <1>1, <1>5, <1>6, <1>7 DEF FeedInv, Settled

LEMMA GoneLands == ASSUME FeedInv, NEW q \in Feed, FeedLands(q) PROVE FeedInv'
<1>1. /\ request[q].phase = "read" /\ request' = [request EXCEPT ![q] = NoAnswer]
      /\ cache' = [cache EXCEPT ![q] = request[q].val]
      /\ UNCHANGED <<live, coming, doing, gone, missed>>
  BY DEF FeedLands, FeedStep, reviewVars
<1>2. request' \in [Feed -> Reply] /\ (\A p \in Feed : request'[p].phase = "none" => request'[p] = NoAnswer)
      /\ \A p \in Feed : request'[p] = IF p = q THEN NoAnswer ELSE request[p]
  BY <1>1, RequestSet, Replies
<1>3. /\ request[q].val \subseteq Notice /\ cache \in [Feed -> SUBSET Notice]
  BY DEF FeedInv, FeedTypes, Reply
<1>4. /\ cache' \in [Feed -> SUBSET Notice]
      /\ \A p \in Feed : cache'[p] = IF p = q THEN request[q].val ELSE cache[p]
  BY <1>1, <1>3
<1>5. FeedTypes'
  BY <1>1, <1>2, <1>4 DEF FeedInv, FeedTypes
<1>6. Novel'
  BY <1>1, <1>2, <1>4, Replies DEF FeedInv, Novel
<1>7. GoneIsGone'
  BY <1>1, <1>2, <1>4, Replies DEF FeedInv, GoneIsGone
<1>8. QED
  BY <1>1, <1>5, <1>6, <1>7 DEF FeedInv, Settled

LEMMA GoneLost == ASSUME FeedInv, NEW q \in Feed, FeedLost(q) PROVE FeedInv'
<1>1. /\ request' = [request EXCEPT ![q] = NoAnswer] /\ missed' = missed + 1
      /\ UNCHANGED <<live, coming, cache, doing, gone>>
  BY DEF FeedLost, FeedStep, reviewVars
<1>2. request' \in [Feed -> Reply] /\ (\A p \in Feed : request'[p].phase = "none" => request'[p] = NoAnswer)
      /\ \A p \in Feed : request'[p] = IF p = q THEN NoAnswer ELSE request[p]
  BY <1>1, RequestSet, Replies
<1>3. missed' \in Nat /\ missed' # 0
  BY <1>1 DEF FeedInv, FeedTypes
<1>4. FeedTypes'
  BY <1>1, <1>2, <1>3 DEF FeedInv, FeedTypes
<1>5. Novel'
  BY <1>1, <1>2, Replies DEF FeedInv, Novel
<1>6. QED
  BY <1>1, <1>3, <1>4, <1>5 DEF FeedInv, Settled, GoneIsGone

\* More is lost, or less is live, and the rest as it was.
LEMMA GoneLess ==
  ASSUME FeedInv, live' \subseteq live, missed' \in Nat, missed' >= missed,
         UNCHANGED <<coming, cache, request, doing, gone>>
  PROVE  FeedInv'
<1>1. missed' = 0 => missed = 0
  BY DEF FeedInv, FeedTypes
<1>2. FeedTypes'
  BY DEF FeedInv, FeedTypes
<1>3. QED
  BY <1>1, <1>2 DEF FeedInv, Novel, Settled, GoneIsGone

LEMMA GoneComes == ASSUME FeedInv, NoticeComes PROVE FeedInv'
<1>1. PICK n \in coming : live' = live \cup {n} /\ coming' = coming \ {n}
  BY DEF NoticeComes
<1>2. UNCHANGED <<cache, request, doing, gone, missed>>
  BY DEF NoticeComes, feedVars, reviewVars
<1>3. n \in Notice
  BY DEF FeedInv, FeedTypes, Notice, Dup
<1>4. FeedTypes'
  BY <1>1, <1>2, <1>3 DEF FeedInv, FeedTypes
<1>5. Novel'
  BY <1>1, <1>2 DEF FeedInv, Novel
<1>6. Settled'
  BY <1>1, <1>2 DEF FeedInv, Novel, Settled
<1>7. QED
  BY <1>2, <1>4, <1>5, <1>6 DEF FeedInv, GoneIsGone

\* The mutations of a review.
LEMMA GoneBegins ==
  ASSUME FeedInv, bell \in Bell, NEW k \in Task, NEW groups \in SUBSET Notice, Begins(k, groups),
         \A n \in coming : n \notin groups
  PROVE  FeedInv'
<1> DEFINE v == [phase |-> "sent", what |-> groups]
<1>1. doing' = [doing EXCEPT ![bell][k] = v] /\ UNCHANGED <<live, coming, cache, request, gone, missed>>
  BY DEF Begins, InReview, Glance, feedVars
<1>2. v \in Chore /\ v.phase = "sent" /\ v.what = groups
  BY DEF Chore
<1> HIDE DEF v
<1>3. /\ doing' \in [Bell -> [Task -> Chore]]
      /\ \A c \in Bell, j \in Task : doing'[c][j] = IF c = bell /\ j = k THEN v ELSE doing[c][j]
  <2>1. PICK b \in Bell : b = bell
    OBVIOUS
  <2>2. doing' = [doing EXCEPT ![b][k] = v]
    BY <1>1, <2>1
  <2>3. /\ doing' \in [Bell -> [Task -> Chore]]
        /\ \A c \in Bell, j \in Task : doing'[c][j] = IF c = b /\ j = k THEN v ELSE doing[c][j]
    <3>1. PICK w \in Chore : w = v
      BY <1>2
    <3>2. doing' = [doing EXCEPT ![b][k] = w]
      BY <2>2, <3>1
    <3>3. /\ doing' \in [Bell -> [Task -> Chore]]
          /\ \A c \in Bell, j \in Task : doing'[c][j] = IF c = b /\ j = k THEN w ELSE doing[c][j]
      BY <3>2, ChoreSet
    <3>4. QED
      BY <3>1, <3>3
  <2>4. QED
    BY <2>1, <2>3
<1>4. FeedTypes'
  BY <1>1, <1>3 DEF FeedInv, FeedTypes
<1>5. Novel'
  BY <1>1, <1>2, <1>3 DEF FeedInv, Novel
<1>6. Settled'
  BY <1>1, <1>2, <1>3 DEF FeedInv, Settled
<1>7. QED
  BY <1>1, <1>4, <1>5, <1>6 DEF FeedInv, GoneIsGone

LEMMA GoneStored ==
  ASSUME FeedInv, NEW b \in Bell, NEW k \in Task, ReviewStored(b, k)
  PROVE  FeedInv'
<1> DEFINE W == Concerns(b, k)
           v == [phase |-> "stored", what |-> W]
<1>1. /\ doing' = [doing EXCEPT ![b][k] = v] /\ live' = live \ W
      /\ UNCHANGED <<coming, cache, request, gone, missed>>
  BY DEF ReviewStored, feedVars
<1>2. W = live \cap {"overlap"} \/ W = live \cap {"repeat"} \/ W = doing[b][k].what
  BY DEF Concerns, Task
<1> HIDE DEF W
<1>3. doing[b][k] \in Chore /\ live \subseteq Notice
  BY DEF FeedInv, FeedTypes
<1>4. W \subseteq Notice
  BY <1>2, <1>3 DEF Chore
<1>5. \A n \in coming : n \notin W
  BY <1>2 DEF FeedInv, Novel
<1>6. v \in Chore /\ v.phase = "stored" /\ v.what = W
  BY <1>4 DEF Chore
<1> HIDE DEF v
<1>7. /\ doing' \in [Bell -> [Task -> Chore]]
      /\ \A c \in Bell, j \in Task : doing'[c][j] = IF c = b /\ j = k THEN v ELSE doing[c][j]
  BY <1>1, <1>6, ChoreSet
<1>8. FeedTypes'
  BY <1>1, <1>7 DEF FeedInv, FeedTypes
<1>9. Novel'
  BY <1>1, <1>5, <1>6, <1>7 DEF FeedInv, Novel
<1>10. Settled'
  BY <1>1, <1>6, <1>7 DEF FeedInv, Settled
<1>11. QED
  BY <1>1, <1>8, <1>9, <1>10 DEF FeedInv, GoneIsGone

LEMMA NoTaskIs == NoTask \in Chore /\ NoTask.phase = "none" /\ NoTask.what = {}
  BY DEF NoTask, Chore

LEMMA GoneAnswered ==
  ASSUME FeedInv, NEW b \in Bell, NEW k \in Task, ReviewAnswered(b, k)
  PROVE  FeedInv'
<1>1. /\ doing[b][k].phase = "stored" /\ gone' = gone \cup doing[b][k].what
      /\ doing' = [doing EXCEPT ![b][k] = NoTask] /\ AskAgain(Feed)
      /\ UNCHANGED <<live, coming, cache>>
  BY DEF ReviewAnswered
<1>2. /\ doing' \in [Bell -> [Task -> Chore]]
      /\ \A c \in Bell, j \in Task : doing'[c][j] = IF c = b /\ j = k THEN NoTask ELSE doing[c][j]
  BY <1>1, ChoreSet, NoTaskIs
<1>3. /\ request' \in [Feed -> Reply]
      /\ \A q \in Feed : request'[q] = Wanted \/ request'[q] = request[q]
      /\ missed' \in Nat /\ missed' >= missed
      /\ missed' = missed => \A q \in Feed : request'[q].phase = "sent"
  BY <1>1, AskedAgain
<1>4. FeedTypes'
  BY <1>1, <1>2, <1>3, Replies DEF FeedInv, FeedTypes
<1>5. Novel'
  BY <1>1, <1>2, <1>3, Replies, NoTaskIs DEF FeedInv, Novel
<1>6. Settled'
  BY <1>1, <1>2, NoTaskIs DEF FeedInv, Settled
<1>7. GoneIsGone'
  <2>1. missed' = 0 => missed' = missed
    BY <1>3 DEF FeedInv, FeedTypes
  <2>2. QED
    BY <1>3, <2>1 DEF GoneIsGone
<1>8. QED
  BY <1>4, <1>5, <1>6, <1>7 DEF FeedInv

LEMMA GoneReviewLost ==
  ASSUME FeedInv, NEW b \in Bell, NEW k \in Task, ReviewLost(b, k)
  PROVE  FeedInv'
<1>1. /\ doing' = [doing EXCEPT ![b][k] = NoTask] /\ missed' = missed + 1
      /\ UNCHANGED <<live, coming, cache, request, gone>>
  BY DEF ReviewLost, feedVars
<1>2. /\ doing' \in [Bell -> [Task -> Chore]]
      /\ \A c \in Bell, j \in Task : doing'[c][j] = IF c = b /\ j = k THEN NoTask ELSE doing[c][j]
  BY <1>1, ChoreSet, NoTaskIs
<1>3. missed' \in Nat /\ missed' # 0
  BY <1>1 DEF FeedInv, FeedTypes
<1>4. FeedTypes'
  BY <1>1, <1>2, <1>3 DEF FeedInv, FeedTypes
<1>5. Novel'
  BY <1>1, <1>2, NoTaskIs DEF FeedInv, Novel
<1>6. Settled'
  BY <1>1, <1>2, NoTaskIs DEF FeedInv, Settled
<1>7. QED
  BY <1>3, <1>4, <1>5, <1>6 DEF FeedInv, GoneIsGone

LEMMA GoneReloaded == ASSUME FeedInv, ReloadBells PROVE FeedInv'
<1>1. /\ cache' = [q \in Feed |-> {}] /\ request' = [q \in Feed |-> Wanted]
      /\ doing' = [b \in Bell |-> [k \in Task |-> NoTask]]
      /\ missed' = missed \/ missed' = missed + 1
      /\ UNCHANGED <<live, coming, gone>>
  BY DEF ReloadBells
<1>2. missed' \in Nat
  BY <1>1 DEF FeedInv, FeedTypes
<1>3. FeedTypes'
  BY <1>1, <1>2, Replies, NoTaskIs DEF FeedInv, FeedTypes
<1>4. Novel'
  BY <1>1, Replies, NoTaskIs DEF FeedInv, Novel
<1>5. Settled'
  BY <1>1, NoTaskIs DEF FeedInv, Settled
<1>6. QED
  BY <1>1, <1>3, <1>4, <1>5, Replies DEF FeedInv, GoneIsGone

\* The rule a bell has asked for is stored, answered or lost.
LEMMA GoneRule ==
  ASSUME FeedInv, NEW b \in Bell, RuleStored(b) \/ RuleAnswered(b) \/ RuleLost(b)
  PROVE  FeedInv'
<1>0. missed \in Nat
  BY DEF FeedInv, FeedTypes
<1>1. CASE RuleStored(b)
  <2>1. live' \subseteq live /\ UNCHANGED <<coming, cache, request, doing, gone, missed>>
    BY <1>1 DEF RuleStored, feedVars, reviewVars
  <2>2. QED
    BY <1>0, <2>1, GoneLess
<1>2. CASE RuleLost(b)
  <2>1. UNCHANGED <<live, coming, cache, request, doing, gone>> /\ missed' = missed + 1
    BY <1>2 DEF RuleLost, feedVars, reviewVars
  <2>2. QED
    BY <1>0, <2>1, GoneLess
<1>3. CASE RuleAnswered(b)
  <2>1. AskAgain({"list"}) /\ UNCHANGED <<live, coming, cache, doing, gone>>
    BY <1>3 DEF RuleAnswered, reviewVars
  <2>2. /\ request' \in [Feed -> Reply]
        /\ \A q \in Feed : request'[q] = Wanted \/ request'[q] = request[q]
        /\ missed' \in Nat /\ missed' >= missed
    BY <2>1, AskedAgain
  <2>3. FeedTypes'
    BY <2>1, <2>2, Replies DEF FeedInv, FeedTypes
  <2>4. Novel'
    BY <2>1, <2>2, Replies DEF FeedInv, Novel
  <2>5. GoneIsGone'
    <3>1. missed' = 0 => missed = 0
      BY <1>0, <2>2
    <3>2. QED
      BY <2>1, <2>2, <3>1, Replies DEF FeedInv, GoneIsGone
  <2>6. QED
    BY <2>1, <2>3, <2>4, <2>5 DEF FeedInv, Settled
<1>4. QED
  BY <1>1, <1>2, <1>3

LEMMA StepKeepsGone == FeedInv /\ bell \in Bell /\ [NoticesNext]_noticesVars => FeedInv'
<1> SUFFICES ASSUME FeedInv, bell \in Bell, [NoticesNext]_noticesVars PROVE FeedInv'
  OBVIOUS
<1>1. CASE OpenDrawer \/ CloseDrawer \/ Resize \/ SetTab \/ MarkNotice \/ MarkAllAsRead \/ ClickNotice \/ CreateRule
  <2>1. Glance /\ UNCHANGED doing
    BY <1>1 DEF OpenDrawer, CloseDrawer, Resize, SetTab, MarkNotice, MarkAllAsRead, ClickNotice, CreateRule, InDrawer
  <2>2. QED
    BY <2>1, FeedUnchanged DEF Glance, feedVars, aboutFeeds
<1>2. CASE OpenReview \/ CloseReview \/ ViewInTransactions
  <2>1. Glance /\ UNCHANGED doing
    BY <1>2 DEF OpenReview, CloseReview, ViewInTransactions, InReview
  <2>2. QED
    BY <2>1, FeedUnchanged DEF Glance, feedVars, aboutFeeds
<1>3. CASE ResolveOverlaps \/ DismissAllSameAccount
  <2>1. PICK k \in Task : Begins(k, {})
    BY <1>3 DEF ResolveOverlaps, DismissAllSameAccount, Task
  <2>2. QED
    BY <2>1, GoneBegins
<1>4. CASE DismissGroup
  <2>1. PICK g \in cache["preview"] : Begins("dismiss", {g})
    BY <1>4 DEF DismissGroup
  <2>2. "preview" \in Feed /\ "dismiss" \in Task
    BY DEF Feed, Task
  <2>3. {g} \in SUBSET Notice
    BY <2>1, <2>2 DEF FeedInv, FeedTypes
  <2>4. \A n \in coming : n \notin {g}
    BY <2>1, <2>2 DEF FeedInv, Novel
  <2>5. QED
    BY <2>1, <2>2, <2>3, <2>4, GoneBegins
<1>5. ASSUME NEW q \in Feed, FeedRead(q) \/ FeedLands(q) \/ FeedLost(q) PROVE FeedInv'
  BY <1>5, GoneRead, GoneLands, GoneLost
<1>6. ASSUME NEW b \in Bell, RuleStored(b) \/ RuleAnswered(b) \/ RuleLost(b) PROVE FeedInv'
  BY <1>6, GoneRule
<1>7. ASSUME NEW b \in Bell, NEW k \in Task, ReviewStored(b, k) \/ ReviewAnswered(b, k) \/ ReviewLost(b, k)
      PROVE  FeedInv'
  BY <1>7, GoneStored, GoneAnswered, GoneReviewLost
<1>8. CASE UNCHANGED noticesVars
  BY <1>8, FeedUnchanged DEF noticesVars, feedVars, reviewVars, aboutFeeds
<1>9. QED
  BY <1>1, <1>2, <1>3, <1>4, <1>5, <1>6, <1>7, <1>8, GonePolled, GoneComes, GoneReloaded DEF NoticesNext

LEMMA FeedInvInit == NoticesInit => FeedInv /\ ReadInv
<1> SUFFICES ASSUME NoticesInit PROVE FeedInv /\ ReadInv
  OBVIOUS
<1>1. /\ live = Notice \ coming /\ coming \subseteq {"overlap"} /\ missed = 0 /\ gone = {}
      /\ cache = [q \in Feed |-> {}] /\ request = [q \in Feed |-> Wanted]
      /\ doing = [b \in Bell |-> [k \in Task |-> NoTask]]
  BY DEF NoticesInit
<1>2. FeedTypes
  BY <1>1, Replies, NoTaskIs DEF FeedTypes
<1>3. Novel
  BY <1>1, Replies, NoTaskIs DEF Novel
<1>4. Settled /\ GoneIsGone
  BY <1>1, NoTaskIs, Replies DEF Settled, GoneIsGone
<1>5. ReadInv
  BY DEF NoticesInit, ReadInv, Shapes, UsedIsStored, TickedIsListed, ReadStaysRead, Bell, Feed
<1>6. QED
  BY <1>2, <1>3, <1>4, <1>5 DEF FeedInv

\* A group a review has settled is in no answer that was asked for since: the
\* callbacks drop what is on its way (DuplicateReviewModal's three mutations).
THEOREM SettledIsGone == NoticesSpec => []GoneIsGone
<1>1. ReadInv /\ FeedInv /\ [NoticesNext]_noticesVars => ReadInv' /\ FeedInv'
  BY StepKeepsRead, StepKeepsGone DEF ReadInv, Shapes
<1>2. FeedInv => GoneIsGone
  BY DEF FeedInv
<1>3. QED
  BY FeedInvInit, <1>1, <1>2, PTL DEF NoticesSpec

-----------------------------------------------------------------------------
(* The suggested rule.                                                       *)

RuleTypes ==
    /\ made \in Nat /\ missed \in Nat /\ bell \in Bell /\ "list" \in Feed
    /\ making \in [Bell -> {"none", "sent", "stored"}]
    /\ created \in [Bell -> BOOLEAN]

\* Once stored it is not suggested again.
StoredIsNotLive ==
    /\ coming \subseteq {"overlap"}
    /\ made > 0 => "rule" \notin live

Unlisted ==
    /\ "rule" \notin cache["list"]
    /\ request["list"].phase = "read" => "rule" \notin request["list"].val

\* With one bell in use, only that one has asked for the rule; a request on its
\* way was sent before its rule was due; and where it has been stored as often
\* as answers were lost and once more, the bell remembers, or what it lists, or
\* is about to, is without it.
Accounted ==
    ~crossed =>
        /\ made <= 1 + missed
        /\ \A b \in Bell : making[b] # "none" \/ created[b] => used = b
        /\ \A b \in Bell : making[b] = "sent" => made <= missed
        /\ made > missed =>
              \/ \E b \in Bell : created[b] \/ making[b] = "stored"
              \/ Unlisted

RuleInv == RuleTypes /\ StoredIsNotLive /\ Accounted

aboutRule == <<made, missed, bell, making, created, coming, live, crossed, used, cache, request>>

LEMMA RuleUnchanged ==
  ASSUME RuleInv, UNCHANGED aboutRule
  PROVE  RuleInv'
  BY DEF aboutRule, RuleInv, RuleTypes, StoredIsNotLive, Accounted, Unlisted

\* A bell is used for something else, or the window shows the other one.
LEMMA RuleUsed ==
  ASSUME RuleInv, bell' \in Bell, UNCHANGED <<made, missed, making, created, coming, live, cache, request>>,
         UNCHANGED <<used, crossed>> \/ \E b \in Bell : Uses(b)
  PROVE  RuleInv'
<1>1. RuleTypes' /\ StoredIsNotLive'
  BY DEF RuleInv, RuleTypes, StoredIsNotLive
<1>2. CASE UNCHANGED <<used, crossed>>
  BY <1>1, <1>2 DEF RuleInv, Accounted, Unlisted
<1>3. ASSUME NEW b \in Bell, Uses(b) PROVE Accounted'
  <2>1. used' = b /\ (crossed' <=> crossed \/ used \notin {"none", b})
    BY <1>3 DEF Uses
  <2>2. SUFFICES ASSUME ~crossed' PROVE Accounted'
    BY DEF Accounted
  <2>3. ~crossed /\ used \in {"none", b} /\ "none" \notin Bell
    BY <2>1, <2>2 DEF Bell
  <2>4. \A c \in Bell : making[c] # "none" \/ created[c] => used' = c
    BY <2>1, <2>3 DEF RuleInv, Accounted
  <2>5. QED
    BY <2>3, <2>4 DEF RuleInv, Accounted, Unlisted
<1>4. QED
  BY <1>1, <1>2, <1>3 DEF RuleInv

LEMMA RuleAsked == ASSUME RuleInv, CreateRule PROVE RuleInv'
<1>1. /\ "rule" \in cache["list"] /\ making[bell] = "none" /\ ~created[bell]
      /\ making' = [making EXCEPT ![bell] = "sent"] /\ Uses(bell)
      /\ UNCHANGED <<made, missed, bell, created, coming, live, cache, request>>
  BY DEF CreateRule, FilteredNotices, InDrawer, Glance, feedVars
<1>2. bell \in Bell /\ making \in [Bell -> {"none", "sent", "stored"}] /\ made \in Nat /\ missed \in Nat
  BY DEF RuleInv, RuleTypes
<1>3. used' = bell /\ (crossed' <=> crossed \/ used \notin {"none", bell})
  BY <1>1 DEF Uses
<1>4. making' \in [Bell -> {"none", "sent", "stored"}]
      /\ \A c \in Bell : making'[c] = IF c = bell THEN "sent" ELSE making[c]
  BY <1>1, <1>2
<1>5. RuleTypes' /\ StoredIsNotLive'
  BY <1>1, <1>4 DEF RuleInv, RuleTypes, StoredIsNotLive
<1>6. Accounted'
  <2>1. SUFFICES ASSUME ~crossed' PROVE Accounted'
    BY DEF Accounted
  <2>2. ~crossed /\ used \in {"none", bell}
    BY <1>3, <2>1
  <2>3. /\ made <= 1 + missed
        /\ \A b \in Bell : making[b] # "none" \/ created[b] => used = b
    BY <2>2 DEF RuleInv, Accounted
  <2>4. \A b \in Bell : b # "none"
    BY DEF Bell
  <2>5. \A b \in Bell : making[b] = "none" /\ ~created[b]
    BY <1>1, <1>2, <2>2, <2>3, <2>4
  <2>6. made <= missed
    <3>1. ~(made > missed)
      BY <1>1, <2>2, <2>5 DEF RuleInv, Accounted, Unlisted
    <3>2. QED
      BY <1>2, <3>1
  <2>7. \A c \in Bell : making'[c] # "none" \/ created'[c] => used' = c
    BY <1>1, <1>3, <1>4, <2>5
  <2>8. ~(made' > missed')
    BY <1>1, <1>2, <2>6
  <2>9. QED
    BY <1>1, <2>3, <2>6, <2>7, <2>8 DEF Accounted
<1>7. QED
  BY <1>5, <1>6 DEF RuleInv

LEMMA RuleIsStored == ASSUME RuleInv, NEW b \in Bell, RuleStored(b) PROVE RuleInv'
<1>1. /\ making[b] = "sent" /\ making' = [making EXCEPT ![b] = "stored"]
      /\ made' = made + 1 /\ live' = live \ {"rule"}
      /\ UNCHANGED <<missed, bell, created, coming, crossed, used, cache, request>>
  BY DEF RuleStored, feedVars, bellVars, histVars
<1>2. making \in [Bell -> {"none", "sent", "stored"}] /\ made \in Nat /\ missed \in Nat
  BY DEF RuleInv, RuleTypes
<1>3. making' \in [Bell -> {"none", "sent", "stored"}]
      /\ \A c \in Bell : making'[c] = IF c = b THEN "stored" ELSE making[c]
  BY <1>1, <1>2
<1>4. RuleTypes' /\ StoredIsNotLive'
  BY <1>1, <1>2, <1>3 DEF RuleInv, RuleTypes, StoredIsNotLive
<1>5. Accounted'
  <2>1. SUFFICES ASSUME ~crossed PROVE Accounted'
    BY <1>1 DEF Accounted
  <2>2. /\ \A c \in Bell : making[c] # "none" \/ created[c] => used = c
        /\ made <= missed
    BY <1>1, <2>1 DEF RuleInv, Accounted
  <2>3. made' <= 1 + missed'
    BY <1>1, <1>2, <2>2
  <2>4. used = b
    BY <1>1, <2>2
  <2>5. \A c \in Bell : making'[c] # "none" \/ created'[c] => used' = c
    BY <1>1, <1>3, <2>2, <2>4
  <2>6. \A c \in Bell : making'[c] # "sent"
    BY <1>3, <2>2, <2>4
  <2>7. making'[b] = "stored"
    BY <1>3
  <2>8. QED
    BY <2>3, <2>5, <2>6, <2>7 DEF Accounted
<1>6. QED
  BY <1>4, <1>5 DEF RuleInv

\* More losses excuse no fewer rules.
LEMMA MoreMissed ==
  ASSUME NEW a \in Nat, NEW b \in Nat, NEW c \in Nat, c >= b, a <= 1 + b
  PROVE  a <= 1 + c /\ (a <= b => a <= c) /\ (a > c => a > b /\ a > 0)
OBVIOUS

LEMMA RuleIsAnswered == ASSUME RuleInv, FeedInv, NEW b \in Bell, RuleAnswered(b) PROVE RuleInv'
<1>1. /\ making[b] = "stored" /\ making' = [making EXCEPT ![b] = "none"]
      /\ created' = [created EXCEPT ![b] = TRUE] /\ Uses(b) /\ AskAgain({"list"})
      /\ UNCHANGED <<made, bell, coming, live, cache>>
  BY DEF RuleAnswered, MarkAsRead, SetReadIds, bellVars
<1>2. /\ making \in [Bell -> {"none", "sent", "stored"}] /\ made \in Nat /\ missed \in Nat
      /\ created \in [Bell -> BOOLEAN]
  BY DEF RuleInv, RuleTypes
<1>3. /\ making' \in [Bell -> {"none", "sent", "stored"}] /\ created' \in [Bell -> BOOLEAN]
      /\ \A c \in Bell : /\ making'[c] = IF c = b THEN "none" ELSE making[c]
                         /\ created'[c] = IF c = b THEN TRUE ELSE created[c]
  BY <1>1, <1>2
<1>4. missed' \in Nat /\ missed' >= missed
  BY <1>1, AskedAgain
<1>5. RuleTypes' /\ StoredIsNotLive'
  BY <1>1, <1>3, <1>4 DEF RuleInv, RuleTypes, StoredIsNotLive
<1>6. used' = b /\ (crossed' <=> crossed \/ used \notin {"none", b})
  BY <1>1 DEF Uses
<1>7. Accounted'
  <2>1. SUFFICES ASSUME ~crossed' PROVE Accounted'
    BY DEF Accounted
  <2>2. ~crossed
    BY <1>6, <2>1
  <2>3. /\ made <= 1 + missed
        /\ \A c \in Bell : making[c] # "none" \/ created[c] => used = c
    BY <2>2 DEF RuleInv, Accounted
  <2>4. used = b
    BY <1>1, <2>3
  <2>5. \A c \in Bell : making'[c] # "none" \/ created'[c] => used' = c
    BY <1>3, <1>6, <2>3, <2>4
  <2>6. \A c \in Bell : making'[c] # "sent"
    BY <1>1, <1>3, <2>3, <2>4
  <2>7. created'[b] = TRUE /\ made' <= 1 + missed'
    <3>1. made' = made /\ made' \in Nat
      BY <1>1, <1>2
    <3>2. made' <= 1 + missed'
      <4>1. made <= 1 + missed'
        BY <1>2, <1>4, <2>3, MoreMissed
      <4>2. QED
        BY <3>1, <4>1
    <3>3. QED
      BY <1>3, <3>2
  <2>8. QED
    BY <2>5, <2>6, <2>7 DEF Accounted
<1>8. QED
  BY <1>5, <1>7 DEF RuleInv

\* A request or an answer is lost.
LEMMA RuleMissed ==
  ASSUME RuleInv, missed' = missed + 1,
         UNCHANGED <<made, bell, created, coming, live, crossed, used>>,
         making' \in [Bell -> {"none", "sent", "stored"}],
         \A b \in Bell : making'[b] = making[b] \/ making'[b] = "none"
  PROVE  RuleInv'
<1>1. made \in Nat /\ missed \in Nat
  BY DEF RuleInv, RuleTypes
<1>2. RuleTypes' /\ StoredIsNotLive'
  BY <1>1 DEF RuleInv, RuleTypes, StoredIsNotLive
<1>3. Accounted'
  <2>1. SUFFICES ASSUME ~crossed PROVE Accounted'
    BY DEF Accounted
  <2>2. /\ made <= 1 + missed
        /\ \A b \in Bell : making[b] # "none" \/ created[b] => used = b
    BY <2>1 DEF RuleInv, Accounted
  <2>3. made' <= missed' /\ made' <= 1 + missed' /\ ~(made' > missed')
    BY <1>1, <2>2
  <2>4. \A b \in Bell : making'[b] # "none" \/ created'[b] => used' = b
    BY <2>2
  <2>5. QED
    BY <2>3, <2>4 DEF Accounted
<1>4. QED
  BY <1>2, <1>3 DEF RuleInv

\* The queries, the other notices and the reviews: what lists the rule no more
\* does not list it again.
LEMMA RuleFed ==
  ASSUME RuleInv, UNCHANGED <<made, bell, making, created, crossed, used>>,
         missed' \in Nat, missed' >= missed,
         coming' \subseteq {"overlap"}, live' \subseteq live \cup {"overlap"},
         made > 0 /\ Unlisted => Unlisted'
  PROVE  RuleInv'
<1>1. made \in Nat /\ missed \in Nat
  BY DEF RuleInv, RuleTypes
<1>2. RuleTypes' /\ StoredIsNotLive'
  BY DEF RuleInv, RuleTypes, StoredIsNotLive
<1>3. Accounted'
  <2>1. SUFFICES ASSUME ~crossed PROVE Accounted'
    BY DEF Accounted
  <2>2. /\ made <= 1 + missed
        /\ \A b \in Bell : making[b] # "none" \/ created[b] => used = b
        /\ \A b \in Bell : making[b] = "sent" => made <= missed
        /\ made > missed => (\E b \in Bell : created[b] \/ making[b] = "stored") \/ Unlisted
    BY <2>1 DEF RuleInv, Accounted
  <2>3. made' <= 1 + missed' /\ (made <= missed => made' <= missed')
        /\ (made' > missed' => made > missed /\ made > 0)
    <3>1. made <= 1 + missed' /\ (made <= missed => made <= missed')
          /\ (made > missed' => made > missed /\ made > 0)
      BY <1>1, <2>2, MoreMissed
    <3>2. made' = made
      OBVIOUS
    <3>3. QED
      BY <3>1, <3>2
  <2>4. made' > missed' => (\E b \in Bell : created'[b] \/ making'[b] = "stored") \/ Unlisted'
    BY <2>2, <2>3
  <2>5. QED
    BY <2>2, <2>3, <2>4 DEF Accounted
<1>4. QED
  BY <1>2, <1>3 DEF RuleInv

LEMMA RuleFeeds ==
  ASSUME RuleInv, FeedInv, FeedPolled \/ NoticeComes \/ \E q \in Feed : FeedRead(q) \/ FeedLands(q) \/ FeedLost(q)
  PROVE  RuleInv'
<1>0. /\ "list" \in Feed /\ request \in [Feed -> Reply] /\ cache \in [Feed -> SUBSET Notice]
      /\ missed \in Nat /\ coming \subseteq {"overlap"}
  BY DEF FeedInv, FeedTypes, Feed
<1>1. CASE FeedPolled
  <2>1. /\ request' = [request EXCEPT !["list"] = Wanted]
        /\ UNCHANGED <<made, bell, making, created, crossed, used, missed, coming, live, cache>>
    BY <1>1 DEF FeedPolled, FeedStep, bellVars, ruleVars, histVars
  <2>2. Unlisted => Unlisted'
    BY <1>0, <2>1, Replies DEF Unlisted
  <2>3. QED
    BY <1>0, <2>1, <2>2, RuleFed
<1>2. CASE NoticeComes
  <2>1. UNCHANGED <<made, bell, making, created, crossed, used, missed, cache, request>>
    BY <1>2 DEF NoticeComes, feedVars, bellVars, ruleVars, histVars
  <2>2. coming' \subseteq {"overlap"} /\ live' \subseteq live \cup {"overlap"}
    BY <1>0, <1>2 DEF NoticeComes
  <2>3. Unlisted => Unlisted'
    BY <2>1 DEF Unlisted
  <2>4. QED
    BY <1>0, <2>1, <2>2, <2>3, RuleFed
<1>3. ASSUME NEW q \in Feed, FeedRead(q) PROVE RuleInv'
  <2>1. /\ request' = [request EXCEPT ![q] = [phase |-> "read", val |-> Serves(q)]]
        /\ UNCHANGED <<made, bell, making, created, crossed, used, missed, coming, live, cache>>
    BY <1>3 DEF FeedRead, FeedStep, bellVars, ruleVars, histVars
  <2>2. ASSUME made > 0, Unlisted PROVE Unlisted'
    <3>1. "rule" \notin Serves(q)
      BY <2>2 DEF Serves, RuleInv, StoredIsNotLive
    <3>2. request'["list"].phase = "read" => "rule" \notin request'["list"].val
      <4>1. CASE q = "list"
        <5>1. request'["list"] = [phase |-> "read", val |-> Serves(q)]
          BY <1>0, <2>1, <4>1
        <5>2. QED
          BY <3>1, <5>1
      <4>2. CASE q # "list"
        BY <1>0, <2>1, <2>2, <4>2 DEF Unlisted
      <4>3. QED
        BY <4>1, <4>2
    <3>3. QED
      BY <2>1, <2>2, <3>2 DEF Unlisted
  <2>3. QED
    BY <1>0, <2>1, <2>2, RuleFed
<1>4. ASSUME NEW q \in Feed, FeedLands(q) PROVE RuleInv'
  <2>1. /\ request[q].phase = "read" /\ request' = [request EXCEPT ![q] = NoAnswer]
        /\ cache' = [cache EXCEPT ![q] = request[q].val]
        /\ UNCHANGED <<made, bell, making, created, crossed, used, missed, coming, live>>
    BY <1>4 DEF FeedLands, FeedStep, bellVars, ruleVars, histVars
  <2>2. ASSUME Unlisted PROVE Unlisted'
    <3>1. CASE q = "list"
      <4>1. cache'["list"] = request["list"].val /\ request'["list"] = NoAnswer
        BY <1>0, <2>1, <3>1
      <4>2. QED
        BY <2>1, <2>2, <3>1, <4>1, Replies DEF Unlisted
    <3>2. CASE q # "list"
      BY <1>0, <2>1, <2>2, <3>2 DEF Unlisted
    <3>3. QED
      BY <3>1, <3>2
  <2>3. QED
    BY <1>0, <2>1, <2>2, RuleFed
<1>5. ASSUME NEW q \in Feed, FeedLost(q) PROVE RuleInv'
  <2>1. missed' = missed + 1 /\ UNCHANGED <<made, bell, making, created, crossed, used, coming, live>>
    BY <1>5 DEF FeedLost, FeedStep, bellVars, ruleVars, histVars
  <2>2. making' \in [Bell -> {"none", "sent", "stored"}]
    BY <2>1 DEF RuleInv, RuleTypes
  <2>3. QED
    BY <2>1, <2>2, RuleMissed
<1>6. QED
  BY <1>1, <1>2, <1>3, <1>4, <1>5

LEMMA RuleReviewed ==
  ASSUME RuleInv, FeedInv, NEW b \in Bell, NEW k \in Task,
         ReviewStored(b, k) \/ ReviewAnswered(b, k) \/ ReviewLost(b, k)
  PROVE  RuleInv'
<1>0. missed \in Nat /\ coming \subseteq {"overlap"} /\ "list" \in Feed
  BY DEF FeedInv, FeedTypes, Feed
<1>1. CASE ReviewStored(b, k)
  <2>1. live' \subseteq live
        /\ UNCHANGED <<made, bell, making, created, crossed, used, missed, coming, cache, request>>
    BY <1>1 DEF ReviewStored, feedVars, bellVars, ruleVars, histVars
  <2>2. Unlisted => Unlisted'
    BY <2>1 DEF Unlisted
  <2>3. QED
    BY <1>0, <2>1, <2>2, RuleFed
<1>2. CASE ReviewAnswered(b, k)
  <2>1. AskAgain(Feed) /\ UNCHANGED <<made, bell, making, created, crossed, used, coming, live, cache>>
    BY <1>2 DEF ReviewAnswered, bellVars, ruleVars, histVars
  <2>2. /\ \A q \in Feed : request'[q] = Wanted \/ request'[q] = request[q]
        /\ missed' \in Nat /\ missed' >= missed
    BY <2>1, AskedAgain
  <2>3. Unlisted => Unlisted'
    BY <1>0, <2>1, <2>2, Replies DEF Unlisted
  <2>4. QED
    BY <1>0, <2>1, <2>2, <2>3, RuleFed
<1>3. CASE ReviewLost(b, k)
  <2>1. missed' = missed + 1 /\ UNCHANGED <<made, bell, making, created, crossed, used, coming, live>>
    BY <1>3 DEF ReviewLost, bellVars, ruleVars, histVars
  <2>2. making' \in [Bell -> {"none", "sent", "stored"}]
    BY <2>1 DEF RuleInv, RuleTypes
  <2>3. QED
    BY <2>1, <2>2, RuleMissed
<1>4. QED
  BY <1>1, <1>2, <1>3

LEMMA RuleReloaded == ASSUME RuleInv, ReloadBells PROVE RuleInv'
<1>1. /\ cache' = [q \in Feed |-> {}] /\ request' = [q \in Feed |-> Wanted]
      /\ making' = [b \in Bell |-> "none"] /\ created' = [b \in Bell |-> FALSE]
      /\ missed' = missed \/ missed' = missed + 1
      /\ UNCHANGED <<live, coming, bell, crossed, made>>
  BY DEF ReloadBells
<1>2. made \in Nat /\ missed \in Nat /\ "list" \in Feed
  BY DEF RuleInv, RuleTypes
<1>3. RuleTypes' /\ StoredIsNotLive'
  BY <1>1, <1>2 DEF RuleInv, RuleTypes, StoredIsNotLive
<1>4. Unlisted'
  BY <1>1, <1>2, Replies DEF Unlisted
<1>5. \A b \in Bell : making'[b] = "none" /\ ~created'[b]
  BY <1>1
<1>6. ~crossed => made' <= 1 + missed'
  BY <1>1, <1>2 DEF RuleInv, Accounted
<1>7. QED
  BY <1>1, <1>3, <1>4, <1>5, <1>6 DEF RuleInv, Accounted

LEMMA StepKeepsRule == RuleInv /\ FeedInv /\ [NoticesNext]_noticesVars => RuleInv'
<1> SUFFICES ASSUME RuleInv, FeedInv, [NoticesNext]_noticesVars PROVE RuleInv'
  OBVIOUS
<1>0. bell \in Bell
  BY DEF RuleInv, RuleTypes
<1>1. CASE OpenDrawer \/ CloseDrawer \/ Resize \/ SetTab
  <2>1. /\ Glance /\ bell' \in Bell /\ UNCHANGED <<making, created, used, crossed>>
    BY <1>0, <1>1 DEF OpenDrawer, CloseDrawer, Resize, SetTab, InDrawer, histVars
  <2>2. QED
    BY <2>1, RuleUsed DEF Glance, feedVars
<1>2. CASE MarkNotice \/ MarkAllAsRead \/ ClickNotice
  <2>1. InDrawer /\ UNCHANGED making /\ Uses(bell)
    BY <1>2 DEF MarkNotice, MarkAllAsRead, ClickNotice, MarkAsRead, SetReadIds
  <2>2. QED
    BY <1>0, <2>1, RuleUsed DEF InDrawer, Glance, feedVars
<1>3. CASE OpenReview \/ CloseReview \/ ViewInTransactions
  <2>1. Glance /\ UNCHANGED <<bell, making, created, used, crossed>>
    BY <1>3 DEF OpenReview, CloseReview, ViewInTransactions, InReview, bellVars, histVars
  <2>2. QED
    BY <1>0, <2>1, RuleUsed DEF Glance, feedVars
<1>4. CASE ResolveOverlaps \/ DismissGroup \/ DismissAllSameAccount
  <2>1. Glance /\ UNCHANGED <<bell, making, created, used, crossed>>
    BY <1>4 DEF ResolveOverlaps, DismissGroup, DismissAllSameAccount, Begins, InReview, histVars
  <2>2. QED
    BY <1>0, <2>1, RuleUsed DEF Glance, feedVars
<1>5. CASE CreateRule
  BY <1>5, RuleAsked
<1>6. ASSUME NEW b \in Bell, RuleStored(b) \/ RuleAnswered(b) \/ RuleLost(b) PROVE RuleInv'
  <2>1. CASE RuleLost(b)
    <3>1. /\ making' = [making EXCEPT ![b] = "none"] /\ missed' = missed + 1
          /\ UNCHANGED <<made, bell, created, coming, live, crossed, used>>
      BY <2>1 DEF RuleLost, bellVars, histVars
    <3>2. /\ making' \in [Bell -> {"none", "sent", "stored"}]
          /\ \A c \in Bell : making'[c] = making[c] \/ making'[c] = "none"
      BY <3>1 DEF RuleInv, RuleTypes
    <3>3. QED
      BY <3>1, <3>2, RuleMissed
  <2>2. QED
    BY <1>6, <2>1, RuleIsStored, RuleIsAnswered
<1>7. ASSUME NEW b \in Bell, NEW k \in Task, ReviewStored(b, k) \/ ReviewAnswered(b, k) \/ ReviewLost(b, k)
      PROVE  RuleInv'
  BY <1>7, RuleReviewed
<1>8. CASE UNCHANGED noticesVars
  BY <1>8, RuleUnchanged DEF noticesVars, feedVars, bellVars, ruleVars, histVars, aboutRule
<1>9. QED
  BY <1>1, <1>2, <1>3, <1>4, <1>5, <1>6, <1>7, <1>8, RuleFeeds, RuleReloaded DEF NoticesNext

\* A suggested rule that one bell accepts is stored once, and once more for each
\* request, answer or list that was lost (handleCreateRule and ruleCreationSuccess
\* of NotificationDrawer, and the reload that forgets the latter).
THEOREM RuleStoredOnce == NoticesSpec => []OneRuleEach
<1>1. NoticesInit => RuleInv
  BY DEF NoticesInit, RuleInv, RuleTypes, StoredIsNotLive, Accounted, Bell, Feed
<1>2. ReadInv /\ FeedInv /\ RuleInv /\ [NoticesNext]_noticesVars => ReadInv' /\ FeedInv' /\ RuleInv'
  BY StepKeepsRead, StepKeepsGone, StepKeepsRule DEF ReadInv, Shapes
<1>3. RuleInv => OneRuleEach
  BY DEF RuleInv, Accounted, OneRuleEach
<1>4. QED
  BY FeedInvInit, <1>1, <1>2, <1>3, PTL DEF NoticesSpec
=============================================================================
