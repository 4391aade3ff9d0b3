# A formal model of Peng

Peng is a self-hosted household finance program: a FastAPI backend over one SQLite database
(`backend/app/`), a second SQLite file for receipts, a React web client (`frontend/src/`), and a few
background workers.  This directory models the parts whose correctness depends on the order of
events, in TLA+: TLC checks small instances, TLAPS proves the main invariants for all of them.

Paths below are relative to `src/backend/app/`, those of `.ts` and `.tsx` files to
`src/frontend/src/`.

## 1. How the program runs

* Endpoints are plain `def` functions: FastAPI runs each in a thread of its pool, with a session
  of its own.  Two requests of one household overlap freely.
* SQLite runs in WAL mode with foreign keys on (`models/all_models.py`).  A `SELECT` opens no
  transaction that a later statement of the same request could rely on; the first flush takes the
  write lock and keeps it until the commit or rollback.  So each read is of a moment of its own,
  and each write transaction is atomic.
* A SQLAlchemy session keeps the rows it has read: a second query for the same row returns the
  first values unless the session was committed, rolled back or refreshed in between.
* The bank retrieval runs in one daemon thread (`services/sync_service.py`), the purge worker and
  the IMAP poller in the event loop (`worker.py`, `services/imap_worker.py`).
* A restart loses threads, locks and requests, and keeps both databases and the files.
* The web client is one thread: a handler, a callback or an effect runs to its end.  Between two of
  them anything that is on its way may arrive, and the user may do anything the page offers.
* Server data live in the query cache (TanStack Query, external; `main.tsx` gives it its `staleTime`
  and one retry).  A query has a key, an entry and at most one request.  Observing it asks when the
  entry is empty, invalid or old; invalidating it asks at once where it is observed, and drops a
  request on its way unless there are no data yet; a request that nobody waits for any more lands
  all the same, as fresh.  The callbacks given to `mutate` run only while the component that called
  is mounted, and for its latest call; those of the hook always run.
* The household of a request is a header, read from a module variable (`api/http.ts`) when the request
  leaves; the household in a key is read when the component renders.  A reload loses all but
  `localStorage`.

## 2. Inventory

| Component | State | Operations | What is hard | What makes it correct |
|---|---|---|---|---|
| Bank synchronisation job (`sync_service.py`) | `SyncJob` rows; `_RETRIEVE_STATE`, `_RETRIEVE_LOCK` in memory | start, status, the thread with its progress writes | two starts at once; a poll between two statements of a start; restart with a running row; a failing status write | one retrieval at a time; every request is answered; a dead job is settled; a finished one is not called interrupted |
| Ledger (`sync_service`, `reconciliation_service`, `csv_service`, `transaction_service`) | `posting`, `postingallocation`, `account`, `dismissed_duplicate` | bank sync, archive import, edit, split, merge of accounts, preview, dismiss, resolve | long mixed sequences; which of two equal rows survives; a failing item in a batch | allocations sum to the posting; what the user wrote survives; bank rows are not swallowed; a dismissal is respected |
| Households (`household_service.py`, `core/auth.py`) | `household`, `householdmember`, `user` | create, invite, remove, change role, delete, restore, login that merges a pending user | overlapping requests, login between two commits of an invitation | there is an owner; no membership without household and user |
| Purge worker (`worker.py`) | the household it selected | select, delete dependents, refresh, delete or roll back | a restore during the purge; a locked database | a restored household stays; an expired one goes |
| Receipt store (`kvitteringer_service.py`, `storebox_service.py`, `coop_service.py`) | second SQLite file, upload files, `category_overrides` JSON | import a folder, replace an upload, override a category, schema upgrade by deleting the file | crash between unlink and rename; an import that fails half way; unlocked read-modify-write of the JSON file | an import is all or nothing; no override is lost |
| Receipt linking (`transaction_service.py`) | links and split allocations over both databases | automatic linking, linking by hand, difference repair | reads all postings first and writes them later, while the user splits | sums hold; one receipt, one posting; the user's split survives |
| Inbound mail (`inbound_email_service.py`, `imap_worker.py`) | `inboundemail` log, token of a household | webhook, poll, retry, delete | processed before it is marked seen; retry against the first attempt; stop between log and last status | a mail is not lost; a final status is true |
| Bank connections (`bank_service.py`) | `bankconnection`, `account` | complete the authorisation, delete | deletion during a sync | accounts keep their owner |
| Rules (`rules_service.py`) | `categorizationrule`, override log | evaluate, create, change, apply to the uncategorised, seed | priority and source order; a rule applied to a posting the user just categorised | the user's choice wins |
| Budgets (`budget_service.py`) | `budget`, `budgetbill` | upsert, bills, suggestions | check-then-insert; two commits | one budget per category and month; it agrees with the bills |
| Recurring, transfers (`recurring_service.py`, `transfer_service.py`) | `recurringtransaction`, flags of allocations | match, detect | order of arrival | `next_date` follows the latest posting |
| Widgets (`widget_service.py`) | JSON file, cache | enable, reorder, run | unlocked read-modify-write, a cache after a change | no update is lost |
| Notifications, insights | none | reports | none | reports agree with the ledger |
| Accounts, categories | columns of rows | single updates | none | trivial |
| Configuration, storage, money, schemas | none | parsing | rounding | pure functions |
| Application shell, routers | none | HTTP plumbing | startup tasks run before requests | each endpoint calls one service |
| Session and household context (`HouseholdContext.tsx`, `AppLayout.tsx`, `api/http.ts`) | the gate, selection, header, cached list of households, `localStorage` | sign in, choose, create, delete, restore, leave, reload | keys and headers of different moments; an effect over a cached list; requests in flight at a switch | nothing of another household cached or shown; a selection is not taken away |
| Query cache and hooks (`api/domains/*.ts`) | entries, requests | some 25 queries, some 30 mutations with the keys they invalidate | an old answer that lands after a change; a key that is forgotten or matches nothing | own changes show; what is stale is asked for; what is polled catches up |
| Transaction sidebar (`TransactionDetailsSidebar.tsx`) | draft, save, link | edit, split, save, link a receipt, close | two requests for one save; closing between them; another member | a split sums; what closed the form is stored; the others' notes stay |
| Transaction list (`TransactionsPage.tsx`, `TransactionFilters.tsx`) | filter, marks, rule prompt | filter, mark, categorise in a row, in bulk, by rule | answers out of order; marks that outlive the list; overlapping requests | the list answers its filter; the last choice is stored |
| Budget pages (`BudgetsPage.tsx`, `BudgetDetailsSidebar.tsx`) | draft, saves | open, edit, save twelve months or the bills | refetch under a draft; parallel check-then-insert; some months fail | the draft stays; what closed the form is stored |
| Bank pages (`SettingsPage.tsx`, `DashboardPage.tsx`) | polling, the code in the address | start and watch a sync, connect a bank | a cached end of an earlier job; effects that run twice; leaving the page | the end told is the own one, and it is told; a code is sent once |
| Bell and review (`NotificationDrawer.tsx`, `DuplicateReviewModal.tsx`) | read marks in `localStorage`, drawer, reviews; mounted twice | mark, accept a rule, merge, dismiss | two copies of one state; polling against mutations | marks last; one rule each; what is settled stays away |
| Reports, accounts, widgets (`InsightsPage.tsx`, `AccountsPage.tsx`, `WidgetsPage.tsx`) | none of their own | show, with mutations of the hooks | - | their queries are current |
| Scripts, deployment | none | operations by hand | none | - |

The parts of the server interact by calls and by the shared tables: the sync thread calls the rules, the recurring
matching, the reconciliation and, at its end, the receipt linking; linking reads the receipt
store; a mail ends in an import and then a linking; the purge deletes the rows of every component.
The pages interact with the server by requests, and with one another by the query cache, the
selected household and the address.

## 3. Modules

| Module | Models |
|---|---|
| `Retrieval` | what the job machinery promises: one retrieval at a time, each job handed to the bank at most once |
| `SyncJob` | start, status poll and worker thread, one action per statement that touches shared state |
| `SyncJobProofs` | its theorems |
| `Ledger` | postings, allocations, accounts and dismissals of one household, one action per operation |
| `LedgerProofs` | its theorems, and the lemmas about its sums, rows, groups and batches |
| `Household` | one household: membership requests statement by statement, login, clock, purge worker |
| `HouseholdProofs` | its theorems |
| `Session` | the signed-in shell: gate, provider, selection, header, and one query of a page |
| `SessionProofs` | its theorems |
| `Views`, `ViewsProofs` | one watched query against all changes, with the tables of the API hooks; its theorems |
| `TransactionForm` | the sidebar of a posting and its save in two requests |
| `TransactionList`, `TransactionListProofs` | filters, answers, marks, edits of categories; its theorems |
| `BudgetForm` | the sidebar of a budget, and `budget_service.py` below it, statement by statement |
| `FormProofs` | the theorems of both sidebars |
| `BankPages` | watching a sync, connecting a bank |
| `Notices` | both bells and their reviews |
| `PagesProofs` | the theorems of these two |
| `Pages` | the six page modules side by side, one of them at work |
| `MCSyncJob`, `MCLedger`, `MCHousehold`, `MCSession`, `MCPages` | small instances |

### SyncJob

`created`, `tenant` and `status` are the `SyncJob` table, numbered by `started_at`; `thread` is
`_RETRIEVE_STATE["thread"]`, named by the job it runs; `lock` is `_RETRIEVE_LOCK`; `worker[j]` is
the place of `_run_sync_job` in the thread of `j`; `pc`, `asker`, `mine` and `seen` are the local
variables of the requests.  `StartRequest`, `Acquire`, `InsertJob`, `Launch` are
`start_sync_job`; `ReadLatest`, `ZombieCheck`, `MarkFailed` are `get_sync_status`, which a start
also runs at its end, under the lock where the thread is alive; `WorkerBegins` to `WorkerDies`
are the thread.  Every status write can raise when `WritesFail` (`database is locked`): in a
request that ends the request, in the thread it leads to the `except` branch, and in the `except`
branch it kills the thread.  `Restart` keeps the table only.  The text of progress messages and
what the retrieval stores are left out; the latter is the ledger.

### Ledger

`ledger.rows` is the order of insertion, which decides what a query without `ORDER BY` returns
first; `ledger.at` holds the columns the operations read or write.  An allocation is an amount, a
category and the set of marks on it: notes (`Note`), tags, documents, the flag "extraordinary".  A
description is abstracted to what `descriptions_match` asks of it: a labelled reference number, the
numbers in it, a payment method and a payee.  The payee is one word, since
`clean_description_for_matching` takes the blanks out before the words are looked for; two payees
therefore match only if they are equal.  What a batch does (the items of a sync, the rows of an archive,
the candidates of a reconciliation, the groups of the preview, those resolved) is a fold of one
operator for an item (`Store`, `ImportRow`, `ReconcileOne`, `Gather`, `Resolve`).

* `SyncAccount` is one account of `retrieve_transactions`: any subset of the bank's transactions in
  any order, any of them impossible to store (it is rolled back to the last commit, and the items
  stored since with it), then `reconcile_incoming_postings` on the ids that were new.
* `Import` is `import_spiir_csv`: a row that meets existing postings of its day and amount, however many,
  hands each of them its category, its note (in place of the old one), its tags and flag (`Written`)
  and its custom date (`Redated`); another becomes a posting.
* `Edit` and `Split` are the user; `Merge` is `merge_accounts`; `Dismiss`,
  `DismissAllSameAccount` and `ResolveAll` are the duplicate page, over `Groups`, the greedy
  grouping of the preview.

Each of these is one step: it commits once (the sync once per `CommitEvery` items) and its writes are
serialised.  What that hides, two handlers that both read before either writes, is listed as a
hazard.  A consolidation drops the links to an item cluster and to a recurring transaction, which no
property is about; the link to a receipt is a row of the second database, which is not modelled.  Two accounts to merge are different ones: deleting an
account that still has postings raises, and nothing is written.

### Household

`exists`, `deleted` and `age` are the household row (`age` counts clock ticks since `deleted_at`,
capped one past the window), `role` the membership table, `stub` the user rows
that an invitation makes for an unknown address, `req` the requests in flight, `purger` the worker.
A request is admitted by `Open`, which is its first query, and then takes one step per query;
its last step writes.  `saw` keeps what a session read of the target, since it is not read again.
`Login` is one step: `_sync_user_and_household` merges a stub in one transaction.  `Pick` is the
worker's selection, `Purge` everything from its first delete, which takes the write lock, to its
commit; `PurgeFails` a flush that raises.  Names, listings and the inbound token are left out.
The model starts after `create_household`, whose two commits are a hazard of their own.

### Session

`status` is the server's view of each household for this user.  `gate`, `stored`, `active`,
`header`, `list`, `listReq` and `dirty` are `AppLayout` and `HouseholdProvider`: `active` is the React
state, `header` the module variable of `http.ts`, `stored` what `localStorage` holds, `dirty` that the
provider has to render.  `ProviderRender` is a render with its effect, in its four outcomes
(`FallBack`, `Confirm`, `Drop`, `Rest`); `SetActive` is `setActiveHousehold` with its reset of all
queries; `Begin`, `Apply`, `OpDone`, `CreateDone`, `OpFail` the four household mutations, of which a
created household is written into the cached list.  One query stands for each of a page: `keyed`
says whether its key holds the household, `consumer` whether its component reads the context and so
renders with it; `page.key` is the key of its last render, `entry[k].hh` whose data are stored under
`k`.  This is where key and header part: a reset asks again under the key of the last render, with
the header of now.

### Views

The tables say what the server reads for each query, what it writes for each mutation, and what each
hook invalidates, with prefix keys expanded into the queries they match: two of the keys match none
(the bills without their household, and `insights-sunburst` after a sync).  One query is watched; its
data are a version, so "stale" is a smaller number.  `owed` is the version of the last acknowledged
change that its hook owes it, `slipped` that an old answer was on its way to where an invalidation
does not reach it.  `Overlooked` lists what the hooks leave out, pair by pair, and excepts it.

### TransactionForm, TransactionList, BudgetForm

`server` is the posting with its allocations, `listed` its row in the list, read at some earlier time
(`ListRead`), with which the sidebar opens; `Replaced` is what `split_allocation` does to the note and
the tags, which the allocations carry, whoever wrote them.  A save is a small process (`split`, `splitStored`,
`update`, `updateStored`) that goes on after the sidebar is closed, but then without the callback
that would start the second request (`attached`).  In the list a filter is a record and the cache a
function of it; `edits` are requests on their way, and a posting two of them were about is `raced`,
since they may be stored in either order.  In `BudgetForm` a variable category is saved with one
request per month, each a check (`Upsert`) and a write (`UpsertStored`), as `budget_service.py` makes
them; a fixed one with the replacement of its bills and the sums, in two commits.  `latest` is the
call each mutation observer of the open sidebar knows of, and so what the button waits for; it is
empty again when the sidebar is closed, while the requests go on.  A query may fail (`BudgetFails`):
it is loading no longer and has nothing, so the draft is filled from nothing.  Both sidebars are mounted
while they are open, and what they held is gone when they close (`Discards`, `NoDraft`).

### BankPages, Notices

`job` is the household's latest job, as `SyncJob` describes it from the inside; `syncStatus` the cached
answer; `mine` the first job that can be the one the page has asked for.  `GoTo` ends the page's
state; `Connect` leaves for the bank's site, which loses everything in memory.  `effects` counts down
the runs of the effect on mount, two under `StrictMode`.  In `Notices`, `readIds` is of each bell and
`storage` the one place both write; `ticked` is what was marked and has been listed since.

### Pages

The router shows one page at a time, and a page that is left loses its state.  What remains is the
cache, which every module keeps for its own queries, so an instance is one page at work; `screen`
says which.  What pages do to one another's queries is `Views`.

## 4. Runs

| Run | Instance | Shows |
|---|---|---|
| `sync_safety` | 1 household, 2 requests, 2 jobs, 1 restart, failing writes | `OneRetrieval`; `ImplementsRetrieval` (refinement of `Retrieval`); `RequestsAnswered` |
| `sync_recovery` | as above, writes succeed | `InterruptedJobSettles` |
| `sync_zombie` | 2 households | the same property fails (finding 1) |
| `sync_late_mark` | 1 job | `FailedMeansInterrupted` fails (finding 2) |
| `ledger` | an archive row, two equal bank rows, a third in a second bank account; all three accounts of one name; one mark, 1 edit, amounts fixed | `SumsMatch`, `RemovedLivesOn`, `BankPostingsStay`, `ResolveRespectsDismissal` |
| `ledger_dismissed` | two bank rows in two accounts | `DismissedStayApart` fails (finding 3) |
| `ledger_sums` | the bank may correct an amount | `SumsMatch` fails (finding 4) |
| `household` | 2 persons, 1 stub, 2 requests, a window of 1 tick | `NoOrphanMembers`, `RestoredStays`, `ExpiredIsPurged` |
| `household_owner` | 2 persons, 2 requests | `OwnerExists` fails (finding 5) |
| `session` | 2 households, 2 acts, any stored selection, queries of all three sorts | `NoLeak`, `NeverThrownOut`, `SelectedIsShown` |
| `pages` | six pages in turn, bounds below | `Views`: `OwnWriteShows`, `StaleIsRefetched`, `PolledCatchesUp`; `TransactionForm`: `SplitsAddUp`, `SavedWhenClosed`, `OthersNoteStays`; `TransactionList`: `ResultsOfFilter`, `AmountAgrees`, `LastPickStays`; `BudgetForm`: `DraftKept`, `BudgetSavedWhenClosed`; `BankPages`: `CodeSentOnce`, `TellsOwnSync`, `EndIsTold`; `Notices`: `ReadStaysRead`, `OneRuleEach`, `GoneIsGone` |
| `pages_split_note` | the sidebar of a posting | `NoteFollowsSplit` fails (finding 6) |

### Bounds

* `MaxJobs`, `MaxRestarts`: two jobs are the fewest for a second retrieval, and for a newer job that
  hides an older one; one restart makes a row of a dead process.  A start is admitted only while a
  row is left for it, so that no request waits on the bound.
* Two requests: every race here is between two of them, or one and a thread.  The lock is wanted by
  both, so a third adds waiting and no new order of the steps under it.
* `MaxEdits` bounds the user's edits, splits and dismissals together; one is enough for a split or a
  dismissal to meet the rest, since the archive row brings a note of its own, a split may carry marks, and
  `DismissAllSameAccount` is not counted.  Syncs, imports, merges and resolutions are not bounded: the
  state space is finite without.
* Four postings: a chain of consolidations needs an archive row and two of the bank; two equal rows in
  one account are the case the automatic resolution must leave alone, and a third in an account of the same
  name, two days later, which is as far as a settlement may be, the case in which it takes one.
* The archive row has the day of the two: an import meets them where they are there, and inserts it
  where they are not yet.
* `CommitEvery = 2` stands for 100: with two items a failing one can stand before and after a commit.
* `Parts` offers splits that sum and splits that do not, so the guard of `split_allocation` matters.
* `Window = 1` with `age` to 2: before, at and after the limit.
* Household runs do not check deadlock, since nothing is left to happen to a purged household.
* `session`: two households are a selection and another one; two acts (of the user, of other members,
  a lost request, a query past its `staleTime`) bring a choice or a household mutation together with
  one event that crosses it.  Renders and answers are not bounded.
* `pages`: `MaxChanges = 2` with `MaxLost = 1`, a change, one that overtakes its answer, and a failed
  request; every query against every mutation.  `MaxClicks = 3`: two choices and the answer to an
  offered rule, or a filter and a mark.  `MaxSteps = 5`: a connection, the way back, and a sync with an
  answer lost.  `MaxGlances = 4`: drawer, a mark, the review, a merge.
  `MaxTyping = 3` and `MaxRows = 2`: a split, an amount and a note, or another member in
  between.  Two months, one of them December, whose request is the last; `MaxPresses = 4`, and in the
  module one bill and two saves at once.  Answers, failed queries and reads of the list are not bounded.
* The client's runs do not check deadlock: when the bounds are used up and all answers are in, nothing
  is left to do.

### Fairness

* `SyncJob`: a started thread runs (its HTTP calls have a timeout of a minute); an admitted request
  runs; `SF` for the lock, which `threading.Lock` does not withhold for ever; and the page of each
  household polls the status for as long as it is open (`SF`, since all request threads may be busy).
  Nothing is assumed of starts, of restarts or of whether writes succeed.  `sync_recovery` is run
  without failing writes, because a job whose last write fails is settled by no code before a restart.
* `Session`: the sign-in library answers, requests are answered, what is scheduled renders.  Nothing
  is assumed of the user, and no request has to fail unless the server refuses it.
* `Views`: the interval of a polled query comes round (`Poll`), answers are computed and land.
* `BankPages`: the same of the status query, the start request, and React's effects; jobs end, which is
  what the runs of `SyncJob` are about.
* `Household`: time passes, the worker comes round every ten minutes (`WF`), and the purge does not
  fail for ever (`SF` of `Purge`, which `PurgeFails` may precede any number of times).

## 5. Findings

1. `sync_zombie`: the zombie detection asks whether any thread object is stored, not whether the
   row's thread is alive.  After a restart, a sync of household B stores one; household A's dead job
   is then reported as running while the process lives.
2. `sync_late_mark`: a poll that read the row before the thread was published overwrites it later,
   even when the job has succeeded by then.
3. `ledger_dismissed`: `merge_accounts` consolidates two postings the user marked as not being
   duplicates.
4. `ledger_sums`: a corrected amount changes the posting and not its allocations.
5. `household_owner`: two owners who step down or leave at the same time leave none.
6. `pages_split_note`: the sidebar sends the split and then a patch of the fields that were changed.
   The split has replaced the allocations that held the note, so a note the user did not touch, his
   own or another member's, is gone, although the comment speaks of applying tags and notes afterwards.

Met while modelling, modelled or left out as said, and stated by no property:

* `resolve_all_household_duplicates` is documented to resolve only pairs of an archive and a bank account
  (`reconciliation_service.py:726`), but any two accounts of one name pass `are_accounts_duplicate_pair`: of
  two payments in two bank accounts of one name one is deleted, and comes back with the next sync of its
  account, in place of the other.  `BankPostingsStay` admits exactly this.
* The archive import says that it only matches if there is exactly one match (`csv_service.py:106`); it
  writes to every posting of the day and amount, as `ImportRow` does.
* A consolidation says that it takes receipts over (`reconciliation_service.py:257`); the row of
  `peng_receipt_link` keeps the id of the removed posting.  The ledger has no receipts, and
  `RemovedLivesOn` says nothing of them.
* The link of a receipt chosen by hand is refused for want of a date (`kvitteringer_service.py:3063`), the
  refusal is not looked at (`transaction_service.py:702`), and the posting is split without it.

## 6. Proofs

Every theorem is checked by TLAPS for all values of the constants that satisfy the module's
assumption, and with no bound on jobs, clicks, changes or losses but the constants that name one.
Three of them, about the ledger, carry a further hypothesis, `FixedAmounts`, which the run
`ledger_sums` shows to be needed.

**SyncJob.**  `OneRetrieval` is not inductive: a state with a live thread that is not the stored one
could start a second.  `IInv` adds who may stand between the `is_alive` test and `t.start()` (only
the holder of the lock, with no live thread: `StarterHoldsLock`), that the row about to be started
has no thread (`LaunchIsFresh`), that a live thread is the stored one (`LiveIsPublished`), and that
rows a thread or poll refers to exist and a thread about to finish has a verdict.  From it follow
`TypeCorrect`, `OneRetrievalAlways`, and `RefinesRetrieval`: `Launch` maps to `Begin`, the
end of a thread and a restart that kills one to `End`, everything else to a stutter.  These hold with
failing writes, and with any number of clients, households, jobs and restarts.

**Ledger.**  The theorems are about whole batches: a sync of any length, in any order, with any items
that fail; archive files of any length; any number of groups resolved at once.

* *Folds.*  The model folds over sequences, and induction over data is not to be had, so each fold is
  proved to be a function of how many items it has taken (`FoldExists`, from the least length at
  which it would not be, an argument by least counterexample on the numbers).  From that: a set that
  holds the base, and that every step stays in, holds the result (`Stays`).  `TotalRun`
  does the same for the sums.
* *Batches.*  `Ledgers(A)` is the set of well-formed ledgers over the accounts `A`: the order of
  rows lists each posting of the table once, and each posting is `Sound`, with an existing account, an
  amount that was reported for it, and allocations that add up to it.  A set of ledgers is `Closed` if
  it contains with a ledger what each consolidation of it leaves, and `Stores` if also what
  each insertion and each correction leaves.  Reconciling, merging and resolving stay in every closed
  set, syncs and imports in every one that stores; a property of a batch is then the choice of a set.
* *Invariant.*  `LedgerInv`: the ledger is in `Ledgers(account)`, and dismissed pairs are pairs of
  postings; TLC finds it unbroken on the instance of the run `ledger`.  It gives `LedgerTypes`, and `SumsAlwaysMatch` under the hypothesis `FixedAmounts`, that a
  source reports one amount for a posting.  The hypothesis is what finding 4 is about: the same code
  violates the property as soon as the bank corrects an amount.  Central is `AbsorbedAllocs`: what a
  consolidation does to the allocations (take over a split, fill a category, join the marks) leaves
  the sum that of one of the two, whose amounts are equal.
* *Removed postings.*  `RemovedAlwaysLivesOn` chooses the set of ledgers that `Follow` the one before
  the step: each posting that is gone has an `Heir`, of its amount, with its marks (notes, tags, documents,
  the flag; no receipt) and its exclusion.
  Following is closed under consolidation since an heir that goes has an heir itself; a split that
  replaced marks on the way was the split of a posting that is gone, too (`LostSplit`).
  `FixedAmounts` is needed, because a sync may correct an amount and reconcile in one step.
* *Dismissals.*  `DismissalIsRespected` follows the preview: the listing is in order and names each
  posting once (`Ranks`, `ListingIs`), so the greedy pass puts no posting in two groups (`Apart`) and a
  group that can be resolved is a pair that is not dismissed (`PairIs`); resolving one pair therefore
  leaves the others as they were read (`Leaves`).  The property speaks of steps that change no
  account and bring no posting.  That a sync with a posting gone is never such a step is `SyncBrings`:
  what a reconciliation takes, it takes in favour of a posting of the bank that is new.
* *Rows of the bank.*  `BankRowsStay` follows a row of the bank through the reconciliation of a sync and
  through a resolution (`BankKept`): it remains in its account with its amount, or it has a `BankHeir`,
  a row of the bank of its amount in another account of the same name.  A candidate of a reconciliation
  is never of the posting's own account, an archive row never survives a row of the bank, and
  the groups of a resolution share no posting (`Apart`), so that an heir is not taken itself.  There
  may be any number of connected accounts; that rows of the bank are removed at all, in favour of
  one another, is the first remark of section 5.

**Household.**  `IInv` is `TypeOK` in three parts, that a request under way is about a user
(`Directed`), and `NoOrphanMembers`; it gives `TypeCorrect` and `NoOrphansAlways`.
`RestoredHouseholdStays` needs no invariant.  That there is an owner is refuted by finding 5 and not
proved under any hypothesis: requests are served in parallel, and a login drops the membership of a
stub whose person is a member already, and with it the role of an owner the stub may have been given.

**Session.**  `SessionTypes` splits `SessionTypeOK` by variable and action.  For `ChoiceLeavesNothing`,
`LeakInv` is `NoLeak` with the fact that makes it inductive: after a choice the selected household
is one and the header is its.  For `SelectionIsKept`, `StayInv` says of every list the client holds or
has been sent that the selected household is active in it, as long as it has been the user's all the
time: a list that was asked for before the selection is dropped with its request, and a
created household is in the cached list before it is selected.

**Views.**  `ViewsTypes` needs a count: the server has made no more versions than there were changes,
less the one on its way (`Counted`).  For `OwnWritesShow`, `AnswerShows` adds the answer that is on
its way: unless it slipped past an invalidation, it is as new as what is owed.  The step that counts is
the hook's `onSuccess`: what a mutation writes and a query reads, its keys reach, but for the listed
omissions.  That is a fact about the tables, proved row by row from them, and so for every query
and every mutation.

**TransactionForm.**  `SplitsAlwaysAddUp` computes with the fold of the sums itself: a row that is
changed, added or removed changes the sum by its difference, whatever the rows and the amount, and a
patch alters no amount.  `FormSaved` has `SaveInv`: what a save carries, and for each of its phases how
much of it is stored unless another member wrote in between; `OthersNotesStay` follows from what a save
carries, since a patch names the note only where it was changed here.  A split and a linked receipt are
excepted in its statement, for they erase the note (finding 6).

**BudgetForm.**  `BudgetInv` says of each save on its way that a row it has seen is there (no code
deletes one), and, for as long as no other save of its sheet came in between, that each month it has
stored is as it wants it (`Holds`).  The exception is a month with two rows, the result of an earlier race.
A save with nothing in between is the only one of its sheet (`Alone`).  A month with two rows is summed
in the last of them, which the exception covers.  From it `BudgetSaved` and
`BudgetTypesOK`; `DraftIsKept` is about who writes the draft.

**TransactionList.**  `LastPickStays` speaks of postings with no request about them.  `PickInv` adds
that a request about a posting that has met no other one carries the last choice, and that the
posting has it once the request is stored.  `ResultsFit` has `Answered`: under each key of the cache is
an answer to that filter, so the order of answers does not matter.  `AmountShown` goes through the
fields that type, apply and reset the amount (`FilterInv`); `ListTypes` adds the menus (`OneMenu`) and
what requests carry (`EditTypes`).

**Notices.**  `ReadInv` adds to `ReadStaysRead` that what was ticked is in the list, and that the
marks of the bell in use are what the storage holds.  `SettledIsGone` needs what no one can know yet:
a notice that is still to come is in no list and in no request (`Novel`), and what is settled
at the server is not there any more (`Settled`), whence no later answer has it.  `RuleStoredOnce`
accounts for each acceptance (`Accounted`): once the rule is stored as often as losses excuse, the
bell remembers it, or what it lists, or is about to, is without it.

**BankPages.**  `CodeInv` ties the three counts: a code in the address means an effect still to run
and one code more issued than sent; otherwise they are equal.  `OwnInv` says for each phase of a start
what may be cached or on its way: nothing while it is sent, afterwards only statuses of the awaited
job or a later one.  `OnlySettingsPolls` has `Watch`: what is known of a job was a job before, and a
start whose answer is still wanted belongs to the settings page.

**Only model-checked.**  Liveness, which is out of the provers' reach: `RequestsAnswered`,
`InterruptedJobSettles`, `ExpiredIsPurged`, `SelectedIsShown`, `PolledCatchesUp`, `EndIsTold`.

## 7. Not modelled

* The receipt store and its links, inbound mail, rules and recurring matching at the server: the
  second database, its files and the crashes between them are a project of their own (below).
* The OAuth exchange with a bank and the sign-in library, external: `BankPages` and `Session` take
  their outcomes.
* Reports, charts, formatting, theme, translation, scripts: they keep no state, or none that a
  property is about.  The button "Autogenerér" computes suggestions and stores none.
* Signing out ends the client; a renamed household changes no selection.
* Between two pages only what `Views` says of the cache is kept; paths through several pages with one
  cache are not composed.

## 8. Plan

1. `Linking`, proved about as well: two requests and the automatic linking on one posting, one step
   per statement, over `split_allocation`, `link_receipt_to_transaction`, `auto_link_receipts`,
   `fix_receipt_difference_categories`; sums, one receipt per posting, the user's split survives.
2. `Receipts`: upload files, the import run and its transaction, the override file, the schema
   upgrade; crash between any two steps.  Abstract specification: an import replaces the
   store as a whole.  `Linking` is composed with it.
3. `InboundMail`: webhook, poller, retry and the log entry, with crashes and a mailbox that delivers
   again; what a final status means.
4. Bank connections as further actions of `Ledger`; rules, recurring matching and transfers as
   operators, against reference definitions.
5. Proofs: the refinement of `Linking` against what it promises, once it is there.
