------------------------------- MODULE Views -------------------------------
(***************************************************************************)
(* What the pages show of the server's data: the queries and mutations of  *)
(* the web client (frontend/src/api/domains) over the query cache          *)
(* (TanStack Query, external), for one household.                          *)
(*                                                                         *)
(* One query is watched.  Its data is reduced to a version: how many of    *)
(* the changes that concern it the server had made when it answered.  The  *)
(* tables say what each query reads, what each mutation writes and which   *)
(* queries the hook's onSuccess invalidates.                               *)
(***************************************************************************)
EXTENDS Naturals

CONSTANTS
    MaxChanges,    \* bound: changes at the server
    MaxLost        \* bound: requests of the watched query that fail

ASSUME ViewsAssumption == MaxChanges \in Nat /\ MaxLost \in Nat

\* One table out of several, no two of which have a row in common.
Table(parts) ==
    [x \in UNION {DOMAIN part : part \in parts} |-> (CHOOSE part \in parts : x \in DOMAIN part)[x]]

-----------------------------------------------------------------------------
(* What the server reads for the queries of each domain.                     *)

AccountReads == [
    accounts        |-> {"accounts", "connections"},
    accountHistory  |-> {"accounts", "postings"},
    bankConnections |-> {"connections"} ]

TransactionReads == [
    transactions |-> {"postings", "labels", "tags"},
    tags         |-> {"tags"} ]

\* Asked for while the sidebar links a receipt.
ReceiptReads == [ suggestedReceipts |-> {"postings", "labels", "receipts"} ]

BudgetReads == [
    budgets        |-> {"budgets"},
    budgetsSummary |-> {"budgets", "postings", "labels"},
    budgetBills    |-> {"bills"} ]

InsightReads == [
    incomeExpense |-> {"postings", "labels"},
    sunburst      |-> {"postings", "labels"},
    averages      |-> {"postings", "labels"},
    drilldown     |-> {"postings", "labels"} ]

RuleReads == [ rules |-> {"rules"} ]

\* The figures of a widget the server caches itself.
WidgetReads == [ widgetList |-> {"widgets"}, widgetData |-> {"widgets"} ]

MemberReads == [ members |-> {"members"} ]

InboundReads == [ inboundConfig |-> {"inboundToken"}, inboundEmails |-> {"mails"} ]

StatusReads == [ receiptsStatus |-> {"receipts", "labels"} ]

NotificationReads == [
    notifications    |-> {"postings", "labels", "dismissals", "connections", "rules"},
    duplicatePreview |-> {"postings", "labels", "dismissals"} ]

\* The picker's own query, and the one behind a slice of the dashboard's chart.
PickerReads == [ categories |-> {"categories"} ]
FocusReads  == [ focusedTransactions |-> {"postings", "labels"} ]

Reads ==
    Table({AccountReads, TransactionReads, ReceiptReads, BudgetReads,
           InsightReads, RuleReads, WidgetReads, MemberReads, InboundReads,
           StatusReads, NotificationReads, PickerReads, FocusReads})

Query == DOMAIN Reads

-----------------------------------------------------------------------------
(* What it writes for the requests of each domain, all of which fail unless  *)
(* the answer is ok.  The end of a sync that SettingsPage has watched counts *)
(* as one.                                                                  *)

AccountWrites == [
    updateAccount        |-> {"accounts", "labels"},
    completeBank         |-> {"connections", "accounts"},
    syncEnds             |-> {"accounts", "postings", "labels"},
    deleteBankConnection |-> {"connections"},
    uploadSpiir          |-> {"postings", "labels", "tags", "accounts", "categories"},
    mergeAccounts        |-> {"accounts", "postings", "labels"} ]

TransactionWrites == [
    updateTransactions |-> {"labels", "tags"},
    splitTransaction   |-> {"labels"},
    linkReceipt        |-> {"labels", "receipts"},
    updateCategory     |-> {"labels"} ]

BudgetWrites == [
    upsertBudget     |-> {"budgets", "categories"},
    generateBudgets  |-> {},
    applySuggestions |-> {"budgets"},
    saveBudgetBills  |-> {"bills", "budgets"} ]

\* A new rule is applied to the postings there are.
RuleWrites == [
    createCustomRule |-> {"rules", "labels"},
    deleteRule       |-> {"rules"} ]

WidgetWrites == [
    toggleWidget  |-> {"widgets"},
    reorderWidget |-> {"widgets"},
    reloadWidgets |-> {"widgets"} ]

MemberWrites == [
    inviteMember |-> {"members"},
    updateRole   |-> {"members"},
    removeMember |-> {"members"} ]

InboundWrites == [
    regenerateToken    |-> {"inboundToken"},
    simulateMail       |-> {"mails", "receipts", "labels"},
    retryMail          |-> {"mails", "receipts", "labels"},
    deleteMail         |-> {"mails"},
    clearMails         |-> {"mails"},
    uploadStorebox     |-> {"receipts", "labels"},
    importStoreboxLink |-> {"receipts", "labels"},
    uploadCoop         |-> {"receipts", "labels"},
    autoLink           |-> {"receipts", "labels"} ]

NotificationWrites == [
    resolveDuplicates |-> {"postings", "labels"},
    dismissDuplicate  |-> {"dismissals"},
    dismissAll        |-> {"dismissals"} ]

Writes ==
    Table({AccountWrites, TransactionWrites, BudgetWrites, RuleWrites,
           WidgetWrites, MemberWrites, InboundWrites, NotificationWrites})

Mutation == DOMAIN Writes

Affects(m, q) == Writes[m] \cap Reads[q] # {}

-----------------------------------------------------------------------------
(* What onSuccess of each hook invalidates.  A key matches every query whose *)
(* key it begins.                                                           *)

Insights     == {"incomeExpense", "sunburst", "averages", "drilldown"}
Figures      == {"budgets", "budgetsSummary"} \cup Insights
AllAccounts  == {"accounts", "accountHistory"}
OfHousehold  == {"members", "inboundConfig", "inboundEmails"}

\* What a sync names "insights-sunburst" is no query's key.
AccountHooks == [
    updateAccount        |-> AllAccounts,
    completeBank         |-> {},
    syncEnds             |-> AllAccounts \cup {"transactions", "budgetsSummary"},
    deleteBankConnection |-> {"bankConnections"} \cup AllAccounts,
    uploadSpiir          |-> {"transactions"} \cup Figures,
    mergeAccounts        |-> AllAccounts \cup {"transactions", "notifications"} ]

\* Mutant: a split forgets the yearly summary.
TransactionHooksShort == [
    updateTransactions |-> {"transactions"} \cup Figures,
    splitTransaction   |-> ({"transactions"} \cup Figures) \ {"budgetsSummary"},
    linkReceipt        |-> {"transactions", "suggestedReceipts"} \cup Figures,
    updateCategory     |-> {"transactions"} \cup Figures ]

TransactionHooks == [
    updateTransactions |-> {"transactions"} \cup Figures,
    splitTransaction   |-> {"transactions"} \cup Figures,
    linkReceipt        |-> {"transactions", "suggestedReceipts"} \cup Figures,
    updateCategory     |-> {"transactions"} \cup Figures ]

\* The bills' key is named without the household, so it matches none of them.
BudgetHooks == [
    upsertBudget     |-> {"budgets", "budgetsSummary"},
    generateBudgets  |-> {"budgetsSummary"},
    applySuggestions |-> {"budgets", "budgetsSummary"},
    saveBudgetBills  |-> {"budgets", "budgetsSummary"} ]

RuleHooks == [
    createCustomRule |-> {"transactions", "rules"} \cup Figures,
    deleteRule       |-> {"rules"} ]

WidgetHooks == [
    toggleWidget  |-> {"widgetList", "widgetData"},
    reorderWidget |-> {"widgetList", "widgetData"},
    reloadWidgets |-> {"widgetList", "widgetData"} ]

HouseholdHooks == [
    inviteMember |-> {"members"},
    updateRole   |-> OfHousehold,
    removeMember |-> OfHousehold ]

ReceiptFiles == {"receiptsStatus", "transactions"} \cup Figures

InboundHooks == [
    regenerateToken    |-> {"inboundConfig"},
    simulateMail       |-> {"inboundEmails", "transactions"} \cup Insights,
    retryMail          |-> {"inboundEmails", "transactions"} \cup Insights,
    deleteMail         |-> {"inboundEmails"},
    clearMails         |-> {"inboundEmails"},
    uploadStorebox     |-> ReceiptFiles,
    importStoreboxLink |-> ReceiptFiles,
    uploadCoop         |-> ReceiptFiles,
    autoLink           |-> ReceiptFiles ]

NotificationHooks == [
    resolveDuplicates |-> {"notifications", "duplicatePreview", "transactions"} \cup AllAccounts,
    dismissDuplicate  |-> {"notifications", "duplicatePreview", "transactions"},
    dismissAll        |-> {"notifications", "duplicatePreview", "transactions"} ]

Invalidates ==
    Table({AccountHooks, TransactionHooks, BudgetHooks, RuleHooks,
           WidgetHooks, HouseholdHooks, InboundHooks, NotificationHooks})

\* What the hooks overlook: transfers found again after an account's type has
\* changed, all a new bank connection brings, the figures after a sync, the
\* accounts of an archive, the figures after a merge of postings, a receipt that
\* splits a posting; and the queries that next to no hook names.
FromReceipts == {"linkReceipt", "uploadStorebox", "importStoreboxLink", "uploadCoop", "autoLink"}

Overlooked ==
    ({"updateAccount"} \X ({"transactions"} \cup Figures))
    \cup ({"completeBank"} \X Query)
    \cup ({"syncEnds"} \X Insights)
    \cup ({"uploadSpiir"} \X AllAccounts)
    \cup ({"mergeAccounts", "resolveDuplicates"} \X Figures)
    \cup ({"simulateMail", "retryMail"} \X {"budgetsSummary"})
    \cup (Mutation \X {"tags", "categories", "focusedTransactions", "budgetBills"})
    \cup ((Mutation \ {"linkReceipt"}) \X {"suggestedReceipts"})
    \cup ((Mutation \ DOMAIN NotificationHooks) \X {"notifications", "duplicatePreview"})
    \cup ((Mutation \ (FromReceipts \ {"linkReceipt"})) \X {"receiptsStatus"})

\* What a hook has to bring up to date.
Owes(m, q) == Affects(m, q) /\ <<m, q>> \notin Overlooked

\* refetchInterval: asked for again and again while it is observed.
Polled == {"notifications", "receiptsStatus", "inboundEmails"}

-----------------------------------------------------------------------------
VARIABLES
    watched,     \* the query
    observed,    \* a component that uses it is mounted
    entry,       \* its cache entry: version (0: nothing) and validity
    fetch,       \* its request: nothing, sent, or answered with a version
    db,          \* server: the version
    change,      \* a mutation on its way and the version it made
    owed,        \* history: the version of the last acknowledged change it is owed
    slipped,     \* history: an old answer was on its way, and was not dropped
    changes,     \* changes begun, here or elsewhere
    lost         \* requests of the query that have failed

viewsVars == <<watched, observed, entry, fetch, db, change, owed, slipped, changes, lost>>

NoFetch  == [phase |-> "none", ver |-> 0]
Asked    == [phase |-> "sent", ver |-> 0]
NoChange == [what |-> "none", phase |-> "none", ver |-> 0]

ViewsTypeOK ==
    /\ watched \in Query /\ observed \in BOOLEAN /\ slipped \in BOOLEAN
    /\ db \in 1..(MaxChanges + 1) /\ owed \in 0..db /\ lost \in 0..MaxLost /\ changes \in 0..MaxChanges
    /\ entry \in [ver: 0..db, valid: BOOLEAN]
    /\ fetch \in [phase: {"none", "sent", "read"}, ver: 0..db]
    /\ change \in [what: Mutation \cup {"none"}, phase: {"none", "sent", "applied"}, ver: 0..db]

ViewsInit ==
    /\ watched \in Query
    /\ observed = FALSE
    /\ entry = [ver |-> 0, valid |-> FALSE]
    /\ fetch = NoFetch
    /\ db = 1
    /\ change = NoChange
    /\ owed = 0
    /\ slipped = FALSE
    /\ changes = 0
    /\ lost = 0

-----------------------------------------------------------------------------
(* The query.                                                               *)

\* A component mounts: it asks when the entry is empty or invalid, or when
\* staleTime has passed, unless a request is on its way.
Show ==
    /\ ~observed
    /\ observed' = TRUE
    /\ IF fetch # NoFetch THEN fetch' = fetch
       ELSE \/ fetch' = Asked
            \/ entry.ver # 0 /\ entry.valid /\ fetch' = fetch
    /\ UNCHANGED <<watched, entry, db, change, owed, slipped, changes, lost>>

\* A request nobody waits for any more goes on.
Hide ==
    /\ observed
    /\ observed' = FALSE
    /\ UNCHANGED <<watched, entry, fetch, db, change, owed, slipped, changes, lost>>

\* Mutant: polling waits for a valid entry.
PollValid ==
    /\ observed
    /\ watched \in Polled
    /\ fetch = NoFetch
    /\ entry.valid
    /\ fetch' = Asked
    /\ UNCHANGED <<watched, observed, entry, db, change, owed, slipped, changes, lost>>

Poll ==
    /\ observed
    /\ watched \in Polled
    /\ fetch = NoFetch
    /\ fetch' = Asked
    /\ UNCHANGED <<watched, observed, entry, db, change, owed, slipped, changes, lost>>

Answer ==
    /\ fetch.phase = "sent"
    /\ fetch' = [phase |-> "read", ver |-> db]
    /\ UNCHANGED <<watched, observed, entry, db, change, owed, slipped, changes, lost>>

\* What lands is taken for fresh, whatever has been invalidated meanwhile.
Land ==
    /\ fetch.phase = "read"
    /\ entry' = [ver |-> fetch.ver, valid |-> TRUE]
    /\ fetch' = NoFetch
    /\ slipped' = (slipped /\ fetch.ver < owed)
    /\ UNCHANGED <<watched, observed, db, change, owed, changes, lost>>

\* The request and its retry fail: the data stay, as invalid.
FetchFails ==
    /\ fetch # NoFetch
    /\ lost < MaxLost
    /\ lost' = lost + 1
    /\ fetch' = NoFetch
    /\ entry' = [entry EXCEPT !.valid = FALSE]
    /\ UNCHANGED <<watched, observed, db, change, owed, slipped, changes>>

-----------------------------------------------------------------------------
(* Changes.                                                                 *)

\* A mutation that concerns the query; the others leave it as it is.
Mutate(m) ==
    /\ change = NoChange
    /\ Affects(m, watched) \/ watched \in Invalidates[m]
    /\ changes < MaxChanges
    /\ changes' = changes + 1
    /\ change' = [what |-> m, phase |-> "sent", ver |-> 0]
    /\ UNCHANGED <<watched, observed, entry, fetch, db, owed, slipped, lost>>

\* Mutant: the version is counted for a change that does not concern the query.
CommitMiscounts ==
    /\ change.phase = "sent"
    /\ db' = IF Affects(change.what, watched) THEN db + 1 ELSE db
    /\ change' = [change EXCEPT !.phase = "applied", !.ver = db + 1]
    /\ UNCHANGED <<watched, observed, entry, fetch, owed, slipped, changes, lost>>

Commit ==
    /\ change.phase = "sent"
    /\ db' = IF Affects(change.what, watched) THEN db + 1 ELSE db
    /\ change' = [change EXCEPT !.phase = "applied", !.ver = db']
    /\ UNCHANGED <<watched, observed, entry, fetch, owed, slipped, changes, lost>>

\* Refused, or its answer was lost: no onSuccess.
MutationFails ==
    /\ change # NoChange
    /\ change' = NoChange
    /\ UNCHANGED <<watched, observed, entry, fetch, db, owed, slipped, changes, lost>>

\* Mutant: what is observed is marked, and not asked for.
SucceedMarks ==
    /\ change.phase = "applied"
    /\ change' = NoChange
    /\ owed' = IF Owes(change.what, watched) THEN change.ver ELSE owed
    /\ IF watched \in Invalidates[change.what]
       THEN /\ entry' = [entry EXCEPT !.valid = FALSE]
            /\ slipped' = (slipped \/ fetch.phase = "read")
       ELSE UNCHANGED <<entry, slipped>>
    /\ UNCHANGED <<watched, observed, fetch, db, changes, lost>>

\* A request on its way is not dropped while there are no data at all.
Joined == fetch # NoFetch /\ entry.ver = 0

\* onSuccess: what the hook names is invalid; where it is observed, a request on
\* its way is dropped and a new one sent.
Succeed ==
    /\ change.phase = "applied"
    /\ change' = NoChange
    /\ owed' = IF Owes(change.what, watched) THEN change.ver ELSE owed
    /\ IF watched \in Invalidates[change.what]
       THEN /\ entry' = [entry EXCEPT !.valid = FALSE]
            /\ fetch' = IF observed /\ ~Joined THEN Asked ELSE fetch
            /\ slipped' = (~(observed /\ ~Joined) /\ (slipped \/ fetch.phase = "read"))
       ELSE UNCHANGED <<entry, fetch, slipped>>
    /\ UNCHANGED <<watched, observed, db, changes, lost>>

\* Another member, another tab or a background job of the server.
ChangedElsewhere ==
    /\ changes < MaxChanges
    /\ changes' = changes + 1
    /\ db' = db + 1
    /\ UNCHANGED <<watched, observed, entry, fetch, change, owed, slipped, lost>>

ViewsNext ==
    \/ Show \/ Hide \/ Poll \/ Answer \/ Land \/ FetchFails
    \/ \E m \in Mutation : Mutate(m)
    \/ Commit \/ MutationFails \/ Succeed \/ ChangedElsewhere

ViewsFairness == WF_viewsVars(Poll) /\ WF_viewsVars(Answer) /\ WF_viewsVars(Land)

ViewsSpec == ViewsInit /\ [][ViewsNext]_viewsVars /\ ViewsFairness

-----------------------------------------------------------------------------
(* Properties.                                                              *)

\* Once a mutation has succeeded, data that count as fresh are never older than
\* it, except what was already on its way to a page that had been left, or to one
\* that had nothing yet.
OwnWriteShows == entry.valid /\ ~slipped => entry.ver >= owed

\* A page that stays open never rests on data it knows to be stale: they are
\* shown only with a request on its way or after one that failed.
StaleIsRefetched == observed /\ fetch = NoFetch /\ lost = 0 => entry.valid

\* What is polled shows every change in the end, also those of others, after
\* failed requests and after a slip.
PolledCatchesUp ==
    []<>(watched \in Polled => ~observed \/ entry.ver = db)
=============================================================================
