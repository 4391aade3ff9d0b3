---------------------------- MODULE ViewsProofs ----------------------------
(* The query cache, for every query, every mutation and any number of       *)
(* changes and failures: what counts as fresh holds the user's own changes, *)
(* and an open page does not rest on stale data.                            *)
EXTENDS Views, TLAPS

-----------------------------------------------------------------------------
(* The tables.                                                              *)

\* A table has the row of one of its parts.
LEMMA TableRow ==
  ASSUME NEW parts, NEW x \in DOMAIN Table(parts)
  PROVE  \E part \in parts : x \in DOMAIN part /\ Table(parts)[x] = part[x]
<1>1. \E part \in parts : x \in DOMAIN part
  BY DEF Table
<1> DEFINE p == CHOOSE part \in parts : x \in DOMAIN part
<1>2. p \in parts /\ x \in DOMAIN p
  BY <1>1
<1>3. Table(parts)[x] = p[x]
  BY DEF Table
<1>4. QED
  BY <1>2, <1>3

\* It has a row for all that its parts have one for.
LEMMA TableDomain ==
  ASSUME NEW parts
  PROVE  DOMAIN Table(parts) = UNION {DOMAIN part : part \in parts}
  BY DEF Table

LEMMA ReadsRow ==
  ASSUME NEW q \in Query
  PROVE  \/ q \in DOMAIN AccountReads /\ Reads[q] = AccountReads[q]
         \/ q \in DOMAIN TransactionReads /\ Reads[q] = TransactionReads[q]
         \/ q \in DOMAIN ReceiptReads /\ Reads[q] = ReceiptReads[q]
         \/ q \in DOMAIN BudgetReads /\ Reads[q] = BudgetReads[q]
         \/ q \in DOMAIN InsightReads /\ Reads[q] = InsightReads[q]
         \/ q \in DOMAIN RuleReads /\ Reads[q] = RuleReads[q]
         \/ q \in DOMAIN WidgetReads /\ Reads[q] = WidgetReads[q]
         \/ q \in DOMAIN MemberReads /\ Reads[q] = MemberReads[q]
         \/ q \in DOMAIN InboundReads /\ Reads[q] = InboundReads[q]
         \/ q \in DOMAIN StatusReads /\ Reads[q] = StatusReads[q]
         \/ q \in DOMAIN NotificationReads /\ Reads[q] = NotificationReads[q]
         \/ q \in DOMAIN PickerReads /\ Reads[q] = PickerReads[q]
         \/ q \in DOMAIN FocusReads /\ Reads[q] = FocusReads[q]
BY TableRow DEF Query, Reads

\* Which queries read what.
LEMMA Readers ==
  ASSUME NEW q \in Query
  PROVE  /\ "accounts" \in Reads[q] => q \in {"accounts", "accountHistory"}
         /\ "connections" \in Reads[q] => q \in {"accounts", "bankConnections", "notifications"}
         /\ "postings" \in Reads[q] =>
              q \in {"accountHistory", "transactions", "suggestedReceipts", "budgetsSummary",
                     "notifications", "duplicatePreview", "focusedTransactions"} \cup Insights
         /\ "labels" \in Reads[q] =>
              q \in {"transactions", "suggestedReceipts", "budgetsSummary", "receiptsStatus",
                     "notifications", "duplicatePreview", "focusedTransactions"} \cup Insights
         /\ "tags" \in Reads[q] => q \in {"transactions", "tags"}
         /\ "receipts" \in Reads[q] => q \in {"suggestedReceipts", "receiptsStatus"}
         /\ "budgets" \in Reads[q] => q \in {"budgets", "budgetsSummary"}
         /\ "bills" \in Reads[q] => q = "budgetBills"
         /\ "categories" \in Reads[q] => q = "categories"
         /\ "rules" \in Reads[q] => q \in {"rules", "notifications"}
         /\ "widgets" \in Reads[q] => q \in {"widgetList", "widgetData"}
         /\ "members" \in Reads[q] => q = "members"
         /\ "inboundToken" \in Reads[q] => q = "inboundConfig"
         /\ "mails" \in Reads[q] => q = "inboundEmails"
         /\ "dismissals" \in Reads[q] => q \in {"notifications", "duplicatePreview"}
BY ReadsRow
DEF AccountReads, TransactionReads, ReceiptReads, BudgetReads, InsightReads,
    RuleReads, WidgetReads, MemberReads, InboundReads, StatusReads, NotificationReads,
    PickerReads, FocusReads, Insights

LEMMA WritesRow ==
  ASSUME NEW m \in Mutation
  PROVE  \/ m \in DOMAIN AccountWrites /\ Writes[m] = AccountWrites[m]
         \/ m \in DOMAIN TransactionWrites /\ Writes[m] = TransactionWrites[m]
         \/ m \in DOMAIN BudgetWrites /\ Writes[m] = BudgetWrites[m]
         \/ m \in DOMAIN RuleWrites /\ Writes[m] = RuleWrites[m]
         \/ m \in DOMAIN WidgetWrites /\ Writes[m] = WidgetWrites[m]
         \/ m \in DOMAIN MemberWrites /\ Writes[m] = MemberWrites[m]
         \/ m \in DOMAIN InboundWrites /\ Writes[m] = InboundWrites[m]
         \/ m \in DOMAIN NotificationWrites /\ Writes[m] = NotificationWrites[m]
BY TableRow DEF Mutation, Writes

LEMMA HooksRow ==
  ASSUME NEW m \in DOMAIN Invalidates
  PROVE  \/ m \in DOMAIN AccountHooks /\ Invalidates[m] = AccountHooks[m]
         \/ m \in DOMAIN TransactionHooks /\ Invalidates[m] = TransactionHooks[m]
         \/ m \in DOMAIN BudgetHooks /\ Invalidates[m] = BudgetHooks[m]
         \/ m \in DOMAIN RuleHooks /\ Invalidates[m] = RuleHooks[m]
         \/ m \in DOMAIN WidgetHooks /\ Invalidates[m] = WidgetHooks[m]
         \/ m \in DOMAIN HouseholdHooks /\ Invalidates[m] = HouseholdHooks[m]
         \/ m \in DOMAIN InboundHooks /\ Invalidates[m] = InboundHooks[m]
         \/ m \in DOMAIN NotificationHooks /\ Invalidates[m] = NotificationHooks[m]
BY TableRow DEF Invalidates

\* The requests of each domain, and a hook for each of them.
LEMMA Requests ==
  /\ DOMAIN AccountWrites = DOMAIN AccountHooks
  /\ DOMAIN AccountWrites = {"updateAccount", "completeBank", "syncEnds", "deleteBankConnection",
        "uploadSpiir", "mergeAccounts"}
  /\ DOMAIN TransactionWrites = DOMAIN TransactionHooks
  /\ DOMAIN TransactionWrites = {"updateTransactions", "splitTransaction", "linkReceipt",
        "updateCategory"}
  /\ DOMAIN BudgetWrites = DOMAIN BudgetHooks
  /\ DOMAIN BudgetWrites = {"upsertBudget", "generateBudgets", "applySuggestions", "saveBudgetBills"}
  /\ DOMAIN RuleWrites = DOMAIN RuleHooks
  /\ DOMAIN RuleWrites = {"createCustomRule", "deleteRule"}
  /\ DOMAIN WidgetWrites = DOMAIN WidgetHooks
  /\ DOMAIN WidgetWrites = {"toggleWidget", "reorderWidget", "reloadWidgets"}
  /\ DOMAIN MemberWrites = DOMAIN HouseholdHooks
  /\ DOMAIN MemberWrites = {"inviteMember", "updateRole", "removeMember"}
  /\ DOMAIN InboundWrites = DOMAIN InboundHooks
  /\ DOMAIN InboundWrites = {"regenerateToken", "simulateMail", "retryMail", "deleteMail",
        "clearMails", "uploadStorebox", "importStoreboxLink",
        "uploadCoop", "autoLink"}
  /\ DOMAIN NotificationWrites = DOMAIN NotificationHooks
  /\ DOMAIN NotificationWrites = {"resolveDuplicates", "dismissDuplicate", "dismissAll"}
BY DEF AccountWrites, AccountHooks,
       TransactionWrites, TransactionHooks,
       BudgetWrites, BudgetHooks,
       RuleWrites, RuleHooks,
       WidgetWrites, WidgetHooks,
       MemberWrites, HouseholdHooks,
       InboundWrites, InboundHooks,
       NotificationWrites, NotificationHooks

LEMMA HookDomain == DOMAIN Invalidates = Mutation
<1>1. DOMAIN Invalidates =
        DOMAIN AccountHooks \cup DOMAIN TransactionHooks \cup DOMAIN BudgetHooks
        \cup DOMAIN RuleHooks \cup DOMAIN WidgetHooks \cup DOMAIN HouseholdHooks
        \cup DOMAIN InboundHooks \cup DOMAIN NotificationHooks
  BY TableDomain DEF Invalidates
<1>2. DOMAIN Writes =
        DOMAIN AccountWrites \cup DOMAIN TransactionWrites \cup DOMAIN BudgetWrites
        \cup DOMAIN RuleWrites \cup DOMAIN WidgetWrites \cup DOMAIN MemberWrites
        \cup DOMAIN InboundWrites \cup DOMAIN NotificationWrites
  BY TableDomain DEF Writes
<1>3. QED
  BY <1>1, <1>2, Requests DEF Mutation

\* What a request writes and what its hook invalidates stand in the tables of its domain.
LEMMA SameRow ==
  ASSUME NEW m \in Mutation
  PROVE  \/ m \in DOMAIN AccountWrites /\ Writes[m] = AccountWrites[m] /\ Invalidates[m] = AccountHooks[m]
         \/ m \in DOMAIN TransactionWrites /\ Writes[m] = TransactionWrites[m] /\ Invalidates[m] = TransactionHooks[m]
         \/ m \in DOMAIN BudgetWrites /\ Writes[m] = BudgetWrites[m] /\ Invalidates[m] = BudgetHooks[m]
         \/ m \in DOMAIN RuleWrites /\ Writes[m] = RuleWrites[m] /\ Invalidates[m] = RuleHooks[m]
         \/ m \in DOMAIN WidgetWrites /\ Writes[m] = WidgetWrites[m] /\ Invalidates[m] = WidgetHooks[m]
         \/ m \in DOMAIN MemberWrites /\ Writes[m] = MemberWrites[m] /\ Invalidates[m] = HouseholdHooks[m]
         \/ m \in DOMAIN InboundWrites /\ Writes[m] = InboundWrites[m] /\ Invalidates[m] = InboundHooks[m]
         \/ m \in DOMAIN NotificationWrites /\ Writes[m] = NotificationWrites[m] /\ Invalidates[m] = NotificationHooks[m]
<1>1. m \in DOMAIN AccountWrites => Invalidates[m] = AccountHooks[m]
  BY HooksRow, HookDomain, Requests
<1>2. m \in DOMAIN TransactionWrites => Invalidates[m] = TransactionHooks[m]
  BY HooksRow, HookDomain, Requests
<1>3. m \in DOMAIN BudgetWrites => Invalidates[m] = BudgetHooks[m]
  BY HooksRow, HookDomain, Requests
<1>4. m \in DOMAIN RuleWrites => Invalidates[m] = RuleHooks[m]
  BY HooksRow, HookDomain, Requests
<1>5. m \in DOMAIN WidgetWrites => Invalidates[m] = WidgetHooks[m]
  BY HooksRow, HookDomain, Requests
<1>6. m \in DOMAIN MemberWrites => Invalidates[m] = HouseholdHooks[m]
  BY HooksRow, HookDomain, Requests
<1>7. m \in DOMAIN InboundWrites => Invalidates[m] = InboundHooks[m]
  BY HooksRow, HookDomain, Requests
<1>8. m \in DOMAIN NotificationWrites => Invalidates[m] = NotificationHooks[m]
  BY HooksRow, HookDomain, Requests
<1>9. QED
  BY WritesRow, <1>1, <1>2, <1>3, <1>4, <1>5, <1>6, <1>7, <1>8

\* What a hook does not overlook.
LEMMA Owing ==
  ASSUME NEW m \in Mutation, NEW q \in Query, Owes(m, q)
  PROVE  /\ \E d \in Writes[m] : d \in Reads[q]
         /\ m = "updateAccount" => q \notin {"transactions"} \cup Figures
         /\ m # "completeBank"
         /\ m = "syncEnds" => q \notin Insights
         /\ m = "uploadSpiir" => q \notin AllAccounts
         /\ m \in {"mergeAccounts", "resolveDuplicates"} => q \notin Figures
         /\ m \in {"simulateMail", "retryMail"} => q # "budgetsSummary"
         /\ q \notin {"tags", "categories", "focusedTransactions", "budgetBills"}
         /\ m # "linkReceipt" => q # "suggestedReceipts"
         /\ m \notin DOMAIN NotificationHooks => q \notin {"notifications", "duplicatePreview"}
         /\ m \notin FromReceipts \ {"linkReceipt"} => q # "receiptsStatus"
  BY DEF Owes, Affects, Overlooked

\* What a mutation writes and a query reads, the hook invalidates, except where
\* the list of what is overlooked says so.
LEMMA OwedIsNamed ==
  ASSUME NEW m \in Mutation, NEW q \in Query, Owes(m, q)
  PROVE  q \in Invalidates[m]
<1> USE Readers, Owing, Requests
<1>1. CASE m \in DOMAIN AccountWrites /\ Writes[m] = AccountWrites[m] /\ Invalidates[m] = AccountHooks[m]
  BY <1>1 DEF AccountWrites, AccountHooks, Figures, Insights, AllAccounts, OfHousehold, ReceiptFiles, FromReceipts
<1>2. CASE m \in DOMAIN TransactionWrites /\ Writes[m] = TransactionWrites[m] /\ Invalidates[m] = TransactionHooks[m]
  BY <1>2 DEF TransactionWrites, TransactionHooks, Figures, Insights, AllAccounts, OfHousehold, ReceiptFiles, FromReceipts
<1>3. CASE m \in DOMAIN BudgetWrites /\ Writes[m] = BudgetWrites[m] /\ Invalidates[m] = BudgetHooks[m]
  BY <1>3 DEF BudgetWrites, BudgetHooks, Figures, Insights, AllAccounts, OfHousehold, ReceiptFiles, FromReceipts
<1>4. CASE m \in DOMAIN RuleWrites /\ Writes[m] = RuleWrites[m] /\ Invalidates[m] = RuleHooks[m]
  BY <1>4 DEF RuleWrites, RuleHooks, Figures, Insights, AllAccounts, OfHousehold, ReceiptFiles, FromReceipts
<1>5. CASE m \in DOMAIN WidgetWrites /\ Writes[m] = WidgetWrites[m] /\ Invalidates[m] = WidgetHooks[m]
  BY <1>5 DEF WidgetWrites, WidgetHooks, Figures, Insights, AllAccounts, OfHousehold, ReceiptFiles, FromReceipts
<1>6. CASE m \in DOMAIN MemberWrites /\ Writes[m] = MemberWrites[m] /\ Invalidates[m] = HouseholdHooks[m]
  BY <1>6 DEF MemberWrites, HouseholdHooks, Figures, Insights, AllAccounts, OfHousehold, ReceiptFiles, FromReceipts
<1>7. CASE m \in DOMAIN InboundWrites /\ Writes[m] = InboundWrites[m] /\ Invalidates[m] = InboundHooks[m]
  BY <1>7 DEF InboundWrites, InboundHooks, Figures, Insights, AllAccounts, OfHousehold, ReceiptFiles, FromReceipts
<1>8. CASE m \in DOMAIN NotificationWrites /\ Writes[m] = NotificationWrites[m] /\ Invalidates[m] = NotificationHooks[m]
  BY <1>8 DEF NotificationWrites, NotificationHooks, Figures, Insights, AllAccounts, OfHousehold, ReceiptFiles, FromReceipts
<1>9. QED
  BY SameRow, <1>1, <1>2, <1>3, <1>4, <1>5, <1>6, <1>7, <1>8

-----------------------------------------------------------------------------
(* Types.  A version is one that the server has made, and the server makes  *)
(* no more than there are changes.                                          *)

Counted == db <= 1 + changes - (IF change.phase = "sent" THEN 1 ELSE 0)

Known == change # NoChange => change.what \in Mutation /\ change.phase # "none"

TypesHold == ViewsTypeOK /\ Counted /\ Known

LEMMA TypesInit == ViewsInit => TypesHold
<1> SUFFICES ASSUME ViewsInit PROVE TypesHold
  OBVIOUS
<1> USE ViewsAssumption DEF ViewsInit
<1>1. db \in 1..(MaxChanges + 1) /\ owed \in 0..db /\ lost \in 0..MaxLost /\ changes \in 0..MaxChanges
  OBVIOUS
<1>2. entry \in [ver: 0..db, valid: BOOLEAN] /\ fetch \in [phase: {"none", "sent", "read"}, ver: 0..db]
  BY DEF NoFetch
<1>3. change \in [what: Mutation \cup {"none"}, phase: {"none", "sent", "applied"}, ver: 0..db]
  BY DEF NoChange
<1>4. Counted /\ Known
  BY DEF Counted, Known, NoChange
<1>5. QED
  BY <1>1, <1>2, <1>3, <1>4 DEF TypesHold, ViewsTypeOK

LEMMA TypesNext == TypesHold /\ [ViewsNext]_viewsVars => TypesHold'
<1> SUFFICES ASSUME TypesHold, [ViewsNext]_viewsVars PROVE TypesHold'
  OBVIOUS
<1> USE ViewsAssumption DEF TypesHold, ViewsTypeOK, Counted, Known
<1>1. CASE Show
  BY <1>1 DEF Show, Asked
<1>2. CASE Hide
  BY <1>2 DEF Hide
<1>3. CASE Poll
  BY <1>3 DEF Poll, Asked
<1>4. CASE Answer
  BY <1>4 DEF Answer
<1>5. CASE Land
  BY <1>5 DEF Land, NoFetch
<1>6. CASE FetchFails
  <2>1. entry' = [ver |-> entry.ver, valid |-> FALSE]
    BY <1>6 DEF FetchFails
  <2>2. lost' \in 0..MaxLost
    BY <1>6 DEF FetchFails
  <2>3. fetch' \in [phase: {"none", "sent", "read"}, ver: 0..db]
    BY <1>6 DEF FetchFails, NoFetch
  <2>4. entry' \in [ver: 0..db, valid: BOOLEAN]
    BY <2>1
  <2>5. UNCHANGED <<watched, observed, db, change, owed, slipped, changes>>
    BY <1>6 DEF FetchFails
  <2>6. QED
    BY <2>2, <2>3, <2>4, <2>5
<1>7. ASSUME NEW m \in Mutation, Mutate(m) PROVE TypesHold'
  BY <1>7 DEF Mutate, NoChange
<1>8. CASE Commit
  <2>1. db' \in db..(db + 1) /\ db' \in 1..(1 + changes)
    BY <1>8 DEF Commit
  <2>2. change' = [what |-> change.what, phase |-> "applied", ver |-> db']
    BY <1>8 DEF Commit
  <2>3. change.what \in Mutation
    BY <1>8 DEF Commit, NoChange
  <2>4. Counted' /\ Known'
    BY <1>8, <2>1, <2>2, <2>3 DEF Commit
  <2>5. UNCHANGED <<watched, observed, entry, fetch, owed, slipped, changes, lost>>
    BY <1>8 DEF Commit
  <2>6. 0..db \subseteq 0..db' /\ db' \in 0..db' /\ db' \in 1..(MaxChanges + 1)
    BY <2>1
  <2>7. change' \in [what: Mutation \cup {"none"}, phase: {"none", "sent", "applied"}, ver: 0..db']
    BY <2>2, <2>3, <2>6
  <2>8. entry' \in [ver: 0..db', valid: BOOLEAN] /\ fetch' \in [phase: {"none", "sent", "read"}, ver: 0..db']
    BY <2>5, <2>6
  <2>9. QED
    BY <2>4, <2>5, <2>6, <2>7, <2>8
<1>9. CASE MutationFails
  BY <1>9 DEF MutationFails, NoChange
<1>10. CASE Succeed
  <2>1. change' = NoChange /\ UNCHANGED <<watched, observed, db, changes, lost>>
    BY <1>10 DEF Succeed
  <2>2. owed' \in 0..db
    BY <1>10 DEF Succeed
  <2>3. entry' \in [ver: 0..db, valid: BOOLEAN]
    BY <1>10 DEF Succeed
  <2>4. fetch' \in [phase: {"none", "sent", "read"}, ver: 0..db]
    BY <1>10 DEF Succeed, Asked
  <2>5. slipped' \in BOOLEAN
    <3>1. CASE watched \in Invalidates[change.what]
      BY <1>10, <3>1, Zenon DEF Succeed
    <3>2. CASE watched \notin Invalidates[change.what]
      BY <1>10, <3>2 DEF Succeed
    <3>3. QED
      BY <3>1, <3>2
  <2>6. QED
    BY <2>1, <2>2, <2>3, <2>4, <2>5 DEF NoChange
<1>11. CASE ChangedElsewhere
  BY <1>11 DEF ChangedElsewhere
<1>12. CASE UNCHANGED viewsVars
  BY <1>12 DEF viewsVars
<1>13. QED
  BY <1>1, <1>2, <1>3, <1>4, <1>5, <1>6, <1>7, <1>8, <1>9, <1>10, <1>11, <1>12 DEF ViewsNext

-----------------------------------------------------------------------------
(* What is shown.  An answer on its way counts like the data it will become. *)

AnswerShows == fetch.phase = "read" /\ ~slipped => fetch.ver >= owed

ViewsInv == TypesHold /\ OwnWriteShows /\ AnswerShows

LEMMA OwnWriteNext ==
  ASSUME ViewsInv, [ViewsNext]_viewsVars
  PROVE  OwnWriteShows' /\ AnswerShows'
<1> USE DEF ViewsInv, TypesHold, ViewsTypeOK, OwnWriteShows, AnswerShows
<1>1. CASE Show
  BY <1>1 DEF Show, Asked
<1>2. CASE Hide
  BY <1>2 DEF Hide
<1>3. CASE Poll
  BY <1>3 DEF Poll, Asked
<1>4. CASE Answer
  BY <1>4 DEF Answer
<1>5. CASE Land
  BY <1>5 DEF Land, NoFetch
<1>6. CASE FetchFails
  <2>1. entry'.valid = FALSE /\ fetch'.phase = "none"
    BY <1>6 DEF FetchFails, NoFetch
  <2>2. QED
    BY <2>1
<1>7. ASSUME NEW m \in Mutation, Mutate(m) PROVE OwnWriteShows' /\ AnswerShows'
  BY <1>7 DEF Mutate
<1>8. CASE Commit
  BY <1>8 DEF Commit
<1>9. CASE MutationFails
  BY <1>9 DEF MutationFails
<1>10. CASE Succeed
  <2>1. CASE watched \in Invalidates[change.what]
    <3>1. entry'.valid = FALSE
      BY <1>10, <2>1 DEF Succeed
    <3>2. CASE observed /\ ~Joined
      <4>1. fetch'.phase = "sent"
        BY <1>10, <2>1, <3>2 DEF Succeed, Asked
      <4>2. QED
        BY <3>1, <4>1
    <3>3. CASE ~(observed /\ ~Joined)
      <4>1. fetch' = fetch /\ (~slipped' => fetch.phase # "read")
        BY <1>10, <2>1, <3>3 DEF Succeed
      <4>2. QED
        BY <3>1, <4>1
    <3>4. QED
      BY <3>2, <3>3
  <2>2. CASE watched \notin Invalidates[change.what]
    <3>1. change.what \in Mutation
      BY <1>10 DEF Succeed, Known, NoChange
    <3>2. ~Owes(change.what, watched)
      BY <2>2, <3>1, OwedIsNamed
    <3>3. UNCHANGED <<entry, fetch, slipped, owed>>
      BY <1>10, <2>2, <3>2 DEF Succeed
    <3>4. QED
      BY <3>3
  <2>3. QED
    BY <2>1, <2>2
<1>11. CASE ChangedElsewhere
  BY <1>11 DEF ChangedElsewhere
<1>12. CASE UNCHANGED viewsVars
  BY <1>12 DEF viewsVars
<1>13. QED
  BY <1>1, <1>2, <1>3, <1>4, <1>5, <1>6, <1>7, <1>8, <1>9, <1>10, <1>11, <1>12 DEF ViewsNext

LEMMA StaleNext ==
  ASSUME TypesHold, StaleIsRefetched, [ViewsNext]_viewsVars
  PROVE  StaleIsRefetched'
<1> USE DEF TypesHold, ViewsTypeOK, StaleIsRefetched
<1> USE DEF NoFetch, Asked
<1>1. CASE Show
  BY <1>1 DEF Show
<1>2. CASE Hide
  BY <1>2 DEF Hide
<1>3. CASE Poll
  BY <1>3 DEF Poll
<1>4. CASE Answer
  BY <1>4 DEF Answer
<1>5. CASE Land
  BY <1>5 DEF Land
<1>6. CASE FetchFails
  BY <1>6 DEF FetchFails
<1>7. ASSUME NEW m \in Mutation, Mutate(m) PROVE StaleIsRefetched'
  BY <1>7 DEF Mutate
<1>8. CASE Commit
  BY <1>8 DEF Commit
<1>9. CASE MutationFails
  BY <1>9 DEF MutationFails
<1>10. CASE Succeed
  BY <1>10 DEF Succeed, Joined
<1>11. CASE ChangedElsewhere
  BY <1>11 DEF ChangedElsewhere
<1>12. CASE UNCHANGED viewsVars
  BY <1>12 DEF viewsVars
<1>13. QED
  BY <1>1, <1>2, <1>3, <1>4, <1>5, <1>6, <1>7, <1>8, <1>9, <1>10, <1>11, <1>12 DEF ViewsNext

-----------------------------------------------------------------------------

\* Every version held anywhere is one that the server has made.
THEOREM ViewsTypes == ViewsSpec => []ViewsTypeOK
<1>1. TypesHold => ViewsTypeOK
  BY DEF TypesHold
<1>2. QED
  BY TypesInit, TypesNext, <1>1, PTL DEF ViewsSpec

\* A user who has been told that a change is made sees it wherever the data count
\* as fresh, whatever is asked, dropped, lost or answered late in between; only
\* what was read before the change for a page that was left, or for one that had
\* no data yet, may come in later.
THEOREM OwnWritesShow == ViewsSpec => []OwnWriteShows
<1>1. ViewsInit => ViewsInv
  BY TypesInit DEF ViewsInit, ViewsInv, OwnWriteShows, AnswerShows, NoFetch
<1>2. ViewsInv /\ [ViewsNext]_viewsVars => ViewsInv'
  BY TypesNext, OwnWriteNext DEF ViewsInv
<1>3. ViewsInv => OwnWriteShows
  BY DEF ViewsInv
<1>4. QED
  BY <1>1, <1>2, <1>3, PTL DEF ViewsSpec

\* An open page whose data have been invalidated has a request on its way, or has
\* lost one.
THEOREM StaleRefetched == ViewsSpec => []StaleIsRefetched
<1> DEFINE Inv == TypesHold /\ StaleIsRefetched
<1>1. ViewsInit => Inv
  BY TypesInit DEF ViewsInit, StaleIsRefetched
<1>2. Inv /\ [ViewsNext]_viewsVars => Inv'
  BY TypesNext, StaleNext
<1>3. Inv => StaleIsRefetched
  OBVIOUS
<1>4. QED
  BY <1>1, <1>2, <1>3, PTL DEF ViewsSpec
=============================================================================
