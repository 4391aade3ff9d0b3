----------------------------- MODULE BudgetForm -----------------------------
(***************************************************************************)
(* The budgets of a year (BudgetsPage, BudgetDetailsSidebar, budgets.ts)   *)
(* and the server's side of saving them (budget_service.py): a variable    *)
(* category is saved with one request per month, a fixed one with its      *)
(* bills, from which the server sums the months.                           *)
(*                                                                         *)
(* "food" is variable, "rent" fixed.  A line of a draft is an amount and   *)
(* the months it is for: food has one, rent one per bill.  Amounts are     *)
(* absolute; the sign is the category's.  The flag "rollover" is read,     *)
(* kept and sent as the amount is.                                         *)
(***************************************************************************)
EXTENDS Integers, Sequences, FiniteSets, SequencesExt

CONSTANTS
    Month,          \* the months of a year
    December,       \* the last of them
    MaxPresses      \* bound: what the user does and others save

ASSUME BudgetAssumption == December \in Month /\ IsFiniteSet(Month) /\ MaxPresses \in Nat

Kind == {"food", "rent"}
Year == {1, 2}
Sheet == Kind \X Year

MaxBills == 1       \* bound: bills of a draft
MaxSaves == 2       \* bound: saves on their way

VARIABLES
    rows,       \* server: the budget rows of a month, in the order of a query
    bills,      \* server: the bills of a category
    born,       \* server: the category "food" has a row
    cached,     \* the sidebar's queries: the rows and the bills
    cachedBills,
    known,      \* the queries that have been answered
    asking,     \* the queries on their way, with their retry
    sidebar,    \* open, for which category, beside which year
    filled,     \* initializedCategoryId
    line,       \* amountInput and activeMonths
    lines,      \* bills of the draft
    saves,      \* saves on their way
    latest,     \* the save the open sidebar has sent last, of each kind
    presses

serverVars == <<rows, bills, born>>
cacheVars  == <<cached, cachedBills, known, asking>>
draftVars  == <<filled, line, lines>>
budgetVars == <<serverVars, cacheVars, sidebar, draftVars, saves, latest, presses>>

NoneSent == [kind \in Kind |-> -1]
NoLine == [amt |-> 0, months |-> Month]

BudgetInit ==
    /\ rows = [s \in Sheet |-> [m \in Month |-> IF s = <<"food", 1>> /\ m = December
                                                THEN <<1>> ELSE <<>>]]
    /\ bills = [s \in Sheet |-> <<>>]
    /\ born = FALSE
    /\ cached = [s \in Sheet |-> [m \in Month |-> <<>>]]
    /\ cachedBills = bills
    /\ known = {}
    /\ asking = {}
    /\ sidebar = [on |-> FALSE, kind |-> "food", year |-> 1]
    /\ filled = "none"
    /\ line = NoLine
    /\ lines = <<>>
    /\ saves = {}
    /\ latest = NoneSent
    /\ presses = 0

-----------------------------------------------------------------------------
(* Opening the sidebar, and its queries.                                    *)

Shown == <<sidebar.kind, sidebar.year>>

Queries(s) == {s} \X (IF s[1] = "rent" THEN {"rows", "bills"} ELSE {"rows"})

\* A query has no data and is on its way.  One that has failed has no data and
\* is loading no longer.
IsLoading == \E q \in Queries(Shown) : q \in asking /\ q \notin known

\* What an observer of the sheet asks for: all that is not in the cache.
Missing(s) == Queries(s) \ known

Amounts(months) == UNION {ToSet(months[m]) : m \in Month}
NonZero(months) == {m \in Month : ToSet(months[m]) \ {0} # {}}

\* The draft of a variable category: for every month that has a budget the
\* amount of one of them, the first the query returned.
LineFrom(months) ==
    IF NonZero(months) = {} THEN {NoLine}
    ELSE {[amt |-> a, months |-> NonZero(months)] : a \in Amounts(months) \ {0}}

\* Of a fixed one: its bills, or else one that stands for the months it has,
\* with their average.
LinesFrom(months, stored) ==
    IF stored # <<>> THEN {stored}
    ELSE IF NonZero(months) = {} THEN {<<>>}
    ELSE {<<l>> : l \in LineFrom(months)}

\* Mutant: the draft follows its queries.
FillsAlways ==
    /\ sidebar.on /\ ~IsLoading
    /\ \/ filled # sidebar.kind
       \/ sidebar.kind = "food" /\ line \notin LineFrom(cached[Shown])

\* Once for a category, when its queries have answered, or failed.
Fills == sidebar.on /\ ~IsLoading /\ filled # sidebar.kind

\* Effects run before the user can do anything else.
Press ==
    /\ ~Fills
    /\ presses < MaxPresses
    /\ presses' = presses + 1
    /\ UNCHANGED serverVars

\* A category is clicked, or picked below a section; another sidebar that is
\* open shows it instead.  Its cached bills may be past their staleTime.
OpenBudget(kind) ==
    /\ Press
    /\ ~sidebar.on \/ sidebar.kind # kind
    /\ sidebar' = [sidebar EXCEPT !.on = TRUE, !.kind = kind]
    /\ LET s == <<kind, sidebar.year>> IN
         \/ asking' = asking \cup Missing(s)
         \/ /\ Missing(s) = {} /\ kind = "rent"
            /\ asking' = asking \cup {<<s, "bills">>}
    /\ UNCHANGED <<cached, cachedBills, known, draftVars, saves, latest>>

\* The year is changed beside an open sidebar: its queries change, its draft stays.
TurnYear ==
    /\ Press
    /\ sidebar' = [sidebar EXCEPT !.year = 3 - @]
    /\ asking' = IF sidebar.on THEN asking \cup Missing(<<sidebar.kind, 3 - sidebar.year>>)
                 ELSE asking
    /\ UNCHANGED <<cached, cachedBills, known, draftVars, saves, latest>>

\* The state of the sidebar goes with it.
NoDraft == filled' = "none" /\ line' = NoLine /\ lines' = <<>>

\* What was sent goes on; the next sidebar knows of no request.
CancelBudget ==
    /\ sidebar.on
    /\ sidebar' = [sidebar EXCEPT !.on = FALSE]
    /\ latest' = NoneSent
    /\ NoDraft
    /\ UNCHANGED <<serverVars, cacheVars, saves, presses>>

BudgetLands ==
    /\ \E q \in asking :
         /\ asking' = asking \ {q}
         /\ known' = known \cup {q}
         /\ IF q[2] = "rows"
            THEN cached' = [cached EXCEPT ![q[1]] = rows[q[1]]] /\ UNCHANGED cachedBills
            ELSE cachedBills' = [cachedBills EXCEPT ![q[1]] = bills[q[1]]] /\ UNCHANGED cached
    /\ UNCHANGED <<serverVars, sidebar, draftVars, saves, latest, presses>>

\* A query and its retry fail: it has what it had, or nothing, until it is asked
\* for anew.
BudgetFails ==
    /\ \E q \in asking : asking' = asking \ {q}
    /\ UNCHANGED <<serverVars, cached, cachedBills, known, sidebar, draftVars, saves, latest, presses>>

\* The effect that fills the draft, of what the queries have.
FillDraft ==
    /\ Fills
    /\ filled' = sidebar.kind
    /\ IF sidebar.kind = "food"
       THEN line' \in LineFrom(cached[Shown]) /\ UNCHANGED lines
       ELSE lines' \in LinesFrom(cached[Shown], cachedBills[Shown]) /\ UNCHANGED line
    /\ UNCHANGED <<serverVars, cacheVars, sidebar, saves, latest, presses>>

-----------------------------------------------------------------------------
(* Editing.  The months and the bills can be edited while the queries are    *)
(* still out; the effect then replaces what was entered.                     *)

Edit ==
    /\ sidebar.on
    /\ Press
    /\ UNCHANGED <<cacheVars, sidebar, filled, saves, latest>>

Flip(set, m) == IF m \in set THEN set \ {m} ELSE set \cup {m}

EditLine ==
    /\ Edit /\ sidebar.kind = "food"
    /\ \/ ~IsLoading /\ \E a \in {-1, 0, 2} : line' = [line EXCEPT !.amt = a]
       \/ \E m \in Month : line' = [line EXCEPT !.months = Flip(@, m)]
    /\ UNCHANGED lines

EditBill ==
    /\ Edit /\ sidebar.kind = "rent"
    /\ \E i \in DOMAIN lines :
         \/ \E a \in {0, 2} : lines' = [lines EXCEPT ![i].amt = a]
         \/ \E m \in Month : lines' = [lines EXCEPT ![i].months = Flip(@, m)]
         \/ lines' = RemoveAt(lines, i)
    /\ UNCHANGED line

\* A new bill has a name in the next breath, and no month yet.
AddBill ==
    /\ Edit /\ sidebar.kind = "rent" /\ Len(lines) < MaxBills
    /\ lines' = Append(lines, [amt |-> 2, months |-> {}])
    /\ UNCHANGED line

-----------------------------------------------------------------------------
(* Saving.                                                                  *)

Ended == {"stored", "failed"}

\* isPending is that of the latest call since the sidebar was opened: of December's
\* request, or of the bills'.
SavePending ==
    \E s \in saves : /\ s.id = latest[s.kind]
                      /\ s.kind = "food" => s.phase[December] \notin Ended

\* Bills without an amount or a month are left out.
Valid(bill) == bill.amt # 0 /\ bill.months # {}

SendBudget(content) ==
    /\ saves' = {[s EXCEPT !.clean = s.clean /\ s.sheet # Shown] : s \in saves}
                \cup {[id |-> presses, kind |-> sidebar.kind, sheet |-> Shown, content |-> content,
                       phase |-> [m \in Month |-> "sent"],
                       saw |-> [m \in Month |-> [born |-> FALSE, row |-> FALSE]],
                       clean |-> \A s \in saves : s.sheet # Shown]}
    /\ latest' = [latest EXCEPT ![sidebar.kind] = presses]

\* Mutant: a negative amount is sent.
SaveAnyLine == sidebar.kind = "food" /\ SendBudget(<<line>>)

SaveLine ==
    /\ sidebar.kind = "food"
    /\ line.amt >= 0
    /\ SendBudget(<<line>>)

SaveBills == sidebar.kind = "rent" /\ SendBudget(SelectSeq(lines, Valid))

SaveBudget ==
    /\ sidebar.on /\ ~IsLoading /\ ~SavePending
    /\ Cardinality(saves) < MaxSaves
    /\ SaveLine \/ SaveBills
    /\ Press
    /\ UNCHANGED <<cacheVars, sidebar, draftVars>>

Sum(content, m) ==
    FoldLeft(LAMBDA sum, l : IF m \in l.months THEN sum + l.amt ELSE sum, 0, content)

InPhase(s, m, phase) == (saves \ {s}) \cup {[s EXCEPT !.phase[m] = phase]}
AllInPhase(s, phase) == (saves \ {s}) \cup {[s EXCEPT !.phase = [m \in Month |-> phase]]}

\* upsert_budget looks for the category and for the month's row ...
Upsert(s, m) ==
    /\ s.kind = "food" /\ s.phase[m] = "sent"
    /\ saves' = (saves \ {s}) \cup
         {[s EXCEPT !.phase[m] = "seen", !.saw[m] = [born |-> born, row |-> rows[s.sheet][m] # <<>>]]}
    /\ UNCHANGED <<serverVars, cacheVars, sidebar, draftVars, latest, presses>>

\* ... and writes both, or the one that was there.  A category that another
\* request has created meanwhile is an error.
UpsertStored(s, m) ==
    /\ s.kind = "food" /\ s.phase[m] = "seen"
    /\ s.saw[m].born \/ ~born
    /\ born' = TRUE
    /\ rows' = [rows EXCEPT ![s.sheet][m] =
                  IF s.saw[m].row THEN [@ EXCEPT ![1] = Sum(s.content, m)]
                  ELSE Append(@, Sum(s.content, m))]
    /\ saves' = InPhase(s, m, "stored")
    /\ UNCHANGED <<bills, cacheVars, sidebar, draftVars, latest, presses>>

UpsertFails(s, m) ==
    /\ s.kind = "food" /\ s.phase[m] = "seen"
    /\ ~s.saw[m].born /\ born
    /\ saves' = InPhase(s, m, "failed")
    /\ UNCHANGED <<serverVars, cacheVars, sidebar, draftVars, latest, presses>>

\* upsert_budget_bills: the bills are replaced and committed ...
ReplaceBills(s) ==
    /\ s.kind = "rent" /\ s.phase[December] = "sent"
    /\ bills' = [bills EXCEPT ![s.sheet] = s.content]
    /\ saves' = InPhase(s, December, "replaced")
    /\ UNCHANGED <<rows, born, cacheVars, sidebar, draftVars, latest, presses>>

\* ... then the months are summed, in the last of the rows where there are two.
Resummed(months, content, m) ==
    IF months[m] # <<>> THEN [months[m] EXCEPT ![Len(months[m])] = Sum(content, m)]
    ELSE IF content # <<>> THEN <<Sum(content, m)>> ELSE <<>>

SumBills(s) ==
    /\ s.kind = "rent" /\ s.phase[December] = "replaced"
    /\ rows' = [rows EXCEPT ![s.sheet] = [m \in Month |-> Resummed(@, s.content, m)]]
    /\ saves' = AllInPhase(s, "stored")
    /\ UNCHANGED <<bills, born, cacheVars, sidebar, draftVars, latest, presses>>

\* A request or its answer is lost, or the server restarts between the commits.
SaveFails(s) ==
    /\ \E m \in Month :
         /\ s.phase[m] # "failed"
         /\ saves' = IF s.kind = "food" THEN InPhase(s, m, "failed") ELSE AllInPhase(s, "failed")
    /\ presses < MaxPresses
    /\ presses' = presses + 1
    /\ UNCHANGED <<serverVars, cacheVars, sidebar, draftVars, latest>>

\* Mutant: the sidebar closes with the request it counts as pending.
AllStoredLast(s) == s.phase[December] = "stored"

\* Promise.all
AllStored(s) == \A m \in Month : s.phase[m] = "stored"

\* The rows are asked for again after each success, which is here one answer for
\* all; the bills are not, for their key is not the one that is invalidated.
\* Whatever sidebar is open then is closed.
Saved(s) ==
    /\ AllStored(s)
    /\ saves' = saves \ {s}
    /\ sidebar' = [sidebar EXCEPT !.on = FALSE]
    /\ latest' = NoneSent
    /\ NoDraft
    /\ asking' = IF sidebar.on THEN asking \cup {<<Shown, "rows">>} ELSE asking
    /\ UNCHANGED <<serverVars, cached, cachedBills, known, presses>>

\* A rejected promise is not caught: the sidebar stays as it is.  What was stored
\* has its answer.
NotSaved(s) ==
    /\ \A m \in Month : s.phase[m] \in Ended
    /\ ~AllStored(s)
    /\ saves' = saves \ {s}
    /\ asking' = IF sidebar.on /\ \E m \in Month : s.phase[m] = "stored"
                 THEN asking \cup {<<Shown, "rows">>} ELSE asking
    /\ UNCHANGED <<serverVars, cached, cachedBills, known, sidebar, draftVars, latest, presses>>

\* Another member saves a month.
OthersBudget ==
    /\ presses < MaxPresses
    /\ presses' = presses + 1
    /\ \E s \in Sheet, m \in Month :
         /\ rows' = [rows EXCEPT ![s][m] = IF @ = <<>> THEN <<1>> ELSE [@ EXCEPT ![1] = 1]]
         /\ saves' = {[v EXCEPT !.clean = v.clean /\ v.sheet # s] : v \in saves}
    /\ UNCHANGED <<bills, born, cacheVars, sidebar, draftVars, latest>>

BudgetNext ==
    \/ (\E kind \in Kind : OpenBudget(kind)) \/ TurnYear \/ CancelBudget
    \/ BudgetLands \/ BudgetFails \/ FillDraft
    \/ EditLine \/ EditBill \/ AddBill \/ SaveBudget
    \/ \E s \in saves :
         \/ \E m \in Month : Upsert(s, m) \/ UpsertStored(s, m) \/ UpsertFails(s, m)
         \/ ReplaceBills(s) \/ SumBills(s) \/ SaveFails(s) \/ Saved(s) \/ NotSaved(s)
    \/ OthersBudget

BudgetSpec == BudgetInit /\ [][BudgetNext]_budgetVars

-----------------------------------------------------------------------------
(* Properties.                                                              *)

\* A variable category never gets a budget of the wrong sign, queries are about
\* the sheets there are, and the draft is filled for one of the categories.
BudgetTypeOK ==
    /\ \A y \in Year, m \in Month : \A i \in DOMAIN rows[<<"food", y>>][m] :
         rows[<<"food", y>>][m][i] >= 0
    /\ asking \subseteq Sheet \X {"rows", "bills"}
    /\ filled \in Kind \cup {"none"}

\* What has been entered for a category that was filled in stays: no answer and
\* no save of anyone changes it while the sidebar is open.
DraftKept ==
    [][ filled = sidebar.kind /\ sidebar.on /\ sidebar'.on /\ presses' = presses
          => line' = line /\ lines' = lines ]_budgetVars

\* When a save closes the sidebar, every month holds what was entered, and the
\* months of a fixed category the sum of the bills stored; unless another save
\* of the same budget came in between, or a month has two rows from such a time.
BudgetSavedWhenClosed ==
    [][ \A s \in saves : Saved(s) /\ s.clean =>
          /\ s.kind = "rent" => bills[s.sheet] = s.content
          /\ \A m \in Month : Len(rows[s.sheet][m]) <= 1 =>
                 /\ (rows[s.sheet][m] = <<>> => s.kind = "rent" /\ s.content = <<>>)
                 /\ (rows[s.sheet][m] # <<>> => rows[s.sheet][m][1] = Sum(s.content, m)) ]_budgetVars
=============================================================================
