-------------------------- MODULE TransactionList --------------------------
(***************************************************************************)
(* The list of postings (TransactionsPage, TransactionFilters): its        *)
(* filters and their menus, the answers it shows, the marks of a bulk      *)
(* edit, the pickers in the rows and the offer to remember a choice as a   *)
(* rule.                                                                   *)
(*                                                                         *)
(* Three postings stand for all; two of them have the same text.  Of a     *)
(* filter only "uncategorised" depends on what is edited; a period, a tag, *)
(* a category and a search text are set or not set.                        *)
(***************************************************************************)
EXTENDS Integers, FiniteSets

CONSTANT MaxClicks      \* bound: what the user does

ASSUME ListAssumption == MaxClicks \in Nat

Row == {"r1", "r2", "r3"}
Similar == {"r1", "r2"}         \* the others' text is too short for a rule
Label == {"a", "b"}
Unlabelled == "none"

Menu == {"type", "period", "tag", "category", "amount"}

Undefined == -1                 \* no amount; an empty field

VARIABLES
    filter,      \* filterType, the dates, tag, category, text, amountOp, amountVal
    field,       \* tempAmount
    focused,     \* the field is being edited
    menus,       \* the open drop-downs
    results,     \* the cached answers, by key
    asked,       \* the filters whose answer is on its way
    marked,      \* selectedIds
    prompt,      \* rulePrompt
    cats,        \* server: the category of each posting
    edits,       \* requests that change categories
    picked,      \* history: the user's last choice for a posting
    raced,       \* history: postings two requests were about, or a lost one
    clicks

filterVars == <<filter, field, focused, menus>>
editVars   == <<marked, prompt, cats, edits, picked, raced>>
listVars   == <<filterVars, results, asked, editVars, clicks>>

NoFilter == [type |-> "all", period |-> FALSE, tag |-> FALSE, category |-> FALSE,
             text |-> FALSE, op |-> FALSE, val |-> Undefined]

NoPrompt == [open |-> FALSE, cat |-> Unlabelled]

ListInit ==
    /\ filter = NoFilter
    /\ field = Undefined
    /\ focused = FALSE
    /\ menus = {}
    /\ results = <<>>
    /\ asked = {NoFilter}
    /\ marked = {}
    /\ prompt = NoPrompt
    /\ cats = [r \in Row |-> Unlabelled]
    /\ edits = {}
    /\ picked = cats
    /\ raced = {}
    /\ clicks = 0

-----------------------------------------------------------------------------
(* The answers.                                                             *)

\* Mutant: the category is left out of the query's key.
KeyShort(f) == [f EXCEPT !.category = FALSE]

\* Every filter is part of the key, the amount also where no operator uses it.
Key(f) == f

Matching(f) ==
    {r \in Row : /\ f.type = "uncategorised" => cats[r] = Unlabelled
                 /\ f.type = "duplicates" => r # "r2"
                 /\ f.category => cats[r] = "a"
                 /\ f.text => r \in Similar
                 /\ f.period \/ f.tag => r = "r1"
                 /\ f.op /\ f.val = 0 => FALSE}

Loaded == Key(filter) \in DOMAIN results
Visible == IF Loaded THEN results[Key(filter)].rows ELSE {}

\* How many of the postings shown had no category when they were read.
ShownBare == IF Loaded THEN results[Key(filter)].bare ELSE {}

ListAnswer(f) ==
    [of |-> f, rows |-> Matching(f), bare |-> {r \in Matching(f) : cats[r] = Unlabelled}]

\* What was on its way for another filter lands under that one's key.
ResultsLand(f) ==
    /\ f \in asked
    /\ asked' = asked \ {f}
    /\ results' = [k \in DOMAIN results \cup {Key(f)} |->
                     IF k = Key(f) THEN ListAnswer(f) ELSE results[k]]
    /\ UNCHANGED <<filterVars, editVars, clicks>>

\* Choosing a filter asks for its postings, unless an answer is still fresh.
Asks(f) ==
    /\ filter' = f
    /\ asked' = IF Key(f) \in DOMAIN results THEN asked ELSE asked \cup {f}

Click ==
    /\ clicks < MaxClicks
    /\ clicks' = clicks + 1
    /\ UNCHANGED results

\* The dialog that offers a rule covers the page.
PageClick == Click /\ ~prompt.open

-----------------------------------------------------------------------------
(* The filters.                                                             *)

\* Mutant: the field is not told when the amount changes.
FieldForgotten(v) == field

\* The effect on amountVal: the field follows, and shows nothing for 0.
FieldAfter(v) ==
    IF v = filter.val THEN field ELSE IF v > 0 THEN v ELSE Undefined

\* A click elsewhere leaves the field first (LeaveAmount).
FilterClick == PageClick /\ ~focused /\ UNCHANGED <<focused, editVars>>

Types == {"all", "uncategorised", "duplicates"}

SetType ==
    /\ FilterClick
    /\ \E t \in Types : Asks([filter EXCEPT !.type = t])
    /\ menus' = menus \ {"type"}
    /\ UNCHANGED field

\* Two months and their years, or one of the periods offered.
SetPeriod ==
    /\ FilterClick
    /\ \E on \in BOOLEAN : Asks([filter EXCEPT !.period = on])
    /\ menus' = menus \ {"period"}
    /\ UNCHANGED field

SetTag ==
    /\ FilterClick
    /\ \E on \in BOOLEAN : Asks([filter EXCEPT !.tag = on])
    /\ menus' = menus \ {"tag"}
    /\ UNCHANGED field

\* A category, a whole group of them, or all.
SetCategory ==
    /\ FilterClick
    /\ \E on \in BOOLEAN : Asks([filter EXCEPT !.category = on])
    /\ menus' = menus \ {"category"}
    /\ UNCHANGED field

\* Enter in the search field.
SetSearch ==
    /\ FilterClick
    /\ \E on \in BOOLEAN : Asks([filter EXCEPT !.text = on])
    /\ UNCHANGED <<field, menus>>

\* "All amounts" takes the operator away and leaves the amount.
SetOp ==
    /\ FilterClick
    /\ \E on \in BOOLEAN : Asks([filter EXCEPT !.op = on])
    /\ menus' = menus \ {"amount"}
    /\ UNCHANGED field

TypeAmountFilter ==
    /\ PageClick /\ filter.op
    /\ \E v \in {Undefined, 0, 1} : field' = v
    /\ focused' = TRUE
    /\ UNCHANGED <<filter, menus, asked, editVars>>

\* Enter, or leaving the field.
LeaveAmount ==
    /\ focused
    /\ focused' = FALSE
    /\ Asks([filter EXCEPT !.val = field])
    /\ field' = FieldAfter(field)
    /\ UNCHANGED <<menus, results, editVars, clicks>>

\* The drawer of small screens applies the amount while it is typed.
TypeAmountInDrawer ==
    /\ FilterClick /\ filter.op
    /\ \E v \in {Undefined, 0, 1} :
         /\ Asks([filter EXCEPT !.val = v])
         /\ field' = IF v = filter.val THEN v ELSE FieldAfter(v)
    /\ UNCHANGED menus

\* The other fields of the drawer; it knows nothing of the menus.
SetInDrawer == FilterClick /\ UNCHANGED <<field, menus>>

PickTypeInDrawer == SetInDrawer /\ \E t \in Types : Asks([filter EXCEPT !.type = t])

PickPeriodInDrawer == SetInDrawer /\ \E on \in BOOLEAN : Asks([filter EXCEPT !.period = on])

PickInDrawer ==
    SetInDrawer /\ \E dim \in {"tag", "category", "op"}, on \in BOOLEAN : Asks([filter EXCEPT ![dim] = on])

\* The drawer's reset.
ResetFilters ==
    /\ FilterClick
    /\ Asks(NoFilter)
    /\ field' = Undefined
    /\ UNCHANGED menus

\* The sidebar's search for similar postings keeps nothing but its text.
FindSimilar ==
    /\ FilterClick
    /\ Asks([NoFilter EXCEPT !.text = TRUE])
    /\ field' = FieldAfter(Undefined)
    /\ UNCHANGED menus

\* The banner's "show in list"; other filters stay.
ShowDuplicates ==
    /\ FilterClick
    /\ Asks([filter EXCEPT !.type = "duplicates", !.period = FALSE])
    /\ UNCHANGED <<field, menus>>

\* The number of uncategorised postings, where there are any.
ShowUncategorised ==
    /\ FilterClick
    /\ ShownBare # {}
    /\ Asks([filter EXCEPT !.type = "uncategorised"])
    /\ UNCHANGED <<field, menus>>

\* Mutant: a button leaves the other menus open.
ToggledAll(menu) == menus \cup {menu}

\* Every button closes the other menus, except that of the categories.
Toggled(menu) ==
    IF menu \in menus THEN (menus \cap {"category"}) \ {menu}
    ELSE {menu} \cup (menus \cap {"category"})

ToggleMenu(menu) ==
    /\ FilterClick
    /\ menus' = Toggled(menu)
    /\ UNCHANGED <<filter, field, asked>>

ClickOutside ==
    /\ FilterClick
    /\ menus' = {}
    /\ UNCHANGED <<filter, field, asked>>

-----------------------------------------------------------------------------
(* Marking postings and giving them categories.                             *)

MarkClick == PageClick /\ UNCHANGED <<filterVars, asked, prompt, cats, edits, picked, raced>>

Switched(r) == IF r \in marked THEN marked \ {r} ELSE marked \cup {r}

MarkRow ==
    /\ MarkClick
    /\ \E r \in Visible : marked' = Switched(r)

\* Only the numbers are compared: marks may be on postings that are not shown.
AllOrNone == IF Cardinality(marked) = Cardinality(Visible) THEN {} ELSE Visible

ToggleAll ==
    /\ MarkClick
    /\ Visible # {}
    /\ marked' = AllOrNone

ClearMarks == MarkClick /\ marked' = {}

Touched == UNION {e.rows : e \in edits}

\* A request leaves.
SendEdit(kind, rows, cat) ==
    /\ edits' = edits \cup {[id |-> clicks, kind |-> kind, rows |-> rows, cat |-> cat,
                             stored |-> FALSE]}
    /\ picked' = [r \in Row |-> IF r \in rows THEN cat ELSE picked[r]]
    /\ raced' = (raced \ rows) \cup (rows \cap Touched)
    /\ UNCHANGED <<filterVars, asked, marked, cats>>

\* A posting with a text brings up the offer of a rule.
ChangeCategory(r, c) ==
    /\ SendEdit("row", {r}, c)
    /\ prompt' = IF r \in Similar THEN [open |-> TRUE, cat |-> c] ELSE prompt

\* The picker in a row.
PickForRow ==
    /\ PageClick
    /\ \E r \in Visible, c \in Label : ChangeCategory(r, c)

\* All marked postings, shown or not.
Categorise(c) == marked # {} /\ SendEdit("bulk", marked, c)

\* The picker of the toolbar, which is there while anything is marked.
PickForMarked ==
    /\ PageClick
    /\ \E c \in Label : Categorise(c)
    /\ UNCHANGED prompt

RulePending == \E e \in edits : e.kind = "rule"

\* The rule is applied to all postings with the text, whatever they were given.
ConfirmRule ==
    /\ Click /\ prompt.open /\ ~RulePending
    /\ SendEdit("rule", Similar, prompt.cat)
    /\ UNCHANGED prompt

DeclineRule ==
    /\ Click /\ prompt.open /\ ~RulePending
    /\ prompt' = [prompt EXCEPT !.open = FALSE]
    /\ UNCHANGED <<filterVars, asked, marked, cats, edits, picked, raced>>

\* Mutant: the postings are those marked when the request arrives.
StoreMarked(e) ==
    /\ e \in edits /\ ~e.stored
    /\ LET rows == IF e.kind = "bulk" THEN marked ELSE e.rows
       IN  cats' = [r \in Row |-> IF r \in rows THEN e.cat ELSE cats[r]]
    /\ edits' = (edits \ {e}) \cup {[e EXCEPT !.stored = TRUE]}
    /\ UNCHANGED <<filterVars, results, asked, marked, prompt, picked, raced, clicks>>

StoreEdit(e) ==
    /\ e \in edits /\ ~e.stored
    /\ cats' = [r \in Row |-> IF r \in e.rows THEN e.cat ELSE cats[r]]
    /\ edits' = (edits \ {e}) \cup {[e EXCEPT !.stored = TRUE]}
    /\ UNCHANGED <<filterVars, results, asked, marked, prompt, picked, raced, clicks>>

\* The callback given to mutate runs for the latest call only.
Latest(e) == \A o \in edits : o.kind = e.kind => o.id <= e.id

\* The list is asked for again; a bulk edit unmarks everything, a rule closes
\* its dialog.
EditAnswered(e) ==
    /\ e \in edits /\ e.stored
    /\ edits' = edits \ {e}
    /\ asked' = asked \cup {filter}
    /\ marked' = IF e.kind = "bulk" /\ Latest(e) THEN {} ELSE marked
    /\ prompt' = IF e.kind = "rule" THEN [prompt EXCEPT !.open = FALSE] ELSE prompt
    /\ UNCHANGED <<filterVars, results, cats, picked, raced, clicks>>

\* The request or its answer is lost: marks and dialog stay.
EditLost(e) ==
    /\ e \in edits
    /\ edits' = edits \ {e}
    /\ raced' = raced \cup e.rows
    /\ UNCHANGED <<filterVars, results, asked, marked, prompt, cats, picked, clicks>>

ListNext ==
    \/ \E f \in asked : ResultsLand(f)
    \/ SetType \/ SetPeriod \/ SetTag \/ SetCategory \/ SetSearch \/ SetOp
    \/ TypeAmountFilter \/ LeaveAmount \/ TypeAmountInDrawer
    \/ PickTypeInDrawer \/ PickPeriodInDrawer \/ PickInDrawer
    \/ ResetFilters \/ FindSimilar \/ ShowDuplicates \/ ShowUncategorised
    \/ (\E menu \in Menu : ToggleMenu(menu)) \/ ClickOutside
    \/ MarkRow \/ ToggleAll \/ ClearMarks
    \/ PickForRow \/ PickForMarked \/ ConfirmRule \/ DeclineRule
    \/ \E e \in edits : StoreEdit(e) \/ EditAnswered(e) \/ EditLost(e)

ListSpec == ListInit /\ [][ListNext]_listVars

-----------------------------------------------------------------------------
(* Properties.                                                              *)

\* At most one menu is open beside that of the categories, and an offered rule
\* has a category.
ListTypeOK ==
    /\ Cardinality(menus \ {"category"}) <= 1
    /\ prompt.open => prompt.cat \in Label
    /\ marked \subseteq Row /\ raced \subseteq Row
    /\ cats \in [Row -> Label \cup {Unlabelled}] /\ picked \in [Row -> Label \cup {Unlabelled}]
    /\ filter.val \in {Undefined, 0, 1} /\ field \in {Undefined, 0, 1}

\* The postings shown are an answer to the filter that is set, also when the
\* answers to several filters arrive in another order.
ResultsOfFilter == Loaded => results[Key(filter)].of = filter

\* Outside the field the amount that filters is the one the field shows, except
\* that 0 shows as nothing.
AmountAgrees == ~focused => field = filter.val \/ (filter.val = 0 /\ field = Undefined)

\* Once nothing is on its way for a posting, it has the category the user last
\* chose for it, in its row, in bulk or by a rule, unless requests about it
\* overlapped or were lost.
LastPickStays == \A r \in Row \ (Touched \cup raced) : cats[r] = picked[r]
=============================================================================
