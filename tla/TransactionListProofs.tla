----------------------- MODULE TransactionListProofs -----------------------
(* What the list of postings keeps, for any number of clicks and requests.  *)
EXTENDS TransactionList, FiniteSetTheorems, TLAPS

\* A request has the fields SendEdit gives it.
IsRequest(e) ==
    e \in [id: {e.id}, kind: {e.kind}, rows: {e.rows}, cat: {e.cat}, stored: BOOLEAN]

\* While a posting has met no other request, the one that is about it carries
\* the last choice, and has brought it to the server once it is stored.
CarriesPick ==
    \A r \in Row \ raced : \A e \in edits :
        r \in e.rows => e.cat = picked[r] /\ (e.stored => cats[r] = picked[r])

\* LastPickStays, with what is on its way spelled out.
RestedPick ==
    \A r \in Row \ raced : (\A e \in edits : r \notin e.rows) => cats[r] = picked[r]

PickInv == (\A e \in edits : IsRequest(e)) /\ CarriesPick /\ RestedPick

-----------------------------------------------------------------------------

\* A posting nobody is about is one no request names.
LEMMA TouchedByRequests == \A r : r \in Touched <=> \E e \in edits : r \in e.rows
  BY DEF Touched

\* A new request takes over the postings it names; those that another one is
\* about are given up.
LEMMA SendKeeps ==
  ASSUME PickInv, NEW kind, NEW rows, NEW cat, SendEdit(kind, rows, cat)
  PROVE  PickInv'
<1> DEFINE new == [id |-> clicks, kind |-> kind, rows |-> rows, cat |-> cat, stored |-> FALSE]
<1>1. /\ edits' = edits \cup {new}
      /\ picked' = [r \in Row |-> IF r \in rows THEN cat ELSE picked[r]]
      /\ raced' = (raced \ rows) \cup (rows \cap Touched)
      /\ cats' = cats
  BY DEF SendEdit
<1>2. new.rows = rows /\ new.cat = cat /\ new.stored = FALSE /\ IsRequest(new)
  BY DEF IsRequest
<1> HIDE DEF new
<1>3. ASSUME NEW r \in Row \ raced', r \in rows
      PROVE  /\ picked'[r] = cat
             /\ \A e \in edits : r \notin e.rows
  BY <1>1, <1>3, TouchedByRequests
<1>4. ASSUME NEW r \in Row \ raced', r \notin rows
      PROVE  picked'[r] = picked[r] /\ r \notin raced
  BY <1>1, <1>4
<1>5. CarriesPick'
  BY <1>1, <1>2, <1>3, <1>4 DEF PickInv, CarriesPick
<1>6. RestedPick'
  BY <1>1, <1>2, <1>3, <1>4 DEF PickInv, RestedPick
<1>7. QED
  BY <1>1, <1>2, <1>5, <1>6 DEF PickInv

\* A stored request has given its postings their category.
LEMMA StoreKeeps ==
  ASSUME PickInv, NEW e, StoreEdit(e)
  PROVE  PickInv'
<1> DEFINE done == [e EXCEPT !.stored = TRUE]
<1>1. /\ e \in edits
      /\ edits' = (edits \ {e}) \cup {done}
      /\ cats' = [r \in Row |-> IF r \in e.rows THEN e.cat ELSE cats[r]]
      /\ picked' = picked /\ raced' = raced
  BY DEF StoreEdit
<1>2. done.rows = e.rows /\ done.cat = e.cat /\ IsRequest(done)
  <2>1. e \in [id: {e.id}, kind: {e.kind}, rows: {e.rows}, cat: {e.cat}, stored: BOOLEAN]
    BY <1>1 DEF PickInv, IsRequest
  <2>2. done \in [id: {e.id}, kind: {e.kind}, rows: {e.rows}, cat: {e.cat}, stored: BOOLEAN]
    BY <2>1
  <2>3. done.id = e.id /\ done.kind = e.kind /\ done.rows = e.rows /\ done.cat = e.cat
    BY <2>2
  <2>4. QED
    BY <2>2, <2>3 DEF IsRequest
<1> HIDE DEF done
<1>3. ASSUME NEW r \in Row \ raced, r \in e.rows PROVE cats'[r] = picked[r]
  BY <1>1, <1>3 DEF PickInv, CarriesPick
<1>4. ASSUME NEW r \in Row, r \notin e.rows PROVE cats'[r] = cats[r]
  BY <1>1, <1>4
<1>5. CarriesPick'
  BY <1>1, <1>2, <1>3, <1>4 DEF PickInv, CarriesPick
<1>6. RestedPick'
  BY <1>1, <1>2, <1>3, <1>4 DEF PickInv, RestedPick
<1>7. QED
  BY <1>1, <1>2, <1>5, <1>6 DEF PickInv

\* An answered request was stored; what a lost one was about is given up.
LEMMA AnswerKeeps ==
  ASSUME PickInv, NEW e, EditAnswered(e) \/ EditLost(e)
  PROVE  PickInv'
<1>1. CASE EditAnswered(e)
  BY <1>1 DEF EditAnswered, PickInv, CarriesPick, RestedPick, IsRequest
<1>2. CASE EditLost(e)
  BY <1>2 DEF EditLost, PickInv, CarriesPick, RestedPick, IsRequest
<1>3. QED
  BY <1>1, <1>2

\* Filters, menus, marks and answers leave the choices alone.
LEMMA OthersKeep ==
  ASSUME PickInv, UNCHANGED <<cats, edits, picked, raced>>
  PROVE  PickInv'
  BY DEF PickInv, CarriesPick, RestedPick, IsRequest

-----------------------------------------------------------------------------

LEMMA InitPickInv == ListInit => PickInv
  BY DEF ListInit, PickInv, CarriesPick, RestedPick

LEMMA StepPickInv == PickInv /\ [ListNext]_listVars => PickInv'
<1> SUFFICES ASSUME PickInv, [ListNext]_listVars PROVE PickInv'
  OBVIOUS
<1> USE DEF listVars, editVars, filterVars
<1>1. ASSUME NEW f \in asked, ResultsLand(f) PROVE PickInv'
  BY <1>1, OthersKeep DEF ResultsLand
<1>2. ASSUME \/ SetType \/ SetPeriod \/ SetTag \/ SetCategory \/ SetSearch \/ SetOp
             \/ TypeAmountInDrawer \/ PickTypeInDrawer \/ PickPeriodInDrawer \/ PickInDrawer
             \/ ResetFilters \/ FindSimilar \/ ShowDuplicates \/ ShowUncategorised
             \/ (\E menu \in Menu : ToggleMenu(menu)) \/ ClickOutside
      PROVE PickInv'
  <2>1. FilterClick
    BY <1>2 DEF SetType, SetPeriod, SetTag, SetCategory, SetSearch, SetOp, TypeAmountInDrawer,
                SetInDrawer, PickTypeInDrawer, PickPeriodInDrawer, PickInDrawer, ResetFilters,
                FindSimilar, ShowDuplicates, ShowUncategorised, ToggleMenu, ClickOutside
  <2>2. QED
    BY <2>1, OthersKeep DEF FilterClick
<1>3. CASE TypeAmountFilter
  BY <1>3, OthersKeep DEF TypeAmountFilter
<1>4. CASE LeaveAmount
  BY <1>4, OthersKeep DEF LeaveAmount
<1>5. CASE MarkRow \/ ToggleAll \/ ClearMarks
  <2>1. MarkClick
    BY <1>5 DEF MarkRow, ToggleAll, ClearMarks
  <2>2. QED
    BY <2>1, OthersKeep DEF MarkClick
<1>6. CASE PickForRow
  BY <1>6, SendKeeps DEF PickForRow, ChangeCategory
<1>7. CASE PickForMarked
  BY <1>7, SendKeeps DEF PickForMarked, Categorise
<1>8. CASE ConfirmRule
  BY <1>8, SendKeeps DEF ConfirmRule
<1>9. CASE DeclineRule
  BY <1>9, OthersKeep DEF DeclineRule
<1>10. ASSUME NEW e \in edits, StoreEdit(e) \/ EditAnswered(e) \/ EditLost(e) PROVE PickInv'
  BY <1>10, StoreKeeps, AnswerKeeps
<1>11. CASE UNCHANGED listVars
  BY <1>11, OthersKeep
<1>12. QED
  BY <1>1, <1>2, <1>3, <1>4, <1>5, <1>6, <1>7, <1>8, <1>9, <1>10, <1>11 DEF ListNext

\* A posting that no two requests have met over ends with the category the user
\* last chose for it: in its row, in bulk or by a rule (handleCategoryChange,
\* handleBulkCategorize and handleCreateRule of TransactionsPage).
THEOREM LastPickIsKept == ListSpec => []LastPickStays
<1>1. PickInv => LastPickStays
  BY TouchedByRequests DEF PickInv, RestedPick, LastPickStays
<1>2. QED
  BY <1>1, InitPickInv, StepPickInv, PTL DEF ListSpec

-----------------------------------------------------------------------------
(* The filters, the answers to them, and what may be edited.                *)

Amounts == {Undefined, 0, 1}

IsFilter(f) ==
    f \in [type: Types, period: BOOLEAN, tag: BOOLEAN, category: BOOLEAN,
           text: BOOLEAN, op: BOOLEAN, val: Amounts]

\* The menus: all but one of those that close each other are closed.
OneMenu == \E m : menus \ {"category"} \subseteq {m}

FilterInv == IsFilter(filter) /\ field \in Amounts /\ AmountAgrees /\ OneMenu

\* What is cached under a key is an answer to that filter, of known postings.
Answered == \A k \in DOMAIN results : results[k].of = k /\ results[k].rows \subseteq Row

Labels == Label \cup {Unlabelled}

EditTypes ==
    /\ marked \subseteq Row /\ raced \subseteq Row
    /\ prompt \in [open: BOOLEAN, cat: Labels]
    /\ prompt.open => prompt.cat \in Label
    /\ cats \in [Row -> Labels] /\ picked \in [Row -> Labels]
    /\ \A e \in edits : e.rows \subseteq Row /\ e.cat \in Label

ListInv == PickInv /\ FilterInv /\ Answered /\ EditTypes

-----------------------------------------------------------------------------

\* One of the filters that are set or not set is chosen.
Switches == {"period", "tag", "category", "text", "op"}

Turned(f, n) == \E dim \in Switches, on \in BOOLEAN : n = [f EXCEPT ![dim] = on]

\* A choice in a menu or the drawer leaves the amount that filters.
LEMMA FilterTypes ==
  ASSUME NEW f, IsFilter(f)
  PROVE  /\ \A t \in Types : LET n == [f EXCEPT !.type = t] IN IsFilter(n) /\ n.val = f.val
         /\ \A n : Turned(f, n) => IsFilter(n) /\ n.val = f.val
         /\ \A v \in Amounts : LET n == [f EXCEPT !.val = v] IN IsFilter(n) /\ n.val = v
<1>1. ASSUME NEW t \in Types
      PROVE  LET n == [f EXCEPT !.type = t] IN IsFilter(n) /\ n.val = f.val
  BY DEF IsFilter
<1>2. ASSUME NEW n, Turned(f, n)
      PROVE  IsFilter(n) /\ n.val = f.val
  <2>1. PICK dim \in Switches, on \in BOOLEAN : n = [f EXCEPT ![dim] = on]
    BY <1>2 DEF Turned
  <2>2. CASE dim = "period"
    BY <2>1, <2>2 DEF IsFilter
  <2>3. CASE dim = "tag"
    BY <2>1, <2>3 DEF IsFilter
  <2>4. CASE dim = "category"
    BY <2>1, <2>4 DEF IsFilter
  <2>5. CASE dim = "text"
    BY <2>1, <2>5 DEF IsFilter
  <2>6. CASE dim = "op"
    BY <2>1, <2>6 DEF IsFilter
  <2>7. QED
    BY <2>2, <2>3, <2>4, <2>5, <2>6 DEF Switches
<1>3. ASSUME NEW v \in Amounts
      PROVE  LET n == [f EXCEPT !.val = v] IN IsFilter(n) /\ n.val = v
  BY DEF IsFilter
<1>4. QED
  BY <1>1, <1>2, <1>3

\* "Show in list" sets the type and takes the period away.
LEMMA DuplicatesFilter ==
  ASSUME NEW f, IsFilter(f)
  PROVE  LET n == [f EXCEPT !.type = "duplicates", !.period = FALSE] IN IsFilter(n) /\ n.val = f.val
<1> DEFINE g == [f EXCEPT !.type = "duplicates"]
           h == [g EXCEPT !.period = FALSE]
<1>1. IsFilter(g) /\ g.val = f.val
  BY FilterTypes DEF Types
<1>2. IsFilter(h) /\ h.val = g.val
  <2> HIDE DEF g
  <2>1. QED
    BY <1>1 DEF IsFilter
<1>3. h = [f EXCEPT !.type = "duplicates", !.period = FALSE]
  OBVIOUS
<1>4. QED
  BY <1>1, <1>2, <1>3

LEMMA EmptyFilters ==
  /\ IsFilter(NoFilter) /\ NoFilter.val = Undefined
  /\ LET n == [NoFilter EXCEPT !.text = TRUE] IN IsFilter(n) /\ n.val = Undefined
<1>1. IsFilter(NoFilter) /\ NoFilter.val = Undefined
  BY DEF IsFilter, NoFilter, Types, Amounts
<1>2. LET n == [NoFilter EXCEPT !.text = TRUE] IN IsFilter(n) /\ n.val = NoFilter.val
  <2>1. Turned(NoFilter, [NoFilter EXCEPT !.text = TRUE])
    BY DEF Turned, Switches
  <2>2. QED
    BY <1>1, <2>1, FilterTypes
<1>3. QED
  BY <1>1, <1>2

\* What the field shows after an amount has been applied agrees with it.
LEMMA FieldFollows ==
  ASSUME FilterInv, NEW v \in Amounts
  PROVE  /\ FieldAfter(v) \in Amounts
         /\ v = filter.val \/ FieldAfter(v) = v \/ (v = 0 /\ FieldAfter(v) = Undefined)
         /\ v = filter.val => FieldAfter(v) = field
  BY DEF FilterInv, FieldAfter, Amounts, Undefined

\* A choice that keeps the amount keeps the agreement.
LEMMA SameAmount ==
  ASSUME FilterInv, IsFilter(filter'), filter'.val = filter.val, OneMenu',
         UNCHANGED <<field, focused>>
  PROVE  FilterInv'
  BY DEF FilterInv, AmountAgrees

\* Closing menus, and a click on a button of one.
LEMMA MenusClose ==
  ASSUME FilterInv
  PROVE  /\ menus' \subseteq menus => OneMenu'
         /\ \A m : menus' = Toggled(m) => OneMenu'
<1>1. PICK m : menus \ {"category"} \subseteq {m}
  BY DEF FilterInv, OneMenu
<1>2. menus' \subseteq menus => OneMenu'
  BY <1>1 DEF OneMenu
<1>3. ASSUME NEW b, menus' = Toggled(b) PROVE OneMenu'
  BY <1>3 DEF Toggled, OneMenu
<1>4. QED
  BY <1>2, <1>3

LEMMA MenuChoices ==
  ASSUME FilterInv,
         SetType \/ SetPeriod \/ SetTag \/ SetCategory \/ SetSearch \/ SetOp
  PROVE  FilterInv'
<1>1. IsFilter(filter)
  BY DEF FilterInv
<1>2. IsFilter(filter') /\ filter'.val = filter.val
  <2>1. CASE SetType
    BY <2>1, <1>1, FilterTypes DEF SetType, Asks
  <2>2. ASSUME SetPeriod \/ SetTag \/ SetCategory \/ SetSearch \/ SetOp
        PROVE  Turned(filter, filter')
    BY <2>2 DEF SetPeriod, SetTag, SetCategory, SetSearch, SetOp, Asks, Turned, Switches
  <2>3. QED
    BY <2>1, <2>2, <1>1, FilterTypes
<1>3. menus' \subseteq menus /\ field' = field /\ focused' = focused
  BY DEF SetType, SetPeriod, SetTag, SetCategory, SetSearch, SetOp, FilterClick
<1>4. QED
  BY <1>2, <1>3, SameAmount, MenusClose

LEMMA DrawerChoices ==
  ASSUME FilterInv,
         PickTypeInDrawer \/ PickPeriodInDrawer \/ PickInDrawer \/ ShowDuplicates \/ ShowUncategorised
  PROVE  FilterInv'
<1>1. IsFilter(filter)
  BY DEF FilterInv
<1>2. IsFilter(filter') /\ filter'.val = filter.val
  <2>1. CASE PickTypeInDrawer
    BY <2>1, <1>1, FilterTypes DEF PickTypeInDrawer, Asks
  <2>2. ASSUME PickPeriodInDrawer \/ PickInDrawer PROVE Turned(filter, filter')
    BY <2>2 DEF PickPeriodInDrawer, PickInDrawer, Asks, Turned, Switches
  <2>3. CASE PickPeriodInDrawer \/ PickInDrawer
    BY <2>2, <2>3, <1>1, FilterTypes
  <2>4. CASE ShowDuplicates
    BY <2>4, <1>1, DuplicatesFilter DEF ShowDuplicates, Asks
  <2>5. CASE ShowUncategorised
    BY <2>5, <1>1, FilterTypes DEF ShowUncategorised, Asks, Types
  <2>6. QED
    BY <2>1, <2>3, <2>4, <2>5
<1>3. menus' \subseteq menus /\ field' = field /\ focused' = focused
  BY DEF PickTypeInDrawer, PickPeriodInDrawer, PickInDrawer, ShowDuplicates, ShowUncategorised,
         SetInDrawer, FilterClick
<1>4. QED
  BY <1>2, <1>3, SameAmount, MenusClose

\* The amount is typed, applied or reset.
LEMMA AmountChoices ==
  ASSUME FilterInv,
         TypeAmountFilter \/ LeaveAmount \/ TypeAmountInDrawer \/ ResetFilters \/ FindSimilar
  PROVE  FilterInv'
<1>1. /\ IsFilter(filter) /\ field \in Amounts /\ AmountAgrees
      /\ filter.val \in Amounts /\ Undefined \in Amounts
  BY DEF FilterInv, IsFilter, Amounts
<1>2. menus' = menus
  BY DEF TypeAmountFilter, LeaveAmount, TypeAmountInDrawer, ResetFilters, FindSimilar
<1>3. OneMenu'
  BY <1>2, MenusClose
<1>4. CASE TypeAmountFilter
  <2>1. filter' = filter /\ field' \in Amounts /\ focused' = TRUE
    BY <1>4 DEF TypeAmountFilter, Amounts
  <2>2. QED
    BY <1>1, <1>3, <2>1 DEF FilterInv, AmountAgrees
<1>5. CASE LeaveAmount
  <2>1. filter' = [filter EXCEPT !.val = field] /\ field' = FieldAfter(field)
    BY <1>5 DEF LeaveAmount, Asks
  <2>2. IsFilter(filter') /\ filter'.val = field
    BY <1>1, <2>1, FilterTypes
  <2>3. field' \in Amounts /\ (field' = field \/ (field = 0 /\ field' = Undefined))
    BY <1>1, <2>1, FieldFollows
  <2>4. QED
    BY <1>3, <2>2, <2>3 DEF FilterInv, AmountAgrees
<1>6. CASE TypeAmountInDrawer
  <2>1. PICK v \in Amounts : /\ filter' = [filter EXCEPT !.val = v]
                             /\ field' = IF v = filter.val THEN v ELSE FieldAfter(v)
    BY <1>6 DEF TypeAmountInDrawer, Asks, Amounts
  <2>2. IsFilter(filter') /\ filter'.val = v
    BY <1>1, <2>1, FilterTypes
  <2>3. field' \in Amounts /\ (field' = v \/ (v = 0 /\ field' = Undefined))
    BY <1>1, <2>1, FieldFollows
  <2>4. QED
    BY <1>3, <2>2, <2>3 DEF FilterInv, AmountAgrees
<1>7. CASE ResetFilters
  <2>1. filter' = NoFilter /\ field' = Undefined
    BY <1>7 DEF ResetFilters, Asks
  <2>2. QED
    BY <1>1, <1>3, <2>1, EmptyFilters DEF FilterInv, AmountAgrees
<1>8. CASE FindSimilar
  <2>1. /\ filter' = [NoFilter EXCEPT !.text = TRUE] /\ field' = FieldAfter(Undefined)
        /\ ~focused /\ focused' = focused
    BY <1>8 DEF FindSimilar, Asks, FilterClick
  <2>2. IsFilter(filter') /\ filter'.val = Undefined
    BY <2>1, EmptyFilters
  <2>3. field' \in Amounts /\ field' = Undefined
    <3>1. field = filter.val \/ (filter.val = 0 /\ field = Undefined)
      BY <1>1, <2>1 DEF AmountAgrees
    <3>2. QED
      BY <1>1, <2>1, <3>1, FieldFollows DEF Undefined
  <2>4. QED
    BY <1>1, <1>3, <2>2, <2>3 DEF FilterInv, AmountAgrees
<1>9. QED
  BY <1>4, <1>5, <1>6, <1>7, <1>8

LEMMA MenuClicks ==
  ASSUME FilterInv, ClickOutside \/ \E menu \in Menu : ToggleMenu(menu)
  PROVE  FilterInv'
<1>1. /\ UNCHANGED <<filter, field, focused>>
      /\ menus' \subseteq menus \/ \E menu : menus' = Toggled(menu)
  BY DEF ClickOutside, ToggleMenu, FilterClick
<1>2. OneMenu'
  BY <1>1, MenusClose
<1>3. IsFilter(filter') /\ filter'.val = filter.val
  BY <1>1 DEF FilterInv
<1>4. QED
  BY <1>1, <1>2, <1>3, SameAmount

\* Everything else leaves the filters alone.
LEMMA FiltersStay == ASSUME FilterInv, UNCHANGED filterVars PROVE FilterInv'
  BY DEF FilterInv, IsFilter, AmountAgrees, OneMenu, filterVars

-----------------------------------------------------------------------------

\* An answer lands under the key of the filter it was asked for; no other step
\* changes what is cached.
LEMMA AnswersLand ==
  ASSUME Answered, NEW f, ResultsLand(f)
  PROVE  Answered'
<1>1. /\ results' = [k \in DOMAIN results \cup {f} |-> IF k = f THEN ListAnswer(f) ELSE results[k]]
      /\ ListAnswer(f).of = f /\ ListAnswer(f).rows \subseteq Row
  BY DEF ResultsLand, Key, ListAnswer, Matching
<1>2. DOMAIN results' = DOMAIN results \cup {f}
  BY <1>1
<1>3. ASSUME NEW k \in DOMAIN results' PROVE results'[k].of = k /\ results'[k].rows \subseteq Row
  BY <1>1, <1>2 DEF Answered
<1>4. QED
  BY <1>3 DEF Answered

LEMMA AnswersStay == ASSUME Answered, UNCHANGED results PROVE Answered'
  BY DEF Answered

\* The postings shown are known ones.
LEMMA VisibleRows == Answered => Visible \subseteq Row
  BY DEF Answered, Visible, Loaded

\* A request names known postings and a category.
LEMMA SendTypes ==
  ASSUME EditTypes, NEW kind, NEW rows, rows \subseteq Row, NEW cat \in Label,
         SendEdit(kind, rows, cat),
         prompt' = prompt \/ prompt' = [open |-> TRUE, cat |-> cat]
  PROVE  EditTypes'
<1>1. /\ edits' = edits \cup {[id |-> clicks, kind |-> kind, rows |-> rows, cat |-> cat,
                               stored |-> FALSE]}
      /\ picked' = [r \in Row |-> IF r \in rows THEN cat ELSE picked[r]]
      /\ raced' = (raced \ rows) \cup (rows \cap Touched)
      /\ marked' = marked /\ cats' = cats
  BY DEF SendEdit
<1>2. \A e \in edits' : e.rows \subseteq Row /\ e.cat \in Label
  BY <1>1 DEF EditTypes
<1>3. picked' \in [Row -> Labels]
  BY <1>1 DEF EditTypes, Labels
<1>4. raced' \subseteq Row /\ marked' \subseteq Row /\ cats' \in [Row -> Labels]
  BY <1>1 DEF EditTypes
<1>5. prompt' \in [open: BOOLEAN, cat: Labels] /\ (prompt'.open => prompt'.cat \in Label)
  <2>1. CASE prompt' = prompt
    BY <2>1 DEF EditTypes
  <2>2. CASE prompt' = [open |-> TRUE, cat |-> cat]
    BY <2>2 DEF Labels
  <2>3. QED
    BY <2>1, <2>2
<1>6. QED
  BY <1>2, <1>3, <1>4, <1>5 DEF EditTypes

\* The dialog closes.
LEMMA PromptCloses ==
  ASSUME EditTypes
  PROVE  LET p == [prompt EXCEPT !.open = FALSE]
         IN  p \in [open: BOOLEAN, cat: Labels] /\ ~p.open
  BY DEF EditTypes

LEMMA StoreTypes == ASSUME EditTypes, PickInv, NEW e, StoreEdit(e) PROVE EditTypes'
<1> DEFINE done == [e EXCEPT !.stored = TRUE]
<1>1. /\ e \in edits /\ edits' = (edits \ {e}) \cup {done}
      /\ cats' = [r \in Row |-> IF r \in e.rows THEN e.cat ELSE cats[r]]
      /\ UNCHANGED <<marked, prompt, picked, raced>>
  BY DEF StoreEdit
<1>2. done.rows = e.rows /\ done.cat = e.cat
  BY <1>1 DEF PickInv, IsRequest
<1> HIDE DEF done
<1>3. \A o \in edits' : o.rows \subseteq Row /\ o.cat \in Label
  BY <1>1, <1>2 DEF EditTypes
<1>4. cats' \in [Row -> Labels]
  BY <1>1 DEF EditTypes, Labels
<1>5. QED
  BY <1>1, <1>3, <1>4 DEF EditTypes

LEMMA AnswerTypes ==
  ASSUME EditTypes, NEW e, EditAnswered(e) \/ EditLost(e) PROVE EditTypes'
<1>1. /\ e \in edits /\ edits' = edits \ {e}
      /\ marked' = marked \/ marked' = {}
      /\ raced' = raced \/ raced' = raced \cup e.rows
      /\ UNCHANGED <<cats, picked>>
  BY DEF EditAnswered, EditLost
<1>2. prompt' = prompt \/ prompt' = [prompt EXCEPT !.open = FALSE]
  BY DEF EditAnswered, EditLost
<1>3. prompt' \in [open: BOOLEAN, cat: Labels] /\ (prompt'.open => prompt'.cat \in Label)
  <2>1. CASE prompt' = prompt
    BY <2>1 DEF EditTypes
  <2>2. CASE prompt' = [prompt EXCEPT !.open = FALSE]
    BY <2>2, PromptCloses
  <2>3. QED
    BY <1>2, <2>1, <2>2
<1>4. QED
  BY <1>1, <1>3 DEF EditTypes

LEMMA EditsStay ==
  ASSUME EditTypes, UNCHANGED <<prompt, cats, edits, picked, raced>>, marked' \subseteq Row
  PROVE  EditTypes'
  BY DEF EditTypes

-----------------------------------------------------------------------------

LEMMA InitListInv == ListInit => ListInv
<1> SUFFICES ASSUME ListInit PROVE ListInv
  OBVIOUS
<1>1. PickInv
  BY InitPickInv
<1>2. FilterInv
  BY EmptyFilters DEF ListInit, FilterInv, AmountAgrees, OneMenu, Amounts
<1>3. Answered
  BY DEF ListInit, Answered
<1>4. EditTypes
  BY DEF ListInit, EditTypes, NoPrompt, Labels
<1>5. QED
  BY <1>1, <1>2, <1>3, <1>4 DEF ListInv

LEMMA StepListInv == ListInv /\ [ListNext]_listVars => ListInv'
<1> SUFFICES ASSUME ListInv, [ListNext]_listVars PROVE ListInv'
  OBVIOUS
<1> USE DEF ListInv
<1>0. PickInv' /\ marked \subseteq Row /\ Visible \subseteq Row
  BY StepPickInv, VisibleRows DEF EditTypes
<1>1. ASSUME NEW f \in asked, ResultsLand(f) PROVE ListInv'
  <2>1. UNCHANGED <<filterVars, editVars>>
    BY <1>1 DEF ResultsLand
  <2>2. QED
    BY <1>0, <1>1, <2>1, AnswersLand, FiltersStay, EditsStay DEF editVars
<1>2. ASSUME FilterClick, FilterInv' PROVE ListInv'
  <2>1. UNCHANGED results /\ UNCHANGED editVars
    BY <1>2 DEF FilterClick, PageClick, Click
  <2>2. QED
    BY <1>0, <1>2, <2>1, AnswersStay, EditsStay DEF editVars
<1>3. CASE SetType \/ SetPeriod \/ SetTag \/ SetCategory \/ SetSearch \/ SetOp
  <2>1. FilterClick
    BY <1>3 DEF SetType, SetPeriod, SetTag, SetCategory, SetSearch, SetOp
  <2>2. QED
    BY <1>2, <1>3, <2>1, MenuChoices
<1>4. CASE PickTypeInDrawer \/ PickPeriodInDrawer \/ PickInDrawer \/ ShowDuplicates \/ ShowUncategorised
  <2>1. FilterClick
    BY <1>4 DEF PickTypeInDrawer, PickPeriodInDrawer, PickInDrawer, SetInDrawer, ShowDuplicates,
                ShowUncategorised
  <2>2. QED
    BY <1>2, <1>4, <2>1, DrawerChoices
<1>5. CASE TypeAmountFilter \/ LeaveAmount \/ TypeAmountInDrawer \/ ResetFilters \/ FindSimilar
  <2>1. UNCHANGED results /\ UNCHANGED editVars
    BY <1>5 DEF TypeAmountFilter, LeaveAmount, TypeAmountInDrawer, ResetFilters, FindSimilar,
                FilterClick, PageClick, Click
  <2>2. QED
    BY <1>0, <1>5, <2>1, AmountChoices, AnswersStay, EditsStay DEF editVars
<1>6. CASE (\E menu \in Menu : ToggleMenu(menu)) \/ ClickOutside
  BY <1>2, <1>6, MenuClicks DEF ToggleMenu, ClickOutside
<1>7. CASE MarkRow \/ ToggleAll \/ ClearMarks
  <2>1. UNCHANGED <<results, filterVars, prompt, cats, edits, picked, raced>>
    BY <1>7 DEF MarkRow, ToggleAll, ClearMarks, MarkClick, PageClick, Click
  <2>2. marked' \subseteq Row
    BY <1>0, <1>7 DEF MarkRow, ToggleAll, ClearMarks, Switched, AllOrNone
  <2>3. QED
    BY <1>0, <2>1, <2>2, AnswersStay, FiltersStay, EditsStay
<1>8. CASE PickForRow \/ PickForMarked \/ ConfirmRule
  <2>1. UNCHANGED results
    BY <1>8 DEF PickForRow, PickForMarked, ConfirmRule, PageClick, Click
  <2>2. UNCHANGED filterVars
    BY <1>8 DEF PickForRow, ChangeCategory, PickForMarked, Categorise, ConfirmRule, SendEdit
  <2>3. EditTypes'
    <3>1. CASE PickForRow
      <4>1. PICK r \in Visible, c \in Label :
              /\ SendEdit("row", {r}, c)
              /\ prompt' = IF r \in Similar THEN [open |-> TRUE, cat |-> c] ELSE prompt
        BY <3>1 DEF PickForRow, ChangeCategory
      <4>2. QED
        BY <1>0, <4>1, SendTypes
    <3>2. CASE PickForMarked
      BY <1>0, <3>2, SendTypes DEF PickForMarked, Categorise
    <3>3. CASE ConfirmRule
      <4>1. SendEdit("rule", Similar, prompt.cat) /\ prompt' = prompt /\ prompt.open
        BY <3>3 DEF ConfirmRule
      <4>2. prompt.cat \in Label /\ Similar \subseteq Row
        BY <4>1 DEF EditTypes, Similar, Row
      <4>3. QED
        BY <4>1, <4>2, SendTypes
    <3>4. QED
      BY <1>8, <3>1, <3>2, <3>3
  <2>4. QED
    BY <1>0, <2>1, <2>2, <2>3, AnswersStay, FiltersStay
<1>9. CASE DeclineRule
  <2>1. /\ UNCHANGED <<results, filterVars, marked, cats, edits, picked, raced>>
        /\ prompt' = [prompt EXCEPT !.open = FALSE]
    BY <1>9 DEF DeclineRule, Click
  <2>2. EditTypes'
    BY <2>1, PromptCloses DEF EditTypes
  <2>3. QED
    BY <1>0, <2>1, <2>2, AnswersStay, FiltersStay
<1>10. ASSUME NEW e \in edits, StoreEdit(e) \/ EditAnswered(e) \/ EditLost(e) PROVE ListInv'
  <2>1. UNCHANGED <<results, filterVars>>
    BY <1>10 DEF StoreEdit, EditAnswered, EditLost
  <2>2. EditTypes'
    BY <1>10, StoreTypes, AnswerTypes
  <2>3. QED
    BY <1>0, <2>1, <2>2, AnswersStay, FiltersStay
<1>11. CASE UNCHANGED listVars
  <2>1. UNCHANGED <<results, filterVars>> /\ UNCHANGED <<prompt, cats, edits, picked, raced>> /\ marked' = marked
    BY <1>11 DEF listVars, editVars
  <2>2. QED
    BY <1>0, <2>1, AnswersStay, FiltersStay, EditsStay
<1>12. QED
  BY <1>1, <1>3, <1>4, <1>5, <1>6, <1>7, <1>8, <1>9, <1>10, <1>11 DEF ListNext

-----------------------------------------------------------------------------

\* Of the menus that close each other at most one is open, and an offered rule
\* has a category, whatever is clicked (the buttons of TransactionFilters and
\* rulePrompt of TransactionsPage).
THEOREM ListTypes == ListSpec => []ListTypeOK
<1>1. ASSUME NEW m, menus \ {"category"} \subseteq {m}
      PROVE  Cardinality(menus \ {"category"}) <= 1
  <2>1. IsFiniteSet({m}) /\ Cardinality({m}) = 1
    BY FS_Singleton
  <2>2. Cardinality(menus \ {"category"}) <= Cardinality({m})
    BY <1>1, <2>1, FS_Subset
  <2>3. QED
    BY <2>1, <2>2
<1>2. ListInv => ListTypeOK
  <2> SUFFICES ASSUME ListInv PROVE ListTypeOK
    OBVIOUS
  <2>1. Cardinality(menus \ {"category"}) <= 1
    BY <1>1 DEF ListInv, FilterInv, OneMenu
  <2>2. filter.val \in Amounts /\ field \in Amounts
    BY DEF ListInv, FilterInv, IsFilter
  <2>3. QED
    BY <2>1, <2>2 DEF ListInv, EditTypes, ListTypeOK, Labels, Amounts
<1>3. QED
  BY <1>2, InitListInv, StepListInv, PTL DEF ListSpec

\* What the page shows is an answer to the filter that is set, in whatever
\* order the answers to several filters arrive (the key of useTransactions).
THEOREM ResultsFit == ListSpec => []ResultsOfFilter
<1>1. ListInv => ResultsOfFilter
  BY DEF ListInv, Answered, ResultsOfFilter, Loaded, Key
<1>2. QED
  BY <1>1, InitListInv, StepListInv, PTL DEF ListSpec

\* Outside the field the amount that filters is the one the field shows, but
\* for 0, however it was typed, applied or reset (tempAmount of
\* TransactionFilters).
THEOREM AmountShown == ListSpec => []AmountAgrees
<1>1. ListInv => AmountAgrees
  BY DEF ListInv, FilterInv
<1>2. QED
  BY <1>1, InitListInv, StepListInv, PTL DEF ListSpec
=============================================================================
