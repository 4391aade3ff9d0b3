------------------------------ MODULE Session ------------------------------
(***************************************************************************)
(* The signed-in shell of the web client: the gate that waits for an       *)
(* access token (AppLayout), the household provider with its list of       *)
(* households, the remembered selection and the header every request       *)
(* carries (HouseholdContext, http.ts), and one query of a page as it      *)
(* lives in the query cache (TanStack Query, external).                    *)
(*                                                                         *)
(* The cache is sliced: a query only meets the other queries through the   *)
(* operations on all of them (reset, invalidate), so one watched query     *)
(* stands for each.  What it stores is reduced to the household whose data *)
(* it is.  "keyed" says whether the household is part of its key,          *)
(* "consumer" whether its page reads the household context.                *)
(*                                                                         *)
(* The key of a query is computed when its component renders; the header   *)
(* of its request is read when the request leaves.  Both come from one     *)
(* module variable ("header" here), which is set in an effect, so the two  *)
(* may differ.                                                             *)
(***************************************************************************)
EXTENDS Naturals

CONSTANTS
    Household,     \* the households there may be
    NoHousehold,   \* no household: nothing stored, no header, an empty entry
    Idle,          \* no request in flight
    NoList,        \* the list of households is not in the cache
    Rank,          \* the order in which the server lists households
    MaxActs        \* bound: what the user and the others do, requests lost on the
                   \* way, staleTime running out

ASSUME SessionAssumption ==
    /\ NoHousehold \notin Household
    /\ Idle \notin Household \cup {NoHousehold}
    /\ Rank \in [Household -> Nat]
    /\ MaxActs \in Nat

Status == {"unborn", "active", "deleted", "gone"}
Listing == [Household -> Status]

ASSUME NoListAssumption == NoList \notin Listing

VARIABLES
    status,     \* server: what each household is to this user
    gate,       \* AppLayout: "loading", "out", "ready" or "noToken"
    stored,     \* localStorage 'peng_household_id'
    active,     \* the provider's state activeHouseholdId
    header,     \* http.ts: currentHouseholdId
    list,       \* the cached list of households
    listReq,    \* the request for that list
    dirty,      \* the provider has to render
    keyed, consumer,
    page,       \* the component that observes the watched query
    entry,      \* the watched query's cache entries, by household key
    fetch,      \* the header of the request in flight for a key, or Idle
    op,         \* a household mutation on its way
    lost,       \* history: the selected household has not stayed active
    mode,       \* history: how the selection came about
    loaded,     \* history: a list has arrived since the page was loaded
    failed,     \* history: a request was lost since the page was loaded
    acts

shellVars  == <<gate, stored, active, header, list, listReq, dirty>>
pageVars   == <<page, entry, fetch>>
fixedVars  == <<keyed, consumer>>
countVars  == <<failed, acts>>
sessionVars == <<status, shellVars, pageVars, fixedVars, op, lost, mode, loaded, countVars>>

Key == Household \cup {NoHousehold}

NoReq == [phase |-> "none", header |-> NoHousehold, val |-> NoList]
NoOp  == [kind |-> "none", hh |-> NoHousehold, header |-> NoHousehold, phase |-> "none"]
Empty == [hh |-> NoHousehold, valid |-> FALSE]

SessionTypeOK ==
    /\ status \in Listing
    /\ gate \in {"loading", "out", "ready", "noToken"}
    /\ stored \in Key /\ active \in Key /\ header \in Key
    /\ list \in Listing \cup {NoList}
    /\ listReq \in [phase: {"none", "sent", "answered"}, header: Key, val: Listing \cup {NoList}]
    /\ listReq.phase = "answered" => listReq.val \in Listing
    /\ dirty \in BOOLEAN /\ keyed \in BOOLEAN /\ consumer \in BOOLEAN
    /\ page \in [on: BOOLEAN, key: Key, due: BOOLEAN]
    /\ entry \in [Key -> [hh: Key, valid: BOOLEAN]]
    /\ fetch \in [Key -> Key \cup {Idle}]
    /\ op \in [kind: {"none", "create", "delete", "restore", "leave"},
               hh: Key, header: Key, phase: {"none", "sent", "applied"}]
    /\ op.phase # "none" => op.hh \in Household
    /\ lost \in BOOLEAN /\ loaded \in BOOLEAN
    /\ mode \in {"start", "chosen", "fallback"}
    /\ failed \in BOOLEAN /\ acts \in 0..MaxActs

-----------------------------------------------------------------------------
(* What the server makes of a request.                                      *)

First(S) == CHOOSE h \in S : \A g \in S : Rank[h] <= Rank[g]

Member == {h \in Household : status[h] \in {"active", "deleted"}}

\* The household a request without or with a header is answered for.
Resolve(hdr) == IF hdr = NoHousehold THEN First(Member) ELSE hdr

\* A header that names a household the user is not a member of is refused,
\* whatever is asked; so is every request without a token.
Refused(hdr) ==
    \/ gate = "noToken"
    \/ hdr # NoHousehold /\ hdr \notin Member

Failing(hdr) ==
    \/ Refused(hdr) /\ UNCHANGED countVars
    \/ acts < MaxActs /\ acts' = acts + 1 /\ failed' = TRUE

-----------------------------------------------------------------------------
(* Keys and the cache, as the hooks and the provider use them.              *)

QueryKey(hdr) == IF keyed THEN hdr ELSE NoHousehold

AllEmpty == [k \in Key |-> Empty]
AllIdle  == [k \in Key |-> Idle]

\* Observing a key asks for it when nothing fresh is there and nobody asks yet.
\* Whether staleTime has passed for an entry is decided when it is observed anew.
Observe(f, k) ==
    IF f[k] = Idle /\ (entry[k].hh = NoHousehold \/ ~entry[k].valid)
    THEN [f EXCEPT ![k] = header]
    ELSE f

\* A render asks only when it changes the key.
Rerender(f, k) == IF k = page.key THEN f ELSE Observe(f, k)

\* invalidateQueries() on the observed key: a new request leaves, with the header
\* of that moment; one under way is dropped, unless the entry has no data yet.
Refetch(f, k, hdr) ==
    IF page.on /\ (f[k] = Idle \/ entry[k].hh # NoHousehold) THEN [f EXCEPT ![k] = hdr] ELSE f

Sent(hdr) == [phase |-> "sent", header |-> hdr, val |-> NoList]

Open == gate \in {"ready", "noToken"}

-----------------------------------------------------------------------------
(* The gate and a fresh load of the page.                                   *)

SessionInit ==
    /\ status \in [Household -> {"unborn", "active"}]
    /\ \E h \in Household : status[h] = "active"
    /\ gate = "loading"
    /\ stored \in {h \in Household : status[h] # "unborn"} \cup {NoHousehold}
    /\ active = stored
    /\ header = NoHousehold
    /\ list = NoList
    /\ listReq = NoReq
    /\ dirty = FALSE
    /\ keyed \in BOOLEAN
    /\ consumer \in {FALSE, keyed}
    /\ page = [on |-> FALSE, key |-> NoHousehold, due |-> FALSE]
    /\ entry = AllEmpty
    /\ fetch = AllIdle
    /\ op = NoOp
    /\ lost = (stored # NoHousehold /\ status[stored] # "active")
    /\ mode = "start"
    /\ loaded = FALSE
    /\ failed = FALSE
    /\ acts = 0

\* The sign-in library has answered: signed out, or the access token was
\* fetched, or fetching it failed and the app goes on without one.
OpenGate ==
    /\ gate = "loading"
    /\ \/ gate' = "out" /\ UNCHANGED <<listReq, countVars>>
       \/ gate' = "ready" /\ listReq' = Sent(header) /\ UNCHANGED countVars
       \/ /\ gate' = "noToken"
          /\ listReq' = Sent(header)
          /\ acts < MaxActs /\ acts' = acts + 1
          /\ failed' = TRUE
    /\ UNCHANGED <<status, stored, active, header, list, dirty, pageVars, fixedVars,
                   op, lost, mode, loaded>>

SignIn ==
    /\ gate = "out"
    /\ gate' = "loading"
    /\ UNCHANGED <<status, stored, active, header, list, listReq, dirty, pageVars,
                   fixedVars, op, lost, mode, loaded, countVars>>

\* The browser loads the application again.
Reload ==
    /\ Open
    /\ acts < MaxActs
    /\ acts' = acts + 1
    /\ gate' = "loading"
    /\ active' = stored
    /\ header' = NoHousehold
    /\ list' = NoList
    /\ listReq' = NoReq
    /\ dirty' = FALSE
    /\ page' = [on |-> FALSE, key |-> NoHousehold, due |-> FALSE]
    /\ entry' = AllEmpty
    /\ fetch' = AllIdle
    /\ op' = NoOp
    /\ lost' = (stored # NoHousehold /\ status[stored] # "active")
    /\ mode' = "start"
    /\ loaded' = FALSE
    /\ failed' = FALSE
    /\ UNCHANGED <<status, stored, fixedVars>>

-----------------------------------------------------------------------------
(* The list of households.                                                  *)

\* Mutant: an answer without its body.
ListAnswerEmpty ==
    /\ Open
    /\ listReq.phase = "sent"
    /\ ~Refused(listReq.header)
    /\ listReq' = [listReq EXCEPT !.phase = "answered"]
    /\ UNCHANGED <<status, gate, stored, active, header, list, dirty, pageVars,
                   fixedVars, op, lost, mode, loaded, countVars>>

ListAnswer ==
    /\ Open
    /\ listReq.phase = "sent"
    /\ ~Refused(listReq.header)
    /\ listReq' = [listReq EXCEPT !.phase = "answered", !.val = status]
    /\ UNCHANGED <<status, gate, stored, active, header, list, dirty, pageVars,
                   fixedVars, op, lost, mode, loaded, countVars>>

\* An unchanged list keeps its identity: the provider does not render again.
ListLand ==
    /\ Open
    /\ listReq.phase = "answered"
    /\ list' = listReq.val
    /\ dirty' = (dirty \/ list # listReq.val)
    /\ loaded' = TRUE
    /\ listReq' = NoReq
    /\ UNCHANGED <<status, gate, stored, active, header, pageVars, fixedVars, op, lost,
                   mode, countVars>>

\* The request and its retry failed.  The cached list, if any, stays.
ListFail ==
    /\ Open
    /\ listReq.phase = "sent"
    /\ Failing(listReq.header)
    /\ listReq' = NoReq
    /\ dirty' = (dirty \/ list = NoList)
    /\ UNCHANGED <<status, gate, stored, active, header, list, pageVars, fixedVars, op,
                   lost, mode, loaded>>

-----------------------------------------------------------------------------
(* The provider renders and its effect runs.                                *)

ActiveListed == {h \in Household : list # NoList /\ list[h] = "active"}

\* What the pages that read the context observe after this render.
RenderedKey == IF consumer /\ page.on THEN QueryKey(header) ELSE page.key
RenderedFetch == Rerender(fetch, RenderedKey)

\* The selection is not in the list: take the first household, refetch everything.
FallBack ==
    /\ ActiveListed # {}
    /\ active \notin ActiveListed
    /\ LET h == First(ActiveListed) IN
         /\ active' = h
         /\ stored' = h
         /\ header' = h
         /\ fetch' = Refetch(RenderedFetch, RenderedKey, h)
         /\ listReq' = Sent(h)
         /\ lost' = (status[h] # "active")
    /\ entry' = [k \in Key |-> [entry[k] EXCEPT !.valid = FALSE]]
    /\ dirty' = TRUE
    /\ mode' = "fallback"

\* The selection is in the list: the requests carry it from now on.
Confirm ==
    /\ active \in ActiveListed
    /\ header' = active
    /\ fetch' = RenderedFetch
    /\ dirty' = FALSE
    /\ UNCHANGED <<active, stored, listReq, lost, entry, mode>>

\* No household is listed and none is being loaded: the selection is dropped.
Drop ==
    /\ ActiveListed = {}
    /\ ~(list = NoList /\ listReq.phase # "none")
    /\ active # NoHousehold
    /\ active' = NoHousehold
    /\ stored' = NoHousehold
    /\ header' = NoHousehold
    /\ fetch' = RenderedFetch
    /\ dirty' = TRUE
    /\ lost' = FALSE
    /\ mode' = "start"
    /\ UNCHANGED <<listReq, entry>>

Rest ==
    /\ ActiveListed = {}
    /\ (list = NoList /\ listReq.phase # "none") \/ active = NoHousehold
    /\ fetch' = RenderedFetch
    /\ dirty' = FALSE
    /\ UNCHANGED <<active, stored, header, listReq, lost, entry, mode>>

ProviderRender ==
    /\ Open
    /\ dirty
    /\ FallBack \/ Confirm \/ Drop \/ Rest
    /\ page' = [page EXCEPT !.key = RenderedKey]
    /\ UNCHANGED <<status, gate, list, fixedVars, op, loaded, countVars>>

-----------------------------------------------------------------------------
(* Choosing a household.                                                    *)

\* Mutant: the queries are invalidated, not reset.
SetActiveInvalidates(h) ==
    /\ active' = h
    /\ stored' = h
    /\ header' = h
    /\ entry' = [k \in Key |-> [entry[k] EXCEPT !.valid = FALSE]]
    /\ fetch' = Refetch(fetch, page.key, h)
    /\ page' = [page EXCEPT !.due = page.on]
    /\ listReq' = Sent(h)
    /\ dirty' = TRUE
    /\ lost' = (status[h] # "active")
    /\ mode' = "chosen"

\* Mutant: the queries are removed, their observers hear nothing.
SetActiveRemoves(h) ==
    /\ active' = h
    /\ stored' = h
    /\ header' = h
    /\ entry' = AllEmpty
    /\ fetch' = AllIdle
    /\ listReq' = Sent(h)
    /\ dirty' = TRUE
    /\ lost' = (status[h] # "active")
    /\ mode' = "chosen"
    /\ UNCHANGED page

\* setActiveHousehold: everything but the list is reset, and what is observed
\* is asked for again, under the key it was rendered with.
SetActive(h) ==
    /\ active' = h
    /\ stored' = h
    /\ header' = h
    /\ entry' = AllEmpty
    /\ fetch' = Refetch(AllIdle, page.key, h)
    /\ page' = [page EXCEPT !.due = page.on]
    /\ listReq' = Sent(h)
    /\ dirty' = TRUE
    /\ lost' = (status[h] # "active")
    /\ mode' = "chosen"

Choose(h) ==
    /\ Open
    /\ acts < MaxActs
    /\ acts' = acts + 1
    /\ h \in ActiveListed
    /\ SetActive(h)
    /\ UNCHANGED <<status, gate, list, fixedVars, op, loaded, failed>>

-----------------------------------------------------------------------------
(* Creating, deleting, restoring and leaving a household.                   *)

\* The buttons: any name creates; the owner deletes the selected household, a
\* member leaves it; a deleted one that is listed is restored.
CanCreate(h)  == status[h] = "unborn"
CanDelete(h)  == h = active /\ h \in ActiveListed
CanLeave(h)   == h = active /\ h \in ActiveListed
CanRestore(h) == list # NoList /\ list[h] = "deleted"

Offered(kind, h) ==
    \/ kind = "create"  /\ CanCreate(h)
    \/ kind = "delete"  /\ CanDelete(h)
    \/ kind = "leave"   /\ CanLeave(h)
    \/ kind = "restore" /\ CanRestore(h)

Begin(kind, h) ==
    /\ Open
    /\ op = NoOp
    /\ acts < MaxActs
    /\ acts' = acts + 1
    /\ Offered(kind, h)
    /\ op' = [kind |-> kind, hh |-> h, header |-> header, phase |-> "sent"]
    /\ UNCHANGED <<status, shellVars, pageVars, fixedVars, lost, mode, loaded, failed>>

\* What the server does with it; a household that is not (or no longer) in the
\* state the operation needs is an error.
Outcome(kind) ==
    CASE kind = "create"  -> [from |-> {"unborn"},  to |-> "active"]
      [] kind = "delete"  -> [from |-> {"active", "deleted"}, to |-> "deleted"]
      [] kind = "restore" -> [from |-> {"deleted"}, to |-> "active"]
      [] OTHER            -> [from |-> {"active", "deleted"}, to |-> "gone"]

\* Bound: the user keeps a household (the server would create one for him).
SetStatus(h, s) ==
    /\ status' = [status EXCEPT ![h] = s]
    /\ \E g \in Household : status'[g] = "active"
    /\ lost' = (lost \/ (active = h /\ s # "active"))

Apply ==
    /\ op.phase = "sent"
    /\ ~Refused(op.header)
    /\ status[op.hh] \in Outcome(op.kind).from
    /\ SetStatus(op.hh, Outcome(op.kind).to)
    /\ op' = [op EXCEPT !.phase = "applied"]
    /\ UNCHANGED <<shellVars, pageVars, fixedVars, mode, loaded, countVars>>

OpFail ==
    /\ op.phase = "sent"
    /\ \/ status[op.hh] \notin Outcome(op.kind).from /\ UNCHANGED countVars
       \/ Failing(op.header)
    /\ op' = NoOp
    /\ UNCHANGED <<status, shellVars, pageVars, fixedVars, lost, mode, loaded>>

\* onSuccess of the hook: the list is asked for again.
OpDone ==
    /\ op.phase = "applied"
    /\ op.kind # "create"
    /\ op' = NoOp
    /\ listReq' = Sent(header)
    /\ UNCHANGED <<status, gate, stored, active, header, list, dirty, pageVars,
                   fixedVars, lost, mode, loaded, countVars>>

\* Mutant: the cached list is left to its refetch.
WithCreatedLater(h) == list

\* onSuccess of useCreateHousehold puts the household into the cached list; the
\* caller's own onSuccess, if its component is still there, selects it.
WithCreated(h) ==
    [g \in Household |-> IF g = h THEN "active"
                         ELSE IF list = NoList THEN "unborn" ELSE list[g]]

CreateDone(called) ==
    /\ op.phase = "applied"
    /\ op.kind = "create"
    /\ op' = NoOp
    /\ list' = WithCreated(op.hh)
    /\ IF called
       THEN SetActive(op.hh)
       ELSE /\ listReq' = Sent(header)
            /\ dirty' = TRUE
            /\ UNCHANGED <<active, stored, header, pageVars, lost, mode>>
    /\ UNCHANGED <<status, gate, fixedVars, loaded, countVars>>

\* Other members and the purge worker: a household is deleted, restored, purged
\* or the user is removed from it.
OthersAct(h) ==
    /\ acts < MaxActs
    /\ acts' = acts + 1
    /\ \/ status[h] = "active"  /\ SetStatus(h, "deleted")
       \/ status[h] = "active"  /\ SetStatus(h, "gone")
       \/ status[h] = "deleted" /\ SetStatus(h, "active")
       \/ status[h] = "deleted" /\ SetStatus(h, "gone")
    /\ UNCHANGED <<shellVars, pageVars, fixedVars, op, mode, loaded, failed>>

-----------------------------------------------------------------------------
(* The page and its query.                                                  *)

Mount ==
    /\ Open
    /\ ~page.on
    /\ page' = [on |-> TRUE, key |-> QueryKey(header), due |-> FALSE]
    /\ \/ fetch' = Observe(fetch, QueryKey(header)) /\ acts' = acts
       \/ /\ fetch[QueryKey(header)] = Idle
          /\ acts < MaxActs
          /\ acts' = acts + 1
          /\ fetch' = [fetch EXCEPT ![QueryKey(header)] = header]
    /\ UNCHANGED <<status, shellVars, entry, fixedVars, op, lost, mode, loaded, failed>>

Unmount ==
    /\ page.on
    /\ page' = [page EXCEPT !.on = FALSE, !.due = FALSE]
    /\ UNCHANGED <<status, shellVars, entry, fetch, fixedVars, op, lost, mode, loaded,
                   countVars>>

\* The page renders: because its query has news, or because the user does
\* something on it.
PageRender ==
    /\ page.on
    /\ page' = [page EXCEPT !.key = QueryKey(header), !.due = FALSE]
    /\ fetch' = Rerender(fetch, QueryKey(header))
    /\ UNCHANGED <<status, shellVars, entry, fixedVars, op, lost, mode, loaded, countVars>>

PageRenderDue == page.due /\ PageRender

Watching(k) == page.on /\ page.key = k

PageLand(k) ==
    /\ fetch[k] # Idle
    /\ ~Refused(fetch[k])
    /\ entry' = [entry EXCEPT ![k] = [hh |-> Resolve(fetch[k]), valid |-> TRUE]]
    /\ fetch' = [fetch EXCEPT ![k] = Idle]
    /\ page' = [page EXCEPT !.due = @ \/ (Watching(k) /\ entry[k].hh # Resolve(fetch[k]))]
    /\ UNCHANGED <<status, shellVars, fixedVars, op, lost, mode, loaded, countVars>>

PageFail(k) ==
    /\ fetch[k] # Idle
    /\ Failing(fetch[k])
    /\ fetch' = [fetch EXCEPT ![k] = Idle]
    /\ page' = [page EXCEPT !.due = @ \/ (Watching(k) /\ entry[k].hh = NoHousehold)]
    /\ UNCHANGED <<status, shellVars, entry, fixedVars, op, lost, mode, loaded>>

-----------------------------------------------------------------------------
SessionNext ==
    \/ OpenGate \/ SignIn \/ Reload
    \/ ListAnswer \/ ListLand \/ ListFail
    \/ ProviderRender
    \/ \E h \in Household : Choose(h)
    \/ \E kind \in {"create", "delete", "restore", "leave"}, h \in Household : Begin(kind, h)
    \/ Apply \/ OpFail \/ OpDone
    \/ \E called \in BOOLEAN : CreateDone(called)
    \/ \E h \in Household : OthersAct(h)
    \/ Mount \/ Unmount \/ PageRender
    \/ \E k \in Key : PageLand(k) \/ PageFail(k)

\* Requests are answered, what is scheduled to render renders; the user owes
\* nothing, and no request has to fail.
SessionFairness ==
    /\ WF_sessionVars(OpenGate \/ SignIn)
    /\ WF_sessionVars(ListAnswer \/ ListLand \/ (Refused(listReq.header) /\ ListFail))
    /\ WF_sessionVars(ProviderRender)
    /\ WF_sessionVars(PageRenderDue)
    /\ \A k \in Key : WF_sessionVars(PageLand(k) \/ (Refused(fetch[k]) /\ PageFail(k)))
    /\ WF_sessionVars(Apply \/ OpFail \/ OpDone \/ CreateDone(TRUE) \/ CreateDone(FALSE))

SessionSafety == SessionInit /\ [][SessionNext]_sessionVars
SessionSpec == SessionSafety /\ SessionFairness

-----------------------------------------------------------------------------
(* Properties.                                                              *)

\* What the user sees of the watched query, and whose it is.
Shown == IF page.on THEN entry[page.key].hh ELSE NoHousehold

\* Once the user has chosen a household, nothing of another one is left or on
\* its way: every cache entry is empty or the chosen household's, whatever key
\* it is stored under, and every request in flight asks for it.  (The comment
\* in setActiveHousehold: "prevent data leakage and stale data flashing".)
NoLeak ==
    mode = "chosen" =>
        /\ header = active
        /\ \A k \in Key : /\ entry[k].hh \in {NoHousehold, active}
                          /\ fetch[k] \in {Idle, active}

\* The effect of the provider never takes a household away that the user has
\* selected and that has been his all the time since: neither an answer that
\* was read before it was created, nor an old list, reverts a selection.
NeverThrownOut ==
    [][ (loaded /\ active # NoHousehold /\ ~lost /\ ProviderRender) => active' = active ]_sessionVars

\* After a choice the page ends up with the data of the selected household, also
\* where its query was rendered, and is still stored, under another key.  A fall
\* back does not promise it: a request nobody watches any more survives its
\* refetch and lands the data of the household before as fresh.
SelectedIsShown ==
    []<>( \/ mode # "chosen" \/ ~page.on \/ active \notin Member
          \/ failed
          \/ Shown = active )
=============================================================================
