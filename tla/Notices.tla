------------------------------- MODULE Notices -------------------------------
(***************************************************************************)
(* The bell (NotificationDrawer) and the review of possible duplicates     *)
(* (DuplicateReviewModal).  AppLayout mounts the bell twice, one for wide  *)
(* and one for narrow windows: each keeps its own set of read notices and  *)
(* its own review, and both write their set to one place of localStorage.  *)
(*                                                                         *)
(* A notice is a group of duplicates, a suggested rule, or the word that   *)
(* receipts were linked; a consent that expires behaves as the latter.  A  *)
(* group is an overlap with an archive, which can be merged, or a repeated *)
(* purchase, which cannot.                                                 *)
(***************************************************************************)
EXTENDS Naturals

CONSTANT MaxGlances     \* bound: what the user does, requests that are lost

ASSUME NoticesAssumption == MaxGlances \in Nat

Bell == {"side", "top"}
Dup  == {"overlap", "repeat"}
Notice == Dup \cup {"rule", "receipts"}

\* The tabs and the notices behind them, by their severity.
InTab == [all |-> Notice, warnings |-> Dup, suggestions |-> {"rule"}, info |-> {"receipts"}]

Feed == {"list", "preview"}
Task == {"merge", "dismiss", "dismissAll"}

VARIABLES
    live, coming,   \* server: the notices there are, and those still to come
    cache, loaded,  \* the notifications and the preview of duplicates, and which have data
    request,        \* the request of each
    bell,           \* the bell the window shows
    opened, tab,    \* of each bell: its drawer is open, and at which tab
    readIds,        \* of each bell
    storage,        \* localStorage 'peng_read_notifications'
    making,         \* of each bell: createRuleMutation
    created,        \* of each bell: ruleCreationSuccess
    review,         \* of each bell: isDuplicateReviewOpen
    doing,          \* of each bell: the three mutations of its review
    used, crossed,  \* history: the bell used since the load; both were used
    ticked,         \* history: what was marked as read and has been listed since
    made,           \* history: how often the suggested rule was stored
    gone,           \* history: the groups a review has settled
    missed,         \* history: requests lost, left behind, or joined too late
    glances

feedVars   == <<cache, loaded, request>>
bellVars   == <<bell, opened, tab>>
readVars   == <<readIds, storage, ticked>>
ruleVars   == <<making, created, made>>
reviewVars == <<review, doing, gone>>
histVars   == <<used, crossed>>
noticesVars == <<live, coming, feedVars, bellVars, readVars, ruleVars, reviewVars,
                 histVars, missed, glances>>

NoAnswer == [phase |-> "none", val |-> {}]
Wanted   == [phase |-> "sent", val |-> {}]
NoTask   == [phase |-> "none", what |-> {}]

NoticesInit ==
    /\ coming \in {{}, {"overlap"}}
    /\ live = Notice \ coming
    /\ cache = [q \in Feed |-> {}]
    /\ loaded = {}
    /\ request = [q \in Feed |-> Wanted]
    /\ bell = "side"
    /\ opened = [b \in Bell |-> FALSE]
    /\ tab = [b \in Bell |-> "all"]
    /\ readIds = [b \in Bell |-> {}]
    /\ storage = {}
    /\ ticked = {}
    /\ making = [b \in Bell |-> "none"]
    /\ created = [b \in Bell |-> FALSE]
    /\ made = 0
    /\ review = [b \in Bell |-> FALSE]
    /\ doing = [b \in Bell |-> [k \in Task |-> NoTask]]
    /\ gone = {}
    /\ used = "none"
    /\ crossed = FALSE
    /\ missed = 0
    /\ glances = 0

Happening == glances < MaxGlances /\ glances' = glances + 1

-----------------------------------------------------------------------------
(* The two queries.  A bell observes both as long as the application is open. *)

Serves(q) == IF q = "list" THEN live ELSE live \cap Dup

FeedStep == UNCHANGED <<live, coming, bellVars, readIds, storage, ruleVars, reviewVars, histVars>>

\* refetchInterval of the notifications.
FeedPolled ==
    /\ request["list"] = NoAnswer
    /\ request' = [request EXCEPT !["list"] = Wanted]
    /\ FeedStep
    /\ UNCHANGED <<cache, loaded, ticked, missed, glances>>

FeedRead(q) ==
    /\ request[q].phase = "sent"
    /\ request' = [request EXCEPT ![q] = [phase |-> "read", val |-> Serves(q)]]
    /\ FeedStep
    /\ UNCHANGED <<cache, loaded, ticked, missed, glances>>

FeedLands(q) ==
    /\ request[q].phase = "read"
    /\ cache' = [cache EXCEPT ![q] = request[q].val]
    /\ loaded' = loaded \cup {q}
    /\ request' = [request EXCEPT ![q] = NoAnswer]
    /\ ticked' = IF q = "list" THEN ticked \cap request[q].val ELSE ticked
    /\ FeedStep
    /\ UNCHANGED <<missed, glances>>

FeedLost(q) ==
    /\ Happening
    /\ request[q] # NoAnswer
    /\ missed' = missed + 1
    /\ request' = [request EXCEPT ![q] = NoAnswer]
    /\ FeedStep
    /\ UNCHANGED <<cache, loaded, ticked>>

\* A sync brings a posting that looks like another one.
NoticeComes ==
    /\ \E n \in coming : live' = live \cup {n} /\ coming' = coming \ {n}
    /\ UNCHANGED <<feedVars, bellVars, readVars, ruleVars, reviewVars, histVars, missed, glances>>

\* Mutant: a request on its way is always joined.
AskAgainJoins(qs) ==
    /\ request' = [q \in Feed |-> IF q \in qs /\ request[q] = NoAnswer THEN Wanted ELSE request[q]]
    /\ missed' = missed

\* invalidateQueries and refetch drop a request on its way and send another; the
\* first one of all, which no data precede, they join.
AskAgain(qs) ==
    /\ request' = [q \in Feed |-> IF q \in qs /\ (q \in loaded \/ request[q] = NoAnswer)
                                  THEN Wanted ELSE request[q]]
    /\ missed' = IF \E q \in qs \ loaded : request[q].phase = "read" THEN missed + 1 ELSE missed

-----------------------------------------------------------------------------
(* The drawer.                                                              *)

Glance == Happening /\ UNCHANGED <<live, coming, feedVars, made, gone, missed>>

\* The review covers the drawer.
InDrawer == Glance /\ opened[bell] /\ ~review[bell] /\ UNCHANGED <<bell, created, review, doing>>

OpenDrawer ==
    /\ Glance /\ ~opened[bell] /\ ~review[bell]
    /\ opened' = [opened EXCEPT ![bell] = TRUE]
    /\ UNCHANGED <<bell, tab, readVars, making, created, review, doing, histVars>>

CloseDrawer ==
    /\ InDrawer
    /\ opened' = [opened EXCEPT ![bell] = FALSE]
    /\ UNCHANGED <<tab, readVars, making, histVars>>

\* The window is made wider or narrower: the other bell is as it was left.
Resize ==
    /\ Glance
    /\ bell' \in Bell \ {bell}
    /\ UNCHANGED <<opened, tab, readVars, making, created, review, doing, histVars>>

SetTab ==
    /\ InDrawer
    /\ cache["list"] # {}
    /\ \E t \in DOMAIN InTab \ {tab[bell]} : tab' = [tab EXCEPT ![bell] = t]
    /\ UNCHANGED <<opened, readVars, making, histVars>>

Unread(b) == cache["list"] \ readIds[b]
FilteredNotices(b) == cache["list"] \cap InTab[tab[b]]

Uses(b) == used' = b /\ crossed' = (crossed \/ used \notin {"none", b})

\* setReadIds and the effect that follows every change of a bell's set: it
\* overwrites what the other bell has written since the load.
SetReadIds(b, ids, new) ==
    /\ readIds' = [readIds EXCEPT ![b] = ids]
    /\ storage' = ids
    /\ ticked' = ticked \cup new
    /\ Uses(b)

MarkAsRead(b, n) == SetReadIds(b, readIds[b] \cup {n}, {n} \cap cache["list"])

\* The check beside a notice.
MarkNotice ==
    /\ InDrawer
    /\ \E n \in FilteredNotices(bell) \ readIds[bell] : MarkAsRead(bell, n)
    /\ UNCHANGED <<opened, tab, making>>

\* Mutant: what the tab shows is all that is read.
MarkAllOfTab ==
    /\ InDrawer
    /\ Unread(bell) # {}
    /\ SetReadIds(bell, FilteredNotices(bell), FilteredNotices(bell))
    /\ UNCHANGED <<opened, tab, making>>

\* The set is replaced: marks of notices that are no longer listed go.
MarkAllAsRead ==
    /\ InDrawer
    /\ Unread(bell) # {}
    /\ SetReadIds(bell, cache["list"], cache["list"])
    /\ UNCHANGED <<opened, tab, making>>

\* A suggestion leads nowhere; the other notices lead to their page.
ClickNotice ==
    /\ InDrawer
    /\ \E n \in FilteredNotices(bell) :
         /\ MarkAsRead(bell, n)
         /\ opened' = [opened EXCEPT ![bell] = n = "rule"]
    /\ UNCHANGED <<tab, making>>

-----------------------------------------------------------------------------
(* Accepting a suggested rule.                                              *)

\* Mutant: the button comes back once the request is answered.
CreateRuleAgain ==
    /\ InDrawer
    /\ "rule" \in FilteredNotices(bell)
    /\ making[bell] = "none"
    /\ making' = [making EXCEPT ![bell] = "sent"]
    /\ Uses(bell)
    /\ UNCHANGED <<opened, tab, readVars>>

CreateRule ==
    /\ InDrawer
    /\ "rule" \in FilteredNotices(bell)
    /\ making[bell] = "none" /\ ~created[bell]
    /\ making' = [making EXCEPT ![bell] = "sent"]
    /\ Uses(bell)
    /\ UNCHANGED <<opened, tab, readVars>>

\* With the rule there the pattern is no longer suggested.
RuleStored(b) ==
    /\ making[b] = "sent"
    /\ making' = [making EXCEPT ![b] = "stored"]
    /\ made' = made + 1
    /\ live' = live \ {"rule"}
    /\ UNCHANGED <<coming, feedVars, bellVars, readVars, created, reviewVars, histVars,
                   missed, glances>>

\* The hook does not name the notifications; handleCreateRule does.
RuleAnswered(b) ==
    /\ making[b] = "stored"
    /\ making' = [making EXCEPT ![b] = "none"]
    /\ created' = [created EXCEPT ![b] = TRUE]
    /\ MarkAsRead(b, "rule")
    /\ AskAgain({"list"})
    /\ UNCHANGED <<live, coming, cache, loaded, bellVars, made, reviewVars, glances>>

RuleLost(b) ==
    /\ Happening
    /\ making[b] # "none"
    /\ missed' = missed + 1
    /\ making' = [making EXCEPT ![b] = "none"]
    /\ UNCHANGED <<live, coming, feedVars, bellVars, readVars, created, made, reviewVars, histVars>>

-----------------------------------------------------------------------------
(* The review of duplicates.                                                *)

HasDuplicates == cache["preview"] # {} \/ cache["list"] \cap Dup # {}

OpenReview ==
    /\ Glance /\ opened[bell] /\ ~review[bell]
    /\ HasDuplicates
    /\ review' = [review EXCEPT ![bell] = TRUE]
    /\ UNCHANGED <<bellVars, readVars, making, created, doing, histVars>>

InReview == Glance /\ review[bell] /\ UNCHANGED <<bell, tab, readVars, making, created, histVars>>

CloseReview ==
    /\ InReview
    /\ review' = [review EXCEPT ![bell] = FALSE]
    /\ UNCHANGED <<opened, doing>>

\* From the review to the list of postings.
ViewInTransactions ==
    /\ InReview
    /\ review' = [review EXCEPT ![bell] = FALSE]
    /\ opened' = [opened EXCEPT ![bell] = FALSE]
    /\ UNCHANGED doing

\* Each button waits for its own mutation only.
Begins(k, groups) ==
    /\ InReview
    /\ doing[bell][k] = NoTask
    /\ doing' = [doing EXCEPT ![bell][k] = [phase |-> "sent", what |-> groups]]
    /\ UNCHANGED <<opened, review>>

ResolveOverlaps == "overlap" \in cache["preview"] /\ Begins("merge", {})

DismissGroup == \E g \in cache["preview"] : Begins("dismiss", {g})

DismissAllSameAccount == "repeat" \in cache["preview"] /\ Begins("dismissAll", {})

\* Merging and dismissing all concern the groups the server finds by then, seen
\* by the user or not.
Concerns(b, k) ==
    CASE k = "merge"      -> live \cap {"overlap"}
      [] k = "dismissAll" -> live \cap {"repeat"}
      [] k = "dismiss"    -> doing[b][k].what

ReviewStored(b, k) ==
    /\ doing[b][k].phase = "sent"
    /\ live' = live \ Concerns(b, k)
    /\ doing' = [doing EXCEPT ![b][k] = [phase |-> "stored", what |-> Concerns(b, k)]]
    /\ UNCHANGED <<coming, feedVars, bellVars, readVars, ruleVars, review, gone, histVars,
                   missed, glances>>

\* The callbacks run also when the review has been closed.
ReviewAnswered(b, k) ==
    /\ doing[b][k].phase = "stored"
    /\ gone' = gone \cup doing[b][k].what
    /\ doing' = [doing EXCEPT ![b][k] = NoTask]
    /\ AskAgain(Feed)
    /\ UNCHANGED <<live, coming, cache, loaded, bellVars, readVars, ruleVars, review, histVars, glances>>

ReviewLost(b, k) ==
    /\ Happening
    /\ doing[b][k] # NoTask
    /\ missed' = missed + 1
    /\ doing' = [doing EXCEPT ![b][k] = NoTask]
    /\ UNCHANGED <<live, coming, feedVars, bellVars, readVars, ruleVars, review, gone, histVars>>

\* The browser loads the application again: what is on its way is not waited for,
\* and was stored or never will be.
ReloadBells ==
    /\ cache' = [q \in Feed |-> {}]
    /\ loaded' = {}
    /\ request' = [q \in Feed |-> Wanted]
    /\ opened' = [b \in Bell |-> FALSE]
    /\ tab' = [b \in Bell |-> "all"]
    /\ readIds' = [b \in Bell |-> storage]
    /\ making' = [b \in Bell |-> "none"]
    /\ created' = [b \in Bell |-> FALSE]
    /\ review' = [b \in Bell |-> FALSE]
    /\ doing' = [b \in Bell |-> [k \in Task |-> NoTask]]
    /\ used' = "none"
    /\ missed' = IF making # [b \in Bell |-> "none"] \/ doing # doing' THEN missed + 1 ELSE missed
    /\ UNCHANGED <<live, coming, bell, storage, ticked, crossed, made, gone, glances>>

NoticesNext ==
    \/ FeedPolled \/ NoticeComes
    \/ \E q \in Feed : FeedRead(q) \/ FeedLands(q) \/ FeedLost(q)
    \/ OpenDrawer \/ CloseDrawer \/ Resize \/ SetTab
    \/ MarkNotice \/ MarkAllAsRead \/ ClickNotice
    \/ CreateRule \/ OpenReview \/ CloseReview \/ ViewInTransactions
    \/ ResolveOverlaps \/ DismissGroup \/ DismissAllSameAccount
    \/ \E b \in Bell : RuleStored(b) \/ RuleAnswered(b) \/ RuleLost(b)
    \/ \E b \in Bell, k \in Task : ReviewStored(b, k) \/ ReviewAnswered(b, k) \/ ReviewLost(b, k)
    \/ ReloadBells

NoticesSpec == NoticesInit /\ [][NoticesNext]_noticesVars

-----------------------------------------------------------------------------
(* Properties.                                                              *)

\* What has been marked as read, and is still listed, stays read over reloads, as
\* long as one bell is used: it is in what both are loaded from.
ReadStaysRead == crossed \/ ticked \subseteq storage

\* A suggested rule is stored once however the answers of the polling meet the
\* answer to its request, unless both bells were used or an answer was lost.
OneRuleEach == crossed \/ made <= 1 + missed

\* A group that was merged or dismissed is not shown any more, once what has been
\* asked for since has arrived, and no answer on its way brings it back.
GoneIsGone ==
    missed = 0 =>
        \A q \in Feed : \/ request[q].phase = "sent"
                        \/ request[q].phase = "none" /\ cache[q] \cap gone = {}
                        \/ request[q].phase = "read" /\ request[q].val \cap gone = {}
=============================================================================
