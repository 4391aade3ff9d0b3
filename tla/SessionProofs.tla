--------------------------- MODULE SessionProofs ---------------------------
(* The session of a user with any set of households: its types, that a      *)
(* choice leaves nothing of another household behind, and that the provider *)
(* never takes a selection away.                                            *)
EXTENDS Session, WellFoundedInduction, TLAPS

\* The household that is fallen back to is one of those listed.
LEMMA FirstIsOne ==
  ASSUME NEW S \in SUBSET Household, S # {}
  PROVE  First(S) \in S
<1> DEFINE T == {Rank[h] : h \in S}
<1>1. T \subseteq Nat /\ T # {}
  BY SessionAssumption
<1> HIDE DEF T
<1>2. PICK x \in T : \A y \in T : ~(<<y, x>> \in OpToRel(<, Nat))
  BY <1>1, NatLessThanWellFounded, WFMin
<1>3. x \in T /\ x \in Nat /\ \A y \in T : y \in Nat /\ ~(<<y, x>> \in OpToRel(<, Nat))
  BY <1>1, <1>2
<1>4. x \in Nat /\ \A y \in T : y \in Nat /\ ~(y < x)
  BY <1>3 DEF OpToRel
<1>5. PICK h \in S : Rank[h] = x
  <2>1. x \in T
    BY <1>3
  <2>2. QED
    BY <2>1 DEF T
<1>6. \A g \in S : Rank[g] \in T
  BY DEF T
<1>7. \A g \in S : Rank[h] <= Rank[g]
  <2> SUFFICES ASSUME NEW g \in S PROVE Rank[h] <= Rank[g]
    OBVIOUS
  <2>1. Rank[g] \in Nat /\ ~(Rank[g] < x)
    BY <1>4, <1>6
  <2>2. QED
    BY <1>4, <1>5, <2>1
<1>8. QED
  BY <1>7 DEF First

-----------------------------------------------------------------------------
(* Types.                                                                   *)

FetchType == [Key -> Key \cup {Idle}]
EntryType == [Key -> [hh: Key, valid: BOOLEAN]]
ReqType   == [phase: {"none", "sent", "answered"}, header: Key, val: Listing \cup {NoList}]
OpType    == [kind: {"none", "create", "delete", "restore", "leave"},
              hh: Key, header: Key, phase: {"none", "sent", "applied"}]

\* The user keeps a household.
Housed == \E h \in Household : status[h] = "active"

LEMMA SentType ==
  ASSUME NEW hdr \in Key
  PROVE  Sent(hdr) \in ReqType /\ Sent(hdr).phase = "sent"
  BY DEF Sent, ReqType

LEMMA EmptyType == AllEmpty \in EntryType /\ AllIdle \in FetchType
  BY DEF AllEmpty, AllIdle, EntryType, FetchType, Empty, Key

LEMMA FetchTypes ==
  ASSUME NEW f \in FetchType, NEW k \in Key, NEW hdr \in Key, header \in Key
  PROVE  Observe(f, k) \in FetchType /\ Rerender(f, k) \in FetchType /\ Refetch(f, k, hdr) \in FetchType
  BY DEF Observe, Rerender, Refetch, FetchType

LEMMA InitType == SessionInit => SessionTypeOK
<1> SUFFICES ASSUME SessionInit PROVE SessionTypeOK
  OBVIOUS
<1>1. status \in Listing
  BY DEF SessionInit, Listing, Status
<1>2. entry \in EntryType /\ fetch \in FetchType
  BY EmptyType DEF SessionInit
<1>3. stored \in Key /\ active \in Key /\ header \in Key
  BY DEF SessionInit, Key
<1>4. list = NoList /\ listReq = NoReq /\ op = NoOp
  BY DEF SessionInit
<1>5. NoReq \in ReqType /\ NoOp \in OpType
  BY DEF NoReq, NoOp, ReqType, OpType, Key
<1>6. page \in [on: BOOLEAN, key: Key, due: BOOLEAN]
  BY DEF SessionInit, Key
<1>7. gate \in {"loading", "out", "ready", "noToken"} /\ mode \in {"start", "chosen", "fallback"}
  BY DEF SessionInit
<1>8. keyed \in BOOLEAN /\ consumer \in BOOLEAN
  BY DEF SessionInit
<1>9. dirty \in BOOLEAN /\ lost \in BOOLEAN /\ loaded \in BOOLEAN /\ failed \in BOOLEAN
  BY DEF SessionInit
<1>10. acts \in 0..MaxActs
  BY SessionAssumption DEF SessionInit
<1>11. listReq.phase # "answered" /\ op.phase = "none"
  BY <1>4 DEF NoReq, NoOp
<1>12. QED
  BY <1>1, <1>2, <1>3, <1>4, <1>5, <1>6, <1>7, <1>8, <1>9, <1>10, <1>11
     DEF SessionTypeOK, EntryType, FetchType, ReqType, OpType

\* What a choice makes of the shell and the cache has its type.
LEMMA SetActiveType ==
  ASSUME SessionTypeOK, NEW h \in Household, SetActive(h)
  PROVE  /\ active' \in Key /\ stored' \in Key /\ header' \in Key
         /\ entry' \in EntryType /\ fetch' \in FetchType
         /\ page' \in [on: BOOLEAN, key: Key, due: BOOLEAN]
         /\ listReq' \in ReqType /\ listReq'.phase = "sent"
         /\ dirty' \in BOOLEAN /\ lost' \in BOOLEAN /\ mode' = "chosen"
<1>1. h \in Key /\ page.key \in Key /\ header \in Key
  BY DEF SessionTypeOK, Key
<1>2. Refetch(AllIdle, page.key, h) \in FetchType
  BY <1>1, EmptyType, FetchTypes
<1>3. Sent(h) \in ReqType /\ Sent(h).phase = "sent"
  BY <1>1, SentType
<1>4. page' \in [on: BOOLEAN, key: Key, due: BOOLEAN]
  BY DEF SetActive, SessionTypeOK
<1>5. QED
  BY <1>1, <1>2, <1>3, <1>4, EmptyType DEF SetActive

\* A request that fails is refused, or lost within the bound.
LEMMA FailingType ==
  ASSUME SessionTypeOK, NEW hdr, Failing(hdr)
  PROVE  acts' \in 0..MaxActs /\ failed' \in BOOLEAN
<1>1. acts \in 0..MaxActs /\ failed \in BOOLEAN /\ MaxActs \in Nat
  BY SessionAssumption DEF SessionTypeOK
<1>2. CASE UNCHANGED <<failed, acts>>
  BY <1>1, <1>2
<1>3. CASE acts < MaxActs /\ acts' = acts + 1 /\ failed' = TRUE
  BY <1>1, <1>3
<1>4. QED
  BY <1>2, <1>3 DEF Failing, countVars

LEMMA StepType == SessionTypeOK /\ Housed /\ [SessionNext]_sessionVars => SessionTypeOK'
<1> SUFFICES ASSUME SessionTypeOK, Housed, [SessionNext]_sessionVars PROVE SessionTypeOK'
  OBVIOUS
<1> USE DEF shellVars, pageVars, fixedVars, countVars, EntryType, FetchType, ReqType, OpType
<1>1. CASE OpenGate
  <2>1. gate' \in {"loading", "out", "ready", "noToken"}
    BY <1>1 DEF OpenGate
  <2>2. listReq' = listReq \/ listReq' = Sent(header)
    BY <1>1 DEF OpenGate
  <2>3. listReq' \in ReqType /\ (listReq'.phase = "answered" => listReq'.val \in Listing)
    BY <2>2, SentType DEF SessionTypeOK
  <2>4. acts' \in 0..MaxActs /\ failed' \in BOOLEAN
    <3>1. acts \in 0..MaxActs /\ failed \in BOOLEAN /\ MaxActs \in Nat
      BY SessionAssumption DEF SessionTypeOK
    <3>2. CASE UNCHANGED <<failed, acts>>
      BY <3>1, <3>2
    <3>3. CASE acts < MaxActs /\ acts' = acts + 1 /\ failed' = TRUE
      BY <3>1, <3>3
    <3>4. QED
      BY <1>1, <3>2, <3>3 DEF OpenGate
  <2>5. UNCHANGED <<status, stored, active, header, list, dirty, page, entry, fetch, keyed,
                    consumer, op, lost, mode, loaded>>
    BY <1>1 DEF OpenGate
  <2>6. QED
    BY <2>1, <2>3, <2>4, <2>5 DEF SessionTypeOK
<1>2. CASE SignIn
  BY <1>2 DEF SignIn, SessionTypeOK
<1>3. CASE Reload
  <2>1. NoReq \in ReqType /\ NoOp \in OpType /\ NoReq.phase = "none" /\ NoOp.phase = "none"
    BY DEF NoReq, NoOp, Key
  <2>2. /\ gate' = "loading" /\ mode' = "start" /\ list' = NoList /\ listReq' = NoReq
        /\ op' = NoOp /\ entry' = AllEmpty /\ fetch' = AllIdle
        /\ UNCHANGED <<status, stored, keyed, consumer>>
    BY <1>3 DEF Reload
  <2>3. active' \in Key /\ header' \in Key
    BY <1>3 DEF Reload, SessionTypeOK, Key
  <2>4. page' \in [on: BOOLEAN, key: Key, due: BOOLEAN]
    BY <1>3 DEF Reload, Key
  <2>5. lost' \in BOOLEAN /\ dirty' \in BOOLEAN /\ loaded' \in BOOLEAN /\ failed' \in BOOLEAN
    BY <1>3 DEF Reload
  <2>6. acts' \in 0..MaxActs
    BY <1>3, SessionAssumption DEF Reload, SessionTypeOK
  <2>7. QED
    BY <2>1, <2>2, <2>3, <2>4, <2>5, <2>6, EmptyType DEF SessionTypeOK
<1>4. CASE ListAnswer
  <2>1. listReq' \in ReqType /\ listReq'.val \in Listing
    BY <1>4 DEF ListAnswer, SessionTypeOK
  <2>2. UNCHANGED <<status, gate, stored, active, header, list, dirty, page, entry, fetch,
                    keyed, consumer, op, lost, mode, loaded, failed, acts>>
    BY <1>4 DEF ListAnswer
  <2>3. QED
    BY <2>1, <2>2 DEF SessionTypeOK
<1>5. CASE ListLand
  BY <1>5 DEF ListLand, SessionTypeOK, NoReq, Key
<1>6. CASE ListFail
  <2>1. listReq' \in ReqType /\ listReq'.phase = "none"
    BY <1>6 DEF ListFail, NoReq, Key
  <2>2. dirty' \in BOOLEAN
    BY <1>6 DEF ListFail, SessionTypeOK
  <2>3. acts' \in 0..MaxActs /\ failed' \in BOOLEAN
    BY <1>6, FailingType DEF ListFail
  <2>4. UNCHANGED <<status, gate, stored, active, header, list, page, entry, fetch,
                    keyed, consumer, op, lost, mode, loaded>>
    BY <1>6 DEF ListFail
  <2>5. QED
    BY <2>1, <2>2, <2>3, <2>4 DEF SessionTypeOK
<1>8. ASSUME NEW h \in Household, Choose(h) PROVE SessionTypeOK'
  BY <1>8, SetActiveType, SessionAssumption DEF Choose, SessionTypeOK
<1>9. ASSUME NEW kind \in {"create", "delete", "restore", "leave"}, NEW h \in Household,
             Begin(kind, h)
      PROVE  SessionTypeOK'
  BY <1>9, SessionAssumption DEF Begin, SessionTypeOK, Key
<1>11. CASE OpFail
  <2>1. op' \in OpType /\ op'.phase = "none"
    BY <1>11 DEF OpFail, NoOp, Key
  <2>2. acts' \in 0..MaxActs /\ failed' \in BOOLEAN
    BY <1>11, FailingType DEF OpFail, SessionTypeOK
  <2>3. UNCHANGED <<status, gate, stored, active, header, list, listReq, dirty, page, entry,
                    fetch, keyed, consumer, lost, mode, loaded>>
    BY <1>11 DEF OpFail
  <2>4. QED
    BY <2>1, <2>2, <2>3 DEF SessionTypeOK
<1>12. CASE OpDone
  BY <1>12, SentType DEF OpDone, SessionTypeOK, NoOp, Key
<1>16. CASE Unmount
  <2>1. page' \in [on: BOOLEAN, key: Key, due: BOOLEAN]
    BY <1>16 DEF Unmount, SessionTypeOK
  <2>2. UNCHANGED <<status, gate, stored, active, header, list, listReq, dirty, entry, fetch,
                    keyed, consumer, op, lost, mode, loaded, failed, acts>>
    BY <1>16 DEF Unmount
  <2>3. QED
    BY <2>1, <2>2 DEF SessionTypeOK
<1>7. CASE ProviderRender
  <2>1. RenderedKey \in Key /\ RenderedFetch \in FetchType
    BY FetchTypes DEF RenderedKey, RenderedFetch, QueryKey, SessionTypeOK, Key
  <2>2. \A h \in ActiveListed : h \in Key
    BY DEF ActiveListed, Key
  <2>3. ActiveListed # {} => First(ActiveListed) \in Key
    BY <2>2, FirstIsOne DEF ActiveListed
  <2>4. FallBack =>
          /\ active' \in Key /\ stored' \in Key /\ header' \in Key
          /\ fetch' \in FetchType /\ entry' \in EntryType /\ listReq' \in ReqType
          /\ listReq'.phase = "sent" /\ lost' \in BOOLEAN /\ dirty' \in BOOLEAN
          /\ mode' = "fallback"
    <3> SUFFICES ASSUME FallBack
                 PROVE  /\ active' \in Key /\ stored' \in Key /\ header' \in Key
                        /\ fetch' \in FetchType /\ entry' \in EntryType /\ listReq' \in ReqType
                        /\ listReq'.phase = "sent" /\ lost' \in BOOLEAN /\ dirty' \in BOOLEAN
                        /\ mode' = "fallback"
      OBVIOUS
    <3> DEFINE g == First(ActiveListed)
    <3>1. g \in Key
      BY <2>3 DEF FallBack
    <3>2. Refetch(RenderedFetch, RenderedKey, g) \in FetchType
      BY <2>1, <3>1, FetchTypes DEF SessionTypeOK
    <3>3. Sent(g) \in ReqType /\ Sent(g).phase = "sent"
      BY <3>1, SentType
    <3>4. entry' \in EntryType
      <4>1. ASSUME NEW k \in Key
            PROVE  [entry[k] EXCEPT !.valid = FALSE] \in [hh: Key, valid: BOOLEAN]
        <5>1. entry[k] \in [hh: Key, valid: BOOLEAN]
          BY DEF SessionTypeOK
        <5>2. QED
          BY <5>1
      <4>2. entry' = [k \in Key |-> [entry[k] EXCEPT !.valid = FALSE]]
        BY DEF FallBack
      <4>3. QED
        BY <4>1, <4>2
    <3>5. QED
      BY <3>1, <3>2, <3>3, <3>4 DEF FallBack
  <2>5. (Confirm \/ Drop \/ Rest) =>
          /\ active' \in Key /\ stored' \in Key /\ header' \in Key
          /\ fetch' \in FetchType /\ entry' \in EntryType /\ listReq' = listReq
          /\ lost' \in BOOLEAN /\ dirty' \in BOOLEAN /\ mode' \in {"start", mode}
    BY <2>1, <2>2 DEF Confirm, Drop, Rest, SessionTypeOK, Key
  <2>6. page' \in [on: BOOLEAN, key: Key, due: BOOLEAN]
    BY <1>7, <2>1 DEF ProviderRender, SessionTypeOK
  <2>7. UNCHANGED <<status, gate, list, keyed, consumer, op, loaded, failed, acts>>
    BY <1>7 DEF ProviderRender
  <2>8. FallBack \/ Confirm \/ Drop \/ Rest
    BY <1>7 DEF ProviderRender
  <2>9. QED
    BY <2>4, <2>5, <2>6, <2>7, <2>8 DEF SessionTypeOK
<1>10. CASE Apply
  BY <1>10 DEF Apply, SetStatus, Outcome, SessionTypeOK, Listing, Status
<1>13. ASSUME NEW called \in BOOLEAN, CreateDone(called) PROVE SessionTypeOK'
  <2>1. op.hh \in Household /\ NoOp \in OpType /\ NoOp.phase = "none"
    BY <1>13 DEF CreateDone, SessionTypeOK, NoOp, Key
  <2>2. WithCreated(op.hh) \in Listing
    BY DEF WithCreated, SessionTypeOK, Listing, Status
  <2>3. CASE called
    BY <1>13, <2>1, <2>2, <2>3, SetActiveType DEF CreateDone, SessionTypeOK
  <2>4. CASE ~called
    BY <1>13, <2>1, <2>2, <2>4, SentType DEF CreateDone, SessionTypeOK
  <2>5. QED
    BY <2>3, <2>4
<1>14. ASSUME NEW h \in Household, OthersAct(h) PROVE SessionTypeOK'
  <2>1. PICK s \in Status : SetStatus(h, s)
    BY <1>14 DEF OthersAct, Status
  <2>2. status' \in Listing
    BY <2>1 DEF SetStatus, SessionTypeOK, Listing
  <2>3. lost' \in BOOLEAN
    BY <2>1 DEF SetStatus, SessionTypeOK
  <2>4. acts' \in 0..MaxActs
    BY <1>14, SessionAssumption DEF OthersAct, SessionTypeOK
  <2>5. UNCHANGED <<gate, stored, active, header, list, listReq, dirty, page, entry, fetch,
                    keyed, consumer, op, mode, loaded, failed>>
    BY <1>14 DEF OthersAct
  <2>6. QED
    BY <2>2, <2>3, <2>4, <2>5 DEF SessionTypeOK
<1>15. CASE Mount
  <2>1. QueryKey(header) \in Key /\ header \in Key
    BY DEF QueryKey, SessionTypeOK, Key
  <2>2. fetch' \in FetchType
    <3>1. CASE fetch' = Observe(fetch, QueryKey(header))
      BY <3>1, <2>1, FetchTypes DEF SessionTypeOK
    <3>2. CASE fetch' = [fetch EXCEPT ![QueryKey(header)] = header]
      BY <3>2, <2>1 DEF SessionTypeOK
    <3>3. QED
      BY <1>15, <3>1, <3>2 DEF Mount
  <2>3. acts' \in 0..MaxActs
    BY <1>15, SessionAssumption DEF Mount, SessionTypeOK
  <2>4. page' \in [on: BOOLEAN, key: Key, due: BOOLEAN]
    BY <1>15, <2>1 DEF Mount
  <2>5. UNCHANGED <<status, gate, stored, active, header, list, listReq, dirty, entry,
                    keyed, consumer, op, lost, mode, loaded, failed>>
    BY <1>15 DEF Mount
  <2>6. QED
    BY <2>2, <2>3, <2>4, <2>5 DEF SessionTypeOK
<1>17. CASE PageRender
  <2>1. QueryKey(header) \in Key
    BY DEF QueryKey, SessionTypeOK, Key
  <2>2. fetch' \in FetchType
    BY <1>17, <2>1, FetchTypes DEF PageRender, SessionTypeOK
  <2>3. page' \in [on: BOOLEAN, key: Key, due: BOOLEAN]
    BY <1>17, <2>1 DEF PageRender, SessionTypeOK
  <2>4. UNCHANGED <<status, gate, stored, active, header, list, listReq, dirty, entry,
                    keyed, consumer, op, lost, mode, loaded, failed, acts>>
    BY <1>17 DEF PageRender
  <2>5. QED
    BY <2>2, <2>3, <2>4 DEF SessionTypeOK
<1>18. ASSUME NEW k \in Key, PageLand(k) PROVE SessionTypeOK'
  <2>1. Resolve(fetch[k]) \in Key
    BY <1>18, FirstIsOne DEF Housed, PageLand, Resolve, Member, SessionTypeOK, Key
  <2>2. entry' \in EntryType /\ fetch' \in FetchType
    BY <1>18, <2>1 DEF PageLand, SessionTypeOK
  <2>3. page' \in [on: BOOLEAN, key: Key, due: BOOLEAN]
    BY <1>18 DEF PageLand, SessionTypeOK
  <2>4. UNCHANGED <<status, gate, stored, active, header, list, listReq, dirty,
                    keyed, consumer, op, lost, mode, loaded, failed, acts>>
    BY <1>18 DEF PageLand
  <2>5. QED
    BY <2>2, <2>3, <2>4 DEF SessionTypeOK
<1>19. ASSUME NEW k \in Key, PageFail(k) PROVE SessionTypeOK'
  <2>1. fetch' \in FetchType
    BY <1>19 DEF PageFail, SessionTypeOK
  <2>2. page' \in [on: BOOLEAN, key: Key, due: BOOLEAN]
    BY <1>19 DEF PageFail, SessionTypeOK
  <2>3. acts' \in 0..MaxActs /\ failed' \in BOOLEAN
    BY <1>19, FailingType DEF PageFail
  <2>4. UNCHANGED <<status, gate, stored, active, header, list, listReq, dirty, entry,
                    keyed, consumer, op, lost, mode, loaded>>
    BY <1>19 DEF PageFail
  <2>5. QED
    BY <2>1, <2>2, <2>3, <2>4 DEF SessionTypeOK
<1>20. CASE UNCHANGED sessionVars
  BY <1>20 DEF sessionVars, SessionTypeOK
<1>21. QED
  BY <1>1, <1>2, <1>3, <1>4, <1>5, <1>6, <1>7, <1>8, <1>9, <1>10, <1>11, <1>12, <1>13, <1>14,
     <1>15, <1>16, <1>17, <1>18, <1>19, <1>20 DEF SessionNext

\* Nobody but SetStatus changes what the households are to the user.
LEMMA HousedStep == Housed /\ [SessionNext]_sessionVars => Housed'
<1> SUFFICES ASSUME Housed, [SessionNext]_sessionVars PROVE Housed'
  OBVIOUS
<1>1. CASE Apply
  BY <1>1 DEF Apply, SetStatus, Housed
<1>2. ASSUME NEW h \in Household, OthersAct(h) PROVE Housed'
  BY <1>2 DEF OthersAct, SetStatus, Housed
<1>3. CASE UNCHANGED status
  BY <1>3 DEF Housed
<1>4. UNCHANGED status \/ Apply \/ \E h \in Household : OthersAct(h)
  BY DEF SessionNext, sessionVars, OpenGate, SignIn, Reload, ListAnswer, ListLand, ListFail,
         ProviderRender, Choose, Begin, OpFail, OpDone, CreateDone, Mount, Unmount, PageRender,
         PageLand, PageFail
<1>5. QED
  BY <1>1, <1>2, <1>3, <1>4

\* Whatever happens, values stay in their sets (SessionTypeOK).
THEOREM SessionTypes == SessionSpec => []SessionTypeOK
<1>1. SessionInit => Housed
  BY DEF SessionInit, Housed
<1>2. QED
  BY <1>1, InitType, StepType, HousedStep, PTL DEF SessionSpec, SessionSafety

-----------------------------------------------------------------------------
(* A choice leaves nothing behind.                                          *)

\* After a choice all there is belongs to a household, the one selected.
LeakInv ==
    mode = "chosen" =>
        /\ active \in Household /\ header = active
        /\ \A k \in Key : entry[k].hh \in {NoHousehold, active} /\ fetch[k] \in {Idle, active}

\* New requests carry the header there is.
LEMMA LeakByHeader ==
  ASSUME LeakInv, UNCHANGED <<mode, active, header, entry>>,
         \A k \in Key : fetch'[k] \in {fetch[k], header, Idle}
  PROVE  LeakInv'
  BY DEF LeakInv

LEMMA LeakUnchanged ==
  ASSUME LeakInv, UNCHANGED <<mode, active, header, entry, fetch>>
  PROVE  LeakInv'
  BY DEF LeakInv

LEMMA FetchByHeader ==
  ASSUME SessionTypeOK, NEW j \in Key
  PROVE  /\ \A k \in Key : Observe(fetch, j)[k] \in {fetch[k], header}
         /\ \A k \in Key : Rerender(fetch, j)[k] \in {fetch[k], header}
  BY DEF Observe, Rerender, SessionTypeOK

\* The caches are emptied, and what is observed is asked for again.
LEMMA LeakChoice ==
  ASSUME SessionTypeOK, NEW h \in Household, SetActive(h)
  PROVE  LeakInv'
<1>1. active' = h /\ header' = h /\ entry' = AllEmpty /\ fetch' = Refetch(AllIdle, page.key, h)
  BY DEF SetActive
<1>2. \A k \in Key : entry'[k].hh = NoHousehold
  BY <1>1 DEF AllEmpty, Empty
<1>3. \A k \in Key : fetch'[k] \in {Idle, h}
  BY <1>1 DEF Refetch, AllIdle
<1>4. QED
  BY <1>1, <1>2, <1>3 DEF LeakInv

LEMMA StepLeak == SessionTypeOK /\ LeakInv /\ [SessionNext]_sessionVars => LeakInv'
<1> SUFFICES ASSUME SessionTypeOK, LeakInv, [SessionNext]_sessionVars PROVE LeakInv'
  OBVIOUS
<1> USE DEF shellVars, pageVars
<1>1. CASE OpenGate \/ SignIn \/ ListAnswer \/ ListLand \/ ListFail \/ Apply \/ OpFail \/ OpDone
           \/ Unmount \/ UNCHANGED sessionVars
  BY <1>1, LeakUnchanged
     DEF OpenGate, SignIn, ListAnswer, ListLand, ListFail, Apply, OpFail, OpDone, Unmount,
         sessionVars
<1>2. CASE Reload
  BY <1>2 DEF Reload, LeakInv
<1>3. CASE ProviderRender
  <2>1. RenderedKey \in Key
    BY DEF RenderedKey, QueryKey, SessionTypeOK, Key
  <2>2. \A k \in Key : RenderedFetch[k] \in {fetch[k], header}
    BY <2>1, FetchByHeader DEF RenderedFetch
  <2>3. CASE FallBack \/ Drop
    BY <2>3 DEF FallBack, Drop, LeakInv
  <2>4. CASE Confirm
    BY <2>2, <2>4 DEF Confirm, LeakInv
  <2>5. CASE Rest
    BY <2>2, <2>5, LeakByHeader DEF Rest
  <2>6. QED
    BY <1>3, <2>3, <2>4, <2>5 DEF ProviderRender
<1>4. ASSUME NEW h \in Household, Choose(h) \/ OthersAct(h) PROVE LeakInv'
  BY <1>4, LeakChoice, LeakUnchanged DEF Choose, OthersAct
<1>5. ASSUME NEW kind, NEW h \in Household, Begin(kind, h) PROVE LeakInv'
  BY <1>5, LeakUnchanged DEF Begin
<1>6. ASSUME NEW called \in BOOLEAN, CreateDone(called) PROVE LeakInv'
  <2>1. op.hh \in Household
    BY <1>6 DEF CreateDone, SessionTypeOK
  <2>2. QED
    BY <1>6, <2>1, LeakChoice, LeakUnchanged DEF CreateDone
<1>7. CASE Mount \/ PageRender
  <2>1. QueryKey(header) \in Key
    BY DEF QueryKey, SessionTypeOK, Key
  <2>2. \A k \in Key : fetch'[k] \in {fetch[k], header}
    BY <1>7, <2>1, FetchByHeader DEF Mount, PageRender, SessionTypeOK
  <2>3. UNCHANGED <<mode, active, header, entry>>
    BY <1>7 DEF Mount, PageRender
  <2>4. QED
    BY <2>2, <2>3, LeakByHeader
<1>8. ASSUME NEW k \in Key, PageLand(k) PROVE LeakInv'
  <2>1. UNCHANGED <<mode, active, header>>
    BY <1>8 DEF PageLand
  <2>2. mode = "chosen" => Resolve(fetch[k]) = active
    BY <1>8, SessionAssumption DEF PageLand, Resolve, LeakInv
  <2>3. \A j \in Key : fetch'[j] \in {fetch[j], Idle} /\ entry'[j].hh \in {entry[j].hh, Resolve(fetch[k])}
    BY <1>8 DEF PageLand, SessionTypeOK
  <2>4. QED
    BY <2>1, <2>2, <2>3 DEF LeakInv
<1>9. ASSUME NEW k \in Key, PageFail(k) PROVE LeakInv'
  <2>1. \A j \in Key : fetch'[j] \in {fetch[j], Idle}
    BY <1>9 DEF PageFail, SessionTypeOK
  <2>2. UNCHANGED <<mode, active, header, entry>>
    BY <1>9 DEF PageFail
  <2>3. QED
    BY <2>1, <2>2, LeakByHeader
<1>10. QED
  BY <1>1, <1>2, <1>3, <1>4, <1>5, <1>6, <1>7, <1>8, <1>9 DEF SessionNext

\* After the user has chosen a household, no cache entry and no request is
\* another household's (setActiveHousehold: "prevent data leakage").
THEOREM ChoiceLeavesNothing == SessionSpec => []NoLeak
<1>1. SessionInit => LeakInv
  BY DEF SessionInit, LeakInv
<1>2. LeakInv => NoLeak
  BY DEF LeakInv, NoLeak
<1>3. QED
  BY <1>1, <1>2, SessionTypes, StepLeak, PTL DEF SessionSpec, SessionSafety

-----------------------------------------------------------------------------
(* The provider takes no selection away.                                    *)

\* While the selected household has stayed the user's, every list the client
\* holds, or has been sent, has it among the active ones.
StayInv ==
    ~lost /\ active # NoHousehold =>
        /\ status[active] = "active"
        /\ listReq.phase = "answered" => listReq.val[active] = "active"
        /\ loaded => list # NoList /\ list[active] = "active"

LEMMA StayUnchanged ==
  ASSUME StayInv, UNCHANGED <<status, active, list, listReq, loaded>>, lost' = lost
  PROVE  StayInv'
  BY DEF StayInv

\* A new request for the list has no answer yet.
LEMMA StayAsks ==
  ASSUME StayInv, UNCHANGED <<status, active, list, loaded, lost>>,
         listReq'.phase # "answered"
  PROVE  StayInv'
  BY DEF StayInv

\* A change of the households marks a selection that has not stayed active.
LEMMA StayStatus ==
  ASSUME SessionTypeOK, StayInv, NEW h \in Household, NEW s, SetStatus(h, s),
         UNCHANGED <<active, list, listReq, loaded>>
  PROVE  StayInv'
<1> SUFFICES ASSUME ~lost', active # NoHousehold PROVE StayInv'
  BY DEF StayInv
<1>1. ~lost /\ (active = h => s = "active")
  BY DEF SetStatus
<1>2. active \in Household /\ status \in [Household -> Status]
  BY DEF SessionTypeOK, Key, Listing
<1>3. status'[active] = "active"
  BY <1>1, <1>2 DEF SetStatus, StayInv
<1>4. QED
  BY <1>1, <1>3 DEF StayInv

\* A selection from the list is in the list.
LEMMA StaySelects ==
  ASSUME NEW h, list' # NoList, list'[h] = "active", status' = status,
         active' = h, lost' = (status[h] # "active"), listReq'.phase # "answered"
  PROVE  StayInv'
  BY DEF StayInv

LEMMA StepStay == SessionTypeOK /\ StayInv /\ [SessionNext]_sessionVars => StayInv'
<1> SUFFICES ASSUME SessionTypeOK, StayInv, [SessionNext]_sessionVars PROVE StayInv'
  OBVIOUS
<1> USE DEF shellVars, pageVars
<1>1. CASE SignIn \/ Unmount \/ PageRender \/ Mount \/ OpFail \/ UNCHANGED sessionVars
  BY <1>1, StayUnchanged DEF SignIn, Unmount, PageRender, Mount, OpFail, sessionVars
<1>2. CASE OpenGate
  BY <1>2, SentType, StayAsks, StayUnchanged DEF OpenGate, SessionTypeOK
<1>3. CASE Reload
  BY <1>3 DEF Reload, StayInv, NoReq
<1>4. CASE ListAnswer
  BY <1>4 DEF ListAnswer, StayInv, SessionTypeOK
<1>5. CASE ListLand
  <2>1. listReq.val # NoList
    BY <1>5, NoListAssumption DEF ListLand, SessionTypeOK
  <2>2. QED
    BY <1>5, <2>1 DEF ListLand, StayInv, NoReq
<1>6. CASE ListFail \/ OpDone
  BY <1>6, SentType, StayAsks DEF ListFail, OpDone, NoReq, SessionTypeOK
<1>7. CASE ProviderRender
  <2>1. CASE FallBack
    <3>1. First(ActiveListed) \in ActiveListed
      BY <2>1, FirstIsOne DEF FallBack, ActiveListed
    <3>2. list # NoList /\ list[First(ActiveListed)] = "active"
      BY <3>1 DEF ActiveListed
    <3>3. listReq'.phase # "answered"
      BY <2>1 DEF FallBack, Sent
    <3>4. QED
      BY <1>7, <2>1, <3>2, <3>3, StaySelects DEF FallBack, ProviderRender
  <2>2. CASE Drop
    BY <2>2 DEF Drop, StayInv
  <2>3. CASE Confirm \/ Rest
    BY <1>7, <2>3, StayUnchanged DEF Confirm, Rest, ProviderRender
  <2>4. QED
    BY <1>7, <2>1, <2>2, <2>3 DEF ProviderRender
<1>8. ASSUME NEW h \in Household, Choose(h) PROVE StayInv'
  <2>1. list' = list /\ list # NoList /\ list[h] = "active" /\ status' = status
    BY <1>8 DEF Choose, ActiveListed
  <2>2. active' = h /\ lost' = (status[h] # "active") /\ listReq'.phase # "answered"
    BY <1>8 DEF Choose, SetActive, Sent
  <2>3. QED
    BY <2>1, <2>2, StaySelects
<1>9. ASSUME NEW kind, NEW h \in Household, Begin(kind, h) PROVE StayInv'
  BY <1>9, StayUnchanged DEF Begin
<1>10. CASE Apply
  <2>1. op.hh \in Household
    BY <1>10 DEF Apply, SessionTypeOK
  <2>2. QED
    BY <1>10, <2>1, StayStatus DEF Apply
<1>11. ASSUME NEW h \in Household, OthersAct(h) PROVE StayInv'
  BY <1>11, StayStatus DEF OthersAct
<1>12. ASSUME NEW called \in BOOLEAN, CreateDone(called) PROVE StayInv'
  <2>1. op.hh \in Household /\ list' = WithCreated(op.hh) /\ UNCHANGED <<status, loaded>>
    BY <1>12 DEF CreateDone, SessionTypeOK
  <2>2. list' \in Listing /\ list'[op.hh] = "active"
    BY <2>1 DEF WithCreated, SessionTypeOK, Listing, Status
  <2>3. list' # NoList
    BY <2>2, NoListAssumption
  <2>4. CASE called
    <3>1. active' = op.hh /\ lost' = (status[op.hh] # "active") /\ listReq'.phase # "answered"
      BY <1>12, <2>4 DEF CreateDone, SetActive, Sent
    <3>2. QED
      BY <2>1, <2>2, <2>3, <3>1, StaySelects
  <2>5. CASE ~called
    <3>1. UNCHANGED <<active, lost>> /\ listReq'.phase # "answered"
      BY <1>12, <2>5 DEF CreateDone, Sent
    <3>2. active \in Household /\ list # NoList /\ list[active] = "active"
             => list'[active] = "active"
      BY <2>1 DEF WithCreated
    <3>3. QED
      BY <2>1, <2>3, <3>1, <3>2 DEF StayInv, SessionTypeOK, Key
  <2>6. QED
    BY <2>4, <2>5
<1>13. ASSUME NEW k \in Key, PageLand(k) \/ PageFail(k) PROVE StayInv'
  BY <1>13, StayUnchanged DEF PageLand, PageFail
<1>14. QED
  BY <1>1, <1>2, <1>3, <1>4, <1>5, <1>6, <1>7, <1>8, <1>9, <1>10, <1>11, <1>12, <1>13
     DEF SessionNext

\* The effect of HouseholdProvider never reverts a selection that has stayed the
\* user's, whatever lists were on their way when it was made.
THEOREM SelectionIsKept == SessionSpec => NeverThrownOut
<1>1. SessionInit => StayInv
  BY DEF SessionInit, StayInv, NoReq
<1>2. SessionTypeOK /\ StayInv /\ [SessionNext]_sessionVars
        => [(loaded /\ active # NoHousehold /\ ~lost /\ ProviderRender) => active' = active]_sessionVars
  <2> SUFFICES ASSUME SessionTypeOK, StayInv, loaded, active # NoHousehold, ~lost, ProviderRender
               PROVE  active' = active
    OBVIOUS
  <2>1. active \in ActiveListed
    BY DEF ActiveListed, StayInv, SessionTypeOK, Key
  <2>2. ~FallBack /\ ~Drop
    BY <2>1 DEF FallBack, Drop
  <2>3. QED
    BY <2>2 DEF ProviderRender, Confirm, Rest
<1>3. QED
  BY <1>1, <1>2, SessionTypes, StepStay, PTL DEF SessionSpec, SessionSafety, NeverThrownOut
=============================================================================
