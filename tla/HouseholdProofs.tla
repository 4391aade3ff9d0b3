-------------------------- MODULE HouseholdProofs --------------------------
(* Theorems about Household for every set of persons, stubs and requests    *)
(* and every window of restoration.                                         *)
EXTENDS Household, TLAPS

\* TypeOK in two parts: the flags of the household row, and everything else.
Flags == exists \in BOOLEAN /\ deleted \in BOOLEAN

RequestState ==
  [op : Op \cup {"none"}, target : User \cup {None},
   to : Role \cup {"none"}, saw : Role \cup {"none"},
   at : {"idle", "user", "member", "target", "count", "household", "write"}]

Rows ==
  /\ age \in 0 .. Window + 1
  /\ role \in [User -> Role \cup {"none"}]
  /\ stub \in [Stub -> {"none", "pending", "merged"}]
  /\ purger \in {"asleep", "picked"}

\* A request under way is about a user, and carries a role where it needs one.
Directed(q) == q.at # "idle" => q.target \in User /\ q.op \in Op /\ q.to \in Role

Requests == req \in [Request -> RequestState] /\ \A r \in Request : Directed(req[r])

IInv == Flags /\ Rows /\ Requests /\ NoOrphanMembers

LEMMA TypeParts == Flags /\ Rows /\ Requests => TypeOK
  BY DEF TypeOK, Flags, Rows, Requests, RequestState

--------------------------------------------------------------------------
(* Types, and memberships without a household or a user *)

LEMMA InitIInv == Init => IInv
<1> SUFFICES ASSUME Init PROVE IInv
  OBVIOUS
<1>1. Flags
  BY Zenon DEF Init, Flags
<1>2. Rows /\ NoOrphanMembers
  BY HouseholdAssumption DEF Init, Rows, NoOrphanMembers, Role
<1>3. Idle \in RequestState /\ Directed(Idle)
  BY DEF Idle, RequestState, Directed
<1>4. Requests
  BY <1>3 DEF Init, Requests, Idle
<1>5. QED
  BY <1>1, <1>2, <1>4 DEF IInv

\* The row of the household carries flags after every step.
LEMMA StepFlags == Flags /\ [Next]_vars => Flags'
<1> SUFFICES ASSUME Flags, [Next]_vars PROVE Flags'
  OBVIOUS
<1>1. ASSUME NEW r \in Request, WriteDelete(r) PROVE Flags'
  BY <1>1, Zenon DEF WriteDelete, Flags
<1>2. ASSUME NEW r \in Request, WriteRestore(r) PROVE Flags'
  BY <1>2, Zenon DEF WriteRestore, Flags
<1>3. CASE Purge
  BY <1>3, Zenon DEF Purge, Flags, household
<1>4. CASE UNCHANGED <<exists, deleted>>
  BY <1>4, Zenon DEF Flags
<1>5. \/ UNCHANGED <<exists, deleted>> \/ Purge
      \/ \E r \in Request : WriteDelete(r) \/ WriteRestore(r)
  BY DEF Next, Step, Open, InviteUser, InviteCheck, ReadTarget, CountOwners, ReadHousehold,
     WriteInvite, WriteRemove, WriteRole, Login, Tick, Pick, PurgeFails, vars, household
<1>6. QED
  BY <1>1, <1>2, <1>3, <1>4, <1>5, Zenon

\* A request that moves to another well-formed state keeps them well-formed.
LEMMA RequestMoves ==
  ASSUME Requests, NEW r \in Request, NEW q \in RequestState, Directed(q),
         req' = [req EXCEPT ![r] = q]
  PROVE  Requests'
  BY DEF Requests, Directed

LEMMA RequestDone ==
  ASSUME Requests, NEW r \in Request, Done(r)
  PROVE  Requests'
<1>1. Idle \in RequestState /\ Directed(Idle)
  BY DEF Idle, RequestState, Directed
<1>2. QED
  BY <1>1, RequestMoves DEF Done

LEMMA RequestGoes ==
  ASSUME Requests, NEW r \in Request, req[r].at # "idle",
         NEW at \in {"target", "member", "count", "household", "write"},
         NEW saw \in Role \cup {"none"}, Go(r, at, saw)
  PROVE  Requests'
<1> DEFINE q == [req[r] EXCEPT !.at = at, !.saw = saw]
<1>1. q \in RequestState /\ Directed(q)
  BY DEF Requests, RequestState, Directed
<1>2. req' = [req EXCEPT ![r] = q]
  BY DEF Go
<1>3. QED
  BY <1>1, <1>2, RequestMoves

\* Every step keeps the requests well-formed.
LEMMA StepRequests == Rows /\ Requests /\ [Next]_vars => Requests'
<1> SUFFICES ASSUME Rows, Requests, [Next]_vars PROVE Requests'
  OBVIOUS
<1>1. ASSUME NEW r \in Request, NEW op \in Op, NEW actor \in Person, NEW target \in User,
             NEW to \in Role \cup {"admin"}, Open(r, op, actor, target, to)
      PROVE  Requests'
  <2>1. PICK saw \in Role \cup {"none"}, at \in {"user", "target", "household"} :
          req' = [req EXCEPT ![r] =
            [op |-> op, target |-> target, to |-> to, saw |-> saw, at |-> at]]
    <3>1. actor \in User
      BY DEF User
    <3>2. (IF op \in {"remove", "role"} /\ target = actor THEN role[actor] ELSE "none")
            \in Role \cup {"none"}
      BY <3>1 DEF Rows
    <3>3. QED
      BY <1>1, <3>2 DEF Open
  <2> DEFINE q == [op |-> op, target |-> target, to |-> to, saw |-> saw, at |-> at]
  <2>2. to \in Role
    BY <1>1 DEF Open, Role
  <2>3. q \in RequestState /\ Directed(q)
    BY <2>2 DEF RequestState, Directed
  <2>4. QED
    BY <2>1, <2>3, RequestMoves
<1>2. ASSUME NEW r \in Request, InviteUser(r) PROVE Requests'
  <2>1. PICK u \in User : req' = [req EXCEPT ![r].at = "member", ![r].target = u]
    <3>1. req[r].target \in User /\ \A s \in Stub : Claims[s] \in User
      BY <1>2, HouseholdAssumption DEF InviteUser, Requests, Directed, User
    <3>2. QED
      BY <1>2, <3>1 DEF InviteUser
  <2> DEFINE q == [req[r] EXCEPT !.at = "member", !.target = u]
  <2>2. req[r] \in RequestState /\ Directed(req[r]) /\ req[r].at = "user"
    BY <1>2 DEF InviteUser, Requests
  <2>3. q \in RequestState
    BY <2>2 DEF RequestState
  <2>4. Directed(q)
    BY <2>2 DEF Directed, RequestState
  <2>5. req' = [req EXCEPT ![r] = q]
    BY <2>1
  <2>6. QED
    BY <2>3, <2>4, <2>5, RequestMoves
<1>3. ASSUME NEW r \in Request, InviteCheck(r) PROVE Requests'
  BY <1>3, RequestGoes, RequestDone DEF InviteCheck, Requests, RequestState
<1>4. ASSUME NEW r \in Request, ReadTarget(r) PROVE Requests'
  <2>1. req[r].saw \in Role \cup {"none"} /\ role[req[r].target] \in Role \cup {"none"}
    BY <1>4 DEF ReadTarget, Rows, Requests, RequestState, Directed
  <2>2. PICK saw \in Role \cup {"none"}, at \in {"count", "write"} : Go(r, at, saw) \/ Done(r)
    BY <1>4, <2>1 DEF ReadTarget
  <2>3. QED
    BY <1>4, <2>2, RequestGoes, RequestDone DEF ReadTarget
<1>5. ASSUME NEW r \in Request, CountOwners(r) PROVE Requests'
  BY <1>5, RequestGoes, RequestDone DEF CountOwners, Requests, RequestState
<1>6. ASSUME NEW r \in Request, ReadHousehold(r) PROVE Requests'
  BY <1>6, RequestGoes, RequestDone DEF ReadHousehold, Requests, RequestState
<1>7. ASSUME NEW r \in Request, WriteInvite(r) \/ WriteRemove(r) \/ WriteRole(r)
                                \/ WriteDelete(r) \/ WriteRestore(r)
      PROVE  Requests'
  BY <1>7, RequestDone
  DEF WriteInvite, WriteRemove, WriteRole, WriteDelete, WriteRestore
<1>8. CASE UNCHANGED req
  BY <1>8 DEF Requests
<1>9. ASSUME NEW s \in Stub, Login(s) PROVE UNCHANGED req
  BY <1>9 DEF Login
<1>10. Tick \/ Pick \/ Purge \/ PurgeFails \/ UNCHANGED vars => UNCHANGED req
  BY DEF Tick, Pick, Purge, PurgeFails, vars
<1>11. QED
  BY <1>1, <1>2, <1>3, <1>4, <1>5, <1>6, <1>7, <1>8, <1>9, <1>10 DEF Next, Step

\* Every step keeps the types of the other rows, and the memberships tied to
\* their household and their user.
LEMMA StepRows ==
  Rows /\ Requests /\ NoOrphanMembers /\ [Next]_vars => Rows' /\ NoOrphanMembers'
<1> SUFFICES ASSUME Rows, Requests, NoOrphanMembers, [Next]_vars
             PROVE  Rows' /\ NoOrphanMembers'
  OBVIOUS
<1> USE HouseholdAssumption DEF Rows, NoOrphanMembers, User, household
<1>1. ASSUME NEW r \in Request, InviteUser(r) PROVE Rows' /\ NoOrphanMembers'
  BY <1>1 DEF InviteUser
<1>2. ASSUME NEW r \in Request, WriteInvite(r) PROVE Rows' /\ NoOrphanMembers'
  BY <1>2 DEF WriteInvite, Known, Role
<1>3. ASSUME NEW r \in Request, WriteRemove(r) PROVE Rows' /\ NoOrphanMembers'
  BY <1>3 DEF WriteRemove
<1>4. ASSUME NEW r \in Request, WriteRole(r) PROVE Rows' /\ NoOrphanMembers'
  <2>1. req[r].to \in Role \cup {"none"}
    BY DEF Requests, RequestState
  <2>2. QED
    BY <1>4, <2>1 DEF WriteRole
<1>5. ASSUME NEW r \in Request, WriteDelete(r) \/ WriteRestore(r) PROVE Rows' /\ NoOrphanMembers'
  <2>1. UNCHANGED <<exists, role, stub, purger>>
    BY <1>5 DEF WriteDelete, WriteRestore
  <2>2. age' \in 0 .. Window + 1
    BY <1>5 DEF WriteDelete, WriteRestore
  <2>3. QED
    BY <2>1, <2>2
<1>6. ASSUME NEW s \in Stub, Login(s) PROVE Rows' /\ NoOrphanMembers'
  BY <1>6 DEF Login
<1>7. ASSUME Tick PROVE Rows' /\ NoOrphanMembers'
  BY <1>7 DEF Tick
<1>8. ASSUME Purge PROVE Rows' /\ NoOrphanMembers'
  <2>1. CASE deleted
    BY <1>8, <2>1 DEF Purge
  <2>2. CASE ~deleted
    BY <1>8, <2>2 DEF Purge
  <2>3. QED
    BY <2>1, <2>2
<1>9. ASSUME Pick \/ PurgeFails PROVE Rows' /\ NoOrphanMembers'
  BY <1>9 DEF Pick, PurgeFails
<1>10. CASE UNCHANGED <<household, role, stub, purger>>
  BY <1>10
<1>11. ASSUME NEW r \in Request,
              InviteCheck(r) \/ ReadTarget(r) \/ CountOwners(r) \/ ReadHousehold(r)
       PROVE  UNCHANGED <<household, role, stub, purger>>
  BY <1>11 DEF InviteCheck, ReadTarget, CountOwners, ReadHousehold
<1>12. ASSUME NEW r \in Request, NEW op, NEW actor, NEW target, NEW to,
              Open(r, op, actor, target, to)
       PROVE  UNCHANGED <<household, role, stub, purger>>
  BY <1>12 DEF Open
<1>13. UNCHANGED vars => UNCHANGED <<household, role, stub, purger>>
  BY DEF vars
<1>14. QED
  BY <1>1, <1>2, <1>3, <1>4, <1>5, <1>6, <1>7, <1>8, <1>9, <1>10, <1>11, <1>12, <1>13
  DEF Next, Step

LEMMA StepIInv == IInv /\ [Next]_vars => IInv'
  BY StepFlags, StepRequests, StepRows DEF IInv

\* Rows and requests keep their types.
THEOREM TypeCorrect == Spec => []TypeOK
<1>1. IInv => TypeOK
  BY TypeParts DEF IInv
<1>2. QED
  BY InitIInv, StepIInv, <1>1, PTL DEF Spec

\* The foreign keys and the purge leave no membership without its household or
\* its user, whatever invitations, logins and purges cross each other.
THEOREM NoOrphansAlways == Spec => []NoOrphanMembers
<1>1. IInv => NoOrphanMembers
  BY DEF IInv
<1>2. QED
  BY InitIInv, StepIInv, <1>1, PTL DEF Spec

\* The refresh under the write lock is enough: only a deleted household goes.
THEOREM RestoredHouseholdStays == Spec => RestoredStays
<1>1. ASSUME [Next]_vars PROVE [exists /\ ~exists' => deleted]_vars
  BY <1>1 DEF Next, Step, Open, InviteUser, InviteCheck, ReadTarget, CountOwners,
     ReadHousehold, WriteInvite, WriteRemove, WriteRole, WriteDelete, WriteRestore,
     Login, Tick, Pick, Purge, PurgeFails, vars, household
<1>2. QED
  BY <1>1, PTL DEF Spec, RestoredStays

============================================================================
