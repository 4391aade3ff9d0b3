---------------------------- MODULE Household ----------------------------
(* One household: who its members and owners are, its soft deletion, its    *)
(* restoration and the worker that purges it (household_service.py, the     *)
(* login of core/auth.py, worker.py).                                       *)
(*                                                                          *)
(* Endpoints run in the thread pool and the worker in the event loop.  A    *)
(* SELECT takes no lock, so a request is a step per statement it reads by,  *)
(* and a last step that writes; SQLite makes each write transaction atomic. *)
EXTENDS Naturals, FiniteSets

CONSTANTS
  Person,        \* users that signed in at least once
  Stub,          \* users an invitation makes for an address nobody has yet
  Claims,        \* stub -> the person whose address it turns out to be
  Founder,       \* the person that created the household
  Request,       \* requests that can be in flight at once
  None,          \* no user
  Window         \* clock ticks in which a deletion can be taken back (2 hours)

User == Person \cup Stub

ASSUME HouseholdAssumption ==
  /\ Person \cap Stub = {} /\ None \notin User
  /\ Founder \in Person
  /\ Claims \in [Stub -> Person]
  /\ Window \in Nat

VARIABLES
  exists,        \* the household row is there
  deleted,       \* its deleted_at is set
  age,           \* ticks since deleted_at, no more than Window + 1
  role,          \* user -> role of its membership, "none" without one
  stub,          \* stub -> "none", "pending", or "merged" into its person
  req,           \* request -> what it asks and how far it is
  purger         \* the worker: "asleep", or "picked" the household

vars == <<exists, deleted, age, role, stub, req, purger>>
household == <<exists, deleted, age>>

Role == {"member", "owner"}
Op == {"invite", "remove", "role", "delete", "restore"}

\* saw is the role of the target, as far as the session of the request read it.
Idle == [op |-> "none", target |-> None, to |-> "none", at |-> "idle", saw |-> "none"]

Owners == {u \in User : role[u] = "owner"}
Known(u) == u \in Stub => stub[u] = "pending"

Init ==
  /\ exists = TRUE
  /\ deleted = FALSE
  /\ age = 0
  /\ role = [u \in User |-> IF u = Founder THEN "owner" ELSE "none"]
  /\ stub = [s \in Stub |-> "none"]
  /\ req = [r \in Request |-> Idle]
  /\ purger = "asleep"

Go(r, at, saw) == req' = [req EXCEPT ![r].at = at, ![r].saw = saw]
Done(r) == req' = [req EXCEPT ![r] = Idle]

--------------------------------------------------------------------------
(* Requests *)

\* Members may leave; everything else takes an owner.
Allowed(op, actor, target) ==
  \/ role[actor] = "owner"
  \/ op = "remove" /\ target = actor /\ role[actor] = "member"

\* Faulty variant of Open: the role is not validated.
OpenAnyRole(r, op, actor, target, to) ==
  /\ req[r].at = "idle"
  /\ op = "role" /\ role[actor] = "owner"
  /\ req' = [req EXCEPT ![r] =
       [op |-> op, target |-> target, to |-> to, saw |-> "none", at |-> "target"]]
  /\ UNCHANGED <<household, role, stub, purger>>

\* A request opens with a query for the membership of the one who asks; where
\* that does not allow it, it ends there.  An invitation asks for no role, and
\* another role than these two is refused.
Open(r, op, actor, target, to) ==
  /\ req[r].at = "idle"
  /\ IF op = "role" THEN to \in Role ELSE to = "member"
  /\ op \in {"delete", "restore"} => target = actor
  /\ Allowed(op, actor, target)
  /\ req' = [req EXCEPT ![r] =
       [op |-> op, target |-> target, to |-> to,
        saw |-> IF op \in {"remove", "role"} /\ target = actor THEN role[actor] ELSE "none",
        at |-> CASE op = "invite" -> "user"
                 [] op \in {"remove", "role"} -> "target"
                 [] OTHER -> "household"]]
  /\ UNCHANGED <<household, role, stub, purger>>

\* invite_member: the user row of an unknown address is committed on its own.
\* The address of a merged stub is the address of its person by now.
InviteUser(r) ==
  LET u == req[r].target
  IN  /\ req[r].at = "user"
      /\ stub' = [s \in Stub |-> IF s = u /\ stub[s] = "none" THEN "pending" ELSE stub[s]]
      /\ req' = [req EXCEPT ![r].at = "member",
                            ![r].target = IF u \in Stub /\ stub[u] = "merged"
                                          THEN Claims[u] ELSE u]
      /\ UNCHANGED <<household, role, purger>>

InviteCheck(r) ==
  /\ req[r].at = "member"
  /\ IF role[req[r].target] = "none" THEN Go(r, "write", req[r].saw) ELSE Done(r)
  /\ UNCHANGED <<household, role, stub, purger>>

\* A row the session has read already is not read again: where the target is
\* the one who asks, its role is what the first query saw.
ReadTarget(r) ==
  LET q == req[r]
      saw == IF q.saw = "none" THEN role[q.target] ELSE q.saw
      guarded == saw = "owner" /\ (q.op = "remove" \/ q.to = "member")
  IN  /\ q.at = "target"
      /\ IF role[q.target] = "none" THEN Done(r)
         ELSE Go(r, IF guarded THEN "count" ELSE "write", saw)
      /\ UNCHANGED <<household, role, stub, purger>>

\* The last owner is neither removed nor demoted.
CountOwners(r) ==
  LET q == req[r]
      enough == IF q.op = "remove" THEN Cardinality(Owners) > 1
                ELSE Owners \ {q.target} # {}
  IN  /\ q.at = "count"
      /\ IF enough THEN Go(r, "write", q.saw) ELSE Done(r)
      /\ UNCHANGED <<household, role, stub, purger>>

\* delete_household and restore_household read the household row.
ReadHousehold(r) ==
  /\ req[r].at = "household"
  /\ IF exists /\ (req[r].op = "restore" => deleted /\ age <= Window)
       THEN Go(r, "write", req[r].saw)
       ELSE Done(r)
  /\ UNCHANGED <<household, role, stub, purger>>

\* Faulty variant of WriteInvite: no foreign key refuses the row.
WriteInviteUnchecked(r) ==
  /\ req[r].at = "write" /\ req[r].op = "invite"
  /\ role' = [role EXCEPT ![req[r].target] = IF @ = "none" THEN "member" ELSE @]
  /\ Done(r)
  /\ UNCHANGED <<household, stub, purger>>

\* The primary key and the foreign keys refuse a second row, a row without a
\* household and a row without a user; the request then ends with an error.
WriteInvite(r) ==
  LET u == req[r].target
  IN  /\ req[r].at = "write" /\ req[r].op = "invite"
      /\ role' = [role EXCEPT ![u] = IF @ = "none" /\ exists /\ Known(u) THEN "member" ELSE @]
      /\ Done(r)
      /\ UNCHANGED <<household, stub, purger>>

\* Deleting a row that is gone already passes with a warning.
WriteRemove(r) ==
  /\ req[r].at = "write" /\ req[r].op = "remove"
  /\ role' = [role EXCEPT ![req[r].target] = "none"]
  /\ Done(r)
  /\ UNCHANGED <<household, stub, purger>>

\* A role that equals the one read is not written; a row that is gone raises.
WriteRole(r) ==
  LET q == req[r]
  IN  /\ q.at = "write" /\ q.op = "role"
      /\ role' = [role EXCEPT ![q.target] = IF @ = "none" \/ q.saw = q.to THEN @ ELSE q.to]
      /\ Done(r)
      /\ UNCHANGED <<household, stub, purger>>

\* A household that is deleted already is deleted anew, from now on.
WriteDelete(r) ==
  /\ req[r].at = "write" /\ req[r].op = "delete"
  /\ IF exists THEN deleted' = TRUE /\ age' = 0 ELSE UNCHANGED <<deleted, age>>
  /\ Done(r)
  /\ UNCHANGED <<exists, role, stub, purger>>

WriteRestore(r) ==
  /\ req[r].at = "write" /\ req[r].op = "restore"
  /\ IF exists THEN deleted' = FALSE /\ age' = 0 ELSE UNCHANGED <<deleted, age>>
  /\ Done(r)
  /\ UNCHANGED <<exists, role, stub, purger>>

\* A person signs in with the address of a pending stub: the stub's membership
\* becomes the person's, or is dropped where the person has one.
Login(s) ==
  LET p == Claims[s]
  IN  /\ stub[s] = "pending"
      /\ stub' = [stub EXCEPT ![s] = "merged"]
      /\ role' = [role EXCEPT ![s] = "none", ![p] = IF @ = "none" THEN role[s] ELSE @]
      /\ UNCHANGED <<household, req, purger>>

--------------------------------------------------------------------------
(* The clock and the purge worker *)

Tick ==
  /\ deleted /\ age <= Window
  /\ age' = age + 1
  /\ UNCHANGED <<exists, deleted, role, stub, req, purger>>

\* Faulty variant of Pick: a tick is missing in the comparison.
PickLate ==
  /\ purger = "asleep"
  /\ exists /\ deleted /\ age > Window + 1
  /\ purger' = "picked"
  /\ UNCHANGED <<household, role, stub, req>>

Pick ==
  /\ purger = "asleep"
  /\ exists /\ deleted /\ age > Window
  /\ purger' = "picked"
  /\ UNCHANGED <<household, role, stub, req>>

\* Faulty variant of Purge: no refresh before the delete.
PurgeStale ==
  /\ purger = "picked"
  /\ exists' = FALSE
  /\ deleted' = FALSE
  /\ age' = 0
  /\ role' = [u \in User |-> "none"]
  /\ purger' = "asleep"
  /\ UNCHANGED <<stub, req>>

\* The first delete takes the write lock; the refresh under it sees whether the
\* household was restored, and then everything is rolled back.
Purge ==
  /\ purger = "picked"
  /\ purger' = "asleep"
  /\ IF deleted
       THEN /\ exists' = FALSE
            /\ deleted' = FALSE
            /\ age' = 0
            /\ role' = [u \in User |-> "none"]
       ELSE UNCHANGED <<household, role>>
  /\ UNCHANGED <<stub, req>>

\* A flush raises (the database is locked): rolled back, tried ten minutes later.
PurgeFails ==
  /\ purger = "picked"
  /\ purger' = "asleep"
  /\ UNCHANGED <<household, role, stub, req>>

--------------------------------------------------------------------------

Step(r) ==
  \/ InviteUser(r) \/ InviteCheck(r) \/ ReadTarget(r)
  \/ CountOwners(r) \/ ReadHousehold(r)
  \/ WriteInvite(r) \/ WriteRemove(r) \/ WriteRole(r) \/ WriteDelete(r) \/ WriteRestore(r)

Next ==
  \/ \E r \in Request, op \in Op, actor \in Person, target \in User, to \in Role \cup {"admin"} :
       Open(r, op, actor, target, to)
  \/ \E r \in Request : Step(r)
  \/ \E s \in Stub : Login(s)
  \/ Tick \/ Pick \/ Purge \/ PurgeFails

Spec == Init /\ [][Next]_vars

\* Time passes, the worker wakes up every ten minutes, and what makes a purge
\* fail (a writer that holds the lock for too long) does not last for ever.
FairSpec == Spec /\ WF_vars(Tick) /\ WF_vars(Pick) /\ SF_vars(Purge)

--------------------------------------------------------------------------
(* Properties *)

\* Every variable stays in its range.
TypeOK ==
  /\ exists \in BOOLEAN /\ deleted \in BOOLEAN
  /\ age \in 0 .. Window + 1
  /\ role \in [User -> Role \cup {"none"}]
  /\ stub \in [Stub -> {"none", "pending", "merged"}]
  /\ req \in [Request ->
       [op : Op \cup {"none"}, target : User \cup {None},
        to : Role \cup {"none"}, saw : Role \cup {"none"},
        at : {"idle", "user", "member", "target", "count", "household", "write"}]]
  /\ purger \in {"asleep", "picked"}

\* "household must have at least one owner": as long as the household has
\* members, one of them is an owner.
OwnerExists == (\E u \in User : role[u] # "none") => Owners # {}

\* A household that was restored is not purged, even where the restoration
\* commits between the worker's query and its first delete.
RestoredStays == [][exists /\ ~exists' => deleted]_vars

\* A purge takes every membership with it, and no invitation under way adds one
\* to a household that is gone or to a stub that was merged.
NoOrphanMembers ==
  /\ ~exists => \A u \in User : role[u] = "none"
  /\ \A s \in Stub : stub[s] = "merged" => role[s] = "none"

\* An expired deletion does not stay: the household is purged, unless it is
\* deleted anew or restored first.
Expired == exists /\ deleted /\ age > Window
ExpiredIsPurged == Expired ~> ~Expired
==========================================================================
