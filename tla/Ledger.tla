----------------------------- MODULE Ledger ------------------------------
(* The postings of one household and their allocations: what the bank sync  *)
(* (_normalize_and_persist), the archive import (import_spiir_csv), the     *)
(* user's edits and the duplicate resolution of reconciliation_service do   *)
(* to them.                                                                 *)
(*                                                                          *)
(* SQLite serialises writers, and each handler below commits once (the bank *)
(* sync once per CommitEvery items), so an operation is one step.           *)
EXTENDS Integers, SequencesExt

CONSTANTS
  Posting,       \* ids of postings, of the bank and of the archive file
  Bank,          \* the ids that start with eb: (the others are archive rows)
  Statutory,     \* the ids whose text names a child benefit
  Account,       \* account uids
  Home,          \* id -> account its source reports it for
  SameBook,      \* pairs of accounts whose names say they are the same one
  Day,           \* id -> booking date
  Text,          \* id -> [ref, refs, method, payee] of its description, see TextMatch
  Reported,      \* id -> amounts its source may report for it
  Guess,         \* id -> category a rule, or the archive file, gives it
  Category,      \* categories
  Uncategorised, \* no category, or one of UNCATEGORIZED_SLUGS
  Mark,          \* what is put on an allocation: note, tag, document, flag
  Note,          \* the marks among these that are texts of the note
  Written,       \* id -> marks the archive file gives it
  Redated,       \* id -> custom date the archive file gives it, other than its day
  None,          \* no reference, no payment method, no payee, no posting
  CommitEvery,   \* items between two commits of a sync (100 in the code)
  MaxEdits       \* bound: edits by the user

NoDay == 0                       \* custom_date is not set

ASSUME LedgerAssumption ==
  /\ IsFiniteSet(Posting)
  /\ Bank \subseteq Posting /\ Statutory \subseteq Posting /\ None \notin Posting
  /\ Home \in [Posting -> Account]
  /\ SameBook \subseteq SUBSET Account
  /\ Day \in [Posting -> Nat \ {NoDay}]
  /\ Reported \in [Posting -> SUBSET Int]
  /\ \A p \in Posting \ Bank : \E n \in Reported[p] : Reported[p] = {n}
  /\ Guess \in [Posting -> Category \cup {Uncategorised}]
  /\ Note \subseteq Mark /\ Written \in [Posting -> SUBSET Mark]
  /\ Redated \in [Posting -> Nat]
  /\ \A p \in Bank : Written[p] = {} /\ Redated[p] = NoDay
  /\ CommitEvery \in Nat \ {0} /\ MaxEdits \in Nat

VARIABLES
  ledger,        \* the posting and allocation tables: [rows, at], see below
  account,       \* uids in the account table
  dismissed,     \* pairs in the dismissed_duplicate table
  edits          \* number of edits by the user so far

vars == <<ledger, account, dismissed, edits>>

\* A ledger d holds d.rows, the ids in the order of insertion, and d.at, the
\* rows: account, amount, custom date, excluded, and at least one allocation.
Live(d) == DOMAIN d.at

Allocation == [amount : Int, cat : Category \cup {Uncategorised}, marks : SUBSET Mark]

Insert(d, p, a) ==
  [rows |-> Append(d.rows, p),
   at   |-> [q \in Live(d) \cup {p} |->
               IF q # p THEN d.at[q]
               ELSE [acct |-> Home[p], amount |-> a, custom |-> Redated[p], excluded |-> FALSE,
                     allocs |-> <<[amount |-> a, cat |-> Guess[p], marks |-> Written[p]]>>]]]

\* Faulty variant of Drop: the row is deleted, its place in the table is not.
DropHalf(d, p) == [rows |-> d.rows, at |-> Restrict(d.at, Live(d) \ {p})]

Drop(d, p) == [rows |-> RemoveFirst(d.rows, p), at |-> Restrict(d.at, Live(d) \ {p})]

Init ==
  /\ ledger = [rows |-> <<>>, at |-> <<>>]
  /\ account = {a \in Account : \E p \in Bank : Home[p] = a}
  /\ dismissed = {}
  /\ edits = 0

--------------------------------------------------------------------------
(* Which postings are the same purchase *)

Effective(d, p) == IF d.at[p].custom # NoDay THEN d.at[p].custom ELSE Day[p]

SameAccount(d, p, q) == d.at[p].acct = d.at[q].acct

\* Across accounts a settlement may be up to two days late.
DatesMatch(d, p, q) ==
  LET custom(r) == {d.at[r].custom} \ {NoDay}
      days == Effective(d, p) - Effective(d, q)
  IN  \/ Day[p] = Day[q]
      \/ custom(p) \cap (custom(q) \cup {Day[q]}) # {}
      \/ Day[p] \in custom(q)
      \/ ~SameAccount(d, p, q) /\ days \in -2 .. 2

\* A description has a labelled reference number (ref), the numbers that occur
\* in it (refs), a payment method, and a payee: what is left of it without
\* prefixes, blanks and signs.  That is a single token, so two payees have a
\* word in common only if they are equal; a missing one is no obstacle.
Blank == [ref |-> None, refs |-> {}, method |-> None, payee |-> None]

TextMatch(d, p, q) ==
  LET s == Text[p]
      t == Text[q]
  IN  \/ Blank \in {s, t}
      \/ /\ None \notin {s.ref, t.ref} => s.ref = t.ref
         /\ SameAccount(d, p, q) =>
              /\ s.ref # None /\ t.ref = None => s.ref \in t.refs
              /\ t.ref # None /\ s.ref = None => t.ref \in s.refs
              /\ None \notin {s.method, t.method} => s.method = t.method
         /\ None \notin {s.payee, t.payee} => s.payee = t.payee

DuplicateAccounts(a, b, allowSame) == IF a = b THEN allowSame ELSE {a, b} \in SameBook

Candidates(d, p, allowSame) ==
  {q \in Live(d) \ {p} :
     /\ d.at[q].amount = d.at[p].amount
     /\ d.at[p].amount # 0
     /\ DatesMatch(d, p, q)
     /\ DuplicateAccounts(d.at[p].acct, d.at[q].acct, allowSame)
     /\ TextMatch(d, p, q)}

\* The query has no ORDER BY: SQLite returns rows in the order of insertion.
FindCandidate(d, p, allowSame) ==
  LET S == Candidates(d, p, allowSame)
  IN  IF S = {} THEN None
      ELSE d.rows[SelectInSeq(d.rows, LAMBDA q : q \in S)]

--------------------------------------------------------------------------
(* consolidate_posting_pair: what r carries goes to k, and r is deleted *)

\* Notes are joined, tags and documents are linked anew, a flag is raised.  The
\* links to an item cluster and to a recurring transaction are no marks here:
\* they are dropped.  The link to a receipt is a row of another database, which
\* keeps the removed id.
Absorb(a, b) ==
  [a EXCEPT !.cat = IF a.cat = Uncategorised THEN b.cat ELSE a.cat,
            !.marks = @ \cup b.marks]

\* Faulty variants of Merged: kept allocations are not deleted when the other
\* posting is split; a note and an exclusion are not carried over.
MergedTwice(K, R) ==
  [K EXCEPT !.custom = IF K.custom = NoDay THEN R.custom ELSE K.custom,
            !.excluded = K.excluded \/ R.excluded,
            !.allocs = IF Len(R.allocs) > 1 THEN K.allocs \o R.allocs
                       ELSE <<Absorb(Head(K.allocs), Head(R.allocs))>> \o Tail(K.allocs)]
MergedBare(K, R) ==
  [K EXCEPT !.custom = IF K.custom = NoDay THEN R.custom ELSE K.custom,
            !.allocs = IF Len(R.allocs) > 1 THEN R.allocs ELSE K.allocs]

Merged(K, R) ==
  [K EXCEPT !.custom = IF K.custom = NoDay THEN R.custom ELSE K.custom,
            !.excluded = K.excluded \/ R.excluded,
            !.allocs = IF Len(R.allocs) > 1 THEN R.allocs
                       ELSE <<Absorb(Head(K.allocs), Head(R.allocs))>> \o Tail(K.allocs)]

Consolidate(d, k, r) ==
  IF {k, r} \subseteq Live(d)
    THEN Drop([d EXCEPT !.at[k] = Merged(d.at[k], d.at[r])], r)
    ELSE d

--------------------------------------------------------------------------
(* The bank sync of one account *)

\* The bank's posting wins over the archive's; otherwise the new one wins.
ReconcileOne(d, p) ==
  IF p \notin Live(d) THEN d
  ELSE LET q == FindCandidate(d, p, FALSE)
       IN  IF q = None THEN d
           ELSE IF p \notin Bank /\ q \in Bank THEN Consolidate(d, q, p)
           ELSE Consolidate(d, p, q)

Reconcile(d, incoming) == FoldLeft(ReconcileOne, d, incoming)

\* Items are stored one by one.  One that raises rolls back to the last commit;
\* the ids of the new postings are remembered all the same.
Store(feed, amount, bad, s, i) ==
  LET p == feed[i]
      stored == Insert(s.db, p, amount[p])
  IN  IF p \in bad THEN [s EXCEPT !.db = s.saved]
      ELSE IF p \in Live(s.db) THEN [s EXCEPT !.db.at[p].amount = amount[p]]
      ELSE [db    |-> stored,
            saved |-> IF i % CommitEvery = 0 THEN stored ELSE s.saved,
            new   |-> Append(s.new, p)]

Stored(d, feed, amount, bad) ==
  FoldLeftDomain(LAMBDA s, i : Store(feed, amount, bad, s, i),
                 [db |-> d, saved |-> d, new |-> <<>>], feed)

Ingest(d, feed, amount, bad) ==
  LET end == Stored(d, feed, amount, bad) IN Reconcile(end.db, end.new)

Amounts(S) == {f \in [S -> UNION {Reported[p] : p \in S}] : \A p \in S : f[p] \in Reported[p]}

\* One account of one retrieval: the bank reports some of its transactions, in
\* some order, and some of them cannot be stored.
SyncAccount(a) ==
  /\ a \in account
  /\ \E S \in SUBSET {p \in Bank : Home[p] = a} :
       \E feed \in SetToSeqs(S), amount \in Amounts(S), bad \in SUBSET S :
         ledger' = Ingest(ledger, feed, amount, bad)
  /\ UNCHANGED <<account, dismissed, edits>>

--------------------------------------------------------------------------
(* The archive import *)

\* A note in the file replaces the old one; tags and flags are added.
Overwritten(old, new) == new \cup IF new \cap Note = {} THEN old ELSE old \ Note

\* What a row of the archive file writes to a posting that is there already.
Handed(K, p) ==
  [K EXCEPT !.custom = IF Redated[p] = NoDay THEN @ ELSE Redated[p],
            !.allocs[1].cat = IF Guess[p] = Uncategorised THEN @ ELSE Guess[p],
            !.allocs[1].marks = Overwritten(@, Written[p])]

\* A row writes to all postings of its day and amount, in any account; where
\* there are none it becomes a posting of the archive account.
ImportRow(d, p, a) ==
  LET met == {q \in Live(d) : Day[q] = Day[p] /\ d.at[q].amount = a}
  IN  IF met = {} THEN Insert(d, p, a)
      ELSE [d EXCEPT !.at = [q \in Live(d) |->
              IF q \in met THEN Handed(d.at[q], p) ELSE d.at[q]]]

Imported(file, amount, base) ==
  FoldLeft(LAMBDA d, p : ImportRow(d, p, amount[p]), base, file)

Import ==
  \E S \in SUBSET (Posting \ Bank) :
    \E file \in SetToSeqs(S), amount \in Amounts(S) :
      LET after == Imported(file, amount, ledger)
      IN  /\ ledger' = after
          /\ account' = account \cup {Home[p] : p \in S \cap (Live(after) \ Live(ledger))}
          /\ UNCHANGED <<dismissed, edits>>

--------------------------------------------------------------------------
(* The user *)

\* update_transactions and update_transaction_category: any of the fields of a
\* posting; category and marks are those of its first allocation.
Edited(row, cat, marks, excluded, custom) ==
  [row EXCEPT !.allocs[1].cat = cat,
              !.allocs[1].marks = marks,
              !.excluded = excluded,
              !.custom = custom]

Edit(p, cat, marks, excluded, custom) ==
  /\ edits < MaxEdits
  /\ p \in Live(ledger)
  /\ ledger' = [ledger EXCEPT !.at[p] = Edited(@, cat, marks, excluded, custom)]
  /\ edits' = edits + 1
  /\ UNCHANGED <<account, dismissed>>

Total(allocs) == FoldLeft(LAMBDA n, a : n + a.amount, 0, allocs)

Split(p, parts) ==
  /\ edits < MaxEdits
  /\ p \in Live(ledger)
  /\ parts # <<>>
  /\ Total(parts) = ledger.at[p].amount
  /\ ledger' = [ledger EXCEPT !.at[p].allocs = parts]
  /\ edits' = edits + 1
  /\ UNCHANGED <<account, dismissed>>

--------------------------------------------------------------------------
(* Duplicates: merge_accounts, the preview, dismiss and resolve *)

Moved(d, src, tgt) ==
  [d EXCEPT !.at = [p \in Live(d) |->
     IF d.at[p].acct = src THEN [d.at[p] EXCEPT !.acct = tgt] ELSE d.at[p]]]

Key(d, p) == <<Effective(d, p), d.at[p].amount, Text[p].payee>>

\* A posting that repeats a key gives way to the first candidate the table
\* holds, wherever that one is.
GiveWay(s, p) ==
  LET key == Key(s.db, p)
      q == FindCandidate(s.db, p, TRUE)
  IN  IF key \notin s.keys THEN [s EXCEPT !.keys = @ \cup {key}]
      ELSE IF q = None THEN s
      ELSE [s EXCEPT !.db = Consolidate(s.db, q, p)]

\* The postings of an account, as long as they are there, in the table's order.
Check(tgt, s, p) ==
  IF p \in Live(s.db) /\ s.db.at[p].acct = tgt THEN GiveWay(s, p) ELSE s

Sweep(d, tgt) == FoldLeft(LAMBDA s, p : Check(tgt, s, p), [db |-> d, keys |-> {}], d.rows)

\* (Deleting an account that still has postings raises: src is not tgt.)
Merge(src, tgt) ==
  /\ {src, tgt} \subseteq account /\ src # tgt
  /\ ledger' = Sweep(Moved(ledger, src, tgt), tgt).db
  /\ account' = account \ {src}
  /\ UNCHANGED <<dismissed, edits>>

Similar(d, p, q) ==
  /\ d.at[p].amount = d.at[q].amount
  /\ DatesMatch(d, p, q)
  /\ TextMatch(d, p, q)

\* Expenses, the latest first.
Expenses(d) == {p \in Live(d) : d.at[p].amount < 0 /\ p \notin Statutory}

Before(d, p, q) ==
  LET row(x) == SelectInSeq(d.rows, LAMBDA y : y = x)
  IN  \/ Effective(d, p) > Effective(d, q)
      \/ Effective(d, p) = Effective(d, q) /\ row(p) < row(q)

Listing(d) ==
  [i \in 1 .. Cardinality(Expenses(d)) |->
     CHOOSE p \in Expenses(d) : Cardinality({q \in Expenses(d) : Before(d, q, p)}) = i - 1]

\* A posting gathers the later ones that are similar to one gathered before.
Joined(d, used, g, q) ==
  IF q \notin used /\ \E m \in ToSet(g) : Similar(d, m, q) THEN Append(g, q) ELSE g

GroupFrom(d, list, i, used) ==
  FoldLeft(LAMBDA g, q : Joined(d, used, g, q), <<list[i]>>, SubSeq(list, i + 1, Len(list)))

\* Faulty variant of Gather: what the user dismissed is not left out.
GatherAll(d, no, list, s, i) ==
  LET g == GroupFrom(d, list, i, s.used)
  IN  IF list[i] \in s.used \/ Len(g) < 2 THEN s
      ELSE [used |-> s.used \cup ToSet(g), groups |-> Append(s.groups, g)]

\* Greedy groups; one whose pairs are all dismissed is left out.
Gather(d, no, list, s, i) ==
  LET g == GroupFrom(d, list, i, s.used)
  IN  IF list[i] \in s.used \/ Len(g) < 2 THEN s
      ELSE [used   |-> s.used \cup ToSet(g),
            groups |-> IF kSubset(2, ToSet(g)) \subseteq no THEN s.groups
                       ELSE Append(s.groups, g)]

Gathered(d, no, list) ==
  FoldLeftDomain(LAMBDA s, i : Gather(d, no, list, s, i), [used |-> {}, groups |-> <<>>], list)

Groups(d, no) == Gathered(d, no, Listing(d)).groups

\* Faulty variant of CanAutoMerge: two postings of one account count as well.
CanAutoMergeSame(d, g) == Len(g) = 2

CanAutoMerge(d, g) ==
  /\ Len(g) = 2
  /\ DuplicateAccounts(d.at[g[1]].acct, d.at[g[2]].acct, FALSE)

Dismiss(S) ==
  /\ edits < MaxEdits
  /\ S \subseteq Live(ledger)
  /\ dismissed' = dismissed \cup kSubset(2, S)
  /\ edits' = edits + 1
  /\ UNCHANGED <<ledger, account>>

DismissAllSameAccount ==
  /\ dismissed' = dismissed \cup
       UNION {kSubset(2, ToSet(g)) :
              g \in {h \in ToSet(Groups(ledger, dismissed)) : ~CanAutoMerge(ledger, h)}}
  /\ UNCHANGED <<ledger, account, edits>>

\* What can be merged is decided on the table as it was read.
Resolve(read, d, g) ==
  IF ~CanAutoMerge(read, g) THEN d
  ELSE IF g[2] \in Bank /\ g[1] \notin Bank THEN Consolidate(d, g[2], g[1])
  ELSE Consolidate(d, g[1], g[2])

Resolved(read, groups) == FoldLeft(LAMBDA d, g : Resolve(read, d, g), read, groups)

ResolveAll ==
  /\ ledger' = Resolved(ledger, Groups(ledger, dismissed))
  /\ UNCHANGED <<account, dismissed, edits>>

--------------------------------------------------------------------------

\* The splits a user may ask for: an amount in two parts, or back in one.
Parts(n) ==
  {<<[amount |-> n, cat |-> c, marks |-> {}]>> : c \in Category} \cup
  {<<[amount |-> n + 1, cat |-> c, marks |-> m],
     [amount |-> e, cat |-> Uncategorised, marks |-> {}]>> :
       c \in Category, m \in SUBSET Mark, e \in {-1, 0}}

Next ==
  \/ \E a \in Account : SyncAccount(a)
  \/ Import
  \/ \E p \in Live(ledger) :
       \/ \E cat \in Category \cup {Uncategorised}, marks \in SUBSET Mark,
             excluded \in BOOLEAN, custom \in {NoDay} \cup {Day[q] : q \in Posting} :
            Edit(p, cat, marks, excluded, custom)
       \/ \E parts \in Parts(ledger.at[p].amount) : Split(p, parts)
  \/ \E src, tgt \in Account : Merge(src, tgt)
  \/ \E S \in kSubset(2, Live(ledger)) : Dismiss(S)
  \/ DismissAllSameAccount
  \/ ResolveAll

Spec == Init /\ [][Next]_vars

--------------------------------------------------------------------------
(* Properties *)

\* Rows are well formed, every posting belongs to an existing account, and a
\* transaction has one row only.
TypeOK ==
  /\ Live(ledger) \subseteq Posting
  /\ ToSet(ledger.rows) = Live(ledger) /\ Len(ledger.rows) = Cardinality(Live(ledger))
  /\ \A p \in Live(ledger) :
       /\ ledger.at[p].acct \in account
       /\ ledger.at[p].amount \in Int
       /\ ledger.at[p].custom \in Nat
       /\ ledger.at[p].excluded \in BOOLEAN
       /\ ledger.at[p].allocs \in Seq(Allocation)
  /\ account \subseteq Account
  /\ dismissed \subseteq kSubset(2, Posting)
  /\ edits \in 0 .. MaxEdits

\* "Each posting has at least one allocation [...] whose amount_minor values
\* must sum to the parent posting's amount_minor": through imports, syncs,
\* splits and any chain of consolidations.
SumsMatch ==
  \A p \in Live(ledger) :
    /\ ledger.at[p].allocs # <<>>
    /\ Total(ledger.at[p].allocs) = ledger.at[p].amount

MarksOf(row) == UNION {a.marks : a \in ToSet(row.allocs)}

\* A row that disappears lives on in another one of the same amount, with every
\* note, tag, document, flag and exclusion it had.  The exception the code makes:
\* the allocations of a split posting replace those of the kept one, and with
\* them what was noted there.  A linked receipt does not follow.
Gone == Live(ledger) \ Live(ledger')
SplitGone == \E p \in Gone : Len(ledger.at[p].allocs) > 1
RemovedLivesOn ==
  [][\A p \in Gone :
       \E q \in Live(ledger') :
         /\ ledger'.at[q].amount = ledger.at[p].amount
         /\ MarksOf(ledger.at[p]) \subseteq MarksOf(ledger'.at[q]) \/ SplitGone
         /\ ledger.at[p].excluded => ledger'.at[q].excluded]_vars

\* But for a merge of accounts, a row of the bank goes only where another one of
\* the bank has its amount, in another account that bears the same name: it
\* never gives way to an archive row or to a repeat in its own account.
BankPostingsStay ==
  [][account \subseteq account' =>
       \A p \in Gone \cap Bank :
         \E q \in Bank \cap Live(ledger') :
           /\ ledger'.at[q].amount = ledger.at[p].amount
           /\ ledger'.at[q].acct # ledger.at[p].acct
           /\ {ledger'.at[q].acct, ledger.at[p].acct} \in SameBook]_vars

\* "Mark a set of postings as NOT being duplicates of each other": a posting goes
\* only where one of its amount remains that it was not so marked against.
StandsIn(p) ==
  \E q \in Live(ledger') :
    {p, q} \notin dismissed /\ ledger'.at[q].amount = ledger.at[p].amount
DismissedStayApart == [][\A p \in Gone : StandsIn(p)]_vars

\* The same of resolve_all_household_duplicates alone: the steps that remove
\* postings, bring none and leave the accounts as they are.
ResolveRespectsDismissal ==
  [][account = account' /\ Live(ledger') \subseteq Live(ledger) =>
       \A p \in Gone : StandsIn(p)]_vars
==========================================================================
