----------------------------- MODULE FormProofs -----------------------------
(* The two sidebars.                                                        *)
EXTENDS TransactionForm, BudgetForm, SequenceTheorems, WellFoundedInduction, TLAPS

-----------------------------------------------------------------------------
(* Sums over sequences.  FoldLeft takes the last element of the set of       *)
(* indices and goes on with the rest; so there is a function from the sets   *)
(* of indices to the sums, and along 0..n it gives the partial sums.         *)

LEMMA Least ==
  ASSUME NEW T \in SUBSET Nat, T # {}
  PROVE  \E x \in T : \A y \in T : x <= y
<1>1. PICK x \in T : \A y \in T : ~(<<y, x>> \in OpToRel(<, Nat))
  BY NatLessThanWellFounded, WFMin
<1>2. \A y \in T : ~(y < x)
  BY <1>1 DEF OpToRel
<1>3. \A y \in T : x <= y
  BY <1>2
<1>4. QED
  BY <1>3

Sums(F, d, n) ==
    F = [s \in SUBSET (1..n) |-> IF s = {} THEN 0 ELSE F[s \ {Max(s)}] + d[Max(s)]]

LEMMA LastIsMax ==
  ASSUME NEW n \in Nat, NEW s \in SUBSET (1..n), n \in s
  PROVE  Max(s) = n
<1>1. \A y \in s : n >= y
  OBVIOUS
<1>2. \A x \in s : (\A y \in s : x >= y) => x = n
  <2> SUFFICES ASSUME NEW x \in s, \A y \in s : x >= y PROVE x = n
    OBVIOUS
  <2>1. x \in 1..n /\ x >= n
    OBVIOUS
  <2>2. QED
    BY <2>1
<1>3. QED
  BY <1>1, <1>2 DEF Max

LEMMA SumsExist ==
  ASSUME NEW n \in Nat, NEW d \in [1..n -> Int]
  PROVE  \E F \in [SUBSET (1..n) -> Int] : Sums(F, d, n)
<1> DEFINE P(k) == \E F \in [SUBSET (1..k) -> Int] : Sums(F, d, k)
           T == {k \in Nat : k <= n /\ ~P(k)}
<1>1. P(0)
  <2> DEFINE F == [s \in SUBSET (1..0) |-> 0]
  <2>1. \A s \in SUBSET (1..0) : s = {}
    OBVIOUS
  <2>2. Sums(F, d, 0)
    BY <2>1 DEF Sums
  <2>3. F \in [SUBSET (1..0) -> Int]
    OBVIOUS
  <2> HIDE DEF F
  <2>4. QED
    BY <2>2, <2>3
<1>2. ASSUME NEW k \in Nat, k < n, P(k) PROVE P(k + 1)
  <2>1. PICK F \in [SUBSET (1..k) -> Int] : Sums(F, d, k)
    BY <1>2
  <2> DEFINE G == [s \in SUBSET (1..(k + 1)) |->
                     IF k + 1 \in s THEN F[s \ {k + 1}] + d[k + 1] ELSE F[s]]
  <2>2. G \in [SUBSET (1..(k + 1)) -> Int]
    <3> SUFFICES ASSUME NEW s \in SUBSET (1..(k + 1))
                 PROVE  (IF k + 1 \in s THEN F[s \ {k + 1}] + d[k + 1] ELSE F[s]) \in Int
      OBVIOUS
    <3>1. k + 1 \in 1..n
      BY <1>2
    <3>2. s \ {k + 1} \in SUBSET (1..k)
      OBVIOUS
    <3>3. k + 1 \notin s => s \in SUBSET (1..k)
      OBVIOUS
    <3>4. QED
      BY <3>1, <3>2, <3>3
  <2>3. ASSUME NEW s \in SUBSET (1..(k + 1))
        PROVE  G[s] = IF s = {} THEN 0 ELSE G[s \ {Max(s)}] + d[Max(s)]
    <3>1. CASE k + 1 \in s
      <4>1. Max(s) = k + 1
        BY <3>1, LastIsMax
      <4>2. s \ {k + 1} \in SUBSET (1..k) /\ s \ {k + 1} \in SUBSET (1..(k + 1))
        OBVIOUS
      <4>3. G[s \ {k + 1}] = F[s \ {k + 1}]
        BY <4>2
      <4>4. QED
        BY <3>1, <4>1, <4>3
    <3>2. CASE k + 1 \notin s
      <4>1. s \in SUBSET (1..k)
        BY <3>2
      <4>2. G[s] = F[s]
        BY <3>2
      <4>3. F[s] = IF s = {} THEN 0 ELSE F[s \ {Max(s)}] + d[Max(s)]
        BY <2>1, <4>1 DEF Sums
      <4>4. G[s \ {Max(s)}] = F[s \ {Max(s)}]
        BY <3>2
      <4>5. QED
        BY <4>2, <4>3, <4>4
    <3>3. QED
      BY <3>1, <3>2
  <2> HIDE DEF G
  <2>4. DOMAIN G = SUBSET (1..(k + 1))
    BY <2>2
  <2>5. Sums(G, d, k + 1)
    BY <2>2, <2>3, <2>4 DEF Sums
  <2>6. QED
    BY <2>2, <2>5
<1> HIDE DEF P
<1>3. T = {}
  <2> SUFFICES ASSUME T # {} PROVE FALSE
    OBVIOUS
  <2>1. PICK x \in T : \A y \in T : x <= y
    BY Least
  <2>2. x # 0
    BY <1>1, <2>1
  <2>3. x - 1 \in Nat /\ x - 1 < n /\ x - 1 \notin T
    BY <2>1, <2>2
  <2>4. P(x - 1)
    BY <2>3
  <2>5. P((x - 1) + 1)
    BY <1>2, <2>3, <2>4
  <2>6. QED
    BY <2>1, <2>2, <2>5
<1>4. P(n)
  BY <1>3
<1>5. QED
  BY <1>4 DEF P

\* The partial sums of d, as far as n.
Runs(g, d, n) ==
    g \in [0..n -> Int] /\ g[0] = 0 /\ \A i \in 1..n : g[i] = g[i - 1] + d[i]

LEMMA SumsRun ==
  ASSUME NEW n \in Nat, NEW d \in [1..n -> Int],
         NEW F, Sums(F, d, n)
  PROVE  \E g : Runs(g, d, n) /\ g[n] = F[1..n]
<1> DEFINE g == [i \in 0..n |-> F[1..i]]
<1>1. \A i \in 0..n : 1..i \in SUBSET (1..n)
  OBVIOUS
<1>3. g[0] = 0
  <2>1. 1..0 = {}
    OBVIOUS
  <2>2. {} \in SUBSET (1..n) /\ F[{}] = 0
    BY DEF Sums
  <2>3. QED
    BY <2>1, <2>2
<1>4. ASSUME NEW i \in 1..n PROVE g[i] = g[i - 1] + d[i]
  <2> i \in Nat /\ i \in 0..n
    OBVIOUS
  <2>1. 1..i \in SUBSET (1..n) /\ i \in 1..i /\ 1..i # {}
    BY <1>1
  <2>2. Max(1..i) = i
    BY <2>1, LastIsMax
  <2>3. (1..i) \ {i} = 1..(i - 1)
    OBVIOUS
  <2>4. F[1..i] = F[(1..i) \ {Max(1..i)}] + d[Max(1..i)]
    BY <2>1 DEF Sums
  <2>5. g[i] = F[1..i] /\ g[i - 1] = F[1..(i - 1)]
    OBVIOUS
  <2>6. QED
    BY <2>2, <2>3, <2>4, <2>5
<1> HIDE DEF g
<1>5. g[n] = F[1..n] /\ g = [i \in 0..n |-> g[i]]
  BY DEF g
<1> DEFINE T == {i \in Nat : i <= n /\ g[i] \notin Int}
<1>6. T = {}
  <2> SUFFICES ASSUME T # {} PROVE FALSE
    OBVIOUS
  <2>1. PICK x \in T : \A y \in T : x <= y
    BY Least
  <2>2. x # 0
    BY <1>3, <2>1
  <2>3. x - 1 \in Nat /\ x - 1 <= n /\ g[x - 1] \in Int
    BY <2>1, <2>2
  <2>4. x \in 1..n /\ d[x] \in Int
    BY <2>1, <2>2
  <2>5. QED
    BY <1>4, <2>1, <2>3, <2>4
<1>7. g \in [0..n -> Int]
  <2>1. \A i \in 0..n : g[i] \in Int
    BY <1>6
  <2>2. QED
    BY <1>5, <2>1
<1>8. Runs(g, d, n)
  BY <1>3, <1>4, <1>7 DEF Runs
<1>9. QED
  BY <1>5, <1>8

\* There is one run only, and it looks no further than it goes.
LEMMA OneRun ==
  ASSUME NEW n \in Nat, NEW g, NEW h, NEW d, NEW e, NEW k \in Nat, NEW l \in Nat, n <= k, n <= l,
         Runs(g, d, k), Runs(h, e, l), \A i \in 1..n : d[i] = e[i]
  PROVE  g[n] = h[n]
<1> DEFINE T == {i \in Nat : i <= n /\ g[i] # h[i]}
<1>1. T = {}
  <2> SUFFICES ASSUME T # {} PROVE FALSE
    OBVIOUS
  <2>1. PICK x \in T : \A y \in T : x <= y
    BY Least
  <2>2. x # 0
    BY <2>1 DEF Runs
  <2>3. x - 1 \in Nat /\ x - 1 <= n /\ g[x - 1] = h[x - 1]
    BY <2>1, <2>2
  <2>4. x \in 1..n /\ x \in 1..k /\ x \in 1..l
    BY <2>1, <2>2
  <2>5. g[x] = g[x - 1] + d[x] /\ h[x] = h[x - 1] + e[x] /\ d[x] = e[x]
    BY <2>4 DEF Runs
  <2>6. QED
    BY <2>1, <2>3, <2>5
<1>2. QED
  BY <1>1

LEMMA MaxIsIn ==
  ASSUME NEW n \in Nat, NEW s \in SUBSET (1..n), s # {}
  PROVE  Max(s) \in s
<1> DEFINE T == {n - x : x \in s}
<1>1. T \in SUBSET Nat /\ T # {}
  <2>1. \A x \in s : n - x \in Nat
    OBVIOUS
  <2>2. QED
    BY <2>1
<1>2. PICK y \in T : \A z \in T : y <= z
  BY <1>1, Least
<1>3. PICK x \in s : y = n - x
  BY <1>2
<1>4. \A z \in s : x >= z
  <2> SUFFICES ASSUME NEW z \in s PROVE x >= z
    OBVIOUS
  <2>1. y <= n - z
    BY <1>2
  <2>2. z \in 1..n /\ x \in 1..n
    OBVIOUS
  <2>3. QED
    BY <1>3, <2>1, <2>2
<1>5. QED
  BY <1>4 DEF Max

LEMMA TotalRuns ==
  ASSUME NEW seq \in Seq(FormRow)
  PROVE  \E g : Runs(g, [i \in 1..Len(seq) |-> seq[i].amt], Len(seq)) /\ Total(seq) = g[Len(seq)]
<1> DEFINE n == Len(seq)
           d == [i \in 1..n |-> seq[i].amt]
           Body(f) == [s \in SUBSET (1..n) |->
                         IF s = {} THEN 0 ELSE f[s \ {Max(s)}] + seq[Max(s)].amt]
           C == CHOOSE f : f = Body(f)
<1>1. n \in Nat /\ DOMAIN seq = 1..n /\ d \in [1..n -> Int]
  <2>1. n \in Nat /\ DOMAIN seq = 1..n /\ \A i \in 1..n : seq[i] \in FormRow
    BY LenProperties, ElementOfSeq
  <2>2. \A i \in 1..n : seq[i].amt \in Int
    BY <2>1 DEF FormRow
  <2>3. QED
    BY <2>1, <2>2
<1>2. PICK F \in [SUBSET (1..n) -> Int] : Sums(F, d, n)
  BY <1>1, SumsExist
<1>3. ASSUME NEW s \in SUBSET (1..n), s # {} PROVE d[Max(s)] = seq[Max(s)].amt
  BY <1>1, <1>3, MaxIsIn
<1>4. \A f : Body(f) = [s \in SUBSET (1..n) |-> IF s = {} THEN 0 ELSE f[s \ {Max(s)}] + d[Max(s)]]
  BY <1>3
<1>5. F = Body(F)
  BY <1>2, <1>4 DEF Sums
<1>6. C = Body(C)
  BY <1>5
<1>7. Sums(C, d, n)
  BY <1>4, <1>6 DEF Sums
<1>8. Total(seq) = C[1..n]
  BY <1>1 DEF Total, FoldLeft, MapThenFoldSet
<1> HIDE DEF C
<1>9. \E g : Runs(g, d, n) /\ g[n] = C[1..n]
  BY <1>1, <1>7, SumsRun
<1>10. QED
  BY <1>8, <1>9

LEMMA TotalIsInt ==
  ASSUME NEW seq \in Seq(FormRow)
  PROVE  Total(seq) \in Int
<1>1. Len(seq) \in Nat
  BY LenProperties
<1>2. QED
  BY <1>1, TotalRuns DEF Runs

LEMMA TotalAppend ==
  ASSUME NEW seq \in Seq(FormRow), NEW r \in FormRow
  PROVE  Append(seq, r) \in Seq(FormRow) /\ Total(Append(seq, r)) = Total(seq) + r.amt
<1> DEFINE n == Len(seq)
           more == Append(seq, r)
           d == [i \in 1..n |-> seq[i].amt]
           e == [i \in 1..(n + 1) |-> more[i].amt]
<1>1. n \in Nat /\ more \in Seq(FormRow) /\ Len(more) = n + 1 /\ more[n + 1] = r
      /\ \A i \in 1..n : more[i] = seq[i]
  BY LenProperties, AppendProperties
<1> HIDE DEF n, more
<1>2. PICK g : Runs(g, d, n) /\ Total(seq) = g[n]
  BY TotalRuns DEF n
<1>3. PICK h : Runs(h, e, n + 1) /\ Total(more) = h[n + 1]
  BY <1>1, TotalRuns
<1>4. n \in 0..(n + 1) /\ n + 1 \in 1..(n + 1) /\ \A i \in 1..n : d[i] = e[i]
  BY <1>1
<1> HIDE DEF d, e
<1>5. g[n] = h[n]
  BY <1>1, <1>2, <1>3, <1>4, OneRun
<1>6. h[n + 1] = h[n] + r.amt
  <2>1. e[n + 1] = r.amt /\ (n + 1) - 1 = n
    BY <1>1, <1>4 DEF e
  <2>2. QED
    BY <1>3, <1>4, <2>1 DEF Runs
<1>7. QED
  BY <1>1, <1>2, <1>3, <1>5, <1>6 DEF more

LEMMA TotalSame ==
  ASSUME NEW seq \in Seq(FormRow), NEW new \in Seq(FormRow), Len(new) = Len(seq),
         \A i \in 1..Len(seq) : new[i].amt = seq[i].amt
  PROVE  Total(new) = Total(seq)
<1> DEFINE n == Len(seq)
           d == [i \in 1..n |-> seq[i].amt]
           e == [i \in 1..n |-> new[i].amt]
<1>1. n \in Nat /\ \A i \in 1..n : d[i] = e[i]
  BY LenProperties
<1>2. PICK g : Runs(g, d, n) /\ Total(seq) = g[n]
  BY TotalRuns
<1>3. PICK h : Runs(h, e, n) /\ Total(new) = h[n]
  BY TotalRuns
<1> HIDE DEF d, e, n
<1>4. g[n] = h[n]
  BY <1>1, <1>2, <1>3, OneRun
<1>5. QED
  BY <1>2, <1>3, <1>4

\* The posting as a whole, and the rows of a receipt.
LEMMA TotalOfTwo ==
  ASSUME NEW r \in FormRow, NEW q \in FormRow
  PROVE  /\ <<r>> \in Seq(FormRow) /\ Total(<<r>>) = r.amt
         /\ <<r, q>> \in Seq(FormRow) /\ Total(<<r, q>>) = r.amt + q.amt
<1>1. <<>> \in Seq(FormRow) /\ Len(<<>>) = 0
  BY EmptySeq
<1>2. Total(<<>>) = 0
  BY <1>1, TotalRuns DEF Runs
<1>3. Append(<<>>, r) = <<r>>
  OBVIOUS
<1>4. <<r>> \in Seq(FormRow) /\ Total(<<r>>) = 0 + r.amt
  BY <1>1, <1>2, <1>3, TotalAppend
<1> DEFINE two == <<r, q>>
           more == Append(<<r>>, q)
<1>5. two \in Seq(FormRow) /\ Len(two) = 2 /\ two[1] = r /\ two[2] = q
  OBVIOUS
<1>6. more \in Seq(FormRow) /\ Len(more) = 2 /\ more[1] = r /\ more[2] = q
  <2>1. Len(<<r>>) = 1 /\ <<r>>[1] = r
    OBVIOUS
  <2>2. QED
    BY <1>4, <2>1, AppendProperties
<1> HIDE DEF two, more
<1>7. two = more
  BY <1>5, <1>6, SeqEqual
<1>8. Total(more) = 0 + r.amt + q.amt
  BY <1>4, TotalAppend DEF more
<1>9. r.amt \in Int
  BY DEF FormRow
<1>10. QED
  BY <1>4, <1>5, <1>7, <1>8, <1>9 DEF two

-----------------------------------------------------------------------------
(* The posting's sidebar: types.                                            *)

Rows    == Seq(FormRow) \ {<<>>}
Posting == [parts: Rows, note: Text, tags: Text, date: Text]
Draft   == [split: BOOLEAN, rows: Rows, note: Text, tags: Text, date: Text]
Request == [phase: {"split", "splitStored", "update", "updateStored"}, attached: BOOLEAN,
            fields: SUBSET {"tags", "note", "date", "cat"}, rows: Seq(FormRow),
            vals: Draft, was: Text]
Linking == [phase: {"none", "sent", "stored"}, attached: BOOLEAN]

FormTypes ==
    /\ server \in Posting
    /\ base \in Posting
    /\ draft \in Draft
    /\ save \in Request \cup {NoSave}
    /\ link \in Linking
    /\ listed \in Posting

LEMMA RowsAre ==
  ASSUME NEW rs \in Rows
  PROVE  /\ rs \in Seq(FormRow) /\ Len(rs) \in Nat \ {0} /\ DOMAIN rs = 1..Len(rs)
         /\ \A i \in 1..Len(rs) : rs[i] \in FormRow
         /\ 1 \in 1..Len(rs) /\ rs[1].cat \in Category
<1>1. rs \in Seq(FormRow) /\ Len(rs) \in Nat \ {0} /\ DOMAIN rs = 1..Len(rs)
  BY EmptySeq, LenProperties DEF Rows
<1>2. \A i \in 1..Len(rs) : rs[i] \in FormRow
  BY <1>1, ElementOfSeq
<1>3. QED
  BY <1>1, <1>2 DEF FormRow

LEMMA NonEmpty ==
  ASSUME NEW rs \in Seq(FormRow), Len(rs) # 0
  PROVE  rs \in Rows
  BY EmptySeq DEF Rows

LEMMA UnsplitRows == Unsplit \in Rows /\ Total(Unsplit) = Amount
<1> DEFINE r == [amt |-> Amount, cat |-> "c0"]
<1>1. r \in FormRow /\ r.amt = Amount
  BY FormAssumption DEF FormRow, Category
<1>2. Unsplit = <<r>>
  BY DEF Unsplit
<1>3. Len(<<r>>) # 0
  OBVIOUS
<1> HIDE DEF r
<1>4. QED
  BY <1>1, <1>2, <1>3, TotalOfTwo, NonEmpty

LEMMA ReceiptRows == Receipt \in Rows /\ Total(Receipt) = Amount
<1> DEFINE r == [amt |-> 1, cat |-> "c1"]
           q == [amt |-> Amount - 1, cat |-> "c0"]
<1>1. r \in FormRow /\ q \in FormRow /\ r.amt + q.amt = Amount
  BY FormAssumption DEF FormRow, Category
<1>2. Receipt = <<r, q>>
  BY DEF Receipt
<1>3. Len(<<r, q>>) # 0
  OBVIOUS
<1> HIDE DEF r, q
<1>4. QED
  BY <1>1, <1>2, <1>3, TotalOfTwo, NonEmpty

LEMMA RowReplaced ==
  ASSUME NEW rs \in Rows, NEW i \in 1..Len(rs), NEW r \in FormRow
  PROVE  [rs EXCEPT ![i] = r] \in Rows /\ (r.amt = rs[i].amt => Total([rs EXCEPT ![i] = r]) = Total(rs))
<1>1. rs \in Seq(FormRow) /\ Len(rs) \in Nat \ {0}
  BY RowsAre
<1> DEFINE new == [rs EXCEPT ![i] = r]
<1>2. new \in Seq(FormRow) /\ Len(new) = Len(rs) /\ \A j \in 1..Len(rs) : new[j] = IF j = i THEN r ELSE rs[j]
  BY <1>1, ExceptSeq
<1> HIDE DEF new
<1>3. r.amt = rs[i].amt => Total(new) = Total(rs)
  BY <1>1, <1>2, TotalSame
<1>4. new \in Rows
  BY <1>1, <1>2, NonEmpty
<1>5. QED
  BY <1>3, <1>4 DEF new

LEMMA AmountChanged ==
  ASSUME NEW rs \in Rows, NEW i \in 1..Len(rs), NEW a \in Int
  PROVE  [rs EXCEPT ![i].amt = a] \in Rows
<1>1. [rs[i] EXCEPT !.amt = a] \in FormRow
  BY RowsAre DEF FormRow
<1>2. [rs EXCEPT ![i].amt = a] = [rs EXCEPT ![i] = [rs[i] EXCEPT !.amt = a]]
  OBVIOUS
<1>3. QED
  BY <1>1, <1>2, RowReplaced

\* A row changed in its category leaves the sum.
LEMMA CategoryChanged ==
  ASSUME NEW rs \in Rows, NEW i \in 1..Len(rs), NEW c \in Category
  PROVE  /\ [rs EXCEPT ![i].cat = c] \in Rows
         /\ Total([rs EXCEPT ![i].cat = c]) = Total(rs)
<1>1. rs[i] \in FormRow
  BY RowsAre
<1> DEFINE r == [rs[i] EXCEPT !.cat = c]
<1>2. r \in FormRow /\ r.amt = rs[i].amt
  BY <1>1 DEF FormRow
<1>3. [rs EXCEPT ![i].cat = c] = [rs EXCEPT ![i] = r]
  OBVIOUS
<1> HIDE DEF r
<1>4. QED
  BY <1>2, <1>3, RowReplaced

LEMMA AllChanged ==
  ASSUME NEW rs \in Rows, NEW c \in Category
  PROVE  [i \in DOMAIN rs |-> [rs[i] EXCEPT !.cat = c]] \in Rows
<1>1. Len(rs) \in Nat \ {0} /\ DOMAIN rs = 1..Len(rs) /\ \A j \in 1..Len(rs) : rs[j] \in FormRow
  BY RowsAre
<1> DEFINE new == [i \in 1..Len(rs) |-> [rs[i] EXCEPT !.cat = c]]
<1>2. \A i \in 1..Len(rs) : [rs[i] EXCEPT !.cat = c] \in FormRow
  BY <1>1 DEF FormRow
<1>3. new \in [1..Len(rs) -> FormRow]
  BY <1>2
<1> HIDE DEF new
<1>4. new \in Seq(FormRow) /\ Len(new) = Len(rs)
  BY <1>1, <1>3, SeqDef, LenProperties
<1>5. QED
  BY <1>1, <1>4, NonEmpty DEF new

LEMMA RowAdded ==
  ASSUME NEW rs \in Rows, NEW c \in Category, NEW a \in Int
  PROVE  /\ Append(rs, [amt |-> a, cat |-> c]) \in Rows
         /\ Total(Append(rs, [amt |-> a, cat |-> c])) = Total(rs) + a
<1> DEFINE r == [amt |-> a, cat |-> c]
<1>1. r \in FormRow /\ r.amt = a
  BY DEF FormRow
<1> HIDE DEF r
<1>2. rs \in Seq(FormRow)
  BY RowsAre
<1>3. Append(rs, r) \in Seq(FormRow) /\ Append(rs, r) # <<>> /\ Total(Append(rs, r)) = Total(rs) + a
  BY <1>1, <1>2, TotalAppend, AppendProperties
<1>4. QED
  BY <1>3 DEF Rows, r

LEMMA RowRemoved ==
  ASSUME NEW rs \in Rows, NEW i \in 1..Len(rs), Len(rs) > 1
  PROVE  RemoveAt(rs, i) \in Rows
<1> DEFINE n == Len(rs)
<1>1. rs \in Seq(FormRow) /\ n \in Nat /\ \A j \in 1..n : rs[j] \in FormRow
  BY RowsAre
<1> HIDE DEF n
<1> DEFINE a == SubSeq(rs, 1, i - 1)
           b == SubSeq(rs, i + 1, n)
<1>2. i \in 1..n /\ n > 1 /\ i - 1 \in Int /\ i + 1 \in Int
  BY <1>1 DEF n
<1>3. a \in Seq(FormRow) /\ Len(a) = IF 1 <= i - 1 THEN (i - 1) - 1 + 1 ELSE 0
  <2>1. \A j \in 1..(i - 1) : rs[j] \in FormRow
    BY <1>1, <1>2
  <2>2. QED
    BY <1>2, <2>1, SubSeqProperties
<1>4. b \in Seq(FormRow) /\ Len(b) = IF i + 1 <= n THEN n - (i + 1) + 1 ELSE 0
  <2>1. \A j \in (i + 1)..n : rs[j] \in FormRow
    BY <1>1, <1>2
  <2>2. QED
    BY <1>1, <1>2, <2>1, SubSeqProperties
<1> HIDE DEF a, b
<1>5. a \o b \in Seq(FormRow) /\ Len(a \o b) = Len(a) + Len(b)
  BY <1>3, <1>4, ConcatProperties
<1>6. Len(a \o b) # 0
  BY <1>1, <1>2, <1>3, <1>4, <1>5
<1>7. RemoveAt(rs, i) = a \o b
  BY DEF RemoveAt, a, b, n
<1>8. QED
  BY <1>5, <1>6, <1>7, NonEmpty

LEMMA Detaching ==
  ASSUME FormTypes
  PROVE  /\ Detached(save) \in Request \cup {NoSave} /\ Detached(link) \in Linking
         /\ save # NoSave => Detached(save) = [save EXCEPT !.attached = FALSE]
         /\ Detached(NoSave) = NoSave
         /\ save.phase # "none" => save \in Request
<1>1. save \in Request => Detached(save) \in Request /\ Detached(save) = [save EXCEPT !.attached = FALSE]
  BY DEF Detached, Request
<1>2. Detached(NoSave) = NoSave /\ NoSave.phase = "none"
  <2>1. NoSave.attached = FALSE /\ NoSave.phase = "none"
    BY DEF NoSave
  <2> DEFINE Nothing == [phase: {"none"}, attached: {FALSE}, fields: {{}}, rows: {<<>>}, vals: {<<>>}, was: {0}]
  <2>2. NoSave \in Nothing
    BY DEF NoSave
  <2>3. \A s \in Nothing : [s EXCEPT !.attached = FALSE] = s
    OBVIOUS
  <2>4. QED
    BY <2>1, <2>2, <2>3 DEF Detached
<1>3. Detached(link) \in Linking
  BY DEF FormTypes, Detached, Linking
<1>4. save \in Request \/ save = NoSave
  BY DEF FormTypes
<1>5. QED
  BY <1>1, <1>2, <1>3, <1>4

LEMMA Freshly ==
  ASSUME NEW p \in Posting
  PROVE  Fresh(p) \in Draft
BY DEF Fresh, Posting, Draft

LEMMA Filling ==
  ASSUME FormTypes
  PROVE  /\ Filled(draft.rows) \in Rows
         /\ Total(Filled(draft.rows)) = Amount
<1>1. draft.rows \in Rows /\ base.parts[1].cat \in Category
  BY RowsAre DEF FormTypes, Draft, Posting
<1>2. Total(draft.rows) \in Int
  BY <1>1, RowsAre, TotalIsInt
<1>3. Amount - Total(draft.rows) \in Int /\ Amount \in Int
  BY <1>2, FormAssumption
<1> DEFINE more == Append(draft.rows, [amt |-> Amount - Total(draft.rows), cat |-> base.parts[1].cat])
<1>4. more \in Rows /\ Total(more) = Total(draft.rows) + (Amount - Total(draft.rows))
  BY <1>1, <1>3, RowAdded
<1> HIDE DEF more
<1>5. Filled(draft.rows) = IF Total(draft.rows) = Amount THEN draft.rows ELSE more
  BY DEF Filled, more
<1>6. QED
  BY <1>1, <1>2, <1>3, <1>4, <1>5

\* A sidebar that closes leaves a posting and its fields.
LEMMA Discarding ==
  ASSUME FormTypes, Discards
  PROVE  base' \in Posting /\ draft' \in Draft
<1>1. Blank \in Posting
  BY UnsplitRows DEF Blank, Posting, Text
<1>2. Fresh(Blank) \in Draft
  BY <1>1, Freshly
<1>3. QED
  BY <1>1, <1>2 DEF Discards, FormTypes

LEMMA FormTypesInit == FormInit => FormTypes
<1> SUFFICES ASSUME FormInit PROVE FormTypes
  OBVIOUS
<1>1. server \in Posting /\ base = server
  BY UnsplitRows DEF FormInit, Blank, Posting, Text
<1>2. draft \in Draft
  BY <1>1, Freshly DEF FormInit
<1>3. save = NoSave /\ link \in Linking /\ listed = server
  BY DEF FormInit, NoLink, Linking
<1>4. QED
  BY <1>1, <1>2, <1>3 DEF FormTypes

\* What is typed changes the draft, to another one.
LEMMA DraftTypes ==
  ASSUME FormTypes,
         \/ \E f \in {"note", "tags", "date"} : TypeText(f)
         \/ ToggleSplit \/ TypeAmount \/ PickCategory \/ PickMaster \/ AddRow \/ RemoveRow
  PROVE  draft' \in Draft /\ UNCHANGED <<server, listed, shown, base, save, link, meddled>>
<1> DEFINE Same == UNCHANGED <<server, listed, shown, base, save, link, meddled>>
<1>0. /\ draft \in Draft /\ draft.rows \in Rows
      /\ DOMAIN draft.rows = 1..Len(draft.rows) /\ 1 \in 1..Len(draft.rows)
      /\ Amount \in Nat /\ base.parts[1].cat \in Category
  BY RowsAre, FormAssumption DEF FormTypes, Draft, Posting
<1>1. ASSUME NEW f \in {"note", "tags", "date"}, TypeText(f) PROVE draft' \in Draft /\ Same
  <2>1. PICK v \in {0, 1} : draft' = [draft EXCEPT ![f] = v]
    BY <1>1 DEF TypeText
  <2>2. Same
    BY <1>1 DEF TypeText, Typed
  <2>3. CASE f = "note"
    BY <1>0, <2>1, <2>2, <2>3 DEF Draft, Text
  <2>4. CASE f = "tags"
    BY <1>0, <2>1, <2>2, <2>4 DEF Draft, Text
  <2>5. CASE f = "date"
    BY <1>0, <2>1, <2>2, <2>5 DEF Draft, Text
  <2>6. QED
    BY <2>3, <2>4, <2>5
<1>2. CASE ToggleSplit
  BY <1>0, <1>2 DEF ToggleSplit, Typed, Draft
<1>3. CASE TypeAmount
  <2>1. PICK i \in DOMAIN draft.rows, a \in 0..Amount : draft' = [draft EXCEPT !.rows[i].amt = a]
    BY <1>3 DEF TypeAmount
  <2>2. [draft.rows EXCEPT ![i].amt = a] \in Rows
    <3>1. i \in 1..Len(draft.rows) /\ a \in Int
      BY <1>0
    <3>2. QED
      BY <1>0, <3>1, AmountChanged
  <2>3. draft' = [draft EXCEPT !.rows = [draft.rows EXCEPT ![i].amt = a]]
    BY <1>0, <2>1 DEF Draft
  <2>4. QED
    BY <1>0, <1>3, <2>2, <2>3 DEF TypeAmount, Typed, Draft
<1>4. CASE PickCategory
  <2>1. PICK i \in 1..Len(draft.rows), c \in Category : draft' = [draft EXCEPT !.rows[i].cat = c]
    BY <1>0, <1>4 DEF PickCategory
  <2>2. [draft.rows EXCEPT ![i].cat = c] \in Rows
    BY <1>0, CategoryChanged
  <2>3. draft' = [draft EXCEPT !.rows = [draft.rows EXCEPT ![i].cat = c]]
    BY <1>0, <2>1 DEF Draft
  <2>4. QED
    BY <1>0, <1>4, <2>2, <2>3 DEF PickCategory, Typed, Draft
<1>5. CASE PickMaster
  <2>1. PICK c \in Category :
          draft' = [draft EXCEPT !.rows = [i \in DOMAIN @ |-> [@[i] EXCEPT !.cat = c]]]
    BY <1>5 DEF PickMaster
  <2>2. [i \in DOMAIN draft.rows |-> [draft.rows[i] EXCEPT !.cat = c]] \in Rows
    BY <1>0, AllChanged
  <2>3. QED
    BY <1>0, <1>5, <2>1, <2>2 DEF PickMaster, Typed, Draft
<1>6. CASE AddRow
  <2>1. Amount - Total(draft.rows) \in Int
    BY <1>0, RowsAre, TotalIsInt
  <2>2. Append(draft.rows, [amt |-> Amount - Total(draft.rows), cat |-> base.parts[1].cat]) \in Rows
    BY <1>0, <2>1, RowAdded
  <2>3. QED
    BY <1>0, <1>6, <2>2 DEF AddRow, Typed, Draft
<1>7. CASE RemoveRow
  <2>1. PICK i \in DOMAIN draft.rows : draft' = [draft EXCEPT !.rows = RemoveAt(@, i)]
    BY <1>7 DEF RemoveRow
  <2>2. RemoveAt(draft.rows, i) \in Rows
    BY <1>0, <1>7, RowRemoved DEF RemoveRow
  <2>3. QED
    BY <1>0, <1>7, <2>1, <2>2 DEF RemoveRow, Typed, Draft
<1>8. QED
  BY <1>1, <1>2, <1>3, <1>4, <1>5, <1>6, <1>7

Editing ==
    \/ \E f \in {"note", "tags", "date"} : TypeText(f)
    \/ ToggleSplit \/ TypeAmount \/ PickCategory \/ PickMaster \/ AddRow \/ RemoveRow

\* A save begins with all that it will need.
LEMMA Saving ==
  ASSUME FormTypes, Save
  PROVE  /\ save' \in Request /\ save'.fields = Patch /\ save'.vals = draft /\ save'.was = base.note
         /\ save'.phase = (IF draft.split THEN "split" ELSE "update")
         /\ save'.rows = (IF draft.split THEN Filled(draft.rows) ELSE <<>>)
<1>1. save' = [phase |-> IF draft.split THEN "split" ELSE "update", attached |-> TRUE,
               fields |-> Patch, vals |-> draft, was |-> base.note,
               rows |-> IF draft.split THEN Filled(draft.rows) ELSE <<>>]
  BY DEF Save
<1>2. Patch \in SUBSET {"tags", "note", "date", "cat"}
  BY DEF Patch
<1>3. (IF draft.split THEN Filled(draft.rows) ELSE <<>>) \in Seq(FormRow)
  BY Filling, EmptySeq DEF Rows
<1>4. draft \in Draft /\ base.note \in Text
  BY DEF FormTypes, Posting
<1>5. QED
  BY <1>1, <1>2, <1>3, <1>4 DEF Request

\* The server's patch keeps the posting whole.
LEMMA Patching ==
  ASSUME FormTypes, save \in Request
  PROVE  /\ Patched(server, save.fields, save.vals) \in Posting
         /\ Total(Patched(server, save.fields, save.vals).parts) = Total(server.parts)
<1> DEFINE rs == server.parts
           c == save.vals.rows[1].cat
           new == IF "cat" \in save.fields THEN [rs EXCEPT ![1].cat = c] ELSE rs
<1>1. rs \in Rows /\ 1 \in 1..Len(rs) /\ c \in Category
  BY RowsAre DEF FormTypes, Posting, Request, Draft
<1>2. new \in Rows /\ Total(new) = Total(rs)
  BY <1>1, CategoryChanged
<1> HIDE DEF new
<1>3. Patched(server, save.fields, save.vals) =
        [note |-> IF "note" \in save.fields THEN save.vals.note ELSE server.note,
         tags |-> IF "tags" \in save.fields THEN save.vals.tags ELSE server.tags,
         date |-> IF "date" \in save.fields THEN save.vals.date ELSE server.date,
         parts |-> new]
  BY DEF Patched, new
<1>4. QED
  BY <1>2, <1>3 DEF FormTypes, Posting, Request, Draft

LEMMA Replacing ==
  ASSUME FormTypes, NEW rs \in Rows
  PROVE  Replaced(rs) \in Posting /\ Replaced(rs).parts = rs /\ Replaced(rs).note = 0
<1>1. server \in Posting
  BY DEF FormTypes
<1> DEFINE p1 == [server EXCEPT !.parts = rs]
           p2 == [p1 EXCEPT !.note = 0]
           p3 == [p2 EXCEPT !.tags = 0]
<1>2. p1 \in Posting /\ p1.parts = rs
  BY <1>1 DEF Posting
<1>3. Replaced(rs) = p3
  BY DEF Replaced
<1> HIDE DEF p1
<1>4. p2 \in Posting /\ p2.parts = rs /\ p2.note = 0
  BY <1>2 DEF Posting, Text
<1> HIDE DEF p2
<1>5. p3 \in Posting /\ p3.parts = rs /\ p3.note = 0
  BY <1>4 DEF Posting, Text
<1>6. QED
  BY <1>3, <1>5

\* A split that is refused, or was never one, is not stored.
LEMMA SplitRows ==
  ASSUME FormTypes, save.phase = "split", Total(save.rows) = Amount
  PROVE  save.rows \in Rows
<1>1. save \in Request
  BY Detaching
<1>2. save.rows \in Seq(FormRow)
  BY <1>1 DEF Request
<1>3. Total(<<>>) = 0
  <2>1. <<>> \in Seq(FormRow) /\ Len(<<>>) = 0
    BY EmptySeq
  <2>2. QED
    BY <2>1, TotalRuns DEF Runs
<1>4. QED
  BY <1>2, <1>3, FormAssumption DEF Rows

LEMMA FormTypesNext == FormTypes /\ [FormNext]_formVars => FormTypes'
<1> SUFFICES ASSUME FormTypes, [FormNext]_formVars PROVE FormTypes'
  OBVIOUS
<1>0. /\ server \in Posting /\ base \in Posting /\ draft \in Draft /\ save \in Request \cup {NoSave}
      /\ link \in Linking /\ listed \in Posting
  BY DEF FormTypes
<1>1. CASE OpenForm
  BY <1>0, <1>1, Freshly DEF OpenForm, FormTypes
<1>2. CASE CloseForm
  <2>1. base' \in Posting /\ draft' \in Draft
    BY <1>2, Discarding DEF CloseForm
  <2>2. QED
    BY <1>0, <1>2, <2>1, Detaching DEF CloseForm, FormTypes
<1>3. CASE Editing
  BY <1>0, <1>3, DraftTypes DEF Editing, FormTypes
<1>4. CASE Save
  BY <1>0, <1>4, Saving DEF Save, FormTypes
<1>5. CASE SplitStored
  <2>1. save.rows \in Rows /\ save \in Request
    BY <1>5, SplitRows, Detaching DEF SplitStored
  <2>2. [save EXCEPT !.phase = "splitStored"] \in Request
    BY <2>1 DEF Request
  <2>3. QED
    BY <1>0, <1>5, <2>1, <2>2, Replacing DEF SplitStored, FormTypes
<1>6. CASE SplitAnswered
  <2>1. save \in Request
    BY <1>6, Detaching DEF SplitAnswered
  <2>2. [save EXCEPT !.phase = "update"] \in Request
    BY <2>1 DEF Request
  <2>3. QED
    BY <1>0, <1>6, <2>2 DEF SplitAnswered, FormTypes
<1>7. CASE UpdateStored
  <2>1. save \in Request
    BY <1>7, Detaching DEF UpdateStored
  <2>2. [save EXCEPT !.phase = "updateStored"] \in Request
    BY <2>1 DEF Request
  <2>3. QED
    BY <1>0, <1>7, <2>1, <2>2, Patching DEF UpdateStored, FormTypes
<1>8. CASE UpdateAnswered
  <2>1. base' \in Posting /\ draft' \in Draft
    BY <1>8, Discarding DEF UpdateAnswered
  <2>2. QED
    BY <1>0, <1>8, <2>1, Detaching DEF UpdateAnswered, FormTypes
<1>9. CASE SaveLost
  BY <1>0, <1>9 DEF SaveLost, FormTypes
<1>10. CASE Link
  BY <1>0, <1>10 DEF Link, FormTypes, Linking
<1>11. CASE LinkStored
  <2>1. [link EXCEPT !.phase = "stored"] \in Linking
    BY <1>0 DEF Linking
  <2>2. QED
    BY <1>0, <1>11, <2>1, Replacing, ReceiptRows DEF LinkStored, FormTypes
<1>12. CASE LinkAnswered
  <2>1. base' \in Posting /\ draft' \in Draft
    BY <1>12, Discarding DEF LinkAnswered
  <2>2. QED
    BY <1>0, <1>12, <2>1, Detaching DEF LinkAnswered, NoLink, Linking, FormTypes
<1>13. CASE OthersSave
  <2>1. PICK f \in {"note", "tags", "date"} :
          server' = [server EXCEPT ![f] = 2]
    BY <1>13 DEF OthersSave
  <2>2. server' \in Posting
    <3>1. CASE f = "note"
      BY <1>0, <2>1, <3>1 DEF Posting, Text
    <3>2. CASE f = "tags"
      BY <1>0, <2>1, <3>2 DEF Posting, Text
    <3>3. CASE f = "date"
      BY <1>0, <2>1, <3>3 DEF Posting, Text
    <3>4. QED
      BY <3>1, <3>2, <3>3
  <2>3. QED
    BY <1>0, <1>13, <2>1, <2>2 DEF OthersSave, FormTypes
<1>14. CASE UNCHANGED formVars
  BY <1>0, <1>14 DEF formVars, FormTypes
<1>15. CASE ListRead
  BY <1>0, <1>15 DEF ListRead, FormTypes
<1>16. QED
  BY <1>1, <1>2, <1>3, <1>4, <1>5, <1>6, <1>7, <1>8, <1>9, <1>10, <1>11, <1>12, <1>13, <1>14, <1>15
  DEF FormNext, Editing

-----------------------------------------------------------------------------
(* What is saved.                                                           *)

\* A posting is only ever given parts that add up.
LEMMA SplitsNext ==
  ASSUME FormTypes, SplitsAddUp, [FormNext]_formVars
  PROVE  SplitsAddUp'
<1> USE DEF SplitsAddUp
<1>0. Total(server.parts) = Amount
  OBVIOUS
<1>1. CASE OpenForm
  BY <1>1 DEF OpenForm
<1>2. CASE CloseForm
  <2>1. save'.phase = save.phase /\ save'.rows = save.rows /\ server' = server
    BY <1>2, Detaching DEF CloseForm, FormTypes, Request
  <2>2. QED
    BY <2>1
<1>3. CASE Editing
  BY <1>3, DraftTypes DEF Editing
<1>4. CASE Save
  <2>1. save'.phase = "split" => save'.rows = Filled(draft.rows)
    BY <1>4, Saving
  <2>2. QED
    BY <1>4, <2>1, Filling DEF Save
<1>5. CASE SplitStored
  <2>1. save.rows \in Rows /\ save \in Request
    BY <1>5, SplitRows, Detaching DEF SplitStored
  <2>2. server'.parts = save.rows /\ save'.phase = "splitStored"
    BY <1>5, <2>1, Replacing DEF SplitStored, Request
  <2>3. QED
    BY <1>5, <2>2 DEF SplitStored
<1>6. CASE SplitAnswered
  <2>1. save \in Request
    BY <1>6, Detaching DEF SplitAnswered
  <2>2. save'.phase \in {"update", "none"} /\ server' = server
    BY <1>6, <2>1 DEF SplitAnswered, Request, NoSave
  <2>3. QED
    BY <2>2
<1>7. CASE UpdateStored
  <2>1. save \in Request
    BY <1>7, Detaching DEF UpdateStored
  <2>2. save'.phase = "updateStored" /\ Total(server'.parts) = Total(server.parts)
    BY <1>7, <2>1, Patching DEF UpdateStored, Request
  <2>3. QED
    BY <2>2
<1>8. CASE UpdateAnswered
  BY <1>8 DEF UpdateAnswered, NoSave
<1>9. CASE SaveLost
  BY <1>9 DEF SaveLost, NoSave
<1>10. CASE Link
  BY <1>10 DEF Link
<1>11. CASE LinkStored
  BY <1>11, Replacing, ReceiptRows DEF LinkStored
<1>12. CASE LinkAnswered
  <2>1. save'.phase = save.phase /\ save'.rows = save.rows /\ server' = server
    BY <1>12, Detaching DEF LinkAnswered, FormTypes, Request
  <2>2. QED
    BY <2>1
<1>13. CASE OthersSave
  <2>1. server'.parts = server.parts /\ save' = save
    BY <1>13 DEF OthersSave, FormTypes, Posting
  <2>2. QED
    BY <2>1
<1>14. CASE UNCHANGED formVars
  BY <1>14 DEF formVars
<1>15. CASE ListRead
  BY <1>15 DEF ListRead
<1>16. QED
  BY <1>1, <1>2, <1>3, <1>4, <1>5, <1>6, <1>7, <1>8, <1>9, <1>10, <1>11, <1>12, <1>13, <1>14, <1>15
  DEF FormNext, Editing

\* What a save on its way carries, and what of it is stored.
Carries ==
    save.phase # "none" =>
        /\ "tags" \in save.fields
        /\ save.vals.date # 0 => "date" \in save.fields
        /\ "note" \in save.fields <=> save.vals.note # save.was
        /\ save.rows # <<>> => "cat" \notin save.fields

StoredParts ==
    ~meddled /\ save.rows # <<>> /\ save.phase \in {"splitStored", "update", "updateStored"}
        => server.parts = save.rows

StoredRest ==
    ~meddled /\ save.phase = "updateStored" =>
        /\ server.tags = save.vals.tags
        /\ save.vals.date # 0 => server.date = save.vals.date
        /\ save.vals.note # save.was => server.note = save.vals.note

SaveInv == Carries /\ StoredParts /\ StoredRest

\* Detaching, and all that leaves the server alone, keeps it.
LEMMA SaveKept ==
  ASSUME FormTypes, SaveInv, server' = server, meddled' = meddled, save' \in {save, Detached(save), NoSave}
  PROVE  SaveInv'
<1>1. CASE save' = save
  BY <1>1 DEF SaveInv, Carries, StoredParts, StoredRest
<1>2. CASE save' = NoSave
  BY <1>2 DEF SaveInv, Carries, StoredParts, StoredRest, NoSave
<1>3. CASE save' = Detached(save) /\ save # NoSave
  <2>1. save \in Request /\ save' = [save EXCEPT !.attached = FALSE]
    BY <1>3, Detaching DEF FormTypes
  <2>2. /\ save'.phase = save.phase /\ save'.fields = save.fields /\ save'.vals = save.vals
        /\ save'.was = save.was /\ save'.rows = save.rows
    BY <2>1 DEF Request
  <2>3. QED
    BY <2>2 DEF SaveInv, Carries, StoredParts, StoredRest
<1>4. QED
  BY <1>1, <1>2, <1>3, Detaching

LEMMA SaveNext ==
  ASSUME FormTypes, SaveInv, [FormNext]_formVars
  PROVE  SaveInv'
<1>1. CASE OpenForm
  BY <1>1, SaveKept DEF OpenForm
<1>2. CASE CloseForm
  BY <1>2, SaveKept DEF CloseForm
<1>3. CASE Editing
  BY <1>3, DraftTypes, SaveKept DEF Editing
<1>4. CASE Save
  <2>1. /\ save'.fields = Patch /\ save'.vals = draft /\ save'.was = base.note
        /\ save'.phase = (IF draft.split THEN "split" ELSE "update")
        /\ save'.rows = (IF draft.split THEN Filled(draft.rows) ELSE <<>>)
    BY <1>4, Saving
  <2>2. Carries'
    BY <2>1 DEF Carries, Patch
  <2>3. StoredParts' /\ StoredRest'
    BY <2>1 DEF StoredParts, StoredRest
  <2>4. QED
    BY <2>2, <2>3 DEF SaveInv
<1>5. CASE SplitStored
  <2>1. save.rows \in Rows /\ save \in Request
    BY <1>5, SplitRows, Detaching DEF SplitStored
  <2>2. /\ save'.phase = "splitStored" /\ save'.fields = save.fields /\ save'.vals = save.vals
        /\ save'.was = save.was /\ save'.rows = save.rows
    BY <1>5, <2>1 DEF SplitStored, Request
  <2>3. server'.parts = save.rows
    BY <1>5, <2>1, Replacing DEF SplitStored
  <2>4. QED
    BY <1>5, <2>2, <2>3 DEF SplitStored, SaveInv, Carries, StoredParts, StoredRest
<1>6. CASE SplitAnswered
  <2>1. CASE ~save.attached
    BY <1>6, <2>1, SaveKept DEF SplitAnswered
  <2>2. CASE save.attached
    <3>1. save \in Request
      BY <1>6, Detaching DEF SplitAnswered
    <3>2. /\ save'.phase = "update" /\ save'.fields = save.fields /\ save'.vals = save.vals
          /\ save'.was = save.was /\ save'.rows = save.rows
      BY <1>6, <2>2, <3>1 DEF SplitAnswered, Request
    <3>3. QED
      BY <1>6, <3>2 DEF SplitAnswered, SaveInv, Carries, StoredParts, StoredRest
  <2>3. QED
    BY <2>1, <2>2
<1>7. CASE UpdateStored
  <2>1. save \in Request
    BY <1>7, Detaching DEF UpdateStored
  <2>2. /\ save'.phase = "updateStored" /\ save'.fields = save.fields /\ save'.vals = save.vals
        /\ save'.was = save.was /\ save'.rows = save.rows
    BY <1>7, <2>1 DEF UpdateStored, Request
  <2>3. save.phase = "update" /\ meddled' = meddled /\ server' = Patched(server, save.fields, save.vals)
    BY <1>7 DEF UpdateStored
  <2>4. StoredRest'
    BY <2>2, <2>3 DEF SaveInv, Carries, StoredRest, Patched
  <2>5. StoredParts'
    BY <2>2, <2>3 DEF SaveInv, Carries, StoredParts, Patched
  <2>6. Carries'
    BY <2>2, <2>3 DEF SaveInv, Carries
  <2>7. QED
    BY <2>4, <2>5, <2>6 DEF SaveInv
<1>8. CASE UpdateAnswered
  BY <1>8, SaveKept DEF UpdateAnswered
<1>9. CASE SaveLost
  BY <1>9, SaveKept DEF SaveLost
<1>10. CASE Link
  BY <1>10, SaveKept DEF Link
<1>11. CASE LinkStored
  BY <1>11 DEF LinkStored, SaveInv, Carries, StoredParts, StoredRest
<1>12. CASE LinkAnswered
  BY <1>12, SaveKept DEF LinkAnswered
<1>13. CASE OthersSave
  BY <1>13 DEF OthersSave, SaveInv, Carries, StoredParts, StoredRest
<1>14. CASE UNCHANGED formVars
  BY <1>14, SaveKept DEF formVars
<1>15. CASE ListRead
  BY <1>15, SaveKept DEF ListRead
<1>16. QED
  BY <1>1, <1>2, <1>3, <1>4, <1>5, <1>6, <1>7, <1>8, <1>9, <1>10, <1>11, <1>12, <1>13, <1>14, <1>15
  DEF FormNext, Editing

\* A note another member has written goes with a save that names the note, or
\* with the allocation that held it.
LEMMA NoteNext ==
  ASSUME FormTypes, Carries, [FormNext]_formVars, server.note = 2, server'.note # 2
  PROVE  \/ UpdateStored /\ save.vals.note # save.was
         \/ SplitStored
         \/ LinkStored
<1>1. CASE UpdateStored
  <2>1. "note" \in save.fields
    BY <1>1 DEF UpdateStored, Patched
  <2>2. save.vals.note # save.was
    BY <1>1, <2>1 DEF UpdateStored, Carries
  <2>3. QED
    BY <1>1, <2>2
<1>2. CASE OthersSave
  <2>1. PICK f \in {"note", "tags", "date"} : server' = [server EXCEPT ![f] = 2]
    BY <1>2 DEF OthersSave
  <2>2. server'.note = 2
    BY <2>1 DEF FormTypes, Posting
  <2>3. QED
    BY <2>2
<1>3. CASE Editing
  BY <1>3, DraftTypes DEF Editing
<1>4. CASE \/ OpenForm \/ ListRead \/ CloseForm \/ Save \/ SplitAnswered \/ UpdateAnswered
           \/ SaveLost \/ Link \/ LinkAnswered \/ UNCHANGED formVars
  BY <1>4 DEF OpenForm, ListRead, CloseForm, Save, SplitAnswered, UpdateAnswered, SaveLost,
              Link, LinkAnswered, formVars
<1>5. QED
  BY <1>1, <1>2, <1>3, <1>4 DEF FormNext, Editing

FormInv == FormTypes /\ SplitsAddUp /\ SaveInv

LEMMA FormInvInit == FormInit => FormInv
<1> SUFFICES ASSUME FormInit PROVE FormInv
  OBVIOUS
<1>1. FormTypes
  BY FormTypesInit
<1>2. server.parts = Unsplit /\ save.phase = "none"
  BY DEF FormInit, Blank, NoSave
<1>3. SplitsAddUp
  BY <1>2, UnsplitRows DEF SplitsAddUp
<1>4. SaveInv
  BY <1>2 DEF SaveInv, Carries, StoredParts, StoredRest
<1>5. QED
  BY <1>1, <1>3, <1>4 DEF FormInv

LEMMA FormInvNext == FormInv /\ [FormNext]_formVars => FormInv'
<1> SUFFICES ASSUME FormInv, [FormNext]_formVars PROVE FormInv'
  OBVIOUS
<1>1. FormTypes /\ SplitsAddUp /\ SaveInv
  BY DEF FormInv
<1>2. FormTypes'
  BY <1>1, FormTypesNext
<1>3. SplitsAddUp'
  BY <1>1, SplitsNext
<1>4. SaveInv'
  BY <1>1, SaveNext
<1>5. QED
  BY <1>2, <1>3, <1>4 DEF FormInv

\* A posting and a draft always have a first row, and requests are in one of
\* their phases, whatever is typed, added, removed and saved.
THEOREM FormTypesOK == FormSpec => []FormTypeOK
<1>1. FormInv => FormTypeOK
  <2> SUFFICES ASSUME FormInv PROVE FormTypeOK
    OBVIOUS
  <2>1. /\ server \in Posting /\ base \in Posting /\ draft \in Draft
        /\ save \in Request \cup {NoSave} /\ link \in Linking /\ listed \in Posting
    BY DEF FormInv, FormTypes
  <2>2. \A parts \in {server.parts, listed.parts, base.parts, draft.rows} : parts # <<>>
    BY <2>1 DEF Posting, Draft, Rows
  <2>3. \A i \in DOMAIN draft.rows : draft.rows[i] \in FormRow
    BY <2>1, RowsAre DEF Draft
  <2>4. {server.note, server.tags, server.date, draft.note, draft.tags, draft.date} \subseteq Text
    BY <2>1 DEF Posting, Draft
  <2>5. save.phase \in {"none", "split", "splitStored", "update", "updateStored"}
    BY <2>1 DEF Request, NoSave
  <2>6. link.phase \in {"none", "sent", "stored"}
    BY <2>1 DEF Linking
  <2>7. QED
    BY <2>2, <2>3, <2>4, <2>5, <2>6 DEF FormTypeOK
<1>2. QED
  BY FormInvInit, FormInvNext, <1>1, PTL DEF FormSpec

\* The allocations of a posting always add up to it, and so does every split
\* that is sent, for any amount and any number of rows: the sums themselves are
\* computed here, from the fold.
THEOREM SplitsAlwaysAddUp == FormSpec => []SplitsAddUp
<1>1. FormInv => SplitsAddUp
  BY DEF FormInv
<1>2. QED
  BY FormInvInit, FormInvNext, <1>1, PTL DEF FormSpec

\* A note another member has written goes only when it is changed here, or when
\* a split or a receipt replaces the allocation that holds it, for any amount
\* and any age of the row the sidebar was opened with.
THEOREM OthersNotesStay == FormSpec => OthersNoteStays
<1>1. ASSUME FormInv, [FormNext]_formVars, server.note = 2, server'.note # 2
      PROVE  \/ UpdateStored /\ save.vals.note # save.was
             \/ SplitStored
             \/ LinkStored
  BY <1>1, NoteNext DEF FormInv, SaveInv
<1>2. QED
  BY FormInvInit, FormInvNext, <1>1, PTL DEF FormSpec, OthersNoteStays

\* When the sidebar closes after a save, both of its requests are stored.
THEOREM FormSaved == FormSpec => SavedWhenClosed
<1>1. ASSUME FormInv, [FormNext]_formVars, Closes, ~meddled
      PROVE  /\ server.tags = save.vals.tags
             /\ save.rows # <<>> => server.parts = save.rows
             /\ save.vals.date # 0 => server.date = save.vals.date
             /\ save.vals.note # save.was => server.note = save.vals.note
  <2>1. save.phase = "updateStored"
    BY <1>1 DEF Closes, UpdateAnswered
  <2>2. QED
    BY <1>1, <2>1 DEF FormInv, SaveInv, StoredParts, StoredRest
<1>2. QED
  BY FormInvInit, FormInvNext, <1>1, PTL DEF FormSpec, SavedWhenClosed

-----------------------------------------------------------------------------
(* The budget's sidebar: sums of a save.                                    *)

Bill == [amt: Nat, months: SUBSET Month]

\* A month's part of one line is its amount, or nothing.
LEMMA SumOfLine ==
  ASSUME NEW l \in Bill, NEW m \in Month
  PROVE  Sum(<<l>>, m) \in Nat
<1> DEFINE seq == <<l>>
           Body(f) == [s \in SUBSET (1..1) |->
                         IF s = {} THEN 0
                         ELSE IF m \in seq[Max(s)].months THEN f[s \ {Max(s)}] + seq[Max(s)].amt
                              ELSE f[s \ {Max(s)}]]
           C == CHOOSE f : f = Body(f)
           F == [s \in SUBSET (1..1) |-> IF s = {} \/ m \notin l.months THEN 0 ELSE l.amt]
<1>1. DOMAIN seq = 1..1 /\ seq[1] = l
  OBVIOUS
<1>2. \A s \in SUBSET (1..1) : s # {} => Max(s) = 1 /\ s \ {1} = {}
  <2> SUFFICES ASSUME NEW s \in SUBSET (1..1), s # {} PROVE Max(s) = 1 /\ s \ {1} = {}
    OBVIOUS
  <2>1. \A x \in 1..1 : x = 1
    OBVIOUS
  <2>2. 1 \in s /\ s \ {1} = {}
    BY <2>1
  <2>3. QED
    BY <2>2, LastIsMax
<1> HIDE DEF seq
<1>3. Sum(seq, m) = C[1..1]
  BY <1>1 DEF Sum, FoldLeft, MapThenFoldSet
<1>4. {} \in SUBSET (1..1) /\ 1..1 \in SUBSET (1..1) /\ 1..1 # {}
  OBVIOUS
<1>5. ASSUME NEW f, f = Body(f)
      PROVE  f[{}] = 0 /\ f[1..1] = IF m \in l.months THEN f[{}] + l.amt ELSE f[{}]
  <2>1. Max(1..1) = 1 /\ (1..1) \ {1} = {}
    BY <1>2, <1>4
  <2>2. Body(f)[{}] = 0
    BY <1>4
  <2>3. Body(f)[1..1] = IF m \in seq[1].months THEN f[{}] + seq[1].amt ELSE f[{}]
    BY <1>4, <2>1
  <2>4. QED
    BY <1>1, <1>5, <2>2, <2>3
<1>6. F = Body(F)
  <2>1. ASSUME NEW s \in SUBSET (1..1), s # {}
        PROVE  /\ F[s] = IF m \in l.months THEN l.amt ELSE 0
               /\ Body(F)[s] = IF m \in l.months THEN F[{}] + l.amt ELSE F[{}]
    <3>1. Max(s) = 1 /\ s \ {Max(s)} = {}
      BY <1>2, <2>1
    <3>2. QED
      BY <1>1, <2>1, <3>1
  <2>2. F[{}] = 0 /\ Body(F)[{}] = 0 /\ l.amt \in Nat
    BY <1>4 DEF Bill
  <2>3. DOMAIN F = SUBSET (1..1) /\ DOMAIN Body(F) = SUBSET (1..1) /\ F = [s \in DOMAIN F |-> F[s]]
    OBVIOUS
  <2> HIDE DEF F
  <2>4. ASSUME NEW s \in SUBSET (1..1) PROVE F[s] = Body(F)[s]
    <3>1. CASE s = {}
      BY <2>2, <3>1
    <3>2. CASE s # {}
      <4> HIDE DEF Body
      <4>1. QED
        BY <2>1, <2>2, <3>2
    <3>3. QED
      BY <3>1, <3>2
  <2>5. QED
    BY <2>3, <2>4
<1> HIDE DEF F, Body
<1>7. C = Body(C)
  BY <1>6
<1> HIDE DEF C
<1>8. C[1..1] \in Nat
  BY <1>5, <1>7 DEF Bill
<1>9. QED
  BY <1>3, <1>8 DEF seq

-----------------------------------------------------------------------------
(* The budget's sidebar: types.  Amounts of a fixed category are left open:  *)
(* what counts is that a month of one has a row at most.                     *)

Phases == {"sent", "seen", "stored", "failed", "replaced"}

SaveLike(s) ==
    [id: {s.id}, kind: Kind, sheet: Sheet, content: {s.content}, phase: [Month -> Phases],
     saw: [Month -> [born: BOOLEAN, row: BOOLEAN]], clean: BOOLEAN]

IsSave(s) ==
    /\ s \in SaveLike(s)
    /\ s.sheet[1] = s.kind
    /\ s.kind = "food" => \E l \in Bill : s.content = <<l>>

OneRow(r) == r = <<>> \/ \E v : r = <<v>>

RowTypes ==
    /\ rows = [t \in Sheet |-> [m \in Month |-> rows[t][m]]]
    /\ \A t \in Sheet, m \in Month : IF t[1] = "food" THEN rows[t][m] \in Seq(Nat)
                                                      ELSE OneRow(rows[t][m])

CacheTypes ==
    /\ cached = [t \in Sheet |-> cached[t]]
    /\ \A t \in Sheet, m \in Month : t[1] = "food" => cached[t][m] \in Seq(Nat)
    /\ asking \subseteq Sheet \X {"rows", "bills"}

DraftOK ==
    /\ sidebar \in [on: BOOLEAN, kind: Kind, year: Year]
    /\ filled \in Kind \cup {"none"}
    /\ line \in [amt: Int, months: SUBSET Month]

SavesOK == \A s \in saves : IsSave(s)

BillTypes == bills = [t \in Sheet |-> bills[t]]

BudgetTypes == RowTypes /\ BillTypes /\ CacheTypes /\ DraftOK /\ SavesOK /\ presses \in Nat /\ born \in BOOLEAN

LEMMA SheetIs ==
  ASSUME DraftOK
  PROVE  Shown \in Sheet /\ Shown[1] = sidebar.kind /\ \A k \in Kind, y \in Year : <<k, y>> \in Sheet
BY DEF DraftOK, Shown, Sheet

LEMMA MissingOK ==
  ASSUME NEW t \in Sheet
  PROVE  Missing(t) \subseteq Sheet \X {"rows", "bills"}
BY DEF Missing, Queries

\* What a save becomes when the state of one of its months changes.
LEMMA Rephased ==
  ASSUME NEW s, IsSave(s), NEW m \in Month, NEW p \in Phases
  PROVE  LET n == [s EXCEPT !.phase[m] = p] IN
         /\ IsSave(n) /\ n.id = s.id /\ n.kind = s.kind /\ n.sheet = s.sheet
         /\ n.content = s.content /\ n.saw = s.saw /\ n.clean = s.clean
         /\ n.phase = [s.phase EXCEPT ![m] = p]
<1> DEFINE n == [s EXCEPT !.phase = [s.phase EXCEPT ![m] = p]]
<1>1. [s.phase EXCEPT ![m] = p] \in [Month -> Phases]
  BY DEF IsSave, SaveLike
<1>2. /\ n \in SaveLike(s) /\ n.id = s.id /\ n.kind = s.kind /\ n.sheet = s.sheet
      /\ n.content = s.content /\ n.saw = s.saw /\ n.clean = s.clean
      /\ n.phase = [s.phase EXCEPT ![m] = p]
  BY <1>1 DEF IsSave, SaveLike
<1> HIDE DEF n
<1>3. IsSave(n)
  BY <1>2 DEF IsSave, SaveLike
<1>4. n = [s EXCEPT !.phase[m] = p]
  BY DEF n, IsSave, SaveLike
<1>5. QED
  BY <1>2, <1>3, <1>4

IsSeen(s, n, m, b, r) == n = [s EXCEPT !.phase[m] = "seen", !.saw[m] = [born |-> b, row |-> r]]

LEMMA Seeing ==
  ASSUME NEW s, IsSave(s), NEW m \in Month, NEW b \in BOOLEAN, NEW r \in BOOLEAN, NEW n,
         IsSeen(s, n, m, b, r)
  PROVE  /\ IsSave(n) /\ n.id = s.id /\ n.kind = s.kind /\ n.sheet = s.sheet
         /\ n.content = s.content /\ n.clean = s.clean
         /\ n.phase = [s.phase EXCEPT ![m] = "seen"]
         /\ n.saw = [s.saw EXCEPT ![m] = [born |-> b, row |-> r]]
<1> DEFINE k == [s EXCEPT !.phase[m] = "seen"]
<1>1. /\ IsSave(k) /\ k.id = s.id /\ k.kind = s.kind /\ k.sheet = s.sheet
      /\ k.content = s.content /\ k.saw = s.saw /\ k.clean = s.clean
      /\ k.phase = [s.phase EXCEPT ![m] = "seen"]
  BY Rephased DEF Phases
<1>2. n = [k EXCEPT !.saw[m] = [born |-> b, row |-> r]]
  BY DEF IsSeen
<1> HIDE DEF k
<1>3. n = [k EXCEPT !.saw = [k.saw EXCEPT ![m] = [born |-> b, row |-> r]]]
  BY <1>1, <1>2 DEF IsSave, SaveLike
<1>4. [k.saw EXCEPT ![m] = [born |-> b, row |-> r]] \in [Month -> [born: BOOLEAN, row: BOOLEAN]]
  BY <1>1 DEF IsSave, SaveLike
<1>5. /\ n \in SaveLike(k) /\ n.id = k.id /\ n.kind = k.kind /\ n.sheet = k.sheet
      /\ n.content = k.content /\ n.clean = k.clean /\ n.phase = k.phase
      /\ n.saw = [k.saw EXCEPT ![m] = [born |-> b, row |-> r]]
  BY <1>1, <1>3, <1>4 DEF IsSave, SaveLike
<1>6. IsSave(n)
  BY <1>1, <1>5 DEF IsSave, SaveLike
<1>7. QED
  BY <1>1, <1>5, <1>6

LEMMA AllPhased ==
  ASSUME NEW s, IsSave(s), NEW p \in Phases
  PROVE  LET n == [s EXCEPT !.phase = [m \in Month |-> p]] IN
         /\ IsSave(n) /\ n.id = s.id /\ n.kind = s.kind /\ n.sheet = s.sheet
         /\ n.content = s.content /\ n.saw = s.saw /\ n.clean = s.clean
         /\ n.phase = [m \in Month |-> p]
<1> DEFINE f == [m \in Month |-> p]
           n == [s EXCEPT !.phase = f]
<1>1. f \in [Month -> Phases]
  OBVIOUS
<1> HIDE DEF f
<1>2. /\ n \in SaveLike(s) /\ n.id = s.id /\ n.kind = s.kind /\ n.sheet = s.sheet
      /\ n.content = s.content /\ n.saw = s.saw /\ n.clean = s.clean /\ n.phase = f
  BY <1>1 DEF IsSave, SaveLike
<1> HIDE DEF n
<1>3. IsSave(n)
  BY <1>2 DEF IsSave, SaveLike
<1>4. QED
  BY <1>2, <1>3 DEF n, f

\* What the saves become when the sidebar's is sent, and when someone else
\* writes a month of the sheet t.
Overtaken(s) == [s EXCEPT !.clean = s.clean /\ s.sheet # Shown]

Disturbed(s, t) == [s EXCEPT !.clean = s.clean /\ s.sheet # t]

LEMMA Disturbing ==
  ASSUME NEW s, IsSave(s), NEW t
  PROVE  /\ IsSave(Disturbed(s, t)) /\ Disturbed(s, t).kind = s.kind /\ Disturbed(s, t).sheet = s.sheet
         /\ Disturbed(s, t).content = s.content /\ Disturbed(s, t).saw = s.saw
         /\ Disturbed(s, t).phase = s.phase /\ (Disturbed(s, t).clean <=> s.clean /\ s.sheet # t)
<1> DEFINE d == s.clean /\ s.sheet # t
           n == [s EXCEPT !.clean = d]
<1>1. d \in BOOLEAN /\ Disturbed(s, t) = n /\ (d <=> s.clean /\ s.sheet # t)
  BY DEF Disturbed
<1> HIDE DEF d
<1>2. /\ n \in SaveLike(s) /\ n.id = s.id /\ n.kind = s.kind /\ n.sheet = s.sheet
      /\ n.content = s.content /\ n.saw = s.saw /\ n.phase = s.phase /\ n.clean = d
  BY <1>1 DEF IsSave, SaveLike
<1> HIDE DEF n
<1>3. IsSave(n)
  BY <1>2 DEF IsSave, SaveLike
<1>4. QED
  BY <1>1, <1>2, <1>3

LEMMA Overtaking ==
  ASSUME NEW s, IsSave(s)
  PROVE  /\ IsSave(Overtaken(s)) /\ Overtaken(s).kind = s.kind /\ Overtaken(s).sheet = s.sheet
         /\ Overtaken(s).content = s.content /\ Overtaken(s).saw = s.saw
         /\ Overtaken(s).phase = s.phase /\ (Overtaken(s).clean <=> s.clean /\ s.sheet # Shown)
<1>1. Overtaken(s) = Disturbed(s, Shown)
  BY DEF Overtaken, Disturbed
<1>2. QED
  BY <1>1, Disturbing

\* A save that is sent.
LEMMA Sending ==
  ASSUME BudgetTypes, SaveBudget
  PROVE  \E n :
           /\ IsSave(n) /\ n.sheet = Shown
           /\ \A m \in Month : n.phase[m] = "sent" /\ n.saw[m].row = FALSE
           /\ n.clean => \A s \in saves : s.sheet # Shown
           /\ saves' = {Overtaken(s) : s \in saves} \cup {n}
<1>1. PICK content :
        /\ SendBudget(content)
        /\ sidebar.kind = "food" => content = <<line>> /\ line.amt >= 0
  BY DEF SaveBudget, SaveLine, SaveBills
<1> DEFINE n == [id |-> presses, kind |-> sidebar.kind, sheet |-> Shown, content |-> content,
                 phase |-> [m \in Month |-> "sent"],
                 saw |-> [m \in Month |-> [born |-> FALSE, row |-> FALSE]],
                 clean |-> \A s \in saves : s.sheet # Shown]
<1>2. Shown \in Sheet /\ Shown[1] = sidebar.kind /\ sidebar.kind \in Kind
  BY SheetIs DEF BudgetTypes, DraftOK
<1>3. [m \in Month |-> "sent"] \in [Month -> Phases]
  BY DEF Phases
<1>4. [m \in Month |-> [born |-> FALSE, row |-> FALSE]] \in [Month -> [born: BOOLEAN, row: BOOLEAN]]
  OBVIOUS
<1>5. (\A s \in saves : s.sheet # Shown) \in BOOLEAN
  OBVIOUS
<1>6. sidebar.kind = "food" => \E l \in Bill : content = <<l>>
  <2> SUFFICES ASSUME sidebar.kind = "food" PROVE line \in Bill /\ content = <<line>>
    OBVIOUS
  <2>1. QED
    BY <1>1 DEF BudgetTypes, DraftOK, Bill
<1>7. n \in SaveLike(n)
  BY <1>2, <1>3, <1>4, <1>5 DEF SaveLike
<1>8. IsSave(n)
  BY <1>2, <1>6, <1>7 DEF IsSave
<1>9. QED
  BY <1>1, <1>8 DEF SendBudget, Overtaken

\* What a draft is filled with.
LEMMA FilledLine ==
  ASSUME BudgetTypes, NEW l \in LineFrom(cached[Shown]), sidebar.kind = "food"
  PROVE  l \in [amt: Int, months: SUBSET Month]
<1>1. Shown \in Sheet /\ Shown[1] = "food"
  BY SheetIs DEF BudgetTypes
<1> DEFINE months == cached[Shown]
<1>2. \A m \in Month : months[m] \in Seq(Nat)
  BY <1>1 DEF BudgetTypes, CacheTypes
<1>3. \A m \in Month : ToSet(months[m]) \subseteq Nat
  <2> SUFFICES ASSUME NEW m \in Month PROVE ToSet(months[m]) \subseteq Nat
    OBVIOUS
  <2>1. DOMAIN months[m] = 1..Len(months[m])
    BY <1>2, LenProperties
  <2>2. \A i \in DOMAIN months[m] : months[m][i] \in Nat
    BY <1>2, <2>1, ElementOfSeq
  <2>3. QED
    BY <2>2 DEF ToSet
<1> HIDE DEF months
<1>4. Amounts(months) \subseteq Nat
  BY <1>3 DEF Amounts
<1>5. NonZero(months) \subseteq Month
  BY DEF NonZero
<1>6. \/ l = [amt |-> 0, months |-> Month]
      \/ \E a \in Amounts(months) \ {0} : l = [amt |-> a, months |-> NonZero(months)]
  BY DEF LineFrom, NoLine, months
<1>7. QED
  BY <1>4, <1>5, <1>6

\* A row in place: the first one replaced, or one more.
LEMMA RowOf ==
  ASSUME NEW r \in Seq(Nat), NEW v \in Nat
  PROVE  /\ Append(r, v) \in Seq(Nat) /\ Append(r, v) # <<>>
         /\ r # <<>> => [r EXCEPT ![1] = v] \in Seq(Nat) /\ [r EXCEPT ![1] = v] # <<>>
                        /\ [r EXCEPT ![1] = v][1] = v
         /\ r = <<>> => Append(r, v)[1] = v
         /\ r # <<>> => Len(Append(r, v)) > 1
<1>1. Append(r, v) \in Seq(Nat) /\ Append(r, v) # <<>> /\ Len(Append(r, v)) = Len(r) + 1
      /\ Append(r, v)[Len(r) + 1] = v
  BY AppendProperties
<1>2. Len(r) \in Nat /\ (r # <<>> => Len(r) > 0) /\ Len(<<>>) = 0
  BY EmptySeq, LenProperties
<1>3. ASSUME r # <<>>
      PROVE  [r EXCEPT ![1] = v] \in Seq(Nat) /\ [r EXCEPT ![1] = v] # <<>> /\ [r EXCEPT ![1] = v][1] = v
  <2>1. 1 \in 1..Len(r)
    BY <1>2, <1>3
  <2> DEFINE n == [r EXCEPT ![1] = v]
  <2>2. n \in Seq(Nat) /\ Len(n) = Len(r) /\ n[1] = v
    BY <2>1, ExceptSeq
  <2> HIDE DEF n
  <2>3. n # <<>>
    BY <1>2, <1>3, <2>2
  <2>4. QED
    BY <2>2, <2>3 DEF n
<1>4. r = <<>> => Append(r, v)[1] = v
  BY <1>1, <1>2
<1>5. QED
  BY <1>1, <1>2, <1>3, <1>4

LEMMA SingleRow ==
  ASSUME NEW r, OneRow(r), NEW v
  PROVE  r # <<>> => /\ OneRow([r EXCEPT ![1] = v]) /\ [r EXCEPT ![1] = v] # <<>>
                     /\ [r EXCEPT ![1] = v][1] = v
<1> SUFFICES ASSUME r # <<>>
             PROVE  OneRow([r EXCEPT ![1] = v]) /\ [r EXCEPT ![1] = v] # <<>> /\ [r EXCEPT ![1] = v][1] = v
  OBVIOUS
<1>1. PICK w : r = <<w>>
  BY DEF OneRow
<1>2. [r EXCEPT ![1] = v] = <<v>>
  BY <1>1
<1>3. QED
  BY <1>2 DEF OneRow

\* A month of a sheet gets the row r, and nothing else changes.
RowsWith(t, m, r) ==
    /\ rows' = [u \in Sheet |-> [k \in Month |-> rows'[u][k]]]
    /\ \A u \in Sheet, k \in Month : rows'[u][k] = IF u = t /\ k = m THEN r ELSE rows[u][k]

LEMMA RowSet ==
  ASSUME RowTypes, NEW t \in Sheet, NEW m \in Month, NEW r,
         rows' = [rows EXCEPT ![t] = [rows[t] EXCEPT ![m] = r]]
  PROVE  RowsWith(t, m, r)
<1>1. DOMAIN rows = Sheet /\ \A u \in Sheet : rows[u] = [k \in Month |-> rows[u][k]]
  BY DEF RowTypes
<1>2. \A u \in Sheet : rows'[u] = IF u = t THEN [k \in Month |-> IF k = m THEN r ELSE rows[t][k]] ELSE rows[u]
  BY <1>1
<1>3. \A u \in Sheet, k \in Month : rows'[u][k] = IF u = t /\ k = m THEN r ELSE rows[u][k]
  BY <1>1, <1>2
<1>4. DOMAIN rows' = Sheet /\ rows' = [u \in Sheet |-> rows'[u]]
  BY <1>1
<1>5. \A u \in Sheet : rows'[u] = [k \in Month |-> rows'[u][k]]
  BY <1>1, <1>2
<1>6. QED
  BY <1>3, <1>4, <1>5 DEF RowsWith

\* What the server writes for a month of a variable category.
Written(s, m) == IF s.saw[m].row THEN [rows[s.sheet][m] EXCEPT ![1] = Sum(s.content, m)]
                 ELSE Append(rows[s.sheet][m], Sum(s.content, m))

LEMMA Writing ==
  ASSUME BudgetTypes, NEW s \in saves, NEW m \in Month, UpsertStored(s, m),
         s.saw[m].row => rows[s.sheet][m] # <<>>
  PROVE  /\ RowTypes'
         /\ \A u \in Sheet, k \in Month :
              rows'[u][k] = IF u = s.sheet /\ k = m THEN Written(s, m) ELSE rows[u][k]
         /\ Written(s, m) # <<>>
         /\ Len(Written(s, m)) <= 1 => Written(s, m)[1] = Sum(s.content, m)
<1>1. IsSave(s) /\ RowTypes
  BY DEF BudgetTypes, SavesOK
<1>2. s.sheet \in Sheet /\ s.sheet[1] = "food" /\ s.kind = "food"
  BY <1>1 DEF UpsertStored, IsSave, SaveLike
<1>3. Sum(s.content, m) \in Nat
  BY <1>1, <1>2, SumOfLine DEF IsSave
<1> DEFINE r == rows[s.sheet][m]
           v == Sum(s.content, m)
<1>4. r \in Seq(Nat)
  BY <1>1, <1>2 DEF RowTypes
<1>5. rows' = [rows EXCEPT ![s.sheet] = [rows[s.sheet] EXCEPT ![m] = Written(s, m)]]
  BY <1>1 DEF UpsertStored, Written, RowTypes
<1>6. RowsWith(s.sheet, m, Written(s, m))
  BY <1>1, <1>2, <1>5, RowSet
<1>7. Written(s, m) = IF s.saw[m].row THEN [r EXCEPT ![1] = v] ELSE Append(r, v)
  BY DEF Written
<1>8. s.saw[m].row => r # <<>>
  OBVIOUS
<1> HIDE DEF r, v
<1>9. /\ Written(s, m) \in Seq(Nat) /\ Written(s, m) # <<>>
      /\ Len(Written(s, m)) <= 1 => Written(s, m)[1] = v
  <2>1. CASE s.saw[m].row
    BY <1>3, <1>4, <1>7, <1>8, <2>1, RowOf DEF v
  <2>2. CASE ~s.saw[m].row
    <3>1. Len(Append(r, v)) \in Nat
      BY <1>3, <1>4, RowOf, LenProperties DEF v
    <3>2. QED
      BY <1>3, <1>4, <1>7, <2>2, <3>1, RowOf DEF v
  <2>3. QED
    BY <2>1, <2>2
<1>10. RowTypes'
  BY <1>1, <1>2, <1>6, <1>9 DEF RowTypes, RowsWith
<1>11. QED
  BY <1>6, <1>9, <1>10 DEF v, RowsWith

\* What the server writes for the months of a fixed one.
LEMMA Resumming ==
  ASSUME BudgetTypes, NEW s \in saves, SumBills(s)
  PROVE  /\ RowTypes'
         /\ \A u \in Sheet, k \in Month :
              rows'[u][k] = IF u = s.sheet THEN Resummed(rows[u], s.content, k) ELSE rows[u][k]
         /\ \A k \in Month :
              /\ rows[s.sheet][k] # <<>> => rows'[s.sheet][k] # <<>>
              /\ rows'[s.sheet][k] = <<>> => s.content = <<>>
              /\ rows'[s.sheet][k] # <<>> => rows'[s.sheet][k][1] = Sum(s.content, k)
<1>1. IsSave(s) /\ RowTypes /\ DOMAIN rows = Sheet
  BY DEF BudgetTypes, SavesOK, RowTypes
<1>2. s.sheet \in Sheet /\ s.sheet[1] = "rent"
  BY <1>1 DEF SumBills, IsSave, SaveLike
<1> DEFINE new == [k \in Month |-> Resummed(rows[s.sheet], s.content, k)]
<1>3. rows' = [rows EXCEPT ![s.sheet] = new]
  BY DEF SumBills
<1>4. ASSUME NEW k \in Month
      PROVE  /\ OneRow(new[k])
             /\ rows[s.sheet][k] # <<>> => new[k] # <<>>
             /\ new[k] = <<>> => s.content = <<>>
             /\ new[k] # <<>> => new[k][1] = Sum(s.content, k)
  <2>1. OneRow(rows[s.sheet][k])
    BY <1>1, <1>2 DEF RowTypes
  <2>2. new[k] = Resummed(rows[s.sheet], s.content, k)
    OBVIOUS
  <2> HIDE DEF new
  <2>3. CASE rows[s.sheet][k] # <<>>
    <3>1. Len(rows[s.sheet][k]) = 1
      <4>1. PICK w : rows[s.sheet][k] = <<w>>
        BY <2>1, <2>3 DEF OneRow
      <4>2. QED
        BY <4>1
    <3>2. new[k] = [rows[s.sheet][k] EXCEPT ![1] = Sum(s.content, k)]
      BY <2>2, <2>3, <3>1 DEF Resummed
    <3>3. QED
      BY <2>1, <2>3, <3>2, SingleRow
  <2>4. CASE rows[s.sheet][k] = <<>> /\ s.content # <<>>
    <3>1. new[k] = <<Sum(s.content, k)>>
      BY <2>2, <2>4 DEF Resummed
    <3>2. QED
      BY <2>4, <3>1 DEF OneRow
  <2>5. CASE rows[s.sheet][k] = <<>> /\ s.content = <<>>
    BY <2>2, <2>5 DEF Resummed, OneRow
  <2>6. QED
    BY <2>3, <2>4, <2>5
<1>5. \A u \in Sheet : rows'[u] = IF u = s.sheet THEN new ELSE rows[u]
  BY <1>1, <1>3
<1>6. \A u \in Sheet, k \in Month :
        rows'[u][k] = IF u = s.sheet THEN Resummed(rows[u], s.content, k) ELSE rows[u][k]
  <2> SUFFICES ASSUME NEW u \in Sheet, NEW k \in Month
               PROVE  rows'[u][k] = IF u = s.sheet THEN Resummed(rows[u], s.content, k) ELSE rows[u][k]
    OBVIOUS
  <2>1. CASE u = s.sheet
    <3>1. rows'[u][k] = new[k] /\ new[k] = Resummed(rows[s.sheet], s.content, k)
      BY <1>5, <2>1
    <3>2. QED
      BY <2>1, <3>1
  <2>2. CASE u # s.sheet
    BY <1>5, <2>2
  <2>3. QED
    BY <2>1, <2>2
<1>7. rows' = [u \in Sheet |-> [k \in Month |-> rows'[u][k]]]
  <2>1. rows' = [u \in Sheet |-> rows'[u]]
    BY <1>1, <1>3
  <2>2. \A u \in Sheet : rows'[u] = [k \in Month |-> rows'[u][k]]
    BY <1>1, <1>5 DEF RowTypes
  <2>3. QED
    BY <2>1, <2>2
<1>8. \A k \in Month : rows'[s.sheet][k] = new[k]
  BY <1>2, <1>5
<1> HIDE DEF new
<1>9. RowTypes'
  BY <1>1, <1>2, <1>4, <1>5, <1>7 DEF RowTypes
<1>10. QED
  BY <1>4, <1>6, <1>8, <1>9

\* Another member's row.
LEMMA OthersRow ==
  ASSUME BudgetTypes, NEW t \in Sheet, NEW m \in Month,
         rows' = [rows EXCEPT ![t][m] = IF @ = <<>> THEN << 1 >> ELSE [@ EXCEPT ![1] = 1]]
  PROVE  /\ RowTypes'
         /\ \A u \in Sheet : u # t => rows'[u] = rows[u]
         /\ \A u \in Sheet, k \in Month : rows[u][k] # <<>> => rows'[u][k] # <<>>
<1> DEFINE r == IF rows[t][m] = <<>> THEN <<1>> ELSE [rows[t][m] EXCEPT ![1] = 1]
<1>1. RowTypes
  BY DEF BudgetTypes
<1>2. rows' = [rows EXCEPT ![t] = [rows[t] EXCEPT ![m] = r]]
  BY <1>1 DEF RowTypes
<1>3. r # <<>> /\ IF t[1] = "food" THEN r \in Seq(Nat) ELSE OneRow(r)
  <2>1. CASE rows[t][m] = <<>>
    <3>1. r = <<1>>
      BY <2>1
    <3>2. <<1>> \in Seq(Nat) /\ <<1>> # <<>> /\ OneRow(<<1>>)
      BY DEF OneRow
    <3>3. QED
      BY <3>1, <3>2
  <2>2. CASE rows[t][m] # <<>>
    <3>1. r = [rows[t][m] EXCEPT ![1] = 1]
      BY <2>2
    <3>2. CASE t[1] = "food"
      BY <1>1, <2>2, <3>1, <3>2, RowOf DEF RowTypes
    <3>3. CASE t[1] # "food"
      BY <1>1, <2>2, <3>1, <3>3, SingleRow DEF RowTypes
    <3>4. QED
      BY <3>2, <3>3
  <2>3. QED
    BY <2>1, <2>2
<1> HIDE DEF r
<1>4. RowsWith(t, m, r)
  BY <1>1, <1>2, RowSet
<1>5. \A u \in Sheet : u # t => rows'[u] = rows[u]
  BY <1>1, <1>2 DEF RowTypes
<1>6. RowTypes'
  <2>1. ASSUME NEW u \in Sheet, NEW k \in Month
        PROVE  IF u[1] = "food" THEN rows'[u][k] \in Seq(Nat) ELSE OneRow(rows'[u][k])
    <3>1. CASE u = t /\ k = m
      <4>1. rows'[u][k] = r
        BY <1>4, <3>1 DEF RowsWith
      <4>2. QED
        BY <1>3, <3>1, <4>1
    <3>2. CASE ~(u = t /\ k = m)
      <4>1. rows'[u][k] = rows[u][k]
        BY <1>4, <3>2 DEF RowsWith
      <4>2. QED
        BY <1>1, <4>1 DEF RowTypes
    <3>3. QED
      BY <3>1, <3>2
  <2>2. QED
    BY <1>4, <2>1 DEF RowTypes, RowsWith
<1>7. QED
  BY <1>3, <1>4, <1>5, <1>6 DEF RowsWith

LEMMA BudgetTypesInit == BudgetInit => BudgetTypes
<1> SUFFICES ASSUME BudgetInit PROVE BudgetTypes
  OBVIOUS
<1>1. \A t \in Sheet, m \in Month :
        /\ rows[t][m] = IF t = <<"food", 1>> /\ m = December THEN <<1>> ELSE <<>>
        /\ cached[t][m] = <<>>
  BY DEF BudgetInit
<1>2. <<1>> \in Seq(Nat) /\ <<>> \in Seq(Nat) /\ OneRow(<<>>)
  BY DEF OneRow
<1>3. RowTypes
  <2>1. rows = [t \in Sheet |-> [m \in Month |-> rows[t][m]]]
    BY DEF BudgetInit
  <2>2. ASSUME NEW t \in Sheet, NEW m \in Month
        PROVE  IF t[1] = "food" THEN rows[t][m] \in Seq(Nat) ELSE OneRow(rows[t][m])
    <3>1. CASE t = <<"food", 1>> /\ m = December
      <4>1. t[1] = "food" /\ rows[t][m] = <<1>>
        BY <1>1, <3>1
      <4>2. QED
        BY <1>2, <4>1
    <3>2. CASE ~(t = <<"food", 1>> /\ m = December)
      <4>1. rows[t][m] = <<>>
        BY <1>1, <3>2
      <4>2. QED
        BY <1>2, <4>1
    <3>3. QED
      BY <3>1, <3>2
  <2>3. QED
    BY <2>1, <2>2 DEF RowTypes
<1>4. CacheTypes
  <2>1. cached = [t \in Sheet |-> cached[t]] /\ asking = {}
    BY DEF BudgetInit
  <2>2. QED
    BY <1>1, <1>2, <2>1 DEF CacheTypes
<1>5. DraftOK
  BY DEF BudgetInit, NoLine, DraftOK, Kind, Year
<1>6. SavesOK /\ presses \in Nat /\ born \in BOOLEAN /\ BillTypes
  BY DEF BudgetInit, SavesOK, BillTypes
<1>7. QED
  BY <1>3, <1>4, <1>5, <1>6 DEF BudgetTypes

\* The steps of the page, which leave the saves and the server alone.
Screen ==
    \/ (\E kind \in Kind : OpenBudget(kind)) \/ TurnYear \/ CancelBudget
    \/ BudgetLands \/ BudgetFails \/ FillDraft \/ EditLine \/ EditBill \/ AddBill

LEMMA ScreenKeeps ==
  ASSUME Screen
  PROVE  UNCHANGED <<saves, rows, bills, born>>
<1>1. CASE \E kind \in Kind : OpenBudget(kind)
  BY <1>1 DEF OpenBudget, Press, serverVars
<1>2. CASE TurnYear
  BY <1>2 DEF TurnYear, Press, serverVars
<1>3. CASE CancelBudget
  BY <1>3 DEF CancelBudget, serverVars
<1>4. CASE BudgetLands \/ BudgetFails
  BY <1>4 DEF BudgetLands, BudgetFails, serverVars
<1>5. CASE FillDraft
  BY <1>5 DEF FillDraft, serverVars
<1>6. CASE EditLine \/ EditBill \/ AddBill
  <2>1. Edit
    BY <1>6 DEF EditLine, EditBill, AddBill
  <2>2. QED
    BY <2>1 DEF Edit, Press, serverVars
<1>7. QED
  BY <1>1, <1>2, <1>3, <1>4, <1>5, <1>6 DEF Screen

\* One save goes on.
Becomes(s, n) ==
    /\ saves' = (saves \ {s}) \cup {n}
    /\ IsSave(n) /\ n.kind = s.kind /\ n.sheet = s.sheet /\ n.content = s.content /\ n.clean = s.clean

LEMMA UpsertIs ==
  ASSUME BudgetTypes, NEW s \in saves, NEW m \in Month, Upsert(s, m)
  PROVE  \E n : /\ Becomes(s, n)
                /\ n.phase = [s.phase EXCEPT ![m] = "seen"]
                /\ n.saw = [s.saw EXCEPT ![m] = [born |-> born, row |-> rows[s.sheet][m] # <<>>]]
<1>1. PICK r \in BOOLEAN : r = (rows[s.sheet][m] # <<>>)
  OBVIOUS
<1> DEFINE n == [s EXCEPT !.phase[m] = "seen", !.saw[m] = [born |-> born, row |-> rows[s.sheet][m] # <<>>]]
<1>2. saves' = (saves \ {s}) \cup {n} /\ IsSave(s) /\ born \in BOOLEAN
  BY DEF Upsert, BudgetTypes, SavesOK
<1>3. IsSeen(s, n, m, born, r)
  BY <1>1, Zenon DEF IsSeen
<1> HIDE DEF n
<1>4. /\ IsSave(n) /\ n.kind = s.kind /\ n.sheet = s.sheet
      /\ n.content = s.content /\ n.clean = s.clean
      /\ n.phase = [s.phase EXCEPT ![m] = "seen"]
      /\ n.saw = [s.saw EXCEPT ![m] = [born |-> born, row |-> r]]
  BY <1>2, <1>3, Seeing
<1>5. Becomes(s, n)
  BY <1>2, <1>4 DEF Becomes
<1>6. n.saw = [s.saw EXCEPT ![m] = [born |-> born, row |-> rows[s.sheet][m] # <<>>]]
  BY <1>1, <1>4, Zenon
<1>7. QED
  BY <1>4, <1>5, <1>6

LEMMA PhaseIs ==
  ASSUME BudgetTypes, NEW s \in saves, NEW m \in Month, NEW p \in Phases, saves' = InPhase(s, m, p)
  PROVE  \E n : Becomes(s, n) /\ n.phase = [s.phase EXCEPT ![m] = p] /\ n.saw = s.saw
<1> DEFINE n == [s EXCEPT !.phase[m] = p]
<1>1. IsSave(s)
  BY DEF BudgetTypes, SavesOK
<1>2. /\ IsSave(n) /\ n.kind = s.kind /\ n.sheet = s.sheet /\ n.content = s.content
      /\ n.saw = s.saw /\ n.clean = s.clean /\ n.phase = [s.phase EXCEPT ![m] = p]
  BY <1>1, Rephased
<1>3. saves' = (saves \ {s}) \cup {n}
  BY DEF InPhase
<1> HIDE DEF n
<1>4. QED
  BY <1>2, <1>3 DEF Becomes

LEMMA AllPhaseIs ==
  ASSUME BudgetTypes, NEW s \in saves, NEW p \in Phases, saves' = AllInPhase(s, p)
  PROVE  \E n : Becomes(s, n) /\ n.phase = [m \in Month |-> p] /\ n.saw = s.saw
<1> DEFINE n == [s EXCEPT !.phase = [m \in Month |-> p]]
<1>1. IsSave(s)
  BY DEF BudgetTypes, SavesOK
<1>2. /\ IsSave(n) /\ n.kind = s.kind /\ n.sheet = s.sheet /\ n.content = s.content
      /\ n.saw = s.saw /\ n.clean = s.clean /\ n.phase = [m \in Month |-> p]
  BY <1>1, AllPhased
<1>3. saves' = (saves \ {s}) \cup {n}
  BY DEF AllInPhase
<1> HIDE DEF n
<1>4. QED
  BY <1>2, <1>3 DEF Becomes

\* One save goes on, or has ended.
Moves(s) ==
    \/ \E m \in Month : Upsert(s, m) \/ UpsertStored(s, m) \/ UpsertFails(s, m)
    \/ ReplaceBills(s) \/ SumBills(s) \/ SaveFails(s) \/ Saved(s) \/ NotSaved(s)

LEMMA MovesOn ==
  ASSUME BudgetTypes, NEW s \in saves, Moves(s)
  PROVE  (\E n : Becomes(s, n)) \/ saves' = saves \ {s}
<1>1. ASSUME NEW m \in Month, Upsert(s, m) PROVE \E n : Becomes(s, n)
  BY <1>1, UpsertIs
<1>2. ASSUME NEW m \in Month, UpsertStored(s, m) PROVE \E n : Becomes(s, n)
  <2>1. saves' = InPhase(s, m, "stored") /\ "stored" \in Phases
    BY <1>2 DEF UpsertStored, Phases
  <2>2. QED
    BY <2>1, PhaseIs
<1>3. ASSUME NEW m \in Month, UpsertFails(s, m) PROVE \E n : Becomes(s, n)
  <2>1. saves' = InPhase(s, m, "failed") /\ "failed" \in Phases
    BY <1>3 DEF UpsertFails, Phases
  <2>2. QED
    BY <2>1, PhaseIs
<1>4. CASE ReplaceBills(s)
  <2>1. saves' = InPhase(s, December, "replaced") /\ "replaced" \in Phases /\ December \in Month
    BY <1>4, BudgetAssumption DEF ReplaceBills, Phases
  <2>2. QED
    BY <2>1, PhaseIs
<1>5. CASE SumBills(s)
  <2>1. saves' = AllInPhase(s, "stored") /\ "stored" \in Phases
    BY <1>5 DEF SumBills, Phases
  <2>2. QED
    BY <2>1, AllPhaseIs
<1>6. CASE SaveFails(s)
  <2>1. PICK m \in Month : saves' = InPhase(s, m, "failed") \/ saves' = AllInPhase(s, "failed")
    BY <1>6 DEF SaveFails
  <2>2. "failed" \in Phases
    BY DEF Phases
  <2>3. QED
    BY <2>1, <2>2, PhaseIs, AllPhaseIs
<1>7. CASE Saved(s) \/ NotSaved(s)
  BY <1>7 DEF Saved, NotSaved
<1>8. QED
  BY <1>1, <1>2, <1>3, <1>4, <1>5, <1>6, <1>7 DEF Moves

LEMMA BudgetSteps ==
  ASSUME [BudgetNext]_budgetVars
  PROVE  \/ Screen \/ SaveBudget \/ (\E s \in saves : Moves(s)) \/ OthersBudget \/ UNCHANGED budgetVars
BY DEF BudgetNext, Screen, Moves

LEMMA SavesNext ==
  ASSUME BudgetTypes, [BudgetNext]_budgetVars
  PROVE  SavesOK'
<1>0. SavesOK /\ \A s \in saves : IsSave(s)
  BY DEF BudgetTypes, SavesOK
<1>1. CASE Screen \/ UNCHANGED budgetVars
  <2>1. saves' = saves
    BY <1>1, ScreenKeeps DEF budgetVars
  <2>2. QED
    BY <1>0, <2>1 DEF SavesOK
<1>2. CASE SaveBudget
  <2>1. PICK n : /\ IsSave(n)
                 /\ saves' = {Overtaken(s) : s \in saves} \cup {n}
    BY <1>2, Sending
  <2>2. QED
    BY <1>0, <2>1, Overtaking DEF SavesOK
<1>3. ASSUME NEW s \in saves, Moves(s) PROVE SavesOK'
  BY <1>0, <1>3, MovesOn DEF Becomes, SavesOK
<1>4. CASE OthersBudget
  <2>1. PICK t \in Sheet : saves' = {Disturbed(v, t) : v \in saves}
    BY <1>4 DEF OthersBudget, Disturbed
  <2>2. QED
    BY <1>0, <2>1, Disturbing DEF SavesOK
<1>5. QED
  BY <1>1, <1>2, <1>3, <1>4, BudgetSteps

\* A save that has seen a month's row finds it there.
Found == \A s \in saves : s.kind = "food" => \A m \in Month : s.saw[m].row => rows[s.sheet][m] # <<>>

LEMMA ServerTypesNext ==
  ASSUME BudgetTypes, Found, [BudgetNext]_budgetVars
  PROVE  RowTypes' /\ BillTypes' /\ born' \in BOOLEAN
<1>0. RowTypes /\ BillTypes /\ born \in BOOLEAN /\ SavesOK
  BY DEF BudgetTypes
<1>1. ASSUME UNCHANGED <<rows, bills, born>> PROVE RowTypes' /\ BillTypes' /\ born' \in BOOLEAN
  BY <1>0, <1>1 DEF RowTypes, BillTypes
<1>2. ASSUME rows' = rows PROVE RowTypes'
  BY <1>0, <1>2 DEF RowTypes
<1>3. ASSUME bills' = bills PROVE BillTypes'
  BY <1>0, <1>3 DEF BillTypes
<1>4. CASE Screen \/ UNCHANGED budgetVars
  BY <1>1, <1>4, ScreenKeeps DEF budgetVars, serverVars
<1>5. CASE SaveBudget
  BY <1>1, <1>5 DEF SaveBudget, Press, serverVars
<1>6. CASE OthersBudget
  <2>1. PICK t \in Sheet, m \in Month :
          rows' = [rows EXCEPT ![t][m] = IF @ = <<>> THEN <<1>> ELSE [@ EXCEPT ![1] = 1]]
    BY <1>6 DEF OthersBudget
  <2>2. RowTypes'
    BY <2>1, OthersRow
  <2>3. QED
    BY <1>0, <1>3, <1>6, <2>2 DEF OthersBudget
<1>7. ASSUME NEW s \in saves, Moves(s) PROVE RowTypes' /\ BillTypes' /\ born' \in BOOLEAN
  <2>1. ASSUME NEW m \in Month, UpsertStored(s, m) PROVE RowTypes' /\ BillTypes' /\ born' \in BOOLEAN
    <3>1. s.saw[m].row => rows[s.sheet][m] # <<>>
      BY <2>1 DEF Found, UpsertStored
    <3>2. RowTypes'
      BY <2>1, <3>1, Writing
    <3>3. bills' = bills /\ born' = TRUE
      BY <2>1 DEF UpsertStored
    <3>4. QED
      BY <1>3, <3>2, <3>3
  <2>2. CASE SumBills(s)
    <3>1. RowTypes' /\ bills' = bills /\ born' = born
      BY <2>2, Resumming DEF SumBills
    <3>2. QED
      BY <1>0, <1>3, <3>1
  <2>3. CASE ReplaceBills(s)
    <3>1. rows' = rows /\ born' = born /\ bills' = [bills EXCEPT ![s.sheet] = s.content]
      BY <2>3 DEF ReplaceBills
    <3>2. BillTypes'
      BY <1>0, <3>1 DEF BillTypes
    <3>3. QED
      BY <1>0, <1>2, <3>1, <3>2
  <2>4. ASSUME NEW m \in Month, Upsert(s, m) \/ UpsertFails(s, m) PROVE UNCHANGED <<rows, bills, born>>
    BY <2>4 DEF Upsert, UpsertFails, serverVars
  <2>5. CASE SaveFails(s) \/ Saved(s) \/ NotSaved(s)
    <3>1. UNCHANGED <<rows, bills, born>>
      BY <2>5 DEF SaveFails, Saved, NotSaved, serverVars
    <3>2. QED
      BY <1>1, <3>1
  <2>6. QED
    BY <1>1, <1>7, <2>1, <2>2, <2>3, <2>4, <2>5 DEF Moves
<1>8. QED
  BY <1>4, <1>5, <1>6, <1>7, BudgetSteps

LEMMA CacheTypesNext ==
  ASSUME BudgetTypes, [BudgetNext]_budgetVars
  PROVE  CacheTypes'
<1> DEFINE Queried == Sheet \X {"rows", "bills"}
<1>0. CacheTypes /\ RowTypes /\ DraftOK
  BY DEF BudgetTypes
<1>1. ASSUME cached' = cached, asking' \subseteq Queried PROVE CacheTypes'
  BY <1>0, <1>1 DEF CacheTypes
<1>2. asking \subseteq Queried
  BY <1>0 DEF CacheTypes
<1>3. Shown \in Sheet /\ \A k \in Kind, y \in Year : <<k, y>> \in Sheet
  BY <1>0, SheetIs
<1>4. sidebar.year \in Year /\ sidebar.kind \in Kind /\ 3 - sidebar.year \in Year
  BY <1>0 DEF DraftOK, Year
<1>5. CASE \E kind \in Kind : OpenBudget(kind)
  <2>1. PICK kind \in Kind : OpenBudget(kind)
    BY <1>5
  <2>2. <<kind, sidebar.year>> \in Sheet
    BY <1>3, <1>4
  <2>3. Missing(<<kind, sidebar.year>>) \subseteq Queried
    BY <2>2, MissingOK
  <2>4. asking' \subseteq Queried /\ cached' = cached
    BY <1>2, <2>1, <2>2, <2>3 DEF OpenBudget
  <2>5. QED
    BY <1>1, <2>4
<1>6. CASE TurnYear
  <2>1. <<sidebar.kind, 3 - sidebar.year>> \in Sheet
    BY <1>3, <1>4
  <2>2. Missing(<<sidebar.kind, 3 - sidebar.year>>) \subseteq Queried
    BY <2>1, MissingOK
  <2>3. asking' \subseteq Queried /\ cached' = cached
    BY <1>2, <1>6, <2>2 DEF TurnYear
  <2>4. QED
    BY <1>1, <2>3
<1>7. CASE BudgetLands
  <2>1. PICK q \in asking :
          /\ asking' = asking \ {q}
          /\ cached' = cached \/ cached' = [cached EXCEPT ![q[1]] = rows[q[1]]]
    BY <1>7 DEF BudgetLands
  <2>2. CASE cached' = cached
    BY <1>1, <1>2, <2>1, <2>2
  <2>3. CASE cached' = [cached EXCEPT ![q[1]] = rows[q[1]]]
    <3>1. \A u \in Sheet : cached'[u] = rows[u] \/ cached'[u] = cached[u]
      BY <1>0, <2>3 DEF CacheTypes
    <3>2. cached' = [u \in Sheet |-> cached'[u]]
      BY <1>0, <2>3 DEF CacheTypes
    <3>3. ASSUME NEW u \in Sheet, NEW m \in Month, u[1] = "food" PROVE cached'[u][m] \in Seq(Nat)
      BY <1>0, <3>1, <3>3 DEF CacheTypes, RowTypes
    <3>4. QED
      BY <1>2, <2>1, <3>2, <3>3 DEF CacheTypes
  <2>4. QED
    BY <2>1, <2>2, <2>3
<1>8. ASSUME cached' = cached, asking' \subseteq asking PROVE CacheTypes'
  BY <1>1, <1>2, <1>8
<1>9. CASE CancelBudget \/ FillDraft \/ BudgetFails \/ SaveBudget \/ OthersBudget \/ UNCHANGED budgetVars
  BY <1>8, <1>9 DEF CancelBudget, FillDraft, BudgetFails, SaveBudget, OthersBudget, cacheVars, budgetVars
<1>10. CASE EditLine \/ EditBill \/ AddBill
  <2>1. Edit
    BY <1>10 DEF EditLine, EditBill, AddBill
  <2>2. QED
    BY <1>8, <2>1 DEF Edit, cacheVars
<1>11. ASSUME NEW s \in saves, Moves(s) PROVE CacheTypes'
  <2>1. ASSUME NEW m \in Month, Upsert(s, m) \/ UpsertStored(s, m) \/ UpsertFails(s, m)
        PROVE  UNCHANGED <<cached, asking>>
    BY <2>1 DEF Upsert, UpsertStored, UpsertFails, cacheVars
  <2>2. CASE ReplaceBills(s) \/ SumBills(s) \/ SaveFails(s)
    BY <1>8, <2>2 DEF ReplaceBills, SumBills, SaveFails, cacheVars
  <2>3. CASE Saved(s) \/ NotSaved(s)
    <3>1. <<Shown, "rows">> \in Queried
      BY <1>3
    <3>2. cached' = cached /\ asking' \subseteq asking \cup {<<Shown, "rows">>}
      BY <2>3 DEF Saved, NotSaved
    <3>3. QED
      BY <1>1, <1>2, <3>1, <3>2
  <2>4. QED
    BY <1>8, <1>11, <2>1, <2>2, <2>3 DEF Moves
<1>12. QED
  BY <1>5, <1>6, <1>7, <1>9, <1>10, <1>11, BudgetSteps DEF Screen

LEMMA DraftOKNext ==
  ASSUME BudgetTypes, [BudgetNext]_budgetVars
  PROVE  DraftOK'
<1> DEFINE Bar == [on: BOOLEAN, kind: Kind, year: Year]
           Line == [amt: Int, months: SUBSET Month]
<1>0. /\ sidebar \in Bar /\ filled \in Kind \cup {"none"} /\ line \in Line
      /\ sidebar.kind \in Kind
  BY DEF BudgetTypes, DraftOK
<1>1. ASSUME sidebar' \in Bar, filled' \in Kind \cup {"none"}, line' \in Line PROVE DraftOK'
  BY <1>1 DEF DraftOK
<1>2. ASSUME UNCHANGED <<sidebar, filled, line>> PROVE DraftOK'
  BY <1>0, <1>1, <1>2
<1>3. CASE \E kind \in Kind : OpenBudget(kind)
  <2>1. PICK kind \in Kind : OpenBudget(kind)
    BY <1>3
  <2>2. sidebar' \in Bar
    BY <1>0, <2>1 DEF OpenBudget
  <2>3. filled' = filled /\ line' = line
    BY <2>1 DEF OpenBudget, draftVars
  <2>4. QED
    BY <1>0, <1>1, <2>2, <2>3
<1>4. CASE TurnYear
  <2>1. 3 - sidebar.year \in Year /\ sidebar' = [sidebar EXCEPT !.year = 3 - sidebar.year]
    BY <1>0, <1>4 DEF TurnYear, Year
  <2>2. sidebar' \in Bar
    BY <1>0, <2>1
  <2>3. QED
    BY <1>0, <1>1, <1>4, <2>2 DEF TurnYear, draftVars
<1>5. ASSUME sidebar' = [sidebar EXCEPT !.on = FALSE] PROVE sidebar' \in Bar
  BY <1>0, <1>5
<1>6. CASE CancelBudget
  BY <1>0, <1>1, <1>5, <1>6 DEF CancelBudget, NoDraft, NoLine
<1>7. CASE FillDraft
  <2>1. filled' = sidebar.kind /\ sidebar' = sidebar
    BY <1>7 DEF FillDraft
  <2>2. CASE sidebar.kind = "food"
    <3>1. line' \in LineFrom(cached[Shown])
      BY <1>7, <2>2 DEF FillDraft
    <3>2. line' \in Line
      BY <2>2, <3>1, FilledLine
    <3>3. QED
      BY <1>0, <1>1, <2>1, <3>2
  <2>3. CASE sidebar.kind # "food"
    BY <1>0, <1>1, <1>7, <2>1, <2>3 DEF FillDraft
  <2>4. QED
    BY <2>2, <2>3
<1>8. CASE EditLine
  <2>1. sidebar' = sidebar /\ filled' = filled
    BY <1>8 DEF EditLine, Edit
  <2>2. CASE \E a \in {-1, 0, 2} : line' = [line EXCEPT !.amt = a]
    <3>1. line' \in Line
      BY <1>0, <2>2
    <3>2. QED
      BY <1>0, <1>1, <2>1, <3>1
  <2>3. CASE \E m \in Month : line' = [line EXCEPT !.months = Flip(@, m)]
    <3>1. PICK m \in Month : line' = [line EXCEPT !.months = Flip(line.months, m)]
      BY <2>3
    <3>2. Flip(line.months, m) \subseteq Month
      BY <1>0 DEF Flip
    <3>3. line' \in Line
      BY <1>0, <3>1, <3>2
    <3>4. QED
      BY <1>0, <1>1, <2>1, <3>3
  <2>4. QED
    BY <1>8, <2>2, <2>3 DEF EditLine
<1>9. CASE EditBill \/ AddBill
  <2>1. sidebar' = sidebar /\ filled' = filled
    BY <1>9 DEF EditBill, AddBill, Edit
  <2>2. QED
    BY <1>2, <1>9, <2>1 DEF EditBill, AddBill
<1>10. CASE BudgetLands \/ BudgetFails \/ SaveBudget \/ OthersBudget \/ UNCHANGED budgetVars
  BY <1>2, <1>10 DEF BudgetLands, BudgetFails, SaveBudget, OthersBudget, draftVars, budgetVars
<1>11. ASSUME NEW s \in saves, Moves(s) PROVE DraftOK'
  <2>1. ASSUME NEW m \in Month, Upsert(s, m) \/ UpsertStored(s, m) \/ UpsertFails(s, m)
        PROVE  UNCHANGED <<sidebar, filled, line>>
    BY <2>1 DEF Upsert, UpsertStored, UpsertFails, draftVars
  <2>2. CASE ReplaceBills(s) \/ SumBills(s) \/ SaveFails(s) \/ NotSaved(s)
    BY <1>2, <2>2 DEF ReplaceBills, SumBills, SaveFails, NotSaved, draftVars
  <2>3. CASE Saved(s)
    BY <1>0, <1>1, <1>5, <2>3 DEF Saved, NoDraft, NoLine
  <2>4. QED
    BY <1>2, <1>11, <2>1, <2>2, <2>3 DEF Moves
<1>12. QED
  BY <1>3, <1>4, <1>6, <1>7, <1>8, <1>9, <1>10, <1>11, BudgetSteps DEF Screen

LEMMA PressesNext ==
  ASSUME presses \in Nat, [BudgetNext]_budgetVars
  PROVE  presses' \in Nat
<1>1. presses' = presses \/ presses' = presses + 1
  <2>1. CASE Screen
    BY <2>1 DEF Screen, OpenBudget, TurnYear, CancelBudget, BudgetLands, BudgetFails, FillDraft,
                EditLine, EditBill, AddBill, Edit, Press
  <2>2. CASE SaveBudget \/ OthersBudget \/ UNCHANGED budgetVars
    BY <2>2 DEF SaveBudget, Press, OthersBudget, budgetVars
  <2>3. ASSUME NEW s \in saves, Moves(s) PROVE presses' = presses \/ presses' = presses + 1
    BY <2>3 DEF Moves, Upsert, UpsertStored, UpsertFails, ReplaceBills, SumBills, SaveFails, Saved, NotSaved
  <2>4. QED
    BY <2>1, <2>2, <2>3, BudgetSteps
<1>2. QED
  BY <1>1

LEMMA BudgetTypesNext ==
  ASSUME BudgetTypes, Found, [BudgetNext]_budgetVars
  PROVE  BudgetTypes'
BY ServerTypesNext, CacheTypesNext, DraftOKNext, PressesNext, SavesNext DEF BudgetTypes

-----------------------------------------------------------------------------
(* The budget's sidebar: what the saves have stored.                        *)

\* A month is as a save wants it, or has the two rows of an earlier race.
Right(s, m) ==
    Len(rows[s.sheet][m]) <= 1 =>
        /\ rows[s.sheet][m] = <<>> => s.kind = "rent" /\ s.content = <<>>
        /\ rows[s.sheet][m] # <<>> => rows[s.sheet][m][1] = Sum(s.content, m)

\* A row that was seen is there; and what a save has stored stays as it stored
\* it for as long as no other save of the sheet, and no other member, comes
\* in between.
Holds(s) ==
    /\ s.kind = "food" => \A m \in Month : s.saw[m].row => rows[s.sheet][m] # <<>>
    /\ s.clean /\ s.kind = "food" => \A m \in Month : s.phase[m] = "stored" => Right(s, m)
    /\ s.clean /\ s.kind = "rent" =>
         /\ s.phase[December] = "replaced" => bills[s.sheet] = s.content
         /\ \A m \in Month : s.phase[m] = "stored" => bills[s.sheet] = s.content /\ Right(s, m)

\* A save that is clean is the only one of its sheet.
Alone == \A s, v \in saves : s # v /\ s.clean => v.sheet # s.sheet

BudgetInv == BudgetTypes /\ Alone /\ \A s \in saves : Holds(s)

LEMMA InvFound == BudgetInv => Found
BY DEF BudgetInv, Holds, Found

\* A save that says no more than before still holds, when its sheet is as it
\* was, or at least no row of it has gone and the save is clean no more.
LEMMA HoldsKept ==
  ASSUME NEW s, NEW n, Holds(s), IsSave(s), IsSave(n),
         n.kind = s.kind, n.sheet = s.sheet, n.content = s.content, n.clean => s.clean,
         \A m \in Month : n.saw[m].row => s.saw[m].row \/ rows'[s.sheet][m] # <<>>,
         \A m \in Month : n.phase[m] \in {"stored", "replaced"} => s.phase[m] = n.phase[m],
         n.clean => rows'[s.sheet] = rows[s.sheet] /\ bills'[s.sheet] = bills[s.sheet],
         \A m \in Month : rows[s.sheet][m] # <<>> => rows'[s.sheet][m] # <<>>
  PROVE  Holds(n)'
<1>1. n.kind = "food" => \A m \in Month : n.saw[m].row => rows'[n.sheet][m] # <<>>
  BY DEF Holds
<1>2. ASSUME n.clean, NEW m \in Month, Right(s, m) PROVE Right(n, m)'
  BY <1>2 DEF Right
<1>3. n.clean /\ n.kind = "food" => \A m \in Month : n.phase[m] = "stored" => Right(n, m)'
  BY <1>2 DEF Holds
<1>4. ASSUME n.clean, n.kind = "rent"
      PROVE  /\ n.phase[December] = "replaced" => bills'[n.sheet] = n.content
             /\ \A m \in Month : n.phase[m] = "stored" => bills'[n.sheet] = n.content /\ Right(n, m)'
  <2>1. December \in Month
    BY BudgetAssumption
  <2>2. /\ s.phase[December] = "replaced" => bills[s.sheet] = s.content
        /\ \A m \in Month : s.phase[m] = "stored" => bills[s.sheet] = s.content /\ Right(s, m)
    BY <1>4 DEF Holds
  <2>3. QED
    BY <1>2, <1>4, <2>1, <2>2
<1>5. QED
  BY <1>1, <1>3, <1>4 DEF Holds

\* One save goes on; the others stay alone.
LEMMA AloneKept ==
  ASSUME Alone, NEW s \in saves, NEW n, Becomes(s, n)
  PROVE  Alone'
<1>1. /\ n.clean = s.clean /\ n.sheet = s.sheet
      /\ \A v \in saves' : v = n \/ (v \in saves /\ v # s)
  BY DEF Becomes
<1>2. SUFFICES ASSUME NEW v \in saves', NEW w \in saves', v # w, v.clean PROVE w.sheet # v.sheet
  BY DEF Alone
<1>3. CASE v = n
  BY <1>1, <1>2, <1>3 DEF Alone
<1>4. CASE v # n /\ w = n
  BY <1>1, <1>2, <1>4 DEF Alone
<1>5. CASE v # n /\ w # n
  BY <1>1, <1>2, <1>5 DEF Alone
<1>6. QED
  BY <1>3, <1>4, <1>5

LEMMA AloneNext ==
  ASSUME BudgetTypes, Alone, [BudgetNext]_budgetVars
  PROVE  Alone'
<1>0. \A s \in saves : IsSave(s)
  BY DEF BudgetTypes, SavesOK
<1>1. CASE Screen \/ UNCHANGED budgetVars
  <2>1. saves' = saves
    BY <1>1, ScreenKeeps DEF budgetVars
  <2>2. QED
    BY <2>1 DEF Alone
<1>2. CASE SaveBudget
  <2>1. PICK n : /\ IsSave(n) /\ n.sheet = Shown
                 /\ n.clean => \A s \in saves : s.sheet # Shown
                 /\ saves' = {Overtaken(s) : s \in saves} \cup {n}
    BY <1>2, Sending
  <2>2. SUFFICES ASSUME NEW v \in saves', NEW w \in saves', v # w, v.clean PROVE w.sheet # v.sheet
    BY DEF Alone
  <2>3. \A x \in saves' : x = n \/ \E s \in saves : x = Overtaken(s)
    BY <2>1
  <2>4. CASE v = n
    <3>1. PICK s \in saves : w = Overtaken(s)
      BY <2>2, <2>3, <2>4
    <3>2. w.sheet = s.sheet
      BY <1>0, <3>1, Overtaking
    <3>3. QED
      BY <2>1, <2>2, <2>4, <3>2
  <2>5. CASE v # n
    <3>1. PICK s \in saves : v = Overtaken(s)
      BY <2>2, <2>3, <2>5
    <3>2. v.sheet = s.sheet /\ s.clean /\ s.sheet # Shown
      BY <1>0, <2>2, <3>1, Overtaking
    <3>3. CASE w = n
      BY <2>1, <3>2, <3>3
    <3>4. CASE w # n
      <4>1. PICK u \in saves : w = Overtaken(u)
        BY <2>2, <2>3, <3>4
      <4>2. u # s /\ w.sheet = u.sheet
        BY <1>0, <2>2, <3>1, <4>1, Overtaking
      <4>3. QED
        BY <3>2, <4>2 DEF Alone
    <3>5. QED
      BY <3>3, <3>4
  <2>6. QED
    BY <2>4, <2>5
<1>3. ASSUME NEW s \in saves, Moves(s) PROVE Alone'
  <2>1. CASE saves' = saves \ {s}
    BY <2>1 DEF Alone
  <2>2. QED
    BY <1>3, <2>1, MovesOn, AloneKept
<1>4. CASE OthersBudget
  <2>1. PICK t \in Sheet : saves' = {Disturbed(v, t) : v \in saves}
    BY <1>4 DEF OthersBudget, Disturbed
  <2>2. SUFFICES ASSUME NEW v \in saves', NEW w \in saves', v # w, v.clean PROVE w.sheet # v.sheet
    BY DEF Alone
  <2>3. PICK s \in saves : v = Disturbed(s, t)
    BY <2>1
  <2>4. PICK u \in saves : w = Disturbed(u, t)
    BY <2>1
  <2>5. /\ v.sheet = s.sheet /\ w.sheet = u.sheet /\ s.clean /\ u # s
    BY <1>0, <2>2, <2>3, <2>4, Disturbing
  <2>6. QED
    BY <2>5 DEF Alone
<1>5. QED
  BY <1>1, <1>2, <1>3, <1>4, BudgetSteps

\* A save that only another one passes.
LEMMA OthersHold ==
  ASSUME BudgetInv, NEW s \in saves, NEW v \in saves, v # s,
         \A u \in Sheet : u # s.sheet => rows'[u] = rows[u] /\ bills'[u] = bills[u],
         \A m \in Month : rows[s.sheet][m] # <<>> => rows'[s.sheet][m] # <<>>
  PROVE  Holds(v)'
<1>1. Holds(v) /\ IsSave(v) /\ v.sheet \in Sheet
  BY DEF BudgetInv, BudgetTypes, SavesOK, IsSave, SaveLike
<1>2. v.clean => v.sheet # s.sheet
  BY DEF BudgetInv, Alone
<1>3. v.clean => rows'[v.sheet] = rows[v.sheet] /\ bills'[v.sheet] = bills[v.sheet]
  BY <1>1, <1>2
<1>4. \A m \in Month : rows[v.sheet][m] # <<>> => rows'[v.sheet][m] # <<>>
  BY <1>1
<1>5. QED
  BY <1>1, <1>3, <1>4, HoldsKept

\* What a save of the form n leaves, when the server was not touched.
LEMMA QuietHolds ==
  ASSUME BudgetInv, NEW s \in saves, NEW n, Becomes(s, n), UNCHANGED <<rows, bills>>,
         \A m \in Month : n.saw[m].row => s.saw[m].row \/ rows[s.sheet][m] # <<>>,
         \A m \in Month : n.phase[m] \in {"stored", "replaced"} => s.phase[m] = n.phase[m]
  PROVE  \A v \in saves' : Holds(v)'
<1>1. Holds(s) /\ IsSave(s) /\ IsSave(n)
  BY DEF BudgetInv, BudgetTypes, SavesOK, Becomes
<1>2. Holds(n)'
  BY <1>1, HoldsKept DEF Becomes
<1>3. ASSUME NEW v \in saves, v # s PROVE Holds(v)'
  BY <1>3, OthersHold
<1>4. QED
  BY <1>2, <1>3 DEF Becomes

LEMMA StoredHolds ==
  ASSUME BudgetInv, NEW s \in saves, NEW m \in Month, UpsertStored(s, m)
  PROVE  \A v \in saves' : Holds(v)'
<1>1. BudgetTypes /\ Holds(s) /\ IsSave(s) /\ s.kind = "food" /\ s.sheet \in Sheet
  BY DEF BudgetInv, BudgetTypes, SavesOK, UpsertStored, IsSave, SaveLike
<1>2. s.saw[m].row => rows[s.sheet][m] # <<>>
  BY <1>1 DEF Holds
<1>3. /\ \A u \in Sheet, k \in Month :
           rows'[u][k] = IF u = s.sheet /\ k = m THEN Written(s, m) ELSE rows[u][k]
      /\ Written(s, m) # <<>>
      /\ Len(Written(s, m)) <= 1 => Written(s, m)[1] = Sum(s.content, m)
  BY <1>1, <1>2, Writing
<1>4. RowTypes /\ RowTypes' /\ bills' = bills
  BY <1>1, <1>2, Writing DEF BudgetTypes, UpsertStored
<1>5. saves' = InPhase(s, m, "stored") /\ "stored" \in Phases
  BY DEF UpsertStored, Phases
<1>6. PICK n : Becomes(s, n) /\ n.phase = [s.phase EXCEPT ![m] = "stored"] /\ n.saw = s.saw
  BY <1>1, <1>5, PhaseIs
<1>7. n.kind = "food" /\ n.sheet = s.sheet /\ n.content = s.content /\ n.clean = s.clean
  BY <1>1, <1>6 DEF Becomes
<1>8. \A k \in Month : rows[s.sheet][k] # <<>> => rows'[s.sheet][k] # <<>>
  BY <1>1, <1>3
<1>9. Right(n, m)'
  <2>1. rows'[s.sheet][m] = Written(s, m)
    BY <1>1, <1>3
  <2>2. QED
    BY <1>3, <1>7, <2>1 DEF Right
<1>10. ASSUME n.clean, NEW k \in Month, n.phase[k] = "stored" PROVE Right(n, k)'
  <2>1. CASE k = m
    BY <1>9, <2>1
  <2>2. CASE k # m
    <3>1. s.phase[k] = "stored"
      BY <1>1, <1>6, <1>10, <2>2 DEF IsSave, SaveLike
    <3>2. Right(s, k)
      BY <1>1, <1>7, <1>10, <3>1 DEF Holds
    <3>3. rows'[s.sheet][k] = rows[s.sheet][k]
      BY <1>1, <1>3, <2>2
    <3>4. QED
      BY <1>7, <3>2, <3>3, <1>1 DEF Right
  <2>3. QED
    BY <2>1, <2>2
<1>11. \A k \in Month : n.saw[k].row => rows'[n.sheet][k] # <<>>
  BY <1>1, <1>6, <1>7, <1>8 DEF Holds
<1>12. Holds(n)'
  BY <1>7, <1>10, <1>11 DEF Holds
<1>13. \A u \in Sheet : u # s.sheet => rows'[u] = rows[u] /\ bills'[u] = bills[u]
  <2>1. rows' = [rows EXCEPT ![s.sheet] = rows'[s.sheet]]
    BY <1>4 DEF UpsertStored, RowTypes
  <2>2. QED
    BY <1>4, <2>1 DEF RowTypes
<1>14. ASSUME NEW v \in saves, v # s PROVE Holds(v)'
  BY <1>8, <1>13, <1>14, OthersHold
<1>15. QED
  BY <1>6, <1>12, <1>14 DEF Becomes

LEMMA ReplacedHolds ==
  ASSUME BudgetInv, NEW s \in saves, ReplaceBills(s)
  PROVE  \A v \in saves' : Holds(v)'
<1>1. BudgetTypes /\ Holds(s) /\ IsSave(s) /\ s.kind = "rent" /\ s.sheet \in Sheet /\ December \in Month
  BY BudgetAssumption DEF BudgetInv, BudgetTypes, SavesOK, ReplaceBills, IsSave, SaveLike
<1>2. rows' = rows /\ bills' = [bills EXCEPT ![s.sheet] = s.content] /\ DOMAIN bills = Sheet
  BY <1>1 DEF ReplaceBills, BudgetTypes, BillTypes
<1>3. bills'[s.sheet] = s.content /\ \A u \in Sheet : u # s.sheet => bills'[u] = bills[u]
  BY <1>1, <1>2
<1>4. saves' = InPhase(s, December, "replaced") /\ "replaced" \in Phases
  BY DEF ReplaceBills, Phases
<1>5. PICK n : Becomes(s, n) /\ n.phase = [s.phase EXCEPT ![December] = "replaced"] /\ n.saw = s.saw
  BY <1>1, <1>4, PhaseIs
<1>6. n.kind = "rent" /\ n.sheet = s.sheet /\ n.content = s.content /\ n.clean = s.clean
  BY <1>1, <1>5 DEF Becomes
<1>7. ASSUME n.clean, NEW k \in Month, n.phase[k] = "stored" PROVE Right(n, k)'
  <2>1. s.phase[k] = "stored"
    BY <1>1, <1>5, <1>7 DEF IsSave, SaveLike
  <2>2. Right(s, k)
    BY <1>1, <1>6, <1>7, <2>1 DEF Holds
  <2>3. QED
    BY <1>1, <1>2, <1>6, <2>2 DEF Right
<1>8. Holds(n)'
  BY <1>3, <1>6, <1>7 DEF Holds
<1>9. ASSUME NEW v \in saves, v # s PROVE Holds(v)'
  BY <1>2, <1>3, <1>9, OthersHold
<1>10. QED
  BY <1>5, <1>8, <1>9 DEF Becomes

LEMMA SummedHolds ==
  ASSUME BudgetInv, NEW s \in saves, SumBills(s)
  PROVE  \A v \in saves' : Holds(v)'
<1>1. BudgetTypes /\ Holds(s) /\ IsSave(s) /\ s.kind = "rent" /\ s.sheet \in Sheet /\ December \in Month
  BY BudgetAssumption DEF BudgetInv, BudgetTypes, SavesOK, SumBills, IsSave, SaveLike
<1>2. /\ bills' = bills /\ s.phase[December] = "replaced"
      /\ \A k \in Month :
           /\ rows[s.sheet][k] # <<>> => rows'[s.sheet][k] # <<>>
           /\ rows'[s.sheet][k] = <<>> => s.content = <<>>
           /\ rows'[s.sheet][k] # <<>> => rows'[s.sheet][k][1] = Sum(s.content, k)
  BY <1>1, Resumming DEF SumBills
<1>3. \A u \in Sheet : u # s.sheet => rows'[u] = rows[u] /\ bills'[u] = bills[u]
  BY <1>1, <1>2 DEF SumBills, BudgetTypes, RowTypes
<1>4. PICK n : Becomes(s, n) /\ n.phase = [m \in Month |-> "stored"] /\ n.saw = s.saw
  <2>1. saves' = AllInPhase(s, "stored") /\ "stored" \in Phases
    BY DEF SumBills, Phases
  <2>2. QED
    BY <1>1, <2>1, AllPhaseIs
<1>5. n.kind = "rent" /\ n.sheet = s.sheet /\ n.content = s.content /\ n.clean = s.clean
  BY <1>1, <1>4 DEF Becomes
<1>6. \A k \in Month : Right(n, k)'
  BY <1>2, <1>5 DEF Right
<1>7. n.clean => bills'[n.sheet] = n.content
  BY <1>1, <1>2, <1>5 DEF Holds
<1>8. Holds(n)'
  BY <1>5, <1>6, <1>7 DEF Holds
<1>9. ASSUME NEW v \in saves, v # s PROVE Holds(v)'
  BY <1>2, <1>3, <1>9, OthersHold
<1>10. QED
  BY <1>4, <1>8, <1>9 DEF Becomes

LEMMA MovesHold ==
  ASSUME BudgetInv, NEW s \in saves, Moves(s)
  PROVE  \A v \in saves' : Holds(v)'
<1>0. BudgetTypes /\ IsSave(s)
  BY DEF BudgetInv, BudgetTypes, SavesOK
<1>1. ASSUME NEW m \in Month, Upsert(s, m) PROVE \A v \in saves' : Holds(v)'
  <2>1. PICK n : /\ Becomes(s, n)
                 /\ n.phase = [s.phase EXCEPT ![m] = "seen"]
                 /\ n.saw = [s.saw EXCEPT ![m] = [born |-> born, row |-> rows[s.sheet][m] # <<>>]]
    BY <1>0, <1>1, UpsertIs
  <2>2. UNCHANGED <<rows, bills>>
    BY <1>1 DEF Upsert, serverVars
  <2>3. DOMAIN s.phase = Month /\ DOMAIN s.saw = Month
    BY <1>0 DEF IsSave, SaveLike
  <2>4. \A k \in Month : n.phase[k] \in {"stored", "replaced"} => s.phase[k] = n.phase[k]
    BY <2>1, <2>3
  <2>5. \A k \in Month : n.saw[k].row => s.saw[k].row \/ rows[s.sheet][k] # <<>>
    <3>1. SUFFICES ASSUME NEW k \in Month, n.saw[k].row PROVE s.saw[k].row \/ rows[s.sheet][k] # <<>>
      OBVIOUS
    <3>2. CASE k = m
      <4>1. n.saw[k] = [born |-> born, row |-> rows[s.sheet][m] # <<>>]
        BY <2>1, <2>3, <3>2
      <4>2. n.saw[k].row = (rows[s.sheet][m] # <<>>)
        BY <4>1
      <4>3. QED
        BY <3>1, <3>2, <4>2
    <3>3. CASE k # m
      <4>1. n.saw[k] = s.saw[k]
        BY <2>1, <2>3, <3>3
      <4>2. QED
        BY <3>1, <4>1
    <3>4. QED
      BY <3>2, <3>3
  <2>6. Becomes(s, n)
    BY <2>1
  <2>7. QED
    BY <2>2, <2>4, <2>5, <2>6, QuietHolds
<1>2. ASSUME NEW m \in Month, saves' = InPhase(s, m, "failed"), UNCHANGED <<rows, bills>>
      PROVE  \A v \in saves' : Holds(v)'
  <2>1. "failed" \in Phases
    BY DEF Phases
  <2>2. PICK n : Becomes(s, n) /\ n.phase = [s.phase EXCEPT ![m] = "failed"] /\ n.saw = s.saw
    BY <1>0, <1>2, <2>1, PhaseIs
  <2>3. DOMAIN s.phase = Month
    BY <1>0 DEF IsSave, SaveLike
  <2>4. \A k \in Month : n.phase[k] \in {"stored", "replaced"} => s.phase[k] = n.phase[k]
    BY <2>2, <2>3
  <2>5. QED
    BY <1>2, <2>2, <2>4, QuietHolds
<1>3. ASSUME NEW m \in Month, UpsertFails(s, m) PROVE \A v \in saves' : Holds(v)'
  BY <1>2, <1>3 DEF UpsertFails, serverVars
<1>4. CASE SaveFails(s)
  <2>1. PICK m \in Month : saves' = InPhase(s, m, "failed") \/ saves' = AllInPhase(s, "failed")
    BY <1>4 DEF SaveFails
  <2>2. UNCHANGED <<rows, bills>>
    BY <1>4 DEF SaveFails, serverVars
  <2>3. CASE saves' = AllInPhase(s, "failed")
    <3>1. "failed" \in Phases
      BY DEF Phases
    <3>2. PICK n : Becomes(s, n) /\ n.phase = [k \in Month |-> "failed"] /\ n.saw = s.saw
      BY <1>0, <2>3, <3>1, AllPhaseIs
    <3>3. \A k \in Month : n.phase[k] \notin {"stored", "replaced"}
      BY <3>2
    <3>4. QED
      BY <2>2, <3>2, <3>3, QuietHolds
  <2>4. QED
    BY <1>2, <2>1, <2>2, <2>3
<1>5. CASE Saved(s) \/ NotSaved(s)
  <2>1. saves' = saves \ {s} /\ UNCHANGED <<rows, bills>>
    BY <1>5 DEF Saved, NotSaved, serverVars
  <2>2. QED
    BY <2>1, OthersHold
<1>6. QED
  BY <1>1, <1>3, <1>4, <1>5, StoredHolds, ReplacedHolds, SummedHolds DEF Moves

LEMMA HoldsNext ==
  ASSUME BudgetInv, [BudgetNext]_budgetVars
  PROVE  \A v \in saves' : Holds(v)'
<1>0. BudgetTypes /\ \A s \in saves : IsSave(s) /\ Holds(s)
  BY DEF BudgetInv, BudgetTypes, SavesOK
<1>1. CASE Screen \/ UNCHANGED budgetVars
  <2>1. UNCHANGED <<saves, rows, bills>>
    BY <1>1, ScreenKeeps DEF budgetVars, serverVars
  <2>2. QED
    BY <1>0, <2>1, HoldsKept
<1>2. CASE SaveBudget
  <2>1. PICK n : /\ IsSave(n)
                 /\ \A m \in Month : n.phase[m] = "sent" /\ n.saw[m].row = FALSE
                 /\ saves' = {Overtaken(s) : s \in saves} \cup {n}
    BY <1>0, <1>2, Sending
  <2>2. UNCHANGED <<rows, bills>>
    BY <1>2 DEF SaveBudget, Press, serverVars
  <2>3. Holds(n)'
    BY <2>1, BudgetAssumption DEF Holds
  <2>4. ASSUME NEW s \in saves, NEW v, v = Overtaken(s) PROVE Holds(v)'
    <3>1. /\ IsSave(v) /\ v.kind = s.kind /\ v.sheet = s.sheet /\ v.content = s.content
          /\ v.saw = s.saw /\ v.phase = s.phase /\ (v.clean => s.clean)
      BY <1>0, <2>4, Overtaking
    <3>2. QED
      BY <1>0, <2>2, <3>1, HoldsKept
  <2>5. QED
    BY <2>1, <2>3, <2>4
<1>3. CASE OthersBudget
  <2>1. PICK t \in Sheet, m \in Month :
          /\ rows' = [rows EXCEPT ![t][m] = IF @ = <<>> THEN <<1>> ELSE [@ EXCEPT ![1] = 1]]
          /\ saves' = {Disturbed(v, t) : v \in saves}
    BY <1>3 DEF OthersBudget, Disturbed
  <2>2. /\ \A u \in Sheet : u # t => rows'[u] = rows[u]
        /\ \A u \in Sheet, k \in Month : rows[u][k] # <<>> => rows'[u][k] # <<>>
        /\ bills' = bills
    BY <1>0, <1>3, <2>1, OthersRow DEF OthersBudget
  <2>3. ASSUME NEW s \in saves, NEW v, v = Disturbed(s, t) PROVE Holds(v)'
    <3>1. /\ IsSave(v) /\ v.kind = s.kind /\ v.sheet = s.sheet /\ v.content = s.content
          /\ v.saw = s.saw /\ v.phase = s.phase /\ (v.clean => s.clean /\ s.sheet # t)
      BY <1>0, <2>3, Disturbing
    <3>2. s.sheet \in Sheet
      BY <1>0 DEF IsSave, SaveLike
    <3>3. QED
      BY <1>0, <2>2, <3>1, <3>2, HoldsKept
  <2>4. QED
    BY <2>1, <2>3
<1>4. QED
  BY <1>1, <1>2, <1>3, MovesHold, BudgetSteps

LEMMA BudgetInvInit == BudgetInit => BudgetInv
<1>1. ASSUME BudgetInit PROVE saves = {}
  BY <1>1 DEF BudgetInit
<1>2. QED
  BY <1>1, BudgetTypesInit DEF BudgetInv, Alone

LEMMA BudgetInvNext == BudgetInv /\ [BudgetNext]_budgetVars => BudgetInv'
<1> SUFFICES ASSUME BudgetInv, [BudgetNext]_budgetVars PROVE BudgetInv'
  OBVIOUS
<1>1. BudgetTypes'
  BY InvFound, BudgetTypesNext DEF BudgetInv
<1>2. Alone'
  BY AloneNext DEF BudgetInv
<1>3. QED
  BY <1>1, <1>2, HoldsNext DEF BudgetInv

\* No negative budget of a variable category is ever stored, by whichever of
\* the requests and the other members' saves it is written.
THEOREM BudgetTypesOK == BudgetSpec => []BudgetTypeOK
<1>1. ASSUME BudgetTypes PROVE BudgetTypeOK
  <2>1. ASSUME NEW y \in Year, NEW m \in Month, NEW i \in DOMAIN rows[<<"food", y>>][m]
        PROVE  rows[<<"food", y>>][m][i] >= 0
    <3>1. <<"food", y>> \in Sheet
      BY DEF Sheet, Kind
    <3>2. rows[<<"food", y>>][m] \in Seq(Nat)
      BY <1>1, <3>1 DEF BudgetTypes, RowTypes
    <3>3. QED
      BY <2>1, <3>2
  <2>2. QED
    BY <1>1, <2>1 DEF BudgetTypes, CacheTypes, DraftOK, BudgetTypeOK
<1>2. BudgetInv => BudgetTypeOK
  BY <1>1 DEF BudgetInv
<1>3. QED
  BY BudgetInvInit, BudgetInvNext, <1>2, PTL DEF BudgetSpec

\* What was entered for a category that has been filled in is changed by nothing
\* but the user: no answer, and no save of anyone, replaces it in an open sidebar.
THEOREM DraftIsKept == BudgetSpec => DraftKept
<1>1. ASSUME BudgetInv, [BudgetNext]_budgetVars, filled = sidebar.kind, sidebar'.on, presses' = presses
      PROVE  line' = line /\ lines' = lines
  <2>1. presses \in Nat
    BY <1>1 DEF BudgetInv, BudgetTypes
  <2>2. ~Press
    BY <1>1, <2>1 DEF Press
  <2>0. sidebar' # [sidebar EXCEPT !.on = FALSE]
    BY <1>1 DEF BudgetInv, BudgetTypes, DraftOK
  <2>3. CASE Screen
    BY <1>1, <2>0, <2>2, <2>3 DEF Screen, OpenBudget, TurnYear, CancelBudget, BudgetLands, BudgetFails, FillDraft, Fills,
                            EditLine, EditBill, AddBill, Edit, draftVars
  <2>4. CASE SaveBudget \/ OthersBudget \/ UNCHANGED budgetVars
    BY <2>4 DEF SaveBudget, OthersBudget, draftVars, budgetVars
  <2>5. ASSUME NEW s \in saves, Moves(s) PROVE line' = line /\ lines' = lines
    BY <2>0, <2>5 DEF Moves, Upsert, UpsertStored, UpsertFails, ReplaceBills, SumBills, SaveFails, Saved,
                NotSaved, draftVars
  <2>6. QED
    BY <1>1, <2>3, <2>4, <2>5, BudgetSteps
<1>2. BudgetInv /\ [BudgetNext]_budgetVars =>
        [ filled = sidebar.kind /\ sidebar.on /\ sidebar'.on /\ presses' = presses
            => line' = line /\ lines' = lines ]_budgetVars
  BY <1>1
<1>3. QED
  BY BudgetInvInit, BudgetInvNext, <1>2, PTL DEF BudgetSpec, DraftKept

\* A sidebar that closes has what was entered stored: in every month of a
\* variable category, in the bills and every month of a fixed one, unless
\* another save of the same budget came in between.
THEOREM BudgetSaved == BudgetSpec => BudgetSavedWhenClosed
<1>1. ASSUME BudgetInv, NEW s \in saves, Saved(s), s.clean
      PROVE  /\ s.kind = "rent" => bills[s.sheet] = s.content
             /\ \A m \in Month : Len(rows[s.sheet][m]) <= 1 =>
                    /\ (rows[s.sheet][m] = <<>> => s.kind = "rent" /\ s.content = <<>>)
                    /\ (rows[s.sheet][m] # <<>> => rows[s.sheet][m][1] = Sum(s.content, m))
  <2>1. \A m \in Month : s.phase[m] = "stored"
    BY <1>1 DEF Saved, AllStored
  <2>2. Holds(s) /\ IsSave(s) /\ December \in Month
    BY <1>1, BudgetAssumption DEF BudgetInv, BudgetTypes, SavesOK
  <2>3. s.kind = "food" \/ s.kind = "rent"
    BY <2>2 DEF IsSave, SaveLike, Kind
  <2>4. \A m \in Month : Right(s, m)
    BY <1>1, <2>1, <2>2, <2>3 DEF Holds
  <2>5. s.kind = "rent" => bills[s.sheet] = s.content
    BY <1>1, <2>1, <2>2 DEF Holds
  <2>6. QED
    BY <2>4, <2>5 DEF Right
<1>2. BudgetInv => \A s \in saves : Saved(s) /\ s.clean =>
          /\ s.kind = "rent" => bills[s.sheet] = s.content
          /\ \A m \in Month : Len(rows[s.sheet][m]) <= 1 =>
                 /\ (rows[s.sheet][m] = <<>> => s.kind = "rent" /\ s.content = <<>>)
                 /\ (rows[s.sheet][m] # <<>> => rows[s.sheet][m][1] = Sum(s.content, m))
  BY <1>1
<1>3. QED
  BY BudgetInvInit, BudgetInvNext, <1>2, PTL DEF BudgetSpec, BudgetSavedWhenClosed
=============================================================================
