---------------------------- MODULE LedgerProofs ----------------------------
(* What the ledger keeps, for any postings, accounts and texts, and for any  *)
(* number of syncs, imports, merges, edits and resolutions of duplicates.    *)
EXTENDS Ledger, SequenceTheorems, FiniteSetTheorems, WellFoundedInduction, TLAPS

-----------------------------------------------------------------------------
(* Folds over sequences.  FoldLeft takes the last element of the set of      *)
(* indices and goes on with the rest.  A set that holds the base and that    *)
(* every step stays in holds the result; the step is given as a function.    *)

LEMMA Least ==
  ASSUME NEW T \in SUBSET Nat, T # {}
  PROVE  \E x \in T : \A y \in T : x <= y
<1>1. PICK x \in T : \A y \in T : ~(<<y, x>> \in OpToRel(<, Nat))
  BY NatLessThanWellFounded, WFMin
<1>2. \A y \in T : ~(y < x)
  BY <1>1 DEF OpToRel
<1>3. \A y \in T : x <= y
  BY <1>2
<1>4. QED
  BY <1>3

LEMMA LastIsMax ==
  ASSUME NEW n \in Nat, NEW s \in SUBSET (1..n), n \in s
  PROVE  Max(s) = n
<1>1. \A y \in s : n >= y
  OBVIOUS
<1>2. \A x \in s : (\A y \in s : x >= y) => x = n
  <2> SUFFICES ASSUME NEW x \in s, \A y \in s : x >= y PROVE x = n
    OBVIOUS
  <2>1. x \in 1..n /\ x >= n
    OBVIOUS
  <2>2. QED
    BY <2>1
<1>3. QED
  BY <1>1, <1>2 DEF Max

LEMMA MaxIsIn ==
  ASSUME NEW n \in Nat, NEW s \in SUBSET (1..n), s # {}
  PROVE  Max(s) \in s
<1> DEFINE T == {n - x : x \in s}
<1>1. T \in SUBSET Nat /\ T # {}
  <2>1. \A x \in s : n - x \in Nat
    OBVIOUS
  <2>2. QED
    BY <2>1
<1>2. PICK y \in T : \A z \in T : y <= z
  BY <1>1, Least
<1>3. PICK x \in s : y = n - x
  BY <1>2
<1>4. \A z \in s : x >= z
  <2> SUFFICES ASSUME NEW z \in s PROVE x >= z
    OBVIOUS
  <2>1. y <= n - z
    BY <1>2
  <2>2. z \in 1..n /\ x \in 1..n
    OBVIOUS
  <2>3. QED
    BY <1>3, <2>1, <2>2
<1>5. QED
  BY <1>4 DEF Max

\* F is a fold of the steps G from the base, along every set of indices.
Folding(F, base, G, n) ==
  F = [s \in SUBSET (1..n) |-> IF s = {} THEN base ELSE G[<<F[s \ {Max(s)}], Max(s)>>]]

LEMMA FoldExists ==
  ASSUME NEW n \in Nat, NEW S, NEW base \in S, NEW G \in [S \X (1..n) -> S]
  PROVE  \E F \in [SUBSET (1..n) -> S] : Folding(F, base, G, n)
<1> DEFINE P(k) == \E F \in [SUBSET (1..k) -> S] : Folding(F, base, G, k)
           T == {k \in Nat : k <= n /\ ~P(k)}
<1>1. P(0)
  <2> DEFINE F == [s \in SUBSET (1..0) |-> base]
  <2>1. \A s \in SUBSET (1..0) : s = {}
    OBVIOUS
  <2>2. Folding(F, base, G, 0)
    BY <2>1 DEF Folding
  <2>3. F \in [SUBSET (1..0) -> S]
    OBVIOUS
  <2> HIDE DEF F
  <2>4. QED
    BY <2>2, <2>3
<1>2. ASSUME NEW k \in Nat, k < n, P(k) PROVE P(k + 1)
  <2>1. PICK F \in [SUBSET (1..k) -> S] : Folding(F, base, G, k)
    BY <1>2
  <2> DEFINE H == [s \in SUBSET (1..(k + 1)) |->
                     IF k + 1 \in s THEN G[<<F[s \ {k + 1}], k + 1>>] ELSE F[s]]
  <2>2. H \in [SUBSET (1..(k + 1)) -> S]
    <3> SUFFICES ASSUME NEW s \in SUBSET (1..(k + 1))
                 PROVE  (IF k + 1 \in s THEN G[<<F[s \ {k + 1}], k + 1>>] ELSE F[s]) \in S
      OBVIOUS
    <3>1. k + 1 \in 1..n
      BY <1>2
    <3>2. s \ {k + 1} \in SUBSET (1..k)
      OBVIOUS
    <3>3. k + 1 \notin s => s \in SUBSET (1..k)
      OBVIOUS
    <3>4. QED
      BY <3>1, <3>2, <3>3
  <2>3. ASSUME NEW s \in SUBSET (1..(k + 1))
        PROVE  H[s] = IF s = {} THEN base ELSE G[<<H[s \ {Max(s)}], Max(s)>>]
    <3>1. CASE k + 1 \in s
      <4>1. Max(s) = k + 1
        BY <3>1, LastIsMax
      <4>2. s \ {k + 1} \in SUBSET (1..k) /\ s \ {k + 1} \in SUBSET (1..(k + 1))
        OBVIOUS
      <4>3. H[s \ {k + 1}] = F[s \ {k + 1}]
        BY <4>2
      <4>4. QED
        BY <3>1, <4>1, <4>3
    <3>2. CASE k + 1 \notin s
      <4>1. s \in SUBSET (1..k)
        BY <3>2
      <4>2. H[s] = F[s]
        BY <3>2
      <4>3. F[s] = IF s = {} THEN base ELSE G[<<F[s \ {Max(s)}], Max(s)>>]
        BY <2>1, <4>1 DEF Folding
      <4>4. H[s \ {Max(s)}] = F[s \ {Max(s)}]
        BY <3>2
      <4>5. QED
        BY <4>2, <4>3, <4>4
    <3>3. QED
      BY <3>1, <3>2
  <2> HIDE DEF H
  <2>4. DOMAIN H = SUBSET (1..(k + 1))
    BY <2>2
  <2>5. Folding(H, base, G, k + 1)
    BY <2>2, <2>3, <2>4 DEF Folding
  <2>6. QED
    BY <2>2, <2>5
<1> HIDE DEF P
<1>3. T = {}
  <2> SUFFICES ASSUME T # {} PROVE FALSE
    OBVIOUS
  <2>1. PICK x \in T : \A y \in T : x <= y
    BY Least
  <2>2. x # 0
    BY <1>1, <2>1
  <2>3. x - 1 \in Nat /\ x - 1 < n /\ x - 1 \notin T
    BY <2>1, <2>2
  <2>4. P(x - 1)
    BY <2>3
  <2>5. P((x - 1) + 1)
    BY <1>2, <2>3, <2>4
  <2>6. QED
    BY <2>1, <2>2, <2>5
<1>4. P(n)
  BY <1>3
<1>5. QED
  BY <1>4 DEF P

\* What a sequence of values that starts in S, and does not leave it, ends in.
LEMMA Stays ==
  ASSUME NEW n \in Nat, NEW S, NEW f, f[0] \in S, \A i \in 1..n : f[i - 1] \in S => f[i] \in S
  PROVE  f[n] \in S
<1> DEFINE T == {i \in Nat : i <= n /\ f[i] \notin S}
<1>1. T = {}
  <2> SUFFICES ASSUME T # {} PROVE FALSE
    OBVIOUS
  <2>1. PICK x \in T : \A y \in T : x <= y
    BY Least
  <2>2. x # 0 /\ x \in 1..n /\ x - 1 \in Nat /\ x - 1 \notin T
    BY <2>1
  <2>3. QED
    BY <2>1, <2>2
<1>2. QED
  BY <1>1

\* A fold along 1..n: step by step.
LEMMA FoldSteps ==
  ASSUME NEW n \in Nat
  PROVE  /\ 1..0 = {} /\ 1..0 \in SUBSET (1..n)
         /\ \A i \in 1..n : /\ 1..i \in SUBSET (1..n) /\ 1..i # {}
                            /\ Max(1..i) = i /\ (1..i) \ {i} = 1..(i - 1)
<1>1. ASSUME NEW i \in 1..n PROVE Max(1..i) = i
  <2>1. i \in Nat /\ 1..i \in SUBSET (1..i) /\ i \in 1..i
    OBVIOUS
  <2>2. QED
    BY <2>1, LastIsMax
<1>2. QED
  BY <1>1

\* So a fold stays in a set no step leaves.
LEMMA FoldStays ==
  ASSUME NEW n \in Nat, NEW S, NEW F, F[{}] \in S,
         \A i \in 1..n : F[1..(i - 1)] \in S => F[1..i] \in S
  PROVE  F[1..n] \in S
<1> DEFINE g == [i \in 0..n |-> F[1..i]]
<1>1. g[0] \in S /\ \A i \in 1..n : g[i] = F[1..i] /\ g[i - 1] = F[1..(i - 1)]
  BY FoldSteps
<1>2. \A i \in 1..n : g[i - 1] \in S => g[i] \in S
  BY <1>1
<1>3. g[n] = F[1..n]
  OBVIOUS
<1> HIDE DEF g
<1>4. g[n] \in S
  BY <1>1, <1>2, Stays
<1>5. QED
  BY <1>3, <1>4

-----------------------------------------------------------------------------
(* The folds of the ledger.                                                  *)

LEMMA ReconcileFold ==
  ASSUME NEW S, NEW d \in S, NEW X, NEW seq \in Seq(X),
         \A x \in S, p \in X : ReconcileOne(x, p) \in S
  PROVE  Reconcile(d, seq) \in S
<1> DEFINE n == Len(seq)
           Body(f) == [s \in SUBSET (1..n) |->
                         IF s = {} THEN d ELSE ReconcileOne(f[s \ {Max(s)}], seq[Max(s)])]
           C == CHOOSE f : f = Body(f)
           G == [z \in S \X (1..n) |-> ReconcileOne(z[1], seq[z[2]])]
<1>1. n \in Nat /\ DOMAIN seq = 1..n /\ \A i \in 1..n : seq[i] \in X
  BY LenProperties, ElementOfSeq
<1>2. G \in [S \X (1..n) -> S]
  BY <1>1
<1>3. PICK F \in [SUBSET (1..n) -> S] : Folding(F, d, G, n)
  BY <1>1, <1>2, FoldExists
<1>4. F = Body(F)
  <2>1. \A s \in SUBSET (1..n) : s # {} =>
          G[<<F[s \ {Max(s)}], Max(s)>>] = ReconcileOne(F[s \ {Max(s)}], seq[Max(s)])
    BY <1>1, <1>3, MaxIsIn
  <2>2. QED
    BY <1>3, <2>1 DEF Folding
<1>5. C = Body(C)
  BY <1>4
<1>6. Reconcile(d, seq) = C[1..n]
  BY <1>1 DEF Reconcile, FoldLeft, MapThenFoldSet
<1> HIDE DEF C
<1>7. C[{}] = d
  BY <1>5
<1>8. ASSUME NEW i \in 1..n PROVE C[1..i] = ReconcileOne(C[1..(i - 1)], seq[i])
  <2>1. 1..i \in SUBSET (1..n) /\ 1..i # {} /\ Max(1..i) = i /\ (1..i) \ {i} = 1..(i - 1)
    BY <1>1, FoldSteps
  <2>2. C[1..i] = ReconcileOne(C[(1..i) \ {Max(1..i)}], seq[Max(1..i)])
    BY <1>5, <2>1
  <2>3. QED
    BY <2>1, <2>2
<1>9. \A i \in 1..n : C[1..(i - 1)] \in S => C[1..i] \in S
  BY <1>1, <1>8
<1>10. QED
  BY <1>1, <1>6, <1>7, <1>9, FoldStays

\* The items of one account are stored.
LEMMA StoredFold ==
  ASSUME NEW S, NEW d, NEW feed \in Seq(Posting), NEW amount, NEW bad,
         [db |-> d, saved |-> d, new |-> <<>>] \in S,
         \A x \in S, i \in 1..Len(feed) : Store(feed, amount, bad, x, i) \in S
  PROVE  Stored(d, feed, amount, bad) \in S
<1> DEFINE n == Len(feed)
           base == [db |-> d, saved |-> d, new |-> <<>>]
           index == [i \in DOMAIN feed |-> i]
           Body(f) == [s \in SUBSET (1..n) |->
                         IF s = {} THEN base ELSE Store(feed, amount, bad, f[s \ {Max(s)}], index[Max(s)])]
           C == CHOOSE f : f = Body(f)
           G == [z \in S \X (1..n) |-> Store(feed, amount, bad, z[1], index[z[2]])]
<1>1. /\ n \in Nat /\ DOMAIN feed = 1..n /\ \A i \in 1..n : feed[i] \in Posting
      /\ DOMAIN index = 1..n /\ \A i \in 1..n : index[i] = i
  <2>1. n \in Nat /\ DOMAIN feed = 1..n /\ \A i \in 1..n : feed[i] \in Posting
    BY LenProperties, ElementOfSeq
  <2>2. QED
    BY <2>1
<1>2. G \in [S \X (1..n) -> S]
  BY <1>1
<1>3. PICK F \in [SUBSET (1..n) -> S] : Folding(F, base, G, n)
  BY <1>1, <1>2, FoldExists
<1>4. F = Body(F)
  <2>1. \A s \in SUBSET (1..n) : s # {} =>
          G[<<F[s \ {Max(s)}], Max(s)>>] = Store(feed, amount, bad, F[s \ {Max(s)}], index[Max(s)])
    BY <1>1, <1>3, MaxIsIn
  <2>2. QED
    BY <1>3, <2>1 DEF Folding
<1>5. C = Body(C)
  BY <1>4
<1>6. Stored(d, feed, amount, bad) = C[1..n]
  BY <1>1 DEF Stored, FoldLeftDomain, FoldLeft, MapThenFoldSet
<1> HIDE DEF C
<1>7. C[{}] = base
  BY <1>5
<1>8. ASSUME NEW i \in 1..n PROVE C[1..i] = Store(feed, amount, bad, C[1..(i - 1)], index[i])
  <2>1. 1..i \in SUBSET (1..n) /\ 1..i # {} /\ Max(1..i) = i /\ (1..i) \ {i} = 1..(i - 1)
    BY <1>1, FoldSteps
  <2>2. C[1..i] = Store(feed, amount, bad, C[(1..i) \ {Max(1..i)}], index[Max(1..i)])
    BY <1>5, <2>1
  <2>3. QED
    BY <2>1, <2>2
<1>9. \A i \in 1..n : C[1..(i - 1)] \in S => C[1..i] \in S
  BY <1>1, <1>8
<1>10. C[1..n] \in S
  BY <1>1, <1>7, <1>9, FoldStays
<1>11. QED
  BY <1>6, <1>10

\* The rows of an archive file.
LEMMA ImportedFold ==
  ASSUME NEW S, NEW d \in S, NEW file \in Seq(Posting), NEW amount,
         \A x \in S, i \in 1..Len(file) : ImportRow(x, file[i], amount[file[i]]) \in S
  PROVE  Imported(file, amount, d) \in S
<1> DEFINE n == Len(file)
           Body(f) == [s \in SUBSET (1..n) |->
                         IF s = {} THEN d ELSE ImportRow(f[s \ {Max(s)}], file[Max(s)], amount[file[Max(s)]])]
           C == CHOOSE f : f = Body(f)
           G == [z \in S \X (1..n) |-> ImportRow(z[1], file[z[2]], amount[file[z[2]]])]
<1>1. n \in Nat /\ DOMAIN file = 1..n /\ \A i \in 1..n : file[i] \in Posting
  BY LenProperties, ElementOfSeq
<1>2. G \in [S \X (1..n) -> S]
  BY <1>1
<1>3. PICK F \in [SUBSET (1..n) -> S] : Folding(F, d, G, n)
  BY <1>1, <1>2, FoldExists
<1>4. F = Body(F)
  <2>1. \A s \in SUBSET (1..n) : s # {} =>
          G[<<F[s \ {Max(s)}], Max(s)>>] = ImportRow(F[s \ {Max(s)}], file[Max(s)], amount[file[Max(s)]])
    BY <1>1, <1>3, MaxIsIn
  <2>2. QED
    BY <1>3, <2>1 DEF Folding
<1>5. C = Body(C)
  BY <1>4
<1>6. Imported(file, amount, d) = C[1..n]
  BY <1>1 DEF Imported, FoldLeft, MapThenFoldSet
<1> HIDE DEF C
<1>7. C[{}] = d
  BY <1>5
<1>8. ASSUME NEW i \in 1..n PROVE C[1..i] = ImportRow(C[1..(i - 1)], file[i], amount[file[i]])
  <2>1. 1..i \in SUBSET (1..n) /\ 1..i # {} /\ Max(1..i) = i /\ (1..i) \ {i} = 1..(i - 1)
    BY <1>1, FoldSteps
  <2>2. C[1..i] = ImportRow(C[(1..i) \ {Max(1..i)}], file[Max(1..i)], amount[file[Max(1..i)]])
    BY <1>5, <2>1
  <2>3. QED
    BY <2>1, <2>2
<1>9. \A i \in 1..n : C[1..(i - 1)] \in S => C[1..i] \in S
  BY <1>1, <1>8
<1>10. C[1..n] \in S
  BY <1>1, <1>7, <1>9, FoldStays
<1>11. QED
  BY <1>6, <1>10

\* The postings of an account that was merged into.
LEMMA SweptFold ==
  ASSUME NEW S, NEW d, NEW tgt, d.rows \in Seq(Posting), [db |-> d, keys |-> {}] \in S,
         \A x \in S, p \in Posting : Check(tgt, x, p) \in S
  PROVE  Sweep(d, tgt) \in S
<1> DEFINE n == Len(d.rows)
           base == [db |-> d, keys |-> {}]
           Body(f) == [s \in SUBSET (1..n) |->
                         IF s = {} THEN base ELSE Check(tgt, f[s \ {Max(s)}], d.rows[Max(s)])]
           C == CHOOSE f : f = Body(f)
           G == [z \in S \X (1..n) |-> Check(tgt, z[1], d.rows[z[2]])]
<1>1. n \in Nat /\ DOMAIN d.rows = 1..n /\ \A i \in 1..n : d.rows[i] \in Posting
  BY LenProperties, ElementOfSeq
<1>2. G \in [S \X (1..n) -> S]
  BY <1>1
<1>3. PICK F \in [SUBSET (1..n) -> S] : Folding(F, base, G, n)
  BY <1>1, <1>2, FoldExists
<1>4. F = Body(F)
  <2>1. \A s \in SUBSET (1..n) : s # {} =>
          G[<<F[s \ {Max(s)}], Max(s)>>] = Check(tgt, F[s \ {Max(s)}], d.rows[Max(s)])
    BY <1>1, <1>3, MaxIsIn
  <2>2. QED
    BY <1>3, <2>1 DEF Folding
<1>5. C = Body(C)
  BY <1>4
<1>6. Sweep(d, tgt) = C[1..n]
  BY <1>1 DEF Sweep, FoldLeft, MapThenFoldSet
<1> HIDE DEF C
<1>7. C[{}] = base
  BY <1>5
<1>8. ASSUME NEW i \in 1..n PROVE C[1..i] = Check(tgt, C[1..(i - 1)], d.rows[i])
  <2>1. 1..i \in SUBSET (1..n) /\ 1..i # {} /\ Max(1..i) = i /\ (1..i) \ {i} = 1..(i - 1)
    BY <1>1, FoldSteps
  <2>2. C[1..i] = Check(tgt, C[(1..i) \ {Max(1..i)}], d.rows[Max(1..i)])
    BY <1>5, <2>1
  <2>3. QED
    BY <2>1, <2>2
<1>9. \A i \in 1..n : C[1..(i - 1)] \in S => C[1..i] \in S
  BY <1>1, <1>8
<1>10. C[1..n] \in S
  BY <1>1, <1>7, <1>9, FoldStays
<1>11. QED
  BY <1>6, <1>10

\* The groups that are resolved.
LEMMA ResolvedFold ==
  ASSUME NEW S, NEW read \in S, NEW X, NEW groups \in Seq(X),
         \A x \in S, i \in 1..Len(groups) : Resolve(read, x, groups[i]) \in S
  PROVE  Resolved(read, groups) \in S
<1> DEFINE n == Len(groups)
           Body(f) == [s \in SUBSET (1..n) |->
                         IF s = {} THEN read ELSE Resolve(read, f[s \ {Max(s)}], groups[Max(s)])]
           C == CHOOSE f : f = Body(f)
           G == [z \in S \X (1..n) |-> Resolve(read, z[1], groups[z[2]])]
<1>1. n \in Nat /\ DOMAIN groups = 1..n /\ \A i \in 1..n : groups[i] \in X
  BY LenProperties, ElementOfSeq
<1>2. G \in [S \X (1..n) -> S]
  BY <1>1
<1>3. PICK F \in [SUBSET (1..n) -> S] : Folding(F, read, G, n)
  BY <1>1, <1>2, FoldExists
<1>4. F = Body(F)
  <2>1. \A s \in SUBSET (1..n) : s # {} =>
          G[<<F[s \ {Max(s)}], Max(s)>>] = Resolve(read, F[s \ {Max(s)}], groups[Max(s)])
    BY <1>1, <1>3, MaxIsIn
  <2>2. QED
    BY <1>3, <2>1 DEF Folding
<1>5. C = Body(C)
  BY <1>4
<1>6. Resolved(read, groups) = C[1..n]
  BY <1>1 DEF Resolved, FoldLeft, MapThenFoldSet
<1> HIDE DEF C
<1>7. C[{}] = read
  BY <1>5
<1>8. ASSUME NEW i \in 1..n PROVE C[1..i] = Resolve(read, C[1..(i - 1)], groups[i])
  <2>1. 1..i \in SUBSET (1..n) /\ 1..i # {} /\ Max(1..i) = i /\ (1..i) \ {i} = 1..(i - 1)
    BY <1>1, FoldSteps
  <2>2. C[1..i] = Resolve(read, C[(1..i) \ {Max(1..i)}], groups[Max(1..i)])
    BY <1>5, <2>1
  <2>3. QED
    BY <2>1, <2>2
<1>9. \A i \in 1..n : C[1..(i - 1)] \in S => C[1..i] \in S
  BY <1>1, <1>8
<1>10. C[1..n] \in S
  BY <1>1, <1>7, <1>9, FoldStays
<1>11. QED
  BY <1>6, <1>10

\* The groups of the preview.
LEMMA GatheredFold ==
  ASSUME NEW S, NEW d, NEW no, NEW X, NEW list \in Seq(X),
         [used |-> {}, groups |-> <<>>] \in S,
         \A x \in S, i \in 1..Len(list) : Gather(d, no, list, x, i) \in S
  PROVE  Gathered(d, no, list) \in S
<1> DEFINE n == Len(list)
           base == [used |-> {}, groups |-> <<>>]
           index == [i \in DOMAIN list |-> i]
           Body(f) == [s \in SUBSET (1..n) |->
                         IF s = {} THEN base ELSE Gather(d, no, list, f[s \ {Max(s)}], index[Max(s)])]
           C == CHOOSE f : f = Body(f)
           G == [z \in S \X (1..n) |-> Gather(d, no, list, z[1], index[z[2]])]
<1>1. /\ n \in Nat /\ DOMAIN list = 1..n /\ \A i \in 1..n : list[i] \in X
      /\ DOMAIN index = 1..n /\ \A i \in 1..n : index[i] = i
  <2>1. n \in Nat /\ DOMAIN list = 1..n /\ \A i \in 1..n : list[i] \in X
    BY LenProperties, ElementOfSeq
  <2>2. QED
    BY <2>1
<1>2. G \in [S \X (1..n) -> S]
  BY <1>1
<1>3. PICK F \in [SUBSET (1..n) -> S] : Folding(F, base, G, n)
  BY <1>1, <1>2, FoldExists
<1>4. F = Body(F)
  <2>1. \A s \in SUBSET (1..n) : s # {} =>
          G[<<F[s \ {Max(s)}], Max(s)>>] = Gather(d, no, list, F[s \ {Max(s)}], index[Max(s)])
    BY <1>1, <1>3, MaxIsIn
  <2>2. QED
    BY <1>3, <2>1 DEF Folding
<1>5. C = Body(C)
  BY <1>4
<1>6. Gathered(d, no, list) = C[1..n]
  BY <1>1 DEF Gathered, FoldLeftDomain, FoldLeft, MapThenFoldSet
<1> HIDE DEF C
<1>7. C[{}] = base
  BY <1>5
<1>8. ASSUME NEW i \in 1..n PROVE C[1..i] = Gather(d, no, list, C[1..(i - 1)], index[i])
  <2>1. 1..i \in SUBSET (1..n) /\ 1..i # {} /\ Max(1..i) = i /\ (1..i) \ {i} = 1..(i - 1)
    BY <1>1, FoldSteps
  <2>2. C[1..i] = Gather(d, no, list, C[(1..i) \ {Max(1..i)}], index[Max(1..i)])
    BY <1>5, <2>1
  <2>3. QED
    BY <2>1, <2>2
<1>9. \A i \in 1..n : C[1..(i - 1)] \in S => C[1..i] \in S
  BY <1>1, <1>8
<1>10. C[1..n] \in S
  BY <1>1, <1>7, <1>9, FoldStays
<1>11. QED
  BY <1>6, <1>10

\* The partial sums of a posting's allocations.
LEMMA TotalRun ==
  ASSUME NEW allocs \in Seq(Allocation)
  PROVE  \E C : /\ C[{}] = 0
                /\ \A i \in 1..Len(allocs) : C[1..i] = C[1..(i - 1)] + allocs[i].amount
                /\ Total(allocs) = C[1..Len(allocs)]
<1> DEFINE n == Len(allocs)
           Body(f) == [s \in SUBSET (1..n) |->
                         IF s = {} THEN 0 ELSE f[s \ {Max(s)}] + allocs[Max(s)].amount]
           C == CHOOSE f : f = Body(f)
           G == [z \in Int \X (1..n) |-> z[1] + allocs[z[2]].amount]
<1>1. n \in Nat /\ DOMAIN allocs = 1..n /\ \A i \in 1..n : allocs[i].amount \in Int
  <2>1. n \in Nat /\ DOMAIN allocs = 1..n /\ \A i \in 1..n : allocs[i] \in Allocation
    BY LenProperties, ElementOfSeq
  <2>2. \A i \in 1..n : allocs[i].amount \in Int
    BY <2>1 DEF Allocation
  <2>3. QED
    BY <2>1, <2>2
<1>2. G \in [Int \X (1..n) -> Int]
  BY <1>1
<1>0. 0 \in Int
  OBVIOUS
<1>3. PICK F \in [SUBSET (1..n) -> Int] : Folding(F, 0, G, n)
  BY <1>0, <1>1, <1>2, FoldExists
<1>4. F = Body(F)
  <2>1. \A s \in SUBSET (1..n) : s # {} =>
          G[<<F[s \ {Max(s)}], Max(s)>>] = F[s \ {Max(s)}] + allocs[Max(s)].amount
    BY <1>1, <1>3, MaxIsIn
  <2>2. QED
    BY <1>3, <2>1 DEF Folding
<1>5. C = Body(C)
  BY <1>4
<1>6. Total(allocs) = C[1..n]
  BY <1>1 DEF Total, FoldLeft, MapThenFoldSet
<1> HIDE DEF C
<1>7. C[{}] = 0
  BY <1>5
<1>8. ASSUME NEW i \in 1..n PROVE C[1..i] = C[1..(i - 1)] + allocs[i].amount
  <2>1. 1..i \in SUBSET (1..n) /\ 1..i # {} /\ Max(1..i) = i /\ (1..i) \ {i} = 1..(i - 1)
    BY <1>1, FoldSteps
  <2>2. C[1..i] = C[(1..i) \ {Max(1..i)}] + allocs[Max(1..i)].amount
    BY <1>5, <2>1
  <2>3. QED
    BY <2>1, <2>2
<1>9. QED
  BY <1>6, <1>7, <1>8

\* How a group grows.
Grows(C, d, list, first, used) ==
  /\ C[{}] = <<list[first]>>
  /\ \A j \in 1..(Len(list) - first) : C[1..j] = Joined(d, used, C[1..(j - 1)], list[first + j])
  /\ GroupFrom(d, list, first, used) = C[1..(Len(list) - first)]

LEMMA GroupRun ==
  ASSUME NEW d, NEW X, NEW list \in Seq(X), NEW first \in 1..Len(list), NEW used
  PROVE  \E C : Grows(C, d, list, first, used)
<1> DEFINE rest == SubSeq(list, first + 1, Len(list))
           n == Len(rest)
           Body(f) == [s \in SUBSET (1..n) |->
                         IF s = {} THEN <<list[first]>> ELSE Joined(d, used, f[s \ {Max(s)}], rest[Max(s)])]
           C == CHOOSE f : f = Body(f)
           G == [z \in Seq(X) \X (1..n) |-> Joined(d, used, z[1], rest[z[2]])]
<1>0. /\ Len(list) \in Nat /\ list[first] \in X /\ first + 1 \in 1..(Len(list) + 1)
      /\ rest \in Seq(X) /\ n = Len(list) - first
      /\ \A j \in 1..n : rest[j] = list[first + j]
  <2>1. Len(list) \in Nat /\ list[first] \in X
    BY LenProperties, ElementOfSeq
  <2>2. rest \in Seq(X) /\ Len(rest) = Len(list) - first
        /\ \A j \in 1..(Len(list) - first) : rest[j] = list[first + j]
    BY <2>1, SubSeqProperties
  <2>3. QED
    BY <2>1, <2>2
<1> HIDE DEF rest
<1>1. n \in Nat /\ DOMAIN rest = 1..n /\ (\A i \in 1..n : rest[i] \in X) /\ <<list[first]>> \in Seq(X)
  BY <1>0, LenProperties, ElementOfSeq
<1>2. G \in [Seq(X) \X (1..n) -> Seq(X)]
  <2>1. \A g \in Seq(X), q \in X : Joined(d, used, g, q) \in Seq(X)
    BY AppendProperties DEF Joined
  <2>2. QED
    BY <1>1, <2>1
<1>3. PICK F \in [SUBSET (1..n) -> Seq(X)] : Folding(F, <<list[first]>>, G, n)
  BY <1>1, <1>2, FoldExists
<1>4. F = Body(F)
  <2>1. \A s \in SUBSET (1..n) : s # {} =>
          G[<<F[s \ {Max(s)}], Max(s)>>] = Joined(d, used, F[s \ {Max(s)}], rest[Max(s)])
    BY <1>1, <1>3, MaxIsIn
  <2>2. QED
    BY <1>3, <2>1 DEF Folding
<1>5. C = Body(C)
  BY <1>4
<1>6. GroupFrom(d, list, first, used) = C[1..n]
  BY <1>1 DEF GroupFrom, rest, FoldLeft, MapThenFoldSet
<1> HIDE DEF C
<1>7. C[{}] = <<list[first]>>
  BY <1>5
<1>8. ASSUME NEW i \in 1..n PROVE C[1..i] = Joined(d, used, C[1..(i - 1)], rest[i])
  <2>1. 1..i \in SUBSET (1..n) /\ 1..i # {} /\ Max(1..i) = i /\ (1..i) \ {i} = 1..(i - 1)
    BY <1>1, FoldSteps
  <2>2. C[1..i] = Joined(d, used, C[(1..i) \ {Max(1..i)}], rest[Max(1..i)])
    BY <1>5, <2>1
  <2>3. QED
    BY <2>1, <2>2
<1>9. Grows(C, d, list, first, used)
  BY <1>0, <1>6, <1>7, <1>8 DEF Grows
<1>10. QED
  BY <1>9

-----------------------------------------------------------------------------
(* Sums of allocations.                                                      *)

LEMMA TotalSame ==
  ASSUME NEW allocs \in Seq(Allocation), NEW new \in Seq(Allocation), Len(new) = Len(allocs),
         \A i \in 1..Len(allocs) : new[i].amount = allocs[i].amount
  PROVE  Total(new) = Total(allocs)
<1> DEFINE n == Len(allocs)
<1>1. n \in Nat
  BY LenProperties
<1>2. PICK C : /\ C[{}] = 0
               /\ \A i \in 1..n : C[1..i] = C[1..(i - 1)] + allocs[i].amount
               /\ Total(allocs) = C[1..n]
  BY TotalRun
<1>3. PICK D : /\ D[{}] = 0
               /\ \A i \in 1..n : D[1..i] = D[1..(i - 1)] + new[i].amount
               /\ Total(new) = D[1..n]
  BY TotalRun
<1> HIDE DEF n
<1> DEFINE f == [i \in 0..n |-> <<C[1..i], D[1..i]>>]
           S == {<<x, x>> : x \in Int}
<1>4. f[0] \in S
  <2>1. 1..0 = {} /\ 0 \in 0..n /\ <<0, 0>> \in S
    BY <1>1
  <2>2. QED
    BY <1>2, <1>3, <2>1
<1>5. ASSUME NEW i \in 1..n, f[i - 1] \in S PROVE f[i] \in S
  <2>1. f[i - 1] = <<C[1..(i - 1)], D[1..(i - 1)]>> /\ f[i] = <<C[1..i], D[1..i]>>
    BY <1>1
  <2>2. C[1..(i - 1)] \in Int /\ D[1..(i - 1)] = C[1..(i - 1)]
    BY <1>5, <2>1
  <2>3. allocs[i].amount \in Int /\ new[i].amount = allocs[i].amount
    <3>1. allocs[i] \in Allocation
      BY ElementOfSeq DEF n
    <3>2. QED
      BY <3>1 DEF n, Allocation
  <2>4. C[1..i] = C[1..(i - 1)] + allocs[i].amount /\ D[1..i] = C[1..i]
    BY <1>2, <1>3, <2>2, <2>3
  <2>5. C[1..i] \in Int
    BY <2>2, <2>3, <2>4
  <2>6. QED
    BY <2>1, <2>4, <2>5
<1>6. f[n] \in S
  <2> HIDE DEF f, S
  <2>1. QED
    BY <1>1, <1>4, <1>5, Stays
<1>7. f[n] = <<C[1..n], D[1..n]>>
  BY <1>1
<1>8. QED
  BY <1>2, <1>3, <1>6, <1>7

LEMMA TotalOfOne ==
  ASSUME NEW a \in Allocation
  PROVE  <<a>> \in Seq(Allocation) /\ <<a>> # <<>> /\ Total(<<a>>) = a.amount
<1>1. <<a>> \in Seq(Allocation) /\ Len(<<a>>) = 1 /\ <<a>>[1] = a
  OBVIOUS
<1>2. PICK C : /\ C[{}] = 0
               /\ \A i \in 1..1 : C[1..i] = C[1..(i - 1)] + <<a>>[i].amount
               /\ Total(<<a>>) = C[1..1]
  BY <1>1, TotalRun
<1>3. 1 \in 1..1 /\ 1 - 1 = 0 /\ 1..0 = {} /\ a.amount \in Int
  BY DEF Allocation
<1>4. C[1..1] = C[1..0] + a.amount
  BY <1>1, <1>2, <1>3
<1>5. QED
  BY <1>1, <1>2, <1>3, <1>4

-----------------------------------------------------------------------------
(* The rows of the table: a sequence without repetitions.                    *)

Listed(rows, L) ==
  /\ rows \in Seq(Posting)
  /\ L = {rows[i] : i \in 1..Len(rows)}
  /\ \A i, j \in 1..Len(rows) : rows[i] = rows[j] => i = j

LEMMA ListedFinite ==
  ASSUME NEW rows, NEW L, Listed(rows, L)
  PROVE  L \subseteq Posting /\ IsFiniteSet(L) /\ Cardinality(L) = Len(rows) /\ ToSet(rows) = L
<1>1. Len(rows) \in Nat /\ DOMAIN rows = 1..Len(rows) /\ rows \in [1..Len(rows) -> Posting]
  BY LenProperties DEF Listed
<1>2. rows \in Bijection(1..Len(rows), L)
  <2>1. rows \in [1..Len(rows) -> L]
    BY <1>1 DEF Listed
  <2>2. QED
    BY <1>1, <2>1 DEF Listed, Bijection, Injection, Surjection, IsInjective
<1>3. IsFiniteSet(1..Len(rows)) /\ Cardinality(1..Len(rows)) = Len(rows)
  BY <1>1, FS_Interval
<1>4. IsFiniteSet(L) /\ Cardinality(L) = Len(rows)
  BY <1>2, <1>3, FS_Bijection DEF ExistsBijection
<1>5. QED
  BY <1>1, <1>4 DEF Listed, ToSet

LEMMA ListedNone == Listed(<<>>, {})
<1>1. <<>> \in Seq(Posting) /\ Len(<<>>) = 0
  BY EmptySeq
<1>2. QED
  BY <1>1 DEF Listed

LEMMA ListedMore ==
  ASSUME NEW rows, NEW L, Listed(rows, L), NEW p \in Posting \ L
  PROVE  Listed(Append(rows, p), L \cup {p})
<1> DEFINE more == Append(rows, p)
           n == Len(rows)
<1>1. n \in Nat /\ more \in Seq(Posting) /\ Len(more) = n + 1 /\ more[n + 1] = p
      /\ \A i \in 1..n : more[i] = rows[i]
  BY LenProperties, AppendProperties DEF Listed
<1> HIDE DEF more
<1>2. \A i \in 1..n : more[i] \in L /\ more[i] # p
  BY <1>1 DEF Listed
<1>3. ASSUME NEW i \in 1..(n + 1), NEW j \in 1..(n + 1), more[i] = more[j] PROVE i = j
  <2>1. CASE i \in 1..n /\ j \in 1..n
    BY <1>1, <1>3, <2>1 DEF Listed
  <2>2. CASE i = n + 1 \/ j = n + 1
    BY <1>1, <1>2, <1>3, <2>2
  <2>3. QED
    BY <1>1, <2>1, <2>2
<1>4. L \cup {p} = {more[i] : i \in 1..(n + 1)}
  <2>1. ASSUME NEW x \in L \cup {p} PROVE \E i \in 1..(n + 1) : x = more[i]
    <3>1. CASE x = p
      BY <1>1, <3>1
    <3>2. CASE x \in L
      <4>1. PICK i \in 1..n : x = rows[i]
        BY <3>2 DEF Listed
      <4>2. QED
        BY <1>1, <4>1
    <3>3. QED
      BY <2>1, <3>1, <3>2
  <2>2. \A i \in 1..(n + 1) : more[i] \in L \cup {p}
    BY <1>1, <1>2
  <2>3. QED
    BY <2>1, <2>2
<1>5. QED
  BY <1>1, <1>3, <1>4 DEF Listed, more

\* The place of an element.
LEMMA PlaceOf ==
  ASSUME NEW X, NEW seq \in Seq(X)
  PROVE  \A y : (\E k \in 1..Len(seq) : seq[k] = y) =>
           LET k == SelectInSeq(seq, LAMBDA z : z = y) IN k \in 1..Len(seq) /\ seq[k] = y
<1>1. TAKE y
<1> DEFINE I == {k \in 1..Len(seq) : seq[k] = y}
<1>2. HAVE \E k \in 1..Len(seq) : seq[k] = y
<1>3. I \in SUBSET Nat /\ I # {}
  BY <1>2
<1>4. PICK k \in I : \A l \in I : k <= l
  BY <1>3, Least
<1>5. Min(I) \in I
  BY <1>4 DEF Min
<1>6. QED
  BY <1>3, <1>5 DEF SelectInSeq

LEMMA ListedLess ==
  ASSUME NEW rows, NEW L, Listed(rows, L), NEW p \in L
  PROVE  Listed(RemoveFirst(rows, p), L \ {p})
<1> DEFINE n == Len(rows)
           k == SelectInSeq(rows, LAMBDA z : z = p)
           less == RemoveFirst(rows, p)
           front == SubSeq(rows, 1, k - 1)
           back == SubSeq(rows, k + 1, n)
<1>1. rows \in Seq(Posting) /\ n \in Nat /\ \A i \in 1..n : rows[i] \in Posting
  BY LenProperties, ElementOfSeq DEF Listed
<1>2. k \in 1..n /\ rows[k] = p /\ \E i \in 1..n : rows[i] = p
  BY <1>1, PlaceOf DEF Listed
<1>3. less = front \o back
  BY <1>2 DEF RemoveFirst, RemoveAt
<1> HIDE DEF k
<1>4. front \in Seq(Posting) /\ Len(front) = k - 1 /\ \A i \in 1..(k - 1) : front[i] = rows[i]
  <2>1. /\ SubSeq(rows, 1, k - 1) \in Seq(Posting)
        /\ Len(SubSeq(rows, 1, k - 1)) = IF 1 <= k - 1 THEN (k - 1) - 1 + 1 ELSE 0
        /\ \A i \in 1..((k - 1) - 1 + 1) : SubSeq(rows, 1, k - 1)[i] = rows[1 + i - 1]
    BY <1>1, <1>2, SubSeqProperties
  <2>2. QED
    BY <1>2, <2>1
<1>5. back \in Seq(Posting) /\ Len(back) = n - k /\ \A i \in 1..(n - k) : back[i] = rows[k + i]
  <2>1. /\ SubSeq(rows, k + 1, n) \in Seq(Posting)
        /\ Len(SubSeq(rows, k + 1, n)) = IF k + 1 <= n THEN n - (k + 1) + 1 ELSE 0
        /\ \A i \in 1..(n - (k + 1) + 1) : SubSeq(rows, k + 1, n)[i] = rows[(k + 1) + i - 1]
    BY <1>1, <1>2, SubSeqProperties
  <2>2. QED
    BY <1>1, <1>2, <2>1
<1> HIDE DEF less, front, back
<1> DEFINE old(i) == IF i <= k - 1 THEN i ELSE i + 1
<1>6. /\ less \in Seq(Posting) /\ Len(less) = n - 1
      /\ \A i \in 1..(n - 1) : less[i] = rows[old(i)]
  <2>1. /\ less \in Seq(Posting) /\ Len(less) = (k - 1) + (n - k)
        /\ \A i \in 1..((k - 1) + (n - k)) :
             less[i] = IF i <= k - 1 THEN front[i] ELSE back[i - (k - 1)]
    BY <1>3, <1>4, <1>5, ConcatProperties
  <2>2. (k - 1) + (n - k) = n - 1
    BY <1>1, <1>2
  <2>3. ASSUME NEW i \in 1..(n - 1) PROVE less[i] = rows[old(i)]
    <3>1. CASE i <= k - 1
      BY <1>1, <1>2, <1>4, <2>1, <2>2, <3>1
    <3>2. CASE ~(i <= k - 1)
      <4>1. i - (k - 1) \in 1..(n - k) /\ k + (i - (k - 1)) = i + 1
        BY <1>1, <1>2, <3>2
      <4>2. QED
        BY <1>5, <2>1, <2>2, <3>2, <4>1
    <3>3. QED
      BY <3>1, <3>2
  <2>4. QED
    BY <2>1, <2>2, <2>3
<1>7. \A i \in 1..(n - 1) : old(i) \in 1..n /\ old(i) # k
  BY <1>1, <1>2
<1>8. ASSUME NEW i \in 1..(n - 1), NEW j \in 1..(n - 1), less[i] = less[j] PROVE i = j
  <2>1. old(i) = old(j)
    <3>1. rows[old(i)] = rows[old(j)] /\ old(i) \in 1..n /\ old(j) \in 1..n
      BY <1>6, <1>7, <1>8
    <3> HIDE DEF old
    <3>2. QED
      BY <3>1 DEF Listed
  <2>2. QED
    BY <1>1, <1>2, <2>1
<1>9. L \ {p} = {less[i] : i \in 1..(n - 1)}
  <2>1. ASSUME NEW x \in L \ {p} PROVE \E i \in 1..(n - 1) : x = less[i]
    <3>1. PICK j \in 1..n : x = rows[j]
      BY <2>1 DEF Listed
    <3>2. j # k
      BY <1>2, <2>1, <3>1
    <3>3. PICK i \in 1..(n - 1) : old(i) = j
      <4>1. CASE j < k
        <5>1. j \in 1..(n - 1) /\ old(j) = j
          BY <1>1, <1>2, <4>1
        <5>2. QED
          BY <5>1
      <4>2. CASE j > k
        <5>1. j - 1 \in 1..(n - 1) /\ old(j - 1) = j
          BY <1>1, <1>2, <4>2
        <5>2. QED
          BY <5>1
      <4>3. QED
        BY <1>1, <1>2, <3>2, <4>1, <4>2
    <3>4. QED
      BY <1>6, <3>1, <3>3
  <2>2. ASSUME NEW i \in 1..(n - 1) PROVE less[i] \in L \ {p}
    <3>1. old(i) \in 1..n /\ old(i) # k /\ less[i] = rows[old(i)]
      BY <1>6, <1>7
    <3> HIDE DEF old
    <3>2. rows[old(i)] # rows[k]
      BY <1>2, <3>1 DEF Listed
    <3>3. QED
      BY <1>2, <3>1, <3>2 DEF Listed
  <2>3. QED
    BY <2>1, <2>2
<1>10. QED
  BY <1>6, <1>8, <1>9 DEF Listed, less

-----------------------------------------------------------------------------
(* The postings.                                                             *)

Posted == [acct : Account, amount : Int, custom : Nat, excluded : BOOLEAN, allocs : Seq(Allocation)]

\* The allocations of a posting add up to it.
Adds(K) == K.allocs # <<>> /\ Total(K.allocs) = K.amount

\* What becomes of allocations under consolidate_posting_pair.
MergedAllocs(K, R) ==
  IF Len(R.allocs) > 1 THEN R.allocs
  ELSE <<Absorb(Head(K.allocs), Head(R.allocs))>> \o Tail(K.allocs)

LEMMA AbsorbTypes ==
  ASSUME NEW a \in Allocation, NEW b \in Allocation
  PROVE  /\ Absorb(a, b) \in Allocation /\ Absorb(a, b).amount = a.amount
         /\ Absorb(a, b).marks = a.marks \cup b.marks
  BY DEF Absorb, Allocation

\* The first allocation of a posting is given other fields, not another amount.
LEMMA FirstReplaced ==
  ASSUME NEW allocs \in Seq(Allocation), allocs # <<>>,
         NEW a \in Allocation, a.amount = allocs[1].amount,
         NEW new \in Seq(Allocation), Len(new) = Len(allocs), new[1] = a,
         \A i \in 2..Len(allocs) : new[i] = allocs[i]
  PROVE  new # <<>> /\ Total(new) = Total(allocs)
<1>1. Len(allocs) \in Nat \ {0} /\ new # <<>>
  BY EmptySeq
<1>2. \A i \in 1..Len(allocs) : new[i].amount = allocs[i].amount
  <2> SUFFICES ASSUME NEW i \in 1..Len(allocs) PROVE new[i].amount = allocs[i].amount
    OBVIOUS
  <2>1. i = 1 \/ i \in 2..Len(allocs)
    BY <1>1
  <2>2. QED
    BY <2>1
<1>3. QED
  BY <1>1, <1>2, TotalSame

LEMMA AbsorbedAllocs ==
  ASSUME NEW s \in Seq(Allocation), s # <<>>, NEW t \in Seq(Allocation), t # <<>>
  PROVE  LET m == <<Absorb(Head(s), Head(t))>> \o Tail(s)
         IN  /\ m \in Seq(Allocation) /\ m # <<>> /\ Total(m) = Total(s)
             /\ Len(m) = Len(s) /\ m[1] = Absorb(s[1], t[1])
             /\ \A i \in 2..Len(s) : m[i] = s[i]
<1> DEFINE a == Absorb(Head(s), Head(t))
           one == <<a>>
           m == one \o Tail(s)
<1>1. /\ Head(s) = s[1] /\ Head(t) = t[1] /\ s[1] \in Allocation /\ t[1] \in Allocation
      /\ Len(s) \in Nat \ {0}
      /\ Tail(s) \in Seq(Allocation) /\ Len(Tail(s)) = Len(s) - 1
      /\ \A i \in 1..(Len(s) - 1) : Tail(s)[i] = s[i + 1]
  BY HeadTailProperties, EmptySeq
<1>2. a \in Allocation /\ a.amount = s[1].amount /\ a = Absorb(s[1], t[1])
  BY <1>1, AbsorbTypes
<1> HIDE DEF a
<1>3. one \in Seq(Allocation) /\ Len(one) = 1 /\ one[1] = a
  BY <1>2
<1> HIDE DEF one
<1>4. /\ m \in Seq(Allocation) /\ Len(m) = 1 + (Len(s) - 1)
      /\ \A i \in 1..(1 + (Len(s) - 1)) : m[i] = IF i <= 1 THEN one[i] ELSE Tail(s)[i - 1]
  <2>1. /\ m \in Seq(Allocation) /\ Len(m) = Len(one) + Len(Tail(s))
        /\ \A i \in 1..(Len(one) + Len(Tail(s))) :
             m[i] = IF i <= Len(one) THEN one[i] ELSE Tail(s)[i - Len(one)]
    BY <1>1, <1>3, ConcatProperties
  <2>2. Len(one) = 1 /\ Len(Tail(s)) = Len(s) - 1
    BY <1>1, <1>3
  <2> HIDE DEF m
  <2>3. QED
    BY <2>1, <2>2
<1>5. m[1] = a /\ Len(m) = Len(s)
  BY <1>1, <1>3, <1>4
<1>6. \A i \in 2..Len(s) : m[i] = s[i]
  BY <1>1, <1>4
<1> HIDE DEF m
<1>7. m # <<>> /\ Total(m) = Total(s)
  BY <1>2, <1>4, <1>5, <1>6, FirstReplaced
<1>8. QED
  BY <1>2, <1>4, <1>5, <1>6, <1>7 DEF m, one, a

LEMMA MergedIs ==
  ASSUME NEW K \in Posted, NEW R \in Posted, K.allocs # <<>>, R.allocs # <<>>
  PROVE  /\ Merged(K, R) \in Posted
         /\ Merged(K, R).acct = K.acct /\ Merged(K, R).amount = K.amount
         /\ Merged(K, R).excluded = (K.excluded \/ R.excluded)
         /\ Merged(K, R).allocs = MergedAllocs(K, R) /\ Merged(K, R).allocs # <<>>
         /\ Adds(K) /\ Adds(R) /\ K.amount = R.amount => Adds(Merged(K, R))
<1> DEFINE c == IF K.custom = NoDay THEN R.custom ELSE K.custom
           m == MergedAllocs(K, R)
<1>1. K.allocs \in Seq(Allocation) /\ R.allocs \in Seq(Allocation)
      /\ c \in Nat /\ K.excluded \in BOOLEAN /\ R.excluded \in BOOLEAN
  BY DEF Posted
<1>2. m \in Seq(Allocation) /\ m # <<>> /\ (Total(m) = Total(K.allocs) \/ m = R.allocs)
  BY <1>1, AbsorbedAllocs DEF MergedAllocs
<1>3. PICK e \in BOOLEAN : e = (K.excluded \/ R.excluded)
  OBVIOUS
<1>4. Merged(K, R) = [K EXCEPT !.custom = c, !.excluded = e, !.allocs = m]
  BY <1>3 DEF Merged, MergedAllocs
<1> HIDE DEF c, m
<1> DEFINE M == [K EXCEPT !.custom = c, !.excluded = e, !.allocs = m]
<1>5. M \in Posted /\ M.acct = K.acct /\ M.amount = K.amount /\ M.excluded = e /\ M.allocs = m
  BY <1>1, <1>2 DEF Posted
<1> HIDE DEF M
<1>6. Merged(K, R) = M
  BY <1>4 DEF M
<1>7. Adds(K) /\ Adds(R) /\ K.amount = R.amount => Adds(M)
  BY <1>2, <1>5 DEF Adds
<1>8. QED
  BY <1>2, <1>3, <1>5, <1>6, <1>7 DEF m

-----------------------------------------------------------------------------
(* The ledger.                                                               *)

\* Each source reports one amount for a posting, for good.
FixedAmounts == \A p \in Posting : \A a, b \in Reported[p] : a = b

\* A posting of an account in A, with an amount that was reported for it, and
\* with allocations that add up to it unless amounts are corrected later.
Sound(A, p, K) ==
  /\ K \in Posted
  /\ K.acct \in A /\ K.amount \in Reported[p]
  /\ K.allocs # <<>>
  /\ FixedAmounts => Adds(K)

Tables == UNION {[L -> Posted] : L \in SUBSET Posting}

Ledgers(A) ==
  {d \in [rows : Seq(Posting), at : Tables] :
     Listed(d.rows, Live(d)) /\ \A p \in Live(d) : Sound(A, p, d.at[p])}

LEMMA LedgerIs ==
  ASSUME NEW A, NEW d \in Ledgers(A)
  PROVE  /\ Listed(d.rows, Live(d)) /\ Live(d) \subseteq Posting
         /\ d = [rows |-> d.rows, at |-> d.at] /\ d.at \in [Live(d) -> Posted]
         /\ \A p \in Live(d) : Sound(A, p, d.at[p])
  BY DEF Ledgers, Live, Tables

LEMMA LedgerMade ==
  ASSUME NEW A, NEW rows, NEW L, Listed(rows, L), L \subseteq Posting, NEW at, at = [p \in L |-> at[p]],
         \A p \in L : Sound(A, p, at[p])
  PROVE  [rows |-> rows, at |-> at] \in Ledgers(A)
<1>1. at \in [L -> Posted] /\ DOMAIN at = L
  BY DEF Sound
<1>2. at \in Tables /\ rows \in Seq(Posting)
  BY <1>1 DEF Tables, Listed
<1>3. QED
  BY <1>1, <1>2 DEF Ledgers, Live

\* Rows and table after a consolidation.
LEMMA ConsolidateIs ==
  ASSUME NEW A, NEW d \in Ledgers(A), NEW k \in Live(d), NEW r \in Live(d)
  PROVE  LET n == Consolidate(d, k, r)
         IN  /\ n.rows = RemoveFirst(d.rows, r) /\ Live(n) = Live(d) \ {r}
             /\ n = [rows |-> n.rows, at |-> n.at] /\ n.at = [q \in Live(n) |-> n.at[q]]
             /\ \A q \in Live(n) : n.at[q] = IF q = k THEN Merged(d.at[k], d.at[r]) ELSE d.at[q]
<1> DEFINE at == [d.at EXCEPT ![k] = Merged(d.at[k], d.at[r])]
           b == [d EXCEPT !.at = at]
           new == [q \in Live(d) \ {r} |-> at[q]]
<1>1. d = [rows |-> d.rows, at |-> d.at] /\ DOMAIN d.at = Live(d)
  BY LedgerIs DEF Live
<1>2. b.rows = d.rows /\ b.at = at
  BY <1>1
<1>3. Consolidate(d, k, r) = Drop(b, r)
  BY DEF Consolidate
<1> HIDE DEF b
<1>4. DOMAIN at = Live(d) /\ \A q \in Live(d) : at[q] = IF q = k THEN Merged(d.at[k], d.at[r]) ELSE d.at[q]
  BY <1>1
<1> HIDE DEF at
<1>5. Drop(b, r) = [rows |-> RemoveFirst(d.rows, r), at |-> new]
  BY <1>2, <1>4 DEF Drop, Live, Restrict
<1>6. DOMAIN new = Live(d) \ {r} /\ \A q \in Live(d) \ {r} : new[q] = at[q]
  OBVIOUS
<1> DEFINE n == [rows |-> RemoveFirst(d.rows, r), at |-> new]
<1>7. n.rows = RemoveFirst(d.rows, r) /\ n.at = new /\ n = [rows |-> n.rows, at |-> n.at] /\ Live(n) = Live(d) \ {r}
  BY <1>6 DEF Live
<1>8. Consolidate(d, k, r) = n
  BY <1>3, <1>5
<1>9. new = [q \in Live(d) \ {r} |-> new[q]]
  OBVIOUS
<1> HIDE DEF n, new
<1>10. QED
  BY <1>4, <1>6, <1>7, <1>8, <1>9

LEMMA ConsolidateKeeps ==
  ASSUME NEW A, NEW d \in Ledgers(A), NEW k \in Live(d), NEW r \in Live(d),
         d.at[k].amount = d.at[r].amount
  PROVE  Consolidate(d, k, r) \in Ledgers(A)
<1> DEFINE n == Consolidate(d, k, r)
<1>1. /\ n.rows = RemoveFirst(d.rows, r) /\ Live(n) = Live(d) \ {r}
      /\ n = [rows |-> n.rows, at |-> n.at] /\ n.at = [q \in Live(n) |-> n.at[q]]
      /\ \A q \in Live(n) : n.at[q] = IF q = k THEN Merged(d.at[k], d.at[r]) ELSE d.at[q]
  BY ConsolidateIs
<1> HIDE DEF n
<1>2. /\ Listed(d.rows, Live(d)) /\ Live(d) \subseteq Posting
      /\ \A p \in Live(d) : Sound(A, p, d.at[p])
  BY LedgerIs
<1>3. Listed(n.rows, Live(n)) /\ Live(n) \subseteq Posting
  BY <1>1, <1>2, ListedLess
<1>4. Sound(A, k, Merged(d.at[k], d.at[r]))
  <2>1. Sound(A, k, d.at[k]) /\ Sound(A, r, d.at[r])
    BY <1>2
  <2>2. QED
    BY <2>1, MergedIs DEF Sound
<1>5. \A q \in Live(n) : Sound(A, q, n.at[q])
  BY <1>1, <1>2, <1>4
<1>6. [rows |-> n.rows, at |-> n.at] \in Ledgers(A)
  BY <1>1, <1>3, <1>5, LedgerMade
<1>7. QED
  BY <1>1, <1>6 DEF n

\* A set of ledgers that no consolidation of two postings of one amount leaves.
Closed(A, S) ==
  /\ S \subseteq Ledgers(A)
  /\ \A d \in S : \A k, r \in Live(d) :
       k # r /\ d.at[k].amount = d.at[r].amount => Consolidate(d, k, r) \in S

LEMMA LedgersClosed == ASSUME NEW A PROVE Closed(A, Ledgers(A))
  BY ConsolidateKeeps DEF Closed

\* What find_duplicate_candidate_in_db returns is another posting of the amount.
LEMMA CandidateIs ==
  ASSUME NEW A, NEW d \in Ledgers(A), NEW p \in Live(d), NEW same, FindCandidate(d, p, same) # None
  PROVE  LET q == FindCandidate(d, p, same)
         IN  /\ q \in Live(d) /\ q # p /\ d.at[q].amount = d.at[p].amount
             /\ DuplicateAccounts(d.at[p].acct, d.at[q].acct, same)
<1> DEFINE C == Candidates(d, p, same)
           k == SelectInSeq(d.rows, LAMBDA q : q \in C)
           I == {i \in 1..Len(d.rows) : d.rows[i] \in C}
<1>1. /\ C \subseteq Live(d)
      /\ \A q \in C : /\ q # p /\ d.at[q].amount = d.at[p].amount
                      /\ DuplicateAccounts(d.at[p].acct, d.at[q].acct, same)
  BY DEF Candidates
<1>2. C # {} /\ FindCandidate(d, p, same) = d.rows[k]
  BY DEF FindCandidate
<1>3. Listed(d.rows, Live(d))
  BY LedgerIs
<1> HIDE DEF C
<1>4. I \in SUBSET Nat /\ I # {}
  <2>1. PICK q \in C : TRUE
    BY <1>2
  <2>2. PICK i \in 1..Len(d.rows) : d.rows[i] = q
    BY <1>1, <1>3, <2>1 DEF Listed
  <2>3. QED
    BY <2>1, <2>2
<1>5. Min(I) \in I
  <2>1. PICK i \in I : \A j \in I : i <= j
    BY <1>4, Least
  <2>2. QED
    BY <2>1 DEF Min
<1>6. k = Min(I)
  BY <1>4 DEF SelectInSeq
<1>7. d.rows[k] \in C
  BY <1>5, <1>6
<1>8. QED
  BY <1>1, <1>2, <1>7

LEMMA ReconcileStays ==
  ASSUME NEW A, NEW S, Closed(A, S), NEW d \in S, NEW seq \in Seq(Posting)
  PROVE  Reconcile(d, seq) \in S
<1>1. ASSUME NEW x \in S, NEW p \in Posting PROVE ReconcileOne(x, p) \in S
  <2> DEFINE q == FindCandidate(x, p, FALSE)
  <2>1. x \in Ledgers(A)
    BY DEF Closed
  <2>2. CASE p \notin Live(x)
    BY <2>2 DEF ReconcileOne
  <2>3. CASE p \in Live(x) /\ q = None
    BY <2>3 DEF ReconcileOne
  <2>4. CASE p \in Live(x) /\ q # None
    <3>1. q \in Live(x) /\ q # p /\ x.at[q].amount = x.at[p].amount
      BY <2>1, <2>4, CandidateIs
    <3>2. ReconcileOne(x, p) = Consolidate(x, q, p) \/ ReconcileOne(x, p) = Consolidate(x, p, q)
      BY <2>4 DEF ReconcileOne
    <3> HIDE DEF q
    <3>3. QED
      BY <2>4, <3>1, <3>2 DEF Closed
  <2>5. QED
    BY <2>2, <2>3, <2>4
<1>2. QED
  BY <1>1, ReconcileFold

LEMMA GivesWay ==
  ASSUME NEW A, NEW S, Closed(A, S), NEW d \in S, NEW p \in Live(d), FindCandidate(d, p, TRUE) # None
  PROVE  Consolidate(d, FindCandidate(d, p, TRUE), p) \in S
<1> DEFINE q == FindCandidate(d, p, TRUE)
<1>1. d \in Ledgers(A)
  BY DEF Closed
<1>2. q \in Live(d) /\ q # p /\ d.at[q].amount = d.at[p].amount
  BY <1>1, CandidateIs
<1> HIDE DEF q
<1>3. Consolidate(d, q, p) \in S
  BY <1>2 DEF Closed
<1>4. QED
  BY <1>3 DEF q

LEMMA GiveWayStays ==
  ASSUME NEW A, NEW S, Closed(A, S), NEW K, NEW s \in [db : S, keys : SUBSET K],
         NEW p \in Live(s.db), Key(s.db, p) \in K
  PROVE  GiveWay(s, p) \in [db : S, keys : SUBSET K]
<1> DEFINE key == Key(s.db, p)
           q == FindCandidate(s.db, p, TRUE)
<1>1. q # None => Consolidate(s.db, q, p) \in S
  BY GivesWay
<1>2. GiveWay(s, p) = IF key \notin s.keys THEN [s EXCEPT !.keys = @ \cup {key}]
                      ELSE IF q = None THEN s
                      ELSE [s EXCEPT !.db = Consolidate(s.db, q, p)]
  BY DEF GiveWay
<1> HIDE DEF key, q
<1>3. [s EXCEPT !.keys = @ \cup {key}] \in [db : S, keys : SUBSET K]
  BY DEF key
<1>4. q # None => [s EXCEPT !.db = Consolidate(s.db, q, p)] \in [db : S, keys : SUBSET K]
  BY <1>1
<1>5. QED
  BY <1>2, <1>3, <1>4

LEMMA SweepStays ==
  ASSUME NEW A, NEW S, Closed(A, S), NEW d \in S, NEW tgt
  PROVE  Sweep(d, tgt).db \in S
<1> DEFINE Keys == {Key(x, p) : x \in S, p \in Posting}
           T == [db : S, keys : SUBSET Keys]
<1>1. S \subseteq Ledgers(A) /\ d.rows \in Seq(Posting)
  BY LedgerIs DEF Closed, Listed
<1>2. [db |-> d, keys |-> {}] \in T
  OBVIOUS
<1>3. ASSUME NEW s \in T, NEW p \in Posting PROVE Check(tgt, s, p) \in T
  <2>1. CASE ~(p \in Live(s.db) /\ s.db.at[p].acct = tgt)
    BY <2>1 DEF Check
  <2>2. CASE p \in Live(s.db) /\ s.db.at[p].acct = tgt
    <3>1. Check(tgt, s, p) = GiveWay(s, p)
      BY <2>2 DEF Check
    <3>2. Key(s.db, p) \in Keys
      OBVIOUS
    <3> HIDE DEF Keys
    <3>3. GiveWay(s, p) \in T
      BY <2>2, <3>2, GiveWayStays
    <3>4. QED
      BY <3>1, <3>3
  <2>3. QED
    BY <2>1, <2>2
<1> HIDE DEF T
<1>4. Sweep(d, tgt) \in T
  BY <1>1, <1>2, <1>3, SweptFold
<1>5. QED
  BY <1>4 DEF T

\* A new posting.
LEMMA InsertIs ==
  ASSUME NEW A, NEW d \in Ledgers(A), NEW p \in Posting \ Live(d), NEW a \in Reported[p], Home[p] \in A
  PROVE  LET n == Insert(d, p, a)
         IN  /\ n \in Ledgers(A) /\ Live(n) = Live(d) \cup {p}
             /\ \A q \in Live(d) : n.at[q] = d.at[q]
             /\ n.at[p].amount = a /\ n.at[p].acct = Home[p] /\ Len(n.at[p].allocs) = 1
<1> DEFINE one == [amount |-> a, cat |-> Guess[p], marks |-> Written[p]]
           K == [acct |-> Home[p], amount |-> a, custom |-> Redated[p], excluded |-> FALSE, allocs |-> <<one>>]
           at == [q \in Live(d) \cup {p} |-> IF q # p THEN d.at[q] ELSE K]
           n == [rows |-> Append(d.rows, p), at |-> at]
<1>1. /\ Listed(d.rows, Live(d)) /\ Live(d) \subseteq Posting
      /\ \A q \in Live(d) : Sound(A, q, d.at[q])
  BY LedgerIs
<1>2. Insert(d, p, a) = n
  BY DEF Insert
<1>3. /\ a \in Int /\ Home[p] \in Account /\ Guess[p] \in Category \cup {Uncategorised}
      /\ Written[p] \in SUBSET Mark /\ Redated[p] \in Nat
  BY LedgerAssumption
<1>4. one \in Allocation /\ one.amount = a
  BY <1>3 DEF Allocation
<1> HIDE DEF one
<1>5. <<one>> \in Seq(Allocation) /\ <<one>> # <<>> /\ Total(<<one>>) = a /\ Len(<<one>>) = 1
  BY <1>4, TotalOfOne
<1>6. Sound(A, p, K) /\ K.amount = a /\ K.acct = Home[p] /\ Len(K.allocs) = 1
  BY <1>3, <1>5 DEF Sound, Posted, Adds
<1> HIDE DEF K
<1>7. /\ at = [q \in Live(d) \cup {p} |-> at[q]]
      /\ at[p] = K /\ \A q \in Live(d) : at[q] = d.at[q]
  OBVIOUS
<1>8. n.at = at /\ Live(n) = Live(d) \cup {p}
  BY DEF Live
<1> HIDE DEF at
<1>9. Listed(Append(d.rows, p), Live(d) \cup {p})
  BY <1>1, ListedMore
<1>10. \A q \in Live(d) \cup {p} : Sound(A, q, at[q])
  BY <1>1, <1>6, <1>7
<1>11. n \in Ledgers(A)
  BY <1>1, <1>7, <1>9, <1>10, LedgerMade
<1>12. QED
  BY <1>2, <1>6, <1>7, <1>8, <1>11
\* A posting is changed and stays sound.
LEMMA RowIs ==
  ASSUME NEW A, NEW d \in Ledgers(A), NEW p \in Live(d), NEW K, Sound(A, p, K)
  PROVE  LET n == [d EXCEPT !.at[p] = K]
         IN  /\ n \in Ledgers(A) /\ Live(n) = Live(d)
             /\ n.at[p] = K /\ \A q \in Live(d) \ {p} : n.at[q] = d.at[q]
<1> DEFINE at == [d.at EXCEPT ![p] = K]
<1>1. /\ d = [rows |-> d.rows, at |-> d.at] /\ d.at \in [Live(d) -> Posted]
      /\ Listed(d.rows, Live(d)) /\ Live(d) \subseteq Posting
      /\ \A q \in Live(d) : Sound(A, q, d.at[q])
  BY LedgerIs
<1>2. /\ at = [q \in Live(d) |-> at[q]] /\ at[p] = K
      /\ \A q \in Live(d) \ {p} : at[q] = d.at[q]
  BY <1>1
<1>3. [d EXCEPT !.at[p] = K] = [rows |-> d.rows, at |-> at]
  BY <1>1
<1> HIDE DEF at
<1>4. [rows |-> d.rows, at |-> at] \in Ledgers(A)
  BY <1>1, <1>2, LedgerMade
<1>5. Live([rows |-> d.rows, at |-> at]) = Live(d)
  BY <1>2 DEF Live
<1>6. QED
  BY <1>2, <1>3, <1>4, <1>5

\* The bank reports the amount of a posting again.
LEMMA AmountIs ==
  ASSUME NEW A, NEW d \in Ledgers(A), NEW p \in Live(d), NEW a \in Reported[p]
  PROVE  LET n == [d EXCEPT !.at[p].amount = a]
         IN  /\ n \in Ledgers(A) /\ Live(n) = Live(d) /\ (FixedAmounts => n = d)
             /\ \A q \in Live(d) : n.at[q].acct = d.at[q].acct
<1> DEFINE K == [d.at[p] EXCEPT !.amount = a]
<1>1. /\ d = [rows |-> d.rows, at |-> d.at] /\ d.at \in [Live(d) -> Posted]
      /\ Live(d) \subseteq Posting /\ Sound(A, p, d.at[p])
  BY LedgerIs
<1>2. a \in Int
  BY <1>1, LedgerAssumption
<1>3. K \in Posted /\ K.acct = d.at[p].acct /\ K.amount = a /\ K.allocs = d.at[p].allocs
  BY <1>1, <1>2 DEF Posted
<1>4. FixedAmounts => a = d.at[p].amount
  BY <1>1 DEF FixedAmounts, Sound
<1>5. FixedAmounts => K = d.at[p]
  BY <1>1, <1>4 DEF Posted
<1> HIDE DEF K
<1>6. Sound(A, p, K)
  BY <1>1, <1>3, <1>5 DEF Sound
<1>7. [d EXCEPT !.at[p].amount = a] = [d EXCEPT !.at[p] = K]
  BY DEF K
<1>8. FixedAmounts => [d EXCEPT !.at[p] = K] = d
  BY <1>1, <1>5
<1>9. QED
  BY <1>3, <1>6, <1>7, <1>8, RowIs

\* A set of ledgers that storing an item of the bank does not leave.
Stores(A, S) ==
  /\ S \subseteq Ledgers(A)
  /\ \A d \in S : \A p \in Live(d) : \A a \in Reported[p] : [d EXCEPT !.at[p].amount = a] \in S
  /\ \A d \in S : \A p \in Posting \ Live(d) : \A a \in Reported[p] :
       Home[p] \in A => Insert(d, p, a) \in S

\* One item of a bank sync.
LEMMA StoreStays ==
  ASSUME NEW A, NEW S, Stores(A, S), NEW feed, NEW amount, NEW bad, NEW i,
         feed[i] \in Posting, Home[feed[i]] \in A,
         feed[i] \notin bad => amount[feed[i]] \in Reported[feed[i]],
         NEW N, N \subseteq Posting, feed[i] \in N,
         NEW s \in [db : S, saved : S, new : Seq(N)]
  PROVE  Store(feed, amount, bad, s, i) \in [db : S, saved : S, new : Seq(N)]
<1> DEFINE p == feed[i]
           T == [db : S, saved : S, new : Seq(N)]
           next == Store(feed, amount, bad, s, i)
           stored == Insert(s.db, p, amount[p])
           more == Append(s.new, p)
<1>1. CASE p \in bad
  BY <1>1 DEF Store
<1>2. CASE p \notin bad /\ p \in Live(s.db)
  <2> DEFINE n == [s.db EXCEPT !.at[p].amount = amount[p]]
  <2>1. n \in S
    BY <1>2 DEF Stores
  <2>2. next = [s EXCEPT !.db = n]
    BY <1>2 DEF Store
  <2> HIDE DEF n, next
  <2>3. QED
    BY <2>1, <2>2 DEF next
<1>3. CASE p \notin bad /\ p \notin Live(s.db)
  <2>1. stored \in S
    BY <1>3 DEF Stores
  <2>2. more \in Seq(N)
    BY AppendProperties
  <2>3. next = [db |-> stored, saved |-> IF i % CommitEvery = 0 THEN stored ELSE s.saved, new |-> more]
    BY <1>3 DEF Store
  <2> HIDE DEF stored, more, next
  <2>4. QED
    BY <2>1, <2>2, <2>3 DEF next
<1>4. QED
  BY <1>1, <1>2, <1>3
\* The items of one account; N are the postings that may be new.
LEMMA StoredStays ==
  ASSUME NEW A, NEW a \in A, NEW S, Stores(A, S), NEW d \in S,
         NEW I, I \subseteq Posting, \A p \in I : Home[p] = a, NEW feed \in SetToSeqs(I),
         NEW amount \in Amounts(I), NEW bad,
         NEW N, N \subseteq Posting, \A x \in S : I \ Live(x) \subseteq N
  PROVE  /\ Stored(d, feed, amount, bad).db \in S
         /\ Stored(d, feed, amount, bad).new \in Seq(N)
<1> DEFINE T == [db : S, saved : S, new : Seq(N)]
<1>1. IsFiniteSet(I) /\ Cardinality(I) \in Nat
  BY FS_Subset, FS_CardinalityType, LedgerAssumption
<1>2. feed \in Seq(I) /\ feed \in Seq(Posting)
  <2>1. feed \in [1..Cardinality(I) -> I]
    BY DEF SetToSeqs
  <2>2. QED
    BY <1>1, <2>1, SeqDef
<1>3. \A i \in 1..Len(feed) : feed[i] \in I
  BY <1>2, ElementOfSeq
<1>4. \A p \in I : amount[p] \in Reported[p]
  BY DEF Amounts
<1>5. [db |-> d, saved |-> d, new |-> <<>>] \in T
  BY EmptySeq
<1>6. ASSUME NEW s \in T, NEW i \in 1..Len(feed) PROVE Store(feed, amount, bad, s, i) \in T
  <2>1. CASE feed[i] \in N
    <3>1. /\ feed[i] \in Posting /\ Home[feed[i]] \in A /\ amount[feed[i]] \in Reported[feed[i]]
          /\ s \in [db : S, saved : S, new : Seq(N)]
      BY <1>3, <1>4
    <3>2. Store(feed, amount, bad, s, i) \in [db : S, saved : S, new : Seq(N)]
      BY <2>1, <3>1, StoreStays
    <3>3. QED
      BY <3>2
  <2>2. CASE feed[i] \notin N
    <3>1. feed[i] \in Live(s.db) /\ feed[i] \in Posting /\ s.db \in S
      BY <1>3, <2>2
    <3> DEFINE n == [s.db EXCEPT !.at[feed[i]].amount = amount[feed[i]]]
    <3>2. n \in S
      BY <1>3, <1>4, <3>1 DEF Stores
    <3>3. Store(feed, amount, bad, s, i) =
            IF feed[i] \in bad THEN [s EXCEPT !.db = s.saved] ELSE [s EXCEPT !.db = n]
      BY <3>1 DEF Store
    <3> HIDE DEF n
    <3>4. QED
      BY <3>2, <3>3
  <2>3. QED
    BY <2>1, <2>2
<1> HIDE DEF T
<1>7. Stored(d, feed, amount, bad) \in T
  BY <1>2, <1>5, <1>6, StoredFold
<1>8. QED
  BY <1>7 DEF T

\* The ledgers that a sync stores items in, and those it leaves behind.
LEMMA IngestStays ==
  ASSUME NEW A, NEW a \in A, NEW S, Stores(A, S), NEW R, S \subseteq R, Closed(A, R), NEW d \in S,
         NEW I, I \subseteq Posting, \A p \in I : Home[p] = a, NEW feed \in SetToSeqs(I),
         NEW amount \in Amounts(I), NEW bad
  PROVE  Ingest(d, feed, amount, bad) \in R
<1>1. PICK N : N = Posting /\ N \subseteq Posting /\ \A x \in S : I \ Live(x) \subseteq N
  OBVIOUS
<1>2. /\ Stored(d, feed, amount, bad).db \in S
      /\ Stored(d, feed, amount, bad).new \in Seq(N)
  BY <1>1, StoredStays
<1>3. QED
  BY <1>1, <1>2, ReconcileStays DEF Ingest
-----------------------------------------------------------------------------
(* The archive import.                                                       *)

\* Giving the first allocation of a posting another category and other marks.
LEMMA FirstIs ==
  ASSUME NEW K \in Posted, K.allocs # <<>>, NEW c \in Category \cup {Uncategorised}, NEW m \in SUBSET Mark
  PROVE  LET new == [K.allocs EXCEPT ![1] = [@ EXCEPT !.cat = c, !.marks = m]]
         IN  /\ new \in Seq(Allocation) /\ new # <<>> /\ Len(new) = Len(K.allocs)
             /\ Total(new) = Total(K.allocs)
<1> DEFINE s == K.allocs
           a == [s[1] EXCEPT !.cat = c, !.marks = m]
           new == [s EXCEPT ![1] = a]
<1>1. s \in Seq(Allocation) /\ s # <<>>
  BY DEF Posted
<1>2. Len(s) \in Nat /\ 1 \in 1..Len(s) /\ DOMAIN s = 1..Len(s) /\ s[1] \in Allocation
  BY <1>1, EmptySeq, LenProperties, ElementOfSeq
<1> HIDE DEF s
<1>3. a \in Allocation /\ a.amount = s[1].amount
  BY <1>2 DEF Allocation
<1> HIDE DEF a
<1>4. new \in Seq(Allocation) /\ Len(new) = Len(s) /\ new[1] = a /\ \A i \in 2..Len(s) : new[i] = s[i]
  BY <1>1, <1>2, <1>3, ExceptSeq
<1> HIDE DEF new
<1>5. new # <<>> /\ Total(new) = Total(s)
  BY <1>1, <1>3, <1>4, FirstReplaced
<1>6. new = [K.allocs EXCEPT ![1] = [@ EXCEPT !.cat = c, !.marks = m]]
  BY DEF new, s, a
<1>7. QED
  BY <1>4, <1>5, <1>6 DEF s

\* A posting that is there already is handed what a row of the file says.
LEMMA HandedIs ==
  ASSUME NEW A, NEW q, NEW R, Sound(A, q, R), NEW p \in Posting
  PROVE  Sound(A, q, Handed(R, p)) /\ Handed(R, p).acct = R.acct
<1> DEFINE t == IF Redated[p] = NoDay THEN R.custom ELSE Redated[p]
           c == IF Guess[p] = Uncategorised THEN R.allocs[1].cat ELSE Guess[p]
           m == Overwritten(R.allocs[1].marks, Written[p])
           new == [R.allocs EXCEPT ![1] = [@ EXCEPT !.cat = c, !.marks = m]]
<1>1. R \in Posted /\ R.allocs # <<>> /\ R.allocs \in Seq(Allocation) /\ R.custom \in Nat
  BY DEF Sound, Posted
<1>2. R.allocs[1] \in Allocation /\ 1 \in DOMAIN R.allocs
  BY <1>1, EmptySeq, LenProperties, ElementOfSeq
<1>3. /\ R.allocs[1].cat \in Category \cup {Uncategorised} /\ R.allocs[1].marks \in SUBSET Mark
      /\ Guess[p] \in Category \cup {Uncategorised} /\ Written[p] \in SUBSET Mark /\ Redated[p] \in Nat
  BY <1>2, LedgerAssumption DEF Allocation
<1>4. c \in Category \cup {Uncategorised} /\ m \in SUBSET Mark /\ t \in Nat
  BY <1>1, <1>3 DEF Overwritten
<1>5. Handed(R, p) = [R EXCEPT !.custom = t, !.allocs = new]
  BY <1>1, <1>2 DEF Handed, Allocation, Posted
<1> HIDE DEF c, m, t
<1>6. new \in Seq(Allocation) /\ new # <<>> /\ Total(new) = Total(R.allocs)
  BY <1>1, <1>4, FirstIs
<1> HIDE DEF new
<1> DEFINE K == [R EXCEPT !.custom = t, !.allocs = new]
<1>7. K \in Posted /\ K.acct = R.acct /\ K.amount = R.amount /\ K.allocs = new
  BY <1>1, <1>4, <1>6 DEF Posted
<1> HIDE DEF K
<1>8. Handed(R, p) = K
  BY <1>5 DEF K
<1>9. QED
  BY <1>6, <1>7, <1>8 DEF Sound, Adds

\* A row of the archive file.
LEMMA ImportRowIs ==
  ASSUME NEW A, NEW d \in Ledgers(A), NEW p \in Posting, NEW a \in Reported[p],
         \A b \in Reported[p] : b = a
  PROVE  \/ /\ p \notin Live(d) /\ ImportRow(d, p, a) = Insert(d, p, a)
         \/ /\ ImportRow(d, p, a) \in Ledgers(A) /\ Live(ImportRow(d, p, a)) = Live(d)
            /\ \A q \in Live(d) : ImportRow(d, p, a).at[q].acct = d.at[q].acct
<1> DEFINE met == {q \in Live(d) : Day[q] = Day[p] /\ d.at[q].amount = a}
           K(q) == Handed(d.at[q], p)
           at == [q \in Live(d) |-> IF q \in met THEN K(q) ELSE d.at[q]]
<1>1. /\ d = [rows |-> d.rows, at |-> d.at] /\ d.at \in [Live(d) -> Posted]
      /\ Listed(d.rows, Live(d)) /\ Live(d) \subseteq Posting
      /\ \A q \in Live(d) : Sound(A, q, d.at[q])
  BY LedgerIs
<1>2. CASE met = {}
  <2>1. p \notin Live(d)
    BY <1>1, <1>2 DEF Sound
  <2>2. QED
    BY <1>2, <2>1 DEF ImportRow
<1>3. CASE met # {}
  <2>1. ImportRow(d, p, a) = [rows |-> d.rows, at |-> at]
    BY <1>1, <1>3 DEF ImportRow
  <2>2. ASSUME NEW q \in Live(d) PROVE Sound(A, q, K(q)) /\ K(q).acct = d.at[q].acct
    BY <1>1, HandedIs
  <2> HIDE DEF K
  <2>3. at = [q \in Live(d) |-> at[q]] /\ \A q \in Live(d) : at[q] \in {K(q), d.at[q]}
    OBVIOUS
  <2> HIDE DEF at
  <2>4. \A q \in Live(d) : Sound(A, q, at[q])
    BY <1>1, <2>2, <2>3
  <2>5. [rows |-> d.rows, at |-> at] \in Ledgers(A)
    BY <1>1, <2>3, <2>4, LedgerMade
  <2>6. Live([rows |-> d.rows, at |-> at]) = Live(d) /\ \A q \in Live(d) : at[q].acct = d.at[q].acct
    BY <2>2, <2>3 DEF Live
  <2>7. QED
    BY <2>1, <2>5, <2>6
<1>4. QED
  BY <1>2, <1>3
LEMMA AccountsAre ==
  ASSUME NEW A, NEW d \in Ledgers(A), NEW B, \A p \in Live(d) : d.at[p].acct \in B
  PROVE  d \in Ledgers(B)
  BY DEF Ledgers, Sound

LEMMA LedgerSequence ==
  ASSUME NEW I, I \subseteq Posting, NEW s \in SetToSeqs(I)
  PROVE  s \in Seq(Posting) /\ \A i \in 1..Len(s) : s[i] \in I
<1>1. IsFiniteSet(I) /\ Cardinality(I) \in Nat
  BY FS_Subset, FS_CardinalityType, LedgerAssumption
<1>2. s \in [1..Cardinality(I) -> I]
  BY DEF SetToSeqs
<1>3. s \in Seq(I) /\ s \in Seq(Posting)
  BY <1>1, <1>2, SeqDef
<1>4. QED
  BY <1>3, ElementOfSeq

\* The rows of a file, all of archive postings.
LEMMA ImportedIs ==
  ASSUME NEW A, NEW d \in Ledgers(A), NEW I, I \subseteq Posting \ Bank, NEW file \in SetToSeqs(I),
         NEW amount \in Amounts(I)
  PROVE  LET after == Imported(file, amount, d)
         IN  /\ after \in Ledgers(A \cup {Home[p] : p \in I \cap (Live(after) \ Live(d))})
             /\ Live(d) \subseteq Live(after)
             /\ \A q \in Live(after) : (q \in Live(d) /\ after.at[q].acct = d.at[q].acct) \/ q \in I
<1> DEFINE B == A \cup {Home[p] : p \in I}
           S == {x \in Ledgers(B) :
                   /\ Live(d) \subseteq Live(x)
                   /\ \A q \in Live(x) : \/ q \in Live(d) /\ x.at[q].acct = d.at[q].acct
                                         \/ q \in I \ Live(d) /\ x.at[q].acct = Home[q]}
           after == Imported(file, amount, d)
<1>1. file \in Seq(Posting) /\ \A i \in 1..Len(file) : file[i] \in I
  BY LedgerSequence
<1>2. d \in S
  <2>1. \A p \in Live(d) : d.at[p].acct \in B
    BY LedgerIs DEF Sound
  <2>2. d \in Ledgers(B)
    BY <2>1, AccountsAre
  <2>3. QED
    BY <2>2
<1>3. ASSUME NEW x \in S, NEW i \in 1..Len(file) PROVE ImportRow(x, file[i], amount[file[i]]) \in S
  <2> DEFINE p == file[i]
             a == amount[p]
             n == ImportRow(x, p, a)
  <2>1. p \in I /\ p \in Posting \ Bank /\ Home[p] \in B /\ a \in Reported[p]
    BY <1>1 DEF Amounts
  <2>2. \A b \in Reported[p] : b = a
    BY <2>1, LedgerAssumption
  <2>3. x \in Ledgers(B)
    OBVIOUS
  <2> HIDE DEF a, p, B
  <2>4. CASE p \notin Live(x) /\ n = Insert(x, p, a)
    <3>1. /\ n \in Ledgers(B) /\ Live(n) = Live(x) \cup {p}
          /\ \A q \in Live(x) : n.at[q] = x.at[q]
          /\ n.at[p].acct = Home[p]
      BY <2>1, <2>3, <2>4, InsertIs
    <3> HIDE DEF n
    <3>2. QED
      BY <2>1, <2>4, <3>1 DEF p, a, n
  <2>5. CASE n \in Ledgers(B) /\ Live(n) = Live(x) /\ \A q \in Live(x) : n.at[q].acct = x.at[q].acct
    <3> HIDE DEF n
    <3>1. n \in S
      BY <2>5
    <3>2. QED
      BY <3>1 DEF p, a, n
  <2>6. QED
    BY <2>1, <2>2, <2>3, <2>4, <2>5, ImportRowIs
<1> HIDE DEF S
<1>4. after \in S
  BY <1>1, <1>2, <1>3, ImportedFold
<1> HIDE DEF after
<1>5. \A q \in Live(after) : after.at[q].acct \in A \cup {Home[p] : p \in I \cap (Live(after) \ Live(d))}
  BY <1>4, LedgerIs DEF S, Sound
<1>6. QED
  BY <1>4, <1>5, AccountsAre DEF after, S
-----------------------------------------------------------------------------
(* The user's edits, and the move of postings to another account.            *)

LEMMA EditedIs ==
  ASSUME NEW A, NEW p, NEW R, Sound(A, p, R), NEW c \in Category \cup {Uncategorised},
         NEW m \in SUBSET Mark, NEW e \in BOOLEAN, NEW t \in Nat
  PROVE  Sound(A, p, Edited(R, c, m, e, t)) /\ Edited(R, c, m, e, t).acct = R.acct
<1> DEFINE new == [R.allocs EXCEPT ![1] = [@ EXCEPT !.cat = c, !.marks = m]]
           K == Edited(R, c, m, e, t)
<1>1. R \in Posted /\ R.allocs # <<>> /\ R.allocs \in Seq(Allocation)
  BY DEF Sound, Posted
<1>2. new \in Seq(Allocation) /\ new # <<>> /\ Total(new) = Total(R.allocs)
  BY <1>1, FirstIs
<1>3. R.allocs[1] \in Allocation /\ 1 \in DOMAIN R.allocs
  BY <1>1, EmptySeq, LenProperties, ElementOfSeq
<1>4. K = [R EXCEPT !.allocs = new, !.excluded = e, !.custom = t]
  BY <1>1, <1>3 DEF Edited
<1> HIDE DEF new
<1>5. /\ [R EXCEPT !.allocs = new, !.excluded = e, !.custom = t] \in Posted
      /\ [R EXCEPT !.allocs = new, !.excluded = e, !.custom = t].acct = R.acct
      /\ [R EXCEPT !.allocs = new, !.excluded = e, !.custom = t].amount = R.amount
      /\ [R EXCEPT !.allocs = new, !.excluded = e, !.custom = t].allocs = new
  BY <1>1, <1>2 DEF Posted
<1> HIDE DEF K
<1>6. Sound(A, p, K) /\ K.acct = R.acct
  BY <1>1, <1>2, <1>4, <1>5 DEF Sound, Adds
<1>7. QED
  BY <1>6 DEF K

LEMMA PartsAre ==
  ASSUME NEW n \in Int, NEW parts \in Parts(n)
  PROVE  parts \in Seq(Allocation)
<1> DEFINE Whole == {<<[amount |-> n, cat |-> c, marks |-> {}]>> : c \in Category}
           Two == {<<[amount |-> n + 1, cat |-> c, marks |-> m],
                     [amount |-> e, cat |-> Uncategorised, marks |-> {}]>> :
                       c \in Category, m \in SUBSET Mark, e \in {-1, 0}}
<1>1. Whole \subseteq Seq(Allocation)
  <2>1. ASSUME NEW c \in Category PROVE <<[amount |-> n, cat |-> c, marks |-> {}]>> \in Seq(Allocation)
    BY DEF Allocation
  <2>2. QED
    BY <2>1
<1>2. Two \subseteq Seq(Allocation)
  <2> SUFFICES ASSUME NEW x \in Two PROVE x \in Seq(Allocation)
    OBVIOUS
  <2>1. PICK c \in Category, m \in SUBSET Mark, e \in {-1, 0} :
          x = <<[amount |-> n + 1, cat |-> c, marks |-> m],
                [amount |-> e, cat |-> Uncategorised, marks |-> {}]>>
    OBVIOUS
  <2>2. /\ [amount |-> n + 1, cat |-> c, marks |-> m] \in Allocation
        /\ [amount |-> e, cat |-> Uncategorised, marks |-> {}] \in Allocation
    BY DEF Allocation
  <2> HIDE DEF Two
  <2>3. QED
    BY <2>1, <2>2
<1>3. Parts(n) = Whole \cup Two
  BY DEF Parts
<1> HIDE DEF Whole, Two
<1>4. QED
  BY <1>1, <1>2, <1>3

LEMMA SplitIs ==
  ASSUME NEW A, NEW d \in Ledgers(A), NEW p \in Live(d), NEW parts \in Parts(d.at[p].amount),
         parts # <<>>, Total(parts) = d.at[p].amount
  PROVE  LET n == [d EXCEPT !.at[p].allocs = parts]
         IN  /\ n \in Ledgers(A) /\ Live(n) = Live(d)
             /\ \A q \in Live(d) : n.at[q].acct = d.at[q].acct
<1> DEFINE R == d.at[p]
           K == [R EXCEPT !.allocs = parts]
<1>1. Sound(A, p, R) /\ R \in Posted /\ R.amount \in Int
  BY LedgerIs DEF Sound, Posted
<1>2. parts \in Seq(Allocation)
  BY <1>1, PartsAre
<1>3. K \in Posted /\ K.acct = R.acct /\ K.amount = R.amount /\ K.allocs = parts
  BY <1>1, <1>2 DEF Posted
<1>4. [d EXCEPT !.at[p].allocs = parts] = [d EXCEPT !.at[p] = K]
  OBVIOUS
<1>5. Sound(A, p, K)
  BY <1>1, <1>3 DEF Sound, Adds
<1> HIDE DEF K
<1>6. QED
  BY <1>3, <1>4, <1>5, RowIs

LEMMA MovedIs ==
  ASSUME NEW A, NEW d \in Ledgers(A), NEW src, NEW tgt \in A \ {src}, tgt \in Account
  PROVE  LET n == Moved(d, src, tgt)
         IN  /\ n \in Ledgers(A \ {src}) /\ Live(n) = Live(d)
             /\ \A q \in Live(d) : /\ n.at[q].amount = d.at[q].amount
                                   /\ n.at[q].excluded = d.at[q].excluded
                                   /\ n.at[q].allocs = d.at[q].allocs
                                   /\ n.at[q].acct = IF d.at[q].acct = src THEN tgt ELSE d.at[q].acct
<1> DEFINE K(q) == IF d.at[q].acct = src THEN [d.at[q] EXCEPT !.acct = tgt] ELSE d.at[q]
           at == [q \in Live(d) |-> K(q)]
<1>1. /\ d = [rows |-> d.rows, at |-> d.at] /\ d.at \in [Live(d) -> Posted]
      /\ Listed(d.rows, Live(d)) /\ Live(d) \subseteq Posting
      /\ \A q \in Live(d) : Sound(A, q, d.at[q])
  BY LedgerIs
<1>2. Moved(d, src, tgt) = [rows |-> d.rows, at |-> at]
  BY <1>1 DEF Moved
<1>3. ASSUME NEW q \in Live(d)
      PROVE  /\ Sound(A \ {src}, q, K(q)) /\ K(q).amount = d.at[q].amount
             /\ K(q).excluded = d.at[q].excluded /\ K(q).allocs = d.at[q].allocs
             /\ K(q).acct = IF d.at[q].acct = src THEN tgt ELSE d.at[q].acct
  <2>1. Sound(A, q, d.at[q])
    BY <1>1
  <2>2. CASE d.at[q].acct = src
    <3>1. LET k == [d.at[q] EXCEPT !.acct = tgt]
          IN  /\ k \in Posted /\ k.acct = tgt /\ k.amount = d.at[q].amount
              /\ k.excluded = d.at[q].excluded /\ k.allocs = d.at[q].allocs
      BY <2>1 DEF Sound, Posted
    <3>2. K(q) = [d.at[q] EXCEPT !.acct = tgt]
      BY <2>2
    <3> HIDE DEF K
    <3>3. QED
      BY <2>1, <2>2, <3>1, <3>2 DEF Sound, Adds
  <2>3. CASE d.at[q].acct # src
    BY <2>1, <2>3 DEF Sound
  <2>4. QED
    BY <2>2, <2>3
<1>4. at = [q \in Live(d) |-> at[q]] /\ \A q \in Live(d) : at[q] = K(q)
  OBVIOUS
<1> HIDE DEF K, at
<1>5. [rows |-> d.rows, at |-> at] \in Ledgers(A \ {src})
  <2>1. PICK B : B = A \ {src}
    OBVIOUS
  <2>2. \A q \in Live(d) : Sound(B, q, at[q])
    BY <1>3, <1>4, <2>1
  <2>3. [rows |-> d.rows, at |-> at] \in Ledgers(B)
    BY <1>1, <1>4, <2>2, LedgerMade
  <2>4. QED
    BY <2>1, <2>3
<1>6. Live([rows |-> d.rows, at |-> at]) = Live(d)
  BY <1>4 DEF Live
<1>7. QED
  BY <1>2, <1>3, <1>4, <1>5, <1>6
-----------------------------------------------------------------------------
(* The listing that the preview of duplicates is built from.                 *)

\* In a finite set with a total order every rank is taken.
LEMMA Ranks ==
  ASSUME NEW E, IsFiniteSet(E), NEW B,
         \A p \in E : <<p, p>> \notin B,
         \A p, q, r \in E : <<p, q>> \in B /\ <<q, r>> \in B => <<p, r>> \in B,
         \A p, q \in E : p = q \/ <<p, q>> \in B \/ <<q, p>> \in B
  PROVE  \A i \in 1..Cardinality(E) :
           \E p \in E : Cardinality({q \in E : <<q, p>> \in B}) = i - 1
<1> DEFINE n == Cardinality(E)
           below(p) == {q \in E : <<q, p>> \in B}
           f == [p \in E |-> Cardinality(below(p)) + 1]
<1>1. n \in Nat /\ IsFiniteSet(1..n) /\ Cardinality(1..n) = n
  BY FS_CardinalityType, FS_Interval
<1>2. \A p \in E : IsFiniteSet(below(p)) /\ Cardinality(below(p)) \in Nat
  BY FS_Subset, FS_CardinalityType
<1>3. ASSUME NEW p \in E PROVE f[p] \in 1..n
  <2>1. below(p) \in SUBSET E /\ p \notin below(p)
    OBVIOUS
  <2> HIDE DEF below
  <2>2. Cardinality(below(p)) <= n /\ Cardinality(below(p)) # n
    BY <2>1, FS_Subset
  <2>3. QED
    BY <1>1, <1>2, <2>2
<1>4. ASSUME NEW p \in E, NEW q \in E, <<p, q>> \in B PROVE f[p] < f[q]
  <2>1. below(p) \in SUBSET below(q) /\ p \in below(q) /\ p \notin below(p)
    BY <1>4
  <2> HIDE DEF below
  <2>2. Cardinality(below(p)) <= Cardinality(below(q)) /\ Cardinality(below(p)) # Cardinality(below(q))
    BY <1>2, <2>1, FS_Subset
  <2>3. QED
    BY <1>2, <2>2
<1>5. f \in [E -> 1..n] /\ \A p, q \in E : f[p] = f[q] => p = q
  <2>1. f \in [E -> 1..n]
    BY <1>3
  <2> HIDE DEF f
  <2>2. \A p \in E : f[p] \in Int
    BY <2>1
  <2>3. ASSUME NEW p \in E, NEW q \in E, p # q PROVE f[p] # f[q]
    <3>1. CASE <<p, q>> \in B
      BY <1>4, <2>2, <3>1
    <3>2. CASE <<q, p>> \in B
      BY <1>4, <2>2, <3>2
    <3>3. QED
      BY <2>3, <3>1, <3>2
  <2>4. QED
    BY <2>1, <2>3
<1>6. f \in Surjection(E, 1..n)
  <2> HIDE DEF f
  <2>1. f \in Injection(E, 1..n)
    BY <1>5 DEF Injection, IsInjective
  <2>2. QED
    BY <1>1, <2>1, FS_Injection
<1>7. ASSUME NEW i \in 1..n PROVE \E p \in E : Cardinality(below(p)) = i - 1
  <2>1. PICK p \in E : f[p] = i
    BY <1>6 DEF Surjection
  <2> HIDE DEF below
  <2>2. QED
    BY <1>2, <2>1
<1>8. QED
  BY <1>7

LEMMA ListingIs ==
  ASSUME NEW A, NEW d \in Ledgers(A)
  PROVE  /\ Listing(d) \in Seq(Expenses(d)) /\ Expenses(d) \subseteq Live(d)
         /\ \A i, j \in 1..Len(Listing(d)) : Listing(d)[i] = Listing(d)[j] => i = j
<1> DEFINE E == Expenses(d)
           row(x) == SelectInSeq(d.rows, LAMBDA y : y = x)
           B == {z \in E \X E : Before(d, z[1], z[2])}
           n == Cardinality(E)
<1>1. /\ Listed(d.rows, Live(d)) /\ Live(d) \subseteq Posting
      /\ \A p \in Live(d) : Sound(A, p, d.at[p])
  BY LedgerIs
<1>2. E \subseteq Live(d)
  BY DEF Expenses
<1>3. IsFiniteSet(E) /\ n \in Nat
  BY <1>1, <1>2, ListedFinite, FS_Subset, FS_CardinalityType
<1>4. \A p \in E : Effective(d, p) \in Int
  BY <1>1, <1>2, LedgerAssumption DEF Effective, Sound, Posted
<1>5. \A p \in E : row(p) \in 1..Len(d.rows) /\ d.rows[row(p)] = p
  <2> TAKE p \in E
  <2>1. d.rows \in Seq(Posting) /\ \E k \in 1..Len(d.rows) : d.rows[k] = p
    BY <1>1, <1>2 DEF Listed
  <2>2. LET k == SelectInSeq(d.rows, LAMBDA z : z = p) IN k \in 1..Len(d.rows) /\ d.rows[k] = p
    BY <2>1, PlaceOf
  <2>3. QED
    BY <2>2
<1>6. Len(d.rows) \in Nat
  BY <1>1, LenProperties DEF Listed
<1>7. \A p, q \in E : Before(d, p, q) <=> \/ Effective(d, p) > Effective(d, q)
                                          \/ Effective(d, p) = Effective(d, q) /\ row(p) < row(q)
  BY DEF Before
<1> HIDE DEF row, E
<1>8. /\ \A p \in E : row(p) \in Int
      /\ \A p, q \in E : row(p) = row(q) => p = q
  BY <1>5, <1>6
<1>9. /\ \A p \in E : <<p, p>> \notin B
      /\ \A p, q, r \in E : <<p, q>> \in B /\ <<q, r>> \in B => <<p, r>> \in B
      /\ \A p, q \in E : p = q \/ <<p, q>> \in B \/ <<q, p>> \in B
  <2>1. \A p, q \in E : <<p, q>> \in B <=> Before(d, p, q)
    OBVIOUS
  <2>2. \A p \in E : ~Before(d, p, p)
    BY <1>4, <1>7, <1>8
  <2>3. \A p, q, r \in E : Before(d, p, q) /\ Before(d, q, r) => Before(d, p, r)
    BY <1>4, <1>7, <1>8
  <2>4. \A p, q \in E : p = q \/ Before(d, p, q) \/ Before(d, q, p)
    BY <1>4, <1>7, <1>8
  <2> HIDE DEF B
  <2>5. QED
    BY <2>1, <2>2, <2>3, <2>4
<1>10. \A p, q \in E : <<p, q>> \in B <=> Before(d, p, q)
  OBVIOUS
<1> HIDE DEF B
<1>11. \A i \in 1..n : \E p \in E : Cardinality({q \in E : Before(d, q, p)}) = i - 1
  <2>1. \A p \in E : {q \in E : Before(d, q, p)} = {q \in E : <<q, p>> \in B}
    BY <1>10
  <2>2. \A i \in 1..n : \E p \in E : Cardinality({q \in E : <<q, p>> \in B}) = i - 1
    BY <1>3, <1>9, Ranks
  <2>3. QED
    BY <2>1, <2>2
<1>12. /\ Listing(d) \in Seq(E) /\ Len(Listing(d)) = n
       /\ \A i \in 1..n : Cardinality({q \in E : Before(d, q, Listing(d)[i])}) = i - 1
  <2> DEFINE rank(p) == Cardinality({q \in E : Before(d, q, p)})
             l == [i \in 1..n |-> CHOOSE p \in E : rank(p) = i - 1]
  <2>1. Listing(d) = l
    BY DEF Listing, E
  <2>2. \A i \in 1..n : \E p \in E : rank(p) = i - 1
    BY <1>11
  <2> HIDE DEF rank
  <2>3. \A i \in 1..n : l[i] \in E /\ rank(l[i]) = i - 1
    BY <2>2
  <2>4. DOMAIN l = 1..n /\ l \in [1..n -> E]
    BY <2>3
  <2> HIDE DEF l
  <2>5. l \in Seq(E) /\ Len(l) = n
    BY <1>3, <2>4, SeqDef, LenProperties
  <2>6. QED
    BY <2>1, <2>3, <2>5 DEF rank
<1>13. \A i, j \in 1..n : Listing(d)[i] = Listing(d)[j] => i = j
  <2> DEFINE rank(p) == Cardinality({q \in E : Before(d, q, p)})
  <2>1. \A i \in 1..n : rank(Listing(d)[i]) = i - 1
    BY <1>12
  <2> HIDE DEF rank, n
  <2>2. QED
    BY <1>3, <2>1
<1>14. QED
  BY <1>2, <1>12, <1>13 DEF E
-----------------------------------------------------------------------------
(* The groups of the preview.                                                *)

\* A group that starts with the i-th posting of a list without repetitions.
GroupsOf(d, list, i, used, E) ==
  {g \in Seq(E) :
     /\ g # <<>> /\ g[1] = list[i]
     /\ \A k \in 2..Len(g) :
          /\ g[k] \notin used /\ \E j \in (i + 1)..Len(list) : g[k] = list[j]
          /\ \E m \in 1..(k - 1) : Similar(d, g[m], g[k])}

LEMMA GroupIs ==
  ASSUME NEW d, NEW E, NEW list \in Seq(E), NEW i \in 1..Len(list), NEW used
  PROVE  GroupFrom(d, list, i, used) \in GroupsOf(d, list, i, used, E)
<1> DEFINE G == GroupsOf(d, list, i, used, E)
           n == Len(list) - i
<1>1. Len(list) \in Nat /\ n \in Nat /\ \A j \in 1..Len(list) : list[j] \in E
  BY LenProperties, ElementOfSeq
<1>2. PICK C : /\ C[{}] = <<list[i]>>
               /\ \A j \in 1..n : C[1..j] = Joined(d, used, C[1..(j - 1)], list[i + j])
               /\ GroupFrom(d, list, i, used) = C[1..n]
  <2>1. \E C : Grows(C, d, list, i, used)
    BY GroupRun
  <2>2. QED
    BY <2>1 DEF Grows
<1>3. <<list[i]>> \in G
  <2>1. <<list[i]>> \in Seq(E) /\ <<list[i]>> # <<>> /\ <<list[i]>>[1] = list[i] /\ Len(<<list[i]>>) = 1
    BY <1>1
  <2>2. QED
    BY <2>1 DEF GroupsOf
<1>4. ASSUME NEW g \in G, NEW j \in 1..n PROVE Joined(d, used, g, list[i + j]) \in G
  <2> DEFINE q == list[i + j]
             more == Append(g, q)
  <2>1. i + j \in (i + 1)..Len(list) /\ q \in E
    BY <1>1
  <2>2. CASE q \notin used /\ \E m \in ToSet(g) : Similar(d, m, q)
    <3>1. g \in Seq(E) /\ g # <<>> /\ Len(g) \in Nat /\ 1 \in 1..Len(g)
      BY LenProperties, EmptySeq DEF GroupsOf
    <3>2. /\ more \in Seq(E) /\ Len(more) = Len(g) + 1 /\ more[Len(g) + 1] = q
          /\ \A k \in 1..Len(g) : more[k] = g[k]
      BY <2>1, <3>1, AppendProperties
    <3>3. PICK m \in 1..Len(g) : Similar(d, g[m], q)
      BY <2>2, <3>1, LenProperties DEF ToSet
    <3>4. \E l \in (i + 1)..Len(list) : q = list[l]
      BY <2>1
    <3>5. Joined(d, used, g, q) = more
      BY <2>2 DEF Joined
    <3> HIDE DEF more, q
    <3>6. ASSUME NEW k \in 2..Len(more)
          PROVE  /\ more[k] \notin used /\ \E l \in (i + 1)..Len(list) : more[k] = list[l]
                 /\ \E l \in 1..(k - 1) : Similar(d, more[l], more[k])
      <4>1. CASE k = Len(g) + 1
        BY <2>2, <3>1, <3>2, <3>3, <3>4, <4>1
      <4>2. CASE k # Len(g) + 1
        <5>1. k \in 2..Len(g) /\ more[k] = g[k]
          BY <3>1, <3>2, <4>2
        <5>2. PICK l \in 1..(k - 1) : Similar(d, g[l], g[k])
          BY <5>1 DEF GroupsOf
        <5>3. more[l] = g[l] /\ l \in 1..(k - 1)
          BY <3>1, <3>2, <5>1
        <5>4. g[k] \notin used /\ \E h \in (i + 1)..Len(list) : g[k] = list[h]
          BY <5>1 DEF GroupsOf
        <5>5. QED
          BY <5>1, <5>2, <5>3, <5>4
      <4>3. QED
        BY <4>1, <4>2
    <3>7. more # <<>> /\ more[1] = list[i]
      BY <3>1, <3>2, EmptySeq DEF GroupsOf
    <3>8. more \in G
      BY <3>2, <3>6, <3>7 DEF GroupsOf
    <3>9. QED
      BY <3>5, <3>8 DEF q
  <2>3. CASE ~(q \notin used /\ \E m \in ToSet(g) : Similar(d, m, q))
    BY <2>3 DEF Joined
  <2>4. QED
    BY <2>2, <2>3
<1> HIDE DEF G
<1>5. C[1..n] \in G
  <2>1. C[{}] \in G
    BY <1>2, <1>3
  <2>2. \A j \in 1..n : C[1..(j - 1)] \in G => C[1..j] \in G
    BY <1>2, <1>4
  <2> HIDE DEF n
  <2>3. QED
    BY <1>1, <2>1, <2>2, FoldStays
<1>6. QED
  BY <1>2, <1>5 DEF G

\* Two postings that may be merged: different ones, of one amount, not dismissed.
Pair(d, no, g) ==
  /\ g[1] \in Live(d) /\ g[2] \in Live(d) /\ g[1] # g[2]
  /\ d.at[g[1]].amount = d.at[g[2]].amount
  /\ {g[1], g[2]} \notin no

LEMMA PairIs ==
  ASSUME NEW d, NEW E, E \subseteq Live(d), NEW list \in Seq(E), NEW i \in 1..Len(list), NEW used, NEW no,
         \A j, k \in 1..Len(list) : list[j] = list[k] => j = k,
         NEW g \in GroupsOf(d, list, i, used, E), Len(g) = 2, ~(kSubset(2, ToSet(g)) \subseteq no)
  PROVE  Pair(d, no, g)
<1> DEFINE a == g[1]
           b == g[2]
<1>1. g \in Seq(E) /\ DOMAIN g = 1..2 /\ a \in E /\ b \in E /\ ToSet(g) = {a, b}
  <2>1. g \in Seq(E) /\ DOMAIN g = 1..2
    BY LenProperties DEF GroupsOf
  <2>2. 1..2 = {1, 2} /\ ToSet(g) = {g[x] : x \in 1..2}
    BY <2>1 DEF ToSet
  <2>3. g[1] \in E /\ g[2] \in E
    <3>1. 1 \in 1..Len(g) /\ 2 \in 1..Len(g)
      OBVIOUS
    <3>2. QED
      BY <2>1, <3>1, ElementOfSeq
  <2>4. QED
    BY <2>1, <2>2, <2>3
<1>2. /\ \E j \in (i + 1)..Len(list) : g[2] = list[j]
      /\ \E m \in 1..(2 - 1) : Similar(d, g[m], g[2])
  <2>1. 2 \in 2..Len(g)
    OBVIOUS
  <2>2. QED
    BY <2>1 DEF GroupsOf
<1>3. PICK j \in (i + 1)..Len(list) : b = list[j]
  BY <1>2
<1>4. a = list[i]
  BY DEF GroupsOf
<1>5. a # b
  <2>1. Len(list) \in Nat /\ j \in 1..Len(list) /\ j # i
    BY LenProperties
  <2>2. QED
    BY <1>3, <1>4, <2>1
<1>6. Similar(d, a, b)
  <2>1. PICK m \in 1..(2 - 1) : Similar(d, g[m], g[2])
    BY <1>2
  <2>2. m = 1
    OBVIOUS
  <2>3. QED
    BY <2>1, <2>2
<1> HIDE DEF a, b
<1>7. {a, b} \notin no
  <2>1. PICK s \in SUBSET {a, b} : Cardinality(s) = 2 /\ s \notin no
    BY <1>1 DEF kSubset
  <2>2. s = {} \/ s = {a} \/ s = {b} \/ s = {a, b}
    OBVIOUS
  <2>3. s # {} /\ s # {a} /\ s # {b}
    <3>1. Cardinality({}) = 0 /\ Cardinality({a}) = 1 /\ Cardinality({b}) = 1
      BY FS_EmptySet, FS_Singleton
    <3>2. 2 # 0 /\ 2 # 1
      OBVIOUS
    <3>3. QED
      BY Zenon, <2>1, <3>1, <3>2
  <2>4. QED
    BY <2>1, <2>2, <2>3
<1>8. QED
  BY <1>1, <1>5, <1>6, <1>7 DEF Pair, Similar, a, b
\* No posting is in two groups.
Apart(groups) ==
  \A k, l \in 1..Len(groups) : k # l => ToSet(groups[k]) \cap ToSet(groups[l]) = {}

Gatherings(d, no, E) ==
  {s \in [used : SUBSET E, groups : Seq(Seq(E))] :
     /\ \A k \in 1..Len(s.groups) : /\ ToSet(s.groups[k]) \subseteq s.used
                                    /\ Len(s.groups[k]) = 2 => Pair(d, no, s.groups[k])
     /\ Apart(s.groups)}

LEMMA GatherStays ==
  ASSUME NEW d, NEW E, E \subseteq Live(d), NEW no, NEW list \in Seq(E), NEW i \in 1..Len(list),
         \A j, k \in 1..Len(list) : list[j] = list[k] => j = k,
         NEW s \in Gatherings(d, no, E)
  PROVE  Gather(d, no, list, s, i) \in Gatherings(d, no, E)
<1> DEFINE g == GroupFrom(d, list, i, s.used)
           more == Append(s.groups, g)
           n == Len(s.groups)
<1>1. /\ s = [used |-> s.used, groups |-> s.groups] /\ s.used \in SUBSET E /\ s.groups \in Seq(Seq(E))
      /\ \A k \in 1..n : /\ ToSet(s.groups[k]) \subseteq s.used
                         /\ Len(s.groups[k]) = 2 => Pair(d, no, s.groups[k])
      /\ Apart(s.groups) /\ n \in Nat
  BY LenProperties DEF Gatherings
<1>2. g \in GroupsOf(d, list, i, s.used, E)
  BY GroupIs
<1>3. Gather(d, no, list, s, i) =
        IF list[i] \in s.used \/ Len(g) < 2 THEN s
        ELSE [used |-> s.used \cup ToSet(g),
              groups |-> IF kSubset(2, ToSet(g)) \subseteq no THEN s.groups ELSE more]
  BY DEF Gather
<1>4. g \in Seq(E) /\ Len(g) \in Nat /\ ToSet(g) \subseteq E
  BY <1>2, LenProperties, ElementOfSeq DEF GroupsOf, ToSet
<1>5. more \in Seq(Seq(E)) /\ Len(more) = n + 1 /\ more[n + 1] = g /\ \A k \in 1..n : more[k] = s.groups[k]
  BY <1>1, <1>4, AppendProperties
<1> HIDE DEF g, more
<1>6. CASE list[i] \in s.used \/ Len(g) < 2
  BY <1>3, <1>6
<1>7. CASE list[i] \notin s.used /\ ~(Len(g) < 2)
  <2> DEFINE u == s.used \cup ToSet(g)
  <2>1. ToSet(g) \cap s.used = {}
    <3>1. \A k \in 1..Len(g) : g[k] \notin s.used
      <4>1. g[1] = list[i] /\ \A k \in 2..Len(g) : g[k] \notin s.used
        BY <1>2 DEF GroupsOf
      <4>2. \A k \in 1..Len(g) : k = 1 \/ k \in 2..Len(g)
        BY <1>4
      <4>3. QED
        BY <1>7, <4>1, <4>2
    <3>2. ToSet(g) = {g[k] : k \in 1..Len(g)}
      BY <1>4, LenProperties DEF ToSet
    <3>3. QED
      BY <3>1, <3>2
  <2>2. u \in SUBSET E /\ s.used \subseteq u /\ ToSet(g) \subseteq u
    BY <1>1, <1>4
  <2> HIDE DEF u
  <2>3. CASE kSubset(2, ToSet(g)) \subseteq no
    <3>1. [used |-> u, groups |-> s.groups] \in Gatherings(d, no, E)
      BY <1>1, <2>2 DEF Gatherings
    <3>2. QED
      BY <1>3, <1>7, <2>3, <3>1 DEF u
  <2>4. CASE ~(kSubset(2, ToSet(g)) \subseteq no)
    <3>1. Len(g) = 2 => Pair(d, no, g)
      BY <1>2, <2>4, PairIs
    <3>2. ASSUME NEW k \in 1..(n + 1)
          PROVE  ToSet(more[k]) \subseteq u /\ (Len(more[k]) = 2 => Pair(d, no, more[k]))
      <4>1. CASE k = n + 1
        BY <1>5, <2>2, <3>1, <4>1
      <4>2. CASE k # n + 1
        <5>1. k \in 1..n
          BY <1>1, <4>2
        <5>2. QED
          BY <1>1, <1>5, <2>2, <5>1
      <4>3. QED
        BY <4>1, <4>2
    <3>3. ASSUME NEW k \in 1..(n + 1), NEW l \in 1..(n + 1), k # l
          PROVE  ToSet(more[k]) \cap ToSet(more[l]) = {}
      <4>1. CASE k = n + 1
        <5>1. l \in 1..n
          BY <1>1, <3>3, <4>1
        <5>2. QED
          BY <1>1, <1>5, <2>1, <4>1, <5>1
      <4>2. CASE l = n + 1
        <5>1. k \in 1..n
          BY <1>1, <3>3, <4>2
        <5>2. QED
          BY <1>1, <1>5, <2>1, <4>2, <5>1
      <4>3. CASE k # n + 1 /\ l # n + 1
        <5>1. k \in 1..n /\ l \in 1..n
          BY <1>1, <4>3
        <5>2. QED
          BY <1>1, <1>5, <3>3, <5>1 DEF Apart
      <4>4. QED
        BY <4>1, <4>2, <4>3
    <3>4. Apart(more)
      BY <1>5, <3>3 DEF Apart
    <3>5. [used |-> u, groups |-> more] \in Gatherings(d, no, E)
      BY <1>5, <2>2, <3>2, <3>4 DEF Gatherings
    <3>6. QED
      BY <1>3, <1>7, <2>4, <3>5 DEF u
  <2>5. QED
    BY <2>3, <2>4
<1>8. QED
  BY <1>6, <1>7

LEMMA GroupsAre ==
  ASSUME NEW A, NEW d \in Ledgers(A), NEW no
  PROVE  /\ Groups(d, no) \in Seq(Seq(Live(d)))
         /\ \A k \in 1..Len(Groups(d, no)) :
              Len(Groups(d, no)[k]) = 2 => Pair(d, no, Groups(d, no)[k])
         /\ Apart(Groups(d, no))
<1> DEFINE E == Expenses(d)
           list == Listing(d)
           S == Gatherings(d, no, E)
<1>1. /\ list \in Seq(E) /\ E \subseteq Live(d)
      /\ \A i, j \in 1..Len(list) : list[i] = list[j] => i = j
  BY ListingIs
<1>2. [used |-> {}, groups |-> <<>>] \in S
  <2>1. <<>> \in Seq(Seq(E)) /\ Len(<<>>) = 0
    BY EmptySeq
  <2>2. QED
    BY <2>1 DEF Gatherings, Apart
<1> HIDE DEF list, E
<1>3. \A s \in S, i \in 1..Len(list) : Gather(d, no, list, s, i) \in S
  BY <1>1, GatherStays
<1> HIDE DEF S
<1>4. Gathered(d, no, list) \in S
  BY <1>1, <1>2, <1>3, GatheredFold
<1>5. Groups(d, no) = Gathered(d, no, list).groups
  BY DEF Groups, list
<1>6. Seq(Seq(E)) \subseteq Seq(Seq(Live(d)))
  <2>1. Seq(E) \subseteq Seq(Live(d))
    BY <1>1
  <2>2. QED
    BY <2>1
<1>7. QED
  BY <1>4, <1>5, <1>6 DEF S, Gatherings
\* What resolve_all_household_duplicates leaves of the ledger it read: what goes
\* has its counterpart of the same amount, not dismissed against it, still there.
Leaves(read, no, end) ==
  /\ Live(end) \subseteq Live(read)
  /\ \A p \in Live(read) \ Live(end) :
       \E q \in Live(end) : {p, q} \notin no /\ end.at[q].amount = read.at[p].amount

LEMMA ResolvedIs ==
  ASSUME NEW A, NEW S, Closed(A, S), NEW read \in S, NEW no
  PROVE  /\ Resolved(read, Groups(read, no)) \in S
         /\ Leaves(read, no, Resolved(read, Groups(read, no)))
<1> DEFINE groups == Groups(read, no)
           Other(x, p) == \E i \in 1..Len(groups), q \in Live(x) :
                            /\ p \in ToSet(groups[i]) /\ q \in ToSet(groups[i])
                            /\ {p, q} \notin no /\ read.at[q].amount = read.at[p].amount
           T == {x \in S : /\ Live(x) \subseteq Live(read)
                           /\ \A p \in Live(x) : x.at[p].amount = read.at[p].amount
                           /\ \A p \in Live(read) \ Live(x) : Other(x, p)}
<1>1. S \subseteq Ledgers(A)
  BY DEF Closed
<1>2. /\ groups \in Seq(Seq(Live(read))) /\ Apart(groups)
      /\ \A k \in 1..Len(groups) : Len(groups[k]) = 2 => Pair(read, no, groups[k])
  BY <1>1, GroupsAre
<1> HIDE DEF groups
<1>3. read \in T
  OBVIOUS
<1>4. ASSUME NEW x \in T, NEW i \in 1..Len(groups), NEW k, NEW r, ToSet(groups[i]) = {k, r}, k # r,
             read.at[k].amount = read.at[r].amount, {k, r} \notin no
      PROVE  Consolidate(x, k, r) \in T
  <2>1. x \in S /\ x \in Ledgers(A)
    BY <1>1
  <2>2. CASE ~({k, r} \subseteq Live(x))
    BY <2>2 DEF Consolidate
  <2>3. CASE {k, r} \subseteq Live(x)
    <3> DEFINE n == Consolidate(x, k, r)
    <3>1. x.at[k].amount = x.at[r].amount
      BY <1>4, <2>3
    <3>2. n \in S
      BY <1>4, <2>1, <2>3, <3>1 DEF Closed
    <3>3. /\ Live(n) = Live(x) \ {r}
          /\ \A q \in Live(n) : n.at[q] = IF q = k THEN Merged(x.at[k], x.at[r]) ELSE x.at[q]
      <4>1. k \in Live(x) /\ r \in Live(x) /\ x \in Ledgers(A)
        BY <2>1, <2>3
      <4> HIDE DEF T
      <4>2. QED
        BY <4>1, ConsolidateIs
    <3>4. Merged(x.at[k], x.at[r]).amount = x.at[k].amount
      <4>1. /\ x.at[k] \in Posted /\ x.at[k].allocs # <<>>
            /\ x.at[r] \in Posted /\ x.at[r].allocs # <<>>
        BY <2>1, <2>3, LedgerIs DEF Sound
      <4>2. QED
        BY <4>1, MergedIs
    <3> HIDE DEF n
    <3>5. \A q \in Live(n) : n.at[q].amount = read.at[q].amount
      BY <3>3, <3>4
    <3>6. ASSUME NEW p \in Live(read) \ Live(n) PROVE Other(n, p)
      <4>1. CASE p = r
        <5>1. k \in Live(n) /\ r \in ToSet(groups[i]) /\ k \in ToSet(groups[i]) /\ {r, k} \notin no
          BY <1>4, <2>3, <3>3
        <5>2. QED
          BY <1>4, <4>1, <5>1
      <4>2. CASE p # r
        <5>1. p \in Live(read) \ Live(x)
          BY <3>3, <4>2
        <5>2. PICK j \in 1..Len(groups), q \in Live(x) :
                /\ p \in ToSet(groups[j]) /\ q \in ToSet(groups[j])
                /\ {p, q} \notin no /\ read.at[q].amount = read.at[p].amount
          BY <5>1
        <5>3. q # r
          <6>1. SUFFICES ASSUME q = r PROVE FALSE
            OBVIOUS
          <6>2. j = i
            BY <1>2, <1>4, <5>2, <6>1 DEF Apart
          <6>3. p = k \/ p = r
            BY <1>4, <5>2, <6>2
          <6>4. QED
            BY <2>3, <4>2, <5>1, <6>3
        <5>4. QED
          BY <3>3, <5>2, <5>3
      <4>3. QED
        BY <4>1, <4>2
    <3>7. n \in T
      BY <3>2, <3>3, <3>5, <3>6
    <3>8. QED
      BY <3>7 DEF n
  <2>4. QED
    BY <2>2, <2>3
<1>5. ASSUME NEW x \in T, NEW i \in 1..Len(groups) PROVE Resolve(read, x, groups[i]) \in T
  <2> DEFINE g == groups[i]
  <2>1. CASE ~CanAutoMerge(read, g)
    BY <2>1 DEF Resolve
  <2>2. CASE CanAutoMerge(read, g)
    <3>1. Len(g) = 2 /\ Pair(read, no, g) /\ g \in Seq(Live(read))
      BY <1>2, <2>2, ElementOfSeq DEF CanAutoMerge
    <3>2. ToSet(g) = {g[1], g[2]}
      <4>1. DOMAIN g = 1..2 /\ 1..2 = {1, 2}
        BY <3>1, LenProperties
      <4>2. QED
        BY <4>1 DEF ToSet
    <3> DEFINE a == g[1]
               b == g[2]
    <3>3. /\ ToSet(g) = {a, b} /\ ToSet(g) = {b, a} /\ a # b /\ {a, b} \notin no /\ {b, a} \notin no
          /\ read.at[a].amount = read.at[b].amount
      <4>1. {a, b} = {b, a}
        OBVIOUS
      <4>2. QED
        BY <3>1, <3>2, <4>1 DEF Pair
    <3>4. Resolve(read, x, g) = Consolidate(x, a, b) \/ Resolve(read, x, g) = Consolidate(x, b, a)
      BY <2>2 DEF Resolve
    <3> HIDE DEF a, b
    <3>5. Consolidate(x, a, b) \in T /\ Consolidate(x, b, a) \in T
      <4> HIDE DEF T
      <4>1. Consolidate(x, a, b) \in T
        BY <1>4, <3>3
      <4>2. Consolidate(x, b, a) \in T
        BY <1>4, <3>3
      <4>3. QED
        BY <4>1, <4>2
    <3>6. QED
      BY <3>4, <3>5
  <2>3. QED
    BY <2>1, <2>2
<1> HIDE DEF T
<1>6. Resolved(read, groups) \in T
  BY <1>2, <1>3, <1>5, ResolvedFold
<1> DEFINE end == Resolved(read, groups)
<1> HIDE DEF end
<1>7. /\ end \in S /\ Live(end) \subseteq Live(read)
      /\ \A p \in Live(end) : end.at[p].amount = read.at[p].amount
      /\ \A p \in Live(read) \ Live(end) : Other(end, p)
  BY <1>6 DEF T, end
<1>8. \A p \in Live(read) \ Live(end) :
        \E q \in Live(end) : {p, q} \notin no /\ end.at[q].amount = read.at[p].amount
  BY <1>7
<1>9. QED
  BY <1>7, <1>8 DEF end, groups, Leaves
-----------------------------------------------------------------------------
(* The invariant, kept by every action.                                      *)

LedgerInv ==
  /\ ledger \in Ledgers(account)
  /\ account \subseteq Account
  /\ dismissed \subseteq kSubset(2, Posting)
  /\ edits \in 0 .. MaxEdits

LEMMA Starts == Init => LedgerInv
<1> SUFFICES ASSUME Init PROVE LedgerInv
  OBVIOUS
<1>1. Live(ledger) = {} /\ ledger = [rows |-> <<>>, at |-> <<>>]
  BY DEF Init, Live
<1>2. ledger \in Ledgers(account)
  <2>1. <<>> = [p \in {} |-> <<>>[p]]
    OBVIOUS
  <2>2. Listed(<<>>, {}) /\ {} \subseteq Posting
    BY ListedNone
  <2>3. PICK at : at = <<>> /\ at = [p \in {} |-> at[p]]
    BY <2>1
  <2>4. [rows |-> <<>>, at |-> at] \in Ledgers(account)
    BY <2>2, <2>3, LedgerMade
  <2>5. QED
    BY <1>1, <2>3, <2>4
<1>3. account \subseteq Account /\ dismissed \subseteq kSubset(2, Posting) /\ edits \in 0..MaxEdits
  BY LedgerAssumption DEF Init
<1>4. QED
  BY <1>2, <1>3 DEF LedgerInv

\* What one more edit leaves of the counter.
LEMMA OneMoreEdit ==
  ASSUME NEW e \in 0..MaxEdits, e < MaxEdits PROVE e + 1 \in 0..MaxEdits
  BY LedgerAssumption

LEMMA LedgersStore == ASSUME NEW A PROVE Stores(A, Ledgers(A))
  BY AmountIs, InsertIs DEF Stores

LEMMA SyncKeeps ==
  ASSUME LedgerInv, NEW a \in Account, SyncAccount(a) PROVE LedgerInv'
<1>1. PICK I \in SUBSET {p \in Bank : Home[p] = a} :
        \E feed \in SetToSeqs(I), amount \in Amounts(I), bad \in SUBSET I :
          ledger' = Ingest(ledger, feed, amount, bad)
  BY DEF SyncAccount
<1>2. PICK feed \in SetToSeqs(I), amount \in Amounts(I), bad \in SUBSET I :
        ledger' = Ingest(ledger, feed, amount, bad)
  BY <1>1
<1>3. PICK A : A = account
  OBVIOUS
<1>4. PICK d : d = ledger
  OBVIOUS
<1>5. a \in A /\ d \in Ledgers(A)
  BY <1>3, <1>4 DEF SyncAccount, LedgerInv
<1>6. I \subseteq Posting /\ \A p \in I : Home[p] = a
  BY LedgerAssumption
<1>7. Ingest(d, feed, amount, bad) \in Ledgers(A)
  BY <1>5, <1>6, LedgersStore, LedgersClosed, IngestStays
<1>8. ledger' \in Ledgers(account')
  BY <1>2, <1>3, <1>4, <1>7 DEF SyncAccount
<1>9. QED
  BY <1>8 DEF SyncAccount, LedgerInv

LEMMA ImportKeeps ==
  ASSUME LedgerInv, Import
  PROVE  /\ LedgerInv' /\ Live(ledger) \subseteq Live(ledger')
         /\ \A q \in Live(ledger') : \/ q \in Live(ledger) /\ ledger'.at[q].acct = ledger.at[q].acct
                                    \/ q \in Posting \ Bank
<1>0. PICK I \in SUBSET (Posting \ Bank) : \E file \in SetToSeqs(I), amount \in Amounts(I) :
        LET after == Imported(file, amount, ledger)
        IN  /\ ledger' = after
            /\ account' = account \cup {Home[p] : p \in I \cap (Live(after) \ Live(ledger))}
            /\ UNCHANGED <<dismissed, edits>>
  BY DEF Import
<1>1. PICK file \in SetToSeqs(I), amount \in Amounts(I) :
        /\ ledger' = Imported(file, amount, ledger)
        /\ account' = account \cup {Home[p] : p \in I \cap (Live(Imported(file, amount, ledger)) \ Live(ledger))}
        /\ UNCHANGED <<dismissed, edits>>
  BY <1>0
<1>2. PICK A : A = account
  OBVIOUS
<1>3. PICK d : d = ledger
  OBVIOUS
<1>4. d \in Ledgers(A) /\ I \subseteq Posting \ Bank
  BY <1>2, <1>3 DEF LedgerInv
<1>5. LET after == Imported(file, amount, d)
      IN  /\ after \in Ledgers(A \cup {Home[p] : p \in I \cap (Live(after) \ Live(d))})
          /\ Live(d) \subseteq Live(after)
          /\ \A q \in Live(after) : (q \in Live(d) /\ after.at[q].acct = d.at[q].acct) \/ q \in I
  BY <1>4, ImportedIs
<1>6. /\ ledger' \in Ledgers(account') /\ Live(ledger) \subseteq Live(ledger')
      /\ \A q \in Live(ledger') : \/ q \in Live(ledger) /\ ledger'.at[q].acct = ledger.at[q].acct
                                 \/ q \in I
  BY <1>1, <1>2, <1>3, <1>5
<1>7. account' \subseteq Account
  BY <1>1, LedgerAssumption DEF LedgerInv
<1>8. QED
  BY <1>1, <1>4, <1>6, <1>7 DEF LedgerInv

LEMMA EditKeeps ==
  ASSUME LedgerInv, NEW p \in Live(ledger), NEW cat \in Category \cup {Uncategorised},
         NEW marks \in SUBSET Mark, NEW excluded \in BOOLEAN,
         NEW custom \in {NoDay} \cup {Day[q] : q \in Posting}, Edit(p, cat, marks, excluded, custom)
  PROVE  /\ LedgerInv' /\ Live(ledger') = Live(ledger)
         /\ \A q \in Live(ledger) : ledger'.at[q].acct = ledger.at[q].acct
<1>1. custom \in Nat
  BY LedgerAssumption DEF NoDay
<1>2. /\ ledger' \in Ledgers(account) /\ Live(ledger') = Live(ledger)
      /\ \A q \in Live(ledger) : ledger'.at[q].acct = ledger.at[q].acct
  <2>1. PICK A : A = account
    OBVIOUS
  <2>2. PICK d : d = ledger
    OBVIOUS
  <2>3. PICK r \in Live(d), m \in SUBSET Mark, t \in Nat : r = p /\ m = marks /\ t = custom
    BY <1>1, <2>2
  <2>4. PICK e \in BOOLEAN : e = excluded
    OBVIOUS
  <2>5. PICK c \in Category \cup {Uncategorised} : c = cat
    OBVIOUS
  <2>6. d \in Ledgers(A)
    BY <2>1, <2>2 DEF LedgerInv
  <2>7. Sound(A, r, d.at[r])
    BY <2>6, LedgerIs
  <2>8. PICK K : K = Edited(d.at[r], c, m, e, t) /\ Sound(A, r, K) /\ K.acct = d.at[r].acct
    BY <2>7, EditedIs
  <2>9. /\ [d EXCEPT !.at[r] = K] \in Ledgers(A) /\ Live([d EXCEPT !.at[r] = K]) = Live(d)
        /\ \A q \in Live(d) : [d EXCEPT !.at[r] = K].at[q].acct = d.at[q].acct
    BY <2>6, <2>8, RowIs
  <2>10. ledger' = [d EXCEPT !.at[r] = K]
    BY <2>2, <2>3, <2>4, <2>5, <2>8 DEF Edit
  <2>11. QED
    BY <2>1, <2>2, <2>9, <2>10
<1>3. edits' \in 0..MaxEdits
  BY OneMoreEdit DEF LedgerInv, Edit
<1>4. QED
  BY <1>2, <1>3 DEF LedgerInv, Edit

LEMMA SplitKeeps ==
  ASSUME LedgerInv, NEW p \in Live(ledger), NEW parts \in Parts(ledger.at[p].amount), Split(p, parts)
  PROVE  /\ LedgerInv' /\ Live(ledger') = Live(ledger)
         /\ \A q \in Live(ledger) : ledger'.at[q].acct = ledger.at[q].acct
<1>1. /\ [ledger EXCEPT !.at[p].allocs = parts] \in Ledgers(account)
      /\ Live([ledger EXCEPT !.at[p].allocs = parts]) = Live(ledger)
      /\ \A q \in Live(ledger) : [ledger EXCEPT !.at[p].allocs = parts].at[q].acct = ledger.at[q].acct
  BY SplitIs DEF LedgerInv, Split
<1>2. edits' \in 0..MaxEdits
  BY OneMoreEdit DEF LedgerInv, Split
<1>3. QED
  BY <1>1, <1>2 DEF LedgerInv, Split

LEMMA MergeKeeps ==
  ASSUME LedgerInv, NEW src \in Account, NEW tgt \in Account, Merge(src, tgt) PROVE LedgerInv'
<1>1. PICK A : A = account
  OBVIOUS
<1>2. PICK d : d = ledger
  OBVIOUS
<1>3. PICK B : B = A \ {src}
  OBVIOUS
<1>4. d \in Ledgers(A) /\ tgt \in A \ {src}
  BY <1>1, <1>2 DEF LedgerInv, Merge
<1>5. Moved(d, src, tgt) \in Ledgers(A \ {src})
  BY <1>4, MovedIs
<1>6. Sweep(Moved(d, src, tgt), tgt).db \in Ledgers(B)
  BY <1>3, <1>5, LedgersClosed, SweepStays
<1>7. ledger' \in Ledgers(account')
  BY <1>1, <1>2, <1>3, <1>6 DEF Merge
<1>8. QED
  BY <1>7 DEF LedgerInv, Merge

LEMMA DismissKeeps ==
  ASSUME LedgerInv, NEW S \in kSubset(2, Live(ledger)), Dismiss(S) PROVE LedgerInv' /\ ledger' = ledger
<1>1. S \subseteq Posting
  BY LedgerIs DEF LedgerInv, Dismiss
<1>2. dismissed' \subseteq kSubset(2, Posting)
  BY <1>1 DEF LedgerInv, Dismiss, kSubset
<1>3. edits' \in 0..MaxEdits
  BY OneMoreEdit DEF LedgerInv, Dismiss
<1>4. QED
  BY <1>2, <1>3 DEF LedgerInv, Dismiss

LEMMA DismissAllKeeps ==
  ASSUME LedgerInv, DismissAllSameAccount PROVE LedgerInv' /\ ledger' = ledger
<1> DEFINE groups == Groups(ledger, dismissed)
<1>1. groups \in Seq(Seq(Live(ledger))) /\ Live(ledger) \subseteq Posting
  BY GroupsAre, LedgerIs DEF LedgerInv
<1> HIDE DEF groups
<1>2. ASSUME NEW g \in ToSet(groups) PROVE kSubset(2, ToSet(g)) \subseteq kSubset(2, Posting)
  <2>1. g \in Seq(Live(ledger))
    BY <1>1, <1>2, LenProperties, ElementOfSeq DEF ToSet
  <2>2. ToSet(g) \subseteq Posting
    BY <1>1, <2>1, LenProperties, ElementOfSeq DEF ToSet
  <2>3. QED
    BY <2>2 DEF kSubset
<1>3. UNION {kSubset(2, ToSet(g)) : g \in {h \in ToSet(groups) : ~CanAutoMerge(ledger, h)}}
        \subseteq kSubset(2, Posting)
  BY <1>2
<1>4. dismissed' \subseteq kSubset(2, Posting)
  BY <1>3 DEF LedgerInv, DismissAllSameAccount, groups
<1>5. QED
  BY <1>4 DEF LedgerInv, DismissAllSameAccount

LEMMA ResolveKeeps ==
  ASSUME LedgerInv, ResolveAll
  PROVE  /\ LedgerInv'
         /\ \A p \in Gone : StandsIn(p)
<1>1. PICK A : A = account
  OBVIOUS
<1>2. PICK d : d = ledger
  OBVIOUS
<1>3. PICK no : no = dismissed
  OBVIOUS
<1>4. Resolved(d, Groups(d, no)) \in Ledgers(A) /\ Leaves(d, no, Resolved(d, Groups(d, no)))
  <2>1. PICK S : S = Ledgers(A) /\ Closed(A, S) /\ d \in S
    BY <1>1, <1>2, LedgersClosed DEF LedgerInv
  <2>2. Resolved(d, Groups(d, no)) \in S /\ Leaves(d, no, Resolved(d, Groups(d, no)))
    BY <2>1, ResolvedIs
  <2>3. QED
    BY <2>1, <2>2
<1>5. ledger' \in Ledgers(account')
  BY <1>1, <1>2, <1>3, <1>4 DEF ResolveAll
<1>6. LedgerInv'
  BY <1>5 DEF LedgerInv, ResolveAll
<1>7. \A p \in Gone : StandsIn(p)
  <2>1. ledger' = Resolved(d, Groups(d, no))
    BY <1>2, <1>3 DEF ResolveAll
  <2>2. \A p \in Live(ledger) \ Live(ledger') :
          \E q \in Live(ledger') : {p, q} \notin dismissed /\ ledger'.at[q].amount = ledger.at[p].amount
    BY <1>2, <1>3, <1>4, <2>1 DEF Leaves
  <2>3. QED
    BY <2>2 DEF Gone, StandsIn
<1>8. QED
  BY <1>6, <1>7
-----------------------------------------------------------------------------
(* What is removed lives on.                                                 *)

LostSplit(d, n) == \E p \in Live(d) \ Live(n) : Len(d.at[p].allocs) > 1

\* What was on p in d is on q in n, but for what a split posting replaced.
Heir(d, n, p, q) ==
  /\ n.at[q].amount = d.at[p].amount
  /\ MarksOf(d.at[p]) \subseteq MarksOf(n.at[q]) \/ LostSplit(d, n)
  /\ d.at[p].excluded => n.at[q].excluded

Follows(d, n) ==
  /\ \A p \in Live(d) : \E q \in Live(n) : Heir(d, n, p, q)
  /\ \A q \in Live(n) : Len(n.at[q].allocs) > 1 =>
       LostSplit(d, n) \/ (q \in Live(d) /\ Len(d.at[q].allocs) > 1)

LEMMA MergedMarks ==
  ASSUME NEW K \in Posted, NEW R \in Posted, K.allocs # <<>>, R.allocs # <<>>
  PROVE  /\ MarksOf(R) \subseteq MarksOf(Merged(K, R))
         /\ Len(R.allocs) > 1 \/ MarksOf(K) \subseteq MarksOf(Merged(K, R))
         /\ Len(Merged(K, R).allocs) > 1 => Len(K.allocs) > 1 \/ Len(R.allocs) > 1
<1> DEFINE s == K.allocs
           t == R.allocs
           m == <<Absorb(Head(s), Head(t))>> \o Tail(s)
<1>1. s \in Seq(Allocation) /\ t \in Seq(Allocation) /\ s # <<>> /\ t # <<>>
  BY DEF Posted
<1>2. /\ Len(s) \in Nat /\ DOMAIN s = 1..Len(s) /\ 1 \in 1..Len(s) /\ s[1] \in Allocation
      /\ Len(t) \in Nat /\ DOMAIN t = 1..Len(t) /\ 1 \in 1..Len(t) /\ t[1] \in Allocation
  BY <1>1, EmptySeq, LenProperties, ElementOfSeq
<1>3. Merged(K, R).allocs = MergedAllocs(K, R)
  BY MergedIs
<1>4. CASE Len(t) > 1
  <2>1. Merged(K, R).allocs = t
    BY <1>3, <1>4 DEF MergedAllocs
  <2>2. QED
    BY <1>4, <2>1 DEF MarksOf
<1>5. CASE ~(Len(t) > 1)
  <2>1. Merged(K, R).allocs = m
    BY <1>3, <1>5 DEF MergedAllocs
  <2>2. /\ m \in Seq(Allocation) /\ Len(m) = Len(s) /\ m[1] = Absorb(s[1], t[1])
        /\ \A i \in 2..Len(s) : m[i] = s[i]
    BY <1>1, AbsorbedAllocs
  <2>3. m[1].marks = s[1].marks \cup t[1].marks
    BY <1>2, <2>2, AbsorbTypes
  <2> HIDE DEF m
  <2>4. DOMAIN m = 1..Len(s)
    BY <2>2, LenProperties
  <2>5. \A i \in 1..Len(s) : s[i].marks \subseteq m[i].marks
    <3>1. \A i \in 1..Len(s) : i = 1 \/ i \in 2..Len(s)
      BY <1>2
    <3>2. QED
      BY <2>2, <2>3, <3>1
  <2>6. MarksOf(Merged(K, R)) = UNION {m[i].marks : i \in 1..Len(s)}
    BY <2>1, <2>4 DEF MarksOf, ToSet
  <2>7. MarksOf(K) = UNION {s[i].marks : i \in 1..Len(s)}
    BY <1>2 DEF MarksOf, ToSet
  <2>8. MarksOf(R) = t[1].marks
    <3>1. 1..Len(t) = {1}
      BY <1>2, <1>5
    <3>2. ToSet(t) = {t[1]}
      BY <1>2, <3>1 DEF ToSet
    <3>3. QED
      BY <3>2 DEF MarksOf
  <2> HIDE DEF s, t
  <2>9. MarksOf(K) \subseteq MarksOf(Merged(K, R)) /\ MarksOf(R) \subseteq MarksOf(Merged(K, R))
    BY <1>2, <2>3, <2>5, <2>6, <2>7, <2>8
  <2>10. QED
    BY <2>1, <2>2, <2>9 DEF s, t
<1>6. QED
  BY <1>4, <1>5

\* Consolidation keeps everything that is carried on.
LEMMA FollowsClosed ==
  ASSUME NEW A, NEW old PROVE Closed(A, {x \in Ledgers(A) : Follows(old, x)})
<1> SUFFICES ASSUME NEW d \in Ledgers(A), Follows(old, d), NEW k \in Live(d), NEW r \in Live(d), k # r,
                    d.at[k].amount = d.at[r].amount
             PROVE  Consolidate(d, k, r) \in Ledgers(A) /\ Follows(old, Consolidate(d, k, r))
  BY DEF Closed
<1>0. LET m == Consolidate(d, k, r)
      IN  /\ m.rows = RemoveFirst(d.rows, r) /\ Live(m) = Live(d) \ {r}
          /\ m = [rows |-> m.rows, at |-> m.at] /\ m.at = [q \in Live(m) |-> m.at[q]]
          /\ \A q \in Live(m) : m.at[q] = IF q = k THEN Merged(d.at[k], d.at[r]) ELSE d.at[q]
  BY ConsolidateIs
<1> DEFINE n == Consolidate(d, k, r)
           K == d.at[k]
           R == d.at[r]
<1>1. n \in Ledgers(A)
  BY ConsolidateKeeps
<1>2. /\ Live(n) = Live(d) \ {r}
      /\ \A q \in Live(n) : n.at[q] = IF q = k THEN Merged(K, R) ELSE d.at[q]
  BY <1>0
<1>3. K \in Posted /\ K.allocs # <<>> /\ R \in Posted /\ R.allocs # <<>>
  BY LedgerIs DEF Sound
<1>4. /\ Merged(K, R).amount = K.amount /\ Merged(K, R).excluded = (K.excluded \/ R.excluded)
      /\ MarksOf(R) \subseteq MarksOf(Merged(K, R))
      /\ Len(R.allocs) > 1 \/ MarksOf(K) \subseteq MarksOf(Merged(K, R))
      /\ Len(Merged(K, R).allocs) > 1 => Len(K.allocs) > 1 \/ Len(R.allocs) > 1
  BY <1>3, MergedIs, MergedMarks
<1> HIDE DEF n
<1>5. LostSplit(old, d) => LostSplit(old, n)
  BY <1>2 DEF LostSplit
<1>6. Len(R.allocs) > 1 => LostSplit(old, n)
  <2> SUFFICES ASSUME Len(R.allocs) > 1 PROVE LostSplit(old, n)
    OBVIOUS
  <2>1. LostSplit(old, d) \/ (r \in Live(old) /\ Len(old.at[r].allocs) > 1)
    BY DEF Follows
  <2>2. r \notin Live(n)
    BY <1>2
  <2>3. QED
    BY <1>5, <2>1, <2>2 DEF LostSplit
<1>7. k \in Live(n) /\ n.at[k] = Merged(K, R) /\ \A q \in Live(n) \ {k} : n.at[q] = d.at[q]
  BY <1>2
<1>8. ASSUME NEW p \in Live(old) PROVE \E q \in Live(n) : Heir(old, n, p, q)
  <2>1. PICK q \in Live(d) : Heir(old, d, p, q)
    BY DEF Follows
  <2>2. CASE q = k
    <3>1. Heir(old, n, p, k)
      BY <1>4, <1>5, <1>6, <1>7, <2>1, <2>2 DEF Heir
    <3>2. QED
      BY <1>7, <3>1
  <2>3. CASE q = r
    <3>1. Heir(old, n, p, k)
      BY <1>4, <1>5, <1>7, <2>1, <2>3 DEF Heir
    <3>2. QED
      BY <1>7, <3>1
  <2>4. CASE q # k /\ q # r
    <3>1. q \in Live(n) /\ n.at[q] = d.at[q]
      BY <1>2, <2>4
    <3>2. Heir(old, n, p, q)
      BY <1>5, <2>1, <3>1 DEF Heir
    <3>3. QED
      BY <3>1, <3>2
  <2>5. QED
    BY <2>2, <2>3, <2>4
<1>9. ASSUME NEW q \in Live(n), Len(n.at[q].allocs) > 1
      PROVE  LostSplit(old, n) \/ (q \in Live(old) /\ Len(old.at[q].allocs) > 1)
  <2>1. CASE Len(d.at[q].allocs) > 1
    <3>1. q \in Live(d)
      BY <1>2
    <3>2. QED
      BY <1>5, <2>1, <3>1 DEF Follows
  <2>2. CASE ~(Len(d.at[q].allocs) > 1)
    <3>1. q = k
      BY <1>7, <1>9, <2>2
    <3>2. QED
      BY <1>4, <1>6, <1>7, <1>9, <2>2, <3>1
  <2>3. QED
    BY <2>1, <2>2
<1>10. QED
  BY <1>1, <1>8, <1>9 DEF Follows, n

\* Every posting is there as it was, and what is new is not split.
Extends(d, n) ==
  /\ Live(d) \subseteq Live(n)
  /\ \A p \in Live(d) : n.at[p] = d.at[p]
  /\ \A p \in Live(n) \ Live(d) : n.at[p].acct = Home[p] /\ Len(n.at[p].allocs) = 1

LEMMA ExtendsStores ==
  ASSUME FixedAmounts, NEW A, NEW old PROVE Stores(A, {x \in Ledgers(A) : Extends(old, x)})
<1> DEFINE S == {x \in Ledgers(A) : Extends(old, x)}
<1>1. ASSUME NEW d \in S, NEW p \in Live(d), NEW a \in Reported[p]
      PROVE  [d EXCEPT !.at[p].amount = a] \in S
  <2>1. d \in Ledgers(A)
    OBVIOUS
  <2>2. [d EXCEPT !.at[p].amount = a] = d
    BY <2>1, AmountIs
  <2>3. QED
    BY <2>2
<1>2. ASSUME NEW d \in S, NEW p \in Posting \ Live(d), NEW a \in Reported[p], Home[p] \in A
      PROVE  Insert(d, p, a) \in S
  <2>1. d \in Ledgers(A) /\ Extends(old, d)
    OBVIOUS
  <2> DEFINE n == Insert(d, p, a)
  <2>2. /\ n \in Ledgers(A) /\ Live(n) = Live(d) \cup {p}
        /\ \A q \in Live(d) : n.at[q] = d.at[q]
        /\ n.at[p].acct = Home[p] /\ Len(n.at[p].allocs) = 1
    BY <1>2, <2>1, InsertIs
  <2> HIDE DEF n
  <2>3. Extends(old, n)
    BY <2>1, <2>2 DEF Extends
  <2>4. QED
    BY <2>2, <2>3 DEF n
<1>3. QED
  BY <1>1, <1>2 DEF Stores

LEMMA ExtendsFollows ==
  ASSUME NEW d, NEW n, Extends(d, n) PROVE Follows(d, n)
<1>1. \A p \in Live(d) : p \in Live(n) /\ Heir(d, n, p, p)
  BY DEF Extends, Heir
<1>2. ASSUME NEW q \in Live(n), Len(n.at[q].allocs) > 1
      PROVE  q \in Live(d) /\ Len(d.at[q].allocs) > 1
  <2>1. q \notin Live(d) => Len(n.at[q].allocs) = 1
    BY DEF Extends
  <2>2. q \in Live(d)
    <3>1. ~(1 > 1)
      OBVIOUS
    <3>2. QED
      BY Zenon, <1>2, <2>1, <3>1
  <2>3. n.at[q] = d.at[q]
    BY <2>2 DEF Extends
  <2>4. QED
    BY <1>2, <2>2, <2>3
<1>3. QED
  BY <1>1, <1>2 DEF Follows
\* What a sync, a merge of accounts and a resolution of duplicates leave.
LEMMA SyncFollows ==
  ASSUME FixedAmounts, LedgerInv, NEW a \in Account, SyncAccount(a) PROVE Follows(ledger, ledger')
<1>1. PICK I \in SUBSET {p \in Bank : Home[p] = a} :
        \E feed \in SetToSeqs(I), amount \in Amounts(I), bad \in SUBSET I :
          ledger' = Ingest(ledger, feed, amount, bad)
  BY DEF SyncAccount
<1>2. PICK feed \in SetToSeqs(I), amount \in Amounts(I), bad \in SUBSET I :
        ledger' = Ingest(ledger, feed, amount, bad)
  BY <1>1
<1>3. PICK A : A = account
  OBVIOUS
<1>4. PICK d : d = ledger
  OBVIOUS
<1>5. a \in A /\ d \in Ledgers(A)
  BY <1>3, <1>4 DEF SyncAccount, LedgerInv
<1>6. I \subseteq Posting /\ \A p \in I : Home[p] = a
  BY LedgerAssumption
<1>7. PICK S : S = {x \in Ledgers(A) : Extends(d, x)}
  OBVIOUS
<1>8. PICK R : R = {x \in Ledgers(A) : Follows(d, x)}
  OBVIOUS
<1>9. Stores(A, S) /\ Closed(A, R)
  BY <1>7, <1>8, ExtendsStores, FollowsClosed
<1>10. S \subseteq R
  BY <1>7, <1>8, ExtendsFollows
<1>11. d \in S
  BY <1>5, <1>7 DEF Extends
<1>12. Ingest(d, feed, amount, bad) \in R
  BY <1>5, <1>6, <1>9, <1>10, <1>11, IngestStays
<1>13. QED
  BY <1>2, <1>4, <1>8, <1>12

LEMMA MergeFollows ==
  ASSUME LedgerInv, NEW src \in Account, NEW tgt \in Account, Merge(src, tgt)
  PROVE  Follows(ledger, ledger')
<1>1. PICK A : A = account
  OBVIOUS
<1>2. PICK d : d = ledger
  OBVIOUS
<1>3. PICK B : B = A \ {src}
  OBVIOUS
<1>4. d \in Ledgers(A) /\ tgt \in A \ {src}
  BY <1>1, <1>2 DEF LedgerInv, Merge
<1>5. PICK m : m = Moved(d, src, tgt)
  OBVIOUS
<1>6. /\ m \in Ledgers(B) /\ Live(m) = Live(d)
      /\ \A q \in Live(d) : /\ m.at[q].amount = d.at[q].amount
                            /\ m.at[q].excluded = d.at[q].excluded
                            /\ m.at[q].allocs = d.at[q].allocs
  <2>1. LET n == Moved(d, src, tgt)
        IN  /\ n \in Ledgers(A \ {src}) /\ Live(n) = Live(d)
            /\ \A q \in Live(d) : /\ n.at[q].amount = d.at[q].amount
                                  /\ n.at[q].excluded = d.at[q].excluded
                                  /\ n.at[q].allocs = d.at[q].allocs
    BY <1>4, MovedIs
  <2>2. QED
    BY <1>3, <1>5, <2>1
<1>7. Follows(d, m)
  <2>1. \A p \in Live(d) : p \in Live(m) /\ Heir(d, m, p, p)
    BY <1>6 DEF Heir, MarksOf
  <2>2. QED
    BY <1>6, <2>1 DEF Follows
<1>8. PICK S : S = {x \in Ledgers(B) : Follows(d, x)}
  OBVIOUS
<1>9. Closed(B, S) /\ m \in S
  BY <1>6, <1>7, <1>8, FollowsClosed
<1>10. Sweep(m, tgt).db \in S
  BY <1>9, SweepStays
<1>11. QED
  BY <1>2, <1>5, <1>8, <1>10 DEF Merge

LEMMA ResolveFollows ==
  ASSUME LedgerInv, ResolveAll PROVE Follows(ledger, ledger')
<1>1. PICK A : A = account
  OBVIOUS
<1>2. PICK d : d = ledger
  OBVIOUS
<1>3. PICK no : no = dismissed
  OBVIOUS
<1>4. PICK S : S = {x \in Ledgers(A) : Follows(d, x)}
  OBVIOUS
<1>5. Follows(d, d)
  BY DEF Follows, Heir
<1>6. Closed(A, S) /\ d \in S
  BY <1>1, <1>2, <1>4, <1>5, FollowsClosed DEF LedgerInv
<1>7. Resolved(d, Groups(d, no)) \in S
  BY <1>6, ResolvedIs
<1>8. QED
  BY <1>2, <1>3, <1>4, <1>7 DEF ResolveAll

\* A sync that leaves no posting it brought has taken none away.
LEMMA SyncBrings ==
  ASSUME LedgerInv, NEW a \in Account, SyncAccount(a), Live(ledger') \subseteq Live(ledger)
  PROVE  Gone = {}
<1>1. PICK I \in SUBSET {p \in Bank : Home[p] = a} :
        \E feed \in SetToSeqs(I), amount \in Amounts(I), bad \in SUBSET I :
          ledger' = Ingest(ledger, feed, amount, bad)
  BY DEF SyncAccount
<1>2. PICK feed \in SetToSeqs(I), amount \in Amounts(I), bad \in SUBSET I :
        ledger' = Ingest(ledger, feed, amount, bad)
  BY <1>1
<1>3. PICK A : A = account
  OBVIOUS
<1>4. PICK d : d = ledger
  OBVIOUS
<1>5. a \in A /\ d \in Ledgers(A)
  BY <1>3, <1>4 DEF SyncAccount, LedgerInv
<1>6. I \subseteq Posting /\ I \subseteq Bank /\ \A p \in I : Home[p] = a
  BY LedgerAssumption
<1>7. PICK S : S = {x \in Ledgers(A) : Live(d) \subseteq Live(x)}
  OBVIOUS
<1>8. PICK N : N = I \ Live(d)
  OBVIOUS
<1>9. PICK T : T = {x \in Ledgers(A) : Live(x) \subseteq Live(d) => Live(d) \subseteq Live(x)}
  OBVIOUS
<1>10. Stores(A, S) /\ d \in S
  <2>1. \A x \in S : x \in Ledgers(A) /\ Live(d) \subseteq Live(x)
    BY <1>7
  <2>2. ASSUME NEW x \in S, NEW p \in Live(x), NEW b \in Reported[p]
        PROVE  [x EXCEPT !.at[p].amount = b] \in S
    BY <1>7, <2>1, AmountIs
  <2>3. ASSUME NEW x \in S, NEW p \in Posting \ Live(x), NEW b \in Reported[p], Home[p] \in A
        PROVE  Insert(x, p, b) \in S
    <3>1. Insert(x, p, b) \in Ledgers(A) /\ Live(Insert(x, p, b)) = Live(x) \cup {p}
      BY <2>1, <2>3, InsertIs
    <3>2. QED
      BY <1>7, <2>1, <3>1
  <2>4. S \subseteq Ledgers(A)
    BY <2>1
  <2>5. QED
    BY <1>5, <1>7, <2>2, <2>3, <2>4 DEF Stores
<1>11. N \subseteq Posting /\ \A x \in S : I \ Live(x) \subseteq N
  BY <1>6, <1>7, <1>8
<1>12. Stored(d, feed, amount, bad).db \in S /\ Stored(d, feed, amount, bad).new \in Seq(N)
  BY <1>5, <1>6, <1>10, <1>11, StoredStays
<1>13. Stored(d, feed, amount, bad).db \in T
  BY <1>7, <1>9, <1>12
<1>14. ASSUME NEW x \in T, NEW p \in N PROVE ReconcileOne(x, p) \in T
  <2> DEFINE q == FindCandidate(x, p, FALSE)
  <2>1. x \in Ledgers(A) /\ p \in Bank /\ p \notin Live(d)
    BY <1>6, <1>8, <1>9
  <2>2. CASE p \notin Live(x) \/ q = None
    BY <2>2 DEF ReconcileOne
  <2>3. CASE p \in Live(x) /\ q # None
    <3>1. q \in Live(x) /\ q # p /\ x.at[q].amount = x.at[p].amount
      BY <2>1, <2>3, CandidateIs
    <3>2. ReconcileOne(x, p) = Consolidate(x, p, q)
      BY <2>1, <2>3 DEF ReconcileOne
    <3> HIDE DEF q
    <3>3. Consolidate(x, p, q) \in Ledgers(A)
      BY <2>1, <2>3, <3>1, ConsolidateKeeps
    <3>4. p \in Live(Consolidate(x, p, q))
      <4>1. Live(Consolidate(x, p, q)) = Live(x) \ {q}
        <5>1. LET m == Consolidate(x, p, q)
              IN  /\ m.rows = RemoveFirst(x.rows, q) /\ Live(m) = Live(x) \ {q}
                  /\ m = [rows |-> m.rows, at |-> m.at] /\ m.at = [y \in Live(m) |-> m.at[y]]
                  /\ \A y \in Live(m) : m.at[y] = IF y = p THEN Merged(x.at[p], x.at[q]) ELSE x.at[y]
          BY <2>1, <2>3, <3>1, ConsolidateIs
        <5>2. QED
          BY <5>1
      <4>2. QED
        BY <2>3, <3>1, <4>1
    <3>5. QED
      BY <1>9, <2>1, <3>2, <3>3, <3>4
  <2>4. QED
    BY <2>2, <2>3
<1>15. Ingest(d, feed, amount, bad) \in T
  BY <1>12, <1>13, <1>14, ReconcileFold DEF Ingest
<1>16. QED
  BY <1>2, <1>4, <1>9, <1>15 DEF Gone

-----------------------------------------------------------------------------
(* The rows of the bank.                                                     *)

\* The row p of d is in x where it was.
Remains(d, x, p) ==
  p \in Live(x) /\ x.at[p].acct = d.at[p].acct /\ x.at[p].amount = d.at[p].amount

\* Two accounts that bear one name.
Namesakes(a, b) == a # b /\ {a, b} \in SameBook

\* The row p of d has given way to the row q of the bank.
BankHeir(d, x, p, q) ==
  /\ q \in Bank \cap Live(x)
  /\ x.at[q].amount = d.at[p].amount
  /\ Namesakes(x.at[q].acct, d.at[p].acct)

BankKept(d, x) == \A p \in Bank \cap Live(d) : Remains(d, x, p) \/ \E q : BankHeir(d, x, p, q)

\* Who is left after a consolidation, and where.
LEMMA Consolidated ==
  ASSUME NEW A, NEW d \in Ledgers(A), NEW k \in Live(d), NEW r \in Live(d), k # r,
         d.at[k].amount = d.at[r].amount
  PROVE  LET n == Consolidate(d, k, r)
         IN  /\ n \in Ledgers(A) /\ Live(n) = Live(d) \ {r}
             /\ \A q \in Live(n) : n.at[q].acct = d.at[q].acct /\ n.at[q].amount = d.at[q].amount
<1> DEFINE n == Consolidate(d, k, r)
<1>1. /\ n.rows = RemoveFirst(d.rows, r) /\ Live(n) = Live(d) \ {r}
      /\ n = [rows |-> n.rows, at |-> n.at] /\ n.at = [q \in Live(n) |-> n.at[q]]
      /\ \A q \in Live(n) : n.at[q] = IF q = k THEN Merged(d.at[k], d.at[r]) ELSE d.at[q]
  BY ConsolidateIs
<1>2. n \in Ledgers(A)
  BY ConsolidateKeeps
<1>3. /\ Merged(d.at[k], d.at[r]).acct = d.at[k].acct
      /\ Merged(d.at[k], d.at[r]).amount = d.at[k].amount
  <2>1. Sound(A, k, d.at[k]) /\ Sound(A, r, d.at[r])
    BY LedgerIs
  <2>2. QED
    BY <2>1, MergedIs DEF Sound
<1> HIDE DEF n
<1>4. QED
  BY <1>1, <1>2, <1>3 DEF n

\* The new rows of a sync are all in its account, and what they take the place
\* of is in another one.
LEMMA SyncBanks ==
  ASSUME FixedAmounts, LedgerInv, NEW a \in Account, SyncAccount(a) PROVE BankKept(ledger, ledger')
<1>1. PICK I \in SUBSET {p \in Bank : Home[p] = a} :
        \E feed \in SetToSeqs(I), amount \in Amounts(I), bad \in SUBSET I :
          ledger' = Ingest(ledger, feed, amount, bad)
  BY DEF SyncAccount
<1>2. PICK feed \in SetToSeqs(I), amount \in Amounts(I), bad \in SUBSET I :
        ledger' = Ingest(ledger, feed, amount, bad)
  BY <1>1
<1>3. PICK A : A = account
  OBVIOUS
<1>4. PICK d : d = ledger
  OBVIOUS
<1>5. a \in A /\ d \in Ledgers(A)
  BY <1>3, <1>4 DEF SyncAccount, LedgerInv
<1>6. I \subseteq Posting /\ I \subseteq Bank /\ \A p \in I : Home[p] = a
  BY LedgerAssumption
<1>7. PICK S : S = {x \in Ledgers(A) : Extends(d, x)}
  OBVIOUS
<1>8. PICK N : N = I \ Live(d)
  OBVIOUS
<1> DEFINE Held(x, p) == Remains(d, x, p) \/ \E q : BankHeir(d, x, p, q) /\ x.at[q].acct = a
<1>9. PICK T : T = {x \in Ledgers(A) : /\ \A p \in Bank \cap Live(d) : Held(x, p)
                                       /\ \A p \in N \cap Live(x) : x.at[p].acct = a}
  OBVIOUS
<1>10. Stores(A, S) /\ d \in S
  BY <1>5, <1>7, ExtendsStores DEF Extends
<1>11. N \subseteq Posting /\ \A x \in S : I \ Live(x) \subseteq N
  BY <1>6, <1>7, <1>8 DEF Extends
<1>12. Stored(d, feed, amount, bad).db \in S /\ Stored(d, feed, amount, bad).new \in Seq(N)
  BY <1>5, <1>6, <1>10, <1>11, StoredStays
<1>13. Stored(d, feed, amount, bad).db \in T
  <2>1. PICK x \in S : x = Stored(d, feed, amount, bad).db
    BY <1>12
  <2>2. x \in Ledgers(A) /\ Extends(d, x)
    BY <1>7, <2>1
  <2>3. \A p \in Bank \cap Live(d) : Held(x, p)
    BY <2>2 DEF Extends, Remains
  <2>4. \A p \in N \cap Live(x) : x.at[p].acct = a
    BY <1>6, <1>8, <2>2 DEF Extends
  <2>5. QED
    BY <1>9, <2>1, <2>2, <2>3, <2>4
<1>14. ASSUME NEW x \in T, NEW p \in N PROVE ReconcileOne(x, p) \in T
  <2> DEFINE q == FindCandidate(x, p, FALSE)
             n == Consolidate(x, p, q)
  <2>1. /\ x \in Ledgers(A) /\ p \in Bank
        /\ \A y \in Bank \cap Live(d) : Held(x, y)
        /\ \A y \in N \cap Live(x) : x.at[y].acct = a
    BY <1>6, <1>8, <1>9
  <2>2. CASE p \notin Live(x) \/ q = None
    BY <2>2 DEF ReconcileOne
  <2>3. CASE p \in Live(x) /\ q # None
    <3>1. /\ q \in Live(x) /\ q # p /\ x.at[q].amount = x.at[p].amount
          /\ DuplicateAccounts(x.at[p].acct, x.at[q].acct, FALSE)
      BY <2>1, <2>3, CandidateIs
    <3>2. ReconcileOne(x, p) = n
      BY <2>1, <2>3 DEF ReconcileOne
    <3> HIDE DEF q
    <3>3. x.at[p].acct = a /\ Namesakes(a, x.at[q].acct)
      BY <2>1, <2>3, <3>1 DEF DuplicateAccounts, Namesakes
    <3>4. /\ n \in Ledgers(A) /\ Live(n) = Live(x) \ {q}
          /\ \A y \in Live(n) : n.at[y].acct = x.at[y].acct /\ n.at[y].amount = x.at[y].amount
      BY <2>1, <2>3, <3>1, Consolidated
    <3> HIDE DEF n
    <3>5. p \in Bank \cap Live(n) /\ n.at[p].acct = a /\ n.at[p].amount = x.at[q].amount
      BY <2>1, <2>3, <3>1, <3>3, <3>4
    <3>6. ASSUME NEW y \in Bank \cap Live(d) PROVE Held(n, y)
      <4>1. CASE Remains(d, x, y) /\ y = q
        <5>1. BankHeir(d, n, y, p)
          BY <3>3, <3>5, <4>1 DEF Remains, BankHeir
        <5>2. QED
          BY <3>5, <5>1
      <4>2. CASE Remains(d, x, y) /\ y # q
        BY <3>4, <4>2 DEF Remains
      <4>3. ASSUME NEW h, BankHeir(d, x, y, h), x.at[h].acct = a PROVE Held(n, y)
        <5>1. h # q
          BY <3>3, <4>3 DEF Namesakes
        <5>2. BankHeir(d, n, y, h) /\ n.at[h].acct = a
          BY <3>4, <4>3, <5>1 DEF BankHeir
        <5>3. QED
          BY <5>2
      <4>4. QED
        BY <2>1, <4>1, <4>2, <4>3
    <3>7. \A y \in N \cap Live(n) : n.at[y].acct = a
      BY <2>1, <3>4
    <3>8. n \in T
      BY <1>9, <3>4, <3>6, <3>7
    <3>9. QED
      BY <3>2, <3>8
  <2>4. QED
    BY <2>2, <2>3
<1>15. Ingest(d, feed, amount, bad) \in T
  BY <1>12, <1>13, <1>14, ReconcileFold DEF Ingest
<1>16. QED
  BY <1>2, <1>4, <1>9, <1>15 DEF BankKept

\* Of a pair that is resolved a row of the bank stays if there is one; the pairs
\* have no posting in common, so what took the place of another is not removed.
LEMMA ResolveBanks ==
  ASSUME LedgerInv, ResolveAll PROVE BankKept(ledger, ledger')
<1>1. PICK A : A = account
  OBVIOUS
<1>2. PICK d : d = ledger /\ d \in Ledgers(A)
  BY <1>1 DEF LedgerInv
<1>3. PICK no : no = dismissed
  OBVIOUS
<1>4. PICK groups : groups = Groups(d, no)
  OBVIOUS
<1>5. /\ groups \in Seq(Seq(Live(d))) /\ Apart(groups)
      /\ \A i \in 1..Len(groups) : Len(groups[i]) = 2 => Pair(d, no, groups[i])
  BY <1>2, <1>4, GroupsAre
<1> DEFINE Twin(x, p) == \E i \in 1..Len(groups), q \in Bank \cap Live(x) :
                           /\ p \in ToSet(groups[i]) /\ q \in ToSet(groups[i])
                           /\ d.at[q].amount = d.at[p].amount
                           /\ Namesakes(d.at[q].acct, d.at[p].acct)
           T == {x \in Ledgers(A) :
                   /\ Live(x) \subseteq Live(d)
                   /\ \A p \in Live(x) : Remains(d, x, p)
                   /\ \A p \in (Bank \cap Live(d)) \ Live(x) : Twin(x, p)}
<1>6. d \in T
  BY <1>2 DEF Remains
<1>7. ASSUME NEW x \in T, NEW i \in 1..Len(groups), NEW k, NEW r, ToSet(groups[i]) = {k, r}, k # r,
             d.at[k].amount = d.at[r].amount, Namesakes(d.at[k].acct, d.at[r].acct),
             r \in Bank => k \in Bank
      PROVE  Consolidate(x, k, r) \in T
  <2> DEFINE n == Consolidate(x, k, r)
  <2>1. CASE ~({k, r} \subseteq Live(x))
    BY <2>1 DEF Consolidate
  <2>2. CASE {k, r} \subseteq Live(x)
    <3>1. x \in Ledgers(A) /\ k \in Live(x) /\ r \in Live(x) /\ x.at[k].amount = x.at[r].amount
      BY <1>7, <2>2 DEF Remains
    <3>2. /\ n \in Ledgers(A) /\ Live(n) = Live(x) \ {r}
          /\ \A q \in Live(n) : n.at[q].acct = x.at[q].acct /\ n.at[q].amount = x.at[q].amount
      <4> HIDE DEF T
      <4>1. QED
        BY <1>7, <3>1, Consolidated
    <3> HIDE DEF n
    <3>3. Live(n) \subseteq Live(d) /\ \A p \in Live(n) : Remains(d, n, p)
      BY <3>2 DEF Remains
    <3>4. ASSUME NEW p \in (Bank \cap Live(d)) \ Live(n) PROVE Twin(n, p)
      <4>1. CASE p = r
        <5>1. k \in Bank \cap Live(n) /\ r \in ToSet(groups[i]) /\ k \in ToSet(groups[i])
          BY <1>7, <3>1, <3>2, <4>1
        <5>2. QED
          BY <1>7, <4>1, <5>1
      <4>2. CASE p # r
        <5>1. p \in (Bank \cap Live(d)) \ Live(x)
          BY <3>2, <4>2
        <5>2. PICK j \in 1..Len(groups), q \in Bank \cap Live(x) :
                /\ p \in ToSet(groups[j]) /\ q \in ToSet(groups[j])
                /\ d.at[q].amount = d.at[p].amount
                /\ Namesakes(d.at[q].acct, d.at[p].acct)
          BY <5>1
        <5>3. q # r
          <6>1. SUFFICES ASSUME q = r PROVE FALSE
            OBVIOUS
          <6>2. j = i
            BY <1>5, <1>7, <5>2, <6>1 DEF Apart
          <6>3. p = k \/ p = r
            BY <1>7, <5>2, <6>2
          <6>4. QED
            BY <3>1, <4>2, <5>1, <6>3
        <5>4. QED
          BY <3>2, <5>2, <5>3
      <4>3. QED
        BY <4>1, <4>2
    <3>5. n \in T
      BY <3>2, <3>3, <3>4
    <3>6. QED
      BY <3>5 DEF n
  <2>3. QED
    BY <2>1, <2>2
<1>8. ASSUME NEW x \in T, NEW i \in 1..Len(groups) PROVE Resolve(d, x, groups[i]) \in T
  <2> DEFINE g == groups[i]
  <2>1. CASE ~CanAutoMerge(d, g)
    BY <2>1 DEF Resolve
  <2>2. CASE CanAutoMerge(d, g)
    <3>1. Len(g) = 2 /\ Pair(d, no, g) /\ g \in Seq(Live(d))
      BY <1>5, <2>2, ElementOfSeq DEF CanAutoMerge
    <3>2. PICK k, r : k = g[1] /\ r = g[2]
      OBVIOUS
    <3>3. ToSet(g) = {k, r} /\ ToSet(g) = {r, k}
      <4>1. DOMAIN g = 1..2 /\ 1..2 = {1, 2}
        BY <3>1, LenProperties
      <4>2. QED
        BY <3>2, <4>1 DEF ToSet
    <3>4. /\ k # r /\ d.at[k].amount = d.at[r].amount
          /\ Namesakes(d.at[k].acct, d.at[r].acct) /\ Namesakes(d.at[r].acct, d.at[k].acct)
      <4>1. DuplicateAccounts(d.at[k].acct, d.at[r].acct, FALSE)
        BY <2>2, <3>2 DEF CanAutoMerge
      <4>2. \A u, v : {u, v} = {v, u}
        OBVIOUS
      <4>3. QED
        BY <3>1, <3>2, <4>1, <4>2 DEF Pair, DuplicateAccounts, Namesakes
    <3>5. Resolve(d, x, g) = IF r \in Bank /\ k \notin Bank THEN Consolidate(x, r, k)
                                                          ELSE Consolidate(x, k, r)
      BY <2>2, <3>2 DEF Resolve
    <3> HIDE DEF T
    <3>6. CASE r \in Bank /\ k \notin Bank
      <4>1. Consolidate(x, r, k) \in T
        BY <1>7, <3>3, <3>4, <3>6
      <4>2. QED
        BY <3>5, <3>6, <4>1
    <3>7. CASE ~(r \in Bank /\ k \notin Bank)
      <4>1. Consolidate(x, k, r) \in T
        BY <1>7, <3>3, <3>4, <3>7
      <4>2. QED
        BY <3>5, <3>7, <4>1
    <3>8. QED
      BY <3>6, <3>7
  <2>3. QED
    BY <2>1, <2>2
<1> HIDE DEF T
<1>9. Resolved(d, groups) \in T
  BY <1>5, <1>6, <1>8, ResolvedFold
<1>10. PICK end \in T : end = Resolved(d, groups)
  BY <1>9
<1>11. ASSUME NEW p \in Bank \cap Live(d) PROVE Remains(d, end, p) \/ \E q : BankHeir(d, end, p, q)
  <2>1. CASE p \in Live(end)
    BY <2>1 DEF T
  <2>2. CASE p \notin Live(end)
    <3>1. PICK q \in Bank \cap Live(end) : /\ d.at[q].amount = d.at[p].amount
                                           /\ Namesakes(d.at[q].acct, d.at[p].acct)
      BY <2>2 DEF T
    <3>2. Remains(d, end, q)
      BY <3>1 DEF T
    <3>3. BankHeir(d, end, p, q)
      BY <3>1, <3>2 DEF BankHeir, Remains
    <3>4. QED
      BY <3>3
  <2>3. QED
    BY <2>1, <2>2
<1>12. QED
  BY <1>2, <1>3, <1>4, <1>10, <1>11 DEF BankKept, ResolveAll

LEMMA BankStep ==
  ASSUME FixedAmounts, LedgerInv, [Next]_vars, account \subseteq account'
  PROVE  Gone = {} \/ BankKept(ledger, ledger')
<1>1. CASE UNCHANGED vars
  BY <1>1 DEF Gone, vars
<1>2. CASE \E a \in Account : SyncAccount(a)
  BY <1>2, SyncBanks
<1>3. CASE Import
  BY <1>3, ImportKeeps DEF Gone
<1>4. ASSUME NEW p \in Live(ledger), NEW cat \in Category \cup {Uncategorised}, NEW marks \in SUBSET Mark,
             NEW excluded \in BOOLEAN, NEW custom \in {NoDay} \cup {Day[q] : q \in Posting},
             Edit(p, cat, marks, excluded, custom)
      PROVE  Gone = {}
  BY <1>4, EditKeeps DEF Gone
<1>5. ASSUME NEW p \in Live(ledger), NEW parts \in Parts(ledger.at[p].amount), Split(p, parts)
      PROVE  Gone = {}
  BY <1>5, SplitKeeps DEF Gone
<1>6. CASE \E src, tgt \in Account : Merge(src, tgt)
  BY <1>6 DEF Merge
<1>7. CASE \E S \in kSubset(2, Live(ledger)) : Dismiss(S)
  BY <1>7, DismissKeeps DEF Gone
<1>8. CASE DismissAllSameAccount
  BY <1>8, DismissAllKeeps DEF Gone
<1>9. CASE ResolveAll
  BY <1>9, ResolveBanks
<1>10. QED
  BY <1>1, <1>2, <1>3, <1>4, <1>5, <1>6, <1>7, <1>8, <1>9 DEF Next

-----------------------------------------------------------------------------
(* The theorems.                                                             *)

LEMMA StepKeeps == ASSUME LedgerInv, [Next]_vars PROVE LedgerInv'
<1>1. CASE UNCHANGED vars
  BY <1>1 DEF LedgerInv, vars
<1>2. CASE \E a \in Account : SyncAccount(a)
  BY <1>2, SyncKeeps
<1>3. CASE Import
  BY <1>3, ImportKeeps
<1>4. ASSUME NEW p \in Live(ledger), NEW cat \in Category \cup {Uncategorised}, NEW marks \in SUBSET Mark,
             NEW excluded \in BOOLEAN, NEW custom \in {NoDay} \cup {Day[q] : q \in Posting},
             Edit(p, cat, marks, excluded, custom)
      PROVE  LedgerInv'
  BY <1>4, EditKeeps
<1>5. ASSUME NEW p \in Live(ledger), NEW parts \in Parts(ledger.at[p].amount), Split(p, parts)
      PROVE  LedgerInv'
  BY <1>5, SplitKeeps
<1>6. CASE \E src, tgt \in Account : Merge(src, tgt)
  BY <1>6, MergeKeeps
<1>7. CASE \E S \in kSubset(2, Live(ledger)) : Dismiss(S)
  BY <1>7, DismissKeeps
<1>8. CASE DismissAllSameAccount
  BY <1>8, DismissAllKeeps
<1>9. CASE ResolveAll
  BY <1>9, ResolveKeeps
<1>10. QED
  BY <1>1, <1>2, <1>3, <1>4, <1>5, <1>6, <1>7, <1>8, <1>9 DEF Next

LEMMA LedgerAlways == Spec => []LedgerInv
<1>1. Init => LedgerInv
  BY Starts
<1>2. LedgerInv /\ [Next]_vars => LedgerInv'
  BY StepKeeps
<1>3. QED
  BY <1>1, <1>2, PTL DEF Spec

\* Whatever is imported, synced, edited, split, merged and resolved, the table
\* holds each posting once, with an existing account and well-formed allocations.
THEOREM LedgerTypes == Spec => []TypeOK
<1>1. LedgerInv => TypeOK
  <2> SUFFICES ASSUME LedgerInv PROVE TypeOK
    OBVIOUS
  <2>1. Listed(ledger.rows, Live(ledger)) /\ \A p \in Live(ledger) : Sound(account, p, ledger.at[p])
    BY LedgerIs DEF LedgerInv
  <2>2. /\ Live(ledger) \subseteq Posting /\ ToSet(ledger.rows) = Live(ledger)
        /\ Len(ledger.rows) = Cardinality(Live(ledger))
    BY <2>1, ListedFinite
  <2>3. ASSUME NEW p \in Live(ledger)
        PROVE  /\ ledger.at[p].acct \in account /\ ledger.at[p].amount \in Int
               /\ ledger.at[p].custom \in Nat /\ ledger.at[p].excluded \in BOOLEAN
               /\ ledger.at[p].allocs \in Seq(Allocation)
    BY <2>1 DEF Sound, Posted
  <2>4. QED
    BY <2>2, <2>3 DEF LedgerInv, TypeOK
<1>2. QED
  BY <1>1, LedgerAlways, PTL

\* If no source corrects an amount, the allocations of every posting add up to it
\* at all times; the run ledger_sums shows that the hypothesis is needed.
THEOREM SumsAlwaysMatch == ASSUME FixedAmounts PROVE Spec => []SumsMatch
<1>1. LedgerInv => SumsMatch
  BY LedgerIs DEF LedgerInv, SumsMatch, Sound, Adds
<1>2. QED
  BY <1>1, LedgerAlways, PTL

LEMMA StepFollows ==
  ASSUME FixedAmounts, LedgerInv, [Next]_vars PROVE Follows(ledger, ledger') \/ Gone = {}
<1>1. CASE UNCHANGED vars
  BY <1>1 DEF Gone, vars
<1>2. CASE \E a \in Account : SyncAccount(a)
  BY <1>2, SyncFollows
<1>3. CASE Import
  BY <1>3, ImportKeeps DEF Gone
<1>4. ASSUME NEW p \in Live(ledger), NEW cat \in Category \cup {Uncategorised}, NEW marks \in SUBSET Mark,
             NEW excluded \in BOOLEAN, NEW custom \in {NoDay} \cup {Day[q] : q \in Posting},
             Edit(p, cat, marks, excluded, custom)
      PROVE  Gone = {}
  BY <1>4, EditKeeps DEF Gone
<1>5. ASSUME NEW p \in Live(ledger), NEW parts \in Parts(ledger.at[p].amount), Split(p, parts)
      PROVE  Gone = {}
  BY <1>5, SplitKeeps DEF Gone
<1>6. CASE \E src, tgt \in Account : Merge(src, tgt)
  BY <1>6, MergeFollows
<1>7. CASE \E S \in kSubset(2, Live(ledger)) : Dismiss(S)
  BY <1>7, DismissKeeps DEF Gone
<1>8. CASE DismissAllSameAccount
  BY <1>8, DismissAllKeeps DEF Gone
<1>9. CASE ResolveAll
  BY <1>9, ResolveFollows
<1>10. QED
  BY <1>1, <1>2, <1>3, <1>4, <1>5, <1>6, <1>7, <1>8, <1>9 DEF Next

\* If no source corrects an amount, a posting that any chain of consolidations
\* removes lives on in one of its amount, with its marks and its exclusion.
THEOREM RemovedAlwaysLivesOn == ASSUME FixedAmounts PROVE Spec => RemovedLivesOn
<1>1. ASSUME LedgerInv, [Next]_vars
      PROVE  [\A p \in Gone :
                \E q \in Live(ledger') :
                  /\ ledger'.at[q].amount = ledger.at[p].amount
                  /\ MarksOf(ledger.at[p]) \subseteq MarksOf(ledger'.at[q]) \/ SplitGone
                  /\ ledger.at[p].excluded => ledger'.at[q].excluded]_vars
  <2>1. CASE Gone = {}
    BY <2>1
  <2>2. CASE Follows(ledger, ledger')
    <3>1. LostSplit(ledger, ledger') => SplitGone
      BY DEF LostSplit, SplitGone, Gone
    <3>2. \A p \in Gone : \E q \in Live(ledger') : Heir(ledger, ledger', p, q)
      BY <2>2 DEF Follows, Gone
    <3>3. QED
      BY <3>1, <3>2 DEF Heir
  <2>3. QED
    BY <1>1, <2>1, <2>2, StepFollows
<1>2. QED
  BY <1>1, LedgerAlways, PTL DEF Spec, RemovedLivesOn

\* resolve_all_household_duplicates takes a posting away only where one of the
\* same amount remains that the user did not mark as no duplicate of it.
THEOREM DismissalIsRespected == Spec => ResolveRespectsDismissal
<1>1. ASSUME LedgerInv, [Next]_vars
      PROVE  [account = account' /\ Live(ledger') \subseteq Live(ledger) =>
                \A p \in Gone : StandsIn(p)]_vars
  <2> SUFFICES ASSUME account = account', Live(ledger') \subseteq Live(ledger)
               PROVE  (\A p \in Gone : StandsIn(p)) \/ UNCHANGED vars
    OBVIOUS
  <2>1. CASE UNCHANGED vars
    BY <2>1
  <2>2. CASE \E a \in Account : SyncAccount(a)
    BY <1>1, <2>2, SyncBrings
  <2>3. CASE Import
    BY <1>1, <2>3, ImportKeeps DEF Gone
  <2>4. ASSUME NEW p \in Live(ledger), NEW cat \in Category \cup {Uncategorised}, NEW marks \in SUBSET Mark,
               NEW excluded \in BOOLEAN, NEW custom \in {NoDay} \cup {Day[q] : q \in Posting},
               Edit(p, cat, marks, excluded, custom)
        PROVE  Gone = {}
    BY <1>1, <2>4, EditKeeps DEF Gone
  <2>5. ASSUME NEW p \in Live(ledger), NEW parts \in Parts(ledger.at[p].amount), Split(p, parts)
        PROVE  Gone = {}
    BY <1>1, <2>5, SplitKeeps DEF Gone
  <2>6. CASE \E src, tgt \in Account : Merge(src, tgt)
    BY <2>6 DEF Merge
  <2>7. CASE \E S \in kSubset(2, Live(ledger)) : Dismiss(S)
    BY <1>1, <2>7, DismissKeeps DEF Gone
  <2>8. CASE DismissAllSameAccount
    BY <1>1, <2>8, DismissAllKeeps DEF Gone
  <2>9. CASE ResolveAll
    BY <1>1, <2>9, ResolveKeeps
  <2>10. QED
    BY <1>1, <2>1, <2>2, <2>3, <2>4, <2>5, <2>6, <2>7, <2>8, <2>9 DEF Next
<1>2. QED
  BY <1>1, LedgerAlways, PTL DEF Spec, ResolveRespectsDismissal

\* If no source corrects an amount, a sync or a resolution takes a row of the bank
\* away only where another row of the bank has its amount, in another account of
\* the same name: never in favour of an archive row, nor of a repeat in its own
\* account (reconcile_incoming_postings, are_accounts_duplicate_pair).
THEOREM BankRowsStay == ASSUME FixedAmounts PROVE Spec => BankPostingsStay
<1>1. ASSUME LedgerInv, [Next]_vars
      PROVE  [account \subseteq account' =>
                \A p \in Gone \cap Bank :
                  \E q \in Bank \cap Live(ledger') :
                    /\ ledger'.at[q].amount = ledger.at[p].amount
                    /\ ledger'.at[q].acct # ledger.at[p].acct
                    /\ {ledger'.at[q].acct, ledger.at[p].acct} \in SameBook]_vars
  <2> SUFFICES ASSUME account \subseteq account', NEW p \in Gone \cap Bank
               PROVE  \E q \in Bank \cap Live(ledger') :
                        /\ ledger'.at[q].amount = ledger.at[p].amount
                        /\ ledger'.at[q].acct # ledger.at[p].acct
                        /\ {ledger'.at[q].acct, ledger.at[p].acct} \in SameBook
    OBVIOUS
  <2>1. BankKept(ledger, ledger')
    BY <1>1, BankStep
  <2>2. p \in Bank \cap Live(ledger) /\ p \notin Live(ledger')
    BY DEF Gone
  <2>3. PICK q : BankHeir(ledger, ledger', p, q)
    BY <2>1, <2>2 DEF BankKept, Remains
  <2>4. QED
    BY <2>3 DEF BankHeir, Namesakes
<1>2. QED
  BY <1>1, LedgerAlways, PTL DEF Spec, BankPostingsStay
=============================================================================
