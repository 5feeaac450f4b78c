------------------------- MODULE Calculations_proofs -------------------------
(***************************************************************************)
(* What the progress shown means and that the recommendations are shuffled *)
(* evenly, for every Bible, every sequence of passed writings and every    *)
(* number of candidates.                                                   *)
(*                                                                         *)
(* The sums of calculateProgress and the loop of the shuffle are recursive *)
(* functions.  What they compute is proved by well-founded induction in    *)
(* the form of minimal counterexamples: a finite set of sets has a minimal *)
(* member, a non-empty set of numbers a least one.                         *)
(***************************************************************************)
EXTENDS Calculations, FiniteSetTheorems, TLAPS

\* Among subsets of a finite set one is minimal.
LEMMA MinimalSubset ==
  ASSUME NEW S, IsFiniteSet(S), NEW F, \A A \in F : A \subseteq S, F # {}
  PROVE  \E A \in F : \A B \in F : B \subseteq A => B = A
<1>1. F \subseteq FiniteSubsetsOf(S)
  BY FS_FiniteSubsetsOfFinite
<1>2. IsWellFoundedOn(StrictSubsetOrdering(S), FiniteSubsetsOf(S))
  BY FS_StrictSubsetOrderingWellFounded
<1>3. PICK A \in F : \A B \in F : <<B, A>> \notin StrictSubsetOrdering(S)
  BY <1>1, <1>2, WFMin
<1> QED
  BY <1>3 DEF StrictSubsetOrdering

\* A non-empty set of natural numbers has a least member.
LEMMA Least ==
  ASSUME NEW T \in SUBSET Nat, T # {}
  PROVE  \E m \in T : \A k \in T : m <= k
<1>1. PICK n \in T : TRUE
  OBVIOUS
<1> DEFINE F == {0..k : k \in T \cap (0..n)}
<1>2. IsFiniteSet(0..n)
  BY FS_Interval
<1>3. (\A A \in F : A \subseteq 0..n) /\ F # {}
  <2>1. \A k \in T \cap (0..n) : 0..k \subseteq 0..n
    OBVIOUS
  <2>2. n \in T \cap (0..n)
    OBVIOUS
  <2> QED
    BY <2>1, <2>2
<1> HIDE DEF F
<1>4. PICK A \in F : \A B \in F : B \subseteq A => B = A
  BY <1>2, <1>3, MinimalSubset
<1>5. PICK m \in T \cap (0..n) : A = 0..m
  BY DEF F
<1>6. ASSUME NEW k \in T PROVE m <= k
  <2> SUFFICES ASSUME k < m PROVE FALSE
    OBVIOUS
  <2>1. 0..k \in F /\ 0..k \subseteq A
    BY <1>5 DEF F
  <2>2. 0..k = 0..m
    BY <1>4, <1>5, <2>1
  <2>3. m \in 0..m /\ m \notin 0..k
    OBVIOUS
  <2> QED
    BY <2>2, <2>3
<1> QED
  BY <1>6

-----------------------------------------------------------------------------
(***************************************************************************)
(* Sums over finite sets                                                   *)
(***************************************************************************)
Chosen(s) == CHOOSE x \in s : TRUE

\* The equation that MapThenSumSet solves, for the summands f.
SumStep(f, S, iter) ==
    [s \in SUBSET S |-> IF s = {} THEN 0 ELSE f[Chosen(s)] + iter[s \ {Chosen(s)}]]

LEMMA ChosenIsMember ==
  ASSUME NEW s, s # {}
  PROVE  Chosen(s) \in s
BY DEF Chosen

\* It has one solution only: a smallest set on which two differ has a smaller one.
LEMMA SumIsUnique ==
  ASSUME NEW S, IsFiniteSet(S), NEW f, NEW g, NEW h,
         g = SumStep(f, S, g), h = SumStep(f, S, h)
  PROVE  g[S] = h[S]
<1> DEFINE Differ == {s \in SUBSET S : g[s] # h[s]}
<1>1. \A s \in SUBSET S : s # {} =>
        /\ g[s] = f[Chosen(s)] + g[s \ {Chosen(s)}]
        /\ h[s] = f[Chosen(s)] + h[s \ {Chosen(s)}]
  BY DEF SumStep
<1>2. g[{}] = 0 /\ h[{}] = 0
  BY DEF SumStep
<1> SUFFICES ASSUME S \in Differ PROVE FALSE
  OBVIOUS
<1>3. (\A A \in Differ : A \subseteq S) /\ Differ # {}
  OBVIOUS
<1>4. PICK A \in Differ : \A B \in Differ : B \subseteq A => B = A
  <2> HIDE DEF Differ
  <2> QED
    BY <1>3, MinimalSubset
<1>5. A # {} /\ A \in SUBSET S
  BY <1>2
<1>6. A \ {Chosen(A)} \notin Differ
  BY <1>4, <1>5, ChosenIsMember
<1>7. g[A \ {Chosen(A)}] = h[A \ {Chosen(A)}]
  BY <1>5, <1>6
<1> QED
  BY <1>1, <1>4, <1>5, <1>7

\* The members of a family of sets, each with the index of its set.
Union(family, s) == UNION {{b} \X family[b] : b \in s}

LEMMA UnionMember ==
  ASSUME NEW family, NEW s, NEW v
  PROVE  v \in Union(family, s) <=> \E b \in s : \E x \in family[b] : v = <<b, x>>
BY DEF Union

LEMMA UnionIsFinite ==
  ASSUME NEW S, IsFiniteSet(S), NEW family, \A b \in S : IsFiniteSet(family[b])
  PROVE  IsFiniteSet(Union(family, S))
<1> DEFINE T == {{b} \X family[b] : b \in S}
           image == [b \in S |-> {b} \X family[b]]
<1>1. image \in Surjection(S, T)
  BY DEF Surjection
<1>2. IsFiniteSet(T)
  <2> HIDE DEF image, T
  <2> QED
    BY <1>1, FS_Surjection
<1>3. \A A \in T : IsFiniteSet(A)
  <2> SUFFICES ASSUME NEW b \in S PROVE IsFiniteSet({b} \X family[b])
    OBVIOUS
  <2>1. IsFiniteSet({b}) /\ IsFiniteSet(family[b])
    BY FS_Singleton
  <2> QED
    BY <2>1, FS_Product
<1> QED
  BY <1>2, <1>3, FS_UNION DEF Union

(***************************************************************************)
(* The sizes of the sets of a family sum up to the size of their disjoint  *)
(* union: taking one set away from the union takes away its size.          *)
(***************************************************************************)
LEMMA SizesSumUp ==
  ASSUME NEW S, IsFiniteSet(S), NEW family, \A b \in S : IsFiniteSet(family[b]),
         NEW W, W = [s \in SUBSET S |-> Cardinality(Union(family, s))]
  PROVE  W = SumStep([b \in S |-> Cardinality(family[b])], S, W)
<1> DEFINE f == [b \in S |-> Cardinality(family[b])]
<1> SUFFICES ASSUME NEW s \in SUBSET S
             PROVE  W[s] = IF s = {} THEN 0 ELSE f[Chosen(s)] + W[s \ {Chosen(s)}]
  BY DEF SumStep
<1>1. CASE s = {}
  <2>1. Union(family, {}) = {}
    BY DEF Union
  <2> QED
    BY <1>1, <2>1, FS_EmptySet
<1>2. CASE s # {}
  <2> DEFINE b == Chosen(s)
             rest == s \ {b}
             One == {b} \X family[b]
             Rest == Union(family, rest)
  <2>1. b \in s
    BY <1>2, ChosenIsMember
  <2> HIDE DEF b
  <2>2. IsFiniteSet(Rest)
    <3>1. IsFiniteSet(rest)
      BY FS_Subset
    <3> QED
      BY <3>1, UnionIsFinite
  <2>3. IsFiniteSet(One) /\ Cardinality(One) = Cardinality(family[b])
    <3>1. IsFiniteSet({b}) /\ Cardinality({b}) = 1 /\ IsFiniteSet(family[b])
      BY <2>1, FS_Singleton
    <3>2. Cardinality(family[b]) \in Nat
      BY <3>1, FS_CardinalityType
    <3>3. IsFiniteSet(One) /\ Cardinality(One) = Cardinality({b}) * Cardinality(family[b])
      BY <3>1, FS_Product
    <3> QED
      BY <3>1, <3>2, <3>3
  <2>4. Union(family, s) = One \cup Rest /\ One \cap Rest = {}
    BY <2>1 DEF Union
  <2>5. Cardinality(Union(family, s)) = Cardinality(One) + Cardinality(Rest)
    <3>1. /\ Cardinality(One \cup Rest)
               = Cardinality(One) + Cardinality(Rest) - Cardinality(One \cap Rest)
          /\ Cardinality(One) \in Nat /\ Cardinality(Rest) \in Nat
      <4> HIDE DEF One, Rest
      <4> QED
        BY <2>2, <2>3, FS_Union, FS_CardinalityType
    <3>2. Cardinality(One \cap Rest) = 0
      <4> HIDE DEF One, Rest
      <4> QED
        BY <2>4, FS_EmptySet, Zenon
    <3>3. Cardinality(Union(family, s)) = Cardinality(One \cup Rest)
      <4> HIDE DEF One, Rest
      <4> QED
        BY <2>4, Zenon
    <3> HIDE DEF One, Rest
    <3> QED
      BY <3>1, <3>2, <3>3
  <2>6. W[s] = Cardinality(Union(family, s)) /\ W[rest] = Cardinality(Rest)
    OBVIOUS
  <2>7. f[b] = Cardinality(family[b])
    BY <2>1
  <2>8. W[s] = f[b] + W[rest]
    BY <2>3, <2>5, <2>6, <2>7
  <2> QED
    BY <1>2, <2>8 DEF b
<1> QED
  BY <1>1, <1>2

-----------------------------------------------------------------------------
(***************************************************************************)
(* Progress                                                                *)
(***************************************************************************)
LEMMA TypeCorrect == Spec => []TypeOK
<1>1. Init => TypeOK
  BY DEF Init, TypeOK
<1>2. TypeOK /\ [Next]_passedRanges => TypeOK'
  BY DEF TypeOK, Next, PassWriting
<1> QED
  BY <1>1, <1>2, PTL DEF Spec

\* What is written in a book is stored, when only stored verses are asked for.
LEMMA CoveredIsStored ==
  ASSUME RangesAreStored, TypeOK, NEW b
  PROVE  Covered(passedRanges, b) \subseteq Stored(b)
<1> SUFFICES ASSUME NEW i \in DOMAIN passedRanges, passedRanges[i].bookNo = b
             PROVE  AddressesOf(passedRanges[i]) \subseteq Stored(b)
  BY DEF Covered
<1>1. passedRanges[i] \in Ranges
  BY DEF TypeOK
<1> QED
  BY <1>1 DEF RangesAreStored

(***************************************************************************)
(* The code counts the written verses of a book and compares two numbers:  *)
(* equal numbers mean equal sets, because one set lies in the other.       *)
(***************************************************************************)
LEMMA EqualCountsAreEqualSets ==
  ASSUME RangesAreStored, TypeOK, NEW b \in CompletedBooks(passedRanges, VerseTotals)
  PROVE  Stored(b) = Covered(passedRanges, b)
<1>1. b \in DOMAIN Bible /\ VerseTotals[b] = Cardinality(Covered(passedRanges, b))
  BY DEF CompletedBooks, VerseTotals
<1>2. Cardinality(Stored(b)) = Cardinality(Covered(passedRanges, b))
  BY <1>1 DEF VerseTotals, Stored
<1>3. IsFiniteSet(Stored(b))
  BY <1>1, BibleAssumption DEF Stored
<1> QED
  BY <1>2, <1>3, CoveredIsStored, FS_Subset

\* Books shown as completed are completed.
THEOREM CompletedBooksAreCovered ==
  ASSUME RangesAreStored
  PROVE  Spec => []CompletedIsCovered
<1>1. TypeOK => CompletedIsCovered
  BY EqualCountsAreEqualSets DEF CompletedIsCovered
<1> QED
  BY <1>1, TypeCorrect, PTL

(***************************************************************************)
(* And no completed book is missed, as long as clients ask for stored      *)
(* verses: once every verse of a book is written, the numbers are equal,   *)
(* however often and in whatever overlapping ranges.  An address past the  *)
(* end of a chapter, which the code lets through, would raise one of the   *)
(* two, so that a book with every verse written is not counted.            *)
(***************************************************************************)
WrittenIsCompleted ==
    \A b \in DOMAIN Bible :
        Stored(b) # {} /\ Stored(b) \subseteq Covered(passedRanges, b) =>
            b \in CompletedBooks(passedRanges, VerseTotals)

\* When only stored verses are asked for, a book whose verses are all written is completed.
THEOREM WrittenBooksAreCompleted ==
  ASSUME RangesAreStored
  PROVE  Spec => []WrittenIsCompleted
<1>1. TypeOK => WrittenIsCompleted
  <2> SUFFICES ASSUME TypeOK, NEW b \in DOMAIN Bible, Stored(b) # {},
                      Stored(b) \subseteq Covered(passedRanges, b)
               PROVE  b \in CompletedBooks(passedRanges, VerseTotals)
    BY DEF WrittenIsCompleted
  <2>1. Covered(passedRanges, b) = Stored(b)
    BY CoveredIsStored
  <2>2. VerseTotals[b] = Cardinality(Covered(passedRanges, b)) /\ b \in DOMAIN VerseTotals
    BY <2>1 DEF VerseTotals, Stored
  <2>3. b \in BooksOf(passedRanges)
    BY <2>1 DEF Covered, BooksOf
  <2> QED
    BY <2>2, <2>3 DEF CompletedBooks
<1> QED
  BY <1>1, TypeCorrect, PTL

-----------------------------------------------------------------------------
(***************************************************************************)
(* The two sums of calculateProgress are the sizes of disjoint unions.     *)
(***************************************************************************)
LEMMA CoveredSum ==
  ASSUME NEW ranges, NEW S, IsFiniteSet(S), \A b \in S : IsFiniteSet(Covered(ranges, b))
  PROVE  MapThenSumSet(LAMBDA b : Cardinality(Covered(ranges, b)), S)
           = Cardinality(Union([b \in S |-> Covered(ranges, b)], S))
<1> DEFINE family == [b \in S |-> Covered(ranges, b)]
           f == [b \in S |-> Cardinality(family[b])]
           W == [s \in SUBSET S |-> Cardinality(Union(family, s))]
           Solves(iter) == iter = [s \in SUBSET S |->
               IF s = {} THEN 0
               ELSE Cardinality(Covered(ranges, CHOOSE x \in s : TRUE))
                       + iter[s \ {CHOOSE x \in s : TRUE}]]
<1>1. W = SumStep(f, S, W)
  <2>1. \A b \in S : IsFiniteSet(family[b])
    OBVIOUS
  <2>2. W = [s \in SUBSET S |-> Cardinality(Union(family, s))]
    OBVIOUS
  <2> HIDE DEF family, W
  <2> QED
    BY <2>1, <2>2, SizesSumUp
<1>2. ASSUME NEW g PROVE Solves(g) <=> g = SumStep(f, S, g)
  <2>1. \A s \in SUBSET S : s # {} =>
          f[Chosen(s)] = Cardinality(Covered(ranges, CHOOSE x \in s : TRUE))
    <3> SUFFICES ASSUME NEW s \in SUBSET S, s # {}
                 PROVE  f[Chosen(s)] = Cardinality(Covered(ranges, Chosen(s)))
      BY DEF Chosen
    <3>1. Chosen(s) \in S
      BY ChosenIsMember
    <3> HIDE DEF f
    <3> QED
      BY <3>1 DEF f
  <2> HIDE DEF f
  <2> QED
    BY <2>1 DEF SumStep, Chosen
<1> DEFINE iter == CHOOSE g : Solves(g)
<1>3. iter = SumStep(f, S, iter)
  <2> HIDE DEF W, f, Solves
  <2>1. Solves(W)
    BY <1>1, <1>2
  <2>2. Solves(iter)
    BY <2>1
  <2> QED
    BY <1>2, <2>2
<1>4. iter[S] = W[S]
  <2> HIDE DEF W, f, Solves, iter
  <2> QED
    BY <1>1, <1>3, SumIsUnique
<1>5. MapThenSumSet(LAMBDA b : Cardinality(Covered(ranges, b)), S) = iter[S]
  BY DEF MapThenSumSet, MapThenFoldSet
<1>6. W[S] = Cardinality(Union(family, S))
  OBVIOUS
<1> QED
  <2> HIDE DEF iter, W, f
  <2> QED
    BY <1>4, <1>5, <1>6

LEMMA TotalsSum ==
  MapThenSumSet(LAMBDA b : VerseTotals[b], DOMAIN VerseTotals) = Cardinality(Verses)
<1> DEFINE S == DOMAIN Bible
           W == [s \in SUBSET S |-> Cardinality(Union(Bible, s))]
           Solves(g) == g = [s \in SUBSET S |->
               IF s = {} THEN 0
               ELSE VerseTotals[CHOOSE x \in s : TRUE] + g[s \ {CHOOSE x \in s : TRUE}]]
           iter == CHOOSE g : Solves(g)
<1>1. W = SumStep([b \in S |-> Cardinality(Bible[b])], S, W)
  <2>1. W = [s \in SUBSET S |-> Cardinality(Union(Bible, s))]
    OBVIOUS
  <2>2. IsFiniteSet(S) /\ \A b \in S : IsFiniteSet(Bible[b])
    BY BibleAssumption
  <2> HIDE DEF W, S
  <2> QED
    BY <2>1, <2>2, SizesSumUp
<1>2. W = SumStep(VerseTotals, S, W)
  BY <1>1 DEF VerseTotals
<1>3. \A g : Solves(g) <=> g = SumStep(VerseTotals, S, g)
  BY DEF SumStep, Chosen
<1>4. iter = SumStep(VerseTotals, S, iter)
  <2> HIDE DEF W, Solves
  <2> QED
    BY <1>2, <1>3
<1>5. iter[S] = W[S]
  <2> HIDE DEF W, iter
  <2> QED
    BY <1>2, <1>4, SumIsUnique, BibleAssumption
<1>6. MapThenSumSet(LAMBDA b : VerseTotals[b], DOMAIN VerseTotals) = iter[S]
  <2>1. DOMAIN VerseTotals = S
    BY DEF VerseTotals
  <2> QED
    BY <2>1 DEF MapThenSumSet, MapThenFoldSet
<1>7. W[S] = Cardinality(Verses)
  BY DEF Union, Verses
<1> QED
  <2> HIDE DEF iter, W
  <2> QED
    BY <1>5, <1>6, <1>7

\* The books that passed writings are in, and what is written of each, are finitely many.
LEMMA WrittenIsFinite ==
  ASSUME RangesAreStored, TypeOK
  PROVE  /\ IsFiniteSet(BooksOf(passedRanges))
         /\ \A b : IsFiniteSet(Covered(passedRanges, b))
<1>1. IsFiniteSet(BooksOf(passedRanges))
  <2> DEFINE bookOf == [i \in DOMAIN passedRanges |-> passedRanges[i].bookNo]
  <2>1. bookOf \in Surjection(DOMAIN passedRanges, BooksOf(passedRanges))
    BY DEF Surjection, BooksOf
  <2>2. IsFiniteSet(DOMAIN passedRanges)
    <3>1. DOMAIN passedRanges = 1..Len(passedRanges) /\ Len(passedRanges) \in Nat
      BY DEF TypeOK
    <3> QED
      BY <3>1, FS_Interval
  <2> HIDE DEF bookOf
  <2> QED
    BY <2>1, <2>2, FS_Surjection
<1>2. ASSUME NEW b PROVE IsFiniteSet(Covered(passedRanges, b))
  <2>1. IsFiniteSet(Stored(b))
    BY BibleAssumption, FS_EmptySet DEF Stored
  <2> QED
    BY <2>1, CoveredIsStored, FS_Subset
<1> QED
  BY <1>1, <1>2

LEMMA VersesMember ==
  ASSUME NEW v
  PROVE  v \in Verses <=> \E b \in DOMAIN Bible : \E x \in Bible[b] : v = <<b, x>>
BY DEF Verses

\* A stored verse is written when its address is among those written in its book.
LEMMA WrittenIsCovered ==
  ASSUME TypeOK, NEW b \in DOMAIN Bible, NEW x \in Bible[b]
  PROVE  Written(<<b, x>>) <=> x \in Covered(passedRanges, b)
<1>1. PICK c \in Nat, n \in Nat : x = <<c, n>>
  BY BibleAssumption
<1>2. ASSUME NEW i \in DOMAIN passedRanges
      PROVE  <<c, n>> \in AddressesOf(passedRanges[i]) <=>
               /\ passedRanges[i].chapter = c
               /\ passedRanges[i].startVerseNo <= n
               /\ passedRanges[i].endVerseNo >= n
  <2>1. passedRanges[i] \in [bookNo : Nat, chapter : Nat, startVerseNo : Nat, endVerseNo : Nat]
    BY RangesAssumption DEF TypeOK
  <2> QED
    BY <2>1 DEF AddressesOf
<1>3. Written(<<b, x>>) <=> \E i \in DOMAIN passedRanges :
          passedRanges[i].bookNo = b /\ x \in AddressesOf(passedRanges[i])
  BY <1>1, <1>2 DEF Written
<1> QED
  BY <1>3 DEF Covered

\* What is counted book by book is the set of the written verses.
LEMMA CoveredAreWritten ==
  ASSUME RangesAreStored, TypeOK
  PROVE  Union([b \in BooksOf(passedRanges) |-> Covered(passedRanges, b)],
               BooksOf(passedRanges))
           = {v \in Verses : Written(v)}
<1> DEFINE Books == BooksOf(passedRanges)
           family == [b \in Books |-> Covered(passedRanges, b)]
<1>1. ASSUME NEW v \in Union(family, Books) PROVE v \in Verses /\ Written(v)
  <2>0. PICK b \in Books : \E x \in family[b] : v = <<b, x>>
    BY UnionMember
  <2>1. PICK x \in Covered(passedRanges, b) : v = <<b, x>>
    BY <2>0
  <2>2. b \in DOMAIN Bible /\ x \in Bible[b]
    BY CoveredIsStored DEF Stored
  <2> QED
    BY <2>1, <2>2, VersesMember, WrittenIsCovered
<1>2. ASSUME NEW v \in Verses, Written(v) PROVE v \in Union(family, Books)
  <2>0. PICK b \in DOMAIN Bible : \E x \in Bible[b] : v = <<b, x>>
    BY VersesMember
  <2>1. PICK x \in Bible[b] : v = <<b, x>>
    BY <2>0
  <2>2. x \in Covered(passedRanges, b)
    BY <1>2, <2>1, WrittenIsCovered
  <2>3. b \in Books
    BY <2>2 DEF Covered, BooksOf
  <2> QED
    BY <2>1, <2>2, <2>3, UnionMember
<1> QED
  <2> HIDE DEF family, Books
  <2>1. Union(family, Books) = {v \in Verses : Written(v)}
    BY <1>1, <1>2
  <2> QED
    BY <2>1 DEF family, Books

\* A book is completed when every stored verse of it is written.
LEMMA CompletedAreWritten ==
  ASSUME RangesAreStored, TypeOK
  PROVE  CompletedBooks(passedRanges, VerseTotals)
           = {b \in DOMAIN Bible : \A v \in Verses : v[1] = b => Written(v)}
<1>1. ASSUME NEW b \in CompletedBooks(passedRanges, VerseTotals)
      PROVE  b \in DOMAIN Bible /\ \A v \in Verses : v[1] = b => Written(v)
  <2>1. b \in DOMAIN Bible
    BY DEF CompletedBooks, VerseTotals
  <2>2. Bible[b] = Covered(passedRanges, b)
    BY <2>1, EqualCountsAreEqualSets DEF Stored
  <2>3. ASSUME NEW v \in Verses, v[1] = b PROVE Written(v)
    <3>1. PICK x \in Bible[b] : v = <<b, x>>
      BY <2>3, VersesMember
    <3> QED
      BY <2>1, <2>2, <3>1, WrittenIsCovered
  <2> QED
    BY <2>1, <2>3
<1>2. ASSUME NEW b \in DOMAIN Bible, \A v \in Verses : v[1] = b => Written(v)
      PROVE  b \in CompletedBooks(passedRanges, VerseTotals)
  <2>1. \A x \in Bible[b] : x \in Covered(passedRanges, b)
    <3> SUFFICES ASSUME NEW x \in Bible[b] PROVE x \in Covered(passedRanges, b)
      OBVIOUS
    <3>1. <<b, x>> \in Verses /\ <<b, x>>[1] = b
      BY VersesMember
    <3> QED
      BY <1>2, <3>1, WrittenIsCovered
  <2>2. Covered(passedRanges, b) = Bible[b]
    BY <2>1, CoveredIsStored DEF Stored
  <2>3. b \in DOMAIN VerseTotals /\ VerseTotals[b] = Cardinality(Covered(passedRanges, b))
    BY <2>2 DEF VerseTotals
  <2>4. b \in BooksOf(passedRanges)
    BY <2>2, BibleAssumption DEF Covered, BooksOf
  <2> QED
    BY <2>3, <2>4 DEF CompletedBooks
<1> QED
  BY <1>1, <1>2 DEF CompletedBooks

LEMMA CalculationsKeepType == CalculationsSpec => []TypeOK
<1>1. CalculationsInit => TypeOK
  BY DEF CalculationsInit, Init, TypeOK
<1>2. TypeOK /\ [CalculationsNext]_<<passedRanges, candidates>> => TypeOK'
  BY DEF TypeOK, CalculationsNext, Next, PassWriting
<1> QED
  BY <1>1, <1>2, PTL DEF CalculationsSpec

(***************************************************************************)
(* The progress shown is what it says, as long as clients ask for stored   *)
(* verses: the verses counted book by book, with repetitions and overlaps  *)
(* removed, are the stored verses written at least once, and the books     *)
(* whose two numbers agree those with every verse written.                 *)
(***************************************************************************)
THEOREM ProgressShownIsExact ==
  ASSUME RangesAreStored
  PROVE  CalculationsSpec => []ProgressIsExact
<1>1. TypeOK => ProgressIsExact
  <2> SUFFICES ASSUME TypeOK PROVE ProgressIsExact
    OBVIOUS
  <2>1. MapThenSumSet(LAMBDA b : Cardinality(Covered(passedRanges, b)), BooksOf(passedRanges))
          = Cardinality({v \in Verses : Written(v)})
    BY WrittenIsFinite, CoveredSum, CoveredAreWritten
  <2> QED
    BY <2>1, TotalsSum, CompletedAreWritten
       DEF ProgressIsExact, GetMyProgress, CalculateProgress
<1> QED
  BY <1>1, CalculationsKeepType, PTL

-----------------------------------------------------------------------------
(***************************************************************************)
(* The loop of the shuffle                                                 *)
(***************************************************************************)
\* Induction downwards: what holds of m and passes from k + 1 to k holds down to l.
LEMMA DownTo ==
  ASSUME NEW l \in Nat, NEW m \in Nat, l <= m, NEW P, m \in P,
         \A k \in l..(m - 1) : k + 1 \in P => k \in P
  PROVE  \A k \in l..m : k \in P
<1> DEFINE T == {x \in 0..(m - l) : m - x \notin P}
<1> SUFFICES ASSUME T # {} PROVE FALSE
  <2> SUFFICES ASSUME NEW k \in l..m, k \notin P PROVE m - k \in T
    OBVIOUS
  <2>1. m - k \in 0..(m - l) /\ m - (m - k) = k
    OBVIOUS
  <2> QED
    BY <2>1
<1>1. PICK x \in T : \A y \in T : x <= y
  <2>1. T \in SUBSET Nat
    OBVIOUS
  <2> HIDE DEF T
  <2> QED
    BY <2>1, Least
<1>2. x \in 0..(m - l) /\ m - x \notin P
  OBVIOUS
<1>3. x # 0
  <2> SUFFICES ASSUME x = 0 PROVE FALSE
    OBVIOUS
  <2>1. m - x = m
    OBVIOUS
  <2> QED
    BY <1>2, <2>1
<1>4. x - 1 \in 0..(m - l) /\ ~(x <= x - 1)
  BY <1>2, <1>3
<1>5. m - (x - 1) \in P
  BY <1>1, <1>4
<1>6. m - x \in l..(m - 1) /\ (m - x) + 1 = m - (x - 1)
  BY <1>2, <1>3
<1> QED
  BY <1>2, <1>5, <1>6

\* The candidates as they are found, and the arrays of the loop, one before each step.
Found(n) == [i \in 0..(n - 1) |-> i + 1]

Loop(n, draw, from) ==
    [i \in 0..(n - 1) |->
        IF i = n - 1 THEN Found(n) ELSE Swap(from[i + 1], i + 1, draw[i + 1])]

Stages(n, draw) == CHOOSE from : from = Loop(n, draw, from)

\* What the loop leaves.
Result(n, draw) == Stages(n, draw)[0]

LEMMA ShuffledIsResult ==
  ASSUME NEW n, NEW draw
  PROVE  Shuffled(Found(n), n, draw) = Result(n, draw)
BY DEF Shuffled, Result, Stages, Loop

\* The loop is well defined: built from the last index downwards.
LEMMA StagesExist ==
  ASSUME NEW n \in Nat, n > 0, NEW draw
  PROVE  Stages(n, draw) = Loop(n, draw, Stages(n, draw))
<1> DEFINE Up(from, k) ==
      from = [i \in k..(n - 1) |->
                IF i = n - 1 THEN Found(n) ELSE Swap(from[i + 1], i + 1, draw[i + 1])]
           P == {k \in 0..(n - 1) : \E from : Up(from, k)}
<1>1. n - 1 \in P
  <2>1. Up([i \in (n - 1)..(n - 1) |-> Found(n)], n - 1)
    OBVIOUS
  <2> HIDE DEF Up
  <2> QED
    BY <2>1
<1>2. ASSUME NEW k \in 0..(n - 2), k + 1 \in P PROVE k \in P
  <2>1. PICK from : Up(from, k + 1)
    BY <1>2
  <2> DEFINE more == [i \in k..(n - 1) |->
                        IF i = k THEN Swap(from[k + 1], k + 1, draw[k + 1]) ELSE from[i]]
  <2>2. ASSUME NEW i \in k..(n - 1)
        PROVE  more[i] = IF i = n - 1 THEN Found(n)
                         ELSE Swap(more[i + 1], i + 1, draw[i + 1])
    <3>1. CASE i = k
      <4>1. i # n - 1 /\ i + 1 \in k..(n - 1) /\ i + 1 # k
        BY <3>1
      <4>2. more[i + 1] = from[k + 1]
        BY <3>1, <4>1
      <4> QED
        BY <3>1, <4>1, <4>2
    <3>2. CASE i # k
      <4>1. i \in (k + 1)..(n - 1)
        BY <3>2
      <4>2. from[i] = IF i = n - 1 THEN Found(n)
                      ELSE Swap(from[i + 1], i + 1, draw[i + 1])
        BY <2>1, <4>1
      <4>3. i # n - 1 => i + 1 \in k..(n - 1) /\ i + 1 # k
        BY <4>1
      <4>4. i # n - 1 => more[i + 1] = from[i + 1]
        BY <4>3
      <4>5. more[i] = from[i]
        BY <3>2
      <4> HIDE DEF more
      <4> QED
        BY <4>2, <4>4, <4>5
    <3> QED
      BY <3>1, <3>2
  <2>3. Up(more, k)
    BY <2>2
  <2> HIDE DEF Up, more
  <2> QED
    BY <2>3
<1>3. 0 \in P
  <2>1. \A k \in 0..((n - 1) - 1) : k + 1 \in P => k \in P
    <3> HIDE DEF P
    <3> QED
      BY <1>2
  <2> HIDE DEF P
  <2> QED
    BY <1>1, <2>1, DownTo
<1>4. PICK from : from = Loop(n, draw, from)
  BY <1>3 DEF Loop
<1> QED
  BY <1>4 DEF Stages

\* The stages, one by one.
LEMMA StageSteps ==
  ASSUME NEW n \in Nat, n > 0, NEW draw
  PROVE  /\ Stages(n, draw)[n - 1] = Found(n)
         /\ \A i \in 0..(n - 2) :
              Stages(n, draw)[i] = Swap(Stages(n, draw)[i + 1], i + 1, draw[i + 1])
<1> DEFINE stages == Stages(n, draw)
<1>1. stages = Loop(n, draw, stages)
  BY StagesExist
<1> HIDE DEF stages
<1>2. stages[n - 1] = Found(n)
  BY <1>1 DEF Loop
<1>3. \A i \in 0..(n - 2) : stages[i] = Swap(stages[i + 1], i + 1, draw[i + 1])
  BY <1>1 DEF Loop
<1> QED
  BY <1>2, <1>3 DEF stages

\* The arrays the loop can reach: each candidate once.
Arrangements(n) ==
    {a \in [0..(n - 1) -> 1..n] : \A i, j \in 0..(n - 1) : a[i] = a[j] => i = j}

LEMMA SwapArranges ==
  ASSUME NEW n \in Nat, NEW a \in Arrangements(n), NEW i \in 0..(n - 1), NEW j \in 0..(n - 1)
  PROVE  /\ Swap(a, i, j) \in Arrangements(n)
         /\ Swap(a, i, j)[i] = a[j]
         /\ \A p \in 0..(n - 1) : p # i /\ p # j => Swap(a, i, j)[p] = a[p]
<1> DEFINE I == 0..(n - 1)
           b == Swap(a, i, j)
<1>1. a \in [I -> 1..n] /\ \A p, q \in I : a[p] = a[q] => p = q
  BY DEF Arrangements
<1>2. i \in I /\ j \in I
  OBVIOUS
<1> HIDE DEF I
<1>3. b \in [I -> 1..n]
  BY <1>1, <1>2 DEF Swap
<1>4. b[i] = a[j] /\ b[j] = a[i] /\ \A p \in I : p # i /\ p # j => b[p] = a[p]
  BY <1>1, <1>2 DEF Swap
<1> HIDE DEF b
<1>5. \A p, q \in I : b[p] = b[q] => p = q
  BY <1>1, <1>2, <1>4
<1> QED
  BY <1>3, <1>4, <1>5 DEF I, b, Arrangements

LEMMA DrawAt ==
  ASSUME NEW n \in Nat, n > 0, NEW draw \in Draws(n), NEW k \in 0..(n - 2)
  PROVE  draw[k + 1] \in 0..(k + 1) /\ draw[k + 1] \in 0..(n - 1) /\ k + 1 \in 0..(n - 1)
<1>1. k + 1 \in 1..(n - 1) /\ 0..(k + 1) \subseteq 0..(n - 1)
  OBVIOUS
<1> QED
  BY <1>1 DEF Draws

\* Whatever is drawn, the loop only rearranges.
LEMMA StagesArrange ==
  ASSUME NEW n \in Nat, n > 0, NEW draw \in Draws(n)
  PROVE  \A k \in 0..(n - 1) : Stages(n, draw)[k] \in Arrangements(n)
<1> DEFINE P == {k \in 0..(n - 1) : Stages(n, draw)[k] \in Arrangements(n)}
<1>1. n - 1 \in P
  <2>1. Found(n) \in Arrangements(n)
    BY DEF Found, Arrangements
  <2> QED
    BY <2>1, StageSteps
<1>2. ASSUME NEW k \in 0..(n - 2), k + 1 \in P PROVE k \in P
  <2>1. Stages(n, draw)[k] = Swap(Stages(n, draw)[k + 1], k + 1, draw[k + 1])
    BY StageSteps
  <2>2. Swap(Stages(n, draw)[k + 1], k + 1, draw[k + 1]) \in Arrangements(n)
    BY <1>2, DrawAt, SwapArranges
  <2> QED
    BY <2>1, <2>2
<1>3. \A k \in 0..((n - 1) - 1) : k + 1 \in P => k \in P
  <2> HIDE DEF P
  <2> QED
    BY <1>2
<1>4. \A k \in 0..(n - 1) : k \in P
  <2> HIDE DEF P
  <2> QED
    BY <1>1, <1>3, DownTo
<1> QED
  BY <1>4

\* Step k + 1 decides what comes to position k + 1 and leaves the positions behind it.
LEMMA StepAt ==
  ASSUME NEW n \in Nat, n > 0, NEW draw \in Draws(n), NEW k \in 0..(n - 2)
  PROVE  /\ Stages(n, draw)[k][k + 1] = Stages(n, draw)[k + 1][draw[k + 1]]
         /\ \A p \in (k + 2)..(n - 1) : Stages(n, draw)[k][p] = Stages(n, draw)[k + 1][p]
<1> DEFINE before == Stages(n, draw)[k + 1]
<1>1. Stages(n, draw)[k] = Swap(before, k + 1, draw[k + 1])
  BY StageSteps
<1>2. draw[k + 1] \in 0..(k + 1) /\ draw[k + 1] \in 0..(n - 1) /\ k + 1 \in 0..(n - 1)
  BY DrawAt
<1>3. before \in Arrangements(n)
  BY <1>2, StagesArrange
<1> HIDE DEF before
<1>4. /\ Swap(before, k + 1, draw[k + 1])[k + 1] = before[draw[k + 1]]
      /\ \A p \in 0..(n - 1) : p # k + 1 /\ p # draw[k + 1] =>
           Swap(before, k + 1, draw[k + 1])[p] = before[p]
  BY <1>2, <1>3, SwapArranges
<1>5. \A p \in (k + 2)..(n - 1) : p \in 0..(n - 1) /\ p # k + 1 /\ p # draw[k + 1]
  BY <1>2
<1> QED
  BY <1>1, <1>4, <1>5 DEF before

\* So a position keeps what its step gave it.
LEMMA PositionIsFinal ==
  ASSUME NEW n \in Nat, n > 0, NEW draw \in Draws(n), NEW k \in 0..(n - 2)
  PROVE  Result(n, draw)[k + 1] = Stages(n, draw)[k + 1][draw[k + 1]]
<1> DEFINE P == {i \in 0..k : Stages(n, draw)[i][k + 1] = Stages(n, draw)[k][k + 1]}
<1>1. k \in P
  OBVIOUS
<1>2. ASSUME NEW i \in 0..(k - 1), i + 1 \in P PROVE i \in P
  <2>1. i \in 0..(n - 2) /\ k + 1 \in (i + 2)..(n - 1)
    OBVIOUS
  <2>2. Stages(n, draw)[i][k + 1] = Stages(n, draw)[i + 1][k + 1]
    BY <2>1, StepAt
  <2> QED
    BY <1>2, <2>2
<1>3. 0 \in P
  <2> HIDE DEF P
  <2> QED
    BY <1>1, <1>2, DownTo
<1> QED
  BY <1>3, StepAt DEF Result

\* Stage k depends only on the draws above k.
LEMMA StageDependsAbove ==
  ASSUME NEW n \in Nat, n > 0, NEW d, NEW e, NEW k \in 0..(n - 1),
         \A j \in (k + 1)..(n - 1) : d[j] = e[j]
  PROVE  Stages(n, d)[k] = Stages(n, e)[k]
<1> DEFINE P == {i \in k..(n - 1) : Stages(n, d)[i] = Stages(n, e)[i]}
<1>1. n - 1 \in P
  BY StageSteps
<1>2. ASSUME NEW i \in k..((n - 1) - 1), i + 1 \in P PROVE i \in P
  <2>1. i \in 0..(n - 2) /\ i + 1 \in (k + 1)..(n - 1)
    OBVIOUS
  <2>2. /\ Stages(n, d)[i] = Swap(Stages(n, d)[i + 1], i + 1, d[i + 1])
        /\ Stages(n, e)[i] = Swap(Stages(n, e)[i + 1], i + 1, e[i + 1])
    BY <2>1, StageSteps
  <2>3. Stages(n, d)[i + 1] = Stages(n, e)[i + 1] /\ d[i + 1] = e[i + 1]
    BY <1>2, <2>1
  <2> QED
    BY <2>2, <2>3
<1>3. k \in P
  <2> HIDE DEF P
  <2> QED
    BY <1>1, <1>2, DownTo
<1> QED
  BY <1>3

(***************************************************************************)
(* Different draws give different results: what stands at position k + 1   *)
(* in the end tells what was drawn in step k + 1, from the last downwards. *)
(***************************************************************************)
LEMMA ResultsDiffer ==
  ASSUME NEW n \in Nat, n > 0, NEW d \in Draws(n), NEW e \in Draws(n),
         Result(n, d) = Result(n, e)
  PROVE  d = e
<1> DEFINE P == {k \in 0..(n - 1) : \A j \in (k + 1)..(n - 1) : d[j] = e[j]}
<1>1. n - 1 \in P
  OBVIOUS
<1>2. ASSUME NEW k \in 0..((n - 1) - 1), k + 1 \in P PROVE k \in P
  <2> DEFINE before == Stages(n, d)[k + 1]
  <2>1. k \in 0..(n - 2) /\ k + 1 \in 0..(n - 1)
    OBVIOUS
  <2>2. before = Stages(n, e)[k + 1]
    BY <1>2, <2>1, StageDependsAbove
  <2>3. Result(n, d)[k + 1] = before[d[k + 1]] /\ Result(n, e)[k + 1] = before[e[k + 1]]
    BY <2>1, <2>2, PositionIsFinal
  <2>4. before \in Arrangements(n)
    BY <2>1, StagesArrange
  <2>5. d[k + 1] = e[k + 1]
    <3>1. d[k + 1] \in 0..(n - 1) /\ e[k + 1] \in 0..(n - 1)
      BY <2>1, DrawAt
    <3> HIDE DEF before
    <3> QED
      BY <2>3, <2>4, <3>1 DEF Arrangements
  <2>6. \A j \in (k + 1)..(n - 1) : j = k + 1 \/ j \in ((k + 1) + 1)..(n - 1)
    OBVIOUS
  <2> QED
    BY <1>2, <2>1, <2>5, <2>6
<1>3. 0 \in P
  <2> HIDE DEF P
  <2> QED
    BY <1>1, <1>2, DownTo
<1>4. \A j \in 1..(n - 1) : d[j] = e[j]
  BY <1>3
<1> QED
  BY <1>4 DEF Draws

\* As many positions as candidates: each candidate has one.
LEMMA EachIsPlaced ==
  ASSUME NEW n \in Nat, NEW a \in Arrangements(n), NEW c \in 1..n
  PROVE  \E i \in 0..(n - 1) : a[i] = c
<1> DEFINE I == 0..(n - 1)
           J == 1..n
<1>1. IsFiniteSet(J) /\ Cardinality(I) = Cardinality(J)
  BY FS_Interval
<1>2. a \in Injection(I, J)
  BY DEF Arrangements, Injection, IsInjective
<1>3. a \in Surjection(I, J)
  <2> HIDE DEF I, J
  <2> QED
    BY <1>1, <1>2, FS_Injection
<1> QED
  BY <1>3 DEF Surjection

(***************************************************************************)
(* Every arrangement is a result: draw, for each position from the last    *)
(* downwards, the place where its candidate stands; that place is not      *)
(* behind the position, where the candidates are already others.           *)
(***************************************************************************)
LEMMA ResultsReachAll ==
  ASSUME NEW n \in Nat, n > 0, NEW a \in Arrangements(n)
  PROVE  \E draw \in Draws(n) : Result(n, draw) = a
<1> DEFINE P == {k \in 0..(n - 1) :
                   \E d \in Draws(n) : \A p \in (k + 1)..(n - 1) : Stages(n, d)[k][p] = a[p]}
<1>1. n - 1 \in P
  <2>1. [i \in 1..(n - 1) |-> 0] \in Draws(n)
    BY DEF Draws
  <2> QED
    BY <2>1
<1>2. ASSUME NEW k \in 0..((n - 1) - 1), k + 1 \in P PROVE k \in P
  <2>1. k \in 0..(n - 2) /\ k + 1 \in 0..(n - 1) /\ k + 1 \in 1..(n - 1)
    OBVIOUS
  <2>2. PICK d \in Draws(n) :
          \A p \in ((k + 1) + 1)..(n - 1) : Stages(n, d)[k + 1][p] = a[p]
    BY <1>2
  <2> DEFINE before == Stages(n, d)[k + 1]
  <2>3. before \in Arrangements(n)
    BY <2>1, StagesArrange
  <2>4. \A p \in (k + 2)..(n - 1) : before[p] = a[p]
    BY <2>2
  <2> HIDE DEF before
  <2>5. PICK j \in 0..(n - 1) : before[j] = a[k + 1]
    <3>1. a[k + 1] \in 1..n
      BY <2>1 DEF Arrangements
    <3> QED
      BY <2>3, <3>1, EachIsPlaced
  <2>6. j \in 0..(k + 1)
    <3> SUFFICES ASSUME j > k + 1 PROVE FALSE
      BY <2>5
    <3>1. j \in (k + 2)..(n - 1)
      OBVIOUS
    <3>2. a[j] = a[k + 1]
      BY <2>4, <2>5, <3>1
    <3>3. j = k + 1
      BY <2>1, <3>2 DEF Arrangements
    <3> QED
      BY <3>3
  <2> DEFINE e == [d EXCEPT ![k + 1] = j]
  <2>7. e \in Draws(n) /\ e[k + 1] = j
    <3>1. d \in [1..(n - 1) -> 0..(n - 1)] /\ \A i \in 1..(n - 1) : d[i] \in 0..i
      BY DEF Draws
    <3>2. /\ e \in [1..(n - 1) -> 0..(n - 1)] /\ e[k + 1] = j
          /\ \A i \in 1..(n - 1) : i # k + 1 => e[i] = d[i]
      BY <2>1, <3>1
    <3>3. \A i \in 1..(n - 1) : e[i] \in 0..i
      BY <2>6, <3>1, <3>2
    <3> HIDE DEF e
    <3> QED
      BY <3>2, <3>3 DEF Draws
  <2>8. Stages(n, e)[k + 1] = before
    <3>1. \A i \in ((k + 1) + 1)..(n - 1) : e[i] = d[i]
      BY DEF Draws
    <3> HIDE DEF e
    <3> QED
      BY <2>1, <3>1, StageDependsAbove DEF before
  <2> HIDE DEF e
  <2>9. /\ Stages(n, e)[k][k + 1] = before[j]
        /\ \A p \in (k + 2)..(n - 1) : Stages(n, e)[k][p] = before[p]
    BY <2>1, <2>7, <2>8, StepAt
  <2>10. \A p \in (k + 1)..(n - 1) : Stages(n, e)[k][p] = a[p]
    <3>1. \A p \in (k + 1)..(n - 1) : p = k + 1 \/ p \in (k + 2)..(n - 1)
      OBVIOUS
    <3> QED
      BY <2>4, <2>5, <2>9, <3>1
  <2> QED
    BY <2>1, <2>7, <2>10
<1>3. 0 \in P
  <2> HIDE DEF P
  <2> QED
    BY <1>1, <1>2, DownTo
<1>4. PICK d \in Draws(n) : \A p \in 1..(n - 1) : Stages(n, d)[0][p] = a[p]
  BY <1>3
<1> DEFINE b == Result(n, d)
<1>5. b \in Arrangements(n) /\ \A p \in 1..(n - 1) : b[p] = a[p]
  BY <1>4, StagesArrange DEF Result
<1> HIDE DEF b
<1>6. b[0] = a[0]
  <2>1. a[0] \in 1..n /\ 0 \in 0..(n - 1)
    BY DEF Arrangements
  <2>2. PICK q \in 0..(n - 1) : b[q] = a[0]
    BY <1>5, <2>1, EachIsPlaced
  <2>3. q = 0
    <3> SUFFICES ASSUME q # 0 PROVE FALSE
      OBVIOUS
    <3>1. q \in 1..(n - 1)
      OBVIOUS
    <3>2. a[q] = a[0]
      BY <1>5, <2>2, <3>1
    <3> QED
      BY <2>1, <3>2 DEF Arrangements
  <2> QED
    BY <2>2, <2>3
<1>7. b = a
  <2>1. \A p \in 0..(n - 1) : p = 0 \/ p \in 1..(n - 1)
    OBVIOUS
  <2>2. \A p \in 0..(n - 1) : b[p] = a[p]
    BY <1>5, <1>6, <2>1
  <2> QED
    BY <1>5, <2>2 DEF Arrangements
<1> QED
  BY <1>7 DEF b

-----------------------------------------------------------------------------
(***************************************************************************)
(* Counting the draws                                                      *)
(***************************************************************************)
\* The functions between finite sets are finitely many.
LEMMA FunctionsAreFinite ==
  ASSUME NEW S, NEW T, IsFiniteSet(S), IsFiniteSet(T)
  PROVE  IsFiniteSet([S -> T])
<1> DEFINE Pairs(f) == {<<x, f[x]>> : x \in S}
           graph == [f \in [S -> T] |-> Pairs(f)]
<1>1. IsFiniteSet(SUBSET (S \X T))
  BY FS_Product, FS_SUBSET
<1>2. ASSUME NEW f \in [S -> T], NEW g \in [S -> T], Pairs(f) = Pairs(g) PROVE f = g
  <2>1. ASSUME NEW x \in S PROVE f[x] = g[x]
    <3>1. <<x, f[x]>> \in Pairs(g)
      BY <1>2
    <3> QED
      BY <3>1
  <2> QED
    BY <2>1
<1>3. graph \in Injection([S -> T], SUBSET (S \X T))
  <2>1. \A f \in [S -> T] : Pairs(f) \in SUBSET (S \X T)
    OBVIOUS
  <2> HIDE DEF Pairs
  <2> QED
    BY <1>2, <2>1 DEF Injection, IsInjective
<1> HIDE DEF graph
<1> QED
  BY <1>1, <1>3, FS_Injection

\* The answers that could be asked for: some candidates, each once, in an order.
Selections(n) ==
    {list \in [ShownIndexes(n) -> 1..n] :
        \A i, j \in ShownIndexes(n) : i # j => list[i] # list[j]}

\* The draws that give an answer.
DrawsOf(n, list) == {draw \in Draws(n) : Recommended(n, draw) = list}

LEMMA ShownArePositions ==
  ASSUME NEW n \in Nat
  PROVE  ShownIndexes(n) \subseteq 0..(n - 1) /\ IsFiniteSet(ShownIndexes(n))
<1>1. Min2(n, RECOMMENDATION_COUNT) \in Int /\ Min2(n, RECOMMENDATION_COUNT) <= n
  BY CandidatesAssumption DEF Min2
<1> QED
  BY <1>1, FS_Interval DEF ShownIndexes

LEMMA DrawsAreFinite ==
  ASSUME NEW n \in Nat
  PROVE  IsFiniteSet(Draws(n)) /\ IsFiniteSet(Selections(n))
<1> DEFINE I == 1..(n - 1)
           J == 0..(n - 1)
           C == 1..n
<1>0. /\ IsFiniteSet(I) /\ IsFiniteSet(J) /\ IsFiniteSet(C)
      /\ IsFiniteSet(ShownIndexes(n))
  BY FS_Interval, ShownArePositions
<1> HIDE DEF I, J, C
<1>1. IsFiniteSet([I -> J])
  BY <1>0, FunctionsAreFinite
<1>2. IsFiniteSet([ShownIndexes(n) -> C])
  BY <1>0, FunctionsAreFinite
<1> USE DEF I, J, C
<1>3. Draws(n) \in SUBSET [1..(n - 1) -> 0..(n - 1)]
  BY DEF Draws
<1>4. Selections(n) \in SUBSET [ShownIndexes(n) -> 1..n]
  BY DEF Selections
<1> QED
  BY <1>1, <1>2, <1>3, <1>4, FS_Subset

LEMMA RecommendedIsShown ==
  ASSUME NEW n \in Nat, n > 0, NEW draw \in Draws(n)
  PROVE  /\ Recommended(n, draw) = [i \in ShownIndexes(n) |-> Result(n, draw)[i]]
         /\ Recommended(n, draw) \in Selections(n)
         /\ Result(n, draw) \in Arrangements(n)
<1>1. Recommended(n, draw) = [i \in ShownIndexes(n) |-> Result(n, draw)[i]]
  BY ShuffledIsResult DEF Recommended, Found
<1>2. Result(n, draw) \in Arrangements(n)
  BY StagesArrange DEF Result
<1>3. [i \in ShownIndexes(n) |-> Result(n, draw)[i]] \in Selections(n)
  BY <1>2, ShownArePositions DEF Selections, Arrangements
<1> QED
  BY <1>1, <1>2, <1>3

\* A renaming of the candidates by which one selection becomes the other.
Renames(n, sigma, L, M) ==
    /\ sigma \in [1..n -> 1..n]
    /\ \A x, y \in 1..n : sigma[x] = sigma[y] => x = y
    /\ \A i \in ShownIndexes(n) : sigma[L[i]] = M[i]

LEMMA Renaming ==
  ASSUME NEW n \in Nat, NEW L \in Selections(n), NEW M \in Selections(n)
  PROVE  \E sigma : Renames(n, sigma, L, M)
<1> DEFINE I == ShownIndexes(n)
           J == 1..n
           LS == {L[i] : i \in I}
           MS == {M[i] : i \in I}
<1>1. /\ L \in [I -> J] /\ \A i, j \in I : L[i] = L[j] => i = j
      /\ M \in [I -> J] /\ \A i, j \in I : M[i] = M[j] => i = j
  BY DEF Selections
<1>2. IsFiniteSet(J) /\ IsFiniteSet(I)
  BY FS_Interval, ShownArePositions
<1> HIDE DEF I, J
<1>3. L \in Bijection(I, LS) /\ M \in Bijection(I, MS)
  <2>1. L \in Injection(I, LS) /\ M \in Injection(I, MS)
    BY <1>1 DEF Injection, IsInjective
  <2>2. L \in Surjection(I, LS) /\ M \in Surjection(I, MS)
    BY <1>1 DEF Surjection
  <2> QED
    BY <2>1, <2>2 DEF Bijection
<1>4. LS \subseteq J /\ MS \subseteq J
  BY <1>1
<1> HIDE DEF LS, MS
<1>5. Cardinality(LS) = Cardinality(MS)
  BY <1>2, <1>3, FS_Bijection DEF ExistsBijection
<1>6. /\ IsFiniteSet(J \ LS) /\ IsFiniteSet(J \ MS)
      /\ Cardinality(J \ LS) = Cardinality(J \ MS)
  <2>1. J \cap LS = LS /\ J \cap MS = MS
    BY <1>4
  <2>2. /\ IsFiniteSet(J \ LS) /\ Cardinality(J \ LS) = Cardinality(J) - Cardinality(J \cap LS)
        /\ IsFiniteSet(J \ MS) /\ Cardinality(J \ MS) = Cardinality(J) - Cardinality(J \cap MS)
    BY <1>2, FS_Difference
  <2>3. Cardinality(J \cap LS) = Cardinality(J \cap MS)
    BY <1>5, <2>1, Zenon
  <2> QED
    BY <2>2, <2>3
<1>7. PICK tau : tau \in Bijection(J \ LS, J \ MS)
  BY <1>6, FS_SameCardinalityBij DEF ExistsBijection
<1>8. tau \in [J \ LS -> J \ MS] /\ \A x, y \in J \ LS : tau[x] = tau[y] => x = y
  BY <1>7 DEF Bijection, Injection, IsInjective
<1> DEFINE at(x) == CHOOSE i \in I : L[i] = x
           sigma == [x \in J |-> IF x \in LS THEN M[at(x)] ELSE tau[x]]
<1>9. \A x \in LS : at(x) \in I /\ L[at(x)] = x
  BY DEF LS
<1>10. \A x \in LS : M[at(x)] \in MS
  <2> HIDE DEF at
  <2> QED
    BY <1>9 DEF MS
<1>11. \A i \in I : L[i] \in LS /\ L[i] \in J /\ at(L[i]) = i
  <2>1. \A i \in I : L[i] \in LS /\ L[i] \in J
    BY <1>1 DEF LS
  <2> HIDE DEF at
  <2> QED
    BY <1>1, <1>9, <2>1
<1> HIDE DEF at
<1>12. sigma \in [J -> J]
  BY <1>4, <1>8, <1>10
<1>13. \A i \in I : sigma[L[i]] = M[i]
  BY <1>11
<1>14. ASSUME NEW x \in J, NEW y \in J, sigma[x] = sigma[y] PROVE x = y
  <2>1. CASE x \in LS /\ y \in LS
    <3>1. M[at(x)] = M[at(y)]
      BY <1>14, <2>1
    <3>2. at(x) = at(y)
      BY <1>1, <1>9, <2>1, <3>1
    <3> QED
      BY <1>9, <2>1, <3>2
  <2>2. CASE x \notin LS /\ y \notin LS
    BY <1>8, <1>14, <2>2
  <2>3. CASE x \in LS /\ y \notin LS
    BY <1>8, <1>10, <1>14, <2>3
  <2>4. CASE x \notin LS /\ y \in LS
    BY <1>8, <1>10, <1>14, <2>4
  <2> QED
    BY <2>1, <2>2, <2>3, <2>4
<1> HIDE DEF sigma
<1> QED
  BY <1>12, <1>13, <1>14 DEF I, J, Renames

(***************************************************************************)
(* No answer has more draws than another: renaming the candidates turns    *)
(* the results of one into results of the other.                           *)
(***************************************************************************)
LEMMA NoAnswerIsFavoured ==
  ASSUME NEW n \in Nat, n > 0, NEW L \in Selections(n), NEW M \in Selections(n)
  PROVE  \E f : f \in Injection(DrawsOf(n, L), DrawsOf(n, M))
<1> DEFINE N == 0..(n - 1)
           J == 1..n
<1>0. PICK sigma : Renames(n, sigma, L, M)
  BY Renaming
<1>1. /\ sigma \in [J -> J]
      /\ \A x, y \in J : sigma[x] = sigma[y] => x = y
      /\ \A i \in ShownIndexes(n) : sigma[L[i]] = M[i]
  BY <1>0 DEF Renames
<1> DEFINE renamed(d) == [i \in N |-> sigma[Result(n, d)[i]]]
           f == [d \in DrawsOf(n, L) |-> CHOOSE e \in Draws(n) : Result(n, e) = renamed(d)]
<1>2. ASSUME NEW d \in DrawsOf(n, L)
      PROVE  /\ f[d] \in Draws(n) /\ Result(n, f[d]) = renamed(d)
             /\ Result(n, d) \in [N -> J]
  <2>1. d \in Draws(n)
    BY DEF DrawsOf
  <2>2. Result(n, d) \in Arrangements(n)
    BY <2>1, RecommendedIsShown
  <2>3. Result(n, d) \in [N -> J] /\ \A i, j \in N : Result(n, d)[i] = Result(n, d)[j] => i = j
    BY <2>2 DEF Arrangements
  <2>4. renamed(d) \in Arrangements(n)
    <3>1. renamed(d) \in [N -> J]
      BY <1>1, <2>3
    <3>2. \A i, j \in N : renamed(d)[i] = renamed(d)[j] => i = j
      <4> HIDE DEF N, J
      <4> QED
        BY <1>1, <2>3
    <3> HIDE DEF renamed
    <3> QED
      BY <3>1, <3>2 DEF Arrangements
  <2> HIDE DEF renamed
  <2>5. \E e \in Draws(n) : Result(n, e) = renamed(d)
    BY <2>4, ResultsReachAll
  <2> QED
    BY <2>3, <2>5
<1>3. ASSUME NEW d \in DrawsOf(n, L) PROVE f[d] \in DrawsOf(n, M)
  <2>1. f[d] \in Draws(n) /\ Result(n, f[d]) = renamed(d)
    BY <1>2
  <2>2. d \in Draws(n) /\ Recommended(n, d) = L
    BY DEF DrawsOf
  <2> HIDE DEF f
  <2>3. \A i \in ShownIndexes(n) : L[i] = Result(n, d)[i]
    BY <2>2, RecommendedIsShown
  <2>4. \A i \in ShownIndexes(n) : Result(n, f[d])[i] = M[i]
    <3> SUFFICES ASSUME NEW i \in ShownIndexes(n) PROVE Result(n, f[d])[i] = M[i]
      OBVIOUS
    <3>1. i \in N
      BY ShownArePositions
    <3>2. Result(n, f[d])[i] = sigma[L[i]]
      BY <2>1, <2>3, <3>1
    <3> QED
      BY <1>1, <3>2
  <2>5. Recommended(n, f[d]) = [i \in ShownIndexes(n) |-> Result(n, f[d])[i]]
    BY <2>1, RecommendedIsShown
  <2>6. M = [i \in ShownIndexes(n) |-> M[i]]
    BY DEF Selections
  <2>7. Recommended(n, f[d]) = M
    BY <2>4, <2>5, <2>6
  <2> QED
    BY <2>1, <2>7 DEF DrawsOf
<1>4. ASSUME NEW d \in DrawsOf(n, L), NEW e \in DrawsOf(n, L), f[d] = f[e] PROVE d = e
  <2>1. renamed(d) = renamed(e)
    <3>1. Result(n, f[d]) = renamed(d) /\ Result(n, f[e]) = renamed(e)
      BY <1>2
    <3> HIDE DEF f, renamed
    <3> QED
      BY <1>4, <3>1
  <2> HIDE DEF f
  <2>2. Result(n, d) \in [N -> J] /\ Result(n, e) \in [N -> J]
    BY <1>2
  <2>3. ASSUME NEW i \in N PROVE Result(n, d)[i] = Result(n, e)[i]
    <3>1. sigma[Result(n, d)[i]] = renamed(d)[i] /\ sigma[Result(n, e)[i]] = renamed(e)[i]
      OBVIOUS
    <3>2. sigma[Result(n, d)[i]] = sigma[Result(n, e)[i]]
      <4> HIDE DEF renamed
      <4> QED
        BY <2>1, <3>1
    <3>3. Result(n, d)[i] \in J /\ Result(n, e)[i] \in J
      BY <2>2
    <3> HIDE DEF J, N
    <3> QED
      BY <1>1, <3>2, <3>3
  <2>4. Result(n, d) = Result(n, e)
    <3> HIDE DEF N, J
    <3> QED
      BY <2>2, <2>3
  <2> QED
    BY <2>4, ResultsDiffer DEF DrawsOf
<1>5. f \in [DrawsOf(n, L) -> DrawsOf(n, M)]
  BY <1>3
<1> HIDE DEF f
<1>6. f \in Injection(DrawsOf(n, L), DrawsOf(n, M))
  BY <1>4, <1>5 DEF Injection, IsInjective
<1> QED
  BY <1>6

LEMMA AnswersAreEquallyLikely ==
  ASSUME NEW n \in Nat, n > 0, NEW L \in Selections(n), NEW M \in Selections(n)
  PROVE  /\ IsFiniteSet(DrawsOf(n, L))
         /\ Cardinality(DrawsOf(n, L)) = Cardinality(DrawsOf(n, M))
<1>1. IsFiniteSet(DrawsOf(n, L)) /\ IsFiniteSet(DrawsOf(n, M))
  <2>1. DrawsOf(n, L) \in SUBSET Draws(n) /\ DrawsOf(n, M) \in SUBSET Draws(n)
    BY DEF DrawsOf
  <2> QED
    BY <2>1, DrawsAreFinite, FS_Subset
<1>2. /\ Cardinality(DrawsOf(n, L)) <= Cardinality(DrawsOf(n, M))
      /\ Cardinality(DrawsOf(n, M)) <= Cardinality(DrawsOf(n, L))
  BY <1>1, NoAnswerIsFavoured, FS_Injection
<1>3. Cardinality(DrawsOf(n, L)) \in Nat /\ Cardinality(DrawsOf(n, M)) \in Nat
  BY <1>1, FS_CardinalityType
<1> QED
  BY <1>1, <1>2, <1>3

\* A draw is an answer together with one of as many draws as each answer has.
LEMMA DrawsAreCounted ==
  ASSUME NEW n \in Nat, n > 0, NEW L \in Selections(n)
  PROVE  Cardinality(DrawsOf(n, L)) * Cardinality(Selections(n)) = Cardinality(Draws(n))
<1> DEFINE Sel == Selections(n)
           D == Draws(n)
           to == [M \in Sel |-> CHOOSE f : f \in Bijection(DrawsOf(n, M), DrawsOf(n, L))]
           pair == [d \in D |-> <<Recommended(n, d), to[Recommended(n, d)][d]>>]
<1>1. ASSUME NEW M \in Sel PROVE to[M] \in Bijection(DrawsOf(n, M), DrawsOf(n, L))
  <2>1. ExistsBijection(DrawsOf(n, M), DrawsOf(n, L))
    BY AnswersAreEquallyLikely, FS_SameCardinalityBij
  <2> QED
    BY <2>1 DEF ExistsBijection
<1> HIDE DEF to
<1>2. ASSUME NEW M \in Sel
      PROVE  /\ to[M] \in [DrawsOf(n, M) -> DrawsOf(n, L)]
             /\ \A d, e \in DrawsOf(n, M) : to[M][d] = to[M][e] => d = e
             /\ \A c \in DrawsOf(n, L) : \E d \in DrawsOf(n, M) : to[M][d] = c
  BY <1>1 DEF Bijection, Injection, Surjection, IsInjective
<1>3. ASSUME NEW d \in D PROVE Recommended(n, d) \in Sel /\ d \in DrawsOf(n, Recommended(n, d))
  BY RecommendedIsShown DEF DrawsOf
<1>4. ASSUME NEW M \in Sel, NEW d \in DrawsOf(n, M) PROVE d \in D /\ Recommended(n, d) = M
  BY DEF DrawsOf
<1> HIDE DEF Sel, D
<1>5. pair \in [D -> Sel \X DrawsOf(n, L)]
  BY <1>2, <1>3
<1>6. ASSUME NEW d \in D, NEW e \in D, pair[d] = pair[e] PROVE d = e
  <2>1. /\ Recommended(n, d) = Recommended(n, e)
        /\ to[Recommended(n, d)][d] = to[Recommended(n, e)][e]
    BY <1>6
  <2> QED
    BY <1>2, <1>3, <2>1
<1>7. ASSUME NEW M \in Sel, NEW c \in DrawsOf(n, L) PROVE \E d \in D : pair[d] = <<M, c>>
  <2>1. PICK d \in DrawsOf(n, M) : to[M][d] = c
    BY <1>2
  <2>2. d \in D /\ Recommended(n, d) = M
    BY <1>4
  <2> QED
    BY <2>1, <2>2
<1> HIDE DEF pair
<1>8. pair \in Bijection(D, Sel \X DrawsOf(n, L))
  BY <1>5, <1>6, <1>7 DEF Bijection, Injection, Surjection, IsInjective
<1>9. IsFiniteSet(D) /\ IsFiniteSet(Sel) /\ IsFiniteSet(DrawsOf(n, L))
  BY DrawsAreFinite, AnswersAreEquallyLikely DEF D, Sel
<1>10. Cardinality(Sel \X DrawsOf(n, L)) = Cardinality(D)
  BY <1>8, <1>9, FS_Bijection DEF ExistsBijection
<1>11. Cardinality(Sel \X DrawsOf(n, L)) = Cardinality(Sel) * Cardinality(DrawsOf(n, L))
  BY <1>9, FS_Product
<1>12. Cardinality(Sel) \in Nat /\ Cardinality(DrawsOf(n, L)) \in Nat
  BY <1>9, FS_CardinalityType
<1>13. Cardinality(DrawsOf(n, L)) * Cardinality(Sel) = Cardinality(Sel) * Cardinality(DrawsOf(n, L))
  BY <1>12
<1> QED
  BY <1>10, <1>11, <1>13 DEF Sel, D

(***************************************************************************)
(* The shuffle is uniform for every number of candidates, and however many *)
(* of them are shown.                                                      *)
(***************************************************************************)
THEOREM RecommendationsAreUniform == CalculationsSpec => []ShuffleIsUniform
<1> DEFINE Counted == candidates \in Nat
<1>1. CalculationsInit => Counted
  BY DEF CalculationsInit
<1>2. Counted /\ [CalculationsNext]_<<passedRanges, candidates>> => Counted'
  BY CandidatesAssumption DEF CalculationsNext, GetRecommendations
<1>3. Counted => ShuffleIsUniform
  <2> SUFFICES ASSUME candidates \in Nat, candidates > 0, NEW list \in Selections(candidates)
               PROVE  Cardinality(DrawsOf(candidates, list)) * Cardinality(Selections(candidates))
                        = Cardinality(Draws(candidates))
    BY DEF ShuffleIsUniform, Selections, DrawsOf
  <2> QED
    BY DrawsAreCounted
<1> HIDE DEF Counted
<1> QED
  BY <1>1, <1>2, <1>3, PTL DEF CalculationsSpec

=============================================================================
