------------------------------ MODULE Progress ------------------------------
(***************************************************************************)
(* How far one user has got through the Bible (GET /users/me/progress):    *)
(* calculateProgress of src/modules/writing/progress-calculator.ts over    *)
(* the ranges of the user's passed writings, and how these come about.     *)
(*                                                                         *)
(* A client asks for a range of verse numbers in a chapter; nothing        *)
(* compares its end with the verses the chapter has.  Its check reads the  *)
(* stored verses in the range, so the writing can pass as soon as there is *)
(* one.  A verdict once given is kept here (WritingService models what     *)
(* becomes of verdicts).                                                   *)
(***************************************************************************)
EXTENDS Integers, Sequences, FiniteSets, FiniteSetsExt

CONSTANTS Bible,         \* Bible[b]: chapter and number of each stored verse of book b
          Ranges,        \* ranges clients ask for
          MaxWritings    \* bound on the passed writings

\* count_verses_per_book groups the stored verses: a book it lists has a verse.
ASSUME BibleAssumption ==
    /\ IsFiniteSet(DOMAIN Bible)
    /\ \A b \in DOMAIN Bible :
         IsFiniteSet(Bible[b]) /\ Bible[b] # {} /\ Bible[b] \subseteq Nat \X Nat
ASSUME RangesAssumption ==
    Ranges \subseteq [bookNo : Nat, chapter : Nat, startVerseNo : Nat, endVerseNo : Nat]

VARIABLE passedRanges   \* findPassedRangesByUser: the ranges of the passed sessions

\* The verses of a range, by their address in its book.
AddressesOf(range) == {range.chapter} \X (range.startVerseNo .. range.endVerseNo)

\* The stored verses of a book, and how many there are (count_verses_per_book).
Stored(bookNo) == IF bookNo \in DOMAIN Bible THEN Bible[bookNo] ELSE {}
VerseTotals == [bookNo \in DOMAIN Bible |-> Cardinality(Bible[bookNo])]

-----------------------------------------------------------------------------
\* groups: the addresses written in each book, each of them once.
Covered(ranges, bookNo) ==
    UNION {AddressesOf(ranges[i]) : i \in {j \in DOMAIN ranges : ranges[j].bookNo = bookNo}}

BooksOf(ranges) == {ranges[i].bookNo : i \in DOMAIN ranges}

\* Mutant of CompletedBooks: a book is complete when the numbers reach its total.
CompletedBooksLenient(ranges, verseTotals) ==
    {b \in BooksOf(ranges) \cap DOMAIN verseTotals :
        Cardinality(Covered(ranges, b)) + 1 >= verseTotals[b]}

\* Books with as many written addresses as stored verses.
CompletedBooks(ranges, verseTotals) ==
    {b \in BooksOf(ranges) \cap DOMAIN verseTotals :
        verseTotals[b] = Cardinality(Covered(ranges, b))}

\* Mutant of CalculateProgress: a list for the Set, a verse written twice counts twice.
CalculateProgressRepeating(ranges, verseTotals) ==
    LET Written(b) == MapThenSumSet(LAMBDA i : Cardinality(AddressesOf(ranges[i])),
                                    {j \in DOMAIN ranges : ranges[j].bookNo = b})
    IN  [coveredVerses |-> MapThenSumSet(Written, BooksOf(ranges)),
         totalVerses |-> MapThenSumSet(LAMBDA b : verseTotals[b], DOMAIN verseTotals),
         completedBooks |-> Cardinality({b \in BooksOf(ranges) \cap DOMAIN verseTotals :
                                            verseTotals[b] = Written(b)})]

(***************************************************************************)
(* calculateProgress.  The rate is coveredVerses / totalVerses * 100, or 0 *)
(* without stored verses, and is left to its two numbers.                  *)
(***************************************************************************)
CalculateProgress(ranges, verseTotals) ==
    [coveredVerses |->
        MapThenSumSet(LAMBDA b : Cardinality(Covered(ranges, b)), BooksOf(ranges)),
     totalVerses |-> MapThenSumSet(LAMBDA b : verseTotals[b], DOMAIN verseTotals),
     completedBooks |-> Cardinality(CompletedBooks(ranges, verseTotals))]

\* The verses of the Bible do not change between the two queries.
GetMyProgress == CalculateProgress(passedRanges, VerseTotals)

-----------------------------------------------------------------------------
\* findRange: the stored verses of a range, which its check reads.
FindRange(range) == AddressesOf(range) \cap Stored(range.bookNo)

(***************************************************************************)
(* A writing session is created for a range, checked and passed: the range *)
(* is in order (createUploadUrl), and a stored verse lies in it, the key   *)
(* verse of complete() among them.                                         *)
(***************************************************************************)
PassWriting(range) ==
    /\ Len(passedRanges) < MaxWritings
    /\ range.startVerseNo <= range.endVerseNo
    /\ FindRange(range) # {}
    /\ passedRanges' = Append(passedRanges, range)

Init == passedRanges = <<>>

Next == \E range \in Ranges : PassWriting(range)

Spec == Init /\ [][Next]_passedRanges

-----------------------------------------------------------------------------
\* Type invariant: what counts as written is what clients asked for.
TypeOK == passedRanges \in Seq(Ranges)

\* What clients ask for exists: the range ends where its chapter does, or before.
RangesAreStored ==
    \A range \in Ranges : AddressesOf(range) \subseteq Stored(range.bookNo)

(***************************************************************************)
(* A completed book has every verse written ("books judged complete        *)
(* because every verse is covered", progress-calculator.ts), although the  *)
(* code compares two numbers.                                              *)
(***************************************************************************)
CompletedIsCovered ==
    \A b \in CompletedBooks(passedRanges, VerseTotals) :
        Stored(b) \subseteq Covered(passedRanges, b)
=============================================================================
