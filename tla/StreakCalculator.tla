-------------------------- MODULE StreakCalculator --------------------------
(***************************************************************************)
(* The pure streak rules of src/modules/stats/streak-calculator.ts.  A     *)
(* calendar date is its day number (UTC midnight divided by the length of  *)
(* a day), so that dates compare like their 'YYYY-MM-DD' strings.          *)
(***************************************************************************)
EXTENDS Integers

CONSTANT NoDate   \* the null of last_written_date

ASSUME NoDateAssumption == NoDate \notin Int

MaxOf(a, b) == IF a < b THEN b ELSE a

\* diffInUtcDays: both dates are at midnight UTC, the rounding is exact.
DiffInUtcDays(from, to) == to - from

\* Mutant of StreakStartDate: the day before the streak's first one.
StreakStartDateBefore(lastWrittenDate, currentStreak) ==
    IF lastWrittenDate = NoDate \/ currentStreak <= 0
    THEN NoDate
    ELSE lastWrittenDate - currentStreak

\* streakStartDate: the first day of the streak that ends on lastWrittenDate.
StreakStartDate(lastWrittenDate, currentStreak) ==
    IF lastWrittenDate = NoDate \/ currentStreak <= 0
    THEN NoDate
    ELSE lastWrittenDate - (currentStreak - 1)

\* Mutant of CalculateStreak: a second writing on the same day extends the streak.
CalculateStreakEveryTime(snapshot, today) ==
    IF snapshot.lastWrittenDate = NoDate
    THEN [currentStreak |-> 1, longestStreak |-> 1]
    ELSE LET diff == DiffInUtcDays(snapshot.lastWrittenDate, today)
             next == snapshot.currentStreak + 1
         IN  CASE diff <= 1 -> [currentStreak |-> next,
                                longestStreak |-> MaxOf(snapshot.longestStreak, next)]
               [] diff > 1 -> [currentStreak |-> 1,
                                longestStreak |-> snapshot.longestStreak]

(***************************************************************************)
(* calculateStreak: the first writing starts a streak; the day after the   *)
(* last one extends it; the same day, or an earlier one (the client's      *)
(* local date may go back when it travels), leaves it; a gap resets it.    *)
(***************************************************************************)
CalculateStreak(snapshot, today) ==
    IF snapshot.lastWrittenDate = NoDate
    THEN [currentStreak |-> 1, longestStreak |-> 1]
    ELSE LET diff == DiffInUtcDays(snapshot.lastWrittenDate, today)
             next == snapshot.currentStreak + 1
         IN  CASE diff <= 0 -> [currentStreak |-> snapshot.currentStreak,
                                longestStreak |-> snapshot.longestStreak]
               [] diff = 1 -> [currentStreak |-> next,
                                longestStreak |-> MaxOf(snapshot.longestStreak, next)]
               [] diff > 1 -> [currentStreak |-> 1,
                                longestStreak |-> snapshot.longestStreak]
=============================================================================
