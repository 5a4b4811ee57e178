------------------------------ MODULE AgeText ------------------------------
(***************************************************************************)
(* The age of a pet that the pages show (web/src/lib/date.ts).             *)
(* The state is a pet's birth date, as the server sends it, and today's    *)
(* date, which moves on a day at a time while the pet's page is looked at. *)
(*                                                                         *)
(* Dates are records.  A text is what it says: a unit, a number of it and, *)
(* for a pet in its second year, the months beyond the year.  Wording,     *)
(* singular and plural are left out.                                       *)
(***************************************************************************)
EXTENDS Integers, FiniteSets

CONSTANTS
  BirthYears,   \* the years, as written, of the birth dates looked at
  BirthDays,    \* the days of the month
  FirstToday,   \* 1 January of this year is the first day looked at
  LastToday     \* and 31 December of this one the last

ASSUME YearsAssumption ==
  /\ BirthYears \subseteq Nat
  /\ BirthDays \subseteq 1..31
  /\ FirstToday \in Nat /\ LastToday \in Nat

VARIABLES birth, today
vars == <<birth, today>>

Leap(y) == (y % 4 = 0 /\ y % 100 # 0) \/ y % 400 = 0

Length(y, m) ==
  IF m = 2 THEN IF Leap(y) THEN 29 ELSE 28
  ELSE IF m \in {4, 6, 9, 11} THEN 30 ELSE 31

Date == [year : Nat, month : 1..12, day : 1..31]
Exists(d) == d.day <= Length(d.year, d.month)

\* Calendar order of two dates, which need not exist.
NotAfter(c, d) ==
  LET m == 12 * c.year + c.month
      n == 12 * d.year + d.month
  IN  m < n \/ (m = n /\ c.day <= d.day)

\* A bug for the checks to find: every February has 29 days.
NextDay_AlwaysLeap(d) ==
  IF d.day < (IF d.month = 2 THEN 29 ELSE Length(d.year, d.month)) THEN [d EXCEPT !.day = @ + 1]
  ELSE IF d.month < 12 THEN [year |-> d.year, month |-> d.month + 1, day |-> 1]
  ELSE [year |-> d.year + 1, month |-> 1, day |-> 1]

NextDay(d) ==
  IF d.day < Length(d.year, d.month) THEN [d EXCEPT !.day = @ + 1]
  ELSE IF d.month < 12 THEN [year |-> d.year, month |-> d.month + 1, day |-> 1]
  ELSE [year |-> d.year + 1, month |-> 1, day |-> 1]

\* new Date(year, month - 1, day): years below 100 are years of the last
\* century, and a day that a month does not have runs over into the next.
JsDate(d) ==
  LET y == IF d.year < 100 THEN 1900 + d.year ELSE d.year
  IN  IF d.day > Length(y, d.month)
        THEN [year |-> y, month |-> d.month + 1, day |-> d.day - Length(y, d.month)]
        ELSE [d EXCEPT !.year = y]

(***************************************************************************)
(* calculateAge                                                            *)
(***************************************************************************)
\* A bug for the checks to find: days of the month are not compared.
Months_NoDays(b, n) == n.month - b.month

\* Whole months since the birth date's month, one less before its day.
Months(b, n) == (n.month - b.month) - (IF n.day < b.day THEN 1 ELSE 0)

\* A bug for the checks to find: a year is borrowed, its months are not.
Age_HalfBorrowed(b, n) ==
  [years  |-> n.year - b.year - (IF Months(b, n) < 0 THEN 1 ELSE 0),
   months |-> IF Months(b, n) < 0 THEN 0 ELSE Months(b, n)]

\* Years and months, with a year borrowed when the months are negative.
Age(b, n) ==
  [years  |-> n.year - b.year - (IF Months(b, n) < 0 THEN 1 ELSE 0),
   months |-> Months(b, n) + (IF Months(b, n) < 0 THEN 12 ELSE 0)]

Texts == [unit : {"unborn", "months", "year", "years"}, count : Int, months : Int]
Text(u, c, m) == [unit |-> u, count |-> c, months |-> m]

\* The branches of calculateAge, in their order.
TextOf(age) ==
  IF age.years < 0 THEN Text("unborn", 0, 0)
  ELSE IF age.years = 0 THEN Text("months", age.months, 0)
  ELSE IF age.years = 1 THEN Text("year", 1, age.months)
  ELSE Text("years", age.years, 0)

CalculateAge(d, n) == TextOf(Age(JsDate(d), n))

(***************************************************************************)
(* A pet's page, looked at day after day.                                  *)
(***************************************************************************)
Births == {d \in [year : BirthYears, month : 1..12, day : BirthDays] : Exists(d)}

Init ==
  /\ birth \in Births
  /\ today = [year |-> FirstToday, month |-> 1, day |-> 1]

Next ==
  /\ today # [year |-> LastToday, month |-> 12, day |-> 31]
  /\ today' = NextDay(today)
  /\ UNCHANGED birth

Spec == Init /\ [][Next]_vars

(***************************************************************************)
(* Properties.                                                             *)
(***************************************************************************)
TypeOK ==
  /\ birth \in Date /\ Exists(birth)
  /\ today \in Date /\ Exists(today)
  /\ CalculateAge(birth, today) \in Texts

\* The reference: how many of the birth date's monthly anniversaries are
\* not after today; in a short month the anniversary is the day after it.
Anniversary(k) ==
  LET m == birth.month - 1 + k
  IN  [birth EXCEPT !.year = @ + (m \div 12), !.month = (m % 12) + 1]

MonthsLived ==
  Cardinality({k \in 1 .. 12 * (today.year - birth.year + 1) :
                 NotAfter(Anniversary(k), today)})

\* calculateAge shows the months a pet has lived, from its second birthday on
\* its years only, and tells a birth date in the future from a newborn: the
\* borrowing of days and months agrees with counting anniversaries.
AgeIsCounted ==
  LET n == MonthsLived IN
  CalculateAge(birth, today) =
    IF ~NotAfter(birth, today) THEN Text("unborn", 0, 0)
    ELSE IF n < 12 THEN Text("months", n, 0)
    ELSE IF n < 24 THEN Text("year", 1, n - 12)
    ELSE Text("years", n \div 12, 0)

\* The months a text stands for.
Told(t) ==
  CASE t.unit = "unborn" -> -1
    [] t.unit = "months" -> t.count
    [] t.unit = "year"   -> 12 + t.months
    [] t.unit = "years"  -> 12 * t.count

\* A pet never gets younger: whatever month ends between two days, of
\* whatever length, the age calculateAge shows does not go down.
AgeNeverDrops ==
  [][Told(CalculateAge(birth, today')) >= Told(CalculateAge(birth, today))]_vars
=============================================================================
