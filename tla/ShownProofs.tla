---------------------------- MODULE ShownProofs ----------------------------
(***************************************************************************)
(* Proofs about what the pages show: the age of a pet, the look of the     *)
(* pages, what three pages say of one pet, and what a reader who walks the *)
(* pages of a changing list misses or sees twice; and that the studies of  *)
(* MCShown, which take the steps of one part each, keep all of it.         *)
(***************************************************************************)
EXTENDS MCShown, SequenceTheorems, FiniteSetTheorems, FunctionTheorems, TLAPS

(***************************************************************************)
(* The age on a pet's page never goes down, for every birth date and every *)
(* day.  The months a pet has lived, 12 * years + months, grow from day to *)
(* day because a new month starts on day 1; the text shows a monotone      *)
(* function of them, and they are the monthly anniversaries gone by.       *)
(***************************************************************************)
\* What a browser makes of a date that exists is a date: only 29 February can
\* run over, into March.
LEMMA JsDateIsDate ==
  ASSUME NEW d \in Date, Exists(d)
  PROVE  JsDate(d) \in Date
<1> DEFINE y == IF d.year < 100 THEN 1900 + d.year ELSE d.year
<1>1. y \in Nat /\ d.year \in Nat /\ d.month \in 1..12 /\ d.day \in 1..31
  BY DEF Date
<1>2. Length(y, d.month) \in 28..31 /\ (d.month # 2 => Length(y, d.month) = Length(d.year, d.month))
  BY <1>1 DEF Length
<1>3. CASE d.day > Length(y, d.month)
  <2>1. d.month = 2
    BY <1>1, <1>2, <1>3 DEF Exists, Length
  <2>2. JsDate(d) = [year |-> y, month |-> 3, day |-> d.day - Length(y, d.month)]
    BY <1>3, <2>1 DEF JsDate
  <2>. QED  BY <1>1, <1>2, <1>3, <2>2 DEF Date
<1>4. CASE ~(d.day > Length(y, d.month))
  <2>1. JsDate(d) = [d EXCEPT !.year = y]
    BY <1>4 DEF JsDate
  <2>. QED  BY <1>1, <2>1 DEF Date
<1>. QED  BY <1>3, <1>4

\* The day after a date is a date: the three cases of NextDay, field by field.
LEMMA NextDayIsDate ==
  ASSUME NEW d \in Date
  PROVE  NextDay(d) \in Date
<1>1. d.year \in Nat /\ d.month \in 1..12 /\ d.day \in 1..31
  BY DEF Date
<1>2. Length(d.year, d.month) \in 28..31
  BY <1>1 DEF Length
<1>3. CASE d.day < Length(d.year, d.month)
  <2>1. NextDay(d) = [d EXCEPT !.day = d.day + 1]
    BY <1>3 DEF NextDay
  <2>. QED  BY <1>1, <1>2, <1>3, <2>1 DEF Date
<1>4. CASE ~(d.day < Length(d.year, d.month)) /\ d.month < 12
  <2>1. NextDay(d) = [year |-> d.year, month |-> d.month + 1, day |-> 1]
    BY <1>4 DEF NextDay
  <2>. QED  BY <1>1, <1>4, <2>1 DEF Date
<1>5. CASE ~(d.day < Length(d.year, d.month)) /\ ~(d.month < 12)
  <2>1. NextDay(d) = [year |-> d.year + 1, month |-> 1, day |-> 1]
    BY <1>5 DEF NextDay
  <2>. QED  BY <1>1, <2>1 DEF Date
<1>. QED  BY <1>3, <1>4, <1>5

\* From one day to the next the months lived do not decrease.
LEMMA MonthsLivedGrow ==
  ASSUME NEW b \in Date, NEW n \in Date
  PROVE  12 * NextDay(n).year + Months(b, NextDay(n)) >= 12 * n.year + Months(b, n)
<1>1. n.year \in Nat /\ n.month \in 1..12 /\ n.day \in 1..31
      /\ b.year \in Nat /\ b.month \in 1..12 /\ b.day \in 1..31
  BY DEF Date
<1>2. Length(n.year, n.month) \in 28..31
  BY <1>1 DEF Length
<1>3. CASE n.day < Length(n.year, n.month)
  <2>1. NextDay(n) = [n EXCEPT !.day = n.day + 1]
    BY <1>3 DEF NextDay
  <2>2. NextDay(n).year = n.year /\ NextDay(n).month = n.month /\ NextDay(n).day = n.day + 1
    BY <2>1 DEF Date
  <2>. QED  BY <1>1, <2>2 DEF Months
<1>4. CASE ~(n.day < Length(n.year, n.month)) /\ n.month < 12
  <2>1. NextDay(n) = [year |-> n.year, month |-> n.month + 1, day |-> 1]
    BY <1>4 DEF NextDay
  <2>2. NextDay(n).year = n.year /\ NextDay(n).month = n.month + 1 /\ NextDay(n).day = 1
    BY <2>1 DEF Date
  <2>. QED  BY <1>1, <2>2 DEF Months
<1>5. CASE ~(n.day < Length(n.year, n.month)) /\ ~(n.month < 12)
  <2>1. NextDay(n) = [year |-> n.year + 1, month |-> 1, day |-> 1]
    BY <1>5 DEF NextDay
  <2>2. NextDay(n).year = n.year + 1 /\ NextDay(n).month = 1 /\ NextDay(n).day = 1
    BY <2>1
  <2>. QED  BY <1>1, <1>5, <2>2 DEF Months
<1>. QED  BY <1>3, <1>4, <1>5

\* Borrowing a year keeps the months lived and leaves 0 to 11 months.
LEMMA BorrowKeepsMonths ==
  ASSUME NEW b \in Date, NEW n \in Date
  PROVE  /\ Age(b, n).years \in Int
         /\ Age(b, n).months \in 0..11
         /\ 12 * Age(b, n).years + Age(b, n).months
              = 12 * n.year + Months(b, n) - 12 * b.year
<1>1. n.year \in Nat /\ n.month \in 1..12 /\ n.day \in 1..31
      /\ b.year \in Nat /\ b.month \in 1..12 /\ b.day \in 1..31
  BY DEF Date
<1>2. Months(b, n) \in -12..11
  BY <1>1 DEF Months
<1>. QED  BY <1>1, <1>2 DEF Age

\* What a text tells grows with the months lived.
LEMMA TextGrows ==
  ASSUME NEW y \in Int, NEW m \in 0..11, NEW z \in Int, NEW k \in 0..11,
         12 * z + k >= 12 * y + m
  PROVE  Told(TextOf([years |-> z, months |-> k])) >= Told(TextOf([years |-> y, months |-> m]))
<1>1. Told(TextOf([years |-> y, months |-> m])) =
        IF y < 0 THEN -1 ELSE IF y = 0 THEN m ELSE IF y = 1 THEN 12 + m ELSE 12 * y
  BY DEF Told, TextOf, Text
<1>2. Told(TextOf([years |-> z, months |-> k])) =
        IF z < 0 THEN -1 ELSE IF z = 0 THEN k ELSE IF z = 1 THEN 12 + k ELSE 12 * z
  BY DEF Told, TextOf, Text
<1>. QED  BY <1>1, <1>2

\* Both dates stay dates that the page can show.
DatesOK == birth \in Date /\ Exists(birth) /\ today \in Date

\* The page is opened with dates, and a day later they are dates still.
LEMMA DatesStayDates == Spec => []DatesOK
<1>1. Init => DatesOK
  <2>. SUFFICES ASSUME Init PROVE DatesOK
    OBVIOUS
  <2>1. birth \in Date /\ Exists(birth)
    BY YearsAssumption DEF Init, Births, Date
  <2>2. today \in Date
    BY YearsAssumption DEF Init, Date
  <2>. QED  BY <2>1, <2>2 DEF DatesOK
<1>2. DatesOK /\ [Next]_vars => DatesOK'
  BY NextDayIsDate DEF DatesOK, Next, vars
<1>. QED  BY <1>1, <1>2, PTL DEF Spec

\* calculateAge never shows a pet younger than it did the day before.
THEOREM AgesGrow == Spec => AgeNeverDrops
<1> DEFINE Grows == Told(CalculateAge(birth, today')) >= Told(CalculateAge(birth, today))
<1>1. DatesOK /\ [Next]_vars => [Grows]_vars
  <2>. SUFFICES ASSUME DatesOK, Next PROVE Grows
    BY DEF vars
  <2> DEFINE b == JsDate(birth)
  <2>1. b \in Date /\ today \in Date /\ today' = NextDay(today) /\ NextDay(today) \in Date
    BY JsDateIsDate, NextDayIsDate DEF DatesOK, Next
  <2>. HIDE DEF b
  <2>2. 12 * NextDay(today).year + Months(b, NextDay(today)) >= 12 * today.year + Months(b, today)
    BY <2>1, MonthsLivedGrow
  <2>3. /\ Months(b, NextDay(today)) \in Int /\ Months(b, today) \in Int
        /\ b.year \in Int /\ today.year \in Int /\ NextDay(today).year \in Int
    BY <2>1 DEF Date, Months
  <2>4. /\ Age(b, NextDay(today)).years \in Int /\ Age(b, NextDay(today)).months \in 0..11
        /\ 12 * Age(b, NextDay(today)).years + Age(b, NextDay(today)).months
             = 12 * NextDay(today).year + Months(b, NextDay(today)) - 12 * b.year
    BY <2>1, BorrowKeepsMonths
  <2>5. /\ Age(b, today).years \in Int /\ Age(b, today).months \in 0..11
        /\ 12 * Age(b, today).years + Age(b, today).months
             = 12 * today.year + Months(b, today) - 12 * b.year
    BY <2>1, BorrowKeepsMonths
  <2>6. 12 * Age(b, NextDay(today)).years + Age(b, NextDay(today)).months
          >= 12 * Age(b, today).years + Age(b, today).months
    BY <2>2, <2>3, <2>4, <2>5
  <2>7. /\ Age(b, today) = [years |-> Age(b, today).years, months |-> Age(b, today).months]
        /\ Age(b, NextDay(today)) = [years  |-> Age(b, NextDay(today)).years,
                                     months |-> Age(b, NextDay(today)).months]
    BY DEF Age
  <2>8. Told(TextOf(Age(b, NextDay(today)))) >= Told(TextOf(Age(b, today)))
    BY <2>4, <2>5, <2>6, <2>7, TextGrows
  <2>. QED  BY <2>1, <2>8 DEF CalculateAge, b
<1>. QED  BY <1>1, DatesStayDates, PTL DEF Spec, AgeNeverDrops

(***************************************************************************)
(* The age is the count of anniversaries.                                  *)
(***************************************************************************)
\* From the year 100 on the browser takes a date for what it says.
LEMMA JsDateKeepsDate ==
  ASSUME NEW d \in Date, Exists(d), d.year >= 100
  PROVE  JsDate(d) = d
<1>1. d.year \in Nat /\ d.day \in 1..31 /\ Length(d.year, d.month) \in 28..31
  BY DEF Date, Length
<1>2. JsDate(d) = [d EXCEPT !.year = d.year]
  BY <1>1 DEF JsDate, Exists
<1>. QED  BY <1>2 DEF Date

\* k months after a date the calendar has come to another, by years, months
\* and days, when at least k months lie between them.
LEMMA CalendarOrder ==
  ASSUME NEW y \in Int, NEW m \in 1..12, NEW c \in 1..31,
         NEW z \in Int, NEW n \in 1..12, NEW d \in 1..31, NEW k \in Int
  PROVE  (12 * y + m + k < 12 * z + n \/ (12 * y + m + k = 12 * z + n /\ c <= d))
           <=> k <= 12 * (z - y) + ((n - m) - (IF d < c THEN 1 ELSE 0))
OBVIOUS

\* A number of months is so many years and the months beyond them.
LEMMA YearsAndMonths ==
  ASSUME NEW m \in Int
  PROVE  m = 12 * (m \div 12) + (m % 12) /\ (m \div 12) \in Int /\ (m % 12) \in 0..11
OBVIOUS

\* Months carried over into years are the same months.
LEMMA MonthsCarryOver ==
  ASSUME NEW y \in Int, NEW b \in Int, NEW k \in Int,
         NEW q \in Int, NEW r \in Int, b - 1 + k = 12 * q + r
  PROVE  12 * (y + q) + (r + 1) = 12 * y + b + k
OBVIOUS

\* The k-th anniversary is over when at least k months have been lived.
LEMMA AnniversaryIsOver ==
  ASSUME NEW k \in Int, birth \in Date, today \in Date
  PROVE  NotAfter(Anniversary(k), today) <=>
           k <= 12 * (today.year - birth.year) + Months(birth, today)
<1>1. /\ birth.year \in Int /\ birth.month \in 1..12 /\ birth.day \in 1..31
      /\ today.year \in Int /\ today.month \in 1..12 /\ today.day \in 1..31
  BY DEF Date
<1> DEFINE m == birth.month - 1 + k
           q == m \div 12
           r == m % 12
           a == Anniversary(k)
<1>2. a = [birth EXCEPT !.year = birth.year + q, !.month = r + 1]
  BY DEF Anniversary
<1>3. a.year = birth.year + q /\ a.month = r + 1 /\ a.day = birth.day
  BY <1>2 DEF Date
<1>4. m \in Int /\ m = birth.month - 1 + k
  BY <1>1
<1>. HIDE DEF m
<1>5. m = 12 * q + r /\ q \in Int /\ r \in 0..11
  BY <1>4, YearsAndMonths, Zenon DEF q, r
<1>. HIDE DEF a, q, r
<1>6. 12 * a.year + a.month = 12 * birth.year + birth.month + k
  <2>1. 12 * (birth.year + q) + (r + 1) = 12 * birth.year + birth.month + k
    <3>1. birth.month \in Int /\ r \in Int /\ birth.month - 1 + k = 12 * q + r
      BY <1>1, <1>4, <1>5
    <3>. QED  BY <1>1, <1>5, <3>1, MonthsCarryOver
  <2>. QED  BY <1>3, <2>1
<1>7. NotAfter(a, today) <=>
        \/ 12 * birth.year + birth.month + k < 12 * today.year + today.month
        \/ /\ 12 * birth.year + birth.month + k = 12 * today.year + today.month
           /\ birth.day <= today.day
  BY <1>3, <1>6 DEF NotAfter
<1>8. Months(birth, today) =
        (today.month - birth.month) - (IF today.day < birth.day THEN 1 ELSE 0)
  BY DEF Months
<1>9. (\/ 12 * birth.year + birth.month + k < 12 * today.year + today.month
       \/ /\ 12 * birth.year + birth.month + k = 12 * today.year + today.month
          /\ birth.day <= today.day)
     <=> k <= 12 * (today.year - birth.year)
                + ((today.month - birth.month) - (IF today.day < birth.day THEN 1 ELSE 0))
  BY <1>1, CalendarOrder, Zenon
<1>. QED  BY <1>7, <1>8, <1>9, Zenon DEF a

\* So many anniversaries are over as months have been lived.
LEMMA AnniversariesAreCounted ==
  ASSUME birth \in Date, today \in Date,
         12 * (today.year - birth.year) + Months(birth, today) >= 0
  PROVE  MonthsLived = 12 * (today.year - birth.year) + Months(birth, today)
<1> DEFINE lived == 12 * (today.year - birth.year) + Months(birth, today)
           last == 12 * (today.year - birth.year + 1)
<1>1. /\ birth.year \in Int /\ birth.month \in 1..12 /\ birth.day \in 1..31
      /\ today.year \in Int /\ today.month \in 1..12 /\ today.day \in 1..31
  BY DEF Date
<1>2. lived \in Int /\ last \in Int /\ lived <= last
  BY <1>1 DEF Months
<1>3. \A k \in Int : NotAfter(Anniversary(k), today) <=> k <= lived
  BY AnniversaryIsOver
<1>4. MonthsLived = Cardinality({k \in 1 .. last : NotAfter(Anniversary(k), today)})
  BY DEF MonthsLived
<1>5. lived >= 0
  OBVIOUS
<1>. HIDE DEF lived, last
<1>6. {k \in 1 .. last : NotAfter(Anniversary(k), today)} = 1 .. lived
  BY <1>2, <1>3
<1>7. Cardinality(1 .. lived) = lived
  BY <1>2, <1>5, FS_Interval
<1>. QED  BY <1>4, <1>6, <1>7 DEF lived

\* A birth date that is not over yet is one with less than no months lived.
LEMMA UnbornIsNegative ==
  ASSUME birth \in Date, today \in Date
  PROVE  NotAfter(birth, today) <=>
           12 * (today.year - birth.year) + Months(birth, today) >= 0
<1>1. /\ birth.year \in Int /\ birth.month \in 1..12 /\ birth.day \in 1..31
      /\ today.year \in Int /\ today.month \in 1..12 /\ today.day \in 1..31
  BY DEF Date
<1>2. NotAfter(birth, today) <=>
        \/ 12 * birth.year + birth.month + 0 < 12 * today.year + today.month
        \/ /\ 12 * birth.year + birth.month + 0 = 12 * today.year + today.month
           /\ birth.day <= today.day
  BY <1>1 DEF NotAfter
<1>3. Months(birth, today) =
        (today.month - birth.month) - (IF today.day < birth.day THEN 1 ELSE 0)
  BY DEF Months
<1>4. 0 \in Int
  OBVIOUS
<1>5. (\/ 12 * birth.year + birth.month + 0 < 12 * today.year + today.month
       \/ /\ 12 * birth.year + birth.month + 0 = 12 * today.year + today.month
          /\ birth.day <= today.day)
     <=> 0 <= 12 * (today.year - birth.year)
                + ((today.month - birth.month) - (IF today.day < birth.day THEN 1 ELSE 0))
  BY <1>1, <1>4, CalendarOrder, Zenon
<1>6. NotAfter(birth, today) <=>
        0 <= 12 * (today.year - birth.year) + Months(birth, today)
  BY <1>2, <1>3, <1>5, Zenon
<1>7. 12 * (today.year - birth.year) + Months(birth, today) \in Int
  BY <1>1, <1>3
<1>. QED  BY <1>6, <1>7

\* calculateAge borrows days and months, and so counts anniversaries: for
\* every birth date that the Date constructor does not move to another
\* century, and every day it is looked at.
THEOREM AgesAreCounted ==
  ASSUME \A y \in BirthYears : y >= 100
  PROVE  Spec => []AgeIsCounted
<1> DEFINE Modern == birth.year >= 100
<1>1. Spec => []Modern
  <2>1. Init => Modern
    BY DEF Init, Births
  <2>2. Modern /\ [Next]_vars => Modern'
    BY DEF Next, vars
  <2>. QED  BY <2>1, <2>2, PTL DEF Spec
<1>2. DatesOK /\ Modern => AgeIsCounted
  <2>. SUFFICES ASSUME DatesOK, Modern PROVE AgeIsCounted
    OBVIOUS
  <2> DEFINE y == Age(birth, today).years
             m == Age(birth, today).months
             n == 12 * (today.year - birth.year) + Months(birth, today)
  <2>1. birth \in Date /\ today \in Date /\ Exists(birth) /\ birth.year >= 100
    BY DEF DatesOK
  <2>2. JsDate(birth) = birth
    BY <2>1, JsDateKeepsDate
  <2>3. y \in Int /\ m \in 0..11 /\ 12 * y + m = 12 * today.year + Months(birth, today) - 12 * birth.year
    BY <2>1, BorrowKeepsMonths
  <2>4. birth.year \in Int /\ today.year \in Int /\ Months(birth, today) \in Int
    BY <2>1 DEF Date, Months
  <2>5. n \in Int /\ 12 * y + m = n
    BY <2>3, <2>4
  <2>6. NotAfter(birth, today) <=> n >= 0
    BY <2>1, UnbornIsNegative
  <2>7. n >= 0 => MonthsLived = n
    BY <2>1, AnniversariesAreCounted
  <2>8. CalculateAge(birth, today) =
          (IF y < 0 THEN Text("unborn", 0, 0)
           ELSE IF y = 0 THEN Text("months", m, 0)
           ELSE IF y = 1 THEN Text("year", 1, m)
           ELSE Text("years", y, 0))
    BY <2>2 DEF CalculateAge, TextOf
  <2>. HIDE DEF y, m, n
  <2>9. CASE n < 0
    <3>1. y < 0
      BY <2>3, <2>5, <2>9
    <3>. QED  BY <2>5, <2>6, <2>8, <2>9, <3>1 DEF AgeIsCounted
  <2>10. CASE n \in 0..11
    <3>1. y = 0 /\ m = n
      BY <2>3, <2>5, <2>10
    <3>. QED  BY <2>5, <2>6, <2>7, <2>8, <2>10, <3>1 DEF AgeIsCounted
  <2>11. CASE n \in 12..23
    <3>1. y = 1 /\ m = n - 12
      BY <2>3, <2>5, <2>11
    <3>. QED  BY <2>5, <2>6, <2>7, <2>8, <2>11, <3>1 DEF AgeIsCounted
  <2>12. CASE n >= 24
    <3>1. y >= 2 /\ y = n \div 12
      BY <2>3, <2>5, <2>12
    <3>. QED  BY <2>3, <2>5, <2>6, <2>7, <2>8, <2>12, <3>1 DEF AgeIsCounted
  <2>. QED  BY <2>5, <2>9, <2>10, <2>11, <2>12
<1>. QED  BY <1>1, <1>2, DatesStayDates, PTL

(***************************************************************************)
(* The look of the pages.  A switch about to write, and a document that    *)
(* has not rendered yet, still tell what the tab read.                     *)
(***************************************************************************)
Tabbed ==
  /\ saved \in Look!Values \cup {None}
  /\ system \in Look!Themes
  /\ phase \in [Tabs -> {"closed", "loaded", "rendered", "idle"}]
  /\ theme \in [Tabs -> Look!Themes \cup {None}]
  /\ shown \in [Tabs -> Look!Values]
  /\ read \in [Tabs -> (Look!Values \cup {None}) \X Look!Themes]

SwitchTellsWhatItRead ==
  \A t \in Tabs : phase[t] = "rendered" =>
    theme[t] = (IF read[t][1] \in Look!Themes THEN read[t][1] ELSE read[t][2])

HeadTellsWhatItRead ==
  \A t \in Tabs : phase[t] = "loaded" =>
    shown[t] = (IF read[t][1] = None THEN read[t][2] ELSE read[t][1])

LookInv == Tabbed /\ SwitchTellsWhatItRead /\ HeadTellsWhatItRead

LEMMA Looks == Look!Spec => []LookInv
<1>. USE DEF Look!Themes, Look!Values
<1>1. Look!Init => LookInv
  BY DEF Look!Init, LookInv, Tabbed, SwitchTellsWhatItRead, HeadTellsWhatItRead
<1>2. LookInv /\ [Look!Next]_(Look!vars) => LookInv'
  <2>. SUFFICES ASSUME LookInv, [Look!Next]_(Look!vars) PROVE LookInv'
    OBVIOUS
  <2>. USE DEF LookInv, Tabbed, SwitchTellsWhatItRead, HeadTellsWhatItRead
  <2>1. CASE UNCHANGED Look!vars
    BY <2>1 DEF Look!vars
  <2>2. ASSUME NEW t \in Tabs, NEW p \in {"list", "details", "docs"}, Look!Load(t, p)
        PROVE  LookInv'
    BY <2>2 DEF Look!Load, Look!Reads, Look!HeadTheme
  <2>3. ASSUME NEW t \in Tabs, NEW p, Look!Mount(t, p)
        PROVE  LookInv'
    BY <2>3 DEF Look!Mount, Look!Reads, Look!Initial
  <2>4. ASSUME NEW t \in Tabs, Look!Bare(t)
        PROVE  LookInv'
    BY <2>4 DEF Look!Bare
  <2>5. ASSUME NEW t \in Tabs, NEW p \in {"list", "details", "docs"}, Look!GoTo(t, p)
        PROVE  LookInv'
    BY <2>3, <2>4, <2>5 DEF Look!GoTo
  <2>6. ASSUME NEW t \in Tabs, Look!FirstRender(t)
        PROVE  LookInv'
    BY <2>3, <2>4, <2>6 DEF Look!FirstRender
  <2>7. ASSUME NEW t \in Tabs, Look!RunEffect(t)
        PROVE  LookInv'
    BY <2>7 DEF Look!RunEffect
  <2>8. ASSUME NEW t \in Tabs, Look!ToggleTheme(t)
        PROVE  LookInv'
    BY <2>8 DEF Look!ToggleTheme, Look!Other
  <2>9. CASE Look!SystemChanges
    BY <2>9 DEF Look!SystemChanges, Look!Other
  <2>. QED
    BY <2>1, <2>2, <2>5, <2>6, <2>7, <2>8, <2>9 DEF Look!Next, Look!Pages
<1>. QED  BY <1>1, <1>2, PTL DEF Look!Spec

\* A step that changes the saved theme is a click, or the effect of a switch
\* that has not read that theme.
LEMMA SavedBySwitch ==
  ASSUME LookInv, Look!Next, saved' # saved, saved \in Look!Themes
  PROVE  \E t \in Tabs : Look!Clicked(t) \/ Look!Outdated(t)
<1>1. ASSUME NEW t \in Tabs, Look!RunEffect(t)
      PROVE  Look!Outdated(t)
  BY <1>1 DEF LookInv, SwitchTellsWhatItRead, Look!RunEffect, Look!Outdated
<1>2. ASSUME NEW t \in Tabs, Look!ToggleTheme(t)
      PROVE  Look!Clicked(t)
  BY <1>2 DEF LookInv, Tabbed, Look!ToggleTheme, Look!Clicked, Look!Other
<1>. QED
  BY <1>1, <1>2 DEF Look!Next, Look!Load, Look!GoTo, Look!FirstRender, Look!Mount, Look!Bare,
                    Look!SystemChanges

\* Only the first render takes a tab from loaded to rendered, and it asks
\* what the script of the head has asked.
LEMMA FirstRenderAgrees ==
  ASSUME LookInv, Look!ThemeAssumption, Look!Next,
         NEW t \in Tabs, phase[t] = "loaded", phase'[t] = "rendered", theme'[t] # shown[t]
  PROVE  read[t] # <<saved, system>> \/ saved = "other"
<1>1. Look!FirstRender(t)
  <2>1. \A u \in Tabs \ {t} : ~Look!FirstRender(u)
    BY DEF Look!FirstRender, Look!Mount, Look!Bare, LookInv, Tabbed
  <2>2. \A u \in Tabs : ~Look!RunEffect(u) /\ ~Look!ToggleTheme(u)
    BY DEF Look!RunEffect, Look!ToggleTheme, LookInv, Tabbed
  <2>3. \A u \in Tabs : \A p : ~Look!Load(u, p) /\ ~Look!GoTo(u, p)
    BY DEF Look!Load, Look!GoTo, Look!Mount, Look!Bare, LookInv, Tabbed
  <2>. QED  BY <2>1, <2>2, <2>3 DEF Look!Next, Look!SystemChanges
<1>2. theme'[t] = Look!Initial
  BY <1>1 DEF Look!FirstRender, Look!Mount, Look!Bare, LookInv, Tabbed
<1>3. shown[t] = (IF read[t][1] = None THEN read[t][2] ELSE read[t][1])
  BY DEF LookInv, HeadTellsWhatItRead
<1>. QED
  BY <1>2, <1>3 DEF Look!Initial, Look!ThemeAssumption, Look!Themes, Look!Values, LookInv, Tabbed

\* A saved look gives way to a click or to a switch that was rendering at that
\* moment, and the first render keeps the look a page was loaded with.
THEOREM LookStays == Look!Spec => LookIsKept
<1> DEFINE Kept == saved' # saved /\ saved \in Look!Themes =>
                     \E t \in Tabs : Look!Clicked(t) \/ Look!Outdated(t)
           Agrees == \A t \in Tabs :
                       (phase[t] = "loaded" /\ phase'[t] = "rendered" /\ theme'[t] # shown[t]) =>
                         (read[t] # <<saved, system>> \/ saved = "other")
<1>1. LookInv /\ [Look!Next]_(Look!vars) => [Kept]_(Look!vars)
  BY SavedBySwitch
<1>2. LookInv /\ [Look!Next]_(Look!vars) => [Agrees]_(Look!vars)
  BY ShownAssumption, FirstRenderAgrees
<1>. QED
  BY <1>1, <1>2, Looks, PTL
  DEF Look!Spec, LookIsKept, Look!SavedLookLostOnlyToStaleSwitch, Look!FirstRenderKeepsLook

(***************************************************************************)
(* What three pages say of one pet.                                        *)
(***************************************************************************)
\* A pet's times are past, and the first update sets the second pair of
\* author and time.
FirstVersion ==
  stored # NoPet => /\ stored.modifiedAt <= viewClock
                    /\ updates = 0 => /\ stored.modifiedBy = stored.createdBy
                                      /\ stored.modifiedAt = stored.createdAt

RowInv == Views!TypeOK /\ FirstVersion

LEMMA RowsAreTyped ==
  ASSUME NEW X, NEW U, NEW Y, NEW V, NEW r \in Views!RowsWith(X, U, Y, V)
  PROVE  /\ r.createdAt \in X /\ r.createdBy \in U /\ r.modifiedAt \in Y /\ r.modifiedBy \in V
         /\ \A Z, W, T, S :
              X \subseteq Z /\ U \subseteq W /\ Y \subseteq T /\ V \subseteq S =>
                r \in Views!RowsWith(Z, W, T, S)
BY DEF Views!RowsWith

LEMMA RowsStayRows == Views!Spec => []RowInv
<1>. USE ShownAssumption DEF Views!ViewsAssumption, RowInv, FirstVersion, Views!TypeOK
<1>1. Views!Init => RowInv
  BY DEF Views!Init
<1>2. RowInv /\ [Views!Next]_(Views!vars) => RowInv'
  <2>. SUFFICES ASSUME RowInv, [Views!Next]_(Views!vars) PROVE RowInv'
    OBVIOUS
  <2>1. CASE UNCHANGED Views!vars
    BY <2>1 DEF Views!vars
  <2>2. CASE Views!Create
    <3>1. PICK u \in Users : stored' \in Views!RowsWith({viewClock}, {u}, {viewClock}, {u})
      BY <2>2 DEF Views!Create
    <3>2. stored' \in Views!StoredPets
      BY <3>1, RowsAreTyped DEF Views!StoredPets
    <3>3. /\ stored'.createdAt = viewClock /\ stored'.modifiedAt = viewClock
          /\ stored'.createdBy = u /\ stored'.modifiedBy = u
      BY <3>1, RowsAreTyped
    <3>. QED  BY <2>2, <3>2, <3>3 DEF Views!Create
  <2>3. CASE Views!Update
    <3>1. /\ stored.createdAt \in Epoch..MaxClock /\ stored.createdBy \in Users
          /\ stored.modifiedAt \in Epoch..MaxClock
      BY <2>3, RowsAreTyped DEF Views!Update, Views!StoredPets
    <3>2. stored' \in Views!RowsWith({stored.createdAt}, {stored.createdBy},
                                    stored.createdAt..viewClock, Users)
      BY <2>3 DEF Views!Update
    <3>3. stored.createdAt..viewClock \subseteq Epoch..MaxClock
      BY <3>1
    <3>4. stored' \in Views!StoredPets
      <4>1. {stored.createdAt} \subseteq Epoch..MaxClock /\ {stored.createdBy} \subseteq Users
        BY <3>1
      <4>. HIDE DEF RowInv, FirstVersion, Views!TypeOK
      <4>2. stored' \in Views!RowsWith(Epoch..MaxClock, Users, Epoch..MaxClock, Users)
        BY <3>2, <3>3, <4>1 DEF Views!RowsWith
      <4>. QED  BY <4>2 DEF Views!StoredPets
    <3>5. stored'.createdAt = stored.createdAt /\ stored'.modifiedAt \in stored.createdAt..viewClock
      BY <3>2 DEF Views!RowsWith
    <3>. QED  BY <2>3, <3>1, <3>4, <3>5 DEF Views!Update
  <2>4. CASE Views!Tick
    BY <2>4, RowsAreTyped DEF Views!Tick, Views!StoredPets
  <2>. QED  BY <2>1, <2>2, <2>3, <2>4 DEF Views!Next
<1>. QED  BY <1>1, <1>2, PTL DEF Views!Spec

\* Times in the same minute are less than a minute apart.
LEMMA SameMinute ==
  ASSUME NEW a \in Nat, NEW b \in Nat, NEW n \in Nat \ {0}, a <= b, a \div n = b \div n
  PROVE  b - a < n
OBVIOUS

\* Two words, one after the other.
LEMMA TwoWords ==
  ASSUME NEW x, NEW y
  PROVE  <<x>> \o <<y>> = <<x, y>>
<1> DEFINE S == {x, y}
<1>1. <<x>> \in Seq(S) /\ <<y>> \in Seq(S) /\ <<x, y>> \in Seq(S)
  OBVIOUS
<1>2. Len(<<x>>) = 1 /\ Len(<<y>>) = 1 /\ Len(<<x, y>>) = 2
  OBVIOUS
<1>. HIDE DEF S
<1>3. <<x>> \o <<y>> \in Seq(S) /\ Len(<<x>> \o <<y>>) = 2
  BY <1>1, <1>2, ConcatProperties
<1>4. \A i \in 1..2 : (<<x>> \o <<y>>)[i] = <<x, y>>[i]
  BY <1>1, <1>2, ConcatProperties
<1>. QED  BY <1>1, <1>2, <1>3, <1>4, SeqEqual

\* An author, and the minute of any second but the first.
LEMMA AuditLineIs ==
  ASSUME NEW author, NEW t \in Nat \ {0}
  PROVE  Views!AuditLine(author, t) = <<Views!OrUnknown(author), t \div Minute>>
<1>1. Views!FormatTimestamp(t) = <<t \div Minute>>
  BY DEF Views!FormatTimestamp
<1>. QED  BY <1>1, TwoWords DEF Views!AuditLine

\* Two of the authors and times of a row make the lines of every page.
LEMMA LinesOfRow ==
  ASSUME RowInv, stored # NoPet
  PROVE  /\ Views!AuditLine(stored.createdBy, stored.createdAt) =
              <<stored.createdBy, stored.createdAt \div Minute>>
         /\ Views!AuditLine(stored.modifiedBy, stored.modifiedAt) =
              <<stored.modifiedBy, stored.modifiedAt \div Minute>>
         /\ Views!UpdatedShown(stored) <=>
              \/ stored.modifiedBy # stored.createdBy
              \/ stored.modifiedAt \div Minute # stored.createdAt \div Minute
         /\ stored.modifiedBy \notin {Views!Empty, "unknown"}
         /\ stored.createdAt \in Nat /\ stored.modifiedAt \in Nat
         /\ stored.createdAt <= stored.modifiedAt
<1>1. /\ stored.createdAt \in Epoch..MaxClock /\ stored.modifiedAt \in Epoch..MaxClock
      /\ stored.createdBy \in Users /\ stored.modifiedBy \in Users
      /\ stored.createdAt <= stored.modifiedAt
  BY DEF RowInv, Views!TypeOK, Views!StoredPets, Views!RowsWith
<1>2. stored.createdAt \in Nat \ {0} /\ stored.modifiedAt \in Nat \ {0}
  BY <1>1, ShownAssumption DEF Views!ViewsAssumption
<1>3. /\ Views!OrUnknown(stored.createdBy) = stored.createdBy
      /\ Views!OrUnknown(stored.modifiedBy) = stored.modifiedBy
      /\ stored.modifiedBy \notin {Views!Empty, "unknown"}
  BY <1>1, ShownAssumption DEF Views!ViewsAssumption, Views!OrUnknown
<1>4. /\ Views!FormatTimestamp(stored.createdAt) = <<stored.createdAt \div Minute>>
      /\ Views!FormatTimestamp(stored.modifiedAt) = <<stored.modifiedAt \div Minute>>
  BY <1>2 DEF Views!FormatTimestamp
<1>5. /\ Views!AuditLine(stored.createdBy, stored.createdAt) =
           <<stored.createdBy, stored.createdAt \div Minute>>
      /\ Views!AuditLine(stored.modifiedBy, stored.modifiedAt) =
           <<stored.modifiedBy, stored.modifiedAt \div Minute>>
  BY <1>2, <1>3, AuditLineIs
<1>6. Views!UpdatedShown(stored) <=>
        \/ stored.modifiedBy # stored.createdBy
        \/ stored.modifiedAt \div Minute # stored.createdAt \div Minute
  BY <1>3, <1>4 DEF Views!UpdatedShown
<1>. QED  BY <1>1, <1>2, <1>3, <1>5, <1>6

\* The "Updated" line is missing when there was no update, or none that the
\* author and the minute tell from the creation.
LEMMA UpdatedLine ==
  ASSUME RowInv PROVE Views!UpdatedLineTells
<1>. SUFFICES ASSUME stored # NoPet
     PROVE  LET line == Views!ListRow(stored).updated IN
            /\ updates = 0 => line = <<>>
            /\ line = <<>> => /\ stored.modifiedBy = stored.createdBy
                              /\ stored.modifiedAt - stored.createdAt < Minute
  BY DEF Views!UpdatedLineTells
<1>1. Views!ListRow(stored).updated =
        IF Views!UpdatedShown(stored)
          THEN <<stored.modifiedBy, stored.modifiedAt \div Minute>> ELSE <<>>
  BY LinesOfRow DEF Views!ListRow
<1>2. updates = 0 => ~Views!UpdatedShown(stored)
  BY LinesOfRow DEF RowInv, FirstVersion
<1>3. Minute \in Nat \ {0}
  BY ShownAssumption DEF Views!ViewsAssumption
<1>4. ~Views!UpdatedShown(stored) =>
        /\ stored.modifiedBy = stored.createdBy
        /\ stored.modifiedAt - stored.createdAt < Minute
  BY <1>3, LinesOfRow, SameMinute
<1>5. <<stored.modifiedBy, stored.modifiedAt \div Minute>> # <<>>
  OBVIOUS
<1>. QED  BY <1>1, <1>2, <1>4, <1>5

\* Whatever row the table holds, the list, the details page and the edit page
\* tell the same of it, and the list tells of its last update.
THEOREM PagesTellTheSame == Views!Spec => []PagesAgree
<1>1. ASSUME RowInv, stored # NoPet
      PROVE  /\ Views!ListRow(stored).status = Views!DetailsHead(stored).status
             /\ Views!DetailsHead(stored).status = Views!PetInformation(stored).status
  BY DEF Views!ListRow, Views!DetailsHead, Views!PetInformation
<1>2. ASSUME RowInv, stored # NoPet
      PROVE  /\ Views!ListRow(stored).created = Views!AuditAndIdentity(stored).created
             /\ Views!AuditAndIdentity(stored) = Views!AuditInformation(stored)
             /\ Views!ListRow(stored).updated \in {Views!AuditAndIdentity(stored).modified, <<>>}
             /\ Views!ListRow(stored).updated = <<>> =>
                  Views!AuditAndIdentity(stored).modified = Views!AuditAndIdentity(stored).created
  BY <1>2, LinesOfRow DEF Views!ListRow, Views!AuditAndIdentity, Views!AuditInformation
<1>3. ASSUME RowInv, stored # NoPet
      PROVE  /\ Views!ListRow(stored).age = <<"AgeUnknown">> <=>
                  Views!PetInformation(stored).birthDate = <<"Unknown">>
             /\ Views!DetailsHead(stored).age = <<"AgeUnknown">> <=>
                  Views!PetInformation(stored).age = <<>>
             /\ Len(Views!ListRow(stored).age) = Len(Views!PetInformation(stored).birthDate)
  <2> DEFINE d == stored.birthDate
  <2>1. d # Views!Empty => d # "Unknown" /\ d # "AgeUnknown"
    <3>1. d \in Dates \cup {Views!Empty}
      BY <1>3 DEF RowInv, Views!TypeOK, Views!StoredPets, Views!RowsWith
    <3>. QED  BY <3>1, ShownAssumption DEF Views!ViewsAssumption
  <2>2. CASE d = Views!Empty
    BY <2>2 DEF Views!ListRow, Views!DetailsHead, Views!PetInformation, Views!FormatBirthDate
  <2>3. CASE d # Views!Empty /\ stored.birthDateEstimated
    <3>1. /\ Views!ListRow(stored).age = <<d, "est">>
          /\ Views!PetInformation(stored).birthDate = <<d, "estimated">>
          /\ Views!DetailsHead(stored).age = <<d>> /\ Views!PetInformation(stored).age = <<d>>
      BY <2>3, TwoWords DEF Views!ListRow, Views!DetailsHead, Views!PetInformation,
                            Views!FormatBirthDate, Views!CalculateAge
    <3>. QED  BY <2>1, <2>3, <3>1
  <2>4. CASE d # Views!Empty /\ ~stored.birthDateEstimated
    <3>1. /\ Views!ListRow(stored).age = <<d>>
          /\ Views!PetInformation(stored).birthDate = <<d>>
          /\ Views!DetailsHead(stored).age = <<d>> /\ Views!PetInformation(stored).age = <<d>>
      BY <2>4 DEF Views!ListRow, Views!DetailsHead, Views!PetInformation,
                  Views!FormatBirthDate, Views!CalculateAge
    <3>. QED  BY <2>1, <2>4, <3>1
  <2>. QED  BY <2>2, <2>3, <2>4
<1>4. ASSUME RowInv, stored # NoPet, Views!ListRow(stored).photo # <<>>
      PROVE  Head(Views!ListRow(stored).photo) = Head(Views!PetInformation(stored).photos)
  <2>1. Views!PetInformation(stored).photos = stored.photoUrls /\ stored.photoUrls # <<>>
    BY <1>4 DEF Views!ListRow, Views!PetInformation
  <2>2. Views!ListRow(stored).photo = <<Head(stored.photoUrls)>>
    BY <2>1 DEF Views!ListRow
  <2>. QED  BY <2>1, <2>2
<1>5. RowInv => PagesAgree
  BY <1>1, <1>2, <1>3, <1>4, UpdatedLine DEF PagesAgree, Views!PagesAgree
<1>. QED  BY <1>5, RowsStayRows, PTL

(***************************************************************************)
(* Places.  Of rows M with the times c, the place of a row is the number   *)
(* of rows listed before it.                                               *)
(***************************************************************************)
Newer(c, p, q) == c[p] > c[q] \/ (c[p] = c[q] /\ p > q)
NewerThan(M, c, p) == {q \in M : Newer(c, q, p)}
Place(M, c, p) == Cardinality(NewerThan(M, c, p))

\* Finite sets of pets, and the times of their rows.
Rows(M, c) == M \subseteq Nat /\ IsFiniteSet(M) /\ \A p \in M : c[p] \in Nat

LEMMA CountUpTo ==
  ASSUME NEW n \in Nat
  PROVE  IsFiniteSet(1..n) /\ Cardinality(1..n) = n
BY FS_Interval

LEMMA NewerIsTotal ==
  ASSUME NEW M, NEW c, Rows(M, c)
  PROVE  /\ \A p \in M : ~Newer(c, p, p)
         /\ \A p, q, r \in M : Newer(c, p, q) /\ Newer(c, q, r) => Newer(c, p, r)
         /\ \A p, q \in M : p = q \/ Newer(c, p, q) \/ Newer(c, q, p)
BY DEF Rows, Newer

LEMMA PlacesAreNumbers ==
  ASSUME NEW M, NEW c, Rows(M, c), NEW p \in M
  PROVE  /\ IsFiniteSet(NewerThan(M, c, p))
         /\ Cardinality(M) \in Nat /\ Place(M, c, p) \in 0..(Cardinality(M) - 1)
<1>1. NewerThan(M, c, p) \subseteq M \ {p}
  BY NewerIsTotal DEF NewerThan
<1>2. /\ IsFiniteSet(M \ {p}) /\ Cardinality(M \ {p}) = Cardinality(M) - 1
      /\ Cardinality(M) \in Nat
  BY FS_RemoveElement, FS_CardinalityType DEF Rows
<1>3. IsFiniteSet(NewerThan(M, c, p)) /\ Cardinality(NewerThan(M, c, p)) <= Cardinality(M) - 1
  BY <1>1, <1>2, FS_Subset
<1>. QED
  BY <1>2, <1>3, FS_CardinalityType DEF Place

LEMMA PlacesAreOrdered ==
  ASSUME NEW M, NEW c, Rows(M, c), NEW p \in M, NEW q \in M, Newer(c, p, q)
  PROVE  Place(M, c, p) < Place(M, c, q)
<1>1. NewerThan(M, c, p) \cup {p} \subseteq NewerThan(M, c, q) /\ p \notin NewerThan(M, c, p)
  BY NewerIsTotal DEF NewerThan
<1>2. /\ IsFiniteSet(NewerThan(M, c, p)) /\ IsFiniteSet(NewerThan(M, c, q))
      /\ Place(M, c, p) \in Int /\ Place(M, c, q) \in Int
  BY PlacesAreNumbers
<1>3. Cardinality(NewerThan(M, c, p) \cup {p}) = Place(M, c, p) + 1
  BY <1>1, <1>2, FS_AddElement DEF Place
<1>4. Place(M, c, p) + 1 <= Place(M, c, q)
  BY <1>1, <1>2, <1>3, FS_Subset DEF Place
<1>. QED
  BY <1>2, <1>4

LEMMA PlacesDiffer ==
  ASSUME NEW M, NEW c, Rows(M, c), NEW p \in M, NEW q \in M, Place(M, c, p) = Place(M, c, q)
  PROVE  p = q
<1>1. ~Newer(c, p, q) /\ ~Newer(c, q, p)
  <2>1. Place(M, c, p) \in Int /\ Place(M, c, q) \in Int
    BY PlacesAreNumbers
  <2>. QED
    BY <2>1, PlacesAreOrdered
<1>. QED
  BY <1>1, NewerIsTotal

\* A row that goes moves the rows behind it up by one.
LEMMA RowsMoveUp ==
  ASSUME NEW M, NEW c, Rows(M, c), NEW x \in M, NEW p \in M \ {x}
  PROVE  Place(M \ {x}, c, p) = IF Newer(c, x, p) THEN Place(M, c, p) - 1 ELSE Place(M, c, p)
<1>1. NewerThan(M \ {x}, c, p) = NewerThan(M, c, p) \ {x}
  BY DEF NewerThan
<1>2. x \in NewerThan(M, c, p) <=> Newer(c, x, p)
  BY DEF NewerThan
<1>3. IsFiniteSet(NewerThan(M, c, p))
  BY PlacesAreNumbers
<1>. QED
  BY <1>1, <1>2, <1>3, FS_RemoveElement DEF Place

\* All rows, newest first.
Listing(M, c, s) ==
  /\ s \in [1..Cardinality(M) -> M]
  /\ \A i, j \in 1..Cardinality(M) : i # j => s[i] # s[j]
  /\ \A i, j \in 1..Cardinality(M) : i < j => Newer(c, s[i], s[j])

\* In a listing every row stands at its place.
LEMMA ListedAtTheirPlaces ==
  ASSUME NEW M, NEW c, Rows(M, c), NEW s, Listing(M, c, s)
  PROVE  /\ \A p \in M : \E i \in 1..Cardinality(M) : s[i] = p
         /\ \A i \in 1..Cardinality(M) : Place(M, c, s[i]) = i - 1
<1> DEFINE n == Cardinality(M)
<1>0. /\ s \in [1..n -> M]
      /\ \A i, j \in 1..n : i # j => s[i] # s[j]
      /\ \A i, j \in 1..n : i < j => Newer(c, s[i], s[j])
  BY DEF Listing
<1>1. n \in Nat /\ IsFiniteSet(1..n) /\ Cardinality(1..n) = n
  BY FS_CardinalityType, FS_Interval DEF Rows
<1>2. s \in Injection(1..n, M)
  BY <1>0, Fun_IsInj
<1>3. s \in Surjection(1..n, M)
  BY <1>1, <1>2, FS_Injection DEF Rows
<1>4. \A p \in M : \E i \in 1..n : s[i] = p
  BY <1>3 DEF Surjection
<1>5. ASSUME NEW i \in 1..n
      PROVE  Place(M, c, s[i]) = i - 1
  <2> DEFINE before == [j \in 1..(i - 1) |-> s[j]]
  <2>1. \A j \in 1..(i - 1) : j \in 1..n /\ j < i
    BY <1>1
  <2>2. before \in [1..(i - 1) -> NewerThan(M, c, s[i])]
    BY <1>0, <2>1 DEF NewerThan
  <2>3. \A j, k \in 1..(i - 1) : before[j] = before[k] => j = k
    BY <1>0, <2>1
  <2>4. ASSUME NEW p \in NewerThan(M, c, s[i])
        PROVE  \E j \in 1..(i - 1) : before[j] = p
    <3>1. PICK j \in 1..n : s[j] = p
      BY <1>4 DEF NewerThan
    <3>2. ~(i < j) /\ i # j
      <4>1. Newer(c, p, s[i]) /\ p \in M /\ s[i] \in M
        BY <1>0 DEF NewerThan
      <4>2. ~Newer(c, s[i], p) /\ p # s[i]
        BY <4>1, NewerIsTotal
      <4>. QED
        BY <1>0, <3>1, <4>2
    <3>3. j \in 1..(i - 1)
      BY <1>1, <3>2
    <3>. QED
      BY <3>1, <3>3
  <2>. HIDE DEF before
  <2>5. before \in Bijection(1..(i - 1), NewerThan(M, c, s[i]))
    BY <2>2, <2>3, <2>4, Fun_IsBij
  <2>6. IsFiniteSet(1..(i - 1)) /\ Cardinality(1..(i - 1)) = i - 1
    BY <1>1, CountUpTo
  <2>7. Cardinality(NewerThan(M, c, s[i])) = i - 1
    BY <2>5, <2>6, FS_Bijection, Fun_ExistsBij
  <2>. QED
    BY <2>7 DEF Place
<1>. QED
  BY <1>4, <1>5

\* LIMIT size OFFSET first: the rows at the places from first on, each once.
PageAt(M, c, first, size) == {p \in M : Place(M, c, p) >= first /\ Place(M, c, p) < first + size}

\* What is cut out of the listing s is the rows of the page, in a sequence.
CutsPage(M, c, s, first, size, last) ==
  LET cut == SubSeq(s, first + 1, last)
      rows == PageAt(M, c, first, size)
  IN  /\ cut \in Seq(M) /\ Len(cut) = Cardinality(rows) /\ Len(cut) <= size
      /\ {cut[i] : i \in 1..Len(cut)} = rows /\ IsFiniteSet(rows)

LEMMA PageIsCut ==
  ASSUME NEW M, NEW c, Rows(M, c), NEW s, Listing(M, c, s),
         NEW first \in Nat, NEW size \in Nat, NEW last \in Nat,
         last = IF first + size < Cardinality(M) THEN first + size ELSE Cardinality(M)
  PROVE  CutsPage(M, c, s, first, size, last)
<1>a. /\ \A p \in M : \E i \in 1..Cardinality(M) : s[i] = p
      /\ \A i \in 1..Cardinality(M) : Place(M, c, s[i]) = i - 1
  BY ListedAtTheirPlaces
<1> DEFINE n == Cardinality(M)
           cut == SubSeq(s, first + 1, last)
           len == IF first + 1 <= last THEN last - first ELSE 0
           rows == PageAt(M, c, first, size)
<1>0. /\ s \in [1..n -> M]
      /\ \A i, j \in 1..n : i # j => s[i] # s[j]
  BY DEF Listing
<1>1. n \in Nat /\ last <= n /\ len \in Nat
  BY FS_CardinalityType DEF Rows
<1>2. /\ \A p \in M : \E i \in 1..n : s[i] = p
      /\ \A i \in 1..n : Place(M, c, s[i]) = i - 1
  BY <1>a
<1>3. cut \in Seq(M) /\ Len(cut) = len /\ \A i \in 1..len : cut[i] = s[first + i]
  <2>1. first + 1 \in Int /\ last \in Int /\ \A i \in (first + 1)..last : s[i] \in M
    BY <1>0, <1>1
  <2>2. /\ SubSeq(s, first + 1, last) \in Seq(M)
        /\ Len(SubSeq(s, first + 1, last))
             = IF first + 1 <= last THEN last - (first + 1) + 1 ELSE 0
        /\ \A i \in 1..(last - (first + 1) + 1) :
             SubSeq(s, first + 1, last)[i] = s[first + 1 + i - 1]
    BY <2>1, SubSeqProperties
  <2>3. \A i \in 1..len : i \in 1..(last - (first + 1) + 1) /\ first + 1 + i - 1 = first + i
    BY <1>1
  <2>. QED
    BY <2>2, <2>3
<1>. HIDE DEF cut
<1>4. ASSUME NEW i \in 1..len
      PROVE  first + i \in 1..n /\ cut[i] \in rows
  <2>1. first + i \in 1..n /\ first + i <= last /\ last <= first + size
    BY <1>1
  <2>2. s[first + i] \in M /\ Place(M, c, s[first + i]) = first + i - 1
    BY <1>0, <1>2, <2>1
  <2>3. s[first + i] \in rows
    BY <2>1, <2>2 DEF PageAt
  <2>. QED
    BY <1>3, <2>1, <2>3
<1>5. ASSUME NEW p \in rows
      PROVE  \E i \in 1..len : cut[i] = p
  <2>1. PICK j \in 1..n : s[j] = p
    BY <1>2 DEF PageAt
  <2>2. j - 1 >= first /\ j - 1 < first + size
    BY <1>2, <2>1 DEF PageAt
  <2>3. j - first \in 1..len /\ first + (j - first) = j
    BY <1>1, <2>2
  <2>. QED
    BY <1>3, <2>1, <2>3
<1>6. ASSUME NEW i \in 1..len, NEW j \in 1..len, cut[i] = cut[j]
      PROVE  i = j
  BY <1>0, <1>3, <1>4, <1>6
<1> DEFINE f == [i \in 1..len |-> cut[i]]
<1>7. f \in Bijection(1..len, rows)
  <2>1. f \in [1..len -> rows]
    BY <1>4
  <2>2. \A i, j \in 1..len : f[i] = f[j] => i = j
    BY <1>6
  <2>3. \A p \in rows : \E i \in 1..len : f[i] = p
    BY <1>5
  <2>. HIDE DEF f, rows, len
  <2>. QED
    BY <2>1, <2>2, <2>3, Fun_IsBij
<1>8. IsFiniteSet(rows) /\ Cardinality(rows) = len
  <2>1. IsFiniteSet(1..len) /\ Cardinality(1..len) = len
    BY <1>1, CountUpTo
  <2>. HIDE DEF f, rows, len
  <2>. QED
    BY <1>7, <2>1, FS_Bijection, Fun_ExistsBij
<1>9. len <= size
  BY <1>1
<1>10. {cut[i] : i \in 1..len} = rows
  BY <1>4, <1>5
<1>. HIDE DEF rows, len
<1>11. cut \in Seq(M) /\ Len(cut) = Cardinality(rows) /\ {cut[i] : i \in 1..Len(cut)} = rows
       /\ Len(cut) <= size /\ IsFiniteSet(rows)
  BY <1>3, <1>8, <1>9, <1>10
<1>. QED
  BY <1>11 DEF cut, rows, CutsPage

(***************************************************************************)
(* Of the rows M with the times c, what a reader of the first k rows has   *)
(* missed, and what will come again: S are the pets that stayed, shown     *)
(* those that were on a page.                                              *)
(***************************************************************************)
MissedAt(S, shownPets, M, c, k) == {p \in S \ shownPets : Place(M, c, p) < k}
PushedAt(shownPets, M, c, k) == {p \in shownPets \cap M : Place(M, c, p) >= k}

LEMMA MissedAndPushedAreCounted ==
  ASSUME NEW M, NEW c, Rows(M, c), NEW S \in SUBSET M, NEW B, NEW k
  PROVE  /\ IsFiniteSet(MissedAt(S, B, M, c, k)) /\ Cardinality(MissedAt(S, B, M, c, k)) \in Nat
         /\ IsFiniteSet(PushedAt(B, M, c, k)) /\ Cardinality(PushedAt(B, M, c, k)) \in Nat
<1>1. MissedAt(S, B, M, c, k) \subseteq M /\ PushedAt(B, M, c, k) \subseteq M
  BY DEF MissedAt, PushedAt
<1>. QED
  BY <1>1, FS_Subset, FS_CardinalityType DEF Rows

LEMMA FewerRows ==
  ASSUME NEW M, NEW c, Rows(M, c), NEW x
  PROVE  Rows(M \ {x}, c)
BY FS_RemoveElement DEF Rows

LEMMA OnePlaceOneRow ==
  ASSUME NEW M, NEW c, Rows(M, c), NEW k, NEW A, NEW D \in SUBSET M, NEW C, C \subseteq A \cup D,
         IsFiniteSet(A), IsFiniteSet(C), \A p \in D : Place(M, c, p) = k
  PROVE  Cardinality(C) <= Cardinality(A) + 1
<1>1. Cardinality(A) \in Nat /\ Cardinality(C) \in Nat
  BY FS_CardinalityType
<1>2. CASE D = {}
  <2>1. Cardinality(C) <= Cardinality(A)
    BY <1>2, FS_Subset
  <2>. QED
    BY <1>1, <2>1
<1>3. ASSUME NEW d \in D
      PROVE  Cardinality(C) <= Cardinality(A) + 1
  <2>1. D = {d}
    BY PlacesDiffer
  <2>2. /\ IsFiniteSet(A \cup {d}) /\ C \subseteq A \cup {d}
        /\ Cardinality(A \cup {d}) <= Cardinality(A) + 1
        /\ Cardinality(A \cup {d}) \in Nat
    <3>1. IsFiniteSet(A \cup {d}) /\ Cardinality(A \cup {d}) \in Nat
      BY FS_AddElement, FS_CardinalityType
    <3>2. Cardinality(A \cup {d}) = IF d \in A THEN Cardinality(A) ELSE Cardinality(A) + 1
      BY FS_AddElement
    <3>. QED
      BY <1>1, <2>1, <3>1, <3>2
  <2>3. Cardinality(C) <= Cardinality(A \cup {d})
    BY <2>2, FS_Subset
  <2>. QED
    BY <1>1, <2>2, <2>3
<1>. QED
  BY <1>2, <1>3

\* A departure makes a reader miss one row at most, and repeat none.
LEMMA DeparturesMiss ==
  ASSUME NEW M, NEW c, Rows(M, c), NEW S \in SUBSET M, NEW B, NEW k \in Nat, NEW x \in M
  PROVE  /\ Cardinality(MissedAt(S \ {x}, B, M \ {x}, c, k)) <= Cardinality(MissedAt(S, B, M, c, k)) + 1
         /\ Cardinality(PushedAt(B, M \ {x}, c, k)) <= Cardinality(PushedAt(B, M, c, k))
<1>1. Rows(M \ {x}, c) /\ S \ {x} \in SUBSET (M \ {x})
  BY FewerRows
<1>2. \A p \in M \ {x} :
        /\ Place(M, c, p) \in Nat /\ Place(M \ {x}, c, p) \in Nat
        /\ Place(M \ {x}, c, p) \in {Place(M, c, p), Place(M, c, p) - 1}
  BY <1>1, RowsMoveUp, PlacesAreNumbers
<1> DEFINE edge == {p \in M : Place(M, c, p) = k}
<1>3. MissedAt(S \ {x}, B, M \ {x}, c, k) \subseteq MissedAt(S, B, M, c, k) \cup edge
  BY <1>2 DEF MissedAt
<1>4. PushedAt(B, M \ {x}, c, k) \subseteq PushedAt(B, M, c, k)
  BY <1>2 DEF PushedAt
<1>5. /\ IsFiniteSet(MissedAt(S \ {x}, B, M \ {x}, c, k)) /\ IsFiniteSet(MissedAt(S, B, M, c, k))
      /\ IsFiniteSet(PushedAt(B, M, c, k))
  BY <1>1, MissedAndPushedAreCounted
<1>6. edge \in SUBSET M /\ \A p \in edge : Place(M, c, p) = k
  OBVIOUS
<1>. HIDE DEF edge
<1>7. IsFiniteSet(MissedAt(S \ {x}, B, M \ {x}, c, k))
  BY <1>5
<1>8. Cardinality(MissedAt(S \ {x}, B, M \ {x}, c, k)) <= Cardinality(MissedAt(S, B, M, c, k)) + 1
  BY <1>3, <1>5, <1>6, OnePlaceOneRow
<1>9. Cardinality(PushedAt(B, M \ {x}, c, k)) <= Cardinality(PushedAt(B, M, c, k))
  BY <1>4, <1>5, FS_Subset
<1>. QED
  BY <1>8, <1>9

\* An arrival makes a reader see one row again at most, and miss none.
LEMMA ArrivalsRepeat ==
  ASSUME NEW M, NEW c, Rows(M, c), NEW x \in M, NEW S \in SUBSET (M \ {x}), NEW B, NEW k \in Nat
  PROVE  /\ Cardinality(MissedAt(S, B, M, c, k)) <= Cardinality(MissedAt(S, B, M \ {x}, c, k))
         /\ Cardinality(PushedAt(B, M, c, k)) <= Cardinality(PushedAt(B, M \ {x}, c, k)) + 1
<1>1. Rows(M \ {x}, c) /\ S \in SUBSET M
  BY FewerRows
<1>2. \A p \in M \ {x} :
        /\ Place(M, c, p) \in Nat /\ Place(M \ {x}, c, p) \in Nat
        /\ Place(M \ {x}, c, p) = IF Newer(c, x, p) THEN Place(M, c, p) - 1 ELSE Place(M, c, p)
  BY <1>1, RowsMoveUp, PlacesAreNumbers
<1>3. MissedAt(S, B, M, c, k) \subseteq MissedAt(S, B, M \ {x}, c, k)
  BY <1>2 DEF MissedAt
<1>4. /\ IsFiniteSet(MissedAt(S, B, M \ {x}, c, k))
      /\ IsFiniteSet(PushedAt(B, M, c, k)) /\ IsFiniteSet(PushedAt(B, M \ {x}, c, k))
  BY <1>1, MissedAndPushedAreCounted
<1>5. \E j : \E D \in SUBSET M :
        /\ PushedAt(B, M, c, k) \subseteq PushedAt(B, M \ {x}, c, k) \cup D
        /\ \A p \in D : Place(M, c, p) = j
  <2>1. Place(M, c, x) \in Nat
    BY PlacesAreNumbers
  <2>2. CASE Place(M, c, x) >= k
    <3>1. ASSUME NEW p \in PushedAt(B, M, c, k), p # x
          PROVE  p \in PushedAt(B, M \ {x}, c, k)
      <4>1. p \in M \ {x} /\ p \in B /\ Place(M, c, p) >= k
        BY <3>1 DEF PushedAt
      <4>2. Newer(c, x, p) => Place(M, c, x) < Place(M, c, p)
        BY <4>1, PlacesAreOrdered
      <4>3. Place(M \ {x}, c, p) >= k
        <5>1. Place(M, c, p) \in Nat
          BY <1>2, <4>1
        <5>2. CASE Newer(c, x, p)
          <6>1. Place(M \ {x}, c, p) = Place(M, c, p) - 1 /\ Place(M, c, x) < Place(M, c, p)
            BY <1>2, <4>1, <4>2, <5>2
          <6>. QED
            BY <2>1, <2>2, <5>1, <6>1
        <5>3. CASE ~Newer(c, x, p)
          BY <1>2, <4>1, <5>3
        <5>. QED
          BY <5>2, <5>3
      <4>. QED
        BY <4>1, <4>3 DEF PushedAt
    <3>2. PushedAt(B, M, c, k) \subseteq PushedAt(B, M \ {x}, c, k) \cup {x}
      BY <3>1
    <3>3. {x} \in SUBSET M /\ \A p \in {x} : Place(M, c, p) = Place(M, c, x)
      OBVIOUS
    <3>. QED
      BY <3>2, <3>3
  <2>3. CASE ~(Place(M, c, x) >= k)
    <3> DEFINE edge == {p \in M : Place(M, c, p) = k}
    <3>1. ASSUME NEW p \in PushedAt(B, M, c, k)
          PROVE  p \in PushedAt(B, M \ {x}, c, k) \/ p \in edge
      <4>1. p \in M \ {x} /\ p \in B /\ Place(M, c, p) >= k
        BY <2>3 DEF PushedAt
      <4>. QED
        BY <1>2, <4>1 DEF PushedAt
    <3>2. /\ PushedAt(B, M, c, k) \subseteq PushedAt(B, M \ {x}, c, k) \cup edge
          /\ edge \in SUBSET M /\ \A p \in edge : Place(M, c, p) = k
      BY <3>1
    <3>. HIDE DEF edge
    <3>. QED
      BY <3>2
  <2>. QED
    BY <2>2, <2>3
<1>. QED
  BY <1>3, <1>4, <1>5, FS_Subset, OnePlaceOneRow

\* Reading a page misses nothing new, and what it repeats was to be repeated.
RepeatsThePushed(M, c, S, B, first, size, rows) ==
  /\ Cardinality(MissedAt(S, B \cup rows, M, c, first + size))
       <= Cardinality(MissedAt(S, B, M, c, first))
  /\ IsFiniteSet(B \cup rows) /\ Cardinality(B \cup rows) \in Nat
  /\ Cardinality(rows) - Cardinality(B \cup rows)
       + Cardinality(PushedAt(B \cup rows, M, c, first + size))
     = Cardinality(PushedAt(B, M, c, first)) - Cardinality(B)

LEMMA PagesRepeatThePushed ==
  ASSUME NEW M, NEW c, Rows(M, c), NEW S \in SUBSET M, NEW B, IsFiniteSet(B),
         NEW first \in Nat, NEW size \in Nat, NEW rows, rows = PageAt(M, c, first, size)
  PROVE  RepeatsThePushed(M, c, S, B, first, size, rows)
<1> DEFINE again == B \cap rows
           later == PushedAt(B \cup rows, M, c, first + size)
<1>1. \A p \in M : Place(M, c, p) \in Nat
  BY PlacesAreNumbers
<1>2. MissedAt(S, B \cup rows, M, c, first + size) \subseteq MissedAt(S, B, M, c, first)
  BY <1>1 DEF MissedAt, PageAt
<1>3. PushedAt(B, M, c, first) = later \cup again /\ later \cap again = {}
  BY <1>1 DEF PushedAt, PageAt
<1>4. IsFiniteSet(rows) /\ IsFiniteSet(again)
  <2>1. rows \subseteq M /\ again \subseteq B
    BY DEF PageAt
  <2>. QED
    BY <2>1, FS_Subset DEF Rows
<1>5. /\ IsFiniteSet(MissedAt(S, B, M, c, first)) /\ IsFiniteSet(later)
      /\ IsFiniteSet(PushedAt(B, M, c, first))
  BY MissedAndPushedAreCounted
<1>. HIDE DEF again, later
<1>6. Cardinality(later \cup again) = Cardinality(later) + Cardinality(again)
  <2>1. Cardinality(later \cup again)
          = Cardinality(later) + Cardinality(again) - Cardinality(later \cap again)
    BY <1>4, <1>5, FS_Union
  <2>2. Cardinality(later \cap again) = 0
    BY <1>3, FS_EmptySet
  <2>3. Cardinality(later) \in Nat /\ Cardinality(again) \in Nat
    BY <1>4, <1>5, FS_CardinalityType
  <2>. QED
    BY <2>1, <2>2, <2>3
<1>7. /\ IsFiniteSet(B \cup rows)
      /\ Cardinality(B \cup rows) = Cardinality(B) + Cardinality(rows) - Cardinality(again)
  BY <1>4, FS_Union DEF again
<1>8. /\ Cardinality(B) \in Nat /\ Cardinality(rows) \in Nat /\ Cardinality(again) \in Nat
      /\ Cardinality(later) \in Nat /\ Cardinality(B \cup rows) \in Nat
  BY <1>4, <1>5, <1>7, FS_CardinalityType
<1>9. Cardinality(MissedAt(S, B \cup rows, M, c, first + size))
        <= Cardinality(MissedAt(S, B, M, c, first))
  BY <1>2, <1>5, FS_Subset
<1>10. Cardinality(rows) - Cardinality(B \cup rows) + Cardinality(later)
         = Cardinality(PushedAt(B, M, c, first)) - Cardinality(B)
  BY <1>3, <1>6, <1>7, <1>8
<1>. QED
  BY <1>7, <1>8, <1>9, <1>10 DEF later, RepeatsThePushed

(***************************************************************************)
(* The walk.  The reader has gone through the first NextRow rows.          *)
(***************************************************************************)
NextRow == IF reader = "reading" THEN page * PageSize ELSE page * PageSize + PageSize

Missed == MissedAt(stayed, Walk!Shown, Walk!Matching, created, NextRow)
Pushed == PushedAt(Walk!Shown, Walk!Matching, created, NextRow)

WalkTyped ==
  /\ row \in [Pets -> {"absent", "inserting", "matching", "other", "deleted"}]
  /\ created \in [Pets -> Nat]
  /\ clock \in Nat
  /\ page \in Nat
  /\ reader \in {"reading", "counting", "done"}
  /\ seen \in Seq(Pets)
  /\ stayed \in SUBSET Walk!Matching
  /\ arrivals \in Nat /\ departures \in Nat

\* Every row missed so far is a departure's, and every row repeated, or about
\* to be, is an arrival's.
WalkInv ==
  /\ WalkTyped
  /\ Cardinality(Missed) <= departures
  /\ Len(seen) - Cardinality(Walk!Shown) + Cardinality(Pushed) <= arrivals
  /\ Len(seen) <= NextRow
  /\ reader = "done" => Cardinality(Walk!Matching) <= NextRow

LEMMA SameSets ==
  \A S : Walk!Cardinality(S) = Cardinality(S) /\ (Walk!IsFiniteSet(S) <=> IsFiniteSet(S))
BY Zenon DEF Walk!Cardinality, Cardinality, Walk!IsFiniteSet, IsFiniteSet

LEMMA WalkConstants ==
  Pets \subseteq Nat /\ IsFiniteSet(Pets) /\ PageSize \in Nat \ {0}
BY ShownAssumption, SameSets DEF Walk!WalkAssumption

LEMMA PetsAreRows ==
  ASSUME NEW M \in SUBSET Pets, NEW c \in [Pets -> Nat]
  PROVE  Rows(M, c)
<1>1. IsFiniteSet(M)
  BY WalkConstants, FS_Subset
<1>. QED
  BY <1>1, WalkConstants DEF Rows

\* The pets on a sequence of pages.
LEMMA ShownAreCounted ==
  ASSUME NEW s \in Seq(Pets)
  PROVE  /\ {s[i] : i \in DOMAIN s} \in SUBSET Pets
         /\ IsFiniteSet({s[i] : i \in DOMAIN s})
         /\ Cardinality({s[i] : i \in DOMAIN s}) \in Nat /\ Len(s) \in Nat
<1>1. {s[i] : i \in DOMAIN s} \subseteq Pets
  BY LenProperties
<1>2. IsFiniteSet({s[i] : i \in DOMAIN s})
  BY <1>1, WalkConstants, FS_Subset
<1>. QED
  BY <1>1, <1>2, FS_CardinalityType, LenProperties

LEMMA NextRows ==
  ASSUME NEW p \in Nat
  PROVE  /\ p * PageSize \in Nat /\ p * PageSize + PageSize \in Nat
         /\ (p + 1) * PageSize = p * PageSize + PageSize
BY WalkConstants

LEMMA FirstWalk ==
  ASSUME Walk!Init
  PROVE  WalkInv
<1>1. WalkTyped
  BY ShownAssumption DEF Walk!Init, WalkTyped, Walk!WalkAssumption
<1>2. Walk!Shown = {} /\ Len(seen) = 0 /\ page * PageSize = 0
  BY WalkConstants DEF Walk!Init, Walk!Shown
<1>3. Missed = {} /\ Pushed = {}
  <2>1. Rows(Walk!Matching, created)
    BY <1>1, PetsAreRows DEF WalkTyped, Walk!Matching
  <2>2. \A p \in Walk!Matching : ~(Place(Walk!Matching, created, p) < 0)
    BY <2>1, PlacesAreNumbers
  <2>3. NextRow = 0 /\ stayed \subseteq Walk!Matching
    BY <1>2 DEF Walk!Init, NextRow
  <2>. QED
    BY <1>2, <2>2, <2>3 DEF Missed, Pushed, MissedAt, PushedAt
<1>4. Cardinality({}) = 0
  BY FS_EmptySet
<1>. QED
  BY <1>1, <1>2, <1>3, <1>4 DEF WalkInv, Walk!Init, NextRow

\* Facts about a state of the walk that its steps use.
LEMMA WalkFacts ==
  ASSUME WalkTyped
  PROVE  /\ Walk!Matching \in SUBSET Pets /\ Rows(Walk!Matching, created)
         /\ Walk!Shown \in SUBSET Pets /\ IsFiniteSet(Walk!Shown)
         /\ Cardinality(Walk!Shown) \in Nat /\ Len(seen) \in Nat
         /\ Cardinality(Missed) \in Nat /\ Cardinality(Pushed) \in Nat
         /\ NextRow \in Nat
<1>1. Walk!Matching \in SUBSET Pets /\ Rows(Walk!Matching, created)
  BY PetsAreRows DEF WalkTyped, Walk!Matching
<1>2. /\ Walk!Shown \in SUBSET Pets /\ IsFiniteSet(Walk!Shown)
      /\ Cardinality(Walk!Shown) \in Nat /\ Len(seen) \in Nat
  BY ShownAreCounted DEF WalkTyped, Walk!Shown
<1>3. Cardinality(Missed) \in Nat /\ Cardinality(Pushed) \in Nat
  BY <1>1, MissedAndPushedAreCounted DEF Missed, Pushed, WalkTyped
<1>4. NextRow \in Nat
  BY NextRows DEF NextRow, WalkTyped
<1>. QED
  BY <1>1, <1>2, <1>3, <1>4

LEMMA ReadStep ==
  ASSUME WalkInv, Walk!ReadPage
  PROVE  WalkInv'
<1> DEFINE M == Walk!Matching
           first == page * PageSize
           rows == PageAt(M, created, first, PageSize)
<1>1. WalkTyped /\ reader = "reading" /\ first \in Nat /\ NextRow = first
  BY NextRows DEF WalkInv, WalkTyped, Walk!ReadPage, NextRow
<1>2. /\ M \in SUBSET Pets /\ Rows(M, created)
      /\ Walk!Shown \in SUBSET Pets /\ IsFiniteSet(Walk!Shown)
      /\ Cardinality(Walk!Shown) \in Nat /\ Len(seen) \in Nat
      /\ Cardinality(Missed) \in Nat /\ Cardinality(Pushed) \in Nat
  BY <1>1, WalkFacts
<1>3. /\ UNCHANGED <<row, created, clock, page, stayed, arrivals, departures>>
      /\ reader' = "counting" /\ M' = M /\ NextRow' = first + PageSize
  BY DEF Walk!ReadPage, Walk!Matching, NextRow
<1>4. PICK s \in Walk!Listings :
        seen' = seen \o SubSeq(s, first + 1, IF first + PageSize < Len(s)
                                             THEN first + PageSize ELSE Len(s))
  BY DEF Walk!ReadPage, Walk!Offset, Walk!Limit
<1>5. Listing(M, created, s) /\ Len(s) = Cardinality(M) /\ Cardinality(M) \in Nat
  <2>1. Cardinality(M) \in Nat
    BY <1>2, FS_CardinalityType DEF Rows
  <2>2. /\ s \in [1..Cardinality(M) -> M]
        /\ \A i, j \in 1..Cardinality(M) : i # j => s[i] # s[j]
        /\ \A i, j \in DOMAIN s : i < j => Newer(created, s[i], s[j])
    BY <1>4, SameSets DEF Walk!Listings, Walk!SetToSeqs, Walk!Before, Newer
  <2>3. DOMAIN s = 1..Cardinality(M)
    BY <2>2
  <2>. HIDE DEF M
  <2>4. Len(s) = Cardinality(M)
    BY <2>1, <2>3
  <2>. QED
    BY <2>1, <2>2, <2>3, <2>4 DEF Listing
<1> DEFINE last == IF first + PageSize < Cardinality(M) THEN first + PageSize ELSE Cardinality(M)
           cut == SubSeq(s, first + 1, last)
<1>6. /\ cut \in Seq(M) /\ Len(cut) = Cardinality(rows) /\ Len(cut) <= PageSize
      /\ {cut[i] : i \in 1..Len(cut)} = rows /\ IsFiniteSet(rows)
  <2>1. last \in Nat /\ PageSize \in Nat
    BY <1>1, <1>5, WalkConstants
  <2>. HIDE DEF M, first, last
  <2>2. last = IF first + PageSize < Cardinality(M) THEN first + PageSize ELSE Cardinality(M)
    BY DEF last
  <2>3. Rows(M, created) /\ Listing(M, created, s) /\ first \in Nat
    BY <1>1, <1>2, <1>5
  <2>4. CutsPage(M, created, s, first, PageSize, last)
    BY <2>1, <2>2, <2>3, PageIsCut
  <2>. QED
    BY <2>4 DEF CutsPage
<1>7. seen' = seen \o cut
  BY <1>4, <1>5
<1>. HIDE DEF cut, last, rows, M
<1>8. seen' \in Seq(Pets) /\ Len(seen') = Len(seen) + Cardinality(rows) /\ Walk!Shown' = Walk!Shown \cup rows
  <2>1. cut \in Seq(Pets) /\ seen \in Seq(Pets)
    BY <1>1, <1>2, <1>6 DEF WalkTyped
  <2>2. /\ seen' \in Seq(Pets) /\ Len(seen') = Len(seen) + Len(cut)
        /\ \A i \in 1..(Len(seen) + Len(cut)) :
             seen'[i] = IF i <= Len(seen) THEN seen[i] ELSE cut[i - Len(seen)]
    BY <1>7, <2>1, ConcatProperties
  <2>3. /\ DOMAIN seen = 1..Len(seen) /\ DOMAIN cut = 1..Len(cut) /\ DOMAIN seen' = 1..Len(seen')
        /\ Len(seen) \in Nat /\ Len(cut) \in Nat
    BY <2>1, <2>2, LenProperties
  <2>4. {seen'[i] : i \in DOMAIN seen'} = {seen[i] : i \in DOMAIN seen} \cup {cut[i] : i \in DOMAIN cut}
    <3>1. \A i \in DOMAIN seen : i \in DOMAIN seen' /\ seen'[i] = seen[i]
      BY <2>2, <2>3
    <3>2. \A i \in DOMAIN cut : Len(seen) + i \in DOMAIN seen' /\ seen'[Len(seen) + i] = cut[i]
      BY <2>2, <2>3
    <3>3. \A i \in DOMAIN seen' :
            \/ i \in DOMAIN seen /\ seen'[i] = seen[i]
            \/ i - Len(seen) \in DOMAIN cut /\ seen'[i] = cut[i - Len(seen)]
      BY <2>2, <2>3
    <3>. QED
      BY <3>1, <3>2, <3>3
  <2>. QED
    BY <1>6, <2>2, <2>3, <2>4 DEF Walk!Shown
<1>9. /\ Cardinality(MissedAt(stayed, Walk!Shown \cup rows, M, created, first + PageSize))
           <= Cardinality(MissedAt(stayed, Walk!Shown, M, created, first))
      /\ IsFiniteSet(Walk!Shown \cup rows) /\ Cardinality(Walk!Shown \cup rows) \in Nat
      /\ Cardinality(rows) - Cardinality(Walk!Shown \cup rows)
           + Cardinality(PushedAt(Walk!Shown \cup rows, M, created, first + PageSize))
         = Cardinality(PushedAt(Walk!Shown, M, created, first)) - Cardinality(Walk!Shown)
  <2>1. stayed \in SUBSET M /\ PageSize \in Nat
    BY <1>1, WalkConstants DEF WalkTyped, M
  <2>2. Rows(M, created) /\ IsFiniteSet(Walk!Shown) /\ first \in Nat
    BY <1>1, <1>2
  <2>3. rows = PageAt(M, created, first, PageSize)
    BY DEF rows
  <2>. HIDE DEF first
  <2>4. RepeatsThePushed(M, created, stayed, Walk!Shown, first, PageSize, rows)
    BY <2>1, <2>2, <2>3, PagesRepeatThePushed
  <2>. QED
    BY <2>4 DEF RepeatsThePushed
<1>10. WalkTyped'
  BY <1>1, <1>3, <1>8 DEF WalkTyped, M
<1>11. /\ Missed' = MissedAt(stayed, Walk!Shown \cup rows, M, created, first + PageSize)
       /\ Pushed' = PushedAt(Walk!Shown \cup rows, M, created, first + PageSize)
       /\ Missed = MissedAt(stayed, Walk!Shown, M, created, first)
       /\ Pushed = PushedAt(Walk!Shown, M, created, first)
  BY <1>1, <1>3, <1>8 DEF Missed, Pushed, M
<1>12. Cardinality(Missed') \in Nat /\ Cardinality(Pushed') \in Nat
  <2>1. stayed \in SUBSET M
    BY <1>1 DEF WalkTyped, M
  <2>. QED
    BY <1>2, <1>11, <2>1, MissedAndPushedAreCounted
<1>13. Cardinality(Missed') <= departures'
  BY <1>2, <1>3, <1>9, <1>11, <1>12 DEF WalkInv, WalkTyped
<1>14. Len(seen') - Cardinality(Walk!Shown') + Cardinality(Pushed') <= arrivals'
  <2>1. Cardinality(rows) \in Nat /\ arrivals \in Nat
    BY <1>1, <1>6, FS_CardinalityType DEF WalkTyped
  <2>2. Len(seen) - Cardinality(Walk!Shown) + Cardinality(Pushed) <= arrivals
    BY DEF WalkInv
  <2> DEFINE all == Cardinality(Walk!Shown)
             now == Cardinality(Walk!Shown')
             again == Cardinality(Pushed')
  <2>3. /\ all \in Nat /\ now \in Nat /\ again \in Nat /\ Cardinality(Pushed) \in Nat
        /\ Len(seen) \in Nat /\ Cardinality(rows) - now + again = Cardinality(Pushed) - all
    BY <1>2, <1>8, <1>9, <1>11, <1>12
  <2>4. Len(seen) + Cardinality(rows) - now + again <= arrivals
    <3>. HIDE DEF all, now, again
    <3>1. Len(seen) - all + Cardinality(Pushed) <= arrivals
      BY <2>2 DEF all
    <3>. QED
      BY <2>1, <2>3, <3>1
  <2>5. Len(seen') = Len(seen) + Cardinality(rows) /\ arrivals' = arrivals
    BY <1>3, <1>8
  <2>6. Len(seen') - now + again <= arrivals'
    <3>. HIDE DEF all, now, again
    <3>. QED
      BY <2>1, <2>3, <2>4, <2>5
  <2>. QED
    BY <2>6
<1>15. Len(seen') <= NextRow'
  <2>1. Len(seen) <= first /\ PageSize \in Nat /\ Cardinality(rows) \in Nat
    BY <1>1, <1>6, WalkConstants, FS_CardinalityType DEF WalkInv
  <2>. QED
    BY <1>1, <1>2, <1>3, <1>6, <1>8, <2>1
<1>. QED
  BY <1>3, <1>10, <1>13, <1>14, <1>15 DEF WalkInv

\* What a change by others may add to the two counts.
WalkCounted(arrived, departed) ==
  /\ arrivals' = arrivals + arrived /\ departures' = departures + departed
  /\ Cardinality(Missed') \in Nat /\ Cardinality(Pushed') \in Nat
  /\ Cardinality(Missed') <= Cardinality(Missed) + departed
  /\ Cardinality(Pushed') <= Cardinality(Pushed) + arrived

LEMMA OthersCounted ==
  ASSUME WalkInv, WalkTyped', UNCHANGED <<reader, seen>>, reader # "done",
         Walk!Shown' = Walk!Shown, NextRow' = NextRow, NEW a \in Nat, NEW d \in Nat, WalkCounted(a, d)
  PROVE  WalkInv'
<1>1. /\ Len(seen) \in Nat /\ Cardinality(Walk!Shown) \in Nat
      /\ Cardinality(Missed) \in Nat /\ Cardinality(Pushed) \in Nat
      /\ arrivals \in Nat /\ departures \in Nat
  BY WalkFacts DEF WalkInv, WalkTyped
<1>2. Cardinality(Missed') <= departures'
  BY <1>1 DEF WalkInv, WalkCounted
<1>3. Len(seen') - Cardinality(Walk!Shown') + Cardinality(Pushed') <= arrivals'
  <2>1. Len(seen) - Cardinality(Walk!Shown) + Cardinality(Pushed) <= arrivals
    BY DEF WalkInv
  <2>2. Len(seen) - Cardinality(Walk!Shown) + Cardinality(Pushed') <= arrivals'
    BY <1>1, <2>1 DEF WalkCounted
  <2>. QED
    BY <2>2
<1>. QED
  BY <1>2, <1>3 DEF WalkInv, NextRow

LEMMA CountStep ==
  ASSUME WalkInv, Walk!CountPets
  PROVE  WalkInv'
<1>1. /\ UNCHANGED <<row, created, clock, seen, stayed, arrivals, departures>>
      /\ reader = "counting" /\ page' \in {page, page + 1} /\ reader' \in {"reading", "done"}
  BY DEF Walk!CountPets
<1>2. WalkTyped /\ page \in Nat
  BY DEF WalkInv, WalkTyped
<1>3. WalkTyped'
  BY <1>1, <1>2 DEF WalkTyped, Walk!Matching
<1>4. NextRow' = NextRow
  <2>1. NextRow = page * PageSize + PageSize /\ (page + 1) * PageSize = page * PageSize + PageSize
    BY <1>1, <1>2, NextRows DEF NextRow
  <2>2. NextRow' = page * PageSize + PageSize
    <3>1. CASE page' = page + 1 /\ reader' = "reading"
      BY <2>1, <3>1 DEF NextRow
    <3>2. CASE page' = page /\ reader' = "done"
      BY <3>2 DEF NextRow
    <3>. QED
      BY <3>1, <3>2 DEF Walk!CountPets
  <2>. QED
    BY <2>1, <2>2
<1>5. /\ Walk!Matching' = Walk!Matching /\ Walk!Shown' = Walk!Shown
      /\ Missed' = Missed /\ Pushed' = Pushed
  BY <1>1, <1>4 DEF Walk!Matching, Walk!Shown, Missed, Pushed
<1>6. reader' = "done" => Cardinality(Walk!Matching') <= NextRow'
  <2>1. SUFFICES ASSUME reader' = "done"
                 PROVE  Cardinality(Walk!Matching) <= NextRow
    BY <1>4, <1>5
  <2>2. ~(page * PageSize + PageSize < Cardinality(Walk!Matching))
    BY <2>1, SameSets DEF Walk!CountPets, Walk!Offset
  <2>3. NextRow = page * PageSize + PageSize /\ NextRow \in Nat
    BY <1>1, <1>2, NextRows DEF NextRow
  <2>4. Cardinality(Walk!Matching) \in Nat
    BY <1>2, WalkFacts, FS_CardinalityType DEF Rows
  <2>. QED
    BY <2>2, <2>3, <2>4
<1>. QED
  BY <1>1, <1>3, <1>4, <1>5, <1>6 DEF WalkInv

\* What the others do leaves the reader where it is.
LEMMA ReaderStays ==
  ASSUME UNCHANGED <<page, reader, seen>>
  PROVE  NextRow' = NextRow /\ Walk!Shown' = Walk!Shown /\ Len(seen') = Len(seen)
BY DEF NextRow, Walk!Shown

LEMMA InsertStep ==
  ASSUME WalkInv, NEW x \in Pets, Walk!BeginInsert(x)
  PROVE  WalkInv'
<1> DEFINE M == Walk!Matching
<1>1. /\ UNCHANGED <<page, reader, seen, stayed, arrivals, departures>>
      /\ row[x] = "absent" /\ row' = [row EXCEPT ![x] = "inserting"]
      /\ clock' \in {clock, clock + 1} /\ created' = [created EXCEPT ![x] = clock']
      /\ reader # "done"
  BY DEF Walk!BeginInsert, Walk!MayChange
<1>2. WalkTyped
  BY DEF WalkInv
<1>3. Walk!Matching' = M
  BY <1>1, <1>2 DEF WalkTyped, Walk!Matching
<1>4. WalkTyped'
  BY <1>1, <1>2, <1>3 DEF WalkTyped
<1>5. \A p \in M : created'[p] = created[p]
  BY <1>1, <1>2 DEF WalkTyped, Walk!Matching
<1>6. \A p \in M : Place(M, created', p) = Place(M, created, p)
  <2>1. \A p \in M : NewerThan(M, created', p) = NewerThan(M, created, p)
    BY <1>5 DEF NewerThan, Newer
  <2>. QED
    BY <2>1 DEF Place
<1>7. NextRow' = NextRow /\ Walk!Shown' = Walk!Shown
  BY <1>1, ReaderStays
<1>8. Missed' = Missed /\ Pushed' = Pushed
  <2>1. stayed \subseteq M /\ stayed' = stayed
    BY <1>1, <1>2 DEF WalkTyped
  <2>. HIDE DEF M
  <2>2. MissedAt(stayed, Walk!Shown, M, created', NextRow) = MissedAt(stayed, Walk!Shown, M, created, NextRow)
    BY <1>6, <2>1 DEF MissedAt
  <2>3. PushedAt(Walk!Shown, M, created', NextRow) = PushedAt(Walk!Shown, M, created, NextRow)
    BY <1>6 DEF PushedAt
  <2>4. /\ Missed' = MissedAt(stayed, Walk!Shown, M, created', NextRow)
        /\ Pushed' = PushedAt(Walk!Shown, M, created', NextRow)
    BY <1>3, <1>7, <2>1 DEF Missed, Pushed
  <2>. QED
    BY <2>2, <2>3, <2>4 DEF Missed, Pushed, M
<1>. QED
  BY <1>1, <1>4, <1>7, <1>8 DEF WalkInv

LEMMA ArriveStep ==
  ASSUME WalkInv, NEW x \in Pets, Walk!Arrive(x)
  PROVE  WalkInv'
<1> DEFINE M == Walk!Matching \cup {x}
<1>1. /\ UNCHANGED <<created, clock, page, reader, seen, stayed, departures>>
      /\ row[x] # "matching" /\ row' = [row EXCEPT ![x] = "matching"]
      /\ arrivals' = arrivals + 1 /\ reader # "done"
  BY DEF Walk!Arrive, Walk!MayChange
<1>2. WalkTyped
  BY DEF WalkInv
<1>3. Walk!Matching' = M /\ Walk!Matching = M \ {x} /\ M \in SUBSET Pets /\ x \in M
  BY <1>1, <1>2 DEF WalkTyped, Walk!Matching
<1>4. WalkTyped'
  BY <1>1, <1>2, <1>3 DEF WalkTyped
<1>5. NextRow' = NextRow /\ Walk!Shown' = Walk!Shown
  BY <1>1, ReaderStays
<1>6. Rows(M, created) /\ stayed \in SUBSET (M \ {x}) /\ NextRow \in Nat
  BY <1>2, <1>3, PetsAreRows, WalkFacts DEF WalkTyped
<1>. HIDE DEF M
<1>7. /\ Cardinality(MissedAt(stayed, Walk!Shown, M, created, NextRow))
           <= Cardinality(MissedAt(stayed, Walk!Shown, M \ {x}, created, NextRow))
      /\ Cardinality(PushedAt(Walk!Shown, M, created, NextRow))
           <= Cardinality(PushedAt(Walk!Shown, M \ {x}, created, NextRow)) + 1
  BY <1>3, <1>6, ArrivalsRepeat
<1>8. /\ Missed = MissedAt(stayed, Walk!Shown, M \ {x}, created, NextRow)
      /\ Pushed = PushedAt(Walk!Shown, M \ {x}, created, NextRow)
      /\ Missed' = MissedAt(stayed, Walk!Shown, M, created, NextRow)
      /\ Pushed' = PushedAt(Walk!Shown, M, created, NextRow)
  BY <1>1, <1>3, <1>5 DEF Missed, Pushed
<1>9. WalkCounted(1, 0)
  <2>1. Cardinality(Missed') \in Nat /\ Cardinality(Pushed') \in Nat
    <3>1. stayed \in SUBSET M
      BY <1>6
    <3>. QED
      BY <1>6, <1>8, <3>1, MissedAndPushedAreCounted
  <2>2. /\ Cardinality(Missed) \in Nat /\ Cardinality(Pushed) \in Nat
        /\ arrivals \in Nat /\ departures \in Nat
    BY <1>2, WalkFacts DEF WalkTyped
  <2>3. /\ Cardinality(Missed') <= Cardinality(Missed)
        /\ Cardinality(Pushed') <= Cardinality(Pushed) + 1
    BY <1>7, <1>8
  <2>. QED
    BY <1>1, <2>1, <2>2, <2>3 DEF WalkCounted
<1>. QED
  BY <1>1, <1>2, <1>4, <1>5, <1>9, OthersCounted

LEMMA DepartStep ==
  ASSUME WalkInv, NEW x \in Pets, Walk!Depart(x)
  PROVE  WalkInv'
<1> DEFINE M == Walk!Matching
<1>1. /\ UNCHANGED <<created, clock, page, reader, seen, arrivals>>
      /\ row[x] = "matching" /\ stayed' = stayed \ {x}
      /\ row' \in {[row EXCEPT ![x] = "other"], [row EXCEPT ![x] = "deleted"]}
      /\ departures' = departures + 1 /\ reader # "done"
  BY DEF Walk!Depart, Walk!MayChange
<1>2. WalkTyped
  BY DEF WalkInv
<1>3. Walk!Matching' = M \ {x} /\ M \in SUBSET Pets /\ x \in M
  BY <1>1, <1>2 DEF WalkTyped, Walk!Matching
<1>4. WalkTyped'
  BY <1>1, <1>2, <1>3 DEF WalkTyped
<1>5. NextRow' = NextRow /\ Walk!Shown' = Walk!Shown
  BY <1>1, ReaderStays
<1>6. Rows(M, created) /\ stayed \in SUBSET M /\ NextRow \in Nat
  BY <1>2, <1>3, PetsAreRows, WalkFacts DEF WalkTyped
<1>7. /\ Missed = MissedAt(stayed, Walk!Shown, M, created, NextRow)
      /\ Pushed = PushedAt(Walk!Shown, M, created, NextRow)
      /\ Missed' = MissedAt(stayed \ {x}, Walk!Shown, M \ {x}, created, NextRow)
      /\ Pushed' = PushedAt(Walk!Shown, M \ {x}, created, NextRow)
  BY <1>1, <1>3, <1>5 DEF Missed, Pushed
<1>. HIDE DEF M
<1>8. /\ Cardinality(MissedAt(stayed \ {x}, Walk!Shown, M \ {x}, created, NextRow))
           <= Cardinality(MissedAt(stayed, Walk!Shown, M, created, NextRow)) + 1
      /\ Cardinality(PushedAt(Walk!Shown, M \ {x}, created, NextRow))
           <= Cardinality(PushedAt(Walk!Shown, M, created, NextRow))
  BY <1>3, <1>6, DeparturesMiss
<1>9. WalkCounted(0, 1)
  <2>1. Cardinality(Missed') \in Nat /\ Cardinality(Pushed') \in Nat
    <3>1. Rows(M \ {x}, created) /\ stayed \ {x} \in SUBSET (M \ {x})
      BY <1>6, FewerRows
    <3>. QED
      BY <1>7, <3>1, MissedAndPushedAreCounted
  <2>2. /\ Cardinality(Missed) \in Nat /\ Cardinality(Pushed) \in Nat
        /\ arrivals \in Nat /\ departures \in Nat
    BY <1>2, WalkFacts DEF WalkTyped
  <2>3. /\ Cardinality(Missed') <= Cardinality(Missed) + 1
        /\ Cardinality(Pushed') <= Cardinality(Pushed)
    BY <1>7, <1>8
  <2>. QED
    BY <1>1, <2>1, <2>2, <2>3 DEF WalkCounted
<1>. QED
  BY <1>1, <1>2, <1>4, <1>5, <1>9, OthersCounted

LEMMA WalkStep ==
  ASSUME WalkInv, [Walk!Next]_(Walk!vars)
  PROVE  WalkInv'
<1>1. CASE UNCHANGED Walk!vars
  BY <1>1 DEF Walk!vars, WalkInv, WalkTyped, Missed, Pushed, NextRow, Walk!Matching, Walk!Shown
<1>. QED
  BY <1>1, ReadStep, CountStep, InsertStep, ArriveStep, DepartStep DEF Walk!Next

\* A reader who has come to the end of the list has missed at most as many of
\* the pets that were there all the time as others took off it, and was shown
\* at most as many twice as others put on it (sql/queries/pets.sql ListPets):
\* for any number of pets, any size of the pages and any number of changes.
THEOREM WalksAreAccountedFor == Walk!Spec => []WalkIsAccountedFor
<1>1. ASSUME WalkInv
      PROVE  WalkIsAccountedFor
  <2>1. /\ WalkTyped /\ Rows(Walk!Matching, created)
        /\ Cardinality(Walk!Shown) \in Nat /\ Len(seen) \in Nat /\ NextRow \in Nat
        /\ Cardinality(Missed) \in Nat /\ Cardinality(Pushed) \in Nat
        /\ departures \in Nat /\ arrivals \in Nat
    BY <1>1, WalkFacts DEF WalkInv, WalkTyped
  <2>2. ASSUME reader = "done"
        PROVE  Cardinality(stayed \ Walk!Shown) <= departures
    <3>1. \A p \in Walk!Matching : Place(Walk!Matching, created, p) < NextRow
      <4>1. Cardinality(Walk!Matching) <= NextRow
        BY <1>1, <2>2 DEF WalkInv
      <4>2. ASSUME NEW p \in Walk!Matching
            PROVE  Place(Walk!Matching, created, p) < NextRow
        <5>1. /\ Cardinality(Walk!Matching) \in Nat
              /\ Place(Walk!Matching, created, p) \in 0..(Cardinality(Walk!Matching) - 1)
          BY <2>1, PlacesAreNumbers
        <5>. QED
          BY <2>1, <4>1, <5>1
      <4>. QED
        BY <4>2
    <3>2. stayed \subseteq Walk!Matching
      BY <2>1 DEF WalkTyped
    <3>3. Missed = stayed \ Walk!Shown
      BY <3>1, <3>2 DEF Missed, MissedAt
    <3>. QED
      BY <1>1, <3>3 DEF WalkInv
  <2>3. Len(seen) - Cardinality(Walk!Shown) <= arrivals
    <3>1. Len(seen) - Cardinality(Walk!Shown) + Cardinality(Pushed) <= arrivals
      BY <1>1 DEF WalkInv
    <3>. QED
      BY <2>1, <3>1
  <2>. QED
    BY <2>2, <2>3, SameSets DEF WalkIsAccountedFor, Walk!MissedOnlyByDepartures, Walk!RepeatedOnlyByArrivals
<1>. QED
  BY <1>1, FirstWalk, WalkStep, PTL DEF Walk!Spec

(***************************************************************************)
(* The types of the four parts.                                            *)
(***************************************************************************)
\* The day after a date that exists exists: it is not beyond its month.
LEMMA NextDayExists ==
  ASSUME NEW d \in Date
  PROVE  Exists(NextDay(d))
<1>1. d.year \in Nat /\ d.month \in 1..12 /\ d.day \in 1..31
  BY DEF Date
<1>2. \A y \in Nat, m \in 1..12 : Length(y, m) \in 28..31
  BY DEF Length
<1>3. CASE d.day < Length(d.year, d.month)
  <2>1. NextDay(d) = [d EXCEPT !.day = d.day + 1]
    BY <1>3 DEF NextDay
  <2>2. NextDay(d).year = d.year /\ NextDay(d).month = d.month /\ NextDay(d).day = d.day + 1
    BY <2>1 DEF Date
  <2>3. Length(d.year, d.month) \in 28..31
    BY <1>1, <1>2
  <2>. QED  BY <1>1, <1>3, <2>2, <2>3 DEF Exists
<1>4. CASE ~(d.day < Length(d.year, d.month)) /\ d.month < 12
  <2>1. NextDay(d) = [year |-> d.year, month |-> d.month + 1, day |-> 1]
    BY <1>4 DEF NextDay
  <2>2. Length(d.year, d.month + 1) \in 28..31
    BY <1>1, <1>2, <1>4
  <2>. QED  BY <2>1, <2>2 DEF Exists
<1>5. CASE ~(d.day < Length(d.year, d.month)) /\ ~(d.month < 12)
  <2>1. NextDay(d) = [year |-> d.year + 1, month |-> 1, day |-> 1]
    BY <1>5 DEF NextDay
  <2>2. Length(d.year + 1, 1) \in 28..31
    BY <1>1, <1>2
  <2>. QED  BY <2>1, <2>2 DEF Exists
<1>. QED  BY <1>3, <1>4, <1>5

\* The texts of calculateAge are among those a page can show.
LEMMA AgesAreTexts ==
  ASSUME NEW y \in Int, NEW m \in 0..11
  PROVE  TextOf([years |-> y, months |-> m]) \in Texts
BY DEF TextOf, Text, Texts

\* calculateAge has a text for every birth date and every day of its page.
LEMMA AgesAreTyped == Spec => []TypeOK
<1>1. DatesOK /\ Exists(today) => TypeOK
  <2>. SUFFICES ASSUME DatesOK, Exists(today) PROVE CalculateAge(birth, today) \in Texts
    BY DEF DatesOK, TypeOK
  <2> DEFINE b == JsDate(birth)
  <2>1. b \in Date /\ today \in Date
    BY JsDateIsDate DEF DatesOK
  <2>. HIDE DEF b
  <2>2. Age(b, today).years \in Int /\ Age(b, today).months \in 0..11
    BY <2>1, BorrowKeepsMonths
  <2>3. Age(b, today) = [years |-> Age(b, today).years, months |-> Age(b, today).months]
    BY DEF Age
  <2>4. TextOf(Age(b, today)) \in Texts
    BY <2>2, <2>3, AgesAreTexts
  <2>. QED  BY <2>4 DEF CalculateAge, b
<1>2. Init => Exists(today)
  <2>. SUFFICES ASSUME Init PROVE Exists(today)
    OBVIOUS
  <2>1. today = [year |-> FirstToday, month |-> 1, day |-> 1] /\ Length(FirstToday, 1) = 31
    BY DEF Init, Length
  <2>. QED  BY <2>1 DEF Exists
<1>3. DatesOK /\ Exists(today) /\ [Next]_vars => Exists(today)'
  BY NextDayExists DEF DatesOK, Next, vars, Exists
<1>. QED  BY <1>1, <1>2, <1>3, DatesStayDates, PTL DEF Spec

\* A tab shows a theme where its switch is on the page, and only there.
Switched ==
  /\ place \in [Tabs -> Look!Pages \cup {"docs", "none"}]
  /\ steps \in 0..MaxSteps
  /\ \A t \in Tabs :
       /\ theme[t] # None <=> phase[t] \in {"rendered", "idle"} /\ place[t] \in Look!Pages
       /\ place[t] = "none" => phase[t] = "closed"

\* The tab that is opened, followed or rendered is the only one whose place,
\* phase and switch change.
Placed(t, p) ==
  /\ p \in Look!Pages \cup {"docs"}
  /\ place' = [place EXCEPT ![t] = p]
  /\ \E ph \in {"closed", "loaded", "rendered", "idle"} : \E th \in Look!Themes \cup {None} :
       /\ phase' = [phase EXCEPT ![t] = ph] /\ theme' = [theme EXCEPT ![t] = th]
       /\ th # None <=> ph \in {"rendered", "idle"} /\ p \in Look!Pages

\* And such a step keeps theme and page together.
LEMMA SwitchIsPlaced ==
  ASSUME Tabbed, Switched, NEW t \in Tabs, NEW p, Placed(t, p), steps' \in 0..MaxSteps
  PROVE  Switched'
<1>1. PICK ph \in {"closed", "loaded", "rendered", "idle"}, th \in Look!Themes \cup {None} :
        /\ phase' = [phase EXCEPT ![t] = ph] /\ theme' = [theme EXCEPT ![t] = th]
        /\ th # None <=> ph \in {"rendered", "idle"} /\ p \in Look!Pages
  BY DEF Placed
<1>2. place' = [place EXCEPT ![t] = p] /\ p \in Look!Pages \cup {"docs"}
  BY DEF Placed
<1>3. place' \in [Tabs -> Look!Pages \cup {"docs", "none"}]
  BY <1>2 DEF Switched
<1>4. ASSUME NEW u \in Tabs
      PROVE  /\ theme'[u] # None <=> phase'[u] \in {"rendered", "idle"} /\ place'[u] \in Look!Pages
             /\ place'[u] = "none" => phase'[u] = "closed"
  <2>1. CASE u = t
    <3>1. theme'[u] = th /\ phase'[u] = ph /\ place'[u] = p
      BY <1>1, <1>2, <2>1 DEF Switched, Tabbed
    <3>. QED  BY <1>1, <1>2, <3>1 DEF Look!Pages
  <2>2. CASE u # t
    <3>1. theme'[u] = theme[u] /\ phase'[u] = phase[u] /\ place'[u] = place[u]
      BY <1>1, <1>2, <2>2 DEF Switched, Tabbed
    <3>. QED  BY <3>1 DEF Switched
  <2>. QED  BY <2>1, <2>2
<1>. QED  BY <1>3, <1>4 DEF Switched

\* The switches keep to the pages that have one, and the looks to their types.
LEMMA LooksAreTyped == Look!Spec => []Look!TypeOK
<1>1. Look!Init => Switched
  BY ShownAssumption DEF Look!Init, Switched, Look!ThemeAssumption, Look!Pages
<1>2. LookInv /\ Switched /\ [Look!Next]_(Look!vars) => Switched'
  <2>. SUFFICES ASSUME LookInv, Switched, [Look!Next]_(Look!vars) PROVE Switched'
    OBVIOUS
  <2>1. /\ Tabbed /\ MaxSteps \in Nat /\ steps \in 0..MaxSteps /\ None \notin Look!Themes
        /\ Look!Initial \in Look!Themes
    BY ShownAssumption DEF LookInv, Switched, Tabbed, Look!ThemeAssumption, Look!Values, Look!Initial
  <2>2. Look!Step => steps' \in 0..MaxSteps
    BY <2>1 DEF Look!Step
  <2>3. CASE UNCHANGED Look!vars
    BY <2>3 DEF Look!vars, Switched
  <2>4. ASSUME NEW t \in Tabs, NEW p \in Look!Pages \cup {"docs"}, Look!Load(t, p)
        PROVE  Switched'
    <3>1. Placed(t, p)
      BY <2>4 DEF Look!Load, Placed
    <3>. QED  BY <2>1, <2>2, <2>4, <3>1, SwitchIsPlaced DEF Look!Load
  <2>5. ASSUME NEW t \in Tabs, NEW p \in Look!Pages, Look!Mount(t, p)
        PROVE  Placed(t, p)
    BY <2>1, <2>5 DEF Look!Mount, Placed
  <2>6. ASSUME NEW t \in Tabs, Look!Bare(t)
        PROVE  Placed(t, "docs")
    BY <2>6 DEF Look!Bare, Placed, Look!Pages
  <2>7. ASSUME NEW t \in Tabs, NEW p \in Look!Pages \cup {"docs"}, Look!GoTo(t, p)
        PROVE  Switched'
    <3>1. Placed(t, p)
      BY <2>5, <2>6, <2>7 DEF Look!GoTo
    <3>. QED  BY <2>1, <2>2, <2>7, <3>1, SwitchIsPlaced DEF Look!GoTo
  <2>8. ASSUME NEW t \in Tabs, Look!FirstRender(t)
        PROVE  Switched'
    <3>1. place[t] = "docs" \/ place[t] \in Look!Pages
      BY <2>8 DEF Switched, Look!FirstRender
    <3>2. \E p : Placed(t, p)
      BY <2>5, <2>6, <2>8, <3>1 DEF Look!FirstRender
    <3>. QED  BY <2>1, <2>8, <3>2, SwitchIsPlaced DEF Look!FirstRender
  <2>9. ASSUME NEW t \in Tabs, Look!RunEffect(t)
        PROVE  Switched'
    <3>1. /\ phase[t] = "rendered" /\ phase' = [phase EXCEPT ![t] = "idle"]
          /\ UNCHANGED <<place, theme, steps>>
      BY <2>9 DEF Look!RunEffect
    <3>. QED  BY <2>1, <3>1 DEF Switched, Tabbed
  <2>10. ASSUME NEW t \in Tabs, Look!ToggleTheme(t)
         PROVE  Switched'
    <3>1. /\ theme[t] # None /\ theme' = [theme EXCEPT ![t] = Look!Other(theme[t])]
          /\ UNCHANGED <<place, phase>> /\ Look!Other(theme[t]) \in Look!Themes
      BY <2>10 DEF Look!ToggleTheme, Look!Other, Look!Themes
    <3>. QED  BY <2>1, <2>2, <2>10, <3>1 DEF Switched, Tabbed, Look!ToggleTheme
  <2>11. CASE Look!SystemChanges
    BY <2>2, <2>11 DEF Look!SystemChanges, Switched
  <2>. QED
    BY <2>3, <2>4, <2>7, <2>8, <2>9, <2>10, <2>11 DEF Look!Next
<1>3. LookInv /\ Switched => Look!TypeOK
  BY DEF Look!TypeOK, LookInv, Tabbed, Switched
<1>. QED
  BY <1>1, <1>2, <1>3, Looks, PTL DEF Look!Spec

\* What the others do during a walk is bounded.
ChangesBounded ==
  arrivals \in Nat /\ departures \in Nat /\ arrivals + departures <= MaxChanges

\* Nothing arrives or departs once the bound is reached.
LEMMA WalkIsBounded == Walk!Spec => []ChangesBounded
<1>. USE DEF ChangesBounded
<1>1. MaxChanges \in Nat
  BY ShownAssumption DEF Walk!WalkAssumption
<1>2. Walk!Init => ChangesBounded
  BY <1>1 DEF Walk!Init
<1>3. ChangesBounded /\ [Walk!Next]_(Walk!vars) => ChangesBounded'
  BY <1>1 DEF Walk!Next, Walk!ReadPage, Walk!CountPets, Walk!BeginInsert, Walk!Arrive, Walk!Depart,
              Walk!MayChange, Walk!vars
<1>. QED  BY <1>2, <1>3, PTL DEF Walk!Spec

\* A walk shows no more than the pages it has gone through can hold.
LEMMA WalksAreTyped == Walk!Spec => []Walk!TypeOK
<1>1. WalkInv /\ ChangesBounded => Walk!TypeOK
  <2>. SUFFICES ASSUME WalkInv, ChangesBounded PROVE Walk!TypeOK
    OBVIOUS
  <2>1. WalkTyped /\ Len(seen) <= NextRow /\ Len(seen) \in Nat /\ PageSize \in Nat
    BY WalkFacts, WalkConstants DEF WalkInv
  <2>2. /\ page * PageSize \in Nat /\ (page + 1) * PageSize = page * PageSize + PageSize
        /\ NextRow = page * PageSize \/ NextRow = page * PageSize + PageSize
    BY <2>1, NextRows DEF WalkTyped, NextRow
  <2>3. Len(seen) <= (page + 1) * PageSize
    BY <2>1, <2>2
  <2>. QED  BY <2>1, <2>3 DEF Walk!TypeOK, WalkTyped, ChangesBounded
<1>. QED
  BY <1>1, FirstWalk, WalkStep, WalkIsBounded, PTL DEF Walk!Spec

(***************************************************************************)
(* The four studies of one behaviour.                                      *)
(***************************************************************************)
\* A study starts every part and takes the steps of one.
LEMMA StudiesStart == StudyInit => Init /\ Views!Init /\ Walk!Init /\ Look!Init
BY DEF StudyInit

\* The other parts stutter.
LEMMA StudiesStep ==
  ASSUME [StudyNext]_<<study, vars, viewVars, walkVars, themeVars>>
  PROVE  /\ [Next]_vars /\ [Views!Next]_(Views!vars)
         /\ [Walk!Next]_(Walk!vars) /\ [Look!Next]_(Look!vars)
BY DEF StudyNext, viewVars, walkVars, themeVars, Views!vars, Walk!vars, Look!vars

\* So a behaviour of the studies is one of every part.
LEMMA StudiesAreSpecs == StudySpec => Spec /\ Views!Spec /\ Walk!Spec /\ Look!Spec
BY StudiesStart, StudiesStep, PTL DEF StudySpec, Spec, Views!Spec, Walk!Spec, Look!Spec

\* Whatever the constants, in every study: calculateAge has a text for every
\* day, a pet's times are in order, a walk has shown no more rows than the
\* pages it has read can hold, and a tab has a theme in its state where there
\* is a switch on the page (ShownTypeOK); no pet gets younger; the pages agree
\* about a pet; walks are accounted for; and a saved look is lost only to a
\* tab that was rendering.
THEOREM ShownStudies ==
  StudySpec => /\ [](ShownTypeOK /\ PagesAgree /\ WalkIsAccountedFor)
               /\ AgeNeverDrops /\ LookIsKept
<1>1. Views!Spec => []Views!TypeOK
  <2>1. RowInv => Views!TypeOK
    BY DEF RowInv
  <2>. QED  BY <2>1, RowsStayRows, PTL
<1>2. TypeOK /\ Views!TypeOK /\ Walk!TypeOK /\ Look!TypeOK => ShownTypeOK
  BY DEF ShownTypeOK
<1>. QED
  BY <1>1, <1>2, StudiesAreSpecs, AgesAreTyped, WalksAreTyped, LooksAreTyped, AgesGrow,
     PagesTellTheSame, WalksAreAccountedFor, LookStays, PTL

\* And the age is counted in the studies too, from the year 100 on.
THEOREM ShownAges ==
  ASSUME \A y \in BirthYears : y >= 100
  PROVE  StudySpec => []AgeIsCounted
BY StudiesAreSpecs, AgesAreCounted, PTL
=============================================================================
