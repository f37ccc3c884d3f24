--------------------------- MODULE LKLFileProofs ---------------------------
(***************************************************************************)
(* EntriesOnce, DescriptorsBalanced, TimesReadBack and                     *)
(* CalendarExact for any number of names, inodes, descriptors and handles, *)
(* any file sizes and every time of 32 bits of seconds.                    *)
(*                                                                         *)
(* The invariant adds to the types that every path that leads somewhere    *)
(* leads to an inode that is there.  The types need that whatever valid    *)
(* time a client asks for, EfiTimeToEpoch gives 32 bits of seconds; what a *)
(* client reads back needs that EpochToEfiTime undoes it.                  *)
(***************************************************************************)
EXTENDS LKLFile, FiniteSetTheorems, SequenceTheorems, TLAPS

\* Paths lead to inodes that are there, the mount point to a directory.
TreeLive ==
    /\ \A p \in Paths : tree[p] # None => inode[tree[p]] # None
    /\ tree[Root] # None /\ inode[tree[Root]].kind = "dir"

\* DescriptorsBalanced, one handle and one descriptor at a time.
HandlesHaveFd == \A h \in Handles : handle[h] # None => fd[handle[h].fd] # None
FdsHaveHandle ==
    \A x \in Fds : fd[x] # None => \E h \in Handles : handle[h] # None /\ handle[h].fd = x
FdsDistinct ==
    \A g, h \in Handles : handle[g] # None /\ handle[h] # None /\ handle[g].fd = handle[h].fd => g = h
KindsAgree ==
    \A h \in Handles : handle[h] # None => /\ inode[fd[handle[h].fd].ino] # None
                                           /\ inode[fd[handle[h].fd].ino].kind = handle[h].kind
Balanced == HandlesHaveFd /\ FdsHaveHandle /\ FdsDistinct /\ KindsAgree

\* EntriesOnce for one handle record.
Kept(f) == IF f.entry = None THEN << >> ELSE <<f.entry>>
Delivered(f) ==
    IF f.dir = "reading" THEN f.listed = f.got \o Kept(f) \o f.rest
    ELSE f.got = << >> /\ f.entry = None
Entries == \A h \in Handles : handle[h] # None => Delivered(handle[h])

\* The inductive invariant.
FileInv == TypeOK /\ TreeLive /\ Balanced /\ Entries

-----------------------------------------------------------------------------
(* Seconds since the epoch, in 32 bits.                                    *)

LEMMA StampMember ==
    ASSUME NEW d \in Nat, NEW s \in Nat, s < SEC_PER_DAY, d < MaxDay \/ (d = MaxDay /\ s < LastSec)
    PROVE  <<d, s>> \in Stamps
<1>1. MaxDay \in Nat /\ SEC_PER_DAY - 1 \in Nat /\ d <= MaxDay /\ s <= SEC_PER_DAY - 1
  BY SMT DEF MaxDay, SEC_PER_DAY
<1>2. d \in 0 .. MaxDay /\ s \in 0 .. SEC_PER_DAY - 1
  BY <1>1
<1>3. d = MaxDay => s < LastSec
  BY SMT DEF MaxDay
<1> QED
  BY <1>2, <1>3 DEF Stamps

\* The days, counted from the epoch, of the years that EfiTimeIsValid lets through
\* lie between these.
DaysKnown(n) == n \in Int /\ -30000 <= n /\ n <= 3000000

LEMMA DivMaxDay ==
    ASSUME NEW a, DaysKnown(a)
    PROVE  /\ a \div MaxDay \in Int /\ -1 <= a \div MaxDay /\ a \div MaxDay <= 60
           /\ a - (a \div MaxDay) * MaxDay \in Nat /\ a - (a \div MaxDay) * MaxDay < MaxDay
<1>1. /\ a \div 49710 \in Int
      /\ 0 <= a - (a \div 49710) * 49710 /\ a - (a \div 49710) * 49710 < 49710
  BY SMT DEF DaysKnown
<1>2. ASSUME NEW g \in Int, 0 <= a - g * 49710, a - g * 49710 < 49710
      PROVE  -1 <= g /\ g <= 60
  BY <1>2, SMT DEF DaysKnown
<1> QED
  BY <1>1, <1>2, SMT DEF MaxDay, DaysKnown

LEMMA DivDay ==
    ASSUME NEW a \in Int
    PROVE  /\ a \div SEC_PER_DAY \in Int /\ a % SEC_PER_DAY \in Nat /\ a % SEC_PER_DAY < SEC_PER_DAY
           /\ a = (a \div SEC_PER_DAY) * SEC_PER_DAY + (a % SEC_PER_DAY)
  BY SMT DEF SEC_PER_DAY

\* What n turns leave of the seconds, and whether it is 32 bits wide.
DaysLeft(sec, n) == (sec - n * LastSec) \div SEC_PER_DAY
SecsLeft(sec, n) == (sec - n * LastSec) % SEC_PER_DAY
IsStamp(d, s) == 0 <= d /\ (d < MaxDay \/ (d = MaxDay /\ s < LastSec))

\* One of the three numbers of turns that UINT32 tries fits: e and f are the days
\* and the seconds that remain after g, g - 1 and g + 1 turns.
LEMMA SomeTurnsFit ==
    ASSUME NEW g \in Int, -1 <= g, g <= 60, NEW r \in Nat, r < MaxDay,
           NEW sec \in Nat, sec < SEC_PER_DAY,
           NEW e0 \in Int, NEW f0 \in Nat, f0 < SEC_PER_DAY,
           sec - g * LastSec = e0 * SEC_PER_DAY + f0,
           NEW e1 \in Int, NEW f1 \in Nat, f1 < SEC_PER_DAY,
           sec - (g - 1) * LastSec = e1 * SEC_PER_DAY + f1,
           NEW e2 \in Int, NEW f2 \in Nat, f2 < SEC_PER_DAY,
           sec - (g + 1) * LastSec = e2 * SEC_PER_DAY + f2
    PROVE  \/ IsStamp(r + e0, f0) \/ IsStamp(r + MaxDay + e1, f1) \/ IsStamp(r - MaxDay + e2, f2)
<1> USE DEF MaxDay, LastSec, SEC_PER_DAY, IsStamp
<1>1. -18 <= e0 /\ e0 <= 1
  BY SMT
<1>2. /\ e1 * 86400 + f1 = e0 * 86400 + f0 + 23296
      /\ e2 * 86400 + f2 = e0 * 86400 + f0 - 23296
  BY SMT
<1>3. (e1 = e0 /\ f1 = f0 + 23296) \/ (e1 = e0 + 1 /\ f1 = f0 - 63104)
  BY <1>2, SMT
<1>4. (e2 = e0 /\ f2 = f0 - 23296) \/ (e2 = e0 - 1 /\ f2 = f0 + 63104)
  BY <1>2, SMT
<1>5. CASE r + e0 < 0
  BY <1>1, <1>3, <1>5, SMT
<1>6. CASE r + e0 >= 49710
  BY <1>1, <1>4, <1>6, SMT
<1>7. CASE 0 <= r + e0 /\ r + e0 < 49710
  BY <1>7, SMT
<1> QED
  BY <1>5, <1>6, <1>7, SMT

LEMMA LeftFacts ==
    ASSUME NEW sec \in Nat, NEW n \in Int
    PROVE  /\ DaysLeft(sec, n) \in Int /\ SecsLeft(sec, n) \in Nat
           /\ SecsLeft(sec, n) < SEC_PER_DAY
           /\ sec - n * LastSec = DaysLeft(sec, n) * SEC_PER_DAY + SecsLeft(sec, n)
<1>1. sec - n * LastSec \in Int
  BY SMT DEF LastSec
<1> QED
  BY <1>1, DivDay DEF DaysLeft, SecsLeft

LEMMA TurnsExist ==
    ASSUME NEW days, DaysKnown(days), NEW sec \in Nat, sec < SEC_PER_DAY
    PROVE  \E n \in days \div MaxDay - 1 .. days \div MaxDay + 1 :
              IsStamp(days - n * MaxDay + DaysLeft(sec, n), SecsLeft(sec, n))
<1> DEFINE g == days \div MaxDay
           r == days - g * MaxDay
<1>1. g \in Int /\ -1 <= g /\ g <= 60 /\ r \in Nat /\ r < MaxDay
  BY DivMaxDay, SMT
<1>2. days \in Int /\ days = r + g * MaxDay
  BY <1>1, SMT DEF MaxDay, DaysKnown
<1> HIDE DEF g, r
<1>3. g - 1 \in Int /\ g + 1 \in Int
  BY <1>1
<1>4. /\ DaysLeft(sec, g) \in Int /\ SecsLeft(sec, g) \in Nat /\ SecsLeft(sec, g) < SEC_PER_DAY
      /\ sec - g * LastSec = DaysLeft(sec, g) * SEC_PER_DAY + SecsLeft(sec, g)
  BY <1>1, LeftFacts
<1>5. /\ DaysLeft(sec, g - 1) \in Int /\ SecsLeft(sec, g - 1) \in Nat
      /\ SecsLeft(sec, g - 1) < SEC_PER_DAY
      /\ sec - (g - 1) * LastSec = DaysLeft(sec, g - 1) * SEC_PER_DAY + SecsLeft(sec, g - 1)
  BY <1>3, LeftFacts
<1>6. /\ DaysLeft(sec, g + 1) \in Int /\ SecsLeft(sec, g + 1) \in Nat
      /\ SecsLeft(sec, g + 1) < SEC_PER_DAY
      /\ sec - (g + 1) * LastSec = DaysLeft(sec, g + 1) * SEC_PER_DAY + SecsLeft(sec, g + 1)
  BY <1>3, LeftFacts
<1>7. \/ IsStamp(r + DaysLeft(sec, g), SecsLeft(sec, g))
      \/ IsStamp(r + MaxDay + DaysLeft(sec, g - 1), SecsLeft(sec, g - 1))
      \/ IsStamp(r - MaxDay + DaysLeft(sec, g + 1), SecsLeft(sec, g + 1))
  BY <1>1, <1>4, <1>5, <1>6, SomeTurnsFit, Zenon
<1>8. /\ days - g * MaxDay + DaysLeft(sec, g) = r + DaysLeft(sec, g)
      /\ days - (g - 1) * MaxDay + DaysLeft(sec, g - 1) = r + MaxDay + DaysLeft(sec, g - 1)
      /\ days - (g + 1) * MaxDay + DaysLeft(sec, g + 1) = r - MaxDay + DaysLeft(sec, g + 1)
  BY <1>1, <1>2, <1>4, <1>5, <1>6, SMT DEF MaxDay
<1>9. g \in g - 1 .. g + 1 /\ g - 1 \in g - 1 .. g + 1 /\ g + 1 \in g - 1 .. g + 1
  BY <1>1
<1>10. \E n \in g - 1 .. g + 1 : IsStamp(days - n * MaxDay + DaysLeft(sec, n), SecsLeft(sec, n))
  BY <1>7, <1>8, <1>9
<1> QED
  BY <1>10 DEF g

\* The reduction to 32 bits gives 32 bits, for the dates that EfiTimeIsValid lets
\* through.
LEMMA UINT32Typed ==
    ASSUME NEW days, DaysKnown(days), NEW sec \in Nat, sec < SEC_PER_DAY
    PROVE  UINT32(days, sec) \in Stamps
<1> DEFINE ok(n) == IsStamp(days - n * MaxDay + DaysLeft(sec, n), SecsLeft(sec, n))
           g == days \div MaxDay
           m == CHOOSE n \in g - 1 .. g + 1 : ok(n)
<1>1. UINT32(days, sec) = <<days - m * MaxDay + DaysLeft(sec, m), SecsLeft(sec, m)>>
  BY DEF UINT32, IsStamp, DaysLeft, SecsLeft
<1>2. m \in g - 1 .. g + 1 /\ ok(m)
  BY TurnsExist
<1>3. m \in Int
  <2>1. g \in Int
    BY DivMaxDay
  <2> QED
    BY <1>2, <2>1
<1> HIDE DEF m
<1>4. /\ DaysLeft(sec, m) \in Int /\ SecsLeft(sec, m) \in Nat /\ SecsLeft(sec, m) < SEC_PER_DAY
  BY <1>3, LeftFacts
<1>5. days - m * MaxDay + DaysLeft(sec, m) \in Nat
  <2>1. days - m * MaxDay + DaysLeft(sec, m) \in Int
    BY <1>3, <1>4, SMT DEF MaxDay, DaysKnown
  <2> QED
    BY <1>2, <2>1 DEF IsStamp
<1> QED
  BY <1>1, <1>2, <1>4, <1>5, StampMember DEF IsStamp

\* The days of EfiTimeToEpoch from its quotients: the days of m months from
\* March, the years and the leap days among them.
IsQuot(q, y, k) == q \in Int /\ k * q <= y /\ y < k * q + k

LEMMA MonthDivs ==
    ASSUME NEW month \in Int, 1 <= month, month <= 12
    PROVE  LET a == (14 - month) \div 12
               m == month + 12 * a - 3
           IN  a \in Int /\ 0 <= a /\ a <= 1 /\ m \in Int /\ 0 <= m /\ m <= 11
  BY SMT

LEMMA MonthDays ==
    ASSUME NEW m \in Int, 0 <= m, m <= 11
    PROVE  /\ (153 * m + 2) \div 5 \in Int
           /\ 0 <= (153 * m + 2) \div 5 /\ (153 * m + 2) \div 5 <= 338
  BY SMT

LEMMA JulianBounded ==
    ASSUME NEW year \in Int, 1900 <= year, year <= 9999, NEW month \in Int, 1 <= month, month <= 12,
           NEW day \in Nat, day <= MAX_UINT8
    PROVE  DaysKnown(JulianDate(year, month, day) - EPOCH_JULIAN_DATE)
<1> DEFINE a == (14 - month) \div 12
           y == year + 4800 - a
           m == month + 12 * a - 3
           m5 == (153 * m + 2) \div 5
           y4 == y \div 4
           y100 == y \div 100
           y400 == y \div 400
<1>1. a \in Int /\ 0 <= a /\ a <= 1 /\ m \in Int /\ 0 <= m /\ m <= 11
  BY MonthDivs, SMT
<1>2. JulianDate(year, month, day) = day + m5 + 365 * y + y4 - y100 + y400 - 32045
  BY DEF JulianDate
<1> HIDE DEF a, m
<1>3. y \in Int /\ 6699 <= y /\ y <= 14799
  BY <1>1, SMT
<1> HIDE DEF y
<1>4. m5 \in Int /\ 0 <= m5 /\ m5 <= 338
  BY <1>1, MonthDays, SMT
<1>5. IsQuot(y4, y, 4) /\ IsQuot(y100, y, 100) /\ IsQuot(y400, y, 400)
  BY <1>3, SMT DEF IsQuot
<1> HIDE DEF m5, y4, y100, y400
<1> QED
  BY <1>2, <1>3, <1>4, <1>5, SMT DEF IsQuot, DaysKnown, MAX_UINT8, EPOCH_JULIAN_DATE

\* What LKLSetFileInfo hands to utime is 32 bits wide, for every valid time.
LEMMA EpochTyped ==
    ASSUME NEW t \in EFI_TIME, EfiTimeIsValid(t)
    PROVE  EfiTimeToEpoch(t) \in Stamps
<1>1. /\ t.Year \in Nat /\ t.Month \in Nat /\ t.Day \in Nat /\ t.Day <= MAX_UINT8
      /\ t.Hour \in Nat /\ t.Minute \in Nat /\ t.Second \in Nat
  BY SMT DEF EFI_TIME
<1>2. /\ t.Year >= 1900 /\ t.Year <= 9999 /\ t.Month >= 1 /\ t.Month <= 12
      /\ t.Hour <= 23 /\ t.Minute <= 59 /\ t.Second <= 59
  BY SMT DEF EfiTimeIsValid
<1>3. DaysKnown(JulianDate(t.Year, t.Month, t.Day) - EPOCH_JULIAN_DATE)
  BY <1>1, <1>2, JulianBounded, SMT
<1>4. /\ t.Hour * 3600 + t.Minute * 60 + t.Second \in Nat
      /\ t.Hour * 3600 + t.Minute * 60 + t.Second < SEC_PER_DAY
  BY <1>1, <1>2, SMT DEF SEC_PER_DAY
<1> QED
  BY <1>3, <1>4, UINT32Typed, SMT DEF EfiTimeToEpoch

LEMMA TimesTyped ==
    ASSUME NEW q \in Requests, TimesValid(q), NEW mtime \in Stamps
    PROVE  AfterCreate(q, mtime) \in Stamps /\ AfterModify(q, mtime) \in Stamps
<1>1. q.created \in EFI_TIME /\ q.modified \in EFI_TIME
  BY FileAssumption DEF FileInfos
<1>2. /\ q.created = ZeroTime \/ EfiTimeIsValid(q.created)
      /\ q.modified = ZeroTime \/ EfiTimeIsValid(q.modified)
  BY Zenon DEF TimesValid
<1>3. /\ q.created = ZeroTime \/ EfiTimeToEpoch(q.created) \in Stamps
      /\ q.modified = ZeroTime \/ EfiTimeToEpoch(q.modified) \in Stamps
  BY <1>1, <1>2, EpochTyped, Zenon
<1> QED
  BY <1>3, Zenon DEF AfterCreate, AfterModify

-----------------------------------------------------------------------------
(* The two conversions undo each other: a day has one place in the cycles  *)
(* of 400, 100, 4 and 1 years that EpochToEfiTime looks for, and           *)
(* JulianDate counts by the same cycles.                                   *)

\* A year y that begins in March, as cycles of 400, 100, 4 and 1 years, and a day
\* dd of it.  The last day is there in years before a leap year only.
YearParts(y, g, c, b, a) ==
    /\ g \in Int /\ c \in Int /\ b \in Int /\ a \in Int
    /\ 0 <= c /\ c <= 3 /\ 0 <= b /\ b <= 24 /\ 0 <= a /\ a <= 3
    /\ y = 400 * g + 100 * c + 4 * b + a

LastDay(c, b, a) == a = 3 /\ (b = 24 => c = 3)

DayParts(dd, c, b, a) == dd \in Int /\ 0 <= dd /\ (dd <= 364 \/ (dd = 365 /\ LastDay(c, b, a)))

LEMMA CycleIsCapped ==
    ASSUME NEW n \in Int, 0 <= n, n <= 4
    PROVE  Cycle(n) \in Int /\ Cycle(n) = IF n = 4 THEN 3 ELSE n
<1>1. Cycle(0) = 0 /\ Cycle(1) = 1 /\ Cycle(2) = 2 /\ Cycle(3) = 3 /\ Cycle(4) = 3
  BY SMT DEF Cycle
<1>2. n = 0 \/ n = 1 \/ n = 2 \/ n = 3 \/ n = 4
  BY SMT
<1> QED
  BY <1>1, <1>2, SMT

\* The cycles of EpochToEfiTime find the parts of the year and the day.
LEMMA CyclesFound ==
    ASSUME NEW y, NEW g, NEW c, NEW b, NEW a, NEW dd,
           YearParts(y, g, c, b, a), DayParts(dd, c, b, a),
           NEW j, j = 146097 * g + 36524 * c + 1461 * b + 365 * a + dd
    PROVE  /\ j \div 146097 = g
           /\ j % 146097 = 36524 * c + 1461 * b + 365 * a + dd
           /\ Cycle((36524 * c + 1461 * b + 365 * a + dd) \div 36524) = c
           /\ (1461 * b + 365 * a + dd) \div 1461 = b
           /\ (1461 * b + 365 * a + dd) % 1461 = 365 * a + dd
           /\ Cycle((365 * a + dd) \div 365) = a
<1> USE DEF YearParts, DayParts, LastDay
<1> DEFINE dc == 1461 * b + 365 * a + dd
           db == 365 * a + dd
           dg == 36524 * c + dc
<1>1. /\ db \in Int /\ 0 <= db /\ db < 1461 /\ dc \in Int /\ 0 <= dc
      /\ (dc < 36524 \/ (dc = 36524 /\ c = 3)) /\ dg \in Int /\ 0 <= dg /\ dg < 146097
  BY SMT
<1>2. j \div 146097 = g /\ j % 146097 = dg
  BY <1>1, SMT
<1>3. dc \div 1461 = b /\ dc % 1461 = db
  BY <1>1, SMT
<1>4. (dg \div 36524 = c /\ dc < 36524) \/ (dg \div 36524 = 4 /\ c = 3)
  BY <1>1, SMT
<1>5. (db \div 365 = a /\ dd <= 364) \/ (db \div 365 = 4 /\ a = 3)
  BY <1>1, SMT
<1>6. Cycle(dg \div 36524) = c
  BY <1>4, CycleIsCapped, SMT
<1>7. Cycle(db \div 365) = a
  BY <1>5, CycleIsCapped, SMT
<1> QED
  BY <1>2, <1>3, <1>6, <1>7, SMT

\* The days of a month, m months after March.
DaysOf(m) == IF m \in {1, 3, 6, 8} THEN 30 ELSE IF m = 11 THEN 29 ELSE 31
FirstDay(m) == (153 * m + 2) \div 5

LEMMA FirstDays ==
    /\ FirstDay(0) = 0 /\ FirstDay(1) = 31 /\ FirstDay(2) = 61 /\ FirstDay(3) = 92
    /\ FirstDay(4) = 122 /\ FirstDay(5) = 153 /\ FirstDay(6) = 184 /\ FirstDay(7) = 214
    /\ FirstDay(8) = 245 /\ FirstDay(9) = 275 /\ FirstDay(10) = 306 /\ FirstDay(11) = 337
  BY SMT DEF FirstDay

Month0(m) == m \in Int /\ 0 <= m /\ m <= 11

LEMMA MonthCases ==
    ASSUME NEW m, Month0(m)
    PROVE  \/ m = 0 \/ m = 1 \/ m = 2 \/ m = 3 \/ m = 4 \/ m = 5
           \/ m = 6 \/ m = 7 \/ m = 8 \/ m = 9 \/ m = 10 \/ m = 11
  BY SMT DEF Month0

\* One month ends where the next begins, and the days of the months fill the year.
LEMMA MonthTable ==
    ASSUME NEW m, Month0(m)
    PROVE  /\ FirstDay(m) \in Int /\ 0 <= FirstDay(m)
           /\ m = 11 \/ FirstDay(m + 1) = FirstDay(m) + DaysOf(m)
           /\ FirstDay(m) + DaysOf(m) <= 366 /\ (m # 11 => FirstDay(m) + DaysOf(m) <= 337)
           /\ DaysOf(m) \in Int /\ 28 < DaysOf(m) /\ DaysOf(m) <= 31
           /\ FirstDay(m) = ((m + 4) * 153) \div 5 - 122
           /\ 153 * (m + 2) <= 5 * FirstDay(m) + 308
           /\ 5 * (FirstDay(m) + DaysOf(m) - 1) + 308 < 153 * (m + 3)
<1>1. /\ FirstDay(m) \in Int /\ 0 <= FirstDay(m)
      /\ m = 11 \/ FirstDay(m + 1) = FirstDay(m) + DaysOf(m)
      /\ FirstDay(m) + DaysOf(m) <= 366 /\ (m # 11 => FirstDay(m) + DaysOf(m) <= 337)
      /\ DaysOf(m) \in Int /\ 28 < DaysOf(m) /\ DaysOf(m) <= 31
  BY MonthCases, FirstDays, SMT DEF DaysOf
<1>2. FirstDay(m) = ((m + 4) * 153) \div 5 - 122
  BY SMT DEF FirstDay, Month0
<1>3. /\ 153 * (m + 2) <= 5 * FirstDay(m) + 308
      /\ 5 * (FirstDay(m) + DaysOf(m) - 1) + 308 < 153 * (m + 3)
  BY MonthCases, FirstDays, SMT DEF DaysOf
<1> QED
  BY <1>1, <1>2, <1>3

\* The month and the day of EpochToEfiTime from the day of the year.
LEMMA MonthFound ==
    ASSUME NEW m, Month0(m), NEW d \in Int, 0 <= d, d < DaysOf(m)
    PROVE  LET dd == FirstDay(m) + d
           IN  /\ dd \in Int /\ 0 <= dd /\ dd <= 365 /\ (dd = 365 => m = 11 /\ d = 28)
               /\ ((dd * 5 + 308) \div 153) - 2 = m
               /\ dd - ((m + 4) * 153) \div 5 + 122 = d
<1> DEFINE f == FirstDay(m)
           l == DaysOf(m)
           w == ((m + 4) * 153) \div 5
           dd == f + d
<1>1. /\ m \in Int /\ f \in Int /\ 0 <= f /\ l \in Int /\ f + l <= 366 /\ (m # 11 => f + l <= 337)
      /\ w \in Int /\ f = w - 122 /\ 153 * (m + 2) <= 5 * f + 308 /\ 5 * (f + l - 1) + 308 < 153 * (m + 3)
      /\ (m = 11 => l = 29) /\ m <= 11 /\ 0 <= m /\ d < l
  BY MonthTable, SMT DEF Month0, DaysOf
<1>2. m = 11 => f = 337
  BY FirstDays
<1> HIDE DEF f, l, w
<1>3. dd \in Int /\ 0 <= dd /\ dd <= 365 /\ (dd = 365 => m = 11 /\ d = 28)
  BY <1>1, <1>2, SMT
<1>4. dd - w + 122 = d
  BY <1>1, SMT
<1>5. 153 * (m + 2) <= dd * 5 + 308 /\ dd * 5 + 308 < 153 * (m + 2) + 153
  BY <1>1, SMT
<1> HIDE DEF dd
<1>6. ((dd * 5 + 308) \div 153) - 2 = m
  BY <1>1, <1>3, <1>5, SMT
<1> QED
  BY <1>3, <1>4, <1>6 DEF dd, w, f

DayNumber(g, c, b, a, dd) == 146097 * g + 36524 * c + 1461 * b + 365 * a + dd

\* EpochToEfiTime on a day with known parts.
LEMMA DateFound ==
    ASSUME NEW y, NEW g, NEW c, NEW b, NEW a, YearParts(y, g, c, b, a),
           NEW m, Month0(m), NEW d \in Int, 0 <= d, d < DaysOf(m),
           DayParts(FirstDay(m) + d, c, b, a),
           NEW n \in Int, n + EPOCH_JULIAN_DATE + 32044 = DayNumber(g, c, b, a, FirstDay(m) + d),
           NEW s
    PROVE  Date(EpochToEfiTime(<<n, s>>))
             = <<y - 4800 + (m + 2) \div 12, ((m + 2) % 12) + 1, d + 1>>
<1> DEFINE dd == FirstDay(m) + d
           j == n + EPOCH_JULIAN_DATE + 32044
           dg == 36524 * c + 1461 * b + 365 * a + dd
           dc == 1461 * b + 365 * a + dd
           db == 365 * a + dd
<1>1. /\ j \div 146097 = g /\ j % 146097 = dg /\ Cycle(dg \div 36524) = c
      /\ dc \div 1461 = b /\ dc % 1461 = db /\ Cycle(db \div 365) = a
  <2>1. j = 146097 * g + 36524 * c + 1461 * b + 365 * a + dd
    BY DEF DayNumber
  <2> HIDE DEF j, dd
  <2>2. DayParts(dd, c, b, a)
    BY DEF dd
  <2> QED
    BY <2>1, <2>2, CyclesFound
<1>2. /\ dd \in Int /\ ((dd * 5 + 308) \div 153) - 2 = m
      /\ dd - ((m + 4) * 153) \div 5 + 122 = d
  BY MonthFound
<1>3. g \in Int /\ c \in Int /\ b \in Int /\ a \in Int /\ y = 400 * g + 100 * c + 4 * b + a
  BY DEF YearParts
<1>4. dg - c * 36524 = dc /\ db - a * 365 = dd /\ g * 400 + c * 100 + b * 4 + a = y
  <2> HIDE DEF dd
  <2> QED
    BY <1>2, <1>3, SMT
<1> HIDE DEF dd, j, dg, dc, db
<1> DEFINE t == EpochToEfiTime(<<n, s>>)
<1>5. /\ t.Year = y - 4800 + (m + 2) \div 12
      /\ t.Month = ((m + 2) % 12) + 1
      /\ t.Day = d + 1
  BY <1>1, <1>2, <1>4, SMT DEF EpochToEfiTime, j
<1> QED
  BY <1>5 DEF Date

\* Every year has parts, and JulianDate counts its leap days by them.
LEMMA YearSplit ==
    ASSUME NEW y \in Int
    PROVE  \E g, c, b, a : /\ YearParts(y, g, c, b, a)
                           /\ y \div 4 = 100 * g + 25 * c + b /\ y \div 100 = 4 * g + c /\ y \div 400 = g
<1> DEFINE a == y % 4
           q == y \div 4
           b == q % 25
           r == q \div 25
           c == r % 4
           g == r \div 4
<1>1. a \in Int /\ 0 <= a /\ a <= 3 /\ q \in Int /\ y = 4 * q + a
  BY SMT
<1> HIDE DEF a, q
<1>2. b \in Int /\ 0 <= b /\ b <= 24 /\ r \in Int /\ q = 25 * r + b
  BY <1>1, SMT
<1> HIDE DEF b, r
<1>3. c \in Int /\ 0 <= c /\ c <= 3 /\ g \in Int /\ r = 4 * g + c
  BY <1>2, SMT
<1> HIDE DEF c, g
<1>4. y = 400 * g + 100 * c + 4 * b + a /\ q = 100 * g + 25 * c + b
  BY <1>1, <1>2, <1>3, SMT
<1>5. y \div 4 = q
  BY DEF q
<1>6. y \div 100 = r
  BY <1>1, <1>2, SMT
<1>7. y \div 400 = g
  BY <1>1, <1>2, <1>3, <1>4, SMT
<1>8. YearParts(y, g, c, b, a)
  BY <1>1, <1>2, <1>3, <1>4 DEF YearParts
<1>9. y \div 4 = 100 * g + 25 * c + b /\ y \div 100 = 4 * g + c
  BY <1>3, <1>4, <1>5, <1>6, SMT
<1> QED
  BY <1>7, <1>8, <1>9

\* A date of the calendar, as the months of DayOfMonth and IsLeapYear have it.
DateOK(t) ==
    /\ t.Year \in Int /\ t.Month \in Int /\ t.Day \in Int
    /\ 1 <= t.Month /\ t.Month <= 12 /\ DayValid(t)

\* The year and the month counted from March of a month of the calendar.
LEMMA FromMarch ==
    ASSUME NEW M \in Int, 1 <= M, M <= 12
    PROVE  LET a == (14 - M) \div 12
               m == M + 12 * a - 3
           IN  /\ a \in Int /\ Month0(m) /\ ((M > 2 /\ a = 0) \/ (M <= 2 /\ a = 1))
               /\ (m + 2) \div 12 = a /\ ((m + 2) % 12) + 1 = M
               /\ DaysOf(m) = DayOfMonth[M]
<1> DEFINE a == (14 - M) \div 12
           m == M + 12 * a - 3
<1>1. (M > 2 /\ a = 0 /\ m = M - 3) \/ (M <= 2 /\ a = 1 /\ m = M + 9)
  BY SMT
<1>2. a \in Int /\ m \in Int /\ 0 <= m /\ m <= 11
  BY <1>1, SMT
<1> HIDE DEF a, m
<1>3. (m + 2) \div 12 = a /\ ((m + 2) % 12) + 1 = M
  BY <1>1, <1>2, SMT
<1>4. DaysOf(m) = DayOfMonth[M]
  <2>1. \/ M = 1 \/ M = 2 \/ M = 3 \/ M = 4 \/ M = 5 \/ M = 6
        \/ M = 7 \/ M = 8 \/ M = 9 \/ M = 10 \/ M = 11 \/ M = 12
    BY SMT
  <2> QED
    BY <2>1, <1>1, SMT DEF DaysOf, DayOfMonth
<1> QED
  BY <1>1, <1>2, <1>3, <1>4 DEF a, m, Month0

\* JulianDate finds the day with the parts of the date.
LEMMA JulianParts ==
    ASSUME NEW t, DateOK(t)
    PROVE  \E y, g, c, b, a, m :
               /\ YearParts(y, g, c, b, a) /\ Month0(m) /\ t.Day - 1 < DaysOf(m)
               /\ DayParts(FirstDay(m) + (t.Day - 1), c, b, a)
               /\ JulianDate(t.Year, t.Month, t.Day) + 32044
                    = DayNumber(g, c, b, a, FirstDay(m) + (t.Day - 1))
               /\ y - 4800 + (m + 2) \div 12 = t.Year /\ ((m + 2) % 12) + 1 = t.Month
<1> DEFINE Y == t.Year
           M == t.Month
           D == t.Day
           e == (14 - M) \div 12
           m == M + 12 * e - 3
           y == Y + 4800 - e
<1>1. Y \in Int /\ M \in Int /\ D \in Int /\ 1 <= M /\ M <= 12 /\ DayValid(t)
  BY DEF DateOK
<1>2. /\ e \in Int /\ Month0(m) /\ ((M > 2 /\ e = 0) \/ (M <= 2 /\ e = 1))
      /\ (m + 2) \div 12 = e /\ ((m + 2) % 12) + 1 = M /\ DaysOf(m) = DayOfMonth[M]
  <2> HIDE DEF M
  <2> QED
    BY <1>1, FromMarch
<1>3. 1 <= D /\ D <= DaysOf(m) /\ ~(M = 2 /\ ~IsLeapYear(t) /\ D > 28)
  BY <1>1, <1>2 DEF DayValid
<1>4. m = M + 12 * e - 3
  OBVIOUS
<1>5. JulianDate(Y, M, D) = D + FirstDay(m) + 365 * y + y \div 4 - y \div 100 + y \div 400 - 32045
  BY DEF JulianDate, FirstDay
<1>6. IsLeapYear(t) => Y % 4 = 0 /\ (Y % 100 = 0 => Y % 400 = 0)
  BY DEF IsLeapYear
<1> HIDE DEF Y, M, D, e, m
<1>7. y \in Int /\ y - 4800 + e = Y
  BY <1>1, <1>2, SMT
<1> HIDE DEF y
<1>8. PICK g, c, b, a :
          /\ YearParts(y, g, c, b, a)
          /\ y \div 4 = 100 * g + 25 * c + b /\ y \div 100 = 4 * g + c /\ y \div 400 = g
  BY <1>7, YearSplit
<1>9. /\ g \in Int /\ c \in Int /\ b \in Int /\ a \in Int /\ y = 400 * g + 100 * c + 4 * b + a
      /\ 0 <= c /\ c <= 3 /\ 0 <= b /\ b <= 24 /\ 0 <= a /\ a <= 3
  BY <1>8 DEF YearParts
<1>10. FirstDay(m) \in Int /\ 0 <= FirstDay(m) /\ DaysOf(m) \in Int
  BY <1>2, MonthTable
<1>11. JulianDate(Y, M, D) + 32044 = DayNumber(g, c, b, a, FirstDay(m) + (D - 1))
  <2> DEFINE f == FirstDay(m)
  <2>1. f \in Int
    BY <1>10
  <2> HIDE DEF f
  <2>2. D + f + 365 * y + y \div 4 - y \div 100 + y \div 400 - 32045 + 32044
          = 146097 * g + 36524 * c + 1461 * b + 365 * a + (f + (D - 1))
    BY <2>1, <1>8, <1>9, <1>1, SMT
  <2> QED
    BY <2>2, <1>5 DEF f, DayNumber
<1>12. (M = 2 /\ D = 29) => LastDay(c, b, a)
  <2> SUFFICES ASSUME M = 2, D = 29
               PROVE  LastDay(c, b, a)
    OBVIOUS
  <2>1. Y % 4 = 0 /\ (Y % 100 = 0 => Y % 400 = 0)
    BY <1>3, <1>6, SMT
  <2>2. Y = 400 * (g - 12) + 100 * c + 4 * b + a + 1
    BY <1>2, <1>7, <1>9, SMT
  <2>3. a = 3
    BY <2>1, <2>2, <1>9, SMT
  <2>4. ASSUME b = 24
        PROVE  c = 3
    <3>1. Y = 400 * (g - 12) + 100 * c + 100
      BY <2>2, <2>3, <2>4, <1>9, SMT
    <3>2. Y % 100 = 0
      BY <3>1, <1>9, SMT
    <3>3. Y % 400 = 0
      BY <2>1, <3>2
    <3> QED
      BY <3>1, <3>3, <1>9, SMT
  <2> QED
    BY <2>3, <2>4 DEF LastDay
<1>13. DayParts(FirstDay(m) + (D - 1), c, b, a)
  <2>1. /\ FirstDay(m) + (D - 1) \in Int /\ 0 <= FirstDay(m) + (D - 1) /\ FirstDay(m) + (D - 1) <= 365
        /\ (FirstDay(m) + (D - 1) = 365 => m = 11 /\ D - 1 = 28)
    <3> DEFINE d == D - 1
    <3>1. d \in Int /\ 0 <= d /\ d < DaysOf(m)
      BY <1>1, <1>3, <1>10, SMT
    <3> HIDE DEF d
    <3>2. /\ FirstDay(m) + d \in Int /\ 0 <= FirstDay(m) + d /\ FirstDay(m) + d <= 365
          /\ (FirstDay(m) + d = 365 => m = 11 /\ d = 28)
      BY <3>1, <1>2, MonthFound
    <3> QED
      BY <3>2 DEF d
  <2>2. m = 11 => M = 2
    BY <1>1, <1>2, <1>4, SMT DEF m
  <2>3. FirstDay(m) + (D - 1) = 365 => LastDay(c, b, a)
    BY <2>1, <2>2, <1>12, <1>1, SMT
  <2>4. FirstDay(m) + (D - 1) <= 364 \/ FirstDay(m) + (D - 1) = 365
    BY <2>1, SMT
  <2> QED
    BY <2>1, <2>3, <2>4 DEF DayParts
<1>14. D - 1 < DaysOf(m)
  BY <1>1, <1>3, <1>10, SMT
<1>15. y - 4800 + (m + 2) \div 12 = Y /\ ((m + 2) % 12) + 1 = M
  BY <1>2, <1>7
<1>16. /\ YearParts(y, g, c, b, a) /\ Month0(m) /\ D - 1 < DaysOf(m)
       /\ DayParts(FirstDay(m) + (D - 1), c, b, a)
       /\ JulianDate(Y, M, D) + 32044 = DayNumber(g, c, b, a, FirstDay(m) + (D - 1))
       /\ y - 4800 + (m + 2) \div 12 = Y /\ ((m + 2) % 12) + 1 = M
  BY <1>2, <1>8, <1>11, <1>13, <1>14, <1>15
<1> QED
  BY <1>16 DEF Y, M, D

LEMMA JulianTyped ==
    ASSUME NEW Y \in Int, NEW M \in Int, NEW D \in Int
    PROVE  JulianDate(Y, M, D) \in Int
  BY SMT DEF JulianDate

\* The date of a day is the date that the day was computed from.
LEMMA DateReadBack ==
    ASSUME NEW t, DateOK(t),
           NEW n \in Int, n = JulianDate(t.Year, t.Month, t.Day) - EPOCH_JULIAN_DATE, NEW s
    PROVE  Date(EpochToEfiTime(<<n, s>>)) = Date(t)
<1>1. PICK y, g, c, b, a, m :
               /\ YearParts(y, g, c, b, a) /\ Month0(m) /\ t.Day - 1 < DaysOf(m)
               /\ DayParts(FirstDay(m) + (t.Day - 1), c, b, a)
               /\ JulianDate(t.Year, t.Month, t.Day) + 32044
                    = DayNumber(g, c, b, a, FirstDay(m) + (t.Day - 1))
               /\ y - 4800 + (m + 2) \div 12 = t.Year /\ ((m + 2) % 12) + 1 = t.Month
  BY JulianParts
<1> DEFINE d == t.Day - 1
           J == JulianDate(t.Year, t.Month, t.Day)
<1>2. d \in Int /\ 0 <= d /\ d < DaysOf(m) /\ d + 1 = t.Day
  <2>1. t.Day \in Int /\ 1 <= t.Day
    BY DEF DateOK, DayValid
  <2> QED
    BY <1>1, <2>1, SMT
<1>3. J \in Int
  BY JulianTyped DEF DateOK
<1>4. DayParts(FirstDay(m) + d, c, b, a) /\ J + 32044 = DayNumber(g, c, b, a, FirstDay(m) + d)
  BY <1>1
<1>5. n = J - EPOCH_JULIAN_DATE
  OBVIOUS
<1> HIDE DEF d, J
<1>6. n + EPOCH_JULIAN_DATE + 32044 = J + 32044
  BY <1>3, <1>5, SMT DEF EPOCH_JULIAN_DATE
<1>7. n + EPOCH_JULIAN_DATE + 32044 = DayNumber(g, c, b, a, FirstDay(m) + d)
  BY <1>4, <1>6
<1>8. Date(EpochToEfiTime(<<n, s>>)) = <<y - 4800 + (m + 2) \div 12, ((m + 2) % 12) + 1, d + 1>>
  BY <1>1, <1>2, <1>4, <1>7, DateFound
<1> QED
  BY <1>1, <1>2, <1>8 DEF Date

\* The days of the years that 32 bits of seconds reach as a whole.
LEMMA DayInRange ==
    ASSUME NEW t, DateOK(t), 1970 <= t.Year, t.Year <= 2105
    PROVE  LET n == JulianDate(t.Year, t.Month, t.Day) - EPOCH_JULIAN_DATE
           IN  n \in Int /\ 0 <= n /\ n < MaxDay
<1> DEFINE Y == t.Year
           M == t.Month
           D == t.Day
           e == (14 - M) \div 12
           m == M + 12 * e - 3
           y == Y + 4800 - e
           f == FirstDay(m)
           l == DaysOf(m)
           J == JulianDate(Y, M, D)
<1>1. Y \in Int /\ M \in Int /\ D \in Int /\ 1 <= M /\ M <= 12 /\ DayValid(t) /\ 1970 <= Y /\ Y <= 2105
  BY DEF DateOK
<1>2. /\ e \in Int /\ Month0(m) /\ ((M > 2 /\ e = 0) \/ (M <= 2 /\ e = 1)) /\ l = DayOfMonth[M]
  <2> HIDE DEF M
  <2> QED
    BY <1>1, FromMarch
<1>3. 1 <= D /\ D <= l
  BY <1>1, <1>2 DEF DayValid
<1>4. J = D + f + 365 * y + y \div 4 - y \div 100 + y \div 400 - 32045
  BY DEF JulianDate, FirstDay
<1> HIDE DEF Y, M, D, e, J
<1>5. /\ f \in Int /\ l \in Int /\ 0 <= f /\ (m <= 9 => f + l <= 306) /\ (m >= 10 => 306 <= f) /\ f + l <= 366
  BY <1>2, MonthCases, FirstDays, SMT DEF DaysOf
<1>6. (e = 0 /\ m <= 9) \/ (e = 1 /\ m >= 10)
  BY <1>1, <1>2, SMT
<1>7. y \in Int /\ y = Y + 4800 - e
  BY <1>1, <1>2, SMT
<1> HIDE DEF m, y, f, l
<1>8. /\ (6770 <= y => 2440588 <= 1 + 365 * y + y \div 4 - y \div 100 + y \div 400 - 32045)
      /\ (6769 <= y => 2440588 <= 307 + 365 * y + y \div 4 - y \div 100 + y \div 400 - 32045)
      /\ (y <= 6905 => 306 + 365 * y + y \div 4 - y \div 100 + y \div 400 - 32045 < 2440588 + 49710)
      /\ (y <= 6904 => 366 + 365 * y + y \div 4 - y \div 100 + y \div 400 - 32045 < 2440588 + 49710)
  BY <1>7, SMT
<1> DEFINE v == 365 * y + y \div 4 - y \div 100 + y \div 400 - 32045
<1>9. v \in Int /\ J = D + f + v
  BY <1>1, <1>4, <1>5, <1>7, SMT
<1>10. /\ (6770 <= y => 2440588 <= 1 + v) /\ (6769 <= y => 2440588 <= 307 + v)
       /\ (y <= 6905 => 306 + v < 2440588 + 49710) /\ (y <= 6904 => 366 + v < 2440588 + 49710)
  BY <1>7, <1>8, SMT
<1> HIDE DEF v
<1>11. J \in Int /\ 2440588 <= J /\ J < 2440588 + 49710
  <2>1. CASE e = 0 /\ m <= 9
    BY <2>1, <1>1, <1>3, <1>5, <1>7, <1>9, <1>10, SMT
  <2>2. CASE e = 1 /\ m >= 10
    BY <2>2, <1>1, <1>3, <1>5, <1>7, <1>9, <1>10, SMT
  <2> QED
    BY <2>1, <2>2, <1>6
<1>12. J - 2440588 \in Int /\ 0 <= J - 2440588 /\ J - 2440588 < 49710
  BY <1>11, SMT
<1> QED
  BY <1>12 DEF J, Y, M, D, EPOCH_JULIAN_DATE, MaxDay

\* Within 32 bits nothing wraps around.
LEMMA NothingWraps ==
    ASSUME NEW n \in Int, 0 <= n, n < MaxDay, NEW s \in Int, 0 <= s, s < SEC_PER_DAY
    PROVE  UINT32(n, s) = <<n, s>>
<1> USE DEF MaxDay, SEC_PER_DAY, LastSec
<1> DEFINE Less(k) == <<n - k * MaxDay + (s - k * LastSec) \div SEC_PER_DAY,
                        (s - k * LastSec) % SEC_PER_DAY>>
           Fits(p) == 0 <= p[1] /\ (p[1] < MaxDay \/ (p[1] = MaxDay /\ p[2] < LastSec))
           guess == n \div MaxDay
           found == CHOOSE k \in guess - 1 .. guess + 1 : Fits(Less(k))
<1>1. guess = 0
  BY SMT
<1>2. Less(0) = <<n, s>>
  BY SMT
<1>3. Fits(Less(0))
  BY <1>2, SMT
<1>4. ASSUME NEW k \in Int, k = -1 \/ k = 1
      PROVE  ~Fits(Less(k))
  <2>1. CASE k = 1
    <3>1. n - 49710 + (s - 23296) \div 86400 < 0
      BY SMT
    <3> QED
      BY <2>1, <3>1, SMT
  <2>2. CASE k = -1
    <3>1. Less(-1) = <<n + 49710 + (s + 23296) \div 86400, (s + 23296) % 86400>>
      BY SMT
    <3>2. \/ n + 49710 + (s + 23296) \div 86400 > 49710
          \/ (s + 23296) % 86400 >= 23296
      BY SMT
    <3>3. n + 49710 + (s + 23296) \div 86400 >= 49710
      BY SMT
    <3> QED
      BY <2>2, <3>1, <3>2, <3>3, SMT
  <2> QED
    BY <1>4, <2>1, <2>2
<1>5. found \in -1 .. 1 /\ Fits(Less(found))
  <2>1. 0 \in guess - 1 .. guess + 1
    BY <1>1, SMT
  <2>2. found \in guess - 1 .. guess + 1 /\ Fits(Less(found))
    <3> HIDE DEF Less, Fits, guess
    <3> QED
      BY <1>3, <2>1
  <2> QED
    BY <1>1, <2>2, SMT
<1>6. found = 0
  <2> HIDE DEF found, Less, Fits
  <2>1. found \in Int /\ (found = 0 \/ found = -1 \/ found = 1)
    BY <1>5, SMT
  <2> QED
    BY <2>1, <1>4, <1>5
<1>7. UINT32(n, s) = Less(found)
  BY DEF UINT32
<1> HIDE DEF Less, found
<1> QED
  BY <1>2, <1>6, <1>7

\* The second sec of a day, as hours, minutes and seconds.
TimeOfDay(sec, h, m, s) ==
    /\ h \in Int /\ 0 <= h /\ h <= 23 /\ m \in Int /\ 0 <= m /\ m <= 59
    /\ s \in Int /\ 0 <= s /\ s <= 59 /\ sec = h * 3600 + m * 60 + s

\* The clock of EpochToEfiTime.
LEMMA ClockFound ==
    ASSUME NEW n \in Int, NEW sec, NEW h, NEW m, NEW s, TimeOfDay(sec, h, m, s)
    PROVE  /\ sec \in Int /\ 0 <= sec /\ sec < SEC_PER_DAY
           /\ Clock(EpochToEfiTime(<<n, sec>>)) = <<h, m, s>>
<1> USE DEF TimeOfDay
<1> DEFINE min == n * 1440 + sec \div 60
<1>1. sec \in Int /\ 0 <= sec /\ sec < SEC_PER_DAY
  BY SMT DEF SEC_PER_DAY
<1>2. sec \div 60 = h * 60 + m /\ sec % 60 = s
  BY SMT
<1>3. min = n * 1440 + h * 60 + m
  BY <1>1, <1>2, SMT
<1>4. min \div 60 = n * 24 + h /\ min % 60 = m
  <2> HIDE DEF min
  <2> QED
    BY <1>3, SMT
<1>5. (n * 24 + h) % 24 = h
  BY SMT
<1>6. Clock(EpochToEfiTime(<<n, sec>>)) = <<(min \div 60) % 24, min % 60, sec % 60>>
  BY DEF Clock, EpochToEfiTime
<1> QED
  BY <1>1, <1>2, <1>4, <1>5, <1>6

\* EpochToEfiTime undoes EfiTimeToEpoch on the valid times of the years that 32
\* bits of seconds reach as a whole.
LEMMA TimeReadBack ==
    ASSUME NEW t \in EFI_TIME, EfiTimeIsValid(t), t.Year \in 1970 .. 2105
    PROVE  /\ Date(EpochToEfiTime(EfiTimeToEpoch(t))) = Date(t)
           /\ Clock(EpochToEfiTime(EfiTimeToEpoch(t))) = Clock(t)
<1> DEFINE n == JulianDate(t.Year, t.Month, t.Day) - EPOCH_JULIAN_DATE
           s == t.Hour * 3600 + t.Minute * 60 + t.Second
<1>1. /\ t.Year \in Int /\ t.Month \in Int /\ t.Day \in Int
      /\ t.Hour \in Int /\ t.Minute \in Int /\ t.Second \in Int
      /\ 0 <= t.Hour /\ 0 <= t.Minute /\ 0 <= t.Second
  BY SMT DEF EFI_TIME
<1>2. /\ 1 <= t.Month /\ t.Month <= 12 /\ DayValid(t)
      /\ t.Hour <= 23 /\ t.Minute <= 59 /\ t.Second <= 59
  BY <1>1, SMT DEF EfiTimeIsValid
<1>3. DateOK(t)
  BY <1>1, <1>2 DEF DateOK
<1>4. 1970 <= t.Year /\ t.Year <= 2105
  BY <1>1, SMT
<1>5. n \in Int /\ 0 <= n /\ n < MaxDay
  BY <1>3, <1>4, DayInRange
<1>6. /\ s \in Int /\ 0 <= s /\ s < SEC_PER_DAY
      /\ Clock(EpochToEfiTime(<<n, s>>)) = <<t.Hour, t.Minute, t.Second>>
  <2>1. TimeOfDay(s, t.Hour, t.Minute, t.Second)
    BY <1>1, <1>2 DEF TimeOfDay
  <2> HIDE DEF n, s
  <2> QED
    BY <2>1, <1>5, ClockFound
<1>7. Date(EpochToEfiTime(<<n, s>>)) = Date(t)
  <2>1. n = JulianDate(t.Year, t.Month, t.Day) - EPOCH_JULIAN_DATE
    OBVIOUS
  <2> HIDE DEF n, s
  <2> QED
    BY <2>1, <1>3, <1>5, DateReadBack
<1>8. EfiTimeToEpoch(t) = UINT32(n, s)
  BY DEF EfiTimeToEpoch
<1> HIDE DEF n, s
<1>9. EfiTimeToEpoch(t) = <<n, s>>
  BY <1>5, <1>6, <1>8, NothingWraps
<1> QED
  BY <1>6, <1>7, <1>9 DEF Clock

\* A day of a year that begins in March lies in one of its months.
LEMMA DayHasMonth ==
    ASSUME NEW dd \in Int, 0 <= dd, dd <= 365
    PROVE  \E m : Month0(m) /\ FirstDay(m) <= dd /\ dd < FirstDay(m) + DaysOf(m)
<1> DEFINE In(m) == Month0(m) /\ FirstDay(m) <= dd /\ dd < FirstDay(m) + DaysOf(m)
<1>1. /\ (0 <= dd /\ dd < 31 => In(0)) /\ (31 <= dd /\ dd < 61 => In(1))
      /\ (61 <= dd /\ dd < 92 => In(2)) /\ (92 <= dd /\ dd < 122 => In(3))
      /\ (122 <= dd /\ dd < 153 => In(4)) /\ (153 <= dd /\ dd < 184 => In(5))
  BY FirstDays, SMT DEF Month0, DaysOf
<1>2. /\ (184 <= dd /\ dd < 214 => In(6)) /\ (214 <= dd /\ dd < 245 => In(7))
      /\ (245 <= dd /\ dd < 275 => In(8)) /\ (275 <= dd /\ dd < 306 => In(9))
      /\ (306 <= dd /\ dd < 337 => In(10)) /\ (337 <= dd /\ dd < 366 => In(11))
  BY FirstDays, SMT DEF Month0, DaysOf
<1> HIDE DEF In
<1>3. \E m : In(m)
  BY <1>1, <1>2, SMT
<1> QED
  BY <1>3 DEF In

\* The parts of a day: what DateFound and JulianParts are about.
HasParts(j, y, g, c, b, a, m, d) ==
    /\ YearParts(y, g, c, b, a) /\ Month0(m) /\ d \in Int /\ 0 <= d /\ d < DaysOf(m)
    /\ DayParts(FirstDay(m) + d, c, b, a)
    /\ j = DayNumber(g, c, b, a, FirstDay(m) + d)

\* Every day has parts.
LEMMA DayHasParts ==
    ASSUME NEW j \in Int
    PROVE  \E y, g, c, b, a, m, d : HasParts(j, y, g, c, b, a, m, d)
<1> DEFINE g == j \div 146097
           dg == j % 146097
           c == IF dg \div 36524 = 4 THEN 3 ELSE dg \div 36524
           dc == dg - 36524 * c
           b == dc \div 1461
           db == dc % 1461
           a == IF db \div 365 = 4 THEN 3 ELSE db \div 365
           dd == db - 365 * a
           y == 400 * g + 100 * c + 4 * b + a
<1>1. g \in Int /\ dg \in Int /\ 0 <= dg /\ dg < 146097 /\ j = 146097 * g + dg
  BY SMT
<1> HIDE DEF g, dg
<1>2. /\ c \in Int /\ 0 <= c /\ c <= 3 /\ dc \in Int /\ 0 <= dc /\ dc <= 36524
      /\ (dc = 36524 => c = 3) /\ dg = 36524 * c + dc
  BY <1>1, SMT
<1> HIDE DEF c, dc
<1>3. /\ b \in Int /\ 0 <= b /\ b <= 24 /\ db \in Int /\ 0 <= db /\ db <= 1460 /\ dc = 1461 * b + db
  BY <1>2, SMT
<1> HIDE DEF b, db
<1>4. /\ a \in Int /\ 0 <= a /\ a <= 3 /\ dd \in Int /\ 0 <= dd /\ dd <= 365
      /\ (dd = 365 => a = 3) /\ db = 365 * a + dd
  BY <1>3, SMT
<1> HIDE DEF a, dd
<1>5. YearParts(y, g, c, b, a)
  BY <1>1, <1>2, <1>3, <1>4, SMT DEF YearParts
<1>6. DayParts(dd, c, b, a)
  <2>1. ASSUME dd = 365
        PROVE  LastDay(c, b, a)
    <3>1. a = 3 /\ (b = 24 => dc = 36524)
      BY <2>1, <1>3, <1>4, SMT
    <3> QED
      BY <3>1, <1>2 DEF LastDay
  <2>2. dd <= 364 \/ dd = 365
    BY <1>4, SMT
  <2> QED
    BY <2>1, <2>2, <1>4 DEF DayParts
<1>7. j = DayNumber(g, c, b, a, dd)
  BY <1>1, <1>2, <1>3, <1>4, SMT DEF DayNumber
<1>8. PICK m : Month0(m) /\ FirstDay(m) <= dd /\ dd < FirstDay(m) + DaysOf(m)
  BY <1>4, DayHasMonth
<1> DEFINE d == dd - FirstDay(m)
<1>9. d \in Int /\ 0 <= d /\ d < DaysOf(m) /\ FirstDay(m) + d = dd
  BY <1>4, <1>8, MonthTable, SMT
<1> HIDE DEF y, d
<1>10. HasParts(j, y, g, c, b, a, m, d)
  BY <1>5, <1>6, <1>7, <1>8, <1>9 DEF HasParts
<1> QED
  BY <1>10

\* A date with the parts of a day is valid, and JulianDate finds the day again.
LEMMA PartsAreADate ==
    ASSUME NEW t, NEW j, NEW y, NEW g, NEW c, NEW b, NEW a, NEW m, NEW d,
           HasParts(j, y, g, c, b, a, m, d),
           t.Year = y - 4800 + (m + 2) \div 12, t.Month = ((m + 2) % 12) + 1, t.Day = d + 1
    PROVE  DateOK(t) /\ JulianDate(t.Year, t.Month, t.Day) + 32044 = j
<1> DEFINE Y == t.Year
           M == t.Month
           D == t.Day
           e == (m + 2) \div 12
<1>1. /\ g \in Int /\ c \in Int /\ b \in Int /\ a \in Int /\ y = 400 * g + 100 * c + 4 * b + a
      /\ 0 <= c /\ c <= 3 /\ 0 <= b /\ b <= 24 /\ 0 <= a /\ a <= 3 /\ m \in Int /\ 0 <= m /\ m <= 11
      /\ d \in Int /\ 0 <= d /\ d < DaysOf(m)
  BY DEF HasParts, YearParts, Month0
<1>2. Y = y - 4800 + e /\ M = ((m + 2) % 12) + 1 /\ D = d + 1
  OBVIOUS
<1> HIDE DEF Y, M, D
<1>3. (m <= 9 /\ e = 0 /\ M = m + 3) \/ (m >= 10 /\ e = 1 /\ M = m - 9)
  BY <1>1, <1>2, SMT
<1> HIDE DEF e
<1>4. e \in Int /\ M \in Int /\ 1 <= M /\ M <= 12 /\ D \in Int /\ 1 <= D
  BY <1>1, <1>2, <1>3, SMT
<1>5. y \in Int /\ Y \in Int /\ Y + 4800 - e = y
  BY <1>1, <1>2, <1>4, SMT
<1>6. (14 - M) \div 12 = e /\ M + 12 * e - 3 = m
  BY <1>1, <1>3, <1>4, SMT
<1>7. DaysOf(m) = DayOfMonth[M]
  BY <1>4, <1>6, FromMarch
<1>8. FirstDay(m) \in Int /\ DaysOf(m) \in Int
  BY MonthTable DEF HasParts
<1>9. D <= DayOfMonth[M]
  BY <1>1, <1>2, <1>7, <1>8, SMT
<1>10. M = 2 /\ D > 28 => IsLeapYear(t)
  <2> SUFFICES ASSUME M = 2, D > 28
               PROVE  IsLeapYear(t)
    OBVIOUS
  <2>1. m = 11 /\ e = 1 /\ d = 28
    BY <1>1, <1>2, <1>3, SMT DEF DaysOf
  <2>2. LastDay(c, b, a)
    <3>1. FirstDay(m) + d = 365
      BY <2>1, FirstDays, SMT
    <3> QED
      BY <3>1, SMT DEF HasParts, DayParts
  <2>3. a = 3 /\ (b = 24 => c = 3)
    BY <2>2 DEF LastDay
  <2>4. Y = 400 * (g - 12) + 100 * c + 4 * b + 4
    BY <1>1, <1>5, <2>1, <2>3, SMT
  <2>5. Y % 4 = 0
    BY <2>4, <1>1, SMT
  <2>6. Y % 100 = 0 => b = 24
    BY <2>4, <1>1, SMT
  <2>7. b = 24 => Y = 400 * (g - 11)
    BY <2>3, <2>4, <1>1, SMT
  <2>8. Y % 100 = 0 => Y % 400 = 0
    BY <2>6, <2>7, <1>1, SMT
  <2> QED
    BY <2>5, <2>8 DEF IsLeapYear, Y
<1>11. DateOK(t)
  BY <1>4, <1>5, <1>9, <1>10 DEF DateOK, DayValid, Y, M, D
<1>12. y \div 4 = 100 * g + 25 * c + b /\ y \div 100 = 4 * g + c /\ y \div 400 = g
  BY <1>1, SMT
<1>13. JulianDate(Y, M, D) = D + FirstDay(m) + 365 * y + y \div 4 - y \div 100 + y \div 400 - 32045
  BY <1>5, <1>6 DEF JulianDate, FirstDay
<1>14. JulianDate(Y, M, D) + 32044 = DayNumber(g, c, b, a, FirstDay(m) + d)
  <2> DEFINE f == FirstDay(m)
  <2>1. f \in Int
    BY <1>8
  <2> HIDE DEF f
  <2>2. D + f + 365 * y + y \div 4 - y \div 100 + y \div 400 - 32045 + 32044
          = 146097 * g + 36524 * c + 1461 * b + 365 * a + (f + d)
    BY <2>1, <1>1, <1>2, <1>4, <1>12, SMT
  <2> QED
    BY <2>2, <1>13 DEF f, DayNumber
<1> QED
  BY <1>11, <1>14 DEF HasParts, Y, M, D

\* EpochToEfiTime gives a valid date, and JulianDate leads back to the day.
LEMMA DayReadBack ==
    ASSUME NEW n \in Int, NEW s
    PROVE  LET t == EpochToEfiTime(<<n, s>>)
           IN  DateOK(t) /\ JulianDate(t.Year, t.Month, t.Day) - EPOCH_JULIAN_DATE = n
<1> DEFINE t == EpochToEfiTime(<<n, s>>)
           j == n + EPOCH_JULIAN_DATE + 32044
<1>1. j \in Int
  BY SMT DEF EPOCH_JULIAN_DATE
<1> HIDE DEF t, j
<1>2. PICK y, g, c, b, a, m, d : HasParts(j, y, g, c, b, a, m, d)
  BY <1>1, DayHasParts
<1>3. Date(t) = <<y - 4800 + (m + 2) \div 12, ((m + 2) % 12) + 1, d + 1>>
  <2>1. n + EPOCH_JULIAN_DATE + 32044 = DayNumber(g, c, b, a, FirstDay(m) + d)
    BY <1>2 DEF HasParts, j
  <2> QED
    BY <1>2, <2>1, DateFound DEF HasParts, t
<1>4. t.Year = y - 4800 + (m + 2) \div 12 /\ t.Month = ((m + 2) % 12) + 1 /\ t.Day = d + 1
  BY <1>3 DEF Date
<1>5. DateOK(t) /\ JulianDate(t.Year, t.Month, t.Day) + 32044 = j
  BY <1>2, <1>4, PartsAreADate
<1>6. JulianDate(t.Year, t.Month, t.Day) \in Int
  <2>1. t.Year \in Int /\ t.Month \in Int /\ t.Day \in Int
    BY <1>5 DEF DateOK
  <2> QED
    BY <2>1, JulianTyped, Zenon
<1>7. JulianDate(t.Year, t.Month, t.Day) - EPOCH_JULIAN_DATE = n
  BY <1>5, <1>6, SMT DEF j, EPOCH_JULIAN_DATE
<1> QED
  BY <1>5, <1>7 DEF t

-----------------------------------------------------------------------------
(* The calendar itself: JulianDate counts the days one by one.             *)

YearDays(y) == 365 * y + y \div 4 - y \div 100 + y \div 400

LEMMA YearDaysTyped ==
    ASSUME NEW y \in Int
    PROVE  YearDays(y) \in Int
  BY SMT DEF YearDays

\* JulianDate, with the month and the year counted from March.
LEMMA JulianForm ==
    ASSUME NEW Y \in Int, NEW M \in Int, 1 <= M, M <= 12, NEW D \in Int
    PROVE  /\ M > 2 => JulianDate(Y, M, D) = D + FirstDay(M - 3) + YearDays(Y + 4800) - 32045
           /\ M <= 2 => JulianDate(Y, M, D) = D + FirstDay(M + 9) + YearDays(Y + 4799) - 32045
<1> DEFINE e == (14 - M) \div 12
           m == M + 12 * e - 3
           y == Y + 4800 - e
<1>1. (M > 2 /\ e = 0 /\ m = M - 3 /\ y = Y + 4800) \/ (M <= 2 /\ e = 1 /\ m = M + 9 /\ y = Y + 4799)
  BY SMT
<1>2. JulianDate(Y, M, D) = D + (153 * m + 2) \div 5 + 365 * y + y \div 4 - y \div 100 + y \div 400 - 32045
  BY DEF JulianDate
<1>3. m \in Int /\ y \in Int
  BY SMT
<1> HIDE DEF e, m, y
<1>4. JulianDate(Y, M, D) = D + FirstDay(m) + YearDays(y) - 32045
  BY <1>2, <1>3, SMT DEF FirstDay, YearDays
<1> QED
  BY <1>1, <1>4, SMT

\* The year that begins in March is a day longer before a leap year.
LEMMA LeapDay ==
    ASSUME NEW Y \in Int
    PROVE  YearDays(Y + 4800) = YearDays(Y + 4799) + 365
             + (IF Y % 400 = 0 \/ (Y % 4 = 0 /\ Y % 100 # 0) THEN 1 ELSE 0)
<1> DEFINE z == Y + 4799
<1>1. z \in Int /\ Y + 4800 = z + 1 /\ Y = z - 4799
  BY SMT
<1>2. (Y + 4800) \div 4 = (Y + 4799) \div 4 + (IF Y % 4 = 0 THEN 1 ELSE 0)
  BY SMT
<1>3. (Y + 4800) \div 100 = (Y + 4799) \div 100 + (IF Y % 100 = 0 THEN 1 ELSE 0)
  BY SMT
<1>4. (Y + 4800) \div 400 = (Y + 4799) \div 400 + (IF Y % 400 = 0 THEN 1 ELSE 0)
  BY SMT
<1>5. (Y % 400 = 0 => Y % 100 = 0) /\ (Y % 100 = 0 => Y % 4 = 0)
  BY SMT
<1>6. (Y + 4799) \div 4 \in Int /\ (Y + 4799) \div 100 \in Int /\ (Y + 4799) \div 400 \in Int
  BY SMT
<1> QED
  BY <1>2, <1>3, <1>4, <1>5, <1>6, SMT DEF YearDays

\* The last day of a month, as Tomorrow has it.
LastOf(Y, M) ==
    CASE M \in {4, 6, 9, 11} -> 30
      [] M = 2 -> IF Y % 400 = 0 \/ (Y % 4 = 0 /\ Y % 100 # 0) THEN 29 ELSE 28
      [] OTHER -> 31

LEMMA OtherMonths ==
    ASSUME NEW Y, NEW M \in Int, 1 <= M, M <= 12, M # 2
    PROVE  LastOf(Y, M) = DayOfMonth[M] /\ DayOfMonth[M] \in {30, 31}
<1>1. \/ M = 1 \/ M = 3 \/ M = 4 \/ M = 5 \/ M = 6 \/ M = 7
      \/ M = 8 \/ M = 9 \/ M = 10 \/ M = 11 \/ M = 12
  BY SMT
<1> QED
  BY <1>1, SMT DEF LastOf, DayOfMonth

LEMMA LastOfMonth ==
    ASSUME NEW Y \in Int, NEW M \in Int, 1 <= M, M <= 12
    PROVE  /\ LastOf(Y, M) \in Int /\ 28 <= LastOf(Y, M) /\ LastOf(Y, M) <= 31
           /\ LastOf(Y, M) <= DayOfMonth[M]
           /\ (M # 2 => LastOf(Y, M) = DayOfMonth[M])
           /\ (M = 2 => LastOf(Y, M) = IF Y % 400 = 0 \/ (Y % 4 = 0 /\ Y % 100 # 0) THEN 29 ELSE 28)
<1>2. M # 2 => LastOf(Y, M) = DayOfMonth[M] /\ DayOfMonth[M] \in {30, 31}
  BY OtherMonths
<1>3. M = 2 => LastOf(Y, M) = IF Y % 400 = 0 \/ (Y % 4 = 0 /\ Y % 100 # 0) THEN 29 ELSE 28
  BY SMT DEF LastOf
<1>4. DayOfMonth[2] = 29
  BY DEF DayOfMonth
<1> QED
  BY <1>2, <1>3, <1>4, SMT

\* DayValid lets a date have the days of the calendar and no more.
LEMMA DaysOfTheCalendar ==
    ASSUME NEW t, t.Year \in Int, t.Month \in Int, 1 <= t.Month, t.Month <= 12, t.Day \in Int
    PROVE  DayValid(t) <=> 1 <= t.Day /\ t.Day <= LastOf(t.Year, t.Month)
<1>1. IsLeapYear(t) <=> (t.Year % 400 = 0 \/ (t.Year % 4 = 0 /\ t.Year % 100 # 0))
  <2>1. t.Year % 400 = 0 => t.Year % 4 = 0
    BY SMT
  <2> QED
    BY <2>1, Zenon DEF IsLeapYear
<1>2. CASE t.Month = 2
  <2>1. DayOfMonth[2] = 29
    BY DEF DayOfMonth
  <2>2. LastOf(t.Year, 2) = IF IsLeapYear(t) THEN 29 ELSE 28
    BY <1>1, SMT DEF LastOf
  <2> QED
    BY <1>2, <2>1, <2>2, SMT DEF DayValid
<1>3. CASE t.Month # 2
  <2>1. LastOf(t.Year, t.Month) = DayOfMonth[t.Month]
    BY <1>3, OtherMonths, Zenon
  <2>2. t.Day >= 1 <=> 1 <= t.Day
    BY SMT
  <2> QED
    BY <1>3, <2>1, <2>2, Zenon DEF DayValid
<1> QED
  BY <1>2, <1>3

\* The next day has the next Julian number.
LEMMA NextDay ==
    ASSUME NEW Y \in Int, NEW M \in Int, 1 <= M, M <= 12, NEW D \in Int, D <= LastOf(Y, M)
    PROVE  /\ JulianDate(Y, M, D + 1) = JulianDate(Y, M, D) + 1
           /\ (D = LastOf(Y, M) /\ M < 12) => JulianDate(Y, M + 1, 1) = JulianDate(Y, M, D) + 1
           /\ (D = LastOf(Y, M) /\ M = 12) => JulianDate(Y + 1, 1, 1) = JulianDate(Y, M, D) + 1
<1> DEFINE v == YearDays(Y + 4800)
           w == YearDays(Y + 4799)
           l == LastOf(Y, M)
<1>1. v \in Int /\ w \in Int /\ l \in Int
  BY YearDaysTyped, LastOfMonth, SMT
<1>2. /\ M > 2 => JulianDate(Y, M, D) = D + FirstDay(M - 3) + v - 32045
      /\ M <= 2 => JulianDate(Y, M, D) = D + FirstDay(M + 9) + w - 32045
  BY JulianForm
<1>3. /\ M > 2 => FirstDay(M - 3) \in Int
      /\ M <= 2 => FirstDay(M + 9) \in Int
  BY MonthTable, SMT DEF Month0
<1>4. JulianDate(Y, M, D + 1) = JulianDate(Y, M, D) + 1
  <2> DEFINE d == D + 1
  <2>1. d \in Int
    OBVIOUS
  <2> HIDE DEF d
  <2>2. /\ M > 2 => JulianDate(Y, M, d) = d + FirstDay(M - 3) + v - 32045
        /\ M <= 2 => JulianDate(Y, M, d) = d + FirstDay(M + 9) + w - 32045
    BY <2>1, JulianForm
  <2> HIDE DEF v, w
  <2>3. JulianDate(Y, M, d) = JulianDate(Y, M, D) + 1
    BY <2>1, <2>2, <1>1, <1>2, <1>3, SMT DEF d
  <2> QED
    BY <2>3 DEF d
<1>5. ASSUME D = l, M < 12
      PROVE  JulianDate(Y, M + 1, 1) = JulianDate(Y, M, D) + 1
  <2> DEFINE N == M + 1
  <2>1. N \in Int /\ 1 <= N /\ N <= 12
    BY <1>5, SMT
  <2> HIDE DEF N
  <2>2. /\ N > 2 => JulianDate(Y, N, 1) = 1 + FirstDay(N - 3) + v - 32045
        /\ N <= 2 => JulianDate(Y, N, 1) = 1 + FirstDay(N + 9) + w - 32045
    BY <2>1, JulianForm
  <2> HIDE DEF v, w, l
  <2>3. CASE M = 2
    <3>1. v = w + 365 + (l - 28)
      <4>1. v = w + 365 + (IF Y % 400 = 0 \/ (Y % 4 = 0 /\ Y % 100 # 0) THEN 1 ELSE 0)
        BY LeapDay DEF v, w
      <4>2. l = IF Y % 400 = 0 \/ (Y % 4 = 0 /\ Y % 100 # 0) THEN 29 ELSE 28
        BY <2>3, LastOfMonth DEF l
      <4> QED
        BY <4>1, <4>2, <1>1, SMT
    <3>2. N = 3 /\ FirstDay(N - 3) = 0 /\ FirstDay(M + 9) = 337
      BY <2>3, FirstDays, SMT DEF N
    <3>3. JulianDate(Y, N, 1) = JulianDate(Y, M, D) + 1
      BY <3>1, <3>2, <2>2, <2>3, <1>1, <1>2, <1>5, SMT
    <3> QED
      BY <3>3 DEF N
  <2>4. CASE M = 1
    <3>1. N = 2 /\ FirstDay(N + 9) = 337 /\ FirstDay(M + 9) = 306 /\ l = 31
      <4>1. DayOfMonth[1] = 31
        BY DEF DayOfMonth
      <4>2. l = 31
        BY <4>1, <2>4, LastOfMonth, SMT DEF l
      <4> QED
        BY <4>2, <2>4, FirstDays, SMT DEF N
    <3>2. JulianDate(Y, N, 1) = JulianDate(Y, M, D) + 1
      BY <3>1, <2>2, <2>4, <1>1, <1>2, <1>5, SMT
    <3> QED
      BY <3>2 DEF N
  <2>5. CASE M > 2
    <3> DEFINE m == M - 3
    <3>1. Month0(m) /\ m # 11 /\ m + 1 = N - 3
      BY <2>5, <1>5, SMT DEF Month0, N
    <3>2. FirstDay(m + 1) = FirstDay(m) + DaysOf(m) /\ DaysOf(m) \in Int
      BY <3>1, MonthTable
    <3>3. DaysOf(m) = l
      <4>1. (14 - M) \div 12 = 0
        BY <2>5, <1>5, SMT
      <4>2. DaysOf(m) = DayOfMonth[M]
        <5>1. M + 12 * 0 - 3 = m
          BY SMT
        <5> QED
          BY <4>1, <5>1, FromMarch
      <4> QED
        BY <4>2, <2>5, LastOfMonth, SMT DEF l
    <3>4. FirstDay(N - 3) = FirstDay(M - 3) + l
      BY <3>1, <3>2, <3>3
    <3>5. N > 2
      BY <2>5, SMT DEF N
    <3>6. JulianDate(Y, N, 1) = JulianDate(Y, M, D) + 1
      BY <3>4, <3>5, <2>2, <2>5, <1>1, <1>2, <1>3, <1>5, SMT
    <3> QED
      BY <3>6 DEF N
  <2> QED
    BY <2>3, <2>4, <2>5, SMT
<1>6. ASSUME D = l, M = 12
      PROVE  JulianDate(Y + 1, 1, 1) = JulianDate(Y, M, D) + 1
  <2> DEFINE X == Y + 1
  <2>1. X \in Int /\ X + 4799 = Y + 4800
    BY SMT
  <2>2. JulianDate(X, 1, 1) = 1 + FirstDay(1 + 9) + YearDays(X + 4799) - 32045
    <3> HIDE DEF X
    <3> QED
      BY <2>1, JulianForm, SMT
  <2>3. JulianDate(X, 1, 1) = 1 + 306 + v - 32045
    BY <2>1, <2>2, FirstDays, SMT
  <2>4. l = 31 /\ FirstDay(M - 3) = 275
    <3>1. DayOfMonth[12] = 31
      BY DEF DayOfMonth
    <3>2. l = 31
      BY <3>1, <1>6, LastOfMonth
    <3>3. FirstDay(M - 3) = 275
      BY <1>6, FirstDays, SMT
    <3> QED
      BY <3>2, <3>3
  <2> HIDE DEF v, w, l, X
  <2>5. JulianDate(X, 1, 1) = JulianDate(Y, M, D) + 1
    BY <2>3, <2>4, <1>1, <1>2, <1>6, SMT
  <2> QED
    BY <2>5 DEF X
<1> QED
  BY <1>4, <1>5, <1>6

\* The date of a day is the one after the date of the day before.
LEMMA TomorrowFound ==
    ASSUME NEW n \in Int, NEW s, NEW r
    PROVE  Date(EpochToEfiTime(<<n, s>>)) = Tomorrow(Date(EpochToEfiTime(<<n - 1, r>>)))
<1> DEFINE k == n - 1
           t == EpochToEfiTime(<<k, r>>)
           Y == t.Year
           M == t.Month
           D == t.Day
           T == Tomorrow(Date(t))
           u == [Year |-> T[1], Month |-> T[2], Day |-> T[3]]
<1>1. k \in Int /\ n = k + 1
  BY SMT
<1>2. DateOK(t) /\ JulianDate(Y, M, D) - EPOCH_JULIAN_DATE = k
  <2> HIDE DEF k
  <2> QED
    BY <1>1, DayReadBack
<1>3. Y \in Int /\ M \in Int /\ D \in Int /\ 1 <= M /\ M <= 12 /\ DayValid(t)
  BY <1>2 DEF DateOK
<1>4. 1 <= D /\ D <= LastOf(Y, M)
  <2> HIDE DEF t
  <2> QED
    BY <1>3, DaysOfTheCalendar
<1>5. T = IF D < LastOf(Y, M) THEN <<Y, M, D + 1>>
          ELSE IF M < 12 THEN <<Y, M + 1, 1>> ELSE <<Y + 1, 1, 1>>
  BY DEF Tomorrow, LastOf, Date
<1>6. Date(u) = T
  <2> HIDE DEF t, Y, M, D, T
  <2>1. T \in Int \X Int \X Int
    BY <1>3, <1>5
  <2> QED
    BY <2>1 DEF Date
<1>7. JulianDate(Y, M, D) \in Int
  <2> HIDE DEF t, Y, M, D
  <2> QED
    BY <1>3, JulianTyped
<1>8. u.Year = T[1] /\ u.Month = T[2] /\ u.Day = T[3]
  OBVIOUS
<1>9. T = Tomorrow(Date(t))
  OBVIOUS
<1> HIDE DEF Y, M, D, T, u, t, k
<1>10. LastOf(Y, M) \in Int /\ \A v \in Int, w \in Int : 1 <= w /\ w <= 12 => LastOf(v, w) \in Int /\ 1 <= LastOf(v, w)
  BY <1>3, LastOfMonth, SMT
<1>11. /\ u.Year \in Int /\ u.Month \in Int /\ u.Day \in Int /\ 1 <= u.Month /\ u.Month <= 12
       /\ 1 <= u.Day /\ u.Day <= LastOf(u.Year, u.Month)
       /\ JulianDate(u.Year, u.Month, u.Day) = JulianDate(Y, M, D) + 1
  <2>1. CASE D < LastOf(Y, M)
    <3>1. u.Year = Y /\ u.Month = M /\ u.Day = D + 1
      BY <2>1, <1>5, <1>8
    <3>2. JulianDate(Y, M, D + 1) = JulianDate(Y, M, D) + 1
      BY <1>3, <1>4, NextDay
    <3> QED
      BY <2>1, <3>1, <3>2, <1>3, <1>4, <1>10, SMT
  <2>2. CASE D = LastOf(Y, M) /\ M < 12
    <3>1. u.Year = Y /\ u.Month = M + 1 /\ u.Day = 1
      BY <2>2, <1>3, <1>5, <1>8, SMT
    <3>2. JulianDate(Y, M + 1, 1) = JulianDate(Y, M, D) + 1
      BY <2>2, <1>3, <1>4, NextDay
    <3>3. M + 1 \in Int /\ 1 <= M + 1 /\ M + 1 <= 12
      BY <2>2, <1>3, SMT
    <3> QED
      BY <3>1, <3>2, <3>3, <1>3, <1>10
  <2>3. CASE D = LastOf(Y, M) /\ M = 12
    <3>1. u.Year = Y + 1 /\ u.Month = 1 /\ u.Day = 1
      BY <2>3, <1>3, <1>5, <1>8, SMT
    <3>2. JulianDate(Y + 1, 1, 1) = JulianDate(Y, M, D) + 1
      BY <2>3, <1>3, <1>4, NextDay
    <3> QED
      BY <3>1, <3>2, <1>3, <1>10, SMT
  <2> QED
    BY <2>1, <2>2, <2>3, <1>3, <1>4, <1>10, SMT
<1>12. DateOK(u)
  <2>1. DayValid(u)
    BY <1>11, DaysOfTheCalendar
  <2> QED
    BY <2>1, <1>11 DEF DateOK
<1>13. n = JulianDate(u.Year, u.Month, u.Day) - EPOCH_JULIAN_DATE
  BY <1>1, <1>2, <1>7, <1>11, SMT DEF EPOCH_JULIAN_DATE
<1>14. Date(EpochToEfiTime(<<n, s>>)) = Date(u)
  BY <1>12, <1>13, DateReadBack
<1> QED
  BY <1>6, <1>9, <1>14 DEF t, k

\* The epoch begins on the first of January 1970.
LEMMA FirstOfJanuary ==
    ASSUME NEW s
    PROVE  Date(EpochToEfiTime(<<0, s>>)) = <<1970, 1, 1>>
<1> DEFINE u == [Year |-> 1970, Month |-> 1, Day |-> 1]
<1>1. LastOf(1970, 1) = 31
  BY SMT DEF LastOf
<1>2. DayValid(u)
  <2>1. DayOfMonth[1] = 31
    BY DEF DayOfMonth
  <2> QED
    BY <2>1, SMT DEF DayValid
<1>3. DateOK(u)
  BY <1>2, SMT DEF DateOK
<1>4. JulianDate(1970, 1, 1) = 2440588
  BY SMT DEF JulianDate
<1>5. 0 = JulianDate(u.Year, u.Month, u.Day) - EPOCH_JULIAN_DATE
  BY <1>4, SMT DEF EPOCH_JULIAN_DATE
<1>6. u.Year = 1970 /\ u.Month = 1 /\ u.Day = 1
  OBVIOUS
<1> HIDE DEF u
<1>7. Date(EpochToEfiTime(<<0, s>>)) = Date(u)
  BY <1>3, <1>5, DateReadBack
<1> QED
  BY <1>6, <1>7 DEF Date

\* The years of the days that 32 bits of seconds reach.
LEMMA YearInRange ==
    ASSUME NEW t, DateOK(t), NEW n \in Int, 0 <= n, n < MaxDay,
           JulianDate(t.Year, t.Month, t.Day) - EPOCH_JULIAN_DATE = n
    PROVE  1900 <= t.Year /\ t.Year <= 9999
<1> DEFINE Y == t.Year
           M == t.Month
           D == t.Day
           J == JulianDate(Y, M, D)
<1>1. Y \in Int /\ M \in Int /\ D \in Int /\ 1 <= M /\ M <= 12 /\ DayValid(t)
  BY DEF DateOK
<1>2. 1 <= D /\ D <= LastOf(Y, M)
  BY <1>1, DaysOfTheCalendar
<1>3. J - EPOCH_JULIAN_DATE = n
  OBVIOUS
<1> HIDE DEF Y, M, D, J
<1>4. D <= 31
  BY <1>1, <1>2, LastOfMonth, SMT
<1>5. PICK y \in Int, m \in Int : /\ Month0(m) /\ Y + 4799 <= y /\ y <= Y + 4800
                                  /\ J = D + FirstDay(m) + YearDays(y) - 32045
  <2>1. CASE M > 2
    <3>1. Month0(M - 3) /\ M - 3 \in Int /\ Y + 4800 \in Int
      BY <2>1, <1>1, SMT DEF Month0
    <3>2. J = D + FirstDay(M - 3) + YearDays(Y + 4800) - 32045
      BY <2>1, <1>1, JulianForm DEF J
    <3>3. Y + 4799 <= Y + 4800
      BY <1>1, SMT
    <3> QED
      BY <3>1, <3>2, <3>3
  <2>2. CASE M <= 2
    <3>1. Month0(M + 9) /\ M + 9 \in Int /\ Y + 4799 \in Int
      BY <2>2, <1>1, SMT DEF Month0
    <3>2. J = D + FirstDay(M + 9) + YearDays(Y + 4799) - 32045
      BY <2>2, <1>1, JulianForm DEF J
    <3>3. Y + 4799 <= Y + 4800
      BY <1>1, SMT
    <3> QED
      BY <3>1, <3>2, <3>3
  <2> QED
    BY <2>1, <2>2, <1>1, SMT
<1> DEFINE f == FirstDay(m)
           v == YearDays(y)
<1>6. f \in Int /\ 0 <= f /\ f <= 366
  BY <1>5, MonthTable, SMT
<1>7. /\ v \in Int /\ (y <= 6699 => v <= 2446766 ) /\ (y >= 14799 => v >= 5405000)
  BY <1>5, SMT DEF YearDays
<1>8. J = D + f + v - 32045
  BY <1>5
<1> HIDE DEF f, v
<1>9. 1900 <= Y /\ Y <= 9999
  BY <1>1, <1>2, <1>3, <1>4, <1>5, <1>6, <1>7, <1>8, SMT DEF EPOCH_JULIAN_DATE, MaxDay
<1> QED
  BY <1>9 DEF Y

\* What LKLFillFileInfo tells is a time that LKLSetFileInfo accepts, and
\* EfiTimeToEpoch undoes EpochToEfiTime.
LEMMA StampReadBack ==
    ASSUME NEW n \in Int, 0 <= n, n < MaxDay, NEW s \in Int, 0 <= s, s < SEC_PER_DAY
    PROVE  /\ EfiTimeIsValid(EpochToEfiTime(<<n, s>>))
           /\ EfiTimeToEpoch(EpochToEfiTime(<<n, s>>)) = <<n, s>>
<1> DEFINE t == EpochToEfiTime(<<n, s>>)
           h == s \div 3600
           m == (s % 3600) \div 60
           k == s % 60
<1>1. TimeOfDay(s, h, m, k)
  BY SMT DEF TimeOfDay, SEC_PER_DAY
<1>2. t.TimeZone = 0
  BY DEF EpochToEfiTime
<1>3. DateOK(t) /\ JulianDate(t.Year, t.Month, t.Day) - EPOCH_JULIAN_DATE = n
  BY DayReadBack
<1> HIDE DEF t, h, m, k
<1>4. Clock(t) = <<h, m, k>>
  BY <1>1, ClockFound DEF t
<1>5. t.Hour = h /\ t.Minute = m /\ t.Second = k
  BY <1>4 DEF Clock
<1>6. 1900 <= t.Year /\ t.Year <= 9999
  BY <1>3, YearInRange
<1>7. EfiTimeIsValid(t)
  <2>1. t.TimeZone \in -1440 .. 1440
    BY <1>2, SMT
  <2>2. t.Hour <= 23 /\ t.Minute <= 59 /\ t.Second <= 59
    BY <1>1, <1>5 DEF TimeOfDay
  <2>3. t.Year >= 1900 /\ t.Month >= 1 /\ t.Month <= 12 /\ DayValid(t)
    BY <1>3, <1>6, SMT DEF DateOK
  <2> QED
    BY <2>1, <2>2, <2>3, <1>6 DEF EfiTimeIsValid
<1>8. t.Hour * 3600 + t.Minute * 60 + t.Second = s
  BY <1>1, <1>5 DEF TimeOfDay
<1>9. EfiTimeToEpoch(t) = UINT32(n, s)
  BY <1>3, <1>8 DEF EfiTimeToEpoch
<1>10. EfiTimeToEpoch(t) = <<n, s>>
  BY <1>9, NothingWraps
<1> QED
  BY <1>7, <1>10 DEF t

-----------------------------------------------------------------------------
(* The parts of the invariant say what the runs check.                     *)

LEMMA InvGivesBalance ==
    ASSUME FileInv
    PROVE  DescriptorsBalanced
<1>1. \A h \in Handles : handle[h] # None => handle[h] \in HandleRecords /\ handle[h].fd \in Fds
  BY DEF FileInv, TypeOK, HandleRecords
<1>2. {x \in Fds : fd[x] # None} = {handle[h].fd : h \in Opened}
  <2>1. ASSUME NEW x \in Fds, fd[x] # None
        PROVE  \E h \in Opened : x = handle[h].fd
    BY <2>1 DEF FileInv, Balanced, FdsHaveHandle, Opened
  <2>2. ASSUME NEW h \in Opened
        PROVE  handle[h].fd \in Fds /\ fd[handle[h].fd] # None
    BY <1>1 DEF FileInv, Balanced, HandlesHaveFd, Opened
  <2> QED
    BY <2>1, <2>2
<1>3. \A g, h \in Opened : handle[g].fd = handle[h].fd => g = h
  BY DEF FileInv, Balanced, FdsDistinct, Opened
<1>4. \A h \in Opened : inode[Ino(h)] # None /\ inode[Ino(h)].kind = handle[h].kind
  BY DEF FileInv, Balanced, KindsAgree, Opened, Ino
<1> QED
  BY <1>2, <1>3, <1>4 DEF DescriptorsBalanced

LEMMA InvGivesEntries ==
    ASSUME FileInv
    PROVE  EntriesOnce
  BY Zenon DEF FileInv, Entries, Delivered, Kept, EntriesOnce, Opened

-----------------------------------------------------------------------------
(* Steps that open and close nothing and make no inode.                    *)

SameShape ==
    /\ tree' = tree
    /\ \A x \in Fds : fd'[x] = None <=> fd[x] = None
    /\ \A x \in Fds : fd[x] # None => fd'[x].ino = fd[x].ino
    /\ \A i \in Inodes : inode'[i] = None <=> inode[i] = None
    /\ \A i \in Inodes : inode[i] # None => inode'[i].kind = inode[i].kind
    /\ \A h \in Handles : handle'[h] = None <=> handle[h] = None
    /\ \A h \in Handles : handle[h] # None => /\ handle'[h].fd = handle[h].fd
                                              /\ handle'[h].kind = handle[h].kind

\* Where an open handle leads.
LEMMA HandleFacts ==
    ASSUME TypeOK, Balanced, NEW h \in Handles, handle[h] # None
    PROVE  /\ handle[h] \in HandleRecords /\ handle[h].fd \in Fds
           /\ fd[handle[h].fd] \in FdRecords /\ fd[handle[h].fd] # None
           /\ fd[handle[h].fd].ino \in Inodes
           /\ inode[fd[handle[h].fd].ino] \in InodeRecords
           /\ inode[fd[handle[h].fd].ino] # None
           /\ inode[fd[handle[h].fd].ino].kind = handle[h].kind
<1>1. handle[h] \in HandleRecords /\ handle[h].fd \in Fds
  BY DEF TypeOK, HandleRecords
<1>2. /\ fd[handle[h].fd] # None
      /\ inode[fd[handle[h].fd].ino] # None
      /\ inode[fd[handle[h].fd].ino].kind = handle[h].kind
  BY DEF Balanced, HandlesHaveFd, KindsAgree
<1>3. fd[handle[h].fd] \in FdRecords /\ fd[handle[h].fd].ino \in Inodes
  BY <1>1, <1>2 DEF TypeOK, FdRecords
<1>4. inode[fd[handle[h].fd].ino] \in InodeRecords
  BY <1>2, <1>3 DEF TypeOK
<1> QED
  BY <1>1, <1>2, <1>3, <1>4

LEMMA ShapeStep ==
    ASSUME TypeOK, TreeLive, Balanced, SameShape
    PROVE  TreeLive' /\ Balanced'
<1>1. \A h \in Handles : handle[h] # None => handle[h].fd \in Fds /\ fd[handle[h].fd].ino \in Inodes
  BY HandleFacts
<1>2. \A p \in Paths : tree[p] # None => tree[p] \in Inodes
  BY DEF TypeOK
<1>3. TreeLive'
  BY <1>2 DEF TreeLive, SameShape, Paths
<1>4. HandlesHaveFd'
  BY <1>1 DEF SameShape, Balanced, HandlesHaveFd
<1>5. FdsHaveHandle'
  BY <1>1 DEF SameShape, Balanced, FdsHaveHandle
<1>6. FdsDistinct'
  BY <1>1 DEF SameShape, Balanced, FdsDistinct
<1>7. KindsAgree'
  BY <1>1 DEF SameShape, Balanced, KindsAgree, HandlesHaveFd
<1> QED
  BY <1>3, <1>4, <1>5, <1>6, <1>7 DEF Balanced

\* Moving the position of a file descriptor.
LEMMA PosStep ==
    ASSUME TypeOK, NEW x \in Fds, fd[x] # None, NEW pos \in Sizes,
           fd' = [fd EXCEPT ![x].pos = pos]
    PROVE  /\ fd' \in [Fds -> FdRecords \cup {None}]
           /\ \A y \in Fds : fd'[y] = None <=> fd[y] = None
           /\ \A y \in Fds : fd[y] # None => fd'[y].ino = fd[y].ino
<1> DEFINE r == [fd[x] EXCEPT !.pos = pos]
<1>1. fd[x] \in FdRecords
  BY DEF TypeOK
<1>2. r \in FdRecords /\ r.ino = fd[x].ino
  BY <1>1 DEF FdRecords
<1>3. fd' = [fd EXCEPT ![x] = r]
  BY DEF TypeOK
<1>4. r # None
  BY <1>2, FileAssumption
<1> HIDE DEF r
<1> QED
  BY <1>2, <1>3, <1>4 DEF TypeOK

\* Writing the fields of an inode, its kind left alone.
LEMMA InodeStep ==
    ASSUME NEW table \in [Inodes -> InodeRecords \cup {None}], NEW i \in Inodes, table[i] # None,
           NEW r \in InodeRecords, r.kind = table[i].kind, NEW new, new = [table EXCEPT ![i] = r]
    PROVE  /\ new \in [Inodes -> InodeRecords \cup {None}]
           /\ \A j \in Inodes : new[j] = None <=> table[j] = None
           /\ \A j \in Inodes : table[j] # None => new[j].kind = table[j].kind
<1>1. r # None
  BY FileAssumption
<1> QED
  BY <1>1

LEMMA ReadStep ==
    ASSUME FileInv, NEW h \in Handles, NEW n \in 1 .. MaxSize, LKLRead(h, n)
    PROVE  FileInv'
<1> DEFINE x == handle[h].fd
           end == inode[fd[x].ino].size
           old == fd[x].pos
           pos == IF old >= end THEN old ELSE IF old + n > end THEN end ELSE old + n
<1>1. x \in Fds /\ fd[x] \in FdRecords /\ fd[x] # None /\ inode[fd[x].ino] \in InodeRecords
  BY HandleFacts DEF FileInv, LKLRead
<1>2. pos \in Sizes
  BY <1>1, FileAssumption DEF FdRecords, InodeRecords, Sizes
<1>3. fd' = [fd EXCEPT ![x].pos = pos]
  BY <1>1 DEF LKLRead, FileInv, TypeOK
<1>4. UNCHANGED <<protected, tree, inode, handle>>
  BY DEF LKLRead
<1> HIDE DEF pos, x
<1>5. SameShape /\ TypeOK'
  BY <1>1, <1>2, <1>3, <1>4, PosStep DEF FileInv, TypeOK, SameShape
<1>6. Entries'
  BY <1>4 DEF FileInv, Entries
<1> QED
  BY <1>5, <1>6, ShapeStep DEF FileInv

LEMMA WriteStep ==
    ASSUME FileInv, NEW h \in Handles, NEW n \in 1 .. MaxSize, LKLWrite(h, n)
    PROVE  FileInv'
<1> DEFINE x == handle[h].fd
           i == fd[x].ino
           pos == fd[x].pos + n
           r == [inode[i] EXCEPT !.size = IF pos > inode[i].size THEN pos ELSE inode[i].size,
                                 !.mtime = Now]
<1>1. /\ x \in Fds /\ fd[x] \in FdRecords /\ fd[x] # None
      /\ i \in Inodes /\ inode[i] \in InodeRecords /\ inode[i] # None
  BY HandleFacts DEF FileInv, LKLWrite
<1>2. pos \in Sizes
  <2>1. pos <= MaxSize
    BY DEF LKLWrite
  <2> QED
    BY <1>1, <2>1, FileAssumption DEF FdRecords, Sizes
<1>3. fd' = [fd EXCEPT ![x].pos = pos]
  BY <1>1 DEF LKLWrite
<1>4. inode' = [inode EXCEPT ![i] = r]
  BY <1>1 DEF LKLWrite, FileInv, TypeOK, InodeRecords
<1>5. r \in InodeRecords /\ r.kind = inode[i].kind
  BY <1>1, <1>2, FileAssumption DEF InodeRecords
<1>6. UNCHANGED <<protected, tree, handle>>
  BY DEF LKLWrite
<1> HIDE DEF pos, x, i, r
<1>7. /\ inode' \in [Inodes -> InodeRecords \cup {None}]
      /\ \A j \in Inodes : inode'[j] = None <=> inode[j] = None
      /\ \A j \in Inodes : inode[j] # None => inode'[j].kind = inode[j].kind
  BY <1>1, <1>4, <1>5, InodeStep DEF FileInv, TypeOK
<1>8. SameShape /\ TypeOK'
  BY <1>1, <1>2, <1>3, <1>6, <1>7, PosStep DEF FileInv, TypeOK, SameShape
<1>9. Entries'
  BY <1>6 DEF FileInv, Entries
<1> QED
  BY <1>8, <1>9, ShapeStep DEF FileInv

\* A handle that keeps its descriptor and its kind.
LEMMA HandleStep ==
    ASSUME FileInv, NEW h \in Handles, handle[h] # None,
           NEW r \in HandleRecords, r.fd = handle[h].fd, r.kind = handle[h].kind, Delivered(r),
           handle' = [handle EXCEPT ![h] = r], UNCHANGED <<protected, tree, inode, fd>>
    PROVE  FileInv'
<1>1. r # None
  BY FileAssumption
<1>2. SameShape
  BY <1>1 DEF FileInv, TypeOK, SameShape
<1>3. TypeOK'
  BY DEF FileInv, TypeOK
<1>4. Entries'
  <2> SUFFICES ASSUME NEW g \in Handles, handle'[g] # None
               PROVE  Delivered(handle'[g])
    BY Zenon DEF Entries, Delivered, Kept
  <2>1. CASE g = h
    BY <2>1 DEF FileInv, TypeOK
  <2>2. CASE g # h
    <3>1. handle'[g] = handle[g]
      BY <2>2 DEF FileInv, TypeOK
    <3> QED
      BY <3>1 DEF FileInv, Entries
  <2> QED
    BY <2>1, <2>2
<1> QED
  BY <1>2, <1>3, <1>4, ShapeStep DEF FileInv

LEMMA SetPositionStep ==
    ASSUME FileInv, NEW h \in Handles, NEW n \in {-1} \cup Sizes, LKLSetPosition(h, n)
    PROVE  FileInv'
<1> DEFINE x == handle[h].fd
<1>1. /\ handle[h] # None /\ handle[h] \in HandleRecords
      /\ x \in Fds /\ fd[x] \in FdRecords /\ fd[x] # None /\ inode[fd[x].ino] \in InodeRecords
  BY HandleFacts DEF FileInv, LKLSetPosition
<1>2. UNCHANGED <<protected, tree, inode>>
  BY DEF LKLSetPosition
<1>3. CASE handle[h].kind = "dir"
  <2> DEFINE r == [handle[h] EXCEPT !.dir = IF handle[h].dir = "none" THEN "none" ELSE "start",
                      !.entry = None, !.rest = << >>, !.listed = << >>, !.got = << >>]
  <2>1. handle' = [handle EXCEPT ![h] = r] /\ UNCHANGED fd
    BY <1>1, <1>3 DEF LKLSetPosition, FileInv, TypeOK, HandleRecords
  <2>2. r \in HandleRecords
    <3>1. /\ (IF handle[h].dir = "none" THEN "none" ELSE "start") \in {"none", "start", "reading"}
          /\ None \in Names \cup {None} /\ << >> \in Seq(Names)
      BY EmptySeq
    <3> QED
      BY <1>1, <3>1 DEF HandleRecords
  <2>3. r.fd = handle[h].fd /\ r.kind = handle[h].kind
    BY <1>1 DEF HandleRecords
  <2>4. r.dir # "reading" /\ r.got = << >> /\ r.entry = None
    BY <1>1 DEF HandleRecords
  <2> HIDE DEF r
  <2>5. Delivered(r)
    BY <2>4 DEF Delivered
  <2> QED
    BY <1>1, <1>2, <2>1, <2>2, <2>3, <2>5, HandleStep
<1>4. CASE handle[h].kind = "file"
  <2> DEFINE pos == IF n = -1 THEN inode[fd[x].ino].size ELSE n
  <2>1. fd' = [fd EXCEPT ![x].pos = pos] /\ UNCHANGED handle
    BY <1>1, <1>4 DEF LKLSetPosition
  <2>2. pos \in Sizes
    BY <1>1 DEF InodeRecords
  <2> HIDE DEF pos, x
  <2>3. SameShape /\ TypeOK'
    BY <1>1, <1>2, <2>1, <2>2, PosStep DEF FileInv, TypeOK, SameShape
  <2>4. Entries'
    BY <2>1 DEF FileInv, Entries
  <2> QED
    BY <2>3, <2>4, ShapeStep DEF FileInv
<1> QED
  BY <1>3, <1>4 DEF LKLSetPosition

LEMMA SetToSeqTyped ==
    ASSUME NEW S, IsFiniteSet(S)
    PROVE  SetToSeq(S) \in Seq(S)
<1>1. Cardinality(S) \in Nat /\ ExistsBijection(1 .. Cardinality(S), S)
  BY FS_CardinalityType
<1>2. \E f \in [1 .. Cardinality(S) -> S] : IsInjective(f)
  BY <1>1 DEF ExistsBijection, Bijection, Injection
<1>3. SetToSeq(S) \in [1 .. Cardinality(S) -> S]
  BY <1>2, Zenon DEF SetToSeq
<1> QED
  BY <1>1, <1>3, SeqDef

LEMMA ListingTyped ==
    ASSUME NEW f
    PROVE  SetToSeq({n \in Names : f.path = Root /\ tree[n] # None}) \in Seq(Names)
<1> DEFINE S == {n \in Names : f.path = Root /\ tree[n] # None}
<1>1. S \subseteq Names /\ IsFiniteSet(S)
  <2>1. S \subseteq Names
    OBVIOUS
  <2> QED
    BY <2>1, FS_Subset, FileAssumption
<1>2. SetToSeq(S) \in Seq(S)
  BY <1>1, SetToSeqTyped
<1> QED
  BY <1>1, <1>2, SeqMonotonic

\* The entry at the head of what is left moves to the end of what is delivered.
LEMMA MoveEntry ==
    ASSUME NEW got \in Seq(Names), NEW rest \in Seq(Names), rest # << >>
    PROVE  /\ Head(rest) \in Names /\ Tail(rest) \in Seq(Names)
           /\ got \o << >> \o rest = got \o <<Head(rest)>> \o Tail(rest)
           /\ got \o << >> \o rest = Append(got, Head(rest)) \o << >> \o Tail(rest)
  BY HeadTailProperties

LEMMA DeliverEntry ==
    ASSUME NEW got \in Seq(Names), NEW rest \in Seq(Names), NEW n \in Names
    PROVE  /\ Append(got, n) \in Seq(Names)
           /\ got \o <<n>> \o rest = Append(got, n) \o << >> \o rest
  OBVIOUS

\* A handle that has begun to read.
Reading(f, all, rest, entry, got) ==
    [f EXCEPT !.dir = "reading", !.listed = all, !.rest = rest, !.entry = entry, !.got = got]

\* r is a record for the handle that f is one for.
SameHandle(r, f) ==
    r \in HandleRecords /\ r.fd = f.fd /\ r.kind = f.kind /\ r.path = f.path /\ Delivered(r)

LEMMA ReadingNone ==
    ASSUME NEW f \in HandleRecords, NEW all \in Seq(Names), NEW rest \in Seq(Names),
           NEW got \in Seq(Names), all = got \o << >> \o rest
    PROVE  SameHandle(Reading(f, all, rest, None, got), f)
<1> DEFINE r == Reading(f, all, rest, None, got)
<1>1. r \in HandleRecords /\ r.fd = f.fd /\ r.kind = f.kind /\ r.path = f.path
  BY DEF Reading, HandleRecords
<1>2. r.dir = "reading" /\ r.listed = all /\ r.rest = rest /\ r.entry = None /\ r.got = got
  BY DEF Reading, HandleRecords
<1> HIDE DEF r
<1>3. Delivered(r)
  BY <1>2, Zenon DEF Delivered, Kept
<1> QED
  BY <1>1, <1>3 DEF SameHandle, r

LEMMA ReadingEntry ==
    ASSUME NEW f \in HandleRecords, NEW all \in Seq(Names), NEW rest \in Seq(Names),
           NEW n \in Names, NEW got \in Seq(Names), all = got \o <<n>> \o rest
    PROVE  SameHandle(Reading(f, all, rest, n, got), f)
<1> DEFINE r == Reading(f, all, rest, n, got)
<1>1. r \in HandleRecords /\ r.fd = f.fd /\ r.kind = f.kind /\ r.path = f.path
  BY DEF Reading, HandleRecords
<1>2. r.dir = "reading" /\ r.listed = all /\ r.rest = rest /\ r.entry = n /\ r.got = got
  BY DEF Reading, HandleRecords
<1>3. n # None
  BY FileAssumption
<1> HIDE DEF r
<1>4. Delivered(r)
  BY <1>2, <1>3, Zenon DEF Delivered, Kept
<1> QED
  BY <1>1, <1>4 DEF SameHandle, r

LEMMA ReadDirRecord ==
    ASSUME FileInv, NEW h \in Handles, NEW b \in 0 .. 2, LKLIFileReadDir(h, b)
    PROVE  /\ handle[h] # None /\ UNCHANGED <<protected, tree, inode, fd>>
           /\ \E r : SameHandle(r, handle[h]) /\ handle' = [handle EXCEPT ![h] = r]
<1> DEFINE f == handle[h]
           all == IF f.dir = "reading" THEN f.listed
                  ELSE SetToSeq({n \in Names : f.path = Root /\ tree[n] # None})
           rest == IF f.dir = "reading" THEN f.rest ELSE all
           left == IF f.entry = None THEN Tail(rest) ELSE f.rest
           n == IF f.entry = None THEN Head(rest) ELSE f.entry
           r == IF f.entry = None /\ rest = << >>
                THEN Reading(f, all, rest, f.entry, f.got)
                ELSE IF Needs(n) > b THEN Reading(f, all, left, n, f.got)
                ELSE Reading(f, all, left, None, Append(f.got, n))
<1>1. f # None /\ f \in HandleRecords
  BY HandleFacts DEF FileInv, LKLIFileReadDir
<1>2. /\ f.entry \in Names \cup {None} /\ f.rest \in Seq(Names) /\ f.listed \in Seq(Names)
      /\ f.got \in Seq(Names)
  BY <1>1 DEF HandleRecords
<1>3. Delivered(f)
  BY <1>1 DEF FileInv, Entries
<1>4. handle' = [handle EXCEPT ![h] = r] /\ UNCHANGED <<protected, tree, inode, fd>>
  <2>1. /\ Reading(f, all, rest, f.entry, f.got)
             = [f EXCEPT !.dir = "reading", !.listed = all, !.rest = rest]
        /\ Reading(f, all, left, n, f.got)
             = [[f EXCEPT !.dir = "reading", !.listed = all, !.rest = rest]
                   EXCEPT !.rest = left, !.entry = n]
        /\ Reading(f, all, left, None, Append(f.got, n))
             = [[f EXCEPT !.dir = "reading", !.listed = all, !.rest = rest]
                   EXCEPT !.rest = left, !.entry = None, !.got = Append(@, n)]
    <3> HIDE DEF all, rest, left, n
    <3> QED
      BY <1>1 DEF Reading, HandleRecords
  <2> QED
    BY <2>1, Zenon DEF LKLIFileReadDir
<1>5. all \in Seq(Names) /\ rest \in Seq(Names)
  BY <1>2, ListingTyped
<1>6. all = f.got \o Kept(f) \o rest
  <2>1. CASE f.dir = "reading"
    BY <1>3, <2>1 DEF Delivered
  <2>2. CASE f.dir # "reading"
    <3>1. f.got = << >> /\ Kept(f) = << >> /\ rest = all
      BY <1>3, <2>2, Zenon DEF Delivered, Kept
    <3> HIDE DEF f, all, rest
    <3> QED
      BY <1>5, <3>1
  <2> QED
    BY <2>1, <2>2
<1>7. SameHandle(r, f)
  <2>1. CASE f.entry = None /\ rest = << >>
    <3>1. r = Reading(f, all, rest, None, f.got)
      BY <2>1
    <3>2. all = f.got \o << >> \o rest
      BY <1>6, <2>1 DEF Kept
    <3> HIDE DEF r, f, all, rest
    <3> QED
      BY <1>1, <1>2, <1>5, <3>1, <3>2, ReadingNone
  <2>2. CASE f.entry = None /\ rest # << >>
    <3>1. left = Tail(rest) /\ n = Head(rest)
      BY <2>2
    <3>2. all = f.got \o << >> \o rest
      BY <1>6, <2>2 DEF Kept
    <3>3. r \in {Reading(f, all, left, n, f.got), Reading(f, all, left, None, Append(f.got, n))}
      BY <2>2
    <3> HIDE DEF r, f, all, rest, left, n
    <3>4. n \in Names /\ left \in Seq(Names) /\ Append(f.got, n) \in Seq(Names)
      BY <1>2, <1>5, <2>2, <3>1, MoveEntry
    <3>5. all = f.got \o <<n>> \o left /\ all = Append(f.got, n) \o << >> \o left
      BY <1>2, <1>5, <2>2, <3>1, <3>2, MoveEntry
    <3>6. SameHandle(Reading(f, all, left, n, f.got), f)
      BY <1>1, <1>2, <1>5, <3>4, <3>5, ReadingEntry
    <3>7. SameHandle(Reading(f, all, left, None, Append(f.got, n)), f)
      BY <1>1, <1>5, <3>4, <3>5, ReadingNone
    <3> QED
      BY <3>3, <3>6, <3>7
  <2>3. CASE f.entry # None
    <3>1. left = f.rest /\ n = f.entry
      BY <2>3
    <3>2. f.dir = "reading" /\ rest = f.rest
      BY <1>3, <2>3 DEF Delivered
    <3>3. all = f.got \o <<n>> \o left
      BY <1>6, <2>3, <3>1, <3>2 DEF Kept
    <3>4. r \in {Reading(f, all, left, n, f.got), Reading(f, all, left, None, Append(f.got, n))}
      BY <2>3
    <3> HIDE DEF r, f, all, rest, left, n
    <3>5. n \in Names /\ n # None /\ left \in Seq(Names) /\ Append(f.got, n) \in Seq(Names)
      BY <1>2, <2>3, <3>1
    <3>6. all = Append(f.got, n) \o << >> \o left
      BY <1>2, <3>3, <3>5, DeliverEntry
    <3>7. SameHandle(Reading(f, all, left, n, f.got), f)
      BY <1>1, <1>2, <1>5, <3>3, <3>5, ReadingEntry
    <3>8. SameHandle(Reading(f, all, left, None, Append(f.got, n)), f)
      BY <1>1, <1>5, <3>5, <3>6, ReadingNone
    <3> QED
      BY <3>4, <3>7, <3>8
  <2> QED
    BY <2>1, <2>2, <2>3
<1> HIDE DEF r
<1> QED
  BY <1>1, <1>4, <1>7

LEMMA ReadDirStep ==
    ASSUME FileInv, NEW h \in Handles, NEW b \in 0 .. 2, LKLIFileReadDir(h, b)
    PROVE  FileInv'
  BY ReadDirRecord, HandleStep DEF SameHandle

-----------------------------------------------------------------------------
(* SetInfo.                                                                *)

LEMMA NothingDone ==
    ASSUME FileInv, UNCHANGED <<protected, tree, inode, fd, handle>>
    PROVE  FileInv'
<1>1. SameShape /\ TypeOK'
  BY DEF FileInv, TypeOK, SameShape
<1>2. Entries'
  BY DEF FileInv, Entries
<1> QED
  BY <1>1, <1>2, ShapeStep DEF FileInv

\* A table of inodes with the same inodes, of the same kinds.
SameInodes(table) ==
    /\ table \in [Inodes -> InodeRecords \cup {None}]
    /\ \A i \in Inodes : table[i] = None <=> inode[i] = None
    /\ \A i \in Inodes : inode[i] # None => table[i].kind = inode[i].kind

LEMMA SetTimesShape ==
    ASSUME FileInv, NEW h \in Handles, handle[h] # None, NEW q \in Requests, TimesAccepted(h, q)
    PROVE  SameInodes(SetTimes(h, q))
<1> DEFINE mtime == inode[Ino(h)].mtime
           i == tree[handle[h].path]
           r == [inode[i] EXCEPT !.mtime = AfterModify(q, mtime)]
<1>1. handle[h].path \in Paths /\ Ino(h) \in Inodes /\ mtime \in Stamps
  BY HandleFacts DEF FileInv, HandleRecords, InodeRecords, Ino
<1>2. AfterModify(q, mtime) \in Stamps
  BY <1>1, TimesTyped DEF TimesAccepted
<1>3. inode \in [Inodes -> InodeRecords \cup {None}]
  BY DEF FileInv, TypeOK
<1>4. CASE TimeChanged(q, mtime)
  <2>1. i \in Inodes /\ inode[i] # None /\ inode[i] \in InodeRecords
    BY <1>1, <1>4 DEF TimesAccepted, FileInv, TypeOK, TreeLive
  <2>2. SetTimes(h, q) = [inode EXCEPT ![i] = r]
    BY <1>3, <1>4, <2>1 DEF SetTimes
  <2>3. r \in InodeRecords /\ r.kind = inode[i].kind
    BY <1>2, <2>1 DEF InodeRecords
  <2> HIDE DEF r, i
  <2> QED
    BY <1>3, <2>1, <2>2, <2>3, InodeStep DEF SameInodes
<1>5. CASE ~TimeChanged(q, mtime)
  BY <1>3, <1>5 DEF SetTimes, SameInodes
<1> QED
  BY <1>4, <1>5

LEMMA SetFileInfoStep ==
    ASSUME FileInv, NEW h \in Handles, NEW q \in Requests, LKLSetFileInfo(h, q)
    PROVE  FileInv'
<1>1. handle[h] # None /\ TimesAccepted(h, q) /\ UNCHANGED <<protected, tree, fd, handle>>
  BY Zenon DEF LKLSetFileInfo
<1>2. SameInodes(SetTimes(h, q))
  BY <1>1, SetTimesShape
<1>3. SameInodes(inode')
  <2> DEFINE table == SetTimes(h, q)
             i == Ino(h)
             r == [table[i] EXCEPT !.size = q.size, !.mtime = Now]
  <2>1. CASE inode' = table
    BY <1>2, <2>1
  <2>2. CASE inode' = [table EXCEPT ![i].size = q.size, ![i].mtime = Now]
    <3>1. i \in Inodes /\ inode[i] # None
      BY <1>1, HandleFacts DEF FileInv, Ino
    <3>2. table[i] # None /\ table[i] \in InodeRecords /\ table \in [Inodes -> InodeRecords \cup {None}]
      BY <1>2, <3>1 DEF SameInodes
    <3>3. q.size \in Sizes
      BY FileAssumption DEF FileInfos
    <3>4. r \in InodeRecords /\ r.kind = table[i].kind
      BY <3>2, <3>3, FileAssumption DEF InodeRecords
    <3>5. inode' = [table EXCEPT ![i] = r]
      BY <2>2, <3>1, <3>2 DEF InodeRecords
    <3> HIDE DEF table, i, r
    <3>6. /\ inode' \in [Inodes -> InodeRecords \cup {None}]
          /\ \A j \in Inodes : inode'[j] = None <=> table[j] = None
          /\ \A j \in Inodes : table[j] # None => inode'[j].kind = table[j].kind
      BY <3>1, <3>2, <3>4, <3>5, InodeStep
    <3> QED
      BY <1>2, <3>6 DEF SameInodes, table
  <2> QED
    BY <2>1, <2>2, Zenon DEF LKLSetFileInfo, SetSize
<1>4. SameShape /\ TypeOK'
  BY <1>1, <1>3 DEF SameInodes, SameShape, FileInv, TypeOK
<1>5. Entries'
  BY <1>1 DEF FileInv, Entries
<1> QED
  BY <1>4, <1>5, ShapeStep DEF FileInv

-----------------------------------------------------------------------------
(* Opening and closing.                                                    *)

\* The tree t and the table of inodes that an open leaves: it has made nothing
\* go away.
Grown(t, table) ==
    /\ t \in [Paths -> Inodes \cup {None}] /\ table \in [Inodes -> InodeRecords \cup {None}]
    /\ \A p \in Paths : t[p] # None => table[t[p]] # None
    /\ t[Root] # None /\ table[t[Root]].kind = "dir"
    /\ \A i \in Inodes : inode[i] # None => table[i] = inode[i]

LEMMA GrownStep ==
    ASSUME FileInv, NEW t, NEW table, Grown(t, table), tree' = t, inode' = table,
           UNCHANGED <<protected, fd, handle>>
    PROVE  FileInv'
<1>1. TypeOK' /\ TreeLive'
  BY DEF FileInv, TypeOK, TreeLive, Grown
<1>2. HandlesHaveFd' /\ FdsHaveHandle' /\ FdsDistinct'
  BY DEF FileInv, Balanced, HandlesHaveFd, FdsHaveHandle, FdsDistinct
<1>3. KindsAgree'
  <2>1. \A h \in Handles : handle[h] # None => fd[handle[h].fd].ino \in Inodes
    BY HandleFacts DEF FileInv
  <2> QED
    BY <2>1 DEF FileInv, Balanced, KindsAgree, Grown
<1>4. Entries'
  BY DEF FileInv, Entries
<1> QED
  BY <1>1, <1>2, <1>3, <1>4 DEF FileInv, Balanced

\* The descriptor and the record of a handle that was free.
LEMMA OpenStep ==
    ASSUME FileInv, NEW h \in Handles, handle[h] = None, NEW p \in Paths, NEW i \in Inodes,
           NEW write \in BOOLEAN, NEW t, NEW table, Grown(t, table), table[i] # None,
           tree' = t, inode' = table, UNCHANGED protected,
           NEW x \in Fds, fd[x] = None,
           fd' = [fd EXCEPT ![x] = [ino |-> i, pos |-> 0, write |-> write]],
           handle' = [handle EXCEPT ![h] = NewHandle(x, table[i].kind, p)]
    PROVE  FileInv'
<1> DEFINE d == [ino |-> i, pos |-> 0, write |-> write]
           r == NewHandle(x, table[i].kind, p)
<1>1. d \in FdRecords /\ d.ino = i
  BY FileAssumption DEF FdRecords, Sizes
<1>2. r \in HandleRecords
  <2>1. table[i].kind \in {"file", "dir"}
    BY DEF Grown, InodeRecords
  <2> QED
    BY <2>1 DEF NewHandle, HandleRecords
<1>3. /\ r.fd = x /\ r.kind = table[i].kind /\ r.dir = "none" /\ r.got = << >> /\ r.entry = None
  BY DEF NewHandle
<1>4. d # None /\ r # None
  BY <1>1, <1>2, FileAssumption
<1> HIDE DEF d, r
<1>5. fd' = [fd EXCEPT ![x] = d] /\ handle' = [handle EXCEPT ![h] = r]
  BY DEF d, r
<1>6. TypeOK' /\ TreeLive'
  BY <1>1, <1>2, <1>5 DEF FileInv, TypeOK, TreeLive, Grown
<1>7. /\ \A y \in Fds : fd'[y] = IF y = x THEN d ELSE fd[y]
      /\ \A g \in Handles : handle'[g] = IF g = h THEN r ELSE handle[g]
  BY <1>5 DEF FileInv, TypeOK
<1>8. ASSUME NEW g \in Handles, handle[g] # None
      PROVE  /\ g # h /\ handle[g].fd \in Fds /\ handle[g].fd # x /\ fd[handle[g].fd].ino \in Inodes
             /\ fd[handle[g].fd] # None
             /\ inode[fd[handle[g].fd].ino] # None
             /\ inode[fd[handle[g].fd].ino].kind = handle[g].kind
  BY <1>8, HandleFacts DEF FileInv
<1>9. HandlesHaveFd'
  BY <1>3, <1>4, <1>7, <1>8 DEF HandlesHaveFd
<1>10. FdsHaveHandle'
  BY <1>3, <1>4, <1>7, <1>8 DEF FileInv, Balanced, FdsHaveHandle
<1>11. FdsDistinct'
  BY <1>3, <1>4, <1>7, <1>8 DEF FileInv, Balanced, FdsDistinct
<1>12. KindsAgree'
  BY <1>1, <1>3, <1>4, <1>7, <1>8 DEF KindsAgree, Grown
<1>13. Entries'
  <2>1. Delivered(r)
    BY <1>3 DEF Delivered
  <2> SUFFICES ASSUME NEW g \in Handles, handle'[g] # None
               PROVE  Delivered(handle'[g])
    BY Zenon DEF Entries, Delivered, Kept
  <2>2. CASE g = h
    BY <1>7, <2>1, <2>2
  <2>3. CASE g # h
    <3>1. handle'[g] = handle[g]
      BY <1>7, <2>3
    <3> QED
      BY <3>1 DEF FileInv, Entries
  <2> QED
    BY <2>2, <2>3
<1> QED
  BY <1>6, <1>9, <1>10, <1>11, <1>12, <1>13 DEF FileInv, Balanced

LEMMA AllocateStep ==
    ASSUME FileInv, NEW h \in Handles, handle[h] = None, NEW p \in Paths, NEW i \in Inodes,
           NEW write \in BOOLEAN, NEW t, NEW table, Grown(t, table), table[i] # None,
           LKLAllocateIFile(h, p, i, write, t, table), UNCHANGED protected
    PROVE  FileInv'
<1>1. tree' = t /\ inode' = table
  BY DEF LKLAllocateIFile
<1>2. CASE UNCHANGED <<fd, handle>>
  BY <1>1, <1>2, GrownStep
<1>3. CASE \E x \in Fds :
              /\ fd[x] = None /\ \A y \in Fds : y < x => fd[y] # None
              /\ fd' = [fd EXCEPT ![x] = [ino |-> i, pos |-> 0, write |-> write]]
              /\ handle' = [handle EXCEPT ![h] = NewHandle(x, table[i].kind, p)]
  <2>1. PICK x \in Fds :
              /\ fd[x] = None
              /\ fd' = [fd EXCEPT ![x] = [ino |-> i, pos |-> 0, write |-> write]]
              /\ handle' = [handle EXCEPT ![h] = NewHandle(x, table[i].kind, p)]
    BY <1>3, Zenon
  <2> QED
    BY <1>1, <2>1, OpenStep, Zenon
<1> QED
  BY <1>2, <1>3, Zenon DEF LKLAllocateIFile

LEMMA NothingMade ==
    ASSUME FileInv
    PROVE  Grown(tree, inode)
  BY DEF FileInv, TypeOK, TreeLive, Grown

LEMMA OpenVolumeStep ==
    ASSUME FileInv, NEW h \in Handles, LKLOpenVolume(h)
    PROVE  FileInv'
<1>1. Root \in Paths /\ tree[Root] \in Inodes /\ inode[tree[Root]] # None
  BY DEF Paths, FileInv, TypeOK, TreeLive
<1>2. handle[h] = None /\ UNCHANGED protected /\ LKLAllocateIFile(h, Root, tree[Root], FALSE, tree, inode)
  BY Zenon DEF LKLOpenVolume
<1> QED
  BY <1>1, <1>2, NothingMade, AllocateStep, Zenon

LEMMA OpenFileStep ==
    ASSUME FileInv, NEW h \in Handles, NEW p \in Paths, NEW write \in BOOLEAN, LKLOpen(h, p, write)
    PROVE  FileInv'
<1>1. tree[p] \in Inodes /\ inode[tree[p]] # None
  BY DEF LKLOpen, FileInv, TypeOK, TreeLive
<1>2. handle[h] = None /\ UNCHANGED protected /\ LKLAllocateIFile(h, p, tree[p], write, tree, inode)
  BY Zenon DEF LKLOpen
<1> QED
  BY <1>1, <1>2, NothingMade, AllocateStep, Zenon

LEMMA CreateStep ==
    ASSUME FileInv, NEW h \in Handles, NEW p \in Paths, NEW directory \in BOOLEAN,
           LKLOpenCreate(h, p, directory)
    PROVE  FileInv'
<1>1. handle[h] = None /\ p # Root /\ UNCHANGED protected
  BY Zenon DEF LKLOpenCreate
<1>2. ASSUME NEW i \in Inodes, inode[i] = None, tree[p] = None
      PROVE  LET t == [tree EXCEPT ![p] = i]
                 table == [inode EXCEPT ![i] = NewInode(IF directory THEN "dir" ELSE "file")]
             IN  Grown(t, table) /\ table[i] # None
  <2> DEFINE t == [tree EXCEPT ![p] = i]
             new == NewInode(IF directory THEN "dir" ELSE "file")
             table == [inode EXCEPT ![i] = new]
  <2>1. new \in InodeRecords
    BY FileAssumption DEF NewInode, InodeRecords, Sizes
  <2>2. new # None
    BY <2>1, FileAssumption
  <2> HIDE DEF new
  <2>3. /\ \A j \in Inodes : table[j] = IF j = i THEN new ELSE inode[j]
        /\ \A q \in Paths : t[q] = IF q = p THEN i ELSE tree[q]
    BY DEF FileInv, TypeOK
  <2>4. t \in [Paths -> Inodes \cup {None}] /\ table \in [Inodes -> InodeRecords \cup {None}]
    BY <2>1 DEF FileInv, TypeOK
  <2>5. \A q \in Paths : tree[q] # None => tree[q] \in Inodes
    BY DEF FileInv, TypeOK
  <2>6. Root \in Paths
    BY DEF Paths
  <2> HIDE DEF t, table
  <2>7. Grown(t, table) /\ table[i] # None
    BY <1>1, <1>2, <2>2, <2>3, <2>4, <2>5, <2>6 DEF Grown, FileInv, TreeLive
  <2> QED
    BY <2>7 DEF t, table, new
<1>3. CASE tree[p] = None
  <2>1. PICK i \in Inodes :
           LET t == [tree EXCEPT ![p] = i]
               table == [inode EXCEPT ![i] = NewInode(IF directory THEN "dir" ELSE "file")]
           IN  /\ inode[i] = None
               /\ IF p \in Outside
                  THEN tree' = t /\ inode' = table /\ UNCHANGED <<fd, handle>>
                  ELSE LKLAllocateIFile(h, p, i, ~directory, t, table)
    BY <1>3, Zenon DEF LKLOpenCreate
  <2> DEFINE t == [tree EXCEPT ![p] = i]
             table == [inode EXCEPT ![i] = NewInode(IF directory THEN "dir" ELSE "file")]
  <2>2. Grown(t, table) /\ table[i] # None
    BY <1>2, <1>3, <2>1, Zenon
  <2>3. \/ tree' = t /\ inode' = table /\ UNCHANGED <<fd, handle>>
        \/ LKLAllocateIFile(h, p, i, ~directory, t, table)
    BY <2>1, Zenon
  <2>4. (~directory) \in BOOLEAN
    BY Zenon
  <2> HIDE DEF t, table
  <2>5. CASE tree' = t /\ inode' = table /\ UNCHANGED <<fd, handle>>
    BY <1>1, <2>2, <2>5, GrownStep
  <2>6. CASE LKLAllocateIFile(h, p, i, ~directory, t, table)
    BY <1>1, <2>2, <2>4, <2>6, AllocateStep, Zenon
  <2> QED
    BY <2>3, <2>5, <2>6
<1>4. CASE tree[p] # None
  <2>1. LKLAllocateIFile(h, p, tree[p], TRUE, tree, inode)
    BY <1>4, Zenon DEF LKLOpenCreate
  <2>2. tree[p] \in Inodes /\ inode[tree[p]] # None
    BY <1>4 DEF FileInv, TypeOK, TreeLive
  <2> QED
    BY <1>1, <2>1, <2>2, NothingMade, AllocateStep, Zenon
<1> QED
  BY <1>3, <1>4

\* A handle that goes with its descriptor, and the inodes that go with it.
LEMMA CloseFacts ==
    ASSUME FileInv, NEW h \in Handles, handle[h] # None, UNCHANGED protected,
           tree' \in [Paths -> Inodes \cup {None}],
           \A p \in Paths : tree'[p] \in {tree[p], None}, tree'[Root] = tree[Root],
           fd' = Closed(handle[h].fd), handle' = [handle EXCEPT ![h] = None],
           inode' = Live(tree', fd', inode)
    PROVE  FileInv'
<1> DEFINE x == handle[h].fd
<1>1. /\ x \in Fds
      /\ \A y \in Fds : fd'[y] = IF y = x THEN None ELSE fd[y]
      /\ \A g \in Handles : handle'[g] = IF g = h THEN None ELSE handle[g]
  BY HandleFacts DEF FileInv, TypeOK, Closed
<1>2. /\ \A i \in Inodes : inode'[i] \in {inode[i], None}
      /\ \A i \in Inodes : (\E p \in Paths : tree'[p] = i) => inode'[i] = inode[i]
      /\ \A i \in Inodes : (\E y \in Fds : fd'[y] # None /\ fd'[y].ino = i) => inode'[i] = inode[i]
  BY DEF Live
<1>3. TypeOK'
  <2>1. inode' \in [Inodes -> InodeRecords \cup {None}]
    BY DEF Live, FileInv, TypeOK
  <2> QED
    BY <2>1 DEF FileInv, TypeOK, Closed
<1>4. TreeLive'
  <2>1. \A p \in Paths : tree'[p] # None =>
            tree'[p] = tree[p] /\ tree[p] \in Inodes /\ inode'[tree[p]] = inode[tree[p]]
    BY <1>2
  <2>2. Root \in Paths
    BY DEF Paths
  <2> QED
    BY <2>1, <2>2 DEF FileInv, TreeLive
<1>5. ASSUME NEW g \in Handles, handle'[g] # None
      PROVE  /\ handle'[g] = handle[g] /\ g # h /\ handle[g].fd \in Fds /\ handle[g].fd # x
             /\ fd'[handle[g].fd] = fd[handle[g].fd] /\ fd[handle[g].fd] # None
             /\ fd[handle[g].fd].ino \in Inodes
             /\ inode'[fd[handle[g].fd].ino] = inode[fd[handle[g].fd].ino]
             /\ inode[fd[handle[g].fd].ino] # None
             /\ inode[fd[handle[g].fd].ino].kind = handle[g].kind
  <2>1. handle'[g] = handle[g] /\ g # h /\ handle[g] # None
    BY <1>1, <1>5
  <2>2. /\ handle[g].fd \in Fds /\ fd[handle[g].fd] # None /\ fd[handle[g].fd].ino \in Inodes
        /\ inode[fd[handle[g].fd].ino] # None
        /\ inode[fd[handle[g].fd].ino].kind = handle[g].kind
    BY <2>1, HandleFacts DEF FileInv
  <2>3. handle[g].fd # x
    BY <2>1 DEF FileInv, Balanced, FdsDistinct
  <2>4. fd'[handle[g].fd] = fd[handle[g].fd]
    BY <1>1, <2>2, <2>3
  <2>5. inode'[fd[handle[g].fd].ino] = inode[fd[handle[g].fd].ino]
    BY <1>2, <2>2, <2>4
  <2> QED
    BY <2>1, <2>2, <2>3, <2>4, <2>5
<1> HIDE DEF x
<1>6. HandlesHaveFd' /\ KindsAgree'
  BY <1>5 DEF HandlesHaveFd, KindsAgree
<1>7. FdsDistinct'
  BY <1>5 DEF FileInv, Balanced, FdsDistinct
<1>8. FdsHaveHandle'
  <2> SUFFICES ASSUME NEW y \in Fds, fd'[y] # None
               PROVE  \E g \in Handles : handle'[g] # None /\ handle'[g].fd = y
    BY Zenon DEF FdsHaveHandle
  <2>1. y # x /\ fd[y] # None
    BY <1>1
  <2>2. PICK g \in Handles : handle[g] # None /\ handle[g].fd = y
    BY <2>1 DEF FileInv, Balanced, FdsHaveHandle
  <2> QED
    BY <1>1, <2>1, <2>2 DEF x
<1>9. Entries'
  <2> SUFFICES ASSUME NEW g \in Handles, handle'[g] # None
               PROVE  Delivered(handle'[g])
    BY Zenon DEF Entries, Delivered, Kept
  <2> QED
    BY <1>5 DEF FileInv, Entries
<1> QED
  BY <1>3, <1>4, <1>6, <1>7, <1>8, <1>9 DEF FileInv, Balanced

LEMMA CloseStep ==
    ASSUME FileInv, NEW h \in Handles, LKLClose(h)
    PROVE  FileInv'
<1>1. /\ handle[h] # None /\ UNCHANGED <<protected, tree>>
      /\ fd' = Closed(handle[h].fd) /\ handle' = [handle EXCEPT ![h] = None]
      /\ inode' = Live(tree, fd', inode)
  BY DEF LKLClose
<1>2. /\ tree' \in [Paths -> Inodes \cup {None}]
      /\ \A p \in Paths : tree'[p] \in {tree[p], None}
  BY <1>1 DEF FileInv, TypeOK
<1> QED
  BY <1>1, <1>2, CloseFacts

LEMMA DeleteTree ==
    ASSUME FileInv, NEW h \in Handles, LKLDelete(h)
    PROVE  /\ tree' \in [Paths -> Inodes \cup {None}]
           /\ \A p \in Paths : tree'[p] \in {tree[p], None}
           /\ tree'[Root] = tree[Root]
<1> DEFINE p == handle[h].path
<1>1. p \in Paths
  BY HandleFacts DEF FileInv, LKLDelete, HandleRecords
<1>2. CASE tree' = tree
  BY <1>2 DEF FileInv, TypeOK
<1>3. CASE tree[p] # None /\ inode[tree[p]].kind = "file" /\ tree' = [tree EXCEPT ![p] = None]
  <2>1. p # Root
    BY <1>3 DEF FileInv, TreeLive
  <2> QED
    BY <1>1, <1>3, <2>1 DEF FileInv, TypeOK, Paths
<1> QED
  BY <1>2, <1>3, Zenon DEF LKLDelete

LEMMA DeleteStep ==
    ASSUME FileInv, NEW h \in Handles, LKLDelete(h)
    PROVE  FileInv'
<1>1. /\ handle[h] # None /\ UNCHANGED protected
      /\ fd' = Closed(handle[h].fd) /\ handle' = [handle EXCEPT ![h] = None]
      /\ inode' = Live(tree', fd', inode)
  BY DEF LKLDelete
<1> QED
  BY <1>1, DeleteTree, CloseFacts

-----------------------------------------------------------------------------
(* The theorems.                                                           *)

LEMMA FileInit ==
    ASSUME Init
    PROVE  FileInv
<1>1. /\ protected \in BOOLEAN /\ fd = [x \in Fds |-> None] /\ handle = [h \in Handles |-> None]
  BY DEF Init
<1>2. PICK i \in [{Root} \cup Names -> Inodes \cup {None}], d \in Names \cup {None}, ro \in Names \cup {None} :
         Holds(i, d, ro)
  BY Zenon DEF Init
<1>12. i[Root] # None /\ tree = [p \in Paths |-> IF p \in DOMAIN i THEN i[p] ELSE None]
  BY <1>2, Zenon DEF Holds
<1> DEFINE Kind(j) == IF j = i[Root] \/ (d # None /\ i[d] = j) THEN "dir" ELSE "file"
           Writable(j) == ro = None \/ i[ro] # j
           New(j) == [NewInode(Kind(j)) EXCEPT !.writable = Writable(j)]
<1>11. ASSUME NEW kind \in {"file", "dir"}, NEW w \in BOOLEAN
       PROVE  /\ [NewInode(kind) EXCEPT !.writable = w] \in InodeRecords
              /\ [NewInode(kind) EXCEPT !.writable = w].kind = kind
  BY FileAssumption DEF NewInode, InodeRecords, Sizes
<1>3. ASSUME NEW j \in Inodes
      PROVE  New(j) \in InodeRecords /\ New(j).kind = Kind(j)
  <2>1. Kind(j) \in {"file", "dir"}
    OBVIOUS
  <2>2. Writable(j) \in BOOLEAN
    BY Zenon
  <2> HIDE DEF Kind, Writable
  <2> QED
    BY <1>11, <2>1, <2>2
<1>4. \A j \in Inodes : New(j) # None
  BY <1>3, FileAssumption
<1>5. /\ \A j \in Inodes : inode[j] = None \/ inode[j] = New(j)
      /\ \A p \in DOMAIN i : i[p] # None => i[p] \in Inodes /\ inode[i[p]] = New(i[p])
      /\ i[Root] \in Inodes
  <2> HIDE DEF New
  <2>1. inode = [j \in Inodes |-> IF \A p \in DOMAIN i : i[p] # j THEN None ELSE New(j)]
    BY <1>2, Zenon DEF New, Holds
  <2> QED
    BY <1>12, <2>1
<1>10. inode[i[Root]].kind = "dir"
  BY <1>12, <1>3, <1>5
<1> HIDE DEF New
<1>6. Root \in Paths /\ tree[Root] = i[Root] /\ DOMAIN i = {Root} \cup Names
  BY <1>12 DEF Paths
<1>7. tree \in [Paths -> Inodes \cup {None}]
  BY <1>12 DEF Paths
<1>13. inode = [j \in Inodes |-> inode[j]]
  BY <1>2, Zenon DEF Holds
<1>8. inode \in [Inodes -> InodeRecords \cup {None}]
  BY <1>13, <1>3, <1>5
<1>9. TreeLive
  <2>1. ASSUME NEW p \in Paths, tree[p] # None
        PROVE  inode[tree[p]] # None
    BY <1>12, <1>4, <1>5, <2>1
  <2> QED
    BY <1>12, <1>6, <1>10, <2>1 DEF TreeLive
<1> QED
  BY <1>1, <1>7, <1>8, <1>9 DEF FileInv, TypeOK, Balanced, HandlesHaveFd, FdsHaveHandle, FdsDistinct,
     KindsAgree, Entries

LEMMA FileStep ==
    ASSUME FileInv, [Next]_vars
    PROVE  FileInv'
<1>1. CASE UNCHANGED vars
  BY <1>1, NothingDone DEF vars
<1>2. ASSUME NEW h \in Handles, NEW p \in Paths, NEW b \in BOOLEAN,
             LKLOpen(h, p, b) \/ LKLOpenCreate(h, p, b)
      PROVE  FileInv'
  BY <1>2, OpenFileStep, CreateStep
<1>3. ASSUME NEW h \in Handles, LKLOpenVolume(h) \/ LKLClose(h) \/ LKLDelete(h)
      PROVE  FileInv'
  BY <1>3, OpenVolumeStep, CloseStep, DeleteStep
<1>4. ASSUME NEW h \in Handles, NEW b \in 0 .. 2, LKLIFileReadDir(h, b)
      PROVE  FileInv'
  BY <1>4, ReadDirStep
<1>5. ASSUME NEW h \in Handles, NEW n \in 1 .. MaxSize, LKLRead(h, n) \/ LKLWrite(h, n)
      PROVE  FileInv'
  BY <1>5, ReadStep, WriteStep
<1>6. ASSUME NEW h \in Handles, NEW n \in {-1} \cup Sizes, LKLSetPosition(h, n)
      PROVE  FileInv'
  BY <1>6, SetPositionStep
<1>7. ASSUME NEW h \in Handles, LKLSetOrGetInfo(h)
      PROVE  FileInv'
  BY <1>7, NothingDone DEF LKLSetOrGetInfo
<1>8. ASSUME NEW h \in Handles, NEW q \in Requests, LKLSetFileInfo(h, q)
      PROVE  FileInv'
  BY <1>8, SetFileInfoStep
<1>9. ASSUME NEW h \in Handles, LKLOpenVolumeFails(h)
      PROVE  FileInv'
  BY <1>9, NothingDone DEF LKLOpenVolumeFails
<1>10. CASE Calls
  BY <1>2, <1>3, <1>4, <1>5, <1>6, <1>7, <1>8, <1>10 DEF Calls
<1> QED
  BY <1>1, <1>9, <1>10 DEF Next

\* Types, a tree without dangling names, balanced descriptors and complete
\* directory streams hold together in every state.
THEOREM FileInvariant == Spec => []FileInv
<1>1. Init => FileInv
  BY FileInit
<1>2. FileInv /\ [Next]_vars => FileInv'
  BY FileStep
<1> QED
  BY <1>1, <1>2, PTL DEF Spec

\* LKLIFileReadDir delivers each entry of a directory once, in order, for any
\* directory and any sequence of buffers, rewinds and other calls.
THEOREM EveryEntryOnce == Spec => []EntriesOnce
<1>1. FileInv => EntriesOnce
  BY InvGivesEntries
<1> QED
  BY <1>1, FileInvariant, PTL

\* Handles and file descriptors go together through every open, failed open,
\* close and delete, for any number of them.
THEOREM NoDescriptorLost == Spec => []DescriptorsBalanced
<1>1. FileInv => DescriptorsBalanced
  BY InvGivesBalance
<1> QED
  BY <1>1, FileInvariant, PTL

-----------------------------------------------------------------------------
(* Times.                                                                  *)

\* What the last SetInfo has left, if it succeeded: the file has the time that
\* was asked for, where utime went to the file of the handle.
AnswerKept ==
    answer # None =>
        /\ answer.h \in Handles /\ handle[answer.h] # None
        /\ answer.modified # ZeroTime =>
              /\ answer.modified \in EFI_TIME /\ EfiTimeIsValid(answer.modified)
              /\ tree[handle[answer.h].path] = Ino(answer.h) =>
                    inode[Ino(answer.h)].mtime = EfiTimeToEpoch(answer.modified)

LEMMA TimeTaken ==
    ASSUME FileInv, NEW h \in Handles, handle[h] # None, NEW q \in Requests, TimesAccepted(h, q),
           q.modified # ZeroTime, tree[handle[h].path] = Ino(h)
    PROVE  SetTimes(h, q)[Ino(h)].mtime = EfiTimeToEpoch(q.modified)
<1> DEFINE i == Ino(h)
           mtime == inode[i].mtime
<1>1. i \in Inodes /\ inode[i] # None
  BY HandleFacts DEF FileInv, Ino
<1>2. inode \in [Inodes -> InodeRecords \cup {None}] /\ inode[i] \in InodeRecords
  BY <1>1 DEF FileInv, TypeOK
<1>3. AfterModify(q, mtime) = EfiTimeToEpoch(q.modified)
  BY Zenon DEF AfterModify
<1>4. CASE TimeChanged(q, mtime)
  <2>1. SetTimes(h, q) = [inode EXCEPT ![i].mtime = AfterModify(q, mtime)]
    BY <1>4, Zenon DEF SetTimes
  <2> HIDE DEF i, mtime
  <2>2. SetTimes(h, q)[i].mtime = AfterModify(q, mtime)
    BY <1>1, <1>2, <2>1 DEF InodeRecords
  <2> QED
    BY <1>3, <2>2 DEF i
<1>5. CASE ~TimeChanged(q, mtime)
  <2>1. SetTimes(h, q) = inode
    BY <1>5, Zenon DEF SetTimes
  <2>2. AfterModify(q, mtime) = mtime
    BY <1>5, Zenon DEF TimeChanged
  <2> QED
    BY <1>3, <2>1, <2>2
<1> QED
  BY <1>4, <1>5

\* The handle of the answer, its file and its path are as they were, and its path
\* leads nowhere it did not lead before.
Untouched(h) ==
    /\ handle'[h] # None /\ handle'[h].path = handle[h].path
    /\ fd'[handle'[h].fd].ino = Ino(h) /\ inode'[Ino(h)].mtime = inode[Ino(h)].mtime
    /\ tree'[handle[h].path] = Ino(h) => tree[handle[h].path] = Ino(h)

AnswerUntouched == answer # None => Untouched(answer.h)

LEMMA AnswerStays ==
    ASSUME AnswerKept, AnswerUntouched, answer' = answer
    PROVE  AnswerKept'
<1>1. CASE answer = None
  BY <1>1 DEF AnswerKept
<1>2. CASE answer # None
  <2> DEFINE h == answer.h
             t == answer.modified
  <2>1. answer'.h = h /\ answer'.modified = t /\ answer' # None
    BY <1>2
  <2>2. /\ handle'[h] # None /\ handle'[h].path = handle[h].path
        /\ fd'[handle'[h].fd].ino = Ino(h) /\ inode'[Ino(h)].mtime = inode[Ino(h)].mtime
        /\ tree'[handle[h].path] = Ino(h) => tree[handle[h].path] = Ino(h)
    BY <1>2, Zenon DEF AnswerUntouched, Untouched
  <2>3. /\ h \in Handles
        /\ t # ZeroTime =>
              /\ t \in EFI_TIME /\ EfiTimeIsValid(t)
              /\ tree[handle[h].path] = Ino(h) => inode[Ino(h)].mtime = EfiTimeToEpoch(t)
    BY <1>2, Zenon DEF AnswerKept
  <2>5. Ino(answer.h)' = fd'[handle'[h].fd].ino
    BY <2>1 DEF Ino
  <2> HIDE DEF h, t
  <2>4. t # ZeroTime =>
              /\ t \in EFI_TIME /\ EfiTimeIsValid(t)
              /\ tree'[handle'[h].path] = Ino(h) => inode'[Ino(h)].mtime = EfiTimeToEpoch(t)
    BY <2>2, <2>3, Zenon
  <2>6. Ino(answer.h)' = Ino(h)
    BY <2>2, <2>5, Zenon
  <2>7. /\ answer'.h \in Handles /\ handle'[answer'.h] # None
        /\ answer'.modified # ZeroTime =>
              /\ answer'.modified \in EFI_TIME /\ EfiTimeIsValid(answer'.modified)
              /\ tree'[handle'[answer'.h].path] = Ino(answer.h)' =>
                    inode'[Ino(answer.h)'].mtime = EfiTimeToEpoch(answer'.modified)
    BY <2>1, <2>2, <2>3, <2>4, <2>6, Zenon
  <2> QED
    BY <2>7, Zenon DEF AnswerKept
<1> QED
  BY <1>1, <1>2

\* Where the handle of the answer leads.
LEMMA AnswerFacts ==
    ASSUME FileInv, AnswerKept, answer # None
    PROVE  /\ answer.h \in Handles /\ handle[answer.h] # None /\ handle[answer.h].path \in Paths
           /\ handle[answer.h].fd \in Fds /\ fd[handle[answer.h].fd] # None
           /\ Ino(answer.h) \in Inodes /\ inode[Ino(answer.h)] # None
<1>1. answer.h \in Handles /\ handle[answer.h] # None
  BY Zenon DEF AnswerKept
<1> QED
  BY <1>1, HandleFacts DEF FileInv, Ino, HandleRecords

\* Calls on handles that are open move positions and directory streams only.
LEMMA AnswerRead ==
    ASSUME FileInv, AnswerKept, UNCHANGED <<tree, inode>>,
           \A x \in Fds : fd[x] # None => fd'[x].ino = fd[x].ino,
           \A g \in Handles : handle[g] # None =>
               handle'[g] # None /\ handle'[g].fd = handle[g].fd /\ handle'[g].path = handle[g].path
    PROVE  AnswerUntouched
<1> SUFFICES ASSUME answer # None
             PROVE  Untouched(answer.h)
  BY Zenon DEF AnswerUntouched
<1> QED
  BY AnswerFacts DEF Ino, Untouched

LEMMA AnswerHandle ==
    ASSUME FileInv, AnswerKept, NEW h \in Handles, handle[h] # None,
           NEW r \in HandleRecords, r.fd = handle[h].fd, r.path = handle[h].path,
           handle' = [handle EXCEPT ![h] = r], UNCHANGED <<tree, inode, fd>>
    PROVE  AnswerUntouched
<1>1. r # None
  BY FileAssumption
<1>2. \A g \in Handles : handle[g] # None =>
         handle'[g] # None /\ handle'[g].fd = handle[g].fd /\ handle'[g].path = handle[g].path
  BY <1>1 DEF FileInv, TypeOK
<1> QED
  BY <1>2, AnswerRead

LEMMA AnswerPosition ==
    ASSUME FileInv, AnswerKept, NEW h \in Handles, NEW n \in {-1} \cup Sizes,
           LKLRead(h, n) \/ LKLSetPosition(h, n)
    PROVE  AnswerUntouched
<1> DEFINE x == handle[h].fd
<1>1. handle[h] # None /\ handle[h] \in HandleRecords /\ x \in Fds /\ tree' = tree /\ inode' = inode
  BY HandleFacts DEF FileInv, LKLRead, LKLSetPosition
<1>2. CASE handle[h].kind = "dir"
  <2> DEFINE r == [handle[h] EXCEPT !.dir = IF handle[h].dir = "none" THEN "none" ELSE "start",
                      !.entry = None, !.rest = << >>, !.listed = << >>, !.got = << >>]
  <2>1. handle' = [handle EXCEPT ![h] = r] /\ UNCHANGED fd
    BY <1>1, <1>2 DEF LKLRead, LKLSetPosition, FileInv, TypeOK, HandleRecords
  <2>2. r \in HandleRecords /\ r.fd = handle[h].fd /\ r.path = handle[h].path
    BY <1>1, EmptySeq DEF HandleRecords
  <2> HIDE DEF r
  <2> QED
    BY <1>1, <2>1, <2>2, AnswerHandle
<1>3. CASE handle[h].kind = "file"
  <2>1. handle' = handle /\ \E pos : fd' = [fd EXCEPT ![x].pos = pos]
    BY <1>1, <1>3 DEF LKLRead, LKLSetPosition
  <2> HIDE DEF x
  <2>2. \A y \in Fds : fd[y] # None => fd'[y].ino = fd[y].ino
    BY <1>1, <2>1 DEF FileInv, TypeOK, FdRecords
  <2> QED
    BY <1>1, <2>1, <2>2, AnswerRead
<1> QED
  BY <1>1, <1>2, <1>3 DEF HandleRecords

\* An open changes nothing that is there.
LEMMA AnswerOpen ==
    ASSUME FileInv, AnswerKept, NEW t, NEW table,
           \A j \in Inodes : inode[j] # None => table[j] = inode[j],
           \A p \in Paths, j \in Inodes : inode[j] # None /\ t[p] = j => tree[p] = j,
           tree' = t, inode' = table,
           \A y \in Fds : fd[y] # None => fd'[y] = fd[y],
           \A g \in Handles : handle[g] # None => handle'[g] = handle[g]
    PROVE  AnswerUntouched
<1> SUFFICES ASSUME answer # None
             PROVE  Untouched(answer.h)
  BY Zenon DEF AnswerUntouched
<1> QED
  BY AnswerFacts DEF Ino, Untouched

LEMMA AllocateKeeps ==
    ASSUME FileInv, NEW h \in Handles, handle[h] = None, NEW p, NEW i, NEW write, NEW t, NEW table,
           LKLAllocateIFile(h, p, i, write, t, table)
    PROVE  /\ tree' = t /\ inode' = table
           /\ \A y \in Fds : fd[y] # None => fd'[y] = fd[y]
           /\ \A g \in Handles : handle[g] # None => handle'[g] = handle[g]
<1>1. tree' = t /\ inode' = table
  BY DEF LKLAllocateIFile
<1>2. CASE UNCHANGED <<fd, handle>>
  BY <1>1, <1>2
<1>3. CASE \E x \in Fds :
              /\ fd[x] = None /\ \A y \in Fds : y < x => fd[y] # None
              /\ fd' = [fd EXCEPT ![x] = [ino |-> i, pos |-> 0, write |-> write]]
              /\ handle' = [handle EXCEPT ![h] = NewHandle(x, table[i].kind, p)]
  <2>1. PICK x \in Fds :
              /\ fd[x] = None
              /\ fd' = [fd EXCEPT ![x] = [ino |-> i, pos |-> 0, write |-> write]]
              /\ handle' = [handle EXCEPT ![h] = NewHandle(x, table[i].kind, p)]
    BY <1>3, Zenon
  <2>2. \A y \in Fds : y # x => fd'[y] = fd[y]
    BY <2>1 DEF FileInv, TypeOK
  <2>3. \A g \in Handles : g # h => handle'[g] = handle[g]
    BY <2>1 DEF FileInv, TypeOK
  <2> QED
    BY <1>1, <2>1, <2>2, <2>3, Zenon
<1> QED
  BY <1>2, <1>3, Zenon DEF LKLAllocateIFile

LEMMA AnswerCreate ==
    ASSUME FileInv, AnswerKept, NEW h \in Handles, NEW p \in Paths, NEW b \in BOOLEAN,
           LKLOpenCreate(h, p, b)
    PROVE  AnswerUntouched
<1>1. handle[h] = None
  BY Zenon DEF LKLOpenCreate
<1>2. CASE tree[p] = None
  <2>1. PICK i \in Inodes :
           LET t == [tree EXCEPT ![p] = i]
               table == [inode EXCEPT ![i] = NewInode(IF b THEN "dir" ELSE "file")]
           IN  /\ inode[i] = None
               /\ IF p \in Outside
                  THEN tree' = t /\ inode' = table /\ UNCHANGED <<fd, handle>>
                  ELSE LKLAllocateIFile(h, p, i, ~b, t, table)
    BY <1>2, Zenon DEF LKLOpenCreate
  <2> DEFINE t == [tree EXCEPT ![p] = i]
             table == [inode EXCEPT ![i] = NewInode(IF b THEN "dir" ELSE "file")]
  <2>2. inode[i] = None
    BY <2>1, Zenon
  <2>3. \A j \in Inodes : inode[j] # None => table[j] = inode[j]
    BY <2>2 DEF FileInv, TypeOK
  <2>4. \A q \in Paths, j \in Inodes : inode[j] # None /\ t[q] = j => tree[q] = j
    BY <2>2 DEF FileInv, TypeOK
  <2>5. \/ tree' = t /\ inode' = table /\ UNCHANGED <<fd, handle>>
        \/ LKLAllocateIFile(h, p, i, ~b, t, table)
    BY <2>1, Zenon
  <2> HIDE DEF t, table
  <2>6. /\ tree' = t /\ inode' = table
        /\ \A y \in Fds : fd[y] # None => fd'[y] = fd[y]
        /\ \A g \in Handles : handle[g] # None => handle'[g] = handle[g]
    <3>1. CASE tree' = t /\ inode' = table /\ UNCHANGED <<fd, handle>>
      BY <3>1
    <3>2. CASE LKLAllocateIFile(h, p, i, ~b, t, table)
      BY <1>1, <3>2, AllocateKeeps
    <3> QED
      BY <2>5, <3>1, <3>2
  <2> QED
    BY <2>3, <2>4, <2>6, AnswerOpen
<1>3. CASE tree[p] # None
  <2>1. LKLAllocateIFile(h, p, tree[p], TRUE, tree, inode)
    BY <1>3, Zenon DEF LKLOpenCreate
  <2>2. /\ tree' = tree /\ inode' = inode
        /\ \A y \in Fds : fd[y] # None => fd'[y] = fd[y]
        /\ \A g \in Handles : handle[g] # None => handle'[g] = handle[g]
    BY <1>1, <2>1, AllocateKeeps
  <2> QED
    BY <2>2, AnswerOpen
<1> QED
  BY <1>2, <1>3

\* A handle is closed, or its path deleted: the files of other handles stay.
LEMMA AnswerClose ==
    ASSUME FileInv, AnswerKept, NEW g \in Handles, handle[g] # None, answer # None => answer.h # g,
           \A p \in Paths : tree'[p] \in {tree[p], None},
           fd' = Closed(handle[g].fd), handle' = [handle EXCEPT ![g] = None],
           inode' = Live(tree', fd', inode)
    PROVE  AnswerUntouched
<1> SUFFICES ASSUME answer # None
             PROVE  Untouched(answer.h)
  BY Zenon DEF AnswerUntouched
<1> DEFINE h == answer.h
           x == handle[h].fd
<1>1. /\ h \in Handles /\ handle[h] # None /\ handle[h].path \in Paths /\ h # g
      /\ x \in Fds /\ fd[x] # None /\ Ino(h) \in Inodes /\ inode[Ino(h)] # None
      /\ Ino(h) = fd[x].ino
  BY AnswerFacts DEF Ino
<1>2. x # handle[g].fd
  BY <1>1 DEF FileInv, Balanced, FdsDistinct
<1>3. handle'[h] = handle[h] /\ fd'[x] = fd[x]
  BY <1>1, <1>2 DEF FileInv, TypeOK, Closed
<1>4. fd'[handle'[h].fd].ino = Ino(h)
  BY <1>1, <1>3
<1> HIDE DEF h, x
<1>5. inode'[Ino(h)] = inode[Ino(h)]
  BY <1>1, <1>3 DEF Live
<1>6. tree'[handle[h].path] = Ino(h) => tree[handle[h].path] = Ino(h)
  <2>1. Ino(h) # None
    BY <1>1, FileAssumption
  <2> QED
    BY <1>1, <2>1
<1> QED
  BY <1>1, <1>3, <1>4, <1>5, <1>6 DEF h, Untouched

\* Another file is written to.
LEMMA AnswerWrite ==
    ASSUME FileInv, AnswerKept, NEW g \in Handles, NEW n, LKLWrite(g, n),
           answer # None => Ino(answer.h) # Ino(g)
    PROVE  AnswerUntouched
<1> SUFFICES ASSUME answer # None
             PROVE  Untouched(answer.h)
  BY Zenon DEF AnswerUntouched
<1> DEFINE h == answer.h
           x == handle[h].fd
           y == handle[g].fd
<1>1. /\ handle[h] # None /\ x \in Fds /\ fd[x] # None
      /\ Ino(h) \in Inodes /\ Ino(h) # Ino(g) /\ Ino(h) = fd[x].ino /\ Ino(g) = fd[y].ino
  BY AnswerFacts DEF Ino
<1>2. /\ handle[g] # None /\ tree' = tree /\ handle' = handle
      /\ fd' = [fd EXCEPT ![y].pos = fd[y].pos + n]
      /\ \E s, m : inode' = [inode EXCEPT ![fd[y].ino].size = s, ![fd[y].ino].mtime = m]
  BY DEF LKLWrite
<1>3. y \in Fds /\ fd[y] \in FdRecords /\ Ino(g) \in Inodes
  BY <1>2, HandleFacts DEF FileInv, Ino
<1>4. x # y
  BY <1>1
<1>5. fd'[x] = fd[x]
  BY <1>1, <1>2, <1>3, <1>4 DEF FileInv, TypeOK
<1>6. fd'[handle'[h].fd].ino = Ino(h)
  BY <1>1, <1>2, <1>5
<1>7. inode'[Ino(h)] = inode[Ino(h)]
  BY <1>1, <1>2, <1>3 DEF FileInv, TypeOK
<1> HIDE DEF h, x, y
<1> QED
  BY <1>1, <1>2, <1>6, <1>7 DEF h, Untouched

LEMMA AnswerStep ==
    ASSUME FileInv, AnswerKept, [Next]_vars
    PROVE  AnswerKept'
<1>1. ASSUME answer' = None
      PROVE  AnswerKept'
  BY <1>1 DEF AnswerKept
<1>2. ASSUME UNCHANGED <<tree, inode, fd, handle, answer>>
      PROVE  AnswerKept'
  BY <1>2 DEF AnswerKept, Ino
<1>3. ASSUME NEW h \in Handles, NEW p \in Paths, NEW b \in BOOLEAN,
             LKLOpen(h, p, b) \/ LKLOpenCreate(h, p, b) \/ LKLOpenVolume(h)
      PROVE  AnswerKept'
  <2>1. CASE LKLOpenCreate(h, p, b)
    <3>1. answer' = answer
      BY <2>1, Zenon DEF LKLOpenCreate
    <3> QED
      BY <2>1, <3>1, AnswerCreate, AnswerStays
  <2>2. CASE LKLOpen(h, p, b) \/ LKLOpenVolume(h)
    <3>1. /\ answer' = answer /\ handle[h] = None
          /\ \/ LKLAllocateIFile(h, p, tree[p], b, tree, inode)
             \/ LKLAllocateIFile(h, Root, tree[Root], FALSE, tree, inode)
      BY <2>2, Zenon DEF LKLOpen, LKLOpenVolume
    <3>2. /\ tree' = tree /\ inode' = inode
          /\ \A y \in Fds : fd[y] # None => fd'[y] = fd[y]
          /\ \A g \in Handles : handle[g] # None => handle'[g] = handle[g]
      BY <3>1, AllocateKeeps
    <3> QED
      BY <3>1, <3>2, AnswerOpen, AnswerStays
  <2> QED
    BY <1>3, <2>1, <2>2
<1>4. ASSUME NEW h \in Handles, LKLClose(h) \/ LKLDelete(h)
      PROVE  AnswerKept'
  <2>1. /\ handle[h] # None /\ fd' = Closed(handle[h].fd)
        /\ handle' = [handle EXCEPT ![h] = None] /\ inode' = Live(tree', fd', inode)
        /\ answer' = AnswerWithout(h)
    BY <1>4 DEF LKLClose, LKLDelete
  <2>2. \A p \in Paths : tree'[p] \in {tree[p], None}
    BY <1>4, DeleteTree DEF LKLClose
  <2>3. CASE answer # None /\ answer.h = h
    BY <1>1, <2>1, <2>3 DEF AnswerWithout
  <2>4. CASE ~(answer # None /\ answer.h = h)
    BY <2>1, <2>2, <2>4, AnswerClose, AnswerStays DEF AnswerWithout
  <2> QED
    BY <2>3, <2>4
<1>5. ASSUME NEW h \in Handles, NEW n \in 1 .. MaxSize, LKLWrite(h, n)
      PROVE  AnswerKept'
  <2>1. CASE answer # None /\ Ino(answer.h) = Ino(h)
    BY <1>1, <1>5, <2>1 DEF LKLWrite
  <2>2. CASE ~(answer # None /\ Ino(answer.h) = Ino(h))
    BY <1>5, <2>2, AnswerWrite, AnswerStays DEF LKLWrite
  <2> QED
    BY <2>1, <2>2
<1>7. ASSUME NEW h \in Handles, NEW n \in {-1} \cup Sizes, LKLRead(h, n) \/ LKLSetPosition(h, n)
      PROVE  AnswerKept'
  BY <1>7, AnswerPosition, AnswerStays DEF LKLRead, LKLSetPosition
<1>11. ASSUME NEW h \in Handles, NEW b \in 0 .. 2, LKLIFileReadDir(h, b)
      PROVE  AnswerKept'
  <2>1. answer' = answer
    BY <1>11, Zenon DEF LKLIFileReadDir
  <2> QED
    BY <1>11, <2>1, ReadDirRecord, AnswerHandle, AnswerStays DEF SameHandle
<1>6. ASSUME NEW h \in Handles, NEW q \in Requests, LKLSetFileInfo(h, q), answer' # None
      PROVE  AnswerKept'
  <2>1. /\ handle[h] # None /\ TimesAccepted(h, q) /\ SetSize(h, q, SetTimes(h, q))
        /\ answer' = [h |-> h, readonly |-> q.readonly,
                      modified |-> IF q.size = inode[Ino(h)].size THEN q.modified ELSE ZeroTime]
        /\ tree' = tree /\ fd' = fd /\ handle' = handle
    BY <1>6, Zenon DEF LKLSetFileInfo
  <2>2. answer'.h = h /\ answer'.modified = IF q.size = inode[Ino(h)].size THEN q.modified ELSE ZeroTime
    BY <2>1
  <2>3. ASSUME answer'.modified # ZeroTime
        PROVE  /\ q.modified = answer'.modified /\ q.modified \in EFI_TIME /\ EfiTimeIsValid(q.modified)
               /\ tree[handle[h].path] = Ino(h) => inode'[Ino(h)].mtime = EfiTimeToEpoch(q.modified)
    <3>1. q.size = inode[Ino(h)].size /\ q.modified = answer'.modified /\ q.modified # ZeroTime
      BY <2>2, <2>3, Zenon
    <3>2. q.modified \in EFI_TIME
      BY FileAssumption DEF FileInfos
    <3>3. EfiTimeIsValid(q.modified)
      BY <2>1, <3>1, Zenon DEF TimesAccepted, TimesValid
    <3>4. inode' = SetTimes(h, q)
      BY <2>1, <3>1, Zenon DEF SetSize
    <3> QED
      BY <2>1, <3>1, <3>2, <3>3, <3>4, TimeTaken
  <2> QED
    BY <2>1, <2>2, <2>3, Zenon DEF AnswerKept, Ino
<1>8. ASSUME NEW h \in Handles, LKLSetOrGetInfo(h) \/ LKLOpenVolumeFails(h)
      PROVE  AnswerKept'
  BY <1>2, <1>8 DEF LKLSetOrGetInfo, LKLOpenVolumeFails
<1>9. CASE Calls
  <2>1. ASSUME NEW n \in 1 .. MaxSize
        PROVE  n \in {-1} \cup Sizes
    BY FileAssumption DEF Sizes
  <2>2. ASSUME NEW h \in Handles, NEW q \in Requests, LKLSetFileInfo(h, q)
        PROVE  AnswerKept'
    BY <1>1, <1>6, <2>2
  <2>3. ASSUME NEW h \in Handles, NEW n \in 1 .. MaxSize, LKLRead(h, n)
        PROVE  AnswerKept'
    BY <1>7, <2>1, <2>3
  <2>4. ASSUME NEW h \in Handles, LKLOpenVolume(h)
        PROVE  AnswerKept'
    BY <1>3, <2>4 DEF Paths
  <2> QED
    BY <1>3, <1>4, <1>5, <1>7, <1>8, <1>9, <1>11, <2>2, <2>3, <2>4 DEF Calls
<1>10. CASE UNCHANGED vars
  BY <1>2, <1>10 DEF vars
<1> QED
  BY <1>8, <1>9, <1>10 DEF Next

LEMMA AnswerGivesReadBack ==
    ASSUME AnswerKept
    PROVE  TimesReadBack
<1> DEFINE t == answer.modified
           h == answer.h
           told == LKLGetFileInfo(h).modified
           valid == t \in EFI_TIME /\ EfiTimeIsValid(t) /\ inode[Ino(h)].mtime = EfiTimeToEpoch(t)
           same == tree[handle[h].path] = Ino(h)
           reached == t.Year \in 1970 .. 2105
           told_as_asked == told = [t EXCEPT !.TimeZone = 0]
<1>1. answer # None /\ t # ZeroTime /\ same => valid
  BY Zenon DEF AnswerKept
<1>2. told = EpochToEfiTime(inode[Ino(h)].mtime)
  BY DEF LKLGetFileInfo, LKLFillFileInfo
<1>3. TimesReadBack <=> (answer # None => (t # ZeroTime /\ reached /\ same => told_as_asked))
  BY DEF TimesReadBack
<1>4. ASSUME valid, reached
      PROVE  told_as_asked
  <2>1. t \in EFI_TIME /\ EfiTimeIsValid(t) /\ told = EpochToEfiTime(EfiTimeToEpoch(t))
    BY <1>2, <1>4
  <2> HIDE DEF t, told
  <2>2. Date(told) = Date(t) /\ Clock(told) = Clock(t)
    BY <1>4, <2>1, TimeReadBack
  <2>3. told = [Year |-> told.Year, Month |-> told.Month, Day |-> told.Day, Hour |-> told.Hour,
                Minute |-> told.Minute, Second |-> told.Second, TimeZone |-> 0]
    BY <2>1 DEF EpochToEfiTime
  <2> QED
    BY <2>1, <2>2, <2>3 DEF Date, Clock, EFI_TIME
<1> HIDE DEF t, h, told, valid, same, reached, told_as_asked
<1> QED
  BY <1>1, <1>3, <1>4, Zenon

\* The date and the clock of the modification time that a client sets are the
\* ones it is told, with TimeZone 0, for every valid time of the years 1970 to
\* 2105 in any zone and every sequence of calls until the file is changed again.
THEOREM TimesKept == Spec => []TimesReadBack
<1>1. Init => AnswerKept
  BY DEF Init, AnswerKept
<1>2. FileInv /\ AnswerKept /\ [Next]_vars => AnswerKept'
  BY AnswerStep
<1>3. AnswerKept => TimesReadBack
  BY AnswerGivesReadBack
<1> QED
  BY <1>1, <1>2, <1>3, FileInvariant, PTL DEF Spec

LEMMA InvGivesCalendar ==
    ASSUME FileInv
    PROVE  CalendarExact
<1> DEFINE Told(s) == LKLFillFileInfo([inode[tree[Root]] EXCEPT !.mtime = s]).modified
           now(n) == <<n, (n * 7919) % SEC_PER_DAY>>
<1> SUFFICES ASSUME NEW n \in 0 .. MaxDay - 1
             PROVE  /\ Date(Told(now(n))) = IF n = 0 THEN <<1970, 1, 1>> ELSE Tomorrow(Date(Told(<<n - 1, 0>>)))
                    /\ EfiTimeIsValid(Told(now(n))) /\ EfiTimeToEpoch(Told(now(n))) = now(n)
  BY DEF CalendarExact
<1>1. inode[tree[Root]] \in InodeRecords
  BY DEF FileInv, TypeOK, TreeLive, Paths
<1>2. ASSUME NEW s
      PROVE  Told(s) = EpochToEfiTime(s)
  BY <1>1 DEF LKLFillFileInfo, InodeRecords
<1> DEFINE s == (n * 7919) % SEC_PER_DAY
<1>3. n \in Int /\ 0 <= n /\ n < MaxDay
  BY SMT DEF MaxDay
<1>4. s \in Int /\ 0 <= s /\ s < SEC_PER_DAY
  BY <1>3, SMT DEF SEC_PER_DAY
<1>5. now(n) = <<n, s>>
  OBVIOUS
<1> HIDE DEF Told, now, s
<1>6. Date(EpochToEfiTime(<<n, s>>)) =
        IF n = 0 THEN <<1970, 1, 1>> ELSE Tomorrow(Date(EpochToEfiTime(<<n - 1, 0>>)))
  BY <1>3, FirstOfJanuary, TomorrowFound
<1>7. EfiTimeIsValid(EpochToEfiTime(<<n, s>>)) /\ EfiTimeToEpoch(EpochToEfiTime(<<n, s>>)) = <<n, s>>
  BY <1>3, <1>4, StampReadBack
<1> QED
  BY <1>2, <1>5, <1>6, <1>7

\* EpochToEfiTime gives the dates of the calendar one after the other, from the
\* first of January 1970, and EfiTimeToEpoch leads back.
THEOREM CalendarKept == Spec => []CalendarExact
<1>1. FileInv => CalendarExact
  BY InvGivesCalendar
<1> QED
  BY <1>1, FileInvariant, PTL
=============================================================================
