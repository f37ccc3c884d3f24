------------------------------ MODULE LKLTime ------------------------------
(***************************************************************************)
(* The time conversions of Misc.c between EFI_TIME and seconds since the   *)
(* epoch.  A number of seconds is 32 bits wide (LKLSetFileInfo keeps it in *)
(* a UINT32, and UINTN is 32 bits wide on ARM) and is written as the pair  *)
(* <<days, seconds of the day>>: TLC's integers hold no more than 31 bits. *)
(* Nanosecond and Daylight are left out.                                   *)
(***************************************************************************)
EXTENDS Integers

SEC_PER_DAY == 86400
EPOCH_JULIAN_DATE == 2440588
EFI_UNSPECIFIED_TIMEZONE == 2047

\* The fields of an EFI_TIME have 16 and 8 bits, TimeZone is signed.
MAX_UINT16 == 65535
MAX_UINT8 == 255
MAX_INT16 == 32767

EFI_TIME ==
    [Year : 0 .. MAX_UINT16, Month : 0 .. MAX_UINT8, Day : 0 .. MAX_UINT8,
     Hour : 0 .. MAX_UINT8, Minute : 0 .. MAX_UINT8, Second : 0 .. MAX_UINT8,
     TimeZone : -MAX_INT16 - 1 .. MAX_INT16]

\* 2^32 seconds are MaxDay days and LastSec seconds.
MaxDay == 49710
LastSec == 23296

Stamps == {s \in (0 .. MaxDay) \X (0 .. SEC_PER_DAY - 1) : s[1] = MaxDay => s[2] < LastSec}

\* days * SEC_PER_DAY + sec, reduced to 32 bits.
UINT32(days, sec) ==
    LET Less(n) == <<days - n * MaxDay + (sec - n * LastSec) \div SEC_PER_DAY,
                     (sec - n * LastSec) % SEC_PER_DAY>>
        Fits(s) == 0 <= s[1] /\ (s[1] < MaxDay \/ (s[1] = MaxDay /\ s[2] < LastSec))
        guess == days \div MaxDay
    IN  Less(CHOOSE n \in guess - 1 .. guess + 1 : Fits(Less(n)))

-----------------------------------------------------------------------------
\* One of four centuries, or of four years; the last of them is a day longer.
Cycle(n) == ((n + 1) * 3) \div 4

\* EpochToEfiTime: the Julian day, then 400-year, 100-year, 4-year and 1-year
\* cycles of a calendar that begins in March.  TimeZone is what the callers
\* have cleared it to.
EpochToEfiTime(s) ==
    LET j   == s[1] + EPOCH_JULIAN_DATE + 32044
        g   == j \div 146097
        dg  == j % 146097
        c   == Cycle(dg \div 36524)
        dc  == dg - c * 36524
        b   == dc \div 1461
        db  == dc % 1461
        a   == Cycle(db \div 365)
        da  == db - a * 365
        y   == g * 400 + c * 100 + b * 4 + a
        m   == ((da * 5 + 308) \div 153) - 2
        d   == da - ((m + 4) * 153) \div 5 + 122
        min == s[1] * 1440 + s[2] \div 60
    IN  [Year |-> y - 4800 + (m + 2) \div 12, Month |-> ((m + 2) % 12) + 1, Day |-> d + 1,
         Hour |-> (min \div 60) % 24, Minute |-> min % 60, Second |-> s[2] % 60,
         TimeZone |-> 0]

\* Mutant for CalendarExact: the months are not counted from March.
EfiTimeToEpoch_January(t) ==
    LET y == t.Year + 4800
        julian == t.Day + (153 * t.Month + 2) \div 5 + 365 * y + y \div 4 - y \div 100
                  + y \div 400 - 32045
    IN  UINT32(julian - EPOCH_JULIAN_DATE, t.Hour * 3600 + t.Minute * 60 + t.Second)

\* The Julian day of a date, with the months counted from March.
JulianDate(year, month, day) ==
    LET a == (14 - month) \div 12
        y == year + 4800 - a
        m == month + 12 * a - 3
    IN  day + (153 * m + 2) \div 5 + 365 * y + y \div 4 - y \div 100 + y \div 400 - 32045

\* EfiTimeToEpoch; TimeZone is ignored.  Its ASSERT is not part of a release
\* build: the days of a year before 1970 wrap around.
EfiTimeToEpoch(t) ==
    UINT32(JulianDate(t.Year, t.Month, t.Day) - EPOCH_JULIAN_DATE,
           t.Hour * 3600 + t.Minute * 60 + t.Second)

IsLeapYear(t) ==
    IF t.Year % 4 = 0 THEN (t.Year % 100 = 0 => t.Year % 400 = 0) ELSE FALSE

DayOfMonth == <<31, 29, 31, 30, 31, 30, 31, 31, 30, 31, 30, 31>>

DayValid(t) ==
    /\ t.Day >= 1 /\ t.Day <= DayOfMonth[t.Month]
    /\ ~(t.Month = 2 /\ ~IsLeapYear(t) /\ t.Day > 28)

\* EfiTimeIsValid, without the fields that are left out
EfiTimeIsValid(t) ==
    /\ t.Year >= 1900 /\ t.Year <= 9999
    /\ t.Month >= 1 /\ t.Month <= 12
    /\ DayValid(t)
    /\ t.Hour <= 23 /\ t.Minute <= 59 /\ t.Second <= 59
    /\ t.TimeZone = EFI_UNSPECIFIED_TIMEZONE \/ t.TimeZone \in -1440 .. 1440

Date(t) == <<t.Year, t.Month, t.Day>>
Clock(t) == <<t.Hour, t.Minute, t.Second>>

\* The calendar as everyone knows it: the day after the date <<y, m, d>>.
Tomorrow(date) ==
    LET y == date[1]
        m == date[2]
        leap == y % 400 = 0 \/ (y % 4 = 0 /\ y % 100 # 0)
        last == CASE m \in {4, 6, 9, 11} -> 30
                  [] m = 2 -> IF leap THEN 29 ELSE 28
                  [] OTHER -> 31
    IN  IF date[3] < last THEN <<y, m, date[3] + 1>>
        ELSE IF m < 12 THEN <<y, m + 1, 1>> ELSE <<y + 1, 1, 1>>
=============================================================================
