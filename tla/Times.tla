------------------------------- MODULE Times --------------------------------
(***************************************************************************)
(* Dates and times, src/src/time.rs: civil days, what a date may be, and   *)
(* the three fields a directory entry stores.  An instant of the clock is  *)
(* the day it falls on, counted from 1970, and the second of that day.     *)
(***************************************************************************)
EXTENDS Integers

CONSTANT MaxYear           \* the last an i32 has

FIRST_YEAR == 1980
LAST_YEAR  == 2107
SecondsPerDay == 86400
FIELD_MAX == 65535          \* of an entry's date and of its time

ASSUME TimesAssumption == MaxYear \in Nat /\ LAST_YEAR < MaxYear

IsLeapYear(y) == y % 4 = 0 /\ (y % 100 # 0 \/ y % 400 = 0)

DaysInMonth(y, m) ==
    CASE m \in {1, 3, 5, 7, 8, 10, 12} -> 31
      [] m \in {4, 6, 9, 11}           -> 30
      [] m = 2                         -> IF IsLeapYear(y) THEN 29 ELSE 28
      [] OTHER                         -> 0

\* DateTime::new refuses what this refuses.
IsDateTime(t) ==
    /\ t.month \in 1 .. 12
    /\ t.day \in 1 .. DaysInMonth(t.year, t.month)
    /\ t.hour \in 0 .. 23 /\ t.minute \in 0 .. 59 /\ t.second \in 0 .. 59
    /\ t.millisecond \in 0 .. 999

Instant(y, m, d, rest, ms) ==
    [year |-> y, month |-> m, day |-> d, hour |-> rest \div 3600,
     minute |-> (rest \div 60) % 60, second |-> rest % 60, millisecond |-> ms]
EPOCH  == Instant(FIRST_YEAR, 1, 1, 0, 0)
LATEST == Instant(LAST_YEAR, 12, 31, SecondsPerDay - 1, 990)

\* days_from_civil: the year starts in March.
DaysFromCivil(y, m, d) ==
    LET year == IF m <= 2 THEN y - 1 ELSE y
        era  == year \div 400
        yoe  == year - era * 400
        doy  == (153 * (IF m > 2 THEN m - 3 ELSE m + 9) + 2) \div 5 + d - 1
        doe  == yoe * 365 + yoe \div 4 - yoe \div 100 + doy
    IN  era * 146097 + doe - 719468

\* Mutant of DateOf: centuries are leap years.
DateOfJulian(days) ==
    LET at   == days + 719468
        doe  == at % 146097
        yoe  == (doe - doe \div 1460) \div 365
        doy  == doe - (365 * yoe + yoe \div 4)
        mp   == (5 * doy + 2) \div 153
        m    == IF mp < 10 THEN mp + 3 ELSE mp - 9
    IN  <<yoe + (at \div 146097) * 400 + (IF m <= 2 THEN 1 ELSE 0), m,
          doy - (153 * mp + 2) \div 5 + 1>>

\* civil_from_days up to its result: year, month and day.
DateOf(days) ==
    LET at   == days + 719468
        era  == at \div 146097
        doe  == at - era * 146097
        yoe  == (doe - doe \div 1460 + doe \div 36524 - doe \div 146096) \div 365
        doy  == doe - (365 * yoe + yoe \div 4 - yoe \div 100)
        mp   == (5 * doy + 2) \div 153
        m    == IF mp < 10 THEN mp + 3 ELSE mp - 9
    IN  <<IF m <= 2 THEN yoe + era * 400 + 1 ELSE yoe + era * 400, m,
          doy - (153 * mp + 2) \div 5 + 1>>

\* Its year is cast to an i32.
AsYear(y) == ((y + MaxYear + 1) % (2 * (MaxYear + 1))) - (MaxYear + 1)
CivilFromDays(days) == LET date == DateOf(days) IN <<AsYear(date[1]), date[2], date[3]>>

\* from_unix_seconds, clamped to what FAT can hold.
FromUnix(day, rest) ==
    LET civil == CivilFromDays(day)
    IN  CASE civil[1] < FIRST_YEAR -> EPOCH
          [] civil[1] > LAST_YEAR  -> LATEST
          [] OTHER                 -> Instant(civil[1], civil[2], civil[3], rest, 0)

\* to_unix_seconds, as day and second of the day.
ToUnix(t) == <<DaysFromCivil(t.year, t.month, t.day), t.hour * 3600 + t.minute * 60 + t.second>>

\* The derived order of the fields.
Fields(t) == <<t.year, t.month, t.day, t.hour, t.minute, t.second, t.millisecond>>
Before(s, t) ==
    \E k \in 1 .. 7 : /\ Fields(s)[k] < Fields(t)[k]
                      /\ \A j \in 1 .. k - 1 : Fields(s)[j] = Fields(t)[j]
Clamp(t) == IF Before(t, EPOCH) THEN EPOCH ELSE IF Before(LATEST, t) THEN LATEST ELSE t

\* Mutant of Pack: the odd second is dropped.
PackEven(t) ==
    LET c == Clamp(t)
    IN  [date |-> (c.year - FIRST_YEAR) * 512 + c.month * 32 + c.day,
         time |-> c.hour * 2048 + c.minute * 32 + c.second \div 2,
         hundredths |-> c.millisecond \div 10]

\* pack: 7, 4 and 5 bits of date, 5, 6 and 5 of time, hundredths of 2 seconds.
Pack(t) ==
    LET c == Clamp(t)
    IN  [date |-> (c.year - FIRST_YEAR) * 512 + c.month * 32 + c.day,
         time |-> c.hour * 2048 + c.minute * 32 + c.second \div 2,
         hundredths |-> (c.second % 2) * 100 + c.millisecond \div 10]

\* unpack: a date of zero is the epoch; hundredths past 199 are cut to it.
Unpack(p) ==
    LET hundredths == IF p.hundredths > 199 THEN 199 ELSE p.hundredths
    IN  IF p.date = 0 THEN EPOCH
        ELSE [year |-> FIRST_YEAR + p.date \div 512, month |-> (p.date \div 32) % 16,
              day |-> p.date % 32, hour |-> p.time \div 2048, minute |-> (p.time \div 32) % 64,
              second |-> (p.time % 32) * 2 + hundredths \div 100,
              millisecond |-> (hundredths % 100) * 10]
=============================================================================
