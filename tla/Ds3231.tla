------------------------------- MODULE Ds3231 -------------------------------
(***************************************************************************)
(* The calendar arithmetic and the register image of the DS3231 driver     *)
(* (ds3231.cpp), tried on every day from 2000 on against the count of the  *)
(* days.                                                                   *)
(*                                                                         *)
(* NoCentury is a mistake this code could make; CalendarAgrees is tried    *)
(* against it.                                                             *)
(***************************************************************************)
EXTENDS Integers, Sequences

CONSTANT LastYear       \* bound: the last year walked through, at most 2199

BadTime == [year |-> 0, month |-> 0, day |-> 0, hour |-> 0, minute |-> 0, second |-> 0]

(* Bytes: the high and the low digit. *)
BinToBcd(v) == 16 * (v \div 10) + (v % 10)
BcdToBin(b) == 10 * (b \div 16) + (b % 16)
Bit(b, n) == (b \div n) % 2 = 1

IsLeap(y) == (y % 4 = 0 /\ y % 100 # 0) \/ y % 400 = 0
DaysInMonth(y, m) ==
    IF m = 2 /\ IsLeap(y) THEN 29 ELSE <<31, 28, 31, 30, 31, 30, 31, 31, 30, 31, 30, 31>>[m]

TimeValid(t) ==
    /\ t.year \in 2000 .. 2199 /\ t.month \in 1 .. 12
    /\ t.day \in 1 .. DaysInMonth(t.year, t.month)
    /\ t.hour < 24 /\ t.minute < 60 /\ t.second < 60

(* Sakamoto's method, 1 = Sunday. *)
Weekday(year, month, day) ==
    LET y == IF month < 3 THEN year - 1 ELSE year
        shift == <<0, 3, 2, 5, 0, 3, 5, 1, 4, 6, 2, 4>>[month]
    IN  ((y + (y \div 4) - (y \div 100) + (y \div 400) + shift + day) % 7) + 1

NoCentury(t) ==
    << BinToBcd(t.second), BinToBcd(t.minute), BinToBcd(t.hour), Weekday(t.year, t.month, t.day),
       BinToBcd(t.day), BinToBcd(t.month), BinToBcd(t.year % 100) >>

(* ds3231_set_time: the bytes of registers 0 to 6. *)
Registers(t) ==
    << BinToBcd(t.second), BinToBcd(t.minute), BinToBcd(t.hour), Weekday(t.year, t.month, t.day),
       BinToBcd(t.day), BinToBcd(t.month) + (IF t.year >= 2100 THEN 128 ELSE 0),
       BinToBcd(t.year - (IF t.year >= 2100 THEN 2100 ELSE 2000)) >>

HourOf(b) ==
    IF Bit(b, 64) THEN (BcdToBin(b % 32) % 12) + (IF Bit(b, 32) THEN 12 ELSE 0) ELSE BcdToBin(b % 64)

(* ds3231_get_time *)
TimeOf(raw) ==
    LET t == [second |-> BcdToBin(raw[1] % 128), minute |-> BcdToBin(raw[2] % 128), hour |-> HourOf(raw[3]),
              day |-> BcdToBin(raw[5] % 64), month |-> BcdToBin(raw[6] % 32),
              year |-> 2000 + BcdToBin(raw[7]) + (IF Bit(raw[6], 128) THEN 100 ELSE 0)]
    IN  IF t.month \in 1 .. 12 /\ TimeValid(t) THEN t ELSE BadTime

(* ds3231_compare: -1, 0 or 1. *)
Compare(a, b) ==
    LET days(t) == t.year * 10000 + t.month * 100 + t.day
        secs(t) == t.hour * 3600 + t.minute * 60 + t.second
        Order(m, n) == IF m = n THEN 0 ELSE IF m < n THEN -1 ELSE 1
    IN  IF days(a) # days(b) THEN Order(days(a), days(b)) ELSE Order(secs(a), secs(b))

-----------------------------------------------------------------------------
(* The walk: one day after the other, at an hour that moves with the day.    *)

VARIABLES date, count
vars == <<date, count>>

Init ==
    /\ date = [year |-> 2000, month |-> 1, day |-> 1, hour |-> 0, minute |-> 0, second |-> 0]
    /\ count = 0

NextDay(t) ==
    IF t.day < DaysInMonth(t.year, t.month) THEN [t EXCEPT !.day = @ + 1]
    ELSE IF t.month < 12 THEN [t EXCEPT !.day = 1, !.month = @ + 1]
    ELSE [t EXCEPT !.day = 1, !.month = 1, !.year = @ + 1]

Next ==
    /\ NextDay(date).year <= LastYear
    /\ date' = [NextDay(date) EXCEPT !.hour = count % 24, !.minute = count % 60, !.second = (7 * count) % 60]
    /\ count' = count + 1

Spec == Init /\ [][Next]_vars

-----------------------------------------------------------------------------
(* References: the day's Julian number, and the chip's 12-hour byte.         *)

JulianDay(t) ==
    LET a == (14 - t.month) \div 12
        y == t.year + 4800 - a
        m == t.month + 12 * a - 3
    IN  t.day + ((153 * m + 2) \div 5) + 365 * y + (y \div 4) - (y \div 100) + (y \div 400) - 32045

TwelveHours(h) == 64 + (IF h >= 12 THEN 32 ELSE 0) + BinToBcd(IF h % 12 = 0 THEN 12 ELSE h % 12)

(* No day is skipped or invented, the weekday is the one of the count, later *)
(* days compare as later, and a time that is set is the time that is read,   *)
(* also by a chip left in 12-hour mode, through the leap years and across    *)
(* the century bit (ds3231.cpp:27-129, 177-190).                             *)
CalendarAgrees ==
    /\ JulianDay(date) = 2451545 + count
    /\ Weekday(date.year, date.month, date.day) = ((JulianDay(date) + 1) % 7) + 1
    /\ Compare(date, NextDay(date)) = -1 /\ Compare(NextDay(date), date) = 1 /\ Compare(date, date) = 0
    /\ TimeOf(Registers(date)) = date
    /\ TimeOf([Registers(date) EXCEPT ![3] = TwelveHours(date.hour)]) = date

=============================================================================
