---------------------------- MODULE RealTimeClock ---------------------------
(* HWRTC (HardwareRTC.cpp) and rtc.c: a calendar in BCD registers, read and   *)
(* set in seconds since 1970, an alarm, and two interrupts with callbacks.   *)
(*                                                                           *)
(* Assumed: interrupts are served within the second; of setAlarmTime, which  *)
(* reads the clock and then sets the alarm, at most one second goes by; the  *)
(* alarm lies two seconds or more ahead; the clock is set before anything    *)
(* else.  The calendar counts on in registers whose tens of years exceed 9,  *)
(* as they do from 2000 on.                                                  *)
EXTENDS Integers, FiniteSetsExt

CONSTANTS
    LastDay,        \* bound: the day numbers on which the clock is set
    AlarmDays,      \* and those on which alarms are tried
    Offsets,        \* seconds, minutes or hours an alarm lies ahead
    MaxPasses       \* bound: times the clock is let run

ASSUME ClockAssumption ==
    /\ LastDay \in 0..24836 /\ AlarmDays \subseteq 0..LastDay
    /\ Offsets \subseteq Nat /\ MaxPasses \in Nat

VARIABLES
    time,       \* the seconds since 1970 that the clock should show, UNSET before
    calendar,   \* RTC_TIME and RTC_DATE
    alarm,      \* RTC_ALRM0TD, and the second it was asked for
    setting,    \* what setAlarmTime has read
    rtc,        \* per interrupt: enabled, its flag, callback, and whether the timer runs
    called,     \* history: calls of each callback,
    due,        \* and those it should have got
    passes      \* counter for the bound

clockVars == <<time, calendar, alarm, setting, rtc, called, due, passes>>

UNSET == -1
Modes == {"INT_SECOND_MODE", "INT_ALARM_MODE"}
SECONDS_PER_MINUTE == 60
SECONDS_PER_HOUR == 3600
SECONDS_PER_DAY == 86400
Units == [RTC_ALARM_S |-> 1, RTC_ALARM_M |-> SECONDS_PER_MINUTE, RTC_ALARM_H |-> SECONDS_PER_HOUR]

-----------------------------------------------------------------------------
(* gmtime and its inverse, of the C library and of the calendar itself.      *)

Divides(d, n) == n % d = 0
Gregorian(y) == Divides(4, y) /\ (Divides(100, y) => Divides(400, y))
YearStart(y) == 365 * (y - 1970) + (y - 1969) \div 4 - (y - 1901) \div 100 + (y - 1601) \div 400
Before == <<0, 31, 59, 90, 120, 151, 181, 212, 243, 273, 304, 334, 365>>
MonthStart(y, m) == Before[m] + IF m > 2 /\ Gregorian(y) THEN 1 ELSE 0

GmTime(t) ==
    LET days  == t \div SECONDS_PER_DAY
        guess == 1970 + days \div 366
        year  == Max({y \in guess..(guess + 1) : YearStart(y) <= days})
        left  == days - YearStart(year)
        month == Max({m \in 1..12 : MonthStart(year, m) <= left})
    IN  [year |-> year, month |-> month, day |-> left - MonthStart(year, month) + 1,
         hour |-> (t % SECONDS_PER_DAY) \div 3600, minutes |-> (t \div 60) % 60, seconds |-> t % 60]

SecondsIn(utc) ==
    (YearStart(utc.year) + MonthStart(utc.year, utc.month) + utc.day - 1) * SECONDS_PER_DAY
    + utc.hour * 3600 + utc.minutes * 60 + utc.seconds

-----------------------------------------------------------------------------
(* rtc.c.                                                                    *)

Bcd(n) == (n \div 10) * 16 + (n % 10)
Decimal2(b) == (b \div 16) * 10 + (b % 16)

IsLeapYear(yr) == Divides(400, yr) \/ (~Divides(100, yr) /\ Divides(4, yr))

MonthLength(leap, mon) ==
    IF mon = 2 THEN IF leap THEN 29 ELSE 28
    ELSE IF (IF mon > 7 THEN mon - 1 ELSE mon) % 2 = 1 THEN 31 ELSE 30

\* The days of the years from 1970, and of the months, before this one.
RECURSIVE DaysOfYears(_)
DaysOfYears(year) ==
    IF year = 1970 THEN 0
    ELSE (IF IsLeapYear(year - 1) THEN 366 ELSE 365) + DaysOfYears(year - 1)

RECURSIVE DaysOfMonths(_, _)
DaysOfMonths(leap, mon) ==
    IF mon = 1 THEN 0 ELSE MonthLength(leap, mon - 1) + DaysOfMonths(leap, mon - 1)

MkTimToStamp(utc) ==
    (DaysOfYears(utc.year) + DaysOfMonths(IsLeapYear(utc.year), utc.month) + utc.day - 1)
        * SECONDS_PER_DAY
    + utc.hour * 3600 + utc.minutes * 60 + utc.seconds

\* The registers after rtc_setSecTime.
Registers(t) ==
    LET tm == GmTime(t)
    IN  [year |-> Bcd(tm.year - 1900) % 256, month |-> Bcd(tm.month), day |-> Bcd(tm.day),
         hour |-> Bcd(tm.hour), minutes |-> Bcd(tm.minutes), seconds |-> Bcd(tm.seconds)]

\* rtc_getUTCTime.
GetUTCTime(r) ==
    [year |-> Decimal2(r.year) + 1900, month |-> Decimal2(r.month), day |-> Decimal2(r.day),
     hour |-> Decimal2(r.hour), minutes |-> Decimal2(r.minutes), seconds |-> Decimal2(r.seconds)]

GetSecTime(r) == MkTimToStamp(GetUTCTime(r))

\* rtc_setAlarmTime: month and year are not compared.
AlarmRegister(t) ==
    LET r == Registers(t)
    IN  [day |-> r.day, hour |-> r.hour, minutes |-> r.minutes, seconds |-> r.seconds]

Matches(a, r) == a.day = r.day /\ a.hour = r.hour /\ a.minutes = r.minutes /\ a.seconds = r.seconds

-----------------------------------------------------------------------------
Off == [enabled |-> FALSE, flag |-> FALSE, callback |-> FALSE, runs |-> FALSE]
NoAlarm == [day |-> 0, hour |-> 0, minutes |-> 0, seconds |-> 0]
NotSetting == [until |-> UNSET, asked |-> UNSET, at |-> 0]
NoneCalled == [mode \in Modes |-> 0]

ClockInit ==
    /\ time = UNSET /\ calendar = Registers(0)
    /\ alarm = [at |-> NoAlarm, asked |-> UNSET]
    /\ setting = NotSetting
    /\ rtc = [mode \in Modes |-> Off]
    /\ called = NoneCalled /\ due = NoneCalled
    /\ passes = 0

\* setSecTime, or setUTCTime with the same instant.
SetTime(t, stamp) ==
    /\ time = UNSET
    /\ time' = t /\ calendar' = Registers(stamp)
    /\ UNCHANGED <<alarm, setting, rtc, called, due, passes>>

SetSecTime(t) == SetTime(t, t)
SetUTCTime(t) == SetTime(t, MkTimToStamp(GmTime(t)))

\* Interrupts preempt the sketch.
Served == \A mode \in Modes : ~(rtc[mode].enabled /\ rtc[mode].flag)
OnTrial == time \div SECONDS_PER_DAY \in AlarmDays \union {d + 1 : d \in AlarmDays}
Tries == time # UNSET /\ Served /\ OnTrial

\* setAlarmTime: the clock is read, then the alarm is set.
ReadForAlarm(offset, unit) ==
    /\ Tries /\ setting = NotSetting /\ alarm.asked = UNSET
    /\ offset * Units[unit] >= 2
    /\ setting' = [until |-> GetSecTime(calendar) + offset * Units[unit],
                   asked |-> time + offset * Units[unit], at |-> passes]
    /\ UNCHANGED <<time, calendar, alarm, rtc, called, due, passes>>

SetAlarm ==
    /\ setting # NotSetting /\ setting' = NotSetting
    /\ alarm' = [at |-> AlarmRegister(setting.until), asked |-> setting.asked]
    /\ UNCHANGED <<time, calendar, rtc, called, due, passes>>

AttachKeepsFlag(mode) ==                                        \* mutant
    /\ Tries /\ setting = NotSetting
    /\ rtc' = [rtc EXCEPT ![mode] = [@ EXCEPT !.enabled = TRUE, !.callback = TRUE, !.runs = TRUE]]
    /\ UNCHANGED <<time, calendar, alarm, setting, called, due, passes>>

\* attachInterrupt: what came before is forgotten.
AttachInterrupt(mode) ==
    /\ Tries /\ setting = NotSetting
    /\ rtc' = [rtc EXCEPT ![mode] =
                 [enabled |-> TRUE, flag |-> FALSE, callback |-> TRUE, runs |-> TRUE]]
    /\ UNCHANGED <<time, calendar, alarm, setting, called, due, passes>>

\* detachInterrupt: the wakeup timer and the alarm go on.
DetachInterrupt(mode) ==
    /\ Tries /\ setting = NotSetting
    /\ rtc' = [rtc EXCEPT ![mode] = [@ EXCEPT !.enabled = FALSE, !.callback = FALSE]]
    /\ UNCHANGED <<time, calendar, alarm, setting, called, due, passes>>

-----------------------------------------------------------------------------
\* Seconds go by: one, or all until one before the alarm that was asked for.
Steps ==
    {1} \union IF setting = NotSetting /\ alarm.asked > time + 2 /\ ~rtc["INT_SECOND_MODE"].runs
               THEN {alarm.asked - time - 1} ELSE {}

Pass(n) ==
    LET now  == Registers(SecondsIn(GetUTCTime(calendar)) + n)
        Rises(mode) == /\ rtc[mode].runs
                       /\ mode = "INT_ALARM_MODE" => Matches(alarm.at, now)
        Wanted(mode) == /\ rtc[mode].callback
                        /\ mode = "INT_ALARM_MODE" => alarm.asked = time + n
    IN  /\ time # UNSET /\ Served /\ passes < IF OnTrial THEN MaxPasses ELSE 1
        /\ setting # NotSetting => passes = setting.at
        /\ time' = time + n /\ calendar' = now
        /\ rtc' = [mode \in Modes |-> [rtc[mode] EXCEPT !.flag = @ \/ Rises(mode)]]
        /\ due' = [mode \in Modes |-> IF Wanted(mode) THEN due[mode] + 1 ELSE due[mode]]
        /\ passes' = passes + 1
        /\ UNCHANGED <<alarm, setting, called>>

\* RTC_WKUP_IRQ_Handler and RTC_Alarm_IRQ_Handler, with HWRTC::interruptHandler.
Interrupt(mode) ==
    /\ rtc[mode].enabled /\ rtc[mode].flag
    /\ rtc' = [rtc EXCEPT ![mode].flag = FALSE]
    /\ called' = [called EXCEPT ![mode] = IF rtc[mode].callback THEN @ + 1 ELSE @]
    /\ UNCHANGED <<time, calendar, alarm, setting, due, passes>>

ClockNext ==
    \/ \E day \in IF time = UNSET THEN 0..LastDay ELSE {} :
         LET t == (day + 1) * SECONDS_PER_DAY - 1 IN SetSecTime(t) \/ SetUTCTime(t)
    \/ \E offset \in Offsets, unit \in DOMAIN Units : ReadForAlarm(offset, unit)
    \/ SetAlarm
    \/ \E mode \in Modes : AttachInterrupt(mode) \/ DetachInterrupt(mode) \/ Interrupt(mode)
    \/ \E n \in Steps : Pass(n)

ClockSpec == ClockInit /\ [][ClockNext]_clockVars

-----------------------------------------------------------------------------
(* Properties.                                                               *)

\* The clock shows the second and the date that have come since it was set,
\* over the ends of months, leap days and years (rtc.c:54-136, 259-305).
ClockShowsTime ==
    time # UNSET => GetSecTime(calendar) = time /\ GetUTCTime(calendar) = GmTime(time)

\* An attached callback is called once per second, or once at the second that
\* was asked for, and never for what happened while it was detached
\* (HardwareRTC.cpp:106-207, rtc.c:144-250).
CalledWhenDue == Served => called = due
=============================================================================
