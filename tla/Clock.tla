------------------------------- MODULE Clock --------------------------------
(***************************************************************************)
(* The clock of the kernel (Kernel/c/main/time.c): the counter of ticks    *)
(* with the sleep that waits on it, and the date, which is read from the   *)
(* CMOS clock one register at a time.  Each read of a register enables     *)
(* interrupts again (asm/time.asm), and the CMOS clock never stops, so it  *)
(* may go on to the next second between any two of them.                   *)
(*                                                                         *)
(* ticks only grows: what counts is how many of them a sleeper still has   *)
(* to see, which is what `left' keeps.                                     *)
(***************************************************************************)
EXTENDS Integers, Sequences

CONSTANTS
    Sleeper,   \* processes that sleep
    MaxSleep,  \* bound: the ticks they ask for
    Instants,  \* what the CMOS clock shows at the start
    TimeZones, \* what setTimeZone is called with
    MaxSeconds \* bound: seconds that pass in a behaviour

ASSUME ClockAssumption == MaxSleep \in Nat /\ MaxSeconds \in Nat

VARIABLES
    left,     \* finish - ticks of each sleep, -1 outside of sleep
    rtc,      \* the CMOS clock
    seconds,  \* seconds that have passed
    timezone,
    regs,     \* what a call of getCurrentDateTime has made of the registers it has read
    undisturbed \* history: neither clock nor time zone has changed since that call began

dateVars == <<rtc, seconds, timezone, regs, undisturbed>>
clockVars == <<left, dateVars>>

ClockInit ==
    /\ left = [s \in Sleeper |-> -1]
    /\ rtc \in Instants /\ seconds = 0
    /\ timezone = [hours |-> 0, minutes |-> 0]
    /\ regs = <<>> /\ undisturbed = TRUE
-----------------------------------------------------------------------------
(* ticks and sleep.                                                        *)

\* timer_handler counts a tick, whoever raised int 20h.
Tick == left' = [s \in Sleeper |-> IF left[s] > 0 THEN left[s] - 1 ELSE left[s]]

TimerInterrupt == Tick /\ UNCHANGED dateVars

Sleep(s, n) ==
    /\ left[s] = -1
    /\ left' = [left EXCEPT ![s] = n]
    /\ UNCHANGED dateVars

\* The loop of sleep yields, and yield is an int 20h like the timer's.
Yield(s) ==
    /\ left[s] > 0
    /\ Tick
    /\ UNCHANGED dateVars

WakesUp(s) ==
    /\ left[s] = 0
    /\ left' = [left EXCEPT ![s] = -1]
    /\ UNCHANGED dateVars
-----------------------------------------------------------------------------
(* The date.                                                               *)

isLeapYear(y) == IF y % 400 = 0 THEN TRUE ELSE y % 4 = 0 /\ y % 100 # 0

monthdays(y, m) == IF m = 2 /\ isLeapYear(y) THEN 29
                   ELSE <<31, 28, 31, 30, 31, 30, 31, 31, 30, 31, 30, 31>>[m]

Date(y, m, d) == [year |-> y, month |-> m, day |-> d]

\* Mutant of DayBefore: the month is looked up in the year that has begun.
DayBeforeSameYear(t) ==
    IF t.day > 1 THEN Date(t.year, t.month, t.day - 1)
    ELSE IF t.month = 1 THEN Date(t.year, 12, 31)
    ELSE Date(t.year, t.month - 1, monthdays(t.year, t.month))

DayBefore(t) ==
    IF t.day > 1 THEN Date(t.year, t.month, t.day - 1)
    ELSE IF t.month = 1 THEN Date(t.year - 1, 12, monthdays(t.year - 1, 12))
    ELSE Date(t.year, t.month - 1, monthdays(t.year, t.month - 1))

DayAfter(t) ==
    IF t.day # monthdays(t.year, t.month) THEN Date(t.year, t.month, t.day + 1)
    ELSE IF t.month = 12 THEN Date(t.year + 1, 1, 1)
    ELSE Date(t.year, t.month + 1, 1)

\* What getCurrentDateTime makes of the registers; hours and mins have the time
\* zone's added.
CurrentDateTime(t) ==
    LET h == t.hours + (IF t.mins < 0 THEN -1 ELSE IF t.mins >= 60 THEN 1 ELSE 0)
        date == IF h < 0 THEN DayBefore(t)
                ELSE IF h >= 24 THEN DayAfter(t) ELSE Date(t.year, t.month, t.day)
    IN  [year |-> date.year, month |-> date.month, day |-> date.day,
         hours |-> (h + 24) % 24, mins |-> (t.mins + 60) % 60, secs |-> t.secs]

\* The order in which the registers are read; year and century come together.
ReadOrder == <<"hours", "mins", "day", "month", "year", "secs">>

\* Hours and minutes are moved by the time zone as it is when they are read.
Moved(field) == rtc[field] + CASE field = "hours" -> timezone.hours
                               [] field = "mins" -> timezone.minutes
                               [] OTHER -> 0

GetCurrentDateTime ==
    /\ Len(regs) < Len(ReadOrder)
    /\ regs' = Append(regs, Moved(ReadOrder[Len(regs) + 1]))
    /\ undisturbed' = (undisturbed \/ regs = <<>>)
    /\ UNCHANGED <<rtc, seconds, timezone, left>>

\* By any process, since a read of a register lets the timer interrupt.
SetTimeZone(tz) ==
    /\ timezone' = tz
    /\ undisturbed' = FALSE
    /\ UNCHANGED <<rtc, seconds, regs, left>>

Answered == Len(regs) = Len(ReadOrder)
Answer == CurrentDateTime([field \in {ReadOrder[i] : i \in 1 .. Len(ReadOrder)} |->
                regs[CHOOSE i \in 1 .. Len(ReadOrder) : ReadOrder[i] = field]])

CallsAgain == /\ Answered
              /\ regs' = <<>>
              /\ UNCHANGED <<rtc, seconds, timezone, undisturbed, left>>

\* The clock chip: the next second of the calendar.
NextSecond(t) ==
    IF t.secs < 59 THEN [t EXCEPT !.secs = @ + 1]
    ELSE IF t.mins < 59 THEN [t EXCEPT !.secs = 0, !.mins = @ + 1]
    ELSE IF t.hours < 23 THEN [t EXCEPT !.secs = 0, !.mins = 0, !.hours = @ + 1]
    ELSE LET d == DayAfter(t) IN
         [year |-> d.year, month |-> d.month, day |-> d.day, hours |-> 0, mins |-> 0, secs |-> 0]

SecondPasses ==
    /\ seconds < MaxSeconds
    /\ rtc' = NextSecond(rtc)
    /\ seconds' = seconds + 1
    /\ undisturbed' = FALSE
    /\ UNCHANGED <<timezone, regs, left>>

DateNext == \/ GetCurrentDateTime \/ CallsAgain \/ SecondPasses
            \/ \E tz \in TimeZones : SetTimeZone(tz)

SleepNext == \/ TimerInterrupt
             \/ \E s \in Sleeper : \/ \E n \in 0 .. MaxSleep : Sleep(s, n)
                                   \/ Yield(s) \/ WakesUp(s)
-----------------------------------------------------------------------------
\* Seconds from the start of the calendar, by the rule of the Gregorian year
\* and without a table of months.
DayNumber(t) ==
    LET y == t.year - 1 IN
    365 * y + y \div 4 - y \div 100 + y \div 400 + (367 * t.month - 362) \div 12
    + (IF t.month <= 2 THEN 0 ELSE IF isLeapYear(t.year) THEN -1 ELSE -2) + t.day
Offset(tz) == (tz.hours * 60 + tz.minutes) * 60

\* Seconds from the midnight that begins the day of `from'.
SecondsSince(from, t) ==
    (((DayNumber(t) - DayNumber(from)) * 24 + t.hours) * 60 + t.mins) * 60 + t.secs

IsDate(t) == /\ t.month \in 1 .. 12 /\ t.day \in 1 .. monthdays(t.year, t.month)
             /\ t.hours \in 0 .. 23 /\ t.mins \in 0 .. 59

\* The date that getCurrentDateTime returns is the CMOS clock's moved by the
\* time zone, across midnight, the end of a month and the end of a year, when
\* no second passed and nobody set the time zone while it read the registers.
DateExact == Answered /\ undisturbed =>
    /\ IsDate(Answer)
    /\ SecondsSince(rtc, Answer) = SecondsSince(rtc, rtc) + Offset(timezone)
=============================================================================
