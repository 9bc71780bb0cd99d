------------------------------- MODULE CmosClock -------------------------------
(***************************************************************************)
(* The CMOS clock (src/devices/legacy.rs).  Every register is computed on  *)
(* its own from the host's UTC time when it is read, so a date read        *)
(* register by register may straddle a tick.  The guest does what the code *)
(* relies on Linux to do: it reads the seconds, the other registers and    *)
(* the seconds again, and starts over when they differ.                    *)
(***************************************************************************)
EXTENDS Integers, FiniteSets, Sequences

CONSTANTS
    Days,           \* days since 1970-01-01 the guest may read the clock in
    Window          \* bound: seconds on each side of midnight (under a minute)

CmosAssumption == Days \subseteq Nat /\ Window \in 1 .. 29

VARIABLES
    index,          \* Inner.cmos_index: the register selected, or none yet
    clock,          \* the host's UTC time: the day and the second of the day
    begun,          \* history: the time when the guest started this reading
    read,           \* the values the guest has read, in Order
    date            \* the reading the guest kept, or <<>>

vars == <<index, clock, begun, read, date>>

Order == <<"seconds", "minutes", "hours", "weekday", "day", "month", "year",
           "century", "seconds">>
Time == [day : Nat, sec : 0 .. 86399]

TypeOK ==
    /\ index \in {Order[i] : i \in 1 .. Len(Order)} \cup {"none"}
    /\ clock \in Time /\ begun \in Time
    /\ read \in Seq(0 .. 255) /\ Len(read) <= Len(Order)
    /\ date \in Seq(0 .. 255) /\ Len(date) \in {0, Len(Order)}

\* Faulty: no correction for the 400-year cycle's last day.
CivilJulian(days) ==
    LET z     == days + 719468
        doe   == z % 146097
        yoe   == (doe - doe \div 1460) \div 365
        doy   == doe - (365 * yoe + yoe \div 4)
        mp    == (5 * doy + 2) \div 153
        month == IF mp < 10 THEN mp + 3 ELSE mp - 9
    IN  [year  |-> (z \div 146097) * 400 + yoe + (IF month <= 2 THEN 1 ELSE 0),
         month |-> month,
         day   |-> doy - ((153 * mp + 2) \div 5) + 1]

(* civil_from_days: a count of days to a proleptic Gregorian date.           *)
CivilFromDays(days) ==
    LET z     == days + 719468
        era   == z \div 146097
        doe   == z % 146097
        yoe   == (doe - (doe \div 1460) + (doe \div 36524) - (doe \div 146096)) \div 365
        doy   == doe - (365 * yoe + (yoe \div 4) - (yoe \div 100))
        mp    == (5 * doy + 2) \div 153
        month == IF mp < 10 THEN mp + 3 ELSE mp - 9
    IN  [year  |-> era * 400 + yoe + (IF month <= 2 THEN 1 ELSE 0),
         month |-> month,
         day   |-> doy - ((153 * mp + 2) \div 5) + 1]

(* bcd(): two decimal digits in a byte.                                      *)
Bcd(v) == 16 * (v \div 10) + (v % 10)

(* cmos_register: the register as BCD, 24 hours, Sunday the first weekday.   *)
CmosRegister(reg, t) ==
    LET c == CivilFromDays(t.day)
    IN  Bcd(CASE reg = "seconds" -> t.sec % 60
              [] reg = "minutes" -> (t.sec \div 60) % 60
              [] reg = "hours"   -> t.sec \div 3600
              [] reg = "weekday" -> ((t.day + 4) % 7) + 1
              [] reg = "day"     -> c.day
              [] reg = "month"   -> c.month
              [] reg = "year"    -> c.year % 100
              [] reg = "century" -> c.year \div 100)

Init ==
    /\ index = "none" /\ read = <<>> /\ date = <<>>
    /\ clock \in [day : Days, sec : {86400 - Window}]
    /\ begun = clock

(* cmos_index, a write: the guest selects the register it reads next.        *)
CmosIndex ==
    /\ index = "none" /\ date = <<>>
    /\ index' = Order[Len(read) + 1]
    /\ begun' = IF read = <<>> THEN clock ELSE begun
    /\ UNCHANGED <<clock, read, date>>

\* Faulty: the date is kept without reading the seconds again.
CmosDataOnce ==
    LET all == Append(read, CmosRegister(index, clock))
    IN  /\ index # "none"
        /\ index' = "none"
        /\ read' = IF Len(all) = Len(Order) THEN <<>> ELSE all
        /\ date' = IF Len(all) = Len(Order) THEN all ELSE date
        /\ UNCHANGED <<clock, begun>>

(* cmos_data, a read.  After the last register the guest keeps the date if   *)
(* the seconds are still the first ones, and starts over if not.             *)
CmosData ==
    LET all == Append(read, CmosRegister(index, clock))
        last == Len(all) = Len(Order)
    IN  /\ index # "none"
        /\ index' = "none"
        /\ read' = IF last THEN <<>> ELSE all
        /\ date' = IF last /\ all[1] = all[Len(Order)] THEN all ELSE date
        /\ UNCHANGED <<clock, begun>>

(* The host's clock, around one midnight.                                    *)
Second ==
    /\ clock.sec >= 86400 - Window \/ clock.sec < Window
    /\ clock' = IF clock.sec = 86399 THEN [day |-> clock.day + 1, sec |-> 0]
                                     ELSE [clock EXCEPT !.sec = @ + 1]
    /\ UNCHANGED <<index, begun, read, date>>

Next == CmosIndex \/ CmosData \/ Second

Spec == Init /\ [][Next]_vars

-----------------------------------------------------------------------------
(* The calendar itself, from its rule: the day number of a date.             *)
Leap(y) == y % 4 = 0 /\ (y % 100 # 0 \/ y % 400 = 0)

MonthDays(y, m) ==
    CASE m = 2 -> IF Leap(y) THEN 29 ELSE 28
      [] m \in {4, 6, 9, 11} -> 30
      [] OTHER -> 31

DaysBeforeMonth(y, m) ==
    LET sum[k \in 1 .. 12] == IF k = 1 THEN 0 ELSE sum[k - 1] + MonthDays(y, k - 1)
    IN  sum[m]

DayNumber(y, m, d) ==
    365 * (y - 1970) + Cardinality({k \in 1970 .. y - 1 : Leap(k)})
        + DaysBeforeMonth(y, m) + d - 1

UnBcd(b) == 10 * (b \div 16) + (b % 16)

(* A date the guest keeps is a moment of its reading: the registers, read    *)
(* one by one while the host's clock runs, across a midnight, a month's end, *)
(* a leap day or a century included, are those of one time between the first *)
(* read and the last, by the calendar's own rule and not only by             *)
(* civil_from_days.  The weekday is that day's: 1970-01-01 was a Thursday.   *)
DateIsAMoment ==
    date # <<>> =>
        LET v == [i \in 1 .. Len(Order) |-> UnBcd(date[i])]
            year == 100 * v[8] + v[7]
            day == DayNumber(year, v[6], v[5])
            sec == 3600 * v[3] + 60 * v[2] + v[1]
        IN  /\ v[6] \in 1 .. 12 /\ v[5] \in 1 .. MonthDays(year, v[6])
            /\ v[4] = ((day + 4) % 7) + 1
            /\ day > begun.day \/ (day = begun.day /\ sec >= begun.sec)
            /\ day < clock.day \/ (day = clock.day /\ sec <= clock.sec)
=============================================================================
