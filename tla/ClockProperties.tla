--------------------------- MODULE ClockProperties ---------------------------
(* What the time commands and the alarm promise, and an instance for TLC: a *)
(* day of 3 hours of 2 minutes of 4 seconds, where every carry happens.      *)
(* Two decimal digits occur in the dates.                                   *)
EXTENDS Clock

(* The reference for dates: the Gregorian calendar. *)
RealDate(d, m, y) ==
  LET leap == y % 4 = 0 /\ (y % 100 # 0 \/ y % 400 = 0)
  IN  d \in 1..(IF m \in {4, 6, 9, 11} THEN 30
                ELSE IF m = 2 THEN (IF leap THEN 29 ELSE 28) ELSE 31)

(* The registers always hold two decimal digits in the range of the unit,    *)
(* whatever was typed (decimalToBCD, the range checks of the prompts).       *)
ClockTypeOK ==
  /\ DOMAIN rtc = Register
  /\ \A r \in Register : rtc[r] \in 0..255 /\ rtc[r] % 16 <= 9
  /\ [r \in TimeRegister |-> Now[r]] \in TimeOfDay
  /\ Now.month \in 1..12 /\ Now.day \in 1..31 /\ Now.year \in 0..99
  /\ alarm \in {"none", "waiting", "rung"} /\ target \in Nat
  /\ job.kind \in Reads \cup Writes \cup {"none"}
  /\ ticked \in BOOLEAN /\ polled \in BOOLEAN /\ spoilt \in BOOLEAN
  /\ midnights \in 0..MaxMidnights /\ sets \in 0..MaxSets

(* Midnight came since the job began. *)
NewDay == Seconds(Now) < Seconds(began)

(* The time alarmProcess or getTime puts together from its three accesses is *)
(* never before the time at which they began, midnight apart: seconds,       *)
(* minutes, hours in this order can only be ahead.  So a torn read cannot    *)
(* make the alarm miss its time.                                             *)
PollNotBehind ==
  (Finished("poll") \/ Finished("gettime")) /\ ~NewDay =>
     Seconds(job.vals) >= Seconds(began)

DayNumber(c) == (c.year * 12 + c.month) * 31 + c.day

(* The date getDate prints, read year first, is never one still to come,     *)
(* unless the century ends.                                                  *)
DateNotAhead ==
  Finished("getdate") /\ DayNumber(began) <= DayNumber(Now) =>
     DayNumber(job.vals) <= DayNumber(Now)

(* Between the commands the chip holds a day the calendar has (setDateCommand *)
(* checks month, year and day together), unless midnight fell into a setDate. *)
DatesReal ==
  job.kind # "setdate" /\ ~spoilt => RealDate(Now.day, Now.month, 2000 + Now.year)

(* A setTime in which no second passes leaves the time that was typed; with  *)
(* a second passing in between the clock may fall behind it, but is never    *)
(* more than a second ahead.                                                 *)
SetTakes ==
  Finished("settime") =>
     /\ ~ticked => \A r \in TimeRegister : Now[r] = job.typed[r]
     /\ Seconds(Now) <= Seconds(job.typed) + 1

(* The alarm rings before its time only when a second passed while it read,  *)
(* and then by less than an hour (or midnight followed the last access).     *)
EarlyOnlyWhenTorn ==
  [][alarm = "waiting" /\ alarm' = "rung" /\ Seconds(Now) < target =>
       /\ ticked
       /\ NewDay \/ Seconds(Now) + MinutesPerHour * SecondsPerMinute > target]_vars

(* An alarm that was set rings (alarmProcess leaves its loop), whatever the  *)
(* user does to the clock in the meantime.                                   *)
AlarmRings == alarm = "waiting" ~> alarm = "rung"

-----------------------------------------------------------------------------
TypedLines == {<<>>, <<2, 9>>, <<2, 5, 8>>, <<1, 10>>}

At(h, m, s) == [hour |-> h, min |-> m, sec |-> s]
On(d, m, y) == [day |-> d, month |-> m, year |-> y]
Starts == {At(0, 1, 2)}
Days   == {On(28, 2, 24), On(31, 12, 99)}
=============================================================================
