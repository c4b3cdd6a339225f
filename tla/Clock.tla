-------------------------------- MODULE Clock --------------------------------
(* The real-time clock as MPX uses it: getTime, setTime, getDate, setDate   *)
(* and the polling loop of alarmProcess (kernel/time.c), and what the       *)
(* prompts of the command handler let through to them (kernel/comhand.c).   *)
(*                                                                          *)
(* Time and date are three accesses each, and the chip runs on between      *)
(* them: cli keeps interrupts out, not the clock.  No process is preempted, *)
(* so one group of three accesses never overlaps another: job is the one in *)
(* progress.                                                                *)
EXTENDS Integers, Sequences, SequencesExt

CONSTANTS
  SecondsPerMinute, MinutesPerHour, HoursPerDay,  \* 60, 60 and 24
  IntWidth,     \* how many values an int has, 2^32
  Lines,        \* the lines the user may type, as sequences of characters
  StartTimes,   \* the times of day it may be at first
  StartDates,   \* and the dates
  MaxMidnights, \* bound: midnights in a behaviour
  MaxSets       \* bound: how often time and date are set

Char == 0..10    \* a digit, or 10 for anything else

TimeOfDay == [hour : 0..(HoursPerDay - 1), min : 0..(MinutesPerHour - 1),
              sec : 0..(SecondsPerMinute - 1)]
Seconds(t) == (t.hour * MinutesPerHour + t.min) * SecondsPerMinute + t.sec

(* month_info. *)
LastDay == <<31, 28, 31, 30, 31, 30, 31, 31, 30, 31, 30, 31>>

(* Mutant: the leap day is not tied to February. *)
DayAccepted_LongMonth(d, m, y) == d >= 1 /\ (d <= LastDay[m] \/ (m = 2 /\ d <= 29))
(* What setDateCommand asks of a day, once it has month and year. *)
DayAccepted(d, m, y) == d >= 1 /\ (d <= LastDay[m] \/ (m = 2 /\ y % 4 = 0 /\ d <= 29))

Date == {x \in [year : 0..99, month : 1..12, day : 1..31] :
           DayAccepted(x.day, x.month, x.year)}

ASSUME ClockAssumption ==
  /\ SecondsPerMinute \in 1..60 /\ MinutesPerHour \in 1..60 /\ HoursPerDay \in 1..24
  /\ IntWidth \in Nat \ {0} /\ Lines \subseteq Seq(Char)
  /\ StartTimes \subseteq TimeOfDay /\ StartDates \subseteq Date
  /\ MaxMidnights \in Nat /\ MaxSets \in Nat

TimeRegister == {"sec", "min", "hour"}
DateRegister == {"year", "month", "day"}
Register     == TimeRegister \cup DateRegister

VARIABLES
  rtc,        \* the registers of the chip, BCD bytes
  alarm,      \* alarmProcess: "none", "waiting" in its loop, "rung"
  target,     \* its timeToMatch
  job,        \* the group of accesses in progress
  ticked,     \* the clock has moved on since job began
  began,      \* what the registers said when job began
  polled,     \* the alarm has read this second without a tick in between
  spoilt,     \* midnight fell into a setDate
  midnights, sets

vars == <<rtc, alarm, target, job, ticked, began, polled, spoilt, midnights, sets>>
-----------------------------------------------------------------------------
(* Mutant: the number is stored in binary. *)
decimalToBCD_Binary(i) == i % 256
decimalToBCD(i) == ((i \div 10) * 16 + (i % 10)) % 256
BCDtoDecimal(b) == (b % 16) + (b \div 16) * 10

(* The chip counts in BCD; its calendar is that of the years 2000 to 2099. *)
Bcd(i) == (i \div 10) * 16 + (i % 10)
Dec(b) == (b \div 16) * 10 + (b % 16)
Now    == [r \in Register |-> Dec(rtc[r])]

DaysIn(m, y) == IF m = 2 /\ y % 4 = 0 THEN 29 ELSE LastDay[m]

NextSecond(c) ==
  LET minute == c.sec + 1 = SecondsPerMinute
      hour   == minute /\ c.min + 1 = MinutesPerHour
      day    == hour /\ c.hour + 1 = HoursPerDay
      month  == day /\ c.day >= DaysIn(c.month, c.year)
      year   == month /\ c.month = 12
      Step(from, up, wraps, least) == IF wraps THEN least ELSE IF up THEN from + 1 ELSE from
  IN  [sec   |-> Step(c.sec, TRUE, minute, 0),
       min   |-> Step(c.min, minute, hour, 0),
       hour  |-> Step(c.hour, hour, day, 0),
       day   |-> Step(c.day, day, month, 1),
       month |-> Step(c.month, month, year, 1),
       year  |-> Step(c.year, year, year /\ c.year = 99, 0)]

Midnight(c) == Seconds(c) = 0

(* What intParsable lets through (the empty line too), and atoi of it: the   *)
(* digits, in an int that wraps around.                                      *)
intParsable(line) == \A k \in DOMAIN line : line[k] \in 0..9
atoi(line) ==
  LET n == FoldLeft(LAMBDA res, c : (res * 10 + c) % IntWidth, 0, line)
  IN  IF 2 * n >= IntWidth THEN n - IntWidth ELSE n

(* A prompt is repeated until the line gives a number in its range. *)
Prompt(least, limit) ==
  {n \in least..(limit - 1) : \E l \in Lines : intParsable(l) /\ atoi(l) = n}

TypedTime == [hour : Prompt(0, HoursPerDay), min : Prompt(0, MinutesPerHour),
              sec : Prompt(0, SecondsPerMinute)]
TypedDate == {x \in [month : Prompt(1, 13), year : Prompt(0, 100), day : Prompt(1, 32)] :
                DayAccepted(x.day, x.month, x.year)}
-----------------------------------------------------------------------------
Blank == [r \in Register |-> 0]
(* x, with 0 in the registers it leaves out. *)
Filled(x) == [r \in Register |-> IF r \in DOMAIN x THEN x[r] ELSE 0]
NoJob == [kind |-> "none", regs |-> <<>>, vals |-> Blank, typed |-> Blank]

Init ==
  /\ \E t \in StartTimes, x \in StartDates :
       rtc = [r \in Register |-> Bcd(IF r \in TimeRegister THEN t[r] ELSE x[r])]
  /\ alarm = "none" /\ target = 0
  /\ job = NoJob /\ ticked = FALSE /\ began = Blank
  /\ polled = FALSE /\ spoilt = FALSE
  /\ midnights = 0 /\ sets = 0

(* A second passes.  An access takes microseconds, so no two seconds pass in *)
(* one job, and a waiting alarm gets to read in every second.                *)
Tick ==
  /\ job # NoJob => ~ticked
  /\ alarm = "waiting" => polled
  /\ LET next == NextSecond(Now)
     IN  /\ rtc' = [r \in Register |-> Bcd(next[r])]
         /\ midnights' = IF Midnight(next) THEN midnights + 1 ELSE midnights
         /\ midnights' <= MaxMidnights
  /\ ticked' = (job # NoJob)
  /\ polled' = FALSE
  /\ UNCHANGED <<alarm, target, job, began, spoilt, sets>>

(* The order in which the registers are accessed.  Mutants: the other way    *)
(* round.                                                                    *)
TimeOrder_HourFirst == <<"hour", "min", "sec">>
TimeOrder == <<"sec", "min", "hour">>
DateOrder_DayFirst == <<"day", "month", "year">>
DateOrder == <<"year", "month", "day">>

Begin(kind, regs, vals, typed) ==
  /\ job = NoJob
  /\ job' = [kind |-> kind, regs |-> regs, vals |-> vals, typed |-> typed]
  /\ began' = Now /\ ticked' = FALSE
  /\ UNCHANGED <<rtc, polled, spoilt, midnights>>

Reads  == {"poll", "gettime", "getdate"}
Writes == {"settime", "setdate"}

(* One access: the index to port 0x70, the byte from or to port 0x71. *)
Access ==
  /\ job.regs # <<>>
  /\ LET r == Head(job.regs)
     IN  \/ /\ job.kind \in Reads
            /\ job' = [job EXCEPT !.regs = Tail(@), !.vals[r] = BCDtoDecimal(rtc[r])]
            /\ UNCHANGED rtc
         \/ /\ job.kind \in Writes
            /\ job' = [job EXCEPT !.regs = Tail(@)]
            /\ rtc' = [rtc EXCEPT ![r] = decimalToBCD(job.vals[r])]
  /\ UNCHANGED <<alarm, target, ticked, began, polled, spoilt, midnights, sets>>

Finished(kind) == job.kind = kind /\ job.regs = <<>>
End == job' = NoJob /\ began' = Blank /\ ticked' = FALSE /\ UNCHANGED <<rtc, midnights, sets>>

(* getTime and getDate print what they have read, setTime returns. *)
Return ==
  /\ Finished("gettime") \/ Finished("getdate") \/ Finished("settime")
  /\ End /\ UNCHANGED <<alarm, target, polled, spoilt>>

SetDateReturn ==
  /\ Finished("setdate")
  /\ spoilt' = (spoilt \/ (ticked /\ Midnight(Now)))
  /\ End /\ UNCHANGED <<alarm, target, polled>>

(* The parameters of setTime.  Mutant: in the order of its declaration in    *)
(* time.h, which the definition does not keep.                               *)
SetTimeArgs_AsDeclared(h, m, s) == [Blank EXCEPT !.sec = h, !.min = m, !.hour = s]
SetTimeArgs(h, m, s) == [Blank EXCEPT !.hour = h, !.min = m, !.sec = s]

(* Accesses that only read. *)
Query(kind, regs) == Begin(kind, regs, Blank, Blank) /\ UNCHANGED <<alarm, target, sets>>

GetTime == Query("gettime", TimeOrder)
GetDate == Query("getdate", DateOrder)

SetTime ==
  /\ sets < MaxSets /\ sets' = sets + 1
  /\ \E t \in TypedTime :
       Begin("settime", TimeOrder, SetTimeArgs(t.hour, t.min, t.sec), Filled(t))
  /\ UNCHANGED <<alarm, target>>

SetDate ==
  /\ sets < MaxSets /\ sets' = sets + 1
  /\ \E x \in TypedDate : Begin("setdate", DateOrder, Filled(x), Filled(x))
  /\ UNCHANGED <<alarm, target>>

(* alarmCommand; whether the process can be created is in Kernel. *)
SetAlarm ==
  /\ job = NoJob /\ alarm = "none"
  /\ \E t \in TypedTime : target' = Seconds(t)
  /\ alarm' = "waiting"
  /\ UNCHANGED <<rtc, job, ticked, began, polled, spoilt, midnights, sets>>

Poll == alarm = "waiting" /\ Query("poll", TimeOrder)

(* Mutants: an hour counts as a minute; only minutes and seconds count. *)
Early_Hours(v) == (v.hour + v.min) * SecondsPerMinute + v.sec < target
Early_NoHours(v) ==
  v.min * SecondsPerMinute + v.sec < target % (MinutesPerHour * SecondsPerMinute)
(* The condition of the loop of alarmProcess. *)
Early(v) == Seconds(v) < target

(* idle() and once more round the loop, or out of it to the message. *)
PollAgain ==
  /\ Finished("poll") /\ Early(job.vals)
  /\ polled' = (polled \/ ~ticked)
  /\ End /\ UNCHANGED <<alarm, target, spoilt>>

Ring ==
  /\ Finished("poll") /\ ~Early(job.vals)
  /\ alarm' = "rung" /\ polled' = FALSE
  /\ End /\ UNCHANGED <<target, spoilt>>

Next ==
  \/ Tick \/ Access \/ Return \/ SetDateReturn
  \/ GetTime \/ GetDate \/ SetTime \/ SetDate \/ SetAlarm
  \/ Poll \/ PollAgain \/ Ring

Spec == Init /\ [][Next]_vars

(* Time passes, code goes on, and the alarm process gets its turns among the *)
(* others (Kernel: it is READY with priority 0, and equals take turns).      *)
Fairness ==
  /\ WF_vars(Tick)
  /\ WF_vars(Access) /\ WF_vars(Return) /\ WF_vars(SetDateReturn)
  /\ SF_vars(Poll) /\ WF_vars(PollAgain) /\ WF_vars(Ring)

FairSpec == Spec /\ Fairness
=============================================================================
