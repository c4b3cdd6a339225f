----------------------------- MODULE ClockProofs -----------------------------
(* For any units and any lines typed: what is read from the running clock in *)
(* three accesses, and what is written to it, are off by no more than the    *)
(* second that may pass in between explains.  The inductive invariant says   *)
(* how far a group of accesses has come, before that second and after it.    *)
EXTENDS ClockProperties, TLAPS

(* The units of a reading of the clock are in their ranges. *)
TimeInRange(c) == /\ c.hour \in 0..(HoursPerDay - 1) /\ c.min \in 0..(MinutesPerHour - 1)
                  /\ c.sec \in 0..(SecondsPerMinute - 1)
DateInRange(c) == c.year \in 0..99 /\ c.month \in 1..12 /\ c.day \in 1..31
InRange(c)     == TimeInRange(c) /\ DateInRange(c)
SameTime(c, d) == c.hour = d.hour /\ c.min = d.min /\ c.sec = d.sec
SameDate(c, d) == c.year = d.year /\ c.month = d.month /\ c.day = d.day

(* The registers hold BCD, a job its parts. *)
Values == [Register -> Nat]
Jobs  == [kind : Reads \cup Writes, regs : Seq(Register), vals : Values, typed : Values]
ClockTyped ==
  /\ rtc = [r \in Register |-> Bcd(Now[r])] /\ InRange(Now)
  /\ job = NoJob \/ (job \in Jobs /\ InRange(began))
  /\ alarm \in {"none", "waiting", "rung"} /\ target \in Nat
  /\ ticked \in BOOLEAN /\ polled \in BOOLEAN /\ spoilt \in BOOLEAN
  /\ midnights \in 0..MaxMidnights /\ sets \in 0..MaxSets

(* The registers a, b and d are read in this order: the first ones have been *)
(* read before a tick, the others after it.                                  *)
Old(r)   == job.vals[r] = began[r]
Fresh(r) == job.vals[r] = Now[r]
ReadInOrder(a, b, d) ==
  \/ job.regs = <<a, b, d>>
  \/ job.regs = <<b, d>> /\ (Old(a) \/ Fresh(a))
  \/ job.regs = <<d>> /\ \/ Old(a) /\ (Old(b) \/ Fresh(b))
                         \/ Fresh(a) /\ Fresh(b)
  \/ job.regs = <<>> /\ \/ Old(a) /\ Old(b) /\ (Old(d) \/ Fresh(d))
                        \/ Old(a) /\ Fresh(b) /\ Fresh(d)
                        \/ Fresh(a) /\ Fresh(b) /\ Fresh(d)

ReadsInOrder ==
  /\ job.kind \in {"poll", "gettime"} => ReadInOrder("sec", "min", "hour")
  /\ job.kind = "getdate" => ReadInOrder("year", "month", "day")
  /\ job.kind \in Reads =>
       IF ticked THEN SameTime(Now, NextSecond(began)) /\ SameDate(Now, NextSecond(began))
       ELSE SameTime(Now, began) /\ SameDate(Now, began)

(* setTime: what is written is what was typed, and the clock, if it ticks,   *)
(* gets at most a second ahead of that part.                                 *)
TimeWritten ==
  \/ job.regs = <<"sec", "min", "hour">>
  \/ job.regs = <<"min", "hour">> /\ Now.sec = job.typed.sec
  \/ job.regs = <<"hour">> /\ Now.sec = job.typed.sec /\ Now.min = job.typed.min
  \/ job.regs = <<>> /\ SameTime(Now, job.typed)
TimeAhead ==
  \/ job.regs = <<"sec", "min", "hour">>
  \/ job.regs = <<"min", "hour">> /\ Now.sec <= job.typed.sec + 1
  \/ /\ job.regs = <<"hour">>
     /\ Now.min * SecondsPerMinute + Now.sec
           <= job.typed.min * SecondsPerMinute + job.typed.sec + 1
  \/ job.regs = <<>> /\ Seconds(Now) <= Seconds(job.typed) + 1
SetsTime ==
  job.kind = "settime" =>
    /\ SameTime(job.vals, job.typed) /\ TimeInRange(job.typed)
    /\ IF ticked THEN TimeAhead ELSE TimeWritten

(* setDate: what is written stays, unless midnight falls into it. *)
DateWritten ==
  \/ job.regs = <<"year", "month", "day">>
  \/ job.regs = <<"month", "day">> /\ Now.year = job.vals.year
  \/ job.regs = <<"day">> /\ Now.year = job.vals.year /\ Now.month = job.vals.month
  \/ job.regs = <<>> /\ SameDate(Now, job.vals)
SetsDate ==
  job.kind = "setdate" =>
    /\ DateInRange(job.vals) /\ DayAccepted(job.vals.day, job.vals.month, job.vals.year)
    /\ job.regs \in {<<"year", "month", "day">>, <<"month", "day">>, <<"day">>, <<>>}
    /\ (ticked /\ Midnight(Now)) \/ DateWritten

ClockInv == ClockTyped /\ ReadsInOrder /\ SetsTime /\ SetsDate /\ DatesReal

-----------------------------------------------------------------------------
LEMMA Units ==
  /\ SecondsPerMinute \in 1..60 /\ MinutesPerHour \in 1..60 /\ HoursPerDay \in 1..24
BY ClockAssumption

(* Two decimal digits in BCD and back. *)
LEMMA BcdDigits ==
  ASSUME NEW i \in 0..99
  PROVE  /\ Dec(Bcd(i)) = i /\ decimalToBCD(i) = Bcd(i) /\ BCDtoDecimal(Bcd(i)) = i
         /\ Bcd(i) \in 0..255 /\ Bcd(i) % 16 <= 9
BY DEF Dec, Bcd, decimalToBCD, BCDtoDecimal

LEMMA InRangeDigits ==
  ASSUME NEW c, InRange(c)
  PROVE  \A r \in Register : c[r] \in 0..99
<1>1. c.sec \in 0..99 /\ c.min \in 0..99 /\ c.hour \in 0..99
  BY Units DEF InRange, TimeInRange
<1>2. c.year \in 0..99 /\ c.month \in 0..99 /\ c.day \in 0..99
  BY DEF InRange, DateInRange
<1> QED BY <1>1, <1>2 DEF Register, TimeRegister, DateRegister

(* What registers that hold c say. *)
LEMMA Reading ==
  ASSUME NEW c, InRange(c), rtc = [r \in Register |-> Bcd(c[r])]
  PROVE  /\ \A r \in Register : Now[r] = c[r]
         /\ SameTime(Now, c) /\ SameDate(Now, c)
         /\ InRange(Now) /\ rtc = [r \in Register |-> Bcd(Now[r])]
<1>1. \A r \in Register : rtc[r] = Bcd(c[r]) /\ c[r] \in 0..99
  BY InRangeDigits
<1>2. \A r \in Register : Now[r] = c[r]
  BY <1>1, BcdDigits DEF Now
<1>3. SameTime(Now, c) /\ SameDate(Now, c)
  BY <1>2 DEF SameTime, SameDate, Register, TimeRegister, DateRegister
<1>4. InRange(Now)
  BY <1>3 DEF InRange, TimeInRange, DateInRange, SameTime, SameDate
<1> QED BY <1>2, <1>3, <1>4

(* The same after a step; the value of c is the same before and after it. *)
LEMMA ReadingNext ==
  ASSUME NEW CONSTANT c, InRange(c), rtc' = [r \in Register |-> Bcd(c[r])]
  PROVE  /\ \A r \in Register : Now'[r] = c[r]
         /\ SameTime(Now', c) /\ SameDate(Now', c)
         /\ InRange(Now') /\ (rtc = [r \in Register |-> Bcd(Now[r])])'
<1>1. \A r \in Register : rtc'[r] = Bcd(c[r]) /\ c[r] \in 0..99
  BY InRangeDigits
<1>2. \A r \in Register : Now'[r] = c[r]
  BY <1>1, BcdDigits DEF Now
<1>3. SameTime(Now', c) /\ SameDate(Now', c)
  BY <1>2 DEF SameTime, SameDate, Register, TimeRegister, DateRegister
<1>4. InRange(Now')
  BY <1>3 DEF InRange, TimeInRange, DateInRange, SameTime, SameDate
<1> QED BY <1>2, <1>3, <1>4

(* A second later. *)
LEMMA NextInRange ==
  ASSUME NEW c, InRange(c)
  PROVE  InRange(NextSecond(c))
<1>1. TimeInRange(NextSecond(c))
  BY Units DEF InRange, TimeInRange, NextSecond
<1>2. DateInRange(NextSecond(c))
  <2>1. DaysIn(c.month, c.year) \in 1..31
    BY DEF InRange, DateInRange, DaysIn, LastDay
  <2> QED BY <2>1 DEF InRange, DateInRange, NextSecond
<1> QED BY <1>1, <1>2 DEF InRange

-----------------------------------------------------------------------------
(* The days setDateCommand accepts are those of the calendar, and the chip   *)
(* goes from one of them to the next.                                        *)
LEMMA LeapYear ==
  ASSUME NEW y \in 0..99
  PROVE  LET z == 2000 + y
         IN  (z % 4 = 0 /\ (z % 100 # 0 \/ z % 400 = 0)) <=> y % 4 = 0
OBVIOUS

LEMMA DaysOfMonth ==
  ASSUME NEW y \in 0..99, NEW m \in 1..12
  PROVE  /\ DaysIn(m, y) \in 28..31
         /\ DaysIn(m, y) = IF m \in {4, 6, 9, 11} THEN 30
                           ELSE IF m = 2 THEN (IF y % 4 = 0 THEN 29 ELSE 28) ELSE 31
<1>1. DaysIn(m, y) = IF m \in {4, 6, 9, 11} THEN 30
                     ELSE IF m = 2 THEN (IF y % 4 = 0 THEN 29 ELSE 28) ELSE 31
  BY DEF DaysIn, LastDay
<1> QED BY <1>1

(* A date of the chip is in the calendar. *)
Real(d, m, y) == RealDate(d, m, 2000 + y)

LEMMA CalendarDays ==
  ASSUME NEW y \in 0..99, NEW m \in 1..12, NEW d \in Int
  PROVE  Real(d, m, y) <=> d \in 1..DaysIn(m, y)
<1> DEFINE z == 2000 + y
           leap == z % 4 = 0 /\ (z % 100 # 0 \/ z % 400 = 0)
           last == IF m \in {4, 6, 9, 11} THEN 30
                   ELSE IF m = 2 THEN (IF leap THEN 29 ELSE 28) ELSE 31
<1>1. leap <=> y % 4 = 0  BY LeapYear
<1>2. Real(d, m, y) <=> d \in 1..last  BY DEF Real, RealDate
<1>3. last = DaysIn(m, y)
  <2> HIDE DEF leap
  <2> QED BY <1>1, DaysOfMonth
<1> QED BY <1>2, <1>3

LEMMA AcceptedIsReal ==
  ASSUME NEW y \in 0..99, NEW m \in 1..12, NEW d \in 1..31, DayAccepted(d, m, y)
  PROVE  Real(d, m, y)
<1>1. d \in Int /\ d \in 1..DaysIn(m, y)
  <2>1. LastDay[m] \in 28..31 /\ (m = 2 => LastDay[m] = 28)  BY DEF LastDay
  <2> QED BY <2>1 DEF DayAccepted, DaysIn
<1> QED BY <1>1, CalendarDays

LEMMA NextDayIsReal ==
  ASSUME NEW c, InRange(c), Real(c.day, c.month, c.year)
  PROVE  LET n == NextSecond(c) IN Real(n.day, n.month, n.year)
<1> DEFINE n == NextSecond(c)
<1>1. c.year \in 0..99 /\ c.month \in 1..12 /\ c.day \in 1..DaysIn(c.month, c.year)
  <2>1. c.year \in 0..99 /\ c.month \in 1..12 /\ c.day \in 1..31
    BY DEF InRange, DateInRange
  <2>2. c.day \in Int  BY <2>1
  <2> QED BY <2>1, <2>2, CalendarDays
<1>2. n.year \in 0..99 /\ n.month \in 1..12 /\ n.day \in 1..31
  BY NextInRange DEF InRange, DateInRange
<1>3. \/ n.day = 1
      \/ n.day = c.day /\ n.month = c.month /\ n.year = c.year
      \/ /\ n.day = c.day + 1 /\ ~(c.day >= DaysIn(c.month, c.year))
         /\ n.month = c.month /\ n.year = c.year
  BY DEF NextSecond
<1> HIDE DEF n
<1>4. DaysIn(c.month, c.year) \in 28..31 /\ DaysIn(n.month, n.year) \in 28..31
  BY <1>1, <1>2, DaysOfMonth
<1>5. n.day \in 1..DaysIn(n.month, n.year)
  <2>1. CASE n.day = 1  BY <1>4, <2>1
  <2>2. CASE n.day = c.day /\ n.month = c.month /\ n.year = c.year  BY <1>1, <2>2
  <2>3. CASE /\ n.day = c.day + 1 /\ ~(c.day >= DaysIn(c.month, c.year))
             /\ n.month = c.month /\ n.year = c.year
    BY <1>1, <1>4, <2>3
  <2> QED BY <1>3, <2>1, <2>2, <2>3
<1>6. Real(n.day, n.month, n.year)
  <2>1. n.day \in Int  BY <1>2
  <2> QED BY <1>2, <1>5, <2>1, CalendarDays
<1> QED BY <1>6 DEF n

-----------------------------------------------------------------------------
LEMMA NoJobFields ==
  /\ NoJob.kind = "none" /\ NoJob.regs = <<>> /\ NoJob \notin Jobs
  /\ \A j \in Jobs : j.kind \in Reads \cup Writes /\ j.kind # "none"
BY DEF NoJob, Jobs, Reads, Writes

LEMMA InitClock == Init => ClockInv
<1> SUFFICES ASSUME Init PROVE ClockInv  OBVIOUS
<1>1. PICK t \in StartTimes, x \in StartDates :
        rtc = [r \in Register |-> Bcd(IF r \in TimeRegister THEN t[r] ELSE x[r])]
  BY DEF Init
<1> DEFINE c == [r \in Register |-> IF r \in TimeRegister THEN t[r] ELSE x[r]]
<1>2. t \in TimeOfDay /\ x \in Date  BY ClockAssumption
<1>3. SameTime(c, t) /\ SameDate(c, x)
  BY <1>2 DEF SameTime, SameDate, Register, TimeRegister, DateRegister, TimeOfDay, Date
<1>4. /\ InRange(c) /\ DayAccepted(c.day, c.month, c.year)
  BY <1>2, <1>3 DEF TimeOfDay, Date, SameTime, SameDate, InRange, TimeInRange, DateInRange
<1>5. rtc = [r \in Register |-> Bcd(c[r])]
  <2>1. \A r \in Register : c[r] = IF r \in TimeRegister THEN t[r] ELSE x[r]  OBVIOUS
  <2> QED BY <1>1, <2>1
<1> HIDE DEF c
<1>6. SameDate(Now, c) /\ InRange(Now) /\ rtc = [r \in Register |-> Bcd(Now[r])]
  BY <1>4, <1>5, Reading
<1>7. DatesReal
  <2>1. c.year \in 0..99 /\ c.month \in 1..12 /\ c.day \in 1..31
    BY <1>4 DEF InRange, DateInRange
  <2>2. Real(c.day, c.month, c.year)  BY <1>4, <2>1, AcceptedIsReal
  <2> QED BY <1>6, <2>2 DEF DatesReal, SameDate, Real
<1>8. job = NoJob /\ job.kind = "none"  BY NoJobFields DEF Init
<1>9. ClockTyped
  <2>1. 0 \in 0..MaxMidnights /\ 0 \in 0..MaxSets  BY ClockAssumption
  <2> QED BY <1>6, <1>8, <2>1 DEF Init, ClockTyped
<1>10. ReadsInOrder /\ SetsTime /\ SetsDate
  BY <1>8 DEF ReadsInOrder, SetsTime, SetsDate, Reads
<1> QED BY <1>7, <1>9, <1>10 DEF ClockInv

-----------------------------------------------------------------------------
(* The arithmetic of a second: what the time of day and the date become.     *)
LEMMA NextOfSame ==
  ASSUME NEW c, NEW d, SameTime(c, d), SameDate(c, d)
  PROVE  NextSecond(c) = NextSecond(d)
BY DEF NextSecond, SameTime, SameDate

LEMMA SecondsInNat ==
  ASSUME NEW c, TimeInRange(c)
  PROVE  /\ Seconds(c) \in Nat /\ c.hour * MinutesPerHour \in Nat
         /\ c.min * SecondsPerMinute \in Nat
         /\ Seconds(c) = (c.hour * MinutesPerHour) * SecondsPerMinute
                           + c.min * SecondsPerMinute + c.sec
<1>1. c.hour \in Nat /\ c.min \in Nat /\ c.sec \in Nat  BY Units DEF TimeInRange
<1>2. MinutesPerHour \in Nat /\ SecondsPerMinute \in Nat  BY Units
<1>3. /\ c.hour * MinutesPerHour \in Nat /\ c.min * SecondsPerMinute \in Nat
      /\ (c.hour * MinutesPerHour) * SecondsPerMinute \in Nat
  BY <1>1, <1>2
<1>4. (c.hour * MinutesPerHour + c.min) * SecondsPerMinute
        = (c.hour * MinutesPerHour) * SecondsPerMinute + c.min * SecondsPerMinute
  BY <1>1, <1>2, <1>3
<1> QED BY <1>1, <1>3, <1>4 DEF Seconds

(* One of the carries: none, into the minute, into the hour, into the day. *)
LEMMA Carries ==
  ASSUME NEW c, InRange(c)
  PROVE  LET n == NextSecond(c)
         IN  \/ /\ n.sec = c.sec + 1 /\ n.min = c.min /\ n.hour = c.hour /\ SameDate(n, c)
                /\ c.sec + 1 < SecondsPerMinute
             \/ /\ n.sec = 0 /\ n.min = c.min + 1 /\ n.hour = c.hour /\ SameDate(n, c)
                /\ c.sec + 1 = SecondsPerMinute /\ c.min + 1 < MinutesPerHour
             \/ /\ n.sec = 0 /\ n.min = 0 /\ n.hour = c.hour + 1 /\ SameDate(n, c)
                /\ c.sec + 1 = SecondsPerMinute /\ c.min + 1 = MinutesPerHour
             \/ n.sec = 0 /\ n.min = 0 /\ n.hour = 0
<1> DEFINE minute == c.sec + 1 = SecondsPerMinute
           hour   == minute /\ c.min + 1 = MinutesPerHour
           n      == NextSecond(c)
<1>1. /\ c.sec + 1 <= SecondsPerMinute /\ c.min + 1 <= MinutesPerHour
      /\ c.sec \in Nat /\ c.min \in Nat /\ SecondsPerMinute \in Nat /\ MinutesPerHour \in Nat
  BY Units DEF InRange, TimeInRange
<1>2. CASE ~minute
  <2>1. c.sec + 1 < SecondsPerMinute  BY <1>1, <1>2
  <2>2. n.sec = c.sec + 1 /\ n.min = c.min /\ n.hour = c.hour /\ SameDate(n, c)
    BY <1>2 DEF NextSecond, SameDate
  <2> QED BY <2>1, <2>2
<1>3. CASE minute /\ ~hour
  <2>1. c.min + 1 < MinutesPerHour  BY <1>1, <1>3
  <2>2. n.sec = 0 /\ n.min = c.min + 1 /\ n.hour = c.hour /\ SameDate(n, c)
    BY <1>3 DEF NextSecond, SameDate
  <2> QED BY <1>3, <2>1, <2>2
<1>4. CASE hour /\ c.hour + 1 # HoursPerDay
  BY <1>4 DEF NextSecond, SameDate
<1>5. CASE hour /\ c.hour + 1 = HoursPerDay
  BY <1>5 DEF NextSecond
<1> QED BY <1>2, <1>3, <1>4, <1>5

LEMMA NextSecondAhead ==
  ASSUME NEW c, InRange(c)
  PROVE  LET n == NextSecond(c)
         IN  /\ n.sec <= c.sec + 1
             /\ n.min * SecondsPerMinute + n.sec <= c.min * SecondsPerMinute + c.sec + 1
             /\ Seconds(n) <= Seconds(c) + 1
             /\ Midnight(n) \/ SameDate(n, c)
<1> DEFINE n == NextSecond(c)
<1>1. /\ c.hour \in Nat /\ c.min \in Nat /\ c.sec \in Nat
      /\ MinutesPerHour \in Nat /\ SecondsPerMinute \in Nat \ {0}
  BY Units DEF InRange, TimeInRange
<1>2. TimeInRange(n) /\ TimeInRange(c)  BY NextInRange DEF InRange
<1> HIDE DEF n
<1>3. CASE /\ n.sec = c.sec + 1 /\ n.min = c.min /\ n.hour = c.hour /\ SameDate(n, c)
  BY <1>1, <1>3, <1>2, SecondsInNat DEF n
<1>4. CASE /\ n.sec = 0 /\ n.min = c.min + 1 /\ n.hour = c.hour /\ SameDate(n, c)
           /\ c.sec + 1 = SecondsPerMinute
  <2>1. (c.min + 1) * SecondsPerMinute = c.min * SecondsPerMinute + SecondsPerMinute
    BY <1>1
  <2> QED BY <1>1, <1>2, <1>4, <2>1, SecondsInNat DEF n
<1>5. CASE /\ n.sec = 0 /\ n.min = 0 /\ n.hour = c.hour + 1 /\ SameDate(n, c)
           /\ c.sec + 1 = SecondsPerMinute /\ c.min + 1 = MinutesPerHour
  <2>1. n.hour * MinutesPerHour = c.hour * MinutesPerHour + c.min + 1
    <3>1. (c.hour + 1) * MinutesPerHour = c.hour * MinutesPerHour + MinutesPerHour
      BY <1>1
    <3> QED BY <1>1, <1>5, <3>1
  <2>2. 0 * SecondsPerMinute = 0  BY <1>1
  <2>3. n.hour * MinutesPerHour + n.min = (c.hour * MinutesPerHour + c.min) + 1
    BY <1>1, <1>5, <2>1
  <2> DEFINE k == c.hour * MinutesPerHour + c.min
  <2>4. k \in Nat  BY <1>1
  <2>5. Seconds(n) = (k + 1) * SecondsPerMinute /\ Seconds(c) = k * SecondsPerMinute + c.sec
    BY <1>1, <1>5, <2>3 DEF Seconds
  <2> HIDE DEF k
  <2>6. (k + 1) * SecondsPerMinute = k * SecondsPerMinute + SecondsPerMinute
        /\ k * SecondsPerMinute \in Nat
    BY <1>1, <2>4
  <2>7. Seconds(n) <= Seconds(c) + 1  BY <1>1, <1>5, <2>5, <2>6
  <2>8. n.min * SecondsPerMinute + n.sec <= c.min * SecondsPerMinute + c.sec + 1
    BY <1>1, <1>2, <1>5, <2>2, SecondsInNat
  <2> QED BY <1>1, <1>5, <2>7, <2>8 DEF n
<1>6. CASE n.sec = 0 /\ n.min = 0 /\ n.hour = 0
  <2>1. 0 * MinutesPerHour = 0 /\ 0 * SecondsPerMinute = 0  BY <1>1
  <2>2. Seconds(n) = 0  BY <1>6, <2>1 DEF Seconds
  <2> QED BY <1>1, <1>2, <1>6, <2>1, <2>2, SecondsInNat DEF n, Midnight
<1> QED BY <1>3, <1>4, <1>5, <1>6, Carries DEF n

-----------------------------------------------------------------------------
(* A second passes. *)
LEMMA TickReads ==
  ASSUME NEW a \in Register, NEW b \in Register, NEW d \in Register, ReadInOrder(a, b, d),
         Now[a] = began[a], Now[b] = began[b], Now[d] = began[d],
         job' = job, began' = began
  PROVE  ReadInOrder(a, b, d)'
BY DEF ReadInOrder, Old, Fresh

LEMMA TickClock ==
  ASSUME ClockInv, Tick
  PROVE  ClockInv'
<1> DEFINE next == NextSecond(Now)
<1>1. /\ InRange(Now) /\ ticked \in BOOLEAN /\ (job # NoJob => ticked = FALSE)
      /\ UNCHANGED <<alarm, target, job, began, spoilt, sets>>
      /\ polled' = FALSE /\ ticked' = (job # NoJob)
      /\ rtc' = [r \in Register |-> Bcd(next[r])]
  BY DEF ClockInv, ClockTyped, Tick
<1>2. InRange(next)  BY <1>1, NextInRange
<1> HIDE DEF next
<1>3. /\ SameTime(Now', next) /\ SameDate(Now', next)
      /\ InRange(Now') /\ (rtc = [r \in Register |-> Bcd(Now[r])])'
  BY <1>1, <1>2, ReadingNext
<1>4. ClockTyped'
  <2>1. midnights' \in 0..MaxMidnights
    BY ClockAssumption DEF ClockInv, ClockTyped, Tick
  <2>2. ticked' \in BOOLEAN  BY <1>1
  <2> QED BY <1>1, <1>3, <2>1, <2>2 DEF ClockInv, ClockTyped
<1>5. job.kind # "none" => ticked = FALSE /\ ticked' = TRUE
  BY <1>1, NoJobFields
<1>6. ReadsInOrder'
  <2>1. CASE job.kind \in Reads
    <3>1. SameTime(Now, began) /\ SameDate(Now, began) /\ ticked' = TRUE
      BY <1>5, <2>1 DEF ClockInv, ReadsInOrder, Reads
    <3>2. NextSecond(began) = next  BY <3>1, NextOfSame DEF next
    <3>3. job.kind \in {"poll", "gettime"} => ReadInOrder("sec", "min", "hour")'
      BY <1>1, <3>1, TickReads
         DEF ClockInv, ReadsInOrder, SameTime, Register, TimeRegister
    <3>4. job.kind = "getdate" => ReadInOrder("year", "month", "day")'
      BY <1>1, <3>1, TickReads
         DEF ClockInv, ReadsInOrder, SameDate, Register, DateRegister
    <3>5. NextSecond(began') = next  BY <1>1, <3>2
    <3> QED BY <1>1, <1>3, <3>1, <3>3, <3>4, <3>5 DEF ReadsInOrder
  <2>2. CASE job.kind \notin Reads
    BY <1>1, <2>2 DEF ReadsInOrder, Reads
  <2> QED BY <2>1, <2>2
<1>7. /\ next.sec <= Now.sec + 1
      /\ next.min * SecondsPerMinute + next.sec
           <= Now.min * SecondsPerMinute + Now.sec + 1
      /\ Seconds(next) <= Seconds(Now) + 1
      /\ Midnight(next) \/ SameDate(next, Now)
  BY <1>1, NextSecondAhead DEF next
<1>8. Seconds(Now') = Seconds(next)  BY <1>3 DEF Seconds, SameTime
<1>9. SetsTime'
  <2>1. CASE job.kind = "settime"
    <3>1. TimeWritten /\ SameTime(job.vals, job.typed) /\ TimeInRange(job.typed)
      BY <1>5, <2>1 DEF ClockInv, SetsTime
    <3>2. SameTime(Now, job.typed) => Seconds(Now) = Seconds(job.typed)
      BY DEF Seconds, SameTime
    <3>3. TimeAhead'
      BY <1>1, <1>3, <1>7, <1>8, <3>1, <3>2 DEF TimeWritten, TimeAhead, SameTime
    <3> QED BY <1>1, <1>5, <2>1, <3>1, <3>3 DEF SetsTime
  <2>2. CASE job.kind # "settime"  BY <1>1, <2>2 DEF SetsTime
  <2> QED BY <2>1, <2>2
<1>10. SetsDate'
  <2>1. CASE job.kind = "setdate"
    <3>1. DateWritten /\ ticked' = TRUE  BY <1>5, <2>1 DEF ClockInv, SetsDate
    <3>2. Midnight(Now') \/ SameDate(Now', Now)
      BY <1>3, <1>7, <1>8 DEF Midnight, SameDate
    <3>3. SameDate(Now', Now) => DateWritten'
      BY <1>1, <3>1 DEF DateWritten, SameDate
    <3>4. (ticked /\ Midnight(Now))' \/ DateWritten'
      BY <3>1, <3>2, <3>3 DEF Midnight
    <3> QED BY <1>1, <2>1, <3>4 DEF ClockInv, SetsDate
  <2>2. CASE job.kind # "setdate"  BY <1>1, <2>2 DEF SetsDate
  <2> QED BY <2>1, <2>2
<1>11. DatesReal'
  <2>1. ASSUME job.kind # "setdate", ~spoilt
        PROVE  RealDate(Now'.day, Now'.month, 2000 + Now'.year)
    <3>1. Real(Now.day, Now.month, Now.year)
      BY <2>1 DEF ClockInv, DatesReal, Real
    <3>2. Real(next.day, next.month, next.year)
      BY <1>1, <3>1, NextDayIsReal DEF next
    <3> QED BY <1>3, <3>2 DEF SameDate, Real
  <2> QED BY <1>1, <2>1 DEF DatesReal
<1> QED BY <1>4, <1>6, <1>9, <1>10, <1>11 DEF ClockInv

-----------------------------------------------------------------------------
(* One access. *)
LEMMA AccessReadsNext ==
  ASSUME NEW a \in Register, NEW b \in Register, NEW d \in Register,
         a # b, a # d, b # d, ReadInOrder(a, b, d),
         job \in Jobs, job.regs # <<>>, job'.regs = Tail(job.regs),
         job'.vals = [job.vals EXCEPT ![Head(job.regs)] = Now[Head(job.regs)]],
         began' = began, Now' = Now
  PROVE  ReadInOrder(a, b, d)'
<1>1. job.vals \in [Register -> Nat]  BY DEF Jobs, Values
<1>2. CASE job.regs = <<a, b, d>>
  <2>1. Head(job.regs) = a /\ job'.regs = <<b, d>>  BY <1>2
  <2>2. job'.vals[a] = Now[a]  BY <1>1, <2>1
  <2> QED BY <2>1, <2>2 DEF ReadInOrder, Fresh
<1>3. CASE job.regs = <<b, d>> /\ (Old(a) \/ Fresh(a))
  <2>1. Head(job.regs) = b /\ job'.regs = <<d>>  BY <1>3
  <2>2. job'.vals[b] = Now[b] /\ job'.vals[a] = job.vals[a]  BY <1>1, <2>1
  <2> QED BY <1>3, <2>1, <2>2 DEF ReadInOrder, Fresh, Old
<1>4. CASE job.regs = <<d>> /\ ((Old(a) /\ (Old(b) \/ Fresh(b))) \/ (Fresh(a) /\ Fresh(b)))
  <2>1. Head(job.regs) = d /\ job'.regs = <<>>  BY <1>4
  <2>2. job'.vals[d] = Now[d] /\ job'.vals[a] = job.vals[a] /\ job'.vals[b] = job.vals[b]
    BY <1>1, <2>1
  <2> QED BY <1>4, <2>1, <2>2 DEF ReadInOrder, Fresh, Old
<1>5. \/ job.regs = <<a, b, d>>
      \/ job.regs = <<b, d>> /\ (Old(a) \/ Fresh(a))
      \/ job.regs = <<d>> /\ ((Old(a) /\ (Old(b) \/ Fresh(b))) \/ (Fresh(a) /\ Fresh(b)))
  BY DEF ReadInOrder
<1> QED BY <1>2, <1>3, <1>4, <1>5

LEMMA AccessReadClock ==
  ASSUME ClockInv, Access, job.kind \in Reads
  PROVE  ClockInv'
<1> DEFINE r == Head(job.regs)
<1>1. /\ job.regs # <<>> /\ job \in Jobs /\ InRange(began) /\ InRange(Now)
      /\ rtc = [q \in Register |-> Bcd(Now[q])]
  BY NoJobFields DEF Access, ClockInv, ClockTyped
<1>2. r \in Register /\ Tail(job.regs) \in Seq(Register)
  BY <1>1 DEF Jobs
<1>3. rtc[r] = Bcd(Now[r]) /\ Now[r] \in 0..99
  BY <1>1, <1>2, InRangeDigits
<1>4. BCDtoDecimal(rtc[r]) = Now[r]  BY <1>3, BcdDigits
<1>5. /\ job' = [job EXCEPT !.regs = Tail(@), !.vals[r] = BCDtoDecimal(rtc[r])]
      /\ UNCHANGED <<rtc, alarm, target, ticked, began, polled, spoilt, midnights, sets>>
  BY DEF Access, Reads, Writes
<1>6. /\ job'.regs = Tail(job.regs) /\ job'.vals = [job.vals EXCEPT ![r] = Now[r]]
      /\ job'.kind = job.kind /\ job' \in Jobs
  <2>1. job' = [job EXCEPT !.regs = Tail(job.regs), !.vals = [job.vals EXCEPT ![r] = Now[r]]]
    BY <1>1, <1>4, <1>5 DEF Jobs
  <2>2. [job.vals EXCEPT ![r] = Now[r]] \in Values
    <3>1. job.vals \in [Register -> Nat]  BY <1>1 DEF Jobs, Values
    <3>2. Now[r] \in Nat  BY <1>3
    <3> HIDE DEF r
    <3> QED BY <1>2, <3>1, <3>2 DEF Values
  <2> HIDE DEF r
  <2> QED BY <1>1, <1>2, <2>1, <2>2 DEF Jobs
<1>7. Now' = Now  BY <1>5 DEF Now
<1>8. ClockTyped'
  BY <1>1, <1>5, <1>6, <1>7 DEF ClockInv, ClockTyped
<1>9. ReadsInOrder'
  <2>1. job.kind \in {"poll", "gettime"} => ReadInOrder("sec", "min", "hour")'
    BY <1>1, <1>5, <1>6, <1>7, AccessReadsNext
       DEF ClockInv, ReadsInOrder, Register, TimeRegister
  <2>2. job.kind = "getdate" => ReadInOrder("year", "month", "day")'
    BY <1>1, <1>5, <1>6, <1>7, AccessReadsNext
       DEF ClockInv, ReadsInOrder, Register, DateRegister
  <2> HIDE DEF r
  <2> QED BY <1>5, <1>6, <1>7, <2>1, <2>2 DEF ClockInv, ReadsInOrder
<1>10. SetsTime' /\ SetsDate'
  BY <1>6 DEF SetsTime, SetsDate, Reads
<1>11. DatesReal'  BY <1>5, <1>6, <1>7 DEF ClockInv, DatesReal
<1> QED BY <1>8, <1>9, <1>10, <1>11 DEF ClockInv

(* An access that writes: register r now says v, the others what they did. *)
LEMMA Written ==
  ASSUME ClockInv, NEW r \in Register, NEW v \in Nat,
         InRange([Now EXCEPT ![r] = v]), rtc' = [rtc EXCEPT ![r] = decimalToBCD(v)]
  PROVE  /\ InRange(Now') /\ (rtc = [q \in Register |-> Bcd(Now[q])])'
         /\ Now'[r] = v /\ \A q \in Register \ {r} : Now'[q] = Now[q]
<1> DEFINE c == [Now EXCEPT ![r] = v]
<1>1. /\ c[r] = v /\ \A q \in Register \ {r} : c[q] = Now[q]
      /\ rtc = [q \in Register |-> Bcd(Now[q])]
  BY DEF Now, ClockInv, ClockTyped
<1>2. v \in 0..99
  <2>1. c[r] \in 0..99
    <3> HIDE DEF c
    <3> QED BY InRangeDigits DEF c
  <2> QED BY <1>1, <2>1
<1>3. decimalToBCD(v) = Bcd(v)  BY <1>2, BcdDigits
<1> HIDE DEF c
<1>4. rtc' = [q \in Register |-> Bcd(c[q])]
  BY <1>1, <1>3
<1>5. InRange(c)  BY DEF c
<1> QED BY <1>1, <1>4, <1>5, ReadingNext

LEMMA AccessWrites ==
  ASSUME ClockInv, Access, job.kind \in Writes
  PROVE  /\ job.regs # <<>> /\ job \in Jobs /\ InRange(began) /\ InRange(Now)
         /\ job' \in Jobs /\ job'.regs = Tail(job.regs)
         /\ job'.kind = job.kind /\ job'.vals = job.vals /\ job'.typed = job.typed
         /\ rtc' = [rtc EXCEPT ![Head(job.regs)] = decimalToBCD(job.vals[Head(job.regs)])]
         /\ UNCHANGED <<alarm, target, ticked, began, polled, spoilt, midnights, sets>>
<1>1. /\ job.regs # <<>> /\ job \in Jobs /\ InRange(began) /\ InRange(Now)
  BY NoJobFields DEF Access, ClockInv, ClockTyped
<1>2. Tail(job.regs) \in Seq(Register)  BY <1>1 DEF Jobs
<1>3. /\ job' = [job EXCEPT !.regs = Tail(@)]
      /\ rtc' = [rtc EXCEPT ![Head(job.regs)] = decimalToBCD(job.vals[Head(job.regs)])]
      /\ UNCHANGED <<alarm, target, ticked, began, polled, spoilt, midnights, sets>>
  BY DEF Access, Reads, Writes
<1> QED BY <1>1, <1>2, <1>3 DEF Jobs

(* The values of setTime and setDate are values of their registers. *)
LEMMA WrittenTime ==
  ASSUME InRange(Now), NEW v \in Values, TimeInRange(v), NEW r \in TimeRegister
  PROVE  InRange([Now EXCEPT ![r] = v[r]])
<1> DEFINE c == [Now EXCEPT ![r] = v[r]]
<1>1. \A q \in Register : c[q] = IF q = r THEN v[q] ELSE Now[q]
  BY DEF Now, Register
<1>2. /\ {"sec", "min", "hour", "year", "month", "day"} \subseteq Register
      /\ r \in {"sec", "min", "hour"}
  BY DEF Register, TimeRegister, DateRegister
<1> HIDE DEF c
<1>3. TimeInRange(c)
  BY <1>1, <1>2 DEF InRange, TimeInRange
<1>4. DateInRange(c)
  BY <1>1, <1>2 DEF InRange, DateInRange
<1> QED BY <1>3, <1>4 DEF InRange, c

LEMMA WrittenDate ==
  ASSUME InRange(Now), NEW v \in Values, DateInRange(v), NEW r \in DateRegister
  PROVE  InRange([Now EXCEPT ![r] = v[r]])
<1> DEFINE c == [Now EXCEPT ![r] = v[r]]
<1>1. \A q \in Register : c[q] = IF q = r THEN v[q] ELSE Now[q]
  BY DEF Now, Register
<1>2. /\ {"sec", "min", "hour", "year", "month", "day"} \subseteq Register
      /\ r \in {"year", "month", "day"}
  BY DEF Register, TimeRegister, DateRegister
<1> HIDE DEF c
<1>3. TimeInRange(c)
  BY <1>1, <1>2 DEF InRange, TimeInRange
<1>4. DateInRange(c)
  BY <1>1, <1>2 DEF InRange, DateInRange
<1> QED BY <1>3, <1>4 DEF InRange, c

LEMMA AccessSetsTime ==
  ASSUME ClockInv, Access, job.kind = "settime"
  PROVE  ClockInv'
<1> DEFINE r == Head(job.regs)
           v == job.vals[r]
<1>1. /\ job.regs # <<>> /\ job \in Jobs /\ InRange(began) /\ InRange(Now)
      /\ job' \in Jobs /\ job'.regs = Tail(job.regs)
      /\ job'.kind = job.kind /\ job'.vals = job.vals /\ job'.typed = job.typed
      /\ rtc' = [rtc EXCEPT ![r] = decimalToBCD(v)]
      /\ UNCHANGED <<alarm, target, ticked, began, polled, spoilt, midnights, sets>>
  BY AccessWrites DEF Writes
<1>2. /\ SameTime(job.vals, job.typed) /\ TimeInRange(job.typed)
      /\ IF ticked THEN TimeAhead ELSE TimeWritten
      /\ ticked \in BOOLEAN
  BY DEF ClockInv, SetsTime, ClockTyped
<1>3. \/ job.regs = <<"sec", "min", "hour">> \/ job.regs = <<"min", "hour">>
      \/ job.regs = <<"hour">>
  BY <1>1, <1>2 DEF TimeAhead, TimeWritten
<1>4. r \in TimeRegister /\ r \in Register
  BY <1>3 DEF TimeRegister, Register
<1>5. job.vals \in Values /\ TimeInRange(job.vals) /\ v \in Nat
  <2>1. job.vals \in Values  BY <1>1 DEF Jobs
  <2>2. TimeInRange(job.vals)  BY <1>2 DEF TimeInRange, SameTime
  <2> HIDE DEF r
  <2>3. job.vals[r] \in Nat  BY <1>4, <2>1 DEF Values
  <2> QED BY <2>1, <2>2, <2>3
<1>6. InRange([Now EXCEPT ![r] = v])  BY <1>1, <1>4, <1>5, WrittenTime
<1> HIDE DEF r
<1>7. /\ InRange(Now') /\ (rtc = [q \in Register |-> Bcd(Now[q])])'
      /\ Now'[r] = v /\ \A q \in Register \ {r} : Now'[q] = Now[q]
  BY <1>1, <1>4, <1>5, <1>6, Written
<1>8. ClockTyped'
  BY <1>1, <1>7 DEF ClockInv, ClockTyped
<1>9. ReadsInOrder' /\ SetsDate'
  BY <1>1 DEF ReadsInOrder, SetsDate, Reads
<1>10. SameDate(Now', Now)
  BY <1>4, <1>7 DEF SameDate, Register, TimeRegister, DateRegister
<1>11. DatesReal'
  BY <1>1, <1>10 DEF ClockInv, DatesReal, SameDate
<1>12. IF ticked THEN TimeAhead' ELSE TimeWritten'
  <2>1. CASE job.regs = <<"sec", "min", "hour">>
    <3>1. r = "sec" /\ job'.regs = <<"min", "hour">>  BY <1>1, <2>1 DEF r
    <3>2. Now'.sec = job.typed.sec  BY <1>2, <1>7, <3>1 DEF SameTime
    <3>3. job.typed.sec \in Nat  BY <1>2, Units DEF TimeInRange
    <3>4. Now'.sec <= job.typed.sec + 1  BY <3>2, <3>3
    <3>5. TimeAhead'  BY <1>1, <3>1, <3>4 DEF TimeAhead
    <3>6. TimeWritten'  BY <1>1, <3>1, <3>2 DEF TimeWritten
    <3> QED BY <3>5, <3>6
  <2>2. CASE job.regs = <<"min", "hour">>
    <3>1. r = "min" /\ job'.regs = <<"hour">>  BY <1>1, <2>2 DEF r
    <3>2. Now'.min = job.typed.min /\ Now'.sec = Now.sec
      BY <1>2, <1>7, <3>1 DEF SameTime, Register, TimeRegister
    <3>3. IF ticked THEN Now.sec <= job.typed.sec + 1 ELSE Now.sec = job.typed.sec
      BY <1>2, <2>2 DEF TimeAhead, TimeWritten
    <3>4. job.typed.sec \in Nat /\ Now.sec \in Nat /\ job.typed.min * SecondsPerMinute \in Nat
      BY <1>1, <1>2, Units, SecondsInNat DEF InRange, TimeInRange
    <3>5. Now'.min * SecondsPerMinute = job.typed.min * SecondsPerMinute  BY <3>2
    <3>6. ASSUME ticked PROVE TimeAhead'
      <4>1. Now'.min * SecondsPerMinute + Now'.sec
              <= job.typed.min * SecondsPerMinute + job.typed.sec + 1
        BY <3>2, <3>3, <3>4, <3>5, <3>6
      <4> QED BY <1>1, <3>1, <4>1 DEF TimeAhead
    <3>7. ASSUME ~ticked PROVE TimeWritten'
      BY <1>1, <3>1, <3>2, <3>3, <3>7 DEF TimeWritten
    <3> QED BY <3>6, <3>7
  <2>3. CASE job.regs = <<"hour">>
    <3>1. r = "hour" /\ job'.regs = <<>>  BY <1>1, <2>3 DEF r
    <3>2. Now'.hour = job.typed.hour /\ Now'.min = Now.min /\ Now'.sec = Now.sec
      BY <1>2, <1>7, <3>1 DEF SameTime, Register, TimeRegister
    <3>3. IF ticked
          THEN Now.min * SecondsPerMinute + Now.sec
                 <= job.typed.min * SecondsPerMinute + job.typed.sec + 1
          ELSE Now.sec = job.typed.sec /\ Now.min = job.typed.min
      BY <1>2, <2>3 DEF TimeAhead, TimeWritten
    <3>4. /\ Seconds(Now') = (Now'.hour * MinutesPerHour) * SecondsPerMinute
                               + Now'.min * SecondsPerMinute + Now'.sec
          /\ Seconds(job.typed) = (job.typed.hour * MinutesPerHour) * SecondsPerMinute
                               + job.typed.min * SecondsPerMinute + job.typed.sec
      BY <1>2, <1>7, SecondsInNat DEF InRange
    <3>5. ticked => Seconds(Now') <= Seconds(job.typed) + 1
      <4> DEFINE k == (job.typed.hour * MinutesPerHour) * SecondsPerMinute
                 m == job.typed.min * SecondsPerMinute
                 n == Now.min * SecondsPerMinute
      <4>1. Seconds(Now') = k + n + Now.sec /\ Seconds(job.typed) = k + m + job.typed.sec
        BY <3>2, <3>4
      <4>2. k \in Nat /\ m \in Nat /\ n \in Nat /\ Now.sec \in Nat /\ job.typed.sec \in Nat
        <5>1. job.typed.hour * MinutesPerHour \in Nat /\ m \in Nat /\ n \in Nat
          BY <1>1, <1>2, SecondsInNat DEF InRange
        <5>2. SecondsPerMinute \in Nat /\ Now.sec \in Nat /\ job.typed.sec \in Nat
          BY <1>1, <1>2, Units DEF InRange, TimeInRange
        <5> QED BY <5>1, <5>2
      <4>3. ticked => n + Now.sec <= m + job.typed.sec + 1  BY <3>3
      <4> HIDE DEF k, m, n
      <4> QED BY <4>1, <4>2, <4>3
    <3> QED BY <1>1, <3>1, <3>2, <3>3, <3>5 DEF TimeAhead, TimeWritten, SameTime
  <2> QED BY <1>3, <2>1, <2>2, <2>3
<1>13. SetsTime'
  BY <1>1, <1>2, <1>12 DEF SetsTime
<1> QED BY <1>8, <1>9, <1>11, <1>13 DEF ClockInv

LEMMA AccessSetsDate ==
  ASSUME ClockInv, Access, job.kind = "setdate"
  PROVE  ClockInv'
<1> DEFINE r == Head(job.regs)
           v == job.vals[r]
<1>1. /\ job.regs # <<>> /\ job \in Jobs /\ InRange(began) /\ InRange(Now)
      /\ job' \in Jobs /\ job'.regs = Tail(job.regs)
      /\ job'.kind = job.kind /\ job'.vals = job.vals /\ job'.typed = job.typed
      /\ rtc' = [rtc EXCEPT ![r] = decimalToBCD(v)]
      /\ UNCHANGED <<alarm, target, ticked, began, polled, spoilt, midnights, sets>>
  BY AccessWrites DEF Writes
<1>2. /\ DateInRange(job.vals) /\ DayAccepted(job.vals.day, job.vals.month, job.vals.year)
      /\ job.regs \in {<<"year", "month", "day">>, <<"month", "day">>, <<"day">>}
      /\ (ticked /\ Midnight(Now)) \/ DateWritten
  BY <1>1 DEF ClockInv, SetsDate
<1>3. r \in DateRegister /\ r \in Register
  BY <1>2 DEF DateRegister, Register
<1>4. job.vals \in Values /\ v \in Nat
  <2>1. job.vals \in Values  BY <1>1 DEF Jobs
  <2> HIDE DEF r
  <2>2. job.vals[r] \in Nat  BY <1>3, <2>1 DEF Values
  <2> QED BY <2>1, <2>2
<1>5. InRange([Now EXCEPT ![r] = v])  BY <1>1, <1>2, <1>3, <1>4, WrittenDate
<1> HIDE DEF r
<1>6. /\ InRange(Now') /\ (rtc = [q \in Register |-> Bcd(Now[q])])'
      /\ Now'[r] = v /\ \A q \in Register \ {r} : Now'[q] = Now[q]
  BY <1>1, <1>3, <1>4, <1>5, Written
<1>7. ClockTyped'
  BY <1>1, <1>6 DEF ClockInv, ClockTyped
<1>8. ReadsInOrder' /\ SetsTime' /\ DatesReal'
  BY <1>1 DEF ReadsInOrder, SetsTime, Reads, DatesReal
<1>9. Midnight(Now') <=> Midnight(Now)
  <2>1. SameTime(Now', Now)
    BY <1>3, <1>6 DEF SameTime, Register, TimeRegister, DateRegister
  <2> QED BY <2>1 DEF SameTime, Midnight, Seconds
<1>10. /\ job'.regs \in {<<"month", "day">>, <<"day">>, <<>>}
       /\ DateWritten => DateWritten'
  <2>1. CASE job.regs = <<"year", "month", "day">>
    <3>1. r = "year" /\ job'.regs = <<"month", "day">>  BY <1>1, <2>1 DEF r
    <3>2. Now'.year = job.vals.year  BY <1>6, <3>1
    <3> QED BY <1>1, <3>1, <3>2 DEF DateWritten
  <2>2. CASE job.regs = <<"month", "day">>
    <3>1. r = "month" /\ job'.regs = <<"day">>  BY <1>1, <2>2 DEF r
    <3>2. Now'.month = job.vals.month /\ Now'.year = Now.year
      BY <1>6, <3>1 DEF Register, DateRegister
    <3>3. DateWritten => Now.year = job.vals.year  BY <2>2 DEF DateWritten
    <3> QED BY <1>1, <3>1, <3>2, <3>3 DEF DateWritten
  <2>3. CASE job.regs = <<"day">>
    <3>1. r = "day" /\ job'.regs = <<>>  BY <1>1, <2>3 DEF r
    <3>2. Now'.day = job.vals.day /\ Now'.year = Now.year /\ Now'.month = Now.month
      BY <1>6, <3>1 DEF Register, DateRegister
    <3>3. DateWritten => Now.year = job.vals.year /\ Now.month = job.vals.month
      BY <2>3 DEF DateWritten
    <3> QED BY <1>1, <3>1, <3>2, <3>3 DEF DateWritten, SameDate
  <2> QED BY <1>2, <2>1, <2>2, <2>3
<1>11. SetsDate'
  <2>1. (ticked /\ Midnight(Now))' \/ DateWritten'
    BY <1>1, <1>2, <1>9, <1>10 DEF Midnight
  <2> QED BY <1>1, <1>2, <1>10, <2>1 DEF SetsDate
<1> QED BY <1>7, <1>8, <1>11 DEF ClockInv

LEMMA AccessClock ==
  ASSUME ClockInv, Access
  PROVE  ClockInv'
<1>1. job.kind \in Reads \cup Writes  BY DEF Access
<1> QED BY <1>1, AccessReadClock, AccessSetsTime, AccessSetsDate DEF Writes

-----------------------------------------------------------------------------
(* A group of accesses begins: nothing is read or written yet. *)
LEMMA BeginClock ==
  ASSUME ClockInv, NEW kind, NEW vals \in Values, NEW typed \in Values,
         \/ kind \in {"poll", "gettime"} /\ Begin(kind, TimeOrder, vals, typed)
         \/ kind = "getdate" /\ Begin(kind, DateOrder, vals, typed)
         \/ /\ kind = "settime" /\ Begin(kind, TimeOrder, vals, typed)
            /\ SameTime(vals, typed) /\ TimeInRange(typed)
         \/ /\ kind = "setdate" /\ Begin(kind, DateOrder, vals, typed)
            /\ DateInRange(vals) /\ DayAccepted(vals.day, vals.month, vals.year),
         UNCHANGED <<alarm, target>>, sets' \in 0..MaxSets
  PROVE  ClockInv'
<1>1. PICK regs \in {TimeOrder, DateOrder} : Begin(kind, regs, vals, typed)
  OBVIOUS
<1>2. /\ job = NoJob /\ job' = [kind |-> kind, regs |-> regs, vals |-> vals, typed |-> typed]
      /\ began' = Now /\ ticked' = FALSE /\ UNCHANGED <<rtc, polled, spoilt, midnights>>
  BY <1>1 DEF Begin
<1>3. Now' = Now  BY <1>2 DEF Now
<1>4. kind \in Reads \cup Writes  BY DEF Reads, Writes
<1>5. regs \in Seq(Register)
  <2>1. {"sec", "min", "hour", "year", "month", "day"} \subseteq Register
    BY DEF Register, TimeRegister, DateRegister
  <2>2. TimeOrder \in Seq(Register)  BY <2>1 DEF TimeOrder
  <2>3. DateOrder \in Seq(Register)  BY <2>1 DEF DateOrder
  <2> QED BY <2>2, <2>3
<1>6. job' \in Jobs  BY <1>2, <1>4, <1>5 DEF Jobs
<1>7. ClockTyped'
  BY <1>2, <1>3, <1>6 DEF ClockInv, ClockTyped
<1>8. ReadsInOrder'
  <2>1. kind \in {"poll", "gettime"} => job'.regs = <<"sec", "min", "hour">>
    BY <1>2 DEF Begin, TimeOrder
  <2>2. kind = "getdate" => job'.regs = <<"year", "month", "day">>
    BY <1>2 DEF Begin, DateOrder
  <2>3. SameTime(Now', began') /\ SameDate(Now', began')
    BY <1>2, <1>3 DEF SameTime, SameDate
  <2> QED BY <1>2, <2>1, <2>2, <2>3 DEF ReadsInOrder, ReadInOrder
<1>9. SetsTime'
  <2>1. CASE kind = "settime"
    <3>1. job'.regs = <<"sec", "min", "hour">>
      BY <1>2, <2>1 DEF Begin, TimeOrder
    <3>2. job'.vals = vals /\ job'.typed = typed  BY <1>2
    <3> QED BY <1>2, <2>1, <3>1, <3>2 DEF SetsTime, TimeWritten
  <2>2. CASE kind # "settime"  BY <1>2, <2>2 DEF SetsTime
  <2> QED BY <2>1, <2>2
<1>10. SetsDate'
  <2>1. CASE kind = "setdate"
    <3>1. job'.regs = <<"year", "month", "day">>
      BY <1>2, <2>1 DEF Begin, DateOrder
    <3>2. job'.vals = vals  BY <1>2
    <3>3. DateWritten'  BY <3>1 DEF DateWritten
    <3> QED BY <1>2, <2>1, <3>1, <3>2, <3>3 DEF SetsDate
  <2>2. CASE kind # "setdate"  BY <1>2, <2>2 DEF SetsDate
  <2> QED BY <2>1, <2>2
<1>11. DatesReal'
  <2>1. job.kind # "setdate"  BY <1>2, NoJobFields
  <2> QED BY <1>2, <1>3, <2>1 DEF ClockInv, DatesReal
<1> QED BY <1>7, <1>8, <1>9, <1>10, <1>11 DEF ClockInv

(* It ends; only a setDate into which midnight fell leaves a mark. *)
LEMMA EndClock ==
  ASSUME ClockInv, End, alarm' \in {"none", "waiting", "rung"}, target' = target,
         polled' \in BOOLEAN,
         \/ job.kind # "setdate" /\ spoilt' = spoilt
         \/ /\ Finished("setdate") /\ spoilt' = (spoilt \/ (ticked /\ Midnight(Now)))
  PROVE  ClockInv'
<1>1. /\ job' = NoJob /\ job'.kind = "none" /\ began' = Blank /\ ticked' = FALSE
      /\ UNCHANGED <<rtc, midnights, sets>>
  BY NoJobFields DEF End
<1>2. Now' = Now  BY <1>1 DEF Now
<1>3. spoilt' \in BOOLEAN  BY DEF ClockInv, ClockTyped
<1>4. ClockTyped'
  BY <1>1, <1>2, <1>3 DEF ClockInv, ClockTyped
<1>5. ReadsInOrder' /\ SetsTime' /\ SetsDate'
  BY <1>1 DEF ReadsInOrder, SetsTime, SetsDate, Reads
<1>6. DatesReal'
  <2>1. CASE job.kind # "setdate" /\ spoilt' = spoilt
    BY <1>2, <2>1 DEF ClockInv, DatesReal
  <2>2. CASE /\ Finished("setdate") /\ spoilt' = (spoilt \/ (ticked /\ Midnight(Now)))
    <3>1. ASSUME ~spoilt' PROVE Real(Now.day, Now.month, Now.year)
      <4>1. /\ DateInRange(job.vals)
            /\ DayAccepted(job.vals.day, job.vals.month, job.vals.year)
            /\ DateWritten /\ job.regs = <<>>
        BY <2>2, <3>1 DEF ClockInv, SetsDate, Finished
      <4>2. SameDate(Now, job.vals)  BY <4>1 DEF DateWritten
      <4>3. Real(job.vals.day, job.vals.month, job.vals.year)
        BY <4>1, AcceptedIsReal DEF DateInRange
      <4> QED BY <4>2, <4>3 DEF SameDate
    <3> QED BY <1>2, <3>1 DEF DatesReal, Real
  <2> QED BY <2>1, <2>2
<1> QED BY <1>4, <1>5, <1>6 DEF ClockInv

-----------------------------------------------------------------------------
(* What the prompts let through is in range, and in its place among the six. *)
LEMMA TypedTimes ==
  ASSUME NEW t \in TypedTime
  PROVE  /\ TimeInRange(t) /\ Filled(t) \in Values /\ SetTimeArgs(t.hour, t.min, t.sec) \in Values
         /\ SameTime(SetTimeArgs(t.hour, t.min, t.sec), Filled(t)) /\ TimeInRange(Filled(t))
<1>1. t \in [hour : Prompt(0, HoursPerDay), min : Prompt(0, MinutesPerHour),
             sec : Prompt(0, SecondsPerMinute)]
  BY DEF TypedTime
<1>2. \A limit : Prompt(0, limit) \subseteq 0..(limit - 1)  BY DEF Prompt
<1>3. TimeInRange(t)
  BY <1>1, <1>2 DEF TimeInRange
<1>4. t.hour \in Nat /\ t.min \in Nat /\ t.sec \in Nat  BY <1>3, Units DEF TimeInRange
<1>5. DOMAIN t = {"hour", "min", "sec"}  BY <1>1
<1>6. SameTime(Filled(t), t)
  BY <1>5 DEF SameTime, Filled, Register, TimeRegister
<1>7. Filled(t) \in Values
  <2>1. \A r \in Register : (IF r \in DOMAIN t THEN t[r] ELSE 0) \in Nat  BY <1>4, <1>5
  <2> QED BY <2>1 DEF Filled, Values
<1>8. /\ SetTimeArgs(t.hour, t.min, t.sec) \in Values
      /\ SameTime(SetTimeArgs(t.hour, t.min, t.sec), t)
  BY <1>4 DEF SetTimeArgs, Blank, Values, SameTime, Register, TimeRegister
<1> QED BY <1>3, <1>6, <1>7, <1>8 DEF SameTime, TimeInRange

LEMMA TypedDates ==
  ASSUME NEW x \in TypedDate
  PROVE  /\ Filled(x) \in Values /\ DateInRange(Filled(x))
         /\ DayAccepted(Filled(x).day, Filled(x).month, Filled(x).year)
<1>1. /\ x \in [month : Prompt(1, 13), year : Prompt(0, 100), day : Prompt(1, 32)]
      /\ DayAccepted(x.day, x.month, x.year)
  BY DEF TypedDate
<1>2. /\ Prompt(1, 13) \subseteq 1..12 /\ Prompt(0, 100) \subseteq 0..99
      /\ Prompt(1, 32) \subseteq 1..31
  BY DEF Prompt
<1>3. DateInRange(x)  BY <1>1, <1>2 DEF DateInRange
<1>4. DOMAIN x = {"month", "year", "day"}  BY <1>1
<1>5. SameDate(Filled(x), x)
  BY <1>4 DEF SameDate, Filled, Register, DateRegister
<1>6. Filled(x) \in Values
  <2>1. \A r \in Register : (IF r \in DOMAIN x THEN x[r] ELSE 0) \in Nat
    BY <1>3, <1>4 DEF DateInRange
  <2> QED BY <2>1 DEF Filled, Values
<1> QED BY <1>1, <1>3, <1>5, <1>6 DEF SameDate, DateInRange

LEMMA BlankValue == Blank \in Values
BY DEF Blank, Values

-----------------------------------------------------------------------------
(* Every step. *)
LEMMA NextClock == ClockInv /\ [Next]_vars => ClockInv'
<1> SUFFICES ASSUME ClockInv, [Next]_vars PROVE ClockInv'  OBVIOUS
<1>1. /\ sets \in 0..MaxSets /\ alarm \in {"none", "waiting", "rung"}
      /\ polled \in BOOLEAN /\ ticked \in BOOLEAN
  BY DEF ClockInv, ClockTyped
<1>2. CASE Tick  BY <1>2, TickClock
<1>3. CASE Access  BY <1>3, AccessClock
<1>4. CASE Return  BY <1>1, <1>4, EndClock DEF Return, Finished
<1>5. CASE SetDateReturn  BY <1>1, <1>5, EndClock DEF SetDateReturn
<1>6. CASE GetTime  BY <1>1, <1>6, BlankValue, BeginClock DEF GetTime, Query
<1>7. CASE GetDate  BY <1>1, <1>7, BlankValue, BeginClock DEF GetDate, Query
<1>8. CASE SetTime
  <2>1. PICK t \in TypedTime :
          Begin("settime", TimeOrder, SetTimeArgs(t.hour, t.min, t.sec), Filled(t))
    BY <1>8 DEF SetTime
  <2>2. sets' \in 0..MaxSets  BY <1>1, <1>8, ClockAssumption DEF SetTime
  <2> QED BY <1>8, <2>1, <2>2, TypedTimes, BeginClock DEF SetTime
<1>9. CASE SetDate
  <2>1. PICK x \in TypedDate : Begin("setdate", DateOrder, Filled(x), Filled(x))
    BY <1>9 DEF SetDate
  <2>2. sets' \in 0..MaxSets  BY <1>1, <1>9, ClockAssumption DEF SetDate
  <2> QED BY <1>9, <2>1, <2>2, TypedDates, BeginClock DEF SetDate
<1>10. CASE SetAlarm
  <2>1. PICK t \in TypedTime : target' = Seconds(t)  BY <1>10 DEF SetAlarm
  <2>2. target' \in Nat  BY <2>1, TypedTimes, SecondsInNat
  <2>3. /\ alarm' = "waiting"
        /\ UNCHANGED <<rtc, job, ticked, began, polled, spoilt, midnights, sets>>
    BY <1>10 DEF SetAlarm
  <2>4. Now' = Now  BY <2>3 DEF Now
  <2>5. ClockTyped'  BY <2>2, <2>3, <2>4 DEF ClockInv, ClockTyped
  <2>6. ReadsInOrder'
    BY <2>3, <2>4 DEF ClockInv, ReadsInOrder, ReadInOrder, Old, Fresh
  <2>7. SetsTime'  BY <2>3, <2>4 DEF ClockInv, SetsTime, TimeAhead, TimeWritten
  <2>8. SetsDate'  BY <2>3, <2>4 DEF ClockInv, SetsDate, DateWritten
  <2>9. DatesReal'  BY <2>3, <2>4 DEF ClockInv, DatesReal
  <2> QED BY <2>5, <2>6, <2>7, <2>8, <2>9 DEF ClockInv
<1>11. CASE Poll  BY <1>1, <1>11, BlankValue, BeginClock DEF Poll, Query
<1>12. CASE PollAgain  BY <1>1, <1>12, EndClock DEF PollAgain, Finished
<1>13. CASE Ring  BY <1>13, EndClock DEF Ring, Finished
<1>14. CASE UNCHANGED vars
  <2>1. UNCHANGED <<rtc, alarm, target, job, ticked, began, polled, spoilt, midnights, sets>>
    BY <1>14 DEF vars
  <2>2. Now' = Now  BY <2>1 DEF Now
  <2>3. ClockTyped'  BY <2>1, <2>2 DEF ClockInv, ClockTyped
  <2>4. ReadsInOrder'
    BY <2>1, <2>2 DEF ClockInv, ReadsInOrder, ReadInOrder, Old, Fresh
  <2>5. SetsTime'  BY <2>1, <2>2 DEF ClockInv, SetsTime, TimeAhead, TimeWritten
  <2>6. SetsDate'  BY <2>1, <2>2 DEF ClockInv, SetsDate, DateWritten
  <2>7. DatesReal'  BY <2>1, <2>2 DEF ClockInv, DatesReal
  <2> QED BY <2>3, <2>4, <2>5, <2>6, <2>7 DEF ClockInv
<1> QED BY <1>2, <1>3, <1>4, <1>5, <1>6, <1>7, <1>8, <1>9, <1>10, <1>11, <1>12, <1>13, <1>14
      DEF Next

LEMMA ClockAlways == Spec => []ClockInv
BY InitClock, NextClock, PTL DEF Spec

-----------------------------------------------------------------------------
(* What was read in order, with a second passing at most once in between, is *)
(* not before the time b it began at, and less than an hour ahead of n.      *)
Units3(v, s, m, h) == v.sec = s /\ v.min = m /\ v.hour = h

LEMMA TornReading ==
  ASSUME NEW b, NEW n, NEW v, InRange(b), TimeInRange(n),
         SameTime(n, b) \/ SameTime(n, NextSecond(b)),
         \/ Units3(v, b.sec, b.min, b.hour) \/ Units3(v, b.sec, b.min, n.hour)
         \/ Units3(v, b.sec, n.min, n.hour) \/ Units3(v, n.sec, n.min, n.hour),
         ~(Seconds(n) < Seconds(b))
  PROVE  /\ Seconds(v) \in Nat /\ Seconds(v) >= Seconds(b)
         /\ Seconds(v) < Seconds(n) + MinutesPerHour * SecondsPerMinute
<1> DEFINE Hour == MinutesPerHour * SecondsPerMinute
           A(x) == x.hour * Hour
           B(x) == x.min * SecondsPerMinute
<1>1. /\ MinutesPerHour \in Nat \ {0} /\ SecondsPerMinute \in Nat \ {0}
      /\ TimeInRange(b) /\ TimeInRange(v)
  BY Units DEF InRange, TimeInRange, Units3
<1>2. Hour \in Nat \ {0}  BY <1>1
<1>3. ASSUME NEW x, TimeInRange(x)
      PROVE  /\ Seconds(x) = A(x) + B(x) + x.sec
             /\ A(x) \in Nat /\ B(x) \in Nat /\ x.sec \in Nat /\ x.sec < SecondsPerMinute
             /\ B(x) + SecondsPerMinute <= Hour
  <2>1. /\ x.hour \in Nat /\ x.min \in Nat /\ x.sec \in Nat
        /\ x.sec < SecondsPerMinute /\ x.min + 1 <= MinutesPerHour
    BY <1>3, Units DEF TimeInRange
  <2>2. (x.hour * MinutesPerHour) * SecondsPerMinute = x.hour * Hour
    BY <1>1, <2>1
  <2>3. A(x) \in Nat /\ B(x) \in Nat  BY <1>1, <1>2, <2>1
  <2>4. (x.min + 1) * SecondsPerMinute <= Hour
        /\ (x.min + 1) * SecondsPerMinute = B(x) + SecondsPerMinute
    BY <1>1, <2>1
  <2>5. Seconds(x) = A(x) + B(x) + x.sec  BY <1>3, <2>2, SecondsInNat
  <2> QED BY <2>1, <2>3, <2>4, <2>5
<1>4. /\ \A x, y : x.hour = y.hour => A(x) = A(y)
      /\ \A x, y : x.min = y.min => B(x) = B(y)
  OBVIOUS
<1>5. \/ Units3(n, b.sec, b.min, b.hour)
      \/ Units3(n, b.sec + 1, b.min, b.hour)
      \/ /\ Units3(n, 0, b.min + 1, b.hour) /\ b.sec + 1 = SecondsPerMinute
         /\ B(n) = B(b) + SecondsPerMinute
      \/ /\ Units3(n, 0, 0, b.hour + 1) /\ B(b) + SecondsPerMinute = Hour
         /\ b.sec + 1 = SecondsPerMinute /\ A(n) = A(b) + Hour /\ B(n) = 0
      \/ Units3(n, 0, 0, 0) /\ A(n) = 0 /\ B(n) = 0
  <2>1. b.hour \in Nat /\ b.min \in Nat /\ b.sec \in Nat  BY <1>1, Units DEF TimeInRange
  <2>2. /\ (b.min + 1) * SecondsPerMinute = B(b) + SecondsPerMinute
        /\ (b.hour + 1) * Hour = A(b) + Hour
        /\ 0 * SecondsPerMinute = 0 /\ 0 * Hour = 0
    BY <1>1, <1>2, <2>1
  <2>3. CASE SameTime(n, b)  BY <2>3 DEF SameTime, Units3
  <2>4. CASE SameTime(n, NextSecond(b))
    <3>1. \/ Units3(n, b.sec + 1, b.min, b.hour)
          \/ Units3(n, 0, b.min + 1, b.hour) /\ b.sec + 1 = SecondsPerMinute
          \/ /\ Units3(n, 0, 0, b.hour + 1)
             /\ b.sec + 1 = SecondsPerMinute /\ b.min + 1 = MinutesPerHour
          \/ Units3(n, 0, 0, 0)
      BY <2>4, Carries DEF SameTime, Units3
    <3> QED BY <2>2, <3>1 DEF Units3
  <2> QED BY <2>3, <2>4
<1> HIDE DEF A, B, Hour
<1>6. /\ Seconds(b) = A(b) + B(b) + b.sec /\ Seconds(n) = A(n) + B(n) + n.sec
      /\ Seconds(v) = A(v) + B(v) + v.sec
      /\ A(b) \in Nat /\ B(b) \in Nat /\ b.sec \in Nat
      /\ A(n) \in Nat /\ B(n) \in Nat /\ n.sec \in Nat
      /\ A(v) \in Nat /\ B(v) \in Nat /\ v.sec \in Nat
      /\ b.sec < SecondsPerMinute /\ v.sec < SecondsPerMinute
      /\ B(b) + SecondsPerMinute <= Hour /\ B(v) + SecondsPerMinute <= Hour
  BY <1>1, <1>3
<1>7. Seconds(n) >= Seconds(b)  BY <1>6
<1>8. \/ A(v) = A(b) /\ B(v) = B(b) /\ v.sec = b.sec
      \/ A(v) = A(n) /\ B(v) = B(b) /\ v.sec = b.sec
      \/ A(v) = A(n) /\ B(v) = B(n) /\ v.sec = b.sec
      \/ A(v) = A(n) /\ B(v) = B(n) /\ v.sec = n.sec
  BY <1>4 DEF Units3
<1>9. \/ A(n) = A(b) /\ B(n) = B(b) /\ n.sec = b.sec
      \/ A(n) = A(b) /\ B(n) = B(b) /\ n.sec = b.sec + 1
      \/ /\ A(n) = A(b) /\ B(n) = B(b) + SecondsPerMinute /\ n.sec = 0
         /\ b.sec + 1 = SecondsPerMinute
      \/ /\ A(n) = A(b) + Hour /\ B(n) = 0 /\ n.sec = 0
         /\ b.sec + 1 = SecondsPerMinute /\ B(b) + SecondsPerMinute = Hour
      \/ A(n) = 0 /\ B(n) = 0 /\ n.sec = 0
  BY <1>4, <1>5 DEF Units3
<1>10. Seconds(v) \in Nat /\ Seconds(v) >= Seconds(b) /\ Seconds(v) < Seconds(n) + Hour
  <2>1. A(n) + B(n) + n.sec >= A(b) + B(b) + b.sec  BY <1>6, <1>7
  <2>2. /\ A(v) + B(v) + v.sec >= A(b) + B(b) + b.sec
        /\ A(v) + B(v) + v.sec < A(n) + B(n) + n.sec + Hour
    <3>1. PICK s \in Nat, h \in Nat, ab \in Nat, bb \in Nat, cb \in Nat,
               an \in Nat, bn \in Nat, cn \in Nat, av \in Nat, bv \in Nat, cv \in Nat :
            /\ s = SecondsPerMinute /\ h = Hour /\ ab = A(b) /\ bb = B(b) /\ cb = b.sec
            /\ an = A(n) /\ bn = B(n) /\ cn = n.sec /\ av = A(v) /\ bv = B(v) /\ cv = v.sec
      BY <1>1, <1>2, <1>6
    <3>2. \/ av = ab /\ bv = bb /\ cv = cb
          \/ av = an /\ bv = bb /\ cv = cb
          \/ av = an /\ bv = bn /\ cv = cb
          \/ av = an /\ bv = bn /\ cv = cn
      BY <1>8, <3>1
    <3>3. \/ an = ab /\ bn = bb /\ cn = cb
          \/ an = ab /\ bn = bb /\ cn = cb + 1
          \/ an = ab /\ bn = bb + s /\ cn = 0 /\ cb + 1 = s
          \/ an = ab + h /\ bn = 0 /\ cn = 0 /\ cb + 1 = s /\ bb + s = h
          \/ an = 0 /\ bn = 0 /\ cn = 0
      BY <1>9, <3>1
    <3>4. cb < s /\ bb + s <= h /\ an + bn + cn >= ab + bb + cb
      BY <1>6, <2>1, <3>1
    <3>5. av + bv + cv >= ab + bb + cb /\ av + bv + cv < an + bn + cn + h
      BY <3>2, <3>3, <3>4
    <3> QED BY <3>1, <3>5
  <2> QED BY <1>6, <2>2
<1> QED BY <1>10 DEF Hour

(* The same for a date: what was read, year first, is not after n. *)
LEMMA NextDay ==
  ASSUME NEW b, InRange(b)
  PROVE  LET n == NextSecond(b)
         IN  \/ SameDate(n, b)
             \/ n.day = b.day + 1 /\ n.month = b.month /\ n.year = b.year
             \/ n.day = 1 /\ n.month = b.month + 1 /\ n.year = b.year
             \/ n.day = 1 /\ n.month = 1 /\ b.month = 12 /\ n.year = b.year + 1
             \/ n.day = 1 /\ n.month = 1 /\ n.year = 0 /\ b.year = 99
BY DEF InRange, DateInRange, NextSecond, SameDate

LEMMA TornDate ==
  ASSUME NEW b, NEW n, NEW v, InRange(b), DateInRange(n),
         SameDate(n, b) \/ SameDate(n, NextSecond(b)),
         v.year \in {b.year, n.year}, v.month \in {b.month, n.month}, v.day \in {b.day, n.day},
         v.year = b.year \/ v.month = n.month, v.month = b.month \/ v.day = n.day,
         DayNumber(b) <= DayNumber(n)
  PROVE  DayNumber(v) <= DayNumber(n)
<1>1. b.year \in 0..99 /\ b.month \in 1..12 /\ b.day \in 1..31
  BY DEF InRange, DateInRange
<1>2. n.year \in 0..99 /\ n.month \in 1..12 /\ n.day \in 1..31
  BY DEF DateInRange
<1>3. \/ SameDate(n, b)
      \/ n.day = b.day + 1 /\ n.month = b.month /\ n.year = b.year
      \/ n.day = 1 /\ n.month = b.month + 1 /\ n.year = b.year
      \/ n.day = 1 /\ n.month = 1 /\ b.month = 12 /\ n.year = b.year + 1
      \/ n.day = 1 /\ n.month = 1 /\ n.year = 0 /\ b.year = 99
  BY NextDay DEF SameDate
<1>4. PICK by \in 0..99, bm \in 1..12, bd \in 1..31 :
        by = b.year /\ bm = b.month /\ bd = b.day
  BY <1>1
<1>5. PICK ny \in 0..99, nm \in 1..12, nd \in 1..31 :
        ny = n.year /\ nm = n.month /\ nd = n.day
  BY <1>2
<1>6. PICK vy \in 0..99, vm \in 1..12, vd \in 1..31 :
        vy = v.year /\ vm = v.month /\ vd = v.day
  <2>1. v.year \in 0..99 /\ v.month \in 1..12 /\ v.day \in 1..31  BY <1>1, <1>2
  <2> QED BY <2>1
<1>7. /\ (vy = by \/ vy = ny) /\ (vm = bm \/ vm = nm) /\ (vd = bd \/ vd = nd)
      /\ (vy = by \/ vm = nm) /\ (vm = bm \/ vd = nd)
  BY <1>4, <1>5, <1>6
<1>8. \/ ny = by /\ nm = bm /\ nd = bd
      \/ nd = bd + 1 /\ nm = bm /\ ny = by
      \/ nd = 1 /\ nm = bm + 1 /\ ny = by
      \/ nd = 1 /\ nm = 1 /\ bm = 12 /\ ny = by + 1
      \/ nd = 1 /\ nm = 1 /\ ny = 0 /\ by = 99
  BY <1>3, <1>4, <1>5 DEF SameDate
<1>9. (by * 12 + bm) * 31 + bd <= (ny * 12 + nm) * 31 + nd
  BY <1>4, <1>5 DEF DayNumber
<1>10. (vy * 12 + vm) * 31 + vd <= (ny * 12 + nm) * 31 + nd
  BY <1>7, <1>8, <1>9
<1> QED BY <1>5, <1>6, <1>10 DEF DayNumber

-----------------------------------------------------------------------------
(* What the invariant says of a finished job. *)
LEMMA FinishedTime ==
  ASSUME ClockInv, Finished("poll") \/ Finished("gettime"), ~NewDay
  PROVE  /\ Seconds(job.vals) \in Nat /\ Seconds(job.vals) >= Seconds(began)
         /\ Seconds(job.vals) < Seconds(Now) + MinutesPerHour * SecondsPerMinute
         /\ ticked \/ Seconds(job.vals) = Seconds(Now)
<1>1. job.kind \in {"poll", "gettime"} /\ job.regs = <<>>  BY DEF Finished
<1>2. job \in Jobs /\ InRange(began) /\ TimeInRange(Now)
  BY <1>1, NoJobFields DEF ClockInv, ClockTyped, InRange
<1>3. /\ ReadInOrder("sec", "min", "hour")
      /\ SameTime(Now, began) \/ SameTime(Now, NextSecond(began))
      /\ ticked \/ SameTime(Now, began)
  BY <1>1 DEF ClockInv, ReadsInOrder, Reads
<1>4. \/ Units3(job.vals, began.sec, began.min, began.hour)
      \/ Units3(job.vals, began.sec, began.min, Now.hour)
      \/ Units3(job.vals, began.sec, Now.min, Now.hour)
      \/ Units3(job.vals, Now.sec, Now.min, Now.hour)
  BY <1>1, <1>3 DEF ReadInOrder, Old, Fresh, Units3
<1>5. SameTime(Now, began) => Seconds(job.vals) = Seconds(Now)
  BY <1>4 DEF SameTime, Units3, Seconds
<1> QED BY <1>2, <1>3, <1>4, <1>5, TornReading DEF NewDay

LEMMA FinishedDate == ClockInv => DateNotAhead
<1> SUFFICES ASSUME ClockInv, Finished("getdate"), DayNumber(began) <= DayNumber(Now)
             PROVE  DayNumber(job.vals) <= DayNumber(Now)
  BY DEF DateNotAhead
<1>1. job.kind = "getdate" /\ job.regs = <<>>  BY DEF Finished
<1>2. job \in Jobs /\ InRange(began) /\ DateInRange(Now)
  BY <1>1, NoJobFields DEF ClockInv, ClockTyped, InRange
<1>3. /\ ReadInOrder("year", "month", "day")
      /\ SameDate(Now, began) \/ SameDate(Now, NextSecond(began))
  BY <1>1 DEF ClockInv, ReadsInOrder, Reads
<1>4. /\ job.vals.year \in {began.year, Now.year}
      /\ job.vals.month \in {began.month, Now.month}
      /\ job.vals.day \in {began.day, Now.day}
      /\ job.vals.year = began.year \/ job.vals.month = Now.month
      /\ job.vals.month = began.month \/ job.vals.day = Now.day
  BY <1>1, <1>3 DEF ReadInOrder, Old, Fresh
<1> QED BY <1>2, <1>3, <1>4, TornDate

LEMMA FinishedSet == ClockInv => SetTakes
<1> SUFFICES ASSUME ClockInv, Finished("settime")
             PROVE  /\ ~ticked => \A r \in TimeRegister : Now[r] = job.typed[r]
                    /\ Seconds(Now) <= Seconds(job.typed) + 1
  BY DEF SetTakes
<1>1. job.kind = "settime" /\ job.regs = <<>>  BY DEF Finished
<1>2. TimeInRange(job.typed) /\ IF ticked THEN TimeAhead ELSE TimeWritten
  BY <1>1 DEF ClockInv, SetsTime
<1>3. CASE ticked
  BY <1>1, <1>2, <1>3 DEF TimeAhead
<1>4. CASE ~ticked
  <2>1. SameTime(Now, job.typed)  BY <1>1, <1>2, <1>4 DEF TimeWritten
  <2>2. \A r \in TimeRegister : Now[r] = job.typed[r]
    BY <2>1 DEF SameTime, TimeRegister
  <2>3. Seconds(Now) = Seconds(job.typed)  BY <2>1 DEF SameTime, Seconds
  <2>4. Seconds(job.typed) \in Nat  BY <1>2, SecondsInNat
  <2> QED BY <2>2, <2>3, <2>4
<1> QED BY <1>3, <1>4

LEMMA TypedClock == ClockInv => ClockTypeOK
<1> SUFFICES ASSUME ClockInv PROVE ClockTypeOK  OBVIOUS
<1>1. InRange(Now) /\ rtc = [r \in Register |-> Bcd(Now[r])]
  BY DEF ClockInv, ClockTyped
<1>2. DOMAIN rtc = Register /\ \A r \in Register : rtc[r] = Bcd(Now[r]) /\ Now[r] \in 0..99
  BY <1>1, InRangeDigits
<1>3. \A r \in Register : rtc[r] \in 0..255 /\ rtc[r] % 16 <= 9
  <2> SUFFICES ASSUME NEW r \in Register PROVE rtc[r] \in 0..255 /\ rtc[r] % 16 <= 9
    OBVIOUS
  <2>1. Bcd(Now[r]) \in 0..255 /\ Bcd(Now[r]) % 16 <= 9  BY <1>2, BcdDigits
  <2> QED BY <1>2, <2>1
<1>4. [r \in TimeRegister |-> Now[r]] \in TimeOfDay
  BY <1>1 DEF InRange, TimeInRange, TimeOfDay, TimeRegister
<1>5. job.kind \in Reads \cup Writes \cup {"none"}
  BY NoJobFields DEF ClockInv, ClockTyped
<1> QED BY <1>1, <1>2, <1>3, <1>4, <1>5
      DEF ClockTypeOK, ClockInv, ClockTyped, InRange, DateInRange

(* The alarm rings. *)
LEMMA RingsWhenTorn ==
  ASSUME ClockInv, [Next]_vars, alarm = "waiting", alarm' = "rung", Seconds(Now) < target
  PROVE  ticked /\ (NewDay \/ Seconds(Now) + MinutesPerHour * SecondsPerMinute > target)
<1>1. Ring
  BY DEF Next, vars, Tick, Access, Return, SetDateReturn, GetTime, GetDate, SetTime, SetDate,
         SetAlarm, Poll, PollAgain, Query
<1>2. Finished("poll") /\ ~(Seconds(job.vals) < target)
  BY <1>1 DEF Ring, Early
<1>3. target \in Nat /\ Seconds(Now) \in Nat /\ ticked \in BOOLEAN
  BY SecondsInNat DEF ClockInv, ClockTyped, InRange
<1>4. CASE ~NewDay
  <2>1. MinutesPerHour * SecondsPerMinute \in Nat  BY Units
  <2>2. /\ Seconds(job.vals) \in Nat
        /\ Seconds(job.vals) < Seconds(Now) + MinutesPerHour * SecondsPerMinute
        /\ ticked \/ Seconds(job.vals) = Seconds(Now)
    BY <1>2, <1>4, FinishedTime
  <2> QED BY <1>2, <1>3, <2>1, <2>2
<1>5. CASE NewDay
  <2>1. Seconds(Now) < Seconds(began)  BY <1>5 DEF NewDay
  <2>2. job.kind = "poll" /\ job # NoJob  BY <1>2, NoJobFields DEF Finished
  <2>3. InRange(began)  BY <2>2 DEF ClockInv, ClockTyped
  <2>4. Seconds(began) \in Nat  BY <2>3, SecondsInNat DEF InRange
  <2>5. ~ticked => SameTime(Now, began)
    BY <2>2 DEF ClockInv, ReadsInOrder, Reads
  <2>6. SameTime(Now, began) => Seconds(Now) = Seconds(began)  BY DEF SameTime, Seconds
  <2> QED BY <1>3, <1>5, <2>1, <2>4, <2>5, <2>6
<1> QED BY <1>4, <1>5

-----------------------------------------------------------------------------
(* The chip always holds two decimal digits in the range of the unit.        *)
THEOREM ClockTypeCorrect == Spec => []ClockTypeOK
BY ClockAlways, TypedClock, PTL

(* A time that is read is never before the time its reading began at.        *)
THEOREM NeverBehind == Spec => []PollNotBehind
<1>1. ClockInv => PollNotBehind  BY FinishedTime DEF PollNotBehind
<1> QED BY <1>1, ClockAlways, PTL

(* A date that is read is never one still to come. *)
THEOREM NeverAhead == Spec => []DateNotAhead
BY ClockAlways, FinishedDate, PTL

(* The date on the chip is one the calendar has. *)
THEOREM CalendarDates == Spec => []DatesReal
<1>1. ClockInv => DatesReal  BY DEF ClockInv
<1> QED BY <1>1, ClockAlways, PTL

(* What setTime sets is what was typed, a second more at most. *)
THEOREM TimeIsSet == Spec => []SetTakes
BY ClockAlways, FinishedSet, PTL

(* The alarm rings early only after a torn read, and by less than an hour. *)
THEOREM EarlyRing == Spec => EarlyOnlyWhenTorn
<1>1. ClockInv /\ [Next]_vars
      => [alarm = "waiting" /\ alarm' = "rung" /\ Seconds(Now) < target =>
            /\ ticked
            /\ NewDay \/ Seconds(Now) + MinutesPerHour * SecondsPerMinute > target]_vars
  BY RingsWhenTorn
<1> QED BY <1>1, InitClock, NextClock, PTL DEF Spec, EarlyOnlyWhenTorn
=============================================================================
