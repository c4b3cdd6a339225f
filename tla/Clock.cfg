SPECIFICATION FairSpec
CONSTANTS
  SecondsPerMinute = 4
  MinutesPerHour = 2
  HoursPerDay = 3
  IntWidth = 256
  Lines <- TypedLines
  StartTimes <- Starts
  StartDates <- Days
  MaxMidnights = 1
  MaxSets = 1
INVARIANTS ClockTypeOK PollNotBehind DateNotAhead DatesReal SetTakes
PROPERTIES EarlyOnlyWhenTorn AlarmRings
CHECK_DEADLOCK FALSE
