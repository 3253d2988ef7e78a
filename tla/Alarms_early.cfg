SPECIFICATION Spec
CONSTANTS
  a1 = a1
  a2 = a2
  Alarms <- TwoAlarms
  Periodic = {a1}
  Interval <- Intervals
  MaxAlarms = 2
  QueueLen = 2
INVARIANT NotEarly
