\* A crash tears the last record; the next start appends behind it.
SPECIFICATION LogSpec
CONSTANTS
  Appenders = {a1}
  Durabilities = {"memory", "fsync"}
  MaxSegmentItems = 2
  MaxSegments = 2
  MaxBuffered = 2
  QueueCap = 1
  MaxAppends = 3
  MaxRestarts = 2
  Torn = Torn
INVARIANT AckedIsReadable
CHECK_DEADLOCK FALSE
