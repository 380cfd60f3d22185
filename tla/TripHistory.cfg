SPECIFICATION HistorySpec
CONSTANTS
  Trips = {"t1", "t2", "t3"}
  Reads = {"k1"}
  Window = 1
  MaxEntries = 2
  MaxRows = 4
  MaxDay = 2
  MaxKey = 2
  Absent = Absent
INVARIANT HistoryTypeOK
PROPERTY HistoryComplete
