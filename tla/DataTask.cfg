\* A change of year between two dates, two numbers for the log, restarts at any step.
SPECIFICATION DataSpec
CONSTANTS
  Calendar <- MCCalendar
  MaxLog = 2
  MaxGen = 3
INVARIANTS
  DataTypeOK
  ArchivesInOrder
  NoFutureDate
  RowsUnderHeader
  DanglingNotReused
