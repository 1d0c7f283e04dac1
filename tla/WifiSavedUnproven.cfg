\* A user submits credentials while a join is in progress.
SPECIFICATION Spec
CONSTANTS
  Conf = {a, b}
  GoodConf = {a}
  NoConf = none
  Torn = torn
  Clients = {"post"}
  Failures = {}
  Kicks = {}
  IdleLeave = TRUE
  MaxStimuli = 1
  Pinger = {p}
  MaxEvents = 2
  PanicTask = FALSE
INVARIANTS
  SavedProven
CHECK_DEADLOCK FALSE
