\* A join that fails, or a station that is told to forget its network.
SPECIFICATION ComposedSpec
CONSTANTS
  Conf = {a, b}
  GoodConf = {a}
  NoConf = none
  Torn = torn
  Clients = {"test", "delete"}
  Failures = {"AUTH_FAIL"}
  Kicks = {}
  IdleLeave = TRUE
  MaxStimuli = 1
  Pinger = {p}
  MaxEvents = 1
  PanicTask = FALSE
PROPERTIES
  OfflineLampLit
CHECK_DEADLOCK FALSE
