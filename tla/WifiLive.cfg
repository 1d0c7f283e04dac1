\* Requests are served and the stored network is joined again, whatever two
\* disturbances (a lost link, a failed join, a DELETE) do at any step.
SPECIFICATION FairSpec
CONSTANTS
  Conf = {a, b}
  GoodConf = {a}
  NoConf = none
  Torn = torn
  Clients = {"test", "delete"}
  Failures = {"AUTH_FAIL", "OTHER"}
  Kicks = {"OTHER"}
  IdleLeave = TRUE
  MaxStimuli = 2
  Pinger = {p}
  MaxEvents = 1
  PanicTask = FALSE
PROPERTIES
  RequestsServed
  StoredNetworkRejoined
CHECK_DEADLOCK FALSE
