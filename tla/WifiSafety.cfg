\* Every client, both kinds of failure, reboots; the driver always reports a leave.
SPECIFICATION Spec
CONSTANTS
  Conf = {a}
  GoodConf = {a}
  NoConf = none
  Torn = torn
  Clients = {"test", "delete", "post", "scan"}
  Failures = {"AUTH_FAIL", "OTHER"}
  Kicks = {"OTHER"}
  IdleLeave = TRUE
  MaxStimuli = 2
  Pinger = {p}
  MaxEvents = 2
  PanicTask = TRUE
INVARIANTS
  TypeOK
  ConnectedBitTruthful
  LeaveAnswered
  JoinAnswered
  ForgottenStaysForgotten
CHECK_DEADLOCK FALSE
