\* Every list of up to four records.
SPECIFICATION Spec
CONSTANTS
  Ssid = {s, t}
  Hidden = hidden
  Auth = {0, 1}
  Rssi = {0, 1}
  MaxAps = 4
INVARIANTS
  TypeOK
  FilterCorrect
  FreePlaceIsFirst
CHECK_DEADLOCK FALSE
