\* Three losses of Wi-Fi or of the broker or failed joins, three clients, two looks at the clock.
SPECIFICATION StartSpec
CONSTANTS
  MaxClients = 3
  MaxDrops = 3
  RetryCount = 3
INVARIANTS
  StartTypeOK
PROPERTIES
  LossReconnects
  FirstClientStarts
  SessionResumes
CHECK_DEADLOCK FALSE
