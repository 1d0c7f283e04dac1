\* Three packets, after which the sensor is silent.
SPECIFICATION PmFairSpec
CONSTANTS
  MaxSamples = 3
INVARIANTS
  PmTypeOK
PROPERTIES
  SilenceClears
CHECK_DEADLOCK FALSE
