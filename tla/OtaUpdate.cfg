\* Commands, failures of every call, and crashes.
SPECIFICATION FairSpec
CONSTANTS
  File = {f1, f2}
  Factory = factory
  Torn = torn
  MaxRequests = 5
  Chunks = 2
INVARIANTS
  TypeOK
  AlwaysBootable
  BootsAskedImage
PROPERTIES
  TriggerServed
  UpdateIsAtomic
CHECK_DEADLOCK FALSE
