SPECIFICATION FairSpec
CONSTANTS
  Reqs = {r1, r2, r3}
  Devices = {d1}
  NoDev = NoDev
  Deaf = {r3}
INVARIANTS
  DeviceConserved
  ProcsUnderHolder
  NoLostWakeup
PROPERTIES
  PoolRefines
  EveryRequestEnds
CHECK_DEADLOCK FALSE
