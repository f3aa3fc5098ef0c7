SPECIFICATION FairSpec
CONSTANTS
  Sessions = {s1, s2}
  Tasks = {t1, t2}
  None = None
  Listed = {t1, t2}
  Window = 2
  MaxDeaths = 1
  MaxOvertaken = 1
  MaxAged = 1
INVARIANTS
  SingleTask
  LiveOwnerKept
PROPERTY
  DeadOwnerReplaced
