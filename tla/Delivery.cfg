SPECIFICATION Spec
CONSTANTS
  s1 = s1
  s2 = s2
  Sessions = {s1, s2}
  u1 = u1
  u2 = u2
  Users = {u1, u2}
  Envelopes <- MCEnvelopes
  FolderCount = 1
  MaxFaults = 2
  MaxCrashes = 1
  MaxSends = 2
  NoOne = NoOne
CHECK_DEADLOCK FALSE
INVARIANTS RefusedMeansAbsent NoDuplicates ReadyRecipientsServed
PROPERTIES EverySubmissionEnds
