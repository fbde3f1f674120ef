CONSTANTS
  login = login
  resend = resend
  NoCall = NoCall
  q1 = q1
  q2 = q2
  Requests <- MCRequests
  Keys <- MCKeys
  Limit <- MCLimit
  Window <- MCWindow
  BucketTTL = 3
  SweepEvery = 2
  MaxBuckets = 1
  Second = 2
  MaxTime = 5
SPECIFICATION Spec
SYMMETRY MCSymmetry
INVARIANTS TypeOK WindowHolds
PROPERTIES RefusalJustified RetryAfterWorks
CHECK_DEADLOCK FALSE
