CONSTANTS
  j1 = j1  j2 = j2  j3 = j3
  w1 = w1  w2 = w2
  s1 = s1  s2 = s2
  NoJob = NoJob  NoRun = NoRun
  Jobs = {j1, j2, j3}
  Runs = {w1, w2}
  Listeners = {s1, s2}
  BodyLen <- MCBodyLen
  MaxJobs = 2
  MaxBytes = 2
  MaxSubs = 1
  MaxRetries = 1
  Ttl = TRUE
SPECIFICATION Spec
CONSTRAINT MCSmall
SYMMETRY MCSymmetry
INVARIANT OneHolderPerJob
INVARIANT NoJobForgotten
INVARIANT ListenersSeeOutcome
CHECK_DEADLOCK FALSE
