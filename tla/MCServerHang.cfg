CONSTANTS
  r1 = r1  r2 = r2  t1 = t1  u1 = u1  u2 = u2  v1 = v1  a1 = a1  a2 = a2
  NoReq = NoReq
  Requests = {r1, r2}
  Slots = {t1}
  Capacity = 1
  Timeout = 2
  Uploads = {u1, u2}
  Streams = {u2}
  Sessions = {v1}
  Admins = {a1}
  Triplets = {t1}
  MaxEngines = 2
  MayHang = {u1, u2, v1}
  Nobody = Nobody
  Places = 2
  StallLimit = 2
  SendLimit = 2
  Addresses = {a1, a2}
  Configs <- MCConfigs
  Minute = 2
  MaxRpm = 2
  EvictAfter = 5
  MaxBuckets = 1
  Sample = 1
  Lag = 1
  MaxTime = 7
  j1 = j1  j2 = j2  w1 = w1  w2 = w2
  NoJob = NoJob  NoRun = NoRun
  Jobs = {j1, j2}
  Runs = {w1}
  Listeners = {}
  BodyLen <- MCBodyLen
  MaxJobs = 2
  MaxBytes = 3
  MaxSubs = 1
  MaxRetries = 1
  Ttl = FALSE
SPECIFICATION MCSpec
PROPERTY HungStreamCloses
CHECK_DEADLOCK FALSE
