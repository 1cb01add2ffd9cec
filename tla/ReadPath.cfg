SPECIFICATION ReadSpec
CONSTANTS
  w1 = w1
  l1 = l1
  l2 = l2
  a = a
  b = b
  p = p
  n1 = n1
  n2 = n2
  ListWorkers = {w1}
  Listers = {l1, l2}
  ListerOf <- OneWorker
  MaxViews = 1
  StampMayFail = TRUE
  MaxRoomChanges = 2
  MaxBucket = 1
  MaxTop = 2
  MaxFiles = 2
  Waiters = {x1, x2, x3}
  Callers = {a, b}
  MaxWaiters = 2
  MaxPerCaller = 1
  MaxWait = 2
  Readers = {r1, r2}
  Keys = {rooms}
  NoKey = nokey
  Jobs = {j1, j2}
  NoJob = nojob
  HoldTicks = 0
  MaxAnswers = 2
  MaxTicks = 1
  Pollers = {x1, x2, x3}
  Walks = {v1, v2, v3}
  NoWalk = nowalk
  ViewTicks = 2
  MaxTick = 4
  Listed = {a, b}
  Private = {p}
  Nicks = {n1, n2}
  Start <- TwoSpoke
  Views = {r1, r2}
  ShowLimit = 2
  WindowMessages = 3
  MemoMax = 1
  RingRecords = 3
  MaxPosts = 2
  PostsPerGrain = 2
  MaxGrain = 2
  NoteSetters = {w1}
  Askers = {r1, r2}
  ListTicks = 2
  NoteTicks = 2
  MaxListings = 1
  MaxTopics = 1
  MaxNoteChanges = 1
  MaxBumps = 1
  FirstClock = 1
  MaxClock = 3
  PerMin = 48
  Cost = 5
  Second = 4
  EdgeSeconds = 1
SYMMETRY Symmetry
INVARIANTS ListingInv PollInv EmptyMissedNothing ExportInv EdgeInv  StatsInv OverviewInv  BudgetInv
PROPERTIES SharedForward
CHECK_DEADLOCK FALSE
