SPECIFICATION EndingSpec
CONSTANTS
  Writers = {t1, t2}
  Reaper = reaper
  Readers = {}
  Env = {"stall"}
  Requests <- WithSigned
  Unsigned = unsigned
  Key = key
  Nonces = {1}
  RingLimits = {2}
  ReadBudget = 2
  Ephemeral = FALSE
  MaxCalls = 3
  MaxSince = 0
  u1 = u1
  u2 = u2
  t1 = t1
  t2 = t2
  t3 = t3
  Workers = {u1, u2}
  Bumpers = {t1, t2, t3}
  WorkerOf <- Home
  Unlocked = unlocked
  Batch = 2
  CounterFaults = {"crash", "replace"}
  MaxChanges = 1
  MaxMessages = 2
INVARIANTS EndingInv
PROPERTIES GenerationCatchesUp AnsweredStaysCounted EveryCallEnds
