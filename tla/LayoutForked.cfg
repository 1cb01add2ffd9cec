SPECIFICATION FilesSpec
CONSTANTS
  a = a
  b = b
  c = c
  s1 = s1
  s2 = s2
  Rooms = {a, b, c}
  Shards = {s1, s2}
  ShardOf <- TwoShards
  None = none
  Setters = {p1, p2}
  Floors = {3}
  Seeds <- OneSeed
  Env = {"crash"}
  MaxSets = 0
  MaxEdits = 0
  Appenders = {p1, p2}
  Lookers = {l1}
  Sweeper = sweeper
  Absent = absent
  MaxRecords = 2
  MaxReaps = 2
  SweepsTheGap = TRUE
  Creators = {p1, p2}
  NoteKeys = {x1, x2, x3}
  NoCount = nocount
  NsCap = 2
  UncleanStart = TRUE
  MaxCreates = 0
  MaxPasses = 0
  Handlers = {x1, x2, x3}
  NoHandler = nohandler
  ReapEvery = 2
  SampleEvery = 2
  SampleKeep = 3
  ReadMayFail = FALSE
  LastTick = 0
SYMMETRY Symmetry
INVARIANTS NoFork
