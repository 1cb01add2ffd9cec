SPECIFICATION WriteSpec
CONSTANTS
  ip1 = ip1
  ip2 = ip2
  room1 = room1
  room2 = room2
  long = long
  short = short
  Calls <- SomeCalls
  Posters = {q1, q2, q3}
  Addresses = {ip1, ip2}
  LaneRooms = {room1, room2}
  Texts = {long, short}
  LongTexts = {long}
  WriteBurst = 2
  WritePeriod = 1
  RoomBurst = 1
  RoomPeriod = 2
  MaxBuckets = 2
  Window = 1
  MaxCopies = 2
  MaxDupeKeys = 1
  MaxClock = 2
  A = A
  B = B
  OwnerKeys = {A, B}
  Nobody = nobody
  Lists <- SomeLists
  NoteWriters = {w1, w2}
  RoomWriters = {p1}
  Conditions = {TRUE, FALSE}
  MaxNonce = 2
  MaxPosts = 1
  MaxWeeks = 1
  Agents = {k1}
  NoAgent = nobody
  Tools = {q1, q2, q3}
  MaxMillis = 3
  MaxLives = 2
  WaitsAsked <- SomeWaits
  MaxHold = 4
  Timeout = 1
  Ceiling = 3
  MaxLines = 4
  Limits = {1, 2}
SYMMETRY Symmetry
INVARIANTS LaneInv OwnershipInv NoUnlistedPost 
PROPERTIES RefusedForCause BurnsForward
