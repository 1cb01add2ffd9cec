SPECIFICATION Spec
CONSTANTS
  a = a
  b = b
  c = c
  s1 = s1
  s2 = s2
  Rooms = {a, b, c}
  Shards = {s1, s2}
  ShardOf <- TwoShards
  None = none
  Setters = {p1, p2}
  Floors = {3}
  Seeds <- OneSeed
  Env = {"unreadable"}
  MaxSets = 1
PROPERTIES OthersKept
