SPECIFICATION FairSpec
CONSTANTS
  Names = {a, b}
  Workers = {w1, w2}
  Cap = 1
  Env = {}
  MaxCalls = 2
PROPERTIES NoDrift EverythingEnds
