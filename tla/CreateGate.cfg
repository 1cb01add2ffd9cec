SPECIFICATION Spec
CONSTANTS
  Names = {a, b, c}
  Workers = {w1, w2}
  Cap = 2
  Env = {"crash", "powerloss"}
  MaxCalls = 3
SYMMETRY GateSymmetry
INVARIANTS CountCovers CapHolds
PROPERTIES PassHeals
