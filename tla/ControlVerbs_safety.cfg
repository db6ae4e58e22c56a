CONSTANTS
  Services = {nginx}
  Probed = {}
  Runs = {r1, r2}
  Flags = {g1}
  None = None
  MaxSends = 1
  Verbs = {"restart"}
  Calls = {c1}
  Capacity = 2
SPECIFICATION ControlSpec
SYMMETRY RunSymmetry
INVARIANTS NoVainWait RestartRestarts
CONSTRAINTS NothingRecorded EndsWithTheAnswer OneLateStop
