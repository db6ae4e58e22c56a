CONSTANTS
  Services = {nginx, mysql}
  Probed = {mysql}
  Runs = {r1, r2}
  Flags = {g1, g2}
  None = None
  MaxSends = 1
SPECIFICATION Spec
SYMMETRY RunFlagSymmetry
INVARIANTS OneRunPerService LiveChildIsShown SenderHeld StopNotLost
PROPERTIES HonestVerdict RecordOutlivesChild
