CONSTANTS
  Instances = {i1, i2}
  Services = {nginx, mysql}
  Pids = {p1, p2}
  Starts = {t1, t2}
  None = None
SPECIFICATION Spec
SYMMETRY Symmetry
INVARIANTS IInv RecordsAreOurs
PROPERTIES ReapsOnlyOrphans OrphanKeepsRecord
