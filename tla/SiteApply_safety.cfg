CONSTANTS
  Services = {nginx}
  Probed = {}
  Ready <- MCReady
  Grace <- MCGrace
  Drain = 0
  Loops = {a1, a2}
  Timeout <- MCTimeout
  Files = {nginx_conf, site_conf}
  Always = {nginx_conf}
  Contents = {good, bad}
  Rejected = {bad}
  Absent = Absent
  Applies = {a1, a2}
  None = None
  MaxClicks = 1
SPECIFICATION Spec
INVARIANTS RollbackRestores AcceptedIsOnDisk RestartedServesApplied
SYMMETRY Calls
CHECK_DEADLOCK FALSE
