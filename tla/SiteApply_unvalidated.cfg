CONSTANTS
  Services = {nginx}
  Probed = {}
  Ready <- MCReady
  Grace <- MCGrace
  Drain = 0
  Loops = {a1}
  Timeout <- MCTimeout
  Files = {nginx_conf, site_conf}
  Always = {nginx_conf}
  Contents = {good, bad}
  Rejected = {bad}
  Absent = Absent
  Applies = {a1}
  None = None
  MaxClicks = 1
SPECIFICATION Spec
INVARIANT OnlyAcceptedIsRead
CHECK_DEADLOCK FALSE
