CONSTANTS
  Services = {nginx, mysql}
  Probed = {mysql}
  Ready <- MCReady
  Grace <- MCGrace
  Drain = 0
  Loops = {stop_all}
  Timeout <- MCTimeout
  Quit = stop_all
  Calls = {c1}
  MaxClicks = 2
SPECIFICATION FairSpec
INVARIANTS IInv SettledServicesStop StragglersWereAsked
PROPERTY QuitReturns
CHECK_DEADLOCK FALSE
