CONSTANTS
  Services = {mysql}
  Probed = {mysql}
  Runs = {r1, r2}
  Flags = {g1}
  None = None
  MaxSends = 1
SPECIFICATION FairSpec
PROPERTIES StopCompletes StartResolves ImplementsLifecycle
