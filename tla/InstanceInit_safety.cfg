CONSTANTS
  Passwords = {p1, p2, p3, p4}
  Empty = Empty
  Partial = Partial
  None = None
  Resets = {r1, r2}
SPECIFICATION Spec
INVARIANTS IInv ReadyIsLocked CredentialHeld
PROPERTIES NeverAdopted StagingIsKept InitEnds
