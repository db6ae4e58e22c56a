CONSTANTS
  Passwords = {p1, p2}
  Empty = Empty
  Partial = Partial
  None = None
  Resets = {r1}
SPECIFICATION Spec
INVARIANT InitializedIsLocked
