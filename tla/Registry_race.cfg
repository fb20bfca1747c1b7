SPECIFICATION Spec
CONSTANTS
  c1 = c1
  v1 = v1
  s1 = s1
  d1 = d1
  d2 = d2
  l1 = l1
  n1 = n1
  n2 = n2
  Requests = {r1, r2, r3}
  Existing = {c1, v1, s1}
  Documents = {d1, d2}
  Plates = {l1}
  Names = {n1, n2, n0}
  EmptyName = n0
  None = None
  Cpfs = {d1}
  Tokens = {d1}
  Calls <- MCCalls
  StartingRows <- MCStartingRows
SYMMETRY MCSymmetry
INVARIANTS TypeOK RegistryConsistent DeletedIsGone
PROPERTIES LockOutIsFinal ImplementsDirectory
