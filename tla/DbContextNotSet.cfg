\* A context may overwrite what is not set.
SPECIFICATION Spec
CONSTANTS
  c1 = c1
  c2 = c2
  A = A
  B = B
  k1 = k1
  k2 = k2
  Contexts = {c1, c2}
  LateBound = {c1}
  TenantIds = {A, B}
  Keys = {k1, k2}
  Modes <- LenientModes
  ManualIds = {Null}
  Null = Null
INVARIANT LastWriterOwns
