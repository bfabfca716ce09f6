\* A context that follows the accessor and one bound to its tenant, default modes.
SPECIFICATION Spec
CONSTANTS
  c1 = c1
  c2 = c2
  A = A
  B = B
  k1 = k1
  k2 = k2
  Contexts = {c1, c2}
  LateBound = {c1}
  TenantIds = {A, B}
  Keys = {k1, k2}
  Modes <- DefaultModes
  ManualIds = {Null}
  Null = Null
SYMMETRY Symmetry
INVARIANTS TypeOK LastWriterOwns
PROPERTY RowKeepsTenant
