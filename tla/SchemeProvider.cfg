\* Three threads get, add and remove schemes.
SPECIFICATION Spec
CONSTANTS
  t1 = t1
  t2 = t2
  t3 = t3
  Threads = {t1, t2, t3}
  Schemes <- MCSchemes
  Inner <- MCInner
  Own <- MCOwn
  OptionsInUse <- MCOptionsInUse
  Null = Null
SYMMETRY Symmetry
INVARIANTS TypeOK HandlersMatch
PROPERTIES NeverReplaced UnracedGetsAreExact
