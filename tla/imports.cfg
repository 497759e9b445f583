SPECIFICATION Spec
CONSTANTS
  a = a
  b = b
  c = c
  d = d
  Path <- FourPaths
  Root = a
  Registries <- AnyGraph
  Limits <- TwoOrFour
  Absent = Absent
  Broken = Broken
  None = None
INVARIANTS LoadedExactly RefusalsExact VisibilityExact
PROPERTIES LoadsAtomically
