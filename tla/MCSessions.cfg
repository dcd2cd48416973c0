SPECIFICATION Spec
CONSTANTS
  t1 = t1
  t2 = t2
  t3 = t3
  t4 = t4
  c1 = c1
  c2 = c2
  phone = phone
  Tokens <- TokensDef
  Jars <- JarsDef
  Mobile <- JarsDef
  Calls <- CallsDef
  JarOf <- JarOfDef
  TabOf <- TabOfDef
  MaxOrphans = 1
SYMMETRY Symmetry
CHECK_DEADLOCK FALSE
INVARIANTS OneLivePerLogin RotationIsNotReuse EndedStaysEnded
