SPECIFICATION Spec
CONSTANTS
  k = k
  m = m
  a = a
  b = b
  Threads = {k, m, a, b}
  Main = idle
  Procs = {kp, p1, p2, p3}
  KProc = kp
  KInit = k
  Mutexes = {}
  None = None
  Program <- ProcessWorkload
  Spaces = {s1, s2, s3}
  KSpace = ks
  VgaEnableInts = {FALSE, TRUE}
  KbdCapacity = 2
INVARIANTS
  SpacesConserved
  CharHasReader
PROPERTY
  ImplementsProcessTable
SYMMETRY
  ThreadSymmetry
