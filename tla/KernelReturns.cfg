SPECIFICATION LockFairSpec
CONSTANTS
  k = k
  m = m
  a = a
  b = b
  Threads = {k, m, a, b}
  Main = idle
  Procs = {kp, p1, p2}
  KProc = kp
  KInit = k
  Mutexes = {x}
  None = None
  Program <- ReturnWorkload
  Spaces = {s1, s2}
  KSpace = ks
  VgaEnableInts = {FALSE, TRUE}
  KbdCapacity = 1
PROPERTIES
  LockReturns
  WaitReturns
