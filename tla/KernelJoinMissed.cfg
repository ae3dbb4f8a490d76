SPECIFICATION FairSpec
CONSTANTS
  k = k
  m = m
  a = a
  b = b
  Threads = {k, m, a, b}
  Main = idle
  Procs = {kp, p1}
  KProc = kp
  KInit = k
  Mutexes = {}
  None = None
  Program <- JoinWorkload
  Spaces = {s1}
  KSpace = ks
  VgaEnableInts = {FALSE, TRUE}
  KbdCapacity = 1
PROPERTIES
  JoinReturns
