SPECIFICATION Spec
CONSTANTS
  k = k
  m = m
  a = a
  b = b
  Threads = {k, m, a, b}
  Main = idle
  Procs = {kp, p1}
  KProc = kp
  KInit = k
  Mutexes = {x}
  None = None
  Program <- ThreadsWorkload
  Spaces = {s1}
  KSpace = ks
  VgaEnableInts = {FALSE, TRUE}
  KbdCapacity = 1
INVARIANTS
  TypeOK
  PoolIsRunnable
  BlockedInOneQueue
  CpuThreadIsRunning
  MutualExclusion
  HandOver
  LiveThreadsExact
  ThreadListExact
  NoThreadOutlivesProcess
PROPERTIES
  DeadStayDead
SYMMETRY
  WorkerSymmetry
