SPECIFICATION RRSpec
CONSTANTS
  Threads = {t1, t2, t3}
  Idle = idle
  None = None
INVARIANTS
  TypeOK
  OneRing
PROPERTIES
  ImplementsScheduler
