------------------------------ MODULE MCKernel ------------------------------
(* Workloads for Kernel: the calls that each thread's code makes.          *)
EXTENDS Kernel, TLC

CONSTANTS k, m, a, b   \* threads: the first kernel thread and user threads

Boot == {"create_uthread", "exit"}

\* One process: a main thread starts workers and joins them, as init.c does;
\* all use mutexes and read the keyboard.
ThreadsWorkload ==
  (k :> Boot)
    @@ (m :> {"clone_thread", "join", "getc", "mutex_create", "mutex_lock",
              "mutex_unlock", "mutex_destroy", "exit"})
    @@ [t \in {a, b} |-> {"getc", "mutex_lock", "mutex_unlock",
                          "mutex_destroy", "thread_exit"}]

\* Processes of one thread that fork, replace their image, read the keyboard
\* and wait, and a kernel thread.
ProcessWorkload ==
  (k :> Boot \cup {"create_kthread", "getc", "yield"})
    @@ [t \in {m, a, b} |-> {"fork", "exec", "wait", "getc", "exit"}]

\* A parent that forks and waits, alone or with a second thread, while its child
\* ends; or one that starts two threads, which share a mutex until one of them
\* ends the process.  The boot thread stays.
ReturnWorkload ==
  (k :> {"create_uthread"})
    @@ (m :> {"fork", "clone_thread", "wait"})
    @@ (a :> {"mutex_create", "mutex_lock", "mutex_unlock", "exit"})
    @@ (b :> {"wait", "mutex_lock", "mutex_unlock"})

\* A main thread that starts workers and joins them, as init.c does.
JoinWorkload ==
  (k :> Boot) @@ (m :> {"clone_thread", "join", "exit"})
    @@ (a :> {"thread_exit"}) @@ (b :> {"thread_exit", "yield"})

\* The user processes, the address spaces and the threads that run the same
\* code are interchangeable.
ProcSymmetry == Permutations(Procs \ {KProc}) \cup Permutations(Spaces)

WorkerSymmetry == ProcSymmetry \cup Permutations({a, b})

ThreadSymmetry == ProcSymmetry \cup Permutations({m, a, b})
=============================================================================
