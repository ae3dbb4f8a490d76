------------------------------ MODULE Multitask ------------------------------
(***************************************************************************)
(* Threads, the scheduler pool and the queues of blocked threads           *)
(* (src/x86_64/multitask/multitask.c), as seen from the points where the   *)
(* CPU runs with interrupts enabled.                                       *)
(*                                                                         *)
(* The machine has one CPU.  Code between CLI and STI, every interrupt     *)
(* gate handler and every system call up to its first STI run without      *)
(* being interrupted, so each of these is part of one action.  A thread is *)
(* seen only at its control points pc, where the interrupt flag is set:    *)
(* there the timer may preempt it and a device handler may run.            *)
(*                                                                         *)
(* The scheduler is used through the interface of scheduler.h: a pool of   *)
(* ready threads out of which next() selects one.  RoundRobin shows that   *)
(* round_robin.c implements that interface.                                *)
(***************************************************************************)
EXTENDS Integers, Sequences, FiniteSets, Functions

CONSTANTS
  Threads,   \* thread_st structures that kmalloc can hand out
  Main,      \* main_thread, the idle thread: never in the pool
  Procs,     \* process_st structures, kernel_process included
  KProc,     \* kernel_process
  KInit,     \* the first kernel thread (kernel_init)
  Mutexes,   \* kernel_mutex_st structures
  None,      \* the NULL pointer
  Program    \* Program[t]: the system calls that the code run by t makes

Calls == {"create_uthread", "create_kthread", "yield", "exit", "thread_exit",
          "fork", "clone_thread", "exec", "wait", "join", "getc",
          "mutex_create", "mutex_lock", "mutex_unlock", "mutex_destroy"}

ASSUME MultitaskAssumption ==
  /\ KProc \in Procs
  /\ KInit \in Threads
  /\ Main \notin Threads
  /\ None \notin Threads \cup Procs \cup Mutexes \cup {Main}
  /\ Program \in [Threads -> SUBSET Calls]

AllThreads == Threads \cup {Main}

RunStates == {"UNUSED", "READY", "RUNNING", "BLOCKED", "ZOMBIE"}

(***************************************************************************)
(* The proc_queues: two in every process, the waiters of every mutex, and  *)
(* the keyboard driver's queue.                                            *)
(***************************************************************************)
WaitChildExit(p) == <<"wait_child_exit", p>>
WaitThreadExit(p) == <<"wait_thread_exit", p>>
Waiters(m) == <<"waiters", m>>
KbdWaitQueue == <<"kbd_wait_queue", KProc>>

Queues ==
  ({"wait_child_exit", "wait_thread_exit"} \X Procs)
    \cup ({"waiters"} \X Mutexes) \cup {KbdWaitQueue}

VARIABLES
  curr_proc,   \* the thread on the CPU
  run_state,   \* thread_st.run_state; "UNUSED" before the first allocation
  pool,        \* the threads admitted to the scheduler
  queue,       \* the proc_queues, head first
  owner,       \* thread_st.owner
  zombie,      \* the processes whose exiting and zombie flags are set
  pc,          \* where the thread is, see ControlPoints
  arg          \* the object of the call in progress: a target, child or mutex

tvars == <<curr_proc, run_state, pool, queue, owner, zombie, pc, arg>>

(***************************************************************************)
(* Control points.  A *_sleep point lies in PROC_block_on between STI and  *)
(* yield(): the thread is already queued but still has the CPU.            *)
(***************************************************************************)
SleepPoints == {"join_sleep", "wait_sleep", "getc_sleep", "lock_sleep"}

AfterYield ==
  [join_sleep |-> "join_woken", wait_sleep |-> "wait_top",
   getc_sleep |-> "getc_woken", lock_sleep |-> "lock_woken"]

ControlPoints ==
  {"user", "join_woken", "join_found", "join_block", "join_reap",
   "join_unlink", "wait_top", "wait_block", "wait_reap", "getc_woken",
   "lock_woken", "exec_load"} \cup SleepPoints

-----------------------------------------------------------------------------
(***************************************************************************)
(* The primitives of multitask.c, as functions of the part of the state    *)
(* that they change, so that a handler that calls several of them is their *)
(* composition in the code's order.                                        *)
(***************************************************************************)
core == [run_state |-> run_state, pool |-> pool, queue |-> queue]

SetCore(c) ==
  /\ run_state' = c.run_state
  /\ pool' = c.pool
  /\ queue' = c.queue

\* scheduler->remove: rr_remove empties a ring of one without looking at whom
\* it was asked to remove.
Removed(P, victim) ==
  IF \E x \in P : P = {x} THEN {} ELSE P \ {victim}

\* A new thread: PROC_init_thread, then scheduler->admit.
Admitted(c, t) ==
  [run_state |-> [c.run_state EXCEPT ![t] = "READY"],
   pool |-> c.pool \cup {t},
   queue |-> c.queue]

\* Faulty: the blocked thread stays in the pool.
BlockedOnInPool(c, t, q) ==
  [c EXCEPT !.run_state[t] = "BLOCKED", !.queue[q] = Append(@, t)]

\* PROC_block_on up to its STI.
BlockedOn(c, t, q) ==
  [run_state |-> [c.run_state EXCEPT ![t] = "BLOCKED"],
   pool |-> Removed(c.pool, t),
   queue |-> [c.queue EXCEPT ![q] = Append(@, t)]]

\* Faulty: nobody is skipped.
WakeableDead(c, q, gone) == DOMAIN c.queue[q]

\* The queue positions that PROC_unblock_one does not skip; gone holds the
\* processes whose exiting flag is set.
Wakeable(c, q, gone) ==
  {i \in DOMAIN c.queue[q] :
     /\ c.run_state[c.queue[q][i]] # "ZOMBIE"
     /\ owner[c.queue[q][i]] \notin gone}

FirstOf(S) == CHOOSE i \in S : \A j \in S : i <= j

\* Faulty: the thread that is woken stays in the queue.
UnblockOneQueued(c, q, gone) ==
  LET s == c.queue[q]
      W == Wakeable(c, q, gone)
      i == FirstOf(W)
  IN  IF W = {} THEN [c EXCEPT !.queue[q] = <<>>]
      ELSE [c EXCEPT !.run_state[s[i]] = "READY", !.pool = @ \cup {s[i]}]

UnblockOne(c, q, gone) ==
  LET s == c.queue[q]
      W == Wakeable(c, q, gone)
      i == FirstOf(W)
  IN  IF W = {}
      THEN [run_state |-> c.run_state, pool |-> c.pool,
            queue |-> [c.queue EXCEPT ![q] = <<>>]]
      ELSE [run_state |-> [c.run_state EXCEPT ![s[i]] = "READY"],
            pool |-> c.pool \cup {s[i]},
            queue |-> [c.queue EXCEPT ![q] = SubSeq(s, i + 1, Len(s))]]

\* Faulty: the woken thread is not returned.
UnblockedNone(c, q, gone) == None

\* What PROC_unblock_one returns.
Unblocked(c, q, gone) ==
  LET W == Wakeable(c, q, gone)
  IN  IF W = {} THEN None ELSE c.queue[q][FirstOf(W)]

\* PROC_unblock_all
UnblockAll(c, q, gone) ==
  LET woken == {c.queue[q][i] : i \in Wakeable(c, q, gone)}
  IN  [run_state |-> [t \in AllThreads |->
                        IF t \in woken THEN "READY" ELSE c.run_state[t]],
       pool |-> c.pool \cup woken,
       queue |-> [c.queue EXCEPT ![q] = <<>>]]

\* Faulty: the thread that gets the CPU is not marked RUNNING.
RescheduleReady(c, cur) ==
  \/ /\ c.pool = {}
     /\ curr_proc' = Main
     /\ SetCore(c)
  \/ \E candidate \in c.pool :
       /\ candidate = cur => c.pool = {cur}
       /\ curr_proc' = candidate
       /\ SetCore(c)

\* PROC_reschedule by cur (None after an exit) and the switch to next_proc
\* that the interrupt return makes.
Reschedule(c, cur) ==
  \/ /\ c.pool = {}
     /\ curr_proc' = Main
     /\ SetCore(c)
  \/ \E candidate \in c.pool :
       /\ candidate = cur => c.pool = {cur}
       /\ curr_proc' = candidate
       /\ run_state' = [t \in AllThreads |->
            IF t = candidate THEN "RUNNING"
            ELSE IF t = cur /\ c.run_state[t] = "RUNNING" THEN "READY"
            ELSE c.run_state[t]]
       /\ pool' = c.pool
       /\ queue' = c.queue

-----------------------------------------------------------------------------
(***************************************************************************)
(* Control flow of the running thread.                                     *)
(***************************************************************************)
At(t, point) == t = curr_proc /\ pc[t] = point

\* Kernel threads call the kernel's own functions, yield and kexit; they make
\* none of the other system calls.
KernelCalls == {"create_uthread", "create_kthread", "getc", "yield", "exit"}

CallsInto(t, call) ==
  /\ At(t, "user")
  /\ call \in Program[t]
  /\ owner[t] = KProc => call \in KernelCalls

Goto(t, point) == pc' = [pc EXCEPT ![t] = point]

\* t blocks on q with interrupts disabled; it is then between STI and yield().
BlockAt(t, q, point) ==
  /\ SetCore(BlockedOn(core, t, q))
  /\ Goto(t, point)

\* multitask_init and PROC_run, with the first kernel thread created.
MultitaskInit ==
  /\ curr_proc = Main
  /\ run_state = [t \in AllThreads |->
       CASE t = Main -> "RUNNING" [] t = KInit -> "READY" [] OTHER -> "UNUSED"]
  /\ pool = {KInit}
  /\ queue = [q \in Queues |-> <<>>]
  /\ owner = [t \in AllThreads |-> IF t \in {Main, KInit} THEN KProc ELSE None]
  /\ zombie = {}
  /\ pc = [t \in Threads |-> "user"]
  /\ arg = [t \in Threads |-> None]

\* The timer interrupt preempts whatever runs, the idle thread included.
Tick ==
  /\ Reschedule(core, curr_proc)
  /\ UNCHANGED <<owner, zombie, pc, arg>>

\* The idle loop of kernel_main yields as soon as a thread is runnable.
IdleYield ==
  /\ curr_proc = Main
  /\ pool # {}
  /\ Reschedule(core, Main)
  /\ UNCHANGED <<owner, zombie, pc, arg>>

\* syscall_yield from the code of t.
Yield(t) ==
  /\ CallsInto(t, "yield")
  /\ Reschedule(core, t)
  /\ UNCHANGED <<owner, zombie, pc, arg>>

\* The yield() at the end of PROC_block_on.
SleepYield(t) ==
  /\ t = curr_proc
  /\ pc[t] \in SleepPoints
  /\ Reschedule(core, t)
  /\ Goto(t, AfterYield[pc[t]])
  /\ UNCHANGED <<owner, zombie, arg>>

-----------------------------------------------------------------------------
\* Types of the scheduling state.
MultitaskTypeOK ==
  /\ curr_proc \in AllThreads
  /\ run_state \in [AllThreads -> RunStates]
  /\ pool \in SUBSET Threads
  /\ queue \in [Queues -> Seq(Threads)]
  /\ owner \in [AllThreads -> Procs \cup {None}]
  /\ zombie \in SUBSET Procs
  /\ pc \in [Threads -> ControlPoints]
  /\ arg \in [Threads -> Threads \cup Procs \cup Mutexes \cup {None}]
=============================================================================
