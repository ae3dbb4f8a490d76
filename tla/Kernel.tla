------------------------------- MODULE Kernel -------------------------------
(***************************************************************************)
(* The kernel's threads at work: processes, mutexes and the keyboard over  *)
(* one scheduler, preempted by the timer.                                  *)
(*                                                                         *)
(* The keyboard driver (src/x86_64/drivers/ps2_kbd.c) is part of this      *)
(* module; its ring buffer is BoundedBuffer's, here the number of          *)
(* characters in it.                                                       *)
(***************************************************************************)
EXTENDS Processes

CONSTANT KbdCapacity   \* characters the keyboard's ring buffer can hold

ASSUME KernelAssumption == KbdCapacity \in Nat \ {0}

VARIABLE kbd_chars     \* characters waiting in kbd_bb

vars == <<tvars, mvars, pvars, kbd_chars>>

Init ==
  /\ MultitaskInit
  /\ MutexInit
  /\ ProcessInit
  /\ kbd_chars = 0

\* The wait_event_interruptable of keyboard_getchar, from a CLI on.
GetChar(t) ==
  /\ \/ /\ kbd_chars > 0
        /\ kbd_chars' = kbd_chars - 1
        /\ Goto(t, "user")
        /\ UNCHANGED <<run_state, pool, queue>>
     \/ /\ kbd_chars = 0
        /\ BlockAt(t, KbdWaitQueue, "getc_sleep")
        /\ UNCHANGED kbd_chars
  /\ UNCHANGED <<curr_proc, owner, zombie, arg, mvars, pvars>>

\* sys_getc
Getc(t) == CallsInto(t, "getc") /\ GetChar(t)

GetcWoken(t) == At(t, "getc_woken") /\ GetChar(t)

\* Faulty: a character is added to a full buffer.
KeyPressUnbounded ==
  /\ kbd_chars' = kbd_chars + 1
  /\ SetCore(UnblockOne(core, KbdWaitQueue, zombie))
  /\ UNCHANGED <<curr_proc, owner, zombie, pc, arg, mvars, pvars>>

\* Faulty: a reader is woken only by the character that ends the emptiness.
KeyPressEdge ==
  /\ kbd_chars' = IF kbd_chars < KbdCapacity THEN kbd_chars + 1 ELSE kbd_chars
  /\ SetCore(IF kbd_chars = 0 THEN UnblockOne(core, KbdWaitQueue, zombie)
                              ELSE core)
  /\ UNCHANGED <<curr_proc, owner, zombie, pc, arg, mvars, pvars>>

\* The keyboard interrupt for a scan code that is a character: it is dropped
\* if the buffer is full, and the head of the queue is woken either way.
KeyPress ==
  /\ kbd_chars' = IF kbd_chars < KbdCapacity THEN kbd_chars + 1 ELSE kbd_chars
  /\ SetCore(UnblockOne(core, KbdWaitQueue, zombie))
  /\ UNCHANGED <<curr_proc, owner, zombie, pc, arg, mvars, pvars>>

Scheduling(t) ==
  /\ Yield(t) \/ SleepYield(t)
  /\ UNCHANGED <<mvars, pvars, kbd_chars>>

Preemption ==
  /\ Tick \/ IdleYield
  /\ UNCHANGED <<mvars, pvars, kbd_chars>>

ThreadStep(t) ==
  \/ Scheduling(t)
  \/ MutexNext(t) /\ UNCHANGED <<pvars, kbd_chars>>
  \/ ProcessNext(t) /\ UNCHANGED kbd_chars
  \/ Getc(t)
  \/ GetcWoken(t)

Next ==
  \/ Preemption
  \/ KeyPress
  \/ \E t \in Threads : ThreadStep(t)

Spec == Init /\ [][Next]_vars

(***************************************************************************)
(* Fairness.  A thread of the pool gets the CPU: this is the fairness of   *)
(* Scheduler, which RoundRobin implements.  A thread that is inside a      *)
(* system call and gets the CPU again and again takes its next step.       *)
(* Nothing obliges user code to make a call, except under LockFairness:    *)
(* there a thread that holds a mutex and gets the CPU unlocks it.          *)
(***************************************************************************)
Served(t) == curr_proc = t \/ t \notin pool

KernelStep(t) == pc[t] # "user" /\ ThreadStep(t)

Fairness == \A t \in Threads : []<>Served(t) /\ SF_vars(KernelStep(t))

FairSpec == Spec /\ Fairness

LockFairness ==
  \A t \in Threads :
    SF_vars(MutexUnlock(t) /\ UNCHANGED <<pvars, kbd_chars>>)

LockFairSpec == FairSpec /\ LockFairness

-----------------------------------------------------------------------------
\* Types of the whole state.
TypeOK ==
  /\ MultitaskTypeOK
  /\ MutexTypeOK
  /\ ProcessTypeOK
  /\ kbd_chars \in 0..KbdCapacity

-----------------------------------------------------------------------------
(***************************************************************************)
(* Scheduling.                                                             *)
(***************************************************************************)

(***************************************************************************)
(* The scheduler's pool is exactly the threads that are READY or RUNNING.  *)
(* Every sched->admit and sched->remove of multitask.c relies on it: a     *)
(* second admit would tie a knot into the ring of round_robin.c, and       *)
(* rr_remove on a ring of one drops its thread whoever the victim is.      *)
(***************************************************************************)
PoolIsRunnable ==
  \A t \in Threads : t \in pool <=> run_state[t] \in {"READY", "RUNNING"}

(***************************************************************************)
(* A BLOCKED thread is in one proc_queue, at one place, so that one and    *)
(* only one wake-up can reach it, unless its process has exited (then      *)
(* PROC_unblock_one drops it); nothing that could run is in a queue        *)
(* (PROC_block_on, PROC_unblock_one, PROC_exit_current_thread).            *)
(***************************************************************************)
BlockedInOneQueue ==
  /\ \A t \in Threads : run_state[t] = "BLOCKED" /\ owner[t] \notin zombie =>
       \E q \in Queues : t \in Range(queue[q])
  /\ \A q \in Queues : \A i \in DOMAIN queue[q] :
       /\ run_state[queue[q][i]] \in {"BLOCKED", "ZOMBIE"}
       /\ \A r \in Queues : \A j \in DOMAIN queue[r] :
            queue[q][i] = queue[r][j] => q = r /\ i = j

(***************************************************************************)
(* The thread that has the CPU is RUNNING, except between the STI and the  *)
(* yield() of PROC_block_on: there it is BLOCKED, or READY if an interrupt *)
(* handler has already woken it.                                           *)
(***************************************************************************)
CpuThreadIsRunning ==
  curr_proc # Main =>
    \/ run_state[curr_proc] = "RUNNING"
    \/ /\ pc[curr_proc] \in SleepPoints
       /\ run_state[curr_proc] \in {"READY", "BLOCKED"}

(***************************************************************************)
(* No thread comes back from the dead: a late wake-up of a thread that     *)
(* PROC_exit_current_thread killed in its sleep never makes it READY       *)
(* (PROC_unblock_one skips it).                                            *)
(***************************************************************************)
DeadStayDead ==
  [][\A t \in Threads : run_state[t] = "ZOMBIE" =>
        run_state'[t] = "ZOMBIE" /\ curr_proc' # t]_vars

-----------------------------------------------------------------------------
(***************************************************************************)
(* Processes.                                                              *)
(***************************************************************************)

\* The threads of p that have been created and have not exited.
LiveThreads(p) ==
  {t \in AllThreads : owner[t] = p /\ run_state[t] \notin {"UNUSED", "ZOMBIE"}}

(***************************************************************************)
(* live_threads counts the threads that have not exited, so that fork and  *)
(* exec (which require it to be 1) never copy or replace an address space  *)
(* under a second thread, and the last thread_exit tears the process down. *)
(***************************************************************************)
LiveThreadsExact ==
  \A p \in procs \ zombie : live_threads[p] = Cardinality(LiveThreads(p))

(***************************************************************************)
(* owner->threads lists every thread of a process that has not been freed, *)
(* once: exit kills through this list, join searches it, wait frees it.    *)
(***************************************************************************)
ThreadListExact ==
  \A p \in procs \ freed :
    /\ IsInjective(threads[p])
    /\ Range(threads[p]) = {t \in AllThreads \ freed : owner[t] = p}

(***************************************************************************)
(* No thread of a process that has exited is runnable or running:          *)
(* process_teardown has destroyed the address space it would run in.       *)
(***************************************************************************)
NoThreadOutlivesProcess ==
  \A t \in Threads : owner[t] \in zombie => t \notin pool /\ curr_proc # t

(***************************************************************************)
(* Address spaces are neither shared nor leaked across fork, exec, exit    *)
(* and wait: every page-table root in use belongs to one process that has  *)
(* not exited or to one exec in progress, and the other way round.         *)
(***************************************************************************)
SpacesConserved ==
  LET users == {p \in procs : cr3[p] \in Spaces}
      loading == {t \in Threads : image[t] # None /\ run_state[t] # "ZOMBIE"}
  IN  /\ spaces = {cr3[p] : p \in users} \cup {image[t] : t \in loading}
      /\ Cardinality(spaces) = Cardinality(users) + Cardinality(loading)

(***************************************************************************)
(* A pointer found in a list is still valid when it is used: what          *)
(* thread_join found is not freed before it reads or frees it, what wait   *)
(* found is not freed before it reaps it.  Two threads of a process that   *)
(* wait or join at the same time break it; FoundCorrect in ThreadProofs    *)
(* says for which user code it holds.                                      *)
(***************************************************************************)
FoundIsValid ==
  \A t \in Threads :
    /\ run_state[t] # "ZOMBIE"
    /\ pc[t] \in {"join_found", "join_reap", "join_unlink", "wait_reap"}
    => arg[t] \notin freed

(***************************************************************************)
(* thread_join returns once its target has exited.                         *)
(***************************************************************************)
JoinReturns ==
  \A t \in Threads :
    /\ pc[t] \in {"join_sleep", "join_woken", "join_found", "join_block"}
    /\ run_state[arg[t]] = "ZOMBIE"
    ~> pc[t] = "user" \/ run_state[t] = "ZOMBIE"

\* A child of t's process has exited since wait looked, and t is about to sleep.
ExitMissed(t) == pc[t] = "wait_block" /\ ZombieChildren(owner[t]) # {}

(***************************************************************************)
(* No child that has exited stays a zombie for ever while a thread of its  *)
(* parent is in wait, however many of them wait and whatever vga_display_  *)
(* char does to the interrupt flag, with two exceptions: a child exits     *)
(* between the look of a waiting thread and its CLI, or two threads of the *)
(* parent reap the same child.  wait loses no other wake-up (syscall_wait, *)
(* PROC_block_on, process_teardown).                                       *)
(***************************************************************************)
WaitReturns ==
  [](FoundIsValid /\ \A t \in Threads : ~ExitMissed(t)) =>
    \A t \in Threads :
      /\ pc[t] \in {"wait_sleep", "wait_top", "wait_block"}
      /\ ZombieChildren(owner[t]) # {}
      ~> ZombieChildren(owner[t]) = {} \/ run_state[t] = "ZOMBIE"

(***************************************************************************)
(* If every holder unlocks, every mutex_lock that had to wait returns: the *)
(* hand-over of syscall_mutex_unlock passes nobody over for ever.          *)
(***************************************************************************)
LockReturns ==
  \A t \in Threads :
    pc[t] = "lock_sleep" ~> pc[t] = "user" \/ run_state[t] = "ZOMBIE"

(***************************************************************************)
(* A character does not lie in the keyboard buffer while every reader      *)
(* sleeps: if a reader that could be woken is in kbd_wait_queue, another   *)
(* one has been woken and is on its way to the buffer (keyboard_getchar,   *)
(* ISR33_keyboard_irq).                                                    *)
(***************************************************************************)
CharHasReader ==
  kbd_chars > 0 /\ Wakeable(core, KbdWaitQueue, zombie) # {} =>
    \E t \in Threads : /\ pc[t] \in {"getc_sleep", "getc_woken"}
                       /\ run_state[t] \in {"READY", "RUNNING"}

(***************************************************************************)
(* A proc_queue links threads that exist: no thread is freed while it is   *)
(* still linked into one through lib_one.  A thread that exit killed in    *)
(* its sleep breaks it once wait frees it; QueuedCorrect in ThreadProofs   *)
(* says for which user code it holds.                                      *)
(***************************************************************************)
QueuedIsValid == \A q \in Queues : Range(queue[q]) \cap freed = {}

\* What the process table says of each process.
TableState ==
  [p \in Procs |-> IF p \notin procs THEN "none"
                   ELSE IF p \in freed THEN "reaped"
                   ELSE IF p \in zombie THEN "zombie" ELSE "running"]

T == INSTANCE ProcessTable WITH state <- TableState

(***************************************************************************)
(* fork, exec, exit and wait, cut up as they are by interrupts, sleep and  *)
(* the timer, implement the process table: no step changes two processes'  *)
(* states, no process is reaped by a stranger or while it runs, or comes   *)
(* back, and none is left without a parent that can wait for it            *)
(* (clone_process, process_teardown, PROC_reparent_children, syscall_wait).*)
(***************************************************************************)
ImplementsProcessTable == T!Spec
=============================================================================
