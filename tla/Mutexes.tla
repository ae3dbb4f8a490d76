------------------------------- MODULE Mutexes -------------------------------
(***************************************************************************)
(* The mutex system calls (src/x86_64/multitask/mutex_syscalls.c).         *)
(*                                                                         *)
(* A mutex belongs to the process that created it.  Unlocking hands it     *)
(* over: the first live waiter becomes owner_thread before it runs again.  *)
(***************************************************************************)
EXTENDS Multitask

VARIABLES
  mutex_list,      \* the mutexes that exist
  owner_process,   \* kernel_mutex_st.owner_process
  owner_thread,    \* kernel_mutex_st.owner_thread
  holds            \* history: the mutexes t has locked and not yet unlocked

mvars == <<mutex_list, owner_process, owner_thread, holds>>

MutexInit ==
  /\ mutex_list = {}
  /\ owner_process = [m \in Mutexes |-> None]
  /\ owner_thread = [m \in Mutexes |-> None]
  /\ holds = [t \in Threads |-> {}]

\* find_mutex
Found(t, m) == m \in mutex_list /\ owner_process[m] = owner[t]

\* syscall_mutex_create.  Ids are never reused.
MutexCreate(t) ==
  /\ CallsInto(t, "mutex_create")
  /\ \E m \in Mutexes :
       /\ owner_process[m] = None
       /\ mutex_list' = mutex_list \cup {m}
       /\ owner_process' = [owner_process EXCEPT ![m] = owner[t]]
  /\ UNCHANGED <<owner_thread, holds, tvars>>

\* Faulty: a mutex that is owned is taken.
LockAttemptOwned(t, m) ==
  /\ owner_thread' = [owner_thread EXCEPT ![m] = t]
  /\ holds' = [holds EXCEPT ![t] = @ \cup {m}]
  /\ Goto(t, "user")
  /\ UNCHANGED <<run_state, pool, queue>>

\* One turn of the loop of syscall_mutex_lock, from its CLI on.
LockAttempt(t, m) ==
  \/ /\ ~Found(t, m) \/ owner_thread[m] = t
     /\ Goto(t, "user")
     /\ UNCHANGED <<run_state, pool, queue, owner_thread, holds>>
  \/ /\ Found(t, m) /\ owner_thread[m] = None
     /\ owner_thread' = [owner_thread EXCEPT ![m] = t]
     /\ holds' = [holds EXCEPT ![t] = @ \cup {m}]
     /\ Goto(t, "user")
     /\ UNCHANGED <<run_state, pool, queue>>
  \/ /\ Found(t, m) /\ owner_thread[m] \notin {None, t}
     /\ BlockAt(t, Waiters(m), "lock_sleep")
     /\ UNCHANGED <<owner_thread, holds>>

MutexLock(t) ==
  /\ CallsInto(t, "mutex_lock")
  /\ \E m \in Mutexes :
       /\ LockAttempt(t, m)
       /\ arg' = [arg EXCEPT ![t] = m]
  /\ UNCHANGED <<curr_proc, owner, zombie, mutex_list, owner_process>>

\* Back from PROC_block_on: done if the mutex was handed over, else once more.
MutexLockWoken(t) ==
  /\ At(t, "lock_woken")
  /\ IF owner_thread[arg[t]] = t
     THEN /\ holds' = [holds EXCEPT ![t] = @ \cup {arg[t]}]
          /\ Goto(t, "user")
          /\ UNCHANGED <<run_state, pool, queue, owner_thread>>
     ELSE LockAttempt(t, arg[t])
  /\ UNCHANGED <<curr_proc, owner, zombie, arg, mutex_list, owner_process>>

\* syscall_mutex_unlock.  An id the caller does not own is refused.
MutexUnlock(t) ==
  /\ CallsInto(t, "mutex_unlock")
  /\ \E m \in Mutexes :
       /\ Found(t, m)
       /\ owner_thread[m] = t
       /\ SetCore(UnblockOne(core, Waiters(m), zombie))
       /\ owner_thread' =
            [owner_thread EXCEPT ![m] = Unblocked(core, Waiters(m), zombie)]
       /\ holds' = [holds EXCEPT ![t] = @ \ {m}]
  /\ UNCHANGED <<curr_proc, owner, zombie, pc, arg, mutex_list, owner_process>>

\* syscall_mutex_destroy refuses a mutex that is owned or waited for.
MutexDestroy(t) ==
  /\ CallsInto(t, "mutex_destroy")
  /\ \E m \in Mutexes :
       /\ Found(t, m)
       /\ owner_thread[m] = None
       /\ queue[Waiters(m)] = <<>>
       /\ mutex_list' = mutex_list \ {m}
  /\ UNCHANGED <<owner_process, owner_thread, holds, tvars>>

(***************************************************************************)
(* MUTEX_destroy_process_mutexes(p), called while p exits: the waiters of  *)
(* its mutexes are released and the mutexes freed.                         *)
(***************************************************************************)
MutexesOf(p) == {m \in mutex_list : owner_process[m] = p}

WaitersReleased(c, p, gone) ==
  LET qs == {Waiters(m) : m \in MutexesOf(p)}
      woken == UNION {{c.queue[q][i] : i \in Wakeable(c, q, gone)} : q \in qs}
  IN  [run_state |-> [t \in AllThreads |->
                        IF t \in woken THEN "READY" ELSE c.run_state[t]],
       pool |-> c.pool \cup woken,
       queue |-> [q \in Queues |-> IF q \in qs THEN <<>> ELSE c.queue[q]]]

MutexNext(t) ==
  \/ MutexCreate(t)
  \/ MutexLock(t)
  \/ MutexLockWoken(t)
  \/ MutexUnlock(t)
  \/ MutexDestroy(t)

-----------------------------------------------------------------------------
\* Types of the mutex state.
MutexTypeOK ==
  /\ mutex_list \in SUBSET Mutexes
  /\ owner_process \in [Mutexes -> Procs \cup {None}]
  /\ owner_thread \in [Mutexes -> Threads \cup {None}]
  /\ holds \in [Threads -> SUBSET Mutexes]

(***************************************************************************)
(* Mutual exclusion, for the code that calls mutex_lock: between the       *)
(* return of a successful lock and the unlock, no other thread has         *)
(* returned from a successful lock of the same mutex (syscall_mutex_lock,  *)
(* syscall_mutex_unlock).                                                  *)
(***************************************************************************)
MutualExclusion ==
  \A t, u \in Threads : t # u => holds[t] \cap holds[u] = {}

(***************************************************************************)
(* The hand-over of syscall_mutex_unlock loses nobody: a mutex with a live *)
(* thread asleep in its waiters is owned, and a thread woken out of        *)
(* waiters owns the mutex it asked for, so the loop of syscall_mutex_lock  *)
(* never goes round and its mutex pointer is not stale when it is read     *)
(* after the wake-up.                                                      *)
(***************************************************************************)
HandOver ==
  \A t \in Threads :
    /\ run_state[t] # "ZOMBIE"
    /\ pc[t] \in {"lock_sleep", "lock_woken"}
    => /\ arg[t] \in mutex_list
       /\ IF run_state[t] = "BLOCKED"
          THEN owner_thread[arg[t]] \notin {None, t}
          ELSE owner_thread[arg[t]] = t
=============================================================================
