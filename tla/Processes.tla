------------------------------ MODULE Processes ------------------------------
(***************************************************************************)
(* Processes and their threads: creation, fork, clone, exec, exit, wait    *)
(* and join (src/x86_64/multitask/multitask.c, process_syscalls.c).        *)
(*                                                                         *)
(* A process or thread structure is used once: freed structures stay in    *)
(* freed with the values they had, so that a stale pointer shows.  kmalloc *)
(* returning NULL is the set of unused structures being empty.             *)
(***************************************************************************)
EXTENDS Mutexes

CONSTANTS
  Spaces,         \* page-table roots that can be built for user processes
  KSpace,         \* the kernel's own P4 table
  VgaEnableInts   \* what the uninitialized enable_ints of vga_display_char
                  \* may hold when it is called with interrupts disabled

ASSUME ProcessesAssumption ==
  /\ KSpace \notin Spaces
  /\ None \notin Spaces \cup {KSpace}
  /\ VgaEnableInts \in SUBSET BOOLEAN

\* A structure that kmalloc hands out is a thread or a process, not both.
ASSUME StructuresAssumption == AllThreads \cap Procs = {}

VARIABLES
  procs,          \* processes allocated so far
  freed,          \* threads and processes given back to kmalloc
  threads,        \* process_st.threads, first thread first
  live_threads,   \* process_st.live_threads
  parent,         \* process_st.parent; the child lists are its inverse
  cr3,            \* process_st.cr3
  spaces,         \* the user address spaces that exist
  image,          \* the address space that an exec of t is filling
  prev            \* local of PROC_unlink_thread

pvars == <<procs, freed, threads, live_threads, parent, cr3, spaces, image,
           prev>>

ProcessInit ==
  /\ procs = {KProc}
  /\ freed = {}
  /\ threads = [p \in Procs |-> IF p = KProc THEN <<KInit, Main>> ELSE <<>>]
  /\ live_threads = [p \in Procs |-> IF p = KProc THEN 2 ELSE 0]
  /\ parent = [p \in Procs |-> None]
  /\ cr3 = [p \in Procs |-> IF p = KProc THEN KSpace ELSE None]
  /\ spaces = {}
  /\ image = [t \in Threads |-> None]
  /\ prev = [t \in Threads |-> None]

Children(p) == {c \in Procs : parent[c] = p}

UnusedThread(u) == run_state[u] = "UNUSED"

-----------------------------------------------------------------------------
(***************************************************************************)
(* Creation.                                                               *)
(***************************************************************************)
\* alloc_thread or its inlined copies, PROC_link_thread and PROC_admit.
LinkAndAdmit(u, p) ==
  /\ UnusedThread(u)
  /\ owner' = [owner EXCEPT ![u] = p]
  /\ threads' = [threads EXCEPT ![p] = <<u>> \o @]
  /\ live_threads' = [live_threads EXCEPT ![p] = @ + 1]
  /\ SetCore(Admitted(core, u))

\* PROC_init_process and PROC_link_process_child for a child p with space s.
LinkProcess(p, par, s) ==
  /\ p \notin procs
  /\ s \in Spaces \ spaces
  /\ procs' = procs \cup {p}
  /\ parent' = [parent EXCEPT ![p] = par]
  /\ cr3' = [cr3 EXCEPT ![p] = s]
  /\ spaces' = spaces \cup {s}

PROC_create_kthread(t) ==
  /\ CallsInto(t, "create_kthread")
  /\ \E u \in Threads : LinkAndAdmit(u, KProc)
  /\ UNCHANGED <<curr_proc, zombie, pc, arg, procs, freed, parent, cr3,
                 spaces, image, prev, mvars>>

\* PROC_create_uthread, called by elf_load with the address space it filled.
PROC_create_uthread(t) ==
  /\ CallsInto(t, "create_uthread")
  /\ \E u \in Threads, p \in Procs, s \in Spaces :
       LinkAndAdmit(u, p) /\ LinkProcess(p, owner[t], s)
  /\ UNCHANGED <<curr_proc, zombie, pc, arg, freed, image, prev, mvars>>

\* The guard shared by clone_process and clone_thread.
InUserSpace(t) == cr3[owner[t]] \notin {None, KSpace}

\* syscall_fork: clone_process.
Fork(t) ==
  /\ CallsInto(t, "fork")
  /\ InUserSpace(t)
  /\ live_threads[owner[t]] = 1
  /\ \E u \in Threads, p \in Procs, s \in Spaces :
       LinkAndAdmit(u, p) /\ LinkProcess(p, owner[t], s)
  /\ UNCHANGED <<curr_proc, zombie, pc, arg, freed, image, prev, mvars>>

\* syscall_clone with CLONE_THREAD: clone_thread.
CloneThread(t) ==
  /\ CallsInto(t, "clone_thread")
  /\ InUserSpace(t)
  /\ \E u \in Threads : LinkAndAdmit(u, owner[t])
  /\ UNCHANGED <<curr_proc, zombie, pc, arg, procs, freed, parent, cr3,
                 spaces, image, prev, mvars>>

\* syscall_exec up to the point where elf_load_program has a page-table root;
\* loading blocks on the disk and runs with interrupts enabled.
Exec(t) ==
  /\ CallsInto(t, "exec")
  /\ live_threads[owner[t]] = 1
  /\ \E s \in Spaces \ spaces :
       /\ spaces' = spaces \cup {s}
       /\ image' = [image EXCEPT ![t] = s]
  /\ Goto(t, "exec_load")
  /\ UNCHANGED <<curr_proc, run_state, pool, queue, owner, zombie, arg, procs,
                 freed, threads, live_threads, parent, cr3, prev, mvars>>

\* elf_load_program fails and has destroyed what it built.
ExecFail(t) ==
  /\ At(t, "exec_load")
  /\ spaces' = spaces \ {image[t]}
  /\ image' = [image EXCEPT ![t] = None]
  /\ Goto(t, "user")
  /\ UNCHANGED <<curr_proc, run_state, pool, queue, owner, zombie, arg, procs,
                 freed, threads, live_threads, parent, cr3, prev, mvars>>

\* Faulty: the old image is not destroyed.
OldImageKept(p) == spaces

\* The address spaces left when exec has destroyed the old image of p.
OldImageDestroyed(p) == spaces \ {cr3[p]}

\* The rest of syscall_exec, from its CLI on.
ExecSwitch(t) ==
  LET p == owner[t]
  IN  /\ At(t, "exec_load")
      /\ cr3' = [cr3 EXCEPT ![p] = image[t]]
      /\ spaces' = OldImageDestroyed(p)
      /\ image' = [image EXCEPT ![t] = None]
      /\ Goto(t, "user")
      /\ UNCHANGED <<curr_proc, run_state, pool, queue, owner, zombie, arg,
                     procs, freed, threads, live_threads, parent, prev, mvars>>

-----------------------------------------------------------------------------
(***************************************************************************)
(* Termination.                                                            *)
(***************************************************************************)
\* Faulty: the parent is not woken.
TornDownSilently(c, p) ==
  IF p \in zombie THEN c ELSE WaitersReleased(c, p, zombie \cup {p})

\* What process_teardown(p) does to the scheduling state: release the waiters
\* of p's mutexes, wake p's parent.
TornDown(c, p) ==
  LET gone == zombie \cup {p}
      c1 == WaitersReleased(c, p, gone)
  IN  IF p \in zombie THEN c
      ELSE IF parent[p] = None THEN c1
      ELSE UnblockAll(c1, WaitChildExit(parent[p]), gone)

\* Faulty: the children of p lose their parent.
Orphaned(p) ==
  [c \in Procs |-> IF c \in Children(p) THEN None ELSE parent[c]]

\* PROC_reparent_children: who is whose parent when the children of p have gone
\* to the kernel.
Reparented(p) ==
  [c \in Procs |-> IF c \in Children(p) THEN KProc ELSE parent[c]]

destroy_process_address_space(p) ==
  IF cr3[p] \in {None, KSpace} THEN UNCHANGED <<cr3, spaces>>
  ELSE /\ cr3' = [cr3 EXCEPT ![p] = None]
       /\ spaces' = spaces \ {cr3[p]}

\* What it does to the rest: flags, children, mutexes, address space.
Teardown(p) ==
  IF p \in zombie THEN UNCHANGED <<zombie, parent, mutex_list, cr3, spaces>>
  ELSE /\ zombie' = zombie \cup {p}
       /\ parent' = Reparented(p)
       /\ mutex_list' = mutex_list \ MutexesOf(p)
       /\ destroy_process_address_space(p)

\* Faulty: the other threads of the process stay in the scheduler.
KilledInPool(c, S) ==
  [c EXCEPT !.run_state = [u \in AllThreads |->
                             IF u \in S THEN "ZOMBIE" ELSE @[u]]]

\* The loop of PROC_exit_current_thread over owner->threads.  It removes only
\* READY and RUNNING threads from the scheduler; these are pool members.
Killed(c, S) ==
  LET victims == {u \in S : c.run_state[u] # "ZOMBIE"}
  IN  [run_state |-> [u \in AllThreads |->
                        IF u \in victims THEN "ZOMBIE" ELSE c.run_state[u]],
       pool |-> c.pool \ {u \in victims :
                            c.run_state[u] \in {"READY", "RUNNING"}},
       queue |-> c.queue]

\* PROC_exit_current_thread(status, 1) in a user process.
ExitProcess(t) ==
  LET p == owner[t]
      c == TornDown(Killed(core, Range(threads[p])), p)
  IN  /\ CallsInto(t, "exit")
      /\ p # KProc
      /\ live_threads' = [live_threads EXCEPT ![p] = 0]
      /\ Teardown(p)
      /\ Reschedule(UnblockAll(c, WaitThreadExit(p), zombie \cup {p}), None)
      /\ UNCHANGED <<owner, pc, arg, procs, freed, threads, image, prev,
                     owner_process, owner_thread, holds>>

\* Faulty: a thread that exits is still counted.
StillCounted(p) == live_threads[p]

\* live_threads after one thread has exited.
OneThreadLess(p) == IF live_threads[p] > 0 THEN live_threads[p] - 1 ELSE 0

\* The thread that exits, alone.
Dead(c, t) ==
  [run_state |-> [c.run_state EXCEPT ![t] = "ZOMBIE"],
   pool |-> Removed(c.pool, t),
   queue |-> c.queue]

\* PROC_exit_current_thread for one thread: thread_exit, and exit or kexit of
\* a kernel thread.
ExitThread(t) ==
  LET p == owner[t]
      n == OneThreadLess(p)
      c == UnblockAll(Dead(core, t), WaitThreadExit(p), zombie)
  IN  /\ \/ CallsInto(t, "thread_exit")
         \/ CallsInto(t, "exit") /\ p = KProc
      /\ live_threads' = [live_threads EXCEPT ![p] = n]
      /\ IF n = 0 THEN Teardown(p)
         ELSE UNCHANGED <<zombie, parent, mutex_list, cr3, spaces>>
      /\ Reschedule(IF n = 0 THEN TornDown(c, p) ELSE c, None)
      /\ UNCHANGED <<owner, pc, arg, procs, freed, threads, image, prev,
                     owner_process, owner_thread, holds>>

-----------------------------------------------------------------------------
(***************************************************************************)
(* syscall_wait.  Its printk runs with interrupts disabled and may enable  *)
(* them (vga_display_char); after a PROC_block_on they are enabled anyway. *)
(***************************************************************************)
ZombieChildren(p) == Children(p) \cap zombie

\* Unlink the child, free its threads and the child itself.
Reap(c) ==
  /\ parent' = [parent EXCEPT ![c] = None]
  /\ freed' = freed \cup Range(threads[c]) \cup {c}

rest_of_wait == <<curr_proc, owner, zombie, procs, threads, live_threads, cr3,
                  spaces, image, prev, mvars>>

\* The loop body with interrupts disabled, up to the STI of PROC_block_on.
WaitUninterrupted(t) ==
  LET p == owner[t]
  IN  /\ \/ /\ \E c \in ZombieChildren(p) : Reap(c)
            /\ UNCHANGED <<run_state, pool, queue, pc>>
         \/ /\ Children(p) = {}
            /\ UNCHANGED <<run_state, pool, queue, pc, parent, freed>>
         \/ /\ Children(p) # {} /\ ZombieChildren(p) = {}
            /\ BlockAt(t, WaitChildExit(p), "wait_sleep")
            /\ UNCHANGED <<parent, freed>>
      /\ UNCHANGED <<arg, rest_of_wait>>

Wait(t) ==
  /\ CallsInto(t, "wait")
  /\ \/ FALSE \in VgaEnableInts /\ WaitUninterrupted(t)
     \/ /\ TRUE \in VgaEnableInts
        /\ Goto(t, "wait_top")
        /\ UNCHANGED <<run_state, pool, queue, arg, parent, freed,
                       rest_of_wait>>

\* PROC_find_zombie_child and the test of first_child, interrupts enabled.
WaitTop(t) ==
  LET p == owner[t]
  IN  /\ At(t, "wait_top")
      /\ \/ /\ Goto(t, "wait_reap")
            /\ \E c \in ZombieChildren(p) : arg' = [arg EXCEPT ![t] = c]
         \/ /\ ZombieChildren(p) = {}
            /\ Goto(t, IF Children(p) = {} THEN "user" ELSE "wait_block")
            /\ UNCHANGED arg
      /\ UNCHANGED <<run_state, pool, queue, parent, freed, rest_of_wait>>

\* CLI and PROC_block_on, whatever happened since the test.
WaitBlock(t) ==
  /\ At(t, "wait_block")
  /\ BlockAt(t, WaitChildExit(owner[t]), "wait_sleep")
  /\ UNCHANGED <<arg, parent, freed, rest_of_wait>>

WaitReap(t) ==
  /\ At(t, "wait_reap")
  /\ Reap(arg[t])
  /\ Goto(t, "user")
  /\ UNCHANGED <<run_state, pool, queue, arg, rest_of_wait>>

-----------------------------------------------------------------------------
(***************************************************************************)
(* syscall_thread_join.  Up to its first PROC_block_on it runs with        *)
(* interrupts disabled, afterwards with interrupts enabled.                *)
(***************************************************************************)
IndexOf(s, u) == CHOOSE i \in DOMAIN s : s[i] = u

\* The list that u->next_thread starts; unlinking sets it to NULL.
After(s, u) ==
  IF u \in Range(s) THEN SubSeq(s, IndexOf(s, u) + 1, Len(s)) ELSE <<>>

\* PROC_unlink_thread: the predecessor its walk finds ...
Predecessor(s, u) ==
  IF IndexOf(s, u) = 1 THEN None ELSE s[IndexOf(s, u) - 1]

\* Faulty: the head of the list is not moved.
UnlinkedNotHead(s, pred, u) ==
  IF pred = None THEN s ELSE SubSeq(s, 1, IndexOf(s, pred)) \o After(s, u)

\* ... and its write through that predecessor.
Unlinked(s, pred, u) ==
  IF pred = None THEN After(s, u)
  ELSE IF pred \in Range(s) THEN SubSeq(s, 1, IndexOf(s, pred)) \o After(s, u)
  ELSE s

rest_of_join == <<curr_proc, owner, zombie, procs, live_threads, parent, cr3,
                  spaces, image, mvars>>

Join(t) ==
  LET p == owner[t]
  IN  /\ CallsInto(t, "join")
      /\ \E u \in Range(threads[p]) \ {t, Main} :
           /\ arg' = [arg EXCEPT ![t] = u]
           /\ \/ /\ run_state[u] = "ZOMBIE"
                 /\ threads' = [threads EXCEPT
                      ![p] = Unlinked(@, Predecessor(@, u), u)]
                 /\ freed' = freed \cup {u}
                 /\ UNCHANGED <<run_state, pool, queue, pc>>
              \/ /\ run_state[u] # "ZOMBIE"
                 /\ BlockAt(t, WaitThreadExit(p), "join_sleep")
                 /\ UNCHANGED <<threads, freed>>
      /\ UNCHANGED <<prev, rest_of_join>>

\* PROC_find_thread after the wake-up.
JoinWoken(t) ==
  /\ At(t, "join_woken")
  /\ Goto(t, IF arg[t] \in Range(threads[owner[t]]) THEN "join_found"
                                                    ELSE "user")
  /\ UNCHANGED <<run_state, pool, queue, arg, threads, freed, prev,
                 rest_of_join>>

\* The loop condition: reads target->run_state.
JoinTest(t) ==
  /\ At(t, "join_found")
  /\ Goto(t, IF run_state[arg[t]] = "ZOMBIE" THEN "join_reap" ELSE "join_block")
  /\ UNCHANGED <<run_state, pool, queue, arg, threads, freed, prev,
                 rest_of_join>>

\* CLI and PROC_block_on, whatever happened since the test.
JoinBlock(t) ==
  /\ At(t, "join_block")
  /\ BlockAt(t, WaitThreadExit(owner[t]), "join_sleep")
  /\ UNCHANGED <<arg, threads, freed, prev, rest_of_join>>

\* The walk of PROC_unlink_thread; it frees the target even if not found.
JoinReap(t) ==
  LET s == threads[owner[t]]
  IN  /\ At(t, "join_reap")
      /\ IF arg[t] \in Range(s)
         THEN /\ prev' = [prev EXCEPT ![t] = Predecessor(s, arg[t])]
              /\ Goto(t, "join_unlink")
              /\ UNCHANGED freed
         ELSE /\ freed' = freed \cup {arg[t]}
              /\ Goto(t, "user")
              /\ UNCHANGED prev
      /\ UNCHANGED <<run_state, pool, queue, arg, threads, rest_of_join>>

\* Its write, then PROC_free_thread.
JoinUnlink(t) ==
  LET p == owner[t]
  IN  /\ At(t, "join_unlink")
      /\ threads' = [threads EXCEPT ![p] = Unlinked(@, prev[t], arg[t])]
      /\ freed' = freed \cup {arg[t]}
      /\ prev' = [prev EXCEPT ![t] = None]
      /\ Goto(t, "user")
      /\ UNCHANGED <<run_state, pool, queue, arg, rest_of_join>>

-----------------------------------------------------------------------------
ProcessNext(t) ==
  \/ PROC_create_kthread(t)
  \/ PROC_create_uthread(t)
  \/ Fork(t)
  \/ CloneThread(t)
  \/ Exec(t)
  \/ ExecFail(t)
  \/ ExecSwitch(t)
  \/ ExitProcess(t)
  \/ ExitThread(t)
  \/ Wait(t)
  \/ WaitTop(t)
  \/ WaitBlock(t)
  \/ WaitReap(t)
  \/ Join(t)
  \/ JoinWoken(t)
  \/ JoinTest(t)
  \/ JoinBlock(t)
  \/ JoinReap(t)
  \/ JoinUnlink(t)

\* Types of the process state.
ProcessTypeOK ==
  /\ procs \in SUBSET Procs
  /\ freed \in SUBSET (AllThreads \cup Procs)
  /\ threads \in [Procs -> Seq(AllThreads)]
  /\ live_threads \in [Procs -> Nat]
  /\ parent \in [Procs -> Procs \cup {None}]
  /\ cr3 \in [Procs -> Spaces \cup {KSpace, None}]
  /\ spaces \in SUBSET Spaces
  /\ image \in [Threads -> Spaces \cup {None}]
  /\ prev \in [Threads -> AllThreads \cup {None}]
=============================================================================
