---------------------------- MODULE ThreadProofs ----------------------------
(***************************************************************************)
(* Proofs about the thread lists of the processes, the process table, the  *)
(* hand-over of mutexes, the readers of the keyboard and the queues, for   *)
(* user code in which one live thread of a process manages its threads     *)
(* (SoleManager); what else a theorem needs of user code is its premise.   *)
(***************************************************************************)
EXTENDS ThreadSteps, ProcessProofs

USE Zenon

-----------------------------------------------------------------------------
(***************************************************************************)
(* The invariant of the lists holds in every reachable state, if in every  *)
(* user process at most one live thread clones threads and joins them      *)
(* (PROC_link_thread, PROC_unlink_thread, PROC_exit_current_thread,        *)
(* syscall_wait, syscall_thread_join).                                     *)
(***************************************************************************)
THEOREM ListInvariance == Spec /\ []SoleManager => [](LifeSpace /\ ListInv)
<1>1. Init => ListInv
  BY InitList
<1>2. LifeSpace /\ ListInv /\ SoleManager /\ [Next]_vars => ListInv'
  BY NextList, LeastNumberHolds
<1>. QED
  BY <1>1, <1>2, LifeInvariance, PTL DEF Spec

(***************************************************************************)
(* The list of every process is exact, for every number of processes and   *)
(* threads and every such program: exit, which kills through the list,     *)
(* misses nobody, join finds every thread that is there, and wait frees    *)
(* each thread once (PROC_link_thread, PROC_unlink_thread).                *)
(***************************************************************************)
THEOREM ThreadListCorrect == Spec /\ []SoleManager => []ThreadListExact
<1>1. ListInv => ThreadListExact
  BY DEF ListInv
<1>. QED
  BY <1>1, ListInvariance, PTL

(***************************************************************************)
(* No thread outlives its process: when process_teardown has destroyed the *)
(* address space, none of its threads is in the pool or on the CPU,        *)
(* whether the process ended by exit or by its last thread_exit            *)
(* (PROC_exit_current_thread).                                             *)
(***************************************************************************)
THEOREM ExitIsComplete == Spec /\ []SoleManager => []NoThreadOutlivesProcess
<1>1. ASSUME LifeSpace, ListInv
      PROVE  NoThreadOutlivesProcess
  <2>. SUFFICES ASSUME NEW t \in Threads, owner[t] \in zombie
                PROVE  t \notin pool /\ curr_proc # t
    BY DEF NoThreadOutlivesProcess
  <2>1. run_state[t] = "ZOMBIE" /\ t # Main
    BY <1>1, Types DEF ListInv, FreedInv, LifeSpace
  <2>2. PoolIsRunnable /\ CpuThreadIsRunning
    BY <1>1, IInvImplies DEF LifeSpace
  <2>. QED
    BY <2>1, <2>2 DEF PoolIsRunnable, CpuThreadIsRunning
<1>. QED
  BY <1>1, ListInvariance, PTL

-----------------------------------------------------------------------------
\* A step that does nothing to the processes is a stutter of the table.
LEMMA TableSame ==
  ASSUME UNCHANGED <<procs, zombie, parent>>,
         \A p \in Procs : p \in freed' <=> p \in freed
  PROVE  UNCHANGED <<TableState, parent>>
BY DEF TableState

(***************************************************************************)
(* Each step is one of the table or a stutter: the creation of a process   *)
(* is Create, its teardown Exit, and a reaping Reap, except that what      *)
(* another thread of the same process has reaped already is freed once     *)
(* more, which the table does not see.                                     *)
(***************************************************************************)
LEMMA TableStep ==
  ASSUME LifeSpace, ListInv, [Next]_vars
  PROVE  [T!Next]_<<TableState, parent>>
<1>1. /\ procs \subseteq Procs /\ zombie \subseteq procs
      /\ parent \in [Procs -> Procs \cup {None}]
      /\ None \notin Procs
      /\ \A p \in Procs : p \in freed => p \in zombie /\ parent[p] = None
  BY Types DEF LifeSpace, LifeInv, IInv, DataInv, ProcessTypeOK, ListInv,
     FreedInv
<1>2. \A t \in Threads : Alive(t) => owner[t] \in procs \ zombie
  <2>. SUFFICES ASSUME NEW t \in Threads, Alive(t)
                PROVE  owner[t] \in procs \ zombie
    OBVIOUS
  <2>1. t \in AllThreads /\ run_state[t] # "UNUSED" /\ run_state[t] # "ZOMBIE"
    BY DEF AllThreads, Alive
  <2>. QED
    BY <2>1 DEF LifeSpace, LifeInv, ListInv, FreedInv
<1>3. ASSUME NEW p \in procs \ zombie
      PROVE  TableState[p] = "running" /\ p \in Procs
  BY <1>1, <1>3 DEF TableState
<1>4. CASE ThreadEnds
  BY <1>4, TableSame DEF ThreadEnds
<1>5. CASE ProcessEnds
  <2>1. PICK p \in procs \ (zombie \cup {KProc}) :
          /\ zombie' = zombie \cup {p}
          /\ parent' = Reparented(p)
          /\ UNCHANGED <<procs, freed>>
    BY <1>5 DEF ProcessEnds
  <2>2. TableState[p] = "running" /\ p \in Procs /\ p # KProc
    BY <1>3, <2>1
  <2>3. TableState' = [TableState EXCEPT ![p] = "zombie"]
    BY <1>1, <2>1, <2>2 DEF TableState
  <2>4. parent' = [c \in Procs |-> IF parent[c] = p THEN KProc ELSE parent[c]]
    BY <2>1 DEF Reparented, Children
  <2>5. T!Exit(p)
    BY <2>2, <2>3, <2>4 DEF T!Exit
  <2>. QED
    BY <2>2, <2>5 DEF T!Next
<1>6. ASSUME NEW t \in Threads, Stays(t) \/ LinksThread(t)
      PROVE  UNCHANGED <<TableState, parent>>
  BY <1>6, TableSame DEF Stays, LinksThread
<1>7. ASSUME NEW t \in Threads, Unlinks(t)
      PROVE  UNCHANGED <<TableState, parent>>
  <2>1. PICK u \in Threads : freed' = freed \cup {u}
    BY <1>7 DEF Unlinks
  <2>2. u \notin Procs
    BY StructuresAssumption DEF AllThreads
  <2>. QED
    BY <1>7, <2>1, <2>2, TableSame DEF Unlinks
<1>8. ASSUME NEW t \in Threads, LinksProcess(t)
      PROVE  T!Next
  <2>1. PICK p \in Procs \ procs :
          /\ owner[t] \in procs \ zombie
          /\ procs' = procs \cup {p}
          /\ parent' = [parent EXCEPT ![p] = owner[t]]
          /\ UNCHANGED <<zombie, freed>>
    BY <1>8 DEF LinksProcess
  <2>2. TableState[owner[t]] = "running" /\ owner[t] \in Procs
    BY <1>3, <2>1
  <2>3. p \notin freed /\ p \notin zombie
    BY <1>1, <2>1
  <2>4. /\ TableState[p] = "none"
        /\ TableState' = [TableState EXCEPT ![p] = "running"]
    BY <2>1, <2>3 DEF TableState
  <2>5. T!Create(owner[t], p)
    BY <2>1, <2>2, <2>4 DEF T!Create
  <2>. QED
    BY <2>1, <2>2, <2>5 DEF T!Next
<1>9. ASSUME NEW t \in Threads, Reaps(t)
      PROVE  T!Next \/ UNCHANGED <<TableState, parent>>
  <2>1. PICK c \in zombie :
          /\ parent[c] = owner[t] \/ c \in freed
          /\ Alive(t)
          /\ parent' = [parent EXCEPT ![c] = None]
          /\ freed' = freed \cup Range(threads[c]) \cup {c}
          /\ UNCHANGED <<zombie, procs>>
    BY <1>9 DEF Reaps, Reap
  <2>2. c \in Procs /\ c \in procs
    BY <1>1
  <2>3. \A p \in Procs : p \in freed' <=> p \in freed \/ p = c
    <3>1. PICK R : R = Range(threads[c])
      OBVIOUS
    <3>2. R \subseteq AllThreads
      BY <2>2, <3>1, Types, ListedAreThreads DEF LifeSpace
    <3>3. freed' = freed \cup R \cup {c}
      BY <2>1, <3>1
    <3>. QED
      BY <3>2, <3>3, StructuresAssumption
  <2>4. CASE c \in freed
    <3>1. parent' = parent
      BY <1>1, <2>1, <2>2, <2>4
    <3>2. \A p \in Procs : p \in freed' <=> p \in freed
      BY <2>3, <2>4
    <3>. QED
      BY <2>1, <3>1, <3>2, TableSame
  <2>5. CASE c \notin freed
    <3>1. TableState[owner[t]] = "running" /\ owner[t] \in Procs
      BY <1>2, <1>3, <2>1
    <3>2. TableState[c] = "zombie" /\ parent[c] = owner[t]
      BY <2>1, <2>2, <2>5 DEF TableState
    <3>3. TableState' = [TableState EXCEPT ![c] = "reaped"]
      BY <2>1, <2>2, <2>3 DEF TableState
    <3>4. T!Reap(owner[t], c)
      BY <2>1, <3>1, <3>2, <3>3 DEF T!Reap
    <3>. QED
      BY <2>2, <3>1, <3>4 DEF T!Next
  <2>. QED
    BY <2>4, <2>5
<1>. QED
  BY <1>4, <1>5, <1>6, <1>7, <1>8, <1>9, ListKinds, LeastNumberHolds

(***************************************************************************)
(* fork, exec, exit and wait, interrupted as they are, implement the       *)
(* process table: no process is reaped by a stranger or while it runs, or  *)
(* comes back, and the children of a process that exits go to the kernel   *)
(* (clone_process, process_teardown, PROC_reparent_children,               *)
(* syscall_wait).                                                          *)
(***************************************************************************)
THEOREM ProcessTableCorrect == Spec /\ []SoleManager => ImplementsProcessTable
<1>1. Init => T!Init
  BY MultitaskAssumption
     DEF Init, MultitaskInit, ProcessInit, TableState, T!Init
<1>2. LifeSpace /\ ListInv /\ [Next]_vars => [T!Next]_<<TableState, parent>>
  BY TableStep
<1>. QED
  BY <1>1, <1>2, ListInvariance, PTL DEF Spec, ImplementsProcessTable, T!Spec

-----------------------------------------------------------------------------
(***************************************************************************)
(* What the process table promises.  For EveryoneHasParent to be inductive *)
(* the kernel's process may not exit, and nobody may be their own parent.  *)
(***************************************************************************)
TableInv ==
  /\ TableState \in [Procs -> {"none", "running", "zombie", "reaped"}]
  /\ parent \in [Procs -> Procs \cup {None}]
  /\ TableState[KProc] = "running"
  /\ \A p \in Procs \ {KProc} : parent[p] # p
  /\ T!EveryoneHasParent

(***************************************************************************)
(* Each step of the table keeps it: fork and create make the caller the    *)
(* parent, exit hands the children to the kernel, wait unlinks a child     *)
(* that has no children left.                                              *)
(***************************************************************************)
LEMMA TableNext ==
  ASSUME TableInv, T!Next
  PROVE  TableInv'
<1>1. KProc \in Procs /\ None \notin Procs
  BY MultitaskAssumption
<1>2. ASSUME NEW p \in Procs, T!Exit(p)
      PROVE  TableInv'
  BY <1>1, <1>2 DEF T!Exit, TableInv, T!EveryoneHasParent
<1>3. ASSUME NEW p \in Procs, NEW child \in Procs, T!Create(p, child)
      PROVE  TableInv'
  <2>1. p # child
    BY <1>3 DEF T!Create
  <2>. QED
    BY <1>1, <1>3, <2>1 DEF T!Create, TableInv, T!EveryoneHasParent
<1>4. ASSUME NEW p \in Procs, NEW child \in Procs, T!Reap(p, child)
      PROVE  TableInv'
  BY <1>1, <1>4 DEF T!Reap, TableInv, T!EveryoneHasParent
<1>. QED
  BY <1>2, <1>3, <1>4 DEF T!Next

(***************************************************************************)
(* However many processes fork and exit in whatever order, each one that   *)
(* has not been reaped has a running parent: every exit is reported to     *)
(* someone who can wait for it (PROC_reparent_children).                   *)
(***************************************************************************)
THEOREM NobodyOrphaned == T!Spec => []T!EveryoneHasParent
<1>1. T!Init => TableInv
  BY MultitaskAssumption DEF T!Init, TableInv, T!EveryoneHasParent
<1>2. TableInv /\ [T!Next]_<<TableState, parent>> => TableInv'
  <2>1. ASSUME TableInv, UNCHANGED <<TableState, parent>>
        PROVE  TableInv'
    BY <2>1 DEF TableInv, T!EveryoneHasParent
  <2>. QED
    BY <2>1, TableNext
<1>3. TableInv => T!EveryoneHasParent
  BY DEF TableInv
<1>. QED
  BY <1>1, <1>2, <1>3, PTL DEF T!Spec

-----------------------------------------------------------------------------
(***************************************************************************)
(* If a process has one thread that waits for children, what that thread   *)
(* has found stays its process's child until it reaps it.                  *)
(***************************************************************************)
FoundInv ==
  \A t \in Threads : Alive(t) /\ pc[t] = "wait_reap" => parent[arg[t]] = owner[t]

\* A thread that was at wait_reap before the step still has its child.
LEMMA FoundKept ==
  ASSUME FoundInv, NEW v \in Threads, Alive(v), pc[v] = "wait_reap",
         arg'[v] = arg[v], owner'[v] = owner[v], parent'[arg[v]] = parent[arg[v]]
  PROVE  parent'[arg'[v]] = owner'[v]
BY DEF FoundInv

\* No step takes it away: only a waiting thread of the same process could.
LEMMA FoundNext ==
  ASSUME LifeSpace, ListInv, FoundInv, SoleWaiter, [Next]_vars
  PROVE  FoundInv'
<1>. SUFFICES ASSUME NEW v \in Threads, Alive(v)', pc'[v] = "wait_reap"
              PROVE  parent'[arg'[v]] = owner'[v]
  BY DEF FoundInv
<1>1. /\ v \in AllThreads /\ parent \in [Procs -> Procs \cup {None}]
      /\ None \notin Procs /\ zombie \subseteq procs /\ procs \subseteq Procs
  BY Types DEF LifeSpace, LifeInv, IInv, DataInv, ProcessTypeOK
<1>2. Alive(v) /\ pc[v] = "wait_reap" =>
        /\ arg[v] \in Procs /\ parent[arg[v]] = owner[v] /\ arg[v] \in zombie
        /\ "wait" \in Program[v] /\ owner[v] # KProc /\ owner[v] \in Procs
  <2>. HAVE Alive(v) /\ pc[v] = "wait_reap"
  <2>1. InCall(v) /\ parent[arg[v]] = owner[v]
    BY DEF ListInv, CallInv, FoundInv
  <2>2. owner[v] \in procs
    BY <1>1 DEF Alive, LifeSpace, LifeInv
  <2>. QED
    BY <1>1, <2>1, <2>2 DEF InCall, WaitPoints
<1>3. ASSUME NEW S, Die(core, core', S), \A u \in S : run_state[u] # "UNUSED"
      PROVE  Alive(v)
  BY <1>1, <1>3, CoreFields DEF Die, Alive
<1>4. CASE ThreadEnds
  <2>1. Alive(v) /\ UNCHANGED <<owner, parent, pc, arg>>
    BY <1>3, <1>4 DEF ThreadEnds
  <2>. QED
    BY <2>1, FoundKept
<1>5. CASE ProcessEnds
  <2>1. PICK p \in procs : /\ parent' = Reparented(p)
                           /\ UNCHANGED <<owner, pc, arg>>
                           /\ owner[v] = p => run_state'[v] = "ZOMBIE"
    BY <1>1, <1>5 DEF ProcessEnds
  <2>2. Alive(v) /\ owner[v] # p
    BY <1>3, <1>5, <2>1 DEF ProcessEnds, Alive
  <2>3. parent'[arg[v]] = parent[arg[v]]
    BY <1>2, <2>1, <2>2 DEF Reparented, Children
  <2>. QED
    BY <2>1, <2>2, <2>3, FoundKept
<1>6. ASSUME NEW t \in Threads, Stays(t)
      PROVE  parent'[arg'[v]] = owner'[v]
  <2>1. UNCHANGED <<owner, parent>> /\ Alive(v)
    BY <1>6, SameLifeIs DEF Stays, LifeSpace
  <2>2. CASE pc[v] = "wait_reap" /\ arg'[v] = arg[v]
    BY <2>1, <2>2, FoundKept
  <2>3. CASE ~(pc[v] = "wait_reap" /\ arg'[v] = arg[v])
    BY <1>6, <2>1, <2>3 DEF Stays, Moves
  <2>. QED
    BY <2>2, <2>3
<1>7. ASSUME NEW t \in Threads, LinksThread(t) \/ LinksProcess(t)
      PROVE  parent'[arg'[v]] = owner'[v]
  <2>1. PICK u \in Threads, p \in Procs :
          /\ LinkAndAdmit(u, p)
          /\ UNCHANGED <<pc, arg>>
          /\ \/ UNCHANGED parent
             \/ p \notin procs /\ parent' = [parent EXCEPT ![p] = owner[t]]
    BY <1>1, <1>7 DEF LinksThread, LinksProcess
  <2>2. /\ run_state[u] = "UNUSED"
        /\ run_state' = [run_state EXCEPT ![u] = "READY"]
        /\ owner' = [owner EXCEPT ![u] = p]
    BY <2>1, LinkLive DEF LifeSpace
  <2>3. v # u
    BY <2>1, <2>2 DEF ListInv, FreedInv
  <2>4. Alive(v) /\ owner'[v] = owner[v]
    BY <1>1, <2>2, <2>3, Types DEF Alive, LifeSpace
  <2>5. parent'[arg[v]] = parent[arg[v]]
    BY <1>1, <1>2, <2>1, <2>4
  <2>. QED
    BY <2>1, <2>4, <2>5, FoundKept
<1>8. ASSUME NEW t \in Threads, Unlinks(t)
      PROVE  parent'[arg'[v]] = owner'[v]
  <2>1. /\ UNCHANGED <<owner, parent>> /\ Moves(t) /\ pc'[t] = "user"
        /\ SameLife(core, core')
    BY <1>8 DEF Unlinks
  <2>2. v # t /\ Alive(v)
    BY <2>1, SameLifeIs DEF LifeSpace
  <2>. QED
    BY <2>1, <2>2, FoundKept DEF Moves
<1>9. ASSUME NEW t \in Threads, Reaps(t)
      PROVE  parent'[arg'[v]] = owner'[v]
  <2>1. PICK c \in zombie :
          /\ parent[c] = owner[t] \/ c \in freed
          /\ parent' = [parent EXCEPT ![c] = None]
    BY <1>9 DEF Reaps, Reap
  <2>2. /\ UNCHANGED owner /\ Moves(t) /\ pc'[t] = "user"
        /\ SameLife(core, core')
        /\ Alive(t) /\ owner[t] # KProc /\ "wait" \in Program[t]
    BY <1>9 DEF Reaps
  <2>3. v # t /\ Alive(v)
    BY <2>2, SameLifeIs DEF LifeSpace
  <2>4. pc[v] = "wait_reap" /\ arg'[v] = arg[v]
    BY <2>2, <2>3 DEF Moves
  <2>5. owner[v] # owner[t]
    BY <1>2, <2>2, <2>3, <2>4 DEF SoleWaiter, Sole
  <2>6. c \in freed => parent[c] = None
    BY <1>1 DEF ListInv, FreedInv
  <2>7. arg[v] # c
    BY <1>2, <1>1, <2>1, <2>3, <2>4, <2>5, <2>6
  <2>8. parent'[arg[v]] = parent[arg[v]]
    BY <1>1, <2>1, <2>7, SMT
  <2>. QED
    BY <2>2, <2>3, <2>4, <2>8, FoundKept
<1>. QED
  BY <1>4, <1>5, <1>6, <1>7, <1>8, <1>9, ListKinds, LeastNumberHolds

(***************************************************************************)
(* What thread_join and wait have found is not freed before they use it,   *)
(* if in every user process at most one live thread clones and joins, and  *)
(* at most one waits for children (syscall_thread_join, PROC_find_thread,  *)
(* syscall_wait, PROC_find_zombie_child).                                  *)
(***************************************************************************)
THEOREM FoundCorrect == Spec /\ []SoleManager /\ []SoleWaiter => []FoundIsValid
<1>1. Init => FoundInv
  BY DEF Init, MultitaskInit, FoundInv
<1>2. LifeSpace /\ ListInv /\ FoundInv /\ SoleWaiter /\ [Next]_vars => FoundInv'
  BY FoundNext
<1>3. ASSUME LifeSpace, ListInv, FoundInv
      PROVE  FoundIsValid
  <2>. SUFFICES ASSUME NEW t \in Threads, run_state[t] # "ZOMBIE",
                       pc[t] \in {"join_found", "join_reap", "join_unlink",
                                  "wait_reap"}
                PROVE  arg[t] \notin freed
    BY DEF FoundIsValid
  <2>1. t \in AllThreads /\ None \notin Procs
    BY <1>3, Types DEF LifeSpace
  <2>2. Alive(t)
    BY <1>3 DEF ListInv, FreedInv, Alive
  <2>3. InCall(t) /\ owner[t] \in procs /\ owner[t] \notin zombie
        /\ owner[t] \in Procs
    BY <1>3, <2>1, <2>2, Types
       DEF ListInv, CallInv, FreedInv, Alive, LifeSpace, LifeInv
  <2>4. CASE pc[t] = "wait_reap"
    <3>1. arg[t] \in Procs /\ parent[arg[t]] = owner[t]
      BY <1>3, <2>2, <2>4
         DEF FoundInv, LifeSpace, IInv, DataInv, ArgFits
    <3>. QED
      BY <1>3, <2>1, <2>3, <3>1 DEF ListInv, FreedInv
  <2>5. CASE pc[t] # "wait_reap"
    <3>1. arg[t] \in Range(threads[owner[t]])
      BY <2>3, <2>5 DEF InCall, JoinHasTarget
    <3>2. owner[t] \notin freed
      BY <1>3, <2>3 DEF ListInv, FreedInv
    <3>. QED
      BY <1>3, <2>3, <3>1, <3>2 DEF ListInv, ThreadListExact
  <2>. QED
    BY <2>4, <2>5
<1>. QED
  BY <1>1, <1>2, <1>3, ListInvariance, PTL DEF Spec

-----------------------------------------------------------------------------
\* At boot nobody waits for a mutex.
LEMMA InitLocks ==
  ASSUME Init
  PROVE  LockInv
<1>1. IInv
  BY InitIInv
<1>2. \A t \in Threads : pc[t] \notin LockPoints /\ run_state[t] # "BLOCKED"
  BY DEF Init, MultitaskInit, LockPoints, AllThreads
<1>3. \A t \in Threads : Lock[t] \notin Mutexes
  BY <1>1, <1>2, LockIs
<1>. QED
  BY <1>2, <1>3, CoreFields DEF LockInv, LockHanded, SleepersFit

(***************************************************************************)
(* syscall_mutex_unlock loses nobody: a thread that was woken out of the   *)
(* waiters of a mutex owns it, the mutex still exists, and a mutex that    *)
(* somebody sleeps for is owned.                                           *)
(***************************************************************************)
THEOREM HandOverCorrect == Spec /\ []SoleManager => []HandOver
<1>1. Init => LockInv
  BY InitLocks
<1>2. LifeSpace /\ ListInv /\ LifeSpace' /\ ListInv' /\ LockInv /\ [Next]_vars
        => LockInv'
  BY NextLock, LeastNumberHolds DEF LifeSpace, ListInv
<1>3. ASSUME LifeSpace, ListInv, LockInv
      PROVE  HandOver
  <2>. SUFFICES ASSUME NEW t \in Threads, run_state[t] # "ZOMBIE",
                       pc[t] \in LockPoints
                PROVE  /\ arg[t] \in mutex_list
                       /\ IF run_state[t] = "BLOCKED"
                          THEN owner_thread[arg[t]] \notin {None, t}
                          ELSE owner_thread[arg[t]] = t
    BY DEF HandOver, LockPoints
  <2>1. Alive(t)
    BY <1>3 DEF ListInv, FreedInv, Alive, LockPoints
  <2>2. Lock[t] = arg[t] /\ Lock[t] \in Mutexes
    BY <1>3, LockIs DEF LifeSpace
  <2>. QED
    BY <1>3, <2>1, <2>2 DEF LockInv, LockHanded, Found
<1>. QED
  BY <1>1, <1>2, <1>3, ListInvariance, PTL DEF Spec

-----------------------------------------------------------------------------
(***************************************************************************)
(* The characters and their readers.  As long as a reader sleeps, there    *)
(* are no more characters in the buffer than readers that have been woken  *)
(* and are on their way to it.                                             *)
(***************************************************************************)
ReaderSleeps ==
  \E u \in Threads : InQueue(core, u, KbdWaitQueue) /\ run_state[u] = "BLOCKED"

WokenReaders == {u \in Threads : pc[u] \in GetcPoints /\ Runs(core, u)}

CharInv == ReaderSleeps => kbd_chars <= Cardinality(WokenReaders)

\* In no process that has a reader does another thread end the process.
ExitSparesReaders ==
  \A t, u \in Threads :
    /\ Alive(t) /\ Alive(u) /\ owner[t] = owner[u] /\ owner[t] # KProc
    /\ "exit" \in Program[t] /\ "getc" \in Program[u]
    => t = u

\* A reader that could be woken sleeps.
LEMMA WakeableSleeps ==
  ASSUME IInv, Wakeable(core, KbdWaitQueue, zombie) # {}
  PROVE  ReaderSleeps
<1>1. KbdWaitQueue \in Queues /\ CoreInv(core, owner, zombie)
  BY DEF Queues, IInv, SchedInv
<1>2. PICK i \in 1..Len(core.queue[KbdWaitQueue]) :
        /\ core.queue[KbdWaitQueue][i] \in Threads
        /\ core.run_state[core.queue[KbdWaitQueue][i]] = "BLOCKED"
  BY <1>1, WakeableIsBlocked, SMT
<1>. QED
  BY <1>2, CoreFields DEF ReaderSleeps, InQueue

\* There are finitely many woken readers: they live.
ReadersFinite == IsFiniteSet(WokenReaders) /\ Cardinality(WokenReaders) \in Nat

\* A woken reader is one of the live threads of one of the processes.
LEMMA LivingReadersFinite ==
  ASSUME LifeSpace
  PROVE  ReadersFinite
<1>. DEFINE L == {LiveThreads(p) : p \in procs}
<1>1. IInv /\ IsFiniteSet(procs) /\ \A p \in procs : IsFiniteSet(LiveThreads(p))
  BY Types DEF LifeSpace, LifeInv, SpaceInv
<1>2. IsFiniteSet(L)
  <2>. DEFINE f == [p \in procs |-> LiveThreads(p)]
  <2>1. f \in Surjection(procs, L)
    BY DEF Surjection
  <2>. HIDE DEF f, L
  <2>. QED
    BY <1>1, <2>1, FS_Surjection
<1>3. IsFiniteSet(UNION L)
  BY <1>1, <1>2, FS_UNION
<1>4. ASSUME NEW u \in WokenReaders
      PROVE  u \in UNION L
  <2>1. u \in AllThreads /\ run_state[u] \notin {"UNUSED", "ZOMBIE"}
    BY <1>4, CoreFields DEF WokenReaders, Runs, AllThreads
  <2>2. owner[u] \in procs
    BY <2>1 DEF LifeSpace, LifeInv
  <2>. QED
    BY <2>1, <2>2, SMT DEF LiveThreads
<1>. HIDE DEF L
<1>5. WokenReaders \subseteq UNION L
  BY <1>4
<1>. QED
  BY <1>3, <1>5, FS_Subset, FS_CardinalityType DEF ReadersFinite

\* Nobody who is dead sleeps again.
LEMMA SleptBefore ==
  ASSUME IInv, IInv', DeadKept(core, core'),
         \A u \in Threads :
           InQueue(core', u, KbdWaitQueue) => InQueue(core, u, KbdWaitQueue)
  PROVE  ReaderSleeps' => ReaderSleeps
<1>. SUFFICES ASSUME NEW u \in Threads, InQueue(core', u, KbdWaitQueue),
                     run_state'[u] = "BLOCKED"
              PROVE  ReaderSleeps
  BY DEF ReaderSleeps
<1>1. InQueue(core, u, KbdWaitQueue) /\ KbdWaitQueue \in Queues /\ u \in AllThreads
  BY DEF Queues, AllThreads
<1>2. run_state[u] \in {"BLOCKED", "ZOMBIE"}
  BY <1>1, QueuedFacts
<1>3. run_state[u] # "ZOMBIE"
  BY <1>1, CoreFields DEF DeadKept
<1>. QED
  BY <1>1, <1>2, <1>3 DEF ReaderSleeps

\* For a character more there is a woken reader more.
LEMMA MoreReaders ==
  ASSUME IInv, IInv', ReadersFinite, ReadersFinite', CharInv,
         ReaderSleeps' => ReaderSleeps,
         \/ WokenReaders \subseteq WokenReaders' /\ kbd_chars' = kbd_chars
         \/ \E u \in WokenReaders' \ WokenReaders :
              WokenReaders \subseteq WokenReaders' /\ kbd_chars' <= kbd_chars + 1
         \/ \E t \in Threads :
              WokenReaders \ {t} \subseteq WokenReaders' /\ kbd_chars' = kbd_chars - 1
  PROVE  CharInv'
<1>1. PICK A, B : A = WokenReaders /\ B = WokenReaders'
  OBVIOUS
<1>2. /\ IsFiniteSet(A) /\ Cardinality(A) \in Nat
      /\ IsFiniteSet(B) /\ Cardinality(B) \in Nat
  BY <1>1 DEF ReadersFinite
<1>3. kbd_chars \in Int
  BY SMT DEF IInv, DataInv
<1>. SUFFICES ASSUME ReaderSleeps' PROVE kbd_chars' <= Cardinality(B)
  BY <1>1 DEF CharInv
<1>4. kbd_chars <= Cardinality(A)
  BY <1>1 DEF CharInv
<1>5. CASE A \subseteq B /\ kbd_chars' = kbd_chars
  <2>1. Cardinality(A) <= Cardinality(B)
    BY <1>2, <1>5, FS_Subset
  <2>. QED
    BY <1>2, <1>3, <1>4, <1>5, <2>1, SMT
<1>6. ASSUME NEW u \in B \ A, A \subseteq B, kbd_chars' <= kbd_chars + 1
      PROVE  kbd_chars' <= Cardinality(B)
  <2>1. Cardinality(A \cup {u}) = Cardinality(A) + 1
    BY <1>2, <1>6, FS_AddElement
  <2>2. Cardinality(A \cup {u}) <= Cardinality(B)
    BY <1>2, <1>6, FS_Subset
  <2>3. kbd_chars' \in Int
    BY SMT DEF IInv, DataInv
  <2>. QED
    BY <1>2, <1>3, <1>4, <1>6, <2>1, <2>2, <2>3, SMT
<1>7. ASSUME NEW t \in Threads, A \ {t} \subseteq B, kbd_chars' = kbd_chars - 1
      PROVE  kbd_chars' <= Cardinality(B)
  <2>1. Cardinality(A \ {t}) >= Cardinality(A) - 1
    <3>1. Cardinality(A \ {t}) =
            IF t \in A THEN Cardinality(A) - 1 ELSE Cardinality(A)
      BY <1>2, FS_RemoveElement
    <3>. QED
      BY <1>2, <3>1, SMT
  <2>2. Cardinality(A \ {t}) <= Cardinality(B) /\ IsFiniteSet(A \ {t})
    BY <1>2, <1>7, FS_Subset
  <2>3. Cardinality(A \ {t}) \in Nat
    BY <2>2, FS_CardinalityType
  <2>. QED
    BY <1>2, <1>3, <1>4, <1>7, <2>1, <2>2, <2>3, SMT
<1>. QED
  BY <1>1, <1>5, <1>6, <1>7

\* No step revives the dead.
LEMMA DeadNext ==
  ASSUME IInv, [Next]_vars
  PROVE  DeadKept(core, core')
<1>1. CASE Next
  BY <1>1, NextSched, LeastNumberHolds DEF SchedStep
<1>2. CASE UNCHANGED vars
  BY <1>2 DEF vars, tvars, core, DeadKept
<1>. QED
  BY <1>1, <1>2

\* Every step keeps the characters within the woken readers.
LEMMA CharNext ==
  ASSUME LifeSpace, ListInv, QueueInv, ReadersFinite, CharInv, IInv',
         ReadersFinite', ExitSparesReaders, [Next]_vars
  PROVE  CharInv'
<1>1. /\ IInv /\ CallsMade /\ FreedInv /\ KbdWaitQueue \in Queues
      /\ DeadKept(core, core')
  BY DeadNext DEF LifeSpace, QueueInv, ListInv, Queues
<1>2. CASE GivesAway
  <2>1. WokenReaders \subseteq WokenReaders' /\ kbd_chars' = kbd_chars
    BY <1>2 DEF GivesAway, Awakens, WokenReaders
  <2>2. \A u \in Threads :
          InQueue(core', u, KbdWaitQueue) => InQueue(core, u, KbdWaitQueue)
    BY <1>1, <1>2 DEF GivesAway, Awakens
  <2>. QED
    BY <1>1, <2>1, <2>2, SleptBefore, MoreReaders
<1>3. ASSUME NEW t \in Threads, StepsAside(t), UNCHANGED kbd_chars
      PROVE  CharInv'
  <2>1. WokenReaders \subseteq WokenReaders'
    BY <1>3 DEF StepsAside, OthersKept, WokenReaders
  <2>2. \A u \in Threads :
          InQueue(core', u, KbdWaitQueue) => InQueue(core, u, KbdWaitQueue)
    BY <1>1, <1>3 DEF StepsAside, OthersKept
  <2>. QED
    BY <1>1, <1>3, <2>1, <2>2, SleptBefore, MoreReaders
<1>4. ASSUME NEW t \in Threads, Getc(t) \/ GetcWoken(t)
      PROVE  CharInv'
  <2>1. /\ \A u \in Threads \ {t} :
             /\ pc'[u] = pc[u]
             /\ Runs(core', u) <=> Runs(core, u)
             /\ \A q \in Queues : InQueue(core', u, q) <=> InQueue(core, u, q)
        /\ \/ /\ kbd_chars > 0 /\ kbd_chars' = kbd_chars - 1
              /\ \A q \in Queues : ~InQueue(core', t, q)
           \/ kbd_chars' = 0
    BY <1>1, <1>4, GetCharIs
  <2>2. CASE /\ kbd_chars' = kbd_chars - 1
             /\ \A q \in Queues : ~InQueue(core', t, q)
    <3>1. WokenReaders \ {t} \subseteq WokenReaders'
      BY <2>1 DEF WokenReaders
    <3>2. \A u \in Threads :
            InQueue(core', u, KbdWaitQueue) => InQueue(core, u, KbdWaitQueue)
      BY <1>1, <2>1, <2>2
    <3>. QED
      BY <1>1, <2>2, <3>1, <3>2, SleptBefore, MoreReaders
  <2>3. CASE kbd_chars' = 0
    BY <2>3, SMT DEF CharInv, ReadersFinite
  <2>. QED
    BY <2>1, <2>2, <2>3
<1>5. ASSUME NEW t \in Threads, ExitProcess(t), UNCHANGED kbd_chars
      PROVE  CharInv'
  <2>1. /\ t = curr_proc /\ pc[t] = "user" /\ UNCHANGED pc
        /\ pc[t] \notin SleepPoints
        /\ owner[t] # KProc /\ "exit" \in Program[t]
    BY <1>5 DEF ExitProcess, CallsInto, At, SleepPoints
  <2>2. Alive(t) /\ owner[t] \notin zombie
    BY <2>1, RunnerFacts
  <2>3. /\ \A u \in Threads, q \in Queues :
             InQueue(core', u, q) => InQueue(core, u, q)
        /\ \A u \in Threads : Runs(core, u) /\ owner[u] # owner[t] => Runs(core', u)
    BY <1>5, <2>2, ExitProcessQueues
  <2>4. ASSUME NEW u \in WokenReaders
        PROVE  u \in WokenReaders'
    <3>1. u \in Threads /\ pc[u] \in GetcPoints /\ Runs(core, u)
      BY DEF WokenReaders
    <3>2. Alive(u) /\ "getc" \in Program[u] /\ u # t
      BY <1>1, <2>1, <3>1, CoreFields DEF CallsMade, Runs, Alive, GetcPoints
    <3>3. owner[u] # owner[t]
      BY <2>1, <2>2, <3>1, <3>2 DEF ExitSparesReaders
    <3>. QED
      BY <2>1, <2>3, <3>1, <3>3 DEF WokenReaders
  <2>5. \A u \in Threads :
          InQueue(core', u, KbdWaitQueue) => InQueue(core, u, KbdWaitQueue)
    BY <1>1, <2>3
  <2>6. WokenReaders \subseteq WokenReaders'
    BY <2>4
  <2>. QED
    BY <1>1, <1>5, <2>5, <2>6, SleptBefore, MoreReaders
<1>6. CASE KeyPress
  <2>1. /\ core' = UnblockOne(core, KbdWaitQueue, zombie)
        /\ Awakens(core, core') /\ UNCHANGED pc
    BY <1>1, <1>6, KeyPressAwakens, LeastNumberHolds
  <2>2. PICK w : w = Unblocked(core, KbdWaitQueue, zombie)
    OBVIOUS
  <2>3. /\ w # None => /\ w \in Threads /\ InQueue(core, w, KbdWaitQueue)
                       /\ core'.run_state[w] = "READY"
        /\ w = None => \A u \in Threads : InQueue(core, u, KbdWaitQueue) =>
                           core.run_state[u] # "BLOCKED"
    BY <1>1, <2>1, <2>2, NobodyGone, UnblockOneIs, LeastNumberHolds, SMT
       DEF IInv, SchedInv
  <2>4. \A u \in Threads :
          InQueue(core', u, KbdWaitQueue) => InQueue(core, u, KbdWaitQueue)
    BY <1>1, <2>1 DEF Awakens
  <2>5. CASE w = None
    <3>1. ~ReaderSleeps
      BY <2>3, <2>5, CoreFields DEF ReaderSleeps
    <3>. QED
      BY <1>1, <2>4, <3>1, SleptBefore DEF CharInv
  <2>6. CASE w # None
    <3>1. w \in Threads /\ InQueue(core, w, KbdWaitQueue) /\ Runs(core', w)
      BY <2>3, <2>6 DEF Runs
    <3>2. pc[w] \in GetcPoints /\ ~Runs(core, w)
      BY <1>1, <3>1, QueuedFacts DEF QueueInv, QueuedRight
    <3>3. w \in WokenReaders' /\ w \notin WokenReaders
      BY <2>1, <3>1, <3>2 DEF WokenReaders
    <3>4. WokenReaders \subseteq WokenReaders'
      BY <2>1 DEF Awakens, WokenReaders
    <3>5. kbd_chars' <= kbd_chars + 1
      BY <1>1, <1>6, SMT DEF KeyPress, IInv, DataInv
    <3>. QED
      BY <1>1, <2>4, <3>3, <3>4, <3>5, SleptBefore, MoreReaders
  <2>. QED
    BY <2>5, <2>6
<1>. QED
  BY <1>1, <1>2, <1>3, <1>4, <1>5, <1>6, QueueKinds, LeastNumberHolds

\* At boot nobody is in a queue.
LEMMA InitQueues ==
  ASSUME Init
  PROVE  QueueInv /\ ~ReaderSleeps /\ \A u \in Threads, q \in Queues : ~InQueue(core, u, q)
<1>1. \A u \in Threads, q \in Queues : ~InQueue(core, u, q)
  BY CoreFields, SMT DEF Init, MultitaskInit, InQueue
<1>2. CallsMade
  BY DEF Init, MultitaskInit, CallsMade, GetcPoints, WaitPoints
<1>3. KbdWaitQueue \in Queues
  BY DEF Queues
<1>. QED
  BY <1>1, <1>2, <1>3 DEF QueueInv, ReaderSleeps

(***************************************************************************)
(* A character does not lie in the keyboard buffer while every reader      *)
(* sleeps, in any interleaving of key presses, readers, preemptions and    *)
(* exits: ISR33_keyboard_irq wakes a reader for each character it adds,    *)
(* and keyboard_getchar sleeps only on an empty buffer.                    *)
(***************************************************************************)
THEOREM CharCorrect == Spec /\ []SoleManager /\ []ExitSparesReaders => []CharHasReader
<1>1. Init => QueueInv /\ CharInv
  BY InitQueues DEF CharInv
<1>2. LifeSpace /\ ListInv /\ QueueInv /\ [Next]_vars => QueueInv'
  BY QueueNext, LeastNumberHolds
<1>3. LifeSpace => ReadersFinite
  BY LivingReadersFinite
<1>4. LifeSpace /\ ListInv /\ QueueInv /\ ReadersFinite /\ CharInv /\ LifeSpace'
        /\ ReadersFinite' /\ ExitSparesReaders /\ [Next]_vars => CharInv'
  BY CharNext DEF LifeSpace
<1>5. LifeSpace /\ ReadersFinite /\ CharInv => CharHasReader
  <2>. SUFFICES ASSUME LifeSpace, ReadersFinite, CharInv, kbd_chars > 0,
                       Wakeable(core, KbdWaitQueue, zombie) # {}
                PROVE  \E t \in Threads : /\ pc[t] \in {"getc_sleep", "getc_woken"}
                                          /\ run_state[t] \in {"READY", "RUNNING"}
    BY DEF CharHasReader
  <2>1. kbd_chars <= Cardinality(WokenReaders) /\ kbd_chars \in Int
    BY WakeableSleeps, SMT DEF CharInv, LifeSpace, IInv, DataInv
  <2>2. Cardinality(WokenReaders) # 0
    BY <2>1, SMT DEF ReadersFinite
  <2>3. PICK t : t \in WokenReaders
    BY <2>2, FS_EmptySet
  <2>. QED
    BY <2>3, CoreFields DEF WokenReaders, GetcPoints, Runs
<1>. QED
  BY <1>1, <1>2, <1>3, <1>4, <1>5, ListInvariance, PTL DEF Spec

-----------------------------------------------------------------------------
(***************************************************************************)
(* Who is in a queue exists.  A thread that was killed in its sleep stays  *)
(* linked into its queue; it is never freed if its process has no parent   *)
(* but the kernel, which does not wait.                                    *)
(***************************************************************************)
LeftToKernel(u) ==
  u \notin freed /\ owner[u] \in zombie /\ parent[owner[u]] = KProc

ValidInv ==
  \A u \in Threads, q \in Queues :
    InQueue(core, u, q) => run_state[u] = "BLOCKED" \/ LeftToKernel(u)

\* In no process that somebody will wait for does a thread end the process
\* while another one may sleep in keyboard_getchar or in wait.
ExitSparesSleepers ==
  \A t, u \in Threads :
    /\ Alive(t) /\ Alive(u) /\ owner[t] = owner[u]
    /\ owner[t] # KProc /\ parent[owner[t]] # KProc
    /\ "exit" \in Program[t] /\ Program[u] \cap {"getc", "wait"} # {}
    => t = u

\* Who is left to the kernel stays so: wait frees the threads of children of
\* user processes only, and thread_join those of its own process.
LEMMA ListStepSpares ==
  ASSUME LifeSpace, ListInv, NEW t \in Threads, ListStep(t), NEW u \in Threads,
         LeftToKernel(u)
  PROVE  LeftToKernel(u)'
<1>1. /\ IInv /\ u \in AllThreads /\ owner[u] \in Procs /\ owner[u] \in procs
      /\ run_state[u] # "UNUSED" /\ None \notin Procs /\ KProc \in Procs
      /\ parent \in [Procs -> Procs \cup {None}]
  BY Types, MultitaskAssumption
     DEF LifeSpace, LifeInv, LeftToKernel, AllThreads, ListInv, FreedInv, IInv,
         DataInv, ProcessTypeOK
<1>2. CASE Stays(t)
  BY <1>2 DEF Stays, LeftToKernel
<1>3. CASE LinksThread(t)
  <2>1. PICK v \in Threads : \E p : LinkAndAdmit(v, p)
    BY <1>3 DEF LinksThread
  <2>2. owner'[u] = owner[u]
    BY <1>1, <2>1, Types DEF LinkAndAdmit, UnusedThread
  <2>. QED
    BY <1>3, <2>2 DEF LinksThread, LeftToKernel
<1>4. CASE LinksProcess(t)
  <2>1. PICK v \in Threads, p \in Procs \ procs :
          LinkAndAdmit(v, p) /\ parent' = [parent EXCEPT ![p] = owner[t]]
    BY <1>4 DEF LinksProcess
  <2>2. owner'[u] = owner[u] /\ parent'[owner[u]] = parent[owner[u]]
    BY <1>1, <2>1, Types DEF LinkAndAdmit, UnusedThread
  <2>. QED
    BY <1>4, <2>2 DEF LinksProcess, LeftToKernel
<1>5. CASE Reaps(t)
  <2>1. PICK c \in zombie : /\ parent[c] = owner[t] \/ c \in freed
                            /\ owner[t] # KProc /\ Reap(c)
                            /\ UNCHANGED <<owner, zombie>>
    BY <1>5 DEF Reaps
  <2>2. c \in Procs /\ parent[c] # KProc
    BY <1>1, <2>1, Types DEF ListInv, FreedInv
  <2>3. owner[u] # c
    BY <2>2 DEF LeftToKernel
  <2>4. u \notin Range(threads[c])
    BY <1>1, <2>2, <2>3 DEF LifeSpace, LifeInv, ListedIsOf
  <2>5. u # c
    BY <1>1, <2>2, StructuresAssumption
  <2>6. u \notin freed' /\ parent'[owner[u]] = parent[owner[u]]
    BY <1>1, <2>1, <2>3, <2>4, <2>5 DEF Reap, LeftToKernel
  <2>. QED
    BY <2>1, <2>6 DEF LeftToKernel
<1>6. CASE Unlinks(t)
  <2>1. PICK v \in Range(threads[owner[t]]) \cap Threads :
          /\ Alive(t) /\ freed' = freed \cup {v}
          /\ UNCHANGED <<owner, zombie, parent>>
    BY <1>6 DEF Unlinks
  <2>2. t \in AllThreads /\ owner[t] \in procs
    BY <2>1 DEF AllThreads, Alive, LifeSpace, LifeInv
  <2>3. owner[t] \in Procs /\ owner[t] \notin zombie
    BY <1>1, <2>1, <2>2, Types DEF Alive, ListInv, FreedInv
  <2>4. owner[v] = owner[t]
    BY <2>1, <2>3 DEF LifeSpace, LifeInv, ListedIsOf
  <2>5. u # v
    BY <2>3, <2>4 DEF LeftToKernel
  <2>. QED
    BY <2>1, <2>5 DEF LeftToKernel
<1>. QED
  BY <1>2, <1>3, <1>4, <1>5, <1>6 DEF ListStep

\* Nor does the end of another thread or process free who is left to the kernel.
LEMMA EndSpares ==
  ASSUME LifeSpace, ThreadEnds \/ ProcessEnds, NEW u \in Threads, LeftToKernel(u)
  PROVE  LeftToKernel(u)'
<1>1. IInv /\ owner[u] \in Procs
  BY Types DEF LifeSpace, LeftToKernel
<1>2. CASE ThreadEnds
  BY <1>2 DEF ThreadEnds, LeftToKernel
<1>3. CASE ProcessEnds
  <2>1. PICK p \in procs \ (zombie \cup {KProc}) :
          /\ zombie' = zombie \cup {p} /\ parent' = Reparented(p)
          /\ UNCHANGED <<owner, freed>>
    BY <1>3 DEF ProcessEnds
  <2>2. parent'[owner[u]] = KProc
    BY <1>1, <2>1 DEF Reparented, LeftToKernel
  <2>. QED
    BY <2>1, <2>2 DEF LeftToKernel
<1>. QED
  BY <1>2, <1>3

\* No step but the end of a thread kills.
LEMMA ListStepKillsNobody ==
  ASSUME LifeSpace, NEW t \in Threads, ListStep(t), NEW u \in Threads,
         run_state'[u] = "ZOMBIE"
  PROVE  run_state[u] = "ZOMBIE"
<1>1. u \in AllThreads /\ IInv
  BY DEF AllThreads, LifeSpace
<1>2. CASE SameLife(core, core')
  BY <1>1, <1>2, CoreFields DEF SameLife
<1>3. ASSUME NEW v \in Threads, NEW p, LinkAndAdmit(v, p)
      PROVE  run_state[u] = "ZOMBIE"
  BY <1>1, <1>3, Types DEF LinkAndAdmit, SetCore, Admitted, core
<1>. QED
  BY <1>2, <1>3 DEF ListStep, Stays, LinksThread, LinksProcess, Reaps, Unlinks

\* exit kills the sleepers of a process that it does not take out of their
\* queues only if nobody waits for that process.
LEMMA KilledAreLeft ==
  ASSUME LifeSpace, ListInv, LockInv, QueueInv, ExitSparesSleepers,
         NEW t \in Threads, ExitProcess(t),
         NEW u \in Threads, run_state[u] = "BLOCKED", run_state'[u] = "ZOMBIE",
         NEW q \in Queues, InQueue(core', u, q)
  PROVE  LeftToKernel(u)'
<1>1. /\ t = curr_proc /\ pc[t] \notin SleepPoints
      /\ owner[t] # KProc /\ "exit" \in Program[t]
      /\ UNCHANGED <<owner, freed>>
  BY DEF ExitProcess, CallsInto, At, SleepPoints
<1>2. PICK p \in Procs : p = owner[t] /\ p \notin zombie /\ Alive(t)
                         /\ run_state[t] = "RUNNING"
  BY <1>1, RunnerFacts
<1>3. IInv /\ u \in AllThreads /\ Alive(u) /\ u # t
  BY <1>2 DEF LifeSpace, AllThreads, Alive
<1>4. owner[u] = p
  <2>1. Die(core, core', Range(threads[p]))
    BY <1>2, <1>3, ExitProcessDies
  <2>2. u \in Range(threads[p])
    BY <1>3, <2>1, CoreFields DEF Die
  <2>. QED
    BY <1>2, <2>2 DEF LifeSpace, LifeInv, ListedIsOf
<1>5. /\ InQueue(core, u, q)
      /\ q # WaitThreadExit(p)
      /\ \A m \in MutexesOf(p) : q # Waiters(m)
  BY <1>2, ExitProcessQueues
<1>6. QueuedRight(u, q) /\ CallsMade
  BY <1>5 DEF QueueInv
<1>7. parent[p] = KProc
  <2>. SUFFICES ASSUME parent[p] # KProc PROVE FALSE
    OBVIOUS
  <2>1. Program[u] \cap {"getc", "wait"} = {}
    BY <1>1, <1>2, <1>3, <1>4 DEF ExitSparesSleepers
  <2>2. q # KbdWaitQueue /\ \A r \in Procs : q # WaitChildExit(r)
    BY <1>6, <2>1 DEF QueuedRight, CallsMade
  <2>3. \A r \in Procs : q # WaitThreadExit(r)
    BY <1>4, <1>5, <1>6 DEF QueuedRight
  <2>4. PICK m \in Mutexes : q = Waiters(m)
    BY <2>2, <2>3, SMT DEF Queues, WaitChildExit, WaitThreadExit, Waiters
  <2>5. Lock[u] = m
    BY <1>5, <2>4, CoreFields DEF LockInv, SleepersFit
  <2>6. Found(u, m)
    BY <1>3, <2>5 DEF LockInv, LockHanded
  <2>. QED
    BY <1>4, <1>5, <2>4, <2>6 DEF Found, MutexesOf
<1>8. zombie' = zombie \cup {p} /\ parent' = Reparented(p)
  BY <1>2 DEF ExitProcess, Teardown
<1>9. u \notin freed
  BY <1>3 DEF ListInv, FreedInv
<1>. QED
  BY <1>1, <1>2, <1>4, <1>7, <1>8, <1>9 DEF LeftToKernel, Reparented

\* Every step keeps who is in a queue from being freed.
LEMMA ValidNext ==
  ASSUME LifeSpace, ListInv, LockInv, QueueInv, ValidInv, ExitSparesSleepers,
         IInv', [Next]_vars
  PROVE  ValidInv'
<1>. SUFFICES ASSUME NEW u \in Threads, NEW q \in Queues, InQueue(core', u, q),
                     run_state'[u] # "BLOCKED"
              PROVE  LeftToKernel(u)'
  BY DEF ValidInv
<1>1. run_state'[u] = "ZOMBIE" /\ IInv /\ u \in AllThreads
  BY CoreFields, SMT DEF InQueue, IInv, SchedInv, CoreInv, QueuedIsAsleep,
     LifeSpace, AllThreads
<1>2. CASE run_state[u] = "ZOMBIE"
  <2>1. InQueue(core, u, q)
    BY <1>2, QueueNext, LeastNumberHolds
  <2>2. LeftToKernel(u)
    BY <1>2, <2>1 DEF ValidInv
  <2>. QED
    BY <2>2, StepOrExit, LeastNumberHolds, ListStepSpares, ExitProcessKind,
       ExitThreadKind, EndSpares
<1>3. CASE run_state[u] # "ZOMBIE"
  <2>1. PICK t \in Threads : ExitProcess(t) \/ ExitThread(t)
    BY <1>1, <1>3, StepOrExit, LeastNumberHolds, ListStepKillsNobody
  <2>2. t = curr_proc /\ pc[t] \notin SleepPoints
    BY <2>1 DEF ExitProcess, ExitThread, CallsInto, At, SleepPoints
  <2>3. owner[t] \notin zombie
    BY <2>2, RunnerFacts
  <2>4. ~ExitThread(t)
    <3>. SUFFICES ASSUME ExitThread(t) PROVE FALSE
      OBVIOUS
    <3>1. u = t
      BY <1>1, <1>3, ExitThreadDies, CoreFields DEF Die
    <3>. QED
      BY <2>3, <3>1, ExitThreadAside
  <2>5. InQueue(core, u, q)
    BY <2>1, <2>3, <2>4, ExitProcessQueues
  <2>6. run_state[u] = "BLOCKED"
    BY <1>1, <1>3, <2>5, QueuedFacts
  <2>. QED
    BY <1>1, <2>1, <2>4, <2>6, KilledAreLeft
<1>. QED
  BY <1>2, <1>3

(***************************************************************************)
(* A proc_queue links threads that exist: neither thread_join nor wait     *)
(* frees a thread that is still linked into a queue, in programs where     *)
(* exit leaves nobody behind in keyboard_getchar or in wait.               *)
(***************************************************************************)
THEOREM QueuedCorrect ==
  Spec /\ []SoleManager /\ []ExitSparesSleepers => []QueuedIsValid
<1>1. Init => QueueInv /\ LockInv /\ ValidInv
  BY InitQueues, InitLocks DEF ValidInv
<1>2. LifeSpace /\ ListInv /\ QueueInv /\ [Next]_vars => QueueInv'
  BY QueueNext, LeastNumberHolds
<1>3. LifeSpace /\ ListInv /\ LifeSpace' /\ ListInv' /\ LockInv /\ [Next]_vars
        => LockInv'
  BY NextLock, LeastNumberHolds DEF LifeSpace, ListInv
<1>4. LifeSpace /\ ListInv /\ LockInv /\ QueueInv /\ ValidInv /\ ExitSparesSleepers
        /\ LifeSpace' /\ [Next]_vars => ValidInv'
  BY ValidNext DEF LifeSpace
<1>5. LifeSpace /\ ListInv /\ ValidInv => QueuedIsValid
  <2>. SUFFICES ASSUME LifeSpace, ListInv, ValidInv, NEW q \in Queues,
                       NEW i \in DOMAIN queue[q]
                PROVE  queue[q][i] \notin freed
    BY DEF QueuedIsValid, Range
  <2>1. queue[q] \in Seq(Threads)
    BY DEF LifeSpace, IInv, SchedInv, CoreInv, CoreTyped, core
  <2>2. queue[q][i] \in Threads /\ InQueue(core, queue[q][i], q)
    BY <2>1, CoreFields, SMT DEF InQueue
  <2>. QED
    BY <2>2 DEF ValidInv, LeftToKernel, ListInv, FreedInv, AllThreads
<1>. QED
  BY <1>1, <1>2, <1>3, <1>4, <1>5, ListInvariance, PTL DEF Spec
=============================================================================
