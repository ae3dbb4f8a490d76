----------------------------- MODULE ThreadSteps -----------------------------
(***************************************************************************)
(* What the steps of Kernel do to the thread lists, to the process table,  *)
(* to the mutexes and to the queues of sleeping threads, in states of the  *)
(* invariant IInv of KernelProofs.                                         *)
(*                                                                         *)
(* First the invariant ListInv of the lists and of the table and, action   *)
(* by action, which of seven kinds of step each one is, and that each kind *)
(* keeps it.  Then LockInv, what a thread inside syscall_mutex_lock relies *)
(* on, and QueueInv, who is in which queue, and that every action keeps    *)
(* these two.  ThreadProofs draws the theorems.                            *)
(*                                                                         *)
(* After its first sleep syscall_thread_join searches and changes the list *)
(* of its process with interrupts enabled, so these proofs are about user  *)
(* code in which at most one live thread of a process clones threads and   *)
(* joins them (SoleManager), as in userspace/init.c.  What wait has found  *)
(* is safe if at most one of them waits (SoleWaiter).                      *)
(***************************************************************************)
EXTENDS KernelProofs

USE Zenon

\* In no user process do two live threads run code that makes these calls.
Sole(calls) ==
  \A t, u \in Threads :
    /\ Alive(t) /\ Alive(u) /\ owner[t] = owner[u] /\ owner[t] # KProc
    /\ Program[t] \cap calls # {} /\ Program[u] \cap calls # {}
    => t = u

SoleManager == Sole({"clone_thread", "join"})

SoleWaiter == Sole({"wait"})

-----------------------------------------------------------------------------
(***************************************************************************)
(* What has been freed is dead, a process that has exited has no thread    *)
(* left, and what does not exist yet has no traces.                        *)
(***************************************************************************)
FreedInv ==
  /\ \A t \in AllThreads : t \in freed => run_state[t] = "ZOMBIE"
  /\ \A p \in Procs : p \in freed => p \in zombie /\ parent[p] = None
  /\ \A t \in AllThreads : owner[t] \in zombie => run_state[t] = "ZOMBIE"
  /\ \A t \in AllThreads : run_state[t] = "UNUSED" => owner[t] = None
  /\ \A t \in Threads : run_state[t] = "UNUSED" => pc[t] = "user"
  /\ \A p \in Procs : p \notin procs => threads[p] = <<>>

JoinHasTarget == {"join_found", "join_block", "join_reap", "join_unlink"}

WaitPoints == {"wait_sleep", "wait_top", "wait_block", "wait_reap"}

(***************************************************************************)
(* What a thread that is in thread_join or in wait relies on: its target   *)
(* is still in the list, after the loop it is dead, and the predecessor    *)
(* that PROC_unlink_thread found still is the predecessor.                 *)
(***************************************************************************)
InCall(t) ==
  /\ pc[t] \in JoinPoints => "join" \in Program[t] /\ owner[t] # KProc
  /\ pc[t] \in JoinHasTarget => arg[t] \in Range(threads[owner[t]])
  /\ pc[t] \in {"join_reap", "join_unlink"} => run_state[arg[t]] = "ZOMBIE"
  /\ pc[t] = "join_unlink" => prev[t] = Predecessor(threads[owner[t]], arg[t])
  /\ pc[t] \in WaitPoints => "wait" \in Program[t] /\ owner[t] # KProc
  /\ pc[t] = "wait_reap" =>
       arg[t] \in zombie /\ (parent[arg[t]] = owner[t] \/ arg[t] \in freed)

CallInv == \A t \in Threads : Alive(t) => InCall(t)

ListInv == ThreadListExact /\ FreedInv /\ CallInv

-----------------------------------------------------------------------------
\* In a list without repetitions a thread has one place.
LEMMA IndexUnique ==
  ASSUME NEW s \in Seq(AllThreads), IsInjective(s), NEW i \in 1..Len(s)
  PROVE  IndexOf(s, s[i]) = i
<1>1. DOMAIN s = 1..Len(s)
  BY SMT
<1>2. \A j \in DOMAIN s : s[j] = s[i] => j = i
  BY <1>1 DEF IsInjective
<1>. QED
  BY <1>1, <1>2 DEF IndexOf

\* PROC_unlink_thread with the right predecessor leaves what is before its
\* target and what is after it:
LEMMA UnlinkedIs ==
  ASSUME NEW s \in Seq(AllThreads), IsInjective(s), NEW k \in 1..Len(s)
  PROVE  Unlinked(s, Predecessor(s, s[k]), s[k])
           = SubSeq(s, 1, k - 1) \o SubSeq(s, k + 1, Len(s))
<1>1. IndexOf(s, s[k]) = k /\ s[k] \in Range(s) /\ Len(s) \in Nat
  BY IndexUnique, SMT DEF Range
<1>2. After(s, s[k]) = SubSeq(s, k + 1, Len(s))
  BY <1>1 DEF After
<1>3. SubSeq(s, k + 1, Len(s)) \in Seq(AllThreads)
  BY <1>1, <1>2, AfterIsPart
<1>4. CASE k = 1
  <2>1. Predecessor(s, s[k]) = None
    BY <1>1, <1>4 DEF Predecessor
  <2>2. SubSeq(s, 1, 0) = <<>>
    BY <1>1, PartOf, SMT
  <2>. QED
    BY <1>2, <1>3, <1>4, <2>1, <2>2, SMT DEF Unlinked
<1>5. CASE k # 1
  <2>1. k - 1 \in 1..Len(s)
    BY <1>1, <1>5, SMT
  <2>2. Predecessor(s, s[k]) = s[k - 1]
    BY <1>1, <1>5 DEF Predecessor
  <2>3. s[k - 1] \in Range(s) /\ s[k - 1] \in AllThreads
    BY <1>1, <2>1, SMT DEF Range
  <2>4. s[k - 1] # None /\ IndexOf(s, s[k - 1]) = k - 1
    BY <2>1, <2>3, IndexUnique, MultitaskAssumption DEF AllThreads
  <2>. QED
    BY <1>2, <2>2, <2>3, <2>4 DEF Unlinked
<1>. QED
  BY <1>4, <1>5

\* it takes its target out of the list and changes nothing else.
LEMMA UnlinkedExact ==
  ASSUME NEW s \in Seq(AllThreads), IsInjective(s), NEW u \in Range(s)
  PROVE  /\ IsInjective(Unlinked(s, Predecessor(s, u), u))
         /\ Range(Unlinked(s, Predecessor(s, u), u)) = Range(s) \ {u}
<1>. DEFINE r == Unlinked(s, Predecessor(s, u), u)
<1>1. PICK k \in 1..Len(s) : u = s[k]
  BY SMT DEF Range
<1>. DEFINE a == SubSeq(s, 1, k - 1)
            b == SubSeq(s, k + 1, Len(s))
<1>2. r = a \o b
  BY <1>1, UnlinkedIs
<1>. HIDE DEF r
<1>. DEFINE n == Len(s)
<1>n. n \in Nat /\ k \in 1..n /\ DOMAIN s = 1..n
  BY <1>1, SMT
<1>3. /\ a \in Seq(AllThreads) /\ Len(a) = k - 1
      /\ \A i \in 1..(k - 1) : a[i] = s[i]
  BY <1>n, PartOf, SMT
<1>4. /\ b \in Seq(AllThreads) /\ Len(b) = n - k
      /\ \A i \in 1..(n - k) : b[i] = s[k + i]
  <2>1. \A i \in (k + 1)..n : s[i] \in AllThreads
    BY <1>n, SMT
  <2>2. /\ b \in Seq(AllThreads)
        /\ Len(b) = IF k + 1 <= n THEN n - k ELSE 0
        /\ \A i \in 1..(n - k) : b[i] = s[k + i]
    BY <1>n, <2>1, PartOf, SMT
  <2>. HIDE DEF b, n
  <2>3. Len(b) = n - k
    BY <1>n, <2>2, SMT
  <2>. QED
    BY <2>2, <2>3
<1>. HIDE DEF a, b
<1>5. DOMAIN r = 1..(n - 1)
  <2>1. r \in Seq(AllThreads) /\ Len(r) = Len(a) + Len(b)
    BY <1>2, <1>3, <1>4, Concatenated
  <2>2. Len(r) = n - 1
    BY <1>n, <1>3, <1>4, <2>1, SMT
  <2>. QED
    BY <2>1, <2>2, SMT
<1>6. \A i \in 1..(n - 1) : r[i] = IF i < k THEN s[i] ELSE s[i + 1]
  BY <1>n, <1>2, <1>3, <1>4, SMT
<1>7. \A i, j \in 1..n : s[i] = s[j] => i = j
  BY <1>n DEF IsInjective
<1>. HIDE DEF n
<1>. DEFINE at(i) == IF i < k THEN i ELSE i + 1
<1>8. \A i \in 1..(n - 1) : at(i) \in 1..n /\ at(i) # k /\ r[i] = s[at(i)]
  BY <1>n, <1>6, SMT
<1>9. \A i, j \in 1..(n - 1) : at(i) = at(j) => i = j
  BY <1>n, SMT
<1>10. \A j \in 1..n : j # k => \E i \in 1..(n - 1) : at(i) = j
  <2>. TAKE j \in 1..n
  <2>. HAVE j # k
  <2>1. CASE j < k
    BY <1>n, <2>1, SMT
  <2>2. CASE j > k
    <3>1. j - 1 \in 1..(n - 1) /\ at(j - 1) = j
      BY <1>n, <2>2, SMT
    <3>. QED
      BY <3>1
  <2>. QED
    BY <1>n, <2>1, <2>2, SMT
<1>. HIDE DEF at
<1>11. IsInjective(r)
  BY <1>5, <1>7, <1>8, <1>9, SMT DEF IsInjective
<1>12. \A x : x \in Range(r) <=> \E i \in 1..(n - 1) : x = r[i]
  BY <1>5 DEF Range
<1>13. \A x : x \in Range(s) <=> \E i \in 1..n : x = s[i]
  BY <1>n DEF Range
<1>14. Range(r) = Range(s) \ {u}
  <2>1. \A i \in 1..(n - 1) : r[i] \in Range(s) /\ r[i] # u
    BY <1>1, <1>n, <1>7, <1>8, <1>13, SMT
  <2>2. \A j \in 1..n : s[j] # u => s[j] \in Range(r)
    BY <1>1, <1>8, <1>10, <1>12
  <2>3. \A x : x \in Range(r) => x \in Range(s) \ {u}
    BY <1>12, <2>1
  <2>4. \A x : x \in Range(s) \ {u} => x \in Range(r)
    BY <1>13, <2>2
  <2>. QED
    BY <2>3, <2>4
<1>. QED
  BY <1>11, <1>14 DEF r

-----------------------------------------------------------------------------
(***************************************************************************)
(* What a step may do to the lists and to the process table: leave them    *)
(* alone, link a thread, end threads, reap a child, or unlink a thread.    *)
(***************************************************************************)

\* Among the threads only t goes on.
Moves(t) ==
  \A u \in Threads : u # t =>
    pc'[u] = pc[u] /\ arg'[u] = arg[u] /\ prev'[u] = prev[u]

\* t goes on, as its call wants it, and changes no list.
Stays(t) ==
  /\ SameLife(core, core')
  /\ UNCHANGED <<owner, zombie, procs, threads, freed, parent>>
  /\ Moves(t)
  /\ run_state[t] = "UNUSED" => pc'[t] = pc[t]
  /\ Alive(t) => InCall(t)'
  /\ pc'[t] = "wait_reap" =>
       parent[arg'[t]] = owner[t] \/ (pc[t] = "wait_reap" /\ arg'[t] = arg[t])

\* A thread is created in a process that runs: in the kernel's by anybody, in
\* a user process by a thread of it.
LinksThread(t) ==
  \E u \in Threads, p \in procs \ zombie :
    /\ LinkAndAdmit(u, p)
    /\ p = KProc \/ (p = owner[t] /\ "clone_thread" \in Program[t])
    /\ Alive(t) /\ pc[t] = "user"
    /\ UNCHANGED <<zombie, pc, arg, prev, freed, procs, parent>>

\* A process is created, with one thread.
LinksProcess(t) ==
  \E u \in Threads, p \in Procs \ procs :
    /\ LinkAndAdmit(u, p)
    /\ owner[t] \in procs \ zombie
    /\ procs' = procs \cup {p}
    /\ parent' = [parent EXCEPT ![p] = owner[t]]
    /\ UNCHANGED <<zombie, pc, arg, prev, freed>>

\* Threads of a process die that leaves others alive,
ThreadEnds ==
  \E S \in SUBSET AllThreads :
    /\ Die(core, core', S)
    /\ \A u \in S : run_state[u] # "UNUSED"
    /\ UNCHANGED <<owner, zombie, procs, threads, freed, parent, pc, arg, prev>>

\* or all those it has, and the process with them.
ProcessEnds ==
  \E S \in SUBSET AllThreads, p \in procs \ (zombie \cup {KProc}) :
    /\ Die(core, core', S)
    /\ \A u \in S : run_state[u] # "UNUSED"
    /\ \A u \in AllThreads : owner[u] = p => run_state'[u] = "ZOMBIE"
    /\ zombie' = zombie \cup {p}
    /\ parent' = Reparented(p)
    /\ UNCHANGED <<owner, procs, threads, freed, pc, arg, prev>>

\* t, in wait, reaps a child, or frees once more what another has reaped.
Reaps(t) ==
  \E c \in zombie :
    /\ parent[c] = owner[t] \/ c \in freed
    /\ pc[t] = "user" => parent[c] = owner[t]
    /\ pc[t] # "user" => pc[t] = "wait_reap" /\ c = arg[t]
    /\ Alive(t) /\ owner[t] # KProc /\ "wait" \in Program[t]
    /\ Reap(c)
    /\ SameLife(core, core')
    /\ UNCHANGED <<owner, zombie, procs, threads>>
    /\ Moves(t) /\ pc'[t] = "user"

\* t, in thread_join, unlinks and frees a thread that has exited.
Unlinks(t) ==
  \E u \in Range(threads[owner[t]]) \cap Threads :
    /\ run_state[u] = "ZOMBIE"
    /\ Alive(t) /\ owner[t] # KProc /\ "join" \in Program[t]
    /\ threads' = [threads EXCEPT
                     ![owner[t]] = Unlinked(@, Predecessor(@, u), u)]
    /\ freed' = freed \cup {u}
    /\ SameLife(core, core')
    /\ UNCHANGED <<owner, zombie, procs, parent>>
    /\ Moves(t) /\ pc'[t] = "user"

(***************************************************************************)
(* Which step does which.                                                  *)
(***************************************************************************)
Outside(t) == pc[t] \notin JoinPoints \cup WaitPoints

\* A thread that is outside thread_join and wait relies on nothing.
LEMMA OutsideInCall ==
  ASSUME NEW t, Outside(t)'
  PROVE  InCall(t)' /\ pc'[t] # "wait_reap"
BY DEF Outside, InCall, JoinPoints, JoinHasTarget, WaitPoints

\* A step that leaves everything of the processes alone but t's place.
LEMMA OutsideStays ==
  ASSUME IInv, NEW t \in Threads, t = curr_proc, pc[t] \notin SleepPoints, Calm,
         UNCHANGED <<threads, freed, parent, prev>>,
         Moves(t), Outside(t)'
  PROVE  Stays(t)
<1>1. run_state[t] = "RUNNING"
  BY CallerIsRunning DEF IInv
<1>. QED
  BY <1>1, OutsideInCall DEF Stays, Calm

\* Only t's pc changes,
LEMMA GotoMoves ==
  ASSUME IInv, NEW t \in Threads, NEW point, Goto(t, point),
         UNCHANGED <<arg, prev>>
  PROVE  Moves(t) /\ pc'[t] = point
BY Types DEF Goto, Moves

\* The mutex calls,
LEMMA MutexStays ==
  ASSUME LeastNumber, IInv, NEW t \in Threads, MutexNext(t), UNCHANGED pvars
  PROVE  Stays(t)
<1>1. /\ t = curr_proc /\ pc[t] \notin SleepPoints
      /\ UNCHANGED <<threads, freed, parent, prev>>
  BY DEF MutexNext, MutexCreate, MutexLock, MutexLockWoken, MutexUnlock,
         MutexDestroy, CallsInto, At, SleepPoints, pvars
<1>2. Calm
  BY MutexCalm
<1>3. pc \in [Threads -> ControlPoints]
      /\ arg \in [Threads -> Threads \cup Procs \cup Mutexes \cup {None}]
  BY DEF IInv, DataInv, ControlTyped
<1>4. ASSUME NEW m, LockAttempt(t, m)
      PROVE  \E point \in {"user", "lock_sleep"} : pc' = [pc EXCEPT ![t] = point]
  BY <1>4 DEF LockAttempt, Goto, BlockAt
<1>5. \/ UNCHANGED pc /\ pc[t] = "user"
      \/ \E point \in {"user", "lock_sleep"} : pc' = [pc EXCEPT ![t] = point]
  BY <1>4 DEF MutexNext, MutexCreate, MutexLock, MutexLockWoken, MutexUnlock,
              MutexDestroy, CallsInto, At, tvars, Goto
<1>6. UNCHANGED arg \/ \E m \in Mutexes : arg' = [arg EXCEPT ![t] = m]
  BY DEF MutexNext, MutexCreate, MutexLock, MutexLockWoken, MutexUnlock,
         MutexDestroy, tvars
<1>7. Moves(t) /\ Outside(t)'
  BY <1>1, <1>3, <1>5, <1>6 DEF Moves, Outside, JoinPoints, WaitPoints
<1>. QED
  BY <1>1, <1>2, <1>7, OutsideStays

\* keyboard_getchar,
LEMMA GetCharStays ==
  ASSUME IInv, NEW t \in Threads, Getc(t) \/ GetcWoken(t)
  PROVE  Stays(t)
<1>1. /\ t = curr_proc /\ pc[t] \notin SleepPoints
      /\ UNCHANGED <<threads, freed, parent, prev, arg>>
  BY DEF Getc, GetcWoken, GetChar, CallsInto, At, SleepPoints, pvars
<1>2. Calm
  BY GetCharCalm
<1>3. PICK point \in {"user", "getc_sleep"} : Goto(t, point)
  BY DEF Getc, GetcWoken, GetChar, BlockAt
<1>4. Moves(t) /\ pc'[t] = point
  BY <1>1, <1>3, GotoMoves
<1>5. Outside(t)'
  BY <1>4 DEF Outside, JoinPoints, WaitPoints
<1>. QED
  BY <1>1, <1>2, <1>4, <1>5, OutsideStays

\* and exec stay outside.
LEMMA ExecStays ==
  ASSUME IInv, NEW t \in Threads, Exec(t) \/ ExecFail(t) \/ ExecSwitch(t)
  PROVE  Stays(t)
<1>1. /\ t = curr_proc /\ pc[t] \notin SleepPoints
      /\ UNCHANGED <<run_state, owner, zombie, procs, threads, freed, parent,
                     prev, arg>>
  BY DEF Exec, ExecFail, ExecSwitch, CallsInto, At, SleepPoints
<1>2. PICK point \in {"user", "exec_load"} : Goto(t, point)
  BY DEF Exec, ExecFail, ExecSwitch
<1>3. Moves(t) /\ pc'[t] = point
  BY <1>1, <1>2, GotoMoves
<1>4. Outside(t)'
  BY <1>3 DEF Outside, JoinPoints, WaitPoints
<1>5. run_state[t] = "RUNNING"
  BY <1>1, CallerIsRunning DEF IInv
<1>. QED
  BY <1>1, <1>3, <1>4, <1>5, SameLifeSame, OutsideInCall DEF Stays

(***************************************************************************)
(* What a thread relies on survives a step that does not move it, keeps    *)
(* the dead dead, and leaves the list it searches and the child it reaps   *)
(* alone.                                                                  *)
(***************************************************************************)
LEMMA InCallKept ==
  ASSUME IInv, NEW t \in Threads, InCall(t),
         pc'[t] = pc[t], arg'[t] = arg[t], prev'[t] = prev[t],
         owner'[t] = owner[t],
         \A u \in Threads : run_state[u] = "ZOMBIE" => run_state'[u] = "ZOMBIE",
         pc[t] \in JoinHasTarget => threads'[owner[t]] = threads[owner[t]],
         zombie \subseteq zombie',
         pc[t] = "wait_reap" =>
           \/ parent'[arg[t]] = parent[arg[t]] /\ freed \subseteq freed'
           \/ arg[t] \in freed'
  PROVE  InCall(t)'
<1>1. pc[t] \in JoinPoints => arg[t] \in Threads
  BY DEF IInv, DataInv, ArgFits
<1>2. pc[t] \in {"join_reap", "join_unlink"} => run_state'[arg[t]] = "ZOMBIE"
  BY <1>1 DEF InCall, JoinPoints
<1>. QED
  BY <1>2 DEF InCall, JoinPoints, JoinHasTarget, WaitPoints

\* A step that leaves t where it is,
LEMMA SameStays ==
  ASSUME IInv, CallInv, NEW t \in Threads, SameLife(core, core'),
         UNCHANGED <<owner, zombie, procs, threads, freed, parent, pc, arg, prev>>
  PROVE  Stays(t)
<1>1. \A u \in Threads : run_state[u] = "ZOMBIE" => run_state'[u] = "ZOMBIE"
  BY CoreFields, Types DEF SameLife
<1>2. Alive(t) => InCall(t)'
  BY <1>1, InCallKept DEF CallInv
<1>. QED
  BY <1>2 DEF Stays, Moves

\* as the timer, the keyboard and yield do,
LEMMA InterruptStays ==
  ASSUME LeastNumber, IInv, CallInv, NEW t \in Threads,
         Preemption \/ KeyPress \/ UNCHANGED vars
  PROVE  Stays(t)
<1>1. SameLife(core, core')
  BY InterruptCalm, SameLifeSame DEF Calm, vars, tvars
<1>2. UNCHANGED <<owner, zombie, procs, threads, freed, parent, pc, arg, prev>>
  BY DEF Preemption, Tick, IdleYield, KeyPress, vars, tvars, pvars
<1>. QED
  BY <1>1, <1>2, SameStays

\* and the yield() of PROC_block_on, which takes t to the test of its loop.
LEMMA YieldStays ==
  ASSUME IInv, CallInv, NEW t \in Threads, Scheduling(t)
  PROVE  Stays(t)
<1>1. SameLife(core, core')
  BY YieldCalm DEF Calm
<1>2. UNCHANGED <<owner, zombie, procs, threads, freed, parent, arg, prev>>
  BY DEF Scheduling, Yield, SleepYield, pvars
<1>3. CASE UNCHANGED pc
  BY <1>1, <1>2, <1>3, SameStays
<1>4. CASE SleepYield(t)
  <2>1. /\ t = curr_proc /\ pc[t] \in SleepPoints
        /\ Goto(t, AfterYield[pc[t]])
    BY <1>4 DEF SleepYield
  <2>2. Moves(t) /\ pc'[t] = AfterYield[pc[t]]
    BY <1>2, <2>1, GotoMoves
  <2>3. Alive(t)
    <3>1. t # Main
      BY MultitaskAssumption
    <3>. QED
      BY <2>1, <3>1 DEF IInv, SchedInv, CpuThreadIsRunning, Alive
  <2>4. InCall(t)
    BY <2>3 DEF CallInv
  <2>5. \/ pc[t] = "join_sleep" /\ pc'[t] = "join_woken"
        \/ pc[t] = "wait_sleep" /\ pc'[t] = "wait_top"
        \/ Outside(t)'
    BY <2>1, <2>2, SMT DEF SleepPoints, AfterYield, Outside, JoinPoints,
       WaitPoints
  <2>6. InCall(t)' /\ pc'[t] # "wait_reap"
    <3>1. CASE Outside(t)'
      BY <3>1, OutsideInCall
    <3>2. CASE pc[t] = "join_sleep" /\ pc'[t] = "join_woken"
      BY <1>2, <2>4, <3>2 DEF InCall, JoinPoints, JoinHasTarget, WaitPoints
    <3>3. CASE pc[t] = "wait_sleep" /\ pc'[t] = "wait_top"
      BY <1>2, <2>4, <3>3 DEF InCall, JoinPoints, JoinHasTarget, WaitPoints
    <3>. QED
      BY <2>5, <3>1, <3>2, <3>3
  <2>. QED
    BY <1>1, <1>2, <2>2, <2>3, <2>6 DEF Stays, Alive
<1>. QED
  BY <1>3, <1>4 DEF Scheduling, Yield

-----------------------------------------------------------------------------
\* A thread that has the CPU and is not in PROC_block_on, and its process.
LEMMA RunnerFacts ==
  ASSUME LifeSpace, ListInv, NEW t \in Threads, t = curr_proc,
         pc[t] \notin SleepPoints
  PROVE  /\ run_state[t] = "RUNNING" /\ Alive(t) /\ InCall(t)
         /\ owner[t] \in Procs /\ owner[t] \in procs /\ owner[t] \notin zombie
         /\ owner[t] \notin freed
<1>1. run_state[t] = "RUNNING"
  BY CallerIsRunning DEF LifeSpace, IInv
<1>2. Alive(t) /\ InCall(t)
  BY <1>1 DEF Alive, ListInv, CallInv
<1>3. owner[t] \in procs /\ owner[t] \in Procs
  BY <1>1, Types DEF LifeSpace, LifeInv
<1>4. owner[t] \notin zombie
  BY <1>1, Types DEF ListInv, FreedInv, LifeSpace
<1>5. owner[t] \notin freed
  BY <1>3, <1>4 DEF ListInv, FreedInv
<1>. QED
  BY <1>1, <1>2, <1>3, <1>4, <1>5

(***************************************************************************)
(* A step of wait stays or reaps.                                          *)
(***************************************************************************)
LEMMA WaitKinds ==
  ASSUME LifeSpace, ListInv, NEW t \in Threads,
         Wait(t) \/ WaitTop(t) \/ WaitBlock(t) \/ WaitReap(t)
  PROVE  Stays(t) \/ Reaps(t)
<1>. DEFINE p == owner[t]
<1>1. /\ t = curr_proc /\ pc[t] \notin SleepPoints
      /\ UNCHANGED <<owner, zombie, procs, threads, prev>>
  BY DEF Wait, WaitTop, WaitBlock, WaitReap, WaitUninterrupted, CallsInto, At,
         SleepPoints, rest_of_wait
<1>2. /\ run_state[t] = "RUNNING" /\ Alive(t) /\ InCall(t)
  BY <1>1, RunnerFacts
<1>3. SameLife(core, core')
  BY WaitCalm DEF LifeSpace, Calm
<1>4. "wait" \in Program[t] /\ p # KProc
  BY <1>2 DEF Wait, WaitTop, WaitBlock, WaitReap, CallsInto, At, InCall,
              WaitPoints, KernelCalls
<1>5. ASSUME NEW point \in {"user", "wait_sleep", "wait_top", "wait_block"},
             Goto(t, point), UNCHANGED <<arg, freed, parent>>
      PROVE  Stays(t)
  <2>1. Moves(t) /\ pc'[t] = point
    BY <1>1, <1>5, GotoMoves DEF LifeSpace
  <2>2. InCall(t)'
    BY <1>1, <1>4, <1>5, <2>1 DEF InCall, JoinPoints, JoinHasTarget
  <2>. QED
    BY <1>1, <1>2, <1>3, <1>5, <2>1, <2>2 DEF Stays
<1>6. CASE UNCHANGED <<pc, arg, freed, parent>>
  BY <1>1, <1>3, <1>6, SameStays DEF LifeSpace, ListInv
<1>7. ASSUME NEW c \in ZombieChildren(p), Reap(c), pc[t] = "user",
             UNCHANGED <<pc, arg>>
      PROVE  Reaps(t)
  <2>1. c \in zombie /\ parent[c] = p
    BY DEF ZombieChildren, Children
  <2>2. Moves(t) /\ pc'[t] = "user"
    BY <1>1, <1>7 DEF Moves
  <2>. QED
    BY <1>1, <1>2, <1>3, <1>4, <1>7, <2>1, <2>2 DEF Reaps
<1>8. CASE Wait(t)
  <2>1. CASE WaitUninterrupted(t)
    <3>1. pc[t] = "user"
      BY <1>8 DEF Wait, CallsInto, At
    <3>. QED
      BY <1>5, <1>6, <1>7, <2>1, <3>1 DEF WaitUninterrupted, BlockAt
  <2>. QED
    BY <1>5, <1>8, <2>1 DEF Wait
<1>9. CASE WaitBlock(t)
  BY <1>5, <1>9 DEF WaitBlock, BlockAt
<1>10. CASE WaitReap(t)
  <2>1. /\ pc[t] = "wait_reap" /\ Reap(arg[t]) /\ Goto(t, "user")
        /\ UNCHANGED arg
    BY <1>10 DEF WaitReap, At
  <2>2. arg[t] \in zombie /\ (parent[arg[t]] = p \/ arg[t] \in freed)
    BY <1>2, <2>1 DEF InCall
  <2>3. Moves(t) /\ pc'[t] = "user"
    BY <1>1, <2>1, GotoMoves DEF LifeSpace
  <2>. QED
    BY <1>1, <1>2, <1>3, <1>4, <2>1, <2>2, <2>3 DEF Reaps
<1>11. CASE WaitTop(t)
  <2>1. UNCHANGED <<freed, parent>>
    BY <1>11 DEF WaitTop
  <2>2. ASSUME NEW c \in ZombieChildren(p), Goto(t, "wait_reap"),
               arg' = [arg EXCEPT ![t] = c]
        PROVE  Stays(t)
    <3>1. arg \in [Threads -> Threads \cup Procs \cup Mutexes \cup {None}]
          /\ pc \in [Threads -> ControlPoints]
      BY DEF LifeSpace, IInv, DataInv, ControlTyped
    <3>2. c \in zombie /\ parent[c] = p
      BY DEF ZombieChildren, Children
    <3>3. Moves(t) /\ pc'[t] = "wait_reap" /\ arg'[t] = c
      BY <1>1, <2>2, <3>1 DEF Moves, Goto
    <3>4. InCall(t)'
      BY <1>1, <1>4, <2>1, <3>2, <3>3 DEF InCall, JoinPoints, JoinHasTarget
    <3>. QED
      BY <1>1, <1>2, <1>3, <2>1, <3>2, <3>3, <3>4 DEF Stays
  <2>3. ASSUME Goto(t, IF Children(p) = {} THEN "user" ELSE "wait_block"),
               UNCHANGED arg
        PROVE  Stays(t)
    BY <1>5, <2>1, <2>3
  <2>. QED
    BY <1>11, <2>2, <2>3 DEF WaitTop
<1>. QED
  BY <1>8, <1>9, <1>10, <1>11

(***************************************************************************)
(* A step of thread_join stays or unlinks.                                 *)
(***************************************************************************)
LEMMA JoinKinds ==
  ASSUME LifeSpace, ListInv, NEW t \in Threads,
         Join(t) \/ JoinWoken(t) \/ JoinTest(t) \/ JoinBlock(t) \/ JoinReap(t)
           \/ JoinUnlink(t)
  PROVE  Stays(t) \/ Unlinks(t)
<1>. DEFINE p == owner[t]
<1>1. /\ t = curr_proc /\ pc[t] \notin SleepPoints
      /\ UNCHANGED <<owner, zombie, procs, parent>>
  BY DEF Join, JoinWoken, JoinTest, JoinBlock, JoinReap, JoinUnlink, CallsInto,
         At, SleepPoints, rest_of_join
<1>2. run_state[t] = "RUNNING" /\ Alive(t) /\ InCall(t)
  BY <1>1, RunnerFacts
<1>3. SameLife(core, core')
  BY JoinCalm DEF LifeSpace, Calm
<1>4. "join" \in Program[t] /\ p # KProc
  BY <1>2 DEF Join, JoinWoken, JoinTest, JoinBlock, JoinReap, JoinUnlink,
              CallsInto, At, InCall, JoinPoints, KernelCalls
<1>5. /\ arg \in [Threads -> Threads \cup Procs \cup Mutexes \cup {None}]
      /\ pc \in [Threads -> ControlPoints]
      /\ prev \in [Threads -> AllThreads \cup {None}]
      /\ pc[t] \in JoinPoints => arg[t] \in Threads
  BY DEF LifeSpace, IInv, DataInv, ControlTyped, ProcessTypeOK, ArgFits
<1>6. ASSUME NEW point \in JoinPoints \cup {"user"}, Goto(t, point), Moves(t),
             UNCHANGED <<threads, freed>>,
             point \in JoinHasTarget => arg'[t] \in Range(threads[p]),
             point \in {"join_reap", "join_unlink"} =>
               run_state'[arg'[t]] = "ZOMBIE",
             point = "join_unlink" => prev'[t] = Predecessor(threads[p], arg'[t])
      PROVE  Stays(t)
  <2>1. pc'[t] = point
    BY <1>5, <1>6 DEF Goto
  <2>2. InCall(t)'
    BY <1>1, <1>4, <1>6, <2>1 DEF InCall, JoinPoints, WaitPoints
  <2>. QED
    BY <1>1, <1>2, <1>3, <1>6, <2>1, <2>2 DEF Stays, JoinPoints
<1>7. ASSUME NEW u \in Threads, u \in Range(threads[p]), run_state[u] = "ZOMBIE",
             threads' = [threads EXCEPT ![p] = Unlinked(@, Predecessor(@, u), u)],
             freed' = freed \cup {u}, Moves(t), pc'[t] = "user"
      PROVE  Unlinks(t)
  BY <1>1, <1>2, <1>3, <1>4, <1>7 DEF Unlinks
<1>8. CASE Join(t)
  <2>1. PICK u \in Range(threads[p]) \ {t, Main} :
           /\ arg' = [arg EXCEPT ![t] = u]
           /\ \/ /\ run_state[u] = "ZOMBIE"
                 /\ threads' = [threads EXCEPT
                      ![p] = Unlinked(@, Predecessor(@, u), u)]
                 /\ freed' = freed \cup {u}
                 /\ UNCHANGED <<run_state, pool, queue, pc>>
              \/ /\ run_state[u] # "ZOMBIE"
                 /\ BlockAt(t, WaitThreadExit(p), "join_sleep")
                 /\ UNCHANGED <<threads, freed>>
    BY <1>8 DEF Join
  <2>2. UNCHANGED prev /\ pc[t] = "user"
    BY <1>8 DEF Join, CallsInto, At
  <2>3. u \in Threads
    <3>1. threads[p] \in Seq(AllThreads)
      BY <1>1, RunnerFacts, Types DEF LifeSpace
    <3>. QED
      BY <2>1, <3>1, ListedAreThreads DEF AllThreads
  <2>4. CASE UNCHANGED pc
    <3>1. Moves(t)
      BY <1>5, <2>1, <2>2, <2>4 DEF Moves
    <3>2. ~Goto(t, "join_sleep")
      BY <1>5, <2>2, <2>4 DEF Goto
    <3>. QED
      BY <1>7, <2>1, <2>2, <2>3, <2>4, <3>1, <3>2 DEF BlockAt
  <2>5. CASE Goto(t, "join_sleep") /\ UNCHANGED <<threads, freed>>
    <3>1. Moves(t)
      BY <1>5, <2>1, <2>2, <2>5 DEF Moves, Goto
    <3>. QED
      BY <1>6, <2>5, <3>1 DEF JoinPoints, JoinHasTarget
  <2>. QED
    BY <2>1, <2>4, <2>5 DEF BlockAt
<1>9. CASE JoinWoken(t) \/ JoinTest(t) \/ JoinBlock(t)
  <2>1. /\ UNCHANGED <<arg, prev, threads, freed>>
        /\ pc[t] \in {"join_woken", "join_found", "join_block"}
    BY <1>9 DEF JoinWoken, JoinTest, JoinBlock, At
  <2>2. PICK point \in {"user", "join_found", "join_reap", "join_block",
                        "join_sleep"} :
          /\ Goto(t, point)
          /\ point \in JoinHasTarget => arg[t] \in Range(threads[p])
          /\ point = "join_reap" => run_state[arg[t]] = "ZOMBIE"
    <3>1. CASE JoinWoken(t)
      BY <3>1 DEF JoinWoken, JoinHasTarget
    <3>2. CASE JoinTest(t)
      BY <1>2, <3>2 DEF JoinTest, At, InCall, JoinHasTarget
    <3>3. CASE JoinBlock(t)
      BY <3>3 DEF JoinBlock, BlockAt, JoinHasTarget
    <3>. QED
      BY <1>9, <3>1, <3>2, <3>3
  <2>3. Moves(t)
    BY <2>1, <2>2, GotoMoves DEF LifeSpace
  <2>4. arg[t] \in Threads
    BY <1>5, <2>1 DEF JoinPoints
  <2>5. run_state[arg[t]] = "ZOMBIE" => run_state'[arg[t]] = "ZOMBIE"
    BY <1>3, <2>4, CoreFields, Types DEF SameLife, LifeSpace
  <2>. QED
    BY <1>6, <2>1, <2>2, <2>3, <2>5 DEF JoinPoints
<1>10. CASE JoinReap(t)
  <2>1. /\ pc[t] = "join_reap" /\ arg[t] \in Range(threads[p])
        /\ run_state[arg[t]] = "ZOMBIE"
    BY <1>2, <1>10 DEF JoinReap, At, InCall, JoinHasTarget
  <2>2. /\ prev' = [prev EXCEPT ![t] = Predecessor(threads[p], arg[t])]
        /\ Goto(t, "join_unlink")
        /\ UNCHANGED <<freed, arg, threads, run_state>>
    BY <1>10, <2>1 DEF JoinReap
  <2>3. Moves(t) /\ prev'[t] = Predecessor(threads[p], arg[t])
    BY <1>5, <2>2 DEF Moves, Goto
  <2>. QED
    BY <1>6, <2>1, <2>2, <2>3 DEF JoinPoints
<1>11. CASE JoinUnlink(t)
  <2>1. /\ pc[t] = "join_unlink" /\ arg[t] \in Range(threads[p])
        /\ run_state[arg[t]] = "ZOMBIE"
        /\ prev[t] = Predecessor(threads[p], arg[t])
    BY <1>2, <1>11 DEF JoinUnlink, At, InCall, JoinHasTarget
  <2>2. /\ threads' = [threads EXCEPT ![p] = Unlinked(@, prev[t], arg[t])]
        /\ freed' = freed \cup {arg[t]}
        /\ prev' = [prev EXCEPT ![t] = None]
        /\ Goto(t, "user")
        /\ UNCHANGED arg
    BY <1>11 DEF JoinUnlink
  <2>3. Moves(t) /\ pc'[t] = "user"
    BY <1>5, <2>2 DEF Moves, Goto
  <2>4. threads' = [threads EXCEPT
          ![p] = Unlinked(@, Predecessor(@, arg[t]), arg[t])]
    BY <2>1, <2>2
  <2>5. arg[t] \in Threads
    BY <1>5, <2>1 DEF JoinPoints
  <2>. QED
    BY <1>7, <2>1, <2>2, <2>3, <2>4, <2>5
<1>. QED
  BY <1>8, <1>9, <1>10, <1>11

(***************************************************************************)
(* What creates a thread links it, in an old process or a new one.         *)
(***************************************************************************)
LEMMA CreateKinds ==
  ASSUME LifeSpace, ListInv, NEW t \in Threads,
         \/ PROC_create_kthread(t) \/ PROC_create_uthread(t)
         \/ Fork(t) \/ CloneThread(t)
  PROVE  LinksThread(t) \/ LinksProcess(t)
<1>1. /\ t = curr_proc /\ pc[t] = "user" /\ pc[t] \notin SleepPoints
      /\ UNCHANGED <<zombie, pc, arg, prev, freed>>
  BY DEF PROC_create_kthread, PROC_create_uthread, Fork, CloneThread,
     CallsInto, At, SleepPoints
<1>2. Alive(t) /\ owner[t] \in procs /\ owner[t] \notin zombie
  BY <1>1, RunnerFacts
<1>3. CASE PROC_create_kthread(t)
  <2>1. KProc \in procs \ zombie
    BY DEF LifeSpace, LifeInv
  <2>. QED
    BY <1>1, <1>2, <1>3, <2>1 DEF PROC_create_kthread, LinksThread
<1>4. CASE CloneThread(t)
  BY <1>1, <1>2, <1>4 DEF CloneThread, CallsInto, LinksThread
<1>5. CASE PROC_create_uthread(t) \/ Fork(t)
  <2>1. PICK u \in Threads, p \in Procs, s \in Spaces :
          LinkAndAdmit(u, p) /\ LinkProcess(p, owner[t], s)
    BY <1>5 DEF PROC_create_uthread, Fork
  <2>2. /\ p \in Procs \ procs /\ procs' = procs \cup {p}
        /\ parent' = [parent EXCEPT ![p] = owner[t]]
    BY <2>1 DEF LinkProcess
  <2>. QED
    BY <1>1, <1>2, <2>1, <2>2 DEF LinksProcess
<1>. QED
  BY <1>3, <1>4, <1>5

(***************************************************************************)
(* exit ends a process with all its threads: those that are not freed are  *)
(* in its list.                                                            *)
(***************************************************************************)
LEMMA ExitProcessKind ==
  ASSUME LifeSpace, ListInv, NEW t \in Threads, ExitProcess(t)
  PROVE  ProcessEnds
<1>1. t = curr_proc /\ pc[t] \notin SleepPoints
  BY DEF ExitProcess, CallsInto, At, SleepPoints
<1>2. PICK p \in Procs : p = owner[t] /\ p \in procs /\ p \notin zombie /\ p \notin freed
  BY <1>1, RunnerFacts
<1>3. /\ p # KProc /\ Teardown(p)
      /\ UNCHANGED <<owner, procs, threads, freed, pc, arg, prev>>
  BY <1>2 DEF ExitProcess
<1>4. zombie' = zombie \cup {p} /\ parent' = Reparented(p)
  BY <1>2, <1>3 DEF Teardown
<1>5. PICK S : S = Range(threads[p])
  OBVIOUS
<1>6. Die(core, core', S)
  BY <1>2, <1>5, ExitProcessDies DEF LifeSpace
<1>7. S \in SUBSET AllThreads /\ \A u \in S : run_state[u] # "UNUSED"
  BY <1>5, Types, ListedAreThreads DEF LifeSpace, LifeInv, ListedIsOf
<1>8. ASSUME NEW u \in AllThreads, owner[u] = p
      PROVE  run_state'[u] = "ZOMBIE"
  <2>1. u \in freed \/ u \in S
    BY <1>2, <1>5, <1>8 DEF ListInv, ThreadListExact
  <2>2. run_state[u] = "ZOMBIE" \/ u \in S
    BY <2>1 DEF ListInv, FreedInv
  <2>. QED
    BY <1>6, <2>2, CoreFields DEF Die
<1>. QED
  BY <1>2, <1>3, <1>4, <1>6, <1>7, <1>8 DEF ProcessEnds

\* thread_exit ends the thread, and the process if there is no other.
LEMMA ExitThreadKind ==
  ASSUME LifeSpace, ListInv, NEW t \in Threads, ExitThread(t)
  PROVE  ThreadEnds \/ ProcessEnds
<1>1. t = curr_proc /\ pc[t] = "user" /\ pc[t] \notin SleepPoints
  BY DEF ExitThread, CallsInto, At, SleepPoints
<1>2. PICK p \in Procs : /\ p = owner[t] /\ p \in procs /\ p \notin zombie
                         /\ run_state[t] = "RUNNING"
  BY <1>1, RunnerFacts
<1>. DEFINE n == OneThreadLess(p)
<1>3. /\ IF n = 0 THEN Teardown(p)
         ELSE UNCHANGED <<zombie, parent, mutex_list, cr3, spaces>>
      /\ UNCHANGED <<owner, procs, threads, freed, pc, arg, prev>>
  BY <1>2 DEF ExitThread
<1>4. PICK S : S = {t} /\ Die(core, core', S)
  BY ExitThreadDies DEF LifeSpace
<1>5. S \in SUBSET AllThreads /\ \A u \in S : run_state[u] # "UNUSED"
  BY <1>2, <1>4, Types DEF LifeSpace
<1>6. /\ live_threads[p] > 0 /\ n = live_threads[p] - 1
      /\ p = KProc => n # 0
  BY <1>1, <1>2 DEF LifeSpace, LastThread
<1>. HIDE DEF n
<1>7. CASE n # 0
  BY <1>3, <1>4, <1>5, <1>7 DEF ThreadEnds
<1>8. CASE n = 0
  <2>1. zombie' = zombie \cup {p} /\ parent' = Reparented(p) /\ p # KProc
    BY <1>2, <1>3, <1>6, <1>8 DEF Teardown
  <2>2. live_threads[p] = 1
    BY <1>6, <1>8, Types, SMT DEF LifeSpace
  <2>3. LiveThreads(p) = {t}
    BY <1>1, <1>2, <2>2 DEF LifeSpace, LastThread
  <2>5. ASSUME NEW u \in AllThreads, owner[u] = p
        PROVE  run_state'[u] = "ZOMBIE"
    <3>1. run_state[u] # "UNUSED"
      BY <2>5, Types DEF ListInv, FreedInv, LifeSpace
    <3>2. run_state[u] = "ZOMBIE" \/ u \in S
      BY <1>4, <2>3, <2>5, <3>1 DEF LiveThreads
    <3>. QED
      BY <1>4, <3>2, CoreFields DEF Die
  <2>. QED
    BY <1>2, <1>3, <1>4, <1>5, <2>1, <2>5 DEF ProcessEnds
<1>. QED
  BY <1>7, <1>8

(***************************************************************************)
(* Every step of the kernel is one of these.                               *)
(***************************************************************************)
ListStep(t) ==
  Stays(t) \/ LinksThread(t) \/ LinksProcess(t) \/ Reaps(t) \/ Unlinks(t)

\* A step that does not end a thread is one of the five.
LEMMA StepOrExit ==
  ASSUME LeastNumber, LifeSpace, ListInv, [Next]_vars
  PROVE  \E t \in Threads : ExitProcess(t) \/ ExitThread(t) \/ ListStep(t)
<1>1. IInv /\ CallInv
  BY DEF LifeSpace, ListInv
<1>2. CASE Preemption \/ KeyPress \/ UNCHANGED vars
  BY <1>1, <1>2, InterruptStays, MultitaskAssumption DEF ListStep
<1>3. ASSUME NEW t \in Threads,
             Scheduling(t) \/ Getc(t) \/ GetcWoken(t)
               \/ (MutexNext(t) /\ UNCHANGED <<pvars, kbd_chars>>)
      PROVE  ListStep(t)
  BY <1>1, <1>3, YieldStays, GetCharStays, MutexStays DEF ListStep
<1>4. ASSUME NEW t \in Threads, ProcessNext(t)
      PROVE  ExitProcess(t) \/ ExitThread(t) \/ ListStep(t)
  <2>1. CASE \/ PROC_create_kthread(t) \/ PROC_create_uthread(t)
             \/ Fork(t) \/ CloneThread(t)
    BY <2>1, CreateKinds DEF ListStep
  <2>2. CASE Exec(t) \/ ExecFail(t) \/ ExecSwitch(t)
    BY <1>1, <2>2, ExecStays DEF ListStep
  <2>3. CASE Wait(t) \/ WaitTop(t) \/ WaitBlock(t) \/ WaitReap(t)
    BY <2>3, WaitKinds DEF ListStep
  <2>4. CASE \/ Join(t) \/ JoinWoken(t) \/ JoinTest(t) \/ JoinBlock(t)
             \/ JoinReap(t) \/ JoinUnlink(t)
    BY <2>4, JoinKinds DEF ListStep
  <2>. QED
    BY <1>4, <2>1, <2>2, <2>3, <2>4 DEF ProcessNext
<1>. QED
  BY <1>2, <1>3, <1>4 DEF Next, ThreadStep

\* And the ends are of the two kinds above.
LEMMA ListKinds ==
  ASSUME LeastNumber, LifeSpace, ListInv, [Next]_vars
  PROVE  \/ ThreadEnds \/ ProcessEnds
         \/ \E t \in Threads : \/ Stays(t) \/ LinksThread(t) \/ LinksProcess(t)
                               \/ Reaps(t) \/ Unlinks(t)
BY StepOrExit, ExitProcessKind, ExitThreadKind DEF ListStep

-----------------------------------------------------------------------------
\* Who lives, in the terms of run_state.
LEMMA SameLifeIs ==
  ASSUME IInv, SameLife(core, core')
  PROVE  /\ \A u \in AllThreads :
              /\ run_state'[u] = "UNUSED" <=> run_state[u] = "UNUSED"
              /\ run_state'[u] = "ZOMBIE" <=> run_state[u] = "ZOMBIE"
         /\ \A u \in Threads : /\ run_state'[u] = "UNUSED" <=> run_state[u] = "UNUSED"
                               /\ run_state'[u] = "ZOMBIE" <=> run_state[u] = "ZOMBIE"
                               /\ Alive(u)' <=> Alive(u)
BY CoreFields, Types DEF SameLife, Alive

(***************************************************************************)
(* The invariant of the lists is kept by a step that stays,                *)
(***************************************************************************)
LEMMA StaysKeeps ==
  ASSUME LifeSpace, ListInv, NEW t \in Threads, Stays(t)
  PROVE  ListInv'
<1>1. /\ UNCHANGED <<owner, zombie, procs, threads, freed, parent>>
      /\ Moves(t)
      /\ run_state[t] = "UNUSED" => pc'[t] = pc[t]
      /\ Alive(t) => InCall(t)'
  BY DEF Stays
<1>2. /\ \A u \in AllThreads :
           /\ run_state'[u] = "UNUSED" <=> run_state[u] = "UNUSED"
           /\ run_state'[u] = "ZOMBIE" <=> run_state[u] = "ZOMBIE"
      /\ \A u \in Threads : /\ run_state'[u] = "UNUSED" <=> run_state[u] = "UNUSED"
                            /\ run_state'[u] = "ZOMBIE" <=> run_state[u] = "ZOMBIE"
                            /\ Alive(u)' <=> Alive(u)
  BY SameLifeIs DEF Stays, LifeSpace
<1>3. ThreadListExact'
  BY <1>1 DEF ListInv, ThreadListExact
<1>4. FreedInv'
  BY <1>1, <1>2 DEF ListInv, FreedInv, Moves
<1>5. CallInv'
  <2>. SUFFICES ASSUME NEW u \in Threads, Alive(u)
                PROVE  InCall(u)'
    BY <1>2 DEF CallInv
  <2>1. CASE u = t
    BY <1>1, <2>1
  <2>2. CASE u # t
    <3>1. InCall(u) /\ IInv
      BY DEF ListInv, CallInv, LifeSpace
    <3>2. pc'[u] = pc[u] /\ arg'[u] = arg[u] /\ prev'[u] = prev[u]
      BY <1>1, <2>2 DEF Moves
    <3>. QED
      BY <1>1, <1>2, <3>1, <3>2, InCallKept
  <2>. QED
    BY <2>1, <2>2
<1>. QED
  BY <1>3, <1>4, <1>5 DEF ListInv

\* by a death that leaves the process,
LEMMA ThreadEndsKeeps ==
  ASSUME LifeSpace, ListInv, ThreadEnds
  PROVE  ListInv'
<1>1. PICK S \in SUBSET AllThreads :
        /\ Die(core, core', S)
        /\ \A u \in S : run_state[u] # "UNUSED"
        /\ UNCHANGED <<owner, zombie, procs, threads, freed, parent, pc, arg,
                       prev>>
  BY DEF ThreadEnds
<1>2. \A u \in AllThreads :
        /\ run_state'[u] = "UNUSED" <=> run_state[u] = "UNUSED"
        /\ run_state[u] = "ZOMBIE" => run_state'[u] = "ZOMBIE"
  BY <1>1, CoreFields DEF Die
<1>3. Threads \subseteq AllThreads
  BY DEF AllThreads
<1>4. ThreadListExact'
  BY <1>1 DEF ListInv, ThreadListExact
<1>5. FreedInv'
  BY <1>1, <1>2, <1>3 DEF ListInv, FreedInv
<1>6. CallInv'
  <2>. SUFFICES ASSUME NEW u \in Threads, Alive(u)'
                PROVE  InCall(u)'
    BY DEF CallInv
  <2>1. InCall(u) /\ IInv
    BY <1>2, <1>3 DEF ListInv, CallInv, Alive, LifeSpace
  <2>. QED
    BY <1>1, <1>2, <1>3, <2>1, InCallKept
<1>. QED
  BY <1>4, <1>5, <1>6 DEF ListInv

\* by the end of a process: who could have counted on it is dead,
LEMMA ProcessEndsKeeps ==
  ASSUME LifeSpace, ListInv, ProcessEnds
  PROVE  ListInv'
<1>1. PICK S \in SUBSET AllThreads, p \in procs \ (zombie \cup {KProc}) :
        /\ Die(core, core', S)
        /\ \A u \in S : run_state[u] # "UNUSED"
        /\ \A u \in AllThreads : owner[u] = p => run_state'[u] = "ZOMBIE"
        /\ zombie' = zombie \cup {p}
        /\ parent' = Reparented(p)
        /\ UNCHANGED <<owner, procs, threads, freed, pc, arg, prev>>
  BY DEF ProcessEnds
<1>2. \A u \in AllThreads :
        /\ run_state'[u] = "UNUSED" <=> run_state[u] = "UNUSED"
        /\ run_state[u] = "ZOMBIE" => run_state'[u] = "ZOMBIE"
  BY <1>1, CoreFields DEF Die
<1>3. /\ Threads \subseteq AllThreads /\ p \in Procs /\ None \notin Procs
      /\ parent \in [Procs -> Procs \cup {None}]
  BY Types DEF LifeSpace, IInv, DataInv, ProcessTypeOK
<1>4. \A c \in Procs : parent'[c] = IF parent[c] = p THEN KProc ELSE parent[c]
  BY <1>1 DEF Reparented, Children
<1>5. ThreadListExact'
  BY <1>1 DEF ListInv, ThreadListExact
<1>6. FreedInv'
  BY <1>1, <1>2, <1>3, <1>4, SMT DEF ListInv, FreedInv
<1>7. CallInv'
  <2>. SUFFICES ASSUME NEW u \in Threads, Alive(u)'
                PROVE  InCall(u)'
    BY DEF CallInv
  <2>1. InCall(u) /\ IInv
    BY <1>2, <1>3 DEF ListInv, CallInv, Alive, LifeSpace
  <2>2. owner[u] # p
    BY <1>1, <1>3 DEF Alive
  <2>3. pc[u] = "wait_reap" =>
          \/ parent'[arg[u]] = parent[arg[u]] /\ freed \subseteq freed'
          \/ arg[u] \in freed'
    <3>1. pc[u] = "wait_reap" =>
            arg[u] \in Procs /\ (parent[arg[u]] = owner[u] \/ arg[u] \in freed)
      BY <2>1 DEF IInv, DataInv, ArgFits, InCall
    <3>. QED
      BY <1>1, <1>4, <2>2, <3>1
  <2>. QED
    BY <1>1, <1>2, <1>3, <2>1, <2>3, InCallKept
<1>. QED
  BY <1>5, <1>6, <1>7 DEF ListInv

\* by a reaping: the threads that are freed were all of the child's,
LEMMA ReapsKeeps ==
  ASSUME LifeSpace, ListInv, NEW t \in Threads, Reaps(t)
  PROVE  ListInv'
<1>1. PICK c \in zombie :
        /\ parent' = [parent EXCEPT ![c] = None]
        /\ freed' = freed \cup Range(threads[c]) \cup {c}
  BY DEF Reaps, Reap
<1>2. /\ UNCHANGED <<owner, zombie, procs, threads>> /\ Moves(t)
      /\ pc'[t] = "user" /\ Alive(t) /\ SameLife(core, core')
  BY DEF Reaps
<1>3. /\ \A u \in AllThreads :
           /\ run_state'[u] = "UNUSED" <=> run_state[u] = "UNUSED"
           /\ run_state'[u] = "ZOMBIE" <=> run_state[u] = "ZOMBIE"
      /\ \A u \in Threads : /\ run_state'[u] = "UNUSED" <=> run_state[u] = "UNUSED"
                            /\ run_state'[u] = "ZOMBIE" <=> run_state[u] = "ZOMBIE"
                            /\ Alive(u)' <=> Alive(u)
  BY <1>2, SameLifeIs DEF LifeSpace
<1>4. /\ c \in Procs /\ c \notin AllThreads
      /\ parent \in [Procs -> Procs \cup {None}]
  BY Types, StructuresAssumption DEF LifeSpace, IInv, DataInv, ProcessTypeOK
<1>5. PICK R \in SUBSET AllThreads :
        /\ R = Range(threads[c])
        /\ \A u \in R : owner[u] = c /\ run_state[u] = "ZOMBIE"
  <2>1. Range(threads[c]) \subseteq AllThreads
    BY <1>4, Types, ListedAreThreads DEF LifeSpace
  <2>2. \A u \in Range(threads[c]) : owner[u] = c
    BY <1>4 DEF LifeSpace, LifeInv, ListedIsOf
  <2>. QED
    BY <2>1, <2>2 DEF ListInv, FreedInv
<1>6. freed' = freed \cup R \cup {c} /\ freed \subseteq freed'
  BY <1>1, <1>5
<1>7. ThreadListExact'
  <2>. SUFFICES ASSUME NEW p \in procs \ freed'
                PROVE  /\ IsInjective(threads[p])
                       /\ Range(threads[p]) = {u \in AllThreads \ freed' : owner[u] = p}
    BY <1>2 DEF ThreadListExact
  <2>1. p \in procs \ freed /\ p # c
    BY <1>6
  <2>2. /\ IsInjective(threads[p])
        /\ Range(threads[p]) = {u \in AllThreads \ freed : owner[u] = p}
    BY <2>1 DEF ListInv, ThreadListExact
  <2>3. \A u \in AllThreads : owner[u] = p => (u \in freed' <=> u \in freed)
    BY <1>4, <1>5, <1>6, <2>1
  <2>. QED
    BY <2>2, <2>3
<1>8. FreedInv'
  <2>1. \A u \in AllThreads : u \in freed' => run_state'[u] = "ZOMBIE"
    BY <1>3, <1>4, <1>5, <1>6 DEF ListInv, FreedInv
  <2>2. \A p \in Procs : p \in freed' => p \in zombie' /\ parent'[p] = None
    <3>. TAKE p \in Procs
    <3>1. CASE p = c
      BY <1>1, <1>2, <1>4, <3>1
    <3>2. CASE p # c
      <4>1. p \in freed' => p \in freed
        BY <1>5, <1>6, <3>2, StructuresAssumption
      <4>2. parent'[p] = parent[p]
        BY <1>1, <1>4, <3>2
      <4>. QED
        BY <1>2, <4>1, <4>2 DEF ListInv, FreedInv
    <3>. QED
      BY <3>1, <3>2
  <2>3. \A u \in Threads : run_state'[u] = "UNUSED" => pc'[u] = "user"
    BY <1>2, <1>3 DEF ListInv, FreedInv, Moves
  <2>. QED
    BY <1>2, <1>3, <2>1, <2>2, <2>3 DEF ListInv, FreedInv
<1>9. CallInv'
  <2>. SUFFICES ASSUME NEW u \in Threads, Alive(u)
                PROVE  InCall(u)'
    BY <1>3 DEF CallInv
  <2>1. CASE u = t
    BY <1>2, <2>1, OutsideInCall DEF Outside, JoinPoints, WaitPoints
  <2>2. CASE u # t
    <3>1. InCall(u) /\ IInv
      BY DEF ListInv, CallInv, LifeSpace
    <3>2. pc'[u] = pc[u] /\ arg'[u] = arg[u] /\ prev'[u] = prev[u]
      BY <1>2, <2>2 DEF Moves
    <3>3. pc[u] = "wait_reap" =>
            \/ parent'[arg[u]] = parent[arg[u]] /\ freed \subseteq freed'
            \/ arg[u] \in freed'
      <4>1. pc[u] = "wait_reap" => arg[u] \in Procs
        BY <3>1 DEF IInv, DataInv, ArgFits
      <4>. QED
        BY <1>1, <1>4, <1>6, <4>1
    <3>. QED
      BY <1>2, <1>3, <3>1, <3>2, <3>3, InCallKept
  <2>. QED
    BY <2>1, <2>2
<1>. QED
  BY <1>7, <1>8, <1>9 DEF ListInv

\* by an unlinking, if no other thread is walking the list,
LEMMA UnlinksKeeps ==
  ASSUME LifeSpace, ListInv, SoleManager, NEW t \in Threads, Unlinks(t)
  PROVE  ListInv'
<1>1. PICK p : p = owner[t]
  OBVIOUS
<1>2. PICK u \in Threads :
        /\ u \in Range(threads[p]) /\ run_state[u] = "ZOMBIE"
        /\ threads' = [threads EXCEPT ![p] = Unlinked(@, Predecessor(@, u), u)]
        /\ freed' = freed \cup {u}
  BY <1>1 DEF Unlinks
<1>3. /\ UNCHANGED <<owner, zombie, procs, parent>> /\ Moves(t)
      /\ pc'[t] = "user" /\ Alive(t) /\ SameLife(core, core')
      /\ p # KProc /\ "join" \in Program[t]
  BY <1>1 DEF Unlinks
<1>4. /\ \A v \in AllThreads :
           /\ run_state'[v] = "UNUSED" <=> run_state[v] = "UNUSED"
           /\ run_state'[v] = "ZOMBIE" <=> run_state[v] = "ZOMBIE"
      /\ \A v \in Threads : /\ run_state'[v] = "UNUSED" <=> run_state[v] = "UNUSED"
                            /\ run_state'[v] = "ZOMBIE" <=> run_state[v] = "ZOMBIE"
                            /\ Alive(v)' <=> Alive(v)
  BY <1>3, SameLifeIs DEF LifeSpace
<1>5. /\ u \in AllThreads /\ u \notin Procs
      /\ threads \in [Procs -> Seq(AllThreads)]
  BY Types, StructuresAssumption DEF LifeSpace
<1>6. p \in Procs /\ p \in procs /\ p \notin freed
  <2>1. run_state[t] \notin {"UNUSED", "ZOMBIE"} /\ t \in AllThreads
    BY <1>3, Types DEF Alive, LifeSpace
  <2>2. p \in procs /\ p \notin zombie
    BY <1>1, <2>1 DEF LifeSpace, LifeInv, ListInv, FreedInv
  <2>. QED
    BY <2>2, Types DEF LifeSpace, ListInv, FreedInv
<1>7. /\ IsInjective(threads[p])
      /\ Range(threads[p]) = {v \in AllThreads \ freed : owner[v] = p}
  BY <1>6 DEF ListInv, ThreadListExact
<1>8. /\ IsInjective(threads'[p])
      /\ Range(threads'[p]) = Range(threads[p]) \ {u}
  <2>1. threads'[p] = Unlinked(threads[p], Predecessor(threads[p], u), u)
        /\ threads[p] \in Seq(AllThreads)
    BY <1>2, <1>5, <1>6
  <2>. QED
    BY <1>2, <1>7, <2>1, UnlinkedExact
<1>9. \A q \in Procs : q # p => threads'[q] = threads[q]
  BY <1>2, <1>5, <1>6
<1>10. owner[u] = p
  BY <1>2, <1>6 DEF LifeSpace, LifeInv, ListedIsOf
<1>11. ThreadListExact'
  <2>. SUFFICES ASSUME NEW q \in procs \ freed'
                PROVE  /\ IsInjective(threads'[q])
                       /\ Range(threads'[q]) = {v \in AllThreads \ freed' : owner[v] = q}
    BY <1>3 DEF ThreadListExact
  <2>1. CASE q = p
    BY <1>2, <1>7, <1>8, <2>1
  <2>2. CASE q # p
    <3>1. q \in procs \ freed /\ q \in Procs
      BY <1>2, Types DEF LifeSpace
    <3>2. /\ IsInjective(threads[q])
          /\ Range(threads[q]) = {v \in AllThreads \ freed : owner[v] = q}
      BY <3>1 DEF ListInv, ThreadListExact
    <3>3. threads'[q] = threads[q]
      BY <1>9, <2>2, <3>1
    <3>. QED
      BY <1>2, <1>10, <2>2, <3>2, <3>3
  <2>. QED
    BY <2>1, <2>2
<1>12. FreedInv'
  <2>1. \A v \in AllThreads : v \in freed' => run_state'[v] = "ZOMBIE"
    BY <1>2, <1>4 DEF ListInv, FreedInv
  <2>2. \A q \in Procs : q \in freed' => q \in zombie' /\ parent'[q] = None
    BY <1>2, <1>3, <1>5 DEF ListInv, FreedInv
  <2>3. \A v \in Threads : run_state'[v] = "UNUSED" => pc'[v] = "user"
    BY <1>3, <1>4 DEF ListInv, FreedInv, Moves
  <2>4. \A q \in Procs : q \notin procs' => threads'[q] = <<>>
    BY <1>3, <1>6, <1>9 DEF ListInv, FreedInv
  <2>. QED
    BY <1>3, <1>4, <2>1, <2>2, <2>3, <2>4 DEF ListInv, FreedInv
<1>13. CallInv'
  <2>. SUFFICES ASSUME NEW v \in Threads, Alive(v)
                PROVE  InCall(v)'
    BY <1>4 DEF CallInv
  <2>1. CASE v = t
    BY <1>3, <2>1, OutsideInCall DEF Outside, JoinPoints, WaitPoints
  <2>2. CASE v # t
    <3>1. InCall(v) /\ IInv
      BY DEF ListInv, CallInv, LifeSpace
    <3>2. pc'[v] = pc[v] /\ arg'[v] = arg[v] /\ prev'[v] = prev[v]
      BY <1>3, <2>2 DEF Moves
    <3>3. pc[v] \in JoinHasTarget => threads'[owner[v]] = threads[owner[v]]
      <4>. HAVE pc[v] \in JoinHasTarget
      <4>1. "join" \in Program[v] /\ owner[v] # KProc
        BY <3>1 DEF InCall, JoinPoints, JoinHasTarget
      <4>2. owner[v] # p
        BY <1>1, <1>3, <2>2, <4>1 DEF SoleManager, Sole
      <4>3. owner[v] \in Procs
        <5>1. run_state[v] # "UNUSED" /\ v \in AllThreads
          BY Types DEF Alive, LifeSpace
        <5>. QED
          BY <5>1, Types DEF LifeSpace, LifeInv
      <4>. QED
        BY <1>9, <4>2, <4>3
    <3>. QED
      BY <1>2, <1>3, <1>4, <3>1, <3>2, <3>3, InCallKept
  <2>. QED
    BY <2>1, <2>2
<1>. QED
  BY <1>11, <1>12, <1>13 DEF ListInv

\* PROC_link_thread puts a new thread in front of a list.
LEMMA LinkedExact ==
  ASSUME NEW s \in Seq(AllThreads), IsInjective(s),
         NEW u \in AllThreads, u \notin Range(s)
  PROVE  /\ IsInjective(<<u>> \o s)
         /\ Range(<<u>> \o s) = Range(s) \cup {u}
<1>. DEFINE r == <<u>> \o s
            n == Len(s)
<1>1. n \in Nat /\ DOMAIN s = 1..n
  BY SMT
<1>2. DOMAIN r = 1..(n + 1)
  <2>1. r \in Seq(AllThreads) /\ Len(r) = n + 1
    BY SMT
  <2>. QED
    BY <2>1, SMT
<1>3. \A i \in 1..(n + 1) : r[i] = IF i = 1 THEN u ELSE s[i - 1]
  BY SMT
<1>. HIDE DEF r, n
<1>4. \A i, j \in 1..n : s[i] = s[j] => i = j
  BY <1>1 DEF IsInjective
<1>5. \A x : x \in Range(s) <=> \E i \in 1..n : x = s[i]
  BY <1>1 DEF Range
<1>6. \A x : x \in Range(r) <=> \E i \in 1..(n + 1) : x = r[i]
  BY <1>2 DEF Range
<1>7. IsInjective(r)
  <2>. SUFFICES ASSUME NEW i \in 1..(n + 1), NEW j \in 1..(n + 1), r[i] = r[j]
                PROVE  i = j
    BY <1>2 DEF IsInjective
  <2>1. CASE i = 1 \/ j = 1
    BY <1>1, <1>3, <1>5, <2>1, SMT
  <2>2. CASE i # 1 /\ j # 1
    <3>1. i - 1 \in 1..n /\ j - 1 \in 1..n /\ s[i - 1] = s[j - 1]
      BY <1>1, <1>3, <2>2, SMT
    <3>. QED
      BY <1>1, <1>4, <3>1, SMT
  <2>. QED
    BY <2>1, <2>2
<1>8. \A x : x \in Range(r) => x \in Range(s) \cup {u}
  <2>. SUFFICES ASSUME NEW i \in 1..(n + 1)
                PROVE  r[i] \in Range(s) \cup {u}
    BY <1>6
  <2>1. CASE i = 1
    BY <1>3, <2>1
  <2>2. CASE i # 1
    <3>1. i - 1 \in 1..n /\ r[i] = s[i - 1]
      BY <1>1, <1>3, <2>2, SMT
    <3>. QED
      BY <1>5, <3>1
  <2>. QED
    BY <2>1, <2>2
<1>9. u \in Range(r)
  <2>1. 1 \in 1..(n + 1) /\ r[1] = u
    BY <1>1, <1>3, SMT
  <2>. QED
    BY <1>6, <2>1
<1>10. \A x : x \in Range(s) => x \in Range(r)
  <2>. SUFFICES ASSUME NEW i \in 1..n
                PROVE  s[i] \in Range(r)
    BY <1>5
  <2>1. i + 1 \in 1..(n + 1) /\ r[i + 1] = s[i]
    BY <1>1, <1>3, SMT
  <2>. QED
    BY <1>6, <2>1
<1>11. Range(r) = Range(s) \cup {u}
  BY <1>8, <1>9, <1>10
<1>. QED
  BY <1>7, <1>11 DEF r

\* and by the linking of a thread to a list in which nobody is searching.
LEMMA LinkKeeps ==
  ASSUME LifeSpace, ListInv, NEW u \in Threads, NEW p \in Procs, p \notin zombie,
         LinkAndAdmit(u, p), UNCHANGED <<zombie, pc, arg, prev, freed>>,
         procs' = procs \cup {p},
         \A c \in zombie : parent'[c] = parent[c],
         \A v \in Threads :
           Alive(v) /\ pc[v] \in JoinHasTarget => owner[v] # p
  PROVE  ListInv'
<1>1. /\ run_state[u] = "UNUSED"
      /\ run_state' = [run_state EXCEPT ![u] = "READY"]
      /\ owner' = [owner EXCEPT ![u] = p]
      /\ threads' = [threads EXCEPT ![p] = <<u>> \o @]
  BY LinkLive DEF LinkAndAdmit, LifeSpace
<1>2. /\ u \in AllThreads /\ Threads \subseteq AllThreads
      /\ None \notin Procs
      /\ \A v \in AllThreads : v # u =>
           run_state'[v] = run_state[v] /\ owner'[v] = owner[v]
      /\ run_state'[u] = "READY" /\ owner'[u] = p
      /\ threads'[p] = <<u>> \o threads[p]
      /\ \A q \in Procs : q # p => threads'[q] = threads[q]
      /\ threads[p] \in Seq(AllThreads)
      /\ procs \subseteq Procs
  BY <1>1, Types DEF LifeSpace
<1>3. owner[u] = None /\ u \notin freed /\ p \notin freed /\ pc[u] = "user"
  BY <1>1, <1>2 DEF ListInv, FreedInv
<1>4. /\ IsInjective(threads[p])
      /\ Range(threads[p]) = {v \in AllThreads \ freed : owner[v] = p}
  <2>1. CASE p \in procs
    BY <1>3, <2>1 DEF ListInv, ThreadListExact
  <2>2. CASE p \notin procs
    <3>1. threads[p] = <<>>
      BY <2>2 DEF ListInv, FreedInv
    <3>2. IsInjective(<<>>) /\ Range(<<>>) = {}
      BY SMT DEF IsInjective, Range
    <3>3. \A v \in AllThreads : owner[v] # p
      BY <1>2, <2>2, SMT DEF LifeSpace, LifeInv, ListInv, FreedInv
    <3>. QED
      BY <3>1, <3>2, <3>3
  <2>. QED
    BY <2>1, <2>2
<1>5. u \notin Range(threads[p])
  BY <1>2, <1>3, <1>4
<1>6. IsInjective(threads'[p]) /\ Range(threads'[p]) = Range(threads[p]) \cup {u}
  BY <1>2, <1>4, <1>5, LinkedExact, SMT
<1>7. ThreadListExact'
  <2>. SUFFICES ASSUME NEW q \in procs' \ freed
                PROVE  /\ IsInjective(threads'[q])
                       /\ Range(threads'[q]) = {v \in AllThreads \ freed : owner'[v] = q}
    BY DEF ThreadListExact
  <2>1. CASE q = p
    <3>1. {v \in AllThreads \ freed : owner'[v] = p}
            = {v \in AllThreads \ freed : owner[v] = p} \cup {u}
      BY <1>2, <1>3
    <3>. QED
      BY <1>4, <1>6, <2>1, <3>1
  <2>2. CASE q # p
    <3>1. q \in procs \ freed /\ q \in Procs
      BY <1>2, <2>2
    <3>2. /\ IsInjective(threads[q])
          /\ Range(threads[q]) = {v \in AllThreads \ freed : owner[v] = q}
      BY <3>1 DEF ListInv, ThreadListExact
    <3>3. \A v \in AllThreads : owner'[v] = q <=> owner[v] = q
      BY <1>2, <1>3, <2>2, <3>1
    <3>4. threads'[q] = threads[q]
      BY <1>2, <2>2, <3>1
    <3>. QED
      BY <3>2, <3>3, <3>4
  <2>. QED
    BY <2>1, <2>2
<1>8. FreedInv'
  <2>1. \A v \in AllThreads : v \in freed' => run_state'[v] = "ZOMBIE"
    BY <1>2, <1>3 DEF ListInv, FreedInv
  <2>2. \A q \in Procs : q \in freed' => q \in zombie' /\ parent'[q] = None
    BY DEF ListInv, FreedInv
  <2>3. \A v \in AllThreads : owner'[v] \in zombie' => run_state'[v] = "ZOMBIE"
    BY <1>2 DEF ListInv, FreedInv
  <2>4. \A v \in AllThreads : run_state'[v] = "UNUSED" => owner'[v] = None
    BY <1>2, SMT DEF ListInv, FreedInv
  <2>5. \A v \in Threads : run_state'[v] = "UNUSED" => pc'[v] = "user"
    BY <1>2, <1>3 DEF ListInv, FreedInv
  <2>6. \A q \in Procs : q \notin procs' => threads'[q] = <<>>
    BY <1>2 DEF ListInv, FreedInv
  <2>. QED
    BY <2>1, <2>2, <2>3, <2>4, <2>5, <2>6 DEF FreedInv
<1>9. CallInv'
  <2>. SUFFICES ASSUME NEW v \in Threads, Alive(v)'
                PROVE  InCall(v)'
    BY DEF CallInv
  <2>1. CASE v = u
    BY <1>3, <2>1, OutsideInCall DEF Outside, JoinPoints, WaitPoints
  <2>2. CASE v # u
    <3>1. /\ Alive(v) /\ owner'[v] = owner[v] /\ owner[v] \in Procs
          /\ InCall(v) /\ IInv
      <4>1. Alive(v) /\ owner'[v] = owner[v] /\ v \in AllThreads
        BY <1>2, <2>2 DEF Alive
      <4>. QED
        BY <1>2, <4>1 DEF Alive, LifeSpace, LifeInv, ListInv, CallInv
    <3>2. \A w \in Threads : run_state[w] = "ZOMBIE" => run_state'[w] = "ZOMBIE"
      BY <1>1, <1>2
    <3>3. pc[v] \in JoinHasTarget => threads'[owner[v]] = threads[owner[v]]
      BY <1>2, <3>1
    <3>4. pc[v] = "wait_reap" => parent'[arg[v]] = parent[arg[v]]
      BY <3>1 DEF InCall
    <3>. QED
      BY <3>1, <3>2, <3>3, <3>4, InCallKept
  <2>. QED
    BY <2>1, <2>2
<1>. QED
  BY <1>7, <1>8, <1>9 DEF ListInv

\* So creation keeps it, if no other thread of the process clones and joins.
LEMMA LinksKeeps ==
  ASSUME LifeSpace, ListInv, SoleManager, NEW t \in Threads,
         LinksThread(t) \/ LinksProcess(t)
  PROVE  ListInv'
<1>1. \A v \in Threads : Alive(v) /\ pc[v] \in JoinHasTarget =>
        "join" \in Program[v] /\ owner[v] # KProc /\ owner[v] \in procs
  <2>. SUFFICES ASSUME NEW v \in Threads, Alive(v), pc[v] \in JoinHasTarget
                PROVE  "join" \in Program[v] /\ owner[v] # KProc /\ owner[v] \in procs
    OBVIOUS
  <2>1. InCall(v)
    BY DEF ListInv, CallInv
  <2>2. owner[v] \in procs
    BY Types DEF Alive, LifeSpace, LifeInv
  <2>. QED
    BY <2>1, <2>2 DEF InCall, JoinPoints, JoinHasTarget
<1>2. procs \subseteq Procs /\ zombie \subseteq procs
      /\ parent \in [Procs -> Procs \cup {None}]
  BY Types DEF LifeSpace, LifeInv, IInv, DataInv, ProcessTypeOK
<1>3. CASE LinksThread(t)
  <2>1. PICK u \in Threads, p \in procs \ zombie :
          /\ LinkAndAdmit(u, p)
          /\ p = KProc \/ (p = owner[t] /\ "clone_thread" \in Program[t])
          /\ Alive(t) /\ pc[t] = "user"
          /\ UNCHANGED <<zombie, pc, arg, prev, freed, procs, parent>>
    BY <1>3 DEF LinksThread
  <2>2. \A v \in Threads : Alive(v) /\ pc[v] \in JoinHasTarget => owner[v] # p
    <3>. SUFFICES ASSUME NEW v \in Threads, Alive(v), pc[v] \in JoinHasTarget,
                         owner[v] = p
                  PROVE  FALSE
      OBVIOUS
    <3>1. v # t
      BY <2>1 DEF JoinHasTarget
    <3>. QED
      BY <1>1, <2>1, <3>1 DEF SoleManager, Sole
  <2>3. procs' = procs \cup {p}
    BY <2>1
  <2>. QED
    BY <1>2, <2>1, <2>2, <2>3, LinkKeeps
<1>4. CASE LinksProcess(t)
  <2>1. PICK u \in Threads, p \in Procs \ procs :
          /\ LinkAndAdmit(u, p)
          /\ procs' = procs \cup {p}
          /\ parent' = [parent EXCEPT ![p] = owner[t]]
          /\ UNCHANGED <<zombie, pc, arg, prev, freed>>
    BY <1>4 DEF LinksProcess
  <2>2. \A c \in zombie : parent'[c] = parent[c]
    BY <1>2, <2>1
  <2>3. p \in Procs /\ p \notin zombie
    BY <1>2, <2>1
  <2>4. \A v \in Threads : Alive(v) /\ pc[v] \in JoinHasTarget => owner[v] # p
    BY <1>1, <2>1
  <2>. QED
    BY <2>1, <2>2, <2>3, <2>4, LinkKeeps
<1>. QED
  BY <1>3, <1>4

-----------------------------------------------------------------------------
\* The first state satisfies the invariant,
LEMMA InitList ==
  ASSUME Init
  PROVE  ListInv
<1>1. /\ procs = {KProc} /\ zombie = {} /\ freed = {}
      /\ owner = [t \in AllThreads |-> IF t \in {Main, KInit} THEN KProc ELSE None]
      /\ threads = [p \in Procs |-> IF p = KProc THEN <<KInit, Main>> ELSE <<>>]
      /\ pc = [t \in Threads |-> "user"]
  BY DEF Init, MultitaskInit, ProcessInit
<1>2. /\ run_state[Main] = "RUNNING" /\ run_state[KInit] = "READY"
      /\ Threads \subseteq AllThreads
  BY MultitaskAssumption DEF Init, MultitaskInit, AllThreads
<1>3. KInit # Main /\ KInit \in AllThreads /\ Main \in AllThreads /\ KProc \in Procs
      /\ None \notin Procs
  BY MultitaskAssumption DEF AllThreads
<1>4. threads[KProc] = <<KInit, Main>>
  BY <1>1, <1>3
<1>5. IsInjective(<<KInit, Main>>) /\ Range(<<KInit, Main>>) = {KInit, Main}
  <2>1. DOMAIN <<KInit, Main>> = {1, 2}
    BY SMT
  <2>2. IsInjective(<<KInit, Main>>)
    BY <1>3, <2>1, SMT DEF IsInjective
  <2>. QED
    BY <2>1, <2>2, SMT DEF Range
<1>6. ThreadListExact
  BY <1>1, <1>3, <1>4, <1>5 DEF ThreadListExact
<1>7. FreedInv
  BY <1>1, <1>2, <1>3 DEF FreedInv
<1>8. CallInv
  BY <1>1 DEF CallInv, InCall, JoinPoints, JoinHasTarget, WaitPoints
<1>. QED
  BY <1>6, <1>7, <1>8 DEF ListInv

\* and every step keeps it.
LEMMA NextList ==
  ASSUME LeastNumber, LifeSpace, ListInv, SoleManager, [Next]_vars
  PROVE  ListInv'
BY ListKinds, StaysKeeps, ThreadEndsKeeps, ProcessEndsKeeps,
   ReapsKeeps, UnlinksKeeps, LinksKeeps

-----------------------------------------------------------------------------
(***************************************************************************)
(* The hand-over of mutexes.                                               *)
(***************************************************************************)
LockPoints == {"lock_sleep", "lock_woken"}

\* The mutex that each thread is inside syscall_mutex_lock for.
Lock == [t \in Threads |-> IF pc[t] \in LockPoints THEN arg[t] ELSE None]

\* What a thread inside syscall_mutex_lock relies on.
LockHanded(t) ==
  Alive(t) /\ Lock[t] \in Mutexes =>
    /\ Found(t, Lock[t])
    /\ run_state[t] = "BLOCKED" => owner_thread[Lock[t]] \notin {None, t}
    /\ run_state[t] # "BLOCKED" => owner_thread[Lock[t]] = t

LockInv == SleepersFit(core, Lock) /\ \A t \in Threads : LockHanded(t)

\* The type of run_state after a step.
LEMMA TypedNext ==
  ASSUME IInv'
  PROVE  run_state' \in [AllThreads -> RunStates]
BY CoreFields DEF IInv, SchedInv, CoreInv, CoreTyped

\* Threads that wait for no mutex.
LEMMA LockIs ==
  ASSUME IInv, NEW t \in Threads
  PROVE  /\ pc[t] \in LockPoints => Lock[t] = arg[t] /\ Lock[t] \in Mutexes
         /\ pc[t] \notin LockPoints => Lock[t] = None /\ Lock[t] \notin Mutexes
BY MultitaskAssumption DEF IInv, DataInv, ArgFits, Lock, LockPoints

\* A step on which nobody enters or leaves syscall_mutex_lock.
LEMMA SameLock ==
  ASSUME UNCHANGED arg,
         \A u \in Threads : pc'[u] \in LockPoints <=> pc[u] \in LockPoints
  PROVE  Lock' = Lock
BY DEF Lock

\* A step of a thread that is not in syscall_mutex_lock before or after it.
LEMMA MovesLock ==
  ASSUME NEW t \in Threads, Moves(t), pc[t] \notin LockPoints,
         pc'[t] \notin LockPoints
  PROVE  Lock' = Lock
BY DEF Lock, Moves

(***************************************************************************)
(* A step that disturbs nobody who waits for a mutex keeps the invariant.  *)
(***************************************************************************)
LEMMA UndisturbedKeeps ==
  ASSUME IInv, IInv', LockInv, Lock' = Lock, Undisturbed(core, core', Lock),
         UNCHANGED <<owner_thread, owner_process>>,
         \A u \in Threads : Alive(u)' /\ Lock[u] \in Mutexes =>
           owner'[u] = owner[u] /\ (Found(u, Lock[u]) => Lock[u] \in mutex_list')
  PROVE  LockInv'
<1>1. SleepersFit(core', Lock)
  BY UndisturbedFits DEF LockInv
<1>2. ASSUME NEW u \in Threads, Alive(u)', Lock[u] \in Mutexes
      PROVE  /\ Alive(u)
             /\ run_state'[u] = "BLOCKED" <=> run_state[u] = "BLOCKED"
  <2>1. /\ run_state'[u] = "BLOCKED" => run_state[u] = "BLOCKED"
        /\ run_state'[u] \in {"READY", "RUNNING"} =>
             run_state[u] \in {"READY", "RUNNING"}
    BY <1>2, CoreFields DEF Undisturbed
  <2>2. run_state'[u] \in {"READY", "RUNNING", "BLOCKED"}
    BY <1>2, TypedNext DEF Alive, RunStates, AllThreads
  <2>. QED
    BY <2>1, <2>2 DEF Alive
<1>3. ASSUME NEW u \in Threads PROVE LockHanded(u)'
  <2>. SUFFICES ASSUME Alive(u)', Lock[u] \in Mutexes
                PROVE  /\ Found(u, Lock[u])'
                       /\ run_state'[u] = "BLOCKED" =>
                            owner_thread'[Lock[u]] \notin {None, u}
                       /\ run_state'[u] # "BLOCKED" => owner_thread'[Lock[u]] = u
    BY DEF LockHanded
  <2>1. /\ Alive(u) /\ LockHanded(u)
        /\ run_state'[u] = "BLOCKED" <=> run_state[u] = "BLOCKED"
    BY <1>2 DEF LockInv
  <2>. QED
    BY <2>1 DEF LockHanded, Found
<1>. QED
  BY <1>1, <1>3 DEF LockInv

\* One that leaves the scheduling state alone does.
LEMMA CalmKeepsLocks ==
  ASSUME IInv, IInv', LockInv, NEW t \in Threads, Moves(t),
         pc[t] \notin LockPoints, pc'[t] \notin LockPoints,
         UNCHANGED <<run_state, pool, queue, owner, mutex_list, owner_thread,
                     owner_process>>
  PROVE  LockInv'
<1>1. Lock' = Lock /\ core' = core
  BY MovesLock DEF core
<1>2. Undisturbed(core, core', Lock)
  BY <1>1 DEF Undisturbed
<1>. QED
  BY <1>1, <1>2, UndisturbedKeeps DEF Found

\* So does the caller of PROC_block_on on another queue than a mutex's.
LEMMA BlockKeepsLocks ==
  ASSUME IInv, IInv', LockInv, NEW t \in Threads, t = curr_proc,
         pc[t] \notin SleepPoints \cup LockPoints,
         NEW q, Elsewhere(q), NEW point, point \notin LockPoints,
         BlockAt(t, q, point), Moves(t),
         UNCHANGED <<owner, mutex_list, owner_thread, owner_process>>
  PROVE  LockInv'
<1>1. core' = BlockedOn(core, t, q) /\ q \in Queues
  BY DEF core, BlockAt, SetCore, BlockedOn, Elsewhere
<1>2. core.run_state[t] \in {"READY", "RUNNING"}
  BY CallerIsRunning DEF IInv
<1>3. /\ core'.run_state[t] = "BLOCKED"
      /\ \A r \in Queues : InQueue(core', t, r) <=> r = q
      /\ \A u \in Threads : u # t =>
           /\ core'.run_state[u] = core.run_state[u]
           /\ \A r \in Queues : InQueue(core', u, r) <=> InQueue(core, u, r)
  BY <1>1, <1>2, BlockedOnIs, SMT DEF IInv, SchedInv
<1>4. Lock' = Lock /\ Lock[t] \notin Mutexes
  <2>1. pc'[t] = point
    BY Types DEF BlockAt, Goto
  <2>. QED
    BY <2>1, MovesLock, LockIs
<1>5. \A x \in Mutexes : Waiters(x) \in Queues /\ Waiters(x) # q
  BY DEF Elsewhere, Waiters, Queues
<1>6. SleepersFit(core', Lock)
  <2>. SUFFICES ASSUME NEW u \in Threads, NEW x \in Mutexes,
                       core'.run_state[u] = "BLOCKED"
                PROVE  Lock[u] = x <=> InQueue(core', u, Waiters(x))
    BY DEF SleepersFit
  <2>1. CASE u = t
    BY <1>3, <1>4, <1>5, <2>1
  <2>2. CASE u # t
    BY <1>3, <1>5, <2>2 DEF LockInv, SleepersFit
  <2>. QED
    BY <2>1, <2>2
<1>7. \A u \in Threads : LockHanded(u)'
  BY <1>3, <1>4, CoreFields DEF LockHanded, LockInv, Alive, Found
<1>. QED
  BY <1>4, <1>6, <1>7 DEF LockInv

-----------------------------------------------------------------------------
(***************************************************************************)
(* No thread of an exited process sleeps.                                  *)
(***************************************************************************)
LEMMA NobodyGone ==
  ASSUME IInv, FreedInv
  PROVE  NoneGone(core, zombie)
BY CoreFields, Types DEF NoneGone, FreedInv

\* The timer, the keyboard and the yields.
LEMMA InterruptKeepsLocks ==
  ASSUME LeastNumber, IInv, IInv', FreedInv, LockInv,
         Preemption \/ KeyPress \/ UNCHANGED vars
  PROVE  LockInv'
<1>1. UNCHANGED <<owner, pc, arg, mutex_list, owner_thread, owner_process>>
  BY DEF Preemption, Tick, IdleYield, KeyPress, vars, tvars, mvars
<1>2. Lock' = Lock
  BY <1>1, SameLock
<1>3. Undisturbed(core, core', Lock)
  <2>1. CASE Preemption
    BY <2>1, RescheduleUndisturbed
    DEF Preemption, Tick, IdleYield, IInv, SchedInv
  <2>2. CASE KeyPress
    <3>1. core' = UnblockOne(core, KbdWaitQueue, zombie)
      BY <2>2 DEF KeyPress, core, SetCore, UnblockOne
    <3>2. Elsewhere(KbdWaitQueue)
      BY DEF Elsewhere, Queues, KbdWaitQueue, Waiters
    <3>. QED
      BY <3>1, <3>2, NobodyGone, UnblockOneUndisturbed
      DEF IInv, SchedInv, LockInv
  <2>3. CASE UNCHANGED vars
    BY <2>3 DEF vars, tvars, core, Undisturbed
  <2>. QED
    BY <2>1, <2>2, <2>3
<1>. QED
  BY <1>1, <1>2, <1>3, UndisturbedKeeps DEF Found

\* A yield wakes nobody and puts nobody to sleep,
LEMMA YieldKeepsLocks ==
  ASSUME IInv, IInv', LockInv, NEW t \in Threads, Scheduling(t)
  PROVE  LockInv'
<1>1. UNCHANGED <<owner, arg, mutex_list, owner_thread, owner_process>>
      /\ Reschedule(core, t)
  BY DEF Scheduling, Yield, SleepYield, mvars
<1>2. \A u \in Threads : pc'[u] \in LockPoints <=> pc[u] \in LockPoints
  <2>1. CASE UNCHANGED pc
    BY <2>1
  <2>2. CASE SleepYield(t)
    BY <2>2, Types, SMT DEF SleepYield, Goto, SleepPoints, AfterYield,
       LockPoints
  <2>. QED
    BY <2>1, <2>2 DEF Scheduling, Yield
<1>3. Lock' = Lock
  BY <1>1, <1>2, SameLock
<1>4. Undisturbed(core, core', Lock)
  BY <1>1, RescheduleUndisturbed DEF IInv, SchedInv
<1>. QED
  BY <1>1, <1>3, <1>4, UndisturbedKeeps DEF Found

\* keyboard_getchar.
LEMMA GetCharKeepsLocks ==
  ASSUME IInv, IInv', LockInv, NEW t \in Threads, Getc(t) \/ GetcWoken(t)
  PROVE  LockInv'
<1>1. /\ t = curr_proc /\ pc[t] \notin SleepPoints \cup LockPoints
      /\ UNCHANGED <<owner, arg, prev, mutex_list, owner_thread, owner_process>>
  BY DEF Getc, GetcWoken, GetChar, CallsInto, At, SleepPoints, LockPoints,
     pvars, mvars
<1>2. CASE Goto(t, "user") /\ UNCHANGED <<run_state, pool, queue>>
  <2>1. Moves(t) /\ pc'[t] = "user"
    BY <1>1, <1>2, GotoMoves
  <2>. QED
    BY <1>1, <1>2, <2>1, CalmKeepsLocks DEF LockPoints
<1>3. CASE BlockAt(t, KbdWaitQueue, "getc_sleep")
  <2>1. Moves(t)
    BY <1>1, <1>3, GotoMoves DEF BlockAt
  <2>2. Elsewhere(KbdWaitQueue) /\ "getc_sleep" \notin LockPoints
    BY DEF Elsewhere, Queues, KbdWaitQueue, Waiters, LockPoints
  <2>. QED
    BY <1>1, <1>3, <2>1, <2>2, BlockKeepsLocks
<1>. QED
  BY <1>2, <1>3 DEF Getc, GetcWoken, GetChar

-----------------------------------------------------------------------------
(***************************************************************************)
(* The mutex calls.                                                        *)
(***************************************************************************)

\* Nobody is inside syscall_mutex_lock for a mutex that has no owner.
LEMMA FreeHasNoWaiter ==
  ASSUME IInv, LockInv, NEW m \in Mutexes, owner_thread[m] = None,
         NEW u \in Threads, Alive(u)
  PROVE  Lock[u] # m
<1>1. u # None
  BY MultitaskAssumption
<1>. QED
  BY <1>1 DEF LockInv, LockHanded

\* A step that leaves who sleeps where alone keeps who fits.
LEMMA SameSleepers ==
  ASSUME LockInv, core' = core,
         \A u \in Threads : run_state[u] = "BLOCKED" => Lock'[u] = Lock[u]
  PROVE  SleepersFit(core', Lock')
BY CoreFields DEF LockInv, SleepersFit

\* A new mutex has no waiter,
LEMMA MutexCreateKeepsLocks ==
  ASSUME IInv, IInv', LockInv, NEW t \in Threads, MutexCreate(t)
  PROVE  LockInv'
<1>1. PICK m \in Mutexes :
        /\ owner_process[m] = None
        /\ mutex_list' = mutex_list \cup {m}
        /\ owner_process' = [owner_process EXCEPT ![m] = owner[t]]
  BY DEF MutexCreate
<1>2. UNCHANGED <<run_state, owner, owner_thread>> /\ Lock' = Lock /\ core' = core
  BY DEF MutexCreate, tvars, Lock, core
<1>3. /\ \A u \in Threads : Alive(u) => owner[u] # None
      /\ owner_process \in [Mutexes -> Procs \cup {None}]
  BY CoreFields, MultitaskAssumption, SMT DEF IInv, SchedInv, CoreInv,
     UsedIsOwned, Alive, AllThreads, DataInv, MutexTypeOK
<1>4. \A u \in Threads : LockHanded(u)'
  BY <1>1, <1>2, <1>3 DEF LockInv, LockHanded, Alive, Found
<1>. QED
  BY <1>2, <1>4, SameSleepers DEF LockInv

\* neither has one that may be destroyed: nobody owns it.
LEMMA MutexDestroyKeepsLocks ==
  ASSUME IInv, IInv', LockInv, NEW t \in Threads, MutexDestroy(t)
  PROVE  LockInv'
<1>1. PICK m \in Mutexes : /\ owner_thread[m] = None
                           /\ mutex_list' = mutex_list \ {m}
  BY DEF MutexDestroy
<1>2. /\ UNCHANGED <<run_state, owner, owner_thread, owner_process>>
      /\ Lock' = Lock /\ core' = core
  BY DEF MutexDestroy, tvars, Lock, core
<1>3. \A u \in Threads : Alive(u) => Lock[u] # m
  BY <1>1, FreeHasNoWaiter
<1>4. \A u \in Threads : LockHanded(u)'
  BY <1>1, <1>2, <1>3 DEF LockInv, LockHanded, Alive, Found
<1>. QED
  BY <1>2, <1>4, SameSleepers DEF LockInv

\* The three ways out of the loop of syscall_mutex_lock.
LEMMA MutexLockKeepsLocks ==
  ASSUME IInv, IInv', LockInv, NEW t \in Threads, MutexLock(t), UNCHANGED prev
  PROVE  LockInv'
<1>1. PICK m \in Mutexes : LockAttempt(t, m) /\ arg' = [arg EXCEPT ![t] = m]
  BY DEF MutexLock
<1>2. /\ t = curr_proc /\ pc[t] = "user"
      /\ UNCHANGED <<owner, mutex_list, owner_process>>
  BY DEF MutexLock, CallsInto, At
<1>3. /\ run_state[t] = "RUNNING" /\ core.run_state[t] = "RUNNING"
      /\ Lock[t] = None /\ Lock[t] \notin Mutexes
  BY <1>2, CallerIsRunning, LockIs DEF IInv, SleepPoints, LockPoints
<1>4. ASSUME NEW point, Goto(t, point)
      PROVE  Moves(t) /\ pc'[t] = point /\ arg'[t] = m
  BY <1>1, <1>4, Types DEF Goto, Moves, IInv, DataInv, ControlTyped
<1>5. CASE Goto(t, "user") /\ UNCHANGED <<run_state, pool, queue, owner_thread>>
  <2>1. Moves(t) /\ pc'[t] = "user"
    BY <1>4, <1>5
  <2>. QED
    BY <1>2, <1>5, <2>1, CalmKeepsLocks DEF LockPoints
<1>6. CASE /\ owner_thread[m] = None
           /\ owner_thread' = [owner_thread EXCEPT ![m] = t]
           /\ Goto(t, "user")
           /\ UNCHANGED <<run_state, pool, queue>>
  <2>1. Lock' = Lock /\ core' = core
    <3>1. Moves(t) /\ pc'[t] = "user"
      BY <1>4, <1>6
    <3>. QED
      BY <1>2, <1>6, <3>1, MovesLock DEF LockPoints, core
  <2>2. \A u \in Threads : Alive(u) => Lock[u] # m
    BY <1>6, FreeHasNoWaiter
  <2>3. \A x \in Mutexes : x # m => owner_thread'[x] = owner_thread[x]
    BY <1>6 DEF IInv, DataInv, MutexTypeOK
  <2>4. \A u \in Threads : LockHanded(u)'
    BY <1>2, <1>6, <2>1, <2>2, <2>3 DEF LockInv, LockHanded, Alive, Found
  <2>. QED
    BY <2>1, <2>4, SameSleepers DEF LockInv
<1>7. CASE /\ Found(t, m) /\ owner_thread[m] \notin {None, t}
           /\ BlockAt(t, Waiters(m), "lock_sleep")
           /\ UNCHANGED owner_thread
  <2>1. core' = BlockedOn(core, t, Waiters(m)) /\ Waiters(m) \in Queues
    BY <1>7 DEF core, BlockAt, SetCore, BlockedOn, Waiters, Queues
  <2>2. /\ core'.run_state[t] = "BLOCKED"
        /\ \A r \in Queues : InQueue(core', t, r) <=> r = Waiters(m)
        /\ \A u \in Threads : u # t =>
             /\ core'.run_state[u] = core.run_state[u]
             /\ \A r \in Queues : InQueue(core', u, r) <=> InQueue(core, u, r)
    BY <1>3, <2>1, BlockedOnIs, SMT DEF IInv, SchedInv
  <2>3. Lock'[t] = m /\ \A u \in Threads : u # t => Lock'[u] = Lock[u]
    <3>1. Moves(t) /\ pc'[t] = "lock_sleep" /\ arg'[t] = m
      BY <1>4, <1>7 DEF BlockAt
    <3>. QED
      BY <3>1 DEF Lock, LockPoints, Moves
  <2>4. \A x \in Mutexes : Waiters(x) \in Queues /\ (Waiters(x) = Waiters(m) <=> x = m)
    BY DEF Waiters, Queues
  <2>5. SleepersFit(core', Lock')
    <3>. SUFFICES ASSUME NEW u \in Threads, NEW x \in Mutexes,
                         core'.run_state[u] = "BLOCKED"
                  PROVE  Lock'[u] = x <=> InQueue(core', u, Waiters(x))
      BY DEF SleepersFit
    <3>1. CASE u = t
      BY <2>2, <2>3, <2>4, <3>1
    <3>2. CASE u # t
      BY <2>2, <2>3, <2>4, <3>2 DEF LockInv, SleepersFit
    <3>. QED
      BY <3>1, <3>2
  <2>6. LockHanded(t)'
    BY <1>2, <1>7, <2>2, <2>3, CoreFields DEF LockHanded, Found
  <2>7. \A u \in Threads : u # t => LockHanded(u)'
    BY <1>2, <1>7, <2>2, <2>3, CoreFields, SMT DEF LockInv, LockHanded, Alive,
       Found
  <2>. QED
    BY <2>5, <2>6, <2>7 DEF LockInv
<1>. QED
  BY <1>1, <1>5, <1>6, <1>7 DEF LockAttempt

\* The thread that is woken owns the mutex: the loop does not go round.
LEMMA LockWokenKeepsLocks ==
  ASSUME IInv, IInv', LockInv, NEW t \in Threads, MutexLockWoken(t)
  PROVE  LockInv'
<1>1. /\ t = curr_proc /\ pc[t] = "lock_woken"
      /\ UNCHANGED <<owner, arg, mutex_list, owner_process>>
  BY DEF MutexLockWoken, At
<1>2. run_state[t] = "RUNNING" /\ Lock[t] = arg[t] /\ Lock[t] \in Mutexes
  BY <1>1, CallerIsRunning, LockIs DEF IInv, SleepPoints, LockPoints
<1>3. owner_thread[arg[t]] = t
  BY <1>2 DEF LockInv, LockHanded, Alive
<1>4. Goto(t, "user") /\ UNCHANGED <<run_state, pool, queue, owner_thread>>
  BY <1>3 DEF MutexLockWoken
<1>5. Lock'[t] = None /\ \A u \in Threads : u # t => Lock'[u] = Lock[u]
  BY <1>1, <1>4, Types DEF Goto, Lock, LockPoints
<1>6. core' = core /\ None \notin Mutexes
  BY <1>4, MultitaskAssumption DEF core
<1>7. SleepersFit(core', Lock')
  BY <1>2, <1>5, <1>6, SameSleepers
<1>8. \A u \in Threads : LockHanded(u)'
  BY <1>1, <1>4, <1>5, <1>6 DEF LockInv, LockHanded, Alive, Found
<1>. QED
  BY <1>7, <1>8 DEF LockInv

\* syscall_mutex_unlock makes the thread it wakes the owner.
LEMMA MutexUnlockKeepsLocks ==
  ASSUME LeastNumber, IInv, IInv', FreedInv, LockInv, NEW t \in Threads, MutexUnlock(t)
  PROVE  LockInv'
<1>1. PICK m \in Mutexes :
        /\ owner_thread[m] = t
        /\ SetCore(UnblockOne(core, Waiters(m), zombie))
        /\ owner_thread' =
             [owner_thread EXCEPT ![m] = Unblocked(core, Waiters(m), zombie)]
  BY DEF MutexUnlock
<1>2. /\ pc[t] = "user"
      /\ UNCHANGED <<owner, pc, arg, mutex_list, owner_process>>
  BY DEF MutexUnlock, CallsInto, At
<1>. DEFINE q == Waiters(m)
            w == Unblocked(core, q, zombie)
<1>3. core' = UnblockOne(core, q, zombie) /\ q \in Queues
  BY <1>1 DEF core, SetCore, UnblockOne, Waiters, Queues
<1>4. /\ \A u \in Threads : u # w =>
           /\ core'.run_state[u] = core.run_state[u]
           /\ core.run_state[u] = "BLOCKED" =>
                \A r \in Queues : InQueue(core', u, r) <=> InQueue(core, u, r)
      /\ w # None => /\ w \in Threads /\ InQueue(core, w, q)
                     /\ core.run_state[w] = "BLOCKED"
                     /\ core'.run_state[w] = "READY"
      /\ w = None => \A u \in Threads : InQueue(core, u, q) =>
                         core.run_state[u] # "BLOCKED"
  BY <1>3, NobodyGone, UnblockOneIs, SMT DEF IInv, SchedInv
<1>5. /\ owner_thread'[m] = w
      /\ \A x \in Mutexes : x # m => owner_thread'[x] = owner_thread[x]
  BY <1>1 DEF IInv, DataInv, MutexTypeOK
<1>6. Lock' = Lock /\ Lock[t] \notin Mutexes
  BY <1>2, SameLock, LockIs DEF LockPoints
<1>7. /\ \A x \in Mutexes : Waiters(x) \in Queues
      /\ \A u \in Threads : u # None
  BY MultitaskAssumption DEF Waiters, Queues
<1>. HIDE DEF q, w
<1>8. SleepersFit(core', Lock)
  <2>. SUFFICES ASSUME NEW u \in Threads, NEW x \in Mutexes,
                       core'.run_state[u] = "BLOCKED"
                PROVE  Lock[u] = x <=> InQueue(core', u, Waiters(x))
    BY DEF SleepersFit
  <2>1. u # w
    BY <1>4, <1>7
  <2>. QED
    BY <1>4, <1>7, <2>1 DEF LockInv, SleepersFit
<1>9. ASSUME NEW u \in Threads
      PROVE  LockHanded(u)'
  <2>. SUFFICES ASSUME Alive(u)', Lock[u] \in Mutexes
                PROVE  /\ Found(u, Lock[u])
                       /\ run_state'[u] = "BLOCKED" =>
                            owner_thread'[Lock[u]] \notin {None, u}
                       /\ run_state'[u] # "BLOCKED" => owner_thread'[Lock[u]] = u
    BY <1>2, <1>6 DEF LockHanded, Found
  <2>1. CASE u = w
    <3>1. run_state[u] = "BLOCKED" /\ run_state'[u] = "READY" /\ Lock[u] = m
      BY <1>4, <1>7, <2>1, CoreFields DEF LockInv, SleepersFit, q
    <3>. QED
      BY <1>5, <2>1, <3>1 DEF LockInv, LockHanded, Alive
  <2>2. CASE u # w
    <3>1. run_state'[u] = run_state[u] /\ LockHanded(u) /\ Alive(u)
      BY <1>4, <2>2, CoreFields DEF LockInv, Alive
    <3>2. CASE Lock[u] # m
      BY <1>5, <3>1, <3>2 DEF LockHanded
    <3>3. CASE Lock[u] = m
      <4>1. run_state[u] = "BLOCKED"
        BY <1>1, <1>6, <3>1, <3>3 DEF LockHanded
      <4>2. w # None
        BY <1>4, <3>3, <4>1, CoreFields DEF LockInv, SleepersFit, q
      <4>. QED
        BY <1>5, <2>2, <3>1, <3>3, <4>1, <4>2 DEF LockHanded
    <3>. QED
      BY <3>2, <3>3
  <2>. QED
    BY <2>1, <2>2
<1>. QED
  BY <1>6, <1>8, <1>9 DEF LockInv

-----------------------------------------------------------------------------
(***************************************************************************)
(* The process calls.  A new thread is not inside syscall_mutex_lock.      *)
(***************************************************************************)
LEMMA CreateKeepsLocks ==
  ASSUME IInv, IInv', FreedInv, LockInv, NEW t \in Threads,
         \/ PROC_create_kthread(t) \/ PROC_create_uthread(t)
         \/ Fork(t) \/ CloneThread(t)
  PROVE  LockInv'
<1>1. PICK u \in Threads : \E p : LinkAndAdmit(u, p)
  BY DEF PROC_create_kthread, PROC_create_uthread, Fork, CloneThread
<1>2. UNCHANGED <<pc, arg, mutex_list, owner_process, owner_thread>>
  BY DEF PROC_create_kthread, PROC_create_uthread, Fork, CloneThread, mvars
<1>3. /\ run_state[u] = "UNUSED" /\ queue' = queue
      /\ run_state' = [run_state EXCEPT ![u] = "READY"]
      /\ \E p : owner' = [owner EXCEPT ![u] = p]
  BY <1>1 DEF LinkAndAdmit, UnusedThread, SetCore, Admitted, core
<1>4. Lock' = Lock /\ Lock[u] \notin Mutexes
  BY <1>2, <1>3, SameLock, LockIs DEF FreedInv, LockPoints
<1>5. \A v \in Threads : v # u => /\ run_state'[v] = run_state[v]
                                /\ owner'[v] = owner[v]
  BY <1>3, Types DEF AllThreads
<1>6. run_state'[u] = "READY"
  BY <1>3, Types DEF AllThreads
<1>7. Undisturbed(core, core', Lock)
  BY <1>3, <1>4, <1>5, <1>6, CoreFields, SMT DEF Undisturbed, InQueue
<1>. QED
  BY <1>2, <1>4, <1>5, <1>7, UndisturbedKeeps DEF Found

\* exec touches no queue,
LEMMA ExecKeepsLocks ==
  ASSUME IInv, IInv', LockInv, NEW t \in Threads,
         Exec(t) \/ ExecFail(t) \/ ExecSwitch(t)
  PROVE  LockInv'
<1>1. /\ pc[t] \notin LockPoints
      /\ Goto(t, "exec_load") \/ Goto(t, "user")
      /\ UNCHANGED <<run_state, pool, queue, owner, arg, prev, mutex_list,
                     owner_thread, owner_process>>
  BY DEF Exec, ExecFail, ExecSwitch, CallsInto, At, LockPoints, mvars
<1>2. Moves(t) /\ pc'[t] \in {"exec_load", "user"}
  BY <1>1, GotoMoves
<1>. QED
  BY <1>1, <1>2, CalmKeepsLocks DEF LockPoints

\* wait and thread_join sleep in queues of processes.
LEMMA WaitKeepsLocks ==
  ASSUME IInv, IInv', LockInv, NEW t \in Threads,
         Wait(t) \/ WaitTop(t) \/ WaitBlock(t) \/ WaitReap(t)
  PROVE  LockInv'
<1>1. /\ t = curr_proc /\ pc[t] \notin SleepPoints \cup LockPoints
      /\ UNCHANGED <<owner, prev, mutex_list, owner_thread, owner_process>>
  BY DEF Wait, WaitTop, WaitBlock, WaitReap, WaitUninterrupted, CallsInto, At,
         SleepPoints, LockPoints, rest_of_wait, mvars
<1>2. CASE BlockAt(t, WaitChildExit(owner[t]), "wait_sleep") /\ UNCHANGED arg
  <2>1. Elsewhere(WaitChildExit(owner[t])) /\ "wait_sleep" \notin LockPoints
    BY <1>1, OwnerIsProc
       DEF IInv, Elsewhere, Queues, WaitChildExit, Waiters, LockPoints
  <2>2. Moves(t)
    BY <1>1, <1>2, GotoMoves DEF BlockAt
  <2>. QED
    BY <1>1, <1>2, <2>1, <2>2, BlockKeepsLocks
<1>3. CASE UNCHANGED <<run_state, pool, queue>>
           /\ (UNCHANGED <<pc, arg>> \/ Wait(t) \/ WaitTop(t) \/ WaitReap(t))
  <2>1. Moves(t) /\ pc'[t] \notin LockPoints
    <3>1. CASE UNCHANGED <<pc, arg>>
      BY <1>1, <3>1 DEF Moves
    <3>2. ASSUME NEW point \in {"user", "wait_top", "wait_reap", "wait_block"},
                 Goto(t, point), UNCHANGED arg
          PROVE  Moves(t) /\ pc'[t] \notin LockPoints
      BY <1>1, <3>2, GotoMoves DEF LockPoints
    <3>3. ASSUME NEW c, Goto(t, "wait_reap"), arg' = [arg EXCEPT ![t] = c]
          PROVE  Moves(t) /\ pc'[t] \notin LockPoints
      BY <1>1, <3>3, Types DEF Goto, Moves, LockPoints, IInv, DataInv,
         ControlTyped
    <3>4. CASE Wait(t) /\ ~WaitUninterrupted(t)
      BY <3>2, <3>4 DEF Wait
    <3>5. CASE Wait(t) /\ WaitUninterrupted(t) /\ ~UNCHANGED pc
      <4>1. run_state[t] = "RUNNING" /\ run_state'[t] = "BLOCKED"
        BY <1>1, <3>5, Types, CallerIsRunning
           DEF IInv, WaitUninterrupted, BlockAt, SetCore, BlockedOn, core
      <4>. QED
        BY <1>3, <4>1
    <3>6. CASE Wait(t) /\ WaitUninterrupted(t) /\ UNCHANGED pc
      BY <3>1, <3>6 DEF WaitUninterrupted
    <3>7. CASE WaitTop(t)
      BY <3>2, <3>3, <3>7 DEF WaitTop
    <3>8. CASE WaitReap(t)
      BY <3>2, <3>8 DEF WaitReap
    <3>. QED
      BY <1>3, <3>1, <3>4, <3>5, <3>6, <3>7, <3>8
  <2>. QED
    BY <1>1, <1>3, <2>1, CalmKeepsLocks
<1>. QED
  BY <1>2, <1>3 DEF Wait, WaitTop, WaitBlock, WaitReap, WaitUninterrupted

\* as does thread_join in that of its process.
LEMMA JoinKeepsLocks ==
  ASSUME IInv, IInv', LockInv, NEW t \in Threads,
         \/ Join(t) \/ JoinWoken(t) \/ JoinTest(t) \/ JoinBlock(t)
         \/ JoinReap(t) \/ JoinUnlink(t)
  PROVE  LockInv'
<1>1. /\ t = curr_proc /\ pc[t] \notin SleepPoints \cup LockPoints
      /\ UNCHANGED <<owner, mutex_list, owner_thread, owner_process>>
  BY DEF Join, JoinWoken, JoinTest, JoinBlock, JoinReap, JoinUnlink, CallsInto,
         At, SleepPoints, LockPoints, rest_of_join, mvars
<1>2. /\ \A u \in Threads : u # t => arg'[u] = arg[u] /\ prev'[u] = prev[u]
      /\ UNCHANGED pc \/ \E point \in ControlPoints \ LockPoints : Goto(t, point)
  <2>1. \A u \in Threads : u # t => arg'[u] = arg[u]
    BY DEF Join, JoinWoken, JoinTest, JoinBlock, JoinReap, JoinUnlink, IInv,
           DataInv, ControlTyped
  <2>2. \A u \in Threads : u # t => prev'[u] = prev[u]
    BY DEF Join, JoinWoken, JoinTest, JoinBlock, JoinReap, JoinUnlink, IInv,
           DataInv, ProcessTypeOK
  <2>3. UNCHANGED pc \/ \E point \in ControlPoints \ LockPoints : Goto(t, point)
    BY DEF Join, JoinWoken, JoinTest, JoinBlock, JoinReap, JoinUnlink, BlockAt,
           ControlPoints, SleepPoints, LockPoints
  <2>. QED
    BY <2>1, <2>2, <2>3
<1>3. Moves(t) /\ pc'[t] \notin LockPoints
  BY <1>1, <1>2, Types DEF Moves, Goto
<1>4. CASE BlockAt(t, WaitThreadExit(owner[t]), "join_sleep")
  <2>1. Elsewhere(WaitThreadExit(owner[t])) /\ "join_sleep" \notin LockPoints
    BY <1>1, OwnerIsProc
       DEF IInv, Elsewhere, Queues, WaitThreadExit, Waiters, LockPoints
  <2>. QED
    BY <1>1, <1>3, <1>4, <2>1, BlockKeepsLocks
<1>5. CASE UNCHANGED <<run_state, pool, queue>>
  BY <1>1, <1>3, <1>5, CalmKeepsLocks
<1>. QED
  BY <1>4, <1>5 DEF Join, JoinWoken, JoinTest, JoinBlock, JoinReap, JoinUnlink

-----------------------------------------------------------------------------
(***************************************************************************)
(* The end of a thread and of a process.  Nobody who lives on waits for a  *)
(* mutex of the process that ends.                                         *)
(***************************************************************************)
LEMMA LeftWithMutex ==
  ASSUME IInv', FreedInv', NEW p, p \in zombie', owner' = owner,
         mutex_list' = mutex_list \/ mutex_list' = mutex_list \ MutexesOf(p),
         NEW u \in Threads, Alive(u)', NEW m, Found(u, m)
  PROVE  m \in mutex_list'
<1>1. owner[u] # p
  BY DEF FreedInv, Alive, AllThreads
<1>. QED
  BY <1>1 DEF Found, MutexesOf

\* The wait queues of a process are not a mutex's.
LEMMA ExitQueueElsewhere ==
  ASSUME NEW p \in Procs
  PROVE  Elsewhere(WaitThreadExit(p))
BY DEF Elsewhere, Queues, WaitThreadExit, Waiters

\* Who sleeps in syscall_mutex_lock sleeps for a mutex of its own process.
LEMMA WaiterOfOwnProcess ==
  ASSUME LockInv, NEW c, Undisturbed(core, c, Lock)
  PROVE  \A u \in Threads, x \in Mutexes :
           c.run_state[u] = "BLOCKED" /\ Lock[u] = x => owner_process[x] = owner[u]
<1>. SUFFICES ASSUME NEW u \in Threads, NEW x \in Mutexes,
                     c.run_state[u] = "BLOCKED", Lock[u] = x
              PROVE  owner_process[x] = owner[u]
  OBVIOUS
<1>1. run_state[u] = "BLOCKED"
  BY CoreFields DEF Undisturbed
<1>. QED
  BY <1>1 DEF LockInv, LockHanded, Alive, Found

\* exit releases the waiters of the mutexes of its process, and they are dead,
LEMMA ExitProcessKeepsLocks ==
  ASSUME IInv, IInv', FreedInv', LockInv, NEW t \in Threads, ExitProcess(t)
  PROVE  LockInv'
<1>. DEFINE p == owner[t]
            S == Range(threads[p])
            gone == zombie \cup {p}
            c1 == Killed(core, S)
            c2 == TornDown(c1, p)
            c3 == UnblockAll(c2, WaitThreadExit(p), gone)
<1>1. p \in Procs
  BY OwnerIsProc DEF ExitProcess, CallsInto, At, IInv, SleepPoints
<1>2. S \in SUBSET AllThreads /\ \A u \in S : owner[u] \in Procs
  <2>1. S \in SUBSET AllThreads
    BY <1>1, Types, ListedAreThreads
  <2>. QED
    BY <1>1, <2>1 DEF IInv, DataInv, ListedIsOwned
<1>3. CoreInv(c1, owner, zombie)
  BY <1>2, KilledKeeps DEF IInv, SchedInv
<1>4. mutex_list \in SUBSET Mutexes /\ parent \in [Procs -> Procs \cup {None}]
  BY DEF IInv, DataInv, MutexTypeOK, ProcessTypeOK
<1>5. CoreInv(c2, owner, gone) /\ OnlyWoken(c1, c2)
  BY <1>1, <1>3, <1>4, TornDownKeeps
<1>6. WaitThreadExit(p) \in Queues /\ Elsewhere(WaitThreadExit(p))
  BY <1>1, ExitQueueElsewhere DEF Elsewhere
<1>7. CoreInv(c3, owner, gone) /\ OnlyWoken(c2, c3)
  BY <1>5, <1>6, UnblockAllKeeps
<1>8. /\ Reschedule(c3, None) /\ zombie' = gone
      /\ mutex_list' = mutex_list \/ mutex_list' = mutex_list \ MutexesOf(p)
      /\ UNCHANGED <<owner, pc, arg, owner_process, owner_thread>>
  BY DEF ExitProcess, Teardown
<1>9. SameLife(c1, c2) /\ SameLife(c2, c3) /\ SameLife(c3, core')
  BY <1>5, <1>7, <1>8, WokenLives, RescheduleLives
<1>10. Undisturbed(core, c1, Lock)
  BY DeathUndisturbed, CoreFields DEF Killed, AllThreads
<1>. HIDE DEF c1, c2, c3, S
<1>11. NoneGone(c1, gone) /\ NoneGone(c2, gone)
  BY <1>8, <1>9, CoreFields DEF NoneGone, FreedInv, SameLife, AllThreads
<1>12. SleepersFit(c1, Lock)
  BY <1>10, UndisturbedFits DEF LockInv
<1>13. Undisturbed(c1, c2, Lock)
  BY <1>1, <1>3, <1>4, <1>10, <1>11, <1>12, WaiterOfOwnProcess,
     TornDownUndisturbed DEF c2
<1>14. Undisturbed(c2, c3, Lock)
  <2>1. SleepersFit(c2, Lock)
    BY <1>12, <1>13, UndisturbedFits
  <2>. QED
    BY <1>5, <1>6, <1>11, <2>1, UnblockAllUndisturbed DEF c3
<1>15. Undisturbed(c3, core', Lock)
  BY <1>7, <1>8, RescheduleUndisturbed
<1>16. Undisturbed(core, core', Lock)
  BY <1>10, <1>13, <1>14, <1>15, UndisturbedTwice
<1>17. Lock' = Lock
  BY <1>8, SameLock
<1>18. \A u \in Threads : Alive(u)' /\ Found(u, Lock[u]) => Lock[u] \in mutex_list'
  BY <1>8, LeftWithMutex
<1>. QED
  BY <1>8, <1>16, <1>17, <1>18, UndisturbedKeeps

\* and so does the last thread_exit.
LEMMA ExitThreadKeepsLocks ==
  ASSUME IInv, IInv', FreedInv', LockInv, NEW t \in Threads, ExitThread(t)
  PROVE  LockInv'
<1>. DEFINE p == owner[t]
            n == OneThreadLess(p)
            gone == zombie \cup {p}
            c1 == Dead(core, t)
            c2 == UnblockAll(c1, WaitThreadExit(p), zombie)
            c3 == TornDown(c2, p)
<1>1. t = curr_proc /\ pc[t] \notin SleepPoints
  BY DEF ExitThread, CallsInto, At, SleepPoints
<1>2. p \in Procs /\ core.run_state[t] = "RUNNING"
  BY <1>1, OwnerIsProc, CallerIsRunning DEF IInv
<1>3. CoreInv(c1, owner, zombie)
  BY <1>2, DeadKeeps DEF IInv, SchedInv
<1>4. WaitThreadExit(p) \in Queues /\ Elsewhere(WaitThreadExit(p))
  BY <1>2, ExitQueueElsewhere DEF Elsewhere
<1>5. CoreInv(c2, owner, zombie) /\ OnlyWoken(c1, c2)
  BY <1>3, <1>4, UnblockAllKeeps
<1>6. mutex_list \in SUBSET Mutexes /\ parent \in [Procs -> Procs \cup {None}]
  BY DEF IInv, DataInv, MutexTypeOK, ProcessTypeOK
<1>7. CoreInv(c3, owner, gone) /\ OnlyWoken(c2, c3)
  BY <1>2, <1>5, <1>6, TornDownKeeps
<1>8. /\ zombie \subseteq zombie'
      /\ UNCHANGED <<owner, pc, arg, owner_process, owner_thread>>
      /\ n # 0 => Reschedule(c2, None) /\ mutex_list' = mutex_list
      /\ n = 0 => /\ Reschedule(c3, None) /\ zombie' = gone
                  /\ \/ mutex_list' = mutex_list
                     \/ mutex_list' = mutex_list \ MutexesOf(p)
  BY DEF ExitThread, Teardown
<1>9. /\ SameLife(c1, c2) /\ SameLife(c2, c3)
      /\ n # 0 => SameLife(c2, core')
      /\ n = 0 => SameLife(c3, core')
  BY <1>5, <1>7, <1>8, WokenLives, RescheduleLives
<1>10. Undisturbed(core, c1, Lock)
  BY DeathUndisturbed, CoreFields, Types DEF Dead, AllThreads
<1>. HIDE DEF c1, c2, c3, n
<1>11. NoneGone(c1, zombie) /\ (n = 0 => NoneGone(c2, gone))
  BY <1>8, <1>9, CoreFields DEF NoneGone, FreedInv, SameLife, AllThreads
<1>12. Undisturbed(c1, c2, Lock)
  <2>1. SleepersFit(c1, Lock)
    BY <1>10, UndisturbedFits DEF LockInv
  <2>. QED
    BY <1>3, <1>4, <1>11, <2>1, UnblockAllUndisturbed DEF c2
<1>13. Undisturbed(core, c2, Lock)
  BY <1>10, <1>12, UndisturbedTwice
<1>14. Undisturbed(core, core', Lock)
  <2>1. CASE n # 0
    <3>1. Undisturbed(c2, core', Lock)
      BY <1>5, <1>8, <2>1, RescheduleUndisturbed
    <3>. QED
      BY <1>13, <3>1, UndisturbedTwice
  <2>2. CASE n = 0
    <3>1. SleepersFit(c2, Lock)
      BY <1>13, UndisturbedFits DEF LockInv
    <3>2. Undisturbed(c2, c3, Lock)
      BY <1>2, <1>5, <1>6, <1>11, <1>13, <2>2, <3>1, WaiterOfOwnProcess,
         TornDownUndisturbed DEF c3
    <3>3. Undisturbed(c3, core', Lock)
      BY <1>7, <1>8, <2>2, RescheduleUndisturbed
    <3>. QED
      BY <1>13, <3>2, <3>3, UndisturbedTwice
  <2>. QED
    BY <2>1, <2>2
<1>15. Lock' = Lock
  BY <1>8, SameLock
<1>16. \A u \in Threads : Alive(u)' /\ Found(u, Lock[u]) => Lock[u] \in mutex_list'
  <2>1. CASE n # 0
    BY <1>8, <2>1 DEF Found
  <2>2. CASE n = 0
    BY <1>8, <2>2, LeftWithMutex
  <2>. QED
    BY <2>1, <2>2
<1>. QED
  BY <1>8, <1>14, <1>15, <1>16, UndisturbedKeeps

(***************************************************************************)
(* Every step keeps the invariant.                                         *)
(***************************************************************************)
LEMMA NextLock ==
  ASSUME LeastNumber, IInv, IInv', FreedInv, FreedInv', LockInv, [Next]_vars
  PROVE  LockInv'
<1>1. CASE Preemption \/ KeyPress \/ UNCHANGED vars
  BY <1>1, InterruptKeepsLocks
<1>2. ASSUME NEW t \in Threads, Scheduling(t) \/ Getc(t) \/ GetcWoken(t)
      PROVE  LockInv'
  BY <1>2, YieldKeepsLocks, GetCharKeepsLocks
<1>3. ASSUME NEW t \in Threads, MutexNext(t), UNCHANGED pvars
      PROVE  LockInv'
  BY <1>3, MutexCreateKeepsLocks, MutexLockKeepsLocks, LockWokenKeepsLocks,
     MutexUnlockKeepsLocks, MutexDestroyKeepsLocks DEF MutexNext, pvars
<1>4. ASSUME NEW t \in Threads, ProcessNext(t)
      PROVE  LockInv'
  BY <1>4, CreateKeepsLocks, ExecKeepsLocks, ExitProcessKeepsLocks,
     ExitThreadKeepsLocks, WaitKeepsLocks, JoinKeepsLocks DEF ProcessNext
<1>. QED
  BY <1>1, <1>2, <1>3, <1>4 DEF Next, ThreadStep

-----------------------------------------------------------------------------
(***************************************************************************)
(* Who is in which queue.                                                  *)
(***************************************************************************)
GetcPoints == {"getc_sleep", "getc_woken"}

\* A thread is in keyboard_getchar or in wait because its code calls them.
CallsMade ==
  \A t \in Threads : /\ pc[t] \in GetcPoints => "getc" \in Program[t]
                     /\ pc[t] \in WaitPoints => "wait" \in Program[t]

QueuedRight(u, q) ==
  /\ q = KbdWaitQueue => pc[u] \in GetcPoints
  /\ \A p \in Procs : q = WaitChildExit(p) => "wait" \in Program[u]
  /\ \A p \in Procs : q = WaitThreadExit(p) => owner[u] = p

QueueInv ==
  /\ CallsMade
  /\ \A u \in Threads, q \in Queues : InQueue(core, u, q) => QueuedRight(u, q)

\* The other threads stay where they are: none is put into a queue, none that
\* can run is stopped.
OthersKept(t) ==
  \A u \in Threads \ {t} :
    /\ pc'[u] = pc[u]
    /\ run_state[u] # "UNUSED" => owner'[u] = owner[u]
    /\ Runs(core, u) => Runs(core', u)
    /\ \A q \in Queues : InQueue(core', u, q) => InQueue(core, u, q)

\* t makes a step outside keyboard_getchar.
StepsAside(t) ==
  /\ OthersKept(t)
  /\ owner'[t] = owner[t]
  /\ pc[t] \notin GetcPoints /\ pc'[t] \notin GetcPoints
  /\ pc'[t] \in WaitPoints => "wait" \in Program[t]
  /\ \A q \in Queues : InQueue(core', t, q) =>
       q # KbdWaitQueue /\ (InQueue(core, t, q) \/ QueuedRight(t, q)')

\* Who is in a queue has been created, and does not run.
LEMMA QueuedFacts ==
  ASSUME IInv, NEW u \in Threads, NEW q \in Queues, InQueue(core, u, q)
  PROVE  run_state[u] \in {"BLOCKED", "ZOMBIE"} /\ ~Runs(core, u)
BY CoreFields DEF InQueue, IInv, SchedInv, CoreInv, QueuedIsAsleep, Runs

\* A thread that runs is in no queue.
LEMMA CallerNotQueued ==
  ASSUME IInv, NEW t \in Threads, t = curr_proc, pc[t] \notin SleepPoints
  PROVE  Runs(core, t) /\ \A q \in Queues : ~InQueue(core, t, q)
<1>1. Runs(core, t)
  BY CallerIsRunning DEF IInv, Runs
<1>. QED
  BY <1>1, QueuedFacts

\* Such steps keep who is in which queue.
LEMMA AsideKeepsQueues ==
  ASSUME IInv, QueueInv, NEW t \in Threads, StepsAside(t)
  PROVE  QueueInv'
<1>1. CallsMade'
  BY DEF CallsMade, QueueInv, StepsAside, OthersKept
<1>2. ASSUME NEW u \in Threads, NEW q \in Queues, InQueue(core', u, q), u # t
      PROVE  QueuedRight(u, q)'
  <2>1. InQueue(core, u, q) /\ pc'[u] = pc[u] /\ owner'[u] = owner[u]
    BY <1>2, QueuedFacts DEF StepsAside, OthersKept
  <2>. QED
    BY <2>1 DEF QueueInv, QueuedRight
<1>3. ASSUME NEW q \in Queues, InQueue(core', t, q)
      PROVE  QueuedRight(t, q)'
  <2>1. CASE InQueue(core, t, q)
    BY <1>3, <2>1 DEF QueueInv, QueuedRight, StepsAside
  <2>. QED
    BY <1>3, <2>1 DEF StepsAside
<1>. QED
  BY <1>1, <1>2, <1>3 DEF QueueInv

\* So do those where nobody moves and nobody is put into a queue.
LEMMA StillKeepsQueues ==
  ASSUME IInv, QueueInv, UNCHANGED <<pc, owner>>,
         \A u \in Threads, q \in Queues : InQueue(core', u, q) => InQueue(core, u, q)
  PROVE  QueueInv'
BY DEF QueueInv, CallsMade, QueuedRight

-----------------------------------------------------------------------------
(***************************************************************************)
(* Which steps are such.                                                   *)
(***************************************************************************)
\* The thread that runs only goes on, and maybe wakes others,
LEMMA WakerStepsAside ==
  ASSUME IInv, NEW t \in Threads, t = curr_proc, pc[t] \notin SleepPoints,
         Awakens(core, core'), UNCHANGED owner, pc[t] \notin GetcPoints,
         \A u \in Threads \ {t} : pc'[u] = pc[u],
         pc'[t] \notin GetcPoints, pc'[t] \in WaitPoints => "wait" \in Program[t]
  PROVE  StepsAside(t)
<1>1. OthersKept(t)
  BY DEF OthersKept, Awakens
<1>2. \A q \in Queues : ~InQueue(core', t, q)
  BY CallerNotQueued DEF Awakens
<1>. QED
  BY <1>1, <1>2 DEF StepsAside

\* or wakes nobody,
LEMMA GoerStepsAside ==
  ASSUME IInv, NEW t \in Threads, t = curr_proc, pc[t] \notin SleepPoints,
         UNCHANGED <<run_state, pool, queue, owner>>, pc[t] \notin GetcPoints,
         \A u \in Threads \ {t} : pc'[u] = pc[u],
         pc'[t] \notin GetcPoints, pc'[t] \in WaitPoints => "wait" \in Program[t]
  PROVE  StepsAside(t)
<1>1. Awakens(core, core')
  BY DEF core, Awakens
<1>. QED
  BY <1>1, WakerStepsAside

\* or sleeps in a queue that is right for it.
LEMMA SleeperStepsAside ==
  ASSUME IInv, NEW t \in Threads, t = curr_proc, pc[t] \notin SleepPoints,
         pc[t] \notin GetcPoints, NEW q \in Queues, q # KbdWaitQueue,
         NEW point, BlockAt(t, q, point), UNCHANGED owner, point \notin GetcPoints,
         point \in WaitPoints => "wait" \in Program[t],
         \A p \in Procs : q = WaitChildExit(p) => "wait" \in Program[t],
         \A p \in Procs : q = WaitThreadExit(p) => owner[t] = p
  PROVE  StepsAside(t)
<1>1. core' = BlockedOn(core, t, q)
  BY DEF core, BlockAt, SetCore, BlockedOn
<1>2. core.run_state[t] \in {"READY", "RUNNING"}
  BY CallerIsRunning DEF IInv
<1>3. /\ \A r \in Queues : InQueue(core', t, r) <=> r = q
      /\ \A u \in Threads : u # t =>
           /\ core'.run_state[u] = core.run_state[u]
           /\ \A r \in Queues : InQueue(core', u, r) <=> InQueue(core, u, r)
  BY <1>1, <1>2, BlockedOnIs, SMT DEF IInv, SchedInv
<1>4. pc'[t] = point /\ \A u \in Threads \ {t} : pc'[u] = pc[u]
  BY Types DEF BlockAt, Goto
<1>5. OthersKept(t)
  BY <1>3, <1>4 DEF OthersKept, Runs
<1>6. QueuedRight(t, q)'
  BY DEF QueuedRight
<1>. QED
  BY <1>3, <1>4, <1>5, <1>6 DEF StepsAside

\* The mutex calls,
LEMMA MutexAside ==
  ASSUME LeastNumber, IInv, NEW t \in Threads, MutexNext(t)
  PROVE  StepsAside(t)
<1>1. /\ t = curr_proc /\ pc[t] \notin SleepPoints /\ pc[t] \notin GetcPoints
      /\ UNCHANGED owner
  BY DEF MutexNext, MutexCreate, MutexLock, MutexLockWoken, MutexUnlock,
         MutexDestroy, CallsInto, At, SleepPoints, GetcPoints, tvars
<1>2. CASE UNCHANGED <<run_state, pool, queue>> /\ (UNCHANGED pc \/ Goto(t, "user"))
  <2>1. (\A u \in Threads \ {t} : pc'[u] = pc[u]) /\ pc'[t] \in {pc[t], "user"}
    BY <1>2, Types DEF Goto
  <2>2. pc[t] \in {"user", "lock_woken"}
    BY DEF MutexNext, MutexCreate, MutexLock, MutexLockWoken, MutexUnlock,
           MutexDestroy, CallsInto, At
  <2>. QED
    BY <1>1, <1>2, <2>1, <2>2, GoerStepsAside DEF GetcPoints, WaitPoints
<1>3. ASSUME NEW m \in Mutexes, BlockAt(t, Waiters(m), "lock_sleep")
      PROVE  StepsAside(t)
  <2>1. /\ Waiters(m) \in Queues /\ Waiters(m) # KbdWaitQueue
        /\ \A p \in Procs : /\ Waiters(m) # WaitChildExit(p)
                            /\ Waiters(m) # WaitThreadExit(p)
    BY DEF Queues, Waiters, KbdWaitQueue, WaitChildExit, WaitThreadExit
  <2>2. "lock_sleep" \notin GetcPoints /\ "lock_sleep" \notin WaitPoints
    BY DEF GetcPoints, WaitPoints
  <2>. QED
    BY <1>1, <1>3, <2>1, <2>2, SleeperStepsAside
<1>4. ASSUME NEW m \in Mutexes, LockAttempt(t, m)
      PROVE  StepsAside(t)
  BY <1>2, <1>3, <1>4 DEF LockAttempt
<1>5. CASE MutexUnlock(t)
  <2>1. PICK m \in Mutexes : SetCore(UnblockOne(core, Waiters(m), zombie))
    BY <1>5 DEF MutexUnlock
  <2>2. core' = UnblockOne(core, Waiters(m), zombie) /\ Waiters(m) \in Queues
    BY <2>1 DEF core, SetCore, UnblockOne, Waiters, Queues
  <2>3. Awakens(core, core')
    BY <2>2, UnblockOneAwakens DEF IInv, SchedInv
  <2>4. UNCHANGED pc /\ pc[t] = "user"
    BY <1>5 DEF MutexUnlock, CallsInto, At
  <2>. QED
    BY <1>1, <2>3, <2>4, WakerStepsAside DEF GetcPoints, WaitPoints
<1>6. CASE MutexLock(t)
  BY <1>4, <1>6 DEF MutexLock
<1>7. CASE MutexLockWoken(t)
  <2>1. arg[t] \in Mutexes
    BY <1>7 DEF MutexLockWoken, At, IInv, DataInv, ArgFits
  <2>. QED
    BY <1>2, <1>4, <1>7, <2>1 DEF MutexLockWoken
<1>8. CASE MutexCreate(t) \/ MutexDestroy(t)
  BY <1>2, <1>8 DEF MutexCreate, MutexDestroy, tvars
<1>. QED
  BY <1>5, <1>6, <1>7, <1>8 DEF MutexNext

\* exec,
LEMMA ExecAside ==
  ASSUME IInv, NEW t \in Threads, Exec(t) \/ ExecFail(t) \/ ExecSwitch(t)
  PROVE  StepsAside(t)
<1>1. /\ t = curr_proc /\ pc[t] \notin SleepPoints /\ pc[t] \notin GetcPoints
      /\ Goto(t, "exec_load") \/ Goto(t, "user")
      /\ UNCHANGED <<run_state, pool, queue, owner>>
  BY DEF Exec, ExecFail, ExecSwitch, CallsInto, At, GetcPoints, SleepPoints
<1>2. /\ \A u \in Threads \ {t} : pc'[u] = pc[u]
      /\ pc'[t] \in {"exec_load", "user"}
  BY <1>1, Types DEF Goto
<1>. QED
  BY <1>1, <1>2, GoerStepsAside DEF GetcPoints, WaitPoints

\* the creation of threads,
LEMMA CreateAside ==
  ASSUME IInv, NEW t \in Threads,
         \/ PROC_create_kthread(t) \/ PROC_create_uthread(t)
         \/ Fork(t) \/ CloneThread(t)
  PROVE  StepsAside(t)
<1>1. PICK u \in Threads : \E p : LinkAndAdmit(u, p)
  BY DEF PROC_create_kthread, PROC_create_uthread, Fork, CloneThread
<1>2. UNCHANGED pc /\ t = curr_proc /\ pc[t] = "user"
  BY DEF PROC_create_kthread, PROC_create_uthread, Fork, CloneThread,
     CallsInto, At
<1>3. /\ run_state[u] = "UNUSED" /\ queue' = queue
      /\ run_state' = [run_state EXCEPT ![u] = "READY"]
      /\ \E p : owner' = [owner EXCEPT ![u] = p]
  BY <1>1 DEF LinkAndAdmit, UnusedThread, SetCore, Admitted, core
<1>4. \A v \in Threads : v # u => /\ run_state'[v] = run_state[v]
                                  /\ owner'[v] = owner[v]
  BY <1>3, Types DEF AllThreads
<1>5. \A v \in Threads, q \in Queues : InQueue(core', v, q) <=> InQueue(core, v, q)
  BY <1>3, CoreFields DEF InQueue
<1>6. t # u /\ \A q \in Queues : ~InQueue(core, t, q)
  BY <1>2, <1>3, CallerNotQueued, CallerIsRunning DEF IInv, SleepPoints
<1>7. OthersKept(t)
  BY <1>2, <1>3, <1>4, <1>5, CoreFields DEF OthersKept, Runs
<1>. QED
  BY <1>2, <1>4, <1>5, <1>6, <1>7 DEF StepsAside, GetcPoints, WaitPoints

\* wait and thread_join,
LEMMA WaitAside ==
  ASSUME IInv, CallsMade, NEW t \in Threads,
         Wait(t) \/ WaitTop(t) \/ WaitBlock(t) \/ WaitReap(t)
  PROVE  StepsAside(t)
<1>1. /\ t = curr_proc /\ pc[t] \notin SleepPoints /\ pc[t] \notin GetcPoints
      /\ UNCHANGED owner
  BY DEF Wait, WaitTop, WaitBlock, WaitReap, WaitUninterrupted, CallsInto, At,
         SleepPoints, GetcPoints, rest_of_wait
<1>2. "wait" \in Program[t]
  BY DEF Wait, WaitTop, WaitBlock, WaitReap, CallsInto, At, CallsMade,
     WaitPoints
<1>3. CASE BlockAt(t, WaitChildExit(owner[t]), "wait_sleep")
  <2>1. /\ WaitChildExit(owner[t]) \in Queues
        /\ WaitChildExit(owner[t]) # KbdWaitQueue
        /\ \A p \in Procs : WaitChildExit(owner[t]) # WaitThreadExit(p)
    BY <1>1, OwnerIsProc
       DEF IInv, Queues, WaitChildExit, WaitThreadExit, KbdWaitQueue
  <2>2. "wait_sleep" \notin GetcPoints
    BY DEF GetcPoints
  <2>. QED
    BY <1>1, <1>2, <1>3, <2>1, <2>2, SleeperStepsAside
<1>4. CASE /\ UNCHANGED <<run_state, pool, queue>>
           /\ \/ UNCHANGED pc
              \/ \E point \in {"user", "wait_top", "wait_reap", "wait_block"} :
                   Goto(t, point)
  <2>1. (\A u \in Threads \ {t} : pc'[u] = pc[u]) /\ pc'[t] \notin GetcPoints
    BY <1>1, <1>4, Types DEF Goto, GetcPoints
  <2>. QED
    BY <1>1, <1>2, <1>4, <2>1, GoerStepsAside
<1>5. CASE WaitUninterrupted(t)
  BY <1>3, <1>4, <1>5 DEF WaitUninterrupted
<1>6. CASE Wait(t)
  BY <1>4, <1>5, <1>6 DEF Wait
<1>7. CASE WaitTop(t)
  BY <1>4, <1>7 DEF WaitTop
<1>. QED
  BY <1>3, <1>4, <1>6, <1>7 DEF WaitBlock, WaitReap

\* in the queue of the own process,
LEMMA JoinAside ==
  ASSUME IInv, NEW t \in Threads,
         \/ Join(t) \/ JoinWoken(t) \/ JoinTest(t) \/ JoinBlock(t)
         \/ JoinReap(t) \/ JoinUnlink(t)
  PROVE  StepsAside(t)
<1>1. /\ t = curr_proc /\ pc[t] \notin SleepPoints /\ pc[t] \notin GetcPoints
      /\ pc[t] \notin WaitPoints /\ UNCHANGED owner
  BY DEF Join, JoinWoken, JoinTest, JoinBlock, JoinReap, JoinUnlink, CallsInto,
         At, SleepPoints, GetcPoints, WaitPoints, rest_of_join
<1>2. CASE BlockAt(t, WaitThreadExit(owner[t]), "join_sleep")
  <2>1. /\ WaitThreadExit(owner[t]) \in Queues
        /\ WaitThreadExit(owner[t]) # KbdWaitQueue
        /\ \A p \in Procs : /\ WaitThreadExit(owner[t]) # WaitChildExit(p)
                            /\ WaitThreadExit(owner[t]) = WaitThreadExit(p) =>
                                 owner[t] = p
    BY <1>1, OwnerIsProc
       DEF IInv, Queues, WaitChildExit, WaitThreadExit, KbdWaitQueue
  <2>2. "join_sleep" \notin GetcPoints /\ "join_sleep" \notin WaitPoints
    BY DEF GetcPoints, WaitPoints
  <2>. QED
    BY <1>1, <1>2, <2>1, <2>2, SleeperStepsAside
<1>3. CASE /\ UNCHANGED <<run_state, pool, queue>>
           /\ \/ UNCHANGED pc
              \/ \E point \in {"user", "join_found", "join_block", "join_reap",
                               "join_unlink"} : Goto(t, point)
  <2>1. /\ \A u \in Threads \ {t} : pc'[u] = pc[u]
        /\ pc'[t] \notin GetcPoints /\ pc'[t] \notin WaitPoints
    BY <1>1, <1>3, Types DEF Goto, GetcPoints, WaitPoints
  <2>. QED
    BY <1>1, <1>3, <2>1, GoerStepsAside
<1>4. CASE Join(t)
  BY <1>2, <1>3, <1>4 DEF Join
<1>5. CASE JoinWoken(t) \/ JoinTest(t)
  BY <1>3, <1>5 DEF JoinWoken, JoinTest
<1>6. CASE JoinReap(t) \/ JoinUnlink(t)
  BY <1>3, <1>6 DEF JoinReap, JoinUnlink
<1>. QED
  BY <1>2, <1>4, <1>5, <1>6 DEF JoinBlock

\* and the end of one thread.
LEMMA ExitThreadAside ==
  ASSUME LifeSpace, NEW t \in Threads, ExitThread(t), owner[t] \notin zombie
  PROVE  StepsAside(t) /\ \A q \in Queues : ~InQueue(core', t, q)
<1>. DEFINE p == owner[t]
            c1 == Dead(core, t)
            c2 == UnblockAll(c1, WaitThreadExit(p), zombie)
            c3 == TornDown(c2, p)
<1>1. t = curr_proc /\ pc[t] \notin SleepPoints /\ pc[t] = "user" /\ IInv
  BY DEF ExitThread, CallsInto, At, SleepPoints, LifeSpace
<1>2. p \in Procs /\ core.run_state[t] = "RUNNING"
  BY <1>1, OwnerIsProc, CallerIsRunning DEF IInv
<1>3. CoreInv(c1, owner, zombie)
  BY <1>1, <1>2, DeadKeeps DEF IInv, SchedInv
<1>4. WaitThreadExit(p) \in Queues
  BY <1>2 DEF WaitThreadExit, Queues
<1>5. CoreInv(c2, owner, zombie) /\ Awakens(c1, c2)
  BY <1>3, <1>4, UnblockAllKeeps, UnblockAllAwakens
<1>6. mutex_list \in SUBSET Mutexes /\ parent \in [Procs -> Procs \cup {None}]
  BY <1>1 DEF IInv, DataInv, MutexTypeOK, ProcessTypeOK
<1>7. CoreInv(c3, owner, zombie \cup {p}) /\ Awakens(c2, c3)
  BY <1>2, <1>5, <1>6, TornDownKeeps, TornDownAwakens
<1>8. Awakens(c2, core') \/ Awakens(c3, core')
  <2>1. Reschedule(c2, None) \/ Reschedule(c3, None)
    BY DEF ExitThread
  <2>. QED
    BY <1>5, <1>7, <2>1, RescheduleAwakens
<1>9. /\ \A u \in Threads, q \in Queues : InQueue(c1, u, q) => InQueue(core, u, q)
      /\ \A u \in Threads \ {t} : Runs(core, u) => Runs(c1, u)
  BY <1>1, CoreFields, Types DEF Dead, InQueue, Runs, AllThreads
<1>. HIDE DEF c1, c2, c3
<1>10. Awakens(c1, core')
  BY <1>5, <1>7, <1>8, AwakensTwice
<1>11. UNCHANGED <<owner, pc>>
  BY DEF ExitThread
<1>12. OthersKept(t)
  BY <1>9, <1>10, <1>11 DEF OthersKept, Awakens
<1>13. \A q \in Queues : ~InQueue(core', t, q)
  BY <1>1, <1>9, <1>10, CallerNotQueued DEF Awakens
<1>. QED
  BY <1>1, <1>11, <1>12, <1>13 DEF StepsAside, GetcPoints, WaitPoints

(***************************************************************************)
(* The end of a process empties the queues that only its own threads are   *)
(* in.  It stops nobody of another process.                                *)
(***************************************************************************)
LEMMA ExitProcessQueues ==
  ASSUME LifeSpace, NEW t \in Threads, ExitProcess(t), owner[t] \notin zombie
  PROVE  /\ \A u \in Threads, q \in Queues :
              InQueue(core', u, q) => InQueue(core, u, q)
         /\ \A u \in Threads : Runs(core, u) /\ owner[u] # owner[t] => Runs(core', u)
         /\ \A u \in Threads : ~InQueue(core', u, WaitThreadExit(owner[t]))
         /\ \A u \in Threads, m \in MutexesOf(owner[t]) :
              ~InQueue(core', u, Waiters(m))
<1>. DEFINE p == owner[t]
            S == Range(threads[p])
            gone == zombie \cup {p}
            c1 == Killed(core, S)
            c2 == TornDown(c1, p)
            c3 == UnblockAll(c2, WaitThreadExit(p), gone)
<1>1. p \in Procs /\ IInv
  BY OwnerIsProc DEF ExitProcess, CallsInto, At, IInv, SleepPoints, LifeSpace
<1>2. S \in SUBSET AllThreads /\ \A u \in S : owner[u] = p
  <2>1. S \in SUBSET AllThreads
    BY <1>1, Types, ListedAreThreads
  <2>. QED
    BY <1>1, <2>1 DEF LifeSpace, LifeInv, ListedIsOf
<1>3. CoreInv(c1, owner, zombie)
  BY <1>1, <1>2, KilledKeeps DEF IInv, SchedInv
<1>4. mutex_list \in SUBSET Mutexes /\ parent \in [Procs -> Procs \cup {None}]
  BY <1>1 DEF IInv, DataInv, MutexTypeOK, ProcessTypeOK
<1>5. /\ CoreInv(c2, owner, gone) /\ Awakens(c1, c2)
      /\ \A u \in Threads, m \in MutexesOf(p) : ~InQueue(c2, u, Waiters(m))
  BY <1>1, <1>3, <1>4, TornDownKeeps, TornDownAwakens
<1>6. WaitThreadExit(p) \in Queues /\ \A m \in MutexesOf(p) : Waiters(m) \in Queues
  BY <1>1, <1>4 DEF WaitThreadExit, Waiters, MutexesOf, Queues
<1>7. /\ CoreInv(c3, owner, gone) /\ Awakens(c2, c3)
      /\ \A u \in Threads : ~InQueue(c3, u, WaitThreadExit(p))
  BY <1>5, <1>6, UnblockAllKeeps, UnblockAllAwakens
<1>8. Awakens(c3, core')
  BY <1>7, RescheduleAwakens DEF ExitProcess
<1>9. /\ \A u \in Threads, q \in Queues : InQueue(c1, u, q) => InQueue(core, u, q)
      /\ \A u \in Threads : Runs(core, u) /\ owner[u] # p => Runs(c1, u)
  BY <1>2, CoreFields DEF Killed, InQueue, Runs, AllThreads
<1>. HIDE DEF c1, c2, c3, p
<1>10. Awakens(c1, core') /\ Awakens(c2, core')
  BY <1>5, <1>7, <1>8, AwakensTwice
<1>11. \A u \in Threads, q \in Queues : InQueue(core', u, q) => InQueue(core, u, q)
  BY <1>9, <1>10 DEF Awakens
<1>12. \A u \in Threads : Runs(core, u) /\ owner[u] # p => Runs(core', u)
  BY <1>9, <1>10 DEF Awakens
<1>13. \A u \in Threads : ~InQueue(core', u, WaitThreadExit(p))
  BY <1>6, <1>7, <1>8 DEF Awakens
<1>14. \A u \in Threads, m \in MutexesOf(p) : ~InQueue(core', u, Waiters(m))
  BY <1>5, <1>6, <1>10 DEF Awakens
<1>. QED
  BY <1>11, <1>12, <1>13, <1>14 DEF p

(***************************************************************************)
(* Every step of the kernel is one of five: a step outside                 *)
(* keyboard_getchar, one that only gives the CPU away, the keyboard        *)
(* interrupt, a step of keyboard_getchar, or the end of a process.         *)
(***************************************************************************)
GivesAway ==
  /\ Awakens(core, core')
  /\ UNCHANGED <<owner, kbd_chars>>
  /\ \A u \in Threads : /\ pc'[u] \in GetcPoints <=> pc[u] \in GetcPoints
                        /\ pc'[u] \in WaitPoints <=> pc[u] \in WaitPoints

\* The timer gives the CPU away,
LEMMA PreemptionGivesAway ==
  ASSUME IInv, Preemption \/ UNCHANGED vars
  PROVE  GivesAway
<1>1. UNCHANGED <<owner, kbd_chars, pc>>
  BY DEF Preemption, Tick, IdleYield, vars, tvars
<1>2. CASE Preemption
  <2>1. Awakens(core, core')
    BY <1>2, RescheduleAwakens DEF Preemption, Tick, IdleYield, IInv, SchedInv
  <2>. QED
    BY <1>1, <2>1 DEF GivesAway
<1>3. CASE UNCHANGED vars
  BY <1>1, <1>3 DEF GivesAway, Awakens, vars, tvars, core
<1>. QED
  BY <1>2, <1>3

\* and so do the yields.
LEMMA YieldGivesAway ==
  ASSUME IInv, NEW t \in Threads, Scheduling(t)
  PROVE  GivesAway
<1>1. UNCHANGED <<owner, kbd_chars>> /\ Reschedule(core, t)
  BY DEF Scheduling, Yield, SleepYield
<1>2. \A u \in Threads : /\ pc'[u] \in GetcPoints <=> pc[u] \in GetcPoints
                         /\ pc'[u] \in WaitPoints <=> pc[u] \in WaitPoints
  <2>1. CASE UNCHANGED pc
    BY <2>1
  <2>2. CASE SleepYield(t)
    BY <2>2, Types, SMT DEF SleepYield, Goto, SleepPoints, AfterYield,
       GetcPoints, WaitPoints
  <2>. QED
    BY <2>1, <2>2 DEF Scheduling, Yield
<1>. QED
  BY <1>1, <1>2, RescheduleAwakens DEF GivesAway, IInv, SchedInv

\* Which step is which.
LEMMA QueueKinds ==
  ASSUME LeastNumber, LifeSpace, ListInv, CallsMade, [Next]_vars
  PROVE  \/ GivesAway
         \/ KeyPress
         \/ \E t \in Threads :
              \/ StepsAside(t) /\ Alive(t) /\ UNCHANGED kbd_chars
              \/ Getc(t) \/ GetcWoken(t)
              \/ ExitProcess(t) /\ UNCHANGED kbd_chars
<1>1. IInv
  BY DEF LifeSpace
<1>2. CASE Preemption \/ UNCHANGED vars
  BY <1>1, <1>2, PreemptionGivesAway
<1>3. ASSUME NEW t \in Threads, Scheduling(t)
      PROVE  GivesAway
  BY <1>1, <1>3, YieldGivesAway
<1>4. ASSUME NEW t \in Threads, MutexNext(t)
      PROVE  StepsAside(t) /\ Alive(t)
  <2>1. t = curr_proc /\ pc[t] \notin SleepPoints
    BY <1>4 DEF MutexNext, MutexCreate, MutexLock, MutexLockWoken, MutexUnlock,
                MutexDestroy, CallsInto, At, SleepPoints
  <2>. QED
    BY <1>1, <1>4, <2>1, MutexAside, RunnerFacts
<1>5. ASSUME NEW t \in Threads, ProcessNext(t)
      PROVE  (StepsAside(t) /\ Alive(t)) \/ ExitProcess(t)
  <2>1. t = curr_proc /\ pc[t] \notin SleepPoints
    BY <1>5 DEF ProcessNext, PROC_create_kthread, PROC_create_uthread, Fork,
       CloneThread, Exec, ExecFail, ExecSwitch, ExitProcess, ExitThread, Wait,
       WaitTop, WaitBlock, WaitReap, Join, JoinWoken, JoinTest, JoinBlock,
       JoinReap, JoinUnlink, CallsInto, At, SleepPoints
  <2>2. Alive(t) /\ owner[t] \notin zombie
    BY <2>1, RunnerFacts
  <2>3. CASE \/ PROC_create_kthread(t) \/ PROC_create_uthread(t)
             \/ Fork(t) \/ CloneThread(t)
    BY <1>1, <2>2, <2>3, CreateAside
  <2>4. CASE Exec(t) \/ ExecFail(t) \/ ExecSwitch(t)
    BY <1>1, <2>2, <2>4, ExecAside
  <2>5. CASE ExitThread(t)
    BY <2>2, <2>5, ExitThreadAside
  <2>6. CASE Wait(t) \/ WaitTop(t) \/ WaitBlock(t) \/ WaitReap(t)
    BY <1>1, <2>2, <2>6, WaitAside
  <2>7. CASE \/ Join(t) \/ JoinWoken(t) \/ JoinTest(t) \/ JoinBlock(t)
             \/ JoinReap(t) \/ JoinUnlink(t)
    BY <1>1, <2>2, <2>7, JoinAside
  <2>. QED
    BY <1>5, <2>3, <2>4, <2>5, <2>6, <2>7 DEF ProcessNext
<1>. QED
  BY <1>2, <1>3, <1>4, <1>5 DEF Next, ThreadStep

\* keyboard_getchar takes a character, or sleeps in the keyboard's queue.
LEMMA GetCharIs ==
  ASSUME IInv, NEW t \in Threads, Getc(t) \/ GetcWoken(t)
  PROVE  /\ t = curr_proc /\ pc[t] \notin SleepPoints /\ UNCHANGED owner
         /\ pc[t] \in {"user", "getc_woken"} /\ Runs(core, t)
         /\ pc[t] = "user" => "getc" \in Program[t]
         /\ \A u \in Threads \ {t} :
              /\ pc'[u] = pc[u]
              /\ Runs(core', u) <=> Runs(core, u)
              /\ \A q \in Queues : InQueue(core', u, q) <=> InQueue(core, u, q)
         /\ \/ /\ kbd_chars > 0 /\ kbd_chars' = kbd_chars - 1
               /\ pc'[t] = "user"
               /\ \A q \in Queues : ~InQueue(core', t, q)
            \/ /\ kbd_chars = 0 /\ kbd_chars' = 0
               /\ pc'[t] = "getc_sleep"
               /\ \A q \in Queues : InQueue(core', t, q) => q = KbdWaitQueue
<1>1. /\ t = curr_proc /\ pc[t] \in {"user", "getc_woken"} /\ UNCHANGED owner
      /\ pc[t] \notin SleepPoints /\ GetChar(t)
      /\ pc[t] = "user" => "getc" \in Program[t]
  BY DEF Getc, GetcWoken, GetChar, CallsInto, At, SleepPoints
<1>2. Runs(core, t) /\ \A q \in Queues : ~InQueue(core, t, q)
  BY <1>1, CallerNotQueued
<1>3. CASE /\ kbd_chars > 0 /\ kbd_chars' = kbd_chars - 1
           /\ Goto(t, "user") /\ UNCHANGED <<run_state, pool, queue>>
  <2>1. core' = core
    BY <1>3 DEF core
  <2>2. pc'[t] = "user" /\ \A u \in Threads \ {t} : pc'[u] = pc[u]
    BY <1>3, Types DEF Goto
  <2>. QED
    BY <1>1, <1>2, <1>3, <2>1, <2>2
<1>4. CASE /\ kbd_chars = 0 /\ UNCHANGED kbd_chars
           /\ BlockAt(t, KbdWaitQueue, "getc_sleep")
  <2>1. core' = BlockedOn(core, t, KbdWaitQueue) /\ KbdWaitQueue \in Queues
    BY <1>4 DEF core, BlockAt, SetCore, BlockedOn, Queues
  <2>2. core.run_state[t] \in {"READY", "RUNNING"}
    BY <1>2 DEF Runs
  <2>3. /\ \A r \in Queues : InQueue(core', t, r) <=> r = KbdWaitQueue
        /\ \A u \in Threads : u # t =>
             /\ core'.run_state[u] = core.run_state[u]
             /\ \A r \in Queues : InQueue(core', u, r) <=> InQueue(core, u, r)
    BY <2>1, <2>2, BlockedOnIs, SMT DEF IInv, SchedInv
  <2>4. pc'[t] = "getc_sleep" /\ \A u \in Threads \ {t} : pc'[u] = pc[u]
    BY <1>4, Types DEF BlockAt, Goto
  <2>. QED
    BY <1>1, <1>2, <1>4, <2>3, <2>4 DEF Runs
<1>. QED
  BY <1>1, <1>3, <1>4 DEF GetChar

\* The keyboard interrupt puts nobody into a queue.
LEMMA KeyPressAwakens ==
  ASSUME LeastNumber, IInv, KeyPress
  PROVE  /\ core' = UnblockOne(core, KbdWaitQueue, zombie)
         /\ KbdWaitQueue \in Queues
         /\ Awakens(core, core')
         /\ UNCHANGED <<pc, owner>>
<1>1. /\ core' = UnblockOne(core, KbdWaitQueue, zombie)
      /\ KbdWaitQueue \in Queues /\ UNCHANGED <<pc, owner>>
  BY DEF KeyPress, core, SetCore, UnblockOne, Queues
<1>. QED
  BY <1>1, UnblockOneAwakens DEF IInv, SchedInv

(***************************************************************************)
(* So who is in which queue is an invariant, and no dead thread is put     *)
(* into a queue.                                                           *)
(***************************************************************************)
LEMMA QueueNext ==
  ASSUME LeastNumber, LifeSpace, ListInv, QueueInv, [Next]_vars
  PROVE  /\ QueueInv'
         /\ \A u \in Threads, q \in Queues :
              run_state[u] = "ZOMBIE" /\ InQueue(core', u, q) => InQueue(core, u, q)
<1>1. IInv /\ CallsMade
  BY DEF LifeSpace, QueueInv
<1>2. CASE GivesAway
  BY <1>2 DEF GivesAway, Awakens, QueueInv, CallsMade, QueuedRight
<1>3. CASE KeyPress
  BY <1>1, <1>3, KeyPressAwakens, StillKeepsQueues DEF Awakens
<1>4. ASSUME NEW t \in Threads, StepsAside(t), Alive(t)
      PROVE  /\ QueueInv'
             /\ \A u \in Threads, q \in Queues :
                  run_state[u] = "ZOMBIE" /\ InQueue(core', u, q) =>
                    InQueue(core, u, q)
  <2>1. QueueInv'
    BY <1>1, <1>4, AsideKeepsQueues
  <2>. QED
    BY <1>4, <2>1 DEF StepsAside, OthersKept, Alive
<1>5. ASSUME NEW t \in Threads, Getc(t) \/ GetcWoken(t)
      PROVE  /\ QueueInv'
             /\ \A u \in Threads, q \in Queues :
                  run_state[u] = "ZOMBIE" /\ InQueue(core', u, q) =>
                    InQueue(core, u, q)
  <2>1. /\ UNCHANGED owner /\ Runs(core, t)
        /\ pc[t] = "user" => "getc" \in Program[t]
        /\ pc[t] \in {"user", "getc_woken"}
        /\ \A u \in Threads \ {t} :
             /\ pc'[u] = pc[u]
             /\ \A q \in Queues : InQueue(core', u, q) <=> InQueue(core, u, q)
        /\ \/ pc'[t] = "user" /\ \A q \in Queues : ~InQueue(core', t, q)
           \/ /\ pc'[t] = "getc_sleep"
              /\ \A q \in Queues : InQueue(core', t, q) => q = KbdWaitQueue
    BY <1>1, <1>5, GetCharIs
  <2>2. "getc" \in Program[t]
    BY <1>1, <2>1 DEF CallsMade, GetcPoints
  <2>3. CallsMade'
    BY <1>1, <2>1, <2>2 DEF CallsMade, GetcPoints, WaitPoints
  <2>4. \A p \in Procs : /\ KbdWaitQueue # WaitChildExit(p)
                         /\ KbdWaitQueue # WaitThreadExit(p)
    BY DEF KbdWaitQueue, WaitChildExit, WaitThreadExit
  <2>5. ASSUME NEW u \in Threads, NEW q \in Queues, InQueue(core', u, q)
        PROVE  QueuedRight(u, q)'
    <3>1. CASE u = t
      BY <2>1, <2>4, <2>5, <3>1 DEF QueuedRight, GetcPoints
    <3>2. CASE u # t
      BY <2>1, <2>5, <3>2 DEF QueuedRight, QueueInv
    <3>. QED
      BY <3>1, <3>2
  <2>6. run_state[t] # "ZOMBIE"
    BY <2>1, CoreFields DEF Runs
  <2>. QED
    BY <2>1, <2>3, <2>5, <2>6 DEF QueueInv
<1>6. ASSUME NEW t \in Threads, ExitProcess(t)
      PROVE  /\ QueueInv'
             /\ \A u \in Threads, q \in Queues :
                  InQueue(core', u, q) => InQueue(core, u, q)
  <2>1. t = curr_proc /\ pc[t] \notin SleepPoints /\ UNCHANGED <<pc, owner>>
    BY <1>6 DEF ExitProcess, CallsInto, At, SleepPoints
  <2>2. \A u \in Threads, q \in Queues : InQueue(core', u, q) => InQueue(core, u, q)
    BY <1>6, <2>1, RunnerFacts, ExitProcessQueues
  <2>. QED
    BY <1>1, <2>1, <2>2, StillKeepsQueues
<1>. QED
  BY <1>1, <1>2, <1>3, <1>4, <1>5, <1>6, QueueKinds
=============================================================================
