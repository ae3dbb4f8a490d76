---------------------------- MODULE ProcessProofs ----------------------------
(***************************************************************************)
(* Proofs about the processes of Kernel, on top of the invariant IInv of   *)
(* KernelProofs: the count of the threads that live, then the address      *)
(* spaces, for every program.                                              *)
(***************************************************************************)
EXTENDS KernelProofs, FiniteSetTheorems

USE Zenon

(***************************************************************************)
(* The least-number principle, from the well-foundedness of the order of   *)
(* the naturals.                                                           *)
(***************************************************************************)
LEMMA LeastNumberHolds == LeastNumber
<1>. SUFFICES ASSUME NEW S \in SUBSET Nat, S # {}
              PROVE  \E i \in S : \A j \in S : i <= j
  BY DEF LeastNumber
<1>. DEFINE R == OpToRel(<, Nat)
<1>1. \A i, j \in Nat : j < i => <<j, i>> \in R
  BY DEF OpToRel
<1>2. IsWellFoundedOn(R, Nat)
  BY NatLessThanWellFounded
<1>. HIDE DEF R
<1>3. PICK i \in S : \A j \in S : <<j, i>> \notin R
  BY <1>2, WFMin
<1>4. \A j \in S : i <= j
  <2>. TAKE j \in S
  <2>1. i \in Nat /\ j \in Nat
    OBVIOUS
  <2>2. ~(j < i)
    BY <1>1, <1>3, <2>1
  <2>. QED
    BY <2>1, <2>2, SMT
<1>. QED
  BY <1>4

-----------------------------------------------------------------------------
\* IInv is an invariant of the kernel.
THEOREM Invariance == Spec => []IInv
<1>1. Init => IInv
  BY InitIInv
<1>2. IInv /\ [Next]_vars => IInv'
  BY NextIInv, LeastNumberHolds
<1>. QED
  BY <1>1, <1>2, PTL DEF Spec

(***************************************************************************)
(* Every variable of the kernel keeps its type; in particular the ring     *)
(* buffer of the keyboard never holds more than it can (ISR33_keyboard_irq *)
(* and keyboard_getchar).                                                  *)
(***************************************************************************)
THEOREM TypeCorrect == Spec => []TypeOK
<1>1. IInv => TypeOK
  BY IInvImplies
<1>. QED
  BY <1>1, Invariance, PTL

(***************************************************************************)
(* The scheduler's pool is exactly the threads that are READY or RUNNING,  *)
(* whatever admits, blocks, wakes and kills threads.                       *)
(***************************************************************************)
THEOREM PoolCorrect == Spec => []PoolIsRunnable
<1>1. IInv => PoolIsRunnable
  BY IInvImplies
<1>. QED
  BY <1>1, Invariance, PTL

(***************************************************************************)
(* A BLOCKED thread of a live process is at one place of one proc_queue,   *)
(* and nothing that could run is in a queue: PROC_block_on,                *)
(* PROC_unblock_one and PROC_exit_current_thread lose no sleeper.          *)
(***************************************************************************)
THEOREM QueueCorrect == Spec => []BlockedInOneQueue
<1>1. IInv => BlockedInOneQueue
  BY IInvImplies
<1>. QED
  BY <1>1, Invariance, PTL

(***************************************************************************)
(* The thread that has the CPU is RUNNING, except between the STI and the  *)
(* yield() of PROC_block_on.                                               *)
(***************************************************************************)
THEOREM CpuCorrect == Spec => []CpuThreadIsRunning
<1>1. IInv => CpuThreadIsRunning
  BY IInvImplies
<1>. QED
  BY <1>1, Invariance, PTL

(***************************************************************************)
(* At most one thread believes it holds a mutex, and it is the thread the  *)
(* kernel records as the owner, across locks, hand-overs, destruction and  *)
(* exits (mutex_syscalls.c).                                               *)
(***************************************************************************)
THEOREM MutexCorrect == Spec => []MutualExclusion
<1>1. IInv => MutualExclusion
  BY IInvImplies
<1>. QED
  BY <1>1, Invariance, PTL

(***************************************************************************)
(* A thread that is dead stays dead and never gets the CPU: a late         *)
(* PROC_unblock_one cannot revive what PROC_exit_current_thread killed.    *)
(***************************************************************************)
THEOREM DeadCorrect == Spec => DeadStayDead
<1>. DEFINE A == \A t \in Threads : run_state[t] = "ZOMBIE" =>
                   run_state'[t] = "ZOMBIE" /\ curr_proc' # t
<1>1. IInv /\ [Next]_vars => [A]_vars
  <2>. SUFFICES ASSUME IInv, Next PROVE A
    OBVIOUS
  <2>1. SchedStep
    BY NextSched, LeastNumberHolds
  <2>2. core.run_state = run_state /\ core'.run_state = run_state'
    BY DEF core
  <2>. QED
    BY <2>1, <2>2, MultitaskAssumption
    DEF SchedStep, DeadKept, AllThreads, CpuThreadIsRunning
<1>. QED
  BY <1>1, Invariance, PTL DEF Spec, DeadStayDead

-----------------------------------------------------------------------------
(***************************************************************************)
(* The live threads of a process across the kinds of steps.                *)
(***************************************************************************)
LEMMA SameLive ==
  ASSUME SameLife(core, core'), owner' = owner, NEW p
  PROVE  LiveThreads(p)' = LiveThreads(p)
BY CoreFields DEF SameLife, LiveThreads

\* Those that die are lost,
LEMMA DieLive ==
  ASSUME NEW S, Die(core, core', S), owner' = owner, NEW p
  PROVE  LiveThreads(p)' = LiveThreads(p) \ S
BY CoreFields DEF Die, LiveThreads

-----------------------------------------------------------------------------
(***************************************************************************)
(* LifeInv is kept by a calm step,                                         *)
(***************************************************************************)
LEMMA CalmLife ==
  ASSUME IInv, LifeInv, Calm
  PROVE  LifeInv'
<1>1. /\ UNCHANGED <<owner, zombie, procs, live_threads>>
      /\ \A t \in AllThreads :
           /\ run_state'[t] = "UNUSED" <=> run_state[t] = "UNUSED"
           /\ run_state'[t] = "ZOMBIE" <=> run_state[t] = "ZOMBIE"
      /\ \A p \in Procs : Range(threads'[p]) \subseteq Range(threads[p])
  BY CoreFields DEF Calm, SameLife
<1>2. \A p : LiveThreads(p)' = LiveThreads(p)
  BY SameLive DEF Calm
<1>3. LiveThreadsExact'
  BY <1>1, <1>2 DEF LifeInv, LiveThreadsExact
<1>4. ListedIsOf'
  <2>1. \A p \in Procs : Range(threads[p]) \subseteq AllThreads
    BY Types, ListedAreThreads
  <2>. QED
    BY <1>1, <2>1 DEF LifeInv, ListedIsOf
<1>5. Alive(Main)'
  BY <1>1, Types DEF LifeInv, Alive
<1>. QED
  BY <1>1, <1>2, <1>3, <1>4, <1>5 DEF LifeInv

\* by the creation of a thread in a process that has not exited,
LEMMA LinkLife ==
  ASSUME IInv, LifeInv, NEW u \in Threads, NEW p \in Procs, LinkAndAdmit(u, p),
         zombie' = zombie, p \notin zombie, procs' = procs \cup {p}
  PROVE  LifeInv'
<1>1. /\ LiveThreads(p)' = LiveThreads(p) \cup {u}
      /\ u \notin LiveThreads(p)
      /\ \A q : q # p => LiveThreads(q)' = LiveThreads(q)
      /\ run_state[u] = "UNUSED"
      /\ run_state' = [run_state EXCEPT ![u] = "READY"]
      /\ owner' = [owner EXCEPT ![u] = p]
  BY LinkLive
<1>2. /\ threads' = [threads EXCEPT ![p] = <<u>> \o @]
      /\ live_threads' = [live_threads EXCEPT ![p] = @ + 1]
  BY DEF LinkAndAdmit
<1>3. /\ \A t \in AllThreads : t # u => run_state'[t] = run_state[t] /\ owner'[t] = owner[t]
      /\ run_state'[u] = "READY" /\ owner'[u] = p
  BY <1>1, Types
<1>4. IsFiniteSet(LiveThreads(p)')
      /\ Cardinality(LiveThreads(p)') = Cardinality(LiveThreads(p)) + 1
  <2>1. IsFiniteSet(LiveThreads(p))
    BY DEF LifeInv
  <2>. QED
    BY <1>1, <2>1, FS_AddElement
<1>5. live_threads[p] = Cardinality(LiveThreads(p))
  <2>1. CASE p \in procs
    BY <2>1 DEF LifeInv, LiveThreadsExact
  <2>2. CASE p \notin procs
    <3>1. LiveThreads(p) = {}
      BY <2>2 DEF LifeInv, LiveThreads
    <3>. QED
      BY <2>2, <3>1, FS_EmptySet DEF LifeInv
  <2>. QED
    BY <2>1, <2>2
<1>6. LiveThreadsExact'
  <2>. SUFFICES ASSUME NEW q \in procs' \ zombie'
                PROVE  live_threads'[q] = Cardinality(LiveThreads(q)')
    BY DEF LiveThreadsExact
  <2>1. CASE q = p
    BY <1>2, <1>4, <1>5, <2>1, Types
  <2>2. CASE q # p
    <3>1. q \in procs \ zombie /\ q \in Procs
      BY <2>2, Types
    <3>2. live_threads'[q] = live_threads[q]
      BY <1>2, <2>2, <3>1, Types
    <3>. QED
      BY <1>1, <2>2, <3>1, <3>2 DEF LifeInv, LiveThreadsExact
  <2>. QED
    BY <2>1, <2>2
<1>7. \A q \in Procs : IsFiniteSet(LiveThreads(q))'
  BY <1>1, <1>4 DEF LifeInv
<1>8. \A q \in Procs \ (procs' \ zombie') : live_threads'[q] = 0
  <2>. TAKE q \in Procs \ (procs' \ zombie')
  <2>1. q # p /\ q \in Procs \ (procs \ zombie)
    OBVIOUS
  <2>. QED
    BY <1>2, <2>1, Types DEF LifeInv
<1>9. ListedIsOf'
  <2>. SUFFICES ASSUME NEW q \in Procs, NEW w \in Range(threads'[q])
                PROVE  owner'[w] = q /\ run_state'[w] # "UNUSED"
    BY DEF ListedIsOf
  <2>1. threads[p] \in Seq(AllThreads)
    BY Types
  <2>2. w \in Range(threads[q]) \/ (q = p /\ w = u)
    <3>1. CASE q # p
      BY <1>2, <3>1, Types
    <3>2. CASE q = p
      <4>1. threads'[q] = <<u>> \o threads[p]
        BY <1>2, <3>2, Types
      <4>. HIDE DEF LinkAndAdmit
      <4>2. PICK i \in DOMAIN (<<u>> \o threads[p]) : w = (<<u>> \o threads[p])[i]
        BY <4>1 DEF Range
      <4>. QED
        BY <2>1, <3>2, <4>2, SMT DEF Range
    <3>. QED
      BY <3>1, <3>2
  <2>3. CASE w \in Range(threads[q])
    <3>1. owner[w] = q /\ run_state[w] # "UNUSED"
      BY <2>3 DEF LifeInv, ListedIsOf
    <3>2. w \in AllThreads /\ w # u
      BY <1>1, <2>3, <3>1, Types, ListedAreThreads
    <3>. QED
      BY <1>3, <3>1, <3>2
  <2>4. CASE q = p /\ w = u
    BY <1>3, <2>4
  <2>. QED
    BY <2>2, <2>3, <2>4
<1>10. \A t \in AllThreads : run_state'[t] # "UNUSED" => owner'[t] \in procs'
  BY <1>3 DEF LifeInv
<1>11. owner'[Main] = KProc /\ Alive(Main)'
  BY <1>3, Types DEF LifeInv, Alive
<1>. QED
  BY <1>6, <1>7, <1>8, <1>9, <1>10, <1>11 DEF LifeInv

\* by the death of threads when their process is left a zombie,
LEMMA ProcessDiesLife ==
  ASSUME IInv, LifeInv, NEW p \in Procs, NEW S, Die(core, core', S),
         \A u \in S : owner[u] = p,
         \A u \in S : run_state[u] # "UNUSED",
         p \in procs, p # KProc,
         zombie' = zombie \cup {p},
         live_threads' = [live_threads EXCEPT ![p] = 0],
         UNCHANGED <<owner, procs, threads>>
  PROVE  LifeInv'
<1>1. \A t \in AllThreads :
        /\ run_state'[t] = "UNUSED" <=> run_state[t] = "UNUSED"
        /\ t \notin S => (run_state'[t] = "ZOMBIE" <=> run_state[t] = "ZOMBIE")
  BY CoreFields DEF Die
<1>2. \A q : LiveThreads(q)' = LiveThreads(q) \ S
  BY DieLive
<1>3. \A q : q # p => LiveThreads(q)' = LiveThreads(q)
  BY <1>2 DEF LiveThreads
<1>4. \A q \in Procs : q # p => live_threads'[q] = live_threads[q]
  BY Types
<1>5. live_threads'[p] = 0
  BY Types
<1>6. LiveThreadsExact'
  <2>. SUFFICES ASSUME NEW q \in procs' \ zombie'
                PROVE  live_threads'[q] = Cardinality(LiveThreads(q)')
    BY DEF LiveThreadsExact
  <2>1. q \in procs \ zombie /\ q # p /\ q \in Procs
    BY Types
  <2>. QED
    BY <1>3, <1>4, <2>1 DEF LifeInv, LiveThreadsExact
<1>7. \A q \in Procs : IsFiniteSet(LiveThreads(q))'
  <2>. TAKE q \in Procs
  <2>1. IsFiniteSet(LiveThreads(q)) /\ LiveThreads(q)' \subseteq LiveThreads(q)
    BY <1>2 DEF LifeInv
  <2>. QED
    BY <2>1, FS_Subset
<1>8. \A q \in Procs \ (procs' \ zombie') : live_threads'[q] = 0
  BY <1>4, <1>5 DEF LifeInv
<1>9. ListedIsOf'
  <2>1. \A q \in Procs : Range(threads[q]) \subseteq AllThreads
    BY Types, ListedAreThreads
  <2>. QED
    BY <1>1, <2>1 DEF LifeInv, ListedIsOf
<1>10. Main \notin S
  BY DEF LifeInv
<1>11. Alive(Main)'
  BY <1>1, <1>10, Types DEF LifeInv, Alive
<1>12. /\ KProc \in procs' /\ zombie' \subseteq procs' \ {KProc}
       /\ owner'[Main] = KProc
       /\ \A t \in AllThreads : run_state'[t] # "UNUSED" => owner'[t] \in procs'
  BY <1>1 DEF LifeInv
<1>. QED
  BY <1>6, <1>7, <1>8, <1>9, <1>11, <1>12 DEF LifeInv

\* and by the death of one thread that is not the last.
LEMMA ThreadDiesLife ==
  ASSUME IInv, LifeInv, NEW t \in Threads, run_state[t] = "RUNNING",
         NEW p \in Procs, owner[t] = p, p \in procs \ zombie,
         Die(core, core', {t}),
         live_threads' = [live_threads EXCEPT ![p] = @ - 1],
         UNCHANGED <<owner, procs, threads, zombie>>
  PROVE  LifeInv'
<1>1. \A u \in AllThreads :
        /\ run_state'[u] = "UNUSED" <=> run_state[u] = "UNUSED"
        /\ u # t => (run_state'[u] = "ZOMBIE" <=> run_state[u] = "ZOMBIE")
  BY CoreFields DEF Die
<1>2. \A q : LiveThreads(q)' = LiveThreads(q) \ {t}
  BY DieLive
<1>3. \A q : q # p => LiveThreads(q)' = LiveThreads(q)
  BY <1>2 DEF LiveThreads
<1>4. t \in LiveThreads(p) /\ t # Main
  BY Types DEF LiveThreads
<1>5. /\ IsFiniteSet(LiveThreads(p))
      /\ live_threads[p] = Cardinality(LiveThreads(p))
  BY <1>4 DEF LifeInv, LiveThreadsExact
<1>6. /\ IsFiniteSet(LiveThreads(p)')
      /\ Cardinality(LiveThreads(p)') = Cardinality(LiveThreads(p)) - 1
  BY <1>2, <1>4, <1>5, FS_RemoveElement
<1>7. live_threads'[p] = Cardinality(LiveThreads(p)')
  BY <1>4, <1>5, <1>6, Types
<1>8. \A q \in Procs : q # p => live_threads'[q] = live_threads[q]
  BY Types
<1>9. LiveThreadsExact'
  <2>. SUFFICES ASSUME NEW q \in procs' \ zombie'
                PROVE  live_threads'[q] = Cardinality(LiveThreads(q)')
    BY DEF LiveThreadsExact
  <2>1. q \in Procs
    BY Types
  <2>. QED
    BY <1>3, <1>7, <1>8, <2>1, SMT DEF LifeInv, LiveThreadsExact
<1>10. \A q \in Procs : IsFiniteSet(LiveThreads(q))'
  BY <1>3, <1>6 DEF LifeInv
<1>11. \A q \in Procs \ (procs' \ zombie') : live_threads'[q] = 0
  BY <1>8 DEF LifeInv
<1>12. ListedIsOf'
  <2>1. \A q \in Procs : Range(threads[q]) \subseteq AllThreads
    BY Types, ListedAreThreads
  <2>. QED
    BY <1>1, <2>1 DEF LifeInv, ListedIsOf
<1>13. Alive(Main)'
  BY <1>1, <1>4, Types DEF LifeInv, Alive
<1>14. /\ KProc \in procs' /\ zombie' \subseteq procs' \ {KProc}
       /\ owner'[Main] = KProc
       /\ \A u \in AllThreads : run_state'[u] # "UNUSED" => owner'[u] \in procs'
  BY <1>1 DEF LifeInv
<1>. QED
  BY <1>9, <1>10, <1>11, <1>12, <1>13, <1>14 DEF LifeInv

-----------------------------------------------------------------------------
\* The images of a finite set under a function that is injective on it.
LEMMA InjectiveImage ==
  ASSUME NEW f, NEW S, IsFiniteSet(S), \A x, y \in S : f[x] = f[y] => x = y
  PROVE  /\ IsFiniteSet({f[x] : x \in S})
         /\ Cardinality({f[x] : x \in S}) = Cardinality(S)
<1>. DEFINE R == {f[x] : x \in S}
            g == [x \in S |-> f[x]]
<1>1. g \in Bijection(S, R)
  BY DEF Bijection, Injection, Surjection, IsInjective
<1>2. ExistsBijection(S, R)
  BY <1>1 DEF ExistsBijection
<1>. HIDE DEF R
<1>3. IsFiniteSet(R) /\ Cardinality(R) = Cardinality(S)
  BY <1>2, FS_Bijection
<1>. QED
  BY <1>3 DEF R

(***************************************************************************)
(* Counting: the invariant is what SpacesConserved says.                   *)
(***************************************************************************)
LEMMA SpacesCount ==
  ASSUME IInv, LifeInv, SpaceInv
  PROVE  SpacesConserved
<1>. DEFINE A == {cr3[p] : p \in Users}
            B == {image[t] : t \in Loading}
<1>1. {t \in Threads : image[t] # None /\ run_state[t] # "ZOMBIE"} = Loading
  BY DEF Loading, SpaceInv, LoadInv, Alive
<1>2. IsFiniteSet(Users)
  BY FS_Subset DEF SpaceInv, Users
<1>3. IsFiniteSet(Loading)
  BY DEF SpaceInv
<1>4. IsFiniteSet(A) /\ Cardinality(A) = Cardinality(Users)
  <2>1. \A p, q \in Users : cr3[p] = cr3[q] => p = q
    BY DEF SpaceInv, SpacesExact
  <2>. HIDE DEF Users
  <2>. QED
    BY <1>2, <2>1, InjectiveImage
<1>5. IsFiniteSet(B) /\ Cardinality(B) = Cardinality(Loading)
  BY <1>3, InjectiveImage, SMT DEF SpaceInv, SpacesExact
<1>6. spaces = A \cup B
  BY SMT DEF SpaceInv, SpacesExact
<1>7. A \cap B = {}
  BY SMT DEF SpaceInv, SpacesExact
<1>. HIDE DEF A, B
<1>8. Cardinality(A) \in Nat /\ Cardinality(B) \in Nat
  BY <1>4, <1>5, FS_CardinalityType
<1>9. Cardinality(A \cup B) = Cardinality(A) + Cardinality(B) - Cardinality(A \cap B)
  BY <1>4, <1>5, FS_Union
<1>10. Cardinality(A \cap B) = 0
  BY <1>7, FS_EmptySet
<1>11. Cardinality(spaces) = Cardinality(Users) + Cardinality(Loading)
  BY <1>4, <1>5, <1>6, <1>8, <1>9, <1>10, SMT
<1>. QED
  BY <1>1, <1>6, <1>11 DEF SpacesConserved, A, B, Users

\* The thread that is in exec is the only live one of its process.
LEMMA OnlyThread ==
  ASSUME IInv, LifeInv, SpaceInv, NEW t \in Threads, image[t] # None,
         NEW u \in AllThreads, Alive(u), owner[u] = owner[t]
  PROVE  u = t
<1>. DEFINE p == owner[t]
<1>1. Alive(t) /\ p \in procs /\ live_threads[p] = 1 /\ p \in Procs
  BY Types DEF SpaceInv, LoadInv
<1>2. p \in procs \ zombie
  BY <1>1, SMT DEF LifeInv
<1>3. t \in LiveThreads(p) /\ u \in LiveThreads(p)
  BY <1>1, Types DEF LiveThreads, Alive
<1>4. IsFiniteSet(LiveThreads(p)) /\ Cardinality(LiveThreads(p)) = 1
  BY <1>1, <1>2 DEF LifeInv, LiveThreadsExact
<1>5. PICK x : LiveThreads(p) = {x}
  BY <1>4, FS_Singleton
<1>. QED
  BY <1>3, <1>5

-----------------------------------------------------------------------------
(***************************************************************************)
(* SpaceInv is kept by a calm step,                                        *)
(***************************************************************************)
LEMMA CalmSpace ==
  ASSUME IInv, SpaceInv, Calm
  PROVE  SpaceInv'
<1>1. UNCHANGED <<owner, zombie, procs, live_threads, cr3, spaces, image>>
  BY DEF Calm
<1>2. Users' = Users /\ Loading' = Loading
  BY <1>1 DEF Users, Loading
<1>3. SpacesExact'
  BY <1>1, <1>2 DEF SpaceInv, SpacesExact
<1>4. \A t \in Threads : Alive(t)' <=> Alive(t)
  BY CoreFields, Types DEF Calm, SameLife, Alive
<1>5. LoadInv'
  BY <1>1, <1>4 DEF SpaceInv, LoadInv, Calm
<1>6. RootInv'
  BY <1>1 DEF SpaceInv, RootInv
<1>. QED
  BY <1>1, <1>2, <1>3, <1>5, <1>6 DEF SpaceInv

\* by a new thread in a process where no exec is in progress, with or without
\* a new process for it,
LEMMA LinkLoad ==
  ASSUME IInv, LifeInv, SpaceInv, NEW u \in Threads, NEW p \in Procs,
         LinkAndAdmit(u, p), UNCHANGED <<image, pc>>, procs \subseteq procs',
         \A t \in Loading : owner[t] # p
  PROVE  LoadInv'
<1>1. /\ run_state[u] = "UNUSED"
      /\ run_state' = [run_state EXCEPT ![u] = "READY"]
      /\ owner' = [owner EXCEPT ![u] = p]
  BY LinkLive
<1>2. live_threads' = [live_threads EXCEPT ![p] = @ + 1]
  BY DEF LinkAndAdmit
<1>. SUFFICES ASSUME NEW t \in Threads, image[t] # None
              PROVE  /\ Alive(t)'
                     /\ owner'[t] \in procs' \ {KProc}
                     /\ live_threads'[owner'[t]] = 1
  BY DEF LoadInv, SpaceInv
<1>3. Alive(t) /\ owner[t] \in procs \ {KProc} /\ live_threads[owner[t]] = 1
  BY DEF SpaceInv, LoadInv
<1>4. t # u /\ owner[t] # p /\ owner[t] \in Procs
  BY <1>1, <1>3, Types DEF Alive, Loading
<1>. QED
  BY <1>1, <1>2, <1>3, <1>4, Types DEF Alive

\* A new thread needs no address space.
LEMMA NewThreadSpace ==
  ASSUME IInv, LifeInv, SpaceInv, NEW u \in Threads, NEW p \in Procs,
         LinkAndAdmit(u, p), UNCHANGED <<image, pc, procs, zombie, cr3, spaces>>,
         \A t \in Loading : owner[t] # p
  PROVE  SpaceInv'
<1>1. LoadInv'
  BY LinkLoad
<1>2. Users' = Users /\ Loading' = Loading
  BY DEF Users, Loading
<1>. QED
  BY <1>1, <1>2 DEF SpaceInv, SpacesExact, RootInv

\* A new process brings its own.
LEMMA NewProcessSpace ==
  ASSUME IInv, LifeInv, SpaceInv, NEW u \in Threads, NEW p \in Procs,
         NEW par, NEW s \in Spaces, LinkAndAdmit(u, p), LinkProcess(p, par, s),
         UNCHANGED <<image, pc, zombie>>
  PROVE  SpaceInv'
<1>1. /\ p \notin procs /\ s \notin spaces
      /\ procs' = procs \cup {p}
      /\ cr3' = [cr3 EXCEPT ![p] = s]
      /\ spaces' = spaces \cup {s}
  BY DEF LinkProcess
<1>2. LoadInv'
  BY <1>1, LinkLoad DEF SpaceInv, LoadInv, Loading
<1>3. /\ Users' = Users \cup {p} /\ p \notin Users
      /\ \A q \in Users : cr3'[q] = cr3[q]
      /\ cr3'[p] = s
  BY <1>1, Types, SMT DEF Users
<1>4. Loading' = Loading
  BY DEF Loading
<1>5. SpacesExact'
  BY <1>1, <1>3, <1>4, SMT DEF SpaceInv, SpacesExact
<1>6. RootInv'
  <2>1. \A q \in procs : cr3'[q] = cr3[q]
    BY <1>1, Types
  <2>. QED
    BY <1>1, <1>3, <2>1 DEF SpaceInv, RootInv, LifeInv
<1>7. IsFiniteSet(procs')
  BY <1>1, FS_AddElement DEF SpaceInv
<1>. QED
  BY <1>2, <1>4, <1>5, <1>6, <1>7 DEF SpaceInv

\* by exec when it starts,
LEMMA ExecSpace ==
  ASSUME IInv, LifeInv, SpaceInv, NEW t \in Threads, Exec(t)
  PROVE  SpaceInv'
<1>1. /\ t = curr_proc /\ pc[t] = "user" /\ owner[t] # KProc
      /\ live_threads[owner[t]] = 1
      /\ pc' = [pc EXCEPT ![t] = "exec_load"]
      /\ UNCHANGED <<run_state, owner, zombie, procs, live_threads, cr3>>
  BY DEF Exec, CallsInto, At, Goto, KernelCalls
<1>2. PICK s \in Spaces \ spaces : /\ spaces' = spaces \cup {s}
                                   /\ image' = [image EXCEPT ![t] = s]
  BY DEF Exec
<1>3. Alive(t) /\ owner[t] \in procs
  BY <1>1, CallerIsRunning, Types DEF IInv, SleepPoints, Alive, LifeInv
<1>4. t \notin Loading /\ image[t] = None
  BY <1>1 DEF SpaceInv, LoadInv, Loading
<1>5. /\ Loading' = Loading \cup {t}
      /\ \A u \in Loading : image'[u] = image[u]
      /\ image'[t] = s
  BY <1>2, <1>4, Types, SMT DEF Loading
<1>6. Users' = Users
  BY <1>1 DEF Users
<1>7. SpacesExact'
  <2>1. \A p \in Users : cr3'[p] = cr3[p]
    BY <1>1
  <2>2. /\ s \notin spaces
        /\ \A p \in Users : cr3[p] \in spaces
        /\ \A u \in Loading : image[u] \in spaces
    BY <1>2 DEF SpaceInv, SpacesExact
  <2>3. /\ \A p \in Users : cr3'[p] \in spaces'
        /\ \A u \in Loading' : image'[u] \in spaces'
    BY <1>2, <1>5, <2>1, <2>2, SMT
  <2>4. \A r \in spaces' : \/ \E p \in Users : cr3'[p] = r
                          \/ \E u \in Loading' : image'[u] = r
    BY <1>2, <1>5, <2>1, SMT DEF SpaceInv, SpacesExact
  <2>5. /\ \A p, q \in Users : cr3'[p] = cr3'[q] => p = q
        /\ \A u, v \in Loading' : image'[u] = image'[v] => u = v
        /\ \A p \in Users, u \in Loading' : cr3'[p] # image'[u]
    BY <1>5, <2>1, <2>2, SMT DEF SpaceInv, SpacesExact
  <2>. QED
    BY <1>6, <2>3, <2>4, <2>5 DEF SpacesExact
<1>8. LoadInv'
  <2>. SUFFICES ASSUME NEW u \in Threads
                PROVE  /\ image'[u] # None <=> pc'[u] = "exec_load"
                       /\ image'[u] # None => /\ Alive(u)
                                              /\ owner[u] \in procs \ {KProc}
                                              /\ live_threads[owner[u]] = 1
    BY <1>1 DEF LoadInv, Alive
  <2>1. CASE u = t
    BY <1>1, <1>3, <1>5, <2>1, Types
  <2>2. CASE u # t
    BY <1>1, <1>2, <2>2, Types DEF SpaceInv, LoadInv
  <2>. QED
    BY <2>1, <2>2
<1>9. RootInv'
  BY <1>1 DEF SpaceInv, RootInv
<1>10. IsFiniteSet(Loading')
  BY <1>5, FS_AddElement DEF SpaceInv
<1>. QED
  BY <1>1, <1>7, <1>8, <1>9, <1>10 DEF SpaceInv

\* when it fails and when it succeeds,
LEMMA ExecEndsLoad ==
  ASSUME IInv, SpaceInv, NEW t \in Threads, At(t, "exec_load"),
         image' = [image EXCEPT ![t] = None], Goto(t, "user"),
         UNCHANGED <<run_state, owner, procs, live_threads>>
  PROVE  /\ LoadInv'
         /\ t \in Loading /\ Loading' = Loading \ {t}
         /\ \A u \in Loading' : image'[u] = image[u]
         /\ IsFiniteSet(Loading')
         /\ image[t] \in Spaces
         /\ owner[t] \in procs \ {KProc}
         /\ live_threads[owner[t]] = 1
<1>1. /\ pc[t] = "exec_load"
      /\ pc' = [pc EXCEPT ![t] = "user"]
  BY DEF At, Goto
<1>2. /\ image[t] # None /\ owner[t] \in procs \ {KProc}
      /\ live_threads[owner[t]] = 1
  BY <1>1 DEF SpaceInv, LoadInv
<1>3. image[t] \in Spaces
  BY <1>2, Types
<1>4. /\ t \in Loading /\ Loading' = Loading \ {t}
      /\ \A u \in Loading' : image'[u] = image[u]
  BY <1>2, Types DEF Loading
<1>5. LoadInv'
  <2>. SUFFICES ASSUME NEW u \in Threads
                PROVE  /\ image'[u] # None <=> pc'[u] = "exec_load"
                       /\ image'[u] # None => /\ Alive(u)
                                              /\ owner[u] \in procs \ {KProc}
                                              /\ live_threads[owner[u]] = 1
    BY DEF LoadInv, Alive
  <2>1. CASE u = t
    BY <1>1, <2>1, Types
  <2>2. CASE u # t
    BY <1>1, <2>2, Types DEF SpaceInv, LoadInv
  <2>. QED
    BY <2>1, <2>2
<1>6. IsFiniteSet(Loading')
  BY <1>4, FS_Subset DEF SpaceInv
<1>. QED
  BY <1>2, <1>3, <1>4, <1>5, <1>6

\* An exec that fails gives back the space that it was loading into.
LEMMA ExecFailSpace ==
  ASSUME IInv, LifeInv, SpaceInv, NEW t \in Threads, ExecFail(t)
  PROVE  SpaceInv'
<1>1. /\ At(t, "exec_load")
      /\ spaces' = spaces \ {image[t]}
      /\ image' = [image EXCEPT ![t] = None]
      /\ Goto(t, "user")
      /\ UNCHANGED <<run_state, owner, zombie, procs, live_threads, cr3>>
  BY DEF ExecFail
<1>2. /\ LoadInv'
      /\ t \in Loading /\ Loading' = Loading \ {t}
      /\ \A u \in Loading' : image'[u] = image[u]
      /\ IsFiniteSet(Loading')
      /\ image[t] \in Spaces
      /\ owner[t] \in procs \ {KProc}
      /\ live_threads[owner[t]] = 1
  BY <1>1, ExecEndsLoad
<1>3. Users' = Users
  BY <1>1 DEF Users
<1>4. SpacesExact'
  BY <1>1, <1>2, <1>3, SMT DEF SpaceInv, SpacesExact
<1>. QED
  BY <1>1, <1>2, <1>4 DEF SpaceInv, RootInv

\* One that succeeds gives back the old space of its process.
LEMMA ExecSwitchSpace ==
  ASSUME IInv, LifeInv, SpaceInv, NEW t \in Threads, ExecSwitch(t)
  PROVE  SpaceInv'
<1>1. /\ At(t, "exec_load")
      /\ cr3' = [cr3 EXCEPT ![owner[t]] = image[t]]
      /\ spaces' = spaces \ {cr3[owner[t]]}
      /\ image' = [image EXCEPT ![t] = None]
      /\ Goto(t, "user")
      /\ UNCHANGED <<run_state, owner, zombie, procs, live_threads>>
  BY DEF ExecSwitch, OldImageDestroyed
<1>2. /\ LoadInv'
      /\ t \in Loading /\ Loading' = Loading \ {t}
      /\ \A u \in Loading' : image'[u] = image[u]
      /\ IsFiniteSet(Loading')
      /\ image[t] \in Spaces
      /\ owner[t] \in procs \ {KProc}
      /\ live_threads[owner[t]] = 1
  BY <1>1, ExecEndsLoad
<1>3. owner[t] \in Procs /\ owner[t] \notin zombie
  <2>1. owner[t] \in Procs
    BY <1>2, Types
  <2>2. \A p \in Procs : p \in zombie => live_threads[p] = 0
    BY DEF LifeInv
  <2>. QED
    BY <1>2, <2>1, <2>2, SMT
<1>4. cr3[owner[t]] \in Spaces
  BY <1>2, <1>3 DEF SpaceInv, RootInv
<1>5. /\ Users' = Users /\ owner[t] \in Users
      /\ cr3'[owner[t]] = image[t]
      /\ \A q \in Procs : q # owner[t] => cr3'[q] = cr3[q]
  BY <1>1, <1>2, <1>3, <1>4, Types DEF Users
<1>6. Users \subseteq Procs
  BY Types DEF Users
<1>7. SpacesExact'
  <2>. DEFINE p == owner[t]
  <2>1. p \in Users /\ t \in Loading
    BY <1>2, <1>5
  <2>2. \A q \in Users : q # p => cr3'[q] = cr3[q]
    BY <1>5, <1>6
  <2>3. cr3'[p] = image[t] /\ cr3[p] # image[t]
    BY <1>5, <2>1 DEF SpaceInv, SpacesExact
  <2>4. spaces' = spaces \ {cr3[p]}
    BY <1>1
  <2>. HIDE DEF p
  <2>5. /\ cr3[p] \in spaces /\ image[t] \in spaces
        /\ \A u \in Loading : image[u] # cr3[p]
        /\ \A q \in Users : q # p => cr3[q] # cr3[p] /\ cr3[q] # image[t]
    BY <2>1 DEF SpaceInv, SpacesExact
  <2>6. /\ \A q \in Users : cr3'[q] \in spaces'
        /\ \A u \in Loading' : image'[u] \in spaces'
    <3>1. /\ \A q \in Users : cr3[q] \in spaces
          /\ \A u \in Loading : image[u] \in spaces
      BY DEF SpaceInv, SpacesExact
    <3>2. \A u \in Loading' : u \in Loading /\ image'[u] = image[u]
      BY <1>2
    <3>. QED
      BY <2>2, <2>3, <2>4, <2>5, <3>1, <3>2
  <2>7. \A s \in spaces' : \/ \E q \in Users : cr3'[q] = s
                          \/ \E u \in Loading' : image'[u] = s
    BY <1>2, <2>1, <2>2, <2>3, <2>4, SMT DEF SpaceInv, SpacesExact
  <2>8. /\ \A q, r \in Users : cr3'[q] = cr3'[r] => q = r
        /\ \A u, v \in Loading' : image'[u] = image'[v] => u = v
        /\ \A q \in Users, u \in Loading' : cr3'[q] # image'[u]
    BY <1>2, <2>1, <2>2, <2>3, <2>5, SMT DEF SpaceInv, SpacesExact
  <2>. QED
    BY <1>5, <2>6, <2>7, <2>8 DEF SpacesExact
<1>8. RootInv'
  BY <1>1, <1>2, <1>3, <1>5, Types DEF SpaceInv, RootInv, LifeInv
<1>. QED
  BY <1>1, <1>2, <1>7, <1>8 DEF SpaceInv

\* The counts of the other processes do not change.
CountsKept(p) ==
  \A q \in Procs : q # p => live_threads'[q] = live_threads[q]

(***************************************************************************)
(* and by the exit of a process, or of a thread: nobody who is in exec     *)
(* dies by it.                                                             *)
(***************************************************************************)
LEMMA DieLoad ==
  ASSUME IInv, LifeInv, SpaceInv, NEW t \in Threads, NEW p, NEW S,
         t = curr_proc, pc[t] = "user", owner[t] = p, p \in Procs,
         Die(core, core', S),
         \A u \in S : owner[u] = p,
         CountsKept(p), UNCHANGED <<owner, procs, image, pc>>
  PROVE  LoadInv'
<1>1. Alive(t)
  BY CallerIsRunning DEF IInv, SleepPoints, Alive
<1>2. \A u \in Threads : image[u] # None => owner[u] # p
  BY <1>1, OnlyThread, Types DEF SpaceInv, LoadInv
<1>3. \A u \in Threads : u \notin S => (Alive(u)' <=> Alive(u))
  BY CoreFields, Types DEF Die, Alive
<1>. SUFFICES ASSUME NEW u \in Threads, image[u] # None
              PROVE  /\ Alive(u)'
                     /\ owner'[u] \in procs' \ {KProc}
                     /\ live_threads'[owner'[u]] = 1
  BY DEF LoadInv, SpaceInv
<1>4. Alive(u) /\ owner[u] \in procs \ {KProc} /\ live_threads[owner[u]] = 1
  BY DEF SpaceInv, LoadInv
<1>. QED
  BY <1>2, <1>3, <1>4, Types DEF CountsKept

\* process_teardown gives back the space of the process.
LEMMA TeardownSpace ==
  ASSUME IInv, LifeInv, SpaceInv, LoadInv', NEW p \in Procs, p # KProc,
         p \in procs, Teardown(p), UNCHANGED <<procs, image>>
  PROVE  SpaceInv'
<1>1. Loading' = Loading
  BY DEF Loading
<1>2. CASE p \in zombie
  <2>1. UNCHANGED <<zombie, cr3, spaces>>
    BY <1>2 DEF Teardown
  <2>2. Users' = Users
    BY <2>1 DEF Users
  <2>. QED
    BY <1>1, <2>1, <2>2 DEF SpaceInv, SpacesExact, RootInv
<1>3. CASE p \notin zombie
  <2>1. zombie' = zombie \cup {p} /\ destroy_process_address_space(p)
    BY <1>3 DEF Teardown
  <2>2. cr3[p] \in Spaces
    BY <1>3 DEF SpaceInv, RootInv
  <2>3. /\ cr3' = [cr3 EXCEPT ![p] = None]
        /\ spaces' = spaces \ {cr3[p]}
    BY <2>1, <2>2, Types DEF destroy_process_address_space
  <2>4. /\ p \in Users /\ Users' = Users \ {p}
        /\ \A q \in Procs : q # p => cr3'[q] = cr3[q]
        /\ cr3'[p] = None
    BY <2>2, <2>3, Types DEF Users
  <2>5. Users \subseteq Procs
    BY Types DEF Users
  <2>6. SpacesExact'
    BY <1>1, <2>3, <2>4, <2>5, SMT DEF SpaceInv, SpacesExact
  <2>7. RootInv'
    BY <2>1, <2>4, Types DEF SpaceInv, RootInv
  <2>. QED
    BY <1>1, <2>6, <2>7 DEF SpaceInv
<1>. QED
  BY <1>2, <1>3

-----------------------------------------------------------------------------
(***************************************************************************)
(* Every step of the kernel keeps the two invariants.                      *)
(***************************************************************************)
Counted == IInv /\ LifeInv /\ SpaceInv

\* At boot there is the kernel process with its two threads.
LEMMA InitLifeSpace ==
  ASSUME Init
  PROVE  LifeInv /\ SpaceInv
<1>1. /\ procs = {KProc} /\ zombie = {} /\ spaces = {}
      /\ owner = [t \in AllThreads |-> IF t \in {Main, KInit} THEN KProc ELSE None]
      /\ threads = [p \in Procs |-> IF p = KProc THEN <<KInit, Main>> ELSE <<>>]
      /\ live_threads = [p \in Procs |-> IF p = KProc THEN 2 ELSE 0]
      /\ cr3 = [p \in Procs |-> IF p = KProc THEN KSpace ELSE None]
      /\ image = [t \in Threads |-> None]
      /\ pc = [t \in Threads |-> "user"]
  BY DEF Init, MultitaskInit, ProcessInit
<1>2. /\ run_state[Main] = "RUNNING" /\ run_state[KInit] = "READY"
      /\ \A t \in AllThreads : t \notin {Main, KInit} => run_state[t] = "UNUSED"
  BY MultitaskAssumption DEF Init, MultitaskInit, AllThreads
<1>3. KInit # Main /\ KInit \in AllThreads /\ Main \in AllThreads /\ KProc \in Procs
      /\ None \notin Procs
  BY MultitaskAssumption DEF AllThreads
<1>4. LiveThreads(KProc) = {KInit, Main}
  BY <1>1, <1>2, <1>3 DEF LiveThreads
<1>5. \A p \in Procs : p # KProc => LiveThreads(p) = {}
  BY <1>1, <1>3 DEF LiveThreads
<1>6. IsFiniteSet({KInit, Main}) /\ Cardinality({KInit, Main}) = 2
  <2>1. {KInit, Main} = {KInit} \cup {Main} /\ Main \notin {KInit}
    BY <1>3
  <2>2. IsFiniteSet({KInit}) /\ Cardinality({KInit}) = 1
    BY FS_Singleton
  <2>. QED
    BY <2>1, <2>2, FS_AddElement, SMT
<1>7. LiveThreadsExact
  BY <1>1, <1>3, <1>4, <1>6 DEF LiveThreadsExact
<1>8. \A p \in Procs : IsFiniteSet(LiveThreads(p))
  BY <1>4, <1>5, <1>6, FS_EmptySet
<1>9. ListedIsOf
  <2>. SUFFICES ASSUME NEW p \in Procs, NEW u \in Range(threads[p])
                PROVE  owner[u] = p /\ run_state[u] # "UNUSED"
    BY DEF ListedIsOf
  <2>1. CASE p = KProc
    BY <1>1, <1>2, <1>3, <2>1, SMT DEF Range
  <2>2. CASE p # KProc
    BY <1>1, <2>2, SMT DEF Range
  <2>. QED
    BY <2>1, <2>2
<1>10. LifeInv
  BY <1>1, <1>2, <1>3, <1>7, <1>8, <1>9 DEF LifeInv, Alive
<1>11. Users = {} /\ Loading = {}
  BY <1>1, <1>3, ProcessesAssumption DEF Users, Loading
<1>12. SpacesExact /\ LoadInv /\ RootInv
  BY <1>1, <1>3, <1>11 DEF SpacesExact, LoadInv, RootInv
<1>. QED
  BY <1>1, <1>10, <1>11, <1>12, FS_EmptySet, FS_Singleton DEF SpaceInv

\* A thread that makes a call lives, in a process that exists.
LEMMA CallerFacts ==
  ASSUME Counted, NEW t \in Threads, t = curr_proc, pc[t] = "user"
  PROVE  /\ run_state[t] = "RUNNING" /\ Alive(t)
         /\ owner[t] \in Procs /\ owner[t] \in procs
         /\ \A u \in Loading : owner[u] # owner[t]
<1>1. run_state[t] = "RUNNING"
  BY CallerIsRunning DEF Counted, IInv, SleepPoints
<1>2. Alive(t) /\ owner[t] \in procs /\ owner[t] \in Procs
  BY <1>1, Types DEF Counted, LifeInv, Alive
<1>3. \A u \in Loading : owner[u] # owner[t]
  BY <1>2, OnlyThread, Types DEF Counted, SpaceInv, LoadInv, Loading
<1>. QED
  BY <1>1, <1>2, <1>3

\* fork, clone and the creation of threads keep them,
LEMMA CreateLifeSpace ==
  ASSUME Counted, NEW t \in Threads,
         \/ PROC_create_kthread(t) \/ PROC_create_uthread(t)
         \/ Fork(t) \/ CloneThread(t)
  PROVE  LifeInv' /\ SpaceInv'
<1>1. IInv /\ LifeInv /\ SpaceInv
  BY DEF Counted
<1>2. t = curr_proc /\ pc[t] = "user"
  BY DEF PROC_create_kthread, PROC_create_uthread, Fork, CloneThread,
     CallsInto, At
<1>3. /\ owner[t] \in Procs /\ owner[t] \in procs
      /\ \A u \in Loading : owner[u] # owner[t]
  BY <1>2, CallerFacts
<1>4. CASE PROC_create_kthread(t)
  <2>1. PICK u \in Threads : LinkAndAdmit(u, KProc)
    BY <1>4 DEF PROC_create_kthread
  <2>2. UNCHANGED <<image, pc, procs, zombie, cr3, spaces>>
    BY <1>4 DEF PROC_create_kthread
  <2>3. /\ KProc \in Procs /\ KProc \in procs \ zombie
        /\ \A u2 \in Loading : owner[u2] # KProc
    BY <1>1, Types DEF LifeInv, SpaceInv, LoadInv, Loading
  <2>4. procs' = procs \cup {KProc}
    BY <2>2, <2>3
  <2>. QED
    BY <1>1, <2>1, <2>2, <2>3, <2>4, LinkLife, NewThreadSpace
<1>5. CASE CloneThread(t)
  <2>1. PICK u \in Threads : LinkAndAdmit(u, owner[t])
    BY <1>5 DEF CloneThread
  <2>2. UNCHANGED <<image, pc, procs, zombie, cr3, spaces>>
    BY <1>5 DEF CloneThread
  <2>3. owner[t] \notin zombie
    BY <1>1, <1>5 DEF CloneThread, InUserSpace, SpaceInv, RootInv
  <2>4. procs' = procs \cup {owner[t]}
    BY <1>3, <2>2
  <2>. QED
    BY <1>1, <1>3, <2>1, <2>2, <2>3, <2>4, LinkLife, NewThreadSpace
<1>6. CASE PROC_create_uthread(t) \/ Fork(t)
  <2>1. PICK u \in Threads, p \in Procs, s \in Spaces :
          LinkAndAdmit(u, p) /\ LinkProcess(p, owner[t], s)
    BY <1>6 DEF PROC_create_uthread, Fork
  <2>2. UNCHANGED <<image, pc, zombie>>
    BY <1>6 DEF PROC_create_uthread, Fork
  <2>3. procs' = procs \cup {p} /\ p \notin zombie
    BY <1>1, <2>1 DEF LinkProcess, LifeInv
  <2>. QED
    BY <1>1, <2>1, <2>2, <2>3, LinkLife, NewProcessSpace
<1>. QED
  BY <1>4, <1>5, <1>6

\* exec does,
LEMMA ExecLifeSpace ==
  ASSUME Counted, NEW t \in Threads, Exec(t) \/ ExecFail(t) \/ ExecSwitch(t)
  PROVE  LifeInv' /\ SpaceInv'
<1>1. UNCHANGED <<run_state, owner, zombie, procs, threads, live_threads>>
  BY DEF Exec, ExecFail, ExecSwitch
<1>2. \A p : LiveThreads(p)' = LiveThreads(p)
  BY <1>1 DEF LiveThreads
<1>3. LifeInv'
  BY <1>1, <1>2 DEF Counted, LifeInv, LiveThreadsExact, ListedIsOf, Alive
<1>. QED
  BY <1>3, ExecSpace, ExecFailSpace, ExecSwitchSpace DEF Counted

\* exit does,
LEMMA ExitProcessLifeSpace ==
  ASSUME Counted, NEW t \in Threads, ExitProcess(t)
  PROVE  LifeInv' /\ SpaceInv'
<1>1. IInv /\ LifeInv /\ SpaceInv
  BY DEF Counted
<1>2. PICK p \in Procs : p = owner[t] /\ p \in procs
  BY CallerFacts DEF ExitProcess, CallsInto, At
<1>3. /\ t = curr_proc /\ pc[t] = "user" /\ p # KProc
      /\ live_threads' = [live_threads EXCEPT ![p] = 0]
      /\ Teardown(p)
      /\ UNCHANGED <<owner, procs, threads, image, pc>>
  BY <1>2 DEF ExitProcess, CallsInto, At
<1>4. Die(core, core', Range(threads[p]))
  BY <1>1, <1>2, ExitProcessDies
<1>5. /\ \A u \in Range(threads[p]) : owner[u] = p
      /\ \A u \in Range(threads[p]) : run_state[u] # "UNUSED"
  BY <1>1 DEF LifeInv, ListedIsOf
<1>6. zombie' = zombie \cup {p}
  BY <1>3 DEF Teardown
<1>7. LifeInv'
  BY <1>1, <1>2, <1>3, <1>4, <1>5, <1>6, ProcessDiesLife
<1>8. LoadInv'
  <2>1. CountsKept(p)
    BY <1>1, <1>3, Types DEF CountsKept
  <2>. QED
    BY <1>1, <1>2, <1>3, <1>4, <1>5, <2>1, DieLoad
<1>9. SpaceInv'
  BY <1>1, <1>2, <1>3, <1>8, TeardownSpace
<1>. QED
  BY <1>7, <1>9

\* The number of threads left when one exits.
LEMMA OneThreadLessIs ==
  ASSUME Counted, NEW t \in Threads, t = curr_proc, pc[t] = "user",
         NEW p \in Procs, p = owner[t]
  PROVE  /\ p \in zombie => OneThreadLess(p) = 0
         /\ p \notin zombie => /\ live_threads[p] > 0
                               /\ OneThreadLess(p) = live_threads[p] - 1
         /\ p = KProc => OneThreadLess(p) # 0
<1>1. run_state[t] = "RUNNING" /\ p \in procs
  BY CallerFacts
<1>2. live_threads[p] \in Nat
  BY Types DEF Counted
<1>3. CASE p \in zombie
  <2>1. live_threads[p] = 0 /\ p # KProc
    BY <1>3 DEF Counted, LifeInv
  <2>. QED
    BY <1>3, <2>1, SMT DEF OneThreadLess
<1>4. CASE p \notin zombie
  <2>1. t \in LiveThreads(p)
    BY <1>1, Types DEF LiveThreads, Counted
  <2>2. IsFiniteSet(LiveThreads(p)) /\ live_threads[p] = Cardinality(LiveThreads(p))
    BY <1>1, <1>4 DEF Counted, LifeInv, LiveThreadsExact
  <2>3. live_threads[p] # 0
    BY <2>1, <2>2, FS_EmptySet
  <2>4. p = KProc => live_threads[p] # 1
    <3>. SUFFICES ASSUME p = KProc, live_threads[p] = 1 PROVE FALSE
      OBVIOUS
    <3>1. Main \in LiveThreads(p) /\ Main # t
      BY Types DEF Counted, LifeInv, LiveThreads, Alive
    <3>2. PICK x : LiveThreads(p) = {x}
      BY <2>2, FS_Singleton
    <3>. QED
      BY <2>1, <3>1, <3>2
  <2>. QED
    BY <1>2, <1>4, <2>3, <2>4, SMT DEF OneThreadLess
<1>. QED
  BY <1>3, <1>4

\* and so does thread_exit.
LEMMA ExitThreadLifeSpace ==
  ASSUME Counted, NEW t \in Threads, ExitThread(t)
  PROVE  LifeInv' /\ SpaceInv'
<1>1. IInv /\ LifeInv /\ SpaceInv
  BY DEF Counted
<1>2. PICK p \in Procs : p = owner[t] /\ p \in procs /\ run_state[t] = "RUNNING"
  BY CallerFacts DEF ExitThread, CallsInto, At
<1>. DEFINE n == OneThreadLess(p)
<1>3. /\ t = curr_proc /\ pc[t] = "user"
      /\ live_threads' = [live_threads EXCEPT ![p] = n]
      /\ IF n = 0 THEN Teardown(p)
         ELSE UNCHANGED <<zombie, parent, mutex_list, cr3, spaces>>
      /\ UNCHANGED <<owner, procs, threads, image, pc>>
  BY <1>2 DEF ExitThread, CallsInto, At
<1>4. PICK S : S = {t} /\ Die(core, core', S)
  BY <1>1, ExitThreadDies
<1>5. /\ p \in zombie => n = 0
      /\ p \notin zombie => live_threads[p] > 0 /\ n = live_threads[p] - 1
      /\ p = KProc => n # 0
  BY <1>2, <1>3, OneThreadLessIs
<1>. HIDE DEF n
<1>6. /\ \A u \in S : owner[u] = p
      /\ \A u \in S : run_state[u] # "UNUSED"
  BY <1>2, <1>4
<1>7. LoadInv'
  <2>1. CountsKept(p)
    BY <1>1, <1>3, Types DEF CountsKept
  <2>. QED
    BY <1>1, <1>2, <1>3, <1>4, <1>6, <2>1, DieLoad
<1>8. CASE n = 0
  <2>1. Teardown(p) /\ zombie' = zombie \cup {p} /\ p # KProc
    BY <1>3, <1>5, <1>8 DEF Teardown
  <2>2. /\ live_threads' = [live_threads EXCEPT ![p] = 0]
        /\ UNCHANGED <<owner, procs, threads>>
        /\ UNCHANGED <<procs, image>>
    BY <1>3, <1>8
  <2>3. LifeInv'
    BY <1>1, <1>2, <1>4, <1>6, <2>1, <2>2, ProcessDiesLife
  <2>. QED
    BY <1>1, <1>2, <1>7, <2>1, <2>2, <2>3, TeardownSpace
<1>9. CASE n # 0
  <2>1. UNCHANGED <<zombie, cr3, spaces>> /\ p \notin zombie
    BY <1>3, <1>5, <1>9
  <2>2. live_threads' = [live_threads EXCEPT ![p] = @ - 1]
    BY <1>3, <1>5, <2>1
  <2>3. LifeInv'
    BY <1>1, <1>2, <1>3, <1>4, <2>1, <2>2, ThreadDiesLife
  <2>4. Users' = Users /\ Loading' = Loading
    BY <1>3, <2>1 DEF Users, Loading
  <2>5. SpaceInv'
    BY <1>1, <1>3, <1>7, <2>1, <2>4 DEF SpaceInv, SpacesExact, RootInv
  <2>. QED
    BY <2>3, <2>5
<1>. QED
  BY <1>8, <1>9

\* Every kind of step keeps both.
LEMMA StepLifeSpace ==
  ASSUME Counted, [Next]_vars
  PROVE  LifeInv' /\ SpaceInv'
<1>1. IInv /\ LifeInv /\ SpaceInv
  BY DEF Counted
<1>2. CASE Calm
  BY <1>1, <1>2, CalmLife, CalmSpace
<1>. QED
  BY <1>1, <1>2, StepKinds, LeastNumberHolds, CreateLifeSpace, ExecLifeSpace,
     ExitProcessLifeSpace, ExitThreadLifeSpace

\* The invariants tell PROC_exit_current_thread who is the last thread.
LEMMA LastThreadIs ==
  ASSUME Counted
  PROVE  LastThread
<1>. SUFFICES ASSUME NEW t \in Threads, NEW p \in Procs,
                     t = curr_proc, pc[t] = "user", p = owner[t]
              PROVE  /\ p \notin zombie =>
                          /\ live_threads[p] > 0
                          /\ OneThreadLess(p) = live_threads[p] - 1
                          /\ live_threads[p] = 1 => LiveThreads(p) = {t}
                     /\ p = KProc => OneThreadLess(p) # 0
  BY DEF LastThread
<1>1. ASSUME p \notin zombie, live_threads[p] = 1
      PROVE  LiveThreads(p) = {t}
  <2>1. t \in LiveThreads(p)
    BY CallerFacts, Types DEF LiveThreads, Counted
  <2>2. IsFiniteSet(LiveThreads(p)) /\ Cardinality(LiveThreads(p)) = 1
    BY <1>1, CallerFacts DEF Counted, LifeInv, LiveThreadsExact
  <2>3. PICK x : LiveThreads(p) = {x}
    BY <2>2, FS_Singleton
  <2>. QED
    BY <2>1, <2>3
<1>. QED
  BY <1>1, OneThreadLessIs

(***************************************************************************)
(* The invariants hold in every reachable state, for every program.        *)
(***************************************************************************)
THEOREM LifeInvariance == Spec => []LifeSpace
<1>1. Init => Counted
  BY InitIInv, InitLifeSpace DEF Counted
<1>2. Counted /\ [Next]_vars => Counted'
  BY StepLifeSpace, NextIInv, LeastNumberHolds DEF Counted
<1>3. Counted => LifeSpace
  BY LastThreadIs DEF Counted, LifeSpace
<1>. QED
  BY <1>1, <1>2, <1>3, PTL DEF Spec

(***************************************************************************)
(* live_threads is exact, for every number of processes and threads and    *)
(* every interleaving of create, fork, clone, exec, exit and thread_exit:  *)
(* fork and exec, which require it to be 1, never copy or replace an       *)
(* address space under a second thread, and process_teardown is run by the *)
(* last thread and no earlier (PROC_link_thread,                           *)
(* PROC_exit_current_thread).                                              *)
(***************************************************************************)
THEOREM LiveThreadsCorrect == Spec => []LiveThreadsExact
<1>1. LifeSpace => LiveThreadsExact
  BY DEF LifeSpace, LifeInv
<1>. QED
  BY <1>1, LifeInvariance, PTL

(***************************************************************************)
(* Address spaces are conserved, for every program: fork, exec (whether it *)
(* loads or fails, and whatever the others do meanwhile) and exit neither  *)
(* leak a page-table root nor let two processes share one (clone_process,  *)
(* syscall_exec, process_teardown).                                        *)
(***************************************************************************)
THEOREM SpacesCorrect == Spec => []SpacesConserved
<1>1. LifeSpace => SpacesConserved
  BY SpacesCount DEF LifeSpace
<1>. QED
  BY <1>1, LifeInvariance, PTL

=============================================================================
