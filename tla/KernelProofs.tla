---------------------------- MODULE KernelProofs ----------------------------
(***************************************************************************)
(* The inductive invariant IInv of Kernel and that every action preserves  *)
(* it, for every number of threads, processes, mutexes and address spaces  *)
(* and every program the threads may run.                                  *)
(*                                                                         *)
(* First, what the primitives of Multitask preserve, as facts about the    *)
(* record they transform; then that every action preserves the part of     *)
(* IInv that is about scheduling, SchedInv, and what the primitives do to  *)
(* the queues; then that every action preserves the rest, DataInv; last,   *)
(* who lives and who dies at each step.  ProcessProofs and ThreadProofs    *)
(* draw the theorems from it.                                              *)
(*                                                                         *)
(* PROC_unblock_one takes the first thread of a queue that it may wake, so *)
(* the lemmas about it rest on LeastNumber: a set of numbers that is not   *)
(* empty has a least element.  ProcessProofs proves it, where induction    *)
(* over the naturals is at hand, and discharges it.                        *)
(***************************************************************************)
EXTENDS Kernel, TLAPS

USE Zenon

-----------------------------------------------------------------------------
(***************************************************************************)
(* The invariant of the scheduling state, as a predicate of a core record, *)
(* of the owners of the threads and of the processes that have exited.     *)
(***************************************************************************)
CoreTyped(c) ==
  c \in [run_state : [AllThreads -> RunStates], pool : SUBSET Threads,
         queue : [Queues -> Seq(Threads)]]

PoolExact(c) ==
  \A t \in Threads : t \in c.pool <=> c.run_state[t] \in {"READY", "RUNNING"}

UsedIsOwned(c, own) ==
  \A t \in AllThreads : c.run_state[t] # "UNUSED" => own[t] \in Procs

BlockedIsQueued(c, own, gone) ==
  \A t \in Threads : c.run_state[t] = "BLOCKED" /\ own[t] \notin gone =>
    \E q \in Queues : \E i \in 1..Len(c.queue[q]) : c.queue[q][i] = t

QueuedIsAsleep(c) ==
  \A q \in Queues : \A i \in 1..Len(c.queue[q]) :
    c.run_state[c.queue[q][i]] \in {"BLOCKED", "ZOMBIE"}

QueuedOnce(c) ==
  \A q, r \in Queues :
    \A i \in 1..Len(c.queue[q]), j \in 1..Len(c.queue[r]) :
      c.queue[q][i] = c.queue[r][j] => q = r /\ i = j

CoreInv(c, own, gone) ==
  /\ CoreTyped(c)
  /\ PoolExact(c)
  /\ UsedIsOwned(c, own)
  /\ BlockedIsQueued(c, own, gone)
  /\ QueuedIsAsleep(c)
  /\ QueuedOnce(c)

\* The dead of c are dead in d.
DeadKept(c, d) ==
  \A t \in AllThreads : c.run_state[t] = "ZOMBIE" => d.run_state[t] = "ZOMBIE"

\* From c to d some BLOCKED threads become READY.
OnlyWoken(c, d) ==
  \A t \in AllThreads :
    \/ d.run_state[t] = c.run_state[t]
    \/ c.run_state[t] = "BLOCKED" /\ d.run_state[t] = "READY"

-----------------------------------------------------------------------------
(***************************************************************************)
(* What Append, concatenation and SubSeq return.                           *)
(***************************************************************************)
LEMMA Appended ==
  ASSUME NEW S, NEW s \in Seq(S), NEW e \in S
  PROVE  /\ Append(s, e) \in Seq(S) /\ Len(Append(s, e)) = Len(s) + 1
         /\ \A i \in 1..Len(s) : Append(s, e)[i] = s[i]
         /\ Append(s, e)[Len(s) + 1] = e
BY SMT

LEMMA Concatenated ==
  ASSUME NEW S, NEW s \in Seq(S), NEW r \in Seq(S)
  PROVE  /\ s \o r \in Seq(S) /\ Len(s \o r) = Len(s) + Len(r)
         /\ \A i \in 1..(Len(s) + Len(r)) :
              (s \o r)[i] = IF i <= Len(s) THEN s[i] ELSE r[i - Len(s)]
BY SMT

LEMMA PartOf ==
  ASSUME NEW S, NEW s, NEW m \in Int, NEW n \in Int, \A i \in m..n : s[i] \in S
  PROVE  /\ SubSeq(s, m, n) \in Seq(S)
         /\ Len(SubSeq(s, m, n)) = IF m <= n THEN n - m + 1 ELSE 0
         /\ \A i \in 1..(n - m + 1) : SubSeq(s, m, n)[i] = s[m + i - 1]
BY SMT

-----------------------------------------------------------------------------
(***************************************************************************)
(* A thread that is found at two places of the queues is found at one.     *)
(***************************************************************************)
LEMMA OnePlace ==
  ASSUME NEW c, QueuedOnce(c), NEW q \in Queues, NEW r \in Queues,
         NEW i \in 1..Len(c.queue[q]), NEW j \in 1..Len(c.queue[r]),
         c.queue[q][i] = c.queue[r][j]
  PROVE  q = r /\ i = j
BY DEF QueuedOnce

(***************************************************************************)
(* A set of numbers that is not empty has a least element.                 *)
(***************************************************************************)
LeastNumber ==
  \A S \in SUBSET Nat : S # {} => \E i \in S : \A j \in S : i <= j

(***************************************************************************)
(* FirstOf returns the least element of a set of positions.                *)
(***************************************************************************)
LEMMA FirstOfIsLeast ==
  ASSUME LeastNumber, NEW S \in SUBSET Nat, S # {}
  PROVE  FirstOf(S) \in S /\ \A j \in S : FirstOf(S) <= j
<1>1. \E i \in S : \A j \in S : i <= j
  BY DEF LeastNumber
<1>. QED
  BY <1>1 DEF FirstOf

(***************************************************************************)
(* PROC_block_on keeps the invariant when it is called by a thread that is *)
(* in the pool.                                                            *)
(***************************************************************************)
LEMMA BlockedOnKeeps ==
  ASSUME NEW c, NEW own, NEW gone, CoreInv(c, own, gone),
         NEW t \in Threads, c.run_state[t] \in {"READY", "RUNNING"},
         NEW q \in Queues
  PROVE  CoreInv(BlockedOn(c, t, q), own, gone) /\ DeadKept(c, BlockedOn(c, t, q))
<1>. DEFINE d == BlockedOn(c, t, q)
            n == Len(c.queue[q])
<1>. t \in AllThreads
  BY DEF AllThreads
<1>1. t \in c.pool
  BY DEF CoreInv, PoolExact
<1>2. Removed(c.pool, t) = c.pool \ {t}
  BY <1>1 DEF Removed
<1>3. c.queue[q] \in Seq(Threads) /\ n \in Nat
  BY SMT DEF CoreInv, CoreTyped
<1>4. /\ d.run_state = [c.run_state EXCEPT ![t] = "BLOCKED"]
      /\ d.pool = c.pool \ {t}
      /\ d.queue = [c.queue EXCEPT ![q] = Append(@, t)]
      /\ d = [run_state |-> d.run_state, pool |-> d.pool, queue |-> d.queue]
  BY <1>2 DEF BlockedOn
<1>. HIDE DEF d
<1>5. /\ Len(d.queue[q]) = n + 1
      /\ d.queue[q][n + 1] = t
      /\ \A i \in 1..n : d.queue[q][i] = c.queue[q][i]
      /\ \A r \in Queues : r # q => d.queue[r] = c.queue[r]
  BY <1>3, <1>4, Appended, SMT DEF CoreInv, CoreTyped
<1>6. \A r \in Queues : Len(c.queue[r]) \in Nat
  BY SMT DEF CoreInv, CoreTyped
<1>7. \A r \in Queues : \A i \in 1..Len(c.queue[r]) :
        c.queue[r][i] \in AllThreads /\ c.queue[r][i] # t
  BY <1>6, SMT DEF CoreInv, CoreTyped, QueuedIsAsleep, AllThreads
<1>8. CoreTyped(d)
  <2>1. d.run_state \in [AllThreads -> RunStates] /\ d.pool \in SUBSET Threads
    BY <1>4 DEF CoreInv, CoreTyped, RunStates
  <2>2. d.queue \in [Queues -> Seq(Threads)]
    BY <1>3, <1>4, Appended, SMT DEF CoreInv, CoreTyped
  <2>. QED
    BY <1>4, <2>1, <2>2 DEF CoreTyped
<1>9. PoolExact(d)
  BY <1>4 DEF CoreInv, PoolExact, CoreTyped, AllThreads
<1>10. UsedIsOwned(d, own)
  BY <1>4 DEF CoreInv, UsedIsOwned, CoreTyped
<1>11. BlockedIsQueued(d, own, gone)
  <2>. SUFFICES ASSUME NEW u \in Threads, d.run_state[u] = "BLOCKED",
                       own[u] \notin gone
                PROVE  \E r \in Queues : \E i \in 1..Len(d.queue[r]) :
                         d.queue[r][i] = u
    BY DEF BlockedIsQueued
  <2>1. CASE u = t
    BY <2>1, <1>3, <1>5, SMT
  <2>2. CASE u # t
    <3>1. PICK r \in Queues : \E i \in 1..Len(c.queue[r]) : c.queue[r][i] = u
      BY <2>2, <1>4 DEF CoreInv, CoreTyped, BlockedIsQueued, AllThreads
    <3>. QED
      BY <3>1, <1>3, <1>5, SMT
  <2>. QED
    BY <2>1, <2>2
<1>12. QueuedIsAsleep(d)
  <2>. SUFFICES ASSUME NEW r \in Queues, NEW i \in 1..Len(d.queue[r])
                PROVE  d.run_state[d.queue[r][i]] \in {"BLOCKED", "ZOMBIE"}
    BY DEF QueuedIsAsleep
  <2>1. CASE r = q /\ i = n + 1
    BY <2>1, <1>4, <1>5 DEF CoreInv, CoreTyped
  <2>2. CASE ~(r = q /\ i = n + 1)
    <3>1. i \in 1..Len(c.queue[r]) /\ d.queue[r][i] = c.queue[r][i]
      BY <2>2, <1>3, <1>5, <1>6, SMT
    <3>. QED
      BY <3>1, <1>4, <1>7, SMT DEF CoreInv, CoreTyped, QueuedIsAsleep
  <2>. QED
    BY <2>1, <2>2
<1>13. QueuedOnce(d)
  <2>. SUFFICES ASSUME NEW r \in Queues, NEW s \in Queues,
                       NEW i \in 1..Len(d.queue[r]), NEW j \in 1..Len(d.queue[s]),
                       d.queue[r][i] = d.queue[s][j]
                PROVE  r = s /\ i = j
    BY DEF QueuedOnce
  <2>1. \A x \in Queues : \A l \in 1..Len(d.queue[x]) :
          \/ x = q /\ l = n + 1 /\ d.queue[x][l] = t
          \/ l \in 1..Len(c.queue[x]) /\ d.queue[x][l] = c.queue[x][l]
    <3>. TAKE x \in Queues
    <3>1. CASE x = q
      <4>1. Len(d.queue[x]) = n + 1 /\ n = Len(c.queue[x])
        BY <3>1, <1>5
      <4>2. n \in Nat
        BY <1>3
      <4>. TAKE l \in 1..Len(d.queue[x])
      <4>3. l = n + 1 \/ l \in 1..n
        BY <4>1, <4>2, SMT
      <4>. QED
        BY <3>1, <4>1, <4>3, <1>5
    <3>2. CASE x # q
      BY <3>2, <1>5
    <3>. QED
      BY <3>1, <3>2
  <2>2. CASE r = q /\ i = n + 1 /\ d.queue[r][i] = t
    BY <2>1, <2>2, <1>7, SMTT(30)
  <2>3. CASE i \in 1..Len(c.queue[r]) /\ d.queue[r][i] = c.queue[r][i]
    <3>1. d.queue[s][j] # t
      BY <2>3, <1>7
    <3>2. j \in 1..Len(c.queue[s]) /\ d.queue[s][j] = c.queue[s][j]
      BY <2>1, <3>1
    <3>3. c.queue[r][i] = c.queue[s][j]
      BY <2>3, <3>2
    <3>4. QueuedOnce(c)
      BY DEF CoreInv
    <3>. QED
      BY <2>3, <3>2, <3>3, <3>4, OnePlace, SMT
  <2>. QED
    BY <2>1, <2>2, <2>3
<1>14. DeadKept(c, d)
  BY <1>4 DEF DeadKept, CoreInv, CoreTyped
<1>. QED
  BY <1>8, <1>9, <1>10, <1>11, <1>12, <1>13, <1>14 DEF CoreInv, d

(***************************************************************************)
(* What the wake-ups of multitask.c have in common: the queues lose a part *)
(* at their front; of the threads that leave them those in woken become    *)
(* READY, and the others are dead or of a process that has exited.         *)
(***************************************************************************)
WakesUp(c, d, own, gone, woken, shift) ==
  /\ woken \in SUBSET Threads
  /\ shift \in [Queues -> Nat]
  /\ d = [run_state |-> [t \in AllThreads |->
                           IF t \in woken THEN "READY" ELSE c.run_state[t]],
          pool |-> c.pool \cup woken,
          queue |-> d.queue]
  /\ d.queue \in [Queues -> Seq(Threads)]
  /\ \A q \in Queues : \A i \in 1..Len(d.queue[q]) :
       /\ i + shift[q] \in 1..Len(c.queue[q])
       /\ d.queue[q][i] = c.queue[q][i + shift[q]]
       /\ d.queue[q][i] \notin woken
  /\ \A q \in Queues : \A i \in 1..Len(c.queue[q]) :
       \/ c.queue[q][i] \in woken
       \/ c.run_state[c.queue[q][i]] = "ZOMBIE"
       \/ own[c.queue[q][i]] \in gone
       \/ \E j \in 1..Len(d.queue[q]) : d.queue[q][j] = c.queue[q][i]
  /\ \A t \in woken : c.run_state[t] = "BLOCKED"

\* Waking BLOCKED threads whose queue places go away keeps the invariant.
LEMMA WakeUpKeeps ==
  ASSUME NEW c, NEW d, NEW own, NEW gone, NEW woken, NEW shift,
         CoreInv(c, own, gone), WakesUp(c, d, own, gone, woken, shift)
  PROVE  CoreInv(d, own, gone) /\ DeadKept(c, d) /\ OnlyWoken(c, d)
<1>1. /\ d.run_state = [t \in AllThreads |->
                          IF t \in woken THEN "READY" ELSE c.run_state[t]]
      /\ d.pool = c.pool \cup woken
      /\ d.queue \in [Queues -> Seq(Threads)]
      /\ d = [run_state |-> d.run_state, pool |-> d.pool, queue |-> d.queue]
      /\ woken \in SUBSET Threads
  BY SMT DEF WakesUp
<1>2. /\ c.run_state \in [AllThreads -> RunStates]
      /\ c.pool \in SUBSET Threads
      /\ c.queue \in [Queues -> Seq(Threads)]
      /\ Threads \subseteq AllThreads
  BY DEF CoreInv, CoreTyped, AllThreads
<1>3. \A t \in AllThreads :
        d.run_state[t] = IF t \in woken THEN "READY" ELSE c.run_state[t]
  BY <1>1
<1>4. \A q \in Queues : \A i \in 1..Len(d.queue[q]) :
        d.queue[q][i] \in AllThreads
  BY <1>1, <1>2, SMT
<1>5. CoreTyped(d)
  <2>1. d.run_state \in [AllThreads -> RunStates]
    BY <1>1, <1>2 DEF RunStates
  <2>. QED
    BY <1>1, <1>2, <2>1 DEF CoreTyped
<1>6. PoolExact(d)
  BY <1>1, <1>2, <1>3 DEF CoreInv, PoolExact
<1>7. UsedIsOwned(d, own)
  <2>. SUFFICES ASSUME NEW t \in AllThreads, d.run_state[t] # "UNUSED"
                PROVE  own[t] \in Procs
    BY DEF UsedIsOwned
  <2>1. c.run_state[t] # "UNUSED"
    BY <1>3 DEF WakesUp
  <2>. QED
    BY <2>1 DEF CoreInv, UsedIsOwned
<1>8. BlockedIsQueued(d, own, gone)
  <2>. SUFFICES ASSUME NEW t \in Threads, d.run_state[t] = "BLOCKED",
                       own[t] \notin gone
                PROVE  \E q \in Queues : \E i \in 1..Len(d.queue[q]) :
                         d.queue[q][i] = t
    BY DEF BlockedIsQueued
  <2>1. t \notin woken /\ c.run_state[t] = "BLOCKED"
    BY <1>2, <1>3
  <2>2. PICK q \in Queues : \E i \in 1..Len(c.queue[q]) : c.queue[q][i] = t
    BY <2>1 DEF CoreInv, BlockedIsQueued
  <2>3. PICK i \in 1..Len(c.queue[q]) : c.queue[q][i] = t
    BY <2>2
  <2>4. \E j \in 1..Len(d.queue[q]) : d.queue[q][j] = t
    BY <2>1, <2>3 DEF WakesUp
  <2>. QED
    BY <2>4
<1>9. QueuedIsAsleep(d)
  <2>. SUFFICES ASSUME NEW q \in Queues, NEW i \in 1..Len(d.queue[q])
                PROVE  d.run_state[d.queue[q][i]] \in {"BLOCKED", "ZOMBIE"}
    BY DEF QueuedIsAsleep
  <2>1. c.run_state[c.queue[q][i + shift[q]]] \in {"BLOCKED", "ZOMBIE"}
    BY DEF CoreInv, QueuedIsAsleep, WakesUp
  <2>2. /\ d.queue[q][i] \notin woken
        /\ d.queue[q][i] = c.queue[q][i + shift[q]]
    BY DEF WakesUp
  <2>. QED
    BY <1>3, <1>4, <2>1, <2>2
<1>10. QueuedOnce(d)
  <2>. SUFFICES ASSUME NEW q \in Queues, NEW r \in Queues,
                       NEW i \in 1..Len(d.queue[q]), NEW j \in 1..Len(d.queue[r]),
                       d.queue[q][i] = d.queue[r][j]
                PROVE  q = r /\ i = j
    BY DEF QueuedOnce
  <2>1. QueuedOnce(c)
    BY DEF CoreInv
  <2>2. PICK k \in 1..Len(c.queue[q]) :
          k = i + shift[q] /\ c.queue[q][k] = d.queue[q][i]
    BY DEF WakesUp
  <2>3. PICK l \in 1..Len(c.queue[r]) :
          l = j + shift[r] /\ c.queue[r][l] = d.queue[r][j]
    BY DEF WakesUp
  <2>4. c.queue[q][k] = c.queue[r][l]
    BY <2>2, <2>3
  <2>5. q = r /\ k = l
    BY <2>1, <2>4, OnePlace, SMT
  <2>6. i \in Int /\ j \in Int /\ shift[q] \in Int
    BY SMT DEF WakesUp
  <2>. QED
    BY <2>2, <2>3, <2>5, <2>6, SMT
<1>11. DeadKept(c, d) /\ OnlyWoken(c, d)
  BY <1>2, <1>3 DEF DeadKept, OnlyWoken, WakesUp
<1>. QED
  BY <1>5, <1>6, <1>7, <1>8, <1>9, <1>10, <1>11 DEF CoreInv

(***************************************************************************)
(* The positions that PROC_unblock_one does not skip hold threads that are *)
(* BLOCKED; those it skips hold the dead, or threads of exited processes.  *)
(***************************************************************************)
LEMMA WakeableIsBlocked ==
  ASSUME NEW c, NEW gone, CoreInv(c, owner, gone), NEW q \in Queues
  PROVE  /\ Wakeable(c, q, gone) \in SUBSET (1..Len(c.queue[q]))
         /\ \A i \in Wakeable(c, q, gone) :
              c.queue[q][i] \in Threads /\ c.run_state[c.queue[q][i]] = "BLOCKED"
         /\ \A i \in 1..Len(c.queue[q]) : i \notin Wakeable(c, q, gone) =>
              \/ c.run_state[c.queue[q][i]] = "ZOMBIE"
              \/ owner[c.queue[q][i]] \in gone
<1>1. c.queue[q] \in Seq(Threads)
  BY DEF CoreInv, CoreTyped
<1>2. DOMAIN c.queue[q] = 1..Len(c.queue[q])
  BY <1>1, SMT
<1>. QED
  BY <1>1, <1>2, SMT DEF Wakeable, CoreInv, QueuedIsAsleep

(***************************************************************************)
(* PROC_unblock_one keeps the invariant.                                   *)
(***************************************************************************)
LEMMA UnblockOneKeeps ==
  ASSUME LeastNumber, NEW c, NEW gone, CoreInv(c, owner, gone), NEW q \in Queues
  PROVE  /\ CoreInv(UnblockOne(c, q, gone), owner, gone)
         /\ DeadKept(c, UnblockOne(c, q, gone))
         /\ OnlyWoken(c, UnblockOne(c, q, gone))
<1>. DEFINE d == UnblockOne(c, q, gone)
            s == c.queue[q]
            W == Wakeable(c, q, gone)
<1>1. /\ c.run_state \in [AllThreads -> RunStates]
      /\ c.queue \in [Queues -> Seq(Threads)]
      /\ c.pool = c.pool \cup {}
      /\ s \in Seq(Threads)
  BY DEF CoreInv, CoreTyped
<1>2. CASE W = {}
  <2>. DEFINE shift == [r \in Queues |-> 0]
  <2>1. d = [run_state |-> c.run_state, pool |-> c.pool,
             queue |-> [c.queue EXCEPT ![q] = <<>>]]
    BY <1>2 DEF UnblockOne
  <2>. HIDE DEF d
  <2>2. /\ d.queue \in [Queues -> Seq(Threads)]
        /\ d.queue[q] = <<>> /\ Len(d.queue[q]) = 0
        /\ \A r \in Queues : r # q => d.queue[r] = c.queue[r]
    BY <1>1, <2>1, SMT
  <2>3. d = [run_state |-> [t \in AllThreads |->
                              IF t \in {} THEN "READY" ELSE c.run_state[t]],
             pool |-> c.pool \cup {}, queue |-> d.queue]
    BY <1>1, <2>1
  <2>4. \A r \in Queues : \A i \in 1..Len(d.queue[r]) :
          /\ i + shift[r] \in 1..Len(c.queue[r])
          /\ d.queue[r][i] = c.queue[r][i + shift[r]]
    <3>. TAKE r \in Queues
    <3>. TAKE i \in 1..Len(d.queue[r])
    <3>1. r # q /\ d.queue[r] = c.queue[r] /\ i \in 1..Len(c.queue[r])
      BY <2>2, SMT
    <3>. QED
      BY <1>1, <3>1, SMT
  <2>5. \A r \in Queues : \A i \in 1..Len(c.queue[r]) :
          \/ c.run_state[c.queue[r][i]] = "ZOMBIE"
          \/ owner[c.queue[r][i]] \in gone
          \/ \E j \in 1..Len(d.queue[r]) : d.queue[r][j] = c.queue[r][i]
    <3>. TAKE r \in Queues
    <3>. TAKE i \in 1..Len(c.queue[r])
    <3>1. CASE r = q
      BY <3>1, <1>2, WakeableIsBlocked
    <3>2. CASE r # q
      BY <3>2, <2>2
    <3>. QED
      BY <3>1, <3>2
  <2>6. WakesUp(c, d, owner, gone, {}, shift)
    BY <2>2, <2>3, <2>4, <2>5, SMT DEF WakesUp
  <2>. QED
    BY <2>6, WakeUpKeeps DEF d
<1>3. CASE W # {}
  <2>. DEFINE i0 == FirstOf(W)
              shift == [r \in Queues |-> IF r = q THEN i0 ELSE 0]
              woken == {s[i0]}
  <2>1. /\ i0 \in W /\ i0 \in 1..Len(s) /\ i0 \in Nat
        /\ \A j \in W : i0 <= j
        /\ s[i0] \in Threads /\ c.run_state[s[i0]] = "BLOCKED"
    <3>1. W \in SUBSET Nat
      BY <1>1, WakeableIsBlocked, SMT
    <3>2. i0 \in W /\ \A j \in W : i0 <= j
      BY <1>3, <3>1, FirstOfIsLeast
    <3>. QED
      BY <1>1, <3>1, <3>2, WakeableIsBlocked, SMT
  <2>2. d = [run_state |-> [c.run_state EXCEPT ![s[i0]] = "READY"],
             pool |-> c.pool \cup {s[i0]},
             queue |-> [c.queue EXCEPT ![q] = SubSeq(s, i0 + 1, Len(s))]]
    BY <1>3 DEF UnblockOne
  <2>. HIDE DEF d, i0, W
  <2>3. /\ SubSeq(s, i0 + 1, Len(s)) \in Seq(Threads)
        /\ Len(SubSeq(s, i0 + 1, Len(s))) = Len(s) - i0
        /\ \A i \in 1..(Len(s) - i0) : SubSeq(s, i0 + 1, Len(s))[i] = s[i + i0]
    BY <1>1, <2>1, PartOf, SMT
  <2>4. /\ d.queue \in [Queues -> Seq(Threads)]
        /\ Len(d.queue[q]) = Len(s) - i0
        /\ \A i \in 1..(Len(s) - i0) : d.queue[q][i] = s[i + i0]
        /\ \A r \in Queues : r # q => d.queue[r] = c.queue[r]
    BY <1>1, <2>2, <2>3
  <2>5. d = [run_state |-> [t \in AllThreads |->
                              IF t \in woken THEN "READY" ELSE c.run_state[t]],
             pool |-> c.pool \cup woken, queue |-> d.queue]
    <3>1. [c.run_state EXCEPT ![s[i0]] = "READY"] =
            [t \in AllThreads |-> IF t \in woken THEN "READY" ELSE c.run_state[t]]
      BY <1>1
    <3>. QED
      BY <2>2, <3>1
  <2>6. \A r \in Queues : \A i \in 1..Len(d.queue[r]) :
          /\ i + shift[r] \in 1..Len(c.queue[r])
          /\ d.queue[r][i] = c.queue[r][i + shift[r]]
          /\ d.queue[r][i] \notin woken
    <3>. TAKE r \in Queues
    <3>. TAKE i \in 1..Len(d.queue[r])
    <3>1. /\ i + shift[r] \in 1..Len(c.queue[r])
          /\ d.queue[r][i] = c.queue[r][i + shift[r]]
          /\ r = q => i + shift[r] # i0
      <4>1. CASE r = q
        BY <4>1, <1>1, <2>1, <2>4, SMT
      <4>2. CASE r # q
        BY <4>2, <1>1, <2>4, SMT
      <4>. QED
        BY <4>1, <4>2
    <3>2. QueuedOnce(c)
      BY DEF CoreInv
    <3>3. c.queue[r][i + shift[r]] # c.queue[q][i0]
      BY <3>1, <3>2, <2>1, OnePlace, SMT
    <3>. QED
      BY <3>1, <3>3
  <2>7. \A r \in Queues : \A i \in 1..Len(c.queue[r]) :
          \/ c.queue[r][i] \in woken
          \/ c.run_state[c.queue[r][i]] = "ZOMBIE"
          \/ owner[c.queue[r][i]] \in gone
          \/ \E j \in 1..Len(d.queue[r]) : d.queue[r][j] = c.queue[r][i]
    <3>. TAKE r \in Queues
    <3>. TAKE i \in 1..Len(c.queue[r])
    <3>1. CASE r # q
      BY <3>1, <2>4
    <3>2. CASE r = q /\ i < i0
      <4>1. i \notin W
        BY <3>2, <1>1, <2>1, SMT
      <4>. QED
        BY <3>2, <4>1, WakeableIsBlocked DEF W
    <3>3. CASE r = q /\ i = i0
      BY <3>3
    <3>4. CASE r = q /\ i > i0
      <4>1. i - i0 \in 1..Len(d.queue[q]) /\ d.queue[q][i - i0] = s[i]
        BY <3>4, <1>1, <2>1, <2>4, SMT
      <4>. QED
        BY <3>4, <4>1
    <3>5. i \in Int /\ i0 \in Int
      BY <1>1, <2>1, SMT
    <3>6. i < i0 \/ i = i0 \/ i > i0
      BY <3>5, SMT
    <3>. QED
      BY <3>1, <3>2, <3>3, <3>4, <3>6
  <2>8. WakesUp(c, d, owner, gone, woken, shift)
    BY <2>1, <2>4, <2>5, <2>6, <2>7 DEF WakesUp
  <2>. QED
    BY <2>8, WakeUpKeeps DEF d
<1>. QED
  BY <1>2, <1>3

(***************************************************************************)
(* Emptying the queues Q and waking up whoever can be woken in them: what  *)
(* PROC_unblock_all does to one queue and MUTEX_destroy_process_mutexes to *)
(* those of a process's mutexes.                                           *)
(***************************************************************************)
WokenIn(c, Q, gone) ==
  UNION {{c.queue[q][i] : i \in Wakeable(c, q, gone)} : q \in Q}

Emptied(c, Q, gone) ==
  [run_state |-> [t \in AllThreads |-> IF t \in WokenIn(c, Q, gone) THEN "READY"
                                       ELSE c.run_state[t]],
   pool |-> c.pool \cup WokenIn(c, Q, gone),
   queue |-> [q \in Queues |-> IF q \in Q THEN <<>> ELSE c.queue[q]]]

\* Emptying queues and waking who sleeps in them keeps the invariant.
LEMMA EmptiedKeeps ==
  ASSUME NEW c, NEW gone, CoreInv(c, owner, gone), NEW Q \in SUBSET Queues
  PROVE  /\ CoreInv(Emptied(c, Q, gone), owner, gone)
         /\ DeadKept(c, Emptied(c, Q, gone))
         /\ OnlyWoken(c, Emptied(c, Q, gone))
<1>. DEFINE d == Emptied(c, Q, gone)
            woken == WokenIn(c, Q, gone)
            shift == [q \in Queues |-> 0]
<1>1. c.queue \in [Queues -> Seq(Threads)]
  BY DEF CoreInv, CoreTyped
<1>2. /\ d.queue = [q \in Queues |-> IF q \in Q THEN <<>> ELSE c.queue[q]]
      /\ d = [run_state |-> [t \in AllThreads |->
                               IF t \in woken THEN "READY" ELSE c.run_state[t]],
              pool |-> c.pool \cup woken, queue |-> d.queue]
  BY DEF Emptied
<1>3. \A t \in woken : \E q \in Q : \E i \in Wakeable(c, q, gone) :
        t = c.queue[q][i]
  BY DEF WokenIn
<1>4. \A q \in Q : \A i \in Wakeable(c, q, gone) : c.queue[q][i] \in woken
  BY SMT DEF WokenIn
<1>. HIDE DEF d, woken
<1>5. /\ d.queue \in [Queues -> Seq(Threads)]
      /\ \A q \in Q : Len(d.queue[q]) = 0
      /\ \A q \in Queues \ Q : d.queue[q] = c.queue[q]
  BY <1>1, <1>2, SMT
<1>6. \A t \in woken : t \in Threads /\ c.run_state[t] = "BLOCKED"
  BY <1>3, WakeableIsBlocked, SMT
<1>7. \A q \in Queues : \A i \in 1..Len(d.queue[q]) :
        /\ i + shift[q] \in 1..Len(c.queue[q])
        /\ d.queue[q][i] = c.queue[q][i + shift[q]]
        /\ d.queue[q][i] \notin woken
  <2>. TAKE q \in Queues
  <2>. TAKE i \in 1..Len(d.queue[q])
  <2>1. q \notin Q /\ d.queue[q] = c.queue[q] /\ i \in 1..Len(c.queue[q])
    BY <1>5, SMT
  <2>2. QueuedOnce(c)
    BY DEF CoreInv
  <2>3. \A r \in Q : \A j \in 1..Len(c.queue[r]) : c.queue[r][j] # c.queue[q][i]
    BY <2>1, <2>2, OnePlace
  <2>4. c.queue[q][i] \notin woken
    BY <1>3, <2>3, WakeableIsBlocked, SMT
  <2>. QED
    BY <1>1, <2>1, <2>4, SMT
<1>8. \A q \in Queues : \A i \in 1..Len(c.queue[q]) :
        \/ c.queue[q][i] \in woken
        \/ c.run_state[c.queue[q][i]] = "ZOMBIE"
        \/ owner[c.queue[q][i]] \in gone
        \/ \E j \in 1..Len(d.queue[q]) : d.queue[q][j] = c.queue[q][i]
  <2>. TAKE q \in Queues
  <2>. TAKE i \in 1..Len(c.queue[q])
  <2>1. CASE q \in Q
    BY <2>1, <1>4, WakeableIsBlocked
  <2>2. CASE q \notin Q
    BY <2>2, <1>5
  <2>. QED
    BY <2>1, <2>2
<1>9. WakesUp(c, d, owner, gone, woken, shift)
  BY <1>2, <1>5, <1>6, <1>7, <1>8 DEF WakesUp
<1>. QED
  BY <1>9, WakeUpKeeps DEF d

\* PROC_unblock_all empties one queue.
LEMMA UnblockAllIsEmptied ==
  ASSUME NEW c, NEW gone, CoreInv(c, owner, gone), NEW q \in Queues
  PROVE  UnblockAll(c, q, gone) = Emptied(c, {q}, gone)
<1>1. WokenIn(c, {q}, gone) = {c.queue[q][i] : i \in Wakeable(c, q, gone)}
  BY DEF WokenIn
<1>2. [r \in Queues |-> IF r \in {q} THEN <<>> ELSE c.queue[r]]
        = [c.queue EXCEPT ![q] = <<>>]
  BY DEF CoreInv, CoreTyped
<1>. QED
  BY <1>1, <1>2 DEF UnblockAll, Emptied

\* It keeps the invariant and revives nobody.
LEMMA UnblockAllKeeps ==
  ASSUME NEW c, NEW gone, CoreInv(c, owner, gone), NEW q \in Queues
  PROVE  /\ CoreInv(UnblockAll(c, q, gone), owner, gone)
         /\ DeadKept(c, UnblockAll(c, q, gone))
         /\ OnlyWoken(c, UnblockAll(c, q, gone))
<1>1. {q} \in SUBSET Queues
  OBVIOUS
<1>2. UnblockAll(c, q, gone) = Emptied(c, {q}, gone)
  BY UnblockAllIsEmptied
<1>. QED
  BY <1>1, <1>2, EmptiedKeeps

\* So does MUTEX_destroy_process_mutexes, which unblocks several queues.
LEMMA WaitersReleasedKeeps ==
  ASSUME NEW c, NEW gone, CoreInv(c, owner, gone), NEW p,
         mutex_list \in SUBSET Mutexes
  PROVE  /\ CoreInv(WaitersReleased(c, p, gone), owner, gone)
         /\ DeadKept(c, WaitersReleased(c, p, gone))
         /\ OnlyWoken(c, WaitersReleased(c, p, gone))
<1>. DEFINE Q == {Waiters(m) : m \in MutexesOf(p)}
<1>1. Q \in SUBSET Queues
  BY SMT DEF MutexesOf, Waiters, Queues
<1>2. WaitersReleased(c, p, gone) = Emptied(c, Q, gone)
  BY DEF WaitersReleased, Emptied, WokenIn
<1>. QED
  BY <1>1, <1>2, EmptiedKeeps

(***************************************************************************)
(* More processes may be gone.                                             *)
(***************************************************************************)
LEMMA GoneGrows ==
  ASSUME NEW c, NEW own, NEW gone, NEW more, CoreInv(c, own, gone),
         gone \subseteq more
  PROVE  CoreInv(c, own, more)
BY DEF CoreInv, BlockedIsQueued

(***************************************************************************)
(* The other primitives: creation, the death of the caller, the death of   *)
(* the threads of a process, teardown, and the choice of the next thread.  *)
(***************************************************************************)
LEMMA AdmittedKeeps ==
  ASSUME NEW c, NEW own, NEW gone, CoreInv(c, own, gone),
         own \in [AllThreads -> Procs \cup {None}],
         NEW t \in Threads, c.run_state[t] = "UNUSED", NEW p \in Procs
  PROVE  /\ CoreInv(Admitted(c, t), [own EXCEPT ![t] = p], gone)
         /\ DeadKept(c, Admitted(c, t))
<1>. DEFINE d == Admitted(c, t)
            new == [own EXCEPT ![t] = p]
<1>1. /\ d.run_state = [c.run_state EXCEPT ![t] = "READY"]
      /\ d.pool = c.pool \cup {t}
      /\ d.queue = c.queue
      /\ d = [run_state |-> d.run_state, pool |-> d.pool, queue |-> d.queue]
  BY DEF Admitted
<1>2. /\ c.run_state \in [AllThreads -> RunStates]
      /\ c.pool \in SUBSET Threads
      /\ c.queue \in [Queues -> Seq(Threads)]
      /\ t \in AllThreads /\ Threads \subseteq AllThreads
  BY DEF CoreInv, CoreTyped, AllThreads
<1>. HIDE DEF d
<1>3. \A u \in AllThreads :
        d.run_state[u] = IF u = t THEN "READY" ELSE c.run_state[u]
  BY <1>1, <1>2
<1>4. CoreTyped(d)
  <2>1. d.run_state \in [AllThreads -> RunStates]
    BY <1>1, <1>2 DEF RunStates
  <2>. QED
    BY <1>1, <1>2, <2>1 DEF CoreTyped
<1>5. PoolExact(d)
  BY <1>1, <1>2, <1>3 DEF CoreInv, PoolExact
<1>6. UsedIsOwned(d, new)
  BY <1>2, <1>3 DEF CoreInv, UsedIsOwned
<1>7. BlockedIsQueued(d, new, gone)
  BY <1>1, <1>2, <1>3, SMT DEF CoreInv, BlockedIsQueued
<1>8. QueuedIsAsleep(d)
  BY <1>1, <1>2, <1>3, SMT DEF CoreInv, QueuedIsAsleep
<1>9. QueuedOnce(d)
  BY <1>1, SMT DEF CoreInv, QueuedOnce
<1>10. DeadKept(c, d)
  BY <1>3 DEF DeadKept
<1>. QED
  BY <1>4, <1>5, <1>6, <1>7, <1>8, <1>9, <1>10 DEF CoreInv, d

(***************************************************************************)
(* Killing the threads of S, which leave the pool if they are in it.       *)
(***************************************************************************)
LEMMA DeathKeeps ==
  ASSUME NEW c, NEW d, NEW own, NEW gone, CoreInv(c, own, gone), NEW S,
         \A u \in S : own[u] \in Procs,
         d = [run_state |-> [u \in AllThreads |->
                               IF u \in S THEN "ZOMBIE" ELSE c.run_state[u]],
              pool |-> c.pool \ S, queue |-> c.queue]
  PROVE  CoreInv(d, own, gone) /\ DeadKept(c, d)
<1>1. /\ d.pool = c.pool \ S
      /\ d.queue = c.queue
      /\ \A u \in AllThreads :
           d.run_state[u] = IF u \in S THEN "ZOMBIE" ELSE c.run_state[u]
  OBVIOUS
<1>2. /\ c.run_state \in [AllThreads -> RunStates]
      /\ c.pool \in SUBSET Threads
      /\ c.queue \in [Queues -> Seq(Threads)]
      /\ Threads \subseteq AllThreads
  BY DEF CoreInv, CoreTyped, AllThreads
<1>3. CoreTyped(d)
  <2>1. d.run_state \in [AllThreads -> RunStates]
    BY <1>2 DEF RunStates
  <2>. QED
    BY <1>2, <2>1 DEF CoreTyped
<1>4. PoolExact(d)
  BY <1>1, <1>2 DEF CoreInv, PoolExact
<1>5. UsedIsOwned(d, own)
  BY <1>1 DEF CoreInv, UsedIsOwned
<1>6. BlockedIsQueued(d, own, gone)
  BY <1>1, <1>2 DEF CoreInv, BlockedIsQueued
<1>7. QueuedIsAsleep(d)
  BY <1>1, <1>2, SMT DEF CoreInv, QueuedIsAsleep
<1>8. QueuedOnce(d)
  BY <1>1, SMT DEF CoreInv, QueuedOnce
<1>9. DeadKept(c, d)
  BY <1>1 DEF DeadKept
<1>. QED
  BY <1>3, <1>4, <1>5, <1>6, <1>7, <1>8, <1>9 DEF CoreInv

\* The death of the caller in PROC_exit_current_thread keeps the invariant.
LEMMA DeadKeeps ==
  ASSUME NEW c, NEW own, NEW gone, CoreInv(c, own, gone),
         NEW t \in Threads, c.run_state[t] \in {"READY", "RUNNING"}
  PROVE  CoreInv(Dead(c, t), own, gone) /\ DeadKept(c, Dead(c, t))
<1>. DEFINE S == {t}
            d == Dead(c, t)
<1>1. t \in c.pool /\ \A u \in S : own[u] \in Procs
  BY DEF CoreInv, PoolExact, UsedIsOwned, AllThreads
<1>2. Removed(c.pool, t) = c.pool \ S
  BY <1>1 DEF Removed
<1>3. [c.run_state EXCEPT ![t] = "ZOMBIE"] =
        [u \in AllThreads |-> IF u \in S THEN "ZOMBIE" ELSE c.run_state[u]]
  BY DEF CoreInv, CoreTyped
<1>4. d = [run_state |-> [u \in AllThreads |->
                            IF u \in S THEN "ZOMBIE" ELSE c.run_state[u]],
           pool |-> c.pool \ S, queue |-> c.queue]
  BY <1>2, <1>3 DEF Dead
<1>. HIDE DEF S, d
<1>5. CoreInv(d, own, gone) /\ DeadKept(c, d)
  BY <1>1, <1>4, DeathKeeps
<1>. QED
  BY <1>5 DEF d

\* So does killing the caller and every other thread of its process.
LEMMA KilledKeeps ==
  ASSUME NEW c, NEW own, NEW gone, CoreInv(c, own, gone),
         NEW S \in SUBSET AllThreads, \A u \in S : own[u] \in Procs
  PROVE  CoreInv(Killed(c, S), own, gone) /\ DeadKept(c, Killed(c, S))
<1>. DEFINE victims == {u \in S : c.run_state[u] # "ZOMBIE"}
            R == {u \in victims : c.run_state[u] \in {"READY", "RUNNING"}}
<1>1. c.pool \ R = c.pool \ victims
  BY DEF CoreInv, PoolExact, CoreTyped
<1>2. Killed(c, S) = [run_state |-> [u \in AllThreads |->
                        IF u \in victims THEN "ZOMBIE" ELSE c.run_state[u]],
                      pool |-> c.pool \ victims, queue |-> c.queue]
  BY <1>1 DEF Killed
<1>. QED
  BY <1>2, DeathKeeps

\* So does process_teardown, once the process counts as exited.
LEMMA TornDownKeeps ==
  ASSUME NEW c, CoreInv(c, owner, zombie), NEW p \in Procs,
         mutex_list \in SUBSET Mutexes,
         parent \in [Procs -> Procs \cup {None}]
  PROVE  /\ CoreInv(TornDown(c, p), owner, zombie \cup {p})
         /\ DeadKept(c, TornDown(c, p))
         /\ OnlyWoken(c, TornDown(c, p))
<1>. DEFINE gone == zombie \cup {p}
            c1 == WaitersReleased(c, p, gone)
<1>1. CoreInv(c, owner, gone)
  BY GoneGrows
<1>2. CoreInv(c1, owner, gone) /\ DeadKept(c, c1) /\ OnlyWoken(c, c1)
  BY <1>1, WaitersReleasedKeeps
<1>3. CASE p \in zombie
  BY <1>1, <1>3 DEF TornDown, DeadKept, OnlyWoken
<1>4. CASE p \notin zombie /\ parent[p] = None
  BY <1>2, <1>4 DEF TornDown
<1>5. CASE p \notin zombie /\ parent[p] # None
  <2>. DEFINE q == WaitChildExit(parent[p])
              d == UnblockAll(c1, q, gone)
  <2>1. q \in Queues
    BY <1>5 DEF WaitChildExit, Queues
  <2>2. CoreInv(d, owner, gone) /\ DeadKept(c1, d) /\ OnlyWoken(c1, d)
    BY <1>2, <2>1, UnblockAllKeeps
  <2>3. TornDown(c, p) = d
    BY <1>5 DEF TornDown
  <2>. QED
    BY <1>2, <2>2, <2>3 DEF DeadKept, OnlyWoken
<1>. QED
  BY <1>3, <1>4, <1>5

\* PROC_reschedule keeps the invariant and gives the CPU to a live thread.
LEMMA RescheduleKeeps ==
  ASSUME NEW c, NEW own, NEW gone, CoreInv(c, own, gone), NEW cur,
         Reschedule(c, cur)
  PROVE  /\ CoreInv(core', own, gone)
         /\ DeadKept(c, core')
         /\ curr_proc' \in AllThreads
         /\ curr_proc' # Main => run_state'[curr_proc'] = "RUNNING"
<1>1. CASE c.pool = {} /\ curr_proc' = Main /\ SetCore(c)
  <2>1. core' = c
    BY <1>1 DEF core, SetCore, CoreInv, CoreTyped
  <2>. QED
    BY <1>1, <2>1 DEF DeadKept, AllThreads
<1>2. ASSUME NEW candidate \in c.pool,
             curr_proc' = candidate,
             run_state' = [t \in AllThreads |->
               IF t = candidate THEN "RUNNING"
               ELSE IF t = cur /\ c.run_state[t] = "RUNNING" THEN "READY"
               ELSE c.run_state[t]],
             pool' = c.pool, queue' = c.queue
      PROVE  /\ CoreInv(core', own, gone)
             /\ DeadKept(c, core')
             /\ curr_proc' \in AllThreads
             /\ curr_proc' # Main => run_state'[curr_proc'] = "RUNNING"
  <2>. DEFINE d == core'
  <2>1. /\ d.pool = c.pool /\ d.queue = c.queue /\ d.run_state = run_state'
        /\ d = [run_state |-> d.run_state, pool |-> d.pool, queue |-> d.queue]
    BY <1>2 DEF core
  <2>. HIDE DEF d
  <2>2. /\ c.run_state \in [AllThreads -> RunStates]
        /\ c.pool \in SUBSET Threads
        /\ c.queue \in [Queues -> Seq(Threads)]
        /\ Threads \subseteq AllThreads
        /\ candidate \in Threads
        /\ c.run_state[candidate] \in {"READY", "RUNNING"}
    BY DEF CoreInv, CoreTyped, AllThreads, PoolExact
  <2>3. \A t \in AllThreads :
          \/ d.run_state[t] = c.run_state[t]
          \/ /\ d.run_state[t] \in {"READY", "RUNNING"}
             /\ c.run_state[t] \in {"READY", "RUNNING"}
    BY <1>2, <2>1, <2>2
  <2>4. CoreTyped(d)
    <3>1. d.run_state \in [AllThreads -> RunStates]
      BY <1>2, <2>1, <2>2 DEF RunStates
    <3>. QED
      BY <2>1, <2>2, <3>1 DEF CoreTyped
  <2>5. PoolExact(d)
    BY <2>1, <2>2, <2>3 DEF CoreInv, PoolExact
  <2>6. UsedIsOwned(d, own)
    BY <2>3 DEF CoreInv, UsedIsOwned
  <2>7. BlockedIsQueued(d, own, gone)
    BY <2>1, <2>2, <2>3, SMT DEF CoreInv, BlockedIsQueued
  <2>8. QueuedIsAsleep(d)
    BY <2>1, <2>2, <2>3, SMT DEF CoreInv, QueuedIsAsleep
  <2>9. QueuedOnce(d)
    BY <2>1, SMT DEF CoreInv, QueuedOnce
  <2>10. DeadKept(c, d)
    BY <2>3 DEF DeadKept
  <2>11. curr_proc' \in AllThreads /\ run_state'[curr_proc'] = "RUNNING"
    BY <1>2, <2>2
  <2>. QED
    BY <2>4, <2>5, <2>6, <2>7, <2>8, <2>9, <2>10, <2>11 DEF CoreInv, d
<1>. QED
  BY <1>1, <1>2 DEF Reschedule

-----------------------------------------------------------------------------
(***************************************************************************)
(* The inductive invariant has two parts.  SchedInv is about the threads,  *)
(* the pool and the queues; DataInv is about everything else.              *)
(***************************************************************************)
SchedInv ==
  /\ CoreInv(core, owner, zombie)
  /\ curr_proc \in AllThreads
  /\ CpuThreadIsRunning

\* The threads in the list of a process have an owner.
ListedIsOwned ==
  \A p \in Procs : \A u \in Range(threads[p]) : owner[u] \in Procs

JoinPoints == {"join_sleep", "join_woken", "join_found", "join_block",
               "join_reap", "join_unlink"}

\* The object of a call in progress is of the kind the call is about.
ArgFits ==
  \A t \in Threads :
    /\ pc[t] \in JoinPoints => arg[t] \in Threads
    /\ pc[t] = "wait_reap" => arg[t] \in Procs
    /\ pc[t] \in {"lock_sleep", "lock_woken"} => arg[t] \in Mutexes

\* Who has returned from a lock is the owner.
HolderIsOwner ==
  \A t \in Threads : \A m \in holds[t] : owner_thread[m] = t

ControlTyped ==
  /\ owner \in [AllThreads -> Procs \cup {None}]
  /\ zombie \in SUBSET Procs
  /\ pc \in [Threads -> ControlPoints]
  /\ arg \in [Threads -> Threads \cup Procs \cup Mutexes \cup {None}]

DataInv ==
  /\ ControlTyped
  /\ MutexTypeOK
  /\ ProcessTypeOK
  /\ kbd_chars \in 0..KbdCapacity
  /\ ListedIsOwned
  /\ ArgFits
  /\ HolderIsOwner

IInv == SchedInv /\ DataInv

\* What a step does to the scheduling part.
SchedStep ==
  /\ CoreInv(core', owner', zombie')
  /\ curr_proc' \in AllThreads
  /\ CpuThreadIsRunning'
  /\ DeadKept(core, core')

(***************************************************************************)
(* The invariant gives the invariants of Kernel.                           *)
(***************************************************************************)
LEMMA IInvImplies ==
  ASSUME IInv
  PROVE  TypeOK /\ PoolIsRunnable /\ BlockedInOneQueue /\ CpuThreadIsRunning
         /\ MutualExclusion
<1>1. /\ core.run_state = run_state /\ core.pool = pool /\ core.queue = queue
  BY DEF core
<1>2. /\ run_state \in [AllThreads -> RunStates]
      /\ pool \in SUBSET Threads
      /\ queue \in [Queues -> Seq(Threads)]
  BY <1>1 DEF IInv, SchedInv, CoreInv, CoreTyped
<1>3. TypeOK
  BY <1>2 DEF IInv, SchedInv, DataInv, ControlTyped, TypeOK, MultitaskTypeOK
<1>4. PoolIsRunnable
  BY <1>1 DEF IInv, SchedInv, CoreInv, PoolExact, PoolIsRunnable
<1>5. \A q \in Queues : DOMAIN queue[q] = 1..Len(queue[q])
  BY <1>2, SMT
<1>6. BlockedInOneQueue
  <2>1. ASSUME NEW t \in Threads, run_state[t] = "BLOCKED", owner[t] \notin zombie
        PROVE  \E q \in Queues : t \in Range(queue[q])
    <3>1. PICK q \in Queues : \E i \in 1..Len(queue[q]) : queue[q][i] = t
      BY <1>1, <2>1 DEF IInv, SchedInv, CoreInv, BlockedIsQueued
    <3>. QED
      BY <1>5, <3>1 DEF Range
  <2>2. ASSUME NEW q \in Queues, NEW i \in DOMAIN queue[q]
        PROVE  run_state[queue[q][i]] \in {"BLOCKED", "ZOMBIE"}
    BY <1>1, <1>5 DEF IInv, SchedInv, CoreInv, QueuedIsAsleep
  <2>3. ASSUME NEW q \in Queues, NEW i \in DOMAIN queue[q],
               NEW r \in Queues, NEW j \in DOMAIN queue[r],
               queue[q][i] = queue[r][j]
        PROVE  q = r /\ i = j
    <3>1. QueuedOnce(core)
      BY DEF IInv, SchedInv, CoreInv
    <3>. QED
      BY <1>1, <1>5, <2>3, <3>1, SMT DEF QueuedOnce
  <2>. QED
    BY <2>1, <2>2, <2>3 DEF BlockedInOneQueue
<1>7. MutualExclusion
  BY SMT DEF IInv, DataInv, HolderIsOwner, MutualExclusion
<1>. QED
  BY <1>3, <1>4, <1>6, <1>7 DEF IInv, SchedInv

(***************************************************************************)
(* A thread that has the CPU and is not in PROC_block_on is RUNNING.       *)
(***************************************************************************)
LEMMA CallerIsRunning ==
  ASSUME SchedInv, NEW t \in Threads, t = curr_proc, pc[t] \notin SleepPoints
  PROVE  core.run_state[t] = "RUNNING" /\ run_state[t] = "RUNNING"
<1>1. t # Main
  BY MultitaskAssumption
<1>. QED
  BY <1>1 DEF SchedInv, CpuThreadIsRunning, core

(***************************************************************************)
(* The kinds of steps: one that leaves the scheduling part alone, one that *)
(* blocks its caller, one that ends in PROC_reschedule, one that wakes a   *)
(* thread up and goes on.                                                  *)
(***************************************************************************)
LEMMA QuietStep ==
  ASSUME SchedInv, NEW t \in Threads, t = curr_proc, pc[t] \notin SleepPoints,
         UNCHANGED <<curr_proc, run_state, pool, queue, owner, zombie>>
  PROVE  SchedStep
<1>1. core' = core
  BY DEF core
<1>2. run_state[t] = "RUNNING"
  BY CallerIsRunning
<1>3. CpuThreadIsRunning'
  BY <1>2 DEF CpuThreadIsRunning
<1>. QED
  BY <1>1, <1>3 DEF SchedInv, SchedStep, DeadKept

\* A handler that ends in PROC_block_on is a good step.
LEMMA BlockStep ==
  ASSUME SchedInv, NEW t \in Threads, t = curr_proc, pc[t] \notin SleepPoints,
         pc \in [Threads -> ControlPoints],
         NEW q \in Queues, NEW point \in SleepPoints, BlockAt(t, q, point),
         UNCHANGED <<curr_proc, owner, zombie>>
  PROVE  SchedStep
<1>. DEFINE d == BlockedOn(core, t, q)
<1>1. core' = d
  BY DEF core, BlockAt, SetCore, BlockedOn
<1>2. core.run_state[t] \in {"READY", "RUNNING"}
  BY CallerIsRunning
<1>3. CoreInv(core', owner', zombie') /\ DeadKept(core, core')
  BY <1>1, <1>2, BlockedOnKeeps DEF SchedInv
<1>4. CpuThreadIsRunning'
  <2>1. run_state' = [run_state EXCEPT ![t] = "BLOCKED"]
    BY DEF BlockAt, SetCore, BlockedOn, core
  <2>2. run_state \in [AllThreads -> RunStates] /\ t \in AllThreads
    BY DEF SchedInv, CoreInv, CoreTyped, core, AllThreads
  <2>3. run_state'[t] = "BLOCKED" /\ pc'[t] = point
    BY <2>1, <2>2 DEF BlockAt, Goto
  <2>. QED
    BY <2>3 DEF CpuThreadIsRunning
<1>. QED
  BY <1>3, <1>4 DEF SchedStep, SchedInv

\* So is one that ends in PROC_reschedule,
LEMMA RescheduleStep ==
  ASSUME NEW c, CoreInv(c, owner', zombie'), DeadKept(core, c), NEW cur,
         Reschedule(c, cur)
  PROVE  SchedStep
<1>1. /\ CoreInv(core', owner', zombie') /\ DeadKept(c, core')
      /\ curr_proc' \in AllThreads
      /\ curr_proc' # Main => run_state'[curr_proc'] = "RUNNING"
  BY RescheduleKeeps
<1>. QED
  BY <1>1 DEF SchedStep, DeadKept, CpuThreadIsRunning

\* and the PROC_unblock_one of an interrupt handler.
LEMMA WakeStep ==
  ASSUME LeastNumber, SchedInv, NEW q \in Queues, SetCore(UnblockOne(core, q, zombie)),
         UNCHANGED <<curr_proc, owner, zombie, pc>>
  PROVE  SchedStep
<1>. DEFINE d == UnblockOne(core, q, zombie)
<1>1. core' = d
  BY DEF core, SetCore, UnblockOne
<1>2. CoreInv(d, owner, zombie) /\ DeadKept(core, d) /\ OnlyWoken(core, d)
  BY UnblockOneKeeps DEF SchedInv
<1>3. CpuThreadIsRunning'
  <2>1. core'.run_state = run_state' /\ core.run_state = run_state
    BY DEF core
  <2>2. \/ run_state'[curr_proc] = run_state[curr_proc]
        \/ run_state[curr_proc] = "BLOCKED" /\ run_state'[curr_proc] = "READY"
    BY <1>1, <1>2, <2>1 DEF OnlyWoken, SchedInv
  <2>. QED
    BY <2>2 DEF CpuThreadIsRunning, SchedInv
<1>. QED
  BY <1>1, <1>2, <1>3 DEF SchedStep, SchedInv

-----------------------------------------------------------------------------
(***************************************************************************)
(* Every action keeps the scheduling part of the invariant, and the dead   *)
(* dead.                                                                   *)
(***************************************************************************)
LEMMA OwnerIsProc ==
  ASSUME SchedInv, NEW t \in Threads, t = curr_proc, pc[t] \notin SleepPoints
  PROVE  owner[t] \in Procs
BY CallerIsRunning DEF SchedInv, CoreInv, UsedIsOwned, AllThreads

\* So is the creation of a thread.
LEMMA LinkAndAdmitStep ==
  ASSUME IInv, NEW u \in Threads, NEW p \in Procs, LinkAndAdmit(u, p),
         UNCHANGED <<curr_proc, zombie, pc>>
  PROVE  SchedStep
<1>1. core' = Admitted(core, u) /\ owner' = [owner EXCEPT ![u] = p]
  BY DEF LinkAndAdmit, SetCore, core, Admitted
<1>2. core.run_state[u] = "UNUSED"
  BY DEF LinkAndAdmit, UnusedThread, core
<1>3. CoreInv(core', owner', zombie') /\ DeadKept(core, core')
  BY <1>1, <1>2, AdmittedKeeps DEF IInv, SchedInv, DataInv, ControlTyped
<1>4. CpuThreadIsRunning'
  <2>1. run_state' = [run_state EXCEPT ![u] = "READY"] /\ run_state[u] = "UNUSED"
    BY DEF LinkAndAdmit, UnusedThread, SetCore, core, Admitted
  <2>2. run_state \in [AllThreads -> RunStates]
    BY DEF IInv, SchedInv, CoreInv, CoreTyped, core
  <2>. QED
    BY <2>1, <2>2 DEF IInv, SchedInv, CpuThreadIsRunning
<1>. QED
  BY <1>3, <1>4 DEF SchedStep, IInv, SchedInv

\* So is one round of the loop of syscall_mutex_lock,
LEMMA LockAttemptStep ==
  ASSUME IInv, NEW t \in Threads, t = curr_proc, pc[t] \notin SleepPoints,
         NEW m \in Mutexes, LockAttempt(t, m),
         UNCHANGED <<curr_proc, owner, zombie>>
  PROVE  SchedStep
<1>1. CASE UNCHANGED <<run_state, pool, queue>>
  BY <1>1, QuietStep DEF IInv
<1>2. CASE BlockAt(t, Waiters(m), "lock_sleep")
  <2>1. Waiters(m) \in Queues /\ "lock_sleep" \in SleepPoints
    BY DEF Waiters, Queues, SleepPoints
  <2>. QED
    BY <1>2, <2>1, BlockStep DEF IInv, DataInv, ControlTyped
<1>. QED
  BY <1>1, <1>2 DEF LockAttempt

\* and every call of mutex_syscalls.c.
LEMMA MutexSched ==
  ASSUME LeastNumber, IInv, NEW t \in Threads, MutexNext(t)
  PROVE  SchedStep
<1>1. t = curr_proc /\ pc[t] \notin SleepPoints
  BY DEF MutexNext, MutexCreate, MutexLock, MutexLockWoken, MutexUnlock,
         MutexDestroy, CallsInto, At, SleepPoints
<1>2. CASE MutexCreate(t)
  BY <1>1, <1>2, QuietStep DEF MutexCreate, tvars, IInv
<1>3. CASE MutexLock(t)
  BY <1>1, <1>3, LockAttemptStep DEF MutexLock
<1>4. CASE MutexLockWoken(t)
  <2>1. CASE owner_thread[arg[t]] = t
    BY <1>1, <1>4, <2>1, QuietStep DEF MutexLockWoken, IInv
  <2>2. CASE owner_thread[arg[t]] # t
    <3>1. arg[t] \in Mutexes
      BY <1>4 DEF MutexLockWoken, At, IInv, DataInv, ArgFits
    <3>. QED
      BY <1>1, <1>4, <2>2, <3>1, LockAttemptStep DEF MutexLockWoken
  <2>. QED
    BY <2>1, <2>2
<1>5. CASE MutexUnlock(t)
  <2>1. PICK m \in Mutexes : SetCore(UnblockOne(core, Waiters(m), zombie))
    BY <1>5 DEF MutexUnlock
  <2>2. Waiters(m) \in Queues
    BY DEF Waiters, Queues
  <2>. QED
    BY <1>5, <2>1, <2>2, WakeStep DEF MutexUnlock, IInv
<1>6. CASE MutexDestroy(t)
  BY <1>1, <1>6, QuietStep DEF MutexDestroy, tvars, IInv
<1>. QED
  BY <1>2, <1>3, <1>4, <1>5, <1>6 DEF MutexNext

\* exit is a good step,
LEMMA ExitProcessStep ==
  ASSUME IInv, NEW t \in Threads, ExitProcess(t)
  PROVE  SchedStep
<1>. DEFINE p == owner[t]
            c1 == Killed(core, Range(threads[p]))
            c2 == TornDown(c1, p)
            c3 == UnblockAll(c2, WaitThreadExit(p), zombie \cup {p})
<1>1. p \in Procs
  BY OwnerIsProc DEF ExitProcess, CallsInto, At, IInv, SleepPoints
<1>2. /\ Range(threads[p]) \in SUBSET AllThreads
      /\ \A u \in Range(threads[p]) : owner[u] \in Procs
  <2>1. threads[p] \in Seq(AllThreads)
    BY <1>1 DEF IInv, DataInv, ProcessTypeOK
  <2>2. Range(threads[p]) \in SUBSET AllThreads
    BY <2>1, SMT DEF Range
  <2>. QED
    BY <1>1, <2>2 DEF IInv, DataInv, ListedIsOwned
<1>3. CoreInv(c1, owner, zombie) /\ DeadKept(core, c1)
  BY <1>2, KilledKeeps DEF IInv, SchedInv
<1>4. mutex_list \in SUBSET Mutexes /\ parent \in [Procs -> Procs \cup {None}]
  BY DEF IInv, DataInv, MutexTypeOK, ProcessTypeOK
<1>5. CoreInv(c2, owner, zombie \cup {p}) /\ DeadKept(c1, c2)
  BY <1>1, <1>3, <1>4, TornDownKeeps
<1>6. WaitThreadExit(p) \in Queues
  BY <1>1 DEF WaitThreadExit, Queues
<1>7. CoreInv(c3, owner, zombie \cup {p}) /\ DeadKept(c2, c3)
  BY <1>5, <1>6, UnblockAllKeeps
<1>8. DeadKept(core, c3)
  BY <1>3, <1>5, <1>7 DEF DeadKept
<1>9. owner' = owner /\ zombie' = zombie \cup {p} /\ Reschedule(c3, None)
  BY DEF ExitProcess, Teardown
<1>. QED
  BY <1>7, <1>8, <1>9, RescheduleStep

\* thread_exit is,
LEMMA ExitThreadStep ==
  ASSUME IInv, NEW t \in Threads, ExitThread(t)
  PROVE  SchedStep
<1>. DEFINE p == owner[t]
            n == OneThreadLess(p)
            c1 == Dead(core, t)
            c2 == UnblockAll(c1, WaitThreadExit(p), zombie)
            c3 == TornDown(c2, p)
<1>1. t = curr_proc /\ pc[t] \notin SleepPoints
  BY DEF ExitThread, CallsInto, At, SleepPoints
<1>2. p \in Procs /\ core.run_state[t] = "RUNNING"
  BY <1>1, OwnerIsProc, CallerIsRunning DEF IInv
<1>3. CoreInv(c1, owner, zombie) /\ DeadKept(core, c1)
  BY <1>2, DeadKeeps DEF IInv, SchedInv
<1>4. WaitThreadExit(p) \in Queues
  BY <1>2 DEF WaitThreadExit, Queues
<1>5. CoreInv(c2, owner, zombie) /\ DeadKept(c1, c2)
  BY <1>3, <1>4, UnblockAllKeeps
<1>6. DeadKept(core, c2)
  BY <1>3, <1>5 DEF DeadKept
<1>7. owner' = owner
  BY DEF ExitThread
<1>8. CASE n = 0
  <2>1. mutex_list \in SUBSET Mutexes /\ parent \in [Procs -> Procs \cup {None}]
    BY DEF IInv, DataInv, MutexTypeOK, ProcessTypeOK
  <2>2. CoreInv(c3, owner, zombie \cup {p}) /\ DeadKept(c2, c3)
    BY <1>2, <1>5, <2>1, TornDownKeeps
  <2>3. DeadKept(core, c3)
    BY <1>6, <2>2 DEF DeadKept
  <2>4. zombie' = zombie \cup {p} /\ Reschedule(c3, None)
    BY <1>8 DEF ExitThread, Teardown
  <2>. QED
    BY <1>7, <2>2, <2>3, <2>4, RescheduleStep
<1>9. CASE n # 0
  <2>1. zombie' = zombie /\ Reschedule(c2, None)
    BY <1>9 DEF ExitThread
  <2>. QED
    BY <1>5, <1>6, <1>7, <2>1, RescheduleStep
<1>. QED
  BY <1>8, <1>9

\* the part of wait that is not interrupted is,
LEMMA WaitUninterruptedStep ==
  ASSUME IInv, NEW t \in Threads, t = curr_proc, pc[t] \notin SleepPoints,
         WaitUninterrupted(t)
  PROVE  SchedStep
<1>1. UNCHANGED <<curr_proc, owner, zombie>>
  BY DEF WaitUninterrupted, rest_of_wait
<1>2. CASE UNCHANGED <<run_state, pool, queue>>
  BY <1>1, <1>2, QuietStep DEF IInv
<1>3. CASE BlockAt(t, WaitChildExit(owner[t]), "wait_sleep")
  <2>1. WaitChildExit(owner[t]) \in Queues /\ "wait_sleep" \in SleepPoints
    BY OwnerIsProc DEF WaitChildExit, Queues, SleepPoints, IInv
  <2>. QED
    BY <1>1, <1>3, <2>1, BlockStep DEF IInv, DataInv, ControlTyped
<1>. QED
  BY <1>2, <1>3 DEF WaitUninterrupted

\* and so is every call of process_syscalls.c.
LEMMA ProcessSched ==
  ASSUME IInv, NEW t \in Threads, ProcessNext(t)
  PROVE  SchedStep
<1>1. t = curr_proc /\ pc[t] \notin SleepPoints
  BY DEF ProcessNext, PROC_create_kthread, PROC_create_uthread, Fork,
     CloneThread, Exec, ExecFail, ExecSwitch, ExitProcess, ExitThread, Wait,
     WaitTop, WaitBlock, WaitReap, Join, JoinWoken, JoinTest, JoinBlock,
     JoinReap, JoinUnlink, CallsInto, At, SleepPoints
<1>2. owner[t] \in Procs
  BY <1>1, OwnerIsProc DEF IInv
<1>3. KProc \in Procs
  BY MultitaskAssumption
<1>4. CASE PROC_create_kthread(t)
  BY <1>3, <1>4, LinkAndAdmitStep DEF PROC_create_kthread
<1>5. CASE PROC_create_uthread(t)
  BY <1>5, LinkAndAdmitStep DEF PROC_create_uthread
<1>6. CASE Fork(t)
  BY <1>6, LinkAndAdmitStep DEF Fork
<1>7. CASE CloneThread(t)
  BY <1>2, <1>7, LinkAndAdmitStep DEF CloneThread
<1>8. CASE Exec(t) \/ ExecFail(t) \/ ExecSwitch(t)
  <2>1. UNCHANGED <<curr_proc, run_state, pool, queue, owner, zombie>>
    BY <1>8 DEF Exec, ExecFail, ExecSwitch
  <2>. QED
    BY <1>1, <2>1, QuietStep DEF IInv
<1>9. CASE ExitProcess(t)
  BY <1>9, ExitProcessStep
<1>10. CASE ExitThread(t)
  BY <1>10, ExitThreadStep
<1>11. CASE Wait(t)
  <2>1. CASE WaitUninterrupted(t)
    BY <1>1, <2>1, WaitUninterruptedStep
  <2>2. CASE UNCHANGED <<run_state, pool, queue, arg, parent, freed,
                         rest_of_wait>>
    BY <1>1, <2>2, QuietStep DEF rest_of_wait, IInv
  <2>. QED
    BY <1>11, <2>1, <2>2 DEF Wait
<1>12. CASE WaitTop(t) \/ WaitReap(t)
  <2>1. UNCHANGED <<curr_proc, run_state, pool, queue, owner, zombie>>
    BY <1>12 DEF WaitTop, WaitReap, rest_of_wait
  <2>. QED
    BY <1>1, <2>1, QuietStep DEF IInv
<1>13. CASE WaitBlock(t)
  <2>1. WaitChildExit(owner[t]) \in Queues /\ "wait_sleep" \in SleepPoints
    BY <1>2 DEF WaitChildExit, Queues, SleepPoints
  <2>. QED
    BY <1>1, <1>13, <2>1, BlockStep
    DEF WaitBlock, rest_of_wait, IInv, DataInv, ControlTyped
<1>14. CASE Join(t)
  <2>1. UNCHANGED <<curr_proc, owner, zombie>>
    BY <1>14 DEF Join, rest_of_join
  <2>2. CASE UNCHANGED <<run_state, pool, queue>>
    BY <1>1, <2>1, <2>2, QuietStep DEF IInv
  <2>3. CASE BlockAt(t, WaitThreadExit(owner[t]), "join_sleep")
    <3>1. WaitThreadExit(owner[t]) \in Queues /\ "join_sleep" \in SleepPoints
      BY <1>2 DEF WaitThreadExit, Queues, SleepPoints
    <3>. QED
      BY <1>1, <2>1, <2>3, <3>1, BlockStep DEF IInv, DataInv, ControlTyped
  <2>. QED
    BY <1>14, <2>2, <2>3 DEF Join
<1>15. CASE JoinWoken(t) \/ JoinTest(t) \/ JoinReap(t) \/ JoinUnlink(t)
  <2>1. UNCHANGED <<curr_proc, run_state, pool, queue, owner, zombie>>
    BY <1>15 DEF JoinWoken, JoinTest, JoinReap, JoinUnlink, rest_of_join
  <2>. QED
    BY <1>1, <2>1, QuietStep DEF IInv
<1>16. CASE JoinBlock(t)
  <2>1. WaitThreadExit(owner[t]) \in Queues /\ "join_sleep" \in SleepPoints
    BY <1>2 DEF WaitThreadExit, Queues, SleepPoints
  <2>. QED
    BY <1>1, <1>16, <2>1, BlockStep
    DEF JoinBlock, rest_of_join, IInv, DataInv, ControlTyped
<1>. QED
  BY <1>4, <1>5, <1>6, <1>7, <1>8, <1>9, <1>10, <1>11, <1>12, <1>13, <1>14,
     <1>15, <1>16 DEF ProcessNext

\* Every step of the kernel is a good step for the scheduling part.
LEMMA NextSched ==
  ASSUME LeastNumber, IInv, Next
  PROVE  SchedStep
<1>1. CoreInv(core, owner, zombie) /\ DeadKept(core, core)
  BY DEF IInv, SchedInv, DeadKept
<1>2. CASE Preemption
  <2>1. owner' = owner /\ zombie' = zombie
    BY <1>2 DEF Preemption, Tick, IdleYield
  <2>2. Reschedule(core, curr_proc) \/ Reschedule(core, Main)
    BY <1>2 DEF Preemption, Tick, IdleYield
  <2>. QED
    BY <1>1, <2>1, <2>2, RescheduleStep
<1>3. CASE KeyPress
  <2>1. KbdWaitQueue \in Queues
    BY DEF Queues
  <2>. QED
    BY <1>3, <2>1, WakeStep DEF KeyPress, IInv
<1>4. ASSUME NEW t \in Threads, Scheduling(t) PROVE SchedStep
  <2>1. owner' = owner /\ zombie' = zombie /\ Reschedule(core, t)
    BY <1>4 DEF Scheduling, Yield, SleepYield
  <2>. QED
    BY <1>1, <2>1, RescheduleStep
<1>5. ASSUME NEW t \in Threads, Getc(t) \/ GetcWoken(t) PROVE SchedStep
  <2>1. t = curr_proc /\ pc[t] \notin SleepPoints /\ GetChar(t)
    BY <1>5 DEF Getc, GetcWoken, CallsInto, At, SleepPoints
  <2>2. UNCHANGED <<curr_proc, owner, zombie>>
    BY <2>1 DEF GetChar
  <2>3. CASE UNCHANGED <<run_state, pool, queue>>
    BY <2>1, <2>2, <2>3, QuietStep DEF IInv
  <2>4. CASE BlockAt(t, KbdWaitQueue, "getc_sleep")
    <3>1. KbdWaitQueue \in Queues /\ "getc_sleep" \in SleepPoints
      BY DEF Queues, SleepPoints
    <3>. QED
      BY <2>1, <2>2, <2>4, <3>1, BlockStep DEF IInv, DataInv, ControlTyped
  <2>. QED
    BY <2>1, <2>3, <2>4 DEF GetChar
<1>. QED
  BY <1>2, <1>3, <1>4, <1>5, MutexSched, ProcessSched DEF Next, ThreadStep

-----------------------------------------------------------------------------
(***************************************************************************)
(* What the primitives do to the threads that wait for a mutex.  lock[u]   *)
(* is the mutex that thread u is inside syscall_mutex_lock for.            *)
(***************************************************************************)
InQueue(c, u, q) == \E i \in 1..Len(c.queue[q]) : c.queue[q][i] = u

\* Who sleeps in syscall_mutex_lock is in the queue of that mutex, and nobody
\* else sleeps there.
SleepersFit(c, lock) ==
  \A u \in Threads, x \in Mutexes :
    c.run_state[u] = "BLOCKED" => (lock[u] = x <=> InQueue(c, u, Waiters(x)))

\* From c to d nobody is put to sleep, who sleeps on stays in the queues it was
\* in, and nobody who waits for a mutex is woken.
Undisturbed(c, d, lock) ==
  \A u \in Threads :
    /\ d.run_state[u] = "BLOCKED" =>
         /\ c.run_state[u] = "BLOCKED"
         /\ \A x \in Mutexes :
              InQueue(d, u, Waiters(x)) <=> InQueue(c, u, Waiters(x))
    /\ lock[u] \in Mutexes /\ d.run_state[u] \in {"READY", "RUNNING"} =>
         c.run_state[u] \in {"READY", "RUNNING"}

\* No thread of an exited process sleeps.
NoneGone(c, gone) ==
  \A u \in Threads : c.run_state[u] = "BLOCKED" => owner[u] \notin gone

\* What two steps do one after the other.
LEMMA UndisturbedTwice ==
  ASSUME NEW c, NEW d, NEW e, NEW lock,
         Undisturbed(c, d, lock), Undisturbed(d, e, lock)
  PROVE  Undisturbed(c, e, lock)
BY DEF Undisturbed

\* Who sleeps where is kept.
LEMMA UndisturbedFits ==
  ASSUME NEW c, NEW d, NEW lock, SleepersFit(c, lock), Undisturbed(c, d, lock)
  PROVE  SleepersFit(d, lock)
BY DEF Undisturbed, SleepersFit

\* Emptying queues disturbs nobody if none of those woken waits for a mutex.
LEMMA EmptiedUndisturbed ==
  ASSUME NEW c, NEW gone, CoreInv(c, owner, gone), NEW Q \in SUBSET Queues,
         NEW lock, NoneGone(c, gone),
         \A q \in Q : \A i \in Wakeable(c, q, gone) :
           lock[c.queue[q][i]] \notin Mutexes
  PROVE  Undisturbed(c, Emptied(c, Q, gone), lock)
<1>. DEFINE d == Emptied(c, Q, gone)
            woken == WokenIn(c, Q, gone)
<1>1. /\ c.queue \in [Queues -> Seq(Threads)] /\ Threads \subseteq AllThreads
      /\ \A x \in Mutexes : Waiters(x) \in Queues
  BY DEF CoreInv, CoreTyped, AllThreads, Waiters, Queues
<1>2. /\ d.queue = [q \in Queues |-> IF q \in Q THEN <<>> ELSE c.queue[q]]
      /\ d.run_state = [t \in AllThreads |->
                          IF t \in woken THEN "READY" ELSE c.run_state[t]]
  BY DEF Emptied
<1>3. \A t \in woken : lock[t] \notin Mutexes
  BY DEF WokenIn
<1>4. \A q \in Q : \A i \in Wakeable(c, q, gone) : c.queue[q][i] \in woken
  BY SMT DEF WokenIn
<1>. HIDE DEF d, woken
<1>5. ASSUME NEW u \in Threads, d.run_state[u] = "BLOCKED",
             NEW q \in Queues
      PROVE  c.run_state[u] = "BLOCKED" /\ (InQueue(d, u, q) <=> InQueue(c, u, q))
  <2>1. u \notin woken /\ c.run_state[u] = "BLOCKED" /\ owner[u] \notin gone
    BY <1>1, <1>2, <1>5 DEF NoneGone
  <2>2. CASE q \notin Q
    BY <1>2, <2>1, <2>2 DEF InQueue
  <2>3. CASE q \in Q
    <3>1. d.queue[q] = <<>> /\ ~InQueue(d, u, q)
      BY <1>2, <2>3, SMT DEF InQueue
    <3>2. \A i \in 1..Len(c.queue[q]) : i \notin Wakeable(c, q, gone) =>
            c.queue[q][i] # u
      BY <2>1, WakeableIsBlocked, SMT
    <3>3. \A i \in 1..Len(c.queue[q]) : c.queue[q][i] # u
      BY <1>4, <2>1, <2>3, <3>2
    <3>. QED
      BY <2>1, <3>1, <3>3 DEF InQueue
  <2>. QED
    BY <2>2, <2>3
<1>6. ASSUME NEW u \in Threads, lock[u] \in Mutexes
      PROVE  d.run_state[u] = c.run_state[u]
  BY <1>1, <1>2, <1>3, <1>6
<1>7. \A u \in Threads : d.run_state[u] = "BLOCKED" =>
        /\ c.run_state[u] = "BLOCKED"
        /\ \A x \in Mutexes :
             InQueue(d, u, Waiters(x)) <=> InQueue(c, u, Waiters(x))
  <2>. SUFFICES ASSUME NEW u \in Threads, d.run_state[u] = "BLOCKED"
                PROVE  /\ c.run_state[u] = "BLOCKED"
                       /\ \A x \in Mutexes :
                            InQueue(d, u, Waiters(x)) <=> InQueue(c, u, Waiters(x))
    OBVIOUS
  <2>1. c.run_state[u] = "BLOCKED"
    BY <1>1, <1>2
  <2>2. \A q \in Queues : InQueue(d, u, q) <=> InQueue(c, u, q)
    BY <1>5
  <2>. QED
    BY <1>1, <2>1, <2>2
<1>8. \A u \in Threads : lock[u] \in Mutexes => d.run_state[u] = c.run_state[u]
  BY <1>6
<1>9. Undisturbed(c, d, lock)
  BY <1>7, <1>8 DEF Undisturbed
<1>. QED
  BY <1>9 DEF d

\* A queue that is not a mutex's.
Elsewhere(q) == q \in Queues /\ \A x \in Mutexes : q # Waiters(x)

\* Who sleeps in such a queue waits for no mutex.
LEMMA SleepsElsewhere ==
  ASSUME NEW c, NEW own, NEW gone, CoreInv(c, own, gone), NEW lock,
         SleepersFit(c, lock), NEW q, Elsewhere(q), NEW u \in Threads,
         c.run_state[u] = "BLOCKED", InQueue(c, u, q)
  PROVE  lock[u] \notin Mutexes
<1>. SUFFICES ASSUME NEW x \in Mutexes, lock[u] = x PROVE FALSE
  OBVIOUS
<1>1. InQueue(c, u, Waiters(x)) /\ Waiters(x) \in Queues /\ QueuedOnce(c)
  BY DEF SleepersFit, CoreInv, Waiters, Queues
<1>2. Waiters(x) = q
  BY <1>1, OnePlace, SMT DEF InQueue, Elsewhere
<1>. QED
  BY <1>2 DEF Elsewhere

\* PROC_unblock_all on such a queue disturbs nobody who waits for a mutex.
LEMMA UnblockAllUndisturbed ==
  ASSUME NEW c, NEW gone, CoreInv(c, owner, gone), NEW lock,
         SleepersFit(c, lock), NoneGone(c, gone), NEW q, Elsewhere(q)
  PROVE  Undisturbed(c, UnblockAll(c, q, gone), lock)
<1>1. q \in Queues
  BY DEF Elsewhere
<1>2. \A i \in Wakeable(c, q, gone) : lock[c.queue[q][i]] \notin Mutexes
  <2>. TAKE i \in Wakeable(c, q, gone)
  <2>1. /\ c.queue[q][i] \in Threads /\ c.run_state[c.queue[q][i]] = "BLOCKED"
        /\ InQueue(c, c.queue[q][i], q)
    BY <1>1, WakeableIsBlocked DEF InQueue
  <2>. QED
    BY <2>1, SleepsElsewhere
<1>. DEFINE Q == {q}
<1>3. /\ Q \in SUBSET Queues
      /\ \A r \in Q : \A i \in Wakeable(c, r, gone) :
           lock[c.queue[r][i]] \notin Mutexes
  BY <1>1, <1>2
<1>4. UnblockAll(c, q, gone) = Emptied(c, Q, gone)
  BY <1>1, UnblockAllIsEmptied
<1>. HIDE DEF Q
<1>. QED
  BY <1>3, <1>4, EmptiedUndisturbed

\* Nor does process_teardown, once the threads of the process are dead: the
\* waiters of its mutexes are threads of its own.
LEMMA TornDownUndisturbed ==
  ASSUME NEW c, CoreInv(c, owner, zombie), NEW p \in Procs, NEW lock,
         mutex_list \in SUBSET Mutexes, parent \in [Procs -> Procs \cup {None}],
         SleepersFit(c, lock), NoneGone(c, zombie \cup {p}),
         \A u \in Threads, x \in Mutexes :
           c.run_state[u] = "BLOCKED" /\ lock[u] = x => owner_process[x] = owner[u]
  PROVE  Undisturbed(c, TornDown(c, p), lock)
<1>. DEFINE gone == zombie \cup {p}
            Q == {Waiters(m) : m \in MutexesOf(p)}
            c1 == WaitersReleased(c, p, gone)
<1>1. CoreInv(c, owner, gone)
  BY GoneGrows
<1>2. Q \in SUBSET Queues /\ c1 = Emptied(c, Q, gone)
  BY SMT DEF MutexesOf, Waiters, Queues, WaitersReleased, Emptied, WokenIn
<1>3. \A q \in Q : \A i \in Wakeable(c, q, gone) : FALSE
  <2>. SUFFICES ASSUME NEW m \in MutexesOf(p),
                       NEW i \in Wakeable(c, Waiters(m), gone)
                PROVE  FALSE
    OBVIOUS
  <2>. DEFINE u == c.queue[Waiters(m)][i]
  <2>1. m \in Mutexes /\ owner_process[m] = p /\ Waiters(m) \in Queues
    BY DEF MutexesOf, Waiters, Queues
  <2>2. u \in Threads /\ c.run_state[u] = "BLOCKED" /\ InQueue(c, u, Waiters(m))
    BY <1>1, <2>1, WakeableIsBlocked, SMT DEF InQueue
  <2>3. lock[u] = m
    BY <2>1, <2>2, SMT DEF SleepersFit
  <2>. QED
    BY <2>1, <2>2, <2>3 DEF NoneGone
<1>. HIDE DEF Q
<1>4. Undisturbed(c, c1, lock)
  BY <1>1, <1>2, <1>3, EmptiedUndisturbed
<1>5. CASE p \in zombie
  BY <1>5 DEF TornDown, Undisturbed
<1>6. CASE p \notin zombie /\ parent[p] = None
  BY <1>4, <1>6 DEF TornDown
<1>7. CASE p \notin zombie /\ parent[p] # None
  <2>. DEFINE q == WaitChildExit(parent[p])
              d == UnblockAll(c1, q, gone)
  <2>1. Elsewhere(q)
    BY <1>7 DEF Elsewhere, WaitChildExit, Waiters, Queues
  <2>2. CoreInv(c1, owner, gone) /\ SleepersFit(c1, lock)
    BY <1>1, <1>4, WaitersReleasedKeeps, UndisturbedFits
  <2>3. NoneGone(c1, gone)
    BY <1>4 DEF NoneGone, Undisturbed
  <2>. HIDE DEF c1, q, gone
  <2>4. Undisturbed(c1, d, lock)
    BY <2>1, <2>2, <2>3, UnblockAllUndisturbed
  <2>5. TornDown(c, p) = d
    BY <1>7 DEF TornDown, c1, q, gone
  <2>. QED
    BY <1>4, <2>4, <2>5, UndisturbedTwice
<1>. QED
  BY <1>5, <1>6, <1>7

\* Nor does the choice of the next thread.
LEMMA RescheduleUndisturbed ==
  ASSUME NEW c, NEW own, NEW gone, CoreInv(c, own, gone), NEW cur,
         Reschedule(c, cur), NEW lock
  PROVE  Undisturbed(c, core', lock)
<1>1. /\ c.run_state \in [AllThreads -> RunStates] /\ Threads \subseteq AllThreads
      /\ \A t \in c.pool : t \in Threads /\ c.run_state[t] \in {"READY", "RUNNING"}
  BY DEF CoreInv, CoreTyped, PoolExact, AllThreads
<1>2. core'.run_state = run_state' /\ core'.queue = queue'
  BY DEF core
<1>3. queue' = c.queue
  BY DEF Reschedule, SetCore
<1>4. \A t \in Threads :
        \/ run_state'[t] = c.run_state[t]
        \/ /\ run_state'[t] \in {"READY", "RUNNING"}
           /\ c.run_state[t] \in {"READY", "RUNNING"}
  BY <1>1 DEF Reschedule, SetCore
<1>5. \A u, q : InQueue(core', u, q) <=> InQueue(c, u, q)
  BY <1>2, <1>3 DEF InQueue
<1>. QED
  BY <1>2, <1>4, <1>5 DEF Undisturbed

\* Nor does a death.
LEMMA DeathUndisturbed ==
  ASSUME NEW c, NEW d, NEW lock, d.queue = c.queue,
         \A u \in Threads : \/ d.run_state[u] = c.run_state[u]
                            \/ d.run_state[u] = "ZOMBIE"
  PROVE  Undisturbed(c, d, lock)
BY DEF Undisturbed, InQueue

-----------------------------------------------------------------------------
(***************************************************************************)
(* What PROC_block_on and PROC_unblock_one do to the queues.               *)
(***************************************************************************)
LEMMA BlockedOnIs ==
  ASSUME NEW c, NEW own, NEW gone, CoreInv(c, own, gone),
         NEW t \in Threads, c.run_state[t] \in {"READY", "RUNNING"},
         NEW q \in Queues
  PROVE  LET d == BlockedOn(c, t, q)
         IN  /\ d.run_state[t] = "BLOCKED"
             /\ \A r \in Queues : InQueue(d, t, r) <=> r = q
             /\ \A u \in Threads : u # t =>
                  /\ d.run_state[u] = c.run_state[u]
                  /\ \A r \in Queues : InQueue(d, u, r) <=> InQueue(c, u, r)
<1>. DEFINE d == BlockedOn(c, t, q)
            n == Len(c.queue[q])
<1>1. /\ d.run_state = [c.run_state EXCEPT ![t] = "BLOCKED"]
      /\ d.queue = [c.queue EXCEPT ![q] = Append(@, t)]
  BY DEF BlockedOn
<1>2. /\ c.run_state \in [AllThreads -> RunStates]
      /\ c.queue \in [Queues -> Seq(Threads)] /\ Threads \subseteq AllThreads
      /\ c.queue[q] \in Seq(Threads) /\ n \in Nat
  BY SMT DEF CoreInv, CoreTyped, AllThreads
<1>. HIDE DEF d
<1>3. /\ Len(d.queue[q]) = n + 1 /\ d.queue[q][n + 1] = t
      /\ \A i \in 1..n : d.queue[q][i] = c.queue[q][i]
      /\ \A r \in Queues : r # q => d.queue[r] = c.queue[r]
  BY <1>1, <1>2, Appended, SMT
<1>4. \A r \in Queues : ~InQueue(c, t, r)
  BY DEF InQueue, CoreInv, QueuedIsAsleep
<1>5. \A u \in Threads : u # t => (InQueue(d, u, q) <=> InQueue(c, u, q))
  <2>. HIDE DEF n
  <2>. TAKE u \in Threads
  <2>1. \A i \in 1..(n + 1) : i \in 1..n \/ i = n + 1
    BY <1>2, SMT
  <2>2. 1..n \subseteq 1..(n + 1)
    BY <1>2, SMT
  <2>. QED
    BY <1>3, <2>1, <2>2 DEF InQueue, n
<1>6. InQueue(d, t, q)
  <2>1. n + 1 \in 1..(n + 1)
    BY <1>2, SMT
  <2>. QED
    BY <1>3, <2>1 DEF InQueue
<1>7. \A u \in Threads, r \in Queues : r # q =>
        (InQueue(d, u, r) <=> InQueue(c, u, r))
  BY <1>3 DEF InQueue
<1>8. d.run_state[t] = "BLOCKED"
      /\ \A u \in Threads : u # t => d.run_state[u] = c.run_state[u]
  BY <1>1, <1>2
<1>. QED
  BY <1>4, <1>5, <1>6, <1>7, <1>8 DEF d

\* PROC_unblock_one wakes the first live thread of the queue, if there is one.
LEMMA UnblockOneIs ==
  ASSUME LeastNumber, NEW c, NEW gone, CoreInv(c, owner, gone), NoneGone(c, gone),
         NEW q \in Queues
  PROVE  LET d == UnblockOne(c, q, gone)
             w == Unblocked(c, q, gone)
         IN  /\ \A u \in Threads : u # w =>
                  /\ d.run_state[u] = c.run_state[u]
                  /\ c.run_state[u] = "BLOCKED" =>
                       \A r \in Queues : InQueue(d, u, r) <=> InQueue(c, u, r)
             /\ w # None => /\ w \in Threads /\ InQueue(c, w, q)
                            /\ c.run_state[w] = "BLOCKED"
                            /\ d.run_state[w] = "READY"
             /\ w = None => \A u \in Threads : InQueue(c, u, q) =>
                                c.run_state[u] # "BLOCKED"
<1>. DEFINE d == UnblockOne(c, q, gone)
            w == Unblocked(c, q, gone)
            s == c.queue[q]
            W == Wakeable(c, q, gone)
            i == FirstOf(W)
<1>1. /\ c.run_state \in [AllThreads -> RunStates]
      /\ c.queue \in [Queues -> Seq(Threads)] /\ Threads \subseteq AllThreads
      /\ s \in Seq(Threads) /\ Len(s) \in Nat
  BY SMT DEF CoreInv, CoreTyped, AllThreads
<1>2. /\ W \in SUBSET (1..Len(s))
      /\ \A j \in W : s[j] \in Threads /\ c.run_state[s[j]] = "BLOCKED"
      /\ \A j \in 1..Len(s) : j \notin W =>
           c.run_state[s[j]] = "ZOMBIE" \/ owner[s[j]] \in gone
  BY WakeableIsBlocked
<1>3. ASSUME NEW j \in 1..Len(s), j \notin W
      PROVE  s[j] \in Threads /\ c.run_state[s[j]] # "BLOCKED"
  <2>1. s[j] \in Threads
    BY <1>1, SMT
  <2>. QED
    BY <1>2, <1>3, <2>1 DEF NoneGone
<1>4. CASE W = {}
  <2>1. /\ d.run_state = c.run_state /\ d.queue = [c.queue EXCEPT ![q] = <<>>]
        /\ w = None
    BY <1>4 DEF UnblockOne, Unblocked
  <2>. HIDE DEF d, w, W, s
  <2>2. \A u \in Threads : InQueue(c, u, q) => c.run_state[u] # "BLOCKED"
    BY <1>3, <1>4 DEF InQueue, s
  <2>3. \A u \in Threads : ~InQueue(d, u, q)
    BY <1>1, <2>1, SMT DEF InQueue
  <2>4. \A r \in Queues : r # q => d.queue[r] = c.queue[r]
    BY <1>1, <2>1
  <2>5. \A u \in Threads, r \in Queues : c.run_state[u] = "BLOCKED" =>
          (InQueue(d, u, r) <=> InQueue(c, u, r))
    BY <2>2, <2>3, <2>4 DEF InQueue
  <2>. QED
    BY <2>1, <2>2, <2>5 DEF d, w
<1>5. CASE W # {}
  <2>1. i \in W /\ \A j \in W : i <= j
    BY <1>1, <1>2, <1>5, FirstOfIsLeast, SMT
  <2>2. /\ d.run_state = [c.run_state EXCEPT ![s[i]] = "READY"]
        /\ d.queue = [c.queue EXCEPT ![q] = SubSeq(s, i + 1, Len(s))]
        /\ w = s[i]
    BY <1>5 DEF UnblockOne, Unblocked
  <2>. HIDE DEF d, w, W, s, i
  <2>3. i \in 1..Len(s) /\ i \in Nat /\ w \in Threads /\ c.run_state[w] = "BLOCKED"
    BY <1>1, <1>2, <2>1, <2>2, SMT
  <2>4. w # None
    BY <2>3, MultitaskAssumption
  <2>5. InQueue(c, w, q)
    BY <2>2, <2>3 DEF InQueue, s
  <2>6. /\ d.run_state[w] = "READY"
        /\ \A u \in Threads : u # w => d.run_state[u] = c.run_state[u]
    BY <1>1, <2>2, <2>3
  <2>7. \A r \in Queues : r # q => d.queue[r] = c.queue[r]
    BY <1>1, <2>2
  <2>. DEFINE e == SubSeq(s, i + 1, Len(s))
  <2>8. /\ d.queue[q] = e /\ Len(e) = Len(s) - i
        /\ \A k \in 1..(Len(s) - i) : e[k] = s[i + k]
    BY <1>1, <2>2, <2>3, PartOf, SMT
  <2>. HIDE DEF e
  <2>9. ASSUME NEW u \in Threads, u # w, c.run_state[u] = "BLOCKED"
        PROVE  InQueue(d, u, q) <=> InQueue(c, u, q)
    <3>1. ASSUME NEW k \in 1..Len(d.queue[q]), d.queue[q][k] = u
          PROVE  InQueue(c, u, q)
      <4>1. i + k \in 1..Len(s) /\ s[i + k] = u
        BY <1>1, <2>3, <2>8, <3>1, SMT
      <4>. QED
        BY <4>1 DEF InQueue, s
    <3>2. ASSUME NEW j \in 1..Len(s), s[j] = u
          PROVE  InQueue(d, u, q)
      <4>1. j \in W
        BY <1>3, <2>9, <3>2
      <4>2. i <= j /\ j # i
        BY <2>1, <2>2, <2>9, <3>2, <4>1
      <4>3. j - i \in 1..(Len(s) - i) /\ i + (j - i) = j
        BY <1>1, <2>3, <4>2, SMT
      <4>4. e[j - i] = u
        BY <2>8, <3>2, <4>3
      <4>. QED
        BY <2>8, <4>3, <4>4 DEF InQueue
    <3>. QED
      BY <3>1, <3>2 DEF InQueue, s
  <2>10. \A u \in Threads : u # w /\ c.run_state[u] = "BLOCKED" =>
           \A r \in Queues : InQueue(d, u, r) <=> InQueue(c, u, r)
    <3>. SUFFICES ASSUME NEW u \in Threads, u # w, c.run_state[u] = "BLOCKED",
                         NEW r \in Queues
                  PROVE  InQueue(d, u, r) <=> InQueue(c, u, r)
      OBVIOUS
    <3>1. CASE r = q
      BY <2>9, <3>1
    <3>2. CASE r # q
      BY <2>7, <3>2 DEF InQueue
    <3>. QED
      BY <3>1, <3>2
  <2>. QED
    BY <2>3, <2>4, <2>5, <2>6, <2>10 DEF d, w
<1>. QED
  BY <1>4, <1>5

\* PROC_unblock_one on a queue that is not a mutex's.
LEMMA UnblockOneUndisturbed ==
  ASSUME LeastNumber, NEW c, NEW gone, CoreInv(c, owner, gone), NEW lock,
         SleepersFit(c, lock), NoneGone(c, gone), NEW q, Elsewhere(q)
  PROVE  Undisturbed(c, UnblockOne(c, q, gone), lock)
<1>. DEFINE d == UnblockOne(c, q, gone)
            w == Unblocked(c, q, gone)
<1>1. q \in Queues /\ \A x \in Mutexes : Waiters(x) \in Queues
  BY DEF Elsewhere, Waiters, Queues
<1>2. /\ \A u \in Threads : u # w =>
           /\ d.run_state[u] = c.run_state[u]
           /\ c.run_state[u] = "BLOCKED" =>
                \A r \in Queues : InQueue(d, u, r) <=> InQueue(c, u, r)
      /\ w # None => /\ w \in Threads /\ InQueue(c, w, q)
                     /\ c.run_state[w] = "BLOCKED"
                     /\ d.run_state[w] = "READY"
  BY <1>1, UnblockOneIs, SMT
<1>. HIDE DEF d, w
<1>3. w # None => lock[w] \notin Mutexes
  BY <1>2, SleepsElsewhere
<1>4. \A u \in Threads : u # None
  BY MultitaskAssumption
<1>5. Undisturbed(c, d, lock)
  BY <1>1, <1>2, <1>3, <1>4 DEF Undisturbed
<1>. QED
  BY <1>5 DEF d

-----------------------------------------------------------------------------
(***************************************************************************)
(* The primitives that wake threads put nobody into a queue and stop       *)
(* nobody who can run.                                                     *)
(***************************************************************************)
Runs(c, u) == c.run_state[u] \in {"READY", "RUNNING"}

Awakens(c, d) ==
  \A u \in Threads : /\ \A q \in Queues : InQueue(d, u, q) => InQueue(c, u, q)
                     /\ Runs(c, u) => Runs(d, u)

\* What two steps do one after the other.
LEMMA AwakensTwice ==
  ASSUME NEW c, NEW d, NEW e, Awakens(c, d), Awakens(d, e)
  PROVE  Awakens(c, e)
BY DEF Awakens

\* Emptying queues wakes,
LEMMA EmptiedAwakens ==
  ASSUME NEW c, NEW gone, CoreInv(c, owner, gone), NEW Q \in SUBSET Queues
  PROVE  Awakens(c, Emptied(c, Q, gone))
<1>. DEFINE d == Emptied(c, Q, gone)
            woken == WokenIn(c, Q, gone)
<1>1. /\ d.queue = [q \in Queues |-> IF q \in Q THEN <<>> ELSE c.queue[q]]
      /\ d.run_state = [t \in AllThreads |->
                          IF t \in woken THEN "READY" ELSE c.run_state[t]]
  BY DEF Emptied
<1>. HIDE DEF d, woken
<1>2. \A u \in Threads, q \in Queues : InQueue(d, u, q) => InQueue(c, u, q)
  <2>. TAKE u \in Threads, q \in Queues
  <2>1. CASE q \in Q
    BY <1>1, <2>1, SMT DEF InQueue
  <2>2. CASE q \notin Q
    BY <1>1, <2>2 DEF InQueue
  <2>. QED
    BY <2>1, <2>2
<1>3. \A u \in Threads : Runs(c, u) => Runs(d, u)
  BY <1>1 DEF Runs, AllThreads
<1>4. Awakens(c, d)
  BY <1>2, <1>3 DEF Awakens
<1>. QED
  BY <1>4 DEF d

\* so does PROC_unblock_all,
LEMMA UnblockAllAwakens ==
  ASSUME NEW c, NEW gone, CoreInv(c, owner, gone), NEW q \in Queues
  PROVE  /\ Awakens(c, UnblockAll(c, q, gone))
         /\ \A u \in Threads : ~InQueue(UnblockAll(c, q, gone), u, q)
<1>1. {q} \in SUBSET Queues
  OBVIOUS
<1>2. UnblockAll(c, q, gone) = Emptied(c, {q}, gone)
  BY UnblockAllIsEmptied
<1>3. Awakens(c, UnblockAll(c, q, gone))
  BY <1>1, <1>2, EmptiedAwakens
<1>4. UnblockAll(c, q, gone).queue[q] = <<>>
  BY DEF UnblockAll, CoreInv, CoreTyped
<1>. QED
  BY <1>3, <1>4, SMT DEF InQueue

\* so does process_teardown, which leaves nobody in the queues of the mutexes
\* of the process,
LEMMA TornDownAwakens ==
  ASSUME NEW c, CoreInv(c, owner, zombie), NEW p \in Procs, p \notin zombie,
         mutex_list \in SUBSET Mutexes, parent \in [Procs -> Procs \cup {None}]
  PROVE  /\ Awakens(c, TornDown(c, p))
         /\ \A u \in Threads, m \in MutexesOf(p) :
              ~InQueue(TornDown(c, p), u, Waiters(m))
<1>. DEFINE gone == zombie \cup {p}
            Q == {Waiters(m) : m \in MutexesOf(p)}
            c1 == WaitersReleased(c, p, gone)
            d == TornDown(c, p)
<1>1. CoreInv(c, owner, gone)
  BY GoneGrows
<1>2. Q \in SUBSET Queues /\ c1 = Emptied(c, Q, gone)
  BY SMT DEF MutexesOf, Waiters, Queues, WaitersReleased, Emptied, WokenIn
<1>3. Awakens(c, c1)
  BY <1>1, <1>2, EmptiedAwakens, SMT
<1>4. \A u \in Threads, m \in MutexesOf(p) : ~InQueue(c1, u, Waiters(m))
  <2>. TAKE u \in Threads, m \in MutexesOf(p)
  <2>1. c1.queue[Waiters(m)] = <<>>
    BY <1>2 DEF WaitersReleased
  <2>. QED
    BY <2>1, SMT DEF InQueue
<1>5. Awakens(c1, d)
  <2>1. CASE parent[p] = None
    BY <2>1 DEF TornDown, Awakens
  <2>2. CASE parent[p] # None
    <3>1. WaitChildExit(parent[p]) \in Queues
      BY <2>2 DEF WaitChildExit, Queues
    <3>2. CoreInv(c1, owner, gone)
      BY <1>1, WaitersReleasedKeeps
    <3>3. d = UnblockAll(c1, WaitChildExit(parent[p]), gone)
      BY <2>2 DEF TornDown
    <3>. HIDE DEF c1, d, gone
    <3>. QED
      BY <3>1, <3>2, <3>3, UnblockAllAwakens
  <2>. QED
    BY <2>1, <2>2
<1>6. \A m \in MutexesOf(p) : Waiters(m) \in Queues
  BY <1>2
<1>. HIDE DEF c1, d, Q
<1>7. Awakens(c, d)
  BY <1>3, <1>5, AwakensTwice
<1>8. \A u \in Threads, m \in MutexesOf(p) : ~InQueue(d, u, Waiters(m))
  BY <1>4, <1>5, <1>6 DEF Awakens
<1>. QED
  BY <1>7, <1>8 DEF d

\* so does the choice of the next thread,
LEMMA RescheduleAwakens ==
  ASSUME NEW c, NEW own, NEW gone, CoreInv(c, own, gone), NEW cur,
         Reschedule(c, cur)
  PROVE  Awakens(c, core')
<1>1. /\ c.run_state \in [AllThreads -> RunStates] /\ Threads \subseteq AllThreads
      /\ core'.run_state = run_state' /\ core'.queue = queue'
  BY DEF CoreInv, CoreTyped, AllThreads, core
<1>2. queue' = c.queue
  BY DEF Reschedule, SetCore
<1>3. \A u \in Threads : Runs(c, u) => run_state'[u] \in {"READY", "RUNNING"}
  BY <1>1 DEF Reschedule, SetCore, Runs
<1>. QED
  BY <1>1, <1>2, <1>3 DEF Awakens, InQueue, Runs

\* and so does PROC_unblock_one.
LEMMA UnblockOneAwakens ==
  ASSUME LeastNumber, NEW c, NEW gone, CoreInv(c, owner, gone), NEW q \in Queues
  PROVE  Awakens(c, UnblockOne(c, q, gone))
<1>. DEFINE d == UnblockOne(c, q, gone)
            s == c.queue[q]
            W == Wakeable(c, q, gone)
            i == FirstOf(W)
<1>1. /\ c.run_state \in [AllThreads -> RunStates]
      /\ c.queue \in [Queues -> Seq(Threads)] /\ Threads \subseteq AllThreads
      /\ s \in Seq(Threads) /\ Len(s) \in Nat
  BY SMT DEF CoreInv, CoreTyped, AllThreads
<1>2. W \in SUBSET (1..Len(s)) /\ \A j \in W : s[j] \in Threads
  BY WakeableIsBlocked
<1>3. \A u \in Threads : Runs(c, u) => Runs(d, u)
  BY <1>1 DEF UnblockOne, Runs
<1>4. \A r \in Queues : r # q => d.queue[r] = c.queue[r]
  BY <1>1 DEF UnblockOne
<1>5. CASE W = {}
  <2>1. d.queue[q] = <<>>
    BY <1>1, <1>5 DEF UnblockOne
  <2>. HIDE DEF d
  <2>2. \A u \in Threads : ~InQueue(d, u, q)
    BY <2>1, SMT DEF InQueue
  <2>3. \A u \in Threads, r \in Queues : InQueue(d, u, r) => InQueue(c, u, r)
    BY <1>4, <2>2 DEF InQueue
  <2>. QED
    BY <1>3, <2>3 DEF Awakens, d
<1>6. CASE W # {}
  <2>1. i \in W /\ i \in 1..Len(s) /\ i \in Nat
    BY <1>1, <1>2, <1>6, FirstOfIsLeast, SMT
  <2>. DEFINE e == SubSeq(s, i + 1, Len(s))
  <2>2. d.queue[q] = e
    BY <1>1, <1>6 DEF UnblockOne
  <2>. HIDE DEF d, W, i, s
  <2>3. /\ Len(e) = Len(s) - i
        /\ \A k \in 1..(Len(s) - i) : e[k] = s[i + k]
    BY <1>1, <2>1, PartOf, SMT
  <2>. HIDE DEF e
  <2>4. ASSUME NEW u \in Threads, NEW k \in 1..Len(d.queue[q]), d.queue[q][k] = u
        PROVE  InQueue(c, u, q)
    <3>1. i + k \in 1..Len(s) /\ s[i + k] = u
      BY <1>1, <2>1, <2>2, <2>3, <2>4, SMT
    <3>. QED
      BY <3>1 DEF InQueue, s
  <2>5. \A u \in Threads, r \in Queues : InQueue(d, u, r) => InQueue(c, u, r)
    BY <1>4, <2>4 DEF InQueue
  <2>. QED
    BY <1>3, <2>5 DEF Awakens, d
<1>. QED
  BY <1>5, <1>6

-----------------------------------------------------------------------------
(***************************************************************************)
(* Every action keeps the rest of the invariant.  First the control points *)
(* that a thread may go to, with the object of its call.                   *)
(***************************************************************************)
LEMMA GotoFits ==
  ASSUME DataInv, NEW t \in Threads, NEW point \in ControlPoints,
         Goto(t, point), owner' \in [AllThreads -> Procs \cup {None}],
         zombie' \in SUBSET Procs,
         NEW x \in Threads \cup Procs \cup Mutexes \cup {None},
         arg' = [arg EXCEPT ![t] = x],
         point \in JoinPoints => x \in Threads,
         point = "wait_reap" => x \in Procs,
         point \in {"lock_sleep", "lock_woken"} => x \in Mutexes
  PROVE  ControlTyped' /\ ArgFits'
<1>1. /\ pc \in [Threads -> ControlPoints]
      /\ arg \in [Threads -> Threads \cup Procs \cup Mutexes \cup {None}]
      /\ pc' = [pc EXCEPT ![t] = point]
  BY DEF DataInv, ControlTyped, Goto
<1>2. ControlTyped'
  BY <1>1 DEF ControlTyped
<1>3. ArgFits'
  BY <1>1 DEF DataInv, ArgFits
<1>. QED
  BY <1>2, <1>3

\* A thread that moves on inside a call keeps the object of the call.
LEMMA GotoSameArg ==
  ASSUME DataInv, NEW t \in Threads, NEW point \in ControlPoints,
         Goto(t, point), owner' \in [AllThreads -> Procs \cup {None}],
         zombie' \in SUBSET Procs, arg' = arg,
         point \in JoinPoints => pc[t] \in JoinPoints,
         point # "wait_reap",
         point \in {"lock_sleep", "lock_woken"} =>
           pc[t] \in {"lock_sleep", "lock_woken"}
  PROVE  ControlTyped' /\ ArgFits'
<1>1. /\ arg \in [Threads -> Threads \cup Procs \cup Mutexes \cup {None}]
      /\ arg' = [arg EXCEPT ![t] = arg[t]]
  BY DEF DataInv, ControlTyped
<1>2. /\ point \in JoinPoints => arg[t] \in Threads
      /\ point \in {"lock_sleep", "lock_woken"} => arg[t] \in Mutexes
  BY DEF DataInv, ArgFits
<1>. QED
  BY <1>1, <1>2, GotoFits

\* A thread that stays where it is keeps it too.
LEMMA StayFits ==
  ASSUME DataInv, UNCHANGED <<pc, arg>>,
         owner' \in [AllThreads -> Procs \cup {None}], zombie' \in SUBSET Procs
  PROVE  ControlTyped' /\ ArgFits'
BY DEF DataInv, ControlTyped, ArgFits

\* One round of syscall_mutex_lock preserves the data part,
LEMMA LockAttemptData ==
  ASSUME IInv, NEW t \in Threads, NEW m \in Mutexes, LockAttempt(t, m),
         UNCHANGED <<owner, zombie, mutex_list, owner_process>>,
         arg' = [arg EXCEPT ![t] = m]
  PROVE  ControlTyped' /\ ArgFits' /\ MutexTypeOK' /\ HolderIsOwner'
<1>1. /\ holds \in [Threads -> SUBSET Mutexes]
      /\ owner_thread \in [Mutexes -> Threads \cup {None}]
      /\ MutexTypeOK /\ HolderIsOwner /\ DataInv
      /\ owner \in [AllThreads -> Procs \cup {None}] /\ zombie \in SUBSET Procs
  BY DEF IInv, DataInv, MutexTypeOK, ControlTyped
<1>2. ControlTyped' /\ ArgFits'
  <2>. m \in Threads \cup Procs \cup Mutexes \cup {None}
    OBVIOUS
  <2>. owner' \in [AllThreads -> Procs \cup {None}] /\ zombie' \in SUBSET Procs
    BY <1>1
  <2>. /\ {"user", "lock_sleep"} \subseteq ControlPoints
       /\ "user" \notin JoinPoints /\ "lock_sleep" \notin JoinPoints
    BY DEF ControlPoints, SleepPoints, JoinPoints
  <2>1. CASE Goto(t, "user")
    BY <2>1, <1>1, GotoFits
  <2>2. CASE Goto(t, "lock_sleep")
    BY <2>2, <1>1, GotoFits
  <2>. QED
    BY <2>1, <2>2 DEF LockAttempt, BlockAt
<1>3. CASE UNCHANGED <<owner_thread, holds>>
  BY <1>1, <1>2, <1>3 DEF MutexTypeOK, HolderIsOwner
<1>4. CASE /\ owner_thread[m] = None
           /\ owner_thread' = [owner_thread EXCEPT ![m] = t]
           /\ holds' = [holds EXCEPT ![t] = @ \cup {m}]
  <2>1. MutexTypeOK'
    BY <1>1, <1>4 DEF MutexTypeOK
  <2>2. HolderIsOwner'
    <3>. SUFFICES ASSUME NEW u \in Threads, NEW l \in holds'[u]
                  PROVE  owner_thread'[l] = u
      BY DEF HolderIsOwner
    <3>1. None \notin Threads
      BY MultitaskAssumption
    <3>2. CASE u = t /\ l = m
      BY <3>2, <1>1, <1>4
    <3>3. CASE l \in holds[u] /\ l # m
      BY <3>3, <1>1, <1>4 DEF HolderIsOwner
    <3>. QED
      BY <3>1, <3>2, <3>3, <1>1, <1>4 DEF HolderIsOwner
  <2>. QED
    BY <1>2, <2>1, <2>2
<1>. QED
  BY <1>3, <1>4 DEF LockAttempt

\* and so does every call of mutex_syscalls.c.
LEMMA MutexData ==
  ASSUME LeastNumber, IInv, NEW t \in Threads, MutexNext(t), UNCHANGED <<pvars, kbd_chars>>
  PROVE  DataInv'
<1>1. /\ holds \in [Threads -> SUBSET Mutexes]
      /\ owner_thread \in [Mutexes -> Threads \cup {None}]
      /\ MutexTypeOK /\ HolderIsOwner /\ DataInv /\ SchedInv
      /\ owner \in [AllThreads -> Procs \cup {None}] /\ zombie \in SUBSET Procs
  BY DEF IInv, DataInv, MutexTypeOK, ControlTyped
<1>2. UNCHANGED <<owner, zombie>>
  BY DEF MutexNext, MutexCreate, MutexLock, MutexLockWoken, MutexUnlock,
         MutexDestroy, tvars
<1>3. ProcessTypeOK' /\ kbd_chars' \in 0..KbdCapacity /\ ListedIsOwned'
  BY <1>1, <1>2 DEF DataInv, ProcessTypeOK, pvars, ListedIsOwned
<1>4. ControlTyped' /\ ArgFits' /\ MutexTypeOK' /\ HolderIsOwner'
  <2>1. CASE MutexCreate(t)
    <3>1. ControlTyped' /\ ArgFits'
      BY <2>1, <1>1, StayFits DEF MutexCreate, tvars
    <3>2. MutexTypeOK' /\ HolderIsOwner'
      <4>1. t \in AllThreads
        BY DEF AllThreads
      <4>. QED
        BY <2>1, <1>1, <4>1 DEF MutexCreate, MutexTypeOK, HolderIsOwner
    <3>. QED
      BY <3>1, <3>2
  <2>2. CASE MutexLock(t)
    BY <2>2, LockAttemptData DEF MutexLock
  <2>3. CASE MutexLockWoken(t)
    <3>1. arg[t] \in Mutexes /\ pc[t] = "lock_woken"
      BY <2>3, <1>1 DEF MutexLockWoken, At, DataInv, ArgFits
    <3>2. arg' = [arg EXCEPT ![t] = arg[t]] /\ arg' = arg
      BY <2>3, <1>1 DEF MutexLockWoken, DataInv, ControlTyped
    <3>3. CASE owner_thread[arg[t]] = t
      <4>1. /\ holds' = [holds EXCEPT ![t] = @ \cup {arg[t]}]
            /\ Goto(t, "user")
            /\ UNCHANGED <<owner_thread, mutex_list, owner_process>>
        BY <2>3, <3>3 DEF MutexLockWoken
      <4>2. ControlTyped' /\ ArgFits'
        BY <4>1, <1>1, <1>2, <3>2, GotoSameArg DEF ControlPoints, JoinPoints
      <4>3. MutexTypeOK' /\ HolderIsOwner'
        BY <4>1, <1>1, <3>1, <3>3 DEF MutexTypeOK, HolderIsOwner
      <4>. QED
        BY <4>2, <4>3
    <3>4. CASE owner_thread[arg[t]] # t
      BY <2>3, <3>1, <3>2, <3>4, LockAttemptData DEF MutexLockWoken
    <3>. QED
      BY <3>3, <3>4
  <2>4. CASE MutexUnlock(t)
    <3>1. ControlTyped' /\ ArgFits'
      BY <2>4, <1>1, StayFits DEF MutexUnlock
    <3>2. PICK m \in Mutexes :
            /\ owner_thread[m] = t
            /\ owner_thread' = [owner_thread EXCEPT
                                  ![m] = Unblocked(core, Waiters(m), zombie)]
            /\ holds' = [holds EXCEPT ![t] = @ \ {m}]
      BY <2>4 DEF MutexUnlock
    <3>3. Unblocked(core, Waiters(m), zombie) \in Threads \cup {None}
      <4>. DEFINE q == Waiters(m)
                  W == Wakeable(core, q, zombie)
      <4>1. q \in Queues
        BY DEF Waiters, Queues
      <4>2. /\ W \in SUBSET (1..Len(core.queue[q]))
            /\ \A i \in W : core.queue[q][i] \in Threads
        BY <1>1, <4>1, WakeableIsBlocked DEF SchedInv
      <4>3. W \in SUBSET Nat
        BY <1>1, <4>1, <4>2, SMT DEF SchedInv, CoreInv, CoreTyped
      <4>4. W # {} => FirstOf(W) \in W
        BY <4>3, FirstOfIsLeast
      <4>. QED
        BY <4>2, <4>4 DEF Unblocked
    <3>4. MutexTypeOK'
      BY <2>4, <1>1, <3>2, <3>3 DEF MutexUnlock, MutexTypeOK
    <3>5. HolderIsOwner'
      BY <1>1, <3>2 DEF HolderIsOwner
    <3>. QED
      BY <3>1, <3>4, <3>5
  <2>5. CASE MutexDestroy(t)
    <3>1. ControlTyped' /\ ArgFits'
      BY <2>5, <1>1, StayFits DEF MutexDestroy, tvars
    <3>2. MutexTypeOK' /\ HolderIsOwner'
      BY <2>5, <1>1 DEF MutexDestroy, MutexTypeOK, HolderIsOwner
    <3>. QED
      BY <3>1, <3>2
  <2>. QED
    BY <2>1, <2>2, <2>3, <2>4, <2>5 DEF MutexNext
<1>. QED
  BY <1>3, <1>4 DEF DataInv

(***************************************************************************)
(* Unlinking a thread from the list of its process leaves a list of        *)
(* threads that were in it.                                                *)
(***************************************************************************)
LEMMA IndexOfMember ==
  ASSUME NEW s \in Seq(AllThreads), NEW u \in Range(s)
  PROVE  IndexOf(s, u) \in 1..Len(s) /\ s[IndexOf(s, u)] = u
<1>1. \E i \in DOMAIN s : s[i] = u
  BY DEF Range
<1>2. IndexOf(s, u) \in DOMAIN s /\ s[IndexOf(s, u)] = u
  BY <1>1 DEF IndexOf
<1>. QED
  BY <1>2, SMT

\* The members of a list of threads are threads.
LEMMA ListedAreThreads ==
  ASSUME NEW s \in Seq(AllThreads)
  PROVE  Range(s) \subseteq AllThreads
<1>1. \A i \in DOMAIN s : s[i] \in AllThreads
  BY SMT
<1>. QED
  BY <1>1 DEF Range

\* After returns a part of a list.
LEMMA AfterIsPart ==
  ASSUME NEW s \in Seq(AllThreads), NEW u
  PROVE  /\ After(s, u) \in Seq(AllThreads)
         /\ \A i \in 1..Len(After(s, u)) : After(s, u)[i] \in Range(s)
<1>1. CASE u \notin Range(s)
  BY <1>1, SMT DEF After
<1>2. CASE u \in Range(s)
  <2>. DEFINE k == IndexOf(s, u)
              a == SubSeq(s, k + 1, Len(s))
  <2>1. k \in 1..Len(s) /\ Len(s) \in Nat
    BY <1>2, IndexOfMember, SMT
  <2>. HIDE DEF k
  <2>2. \A i \in (k + 1)..Len(s) : s[i] \in AllThreads /\ s[i] \in Range(s)
    BY <2>1, SMT DEF Range
  <2>3. /\ a \in Seq(AllThreads)
        /\ Len(a) = IF k + 1 <= Len(s) THEN Len(s) - k ELSE 0
        /\ \A i \in 1..(Len(s) - k) : a[i] = s[k + i]
    BY <2>1, <2>2, PartOf, SMT
  <2>4. \A i \in 1..Len(a) : a[i] \in Range(s)
    BY <2>1, <2>2, <2>3, SMT
  <2>5. After(s, u) = a
    BY <1>2 DEF After, k
  <2>. QED
    BY <2>3, <2>4, <2>5
<1>. QED
  BY <1>1, <1>2

\* unlink_thread leaves a part of a list, whatever predecessor it is given.
LEMMA UnlinkedIsPart ==
  ASSUME NEW s \in Seq(AllThreads), NEW pred, NEW u
  PROVE  /\ Unlinked(s, pred, u) \in Seq(AllThreads)
         /\ Range(Unlinked(s, pred, u)) \subseteq Range(s)
<1>. DEFINE a == After(s, u)
<1>1. a \in Seq(AllThreads) /\ \A i \in 1..Len(a) : a[i] \in Range(s)
  BY AfterIsPart
<1>. HIDE DEF a
<1>2. CASE pred = None
  <2>1. Unlinked(s, pred, u) = a
    BY <1>2 DEF Unlinked, a
  <2>2. Range(a) \subseteq Range(s)
    BY <1>1, SMT DEF Range
  <2>. QED
    BY <1>1, <2>1, <2>2
<1>3. CASE pred # None /\ pred \in Range(s)
  <2>. DEFINE k == IndexOf(s, pred)
              b == SubSeq(s, 1, k)
  <2>1. k \in 1..Len(s) /\ Len(s) \in Nat
    BY <1>3, IndexOfMember, SMT
  <2>. HIDE DEF k
  <2>2. \A i \in 1..k : s[i] \in AllThreads /\ s[i] \in Range(s)
    BY <2>1, SMT DEF Range
  <2>3. b \in Seq(AllThreads) /\ Len(b) = k /\ \A i \in 1..k : b[i] = s[i]
    BY <2>1, <2>2, PartOf, SMT
  <2>. HIDE DEF b
  <2>4. /\ b \o a \in Seq(AllThreads)
        /\ Len(b \o a) = k + Len(a)
        /\ \A i \in 1..(k + Len(a)) :
             (b \o a)[i] = IF i <= k THEN b[i] ELSE a[i - k]
    BY <1>1, <2>1, <2>3, Concatenated
  <2>5. \A i \in 1..(k + Len(a)) : (b \o a)[i] \in Range(s)
    <3>. TAKE i \in 1..(k + Len(a))
    <3>1. CASE i <= k
      <4>1. i \in 1..k /\ (b \o a)[i] = b[i]
        BY <3>1, <2>1, <2>4, SMT
      <4>. QED
        BY <4>1, <2>2, <2>3
    <3>2. CASE i > k
      <4>1. i - k \in 1..Len(a)
        BY <3>2, <1>1, <2>1, SMT
      <4>. QED
        BY <3>2, <4>1, <1>1, <2>1, <2>4, SMT
    <3>3. i <= k \/ i > k
      BY <1>1, <2>1, SMT
    <3>. QED
      BY <3>1, <3>2, <3>3
  <2>6. Range(b \o a) \subseteq Range(s)
    <3>1. DOMAIN (b \o a) = 1..(k + Len(a))
      BY <2>4, SMT
    <3>2. \A x \in Range(b \o a) : \E i \in 1..(k + Len(a)) : x = (b \o a)[i]
      BY <3>1 DEF Range
    <3>. QED
      BY <2>5, <3>2
  <2>7. Unlinked(s, pred, u) = b \o a
    BY <1>3 DEF Unlinked, a, b, k
  <2>. QED
    BY <2>4, <2>6, <2>7
<1>4. CASE pred # None /\ pred \notin Range(s)
  BY <1>4 DEF Unlinked
<1>. QED
  BY <1>2, <1>3, <1>4

\* The predecessor of a list member is a thread or NULL.
LEMMA PredecessorTyped ==
  ASSUME NEW s \in Seq(AllThreads), NEW u \in Range(s)
  PROVE  Predecessor(s, u) \in AllThreads \cup {None}
<1>1. IndexOf(s, u) \in 1..Len(s)
  BY IndexOfMember
<1>2. CASE IndexOf(s, u) = 1
  BY <1>2 DEF Predecessor
<1>3. CASE IndexOf(s, u) # 1
  <2>1. IndexOf(s, u) - 1 \in 1..Len(s)
    BY <1>1, <1>3, SMT
  <2>. QED
    BY <1>3, <2>1, SMT DEF Predecessor
<1>. QED
  BY <1>2, <1>3

(***************************************************************************)
(* Creation, exec and termination.                                         *)
(***************************************************************************)
LEMMA LinkData ==
  ASSUME IInv, NEW u \in Threads, NEW p \in Procs, LinkAndAdmit(u, p)
  PROVE  /\ owner' \in [AllThreads -> Procs \cup {None}]
         /\ threads' \in [Procs -> Seq(AllThreads)]
         /\ live_threads' \in [Procs -> Nat]
         /\ ListedIsOwned'
<1>1. /\ owner \in [AllThreads -> Procs \cup {None}]
      /\ threads \in [Procs -> Seq(AllThreads)]
      /\ live_threads \in [Procs -> Nat]
      /\ ListedIsOwned /\ u \in AllThreads
  BY DEF IInv, DataInv, ControlTyped, ProcessTypeOK, AllThreads
<1>2. /\ owner' = [owner EXCEPT ![u] = p]
      /\ threads' = [threads EXCEPT ![p] = <<u>> \o @]
      /\ live_threads' = [live_threads EXCEPT ![p] = @ + 1]
  BY DEF LinkAndAdmit
<1>. DEFINE s == <<u>> \o threads[p]
<1>3. /\ s \in Seq(AllThreads)
      /\ Len(s) = 1 + Len(threads[p])
      /\ \A i \in 1..Len(s) : s[i] = IF i <= 1 THEN u ELSE threads[p][i - 1]
  <2>1. <<u>> \in Seq(AllThreads) /\ Len(<<u>>) = 1 /\ <<u>>[1] = u
    BY <1>1, SMT
  <2>2. threads[p] \in Seq(AllThreads)
    BY <1>1
  <2>. QED
    BY <2>1, <2>2, Concatenated, SMT
<1>. HIDE DEF s
<1>4. Range(s) \subseteq {u} \cup Range(threads[p])
  <2>1. \A x \in Range(s) : \E i \in 1..Len(s) : x = s[i]
    BY <1>3, SMT DEF Range
  <2>2. \A i \in 1..Len(s) : s[i] \in {u} \cup Range(threads[p])
    <3>. TAKE i \in 1..Len(s)
    <3>1. CASE i <= 1
      BY <3>1, <1>3
    <3>2. CASE i > 1
      <4>. DEFINE n == Len(threads[p])
      <4>1. n \in Nat /\ DOMAIN threads[p] = 1..n
        BY <1>1, SMT
      <4>2. i - 1 \in DOMAIN threads[p] /\ s[i] = threads[p][i - 1]
        BY <3>2, <1>3, <4>1, SMT
      <4>. QED
        BY <4>2 DEF Range
    <3>3. i <= 1 \/ i > 1
      BY <1>3, SMT
    <3>. QED
      BY <3>1, <3>2, <3>3
  <2>. QED
    BY <2>1, <2>2
<1>5. threads' = [threads EXCEPT ![p] = s]
  BY <1>2 DEF s
<1>6. \A x \in AllThreads : owner[x] \in Procs => owner'[x] \in Procs
  BY <1>1, <1>2
<1>7. ListedIsOwned'
  <2>. SUFFICES ASSUME NEW r \in Procs, NEW x \in Range(threads'[r])
                PROVE  owner'[x] \in Procs
    BY DEF ListedIsOwned
  <2>1. x = u \/ x \in Range(threads[r])
    BY <1>1, <1>4, <1>5
  <2>2. CASE x = u
    BY <2>2, <1>1, <1>2
  <2>3. CASE x \in Range(threads[r])
    <3>1. owner[x] \in Procs
      BY <2>3, <1>1 DEF ListedIsOwned
    <3>2. x \in AllThreads
      <4>1. threads[r] \in Seq(AllThreads)
        BY <1>1
      <4>. QED
        BY <2>3, <4>1, ListedAreThreads
    <3>. QED
      BY <3>1, <3>2, <1>6
  <2>. QED
    BY <2>1, <2>2, <2>3
<1>. QED
  BY <1>1, <1>2, <1>3, <1>5, <1>7, SMT

\* The creation of threads and processes preserves the data part.
LEMMA CreateData ==
  ASSUME IInv, NEW t \in Threads, t = curr_proc, pc[t] \notin SleepPoints,
         \/ PROC_create_kthread(t) \/ PROC_create_uthread(t)
         \/ Fork(t) \/ CloneThread(t),
         UNCHANGED kbd_chars
  PROVE  DataInv'
<1>1. DataInv /\ ProcessTypeOK /\ MutexTypeOK /\ HolderIsOwner
      /\ zombie \in SUBSET Procs
  BY DEF IInv, DataInv, ControlTyped
<1>2. owner[t] \in Procs /\ KProc \in Procs
  BY OwnerIsProc, MultitaskAssumption DEF IInv
<1>3. /\ UNCHANGED <<zombie, pc, arg, freed, image, prev, mvars>>
      /\ \E u \in Threads, p \in Procs : LinkAndAdmit(u, p)
  BY <1>2 DEF PROC_create_kthread, PROC_create_uthread, Fork, CloneThread
<1>4. /\ owner' \in [AllThreads -> Procs \cup {None}]
      /\ threads' \in [Procs -> Seq(AllThreads)]
      /\ live_threads' \in [Procs -> Nat]
      /\ ListedIsOwned'
  BY <1>3, LinkData
<1>5. ControlTyped' /\ ArgFits'
  BY <1>1, <1>3, <1>4, StayFits
<1>6. MutexTypeOK' /\ HolderIsOwner' /\ kbd_chars' \in 0..KbdCapacity
  BY <1>1, <1>3 DEF mvars, MutexTypeOK, HolderIsOwner, DataInv
<1>7. /\ procs' \in SUBSET Procs
      /\ parent' \in [Procs -> Procs \cup {None}]
      /\ cr3' \in [Procs -> Spaces \cup {KSpace, None}]
      /\ spaces' \in SUBSET Spaces
  <2>1. CASE UNCHANGED <<procs, parent, cr3, spaces>>
    BY <2>1, <1>1 DEF ProcessTypeOK
  <2>2. ASSUME NEW p \in Procs, NEW s \in Spaces, LinkProcess(p, owner[t], s)
        PROVE  <1>7!:
    BY <2>2, <1>1, <1>2 DEF ProcessTypeOK, LinkProcess
  <2>. QED
    BY <2>1, <2>2 DEF PROC_create_kthread, PROC_create_uthread, Fork,
       CloneThread
<1>8. ProcessTypeOK'
  BY <1>1, <1>3, <1>4, <1>7 DEF ProcessTypeOK
<1>. QED
  BY <1>4, <1>5, <1>6, <1>8 DEF DataInv

\* exec preserves the data part.
LEMMA ExecData ==
  ASSUME IInv, NEW t \in Threads, Exec(t) \/ ExecFail(t) \/ ExecSwitch(t),
         UNCHANGED kbd_chars
  PROVE  DataInv'
<1>1. DataInv /\ ProcessTypeOK /\ MutexTypeOK /\ HolderIsOwner /\ ListedIsOwned
      /\ owner \in [AllThreads -> Procs \cup {None}] /\ zombie \in SUBSET Procs
  BY DEF IInv, DataInv, ControlTyped
<1>2. /\ UNCHANGED <<owner, zombie, arg, procs, freed, threads, live_threads,
                     parent, prev, mvars>>
      /\ Goto(t, "exec_load") \/ Goto(t, "user")
  BY DEF Exec, ExecFail, ExecSwitch
<1>3. ControlTyped' /\ ArgFits'
  <2>1. CASE Goto(t, "exec_load")
    BY <2>1, <1>1, <1>2, GotoSameArg DEF ControlPoints, JoinPoints
  <2>2. CASE Goto(t, "user")
    BY <2>2, <1>1, <1>2, GotoSameArg DEF ControlPoints, JoinPoints
  <2>. QED
    BY <1>2, <2>1, <2>2
<1>4. /\ MutexTypeOK' /\ HolderIsOwner' /\ kbd_chars' \in 0..KbdCapacity
      /\ ListedIsOwned'
  BY <1>1, <1>2 DEF mvars, MutexTypeOK, HolderIsOwner, DataInv, ListedIsOwned
<1>5. /\ cr3' \in [Procs -> Spaces \cup {KSpace, None}]
      /\ spaces' \in SUBSET Spaces
      /\ image' \in [Threads -> Spaces \cup {None}]
  <2>1. CASE Exec(t)
    BY <2>1, <1>1 DEF Exec, ProcessTypeOK
  <2>2. CASE ExecFail(t)
    BY <2>2, <1>1 DEF ExecFail, ProcessTypeOK
  <2>3. CASE ExecSwitch(t)
    BY <2>3, <1>1 DEF ExecSwitch, ProcessTypeOK, OldImageDestroyed
  <2>. QED
    BY <2>1, <2>2, <2>3
<1>6. ProcessTypeOK'
  BY <1>1, <1>2, <1>5 DEF ProcessTypeOK
<1>. QED
  BY <1>3, <1>4, <1>6 DEF DataInv

\* exit and thread_exit preserve the data part.
LEMMA ExitData ==
  ASSUME IInv, NEW t \in Threads, t = curr_proc, pc[t] \notin SleepPoints,
         ExitProcess(t) \/ ExitThread(t), UNCHANGED kbd_chars
  PROVE  DataInv'
<1>. DEFINE p == owner[t]
<1>1. DataInv /\ ProcessTypeOK /\ MutexTypeOK /\ HolderIsOwner /\ ListedIsOwned
      /\ owner \in [AllThreads -> Procs \cup {None}] /\ zombie \in SUBSET Procs
  BY DEF IInv, DataInv, ControlTyped
<1>2. p \in Procs /\ KProc \in Procs
  BY OwnerIsProc, MultitaskAssumption DEF IInv
<1>3. /\ UNCHANGED <<owner, pc, arg, procs, freed, threads, image, prev,
                     owner_process, owner_thread, holds>>
      /\ Teardown(p) \/ UNCHANGED <<zombie, parent, mutex_list, cr3, spaces>>
  BY DEF ExitProcess, ExitThread
<1>4. /\ zombie' \in SUBSET Procs
      /\ parent' \in [Procs -> Procs \cup {None}]
      /\ mutex_list' \in SUBSET Mutexes
      /\ cr3' \in [Procs -> Spaces \cup {KSpace, None}]
      /\ spaces' \in SUBSET Spaces
  <2>1. CASE UNCHANGED <<zombie, parent, mutex_list, cr3, spaces>>
    BY <2>1, <1>1 DEF ProcessTypeOK, MutexTypeOK
  <2>2. CASE p \notin zombie /\ Teardown(p)
    <3>1. /\ zombie' = zombie \cup {p}
          /\ parent' = [c \in Procs |-> IF c \in Children(p) THEN KProc
                                                              ELSE parent[c]]
          /\ mutex_list' = mutex_list \ MutexesOf(p)
          /\ \/ UNCHANGED <<cr3, spaces>>
             \/ /\ cr3' = [cr3 EXCEPT ![p] = None]
                /\ spaces' = spaces \ {cr3[p]}
      BY <2>2 DEF Teardown, Reparented, destroy_process_address_space
    <3>. QED
      BY <3>1, <1>1, <1>2 DEF ProcessTypeOK, MutexTypeOK
  <2>. QED
    BY <1>3, <2>1, <2>2 DEF Teardown
<1>5. live_threads' \in [Procs -> Nat]
  <2>1. CASE ExitProcess(t)
    BY <2>1, <1>1 DEF ExitProcess, ProcessTypeOK
  <2>2. CASE ExitThread(t)
    <3>1. OneThreadLess(p) \in Nat
      BY <1>1, <1>2, SMT DEF OneThreadLess, ProcessTypeOK
    <3>2. live_threads' = [live_threads EXCEPT ![p] = OneThreadLess(p)]
      BY <2>2 DEF ExitThread
    <3>. QED
      BY <1>1, <3>1, <3>2 DEF ProcessTypeOK
  <2>. QED
    BY <2>1, <2>2
<1>6. ControlTyped' /\ ArgFits'
  BY <1>1, <1>3, <1>4, StayFits
<1>7. MutexTypeOK' /\ ProcessTypeOK'
  BY <1>1, <1>3, <1>4, <1>5 DEF MutexTypeOK, ProcessTypeOK
<1>8. kbd_chars' \in 0..KbdCapacity /\ ListedIsOwned' /\ HolderIsOwner'
  BY <1>1, <1>3 DEF DataInv, ListedIsOwned, HolderIsOwner
<1>. QED
  BY <1>6, <1>7, <1>8 DEF DataInv

(***************************************************************************)
(* wait and thread_join.                                                   *)
(***************************************************************************)

\* Reaping a child keeps the process table typed.
LEMMA ReapTyped ==
  ASSUME ProcessTypeOK, NEW c \in Procs, Reap(c)
  PROVE  /\ parent' \in [Procs -> Procs \cup {None}]
         /\ freed' \in SUBSET (AllThreads \cup Procs)
<1>1. threads[c] \in Seq(AllThreads)
  BY DEF ProcessTypeOK
<1>2. Range(threads[c]) \subseteq AllThreads
  BY <1>1, ListedAreThreads
<1>. QED
  BY <1>2 DEF ProcessTypeOK, Reap

\* wait preserves the data part.
LEMMA WaitData ==
  ASSUME IInv, NEW t \in Threads, t = curr_proc, pc[t] \notin SleepPoints,
         Wait(t) \/ WaitTop(t) \/ WaitBlock(t) \/ WaitReap(t),
         UNCHANGED kbd_chars
  PROVE  DataInv'
<1>1. DataInv /\ ProcessTypeOK /\ MutexTypeOK /\ HolderIsOwner /\ ListedIsOwned
      /\ owner \in [AllThreads -> Procs \cup {None}] /\ zombie \in SUBSET Procs
  BY DEF IInv, DataInv, ControlTyped
<1>2. UNCHANGED <<owner, zombie, procs, threads, live_threads, cr3, spaces,
                  image, prev, mvars>>
  BY DEF Wait, WaitUninterrupted, WaitTop, WaitBlock, WaitReap, rest_of_wait
<1>3. owner' \in [AllThreads -> Procs \cup {None}] /\ zombie' \in SUBSET Procs
  BY <1>1, <1>2
<1>4. /\ {"user", "wait_sleep", "wait_top", "wait_block", "wait_reap"}
           \subseteq ControlPoints
      /\ {"user", "wait_sleep", "wait_top", "wait_block", "wait_reap"}
           \cap JoinPoints = {}
  BY DEF ControlPoints, SleepPoints, JoinPoints
<1>5. \A p : Children(p) \subseteq Procs /\ ZombieChildren(p) \subseteq Procs
  BY DEF Children, ZombieChildren
<1>6. ControlTyped' /\ ArgFits'
  <2>1. CASE UNCHANGED <<pc, arg>>
    BY <2>1, <1>1, <1>3, StayFits
  <2>2. ASSUME NEW point \in {"user", "wait_sleep", "wait_top", "wait_block"},
               Goto(t, point), arg' = arg
        PROVE  ControlTyped' /\ ArgFits'
    <3>1. /\ point \in ControlPoints /\ point \notin JoinPoints
          /\ point # "wait_reap" /\ point \notin {"lock_sleep", "lock_woken"}
      BY <1>4
    <3>. QED
      BY <2>2, <3>1, <1>1, <1>3, GotoSameArg
  <2>3. ASSUME NEW c \in Procs, Goto(t, "wait_reap"), arg' = [arg EXCEPT ![t] = c]
        PROVE  ControlTyped' /\ ArgFits'
    <3>1. "wait_reap" \in ControlPoints /\ "wait_reap" \notin JoinPoints
      BY <1>4
    <3>2. c \in Threads \cup Procs \cup Mutexes \cup {None}
      OBVIOUS
    <3>. QED
      BY <2>3, <3>1, <3>2, <1>1, <1>3, GotoFits
  <2>4. CASE Wait(t)
    <3>1. CASE WaitUninterrupted(t)
      BY <3>1, <2>1, <2>2 DEF WaitUninterrupted, BlockAt
    <3>2. CASE Goto(t, "wait_top") /\ arg' = arg
      BY <3>2, <2>2
    <3>. QED
      BY <2>4, <3>1, <3>2 DEF Wait
  <2>5. CASE WaitTop(t)
    BY <2>5, <2>2, <2>3, <1>5 DEF WaitTop
  <2>6. CASE WaitBlock(t)
    BY <2>6, <2>2 DEF WaitBlock, BlockAt
  <2>7. CASE WaitReap(t)
    BY <2>7, <2>2 DEF WaitReap
  <2>. QED
    BY <2>4, <2>5, <2>6, <2>7
<1>7. /\ parent' \in [Procs -> Procs \cup {None}]
      /\ freed' \in SUBSET (AllThreads \cup Procs)
  <2>1. CASE UNCHANGED <<parent, freed>>
    BY <2>1, <1>1 DEF ProcessTypeOK
  <2>2. ASSUME NEW c \in Procs, Reap(c) PROVE <1>7!:
    BY <2>2, <1>1, ReapTyped
  <2>3. CASE WaitReap(t)
    <3>1. arg[t] \in Procs
      BY <2>3, <1>1 DEF WaitReap, At, DataInv, ArgFits
    <3>. QED
      BY <2>2, <2>3, <3>1 DEF WaitReap
  <2>4. CASE WaitUninterrupted(t)
    BY <2>1, <2>2, <2>4, <1>5 DEF WaitUninterrupted
  <2>. QED
    BY <2>1, <2>3, <2>4 DEF Wait, WaitTop, WaitBlock
<1>8. ProcessTypeOK'
  BY <1>1, <1>2, <1>7 DEF ProcessTypeOK
<1>9. /\ MutexTypeOK' /\ HolderIsOwner' /\ kbd_chars' \in 0..KbdCapacity
      /\ ListedIsOwned'
  BY <1>1, <1>2 DEF mvars, MutexTypeOK, HolderIsOwner, DataInv, ListedIsOwned
<1>. QED
  BY <1>6, <1>8, <1>9 DEF DataInv

\* unlink_thread keeps the thread lists typed and owned.
LEMMA UnlinkData ==
  ASSUME IInv, NEW p \in Procs, NEW pred, NEW u, owner' = owner,
         threads' = [threads EXCEPT ![p] = Unlinked(@, pred, u)]
  PROVE  threads' \in [Procs -> Seq(AllThreads)] /\ ListedIsOwned'
<1>. DEFINE s == Unlinked(threads[p], pred, u)
<1>1. threads \in [Procs -> Seq(AllThreads)] /\ ListedIsOwned
  BY DEF IInv, DataInv, ProcessTypeOK
<1>2. s \in Seq(AllThreads) /\ Range(s) \subseteq Range(threads[p])
  BY <1>1, UnlinkedIsPart
<1>. HIDE DEF s
<1>3. threads' = [threads EXCEPT ![p] = s]
  BY DEF s
<1>. QED
  BY <1>1, <1>2, <1>3, SMT DEF ListedIsOwned

\* thread_join preserves the data part, also when it uses a stale predecessor.
LEMMA JoinData ==
  ASSUME IInv, NEW t \in Threads, t = curr_proc, pc[t] \notin SleepPoints,
         \/ Join(t) \/ JoinWoken(t) \/ JoinTest(t) \/ JoinBlock(t)
         \/ JoinReap(t) \/ JoinUnlink(t),
         UNCHANGED kbd_chars
  PROVE  DataInv'
<1>. DEFINE p == owner[t]
<1>1. DataInv /\ ProcessTypeOK /\ MutexTypeOK /\ HolderIsOwner /\ ListedIsOwned
      /\ owner \in [AllThreads -> Procs \cup {None}] /\ zombie \in SUBSET Procs
  BY DEF IInv, DataInv, ControlTyped
<1>2. UNCHANGED <<owner, zombie, procs, live_threads, parent, cr3, spaces,
                  image, mvars>>
  BY DEF Join, JoinWoken, JoinTest, JoinBlock, JoinReap, JoinUnlink,
         rest_of_join
<1>3. owner' \in [AllThreads -> Procs \cup {None}] /\ zombie' \in SUBSET Procs
  BY <1>1, <1>2
<1>4. p \in Procs /\ threads[p] \in Seq(AllThreads)
  BY <1>1, OwnerIsProc DEF IInv, ProcessTypeOK
<1>5. JoinPoints \cup {"user"} \subseteq ControlPoints
  BY DEF ControlPoints, SleepPoints, JoinPoints
<1>6. ASSUME NEW point \in JoinPoints \cup {"user"}, Goto(t, point), arg' = arg,
             pc[t] \in JoinPoints
      PROVE  ControlTyped' /\ ArgFits'
  <2>1. point \in ControlPoints /\ point # "wait_reap"
        /\ point \notin {"lock_sleep", "lock_woken"}
    BY <1>5 DEF JoinPoints
  <2>. QED
    BY <1>6, <2>1, <1>1, <1>3, GotoSameArg
<1>7. MutexTypeOK' /\ HolderIsOwner' /\ kbd_chars' \in 0..KbdCapacity
  BY <1>1, <1>2 DEF mvars, MutexTypeOK, HolderIsOwner, DataInv
<1>8. pc[t] \in JoinPoints => arg[t] \in Threads
  BY <1>1 DEF DataInv, ArgFits
<1>9. UNCHANGED threads =>
        threads' \in [Procs -> Seq(AllThreads)] /\ ListedIsOwned'
  BY <1>1, <1>2 DEF ProcessTypeOK, ListedIsOwned
<1>. DEFINE Rest ==
       /\ ControlTyped' /\ ArgFits'
       /\ threads' \in [Procs -> Seq(AllThreads)] /\ ListedIsOwned'
       /\ freed' \in SUBSET (AllThreads \cup Procs)
       /\ prev' \in [Threads -> AllThreads \cup {None}]
<1>. SUFFICES Rest
  <2>1. ProcessTypeOK'
    BY <1>1, <1>2 DEF ProcessTypeOK
  <2>. QED
    BY <1>7, <2>1 DEF DataInv
<1>10. CASE Join(t)
  <2>1. PICK u \in Range(threads[p]) \ {t, Main} :
          /\ arg' = [arg EXCEPT ![t] = u]
          /\ \/ /\ threads' = [threads EXCEPT
                     ![p] = Unlinked(@, Predecessor(@, u), u)]
                /\ freed' = freed \cup {u}
                /\ UNCHANGED pc
             \/ /\ Goto(t, "join_sleep")
                /\ UNCHANGED <<threads, freed>>
    BY <1>10 DEF Join, BlockAt
  <2>2. u \in Threads /\ u \in AllThreads
    <3>1. Range(threads[p]) \subseteq AllThreads
      BY <1>4, ListedAreThreads
    <3>2. u \in AllThreads
      BY <2>1, <3>1
    <3>. QED
      BY <3>2 DEF AllThreads
  <2>3. prev' \in [Threads -> AllThreads \cup {None}]
    BY <1>1, <1>10 DEF Join, ProcessTypeOK
  <2>4. CASE /\ threads' = [threads EXCEPT
                  ![p] = Unlinked(@, Predecessor(@, u), u)]
             /\ freed' = freed \cup {u}
             /\ UNCHANGED pc
    <3>1. threads' \in [Procs -> Seq(AllThreads)] /\ ListedIsOwned'
      <4>. DEFINE pred == Predecessor(threads[p], u)
      <4>1. threads' = [threads EXCEPT ![p] = Unlinked(@, pred, u)]
        BY <2>4
      <4>. QED
        BY <1>2, <1>4, <4>1, UnlinkData
    <3>2. ControlTyped' /\ ArgFits'
      <4>1. pc[t] = "user"
        BY <1>10 DEF Join, CallsInto, At
      <4>2. Goto(t, "user")
        BY <2>4, <4>1, <1>1 DEF Goto, DataInv, ControlTyped
      <4>3. /\ "user" \in ControlPoints /\ "user" \notin JoinPoints
            /\ u \in Threads \cup Procs \cup Mutexes \cup {None}
        BY <1>5, <2>2 DEF JoinPoints
      <4>. QED
        BY <2>1, <4>2, <4>3, <1>1, <1>3, GotoFits
    <3>. QED
      BY <2>2, <2>3, <2>4, <3>1, <3>2, <1>1 DEF ProcessTypeOK
  <2>5. CASE Goto(t, "join_sleep") /\ UNCHANGED <<threads, freed>>
    <3>1. /\ "join_sleep" \in ControlPoints
          /\ u \in Threads \cup Procs \cup Mutexes \cup {None}
      BY <1>5, <2>2 DEF JoinPoints
    <3>2. ControlTyped' /\ ArgFits'
      BY <2>1, <2>2, <2>5, <3>1, <1>1, <1>3, GotoFits
    <3>. QED
      BY <2>3, <2>5, <3>2, <1>1, <1>9 DEF ProcessTypeOK
  <2>. QED
    BY <2>1, <2>4, <2>5
<1>11. CASE JoinWoken(t) \/ JoinTest(t) \/ JoinBlock(t)
  <2>1. /\ pc[t] \in JoinPoints /\ UNCHANGED <<arg, threads, freed, prev>>
        /\ \E point \in JoinPoints \cup {"user"} : Goto(t, point)
    BY <1>11 DEF JoinWoken, JoinTest, JoinBlock, BlockAt, At, JoinPoints
  <2>2. ControlTyped' /\ ArgFits'
    BY <1>6, <2>1
  <2>. QED
    BY <2>1, <2>2, <1>1, <1>9 DEF ProcessTypeOK
<1>12. CASE JoinReap(t)
  <2>1. /\ pc[t] \in JoinPoints /\ UNCHANGED <<arg, threads>>
        /\ \E point \in JoinPoints \cup {"user"} : Goto(t, point)
    BY <1>12 DEF JoinReap, At, JoinPoints
  <2>2. ControlTyped' /\ ArgFits'
    BY <1>6, <2>1
  <2>3. arg[t] \in AllThreads
    BY <2>1, <1>8 DEF AllThreads
  <2>4. CASE arg[t] \in Range(threads[p])
    <3>1. Predecessor(threads[p], arg[t]) \in AllThreads \cup {None}
      BY <2>4, <1>4, PredecessorTyped
    <3>2. /\ prev' = [prev EXCEPT ![t] = Predecessor(threads[p], arg[t])]
          /\ freed' = freed
      BY <1>12, <2>4 DEF JoinReap
    <3>. QED
      BY <2>1, <2>2, <3>1, <3>2, <1>1, <1>9 DEF ProcessTypeOK
  <2>5. CASE arg[t] \notin Range(threads[p])
    <3>1. freed' = freed \cup {arg[t]} /\ prev' = prev
      BY <1>12, <2>5 DEF JoinReap
    <3>. QED
      BY <2>1, <2>2, <2>3, <3>1, <1>1, <1>9 DEF ProcessTypeOK
  <2>. QED
    BY <2>4, <2>5
<1>13. CASE JoinUnlink(t)
  <2>1. /\ pc[t] \in JoinPoints /\ arg' = arg /\ Goto(t, "user")
        /\ threads' = [threads EXCEPT ![p] = Unlinked(@, prev[t], arg[t])]
        /\ freed' = freed \cup {arg[t]}
        /\ prev' = [prev EXCEPT ![t] = None]
    BY <1>13 DEF JoinUnlink, At, JoinPoints
  <2>2. ControlTyped' /\ ArgFits'
    BY <1>6, <2>1
  <2>3. arg[t] \in AllThreads
    BY <2>1, <1>8 DEF AllThreads
  <2>4. threads' \in [Procs -> Seq(AllThreads)] /\ ListedIsOwned'
    BY <1>2, <1>4, <2>1, UnlinkData
  <2>. QED
    BY <2>1, <2>2, <2>3, <2>4, <1>1 DEF ProcessTypeOK
<1>. QED
  BY <1>10, <1>11, <1>12, <1>13

(***************************************************************************)
(* The scheduler, the keyboard and the rest.                               *)
(***************************************************************************)

\* yield returns from each sleep to the point after it.
LEMMA AfterYieldPoints ==
  /\ AfterYield["join_sleep"] = "join_woken"
  /\ AfterYield["wait_sleep"] = "wait_top"
  /\ AfterYield["getc_sleep"] = "getc_woken"
  /\ AfterYield["lock_sleep"] = "lock_woken"
BY DEF AfterYield

\* The yield() that ends PROC_block_on keeps the object of the call.
LEMMA SleepYieldFits ==
  ASSUME IInv, NEW t \in Threads, pc[t] \in SleepPoints,
         Goto(t, AfterYield[pc[t]]), UNCHANGED <<owner, zombie, arg>>
  PROVE  ControlTyped' /\ ArgFits'
<1>. DEFINE point == AfterYield[pc[t]]
<1>1. /\ DataInv /\ owner' \in [AllThreads -> Procs \cup {None}]
      /\ zombie' \in SUBSET Procs
  BY DEF IInv, DataInv, ControlTyped
<1>2. /\ point \in ControlPoints /\ point # "wait_reap"
      /\ point \in JoinPoints => pc[t] \in JoinPoints
      /\ point \in {"lock_sleep", "lock_woken"} =>
           pc[t] \in {"lock_sleep", "lock_woken"}
  <2>1. CASE pc[t] = "join_sleep"
    <3>. point = "join_woken"
      BY <2>1, AfterYieldPoints
    <3>. QED
      BY <2>1 DEF ControlPoints, JoinPoints
  <2>2. CASE pc[t] = "wait_sleep"
    <3>. point = "wait_top"
      BY <2>2, AfterYieldPoints
    <3>. QED
      BY <2>2 DEF ControlPoints, JoinPoints
  <2>3. CASE pc[t] = "getc_sleep"
    <3>. point = "getc_woken"
      BY <2>3, AfterYieldPoints
    <3>. QED
      BY <2>3 DEF ControlPoints, JoinPoints
  <2>4. CASE pc[t] = "lock_sleep"
    <3>. point = "lock_woken"
      BY <2>4, AfterYieldPoints
    <3>. QED
      BY <2>4 DEF ControlPoints, JoinPoints
  <2>. QED
    BY <2>1, <2>2, <2>3, <2>4 DEF SleepPoints
<1>. HIDE DEF point
<1>3. Goto(t, point)
  BY DEF point
<1>. QED
  BY <1>1, <1>2, <1>3, GotoSameArg

\* keyboard_getchar preserves the data part.
LEMMA GetCharData ==
  ASSUME IInv, NEW t \in Threads, GetChar(t)
  PROVE  DataInv'
<1>1. /\ DataInv /\ owner' \in [AllThreads -> Procs \cup {None}]
      /\ zombie' \in SUBSET Procs /\ arg' = arg
      /\ UNCHANGED <<owner, zombie, mvars, pvars>>
  BY DEF IInv, DataInv, ControlTyped, GetChar
<1>2. kbd_chars' \in 0..KbdCapacity
  BY <1>1, KernelAssumption, SMT DEF GetChar, DataInv
<1>3. PICK point \in {"user", "getc_sleep"} : Goto(t, point)
  BY DEF GetChar, BlockAt
<1>4. /\ point \in ControlPoints /\ point # "wait_reap" /\ point \notin JoinPoints
      /\ point \notin {"lock_sleep", "lock_woken"}
  BY <1>3 DEF ControlPoints, SleepPoints, JoinPoints
<1>5. ControlTyped' /\ ArgFits'
  BY <1>1, <1>3, <1>4, GotoSameArg
<1>6. MutexTypeOK' /\ ProcessTypeOK' /\ HolderIsOwner' /\ ListedIsOwned'
  BY <1>1 DEF DataInv, mvars, pvars, MutexTypeOK, ProcessTypeOK, HolderIsOwner,
              ListedIsOwned
<1>. QED
  BY <1>2, <1>5, <1>6 DEF DataInv

\* Every step of the kernel preserves the data part.
LEMMA NextData ==
  ASSUME LeastNumber, IInv, Next
  PROVE  DataInv'
<1>1. /\ DataInv /\ owner \in [AllThreads -> Procs \cup {None}]
      /\ zombie \in SUBSET Procs
  BY DEF IInv, DataInv, ControlTyped
<1>2. ASSUME ControlTyped', ArgFits', kbd_chars' \in 0..KbdCapacity,
             UNCHANGED <<owner, mvars, pvars>>
      PROVE  DataInv'
  BY <1>1, <1>2 DEF DataInv, mvars, pvars, MutexTypeOK, ProcessTypeOK,
                    HolderIsOwner, ListedIsOwned
<1>3. CASE Preemption
  <2>1. UNCHANGED <<pc, arg, owner, zombie, mvars, pvars, kbd_chars>>
    BY <1>3 DEF Preemption, Tick, IdleYield
  <2>2. ControlTyped' /\ ArgFits'
    BY <1>1, <2>1, StayFits
  <2>. QED
    BY <1>1, <1>2, <2>1, <2>2 DEF DataInv
<1>4. CASE KeyPress
  <2>1. UNCHANGED <<pc, arg, owner, zombie, mvars, pvars>>
    BY <1>4 DEF KeyPress
  <2>2. ControlTyped' /\ ArgFits'
    BY <1>1, <2>1, StayFits
  <2>3. kbd_chars' \in 0..KbdCapacity
    BY <1>1, <1>4, KernelAssumption, SMT DEF KeyPress, DataInv
  <2>. QED
    BY <1>2, <2>1, <2>2, <2>3
<1>5. ASSUME NEW t \in Threads, ThreadStep(t)
      PROVE  DataInv'
  <2>1. CASE Scheduling(t)
    <3>1. UNCHANGED <<arg, owner, zombie, mvars, pvars, kbd_chars>>
      BY <2>1 DEF Scheduling, Yield, SleepYield
    <3>2. ControlTyped' /\ ArgFits'
      <4>1. CASE Yield(t)
        BY <1>1, <3>1, <4>1, StayFits DEF Yield
      <4>2. CASE SleepYield(t)
        BY <3>1, <4>2, SleepYieldFits DEF SleepYield
      <4>. QED
        BY <2>1, <4>1, <4>2 DEF Scheduling
    <3>. QED
      BY <1>1, <1>2, <3>1, <3>2 DEF DataInv
  <2>2. CASE MutexNext(t) /\ UNCHANGED <<pvars, kbd_chars>>
    BY <2>2, MutexData
  <2>3. CASE ProcessNext(t) /\ UNCHANGED kbd_chars
    <3>1. t = curr_proc /\ pc[t] \notin SleepPoints
      BY <2>3 DEF ProcessNext, PROC_create_kthread, PROC_create_uthread, Fork,
         CloneThread, Exec, ExecFail, ExecSwitch, ExitProcess, ExitThread,
         Wait, WaitTop, WaitBlock, WaitReap, Join, JoinWoken, JoinTest,
         JoinBlock, JoinReap, JoinUnlink, CallsInto, At, SleepPoints
    <3>2. CASE \/ PROC_create_kthread(t) \/ PROC_create_uthread(t)
               \/ Fork(t) \/ CloneThread(t)
      BY <2>3, <3>1, <3>2, CreateData
    <3>3. CASE Exec(t) \/ ExecFail(t) \/ ExecSwitch(t)
      BY <2>3, <3>3, ExecData
    <3>4. CASE ExitProcess(t) \/ ExitThread(t)
      BY <2>3, <3>1, <3>4, ExitData
    <3>5. CASE Wait(t) \/ WaitTop(t) \/ WaitBlock(t) \/ WaitReap(t)
      BY <2>3, <3>1, <3>5, WaitData
    <3>6. CASE \/ Join(t) \/ JoinWoken(t) \/ JoinTest(t) \/ JoinBlock(t)
               \/ JoinReap(t) \/ JoinUnlink(t)
      BY <2>3, <3>1, <3>6, JoinData
    <3>. QED
      BY <2>3, <3>2, <3>3, <3>4, <3>5, <3>6 DEF ProcessNext
  <2>4. CASE Getc(t) \/ GetcWoken(t)
    BY <2>4, GetCharData DEF Getc, GetcWoken
  <2>. QED
    BY <1>5, <2>1, <2>2, <2>3, <2>4 DEF ThreadStep
<1>. QED
  BY <1>3, <1>4, <1>5 DEF Next

-----------------------------------------------------------------------------
(***************************************************************************)
(* IInv is inductive.                                                      *)
(***************************************************************************)

\* IInv holds when the kernel starts.
LEMMA InitIInv ==
  ASSUME Init
  PROVE  IInv
<1>1. /\ KInit \in Threads /\ Main \notin Threads /\ KProc \in Procs
      /\ KInit # Main
  BY MultitaskAssumption
<1>2. CoreInv(core, owner, zombie)
  <2>1. core.run_state = run_state /\ core.pool = pool /\ core.queue = queue
        /\ core = [run_state |-> run_state, pool |-> pool, queue |-> queue]
    BY DEF core
  <2>2. /\ \A t \in AllThreads : run_state[t] =
             IF t = Main THEN "RUNNING" ELSE IF t = KInit THEN "READY"
             ELSE "UNUSED"
        /\ run_state \in [AllThreads -> RunStates]
    BY <1>1 DEF Init, MultitaskInit, RunStates, AllThreads
  <2>3. \A q \in Queues : queue[q] = <<>> /\ Len(queue[q]) = 0
    BY DEF Init, MultitaskInit
  <2>4. CoreTyped(core)
    BY <1>1, <2>1, <2>2, SMT DEF CoreTyped, Init, MultitaskInit
  <2>5. PoolExact(core) /\ UsedIsOwned(core, owner)
    BY <1>1, <2>1, <2>2
    DEF PoolExact, UsedIsOwned, Init, MultitaskInit, AllThreads
  <2>6. /\ BlockedIsQueued(core, owner, zombie)
        /\ QueuedIsAsleep(core) /\ QueuedOnce(core)
    <3>1. \A q \in Queues : 1..Len(core.queue[q]) = {}
      BY <2>1, <2>3, SMT
    <3>2. \A t \in Threads : core.run_state[t] # "BLOCKED"
      BY <2>1, <2>2 DEF AllThreads
    <3>3. BlockedIsQueued(core, owner, zombie)
      BY <3>2 DEF BlockedIsQueued
    <3>. QED
      BY <3>1, <3>3 DEF QueuedIsAsleep, QueuedOnce
  <2>. QED
    BY <2>4, <2>5, <2>6 DEF CoreInv
<1>3. curr_proc \in AllThreads /\ CpuThreadIsRunning
  BY DEF Init, MultitaskInit, AllThreads, CpuThreadIsRunning
<1>4. ControlTyped /\ ArgFits
  BY <1>1
  DEF Init, MultitaskInit, ControlTyped, ArgFits, ControlPoints, JoinPoints
<1>5. MutexTypeOK /\ HolderIsOwner
  BY DEF Init, MutexInit, MutexTypeOK, HolderIsOwner
<1>6. ProcessTypeOK /\ ListedIsOwned
  <2>1. <<KInit, Main>> \in Seq(AllThreads) /\ <<>> \in Seq(AllThreads)
    BY <1>1, SMT DEF AllThreads
  <2>2. ProcessTypeOK
    BY <1>1, <2>1 DEF Init, ProcessInit, ProcessTypeOK
  <2>3. Range(<<KInit, Main>>) \subseteq {KInit, Main} /\ Range(<<>>) = {}
    BY SMT DEF Range
  <2>4. ListedIsOwned
    BY <1>1, <2>3
    DEF Init, ProcessInit, MultitaskInit, ListedIsOwned, AllThreads
  <2>. QED
    BY <2>2, <2>4
<1>7. kbd_chars \in 0..KbdCapacity
  BY KernelAssumption, SMT DEF Init
<1>. QED
  BY <1>2, <1>3, <1>4, <1>5, <1>6, <1>7 DEF IInv, SchedInv, DataInv

\* A step of the kernel, or none, preserves IInv.
LEMMA NextIInv ==
  ASSUME LeastNumber, IInv, [Next]_vars
  PROVE  IInv'
<1>1. CASE Next
  BY <1>1, NextSched, NextData DEF IInv, SchedInv, SchedStep
<1>2. CASE UNCHANGED vars
  BY <1>2
  DEF vars, tvars, mvars, pvars, IInv, SchedInv, DataInv, core, ControlTyped,
      ArgFits, MutexTypeOK, ProcessTypeOK, HolderIsOwner, ListedIsOwned,
      CpuThreadIsRunning
<1>. QED
  BY <1>1, <1>2

-----------------------------------------------------------------------------
(***************************************************************************)
(* The life of threads: every step of the kernel is calm, or creates, or is *)
(* exec, or exit, and each kills exactly those it means to kill.           *)
(***************************************************************************)

\* A thread that has been created and has not exited.
Alive(t) == run_state[t] \notin {"UNUSED", "ZOMBIE"}

\* From c to d no thread is created and none dies.
SameLife(c, d) ==
  \A t \in AllThreads :
    /\ d.run_state[t] = "UNUSED" <=> c.run_state[t] = "UNUSED"
    /\ d.run_state[t] = "ZOMBIE" <=> c.run_state[t] = "ZOMBIE"

\* From c to d the threads of S die and nobody else.
Die(c, d, S) ==
  \A t \in AllThreads :
    /\ d.run_state[t] = "UNUSED" <=> c.run_state[t] = "UNUSED" /\ t \notin S
    /\ d.run_state[t] = "ZOMBIE" <=> c.run_state[t] = "ZOMBIE" \/ t \in S

(***************************************************************************)
(* A step that creates and kills nobody, and leaves the processes, their   *)
(* address spaces and the images of execs in progress alone.               *)
(***************************************************************************)
Calm ==
  /\ SameLife(core, core')
  /\ UNCHANGED <<owner, zombie, procs, live_threads, cr3, spaces, image>>
  /\ \A p \in Procs : Range(threads'[p]) \subseteq Range(threads[p])
  /\ \A t \in Threads : pc'[t] = "exec_load" <=> pc[t] = "exec_load"

\* The state's own fields and the record of them.
LEMMA CoreFields ==
  /\ core.run_state = run_state /\ core.pool = pool /\ core.queue = queue
  /\ core'.run_state = run_state' /\ core'.pool = pool' /\ core'.queue = queue'
BY DEF core

(***************************************************************************)
(* The types that the proofs below use.                                    *)
(***************************************************************************)
LEMMA Types ==
  ASSUME IInv
  PROVE  /\ run_state \in [AllThreads -> RunStates]
         /\ owner \in [AllThreads -> Procs \cup {None}]
         /\ zombie \in SUBSET Procs
         /\ pc \in [Threads -> ControlPoints]
         /\ procs \in SUBSET Procs
         /\ threads \in [Procs -> Seq(AllThreads)]
         /\ live_threads \in [Procs -> Nat]
         /\ cr3 \in [Procs -> Spaces \cup {KSpace, None}]
         /\ spaces \in SUBSET Spaces
         /\ image \in [Threads -> Spaces \cup {None}]
         /\ Threads \subseteq AllThreads /\ Main \in AllThreads
         /\ Main \notin Threads
         /\ KProc \in Procs
         /\ None \notin Procs /\ None \notin Threads
         /\ None \notin Spaces /\ KSpace \notin Spaces
BY CoreFields, MultitaskAssumption, ProcessesAssumption
   DEF IInv, SchedInv, CoreInv, CoreTyped, DataInv, ControlTyped,
       ProcessTypeOK, AllThreads

\* A wake-up creates and kills nobody,
LEMMA WokenLives ==
  ASSUME NEW c, NEW d, OnlyWoken(c, d)
  PROVE  SameLife(c, d)
BY DEF OnlyWoken, SameLife

\* PROC_reschedule does not,
LEMMA RescheduleLives ==
  ASSUME NEW c, NEW own, NEW gone, CoreInv(c, own, gone), NEW cur,
         Reschedule(c, cur)
  PROVE  SameLife(c, core')
<1>1. CASE SetCore(c)
  BY <1>1, CoreFields DEF SetCore, SameLife
<1>2. ASSUME NEW x \in c.pool,
             run_state' = [t \in AllThreads |->
               IF t = x THEN "RUNNING"
               ELSE IF t = cur /\ c.run_state[t] = "RUNNING" THEN "READY"
               ELSE c.run_state[t]]
      PROVE  SameLife(c, core')
  <2>1. x \in Threads /\ c.run_state[x] \in {"READY", "RUNNING"}
    BY DEF CoreInv, CoreTyped, PoolExact
  <2>. QED
    BY <1>2, <2>1, CoreFields DEF SameLife
<1>. QED
  BY <1>1, <1>2 DEF Reschedule

\* and neither does PROC_block_on.
LEMMA BlockLives ==
  ASSUME IInv, NEW t \in Threads, t = curr_proc, pc[t] \notin SleepPoints,
         NEW q, NEW point, BlockAt(t, q, point)
  PROVE  SameLife(core, core')
<1>1. run_state[t] = "RUNNING"
  BY CallerIsRunning DEF IInv
<1>2. run_state' = [run_state EXCEPT ![t] = "BLOCKED"]
  BY CoreFields DEF BlockAt, SetCore, BlockedOn
<1>. QED
  BY <1>1, <1>2, CoreFields, Types DEF SameLife

\* A step after which no run_state differs creates and kills nobody.
LEMMA SameLifeSame ==
  ASSUME UNCHANGED run_state
  PROVE  SameLife(core, core')
BY CoreFields DEF SameLife

\* Going to a point other than exec_load starts no exec and ends none.
LEMMA GotoNoExec ==
  ASSUME IInv, NEW t \in Threads, NEW point, Goto(t, point),
         point # "exec_load", pc[t] # "exec_load"
  PROVE  \A u \in Threads : pc'[u] = "exec_load" <=> pc[u] = "exec_load"
BY Types DEF Goto

-----------------------------------------------------------------------------
(***************************************************************************)
(* Which steps are calm: all but those that create a thread, end one, or   *)
(* are part of exec.                                                       *)
(***************************************************************************)
LEMMA MutexCalm ==
  ASSUME LeastNumber, IInv, NEW t \in Threads, MutexNext(t), UNCHANGED pvars
  PROVE  Calm
<1>1. /\ UNCHANGED <<owner, zombie, procs, live_threads, cr3, spaces, image,
                     threads>>
      /\ t = curr_proc /\ pc[t] \notin SleepPoints /\ pc[t] # "exec_load"
  BY DEF MutexNext, MutexCreate, MutexLock, MutexLockWoken, MutexUnlock,
         MutexDestroy, CallsInto, At, SleepPoints, tvars, pvars
<1>2. CASE MutexCreate(t) \/ MutexDestroy(t)
  BY <1>1, <1>2, SameLifeSame DEF MutexCreate, MutexDestroy, tvars, Calm
<1>3. CASE MutexUnlock(t)
  <2>1. PICK m \in Mutexes : SetCore(UnblockOne(core, Waiters(m), zombie))
    BY <1>3 DEF MutexUnlock
  <2>2. core' = UnblockOne(core, Waiters(m), zombie)
    BY <2>1 DEF core, SetCore, UnblockOne
  <2>3. Waiters(m) \in Queues
    BY DEF Waiters, Queues
  <2>4. SameLife(core, core')
    BY <2>2, <2>3, UnblockOneKeeps, WokenLives DEF IInv, SchedInv
  <2>. QED
    BY <1>1, <1>3, <2>4 DEF MutexUnlock, Calm
<1>4. ASSUME NEW m, LockAttempt(t, m)
      PROVE  Calm
  <2>1. CASE UNCHANGED run_state /\ Goto(t, "user")
    BY <1>1, <2>1, SameLifeSame, GotoNoExec DEF Calm
  <2>2. CASE BlockAt(t, Waiters(m), "lock_sleep")
    BY <1>1, <2>2, BlockLives, GotoNoExec DEF Calm, BlockAt
  <2>. QED
    BY <1>4, <2>1, <2>2 DEF LockAttempt
<1>5. CASE MutexLock(t)
  BY <1>4, <1>5 DEF MutexLock
<1>6. CASE MutexLockWoken(t)
  <2>1. CASE UNCHANGED run_state /\ Goto(t, "user")
    BY <1>1, <2>1, SameLifeSame, GotoNoExec DEF Calm
  <2>. QED
    BY <1>4, <1>6, <2>1 DEF MutexLockWoken
<1>. QED
  BY <1>2, <1>3, <1>5, <1>6 DEF MutexNext

\* keyboard_getchar is calm,
LEMMA GetCharCalm ==
  ASSUME IInv, NEW t \in Threads, Getc(t) \/ GetcWoken(t)
  PROVE  Calm
<1>1. /\ t = curr_proc /\ pc[t] \notin SleepPoints /\ pc[t] # "exec_load"
      /\ GetChar(t)
  BY DEF Getc, GetcWoken, CallsInto, At, SleepPoints
<1>2. UNCHANGED <<owner, zombie, procs, live_threads, cr3, spaces, image,
                  threads>>
  BY <1>1 DEF GetChar, pvars
<1>3. CASE UNCHANGED run_state /\ Goto(t, "user")
  BY <1>1, <1>2, <1>3, SameLifeSame, GotoNoExec DEF Calm
<1>4. CASE BlockAt(t, KbdWaitQueue, "getc_sleep")
  BY <1>1, <1>2, <1>4, BlockLives, GotoNoExec DEF Calm, BlockAt
<1>. QED
  BY <1>1, <1>3, <1>4 DEF GetChar

\* the timer, the idle loop and the keyboard interrupt are,
LEMMA InterruptCalm ==
  ASSUME LeastNumber, IInv, Preemption \/ KeyPress
  PROVE  Calm
<1>1. CoreInv(core, owner, zombie)
  BY DEF IInv, SchedInv
<1>2. CASE Preemption
  <2>1. UNCHANGED <<owner, zombie, pc, procs, live_threads, cr3, spaces, image,
                    threads>>
    BY <1>2 DEF Preemption, Tick, IdleYield, pvars
  <2>2. Reschedule(core, curr_proc) \/ Reschedule(core, Main)
    BY <1>2 DEF Preemption, Tick, IdleYield
  <2>. QED
    BY <1>1, <2>1, <2>2, RescheduleLives DEF Calm
<1>3. CASE KeyPress
  <2>1. UNCHANGED <<owner, zombie, pc, procs, live_threads, cr3, spaces, image,
                    threads>>
    BY <1>3 DEF KeyPress, pvars
  <2>2. core' = UnblockOne(core, KbdWaitQueue, zombie)
    BY <1>3 DEF KeyPress, core, SetCore, UnblockOne
  <2>3. KbdWaitQueue \in Queues
    BY DEF Queues
  <2>. QED
    BY <1>1, <2>1, <2>2, <2>3, UnblockOneKeeps, WokenLives DEF Calm
<1>. QED
  BY <1>2, <1>3

\* yield is,
LEMMA YieldCalm ==
  ASSUME IInv, NEW t \in Threads, Scheduling(t)
  PROVE  Calm
<1>1. UNCHANGED <<owner, zombie, procs, live_threads, cr3, spaces, image,
                  threads>>
  BY DEF Scheduling, Yield, SleepYield, pvars
<1>2. Reschedule(core, t)
  BY DEF Scheduling, Yield, SleepYield
<1>3. SameLife(core, core')
  BY <1>2, RescheduleLives DEF IInv, SchedInv
<1>4. CASE UNCHANGED pc
  BY <1>1, <1>3, <1>4 DEF Calm
<1>5. CASE SleepYield(t)
  <2>1. Goto(t, AfterYield[pc[t]]) /\ pc[t] \in SleepPoints
    BY <1>5 DEF SleepYield
  <2>2. AfterYield[pc[t]] # "exec_load" /\ pc[t] # "exec_load"
    BY <2>1, AfterYieldPoints DEF SleepPoints
  <2>. QED
    BY <1>1, <1>3, <2>1, <2>2, GotoNoExec DEF Calm
<1>. QED
  BY <1>4, <1>5 DEF Scheduling, Yield

\* and so are wait
LEMMA WaitCalm ==
  ASSUME IInv, NEW t \in Threads,
         Wait(t) \/ WaitTop(t) \/ WaitBlock(t) \/ WaitReap(t)
  PROVE  Calm
<1>1. /\ t = curr_proc /\ pc[t] \notin SleepPoints /\ pc[t] # "exec_load"
      /\ UNCHANGED <<owner, zombie, procs, live_threads, cr3, spaces, image,
                     threads>>
  BY DEF Wait, WaitTop, WaitBlock, WaitReap, WaitUninterrupted, CallsInto, At,
         SleepPoints, rest_of_wait
<1>2. CASE UNCHANGED <<run_state, pc>>
  BY <1>1, <1>2, SameLifeSame DEF Calm
<1>3. ASSUME NEW point, point # "exec_load", Goto(t, point), UNCHANGED run_state
      PROVE  Calm
  BY <1>1, <1>3, SameLifeSame, GotoNoExec DEF Calm
<1>4. CASE BlockAt(t, WaitChildExit(owner[t]), "wait_sleep")
  BY <1>1, <1>4, BlockLives, GotoNoExec DEF Calm, BlockAt
<1>5. CASE Wait(t)
  BY <1>2, <1>3, <1>4, <1>5 DEF Wait, WaitUninterrupted
<1>6. CASE WaitTop(t)
  BY <1>3, <1>6 DEF WaitTop
<1>7. CASE WaitBlock(t)
  BY <1>4, <1>7 DEF WaitBlock
<1>8. CASE WaitReap(t)
  BY <1>3, <1>8 DEF WaitReap
<1>. QED
  BY <1>5, <1>6, <1>7, <1>8

\* A thread list that is unlinked from only shrinks.
LEMMA UnlinkShrinks ==
  ASSUME IInv, NEW o \in Procs, NEW pred, NEW u,
         threads' = [threads EXCEPT ![o] = Unlinked(@, pred, u)]
  PROVE  \A p \in Procs : Range(threads'[p]) \subseteq Range(threads[p])
<1>1. threads[o] \in Seq(AllThreads)
  BY Types
<1>2. Range(Unlinked(threads[o], pred, u)) \subseteq Range(threads[o])
  BY <1>1, UnlinkedIsPart
<1>3. threads'[o] = Unlinked(threads[o], pred, u)
  BY Types
<1>4. \A p \in Procs : p # o => threads'[p] = threads[p]
  BY Types
<1>. TAKE p \in Procs
<1>5. CASE p = o
  BY <1>2, <1>3, <1>5
<1>6. CASE p # o
  BY <1>4, <1>6
<1>. QED
  BY <1>5, <1>6

\* and thread_join.
LEMMA JoinCalm ==
  ASSUME IInv, NEW t \in Threads,
         Join(t) \/ JoinWoken(t) \/ JoinTest(t) \/ JoinBlock(t) \/ JoinReap(t)
           \/ JoinUnlink(t)
  PROVE  Calm
<1>1. /\ t = curr_proc /\ pc[t] \notin SleepPoints /\ pc[t] # "exec_load"
      /\ UNCHANGED <<owner, zombie, procs, live_threads, cr3, spaces, image>>
  BY DEF Join, JoinWoken, JoinTest, JoinBlock, JoinReap, JoinUnlink, CallsInto,
         At, SleepPoints, rest_of_join
<1>2. owner[t] \in Procs
  BY <1>1, OwnerIsProc DEF IInv
<1>3. \A p \in Procs : Range(threads'[p]) \subseteq Range(threads[p])
  <2>1. CASE UNCHANGED threads
    BY <2>1
  <2>2. ASSUME NEW pred, NEW u,
               threads' = [threads EXCEPT ![owner[t]] = Unlinked(@, pred, u)]
        PROVE  \A p \in Procs : Range(threads'[p]) \subseteq Range(threads[p])
    BY <1>2, <2>2, UnlinkShrinks
  <2>3. \/ UNCHANGED threads
        \/ \E pred, u :
             threads' = [threads EXCEPT ![owner[t]] = Unlinked(@, pred, u)]
    BY DEF Join, JoinWoken, JoinTest, JoinBlock, JoinReap, JoinUnlink
  <2>. QED
    BY <2>1, <2>2, <2>3
<1>4. CASE UNCHANGED <<run_state, pc>>
  BY <1>1, <1>3, <1>4, SameLifeSame DEF Calm
<1>5. ASSUME NEW point, point # "exec_load", Goto(t, point), UNCHANGED run_state
      PROVE  Calm
  BY <1>1, <1>3, <1>5, SameLifeSame, GotoNoExec DEF Calm
<1>6. CASE BlockAt(t, WaitThreadExit(owner[t]), "join_sleep")
  BY <1>1, <1>3, <1>6, BlockLives, GotoNoExec DEF Calm, BlockAt
<1>7. CASE Join(t)
  BY <1>4, <1>6, <1>7 DEF Join
<1>8. CASE JoinWoken(t) \/ JoinTest(t)
  BY <1>5, <1>8 DEF JoinWoken, JoinTest
<1>9. CASE JoinBlock(t)
  BY <1>6, <1>9 DEF JoinBlock
<1>10. CASE JoinReap(t) \/ JoinUnlink(t)
  BY <1>5, <1>10 DEF JoinReap, JoinUnlink
<1>. QED
  BY <1>7, <1>8, <1>9, <1>10

-----------------------------------------------------------------------------
(***************************************************************************)
(* Who dies.  PROC_exit_current_thread(status, 1) kills the threads in the *)
(* list of the process;                                                    *)
(***************************************************************************)
LEMMA ExitProcessDies ==
  ASSUME IInv, NEW t \in Threads, ExitProcess(t)
  PROVE  Die(core, core', Range(threads[owner[t]]))
<1>. DEFINE p == owner[t]
            S == Range(threads[p])
            c1 == Killed(core, S)
            c2 == TornDown(c1, p)
            c3 == UnblockAll(c2, WaitThreadExit(p), zombie \cup {p})
<1>1. p \in Procs
  BY OwnerIsProc DEF ExitProcess, CallsInto, At, IInv, SleepPoints
<1>2. S \in SUBSET AllThreads /\ \A u \in S : owner[u] \in Procs
  <2>1. S \in SUBSET AllThreads
    BY <1>1, Types, ListedAreThreads
  <2>. QED
    BY <1>1, <2>1 DEF IInv, DataInv, ListedIsOwned
<1>3. CoreInv(c1, owner, zombie)
  BY <1>2, KilledKeeps DEF IInv, SchedInv
<1>4. mutex_list \in SUBSET Mutexes /\ parent \in [Procs -> Procs \cup {None}]
  BY DEF IInv, DataInv, MutexTypeOK, ProcessTypeOK
<1>5. CoreInv(c2, owner, zombie \cup {p}) /\ OnlyWoken(c1, c2)
  BY <1>1, <1>3, <1>4, TornDownKeeps
<1>6. WaitThreadExit(p) \in Queues
  BY <1>1 DEF WaitThreadExit, Queues
<1>7. CoreInv(c3, owner, zombie \cup {p}) /\ OnlyWoken(c2, c3)
  BY <1>5, <1>6, UnblockAllKeeps
<1>8. SameLife(c3, core')
  BY <1>7, RescheduleLives DEF ExitProcess
<1>9. Die(core, c1, S)
  BY DEF Die, Killed
<1>10. SameLife(c1, c2) /\ SameLife(c2, c3)
  BY <1>5, <1>7, WokenLives
<1>. HIDE DEF c1, c2, c3, S
<1>11. Die(core, core', S)
  BY <1>8, <1>9, <1>10 DEF Die, SameLife
<1>. QED
  BY <1>11 DEF S

\* for one thread it kills that thread.
LEMMA ExitThreadDies ==
  ASSUME IInv, NEW t \in Threads, ExitThread(t)
  PROVE  Die(core, core', {t})
<1>. DEFINE p == owner[t]
            n == OneThreadLess(p)
            c1 == Dead(core, t)
            c2 == UnblockAll(c1, WaitThreadExit(p), zombie)
            c3 == TornDown(c2, p)
<1>1. t = curr_proc /\ pc[t] \notin SleepPoints
  BY DEF ExitThread, CallsInto, At, SleepPoints
<1>2. p \in Procs /\ core.run_state[t] = "RUNNING"
  BY <1>1, OwnerIsProc, CallerIsRunning DEF IInv
<1>3. CoreInv(c1, owner, zombie)
  BY <1>2, DeadKeeps DEF IInv, SchedInv
<1>4. WaitThreadExit(p) \in Queues
  BY <1>2 DEF WaitThreadExit, Queues
<1>5. CoreInv(c2, owner, zombie) /\ OnlyWoken(c1, c2)
  BY <1>3, <1>4, UnblockAllKeeps
<1>6. mutex_list \in SUBSET Mutexes /\ parent \in [Procs -> Procs \cup {None}]
  BY DEF IInv, DataInv, MutexTypeOK, ProcessTypeOK
<1>7. CoreInv(c3, owner, zombie \cup {p}) /\ OnlyWoken(c2, c3)
  BY <1>2, <1>5, <1>6, TornDownKeeps
<1>8. SameLife(c2, core') \/ SameLife(c3, core')
  <2>1. Reschedule(c2, None) \/ Reschedule(c3, None)
    BY DEF ExitThread
  <2>. QED
    BY <1>5, <1>7, <2>1, RescheduleLives
<1>9. Die(core, c1, {t})
  BY CoreFields, Types DEF Die, Dead
<1>10. SameLife(c1, c2) /\ SameLife(c2, c3)
  BY <1>5, <1>7, WokenLives
<1>. HIDE DEF c1, c2, c3
<1>. QED
  BY <1>8, <1>9, <1>10 DEF Die, SameLife

(***************************************************************************)
(* Every step of the kernel is calm, or creates, or is exec, or exit.      *)
(***************************************************************************)
LEMMA StepKinds ==
  ASSUME LeastNumber, IInv, [Next]_vars
  PROVE  \/ Calm
         \/ \E t \in Threads :
              \/ PROC_create_kthread(t) \/ PROC_create_uthread(t)
              \/ Fork(t) \/ CloneThread(t)
         \/ \E t \in Threads : Exec(t) \/ ExecFail(t) \/ ExecSwitch(t)
         \/ \E t \in Threads : ExitProcess(t)
         \/ \E t \in Threads : ExitThread(t)
<1>1. CASE UNCHANGED vars
  BY <1>1, SameLifeSame DEF vars, tvars, pvars, Calm
<1>2. CASE Preemption \/ KeyPress
  BY <1>2, InterruptCalm
<1>3. ASSUME NEW t \in Threads,
             Scheduling(t) \/ Getc(t) \/ GetcWoken(t)
               \/ (MutexNext(t) /\ UNCHANGED <<pvars, kbd_chars>>)
      PROVE  Calm
  BY <1>3, YieldCalm, GetCharCalm, MutexCalm
<1>4. ASSUME NEW t \in Threads, ProcessNext(t)
      PROVE  \/ Calm
             \/ PROC_create_kthread(t) \/ PROC_create_uthread(t)
             \/ Fork(t) \/ CloneThread(t)
             \/ Exec(t) \/ ExecFail(t) \/ ExecSwitch(t)
             \/ ExitProcess(t) \/ ExitThread(t)
  BY <1>4, WaitCalm, JoinCalm DEF ProcessNext
<1>. QED
  BY <1>1, <1>2, <1>3, <1>4 DEF Next, ThreadStep
\* The list of a process holds threads of that process only.
ListedIsOf ==
  \A p \in Procs : \A u \in Range(threads[p]) :
    owner[u] = p /\ run_state[u] # "UNUSED"

(***************************************************************************)
(* The invariant of the life of threads and processes: the kernel's        *)
(* process never exits, for the idle thread is one of its threads, and     *)
(* live_threads is exact, 0 for a process that has exited.                 *)
(***************************************************************************)
LifeInv ==
  /\ KProc \in procs
  /\ zombie \subseteq procs \ {KProc}
  /\ owner[Main] = KProc /\ Alive(Main)
  /\ \A t \in AllThreads : run_state[t] # "UNUSED" => owner[t] \in procs
  /\ \A p \in Procs : IsFiniteSet(LiveThreads(p))
  /\ LiveThreadsExact
  /\ \A p \in Procs \ (procs \ zombie) : live_threads[p] = 0
  /\ ListedIsOf

\* and the new thread is won by its process.
LEMMA LinkLive ==
  ASSUME IInv, NEW u \in Threads, NEW p \in Procs, LinkAndAdmit(u, p)
  PROVE  /\ LiveThreads(p)' = LiveThreads(p) \cup {u}
         /\ u \notin LiveThreads(p)
         /\ \A q : q # p => LiveThreads(q)' = LiveThreads(q)
         /\ run_state[u] = "UNUSED"
         /\ run_state' = [run_state EXCEPT ![u] = "READY"]
         /\ owner' = [owner EXCEPT ![u] = p]
<1>1. run_state' = [run_state EXCEPT ![u] = "READY"] /\ run_state[u] = "UNUSED"
  BY CoreFields DEF LinkAndAdmit, SetCore, Admitted, UnusedThread
<1>2. owner' = [owner EXCEPT ![u] = p]
  BY DEF LinkAndAdmit
<1>3. \A t \in AllThreads : t # u => run_state'[t] = run_state[t] /\ owner'[t] = owner[t]
  BY <1>1, <1>2, Types
<1>4. run_state'[u] = "READY" /\ owner'[u] = p /\ u \in AllThreads
  BY <1>1, <1>2, Types
<1>5. u \notin LiveThreads(p)
  BY <1>1 DEF LiveThreads
<1>6. LiveThreads(p)' = LiveThreads(p) \cup {u}
  BY <1>1, <1>3, <1>4 DEF LiveThreads
<1>7. \A q : q # p => LiveThreads(q)' = LiveThreads(q)
  BY <1>1, <1>3, <1>4 DEF LiveThreads
<1>. QED
  BY <1>1, <1>2, <1>5, <1>6, <1>7

(***************************************************************************)
(* The invariant of the address spaces.  Each one in use is the P4 table   *)
(* of one process that has not exited or the image of one exec in          *)
(* progress; the thread in exec lives and is the only thread of a user     *)
(* process.                                                                *)
(***************************************************************************)
Users == {p \in procs : cr3[p] \in Spaces}

Loading == {t \in Threads : image[t] # None}

SpacesExact ==
  /\ \A p \in Users : cr3[p] \in spaces
  /\ \A t \in Loading : image[t] \in spaces
  /\ \A s \in spaces : \/ \E p \in Users : cr3[p] = s
                       \/ \E t \in Loading : image[t] = s
  /\ \A p, q \in Users : cr3[p] = cr3[q] => p = q
  /\ \A t, u \in Loading : image[t] = image[u] => t = u
  /\ \A p \in Users, t \in Loading : cr3[p] # image[t]

LoadInv ==
  \A t \in Threads :
    /\ image[t] # None <=> pc[t] = "exec_load"
    /\ image[t] # None => /\ Alive(t)
                          /\ owner[t] \in procs \ {KProc}
                          /\ live_threads[owner[t]] = 1

RootInv ==
  /\ cr3[KProc] = KSpace
  /\ \A p \in zombie : cr3[p] = None
  /\ \A p \in procs \ (zombie \cup {KProc}) : cr3[p] \in Spaces

SpaceInv ==
  /\ IsFiniteSet(procs)
  /\ IsFiniteSet(Loading)
  /\ SpacesExact
  /\ LoadInv
  /\ RootInv

-----------------------------------------------------------------------------
(***************************************************************************)
(* What live_threads tells PROC_exit_current_thread: the count it leaves,  *)
(* and that the caller is the last thread when it leaves none.  The        *)
(* kernel's process keeps its idle thread.                                 *)
(***************************************************************************)
LastThread ==
  \A t \in Threads, p \in Procs :
    t = curr_proc /\ pc[t] = "user" /\ p = owner[t] =>
      /\ p \notin zombie => /\ live_threads[p] > 0
                            /\ OneThreadLess(p) = live_threads[p] - 1
                            /\ live_threads[p] = 1 => LiveThreads(p) = {t}
      /\ p = KProc => OneThreadLess(p) # 0

\* The invariants of ProcessProofs, on which those of ThreadSteps rest.
LifeSpace == IInv /\ LifeInv /\ SpaceInv /\ LastThread

=============================================================================
