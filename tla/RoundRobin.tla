----------------------------- MODULE RoundRobin -----------------------------
(***************************************************************************)
(* The round robin scheduler (src/kernel/round_robin.c): a circular singly *)
(* linked list with a head, a tail and a current node, driven the way      *)
(* multitask.c drives it.                                                  *)
(*                                                                         *)
(* rr_admit, rr_remove and rr_next run with interrupts disabled, so each   *)
(* is a function of the list.  multitask.c admits a thread when it is      *)
(* created or woken and removes it when it blocks or ends (PoolIsRunnable  *)
(* of Kernel): never one that is in the list already, never one that is    *)
(* not.                                                                    *)
(***************************************************************************)
EXTENDS Naturals, FiniteSets, FiniteSetsExt

CONSTANTS
  Threads,     \* the threads that can be admitted
  Idle,        \* main_thread, which is never admitted
  None         \* the NULL pointer

ASSUME RoundRobinAssumption ==
  /\ IsFiniteSet(Threads)
  /\ Idle \notin Threads
  /\ None \notin Threads \cup {Idle}

VARIABLES
  rr,          \* Head, Tail, Current, Count and every sched_one
  curr,        \* curr_proc of multitask.c
  yielding,    \* the threads between STI and yield() in PROC_block_on
  ended        \* the threads that have ended

rr_vars == <<rr, curr, yielding, ended>>

Empty(l) == [l EXCEPT !.Head = None, !.Tail = None, !.Current = None,
                      !.Count = 0]

RRInit ==
  /\ rr = Empty([Head |-> None, Tail |-> None, Current |-> None, Count |-> 0,
                 sched_one |-> [t \in Threads |-> None]])
  /\ curr = Idle
  /\ yielding = {}
  /\ ended = {}

\* The nodes that Count steps from Head visit.
Nodes(l) ==
  LET node[i \in 0..l.Count] ==
        IF i = 0 THEN l.Head ELSE l.sched_one[node[i - 1]]
  IN  {node[i] : i \in 0..(l.Count - 1)}

Members == Nodes(rr)

-----------------------------------------------------------------------------
\* Faulty: the new node becomes the current one.
rr_admit_current(l, new) ==
  IF l.Head = None
  THEN [l EXCEPT !.Head = new, !.Tail = new, !.Current = new,
                 !.sched_one[new] = new, !.Count = @ + 1]
  ELSE [l EXCEPT !.sched_one = [@ EXCEPT ![new] = l.Head, ![l.Tail] = new],
                 !.Tail = new, !.Current = new, !.Count = @ + 1]

rr_admit(l, new) ==
  IF l.Head = None
  THEN [l EXCEPT !.Head = new, !.Tail = new, !.Current = new,
                 !.sched_one[new] = new, !.Count = @ + 1]
  ELSE [l EXCEPT !.sched_one = [@ EXCEPT ![new] = l.Head, ![l.Tail] = new],
                 !.Tail = new, !.Count = @ + 1]

\* The node before victim, where the loop of rr_remove stops.
Prev(l, victim) == CHOOSE u \in Nodes(l) : l.sched_one[u] = victim

\* Faulty: the removed node is still counted.
rr_remove_counted(l, victim) ==
  LET next == l.sched_one[victim]
  IN  IF l.Count = 1 THEN Empty(l)
      ELSE [l EXCEPT !.sched_one[Prev(l, victim)] = next,
                     !.Current = IF @ = victim THEN next ELSE @,
                     !.Head = IF @ = victim THEN next ELSE @,
                     !.Tail = IF @ = victim THEN Prev(l, victim) ELSE @]

\* Faulty: the tail is not moved when the last node is removed.
rr_remove_tail(l, victim) ==
  LET next == l.sched_one[victim]
  IN  IF l.Count = 1 THEN Empty(l)
      ELSE [l EXCEPT !.sched_one[Prev(l, victim)] = next,
                     !.Current = IF @ = victim THEN next ELSE @,
                     !.Head = IF @ = victim THEN next ELSE @,
                     !.Count = @ - 1]

rr_remove(l, victim) ==
  LET next == l.sched_one[victim]
  IN  IF l.Count = 1 THEN Empty(l)
      ELSE [l EXCEPT !.sched_one[Prev(l, victim)] = next,
                     !.Current = IF @ = victim THEN next ELSE @,
                     !.Head = IF @ = victim THEN next ELSE @,
                     !.Tail = IF @ = victim THEN Prev(l, victim) ELSE @,
                     !.Count = @ - 1]

\* rr_next moves Current to the next node; its result is the old Current.
rr_next(l) == [l EXCEPT !.Current = l.sched_one[@]]

\* PROC_reschedule asks again if the first answer is the caller and the list
\* has others.  The idle thread is next if the list is empty.
PROC_reschedule(l) ==
  LET first == IF l.Current = curr /\ l.Count > 1 THEN rr_next(l) ELSE l
  IN  IF l.Head = None THEN curr' = Idle /\ rr' = l
      ELSE curr' = first.Current /\ rr' = rr_next(first)

-----------------------------------------------------------------------------
\* A thread is created, or woken out of a proc_queue.
Admit(t) ==
  /\ t \notin Members \cup ended
  /\ rr' = rr_admit(rr, t)
  /\ UNCHANGED <<curr, yielding, ended>>

\* PROC_block_on up to its STI removes the caller.
Block ==
  /\ curr \in Members \ yielding
  /\ rr' = rr_remove(rr, curr)
  /\ yielding' = yielding \cup {curr}
  /\ UNCHANGED <<curr, ended>>

\* The yield() that ends PROC_block_on.
BlockYield ==
  /\ curr \in yielding
  /\ PROC_reschedule(rr)
  /\ yielding' = yielding \ {curr}
  /\ UNCHANGED ended

\* The timer interrupt, or a yield of the code that runs.
Tick ==
  /\ PROC_reschedule(rr)
  /\ UNCHANGED <<yielding, ended>>

\* PROC_exit_current_thread: the caller, and for exit the ready threads of its
\* process, leave the list; then the next thread is chosen.
Exit(S) ==
  /\ curr \in S \ yielding
  /\ PROC_reschedule(FoldSet(LAMBDA t, l : rr_remove(l, t), rr, S))
  /\ ended' = ended \cup S
  /\ yielding' = yielding \ S

RRNext ==
  \/ \E t \in Threads : Admit(t)
  \/ Block
  \/ BlockYield
  \/ Tick
  \/ \E S \in SUBSET Members : Exit(S)

(***************************************************************************)
(* The timer never stops, and some tick finds a thread that is not in the  *)
(* middle of PROC_block_on.                                                *)
(***************************************************************************)
RRSpec ==
  /\ RRInit
  /\ [][RRNext]_rr_vars
  /\ SF_rr_vars(Tick /\ curr \notin yielding)
  /\ WF_rr_vars(BlockYield)

-----------------------------------------------------------------------------
\* Types of the list.
TypeOK ==
  /\ rr \in [Head : Threads \cup {None}, Tail : Threads \cup {None},
             Current : Threads \cup {None}, Count : 0..Cardinality(Threads),
             sched_one : [Threads -> Threads \cup {None}]]
  /\ curr \in Threads \cup {Idle}
  /\ yielding \subseteq Threads
  /\ ended \subseteq Threads

(***************************************************************************)
(* The list is one ring of Count distinct threads: from Head, sched_one    *)
(* visits Count threads and comes back to Head through Tail, and Current   *)
(* is one of them.  rr_remove ends its search and rr_next never leaves the *)
(* ready threads only because of this.                                     *)
(***************************************************************************)
OneRing ==
  IF rr.Count = 0 THEN rr.Head = None /\ rr.Tail = None /\ rr.Current = None
  ELSE /\ Cardinality(Members) = rr.Count
       /\ {rr.Tail, rr.Current} \subseteq Members
       /\ rr.sched_one[rr.Tail] = rr.Head

(***************************************************************************)
(* The list implements the scheduler that multitask.c expects, fairness    *)
(* included: whoever stays in the list gets the CPU, although rr_admit     *)
(* puts newcomers in front of Head wherever Current is.                    *)
(***************************************************************************)
SchedulerSpec == INSTANCE Scheduler WITH pool <- Members

ImplementsScheduler == SchedulerSpec!FairSpec
=============================================================================
