------------------------------ MODULE Scheduler ------------------------------
(***************************************************************************)
(* What multitask.c expects of a scheduler (src/include/kernel/scheduler.h *)
(* and PROC_reschedule): a pool of ready threads, and a choice of the next *)
(* thread out of that pool which passes the CPU on if there is anyone to   *)
(* pass it to, and which reaches every thread of the pool.                 *)
(*                                                                         *)
(* Reschedule of Multitask is this choice inside the whole kernel, and the *)
(* fairness of Kernel is the fairness of this module.                      *)
(***************************************************************************)
CONSTANTS
  Threads,   \* the threads that can be admitted
  Idle       \* main_thread

VARIABLES
  pool,      \* the threads admitted and not removed
  curr       \* the thread on the CPU

svars == <<pool, curr>>

Init == pool = {} /\ curr = Idle

\* PROC_reschedule over the pool P: the idle thread if it is empty, else a
\* member, and not the caller if there is another.
Choose(P) ==
  \/ P = {} /\ curr' = Idle
  \/ /\ curr' \in P
     /\ curr' = curr => P = {curr}

\* scheduler->admit
Admit(t) ==
  /\ t \notin pool
  /\ pool' = pool \cup {t}
  /\ UNCHANGED curr

\* scheduler->remove of a thread that blocks
Block ==
  /\ pool' = pool \ {curr}
  /\ UNCHANGED curr

Reschedule == Choose(pool) /\ UNCHANGED pool

\* The threads in S end; the one that has the CPU is among them.
Exit(S) ==
  /\ curr \in S
  /\ Choose(pool \ S)
  /\ pool' = pool \ S

Next ==
  \/ \E t \in Threads : Admit(t)
  \/ Block
  \/ Reschedule
  \/ \E S \in SUBSET pool : Exit(S)

\* No thread stays in the pool without getting the CPU.
Served(t) == curr = t \/ t \notin pool

Spec == Init /\ [][Next]_svars

FairSpec == Spec /\ \A t \in Threads : []<>Served(t)
=============================================================================
