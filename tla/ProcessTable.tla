---------------------------- MODULE ProcessTable ----------------------------
(***************************************************************************)
(* What fork, exit and wait promise of the processes, without threads,     *)
(* queues or address spaces: a process is created by a process that runs;  *)
(* when it exits, its children become the kernel's; it is reaped once, by  *)
(* the process that is its parent then.                                    *)
(***************************************************************************)
CONSTANTS Procs, KProc, None

VARIABLES
  state,      \* of each process: "none", "running", "zombie" or "reaped"
  parent

Init ==
  /\ state = [p \in Procs |-> IF p = KProc THEN "running" ELSE "none"]
  /\ parent = [p \in Procs |-> None]

Create(p, child) ==
  /\ state[p] = "running" /\ state[child] = "none"
  /\ state' = [state EXCEPT ![child] = "running"]
  /\ parent' = [parent EXCEPT ![child] = p]

Exit(p) ==
  /\ state[p] = "running" /\ p # KProc
  /\ state' = [state EXCEPT ![p] = "zombie"]
  /\ parent' = [c \in Procs |-> IF parent[c] = p THEN KProc ELSE parent[c]]

Reap(p, child) ==
  /\ state[p] = "running" /\ state[child] = "zombie" /\ parent[child] = p
  /\ state' = [state EXCEPT ![child] = "reaped"]
  /\ parent' = [parent EXCEPT ![child] = None]

Next ==
  \E p \in Procs :
    \/ Exit(p)
    \/ \E child \in Procs : Create(p, child) \/ Reap(p, child)

Spec == Init /\ [][Next]_<<state, parent>>

\* Every process that exists has a parent that can still wait for it, the
\* kernel's own excepted.
EveryoneHasParent ==
  \A p \in Procs \ {KProc} :
    state[p] \in {"running", "zombie"} =>
      parent[p] \in Procs /\ state[parent[p]] = "running"
=============================================================================
