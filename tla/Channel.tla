------------------------------- MODULE Channel -------------------------------
(***************************************************************************)
(* What the users of bbuf.c rely on: a first-in first-out queue that holds *)
(* up to Capacity characters and refuses one when it is full.              *)
(***************************************************************************)
EXTENDS Naturals, Sequences

CONSTANTS Chars, Capacity

VARIABLE chars   \* what was added and not yet consumed, oldest first

Init == chars = <<>>

Add(c) ==
  /\ Len(chars) < Capacity
  /\ chars' = Append(chars, c)

Consume ==
  /\ chars # <<>>
  /\ chars' = Tail(chars)

Next == Consume \/ \E c \in Chars : Add(c)

Spec == Init /\ [][Next]_chars
=============================================================================
