---------------------------- MODULE BoundedBuffer ----------------------------
(***************************************************************************)
(* The ring buffer of the keyboard and serial drivers (src/kernel/bbuf.c). *)
(* Both operations run with interrupts disabled, so each is a function of  *)
(* the buffer.  One slot stays empty: head = tail means that the buffer is *)
(* empty.                                                                  *)
(***************************************************************************)
EXTENDS Naturals, Sequences

CONSTANT
  Size     \* bbuf_st.size; bbuf_init refuses a size below 2

ASSUME BoundedBufferAssumption == Size \in Nat /\ Size >= 2

Slots == 0..(Size - 1)

\* bbuf_init.  The array is what the driver declared, all zeroes.
EmptyBuffer(zero) == [buf |-> [i \in Slots |-> zero], head |-> 0, tail |-> 0]

Following(i) == (i + 1) % Size

\* Faulty: the buffer is never taken for full.
FullLate(st) == FALSE

IsFull(st) == Following(st.head) = st.tail

IsEmpty(st) == st.head = st.tail

\* bbuf_try_add; the character is dropped if the buffer is full.
Added(st, c) ==
  IF IsFull(st) THEN st
  ELSE [st EXCEPT !.buf[st.head] = c, !.head = Following(@)]

\* bbuf_try_consume of a buffer that is not empty: the character and the rest.
FirstChar(st) == st.buf[st.tail]

Consumed(st) == [st EXCEPT !.tail = Following(@)]

\* How many characters are in the buffer, and which.
Used(st) == (st.head + Size - st.tail) % Size

Contents(st) == [i \in 1..Used(st) |-> st.buf[(st.tail + i - 1) % Size]]
=============================================================================
