------------------------------- MODULE Serial -------------------------------
(***************************************************************************)
(* The serial output driver (src/x86_64/drivers/serial_out.c): threads put *)
(* characters into a ring buffer, and whoever finds the transmitter free,  *)
(* a thread or the interrupt handler, hands it the next one.               *)
(*                                                                         *)
(* serial_display_char is bbuf_try_add and then transmit(), each with      *)
(* interrupts disabled; between the two another thread may print and the   *)
(* interrupt handler may run.                                              *)
(***************************************************************************)
EXTENDS BoundedBuffer

CONSTANTS
  Printers,   \* threads that call serial_display_char
  Chars,      \* the characters they print
  NoChar,     \* the empty holding register of the UART
  MaxChars    \* bound: how many characters are printed

ASSUME SerialAssumption == NoChar \notin Chars /\ MaxChars \in Nat

VARIABLES
  ser_st,       \* the bbuf_st
  ser_active,   \* the driver believes that the transmitter is busy
  pc,           \* "idle", or "added" between bbuf_try_add and transmit()
  thr,          \* the UART's transmit holding register
  thre_int,     \* the UART's THR-empty interrupt is pending
  taken,        \* history: the characters bbuf_try_add accepted
  printed,      \* history: the number of calls
  sent          \* history: the characters that left the holding register

vars == <<ser_st, ser_active, pc, thr, thre_int, taken, printed, sent>>

\* serial_init enables the THR-empty interrupt of an idle UART.
Init ==
  /\ \E zero \in Chars : ser_st = EmptyBuffer(zero)
  /\ ser_active = FALSE
  /\ pc = [p \in Printers |-> "idle"]
  /\ thr = NoChar
  /\ thre_int = TRUE
  /\ taken = <<>> /\ printed = 0 /\ sent = <<>>

-----------------------------------------------------------------------------
\* Faulty: the transmitter is never taken for busy.
BusyNever(active) == FALSE

\* transmit() clears ser_active if the holding register is empty.
Busy(active) == active /\ thr # NoChar

\* transmit(), called with this value of ser_active.  Writing the holding
\* register takes the THR-empty interrupt back.
transmit(active) ==
  IF Busy(active) \/ IsEmpty(ser_st)
  THEN /\ ser_active' = Busy(active)
       /\ UNCHANGED <<ser_st, thr>>
  ELSE /\ ser_active' = TRUE
       /\ ser_st' = Consumed(ser_st)
       /\ thr' = FirstChar(ser_st)

\* serial_display_char: bbuf_try_add ...
serial_display_char(p) ==
  /\ pc[p] = "idle"
  /\ printed < MaxChars
  /\ \E c \in Chars :
       /\ ser_st' = Added(ser_st, c)
       /\ taken' = IF IsFull(ser_st) THEN taken ELSE Append(taken, c)
  /\ printed' = printed + 1
  /\ pc' = [pc EXCEPT ![p] = "added"]
  /\ UNCHANGED <<ser_active, thr, thre_int, sent>>

\* ... and transmit().
serial_transmit(p) ==
  /\ pc[p] = "added"
  /\ transmit(ser_active)
  /\ thre_int' = (thre_int /\ thr' = thr)
  /\ pc' = [pc EXCEPT ![p] = "idle"]
  /\ UNCHANGED <<taken, printed, sent>>

\* Faulty: the handler does not hand out the next character.
ISR36_ack_only ==
  /\ thre_int
  /\ thre_int' = FALSE
  /\ ser_active' = FALSE
  /\ UNCHANGED <<ser_st, pc, thr, taken, printed, sent>>

\* Reading the IIR acknowledges the interrupt.
ISR36_IRQ4_serial ==
  /\ thre_int
  /\ thre_int' = FALSE
  /\ transmit(FALSE)
  /\ UNCHANGED <<pc, taken, printed, sent>>

\* The UART sends what the holding register has and raises the interrupt.
UartSends ==
  /\ thr # NoChar
  /\ sent' = Append(sent, thr)
  /\ thr' = NoChar
  /\ thre_int' = TRUE
  /\ UNCHANGED <<ser_st, ser_active, pc, taken, printed>>

Next ==
  \/ \E p \in Printers : serial_display_char(p) \/ serial_transmit(p)
  \/ ISR36_IRQ4_serial
  \/ UartSends

\* Interrupts are delivered, the UART works and a thread in the driver goes on.
Spec ==
  /\ Init
  /\ [][Next]_vars
  /\ WF_vars(ISR36_IRQ4_serial)
  /\ WF_vars(UartSends)
  /\ \A p \in Printers : WF_vars(serial_transmit(p))

-----------------------------------------------------------------------------
(***************************************************************************)
(* What was accepted is sent once and in order: the characters sent, the   *)
(* one in the UART and those in the buffer are what bbuf_try_add took.     *)
(* transmit() must never write the holding register while it is full,      *)
(* whichever of thread and handler calls it.                               *)
(***************************************************************************)
NothingLost ==
  taken = sent \o (IF thr = NoChar THEN <<>> ELSE <<thr>>) \o Contents(ser_st)

(***************************************************************************)
(* Everything accepted is sent in the end: ser_active never stays set on   *)
(* an idle transmitter with nobody left to restart it.                     *)
(***************************************************************************)
AllSent == <>[](sent = taken)

(***************************************************************************)
(* The ring buffer is a first-in first-out queue of Size - 1 characters:   *)
(* no character is lost, repeated or overtaken when head or tail wraps or  *)
(* when bbuf_try_add refuses one.                                          *)
(***************************************************************************)
FifoSpec == INSTANCE Channel WITH chars <- Contents(ser_st), Capacity <- Size - 1

ImplementsChannel == FifoSpec!Spec
=============================================================================
