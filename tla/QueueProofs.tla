----------------------------- MODULE QueueProofs -----------------------------
(***************************************************************************)
(* Proofs about the three queues of the kernel that have a module of their *)
(* own: the ring buffer of the serial driver, the requests of the disk     *)
(* driver, and the ring of the scheduler.                                  *)
(*                                                                         *)
(* The ring buffer and the serial driver: for every size of the buffer and *)
(* any number of printing threads, bbuf.c is a first-in first-out queue and *)
(* the driver loses, repeats and reorders nothing.  The index arithmetic   *)
(* modulo Size is dealt with once, in the lemmas about BoundedBuffer; the  *)
(* driver's proofs use only what these say of Contents.                    *)
(*                                                                         *)
(* The disk driver: for any number of readers and blocks, whether or not   *)
(* the drive fails, a read returns its own block, and the request at the   *)
(* head of the queue is the one the drive works on or has exactly one      *)
(* reader about to start it.                                               *)
(*                                                                         *)
(* The circular list of src/kernel/round_robin.c: for any number of        *)
(* threads it is always one ring, and what multitask.c sees of it is the   *)
(* scheduler of module Scheduler.                                          *)
(***************************************************************************)
EXTENDS Serial, Ata, RoundRobin, Integers, SequenceTheorems, FiniteSetTheorems,
        TLAPS

USE Zenon

\* The buffers that bbuf_init, bbuf_try_add and bbuf_try_consume produce.
Buffers == [buf : [Slots -> Chars], head : Slots, tail : Slots]

-----------------------------------------------------------------------------
(***************************************************************************)
(* The ring buffer.                                                        *)
(***************************************************************************)

\* An index that has run past the end of the array once is brought back into
\* it by the % of bbuf.c.
LEMMA Wrap ==
  ASSUME NEW n \in 0..(2 * Size - 1)
  PROVE  n % Size = IF n < Size THEN n ELSE n - Size
  BY BoundedBufferAssumption, SMT

\* The slot after i is the next one, or the first after the last.
LEMMA FollowingSlot ==
  ASSUME NEW i \in Slots
  PROVE  Following(i) = IF i = Size - 1 THEN 0 ELSE i + 1
  <1>1. i + 1 \in 0..(2 * Size - 1)
    BY BoundedBufferAssumption, SMT DEF Slots
  <1>2. (i + 1) % Size = IF i + 1 < Size THEN i + 1 ELSE i + 1 - Size
    BY <1>1, Wrap, BoundedBufferAssumption, SMT DEF Slots
  <1> QED
    BY <1>2, BoundedBufferAssumption, SMT DEF Following, Slots

\* How many characters there are, without the %.
LEMMA UsedSlots ==
  ASSUME NEW st \in Buffers
  PROVE  /\ Used(st) = IF st.tail <= st.head THEN st.head - st.tail
                       ELSE st.head + Size - st.tail
         /\ Used(st) \in 0..(Size - 1)
  <1>1. st.head \in 0..(Size - 1) /\ st.tail \in 0..(Size - 1)
    BY DEF Buffers, Slots
  <1>2. st.head + Size - st.tail \in 0..(2 * Size - 1)
    BY <1>1, BoundedBufferAssumption, SMT
  <1>3. Used(st) = IF st.head + Size - st.tail < Size
                   THEN st.head + Size - st.tail
                   ELSE st.head + Size - st.tail - Size
    BY <1>1, <1>2, Wrap, BoundedBufferAssumption, SMT DEF Used
  <1> QED
    BY <1>1, <1>3, BoundedBufferAssumption, SMT

\* The slot of the i-th character, without the %.
SlotOf(st, i) ==
  IF st.tail + i - 1 < Size THEN st.tail + i - 1 ELSE st.tail + i - 1 - Size

\* Contents is a sequence of Used(st) characters; the i-th is in SlotOf(st, i).
LEMMA ContentsOf ==
  ASSUME NEW st \in Buffers
  PROVE  /\ Contents(st) \in Seq(Chars)
         /\ Len(Contents(st)) = Used(st)
         /\ \A i \in 1..Used(st) : /\ SlotOf(st, i) \in Slots
                                   /\ Contents(st)[i] = st.buf[SlotOf(st, i)]
  <1>1. /\ st.head \in 0..(Size - 1) /\ st.tail \in 0..(Size - 1)
        /\ Used(st) \in 0..(Size - 1)
    BY UsedSlots DEF Buffers, Slots
  <1>2. ASSUME NEW i \in 1..Used(st)
        PROVE  /\ (st.tail + i - 1) % Size = SlotOf(st, i)
               /\ SlotOf(st, i) \in Slots
    <2>1. st.tail + i - 1 \in 0..(2 * Size - 1)
      BY <1>1, BoundedBufferAssumption, SMT
    <2> QED
      BY <1>1, <2>1, Wrap, BoundedBufferAssumption, SMT DEF SlotOf, Slots
  <1>3. Contents(st) = [i \in 1..Used(st) |-> st.buf[SlotOf(st, i)]]
    BY <1>2 DEF Contents
  <1>4. \A i \in 1..Used(st) : st.buf[SlotOf(st, i)] \in Chars
    BY <1>2 DEF Buffers
  <1>5. Used(st) \in Nat /\ DOMAIN Contents(st) = 1..Used(st)
    BY <1>1, <1>3, SMT
  <1>6. Contents(st) \in [1..Used(st) -> Chars]
    BY <1>3, <1>4
  <1>7. Contents(st) \in Seq(Chars) /\ Len(Contents(st)) = Used(st)
    BY <1>5, <1>6, SMT
  <1>8. \A i \in 1..Used(st) : Contents(st)[i] = st.buf[SlotOf(st, i)]
    BY <1>3
  <1> QED
    BY <1>2, <1>7, <1>8

\* A buffer is full with Size - 1 characters and empty with none.
LEMMA FullAndEmpty ==
  ASSUME NEW st \in Buffers
  PROVE  /\ IsFull(st) <=> Used(st) = Size - 1
         /\ IsEmpty(st) <=> Used(st) = 0
  <1>1. st.head \in 0..(Size - 1) /\ st.tail \in 0..(Size - 1)
    BY DEF Buffers, Slots
  <1>2. Following(st.head) = IF st.head = Size - 1 THEN 0 ELSE st.head + 1
    BY FollowingSlot DEF Buffers
  <1> QED
    BY <1>1, <1>2, UsedSlots, BoundedBufferAssumption, SMT DEF IsFull, IsEmpty

\* bbuf_try_add of a buffer that is not full appends the character.
LEMMA AddedAppends ==
  ASSUME NEW st \in Buffers, NEW c \in Chars, ~IsFull(st)
  PROVE  /\ Added(st, c) \in Buffers
         /\ Contents(Added(st, c)) = Append(Contents(st), c)
         /\ Len(Contents(st)) < Size - 1
  <1> DEFINE new == Added(st, c)
  <1>1. /\ st.head \in 0..(Size - 1) /\ st.tail \in 0..(Size - 1)
        /\ st.buf \in [Slots -> Chars]
    BY DEF Buffers, Slots
  <1>2. Following(st.head) = IF st.head = Size - 1 THEN 0 ELSE st.head + 1
    BY FollowingSlot DEF Buffers
  <1>3. new = [buf |-> [st.buf EXCEPT ![st.head] = c],
               head |-> Following(st.head), tail |-> st.tail]
    BY DEF Added, Buffers
  <1> HIDE DEF new
  <1>4. new \in Buffers
    BY <1>1, <1>2, <1>3, BoundedBufferAssumption, SMT DEF Buffers, Slots
  <1>5. Used(st) \in Nat /\ Used(st) < Size - 1
    BY FullAndEmpty, UsedSlots, BoundedBufferAssumption, SMT
  <1>6. Used(new) = Used(st) + 1
    BY <1>1, <1>2, <1>3, <1>4, <1>5, UsedSlots, BoundedBufferAssumption, SMT
  <1>7. ASSUME NEW i \in 1..Used(new)
        PROVE  Contents(new)[i] = Append(Contents(st), c)[i]
    <2>1. SlotOf(new, i) = SlotOf(st, i)
      BY <1>3 DEF SlotOf
    <2>2. Contents(new)[i] = new.buf[SlotOf(st, i)]
      BY <1>4, <1>7, <2>1, ContentsOf
    <2>3. CASE i = Used(st) + 1
      <3>1. SlotOf(st, i) = st.head
        BY <1>1, <1>5, <2>3, UsedSlots, BoundedBufferAssumption, SMT DEF SlotOf
      <3>2. Append(Contents(st), c)[i] = c
        BY <2>3, ContentsOf, SMT
      <3> QED
        BY <1>1, <1>3, <2>2, <3>1, <3>2 DEF Slots, Buffers
    <2>4. CASE i \in 1..Used(st)
      <3>1. SlotOf(st, i) \in Slots /\ SlotOf(st, i) # st.head
        BY <1>1, <1>5, <2>4, UsedSlots, ContentsOf, BoundedBufferAssumption,
           SMT DEF SlotOf
      <3>2. Append(Contents(st), c)[i] = Contents(st)[i]
        BY <2>4, ContentsOf, SMT
      <3>3. Contents(st)[i] = st.buf[SlotOf(st, i)]
        BY <2>4, ContentsOf
      <3> QED
        BY <1>1, <1>3, <2>2, <3>1, <3>2, <3>3
    <2>5. i = Used(st) + 1 \/ i \in 1..Used(st)
      BY <1>5, <1>6, SMT
    <2> QED
      BY <2>3, <2>4, <2>5
  <1>8. /\ Contents(new) \in Seq(Chars)
        /\ Len(Contents(new)) = Used(new)
        /\ Contents(st) \in Seq(Chars)
        /\ Len(Contents(st)) = Used(st)
    BY <1>4, ContentsOf
  <1>9. Append(Contents(st), c) \in Seq(Chars)
        /\ Len(Append(Contents(st), c)) = Used(new)
    BY <1>6, <1>8, SMT
  <1>10. Contents(new) = Append(Contents(st), c)
    BY <1>7, <1>8, <1>9, SeqEqual
  <1> QED
    BY <1>4, <1>5, <1>8, <1>10 DEF new

\* bbuf_try_consume of a buffer that is not empty takes the oldest character.
LEMMA ConsumedIsTail ==
  ASSUME NEW st \in Buffers, ~IsEmpty(st)
  PROVE  /\ Consumed(st) \in Buffers
         /\ FirstChar(st) \in Chars
         /\ Contents(st) = <<FirstChar(st)>> \o Contents(Consumed(st))
  <1> DEFINE new == Consumed(st)
             back == <<FirstChar(st)>> \o Contents(new)
  <1>1. /\ st.head \in 0..(Size - 1) /\ st.tail \in 0..(Size - 1)
        /\ st.buf \in [Slots -> Chars]
    BY DEF Buffers, Slots
  <1>2. Following(st.tail) = IF st.tail = Size - 1 THEN 0 ELSE st.tail + 1
    BY FollowingSlot DEF Buffers
  <1>3. new = [buf |-> st.buf, head |-> st.head, tail |-> Following(st.tail)]
    BY SMT DEF Consumed, Buffers
  <1> HIDE DEF new
  <1>4. new \in Buffers
    BY <1>1, <1>2, <1>3, BoundedBufferAssumption, SMT DEF Buffers, Slots
  <1>5. Used(st) \in Nat /\ Used(st) > 0 /\ Used(new) = Used(st) - 1
    BY <1>1, <1>2, <1>3, <1>4, UsedSlots, FullAndEmpty,
       BoundedBufferAssumption, SMT
  <1>6. FirstChar(st) \in Chars
    BY <1>1 DEF FirstChar, Slots
  <1>7. /\ Contents(new) \in Seq(Chars) /\ Len(Contents(new)) = Used(new)
        /\ Contents(st) \in Seq(Chars) /\ Len(Contents(st)) = Used(st)
    BY <1>4, ContentsOf
  <1>8. /\ back \in Seq(Chars)
        /\ Len(back) = Used(st)
        /\ back[1] = FirstChar(st)
        /\ \A i \in 2..Used(st) : back[i] = Contents(new)[i - 1]
    BY <1>5, <1>6, <1>7, SMT
  <1>9. ASSUME NEW i \in 1..Used(st)
        PROVE  Contents(st)[i] = back[i]
    <2>1. Contents(st)[i] = st.buf[SlotOf(st, i)]
      BY ContentsOf
    <2>2. CASE i = 1
      BY <1>1, <1>8, <2>1, <2>2, BoundedBufferAssumption, SMT DEF SlotOf,
         FirstChar
    <2>3. CASE i \in 2..Used(st)
      <3>1. i - 1 \in 1..Used(new)
        BY <1>5, <2>3, SMT
      <3>2. SlotOf(new, i - 1) = SlotOf(st, i)
        BY <1>1, <1>2, <1>3, <1>5, <2>3, UsedSlots, BoundedBufferAssumption,
           SMT DEF SlotOf
      <3>3. Contents(new)[i - 1] = new.buf[SlotOf(new, i - 1)]
        BY <1>4, <3>1, ContentsOf
      <3> QED
        BY <1>3, <1>8, <2>1, <2>3, <3>2, <3>3
    <2>4. i = 1 \/ i \in 2..Used(st)
      BY <1>5, SMT
    <2> QED
      BY <2>2, <2>3, <2>4
  <1>10. Contents(st) = back
    BY <1>7, <1>8, <1>9, SeqEqual
  <1> QED
    BY <1>4, <1>6, <1>10 DEF new

\* bbuf_init gives an empty queue.
LEMMA EmptyContents ==
  ASSUME NEW zero \in Chars
  PROVE  EmptyBuffer(zero) \in Buffers /\ Contents(EmptyBuffer(zero)) = <<>>
  <1>1. EmptyBuffer(zero) \in Buffers
    BY BoundedBufferAssumption, SMT DEF EmptyBuffer, Buffers, Slots
  <1>2. Used(EmptyBuffer(zero)) = 0
    BY <1>1, UsedSlots, SMT DEF EmptyBuffer
  <1> QED
    BY <1>1, <1>2, ContentsOf, SMT
-----------------------------------------------------------------------------
(***************************************************************************)
(* The driver.                                                             *)
(***************************************************************************)

SerialTypeOK ==
  /\ ser_st \in Buffers
  /\ ser_active \in BOOLEAN
  /\ thr \in Chars \cup {NoChar}
  /\ thre_int \in BOOLEAN
  /\ taken \in Seq(Chars)
  /\ sent \in Seq(Chars)

(***************************************************************************)
(* Who may write the holding register: while it is full the driver knows   *)
(* (ser_active), and the interrupt that would call transmit() with         *)
(* ser_active cleared is not pending.                                      *)
(***************************************************************************)
RegisterGuarded == thr # NoChar => ser_active /\ ~thre_int

(***************************************************************************)
(* NothingLost is not inductive by itself: the thread that calls transmit()*)
(* must not overwrite a full holding register, which RegisterGuarded says. *)
(***************************************************************************)
SerialInv ==
  /\ SerialTypeOK
  /\ RegisterGuarded
  /\ NothingLost

\* The holding register as a sequence.
Held == IF thr = NoChar THEN <<>> ELSE <<thr>>

\* In a well-typed state Contents is a sequence of characters.
LEMMA ContentsTyped ==
  ASSUME SerialTypeOK
  PROVE  Contents(ser_st) \in Seq(Chars) /\ Held \in Seq(Chars)
  BY ContentsOf, SMT DEF SerialTypeOK, Held

\* transmit() on an empty holding register moves the oldest character into it
\* or finds the buffer empty; on a full one that the driver knows of it does
\* nothing.
LEMMA TransmitMoves ==
  ASSUME SerialTypeOK, NEW active \in BOOLEAN, transmit(active),
         thr # NoChar => active
  PROVE  /\ ser_st' \in Buffers
         /\ ser_active' \in BOOLEAN
         /\ thr' \in Chars \cup {NoChar}
         /\ thr' # NoChar => ser_active'
         /\ thr' = thr \/ thr = NoChar
         /\ Held' \o Contents(ser_st)' = Held \o Contents(ser_st)
  <1>1. CASE Busy(active) \/ IsEmpty(ser_st)
    BY <1>1 DEF transmit, Busy, SerialTypeOK, Held, Contents, Used
  <1>2. CASE ~(Busy(active) \/ IsEmpty(ser_st))
    <2>1. /\ thr = NoChar
          /\ ser_active' = TRUE
          /\ ser_st' = Consumed(ser_st)
          /\ thr' = FirstChar(ser_st)
      BY <1>2 DEF transmit, Busy
    <2>2. /\ Consumed(ser_st) \in Buffers
          /\ FirstChar(ser_st) \in Chars
          /\ Contents(ser_st) = <<FirstChar(ser_st)>> \o Contents(Consumed(ser_st))
      BY <1>2, ConsumedIsTail DEF SerialTypeOK
    <2>3. Held = <<>> /\ Held' = <<FirstChar(ser_st)>>
      BY <2>1, <2>2, SerialAssumption DEF Held
    <2>4. Contents(ser_st)' = Contents(Consumed(ser_st))
      BY <2>1 DEF Contents, Used
    <2>5. Held \o Contents(ser_st) = Contents(ser_st)
      BY <2>3, ContentsTyped, SMT
    <2> QED
      BY <2>1, <2>2, <2>3, <2>4, <2>5
  <1> QED
    BY <1>1, <1>2

\* NothingLost, bracketed so that transmit() changes only the right part.
InOrder == taken = sent \o (Held \o Contents(ser_st))

\* The two ways to bracket say the same.
LEMMA SentHeldContents == SerialTypeOK => (NothingLost <=> InOrder)
  <1> SUFFICES ASSUME SerialTypeOK PROVE NothingLost <=> InOrder
    OBVIOUS
  <1>1. (sent \o Held) \o Contents(ser_st) = sent \o (Held \o Contents(ser_st))
    BY ContentsTyped, ConcatAssociative, SMT DEF SerialTypeOK
  <1> QED
    BY <1>1 DEF NothingLost, InOrder, Held

\* Appending to the last of three parts appends to the whole.
LEMMA AppendToLast ==
  ASSUME NEW s \in Seq(Chars), NEW t \in Seq(Chars), NEW u \in Seq(Chars),
         NEW c \in Chars
  PROVE  Append(s \o (t \o u), c) = s \o (t \o Append(u, c))
  <1>1. /\ <<c>> \in Seq(Chars) /\ t \o u \in Seq(Chars)
        /\ s \o (t \o u) \in Seq(Chars)
    BY SMT
  <1>2. /\ Append(u, c) = u \o <<c>>
        /\ Append(s \o (t \o u), c) = (s \o (t \o u)) \o <<c>>
    BY <1>1, AppendIsConcat
  <1>3. (t \o u) \o <<c>> = t \o (u \o <<c>>)
    BY <1>1, ConcatAssociative, SMT
  <1>4. PICK v \in Seq(Chars) : v = t \o u
    BY <1>1
  <1>5. (s \o v) \o <<c>> = s \o (v \o <<c>>)
    BY <1>1, ConcatAssociative, SMT
  <1> QED
    BY <1>2, <1>3, <1>4, <1>5

\* serial_init leaves nothing to send.
LEMMA InitSerialInv == Init => SerialInv
  <1> SUFFICES ASSUME Init PROVE SerialInv
    OBVIOUS
  <1>1. PICK zero \in Chars : ser_st = EmptyBuffer(zero)
    BY DEF Init
  <1>2. ser_st \in Buffers /\ Contents(ser_st) = <<>>
    BY <1>1, EmptyContents
  <1>3. <<>> \in Seq(Chars)
    BY SMT
  <1>4. SerialTypeOK
    BY <1>2, <1>3 DEF Init, SerialTypeOK
  <1>5. NothingLost
    BY <1>2, SMT DEF Init, NothingLost
  <1> QED
    BY <1>4, <1>5 DEF Init, SerialInv, RegisterGuarded

\* Every step of a thread, of the handler and of the UART keeps the invariant.
LEMMA NextSerialInv == SerialInv /\ [Next]_vars => SerialInv'
  <1> SUFFICES ASSUME SerialInv, [Next]_vars PROVE SerialInv'
    OBVIOUS
  <1>1. SerialTypeOK /\ RegisterGuarded
    BY DEF SerialInv
  <1>2. taken = sent \o (Held \o Contents(ser_st))
    BY SentHeldContents DEF SerialInv, InOrder
  <1>3. SUFFICES /\ SerialTypeOK' /\ RegisterGuarded'
                 /\ taken' = sent' \o (Held' \o Contents(ser_st)')
    <2>1. SerialTypeOK' => (NothingLost' <=> InOrder')
      BY SentHeldContents, PTL
    <2> QED
      BY <2>1 DEF SerialInv, InOrder
  <1>4. CASE UNCHANGED vars
    BY <1>1, <1>2, <1>4
    DEF vars, SerialTypeOK, RegisterGuarded, Held, Contents, Used
  <1>5. ASSUME NEW p \in Printers, serial_display_char(p)
        PROVE  /\ SerialTypeOK' /\ RegisterGuarded'
               /\ taken' = sent' \o (Held' \o Contents(ser_st)')
    <2>1. PICK c \in Chars :
            /\ ser_st' = Added(ser_st, c)
            /\ taken' = IF IsFull(ser_st) THEN taken ELSE Append(taken, c)
      BY <1>5 DEF serial_display_char
    <2>2. /\ UNCHANGED <<ser_active, thr, thre_int, sent>>
          /\ Held' = Held
      BY <1>5 DEF serial_display_char, Held
    <2>3. Contents(ser_st)' = Contents(ser_st')
      BY DEF Contents, Used
    <2>4. CASE IsFull(ser_st)
      <3>1. ser_st' = ser_st /\ taken' = taken
        BY <2>1, <2>4 DEF Added
      <3> QED
        BY <1>1, <1>2, <2>2, <2>3, <3>1 DEF SerialTypeOK, RegisterGuarded
    <2>5. CASE ~IsFull(ser_st)
      <3>1. /\ ser_st' \in Buffers
            /\ Contents(ser_st') = Append(Contents(ser_st), c)
        BY <1>1, <2>1, <2>5, AddedAppends DEF SerialTypeOK
      <3>2. taken' = Append(taken, c)
        BY <2>1, <2>5
      <3>3. /\ sent \in Seq(Chars) /\ Held \in Seq(Chars)
            /\ Contents(ser_st) \in Seq(Chars)
        BY <1>1, ContentsTyped DEF SerialTypeOK
      <3>4. Append(sent \o (Held \o Contents(ser_st)), c)
              = sent \o (Held \o Append(Contents(ser_st), c))
        BY <3>3, AppendToLast, ZenonT(40)
      <3> QED
        BY <1>1, <1>2, <2>2, <2>3, <3>1, <3>2, <3>4, SMT DEF SerialTypeOK,
           RegisterGuarded
    <2> QED
      BY <2>4, <2>5
  <1>6. ASSUME NEW p \in Printers, serial_transmit(p)
        PROVE  /\ SerialTypeOK' /\ RegisterGuarded'
               /\ taken' = sent' \o (Held' \o Contents(ser_st)')
    <2>1. /\ transmit(ser_active)
          /\ thre_int' = (thre_int /\ thr' = thr)
          /\ UNCHANGED <<taken, sent>>
      BY <1>6 DEF serial_transmit
    <2>2. /\ ser_st' \in Buffers
          /\ ser_active' \in BOOLEAN
          /\ thr' \in Chars \cup {NoChar}
          /\ thr' # NoChar => ser_active'
          /\ thr' = thr \/ thr = NoChar
          /\ Held' \o Contents(ser_st)' = Held \o Contents(ser_st)
      BY <1>1, <2>1, TransmitMoves DEF SerialTypeOK, RegisterGuarded
    <2> QED
      BY <1>1, <1>2, <2>1, <2>2 DEF SerialTypeOK, RegisterGuarded
  <1>7. CASE ISR36_IRQ4_serial
    <2>1. /\ transmit(FALSE) /\ thr = NoChar /\ thre_int' = FALSE
          /\ UNCHANGED <<taken, sent>>
      BY <1>1, <1>7 DEF ISR36_IRQ4_serial, RegisterGuarded
    <2>2. /\ ser_st' \in Buffers
          /\ ser_active' \in BOOLEAN
          /\ thr' \in Chars \cup {NoChar}
          /\ thr' # NoChar => ser_active'
          /\ Held' \o Contents(ser_st)' = Held \o Contents(ser_st)
      BY <1>1, <2>1, TransmitMoves
    <2> QED
      BY <1>1, <1>2, <2>1, <2>2 DEF SerialTypeOK, RegisterGuarded
  <1>8. CASE UartSends
    <2>1. /\ thr \in Chars /\ thr' = NoChar
          /\ sent' = Append(sent, thr)
          /\ thre_int' = TRUE
          /\ UNCHANGED <<ser_st, ser_active, taken>>
      BY <1>1, <1>8 DEF UartSends, SerialTypeOK
    <2>2. Held = <<thr>> /\ Held' = <<>> /\ Contents(ser_st)' = Contents(ser_st)
      BY <2>1, SerialAssumption DEF Held, Contents, Used
    <2>3. sent \o (<<thr>> \o Contents(ser_st))
            = Append(sent, thr) \o (<<>> \o Contents(ser_st))
      BY <1>1, <2>1, ContentsTyped, SMT DEF SerialTypeOK
    <2>4. SerialTypeOK'
      <3>1. sent' \in Seq(Chars)
        BY <1>1, <2>1, SMT DEF SerialTypeOK
      <3> QED
        BY <1>1, <2>1, <3>1 DEF SerialTypeOK
    <2>5. RegisterGuarded'
      BY <1>1, <2>1 DEF RegisterGuarded
    <2>6. taken' = sent' \o (Held' \o Contents(ser_st)')
      <3>1. taken' = sent \o (<<thr>> \o Contents(ser_st))
        BY <1>2, <2>1, <2>2
      <3> QED
        BY <2>1, <2>2, <2>3, <3>1
    <2> QED
      BY <2>4, <2>5, <2>6
  <1> QED
    BY <1>4, <1>5, <1>6, <1>7, <1>8 DEF Next

(***************************************************************************)
(* Whatever threads print and whenever the UART interrupts, the characters *)
(* that bbuf_try_add accepted are sent once and in order (NothingLost),    *)
(* and transmit() never writes a holding register that is full.            *)
(***************************************************************************)
THEOREM NothingLostCorrect == Spec => [](NothingLost /\ RegisterGuarded)
  <1>1. SerialInv => NothingLost /\ RegisterGuarded
    BY DEF SerialInv
  <1> QED
    BY <1>1, InitSerialInv, NextSerialInv, PTL DEF Spec

(***************************************************************************)
(* Every step of the driver is one bbuf_try_add that is accepted, one      *)
(* bbuf_try_consume, or leaves the queue alone: the buffer of bbuf.c, of   *)
(* any size, implements the bounded queue of Channel.                      *)
(***************************************************************************)
THEOREM ChannelCorrect == Spec => ImplementsChannel
  <1>1. Init => FifoSpec!Init
    <2> SUFFICES ASSUME Init PROVE FifoSpec!Init
      OBVIOUS
    <2> QED
      BY EmptyContents DEF Init, FifoSpec!Init
  <1>2. SerialInv /\ [Next]_vars => [FifoSpec!Next]_(Contents(ser_st))
    <2> SUFFICES ASSUME SerialInv, [Next]_vars
                 PROVE  [FifoSpec!Next]_(Contents(ser_st))
      OBVIOUS
    <2>1. ser_st \in Buffers /\ RegisterGuarded
      BY DEF SerialInv, SerialTypeOK
    <2>2. Contents(ser_st)' = Contents(ser_st')
      BY DEF Contents, Used
    <2>3. CASE ser_st' = ser_st
      BY <2>2, <2>3
    <2>4. ASSUME NEW c \in Chars, ser_st' = Added(ser_st, c)
          PROVE  [FifoSpec!Next]_(Contents(ser_st))
      <3>1. CASE IsFull(ser_st)
        BY <2>2, <2>4, <3>1 DEF Added
      <3>2. CASE ~IsFull(ser_st)
        <4>1. FifoSpec!Add(c)
          BY <2>1, <2>2, <2>4, <3>2, AddedAppends DEF FifoSpec!Add
        <4> QED
          BY <4>1 DEF FifoSpec!Next
      <3> QED
        BY <3>1, <3>2
    <2>5. ASSUME NEW active, transmit(active)
          PROVE  [FifoSpec!Next]_(Contents(ser_st))
      <3>1. CASE ser_st' = ser_st
        BY <2>3, <3>1
      <3>2. CASE ~IsEmpty(ser_st) /\ ser_st' = Consumed(ser_st)
        <4>1. /\ Contents(ser_st) = <<FirstChar(ser_st)>> \o Contents(ser_st')
              /\ Contents(ser_st') \in Seq(Chars)
              /\ FirstChar(ser_st) \in Chars
          BY <2>1, <3>2, ConsumedIsTail, ContentsOf
        <4>2. Contents(ser_st) # <<>> /\ Contents(ser_st') = Tail(Contents(ser_st))
          BY <4>1, SMT
        <4> QED
          BY <2>2, <4>2 DEF FifoSpec!Consume, FifoSpec!Next
      <3> QED
        BY <2>5, <3>1, <3>2 DEF transmit
    <2>6. ASSUME NEW p \in Printers, serial_display_char(p) \/ serial_transmit(p)
          PROVE  [FifoSpec!Next]_(Contents(ser_st))
      BY <2>4, <2>5, <2>6 DEF serial_display_char, serial_transmit
    <2>7. CASE ISR36_IRQ4_serial
      BY <2>5, <2>7 DEF ISR36_IRQ4_serial
    <2>8. CASE UartSends \/ UNCHANGED vars
      BY <2>3, <2>8 DEF UartSends, vars
    <2> QED
      BY <2>6, <2>7, <2>8 DEF Next
  <1> QED
    BY <1>1, <1>2, InitSerialInv, NextSerialInv, PTL
    DEF Spec, ImplementsChannel, FifoSpec!Spec
-----------------------------------------------------------------------------
(***************************************************************************)
(* The disk driver.  Both of its properties rest on the shape of the linked *)
(* list: the sleeping readers, in the order of a sequence q, are the nodes *)
(* from req_head to req_tail.                                              *)
(***************************************************************************)

AtaTypeOK ==
  /\ req_head \in Readers \cup {Nil}
  /\ req_tail \in Readers \cup {Nil}
  /\ next \in [Readers -> Readers \cup {Nil}]
  /\ blk_num \in [Readers -> Blocks \cup {Nil}]
  /\ buffer \in [Readers -> Blocks \cup {Nil}]
  /\ rpc \in [Readers -> {"idle", "asleep", "done"}]
  /\ drive \in {"idle", "busy", "drq", "err"}
  /\ lba \in Blocks \cup {Nil}

(***************************************************************************)
(* The request queue holds the readers of q in this order: each of them    *)
(* sleeps, nobody else does, and next links them from req_head to          *)
(* req_tail.                                                               *)
(***************************************************************************)
QueueIs(q) ==
  /\ \A i, j \in 1..Len(q) : q[i] = q[j] => i = j
  /\ \A r \in Readers : rpc[r] = "asleep" <=> \E i \in 1..Len(q) : q[i] = r
  /\ \A i \in 1..Len(q) : next[q[i]] = IF i = Len(q) THEN Nil ELSE q[i + 1]
  /\ req_head = IF q = <<>> THEN Nil ELSE q[1]
  /\ req_tail = IF q = <<>> THEN Nil ELSE q[Len(q)]

QueueIsList == \E q \in Seq(Readers) : QueueIs(q)

(***************************************************************************)
(* Who starts the head: a reader that is done and has a successor has not  *)
(* started it yet, there is one such reader if the drive is idle and none  *)
(* otherwise; a command in the drive is the head's.                        *)
(***************************************************************************)
Starter(r) == rpc[r] = "done" /\ next[r] # Nil

HeadHasStarter ==
  /\ \A r \in Readers : Starter(r) => next[r] = req_head /\ drive = "idle"
  /\ \A r, s \in Readers : Starter(r) /\ Starter(s) => r = s
  /\ drive = "idle" /\ req_head # Nil => \E r \in Readers : Starter(r)
  /\ drive # "idle" => req_head # Nil /\ lba = blk_num[req_head]

AtaInv ==
  /\ AtaTypeOK
  /\ QueueIsList
  /\ HeadHasStarter
  /\ RightBlock
-----------------------------------------------------------------------------
\* The two properties that the run checks follow from the invariant.
LEMMA AtaInvImplies == AtaInv => RightBlock /\ HeadIsServed
  <1> SUFFICES ASSUME AtaInv PROVE HeadIsServed
    BY DEF AtaInv
  <1> DEFINE starters == {r \in Readers : rpc[r] = "done" /\ next[r] = req_head}
  <1>1. CASE req_head = Nil
    BY <1>1 DEF AtaInv, HeadHasStarter, HeadIsServed
  <1>2. CASE req_head # Nil
    <2>1. starters = {r \in Readers : Starter(r)}
      BY <1>2 DEF AtaInv, HeadHasStarter, Starter
    <2>2. CASE drive = "idle"
      BY <1>2, <2>1, <2>2, SMT DEF AtaInv, HeadHasStarter, HeadIsServed
    <2>3. CASE drive # "idle"
      BY <1>2, <2>1, <2>3 DEF AtaInv, HeadHasStarter, HeadIsServed
    <2> QED
      BY <2>2, <2>3
  <1> QED
    BY <1>1, <1>2

\* After ata_probe the queue is empty.
LEMMA InitAtaInv == AtaInit => AtaInv
  <1> SUFFICES ASSUME AtaInit PROVE AtaInv
    OBVIOUS
  <1>1. AtaTypeOK
    BY DEF AtaInit, AtaTypeOK
  <1>2. QueueIs(<<>>)
    BY SMT DEF AtaInit, QueueIs
  <1>3. HeadHasStarter /\ RightBlock
    BY DEF AtaInit, HeadHasStarter, Starter, RightBlock
  <1>4. <<>> \in Seq(Readers)
    BY SMT
  <1>5. QueueIsList
    BY <1>2, <1>4 DEF QueueIsList
  <1> QED
    BY <1>1, <1>3, <1>5 DEF AtaInv

\* The ends of the list sleep, and only they have no successor.
LEMMA QueueEnds ==
  ASSUME NEW q \in Seq(Readers), QueueIs(q)
  PROVE  /\ req_head = Nil <=> q = <<>>
         /\ q # <<>> => /\ req_head \in Readers /\ rpc[req_head] = "asleep"
                        /\ req_tail \in Readers /\ rpc[req_tail] = "asleep"
                        /\ next[req_head] = IF Len(q) = 1 THEN Nil ELSE q[2]
  <1>1. CASE q = <<>>
    BY <1>1 DEF QueueIs
  <1>2. CASE q # <<>>
    <2>1. Len(q) \in Nat /\ Len(q) >= 1 /\ 1 \in 1..Len(q) /\ Len(q) \in 1..Len(q)
      BY <1>2, SMT
    <2>2. q[1] \in Readers /\ q[Len(q)] \in Readers
      BY <2>1, SMT
    <2>3. /\ req_head = q[1] /\ req_tail = q[Len(q)]
          /\ rpc[q[1]] = "asleep" /\ rpc[q[Len(q)]] = "asleep"
      BY <1>2, <2>1, <2>2 DEF QueueIs
    <2>4. next[q[1]] = IF 1 = Len(q) THEN Nil ELSE q[1 + 1]
      BY <2>1 DEF QueueIs
    <2> QED
      BY <1>2, <2>2, <2>3, <2>4, AtaAssumption, SMT
  <1> QED
    BY <1>1, <1>2

\* ata_read_block puts the request of r at the end of the queue.
LEMMA EnqueueKeepsList ==
  ASSUME AtaTypeOK, NEW q \in Seq(Readers), QueueIs(q),
         NEW r \in Readers, ata_read_block(r)
  PROVE  QueueIs(Append(q, r))'
  <1> DEFINE n == Len(q)
             new == Append(q, r)
  <1>1. /\ n \in Nat /\ Len(new) = n + 1 /\ new[n + 1] = r
        /\ \A i \in 1..n : new[i] = q[i] /\ q[i] \in Readers
        /\ new # <<>>
    BY SMT
  <1>2. /\ rpc[r] = "idle" /\ rpc' = [rpc EXCEPT ![r] = "asleep"]
        /\ req_tail' = r
    BY DEF ata_read_block
  <1>3. \A i \in 1..n : rpc[q[i]] = "asleep" /\ q[i] # r
    BY <1>1, <1>2 DEF QueueIs
  <1>4. \A i, j \in 1..Len(new) : new[i] = new[j] => i = j
    BY <1>1, <1>3, SMT DEF QueueIs
  <1>5. ASSUME NEW s \in Readers
        PROVE  rpc'[s] = "asleep" <=> \E i \in 1..Len(new) : new[i] = s
    <2>1. CASE s = r
      BY <1>1, <1>2, <2>1, SMT DEF AtaTypeOK
    <2>2. CASE s # r
      <3>1. rpc'[s] = rpc[s]
        BY <1>2, <2>2 DEF AtaTypeOK
      <3>2. rpc[s] = "asleep" <=> \E i \in 1..n : q[i] = s
        BY DEF QueueIs
      <3>3. (\E i \in 1..Len(new) : new[i] = s) <=> \E i \in 1..n : q[i] = s
        BY <1>1, <2>2, SMT
      <3> QED
        BY <3>1, <3>2, <3>3
    <2> QED
      BY <2>1, <2>2
  <1>6. CASE req_head = Nil
    <2>1. q = <<>> /\ n = 0
      BY <1>6, QueueEnds, SMT
    <2>2. req_head' = r /\ next' = [next EXCEPT ![r] = Nil]
      BY <1>6 DEF ata_read_block
    <2>3. /\ req_head' = new[1] /\ req_tail' = new[Len(new)]
          /\ \A i \in 1..Len(new) : next'[new[i]] = Nil /\ i = Len(new)
      BY <1>1, <1>2, <2>1, <2>2, SMT DEF AtaTypeOK
    <2> QED
      BY <1>1, <1>4, <1>5, <2>3 DEF QueueIs
  <1>7. CASE req_head # Nil
    <2>1. /\ q # <<>> /\ n >= 1
          /\ req_head = q[1] /\ req_tail = q[n]
      BY <1>7, QueueEnds, SMT DEF QueueIs
    <2>2. /\ req_head' = req_head
          /\ next' = [next EXCEPT ![req_tail] = r, ![r] = Nil]
      BY <1>7 DEF ata_read_block
    <2>3. req_head' = new[1] /\ req_tail' = new[Len(new)]
      BY <1>1, <1>2, <2>1, <2>2, SMT
    <2>4. ASSUME NEW i \in 1..Len(new)
          PROVE  next'[new[i]] = IF i = Len(new) THEN Nil ELSE new[i + 1]
      <3>1. CASE i = n + 1
        BY <1>1, <2>2, <3>1 DEF AtaTypeOK
      <3>2. CASE i = n
        BY <1>1, <1>3, <2>1, <2>2, <3>2, SMT DEF AtaTypeOK
      <3>3. CASE i \in 1..(n - 1)
        <4>1. i \in 1..n /\ i + 1 \in 1..n /\ i # n /\ n \in 1..n
          BY <1>1, <3>3, SMT
        <4>2. q[i] # req_tail /\ q[i] # r /\ next[q[i]] = q[i + 1]
          BY <1>3, <2>1, <4>1, SMT DEF QueueIs
        <4> QED
          BY <1>1, <2>2, <4>1, <4>2 DEF AtaTypeOK
      <3>4. i = n + 1 \/ i = n \/ i \in 1..(n - 1)
        BY <1>1, SMT
      <3> QED
        BY <3>1, <3>2, <3>3, <3>4
    <2> QED
      BY <1>1, <1>4, <1>5, <2>3, <2>4 DEF QueueIs
  <1> QED
    BY <1>6, <1>7

\* The interrupt handler takes the first request off the queue.
LEMMA DequeueKeepsList ==
  ASSUME AtaTypeOK, NEW q \in Seq(Readers), QueueIs(q), req_head # Nil,
         rpc' = [rpc EXCEPT ![req_head] = "done"],
         req_head' = next[req_head],
         req_tail' = IF next[req_head] = Nil THEN Nil ELSE req_tail,
         next' = next
  PROVE  QueueIs(Tail(q))'
  <1> DEFINE n == Len(q)
             new == Tail(q)
  <1>1. /\ q # <<>> /\ req_head = q[1] /\ req_tail = q[n]
        /\ next[req_head] = IF n = 1 THEN Nil ELSE q[2]
    BY QueueEnds DEF QueueIs
  <1>2. /\ n \in Nat /\ n >= 1 /\ Len(new) = n - 1
        /\ new \in Seq(Readers)
        /\ \A i \in 1..(n - 1) : new[i] = q[i + 1]
        /\ \A i \in 1..n : q[i] \in Readers
    BY <1>1, SMT
  <1> HIDE DEF new
  <1>3. new = <<>> <=> n = 1
    BY <1>2, SMT
  <1>4. \A i, j \in 1..Len(new) : new[i] = new[j] => i = j
    BY <1>2, SMT DEF QueueIs
  <1>5. ASSUME NEW s \in Readers
        PROVE  rpc'[s] = "asleep" <=> \E i \in 1..Len(new) : new[i] = s
    <2>1. CASE s = q[1]
      <3>1. \A i \in 1..Len(new) : new[i] # s
        BY <1>2, <2>1, SMT DEF QueueIs
      <3> QED
        BY <1>1, <2>1, <3>1 DEF AtaTypeOK
    <2>2. CASE s # q[1]
      <3>1. rpc'[s] = rpc[s]
        BY <1>1, <2>2 DEF AtaTypeOK
      <3>2. rpc[s] = "asleep" <=> \E i \in 1..n : q[i] = s
        BY DEF QueueIs
      <3>3. ASSUME NEW i \in 1..n, q[i] = s
            PROVE  \E j \in 1..Len(new) : new[j] = s
        <4>1. i - 1 \in 1..Len(new) /\ new[i - 1] = s
          BY <1>2, <2>2, <3>3, SMT
        <4> QED
          BY <4>1
      <3>4. ASSUME NEW j \in 1..Len(new), new[j] = s
            PROVE  \E i \in 1..n : q[i] = s
        <4>1. j + 1 \in 1..n /\ q[j + 1] = s
          BY <1>2, <3>4, SMT
        <4> QED
          BY <4>1
      <3> QED
        BY <3>1, <3>2, <3>3, <3>4
    <2> QED
      BY <2>1, <2>2
  <1>6. ASSUME NEW i \in 1..Len(new)
        PROVE  next'[new[i]] = IF i = Len(new) THEN Nil ELSE new[i + 1]
    <2>1. i + 1 \in 1..n /\ new[i] = q[i + 1]
      BY <1>2, SMT
    <2>2. next[q[i + 1]] = IF i + 1 = n THEN Nil ELSE q[i + 2]
      BY <1>2, <2>1, SMT DEF QueueIs
    <2> QED
      BY <1>2, <2>1, <2>2, SMT
  <1>7. /\ req_head' = IF new = <<>> THEN Nil ELSE new[1]
        /\ req_tail' = IF new = <<>> THEN Nil ELSE new[Len(new)]
    <2>1. CASE n = 1
      BY <1>1, <1>3, <2>1
    <2>2. CASE n # 1
      <3>1. q[2] # Nil /\ new[1] = q[2] /\ new[Len(new)] = q[n]
        BY <1>2, <2>2, AtaAssumption, SMT
      <3> QED
        BY <1>1, <1>3, <2>2, <3>1
    <2> QED
      BY <2>1, <2>2
  <1> QED
    BY <1>4, <1>5, <1>6, <1>7 DEF QueueIs, new
-----------------------------------------------------------------------------
\* Every step keeps the types.
LEMMA NextTyped == AtaInv /\ [AtaNext]_ata_vars => AtaTypeOK'
  <1> SUFFICES ASSUME AtaInv, [AtaNext]_ata_vars PROVE AtaTypeOK'
    OBVIOUS
  <1>1. AtaTypeOK
    BY DEF AtaInv
  <1>2. PICK q \in Seq(Readers) : QueueIs(q)
    BY DEF AtaInv, QueueIsList
  <1>3. req_head # Nil => /\ req_head \in Readers /\ req_tail \in Readers
                           /\ next[req_head] \in Readers \cup {Nil}
    BY <1>1, <1>2, QueueEnds DEF AtaTypeOK
  <1>4. ASSUME NEW r \in Readers, ata_read_block(r)
        PROVE  AtaTypeOK'
    BY <1>1, <1>3, <1>4 DEF ata_read_block, ata_start_request, AtaTypeOK
  <1>5. ASSUME NEW r \in Readers, ata_read_block_end(r)
        PROVE  AtaTypeOK'
    BY <1>1, <1>3, <1>5 DEF ata_read_block_end, ata_start_request, AtaTypeOK
  <1>6. CASE ISR_ata_handler
    BY <1>1, <1>3, <1>6 DEF ISR_ata_handler, DataPort, AtaTypeOK
  <1>7. CASE DriveDone
    BY <1>1, <1>7 DEF DriveDone, AtaTypeOK
  <1>8. CASE UNCHANGED ata_vars
    BY <1>1, <1>8 DEF ata_vars, AtaTypeOK
  <1> QED
    BY <1>4, <1>5, <1>6, <1>7, <1>8 DEF AtaNext

\* Every step keeps the list: it grows at its end, loses its head, or stays.
LEMMA NextKeepsList == AtaInv /\ [AtaNext]_ata_vars => QueueIsList'
  <1> SUFFICES ASSUME AtaInv, [AtaNext]_ata_vars PROVE QueueIsList'
    OBVIOUS
  <1>1. AtaTypeOK
    BY DEF AtaInv
  <1>2. PICK q \in Seq(Readers) : QueueIs(q)
    BY DEF AtaInv, QueueIsList
  <1>3. ASSUME NEW s \in Seq(Readers), QueueIs(s)'
        PROVE  QueueIsList'
    BY <1>3 DEF QueueIsList
  <1>4. ASSUME NEW r \in Readers, ata_read_block(r)
        PROVE  QueueIsList'
    <2>1. Append(q, r) \in Seq(Readers)
      BY SMT
    <2> QED
      BY <1>1, <1>2, <1>3, <1>4, <2>1, EnqueueKeepsList
  <1>5. ASSUME NEW r \in Readers, ata_read_block_end(r)
        PROVE  QueueIsList'
    <2>1. /\ rpc[r] = "done" /\ rpc' = [rpc EXCEPT ![r] = "idle"]
          /\ UNCHANGED <<req_head, req_tail, next>>
      BY <1>5 DEF ata_read_block_end
    <2>2. \A s \in Readers : rpc'[s] = "asleep" <=> rpc[s] = "asleep"
      BY <1>1, <2>1 DEF AtaTypeOK
    <2> QED
      BY <1>2, <1>3, <2>1, <2>2 DEF QueueIs
  <1>6. ASSUME UNCHANGED <<req_head, req_tail, next, rpc>>
        PROVE  QueueIsList'
    BY <1>2, <1>3, <1>6 DEF QueueIs
  <1>7. CASE ISR_ata_handler
    <2>1. CASE drive # "drq" \/ req_head = Nil
      BY <1>6, <1>7, <2>1 DEF ISR_ata_handler
    <2>2. CASE drive = "drq" /\ req_head # Nil
      <3>1. /\ rpc' = [rpc EXCEPT ![req_head] = "done"]
            /\ req_head' = next[req_head]
            /\ req_tail' = IF next[req_head] = Nil THEN Nil ELSE req_tail
            /\ next' = next
        BY <1>7, <2>2 DEF ISR_ata_handler
      <3>2. QueueIs(Tail(q))'
        BY <1>1, <1>2, <2>2, <3>1, DequeueKeepsList
      <3>3. Tail(q) \in Seq(Readers)
        BY <1>2, <2>2, QueueEnds, SMT
      <3> QED
        BY <1>3, <3>2, <3>3
    <2> QED
      BY <2>1, <2>2
  <1>8. CASE DriveDone \/ UNCHANGED ata_vars
    BY <1>6, <1>8 DEF DriveDone, ata_vars
  <1> QED
    BY <1>4, <1>5, <1>7, <1>8 DEF AtaNext

\* Every step keeps a starter for a waiting head, and a read's block.
LEMMA NextKeepsStarter ==
  AtaInv /\ [AtaNext]_ata_vars => HeadHasStarter' /\ RightBlock'
  <1> SUFFICES ASSUME AtaInv, [AtaNext]_ata_vars
               PROVE  HeadHasStarter' /\ RightBlock'
    OBVIOUS
  <1>1. AtaTypeOK /\ HeadHasStarter /\ RightBlock
    BY DEF AtaInv
  <1>2. PICK q \in Seq(Readers) : QueueIs(q)
    BY DEF AtaInv, QueueIsList
  <1>3. req_head # Nil => /\ req_head \in Readers /\ rpc[req_head] = "asleep"
                           /\ req_tail \in Readers /\ rpc[req_tail] = "asleep"
    BY <1>2, QueueEnds
  <1>4. ASSUME NEW r \in Readers, ata_read_block(r)
        PROVE  HeadHasStarter' /\ RightBlock'
    <2>1. /\ rpc[r] = "idle" /\ rpc' = [rpc EXCEPT ![r] = "asleep"]
          /\ buffer' = buffer
      BY <1>4 DEF ata_read_block
    <2>2. PICK block \in Blocks :
            /\ blk_num' = [blk_num EXCEPT ![r] = block]
            /\ IF req_head = Nil
               THEN /\ req_head' = r
                    /\ next' = [next EXCEPT ![r] = Nil]
                    /\ ata_start_request(block)
               ELSE /\ next' = [next EXCEPT ![req_tail] = r, ![r] = Nil]
                    /\ UNCHANGED <<req_head, drive, lba>>
      BY <1>4 DEF ata_read_block
    <2>3. \A s \in Readers : s # r => rpc'[s] = rpc[s] /\ blk_num'[s] = blk_num[s]
      BY <1>1, <2>1, <2>2 DEF AtaTypeOK
    <2>4. rpc'[r] = "asleep" /\ blk_num'[r] = block
      BY <1>1, <2>1, <2>2 DEF AtaTypeOK
    <2>5. \A s \in Readers : rpc[s] = "done" => next'[s] = next[s]
      BY <1>1, <1>3, <2>1, <2>2 DEF AtaTypeOK
    <2>6. \A s \in Readers : Starter(s)' <=> Starter(s)
      BY <2>1, <2>3, <2>4, <2>5 DEF Starter
    <2>7. RightBlock'
      BY <1>1, <2>1, <2>3, <2>4 DEF RightBlock
    <2>8. CASE req_head = Nil
      <3>1. drive = "idle" /\ \A s \in Readers : ~Starter(s)
        BY <1>1, <2>8 DEF HeadHasStarter, Starter
      <3>2. req_head' = r /\ drive' = "busy" /\ lba' = block
        BY <2>2, <2>8 DEF ata_start_request
      <3> QED
        BY <2>4, <2>6, <2>7, <3>1, <3>2, AtaAssumption DEF HeadHasStarter
    <2>9. CASE req_head # Nil
      <3>1. UNCHANGED <<req_head, drive, lba>> /\ req_head # r
        BY <1>3, <2>1, <2>2, <2>9
      <3>2. blk_num'[req_head] = blk_num[req_head]
        BY <1>3, <2>3, <2>9, <3>1
      <3>3. \A s \in Readers : Starter(s) => next'[s] = next[s]
        BY <2>5 DEF Starter
      <3> QED
        BY <1>1, <2>6, <2>7, <3>1, <3>2, <3>3 DEF HeadHasStarter
    <2> QED
      BY <2>8, <2>9
  <1>5. ASSUME NEW r \in Readers, ata_read_block_end(r)
        PROVE  HeadHasStarter' /\ RightBlock'
    <2>1. /\ rpc[r] = "done" /\ rpc' = [rpc EXCEPT ![r] = "idle"]
          /\ UNCHANGED <<req_head, next, blk_num, buffer>>
          /\ IF req_head # Nil /\ req_head = next[r]
             THEN ata_start_request(blk_num[req_head])
             ELSE UNCHANGED <<drive, lba>>
      BY <1>5 DEF ata_read_block_end
    <2>2. \A s \in Readers : Starter(s)' <=> Starter(s) /\ s # r
      BY <1>1, <2>1 DEF AtaTypeOK, Starter
    <2>3. RightBlock'
      BY <1>1, <2>1 DEF AtaTypeOK, RightBlock
    <2>4. CASE Starter(r)
      <3>1. req_head # Nil /\ req_head = next[r]
        BY <1>1, <2>4 DEF HeadHasStarter, Starter
      <3>2. drive' = "busy" /\ lba' = blk_num[req_head]
        BY <2>1, <3>1 DEF ata_start_request
      <3>3. \A s \in Readers : ~Starter(s)'
        BY <1>1, <2>2, <2>4 DEF HeadHasStarter
      <3> QED
        BY <2>1, <2>3, <3>1, <3>2, <3>3 DEF HeadHasStarter
    <2>5. CASE ~Starter(r)
      <3>1. UNCHANGED <<drive, lba>>
        BY <2>1, <2>5 DEF Starter
      <3>2. \A s \in Readers : Starter(s)' <=> Starter(s)
        BY <2>2, <2>5
      <3> QED
        BY <1>1, <2>1, <2>3, <3>1, <3>2 DEF HeadHasStarter
    <2> QED
      BY <2>4, <2>5
  <1>6. CASE ISR_ata_handler
    <2>1. CASE drive # "drq" \/ req_head = Nil
      BY <1>1, <1>6, <2>1
      DEF ISR_ata_handler, HeadHasStarter, Starter, RightBlock
    <2>2. CASE drive = "drq" /\ req_head # Nil
      <3>1. /\ rpc' = [rpc EXCEPT ![req_head] = "done"]
            /\ buffer' = [buffer EXCEPT ![req_head] = lba]
            /\ drive' = "idle"
            /\ req_head' = next[req_head]
            /\ UNCHANGED <<next, blk_num>>
        BY <1>6, <2>2 DEF ISR_ata_handler, DataPort
      <3>2. /\ lba = blk_num[req_head]
            /\ \A s \in Readers : ~Starter(s)
        BY <1>1, <2>2 DEF HeadHasStarter
      <3>3. \A s \in Readers :
              Starter(s)' <=> s = req_head /\ next[req_head] # Nil
        BY <1>1, <1>3, <2>2, <3>1, <3>2 DEF AtaTypeOK, Starter
      <3>4. RightBlock'
        BY <1>1, <1>3, <2>2, <3>1, <3>2 DEF AtaTypeOK, RightBlock
      <3> QED
        BY <1>3, <2>2, <3>1, <3>3, <3>4 DEF HeadHasStarter
    <2> QED
      BY <2>1, <2>2
  <1>7. CASE DriveDone
    BY <1>1, <1>7 DEF DriveDone, HeadHasStarter, Starter, RightBlock
  <1>8. CASE UNCHANGED ata_vars
    BY <1>1, <1>8 DEF ata_vars, HeadHasStarter, Starter, RightBlock
  <1> QED
    BY <1>4, <1>5, <1>6, <1>7, <1>8 DEF AtaNext

-----------------------------------------------------------------------------
(***************************************************************************)
(* The invariant of the driver, with the list of requests in it: the       *)
(* sleeping readers are the queue, in the order in which they asked.       *)
(***************************************************************************)
THEOREM AtaInvariance == AtaSpec => []AtaInv
  <1>1. AtaInv /\ [AtaNext]_ata_vars => AtaInv'
    BY NextTyped, NextKeepsList, NextKeepsStarter DEF AtaInv
  <1> QED
    BY <1>1, InitAtaInv, PTL DEF AtaSpec

(***************************************************************************)
(* A read that returns has the block it asked for, however many readers    *)
(* queue behind each other (ata_read_block, ISR_ata_handler).              *)
(***************************************************************************)
THEOREM RightBlockCorrect == AtaSpec => []RightBlock
  BY AtaInvariance, AtaInvImplies, PTL

(***************************************************************************)
(* The first request of the queue is the drive's command, or the drive is  *)
(* idle and exactly one reader is about to start it: the handler, which    *)
(* starts nothing itself, never leaves a request behind.                   *)
(***************************************************************************)
THEOREM HeadServedCorrect == AtaSpec => []HeadIsServed
  BY AtaInvariance, AtaInvImplies, PTL

-----------------------------------------------------------------------------
(***************************************************************************)
(* The ring of the scheduler.                                              *)
(*                                                                         *)
(* The list l holds the threads of the sequence q, in this order from Head *)
(* to Tail, each once.                                                     *)
(***************************************************************************)
Lists ==
  [Head : Threads \cup {None}, Tail : Threads \cup {None},
   Current : Threads \cup {None}, Count : Nat,
   sched_one : [Threads -> Threads \cup {None}]]

Elems(q) == {q[i] : i \in 1..Len(q)}

Once(q) == \A i, j \in 1..Len(q) : q[i] = q[j] => i = j

\* The position after i in a ring of n.
After(n, i) == IF i = n THEN 1 ELSE i + 1

Ring(l, q) ==
  /\ Once(q)
  /\ l.Count = Len(q)
  /\ Len(q) = 0 => l.Head = None /\ l.Tail = None /\ l.Current = None
  /\ Len(q) > 0 => /\ l.Head = q[1] /\ l.Tail = q[Len(q)]
                   /\ l.Current \in Elems(q)
  /\ \A i \in 1..Len(q) : l.sched_one[q[i]] = q[After(Len(q), i)]

IsRing(l) == l \in Lists /\ \E q \in Seq(Threads) : Ring(l, q)

-----------------------------------------------------------------------------
\* A set of numbers that is not empty has a least element.
LEMMA LeastNat ==
  ASSUME NEW S \in SUBSET Nat, S # {}
  PROVE  \E n \in S : \A i \in S : n <= i
  <1> DEFINE less == {ss \in Nat \X Nat : ss[1] < ss[2]}
  <1>1. IsWellFoundedOn(less, Nat)
    BY NatLessThanWellFounded DEF OpToRel
  <1> HIDE DEF less
  <1>2. PICK n \in S : \A i \in S : ~(<<i, n>> \in less)
    BY <1>1, WFMin
  <1>3. \A i \in S : ~(i < n)
    BY <1>2 DEF less
  <1> QED
    BY <1>3, SMT

\* Count steps from Head visit the threads of the ring.
LEMMA NodesOf ==
  ASSUME NEW l, NEW q \in Seq(Threads), Ring(l, q)
  PROVE  Nodes(l) = Elems(q)
  <1> DEFINE n == Len(q)
             Def(f) == [i \in 0..l.Count |->
                          IF i = 0 THEN l.Head ELSE l.sched_one[f[i - 1]]]
             node == CHOOSE f : f = Def(f)
             w == [i \in 0..n |-> IF i = n THEN l.Head ELSE q[i + 1]]
  <1>1. n \in Nat /\ l.Count = n
    BY SMT DEF Ring
  <1>2. w = Def(w)
    <2> SUFFICES ASSUME NEW i \in 0..n
                 PROVE  w[i] = IF i = 0 THEN l.Head ELSE l.sched_one[w[i - 1]]
      BY <1>1
    <2>1. CASE i = 0
      BY <1>1, <2>1, SMT DEF Ring
    <2>2. CASE i # 0
      <3>1. i \in 1..n /\ i - 1 \in 0..n /\ i - 1 # n /\ (i - 1) + 1 = i
        BY <1>1, <2>2, SMT
      <3>2. w[i - 1] = q[i]
        BY <3>1
      <3>3. l.sched_one[q[i]] = q[After(n, i)]
        BY <3>1 DEF Ring
      <3>4. w[i] = q[After(n, i)]
        BY <1>1, <3>1, SMT DEF Ring, After
      <3> QED
        BY <2>2, <3>2, <3>3, <3>4
    <2> QED
      BY <2>1, <2>2
  <1>3. node = Def(node)
    <2> DEFINE P(f) == f = Def(f)
    <2>1. P(w)
      BY <1>2
    <2>2. node = CHOOSE f : P(f)
      OBVIOUS
    <2> HIDE DEF P, node
    <2>3. P(node)
      BY <2>1, <2>2
    <2> QED
      BY <2>3 DEF P
  <1>4. Nodes(l) = {node[i] : i \in 0..(l.Count - 1)}
    BY DEF Nodes
  <1> HIDE DEF node
  <1>5. \A i \in 0..n : node[i] = w[i]
    <2> DEFINE Bad == {i \in 0..n : node[i] # w[i]}
    <2> SUFFICES ASSUME Bad # {} PROVE FALSE
      OBVIOUS
    <2>1. Bad \in SUBSET Nat
      BY <1>1, SMT
    <2>2. PICK k \in Bad : \A i \in Bad : k <= i
      BY <2>1, LeastNat
    <2>3. /\ node[0] = w[0]
          /\ \A i \in 1..n : /\ node[i] = l.sched_one[node[i - 1]]
                             /\ w[i] = l.sched_one[w[i - 1]]
      <3> HIDE DEF w
      <3>1. ASSUME NEW f, f = Def(f)
            PROVE  /\ f[0] = l.Head
                   /\ \A i \in 1..n : f[i] = l.sched_one[f[i - 1]]
        <4>1. \A i \in 0..n :
                Def(f)[i] = IF i = 0 THEN l.Head ELSE l.sched_one[f[i - 1]]
          BY <1>1
        <4> HIDE DEF Def
        <4>2. 0 \in 0..n /\ \A i \in 1..n : i \in 0..n /\ i # 0
          BY <1>1, SMT
        <4> QED
          BY <3>1, <4>1, <4>2
      <3> HIDE DEF Def
      <3> QED
        BY <1>2, <1>3, <3>1
    <2> HIDE DEF w
    <2>4. k \in 1..n /\ k - 1 \in 0..n /\ ~(k <= k - 1)
      BY <1>1, <2>2, <2>3, SMT
    <2>5. node[k - 1] = w[k - 1]
      BY <2>2, <2>4
    <2> QED
      BY <2>2, <2>3, <2>4, <2>5
  <1>6. \A i \in 0..(n - 1) : node[i] = q[i + 1] /\ i + 1 \in 1..n
    BY <1>1, <1>5, SMT
  <1>7. \A i \in 1..n : i - 1 \in 0..(n - 1) /\ q[i] = node[i - 1]
    BY <1>1, <1>5, SMT
  <1> QED
    BY <1>1, <1>4, <1>6, <1>7, SMT DEF Elems

\* A sequence without repetitions has as many members as places.
LEMMA CardinalityOf ==
  ASSUME NEW q \in Seq(Threads), Once(q)
  PROVE  IsFiniteSet(Elems(q)) /\ Cardinality(Elems(q)) = Len(q)
  <1>1. q \in Bijection(1..Len(q), Elems(q))
    <2>1. q \in [1..Len(q) -> Elems(q)]
      BY SMT DEF Elems
    <2>2. \A e \in Elems(q) : \E i \in 1..Len(q) : q[i] = e
      BY DEF Elems
    <2> QED
      BY <2>1, <2>2 DEF Once, Bijection, Injection, Surjection, IsInjective
  <1>2. IsFiniteSet(1..Len(q)) /\ Cardinality(1..Len(q)) = Len(q)
    <2>1. Len(q) \in Nat /\ 1 \in Int /\ Len(q) \in Int
      BY SMT
    <2>2. /\ IsFiniteSet(1..Len(q))
          /\ Cardinality(1..Len(q)) = IF 1 > Len(q) THEN 0 ELSE Len(q) - 1 + 1
      BY <2>1, FS_Interval
    <2> QED
      BY <2>1, <2>2, SMT
  <1> QED
    BY <1>1, <1>2, FS_Bijection DEF ExistsBijection

-----------------------------------------------------------------------------
(***************************************************************************)
(* rr_admit appends to the ring.                                           *)
(***************************************************************************)
LEMMA AdmitKeeps ==
  ASSUME NEW l \in Lists, NEW q \in Seq(Threads), Ring(l, q),
         NEW t \in Threads, t \notin Elems(q)
  PROVE  /\ rr_admit(l, t) \in Lists
         /\ Ring(rr_admit(l, t), Append(q, t))
         /\ Elems(Append(q, t)) = Elems(q) \cup {t}
  <1> DEFINE n == Len(q)
             q1 == Append(q, t)
             l1 == rr_admit(l, t)
  <1>1. n \in Nat /\ l.Count = n /\ l.sched_one \in [Threads -> Threads \cup {None}]
    BY DEF Ring, Lists
  <1>2. /\ q1 \in Seq(Threads) /\ Len(q1) = n + 1 /\ q1[n + 1] = t
        /\ \A i \in 1..n : q1[i] = q[i] /\ q[i] \in Threads /\ q[i] # t
    BY SMT DEF Elems
  <1>3. \A i \in 1..(n + 1) : i \in 1..n \/ i = n + 1
    BY <1>1, SMT
  <1>4. 1..n \subseteq 1..(n + 1) /\ n + 1 \in 1..(n + 1)
    BY <1>1, SMT
  <1> HIDE DEF q1
  <1>5. Once(q1)
    BY <1>2, <1>3, SMT DEF Ring, Once
  <1>6. Elems(q1) = Elems(q) \cup {t}
    BY <1>2, <1>3, <1>4 DEF Elems
  <1>7. CASE n = 0
    <2>1. l.Head = None
      BY <1>7 DEF Ring
    <2>2. /\ l1 \in Lists /\ l1.Head = t /\ l1.Tail = t /\ l1.Current = t
          /\ l1.Count = n + 1 /\ l1.sched_one[t] = t
      <3> DEFINE so == [l.sched_one EXCEPT ![t] = t]
      <3>1. so \in [Threads -> Threads \cup {None}] /\ so[t] = t
        BY <1>1
      <3>2. l1 = [l EXCEPT !.Head = t, !.Tail = t, !.Current = t,
                           !.sched_one = so, !.Count = n + 1]
        BY <1>1, <2>1 DEF rr_admit, Lists
      <3> HIDE DEF so, l1
      <3> DEFINE n1 == n + 1
      <3>3. n1 \in Nat
        BY <1>1, SMT
      <3> HIDE DEF n1
      <3>4. l1 = [l EXCEPT !.Head = t, !.Tail = t, !.Current = t,
                           !.sched_one = so, !.Count = n1]
        BY <3>2 DEF n1
      <3>5. [l EXCEPT !.Head = t, !.Tail = t, !.Current = t,
                      !.sched_one = so, !.Count = n1] \in Lists
        BY <3>1, <3>3 DEF Lists
      <3>6. /\ l1.Head = t /\ l1.Tail = t /\ l1.Current = t
            /\ l1.Count = n1 /\ l1.sched_one = so
        BY <3>4 DEF Lists
      <3> QED
        BY <3>1, <3>4, <3>5, <3>6 DEF n1
    <2> HIDE DEF l1
    <2>3. \A i \in 1..Len(q1) : i = 1 /\ q1[i] = t /\ After(Len(q1), i) = 1
      BY <1>2, <1>7, SMT DEF After
    <2>4. Ring(l1, q1)
      BY <1>2, <1>5, <1>6, <1>7, <2>2, <2>3, SMT DEF Ring
    <2> QED
      BY <1>6, <2>2, <2>4 DEF l1, q1
  <1>8. CASE n > 0
    <2>1. /\ l.Head = q[1] /\ l.Tail = q[n] /\ l.Current \in Elems(q)
          /\ 1 \in 1..n /\ n \in 1..n
      BY <1>1, <1>8, SMT DEF Ring
    <2>2. l.Head # None /\ l.Head \in Threads /\ l.Tail \in Threads /\ l.Tail # t
      BY <1>2, <2>1, RoundRobinAssumption
    <2> DEFINE so == [l.sched_one EXCEPT ![t] = l.Head, ![l.Tail] = t]
    <2>3. l1 = [l EXCEPT !.sched_one = so, !.Tail = t, !.Count = n + 1]
      BY <1>1, <2>2 DEF rr_admit
    <2>4. /\ l1 \in Lists /\ l1.Head = q[1] /\ l1.Tail = t
          /\ l1.Current = l.Current /\ l1.Count = n + 1 /\ l1.sched_one = so
      <3>1. so \in [Threads -> Threads \cup {None}]
        BY <1>1, <2>2
      <3> HIDE DEF so, l1
      <3> DEFINE n1 == n + 1
      <3>2. n1 \in Nat
        BY <1>1, SMT
      <3> HIDE DEF n1
      <3>3. l1 = [l EXCEPT !.sched_one = so, !.Tail = t, !.Count = n1]
        BY <2>3 DEF n1
      <3>4. [l EXCEPT !.sched_one = so, !.Tail = t, !.Count = n1] \in Lists
        BY <3>1, <3>2 DEF Lists
      <3>5. /\ l1.Head = l.Head /\ l1.Tail = t /\ l1.Current = l.Current
            /\ l1.Count = n1 /\ l1.sched_one = so
        BY <3>3 DEF Lists
      <3> QED
        BY <2>1, <3>3, <3>4, <3>5 DEF n1
    <2> HIDE DEF l1
    <2>5. /\ l1.sched_one[t] = q[1] /\ l1.sched_one[q[n]] = t
          /\ \A u \in Threads : u # t /\ u # q[n] => l1.sched_one[u] = l.sched_one[u]
      BY <1>1, <2>1, <2>2, <2>4
    <2>6. ASSUME NEW i \in 1..(n + 1)
          PROVE  l1.sched_one[q1[i]] = q1[After(n + 1, i)]
      <3>1. CASE i = n + 1
        BY <1>2, <2>1, <2>5, <3>1 DEF After
      <3>2. CASE i = n
        BY <1>1, <1>2, <2>1, <2>5, <3>2 DEF After
      <3>3. CASE i \in 1..n /\ i # n
        <4>1. /\ q1[i] = q[i] /\ q[i] # t /\ q[i] # q[n] /\ q[i] \in Threads
          BY <1>2, <2>1, <3>3 DEF Ring, Once
        <4>2. l.sched_one[q[i]] = q[After(n, i)]
          BY <3>3 DEF Ring
        <4>3. After(n, i) = i + 1 /\ After(n + 1, i) = i + 1 /\ i + 1 \in 1..n
          BY <1>1, <3>3, SMT DEF After
        <4> QED
          BY <1>2, <2>5, <4>1, <4>2, <4>3
      <3> QED
        BY <1>3, <3>1, <3>2, <3>3
    <2>7. Ring(l1, q1)
      BY <1>1, <1>2, <1>5, <1>6, <2>1, <2>4, <2>6, SMT DEF Ring
    <2> QED
      BY <1>6, <2>4, <2>7 DEF l1, q1
  <1> QED
    BY <1>1, <1>7, <1>8, SMT

-----------------------------------------------------------------------------
(***************************************************************************)
(* rr_remove takes the k-th thread out of the ring.                        *)
(***************************************************************************)
Pos(k, i) == IF i < k THEN i ELSE i + 1

Cut(q, k) == [i \in 1..(Len(q) - 1) |-> q[Pos(k, i)]]

\* The position before k in a ring of n.
Before(n, k) == IF k = 1 THEN n ELSE k - 1

\* The neighbours of a position, and what becomes of them when position k goes.
LEMMA Positions ==
  ASSUME NEW n \in Nat, n > 1, NEW k \in 1..n
  PROVE  /\ Before(n, k) \in 1..n /\ After(n, k) \in 1..n /\ After(n, k) # k
         /\ \A i \in 1..n : After(n, i) = k <=> i = Before(n, k)
         /\ \A i \in 1..(n - 1) : Pos(k, i) \in 1..n /\ Pos(k, i) # k
         /\ \A i \in 1..(n - 1) : After(n - 1, i) \in 1..(n - 1)
         /\ \A i \in 1..(n - 1) :
              Pos(k, After(n - 1, i)) =
                IF Pos(k, i) = Before(n, k) THEN After(n, k) ELSE After(n, Pos(k, i))
         /\ Pos(k, 1) = IF k = 1 THEN After(n, k) ELSE 1
         /\ Pos(k, n - 1) = IF k = n THEN Before(n, k) ELSE n
  <1>1. /\ Before(n, k) \in 1..n /\ After(n, k) \in 1..n /\ After(n, k) # k
        /\ Pos(k, 1) = IF k = 1 THEN After(n, k) ELSE 1
        /\ Pos(k, n - 1) = IF k = n THEN Before(n, k) ELSE n
    BY SMT DEF Before, After, Pos
  <1>2. \A i \in 1..n : After(n, i) = k <=> i = Before(n, k)
    BY SMT DEF Before, After
  <1>3. \A i \in 1..(n - 1) : /\ Pos(k, i) \in 1..n /\ Pos(k, i) # k
                              /\ After(n - 1, i) \in 1..(n - 1)
    BY SMT DEF Pos, After
  <1>4. \A i \in 1..(n - 1) :
          Pos(k, After(n - 1, i)) =
            IF Pos(k, i) = Before(n, k) THEN After(n, k) ELSE After(n, Pos(k, i))
    BY SMT DEF Pos, After, Before
  <1> QED
    BY <1>1, <1>2, <1>3, <1>4

\* Cutting a place out of a ring leaves the others, once each.
LEMMA CutIs ==
  ASSUME NEW q \in Seq(Threads), Once(q), NEW k \in 1..Len(q)
  PROVE  /\ Cut(q, k) \in Seq(Threads) /\ Len(Cut(q, k)) = Len(q) - 1
         /\ \A i \in 1..(Len(q) - 1) : Cut(q, k)[i] = q[Pos(k, i)]
         /\ Once(Cut(q, k))
         /\ Elems(Cut(q, k)) = Elems(q) \ {q[k]}
  <1> DEFINE n == Len(q)
             q1 == Cut(q, k)
  <1>1. n \in Nat /\ n - 1 \in Nat
    BY SMT
  <1>2. \A i \in 1..(n - 1) : Pos(k, i) \in 1..n /\ Pos(k, i) # k
    BY <1>1, SMT DEF Pos
  <1>3. \A i, j \in 1..(n - 1) : Pos(k, i) = Pos(k, j) => i = j
    BY <1>1, SMT DEF Pos
  <1>4. \A j \in 1..n : j # k => \E i \in 1..(n - 1) : Pos(k, i) = j
    <2> SUFFICES ASSUME NEW j \in 1..n, j # k
                 PROVE  \E i \in 1..(n - 1) : Pos(k, i) = j
      OBVIOUS
    <2>1. CASE j < k
      <3>1. j \in 1..(n - 1) /\ Pos(k, j) = j
        BY <1>1, <2>1, SMT DEF Pos
      <3> QED
        BY <3>1
    <2>2. CASE j > k
      <3>1. j - 1 \in 1..(n - 1) /\ Pos(k, j - 1) = j
        BY <1>1, <2>2, SMT DEF Pos
      <3> QED
        BY <3>1
    <2> QED
      BY <1>1, <2>1, <2>2, SMT
  <1>5. /\ q1 \in Seq(Threads) /\ Len(q1) = n - 1
        /\ \A i \in 1..(n - 1) : q1[i] = q[Pos(k, i)]
    <2>1. q1 \in [1..(n - 1) -> Threads]
      BY <1>2, SMT DEF Cut
    <2> QED
      BY <1>1, <2>1, SMT DEF Cut
  <1> HIDE DEF q1
  <1>6. Once(q1)
    BY <1>2, <1>3, <1>5 DEF Once
  <1>7. Elems(q1) = Elems(q) \ {q[k]}
    <2>1. \A i \in 1..(n - 1) : q1[i] \in Elems(q) \ {q[k]}
      BY <1>2, <1>5 DEF Elems, Once
    <2>2. \A j \in 1..n : j # k => q[j] \in Elems(q1)
      BY <1>4, <1>5 DEF Elems
    <2> QED
      BY <1>5, <2>1, <2>2 DEF Elems
  <1> QED
    BY <1>5, <1>6, <1>7 DEF q1

\* The walk of rr_remove finds the predecessor.
LEMMA PrevIs ==
  ASSUME NEW l \in Lists, NEW q \in Seq(Threads), Ring(l, q), Len(q) > 1,
         NEW k \in 1..Len(q)
  PROVE  Prev(l, q[k]) = q[Before(Len(q), k)]
  <1> DEFINE n == Len(q)
             b == Before(n, k)
             P(u) == u \in Nodes(l) /\ l.sched_one[u] = q[k]
  <1>1. n \in Nat /\ n > 1 /\ k \in 1..n
    BY SMT
  <1>2. b \in 1..n /\ \A i \in 1..n : After(n, i) = k <=> i = b
    BY <1>1, Positions, SMT
  <1>3. \A i \in 1..n : After(n, i) \in 1..n
    BY <1>1, SMT DEF After
  <1>4. Nodes(l) = Elems(q)
    BY NodesOf
  <1>5. P(q[b])
    BY <1>1, <1>2, <1>4 DEF Ring, Elems
  <1>6. ASSUME NEW u, P(u) PROVE u = q[b]
    <2>1. PICK i \in 1..n : u = q[i]
      BY <1>4, <1>6 DEF Elems
    <2>2. q[After(n, i)] = q[k]
      BY <1>6, <2>1 DEF Ring
    <2>3. After(n, i) = k
      BY <1>3, <2>2 DEF Ring, Once
    <2> QED
      BY <1>2, <2>1, <2>3
  <1>7. Prev(l, q[k]) = CHOOSE u : P(u)
    BY DEF Prev
  <1> HIDE DEF P, b
  <1>8. P(CHOOSE u : P(u))
    BY <1>5
  <1> QED
    BY <1>6, <1>7, <1>8 DEF b

\* rr_remove cuts its victim out of the ring.
LEMMA RemoveKeeps ==
  ASSUME NEW l \in Lists, NEW q \in Seq(Threads), Ring(l, q), NEW k \in 1..Len(q)
  PROVE  rr_remove(l, q[k]) \in Lists /\ Ring(rr_remove(l, q[k]), Cut(q, k))
  <1> DEFINE n == Len(q)
             victim == q[k]
             q1 == Cut(q, k)
             l1 == rr_remove(l, victim)
  <1>1. /\ n \in Nat /\ n > 0 /\ l.Count = n /\ n - 1 \in Nat
        /\ \A i \in 1..n : q[i] \in Threads
    BY SMT DEF Ring
  <1>2. /\ q1 \in Seq(Threads) /\ Len(q1) = n - 1 /\ Once(q1)
        /\ \A i \in 1..(n - 1) : q1[i] = q[Pos(k, i)]
        /\ Elems(q1) = Elems(q) \ {victim}
    BY CutIs DEF Ring
  <1> HIDE DEF q1
  <1>3. CASE n = 1
    <2>1. l1 = Empty(l)
      BY <1>1, <1>3 DEF rr_remove
    <2>2. Empty(l) \in Lists
      BY DEF Empty, Lists
    <2>3. /\ Empty(l).Head = None /\ Empty(l).Tail = None
          /\ Empty(l).Current = None /\ Empty(l).Count = 0
      BY DEF Empty, Lists
    <2>4. Len(q1) = 0
      BY <1>2, <1>3, SMT
    <2>5. ~(Len(q1) > 0) /\ \A i \in 1..Len(q1) : FALSE
      BY <2>4, SMT
    <2>6. Ring(Empty(l), q1)
      BY <1>2, <2>3, <2>4, <2>5 DEF Ring
    <2> QED
      BY <2>1, <2>2, <2>6 DEF q1
  <1>4. CASE n # 1
    <2> DEFINE b == Before(n, k)
               follower == l.sched_one[victim]
               so == [l.sched_one EXCEPT ![q[b]] = follower]
               cur == IF l.Current = victim THEN follower ELSE l.Current
               hd == IF l.Head = victim THEN follower ELSE l.Head
               tl == IF l.Tail = victim THEN q[b] ELSE l.Tail
               n1 == n - 1
    <2>0. n > 1 /\ n \in Nat /\ k \in 1..n
      <3> HIDE DEF n
      <3>1. n \in Nat /\ n > 0 /\ n # 1
        BY <1>1, <1>4
      <3>2. n > 1
        BY <3>1, SMT
      <3>3. k \in 1..n
        BY DEF n
      <3> QED
        BY <3>1, <3>2, <3>3
    <2>1. /\ b \in 1..n /\ After(n, k) \in 1..n /\ After(n, k) # k
          /\ \A i \in 1..n : After(n, i) = k <=> i = b
          /\ \A i \in 1..(n - 1) : Pos(k, i) \in 1..n /\ Pos(k, i) # k
          /\ \A i \in 1..(n - 1) : After(n - 1, i) \in 1..(n - 1)
          /\ \A i \in 1..(n - 1) :
               Pos(k, After(n - 1, i)) =
                 IF Pos(k, i) = b THEN After(n, k) ELSE After(n, Pos(k, i))
          /\ Pos(k, 1) = IF k = 1 THEN After(n, k) ELSE 1
          /\ Pos(k, n - 1) = IF k = n THEN b ELSE n
      <3> HIDE DEF n
      <3>1. n \in Nat /\ n > 1 /\ k \in 1..n
        BY <2>0
      <3> QED
        BY <3>1, Positions
    <2>2. Prev(l, victim) = q[b]
      BY <2>0, PrevIs
    <2>3. follower = q[After(n, k)] /\ follower \in Threads /\ follower # victim
      BY <1>1, <2>1 DEF Ring, Once
    <2>4. l1 = [l EXCEPT !.sched_one[q[b]] = follower, !.Current = cur, !.Head = hd,
                         !.Tail = tl, !.Count = n1]
      BY <1>1, <2>0, <2>2, SMT DEF rr_remove, Lists
    <2>5. so \in [Threads -> Threads \cup {None}]
      BY <2>3 DEF Lists
    <2>6. /\ cur \in Threads \cup {None} /\ hd \in Threads \cup {None}
          /\ tl \in Threads \cup {None} /\ n1 \in Nat
      BY <1>1, <2>1, <2>3 DEF Lists
    <2>7. l1 = [l EXCEPT !.sched_one = so, !.Current = cur, !.Head = hd,
                         !.Tail = tl, !.Count = n1]
      BY <2>4 DEF Lists
    <2>8. cur \in Elems(q1)
      BY <1>1, <1>2, <2>0, <2>1, <2>3 DEF Ring, Elems
    <2>9. hd = q1[1] /\ tl = q1[n1]
      <3>1. 1 \in 1..n /\ n \in 1..n /\ 1 \in 1..(n - 1) /\ n - 1 \in 1..(n - 1)
        BY <1>1, <2>0, SMT
      <3>2. l.Head = q[1] /\ l.Tail = q[n]
        BY <1>1 DEF Ring
      <3>3. (l.Head = victim <=> k = 1) /\ (l.Tail = victim <=> k = n)
        BY <3>1, <3>2 DEF Ring, Once
      <3>4. q1[1] = q[Pos(k, 1)] /\ q1[n1] = q[Pos(k, n - 1)]
        BY <1>2, <3>1
      <3> QED
        BY <2>1, <2>3, <3>2, <3>3, <3>4
    <2>10. \A i \in 1..n1 : so[q1[i]] = q1[After(n1, i)]
      <3> SUFFICES ASSUME NEW i \in 1..(n - 1)
                   PROVE  so[q1[i]] = q1[After(n - 1, i)]
        OBVIOUS
      <3>1. q1[i] = q[Pos(k, i)] /\ q1[After(n - 1, i)] = q[Pos(k, After(n - 1, i))]
        BY <1>2, <2>1
      <3>2. so[q[Pos(k, i)]] = IF Pos(k, i) = b THEN follower
                               ELSE l.sched_one[q[Pos(k, i)]]
        BY <1>1, <2>1 DEF Lists, Ring, Once
      <3>3. l.sched_one[q[Pos(k, i)]] = q[After(n, Pos(k, i))]
        BY <2>1 DEF Ring
      <3> HIDE DEF so, b
      <3> QED
        BY <2>1, <2>3, <3>1, <3>2, <3>3
    <2>11. n1 > 0 /\ Len(q1) = n1
      BY <1>1, <1>2, <2>0, SMT
    <2> HIDE DEF so, cur, hd, tl, n1, l1
    <2>12. [l EXCEPT !.sched_one = so, !.Current = cur, !.Head = hd,
                     !.Tail = tl, !.Count = n1] \in Lists
      BY <2>5, <2>6 DEF Lists
    <2>13. /\ l1.sched_one = so /\ l1.Current = cur /\ l1.Head = hd
           /\ l1.Tail = tl /\ l1.Count = n1
      BY <2>7 DEF Lists
    <2>14. Ring(l1, q1)
      BY <1>2, <2>6, <2>8, <2>9, <2>10, <2>11, <2>13, SMT DEF Ring
    <2> QED
      BY <2>7, <2>12, <2>14 DEF l1, q1
  <1> QED
    BY <1>3, <1>4

-----------------------------------------------------------------------------
(***************************************************************************)
(* The operations on rings, without their sequences.                       *)
(***************************************************************************)
LEMMA RingFacts ==
  ASSUME NEW l, IsRing(l)
  PROVE  /\ Nodes(l) \in SUBSET Threads /\ IsFiniteSet(Nodes(l))
         /\ l.Count \in Nat /\ Cardinality(Nodes(l)) = l.Count
         /\ l.Head = None <=> Nodes(l) = {}
         /\ l.Count = 0 <=> Nodes(l) = {}
         /\ Nodes(l) = {} => l.Tail = None /\ l.Current = None
         /\ Nodes(l) # {} => /\ l.Current \in Nodes(l) /\ l.Tail \in Nodes(l)
                             /\ l.sched_one[l.Tail] = l.Head
         /\ l.Count = 1 => Nodes(l) = {l.Current}
         /\ \A u \in Nodes(l) : /\ l.sched_one[u] \in Nodes(l)
                                /\ l.Count > 1 => l.sched_one[u] # u
  <1>1. PICK q \in Seq(Threads) : Ring(l, q)
    BY DEF IsRing
  <1> DEFINE n == Len(q)
  <1>2. /\ n \in Nat /\ l.Count = n /\ \A i \in 1..n : q[i] \in Threads
    BY <1>1, SMT DEF Ring
  <1>3. Nodes(l) = Elems(q)
    BY <1>1, NodesOf
  <1>4. IsFiniteSet(Elems(q)) /\ Cardinality(Elems(q)) = n
    BY <1>1, CardinalityOf DEF Ring
  <1>5. Elems(q) \in SUBSET Threads /\ (n = 0 <=> Elems(q) = {})
    <2>1. n # 0 => 1 \in 1..n
      BY <1>2, SMT
    <2>2. n = 0 => 1..n = {}
      BY <1>2, SMT
    <2> QED
      BY <1>2, <2>1, <2>2 DEF Elems
  <1>6. n # 0 => /\ l.Head \in Threads /\ l.Current \in Elems(q)
                 /\ l.Tail \in Elems(q) /\ l.sched_one[l.Tail] = l.Head
    <2> SUFFICES ASSUME n # 0
                 PROVE  /\ l.Head \in Threads /\ l.Current \in Elems(q)
                        /\ l.Tail \in Elems(q) /\ l.sched_one[l.Tail] = l.Head
      OBVIOUS
    <2>1. n > 0 /\ 1 \in 1..n /\ n \in 1..n
      BY <1>2, SMT
    <2>2. l.Head = q[1] /\ l.Tail = q[n] /\ l.Current \in Elems(q)
      BY <1>1, <2>1 DEF Ring
    <2>3. l.sched_one[q[n]] = q[1]
      BY <1>1, <2>1 DEF Ring, After
    <2> QED
      BY <1>2, <2>1, <2>2, <2>3 DEF Elems
  <1>7. n = 0 => l.Head = None /\ l.Tail = None /\ l.Current = None
    BY <1>1 DEF Ring
  <1>8. n = 1 => Elems(q) = {l.Current}
    BY <1>6, SMT DEF Elems
  <1>9. \A u \in Elems(q) : /\ l.sched_one[u] \in Elems(q)
                            /\ n > 1 => l.sched_one[u] # u
    <2> SUFFICES ASSUME NEW i \in 1..n
                 PROVE  /\ l.sched_one[q[i]] \in Elems(q)
                        /\ n > 1 => l.sched_one[q[i]] # q[i]
      BY DEF Elems
    <2>1. After(n, i) \in 1..n /\ (n > 1 => After(n, i) # i)
      BY <1>2, SMT DEF After
    <2>2. l.sched_one[q[i]] = q[After(n, i)]
      BY <1>1 DEF Ring
    <2> QED
      BY <1>1, <2>1, <2>2, SMT DEF Ring, Once, Elems
  <1>10. None \notin Threads
    BY RoundRobinAssumption
  <1> HIDE DEF n
  <1> QED
    BY <1>2, <1>3, <1>4, <1>5, <1>6, <1>7, <1>8, <1>9, <1>10

\* rr_admit adds to the members of the ring,
LEMMA AdmitRing ==
  ASSUME NEW l, IsRing(l), NEW t \in Threads \ Nodes(l)
  PROVE  IsRing(rr_admit(l, t)) /\ Nodes(rr_admit(l, t)) = Nodes(l) \cup {t}
  <1>1. PICK q \in Seq(Threads) : Ring(l, q)
    BY DEF IsRing
  <1>2. l \in Lists /\ Nodes(l) = Elems(q)
    BY <1>1, NodesOf DEF IsRing
  <1>3. /\ rr_admit(l, t) \in Lists
        /\ Ring(rr_admit(l, t), Append(q, t))
        /\ Elems(Append(q, t)) = Elems(q) \cup {t}
    BY <1>1, <1>2, AdmitKeeps
  <1>4. Append(q, t) \in Seq(Threads)
    BY SMT
  <1>5. Nodes(rr_admit(l, t)) = Elems(Append(q, t))
    BY <1>3, <1>4, NodesOf
  <1> QED
    BY <1>2, <1>3, <1>4, <1>5 DEF IsRing

\* rr_remove takes one away,
LEMMA RemoveRing ==
  ASSUME NEW l, IsRing(l), NEW t \in Nodes(l)
  PROVE  IsRing(rr_remove(l, t)) /\ Nodes(rr_remove(l, t)) = Nodes(l) \ {t}
  <1>1. PICK q \in Seq(Threads) : Ring(l, q)
    BY DEF IsRing
  <1>2. l \in Lists /\ Nodes(l) = Elems(q)
    BY <1>1, NodesOf DEF IsRing
  <1>3. PICK k \in 1..Len(q) : t = q[k]
    BY <1>2 DEF Elems
  <1>4. Cut(q, k) \in Seq(Threads) /\ Elems(Cut(q, k)) = Elems(q) \ {t}
    BY <1>1, <1>3, CutIs DEF Ring
  <1>5. rr_remove(l, t) \in Lists /\ Ring(rr_remove(l, t), Cut(q, k))
    BY <1>1, <1>2, <1>3, RemoveKeeps
  <1>6. Nodes(rr_remove(l, t)) = Elems(Cut(q, k))
    BY <1>4, <1>5, NodesOf
  <1> QED
    BY <1>2, <1>4, <1>5, <1>6 DEF IsRing

\* rr_next moves Current along the ring and changes nothing else.
LEMMA NextRing ==
  ASSUME NEW l, IsRing(l), Nodes(l) # {}
  PROVE  /\ IsRing(rr_next(l)) /\ Nodes(rr_next(l)) = Nodes(l)
         /\ rr_next(l).Current = l.sched_one[l.Current]
  <1>1. PICK q \in Seq(Threads) : Ring(l, q)
    BY DEF IsRing
  <1> DEFINE c == l.sched_one[l.Current]
  <1>2. l \in Lists /\ Nodes(l) = Elems(q)
    BY <1>1, NodesOf DEF IsRing
  <1>3. c \in Elems(q) /\ c \in Threads /\ Len(q) # 0
    <2>1. Len(q) = l.Count
      BY <1>1 DEF Ring
    <2>2. l.Current \in Nodes(l) /\ l.Count # 0 /\ Nodes(l) \in SUBSET Threads
      BY RingFacts
    <2>3. \A u \in Nodes(l) : l.sched_one[u] \in Nodes(l)
      BY RingFacts
    <2> QED
      BY <1>2, <2>1, <2>2, <2>3
  <1>4. rr_next(l) = [l EXCEPT !.Current = c]
    BY DEF rr_next
  <1> HIDE DEF c
  <1>5. [l EXCEPT !.Current = c] \in Lists
    BY <1>2, <1>3 DEF Lists
  <1>6. /\ rr_next(l).Current = c /\ rr_next(l).Head = l.Head
        /\ rr_next(l).Tail = l.Tail /\ rr_next(l).Count = l.Count
        /\ rr_next(l).sched_one = l.sched_one
    BY <1>2, <1>4 DEF Lists
  <1>7. Ring(rr_next(l), q)
    BY <1>1, <1>3, <1>6 DEF Ring
  <1>8. Nodes(rr_next(l)) = Elems(q)
    BY <1>7, NodesOf
  <1> QED
    BY <1>2, <1>4, <1>5, <1>6, <1>7, <1>8 DEF IsRing, c

\* PROC_reschedule keeps them and picks one, another than the caller if it can,
LEMMA RescheduleRing ==
  ASSUME NEW l, IsRing(l), PROC_reschedule(l)
  PROVE  /\ IsRing(rr') /\ Nodes(rr') = Nodes(l)
         /\ \/ Nodes(l) = {} /\ curr' = Idle
            \/ curr' \in Nodes(l) /\ (curr' = curr => Nodes(l) = {curr})
  <1> DEFINE asks == l.Current = curr /\ l.Count > 1
             first == IF asks THEN rr_next(l) ELSE l
  <1>1. CASE Nodes(l) = {}
    BY <1>1, RingFacts DEF PROC_reschedule
  <1>2. CASE Nodes(l) # {}
    <2>1. l.Head # None /\ curr' = first.Current /\ rr' = rr_next(first)
      BY <1>2, RingFacts DEF PROC_reschedule
    <2>2. IsRing(first) /\ Nodes(first) = Nodes(l)
      BY <1>2, NextRing
    <2>3. IsRing(rr') /\ Nodes(rr') = Nodes(l)
      BY <1>2, <2>1, <2>2, NextRing
    <2>4. first.Current = IF asks THEN l.sched_one[l.Current] ELSE l.Current
      BY <1>2, NextRing
    <2>5. /\ l.Current \in Nodes(l) /\ l.Count \in Nat /\ l.Count # 0
          /\ l.Count = 1 => Nodes(l) = {l.Current}
      BY <1>2, RingFacts
    <2>6. \A u \in Nodes(l) : /\ l.sched_one[u] \in Nodes(l)
                              /\ l.Count > 1 => l.sched_one[u] # u
      BY RingFacts
    <2> HIDE DEF first
    <2>7. curr' \in Nodes(l) /\ (curr' = curr => Nodes(l) = {curr})
      BY <2>1, <2>4, <2>5, <2>6, SMT
    <2> QED
      BY <2>3, <2>7
  <1> QED
    BY <1>1, <1>2

-----------------------------------------------------------------------------
(***************************************************************************)
(* PROC_exit_current_thread takes the threads of a process out one by one. *)
(***************************************************************************)
RemoveStep(c, l, t) == rr_remove(l, t)

LeftOver(d, T, l) == IsRing(l) /\ Nodes(l) = d \ T

Exits == INSTANCE FoldInduction
           WITH V <- Lists, W <- Threads, Step <- RemoveStep, Inv <- LeftOver

\* and an exit removes the threads of a process one after the other.
LEMMA RemoveAllRing ==
  ASSUME NEW l, IsRing(l), NEW S \in SUBSET Nodes(l)
  PROVE  LET m == FoldSet(LAMBDA t, v : rr_remove(v, t), l, S)
         IN  IsRing(m) /\ Nodes(m) = Nodes(l) \ S
  <1> DEFINE m == FoldSet(LAMBDA t, v : rr_remove(v, t), l, S)
  <1>1. l \in Lists /\ IsFiniteSet(Nodes(l))
    BY RingFacts DEF IsRing
  <1>2. Exits!IsFiniteSet(S)
    <2>1. IsFiniteSet(S)
      BY <1>1, FS_Subset
    <2> QED
      BY <2>1 DEF IsFiniteSet, Exits!IsFiniteSet
  <1>3. LeftOver(Nodes(l), {}, l)
    BY DEF LeftOver
  <1>4. \A T \in SUBSET S, v \in Lists : \A t \in S \ T :
          LeftOver(Nodes(l), T, v) =>
            /\ RemoveStep(0, v, t) \in Lists
            /\ LeftOver(Nodes(l), T \cup {t}, RemoveStep(0, v, t))
    <2> SUFFICES ASSUME NEW T \in SUBSET S, NEW v \in Lists, NEW t \in S \ T,
                        LeftOver(Nodes(l), T, v)
                 PROVE  /\ RemoveStep(0, v, t) \in Lists
                        /\ LeftOver(Nodes(l), T \cup {t}, RemoveStep(0, v, t))
      OBVIOUS
    <2>1. IsRing(v) /\ Nodes(v) = Nodes(l) \ T /\ t \in Nodes(v)
      BY DEF LeftOver
    <2>2. IsRing(rr_remove(v, t)) /\ Nodes(rr_remove(v, t)) = Nodes(v) \ {t}
      BY <2>1, RemoveRing
    <2> QED
      BY <2>1, <2>2 DEF LeftOver, RemoveStep, IsRing
  <1>5. LeftOver(Nodes(l), S, Exits!FoldedSet(0, l, S))
    BY <1>1, <1>2, <1>3, <1>4, Exits!SetLoopInvariant
  <1>6. m = Exits!FoldedSet(0, l, S)
    BY DEF RemoveStep, Exits!FoldedSet, FoldSet, Exits!FoldSet,
           MapThenFoldSet, Exits!MapThenFoldSet
  <1> HIDE DEF m
  <1> QED
    BY <1>5, <1>6 DEF LeftOver, m

-----------------------------------------------------------------------------
(***************************************************************************)
(* The inductive invariant: OneRing alone does not say that the nodes are  *)
(* threads, nor in which order sched_one visits them, and rr_remove needs  *)
(* both to find the node before its victim.                                *)
(***************************************************************************)
RRInv ==
  /\ IsRing(rr)
  /\ curr \in Threads \cup {Idle}
  /\ yielding \subseteq Threads
  /\ ended \subseteq Threads

\* The scheduler starts with an empty ring.
LEMMA InitRRInv ==
  ASSUME RRInit
  PROVE  RRInv /\ Members = {}
  <1> DEFINE so == [t \in Threads |-> None]
             e == [Head |-> None, Tail |-> None, Current |-> None, Count |-> 0,
                   sched_one |-> so]
  <1>1. e \in Lists /\ rr = Empty(e)
    <2>1. so \in [Threads -> Threads \cup {None}]
      OBVIOUS
    <2>2. rr = Empty(e)
      BY DEF RRInit
    <2> HIDE DEF so
    <2>3. e \in Lists
      BY <2>1 DEF Lists
    <2> QED
      BY <2>2, <2>3
  <1> HIDE DEF e
  <1>2. /\ Empty(e) \in Lists /\ Empty(e).Head = None /\ Empty(e).Tail = None
        /\ Empty(e).Current = None /\ Empty(e).Count = 0
    <2>1. Empty(e) \in Lists
      BY <1>1 DEF Empty, Lists
    <2>2. /\ Empty(e).Head = None /\ Empty(e).Tail = None
          /\ Empty(e).Current = None /\ Empty(e).Count = 0
      BY <1>1 DEF Empty, Lists
    <2> QED
      BY <2>1, <2>2
  <1>3. << >> \in Seq(Threads) /\ Len(<< >>) = 0 /\ 1..0 = {} /\ ~(0 > 0)
    BY SMT
  <1>4. Ring(Empty(e), << >>)
    BY <1>2, <1>3 DEF Ring, Once
  <1>5. IsRing(Empty(e))
    BY <1>2, <1>3, <1>4 DEF IsRing
  <1>6. Nodes(Empty(e)) = {}
    BY <1>2, <1>5, RingFacts
  <1> QED
    BY <1>1, <1>5, <1>6 DEF RRInit, RRInv, Members

(***************************************************************************)
(* Each operation on the list keeps the ring and is, on its members, the   *)
(* operation of the scheduler of module Scheduler.                         *)
(***************************************************************************)
LEMMA StepRRInv ==
  ASSUME RRInv, RRNext
  PROVE  RRInv' /\ SchedulerSpec!Next
  <1>1. IsRing(rr) /\ Members = Nodes(rr) /\ Members \in SUBSET Threads
    BY RingFacts DEF RRInv, Members
  <1>2. ASSUME NEW t \in Threads, Admit(t) PROVE RRInv' /\ SchedulerSpec!Next
    <2>1. t \in Threads \ Nodes(rr) /\ rr' = rr_admit(rr, t)
      BY <1>1, <1>2 DEF Admit
    <2>2. IsRing(rr') /\ Nodes(rr') = Nodes(rr) \cup {t}
      BY <1>1, <2>1, AdmitRing
    <2>3. SchedulerSpec!Admit(t)
      BY <1>1, <1>2, <2>2 DEF Admit, SchedulerSpec!Admit, Members
    <2> QED
      BY <1>2, <2>2, <2>3 DEF Admit, RRInv, SchedulerSpec!Next
  <1>3. ASSUME Block PROVE RRInv' /\ SchedulerSpec!Next
    <2>1. IsRing(rr') /\ Nodes(rr') = Nodes(rr) \ {curr}
      BY <1>1, <1>3, RemoveRing DEF Block
    <2>2. SchedulerSpec!Block
      BY <1>1, <1>3, <2>1 DEF Block, SchedulerSpec!Block, Members
    <2> QED
      BY <1>1, <1>3, <2>1, <2>2 DEF Block, RRInv, SchedulerSpec!Next
  <1>4. ASSUME PROC_reschedule(rr)
        PROVE  /\ IsRing(rr') /\ curr' \in Threads \cup {Idle}
               /\ SchedulerSpec!Reschedule
    <2>1. /\ IsRing(rr') /\ Nodes(rr') = Nodes(rr)
          /\ \/ Nodes(rr) = {} /\ curr' = Idle
             \/ curr' \in Nodes(rr) /\ (curr' = curr => Nodes(rr) = {curr})
      BY <1>1, <1>4, RescheduleRing
    <2>2. SchedulerSpec!Choose(Members)
      BY <1>1, <2>1 DEF SchedulerSpec!Choose
    <2> QED
      BY <1>1, <2>1, <2>2 DEF SchedulerSpec!Reschedule, Members
  <1>5. CASE BlockYield
    BY <1>4, <1>5 DEF BlockYield, RRInv, SchedulerSpec!Next
  <1>6. CASE Tick
    BY <1>4, <1>6 DEF Tick, RRInv, SchedulerSpec!Next
  <1>7. ASSUME NEW S \in SUBSET Members, Exit(S) PROVE RRInv' /\ SchedulerSpec!Next
    <2> DEFINE left == FoldSet(LAMBDA t, l : rr_remove(l, t), rr, S)
    <2>1. PROC_reschedule(left)
      BY <1>7 DEF Exit
    <2>2. IsRing(left) /\ Nodes(left) = Nodes(rr) \ S
      BY <1>1, RemoveAllRing
    <2> HIDE DEF left
    <2>3. /\ IsRing(rr') /\ Nodes(rr') = Nodes(left)
          /\ \/ Nodes(left) = {} /\ curr' = Idle
             \/ curr' \in Nodes(left) /\ (curr' = curr => Nodes(left) = {curr})
      BY <2>1, <2>2, RescheduleRing
    <2>4. SchedulerSpec!Choose(Members \ S)
      BY <1>1, <2>2, <2>3 DEF SchedulerSpec!Choose
    <2>5. SchedulerSpec!Exit(S)
      BY <1>1, <1>7, <2>2, <2>3, <2>4 DEF Exit, SchedulerSpec!Exit, Members
    <2> QED
      BY <1>1, <1>7, <2>2, <2>3, <2>5 DEF Exit, RRInv, SchedulerSpec!Next
  <1> QED
    BY <1>2, <1>3, <1>5, <1>6, <1>7 DEF RRNext

\* The invariant implies the checked properties.
LEMMA RRInvImplies ==
  ASSUME RRInv
  PROVE  TypeOK /\ OneRing
  <1>1. /\ rr \in Lists /\ Nodes(rr) \in SUBSET Threads
        /\ rr.Count \in Nat /\ Cardinality(Nodes(rr)) = rr.Count
        /\ rr.Head = None <=> Nodes(rr) = {}
        /\ rr.Count = 0 <=> Nodes(rr) = {}
        /\ Nodes(rr) = {} => rr.Tail = None /\ rr.Current = None
        /\ Nodes(rr) # {} => /\ rr.Current \in Nodes(rr) /\ rr.Tail \in Nodes(rr)
                             /\ rr.sched_one[rr.Tail] = rr.Head
    BY RingFacts DEF RRInv, IsRing
  <1>2. OneRing
    BY <1>1 DEF OneRing, Members
  <1>3. rr.Count \in 0..Cardinality(Threads)
    <2>1. Cardinality(Nodes(rr)) <= Cardinality(Threads)
      BY <1>1, RoundRobinAssumption, FS_Subset
    <2>2. Cardinality(Threads) \in Nat
      BY RoundRobinAssumption, FS_CardinalityType
    <2> QED
      BY <1>1, <2>1, <2>2, SMT
  <1>4. TypeOK
    BY <1>1, <1>3 DEF TypeOK, RRInv, Lists
  <1> QED
    BY <1>2, <1>4

-----------------------------------------------------------------------------
(***************************************************************************)
(* Whatever is admitted, blocks, yields and ends, the list is one ring.    *)
(***************************************************************************)
THEOREM RRInvariance == RRSpec => []RRInv
  <1>1. RRInit => RRInv
    BY InitRRInv
  <1>2. RRInv /\ UNCHANGED rr_vars => RRInv'
    BY DEF RRInv, rr_vars
  <1>3. RRInv /\ [RRNext]_rr_vars => RRInv'
    BY <1>2, StepRRInv
  <1> QED
    BY <1>1, <1>3, PTL DEF RRSpec

(***************************************************************************)
(* For any number of threads, rr_admit, rr_remove and rr_next keep Head,   *)
(* Tail, Current, Count and every sched_one those of one ring of distinct  *)
(* threads, so the loop of rr_remove ends and rr_next gives a ready thread.*)
(***************************************************************************)
THEOREM OneRingCorrect == RRSpec => [](TypeOK /\ OneRing)
  <1>1. RRInv => TypeOK /\ OneRing
    BY RRInvImplies
  <1> QED
    BY <1>1, RRInvariance, PTL

(***************************************************************************)
(* The list implements the scheduler that multitask.c expects, up to its   *)
(* fairness: PROC_reschedule chooses a ready thread, the idle thread only  *)
(* if there is none, and the caller only if it is alone; admit and remove  *)
(* change the pool by the one thread they are given.                       *)
(***************************************************************************)
THEOREM SchedulerCorrect == RRSpec => SchedulerSpec!Spec
  <1>1. RRInit => SchedulerSpec!Init
    BY InitRRInv DEF RRInit, SchedulerSpec!Init
  <1>2. RRInv /\ UNCHANGED rr_vars => UNCHANGED SchedulerSpec!svars
    BY DEF rr_vars, SchedulerSpec!svars, Members
  <1>3. RRInv /\ [RRNext]_rr_vars => [SchedulerSpec!Next]_(SchedulerSpec!svars)
    BY <1>2, StepRRInv
  <1> QED
    BY <1>1, <1>3, RRInvariance, PTL DEF RRSpec, SchedulerSpec!Spec
=============================================================================
