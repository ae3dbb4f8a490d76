--------------------------------- MODULE Ata ---------------------------------
(***************************************************************************)
(* The interrupt-driven disk driver (src/x86_64/drivers/ata.c): a queue of *)
(* read requests of which the drive works on the first.  The interrupt     *)
(* handler completes a request but does not start the next one: that is    *)
(* done by the reader whose request it completed, once it runs again.      *)
(*                                                                         *)
(* A request lives as long as its reader is in ata_read_block, so requests *)
(* are named by their readers.  wait_event_interruptable tests done and    *)
(* blocks with interrupts disabled: the reader sleeps until the handler    *)
(* has set done.                                                           *)
(***************************************************************************)
EXTENDS Naturals

CONSTANTS
  Readers,       \* threads that call ata_read_block
  Blocks,        \* block numbers; a block's contents are named by its number
  Nil,           \* the NULL pointer, and the drive's lack of a command
  MaxReads,      \* bound: how many times each reader reads
  DriveMayFail   \* can a command end with an error instead of data?

ASSUME AtaAssumption ==
  /\ Nil \notin Readers \cup Blocks
  /\ MaxReads \in Nat
  /\ DriveMayFail \in BOOLEAN

VARIABLES
  req_head,   \* ata_block_dev.req_head
  req_tail,   \* ata_block_dev.req_tail
  next,       \* ata_request.next
  blk_num,    \* ata_request.blk_num
  buffer,     \* what *ata_request.buffer holds
  rpc,        \* a reader is "idle", "asleep" in the wait, or "done"
  reads,      \* how many reads have been started
  drive,      \* the status register: "idle", "busy" (BSY), "drq" or "err"
  lba,        \* the block of the command the drive works on
  irq         \* the drive's interrupt is pending

ata_vars == <<req_head, req_tail, next, blk_num, buffer, rpc, reads, drive,
              lba, irq>>

\* After ata_probe; IDENTIFY leaves its interrupt pending.
AtaInit ==
  /\ req_head = Nil /\ req_tail = Nil
  /\ next = [r \in Readers |-> Nil]
  /\ blk_num = [r \in Readers |-> Nil]
  /\ buffer = [r \in Readers |-> Nil]
  /\ rpc = [r \in Readers |-> "idle"]
  /\ reads = [r \in Readers |-> 0]
  /\ drive = "idle" /\ lba = Nil
  /\ irq = TRUE

\* It spins with interrupts disabled while the drive is busy or has data.
ata_start_request(block) ==
  /\ drive \notin {"busy", "drq"}
  /\ drive' = "busy"
  /\ lba' = block

\* ata_read_block up to the wait: the request is queued, and started if the
\* queue was empty.
ata_read_block(r) ==
  /\ rpc[r] = "idle"
  /\ reads[r] < MaxReads
  /\ reads' = [reads EXCEPT ![r] = @ + 1]
  /\ rpc' = [rpc EXCEPT ![r] = "asleep"]
  /\ \E block \in Blocks :
       /\ blk_num' = [blk_num EXCEPT ![r] = block]
       /\ IF req_head = Nil
          THEN /\ req_head' = r
               /\ next' = [next EXCEPT ![r] = Nil]
               /\ ata_start_request(block)
          ELSE /\ next' = [next EXCEPT ![req_tail] = r, ![r] = Nil]
               /\ UNCHANGED <<req_head, drive, lba>>
  /\ req_tail' = r
  /\ UNCHANGED <<buffer, irq>>

\* Faulty: the next request is not started.
ata_read_block_leave(r) ==
  /\ rpc[r] = "done"
  /\ rpc' = [rpc EXCEPT ![r] = "idle"]
  /\ UNCHANGED <<req_head, req_tail, next, blk_num, buffer, reads, drive, lba,
                 irq>>

\* The rest of ata_read_block.
ata_read_block_end(r) ==
  /\ rpc[r] = "done"
  /\ rpc' = [rpc EXCEPT ![r] = "idle"]
  /\ IF req_head # Nil /\ req_head = next[r]
     THEN ata_start_request(blk_num[req_head])
     ELSE UNCHANGED <<drive, lba>>
  /\ UNCHANGED <<req_head, req_tail, next, blk_num, buffer, reads, irq>>

\* What 256 reads of the data port give: the block if the drive has data.
DataPort == IF drive = "drq" THEN lba ELSE Nil

\* Faulty: an interrupt without data completes the request too.
ISR_ata_phantom ==
  /\ irq
  /\ irq' = FALSE
  /\ IF req_head = Nil
     THEN UNCHANGED <<req_head, req_tail, buffer, rpc, drive>>
     ELSE /\ buffer' = [buffer EXCEPT ![req_head] = DataPort]
          /\ drive' = "idle"
          /\ rpc' = [rpc EXCEPT ![req_head] = "done"]
          /\ req_head' = next[req_head]
          /\ req_tail' = IF next[req_head] = Nil THEN Nil ELSE req_tail
  /\ UNCHANGED <<next, blk_num, reads, lba>>

ISR_ata_handler ==
  /\ irq
  /\ irq' = FALSE
  /\ IF drive # "drq" \/ req_head = Nil
     THEN UNCHANGED <<req_head, req_tail, buffer, rpc, drive>>
     ELSE /\ buffer' = [buffer EXCEPT ![req_head] = DataPort]
          /\ drive' = "idle"
          /\ rpc' = [rpc EXCEPT ![req_head] = "done"]
          /\ req_head' = next[req_head]
          /\ req_tail' = IF next[req_head] = Nil THEN Nil ELSE req_tail
  /\ UNCHANGED <<next, blk_num, reads, lba>>

\* The drive ends the command.
DriveDone ==
  /\ drive = "busy"
  /\ \/ drive' = "drq"
     \/ DriveMayFail /\ drive' = "err"
  /\ irq' = TRUE
  /\ UNCHANGED <<req_head, req_tail, next, blk_num, buffer, rpc, reads, lba>>

AtaNext ==
  \/ \E r \in Readers : ata_read_block(r) \/ ata_read_block_end(r)
  \/ ISR_ata_handler
  \/ DriveDone

\* The drive answers, its interrupts are delivered, a woken reader runs.
AtaSpec ==
  /\ AtaInit
  /\ [][AtaNext]_ata_vars
  /\ WF_ata_vars(DriveDone)
  /\ WF_ata_vars(ISR_ata_handler)
  /\ \A r \in Readers : WF_ata_vars(ata_read_block_end(r))

-----------------------------------------------------------------------------
(***************************************************************************)
(* A read that returns has the block that it asked for, whoever queued,    *)
(* completed or started requests in the meantime.                          *)
(***************************************************************************)
RightBlock == \A r \in Readers : rpc[r] = "done" => buffer[r] = blk_num[r]

(***************************************************************************)
(* The driver never stalls between two requests and never overtakes the    *)
(* drive: the first request of the queue is the one that the drive works   *)
(* on, or the drive is free and exactly one reader is on its way to start  *)
(* it.  The drive has no command of anyone else.                           *)
(***************************************************************************)
HeadIsServed ==
  LET starters == {r \in Readers : rpc[r] = "done" /\ next[r] = req_head}
  IN  IF req_head = Nil THEN drive = "idle"
      ELSE \/ drive # "idle" /\ lba = blk_num[req_head] /\ starters = {}
           \/ drive = "idle" /\ \E r \in Readers : starters = {r}

(***************************************************************************)
(* Every read returns: the reader sleeps until the drive has answered, not *)
(* for ever.                                                               *)
(***************************************************************************)
ReadReturns == \A r \in Readers : rpc[r] = "asleep" ~> rpc[r] = "idle"
=============================================================================
