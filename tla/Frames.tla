------------------------------- MODULE Frames -------------------------------
(***************************************************************************)
(* The page frame allocator (src/x86_64/memory/frames.c) and those who     *)
(* call it (src/x86_64/memory/vpages.c): the loader that makes the page    *)
(* tables of an image, fork that copies and exit that frees them, and the  *)
(* page fault handler that backs a reserved page on its first access.      *)
(*                                                                         *)
(* Copying and freeing an address space happen with interrupts off, in one *)
(* step.  The loader runs with interrupts on, since it has read the disk;  *)
(* so does the page fault handler of user code, which is registered as a   *)
(* trap gate: the timer may switch threads between any two of their steps. *)
(* cr2 is not saved by the switch.                                         *)
(*                                                                         *)
(* One frame stands for all the page tables of a process.                  *)
(* Frames are numbered, addresses and sizes of regions count frames.       *)
(***************************************************************************)
EXTENDS Integers, Sequences, FiniteSets, SequencesExt

CONSTANTS
  Threads, Procs,
  owner,             \* owner[t] is the process of thread t
  Pages,             \* the user pages of a process, numbers
  BootRegions,       \* the regions left by parse_mboot_tags
  INVALID_FRAME_ADDR,
  SizeBits           \* the width of a region's size

ASSUME FramesAssumption ==
  /\ owner \in [Threads -> Procs]
  /\ Pages \subseteq Nat
  /\ INVALID_FRAME_ADDR \notin Nat
  /\ SizeBits \in Nat

VARIABLES
  usable_regions,    \* the regions: sequence of [addr, size, valid]
  free_frames,       \* the head of the list of freed frames
  next,              \* the first word of each frame: the link of a freed one
  p1,                \* p1[p][v], the entry of a page: [demand, present, frame]
  table,             \* the frame of p's page tables, or INVALID_FRAME_ADDR
  va,                \* the page that each thread's user code accesses
  cr2,               \* the address of the last fault
  pc,                \* where each thread is
  fault_va, node, reg,  \* locals of the handler and of MMU_pf_alloc
  halted,            \* the handler executed cli; hlt
  raced              \* history: a frame was being taken or mapped when another
                     \* thread changed what that relies on

allocator == <<usable_regions, free_frames, next>>
vars == <<usable_regions, free_frames, next, p1, table, va, cr2, pc, fault_va,
          node, reg, halted, raced>>

RegionFrames(r) == IF r.valid THEN r.addr..(r.addr + r.size - 1) ELSE {}

AllFrames == UNION {RegionFrames(r) : r \in Range(BootRegions)}

Entry(demand, present, frame) ==
  [demand |-> demand, present |-> present, frame |-> frame]

Init ==
  /\ usable_regions = BootRegions
  /\ free_frames = INVALID_FRAME_ADDR
  /\ next = [f \in AllFrames |-> 0]
  /\ p1 = [p \in Procs |-> [v \in Pages |-> Entry(FALSE, FALSE, 0)]]
  /\ table = [p \in Procs |-> INVALID_FRAME_ADDR]
  /\ va = [t \in Threads |-> 0]
  /\ cr2 = 0
  /\ pc = [t \in Threads |-> "user"]
  /\ fault_va = [t \in Threads |-> 0]
  /\ node = [t \in Threads |-> 0]
  /\ reg = [t \in Threads |-> 1]
  /\ halted = FALSE
  /\ raced = FALSE

\* The valid regions of a table, and the first of them.
Valid(regs) == {i \in DOMAIN regs : regs[i].valid}

First(regs) == CHOOSE i \in Valid(regs) : \A j \in Valid(regs) : i <= j

\* Faulty: the region keeps its first frame and loses its last.
ShrunkInPlace(r) == [r EXCEPT !.size = (@ - 1) % 2^SizeBits]

Shrunk(r) == [r EXCEPT !.addr = @ + 1, !.size = (@ - 1) % 2^SizeBits]

\* MMU_pf_alloc with interrupts off, repeated: s.got has the frames so far.
MMU_pf_alloc(s, page) ==
  LET i == First(s.regs)
      r == s.regs[i]
  IN  CASE s.list # INVALID_FRAME_ADDR ->
             [s EXCEPT !.list = next[@], !.got = Append(@, s.list)]
        [] s.list = INVALID_FRAME_ADDR /\ Valid(s.regs) # {} ->
             [s EXCEPT !.got = Append(@, r.addr),
                       !.regs[i] = IF r.size = 1 THEN [r EXCEPT !.valid = FALSE]
                                   ELSE Shrunk(r)]
        [] OTHER -> s

\* MMU_pf_free, on a list given by its head and the links.
MMU_pf_free(list, f) ==
  [free_frames |-> f, next |-> [list.next EXCEPT ![f] = list.free_frames]]

InUser(p) == \A t \in Threads : owner[t] = p => pc[t] = "user"

\* t has read the allocator's state in MMU_pf_alloc and not yet written it.
Taking(t) == pc[t] \in {"pop", "last", "shrink"}

\* The threads of S leave the kernel; their locals are gone.
Leave(S) ==
  /\ pc' = [t \in Threads |-> IF t \in S THEN "user" ELSE pc[t]]
  /\ va' = [t \in Threads |-> IF t \in S THEN 0 ELSE va[t]]
  /\ fault_va' = [t \in Threads |-> IF t \in S THEN 0 ELSE fault_va[t]]
  /\ node' = [t \in Threads |-> IF t \in S THEN 0 ELSE node[t]]
  /\ reg' = [t \in Threads |-> IF t \in S THEN 1 ELSE reg[t]]

-----------------------------------------------------------------------------
\* elf_load_program makes an address space for the process of t.
Load(t) ==
  /\ table[owner[t]] = INVALID_FRAME_ADDR
  /\ InUser(owner[t])
  /\ pc' = [pc EXCEPT ![t] = "alloc"]
  /\ UNCHANGED <<allocator, p1, table, va, cr2, fault_va, node, reg, halted,
                 raced>>

Loading(t) == table[owner[t]] = INVALID_FRAME_ADDR

\* Faulty: the page tables are torn down and the pages' frames kept.
FreedTablesOnly(p) == <<table[p]>>

\* The frames MMU_destroy_userspace frees, in the order it frees them.
FreedFrames(p) ==
  LET present == {v \in Pages : p1[p][v].present}
  IN  Append([i \in 1..Cardinality(present) |->
                p1[p][SetToSortSeq(present, <)[i]].frame], table[p])

\* Process p ends, or replaces its image: one of its threads makes the call,
\* its other threads end wherever they are.
MMU_destroy_userspace(p) ==
  /\ table[p] # INVALID_FRAME_ADDR
  /\ \/ \A t \in Threads : owner[t] # p
     \/ \E t \in Threads : owner[t] = p /\ pc[t] = "user"
  /\ LET list == FoldLeft(MMU_pf_free,
                          [free_frames |-> free_frames, next |-> next],
                          FreedFrames(p))
     IN  free_frames' = list.free_frames /\ next' = list.next
  /\ table' = [table EXCEPT ![p] = INVALID_FRAME_ADDR]
  /\ p1' = [p1 EXCEPT ![p] = [v \in Pages |-> Entry(FALSE, FALSE, 0)]]
  /\ Leave({t \in Threads : owner[t] = p})
  /\ raced' = (\/ raced
               \/ \E t \in Threads : Taking(t)
               \/ \E t \in Threads : owner[t] = p /\ pc[t] = "map")
  /\ UNCHANGED <<usable_regions, cr2, halted>>

\* fork of process p, which has one thread, into q.  If a frame is missing
\* the frames of the unfinished copy are freed, the tables last.
MMU_clone_userspace(p, q) ==
  LET present == SetToSortSeq({v \in Pages : p1[p][v].present}, <)
      s == FoldLeft(MMU_pf_alloc,
                    [regs |-> usable_regions, list |-> free_frames, got |-> <<>>],
                    <<0>> \o present)
      freed == IF s.got = <<>> THEN <<>> ELSE Append(Tail(s.got), Head(s.got))
      list == FoldLeft(MMU_pf_free, [free_frames |-> s.list, next |-> next],
                       freed)
      copy(v) == s.got[1 + (CHOOSE i \in DOMAIN present : present[i] = v)]
  IN  /\ table[p] # INVALID_FRAME_ADDR /\ table[q] = INVALID_FRAME_ADDR
      /\ InUser(p) /\ InUser(q)
      /\ \A t, u \in Threads : owner[t] = p /\ owner[u] = p => t = u
      /\ usable_regions' = s.regs
      /\ \/ /\ Len(s.got) = 1 + Len(present)
            /\ free_frames' = s.list
            /\ next' = [f \in AllFrames |-> IF f \in Range(s.got) THEN 0
                                                                ELSE next[f]]
            /\ table' = [table EXCEPT ![q] = s.got[1]]
            /\ p1' = [p1 EXCEPT ![q] = [v \in Pages |->
                 IF p1[p][v].present THEN Entry(FALSE, TRUE, copy(v))
                                     ELSE p1[p][v]]]
         \/ /\ Len(s.got) # 1 + Len(present)
            /\ free_frames' = list.free_frames
            /\ next' = list.next
            /\ UNCHANGED <<table, p1>>
      /\ raced' = (raced \/ \E t \in Threads : Taking(t))
      /\ UNCHANGED <<va, cr2, pc, fault_va, node, reg, halted>>

-----------------------------------------------------------------------------
\* Thread t accesses a page that is reserved and not backed.
Fault(t) ==
  /\ pc[t] = "user"
  /\ \E v \in Pages :
       /\ p1[owner[t]][v].demand
       /\ va' = [va EXCEPT ![t] = v]
       /\ cr2' = v
  /\ pc' = [pc EXCEPT ![t] = "entry"]
  /\ UNCHANGED <<allocator, p1, table, fault_va, node, reg, halted, raced>>

\* The handler reads cr2.
ReadCr2(t) ==
  /\ pc[t] = "entry"
  /\ fault_va' = [fault_va EXCEPT ![t] = cr2]
  /\ pc' = [pc EXCEPT ![t] = "handler"]
  /\ UNCHANGED <<allocator, p1, table, va, cr2, node, reg, halted, raced>>

\* Faulty: the test is the wrong way round.
TestEntryAny(t) == ~p1[owner[t]][fault_va[t]].demand

\* The entry is reserved and not present.
TestEntry(t) ==
  LET e == p1[owner[t]][fault_va[t]] IN e.demand /\ ~e.present

\* The handler looks at the entry of the page.
Handle(t) ==
  /\ pc[t] = "handler"
  /\ pc' = [pc EXCEPT ![t] = IF TestEntry(t) THEN "alloc" ELSE @]
  /\ halted' = ~TestEntry(t)
  /\ UNCHANGED <<allocator, p1, table, va, cr2, fault_va, node, reg, raced>>

\* MMU_pf_alloc, with interrupts on, reads the head of the list or finds a
\* region.  If there is no frame the loader gives up and the handler halts.
ReadFree(t) ==
  \/ /\ free_frames # INVALID_FRAME_ADDR
     /\ node' = [node EXCEPT ![t] = free_frames]
     /\ pc' = [pc EXCEPT ![t] = "pop"]
     /\ UNCHANGED <<reg, halted>>
  \/ /\ free_frames = INVALID_FRAME_ADDR
     /\ Valid(usable_regions) # {}
     /\ LET r == usable_regions[First(usable_regions)]
        IN  /\ node' = [node EXCEPT ![t] = r.addr]
            /\ pc' = [pc EXCEPT ![t] = IF r.size = 1 THEN "last" ELSE "shrink"]
     /\ reg' = [reg EXCEPT ![t] = First(usable_regions)]
     /\ UNCHANGED halted
  \/ /\ free_frames = INVALID_FRAME_ADDR
     /\ Valid(usable_regions) = {}
     /\ halted' = ~Loading(t)
     /\ pc' = [pc EXCEPT ![t] = IF Loading(t) THEN "user" ELSE @]
     /\ UNCHANGED <<node, reg>>

\* make_page_present has nothing to do if the page has been backed since the
\* handler looked.
AllocRead(t) ==
  /\ pc[t] = "alloc"
  /\ IF ~Loading(t) /\ p1[owner[t]][fault_va[t]].present
     THEN Leave({t}) /\ UNCHANGED halted
     ELSE ReadFree(t) /\ UNCHANGED <<va, fault_va>>
  /\ UNCHANGED <<allocator, p1, table, cr2, raced>>

\* It moves the head, closes the region or shrinks it.
AllocWrite(t) ==
  /\ \/ /\ pc[t] = "pop"
        /\ free_frames' = next[node[t]]
        /\ UNCHANGED <<usable_regions, node>>
     \/ /\ pc[t] = "last"
        /\ usable_regions' = [usable_regions EXCEPT ![reg[t]].valid = FALSE]
        /\ node' = [node EXCEPT ![t] = usable_regions[reg[t]].addr]
        /\ UNCHANGED free_frames
     \/ /\ pc[t] = "shrink"
        /\ usable_regions' = [usable_regions EXCEPT ![reg[t]] = Shrunk(@)]
        /\ UNCHANGED <<free_frames, node>>
  /\ pc' = [pc EXCEPT ![t] = "map"]
  /\ raced' = (raced \/ \E u \in Threads \ {t} : Taking(u))
  /\ UNCHANGED <<next, p1, table, va, cr2, fault_va, reg, halted>>

\* make_page_present clears the frame and fills the entry.
MapPage(t) ==
  /\ pc[t] = "map"
  /\ ~Loading(t)
  /\ next' = [next EXCEPT ![node[t]] = 0]
  /\ p1' = [p1 EXCEPT ![owner[t]][fault_va[t]] = Entry(FALSE, TRUE, node[t])]
  /\ Leave({t})
  /\ raced' = (\/ raced
               \/ \E u \in Threads \ {t} :
                    /\ owner[u] = owner[t] /\ fault_va[u] = fault_va[t]
                    /\ Taking(u) \/ pc[u] = "map")
  /\ UNCHANGED <<usable_regions, free_frames, table, cr2, halted>>

\* The pages of a new image are reserved, none is backed.
Reserved == [v \in Pages |-> Entry(TRUE, FALSE, 0)]

\* MMU_create_user_p4 clears the frame; the pages of the image are reserved.
MapTable(t) ==
  /\ pc[t] = "map"
  /\ Loading(t)
  /\ next' = [next EXCEPT ![node[t]] = 0]
  /\ table' = [table EXCEPT ![owner[t]] = node[t]]
  /\ p1' = [p1 EXCEPT ![owner[t]] = Reserved]
  /\ Leave({t})
  /\ UNCHANGED <<usable_regions, free_frames, cr2, halted, raced>>

Next ==
  /\ ~halted
  /\ \/ \E p, q \in Procs :
          MMU_destroy_userspace(p) \/ MMU_clone_userspace(p, q)
     \/ \E t \in Threads :
          \/ Load(t) \/ MapTable(t) \/ Fault(t) \/ ReadCr2(t) \/ Handle(t)
          \/ AllocRead(t) \/ AllocWrite(t) \/ MapPage(t)

Spec == Init /\ [][Next]_vars

-----------------------------------------------------------------------------
\* The list of freed frames, as far as it can be followed.
Links[n \in 0..Cardinality(AllFrames)] ==
  IF n = 0 THEN free_frames
  ELSE IF Links[n - 1] \notin AllFrames THEN INVALID_FRAME_ADDR
  ELSE next[Links[n - 1]]

FreeFrames ==
  (Range(Links) \cap AllFrames)
    \cup UNION {RegionFrames(r) : r \in Range(usable_regions)}

\* Those who use frame f: pages, page tables (-1), and
\* threads about to map it (-2).
Users(f) ==
  {<<p, v>> \in Procs \X Pages : p1[p][v].present /\ p1[p][v].frame = f}
    \cup {<<p, -1>> : p \in {q \in Procs : table[q] = f}}
    \cup {<<t, -2>> : t \in {u \in Threads : pc[u] = "map" /\ node[u] = f}}

(***************************************************************************)
(* A frame has one user, and is not free while it has one: what a process  *)
(* writes to its pages appears in no other address space, page table or    *)
(* free list (MMU_pf_alloc, make_page_present).                            *)
(***************************************************************************)
NoFrameShared ==
  \A f \in AllFrames :
    /\ Cardinality(Users(f)) <= 1
    /\ Users(f) # {} /\ (\A t \in Threads : ~Taking(t)) => f \notin FreeFrames

(***************************************************************************)
(* However the loaders, the handlers, fork and exit are interleaved, they  *)
(* come to share a frame only through the window of MMU_pf_alloc: one has  *)
(* read the list or a region, another changes it, and the first writes     *)
(* (frames.c).  No other step of theirs needs interrupts disabled for it.  *)
(***************************************************************************)
SharedOnlyByRace == raced \/ NoFrameShared

(***************************************************************************)
(* When nobody is in the loader or the handler, every frame is free or has *)
(* a user: none is leaked by a load, fault, fork or exit, also if frames   *)
(* run out midway, unless a thread met another in MMU_pf_alloc, was ended  *)
(* with a frame in its hands or backed a page that another one was backing *)
(* (make_page_present, MMU_clone_userspace, MMU_destroy_userspace).        *)
(***************************************************************************)
LostOnlyByRace ==
  ~raced /\ (\A p \in Procs : InUser(p)) =>
    \A f \in AllFrames : f \in FreeFrames \/ Users(f) # {}

(***************************************************************************)
(* The access of a reserved page stops the machine only if no frame is     *)
(* left to back it, or for one of two things another thread may do before  *)
(* the handler has looked: fault on another page, which replaces cr2, or   *)
(* back the same page (ISR14_PAGE_FAULT_HANDLER, a trap gate).             *)
(***************************************************************************)
HaltsOnlyByRace ==
  halted /\ FreeFrames # {} =>
    \E t \in Threads :
      /\ pc[t] = "handler"
      /\ fault_va[t] # va[t] \/ p1[owner[t]][va[t]].present
=============================================================================
