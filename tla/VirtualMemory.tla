---------------------------- MODULE VirtualMemory ----------------------------
(***************************************************************************)
(* The virtual memory manager of src/zarya-os/kernel/src/memory/mod.rs     *)
(* (VirtualMemoryManager) over the page allocator.  Addresses are counted  *)
(* in pages.  Methods take &mut self, so one call is under way at a time,  *)
(* but they give up the allocator's lock between their parts: each part    *)
(* that runs under one hold of the lock is one step.  A call that returns  *)
(* an error without having changed anything is a stuttering step.          *)
(*                                                                         *)
(* A page table is what map_to and unmap of the x86_64 crate make of it:   *)
(* entries, and the tables on the way to them, taken from the allocator.   *)
(***************************************************************************)
EXTENDS PhysAllocator, Sequences

CONSTANTS
  HEAP_START,     \* page of 0x10_0000, where the heap begins
  STACK_END,      \* page of 0xffff_f000, where every stack ends
  STACK_PAGES,    \* pages of STACK_SIZE, the smallest stack (2 in the code)
  Levels,         \* levels of tables below the root (3 on x86_64)
  TableSize,      \* entries of a table (512 on x86_64)
  KernelPages,    \* pages the boot loader mapped, the kernel's code
  MapPages,       \* pages callers give to map
  MapFrames,      \* physical pages they map there (devices, frame buffer)
  MapFlags,       \* flags they ask for
  MaxRequest,     \* bound on the pages of one heap or stack request
  LastPage        \* bound on the pages the heap may reach

Flags == {"PRESENT", "WRITABLE", "USER", "WRITE_THROUGH", "NO_CACHE",
          "ACCESSED", "DIRTY", "HUGE_PAGE", "GLOBAL"}

VPages == 0 .. LastPage

ASSUME VirtualMemoryConstants ==
  /\ LastPage \in Nat
  /\ {HEAP_START, STACK_END - STACK_PAGES, STACK_END - MaxRequest} \subseteq VPages
  /\ STACK_END \in VPages /\ STACK_PAGES \in Nat \ {0} /\ MaxRequest \in Nat
  /\ Levels \in Nat /\ TableSize \in Nat \ {0}
  /\ KernelPages \cup MapPages \subseteq VPages /\ KernelPages # {}
  /\ MapFrames \subseteq Nat
  /\ \A flags \in MapFlags : flags \subseteq Flags

VARIABLES
  entries,        \* page table: page -> frame and flags, or Unused
  tables,         \* tables below the current root
  table_frames,   \* frames that became page tables (history)
  vmas,           \* VirtualMemoryManager::vmas, those that hold an address
  call,           \* the allocate_heap or allocate_stack under way
  failed          \* has one of them returned early? (history)

vmVars == <<entries, tables, table_frames, vmas, call, failed>>
vars == <<allocVars, vmVars>>

Unused == [frame |-> -1, flags |-> {}]
BootEntry == [frame |-> MAX_PAGES, flags |-> {"PRESENT", "WRITABLE"}]
NoCall == [op |-> "none", base |-> 0, pages |-> 0, done |-> 0, first |-> 0]

Area(start, end, flags, type) ==
  [start |-> start, end |-> end, flags |-> flags, area_type |-> type]

contains(vma, v) == vma.start <= v /\ v < vma.end

(* flags_to_x86: six of the nine flags are passed on.                      *)
flags_to_x86(flags) ==
  flags \cap {"PRESENT", "WRITABLE", "USER", "NO_CACHE", "WRITE_THROUGH", "GLOBAL"}

(* What an entry is that is given a frame and flags.  An entry is unused   *)
(* when it is 0, as it is for frame 0 without a flag.                      *)
Entry(frame, flags) ==
  IF frame = 0 /\ flags_to_x86(flags) = {} THEN Unused
  ELSE [frame |-> frame, flags |-> flags_to_x86(flags)]

(* find_vma: the first area that contains the page.                        *)
HasVma(v) == \E i \in DOMAIN vmas : contains(vmas[i], v)
find_vma(v) == vmas[Lowest({i \in DOMAIN vmas : contains(vmas[i], v)})]

check_access(v, write) ==
  HasVma(v) /\ (IF write THEN "WRITABLE" ELSE "PRESENT") \in find_vma(v).flags

(* Every method runs the kernel's code: it must be mapped.                 *)
Executing == ~panicked /\ \A v \in KernelPages : entries[v] # Unused

-----------------------------------------------------------------------------
(* The tables on the way to a page, the one nearest to it at level 1.      *)
Path(v) == {<<l, v \div TableSize ^ l>> : l \in 1 .. Levels}

Missing(v) == Path(v) \ tables
Created(v) ==
  IF Cardinality(Missing(v)) <= free_count THEN Cardinality(Missing(v)) ELSE free_count

(* map_to succeeds if there is memory for the tables and the entry is free.*)
MapSucceeds(v) == Created(v) = Cardinality(Missing(v)) /\ entries[v] = Unused

(* map_to: the missing tables from the top down, as far as memory goes,    *)
(* then the entry.  The allocator's lock is held all along.                *)
MapTo(v, frame, flags) ==
  /\ AllocateFrame(Created(v))
  /\ tables' = tables \cup
       {t \in Missing(v) : Cardinality({u \in Missing(v) : u[1] > t[1]}) < Created(v)}
  /\ table_frames' = table_frames \cup LowestFree(Created(v))
  /\ entries' = IF MapSucceeds(v)
                  THEN [entries EXCEPT ![v] = Entry(frame, flags)] ELSE entries

(* map: the recorded area reaches from the address rounded down to the     *)
(* address rounded up, so it is empty when the address is aligned.         *)
map(v, aligned, frame, flags) ==
  /\ Executing /\ call = NoCall
  /\ MapTo(v, frame, flags)
  /\ vmas' = IF MapSucceeds(v) /\ ~aligned
               THEN Append(vmas, Area(v, v + 1, flags, "KernelData")) ELSE vmas
  /\ UNCHANGED <<call, failed>>

-----------------------------------------------------------------------------
Highest(S) == CHOOSE i \in S : \A j \in S : j <= i

(* The heap goes on where its last recorded area ends.                     *)
heap_start ==
  LET heap == {i \in DOMAIN vmas : vmas[i].area_type = "Heap"}
  IN  IF heap = {} THEN HEAP_START ELSE vmas[Highest(heap)].end

AllocateAndMap(op, base, pages) ==
  /\ Executing /\ call = NoCall
  /\ AllocateFrames(pages)
  /\ call' = IF panicked' THEN NoCall
             ELSE [op |-> op, base |-> base, pages |-> pages, done |-> 0,
                   first |-> StartIdx(pages)]
  /\ UNCHANGED <<entries, tables, table_frames, vmas, failed>>

(* allocate_heap up to drop(allocator).                                    *)
allocate_heap(pages) ==
  /\ heap_start + pages <= LastPage + 1
  /\ AllocateAndMap("Heap", heap_start, pages)

(* allocate_stack up to drop(allocator): every stack has the same end.     *)
allocate_stack(size) ==
  LET pages == IF size > STACK_PAGES THEN size ELSE STACK_PAGES
  IN  AllocateAndMap("Stack", STACK_END - pages, pages)

HeapFlags == {"PRESENT", "WRITABLE"}
CallFlags == IF call.op = "Stack" THEN HeapFlags \cup {"USER"} ELSE HeapFlags
CallArea == Area(call.base, call.base + call.pages, CallFlags, call.op)

MapNextSameFrame ==
  /\ Executing /\ call # NoCall
  /\ MapTo(call.base + call.done, call.first, CallFlags)
  /\ IF call.done + 1 < call.pages
       THEN call' = [call EXCEPT !.done = @ + 1] /\ UNCHANGED vmas
       ELSE call' = NoCall /\ vmas' = Append(vmas, CallArea)
  /\ UNCHANGED failed

(* One turn of the mapping loop of allocate_heap or allocate_stack; a      *)
(* failed map ends the call, the last turn records the area.               *)
MapNext ==
  LET v == call.base + call.done
  IN  /\ Executing /\ call # NoCall
      /\ MapTo(v, call.first + call.done, CallFlags)
      /\ IF ~MapSucceeds(v)
           THEN call' = NoCall /\ failed' = TRUE /\ UNCHANGED vmas
           ELSE /\ UNCHANGED failed
                /\ IF call.done + 1 < call.pages
                     THEN call' = [call EXCEPT !.done = @ + 1] /\ UNCHANGED vmas
                     ELSE call' = NoCall /\ vmas' = Append(vmas, CallArea)

-----------------------------------------------------------------------------
(* Vec::retain: the elements at the given indices, in their order.         *)
Retain(seq, keep) ==
  [k \in 1 .. Cardinality(keep) |->
     seq[CHOOSE i \in keep : Cardinality({j \in keep : j < i}) = k - 1]]

UnmapKeepsAreas(v) ==
  /\ Executing /\ call = NoCall
  /\ "PRESENT" \in entries[v].flags
  /\ entries' = [entries EXCEPT ![v] = Unused]
  /\ DeallocateFrame(entries[v].frame)
  /\ UNCHANGED <<tables, table_frames, vmas, call, failed>>

UnmapKeepsFrame(v) ==
  /\ Executing /\ call = NoCall
  /\ "PRESENT" \in entries[v].flags
  /\ entries' = [entries EXCEPT ![v] = Unused]
  /\ vmas' = Retain(vmas, {i \in DOMAIN vmas : ~contains(vmas[i], v)})
  /\ UNCHANGED <<allocVars, tables, table_frames, call, failed>>

(* unmap of a page that is present (an entry in use without that flag      *)
(* stays): frees the frame, forgets every area that contains the page, and *)
(* leaves the tables on the way to it.                                     *)
unmap(v) ==
  /\ Executing /\ call = NoCall
  /\ "PRESENT" \in entries[v].flags
  /\ entries' = [entries EXCEPT ![v] = Unused]
  /\ DeallocateFrame(entries[v].frame)
  /\ vmas' = Retain(vmas, {i \in DOMAIN vmas : ~contains(vmas[i], v)})
  /\ UNCHANGED <<tables, table_frames, call, failed>>

(* create_process_page_table: an empty root takes the place of the old one.*)
create_process_page_table ==
  /\ Executing /\ call = NoCall
  /\ free_count > 0
  /\ AllocateFrame(1)
  /\ entries' = [v \in VPages |-> Unused]
  /\ tables' = {}
  /\ table_frames' = table_frames \cup LowestFree(1)
  /\ UNCHANGED <<vmas, call, failed>>

(* memory::init: the page allocator, and a manager of the page table that  *)
(* the boot loader left, whose frames are not among the allocator's.       *)
Init ==
  /\ AllocInit
  /\ entries = [v \in VPages |-> IF v \in KernelPages THEN BootEntry ELSE Unused]
  /\ tables = UNION {Path(v) : v \in KernelPages}
  /\ table_frames = {}
  /\ vmas = <<>>
  /\ call = NoCall
  /\ failed = FALSE

Next ==
  \/ \E v \in MapPages, aligned \in BOOLEAN, frame \in MapFrames, flags \in MapFlags :
       map(v, aligned, frame, flags)
  \/ \E pages \in 0 .. MaxRequest : allocate_heap(pages)
  \/ \E size \in 0 .. MaxRequest : allocate_stack(size)
  \/ MapNext
  \/ \E v \in VPages : unmap(v)
  \/ create_process_page_table

Spec == Init /\ [][Next]_vars

-----------------------------------------------------------------------------
FrameValues == {-1} \cup Pages \cup MapFrames \cup {MAX_PAGES}

(* Types.  free_count stays between 0 and the number of pages although     *)
(* unmap also gives back frames that never were the allocator's, and the   *)
(* call under way stays inside the pages it was given.                     *)
TypeOK ==
  /\ AllocTypeOK
  /\ entries \in [VPages -> [frame : FrameValues, flags : SUBSET Flags]]
  /\ tables \subseteq UNION {Path(v) : v \in VPages}
  /\ table_frames \subseteq Pages
  /\ \A i \in DOMAIN vmas :
       vmas[i] \in [start : VPages, end : 1 .. LastPage + 1, flags : SUBSET Flags,
                    area_type : {"KernelData", "Heap", "Stack"}]
  /\ call = NoCall \/ /\ call.op \in {"Heap", "Stack"}
                      /\ call.base \in VPages /\ call.base + call.pages <= LastPage + 1
                      /\ call.done \in 0 .. call.pages - 1
                      /\ call.first \in Pages /\ call.first + call.pages <= total_pages
  /\ failed \in BOOLEAN

MappedFrames == {entries[v].frame : v \in VPages} \cap Pages
CallFrames == IF call = NoCall THEN {}
              ELSE call.first + call.done .. call.first + call.pages - 1

(* As long as callers of map only name frames outside the allocator, no    *)
(* frame of the allocator serves two pages, or a page and a page table,    *)
(* and none of those in use is free: nobody else can be given it.          *)
FramesExclusive ==
  MapFrames \cap Pages = {} =>
    /\ \A v, w \in VPages :
         entries[v].frame \in Pages /\ entries[v].frame = entries[w].frame => v = w
    /\ MappedFrames \cap table_frames = {}
    /\ CallFrames \cap (MappedFrames \cup table_frames) = {}
    /\ MappedFrames \cup table_frames \cup CallFrames \subseteq owned

(* Frames are lost only when allocate_heap or allocate_stack returns early *)
(* from its mapping loop: until then every used frame is mapped, a page    *)
(* table, or about to be mapped.                                           *)
LeakOnlyOnFailure ==
  Executing /\ ~failed => owned = MappedFrames \cup table_frames \cup CallFrames

(* The right that check_access grants, the page's entry has: no record of  *)
(* an area outlives the mapping of one of its pages, in whatever order     *)
(* areas are recorded, extended and unmapped.  (It says nothing of the     *)
(* other flag: map may record a page that is writable and not present.)    *)
AccessSound ==
  Executing => \A v \in VPages, write \in BOOLEAN :
    check_access(v, write) =>
      (IF write THEN "WRITABLE" ELSE "PRESENT") \in entries[v].flags
=============================================================================
