---------------------------- MODULE PhysAllocator ----------------------------
(***************************************************************************)
(* The physical page allocator of src/zarya-os/kernel/src/memory/mod.rs    *)
(* (PhysicalAllocator).  Each operation runs under the lock PHYS_ALLOCATOR *)
(* and is one action, which VirtualMemory makes part of its own steps: the *)
(* lock is private to the file.  Addresses are counted in pages, and the   *)
(* regions of the boot memory map consist of whole pages.                  *)
(***************************************************************************)
EXTENDS Integers, FiniteSets

CONSTANTS
  Usable,        \* pages in the Usable regions of the boot memory map
  MAX_PAGES      \* from_boot_info's limit (1024 * 1024 in the code)

ASSUME PhysAllocatorConstants ==
  /\ IsFiniteSet(Usable) /\ Usable \subseteq Nat
  /\ MAX_PAGES \in Nat

VARIABLES
  free_pages,    \* page -> is it free?
  free_count,    \* PhysicalAllocator::free_count
  panicked,      \* has an index out of bounds stopped the kernel?
  owned          \* pages handed out and not given back (history)

allocVars == <<free_pages, free_count, panicked, owned>>

(* from_boot_info: the number of usable frames, up to a limit.             *)
total_pages == IF Cardinality(Usable) < MAX_PAGES THEN Cardinality(Usable) ELSE MAX_PAGES
Pages == 0 .. total_pages - 1
Free  == {i \in Pages : free_pages[i]}

-----------------------------------------------------------------------------
(* The starts of runs of count free pages.                                 *)
Runs(count) ==
  {i \in Pages : i + count <= total_pages /\ \A j \in i .. i + count - 1 : free_pages[j]}

(* The start of the free run that reaches the end of the bitmap, if any.   *)
Tails ==
  {i \in Pages : /\ \A j \in i .. total_pages - 1 : free_pages[j]
                 /\ i = 0 \/ ~free_pages[i - 1]}

Lowest(S) == CHOOSE i \in S : \A j \in S : i <= j

(* What the search of allocate_frames leaves in start_idx, -1 for None:    *)
(* the lowest run that is long enough; without one, the run at the end of  *)
(* the bitmap, short as it is.                                             *)
StartIdx(count) ==
  IF Runs(count) # {} THEN Lowest(Runs(count))
  ELSE IF Tails # {} THEN Lowest(Tails) ELSE -1

LoopKeepsStart(count) ==
  LET step[i \in 0 .. total_pages] ==
        IF i = 0 THEN [consecutive |-> 0, start |-> -1, done |-> FALSE]
        ELSE LET s == step[i - 1]
             IN  IF s.done THEN s
                 ELSE IF free_pages[i - 1]
                   THEN [consecutive |-> s.consecutive + 1,
                         start |-> IF s.start = -1 THEN i - 1 ELSE s.start,
                         done |-> s.consecutive + 1 = count]
                   ELSE [s EXCEPT !.consecutive = 0]
  IN  step[total_pages].start

(* The loop itself: step[i] is its state after the first i pages.          *)
LoopStart(count) ==
  LET step[i \in 0 .. total_pages] ==
        IF i = 0 THEN [consecutive |-> 0, start |-> -1, done |-> FALSE]
        ELSE LET s == step[i - 1]
             IN  IF s.done THEN s
                 ELSE IF free_pages[i - 1]
                   THEN [consecutive |-> s.consecutive + 1,
                         start |-> IF s.consecutive = 0 THEN i - 1 ELSE s.start,
                         done |-> s.consecutive + 1 = count]
                   ELSE [consecutive |-> 0, start |-> -1, done |-> FALSE]
  IN  step[total_pages].start

-----------------------------------------------------------------------------
(* The k lowest free pages: what k calls of allocate_frame return.         *)
LowestFree(k) == {i \in Free : Cardinality({j \in Free : j < i}) < k}

AllocateUncounted(k) ==
  /\ free_pages' = [i \in Pages |-> free_pages[i] /\ i \notin LowestFree(k)]
  /\ owned' = owned \cup LowestFree(k)
  /\ UNCHANGED <<free_count, panicked>>

(* k successful calls of allocate_frame under one lock.                    *)
AllocateFrame(k) ==
  /\ free_pages' = [i \in Pages |-> free_pages[i] /\ i \notin LowestFree(k)]
  /\ free_count' = free_count - k
  /\ owned' = owned \cup LowestFree(k)
  /\ UNCHANGED panicked

(* allocate_frames when it does not return None.  The loop that marks the  *)
(* pages runs off the end of the bitmap when the run is too short, and the *)
(* kernel panics half way.                                                 *)
AllocateFrames(count) ==
  LET start == StartIdx(count)
      run   == start .. start + count - 1
  IN  /\ count # 0 /\ count <= free_count
      /\ start # -1
      /\ free_pages' = [i \in Pages |-> free_pages[i] /\ i \notin run]
      /\ IF start + count <= total_pages
           THEN /\ free_count' = free_count - count
                /\ owned' = owned \cup run
                /\ UNCHANGED panicked
           ELSE /\ panicked' = TRUE
                /\ UNCHANGED <<free_count, owned>>

(* deallocate_frame: a page out of range or free already is ignored.       *)
DeallocateFrame(f) ==
  IF f < total_pages /\ ~free_pages[f]
    THEN /\ free_pages' = [free_pages EXCEPT ![f] = TRUE]
         /\ free_count' = free_count + 1
         /\ owned' = owned \ {f}
         /\ UNCHANGED panicked
    ELSE UNCHANGED allocVars

(* from_boot_info: as many pages as are usable, numbered from 0.           *)
AllocInit ==
  /\ free_pages = [i \in Pages |-> TRUE]
  /\ free_count = total_pages
  /\ panicked = FALSE
  /\ owned = {}

-----------------------------------------------------------------------------
AllocTypeOK ==
  /\ free_pages \in [Pages -> BOOLEAN]
  /\ free_count \in 0 .. total_pages
  /\ panicked \in BOOLEAN
  /\ owned \subseteq Pages

(* The counter that allocate_frames trusts and stats reports is the number *)
(* of free pages, and the used pages are exactly those handed out and not  *)
(* given back, by whatever mix of single pages, runs and releases.         *)
FreeCountExact ==
  ~panicked => free_count = Cardinality(Free) /\ owned = Pages \ Free

(* The loop of allocate_frames computes StartIdx, on every bitmap that can *)
(* come about and for every count: it finds the lowest run that fits.      *)
SearchIsFirstFit ==
  ~panicked => \A count \in 1 .. free_count : LoopStart(count) = StartIdx(count)

(* allocate_frames allocates n contiguous pages or returns None            *)
(* (memory/mod.rs:170 and 205): it does not panic.                         *)
NoPanic == ~panicked
=============================================================================
