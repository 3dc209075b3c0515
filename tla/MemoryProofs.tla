----------------------------- MODULE MemoryProofs ----------------------------
(***************************************************************************)
(* Proofs about the page allocator and the virtual memory manager over it. *)
(***************************************************************************)
EXTENDS VirtualMemory, FiniteSetTheorems, SequenceTheorems, TLAPS

(* The rank of an element in a finite set of naturals: how many are lower. *)
Rank(F, i) == Cardinality({j \in F : j < i})

(* Ranks number the elements from 0 on, in order and without a gap.        *)
LEMMA RankBijection ==
  ASSUME NEW F, IsFiniteSet(F), F \subseteq Nat
  PROVE  /\ Cardinality(F) \in Nat
         /\ \A i \in F : Rank(F, i) \in 0 .. Cardinality(F) - 1
         /\ \A i, j \in F : i < j => Rank(F, i) < Rank(F, j)
         /\ \A n \in 0 .. Cardinality(F) - 1 : \E i \in F : Rank(F, i) = n
<1> DEFINE below(i) == {j \in F : j < i}
           size == Cardinality(F)
           rank == [i \in F |-> Rank(F, i)]
<1>1. \A i \in F : IsFiniteSet(below(i)) /\ Cardinality(below(i)) \in Nat
  <2> TAKE i \in F
  <2>1. below(i) \in SUBSET F
    OBVIOUS
  <2> QED
    BY <2>1, FS_Subset, FS_CardinalityType
<1>2. size \in Nat
  BY FS_CardinalityType
<1>3. ASSUME NEW i \in F PROVE Cardinality(below(i)) < size
  <2>1. below(i) \in SUBSET F /\ below(i) # F
    OBVIOUS
  <2>2. Cardinality(below(i)) <= size /\ Cardinality(below(i)) # size
    BY <2>1, FS_Subset
  <2> QED
    BY <1>1, <1>2, <2>2
<1>4. ASSUME NEW i \in F, NEW j \in F, i < j PROVE Cardinality(below(i)) < Cardinality(below(j))
  <2>1. below(i) \in SUBSET below(j) /\ below(i) # below(j)
    <3>1. i \in below(j) /\ i \notin below(i) /\ \A h \in below(i) : h \in below(j)
      BY <1>4
    <3> QED
      BY <3>1
  <2>2. /\ Cardinality(below(i)) <= Cardinality(below(j))
        /\ Cardinality(below(i)) # Cardinality(below(j))
    BY <1>1, <2>1, FS_Subset
  <2> QED
    BY <1>1, <2>2
<1>5. rank \in Injection(F, 0 .. size - 1)
  <2>1. rank \in [F -> 0 .. size - 1]
    BY <1>1, <1>2, <1>3 DEF Rank
  <2>2. ASSUME NEW i \in F, NEW j \in F, rank[i] = rank[j] PROVE i = j
    <3>1. Cardinality(below(i)) = Cardinality(below(j)) /\ i \in Nat /\ j \in Nat
      BY <2>2 DEF Rank
    <3> QED
      BY <1>1, <1>4, <3>1
  <2> QED
    BY <2>1, <2>2 DEF Injection, IsInjective
<1>6. rank \in Surjection(F, 0 .. size - 1)
  <2>1. IsFiniteSet(0 .. size - 1) /\ Cardinality(0 .. size - 1) = size
    <3> HIDE DEF size
    <3>1. 0 \in Int /\ size - 1 \in Int /\ (0 > size - 1 <=> size = 0)
      BY <1>2
    <3>2. /\ IsFiniteSet(0 .. size - 1)
          /\ Cardinality(0 .. size - 1) = IF 0 > size - 1 THEN 0 ELSE size - 1 - 0 + 1
      BY <3>1, FS_Interval
    <3> QED
      BY <1>2, <3>1, <3>2
  <2> QED
    BY <1>5, <2>1, FS_Injection
<1>7. \A n \in 0 .. size - 1 : \E i \in F : Rank(F, i) = n
  BY <1>6 DEF Surjection
<1> QED
  BY <1>1, <1>2, <1>3, <1>4, <1>7 DEF Rank

(* A finite set of naturals that is not empty has a lowest element, and    *)
(* Lowest is it.                                                           *)
LEMMA LowestIsLeast ==
  ASSUME NEW S, IsFiniteSet(S), S \subseteq Nat, S # {}
  PROVE  Lowest(S) \in S /\ \A j \in S : Lowest(S) <= j
<1>1. Cardinality(S) # 0 /\ Cardinality(S) \in Nat
  BY FS_EmptySet, FS_CardinalityType
<1>2. PICK i \in S : Rank(S, i) = 0
  <2>1. \A n \in 0 .. Cardinality(S) - 1 : \E i \in S : Rank(S, i) = n
    BY RankBijection
  <2> QED
    BY <1>1, <2>1
<1>3. {j \in S : j < i} = {}
  <2>1. IsFiniteSet({j \in S : j < i})
    BY FS_Subset
  <2> QED
    BY <1>2, <2>1, FS_EmptySet DEF Rank
<1>4. \A j \in S : i <= j
  BY <1>3
<1> QED
  BY <1>4 DEF Lowest

(* The k elements of least rank are k.                                     *)
LEMMA LowestCount ==
  ASSUME NEW F, IsFiniteSet(F), F \subseteq Nat, NEW k \in 0 .. Cardinality(F)
  PROVE  LET low == {i \in F : Rank(F, i) < k}
         IN  IsFiniteSet(low) /\ Cardinality(low) = k
<1> DEFINE low == {i \in F : Rank(F, i) < k}
           rank == [i \in low |-> Rank(F, i)]
<1>1. Cardinality(F) \in Nat /\ k \in Nat
  BY FS_CardinalityType
<1>5. /\ \A i \in F : Rank(F, i) \in 0 .. Cardinality(F) - 1
      /\ \A i, j \in F : i < j => Rank(F, i) < Rank(F, j)
      /\ \A n \in 0 .. Cardinality(F) - 1 : \E i \in F : Rank(F, i) = n
  BY RankBijection
<1>2. rank \in Bijection(low, 0 .. k - 1)
  <2>1. rank \in [low -> 0 .. k - 1]
    <3>1. ASSUME NEW i \in F, Rank(F, i) < k PROVE Rank(F, i) \in 0 .. k - 1
      <4>1. Rank(F, i) \in Nat
        BY <1>5
      <4> QED
        BY <1>1, <3>1, <4>1
    <3> QED
      BY <3>1
  <2>2. \A i, j \in low : rank[i] = rank[j] => i = j
    <3>1. \A i, j \in F : i < j => Rank(F, i) < Rank(F, j)
      BY <1>5
    <3>2. \A i \in F : Rank(F, i) \in Nat
      BY <1>1, <1>5
    <3> QED
      BY <3>1, <3>2
  <2>3. \A n \in 0 .. k - 1 : \E i \in low : rank[i] = n
    <3> TAKE n \in 0 .. k - 1
    <3>1. PICK i \in F : Rank(F, i) = n
      BY <1>1, <1>5
    <3> QED
      BY <1>1, <3>1
  <2> QED
    BY <2>1, <2>2, <2>3 DEF Bijection, Injection, IsInjective, Surjection
<1>3. IsFiniteSet(low)
  BY FS_Subset
<1>4. Cardinality(0 .. k - 1) = Cardinality(low)
  BY <1>2, <1>3, FS_Bijection DEF ExistsBijection
<1>6. Cardinality(0 .. k - 1) = k
  BY <1>1, FS_Interval
<1> QED
  BY <1>3, <1>4, <1>6

-----------------------------------------------------------------------------
(***************************************************************************)
(* The page allocator: what each operation does to the free pages.         *)
(***************************************************************************)
AllocGood == AllocTypeOK /\ FreeCountExact

LEMMA PagesFinite ==
  /\ total_pages \in Nat /\ total_pages <= MAX_PAGES
  /\ Pages \subseteq Nat /\ IsFiniteSet(Pages) /\ Cardinality(Pages) = total_pages
<1>1. Cardinality(Usable) \in Nat /\ MAX_PAGES \in Nat
  BY PhysAllocatorConstants, FS_CardinalityType
<1>2. total_pages \in Nat /\ total_pages <= MAX_PAGES
  BY <1>1 DEF total_pages
<1> HIDE DEF total_pages
<1> QED
  BY <1>2, FS_Interval DEF Pages

LEMMA FreeFinite ==
  Free \subseteq Pages /\ Free \subseteq Nat /\ IsFiniteSet(Free) /\ Cardinality(Free) \in Nat
<1>1. Free \in SUBSET Pages
  BY DEF Free
<1> QED
  BY <1>1, PagesFinite, FS_Subset, FS_CardinalityType

(* Taking a set of free pages off the bitmap and its size off the counter. *)
LEMMA TakePages ==
  ASSUME AllocGood, ~panicked, NEW run, run \subseteq Free,
         free_pages' = [i \in Pages |-> free_pages[i] /\ i \notin run],
         free_count' = free_count - Cardinality(run),
         owned' = owned \cup run, panicked' = panicked
  PROVE  AllocGood' /\ Free' = Free \ run
<1>1. /\ free_pages \in [Pages -> BOOLEAN] /\ panicked \in BOOLEAN
      /\ free_count = Cardinality(Free) /\ owned = Pages \ Free
  BY DEF AllocGood, AllocTypeOK, FreeCountExact
<1>2. free_pages' \in [Pages -> BOOLEAN]
  BY <1>1
<1>3. Free' = Free \ run
  BY <1>1 DEF Free
<1>4. Free \cap run = run /\ Free \ run \in SUBSET Pages
  BY FreeFinite
<1>5. /\ Cardinality(Free \ run) = Cardinality(Free) - Cardinality(run)
      /\ Cardinality(Free \ run) \in Nat /\ Cardinality(Free \ run) <= total_pages
  <2>1. Cardinality(Free \ run) = Cardinality(Free) - Cardinality(run)
    BY <1>4, FreeFinite, FS_Difference
  <2>2. IsFiniteSet(Free \ run) /\ Cardinality(Free \ run) <= Cardinality(Pages)
    BY <1>4, PagesFinite, FS_Subset
  <2> QED
    BY <2>1, <2>2, PagesFinite, FS_CardinalityType
<1>6. free_count' = Cardinality(Free')
  BY <1>1, <1>3, <1>5
<1>7. free_count' \in 0 .. total_pages
  BY <1>1, <1>5, PagesFinite
<1>8. owned' = Pages \ Free'
  BY <1>1, <1>3, FreeFinite
<1>9. AllocTypeOK'
  BY <1>1, <1>2, <1>7, <1>8 DEF AllocTypeOK
<1> QED
  BY <1>3, <1>6, <1>8, <1>9 DEF AllocGood, FreeCountExact

(* k calls of allocate_frame take k free pages.                            *)
LEMMA AllocateFrameStep ==
  ASSUME AllocGood, ~panicked, NEW k \in 0 .. free_count, AllocateFrame(k)
  PROVE  /\ AllocGood' /\ panicked' = panicked
         /\ LowestFree(k) \subseteq Free /\ Free' = Free \ LowestFree(k)
         /\ owned' = owned \cup LowestFree(k)
<1>1. free_count = Cardinality(Free)
  BY DEF AllocGood, FreeCountExact
<1>2. LowestFree(k) = {i \in Free : Rank(Free, i) < k}
  BY DEF LowestFree, Rank
<1>3. Cardinality(LowestFree(k)) = k
  BY <1>1, <1>2, FreeFinite, LowestCount
<1>4. LowestFree(k) \subseteq Free
  BY DEF LowestFree
<1>5. /\ free_pages' = [i \in Pages |-> free_pages[i] /\ i \notin LowestFree(k)]
      /\ free_count' = free_count - k
      /\ owned' = owned \cup LowestFree(k) /\ panicked' = panicked
  BY DEF AllocateFrame
<1> QED
  BY <1>3, <1>4, <1>5, TakePages

(* allocate_frames takes a run of free pages, or panics.                   *)
LEMMA AllocateFramesStep ==
  ASSUME AllocGood, ~panicked, NEW count \in Nat, AllocateFrames(count)
  PROVE  LET start == StartIdx(count)
             run == start .. start + count - 1
         IN  /\ AllocGood'
             /\ ~panicked' => /\ run \subseteq Free /\ Free' = Free \ run
                              /\ owned' = owned \cup run
                              /\ count > 0 /\ start \in Pages /\ start + count <= total_pages
<1> DEFINE start == StartIdx(count)
           run == start .. start + count - 1
<1>1. /\ count # 0 /\ start # -1
      /\ free_pages' = [i \in Pages |-> free_pages[i] /\ i \notin run]
      /\ IF start + count <= total_pages
           THEN free_count' = free_count - count /\ owned' = owned \cup run /\ UNCHANGED panicked
           ELSE panicked' = TRUE /\ UNCHANGED <<free_count, owned>>
  BY DEF AllocateFrames
<1>2. free_pages \in [Pages -> BOOLEAN] /\ AllocTypeOK
  BY DEF AllocGood, AllocTypeOK
<1>3. \A S : S \subseteq Pages /\ S # {} => Lowest(S) \in S
  BY PagesFinite, FS_Subset, LowestIsLeast
<1>4. /\ Runs(count) # {} => start \in Runs(count)
      /\ Runs(count) = {} => start \in Tails
  <2>1. Runs(count) \subseteq Pages /\ Tails \subseteq Pages
    BY DEF Runs, Tails
  <2> QED
    BY <1>1, <1>3, <2>1 DEF StartIdx
<1>5. start \in Pages /\ start \in Nat
  BY <1>4, PagesFinite DEF Runs, Tails
<1>6. CASE start + count <= total_pages
  <2>1. start \in Runs(count)
    <3>1. ASSUME start \in Tails PROVE \A j \in start .. start + count - 1 : free_pages[j]
      <4>1. start .. start + count - 1 \subseteq start .. total_pages - 1
        BY <1>5, <1>6, PagesFinite
      <4> QED
        BY <3>1, <4>1 DEF Tails
    <3> QED
      BY <1>4, <1>5, <1>6, <3>1 DEF Runs
  <2> HIDE DEF start
  <2>2. run \subseteq Pages
    BY <1>5, <1>6, PagesFinite DEF Pages
  <2>3. run \subseteq Free
    BY <2>1, <2>2 DEF Runs, Free
  <2>4. Cardinality(run) = count
    BY <1>1, <1>5, FS_Interval
  <2> HIDE DEF run
  <2>5. AllocGood' /\ Free' = Free \ run
    BY <1>1, <1>6, <2>3, <2>4, TakePages
  <2> QED
    BY <1>1, <1>5, <1>6, <2>3, <2>5 DEF run, start
<1>7. CASE ~(start + count <= total_pages)
  <2>1. panicked' = TRUE /\ free_pages' \in [Pages -> BOOLEAN] /\ UNCHANGED <<free_count, owned>>
    BY <1>1, <1>2, <1>7
  <2> QED
    BY <1>2, <2>1 DEF AllocGood, AllocTypeOK, FreeCountExact
<1> QED
  BY <1>6, <1>7

(* deallocate_frame gives back a page of the allocator that is in use.     *)
LEMMA DeallocateStep ==
  ASSUME AllocGood, ~panicked, NEW f \in Nat, DeallocateFrame(f)
  PROVE  /\ AllocGood' /\ panicked' = panicked
         /\ Free' = Free \cup ({f} \cap Pages) /\ owned' = owned \ {f}
<1>1. /\ free_pages \in [Pages -> BOOLEAN] /\ panicked \in BOOLEAN
      /\ free_count = Cardinality(Free) /\ owned = Pages \ Free
  BY DEF AllocGood, AllocTypeOK, FreeCountExact
<1>2. f < total_pages <=> f \in Pages
  BY PagesFinite DEF Pages
<1>3. CASE f \in Pages /\ ~free_pages[f]
  <2>1. /\ free_pages' = [free_pages EXCEPT ![f] = TRUE] /\ free_count' = free_count + 1
        /\ owned' = owned \ {f} /\ panicked' = panicked
    BY <1>2, <1>3 DEF DeallocateFrame
  <2>2. free_pages' \in [Pages -> BOOLEAN] /\ Free' = Free \cup {f} /\ f \notin Free
    BY <1>1, <1>3, <2>1 DEF Free
  <2>3. /\ Cardinality(Free \cup {f}) = Cardinality(Free) + 1
        /\ Cardinality(Free \cup {f}) <= total_pages
    <3>1. Cardinality(Free \cup {f}) = Cardinality(Free) + 1
      BY <2>2, FreeFinite, FS_AddElement
    <3>2. Free \cup {f} \in SUBSET Pages
      BY <1>3, FreeFinite
    <3> QED
      BY <3>1, <3>2, PagesFinite, FS_Subset
  <2>4. free_count' = Cardinality(Free') /\ free_count' \in 0 .. total_pages
    BY <1>1, <2>1, <2>2, <2>3, FreeFinite, PagesFinite
  <2>5. owned' = Pages \ Free'
    BY <1>1, <2>1, <2>2
  <2>6. AllocTypeOK'
    BY <1>1, <2>1, <2>2, <2>4, <2>5 DEF AllocTypeOK
  <2> QED
    BY <1>3, <2>1, <2>2, <2>4, <2>5, <2>6 DEF AllocGood, FreeCountExact
<1>4. CASE f \notin Pages \/ free_pages[f]
  <2>1. UNCHANGED allocVars
    BY <1>2, <1>4 DEF DeallocateFrame
  <2>2. Free' = Free /\ AllocGood'
    BY <2>1 DEF allocVars, Free, AllocGood, AllocTypeOK, FreeCountExact
  <2>3. {f} \cap Pages \subseteq Free /\ f \notin owned
    BY <1>1, <1>4 DEF Free
  <2> QED
    BY <2>1, <2>2, <2>3 DEF allocVars
<1> QED
  BY <1>3, <1>4

-----------------------------------------------------------------------------
(***************************************************************************)
(* Types of the manager.                                                   *)
(***************************************************************************)
AreaRec  == [start : VPages, end : 1 .. LastPage + 1, flags : SUBSET Flags,
             area_type : {"KernelData", "Heap", "Stack"}]
EntryRec == [frame : FrameValues, flags : SUBSET Flags]
CallRec  == [op : {"Heap", "Stack"}, base : VPages, pages : Nat, done : Nat, first : Pages]

VmTypes ==
  /\ AllocGood
  /\ entries \in [VPages -> EntryRec]
  /\ \A v \in VPages : entries[v].frame = -1 => entries[v] = Unused
  /\ tables \subseteq UNION {Path(v) : v \in VPages}
  /\ table_frames \subseteq Pages
  /\ vmas \in Seq(AreaRec)
  /\ call # NoCall => /\ call \in CallRec
                      /\ call.base + call.pages <= LastPage + 1
                      /\ call.done < call.pages
                      /\ call.first + call.pages <= total_pages
  /\ failed \in BOOLEAN

LEMMA Constants ==
  /\ LastPage \in Nat /\ VPages \subseteq Nat
  /\ STACK_END \in Nat /\ STACK_PAGES \in Nat /\ STACK_PAGES > 0 /\ MaxRequest \in Nat
  /\ FrameValues \subseteq Int /\ MAX_PAGES \in Nat /\ MAX_PAGES \notin Pages
  /\ -1 \notin Pages /\ -1 \notin MapFrames /\ MAX_PAGES # -1
<1>1. /\ STACK_END \in VPages /\ STACK_PAGES \in Nat \ {0} /\ MaxRequest \in Nat
      /\ MapFrames \subseteq Nat /\ MAX_PAGES \in Nat /\ LastPage \in Nat
  BY VirtualMemoryConstants, PhysAllocatorConstants
<1>2. VPages \subseteq Nat
  BY DEF VPages
<1>3. MAX_PAGES \notin Pages /\ -1 \notin Pages /\ Pages \subseteq Nat
  BY <1>1, PagesFinite DEF Pages
<1> QED
  BY <1>1, <1>2, <1>3 DEF FrameValues

(* What retain leaves of a sequence are its elements at the indices to     *)
(* keep.                                                                   *)
LEMMA RetainEffect ==
  ASSUME NEW S, NEW seq \in Seq(S), NEW keep, keep \subseteq DOMAIN seq
  PROVE  /\ Retain(seq, keep) \in Seq(S)
         /\ \A k \in DOMAIN Retain(seq, keep) : \E i \in keep : Retain(seq, keep)[k] = seq[i]
<1> DEFINE n == Cardinality(keep)
           pick(k) == CHOOSE i \in keep : Cardinality({j \in keep : j < i}) = k - 1
<1>1. /\ Len(seq) \in Nat /\ DOMAIN seq = 1 .. Len(seq)
      /\ \A i \in 1 .. Len(seq) : seq[i] \in S
  BY LenProperties, ElementOfSeq
<1>2. keep \in SUBSET (1 .. Len(seq)) /\ keep \subseteq Nat /\ IsFiniteSet(keep)
  <2>1. IsFiniteSet(1 .. Len(seq))
    BY <1>1, FS_Interval
  <2> QED
    BY <1>1, <2>1, FS_Subset
<1>3. n \in Nat /\ \A m \in 0 .. n - 1 : \E i \in keep : Rank(keep, i) = m
  BY <1>2, RankBijection
<1>4. ASSUME NEW k \in 1 .. n PROVE pick(k) \in keep
  <2>1. \E i \in keep : Rank(keep, i) = k - 1
    BY <1>3
  <2> QED
    BY <2>1 DEF Rank
<1>5. Retain(seq, keep) = [k \in 1 .. n |-> seq[pick(k)]]
  BY DEF Retain
<1> HIDE DEF n, pick
<1>6. \A k \in 1 .. n : seq[pick(k)] \in S
  BY <1>1, <1>2, <1>4
<1>7. Retain(seq, keep) \in [1 .. n -> S]
  BY <1>5, <1>6
<1>8. Retain(seq, keep) \in Seq(S)
  BY <1>3, <1>7, SeqDef
<1> QED
  BY <1>4, <1>5, <1>8

(* The last of the recorded heap areas ends inside the address space.      *)
LEMMA HeapStart ==
  ASSUME vmas \in Seq(AreaRec)
  PROVE  heap_start \in 0 .. LastPage + 1
<1> DEFINE heap == {i \in DOMAIN vmas : vmas[i].area_type = "Heap"}
<1>1. /\ Len(vmas) \in Nat /\ DOMAIN vmas = 1 .. Len(vmas)
      /\ \A i \in 1 .. Len(vmas) : vmas[i] \in AreaRec
  BY LenProperties, ElementOfSeq
<1>2. HEAP_START \in 0 .. LastPage + 1
  BY VirtualMemoryConstants, Constants DEF VPages
<1>3. ASSUME heap # {} PROVE vmas[Highest(heap)].end \in 0 .. LastPage + 1
  <2>1. heap \in SUBSET (1 .. Len(vmas)) /\ heap \subseteq Nat /\ IsFiniteSet(heap)
    <3>1. IsFiniteSet(1 .. Len(vmas))
      BY <1>1, FS_Interval
    <3> QED
      BY <1>1, <3>1, FS_Subset
  <2> HIDE DEF heap
  <2>2. /\ Cardinality(heap) \in Nat /\ Cardinality(heap) # 0
        /\ \A i \in heap : Rank(heap, i) \in 0 .. Cardinality(heap) - 1
        /\ \A i, j \in heap : i < j => Rank(heap, i) < Rank(heap, j)
        /\ \A m \in 0 .. Cardinality(heap) - 1 : \E i \in heap : Rank(heap, i) = m
    BY <1>3, <2>1, RankBijection, FS_EmptySet
  <2>3. PICK i \in heap : Rank(heap, i) = Cardinality(heap) - 1
    <3>1. Cardinality(heap) - 1 \in 0 .. Cardinality(heap) - 1
      BY <2>2
    <3> QED
      BY <2>2, <3>1
  <2>4. ASSUME NEW j \in heap PROVE j <= i
    <3>1. i \in Nat /\ j \in Nat /\ Rank(heap, j) \in 0 .. Cardinality(heap) - 1
      BY <2>1, <2>2
    <3>2. ~(i < j)
      <4>1. i < j => Rank(heap, i) < Rank(heap, j)
        BY <2>2
      <4> QED
        BY <2>2, <2>3, <3>1, <4>1
    <3> QED
      BY <3>1, <3>2
  <2>5. Highest(heap) \in heap
    BY <2>4 DEF Highest
  <2>6. vmas[Highest(heap)] \in AreaRec
    BY <1>1, <2>1, <2>5
  <2> QED
    BY <2>6, Constants DEF AreaRec
<1> QED
  BY <1>2, <1>3 DEF heap_start

(* map_to takes the tables it needs from the free pages, as many as there  *)
(* are, and writes the entry only if it was unused.                        *)
LEMMA CreatedRange ==
  ASSUME AllocGood, NEW v \in VPages
  PROVE  Created(v) \in 0 .. free_count
<1>1. free_count \in Nat
  BY PagesFinite DEF AllocGood, AllocTypeOK
<1>2. IsFiniteSet(Path(v))
  <2> DEFINE f == [l \in 1 .. Levels |-> <<l, v \div TableSize ^ l>>]
  <2>1. IsFiniteSet(1 .. Levels)
    BY VirtualMemoryConstants, FS_Interval
  <2>2. f \in Surjection(1 .. Levels, Path(v))
    BY DEF Path, Surjection
  <2> QED
    BY <2>1, <2>2, FS_Surjection
<1>3. Cardinality(Missing(v)) \in Nat
  <2>1. Missing(v) \in SUBSET Path(v)
    BY DEF Missing
  <2> QED
    BY <1>2, <2>1, FS_Subset, FS_CardinalityType
<1> QED
  BY <1>1, <1>3 DEF Created

(* The entry has the flags that are passed on, and, unless it is 0, the    *)
(* frame.                                                                  *)
LEMMA EntryOf ==
  ASSUME NEW frame \in FrameValues \ {-1}, NEW flags \in SUBSET Flags
  PROVE  /\ Entry(frame, flags) \in EntryRec
         /\ Entry(frame, flags).flags = flags_to_x86(flags)
         /\ Entry(frame, flags).frame \in {-1, frame}
         /\ Entry(frame, flags).frame = -1 => Entry(frame, flags) = Unused
         /\ frame # 0 \/ flags_to_x86(flags) # {} =>
              Entry(frame, flags) # Unused /\ Entry(frame, flags).frame = frame
<1> DEFINE passed == flags_to_x86(flags)
           entry == [frame |-> frame, flags |-> passed]
<1>1. passed \in SUBSET Flags
  BY DEF flags_to_x86
<1> HIDE DEF passed
<1>2. entry \in EntryRec /\ entry.frame = frame /\ entry.flags = passed
  BY <1>1 DEF EntryRec
<1>3. Unused.frame = -1 /\ Unused.flags = {} /\ Unused \in EntryRec
  BY DEF Unused, EntryRec, FrameValues
<1>4. Entry(frame, flags) = IF frame = 0 /\ passed = {} THEN Unused ELSE entry
  BY DEF Entry, passed
<1> HIDE DEF entry
<1>5. flags_to_x86(flags) = passed
  BY DEF passed
<1>6. frame # -1
  OBVIOUS
<1> QED
  BY <1>2, <1>3, <1>4, <1>5, <1>6

LEMMA MapToStep ==
  ASSUME VmTypes, ~panicked, NEW v \in VPages,
         NEW frame \in FrameValues \ {-1}, NEW flags \in SUBSET Flags,
         MapTo(v, frame, flags)
  PROVE  /\ AllocGood' /\ panicked' = panicked
         /\ LowestFree(Created(v)) \subseteq Free
         /\ owned' = owned \cup LowestFree(Created(v))
         /\ table_frames' = table_frames \cup LowestFree(Created(v))
         /\ table_frames' \subseteq Pages
         /\ tables' \subseteq UNION {Path(w) : w \in VPages}
         /\ entries' \in [VPages -> EntryRec]
         /\ \A w \in VPages : entries'[w].frame = -1 => entries'[w] = Unused
         /\ \A w \in VPages : w # v => entries'[w] = entries[w]
         /\ IF MapSucceeds(v)
              THEN /\ entries[v] = Unused /\ entries'[v].flags = flags_to_x86(flags)
                   /\ entries'[v].frame \in {-1, frame}
                   /\ flags_to_x86(flags) # {} =>
                        entries'[v] # Unused /\ entries'[v].frame = frame
              ELSE entries' = entries
<1> DEFINE new == LowestFree(Created(v))
           entry == Entry(frame, flags)
<1>1. AllocGood /\ Created(v) \in 0 .. free_count
  BY CreatedRange DEF VmTypes
<1>2. AllocateFrame(Created(v)) /\ table_frames' = table_frames \cup new
  BY DEF MapTo
<1>3. /\ AllocGood' /\ panicked' = panicked /\ new \subseteq Free /\ owned' = owned \cup new
  BY <1>1, <1>2, AllocateFrameStep
<1>4. table_frames' \subseteq Pages
  BY <1>2, <1>3, FreeFinite DEF VmTypes
<1>5. tables' \subseteq UNION {Path(w) : w \in VPages}
  <2>1. Missing(v) \subseteq UNION {Path(w) : w \in VPages}
    BY DEF Missing
  <2>2. tables' \subseteq tables \cup Missing(v)
    BY DEF MapTo
  <2> QED
    BY <2>1, <2>2 DEF VmTypes
<1>6. /\ entry \in EntryRec /\ (entry.frame = -1 => entry = Unused)
      /\ entry.flags = flags_to_x86(flags) /\ entry.frame \in {-1, frame}
      /\ flags_to_x86(flags) # {} => entry # Unused /\ entry.frame = frame
  BY EntryOf
<1>7. entries' = IF MapSucceeds(v) THEN [entries EXCEPT ![v] = entry] ELSE entries
  BY DEF MapTo
<1>8. MapSucceeds(v) => entries[v] = Unused
  BY DEF MapSucceeds
<1>9. /\ entries \in [VPages -> EntryRec]
      /\ \A w \in VPages : entries[w].frame = -1 => entries[w] = Unused
  BY DEF VmTypes
<1> HIDE DEF entry, new
<1>10. /\ entries' \in [VPages -> EntryRec]
       /\ \A w \in VPages : w # v => entries'[w] = entries[w]
       /\ entries'[v] = IF MapSucceeds(v) THEN entry ELSE entries[v]
  BY <1>6, <1>7, <1>9
<1>11. \A w \in VPages : entries'[w].frame = -1 => entries'[w] = Unused
  BY <1>6, <1>9, <1>10
<1> QED
  BY <1>2, <1>3, <1>4, <1>5, <1>6, <1>7, <1>8, <1>10, <1>11 DEF new

(* The page and the frame of the next turn of a mapping loop.              *)
LEMMA CallPage ==
  ASSUME VmTypes, call # NoCall
  PROVE  /\ call \in CallRec /\ call.base + call.done \in VPages
         /\ call.first + call.done \in Pages /\ call.first + call.done \in FrameValues \ {-1}
         /\ CallFlags \in SUBSET Flags /\ "PRESENT" \in flags_to_x86(CallFlags)
         /\ CallArea \in AreaRec
<1>1. /\ call \in CallRec /\ call.base + call.pages <= LastPage + 1 /\ call.done < call.pages
      /\ call.first + call.pages <= total_pages
  BY DEF VmTypes
<1>2. /\ call.base \in 0 .. LastPage /\ call.pages \in Nat /\ call.done \in Nat
      /\ call.first \in 0 .. total_pages - 1 /\ call.op \in {"Heap", "Stack"}
      /\ LastPage \in Nat /\ total_pages \in Nat
  BY <1>1, Constants, PagesFinite DEF CallRec, VPages, Pages
<1>3. call.base + call.done \in VPages
  BY <1>1, <1>2 DEF VPages
<1>4. call.first + call.done \in Pages
  BY <1>1, <1>2 DEF Pages
<1>5. call.base + call.pages \in 1 .. LastPage + 1
  BY <1>1, <1>2
<1>6. CallFlags \in SUBSET Flags /\ "PRESENT" \in flags_to_x86(CallFlags)
  BY DEF CallFlags, HeapFlags, Flags, flags_to_x86
<1>7. CallArea \in AreaRec
  BY <1>1, <1>2, <1>5, <1>6 DEF CallArea, Area, AreaRec, CallRec
<1> QED
  BY <1>1, <1>3, <1>4, <1>6, <1>7, Constants DEF FrameValues

(* A request for a heap or a stack: a run of free pages, or a panic.       *)
LEMMA RequestStep ==
  ASSUME VmTypes, NEW op \in {"Heap", "Stack"}, NEW base \in Nat, NEW pages \in Nat,
         base + pages <= LastPage + 1, AllocateAndMap(op, base, pages)
  PROVE  /\ VmTypes' /\ Executing /\ call = NoCall
         /\ UNCHANGED <<entries, tables, table_frames, vmas, failed>>
         /\ panicked' => call' = NoCall /\ owned' = owned
         /\ ~panicked' => /\ call' # NoCall /\ CallFrames' \subseteq Free
                          /\ owned' = owned \cup CallFrames'
                          /\ call'.done = 0
<1> DEFINE start == StartIdx(pages)
           run == start .. start + pages - 1
           new == [op |-> op, base |-> base, pages |-> pages, done |-> 0, first |-> start]
<1>1. /\ Executing /\ call = NoCall /\ AllocateFrames(pages)
      /\ call' = IF panicked' THEN NoCall ELSE new
      /\ UNCHANGED <<entries, tables, table_frames, vmas, failed>>
  BY DEF AllocateAndMap
<1>2. AllocGood /\ ~panicked
  BY <1>1 DEF VmTypes, Executing
<1>3. /\ AllocGood'
      /\ ~panicked' => /\ run \subseteq Free /\ Free' = Free \ run /\ owned' = owned \cup run
                       /\ pages > 0 /\ start \in Pages /\ start + pages <= total_pages
  BY <1>1, <1>2, AllocateFramesStep
<1>4. panicked' => owned' = owned
  BY <1>1, <1>2 DEF AllocateFrames
<1> HIDE DEF start
<1>5. ASSUME ~panicked'
      PROVE  /\ new \in CallRec /\ new # NoCall
             /\ new.base = base /\ new.pages = pages /\ new.done = 0 /\ new.first = start
    <2>1. base \in VPages
      BY <1>3, <1>5, Constants DEF VPages
    <2> QED
      BY <1>3, <1>5, <2>1 DEF CallRec, NoCall
<1> HIDE DEF new
<1>6. ASSUME ~panicked' PROVE call' # NoCall /\ CallFrames' = run /\ call'.done = 0
  <2>1. call' = new /\ start \in Nat
    BY <1>1, <1>3, <1>6, PagesFinite
  <2>2. new.first + new.done = start /\ new.first + new.pages - 1 = start + pages - 1
    BY <1>5, <1>6, <2>1
  <2> QED
    BY <1>5, <1>6, <2>1, <2>2 DEF CallFrames
<1>7. VmTypes'
  <2>1. call' # NoCall => /\ call' \in CallRec /\ call'.base + call'.pages <= LastPage + 1
                          /\ call'.done < call'.pages
                          /\ call'.first + call'.pages <= total_pages
    BY <1>1, <1>3, <1>5
  <2> QED
    BY <1>1, <1>3, <2>1 DEF VmTypes
<1> QED
  BY <1>1, <1>3, <1>4, <1>6, <1>7

(* map: the entry and its tables, and at most one more area.               *)
LEMMA MapStep ==
  ASSUME VmTypes, NEW v \in MapPages, NEW aligned \in BOOLEAN, NEW frame \in MapFrames,
         NEW flags \in MapFlags, map(v, aligned, frame, flags)
  PROVE  /\ VmTypes' /\ Executing /\ call = NoCall /\ call' = NoCall
         /\ v \in VPages /\ frame \in FrameValues \ {-1} /\ flags \in SUBSET Flags
         /\ MapTo(v, frame, flags) /\ failed' = failed
         /\ IF MapSucceeds(v) /\ ~aligned
              THEN vmas' = Append(vmas, Area(v, v + 1, flags, "KernelData")) ELSE vmas' = vmas
<1>1. /\ Executing /\ call = NoCall /\ MapTo(v, frame, flags)
      /\ vmas' = IF MapSucceeds(v) /\ ~aligned
                   THEN Append(vmas, Area(v, v + 1, flags, "KernelData")) ELSE vmas
      /\ call' = call /\ failed' = failed
  BY DEF map
<1>2. v \in VPages /\ flags \in SUBSET Flags
  BY VirtualMemoryConstants
<1>3. frame \in FrameValues \ {-1}
  BY Constants DEF FrameValues
<1>4. ~panicked
  BY <1>1 DEF Executing
<1>5. /\ AllocGood' /\ table_frames' \subseteq Pages
      /\ tables' \subseteq UNION {Path(w) : w \in VPages} /\ entries' \in [VPages -> EntryRec]
      /\ \A w \in VPages : entries'[w].frame = -1 => entries'[w] = Unused
  BY <1>1, <1>2, <1>3, <1>4, MapToStep
<1>6. vmas' \in Seq(AreaRec)
  <2>1. v + 1 \in 1 .. LastPage + 1
    BY <1>2, Constants DEF VPages
  <2>2. Area(v, v + 1, flags, "KernelData") \in AreaRec
    BY <1>2, <2>1 DEF Area, AreaRec
  <2>3. vmas \in Seq(AreaRec)
    BY DEF VmTypes
  <2> QED
    BY <1>1, <2>2, <2>3, AppendProperties
<1>7. VmTypes'
  BY <1>1, <1>5, <1>6 DEF VmTypes
<1> QED
  BY <1>1, <1>2, <1>3, <1>7

(* A turn of the mapping loop: the next page and frame of the call, which  *)
(* then moves on, records its area, or is given up.                        *)
LEMMA MapNextStep ==
  ASSUME VmTypes, MapNext
  PROVE  LET v == call.base + call.done
             frame == call.first + call.done
         IN  /\ VmTypes' /\ Executing /\ call # NoCall /\ MapTo(v, frame, CallFlags)
             /\ \/ /\ ~MapSucceeds(v) /\ call' = NoCall /\ failed' = TRUE /\ vmas' = vmas
                \/ /\ MapSucceeds(v) /\ failed' = failed
                   /\ call.done + 1 < call.pages /\ vmas' = vmas
                   /\ call' = [call EXCEPT !.done = @ + 1]
                   /\ call' # NoCall /\ call' \in CallRec
                   /\ call'.op = call.op /\ call'.base = call.base /\ call'.first = call.first
                   /\ call'.pages = call.pages /\ call'.done = call.done + 1
                \/ /\ MapSucceeds(v) /\ failed' = failed
                   /\ call.done + 1 = call.pages /\ call' = NoCall
                   /\ vmas' = Append(vmas, CallArea)
<1> DEFINE v == call.base + call.done
           frame == call.first + call.done
           moved == [call EXCEPT !.done = @ + 1]
<1>1. /\ Executing /\ call # NoCall /\ MapTo(v, frame, CallFlags)
      /\ IF ~MapSucceeds(v)
           THEN call' = NoCall /\ failed' = TRUE /\ UNCHANGED vmas
           ELSE /\ UNCHANGED failed
                /\ IF call.done + 1 < call.pages
                     THEN call' = moved /\ UNCHANGED vmas
                     ELSE call' = NoCall /\ vmas' = Append(vmas, CallArea)
  BY DEF MapNext
<1>2. /\ call \in CallRec /\ v \in VPages /\ frame \in FrameValues \ {-1}
      /\ CallFlags \in SUBSET Flags /\ CallArea \in AreaRec
  BY <1>1, CallPage
<1>3. /\ call.done < call.pages /\ call.base + call.pages <= LastPage + 1
      /\ call.first + call.pages <= total_pages /\ vmas \in Seq(AreaRec) /\ failed \in BOOLEAN
  BY <1>1 DEF VmTypes
<1>4. ~panicked
  BY <1>1 DEF Executing
<1>5. /\ AllocGood' /\ table_frames' \subseteq Pages
      /\ tables' \subseteq UNION {Path(w) : w \in VPages} /\ entries' \in [VPages -> EntryRec]
      /\ \A w \in VPages : entries'[w].frame = -1 => entries'[w] = Unused
  BY <1>1, <1>2, <1>4, MapToStep
<1>6. call.done \in Nat /\ call.pages \in Nat
  BY <1>2 DEF CallRec
<1>7. /\ moved \in CallRec /\ moved # NoCall
      /\ moved.op = call.op /\ moved.base = call.base /\ moved.first = call.first
      /\ moved.pages = call.pages /\ moved.done = call.done + 1
  <2>1. call.done + 1 \in Nat
    BY <1>6
  <2>2. /\ moved \in CallRec /\ moved.op = call.op /\ moved.base = call.base
        /\ moved.first = call.first /\ moved.pages = call.pages /\ moved.done = call.done + 1
    BY <1>2, <2>1 DEF CallRec
  <2>3. moved.op \in {"Heap", "Stack"} /\ NoCall.op = "none"
    BY <2>2 DEF CallRec, NoCall
  <2> QED
    BY <2>2, <2>3
<1> HIDE DEF moved
<1>8. CASE ~MapSucceeds(v)
  <2>1. VmTypes'
    BY <1>1, <1>3, <1>5, <1>8 DEF VmTypes
  <2> QED
    BY <1>1, <1>8, <2>1
<1>9. CASE MapSucceeds(v) /\ call.done + 1 < call.pages
  <2>1. call' = moved /\ failed' = failed /\ vmas' = vmas
    BY <1>1, <1>9
  <2>2. VmTypes'
    BY <1>3, <1>5, <1>7, <1>9, <2>1 DEF VmTypes
  <2> QED
    BY <1>1, <1>7, <1>9, <2>1, <2>2 DEF moved
<1>10. CASE MapSucceeds(v) /\ ~(call.done + 1 < call.pages)
  <2>1. call' = NoCall /\ failed' = failed /\ vmas' = Append(vmas, CallArea)
    BY <1>1, <1>10
  <2>2. vmas' \in Seq(AreaRec)
    BY <1>2, <1>3, <2>1, AppendProperties
  <2>3. VmTypes'
    BY <1>3, <1>5, <2>1, <2>2 DEF VmTypes
  <2>4. call.done + 1 = call.pages
    BY <1>3, <1>6, <1>10
  <2> QED
    BY <1>1, <1>10, <2>1, <2>3, <2>4
<1> QED
  BY <1>8, <1>9, <1>10

(* unmap: one entry less, its frame given back, and every area with the    *)
(* page forgotten.                                                         *)
LEMMA UnmapStep ==
  ASSUME VmTypes, NEW v \in VPages, unmap(v)
  PROVE  /\ VmTypes' /\ Executing /\ call = NoCall /\ call' = NoCall
         /\ UNCHANGED <<tables, table_frames, failed, panicked>>
         /\ entries[v] # Unused /\ entries'[v] = Unused
         /\ \A w \in VPages : w # v => entries'[w] = entries[w]
         /\ owned' = owned \ {entries[v].frame}
         /\ \A k \in DOMAIN vmas' :
              \E i \in DOMAIN vmas : vmas'[k] = vmas[i] /\ ~contains(vmas[i], v)
<1> DEFINE keep == {i \in DOMAIN vmas : ~contains(vmas[i], v)}
           frame == entries[v].frame
<1>0. Unused.flags = {}
  BY DEF Unused
<1>1. /\ Executing /\ call = NoCall /\ entries[v] # Unused
      /\ entries' = [entries EXCEPT ![v] = Unused] /\ DeallocateFrame(frame)
      /\ vmas' = Retain(vmas, keep) /\ UNCHANGED <<tables, table_frames, call, failed>>
  BY <1>0 DEF unmap
<1>2. /\ AllocGood /\ ~panicked /\ entries \in [VPages -> EntryRec]
      /\ \A w \in VPages : entries[w].frame = -1 => entries[w] = Unused
      /\ vmas \in Seq(AreaRec)
  BY <1>1 DEF VmTypes, Executing
<1>3. frame \in Nat
  <2>1. entries[v].frame \in FrameValues /\ entries[v].frame # -1
    BY <1>1, <1>2 DEF EntryRec
  <2>2. FrameValues \ {-1} \subseteq Nat
    BY PagesFinite, Constants, VirtualMemoryConstants DEF FrameValues
  <2> QED
    BY <2>1, <2>2
<1>4. AllocGood' /\ panicked' = panicked /\ owned' = owned \ {frame}
  BY <1>1, <1>2, <1>3, DeallocateStep
<1>5. /\ vmas' \in Seq(AreaRec)
      /\ \A k \in DOMAIN vmas' :
           \E i \in DOMAIN vmas : vmas'[k] = vmas[i] /\ ~contains(vmas[i], v)
  <2>1. keep \subseteq DOMAIN vmas
    OBVIOUS
  <2> HIDE DEF keep
  <2>2. /\ Retain(vmas, keep) \in Seq(AreaRec)
        /\ \A k \in DOMAIN Retain(vmas, keep) : \E i \in keep : Retain(vmas, keep)[k] = vmas[i]
    BY <1>2, <2>1, RetainEffect
  <2> QED
    BY <1>1, <2>2 DEF keep
<1>6. /\ entries' \in [VPages -> EntryRec] /\ entries'[v] = Unused
      /\ \A w \in VPages : w # v => entries'[w] = entries[w]
  <2>1. Unused \in EntryRec
    BY DEF Unused, EntryRec, FrameValues
  <2> QED
    BY <1>1, <1>2, <2>1
<1>7. \A w \in VPages : entries'[w].frame = -1 => entries'[w] = Unused
  BY <1>2, <1>6
<1>8. VmTypes'
  BY <1>1, <1>4, <1>5, <1>6, <1>7 DEF VmTypes
<1> QED
  BY <1>1, <1>4, <1>5, <1>6, <1>8

(* create_process_page_table: one page for an empty root.                  *)
LEMMA CreateStep ==
  ASSUME VmTypes, create_process_page_table
  PROVE  /\ VmTypes' /\ Executing /\ ~Executing' /\ call = NoCall /\ call' = NoCall
         /\ \A v \in VPages : entries'[v] = Unused
         /\ LowestFree(1) \subseteq Free /\ owned' = owned \cup LowestFree(1)
         /\ table_frames' = table_frames \cup LowestFree(1)
<1>1. /\ Executing /\ call = NoCall /\ free_count > 0 /\ AllocateFrame(1)
      /\ entries' = [v \in VPages |-> Unused] /\ tables' = {}
      /\ table_frames' = table_frames \cup LowestFree(1) /\ UNCHANGED <<vmas, call, failed>>
  BY DEF create_process_page_table
<1>2. AllocGood /\ ~panicked /\ 1 \in 0 .. free_count
  BY <1>1, PagesFinite DEF VmTypes, Executing, AllocGood, AllocTypeOK
<1>3. AllocGood' /\ LowestFree(1) \subseteq Free /\ owned' = owned \cup LowestFree(1)
  BY <1>1, <1>2, AllocateFrameStep
<1>4. table_frames' \subseteq Pages
  BY <1>1, <1>3, FreeFinite DEF VmTypes
<1>5. /\ entries' \in [VPages -> EntryRec]
      /\ \A w \in VPages : entries'[w] = Unused
  <2>1. Unused \in EntryRec
    BY DEF Unused, EntryRec, FrameValues
  <2> QED
    BY <1>1, <2>1
<1>6. ~Executing'
  <2>1. PICK w : w \in KernelPages
    BY VirtualMemoryConstants
  <2>2. w \in VPages
    BY <2>1, VirtualMemoryConstants
  <2> QED
    BY <1>5, <2>1, <2>2 DEF Executing
<1>7. VmTypes'
  BY <1>1, <1>3, <1>4, <1>5 DEF VmTypes
<1> QED
  BY <1>1, <1>3, <1>5, <1>6, <1>7

(* A request for a heap or for a stack stays inside the address space.     *)
LEMMA AllocateStep ==
  ASSUME VmTypes, NEW n \in 0 .. MaxRequest, allocate_heap(n) \/ allocate_stack(n)
  PROVE  \E op \in {"Heap", "Stack"}, base \in Nat, pages \in Nat :
           base + pages <= LastPage + 1 /\ AllocateAndMap(op, base, pages)
<1>0. n \in Nat /\ n <= MaxRequest /\ MaxRequest \in Nat
  BY Constants
<1>1. CASE allocate_heap(n)
  <2>1. heap_start + n <= LastPage + 1 /\ AllocateAndMap("Heap", heap_start, n)
    BY <1>1 DEF allocate_heap
  <2>2. heap_start \in Nat
    BY HeapStart, Constants DEF VmTypes
  <2> QED
    BY <1>0, <2>1, <2>2
<1>2. CASE allocate_stack(n)
  <2> DEFINE pages == IF n > STACK_PAGES THEN n ELSE STACK_PAGES
  <2>1. AllocateAndMap("Stack", STACK_END - pages, pages)
    BY <1>2 DEF allocate_stack
  <2>2. /\ STACK_END - STACK_PAGES \in 0 .. LastPage /\ STACK_END - MaxRequest \in 0 .. LastPage
        /\ STACK_END \in 0 .. LastPage /\ STACK_PAGES \in Nat /\ LastPage \in Nat
    BY VirtualMemoryConstants DEF VPages
  <2>3. pages \in Nat /\ STACK_END - pages \in Nat /\ STACK_END - pages + pages <= LastPage + 1
    BY <1>0, <2>2
  <2> HIDE DEF pages
  <2> QED
    BY <2>1, <2>3
<1> QED
  BY <1>1, <1>2

LEMMA VmTypesInit == Init => VmTypes
<1> SUFFICES ASSUME Init PROVE VmTypes
  OBVIOUS
<1>1. AllocGood
  <2>1. /\ free_pages = [i \in Pages |-> TRUE] /\ free_count = total_pages
        /\ panicked = FALSE /\ owned = {}
    BY DEF Init, AllocInit
  <2>2. Free = Pages
    BY <2>1 DEF Free
  <2>3. free_pages \in [Pages -> BOOLEAN] /\ panicked \in BOOLEAN
    BY <2>1
  <2>4. free_count \in 0 .. total_pages
    BY <2>1, PagesFinite
  <2>5. free_count = Cardinality(Free) /\ owned = Pages \ Free
    BY <2>1, <2>2, PagesFinite
  <2> QED
    BY <2>1, <2>3, <2>4, <2>5 DEF AllocGood, AllocTypeOK, FreeCountExact
<1>2. /\ entries \in [VPages -> EntryRec]
      /\ \A v \in VPages : entries[v].frame = -1 => entries[v] = Unused
  <2>1. BootEntry \in EntryRec /\ BootEntry.frame # -1 /\ Unused \in EntryRec
    <3>1. {"PRESENT", "WRITABLE"} \in SUBSET Flags /\ {} \in SUBSET Flags
      BY DEF Flags
    <3>2. {-1, MAX_PAGES} \subseteq FrameValues
      BY DEF FrameValues
    <3> QED
      BY <3>1, <3>2, Constants DEF BootEntry, Unused, EntryRec
  <2>2. entries = [v \in VPages |-> IF v \in KernelPages THEN BootEntry ELSE Unused]
    BY DEF Init
  <2> QED
    BY <2>1, <2>2
<1>3. tables \subseteq UNION {Path(v) : v \in VPages}
  <2>1. KernelPages \subseteq VPages /\ tables = UNION {Path(v) : v \in KernelPages}
    BY VirtualMemoryConstants DEF Init
  <2> QED
    BY <2>1
<1>4. table_frames \subseteq Pages /\ call = NoCall /\ failed \in BOOLEAN
  BY DEF Init
<1>5. vmas \in Seq(AreaRec)
  BY EmptySeq DEF Init
<1> QED
  BY <1>1, <1>2, <1>3, <1>4, <1>5 DEF VmTypes

LEMMA VmTypesStep == VmTypes /\ [Next]_vars => VmTypes'
<1> SUFFICES ASSUME VmTypes, [Next]_vars PROVE VmTypes'
  OBVIOUS
<1>1. ASSUME NEW v \in MapPages, NEW aligned \in BOOLEAN, NEW frame \in MapFrames,
             NEW flags \in MapFlags, map(v, aligned, frame, flags)
      PROVE  VmTypes'
  BY <1>1, MapStep
<1>2. ASSUME NEW n \in 0 .. MaxRequest, allocate_heap(n) \/ allocate_stack(n) PROVE VmTypes'
  BY <1>2, AllocateStep, RequestStep
<1>3. CASE MapNext
  BY <1>3, MapNextStep
<1>4. ASSUME NEW v \in VPages, unmap(v) PROVE VmTypes'
  BY <1>4, UnmapStep
<1>5. CASE create_process_page_table
  BY <1>5, CreateStep
<1>6. CASE UNCHANGED vars
  <2>1. /\ entries' = entries /\ tables' = tables /\ table_frames' = table_frames
        /\ vmas' = vmas /\ call' = call /\ failed' = failed /\ UNCHANGED allocVars
    BY <1>6 DEF vars, vmVars
  <2>2. AllocGood <=> AllocGood'
    BY <2>1 DEF allocVars, AllocGood, AllocTypeOK, FreeCountExact, Free
  <2> QED
    BY <2>1, <2>2 DEF VmTypes
<1> QED
  BY <1>1, <1>2, <1>3, <1>4, <1>5, <1>6 DEF Next

(* The types of the manager and of the allocator: free_count stays between *)
(* 0 and the number of pages although unmap also hands it frames that were *)
(* never the allocator's, and the mapping loops stay inside the address    *)
(* space and inside the run of frames they were given.                     *)
THEOREM TypeCorrect == Spec => []TypeOK
<1>1. VmTypes => TypeOK
  <2> SUFFICES ASSUME VmTypes PROVE TypeOK
    OBVIOUS
  <2>1. AllocTypeOK /\ entries \in [VPages -> [frame : FrameValues, flags : SUBSET Flags]]
    BY DEF VmTypes, AllocGood, EntryRec
  <2>2. \A i \in DOMAIN vmas : vmas[i] \in AreaRec
    BY LenProperties, ElementOfSeq DEF VmTypes
  <2>3. call # NoCall =>
          /\ call.op \in {"Heap", "Stack"} /\ call.base \in VPages
          /\ call.base + call.pages <= LastPage + 1 /\ call.done \in 0 .. call.pages - 1
          /\ call.first \in Pages /\ call.first + call.pages <= total_pages
    BY DEF VmTypes, CallRec
  <2> QED
    BY <2>1, <2>2, <2>3 DEF TypeOK, VmTypes, AreaRec
<1> QED
  BY <1>1, VmTypesInit, VmTypesStep, PTL DEF Spec

(* The allocator's counter is the number of free pages, and the pages in   *)
(* use are those handed out and not given back.                            *)
THEOREM CounterCorrect == Spec => []FreeCountExact
<1>1. VmTypes => FreeCountExact
  BY DEF VmTypes, AllocGood
<1> QED
  BY <1>1, VmTypesInit, VmTypesStep, PTL DEF Spec

-----------------------------------------------------------------------------
(***************************************************************************)
(* Frames.  As long as callers of map name frames outside the allocator,   *)
(* every frame of the allocator has one use.                               *)
(***************************************************************************)
Exclusive ==
  /\ \A v, w \in VPages :
       entries[v].frame \in Pages /\ entries[v].frame = entries[w].frame => v = w
  /\ MappedFrames \cap table_frames = {}
  /\ CallFrames \cap (MappedFrames \cup table_frames) = {}
  /\ MappedFrames \cup table_frames \cup CallFrames \subseteq owned

(* The frames of the call under way are the next one and those after it.   *)
LEMMA CallFramesNext ==
  ASSUME VmTypes, call # NoCall
  PROVE  /\ CallFrames = call.first + call.done .. call.first + call.pages - 1
         /\ CallFrames = {call.first + call.done}
                          \cup (call.first + call.done + 1 .. call.first + call.pages - 1)
         /\ CallFrames \subseteq Pages
<1>1. /\ call.first \in 0 .. total_pages - 1 /\ call.done \in Nat /\ call.pages \in Nat
      /\ call.done < call.pages /\ call.first + call.pages <= total_pages /\ total_pages \in Nat
  BY PagesFinite DEF VmTypes, CallRec, Pages
<1>2. CallFrames = call.first + call.done .. call.first + call.pages - 1
  BY DEF CallFrames
<1>3. \A lo, hi \in Int : lo <= hi => lo .. hi = {lo} \cup (lo + 1 .. hi)
  OBVIOUS
<1>4. /\ call.first + call.done \in Int /\ call.first + call.pages - 1 \in Int
      /\ call.first + call.done <= call.first + call.pages - 1
  BY <1>1
<1>5. call.first + call.done .. call.first + call.pages - 1 \subseteq 0 .. total_pages - 1
  BY <1>1
<1> QED
  BY <1>2, <1>3, <1>4, <1>5 DEF Pages

(* map_to gives the page a frame that nobody uses; its tables are new.     *)
LEMMA MapToFrames ==
  ASSUME VmTypes, ~panicked, NEW v \in VPages,
         NEW frame \in FrameValues \ {-1}, NEW flags \in SUBSET Flags,
         MapTo(v, frame, flags), frame \notin Pages \/ flags_to_x86(flags) # {}
  PROVE  MappedFrames' = MappedFrames \cup (IF MapSucceeds(v) THEN {frame} \cap Pages ELSE {})
<1>1. /\ \A w \in VPages : w # v => entries'[w] = entries[w]
      /\ IF MapSucceeds(v)
           THEN /\ entries[v] = Unused /\ entries'[v].frame \in {-1, frame}
                /\ flags_to_x86(flags) # {} => entries'[v].frame = frame
           ELSE entries' = entries
  BY MapToStep
<1>2. Unused.frame \notin Pages /\ -1 \notin Pages
  BY Constants DEF Unused
<1>3. CASE MapSucceeds(v)
  <2>2. {entries'[v].frame} \cap Pages = {frame} \cap Pages
    BY <1>1, <1>2, <1>3
  <2>1. {entries'[w].frame : w \in VPages} \cap Pages
          = ({entries[w].frame : w \in VPages} \cap Pages) \cup ({frame} \cap Pages)
    BY <1>1, <1>2, <1>3, <2>2
  <2> QED
    BY <1>3, <2>1 DEF MappedFrames
<1>4. CASE ~MapSucceeds(v)
  BY <1>1, <1>4 DEF MappedFrames
<1> QED
  BY <1>3, <1>4

(* unmap takes the frame of the page from the mapped ones, and it was no   *)
(* page table.                                                             *)
LEMMA UnmapFrames ==
  ASSUME VmTypes, Exclusive, NEW v \in VPages, unmap(v)
  PROVE  /\ MappedFrames' = MappedFrames \ {entries[v].frame}
         /\ entries[v].frame \notin table_frames
<1>1. /\ entries'[v] = Unused /\ \A w \in VPages : w # v => entries'[w] = entries[w]
  BY UnmapStep
<1>2. Unused.frame \notin Pages
  BY Constants DEF Unused
<1>3. {entries'[w].frame : w \in VPages} \cap Pages
        = ({entries[w].frame : w \in VPages} \cap Pages) \ {entries[v].frame}
  BY <1>1, <1>2 DEF Exclusive
<1>4. entries[v].frame \in Pages => entries[v].frame \in MappedFrames
  BY DEF MappedFrames
<1> QED
  BY <1>3, <1>4 DEF MappedFrames, Exclusive, VmTypes

LEMMA ExclusiveStep ==
  ASSUME MapFrames \cap Pages = {}
  PROVE  VmTypes /\ Exclusive /\ [Next]_vars => Exclusive'
<1> SUFFICES ASSUME VmTypes, Exclusive, [Next]_vars PROVE Exclusive'
  OBVIOUS
<1>0. ~panicked => Free \cap owned = {}
  BY DEF VmTypes, AllocGood, FreeCountExact
<1>1. ASSUME NEW v \in MapPages, NEW aligned \in BOOLEAN, NEW frame \in MapFrames,
             NEW flags \in MapFlags, map(v, aligned, frame, flags)
      PROVE  Exclusive'
  <2> DEFINE new == LowestFree(Created(v))
  <2>1. /\ Executing /\ call = NoCall /\ call' = NoCall
        /\ v \in VPages /\ frame \in FrameValues \ {-1} /\ flags \in SUBSET Flags
        /\ MapTo(v, frame, flags)
    BY <1>1, MapStep
  <2>2. ~panicked /\ frame \notin Pages
    BY <2>1 DEF Executing
  <2>3. /\ new \subseteq Free /\ owned' = owned \cup new
        /\ table_frames' = table_frames \cup new
        /\ \A w \in VPages : w # v => entries'[w] = entries[w]
        /\ entries'[v] = entries[v] \/ entries'[v].frame \in {-1, frame}
    BY <2>1, <2>2, MapToStep
  <2>4. MappedFrames' = MappedFrames
    BY <2>1, <2>2, MapToFrames
  <2> HIDE DEF new
  <2>5. CallFrames = {} /\ CallFrames' = {}
    BY <2>1 DEF CallFrames
  <2>6. \A w, x \in VPages :
          entries'[w].frame \in Pages /\ entries'[w].frame = entries'[x].frame => w = x
    <3>1. -1 \notin Pages
      BY Constants
    <3> QED
      BY <2>2, <2>3, <3>1 DEF Exclusive
  <2> QED
    BY <1>0, <2>2, <2>3, <2>4, <2>5, <2>6 DEF Exclusive
<1>2. ASSUME NEW n \in 0 .. MaxRequest, allocate_heap(n) \/ allocate_stack(n) PROVE Exclusive'
  <2>1. /\ Executing /\ call = NoCall
        /\ UNCHANGED <<entries, tables, table_frames, vmas, failed>>
        /\ panicked' => call' = NoCall /\ owned' = owned
        /\ ~panicked' => /\ call' # NoCall /\ CallFrames' \subseteq Free
                         /\ owned' = owned \cup CallFrames'
    BY <1>2, AllocateStep, RequestStep
  <2>2. ~panicked /\ MappedFrames' = MappedFrames /\ CallFrames = {}
    BY <2>1 DEF Executing, MappedFrames, CallFrames
  <2>3. panicked' => CallFrames' = {}
    BY <2>1 DEF CallFrames
  <2> QED
    BY <1>0, <2>1, <2>2, <2>3 DEF Exclusive
<1>3. CASE MapNext
  <2> DEFINE v == call.base + call.done
             frame == call.first + call.done
             new == LowestFree(Created(v))
  <2>1. /\ Executing /\ call # NoCall /\ MapTo(v, frame, CallFlags)
        /\ \/ ~MapSucceeds(v) /\ call' = NoCall
           \/ /\ MapSucceeds(v) /\ call' # NoCall
              /\ call'.first = call.first
              /\ call'.pages = call.pages /\ call'.done = call.done + 1
           \/ MapSucceeds(v) /\ call' = NoCall
    BY <1>3, MapNextStep
  <2>2. /\ v \in VPages /\ frame \in FrameValues \ {-1} /\ CallFlags \in SUBSET Flags
        /\ frame \in Pages /\ flags_to_x86(CallFlags) # {}
    BY <2>1, CallPage
  <2>3. ~panicked
    BY <2>1 DEF Executing
  <2>4. /\ new \subseteq Free /\ owned' = owned \cup new
        /\ table_frames' = table_frames \cup new
        /\ \A w \in VPages : w # v => entries'[w] = entries[w]
        /\ IF MapSucceeds(v) THEN entries'[v].frame = frame ELSE entries' = entries
    BY <2>1, <2>2, <2>3, MapToStep
  <2>5. MappedFrames' = MappedFrames \cup (IF MapSucceeds(v) THEN {frame} ELSE {})
    BY <2>1, <2>2, <2>3, MapToFrames
  <2>6. /\ frame \in CallFrames
        /\ CallFrames' \subseteq CallFrames
        /\ MapSucceeds(v) => frame \notin CallFrames'
    <3>1. /\ CallFrames = {call.first + call.done}
                            \cup (call.first + call.done + 1 .. call.first + call.pages - 1)
          /\ CallFrames = call.first + call.done .. call.first + call.pages - 1
      BY <2>1, CallFramesNext
    <3>2. call.first \in Nat /\ call.done \in Nat /\ call.pages \in Nat
      BY <2>1, PagesFinite DEF VmTypes, CallRec
    <3>3. call' # NoCall => CallFrames' = call.first + (call.done + 1) .. call.first + call.pages - 1
      BY <2>1 DEF CallFrames
    <3>4. call' = NoCall => CallFrames' = {}
      BY DEF CallFrames
    <3>5. call.first + (call.done + 1) = call.first + call.done + 1
      BY <3>2
    <3>6. frame \notin call.first + call.done + 1 .. call.first + call.pages - 1
      BY <3>2
    <3> QED
      BY <2>1, <3>1, <3>3, <3>4, <3>5, <3>6
  <2> HIDE DEF new, v, frame
  <2>7. \A w \in VPages : entries[w].frame \in Pages => entries[w].frame \in MappedFrames
    BY DEF MappedFrames
  <2>8. frame \notin MappedFrames /\ frame \in owned
    BY <2>6 DEF Exclusive
  <2>9. \A w, x \in VPages :
          entries'[w].frame \in Pages /\ entries'[w].frame = entries'[x].frame => w = x
    BY <2>2, <2>4, <2>7, <2>8 DEF Exclusive
  <2> QED
    BY <1>0, <2>3, <2>4, <2>5, <2>6, <2>8, <2>9 DEF Exclusive
<1>4. ASSUME NEW v \in VPages, unmap(v) PROVE Exclusive'
  <2>1. /\ call = NoCall /\ call' = NoCall /\ table_frames' = table_frames
        /\ entries[v] # Unused /\ entries'[v] = Unused
        /\ \A w \in VPages : w # v => entries'[w] = entries[w]
        /\ owned' = owned \ {entries[v].frame}
    BY <1>4, UnmapStep
  <2>2. CallFrames = {} /\ CallFrames' = {}
    BY <2>1 DEF CallFrames
  <2>3. Unused.frame \notin Pages
    BY Constants DEF Unused
  <2>4. /\ MappedFrames' = MappedFrames \ {entries[v].frame}
        /\ entries[v].frame \notin table_frames
    BY <1>4, UnmapFrames
  <2>6. \A w, x \in VPages :
          entries'[w].frame \in Pages /\ entries'[w].frame = entries'[x].frame => w = x
    BY <2>1, <2>3 DEF Exclusive
  <2> QED
    BY <2>1, <2>2, <2>4, <2>6 DEF Exclusive
<1>5. CASE create_process_page_table
  <2>1. /\ Executing /\ call' = NoCall /\ \A v \in VPages : entries'[v] = Unused
        /\ LowestFree(1) \subseteq Free /\ owned' = owned \cup LowestFree(1)
        /\ table_frames' = table_frames \cup LowestFree(1)
    BY <1>5, CreateStep
  <2>2. Unused.frame \notin Pages
    BY Constants DEF Unused
  <2>3. MappedFrames' = {} /\ CallFrames' = {}
    BY <2>1, <2>2 DEF MappedFrames, CallFrames
  <2> QED
    BY <2>1, <2>2, <2>3 DEF Exclusive
<1>6. CASE UNCHANGED vars
  BY <1>6 DEF vars, vmVars, allocVars, Exclusive, MappedFrames, CallFrames
<1> QED
  BY <1>1, <1>2, <1>3, <1>4, <1>5, <1>6 DEF Next

LEMMA ExclusiveInit == Init => Exclusive
<1> SUFFICES ASSUME Init PROVE Exclusive
  OBVIOUS
<1>1. \A v \in VPages : entries[v].frame \notin Pages
  <2>1. BootEntry.frame \notin Pages /\ Unused.frame \notin Pages
    BY Constants DEF BootEntry, Unused
  <2>2. entries = [v \in VPages |-> IF v \in KernelPages THEN BootEntry ELSE Unused]
    BY DEF Init
  <2> QED
    BY <2>1, <2>2
<1>2. MappedFrames = {} /\ table_frames = {} /\ CallFrames = {}
  BY <1>1 DEF MappedFrames, CallFrames, Init
<1> QED
  BY <1>1, <1>2 DEF Exclusive

(* No frame of the allocator serves two pages, or a page and a page table, *)
(* and none in use is free, however calls of map, unmap, allocate_heap,    *)
(* allocate_stack and create_process_page_table follow each other, as long *)
(* as callers of map name frames outside the allocator.                    *)
THEOREM FramesNeverShared == Spec => []FramesExclusive
<1>1. CASE MapFrames \cap Pages = {}
  <2>1. VmTypes /\ Exclusive /\ [Next]_vars => Exclusive'
    BY <1>1, ExclusiveStep
  <2>2. Exclusive => FramesExclusive
    BY DEF Exclusive, FramesExclusive
  <2> QED
    BY <2>1, <2>2, VmTypesInit, VmTypesStep, ExclusiveInit, PTL DEF Spec
<1>2. CASE ~(MapFrames \cap Pages = {})
  <2>1. FramesExclusive
    BY <1>2 DEF FramesExclusive
  <2> QED
    BY <2>1, PTL
<1> QED
  BY <1>1, <1>2

LEMMA LeakStep ==
  ASSUME MapFrames \cap Pages = {}
  PROVE  VmTypes /\ Exclusive /\ LeakOnlyOnFailure /\ [Next]_vars => LeakOnlyOnFailure'
<1> SUFFICES ASSUME VmTypes, Exclusive, LeakOnlyOnFailure, [Next]_vars, Executing', ~failed'
             PROVE  owned' = MappedFrames' \cup table_frames' \cup CallFrames'
  BY DEF LeakOnlyOnFailure
<1> DEFINE Goal == owned' = MappedFrames' \cup table_frames' \cup CallFrames'
<1>0. Executing /\ ~failed => owned = MappedFrames \cup table_frames \cup CallFrames
  BY DEF LeakOnlyOnFailure
<1>1. ASSUME NEW v \in MapPages, NEW aligned \in BOOLEAN, NEW frame \in MapFrames,
             NEW flags \in MapFlags, map(v, aligned, frame, flags)
      PROVE  Goal
  <2>1. /\ Executing /\ failed' = failed /\ call = NoCall /\ call' = NoCall
        /\ v \in VPages /\ frame \in FrameValues \ {-1} /\ flags \in SUBSET Flags
        /\ MapTo(v, frame, flags)
    BY <1>1, MapStep
  <2>2. ~panicked /\ frame \notin Pages /\ CallFrames = {} /\ CallFrames' = {}
    BY <2>1 DEF Executing, CallFrames
  <2>3. /\ owned' = owned \cup LowestFree(Created(v))
        /\ table_frames' = table_frames \cup LowestFree(Created(v))
    BY <2>1, <2>2, MapToStep
  <2>4. MappedFrames' = MappedFrames
    BY <2>1, <2>2, MapToFrames
  <2> QED
    BY <1>0, <2>1, <2>2, <2>3, <2>4
<1>2. ASSUME NEW n \in 0 .. MaxRequest, allocate_heap(n) \/ allocate_stack(n) PROVE Goal
  <2>1. /\ Executing /\ call = NoCall
        /\ UNCHANGED <<entries, tables, table_frames, vmas, failed>>
        /\ ~panicked' => owned' = owned \cup CallFrames'
    BY <1>2, AllocateStep, RequestStep
  <2>2. ~panicked' /\ MappedFrames' = MappedFrames /\ CallFrames = {}
    BY <2>1 DEF Executing, MappedFrames, CallFrames
  <2> QED
    BY <1>0, <2>1, <2>2
<1>3. CASE MapNext
  <2> DEFINE v == call.base + call.done
             frame == call.first + call.done
             new == LowestFree(Created(v))
  <2>1. /\ Executing /\ call # NoCall /\ MapTo(v, frame, CallFlags)
        /\ MapSucceeds(v) /\ failed' = failed
        /\ \/ /\ call.done + 1 < call.pages /\ call' # NoCall
              /\ call'.first = call.first
              /\ call'.pages = call.pages /\ call'.done = call.done + 1
           \/ call.done + 1 = call.pages /\ call' = NoCall
    BY <1>3, MapNextStep
  <2>2. /\ v \in VPages /\ frame \in FrameValues \ {-1} /\ CallFlags \in SUBSET Flags
        /\ frame \in Pages /\ flags_to_x86(CallFlags) # {}
    BY <2>1, CallPage
  <2>3. ~panicked
    BY <2>1 DEF Executing
  <2>4. owned' = owned \cup new /\ table_frames' = table_frames \cup new
    BY <2>1, <2>2, <2>3, MapToStep
  <2>5. MappedFrames' = MappedFrames \cup {frame}
    BY <2>1, <2>2, <2>3, MapToFrames
  <2>6. CallFrames = {frame} \cup CallFrames'
    <3>1. CallFrames = {call.first + call.done}
                         \cup (call.first + call.done + 1 .. call.first + call.pages - 1)
      BY <2>1, CallFramesNext
    <3>2. call.first \in Nat /\ call.done \in Nat /\ call.pages \in Nat
      BY <2>1, PagesFinite DEF VmTypes, CallRec
    <3>3. call' # NoCall => CallFrames' = call.first + (call.done + 1) .. call.first + call.pages - 1
      BY <2>1 DEF CallFrames
    <3>4. call' = NoCall => CallFrames' = {} /\ call.done + 1 = call.pages
      BY <2>1 DEF CallFrames
    <3>5. call.first + (call.done + 1) = call.first + call.done + 1
      BY <3>2
    <3>6. call.done + 1 = call.pages =>
            call.first + call.done + 1 .. call.first + call.pages - 1 = {}
      BY <3>2
    <3> QED
      BY <2>1, <3>1, <3>3, <3>4, <3>5, <3>6
  <2> HIDE DEF new, v, frame
  <2> QED
    BY <1>0, <2>1, <2>4, <2>5, <2>6
<1>4. ASSUME NEW v \in VPages, unmap(v) PROVE Goal
  <2>1. /\ Executing /\ call = NoCall /\ call' = NoCall /\ table_frames' = table_frames
        /\ failed' = failed /\ owned' = owned \ {entries[v].frame}
    BY <1>4, UnmapStep
  <2>2. CallFrames = {} /\ CallFrames' = {}
    BY <2>1 DEF CallFrames
  <2>3. /\ MappedFrames' = MappedFrames \ {entries[v].frame}
        /\ entries[v].frame \notin table_frames
    BY <1>4, UnmapFrames
  <2> QED
    BY <1>0, <2>1, <2>2, <2>3
<1>5. CASE create_process_page_table
  BY <1>5, CreateStep
<1>6. CASE UNCHANGED vars
  <2>1. /\ Executing /\ ~failed /\ owned' = owned /\ table_frames' = table_frames
        /\ MappedFrames' = MappedFrames /\ CallFrames' = CallFrames
    BY <1>6 DEF vars, vmVars, allocVars, MappedFrames, CallFrames, Executing
  <2> QED
    BY <1>0, <2>1
<1> QED
  BY <1>1, <1>2, <1>3, <1>4, <1>5, <1>6 DEF Next

(* Until a mapping loop returns early, every page in use is mapped, is a   *)
(* page table, or is about to be mapped: the early return of allocate_heap *)
(* and allocate_stack is the only place where the kernel loses memory.     *)
THEOREM LeaksOnlyOnFailure ==
  ASSUME MapFrames \cap Pages = {}
  PROVE  Spec => []LeakOnlyOnFailure
<1>1. Init => LeakOnlyOnFailure
  <2> SUFFICES ASSUME Init PROVE LeakOnlyOnFailure
    OBVIOUS
  <2>1. Exclusive /\ owned = {} /\ table_frames = {}
    BY ExclusiveInit DEF Init, AllocInit
  <2>2. MappedFrames = {} /\ CallFrames = {}
    BY <2>1 DEF Exclusive
  <2> QED
    BY <2>1, <2>2 DEF LeakOnlyOnFailure
<1>2. VmTypes /\ Exclusive /\ [Next]_vars => Exclusive'
  BY ExclusiveStep
<1>3. VmTypes /\ Exclusive /\ LeakOnlyOnFailure /\ [Next]_vars => LeakOnlyOnFailure'
  BY LeakStep
<1> QED
  BY <1>1, <1>2, <1>3, VmTypesInit, VmTypesStep, ExclusiveInit, PTL DEF Spec

-----------------------------------------------------------------------------
(***************************************************************************)
(* Areas.  Every page of a recorded area is mapped with the flags of that  *)
(* area, unless it has none, and so is every page the call under way has   *)
(* done.                                                                   *)
(***************************************************************************)
AreaMapped(vma) ==
  flags_to_x86(vma.flags) # {} =>
    \A v \in VPages : contains(vma, v) =>
      entries[v] # Unused /\ entries[v].flags = flags_to_x86(vma.flags)

CallMapped ==
  call # NoCall =>
    \A v \in VPages : call.base <= v /\ v < call.base + call.done =>
      entries[v] # Unused /\ entries[v].flags = flags_to_x86(CallFlags)

AccessInv == Executing => (\A i \in DOMAIN vmas : AreaMapped(vmas[i])) /\ CallMapped

(* The same of the page table after a step.                                *)
NowMapped(vma) ==
  flags_to_x86(vma.flags) # {} =>
    \A v \in VPages : contains(vma, v) =>
      entries'[v] # Unused /\ entries'[v].flags = flags_to_x86(vma.flags)

(* map_to disturbs no page that is mapped.                                 *)
LEMMA MapToKeeps ==
  ASSUME VmTypes, ~panicked, NEW v \in VPages,
         NEW frame \in FrameValues \ {-1}, NEW flags \in SUBSET Flags,
         MapTo(v, frame, flags)
  PROVE  /\ \A w \in VPages : entries[w] # Unused => entries'[w] = entries[w]
         /\ \A vma : AreaMapped(vma) => NowMapped(vma)
         /\ MapSucceeds(v) /\ flags_to_x86(flags) # {} =>
              entries'[v] # Unused /\ entries'[v].flags = flags_to_x86(flags)
<1>1. /\ \A w \in VPages : w # v => entries'[w] = entries[w]
      /\ IF MapSucceeds(v)
           THEN /\ entries[v] = Unused /\ entries'[v].flags = flags_to_x86(flags)
                /\ flags_to_x86(flags) # {} => entries'[v] # Unused
           ELSE entries' = entries
  BY MapToStep
<1>2. \A w \in VPages : entries[w] # Unused => entries'[w] = entries[w]
  BY <1>1
<1> QED
  BY <1>1, <1>2 DEF AreaMapped, NowMapped

LEMMA AppendMapped ==
  ASSUME vmas \in Seq(AreaRec), NEW area \in AreaRec, vmas' = Append(vmas, area),
         \A i \in DOMAIN vmas : NowMapped(vmas[i]), NowMapped(area)
  PROVE  \A i \in DOMAIN vmas' : NowMapped(vmas'[i])
<1>1. /\ Len(vmas) \in Nat /\ DOMAIN vmas = 1 .. Len(vmas)
      /\ DOMAIN vmas' = 1 .. Len(vmas) + 1
      /\ \A i \in 1 .. Len(vmas) : vmas'[i] = vmas[i]
      /\ vmas'[Len(vmas) + 1] = area
  BY LenProperties, AppendProperties
<1>2. \A i \in 1 .. Len(vmas) + 1 : i \in 1 .. Len(vmas) \/ i = Len(vmas) + 1
  BY <1>1
<1> QED
  BY <1>1, <1>2

LEMMA AccessInit == Init => AccessInv
  BY DEF Init, AccessInv, CallMapped

LEMMA AccessStep == VmTypes /\ AccessInv /\ [Next]_vars => AccessInv'
<1> SUFFICES ASSUME VmTypes, AccessInv, [Next]_vars, Executing'
             PROVE  (\A i \in DOMAIN vmas' : NowMapped(vmas'[i])) /\ CallMapped'
  BY DEF AccessInv, AreaMapped, NowMapped
<1> DEFINE Goal == (\A i \in DOMAIN vmas' : NowMapped(vmas'[i])) /\ CallMapped'
<1>0. /\ Executing => (\A i \in DOMAIN vmas : AreaMapped(vmas[i])) /\ CallMapped
      /\ vmas \in Seq(AreaRec)
  BY DEF AccessInv, VmTypes
<1>1. ASSUME NEW v \in MapPages, NEW aligned \in BOOLEAN, NEW frame \in MapFrames,
             NEW flags \in MapFlags, map(v, aligned, frame, flags)
      PROVE  Goal
  <2> DEFINE area == Area(v, v + 1, flags, "KernelData")
  <2>1. /\ Executing /\ call' = NoCall
        /\ v \in VPages /\ frame \in FrameValues \ {-1} /\ flags \in SUBSET Flags
        /\ MapTo(v, frame, flags)
        /\ IF MapSucceeds(v) /\ ~aligned
             THEN vmas' = Append(vmas, area) ELSE vmas' = vmas
    BY <1>1, MapStep
  <2>2. ~panicked
    BY <2>1 DEF Executing
  <2>3. /\ \A vma : AreaMapped(vma) => NowMapped(vma)
        /\ MapSucceeds(v) /\ flags_to_x86(flags) # {} =>
             entries'[v] # Unused /\ entries'[v].flags = flags_to_x86(flags)
    BY <2>1, <2>2, MapToKeeps
  <2>4. \A i \in DOMAIN vmas : NowMapped(vmas[i])
    BY <1>0, <2>1, <2>3
  <2>5. area \in AreaRec /\ area.start = v /\ area.end = v + 1 /\ area.flags = flags
    <3>1. v + 1 \in 1 .. LastPage + 1
      BY <2>1, Constants DEF VPages
    <3> QED
      BY <2>1, <3>1 DEF Area, AreaRec
  <2> HIDE DEF area
  <2>6. MapSucceeds(v) => NowMapped(area)
    <3>1. \A w \in VPages : contains(area, w) => w = v
      BY <2>1, <2>5, Constants DEF contains
    <3> QED
      BY <2>1, <2>3, <2>5, <3>1 DEF NowMapped
  <2>7. \A i \in DOMAIN vmas' : NowMapped(vmas'[i])
    BY <1>0, <2>1, <2>4, <2>5, <2>6, AppendMapped
  <2> QED
    BY <2>1, <2>7 DEF CallMapped
<1>2. ASSUME NEW n \in 0 .. MaxRequest, allocate_heap(n) \/ allocate_stack(n) PROVE Goal
  <2>1. /\ VmTypes' /\ Executing /\ entries' = entries /\ vmas' = vmas
        /\ call' # NoCall => call'.done = 0
    BY <1>2, AllocateStep, RequestStep
  <2>2. \A i \in DOMAIN vmas' : NowMapped(vmas'[i])
    BY <1>0, <2>1 DEF AreaMapped, NowMapped
  <2>3. CallMapped'
    <3>1. call' # NoCall => \A v \in VPages : ~(call'.base <= v /\ v < call'.base + call'.done)
      <4>1. call' # NoCall => call'.base \in Nat
        BY <2>1, Constants DEF VmTypes, CallRec
      <4> QED
        BY <2>1, <4>1, Constants
    <3> QED
      BY <3>1 DEF CallMapped
  <2> QED
    BY <2>2, <2>3
<1>3. CASE MapNext
  <2> DEFINE v == call.base + call.done
             frame == call.first + call.done
  <2>1. /\ Executing /\ call # NoCall /\ MapTo(v, frame, CallFlags)
        /\ \/ call' = NoCall /\ vmas' = vmas
           \/ /\ MapSucceeds(v) /\ vmas' = vmas
              /\ call'.op = call.op /\ call'.base = call.base /\ call'.done = call.done + 1
           \/ /\ MapSucceeds(v) /\ call.done + 1 = call.pages
              /\ call' = NoCall /\ vmas' = Append(vmas, CallArea)
    BY <1>3, MapNextStep
  <2>2. /\ v \in VPages /\ frame \in FrameValues \ {-1} /\ CallFlags \in SUBSET Flags
        /\ CallArea \in AreaRec /\ flags_to_x86(CallFlags) # {}
        /\ call.base \in Nat /\ call.done \in Nat /\ call.pages \in Nat
    BY <2>1, CallPage, Constants DEF CallRec
  <2>3. ~panicked
    BY <2>1 DEF Executing
  <2>4. /\ \A w \in VPages : entries[w] # Unused => entries'[w] = entries[w]
        /\ \A vma : AreaMapped(vma) => NowMapped(vma)
        /\ MapSucceeds(v) => entries'[v] # Unused /\ entries'[v].flags = flags_to_x86(CallFlags)
    BY <2>1, <2>2, <2>3, MapToKeeps
  <2>5. \A i \in DOMAIN vmas : NowMapped(vmas[i])
    BY <1>0, <2>1, <2>4
  <2>6. ASSUME MapSucceeds(v), NEW w \in VPages, call.base <= w, w < call.base + (call.done + 1)
        PROVE  entries'[w] # Unused /\ entries'[w].flags = flags_to_x86(CallFlags)
    <3>1. CASE w = v
      BY <2>4, <2>6, <3>1
    <3>2. CASE w # v
      <4>1. w < call.base + call.done
        BY <2>2, <2>6, <3>2, Constants
      <4>2. entries[w] # Unused /\ entries[w].flags = flags_to_x86(CallFlags)
        BY <1>0, <2>1, <2>6, <4>1 DEF CallMapped
      <4> QED
        BY <2>4, <4>2
    <3> QED
      BY <3>1, <3>2
  <2> HIDE DEF v, frame
  <2>7. MapSucceeds(v) /\ call.done + 1 = call.pages => NowMapped(CallArea)
    <3>1. /\ CallArea.start = call.base /\ CallArea.end = call.base + call.pages
          /\ CallArea.flags = CallFlags
      BY DEF CallArea, Area
    <3> QED
      BY <2>2, <2>6, <3>1 DEF NowMapped, contains
  <2>8. \A i \in DOMAIN vmas' : NowMapped(vmas'[i])
    BY <1>0, <2>1, <2>2, <2>5, <2>7, AppendMapped
  <2>9. CallMapped'
    <3>1. CASE call' = NoCall
      BY <3>1 DEF CallMapped
    <3>2. CASE call' # NoCall
      <4>1. /\ MapSucceeds(v) /\ call'.op = call.op
            /\ call'.base = call.base /\ call'.done = call.done + 1
        BY <2>1, <3>2
      <4>2. CallFlags' = CallFlags
        BY <4>1 DEF CallFlags
      <4> QED
        BY <2>6, <4>1, <4>2 DEF CallMapped
    <3> QED
      BY <3>1, <3>2
  <2> QED
    BY <2>8, <2>9
<1>4. ASSUME NEW v \in VPages, unmap(v) PROVE Goal
  <2>1. /\ Executing /\ call' = NoCall
        /\ \A w \in VPages : w # v => entries'[w] = entries[w]
        /\ \A k \in DOMAIN vmas' :
             \E i \in DOMAIN vmas : vmas'[k] = vmas[i] /\ ~contains(vmas[i], v)
    BY <1>4, UnmapStep
  <2>2. ASSUME NEW k \in DOMAIN vmas' PROVE NowMapped(vmas'[k])
    <3>1. PICK i \in DOMAIN vmas : vmas'[k] = vmas[i] /\ ~contains(vmas[i], v)
      BY <2>1, <2>2
    <3>2. AreaMapped(vmas[i])
      BY <1>0, <2>1
    <3> QED
      BY <2>1, <3>1, <3>2 DEF AreaMapped, NowMapped
  <2> QED
    BY <2>1, <2>2 DEF CallMapped
<1>5. CASE create_process_page_table
  BY <1>5, CreateStep
<1>6. CASE UNCHANGED vars
  <2>1. entries' = entries /\ vmas' = vmas /\ call' = call /\ Executing /\ CallFlags' = CallFlags
    BY <1>6 DEF vars, vmVars, allocVars, Executing, CallFlags
  <2> QED
    BY <1>0, <2>1 DEF AreaMapped, NowMapped, CallMapped
<1> QED
  BY <1>1, <1>2, <1>3, <1>4, <1>5, <1>6 DEF Next

(* The right that check_access grants on the strength of the recorded      *)
(* areas, the page's entry has, whatever flags callers give to map.        *)
THEOREM AccessGrantedIsMapped == Spec => []AccessSound
<1>1. VmTypes /\ AccessInv => AccessSound
  <2> SUFFICES ASSUME VmTypes, AccessInv, Executing, NEW v \in VPages, NEW write \in BOOLEAN,
                      check_access(v, write)
               PROVE  (IF write THEN "WRITABLE" ELSE "PRESENT") \in entries[v].flags
    BY DEF AccessSound
  <2> DEFINE found == {i \in DOMAIN vmas : contains(vmas[i], v)}
  <2>1. /\ found # {}
        /\ (IF write THEN "WRITABLE" ELSE "PRESENT") \in vmas[Lowest(found)].flags
    BY DEF check_access, HasVma, find_vma
  <2>2. found \subseteq Nat /\ IsFiniteSet(found)
    <3>1. Len(vmas) \in Nat /\ DOMAIN vmas = 1 .. Len(vmas)
      BY LenProperties DEF VmTypes
    <3>2. found \in SUBSET (1 .. Len(vmas)) /\ IsFiniteSet(1 .. Len(vmas))
      BY <3>1, FS_Interval
    <3> QED
      BY <3>2, FS_Subset
  <2>3. Lowest(found) \in found
    <3> HIDE DEF found
    <3> QED
      BY <2>1, <2>2, LowestIsLeast
  <2>4. PICK i \in DOMAIN vmas :
          contains(vmas[i], v) /\ (IF write THEN "WRITABLE" ELSE "PRESENT") \in vmas[i].flags
    BY <2>1, <2>3
  <2>5. (IF write THEN "WRITABLE" ELSE "PRESENT") \in flags_to_x86(vmas[i].flags)
    BY <2>4 DEF flags_to_x86
  <2>6. entries[v].flags = flags_to_x86(vmas[i].flags)
    BY <2>4, <2>5 DEF AccessInv, AreaMapped
  <2> QED
    BY <2>5, <2>6
<1> QED
  BY <1>1, VmTypesInit, VmTypesStep, AccessInit, AccessStep, PTL DEF Spec

-----------------------------------------------------------------------------
(***************************************************************************)
(* The search of allocate_frames.  The loop's states are a recursive       *)
(* function; that it exists, and what it computes, is shown by induction   *)
(* on the number of turns.                                                 *)
(***************************************************************************)
(* Induction up to a bound, from the lowest number outside a set.          *)
LEMMA BoundedInduction ==
  ASSUME NEW N \in Nat, NEW S, 0 \in S, \A i \in 0 .. N - 1 : i \in S => i + 1 \in S
  PROVE  0 .. N \subseteq S
<1> DEFINE bad == {i \in 0 .. N : i \notin S}
<1>1. bad \in SUBSET (0 .. N) /\ bad \subseteq Nat /\ IsFiniteSet(bad)
  <2>1. IsFiniteSet(0 .. N) /\ bad \in SUBSET (0 .. N)
    BY FS_Interval
  <2> QED
    BY <2>1, FS_Subset
<1>2. ASSUME bad # {} PROVE FALSE
  <2> HIDE DEF bad
  <2>1. Lowest(bad) \in bad /\ \A j \in bad : Lowest(bad) <= j
    BY <1>1, <1>2, LowestIsLeast
  <2> DEFINE m == Lowest(bad)
  <2>2. m \in 0 .. N /\ m \notin S
    BY <2>1 DEF bad
  <2> HIDE DEF m
  <2>3. m # 0 /\ m - 1 \in 0 .. N - 1 /\ m - 1 \in 0 .. N /\ ~(m <= m - 1)
    BY <2>2
  <2>4. m - 1 \in S
    BY <2>1, <2>3 DEF bad, m
  <2>5. m - 1 + 1 = m
    BY <2>2
  <2> QED
    BY <2>2, <2>3, <2>4, <2>5
<1> QED
  BY <1>2

(* A turn of the loop, on page i - 1, from the state s.                    *)
LoopTurn(count, s, i) ==
  IF s.done THEN s
  ELSE IF free_pages[i - 1]
    THEN [consecutive |-> s.consecutive + 1,
          start |-> IF s.consecutive = 0 THEN i - 1 ELSE s.start,
          done |-> s.consecutive + 1 = count]
    ELSE [consecutive |-> 0, start |-> -1, done |-> FALSE]

LoopBody(count, f, i) ==
  IF i = 0 THEN [consecutive |-> 0, start |-> -1, done |-> FALSE]
  ELSE LoopTurn(count, f[i - 1], i)

LEMMA LoopUnfolds ==
  ASSUME NEW count
  PROVE  LoopStart(count) =
           (CHOOSE f : f = [i \in 0 .. total_pages |-> LoopBody(count, f, i)])[total_pages].start
  BY DEF LoopStart, LoopBody, LoopTurn

LEMMA LoopExists ==
  ASSUME NEW count
  PROVE  \E f : f = [i \in 0 .. total_pages |-> LoopBody(count, f, i)]
<1> DEFINE N == total_pages
           S == {n \in 0 .. N : \E f : f = [i \in 0 .. n |-> LoopBody(count, f, i)]}
<1>1. N \in Nat
  BY PagesFinite
<1> HIDE DEF N
<1>2. 0 \in S
  <2> DEFINE f == [i \in 0 .. 0 |-> LoopBody(count, <<>>, 0)]
  <2>1. f = [i \in 0 .. 0 |-> LoopBody(count, f, i)]
    BY DEF LoopBody
  <2> QED
    BY <1>1, <2>1
<1>3. ASSUME NEW n \in 0 .. N - 1, n \in S PROVE n + 1 \in S
  <2>1. PICK f : f = [i \in 0 .. n |-> LoopBody(count, f, i)]
    BY <1>3
  <2> DEFINE g == [i \in 0 .. n + 1 |-> IF i = n + 1 THEN LoopBody(count, f, n + 1) ELSE f[i]]
  <2>2. n \in Nat /\ n + 1 \in 0 .. N
    BY <1>1
  <2>3. ASSUME NEW i \in 0 .. n + 1 PROVE g[i] = LoopBody(count, g, i)
    <3>1. i # 0 => i - 1 \in 0 .. n /\ i - 1 # n + 1 /\ i - 1 \in 0 .. n + 1
      BY <2>2
    <3>2. i # 0 => g[i - 1] = f[i - 1]
      BY <3>1
    <3>3. LoopBody(count, g, i) = LoopBody(count, f, i)
      BY <3>2 DEF LoopBody
    <3>4. g[i] = LoopBody(count, f, i)
      <4>1. i # n + 1 => i \in 0 .. n
        BY <2>2
      <4>2. \A j \in 0 .. n : f[j] = LoopBody(count, f, j)
        BY <2>1
      <4> QED
        BY <4>1, <4>2
    <3> QED
      BY <3>3, <3>4
  <2>4. g = [i \in 0 .. n + 1 |-> LoopBody(count, g, i)]
    <3>1. g = [i \in 0 .. n + 1 |-> g[i]]
      OBVIOUS
    <3> HIDE DEF g
    <3> QED
      BY <2>3, <3>1
  <2> QED
    BY <2>2, <2>4
<1>4. 0 .. N \subseteq S
  <2> HIDE DEF S
  <2> QED
    BY <1>1, <1>2, <1>3, BoundedInduction
<1>5. N \in S
  BY <1>1, <1>4
<1> QED
  BY <1>5 DEF N

(* No run of count free pages ends at page i or before.                    *)
NoRun(count, i) ==
  \A r \in Nat : r + count <= i => \E j \in r .. r + count - 1 : ~free_pages[j]

(* The loop's invariant after i pages.  While it goes on, the free run     *)
(* that reaches page i - 1 begins at b and is as long as consecutive says, *)
(* and no run was long enough; when it is done, start is the lowest run.   *)
Looking(count, s, i) ==
  \E b \in 0 .. i :
    /\ ~s.done /\ s.consecutive = i - b /\ s.consecutive < count
    /\ s.start = IF s.consecutive = 0 THEN -1 ELSE b
    /\ \A j \in b .. i - 1 : free_pages[j]
    /\ b = 0 \/ ~free_pages[b - 1]
    /\ NoRun(count, i)

Found(count, s) ==
  s.done /\ s.start \in Runs(count) /\ \A r \in Runs(count) : s.start <= r

LEMMA LookingStep ==
  ASSUME NEW count \in Nat \ {0}, NEW i \in 1 .. total_pages, NEW s, Looking(count, s, i - 1)
  PROVE  LET t == LoopTurn(count, s, i) IN Looking(count, t, i) \/ Found(count, t)
<1> DEFINE N == total_pages
           t == LoopTurn(count, s, i)
<1>1. /\ N \in Nat /\ i \in Nat /\ i - 1 \in Nat /\ i <= N /\ i - 1 < N /\ Pages = 0 .. N - 1
      /\ i - 1 \in Pages
  BY PagesFinite DEF Pages
<1>2. PICK b \in 0 .. i - 1 :
        /\ ~s.done /\ s.consecutive = i - 1 - b /\ s.consecutive < count
        /\ s.start = IF s.consecutive = 0 THEN -1 ELSE b
        /\ \A j \in b .. i - 1 - 1 : free_pages[j]
        /\ b = 0 \/ ~free_pages[b - 1]
        /\ NoRun(count, i - 1)
  BY DEF Looking
<1> HIDE DEF N
<1>3. b \in Nat /\ b <= i - 1
  BY <1>1, <1>2
<1>4. CASE ~free_pages[i - 1]
  <2>1. t = [consecutive |-> 0, start |-> -1, done |-> FALSE]
    BY <1>2, <1>4 DEF LoopTurn
  <2>2. t.consecutive = 0 /\ t.start = -1 /\ ~t.done
    BY <2>1
  <2> HIDE DEF t
  <2>3. NoRun(count, i)
    <3> SUFFICES ASSUME NEW r \in Nat, r + count <= i
                 PROVE  \E j \in r .. r + count - 1 : ~free_pages[j]
      BY DEF NoRun
    <3>1. CASE r + count <= i - 1
      BY <1>2, <3>1 DEF NoRun
    <3>2. CASE ~(r + count <= i - 1)
      <4>1. i - 1 \in r .. r + count - 1
        BY <1>1, <3>2
      <4> QED
        BY <1>4, <4>1
    <3> QED
      BY <3>1, <3>2
  <2>4. i \in 0 .. i /\ i - i = 0 /\ 0 < count /\ (\A j \in i .. i - 1 : free_pages[j])
    BY <1>1
  <2>5. Looking(count, t, i)
    BY <1>4, <2>2, <2>3, <2>4 DEF Looking
  <2> QED
    BY <2>5 DEF t
<1>5. CASE free_pages[i - 1]
  <2>1. t = [consecutive |-> s.consecutive + 1,
             start |-> IF s.consecutive = 0 THEN i - 1 ELSE s.start,
             done |-> s.consecutive + 1 = count]
    BY <1>2, <1>5 DEF LoopTurn
  <2>2. /\ t.consecutive = s.consecutive + 1 /\ (t.done <=> s.consecutive + 1 = count)
        /\ t.start = IF s.consecutive = 0 THEN i - 1 ELSE s.start
    <3> DEFINE enough == s.consecutive + 1 = count
               from == IF s.consecutive = 0 THEN i - 1 ELSE s.start
    <3>1. t = [consecutive |-> s.consecutive + 1, start |-> from, done |-> enough]
      BY <2>1
    <3> HIDE DEF enough, from, t
    <3>2. t.consecutive = s.consecutive + 1 /\ t.start = from /\ t.done = enough
      BY <3>1
    <3> QED
      BY <3>2 DEF enough, from
  <2> HIDE DEF t
  <2>3. t.start = b /\ t.consecutive = i - b /\ t.consecutive # 0 /\ s.consecutive \in Nat
    BY <1>1, <1>2, <1>3, <2>2
  <2>4. \A j \in b .. i - 1 : free_pages[j]
    <3>1. \A j \in b .. i - 1 : j = i - 1 \/ j \in b .. i - 1 - 1
      BY <1>1, <1>3
    <3> QED
      BY <1>2, <1>5, <3>1
  <2>5. CASE s.consecutive + 1 = count
    <3>1. b + count = i /\ b \in Pages /\ b + count - 1 = i - 1
      BY <1>1, <1>2, <1>3, <2>5
    <3>2. b \in Runs(count)
      <4>1. b + count <= total_pages
        BY <1>1, <3>1 DEF N
      <4> QED
        BY <2>4, <3>1, <4>1 DEF Runs
    <3>3. ASSUME NEW r \in Runs(count) PROVE b <= r
      <4>1. r \in Nat /\ \A j \in r .. r + count - 1 : free_pages[j]
        BY <3>3, PagesFinite DEF Runs
      <4>2. ~(r + count <= i - 1)
        BY <1>2, <4>1 DEF NoRun
      <4> QED
        BY <1>1, <1>3, <3>1, <4>1, <4>2
    <3>4. Found(count, t)
      BY <2>2, <2>3, <2>5, <3>2, <3>3 DEF Found
    <3> QED
      BY <3>4 DEF t
  <2>6. CASE s.consecutive + 1 # count
    <3>1. ~t.done /\ t.consecutive < count /\ b \in 0 .. i
      BY <1>1, <1>2, <1>3, <2>2, <2>3, <2>6
    <3>2. NoRun(count, i)
      <4> SUFFICES ASSUME NEW r \in Nat, r + count <= i
                   PROVE  \E j \in r .. r + count - 1 : ~free_pages[j]
        BY DEF NoRun
      <4>1. CASE r + count <= i - 1
        BY <1>2, <4>1 DEF NoRun
      <4>2. CASE ~(r + count <= i - 1)
        <5>1. r + count = i
          BY <1>1, <4>2
        <5>2. r < b
          BY <1>1, <1>2, <1>3, <2>3, <3>1, <5>1
        <5>3. b # 0 /\ b - 1 \in r .. r + count - 1
          BY <1>1, <1>3, <5>1, <5>2
        <5> QED
          BY <1>2, <5>3
      <4> QED
        BY <4>1, <4>2
    <3>3. Looking(count, t, i)
      BY <1>2, <2>3, <2>4, <3>1, <3>2 DEF Looking
    <3> QED
      BY <3>3 DEF t
  <2> QED
    BY <2>5, <2>6
<1> QED
  BY <1>4, <1>5

(* What the loop's last state says is what StartIdx says.                  *)
LEMMA SearchResult ==
  ASSUME NEW count \in Nat \ {0}, NEW s, Looking(count, s, total_pages) \/ Found(count, s)
  PROVE  s.start = StartIdx(count)
<1> DEFINE N == total_pages
<1>1. N \in Nat /\ Pages = 0 .. N - 1
  BY PagesFinite DEF Pages
<1>2. \A S : S \subseteq Pages /\ S # {} => Lowest(S) \in S /\ \A j \in S : Lowest(S) <= j
  BY PagesFinite, FS_Subset, LowestIsLeast
<1>3. Runs(count) \subseteq Pages /\ Tails \subseteq Pages
  BY DEF Runs, Tails
<1>4. CASE Found(count, s)
  <2>1. s.start \in Runs(count) /\ \A r \in Runs(count) : s.start <= r
    BY <1>4 DEF Found
  <2>2. Lowest(Runs(count)) \in Runs(count) /\ \A j \in Runs(count) : Lowest(Runs(count)) <= j
    BY <1>2, <1>3, <2>1
  <2>3. s.start <= Lowest(Runs(count)) /\ Lowest(Runs(count)) <= s.start
    BY <2>1, <2>2
  <2>4. s.start \in Nat /\ Lowest(Runs(count)) \in Nat
    BY <1>3, <2>1, <2>2, PagesFinite
  <2>5. s.start = Lowest(Runs(count))
    BY <2>3, <2>4
  <2> QED
    BY <2>1, <2>5 DEF StartIdx
<1>5. CASE Looking(count, s, total_pages)
  <2>1. PICK b \in 0 .. N :
          /\ s.consecutive = N - b
          /\ s.start = IF s.consecutive = 0 THEN -1 ELSE b
          /\ \A j \in b .. N - 1 : free_pages[j]
          /\ b = 0 \/ ~free_pages[b - 1]
          /\ NoRun(count, N)
    BY <1>5 DEF Looking
  <2>2. Runs(count) = {}
    <3> SUFFICES ASSUME NEW r \in Runs(count) PROVE FALSE
      OBVIOUS
    <3>1. r \in Nat /\ r + count <= N /\ \A j \in r .. r + count - 1 : free_pages[j]
      BY PagesFinite DEF Runs
    <3> QED
      BY <2>1, <3>1 DEF NoRun
  <2> HIDE DEF N
  <2>3. ASSUME NEW x \in Tails PROVE x = b
    <3>1. /\ x \in Nat /\ x <= N - 1 /\ \A j \in x .. N - 1 : free_pages[j]
          /\ x = 0 \/ ~free_pages[x - 1]
      BY <1>1, <2>3 DEF Tails, N
    <3>2. ~(x < b)
      <4>1. x < b => b # 0 /\ b - 1 \in x .. N - 1
        BY <1>1, <3>1
      <4> QED
        BY <2>1, <3>1, <4>1
    <3>3. ~(b < x)
      <4>1. b < x => x # 0 /\ x - 1 \in b .. N - 1
        BY <1>1, <3>1
      <4> QED
        BY <2>1, <3>1, <4>1
    <3> QED
      BY <1>1, <3>1, <3>2, <3>3
  <2>4. CASE b = N
    <3>1. Tails = {}
      <4>1. ~(N \in Pages)
        BY <1>1
      <4> QED
        BY <1>3, <2>3, <2>4, <4>1
    <3>2. s.start = -1
      BY <1>1, <2>1, <2>4
    <3> QED
      BY <2>2, <3>1, <3>2 DEF StartIdx
  <2>5. CASE b # N
    <3>1. b \in Pages /\ s.consecutive # 0 /\ s.start = b
      BY <1>1, <2>1, <2>5
    <3>2. b \in Tails
      BY <2>1, <3>1 DEF Tails, N
    <3>3. Lowest(Tails) = b
      BY <1>2, <1>3, <2>3, <3>2
    <3> QED
      BY <2>2, <3>1, <3>2, <3>3 DEF StartIdx
  <2> QED
    BY <2>4, <2>5
<1> QED
  BY <1>4, <1>5

(* The loop of allocate_frames computes StartIdx on every bitmap and for   *)
(* every count.                                                            *)
LEMMA LoopFindsFirstFit ==
  ASSUME NEW count \in Nat \ {0}
  PROVE  LoopStart(count) = StartIdx(count)
<1> DEFINE N == total_pages
           f == CHOOSE g : g = [i \in 0 .. N |-> LoopBody(count, g, i)]
           S == {i \in 0 .. N : Looking(count, f[i], i) \/ Found(count, f[i])}
<1>1. N \in Nat
  BY PagesFinite
<1>2. f = [i \in 0 .. N |-> LoopBody(count, f, i)]
  BY LoopExists
<1>3. LoopStart(count) = f[N].start
  BY LoopUnfolds
<1> HIDE DEF N, f
<1>4. /\ f[0] = [consecutive |-> 0, start |-> -1, done |-> FALSE]
      /\ \A i \in 1 .. N : f[i] = LoopTurn(count, f[i - 1], i)
  <2>1. \A i \in 0 .. N : f[i] = LoopBody(count, f, i)
    BY <1>2
  <2>2. 0 \in 0 .. N /\ \A i \in 1 .. N : i \in 0 .. N /\ i # 0
    BY <1>1
  <2> QED
    BY <2>1, <2>2 DEF LoopBody
<1>5. 0 \in S
  <2>1. f[0].consecutive = 0 /\ f[0].start = -1 /\ ~f[0].done
    BY <1>4
  <2>2. NoRun(count, 0)
    BY DEF NoRun
  <2>3. 0 \in 0 .. 0 /\ 0 - 0 = 0 /\ 0 < count /\ \A j \in 0 .. 0 - 1 : free_pages[j]
    OBVIOUS
  <2>4. Looking(count, f[0], 0)
    BY <2>1, <2>2, <2>3 DEF Looking
  <2> QED
    BY <1>1, <2>4
<1>6. ASSUME NEW n \in 0 .. N - 1, n \in S PROVE n + 1 \in S
  <2>1. n + 1 \in 1 .. N /\ n + 1 \in 0 .. N /\ n + 1 - 1 = n
    BY <1>1
  <2>2. f[n + 1] = LoopTurn(count, f[n], n + 1)
    BY <1>4, <2>1
  <2>3. CASE Looking(count, f[n], n)
    <3>1. LET t == LoopTurn(count, f[n], n + 1) IN Looking(count, t, n + 1) \/ Found(count, t)
      BY <2>1, <2>3, LookingStep DEF N
    <3> QED
      BY <2>1, <2>2, <3>1
  <2>4. CASE Found(count, f[n])
    <3>1. f[n + 1] = f[n]
      BY <2>2, <2>4 DEF LoopTurn, Found
    <3> QED
      BY <2>1, <2>4, <3>1
  <2> QED
    BY <1>6, <2>3, <2>4
<1>7. N \in S
  <2> HIDE DEF S
  <2>1. 0 .. N \subseteq S
    BY <1>1, <1>5, <1>6, BoundedInduction
  <2> QED
    BY <1>1, <2>1
<1> QED
  BY <1>3, <1>7, SearchResult DEF N

(* The search of allocate_frames, a loop over the bitmap that keeps the    *)
(* length and the start of the current run, is first fit: it stops at the  *)
(* lowest run that is long enough, on every bitmap that comes about.       *)
THEOREM SearchCorrect == Spec => []SearchIsFirstFit
<1>1. VmTypes => SearchIsFirstFit
  <2> SUFFICES ASSUME VmTypes, NEW count \in 1 .. free_count
               PROVE  LoopStart(count) = StartIdx(count)
    BY DEF SearchIsFirstFit
  <2>1. free_count \in Nat
    BY PagesFinite DEF VmTypes, AllocGood, AllocTypeOK
  <2>2. count \in Nat \ {0}
    BY <2>1
  <2> QED
    BY <2>2, LoopFindsFirstFit
<1> QED
  BY <1>1, VmTypesInit, VmTypesStep, PTL DEF Spec
=============================================================================
