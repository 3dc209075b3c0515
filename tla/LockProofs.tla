----------------------------- MODULE LockProofs ------------------------------
(***************************************************************************)
(* Theorems about Spinlock, RwLock and Condvar, for every finite set of    *)
(* threads.                                                                *)
(***************************************************************************)
EXTENDS Spinlock, RwLock, Condvar, FiniteSetTheorems, TLAPS

-----------------------------------------------------------------------------
(* The spin lock.                                                          *)

SpinTypeOK == spin_locked \in BOOLEAN /\ spin_pc \in [Threads -> {"out", "spin", "in"}]

(* Whatever the interleaving of lock, try_lock and unlock, at most one     *)
(* thread is inside, and the word is set exactly as long as one is.        *)
THEOREM SpinlockCorrect == SpinSpec => []SpinExclusion
<1> DEFINE Inv == SpinTypeOK /\ SpinExclusion
<1>1. SpinInit => Inv
  BY DEF SpinInit, SpinTypeOK, SpinExclusion
<1>2. Inv /\ [SpinNext]_spinVars => Inv'
  <2> SUFFICES ASSUME Inv, [SpinNext]_spinVars PROVE Inv'
    OBVIOUS
  <2> USE DEF SpinTypeOK, SpinExclusion, SpinMove
  <2>1. CASE UNCHANGED spinVars
    BY <2>1 DEF spinVars
  <2>2. ASSUME NEW t \in Threads, CallLock(t) PROVE Inv'
    BY <2>2 DEF CallLock
  <2>3. ASSUME NEW t \in Threads, SpinAcquire(t) \/ SpinTryLock(t) PROVE Inv'
    BY <2>3 DEF SpinAcquire, SpinTryLock
  <2>4. ASSUME NEW t \in Threads, SpinUnlock(t) PROVE Inv'
    BY <2>4 DEF SpinUnlock
  <2> QED
    BY <2>1, <2>2, <2>3, <2>4 DEF SpinNext
<1>3. Inv => SpinExclusion
  OBVIOUS
<1> QED
  BY <1>1, <1>2, <1>3, PTL DEF SpinSpec

-----------------------------------------------------------------------------
(* The readers-writer lock.                                                *)

(* The inductive invariant.                                                *)
RwInv == RwTypeOK /\ WriterExclusion /\ ReadersCounted

(* Below the modulus, the usize counter counts.                            *)
LEMMA NoWrap ==
  ASSUME NEW n \in Nat
  PROVE  /\ n + 1 < USize => (n + 1) % USize = n + 1
         /\ 0 < n /\ n < USize => (n + USize - 1) % USize = n - 1
BY SyncConstants

(* There are fewer read guards than the counter can hold.                  *)
LEMMA FewReaders ==
  ASSUME NEW S \in SUBSET Threads
  PROVE  /\ IsFiniteSet(S) /\ Cardinality(S) \in Nat /\ Cardinality(S) < USize
         /\ Cardinality(Threads) \in Nat /\ Cardinality(S) <= Cardinality(Threads)
<1>1. IsFiniteSet(S) /\ Cardinality(S) <= Cardinality(Threads)
  BY SyncConstants, FS_Subset
<1>2. Cardinality(S) \in Nat /\ Cardinality(Threads) \in Nat
  BY <1>1, SyncConstants, FS_CardinalityType
<1> QED
  BY <1>1, <1>2, SyncConstants

(* Steps that neither create nor drop a read guard.                        *)
LEMMA SameReaders ==
  ASSUME RwTypeOK, ReadersCounted, NEW t \in Threads, NEW l \in RwLocations,
         rw_pc[t] # "reading", l # "reading",
         rw_pc' = [rw_pc EXCEPT ![t] = l], readers' = readers
  PROVE  ReadersCounted'
<1>1. Reading' = Reading
  BY DEF Reading, RwTypeOK
<1> QED
  BY <1>1 DEF ReadersCounted

(* Every action keeps the invariant.                                       *)
LEMMA RwInvStep == RwInv /\ [RwNext]_rwVars => RwInv'
<1> SUFFICES ASSUME RwInv, [RwNext]_rwVars PROVE RwInv'
  OBVIOUS
<1> USE DEF RwInv, RwGoto
<1>1. CASE UNCHANGED rwVars
  BY <1>1 DEF rwVars, RwTypeOK, WriterExclusion, ReadersCounted, Claimed, Reading
<1>2. ASSUME NEW t \in Threads, ReadInc(t) PROVE RwInv'
  <2>1. Reading' = Reading \cup {t} /\ t \notin Reading
    BY <1>2 DEF ReadInc, Reading, RwTypeOK
  <2>2. Cardinality(Reading') = Cardinality(Reading) + 1
    BY <2>1, FewReaders, FS_AddElement DEF Reading
  <2>3. readers \in Nat /\ readers + 1 < USize
    BY <2>1, <2>2, FewReaders DEF Reading, ReadersCounted
  <2>4. readers' = readers + 1
    BY <1>2, <2>3, NoWrap DEF ReadInc
  <2>5. ReadersCounted'
    BY <2>2, <2>4 DEF ReadersCounted
  <2>6. RwTypeOK'
    <3>1. readers' = Cardinality(Reading') /\ Reading' \in SUBSET Threads
      BY <2>5 DEF ReadersCounted, Reading
    <3>2. readers' \in 0 .. Cardinality(Threads)
      BY <3>1, FewReaders
    <3> QED
      BY <1>2, <3>2 DEF ReadInc, RwTypeOK, RwLocations
  <2>7. WriterExclusion'
    BY <1>2 DEF ReadInc, RwTypeOK, WriterExclusion, Claimed
  <2> QED
    BY <2>5, <2>6, <2>7
<1>3. ASSUME NEW t \in Threads, ReadDrop(t) PROVE RwInv'
  <2>1. Reading' = Reading \ {t} /\ t \in Reading
    BY <1>3 DEF ReadDrop, Reading, RwTypeOK
  <2>2. Cardinality(Reading') = Cardinality(Reading) - 1
    BY <2>1, FewReaders, FS_RemoveElement DEF Reading
  <2>3. readers \in Nat /\ 0 < readers /\ readers < USize
    <3>1. Cardinality(Reading) \in Nat /\ Cardinality(Reading) < USize
      BY FewReaders DEF Reading
    <3>2. Cardinality(Reading') \in Nat
      BY <2>1, FewReaders DEF Reading
    <3> QED
      BY <3>1, <3>2, <2>2 DEF ReadersCounted
  <2>4. readers' = readers - 1
    BY <1>3, <2>3, NoWrap DEF ReadDrop
  <2>5. ReadersCounted'
    BY <2>2, <2>4 DEF ReadersCounted
  <2>6. RwTypeOK'
    <3>1. readers' = Cardinality(Reading') /\ Reading' \in SUBSET Threads
      BY <2>5 DEF ReadersCounted, Reading
    <3>2. readers' \in 0 .. Cardinality(Threads)
      BY <3>1, FewReaders
    <3> QED
      BY <1>3, <3>2 DEF ReadDrop, RwTypeOK, RwLocations
  <2>7. WriterExclusion'
    BY <1>3 DEF ReadDrop, RwTypeOK, WriterExclusion, Claimed
  <2> QED
    BY <2>5, <2>6, <2>7
<1>4. ASSUME NEW t \in Threads,
             CallRead(t) \/ ReadLoad(t) \/ TryReadLoad(t) \/ CallWrite(t)
      PROVE  RwInv'
  <2>1. /\ readers' = readers /\ writer' = writer
        /\ rw_pc[t] \in {"idle", "r_load"}
        /\ \E l \in {"r_load", "r_inc", "w_swap"} : rw_pc' = [rw_pc EXCEPT ![t] = l]
    BY <1>4 DEF CallRead, ReadLoad, TryReadLoad, CallWrite
  <2>2. RwTypeOK'
    BY <2>1 DEF RwTypeOK, RwLocations
  <2>3. WriterExclusion'
    BY <2>1 DEF RwTypeOK, WriterExclusion, Claimed
  <2>4. ReadersCounted'
    BY <2>1, SameReaders DEF RwLocations
  <2> QED
    BY <2>2, <2>3, <2>4
<1>5. ASSUME NEW t \in Threads, WriteSwap(t) \/ TryWriteSwap(t) PROVE RwInv'
  <2>1. /\ readers' = readers /\ writer' = TRUE
        /\ rw_pc[t] \in {"idle", "w_swap"}
        /\ \E l \in {"idle", "w_swap", "w_load", "tw_load"} :
             /\ rw_pc' = [rw_pc EXCEPT ![t] = l]
             /\ writer => l \in {"idle", "w_swap"}
    BY <1>5 DEF WriteSwap, TryWriteSwap
  <2>2. RwTypeOK'
    BY <2>1 DEF RwTypeOK, RwLocations
  <2>3. WriterExclusion'
    BY <2>1 DEF RwTypeOK, WriterExclusion, Claimed
  <2>4. ReadersCounted'
    BY <2>1, SameReaders DEF RwLocations
  <2> QED
    BY <2>2, <2>3, <2>4
<1>6. ASSUME NEW t \in Threads, WriteLoad(t) \/ TryWriteLoad(t) PROVE RwInv'
  <2>1. /\ readers' = readers /\ writer' = writer
        /\ rw_pc[t] \in {"w_load", "tw_load"}
        /\ \E l \in {"idle", "w_swap", "writing"} : rw_pc' = [rw_pc EXCEPT ![t] = l]
    BY <1>6 DEF WriteLoad, TryWriteLoad
  <2>2. RwTypeOK'
    BY <2>1 DEF RwTypeOK, RwLocations
  <2>3. WriterExclusion'
    BY <2>1 DEF RwTypeOK, WriterExclusion, Claimed
  <2>4. ReadersCounted'
    BY <2>1, SameReaders DEF RwLocations
  <2> QED
    BY <2>2, <2>3, <2>4
<1>7. ASSUME NEW t \in Threads, WriteDrop(t) PROVE RwInv'
  <2>1. /\ readers' = readers /\ writer' = FALSE
        /\ rw_pc[t] = "writing" /\ rw_pc' = [rw_pc EXCEPT ![t] = "idle"]
    BY <1>7 DEF WriteDrop
  <2>2. RwTypeOK'
    BY <2>1 DEF RwTypeOK, RwLocations
  <2>3. WriterExclusion'
    BY <2>1 DEF RwTypeOK, WriterExclusion, Claimed
  <2>4. ReadersCounted'
    BY <2>1, SameReaders DEF RwLocations
  <2> QED
    BY <2>2, <2>3, <2>4
<1> QED
  BY <1>1, <1>2, <1>3, <1>4, <1>5, <1>6, <1>7 DEF RwNext, ReadStep, WriteStep, Call

(* The invariant holds in every reachable state.                           *)
LEMMA RwInvariant == RwSpec => []RwInv
<1>1. RwInit => RwInv
  <2> SUFFICES ASSUME RwInit PROVE RwInv
    OBVIOUS
  <2>1. Reading = {}
    BY DEF RwInit, Reading
  <2>2. ReadersCounted
    BY <2>1, FS_EmptySet DEF RwInit, ReadersCounted
  <2>3. RwTypeOK
    <3>1. Cardinality(Threads) \in Nat
      BY SyncConstants, FS_CardinalityType
    <3>2. readers \in 0 .. Cardinality(Threads)
      BY <3>1 DEF RwInit
    <3> QED
      BY <3>2 DEF RwInit, RwTypeOK, RwLocations
  <2>4. Claimed = {}
    BY DEF RwInit, Claimed
  <2> QED
    BY <2>2, <2>3, <2>4 DEF RwInv, WriterExclusion
<1> QED
  BY <1>1, RwInvStep, PTL DEF RwSpec

(* Types hold in every reachable state; in particular the reader counter   *)
(* never passes the number of threads, and dropping a read guard never     *)
(* takes it round to usize::MAX.                                           *)
THEOREM TypeCorrect == RwSpec => []RwTypeOK
<1>1. RwInv => RwTypeOK
  BY DEF RwInv
<1> QED
  BY <1>1, RwInvariant, PTL

(* Writers exclude each other, however many threads call write and         *)
(* try_write and however their swaps and loads interleave.                 *)
THEOREM WritersExclude == RwSpec => []WriterExclusion
<1>1. RwInv => WriterExclusion
  BY DEF RwInv
<1> QED
  BY <1>1, RwInvariant, PTL

(* The reader counter equals the number of read guards.                    *)
THEOREM ReaderCountExact == RwSpec => []ReadersCounted
<1>1. RwInv => ReadersCounted
  BY DEF RwInv
<1> QED
  BY <1>1, RwInvariant, PTL

(* No read or try_read passes its check while a write guard is alive.      *)
THEOREM NoEntry == RwSpec => NoEntryWhileWriting
<1> DEFINE Entry == \A t \in Threads :
                      (rw_pc[t] # "r_inc" /\ rw_pc'[t] = "r_inc") => Writing = {}
<1>1. RwInv /\ [RwNext]_rwVars => [Entry]_rwVars
  <2> SUFFICES ASSUME RwInv, RwNext, NEW t \in Threads, rw_pc[t] # "r_inc", rw_pc'[t] = "r_inc"
               PROVE  Writing = {}
    OBVIOUS
  <2>1. ~writer
    <3>1. PICK u \in Threads : ReadStep(u) \/ WriteStep(u) \/ Call(u)
      BY DEF RwNext
    <3> QED
      BY <3>1
      DEF RwInv, RwTypeOK, RwGoto, ReadStep, WriteStep, Call, CallRead, ReadLoad, TryReadLoad,
          ReadInc, ReadDrop, CallWrite, WriteSwap, WriteLoad, TryWriteSwap, TryWriteLoad,
          WriteDrop
  <2> QED
    BY <2>1 DEF RwInv, WriterExclusion, Claimed, Writing
<1> QED
  BY <1>1, RwInvariant, PTL DEF RwSpec, NoEntryWhileWriting

(* writer is set and no thread's swap has claimed the lock: a write or a   *)
(* try_write that met a reader has left the flag behind.                   *)
Orphaned == writer /\ Claimed = {}
OrphanedForGood == [][Orphaned => Orphaned']_rwVars

(* After a write or a try_write has met a reader and left writer set, the  *)
(* flag is never cleared and nobody claims the lock again: the reason why  *)
(* WriteEndsItsWait does not hold.                                         *)
THEOREM DeadAfterContention == RwSpec => OrphanedForGood
<1>1. RwInv /\ [RwNext]_rwVars => [Orphaned => Orphaned']_rwVars
  <2> SUFFICES ASSUME RwInv, RwNext, Orphaned PROVE Orphaned'
    OBVIOUS
  <2>1. PICK u \in Threads : ReadStep(u) \/ WriteStep(u) \/ Call(u)
    BY DEF RwNext
  <2>2. writer /\ rw_pc \in [Threads -> RwLocations]
        /\ \A t \in Threads : rw_pc[t] \notin {"w_load", "tw_load", "writing"}
    BY DEF Orphaned, Claimed, RwInv, RwTypeOK
  <2>3. writer' /\ \A t \in Threads : rw_pc'[t] \notin {"w_load", "tw_load", "writing"}
    BY <2>1, <2>2
    DEF RwGoto, ReadStep, WriteStep, Call, CallRead, ReadLoad, TryReadLoad, ReadInc, ReadDrop,
        CallWrite, WriteSwap, WriteLoad, TryWriteSwap, TryWriteLoad, WriteDrop
  <2> QED
    BY <2>3 DEF Orphaned, Claimed
<1> QED
  BY <1>1, RwInvariant, PTL DEF RwSpec, OrphanedForGood

-----------------------------------------------------------------------------
(* The condition variable.                                                 *)

Insiders  == {w \in Threads : InsideWait(w)}
Unsignalled == Insiders \ signalled

(* As long as notify_one has not taken it below 0, the counter is at most  *)
(* the number of threads in wait, so it does not wrap, and at least the    *)
(* number of those that no notify has reached.                             *)
Counted ==
  /\ Cardinality(Unsignalled) <= waiters_count
  /\ waiters_count <= Cardinality(Insiders)

(* The inductive invariant: what a notify_one has seen may be false by the *)
(* time of its fetch_sub, but then the decrement goes below 0.             *)
CvInv ==
  /\ CvTypeOK
  /\ signalled \subseteq Insiders
  /\ ~underflowed => Counted

(* Every action keeps the invariant.                                       *)
LEMMA CvInvStep == CvInv /\ [CvNext]_cvVars => CvInv'
<1> SUFFICES ASSUME CvInv, [CvNext]_cvVars PROVE CvInv'
  OBVIOUS
<1>n. /\ waiters_count \in Nat /\ waiters_count < USize /\ USize \in Nat /\ MaxNotifies \in Nat
      /\ notifies \in Nat
      /\ Insiders \in SUBSET Threads /\ Unsignalled \in SUBSET Threads
  BY SyncConstants, CondvarConstants DEF CvInv, CvTypeOK, Insiders, Unsignalled
<1>f. /\ IsFiniteSet(Insiders) /\ Cardinality(Insiders) \in Nat
      /\ IsFiniteSet(Unsignalled) /\ Cardinality(Unsignalled) \in Nat
      /\ Cardinality(Insiders) < USize
  BY <1>n, FewReaders
<1>1. CASE UNCHANGED cvVars
  BY <1>1 DEF cvVars, CvInv, CvTypeOK, Counted, Insiders, Unsignalled, InsideWait
<1>2. ASSUME NEW w \in Threads, Wait(w) PROVE CvInv'
  <2>1. /\ Insiders' = Insiders \cup {w} /\ w \notin Insiders
        /\ Unsignalled' = Unsignalled \cup {w} /\ w \notin Unsignalled
    BY <1>2 DEF Wait, CvInv, CvTypeOK, Insiders, Unsignalled, InsideWait
  <2>2. /\ Cardinality(Insiders') = Cardinality(Insiders) + 1
        /\ Cardinality(Unsignalled') = Cardinality(Unsignalled) + 1
    BY <2>1, <1>f, FS_AddElement
  <2>3. Cardinality(Insiders') < USize
    BY <2>1, <1>n, FewReaders
  <2>4. ASSUME Counted PROVE waiters_count' = waiters_count + 1
    <3>1. waiters_count + 1 < USize
      BY <2>4, <1>n, <1>f, <2>2, <2>3 DEF Counted
    <3> QED
      BY <1>2, <1>n, <3>1, NoWrap DEF Wait
  <2>5. ~underflowed' => Counted'
    <3>1. ~underflowed' => Counted
      BY <1>2 DEF Wait, CvInv
    <3> QED
      BY <1>n, <1>f, <2>2, <2>4, <3>1 DEF Counted
  <2>6. waiters_count' \in 0 .. USize - 1
    BY <1>2, <1>n DEF Wait
  <2>7. CvTypeOK'
    BY <1>2, <2>6 DEF Wait, CvInv, CvTypeOK
  <2>8. signalled' \subseteq Insiders'
    BY <1>2, <2>1 DEF Wait, CvInv
  <2> QED
    BY <2>5, <2>7, <2>8 DEF CvInv
<1>3. ASSUME NEW w \in Threads, Sleep(w) \/ WakeUp(w) PROVE CvInv'
  <2>1. Insiders' = Insiders /\ Unsignalled' = Unsignalled
    BY <1>3 DEF Sleep, WakeUp, CvInv, CvTypeOK, Insiders, Unsignalled, InsideWait
  <2>2. CvTypeOK'
    BY <1>3 DEF Sleep, WakeUp, CvInv, CvTypeOK
  <2> QED
    BY <1>3, <2>1, <2>2 DEF Sleep, WakeUp, CvInv, Counted
<1>4. ASSUME NEW w \in Threads, Return(w) PROVE CvInv'
  <2>1. /\ Insiders' = Insiders \ {w} /\ Unsignalled' = Unsignalled \ {w}
        /\ signalled' \subseteq Insiders'
    BY <1>4 DEF Return, CvInv, CvTypeOK, Insiders, Unsignalled, InsideWait
  <2>2. /\ Cardinality(Unsignalled') <= Cardinality(Unsignalled)
        /\ Cardinality(Insiders') \in Nat /\ Cardinality(Unsignalled') \in Nat
    <3>1. Insiders' \in SUBSET Threads /\ Unsignalled' \in SUBSET Unsignalled
      BY <2>1, <1>n
    <3>2. Cardinality(Unsignalled') <= Cardinality(Unsignalled)
      BY <3>1, <1>f, FS_Subset
    <3> QED
      BY <3>1, <3>2, <1>n, FewReaders
  <2>3. CvTypeOK'
    BY <1>4 DEF Return, CvInv, CvTypeOK
  <2>4. waiters_count' = 0 /\ waiters_count = 0 /\ underflowed' = underflowed
    BY <1>4 DEF Return
  <2> QED
    BY <2>1, <2>2, <2>3, <2>4, <1>f DEF CvInv, Counted
<1>5. ASSUME NEW n \in Notifiers, NotifyOneLoad(n) PROVE CvInv'
  <2>1. Insiders' = Insiders /\ Unsignalled' = Unsignalled
    BY <1>5 DEF NotifyOneLoad, waiterVars, Insiders, Unsignalled, InsideWait
  <2>2. CvTypeOK'
    BY <1>5, <1>n DEF NotifyOneLoad, waiterVars, CvInv, CvTypeOK
  <2> QED
    BY <1>5, <2>1, <2>2 DEF NotifyOneLoad, CvInv, Counted
<1>6. ASSUME NEW n \in Notifiers, NotifyOneSub(n) \/ NotifyAll(n) PROVE CvInv'
  <2>1. Insiders' = Insiders /\ signalled' = Insiders
    BY <1>6 DEF NotifyOneSub, NotifyAll, waiterVars, Insiders, InsideWait
  <2>2. Unsignalled' = {} /\ Cardinality(Unsignalled') = 0
    BY <2>1, FS_EmptySet DEF Unsignalled
  <2>3. waiters_count' \in 0 .. USize - 1
    BY <1>6, <1>n DEF NotifyOneSub, NotifyAll
  <2>4. CvTypeOK'
    <3>1. wpc' = wpc /\ irq_on' = irq_on /\ npc' \in [Notifiers -> {"run", "sub"}]
      BY <1>6 DEF NotifyOneSub, NotifyAll, waiterVars, CvInv, CvTypeOK
    <3>2. notifies' \in 0 .. MaxNotifies
      BY <1>6, <1>n DEF NotifyOneSub, NotifyAll, CvInv, CvTypeOK
    <3>3. underflowed' \in BOOLEAN
      BY <1>6 DEF NotifyOneSub, NotifyAll, CvInv, CvTypeOK
    <3> QED
      BY <1>n, <2>1, <2>3, <3>1, <3>2, <3>3 DEF CvInv, CvTypeOK
  <2>5. ASSUME NotifyAll(n) PROVE Counted'
    <3>1. waiters_count' = 0
      BY <2>5 DEF NotifyAll
    <3> QED
      BY <3>1, <1>f, <2>1, <2>2 DEF Counted
  <2>6. ASSUME NotifyOneSub(n), ~underflowed' PROVE Counted'
    <3>1. Counted /\ waiters_count # 0
      BY <2>6 DEF NotifyOneSub, CvInv
    <3>2. waiters_count' = waiters_count - 1
      <4>1. 0 < waiters_count
        BY <3>1, <1>n
      <4> QED
        BY <4>1, <2>6, <1>n, NoWrap DEF NotifyOneSub
    <3> QED
      BY <3>1, <3>2, <1>f, <1>n, <2>1, <2>2 DEF Counted
  <2> QED
    BY <1>6, <2>1, <2>4, <2>5, <2>6 DEF CvInv
<1> QED
  BY <1>1, <1>2, <1>3, <1>4, <1>5, <1>6 DEF CvNext, InWait

(* However many threads wait and notify: wait returns only after a notify  *)
(* that took effect since it began, or while the counter is off because    *)
(* two calls of notify_one that saw the same waiter have taken it below 0. *)
THEOREM NoReturnUnnotified == CvSpec => SpuriousOnlyAfterUnderflow
<1> DEFINE Act == \A w \in Threads : Returns(w) => w \in signalled \/ underflowed
<1>1. CvInit => CvInv
  <2> SUFFICES ASSUME CvInit PROVE CvInv
    OBVIOUS
  <2>1. Insiders = {} /\ Unsignalled = {}
    BY DEF CvInit, Insiders, Unsignalled, InsideWait
  <2>2. CvTypeOK
    <3>1. waiters_count \in 0 .. USize - 1 /\ notifies \in 0 .. MaxNotifies
      BY SyncConstants, CondvarConstants DEF CvInit
    <3> QED
      BY <3>1 DEF CvInit, CvTypeOK
  <2> QED
    BY <2>1, <2>2, FS_EmptySet DEF CvInit, CvInv, Counted
<1>2. CvInv /\ [CvNext]_cvVars => [Act]_cvVars
  <2> SUFFICES ASSUME CvInv, CvNext, NEW w \in Threads, Returns(w), ~underflowed
               PROVE  w \in signalled
    OBVIOUS
  <2>1. waiters_count = 0
    BY DEF CvNext, InWait, Wait, Sleep, WakeUp, Return, NotifyOneLoad, NotifyOneSub, NotifyAll,
           waiterVars, Returns, InsideWait, CvInv, CvTypeOK
  <2>2. Unsignalled \in SUBSET Threads
    BY DEF Unsignalled, Insiders
  <2>3. Unsignalled = {}
    <3>1. Cardinality(Unsignalled) <= 0
      BY <2>1 DEF CvInv, Counted
    <3> QED
      BY <3>1, <2>2, FewReaders, FS_EmptySet
  <2> QED
    BY <2>3 DEF Unsignalled, Insiders, Returns
<1> QED
  BY <1>1, <1>2, CvInvStep, PTL DEF CvSpec, SpuriousOnlyAfterUnderflow
=============================================================================
