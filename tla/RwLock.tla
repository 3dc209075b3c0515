------------------------------- MODULE RwLock --------------------------------
(***************************************************************************)
(* The readers-writer spin lock of src/zarya-os/kernel/src/sync/mod.rs     *)
(* (RwLock and its two guards), one atomic access of the code per step.    *)
(* A thread uses one guard at a time.  A spin iteration that changes       *)
(* nothing is a stuttering step.                                           *)
(***************************************************************************)
EXTENDS SyncThreads

VARIABLES
  readers,     \* RwLock::readers
  writer,      \* RwLock::writer
  rw_pc           \* thread -> where it is

rwVars == <<readers, writer, rw_pc>>

(* outside | read: before the load of writer, before the increment |       *)
(* read guard held | write: before the swap, before the load of readers |  *)
(* try_write: before the load of readers | write guard held                *)
RwLocations == {"idle", "r_load", "r_inc", "reading",
              "w_swap", "w_load", "tw_load", "writing"}

RwGoto(t, from, to) == rw_pc[t] = from /\ rw_pc' = [rw_pc EXCEPT ![t] = to]

-----------------------------------------------------------------------------
(* read and try_read.                                                      *)

CallRead(t) == RwGoto(t, "idle", "r_load") /\ UNCHANGED <<readers, writer>>

ReadLoad(t) == ~writer /\ RwGoto(t, "r_load", "r_inc") /\ UNCHANGED <<readers, writer>>

(* try_read's load of writer; it returns None, changing nothing, if set.   *)
TryReadLoad(t) == ~writer /\ RwGoto(t, "idle", "r_inc") /\ UNCHANGED <<readers, writer>>

(* fetch_add, of both: the guard exists from here on.                      *)
ReadInc(t) ==
  /\ RwGoto(t, "r_inc", "reading")
  /\ readers' = (readers + 1) % USize
  /\ UNCHANGED writer

ReadDropTwice(t) ==
  /\ RwGoto(t, "reading", "idle")
  /\ readers' = (readers + USize - 2) % USize
  /\ UNCHANGED writer

(* Drop of RwLockReadGuard.                                                *)
ReadDrop(t) ==
  /\ RwGoto(t, "reading", "idle")
  /\ readers' = (readers + USize - 1) % USize
  /\ UNCHANGED writer

-----------------------------------------------------------------------------
(* write and try_write.                                                    *)

CallWrite(t) == RwGoto(t, "idle", "w_swap") /\ UNCHANGED <<readers, writer>>

WriteSwapIgnoresOld(t) ==
  /\ RwGoto(t, "w_swap", "w_load")
  /\ writer' = TRUE
  /\ UNCHANGED readers

WriteSwapIsLoad(t) ==
  /\ RwGoto(t, "w_swap", IF writer THEN "w_swap" ELSE "w_load")
  /\ UNCHANGED <<readers, writer>>

(* writer.swap(true): on true the || is decided, and the loop goes round.  *)
WriteSwap(t) ==
  /\ RwGoto(t, "w_swap", IF writer THEN "w_swap" ELSE "w_load")
  /\ writer' = TRUE
  /\ UNCHANGED readers

(* readers.load: with readers the loop goes back to the swap, and writer,  *)
(* which this thread has set, stays set.                                   *)
WriteLoad(t) ==
  /\ RwGoto(t, "w_load", IF readers = 0 THEN "writing" ELSE "w_swap")
  /\ UNCHANGED <<readers, writer>>

TryWriteSwap(t) ==
  /\ RwGoto(t, "idle", IF writer THEN "idle" ELSE "tw_load")
  /\ writer' = TRUE
  /\ UNCHANGED readers

(* try_write that finds readers returns None, and writer stays set.        *)
TryWriteLoad(t) ==
  /\ RwGoto(t, "tw_load", IF readers = 0 THEN "writing" ELSE "idle")
  /\ UNCHANGED <<readers, writer>>

(* Drop of RwLockWriteGuard.                                               *)
WriteDrop(t) ==
  /\ RwGoto(t, "writing", "idle")
  /\ writer' = FALSE
  /\ UNCHANGED readers

-----------------------------------------------------------------------------
RwInit ==
  /\ readers = 0
  /\ writer = FALSE
  /\ rw_pc = [t \in Threads |-> "idle"]

ReadStep(t)  == ReadLoad(t) \/ ReadInc(t) \/ ReadDrop(t)
WriteStep(t) == WriteSwap(t) \/ WriteLoad(t) \/ TryWriteLoad(t) \/ WriteDrop(t)
Call(t)      == CallRead(t) \/ TryReadLoad(t) \/ CallWrite(t) \/ TryWriteSwap(t)

RwNext == \E t \in Threads : ReadStep(t) \/ WriteStep(t) \/ Call(t)

RwSpec == RwInit /\ [][RwNext]_rwVars

(* A thread inside a call goes on executing, and a guard is dropped.       *)
RwFairSpec == RwSpec /\ \A t \in Threads : WF_rwVars(ReadStep(t) \/ WriteStep(t))

-----------------------------------------------------------------------------
Reading == {t \in Threads : rw_pc[t] = "reading"}
Writing == {t \in Threads : rw_pc[t] = "writing"}
(* Threads whose own swap found writer clear.                              *)
Claimed == {t \in Threads : rw_pc[t] \in {"w_load", "tw_load", "writing"}}

(* Types.  The reader counter stays within the number of threads: the      *)
(* fetch_sub of a dropped guard never takes it below 0 and round to        *)
(* usize::MAX.                                                             *)
RwTypeOK ==
  /\ readers \in 0 .. Cardinality(Threads)
  /\ writer \in BOOLEAN
  /\ rw_pc \in [Threads -> RwLocations]

(* The counter is exactly the number of read guards alive: it never wraps, *)
(* and a write never succeeds because a decrement went missing.            *)
ReadersCounted == readers = Cardinality(Reading)

(* Two writers never overlap, through write or try_write, and a thread     *)
(* that has claimed the lock is always visible in writer.                  *)
WriterExclusion ==
  /\ \A t, u \in Claimed : t = u
  /\ Claimed # {} => writer

(* The half of reader-writer exclusion that holds: no read or try_read     *)
(* gets past its check while a write guard is alive.                       *)
NoEntryWhileWriting ==
  [][\A t \in Threads :
       (rw_pc[t] # "r_inc" /\ rw_pc'[t] = "r_inc") => Writing = {}]_rwVars

(* A reader waits until the writer has finished (sync/mod.rs:272).         *)
ReaderWriterExclusion == Writing # {} => Reading = {}

(* write waits until all readers and writers have finished                 *)
(* (sync/mod.rs:286): if from some time on nobody else is in the lock, a   *)
(* thread that is in write gets its guard.                                 *)
WriteEndsItsWait ==
  \A t \in Threads :
    <>[](\A u \in Threads \ {t} : rw_pc[u] = "idle") =>
      (rw_pc[t] = "w_swap" ~> rw_pc[t] = "writing")
=============================================================================
