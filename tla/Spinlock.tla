------------------------------ MODULE Spinlock -------------------------------
(***************************************************************************)
(* The spin lock of src/zarya-os/kernel/src/sync/mod.rs: one exchange to   *)
(* take it, one store to release it.  lock and try_lock return no guard:   *)
(* the caller unlocks by hand, or by the drop of a guard it made itself.   *)
(* Callers unlock only what they hold.                                     *)
(***************************************************************************)
EXTENDS SyncThreads

VARIABLES
  spin_locked,   \* Spinlock::locked
  spin_pc        \* thread -> "out", "spin" (in lock's loop) or "in"

spinVars == <<spin_locked, spin_pc>>

SpinMove(t, from, to) == spin_pc[t] = from /\ spin_pc' = [spin_pc EXCEPT ![t] = to]

CallLock(t) == SpinMove(t, "out", "spin") /\ UNCHANGED spin_locked

AcquireStores(t) == SpinMove(t, "spin", "in") /\ spin_locked' = TRUE

(* lock: the exchange succeeds.  One that fails spins, changing nothing.   *)
SpinAcquire(t) == ~spin_locked /\ SpinMove(t, "spin", "in") /\ spin_locked' = TRUE

(* try_lock: one exchange; false changes nothing.                          *)
SpinTryLock(t) == ~spin_locked /\ SpinMove(t, "out", "in") /\ spin_locked' = TRUE

(* unlock, or the drop of a SpinlockGuard.                                 *)
SpinUnlock(t) == SpinMove(t, "in", "out") /\ spin_locked' = FALSE

SpinInit == spin_locked = FALSE /\ spin_pc = [t \in Threads |-> "out"]

SpinNext == \E t \in Threads :
  CallLock(t) \/ SpinAcquire(t) \/ SpinTryLock(t) \/ SpinUnlock(t)

SpinSpec == SpinInit /\ [][SpinNext]_spinVars

-----------------------------------------------------------------------------
(* One thread at most is between its lock or try_lock and its unlock, so   *)
(* that SpinlockGuard::data never gives two threads a reference to the     *)
(* same cell; and is_locked is true as long as one is.                     *)
SpinExclusion ==
  /\ \A t, u \in Threads : spin_pc[t] = "in" /\ spin_pc[u] = "in" => t = u
  /\ spin_locked <=> \E t \in Threads : spin_pc[t] = "in"
=============================================================================
