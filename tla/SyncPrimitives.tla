--------------------------- MODULE SyncPrimitives ----------------------------
(***************************************************************************)
(* The mutex, the spin lock, the semaphore, the readers-writer lock, the   *)
(* barrier and the condition variable of                                   *)
(* src/zarya-os/kernel/src/sync/mod.rs, explored together.  Each is an     *)
(* object of its own, and no operation of one touches another, so a        *)
(* behaviour uses one of them, or none: `used' says which.                 *)
(***************************************************************************)
EXTENDS IrqMutex, Spinlock, Semaphore, RwLock, SpinBarrier, Condvar

VARIABLE used

syncVars == <<vars, spinVars, semVars, rwVars, barVars, cvVars, used>>

SyncInit ==
  /\ Init /\ SpinInit /\ SemInit /\ RwInit /\ BarInit /\ CvInit
  /\ used \in {"Mutex", "Spinlock", "Semaphore", "RwLock", "Barrier", "Condvar", "none"}

(* The primitives that a behaviour does not use.                           *)
OthersUnchanged ==
  /\ used # "Mutex"     => UNCHANGED vars
  /\ used # "Spinlock"  => UNCHANGED spinVars
  /\ used # "Semaphore" => UNCHANGED semVars
  /\ used # "RwLock"    => UNCHANGED rwVars
  /\ used # "Barrier"   => UNCHANGED barVars
  /\ used # "Condvar"   => UNCHANGED cvVars

SyncNext ==
  /\ \/ used = "Mutex"     /\ Next
     \/ used = "Spinlock"  /\ SpinNext
     \/ used = "Semaphore" /\ SemNext
     \/ used = "RwLock"    /\ RwNext
     \/ used = "Barrier"   /\ BarNext
     \/ used = "Condvar"   /\ CvNext
  /\ OthersUnchanged
  /\ UNCHANGED used

(* Interrupts keep arriving but leave the code they interrupt time to run  *)
(* (a step that is enabled between handlers again and again is taken some  *)
(* day: SF), and every guard is dropped some day.  Of two contenders for a *)
(* mutex nothing says who wins: the exchange itself is only weakly fair.   *)
MutexFairness ==
  \A c \in Cpu :
    /\ WF_vars(used = "Mutex" /\ Interrupt(c))
    /\ SF_vars(used = "Mutex" /\ InterruptReturn(c))
    /\ WF_vars(used = "Mutex" /\ Acquire(c))
    /\ SF_vars(used = "Mutex" /\ Retry(c))
    /\ SF_vars(used = "Mutex" /\ DropGuard(c))

(* A thread inside the semaphore keeps running and gives its permit back;  *)
(* the threads of the barrier keep running and come back for every round;  *)
(* interrupts keep ending the hlt of a waiter on the condition variable.   *)
SyncFairness ==
  /\ MutexFairness
  /\ SemFairness
  /\ \A t \in Threads : WF_barVars(used = "Barrier" /\ BarStep(t))
  /\ \A t \in Threads : WF_cvVars(used = "Condvar" /\ InWait(t))
=============================================================================
