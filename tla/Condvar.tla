------------------------------- MODULE Condvar -------------------------------
(***************************************************************************)
(* The condition variable of src/zarya-os/kernel/src/sync/mod.rs, one      *)
(* atomic access per step.  Each waiter runs on its own processor.         *)
(* Notifiers call notify_one and notify_all.                               *)
(*                                                                         *)
(* The mutex that wait is given does not appear: wait takes a reference to *)
(* it, and drop(mutex) drops that reference.  Whether the caller holds the *)
(* mutex, before, during and after wait, is the caller's affair alone.     *)
(***************************************************************************)
EXTENDS SyncThreads

CONSTANTS
  Notifiers,     \* threads or handlers that notify
  MaxNotifies,   \* bound: calls of a notify
  NotifyAlls     \* do notifiers call notify_all too?

ASSUME CondvarConstants ==
  MaxNotifies \in Nat /\ NotifyAlls \in BOOLEAN

VARIABLES
  waiters_count, \* Condvar::waiters_count
  wpc,           \* waiter -> "run", "check" (the loop's load) or "halted"
  irq_on,        \* waiter -> are interrupts on, on its processor?
  npc,           \* notifier -> "run" or "sub" (notify_one saw a waiter)
  notifies,      \* calls of a notify so far
  signalled,     \* waiters that a notify has taken effect for since they began to wait
  underflowed    \* has notify_one taken the counter below 0 since it was last cleared?

cvVars == <<waiters_count, wpc, irq_on, npc, notifies, signalled, underflowed>>
waiterVars == <<wpc, irq_on>>

InsideWait(w) == wpc[w] # "run"

-----------------------------------------------------------------------------
(* wait: fetch_add; drop(mutex) has no effect.                             *)
Wait(w) ==
  /\ wpc[w] = "run"
  /\ waiters_count' = (waiters_count + 1) % USize
  /\ wpc' = [wpc EXCEPT ![w] = "check"]
  /\ UNCHANGED <<irq_on, npc, notifies, signalled, underflowed>>

SleepUnchecked(w) ==
  /\ wpc[w] = "check"
  /\ wpc' = [wpc EXCEPT ![w] = "halted"]
  /\ irq_on' = [irq_on EXCEPT ![w] = TRUE]
  /\ UNCHANGED <<waiters_count, npc, notifies, signalled, underflowed>>

(* The loop's load finds waiters: interrupts on, hlt.                      *)
Sleep(w) ==
  /\ wpc[w] = "check" /\ waiters_count > 0
  /\ wpc' = [wpc EXCEPT ![w] = "halted"]
  /\ irq_on' = [irq_on EXCEPT ![w] = TRUE]
  /\ UNCHANGED <<waiters_count, npc, notifies, signalled, underflowed>>

(* An interrupt ends the hlt; interrupts off, back to the load.            *)
WakeUp(w) ==
  /\ wpc[w] = "halted"
  /\ wpc' = [wpc EXCEPT ![w] = "check"]
  /\ irq_on' = [irq_on EXCEPT ![w] = FALSE]
  /\ UNCHANGED <<waiters_count, npc, notifies, signalled, underflowed>>

ReturnAfterOneSleep(w) ==
  /\ wpc[w] = "check"
  /\ wpc' = [wpc EXCEPT ![w] = "run"]
  /\ irq_on' = [irq_on EXCEPT ![w] = TRUE]
  /\ signalled' = signalled \ {w}
  /\ UNCHANGED <<waiters_count, npc, notifies, underflowed>>

(* The load finds 0: interrupts on, and wait returns.                      *)
Return(w) ==
  /\ wpc[w] = "check" /\ waiters_count = 0
  /\ wpc' = [wpc EXCEPT ![w] = "run"]
  /\ irq_on' = [irq_on EXCEPT ![w] = TRUE]
  /\ signalled' = signalled \ {w}
  /\ UNCHANGED <<waiters_count, npc, notifies, underflowed>>

(* notify_one's load.  With no waiter it returns, changing nothing.        *)
NotifyOneLoad(n) ==
  /\ npc[n] = "run" /\ notifies < MaxNotifies
  /\ notifies' = notifies + 1
  /\ npc' = [npc EXCEPT ![n] = IF waiters_count > 0 THEN "sub" ELSE "run"]
  /\ UNCHANGED <<waiters_count, waiterVars, signalled, underflowed>>

(* notify_one's fetch_sub.  Another notify may have come in between: then  *)
(* the counter goes from 0 to usize::MAX.                                  *)
NotifyOneSub(n) ==
  /\ npc[n] = "sub"
  /\ waiters_count' = (waiters_count + USize - 1) % USize
  /\ underflowed' = (underflowed \/ waiters_count = 0)
  /\ npc' = [npc EXCEPT ![n] = "run"]
  /\ signalled' = {w \in Threads : InsideWait(w)}
  /\ UNCHANGED <<waiterVars, notifies>>

(* notify_all: store(0).                                                   *)
NotifyAll(n) ==
  /\ NotifyAlls
  /\ npc[n] = "run" /\ notifies < MaxNotifies
  /\ notifies' = notifies + 1
  /\ waiters_count' = 0
  /\ underflowed' = FALSE
  /\ signalled' = {w \in Threads : InsideWait(w)}
  /\ UNCHANGED <<waiterVars, npc>>

-----------------------------------------------------------------------------
CvInit ==
  /\ waiters_count = 0
  /\ wpc = [w \in Threads |-> "run"]
  /\ irq_on = [w \in Threads |-> TRUE]
  /\ npc = [n \in Notifiers |-> "run"]
  /\ notifies = 0
  /\ signalled = {}
  /\ underflowed = FALSE

InWait(w) == Sleep(w) \/ WakeUp(w) \/ Return(w)

CvNext ==
  \/ \E w \in Threads : Wait(w) \/ InWait(w)
  \/ \E n \in Notifiers : NotifyOneLoad(n) \/ NotifyOneSub(n) \/ NotifyAll(n)

CvSpec == CvInit /\ [][CvNext]_cvVars

(* Interrupts keep ending the hlt, a waiter looks at the counter each      *)
(* time, and a notify_one that has begun is finished.                      *)
CvFairSpec ==
  /\ CvSpec
  /\ \A w \in Threads : WF_cvVars(InWait(w))
  /\ \A n \in Notifiers : WF_cvVars(NotifyOneSub(n))

-----------------------------------------------------------------------------
(* Types.  A halted waiter has interrupts on: something can wake it.       *)
CvTypeOK ==
  /\ waiters_count \in 0 .. USize - 1
  /\ wpc \in [Threads -> {"run", "check", "halted"}]
  /\ irq_on \in [Threads -> BOOLEAN]
  /\ \A w \in Threads : wpc[w] = "halted" => irq_on[w]
  /\ npc \in [Notifiers -> {"run", "sub"}]
  /\ notifies \in 0 .. MaxNotifies
  /\ signalled \subseteq Threads
  /\ underflowed \in BOOLEAN

Returns(w) == InsideWait(w) /\ ~InsideWait(w)'

(* wait waits until there is a signal (sync/mod.rs:427): it returns only   *)
(* if some notify took effect after it began to wait.                      *)
NoSpuriousReturn == [][\A w \in Threads : Returns(w) => w \in signalled]_cvVars

(* What two or more notifiers leave of it: a wait that returns without a   *)
(* signal does so only while the counter is off by the decrements that     *)
(* went below 0, and a notify_all sets it right.                           *)
SpuriousOnlyAfterUnderflow ==
  [][\A w \in Threads : Returns(w) => w \in signalled \/ underflowed]_cvVars

(* What is left of the wake-up: if the counter is cleared and no further   *)
(* thread starts to wait, every waiter is out of wait in the end.          *)
ClearedCounterWakes ==
  <>[](waiters_count = 0) => <>[](\A w \in Threads : ~InsideWait(w))

(* notify_one wakes one waiting thread (sync/mod.rs:437): after its        *)
(* fetch_sub some waiter is outside wait in the end.                       *)
NotifyOneWakes ==
  \A n \in Notifiers : npc[n] = "sub" ~> \E w \in Threads : ~InsideWait(w)
=============================================================================
