------------------------------ MODULE IrqMutex -------------------------------
(***************************************************************************)
(* The interrupt-disabling mutex of src/zarya-os/kernel/src/sync/mod.rs    *)
(* (Mutex, MutexGuard), used by thread code and by interrupt handlers on   *)
(* one or more processors.                                                 *)
(*                                                                         *)
(* Each processor has a thread context and an interrupt context; the       *)
(* latter runs with interrupts off, as an x86 interrupt gate leaves them.  *)
(* Only the active context of a processor takes steps.  Callers take       *)
(* mutexes in increasing order, so that deadlocks found here are the       *)
(* mutex's own and not those of a lock-order inversion.                    *)
(***************************************************************************)
EXTENDS Naturals, Sequences

CONSTANTS
  Cpu,           \* processors
  NumMutexes,    \* mutexes 1 .. NumMutexes
  MaxNest,       \* bound: guards one context holds at a time
  AnyDropOrder   \* may a guard be dropped before one taken after it?

ASSUME IrqMutexConstants ==
  NumMutexes \in Nat /\ MaxNest \in Nat /\ AnyDropOrder \in BOOLEAN

VARIABLES
  locked,    \* mutex -> Mutex::locked
  IF_flag,   \* processor -> are interrupts enabled?
  in_irq,    \* processor -> is its interrupt handler active?
  pc,        \* context -> where it is in Mutex::lock, "run" outside
  want,      \* context -> mutex it is locking, 0 before its first lock
  were,      \* context -> lock's local interrupts_were_enabled
  guards     \* context -> its live MutexGuards, oldest first

vars == <<locked, IF_flag, in_irq, pc, want, were, guards>>

Mutexes == 1 .. NumMutexes
Ctx     == Cpu \X {"thread", "irq"}
Active(c) == IF in_irq[c] THEN <<c, "irq">> ELSE <<c, "thread">>

Guard == [mutex : Mutexes, were_enabled : BOOLEAN]

-----------------------------------------------------------------------------
LockKeepsInterrupts(c, m) ==
  LET x == Active(c)
  IN  /\ pc[x] = "run"
      /\ Len(guards[x]) < MaxNest
      /\ \A i \in 1 .. Len(guards[x]) : guards[x][i].mutex < m
      /\ were' = [were EXCEPT ![x] = IF_flag[c]]
      /\ want' = [want EXCEPT ![x] = m]
      /\ pc' = [pc EXCEPT ![x] = "cas"]
      /\ UNCHANGED <<locked, IF_flag, in_irq, guards>>

(* lock: remember whether interrupts were on, and turn them off.           *)
Lock(c, m) ==
  LET x == Active(c)
  IN  /\ pc[x] = "run"
      /\ Len(guards[x]) < MaxNest
      /\ \A i \in 1 .. Len(guards[x]) : guards[x][i].mutex < m
      /\ were' = [were EXCEPT ![x] = IF_flag[c]]
      /\ IF_flag' = [IF_flag EXCEPT ![c] = FALSE]
      /\ want' = [want EXCEPT ![x] = m]
      /\ pc' = [pc EXCEPT ![x] = "cas"]
      /\ UNCHANGED <<locked, in_irq, guards>>

AcquireBlindly(c) ==
  LET x == Active(c)
  IN  /\ pc[x] = "cas"
      /\ locked' = [locked EXCEPT ![want[x]] = TRUE]
      /\ guards' = [guards EXCEPT ![x] =
                      Append(@, [mutex |-> want[x], were_enabled |-> were[x]])]
      /\ pc' = [pc EXCEPT ![x] = "run"]
      /\ UNCHANGED <<IF_flag, in_irq, want, were>>

(* compare_exchange_weak succeeds: the caller gets a guard.                *)
Acquire(c) ==
  LET x == Active(c)
  IN  /\ pc[x] = "cas"
      /\ ~locked[want[x]]
      /\ locked' = [locked EXCEPT ![want[x]] = TRUE]
      /\ guards' = [guards EXCEPT ![x] =
                      Append(@, [mutex |-> want[x], were_enabled |-> were[x]])]
      /\ pc' = [pc EXCEPT ![x] = "run"]
      /\ UNCHANGED <<IF_flag, in_irq, want, were>>

(* It fails: on x86, where the weak form is lock cmpxchg, only because the *)
(* mutex is locked.  A caller that had interrupts on turns them on again   *)
(* before it halts; one that had them off spins, which changes nothing.    *)
FailAndEnable(c) ==
  LET x == Active(c)
  IN  /\ pc[x] = "cas"
      /\ locked[want[x]]
      /\ were[x]
      /\ IF_flag' = [IF_flag EXCEPT ![c] = TRUE]
      /\ pc' = [pc EXCEPT ![x] = "enabled"]
      /\ UNCHANGED <<locked, in_irq, want, were, guards>>

Halt(c) ==
  LET x == Active(c)
  IN  /\ pc[x] = "enabled"
      /\ pc' = [pc EXCEPT ![x] = "halted"]
      /\ UNCHANGED <<locked, IF_flag, in_irq, want, were, guards>>

(* After an interrupt woke it: interrupts off, and try again.              *)
DisableAndRetry(c) ==
  LET x == Active(c)
  IN  /\ pc[x] = "woken"
      /\ IF_flag' = [IF_flag EXCEPT ![c] = FALSE]
      /\ pc' = [pc EXCEPT ![x] = "cas"]
      /\ UNCHANGED <<locked, in_irq, want, were, guards>>

(* try_lock that succeeds.  One that fails leaves everything as it was.    *)
TryLock(c, m) ==
  LET x == Active(c)
  IN  /\ pc[x] = "run"
      /\ Len(guards[x]) < MaxNest
      /\ ~locked[m]
      /\ locked' = [locked EXCEPT ![m] = TRUE]
      /\ guards' = [guards EXCEPT ![x] =
                      Append(@, [mutex |-> m, were_enabled |-> IF_flag[c]])]
      /\ IF_flag' = [IF_flag EXCEPT ![c] = FALSE]
      /\ UNCHANGED <<in_irq, pc, want, were>>

Without(s, i) == SubSeq(s, 1, i - 1) \o SubSeq(s, i + 1, Len(s))

DropForgetsInterrupts(c, i) ==
  LET x == Active(c)
      g == guards[x][i]
  IN  /\ pc[x] = "run"
      /\ i \in 1 .. Len(guards[x])
      /\ i = Len(guards[x]) \/ AnyDropOrder
      /\ locked' = [locked EXCEPT ![g.mutex] = FALSE]
      /\ guards' = [guards EXCEPT ![x] = Without(@, i)]
      /\ UNCHANGED <<IF_flag, in_irq, pc, want, were>>

(* Drop of the i-th guard: release, then restore the interrupt flag that   *)
(* this guard saved.                                                       *)
Drop(c, i) ==
  LET x == Active(c)
      g == guards[x][i]
  IN  /\ pc[x] = "run"
      /\ i \in 1 .. Len(guards[x])
      /\ i = Len(guards[x]) \/ AnyDropOrder
      /\ locked' = [locked EXCEPT ![g.mutex] = FALSE]
      /\ guards' = [guards EXCEPT ![x] = Without(@, i)]
      /\ IF_flag' = [IF_flag EXCEPT ![c] = IF g.were_enabled THEN TRUE ELSE @]
      /\ UNCHANGED <<in_irq, pc, want, were>>

-----------------------------------------------------------------------------
(* The processor (external: x86).                                          *)

(* An interrupt is taken when the flag allows it; it ends a hlt.           *)
Interrupt(c) ==
  /\ IF_flag[c] /\ ~in_irq[c]
  /\ in_irq' = [in_irq EXCEPT ![c] = TRUE]
  /\ IF_flag' = [IF_flag EXCEPT ![c] = FALSE]
  /\ pc' = [pc EXCEPT ![<<c, "thread">>] = IF @ = "halted" THEN "woken" ELSE @]
  /\ UNCHANGED <<locked, want, were, guards>>

(* iret: the flag is again what it was when the interrupt was taken.       *)
InterruptReturn(c) ==
  /\ in_irq[c]
  /\ pc[<<c, "irq">>] = "run" /\ guards[<<c, "irq">>] = <<>>
  /\ in_irq' = [in_irq EXCEPT ![c] = FALSE]
  /\ IF_flag' = [IF_flag EXCEPT ![c] = TRUE]
  /\ UNCHANGED <<locked, pc, want, were, guards>>

-----------------------------------------------------------------------------
Init ==
  /\ locked = [m \in Mutexes |-> FALSE]
  /\ IF_flag = [c \in Cpu |-> TRUE]
  /\ in_irq = [c \in Cpu |-> FALSE]
  /\ pc = [x \in Ctx |-> "run"]
  /\ want = [x \in Ctx |-> 0]
  /\ were = [x \in Ctx |-> FALSE]
  /\ guards = [x \in Ctx |-> <<>>]

Next ==
  \E c \in Cpu :
    \/ \E m \in Mutexes : Lock(c, m)
    \/ Acquire(c)
    \/ FailAndEnable(c)
    \/ Halt(c)
    \/ DisableAndRetry(c)
    \/ \E m \in Mutexes : TryLock(c, m)
    \/ \E i \in 1 .. MaxNest : Drop(c, i)
    \/ Interrupt(c)
    \/ InterruptReturn(c)

Spec == Init /\ [][Next]_vars

(* The steps of a failed exchange, and the drop of a guard.                *)
Retry(c)     == FailAndEnable(c) \/ Halt(c) \/ DisableAndRetry(c)
DropGuard(c) == \E i \in 1 .. MaxNest : Drop(c, i)

-----------------------------------------------------------------------------
(* Types.  A handler inside lock only ever spins: it runs with interrupts  *)
(* off, so it finds interrupts_were_enabled false and never reaches hlt.   *)
TypeOK ==
  /\ locked \in [Mutexes -> BOOLEAN]
  /\ IF_flag \in [Cpu -> BOOLEAN]
  /\ in_irq \in [Cpu -> BOOLEAN]
  /\ pc \in [Ctx -> {"run", "cas", "enabled", "halted", "woken"}]
  /\ \A c \in Cpu : pc[<<c, "irq">>] \in {"run", "cas"}
  /\ want \in [Ctx -> Mutexes \cup {0}]
  /\ were \in [Ctx -> BOOLEAN]
  /\ guards \in [Ctx -> Seq(Guard)]

(* Mutual exclusion: two live guards, of whatever contexts and processors, *)
(* are guards of different mutexes, and a mutex with a guard is locked.    *)
MutualExclusion ==
  \A x, y \in Ctx :
    \A i \in 1 .. Len(guards[x]), j \in 1 .. Len(guards[y]) :
      /\ locked[guards[x][i].mutex]
      /\ guards[x][i].mutex = guards[y][j].mutex => x = y /\ i = j

(* While the active context holds a guard its processor takes no           *)
(* interrupt: of nested guards only the outermost turns the flag on again, *)
(* although every guard restores what it saved.                            *)
HeldMeansDisabled ==
  \A c \in Cpu : guards[Active(c)] # <<>> => ~IF_flag[c]

(* lock's comment (sync/mod.rs:104): interrupts are off "to prevent        *)
(* deadlock".  A handler never waits for a mutex whose guard the thread it *)
(* interrupted holds: that thread could not run to drop it.                *)
NoSelfDeadlock ==
  \A c \in Cpu :
    pc[<<c, "irq">>] = "cas" =>
      \A i \in 1 .. Len(guards[<<c, "thread">>]) :
        guards[<<c, "thread">>][i].mutex # want[<<c, "irq">>]

(* No interrupt leak: a thread back outside all its guards has interrupts  *)
(* on again, as it started.                                                *)
InterruptsRestored ==
  \A c \in Cpu :
    (~in_irq[c] /\ pc[<<c, "thread">>] = "run" /\ guards[<<c, "thread">>] = <<>>)
      => IF_flag[c]

(* Somebody gets on: as long as some context is inside lock, some lock or  *)
(* try_lock keeps succeeding.  (Nothing prevents one waiter from losing    *)
(* every race, so no stronger promise holds.)                              *)
LockProgress ==
  <>[](\E x \in Ctx : pc[x] # "run") =>
    []<><<\E c \in Cpu : Acquire(c) \/ \E m \in Mutexes : TryLock(c, m)>>_vars
=============================================================================
