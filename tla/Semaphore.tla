------------------------------ MODULE Semaphore ------------------------------
(***************************************************************************)
(* The counting semaphore of src/zarya-os/kernel/src/sync/mod.rs, one      *)
(* atomic access per step.  Threads take a permit with wait or try_wait    *)
(* and give it back with signal; producers (an interrupt handler that      *)
(* announces an event) signal without having taken one.  A load of 0       *)
(* (wait spins, try_wait returns false) and an exchange that fails lead    *)
(* back to the load.                                                       *)
(***************************************************************************)
EXTENDS SyncThreads

CONSTANTS
  Initial,      \* Semaphore::new's argument
  MaxSignals    \* bound: signals of producers

ASSUME SemaphoreConstants ==
  Initial \in Nat /\ MaxSignals \in Nat /\ Initial + MaxSignals < USize

VARIABLES
  count,        \* Semaphore::count
  sem_pc,           \* thread -> "out", "wait" or "try" (to load), "wait_cas" or
                \*   "try_cas" (loaded), "in" (has a permit)
  current,      \* thread -> the local current of wait and try_wait
  produced      \* producers' signals so far

semVars == <<count, sem_pc, current, produced>>

SemLocations == {"out", "wait", "try", "wait_cas", "try_cas", "in"}

-----------------------------------------------------------------------------
CallWait(t) ==
  /\ sem_pc[t] = "out"
  /\ sem_pc' = [sem_pc EXCEPT ![t] = "wait"]
  /\ UNCHANGED <<count, current, produced>>

CallTryWait(t) ==
  /\ sem_pc[t] = "out"
  /\ sem_pc' = [sem_pc EXCEPT ![t] = "try"]
  /\ UNCHANGED <<count, current, produced>>

(* wait: the load finds a permit; otherwise it spins.                      *)
WaitLoad(t) ==
  /\ sem_pc[t] = "wait" /\ count # 0
  /\ current' = [current EXCEPT ![t] = count]
  /\ sem_pc' = [sem_pc EXCEPT ![t] = "wait_cas"]
  /\ UNCHANGED <<count, produced>>

(* try_wait: the same, or false at once.                                   *)
TryLoad(t) ==
  /\ sem_pc[t] = "try"
  /\ current' = [current EXCEPT ![t] = count]
  /\ sem_pc' = [sem_pc EXCEPT ![t] = IF count = 0 THEN "out" ELSE "try_cas"]
  /\ UNCHANGED <<count, produced>>

ExchangeBlindly(t) ==
  /\ sem_pc[t] \in {"wait_cas", "try_cas"}
  /\ count' = (current[t] + USize - 1) % USize
  /\ sem_pc' = [sem_pc EXCEPT ![t] = "in"]
  /\ UNCHANGED <<current, produced>>

ExchangeGivesUp(t) ==
  /\ sem_pc[t] \in {"wait_cas", "try_cas"}
  /\ count = current[t]
  /\ count' = (current[t] + USize - 1) % USize
  /\ sem_pc' = [sem_pc EXCEPT ![t] = "in"]
  /\ UNCHANGED <<current, produced>>

(* compare_exchange_weak, of both: the permit, or back to the load.        *)
Exchange(t) ==
  /\ sem_pc[t] \in {"wait_cas", "try_cas"}
  /\ \/ /\ count = current[t]
        /\ count' = (current[t] + USize - 1) % USize
        /\ sem_pc' = [sem_pc EXCEPT ![t] = "in"]
     \/ /\ count # current[t]
        /\ sem_pc' = [sem_pc EXCEPT ![t] = IF @ = "wait_cas" THEN "wait" ELSE "try"]
        /\ UNCHANGED count
  /\ UNCHANGED <<current, produced>>

(* signal by a thread that holds a permit.                                 *)
SignalDone(t) ==
  /\ sem_pc[t] = "in"
  /\ count' = (count + 1) % USize
  /\ sem_pc' = [sem_pc EXCEPT ![t] = "out"]
  /\ UNCHANGED <<current, produced>>

(* signal by a producer.                                                   *)
Produce ==
  /\ produced < MaxSignals
  /\ count' = (count + 1) % USize
  /\ produced' = produced + 1
  /\ UNCHANGED <<sem_pc, current>>

-----------------------------------------------------------------------------
SemInit ==
  /\ count = Initial
  /\ sem_pc = [t \in Threads |-> "out"]
  /\ current = [t \in Threads |-> 0]
  /\ produced = 0

Inside(t) == WaitLoad(t) \/ TryLoad(t) \/ Exchange(t) \/ SignalDone(t)

SemNext ==
  \/ \E t \in Threads : CallWait(t) \/ CallTryWait(t) \/ Inside(t)
  \/ Produce

SemSpec == SemInit /\ [][SemNext]_semVars

(* A thread inside the semaphore keeps running and gives its permit back.  *)
SemFairness == \A t \in Threads : WF_semVars(Inside(t))

-----------------------------------------------------------------------------
Holders == {t \in Threads : sem_pc[t] = "in"}

(* Types.  A thread at its exchange has loaded a permit, so current - 1 in *)
(* the code does not underflow.                                            *)
SemTypeOK ==
  /\ count \in 0 .. USize - 1
  /\ sem_pc \in [Threads -> SemLocations]
  /\ current \in [Threads -> 0 .. USize - 1]
  /\ produced \in 0 .. MaxSignals
  /\ \A t \in Threads : sem_pc[t] \in {"wait_cas", "try_cas"} => current[t] > 0

(* Permits are neither lost nor made, whatever loads and exchanges of      *)
(* other threads come between a thread's load and its exchange (a count    *)
(* that has come back to the loaded value included).                       *)
PermitsConserved == count + Cardinality(Holders) = Initial + produced

(* A thread that waits while permits are free does not wait for nothing:   *)
(* some thread gets one.                                                   *)
PermitTaken ==
  (count > 0 /\ \E t \in Threads : sem_pc[t] \in {"wait", "wait_cas"})
    ~> (Holders # {})
=============================================================================
