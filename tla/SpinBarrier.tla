----------------------------- MODULE SpinBarrier -----------------------------
(***************************************************************************)
(* The spinning barrier of src/zarya-os/kernel/src/sync/mod.rs (Barrier),  *)
(* used again and again by exactly the threads it was created for, one     *)
(* atomic access per step.  Accesses are sequentially consistent: the code *)
(* targets x86_64, and its only plain store, waiting.store(0), is followed *)
(* by a locked instruction.                                                *)
(***************************************************************************)
EXTENDS SyncThreads

CONSTANT MaxRounds    \* bound: calls of wait per thread

ASSUME SpinBarrierConstants == MaxRounds \in Nat

(* Barrier::count: the barrier is created for these threads.               *)
COUNT == Cardinality(Threads)

VARIABLES
  waiting,     \* Barrier::waiting
  generation,  \* Barrier::generation
  bar_pc,          \* thread -> where it is in wait, "out" outside
  gen,         \* thread -> wait's local gen
  arrived,     \* thread -> its arrivals so far (history)
  passed,      \* thread -> its returns so far (history)
  leads        \* returns with true so far (history)

barVars == <<waiting, generation, bar_pc, gen, arrived, passed, leads>>

BarLocations == {"out", "arrive", "spin", "reset", "bump"}

BarGoto(t, from, to) == bar_pc[t] = from /\ bar_pc' = [bar_pc EXCEPT ![t] = to]

-----------------------------------------------------------------------------
(* wait is called, and loads generation.                                   *)
LoadGeneration(t) ==
  /\ passed[t] < MaxRounds
  /\ BarGoto(t, "out", "arrive")
  /\ gen' = [gen EXCEPT ![t] = generation]
  /\ UNCHANGED <<waiting, generation, arrived, passed, leads>>

ArriveOneEarly(t) ==
  LET remaining == (COUNT + USize - waiting - 2) % USize
  IN  /\ BarGoto(t, "arrive", IF remaining = 0 THEN "reset" ELSE "spin")
      /\ waiting' = (waiting + 1) % USize
      /\ arrived' = [arrived EXCEPT ![t] = @ + 1]
      /\ UNCHANGED <<generation, gen, passed, leads>>

(* waiting.fetch_add(1): the thread that makes it count is the leader.     *)
Arrive(t) ==
  LET remaining == (COUNT + USize - waiting - 1) % USize
  IN  /\ BarGoto(t, "arrive", IF remaining = 0 THEN "reset" ELSE "spin")
      /\ waiting' = (waiting + 1) % USize
      /\ arrived' = [arrived EXCEPT ![t] = @ + 1]
      /\ UNCHANGED <<generation, gen, passed, leads>>

(* The leader: waiting.store(0) ...                                        *)
Reset(t) ==
  /\ BarGoto(t, "reset", "bump")
  /\ waiting' = 0
  /\ UNCHANGED <<generation, gen, arrived, passed, leads>>

(* ... generation.fetch_add(1), and wait returns true.                     *)
Bump(t) ==
  /\ BarGoto(t, "bump", "out")
  /\ generation' = (generation + 1) % USize
  /\ passed' = [passed EXCEPT ![t] = @ + 1]
  /\ leads' = leads + 1
  /\ UNCHANGED <<waiting, gen, arrived>>

BumpThenReset(t) ==
  \/ /\ BarGoto(t, "reset", "bump")
     /\ generation' = (generation + 1) % USize
     /\ leads' = leads + 1
     /\ UNCHANGED <<waiting, gen, arrived, passed>>
  \/ /\ BarGoto(t, "bump", "out")
     /\ waiting' = 0
     /\ passed' = [passed EXCEPT ![t] = @ + 1]
     /\ UNCHANGED <<generation, gen, arrived, leads>>

LeaderStep(t) == Reset(t) \/ Bump(t)

LeaveAsLeader(t) ==
  /\ BarGoto(t, "spin", "out")
  /\ gen[t] # generation
  /\ passed' = [passed EXCEPT ![t] = @ + 1]
  /\ leads' = leads + 1
  /\ UNCHANGED <<waiting, generation, gen, arrived>>

(* The others: the loop ends when generation has moved; false.             *)
Leave(t) ==
  /\ BarGoto(t, "spin", "out")
  /\ gen[t] # generation
  /\ passed' = [passed EXCEPT ![t] = @ + 1]
  /\ UNCHANGED <<waiting, generation, gen, arrived, leads>>

-----------------------------------------------------------------------------
BarInit ==
  /\ waiting = 0
  /\ generation = 0
  /\ bar_pc = [t \in Threads |-> "out"]
  /\ gen = [t \in Threads |-> 0]
  /\ arrived = [t \in Threads |-> 0]
  /\ passed = [t \in Threads |-> 0]
  /\ leads = 0

BarStep(t) == LoadGeneration(t) \/ Arrive(t) \/ LeaderStep(t) \/ Leave(t)

BarNext == \E t \in Threads : BarStep(t)

BarSpec == BarInit /\ [][BarNext]_barVars

-----------------------------------------------------------------------------
(* Types.  waiting never exceeds count: "count - waiting - 1" in wait does *)
(* not underflow however the threads of two rounds overlap.                *)
BarTypeOK ==
  /\ waiting \in 0 .. COUNT
  /\ generation \in 0 .. USize - 1
  /\ bar_pc \in [Threads -> BarLocations]
  /\ gen \in [Threads -> 0 .. USize - 1]
  /\ arrived \in [Threads -> 0 .. MaxRounds]
  /\ passed \in [Threads -> 0 .. MaxRounds]
  /\ leads \in 0 .. MaxRounds
  /\ \A t \in Threads : bar_pc[t] = "arrive" => waiting < COUNT

(* Nobody returns from round n before everybody has arrived at round n:    *)
(* not even when a fast thread is back in wait while slow ones of the last *)
(* round still spin, and not when generation wraps.                        *)
BarrierHolds == \A t, u \in Threads : passed[t] <= arrived[u]

(* Each round has exactly one thread for which wait returns true.          *)
OneLeader ==
  \A t \in Threads : passed[t] <= leads /\ leads <= arrived[t]

(* Nobody is left behind: a thread that has called wait returns from it,   *)
(* even if the others are back at the barrier before it looks at           *)
(* generation again.                                                       *)
WaitReturns == \A t \in Threads : bar_pc[t] # "out" ~> bar_pc[t] = "out"
=============================================================================
