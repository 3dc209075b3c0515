-------------------------- MODULE SpinBarrierProofs --------------------------
(* Theorems about SpinBarrier, for every number of threads and rounds.     *)
EXTENDS SpinBarrier, FiniteSetTheorems, TLAPS

(* The threads that have arrived at the round now being collected.         *)
Here == {t \in Threads : arrived[t] = leads + 1}

Leading(t) == bar_pc[t] \in {"reset", "bump"}

(* A thread outside, or not yet counted, has been through every round; one *)
(* that spins does so in the current round, or still in the last one,      *)
(* which it can tell by the generation it has loaded.                      *)
ThreadInv ==
  \A t \in Threads :
    /\ bar_pc[t] \in {"out", "arrive"} => arrived[t] = leads /\ passed[t] = leads
    /\ bar_pc[t] = "arrive" => gen[t] = generation /\ passed[t] < MaxRounds
    /\ bar_pc[t] = "spin" =>
         \/ arrived[t] = leads + 1 /\ passed[t] = leads /\ gen[t] = generation
         \/ /\ arrived[t] = leads /\ passed[t] + 1 = leads
            /\ generation = (gen[t] + 1) % USize
    /\ Leading(t) => arrived[t] = leads + 1 /\ passed[t] = leads

(* While there is a leader, everybody else spins in its round.             *)
LeaderInv ==
  \A t \in Threads : Leading(t) =>
    \A u \in Threads : arrived[u] = leads + 1 /\ (u # t => bar_pc[u] = "spin")

(* waiting counts those who are here, until the leader clears it; and a    *)
(* full barrier has a leader.                                              *)
CountInv ==
  /\ (\E t \in Threads : bar_pc[t] = "bump") => waiting = 0
  /\ (\A t \in Threads : bar_pc[t] # "bump") => waiting = Cardinality(Here)
  /\ Here = Threads => \E t \in Threads : Leading(t)

(* BarTypeOK without its last conjunct, which follows from the rest.          *)
BarrierTypes ==
  /\ waiting \in 0 .. COUNT
  /\ generation \in 0 .. USize - 1
  /\ bar_pc \in [Threads -> BarLocations]
  /\ gen \in [Threads -> 0 .. USize - 1]
  /\ arrived \in [Threads -> 0 .. MaxRounds]
  /\ passed \in [Threads -> 0 .. MaxRounds]
  /\ leads \in 0 .. MaxRounds

BarrierInv == BarrierTypes /\ ThreadInv /\ LeaderInv /\ CountInv

-----------------------------------------------------------------------------
(* Arithmetic of the usize counters.                                       *)

LEMMA CountPositive == COUNT \in Nat /\ COUNT > 0 /\ COUNT < USize /\ USize \in Nat
<1>1. Cardinality(Threads) \in Nat /\ Cardinality(Threads) # 0
  BY SpinBarrierConstants, SyncConstants, FS_CardinalityType, FS_EmptySet
<1> QED
  BY <1>1, SpinBarrierConstants, SyncConstants DEF COUNT

LEMMA NextGeneration ==
  ASSUME NEW g \in 0 .. USize - 1
  PROVE  (g + 1) % USize \in 0 .. USize - 1 /\ (g + 1) % USize # g
<1>1. CASE g + 1 < USize
  BY <1>1, SpinBarrierConstants, SyncConstants
<1>2. CASE g + 1 = USize
  BY <1>2, SpinBarrierConstants, SyncConstants
<1> QED
  BY <1>1, <1>2, SpinBarrierConstants, SyncConstants

LEMMA Remaining ==
  ASSUME NEW w \in Nat, w < COUNT
  PROVE  (COUNT + USize - w - 1) % USize = COUNT - w - 1
<1>1. COUNT - w - 1 \in 0 .. USize - 1
  BY CountPositive
<1>2. ASSUME NEW k \in 0 .. USize - 1 PROVE (k + USize) % USize = k
  BY <1>2, CountPositive
<1> QED
  BY <1>1, <1>2, CountPositive

(* Sets of threads are finite, and a set with all of them is Threads.      *)
LEMMA ThreadSets ==
  ASSUME NEW S \in SUBSET Threads
  PROVE  /\ IsFiniteSet(S) /\ Cardinality(S) \in Nat /\ Cardinality(S) <= COUNT
         /\ Cardinality(S) = COUNT <=> S = Threads
<1>1. /\ IsFiniteSet(S) /\ Cardinality(S) <= Cardinality(Threads)
      /\ Cardinality(Threads) = Cardinality(S) => Threads = S
  BY SpinBarrierConstants, SyncConstants, FS_Subset
<1>2. Cardinality(S) \in Nat
  BY <1>1, FS_CardinalityType
<1> QED
  BY <1>1, <1>2 DEF COUNT

(* A thread that is about to arrive rules out a leader, so that waiting is *)
(* what it should be and there is room.                                    *)
LEMMA RoomToArrive ==
  ASSUME BarrierInv, NEW t \in Threads, bar_pc[t] \in {"out", "arrive"}
  PROVE  /\ \A u \in Threads : ~Leading(u)
         /\ waiting = Cardinality(Here) /\ waiting < COUNT
<1>1. \A u \in Threads : ~Leading(u)
  BY DEF BarrierInv, LeaderInv, Leading
<1>2. waiting = Cardinality(Here) /\ Here # Threads
  BY <1>1 DEF BarrierInv, CountInv, Leading
<1>3. Here \in SUBSET Threads
  BY DEF Here
<1> QED
  BY <1>1, <1>2, <1>3, ThreadSets, CountPositive

-----------------------------------------------------------------------------
(* Every action keeps the invariant.                                       *)
LEMMA BarrierInvStep == BarrierInv /\ [BarNext]_barVars => BarrierInv'
<1> SUFFICES ASSUME BarrierInv, [BarNext]_barVars PROVE BarrierInv'
  OBVIOUS
<1>i. BarrierTypes /\ ThreadInv /\ LeaderInv /\ CountInv
  BY DEF BarrierInv
<1>n. /\ leads \in Nat /\ MaxRounds \in Nat
      /\ \A t \in Threads : arrived[t] \in Nat /\ passed[t] \in Nat
  BY <1>i, SpinBarrierConstants, SyncConstants DEF BarrierTypes
<1>1. CASE UNCHANGED barVars
  BY <1>1, <1>i
  DEF barVars, BarrierInv, BarrierTypes, ThreadInv, LeaderInv, CountInv, Leading, Here
<1>2. ASSUME NEW t \in Threads, LoadGeneration(t) PROVE BarrierInv'
  <2>1. /\ passed[t] < MaxRounds /\ bar_pc[t] = "out" /\ bar_pc' = [bar_pc EXCEPT ![t] = "arrive"]
        /\ gen' = [gen EXCEPT ![t] = generation]
        /\ UNCHANGED <<waiting, generation, arrived, passed, leads>>
    BY <1>2 DEF LoadGeneration, BarGoto
  <2>2. BarrierTypes'
    BY <2>1, <1>i DEF BarrierTypes, BarLocations
  <2>3. ThreadInv'
    BY <2>1, <1>i DEF BarrierTypes, ThreadInv, Leading
  <2>4. \A u \in Threads : bar_pc[u] # "bump" /\ ~Leading(u) /\ ~Leading(u)' /\ bar_pc'[u] # "bump"
    BY <2>1, <1>i, RoomToArrive DEF BarrierTypes, Leading
  <2>5. LeaderInv'
    BY <2>4 DEF LeaderInv
  <2>6. Here' = Here
    BY <2>1 DEF Here
  <2>7. CountInv'
    BY <2>1, <2>4, <2>6, <1>i DEF CountInv
  <2> QED
    BY <2>2, <2>3, <2>5, <2>7 DEF BarrierInv
<1>3. ASSUME NEW t \in Threads, Arrive(t) PROVE BarrierInv'
  <2> DEFINE remaining == (COUNT + USize - waiting - 1) % USize
             target == IF remaining = 0 THEN "reset" ELSE "spin"
  <2>1. /\ bar_pc[t] = "arrive" /\ bar_pc' = [bar_pc EXCEPT ![t] = target]
        /\ waiting' = (waiting + 1) % USize
        /\ arrived' = [arrived EXCEPT ![t] = @ + 1]
        /\ UNCHANGED <<generation, gen, passed, leads>>
    BY <1>3 DEF Arrive, BarGoto
  <2>2. /\ \A u \in Threads : ~Leading(u)
        /\ waiting = Cardinality(Here) /\ waiting < COUNT
    BY <2>1, RoomToArrive
  <2>3. waiting \in Nat /\ waiting' = waiting + 1
    <3>1. waiting \in Nat
      BY <1>i, CountPositive DEF BarrierTypes
    <3>2. waiting + 1 < USize
      BY <3>1, <2>2, CountPositive
    <3> QED
      BY <3>1, <3>2, <2>1, CountPositive
  <2>4. remaining = COUNT - waiting - 1
    BY <2>2, <2>3, Remaining
  <2>5. /\ arrived[t] = leads /\ passed[t] = leads /\ passed[t] < MaxRounds
        /\ gen[t] = generation
    BY <2>1, <1>i DEF ThreadInv
  <2>6. Here' = Here \cup {t} /\ t \notin Here
    BY <2>1, <2>5, <1>i, <1>n DEF Here, BarrierTypes
  <2>7. Cardinality(Here') = waiting'
    <3>1. Here \in SUBSET Threads
      BY DEF Here
    <3>2. IsFiniteSet(Here)
      BY <3>1, ThreadSets
    <3> QED
      BY <3>2, <2>2, <2>3, <2>6, FS_AddElement
  <2>8. target = "reset" <=> Here' = Threads
    <3>1. Here' \in SUBSET Threads
      BY DEF Here
    <3>2. Here' = Threads <=> waiting' = COUNT
      BY <3>1, <2>7, ThreadSets
    <3> QED
      BY <3>2, <2>3, <2>4, CountPositive
  <2>9. target \in {"reset", "spin"}
    OBVIOUS
  <2> HIDE DEF target, remaining
  <2>10. /\ bar_pc' \in [Threads -> BarLocations] /\ bar_pc'[t] = target
         /\ \A u \in Threads : u # t => bar_pc'[u] = bar_pc[u] /\ arrived'[u] = arrived[u]
         /\ arrived'[t] = leads + 1
    BY <2>1, <2>5, <2>9, <1>i DEF BarrierTypes, BarLocations
  <2>11. BarrierTypes'
    <3>1. arrived' \in [Threads -> 0 .. MaxRounds]
      BY <2>1, <2>5, <1>i, <1>n DEF BarrierTypes
    <3>2. waiting' \in 0 .. COUNT
      BY <2>2, <2>3, CountPositive
    <3> QED
      BY <3>1, <3>2, <2>1, <2>10, <1>i DEF BarrierTypes
  <2>12. ThreadInv'
    <3> SUFFICES ASSUME NEW u \in Threads
                 PROVE  /\ bar_pc'[u] \in {"out", "arrive"} => arrived'[u] = leads /\ passed[u] = leads
                        /\ bar_pc'[u] = "arrive" => gen[u] = generation /\ passed[u] < MaxRounds
                        /\ bar_pc'[u] = "spin" =>
                             \/ arrived'[u] = leads + 1 /\ passed[u] = leads /\ gen[u] = generation
                             \/ /\ arrived'[u] = leads /\ passed[u] + 1 = leads
                                /\ generation = (gen[u] + 1) % USize
                        /\ bar_pc'[u] \in {"reset", "bump"} => arrived'[u] = leads + 1 /\ passed[u] = leads
      BY <2>1 DEF ThreadInv, Leading
    <3>1. CASE u = t
      BY <3>1, <2>5, <2>9, <2>10
    <3>2. CASE u # t
      BY <3>2, <2>10, <1>i DEF ThreadInv, Leading
    <3> QED
      BY <3>1, <3>2
  <2>13. \A u \in Threads : u # t => bar_pc'[u] \in {"out", "arrive", "spin"}
    BY <2>2, <2>10 DEF Leading, BarLocations
  <2>14. LeaderInv'
    <3> SUFFICES ASSUME NEW u \in Threads, Leading(u)', NEW v \in Threads
                 PROVE  arrived'[v] = leads + 1 /\ (v # u => bar_pc'[v] = "spin")
      BY <2>1 DEF LeaderInv
    <3>1. u = t /\ target = "reset"
      BY <2>9, <2>10, <2>13 DEF Leading
    <3>2. arrived'[v] = leads' + 1
      BY <3>1, <2>8 DEF Here
    <3>3. v # t => bar_pc'[v] \notin {"out", "arrive"}
      BY <3>2, <2>1, <2>12, <1>n DEF ThreadInv
    <3> QED
      BY <3>1, <3>2, <3>3, <2>1, <2>13
  <2>15. CountInv'
    <3>1. \A u \in Threads : bar_pc'[u] # "bump"
      BY <2>9, <2>10, <2>13
    <3>2. Here' = Threads => Leading(t)'
      BY <2>8, <2>10 DEF Leading
    <3> QED
      BY <3>1, <3>2, <2>7 DEF CountInv
  <2> QED
    BY <2>11, <2>12, <2>14, <2>15 DEF BarrierInv
<1>4. ASSUME NEW t \in Threads, Reset(t) PROVE BarrierInv'
  <2>1. /\ bar_pc[t] = "reset" /\ bar_pc' = [bar_pc EXCEPT ![t] = "bump"] /\ waiting' = 0
        /\ UNCHANGED <<generation, gen, arrived, passed, leads>>
    BY <1>4 DEF Reset, BarGoto
  <2>2. BarrierTypes'
    BY <2>1, <1>i, CountPositive DEF BarrierTypes, BarLocations
  <2>3. ThreadInv'
    BY <2>1, <1>i DEF BarrierTypes, ThreadInv, Leading
  <2>4. LeaderInv'
    BY <2>1, <1>i DEF BarrierTypes, LeaderInv, Leading
  <2>5. bar_pc'[t] = "bump"
    BY <2>1, <1>i DEF BarrierTypes
  <2>6. CountInv'
    BY <2>1, <2>5 DEF CountInv, Leading
  <2> QED
    BY <2>2, <2>3, <2>4, <2>6 DEF BarrierInv
<1>5. ASSUME NEW t \in Threads, Bump(t) PROVE BarrierInv'
  <2>1. /\ bar_pc[t] = "bump" /\ bar_pc' = [bar_pc EXCEPT ![t] = "out"]
        /\ generation' = (generation + 1) % USize
        /\ passed' = [passed EXCEPT ![t] = @ + 1] /\ leads' = leads + 1
        /\ UNCHANGED <<waiting, gen, arrived>>
    BY <1>5 DEF Bump, BarGoto
  <2>2. /\ waiting = 0 /\ arrived[t] = leads + 1 /\ passed[t] = leads
        /\ \A u \in Threads : arrived[u] = leads + 1 /\ (u # t => bar_pc[u] = "spin")
    BY <2>1, <1>i DEF CountInv, LeaderInv, ThreadInv, Leading
  <2>3. leads + 1 \in 0 .. MaxRounds
    BY <2>2, <1>i DEF BarrierTypes
  <2>4. \A u \in Threads : u # t => /\ bar_pc'[u] = "spin" /\ passed'[u] = leads
                                    /\ gen[u] = generation
    BY <2>1, <2>2, <1>i, <1>n DEF BarrierTypes, ThreadInv
  <2>5. bar_pc'[t] = "out" /\ passed'[t] = leads + 1
    BY <2>1, <2>2, <1>i DEF BarrierTypes
  <2>6. BarrierTypes'
    BY <2>1, <2>2, <2>3, <1>i, NextGeneration DEF BarrierTypes, BarLocations
  <2>7. ThreadInv'
    <3> SUFFICES ASSUME NEW u \in Threads
                 PROVE  /\ bar_pc'[u] \in {"out", "arrive"} =>
                             arrived'[u] = leads' /\ passed'[u] = leads'
                        /\ bar_pc'[u] = "arrive" => gen'[u] = generation' /\ passed'[u] < MaxRounds
                        /\ bar_pc'[u] = "spin" =>
                             /\ arrived'[u] = leads' /\ passed'[u] + 1 = leads'
                             /\ generation' = (gen'[u] + 1) % USize
                        /\ bar_pc'[u] \notin {"reset", "bump"}
      BY DEF ThreadInv, Leading
    <3>1. CASE u = t
      BY <3>1, <2>1, <2>2, <2>5
    <3>2. CASE u # t
      BY <3>2, <2>1, <2>2, <2>4
    <3> QED
      BY <3>1, <3>2
  <2>8. \A u \in Threads : bar_pc'[u] \notin {"reset", "bump"}
    BY <2>4, <2>5
  <2>9. LeaderInv'
    BY <2>8 DEF LeaderInv, Leading
  <2>10. Here' = {}
    BY <2>1, <2>2, <1>n DEF Here
  <2>11. CountInv'
    BY <2>1, <2>2, <2>8, <2>10, FS_EmptySet, SpinBarrierConstants, SyncConstants DEF CountInv
  <2> QED
    BY <2>6, <2>7, <2>9, <2>11 DEF BarrierInv
<1>6. ASSUME NEW t \in Threads, Leave(t) PROVE BarrierInv'
  <2>1. /\ bar_pc[t] = "spin" /\ bar_pc' = [bar_pc EXCEPT ![t] = "out"] /\ gen[t] # generation
        /\ passed' = [passed EXCEPT ![t] = @ + 1]
        /\ UNCHANGED <<waiting, generation, gen, arrived, leads>>
    BY <1>6 DEF Leave, BarGoto
  <2>2. arrived[t] = leads /\ passed[t] + 1 = leads
    BY <2>1, <1>i DEF ThreadInv
  <2>3. \A u \in Threads : ~Leading(u)
    BY <2>2, <1>i, <1>n DEF LeaderInv
  <2>4. BarrierTypes'
    <3>1. passed' \in [Threads -> 0 .. MaxRounds]
      BY <2>1, <2>2, <1>i DEF BarrierTypes
    <3> QED
      BY <3>1, <2>1, <1>i DEF BarrierTypes, BarLocations
  <2>5. ThreadInv'
    BY <2>1, <2>2, <1>i DEF BarrierTypes, ThreadInv, Leading
  <2>6. \A u \in Threads : ~Leading(u)' /\ bar_pc[u] # "bump" /\ bar_pc'[u] # "bump"
    BY <2>1, <2>3, <1>i DEF BarrierTypes, Leading
  <2>7. LeaderInv'
    BY <2>6 DEF LeaderInv
  <2>8. Here' = Here
    BY <2>1 DEF Here
  <2>9. CountInv'
    BY <2>1, <2>3, <2>6, <2>8, <1>i DEF CountInv
  <2> QED
    BY <2>4, <2>5, <2>7, <2>9 DEF BarrierInv
<1> QED
  BY <1>1, <1>2, <1>3, <1>4, <1>5, <1>6 DEF BarNext, BarStep, LeaderStep

(* The invariant holds in every reachable state.                           *)
LEMMA BarrierInvariant == BarSpec => []BarrierInv
<1>1. BarInit => BarrierInv
  <2> SUFFICES ASSUME BarInit PROVE BarrierInv
    OBVIOUS
  <2>1. BarrierTypes
    BY CountPositive, SpinBarrierConstants, SyncConstants DEF BarInit, BarrierTypes, BarLocations
  <2>2. ThreadInv /\ LeaderInv
    BY DEF BarInit, ThreadInv, LeaderInv, Leading
  <2>3. Here = {}
    BY DEF BarInit, Here
  <2>4. CountInv
    BY <2>3, FS_EmptySet, SpinBarrierConstants, SyncConstants DEF BarInit, CountInv
  <2> QED
    BY <2>1, <2>2, <2>4 DEF BarrierInv
<1> QED
  BY <1>1, BarrierInvStep, PTL DEF BarSpec

(* Types hold; in particular "count - waiting - 1" never underflows.       *)
THEOREM TypeCorrect == BarSpec => []BarTypeOK
<1>1. BarrierInv => BarTypeOK
  <2> SUFFICES ASSUME BarrierInv PROVE BarTypeOK
    OBVIOUS
  <2>1. \A t \in Threads : bar_pc[t] = "arrive" => waiting < COUNT
    BY RoomToArrive
  <2> QED
    BY <2>1 DEF BarrierInv, BarrierTypes, BarTypeOK
<1> QED
  BY <1>1, BarrierInvariant, PTL

(* No thread returns from a round before all threads have arrived at it,   *)
(* for any number of threads and rounds, generation wrapping included.     *)
THEOREM BarrierCorrect == BarSpec => []BarrierHolds
<1>1. BarrierInv => BarrierHolds
  <2> SUFFICES ASSUME BarrierInv, NEW t \in Threads, NEW u \in Threads
               PROVE  passed[t] <= arrived[u]
    BY DEF BarrierHolds
  <2>1. \A v \in Threads : bar_pc[v] \in BarLocations
    BY DEF BarrierInv, BarrierTypes
  <2>2. passed[t] <= leads
    BY <2>1 DEF BarrierInv, BarrierTypes, ThreadInv, Leading, BarLocations
  <2>3. leads <= arrived[u]
    BY <2>1 DEF BarrierInv, BarrierTypes, ThreadInv, Leading, BarLocations
  <2> QED
    BY <2>2, <2>3 DEF BarrierInv, BarrierTypes
<1> QED
  BY <1>1, BarrierInvariant, PTL

(* Each round has exactly one leader.                                      *)
THEOREM LeaderUnique == BarSpec => []OneLeader
<1>1. BarrierInv => OneLeader
  <2> SUFFICES ASSUME BarrierInv, NEW t \in Threads
               PROVE  passed[t] <= leads /\ leads <= arrived[t]
    BY DEF OneLeader
  <2>1. bar_pc[t] \in BarLocations
    BY DEF BarrierInv, BarrierTypes
  <2> QED
    BY <2>1 DEF BarrierInv, BarrierTypes, ThreadInv, Leading, BarLocations
<1> QED
  BY <1>1, BarrierInvariant, PTL
=============================================================================
