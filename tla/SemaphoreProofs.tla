--------------------------- MODULE SemaphoreProofs ---------------------------
(* Theorems about Semaphore, for every finite set of threads and every     *)
(* number of permits and signals that a usize can hold.                    *)
EXTENDS Semaphore, FiniteSetTheorems, TLAPS

(* The inductive invariant.                                                *)
SemInv == SemTypeOK /\ PermitsConserved

(* Below the modulus, the usize counter counts.                            *)
LEMMA NoWrap ==
  ASSUME NEW n \in Nat
  PROVE  /\ n + 1 < USize => (n + 1) % USize = n + 1
         /\ 0 < n /\ n < USize => (n + USize - 1) % USize = n - 1
BY SemaphoreConstants, SyncConstants

(* There are finitely many holders to count.                               *)
LEMMA HoldersFinite == IsFiniteSet(Holders) /\ Cardinality(Holders) \in Nat
<1>1. Holders \in SUBSET Threads
  BY DEF Holders
<1>2. IsFiniteSet(Holders)
  BY <1>1, SemaphoreConstants, SyncConstants, FS_Subset
<1> QED
  BY <1>2, FS_CardinalityType

(* Steps of a thread that neither takes nor returns a permit.              *)
LEMMA SamePermits ==
  ASSUME SemInv, NEW t \in Threads, NEW l \in SemLocations, sem_pc[t] # "in", l # "in",
         sem_pc' = [sem_pc EXCEPT ![t] = l], count' = count, produced' = produced
  PROVE  PermitsConserved'
<1>1. Holders' = Holders
  BY DEF Holders, SemInv, SemTypeOK
<1> QED
  BY <1>1 DEF SemInv, PermitsConserved

(* Every action keeps the invariant.                                       *)
LEMMA SemInvStep == SemInv /\ [SemNext]_semVars => SemInv'
<1> SUFFICES ASSUME SemInv, [SemNext]_semVars PROVE SemInv'
  OBVIOUS
<1>t. SemTypeOK /\ PermitsConserved
  BY DEF SemInv
<1>n. /\ count \in Nat /\ count < USize /\ produced \in Nat /\ produced <= MaxSignals
      /\ Initial \in Nat /\ MaxSignals \in Nat /\ USize \in Nat
      /\ Initial + MaxSignals < USize
      /\ Cardinality(Holders) \in Nat
  BY <1>t, SemaphoreConstants, SyncConstants, HoldersFinite DEF SemTypeOK
<1>1. CASE UNCHANGED semVars
  BY <1>1, <1>t DEF semVars, SemInv, SemTypeOK, PermitsConserved, Holders
<1>2. ASSUME NEW t \in Threads, CallWait(t) \/ CallTryWait(t) PROVE SemInv'
  <2>1. /\ count' = count /\ produced' = produced /\ current' = current
        /\ sem_pc[t] = "out" /\ \E l \in {"wait", "try"} : sem_pc' = [sem_pc EXCEPT ![t] = l]
    BY <1>2 DEF CallWait, CallTryWait
  <2>2. SemTypeOK'
    BY <2>1, <1>t DEF SemTypeOK, SemLocations
  <2>3. PermitsConserved'
    BY <2>1, SamePermits DEF SemLocations
  <2> QED
    BY <2>2, <2>3 DEF SemInv
<1>3. ASSUME NEW t \in Threads, WaitLoad(t) \/ TryLoad(t) PROVE SemInv'
  <2>1. /\ count' = count /\ produced' = produced
        /\ current' = [current EXCEPT ![t] = count]
        /\ sem_pc[t] \in {"wait", "try"}
        /\ \E l \in {"wait_cas", "try_cas", "out"} :
             /\ sem_pc' = [sem_pc EXCEPT ![t] = l]
             /\ l # "out" => count # 0
    BY <1>3 DEF WaitLoad, TryLoad
  <2>2. SemTypeOK'
    BY <2>1, <1>t, <1>n DEF SemTypeOK, SemLocations
  <2>3. PermitsConserved'
    BY <2>1, SamePermits DEF SemLocations
  <2> QED
    BY <2>2, <2>3 DEF SemInv
<1>4. ASSUME NEW t \in Threads, Exchange(t) PROVE SemInv'
  <2>1. /\ sem_pc[t] \in {"wait_cas", "try_cas"} /\ current[t] > 0
        /\ current' = current /\ produced' = produced
    BY <1>4, <1>t DEF Exchange, SemTypeOK
  <2>2. CASE count # current[t]
    <3>1. /\ count' = count
          /\ \E l \in {"wait", "try"} : sem_pc' = [sem_pc EXCEPT ![t] = l]
      BY <1>4, <2>2 DEF Exchange
    <3>2. SemTypeOK'
      BY <2>1, <3>1, <1>t DEF SemTypeOK, SemLocations
    <3>3. PermitsConserved'
      BY <2>1, <3>1, SamePermits DEF SemLocations
    <3> QED
      BY <3>2, <3>3 DEF SemInv
  <2>3. CASE count = current[t]
    <3>1. sem_pc' = [sem_pc EXCEPT ![t] = "in"] /\ count' = (count + USize - 1) % USize
      BY <1>4, <2>3 DEF Exchange
    <3>2. count > 0
      BY <2>1, <2>3
    <3>3. count' = count - 1
      BY <3>1, <3>2, <1>n, NoWrap
    <3>4. Holders' = Holders \cup {t} /\ t \notin Holders
      BY <2>1, <3>1, <1>t DEF Holders, SemTypeOK
    <3>5. Cardinality(Holders') = Cardinality(Holders) + 1
      BY <3>4, HoldersFinite, FS_AddElement
    <3>6. PermitsConserved'
      BY <2>1, <3>3, <3>5, <1>t, <1>n DEF PermitsConserved
    <3>7. SemTypeOK'
      BY <2>1, <3>1, <3>2, <3>3, <1>t, <1>n DEF SemTypeOK, SemLocations
    <3> QED
      BY <3>6, <3>7 DEF SemInv
  <2> QED
    BY <2>2, <2>3
<1>5. ASSUME NEW t \in Threads, SignalDone(t) PROVE SemInv'
  <2>1. /\ sem_pc[t] = "in" /\ sem_pc' = [sem_pc EXCEPT ![t] = "out"]
        /\ count' = (count + 1) % USize
        /\ current' = current /\ produced' = produced
    BY <1>5 DEF SignalDone
  <2>2. Holders' = Holders \ {t} /\ t \in Holders
    BY <2>1, <1>t DEF Holders, SemTypeOK
  <2>3. Cardinality(Holders') = Cardinality(Holders) - 1 /\ Cardinality(Holders') \in Nat
    BY <2>2, HoldersFinite, FS_RemoveElement, FS_CardinalityType
  <2>4. count + 1 < USize
    BY <2>3, <1>t, <1>n DEF PermitsConserved
  <2>5. count' = count + 1
    BY <2>1, <2>4, <1>n, NoWrap
  <2>6. PermitsConserved'
    BY <2>1, <2>3, <2>5, <1>t, <1>n DEF PermitsConserved
  <2>7. SemTypeOK'
    BY <2>1, <2>4, <2>5, <1>t, <1>n DEF SemTypeOK, SemLocations
  <2> QED
    BY <2>6, <2>7 DEF SemInv
<1>6. CASE Produce
  <2>1. /\ produced < MaxSignals /\ produced' = produced + 1
        /\ count' = (count + 1) % USize /\ sem_pc' = sem_pc /\ current' = current
    BY <1>6 DEF Produce
  <2>2. count + 1 < USize
    BY <2>1, <1>t, <1>n DEF PermitsConserved
  <2>3. count' = count + 1
    BY <2>1, <2>2, <1>n, NoWrap
  <2>4. Holders' = Holders
    BY <2>1 DEF Holders
  <2>5. PermitsConserved'
    BY <2>1, <2>3, <2>4, <1>t, <1>n DEF PermitsConserved
  <2>6. SemTypeOK'
    BY <2>1, <2>2, <2>3, <1>t, <1>n DEF SemTypeOK
  <2> QED
    BY <2>5, <2>6 DEF SemInv
<1> QED
  BY <1>1, <1>2, <1>3, <1>4, <1>5, <1>6 DEF SemNext, Inside

(* The invariant holds in every reachable state.                           *)
LEMMA SemInvariant == SemSpec => []SemInv
<1>1. SemInit => SemInv
  <2> SUFFICES ASSUME SemInit PROVE SemInv
    OBVIOUS
  <2>1. SemTypeOK
    BY SemaphoreConstants, SyncConstants DEF SemInit, SemTypeOK, SemLocations
  <2>2. Holders = {}
    BY DEF SemInit, Holders
  <2>3. PermitsConserved
    BY <2>2, FS_EmptySet, SemaphoreConstants, SyncConstants DEF SemInit, PermitsConserved
  <2> QED
    BY <2>1, <2>3 DEF SemInv
<1> QED
  BY <1>1, SemInvStep, PTL DEF SemSpec

(* Types hold; in particular no decrement of the counter underflows.       *)
THEOREM TypeCorrect == SemSpec => []SemTypeOK
<1>1. SemInv => SemTypeOK
  BY DEF SemInv
<1> QED
  BY <1>1, SemInvariant, PTL

(* Free permits and permits held always add up to the initial ones and the *)
(* signals of producers, for any number of threads in wait and try_wait.   *)
THEOREM Conservation == SemSpec => []PermitsConserved
<1>1. SemInv => PermitsConserved
  BY DEF SemInv
<1> QED
  BY <1>1, SemInvariant, PTL
=============================================================================
