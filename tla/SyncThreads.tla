----------------------------- MODULE SyncThreads -----------------------------
(***************************************************************************)
(* What the spinning primitives of src/zarya-os/kernel/src/sync/mod.rs     *)
(* have in common: the threads that use them, each on a processor of its   *)
(* own or preempted between any two accesses, and the width of a usize.    *)
(***************************************************************************)
EXTENDS Naturals, FiniteSets

CONSTANTS
  Threads,     \* the threads that share a primitive
  USize        \* modulus of the usize counters

ASSUME SyncConstants ==
  /\ IsFiniteSet(Threads) /\ Threads # {}
  /\ USize \in Nat /\ USize >= 2 /\ Cardinality(Threads) < USize
=============================================================================
