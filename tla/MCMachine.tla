------------------------------ MODULE MCMachine ------------------------------
(* The constants of Machine, of which MCVirtualMemory has the memory's.    *)
EXTENDS Machine, MCVirtualMemory

(* With bytes of two bits: motions that fit, and one that does not.        *)
SmallMotions == -3 .. 1
=============================================================================
