------------------------------ MODULE MCKernel -------------------------------
(* The constants of Kernel, of which MCVfs has the boot mounts.            *)
EXTENDS Kernel, MCVfs
=============================================================================
