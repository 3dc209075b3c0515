------------------------------- MODULE Kernel --------------------------------
(***************************************************************************)
(* The synchronization primitives and the services with tables of their    *)
(* own.  They share no state and do not call each other (the locks of the  *)
(* services are those of the spin crate), so a behaviour is about one of   *)
(* them: either `used' or `service' names it, and the other is "none".     *)
(***************************************************************************)
EXTENDS SyncPrimitives, KernelServices

kernelVars == <<syncVars, serviceVars>>

KernelInit ==
  /\ SyncInit /\ ServicesInit
  /\ used = "none" <=> service # "none"

KernelNext ==
  \/ SyncNext /\ UNCHANGED serviceVars
  \/ ServicesNext /\ UNCHANGED syncVars

KernelSpec == KernelInit /\ [][KernelNext]_kernelVars /\ SyncFairness
=============================================================================
