----------------------------- MODULE MCScheduler -----------------------------
(* Constant values for the runs of Scheduler.                              *)
EXTENDS Scheduler

(* What new_kernel_thread builds: one real-time thread.                    *)
KernelShape == {<<"RealTime">>}

(* One thread of either of two classes, or a process with no thread yet.   *)
SmallShapes == {<<>>, <<"RealTime">>, <<"Normal">>}

(* A process that already has two threads when add_process gets it: the    *)
(* second is never queued (see README.md).                                 *)
TwoThreadShape == {<<"Normal", "Normal">>}
=============================================================================
