--------------------------- MODULE ThreadLifecycle ---------------------------
(***************************************************************************)
(* What the thread table promises its callers, whatever the queues do:     *)
(* the states of ThreadState and the moves between them that the comments  *)
(* of src/zarya-os/kernel/src/task/mod.rs describe.  One processor: at     *)
(* most one thread runs, a thread runs only out of Ready, and "Terminated" *)
(* is the end of a thread.  Scheduler.tla is checked against this module.  *)
(***************************************************************************)

CONSTANT Tid          \* thread identifiers

VARIABLE st           \* st[t]: the ThreadState of t, "unborn" before it exists

LifeStates == {"unborn", "Ready", "Running", "Blocked", "Terminated"}

LifeInit == st = [t \in Tid |-> "unborn"]

(* Some threads come into being, all of them ready to run.                 *)
Create ==
  \E S \in SUBSET {t \in Tid : st[t] = "unborn"} :
    st' = [t \in Tid |-> IF t \in S THEN "Ready" ELSE st[t]]

(* The processor goes to t; the thread that had it, if any, is Ready again.*)
Dispatch(t) ==
  /\ st[t] = "Ready"
  /\ st' = [u \in Tid |-> IF u = t THEN "Running"
                          ELSE IF st[u] = "Running" THEN "Ready" ELSE st[u]]

Block(t)     == st[t] = "Running" /\ st' = [st EXCEPT ![t] = "Blocked"]
Unblock(t)   == st[t] = "Blocked" /\ st' = [st EXCEPT ![t] = "Ready"]
Terminate(t) == st[t] # "unborn"  /\ st' = [st EXCEPT ![t] = "Terminated"]

LifeNext ==
  \/ Create
  \/ \E t \in Tid : Dispatch(t) \/ Block(t) \/ Unblock(t) \/ Terminate(t)

LifeSpec == LifeInit /\ [][LifeNext]_st
=============================================================================
