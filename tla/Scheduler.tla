------------------------------ MODULE Scheduler ------------------------------
(***************************************************************************)
(* The task scheduler: src/zarya-os/kernel/src/task/mod.rs.                *)
(*                                                                         *)
(* Every operation runs under the global lock SCHEDULER, so each is one    *)
(* action.  An operation that returns an error changes nothing and is      *)
(* therefore a stuttering step: its guard is the condition for success.    *)
(*                                                                         *)
(* Option<ThreadId> and Option<ProcessId> are numbers, with 0 for None:    *)
(* ThreadId::new and ProcessId::new count from 1, and sys_getpid itself    *)
(* returns PID 0 (IDLE) when there is no current process.                  *)
(*                                                                         *)
(* Nothing in the repository gives the processor to a first thread:        *)
(* run_first_task only halts, and tick switches threads only when there is *)
(* a current one.  HasDispatcher = FALSE is the kernel as it stands.       *)
(* HasDispatcher = TRUE adds StartFirst, the step that run_first_task is   *)
(* documented to take, so that the code behind it can be checked too.      *)
(***************************************************************************)
EXTENDS Naturals, Sequences

CONSTANTS
  MaxThreads,        \* bound: threads ever created
  MaxPids,           \* bound: process identifiers ever handed out
  MAX_QUANTUM,       \* Scheduler::max_quantum (10 in the code)
  USize,             \* modulus of the usize counters
  ProcessShapes,     \* priorities of the threads of a process given to add_process
  ThreadPriorities,  \* priorities create_thread is called with
  SetPriorities,     \* priorities sys_set_priority is called with
  TerminateFrom,     \* states in which callers terminate a thread
  HasDispatcher      \* is there a step that starts the first thread?

Priorities == {"RealTime", "High", "Normal", "Low", "Idle"}

ThreadStates == {"Ready", "Running", "Blocked", "Terminated", "Sleeping"}

ASSUME SchedulerConstants ==
  /\ MaxThreads \in Nat /\ MaxPids \in Nat
  /\ MAX_QUANTUM \in Nat \ {0} /\ USize \in Nat \ {0}
  /\ ProcessShapes \subseteq Seq(Priorities)
  /\ ThreadPriorities \subseteq Priorities
  /\ SetPriorities \subseteq Priorities
  /\ TerminateFrom \subseteq ThreadStates
  /\ HasDispatcher \in BOOLEAN

VARIABLES
  ready_queues,      \* queue index -> sequence of thread ids
  processes,         \* pids of the processes the scheduler owns
  state,             \* thread -> ThreadState, "unborn" before Thread::new
  priority,          \* thread -> Priority
  process_id,        \* thread -> pid of its process, 0 before Thread::new
  current_thread,    \* the current thread, 0 for None
  current_process,   \* the current process, 0 for None
  time_quantum,      \* ticks used of the current quantum
  next_tid,          \* ThreadId::new's NEXT_ID
  next_pid,          \* ProcessId::new's NEXT_ID
  TICK_COUNT,        \* the static of that name
  run_time,          \* thread -> ticks charged to it
  total_run_time     \* pid -> ticks charged to it

queueVars   == <<ready_queues, state, current_thread, current_process>>
threadVars  == <<processes, priority, process_id, next_tid, next_pid>>
statVars    == <<TICK_COUNT, run_time, total_run_time>>
vars        == <<queueVars, threadVars, time_quantum, statVars>>

Tid    == 1 .. MaxThreads
Pid    == 1 .. MaxPids
Queues == 0 .. 4
NoThread == 0
NoPid    == 0

QueueIndex ==
  [p \in Priorities |-> CASE p = "RealTime" -> 0
                          [] p = "High"     -> 1
                          [] p = "Normal"   -> 2
                          [] p = "Low"      -> 3
                          [] p = "Idle"     -> 4]

-----------------------------------------------------------------------------
(* Queues.                                                                 *)

(* add_to_ready_queue: the thread goes to the end of its priority's queue. *)
Push(rq, t, p) == [rq EXCEPT ![QueueIndex[p]] = Append(@, t)]

NonEmpty(rq) == {q \in Queues : rq[q] # <<>>}

LowestQueue(rq) == CHOOSE q \in NonEmpty(rq) : \A r \in NonEmpty(rq) : q >= r

(* The first queue, from the highest priority down, that is not empty.     *)
TopQueue(rq) == CHOOSE q \in NonEmpty(rq) : \A r \in NonEmpty(rq) : q <= r

(* schedule: Vec::pop on the first non-empty queue takes its LAST element. *)
Picked(rq) == rq[TopQueue(rq)][Len(rq[TopQueue(rq)])]

PoppedNone(rq) == rq

(* ... and removes it.                                                     *)
Popped(rq) == [rq EXCEPT ![TopQueue(rq)] = SubSeq(@, 1, Len(@) - 1)]

(* get_process_by_thread finds t exactly when t has been created: a thread *)
(* enters the table with its process and never leaves it.                  *)
Exists(t) == t \in Tid /\ state[t] # "unborn"

-----------------------------------------------------------------------------
(* The timer.                                                              *)

SwitchForgetsProcess(t, st) ==
  /\ state' = [u \in Tid |-> IF u = t THEN "Running" ELSE st[u]]
  /\ current_thread' = t
  /\ UNCHANGED current_process

(* switch_to_thread, on a thread table st.                                 *)
SwitchTo(t, st) ==
  /\ state' = [u \in Tid |->
                 IF u = t THEN "Running"
                 ELSE IF u = current_thread /\ st[u] = "Running" THEN "Ready"
                 ELSE st[u]]
  /\ current_thread' = t
  /\ current_process' = process_id[t]

RescheduleNoRequeue ==
  /\ NonEmpty(ready_queues) # {}
  /\ ready_queues' = Popped(ready_queues)
  /\ SwitchTo(Picked(ready_queues), state)

RescheduleRunningOnly ==
  LET preempted == state[current_thread] = "Running"
      rq == Push(ready_queues, current_thread, priority[current_thread])
      st == [state EXCEPT ![current_thread] = "Ready"]
  IN  IF preempted
        THEN ready_queues' = Popped(rq) /\ SwitchTo(Picked(rq), st)
        ELSE UNCHANGED queueVars

(* The current thread, if it still runs, goes back to its queue; then the  *)
(* next thread, if there is one, gets the processor.                       *)
Reschedule ==
  LET preempted == state[current_thread] = "Running"
      rq == IF preempted
              THEN Push(ready_queues, current_thread, priority[current_thread])
              ELSE ready_queues
      st == IF preempted THEN [state EXCEPT ![current_thread] = "Ready"] ELSE state
  IN  IF NonEmpty(rq) # {}
        THEN /\ ready_queues' = Popped(rq)
             /\ SwitchTo(Picked(rq), st)
        ELSE UNCHANGED queueVars

QuantumLeft ==
  /\ time_quantum + 1 < MAX_QUANTUM
  /\ time_quantum' = time_quantum + 1
  /\ UNCHANGED queueVars

QuantumExpired ==
  /\ time_quantum + 1 >= MAX_QUANTUM
  /\ time_quantum' = 0
  /\ IF current_thread # NoThread THEN Reschedule ELSE UNCHANGED queueVars

(* The statistics are charged after the switch, to whatever is current by  *)
(* then: to the current process, and to its first thread that runs.        *)
ChargeTick ==
  LET running == {t \in Tid : state'[t] = "Running" /\ process_id[t] = current_process'}
      first   == CHOOSE t \in running : \A u \in running : t <= u
  IN  /\ total_run_time' =
           IF current_process' = NoPid THEN total_run_time
           ELSE [total_run_time EXCEPT ![current_process'] = (@ + 1) % USize]
      /\ run_time' =
           IF running = {} THEN run_time
           ELSE [run_time EXCEPT ![first] = (@ + 1) % USize]

Tick ==
  /\ TICK_COUNT' = (TICK_COUNT + 1) % USize
  /\ QuantumLeft \/ QuantumExpired
  /\ ChargeTick
  /\ UNCHANGED threadVars

(* Not in the code: what run_first_task, "start of the first thread", would*)
(* have to do, namely tick's own schedule and switch_to_thread, on a thread *)
(* that is Ready: every thread that goes wrong later went wrong in tick.   *)
StartFirst ==
  /\ HasDispatcher
  /\ current_thread = NoThread
  /\ NonEmpty(ready_queues) # {}
  /\ state[Picked(ready_queues)] = "Ready"
  /\ ready_queues' = Popped(ready_queues)
  /\ SwitchTo(Picked(ready_queues), state)
  /\ UNCHANGED <<threadVars, time_quantum, statVars>>

-----------------------------------------------------------------------------
(* Processes and threads.                                                  *)

(* Process::new, add_thread once per element of shape, add_process.  Only  *)
(* the first thread is queued.  new_kernel_thread is the shape             *)
(* <<"RealTime">>.                                                         *)
AddProcess(shape) ==
  LET born == next_tid .. next_tid + Len(shape) - 1
  IN  /\ next_pid <= MaxPids
      /\ next_tid + Len(shape) <= MaxThreads + 1
      /\ processes' = processes \cup {next_pid}
      /\ state' = [t \in Tid |-> IF t \in born THEN "Ready" ELSE state[t]]
      /\ priority' = [t \in Tid |-> IF t \in born THEN shape[t - next_tid + 1]
                                                  ELSE priority[t]]
      /\ process_id' = [t \in Tid |-> IF t \in born THEN next_pid ELSE process_id[t]]
      /\ ready_queues' = IF shape = <<>> THEN ready_queues
                         ELSE Push(ready_queues, next_tid, shape[1])
      /\ next_tid' = next_tid + Len(shape)
      /\ next_pid' = next_pid + 1
      /\ UNCHANGED <<current_thread, current_process, time_quantum, statVars>>

(* sys_spawn / spawn_user_process: takes a pid, creates nothing.           *)
SpawnUserProcess ==
  /\ next_pid <= MaxPids
  /\ next_pid' = next_pid + 1
  /\ UNCHANGED <<queueVars, processes, priority, process_id, next_tid,
                 time_quantum, statVars>>

(* ThreadManager::create_thread, in the current process.                   *)
CreateThread(p) ==
  /\ next_tid <= MaxThreads
  /\ current_process \in processes
  /\ state' = [state EXCEPT ![next_tid] = "Ready"]
  /\ priority' = [priority EXCEPT ![next_tid] = p]
  /\ process_id' = [process_id EXCEPT ![next_tid] = current_process]
  /\ ready_queues' = Push(ready_queues, next_tid, p)
  /\ next_tid' = next_tid + 1
  /\ UNCHANGED <<processes, next_pid, current_thread, current_process,
                 time_quantum, statVars>>

(* sys_set_priority: the thread's queue is not revisited.                  *)
SetPriority(t, p) ==
  /\ Exists(t)
  /\ priority' = [priority EXCEPT ![t] = p]
  /\ UNCHANGED <<queueVars, processes, process_id, next_tid, next_pid,
                 time_quantum, statVars>>

(* terminate_thread: neither the queues nor current_thread are revisited.  *)
TerminateThread(t) ==
  /\ Exists(t)
  /\ state[t] \in TerminateFrom
  /\ state' = [state EXCEPT ![t] = "Terminated"]
  /\ UNCHANGED <<ready_queues, current_thread, current_process, threadVars,
                 time_quantum, statVars>>

BlockNoForce(t) ==
  /\ Exists(t)
  /\ state' = [state EXCEPT ![t] = "Blocked"]
  /\ UNCHANGED <<ready_queues, current_thread, current_process, threadVars,
                 time_quantum, statVars>>

(* block_thread: only a running thread; the next tick ends its quantum.    *)
BlockThread(t) ==
  /\ Exists(t)
  /\ state[t] = "Running"
  /\ state' = [state EXCEPT ![t] = "Blocked"]
  /\ time_quantum' = MAX_QUANTUM
  /\ UNCHANGED <<ready_queues, current_thread, current_process, threadVars, statVars>>

UnblockAny(t) ==
  /\ Exists(t)
  /\ state' = [state EXCEPT ![t] = "Ready"]
  /\ ready_queues' = Push(ready_queues, t, priority[t])
  /\ UNCHANGED <<current_thread, current_process, threadVars, time_quantum, statVars>>

(* unblock_thread: only a blocked thread.                                  *)
UnblockThread(t) ==
  /\ Exists(t)
  /\ state[t] = "Blocked"
  /\ state' = [state EXCEPT ![t] = "Ready"]
  /\ ready_queues' = Push(ready_queues, t, priority[t])
  /\ UNCHANGED <<current_thread, current_process, threadVars, time_quantum, statVars>>

-----------------------------------------------------------------------------
Init ==
  /\ ready_queues = [q \in Queues |-> <<>>]
  /\ processes = {}
  /\ state = [t \in Tid |-> "unborn"]
  /\ priority = [t \in Tid |-> "Normal"]
  /\ process_id = [t \in Tid |-> NoPid]
  /\ current_thread = NoThread
  /\ current_process = NoPid
  /\ time_quantum = 0
  /\ next_tid = 1
  /\ next_pid = 1
  /\ TICK_COUNT = 0
  /\ run_time = [t \in Tid |-> 0]
  /\ total_run_time = [p \in Pid |-> 0]

Next ==
  \/ Tick
  \/ StartFirst
  \/ \E shape \in ProcessShapes : AddProcess(shape)
  \/ SpawnUserProcess
  \/ \E p \in ThreadPriorities : CreateThread(p)
  \/ \E t \in Tid, p \in SetPriorities : SetPriority(t, p)
  \/ \E t \in Tid : TerminateThread(t)
  \/ \E t \in Tid : BlockThread(t)
  \/ \E t \in Tid : UnblockThread(t)

Spec == Init /\ [][Next]_vars

(* The timer interrupt keeps coming, and a dispatcher that exists is run.  *)
FairSpec == Spec /\ WF_vars(Tick) /\ WF_vars(StartFirst)

-----------------------------------------------------------------------------
(* Properties.                                                             *)

(* Types.  The quantum counter never passes max_quantum, although block_   *)
(* thread sets it there and tick adds one before it compares.              *)
TypeOK ==
  /\ ready_queues \in [Queues -> Seq(Tid)]
  /\ processes \subseteq Pid
  /\ state \in [Tid -> ThreadStates \cup {"unborn"}]
  /\ priority \in [Tid -> Priorities]
  /\ process_id \in [Tid -> Pid \cup {NoPid}]
  /\ current_thread \in Tid \cup {NoThread}
  /\ current_process \in Pid \cup {NoPid}
  /\ time_quantum \in 0 .. MAX_QUANTUM
  /\ next_tid \in 1 .. MaxThreads + 1
  /\ next_pid \in 1 .. MaxPids + 1
  /\ TICK_COUNT \in 0 .. USize - 1
  /\ run_time \in [Tid -> 0 .. USize - 1]
  /\ total_run_time \in [Pid -> 0 .. USize - 1]

(* One processor: a thread marked Running is the current thread, and the   *)
(* process sys_getpid reports is the one the current thread belongs to.    *)
SingleRunning ==
  /\ \A t \in Tid : state[t] = "Running" => t = current_thread
  /\ current_thread # NoThread =>
       /\ current_process = process_id[current_thread]
       /\ current_process \in processes

(* No thread sits in the ready queues twice, whatever order of tick,       *)
(* block, unblock and terminate brought it there: popping it removes it.   *)
QueuedOnce ==
  \A q, r \in Queues :
    \A i \in 1 .. Len(ready_queues[q]), j \in 1 .. Len(ready_queues[r]) :
      ready_queues[q][i] = ready_queues[r][j] => q = r /\ i = j

(* A running, blocked or not yet created thread is in no ready queue.      *)
QueuedRunnable ==
  \A q \in Queues : \A i \in 1 .. Len(ready_queues[q]) :
    state[ready_queues[q][i]] \in {"Ready", "Terminated"}

(* Every created thread belongs to a process the scheduler owns, under an  *)
(* identifier that was never given to another; the current thread is one   *)
(* of them.                                                                *)
ThreadsOwned ==
  /\ \A t \in Tid : state[t] # "unborn" <=> t < next_tid
  /\ \A t \in Tid : t < next_tid => process_id[t] \in processes
  /\ current_thread < next_tid

(* No lost thread: a Ready thread can always be found by schedule.  No     *)
(* timer or wake-up path sets Ready without queueing the thread.           *)
ReadyIsQueued ==
  \A t \in Tid : state[t] = "Ready" =>
    \E q \in Queues : \E i \in 1 .. Len(ready_queues[q]) : ready_queues[q][i] = t

(* A thread that is given the processor has the highest priority of all    *)
(* threads that are ready then (task/mod.rs:427, "from highest to lowest").*)
PriorityOrder ==
  [][\A t, u \in Tid :
       (state[t] # "Running" /\ state'[t] = "Running" /\ state'[u] = "Ready")
         => QueueIndex[priority[t]] <= QueueIndex[priority[u]]]_vars

(* Threads of one priority share the processor in turn (task/mod.rs:6,     *)
(* "round-robin scheduling inside the priority classes").                  *)
RoundRobin ==
  \A t \in Tid : state[t] = "Ready" ~> state[t] # "Ready"

(* block_thread really gives the processor away: a blocked current thread  *)
(* does not stay current while another thread waits in a queue.            *)
BlockedYields ==
  \A t \in Tid :
    (current_thread = t /\ state[t] = "Blocked" /\ NonEmpty(ready_queues) # {})
      ~> (current_thread # t \/ state[t] # "Blocked")

LC == INSTANCE ThreadLifecycle WITH st <- state

(* The thread table follows ThreadLifecycle: one Running thread at a time, *)
(* entered only from Ready, and nothing after Terminated.                  *)
LifecycleRefinement == LC!LifeSpec
=============================================================================
