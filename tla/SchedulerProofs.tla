--------------------------- MODULE SchedulerProofs ---------------------------
(***************************************************************************)
(* Theorems about Scheduler, for every number of threads and processes,    *)
(* every shape of process and every quantum.                               *)
(***************************************************************************)
EXTENDS Scheduler, TLAPS

-----------------------------------------------------------------------------
(* The ready queues.                                                       *)

ReadyQueues == [Queues -> Seq(Tid)]

(* Thread t sits in some queue of rq.                                      *)
Holds(rq, t) == \E q \in Queues : \E i \in 1 .. Len(rq[q]) : rq[q][i] = t

(* QueuedOnce, of any queues.                                              *)
OnceIn(rq) ==
  \A q, r \in Queues :
    \A i \in 1 .. Len(rq[q]), j \in 1 .. Len(rq[r]) :
      rq[q][i] = rq[r][j] => q = r /\ i = j

(* Every priority has a queue.                                             *)
LEMMA QueueIndexType == ASSUME NEW p \in Priorities PROVE QueueIndex[p] \in Queues
BY DEF QueueIndex, Queues, Priorities

(* add_to_ready_queue: what Push changes and what it leaves alone.         *)
LEMMA PushEffect ==
  ASSUME NEW rq \in ReadyQueues, NEW t \in Tid, NEW p \in Priorities
  PROVE  /\ Push(rq, t, p) \in ReadyQueues
         /\ \A q \in Queues : q # QueueIndex[p] => Push(rq, t, p)[q] = rq[q]
         /\ Push(rq, t, p)[QueueIndex[p]] = Append(rq[QueueIndex[p]], t)
<1>1. QueueIndex[p] \in Queues
  BY QueueIndexType
<1> QED
  BY <1>1 DEF Push, ReadyQueues

(* schedule looks at the queues from 0 up, so it stops at the lowest one   *)
(* that is not empty.                                                      *)
LEMMA TopQueueIsFirst ==
  ASSUME NEW rq \in ReadyQueues, NonEmpty(rq) # {}
  PROVE  /\ TopQueue(rq) \in Queues
         /\ rq[TopQueue(rq)] # <<>>
         /\ \A r \in Queues : rq[r] # <<>> => TopQueue(rq) <= r
<1>1. \E q \in NonEmpty(rq) : \A r \in NonEmpty(rq) : q <= r
  <2>1. NonEmpty(rq) \subseteq {0, 1, 2, 3, 4}
    BY DEF NonEmpty, Queues
  <2> QED
    BY <2>1
<1>2. /\ TopQueue(rq) \in NonEmpty(rq)
      /\ \A r \in NonEmpty(rq) : TopQueue(rq) <= r
  BY <1>1 DEF TopQueue
<1> QED
  BY <1>2 DEF NonEmpty

(* schedule: what Popped changes, and that Picked is the thread it removes.*)
LEMMA PopEffect ==
  ASSUME NEW rq \in ReadyQueues, NonEmpty(rq) # {}
  PROVE  /\ Popped(rq) \in ReadyQueues
         /\ \A q \in Queues : q # TopQueue(rq) => Popped(rq)[q] = rq[q]
         /\ Len(rq[TopQueue(rq)]) \in Nat \ {0}
         /\ Len(Popped(rq)[TopQueue(rq)]) = Len(rq[TopQueue(rq)]) - 1
         /\ \A i \in 1 .. Len(rq[TopQueue(rq)]) - 1 :
              Popped(rq)[TopQueue(rq)][i] = rq[TopQueue(rq)][i]
         /\ Picked(rq) = rq[TopQueue(rq)][Len(rq[TopQueue(rq)])]
         /\ Picked(rq) \in Tid
<1> DEFINE k == TopQueue(rq)
           s == rq[k]
<1>1. k \in Queues /\ s # <<>>
  BY TopQueueIsFirst
<1>2. s \in Seq(Tid)
  BY <1>1 DEF ReadyQueues
<1>3. Len(s) \in Nat \ {0}
  BY <1>1, <1>2
<1>4. SubSeq(s, 1, Len(s) - 1) \in Seq(Tid)
  BY <1>2, <1>3
<1>5. /\ Len(SubSeq(s, 1, Len(s) - 1)) = Len(s) - 1
      /\ \A i \in 1 .. Len(s) - 1 : SubSeq(s, 1, Len(s) - 1)[i] = s[i]
  BY <1>2, <1>3
<1>6. Popped(rq) = [rq EXCEPT ![k] = SubSeq(s, 1, Len(s) - 1)]
  BY DEF Popped
<1>7. Popped(rq)[k] = SubSeq(s, 1, Len(s) - 1)
  BY <1>1, <1>6 DEF ReadyQueues
<1>8. Popped(rq) \in ReadyQueues /\ \A q \in Queues : q # k => Popped(rq)[q] = rq[q]
  BY <1>1, <1>4, <1>6 DEF ReadyQueues
<1>9. Picked(rq) = s[Len(s)] /\ Picked(rq) \in Tid
  BY <1>2, <1>3 DEF Picked
<1> QED
  BY <1>3, <1>5, <1>7, <1>8, <1>9

(* Pushing a thread that is in no queue keeps the queues free of           *)
(* duplicates, and adds that thread only.                                  *)
LEMMA PushOnce ==
  ASSUME NEW rq \in ReadyQueues, NEW t \in Tid, NEW p \in Priorities
  PROVE  /\ \A u \in Tid : Holds(Push(rq, t, p), u) <=> Holds(rq, u) \/ u = t
         /\ OnceIn(rq) /\ ~Holds(rq, t) => OnceIn(Push(rq, t, p))
<1> DEFINE k == QueueIndex[p]
           new == Push(rq, t, p)
<1>1. k \in Queues
  BY QueueIndexType
<1>2. /\ new \in ReadyQueues
      /\ \A q \in Queues : q # k => new[q] = rq[q]
      /\ new[k] = Append(rq[k], t)
  BY PushEffect
<1>3. rq[k] \in Seq(Tid)
  BY <1>1 DEF ReadyQueues
<1>4. /\ Len(rq[k]) \in Nat
      /\ Len(new[k]) = Len(rq[k]) + 1
      /\ new[k][Len(rq[k]) + 1] = t
      /\ \A i \in 1 .. Len(rq[k]) : new[k][i] = rq[k][i]
  BY <1>2, <1>3
<1> HIDE DEF k, new
<1>5. ASSUME NEW u \in Tid PROVE Holds(new, u) <=> Holds(rq, u) \/ u = t
  <2>1. ASSUME Holds(new, u) PROVE Holds(rq, u) \/ u = t
    BY <2>1, <1>1, <1>2, <1>4 DEF Holds
  <2>2. ASSUME Holds(rq, u) PROVE Holds(new, u)
    <3>1. PICK q \in Queues : \E i \in 1 .. Len(rq[q]) : rq[q][i] = u
      BY <2>2 DEF Holds
    <3>2. CASE q = k
      BY <3>1, <3>2, <1>4 DEF Holds
    <3>3. CASE q # k
      BY <3>1, <3>3, <1>2 DEF Holds
    <3> QED
      BY <3>2, <3>3
  <2>3. ASSUME u = t PROVE Holds(new, u)
    BY <2>3, <1>1, <1>4 DEF Holds
  <2> QED
    BY <2>1, <2>2, <2>3
<1>6. ASSUME OnceIn(rq), ~Holds(rq, t) PROVE OnceIn(new)
  <2> SUFFICES ASSUME NEW q \in Queues, NEW r \in Queues,
                      NEW i \in 1 .. Len(new[q]), NEW j \in 1 .. Len(new[r]),
                      new[q][i] = new[r][j]
               PROVE  q = r /\ i = j
    BY DEF OnceIn
  <2>1. \A a \in Queues : \A b \in 1 .. Len(new[a]) :
          \/ b \in 1 .. Len(rq[a]) /\ new[a][b] = rq[a][b] /\ new[a][b] # t
          \/ a = k /\ b = Len(rq[k]) + 1 /\ new[a][b] = t
    <3> SUFFICES ASSUME NEW a \in Queues, NEW b \in 1 .. Len(new[a])
                 PROVE  \/ b \in 1 .. Len(rq[a]) /\ new[a][b] = rq[a][b] /\ new[a][b] # t
                        \/ a = k /\ b = Len(rq[k]) + 1 /\ new[a][b] = t
      OBVIOUS
    <3>1. CASE a # k
      BY <3>1, <1>2, <1>6 DEF Holds
    <3>2. CASE a = k /\ b = Len(rq[k]) + 1
      BY <3>2, <1>4
    <3>3. CASE a = k /\ b \in 1 .. Len(rq[k])
      BY <3>3, <1>4, <1>6 DEF Holds
    <3> QED
      BY <3>1, <3>2, <3>3, <1>4
  <2> QED
    BY <2>1, <1>6 DEF OnceIn
<1> QED
  BY <1>5, <1>6 DEF new

(* Popping removes the picked thread only, and, as no thread is queued     *)
(* twice, removes it for good.                                             *)
LEMMA PopOnce ==
  ASSUME NEW rq \in ReadyQueues, NonEmpty(rq) # {}, OnceIn(rq)
  PROVE  /\ Holds(rq, Picked(rq))
         /\ \A u \in Tid : Holds(Popped(rq), u) <=> Holds(rq, u) /\ u # Picked(rq)
         /\ OnceIn(Popped(rq))
<1> DEFINE k == TopQueue(rq)
           n == Len(rq[k])
           new == Popped(rq)
<1>1. k \in Queues
  BY TopQueueIsFirst
<1>2. /\ \A q \in Queues : q # k => new[q] = rq[q]
      /\ n \in Nat \ {0}
      /\ Len(new[k]) = n - 1
      /\ \A i \in 1 .. n - 1 : new[k][i] = rq[k][i]
      /\ Picked(rq) = rq[k][n]
  BY PopEffect
<1>a. \A q \in Queues : Len(rq[q]) \in Nat
  BY DEF ReadyQueues
<1>n. n = Len(rq[k])
  OBVIOUS
<1> HIDE DEF k, new, n
<1>3. \A q \in Queues : \A i \in 1 .. Len(new[q]) :
        /\ i \in 1 .. Len(rq[q])
        /\ new[q][i] = rq[q][i]
        /\ q = k => i # n
  <2> SUFFICES ASSUME NEW q \in Queues, NEW i \in 1 .. Len(new[q])
               PROVE  /\ i \in 1 .. Len(rq[q])
                      /\ new[q][i] = rq[q][i]
                      /\ q = k => i # n
    OBVIOUS
  <2>1. CASE q = k
    BY <2>1, <1>2, <1>n
  <2>2. CASE q # k
    BY <2>2, <1>2
  <2> QED
    BY <2>1, <2>2
<1>4. \A q \in Queues : \A i \in 1 .. Len(rq[q]) :
        (q = k /\ i = n) \/ (i \in 1 .. Len(new[q]) /\ new[q][i] = rq[q][i])
  <2> SUFFICES ASSUME NEW q \in Queues, NEW i \in 1 .. Len(rq[q]), ~(q = k /\ i = n)
               PROVE  i \in 1 .. Len(new[q]) /\ new[q][i] = rq[q][i]
    OBVIOUS
  <2>1. CASE q = k
    <3>1. i \in 1 .. n - 1
      BY <2>1, <1>2, <1>n
    <3> QED
      BY <3>1, <2>1, <1>2
  <2>2. CASE q # k
    BY <2>2, <1>2
  <2> QED
    BY <2>1, <2>2
<1>5. Holds(rq, Picked(rq))
  BY <1>1, <1>2, <1>n DEF Holds
<1>6. ASSUME NEW u \in Tid PROVE Holds(new, u) <=> Holds(rq, u) /\ u # Picked(rq)
  <2>1. ASSUME Holds(new, u) PROVE Holds(rq, u) /\ u # Picked(rq)
    <3>1. PICK q \in Queues : \E i \in 1 .. Len(new[q]) : new[q][i] = u
      BY <2>1 DEF Holds
    <3>2. PICK i \in 1 .. Len(new[q]) : new[q][i] = u
      BY <3>1
    <3>3. i \in 1 .. Len(rq[q]) /\ rq[q][i] = u /\ ~(q = k /\ i = n)
      BY <3>2, <1>3
    <3>4. n \in 1 .. Len(rq[k])
      BY <1>2, <1>n
    <3>5. u # rq[k][n]
      BY <3>3, <3>4, <1>1 DEF OnceIn
    <3> QED
      BY <3>3, <3>5, <1>2 DEF Holds
  <2>2. ASSUME Holds(rq, u), u # Picked(rq) PROVE Holds(new, u)
    BY <2>2, <1>4, <1>2 DEF Holds
  <2> QED
    BY <2>1, <2>2
<1>7. OnceIn(new)
  BY <1>3 DEF OnceIn
<1> QED
  BY <1>5, <1>6, <1>7 DEF new

-----------------------------------------------------------------------------
(* Types.                                                                  *)

States == ThreadStates \cup {"unborn"}

(* A usize counter stays a usize when it is counted up.                    *)
LEMMA CountUp == ASSUME NEW n \in 0 .. USize - 1 PROVE (n + 1) % USize \in 0 .. USize - 1
BY SchedulerConstants

(* switch_to_thread leaves well-typed tables.                              *)
LEMMA SwitchToType ==
  ASSUME TypeOK, NEW t \in Tid, NEW st \in [Tid -> States], SwitchTo(t, st)
  PROVE  /\ state' \in [Tid -> States]
         /\ current_thread' \in Tid
         /\ current_process' \in Pid \cup {NoPid}
BY DEF SwitchTo, TypeOK, States, ThreadStates

(* ... and so does tick's rescheduling.                                    *)
LEMMA RescheduleType ==
  ASSUME TypeOK, current_thread # NoThread, Reschedule
  PROVE  /\ ready_queues' \in ReadyQueues
         /\ state' \in [Tid -> States]
         /\ current_thread' \in Tid
         /\ current_process' \in Pid \cup {NoPid}
<1> DEFINE preempted == state[current_thread] = "Running"
           rq == IF preempted
                   THEN Push(ready_queues, current_thread, priority[current_thread])
                   ELSE ready_queues
           st == IF preempted THEN [state EXCEPT ![current_thread] = "Ready"] ELSE state
<1>1. current_thread \in Tid /\ priority[current_thread] \in Priorities
  BY DEF TypeOK
<1>2. ready_queues \in ReadyQueues
  BY DEF TypeOK, ReadyQueues
<1>3. rq \in ReadyQueues
  BY <1>1, <1>2, PushEffect
<1>4. st \in [Tid -> States]
  BY <1>1 DEF TypeOK, States, ThreadStates
<1>5. \/ /\ NonEmpty(rq) # {}
         /\ ready_queues' = Popped(rq)
         /\ SwitchTo(Picked(rq), st)
      \/ UNCHANGED queueVars
  BY DEF Reschedule
<1> HIDE DEF rq, st
<1>6. CASE NonEmpty(rq) # {} /\ ready_queues' = Popped(rq) /\ SwitchTo(Picked(rq), st)
  <2>1. Popped(rq) \in ReadyQueues /\ Picked(rq) \in Tid
    BY <1>3, <1>6, PopEffect
  <2> QED
    BY <2>1, <1>4, <1>6, SwitchToType
<1>7. CASE UNCHANGED queueVars
  BY <1>1, <1>2, <1>7 DEF queueVars, TypeOK, States
<1> QED
  BY <1>5, <1>6, <1>7

(* tick's statistics.                                                      *)
LEMMA ChargeTickType ==
  ASSUME TypeOK, current_process' \in Pid \cup {NoPid}, ChargeTick
  PROVE  /\ run_time' \in [Tid -> 0 .. USize - 1]
         /\ total_run_time' \in [Pid -> 0 .. USize - 1]
<1>1. total_run_time' \in [Pid -> 0 .. USize - 1]
  BY CountUp DEF ChargeTick, TypeOK
<1>2. run_time' \in [Tid -> 0 .. USize - 1]
  <2> DEFINE running == {t \in Tid : state'[t] = "Running" /\ process_id[t] = current_process'}
             first   == CHOOSE t \in running : \A u \in running : t <= u
  <2>1. run_time' = IF running = {} THEN run_time
                    ELSE [run_time EXCEPT ![first] = (run_time[first] + 1) % USize]
    BY DEF ChargeTick
  <2> HIDE DEF first, running
  <2>2. run_time \in [Tid -> 0 .. USize - 1]
    BY DEF TypeOK
  <2> QED
    BY <2>1, <2>2, CountUp
<1> QED
  BY <1>1, <1>2

(* Every action keeps the types.                                           *)
LEMMA TypeStep == TypeOK /\ [Next]_vars => TypeOK'
<1> SUFFICES ASSUME TypeOK, [Next]_vars PROVE TypeOK'
  OBVIOUS
<1>r. ready_queues \in ReadyQueues
  BY DEF TypeOK, ReadyQueues
<1>1. CASE Tick
  <2>1. /\ ready_queues' \in ReadyQueues
        /\ state' \in [Tid -> States]
        /\ current_thread' \in Tid \cup {NoThread}
        /\ current_process' \in Pid \cup {NoPid}
        /\ time_quantum' \in 0 .. MAX_QUANTUM
    <3>1. CASE QuantumLeft
      BY <3>1, <1>r, SchedulerConstants DEF QuantumLeft, queueVars, TypeOK, States
    <3>2. CASE QuantumExpired
      <4>1. time_quantum' \in 0 .. MAX_QUANTUM
        BY <3>2, SchedulerConstants DEF QuantumExpired
      <4>2. CASE current_thread # NoThread
        BY <4>1, <4>2, <3>2, RescheduleType DEF QuantumExpired
      <4>3. CASE current_thread = NoThread
        BY <4>1, <4>3, <3>2, <1>r DEF QuantumExpired, queueVars, TypeOK, States
      <4> QED
        BY <4>2, <4>3
    <3> QED
      BY <3>1, <3>2, <1>1 DEF Tick
  <2>2. TICK_COUNT' \in 0 .. USize - 1
    BY <1>1, CountUp DEF Tick, TypeOK
  <2>3. /\ run_time' \in [Tid -> 0 .. USize - 1]
        /\ total_run_time' \in [Pid -> 0 .. USize - 1]
    BY <1>1, <2>1, ChargeTickType DEF Tick
  <2> QED
    BY <1>1, <2>1, <2>2, <2>3 DEF Tick, threadVars, TypeOK, ReadyQueues, States
<1>2. CASE StartFirst
  <2>1. Popped(ready_queues) \in ReadyQueues /\ Picked(ready_queues) \in Tid
    BY <1>2, <1>r, PopEffect DEF StartFirst
  <2>2. state \in [Tid -> States]
    BY DEF TypeOK, States
  <2>3. /\ state' \in [Tid -> States]
        /\ current_thread' \in Tid
        /\ current_process' \in Pid \cup {NoPid}
    BY <1>2, <2>1, <2>2, SwitchToType DEF StartFirst
  <2> QED
    BY <1>2, <2>1, <2>3 DEF StartFirst, threadVars, statVars, TypeOK, ReadyQueues, States
<1>3. ASSUME NEW shape \in ProcessShapes, AddProcess(shape) PROVE TypeOK'
  <2>1. shape \in Seq(Priorities) /\ Len(shape) \in Nat
    BY SchedulerConstants
  <2>2. next_pid \in Pid /\ next_tid \in Nat \ {0}
    BY <1>3, SchedulerConstants DEF AddProcess, TypeOK, Pid
  <2>3. ready_queues' \in ReadyQueues
    <3>1. CASE shape = <<>>
      BY <1>3, <3>1, <1>r DEF AddProcess
    <3>2. CASE shape # <<>>
      <4>1. Len(shape) >= 1 /\ shape[1] \in Priorities
        BY <2>1, <3>2
      <4>2. next_tid \in Tid
        BY <1>3, <2>1, <2>2, <4>1, SchedulerConstants DEF AddProcess, Tid
      <4> QED
        BY <1>3, <3>2, <4>1, <4>2, <1>r, PushEffect DEF AddProcess
    <3> QED
      BY <3>1, <3>2
  <2>4. priority' \in [Tid -> Priorities]
    <3>1. ASSUME NEW t \in Tid, t \in next_tid .. next_tid + Len(shape) - 1
          PROVE  shape[t - next_tid + 1] \in Priorities
      <4>1. t - next_tid + 1 \in 1 .. Len(shape)
        BY <3>1, <2>1, <2>2 DEF Tid
      <4> QED
        BY <4>1, <2>1
    <3> QED
      BY <1>3, <3>1 DEF AddProcess, TypeOK
  <2>5. next_tid' \in 1 .. MaxThreads + 1 /\ next_pid' \in 1 .. MaxPids + 1
    BY <1>3, <2>1, <2>2, SchedulerConstants DEF AddProcess, TypeOK, Pid
  <2> QED
    BY <1>3, <2>2, <2>3, <2>4, <2>5
    DEF AddProcess, statVars, TypeOK, ReadyQueues, ThreadStates
<1>4. CASE SpawnUserProcess
  BY <1>4, SchedulerConstants
  DEF SpawnUserProcess, queueVars, statVars, TypeOK
<1>5. ASSUME NEW p \in ThreadPriorities, CreateThread(p) PROVE TypeOK'
  <2>1. next_tid \in Tid /\ p \in Priorities /\ current_process \in Pid
    BY <1>5, SchedulerConstants DEF CreateThread, TypeOK, Tid
  <2>2. ready_queues' \in ReadyQueues
    BY <1>5, <2>1, <1>r, PushEffect DEF CreateThread
  <2> QED
    BY <1>5, <2>1, <2>2, SchedulerConstants
    DEF CreateThread, statVars, TypeOK, ReadyQueues, ThreadStates, Tid
<1>6. ASSUME NEW t \in Tid, NEW p \in SetPriorities, SetPriority(t, p) PROVE TypeOK'
  BY <1>6, SchedulerConstants DEF SetPriority, queueVars, statVars, TypeOK
<1>7. ASSUME NEW t \in Tid, TerminateThread(t) PROVE TypeOK'
  BY <1>7 DEF TerminateThread, threadVars, statVars, TypeOK, ThreadStates
<1>8. ASSUME NEW t \in Tid, BlockThread(t) PROVE TypeOK'
  BY <1>8, SchedulerConstants DEF BlockThread, threadVars, statVars, TypeOK, ThreadStates
<1>9. ASSUME NEW t \in Tid, UnblockThread(t) PROVE TypeOK'
  <2>1. ready_queues' \in ReadyQueues
    BY <1>9, <1>r, PushEffect DEF UnblockThread, TypeOK
  <2> QED
    BY <1>9, <2>1 DEF UnblockThread, threadVars, statVars, TypeOK, ReadyQueues, ThreadStates
<1>10. CASE UNCHANGED vars
  BY <1>10 DEF vars, queueVars, threadVars, statVars, TypeOK
<1> QED
  BY <1>1, <1>2, <1>3, <1>4, <1>5, <1>6, <1>7, <1>8, <1>9, <1>10 DEF Next

(* Types hold in every reachable state of the scheduler; in particular the *)
(* quantum counter of tick and block_thread never passes max_quantum.      *)
THEOREM TypeCorrect == Spec => []TypeOK
<1>1. Init => TypeOK
  BY SchedulerConstants DEF Init, TypeOK, Tid, Pid, Priorities, NoThread, NoPid
<1> QED
  BY <1>1, TypeStep, PTL DEF Spec

-----------------------------------------------------------------------------
(* Queues and the current thread.                                          *)

(* QueuedRunnable, in terms of Holds.                                      *)
Runnable ==
  \A u \in Tid : Holds(ready_queues, u) => state[u] \in {"Ready", "Terminated"}

(* The inductive invariant.  QueuedOnce alone is not inductive: a thread   *)
(* may only be pushed if it is in no queue, which Runnable gives for a     *)
(* running or blocked thread and, with ThreadsOwned, for a new one.        *)
SchedInv ==
  /\ TypeOK
  /\ OnceIn(ready_queues)
  /\ Runnable
  /\ SingleRunning
  /\ ThreadsOwned

(* What PushEffect and PopEffect ask of the queues.                        *)
LEMMA QueuesTyped == ASSUME TypeOK PROVE ready_queues \in ReadyQueues
BY DEF TypeOK, ReadyQueues

(* Taking a thread off queues rq and switching to it, on a thread table st *)
(* that fits rq: common to tick and to the start of the first thread.      *)
LEMMA DispatchKeepsInv ==
  ASSUME SchedInv, NEW rq \in ReadyQueues, NEW st \in [Tid -> States],
         OnceIn(rq), NonEmpty(rq) # {},
         \A u \in Tid : Holds(rq, u) => st[u] \in {"Ready", "Terminated"},
         \A u \in Tid : st[u] = "Running" => u = current_thread,
         \A u \in Tid : st[u] = "unborn" <=> state[u] = "unborn",
         ready_queues' = Popped(rq), SwitchTo(Picked(rq), st),
         UNCHANGED threadVars
  PROVE  /\ OnceIn(ready_queues)'
         /\ Runnable'
         /\ SingleRunning'
         /\ ThreadsOwned'
<1> DEFINE t == Picked(rq)
<1>1. t \in Tid
  BY PopEffect
<1>2. /\ Holds(rq, t)
      /\ \A u \in Tid : Holds(Popped(rq), u) <=> Holds(rq, u) /\ u # t
      /\ OnceIn(Popped(rq))
  BY PopOnce
<1>3. st[t] \in {"Ready", "Terminated"} /\ state[t] # "unborn"
  BY <1>1, <1>2
<1>4. /\ current_thread' = t
      /\ current_process' = process_id[t]
      /\ state' = [u \in Tid |->
                     IF u = t THEN "Running"
                     ELSE IF u = current_thread /\ st[u] = "Running" THEN "Ready"
                     ELSE st[u]]
  BY DEF SwitchTo
<1> HIDE DEF t
<1>5. OnceIn(ready_queues)'
  BY <1>2 DEF OnceIn
<1>6. Runnable'
  <2> SUFFICES ASSUME NEW u \in Tid, Holds(Popped(rq), u)
               PROVE  state'[u] \in {"Ready", "Terminated"}
    BY DEF Runnable, Holds
  <2>1. Holds(rq, u) /\ u # t
    BY <1>2
  <2> QED
    BY <2>1, <1>4
<1>7. SingleRunning'
  <2>1. \A u \in Tid : state'[u] = "Running" => u = t
    BY <1>4
  <2>2. process_id[t] \in processes
    BY <1>1, <1>3 DEF SchedInv, ThreadsOwned
  <2> QED
    BY <2>1, <2>2, <1>4 DEF SingleRunning, threadVars
<1>8. ThreadsOwned'
  <2>1. \A u \in Tid : state'[u] = "unborn" <=> state[u] = "unborn"
    BY <1>3, <1>4
  <2>2. t < next_tid
    BY <1>1, <1>3 DEF SchedInv, ThreadsOwned
  <2> QED
    BY <2>1, <2>2, <1>4 DEF SchedInv, ThreadsOwned, threadVars
<1> QED
  BY <1>5, <1>6, <1>7, <1>8

(* tick's rescheduling keeps the invariant: the current thread goes back   *)
(* to a queue only if it is Running, and then no queue holds it.           *)
LEMMA RescheduleKeepsInv ==
  ASSUME SchedInv, current_thread # NoThread, Reschedule, UNCHANGED threadVars
  PROVE  /\ OnceIn(ready_queues)'
         /\ Runnable'
         /\ SingleRunning'
         /\ ThreadsOwned'
<1> DEFINE preempted == state[current_thread] = "Running"
           rq == IF preempted
                   THEN Push(ready_queues, current_thread, priority[current_thread])
                   ELSE ready_queues
           st == IF preempted THEN [state EXCEPT ![current_thread] = "Ready"] ELSE state
<1>1. /\ TypeOK /\ current_thread \in Tid
      /\ priority[current_thread] \in Priorities
      /\ ready_queues \in ReadyQueues
      /\ state \in [Tid -> States]
  BY QueuesTyped DEF SchedInv, TypeOK, States
<1>2. /\ rq \in ReadyQueues /\ OnceIn(rq)
      /\ st \in [Tid -> States]
      /\ \A u \in Tid : Holds(rq, u) => st[u] \in {"Ready", "Terminated"}
      /\ \A u \in Tid : st[u] = "Running" => u = current_thread
      /\ \A u \in Tid : st[u] = "unborn" <=> state[u] = "unborn"
  <2>1. CASE preempted
    <3>1. ~Holds(ready_queues, current_thread)
      BY <2>1, <1>1 DEF SchedInv, Runnable
    <3>2. rq = Push(ready_queues, current_thread, priority[current_thread])
      BY <2>1
    <3>3. st = [state EXCEPT ![current_thread] = "Ready"]
      BY <2>1
    <3>4. /\ rq \in ReadyQueues /\ OnceIn(rq)
          /\ \A u \in Tid : Holds(rq, u) <=> Holds(ready_queues, u) \/ u = current_thread
      BY <3>1, <3>2, <1>1, PushOnce, PushEffect DEF SchedInv
    <3> HIDE DEF rq, st
    <3> QED
      BY <2>1, <3>3, <3>4, <1>1
      DEF SchedInv, Runnable, SingleRunning, States, ThreadStates
  <2>2. CASE ~preempted
    BY <2>2, <1>1 DEF SchedInv, Runnable, SingleRunning
  <2> QED
    BY <2>1, <2>2
<1>3. \/ /\ NonEmpty(rq) # {}
         /\ ready_queues' = Popped(rq)
         /\ SwitchTo(Picked(rq), st)
      \/ UNCHANGED queueVars
  BY DEF Reschedule
<1> HIDE DEF rq, st
<1>4. CASE NonEmpty(rq) # {} /\ ready_queues' = Popped(rq) /\ SwitchTo(Picked(rq), st)
  BY <1>2, <1>4, DispatchKeepsInv
<1>5. CASE UNCHANGED queueVars
  BY <1>5 DEF queueVars, threadVars, SchedInv, OnceIn, Runnable, Holds, SingleRunning, ThreadsOwned
<1> QED
  BY <1>3, <1>4, <1>5

(* Every action keeps the invariant.                                       *)
LEMMA SchedInvStep == SchedInv /\ [Next]_vars => SchedInv'
<1> SUFFICES ASSUME SchedInv, [Next]_vars PROVE SchedInv'
  OBVIOUS
<1>t. TypeOK /\ TypeOK' /\ ready_queues \in ReadyQueues
  BY TypeStep, QueuesTyped DEF SchedInv
<1>q. /\ OnceIn(ready_queues) /\ Runnable
      /\ SingleRunning /\ ThreadsOwned
  BY DEF SchedInv
<1>1. CASE Tick
  <2>1. CASE UNCHANGED <<queueVars, threadVars>>
    BY <2>1, <1>t, <1>q
    DEF SchedInv, queueVars, threadVars, OnceIn, Runnable, Holds, SingleRunning, ThreadsOwned
  <2>2. CASE current_thread # NoThread /\ Reschedule
    BY <1>1, <2>2, <1>t, RescheduleKeepsInv DEF Tick, SchedInv
  <2> QED
    BY <1>1, <2>1, <2>2 DEF Tick, QuantumLeft, QuantumExpired
<1>2. CASE StartFirst
  <2>1. state \in [Tid -> States]
    BY <1>t DEF TypeOK, States
  <2> QED
    BY <1>2, <2>1, <1>t, <1>q, DispatchKeepsInv
    DEF StartFirst, SchedInv, Runnable, SingleRunning
<1>3. ASSUME NEW shape \in ProcessShapes, AddProcess(shape) PROVE SchedInv'
  <2> DEFINE born == next_tid .. next_tid + Len(shape) - 1
  <2>1. shape \in Seq(Priorities) /\ Len(shape) \in Nat
    BY SchedulerConstants
  <2>2. next_tid \in Nat \ {0} /\ Tid \subseteq Nat
    BY <1>t, SchedulerConstants DEF TypeOK, Tid
  <2>3. /\ next_tid' = next_tid + Len(shape)
        /\ processes' = processes \cup {next_pid}
        /\ current_thread' = current_thread /\ current_process' = current_process
        /\ state' = [t \in Tid |-> IF t \in born THEN "Ready" ELSE state[t]]
        /\ process_id' = [t \in Tid |-> IF t \in born THEN next_pid ELSE process_id[t]]
    BY <1>3 DEF AddProcess
  <2>4. \A t \in Tid : t \in born => state[t] = "unborn"
    BY <2>1, <2>2, <1>q DEF ThreadsOwned
  <2>5. \A t \in Tid : Holds(ready_queues, t) => t \notin born
    BY <2>4, <1>q DEF Runnable
  <2>6. OnceIn(ready_queues)' /\ Runnable'
    <3>1. CASE shape = <<>>
      <4>1. ready_queues' = ready_queues
        BY <3>1, <1>3 DEF AddProcess
      <4> QED
        BY <4>1, <2>3, <2>5, <1>q DEF OnceIn, Runnable, Holds
    <3>2. CASE shape # <<>>
      <4>1. Len(shape) >= 1 /\ shape[1] \in Priorities
        BY <2>1, <3>2
      <4>2. next_tid \in Tid /\ next_tid \in born
        BY <1>3, <2>1, <2>2, <4>1, SchedulerConstants DEF AddProcess, Tid
      <4>3. ready_queues' = Push(ready_queues, next_tid, shape[1])
        BY <1>3, <3>2 DEF AddProcess
      <4>4. ~Holds(ready_queues, next_tid)
        BY <2>5, <4>2
      <4>5. /\ \A u \in Tid : Holds(ready_queues', u) <=> Holds(ready_queues, u) \/ u = next_tid
            /\ OnceIn(ready_queues')
        BY <4>1, <4>2, <4>3, <4>4, <1>t, <1>q, PushOnce
      <4>6. Runnable'
        <5> SUFFICES ASSUME NEW u \in Tid, Holds(ready_queues', u)
                     PROVE  state'[u] \in {"Ready", "Terminated"}
          BY DEF Runnable, Holds
        <5> QED
          BY <4>2, <4>5, <2>3, <1>q DEF Runnable
      <4> QED
        BY <4>5, <4>6 DEF OnceIn
    <3> QED
      BY <3>1, <3>2
  <2>7. ThreadsOwned'
    <3> SUFFICES ASSUME NEW t \in Tid
                 PROVE  /\ state'[t] # "unborn" <=> t < next_tid'
                        /\ t < next_tid' => process_id'[t] \in processes'
                        /\ current_thread' < next_tid'
      <4>1. current_thread' < next_tid'
        BY <2>1, <2>2, <2>3, <1>q, <1>t DEF ThreadsOwned, TypeOK, NoThread
      <4> QED
        BY <4>1 DEF ThreadsOwned
    <3>1. t \in born <=> next_tid <= t /\ t < next_tid + Len(shape)
      BY <2>1, <2>2
    <3>2. t \in Nat /\ (t < next_tid' <=> t < next_tid \/ t \in born)
      BY <3>1, <2>1, <2>2, <2>3
    <3>3. current_thread' < next_tid'
      BY <2>1, <2>2, <2>3, <1>q, <1>t DEF ThreadsOwned, TypeOK, NoThread
    <3>4. CASE t \in born
      BY <3>2, <3>3, <3>4, <2>3
    <3>5. CASE t \notin born
      <4>1. state'[t] = state[t] /\ process_id'[t] = process_id[t]
        BY <3>5, <2>3
      <4>2. /\ state[t] # "unborn" <=> t < next_tid
            /\ t < next_tid => process_id[t] \in processes
        BY <1>q DEF ThreadsOwned
      <4> QED
        BY <3>2, <3>3, <3>5, <4>1, <4>2, <2>3
    <3> QED
      BY <3>4, <3>5
  <2>8. SingleRunning'
    <3>1. current_thread # NoThread => current_thread \in Tid /\ current_thread \notin born
      BY <2>1, <2>2, <1>t, <1>q DEF TypeOK, ThreadsOwned
    <3> QED
      BY <3>1, <2>3, <1>q DEF SingleRunning
  <2> QED
    BY <1>t, <2>6, <2>7, <2>8 DEF SchedInv
<1>4. CASE SpawnUserProcess
  BY <1>4, <1>t, <1>q
  DEF SpawnUserProcess, queueVars, SchedInv, OnceIn, Runnable, Holds, SingleRunning, ThreadsOwned
<1>5. ASSUME NEW p \in ThreadPriorities, CreateThread(p) PROVE SchedInv'
  <2>1. next_tid \in Tid /\ p \in Priorities
    BY <1>5, <1>t, SchedulerConstants DEF CreateThread, TypeOK, Tid
  <2>2. next_tid \in Nat /\ Tid \subseteq Nat
    BY <1>t, SchedulerConstants DEF TypeOK, Tid
  <2>3. state[next_tid] = "unborn" /\ ~Holds(ready_queues, next_tid)
    BY <2>1, <2>2, <1>q DEF ThreadsOwned, Runnable
  <2>4. /\ \A u \in Tid : Holds(ready_queues', u) <=> Holds(ready_queues, u) \/ u = next_tid
        /\ OnceIn(ready_queues')
    BY <1>5, <2>1, <2>3, <1>t, <1>q, PushOnce DEF CreateThread
  <2>5. state' = [state EXCEPT ![next_tid] = "Ready"] /\ state \in [Tid -> States]
    BY <1>5, <1>t DEF CreateThread, TypeOK, States
  <2>6. Runnable'
    <3> SUFFICES ASSUME NEW u \in Tid, Holds(ready_queues', u)
                 PROVE  state'[u] \in {"Ready", "Terminated"}
      BY DEF Runnable, Holds
    <3> QED
      BY <2>1, <2>4, <2>5, <1>q DEF Runnable
  <2>7. current_thread # NoThread => current_thread \in Tid /\ current_thread # next_tid
    BY <2>2, <1>t, <1>q DEF TypeOK, ThreadsOwned
  <2>8. SingleRunning'
    BY <1>5, <2>1, <2>5, <2>7, <1>t, <1>q DEF CreateThread, SingleRunning, TypeOK
  <2>9. ThreadsOwned'
    BY <1>5, <2>1, <2>2, <2>5, <1>t, <1>q DEF CreateThread, ThreadsOwned, TypeOK, NoThread
  <2> QED
    BY <1>t, <2>4, <2>6, <2>8, <2>9 DEF SchedInv, OnceIn
<1>6. ASSUME NEW t \in Tid, NEW p \in SetPriorities, SetPriority(t, p) PROVE SchedInv'
  BY <1>6, <1>t, <1>q
  DEF SetPriority, queueVars, SchedInv, OnceIn, Runnable, Holds, SingleRunning, ThreadsOwned
<1>7. ASSUME NEW t \in Tid, TerminateThread(t) PROVE SchedInv'
  <2>1. state' = [state EXCEPT ![t] = "Terminated"] /\ state \in [Tid -> States]
    BY <1>7, <1>t DEF TerminateThread, TypeOK, States
  <2>2. UNCHANGED <<ready_queues, current_thread, current_process, threadVars>>
    BY <1>7 DEF TerminateThread
  <2>3. OnceIn(ready_queues)' /\ Runnable'
    BY <2>1, <2>2, <1>q DEF OnceIn, Runnable, Holds
  <2>4. SingleRunning' /\ ThreadsOwned'
    BY <1>7, <2>1, <2>2, <1>q DEF TerminateThread, Exists, SingleRunning, ThreadsOwned, threadVars
  <2> QED
    BY <1>t, <2>3, <2>4 DEF SchedInv
<1>8. ASSUME NEW t \in Tid, BlockThread(t) PROVE SchedInv'
  <2>1. state' = [state EXCEPT ![t] = "Blocked"] /\ state \in [Tid -> States]
    BY <1>8, <1>t DEF BlockThread, TypeOK, States
  <2>2. UNCHANGED <<ready_queues, current_thread, current_process, threadVars>>
    BY <1>8 DEF BlockThread
  <2>3. ~Holds(ready_queues, t)
    BY <1>8, <1>q DEF BlockThread, Runnable
  <2>4. OnceIn(ready_queues)' /\ Runnable'
    BY <2>1, <2>2, <2>3, <1>q DEF OnceIn, Runnable, Holds
  <2>5. SingleRunning' /\ ThreadsOwned'
    BY <1>8, <2>1, <2>2, <1>q DEF BlockThread, Exists, SingleRunning, ThreadsOwned, threadVars
  <2> QED
    BY <1>t, <2>4, <2>5 DEF SchedInv
<1>9. ASSUME NEW t \in Tid, UnblockThread(t) PROVE SchedInv'
  <2>1. state' = [state EXCEPT ![t] = "Ready"] /\ state \in [Tid -> States]
    BY <1>9, <1>t DEF UnblockThread, TypeOK, States
  <2>2. UNCHANGED <<current_thread, current_process, threadVars>>
    BY <1>9 DEF UnblockThread
  <2>3. ~Holds(ready_queues, t) /\ priority[t] \in Priorities
    BY <1>9, <1>t, <1>q DEF UnblockThread, Runnable, TypeOK
  <2>4. /\ \A u \in Tid : Holds(ready_queues', u) <=> Holds(ready_queues, u) \/ u = t
        /\ OnceIn(ready_queues')
    BY <1>9, <2>3, <1>t, <1>q, PushOnce DEF UnblockThread
  <2>5. Runnable'
    <3> SUFFICES ASSUME NEW u \in Tid, Holds(ready_queues', u)
                 PROVE  state'[u] \in {"Ready", "Terminated"}
      BY DEF Runnable, Holds
    <3> QED
      BY <2>1, <2>4, <1>q DEF Runnable
  <2>6. SingleRunning' /\ ThreadsOwned'
    BY <1>9, <2>1, <2>2, <1>q DEF UnblockThread, Exists, SingleRunning, ThreadsOwned, threadVars
  <2> QED
    BY <1>t, <2>4, <2>5, <2>6 DEF SchedInv, OnceIn
<1>10. CASE UNCHANGED vars
  BY <1>10, <1>t, <1>q
  DEF vars, queueVars, threadVars, SchedInv, OnceIn, Runnable, Holds, SingleRunning, ThreadsOwned
<1> QED
  BY <1>1, <1>2, <1>3, <1>4, <1>5, <1>6, <1>7, <1>8, <1>9, <1>10 DEF Next

(* The invariant holds initially: there is no thread and no queue entry.   *)
LEMMA SchedInvInit == Init => SchedInv
<1> SUFFICES ASSUME Init PROVE SchedInv
  OBVIOUS
<1>1. TypeOK
  BY SchedulerConstants DEF Init, TypeOK, Tid, Pid, Priorities, NoThread, NoPid
<1>2. OnceIn(ready_queues) /\ Runnable
  <2>1. \A q \in Queues : Len(ready_queues[q]) = 0
    BY DEF Init
  <2> QED
    BY <2>1 DEF OnceIn, Runnable, Holds
<1>3. SingleRunning /\ ThreadsOwned
  BY SchedulerConstants DEF Init, SingleRunning, ThreadsOwned, Tid, NoThread
<1> QED
  BY <1>1, <1>2, <1>3 DEF SchedInv

(* The invariant holds in every reachable state.                           *)
LEMMA SchedInvariant == Spec => []SchedInv
BY SchedInvInit, SchedInvStep, PTL DEF Spec

(* However tick, add_process, create_thread, block_thread, unblock_thread  *)
(* and terminate_thread interleave, no thread is queued twice.             *)
THEOREM NoDuplicateEntries == Spec => []QueuedOnce
<1>1. SchedInv => QueuedOnce
  BY DEF SchedInv, OnceIn, QueuedOnce
<1> QED
  BY <1>1, SchedInvariant, PTL

(* ... no running, blocked or not yet created thread is in a queue,        *)
THEOREM QueuesHoldRunnable == Spec => []QueuedRunnable
<1>1. SchedInv => QueuedRunnable
  <2> SUFFICES ASSUME SchedInv, NEW q \in Queues, NEW i \in 1 .. Len(ready_queues[q])
               PROVE  state[ready_queues[q][i]] \in {"Ready", "Terminated"}
    BY DEF QueuedRunnable
  <2>1. ready_queues[q] \in Seq(Tid)
    BY DEF SchedInv, TypeOK
  <2>2. ready_queues[q][i] \in Tid
    BY <2>1
  <2> QED
    BY <2>2 DEF SchedInv, Runnable, Holds
<1> QED
  BY <1>1, SchedInvariant, PTL

(* ... at most the current thread is Running, and the current process is   *)
(* the process of the current thread,                                      *)
THEOREM OneRunningThread == Spec => []SingleRunning
<1>1. SchedInv => SingleRunning
  BY DEF SchedInv
<1> QED
  BY <1>1, SchedInvariant, PTL

(* ... and every thread belongs to a process that the scheduler owns.      *)
THEOREM EveryThreadOwned == Spec => []ThreadsOwned
<1>1. SchedInv => ThreadsOwned
  BY DEF SchedInv
<1> QED
  BY <1>1, SchedInvariant, PTL

-----------------------------------------------------------------------------
(* No lost threads, if every process comes with at most one thread.        *)

Queued == \A t \in Tid : state[t] = "Ready" => Holds(ready_queues, t)

SingleThreaded == \A shape \in ProcessShapes : Len(shape) <= 1

(* Taking a thread off the queues and switching to it loses nobody.        *)
LEMMA DispatchKeepsQueued ==
  ASSUME NEW rq \in ReadyQueues, NEW st \in [Tid -> States],
         OnceIn(rq), NonEmpty(rq) # {},
         \A u \in Tid : st[u] = "Ready" => Holds(rq, u),
         current_thread \in Tid => st[current_thread] # "Running",
         ready_queues' = Popped(rq), SwitchTo(Picked(rq), st)
  PROVE  Queued'
<1> SUFFICES ASSUME NEW u \in Tid, state'[u] = "Ready"
             PROVE  Holds(Popped(rq), u)
  BY DEF Queued, Holds
<1>1. u # Picked(rq) /\ st[u] = "Ready"
  BY DEF SwitchTo
<1> QED
  BY <1>1, PopOnce

(* Every action keeps the Ready threads queued.                            *)
LEMMA QueuedStep ==
  ASSUME SingleThreaded, SchedInv, Queued, [Next]_vars PROVE Queued'
<1>t. /\ TypeOK /\ ready_queues \in ReadyQueues /\ OnceIn(ready_queues)
      /\ state \in [Tid -> States]
  BY QueuesTyped DEF SchedInv, TypeOK, States
<1>1. CASE Tick
  <2>1. CASE UNCHANGED queueVars
    BY <2>1 DEF queueVars, Queued, Holds
  <2>2. CASE current_thread # NoThread /\ Reschedule
    <3> DEFINE preempted == state[current_thread] = "Running"
               rq == IF preempted
                       THEN Push(ready_queues, current_thread, priority[current_thread])
                       ELSE ready_queues
               st == IF preempted THEN [state EXCEPT ![current_thread] = "Ready"] ELSE state
    <3>1. current_thread \in Tid /\ priority[current_thread] \in Priorities
      BY <2>2, <1>t DEF TypeOK
    <3>2. /\ rq \in ReadyQueues /\ OnceIn(rq)
          /\ st \in [Tid -> States] /\ st[current_thread] # "Running"
          /\ \A u \in Tid : st[u] = "Ready" => Holds(rq, u)
      <4>1. CASE preempted
        <5>1. ~Holds(ready_queues, current_thread)
          BY <4>1, <3>1 DEF SchedInv, Runnable
        <5>2. /\ rq \in ReadyQueues /\ OnceIn(rq)
              /\ \A u \in Tid : Holds(rq, u) <=> Holds(ready_queues, u) \/ u = current_thread
          BY <4>1, <5>1, <3>1, <1>t, PushOnce, PushEffect
        <5>3. st = [state EXCEPT ![current_thread] = "Ready"]
          BY <4>1
        <5> HIDE DEF rq, st
        <5> QED
          BY <5>2, <5>3, <3>1, <1>t DEF Queued, States, ThreadStates
      <4>2. CASE ~preempted
        BY <4>2, <1>t DEF Queued
      <4> QED
        BY <4>1, <4>2
    <3>3. \/ /\ NonEmpty(rq) # {}
             /\ ready_queues' = Popped(rq)
             /\ SwitchTo(Picked(rq), st)
          \/ UNCHANGED queueVars
      BY <2>2 DEF Reschedule
    <3> HIDE DEF rq, st
    <3>4. CASE UNCHANGED queueVars
      BY <2>1, <3>4
    <3> QED
      BY <3>2, <3>3, <3>4, DispatchKeepsQueued
  <2> QED
    BY <1>1, <2>1, <2>2 DEF Tick, QuantumLeft, QuantumExpired
<1>2. CASE StartFirst
  <2>1. current_thread \notin Tid
    BY <1>2, SchedulerConstants DEF StartFirst, NoThread, Tid
  <2>2. \A u \in Tid : state[u] = "Ready" => Holds(ready_queues, u)
    BY DEF Queued
  <2>3. /\ NonEmpty(ready_queues) # {}
        /\ ready_queues' = Popped(ready_queues)
        /\ SwitchTo(Picked(ready_queues), state)
    BY <1>2 DEF StartFirst
  <2> QED
    BY <2>1, <2>2, <2>3, <1>t, DispatchKeepsQueued
<1>3. ASSUME NEW shape \in ProcessShapes, AddProcess(shape) PROVE Queued'
  <2>1. shape \in Seq(Priorities) /\ Len(shape) \in Nat /\ Len(shape) <= 1
    BY SchedulerConstants DEF SingleThreaded
  <2>2. next_tid \in Nat \ {0} /\ Tid \subseteq Nat
    BY <1>t, SchedulerConstants DEF TypeOK, Tid
  <2>3. CASE shape = <<>>
    <3>1. ready_queues' = ready_queues /\ Len(shape) = 0
      BY <2>3, <1>3 DEF AddProcess
    <3>2. \A t \in Tid : t \notin next_tid .. next_tid + Len(shape) - 1
      BY <3>1, <2>2
    <3>3. \A t \in Tid : state'[t] = state[t]
      BY <3>2, <1>3 DEF AddProcess
    <3> QED
      BY <3>1, <3>3 DEF Queued, Holds
  <2>4. CASE shape # <<>>
    <3>1. Len(shape) >= 1 /\ shape[1] \in Priorities
      BY <2>1, <2>4
    <3>2. next_tid \in Tid
      BY <1>3, <3>1, <2>1, <2>2, SchedulerConstants DEF AddProcess, Tid
    <3>3. \A t \in Tid : t # next_tid => state'[t] = state[t]
      BY <1>3, <3>1, <2>1, <2>2 DEF AddProcess
    <3>4. ready_queues' = Push(ready_queues, next_tid, shape[1])
      BY <1>3, <2>4 DEF AddProcess
    <3>5. \A u \in Tid : Holds(ready_queues', u) <=> Holds(ready_queues, u) \/ u = next_tid
      BY <3>1, <3>2, <3>4, <1>t, PushOnce
    <3> QED
      BY <3>3, <3>5 DEF Queued, Holds
  <2> QED
    BY <2>3, <2>4
<1>4. CASE SpawnUserProcess
  BY <1>4 DEF SpawnUserProcess, queueVars, Queued, Holds
<1>5. ASSUME NEW p \in ThreadPriorities, CreateThread(p) PROVE Queued'
  <2>1. next_tid \in Tid /\ p \in Priorities
    BY <1>5, <1>t, SchedulerConstants DEF CreateThread, TypeOK, Tid
  <2>2. \A u \in Tid : Holds(ready_queues', u) <=> Holds(ready_queues, u) \/ u = next_tid
    BY <1>5, <2>1, <1>t, PushOnce DEF CreateThread
  <2>3. \A u \in Tid : u # next_tid => state'[u] = state[u]
    BY <1>5, <1>t DEF CreateThread
  <2> QED
    BY <2>2, <2>3 DEF Queued, Holds
<1>6. ASSUME NEW t \in Tid, NEW p \in SetPriorities, SetPriority(t, p) PROVE Queued'
  BY <1>6 DEF SetPriority, queueVars, Queued, Holds
<1>7. ASSUME NEW t \in Tid, TerminateThread(t) PROVE Queued'
  BY <1>7, <1>t DEF TerminateThread, Queued, Holds
<1>8. ASSUME NEW t \in Tid, BlockThread(t) PROVE Queued'
  BY <1>8, <1>t DEF BlockThread, Queued, Holds
<1>9. ASSUME NEW t \in Tid, UnblockThread(t) PROVE Queued'
  <2>1. \A u \in Tid : Holds(ready_queues', u) <=> Holds(ready_queues, u) \/ u = t
    BY <1>9, <1>t, PushOnce DEF UnblockThread, TypeOK
  <2>2. \A u \in Tid : u # t => state'[u] = state[u]
    BY <1>9, <1>t DEF UnblockThread
  <2> QED
    BY <2>1, <2>2 DEF Queued, Holds
<1>10. CASE UNCHANGED vars
  BY <1>10 DEF vars, queueVars, Queued, Holds
<1> QED
  BY <1>1, <1>2, <1>3, <1>4, <1>5, <1>6, <1>7, <1>8, <1>9, <1>10 DEF Next

(* When add_process only gets processes with at most one thread, a Ready   *)
(* thread is always in a queue, so that schedule can find it.              *)
THEOREM NoLostThread == ASSUME SingleThreaded PROVE Spec => []ReadyIsQueued
<1>1. Init => Queued
  BY DEF Init, Queued
<1>2. SchedInv /\ Queued /\ [Next]_vars => Queued'
  BY QueuedStep
<1>3. Queued => ReadyIsQueued
  BY DEF Queued, Holds, ReadyIsQueued
<1> QED
  BY <1>1, <1>2, <1>3, SchedInvariant, PTL DEF Spec

-----------------------------------------------------------------------------
(* What tick's rescheduling does, for the two results below.               *)

(* Every entry of rq is in the queue of its thread's priority in pr.       *)
Placed(rq, pr) ==
  \A q \in Queues : \A i \in 1 .. Len(rq[q]) : QueueIndex[pr[rq[q][i]]] = q

(* add_to_ready_queue puts a thread where its priority says.               *)
LEMMA PushPlaced ==
  ASSUME NEW rq \in ReadyQueues, NEW t \in Tid, NEW pr, pr[t] \in Priorities, Placed(rq, pr)
  PROVE  Placed(Push(rq, t, pr[t]), pr)
<1> DEFINE k == QueueIndex[pr[t]]
           new == Push(rq, t, pr[t])
<1>1. k \in Queues
  BY QueueIndexType
<1>2. /\ \A q \in Queues : q # k => new[q] = rq[q]
      /\ new[k] = Append(rq[k], t)
  BY PushEffect
<1>3. rq[k] \in Seq(Tid)
  BY <1>1 DEF ReadyQueues
<1>4. /\ Len(rq[k]) \in Nat
      /\ Len(new[k]) = Len(rq[k]) + 1
      /\ new[k][Len(rq[k]) + 1] = t
      /\ \A i \in 1 .. Len(rq[k]) : new[k][i] = rq[k][i]
  BY <1>2, <1>3
<1>5. k = QueueIndex[pr[t]]
  OBVIOUS
<1> HIDE DEF k, new
<1> SUFFICES ASSUME NEW q \in Queues, NEW i \in 1 .. Len(new[q])
             PROVE  QueueIndex[pr[new[q][i]]] = q
  BY DEF Placed, new
<1>6. CASE q # k
  BY <1>6, <1>2 DEF Placed
<1>7. CASE q = k /\ i = Len(rq[k]) + 1
  BY <1>7, <1>4, <1>5
<1>8. CASE q = k /\ i \in 1 .. Len(rq[k])
  BY <1>8, <1>4 DEF Placed
<1> QED
  BY <1>6, <1>7, <1>8, <1>4

(* schedule leaves the entries it does not take where they are.            *)
LEMMA PopPlaced ==
  ASSUME NEW rq \in ReadyQueues, NonEmpty(rq) # {}, NEW pr, Placed(rq, pr)
  PROVE  Placed(Popped(rq), pr)
<1> DEFINE k == TopQueue(rq)
           new == Popped(rq)
<1>1. /\ \A q \in Queues : q # k => new[q] = rq[q]
      /\ Len(rq[k]) \in Nat \ {0}
      /\ Len(new[k]) = Len(rq[k]) - 1
      /\ \A i \in 1 .. Len(rq[k]) - 1 : new[k][i] = rq[k][i]
  BY PopEffect
<1> HIDE DEF k, new
<1> SUFFICES ASSUME NEW q \in Queues, NEW i \in 1 .. Len(new[q])
             PROVE  QueueIndex[pr[new[q][i]]] = q
  BY DEF Placed, new
<1>2. CASE q # k
  BY <1>2, <1>1 DEF Placed
<1>3. CASE q = k
  BY <1>3, <1>1 DEF Placed
<1> QED
  BY <1>2, <1>3

(* A thread table st in which nobody runs, and queues rq, from which tick  *)
(* picks the next thread: those of the state, with the Running thread, if  *)
(* there is one, made Ready and queued.                                    *)
Handover(rq, st) ==
  /\ OnceIn(rq) /\ NonEmpty(rq) # {}
  /\ \A u \in Tid : st[u] = IF state[u] = "Running" THEN "Ready" ELSE state[u]
  /\ \A u \in Tid : Holds(rq, u) <=> Holds(ready_queues, u) \/ state[u] = "Running"
  /\ Placed(ready_queues, priority) => Placed(rq, priority)
  /\ ready_queues' = Popped(rq)
  /\ SwitchTo(Picked(rq), st)

(* tick either leaves the processor alone or hands it over.                *)
LEMMA RescheduleHandsOver ==
  ASSUME SchedInv, current_thread # NoThread, Reschedule
  PROVE  \/ UNCHANGED queueVars
         \/ \E rq \in ReadyQueues, st \in [Tid -> States] : Handover(rq, st)
<1> DEFINE preempted == state[current_thread] = "Running"
           rq == IF preempted
                   THEN Push(ready_queues, current_thread, priority[current_thread])
                   ELSE ready_queues
           st == IF preempted THEN [state EXCEPT ![current_thread] = "Ready"] ELSE state
<1>1. /\ TypeOK /\ current_thread \in Tid
      /\ priority[current_thread] \in Priorities
      /\ ready_queues \in ReadyQueues
      /\ state \in [Tid -> States]
  BY QueuesTyped DEF SchedInv, TypeOK, States
<1>2. \A u \in Tid : state[u] = "Running" => u = current_thread
  BY DEF SchedInv, SingleRunning
<1>3. /\ rq \in ReadyQueues /\ OnceIn(rq)
      /\ st \in [Tid -> States]
      /\ \A u \in Tid : st[u] = IF state[u] = "Running" THEN "Ready" ELSE state[u]
      /\ \A u \in Tid : Holds(rq, u) <=> Holds(ready_queues, u) \/ state[u] = "Running"
      /\ Placed(ready_queues, priority) => Placed(rq, priority)
  <2>1. CASE preempted
    <3>1. ~Holds(ready_queues, current_thread)
      BY <2>1, <1>1 DEF SchedInv, Runnable
    <3>2. /\ rq \in ReadyQueues /\ OnceIn(rq)
          /\ \A u \in Tid : Holds(rq, u) <=> Holds(ready_queues, u) \/ u = current_thread
      BY <2>1, <3>1, <1>1, PushOnce, PushEffect DEF SchedInv
    <3>3. Placed(ready_queues, priority) => Placed(rq, priority)
      BY <2>1, <1>1, PushPlaced
    <3>4. st = [state EXCEPT ![current_thread] = "Ready"] /\ state[current_thread] = "Running"
      BY <2>1
    <3> HIDE DEF rq, st
    <3> QED
      BY <3>2, <3>3, <3>4, <1>1, <1>2 DEF States, ThreadStates
  <2>2. CASE ~preempted
    <3>1. \A u \in Tid : state[u] # "Running"
      BY <2>2, <1>2
    <3> QED
      BY <2>2, <3>1, <1>1 DEF SchedInv
  <2> QED
    BY <2>1, <2>2
<1>4. \/ /\ NonEmpty(rq) # {}
         /\ ready_queues' = Popped(rq)
         /\ SwitchTo(Picked(rq), st)
      \/ UNCHANGED queueVars
  BY DEF Reschedule
<1> HIDE DEF rq, st
<1> QED
  BY <1>3, <1>4 DEF Handover

(* StartFirst hands the processor over too: nobody has it.                 *)
LEMMA StartHandsOver ==
  ASSUME SchedInv, StartFirst PROVE Handover(ready_queues, state)
<1>1. \A u \in Tid : state[u] # "Running"
  BY SchedulerConstants DEF SchedInv, SingleRunning, StartFirst, NoThread, Tid
<1> QED
  BY <1>1 DEF SchedInv, StartFirst, Handover

(* Every step of Next that changes who runs is such a hand-over.           *)
LEMMA TickHandsOver ==
  ASSUME SchedInv, Tick \/ StartFirst
  PROVE  \/ UNCHANGED queueVars
         \/ \E rq \in ReadyQueues, st \in [Tid -> States] : Handover(rq, st)
<1>1. CASE Tick
  BY <1>1, RescheduleHandsOver DEF Tick, QuantumLeft, QuantumExpired
<1>2. CASE StartFirst
  <2>1. ready_queues \in ReadyQueues /\ state \in [Tid -> States]
    BY QueuesTyped DEF SchedInv, TypeOK, States
  <2> QED
    BY <1>2, <2>1, StartHandsOver
<1> QED
  BY <1>1, <1>2

(* After a hand-over the picked thread runs, alone, and the rest of the    *)
(* table is st.                                                            *)
LEMMA HandoverEffect ==
  ASSUME NEW rq \in ReadyQueues, NEW st \in [Tid -> States], Handover(rq, st)
  PROVE  /\ Picked(rq) \in Tid
         /\ state' = [u \in Tid |-> IF u = Picked(rq) THEN "Running" ELSE st[u]]
<1>1. Picked(rq) \in Tid
  BY PopEffect DEF Handover
<1>2. \A u \in Tid : st[u] # "Running"
  BY DEF Handover
<1>3. state' = [u \in Tid |->
                  IF u = Picked(rq) THEN "Running"
                  ELSE IF u = current_thread /\ st[u] = "Running" THEN "Ready"
                  ELSE st[u]]
  BY DEF Handover, SwitchTo
<1> QED
  BY <1>1, <1>2, <1>3

-----------------------------------------------------------------------------
(* Priority order, as long as nobody changes the priority of a thread.     *)

InPlace == Placed(ready_queues, priority)

(* Thread t got the processor in this step although u, which is Ready,     *)
(* waits in a queue that schedule looks at earlier: what no step may do.   *)
LEMMA HandoverInOrder ==
  ASSUME NEW rq \in ReadyQueues, NEW st \in [Tid -> States], Handover(rq, st),
         SchedInv, Queued, InPlace,
         NEW t \in Tid, NEW u \in Tid, state'[t] = "Running", state'[u] = "Ready"
  PROVE  QueueIndex[priority[t]] <= QueueIndex[priority[u]]
<1>1. /\ Picked(rq) \in Tid
      /\ state' = [v \in Tid |-> IF v = Picked(rq) THEN "Running" ELSE st[v]]
  BY HandoverEffect
<1>2. t = Picked(rq) /\ st[u] = "Ready"
  BY <1>1 DEF Handover
<1>3. NonEmpty(rq) # {} /\ Placed(rq, priority) /\ Holds(rq, u)
  BY <1>2 DEF Handover, InPlace, Queued
<1>4. /\ TopQueue(rq) \in Queues
      /\ \A r \in Queues : rq[r] # <<>> => TopQueue(rq) <= r
      /\ Len(rq[TopQueue(rq)]) \in Nat \ {0}
      /\ Picked(rq) = rq[TopQueue(rq)][Len(rq[TopQueue(rq)])]
  BY <1>3, TopQueueIsFirst, PopEffect
<1>5. QueueIndex[priority[t]] = TopQueue(rq)
  BY <1>2, <1>3, <1>4 DEF Placed
<1>6. PICK q \in Queues : \E i \in 1 .. Len(rq[q]) : rq[q][i] = u
  BY <1>3 DEF Holds
<1>7. QueueIndex[priority[u]] = q
  BY <1>3, <1>6 DEF Placed
<1>8. rq[q] # <<>>
  BY <1>6
<1> QED
  BY <1>4, <1>5, <1>7, <1>8

(* New threads are in no queue yet: giving them their priorities leaves    *)
(* every entry in its place.                                               *)
LEMMA NewbornsKeepPlace ==
  ASSUME SchedInv, InPlace,
         \A t \in Tid : state[t] # "unborn" => priority'[t] = priority[t]
  PROVE  Placed(ready_queues, priority')
<1> SUFFICES ASSUME NEW q \in Queues, NEW i \in 1 .. Len(ready_queues[q])
             PROVE  QueueIndex[priority'[ready_queues[q][i]]] = q
  BY DEF Placed
<1>1. ready_queues[q][i] \in Tid /\ Holds(ready_queues, ready_queues[q][i])
  <2>1. ready_queues[q] \in Seq(Tid)
    BY QueuesTyped DEF SchedInv, ReadyQueues
  <2> QED
    BY <2>1 DEF Holds
<1>2. state[ready_queues[q][i]] # "unborn"
  BY <1>1 DEF SchedInv, Runnable
<1> QED
  BY <1>1, <1>2 DEF InPlace, Placed

(* Every action keeps the entries in their places; sys_set_priority would  *)
(* not.                                                                    *)
LEMMA InPlaceStep ==
  ASSUME SetPriorities = {}, SchedInv, InPlace, [Next]_vars PROVE InPlace'
<1>t. TypeOK /\ ready_queues \in ReadyQueues
  BY QueuesTyped DEF SchedInv
<1>1. ASSUME ready_queues' = ready_queues, priority' = priority PROVE InPlace'
  BY <1>1 DEF InPlace, Placed
<1>2. CASE Tick \/ StartFirst
  <2>1. priority' = priority
    BY <1>2 DEF Tick, StartFirst, threadVars
  <2>2. CASE UNCHANGED queueVars
    BY <2>1, <2>2, <1>1 DEF queueVars
  <2>3. ASSUME NEW rq \in ReadyQueues, NEW st \in [Tid -> States], Handover(rq, st)
        PROVE  InPlace'
    <3>1. Placed(Popped(rq), priority)
      BY <2>3, PopPlaced DEF Handover, InPlace
    <3> QED
      BY <3>1, <2>1, <2>3 DEF Handover, InPlace, Placed
  <2> QED
    BY <1>2, <2>2, <2>3, TickHandsOver
<1>3. ASSUME NEW shape \in ProcessShapes, AddProcess(shape) PROVE InPlace'
  <2>1. shape \in Seq(Priorities) /\ Len(shape) \in Nat
    BY SchedulerConstants
  <2>2. next_tid \in Nat \ {0} /\ Tid \subseteq Nat
    BY <1>t, SchedulerConstants DEF TypeOK, Tid
  <2>3. \A t \in Tid : state[t] # "unborn" => priority'[t] = priority[t]
    <3>1. \A t \in Tid : state[t] # "unborn" => t \notin next_tid .. next_tid + Len(shape) - 1
      BY <2>1, <2>2 DEF SchedInv, ThreadsOwned
    <3> QED
      BY <3>1, <1>3 DEF AddProcess
  <2>4. Placed(ready_queues, priority')
    BY <2>3, NewbornsKeepPlace
  <2>5. CASE shape = <<>>
    BY <2>4, <2>5, <1>3 DEF AddProcess, InPlace
  <2>6. CASE shape # <<>>
    <3>1. Len(shape) >= 1 /\ shape[1] \in Priorities
      BY <2>1, <2>6
    <3>2. next_tid \in Tid
      BY <1>3, <3>1, <2>1, <2>2, SchedulerConstants DEF AddProcess, Tid
    <3>3. next_tid \in next_tid .. next_tid + Len(shape) - 1 /\ next_tid - next_tid + 1 = 1
      BY <3>1, <2>1, <2>2
    <3>4. priority'[next_tid] = shape[1]
      BY <1>3, <3>2, <3>3 DEF AddProcess
    <3>5. ready_queues' = Push(ready_queues, next_tid, priority'[next_tid])
      BY <1>3, <2>6, <3>4 DEF AddProcess
    <3>6. Placed(Push(ready_queues, next_tid, priority'[next_tid]), priority')
      BY <3>1, <3>2, <3>4, <2>4, <1>t, PushPlaced
    <3> QED
      BY <3>5, <3>6 DEF InPlace
  <2> QED
    BY <2>5, <2>6
<1>4. CASE SpawnUserProcess
  BY <1>1, <1>4 DEF SpawnUserProcess, queueVars
<1>5. ASSUME NEW p \in ThreadPriorities, CreateThread(p) PROVE InPlace'
  <2>1. next_tid \in Tid /\ p \in Priorities
    BY <1>5, <1>t, SchedulerConstants DEF CreateThread, TypeOK, Tid
  <2>2. state[next_tid] = "unborn"
    BY <2>1, <1>t, SchedulerConstants DEF SchedInv, ThreadsOwned, TypeOK, Tid
  <2>3. /\ priority'[next_tid] = p
        /\ \A t \in Tid : state[t] # "unborn" => priority'[t] = priority[t]
    BY <1>5, <2>1, <2>2, <1>t DEF CreateThread, TypeOK
  <2>4. Placed(ready_queues, priority')
    BY <2>3, NewbornsKeepPlace
  <2>5. ready_queues' = Push(ready_queues, next_tid, priority'[next_tid])
    BY <1>5, <2>3 DEF CreateThread
  <2>6. Placed(Push(ready_queues, next_tid, priority'[next_tid]), priority')
    BY <2>1, <2>3, <2>4, <1>t, PushPlaced
  <2> QED
    BY <2>5, <2>6 DEF InPlace
<1>6. ASSUME NEW t \in Tid, TerminateThread(t) \/ BlockThread(t) PROVE InPlace'
  BY <1>1, <1>6 DEF TerminateThread, BlockThread, threadVars
<1>7. ASSUME NEW t \in Tid, UnblockThread(t) PROVE InPlace'
  <2>1. /\ ready_queues' = Push(ready_queues, t, priority[t])
        /\ priority' = priority /\ priority[t] \in Priorities
    BY <1>7, <1>t DEF UnblockThread, threadVars, TypeOK
  <2>2. Placed(Push(ready_queues, t, priority[t]), priority)
    BY <2>1, <1>t, PushPlaced DEF InPlace
  <2> QED
    BY <2>1, <2>2 DEF InPlace
<1>8. CASE UNCHANGED vars
  BY <1>1, <1>8 DEF vars, queueVars, threadVars
<1> QED
  BY <1>2, <1>3, <1>4, <1>5, <1>6, <1>7, <1>8 DEF Next

(* A step that gives a thread the processor is a hand-over: no other       *)
(* action makes a thread Running.                                          *)
LEMMA OnlyHandoverRuns ==
  ASSUME SchedInv, [Next]_vars, NEW t \in Tid, state[t] # "Running", state'[t] = "Running"
  PROVE  \E rq \in ReadyQueues, st \in [Tid -> States] : Handover(rq, st)
<1>t. state \in [Tid -> States]
  BY DEF SchedInv, TypeOK, States
<1>1. state' # state
  OBVIOUS
<1>2. Tick \/ StartFirst
  <2>1. ASSUME NEW shape \in ProcessShapes, AddProcess(shape) PROVE FALSE
    BY <2>1 DEF AddProcess
  <2>2. ASSUME NEW p \in ThreadPriorities, CreateThread(p) PROVE FALSE
    BY <2>2, <1>t DEF CreateThread
  <2>3. ASSUME NEW u \in Tid, NEW p \in SetPriorities, SetPriority(u, p) PROVE FALSE
    BY <2>3, <1>1 DEF SetPriority, queueVars
  <2>4. ASSUME NEW u \in Tid, TerminateThread(u) \/ BlockThread(u) \/ UnblockThread(u)
        PROVE  FALSE
    BY <2>4, <1>t DEF TerminateThread, BlockThread, UnblockThread
  <2>5. ~SpawnUserProcess /\ ~UNCHANGED vars
    BY <1>1 DEF SpawnUserProcess, vars, queueVars
  <2> QED
    BY <2>1, <2>2, <2>3, <2>4, <2>5 DEF Next
<1> QED
  BY <1>1, <1>2, TickHandsOver DEF queueVars

(* When every process comes with at most one thread and priorities are     *)
(* never changed, a thread that gets the processor has the highest         *)
(* priority of all that are ready: schedule looks "from highest to lowest" *)
(* (task/mod.rs:427) and every thread is where its priority says.          *)
THEOREM HighestPriorityRuns ==
  ASSUME SingleThreaded, SetPriorities = {} PROVE Spec => PriorityOrder
<1> DEFINE InOrder ==
             \A t, u \in Tid :
               (state[t] # "Running" /\ state'[t] = "Running" /\ state'[u] = "Ready")
                 => QueueIndex[priority[t]] <= QueueIndex[priority[u]]
<1>1. Init => Queued /\ InPlace
  BY DEF Init, Queued, InPlace, Placed
<1>2. SchedInv /\ Queued /\ InPlace /\ [Next]_vars => Queued' /\ InPlace'
  BY QueuedStep, InPlaceStep
<1>3. SchedInv /\ Queued /\ InPlace /\ [Next]_vars => InOrder
  BY OnlyHandoverRuns, HandoverInOrder
<1> QED
  BY <1>1, <1>2, <1>3, SchedInvariant, PTL DEF Spec, PriorityOrder

-----------------------------------------------------------------------------
(* The life of a thread, if no thread is terminated while it is Ready.     *)

(* Runnable, without the terminated threads that terminate_thread leaves   *)
(* in the queues when it is called for a Ready one.                        *)
OnlyReadyQueued == \A t \in Tid : Holds(ready_queues, t) => state[t] = "Ready"

(* A hand-over is a Dispatch of ThreadLifecycle, or gives the processor    *)
(* back to the thread that had it, which changes no state.                 *)
LEMMA HandoverDispatches ==
  ASSUME SchedInv, OnlyReadyQueued,
         NEW rq \in ReadyQueues, NEW st \in [Tid -> States], Handover(rq, st)
  PROVE  /\ OnlyReadyQueued'
         /\ [LC!LifeNext]_state
<1> DEFINE t == Picked(rq)
<1>1. t \in Tid /\ state' = [u \in Tid |-> IF u = t THEN "Running" ELSE st[u]]
  BY HandoverEffect
<1>2. \A u \in Tid : st[u] = IF state[u] = "Running" THEN "Ready" ELSE state[u]
  BY DEF Handover
<1>3. \A u \in Tid : Holds(rq, u) => st[u] = "Ready"
  BY <1>2 DEF Handover, OnlyReadyQueued
<1>4. Holds(rq, t) /\ \A u \in Tid : Holds(Popped(rq), u) => Holds(rq, u) /\ u # t
  BY PopOnce DEF Handover
<1>5. state \in [Tid -> States]
  BY DEF SchedInv, TypeOK, States
<1> HIDE DEF t
<1>6. OnlyReadyQueued'
  <2> SUFFICES ASSUME NEW u \in Tid, Holds(Popped(rq), u) PROVE state'[u] = "Ready"
    BY DEF OnlyReadyQueued, Holds, Handover
  <2> QED
    BY <1>1, <1>3, <1>4
<1>7. CASE state[t] = "Running"
  <2>1. \A u \in Tid : state[u] = "Running" => u = t
    BY <1>1, <1>7 DEF SchedInv, SingleRunning
  <2>2. state' = state
    BY <2>1, <1>1, <1>2, <1>5, <1>7
  <2> QED
    BY <2>2, <1>6
<1>8. CASE state[t] # "Running"
  <2>1. state[t] = "Ready"
    BY <1>1, <1>2, <1>3, <1>4, <1>8
  <2>2. state' = [u \in Tid |-> IF u = t THEN "Running"
                                ELSE IF state[u] = "Running" THEN "Ready" ELSE state[u]]
    BY <1>1, <1>2
  <2>3. LC!Dispatch(t)
    BY <2>1, <2>2 DEF LC!Dispatch
  <2> QED
    BY <2>3, <1>1, <1>6 DEF LC!LifeNext
<1> QED
  BY <1>7, <1>8

(* Every action is a step of ThreadLifecycle or changes no thread's state. *)
LEMMA LifecycleStep ==
  ASSUME "Ready" \notin TerminateFrom, SchedInv, OnlyReadyQueued, [Next]_vars
  PROVE  OnlyReadyQueued' /\ [LC!LifeNext]_state
<1>t. /\ TypeOK /\ ready_queues \in ReadyQueues
      /\ state \in [Tid -> States]
  BY QueuesTyped DEF SchedInv, TypeOK, States
<1>1. ASSUME ready_queues' = ready_queues, state' = state
      PROVE  OnlyReadyQueued' /\ [LC!LifeNext]_state
  BY <1>1 DEF OnlyReadyQueued, Holds
<1>2. CASE Tick \/ StartFirst
  BY <1>1, <1>2, TickHandsOver, HandoverDispatches DEF queueVars
<1>3. ASSUME NEW shape \in ProcessShapes, AddProcess(shape)
      PROVE  OnlyReadyQueued' /\ [LC!LifeNext]_state
  <2> DEFINE born == next_tid .. next_tid + Len(shape) - 1
  <2>1. shape \in Seq(Priorities) /\ Len(shape) \in Nat
    BY SchedulerConstants
  <2>2. next_tid \in Nat \ {0} /\ Tid \subseteq Nat
    BY <1>t, SchedulerConstants DEF TypeOK, Tid
  <2>3. state' = [t \in Tid |-> IF t \in born THEN "Ready" ELSE state[t]]
    BY <1>3 DEF AddProcess
  <2>4. \A t \in Tid : t \in born => state[t] = "unborn"
    BY <2>1, <2>2 DEF SchedInv, ThreadsOwned
  <2>5. shape = <<>> => ready_queues' = ready_queues
    BY <1>3 DEF AddProcess
  <2>6. ASSUME shape # <<>>
        PROVE  /\ next_tid \in born
               /\ \A u \in Tid : Holds(ready_queues', u) <=> Holds(ready_queues, u) \/ u = next_tid
    <3>1. Len(shape) >= 1 /\ shape[1] \in Priorities
      BY <2>1, <2>6
    <3>2. next_tid \in Tid /\ next_tid \in born
      BY <1>3, <3>1, <2>1, <2>2, SchedulerConstants DEF AddProcess, Tid
    <3>3. ready_queues' = Push(ready_queues, next_tid, shape[1])
      BY <1>3, <2>6 DEF AddProcess
    <3> QED
      BY <3>1, <3>2, <3>3, <1>t, PushOnce
  <2> HIDE DEF born
  <2>7. OnlyReadyQueued'
    <3> SUFFICES ASSUME NEW u \in Tid, Holds(ready_queues', u) PROVE state'[u] = "Ready"
      BY DEF OnlyReadyQueued, Holds
    <3>1. Holds(ready_queues, u) \/ u \in born
      BY <2>5, <2>6
    <3> QED
      BY <3>1, <2>3 DEF OnlyReadyQueued
  <2>8. LC!Create
    <3> DEFINE S == {t \in Tid : t \in born}
    <3>1. S \in SUBSET {t \in Tid : state[t] = "unborn"}
      BY <2>4
    <3>2. state' = [t \in Tid |-> IF t \in S THEN "Ready" ELSE state[t]]
      BY <2>3
    <3> HIDE DEF S
    <3> QED
      BY <3>1, <3>2 DEF LC!Create
  <2> QED
    BY <2>7, <2>8 DEF LC!LifeNext
<1>4. CASE SpawnUserProcess
  BY <1>1, <1>4 DEF SpawnUserProcess, queueVars
<1>5. ASSUME NEW p \in ThreadPriorities, CreateThread(p)
      PROVE  OnlyReadyQueued' /\ [LC!LifeNext]_state
  <2>1. next_tid \in Tid /\ p \in Priorities
    BY <1>5, <1>t, SchedulerConstants DEF CreateThread, TypeOK, Tid
  <2>2. state[next_tid] = "unborn"
    BY <2>1, <1>t, SchedulerConstants DEF SchedInv, ThreadsOwned, TypeOK, Tid
  <2>3. state' = [state EXCEPT ![next_tid] = "Ready"]
    BY <1>5 DEF CreateThread
  <2>4. \A u \in Tid : Holds(ready_queues', u) <=> Holds(ready_queues, u) \/ u = next_tid
    BY <1>5, <2>1, <1>t, PushOnce DEF CreateThread
  <2>5. OnlyReadyQueued'
    <3> SUFFICES ASSUME NEW u \in Tid, Holds(ready_queues', u) PROVE state'[u] = "Ready"
      BY DEF OnlyReadyQueued, Holds
    <3> QED
      BY <2>1, <2>3, <2>4, <1>t DEF OnlyReadyQueued
  <2>6. LC!Create
    <3>1. state' = [t \in Tid |-> IF t \in {next_tid} THEN "Ready" ELSE state[t]]
      BY <2>1, <2>3, <1>t
    <3>2. {next_tid} \in SUBSET {t \in Tid : state[t] = "unborn"}
      BY <2>1, <2>2
    <3> QED
      BY <3>1, <3>2 DEF LC!Create
  <2> QED
    BY <2>5, <2>6 DEF LC!LifeNext
<1>6. ASSUME NEW t \in Tid, NEW p \in SetPriorities, SetPriority(t, p)
      PROVE  OnlyReadyQueued' /\ [LC!LifeNext]_state
  BY <1>1, <1>6 DEF SetPriority, queueVars
<1>7. ASSUME NEW t \in Tid, TerminateThread(t)
      PROVE  OnlyReadyQueued' /\ [LC!LifeNext]_state
  <2>1. /\ state' = [state EXCEPT ![t] = "Terminated"]
        /\ ready_queues' = ready_queues
        /\ state[t] # "Ready" /\ state[t] # "unborn"
    BY <1>7 DEF TerminateThread, Exists
  <2>2. OnlyReadyQueued'
    BY <2>1, <1>t DEF OnlyReadyQueued, Holds
  <2> QED
    BY <2>1, <2>2 DEF LC!LifeNext, LC!Terminate
<1>8. ASSUME NEW t \in Tid, BlockThread(t)
      PROVE  OnlyReadyQueued' /\ [LC!LifeNext]_state
  <2>1. /\ state' = [state EXCEPT ![t] = "Blocked"]
        /\ ready_queues' = ready_queues
        /\ state[t] = "Running"
    BY <1>8 DEF BlockThread
  <2>2. OnlyReadyQueued'
    BY <2>1, <1>t DEF OnlyReadyQueued, Holds
  <2> QED
    BY <2>1, <2>2 DEF LC!LifeNext, LC!Block
<1>9. ASSUME NEW t \in Tid, UnblockThread(t)
      PROVE  OnlyReadyQueued' /\ [LC!LifeNext]_state
  <2>1. /\ state' = [state EXCEPT ![t] = "Ready"]
        /\ state[t] = "Blocked"
    BY <1>9 DEF UnblockThread
  <2>2. \A u \in Tid : Holds(ready_queues', u) <=> Holds(ready_queues, u) \/ u = t
    BY <1>9, <1>t, PushOnce DEF UnblockThread, TypeOK
  <2>3. OnlyReadyQueued'
    <3> SUFFICES ASSUME NEW u \in Tid, Holds(ready_queues', u) PROVE state'[u] = "Ready"
      BY DEF OnlyReadyQueued, Holds
    <3> QED
      BY <2>1, <2>2, <1>t DEF OnlyReadyQueued
  <2> QED
    BY <2>1, <2>3 DEF LC!LifeNext, LC!Unblock
<1>10. CASE UNCHANGED vars
  BY <1>1, <1>10 DEF vars, queueVars
<1> QED
  BY <1>2, <1>3, <1>4, <1>5, <1>6, <1>7, <1>8, <1>9, <1>10 DEF Next

(* As long as no caller terminates a Ready thread, the scheduler implements*)
(* ThreadLifecycle: tick, block_thread, unblock_thread, terminate_thread   *)
(* and the creation of threads take every thread through the states that   *)
(* the comments promise, one at a time on the processor.                   *)
THEOREM SchedulerImplementsLifecycle ==
  ASSUME "Ready" \notin TerminateFrom PROVE Spec => LifecycleRefinement
<1>1. Init => LC!LifeInit /\ OnlyReadyQueued
  BY DEF Init, LC!LifeInit, OnlyReadyQueued, Holds
<1>2. SchedInv /\ OnlyReadyQueued /\ [Next]_vars => OnlyReadyQueued' /\ [LC!LifeNext]_state
  BY LifecycleStep
<1> QED
  BY <1>1, <1>2, SchedInvariant, PTL DEF Spec, LifecycleRefinement, LC!LifeSpec

-----------------------------------------------------------------------------
(* The kernel as it stands.                                                *)

Idle == current_thread = NoThread

NothingRunning == \A t \in Tid : state[t] # "Running"

(* Without a step that starts the first thread, and the code has none, no  *)
(* thread ever runs, whatever processes and threads are created and        *)
(* however many timer ticks come: tick needs a current thread to replace.  *)
THEOREM NothingEverRuns == ASSUME ~HasDispatcher PROVE Spec => []NothingRunning
<1>1. Init => Idle
  BY DEF Init, Idle
<1>2. Idle /\ [Next]_vars => Idle'
  BY DEF Idle, Next, vars, queueVars, Tick, QuantumLeft, QuantumExpired, StartFirst,
         AddProcess, SpawnUserProcess, CreateThread, SetPriority, TerminateThread,
         BlockThread, UnblockThread
<1>3. SchedInv /\ Idle => NothingRunning
  BY SchedulerConstants DEF SchedInv, SingleRunning, Idle, NothingRunning, Tid, NoThread
<1> QED
  BY <1>1, <1>2, <1>3, SchedInvariant, PTL DEF Spec
=============================================================================
