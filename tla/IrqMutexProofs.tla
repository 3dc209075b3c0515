--------------------------- MODULE IrqMutexProofs ----------------------------
(***************************************************************************)
(* Theorems about IrqMutex, for every set of processors, every number of   *)
(* mutexes and every depth of nesting.                                     *)
(***************************************************************************)
EXTENDS IrqMutex, SequenceTheorems, TLAPS

Thread(c)  == <<c, "thread">>
Handler(c) == <<c, "irq">>

-----------------------------------------------------------------------------
(* Guards come and go.                                                     *)

(* What is left of a sequence without its i-th element.                    *)
LEMMA WithoutEffect ==
  ASSUME NEW S, NEW s \in Seq(S), NEW i \in 1 .. Len(s)
  PROVE  /\ Without(s, i) \in Seq(S)
         /\ Len(Without(s, i)) = Len(s) - 1
         /\ \A j \in 1 .. Len(s) - 1 : Without(s, i)[j] = IF j < i THEN s[j] ELSE s[j + 1]
<1> DEFINE a == SubSeq(s, 1, i - 1)
           b == SubSeq(s, i + 1, Len(s))
<1>1. Len(s) \in Nat /\ \A k \in 1 .. Len(s) : s[k] \in S
  BY ElementOfSeq
<1>2. /\ a \in Seq(S) /\ Len(a) = i - 1
      /\ \A j \in 1 .. i - 1 : a[j] = s[j]
  BY <1>1, SubSeqProperties
<1>3. /\ b \in Seq(S) /\ Len(b) = Len(s) - i
      /\ \A j \in 1 .. Len(s) - i : b[j] = s[i + j]
  BY <1>1, SubSeqProperties
<1> HIDE DEF a, b
<1>4. /\ a \o b \in Seq(S) /\ Len(a \o b) = Len(s) - 1
      /\ \A j \in 1 .. Len(s) - 1 : (a \o b)[j] = IF j <= i - 1 THEN a[j] ELSE b[j - (i - 1)]
  <2>1. /\ a \o b \in Seq(S) /\ Len(a \o b) = Len(a) + Len(b)
        /\ \A j \in 1 .. Len(a) + Len(b) :
             (a \o b)[j] = IF j <= Len(a) THEN a[j] ELSE b[j - Len(a)]
    BY <1>2, <1>3, ConcatProperties
  <2>2. Len(a) + Len(b) = Len(s) - 1
    BY <1>1, <1>2, <1>3
  <2> QED
    BY <2>1, <2>2, <1>2
<1>5. Without(s, i) = a \o b
  BY DEF Without, a, b
<1>6. ASSUME NEW j \in 1 .. Len(s) - 1
      PROVE  (a \o b)[j] = IF j < i THEN s[j] ELSE s[j + 1]
  <2>1. CASE j < i
    BY <2>1, <1>1, <1>2, <1>4
  <2>2. CASE ~(j < i)
    <3>1. j - (i - 1) \in 1 .. Len(s) - i /\ i + (j - (i - 1)) = j + 1
      BY <2>2, <1>1
    <3> QED
      BY <2>2, <3>1, <1>1, <1>3, <1>4
  <2> QED
    BY <2>1, <2>2
<1> QED
  BY <1>4, <1>5, <1>6

Guards == [Ctx -> Seq(Guard)]

(* A context that finds a mutex unlocked may lock it and get a guard.      *)
LEMMA TakeKeepsExclusion ==
  ASSUME locked \in [Mutexes -> BOOLEAN], guards \in Guards, MutualExclusion,
         NEW x \in Ctx, NEW m \in Mutexes, NEW b \in BOOLEAN, ~locked[m],
         locked' = [locked EXCEPT ![m] = TRUE],
         guards' = [guards EXCEPT ![x] = Append(@, [mutex |-> m, were_enabled |-> b])]
  PROVE  /\ locked' \in [Mutexes -> BOOLEAN] /\ guards' \in Guards /\ MutualExclusion'
         /\ \A y \in Ctx : y # x => guards'[y] = guards[y]
         /\ Len(guards[x]) \in Nat /\ Len(guards'[x]) = Len(guards[x]) + 1
         /\ \A j \in 1 .. Len(guards[x]) : guards'[x][j] = guards[x][j]
         /\ guards'[x][Len(guards[x]) + 1].were_enabled = b
<1> DEFINE g == [mutex |-> m, were_enabled |-> b]
<1>1. g \in Guard /\ g.mutex = m /\ g.were_enabled = b
  BY DEF Guard
<1> HIDE DEF g
<1>2. /\ Append(guards[x], g) \in Seq(Guard)
      /\ Len(guards[x]) \in Nat
      /\ Len(Append(guards[x], g)) = Len(guards[x]) + 1
      /\ Append(guards[x], g)[Len(guards[x]) + 1] = g
      /\ \A i \in 1 .. Len(guards[x]) : Append(guards[x], g)[i] = guards[x][i]
  BY <1>1, AppendProperties DEF Guards
<1>3. /\ guards' \in Guards /\ guards'[x] = Append(guards[x], g)
      /\ \A y \in Ctx : y # x => guards'[y] = guards[y]
  BY <1>2 DEF Guards, g
<1>4. /\ locked' \in [Mutexes -> BOOLEAN] /\ locked'[m]
      /\ \A k \in Mutexes : locked[k] => locked'[k]
  OBVIOUS
<1>5. ASSUME NEW y \in Ctx, NEW j \in 1 .. Len(guards'[y])
      PROVE  \/ y = x /\ j = Len(guards[x]) + 1 /\ guards'[y][j].mutex = m
             \/ j \in 1 .. Len(guards[y]) /\ guards'[y][j].mutex = guards[y][j].mutex
  BY <1>1, <1>2, <1>3
<1>6. ASSUME NEW y \in Ctx, NEW j \in 1 .. Len(guards[y])
      PROVE  guards[y][j].mutex \in Mutexes /\ locked[guards[y][j].mutex]
  <2>1. guards[y][j] \in Guard
    BY ElementOfSeq DEF Guards
  <2> QED
    BY <2>1 DEF Guard, MutualExclusion
<1>7. MutualExclusion'
  <2> SUFFICES ASSUME NEW y \in Ctx, NEW z \in Ctx,
                      NEW i \in 1 .. Len(guards'[y]), NEW j \in 1 .. Len(guards'[z])
               PROVE  /\ locked'[guards'[y][i].mutex]
                      /\ guards'[y][i].mutex = guards'[z][j].mutex => y = z /\ i = j
    BY DEF MutualExclusion
  <2>1. locked'[guards'[y][i].mutex]
    BY <1>4, <1>5, <1>6
  <2>2. ASSUME guards'[y][i].mutex = guards'[z][j].mutex PROVE y = z /\ i = j
    <3>1. CASE i \in 1 .. Len(guards[y]) /\ j \in 1 .. Len(guards[z])
               /\ guards'[y][i].mutex = guards[y][i].mutex
               /\ guards'[z][j].mutex = guards[z][j].mutex
      BY <2>2, <3>1 DEF MutualExclusion
    <3> QED
      BY <2>2, <3>1, <1>5, <1>6
  <2> QED
    BY <2>1, <2>2
<1> QED
  BY <1>1, <1>2, <1>3, <1>4, <1>7

(* Dropping any one guard unlocks its mutex, of which there is no other    *)
(* guard.                                                                  *)
LEMMA DropKeepsExclusion ==
  ASSUME locked \in [Mutexes -> BOOLEAN], guards \in Guards, MutualExclusion,
         NEW x \in Ctx, NEW i \in 1 .. Len(guards[x]),
         locked' = [locked EXCEPT ![guards[x][i].mutex] = FALSE],
         guards' = [guards EXCEPT ![x] = Without(@, i)]
  PROVE  /\ locked' \in [Mutexes -> BOOLEAN] /\ guards' \in Guards /\ MutualExclusion'
         /\ \A y \in Ctx : y # x => guards'[y] = guards[y]
         /\ Len(guards[x]) \in Nat /\ Len(guards'[x]) = Len(guards[x]) - 1
         /\ \A j \in 1 .. Len(guards[x]) - 1 :
              guards'[x][j] = IF j < i THEN guards[x][j] ELSE guards[x][j + 1]
<1> DEFINE m == guards[x][i].mutex
<1>1. /\ Without(guards[x], i) \in Seq(Guard)
      /\ Len(guards[x]) \in Nat
      /\ Len(Without(guards[x], i)) = Len(guards[x]) - 1
      /\ \A j \in 1 .. Len(guards[x]) - 1 :
           Without(guards[x], i)[j] = IF j < i THEN guards[x][j] ELSE guards[x][j + 1]
  <2>1. guards[x] \in Seq(Guard) /\ Len(guards[x]) \in Nat
    BY DEF Guards
  <2>2. /\ Without(guards[x], i) \in Seq(Guard)
        /\ Len(Without(guards[x], i)) = Len(guards[x]) - 1
        /\ \A j \in 1 .. Len(guards[x]) - 1 :
             Without(guards[x], i)[j] = IF j < i THEN guards[x][j] ELSE guards[x][j + 1]
    BY <2>1, WithoutEffect, Zenon
  <2> QED
    BY <2>1, <2>2
<1>2. /\ guards' \in Guards /\ guards'[x] = Without(guards[x], i)
      /\ \A y \in Ctx : y # x => guards'[y] = guards[y]
  <2> DEFINE w == Without(guards[x], i)
  <2>1. w \in Seq(Guard) /\ guards' = [guards EXCEPT ![x] = w]
    BY <1>1
  <2> HIDE DEF w
  <2>2. guards' \in Guards /\ guards'[x] = w /\ \A y \in Ctx : y # x => guards'[y] = guards[y]
    BY <2>1 DEF Guards
  <2> QED
    BY <2>2 DEF w
<1>3. ASSUME NEW y \in Ctx, NEW j \in 1 .. Len(guards[y])
      PROVE  /\ guards[y][j].mutex \in Mutexes /\ locked[guards[y][j].mutex]
             /\ guards[y][j].mutex = m => y = x /\ j = i
  <2>1. guards[y][j] \in Guard
    BY ElementOfSeq DEF Guards
  <2> QED
    BY <2>1 DEF Guard, MutualExclusion
<1>4. /\ locked' \in [Mutexes -> BOOLEAN]
      /\ \A k \in Mutexes : locked[k] /\ k # m => locked'[k]
  OBVIOUS
<1> DEFINE old(y, j) == IF y = x /\ j >= i THEN j + 1 ELSE j
<1>5. ASSUME NEW y \in Ctx, NEW j \in 1 .. Len(guards'[y])
      PROVE  /\ old(y, j) \in 1 .. Len(guards[y]) /\ ~(y = x /\ old(y, j) = i)
             /\ guards'[y][j] = guards[y][old(y, j)]
  <2>1. CASE y # x
    BY <2>1, <1>2
  <2>2. CASE y = x
    <3>1. j \in 1 .. Len(guards[x]) - 1
      BY <2>2, <1>1, <1>2
    <3>2. guards'[x][j] = IF j < i THEN guards[x][j] ELSE guards[x][j + 1]
      BY <3>1, <1>1, <1>2
    <3> QED
      BY <2>2, <3>1, <3>2, <1>1
  <2> QED
    BY <2>1, <2>2
<1>6. MutualExclusion'
  <2> SUFFICES ASSUME NEW y \in Ctx, NEW z \in Ctx,
                      NEW j \in 1 .. Len(guards'[y]), NEW k \in 1 .. Len(guards'[z])
               PROVE  /\ locked'[guards'[y][j].mutex]
                      /\ guards'[y][j].mutex = guards'[z][k].mutex => y = z /\ j = k
    BY DEF MutualExclusion
  <2> HIDE DEF m, old
  <2> DEFINE p == old(y, j)
             q == old(z, k)
  <2>1. p \in 1 .. Len(guards[y]) /\ ~(y = x /\ p = i) /\ guards'[y][j] = guards[y][p]
    BY <1>5
  <2>2. q \in 1 .. Len(guards[z]) /\ ~(z = x /\ q = i) /\ guards'[z][k] = guards[z][q]
    BY <1>5
  <2> HIDE DEF p, q
  <2>3. locked'[guards'[y][j].mutex]
    BY <1>3, <1>4, <2>1
  <2>4. ASSUME guards'[y][j].mutex = guards'[z][k].mutex PROVE y = z /\ j = k
    <3>1. y = z /\ p = q
      <4>1. guards[y][p].mutex = guards[z][q].mutex
        BY <2>1, <2>2, <2>4
      <4> QED
        BY <4>1, <2>1, <2>2 DEF MutualExclusion
    <3> QED
      BY <3>1 DEF old, p, q
  <2> QED
    BY <2>3, <2>4
<1> QED
  BY <1>1, <1>2, <1>4, <1>6

-----------------------------------------------------------------------------
(* What holds in whatever order guards are dropped.  A handler runs with   *)
(* interrupts off, finds them off in every lock and try_lock, and so never *)
(* turns them on.                                                          *)
HandlerQuiet ==
  /\ \A x \in Ctx : pc[x] # "run" => want[x] \in Mutexes
  /\ \A c \in Cpu :
       /\ in_irq[c] => ~IF_flag[c]
       /\ ~in_irq[c] => pc[Handler(c)] = "run" /\ Len(guards[Handler(c)]) = 0
       /\ pc[Handler(c)] = "cas" => ~were[Handler(c)]
       /\ \A i \in 1 .. Len(guards[Handler(c)]) : ~guards[Handler(c)][i].were_enabled

MutexInv == TypeOK /\ MutualExclusion /\ HandlerQuiet

(* What needs guards to be dropped innermost first.  Only the outermost    *)
(* guard of a thread has saved TRUE, and outside handlers the interrupt    *)
(* flag is off exactly while the thread holds a guard or tries for one.    *)
FlagFollows ==
  \A c \in Cpu :
    /\ in_irq[c] => Len(guards[Thread(c)]) = 0 /\ pc[Thread(c)] # "cas"
    /\ \A i \in 1 .. Len(guards[Thread(c)]) :
         guards[Thread(c)][i].were_enabled <=> i = 1
    /\ Len(guards[Thread(c)]) # 0 =>
         /\ pc[Thread(c)] \in {"run", "cas"}
         /\ pc[Thread(c)] = "cas" => ~were[Thread(c)]
    /\ Len(guards[Thread(c)]) = 0 /\ pc[Thread(c)] # "run" => were[Thread(c)]
    /\ ~in_irq[c] =>
         (IF_flag[c] <=> Len(guards[Thread(c)]) = 0 /\ pc[Thread(c)] # "cas")

(* Every processor has its own two contexts.                               *)
LEMMA Contexts ==
  ASSUME NEW c \in Cpu
  PROVE  /\ Thread(c) \in Ctx /\ Handler(c) \in Ctx /\ Active(c) \in Ctx
         /\ Active(c) = IF in_irq[c] THEN Handler(c) ELSE Thread(c)
         /\ \A d \in Cpu : /\ Thread(d) # Handler(c) /\ Thread(c) # Handler(d)
                           /\ Thread(c) = Thread(d) => c = d
                           /\ Handler(c) = Handler(d) => c = d
BY DEF Thread, Handler, Ctx, Active

(* Every action keeps the invariant, in whatever order guards are dropped. *)
LEMMA MutexInvStep == MutexInv /\ [Next]_vars => MutexInv'
<1> SUFFICES ASSUME MutexInv, [Next]_vars PROVE MutexInv'
  OBVIOUS
<1>t. /\ TypeOK /\ MutualExclusion /\ HandlerQuiet
      /\ locked \in [Mutexes -> BOOLEAN] /\ guards \in Guards
  BY DEF MutexInv, TypeOK, Guards
<1>1. CASE UNCHANGED vars
  BY <1>1, <1>t DEF vars, MutexInv, TypeOK, MutualExclusion, HandlerQuiet
<1>2. ASSUME NEW c \in Cpu, NEW m \in Mutexes, Lock(c, m) PROVE MutexInv'
  <2> DEFINE x == Active(c)
  <2>1. x \in Ctx /\ x = IF in_irq[c] THEN Handler(c) ELSE Thread(c)
    BY Contexts
  <2>2. /\ pc[x] = "run" /\ pc' = [pc EXCEPT ![x] = "cas"]
        /\ were' = [were EXCEPT ![x] = IF_flag[c]] /\ want' = [want EXCEPT ![x] = m]
        /\ IF_flag' = [IF_flag EXCEPT ![c] = FALSE]
        /\ locked' = locked /\ in_irq' = in_irq /\ guards' = guards
    BY <1>2 DEF Lock
  <2> HIDE DEF x
  <2>3. TypeOK'
    BY <1>t, <2>1, <2>2, Contexts DEF TypeOK, Handler
  <2>4. HandlerQuiet'
    BY <1>t, <2>1, <2>2, Contexts DEF TypeOK, HandlerQuiet
  <2> QED
    BY <1>t, <2>2, <2>3, <2>4 DEF MutexInv, MutualExclusion
<1>3. ASSUME NEW c \in Cpu, Acquire(c) PROVE MutexInv'
  <2> DEFINE x == Active(c)
  <2>1. x \in Ctx /\ x = IF in_irq[c] THEN Handler(c) ELSE Thread(c)
    BY Contexts
  <2>2. /\ pc[x] = "cas" /\ pc' = [pc EXCEPT ![x] = "run"]
        /\ ~locked[want[x]]
        /\ locked' = [locked EXCEPT ![want[x]] = TRUE]
        /\ guards' = [guards EXCEPT ![x] =
                        Append(@, [mutex |-> want[x], were_enabled |-> were[x]])]
        /\ IF_flag' = IF_flag /\ in_irq' = in_irq /\ want' = want /\ were' = were
    BY <1>3 DEF Acquire
  <2> HIDE DEF x
  <2>3. want[x] \in Mutexes /\ were[x] \in BOOLEAN
    BY <1>t, <2>1, <2>2 DEF TypeOK, HandlerQuiet
  <2>4. /\ locked' \in [Mutexes -> BOOLEAN] /\ guards' \in Guards /\ MutualExclusion'
        /\ \A y \in Ctx : y # x => guards'[y] = guards[y]
        /\ Len(guards[x]) \in Nat /\ Len(guards'[x]) = Len(guards[x]) + 1
        /\ \A j \in 1 .. Len(guards[x]) : guards'[x][j] = guards[x][j]
        /\ guards'[x][Len(guards[x]) + 1].were_enabled = were[x]
    BY <1>t, <2>1, <2>2, <2>3, TakeKeepsExclusion
  <2>5. TypeOK'
    BY <1>t, <2>1, <2>2, <2>4, Contexts DEF TypeOK, Handler, Guards
  <2>6. HandlerQuiet'
    <3>1. \A y \in Ctx : pc'[y] # "run" => want'[y] \in Mutexes
      BY <1>t, <2>1, <2>2 DEF TypeOK, HandlerQuiet
    <3>2. ASSUME NEW d \in Cpu
          PROVE  /\ in_irq'[d] => ~IF_flag'[d]
                 /\ ~in_irq'[d] => pc'[Handler(d)] = "run" /\ Len(guards'[Handler(d)]) = 0
                 /\ pc'[Handler(d)] = "cas" => ~were'[Handler(d)]
                 /\ \A i \in 1 .. Len(guards'[Handler(d)]) :
                      ~guards'[Handler(d)][i].were_enabled
      <4>1. CASE Handler(d) # x
        <5>1. pc'[Handler(d)] = pc[Handler(d)] /\ guards'[Handler(d)] = guards[Handler(d)]
          BY <4>1, <1>t, <2>2, <2>4, Contexts DEF TypeOK
        <5> QED
          BY <5>1, <1>t, <2>2 DEF HandlerQuiet
      <4>2. CASE Handler(d) = x
        <5>1. d = c /\ in_irq[c] /\ ~were[x] /\ pc'[x] = "run"
          BY <4>2, <1>t, <2>1, <2>2, Contexts DEF TypeOK, HandlerQuiet
        <5>2. \A i \in 1 .. Len(guards[x]) : ~guards[x][i].were_enabled
          BY <4>2, <1>t DEF HandlerQuiet
        <5>3. \A i \in 1 .. Len(guards'[x]) : ~guards'[x][i].were_enabled
          BY <5>1, <5>2, <2>4
        <5> QED
          BY <4>2, <5>1, <5>3, <1>t, <2>2 DEF HandlerQuiet
      <4> QED
        BY <4>1, <4>2
    <3> QED
      BY <3>1, <3>2 DEF HandlerQuiet, Handler
  <2> QED
    BY <2>4, <2>5, <2>6 DEF MutexInv
<1>4. ASSUME NEW c \in Cpu, FailAndEnable(c) \/ Halt(c) \/ DisableAndRetry(c) PROVE MutexInv'
  <2> DEFINE x == Active(c)
  <2>1. x \in Ctx /\ x = IF in_irq[c] THEN Handler(c) ELSE Thread(c)
    BY Contexts
  <2>2. /\ (pc[x] = "cas" /\ were[x]) \/ pc[x] \in {"enabled", "woken"}
        /\ \E l \in {"enabled", "halted", "cas"} : pc' = [pc EXCEPT ![x] = l]
        /\ IF_flag' \in [Cpu -> BOOLEAN] /\ \A d \in Cpu : d # c => IF_flag'[d] = IF_flag[d]
        /\ locked' = locked /\ in_irq' = in_irq /\ guards' = guards
        /\ want' = want /\ were' = were
    BY <1>4, <1>t DEF FailAndEnable, Halt, DisableAndRetry, TypeOK
  <2> HIDE DEF x
  <2>3. ~in_irq[c] /\ x = Thread(c)
    BY <1>t, <2>1, <2>2 DEF TypeOK, HandlerQuiet, Handler
  <2>4. TypeOK'
    BY <1>t, <2>1, <2>2, <2>3, Contexts DEF TypeOK, Handler
  <2>5. HandlerQuiet'
    BY <1>t, <2>1, <2>2, <2>3, Contexts DEF TypeOK, HandlerQuiet
  <2> QED
    BY <1>t, <2>2, <2>4, <2>5 DEF MutexInv, MutualExclusion
<1>5. ASSUME NEW c \in Cpu, NEW m \in Mutexes, TryLock(c, m) PROVE MutexInv'
  <2> DEFINE x == Active(c)
  <2>1. x \in Ctx /\ x = IF in_irq[c] THEN Handler(c) ELSE Thread(c)
    BY Contexts
  <2>2. /\ ~locked[m]
        /\ locked' = [locked EXCEPT ![m] = TRUE]
        /\ guards' = [guards EXCEPT ![x] =
                        Append(@, [mutex |-> m, were_enabled |-> IF_flag[c]])]
        /\ IF_flag' = [IF_flag EXCEPT ![c] = FALSE]
        /\ in_irq' = in_irq /\ want' = want /\ were' = were /\ pc' = pc
    BY <1>5 DEF TryLock
  <2> HIDE DEF x
  <2>3. IF_flag[c] \in BOOLEAN
    BY <1>t DEF TypeOK
  <2>4. /\ locked' \in [Mutexes -> BOOLEAN] /\ guards' \in Guards /\ MutualExclusion'
        /\ \A y \in Ctx : y # x => guards'[y] = guards[y]
        /\ Len(guards[x]) \in Nat /\ Len(guards'[x]) = Len(guards[x]) + 1
        /\ \A j \in 1 .. Len(guards[x]) : guards'[x][j] = guards[x][j]
        /\ guards'[x][Len(guards[x]) + 1].were_enabled = IF_flag[c]
    BY <1>t, <2>1, <2>2, <2>3, TakeKeepsExclusion
  <2>5. TypeOK'
    BY <1>t, <2>1, <2>2, <2>4 DEF TypeOK, Guards
  <2>6. HandlerQuiet'
    BY <1>t, <2>1, <2>2, <2>4, Contexts DEF TypeOK, HandlerQuiet
  <2> QED
    BY <2>4, <2>5, <2>6 DEF MutexInv
<1>6. ASSUME NEW c \in Cpu, NEW i \in 1 .. MaxNest, Drop(c, i) PROVE MutexInv'
  <2> DEFINE x == Active(c)
  <2>1. x \in Ctx /\ x = IF in_irq[c] THEN Handler(c) ELSE Thread(c)
    BY Contexts
  <2>2. /\ i \in 1 .. Len(guards[x])
        /\ locked' = [locked EXCEPT ![guards[x][i].mutex] = FALSE]
        /\ guards' = [guards EXCEPT ![x] = Without(@, i)]
        /\ IF_flag' = [IF_flag EXCEPT ![c] = IF guards[x][i].were_enabled THEN TRUE ELSE @]
        /\ in_irq' = in_irq /\ want' = want /\ were' = were /\ pc' = pc
    BY <1>6 DEF Drop
  <2> HIDE DEF x
  <2>4. /\ locked' \in [Mutexes -> BOOLEAN] /\ guards' \in Guards /\ MutualExclusion'
        /\ \A y \in Ctx : y # x => guards'[y] = guards[y]
        /\ Len(guards[x]) \in Nat /\ Len(guards'[x]) = Len(guards[x]) - 1
        /\ \A j \in 1 .. Len(guards[x]) - 1 :
             guards'[x][j] = IF j < i THEN guards[x][j] ELSE guards[x][j + 1]
    BY <1>t, <2>1, <2>2, DropKeepsExclusion
  <2>5. TypeOK'
    BY <1>t, <2>1, <2>2, <2>4 DEF TypeOK, Guards
  <2>6. HandlerQuiet'
    <3>1. \A d \in Cpu : in_irq[d] => ~IF_flag'[d]
      BY <1>t, <2>1, <2>2 DEF TypeOK, HandlerQuiet
    <3>2. \A d \in Cpu : ~in_irq[d] => pc[Handler(d)] = "run" /\ Len(guards'[Handler(d)]) = 0
      BY <1>t, <2>1, <2>4, Contexts DEF HandlerQuiet
    <3>3. ASSUME NEW d \in Cpu, NEW j \in 1 .. Len(guards'[Handler(d)])
          PROVE  ~guards'[Handler(d)][j].were_enabled
      BY <1>t, <2>1, <2>2, <2>4, Contexts DEF HandlerQuiet
    <3> QED
      BY <1>t, <2>2, <3>1, <3>2, <3>3 DEF HandlerQuiet
  <2> QED
    BY <2>4, <2>5, <2>6 DEF MutexInv
<1>7. ASSUME NEW c \in Cpu, Interrupt(c) PROVE MutexInv'
  <2>1. TypeOK'
    BY <1>t, <1>7, Contexts DEF Interrupt, TypeOK, Thread, Handler
  <2>2. HandlerQuiet'
    BY <1>t, <1>7, Contexts DEF Interrupt, TypeOK, HandlerQuiet, Thread
  <2> QED
    BY <1>t, <1>7, <2>1, <2>2 DEF Interrupt, MutexInv, MutualExclusion
<1>8. ASSUME NEW c \in Cpu, InterruptReturn(c) PROVE MutexInv'
  <2>1. TypeOK'
    BY <1>t, <1>8 DEF InterruptReturn, TypeOK
  <2>2. HandlerQuiet'
    BY <1>t, <1>8, Contexts, EmptySeq DEF InterruptReturn, TypeOK, HandlerQuiet, Handler
  <2> QED
    BY <1>t, <1>8, <2>1, <2>2 DEF InterruptReturn, MutexInv, MutualExclusion
<1> QED
  BY <1>1, <1>2, <1>3, <1>4, <1>5, <1>6, <1>7, <1>8 DEF Next

(* Every action keeps the invariant about the interrupt flag, if guards    *)
(* are dropped innermost first.                                            *)
LEMMA FlagStep ==
  ASSUME ~AnyDropOrder
  PROVE  MutexInv /\ FlagFollows /\ [Next]_vars => FlagFollows'
<1> SUFFICES ASSUME MutexInv, FlagFollows, [Next]_vars PROVE FlagFollows'
  OBVIOUS
<1>t. /\ TypeOK /\ MutualExclusion /\ HandlerQuiet
      /\ locked \in [Mutexes -> BOOLEAN] /\ guards \in Guards
  BY DEF MutexInv, TypeOK, Guards
<1>1. CASE UNCHANGED vars
  BY <1>1 DEF vars, FlagFollows
<1>2. ASSUME NEW c \in Cpu, NEW m \in Mutexes, Lock(c, m) PROVE FlagFollows'
  <2> DEFINE x == Active(c)
  <2>1. x \in Ctx /\ x = IF in_irq[c] THEN Handler(c) ELSE Thread(c)
    BY Contexts
  <2>2. /\ pc[x] = "run" /\ pc' = [pc EXCEPT ![x] = "cas"]
        /\ were' = [were EXCEPT ![x] = IF_flag[c]]
        /\ IF_flag' = [IF_flag EXCEPT ![c] = FALSE]
        /\ in_irq' = in_irq /\ guards' = guards
    BY <1>2 DEF Lock
  <2> HIDE DEF x
  <2> QED
    BY <1>t, <2>1, <2>2, Contexts DEF TypeOK, HandlerQuiet, FlagFollows
<1>3. ASSUME NEW c \in Cpu, Acquire(c) PROVE FlagFollows'
  <2> DEFINE x == Active(c)
  <2>1. x \in Ctx /\ x = IF in_irq[c] THEN Handler(c) ELSE Thread(c)
    BY Contexts
  <2>2. /\ pc[x] = "cas" /\ pc' = [pc EXCEPT ![x] = "run"]
        /\ ~locked[want[x]]
        /\ locked' = [locked EXCEPT ![want[x]] = TRUE]
        /\ guards' = [guards EXCEPT ![x] =
                        Append(@, [mutex |-> want[x], were_enabled |-> were[x]])]
        /\ IF_flag' = IF_flag /\ in_irq' = in_irq /\ were' = were
    BY <1>3 DEF Acquire
  <2> HIDE DEF x
  <2>3. want[x] \in Mutexes /\ were[x] \in BOOLEAN
    BY <1>t, <2>1, <2>2 DEF TypeOK, HandlerQuiet
  <2>4. /\ \A y \in Ctx : y # x => guards'[y] = guards[y]
        /\ Len(guards[x]) \in Nat /\ Len(guards'[x]) = Len(guards[x]) + 1
        /\ \A j \in 1 .. Len(guards[x]) : guards'[x][j] = guards[x][j]
        /\ guards'[x][Len(guards[x]) + 1].were_enabled = were[x]
    BY <1>t, <2>1, <2>2, <2>3, TakeKeepsExclusion
  <2> QED
    BY <1>t, <2>1, <2>2, <2>4, Contexts DEF TypeOK, HandlerQuiet, FlagFollows
<1>4. ASSUME NEW c \in Cpu, FailAndEnable(c) \/ Halt(c) \/ DisableAndRetry(c) PROVE FlagFollows'
  <2> DEFINE x == Active(c)
  <2>1. x \in Ctx /\ x = IF in_irq[c] THEN Handler(c) ELSE Thread(c)
    BY Contexts
  <2>2. /\ \/ /\ pc[x] = "cas" /\ were[x]
              /\ pc' = [pc EXCEPT ![x] = "enabled"] /\ IF_flag' = [IF_flag EXCEPT ![c] = TRUE]
           \/ /\ pc[x] = "enabled" /\ pc' = [pc EXCEPT ![x] = "halted"] /\ IF_flag' = IF_flag
           \/ /\ pc[x] = "woken" /\ pc' = [pc EXCEPT ![x] = "cas"]
              /\ IF_flag' = [IF_flag EXCEPT ![c] = FALSE]
        /\ in_irq' = in_irq /\ guards' = guards /\ were' = were
    BY <1>4 DEF FailAndEnable, Halt, DisableAndRetry
  <2> HIDE DEF x
  <2>3. ~in_irq[c] /\ x = Thread(c)
    BY <1>t, <2>1, <2>2 DEF TypeOK, HandlerQuiet, Handler
  <2>4. \A d \in Cpu : d # c => /\ IF_flag'[d] = IF_flag[d]
                                /\ pc'[Thread(d)] = pc[Thread(d)]
    BY <1>t, <2>1, <2>2, <2>3, Contexts DEF TypeOK
  <2>5. /\ pc'[x] # "run"
        /\ IF_flag'[c] <=> Len(guards[x]) = 0 /\ pc'[x] # "cas"
        /\ Len(guards[x]) # 0 => pc'[x] = "cas" /\ ~were[x]
        /\ Len(guards[x]) = 0 => were[x]
    BY <1>t, <2>1, <2>2, <2>3 DEF TypeOK, FlagFollows
  <2> QED
    BY <2>1, <2>2, <2>3, <2>4, <2>5 DEF FlagFollows
<1>5. ASSUME NEW c \in Cpu, NEW m \in Mutexes, TryLock(c, m) PROVE FlagFollows'
  <2> DEFINE x == Active(c)
  <2>1. x \in Ctx /\ x = IF in_irq[c] THEN Handler(c) ELSE Thread(c)
    BY Contexts
  <2>2. /\ pc[x] = "run" /\ ~locked[m]
        /\ locked' = [locked EXCEPT ![m] = TRUE]
        /\ guards' = [guards EXCEPT ![x] =
                        Append(@, [mutex |-> m, were_enabled |-> IF_flag[c]])]
        /\ IF_flag' = [IF_flag EXCEPT ![c] = FALSE]
        /\ in_irq' = in_irq /\ were' = were /\ pc' = pc
    BY <1>5 DEF TryLock
  <2> HIDE DEF x
  <2>3. IF_flag[c] \in BOOLEAN
    BY <1>t DEF TypeOK
  <2>4. /\ \A y \in Ctx : y # x => guards'[y] = guards[y]
        /\ Len(guards[x]) \in Nat /\ Len(guards'[x]) = Len(guards[x]) + 1
        /\ \A j \in 1 .. Len(guards[x]) : guards'[x][j] = guards[x][j]
        /\ guards'[x][Len(guards[x]) + 1].were_enabled = IF_flag[c]
    BY <1>t, <2>1, <2>2, <2>3, TakeKeepsExclusion
  <2>5. CASE in_irq[c]
    <3>1. IF_flag' = IF_flag
      BY <1>t, <2>2, <2>5 DEF TypeOK, HandlerQuiet
    <3> QED
      BY <2>1, <2>2, <2>4, <2>5, <3>1, Contexts DEF FlagFollows
  <2>6. CASE ~in_irq[c]
    <3>1. /\ ~IF_flag'[c]
          /\ \A j \in 1 .. Len(guards'[x]) : guards'[x][j].were_enabled <=> j = 1
      <4>1. ~IF_flag'[c]
        BY <1>t, <2>2 DEF TypeOK
      <4>2. /\ \A j \in 1 .. Len(guards[x]) : guards[x][j].were_enabled <=> j = 1
            /\ IF_flag[c] <=> Len(guards[x]) = 0
        BY <1>t, <2>1, <2>2, <2>6 DEF FlagFollows
      <4>3. ASSUME NEW j \in 1 .. Len(guards'[x])
            PROVE  guards'[x][j].were_enabled <=> j = 1
        <5>1. CASE j \in 1 .. Len(guards[x])
          BY <5>1, <4>2, <2>4
        <5>2. CASE j = Len(guards[x]) + 1
          <6>1. j = 1 <=> Len(guards[x]) = 0
            BY <5>2, <2>4
          <6> QED
            BY <6>1, <5>2, <4>2, <2>4
        <5> QED
          BY <5>1, <5>2, <2>4
      <4> QED
        BY <4>1, <4>3
    <3>2. \A d \in Cpu : d # c => IF_flag'[d] = IF_flag[d] /\ guards'[Thread(d)] = guards[Thread(d)]
      BY <1>t, <2>1, <2>2, <2>4, <2>6, Contexts DEF TypeOK
    <3>3. Len(guards'[x]) # 0
      BY <2>4
    <3>4. guards'[Thread(c)] = guards'[x] /\ pc[Thread(c)] = "run" /\ ~in_irq[c]
      BY <2>1, <2>2, <2>6
    <3>5. \A d \in Cpu :
            /\ in_irq[d] => Len(guards'[Thread(d)]) = 0 /\ pc[Thread(d)] # "cas"
            /\ Len(guards'[Thread(d)]) # 0 =>
                 /\ pc[Thread(d)] \in {"run", "cas"}
                 /\ pc[Thread(d)] = "cas" => ~were[Thread(d)]
            /\ Len(guards'[Thread(d)]) = 0 /\ pc[Thread(d)] # "run" => were[Thread(d)]
            /\ ~in_irq[d] =>
                 (IF_flag'[d] <=> Len(guards'[Thread(d)]) = 0 /\ pc[Thread(d)] # "cas")
      BY <3>1, <3>2, <3>3, <3>4 DEF FlagFollows
    <3>6. \A d \in Cpu : \A i \in 1 .. Len(guards'[Thread(d)]) :
            guards'[Thread(d)][i].were_enabled <=> i = 1
      BY <3>1, <3>2, <3>4 DEF FlagFollows
    <3> QED
      BY <2>2, <3>5, <3>6 DEF FlagFollows
  <2> QED
    BY <2>5, <2>6
<1>6. ASSUME NEW c \in Cpu, NEW i \in 1 .. MaxNest, Drop(c, i) PROVE FlagFollows'
  <2> DEFINE x == Active(c)
  <2>1. x \in Ctx /\ x = IF in_irq[c] THEN Handler(c) ELSE Thread(c)
    BY Contexts
  <2>2. /\ i \in 1 .. Len(guards[x]) /\ i = Len(guards[x]) /\ pc[x] = "run"
        /\ locked' = [locked EXCEPT ![guards[x][i].mutex] = FALSE]
        /\ guards' = [guards EXCEPT ![x] = Without(@, i)]
        /\ IF_flag' = [IF_flag EXCEPT ![c] = IF guards[x][i].were_enabled THEN TRUE ELSE @]
        /\ in_irq' = in_irq /\ were' = were /\ pc' = pc
    BY <1>6 DEF Drop
  <2> HIDE DEF x
  <2>4. /\ \A y \in Ctx : y # x => guards'[y] = guards[y]
        /\ Len(guards[x]) \in Nat /\ Len(guards'[x]) = Len(guards[x]) - 1
        /\ \A j \in 1 .. Len(guards[x]) - 1 :
             guards'[x][j] = IF j < i THEN guards[x][j] ELSE guards[x][j + 1]
    BY <1>t, <2>1, <2>2, DropKeepsExclusion
  <2>5. CASE in_irq[c]
    <3>1. IF_flag' = IF_flag
      BY <1>t, <2>1, <2>2, <2>5 DEF TypeOK, HandlerQuiet
    <3> QED
      BY <2>1, <2>2, <2>4, <2>5, <3>1, Contexts DEF FlagFollows
  <2>6. CASE ~in_irq[c]
    <3>1. IF_flag'[c] <=> Len(guards'[x]) = 0
      BY <1>t, <2>1, <2>2, <2>4, <2>6 DEF TypeOK, FlagFollows
    <3>2. \A d \in Cpu : d # c => IF_flag'[d] = IF_flag[d] /\ guards'[Thread(d)] = guards[Thread(d)]
      BY <1>t, <2>1, <2>2, <2>4, <2>6, Contexts DEF TypeOK
    <3>3. \A j \in 1 .. Len(guards'[x]) : guards'[x][j] = guards[x][j]
      BY <2>2, <2>4
    <3> QED
      BY <2>1, <2>2, <2>4, <2>6, <3>1, <3>2, <3>3 DEF FlagFollows
  <2> QED
    BY <2>5, <2>6
<1>7. ASSUME NEW c \in Cpu, Interrupt(c) PROVE FlagFollows'
  <2>1. /\ IF_flag[c] /\ ~in_irq[c] /\ guards' = guards /\ were' = were
        /\ \A d \in Cpu : IF_flag'[d] = IF d = c THEN FALSE ELSE IF_flag[d]
        /\ \A d \in Cpu : in_irq'[d] = IF d = c THEN TRUE ELSE in_irq[d]
    BY <1>t, <1>7 DEF Interrupt, TypeOK
  <2>2. \A d \in Cpu : \/ pc'[Thread(d)] = pc[Thread(d)]
                       \/ pc[Thread(d)] = "halted" /\ pc'[Thread(d)] = "woken"
    BY <1>t, <1>7, Contexts DEF Interrupt, TypeOK, Thread
  <2>3. \A d \in Cpu : \A i \in 1 .. Len(guards[Thread(d)]) :
          guards[Thread(d)][i].were_enabled <=> i = 1
    BY DEF FlagFollows
  <2>4. ASSUME NEW d \in Cpu
        PROVE  /\ in_irq'[d] => Len(guards[Thread(d)]) = 0 /\ pc'[Thread(d)] # "cas"
               /\ Len(guards[Thread(d)]) # 0 =>
                    /\ pc'[Thread(d)] \in {"run", "cas"}
                    /\ pc'[Thread(d)] = "cas" => ~were[Thread(d)]
               /\ Len(guards[Thread(d)]) = 0 /\ pc'[Thread(d)] # "run" => were[Thread(d)]
               /\ ~in_irq'[d] =>
                    (IF_flag'[d] <=> Len(guards[Thread(d)]) = 0 /\ pc'[Thread(d)] # "cas")
    <3>1. CASE d = c
      BY <2>1, <2>2, <3>1 DEF FlagFollows
    <3>2. CASE d # c
      <4>1. IF_flag'[d] = IF_flag[d] /\ in_irq'[d] = in_irq[d]
        BY <2>1, <3>2
      <4>2. pc'[Thread(d)] = pc[Thread(d)]
        BY <1>t, <1>7, <3>2, Contexts DEF Interrupt, TypeOK, Thread
      <4> QED
        BY <4>1, <4>2 DEF FlagFollows
    <3> QED
      BY <3>1, <3>2
  <2> QED
    BY <2>1, <2>3, <2>4 DEF FlagFollows
<1>8. ASSUME NEW c \in Cpu, InterruptReturn(c) PROVE FlagFollows'
  BY <1>t, <1>8, Contexts DEF InterruptReturn, TypeOK, FlagFollows
<1> QED
  BY <1>1, <1>2, <1>3, <1>4, <1>5, <1>6, <1>7, <1>8 DEF Next

(* In whatever order guards are dropped, a thread with interrupts off will *)
(* get them back: from a guard that saved TRUE, or from the lock it is in. *)
FlagOwed ==
  \A c \in Cpu :
    /\ ~in_irq[c] /\ ~IF_flag[c] =>
         \/ pc[Thread(c)] = "cas" /\ were[Thread(c)]
         \/ \E i \in 1 .. Len(guards[Thread(c)]) : guards[Thread(c)][i].were_enabled
    /\ pc[Thread(c)] \in {"enabled", "halted", "woken"} => were[Thread(c)]

LEMMA OwedStep == MutexInv /\ FlagOwed /\ [Next]_vars => FlagOwed'
<1> SUFFICES ASSUME MutexInv, FlagOwed, [Next]_vars PROVE FlagOwed'
  OBVIOUS
<1>t. /\ TypeOK /\ MutualExclusion /\ HandlerQuiet
      /\ locked \in [Mutexes -> BOOLEAN] /\ guards \in Guards
  BY DEF MutexInv, TypeOK, Guards
<1>1. CASE UNCHANGED vars
  BY <1>1 DEF vars, FlagOwed
<1>2. ASSUME NEW c \in Cpu, NEW m \in Mutexes, Lock(c, m) PROVE FlagOwed'
  <2> DEFINE x == Active(c)
  <2>1. x \in Ctx /\ x = IF in_irq[c] THEN Handler(c) ELSE Thread(c)
    BY Contexts
  <2>2. /\ pc[x] = "run" /\ pc' = [pc EXCEPT ![x] = "cas"]
        /\ were' = [were EXCEPT ![x] = IF_flag[c]]
        /\ IF_flag' = [IF_flag EXCEPT ![c] = FALSE]
        /\ in_irq' = in_irq /\ guards' = guards
    BY <1>2 DEF Lock
  <2> HIDE DEF x
  <2> QED
    BY <1>t, <2>1, <2>2, Contexts DEF TypeOK, FlagOwed
<1>3. ASSUME NEW c \in Cpu, Acquire(c) PROVE FlagOwed'
  <2> DEFINE x == Active(c)
  <2>1. x \in Ctx /\ x = IF in_irq[c] THEN Handler(c) ELSE Thread(c)
    BY Contexts
  <2>2. /\ pc[x] = "cas" /\ pc' = [pc EXCEPT ![x] = "run"]
        /\ ~locked[want[x]]
        /\ locked' = [locked EXCEPT ![want[x]] = TRUE]
        /\ guards' = [guards EXCEPT ![x] =
                        Append(@, [mutex |-> want[x], were_enabled |-> were[x]])]
        /\ IF_flag' = IF_flag /\ in_irq' = in_irq /\ were' = were
    BY <1>3 DEF Acquire
  <2> HIDE DEF x
  <2>3. want[x] \in Mutexes /\ were[x] \in BOOLEAN
    BY <1>t, <2>1, <2>2 DEF TypeOK, HandlerQuiet
  <2>4. /\ \A y \in Ctx : y # x => guards'[y] = guards[y]
        /\ Len(guards[x]) \in Nat /\ Len(guards'[x]) = Len(guards[x]) + 1
        /\ \A j \in 1 .. Len(guards[x]) : guards'[x][j] = guards[x][j]
        /\ guards'[x][Len(guards[x]) + 1].were_enabled = were[x]
    BY <1>t, <2>1, <2>2, <2>3, TakeKeepsExclusion
  <2> SUFFICES ASSUME NEW d \in Cpu
               PROVE  /\ ~in_irq[d] /\ ~IF_flag[d] =>
                           \/ pc'[Thread(d)] = "cas" /\ were[Thread(d)]
                           \/ \E i \in 1 .. Len(guards'[Thread(d)]) :
                                 guards'[Thread(d)][i].were_enabled
                      /\ pc'[Thread(d)] \in {"enabled", "halted", "woken"} => were[Thread(d)]
    BY <2>2 DEF FlagOwed
  <2>5. CASE Thread(d) # x
    <3>1. guards'[Thread(d)] = guards[Thread(d)] /\ pc'[Thread(d)] = pc[Thread(d)]
      BY <1>t, <2>2, <2>4, <2>5, Contexts DEF TypeOK
    <3> QED
      BY <3>1 DEF FlagOwed
  <2>6. CASE Thread(d) = x
    <3>1. pc'[x] = "run"
      BY <1>t, <2>1, <2>2 DEF TypeOK
    <3>2. were[x] => \E i \in 1 .. Len(guards'[x]) : guards'[x][i].were_enabled
      <4>1. Len(guards[x]) + 1 \in 1 .. Len(guards'[x])
        BY <2>4
      <4> QED
        BY <4>1, <2>4
    <3>3. ASSUME NEW i \in 1 .. Len(guards[x]), guards[x][i].were_enabled
          PROVE  \E k \in 1 .. Len(guards'[x]) : guards'[x][k].were_enabled
      BY <3>3, <2>4
    <3> QED
      BY <2>6, <3>1, <3>2, <3>3 DEF FlagOwed
  <2> QED
    BY <2>5, <2>6
<1>4. ASSUME NEW c \in Cpu, FailAndEnable(c) \/ Halt(c) \/ DisableAndRetry(c) PROVE FlagOwed'
  <2> DEFINE x == Active(c)
  <2>1. x \in Ctx /\ x = IF in_irq[c] THEN Handler(c) ELSE Thread(c)
    BY Contexts
  <2>2. /\ \/ /\ pc[x] = "cas" /\ were[x]
              /\ pc' = [pc EXCEPT ![x] = "enabled"] /\ IF_flag' = [IF_flag EXCEPT ![c] = TRUE]
           \/ /\ pc[x] = "enabled" /\ pc' = [pc EXCEPT ![x] = "halted"] /\ IF_flag' = IF_flag
           \/ /\ pc[x] = "woken" /\ pc' = [pc EXCEPT ![x] = "cas"]
              /\ IF_flag' = [IF_flag EXCEPT ![c] = FALSE]
        /\ in_irq' = in_irq /\ guards' = guards /\ were' = were
    BY <1>4 DEF FailAndEnable, Halt, DisableAndRetry
  <2> HIDE DEF x
  <2>3. ~in_irq[c] /\ x = Thread(c)
    BY <1>t, <2>1, <2>2 DEF TypeOK, HandlerQuiet, Handler
  <2>4. \A d \in Cpu : d # c => /\ IF_flag'[d] = IF_flag[d]
                                /\ pc'[Thread(d)] = pc[Thread(d)]
    BY <1>t, <2>1, <2>2, <2>3, Contexts DEF TypeOK
  <2>5. were[x]
    BY <2>2, <2>3 DEF FlagOwed
  <2>6. pc'[x] = "cas" \/ IF_flag'[c] \/ (IF_flag'[c] = IF_flag[c] /\ pc[x] # "cas")
    BY <1>t, <2>1, <2>2 DEF TypeOK
  <2> SUFFICES ASSUME NEW d \in Cpu, ~in_irq[d], ~IF_flag'[d]
               PROVE  \/ pc'[Thread(d)] = "cas" /\ were[Thread(d)]
                      \/ \E i \in 1 .. Len(guards[Thread(d)]) : guards[Thread(d)][i].were_enabled
    BY <2>2, <2>3, <2>4, <2>5 DEF FlagOwed
  <2>7. CASE d # c
    BY <2>4, <2>7 DEF FlagOwed
  <2>8. CASE d = c
    BY <2>3, <2>5, <2>6, <2>8 DEF FlagOwed
  <2> QED
    BY <2>7, <2>8
<1>5. ASSUME NEW c \in Cpu, NEW m \in Mutexes, TryLock(c, m) PROVE FlagOwed'
  <2> DEFINE x == Active(c)
  <2>1. x \in Ctx /\ x = IF in_irq[c] THEN Handler(c) ELSE Thread(c)
    BY Contexts
  <2>2. /\ pc[x] = "run" /\ ~locked[m]
        /\ locked' = [locked EXCEPT ![m] = TRUE]
        /\ guards' = [guards EXCEPT ![x] =
                        Append(@, [mutex |-> m, were_enabled |-> IF_flag[c]])]
        /\ IF_flag' = [IF_flag EXCEPT ![c] = FALSE]
        /\ in_irq' = in_irq /\ were' = were /\ pc' = pc
    BY <1>5 DEF TryLock
  <2> HIDE DEF x
  <2>3. IF_flag[c] \in BOOLEAN
    BY <1>t DEF TypeOK
  <2>4. /\ \A y \in Ctx : y # x => guards'[y] = guards[y]
        /\ Len(guards[x]) \in Nat /\ Len(guards'[x]) = Len(guards[x]) + 1
        /\ \A j \in 1 .. Len(guards[x]) : guards'[x][j] = guards[x][j]
        /\ guards'[x][Len(guards[x]) + 1].were_enabled = IF_flag[c]
    BY <1>t, <2>1, <2>2, <2>3, TakeKeepsExclusion
  <2> SUFFICES ASSUME NEW d \in Cpu, ~in_irq[d], ~IF_flag'[d]
               PROVE  \/ pc[Thread(d)] = "cas" /\ were[Thread(d)]
                      \/ \E i \in 1 .. Len(guards'[Thread(d)]) :
                            guards'[Thread(d)][i].were_enabled
    BY <2>2 DEF FlagOwed
  <2>5. CASE Thread(d) # x
    <3>1. guards'[Thread(d)] = guards[Thread(d)]
      BY <2>4, <2>5, Contexts
    <3>2. d # c
      BY <2>1, <2>5
    <3>3. IF_flag'[d] = IF_flag[d]
      BY <1>t, <2>2, <3>2 DEF TypeOK
    <3> QED
      BY <3>1, <3>3 DEF FlagOwed
  <2>6. CASE Thread(d) = x
    <3>1. d = c
      BY <2>1, <2>6, Contexts
    <3>2. CASE IF_flag[c]
      <4>1. /\ Len(guards[x]) + 1 \in 1 .. Len(guards'[x])
            /\ guards'[x][Len(guards[x]) + 1].were_enabled
        BY <3>2, <2>4
      <4> QED
        BY <4>1, <2>6
    <3>3. CASE ~IF_flag[c]
      <4>1. PICK i \in 1 .. Len(guards[x]) : guards[x][i].were_enabled
        BY <3>1, <3>3, <2>2, <2>6 DEF FlagOwed
      <4>2. i \in 1 .. Len(guards'[x]) /\ guards'[x][i].were_enabled
        BY <4>1, <2>4
      <4> QED
        BY <4>2, <2>6
    <3> QED
      BY <3>2, <3>3
  <2> QED
    BY <2>5, <2>6
<1>6. ASSUME NEW c \in Cpu, NEW i \in 1 .. MaxNest, Drop(c, i) PROVE FlagOwed'
  <2> DEFINE x == Active(c)
  <2>1. x \in Ctx /\ x = IF in_irq[c] THEN Handler(c) ELSE Thread(c)
    BY Contexts
  <2>2. /\ i \in 1 .. Len(guards[x]) /\ pc[x] = "run"
        /\ locked' = [locked EXCEPT ![guards[x][i].mutex] = FALSE]
        /\ guards' = [guards EXCEPT ![x] = Without(@, i)]
        /\ IF_flag' = [IF_flag EXCEPT ![c] = IF guards[x][i].were_enabled THEN TRUE ELSE @]
        /\ in_irq' = in_irq /\ were' = were /\ pc' = pc
    BY <1>6 DEF Drop
  <2> HIDE DEF x
  <2>4. /\ \A y \in Ctx : y # x => guards'[y] = guards[y]
        /\ Len(guards[x]) \in Nat /\ Len(guards'[x]) = Len(guards[x]) - 1
        /\ \A j \in 1 .. Len(guards[x]) - 1 :
             guards'[x][j] = IF j < i THEN guards[x][j] ELSE guards[x][j + 1]
    BY <1>t, <2>1, <2>2, DropKeepsExclusion
  <2> SUFFICES ASSUME NEW d \in Cpu, ~in_irq[d], ~IF_flag'[d]
               PROVE  \/ pc[Thread(d)] = "cas" /\ were[Thread(d)]
                      \/ \E k \in 1 .. Len(guards'[Thread(d)]) :
                            guards'[Thread(d)][k].were_enabled
    BY <2>2 DEF FlagOwed
  <2>5. CASE Thread(d) # x
    <3>1. guards'[Thread(d)] = guards[Thread(d)]
      BY <2>4, <2>5, Contexts
    <3>2. d # c
      BY <2>1, <2>5
    <3>3. IF_flag'[d] = IF_flag[d]
      BY <1>t, <2>2, <3>2 DEF TypeOK
    <3> QED
      BY <3>1, <3>3 DEF FlagOwed
  <2>6. CASE Thread(d) = x
    <3>1. d = c
      BY <2>1, <2>6, Contexts
    <3>2. ~guards[x][i].were_enabled /\ ~IF_flag[c]
      BY <1>t, <2>2, <3>1 DEF TypeOK
    <3>3. PICK j \in 1 .. Len(guards[x]) : guards[x][j].were_enabled
      BY <3>1, <3>2, <2>2, <2>6 DEF FlagOwed
    <3>4. j # i
      BY <3>2, <3>3
    <3> DEFINE k == IF j < i THEN j ELSE j - 1
    <3>5. k \in 1 .. Len(guards[x]) - 1 /\ j = IF k < i THEN k ELSE k + 1
      BY <2>2, <2>4, <3>4
    <3> HIDE DEF k
    <3>6. k \in 1 .. Len(guards'[x]) /\ guards'[x][k] = guards[x][j]
      BY <2>4, <3>5
    <3> QED
      BY <2>6, <3>3, <3>6
  <2> QED
    BY <2>5, <2>6
<1>7. ASSUME NEW c \in Cpu, Interrupt(c) PROVE FlagOwed'
  <2>1. /\ IF_flag[c] /\ ~in_irq[c] /\ guards' = guards /\ were' = were
        /\ \A d \in Cpu : IF_flag'[d] = IF d = c THEN FALSE ELSE IF_flag[d]
        /\ \A d \in Cpu : in_irq'[d] = IF d = c THEN TRUE ELSE in_irq[d]
    BY <1>t, <1>7 DEF Interrupt, TypeOK
  <2>2. \A d \in Cpu : \/ pc'[Thread(d)] = pc[Thread(d)]
                       \/ pc[Thread(d)] = "halted" /\ pc'[Thread(d)] = "woken"
    BY <1>t, <1>7, Contexts DEF Interrupt, TypeOK, Thread
  <2> QED
    BY <2>1, <2>2 DEF FlagOwed
<1>8. ASSUME NEW c \in Cpu, InterruptReturn(c) PROVE FlagOwed'
  BY <1>t, <1>8, Contexts DEF InterruptReturn, TypeOK, FlagOwed
<1> QED
  BY <1>1, <1>2, <1>3, <1>4, <1>5, <1>6, <1>7, <1>8 DEF Next

-----------------------------------------------------------------------------
(* The invariants hold at the start.                                       *)
LEMMA MutexInit == Init => MutexInv /\ FlagFollows /\ FlagOwed
<1> SUFFICES ASSUME Init PROVE MutexInv /\ FlagFollows /\ FlagOwed
  OBVIOUS
<1>1. \A c \in Cpu : Thread(c) \in Ctx /\ Handler(c) \in Ctx
  BY Contexts
<1>2. \A x \in Ctx : guards[x] = <<>> /\ Len(guards[x]) = 0
  BY DEF Init
<1>3. TypeOK
  BY <1>1 DEF Init, TypeOK, Handler
<1>4. MutualExclusion
  BY <1>2 DEF MutualExclusion
<1>6. \A x \in Ctx : pc[x] = "run"
  BY DEF Init
<1>7. HandlerQuiet
  BY <1>1, <1>2, <1>6 DEF Init, HandlerQuiet
<1>8. \A c \in Cpu : IF_flag[c] /\ ~in_irq[c]
  BY DEF Init
<1>5. FlagFollows
  <2> SUFFICES ASSUME NEW c \in Cpu
               PROVE  /\ in_irq[c] => Len(guards[Thread(c)]) = 0 /\ pc[Thread(c)] # "cas"
                      /\ \A i \in 1 .. Len(guards[Thread(c)]) :
                           guards[Thread(c)][i].were_enabled <=> i = 1
                      /\ Len(guards[Thread(c)]) # 0 =>
                           /\ pc[Thread(c)] \in {"run", "cas"}
                           /\ pc[Thread(c)] = "cas" => ~were[Thread(c)]
                      /\ Len(guards[Thread(c)]) = 0 /\ pc[Thread(c)] # "run" => were[Thread(c)]
                      /\ ~in_irq[c] =>
                           (IF_flag[c] <=> Len(guards[Thread(c)]) = 0 /\ pc[Thread(c)] # "cas")
    BY Zenon DEF FlagFollows
  <2> DEFINE x == Thread(c)
  <2>1. Len(guards[x]) = 0 /\ pc[x] = "run" /\ IF_flag[c] /\ ~in_irq[c]
    BY <1>1, <1>2, <1>6, <1>8
  <2> HIDE DEF x
  <2> QED
    BY <2>1 DEF x
<1>9. FlagOwed
  BY <1>1, <1>6, <1>8 DEF FlagOwed
<1> QED
  BY <1>3, <1>4, <1>5, <1>7, <1>9 DEF MutexInv

(* Types hold; in particular no handler ever halts inside lock.            *)
THEOREM TypeCorrect == Spec => []TypeOK
<1>1. MutexInv => TypeOK
  BY DEF MutexInv
<1> QED
  BY <1>1, MutexInit, MutexInvStep, PTL DEF Spec

(* Two guards are guards of two mutexes, on any number of processors, with *)
(* any nesting, and even if guards are dropped in any order.               *)
THEOREM GuardsExclude == Spec => []MutualExclusion
<1>1. MutexInv => MutualExclusion
  BY DEF MutexInv
<1> QED
  BY <1>1, MutexInit, MutexInvStep, PTL DEF Spec

(* If guards are dropped innermost first, a handler never spins on a mutex *)
(* of the thread it interrupted: that thread had no guard at all.          *)
THEOREM NoHandlerDeadlock == ASSUME ~AnyDropOrder PROVE Spec => []NoSelfDeadlock
<1>1. MutexInv /\ FlagFollows => NoSelfDeadlock
  BY DEF MutexInv, HandlerQuiet, FlagFollows, NoSelfDeadlock, Thread, Handler
<1> QED
  BY <1>1, MutexInit, MutexInvStep, FlagStep, PTL DEF Spec

(* A thread that has dropped all its guards has its interrupts back, in    *)
(* whatever order it dropped them.                                         *)
THEOREM NoInterruptLeak == Spec => []InterruptsRestored
<1>1. MutexInv /\ FlagOwed => InterruptsRestored
  <2> SUFFICES ASSUME MutexInv, FlagOwed, NEW c \in Cpu, ~in_irq[c],
                      pc[Thread(c)] = "run", guards[Thread(c)] = <<>>
               PROVE  IF_flag[c]
    BY DEF InterruptsRestored, Thread
  <2>1. Len(guards[Thread(c)]) = 0
    OBVIOUS
  <2>2. 1 .. Len(guards[Thread(c)]) = {}
    BY <2>1
  <2> QED
    BY <2>2 DEF FlagOwed
<1> QED
  BY <1>1, MutexInit, MutexInvStep, OwedStep, PTL DEF Spec
=============================================================================
