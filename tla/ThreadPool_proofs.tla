-------------------------- MODULE ThreadPool_proofs --------------------------
(***************************************************************************)
(* Theorems about ThreadPool, for any finite set of workers, any tasks and *)
(* each of the three copies of the pool.                                   *)
(***************************************************************************)
EXTENDS ThreadPool, TLAPS, FiniteSetTheorems

(***************************************************************************)
(* Typing.  A thread inside enqueue carries a task, and only such a thread *)
(* does; a worker inside a task runs one, and only such a worker does.     *)
(***************************************************************************)
TaskPCs == {"run"} \cup EnqueuePCs

Carrying ==
    /\ \A t \in Threads : pc[t] \in EnqueuePCs <=> arg[t] # NoTask
    /\ \A w \in Workers : pc[w] \in TaskPCs <=> cur[w] # NoTask

TypeInv == TypeOK /\ Carrying

LEMMA TypeInvInit == Init => TypeInv
<1> SUFFICES ASSUME Init PROVE TypeInv
  OBVIOUS
<1> USE PoolAssumption DEF Init, Threads
<1>0. <<>> \in Seq(Tasks)
  OBVIOUS
<1>1. pc \in [Threads -> WorkerPCs \cup MainPCs]
  BY DEF WorkerPCs, MainPCs
<1>2. TypeOK
  BY <1>0, <1>1 DEF TypeOK, WorkerPCs, MainPCs
<1>3. Carrying
  BY DEF Carrying, TaskPCs, EnqueuePCs
<1> QED
  BY <1>2, <1>3 DEF TypeInv

LEMMA TypeInvWorker ==
    ASSUME TypeInv, NEW w \in Workers, Worker(w)
    PROVE  TypeInv'
<1> USE PoolAssumption DEF TypeInv, TypeOK, Carrying, TaskPCs, EnqueuePCs,
        WorkerPCs, MainPCs, Threads, Goto, history
<1>1. CASE WorkerLock(w)
  BY <1>1 DEF WorkerLock
<1>2. CASE WorkerSleep(w)
  BY <1>2 DEF WorkerSleep
<1>3. CASE WorkerPark(w)
  BY <1>3 DEF WorkerPark
<1>4. CASE WorkerSpuriousWake(w)
  BY <1>4 DEF WorkerSpuriousWake
<1>5. CASE WorkerPop(w)
  BY <1>5 DEF WorkerPop
<1>6. CASE WorkerExit(w)
  BY <1>6 DEF WorkerExit
<1>7. CASE WorkerFinish(w)
  BY <1>7 DEF WorkerFinish, TaskOver
<1> QED
  BY <1>1, <1>2, <1>3, <1>4, <1>5, <1>6, <1>7, Worker(w) DEF Worker

LEMMA TypeInvEnqueue ==
    ASSUME TypeInv, NEW t \in Threads, Enqueue(t)
    PROVE  TypeInv'
<1> USE PoolAssumption DEF TypeInv, TypeOK, Carrying, TaskPCs, EnqueuePCs,
        WorkerPCs, MainPCs, Threads, Goto, history, AfterEnqueue
<1>1. ASSUME NEW k \in Tasks, EnqueueCall(t, k) PROVE TypeInv'
  BY <1>1 DEF EnqueueCall
<1>2. CASE EnqueueLock(t)
  BY <1>2 DEF EnqueueLock
<1>3. CASE EnqueuePush(t)
  BY <1>3 DEF EnqueuePush
<1>4. CASE EnqueueThrow(t)
  BY <1>4 DEF EnqueueThrow, TaskOver
<1>5. CASE EnqueueSignal(t)
  <2>1. PICK ws \in SUBSET Waiting : Notify(t, ws)
    BY <1>5 DEF EnqueueSignal
  <2> QED
    BY <1>5, <2>1 DEF EnqueueSignal, Notify, Waiting
<1> QED
  BY <1>1, <1>2, <1>3, <1>4, <1>5, Enqueue(t) DEF Enqueue

LEMMA TypeInvShutdown ==
    ASSUME TypeInv, Shutdown
    PROVE  TypeInv'
<1> USE PoolAssumption DEF TypeInv, TypeOK, Carrying, TaskPCs, EnqueuePCs,
        WorkerPCs, MainPCs, Threads, Goto, history
<1>1. CASE StopLocked
  BY <1>1 DEF StopLocked
<1>2. CASE StopUnlockedC
  BY <1>2 DEF StopUnlockedC
<1>3. CASE StopUnlockedRs
  BY <1>3 DEF StopUnlockedRs
<1>4. CASE Broadcast
  BY <1>4 DEF Broadcast, Waiting
<1>5. CASE Join
  BY <1>5 DEF Join
<1> QED
  BY <1>1, <1>2, <1>3, <1>4, <1>5, Shutdown DEF Shutdown

LEMMA TypeInvStutter == TypeInv /\ UNCHANGED vars => TypeInv'
BY DEF TypeInv, TypeOK, Carrying, vars

LEMMA TypeInvariance == Spec => []TypeInv
<1>1. TypeInv /\ [Next]_vars => TypeInv'
  BY TypeInvWorker, TypeInvEnqueue, TypeInvShutdown, TypeInvStutter DEF Next
<1> QED
  BY TypeInvInit, <1>1, PTL DEF Spec

\* Every variable keeps its type, in each copy of the pool.
THEOREM TypeCorrect == Spec => []TypeOK
<1>1. TypeInv => TypeOK
  BY DEF TypeInv
<1> QED
  BY TypeInvariance, <1>1, PTL

(***************************************************************************)
(* The lock.  MutualExclusion is inductive relative to the types.          *)
(***************************************************************************)
LEMMA MutualExclusionInit == Init => MutualExclusion
BY PoolAssumption DEF Init, MutualExclusion, Critical, Threads

LEMMA MutualExclusionWorker ==
    ASSUME TypeInv, MutualExclusion, NEW w \in Workers, Worker(w)
    PROVE  MutualExclusion'
<1> USE PoolAssumption DEF TypeInv, TypeOK, MutualExclusion, Critical, Threads,
        Goto, history
<1>1. CASE WorkerLock(w)
  BY <1>1 DEF WorkerLock
<1>2. CASE WorkerSleep(w)
  BY <1>2 DEF WorkerSleep
<1>3. CASE WorkerPark(w)
  BY <1>3 DEF WorkerPark
<1>4. CASE WorkerSpuriousWake(w)
  BY <1>4 DEF WorkerSpuriousWake
<1>5. CASE WorkerPop(w)
  BY <1>5 DEF WorkerPop
<1>6. CASE WorkerExit(w)
  BY <1>6 DEF WorkerExit
<1>7. CASE WorkerFinish(w)
  BY <1>7 DEF WorkerFinish
<1> QED
  BY <1>1, <1>2, <1>3, <1>4, <1>5, <1>6, <1>7, Worker(w) DEF Worker

LEMMA MutualExclusionEnqueue ==
    ASSUME TypeInv, MutualExclusion, NEW t \in Threads, Enqueue(t)
    PROVE  MutualExclusion'
<1> USE PoolAssumption DEF TypeInv, TypeOK, MutualExclusion, Critical, Threads,
        Goto, history, AfterEnqueue
<1>1. ASSUME NEW k \in Tasks, EnqueueCall(t, k) PROVE MutualExclusion'
  BY <1>1 DEF EnqueueCall
<1>2. CASE EnqueueLock(t)
  BY <1>2 DEF EnqueueLock
<1>3. CASE EnqueuePush(t)
  BY <1>3 DEF EnqueuePush
<1>4. CASE EnqueueThrow(t)
  BY <1>4 DEF EnqueueThrow
<1>5. CASE EnqueueSignal(t)
  <2>1. PICK ws \in SUBSET Waiting : Notify(t, ws)
    BY <1>5 DEF EnqueueSignal
  <2> QED
    BY <1>5, <2>1 DEF EnqueueSignal, Notify, Waiting
<1> QED
  BY <1>1, <1>2, <1>3, <1>4, <1>5, Enqueue(t) DEF Enqueue

LEMMA MutualExclusionShutdown ==
    ASSUME TypeInv, MutualExclusion, Shutdown
    PROVE  MutualExclusion'
<1> USE PoolAssumption DEF TypeInv, TypeOK, MutualExclusion, Critical, Threads,
        Goto, history
<1>1. CASE StopLocked
  BY <1>1 DEF StopLocked
<1>2. CASE StopUnlockedC
  BY <1>2 DEF StopUnlockedC
<1>3. CASE StopUnlockedRs
  BY <1>3 DEF StopUnlockedRs
<1>4. CASE Broadcast
  BY <1>4 DEF Broadcast, Waiting
<1>5. CASE Join
  BY <1>5 DEF Join
<1> QED
  BY <1>1, <1>2, <1>3, <1>4, <1>5, Shutdown DEF Shutdown

\* The queue, and the stop flag of main.cc, are only touched under the lock.
LEMMA MutualExclusionInvariance == Spec => []MutualExclusion
<1>1. TypeInv /\ MutualExclusion /\ [Next]_vars => MutualExclusion'
  <2>1. MutualExclusion /\ UNCHANGED vars => MutualExclusion'
    BY DEF MutualExclusion, Critical, vars
  <2> QED
    BY <2>1, MutualExclusionWorker, MutualExclusionEnqueue,
       MutualExclusionShutdown DEF Next
<1> QED
  BY MutualExclusionInit, <1>1, TypeInvariance, PTL DEF Spec

(***************************************************************************)
(* Shutdown.  StopSeen is where the lock matters: main.cc sets stop while  *)
(* no worker is between its test and its wait, and from then on no test    *)
(* comes out "sleep".  It is what makes NoSleeperAfterBroadcast inductive. *)
(***************************************************************************)
StopWhenClosed == stop <=> pc[Main] \in {"broadcast", "join", "joined"}

ExitOnlyStopped == \A w \in Workers : pc[w] = "exited" => stop

JoinedAllExited ==
    pc[Main] = "joined" => \A w \in Workers : pc[w] = "exited"

StopSeen == impl = "cc" /\ stop => \A w \in Workers : pc[w] # "sleep"

NoneParked ==
    impl = "cc" /\ pc[Main] \in {"join", "joined"} =>
        \A w \in Workers : pc[w] # "waiting"

LastOneDrains == (\A w \in Workers : pc[w] = "exited") => queue = <<>>

ShutdownInv ==
    /\ StopWhenClosed
    /\ ExitOnlyStopped
    /\ JoinedAllExited
    /\ StopSeen
    /\ NoneParked
    /\ LastOneDrains

LEMMA ShutdownInvInit == Init => ShutdownInv
BY PoolAssumption
   DEF Init, ShutdownInv, StopWhenClosed, ExitOnlyStopped, JoinedAllExited,
       StopSeen, NoneParked, LastOneDrains, Threads

LEMMA ShutdownInvWorker ==
    ASSUME TypeInv, ShutdownInv, NEW w \in Workers, Worker(w)
    PROVE  ShutdownInv'
<1> USE PoolAssumption DEF TypeInv, TypeOK, ShutdownInv, StopWhenClosed,
        ExitOnlyStopped, JoinedAllExited, StopSeen, NoneParked, LastOneDrains,
        Threads, Goto, history
<1>1. CASE WorkerLock(w)
  BY <1>1 DEF WorkerLock
<1>2. CASE WorkerSleep(w)
  BY <1>2 DEF WorkerSleep
<1>3. CASE WorkerPark(w)
  BY <1>3 DEF WorkerPark
<1>4. CASE WorkerSpuriousWake(w)
  BY <1>4 DEF WorkerSpuriousWake
<1>5. CASE WorkerPop(w)
  BY <1>5 DEF WorkerPop
<1>6. CASE WorkerExit(w)
  BY <1>6 DEF WorkerExit
<1>7. CASE WorkerFinish(w)
  BY <1>7 DEF WorkerFinish
<1> QED
  BY <1>1, <1>2, <1>3, <1>4, <1>5, <1>6, <1>7, Worker(w) DEF Worker

LEMMA ShutdownInvEnqueue ==
    ASSUME TypeInv, ShutdownInv, NEW t \in Threads, Enqueue(t)
    PROVE  ShutdownInv'
<1> USE PoolAssumption DEF TypeInv, TypeOK, ShutdownInv, StopWhenClosed,
        ExitOnlyStopped, JoinedAllExited, StopSeen, NoneParked, LastOneDrains,
        Threads, Goto, history, AfterEnqueue
<1>1. ASSUME NEW k \in Tasks, EnqueueCall(t, k) PROVE ShutdownInv'
  BY <1>1 DEF EnqueueCall
<1>2. CASE EnqueueLock(t)
  BY <1>2 DEF EnqueueLock
<1>3. CASE EnqueuePush(t)
  BY <1>3 DEF EnqueuePush
<1>4. CASE EnqueueThrow(t)
  BY <1>4 DEF EnqueueThrow
<1>5. CASE EnqueueSignal(t)
  <2>1. PICK ws \in SUBSET Waiting : Notify(t, ws)
    BY <1>5 DEF EnqueueSignal
  <2> QED
    BY <1>5, <2>1 DEF EnqueueSignal, Notify, Waiting
<1> QED
  BY <1>1, <1>2, <1>3, <1>4, <1>5, Enqueue(t) DEF Enqueue

LEMMA ShutdownInvShutdown ==
    ASSUME TypeInv, MutualExclusion, ShutdownInv, Shutdown
    PROVE  ShutdownInv'
<1> USE PoolAssumption DEF TypeInv, TypeOK, ShutdownInv, StopWhenClosed,
        ExitOnlyStopped, JoinedAllExited, StopSeen, NoneParked, LastOneDrains,
        Threads, Goto, history
<1>1. CASE StopLocked
  BY <1>1 DEF StopLocked, MutualExclusion, Critical
<1>2. CASE StopUnlockedC
  BY <1>2 DEF StopUnlockedC
<1>3. CASE StopUnlockedRs
  BY <1>3 DEF StopUnlockedRs
<1>4. CASE Broadcast
  BY <1>4 DEF Broadcast, Waiting
<1>5. CASE Join
  BY <1>5 DEF Join
<1> QED
  BY <1>1, <1>2, <1>3, <1>4, <1>5, Shutdown DEF Shutdown

LEMMA ShutdownInvInvariance == Spec => []ShutdownInv
<1>1. TypeInv /\ MutualExclusion /\ ShutdownInv /\ [Next]_vars => ShutdownInv'
  <2>1. ShutdownInv /\ UNCHANGED vars => ShutdownInv'
    BY DEF ShutdownInv, StopWhenClosed, ExitOnlyStopped, JoinedAllExited,
           StopSeen, NoneParked, LastOneDrains, vars
  <2> QED
    BY <2>1, ShutdownInvWorker, ShutdownInvEnqueue, ShutdownInvShutdown DEF Next
<1> QED
  BY ShutdownInvInit, <1>1, TypeInvariance, MutualExclusionInvariance, PTL DEF Spec

\* The shutdown of main.cc loses no wakeup: when notify_all has returned, no
\* worker is parked and none will park on a stale view of stop.
THEOREM ShutdownWakesAll == Spec => []NoSleeperAfterBroadcast
<1>1. ShutdownInv => NoSleeperAfterBroadcast
  BY DEF ShutdownInv, StopWhenClosed, StopSeen, NoneParked, NoSleeperAfterBroadcast
<1> QED
  BY <1>1, ShutdownInvInvariance, PTL

(***************************************************************************)
(* Sequences: what a push and a pop do to the history.                     *)
(***************************************************************************)
LEMMA RangeAppend ==
    ASSUME NEW S, NEW s \in Seq(S), NEW e \in S
    PROVE  Range(Append(s, e)) = Range(s) \cup {e}
<1>1. /\ DOMAIN Append(s, e) = 1 .. Len(s) + 1
      /\ DOMAIN s = 1 .. Len(s)
      /\ \A i \in 1 .. Len(s) : Append(s, e)[i] = s[i]
      /\ Append(s, e)[Len(s) + 1] = e
  OBVIOUS
<1>2. 1 .. Len(s) + 1 = (1 .. Len(s)) \cup {Len(s) + 1}
  OBVIOUS
<1> QED
  BY <1>1, <1>2 DEF Range

LEMMA PopKeepsHistory ==
    ASSUME NEW S, NEW s \in Seq(S), NEW q \in Seq(S), q # <<>>
    PROVE  s \o q = Append(s, Head(q)) \o Tail(q)
OBVIOUS

(***************************************************************************)
(* Accounting.  A task popped now was not started before because no task   *)
(* is accepted twice, and that is so because a thread that is about to     *)
(* push holds a task that is neither accepted nor held by another thread.  *)
(***************************************************************************)
AcceptedOnce ==
    \A i, j \in DOMAIN accepted : accepted[i] = accepted[j] => i = j

PushesNew ==
    \A t \in Threads :
        /\ pc[t] \in {"enqAcquire", "enqPush"} => arg[t] \notin Range(accepted)
        /\ \A u \in Threads : t # u /\ arg[t] # NoTask => arg[t] # arg[u]

AccountingInv == Accounting /\ AcceptedOnce /\ PushesNew

LEMMA AccountingInvInit == Init => AccountingInv
<1> SUFFICES ASSUME Init PROVE AccountingInv
  OBVIOUS
<1>1. Range(<<>>) = {}
  BY DEF Range
<1>2. Accounting
  BY <1>1, PoolAssumption DEF Init, Accounting
<1> QED
  BY <1>1, <1>2, PoolAssumption DEF Init, AccountingInv, AcceptedOnce, PushesNew, Threads

\* The task at the head of the queue has never been started.
LEMMA HeadIsNew ==
    ASSUME TypeInv, AccountingInv, queue # <<>>
    PROVE  Head(queue) \in Tasks \ Range(started)
<1> USE DEF TypeInv, TypeOK, AccountingInv, Accounting
<1>1. /\ Len(started) \in Nat /\ Len(queue) \in Nat /\ Len(queue) > 0
      /\ DOMAIN started = 1 .. Len(started)
      /\ DOMAIN accepted = 1 .. Len(started) + Len(queue)
      /\ accepted[Len(started) + 1] = Head(queue)
      /\ \A i \in 1 .. Len(started) : accepted[i] = started[i]
      /\ Head(queue) \in Tasks
  OBVIOUS
<1>2. ASSUME NEW i \in DOMAIN started, started[i] = Head(queue) PROVE FALSE
  <2>1. /\ i \in DOMAIN accepted
        /\ Len(started) + 1 \in DOMAIN accepted
        /\ i # Len(started) + 1
        /\ accepted[i] = accepted[Len(started) + 1]
    BY <1>1, <1>2
  <2>2. AcceptedOnce
    OBVIOUS
  <2> HIDE DEF AccountingInv, Accounting
  <2> QED
    BY <2>1, <2>2 DEF AcceptedOnce
<1> QED
  BY <1>1, <1>2 DEF Range

LEMMA AccountingInvPop ==
    ASSUME TypeInv, AccountingInv, NEW w \in Workers, WorkerPop(w)
    PROVE  AccountingInv'
<1> DEFINE h == Head(queue)
<1> USE DEF TypeInv, TypeOK, AccountingInv
<1>1. /\ queue # <<>> /\ queue' = Tail(queue)
      /\ started' = Append(started, h)
      /\ cur' = [cur EXCEPT ![w] = h]
      /\ UNCHANGED <<accepted, ended, arg>>
      /\ pc' = [pc EXCEPT ![w] = "run"]
      /\ pc[w] = "test"
  BY DEF WorkerPop, Goto
<1>2. h \in Tasks \ Range(started)
  BY <1>1, HeadIsNew
<1>3. cur[w] = NoTask
  BY <1>1 DEF Carrying, TaskPCs, EnqueuePCs
<1>4. Range(started') = Range(started) \cup {h}
  BY <1>1, <1>2, RangeAppend
<1>5. accepted' = started' \o queue'
  BY <1>1, PopKeepsHistory DEF Accounting
<1>6. Range(started')
          = ended' \cup ({cur'[v] : v \in Workers} \ {NoTask})
  <2>1. {cur'[v] : v \in Workers} \ {NoTask}
            = ({cur[v] : v \in Workers} \ {NoTask}) \cup {h}
    BY <1>1, <1>2, <1>3, PoolAssumption
  <2> QED
    BY <1>1, <1>4, <2>1 DEF Accounting
<1>7. \A v, u \in Workers :
          cur'[v] # NoTask => cur'[v] \notin ended' /\ (v # u => cur'[v] # cur'[u])
  <2>1. \A v \in Workers : cur[v] # NoTask => cur[v] \in Range(started)
    BY DEF Accounting
  <2>2. ended \subseteq Range(started)
    BY DEF Accounting
  <2> QED
    BY <1>1, <1>2, <2>1, <2>2, PoolAssumption DEF Accounting
<1>8. AcceptedOnce' /\ PushesNew'
  BY <1>1 DEF AcceptedOnce, PushesNew, Threads
<1> QED
  BY <1>5, <1>6, <1>7, <1>8 DEF Accounting

\* A task that ends leaves the worker's hand for the set of ended tasks.
LEMMA AccountingTaskOver ==
    ASSUME TypeInv, AccountingInv, NEW w \in Workers, cur[w] # NoTask,
           TaskOver(w), UNCHANGED <<queue, accepted, started>>
    PROVE  Accounting'
<1> USE DEF TypeInv, TypeOK, AccountingInv, Accounting, TaskOver
<1>1. {cur[v] : v \in Workers} \ {NoTask}
          = ({cur'[v] : v \in Workers} \ {NoTask}) \cup {cur[w]}
  OBVIOUS
<1>2. Range(started') = ended' \cup ({cur'[v] : v \in Workers} \ {NoTask})
  BY <1>1
<1>3. \A v, u \in Workers :
          cur'[v] # NoTask => cur'[v] \notin ended' /\ (v # u => cur'[v] # cur'[u])
  OBVIOUS
<1> QED
  BY <1>2, <1>3

LEMMA AccountingInvWorker ==
    ASSUME TypeInv, AccountingInv, NEW w \in Workers, Worker(w)
    PROVE  AccountingInv'
<1> USE PoolAssumption DEF TypeInv, TypeOK, AccountingInv, Threads, Goto, history
<1>1. ASSUME UNCHANGED <<queue, cur, arg, history>>,
             \A t \in Threads \ {w} : pc'[t] = pc[t],
             pc'[w] \notin {"enqAcquire", "enqPush"}
      PROVE  AccountingInv'
  <2>1. Accounting' /\ AcceptedOnce'
    BY <1>1 DEF Accounting, AcceptedOnce
  <2>2. PushesNew'
    BY <1>1 DEF PushesNew
  <2> QED
    BY <2>1, <2>2
<1>2. CASE WorkerLock(w)
  BY <1>1, <1>2 DEF WorkerLock
<1>3. CASE WorkerSleep(w)
  BY <1>1, <1>3 DEF WorkerSleep
<1>4. CASE WorkerPark(w)
  BY <1>1, <1>4 DEF WorkerPark
<1>5. CASE WorkerSpuriousWake(w)
  BY <1>1, <1>5 DEF WorkerSpuriousWake
<1>6. CASE WorkerPop(w)
  BY <1>6, AccountingInvPop
<1>7. CASE WorkerExit(w)
  BY <1>1, <1>7 DEF WorkerExit
<1>8. CASE WorkerFinish(w)
  <2>1. cur[w] # NoTask
    BY <1>8 DEF WorkerFinish, Carrying, TaskPCs
  <2>2. Accounting'
    BY <1>8, <2>1, AccountingTaskOver DEF WorkerFinish
  <2>3. AcceptedOnce' /\ PushesNew'
    BY <1>8 DEF WorkerFinish, AcceptedOnce, PushesNew
  <2> QED
    BY <2>2, <2>3
<1> QED
  BY <1>2, <1>3, <1>4, <1>5, <1>6, <1>7, <1>8, Worker(w) DEF Worker

LEMMA PushExtendsHistory ==
    ASSUME TypeOK, NEW k \in Tasks
    PROVE  Append(started \o queue, k) = started \o Append(queue, k)
<1>1. started \in Seq(Tasks) /\ queue \in Seq(Tasks)
  BY DEF TypeOK
<1> QED
  BY <1>1

LEMMA AccountingInvPush ==
    ASSUME TypeInv, AccountingInv, NEW t \in Threads, EnqueuePush(t)
    PROVE  AccountingInv'
<1> USE PoolAssumption DEF TypeInv, TypeOK, AccountingInv
<1>1. /\ pc[t] = "enqPush"
      /\ queue' = Append(queue, arg[t])
      /\ accepted' = Append(accepted, arg[t])
      /\ pc' = [pc EXCEPT ![t] = "enqSignal"]
      /\ UNCHANGED <<cur, arg, started, ended>>
  BY DEF EnqueuePush, Goto
<1>2. arg[t] \in Tasks /\ arg[t] \notin Range(accepted)
  BY <1>1 DEF Carrying, EnqueuePCs, PushesNew
<1>3. Accounting'
  <2>0. Append(started \o queue, arg[t]) = started \o Append(queue, arg[t])
    BY <1>2, PushExtendsHistory
  <2>1. accepted' = started' \o queue'
    BY <1>1, <2>0, Zenon DEF Accounting
  <2> QED
    BY <1>1, <2>1 DEF Accounting
<1>4. AcceptedOnce'
  <2>1. /\ DOMAIN accepted = 1 .. Len(accepted)
        /\ DOMAIN accepted' = 1 .. Len(accepted) + 1
        /\ \A i \in 1 .. Len(accepted) : accepted'[i] = accepted[i]
        /\ accepted'[Len(accepted) + 1] = arg[t]
        /\ Len(accepted) \in Nat
    BY <1>1, <1>2
  <2>2. \A i \in 1 .. Len(accepted) : accepted[i] # arg[t]
    BY <1>2, <2>1 DEF Range
  <2>3. \A i, j \in 1 .. Len(accepted) : accepted[i] = accepted[j] => i = j
    BY <2>1 DEF AcceptedOnce
  <2> HIDE DEF TypeInv, TypeOK, AccountingInv
  <2> QED
    BY <2>1, <2>2, <2>3 DEF AcceptedOnce
<1>5. PushesNew'
  <2>1. Range(accepted') = Range(accepted) \cup {arg[t]}
    BY <1>1, <1>2, RangeAppend
  <2> QED
    BY <1>1, <1>2, <2>1 DEF PushesNew, Carrying, EnqueuePCs
<1> QED
  BY <1>3, <1>4, <1>5

LEMMA AccountingInvEnqueue ==
    ASSUME TypeInv, AccountingInv, NEW t \in Threads, Enqueue(t)
    PROVE  AccountingInv'
<1> USE PoolAssumption DEF TypeInv, TypeOK, AccountingInv, Goto, history
<1>1. ASSUME NEW k \in Tasks, EnqueueCall(t, k) PROVE AccountingInv'
  BY <1>1 DEF EnqueueCall, Submitted, Accounting, AcceptedOnce, PushesNew
<1>2. CASE EnqueueLock(t)
  BY <1>2 DEF EnqueueLock, Accounting, AcceptedOnce, PushesNew
<1>3. CASE EnqueuePush(t)
  BY <1>3, AccountingInvPush
<1>4. CASE EnqueueThrow(t)
  <2>1. t \in Workers /\ pc[t] = "enqPush"
    BY <1>4 DEF EnqueueThrow
  <2>1a. cur[t] # NoTask
    BY <2>1 DEF Carrying, TaskPCs, EnqueuePCs
  <2>2. Accounting'
    BY <1>4, <2>1, <2>1a, AccountingTaskOver DEF EnqueueThrow
  <2>3. AcceptedOnce' /\ PushesNew'
    BY <1>4 DEF EnqueueThrow, AcceptedOnce, PushesNew
  <2> QED
    BY <2>2, <2>3
<1>5. CASE EnqueueSignal(t)
  <2>1. PICK ws \in SUBSET Waiting : Notify(t, ws)
    BY <1>5 DEF EnqueueSignal
  <2> QED
    BY <1>5, <2>1 DEF EnqueueSignal, Notify, Waiting, AfterEnqueue, Accounting,
       AcceptedOnce, PushesNew
<1> QED
  BY <1>1, <1>2, <1>3, <1>4, <1>5, Enqueue(t) DEF Enqueue

LEMMA AccountingInvShutdown ==
    ASSUME TypeInv, AccountingInv, Shutdown
    PROVE  AccountingInv'
<1> USE PoolAssumption DEF TypeInv, TypeOK, AccountingInv, Threads, Goto, history
<1>1. ASSUME UNCHANGED <<queue, cur, arg, history>>,
             \A t \in Threads :
                 pc'[t] \in {"enqAcquire", "enqPush"} => pc'[t] = pc[t]
      PROVE  AccountingInv'
  BY <1>1 DEF Accounting, AcceptedOnce, PushesNew
<1>2. CASE StopLocked
  BY <1>1, <1>2 DEF StopLocked
<1>3. CASE StopUnlockedC
  BY <1>1, <1>3 DEF StopUnlockedC
<1>4. CASE StopUnlockedRs
  BY <1>1, <1>4 DEF StopUnlockedRs
<1>5. CASE Broadcast
  BY <1>1, <1>5 DEF Broadcast, Waiting
<1>6. CASE Join
  BY <1>1, <1>6 DEF Join
<1> QED
  BY <1>2, <1>3, <1>4, <1>5, <1>6, Shutdown DEF Shutdown

LEMMA AccountingInvInvariance == Spec => []AccountingInv
<1>1. TypeInv /\ AccountingInv /\ [Next]_vars => AccountingInv'
  <2>1. AccountingInv /\ UNCHANGED vars => AccountingInv'
    BY DEF AccountingInv, Accounting, AcceptedOnce, PushesNew, vars
  <2> QED
    BY <2>1, AccountingInvWorker, AccountingInvEnqueue, AccountingInvShutdown
    DEF Next
<1> QED
  BY AccountingInvInit, <1>1, TypeInvariance, PTL DEF Spec

\* No copy of the pool loses a task, runs one twice or starts them out of
\* order, whatever the workers, the tasks and the moment of the shutdown.
THEOREM TasksAccountedFor == Spec => []Accounting
<1>1. AccountingInv => Accounting
  BY DEF AccountingInv
<1> QED
  BY <1>1, AccountingInvInvariance, PTL

\* With every worker gone, nothing is queued and every accepted task has ended.
LEMMA AllExitedDrained ==
    ASSUME TypeInv, ShutdownInv, AccountingInv,
           \A w \in Workers : pc[w] = "exited"
    PROVE  queue = <<>> /\ ended = Range(accepted)
<1>1. queue = <<>>
  BY DEF ShutdownInv, LastOneDrains
<1>2. {cur[w] : w \in Workers} \ {NoTask} = {}
  BY DEF TypeInv, Carrying, TaskPCs, EnqueuePCs
<1>3. accepted = started
  BY <1>1 DEF AccountingInv, Accounting, TypeInv, TypeOK
<1>4. Range(started) = ended
  BY <1>2 DEF AccountingInv, Accounting
<1> QED
  BY <1>1, <1>3, <1>4

\* When the owner has joined the workers, nothing is queued and every accepted
\* task has ended: the freeing loop at the end of main.c's destroy is idle.
THEOREM ShutdownDrains == Spec => []DrainedAtJoin
<1>1. TypeInv /\ ShutdownInv /\ AccountingInv => DrainedAtJoin
  BY AllExitedDrained DEF DrainedAtJoin, ShutdownInv, JoinedAllExited
<1> QED
  BY <1>1, TypeInvariance, ShutdownInvInvariance, AccountingInvInvariance, PTL

(***************************************************************************)
(* Refinement.  A push is Accept, a pop Start, the end of a task (also by  *)
(* an exception) End, the join Destroy; every other step changes nothing   *)
(* that a caller can see.                                                  *)
(***************************************************************************)
Inv == TypeInv /\ MutualExclusion /\ ShutdownInv /\ AccountingInv

Invisible == UNCHANGED <<accepted, started, ended>>
             /\ (pc'[Main] = "joined" <=> pc[Main] = "joined")

LEMMA InvisibleStutters == Invisible => UNCHANGED Executor!vars
BY DEF Invisible, Executor!vars

\* While some worker is still there, the pool is not gone.
LEMMA WorkerKeepsPool ==
    ASSUME Inv, NEW w \in Workers, pc[w] # "exited"
    PROVE  pc[Main] # "joined"
BY DEF Inv, ShutdownInv, JoinedAllExited

LEMMA RefinePop ==
    ASSUME Inv, NEW w \in Workers, WorkerPop(w)
    PROVE  Executor!Start
<1> USE DEF Inv, TypeInv, TypeOK
<1>1. pc[w] = "test" /\ queue # <<>> /\ started' = Append(started, Head(queue))
      /\ UNCHANGED <<accepted, ended>> /\ pc' = [pc EXCEPT ![w] = "run"]
  BY DEF WorkerPop, Goto
<1>2. pc[Main] # "joined" /\ pc'[Main] # "joined"
  BY <1>1, WorkerKeepsPool, PoolAssumption DEF Threads
<1>3. accepted = started \o queue
  BY DEF AccountingInv, Accounting
<1>4. Len(started) < Len(accepted) /\ accepted[Len(started) + 1] = Head(queue)
  BY <1>1, <1>3
<1> QED
  BY <1>1, <1>2, <1>4 DEF Executor!Start

LEMMA RefineEnd ==
    ASSUME Inv, NEW w \in Workers, pc[w] \in {"run", "enqPush"}, TaskOver(w),
           UNCHANGED <<accepted, started>>, pc' = [pc EXCEPT ![w] = "acquire"]
    PROVE  Executor!Next
<1> USE DEF Inv, TypeInv, TypeOK
<1>1. cur[w] \in Tasks /\ cur[w] # NoTask
  BY DEF Carrying, TaskPCs, EnqueuePCs
<1>2. cur[w] \in Range(started) \ ended
  BY <1>1 DEF AccountingInv, Accounting
<1>3. pc[Main] # "joined" /\ pc'[Main] # "joined"
  BY WorkerKeepsPool, PoolAssumption DEF Threads
<1>4. ended' = ended \cup {cur[w]}
  BY DEF TaskOver
<1>5. Executor!End(cur[w])
  BY <1>2, <1>3, <1>4 DEF Executor!End, Executor!Range, Range
<1> QED
  BY <1>1, <1>5 DEF Executor!Next

LEMMA RefineWorker ==
    ASSUME Inv, NEW w \in Workers, Worker(w)
    PROVE  Executor!Next \/ UNCHANGED Executor!vars
<1> USE PoolAssumption DEF Inv, TypeInv, TypeOK, Threads, Goto, history, Invisible
<1>1. CASE WorkerLock(w)
  BY <1>1, InvisibleStutters DEF WorkerLock
<1>2. CASE WorkerSleep(w)
  BY <1>2, InvisibleStutters DEF WorkerSleep
<1>3. CASE WorkerPark(w)
  BY <1>3, InvisibleStutters DEF WorkerPark
<1>4. CASE WorkerSpuriousWake(w)
  BY <1>4, InvisibleStutters DEF WorkerSpuriousWake
<1>5. CASE WorkerPop(w)
  BY <1>5, RefinePop DEF Executor!Next
<1>6. CASE WorkerExit(w)
  BY <1>6, InvisibleStutters DEF WorkerExit
<1>7. CASE WorkerFinish(w)
  BY <1>7, RefineEnd DEF WorkerFinish
<1> QED
  BY <1>1, <1>2, <1>3, <1>4, <1>5, <1>6, <1>7, Worker(w) DEF Worker

LEMMA RefineAccept ==
    ASSUME Inv, NEW t \in Threads, EnqueuePush(t)
    PROVE  Executor!Next
<1> USE DEF Inv, TypeInv, TypeOK
<1>1. /\ pc[t] = "enqPush" /\ accepted' = Append(accepted, arg[t])
      /\ UNCHANGED <<started, ended>> /\ pc' = [pc EXCEPT ![t] = "enqSignal"]
  BY DEF EnqueuePush, Goto
<1>2. arg[t] \in Tasks /\ arg[t] \notin Range(accepted)
  BY <1>1 DEF Carrying, EnqueuePCs, AccountingInv, PushesNew
<1>3. pc[Main] # "joined" /\ pc'[Main] # "joined"
  BY <1>1, WorkerKeepsPool, PoolAssumption DEF Threads
<1>4. Executor!Accept(arg[t])
  BY <1>1, <1>2, <1>3 DEF Executor!Accept, Executor!Range, Range
<1> QED
  BY <1>2, <1>4 DEF Executor!Next

LEMMA RefineEnqueue ==
    ASSUME Inv, NEW t \in Threads, Enqueue(t)
    PROVE  Executor!Next \/ UNCHANGED Executor!vars
<1> USE PoolAssumption DEF Inv, TypeInv, TypeOK, Threads, Goto, history, Invisible
<1>1. ASSUME NEW k \in Tasks, EnqueueCall(t, k) PROVE Invisible
  BY <1>1 DEF EnqueueCall
<1>2. ASSUME EnqueueLock(t) PROVE Invisible
  BY <1>2 DEF EnqueueLock
<1>3. CASE EnqueuePush(t)
  BY <1>3, RefineAccept
<1>4. CASE EnqueueThrow(t)
  BY <1>4, RefineEnd DEF EnqueueThrow
<1>5. ASSUME EnqueueSignal(t) PROVE Invisible
  <2>1. PICK ws \in SUBSET Waiting : Notify(t, ws)
    BY <1>5 DEF EnqueueSignal
  <2> QED
    BY <1>5, <2>1 DEF EnqueueSignal, Notify, AfterEnqueue, Waiting
<1> QED
  BY <1>1, <1>2, <1>3, <1>4, <1>5, InvisibleStutters, Enqueue(t) DEF Enqueue

LEMMA RefineShutdown ==
    ASSUME Inv, Shutdown
    PROVE  Executor!Next \/ UNCHANGED Executor!vars
<1> USE PoolAssumption DEF Inv, TypeInv, TypeOK, Threads, Goto, history, Invisible
<1>1. CASE StopLocked
  BY <1>1, InvisibleStutters DEF StopLocked
<1>2. CASE StopUnlockedC
  BY <1>2, InvisibleStutters DEF StopUnlockedC
<1>3. CASE StopUnlockedRs
  BY <1>3, InvisibleStutters DEF StopUnlockedRs
<1>4. CASE Broadcast
  BY <1>4, InvisibleStutters DEF Broadcast
<1>5. CASE Join
  <2>1. /\ \A w \in Workers : pc[w] = "exited"
        /\ pc[Main] = "join" /\ pc'[Main] = "joined"
        /\ UNCHANGED <<accepted, started, ended>>
    BY <1>5 DEF Join
  <2>4. ended = Range(accepted)
    BY <2>1, AllExitedDrained
  <2> QED
    BY <2>1, <2>4 DEF Executor!Destroy, Executor!Next, Executor!Range, Range
<1> QED
  BY <1>1, <1>2, <1>3, <1>4, <1>5, Shutdown DEF Shutdown

\* Each copy of the pool implements the executor its callers rely on.
THEOREM PoolImplementsExecutor == Spec => Refinement
<1>1. Init => Executor!Init
  BY PoolAssumption DEF Init, Executor!Init, Threads
<1>2. Inv /\ [Next]_vars => [Executor!Next]_(Executor!vars)
  <2>1. UNCHANGED vars => UNCHANGED Executor!vars
    BY DEF vars, Executor!vars
  <2> QED
    BY <2>1, RefineWorker, RefineEnqueue, RefineShutdown DEF Next
<1>3. Spec => []Inv
  BY TypeInvariance, MutualExclusionInvariance, ShutdownInvInvariance,
     AccountingInvInvariance, PTL DEF Inv
<1> QED
  BY <1>1, <1>2, <1>3, PTL DEF Spec, Refinement, Executor!Spec

(***************************************************************************)
(* Work conservation.  Each push brings one notification, each delivered   *)
(* notification one awake worker, and a worker goes to sleep only on an    *)
(* empty queue, which the lock keeps empty until it is parked.             *)
(***************************************************************************)
SleepEmpty == \A w \in Workers : pc[w] = "sleep" => queue = <<>>

WorkInv == SleepEmpty /\ WorkConserving

LEMMA WorkInvInit == Init => WorkInv
BY PoolAssumption DEF Init, WorkInv, SleepEmpty, WorkConserving, Waiting, Threads

LEMMA CountsFinite ==
    /\ IsFiniteSet(Awake) /\ IsFiniteSet(Signalling)
    /\ IsFiniteSet(Awake') /\ IsFiniteSet(Signalling')
    /\ Cardinality(Awake) \in Nat /\ Cardinality(Signalling) \in Nat
    /\ Cardinality(Awake') \in Nat /\ Cardinality(Signalling') \in Nat
<1>1. IsFiniteSet(Threads)
  BY PoolAssumption, FS_AddElement DEF Threads
<1>2. /\ Awake \subseteq Workers /\ Signalling \subseteq Threads
      /\ Awake' \subseteq Workers /\ Signalling' \subseteq Threads
  BY DEF Awake, Signalling
<1>3. /\ IsFiniteSet(Awake) /\ IsFiniteSet(Signalling)
      /\ IsFiniteSet(Awake') /\ IsFiniteSet(Signalling')
  BY <1>1, <1>2, PoolAssumption, FS_Subset
<1> QED
  BY <1>3, FS_CardinalityType

LEMMA OneMore ==
    ASSUME NEW S, IsFiniteSet(S), NEW x, x \notin S
    PROVE  Cardinality(S \cup {x}) = Cardinality(S) + 1
BY FS_AddElement

LEMMA NoFewer ==
    ASSUME NEW S, IsFiniteSet(S), NEW x
    PROVE  Cardinality(S \cup {x}) >= Cardinality(S)
BY FS_AddElement, FS_CardinalityType

\* A step that only wakes a worker keeps the balance.
LEMMA AwakeningBalanced ==
    ASSUME TypeOK, WorkConserving, NEW w,
           Waiting' \subseteq Waiting,
           queue' = queue,
           Awake' = Awake \cup {w},
           Signalling' = Signalling
    PROVE  WorkConserving'
<1>1. Len(queue) \in Nat
  BY DEF TypeOK
<1>2. Cardinality(Awake') >= Cardinality(Awake)
  BY NoFewer, CountsFinite
<1> QED
  BY <1>1, <1>2, CountsFinite DEF WorkConserving

LEMMA EmptyQueueBalanced ==
    ASSUME queue' = <<>>
    PROVE  WorkConserving'
BY CountsFinite DEF WorkConserving

LEMMA WorkInvWorker ==
    ASSUME TypeInv, MutualExclusion, WorkInv, NEW w \in Workers, Worker(w)
    PROVE  WorkInv'
<1> USE PoolAssumption DEF TypeInv, TypeOK, WorkInv, Threads, Goto, history
<1>1. SleepEmpty'
  BY Worker(w)
  DEF SleepEmpty, MutualExclusion, Critical, Worker, WorkerLock, WorkerSleep,
      WorkerPark, WorkerSpuriousWake, WorkerPop, WorkerExit, WorkerFinish
<1>2. CASE WorkerLock(w)
  <2>1. Waiting' = Waiting /\ Awake' = Awake /\ Signalling' = Signalling
    BY <1>2 DEF WorkerLock, Waiting, Awake, Signalling
  <2> QED
    BY <1>1, <1>2, <2>1 DEF WorkerLock, WorkConserving
<1>3. CASE WorkerSleep(w)
  BY <1>1, <1>3, EmptyQueueBalanced DEF WorkerSleep
<1>4. CASE WorkerPark(w)
  BY <1>1, <1>4, EmptyQueueBalanced DEF WorkerPark, SleepEmpty
<1>5. CASE WorkerSpuriousWake(w)
  <2>1. /\ Waiting' \subseteq Waiting /\ Awake' = Awake \cup {w}
        /\ Signalling' = Signalling
    BY <1>5 DEF WorkerSpuriousWake, Waiting, Awake, Signalling
  <2> QED
    BY <1>1, <1>5, <2>1, AwakeningBalanced DEF WorkerSpuriousWake
<1>6. CASE WorkerPop(w)
  <2>1. /\ Waiting' = Waiting /\ Awake' = Awake \ {w} /\ w \in Awake
        /\ Signalling' = Signalling
    BY <1>6 DEF WorkerPop, Waiting, Awake, Signalling
  <2>2. Cardinality(Awake') = Cardinality(Awake) - 1
    BY <2>1, FS_RemoveElement, CountsFinite
  <2>3. Len(queue') = Len(queue) - 1 /\ Len(queue) \in Nat
    BY <1>6 DEF WorkerPop
  <2> QED
    BY <1>1, <2>1, <2>2, <2>3, CountsFinite DEF WorkConserving
<1>7. CASE WorkerExit(w)
  BY <1>1, <1>7, EmptyQueueBalanced DEF WorkerExit
<1>8. CASE WorkerFinish(w)
  <2>1. /\ Waiting' = Waiting /\ Awake' = Awake \cup {w}
        /\ Signalling' = Signalling
    BY <1>8 DEF WorkerFinish, Waiting, Awake, Signalling
  <2> QED
    BY <1>1, <1>8, <2>1, AwakeningBalanced DEF WorkerFinish
<1> QED
  BY <1>2, <1>3, <1>4, <1>5, <1>6, <1>7, <1>8, Worker(w) DEF Worker

LEMMA WorkInvEnqueue ==
    ASSUME TypeInv, MutualExclusion, WorkInv, NEW t \in Threads, Enqueue(t)
    PROVE  WorkInv'
<1> USE PoolAssumption DEF TypeInv, TypeOK, WorkInv, Threads, Goto, history
<1>1. ASSUME NEW k \in Tasks, EnqueueCall(t, k) PROVE WorkInv'
  <2>0. pc[t] \in {"open", "run"} /\ pc' = [pc EXCEPT ![t] = "enqAcquire"]
    BY <1>1 DEF EnqueueCall
  <2>1. Waiting' = Waiting /\ Awake' = Awake /\ Signalling' = Signalling
    BY <2>0 DEF Waiting, Awake, Signalling
  <2> QED
    BY <1>1, <2>1 DEF EnqueueCall, WorkConserving, SleepEmpty
<1>2. CASE EnqueueLock(t)
  <2>1. Waiting' = Waiting /\ Awake' = Awake /\ Signalling' = Signalling
    BY <1>2 DEF EnqueueLock, Waiting, Awake, Signalling
  <2> QED
    BY <1>2, <2>1 DEF EnqueueLock, WorkConserving, SleepEmpty
<1>3. CASE EnqueuePush(t)
  <2>1. SleepEmpty'
    BY <1>3 DEF EnqueuePush, SleepEmpty, MutualExclusion, Critical
  <2>2. /\ Waiting' = Waiting /\ Awake' = Awake
        /\ Signalling' = Signalling \cup {t} /\ t \notin Signalling
    BY <1>3 DEF EnqueuePush, Waiting, Awake, Signalling
  <2>3. Cardinality(Signalling') = Cardinality(Signalling) + 1
    BY <2>2, OneMore, CountsFinite
  <2>4. arg[t] \in Tasks
    BY <1>3 DEF EnqueuePush, Carrying, EnqueuePCs
  <2>5. Len(queue') = Len(queue) + 1 /\ Len(queue) \in Nat
    BY <1>3, <2>4 DEF EnqueuePush
  <2> QED
    BY <2>1, <2>2, <2>3, <2>5, CountsFinite DEF WorkConserving
<1>4. CASE EnqueueThrow(t)
  <2>0. /\ t \in Workers /\ pc[t] = "enqPush"
        /\ pc' = [pc EXCEPT ![t] = "acquire"]
    BY <1>4 DEF EnqueueThrow
  <2>1. /\ Waiting' = Waiting /\ Awake' = Awake \cup {t}
        /\ Signalling' = Signalling
    BY <2>0 DEF Waiting, Awake, Signalling
  <2> QED
    BY <1>4, <2>1, AwakeningBalanced DEF EnqueueThrow, SleepEmpty
<1>5. CASE EnqueueSignal(t)
  <2>0. PICK ws \in SUBSET Waiting : Notify(t, ws)
    BY <1>5 DEF EnqueueSignal
  <2>1. SleepEmpty'
    BY <1>5, <2>0 DEF EnqueueSignal, Notify, AfterEnqueue, SleepEmpty, Waiting
  <2> USE <1>5 DEF EnqueueSignal, Notify, AfterEnqueue
  <2>2. CASE Waiting = {}
    <3>0. /\ pc' = [u \in Threads |->
                        IF u = t THEN AfterEnqueue(t) ELSE pc[u]]
          /\ AfterEnqueue(t) # "waiting"
      BY <2>2
    <3>1. Waiting' = {}
      BY <2>2, <3>0 DEF Waiting
    <3> QED
      BY <2>1, <3>1 DEF WorkConserving
  <2>3. CASE Waiting # {}
    <3>1. PICK w \in Waiting : Notify(t, {w})
      BY <2>3
    <3>2. /\ Awake' = Awake \cup {w} /\ w \notin Awake
          /\ Signalling' = Signalling \ {t} /\ t \in Signalling
      <4>1. /\ pc[t] = "enqSignal" /\ pc[w] = "waiting" /\ w \in Workers
            /\ AfterEnqueue(t) \in {"open", "run"}
            /\ \A u \in Threads :
                  pc'[u] = IF u = t THEN AfterEnqueue(t)
                           ELSE IF u = w THEN "acquire" ELSE pc[u]
        BY <3>1 DEF Waiting
      <4> HIDE DEF EnqueueSignal, Notify, AfterEnqueue
      <4> QED
        BY SMTT(30), <4>1 DEF Awake, Signalling
    <3>3. /\ Cardinality(Awake') = Cardinality(Awake) + 1
          /\ Cardinality(Signalling') = Cardinality(Signalling) - 1
      BY <3>2, OneMore, FS_RemoveElement, CountsFinite
    <3> QED
      BY <2>1, <2>3, <3>3, CountsFinite DEF WorkConserving
  <2> QED
    BY <2>2, <2>3
<1> QED
  BY <1>1, <1>2, <1>3, <1>4, <1>5, Enqueue(t) DEF Enqueue

LEMMA WorkInvShutdown ==
    ASSUME TypeInv, WorkInv, Shutdown
    PROVE  WorkInv'
<1> USE PoolAssumption DEF TypeInv, TypeOK, WorkInv, Threads, Goto, history
<1>1. ASSUME queue' = queue,
             \A w \in Workers : pc'[w] = pc[w],
             pc[Main] # "enqSignal", pc'[Main] # "enqSignal"
      PROVE  WorkInv'
  <2>1. Waiting' = Waiting /\ Awake' = Awake /\ Signalling' = Signalling
    BY <1>1 DEF Waiting, Awake, Signalling
  <2> QED
    BY <1>1, <2>1 DEF WorkConserving, SleepEmpty
<1>2. CASE StopLocked
  BY <1>1, <1>2 DEF StopLocked
<1>3. CASE StopUnlockedC
  BY <1>1, <1>3 DEF StopUnlockedC
<1>4. CASE StopUnlockedRs
  BY <1>1, <1>4 DEF StopUnlockedRs
<1>5. CASE Broadcast
  <2>1. Waiting' = {} /\ SleepEmpty'
    BY <1>5 DEF Broadcast, Waiting, SleepEmpty
  <2> QED
    BY <2>1 DEF WorkConserving
<1>6. CASE Join
  BY <1>1, <1>6 DEF Join
<1> QED
  BY <1>2, <1>3, <1>4, <1>5, <1>6, Shutdown DEF Shutdown

\* No wakeup is lost: whenever a worker is parked, every queued task has an
\* awake idle worker or a notification on its way.
THEOREM NoWakeupLost == Spec => []WorkConserving
<1>1. TypeInv /\ MutualExclusion /\ WorkInv /\ [Next]_vars => WorkInv'
  <2>1. WorkInv /\ UNCHANGED vars => WorkInv'
    BY DEF WorkInv, SleepEmpty, WorkConserving, Waiting, Awake, Signalling, vars
  <2> QED
    BY <2>1, WorkInvWorker, WorkInvEnqueue, WorkInvShutdown DEF Next
<1>2. WorkInv => WorkConserving
  BY DEF WorkInv
<1> QED
  BY WorkInvInit, <1>1, <1>2, TypeInvariance, MutualExclusionInvariance, PTL
  DEF Spec
=============================================================================
