----------------------------- MODULE ThreadPool -----------------------------
(***************************************************************************)
(* The thread pool each threaded server is built on, at the granularity of *)
(* its lock and condition-variable operations.  Three programs carry their *)
(* own copy, and the copies differ in how a task is announced and in how   *)
(* the pool is shut down:                                                  *)
(*                                                                         *)
(*   "cc"  main.cc and main_async.cc: stop is set under the lock, the      *)
(*         notify comes after the unlock, enqueue throws once stopped      *)
(*   "c"   main.c: stop is set without the lock, the signal comes before   *)
(*         the unlock, enqueue does not look at stop                       *)
(*   "rs"  main.rs: stop is set without the lock, the notify comes after   *)
(*         the unlock, enqueue drops the task once stopped                 *)
(*                                                                         *)
(* Only in main_async.cc can a task run while the pool is being stopped    *)
(* and call enqueue itself; elsewhere the thread that enqueues is the one  *)
(* that stops the pool, so main.rs never gets to drop a task.              *)
(*                                                                         *)
(* impl names the copy; it is chosen by Init and never changes.            *)
(***************************************************************************)
EXTENDS Naturals, Sequences, FiniteSets, Functions

CONSTANTS
    Workers,       \* the pool's threads
    Main,          \* the thread that owns the pool: enqueues, then destroys it
    Tasks,         \* the tasks
    Nested,        \* the tasks enqueued by a running task, not by Main
    Endless,       \* the tasks that may never return (a WebSocket session)
    Impls,         \* the copies of the pool that Init chooses from
    NoThread, NoTask

ASSUME PoolAssumption ==
    /\ IsFiniteSet(Workers) /\ Workers # {}
    /\ Main \notin Workers
    /\ NoThread \notin Workers \cup {Main}
    /\ NoTask \notin Tasks
    /\ Nested \subseteq Tasks
    /\ Endless \subseteq Tasks
    /\ Impls \subseteq {"cc", "c", "rs"}

Threads == Workers \cup {Main}

VARIABLES
    impl,          \* which copy of the pool this is
    pc,            \* where each thread is
    lock,          \* the holder of queue_mutex, or NoThread
    stop,          \* the pool's stop flag
    queue,         \* the pool's task queue
    cur,           \* the task each worker runs
    arg,           \* the task each thread is enqueueing
    accepted,      \* history: the tasks put on the queue, in order
    started,       \* history: the tasks taken off the queue, in order
    ended,         \* history: the tasks that returned or threw
    refused        \* history: the tasks turned away by a stopped pool

vars == <<impl, pc, lock, stop, queue, cur, arg,
          accepted, started, ended, refused>>
history == <<accepted, started, ended, refused>>

(***************************************************************************)
(* Control points.  A worker in "waiting" is parked in the condition       *)
(* variable; in "sleep" it has seen an empty queue and no stop, still      *)
(* holds the lock, and is about to park.                                   *)
(***************************************************************************)
EnqueuePCs == {"enqAcquire", "enqPush", "enqSignal"}
WorkerPCs == {"acquire", "test", "sleep", "waiting", "run", "exited"}
                 \cup EnqueuePCs
MainPCs == {"open", "broadcast", "join", "joined"} \cup EnqueuePCs

Waiting == {w \in Workers : pc[w] = "waiting"}

\* Mutant: every caller of enqueue resumes as if it were the owner.
AfterEnqueueAsOwner(t) == "open"

\* What a thread does next once enqueue has returned to its caller.
AfterEnqueue(t) == IF t = Main THEN "open" ELSE "run"

Goto(t, label) == pc' = [pc EXCEPT ![t] = label]

Init ==
    /\ impl \in Impls
    /\ pc = [t \in Threads |-> IF t = Main THEN "open" ELSE "acquire"]
    /\ lock = NoThread
    /\ stop = FALSE
    /\ queue = <<>>
    /\ cur = [w \in Workers |-> NoTask]
    /\ arg = [t \in Threads |-> NoTask]
    /\ accepted = <<>>
    /\ started = <<>>
    /\ ended = {}
    /\ refused = {}

-----------------------------------------------------------------------------
(* The worker's loop.                                                      *)

WorkerLock(w) ==
    /\ pc[w] = "acquire"
    /\ lock = NoThread
    /\ lock' = w
    /\ Goto(w, "test")
    /\ UNCHANGED <<impl, stop, queue, cur, arg, history>>

\* The wait predicate is false: nothing to do and no stop.  The worker keeps
\* the lock until it parks, but stop may be set in between by a thread that
\* does not take the lock.
WorkerSleep(w) ==
    /\ pc[w] = "test"
    /\ queue = <<>>
    /\ ~stop
    /\ Goto(w, "sleep")
    /\ UNCHANGED <<impl, lock, stop, queue, cur, arg, history>>

\* wait: release the lock and park, in one step.
WorkerPark(w) ==
    /\ pc[w] = "sleep"
    /\ Goto(w, "waiting")
    /\ lock' = NoThread
    /\ UNCHANGED <<impl, stop, queue, cur, arg, history>>

\* A condition variable may wake a thread that nobody notified.
WorkerSpuriousWake(w) ==
    /\ pc[w] = "waiting"
    /\ Goto(w, "acquire")
    /\ UNCHANGED <<impl, lock, stop, queue, cur, arg, history>>

\* Mutant: the newest task is served first.
WorkerPopLast(w) ==
    /\ pc[w] = "test"
    /\ queue # <<>>
    /\ queue' = SubSeq(queue, 1, Len(queue) - 1)
    /\ cur' = [cur EXCEPT ![w] = queue[Len(queue)]]
    /\ started' = Append(started, queue[Len(queue)])
    /\ lock' = NoThread
    /\ Goto(w, "run")
    /\ UNCHANGED <<impl, stop, arg, accepted, ended, refused>>

WorkerPop(w) ==
    /\ pc[w] = "test"
    /\ queue # <<>>
    /\ queue' = Tail(queue)
    /\ cur' = [cur EXCEPT ![w] = Head(queue)]
    /\ started' = Append(started, Head(queue))
    /\ lock' = NoThread
    /\ Goto(w, "run")
    /\ UNCHANGED <<impl, stop, arg, accepted, ended, refused>>

\* Mutant: a stopped pool is left even if tasks are queued.
WorkerExitEarly(w) ==
    /\ pc[w] = "test"
    /\ stop
    /\ lock' = NoThread
    /\ Goto(w, "exited")
    /\ UNCHANGED <<impl, stop, queue, cur, arg, history>>

WorkerExit(w) ==
    /\ pc[w] = "test"
    /\ stop
    /\ queue = <<>>
    /\ lock' = NoThread
    /\ Goto(w, "exited")
    /\ UNCHANGED <<impl, stop, queue, cur, arg, history>>

\* The task is over, whether it returned or (in main.cc) threw into catch (...).
TaskOver(w) ==
    /\ ended' = ended \cup {cur[w]}
    /\ cur' = [cur EXCEPT ![w] = NoTask]

WorkerFinish(w) ==
    /\ pc[w] = "run"
    /\ TaskOver(w)
    /\ Goto(w, "acquire")
    /\ UNCHANGED <<impl, lock, stop, queue, arg, accepted, started, refused>>

-----------------------------------------------------------------------------
(* enqueue, called by Main from its accept loop or, in main_async.cc, by a *)
(* worker whose task hands a WebSocket session back to the pool.           *)

Submitted(k) ==
    k \in Range(accepted) \cup refused \cup {arg[t] : t \in Threads}

EnqueueCall(t, k) ==
    /\ ~Submitted(k)
    /\ IF t = Main
         THEN pc[t] = "open" /\ k \notin Nested
         ELSE pc[t] = "run" /\ k \in Nested /\ impl = "cc"
    /\ arg' = [arg EXCEPT ![t] = k]
    /\ Goto(t, "enqAcquire")
    /\ UNCHANGED <<impl, lock, stop, queue, cur, history>>

EnqueueLock(t) ==
    /\ pc[t] = "enqAcquire"
    /\ lock = NoThread
    /\ lock' = t
    /\ Goto(t, "enqPush")
    /\ UNCHANGED <<impl, stop, queue, cur, arg, history>>

\* main.cc and main.rs unlock before they notify; main.c signals first.
EnqueuePush(t) ==
    /\ pc[t] = "enqPush"
    /\ impl = "c" \/ ~stop
    /\ queue' = Append(queue, arg[t])
    /\ accepted' = Append(accepted, arg[t])
    /\ lock' = IF impl = "c" THEN t ELSE NoThread
    /\ Goto(t, "enqSignal")
    /\ UNCHANGED <<impl, stop, cur, arg, started, ended, refused>>

\* main.cc: enqueue on a stopped pool throws.  Only a task can be in enqueue
\* by then, and the exception ends that task.
EnqueueThrow(t) ==
    /\ pc[t] = "enqPush"
    /\ impl = "cc" /\ stop
    /\ t \in Workers
    /\ refused' = refused \cup {arg[t]}
    /\ arg' = [arg EXCEPT ![t] = NoTask]
    /\ TaskOver(t)
    /\ lock' = NoThread
    /\ Goto(t, "acquire")
    /\ UNCHANGED <<impl, stop, queue, accepted, started>>

Notify(t, ws) ==
    /\ pc' = [u \in Threads |-> IF u = t THEN AfterEnqueue(t)
                                ELSE IF u \in ws THEN "acquire" ELSE pc[u]]

\* Mutant: notify only when the queue was empty before the push.
EnqueueSignalFirst(t) ==
    /\ pc[t] = "enqSignal"
    /\ IF Waiting = {} \/ Len(queue) > 1
         THEN Notify(t, {})
         ELSE \E w \in Waiting : Notify(t, {w})
    /\ arg' = [arg EXCEPT ![t] = NoTask]
    /\ lock' = IF impl = "c" THEN NoThread ELSE lock
    /\ UNCHANGED <<impl, stop, queue, cur, history>>

\* Mutant: the notification is forgotten.
EnqueueNoSignal(t) ==
    /\ pc[t] = "enqSignal"
    /\ Notify(t, {})
    /\ arg' = [arg EXCEPT ![t] = NoTask]
    /\ lock' = IF impl = "c" THEN NoThread ELSE lock
    /\ UNCHANGED <<impl, stop, queue, cur, history>>

\* notify_one / pthread_cond_signal: wakes one parked worker if there is one.
EnqueueSignal(t) ==
    /\ pc[t] = "enqSignal"
    /\ IF Waiting = {} THEN Notify(t, {}) ELSE \E w \in Waiting : Notify(t, {w})
    /\ arg' = [arg EXCEPT ![t] = NoTask]
    /\ lock' = IF impl = "c" THEN NoThread ELSE lock
    /\ UNCHANGED <<impl, stop, queue, cur, history>>

-----------------------------------------------------------------------------
(* Destruction, by the owner, once it enqueues no more.                    *)

\* Mutant: the flag is written without taking the lock.
StopLockedNoLock ==
    /\ impl = "cc"
    /\ pc[Main] = "open"
    /\ stop' = TRUE
    /\ Goto(Main, "broadcast")
    /\ UNCHANGED <<impl, lock, queue, cur, arg, history>>

\* ~ThreadPool of main.cc: the flag is written while holding queue_mutex.
StopLocked ==
    /\ impl = "cc"
    /\ pc[Main] = "open"
    /\ lock = NoThread
    /\ stop' = TRUE
    /\ Goto(Main, "broadcast")
    /\ UNCHANGED <<impl, lock, queue, cur, arg, history>>

\* thread_pool_destroy of main.c: an atomic store, no lock.
StopUnlockedC ==
    /\ impl = "c"
    /\ pc[Main] = "open"
    /\ stop' = TRUE
    /\ Goto(Main, "broadcast")
    /\ UNCHANGED <<impl, lock, queue, cur, arg, history>>

\* Drop for ThreadPool of main.rs: an atomic store, no lock.
StopUnlockedRs ==
    /\ impl = "rs"
    /\ pc[Main] = "open"
    /\ stop' = TRUE
    /\ Goto(Main, "broadcast")
    /\ UNCHANGED <<impl, lock, queue, cur, arg, history>>

\* Mutant: one notification instead of one for every parked worker.
BroadcastOne ==
    /\ pc[Main] = "broadcast"
    /\ \E ws \in {{w} : w \in Waiting} \cup (IF Waiting = {} THEN {{}} ELSE {}) :
          pc' = [t \in Threads |-> IF t = Main THEN "join"
                                  ELSE IF t \in ws THEN "acquire" ELSE pc[t]]
    /\ UNCHANGED <<impl, lock, stop, queue, cur, arg, history>>

\* notify_all / pthread_cond_broadcast.
Broadcast ==
    /\ pc[Main] = "broadcast"
    /\ pc' = [t \in Threads |-> IF t = Main THEN "join"
                                ELSE IF t \in Waiting THEN "acquire" ELSE pc[t]]
    /\ UNCHANGED <<impl, lock, stop, queue, cur, arg, history>>

\* Mutant: the owner goes on once no worker is busy, parked ones included.
JoinIdle ==
    /\ pc[Main] = "join"
    /\ \A w \in Workers : pc[w] \in {"acquire", "waiting", "exited"}
    /\ Goto(Main, "joined")
    /\ UNCHANGED <<impl, lock, stop, queue, cur, arg, history>>

Join ==
    /\ pc[Main] = "join"
    /\ \A w \in Workers : pc[w] = "exited"
    /\ Goto(Main, "joined")
    /\ UNCHANGED <<impl, lock, stop, queue, cur, arg, history>>

-----------------------------------------------------------------------------
Worker(w) ==
    \/ WorkerLock(w)
    \/ WorkerSleep(w)
    \/ WorkerPark(w)
    \/ WorkerSpuriousWake(w)
    \/ WorkerPop(w)
    \/ WorkerExit(w)
    \/ WorkerFinish(w)

Enqueue(t) ==
    \/ \E k \in Tasks : EnqueueCall(t, k)
    \/ EnqueueLock(t)
    \/ EnqueuePush(t)
    \/ EnqueueThrow(t)
    \/ EnqueueSignal(t)

Shutdown == StopLocked \/ StopUnlockedC \/ StopUnlockedRs \/ Broadcast \/ Join

Next ==
    \/ \E w \in Workers : Worker(w)
    \/ \E t \in Threads : Enqueue(t)
    \/ Shutdown

(***************************************************************************)
(* Fairness.  A thread that can run does run (weak fairness); a thread     *)
(* that asks for the mutex gets it if it is free again and again (strong   *)
(* fairness, as other threads keep taking it).  A task outside Endless     *)
(* returns.  Nothing makes Main call enqueue or destroy the pool, and      *)
(* nothing wakes a worker but a notification.                              *)
(***************************************************************************)
Fairness ==
    /\ \A w \in Workers :
          /\ SF_vars(WorkerLock(w))
          /\ WF_vars(WorkerSleep(w) \/ WorkerPark(w) \/ WorkerPop(w) \/ WorkerExit(w))
          /\ WF_vars(cur[w] \notin Endless /\ WorkerFinish(w))
    /\ \A t \in Threads :
          /\ SF_vars(EnqueueLock(t))
          /\ WF_vars(EnqueuePush(t) \/ EnqueueThrow(t) \/ EnqueueSignal(t))
    /\ WF_vars(Broadcast \/ Join)

Spec == Init /\ [][Next]_vars
FairSpec == Spec /\ Fairness

-----------------------------------------------------------------------------
(* Safety.                                                                 *)

TypeOK ==
    /\ impl \in Impls
    /\ pc \in [Threads -> WorkerPCs \cup MainPCs]
    /\ pc[Main] \in MainPCs
    /\ \A w \in Workers : pc[w] \in WorkerPCs
    /\ lock \in Threads \cup {NoThread}
    /\ stop \in BOOLEAN
    /\ queue \in Seq(Tasks) /\ accepted \in Seq(Tasks) /\ started \in Seq(Tasks)
    /\ cur \in [Workers -> Tasks \cup {NoTask}]
    /\ arg \in [Threads -> Tasks \cup {NoTask}]
    /\ ended \subseteq Tasks /\ refused \subseteq Tasks

\* queue_mutex works: a thread is between a lock and its unlock exactly when
\* it is the holder (so at most one is).
Critical(t) ==
    \/ pc[t] \in {"test", "sleep", "enqPush"}
    \/ pc[t] = "enqSignal" /\ impl = "c"

MutualExclusion == \A t \in Threads : Critical(t) <=> lock = t

\* No task is lost, run twice or run out of order: what was accepted is what
\* was started, in the same order, followed by what is queued, and a started
\* task has ended or is run by exactly one worker.
Accounting ==
    /\ accepted = started \o queue
    /\ Range(started) = ended \cup ({cur[w] : w \in Workers} \ {NoTask})
    /\ \A w, v \in Workers :
          cur[w] # NoTask => cur[w] \notin ended /\ (w # v => cur[w] # cur[v])

\* No worker stays parked while there is work that nobody has been woken for:
\* if a worker is parked, each queued task has an awake idle worker or a
\* notification that is about to be sent.
Awake == {w \in Workers : pc[w] \in {"acquire", "test"}}
Signalling == {t \in Threads : pc[t] = "enqSignal"}

WorkConserving ==
    Waiting # {} => Len(queue) <= Cardinality(Awake) + Cardinality(Signalling)

\* The shutdown of main.cc leaves no worker asleep: once notify_all has
\* returned, no worker is parked or about to park on a stale view of stop.
NoSleeperAfterBroadcast ==
    impl = "cc" /\ pc[Main] \in {"join", "joined"} =>
        \A w \in Workers : pc[w] \notin {"sleep", "waiting"}

\* When the destructor returns every accepted task has ended: the queue is
\* drained before the workers leave, also of tasks that running tasks added.
DrainedAtJoin ==
    pc[Main] = "joined" => queue = <<>> /\ Range(accepted) \subseteq ended

\* The pool is what its callers take it for.
Executor == INSTANCE TaskExecutor WITH gone <- pc[Main] = "joined"
Refinement == Executor!Spec

-----------------------------------------------------------------------------
(* Liveness.                                                               *)

\* An accepted task ends, even if tasks that never return hold some of the
\* workers and even if no further task is ever enqueued, as long as one
\* worker is left over (Cardinality(Endless) < Cardinality(Workers)).
EveryAcceptedTaskEnds ==
    \A k \in Tasks \ Endless : k \in Range(accepted) ~> k \in ended

\* The destructor of main.cc returns, if the accepted tasks do.
ShutdownCompletes ==
    impl = "cc" /\ pc[Main] = "join" ~>
        pc[Main] = "joined" \/ Range(accepted) \cap Endless # {}
=============================================================================
