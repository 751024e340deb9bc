----------------------------- MODULE WorkQueue -----------------------------
(***************************************************************************)
(* app::work_queue and app::worker_pool, thread by thread.                 *)
(*                                                                         *)
(* One action is one critical section of the queue's mutex, or one         *)
(* notify_one made after the mutex was released: what other threads do     *)
(* between a push_back and its notify_one is where a wake-up could be      *)
(* lost.  A thread asleep in a condition variable is in that variable's    *)
(* wait set; it leaves the set when it is notified, when its stop token    *)
(* fires, or spuriously, and then runs its predicate again.                *)
(***************************************************************************)
EXTENDS Naturals, Sequences, FiniteSets

CONSTANTS
    Socket,     \* accepted client sockets
    Producer,   \* threads that call push or try_push
    Worker,     \* the jthreads of the pool
    Capacity,   \* work_queue::_capacity
    None        \* "this thread holds no socket"

Thread == Producer \cup Worker

\* work_queue.cpp:19 and worker_pool.cpp:26 reject zero.
ASSUME CapacityPositive == Capacity \in Nat \ {0}
ASSUME WorkersFinite == IsFiniteSet(Worker) /\ Worker # {}
ASSUME ProducersFinite == IsFiniteSet(Producer)
ASSUME ThreadsDistinct == Producer \cap Worker = {}
ASSUME NoneIsNoSocket == None \notin Socket
ASSUME StatusIsNoSocket == {"off", "idle", "gone"} \cap Socket = {}

VARIABLES
    sockets,    \* work_queue::_sockets
    closed,     \* work_queue::_closed
    notEmpty,   \* workers asleep in _not_empty
    notFull,    \* producers asleep in _not_full
    pc,         \* where each thread is
    held,       \* the socket a thread has moved into a local
    stop,       \* threads whose stop token has been requested
    pool,       \* life cycle of the worker_pool object
    unoffered   \* sockets the callers of push and try_push still own

queueVars == <<sockets, closed>>
waitVars == <<notEmpty, notFull>>
threadVars == <<pc, held>>
poolVars == <<stop, pool>>
vars == <<sockets, closed, notEmpty, notFull, pc, held, stop, pool, unoffered>>

ProducerPC == {"out", "push", "notify"}
WorkerPC == {"new", "pop", "notify", "handle", "exit"}
PoolState == {"starting", "running", "stopping", "joined", "unwinding", "aborted"}

TypeOK ==
    /\ sockets \in Seq(Socket)
    /\ closed \in BOOLEAN
    /\ notEmpty \subseteq Worker
    /\ notFull \subseteq Producer
    /\ pc \in [Thread -> ProducerPC \cup WorkerPC]
    /\ \A p \in Producer : pc[p] \in ProducerPC
    /\ \A w \in Worker : pc[w] \in WorkerPC
    /\ held \in [Thread -> Socket \cup {None}]
    /\ \A p \in Producer : pc[p] = "push" => held[p] \in Socket
    /\ \A w \in Worker : pc[w] \in {"notify", "handle"} => held[w] \in Socket
    /\ stop \subseteq Thread
    /\ pool \in PoolState
    /\ unoffered \subseteq Socket

Init ==
    /\ sockets = <<>>
    /\ closed = FALSE
    /\ notEmpty = {}
    /\ notFull = {}
    /\ pc = [t \in Thread |-> IF t \in Producer THEN "out" ELSE "new"]
    /\ held = [t \in Thread |-> None]
    /\ stop = {}
    /\ pool = "starting"
    /\ unoffered = Socket

-----------------------------------------------------------------------------
(* Producers.  server::run constructs the pool before anything is pushed.  *)

InService == pool \in {"running", "stopping", "joined"}

\* push_back under the mutex, then the notify_one still to be made.
Enqueue(p, s) ==
    /\ sockets' = Append(sockets, s)
    /\ pc' = [pc EXCEPT ![p] = "notify"]
    /\ unoffered' = unoffered \ {s}

\* Defect: a full queue takes one socket more.
TryPushOverfull(p, s) ==
    /\ InService /\ pc[p] = "out" /\ s \in unoffered
    /\ \A q \in Producer : held[q] # s
    /\ ~closed /\ Len(sockets) <= Capacity
    /\ Enqueue(p, s)
    /\ UNCHANGED <<closed, waitVars, held, poolVars>>

\* try_push: refused when closed or full, queued otherwise.
TryPush(p, s) ==
    /\ InService
    /\ pc[p] = "out"
    /\ s \in unoffered
    /\ \A q \in Producer : held[q] # s
    /\ \/ /\ closed \/ Len(sockets) >= Capacity
          /\ unoffered' = unoffered \ {s}
          /\ UNCHANGED <<sockets, pc>>
       \/ /\ ~closed
          /\ Len(sockets) < Capacity
          /\ Enqueue(p, s)
    /\ UNCHANGED <<closed, waitVars, held, poolVars>>

\* A caller moves its socket into push.
CallPush(p, s) ==
    /\ InService
    /\ pc[p] = "out"
    /\ s \in unoffered
    /\ \A q \in Producer : held[q] # s
    /\ pc' = [pc EXCEPT ![p] = "push"]
    /\ held' = [held EXCEPT ![p] = s]
    /\ UNCHANGED <<queueVars, waitVars, poolVars, unoffered>>

PushReady == closed \/ Len(sockets) < Capacity

\* One turn of push under the mutex, at entry or after a wake-up: enqueue,
\* return closed, or go (back) to sleep.
PushTurn(p) ==
    /\ pc[p] = "push"
    /\ p \notin notFull
    /\ \/ /\ PushReady /\ ~closed
          /\ Enqueue(p, held[p])
          /\ held' = [held EXCEPT ![p] = None]
          /\ UNCHANGED notFull
       \/ /\ closed \/ (~PushReady /\ p \in stop)
          /\ pc' = [pc EXCEPT ![p] = "out"]
          /\ held' = [held EXCEPT ![p] = None]
          /\ unoffered' = unoffered \ {held[p]}
          /\ UNCHANGED <<sockets, notFull>>
       \/ /\ ~PushReady /\ p \notin stop
          /\ notFull' = notFull \cup {p}
          /\ UNCHANGED <<sockets, pc, held, unoffered>>
    /\ UNCHANGED <<closed, notEmpty, poolVars>>

\* std::condition_variable_any::notify_one: wakes one sleeper if there is one.
NotifyOne(waiters, waitersNext) ==
    IF waiters = {} THEN waitersNext = {}
                    ELSE \E t \in waiters : waitersNext = waiters \ {t}

\* Defect: push returns without notifying.
NotifyNotEmptyMissing(p) ==
    /\ pc[p] = "notify"
    /\ pc' = [pc EXCEPT ![p] = "out"]
    /\ UNCHANGED <<queueVars, waitVars, held, poolVars, unoffered>>

\* _not_empty.notify_one() after the unlock, in push and in try_push.
NotifyNotEmpty(p) ==
    /\ pc[p] = "notify"
    /\ NotifyOne(notEmpty, notEmpty')
    /\ pc' = [pc EXCEPT ![p] = "out"]
    /\ UNCHANGED <<queueVars, notFull, held, poolVars, unoffered>>

\* The owner of a blocked producer requests its stop token: the callback
\* that condition_variable_any::wait registered notifies every sleeper.
StopProducer(p) ==
    /\ pc[p] = "push"
    /\ p \notin stop
    /\ stop' = stop \cup {p}
    /\ notFull' = IF p \in notFull THEN {} ELSE notFull
    /\ UNCHANGED <<queueVars, notEmpty, threadVars, pool, unoffered>>

-----------------------------------------------------------------------------
(* Workers: worker_pool::run_worker around work_queue::pop.                *)

PopReady == closed \/ sockets # <<>>

\* Defect: a stop request is honoured before the queue is drained.
PopTurnStopsEarly(w) ==
    /\ pc[w] = "pop"
    /\ w \notin notEmpty
    /\ \/ /\ sockets # <<>> /\ w \notin stop
          /\ held' = [held EXCEPT ![w] = Head(sockets)]
          /\ sockets' = Tail(sockets)
          /\ pc' = [pc EXCEPT ![w] = "notify"]
       \/ /\ w \in stop \/ (closed /\ sockets = <<>>)
          /\ pc' = [pc EXCEPT ![w] = "exit"]
          /\ UNCHANGED <<sockets, held>>
    /\ UNCHANGED <<closed, waitVars, poolVars, unoffered>>

\* Defect: run_worker pops again after nullopt instead of returning.
PopTurnNeverReturns(w) ==
    /\ pc[w] = "pop"
    /\ sockets # <<>>
    /\ held' = [held EXCEPT ![w] = Head(sockets)]
    /\ sockets' = Tail(sockets)
    /\ pc' = [pc EXCEPT ![w] = "notify"]
    /\ UNCHANGED <<closed, waitVars, poolVars, unoffered>>

\* One turn of pop under the mutex: take the oldest socket, return nullopt
\* (run_worker returns), or go (back) to sleep.
PopTurn(w) ==
    /\ pc[w] = "pop"
    /\ w \notin notEmpty
    /\ \/ /\ sockets # <<>>
          /\ held' = [held EXCEPT ![w] = Head(sockets)]
          /\ sockets' = Tail(sockets)
          /\ pc' = [pc EXCEPT ![w] = "notify"]
          /\ UNCHANGED notEmpty
       \/ /\ sockets = <<>>
          /\ PopReady \/ w \in stop
          /\ pc' = [pc EXCEPT ![w] = "exit"]
          /\ UNCHANGED <<sockets, held, notEmpty>>
       \/ /\ ~PopReady /\ w \notin stop
          /\ notEmpty' = notEmpty \cup {w}
          /\ UNCHANGED <<sockets, pc, held>>
    /\ UNCHANGED <<closed, notFull, poolVars, unoffered>>

\* Defect: pop returns without notifying.
NotifyNotFullMissing(w) ==
    /\ pc[w] = "notify"
    /\ pc' = [pc EXCEPT ![w] = "handle"]
    /\ UNCHANGED <<queueVars, waitVars, held, poolVars, unoffered>>

\* _not_full.notify_one() after the unlock; pop returns the socket.
NotifyNotFull(w) ==
    /\ pc[w] = "notify"
    /\ NotifyOne(notFull, notFull')
    /\ pc' = [pc EXCEPT ![w] = "handle"]
    /\ UNCHANGED <<queueVars, notEmpty, held, poolVars, unoffered>>

\* The connection handler returns, or throws and run_worker reports it:
\* either way the socket is gone and the worker pops again.
HandlerEnds(w) ==
    /\ pc[w] = "handle"
    /\ pc' = [pc EXCEPT ![w] = "pop"]
    /\ held' = [held EXCEPT ![w] = None]
    /\ UNCHANGED <<queueVars, waitVars, poolVars, unoffered>>

\* A condition variable may wake a thread for no reason.
SpuriousWakeup(t) ==
    /\ t \in notEmpty \cup notFull
    /\ notEmpty' = notEmpty \ {t}
    /\ notFull' = notFull \ {t}
    /\ UNCHANGED <<queueVars, threadVars, poolVars, unoffered>>

-----------------------------------------------------------------------------
(* The pool: start-up, request_stop, and the joins of its jthreads.        *)

\* start_workers: emplace_back starts one more thread.
StartWorker(w) ==
    /\ pool = "starting"
    /\ pc[w] = "new"
    /\ pc' = [pc EXCEPT ![w] = "pop"]
    /\ pool' = IF \A v \in Worker \ {w} : pc[v] # "new" THEN "running" ELSE "starting"
    /\ UNCHANGED <<queueVars, waitVars, held, stop, unoffered>>

\* emplace_back throws: the constructor unwinds, ~worker_pool does not run.
StartFails ==
    /\ pool = "starting"
    /\ pool' = "unwinding"
    /\ UNCHANGED <<queueVars, waitVars, threadVars, stop, unoffered>>

Started == {w \in Worker : pc[w] # "new"}

\* The stop token of a worker fires; a callback registered by its wait
\* notifies every sleeper of _not_empty.
FireStop(w) ==
    /\ stop' = stop \cup {w}
    /\ notEmpty' = IF w \in notEmpty THEN {} ELSE notEmpty

\* ~jthread in the unwinding constructor: request_stop, then join, one
\* worker after the other, with the queue never closed.
UnwindWorker(w) ==
    /\ pool = "unwinding"
    /\ w \in Started \ stop
    /\ \A v \in Worker \cap stop : pc[v] = "exit"
    /\ FireStop(w)
    /\ UNCHANGED <<queueVars, notFull, threadVars, pool, unoffered>>

UnwindDone ==
    /\ pool = "unwinding"
    /\ \A w \in Started : pc[w] = "exit"
    /\ pool' = "aborted"
    /\ UNCHANGED <<queueVars, waitVars, threadVars, stop, unoffered>>

\* Defect: close() wakes only one kind of waiter.
CloseWakesConsumers ==
    /\ pool = "running"
    /\ closed' = TRUE
    /\ notEmpty' = {}
    /\ pool' = "stopping"
    /\ UNCHANGED <<sockets, notFull, threadVars, stop, unoffered>>

\* request_stop (from ~worker_pool): close() comes first.
Close ==
    /\ pool = "running"
    /\ closed' = TRUE
    /\ notFull' = {}
    /\ notEmpty' = {}
    /\ pool' = "stopping"
    /\ UNCHANGED <<sockets, threadVars, stop, unoffered>>

\* request_stop: worker.request_stop() for each worker after the close.
RequestStop(w) ==
    /\ pool = "stopping"
    /\ w \notin stop
    /\ FireStop(w)
    /\ UNCHANGED <<queueVars, notFull, threadVars, pool, unoffered>>

\* The jthread members have joined; ~worker_pool returns.
Join ==
    /\ pool = "stopping"
    /\ Worker \subseteq stop
    /\ \A w \in Worker : pc[w] = "exit"
    /\ pool' = "joined"
    /\ UNCHANGED <<queueVars, waitVars, threadVars, stop, unoffered>>

-----------------------------------------------------------------------------
ProducerStep(p) == PushTurn(p) \/ NotifyNotEmpty(p)
WorkerStep(w) == PopTurn(w) \/ NotifyNotFull(w)
PoolStep == Join \/ UnwindDone \/ \E w \in Worker : UnwindWorker(w) \/ RequestStop(w)

Next ==
    \/ \E p \in Producer, s \in Socket : TryPush(p, s) \/ CallPush(p, s)
    \/ \E p \in Producer : ProducerStep(p) \/ StopProducer(p)
    \/ \E w \in Worker : WorkerStep(w) \/ HandlerEnds(w) \/ StartWorker(w)
    \/ \E t \in Thread : SpuriousWakeup(t)
    \/ StartFails \/ Close \/ PoolStep

Spec == Init /\ [][Next]_vars

\* A runnable thread gets the mutex and the processor eventually, and a
\* thread inside request_stop or a destructor goes on.  Nothing obliges a
\* caller to push, to stop or to close, and no handler is forced to return.
ThreadFairness ==
    /\ \A p \in Producer : WF_vars(ProducerStep(p))
    /\ \A w \in Worker : WF_vars(WorkerStep(w))
    /\ WF_vars(PoolStep)

FairSpec == Spec /\ ThreadFairness

\* Every connection handler returns; assumed only where shutdown is at stake.
HandlersReturn == \A w \in Worker : WF_vars(HandlerEnds(w))

-----------------------------------------------------------------------------
(* Properties.                                                             *)

Notifiers == {p \in Producer : pc[p] = "notify"}
AwakePoppers == {w \in Worker \ notEmpty : pc[w] = "pop"}
Poppers == {w \in Worker : pc[w] = "notify"}
AwakePushers == {p \in Producer \ notFull : pc[p] = "push"}

\* No wake-up of a worker is lost: while some worker sleeps in _not_empty,
\* each queued socket has a notify_one still to come or a worker already
\* awake on its way to it, although notify_one runs after the unlock
\* (work_queue.cpp:37-38, 49-50) and other threads run in between.
WorkersNotForgotten ==
    notEmpty # {} => Len(sockets) <= Cardinality(Notifiers) + Cardinality(AwakePoppers)

\* No wake-up of a producer is lost: while some producer sleeps in
\* _not_full, each free place has a notify_one still to come or a producer
\* already awake on its way to it (work_queue.cpp:69-70).
ProducersNotForgotten ==
    notFull # {} => Capacity - Len(sockets) <= Cardinality(Poppers) + Cardinality(AwakePushers)

\* A worker returns from run_worker only when nothing can be left behind:
\* the queue is empty, and it is closed unless the pool's own constructor
\* is being unwound (work_queue.cpp:61-65, worker_pool.cpp:37-43).
LeavesNothingBehind ==
    \A w \in Worker : pc[w] = "exit" =>
        /\ sockets = <<>>
        /\ closed \/ pool \in {"unwinding", "aborted"}

Queued == {sockets[i] : i \in 1..Len(sockets)}

\* Each socket has one owner: the caller, one place in the queue, or one
\* worker; the moves in push, try_push and pop neither copy nor lose it.
OneOwner ==
    /\ \A i, j \in 1..Len(sockets) : sockets[i] = sockets[j] => i = j
    /\ \A t, u \in Thread : held[t] = held[u] /\ held[t] # None => t = u
    /\ Queued \cap unoffered = {}
    /\ \A p \in Producer : held[p] # None => held[p] \in unoffered
    /\ \A w \in Worker : held[w] \notin Queued \cup unoffered

\* close() prevents further pushes (work_queue.h:46): the queue only shrinks
\* from then on, and it is never reopened.
ClosedStaysClosed ==
    [][closed => closed' /\ Len(sockets') <= Len(sockets)]_vars

Serving(w) ==
    CASE pc[w] = "new" -> "off"
      [] pc[w] = "pop" -> "idle"
      [] pc[w] = "exit" -> "gone"
      [] OTHER -> held[w]

\* The hand-off seen from outside: a pool whose start failed has shut the
\* channel although the queue was never closed.
H == INSTANCE Handoff WITH
        queue <- sockets,
        open <- ~closed /\ pool \notin {"unwinding", "aborted"},
        serving <- [w \in Worker |-> Serving(w)]

\* The queue and the pool are a bounded FIFO hand-off: every step is a step
\* of Handoff or invisible to it.
ImplementsHandoff == H!HSpec

\* The hand-off is work-conserving: a queued socket is taken while a worker
\* is idle, and idle workers leave after close, whatever wake-ups the
\* condition variables deliver.
ImplementsHandoffFairness == H!HFairness

\* ~worker_pool returns if the handlers in progress return: close() and the
\* stop tokens reach every worker, asleep or not.  A pool whose constructor
\* failed half way joins the threads it started, although nobody closes the
\* queue: their stop tokens wake them.
ShutdownCompletes ==
    /\ HandlersReturn => (pool = "stopping" ~> pool = "joined")
    /\ pool = "unwinding" ~> pool = "aborted"

\* A producer blocked in push is released by close.
BlockedPushReturns ==
    \A p \in Producer : (closed /\ pc[p] = "push") ~> pc[p] = "out"
=============================================================================
