-------------------------- MODULE WorkQueueProofs --------------------------
(***************************************************************************)
(* Proofs about WorkQueue, for every number of producers and workers and   *)
(* every capacity.                                                         *)
(***************************************************************************)
EXTENDS WorkQueue, Integers, FiniteSetTheorems, TLAPS

USE DEF queueVars, waitVars, threadVars, poolVars

-----------------------------------------------------------------------------
(* What push_back and pop_front do to the elements of a queue.             *)

Elems(q) == {q[i] : i \in 1..Len(q)}
Distinct(q) == \A i, j \in 1..Len(q) : q[i] = q[j] => i = j

\* push_back adds one element at the end.
LEMMA AppendElems ==
  ASSUME NEW S, NEW q \in Seq(S), NEW c \in S
  PROVE  /\ Elems(Append(q, c)) = Elems(q) \cup {c}
         /\ Distinct(q) /\ c \notin Elems(q) => Distinct(Append(q, c))
<1>1. /\ Len(Append(q, c)) = Len(q) + 1
      /\ \A i \in 1..Len(q) : Append(q, c)[i] = q[i]
      /\ Append(q, c)[Len(q) + 1] = c
      /\ Len(q) \in Nat
  OBVIOUS
<1>2. 1..(Len(q) + 1) = (1..Len(q)) \cup {Len(q) + 1}
  BY <1>1
<1>3. Elems(Append(q, c)) = Elems(q) \cup {c}
  BY <1>1, <1>2 DEF Elems
<1>4. ASSUME Distinct(q), c \notin Elems(q) PROVE Distinct(Append(q, c))
  BY <1>1, <1>2, <1>4 DEF Elems, Distinct
<1> QED
  BY <1>3, <1>4

\* front and pop_front split the queue's elements.
LEMMA TailElems ==
  ASSUME NEW S, NEW q \in Seq(S), q # <<>>
  PROVE  /\ Elems(q) = {Head(q)} \cup Elems(Tail(q))
         /\ Distinct(q) => Distinct(Tail(q)) /\ Head(q) \notin Elems(Tail(q))
         /\ Head(q) \in S
<1>1. /\ Len(q) \in Nat \ {0}
      /\ Len(Tail(q)) = Len(q) - 1
      /\ \A i \in 1..(Len(q) - 1) : Tail(q)[i] = q[i + 1]
      /\ Head(q) = q[1]
      /\ \A i \in 1..Len(q) : q[i] \in S
  OBVIOUS
<1>2. ASSUME NEW i \in 1..Len(q) PROVE q[i] \in {Head(q)} \cup Elems(Tail(q))
  <2>1. CASE i = 1
    BY <1>1, <2>1
  <2>2. CASE i # 1
    <3>1. i - 1 \in 1..Len(Tail(q)) /\ Tail(q)[i - 1] = q[i]
      BY <1>1, <2>2
    <3> QED
      BY <3>1 DEF Elems
  <2> QED
    BY <2>1, <2>2
<1>3. ASSUME NEW i \in 1..Len(Tail(q)) PROVE Tail(q)[i] \in Elems(q)
  <2>1. i + 1 \in 1..Len(q) /\ Tail(q)[i] = q[i + 1]
    BY <1>1
  <2> QED
    BY <2>1 DEF Elems
<1>4. Head(q) \in Elems(q)
  <2>1. 1 \in 1..Len(q)
    BY <1>1
  <2> QED
    BY <1>1, <2>1 DEF Elems
<1>5. ASSUME Distinct(q) PROVE Distinct(Tail(q)) /\ Head(q) \notin Elems(Tail(q))
  BY <1>1, <1>5 DEF Elems, Distinct
<1> QED
  BY <1>1, <1>2, <1>3, <1>4, <1>5 DEF Elems

-----------------------------------------------------------------------------
(* Types.                                                                  *)

\* The initial state has the declared types.
LEMMA InitType == Init => TypeOK
<1> SUFFICES ASSUME Init PROVE TypeOK
  OBVIOUS
<1> USE ThreadsDistinct DEF Init, Thread, ProducerPC, WorkerPC, PoolState
<1>1. \A p \in Producer : pc[p] = "out"
  OBVIOUS
<1>2. \A w \in Worker : pc[w] = "new"
  OBVIOUS
<1>3. pc \in [Thread -> ProducerPC \cup WorkerPC]
  OBVIOUS
<1>4. sockets \in Seq(Socket)
  OBVIOUS
<1> QED
  BY <1>1, <1>2, <1>3, <1>4 DEF TypeOK

\* Every step of every thread keeps the types of the state.
LEMMA StepType == TypeOK /\ [Next]_vars => TypeOK'
<1> SUFFICES ASSUME TypeOK, [Next]_vars PROVE TypeOK'
  OBVIOUS
<1> USE ThreadsDistinct, NoneIsNoSocket DEF TypeOK, Thread, ProducerPC, WorkerPC, PoolState
<1>1. ASSUME NEW p \in Producer, NEW s \in Socket, TryPush(p, s) PROVE TypeOK'
  <2>1. Append(sockets, s) \in Seq(Socket)
    OBVIOUS
  <2> QED
    BY <1>1, <2>1 DEF TryPush, Enqueue
<1>2. ASSUME NEW p \in Producer, NEW s \in Socket, CallPush(p, s) PROVE TypeOK'
  BY <1>2 DEF CallPush
<1>3. ASSUME NEW p \in Producer, PushTurn(p) PROVE TypeOK'
  <2>1. held[p] \in Socket /\ Append(sockets, held[p]) \in Seq(Socket)
    BY <1>3 DEF PushTurn
  <2>2. CASE Enqueue(p, held[p]) /\ held' = [held EXCEPT ![p] = None] /\ UNCHANGED notFull
    BY <1>3, <2>1, <2>2 DEF PushTurn, Enqueue
  <2>3. CASE pc' = [pc EXCEPT ![p] = "out"] /\ held' = [held EXCEPT ![p] = None]
             /\ unoffered' = unoffered \ {held[p]} /\ UNCHANGED <<sockets, notFull>>
    BY <1>3, <2>3 DEF PushTurn
  <2>4. CASE notFull' = notFull \cup {p} /\ UNCHANGED <<sockets, pc, held, unoffered>>
    BY <1>3, <2>4 DEF PushTurn
  <2> QED
    BY <1>3, <2>2, <2>3, <2>4 DEF PushTurn
<1>4. ASSUME NEW p \in Producer, NotifyNotEmpty(p) PROVE TypeOK'
  BY <1>4 DEF NotifyNotEmpty, NotifyOne
<1>5. ASSUME NEW p \in Producer, StopProducer(p) PROVE TypeOK'
  BY <1>5 DEF StopProducer
<1>6. ASSUME NEW w \in Worker, PopTurn(w) PROVE TypeOK'
  <2>1. CASE /\ sockets # <<>>
             /\ held' = [held EXCEPT ![w] = Head(sockets)]
             /\ sockets' = Tail(sockets)
             /\ pc' = [pc EXCEPT ![w] = "notify"]
             /\ UNCHANGED notEmpty
    <3>1. Head(sockets) \in Socket /\ Tail(sockets) \in Seq(Socket)
      BY <2>1
    <3> QED
      BY <1>6, <2>1, <3>1 DEF PopTurn
  <2>2. CASE pc' = [pc EXCEPT ![w] = "exit"] /\ UNCHANGED <<sockets, held, notEmpty>>
    BY <1>6, <2>2 DEF PopTurn
  <2>3. CASE notEmpty' = notEmpty \cup {w} /\ UNCHANGED <<sockets, pc, held>>
    BY <1>6, <2>3 DEF PopTurn
  <2> QED
    BY <1>6, <2>1, <2>2, <2>3 DEF PopTurn
<1>7. ASSUME NEW w \in Worker, NotifyNotFull(w) PROVE TypeOK'
  BY <1>7 DEF NotifyNotFull, NotifyOne
<1>8. ASSUME NEW w \in Worker, HandlerEnds(w) PROVE TypeOK'
  BY <1>8 DEF HandlerEnds
<1>9. ASSUME NEW w \in Worker, StartWorker(w) PROVE TypeOK'
  BY <1>9 DEF StartWorker
<1>10. ASSUME NEW t \in Thread, SpuriousWakeup(t) PROVE TypeOK'
  BY <1>10 DEF SpuriousWakeup
<1>11. CASE StartFails
  BY <1>11 DEF StartFails
<1>12. CASE Close
  BY <1>12 DEF Close
<1>13. CASE Join
  BY <1>13 DEF Join
<1>14. CASE UnwindDone
  BY <1>14 DEF UnwindDone
<1>15. ASSUME NEW w \in Worker, UnwindWorker(w) PROVE TypeOK'
  BY <1>15 DEF UnwindWorker, FireStop
<1>16. ASSUME NEW w \in Worker, RequestStop(w) PROVE TypeOK'
  BY <1>16 DEF RequestStop, FireStop
<1>17. CASE UNCHANGED vars
  BY <1>17 DEF vars
<1> QED
  BY <1>1, <1>2, <1>3, <1>4, <1>5, <1>6, <1>7, <1>8, <1>9, <1>10, <1>11,
     <1>12, <1>13, <1>14, <1>15, <1>16, <1>17
     DEF Next, ProducerStep, WorkerStep, PoolStep

\* The state keeps its types in every behaviour of the queue and the pool.
THEOREM TypeCorrect == Spec => []TypeOK
  BY InitType, StepType, PTL DEF Spec
-----------------------------------------------------------------------------
(* The life cycle: what the queue, the pool and the threads' positions say *)
(* about each other.                                                       *)

\* A queue is closed exactly when its pool is being stopped; nothing is
\* queued or pushed before the pool runs; a worker returns only from an
\* empty queue, and is told to stop only by a pool that is going away.
Lifecycle ==
    /\ closed <=> pool \in {"stopping", "joined"}
    /\ Len(sockets) <= Capacity
    /\ InService \/ sockets = <<>>
    /\ \A p \in Producer : pc[p] = "out" \/ InService
    /\ \A w \in Worker : w \in stop => pool \notin {"starting", "running"}
    /\ \A w \in Worker : pc[w] = "exit" =>
          sockets = <<>> /\ pool \notin {"starting", "running"}

\* The life cycle holds initially.
LEMMA InitLifecycle == Init => Lifecycle
  BY ThreadsDistinct, CapacityPositive DEF Init, Lifecycle, InService, Thread

\* Every step keeps the life cycle.
LEMMA StepLifecycle == TypeOK /\ Lifecycle /\ [Next]_vars => Lifecycle'
<1> SUFFICES ASSUME TypeOK, Lifecycle, [Next]_vars PROVE Lifecycle'
  OBVIOUS
<1> USE ThreadsDistinct, CapacityPositive DEF TypeOK, Thread, PoolState, Lifecycle, InService
<1>1. ASSUME NEW p \in Producer, NEW s \in Socket, TryPush(p, s) PROVE Lifecycle'
  <2>1. CASE UNCHANGED <<sockets, pc>>
    BY <1>1, <2>1 DEF TryPush
  <2>2. CASE ~closed /\ Len(sockets) < Capacity /\ Enqueue(p, s)
    <3>1. Len(sockets') = Len(sockets) + 1
      BY <2>2 DEF Enqueue
    <3> QED
      BY <1>1, <2>2, <3>1 DEF TryPush, Enqueue
  <2> QED
    BY <1>1, <2>1, <2>2 DEF TryPush
<1>2. ASSUME NEW p \in Producer, NEW s \in Socket, CallPush(p, s) PROVE Lifecycle'
  BY <1>2 DEF CallPush
<1>3. ASSUME NEW p \in Producer, PushTurn(p) PROVE Lifecycle'
  <2>1. CASE PushReady /\ ~closed /\ Enqueue(p, held[p])
    <3>1. Len(sockets') = Len(sockets) + 1
      BY <1>3, <2>1 DEF Enqueue, PushTurn
    <3> QED
      BY <1>3, <2>1, <3>1 DEF PushTurn, Enqueue, PushReady
  <2>2. CASE pc' = [pc EXCEPT ![p] = "out"] /\ UNCHANGED sockets
    BY <1>3, <2>2 DEF PushTurn
  <2>3. CASE UNCHANGED <<sockets, pc>>
    BY <1>3, <2>3 DEF PushTurn
  <2> QED
    BY <1>3, <2>1, <2>2, <2>3 DEF PushTurn
<1>4. ASSUME NEW p \in Producer, NotifyNotEmpty(p) PROVE Lifecycle'
  BY <1>4 DEF NotifyNotEmpty
<1>5. ASSUME NEW p \in Producer, StopProducer(p) PROVE Lifecycle'
  BY <1>5 DEF StopProducer
<1>6. ASSUME NEW w \in Worker, PopTurn(w) PROVE Lifecycle'
  <2>1. CASE sockets # <<>> /\ sockets' = Tail(sockets) /\ pc' = [pc EXCEPT ![w] = "notify"]
    <3>1. Len(sockets') <= Capacity
      BY <2>1
    <3>2. InService' /\ \A v \in Worker : pc'[v] # "exit"
      BY <1>6, <2>1 DEF PopTurn
    <3> QED
      BY <1>6, <2>1, <3>1, <3>2 DEF PopTurn
  <2>2. CASE /\ sockets = <<>> /\ (PopReady \/ w \in stop)
             /\ pc' = [pc EXCEPT ![w] = "exit"] /\ UNCHANGED sockets
    BY <1>6, <2>2 DEF PopTurn, PopReady
  <2>3. CASE UNCHANGED <<sockets, pc>>
    BY <1>6, <2>3 DEF PopTurn
  <2> QED
    BY <1>6, <2>1, <2>2, <2>3 DEF PopTurn
<1>7. ASSUME NEW w \in Worker, NotifyNotFull(w) PROVE Lifecycle'
  BY <1>7 DEF NotifyNotFull
<1>8. ASSUME NEW w \in Worker, HandlerEnds(w) PROVE Lifecycle'
  BY <1>8 DEF HandlerEnds
<1>9. ASSUME NEW w \in Worker, StartWorker(w) PROVE Lifecycle'
  BY <1>9 DEF StartWorker
<1>10. ASSUME NEW t \in Thread, SpuriousWakeup(t) PROVE Lifecycle'
  BY <1>10 DEF SpuriousWakeup
<1>11. CASE StartFails
  BY <1>11 DEF StartFails
<1>12. CASE Close
  BY <1>12 DEF Close
<1>13. CASE Join
  BY <1>13 DEF Join
<1>14. CASE UnwindDone
  BY <1>14 DEF UnwindDone
<1>15. ASSUME NEW w \in Worker, UnwindWorker(w) PROVE Lifecycle'
  BY <1>15 DEF UnwindWorker, FireStop
<1>16. ASSUME NEW w \in Worker, RequestStop(w) PROVE Lifecycle'
  BY <1>16 DEF RequestStop, FireStop
<1>17. CASE UNCHANGED vars
  BY <1>17 DEF vars
<1> QED
  BY <1>1, <1>2, <1>3, <1>4, <1>5, <1>6, <1>7, <1>8, <1>9, <1>10, <1>11,
     <1>12, <1>13, <1>14, <1>15, <1>16, <1>17
     DEF Next, ProducerStep, WorkerStep, PoolStep

\* The life cycle is an invariant.
LEMMA LifecycleInvariant == Spec => [](TypeOK /\ Lifecycle)
  BY InitType, StepType, InitLifecycle, StepLifecycle, PTL DEF Spec

\* run_worker returns only from a queue that is empty, and closed unless
\* the pool's constructor is being unwound: no accepted socket is stranded.
THEOREM NothingIsStranded == Spec => []LeavesNothingBehind
<1>1. TypeOK /\ Lifecycle => LeavesNothingBehind
  BY DEF TypeOK, Lifecycle, LeavesNothingBehind, PoolState
<1> QED
  BY <1>1, LifecycleInvariant, PTL
\* close() is final: a closed queue stays closed and only shrinks.
THEOREM CloseIsFinal == Spec => ClosedStaysClosed
<1>1. TypeOK /\ Lifecycle /\ [Next]_vars
        => [closed => closed' /\ Len(sockets') <= Len(sockets)]_vars
  <2> SUFFICES ASSUME TypeOK, Lifecycle, [Next]_vars, closed
               PROVE  closed' /\ Len(sockets') <= Len(sockets)
    OBVIOUS
  <2>1. CASE UNCHANGED <<sockets, closed>>
    BY <2>1 DEF TypeOK
  <2>2. ASSUME NEW w \in Worker, PopTurn(w) PROVE closed' /\ Len(sockets') <= Len(sockets)
    BY <2>2 DEF PopTurn, TypeOK
  <2>3. CASE Close
    BY <2>3 DEF Close, TypeOK
  <2>4. ASSUME NEW p \in Producer, NEW s \in Socket, TryPush(p, s) PROVE UNCHANGED <<sockets, closed>>
    BY <2>4 DEF TryPush
  <2>5. ASSUME NEW p \in Producer, PushTurn(p) PROVE UNCHANGED <<sockets, closed>>
    BY <2>5 DEF PushTurn, PushReady
  <2> QED
    BY <2>1, <2>2, <2>3, <2>4, <2>5
       DEF Next, ProducerStep, WorkerStep, PoolStep, CallPush, NotifyNotEmpty, StopProducer,
           NotifyNotFull, HandlerEnds, StartWorker, SpuriousWakeup, StartFails, Join,
           UnwindDone, UnwindWorker, RequestStop, vars
<1> QED
  BY <1>1, LifecycleInvariant, PTL DEF Spec, ClosedStaysClosed

-----------------------------------------------------------------------------
(* Ownership.                                                              *)

\* A producer outside push holds no socket of its own.
Producing == \A p \in Producer : pc[p] # "push" => held[p] = None

\* Every step keeps Producing.
LEMMA StepProducing == TypeOK /\ Producing /\ [Next]_vars => Producing'
<1> SUFFICES ASSUME TypeOK, Producing, [Next]_vars PROVE Producing'
  OBVIOUS
<1> USE ThreadsDistinct DEF TypeOK, Thread, Producing
<1>1. ASSUME NEW p \in Producer, NEW s \in Socket, TryPush(p, s) PROVE Producing'
  BY <1>1 DEF TryPush, Enqueue
<1>2. ASSUME NEW p \in Producer, NEW s \in Socket, CallPush(p, s) PROVE Producing'
  BY <1>2 DEF CallPush
<1>3. ASSUME NEW p \in Producer, PushTurn(p) PROVE Producing'
  <2>1. CASE held' = [held EXCEPT ![p] = None] /\ (\E x : pc' = [pc EXCEPT ![p] = x])
    BY <2>1
  <2>2. CASE UNCHANGED <<pc, held>>
    BY <2>2
  <2> QED
    BY <1>3, <2>1, <2>2 DEF PushTurn, Enqueue
<1>4. ASSUME NEW p \in Producer, NotifyNotEmpty(p) PROVE Producing'
  BY <1>4 DEF NotifyNotEmpty
<1>5. ASSUME NEW w \in Worker, WorkerStep(w) \/ HandlerEnds(w) \/ StartWorker(w) PROVE Producing'
  <2>1. \A p \in Producer : pc'[p] = pc[p] /\ held'[p] = held[p]
    BY <1>5 DEF WorkerStep, PopTurn, NotifyNotFull, HandlerEnds, StartWorker
  <2> QED
    BY <2>1
<1>6. CASE UNCHANGED <<pc, held>>
  BY <1>6
<1> QED
  BY <1>1, <1>2, <1>3, <1>4, <1>5, <1>6
     DEF Next, ProducerStep, PoolStep, StopProducer, SpuriousWakeup, StartFails,
         Close, Join, UnwindDone, UnwindWorker, RequestStop, vars

\* Nobody but the callers owns a socket initially.
LEMMA InitOwner == Init => OneOwner
  BY NoneIsNoSocket DEF Init, OneOwner, Queued, Thread

\* A step that moves no socket keeps its owner.
LEMMA OwnerUnmoved ==
  OneOwner /\ UNCHANGED <<sockets, held, unoffered>> => OneOwner'
  BY DEF OneOwner, Queued

\* A caller's socket that is queued leaves the caller.
LEMMA OwnerEnqueued ==
  ASSUME TypeOK, OneOwner, NEW p \in Producer, NEW s \in unoffered,
         \A q \in Producer \ {p} : held[q] # s,
         held[p] \in {s, None}, held' = [held EXCEPT ![p] = None],
         sockets' = Append(sockets, s), unoffered' = unoffered \ {s}
  PROVE  OneOwner'
<1> USE DEF TypeOK, Thread
<1>1. sockets \in Seq(Socket) /\ s \in Socket /\ s # None
  BY NoneIsNoSocket
<1>2. Queued = Elems(sockets) /\ Queued' = Elems(sockets')
  BY DEF Queued, Elems
<1>3. s \notin Elems(sockets)
  BY <1>2 DEF OneOwner
<1>4. Queued' = Queued \cup {s} /\ Distinct(sockets')
  BY <1>1, <1>2, <1>3, AppendElems DEF OneOwner, Distinct
<1>5. \A q \in Producer : held'[q] # None => held'[q] = held[q] /\ held[q] # s
  BY <1>1
<1>6. \A w \in Worker : held'[w] = held[w]
  BY ThreadsDistinct
<1>7. \A t, u \in Thread : held'[t] = held'[u] /\ held'[t] # None => t = u
  BY DEF OneOwner
<1>8. Queued' \cap unoffered' = {}
  BY <1>4 DEF OneOwner
<1>9. \A w \in Worker : held'[w] \notin Queued' \cup unoffered'
  BY <1>4, <1>6 DEF OneOwner
<1> QED
  BY <1>4, <1>5, <1>7, <1>8, <1>9 DEF OneOwner, Distinct

\* A caller's socket that is refused is destroyed.
LEMMA OwnerRefused ==
  ASSUME TypeOK, OneOwner, NEW p \in Producer, NEW s \in unoffered,
         \A q \in Producer \ {p} : held[q] # s,
         held[p] \in {s, None}, held' = [held EXCEPT ![p] = None],
         sockets' = sockets, unoffered' = unoffered \ {s}
  PROVE  OneOwner'
  BY ThreadsDistinct DEF TypeOK, Thread, OneOwner, Queued

\* pop moves the oldest socket from the queue to the worker.
LEMMA OwnerPopped ==
  ASSUME TypeOK, OneOwner, NEW w \in Worker, sockets # <<>>, UNCHANGED unoffered,
         held' = [held EXCEPT ![w] = Head(sockets)], sockets' = Tail(sockets)
  PROVE  OneOwner'
<1> USE DEF TypeOK, Thread
<1>1. Queued = Elems(sockets) /\ Queued' = Elems(sockets')
  BY DEF Queued, Elems
<1>2. /\ Queued = {Head(sockets)} \cup Queued'
      /\ Distinct(sockets') /\ Head(sockets) \notin Queued'
      /\ Head(sockets) \in Socket
  BY <1>1, TailElems DEF OneOwner, Distinct
<1>3. \A t \in Thread : held[t] # Head(sockets)
  BY <1>2, NoneIsNoSocket DEF OneOwner
<1>4. held'[w] = Head(sockets) /\ \A t \in Thread \ {w} : held'[t] = held[t]
  OBVIOUS
<1>5. \A t, u \in Thread : held'[t] = held'[u] /\ held'[t] # None => t = u
  BY <1>3, <1>4 DEF OneOwner
<1>6. \A p \in Producer : held'[p] # None => held'[p] \in unoffered'
  BY <1>4, ThreadsDistinct DEF OneOwner
<1>7. Queued' \cap unoffered' = {}
  BY <1>2 DEF OneOwner
<1>8. \A v \in Worker : held'[v] \notin Queued' \cup unoffered'
  BY <1>2, <1>4 DEF OneOwner
<1> QED
  BY <1>2, <1>5, <1>6, <1>7, <1>8 DEF OneOwner, Distinct

\* Every step keeps one owner per socket.
LEMMA StepOwner == TypeOK /\ Producing /\ OneOwner /\ [Next]_vars => OneOwner'
<1> SUFFICES ASSUME TypeOK, Producing, OneOwner, [Next]_vars PROVE OneOwner'
  OBVIOUS
<1>1. ASSUME NEW p \in Producer, NEW s \in Socket, TryPush(p, s) PROVE OneOwner'
  <2>1. held[p] = None /\ held' = [held EXCEPT ![p] = None]
    BY <1>1 DEF TryPush, Producing, TypeOK, Thread
  <2>2. s \in unoffered /\ (\A q \in Producer \ {p} : held[q] # s) /\ unoffered' = unoffered \ {s}
    BY <1>1 DEF TryPush, Enqueue
  <2>3. sockets' = sockets \/ sockets' = Append(sockets, s)
    BY <1>1 DEF TryPush, Enqueue
  <2> QED
    BY <2>1, <2>2, <2>3, OwnerEnqueued, OwnerRefused
<1>2. ASSUME NEW p \in Producer, NEW s \in Socket, CallPush(p, s) PROVE OneOwner'
  BY <1>2, ThreadsDistinct DEF CallPush, TypeOK, Thread, OneOwner, Queued
<1>3. ASSUME NEW p \in Producer, PushTurn(p) PROVE OneOwner'
  <2>1. held[p] \in unoffered /\ \A q \in Producer \ {p} : held[q] # held[p]
    BY <1>3, NoneIsNoSocket DEF PushTurn, OneOwner, TypeOK, Thread
  <2>2. CASE UNCHANGED <<sockets, held, unoffered>>
    BY <2>2, OwnerUnmoved
  <2>3. CASE /\ held' = [held EXCEPT ![p] = None] /\ unoffered' = unoffered \ {held[p]}
             /\ sockets' = sockets \/ sockets' = Append(sockets, held[p])
    BY <2>1, <2>3, OwnerEnqueued, OwnerRefused
  <2> QED
    BY <1>3, <2>2, <2>3 DEF PushTurn, Enqueue
<1>4. ASSUME NEW w \in Worker, PopTurn(w) PROVE OneOwner'
  BY <1>4, OwnerPopped, OwnerUnmoved DEF PopTurn
<1>5. ASSUME NEW w \in Worker, HandlerEnds(w) PROVE OneOwner'
  <2>1. None \notin Queued \cup unoffered
    BY NoneIsNoSocket DEF Queued, TypeOK
  <2> QED
    BY <1>5, <2>1, ThreadsDistinct DEF HandlerEnds, TypeOK, Thread, OneOwner, Queued
<1>6. CASE UNCHANGED <<sockets, held, unoffered>>
  BY <1>6, OwnerUnmoved
<1> QED
  BY <1>1, <1>2, <1>3, <1>4, <1>5, <1>6
     DEF Next, ProducerStep, WorkerStep, PoolStep, NotifyNotEmpty, StopProducer,
         NotifyNotFull, StartWorker, SpuriousWakeup, StartFails, Close, Join,
         UnwindDone, UnwindWorker, RequestStop, vars

\* Types, life cycle and ownership together.
OwnerInv == TypeOK /\ Lifecycle /\ Producing /\ OneOwner

\* OwnerInv is inductive.
LEMMA OwnerInvariant == Spec => []OwnerInv
<1>1. Init => OwnerInv
  BY InitType, InitLifecycle, InitOwner DEF OwnerInv, Init, Producing, Thread
<1>2. OwnerInv /\ [Next]_vars => OwnerInv'
  BY StepType, StepLifecycle, StepProducing, StepOwner DEF OwnerInv
<1> QED
  BY <1>1, <1>2, PTL DEF Spec

\* A socket is in one place at a time in every behaviour.
THEOREM Ownership == Spec => []OneOwner
<1>1. OwnerInv => OneOwner
  BY DEF OwnerInv
<1> QED
  BY <1>1, OwnerInvariant, PTL
-----------------------------------------------------------------------------
(* Refinement: the queue and the pool implement Handoff.                   *)

Open == ~closed /\ pool \notin {"unwinding", "aborted"}
ServingMap == [w \in Worker |-> Serving(w)]

\* What a step that touches one worker's position does to the mapped state.
LEMMA ServingMoves ==
  ASSUME TypeOK, TypeOK', NEW w \in Worker,
         \A v \in Worker \ {w} : pc'[v] = pc[v] /\ held'[v] = held[v]
  PROVE  ServingMap' = [ServingMap EXCEPT ![w] = Serving(w)']
  BY DEF ServingMap, Serving

\* A step that touches no worker does not move the mapped state.
LEMMA ServingStays ==
  ASSUME \A v \in Worker : pc'[v] = pc[v] /\ held'[v] = held[v]
  PROVE  ServingMap' = ServingMap
  BY DEF ServingMap, Serving

\* A fresh queue and pool are a fresh hand-off.
LEMMA InitHandoff == Init => H!HInit
  BY ThreadsDistinct DEF Init, H!HInit, Serving, Thread

\* Every step of every thread is a step of the hand-off or invisible to it.
LEMMA StepHandoff == OwnerInv /\ TypeOK' /\ [Next]_vars => [H!HNext]_(H!hvars)
<1> SUFFICES ASSUME OwnerInv, TypeOK', [Next]_vars
             PROVE  H!HNext \/ UNCHANGED H!hvars
  OBVIOUS
<1> USE ThreadsDistinct
<1>0. TypeOK /\ Lifecycle /\ Producing /\ OneOwner
  BY DEF OwnerInv
<1>a. ASSUME NEW s \in Socket, s \in unoffered, Open, Len(sockets) < Capacity,
             sockets' = Append(sockets, s), unoffered' = unoffered \ {s},
             Open' = Open, ServingMap' = ServingMap
      PROVE  H!HNext
  <2>1. H!HTake(s)
    BY <1>a DEF H!HTake, Open, ServingMap
  <2> QED
    BY <2>1 DEF H!HNext
<1>b. ASSUME NEW s \in Socket, s \in unoffered, ~Open \/ Len(sockets) = Capacity,
             unoffered' = unoffered \ {s}, sockets' = sockets,
             Open' = Open, ServingMap' = ServingMap
      PROVE  H!HNext
  <2>1. H!HRefuse(s)
    BY <1>b DEF H!HRefuse, Open, ServingMap
  <2> QED
    BY <2>1 DEF H!HNext
<1>c. ASSUME UNCHANGED <<sockets, Open, unoffered>>, ServingMap' = ServingMap
      PROVE  UNCHANGED H!hvars
  BY <1>c DEF H!hvars, Open, ServingMap
<1>1. ASSUME NEW p \in Producer, NEW s \in Socket, TryPush(p, s) PROVE H!HNext
  <2>1. Open' = Open /\ ServingMap' = ServingMap
    <3>1. \A v \in Worker : pc'[v] = pc[v] /\ held'[v] = held[v]
      BY <1>0, <1>1 DEF TryPush, Enqueue, TypeOK, Thread
    <3> QED
      BY <1>1, <3>1, ServingStays DEF TryPush, Open
  <2>2. CASE closed \/ Len(sockets) >= Capacity
    <3>1. ~Open \/ Len(sockets) = Capacity
      BY <1>0, <2>2, CapacityPositive DEF Lifecycle, Open, TypeOK
    <3>2. sockets' = sockets /\ unoffered' = unoffered \ {s} /\ s \in unoffered
      BY <1>0, <1>1, <2>2, CapacityPositive DEF TryPush, TypeOK
    <3> QED
      BY <1>b, <2>1, <3>1, <3>2
  <2>3. CASE ~(closed \/ Len(sockets) >= Capacity)
    <3>1. Open
      BY <1>1, <2>3 DEF TryPush, InService, Open
    <3> QED
      BY <1>a, <1>1, <2>1, <2>3, <3>1 DEF TryPush, Enqueue
  <2> QED
    BY <2>2, <2>3
<1>2. ASSUME NEW p \in Producer, NEW s \in Socket, CallPush(p, s) PROVE UNCHANGED H!hvars
  <2>1. \A v \in Worker : pc'[v] = pc[v] /\ held'[v] = held[v]
    BY <1>0, <1>2 DEF CallPush, TypeOK, Thread
  <2> QED
    BY <1>2, <1>c, <2>1, ServingStays DEF CallPush, Open
<1>3. ASSUME NEW p \in Producer, PushTurn(p) PROVE H!HNext \/ UNCHANGED H!hvars
  <2>1. Open' = Open /\ ServingMap' = ServingMap
    <3>1. \A v \in Worker : pc'[v] = pc[v] /\ held'[v] = held[v]
      BY <1>0, <1>3 DEF PushTurn, Enqueue, TypeOK, Thread
    <3> QED
      BY <1>3, <3>1, ServingStays DEF PushTurn, Open
  <2>2. held[p] \in unoffered /\ held[p] \in Socket
    BY <1>0, <1>3, NoneIsNoSocket DEF PushTurn, OneOwner, TypeOK, Thread
  <2>3. CASE PushReady /\ ~closed /\ Enqueue(p, held[p])
    <3>1. Open
      BY <1>0, <1>3, <2>3 DEF PushTurn, Lifecycle, InService, Open
    <3> QED
      BY <1>a, <2>1, <2>2, <2>3, <3>1 DEF PushReady, Enqueue
  <2>4. CASE /\ closed \/ (~PushReady /\ p \in stop)
             /\ unoffered' = unoffered \ {held[p]} /\ UNCHANGED sockets
    <3>1. ~Open \/ Len(sockets) = Capacity
      BY <1>0, <2>4, CapacityPositive DEF PushReady, Lifecycle, Open, TypeOK
    <3> QED
      BY <1>b, <2>1, <2>2, <2>4, <3>1
  <2>5. CASE UNCHANGED <<sockets, pc, held, unoffered>>
    BY <1>c, <2>1, <2>5
  <2> QED
    BY <1>3, <2>3, <2>4, <2>5 DEF PushTurn
<1>4. ASSUME NEW p \in Producer, NotifyNotEmpty(p) PROVE UNCHANGED H!hvars
  <2>1. \A v \in Worker : pc'[v] = pc[v] /\ held'[v] = held[v]
    BY <1>0, <1>4 DEF NotifyNotEmpty, TypeOK, Thread
  <2> QED
    BY <1>4, <1>c, <2>1, ServingStays DEF NotifyNotEmpty, Open
<1>5. ASSUME NEW w \in Worker, PopTurn(w) PROVE H!HNext \/ UNCHANGED H!hvars
  <2>1. Open' = Open /\ unoffered' = unoffered /\ ServingMap[w] = "idle"
    BY <1>5 DEF PopTurn, Open, ServingMap, Serving
  <2>2. ServingMap' = [ServingMap EXCEPT ![w] = Serving(w)']
    <3>1. \A v \in Worker \ {w} : pc'[v] = pc[v] /\ held'[v] = held[v]
      BY <1>0, <1>5 DEF PopTurn, TypeOK, Thread
    <3> QED
      BY <1>0, <3>1, ServingMoves
  <2>3. CASE /\ sockets # <<>>
             /\ held' = [held EXCEPT ![w] = Head(sockets)]
             /\ sockets' = Tail(sockets)
             /\ pc' = [pc EXCEPT ![w] = "notify"]
    <3>1. Serving(w)' = Head(sockets)
      BY <1>0, <2>3 DEF Serving, TypeOK, Thread
    <3>2. H!HServe(w)
      BY <2>1, <2>2, <2>3, <3>1 DEF H!HServe, Open, ServingMap
    <3> QED
      BY <3>2 DEF H!HNext
  <2>4. CASE /\ sockets = <<>>
             /\ PopReady \/ w \in stop
             /\ pc' = [pc EXCEPT ![w] = "exit"]
             /\ UNCHANGED <<sockets, held, notEmpty>>
    <3>1. Serving(w)' = "gone"
      BY <1>0, <2>4 DEF Serving, TypeOK, Thread
    <3>2. ~Open
      BY <1>0, <2>4 DEF Lifecycle, Open, PopReady, TypeOK, PoolState
    <3>3. H!HLeave(w)
      BY <2>1, <2>2, <2>4, <3>1, <3>2 DEF H!HLeave, Open, ServingMap
    <3> QED
      BY <3>3 DEF H!HNext
  <2>5. CASE UNCHANGED <<sockets, pc, held>>
    BY <1>c, <2>1, <2>5, ServingStays
  <2> QED
    BY <1>5, <2>3, <2>4, <2>5 DEF PopTurn
<1>6. ASSUME NEW w \in Worker, NotifyNotFull(w) PROVE UNCHANGED H!hvars
  <2>1. /\ held' = held /\ pc'[w] = "handle"
        /\ \A v \in Worker \ {w} : pc'[v] = pc[v]
    BY <1>0, <1>6 DEF NotifyNotFull, TypeOK, Thread
  <2>2. ServingMap' = ServingMap
    BY <1>6, <2>1 DEF NotifyNotFull, ServingMap, Serving
  <2> QED
    BY <1>6, <1>c, <2>2 DEF NotifyNotFull, Open
<1>7. ASSUME NEW w \in Worker, HandlerEnds(w) PROVE H!HNext
  <2>1. /\ pc'[w] = "pop"
        /\ \A v \in Worker \ {w} : pc'[v] = pc[v] /\ held'[v] = held[v]
    BY <1>0, <1>7 DEF HandlerEnds, TypeOK, Thread
  <2>2. ServingMap' = [ServingMap EXCEPT ![w] = "idle"]
    <3>1. Serving(w)' = "idle"
      BY <2>1 DEF Serving
    <3> QED
      BY <1>0, <2>1, <3>1, ServingMoves
  <2>3. ServingMap[w] \in Socket
    BY <1>0, <1>7 DEF HandlerEnds, ServingMap, Serving, TypeOK
  <2>4. H!HFinish(w)
    BY <1>7, <2>2, <2>3 DEF H!HFinish, HandlerEnds, ServingMap, Open
  <2> QED
    BY <2>4 DEF H!HNext
<1>8. ASSUME NEW w \in Worker, StartWorker(w) PROVE H!HNext
  <2>1. /\ pc'[w] = "pop"
        /\ \A v \in Worker \ {w} : pc'[v] = pc[v] /\ held'[v] = held[v]
    BY <1>0, <1>8 DEF StartWorker, TypeOK, Thread
  <2>2. ServingMap' = [ServingMap EXCEPT ![w] = "idle"] /\ ServingMap[w] = "off"
    <3>1. Serving(w)' = "idle" /\ Serving(w) = "off"
      BY <1>8, <2>1 DEF Serving, StartWorker
    <3> QED
      BY <1>0, <2>1, <3>1, ServingMoves DEF ServingMap
  <2>3. H!HEnter(w)
    BY <1>8, <2>2 DEF H!HEnter, StartWorker, ServingMap
  <2> QED
    BY <2>3 DEF H!HNext
<1>9. ASSUME UNCHANGED <<sockets, pc, held, unoffered>>, Open' = Open
      PROVE  UNCHANGED H!hvars
  BY <1>c, <1>9, ServingStays
<1>10. CASE StartFails \/ Close
  <2>1. Open /\ ~Open'
    BY <1>0, <1>10 DEF StartFails, Close, Lifecycle, Open
  <2>2. UNCHANGED <<sockets, unoffered>> /\ ServingMap' = ServingMap
    BY <1>10, ServingStays DEF StartFails, Close
  <2>3. H!HShut
    BY <2>1, <2>2 DEF H!HShut, Open, ServingMap
  <2> QED
    BY <2>3 DEF H!HNext
<1>11. ASSUME NEW p \in Producer, StopProducer(p) PROVE UNCHANGED H!hvars
  BY <1>9, <1>11 DEF StopProducer, Open
<1>12. ASSUME NEW t \in Thread, SpuriousWakeup(t) PROVE UNCHANGED H!hvars
  BY <1>9, <1>12 DEF SpuriousWakeup, Open
<1>13. CASE PoolStep
  BY <1>9, <1>13 DEF PoolStep, Join, UnwindDone, UnwindWorker, RequestStop, Open
<1>14. CASE UNCHANGED vars
  BY <1>9, <1>14 DEF vars, Open
<1> QED
  BY <1>1, <1>2, <1>3, <1>4, <1>5, <1>6, <1>7, <1>8, <1>10, <1>11, <1>12, <1>13, <1>14
     DEF Next, ProducerStep, WorkerStep

\* The queue and the pool, at the granularity of the mutex and the condition
\* variables, implement the bounded FIFO hand-off.
THEOREM QueueImplementsHandoff == Spec => ImplementsHandoff
<1>1. OwnerInv => TypeOK
  BY DEF OwnerInv
<1> QED
  BY <1>1, InitHandoff, StepHandoff, OwnerInvariant, PTL DEF Spec, ImplementsHandoff, H!HSpec

-----------------------------------------------------------------------------
(* No wake-up is lost.                                                     *)
(*                                                                         *)
(* The argument is a count.  A worker asleep in _not_empty missed nothing  *)
(* as long as the queued sockets do not outnumber the notify_one calls     *)
(* still to come and the workers already awake: a push adds one socket and *)
(* one call, a call turns into one awake worker, and an awake worker takes *)
(* one socket away with itself.  The same count, with free places in the   *)
(* role of queued sockets, holds for producers asleep in _not_full.        *)

\* Sleepers are where they went to sleep, and a closed queue has none.
Sleepers ==
    /\ \A w \in notEmpty : pc[w] = "pop"
    /\ \A p \in notFull : pc[p] = "push"
    /\ closed => notEmpty = {} /\ notFull = {}

\* Every step keeps Sleepers.
LEMMA StepSleepers == TypeOK /\ Sleepers /\ [Next]_vars => Sleepers'
<1> SUFFICES ASSUME TypeOK, Sleepers, [Next]_vars PROVE Sleepers'
  OBVIOUS
<1> USE ThreadsDistinct DEF TypeOK, Thread, Sleepers
<1>1. ASSUME NEW p \in Producer, NEW s \in Socket, TryPush(p, s) PROVE Sleepers'
  BY <1>1 DEF TryPush, Enqueue
<1>2. ASSUME NEW p \in Producer, NEW s \in Socket, CallPush(p, s) PROVE Sleepers'
  BY <1>2 DEF CallPush
<1>3. ASSUME NEW p \in Producer, PushTurn(p) PROVE Sleepers'
  <2>1. CASE UNCHANGED notFull /\ (\E x \in ProducerPC : pc' = [pc EXCEPT ![p] = x])
    BY <1>3, <2>1 DEF PushTurn
  <2>2. CASE ~PushReady /\ notFull' = notFull \cup {p} /\ UNCHANGED pc
    BY <1>3, <2>2 DEF PushTurn, PushReady
  <2> QED
    BY <1>3, <2>1, <2>2 DEF PushTurn, Enqueue, ProducerPC
<1>4. ASSUME NEW p \in Producer, NotifyNotEmpty(p) PROVE Sleepers'
  BY <1>4 DEF NotifyNotEmpty, NotifyOne
<1>5. ASSUME NEW p \in Producer, StopProducer(p) PROVE Sleepers'
  BY <1>5 DEF StopProducer
<1>6. ASSUME NEW w \in Worker, PopTurn(w) PROVE Sleepers'
  <2>1. CASE UNCHANGED notEmpty /\ (\E x \in WorkerPC : pc' = [pc EXCEPT ![w] = x])
    BY <1>6, <2>1 DEF PopTurn
  <2>2. CASE ~PopReady /\ notEmpty' = notEmpty \cup {w} /\ UNCHANGED pc
    BY <1>6, <2>2 DEF PopTurn, PopReady
  <2> QED
    BY <1>6, <2>1, <2>2 DEF PopTurn, WorkerPC
<1>7. ASSUME NEW w \in Worker, NotifyNotFull(w) PROVE Sleepers'
  BY <1>7 DEF NotifyNotFull, NotifyOne
<1>8. ASSUME NEW w \in Worker, HandlerEnds(w) PROVE Sleepers'
  BY <1>8 DEF HandlerEnds
<1>9. ASSUME NEW w \in Worker, StartWorker(w) PROVE Sleepers'
  BY <1>9 DEF StartWorker
<1>10. ASSUME NEW t \in Thread, SpuriousWakeup(t) PROVE Sleepers'
  BY <1>10 DEF SpuriousWakeup
<1>11. CASE Close
  BY <1>11 DEF Close
<1>12. ASSUME NEW w \in Worker, UnwindWorker(w) \/ RequestStop(w) PROVE Sleepers'
  BY <1>12 DEF UnwindWorker, RequestStop, FireStop
<1>13. CASE UNCHANGED <<closed, waitVars, pc>>
  BY <1>13
<1> QED
  BY <1>1, <1>2, <1>3, <1>4, <1>5, <1>6, <1>7, <1>8, <1>9, <1>10, <1>11, <1>12, <1>13
     DEF Next, ProducerStep, WorkerStep, PoolStep, StartFails, Join, UnwindDone, vars

-----------------------------------------------------------------------------
(* Counting.                                                               *)

\* One element more counts one more.
LEMMA CountAdd ==
  ASSUME NEW S, IsFiniteSet(S), NEW x, x \notin S
  PROVE  Cardinality(S) \in Nat /\ Cardinality(S \cup {x}) = Cardinality(S) + 1
  BY FS_AddElement, FS_CardinalityType

\* A larger finite set counts at least as much.
LEMMA CountGrows ==
  ASSUME NEW S, NEW T, IsFiniteSet(T), S \subseteq T
  PROVE  Cardinality(S) \in Nat /\ Cardinality(T) \in Nat /\ Cardinality(S) <= Cardinality(T)
  BY FS_Subset, FS_CardinalityType

\* The four sets that are counted are finite.
LEMMA CountedFinite ==
  /\ IsFiniteSet(Notifiers) /\ IsFiniteSet(AwakePoppers)
  /\ IsFiniteSet(Poppers) /\ IsFiniteSet(AwakePushers)
<1>1. Notifiers \subseteq Producer /\ AwakePushers \subseteq Producer
  BY DEF Notifiers, AwakePushers
<1>2. Poppers \subseteq Worker /\ AwakePoppers \subseteq Worker
  BY DEF Poppers, AwakePoppers
<1> QED
  BY <1>1, <1>2, FS_Subset, WorkersFinite, ProducersFinite

\* So are they after a step.
LEMMA CountedFiniteNext ==
  /\ IsFiniteSet(Notifiers') /\ IsFiniteSet(AwakePoppers')
  /\ IsFiniteSet(Poppers') /\ IsFiniteSet(AwakePushers')
<1>1. Notifiers' \subseteq Producer /\ AwakePushers' \subseteq Producer
  BY DEF Notifiers, AwakePushers
<1>2. Poppers' \subseteq Worker /\ AwakePoppers' \subseteq Worker
  BY DEF Poppers, AwakePoppers
<1> QED
  BY <1>1, <1>2, FS_Subset, WorkersFinite, ProducersFinite

-----------------------------------------------------------------------------
(* Workers.                                                                *)

\* A step that adds no socket, puts nobody to sleep and takes neither a
\* pending notification nor an awake worker away forgets no worker.
LEMMA WorkersKept ==
  ASSUME TypeOK, WorkersNotForgotten, sockets' = sockets, notEmpty' \subseteq notEmpty,
         Notifiers \subseteq Notifiers', AwakePoppers \subseteq AwakePoppers'
  PROVE  WorkersNotForgotten'
<1>1. /\ Cardinality(Notifiers) \in Nat /\ Cardinality(Notifiers') \in Nat
      /\ Cardinality(Notifiers) <= Cardinality(Notifiers')
  BY CountedFiniteNext, CountGrows
<1>2. /\ Cardinality(AwakePoppers) \in Nat /\ Cardinality(AwakePoppers') \in Nat
      /\ Cardinality(AwakePoppers) <= Cardinality(AwakePoppers')
  BY CountedFiniteNext, CountGrows
<1>3. Len(sockets) \in Nat
  BY DEF TypeOK
<1> QED
  BY <1>1, <1>2, <1>3 DEF WorkersNotForgotten

\* A push adds one socket and one notification.
LEMMA WorkersEnqueued ==
  ASSUME TypeOK, WorkersNotForgotten, NEW p \in Producer, pc[p] # "notify",
         NEW s \in Socket, Enqueue(p, s), notEmpty' = notEmpty
  PROVE  WorkersNotForgotten'
<1>1. Notifiers' = Notifiers \cup {p} /\ p \notin Notifiers
  BY DEF Notifiers, Enqueue, TypeOK, Thread
<1>2. AwakePoppers' = AwakePoppers
  BY ThreadsDistinct DEF AwakePoppers, Enqueue, TypeOK, Thread
<1>3. Cardinality(Notifiers') = Cardinality(Notifiers) + 1 /\ Cardinality(Notifiers) \in Nat
  BY <1>1, CountedFinite, CountAdd
<1>4. Cardinality(AwakePoppers) \in Nat
  BY CountedFinite, FS_CardinalityType
<1>5. Len(sockets') = Len(sockets) + 1 /\ Len(sockets) \in Nat
  BY DEF TypeOK, Enqueue
<1> QED
  BY <1>2, <1>3, <1>4, <1>5 DEF WorkersNotForgotten

\* Every step keeps WorkersNotForgotten.
LEMMA StepWorkers ==
  TypeOK /\ Sleepers /\ WorkersNotForgotten /\ [Next]_vars => WorkersNotForgotten'
<1> SUFFICES ASSUME TypeOK, Sleepers, WorkersNotForgotten, [Next]_vars
             PROVE  WorkersNotForgotten'
  OBVIOUS
<1> USE ThreadsDistinct
<1>1. ASSUME NEW p \in Producer, NEW s \in Socket, TryPush(p, s) PROVE WorkersNotForgotten'
  <2>1. CASE UNCHANGED <<sockets, pc>>
    BY <1>1, <2>1, WorkersKept DEF TryPush, Notifiers, AwakePoppers
  <2>2. CASE Enqueue(p, s)
    BY <1>1, <2>2, WorkersEnqueued DEF TryPush
  <2> QED
    BY <1>1, <2>1, <2>2 DEF TryPush
<1>2. ASSUME NEW p \in Producer, PushTurn(p) PROVE WorkersNotForgotten'
  <2>1. CASE Enqueue(p, held[p])
    <3>1. held[p] \in Socket /\ pc[p] # "notify" /\ notEmpty' = notEmpty
      BY <1>2 DEF PushTurn, TypeOK
    <3> QED
      BY <2>1, <3>1, WorkersEnqueued
  <2>2. CASE UNCHANGED sockets /\ (pc' = pc \/ pc' = [pc EXCEPT ![p] = "out"])
    <3>1. Notifiers \subseteq Notifiers' /\ AwakePoppers \subseteq AwakePoppers'
      BY <1>2, <2>2 DEF PushTurn, Notifiers, AwakePoppers, TypeOK, Thread
    <3> QED
      BY <1>2, <2>2, <3>1, WorkersKept DEF PushTurn
  <2> QED
    BY <1>2, <2>1, <2>2 DEF PushTurn
<1>3. ASSUME NEW p \in Producer, NotifyNotEmpty(p) PROVE WorkersNotForgotten'
  <2>1. CASE notEmpty = {}
    BY <1>3, <2>1 DEF NotifyNotEmpty, NotifyOne, WorkersNotForgotten
  <2>2. CASE notEmpty # {}
    <3>1. PICK t \in notEmpty : notEmpty' = notEmpty \ {t}
      BY <1>3, <2>2 DEF NotifyNotEmpty, NotifyOne
    <3>2. Notifiers = Notifiers' \cup {p} /\ p \notin Notifiers'
      BY <1>3 DEF NotifyNotEmpty, Notifiers, TypeOK, Thread, ProducerPC
    <3>3. AwakePoppers' = AwakePoppers \cup {t} /\ t \notin AwakePoppers
      BY <1>3, <3>1 DEF NotifyNotEmpty, AwakePoppers, Sleepers, TypeOK, Thread
    <3>4. Cardinality(Notifiers) = Cardinality(Notifiers') + 1 /\ Cardinality(Notifiers') \in Nat
      BY <3>2, CountedFiniteNext, CountAdd
    <3>5. /\ Cardinality(AwakePoppers') = Cardinality(AwakePoppers) + 1
          /\ Cardinality(AwakePoppers) \in Nat
      BY <3>3, CountedFinite, CountAdd
    <3>6. sockets' = sockets /\ Len(sockets) \in Nat
      BY <1>3 DEF NotifyNotEmpty, TypeOK
    <3> QED
      BY <2>2, <3>4, <3>5, <3>6 DEF WorkersNotForgotten
  <2> QED
    BY <2>1, <2>2
<1>4. ASSUME NEW w \in Worker, PopTurn(w) PROVE WorkersNotForgotten'
  <2>1. Notifiers' = Notifiers
    BY <1>4 DEF PopTurn, Notifiers, TypeOK, Thread
  <2>2. Cardinality(Notifiers) \in Nat /\ Cardinality(AwakePoppers') \in Nat
    BY CountedFinite, CountedFiniteNext, FS_CardinalityType
  <2>3. CASE sockets # <<>>
    <3>1. sockets' = Tail(sockets) /\ pc' = [pc EXCEPT ![w] = "notify"] /\ notEmpty' = notEmpty
      BY <1>4, <2>3 DEF PopTurn, PopReady
    <3>2. AwakePoppers = AwakePoppers' \cup {w} /\ w \notin AwakePoppers'
      BY <1>4, <3>1 DEF PopTurn, AwakePoppers, TypeOK, Thread
    <3>3. Cardinality(AwakePoppers) = Cardinality(AwakePoppers') + 1
      BY <3>2, CountedFiniteNext, CountAdd
    <3>4. Len(sockets') = Len(sockets) - 1 /\ Len(sockets) \in Nat
      BY <2>3, <3>1 DEF TypeOK
    <3> QED
      BY <2>1, <2>2, <3>1, <3>3, <3>4 DEF WorkersNotForgotten
  <2>4. CASE sockets = <<>>
    <3>1. Len(sockets') = 0
      BY <1>4, <2>4 DEF PopTurn
    <3> QED
      BY <2>1, <2>2, <3>1 DEF WorkersNotForgotten
  <2> QED
    BY <2>3, <2>4
<1>5. ASSUME UNCHANGED sockets, notEmpty' \subseteq notEmpty,
             \A p \in Producer : pc[p] = "notify" => pc'[p] = "notify",
             \A w \in Worker : pc[w] = "pop" => pc'[w] = "pop"
      PROVE  WorkersNotForgotten'
  BY <1>5, WorkersKept DEF Notifiers, AwakePoppers
<1>6. ASSUME NEW p \in Producer, NEW s \in Socket, CallPush(p, s) PROVE WorkersNotForgotten'
  BY <1>5, <1>6 DEF CallPush, TypeOK, Thread
<1>7. ASSUME NEW w \in Worker, NotifyNotFull(w) \/ HandlerEnds(w) \/ StartWorker(w)
      PROVE  WorkersNotForgotten'
  BY <1>5, <1>7 DEF NotifyNotFull, HandlerEnds, StartWorker, TypeOK, Thread
<1>8. ASSUME NEW p \in Producer, StopProducer(p) PROVE WorkersNotForgotten'
  BY <1>5, <1>8 DEF StopProducer
<1>9. ASSUME NEW t \in Thread, SpuriousWakeup(t) PROVE WorkersNotForgotten'
  BY <1>5, <1>9 DEF SpuriousWakeup
<1>10. CASE StartFails \/ Close \/ PoolStep
  BY <1>5, <1>10
     DEF StartFails, Close, PoolStep, Join, UnwindDone, UnwindWorker, RequestStop, FireStop
<1>11. CASE UNCHANGED vars
  BY <1>5, <1>11 DEF vars
<1> QED
  BY <1>1, <1>2, <1>3, <1>4, <1>6, <1>7, <1>8, <1>9, <1>10, <1>11
     DEF Next, ProducerStep, WorkerStep
-----------------------------------------------------------------------------
(* Producers.                                                              *)

\* A step that frees no place, puts nobody to sleep and takes neither a
\* pending notification nor an awake producer away forgets no producer.
LEMMA ProducersKept ==
  ASSUME TypeOK, ProducersNotForgotten, notFull' \subseteq notFull, Len(sockets') \in Nat,
         Len(sockets) <= Len(sockets'),
         Poppers \subseteq Poppers', AwakePushers \subseteq AwakePushers'
  PROVE  ProducersNotForgotten'
<1>1. /\ Cardinality(Poppers) \in Nat /\ Cardinality(Poppers') \in Nat
      /\ Cardinality(Poppers) <= Cardinality(Poppers')
  BY CountedFiniteNext, CountGrows
<1>2. /\ Cardinality(AwakePushers) \in Nat /\ Cardinality(AwakePushers') \in Nat
      /\ Cardinality(AwakePushers) <= Cardinality(AwakePushers')
  BY CountedFiniteNext, CountGrows
<1>3. Len(sockets) \in Nat /\ Capacity \in Nat
  BY CapacityPositive DEF TypeOK
<1> QED
  BY <1>1, <1>2, <1>3 DEF ProducersNotForgotten

\* With no free place nobody is forgotten.
LEMMA FullForgetsNobody ==
  ASSUME TypeOK, sockets' = sockets, Len(sockets) >= Capacity
  PROVE  ProducersNotForgotten'
<1>1. Cardinality(Poppers') \in Nat /\ Cardinality(AwakePushers') \in Nat
  BY CountedFiniteNext, FS_CardinalityType
<1>2. Len(sockets) \in Nat /\ Capacity \in Nat
  BY CapacityPositive DEF TypeOK
<1> QED
  BY <1>1, <1>2 DEF ProducersNotForgotten

\* Every step keeps ProducersNotForgotten.
LEMMA StepProducers ==
  TypeOK /\ Sleepers /\ ProducersNotForgotten /\ [Next]_vars => ProducersNotForgotten'
<1> SUFFICES ASSUME TypeOK, Sleepers, ProducersNotForgotten, [Next]_vars
             PROVE  ProducersNotForgotten'
  OBVIOUS
<1> USE ThreadsDistinct
<1>0. Len(sockets) \in Nat /\ Capacity \in Nat
  BY CapacityPositive DEF TypeOK
<1>1. ASSUME UNCHANGED sockets, notFull' \subseteq notFull,
             \A p \in Producer : pc[p] = "push" => pc'[p] = "push",
             \A w \in Worker : pc[w] = "notify" => pc'[w] = "notify"
      PROVE  ProducersNotForgotten'
  BY <1>0, <1>1, ProducersKept DEF Poppers, AwakePushers
<1>2. ASSUME NEW p \in Producer, NEW s \in Socket, TryPush(p, s) PROVE ProducersNotForgotten'
  <2>1. CASE UNCHANGED <<sockets, pc>>
    BY <1>1, <1>2, <2>1 DEF TryPush
  <2>2. CASE Enqueue(p, s)
    <3>1. Len(sockets') = Len(sockets) + 1
      BY <2>2 DEF Enqueue, TypeOK
    <3>2. Poppers \subseteq Poppers' /\ AwakePushers \subseteq AwakePushers' /\ notFull' = notFull
      BY <1>2, <2>2 DEF TryPush, Enqueue, Poppers, AwakePushers, TypeOK, Thread
    <3> QED
      BY <1>0, <3>1, <3>2, ProducersKept
  <2> QED
    BY <1>2, <2>1, <2>2 DEF TryPush
<1>3. ASSUME NEW p \in Producer, PushTurn(p) PROVE ProducersNotForgotten'
  <2>1. CASE Enqueue(p, held[p]) /\ UNCHANGED notFull
    <3>1. Len(sockets') = Len(sockets) + 1
      BY <1>3, <2>1 DEF PushTurn, Enqueue, TypeOK
    <3>2. Poppers' = Poppers
      BY <2>1 DEF Enqueue, Poppers, TypeOK, Thread
    <3>3. AwakePushers = AwakePushers' \cup {p} /\ p \notin AwakePushers'
      BY <1>3, <2>1 DEF PushTurn, Enqueue, AwakePushers, TypeOK, Thread
    <3>4. /\ Cardinality(AwakePushers) = Cardinality(AwakePushers') + 1
          /\ Cardinality(AwakePushers') \in Nat
      BY <3>3, CountedFiniteNext, CountAdd
    <3>5. Cardinality(Poppers) \in Nat
      BY CountedFinite, FS_CardinalityType
    <3> QED
      BY <1>0, <2>1, <3>1, <3>2, <3>4, <3>5 DEF ProducersNotForgotten
  <2>2. CASE closed
    BY <1>3, <2>2 DEF PushTurn, PushReady, Sleepers, ProducersNotForgotten
  <2>3. CASE ~PushReady /\ UNCHANGED sockets
    BY <1>0, <2>3, FullForgetsNobody DEF PushReady
  <2> QED
    BY <1>3, <2>1, <2>2, <2>3 DEF PushTurn
<1>4. ASSUME NEW w \in Worker, NotifyNotFull(w) PROVE ProducersNotForgotten'
  <2>1. CASE notFull = {}
    BY <1>4, <2>1 DEF NotifyNotFull, NotifyOne, ProducersNotForgotten
  <2>2. CASE notFull # {}
    <3>1. PICK t \in notFull : notFull' = notFull \ {t}
      BY <1>4, <2>2 DEF NotifyNotFull, NotifyOne
    <3>2. Poppers = Poppers' \cup {w} /\ w \notin Poppers'
      BY <1>4 DEF NotifyNotFull, Poppers, TypeOK, Thread
    <3>3. AwakePushers' = AwakePushers \cup {t} /\ t \notin AwakePushers
      BY <1>4, <3>1 DEF NotifyNotFull, AwakePushers, Sleepers, TypeOK, Thread
    <3>4. Cardinality(Poppers) = Cardinality(Poppers') + 1 /\ Cardinality(Poppers') \in Nat
      BY <3>2, CountedFiniteNext, CountAdd
    <3>5. /\ Cardinality(AwakePushers') = Cardinality(AwakePushers) + 1
          /\ Cardinality(AwakePushers) \in Nat
      BY <3>3, CountedFinite, CountAdd
    <3>6. sockets' = sockets
      BY <1>4 DEF NotifyNotFull
    <3> QED
      BY <1>0, <2>2, <3>4, <3>5, <3>6 DEF ProducersNotForgotten
  <2> QED
    BY <2>1, <2>2
<1>5. ASSUME NEW w \in Worker, PopTurn(w) PROVE ProducersNotForgotten'
  <2>1. CASE sockets # <<>>
    <3>1. sockets' = Tail(sockets) /\ pc' = [pc EXCEPT ![w] = "notify"] /\ notFull' = notFull
      BY <1>5, <2>1 DEF PopTurn, PopReady
    <3>2. Len(sockets') = Len(sockets) - 1
      BY <2>1, <3>1 DEF TypeOK
    <3>3. Poppers' = Poppers \cup {w} /\ w \notin Poppers
      BY <1>5, <3>1 DEF PopTurn, Poppers, TypeOK, Thread
    <3>4. AwakePushers' = AwakePushers
      BY <3>1 DEF AwakePushers, TypeOK, Thread
    <3>5. Cardinality(Poppers') = Cardinality(Poppers) + 1 /\ Cardinality(Poppers) \in Nat
      BY <3>3, CountedFinite, CountAdd
    <3>6. Cardinality(AwakePushers) \in Nat
      BY CountedFinite, FS_CardinalityType
    <3> QED
      BY <1>0, <3>1, <3>2, <3>4, <3>5, <3>6 DEF ProducersNotForgotten
  <2>2. CASE sockets = <<>>
    BY <1>1, <1>5, <2>2 DEF PopTurn, TypeOK, Thread
  <2> QED
    BY <2>1, <2>2
<1>6. ASSUME NEW p \in Producer, NEW s \in Socket, CallPush(p, s) PROVE ProducersNotForgotten'
  BY <1>1, <1>6 DEF CallPush, TypeOK, Thread
<1>7. ASSUME NEW p \in Producer, NotifyNotEmpty(p) PROVE ProducersNotForgotten'
  BY <1>1, <1>7 DEF NotifyNotEmpty, TypeOK, Thread
<1>8. ASSUME NEW w \in Worker, HandlerEnds(w) \/ StartWorker(w) PROVE ProducersNotForgotten'
  BY <1>1, <1>8 DEF HandlerEnds, StartWorker, TypeOK, Thread
<1>9. ASSUME NEW p \in Producer, StopProducer(p) PROVE ProducersNotForgotten'
  BY <1>1, <1>9 DEF StopProducer
<1>10. ASSUME NEW t \in Thread, SpuriousWakeup(t) PROVE ProducersNotForgotten'
  BY <1>1, <1>10 DEF SpuriousWakeup
<1>11. CASE StartFails \/ Close \/ PoolStep
  BY <1>1, <1>11
     DEF StartFails, Close, PoolStep, Join, UnwindDone, UnwindWorker, RequestStop
<1>12. CASE UNCHANGED vars
  BY <1>1, <1>12 DEF vars
<1> QED
  BY <1>2, <1>3, <1>4, <1>5, <1>6, <1>7, <1>8, <1>9, <1>10, <1>11, <1>12
     DEF Next, ProducerStep, WorkerStep

-----------------------------------------------------------------------------
\* Types, sleepers and the two counts together.
WakeupInv == TypeOK /\ Sleepers /\ WorkersNotForgotten /\ ProducersNotForgotten

\* WakeupInv is inductive.
LEMMA WakeupInvariant == Spec => []WakeupInv
<1>1. Init => WakeupInv
  BY InitType DEF Init, WakeupInv, Sleepers, WorkersNotForgotten, ProducersNotForgotten
<1>2. WakeupInv /\ [Next]_vars => WakeupInv'
  BY StepType, StepSleepers, StepWorkers, StepProducers DEF WakeupInv
<1> QED
  BY <1>1, <1>2, PTL DEF Spec

\* No sleeping worker misses a queued socket, although notify_one runs after
\* the mutex is released and other threads run in between.
THEOREM NoLostWorkerWakeup == Spec => []WorkersNotForgotten
<1>1. WakeupInv => WorkersNotForgotten
  BY DEF WakeupInv
<1> QED
  BY <1>1, WakeupInvariant, PTL

\* No sleeping producer misses a free place.
THEOREM NoLostProducerWakeup == Spec => []ProducersNotForgotten
<1>1. WakeupInv => ProducersNotForgotten
  BY DEF WakeupInv
<1> QED
  BY <1>1, WakeupInvariant, PTL
=============================================================================
