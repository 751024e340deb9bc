---------------------------- MODULE ServerProofs ----------------------------
(***************************************************************************)
(* Proofs about Server, for every set of sockets, workers and addresses,   *)
(* every capacity and every per-IP limit.                                  *)
(***************************************************************************)
EXTENDS Server, Integers, FiniteSetTheorems, TLAPS

USE DEF Status, limiterVars, accVars, hvars

-----------------------------------------------------------------------------
(* What push_back and pop_front do to the elements of a queue.             *)

Elems(q) == {q[i] : i \in 1..Len(q)}
Distinct(q) == \A i, j \in 1..Len(q) : q[i] = q[j] => i = j

\* push_back adds one element at the end.
LEMMA AppendElems ==
  ASSUME NEW S, NEW q \in Seq(S), NEW c \in S
  PROVE  /\ Elems(Append(q, c)) = Elems(q) \cup {c}
         /\ Distinct(q) /\ c \notin Elems(q) => Distinct(Append(q, c))
<1>1. /\ Len(Append(q, c)) = Len(q) + 1
      /\ \A i \in 1..Len(q) : Append(q, c)[i] = q[i]
      /\ Append(q, c)[Len(q) + 1] = c
      /\ Len(q) \in Nat
  OBVIOUS
<1>2. 1..(Len(q) + 1) = (1..Len(q)) \cup {Len(q) + 1}
  BY <1>1
<1>3. Elems(Append(q, c)) = Elems(q) \cup {c}
  BY <1>1, <1>2 DEF Elems
<1>4. ASSUME Distinct(q), c \notin Elems(q) PROVE Distinct(Append(q, c))
  BY <1>1, <1>2, <1>4 DEF Elems, Distinct
<1> QED
  BY <1>3, <1>4

\* front and pop_front split the queue's elements.
LEMMA TailElems ==
  ASSUME NEW S, NEW q \in Seq(S), q # <<>>
  PROVE  /\ Elems(q) = {Head(q)} \cup Elems(Tail(q))
         /\ Distinct(q) => Distinct(Tail(q)) /\ Head(q) \notin Elems(Tail(q))
         /\ Head(q) \in S
<1>1. /\ Len(q) \in Nat \ {0}
      /\ Len(Tail(q)) = Len(q) - 1
      /\ \A i \in 1..(Len(q) - 1) : Tail(q)[i] = q[i + 1]
      /\ Head(q) = q[1]
      /\ \A i \in 1..Len(q) : q[i] \in S
  OBVIOUS
<1>2. ASSUME NEW i \in 1..Len(q) PROVE q[i] \in {Head(q)} \cup Elems(Tail(q))
  <2>1. CASE i = 1
    BY <1>1, <2>1
  <2>2. CASE i # 1
    <3>1. i - 1 \in 1..Len(Tail(q)) /\ Tail(q)[i - 1] = q[i]
      BY <1>1, <2>2
    <3> QED
      BY <3>1 DEF Elems
  <2> QED
    BY <2>1, <2>2
<1>3. ASSUME NEW i \in 1..Len(Tail(q)) PROVE Tail(q)[i] \in Elems(q)
  <2>1. i + 1 \in 1..Len(q) /\ Tail(q)[i] = q[i + 1]
    BY <1>1
  <2> QED
    BY <2>1 DEF Elems
<1>4. Head(q) \in Elems(q)
  <2>1. 1 \in 1..Len(q)
    BY <1>1
  <2> QED
    BY <1>1, <2>1 DEF Elems
<1>5. ASSUME Distinct(q) PROVE Distinct(Tail(q)) /\ Head(q) \notin Elems(Tail(q))
  BY <1>1, <1>5 DEF Elems, Distinct
<1> QED
  BY <1>1, <1>2, <1>3, <1>4, <1>5 DEF Elems

-----------------------------------------------------------------------------
(* Types.                                                                  *)

\* The limiter's operations map counts to counts.
LEMMA LimiterType ==
  ASSUME NEW a \in Addr \cup {Unknown}, inflight \in [Addr -> Nat]
  PROVE  Acquired(a) \in [Addr -> Nat] /\ Released(a) \in [Addr -> Nat]
  BY DEF Acquired, Released

\* The initial state has the declared types.
LEMMA InitType == Init => TypeOK
  BY DEF Init, HInit, TypeOK, AccPC

\* Every step of the server keeps the types of its state.
LEMMA StepType == TypeOK /\ [Next]_vars => TypeOK'
<1> SUFFICES ASSUME TypeOK, [Next]_vars PROVE TypeOK'
  OBVIOUS
<1> USE DEF TypeOK, AccPC
<1>1. ASSUME NEW c \in Socket, Accept(c) PROVE TypeOK'
  BY <1>1 DEF Accept
<1>2. CASE AcceptFails
  BY <1>2 DEF AcceptFails
<1>3. CASE AcceptAgain
  BY <1>3 DEF AcceptAgain
<1>4. CASE TryAcquire
  <2>1. PeerOf[cur] \in Addr \cup {Unknown}
    BY <1>4, PeerAddresses DEF TryAcquire
  <2>2. Acquired(PeerOf[cur]) \in [Addr -> Nat]
    BY <2>1, LimiterType
  <2> QED
    BY <1>4, <2>2 DEF TryAcquire
<1>5. CASE TryPush
  <2>1. CASE HTake(cur) /\ acc' = "accept" /\ cur' = None /\ UNCHANGED fds
    <3>1. cur \in Socket
      BY <1>5 DEF TryPush
    <3>2. queue' \in Seq(Socket)
      BY <2>1, <3>1 DEF HTake
    <3> QED
      BY <1>5, <2>1, <3>2 DEF TryPush, HTake
  <2>2. CASE HRefuse(cur) /\ acc' = "release" /\ fds' = fds \ {cur} /\ UNCHANGED cur
    BY <1>5, <2>2 DEF TryPush, HRefuse
  <2> QED
    BY <1>5, <2>1, <2>2 DEF TryPush
<1>6. CASE ReleaseRefused
  <2>1. PeerOf[cur] \in Addr \cup {Unknown}
    BY <1>6, PeerAddresses DEF ReleaseRefused
  <2>2. Released(PeerOf[cur]) \in [Addr -> Nat]
    BY <2>1, LimiterType
  <2> QED
    BY <1>6, <2>2 DEF ReleaseRefused
<1>7. CASE EnterAcceptLoop
  BY <1>7 DEF EnterAcceptLoop
<1>8. CASE CloseQueue
  BY <1>8 DEF CloseQueue, HShut
<1>9. CASE JoinWorkers
  BY <1>9 DEF JoinWorkers
<1>10. ASSUME NEW w \in Worker, StartWorker(w) PROVE TypeOK'
  BY <1>10 DEF StartWorker, HEnter
<1>11. ASSUME NEW w \in Worker, Pop(w) PROVE TypeOK'
  BY <1>11 DEF Pop, HServe
<1>12. ASSUME NEW w \in Worker, GuardReleases(w) PROVE TypeOK'
  <2>1. PeerOf[serving[w]] \in Addr \cup {Unknown}
    BY <1>12, PeerAddresses DEF GuardReleases
  <2>2. Released(PeerOf[serving[w]]) \in [Addr -> Nat]
    BY <2>1, LimiterType
  <2> QED
    BY <1>12, <2>2 DEF GuardReleases, HFinish
<1>13. ASSUME NEW w \in Worker, Leave(w) PROVE TypeOK'
  BY <1>13 DEF Leave, HLeave
<1>14. ASSUME NEW w \in Worker, HandlerEnds(w) PROVE TypeOK'
  BY <1>14 DEF HandlerEnds
<1>15. CASE UNCHANGED vars
  BY <1>15 DEF vars
<1> QED
  BY <1>1, <1>2, <1>3, <1>4, <1>5, <1>6, <1>7, <1>8, <1>9, <1>10, <1>11,
     <1>12, <1>13, <1>14, <1>15 DEF Next, AcceptLoopStep, WorkerStep

\* The state keeps its types in every behaviour of the server.
THEOREM TypeCorrect == Spec => []TypeOK
  BY InitType, StepType, PTL DEF Spec

-----------------------------------------------------------------------------
(* Ownership.                                                              *)

\* Before anything is accepted nobody owns a connection.
LEMMA InitOwner == Init => OneOwner
  BY HandoffStatus, ServerNone
     DEF Init, HInit, OneOwner, Queued, Served, Pending

\* A step that leaves the queue, the workers and the callers' sockets alone
\* keeps ownership if the accept loop's socket is still its own.
LEMMA OwnerUnmoved ==
  ASSUME OneOwner, UNCHANGED hvars,
         Pending' \cap (Queued \cup Served) = {},
         acc' \in {"acquire", "push"} => cur' \in unoffered,
         acc' = "release" => cur' \notin unoffered
  PROVE  OneOwner'
<1>1. Queued' = Queued /\ Served' = Served
  BY DEF Queued, Served
<1> QED
  BY <1>1 DEF OneOwner

\* try_push moves the accept loop's socket to the end of the queue.
LEMMA OwnerTake ==
  ASSUME TypeOK, OneOwner, TryPush, HTake(cur),
         acc' = "accept", cur' = None
  PROVE  OneOwner' /\ Queued' = Queued \cup {cur} /\ Served' = Served
<1>1. cur \in Socket /\ cur \in unoffered /\ acc = "push"
  BY DEF TypeOK, OneOwner, TryPush
<1>2. cur \notin Queued /\ cur \notin Served
  BY <1>1 DEF OneOwner
<1>3. queue \in Seq(Socket) /\ queue' = Append(queue, cur)
  BY DEF TypeOK, HTake
<1>4. Elems(queue') = Elems(queue) \cup {cur}
  BY <1>1, <1>3, AppendElems
<1>5. Distinct(queue) /\ cur \notin Elems(queue)
  BY <1>2 DEF OneOwner, Distinct, Elems, Queued
<1>6. Distinct(queue')
  BY <1>1, <1>3, <1>5, AppendElems
<1>7. Queued' = Queued \cup {cur}
  BY <1>4 DEF Elems, Queued
<1>8. Served' = Served /\ serving' = serving
  BY DEF HTake, Served
<1>9. Pending' = {}
  BY DEF Pending
<1>10. unoffered' = unoffered \ {cur}
  BY DEF HTake
<1> QED
  BY <1>2, <1>6, <1>7, <1>8, <1>9, <1>10 DEF OneOwner, Distinct

\* pop moves the oldest socket to the worker.
LEMMA OwnerPop ==
  ASSUME TypeOK, OneOwner, NEW w \in Worker, Pop(w)
  PROVE  OneOwner' /\ Queued' \cup Served' = Queued \cup Served
<1> DEFINE c == Head(queue)
<1>1. /\ queue \in Seq(Socket) /\ queue # <<>> /\ queue' = Tail(queue)
      /\ serving[w] = "idle" /\ serving' = [serving EXCEPT ![w] = c]
      /\ serving \in [Worker -> Socket \cup Status]
      /\ UNCHANGED <<unoffered, acc, cur>>
  BY DEF TypeOK, Pop, HServe
<1>2. /\ Elems(queue) = {c} \cup Elems(queue')
      /\ c \in Socket
      /\ Distinct(queue) => Distinct(queue') /\ c \notin Elems(queue')
  BY <1>1, TailElems
<1>3. Distinct(queue)
  BY DEF OneOwner, Distinct
<1>4. Queued = {c} \cup Queued' /\ c \notin Queued'
  BY <1>2, <1>3 DEF Elems, Queued
<1>5. "idle" \notin Socket
  BY HandoffStatus
<1>6. Served' = Served \cup {c}
  <2>1. \A v \in Worker : serving'[v] = IF v = w THEN c ELSE serving[v]
    BY <1>1
  <2> QED
    BY <1>1, <1>2, <1>5, <2>1 DEF Served
<1>7. c \notin Served
  BY <1>4 DEF OneOwner
<1>8. Pending' = Pending
  BY <1>1 DEF Pending
<1>9. \A v, u \in Worker : serving'[v] = serving'[u] /\ serving'[v] \in Socket => v = u
  <2>1. \A v \in Worker : serving'[v] = IF v = w THEN c ELSE serving[v]
    BY <1>1
  <2>2. \A v \in Worker : serving[v] # c
    BY <1>2, <1>7 DEF Served
  <2> QED
    BY <2>1, <2>2 DEF OneOwner
<1>10. Distinct(queue')
  BY <1>2, <1>3
<1> HIDE DEF c
<1>11. Queued' \cup Served' = Queued \cup Served
  BY <1>4, <1>6
<1>12. Queued' \cap Served' = {}
  BY <1>4, <1>6, <1>7 DEF OneOwner
<1>13. /\ Pending' \cap (Queued' \cup Served') = {}
       /\ unoffered' \cap (Queued' \cup Served') = {}
       /\ acc' \in {"acquire", "push"} => cur' \in unoffered'
       /\ acc' = "release" => cur' \notin unoffered'
  BY <1>1, <1>8, <1>11 DEF OneOwner
<1> QED
  BY <1>9, <1>10, <1>11, <1>12, <1>13 DEF OneOwner, Distinct

\* A worker that changes to a status gives up the socket it had.
LEMMA OwnerIdle ==
  ASSUME TypeOK, OneOwner, NEW w \in Worker, NEW st \in Status,
         serving' = [serving EXCEPT ![w] = st],
         UNCHANGED <<queue, unoffered, acc, cur>>
  PROVE  OneOwner' /\ Queued' = Queued /\ Served' = Served \ {serving[w]}
<1>1. /\ serving \in [Worker -> Socket \cup Status]
      /\ st \notin Socket
  BY HandoffStatus DEF TypeOK
<1>2. \A v \in Worker : serving'[v] = IF v = w THEN st ELSE serving[v]
  BY <1>1
<1>3. \A v, u \in Worker : serving[v] = serving[u] /\ serving[v] \in Socket => v = u
  BY DEF OneOwner
<1>4. Served' = Served \ {serving[w]}
  BY <1>1, <1>2, <1>3 DEF Served
<1>5. Queued' = Queued
  BY DEF Queued
<1>6. Pending' = Pending
  BY DEF Pending
<1>7. \A v, u \in Worker : serving'[v] = serving'[u] /\ serving'[v] \in Socket => v = u
  BY <1>1, <1>2, <1>3
<1> QED
  BY <1>4, <1>5, <1>6, <1>7 DEF OneOwner

\* Every step keeps one owner per connection.
LEMMA StepOwner == TypeOK /\ OneOwner /\ [Next]_vars => OneOwner'
<1> SUFFICES ASSUME TypeOK, OneOwner, [Next]_vars PROVE OneOwner'
  OBVIOUS
<1>1. ASSUME NEW c \in Socket, Accept(c) PROVE OneOwner'
  <2>1. Pending' = {}
    BY <1>1 DEF Accept, Pending
  <2> QED
    BY <1>1, <2>1, OwnerUnmoved DEF Accept
<1>2. CASE AcceptFails
  BY <1>2, OwnerUnmoved DEF AcceptFails, Pending
<1>3. CASE AcceptAgain
  BY <1>3, OwnerUnmoved DEF AcceptAgain, Pending
<1>4. CASE TryAcquire
  <2>1. cur \in unoffered
    BY <1>4 DEF OneOwner, TryAcquire
  <2>2. Pending' \subseteq {cur}
    BY <1>4 DEF TryAcquire, Pending
  <2>3. Pending' \cap (Queued \cup Served) = {}
    BY <2>1, <2>2 DEF OneOwner
  <2> QED
    BY <1>4, <2>1, <2>3, OwnerUnmoved DEF TryAcquire
<1>5. CASE TryPush
  <2>1. CASE HTake(cur) /\ acc' = "accept" /\ cur' = None
    BY <1>5, <2>1, OwnerTake
  <2>2. CASE HRefuse(cur) /\ acc' = "release" /\ UNCHANGED cur
    <3>1. Queued' = Queued /\ Served' = Served /\ Pending' = Pending
      BY <1>5, <2>2 DEF HRefuse, Queued, Served, Pending, TryPush
    <3>2. queue' = queue /\ serving' = serving /\ unoffered' = unoffered \ {cur}
      BY <2>2 DEF HRefuse
    <3> QED
      BY <2>2, <3>1, <3>2 DEF OneOwner
  <2> QED
    BY <1>5, <2>1, <2>2 DEF TryPush
<1>6. CASE ReleaseRefused
  BY <1>6, OwnerUnmoved DEF ReleaseRefused, Pending
<1>7. CASE EnterAcceptLoop
  BY <1>7, OwnerUnmoved DEF EnterAcceptLoop, Pending
<1>8. CASE CloseQueue
  <2>1. Queued' = Queued /\ Served' = Served /\ Pending' = Pending /\ Pending = {}
    BY <1>8 DEF CloseQueue, HShut, Queued, Served, Pending
  <2>2. UNCHANGED <<queue, serving, unoffered, cur>> /\ acc' = "join"
    BY <1>8 DEF CloseQueue, HShut
  <2> QED
    BY <2>1, <2>2 DEF OneOwner
<1>9. CASE JoinWorkers
  BY <1>9, OwnerUnmoved DEF JoinWorkers, Pending
<1>10. ASSUME NEW w \in Worker, StartWorker(w) PROVE OneOwner'
  BY <1>10, OwnerIdle DEF StartWorker, HEnter
<1>11. ASSUME NEW w \in Worker, Pop(w) PROVE OneOwner'
  BY <1>11, OwnerPop
<1>12. ASSUME NEW w \in Worker, GuardReleases(w) PROVE OneOwner'
  BY <1>12, OwnerIdle DEF GuardReleases, HFinish
<1>13. ASSUME NEW w \in Worker, Leave(w) PROVE OneOwner'
  BY <1>13, OwnerIdle DEF Leave, HLeave
<1>14. ASSUME NEW w \in Worker, HandlerEnds(w) PROVE OneOwner'
  <2>1. Pending' = Pending
    BY <1>14 DEF HandlerEnds, Pending
  <2> QED
    BY <1>14, <2>1, OwnerUnmoved DEF HandlerEnds, OneOwner
<1>15. CASE UNCHANGED vars
  <2>1. Pending' = Pending
    BY <1>15 DEF vars, Pending
  <2> QED
    BY <1>15, <2>1, OwnerUnmoved DEF vars, OneOwner
<1> QED
  BY <1>1, <1>2, <1>3, <1>4, <1>5, <1>6, <1>7, <1>8, <1>9, <1>10, <1>11,
     <1>12, <1>13, <1>14, <1>15 DEF Next, AcceptLoopStep, WorkerStep

\* No connection is ever in two places: not queued twice, not served by two
\* workers, not still in the accept loop's hands once it is queued.
THEOREM Ownership == Spec => []OneOwner
<1>1. TypeOK /\ OneOwner /\ [Next]_vars => (TypeOK /\ OneOwner)'
  BY StepType, StepOwner
<1> QED
  BY InitType, InitOwner, <1>1, PTL DEF Spec

-----------------------------------------------------------------------------
(* Slots.                                                                  *)

\* Connections that hold a slot are among the finitely many sockets.
LEMMA HoldersAreSockets ==
  ASSUME TypeOK
  PROVE  Holders \subseteq Socket
<1>1. Queued \subseteq Socket
  BY DEF TypeOK, Queued
<1>2. Served \subseteq Socket
  BY DEF Served
<1>3. Pending \subseteq Socket
  BY DEF TypeOK, Pending
<1> QED
  BY <1>1, <1>2, <1>3 DEF Holders

\* The connections of one peer can be counted.
LEMMA HoldersFinite ==
  ASSUME TypeOK, NEW a
  PROVE  IsFiniteSet(HoldersOf(a)) /\ Cardinality(HoldersOf(a)) \in Nat
<1>1. HoldersOf(a) \in SUBSET Socket
  BY HoldersAreSockets DEF HoldersOf
<1>2. IsFiniteSet(HoldersOf(a))
  BY <1>1, SocketsFinite, FS_Subset
<1> QED
  BY <1>2, FS_CardinalityType

\* Nothing about the slots changes while the holders stay the same.
LEMMA SlotsUnmoved ==
  ASSUME SlotsMatch, Holders' = Holders, UNCHANGED inflight
  PROVE  SlotsMatch'
  BY DEF SlotsMatch, HoldersOf

\* try_acquire counts the connection it lets in.
LEMMA SlotTaken ==
  ASSUME TypeOK, SlotsMatch, NEW c \in Socket, c \notin Holders,
         Holders' = Holders \cup {c}, inflight' = Acquired(PeerOf[c])
  PROVE  SlotsMatch'
<1> SUFFICES ASSUME NEW a \in Addr
             PROVE  inflight'[a] = Cardinality(HoldersOf(a)')
  BY DEF SlotsMatch
<1>1. inflight[a] = Cardinality(HoldersOf(a)) /\ inflight \in [Addr -> Nat]
  BY DEF SlotsMatch, TypeOK
<1>2. IsFiniteSet(HoldersOf(a)) /\ Cardinality(HoldersOf(a)) \in Nat
  BY HoldersFinite
<1>3. a # Unknown
  BY PeerAddresses
<1>4. CASE PeerOf[c] = a
  <2>1. HoldersOf(a)' = HoldersOf(a) \cup {c} /\ c \notin HoldersOf(a)
    BY <1>4 DEF HoldersOf
  <2>2. Cardinality(HoldersOf(a)') = Cardinality(HoldersOf(a)) + 1
    BY <1>2, <2>1, FS_AddElement
  <2>3. inflight'[a] = inflight[a] + 1
    BY <1>1, <1>3, <1>4 DEF Acquired
  <2> QED
    BY <1>1, <2>2, <2>3
<1>5. CASE PeerOf[c] # a
  <2>1. HoldersOf(a)' = HoldersOf(a)
    BY <1>5 DEF HoldersOf
  <2>2. inflight'[a] = inflight[a]
    BY <1>1, <1>5 DEF Acquired
  <2> QED
    BY <1>1, <2>1, <2>2
<1> QED
  BY <1>4, <1>5

\* release uncounts the connection that gives its slot back; the entry it
\* decrements is never missing.
LEMMA SlotReturned ==
  ASSUME TypeOK, SlotsMatch, NEW c \in Holders,
         Holders' = Holders \ {c}, inflight' = Released(PeerOf[c])
  PROVE  SlotsMatch'
<1> SUFFICES ASSUME NEW a \in Addr
             PROVE  inflight'[a] = Cardinality(HoldersOf(a)')
  BY DEF SlotsMatch
<1>1. inflight[a] = Cardinality(HoldersOf(a)) /\ inflight \in [Addr -> Nat]
  BY DEF SlotsMatch, TypeOK
<1>2. IsFiniteSet(HoldersOf(a)) /\ Cardinality(HoldersOf(a)) \in Nat
  BY HoldersFinite
<1>3. a # Unknown
  BY PeerAddresses
<1>4. CASE PeerOf[c] = a
  <2>1. HoldersOf(a)' = HoldersOf(a) \ {c} /\ c \in HoldersOf(a)
    BY <1>4 DEF HoldersOf
  <2>2. Cardinality(HoldersOf(a)') = Cardinality(HoldersOf(a)) - 1
    BY <1>2, <2>1, FS_RemoveElement
  <2>3. Cardinality(HoldersOf(a)) # 0
    BY <1>2, <2>1, FS_EmptySet
  <2>4. inflight'[a] = inflight[a] - 1
    BY <1>1, <1>3, <1>4, <2>3 DEF Released
  <2> QED
    BY <1>1, <2>2, <2>4
<1>5. CASE PeerOf[c] # a
  <2>1. HoldersOf(a)' = HoldersOf(a)
    BY <1>5 DEF HoldersOf
  <2>2. inflight'[a] = inflight[a]
    BY <1>1, <1>5 DEF Released
  <2> QED
    BY <1>1, <2>1, <2>2
<1> QED
  BY <1>4, <1>5

\* No slot is taken before the first connection.
LEMMA InitSlots == Init => SlotsMatch
<1> SUFFICES ASSUME Init PROVE SlotsMatch
  OBVIOUS
<1>1. Holders = {}
  BY HandoffStatus DEF Init, HInit, Holders, Queued, Served, Pending
<1>2. \A a \in Addr : HoldersOf(a) = {}
  BY <1>1 DEF HoldersOf
<1> QED
  BY <1>2, FS_EmptySet DEF Init, SlotsMatch

\* Every step keeps the limiter's counts equal to the slots held.
LEMMA StepSlots ==
  TypeOK /\ OneOwner /\ SlotsMatch /\ [Next]_vars => SlotsMatch'
<1> SUFFICES ASSUME TypeOK, OneOwner, SlotsMatch, [Next]_vars PROVE SlotsMatch'
  OBVIOUS
<1>u. ASSUME UNCHANGED <<queue, serving>>, Pending' = Pending PROVE Holders' = Holders
  BY <1>u DEF Holders, Queued, Served
<1>1. ASSUME NEW c \in Socket, Accept(c) PROVE SlotsMatch'
  <2>1. Pending' = Pending
    BY <1>1 DEF Accept, Pending
  <2> QED
    BY <1>1, <1>u, <2>1, SlotsUnmoved DEF Accept
<1>2. CASE AcceptFails
  <2>1. Pending' = Pending
    BY <1>2 DEF AcceptFails, Pending
  <2> QED
    BY <1>2, <1>u, <2>1, SlotsUnmoved DEF AcceptFails
<1>3. CASE AcceptAgain
  <2>1. Pending' = Pending
    BY <1>3 DEF AcceptAgain, Pending
  <2> QED
    BY <1>3, <1>u, <2>1, SlotsUnmoved DEF AcceptAgain
<1>4. CASE TryAcquire
  <2>1. cur \in Socket /\ cur \in unoffered /\ Pending = {}
    BY <1>4 DEF TryAcquire, TypeOK, OneOwner, Pending
  <2>2. cur \notin Holders
    BY <2>1 DEF OneOwner, Holders
  <2>3. Queued' = Queued /\ Served' = Served
    BY <1>4 DEF TryAcquire, Queued, Served
  <2>4. CASE inflight' = Acquired(PeerOf[cur]) /\ acc' = "push" /\ UNCHANGED cur
    <3>1. Pending' = {cur}
      BY <2>4 DEF Pending
    <3>2. Holders' = Holders \cup {cur}
      BY <2>1, <2>3, <3>1 DEF Holders
    <3> QED
      BY <2>1, <2>2, <2>4, <3>2, SlotTaken
  <2>5. CASE acc' = "accept" /\ UNCHANGED inflight
    <3>1. Pending' = Pending
      BY <2>1, <2>5 DEF Pending
    <3> QED
      BY <1>4, <1>u, <2>5, <3>1, SlotsUnmoved DEF TryAcquire
  <2> QED
    BY <1>4, <2>4, <2>5 DEF TryAcquire
<1>5. CASE TryPush
  <2>1. CASE HTake(cur) /\ acc' = "accept" /\ cur' = None
    <3>1. Queued' = Queued \cup {cur} /\ Served' = Served
      BY <1>5, <2>1, OwnerTake
    <3>2. Pending = {cur} /\ Pending' = {}
      BY <1>5, <2>1 DEF TryPush, Pending
    <3>3. Holders' = Holders
      BY <3>1, <3>2 DEF Holders
    <3> QED
      BY <1>5, <3>3, SlotsUnmoved DEF TryPush
  <2>2. CASE HRefuse(cur) /\ acc' = "release" /\ UNCHANGED cur
    <3>1. Pending' = Pending
      BY <1>5, <2>2 DEF TryPush, Pending
    <3>2. UNCHANGED <<queue, serving>>
      BY <2>2 DEF HRefuse
    <3> QED
      BY <1>5, <1>u, <3>1, <3>2, SlotsUnmoved DEF TryPush
  <2> QED
    BY <1>5, <2>1, <2>2 DEF TryPush
<1>6. CASE ReleaseRefused
  <2>1. Pending = {cur} /\ Pending' = {}
    BY <1>6 DEF ReleaseRefused, Pending
  <2>2. Queued' = Queued /\ Served' = Served
    BY <1>6 DEF ReleaseRefused, Queued, Served
  <2>3. cur \in Holders /\ Holders' = Holders \ {cur}
    BY <2>1, <2>2 DEF Holders, OneOwner
  <2>4. inflight' = Released(PeerOf[cur])
    BY <1>6 DEF ReleaseRefused
  <2> QED
    BY <2>3, <2>4, SlotReturned
<1>7. CASE EnterAcceptLoop
  <2>1. Pending' = Pending
    BY <1>7 DEF EnterAcceptLoop, Pending
  <2> QED
    BY <1>7, <1>u, <2>1, SlotsUnmoved DEF EnterAcceptLoop
<1>8. CASE CloseQueue
  <2>1. Pending' = Pending
    BY <1>8 DEF CloseQueue, Pending
  <2> QED
    BY <1>8, <1>u, <2>1, SlotsUnmoved DEF CloseQueue, HShut
<1>9. CASE JoinWorkers
  <2>1. Pending' = Pending
    BY <1>9 DEF JoinWorkers, Pending
  <2> QED
    BY <1>9, <1>u, <2>1, SlotsUnmoved DEF JoinWorkers
<1>s. ASSUME NEW w \in Worker, NEW st \in Status,
             serving' = [serving EXCEPT ![w] = st],
             UNCHANGED <<queue, unoffered, acc, cur>>
      PROVE  Holders' = Holders \ (IF serving[w] \in Socket THEN {serving[w]} ELSE {})
  <2>1. Queued' = Queued /\ Served' = Served \ {serving[w]}
    BY <1>s, OwnerIdle
  <2>2. Pending' = Pending
    BY <1>s DEF Pending
  <2>3. CASE serving[w] \in Socket
    <3>1. serving[w] \in Served
      BY <2>3 DEF Served
    <3> QED
      BY <2>1, <2>2, <2>3, <3>1 DEF Holders, OneOwner
  <2>4. CASE serving[w] \notin Socket
    <3>1. serving[w] \notin Served
      BY <2>4 DEF Served
    <3> QED
      BY <2>1, <2>2, <2>4, <3>1 DEF Holders
  <2> QED
    BY <2>3, <2>4
<1>10. ASSUME NEW w \in Worker, StartWorker(w) PROVE SlotsMatch'
  <2>1. Holders' = Holders
    BY <1>10, <1>s, HandoffStatus DEF StartWorker, HEnter
  <2> QED
    BY <1>10, <2>1, SlotsUnmoved DEF StartWorker
<1>11. ASSUME NEW w \in Worker, Pop(w) PROVE SlotsMatch'
  <2>1. Queued' \cup Served' = Queued \cup Served
    BY <1>11, OwnerPop
  <2>2. Pending' = Pending
    BY <1>11 DEF Pop, Pending
  <2>3. Holders' = Holders
    BY <2>1, <2>2 DEF Holders
  <2> QED
    BY <1>11, <2>3, SlotsUnmoved DEF Pop
<1>12. ASSUME NEW w \in Worker, GuardReleases(w) PROVE SlotsMatch'
  <2>1. serving[w] \in Socket /\ inflight' = Released(PeerOf[serving[w]])
    BY <1>12 DEF GuardReleases
  <2>2. Holders' = Holders \ {serving[w]}
    BY <1>12, <1>s, <2>1 DEF GuardReleases, HFinish
  <2>3. serving[w] \in Holders
    BY <2>1 DEF Holders, Served
  <2> QED
    BY <2>1, <2>2, <2>3, SlotReturned
<1>13. ASSUME NEW w \in Worker, Leave(w) PROVE SlotsMatch'
  <2>1. Holders' = Holders
    BY <1>13, <1>s, HandoffStatus DEF Leave, HLeave
  <2> QED
    BY <1>13, <2>1, SlotsUnmoved DEF Leave
<1>14. ASSUME NEW w \in Worker, HandlerEnds(w) PROVE SlotsMatch'
  <2>1. Pending' = Pending
    BY <1>14 DEF HandlerEnds, Pending
  <2> QED
    BY <1>14, <1>u, <2>1, SlotsUnmoved DEF HandlerEnds
<1>15. CASE UNCHANGED vars
  <2>1. Pending' = Pending
    BY <1>15 DEF vars, Pending
  <2> QED
    BY <1>15, <1>u, <2>1, SlotsUnmoved DEF vars
<1> QED
  BY <1>1, <1>2, <1>3, <1>4, <1>5, <1>6, <1>7, <1>8, <1>9, <1>10, <1>11,
     <1>12, <1>13, <1>14, <1>15 DEF Next, AcceptLoopStep, WorkerStep

\* The inductive invariant behind the limiter's correctness: the counts are
\* right because each slot has one owner that gives it back once.
SlotInv == TypeOK /\ OneOwner /\ SlotsMatch

\* Ownership and counts together are an invariant of the server.
LEMMA SlotInvariant == Spec => []SlotInv
<1>1. Init => SlotInv
  BY InitType, InitOwner, InitSlots DEF SlotInv
<1>2. SlotInv /\ [Next]_vars => SlotInv'
  BY StepType, StepOwner, StepSlots DEF SlotInv
<1> QED
  BY <1>1, <1>2, PTL DEF Spec

\* No slot leaks and none is released twice, on any path.
THEOREM SlotConservation == Spec => []SlotsMatch
<1>1. SlotInv => SlotsMatch
  BY DEF SlotInv
<1> QED
  BY SlotInvariant, <1>1, PTL

-----------------------------------------------------------------------------
(* The limit.                                                              *)

CountsWithinLimit == \A a \in Addr : inflight[a] <= Limit

\* Only try_acquire raises a count, and only below the limit.
LEMMA StepLimit ==
  TypeOK /\ CountsWithinLimit /\ [Next]_vars => CountsWithinLimit'
<1> SUFFICES ASSUME TypeOK, CountsWithinLimit, [Next]_vars, NEW a \in Addr
             PROVE  inflight'[a] <= Limit
  BY DEF CountsWithinLimit
<1>1. inflight \in [Addr -> Nat] /\ inflight[a] \in Nat /\ inflight[a] <= Limit /\ Limit \in Nat
  BY LimitPositive DEF TypeOK, CountsWithinLimit
<1>2. CASE TryAcquire
  <2>1. CASE MayAcquire(PeerOf[cur]) /\ inflight' = Acquired(PeerOf[cur])
    <3>1. a # Unknown
      BY PeerAddresses
    <3>2. CASE PeerOf[cur] = a
      BY <1>1, <2>1, <3>1, <3>2 DEF MayAcquire, Acquired
    <3>3. CASE PeerOf[cur] # a
      BY <1>1, <2>1, <3>3 DEF Acquired
    <3> QED
      BY <3>2, <3>3
  <2>2. CASE UNCHANGED inflight
    BY <1>1, <2>2
  <2> QED
    BY <1>2, <2>1, <2>2 DEF TryAcquire
<1>3. ASSUME NEW b, inflight' = Released(b) PROVE inflight'[a] <= Limit
  BY <1>1, <1>3 DEF Released
<1>4. CASE UNCHANGED inflight
  BY <1>1, <1>4
<1> QED
  BY <1>2, <1>3, <1>4
     DEF Next, AcceptLoopStep, WorkerStep, Accept, AcceptFails, AcceptAgain, TryPush,
         ReleaseRefused, EnterAcceptLoop, CloseQueue, JoinWorkers, StartWorker,
         HandlerEnds, Pop, GuardReleases, Leave, vars

\* The counts stay within the limit in every behaviour.
LEMMA LimitInvariant == Spec => [](SlotInv /\ CountsWithinLimit)
<1>1. Init => CountsWithinLimit
  BY LimitPositive DEF Init, CountsWithinLimit
<1>2. SlotInv /\ CountsWithinLimit /\ [Next]_vars => CountsWithinLimit'
  BY StepLimit DEF SlotInv
<1> QED
  BY <1>1, <1>2, SlotInvariant, PTL DEF Spec

\* max_connections_per_ip really bounds the queued-or-active connections of
\* one address, for every number of workers and every interleaving.
THEOREM PerIpLimit == Spec => []PerIpCap
<1>1. SlotInv /\ CountsWithinLimit => PerIpCap
  BY DEF SlotInv, SlotsMatch, CountsWithinLimit, PerIpCap
<1> QED
  BY LimitInvariant, <1>1, PTL

\* One address cannot hold every worker, provided the pool has more workers
\* than the limit allows connections: the condition the code does not check.
THEOREM PoolIsShared ==
  ASSUME Limit < Cardinality(Worker)
  PROVE  Spec => []NoMonopoly
<1>1. ASSUME SlotInv, CountsWithinLimit PROVE NoMonopoly
  <2> SUFFICES ASSUME NEW a \in Addr,
                      \A w \in Worker : serving[w] \in Socket /\ PeerOf[serving[w]] = a
               PROVE  FALSE
    BY DEF NoMonopoly
  <2>1. Cardinality(HoldersOf(a)) <= Limit
    BY <1>1 DEF SlotInv, SlotsMatch, CountsWithinLimit
  <2>2. IsFiniteSet(HoldersOf(a)) /\ Cardinality(HoldersOf(a)) \in Nat
    BY <1>1, HoldersFinite DEF SlotInv
  <2> DEFINE f == [w \in Worker |-> serving[w]]
  <2>3. f \in [Worker -> HoldersOf(a)]
    BY DEF HoldersOf, Holders, Served
  <2>4. \A v, w \in Worker : f[v] = f[w] => v = w
    BY <1>1 DEF SlotInv, OneOwner
  <2>5. f \in Injection(Worker, HoldersOf(a))
    BY <2>3, <2>4 DEF Injection, IsInjective
  <2>6. Cardinality(Worker) <= Cardinality(HoldersOf(a))
    BY <2>2, <2>5, FS_Injection
  <2>7. Cardinality(Worker) \in Nat
    BY ServerWorkers, FS_CardinalityType
  <2> QED
    BY <2>1, <2>2, <2>6, <2>7, LimitPositive
<1> QED
  BY LimitInvariant, <1>1, PTL

\* The limiter turns away no connection that would have fitted the limit.
THEOREM RefusalsAreJustified == Spec => TurnedOnlyAtLimit
<1>1. ASSUME SlotInv, CountsWithinLimit, [Next]_vars
      PROVE  [\A c \in turned' \ turned :
                PeerOf[c] \in Addr /\ Cardinality(HoldersOf(PeerOf[c])) = Limit]_vars
  <2> SUFFICES ASSUME NEW c \in turned' \ turned
               PROVE  PeerOf[c] \in Addr /\ Cardinality(HoldersOf(PeerOf[c])) = Limit
    OBVIOUS
  <2>1. TryAcquire /\ ~MayAcquire(PeerOf[cur]) /\ c = cur
    BY <1>1 DEF Next, AcceptLoopStep, WorkerStep, Accept, AcceptFails, AcceptAgain,
         TryAcquire, TryPush, ReleaseRefused, EnterAcceptLoop, CloseQueue, JoinWorkers,
         StartWorker, HandlerEnds, Pop, GuardReleases, Leave, vars
  <2>2. PeerOf[c] \in Addr /\ ~(inflight[PeerOf[c]] < Limit)
    BY <1>1, <2>1, PeerAddresses DEF MayAcquire, TryAcquire, SlotInv, TypeOK
  <2>3. inflight[PeerOf[c]] \in Nat /\ inflight[PeerOf[c]] <= Limit
    BY <1>1, <2>2 DEF SlotInv, TypeOK, CountsWithinLimit
  <2>4. inflight[PeerOf[c]] = Limit
    BY <2>2, <2>3, LimitPositive
  <2> QED
    BY <1>1, <2>2, <2>4 DEF SlotInv, SlotsMatch
<1> QED
  BY LimitInvariant, <1>1, PTL DEF Spec, TurnedOnlyAtLimit

-----------------------------------------------------------------------------
(* Descriptors and the end of server::run.                                 *)

\* A refused socket is destroyed before its slot is given back.
RefusedIsClosed == acc = "release" => cur \notin fds

\* Workers leave a closed and drained queue only, and the accept loop is
\* done only after all of them have left.
ShutOrder ==
    /\ acc \in {"join", "done"} => ~open
    /\ (\E w \in Worker : serving[w] = "gone") => ~open /\ queue = <<>>
    /\ acc = "done" => \A w \in Worker : serving[w] = "gone"

ExitInv == SlotInv /\ OpenWithinSlots /\ RefusedIsClosed /\ ShutOrder

\* How a step changes the slot holders: only try_acquire adds one, only the
\* two releases remove one, and each removes a connection that is closed.
LEMMA HolderSteps ==
  ASSUME SlotInv, [Next]_vars, RefusedIsClosed
  PROVE  /\ Holders \ Holders' \subseteq Socket \ fds
         /\ acc = "acquire" /\ acc' = "push" => cur \in Holders'
<1> USE DEF SlotInv
<1>u. ASSUME UNCHANGED <<queue, serving>>, Pending' = Pending PROVE Holders' = Holders
  BY <1>u DEF Holders, Queued, Served
<1>1. CASE TryAcquire
  <2>1. Queued' = Queued /\ Served' = Served /\ Pending = {}
    BY <1>1 DEF TryAcquire, Queued, Served, Pending
  <2>2. acc' = "push" => Pending' = {cur}
    BY <1>1 DEF TryAcquire, Pending
  <2> QED
    BY <2>1, <2>2 DEF Holders
<1>2. CASE TryPush
  <2>1. CASE HTake(cur) /\ acc' = "accept" /\ cur' = None
    <3>1. Queued' = Queued \cup {cur} /\ Served' = Served
      BY <1>2, <2>1, OwnerTake
    <3>2. Pending = {cur} /\ Pending' = {}
      BY <1>2, <2>1 DEF TryPush, Pending
    <3> QED
      BY <1>2, <3>1, <3>2 DEF Holders, TryPush
  <2>2. CASE HRefuse(cur) /\ acc' = "release" /\ UNCHANGED cur
    <3>1. Pending' = Pending
      BY <1>2, <2>2 DEF TryPush, Pending
    <3> QED
      BY <1>2, <1>u, <2>2, <3>1 DEF HRefuse, TryPush
  <2> QED
    BY <1>2, <2>1, <2>2 DEF TryPush
<1>3. CASE ReleaseRefused
  <2>1. Pending = {cur} /\ Pending' = {} /\ cur \in Socket \ fds /\ acc = "release"
    BY <1>3 DEF ReleaseRefused, Pending, RefusedIsClosed, TypeOK
  <2>2. Queued' = Queued /\ Served' = Served
    BY <1>3 DEF ReleaseRefused, Queued, Served
  <2> QED
    BY <2>1, <2>2 DEF Holders
<1>4. ASSUME NEW w \in Worker, Pop(w)
      PROVE  Holders' = Holders /\ acc' = acc
  <2>1. Queued' \cup Served' = Queued \cup Served
    BY <1>4, OwnerPop
  <2>2. Pending' = Pending /\ acc' = acc
    BY <1>4 DEF Pop, Pending
  <2> QED
    BY <2>1, <2>2 DEF Holders
<1>5. ASSUME NEW w \in Worker, GuardReleases(w)
      PROVE  Holders \ Holders' \subseteq Socket \ fds /\ acc' = acc
  <2>1. Queued' = Queued /\ Served' = Served \ {serving[w]}
    BY <1>5, OwnerIdle DEF GuardReleases, HFinish
  <2>2. Pending' = Pending /\ acc' = acc /\ serving[w] \in Socket \ fds
    BY <1>5 DEF GuardReleases, Pending
  <2> QED
    BY <2>1, <2>2 DEF Holders
<1>6. ASSUME NEW w \in Worker, StartWorker(w) \/ Leave(w)
      PROVE  Holders' = Holders /\ acc' = acc
  <2>1. Queued' = Queued /\ Served' = Served \ {serving[w]}
    BY <1>6, OwnerIdle DEF StartWorker, HEnter, Leave, HLeave
  <2>2. serving[w] \notin Served
    BY <1>6, HandoffStatus DEF StartWorker, HEnter, Leave, HLeave, Served
  <2>3. Pending' = Pending /\ acc' = acc
    BY <1>6 DEF StartWorker, Leave, Pending
  <2> QED
    BY <2>1, <2>2, <2>3 DEF Holders
<1>7. ASSUME \/ \E c \in Socket : Accept(c)
             \/ AcceptFails \/ AcceptAgain \/ EnterAcceptLoop \/ CloseQueue \/ JoinWorkers
             \/ \E w \in Worker : HandlerEnds(w)
             \/ UNCHANGED vars
      PROVE  Holders' = Holders /\ ~(acc = "acquire" /\ acc' = "push")
  <2>1. Pending' = Pending /\ UNCHANGED <<queue, serving>>
    BY <1>7 DEF Accept, AcceptFails, AcceptAgain, EnterAcceptLoop, CloseQueue, HShut,
       JoinWorkers, HandlerEnds, vars, Pending
  <2>2. ~(acc = "acquire" /\ acc' = "push")
    BY <1>7 DEF Accept, AcceptFails, AcceptAgain, EnterAcceptLoop, CloseQueue,
       JoinWorkers, HandlerEnds, vars
  <2> QED
    BY <1>u, <2>1, <2>2
<1> QED
  BY <1>1, <1>2, <1>3, <1>4, <1>5, <1>6, <1>7 DEF Next, AcceptLoopStep, WorkerStep

\* An open descriptor is covered by a slot or is about to be decided on.
LEMMA StepOpen ==
  ASSUME SlotInv, OpenWithinSlots, RefusedIsClosed, [Next]_vars
  PROVE  OpenWithinSlots' /\ RefusedIsClosed'
<1>1. /\ Holders \ Holders' \subseteq Socket \ fds
      /\ acc = "acquire" /\ acc' = "push" => cur \in Holders'
  BY HolderSteps
<1>2. ASSUME fds' \subseteq fds,
             acc = "acquire" => (acc' = "acquire" /\ cur' = cur) \/ acc' = "push" \/ cur \notin fds'
      PROVE  OpenWithinSlots'
  BY <1>1, <1>2 DEF OpenWithinSlots
<1>3. ASSUME NEW c \in Socket, Accept(c) PROVE OpenWithinSlots' /\ RefusedIsClosed'
  BY <1>1, <1>3 DEF Accept, OpenWithinSlots, RefusedIsClosed
<1>4. CASE TryAcquire
  BY <1>2, <1>4 DEF TryAcquire, RefusedIsClosed
<1>5. CASE TryPush
  BY <1>2, <1>5 DEF TryPush, RefusedIsClosed
<1>6. ASSUME AcceptFails \/ AcceptAgain \/ EnterAcceptLoop \/ CloseQueue \/ JoinWorkers \/ ReleaseRefused
      PROVE  OpenWithinSlots' /\ RefusedIsClosed'
  BY <1>2, <1>6 DEF AcceptFails, AcceptAgain, EnterAcceptLoop, CloseQueue, JoinWorkers,
     ReleaseRefused, RefusedIsClosed
<1>7. ASSUME NEW w \in Worker,
             StartWorker(w) \/ Pop(w) \/ GuardReleases(w) \/ Leave(w) \/ HandlerEnds(w)
      PROVE  OpenWithinSlots' /\ RefusedIsClosed'
  BY <1>2, <1>7 DEF StartWorker, Pop, GuardReleases, Leave, HandlerEnds, RefusedIsClosed
<1>8. CASE UNCHANGED vars
  BY <1>2, <1>8 DEF vars, RefusedIsClosed
<1> QED
  BY <1>3, <1>4, <1>5, <1>6, <1>7, <1>8 DEF Next, AcceptLoopStep, WorkerStep

\* The queue is closed first, drained next, and joined last.
LEMMA StepShut == TypeOK /\ ShutOrder /\ [Next]_vars => ShutOrder'
<1> SUFFICES ASSUME TypeOK, ShutOrder, [Next]_vars PROVE ShutOrder'
  OBVIOUS
<1> USE DEF ShutOrder
<1>t. /\ serving \in [Worker -> Socket \cup Status] /\ open \in BOOLEAN
      /\ "gone" \notin Socket /\ "gone" # "idle"
  BY HandoffStatus DEF TypeOK
<1>1. ASSUME UNCHANGED <<open, queue, serving>>, acc' \in {"join", "done"} => acc' = acc
      PROVE  ShutOrder'
  BY <1>1
<1>2. CASE JoinWorkers
  BY <1>2 DEF JoinWorkers
<1>3. CASE CloseQueue
  BY <1>3 DEF CloseQueue, HShut
<1>4. CASE TryPush
  BY <1>4, <1>1 DEF TryPush, HTake, HRefuse
<1>5. ASSUME NEW w \in Worker, Pop(w) PROVE ShutOrder'
  <2>1. \A v \in Worker : serving'[v] = IF v = w THEN Head(queue) ELSE serving[v]
    BY <1>5, <1>t DEF Pop, HServe
  <2>2. queue # <<>> /\ UNCHANGED <<open, acc>> /\ Head(queue) \in Socket /\ serving[w] = "idle"
    BY <1>5 DEF Pop, HServe, TypeOK
  <2>3. \A v \in Worker : serving'[v] # "gone"
    BY <1>t, <2>1, <2>2
  <2>4. acc # "done"
    BY <1>t, <2>2
  <2> QED
    BY <2>2, <2>3, <2>4
<1>6. ASSUME NEW w \in Worker, StartWorker(w) \/ GuardReleases(w)
      PROVE  ShutOrder'
  <2>1. \A v \in Worker : serving'[v] = IF v = w THEN "idle" ELSE serving[v]
    BY <1>6, <1>t DEF StartWorker, GuardReleases, HEnter, HFinish
  <2>2. UNCHANGED <<open, acc, queue>> /\ serving[w] # "gone"
    BY <1>6, <1>t DEF StartWorker, GuardReleases, HEnter, HFinish
  <2> QED
    BY <1>t, <2>1, <2>2
<1>7. ASSUME NEW w \in Worker, Leave(w) PROVE ShutOrder'
  <2>1. \A v \in Worker : serving'[v] = IF v = w THEN "gone" ELSE serving[v]
    BY <1>7, <1>t DEF Leave, HLeave
  <2>2. UNCHANGED <<open, acc, queue>> /\ ~open /\ queue = <<>>
    BY <1>7 DEF Leave, HLeave
  <2> QED
    BY <2>1, <2>2
<1>8. ASSUME \/ \E c \in Socket : Accept(c)
             \/ AcceptFails \/ AcceptAgain \/ TryAcquire \/ ReleaseRefused \/ EnterAcceptLoop
             \/ \E w \in Worker : HandlerEnds(w)
             \/ UNCHANGED vars
      PROVE  ShutOrder'
  BY <1>1, <1>8 DEF Accept, AcceptFails, AcceptAgain, TryAcquire, ReleaseRefused,
     EnterAcceptLoop, HandlerEnds, vars
<1> QED
  BY <1>2, <1>3, <1>4, <1>5, <1>6, <1>7, <1>8 DEF Next, AcceptLoopStep, WorkerStep

\* Slots, descriptors and the order of the shutdown, as one invariant.
LEMMA ExitInvariant == Spec => []ExitInv
<1>1. Init => OpenWithinSlots /\ RefusedIsClosed /\ ShutOrder
  BY DEF Init, HInit, OpenWithinSlots, RefusedIsClosed, ShutOrder
<1>2. SlotInv /\ OpenWithinSlots /\ RefusedIsClosed /\ ShutOrder /\ [Next]_vars
        => (OpenWithinSlots /\ RefusedIsClosed /\ ShutOrder)'
  BY StepOpen, StepShut DEF SlotInv
<1> QED
  BY <1>1, <1>2, SlotInvariant, PTL DEF Spec, ExitInv

\* The limit on slots is a limit on descriptors: none stays open without one.
THEOREM DescriptorsAreCounted == Spec => []OpenWithinSlots
<1>1. ExitInv => OpenWithinSlots
  BY DEF ExitInv
<1> QED
  BY ExitInvariant, <1>1, PTL

\* When server::run has unwound, every slot has been given back, every
\* descriptor is closed and nothing is left in the queue.
THEOREM ExitIsClean == Spec => []CleanExit
<1>1. ASSUME ExitInv PROVE CleanExit
  <2> SUFFICES ASSUME acc = "done"
               PROVE  queue = <<>> /\ fds = {} /\ \A a \in Addr : inflight[a] = 0
    BY DEF CleanExit
  <2>1. \A w \in Worker : serving[w] = "gone"
    BY <1>1 DEF ExitInv, ShutOrder
  <2>2. queue = <<>>
    BY <1>1, <2>1, ServerWorkers DEF ExitInv, ShutOrder
  <2>3. Holders = {}
    BY <2>1, <2>2, HandoffStatus DEF Holders, Queued, Served, Pending
  <2>4. fds = {}
    BY <1>1, <2>3 DEF ExitInv, OpenWithinSlots
  <2>5. \A a \in Addr : HoldersOf(a) = {}
    BY <2>3 DEF HoldersOf
  <2>6. \A a \in Addr : inflight[a] = 0
    BY <1>1, <2>5, FS_EmptySet DEF ExitInv, SlotInv, SlotsMatch
  <2> QED
    BY <2>2, <2>4, <2>6
<1> QED
  BY ExitInvariant, <1>1, PTL
=============================================================================
