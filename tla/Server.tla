------------------------------- MODULE Server -------------------------------
(***************************************************************************)
(* app::server: the accept loop, the per-IP connection limiter and the     *)
(* workers' release guard, on top of the hand-off of module Handoff.       *)
(*                                                                         *)
(* The accept loop is one thread, the main thread, so it is also the one   *)
(* that unwinds server::run after a fatal accept() error: it closes the    *)
(* queue and joins the workers.  The limiter is shared by that thread and  *)
(* by every worker; each of its operations is one critical section.        *)
(***************************************************************************)
EXTENDS Handoff, FiniteSets

CONSTANTS
    Addr,       \* textual peer addresses
    Unknown,    \* the empty address: getpeername formatting failed
    PeerOf,     \* peer address of each client socket
    Limit,      \* max_connections_per_ip
    None        \* the accept loop holds no socket

ASSUME SocketsFinite == IsFiniteSet(Socket)
ASSUME ServerWorkers == IsFiniteSet(Worker) /\ Worker # {}
ASSUME PeerAddresses == Unknown \notin Addr /\ PeerOf \in [Socket -> Addr \cup {Unknown}]
\* ip_connection_limiter.cpp:14 throws on a zero limit.
ASSUME LimitPositive == Limit \in Nat \ {0}
ASSUME ServerNone == None \notin Socket

VARIABLES
    inflight,   \* ip_connection_limiter::_inflight_by_ip; 0 is "no entry"
    acc,        \* where the accept loop is
    cur,        \* the socket the accept loop works on
    fds,        \* client sockets whose descriptor is open in this process
    turned      \* sockets turned away by the limiter

limiterVars == inflight
accVars == <<acc, cur>>
vars == <<queue, open, serving, unoffered, inflight, acc, cur, fds, turned>>

AccPC == {"start", "accept", "retry", "acquire", "push", "release",
          "unwind", "join", "done"}

TypeOK ==
    /\ queue \in Seq(Socket)
    /\ open \in BOOLEAN
    /\ serving \in [Worker -> Socket \cup Status]
    /\ unoffered \subseteq Socket
    /\ inflight \in [Addr -> Nat]
    /\ acc \in AccPC
    /\ cur \in Socket \cup {None}
    /\ acc \in {"acquire", "push", "release"} => cur \in Socket
    /\ fds \subseteq Socket
    /\ turned \subseteq Socket

Init ==
    /\ HInit
    /\ inflight = [a \in Addr |-> 0]
    /\ acc = "start"
    /\ cur = None
    /\ fds = {}
    /\ turned = {}

-----------------------------------------------------------------------------
(* ip_connection_limiter.                                                  *)

\* Defects: the limit is one too high, or one too low.
MayAcquireOneMore(a) == a # Unknown => inflight[a] <= Limit
MayAcquireOneLess(a) == a # Unknown => inflight[a] + 1 < Limit

\* try_acquire succeeds: an unknown peer is never counted.
MayAcquire(a) == a # Unknown => inflight[a] < Limit

Acquired(a) ==
    IF a = Unknown THEN inflight ELSE [inflight EXCEPT ![a] = @ + 1]

\* release: an unknown or absent peer changes nothing; the last connection
\* of a peer erases its entry.
Released(a) ==
    IF a = Unknown \/ inflight[a] = 0 THEN inflight
    ELSE [inflight EXCEPT ![a] = @ - 1]

-----------------------------------------------------------------------------
(* The accept loop.                                                        *)

\* worker_pool's constructor starts the threads before accept_loop begins.
StartWorker(w) ==
    /\ acc = "start"
    /\ HEnter(w)
    /\ UNCHANGED <<limiterVars, accVars, fds, turned>>

EnterAcceptLoop ==
    /\ acc = "start"
    /\ \A w \in Worker : serving[w] # "off"
    /\ acc' = "accept"
    /\ UNCHANGED <<hvars, limiterVars, cur, fds, turned>>

\* listener::accept returns a connection of the kernel's backlog.
Accept(c) ==
    /\ acc = "accept"
    /\ c \in unoffered \ turned
    /\ acc' = "acquire"
    /\ cur' = c
    /\ fds' = fds \cup {c}
    /\ UNCHANGED <<hvars, limiterVars, turned>>

\* accept() failed: a transient error pauses the loop, a fatal one throws
\* out of server::run.
AcceptFails ==
    /\ acc = "accept"
    /\ acc' \in {"retry", "unwind"}
    /\ UNCHANGED <<hvars, limiterVars, cur, fds, turned>>

\* accept_retry_delay is over.
AcceptAgain ==
    /\ acc = "retry"
    /\ acc' = "accept"
    /\ UNCHANGED <<hvars, limiterVars, cur, fds, turned>>

\* try_acquire: go on to the queue, or report and drop the connection.
TryAcquire ==
    /\ acc = "acquire"
    /\ \/ /\ MayAcquire(PeerOf[cur])
          /\ inflight' = Acquired(PeerOf[cur])
          /\ acc' = "push"
          /\ UNCHANGED <<cur, fds, turned>>
       \/ /\ ~MayAcquire(PeerOf[cur])
          /\ acc' = "accept"
          /\ cur' = None
          /\ fds' = fds \ {cur}
          /\ turned' = turned \cup {cur}
          /\ UNCHANGED limiterVars
    /\ UNCHANGED hvars

\* Defect: the accept loop uses the blocking push.
TryPushBlocks ==
    /\ acc = "push"
    /\ HTake(cur)
    /\ acc' = "accept"
    /\ cur' = None
    /\ UNCHANGED <<limiterVars, fds, turned>>

\* try_push: queued, or full or closed and then the socket is destroyed
\* before its slot is given back.
TryPush ==
    /\ acc = "push"
    /\ \/ /\ HTake(cur)
          /\ acc' = "accept"
          /\ cur' = None
          /\ UNCHANGED fds
       \/ /\ HRefuse(cur)
          /\ acc' = "release"
          /\ fds' = fds \ {cur}
          /\ UNCHANGED cur
    /\ UNCHANGED <<limiterVars, turned>>

\* Defect: the slot of a refused connection is kept.
ReleaseRefusedMissing ==
    /\ acc = "release"
    /\ acc' = "accept"
    /\ cur' = None
    /\ UNCHANGED <<hvars, limiterVars, fds, turned>>

\* release after a refused push; the refusal is reported.
ReleaseRefused ==
    /\ acc = "release"
    /\ inflight' = Released(PeerOf[cur])
    /\ acc' = "accept"
    /\ cur' = None
    /\ UNCHANGED <<hvars, fds, turned>>

\* Defect: the workers are joined with the queue still open.
CloseQueueMissing ==
    /\ acc = "unwind"
    /\ acc' = "join"
    /\ UNCHANGED <<hvars, limiterVars, cur, fds, turned>>

\* The exception leaves server::run: ~worker_pool closes the queue ...
CloseQueue ==
    /\ acc = "unwind"
    /\ HShut
    /\ acc' = "join"
    /\ UNCHANGED <<limiterVars, cur, fds, turned>>

\* Defect: the threads are detached.
JoinWorkersMissing ==
    /\ acc = "join"
    /\ acc' = "done"
    /\ UNCHANGED <<hvars, limiterVars, cur, fds, turned>>

\* ... and joins the workers; main reports the error and returns 1.
JoinWorkers ==
    /\ acc = "join"
    /\ \A w \in Worker : serving[w] = "gone"
    /\ acc' = "done"
    /\ UNCHANGED <<hvars, limiterVars, cur, fds, turned>>

-----------------------------------------------------------------------------
(* The workers: the lambda server::run gives to worker_pool.               *)

Pop(w) ==
    /\ HServe(w)
    /\ UNCHANGED <<limiterVars, accVars, fds, turned>>

\* handle_connection returned or threw: its stream, which owns the
\* descriptor, is destroyed first.
HandlerEnds(w) ==
    /\ serving[w] \in fds
    /\ fds' = fds \ {serving[w]}
    /\ UNCHANGED <<hvars, limiterVars, accVars, turned>>

\* ~ip_limit_release_guard, on both paths; then the worker pops again.
GuardReleases(w) ==
    /\ serving[w] \in Socket \ fds
    /\ inflight' = Released(PeerOf[serving[w]])
    /\ HFinish(w)
    /\ UNCHANGED <<accVars, fds, turned>>

Leave(w) ==
    /\ HLeave(w)
    /\ UNCHANGED <<limiterVars, accVars, fds, turned>>

-----------------------------------------------------------------------------
AcceptLoopStep ==
    \/ AcceptAgain \/ TryAcquire \/ TryPush \/ ReleaseRefused
    \/ EnterAcceptLoop \/ CloseQueue \/ JoinWorkers

WorkerStep(w) == Pop(w) \/ GuardReleases(w) \/ Leave(w)

Next ==
    \/ \E c \in Socket : Accept(c)
    \/ AcceptFails
    \/ AcceptLoopStep
    \/ \E w \in Worker : StartWorker(w) \/ WorkerStep(w) \/ HandlerEnds(w)

Spec == Init /\ [][Next]_vars

\* The accept loop's thread keeps running: nothing in it waits for a worker
\* except the final join.
AcceptLoopFairness == WF_vars(AcceptLoopStep)

\* Worker threads keep running; a connection handler need not return.
WorkerFairness == \A w \in Worker : WF_vars(WorkerStep(w))

\* Every connection ends: the peer closes, fails or runs into a timeout.
HandlersReturn == \A w \in Worker : WF_vars(HandlerEnds(w))

\* Worker threads keep running and every connection ends; assumed only where
\* a worker's progress is at stake.
WorkersProgress == WorkerFairness /\ HandlersReturn

AcceptorSpec == Spec /\ AcceptLoopFairness

-----------------------------------------------------------------------------
(* Properties.                                                             *)

Queued == {queue[i] : i \in 1..Len(queue)}
Served == {c \in Socket : \E w \in Worker : serving[w] = c}
Pending == IF acc \in {"push", "release"} THEN {cur} ELSE {}

\* The connections whose slot has been taken and not given back.
Holders == Pending \cup Queued \cup Served
HoldersOf(a) == {c \in Holders : PeerOf[c] = a}

\* The limiter's count of a peer is the number of its connections between
\* try_acquire and release, over queue-full and queue-closed refusals,
\* handler exceptions and concurrent releases: no slot leaks and none is
\* given back twice.
SlotsMatch == \A a \in Addr : inflight[a] = Cardinality(HoldersOf(a))

\* max_connections_per_ip bounds the accepted queued-or-active connections
\* of one address (config.h:37).
PerIpCap == \A a \in Addr : Cardinality(HoldersOf(a)) <= Limit

\* A slot outlives the descriptor it stands for: the open sockets of one
\* address past admission never exceed the limit either.
OpenWithinSlots ==
    \A c \in fds : c \in Holders \/ (c = cur /\ acc = "acquire")

\* A connection has one owner: it is in one place of the queue, served by
\* one worker, or in the hands of the accept loop.
OneOwner ==
    /\ \A i, j \in 1..Len(queue) : queue[i] = queue[j] => i = j
    /\ \A v, w \in Worker : serving[v] = serving[w] /\ serving[v] \in Socket => v = w
    /\ Queued \cap Served = {}
    /\ Pending \cap (Queued \cup Served) = {}
    /\ unoffered \cap (Queued \cup Served) = {}
    /\ acc \in {"acquire", "push"} => cur \in unoffered
    /\ acc = "release" => cur \notin unoffered

\* A connection is turned away by the limiter only while its peer really
\* holds Limit other connections.
TurnedOnlyAtLimit ==
    [][\A c \in turned' \ turned :
          PeerOf[c] \in Addr /\ Cardinality(HoldersOf(PeerOf[c])) = Limit]_vars

\* When server::run has unwound, no slot, descriptor or queued socket is
\* left, whatever was queued or being served at the fatal error.
CleanExit ==
    acc = "done" => queue = <<>> /\ fds = {} /\ \A a \in Addr : inflight[a] = 0

\* One address does not hold every worker (config.h:40-41).
NoMonopoly ==
    \A a \in Addr : \E w \in Worker :
        ~(serving[w] \in Socket /\ PeerOf[serving[w]] = a)

\* The accept loop never waits for a worker: every accepted connection is
\* decided on even if no handler ever returns.
AdmissionDecides == acc \in {"acquire", "push", "release"} ~> acc = "accept"

\* After a fatal accept() error the process comes to its end, if the handlers
\* in progress do.
FatalErrorEnds == WorkersProgress => (acc = "unwind" ~> acc = "done")

=============================================================================
