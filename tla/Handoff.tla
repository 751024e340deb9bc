------------------------------ MODULE Handoff ------------------------------
(***************************************************************************)
(* What the hand-off between the accept loop and the worker pool promises, *)
(* without mutexes, condition variables or stop tokens: a bounded FIFO of  *)
(* accepted sockets that refuses instead of growing, never drops a socket  *)
(* it took, serves each one once, and lets a worker leave only when the    *)
(* channel is shut and nothing is left to serve.                           *)
(*                                                                         *)
(* WorkQueue implements this specification; Server is built on it.         *)
(***************************************************************************)
EXTENDS Naturals, Sequences

CONSTANTS
    Socket,     \* accepted client sockets
    Worker,     \* worker threads
    Capacity    \* connection_queue_capacity

\* work_queue.cpp:19 throws on a zero capacity.
ASSUME HandoffCapacity == Capacity \in Nat \ {0}

Status == {"off", "idle", "gone"}

\* A worker's status is never mistaken for the socket it serves.
ASSUME HandoffStatus == Status \cap Socket = {}

VARIABLES
    queue,      \* sockets taken by the channel and not served yet, oldest first
    open,       \* the channel still takes sockets
    serving,    \* what each worker does: a socket, or a Status
    unoffered   \* sockets the producer side still owns

hvars == <<queue, open, serving, unoffered>>

HInit ==
    /\ queue = <<>>
    /\ open = TRUE
    /\ serving = [w \in Worker |-> "off"]
    /\ unoffered = Socket

\* A worker thread starts.
HEnter(w) ==
    /\ serving[w] = "off"
    /\ serving' = [serving EXCEPT ![w] = "idle"]
    /\ UNCHANGED <<queue, open, unoffered>>

\* The channel takes a socket.
HTake(s) ==
    /\ open
    /\ s \in unoffered
    /\ Len(queue) < Capacity
    /\ queue' = Append(queue, s)
    /\ unoffered' = unoffered \ {s}
    /\ UNCHANGED <<open, serving>>

\* The channel is shut or full: the producer's socket is destroyed.
HRefuse(s) ==
    /\ s \in unoffered
    /\ ~open \/ Len(queue) = Capacity
    /\ unoffered' = unoffered \ {s}
    /\ UNCHANGED <<queue, open, serving>>

\* An idle worker starts serving the oldest socket.
HServe(w) ==
    /\ serving[w] = "idle"
    /\ queue # <<>>
    /\ serving' = [serving EXCEPT ![w] = Head(queue)]
    /\ queue' = Tail(queue)
    /\ UNCHANGED <<open, unoffered>>

\* The handler returned or threw; the worker is idle again.
HFinish(w) ==
    /\ serving[w] \in Socket
    /\ serving' = [serving EXCEPT ![w] = "idle"]
    /\ UNCHANGED <<queue, open, unoffered>>

\* No further socket is taken.
HShut ==
    /\ open
    /\ open' = FALSE
    /\ UNCHANGED <<queue, serving, unoffered>>

\* A worker leaves for good, only from a shut and drained channel.
HLeave(w) ==
    /\ serving[w] = "idle"
    /\ ~open
    /\ queue = <<>>
    /\ serving' = [serving EXCEPT ![w] = "gone"]
    /\ UNCHANGED <<queue, open, unoffered>>

HNext ==
    \/ \E s \in Socket : HTake(s) \/ HRefuse(s)
    \/ \E w \in Worker : HEnter(w) \/ HServe(w) \/ HFinish(w) \/ HLeave(w)
    \/ HShut

HSpec == HInit /\ [][HNext]_hvars

\* A queued socket does not wait while a worker is idle, and every worker
\* leaves a shut channel.
HFairness ==
    /\ WF_hvars(\E w \in Worker : HServe(w))
    /\ \A w \in Worker : WF_hvars(HLeave(w))

HFairSpec == HSpec /\ HFairness
=============================================================================
