------------------------------ MODULE Pipeline ------------------------------
(***************************************************************************)
(* app::request_pipeline over app::dynamic_module over the C++ module      *)
(* adapter of include/garcon/module_cpp.h: loading the configured modules, *)
(* running requests of several worker threads through them, unloading.     *)
(*                                                                         *)
(* A module's result crosses the C ABI as views into thread_local storage; *)
(* the host copies what the views show in a later step.  The storage is    *)
(* modelled as one object per thread, the most shared form a build can     *)
(* give it: the inline function's object may be one per library or one for *)
(* all libraries of the process.                                           *)
(*                                                                         *)
(* A header or body is named after the thread, the thread's request and    *)
(* the module that made it, so a stale or foreign one is recognisable.     *)
(***************************************************************************)
EXTENDS Naturals, Sequences, FiniteSets

CONSTANTS
    Thread,         \* worker threads
    ConfFile,       \* the .conf files of modules.d, as their lexical positions
    Shape,          \* what implementations return: [next, response, extra]
    MaxRequests,    \* bound: requests each thread runs
    None            \* "no body"

ASSUME ConfFilesFinite == ConfFile \subseteq Nat /\ IsFiniteSet(ConfFile)
ASSUME RequestBound == MaxRequests \in Nat
ASSUME ShapesAreResults ==
    Shape \subseteq [next : {"pass", "respond", "upgrade", "error"},
                     response : BOOLEAN, extra : BOOLEAN]

VARIABLES
    phase,      \* life cycle of the server object's pipeline
    chain,      \* request_pipeline::_modules: the files in execution order
    lib,        \* per file: the library handle and the instance in it
    pc,         \* where each thread is in request_pipeline::handle
    turn,       \* number of the thread's current or last request
    at,         \* position of the module it calls
    seen,       \* headers of the request as the module received it
    storage,    \* what the thread_local objects of each thread hold
    view,       \* exchange.response: what the adapter published
    outcome,    \* the outcome the adapter returned
    pending,    \* pending_headers
    reply,      \* the thread's last response
    ran         \* history: results the modules produced for this request

lifeVars == <<phase, chain, lib>>
vars == <<phase, chain, lib, pc, turn, at, seen, storage, view, outcome, pending,
          reply, ran>>

Outcome == {"pass", "respond", "upgrade", "error"}
Kind == {"own", "extra"}
Tag == Thread \X (1..MaxRequests) \X ConfFile
Header == [kind : Kind, tag : Tag]
Content == [headers : Seq(Header), body : Tag \cup {None}]
NoContent == [headers |-> <<>>, body |-> None]

\* What a module's implementation returns: its outcome, whether it carries a
\* response_value, and its response_headers; torn if the adapter ran out of
\* memory while it published the response.
ModuleResult ==
    [next : Outcome, response : BOOLEAN, extra : BOOLEAN, torn : BOOLEAN, tag : Tag]

\* status 0 is the fresh exchange; headers and body say whether the views
\* point into the storage.
View == [status : {0, 1}, headers : BOOLEAN, body : BOOLEAN]
FreshView == [status |-> 0, headers |-> FALSE, body |-> FALSE]

Reply == [code : {"own", "200", "404", "500", "501"}, body : Tag \cup {None},
          headers : Seq(Header)]
NoReply == [code |-> "404", body |-> None, headers |-> <<>>]

TypeOK ==
    /\ phase \in {"config", "loading", "serving", "unloading", "exited"}
    /\ chain \in Seq(ConfFile)
    /\ lib \in [ConfFile -> {"none", "open", "live", "closed"}]
    /\ pc \in [Thread -> {"idle", "call", "copy"}]
    /\ turn \in [Thread -> 0..MaxRequests]
    /\ at \in [Thread -> Nat]
    /\ seen \in [Thread -> Seq(Header)]
    /\ storage \in [Thread -> Content]
    /\ view \in [Thread -> View]
    /\ outcome \in [Thread -> Outcome]
    /\ pending \in [Thread -> Seq(Header)]
    /\ reply \in [Thread -> Reply]
    /\ ran \in [Thread -> Seq(ModuleResult)]

Init ==
    /\ phase = "config"
    /\ chain = <<>>
    /\ lib = [f \in ConfFile |-> "none"]
    /\ pc = [t \in Thread |-> "idle"]
    /\ turn = [t \in Thread |-> 0]
    /\ at = [t \in Thread |-> 0]
    /\ seen = [t \in Thread |-> <<>>]
    /\ storage = [t \in Thread |-> NoContent]
    /\ view = [t \in Thread |-> FreshView]
    /\ outcome = [t \in Thread |-> "error"]
    /\ pending = [t \in Thread |-> <<>>]
    /\ reply = [t \in Thread |-> NoReply]
    /\ ran = [t \in Thread |-> <<>>]

-----------------------------------------------------------------------------
(* Start-up: create_request_handler.                                       *)

threadVars == <<pc, turn, at, seen, storage, view, outcome, pending, reply, ran>>

\* std::sort of the directory's .conf files.
Sorted(s) == \A i, j \in 1..Len(s) : i < j => s[i] < s[j]
\* Defect: the files are used in directory order.
DirectoryOrder ==
    {s \in [1..Cardinality(ConfFile) -> ConfFile] :
        \A i, j \in 1..Len(s) : i # j => s[i] # s[j]}

LexicalOrder == {s \in [1..Cardinality(ConfFile) -> ConfFile] : Sorted(s)}

\* load_configured_modules reads every file before any library is opened; a
\* file without a path, or an empty directory, fails the start.
ReadConfig ==
    /\ phase = "config"
    /\ \/ /\ ConfFile # {}
          /\ chain' \in LexicalOrder
          /\ phase' = "loading"
       \/ /\ phase' = "unloading"
          /\ UNCHANGED chain
    /\ UNCHANGED <<lib, threadVars>>

Loading(f) ==
    /\ phase = "loading"
    /\ \E i \in 1..Len(chain) :
          /\ chain[i] = f
          /\ \A j \in 1..(i - 1) : lib[chain[j]] = "live"

\* dlopen; a failure leaves nothing open for this module.
OpenLibrary(f) ==
    /\ Loading(f)
    /\ lib[f] = "none"
    /\ \/ /\ lib' = [lib EXCEPT ![f] = "open"]
          /\ UNCHANGED phase
       \/ /\ phase' = "unloading"
          /\ UNCHANGED lib
    /\ UNCHANGED <<chain, threadVars>>

\* Defect: a failed create() leaves the library open.
CreateInstanceLeaks(f) ==
    /\ Loading(f)
    /\ lib[f] = "open"
    /\ \/ /\ lib' = [lib EXCEPT ![f] = "live"]
          /\ UNCHANGED phase
       \/ /\ phase' = "unloading"
          /\ UNCHANGED lib
    /\ UNCHANGED <<chain, threadVars>>

\* dlsym, the descriptor's checks and create(); any failure closes the
\* library again and unwinds the modules loaded before it.
CreateInstance(f) ==
    /\ Loading(f)
    /\ lib[f] = "open"
    /\ \/ /\ lib' = [lib EXCEPT ![f] = "live"]
          /\ UNCHANGED phase
       \/ /\ lib' = [lib EXCEPT ![f] = "closed"]
          /\ phase' = "unloading"
    /\ UNCHANGED <<chain, threadVars>>

\* The server object is complete; run() starts the workers.
StartServing ==
    /\ phase = "loading"
    /\ \A f \in ConfFile : lib[f] = "live"
    /\ phase' = "serving"
    /\ UNCHANGED <<chain, lib, threadVars>>

-----------------------------------------------------------------------------
(* A request: request_pipeline::handle.                                    *)

BeginRequest(t) ==
    /\ phase = "serving"
    /\ pc[t] = "idle"
    /\ turn[t] < MaxRequests
    /\ pc' = [pc EXCEPT ![t] = "call"]
    /\ turn' = [turn EXCEPT ![t] = @ + 1]
    /\ at' = [at EXCEPT ![t] = 1]
    /\ pending' = [pending EXCEPT ![t] = <<>>]
    /\ ran' = [ran EXCEPT ![t] = <<>>]
    /\ UNCHANGED <<lifeVars, seen, storage, view, outcome, reply>>

\* The request of the client is passed to every module as it was parsed; the
\* model's requests have no headers of their own.
RequestHeaders(t) == <<>>

\* Defect: static storage instead of thread_local.
SharedSlot(t) == CHOOSE u \in Thread : TRUE

\* thread_local: each thread has its own storage.
Slot(t) == t

Own(r) == IF r.response THEN <<[kind |-> "own", tag |-> r.tag]>> ELSE <<>>
Extra(r) == IF r.extra THEN <<[kind |-> "extra", tag |-> r.tag]>> ELSE <<>>

\* detail::handle: publish_response, publish_response_headers or nothing.
Published(r, s) ==
    IF r.response THEN [headers |-> Own(r) \o Extra(r), body |-> r.tag]
    ELSE IF r.extra THEN [s EXCEPT !.headers = Extra(r)]
    ELSE s

PublishedView(r) ==
    [status |-> IF r.response THEN 1 ELSE 0,
     headers |-> r.response \/ r.extra,
     body |-> r.response]

\* publish_response that throws in publish_response_headers: the storage has
\* the new body and no headers, the exchange the status and nothing else.
TornContent(r) == [headers |-> <<>>, body |-> r.tag]
TornView == [status |-> 1, headers |-> FALSE, body |-> FALSE]

\* dynamic_module::handle calls the library with a fresh exchange; the
\* implementation may return anything its result type can hold, or throw,
\* which the adapter turns into an error that publishes nothing, as it does
\* with a failure before the status is set.  A later one is an error too.
CallModule(t) ==
    /\ pc[t] = "call"
    /\ at[t] <= Len(chain)
    /\ \E s \in Shape, torn \in BOOLEAN :
          LET next == IF torn THEN "error" ELSE s.next
              r == [next |-> next, response |-> s.response, extra |-> s.extra,
                    torn |-> torn, tag |-> <<t, turn[t], chain[at[t]]>>]
          IN /\ torn => s.response
             /\ storage' = [storage EXCEPT ![Slot(t)] = IF torn THEN TornContent(r)
                                                               ELSE Published(r, @)]
             /\ view' = [view EXCEPT ![t] = IF torn THEN TornView ELSE PublishedView(r)]
             /\ outcome' = [outcome EXCEPT ![t] = next]
             /\ ran' = [ran EXCEPT ![t] = Append(@, r)]
    /\ seen' = [seen EXCEPT ![t] = RequestHeaders(t)]
    /\ pc' = [pc EXCEPT ![t] = "copy"]
    /\ UNCHANGED <<lifeVars, turn, at, pending, reply>>

CopyHeaders(t) == IF view[t].headers THEN storage[Slot(t)].headers ELSE <<>>

\* to_http_response: a status of 0 becomes 200.
ToHttpResponse(t) ==
    [code |-> IF view[t].status = 0 THEN "200" ELSE "own",
     body |-> IF view[t].body THEN storage[Slot(t)].body ELSE None,
     headers |-> CopyHeaders(t)]

\* finalize_response: the pending headers follow the response's own.
Finalize(r, headers) == [r EXCEPT !.headers = @ \o headers]

Text(code) == [code |-> code, body |-> None, headers |-> <<>>]

\* A response ends the request.
Answer(t, r) ==
    /\ reply' = [reply EXCEPT ![t] = r]
    /\ pc' = [pc EXCEPT ![t] = "idle"]
    /\ UNCHANGED <<lifeVars, turn, at, seen, storage, view, outcome, pending, ran>>

\* The switch of dynamic_module::handle and the visit of the pipeline, which
\* copy what the views show; an error that carries a status is a response.
TakeResult(t) ==
    /\ pc[t] = "copy"
    /\ LET Responds == \/ outcome[t] = "respond"
                       \/ outcome[t] = "error" /\ view[t].status # 0
       IN \/ /\ outcome[t] = "pass"
             /\ pending' = [pending EXCEPT ![t] = @ \o CopyHeaders(t)]
             /\ at' = [at EXCEPT ![t] = @ + 1]
             /\ pc' = [pc EXCEPT ![t] = "call"]
             /\ UNCHANGED <<lifeVars, turn, seen, storage, view, outcome, reply, ran>>
          \/ /\ Responds
             /\ Answer(t, Finalize(ToHttpResponse(t), pending[t]))
          \/ /\ outcome[t] = "upgrade"
             /\ Answer(t, Finalize(Text("501"), pending[t] \o CopyHeaders(t)))
          \/ /\ outcome[t] = "error" /\ ~Responds
             /\ Answer(t, Finalize(Text("500"), pending[t] \o CopyHeaders(t)))

\* Defect: the end of the chain is missed by one.
NotFoundLate(t) ==
    /\ pc[t] = "call"
    /\ at[t] > Len(chain) + 1
    /\ Answer(t, Finalize(Text("404"), pending[t]))

\* Every module passed.
NotFound(t) ==
    /\ pc[t] = "call"
    /\ at[t] > Len(chain)
    /\ Answer(t, Finalize(Text("404"), pending[t]))

-----------------------------------------------------------------------------
(* The end: run() has joined the workers before ~server destroys the       *)
(* pipeline.                                                               *)

\* Defect: the pipeline is destroyed before the workers are joined.
StopEarly ==
    /\ phase = "serving"
    /\ phase' = "unloading"
    /\ UNCHANGED <<chain, lib, threadVars>>

Stop ==
    /\ phase = "serving"
    /\ \A t \in Thread : pc[t] = "idle"
    /\ phase' = "unloading"
    /\ UNCHANGED <<chain, lib, threadVars>>

\* ~dynamic_module: destroy the instance, close its library.
UnloadModule(f) ==
    /\ phase = "unloading"
    /\ lib[f] = "live"
    /\ lib' = [lib EXCEPT ![f] = "closed"]
    /\ UNCHANGED <<phase, chain, threadVars>>

Exit ==
    /\ phase = "unloading"
    /\ \A f \in ConfFile : lib[f] # "live"
    /\ phase' = "exited"
    /\ UNCHANGED <<chain, lib, threadVars>>

-----------------------------------------------------------------------------
ThreadStep(t) == CallModule(t) \/ TakeResult(t) \/ NotFound(t)

Next ==
    \/ ReadConfig \/ StartServing \/ Stop \/ Exit
    \/ \E f \in ConfFile : OpenLibrary(f) \/ CreateInstance(f) \/ UnloadModule(f)
    \/ \E t \in Thread : BeginRequest(t) \/ ThreadStep(t)

Spec == Init /\ [][Next]_vars

\* Worker threads run, and a module's handle() returns or throws.
FairSpec == Spec /\ \A t \in Thread : WF_vars(ThreadStep(t))

-----------------------------------------------------------------------------
(* Properties.                                                             *)

ResultHeaders(r) == Own(r) \o Extra(r)

\* The headers of results 1..n, in module order.
HeadersUpTo(rs, n) ==
    LET Acc[i \in 0..n] == IF i = 0 THEN <<>> ELSE Acc[i - 1] \o ResultHeaders(rs[i])
    IN Acc[n]

\* The response that the results rs of a finished request call for.
Expected(rs) ==
    LET n == Len(rs)
        last == rs[n]
        before == HeadersUpTo(rs, n - 1)
    IN IF rs = <<>> \/ last.next = "pass"
         THEN [code |-> "404", body |-> None, headers |-> HeadersUpTo(rs, n)]
       ELSE IF last.torn THEN [code |-> "own", body |-> None, headers |-> before]
       ELSE IF last.response /\ last.next \in {"respond", "error"}
         THEN [code |-> "own", body |-> last.tag, headers |-> ResultHeaders(last) \o before]
       ELSE [code |-> CASE last.next = "respond" -> "200"
                        [] last.next = "upgrade" -> "501"
                        [] last.next = "error" -> "500",
             body |-> None,
             headers |-> IF last.next = "respond" THEN ResultHeaders(last) \o before
                                                  ELSE before \o ResultHeaders(last)]

\* A client gets the response its own modules produced for this very request,
\* with the headers of the modules that passed before it, although several
\* threads run the same module instances and results travel as views into
\* storage that the next call overwrites.  A response that could not be
\* published whole (module_cpp.h:283) is answered by its bare status, with
\* nothing of another response in it.
RepliesAreOwn ==
    \A t \in Thread : pc[t] = "idle" /\ turn[t] > 0 => reply[t] = Expected(ran[t])

\* Modules run in lexical order, the first one that does not pass decides,
\* and no module runs after it.
FirstDecides ==
    \A t \in Thread : \A i \in 1..Len(ran[t]) :
        /\ Cardinality({f \in ConfFile : f < ran[t][i].tag[3]}) = i - 1
        /\ i < Len(ran[t]) => ran[t][i].next = "pass"

\* A thread never runs in a library whose instance is gone or not there yet.
CallsOnlyLive ==
    \A t \in Thread : pc[t] # "idle" => \A f \in ConfFile : lib[f] = "live"

\* However far the start came, the process leaves no instance undestroyed
\* and no library open.
NothingLeftLoaded ==
    phase = "exited" => \A f \in ConfFile : lib[f] \in {"none", "closed"}

\* Every request that enters the pipeline is answered.
RequestIsAnswered == \A t \in Thread : pc[t] # "idle" ~> pc[t] = "idle"

\* modules.d/04-router.conf:3-5: headers added by a module that passes can be
\* used by later modules.
LaterModulesSeeHeaders ==
    \A t \in Thread : pc[t] = "copy" => seen[t] = HeadersUpTo(ran[t], Len(ran[t]) - 1)
=============================================================================
