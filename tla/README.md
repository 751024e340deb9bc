# Verification of Garcon

Garcon is a small HTTP/1.x server in C++: one thread accepts connections, a
fixed pool of workers serves them, and every request goes through a chain of
shared-library modules. This directory holds TLA+ modules that follow that code,
TLC configurations that check them on small instances, and proofs, checked by
TLAPS, of every invariant and action property that the passing runs check.
`PROJECT.json` maps each definition to the source lines it models and lists runs, mutants, hazards and
theorems.

To check: `tlc -config X.cfg MCX` for a run (its module is in `PROJECT.json`),
`tlapm M.tla` for a proof module.

## 1. The system

| Part (source) | State it keeps | Operations | Interacts with |
| --- | --- | --- | --- |
| work queue (`app/work_queue`) | bounded deque of sockets, `_closed`, two condition variables | `push`, `try_push`, `pop`, `close` | accept loop pushes, workers pop |
| worker pool (`app/worker_pool`) | vector of `jthread` | start, `run_worker`, `request_stop`, destructor | owns the workers, closes the queue |
| server (`server.cpp`, `main.cpp`) | accept loop position | accept, admit, enqueue, refuse, unwind | listener, limiter, queue |
| per-IP limiter (`app/ip_connection_limiter`) | count per address under a mutex | `try_acquire`, `release` | accept loop and every worker |
| listener, socket, streams (`net/`, `tls/`) | descriptors and timeouts | accept, recv, send, handshake | OS, OpenSSL |
| connection handler (`app/connection_handler`), framing and buffer (`http/`) | buffer, `first_request`, receive timeout | read a header block, parse, handle, log, send, next request | stream, request handler, access log |
| request pipeline, dynamic modules, C ABI and adapter (`app/request_pipeline`, `app/dynamic_module`, `include/garcon`) | library handles and instances; `thread_local` result storage | load, handle, copy the result, unload | all worker threads share the instances |
| module configuration (`app/module_config`) | none | read the files of `modules.d` in lexical order | creates the pipeline |
| rate limiter (`lib/rate_limit`) | token buckets under a mutex | `handle`, `check_and_consume` | concurrent workers, steady clock |
| policy modules (`lib/host_guard`, `header_guard`, `cors`, `jwt_auth`, `router`, `route_table`) | parsed rules, immutable | parse lines, `handle` | each other, through the chain |
| static files (`lib/static_files`) | canonical root | resolve, stat, open, read | a file system that others change |
| request parsing (`http/request`) | none | request line, header lines, keep-alive | connection handler |
| command line and start (`main.cpp`, `app/command_line`, `server::server`, `tls_context`) | options, settings, what has been constructed so far | parse, default, construct, unwind | starts and ends everything above |
| access log, events, response text | one output mutex | formatting | only that and when a response is logged is modelled, see section 8 |

What makes this hard to test:

* both condition variables are notified after the mutex is released, and the
  pool may be stopped, or fail to start, at any moment of that;
* the slot of an address is taken on one thread and given back on another, on
  five different paths;
* the clock of the rate limiter is read before its mutex is taken;
* a module's answer crosses the C ABI as pointers into storage that the next
  call overwrites;
* a client can cut its bytes anywhere, trickle, stall, pipeline or leave, at the
  boundary of the header limit and of two different timeouts;
* request bodies are never read, so the next header block may begin with one;
* a static file is looked up four times in one request;
* a start can fail half way, with workers already running on a queue, a module
  chain and a TLS context that are about to be destroyed;
* the default queue capacity is a product in `size_t` that nothing checks, and
  numbers in the rate limiter's configuration and in a token's claims overflow
  `int` and `long long`, which is undefined;
* a module's publication can throw between its status and its headers;
* `jwt_auth` finds claims by searching the token's text.

`PROJECT.json` lists each of these under `hazards`, at its line, with the
properties that would show it going wrong.

## 2. The modules

```
Handoff            what the accept loop may expect of queue and pool
  ^ implemented by WorkQueue      (mutex, condition variables, jthreads)
  ^ extended by    Server         (accept loop, limiter, release guard, unwinding)
Startup            main(): command line, construction, serving, unwinding
Request            the grammar of a header block (pure operators)
  ^ extended by    Connection     (framing, timeouts, keep-alive, responses)
Pipeline           loading, running and unloading the module chain over the C ABI
Numbers            decimal numbers, digit by digit (pure operators)
  ^ extended by    RateRules      (lines and rules of the rate limiter, pure)
      ^ extended by    RateLimit  (token buckets under concurrent handle() calls)
Policies           what each bundled policy module decides (pure operators)
  ^ extended by    Jwt            (tokens and claims of jwt_auth, pure)
      ^ extended by    PolicyChain (the start and the chain of these modules)
StaticFiles        one request against a changing file system
MC*                small instances;  *Proofs: theorems
```

`Server` is built on `Handoff` instead of `WorkQueue`, so that its state space
stays small; that this is sound is the refinement `ImplementsHandoff`, checked by
TLC and proved.

**Handoff** is a bounded FIFO (`queue`), a flag `open` and, per worker, what it
serves. `HTake` and `HRefuse` are the two outcomes of `try_push`, `HServe` is a
`pop` that returns a socket, `HLeave` one that returns nothing, `HShut` is
`close`.

**WorkQueue** has the deque, `_closed`, the wait sets of `_not_empty` and
`_not_full`, each thread's position, and the stop tokens. One action is one
critical section or one `notify_one`; a `pop` or `push` whose predicate is false
goes to sleep in the same step, as `condition_variable_any::wait` does. Spurious
wake-ups, stop requests that reach a sleeper, and a `jthread` constructor that
throws after some workers started are actions of their own.

**Server** has the accept loop's position and socket, the limiter's counts, the
open descriptors. The accept loop is the main thread, so it is also the one that
closes the queue and joins the workers after a fatal `accept()` error. A
connection of an address that could not be formatted has the peer `Unknown` and
takes no slot.

**Startup** is `main()` from `argv` to the accept loop, and back. `args` is the
command line, `world` what the file system and the machine answer (a path may be
absent, a file, a directory, or one whose status cannot be read, on which
`fs::exists` throws). `held` is what has been constructed and `threads` the
workers that run; any construction may throw, and then `JoinWorker`, `Destroy`
and `Report` are the destructors in reverse order and main's handler. What
happens inside the stages `serving` and `load` is in Server and Pipeline.

**Request** has `request::parse`, `find_header` and `keep_alive_requested` over
lines that are sequences of words; a word stands for a run of characters of one
class (token, target, other), and the separators the parser looks for are words of
their own.

**Connection** follows `handle_connection` line by line. A byte is a pair of the
request and its position in it, so a buffer that lost its beginning to the
previous read is recognisable; bytes after the header block are the body, which
the code does not read. After a send that found the peer gone, which the code takes
for a success, the handler goes on and nothing is assumed of its later sends.
`Verdict` parses the block with Request, and the
properties compare it with what the client meant. `ReceiveTimeout`,
`ReceiveClosed`, `ReceiveFails`, `SendClosed` and `SendFails` are the error paths.

**Pipeline** loads libraries in lexical order, any step of which can fail, then
runs requests of several threads. `CallModule` is the adapter's `handle`, which
writes into the thread's storage and publishes views; `TakeResult` is the host,
which copies later. The storage is one object per thread, the most shared form
a build can give the adapter's `thread_local` in an inline function. A
publication can also be torn: `publish_response` sets the status, then throws, and
the adapter reports an error over what is left in the result.

**RateLimit** reads its configuration line by line (`ParseLine`,
`EndOfConfig`) with the operators of **RateRules**, and then separates reading the
clock (`Begin`), the critical section (`Consume`) and the second lock
(`ReportRemaining`). A number beyond `int` is undefined behaviour: `PositiveInts`
is the set of what it may become. Tokens are exact integers in parts of a token;
the code uses doubles.

**Policies**, **Jwt** and **PolicyChain**: texts are sequences of words,
configuration lines sequences of fields; every condition under which a line is
rejected and every branch of every `handle` is there. `jwt_auth` searches the
decoded header and payload as the code does, with both spacings of a key, escapes
in strings, the first string of an array, and integers whose overflow is again a
choice. What `parse_status_code` makes of a numeral beyond `int` is part of the
constant `Numeral`, which may give it any value. Base64 is a constant and the HMAC is as good as its key with its text. The
matcher of `router` is modelled word by word: `MatchStep` is one turn of its loop,
`MatchLoop` what the loop makes of every pair of positions. `RouterFindsRoute` has
its own idea of a match: `Fits` is the set of values, free of '/', that put in place
of a pattern's names make it the path (or the beginning of the path, for a pattern
that ends in a star). The router must find such values whenever there are some and
pass them on, the longest where a name in front of a star leaves a choice. It speaks
of patterns whose names take whole segments (`SegmentPattern`); for others, where the
matcher never goes back, the code promises nothing.

**StaticFiles**: one action per system call; `Change` lets other processes put a
directory, a file of another size, a link or nothing in place of any node below
the root between any two calls. The looks of `directory_entry` and
`is_regular_file()`, which are one unless the path has become a link, are one action:
`CheckEntry` throws if the links have become too many.

## 3. Runs

| Run | Instance | Shows |
| --- | --- | --- |
| WorkQueue | 3 sockets, 2 producers, 2 workers, capacity 1 | no lost wake-up; the hand-off and its fairness are implemented; every shutdown, and a start that fails half way, ends; `close` frees blocked pushes |
| Server | 5 connections of 2 addresses and an unknown one, 3 workers, limit 2, capacity 1 | slots are conserved and bounded; refusals are justified; no address holds the pool; the accept loop never waits; the exit is clean and reached |
| ServerMonopoly | as Server with 2 workers | *violated:* one address holds every worker |
| Connection | 394 clients over HTTPS, limit 3, chunk 2: 28 ways to write one request, up to three requests around the limit, patient or pipelined, with bodies | responses belong to requests and are in order, refusals are true, keep-alive is what was asked for, none behind a last one, log and wire agree, the connection ends |
| ConnectionReadTimeout | two requests, the second of two bytes or more | *violated:* part of the second request has arrived, and the `recv` for the rest of it runs under the idle timeout |
| ConnectionHsts | one request | *violated:* error responses without HSTS |
| RateLimit | 2 threads, 2 rules, jumps of 0.9995 s and 2 s; 22 configuration files, `int` of 8 bits | a file is refused or limits as its lines say; the rate bound holds under stale clock readings; Retry-After is enough within a millisecond |
| Pipeline | 2 threads, 2 modules, every result a module can return, torn ones too | replies are the thread's own; order; modules are live when called, and unloaded at the end |
| PipelineHeaders | 1 thread, 2 modules | *violated:* later modules do not see headers of earlier ones |
| PolicyChain | the order of `modules.d`, 16 configurations, about 1,000 requests, `long long` of 8 bits | the guards enforce every covering line, claims are read as the issuer wrote them but for an array behind a space, cross-origin headers reach every answer, preflights need no credentials, the router's captures are right |
| StaticFiles | 8 targets, 45 trees, 2 changes | the announced length is the body's; the answer for an unchanged tree |
| Startup | command lines of up to three words of every kind, or three options with values; 4 worlds; `size_t` of 10 bits | the command line is read to its end before a socket is opened; a server serves with what was asked for; nothing is destroyed under a running worker; every start ends or serves |

**Bounds.** Capacity 1 with three sockets makes the queue full and empty around
every operation; two producers and two workers are what a notification needs to
go to the wrong one. In Server three connections of one address against a limit
of 2 make refusal, release and re-admission happen, with three workers because
`NoMonopoly` needs more workers than the limit. Request lengths 1 to 5 are below,
at and above the header limit, with chunks that cross it. In RateLimit the
window of a rule is not a multiple of the jumps, which is what rounding needs;
with 8 bits a limit of 300, a window of 128 and the product of 3 and 60 are beyond
what the code can hold or accepts. In Startup, with 10 bits, 16 workers make a
default capacity of 0 and 17 one of 64 again; five threads are all the process
gets, so a start with more fails on the way.
In StaticFiles the limit is two bytes with files of 0, 2 and 3, and two changes
suffice to remove a file and to put it back between two looks. PolicyChain has
one request per behaviour because its modules keep nothing between requests;
StaticFiles likewise.

Every property of a passing run has a mutant in `PROJECT.json`: a definition of
the same module marked "Defect" that changes the code the way a plausible bug
would, and breaks the property. `TypeOK` documents the state of each module; it
is proved, in itself or as part of the inductive invariant `Typed`, of WorkQueue,
Server, Pipeline, Connection, RateLimit and PolicyChain.

**Fairness.** `ThreadFairness` and `AcceptLoopFairness` are weak fairness of
single threads: the OS schedules every runnable thread. Nothing is assumed of
clients, and handlers are assumed to return (`HandlersReturn`, inside
`ShutdownCompletes` and `FatalErrorEnds`) only where the code itself waits for
them; `ConnectionEnds` is what justifies it, for a client with finitely many
requests, from the timeouts armed before each read. In Startup the main thread
runs (`WF(MainStep)`), and `accept()` is not obliged to fail. No fairness is assumed for
spurious wake-ups, stop requests, failures, or the choice among sleepers that
`notify_one` makes.

## 4. Findings

* `max_connections_per_ip` is a fixed 8 while the pool defaults to the hardware
  concurrency; with 8 workers or fewer one address can hold all of them, against
  what `config.h` and `ARCHITECTURE.md` say the limit is for. `PoolIsShared`
  proves that more workers than the limit suffice.
* Strict-Transport-Security is missing on the 400, 408 and 431 responses.
* From the second request on, `keep_alive_idle_timeout` also covers the middle
  of a request: a client that stalls after the first bytes of it is given the
  longer timeout, where `config.h` says that active request reads are under
  `socket_io_timeout`.
* Modules later in the chain do not see the headers that `04-router.conf` and
  `router_module.h` say they can use; they are only added to the response.

Smaller deviations are part of the properties instead:

* A header block is read up to one chunk past `max_request_header_bytes`
  (`BufferBounded`).
* `Retry-After` may be short by up to a millisecond (`RetryAlmostSuffices`).
* `jwt_auth` finds claims with and without a space after the colon, and an audience
  that is an array, but not the two together (`jwt_auth_module.cpp:395`): a token
  with `"aud": ["api"]`, as common serialisers print it, counts as one without an
  audience. It is refused where `audience` is configured; elsewhere it is admitted
  without an `X-Garcon-Claim-aud` header. The run has such a token, with that meaning
  (`GuardsHold`).

Remarks, each visible in the model:

* `ARCHITECTURE.md` says the command line "keeps the runtime configuration valid
  before networking starts". A number of workers whose product with 64 wraps to 0
  is refused only by the queue's constructor in `run()`, after the socket listens;
  one that wraps to a small capacity fails later still, for want of threads
  (`ThreadsAreFew` is why no such server ever serves).
* A configuration line `rule = ...`, with a space, is not an error: the rate
  limiter ignores it and limits nothing.
* An `exp` claim beyond `long long` may be taken for a time in the past or none.

## 5. Proofs

The theorems hold for every value of the constants: any number of threads,
sockets, addresses, modules, requests and bytes, any configuration, command line
and file system, any capacity and limit. They rest on the named `ASSUME`s of the
modules, which TLC evaluates in every run: sets of threads, connections and
files are finite, capacities, limits, chunks and ticks are positive, and texts
are sequences of words. Some assume more:

* `ThreadsAreFew`: no process has so many threads that 64 places for each overflow
  a `size_t`;
* `RootIsDirectory`: the constructor of `static_files` has checked its root, and
  others change only what is below it;
* `ConfigsAreFiles`: the lines of the policy modules are texts, and no parameter of
  a route has the name of a header that another module adds (its header has the
  prefix `X-Garcon-Route-Param-`, which the model leaves out);
* `RequestsAreHttp`: a client's Host is a name without a colon, or one in brackets,
  with at most a port behind it;
* `DigitsAreNoMarks`, `MarksHaveNoCase`: brackets, colons, stars, dots and the empty
  word are no digits and have no case;
* `NowIsTime`: the present is a time that a `long long` can hold.

Four theorems have a hypothesis besides, about what cannot be derived from the code:
what a text was meant to say (`ParserAgrees`, `LinesAreRead`, `TokensAreRead`) or
the order of the files in `modules.d` (`CorsBeforeCredentials`, which is true of the
order that is shipped). All four are true of the instances in the runs.

| Module | Theorem | Statement |
| --- | --- | --- |
| WorkQueueProofs | TypeCorrect | `[]TypeOK` |
| | NothingIsStranded | a worker returns only from an empty queue that is closed, or from a pool whose start failed |
| | CloseIsFinal | after `close` the queue is never reopened and only shrinks |
| | Ownership | every socket has one owner |
| | QueueImplementsHandoff | `Spec => H!HSpec`, the refinement |
| | NoLostWorkerWakeup, NoLostProducerWakeup | the two wake-up invariants |
| ServerProofs | TypeCorrect, Ownership, SlotConservation, PerIpLimit, RefusalsAreJustified, DescriptorsAreCounted, ExitIsClean | the safety properties of Server |
| | PoolIsShared | no address holds every worker, if there are more workers than the limit |
| PipelineProofs | TypeCorrect, LifeCycle, PipelineCorrect | the inductive invariant, in three layers |
| | ModulesAreLiveWhenCalled, NothingStaysLoaded | `CallsOnlyLive`, `NothingLeftLoaded` |
| | RepliesAreTheRequestsOwn, FirstToDecideDecides | `RepliesAreOwn`, `FirstDecides` |
| ConnectionProofs | TypeCorrect, ConnectionCorrect | the inductive invariant |
| | BufferStaysBounded, LogComesFirst, NothingAfterTheLast, AnsweredInOrder, IdleIsNoTimeout | `BufferBounded`, `LoggedThenSent`, `LastResponse`, `AnswersInOrder`, `NoTimeoutResponseWhenIdle` |
| | AnsweredAsAsked | `AnswersItsRequest`, if the parser agrees with the client on every block (`ParserAgrees`) |
| RateLimitProofs | TypeCorrect, TypesHold | only sound rules come into force; types |
| | RateIsBounded, RefillsMoveOn, RetryAfterIsHonest | `RateBound`, `RefillsMoveForward`, `RetryAlmostSuffices` |
| | ConfigurationIsMeant | `ConfigMeansWhatItSays`, if every line by itself is read as it is meant (`LinesAreRead`) |
| StartupProofs | OwnsByStage, NothingIsUsedAfterFree | what is owned at each stage; `NothingUsedAfterFree` |
| | WordsAreRead, TheCommandLineDecides, TheServerServesAsAsked | the parser's invariant; `CommandLineDecides`, `ServesAsAsked` |
| StaticFilesProofs | FramingIsKept | `FramingHolds` |
| | QuietAnswerIsRight | `QuietAnswer` |
| PolicyChainProofs | ChainCorrect, TypeCorrect | the inductive invariant `ChainInv`; `TypeOK` |
| | LineGuardsCorrect | `host_guard` and `header_guard` enforce their lines, in any order of the modules |
| | GuardsCorrect | `GuardsHold`, if tokens say what their issuer put into them (`TokensAreRead`) |
| | CrossOriginCorrect | `CrossOriginReadable`, in any order of the modules |
| | PreflightsCorrect | `PreflightNeedsNoCredentials`, in every order with `cors` before `header_guard` and `jwt_auth` |
| | RoutesCorrect | `RouterFindsRoute`, for all patterns and paths |

The arguments:

* *Life cycle of the pool.* `LeavesNothingBehind` is not inductive; `Lifecycle`
  ties `_closed`, the pool's phase, the stop tokens and the threads' positions
  together (closed exactly while the pool stops, nothing queued before it runs).
* *Ownership.* `OwnerInv` adds that a producer outside `push` holds nothing.
* *Wake-ups.* The invariant is a count: while a worker sleeps, the queued
  sockets are at most the notifications still to come plus the workers awake on
  their way to the queue. Each step is shown to change both sides alike. The
  strengthening `Sleepers` says that sleepers are where they went to sleep and
  that a closed queue has none. The dual count holds for producers and free
  places.
* *Refinement.* Each action is mapped to a Handoff action or a stutter under
  `OwnerInv`; the mapped flag `open` is also false while a failed start is
  unwound.
* *Slots.* `SlotInv` is types, ownership and the equality of counts with holders:
  ownership is what makes a release remove exactly one holder. `PerIpCap` adds
  that only `try_acquire` raises a count, below the limit. `ExitInv` adds that
  descriptors are covered by slots and the order of the shutdown.
* *Pipeline.* `Life` says for each phase how far every library is, so that a
  call, possible only in the serving phase, finds all of them live. `Progress`
  is about one request: its results are those of the first modules of the chain,
  all but the last passed, `pending` is the headers of the passes, and while a
  result is not copied the thread's storage holds what its views show (`InView`).
  The last is what makes views into shared storage safe: the next call on the
  thread comes after the copy. Headers accumulate in a recursive function, which
  is unfolded by induction over the number of results.
* *Connection.* Steps are first sorted into what the client does, an answer, a
  write and the rest, so that each part of the invariant is shown for four kinds
  of steps only. `Recorded` and `Closing` relate log, responses and position.
  `Stream` says that buffer and inbox together hold bytes in the order they were
  sent, `InOrder` that a request in the buffer is later than all that were
  answered: an unread body may make bytes be lost or misread, but never repeated.
  `Ahead`, `Stalled` and `Lockstep` are about clients without bodies: nothing of
  an earlier request is left anywhere, and what is parsed is the request from its
  first byte on. `AnsweredAsAsked` combines this with `ParserAgrees`, about the
  pure parser; the run checks the parser with one client per way to write a
  request.
* *Rate.* `SoundRule` is proved of whatever the digits of a line may become, also
  after an overflow. `Covered` is the account of a bucket: its tokens, and those
  it gave away, are covered by the burst and the time between its first request
  and its last refill; a stale clock reading refills nothing and leaves the date.
  `RetryAfterSuffices` is the arithmetic of rounding down to milliseconds and up
  to seconds. `ReadSoFar` is the loop invariant of the constructor: the rules so
  far are as many as the meant lines behind it, and the rule at a line's rank among
  them agrees with the line.
* *Start.* `Owned` lists for each stage what is held and that workers run only
  in between; the unwinding gives up the workers first. `Reading` is the loop
  invariant of the command line: every word before the parser is good and the
  settings are those of the last mention before it; `Decided` carries the result
  to the later stages. The product that may wrap does not, since `ThreadsAreFew`.
* *Static files.* `Framed` needs only that a size past the check is in bounds.
  For `QuietAnswer`, `CanonicalFacts` and `CanonicalOfStraight` show that what
  `canonical()` returns has no links left and is its own canonical form, so the
  later calls that get it see the node that was resolved (`StatOfCanonical`);
  `Quiet` says what each call learned, as long as nobody changed the tree.
  `LoopKeeps` is about the loop of `map_to_relative_path`: after n segments its
  result has each segment that is not empty at its rank, and nothing else.
* *The chain.* `ChainInv` says that a module's rules are what it parsed of its
  lines, all of them valid; that a request is at a module exactly if every module
  before it passed it, with a result that module can give for this request; that the
  headers of such a pass are pending exactly once and under no name of another
  module; and that the reply is that of the module it stopped at, with the pending
  headers behind its own. `LoadModule` needs the first part, `Take` the others.
* *Guards and cors.* For each module a lemma says what `handle` returns in terms of
  the configuration's lines (`HostGuardCorrect`, `HeaderGuardCorrect`,
  `JwtAuthCorrect`, `CorsOutcome`), and `ChainInv` carries it to every later state.
  A guard looks at each covering line and `cors` only at the first, which is where
  least elements come in; hosts are compared after the port and the case are
  removed, on both sides, which is an argument about subsequences.
* *Router.* The loop is a recursive function of two positions, so it is first shown
  to exist and unfolded. A `Way` is what lies between a position in the pattern and
  one in the path: the values of the names and where each word of the pattern comes
  to lie. `Found` says that the loop's result at two positions is a match if and
  only if there is a way from there, and that its captures are then the way's
  values, none shorter than another way's. It is proved from the end of the pattern
  backwards, over positions outside of braces (`FoundEnd`, `FoundWord`,
  `FoundName`, `LoopFinds`). That a name takes everything up to the next '/', and
  nothing is tried again, loses no match because a '/' or the end follows every name
  of a `SegmentPattern`. `FilledWay` shows that ways and values that fit are the
  same, which takes an account of where each piece of a concatenation begins
  (`Offsets`).

Induction is stated with a set in place of the library's operator (`NatSetInduction`),
in which form the provers can use it; recursive functions are shown to exist and
unfolded with it.

The proofs made the models more exact in a few places: what a client, a
configuration, a command line and a tree may be are now assumptions that TLC
evaluates; `MapToRelativePath` is the code's loop, and `QuietAnswer` states its
own idea of the names (`Asked`) instead of using it. In the policy chain they showed
what the properties had left open: that empty items of a list count for nothing,
that of two lines for a key of `jwt_auth` the first is used, and that a name in front
of a star may take more than one value.

## 6. Only model-checked

* Liveness and fairness, which need ENABLED: `ImplementsHandoffFairness`,
  `ShutdownCompletes`, `BlockedPushReturns`, `AdmissionDecides`, `FatalErrorEnds`,
  `ConnectionEnds`, `RequestIsAnswered`, `StartDecides`.
* What texts mean to the pure readers of them, for every text: that the parser of
  Request recognises what clients mean (`ParserAgrees`), that a line of the rate
  limiter's file is the rule it says (`LinesAreRead`), and that the searches of
  `jwt_auth` in a token's text find what its issuer wrote (`TokensAreRead`). What was
  meant is data of the instance and not of the code; the runs compare it with what is
  read for every way of writing that they list, and `TokensAreRead` is in fact not true
  of every payload (a key inside another value is found first, see section 8) and takes
  an array behind a space for no audience (section 4).

## 7. Plan

1. Done: every part of the program that changes state, and the parsers that
   decide; every invariant and action property, for all instances.
2. What could follow: a grammar of payloads and of header blocks, from which
   `TokensAreRead` and `ParserAgrees` would be theorems about what serialisers write.

## 8. Not modelled

* The text of responses, log lines, events and the usage message; content types;
  the spelling of the header made of a route parameter: formatting on which
  nothing else depends.
* Base64 (a constant) and HMAC (external) of `jwt_auth`; payloads with nested
  objects, `\u` escapes, arrays of several strings, or other white space than one
  space behind a colon or a comma.
* Where a module's configuration file has its `path=` line, beyond that it is
  found or the start fails.
* System calls, OpenSSL and `std::from_chars` themselves: only their outcomes.
* Memory exhaustion, except where a start or a publication fails.
* Replacement of a path component by a link after the check against the root:
  the code makes no promise about a tree that is rewritten during a request.
* The growth of the rate limiter's bucket map, which nothing bounds.
