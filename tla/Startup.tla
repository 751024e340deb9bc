------------------------------- MODULE Startup -------------------------------
(***************************************************************************)
(* main(): the command line, the settings made of it, and the start of the *)
(* server they describe, up to the accept loop; and the way back from any  *)
(* failure on that path, by destructors, to an exit status.                *)
(*                                                                         *)
(* A word of the command line is one string.  How std::from_chars reads it *)
(* is the constant NumberOf; sizes are std::size_t of SizeBits bits.       *)
(***************************************************************************)
EXTENDS Integers, Sequences

CONSTANTS
    CommandLines,   \* the words after the program's name
    Numeral,        \* words that are decimal numerals, with a '-' or without
    NumberOf,       \* their values
    Dashed,         \* words that start with '-'
    Address,        \* words that inet_pton takes for IPv4 addresses
    Worlds,         \* what the program finds: [files, named, cores]
    SizeBits,       \* bits of a std::size_t
    MaxThreads,     \* threads the process can have at the most
    None            \* std::nullopt

ASSUME NumbersAreInt == NumberOf \in [Numeral -> Int]
ASSUME SizeIsNat == SizeBits \in Nat
\* No process has threads enough for 64 places each to overflow a size_t.
ASSUME ThreadsAreFew == MaxThreads \in Nat /\ MaxThreads * 64 < 2^SizeBits
ASSUME NoneIsNoNumber == None \notin Numeral /\ None \notin Int
ASSUME LinesAreWords ==
    \A line \in CommandLines :
        /\ line \in Seq({line[i] : i \in DOMAIN line})
        /\ \A i, j \in DOMAIN line : None \notin {line[i], <<line[i], line[j]>>}

VARIABLES
    args,       \* argv[1..]
    world,      \* files: what fs::status says of a path; named: argv[0] is there;
                \* cores: hardware_concurrency()
    stage,      \* how far main() is
    index,      \* of parse()'s loop
    opts,       \* cli_options
    config,     \* server_config
    held,       \* what the process owns: listener, modules, tls, queue
    threads,    \* running workers
    status      \* exit status, None while the process runs

settings == <<args, world, index, opts, config>>
vars == <<args, world, stage, index, opts, config, held, threads, status>>

Beside == "program/modules.d"
Local == "modules.d"
Installed == "/etc/garcon/modules.d"

NoOptions ==
    [bind |-> "127.0.0.1", port |-> None, workers |-> None, capacity |-> None,
     modules |-> None, cert |-> None, key |-> None]

Init ==
    /\ args \in CommandLines
    /\ world \in Worlds
    /\ stage = "parse"
    /\ index = 1
    /\ opts = NoOptions
    /\ config = None
    /\ held = {}
    /\ threads = 0
    /\ status = None

Exit(code) ==
    /\ stage' = "exited"
    /\ status' = code

\* An exception on its way to main's handler: the destructors run first.
Throw ==
    /\ stage' = "unwind"
    /\ UNCHANGED status

-----------------------------------------------------------------------------
(* command_line_parser::parse                                              *)

\* parse_port and parse_count: from_chars must take the whole word.
PortMax == 65535
IsPort(word) == word \in Numeral /\ NumberOf[word] \in 1..PortMax
IsCount(word) == word \in Numeral /\ NumberOf[word] \in 1..(2^SizeBits - 1)

\* The options with a value, and the setting each one is about.
Setting ==
    [option \in {"--bind", "--tls-cert", "--tls-key", "--modules-dir", "--workers",
                 "--queue-capacity", "--port"} |->
        CASE option = "--bind" -> "bind"
          [] option = "--tls-cert" -> "cert"
          [] option = "--tls-key" -> "key"
          [] option = "--modules-dir" -> "modules"
          [] option = "--workers" -> "workers"
          [] option = "--queue-capacity" -> "capacity"
          [] option = "--port" -> "port"]

Accepts(setting, word) ==
    /\ setting = "port" => IsPort(word)
    /\ setting \in {"workers", "capacity"} => IsCount(word)

Stored(setting, word) ==
    IF setting \in {"port", "workers", "capacity"} THEN NumberOf[word] ELSE word

\* require_value: there is a next word, whatever it is.
RequireValue(i) == i < Len(args)

\* --help and --version end the parsing where they stand.
ParseInformation ==
    /\ stage = "parse" /\ index <= Len(args)
    /\ args[index] \in {"--help", "--version"}
    /\ Exit(0)
    /\ UNCHANGED <<settings, held, threads>>

\* Defect: the value is not skipped.
ParseNamedOptionSticks ==
    /\ stage = "parse" /\ index <= Len(args)
    /\ args[index] \in DOMAIN Setting
    /\ LET setting == Setting[args[index]]
           good == RequireValue(index) /\ Accepts(setting, args[index + 1])
       IN IF good THEN /\ opts' = [opts EXCEPT ![setting] = Stored(setting, args[index + 1])]
                       /\ UNCHANGED <<stage, status, index>>
          ELSE Throw /\ UNCHANGED <<index, opts>>
    /\ UNCHANGED <<args, world, config, held, threads>>

\* parse_named_option for a known option.
ParseNamedOption ==
    /\ stage = "parse" /\ index <= Len(args)
    /\ args[index] \in DOMAIN Setting
    /\ LET setting == Setting[args[index]]
           good == RequireValue(index) /\ Accepts(setting, args[index + 1])
       IN \/ /\ good
             /\ opts' = [opts EXCEPT ![setting] = Stored(setting, args[index + 1])]
             /\ index' = index + 2
             /\ UNCHANGED <<stage, status>>
          \/ /\ ~good
             /\ Throw
             /\ UNCHANGED <<index, opts>>
    /\ UNCHANGED <<args, world, config, held, threads>>

\* A word without a dash is a port; any other option is unknown.
ParseOtherWord ==
    /\ stage = "parse" /\ index <= Len(args)
    /\ args[index] \notin DOMAIN Setting \cup {"--help", "--version"}
    /\ LET good == args[index] \notin Dashed /\ IsPort(args[index])
       IN \/ /\ good
             /\ opts' = [opts EXCEPT !.port = NumberOf[args[index]]]
             /\ index' = index + 1
             /\ UNCHANGED <<stage, status>>
          \/ /\ ~good
             /\ Throw
             /\ UNCHANGED <<index, opts>>
    /\ UNCHANGED <<args, world, config, held, threads>>

-----------------------------------------------------------------------------
(* finalize_options                                                        *)

ValueOr(option, default) == IF option = None THEN default ELSE option

DefaultWorkers(w) == IF w.cores = 0 THEN 4 ELSE w.cores

\* Defect: the places are those of the default number of workers.
DefaultCapacityOfCores(workers) == (DefaultWorkers(world) * 64) % 2^SizeBits

\* default_queue_capacity, in a std::size_t.
DefaultCapacity(workers) == (workers * 64) % 2^SizeBits

ModuleDirs(w) == IF w.named THEN <<Beside, Local, Installed>> ELSE <<Local, Installed>>

\* The first candidate that is a directory, else the first candidate.
DefaultModuleDir(w) ==
    LET dirs == ModuleDirs(w)
        found == {i \in DOMAIN dirs : w.files[dirs[i]] = "dir"}
    IN dirs[IF found = {} THEN 1 ELSE CHOOSE i \in found : \A j \in found : i <= j]

DefaultWwwRoot(w) ==
    IF w.files["www"] = "absent" /\ w.files["/usr/share/garcon/www"] # "absent"
    THEN "/usr/share/garcon/www" ELSE "www"

\* fs::exists throws for a path whose status cannot be read.  The candidates
\* are looked at in order up to the first hit, and also when the option that
\* replaces the result was given.
LookupThrows(w) ==
    LET dirs == ModuleDirs(w)
    IN \/ w.files["www"] = "denied"
       \/ w.files["www"] = "absent" /\ w.files["/usr/share/garcon/www"] = "denied"
       \/ \E i \in DOMAIN dirs :
             w.files[dirs[i]] = "denied" /\ \A j \in 1..i - 1 : w.files[dirs[j]] # "dir"

Configured(o, w) ==
    LET workers == ValueOr(o.workers, DefaultWorkers(w))
    IN [bind |-> o.bind,
        port |-> ValueOr(o.port, IF o.cert = None THEN 8080 ELSE 8443),
        root |-> DefaultWwwRoot(w),
        modules |-> ValueOr(o.modules, DefaultModuleDir(w)),
        workers |-> workers,
        capacity |-> ValueOr(o.capacity, DefaultCapacity(workers)),
        tls |-> IF o.cert = None THEN None ELSE <<o.cert, o.key>>]

\* Defect: the two files are not asked for together.
FinalizeOptionsUnpaired ==
    /\ stage = "parse" /\ index > Len(args)
    /\ stage' = "listen"
    /\ config' = Configured(opts, world)
    /\ UNCHANGED <<args, world, index, opts, held, threads, status>>

FinalizeOptions ==
    /\ stage = "parse" /\ index > Len(args)
    /\ LET good == (opts.cert = None <=> opts.key = None) /\ ~LookupThrows(world)
       IN \/ /\ good
             /\ stage' = "listen"
             /\ config' = Configured(opts, world)
             /\ UNCHANGED status
          \/ /\ ~good
             /\ Throw
             /\ UNCHANGED config
    /\ UNCHANGED <<args, world, index, opts, held, threads>>

-----------------------------------------------------------------------------
(* server::server and server::run                                          *)

\* A member is constructed, or its constructor throws and leaves nothing.
Construct(from, member, next, possible) ==
    /\ stage = from
    /\ \/ /\ possible
          /\ held' = held \cup member
          /\ stage' = next
          /\ UNCHANGED status
       \/ /\ Throw
          /\ UNCHANGED held
    /\ UNCHANGED <<settings, threads>>

\* listener: socket, setsockopt, inet_pton, bind and listen; the descriptor
\* is a member that is destroyed with the rest.
OpenListener ==
    Construct("listen", {"listener"}, "load", config.bind \in Address)

\* create_request_handler; Pipeline has it step by step.
LoadModules ==
    Construct("load", {"modules"}, "tls", world.files[config.modules] = "dir")

\* default_stream_factory: a TLS context if there is a certificate.  Nothing
\* can fail without one.
CreateStreamFactory ==
    \/ stage = "tls" /\ config.tls # None /\ Construct("tls", {"tls"}, "queue", TRUE)
    \/ /\ stage = "tls" /\ config.tls = None
       /\ stage' = "queue"
       /\ UNCHANGED <<settings, held, threads, status>>

\* run(): work_queue refuses a capacity of 0.
CreateQueue ==
    /\ stage = "queue"
    /\ \/ /\ config.capacity # 0
          /\ held' = held \cup {"queue"}
          /\ stage' = "workers"
          /\ UNCHANGED status
       \/ /\ config.capacity = 0
          /\ Throw
          /\ UNCHANGED held
    /\ UNCHANGED <<settings, threads>>

\* worker_pool::start_workers: reserve, and one thread after the other; both
\* may fail.
StartWorker ==
    /\ stage = "workers" /\ threads < config.workers
    /\ \/ /\ threads < MaxThreads
          /\ threads' = threads + 1
          /\ UNCHANGED <<stage, status>>
       \/ /\ Throw
          /\ UNCHANGED threads
    /\ UNCHANGED <<settings, held>>

EnterAcceptLoop ==
    /\ stage = "workers" /\ threads = config.workers
    /\ stage' = "serving"
    /\ UNCHANGED <<settings, held, threads, status>>

\* A fatal accept() error throws out of accept_loop.
AcceptFails ==
    /\ stage = "serving"
    /\ Throw
    /\ UNCHANGED <<settings, held, threads>>

-----------------------------------------------------------------------------
(* The way back: locals and members are destroyed in reverse order.        *)

\* Defect: the pool's threads are left running.
JoinWorkerDetached ==
    /\ stage = "unwind" /\ threads > 0
    /\ held' = held \ {"queue"}
    /\ UNCHANGED <<settings, stage, threads, status>>

\* A jthread is stopped and joined.
JoinWorker ==
    /\ stage = "unwind" /\ threads > 0
    /\ threads' = threads - 1
    /\ UNCHANGED <<settings, stage, held, status>>

\* queue, then the stream factory, the modules and the listener.
Destroyed ==
    CASE "queue" \in held -> "queue"
      [] "queue" \notin held /\ "tls" \in held -> "tls"
      [] held \cap {"queue", "tls"} = {} /\ "modules" \in held -> "modules"
      [] OTHER -> "listener"

Destroy ==
    /\ stage = "unwind" /\ threads = 0
    /\ held # {}
    /\ held' = held \ {Destroyed}
    /\ UNCHANGED <<settings, stage, threads, status>>

\* main's handler.
Report ==
    /\ stage = "unwind" /\ threads = 0 /\ held = {}
    /\ Exit(1)
    /\ UNCHANGED <<settings, held, threads>>

-----------------------------------------------------------------------------
MainStep ==
    \/ ParseInformation \/ ParseNamedOption \/ ParseOtherWord \/ FinalizeOptions
    \/ OpenListener \/ LoadModules \/ CreateStreamFactory
    \/ CreateQueue \/ StartWorker \/ EnterAcceptLoop
    \/ JoinWorker \/ Destroy \/ Report

Next == MainStep \/ AcceptFails

Spec == Init /\ [][Next]_vars

\* The main thread runs; nothing obliges accept() to fail.
FairSpec == Spec /\ WF_vars(MainStep)

-----------------------------------------------------------------------------
(* Properties.                                                             *)

\* The positions a reader of the usage text takes for options and ports: all
\* but the word after an option that has a value.
OptionAt ==
    LET At[i \in 0..Len(args)] ==
            i > 0 /\ (i = 1 \/ ~(At[i - 1] /\ args[i - 1] \in DOMAIN Setting))
    IN {i \in 1..Len(args) : At[i]}

GoodAt(i) ==
    IF args[i] \in DOMAIN Setting
    THEN i < Len(args) /\ Accepts(Setting[args[i]], args[i + 1])
    ELSE args[i] \notin Dashed /\ IsPort(args[i])

Given(option) == {i \in OptionAt : args[i] = option}
Latest(positions) == CHOOSE i \in positions : \A j \in positions : j <= i

\* What the words say of an option: its last value.
Said(option) ==
    IF Given(option) = {} THEN None
    ELSE Stored(Setting[option], args[Latest(Given(option)) + 1])

\* A port may stand alone or behind --port; the last one counts.
SaidPort ==
    LET ports == {i \in OptionAt : args[i] \notin DOMAIN Setting} \cup Given("--port")
        last == Latest(ports)
    IN IF ports = {} THEN None
       ELSE NumberOf[IF args[last] = "--port" THEN args[last + 1] ELSE args[last]]

Acceptable ==
    /\ \A i \in OptionAt : GoodAt(i)
    /\ Given("--tls-cert") = {} <=> Given("--tls-key") = {}

\* A command line that is wrong anywhere, or asks for help, touches nothing:
\* no socket is opened before all of it was read.  And help or the version is
\* only ever shown, and the words only ever refused, for what they say.
CommandLineDecides ==
    /\ held # {} => Acceptable
    /\ status = 0 => \E i \in OptionAt : /\ args[i] \in {"--help", "--version"}
                                         /\ \A j \in OptionAt : j < i => GoodAt(j)
    /\ stage = "unwind" /\ index <= Len(args) => ~Acceptable

\* A server that serves does so with the settings its command line asks for:
\* the queue has the capacity asked for or 64 places a worker, although that
\* product is computed in a std::size_t that may overflow and nothing checks
\* it before the socket listens.
ServesAsAsked ==
    stage = "serving" =>
        LET tls == Given("--tls-cert") # {}
        IN /\ config.bind = ValueOr(Said("--bind"), "127.0.0.1")
           /\ config.port = ValueOr(SaidPort, IF tls THEN 8443 ELSE 8080)
           /\ config.workers = threads
           /\ Said("--workers") \in {None, threads}
           /\ config.capacity = ValueOr(Said("--queue-capacity"), threads * 64)
           /\ config.modules = ValueOr(Said("--modules-dir"), DefaultModuleDir(world))
           /\ world.files[config.modules] = "dir"
           /\ tls <=> "tls" \in held
           /\ tls => config.tls = <<Said("--tls-cert"), Said("--tls-key")>>

\* As long as a worker runs it has its queue and the modules and the TLS
\* context its connections use, also while a start that failed half way, or a
\* fatal accept() error, is unwound; and a process that ends has given
\* everything back.
NothingUsedAfterFree ==
    /\ threads > 0 => /\ {"listener", "modules", "queue"} \subseteq held
                      /\ config.tls # None => "tls" \in held
    /\ stage = "exited" => held = {} /\ threads = 0

\* Every command line, in every world, comes to a server that serves or to an
\* exit.
StartDecides == <>(stage = "serving" \/ status # None)
=============================================================================
