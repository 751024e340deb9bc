------------------------------ MODULE MCStartup ------------------------------
(* Command lines of up to three words of every kind, and of up to three    *)
(* options with their values; sizes of 10 bits, so that 16 workers make a  *)
(* default capacity of 0 and 17 one of 64.                                 *)
EXTENDS Startup, TLC

MCNumberOf ==
    ("0" :> 0) @@ ("2" :> 2) @@ ("16" :> 16) @@ ("17" :> 17) @@ ("1024" :> 1024) @@
    ("65535" :> 65535) @@ ("65536" :> 65536) @@ ("-1" :> -1)
MCNumeral == DOMAIN MCNumberOf
MCDashed == DOMAIN Setting \cup {"--help", "--version", "--bogus", "-1"}
MCAddress == {"127.0.0.1", "0.0.0.0"}

Words == {"--help", "--version", "--bogus", "--workers", "--queue-capacity", "--port", "--bind",
          "--tls-cert", "2", "0", "65535", "-1", ""}
Pairs ==
    {<<"--bind", "0.0.0.0">>, <<"--bind", "--help">>, <<"--port", "2">>, <<"--port", "65536">>,
     <<"--workers", "2">>, <<"--workers", "16">>, <<"--workers", "17">>, <<"--workers", "1024">>,
     <<"--queue-capacity", "2">>, <<"--tls-cert", "c">>, <<"--tls-key", "k">>,
     <<"--tls-key", "--port">>, <<"--modules-dir", "mine">>}

MCCommandLines ==
    {<<>>} \cup {<<a>> : a \in Words} \cup (Words \X Words) \cup (Words \X Words \X Words)
    \cup {a \o b : a \in Pairs, b \in Pairs}
    \cup {a \o b \o c : a \in Pairs, b \in Pairs, c \in Pairs}

\* What is found beside the program, in the working directory, installed, in
\* the directory of the option, and as document root.
Files(beside, local, installed, mine, www) ==
    (Beside :> beside) @@ (Local :> local) @@ (Installed :> installed) @@ ("mine" :> mine) @@
    ("www" :> www) @@ ("/usr/share/garcon/www" :> IF www = "absent" THEN "dir" ELSE "absent")

World(files, named, cores) == [files |-> files, named |-> named, cores |-> cores]
MCWorlds ==
    {World(Files("dir", "dir", "denied", "dir", "dir"), TRUE, 2),
     World(Files("file", "absent", "dir", "absent", "absent"), TRUE, 0),
     World(Files("dir", "absent", "absent", "dir", "dir"), FALSE, 0),
     World(Files("absent", "denied", "dir", "dir", "dir"), TRUE, 2)}
=============================================================================
