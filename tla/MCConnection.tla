---------------------------- MODULE MCConnection ----------------------------
(* Small instances of Connection: header blocks below, at and above the    *)
(* limit, every way to write a request, well or badly, and bodies.         *)
EXTENDS Connection, TLC

MCTokenWord == {"GET", "M-SEARCH", "get", "Host", "connection", "Connection", "CONNECTION", "x",
                "close", "Close", "keep-alive", "Keep-Alive", "HTTP", "1.0", "1.1", "2.0"}
MCTargetWord == MCTokenWord \cup {"?a=b"}
MCControlWord == {"\f"}
MCLowerOf ==
    ("Connection" :> "connection") @@ ("CONNECTION" :> "connection") @@ ("Close" :> "close") @@
    ("Keep-Alive" :> "keep-alive") @@ ("GET" :> "get")

Line(version) == <<"GET", " ", "/", "x", " ", "HTTP", "/", version>>
Host == <<"Host", ":", " ", "x", ":", "x">>

Kind(len, body, block, good, keep) ==
    [len |-> len, body |-> body, block |-> block, good |-> good, keep |-> keep]

\* What a client writes that wants the connection kept, or closed.
Keeps ==
    {<<Line("1.1")>>, <<Line("1.1"), Host>>, <<Line("1.1"), <<"Connection", ":">>>>,
     <<Line("1.1"), <<"Connection", ":", " ", "Keep-Alive">>>>,
     <<Line("1.0"), <<"connection", ":", "keep-alive">>>>,
     <<Line("1.0"), Host, <<"CONNECTION", ":", " ", "x", "\t", ",", "Keep-Alive", ",">>>>,
     <<<<"M-SEARCH", " ", "/", "/", "x", "?a=b", " ", "HTTP", "/", "1.1">>>>}
Closes ==
    {<<Line("1.0")>>, <<Line("1.0"), <<"x", ":", "keep-alive">>>>,
     <<Line("1.0"), <<"Connection", ":", "x", " ", "keep-alive">>>>,
     <<Line("1.1"), <<"Connection", ":", " ", "close">>>>,
     <<Line("1.1"), Host, <<"connection", ":", "\t", "x", " ", ",", " ", "Close", " ">>>>}

\* What no client should write.
Malformed ==
    {<<<<>>>>, <<<<"GET">>>>, <<<<"GET", " ", "/">>>>, <<<<" ", "/", " ", "HTTP", "/", "1.1">>>>,
     <<<<"GET", " ", " ", "/", " ", "HTTP", "/", "1.1">>>>,
     <<<<"GET", " ", " ", "HTTP", "/", "1.1">>>>,
     <<<<"GET", " ", "x", " ", "HTTP", "/", "1.1">>>>,
     <<<<"GET", " ", "/", "#x", " ", "HTTP", "/", "1.1">>>>,
     <<<<"(", " ", "/", " ", "HTTP", "/", "1.1">>>>, <<Line("2.0")>>,
     <<Line("1.1"), Host, <<" ", "x">>>>, <<Line("1.1"), <<"\t", "x", ":", "x">>>>,
     <<Line("1.1"), <<"x">>>>, <<Line("1.1"), <<":", "x">>>>,
     <<Line("1.1"), <<"Host", " ", ":", "x">>>>, <<Line("1.1"), <<"x", ":", "\f">>>>}

Good(len, keep) ==
    Kind(len, 0, IF keep THEN <<Line("1.1")>> ELSE <<Line("1.0")>>, TRUE, keep)
WithBody(len) == Kind(len, 1, <<Line("1.1")>>, TRUE, TRUE)
Bad(len) == Kind(len, 0, <<Line("2.0")>>, FALSE, FALSE)

Client(requests, patient) == [requests |-> requests, waits |-> patient]
Some == {Good(1, TRUE), Good(2, FALSE), Bad(2), Good(3, TRUE), Good(4, TRUE), Good(5, TRUE)}
Few == {Good(1, TRUE), Good(2, FALSE), Good(3, TRUE), Good(5, TRUE), WithBody(2)}

MCClients ==
    {Client(<<Kind(2, 0, block, TRUE, TRUE)>>, TRUE) : block \in Keeps}
    \cup {Client(<<Kind(2, 0, block, TRUE, FALSE)>>, TRUE) : block \in Closes}
    \cup {Client(<<Kind(2, 0, block, FALSE, FALSE)>>, TRUE) : block \in Malformed}
    \cup {Client(requests, TRUE) : requests \in Some \X Some \X Some}
    \cup {Client(requests, TRUE) : requests \in Few \X Few}
    \cup {Client(requests, FALSE) : requests \in Few \X Few \X Few}

\* The second request takes more than one read to arrive, if it is cut.
MCTwoRequests ==
    {Client(<<Good(1, TRUE), second>>, TRUE) : second \in {r \in Some : r.len >= 2}}
MCOneRequest == {Client(<<request>>, TRUE) : request \in Some}
=============================================================================
