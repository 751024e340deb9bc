---------------------------- MODULE MCPolicyChain ----------------------------
(* The chain of modules.d with lines like its own, variations of single    *)
(* lines, good and bad, and requests that differ in what the lines ask.    *)
EXTENDS PolicyChain, TLC

MCOrder == <<"host_guard", "router", "route_table", "cors", "header_guard", "jwt_auth">>
MCLowerCase ==
    ("LOCAL" :> "local") @@ ("GET" :> "get") @@ ("PUT" :> "put") @@ ("OPTIONS" :> "options") @@
    ("Bearer" :> "bearer") @@ ("Basic" :> "basic")
\* The last two are beyond int, of 32 bits, and come out as if they wrapped.
MCNumeral ==
    ("200" :> 200) @@ ("401" :> 401) @@ ("421" :> 421) @@ ("99" :> 99) @@
    ("4294967496" :> 200) @@ ("4294967295" :> -1)
MCDigits == DOMAIN MCNumeral \cup {"1", "8443"}

S == "/"
Api == <<S, "api", S>>
Hosts == <<<<"local">>, <<"*", ".", "local">>, <<"[", ":", ":", "1", "]">>>>

Base ==
    [lines |->
        [host_guard |-> <<<<"*", <<S, "*">>, Hosts, "421", "">>>>,
         router |-> <<<<"GET", <<S, "healthz">>, "respond", "200", "", "ok">>,
                      <<"GET", Api \o <<"{", "v", "}", S, "*">>, "pass">>,
                      <<"*", <<S, "u", S, "{", "id", "}">>, "pass">>>>,
         route_table |-> <<<<"GET", Api \o <<"*">>, "pass">>,
                           <<"*", <<S, "api", "*">>, "respond", "200", "", "">>>>,
         cors |-> <<<<Api \o <<"*">>, <<"page", "">>, <<"GET", "OPTIONS">>, "Key">>>>,
         header_guard |-> <<<<"*", Api \o <<"*">>, "Key", "k", "401", "">>>>,
         jwt_auth |-> <<<<"*", <<S, "u", S, "*">>>>>>],
     jwt |-> <<<<"secret", <<"s">>>>, <<"alg", <<"HS256">>>>>>]

With(m, lines) == [Base EXCEPT !.lines[m] = lines]

MCConfigs ==
    {Base, [Base EXCEPT !.lines["route_table"] = <<>>, !.jwt = <<<<"issuer", <<"me">>>>, <<"secret", <<"s">>>>>>],
     [Base EXCEPT !.lines["route_table"] = <<>>, !.lines["jwt_auth"] = <<>>,
                  !.jwt = <<<<"secret", <<"s">>>>, <<"issuer", <<>>>>, <<"audience", <<"api">>>>>>],
     [Base EXCEPT !.lines["route_table"] = <<>>,
                  !.lines["cors"] = <<<<Api \o <<"1", "*">>, <<"*">>, <<"get">>, "">>,
                                      <<<<S, "*">>, <<"page">>, <<"PUT">>, "">>>>,
                  !.lines["header_guard"] = <<<<"PUT", Api \o <<"1">>, "Key", "401", "">>,
                                              <<"*", Api \o <<"*">>, "Key", "k", "401", "">>>>],
     With("router", <<<<"*", <<S, "{", "a", "}", S, "{", "b", "}">>, "pass">>,
                      <<"*", <<S, "{", "a", "}", "*">>, "respond", "4294967496", "", "">>>>),
     [With("router", <<<<"*", <<S, "{", "a", "}", "*">>, "pass">>>>) EXCEPT
         !.lines["host_guard"] = <<<<"*", <<S, "*">>, <<<<>>, <<"local">>>>, "421", "">>>>,
         !.lines["cors"] = <<<<Api \o <<"*">>, <<"page", "", "other">>, <<"GET", "">>, "">>>>,
         !.jwt = <<<<"issuer", <<"me">>>>, <<"secret", <<"s">>>>, <<"issuer", <<"you">>>>>>],
     With("host_guard", <<<<"*", <<"*">>, Hosts, "421", "">>>>),
     With("header_guard", <<<<"*", <<S>>, "", "401", "">>>>),
     With("cors", <<<<<<S>>, <<"">>, <<"GET">>, "">>>>),
     With("route_table", <<<<"*", <<S>>, "respond", "99", "", "">>>>),
     With("header_guard", <<<<"*", <<S>>, "Key", "4294967295", "">>>>),
     With("router", <<<<"*", <<S>>, "redirect">>>>),
     With("jwt_auth", <<<<"*">>>>),
     [Base EXCEPT !.jwt = <<<<"secret", <<"s">>>>, <<"alg", <<>>>>>>],
     [Base EXCEPT !.jwt = <<<<"alg", <<"HS256">>>>>>],
     [Base EXCEPT !.jwt = <<<<"secret", <<>>>>, <<"secret", <<"s">>>>>>]}

\* What issuers put into tokens: names, and an expiry as a sequence of digits.
Claims(iss, aud, sub, roles, exp) ==
    [iss |-> iss, aud |-> aud, sub |-> sub, roles |-> roles, exp |-> exp]

\* The text of a payload: pairs with or without spaces, strings with escaped
\* quotes, an audience as a string or as an array of one.
Quoted(text) == <<Quote>> \o FlattenSeq([i \in DOMAIN text |->
                    IF text[i] \in {Quote, "\\"} THEN <<"\\", text[i]>> ELSE <<text[i]>>]) \o <<Quote>>
Pair(name, text, space) ==
    IF text = <<>> THEN <<>> ELSE <<Quote, name, Quote, ":">> \o space \o text \o <<",">> \o space
StringPair(name, text, space) ==
    IF text = <<>> THEN <<>> ELSE Pair(name, Quoted(text), space)
Payload(c, space, role, array) ==
    <<"{">> \o StringPair("iss", c.iss, space)
        \o (IF array THEN Pair("aud", <<"[">> \o Quoted(c.aud) \o <<"]">>, space)
                     ELSE StringPair("aud", c.aud, space))
        \o StringPair("sub", c.sub, space) \o Pair("exp", c.exp, space)
        \o StringPair(role, c.roles, space) \o <<Quote, "jti", Quote, ":", "1", "}">>

\* Ann's audience is not found in the payload "listed", where it is an array
\* behind a space: the token counts as one without an audience.
Ann == Claims(<<"me">>, <<"api">>, <<"ann">>, <<>>, <<>>)
Issued ==
    [plain |-> Ann, listed |-> [Ann EXCEPT !.aud = <<>>],
     later |-> [Ann EXCEPT !.exp = <<"3">>, !.sub = <<"a", Quote, "b", "\\">>, !.roles = <<"admin">>],
     early |-> [Ann EXCEPT !.exp = <<"2">>],
     never |-> [Ann EXCEPT !.exp = <<"2", "0", "0">>],
     zero |-> Claims(<<>>, <<>>, <<"ann">>, <<"exp">>, <<"-", "5">>),
     foreign |-> Claims(<<"you">>, <<"web">>, <<"bob">>, <<"x">>, <<>>)]
Payloads ==
    [plain |-> Payload(Ann, <<>>, "roles", TRUE), listed |-> Payload(Ann, <<" ">>, "roles", TRUE),
     later |-> Payload(Issued.later, <<" ">>, "role", FALSE),
     early |-> Payload(Issued.early, <<" ">>, "roles", FALSE),
     never |-> Payload(Issued.never, <<>>, "roles", FALSE),
     zero |-> Payload(Issued.zero, <<>>, "roles", FALSE),
     foreign |-> Payload(Issued.foreign, <<>>, "role", FALSE)]
Headers ==
    [tight |-> <<"{", Quote, "alg", Quote, ":", Quote, "HS256", Quote, "}">>,
     spaced |-> <<"{", Quote, "alg", Quote, ":", " ", Quote, "HS256", Quote, "}">>,
     none |-> <<"{", Quote, "alg", Quote, ":", Quote, "none", Quote, "}">>]

\* The signature of a header and a payload is named after the three.
Signature(key, header, payload) == key \o header \o payload
Signed == {"s", "t"} \X (DOMAIN Headers) \X (DOMAIN Payloads)
MCDecoded ==
    Headers @@ Payloads @@
    [w \in {Signature(x[1], x[2], x[3]) : x \in Signed} |->
        LET x == CHOOSE x \in Signed : w = Signature(x[1], x[2], x[3])
        IN Hmac(<<x[1]>>, <<x[2], ".", x[3]>>)]

Token(key, header, payload) == <<header, ".", payload, ".", Signature(key, header, payload)>>
ExpiryOf(payload) ==
    LET exp == Issued[payload].exp
    IN CASE exp = <<>> -> 0 [] exp = <<"-", "5">> -> -5 [] OTHER -> Number(exp)
Login(authorization, payload, signed) ==
    [text |-> authorization,
     means |-> [Issued[payload] EXCEPT !.exp = ExpiryOf(payload)] @@ [signed |-> signed]]

\* Authorization headers and what the issuer put into them.
NoLogin == Login(<<>>, "plain", FALSE)
Logins ==
    {Login(<<"Bearer", " ">> \o Token("s", "tight", p), p, TRUE) : p \in DOMAIN Payloads}
    \cup {Login(<<"bearer", " ", " ">> \o Token("s", "spaced", "later"), "later", TRUE),
          Login(<<"Basic", " ">> \o Token("s", "tight", "plain"), "plain", FALSE),
          Login(<<"Bearer", " ">> \o Token("t", "tight", "plain"), "plain", FALSE),
          Login(<<"Bearer", " ">> \o Token("s", "none", "plain"), "plain", FALSE),
          Login(<<"Bearer", " ", "tight", ".", "plain">>, "plain", FALSE),
          Login(<<"Bearer", " ", "tight", ".", ".", "plain">>, "plain", FALSE),
          Login(<<"Bearer", " ">>, "plain", FALSE), Login(<<"Bearer">>, "plain", FALSE), NoLogin}

\* Host headers: the name that is meant, and what is sent after it.
Names ==
    {<<<<"LOCAL">>, <<":", "8443">>>>, <<<<"a", ".", "local">>, <<>>>>, <<<<"a", "local">>, <<>>>>,
     <<<<"[", ":", ":", "1", "]">>, <<":", "8443">>>>, <<<<".", "local">>, <<>>>>, <<<<>>, <<>>>>}

Request(method, target, host, login, origin, key, wanted) ==
    [method |-> method, target |-> target, host |-> host[1] \o host[2], hostName |-> host[1],
     authorization |-> login.text, login |-> login.means,
     headers |-> ("Origin" :> origin) @@ ("Key" :> key) @@
                 ("Access-Control-Request-Method" :> wanted)]

Local == <<<<"LOCAL">>, <<":", "8443">>>>
MCTargets ==
    {<<S>>, <<S, "healthz", "?", "x">>, <<S, "api">>, Api, Api \o <<"1">>, Api \o <<"1", S, "x">>,
     Api \o <<S>>, <<S, "u", S, "7", "?", S>>, <<S, "u", S, "7", S, "x">>}

MCRequests ==
    {Request("GET", target, host, NoLogin, Absent, "k", Absent) :
        target \in {<<S>>, Api \o <<"1">>}, host \in Names}
    \cup {Request(method, target, Local, login, Absent, "k", Absent) :
        method \in {"GET", "PUT"}, target \in MCTargets, login \in Logins}
    \cup {Request(method, target, Local, NoLogin, origin, key, wanted) :
        method \in {"GET", "PUT", "OPTIONS"}, target \in MCTargets,
        origin \in {Absent, "page", "other"}, key \in {Absent, "k", "l"},
        wanted \in {Absent, "GET", "PUT"}}
    \cup {Request("OPTIONS", Api \o <<"1">>, Local, NoLogin, "", "k", "GET"),
          Request("OPTIONS", Api \o <<"1">>, Local, NoLogin, "page", "k", "")}
=============================================================================
