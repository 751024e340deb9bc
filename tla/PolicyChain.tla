----------------------------- MODULE PolicyChain -----------------------------
(***************************************************************************)
(* The bundled policy modules as request_pipeline runs them: the start,    *)
(* which parses every module's lines, then requests that go from module to *)
(* module until one responds, with the headers of the passes added to the  *)
(* response.  rate_limit, which keeps state, and static_files, which comes *)
(* last, have modules of their own; a request nobody answers is handed to  *)
(* what follows the chain.                                                 *)
(***************************************************************************)
EXTENDS Jwt

CONSTANTS
    Order,      \* the modules' names in the order of their files
    Configs,    \* configurations: [lines |-> [name -> Seq(fields)], jwt |-> the lines of jwt_auth's keys]
    Requests    \* the requests a client may send: what the modules look at (method,
                \* target, host, headers, authorization), and what they stand for
                \* (hostName; login, what the issuer put into the token)

Modules == {"host_guard", "router", "route_table", "cors", "header_guard", "jwt_auth"}
ASSUME OrderIsOfModules == IsInjective(Order) /\ Order \in Seq(Modules)

Text(s) == s \in Seq(Range(s))

\* What can be in files: patterns and hosts are texts, no value is written like
\* an absent one, and no parameter's header has the name of another module's.
OwnHeaders ==
    {"Access-Control-Allow-Origin", "Vary", "X-Garcon-User-Id", "X-Garcon-Roles",
     "X-Garcon-Claim-iss", "X-Garcon-Claim-aud"}
ASSUME ConfigsAreFiles ==
    \A c \in Configs :
        /\ Text(c.jwt) /\ \A i \in DOMAIN c.jwt : c.jwt[i][2] # Missing
        /\ \A m \in Modules : Text(c.lines[m])
        /\ \A l \in Range(c.lines["cors"]) : Text(l[1])
        /\ \A m \in Modules \ {"cors"} : \A l \in Range(c.lines[m]) : Len(l) > 1 => Text(l[2])
        /\ \A l \in Range(c.lines["host_guard"]) : Len(l) > 2 => \A h \in Range(l[3]) : Text(h)
        /\ \A l \in Range(c.lines["header_guard"]) : Len(l) = 6 => l[4] # Absent
        /\ \A l \in Range(c.lines["router"]) : Len(l) > 1 => Range(l[2]) \cap OwnHeaders = {}

\* A client names a host, in brackets or without a colon, and may add a port.
ASSUME RequestsAreHttp ==
    \A r \in Requests :
        LET named == Len(r.hostName)
        IN /\ Text(r.target) /\ Text(r.host) /\ Text(r.hostName)
           /\ IsPrefix(r.hostName, r.host)
           /\ \/ r.host = r.hostName
              \/ /\ Len(r.host) > named + 1 /\ r.host[named + 1] = ":"
                 /\ \A i \in named + 2..Len(r.host) : r.host[i] \in Digits
           /\ \/ /\ named > 0 /\ r.hostName[1] = "["
                 /\ {i \in 1..named : r.hostName[i] = "]"} = {named}
              \/ /\ named > 0 => r.hostName[1] # "["
                 /\ \A i \in 1..named : r.hostName[i] # ":"

VARIABLES
    config,     \* the files under modules.d
    rules,      \* what each module made of its lines
    phase,      \* loading, failed, serving, handling
    at,         \* the position in Order that is next
    request,    \* the request in the chain, or the last one; <<>> before the first
    pending,    \* pending_headers of request_pipeline::handle
    reply       \* the last response

vars == <<config, rules, phase, at, request, pending, reply>>

NoReply == [by |-> "nobody", status |-> 0, headers |-> <<>>]

TypeOK ==
    /\ config \in Configs
    /\ phase \in {"loading", "failed", "serving", "handling"}
    /\ at \in 1..Len(Order) + 1
    /\ \A m \in Modules : \A i \in DOMAIN rules[m] : rules[m][i].valid
    /\ phase \in {"serving", "handling"} =>
           \A m \in Range(Order) : Len(rules[m]) = Len(config.lines[m])
    /\ reply.status \in {0} \cup StatusCodes

Init ==
    /\ config \in Configs
    /\ rules = [m \in Modules |-> <<>>]
    /\ phase = "loading"
    /\ at = 1
    /\ request = <<>>
    /\ pending = <<>>
    /\ reply = NoReply

-----------------------------------------------------------------------------
(* The start.                                                              *)

Rule(m, fields) ==
    CASE m = "host_guard" -> HostGuardRule(fields)
      [] m = "header_guard" -> HeaderGuardRule(fields)
      [] m = "cors" -> CorsRule(fields)
      [] m = "jwt_auth" -> JwtRule(fields)
      [] OTHER -> RouteRule(fields)

\* A constructor: parse_rules or parse_routes, and the keys of jwt_auth.
LoadModule ==
    /\ phase = "loading" /\ at <= Len(Order)
    /\ LET m == Order[at]
           parsed == [i \in DOMAIN config.lines[m] |-> Rule(m, config.lines[m][i])]
           good == /\ \A i \in DOMAIN parsed : parsed[i].valid
                   /\ m = "jwt_auth" => JwtSettingsValid(config.jwt)
       IN \/ /\ ~good
             /\ phase' = "failed"
             /\ UNCHANGED <<rules, at>>
          \/ /\ good
             /\ rules' = [rules EXCEPT ![m] = parsed]
             /\ at' = at + 1
             /\ UNCHANGED phase
    /\ UNCHANGED <<config, request, pending, reply>>

StartServing ==
    /\ phase = "loading" /\ at > Len(Order)
    /\ phase' = "serving"
    /\ UNCHANGED <<config, rules, at, request, pending, reply>>

-----------------------------------------------------------------------------
(* request_pipeline::handle.                                               *)

\* The modules keep nothing between requests, so one request says all.
Begin(r) ==
    /\ phase = "serving"
    /\ reply = NoReply
    /\ request' = r
    /\ phase' = "handling"
    /\ at' = 1
    /\ UNCHANGED <<config, rules, pending, reply>>

Respond(by, status, headers) ==
    /\ reply' = [by |-> by, status |-> status, headers |-> headers]
    /\ phase' = "serving"
    /\ UNCHANGED <<config, rules, at, request, pending>>

\* Defect: the response goes out as the module made it.
TakeBare(m, result) ==
    /\ phase = "handling" /\ at <= Len(Order) /\ Order[at] = m
    /\ \/ /\ result.outcome = "respond"
          /\ Respond(m, result.status, result.headers)
       \/ /\ result.outcome = "pass"
          /\ pending' = pending \o result.headers
          /\ at' = at + 1
          /\ UNCHANGED <<config, rules, phase, request, reply>>

\* What the chain does with a module's result.
Take(m, result) ==
    /\ phase = "handling" /\ at <= Len(Order) /\ Order[at] = m
    /\ \/ /\ result.outcome = "respond"
          /\ Respond(m, result.status, result.headers \o pending)
       \/ /\ result.outcome = "pass"
          /\ pending' = pending \o result.headers
          /\ at' = at + 1
          /\ UNCHANGED <<config, rules, phase, request, reply>>

HostGuard == Take("host_guard", HostGuardHandle(rules["host_guard"], request))
Router == Take("router", RouterHandle(rules["router"], request))
RouteTable == Take("route_table", RouteTableHandle(rules["route_table"], request))
Cors == Take("cors", CorsHandle(rules["cors"], request))
HeaderGuard == Take("header_guard", HeaderGuardHandle(rules["header_guard"], request))
JwtAuth ==
    /\ phase = "handling"
    /\ \E result \in JwtHandle(rules["jwt_auth"], config.jwt, request) : Take("jwt_auth", result)

\* Nobody answered.
EndOfChain ==
    /\ phase = "handling" /\ at > Len(Order)
    /\ Respond("rest", 404, pending)

Next ==
    \/ LoadModule \/ StartServing
    \/ \E r \in Requests : Begin(r)
    \/ HostGuard \/ Router \/ RouteTable \/ Cors \/ HeaderGuard \/ JwtAuth
    \/ EndOfChain

Spec == Init /\ [][Next]_vars

-----------------------------------------------------------------------------
(* Properties.  They speak of the configuration's lines, not of what the   *)
(* modules made of them.                                                   *)

Lines(m) == config.lines[m]
Answered == phase = "serving" /\ reply # NoReply

\* The request has been through a module, without an answer from it.
Passed(m) == (phase = "handling" \/ Answered) /\ \E i \in 1..at - 1 : Order[i] = m

\* A line of a method and a target pattern is about a request.
Covers(method, target, r) ==
    /\ method \in {"*", r.method}
    /\ \/ target = r.target
       \/ Last(target) = "*" /\ IsPrefix(Front(target), r.target)

\* A client names its host without a port and in any case.
HostListed(r, hosts) ==
    \E h \in Range(hosts) \ {<<>>} :
        \/ Lower(h) = Lower(r.hostName)
        \/ /\ Len(h) > 2 /\ h[1] = "*" /\ h[2] = "."
           /\ Len(r.hostName) > Len(h) - 1
           /\ Lower(SubSeq(r.hostName, Len(r.hostName) - Len(h) + 2, Len(r.hostName))) =
                  Lower(Tail(h))

\* The issuer's token is what the configuration wants.
GoodLogin(login) ==
    /\ login.signed
    /\ \A pair \in {<<"issuer", login.iss>>, <<"audience", login.aud>>} :
          \A i \in DOMAIN config.jwt :
              /\ config.jwt[i][1] = pair[1]
              /\ \A k \in 1..i - 1 : config.jwt[k][1] # pair[1]
              => config.jwt[i][2] \in {<<>>, pair[2]}
    /\ login.exp = 0 \/ login.exp > Now

\* The headers that later name the user say what the issuer said.
Known(login) ==
    \A pair \in {<<"X-Garcon-User-Id", login.sub>>, <<"X-Garcon-Roles", login.roles>>,
                 <<"X-Garcon-Claim-aud", login.aud>>} :
        {h \in Range(pending) : h[1] = pair[1]} = IF pair[2] = <<>> THEN {} ELSE {pair}

HostGuardHolds ==
    LET met == \A l \in Range(Lines("host_guard")) :
                   Covers(l[1], l[2], request) => HostListed(request, l[3])
    IN (Passed("host_guard") => met) /\ (reply.by = "host_guard" => ~met)

HeaderGuardHolds ==
    LET met == \A l \in Range(Lines("header_guard")) :
                   Covers(l[1], l[2], request) =>
                       /\ request.headers[l[3]] # Absent
                       /\ Len(l) = 6 => request.headers[l[3]] = l[4]
    IN (Passed("header_guard") => met) /\ (reply.by = "header_guard" => ~met)

JwtAuthHolds ==
    LET asked == Lines("jwt_auth") = <<>> \/
                 \E l \in Range(Lines("jwt_auth")) : Covers(l[1], l[2], request)
    IN /\ Passed("jwt_auth") /\ asked => GoodLogin(request.login) /\ Known(request.login)
       /\ reply.by = "jwt_auth" =>
             asked /\ (~GoodLogin(request.login) \/ request.login.exp > LongMax)

\* The three guards of the chain: a request is past one exactly if it meets
\* every line of it that covers the request, wherever the line is and whatever
\* the modules before it passed; the claims jwt_auth reads in a token's text
\* are the ones it was issued with, for strings and numbers with or without a
\* space before them and for an array without one.  Two deviations are part of
\* the statement: an audience that is an array behind a space is not found
\* (jwt_auth_module.cpp:395), so its token is one without an audience; and an
\* expiry beyond long long (jwt_auth_module.cpp:305) may be taken for one in
\* the past, and nothing else.
GuardsHold == HostGuardHolds /\ HeaderGuardHolds /\ JwtAuthHolds

CorsLine(r) ==
    LET hits == {i \in DOMAIN Lines("cors") : Covers("*", Lines("cors")[i][1], r)}
    IN IF hits = {} THEN <<>> ELSE Lines("cors")[Min(hits)]

\* The line for a request admits its origin and the method it is about.
Admitted(r, method) ==
    /\ r.headers["Origin"] # Absent
    /\ CorsLine(r) # <<>>
    /\ (Range(CorsLine(r)[2]) \ {Blank}) \cap {"*", r.headers["Origin"]} # {}
    /\ \E m \in Range(CorsLine(r)[3]) \ {Blank} : Lower(<<m>>) = Lower(<<method>>)

Named(name) == {i \in DOMAIN reply.headers : reply.headers[i][1] = name}

\* A page of an admitted origin can read every answer from cors on, also the
\* refusals of the guards behind it, and no other page can: the response names
\* the origin once, with Vary exactly where the answer depends on it.
CrossOriginReadable ==
    Answered /\ (Passed("cors") \/ reply.by = "cors") =>
        LET any == "*" \in Range(CorsLine(request)[2])
            about == IF IsPreflight(request)
                       THEN request.headers["Access-Control-Request-Method"] ELSE request.method
        IN IF ~Admitted(request, about) THEN Named("Access-Control-Allow-Origin") = {}
           ELSE /\ Cardinality(Named("Access-Control-Allow-Origin")) = 1
                /\ \A i \in Named("Access-Control-Allow-Origin") :
                       reply.headers[i][2] = IF any THEN <<"*">> ELSE <<request.headers["Origin"]>>
                /\ Cardinality(Named("Vary")) = IF any THEN 0 ELSE 1

\* A browser sends a preflight without credentials: one of an admitted origin
\* is never refused by a guard that asks for a key or a token.
PreflightNeedsNoCredentials ==
    Answered /\ IsPreflight(request)
        /\ Admitted(request, request.headers["Access-Control-Request-Method"]) =>
        reply.by \in {"host_guard", "router", "route_table"} \/ reply.status = 204

\* A pattern, without the star at its end.
PatternText(l) == IF Last(l[2]) = "*" THEN Front(l[2]) ELSE l[2]

\* Patterns whose names, each a word in braces, take whole segments.
SegmentPattern(text) ==
    \A i \in DOMAIN text :
        /\ text[i] = Open =>
               /\ i > 1 /\ text[i - 1] = "/"
               /\ i + 2 <= Len(text) /\ text[i + 2] = Close /\ text[i + 1] \notin {Open, Close}
        /\ text[i] = Close =>
               /\ i > 2 /\ text[i - 2] = Open
               /\ i = Len(text) \/ text[i + 1] = "/"

NamesIn(text) == {i \in DOMAIN text : i > 1 /\ text[i - 1] = Open}

\* The text a pattern stands for when the name at i is taken for values[i].
Filled(text, values) ==
    FlattenSeq([i \in DOMAIN text |->
        CASE i \in NamesIn(text) -> values[i]
          [] i \notin NamesIn(text) /\ text[i] \in {Open, Close} -> <<>>
          [] OTHER -> <<text[i]>>])

\* The values, free of '/', that make a line's pattern the path of a request,
\* or its beginning where the pattern ends in a star.
Fits(l, path) ==
    LET pieces == {s \in {SubSeq(path, a, b) : a \in 1..Len(path) + 1, b \in 0..Len(path)} :
                      \A i \in DOMAIN s : s[i] # "/"}
    IN {v \in [NamesIn(PatternText(l)) -> pieces] :
            IF Last(l[2]) = "*" THEN IsPrefix(Filled(PatternText(l), v), path)
            ELSE Filled(PatternText(l), v) = path}

\* What is passed on has the names of a pattern in their order, with the values.
PassedOn(text, values) ==
    \E pos \in [NamesIn(text) -> DOMAIN pending] :
        /\ \A i \in NamesIn(text) : pending[pos[i]] = <<text[i], values[i]>>
        /\ \A i, j \in NamesIn(text) : i < j => pos[i] < pos[j]

\* The router's captures are an answer to "which values make the pattern the
\* path?", and it finds one whenever there is one: the first route for which
\* there are values decides, and what is passed on are these values (the longest,
\* should a name before a star leave a choice).
RouterFindsRoute ==
    LET path == PathOf(request.target)
        hits == {i \in DOMAIN Lines("router") :
                    /\ Lines("router")[i][1] \in {"*", request.method}
                    /\ Fits(Lines("router")[i], path) # {}}
        first == Lines("router")[Min(hits)]
        responds == hits # {} /\ first[3] = "respond"
    IN (\A l \in Range(Lines("router")) : SegmentPattern(PatternText(l))) =>
        /\ reply.by = "router" => responds
        /\ Passed("router") => ~responds
        /\ Passed("router") /\ phase = "handling" /\ Order[at - 1] = "router" /\ hits # {} =>
               \E v \in Fits(first, path) :
                   /\ PassedOn(PatternText(first), v)
                   /\ \A w \in Fits(first, path) : \A i \in DOMAIN w : IsPrefix(w[i], v[i])
=============================================================================
