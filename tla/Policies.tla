------------------------------- MODULE Policies -------------------------------
(***************************************************************************)
(* The decisions of the bundled policy modules under lib/: what each one   *)
(* makes of a configuration line, and of a request.                        *)
(*                                                                         *)
(* A text is a sequence of words, a word being any run of characters that  *)
(* no decision looks into.  A configuration line is the sequence of its    *)
(* fields, a field that is a list the sequence of its items: the splitting *)
(* at '|' and ',' and the trimming are in this representation.  A header   *)
(* the request does not have is Absent; of repeated headers header_value   *)
(* returns the first, so one value per name says all.                      *)
(***************************************************************************)
EXTENDS Integers, Sequences, SequencesExt, FiniteSetsExt

CONSTANTS
    LowerCase,  \* words with upper-case letters -> their ascii_lowercase
    Digits,     \* words made of digits
    Numeral     \* those words that are in status fields -> what the loop of
                \* parse_status_code computes; one beyond int overflows, which
                \* is undefined, and may be any int

Absent == "<absent>"
Blank == ""
Open == "{"
Close == "}"
Invalid == [valid |-> FALSE]

ASSUME NumeralsAreDigits ==
    DOMAIN Numeral \subseteq Digits /\ \A w \in DOMAIN Numeral : Numeral[w] \in Int
ASSUME DigitsAreNoMarks == Digits \cap {":", "[", "]"} = {}
ASSUME MarksHaveNoCase ==
    \A w \in DOMAIN LowerCase : {w, LowerCase[w]} \cap {Blank, "*", "."} = {}

-----------------------------------------------------------------------------
(* What all modules share.                                                 *)

Lower(text) ==
    [i \in DOMAIN text |-> IF text[i] \in DOMAIN LowerCase THEN LowerCase[text[i]] ELSE text[i]]

StatusCodes == 100..999
ValidStatus(word) == word \in DOMAIN Numeral /\ Numeral[word] \in StatusCodes

\* classify_target_pattern
TargetPattern(text) ==
    IF text # <<>> /\ Last(text) = "*" THEN [kind |-> "prefix", text |-> Front(text)]
    ELSE [kind |-> "exact", text |-> text]

MethodMatches(pattern, method) == pattern = "*" \/ pattern = method

TargetMatches(pattern, target) ==
    \/ pattern.kind = "exact" /\ pattern.text = target
    \/ pattern.kind = "prefix" /\ IsPrefix(pattern.text, target)

\* The first of the rules at some positions, 0 if there is none.
FirstOf(hits) == IF hits = {} THEN 0 ELSE Min(hits)

\* The rules of a method and a target that are about a request.
Covering(rules, request) ==
    {i \in DOMAIN rules : /\ MethodMatches(rules[i].method, request.method)
                          /\ TargetMatches(rules[i].target, request.target)}

PassWith(headers) == [outcome |-> "pass", headers |-> headers]
RespondWith(status, headers) ==
    [outcome |-> "respond", status |-> status, headers |-> headers]

-----------------------------------------------------------------------------
(* host_guard                                                              *)

HostPattern(item) ==
    LET text == Lower(item)
    IN IF Len(text) > 2 /\ text[1] = "*" /\ text[2] = "."
         THEN [kind |-> "suffix", text |-> Tail(text)]
       ELSE [kind |-> "exact", text |-> text]

HostGuardRule(f) ==
    IF /\ Len(f) = 5
       /\ f[1] # Blank /\ TargetPattern(f[2]).text # <<>>
       /\ \E i \in DOMAIN f[3] : f[3][i] # <<>>
       /\ ValidStatus(f[4])
      THEN [valid |-> TRUE, method |-> f[1], target |-> TargetPattern(f[2]),
            hosts |-> {HostPattern(h) : h \in Range(f[3]) \ {<<>>}},
            status |-> Numeral[f[4]]]
    ELSE Invalid

\* normalize_host_header: without the port, in lower case.
NormalizeHost(host) ==
    LET colons == {i \in DOMAIN host : host[i] = ":"}
        closing == {i \in DOMAIN host : host[i] = "]"}
    IN Lower(IF host # <<>> /\ host[1] = "["
               THEN IF closing = {} THEN host ELSE SubSeq(host, 1, Min(closing))
             ELSE IF /\ Cardinality(colons) = 1
                     /\ Max(colons) < Len(host)
                     /\ \A i \in Max(colons) + 1..Len(host) : host[i] \in Digits
               THEN SubSeq(host, 1, Max(colons) - 1)
             ELSE host)

HostMatches(pattern, host) ==
    \/ pattern.kind = "exact" /\ pattern.text = host
    \/ pattern.kind = "suffix" /\ Len(host) > Len(pattern.text) /\ IsSuffix(pattern.text, host)

HostSatisfies(rule, request) ==
    LET host == NormalizeHost(request.host)
    IN host # <<>> /\ \E pattern \in rule.hosts : HostMatches(pattern, host)

\* A guard answers with the first rule that is broken.
Guard(rules, broken) ==
    IF broken = {} THEN PassWith(<<>>) ELSE RespondWith(rules[FirstOf(broken)].status, <<>>)

HostGuardHandle(rules, request) ==
    Guard(rules, {i \in Covering(rules, request) : ~HostSatisfies(rules[i], request)})

-----------------------------------------------------------------------------
(* header_guard                                                            *)

\* With six fields the fourth is the expected value.
HeaderGuardRule(f) ==
    IF /\ Len(f) \in {5, 6}
       /\ f[1] # Blank /\ TargetPattern(f[2]).text # <<>> /\ f[3] # Blank
       /\ ValidStatus(f[Len(f) - 1])
      THEN [valid |-> TRUE, method |-> f[1], target |-> TargetPattern(f[2]),
            name |-> f[3], expected |-> IF Len(f) = 6 THEN f[4] ELSE Absent,
            status |-> Numeral[f[Len(f) - 1]]]
    ELSE Invalid

HeaderSatisfies(rule, request) ==
    LET actual == request.headers[rule.name]
    IN actual # Absent /\ rule.expected \in {Absent, actual}

HeaderGuardHandle(rules, request) ==
    Guard(rules, {i \in Covering(rules, request) : ~HeaderSatisfies(rules[i], request)})

-----------------------------------------------------------------------------
(* cors                                                                    *)

CorsRule(f) ==
    IF /\ Len(f) = 4
       /\ TargetPattern(f[1]).text # <<>>
       /\ \E i \in DOMAIN f[2] : f[2][i] # Blank
       /\ \E i \in DOMAIN f[3] : f[3][i] # Blank
      THEN [valid |-> TRUE, target |-> TargetPattern(f[1]),
            origins |-> Range(f[2]) \ {Blank},
            methods |-> Range(Lower(f[3])) \ {Blank},
            allowMethods |-> f[3], allowHeaders |-> f[4]]
    ELSE Invalid

AnyOriginAllowed(rule) == "*" \in rule.origins
OriginAllowed(rule, origin) == AnyOriginAllowed(rule) \/ origin \in rule.origins
MethodAllowed(rule, method) == Lower(<<method>>)[1] \in rule.methods

IsPreflight(request) ==
    /\ request.method = "OPTIONS"
    /\ request.headers["Origin"] # Absent
    /\ request.headers["Access-Control-Request-Method"] # Absent

\* add_cors_headers, and the same two headers on a pass.
CorsHeaders(rule, origin) ==
    IF AnyOriginAllowed(rule) THEN <<<<"Access-Control-Allow-Origin", <<"*">>>>>>
    ELSE <<<<"Access-Control-Allow-Origin", <<origin>>>>, <<"Vary", <<"Origin">>>>>>

PreflightResponse(rule, origin) ==
    RespondWith(204, CorsHeaders(rule, origin) \o
                     <<<<"Access-Control-Allow-Methods", rule.allowMethods>>>> \o
                     IF rule.allowHeaders = Blank THEN <<>>
                     ELSE <<<<"Access-Control-Allow-Headers", <<rule.allowHeaders>>>>>>)

\* Defect: an OPTIONS request is one like any other.
CorsHandlePasses(rules, request) ==
    LET origin == request.headers["Origin"]
        i == FirstOf({k \in DOMAIN rules : TargetMatches(rules[k].target, request.target)})
    IN IF origin = Absent \/ i = 0 THEN PassWith(<<>>)
       ELSE IF ~OriginAllowed(rules[i], origin) THEN PassWith(<<>>)
       ELSE IF ~MethodAllowed(rules[i], request.method) THEN RespondWith(405, <<>>)
       ELSE PassWith(CorsHeaders(rules[i], origin))

\* Only the first rule for the target counts.
CorsHandle(rules, request) ==
    LET origin == request.headers["Origin"]
        i == FirstOf({k \in DOMAIN rules : TargetMatches(rules[k].target, request.target)})
        asked == IF IsPreflight(request) THEN request.headers["Access-Control-Request-Method"]
                 ELSE request.method
    IN CASE origin = Absent \/ i = 0 -> PassWith(<<>>)
         [] OTHER ->
            LET rule == rules[i]
            IN CASE ~OriginAllowed(rule, origin) ->
                        IF IsPreflight(request) THEN RespondWith(403, <<>>) ELSE PassWith(<<>>)
                 [] OriginAllowed(rule, origin) /\ ~MethodAllowed(rule, asked) ->
                        RespondWith(405, <<>>)
                 [] OTHER ->
                        IF IsPreflight(request) THEN PreflightResponse(rule, origin)
                        ELSE PassWith(CorsHeaders(rule, origin))

-----------------------------------------------------------------------------
(* route_table and router                                                  *)

RouteRule(f) ==
    IF /\ Len(f) >= 3
       /\ f[1] # Blank /\ TargetPattern(f[2]).text # <<>>
       /\ \/ f[3] = "pass"
          \/ f[3] = "respond" /\ Len(f) = 6 /\ ValidStatus(f[4])
      THEN [valid |-> TRUE, method |-> f[1], target |-> TargetPattern(f[2]), action |-> f[3],
            status |-> IF f[3] = "pass" THEN 0 ELSE Numeral[f[4]]]
    ELSE Invalid

RouteTableHandle(rules, request) ==
    LET i == FirstOf(Covering(rules, request))
    IN IF i = 0 \/ rules[i].action = "pass" THEN PassWith(<<>>)
       ELSE RespondWith(rules[i].status, <<>>)

\* extract_path: what is before the query.
PathOf(target) ==
    LET queries == {i \in DOMAIN target : target[i] = "?"}
    IN IF queries = {} THEN target ELSE SubSeq(target, 1, Min(queries) - 1)

\* Defect: a name takes the rest of the path.
MatchTargetToEnd(pattern, target) ==
    LET hits == {i \in DOMAIN pattern.text : pattern.text[i] = Open}
        path == PathOf(target)
    IN IF hits = {} THEN [matched |-> TargetMatches(pattern, path), captures |-> <<>>]
       ELSE IF ~IsPrefix(SubSeq(pattern.text, 1, Min(hits) - 1), path)
         THEN [matched |-> FALSE, captures |-> <<>>]
       ELSE [matched |-> TRUE,
             captures |-> <<<<pattern.text[Min(hits) + 1], SubSeq(path, Min(hits), Len(path))>>>>]

NoMatch == [matched |-> FALSE, captures |-> <<>>]
Match(captures) == [matched |-> TRUE, captures |-> captures]

\* The brace that closes a name, and the end of the segment a name takes.
Closing(text, p) == FirstOf({i \in DOMAIN text : i > p /\ text[i] = Close})
SegmentEnd(path, t) == Min({Len(path) + 1} \cup {i \in DOMAIN path : i >= t /\ path[i] = "/"})

\* One turn of the loop of match_target, at p in the pattern and t in the path,
\* where from is what the loop makes of the places behind: a {name} takes
\* everything up to the next '/', and nothing is ever tried again.
MatchStep(pattern, path, from, p, t) ==
    LET text == pattern.text
        rest == from[Closing(text, p) + 1][SegmentEnd(path, t)]
        took == <<text[p + 1], SubSeq(path, t, SegmentEnd(path, t) - 1)>>
    IN CASE p > Len(text) ->
               IF t > Len(path) \/ pattern.kind = "prefix" THEN Match(<<>>) ELSE NoMatch
         [] p <= Len(text) /\ text[p] = Open ->
               IF Closing(text, p) \in {0, p + 1} \/ ~rest.matched THEN NoMatch
               ELSE Match(<<took>> \o rest.captures)
         [] OTHER ->
               IF t > Len(path) \/ text[p] # path[t] THEN NoMatch ELSE from[p + 1][t + 1]

\* The result lists the names, of one word each, with what they took.
MatchLoop(pattern, path) ==
    LET from[p \in 1..Len(pattern.text) + 1] ==
            [t \in 1..Len(path) + 1 |-> MatchStep(pattern, path, from, p, t)]
    IN from

MatchTarget(pattern, target) == MatchLoop(pattern, PathOf(target))[1][1]

\* The name of a parameter stands for its X-Garcon-Route-Param header.
RouterHandle(rules, request) ==
    LET match(rule) == MatchTarget(rule.target, request.target)
        i == FirstOf({k \in DOMAIN rules : /\ MethodMatches(rules[k].method, request.method)
                                           /\ match(rules[k]).matched})
    IN IF i = 0 THEN PassWith(<<>>)
       ELSE IF rules[i].action = "pass" THEN PassWith(match(rules[i]).captures)
       ELSE RespondWith(rules[i].status, <<>>)

=============================================================================
