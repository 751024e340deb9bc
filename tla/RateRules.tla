------------------------------ MODULE RateRules ------------------------------
(***************************************************************************)
(* rate_limit_module's rules: what its constructor makes of a line of the  *)
(* configuration, and which requests a rule is about.                      *)
(*                                                                         *)
(* A line is [head, fields]: what is before its first field, and the       *)
(* trimmed fields that '|' separates.  A field is a sequence of words and  *)
(* of the characters "*" and ":"; in the fields that are numbers every     *)
(* character is an element.                                                *)
(***************************************************************************)
EXTENDS Numbers

CONSTANTS
    IntBits,        \* width of an int
    WindowMax,      \* longest window accepted, 10^9 seconds in the code
    LowerName       \* header names with capitals -> their ascii_lowercase

ASSUME WindowFitsInt == IntBits \in Nat \ {0, 1} /\ WindowMax \in 1..2 ^ (IntBits - 1) - 1

IntMax == 2 ^ (IntBits - 1) - 1

\* What parse_positive_int may return, 0 if it throws.  A number beyond int
\* overflows, which is undefined; an outcome that is not positive throws.
PositiveInts(text) ==
    IF ~IsNumber(text) THEN {0}
    ELSE IF Number(text) <= IntMax THEN {Number(text)} ELSE 0..IntMax

\* The seconds the last letter of a window stands for, 0 for a digit.
UnitOf(c) ==
    CASE c \in {"s", "S"} -> 1
      [] c \in {"m", "M"} -> 60
      [] c \in {"h", "H"} -> 3600
      [] OTHER -> 0

\* The number of units in a window, and how long a unit is.
Units(text) ==
    IF text = <<>> \/ UnitOf(text[Len(text)]) = 0 THEN text ELSE SubSeq(text, 1, Len(text) - 1)
UnitSeconds(text) == IF Units(text) = text THEN 1 ELSE UnitOf(text[Len(text)])

\* Defect: the product is an int.
WindowsInt(text) ==
    LET wrapped(n) == ((n + IntMax + 1) % (2 * (IntMax + 1))) - (IntMax + 1)
    IN {IF wrapped(n * UnitSeconds(text)) <= WindowMax THEN wrapped(n * UnitSeconds(text)) ELSE 0 :
            n \in PositiveInts(Units(text))}

\* What parse_window_seconds may return, 0 if it throws: the product is a
\* long long and is compared before it becomes an int.
Windows(text) ==
    {IF n * UnitSeconds(text) <= WindowMax THEN n * UnitSeconds(text) ELSE 0 :
        n \in PositiveInts(Units(text))}

\* classify_target_pattern
TargetPattern(text) ==
    IF text # <<>> /\ text[Len(text)] = "*"
      THEN [prefix |-> TRUE, text |-> SubSeq(text, 1, Len(text) - 1)]
    ELSE [prefix |-> FALSE, text |-> text]

\* parse_key_spec
KeySpec(text) ==
    CASE text = <<"global">> -> [kind |-> "global", name |-> <<>>]
      [] Len(text) > 2 /\ text[1] = "header" /\ text[2] = ":" ->
            [kind |-> "header", name |-> SubSeq(text, 3, Len(text))]
      [] text \notin {<<>>, <<"global">>} /\ \A i \in DOMAIN text : text[i] # ":" ->
            [kind |-> "header", name |-> text]
      [] OTHER -> [kind |-> "invalid", name |-> <<>>]

IsRuleLine(line) == line.head = "rule="

Invalid == [valid |-> FALSE]

\* The sixth field, if there is one, is a burst; one below the limit is raised.
Bursts(f, limit) ==
    {IF burst # 0 /\ burst < limit THEN limit ELSE burst :
        burst \in IF Len(f) >= 6 /\ f[6] # <<>> THEN PositiveInts(f[6]) ELSE {limit}}

\* What the constructor may make of the fields of a rule= line.
RulesOf(f) ==
    IF \/ Len(f) < 5
       \/ f[1] = <<>> \/ TargetPattern(f[2]).text = <<>>
       \/ KeySpec(f[3]).kind = "invalid"
      THEN {Invalid}
    ELSE UNION {{IF 0 \in {limit, window, burst} THEN Invalid
                 ELSE [valid |-> TRUE, method |-> f[1], target |-> TargetPattern(f[2]),
                       key |-> KeySpec(f[3]), limit |-> limit, window |-> window,
                       burst |-> burst] :
                    window \in Windows(f[5]), burst \in Bursts(f, limit)} :
                 limit \in PositiveInts(f[4])}

-----------------------------------------------------------------------------
(* Requests: [method, target, headers], headers a sequence of <<name,      *)
(* value>>.                                                                *)

MethodMatches(pattern, method) == pattern \in {<<"*">>, method}

TargetMatches(pattern, target) ==
    \/ ~pattern.prefix /\ pattern.text = target
    \/ /\ pattern.prefix /\ Len(target) >= Len(pattern.text)
       /\ SubSeq(target, 1, Len(pattern.text)) = pattern.text

\* The rules that are about a request.
IsAbout(rule, q) == MethodMatches(rule.method, q.method) /\ TargetMatches(rule.target, q.target)
Matching(rules, q) == {i \in DOMAIN rules : IsAbout(rules[i], q)}

Lower(name) ==
    [i \in DOMAIN name |-> IF name[i] \in DOMAIN LowerName THEN LowerName[name[i]] ELSE name[i]]

\* find_header_icase
HeadersNamed(q, name) == {i \in DOMAIN q.headers : Lower(q.headers[i][1]) = Lower(name)}
FirstHeader(q, name) ==
    q.headers[CHOOSE i \in HeadersNamed(q, name) : \A j \in HeadersNamed(q, name) : i <= j][2]

\* extract_subject
SubjectOf(rule, q) ==
    CASE rule.key.kind = "global" -> "global"
      [] rule.key.kind = "header" /\ HeadersNamed(q, rule.key.name) = {} -> "<anonymous>"
      [] OTHER -> LET value == FirstHeader(q, rule.key.name)
                  IN IF value = "" THEN "<anonymous>" ELSE value
=============================================================================
