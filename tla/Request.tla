------------------------------- MODULE Request -------------------------------
(***************************************************************************)
(* http::request: what parse makes of a header block and what a request    *)
(* says about its connection.                                              *)
(*                                                                         *)
(* A header block is the sequence of its lines, a line a sequence of words *)
(* and of the characters " ", "\t", ":", "," and "/", which are words of   *)
(* their own.  A word is any run of other characters; all that counts is   *)
(* which character classes it keeps to.                                    *)
(***************************************************************************)
EXTENDS Naturals, Sequences, FiniteSets

CONSTANTS
    TokenWord,      \* words of token characters only (is_token_char)
    TargetWord,     \* words of visible characters without '#' and '\'
    ControlWord,    \* words with a control character other than a tab
    LowerOf         \* words with capital letters -> the same in small letters

ASSUME ClassesAreDisjoint == ControlWord \cap (TokenWord \cup TargetWord) = {}

Blank == {" ", "\t"}

Lowered(text) ==
    [i \in DOMAIN text |-> IF text[i] \in DOMAIN LowerOf THEN LowerOf[text[i]] ELSE text[i]]

\* ascii_iequals and header_name_equals
EqualsIgnoringCase(left, right) == Lowered(left) = Lowered(right)

Positions(text, symbol) == {i \in DOMAIN text : text[i] = symbol}
Least(S) == CHOOSE i \in S : \A j \in S : i <= j
Greatest(S) == CHOOSE i \in S : \A j \in S : j <= i

\* trim_optional_whitespace
Trimmed(text) ==
    LET kept == {i \in DOMAIN text : text[i] \notin Blank}
    IN IF kept = {} THEN <<>> ELSE SubSeq(text, Least(kept), Greatest(kept))

IsToken(text) == text # <<>> /\ \A i \in DOMAIN text : text[i] \in TokenWord

\* is_valid_target: origin form only.
ValidTarget(text) ==
    /\ text # <<>> /\ text[1] = "/"
    /\ \A i \in DOMAIN text : text[i] \in TargetWord \cup {"/", ":", ","}

ValidValue(text) == \A i \in DOMAIN text : text[i] \notin ControlWord

Versions == {<<"HTTP", "/", "1.0">>, <<"HTTP", "/", "1.1">>}

\* The request line has exactly two spaces, around the target.
RequestLine(line) ==
    LET spaces == Positions(line, " ")
        a == Least(spaces)
        b == Greatest(spaces)
    IN [valid |-> /\ Cardinality(spaces) = 2
                  /\ IsToken(SubSeq(line, 1, a - 1))
                  /\ ValidTarget(SubSeq(line, a + 1, b - 1))
                  /\ SubSeq(line, b + 1, Len(line)) \in Versions,
        version |-> SubSeq(line, b + 1, Len(line))]

NameOf(line) == SubSeq(line, 1, Least(Positions(line, ":")) - 1)
ValueOf(line) == Trimmed(SubSeq(line, Least(Positions(line, ":")) + 1, Len(line)))

\* parse_header_line
HeaderLine(line) ==
    /\ line # <<>> /\ line[1] \notin Blank
    /\ Positions(line, ":") # {}
    /\ IsToken(NameOf(line)) /\ ValidValue(ValueOf(line))

\* request::parse
WellFormed(block) ==
    /\ block # <<>> /\ Positions(block[1], " ") # {}
    /\ RequestLine(block[1]).valid
    /\ \A i \in 2..Len(block) : HeaderLine(block[i])

\* find_header: the first header of that name, 0 if there is none.
FindHeader(block, name) ==
    LET hits == {i \in 2..Len(block) : EqualsIgnoringCase(NameOf(block[i]), name)}
    IN IF hits = {} THEN 0 ELSE Least(hits)

\* The items of a list separated by commas.
Items(text) ==
    LET cuts == {0, Len(text) + 1} \cup Positions(text, ",")
    IN {Trimmed(SubSeq(text, cut[1] + 1, cut[2] - 1)) :
            cut \in {c \in cuts \X cuts :
                        c[1] < c[2] /\ ~\E d \in cuts : c[1] < d /\ d < c[2]}}

\* Defect: the whole value is compared.
ConnectionTokenWhole(block, token) ==
    LET i == FindHeader(block, <<"Connection">>)
    IN i # 0 /\ EqualsIgnoringCase(ValueOf(block[i]), token)

\* connection_token_present
ConnectionToken(block, token) ==
    LET i == FindHeader(block, <<"Connection">>)
    IN i # 0 /\ \E item \in Items(ValueOf(block[i])) : EqualsIgnoringCase(item, token)

\* keep_alive_requested of a block that is well formed.
KeepAliveRequested(block) ==
    IF RequestLine(block[1]).version = <<"HTTP", "/", "1.0">>
    THEN ConnectionToken(block, <<"keep-alive">>)
    ELSE ~ConnectionToken(block, <<"close">>)
=============================================================================
