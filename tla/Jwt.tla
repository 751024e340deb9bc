-------------------------------- MODULE Jwt --------------------------------
(***************************************************************************)
(* The decisions of jwt_auth: bearer tokens signed with HS256, and the     *)
(* claims it reads from them with searches in the payload's text.          *)
(*                                                                         *)
(* In a header or a payload the characters '"', ':', ' ', '\', '-', '[',   *)
(* the digits of numbers and '.' are elements of their own.  What base64   *)
(* makes of a word is a constant; the HMAC is as good as its key with its  *)
(* text.  A file's key=value lines are a sequence of <<key, value>>.       *)
(***************************************************************************)
EXTENDS Policies, Numbers

CONSTANTS
    Decoded,    \* words in base64url -> the texts they encode
    LongBits,   \* width of a long long
    Now         \* std::time(nullptr)

ASSUME LongIsSigned == LongBits \in Nat \ {0, 1}
LongMax == 2 ^ (LongBits - 1) - 1
ASSUME NowIsTime == Now \in 0..LongMax

-----------------------------------------------------------------------------
(* The configuration.                                                      *)

JwtRule(f) ==
    IF Len(f) = 2 /\ f[1] # Blank /\ TargetPattern(f[2]).text # <<>>
      THEN [valid |-> TRUE, method |-> f[1], target |-> TargetPattern(f[2])]
    ELSE Invalid

Missing == <<Absent>>

\* key_value_config::get: the first line of a key.
Get(lines, key) ==
    LET i == FirstOf({k \in DOMAIN lines : lines[k][1] = key})
    IN IF i = 0 THEN Missing ELSE lines[i][2]

\* A key has to be there, and another algorithm must not be.
JwtSettingsValid(lines) ==
    /\ Get(lines, "secret") \notin {Missing, <<>>}
    /\ Get(lines, "alg") \in {Missing, <<"HS256">>}

-----------------------------------------------------------------------------
(* The token.                                                              *)

\* extract_bearer_token, of a trimmed Authorization value: <<>> if none.
BearerToken(value) ==
    LET sp == FirstOf({i \in DOMAIN value : value[i] = " "})
        words == {i \in DOMAIN value : i > sp /\ value[i] # " "}
    IN IF sp = 0 \/ words = {} \/ Lower(SubSeq(value, 1, sp - 1)) # <<"bearer">> THEN <<>>
       ELSE SubSeq(value, Min(words), Len(value))

\* Header, payload and signature, each of them one word.
HasThreeParts(token) == Len(token) = 5 /\ {i \in DOMAIN token : token[i] = "."} = {2, 4}

Hmac(secret, text) == secret \o text

Quote == "\""
Occurrences(text, pattern) ==
    {p \in 1..Len(text) - Len(pattern) + 1 : SubSeq(text, p, p + Len(pattern) - 1) = pattern}
Has(text, pattern) == Occurrences(text, pattern) # {}

KeyText(claim) == <<Quote, claim, Quote, ":">>

\* The header asks for HS256, with or without a space.
SaysHs256(header) ==
    \E style \in {<<Quote>>, <<" ", Quote>>} :
        Has(header, KeyText("alg") \o style \o <<"HS256", Quote>>)

\* The text from a position up to the closing quote, with escapes taken out.
Unquoted(text, start) ==
    LET escaped[i \in start..Len(text)] ==
            i > start /\ text[i - 1] = "\\" /\ ~escaped[i - 1]
        end == Min({Len(text) + 1} \cup
                   {i \in start..Len(text) : text[i] = Quote /\ ~escaped[i]})
        kept == SelectSeq([k \in 1..end - start |-> start + k - 1],
                          LAMBDA i : escaped[i] \/ text[i] # "\\")
    IN [k \in DOMAIN kept |-> text[kept[k]]]

\* Defect: only the style without a space is known.
JsonStringTight(payload, claim) ==
    LET tight == FirstOf(Occurrences(payload, KeyText(claim) \o <<Quote>>))
    IN IF tight # 0 THEN Unquoted(payload, tight + 5) ELSE <<>>

\* extract_json_string: the style without a space is looked for first.
JsonString(payload, claim) ==
    LET tight == FirstOf(Occurrences(payload, KeyText(claim) \o <<Quote>>))
        spaced == FirstOf(Occurrences(payload, KeyText(claim) \o <<" ", Quote>>))
    IN CASE tight # 0 -> Unquoted(payload, tight + 5)
         [] tight = 0 /\ spaced # 0 -> Unquoted(payload, spaced + 6)
         [] OTHER -> <<>>

\* The first string of an array.
ArrayItem(payload, claim) ==
    LET at == FirstOf(Occurrences(payload, KeyText(claim) \o <<"[">>))
        quotes == {i \in DOMAIN payload : i > at + 4 /\ payload[i] = Quote}
    IN IF at = 0 \/ Cardinality(quotes) < 2 THEN <<>>
       ELSE SubSeq(payload, Min(quotes) + 1, Min(quotes \ {Min(quotes)}) - 1)

\* What extract_json_int may return; too many digits overflow, which is
\* undefined.
JsonInts(payload, claim) ==
    LET at == FirstOf(Occurrences(payload, KeyText(claim)))
        sign == Min({Len(payload) + 1} \cup
                    {i \in DOMAIN payload : i > at + 3 /\ payload[i] # " "})
        negative == sign <= Len(payload) /\ payload[sign] = "-"
        first == IF negative THEN sign + 1 ELSE sign
        end == Min({Len(payload) + 1} \cup
                   {i \in DOMAIN payload : i >= first /\ ~IsDigit(payload[i])})
        digits == SubSeq(payload, first, end - 1)
    IN IF at = 0 \/ digits = <<>> THEN {0}
       ELSE IF Number(digits) > LongMax THEN -LongMax - 1..LongMax
       ELSE {IF negative THEN -Number(digits) ELSE Number(digits)}

IfEmpty(text, other) == IF text = <<>> THEN other ELSE text

ClaimsOf(payload) ==
    [sub |-> JsonString(payload, "sub"),
     iss |-> JsonString(payload, "iss"),
     aud |-> IfEmpty(JsonString(payload, "aud"), ArrayItem(payload, "aud")),
     roles |-> IfEmpty(JsonString(payload, "roles"), JsonString(payload, "role"))]

Expired(exp) == exp # 0 /\ exp <= Now

\* validate_and_extract up to the expiry: form, algorithm, signature, issuer
\* and audience, in this order.
TokenSigned(token, settings) ==
    /\ HasThreeParts(token)
    /\ SaysHs256(Decoded[token[1]])
    /\ Decoded[token[5]] = Hmac(Get(settings, "secret"), SubSeq(token, 1, 3))
TokenValid(token, settings) ==
    /\ TokenSigned(token, settings)
    /\ Get(settings, "issuer") \in {Missing, <<>>, ClaimsOf(Decoded[token[3]]).iss}
    /\ Get(settings, "audience") \in {Missing, <<>>, ClaimsOf(Decoded[token[3]]).aud}

\* The headers of the claims that are not empty.
ClaimHeader(name, value) == IF value = <<>> THEN <<>> ELSE <<<<name, value>>>>
ClaimHeaders(claims) ==
    ClaimHeader("X-Garcon-User-Id", claims.sub) \o ClaimHeader("X-Garcon-Roles", claims.roles)
        \o ClaimHeader("X-Garcon-Claim-iss", claims.iss) \o ClaimHeader("X-Garcon-Claim-aud", claims.aud)

\* What handle() may return.  A module without rules enforces everywhere.
JwtHandle(rules, settings, request) ==
    LET enforce == rules = <<>> \/ Covering(rules, request) # {}
        token == BearerToken(request.authorization)
    IN IF ~enforce THEN {PassWith(<<>>)}
       ELSE IF ~TokenValid(token, settings) THEN {RespondWith(401, <<>>)}
       ELSE {IF Expired(exp) THEN RespondWith(401, <<>>)
             ELSE PassWith(ClaimHeaders(ClaimsOf(Decoded[token[3]]))) :
                exp \in JsonInts(Decoded[token[3]], "exp")}
=============================================================================
