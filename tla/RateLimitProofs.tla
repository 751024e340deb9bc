--------------------------- MODULE RateLimitProofs ---------------------------
(***************************************************************************)
(* Proofs about RateLimit, for every configuration, number of threads and  *)
(* resolution of the clock: the bound on what a bucket lets through, that  *)
(* no interval is refilled twice, and what Retry-After is worth.           *)
(***************************************************************************)
EXTENDS RateLimit, WellFoundedInduction, FiniteSetTheorems, TLAPS

-----------------------------------------------------------------------------
(* Induction.  The rules of the library have an operator as their          *)
(* parameter, which the provers cannot instantiate; with a set they can.   *)

\* A set with 0 and with every successor of its numbers has all of them.
LEMMA NatSetInduction ==
  ASSUME NEW S, 0 \in S, \A n \in Nat : n \in S => n + 1 \in S
  PROVE  Nat \subseteq S
<1> DEFINE R == OpToRel(<, Nat)
           T == Nat \ S
<1>1. IsWellFoundedOn(R, Nat)
  BY NatLessThanWellFounded
<1>2. SUFFICES ASSUME T # {} PROVE FALSE
  OBVIOUS
<1>3. T \subseteq Nat
  OBVIOUS
<1> HIDE DEF R, T
<1>4. PICK x \in T : \A y \in T : ~(<<y, x>> \in R)
  BY <1>1, <1>2, <1>3, WFMin
<1> USE DEF T
<1>5. x # 0 /\ x - 1 \in Nat /\ x - 1 < x
  BY <1>4
<1>6. <<x - 1, x>> \in R
  BY <1>5 DEF R, OpToRel
<1>7. x - 1 \in S
  BY <1>4, <1>5, <1>6
<1>8. (x - 1) + 1 \in S
  BY <1>5, <1>7
<1> QED
  BY <1>4, <1>8

\* A set of natural numbers that is not empty has a least element.
LEMMA LeastExists ==
  ASSUME NEW S, S \subseteq Nat, S # {}
  PROVE  \E m \in S : \A n \in S : m <= n
<1> DEFINE R == OpToRel(<, Nat)
<1>1. IsWellFoundedOn(R, Nat)
  BY NatLessThanWellFounded
<1> HIDE DEF R
<1>2. PICK x \in S : \A y \in S : ~(<<y, x>> \in R)
  BY <1>1, WFMin
<1>3. ASSUME NEW n \in S PROVE x <= n
  <2>1. ~(<<n, x>> \in R) /\ n \in Nat /\ x \in Nat
    BY <1>2
  <2>2. ~(n < x)
    BY <2>1 DEF R, OpToRel
  <2> QED
    BY <2>1, <2>2
<1> QED
  BY <1>2, <1>3

-----------------------------------------------------------------------------
(* Numbers: what digit-by-digit reading gives.                             *)

\* f is the running value of the first n digits.
Reads(f, text, n) ==
    f = [i \in 0..n |-> IF i = 0 THEN 0 ELSE f[i - 1] * 10 + DigitOf(text[i])]

\* Reading has a result, however long the text is.
LEMMA ReadsExists ==
  ASSUME NEW text
  PROVE  \A n \in Nat : \E f : Reads(f, text, n)
<1> DEFINE S == {n \in Nat : \E f : Reads(f, text, n)}
<1>1. 0 \in S
  <2>1. Reads([i \in 0..0 |-> 0], text, 0)
    BY DEF Reads
  <2> QED
    BY <2>1
<1>2. ASSUME NEW n \in Nat, n \in S PROVE n + 1 \in S
  <2>1. PICK f : Reads(f, text, n)
    BY <1>2
  <2> DEFINE g == [i \in 0..(n + 1) |->
                     IF i <= n THEN f[i] ELSE f[n] * 10 + DigitOf(text[n + 1])]
  <2>2. ASSUME NEW i \in 0..(n + 1)
        PROVE  g[i] = IF i = 0 THEN 0 ELSE g[i - 1] * 10 + DigitOf(text[i])
    <3>1. CASE i = 0
      BY <2>1, <3>1 DEF Reads
    <3>2. CASE i # 0 /\ i <= n
      <4>1. i - 1 \in 0..n /\ i \in 0..n
        BY <3>2
      <4>2. f[i] = f[i - 1] * 10 + DigitOf(text[i])
        BY <2>1, <3>2, <4>1 DEF Reads
      <4>3. g[i] = f[i] /\ g[i - 1] = f[i - 1]
        BY <4>1
      <4> QED
        BY <3>2, <4>2, <4>3
    <3>3. CASE i = n + 1
      BY <3>3
    <3> QED
      BY <3>1, <3>2, <3>3
  <2>3. g = [i \in 0..(n + 1) |-> IF i = 0 THEN 0 ELSE g[i - 1] * 10 + DigitOf(text[i])]
    BY <2>2
  <2>4. Reads(g, text, n + 1)
    BY <2>3 DEF Reads
  <2> QED
    BY <2>4
<1> HIDE DEF S
<1>3. Nat \subseteq S
  BY <1>1, <1>2, NatSetInduction
<1> QED
  BY <1>3 DEF S

\* A digit is worth 0 to 9.
LEMMA DigitFacts ==
  ASSUME NEW c, IsDigit(c)
  PROVE  DigitOf(c) \in 0..9
<1>1. DOMAIN DigitChars = 1..10
  BY DEF DigitChars
<1>2. (CHOOSE d \in DOMAIN DigitChars : DigitChars[d] = c) \in DOMAIN DigitChars
  BY DEF IsDigit
<1> QED
  BY <1>1, <1>2 DEF DigitOf

\* What parses as a number is a natural number.
LEMMA NumberIsNat ==
  ASSUME NEW text \in Seq(STRING), IsNumber(text)
  PROVE  Number(text) \in Nat
<1> DEFINE n == Len(text)
           f == CHOOSE f : Reads(f, text, n)
<1>0. n \in Nat /\ DOMAIN text = 1..n
  OBVIOUS
<1>1. Reads(f, text, n)
  BY <1>0, ReadsExists
<1>2. Number(text) = f[n]
  BY DEF Number, Reads
<1> HIDE DEF f, n
<1>3. \A i \in 0..n : f[i] = IF i = 0 THEN 0 ELSE f[i - 1] * 10 + DigitOf(text[i])
  BY <1>1 DEF Reads
<1> DEFINE S == {i \in Nat : i <= n => f[i] \in Nat}
<1>4. 0 \in S
  BY <1>0, <1>3
<1>5. ASSUME NEW i \in Nat, i \in S PROVE i + 1 \in S
  <2>1. SUFFICES ASSUME i + 1 <= n PROVE f[i + 1] \in Nat
    OBVIOUS
  <2>2. f[i] \in Nat
    BY <1>0, <1>5, <2>1
  <2>3. i + 1 \in 1..n /\ i + 1 \in 0..n /\ i + 1 # 0 /\ (i + 1) - 1 = i
    BY <1>0, <2>1
  <2>4. f[i + 1] = f[i] * 10 + DigitOf(text[i + 1])
    BY <1>3, <2>3
  <2>5. DigitOf(text[i + 1]) \in 0..9
    BY <1>0, <2>3, DigitFacts DEF IsNumber
  <2> DEFINE v == f[i]
             d == DigitOf(text[i + 1])
  <2>6. v \in Nat /\ d \in 0..9 /\ f[i + 1] = v * 10 + d
    BY <2>2, <2>4, <2>5
  <2> HIDE DEF v, d
  <2>7. v * 10 + d \in Nat
    BY <2>6
  <2> QED
    BY <2>6, <2>7
<1> HIDE DEF S
<1>6. Nat \subseteq S
  BY <1>4, <1>5, NatSetInduction
<1> QED
  BY <1>0, <1>2, <1>6 DEF S

-----------------------------------------------------------------------------
(* Rules.                                                                  *)

\* parse_positive_int gives natural numbers, whatever an overflow does.
LEMMA PositiveIntsAreNat ==
  ASSUME NEW text \in Seq(STRING)
  PROVE  PositiveInts(text) \subseteq Nat
<1>1. CASE ~IsNumber(text)
  BY <1>1 DEF PositiveInts
<1>2. CASE IsNumber(text)
  <2>1. Number(text) \in Nat
    BY <1>2, NumberIsNat
  <2>2. CASE Number(text) <= IntMax
    BY <1>2, <2>1, <2>2 DEF PositiveInts
  <2>3. CASE ~(Number(text) <= IntMax)
    <3>1. PositiveInts(text) = 0..IntMax
      BY <1>2, <2>3 DEF PositiveInts
    <3> QED
      BY <3>1
  <2> QED
    BY <2>2, <2>3
<1> QED
  BY <1>1, <1>2

\* What a rule in force has: a limit, a window in bounds and a burst that is
\* not below the limit.
SoundRule(r) ==
    /\ r.valid
    /\ r.limit \in Nat \ {0}
    /\ r.window \in 1..WindowMax
    /\ r.burst \in Nat \ {0} /\ r.burst >= r.limit

\* parse_window_seconds gives a window in bounds, or 0 where it throws.
LEMMA WindowsAreBounded ==
  ASSUME NEW text \in Seq(STRING)
  PROVE  Windows(text) \subseteq 0..WindowMax
<1>1. Units(text) \in Seq(STRING)
  <2>1. CASE text = <<>> \/ UnitOf(text[Len(text)]) = 0
    BY <2>1 DEF Units
  <2>2. CASE ~(text = <<>> \/ UnitOf(text[Len(text)]) = 0)
    <3>1. SubSeq(text, 1, Len(text) - 1) \in Seq(STRING)
      BY <2>2
    <3> QED
      BY <2>2, <3>1 DEF Units
  <2> QED
    BY <2>1, <2>2
<1>2. UnitSeconds(text) \in Nat
  BY DEF UnitSeconds, UnitOf
<1>3. WindowMax \in Nat
  BY WindowFitsInt
<1>4. PositiveInts(Units(text)) \subseteq Nat
  BY <1>1, PositiveIntsAreNat
<1> QED
  BY <1>2, <1>3, <1>4 DEF Windows

\* The constructor makes sound rules of whatever fields a line has, or none.
LEMMA RulesAreSound ==
  ASSUME NEW f \in Seq(Seq(STRING)), NEW rule \in RulesOf(f), rule.valid
  PROVE  SoundRule(rule)
<1>1. rule # Invalid
  BY DEF Invalid
<1>2. Len(f) >= 5 /\ Len(f) \in Nat
  BY <1>1 DEF RulesOf
<1>3. f[4] \in Seq(STRING) /\ f[5] \in Seq(STRING) /\ (Len(f) >= 6 => f[6] \in Seq(STRING))
  BY <1>2
<1>4. PICK limit \in PositiveInts(f[4]) :
      \E window \in Windows(f[5]), burst \in Bursts(f, limit) :
        /\ 0 \notin {limit, window, burst}
        /\ rule = [valid |-> TRUE, method |-> f[1], target |-> TargetPattern(f[2]),
                   key |-> KeySpec(f[3]), limit |-> limit, window |-> window, burst |-> burst]
  BY <1>1 DEF RulesOf
<1>5. PICK window \in Windows(f[5]), burst \in Bursts(f, limit) :
        /\ 0 \notin {limit, window, burst}
        /\ rule = [valid |-> TRUE, method |-> f[1], target |-> TargetPattern(f[2]),
                   key |-> KeySpec(f[3]), limit |-> limit, window |-> window, burst |-> burst]
  BY <1>4
<1>6. limit \in Nat \ {0} /\ window \in 1..WindowMax
  <2>1. PositiveInts(f[4]) \subseteq Nat /\ Windows(f[5]) \subseteq 0..WindowMax /\ WindowMax \in Nat
    BY <1>3, PositiveIntsAreNat, WindowsAreBounded, WindowFitsInt
  <2> QED
    BY <1>5, <2>1
<1>7. burst \in Nat \ {0} /\ burst >= limit
  <2>1. PICK b \in IF Len(f) >= 6 /\ f[6] # <<>> THEN PositiveInts(f[6]) ELSE {limit} :
          burst = IF b # 0 /\ b < limit THEN limit ELSE b
    BY <1>5 DEF Bursts
  <2>2. b \in Nat
    BY <1>3, <1>6, <2>1, PositiveIntsAreNat
  <2> QED
    BY <1>5, <1>6, <2>1, <2>2
<1> QED
  BY <1>5, <1>6, <1>7 DEF SoundRule

-----------------------------------------------------------------------------
(* Arithmetic of refills and of Retry-After.                               *)

\* Integer division rounds down.
LEMMA DivisionFacts ==
  ASSUME NEW a \in Nat, NEW b \in Nat \ {0}
  PROVE  a \div b \in Nat /\ b * (a \div b) <= a /\ a < b * (a \div b) + b
OBVIOUS

\* A product of natural numbers is one, and grows with its factors.
LEMMA ProductFacts ==
  ASSUME NEW a \in Nat, NEW b \in Nat
  PROVE  /\ a * b \in Nat
         /\ a # 0 /\ b # 0 => a * b # 0
         /\ b # 0 => a <= a * b
OBVIOUS

\* With sound rules the parts of a token and of a full bucket are positive.
LEMMA PartsFacts ==
  ASSUME NEW r, SoundRule(rules[r])
  PROVE  /\ Limit(r) \in Nat \ {0}
         /\ Token(r) \in Nat \ {0}
         /\ Full(r) \in Nat /\ Full(r) >= Token(r)
<1>1. /\ rules[r].limit \in Nat \ {0}
      /\ rules[r].window \in Nat \ {0}
      /\ rules[r].burst \in Nat \ {0}
      /\ TicksPerSecond \in Nat \ {0}
  BY WindowFitsInt, TimeIsDiscrete DEF SoundRule
<1>2. Token(r) \in Nat \ {0}
  BY <1>1, ProductFacts DEF Token
<1>3. Full(r) = Token(r) * rules[r].burst
  BY <1>1, <1>2 DEF Full
<1> QED
  BY <1>1, <1>2, <1>3, ProductFacts DEF Limit

\* A refill is dated not before the last one, and adds no more than the time
\* between them is worth.
LEMMA RefilledFacts ==
  ASSUME NEW r, SoundRule(rules[r]), NEW b \in Bucket, NEW time \in Nat
  PROVE  /\ Refilled(b, r, time) \in Bucket
         /\ Refilled(b, r, time).last >= b.last
         /\ Refilled(b, r, time).tokens
              <= b.tokens + (Refilled(b, r, time).last - b.last) * Limit(r)
<1>1. Limit(r) \in Nat \ {0} /\ Full(r) \in Nat
  BY PartsFacts
<1>2. b.tokens \in Nat /\ b.last \in Nat
  BY DEF Bucket
<1>3. CASE time > b.last
  <2> DEFINE gained == b.tokens + (time - b.last) * Limit(r)
  <2>1. (time - b.last) * Limit(r) \in Nat
    BY <1>1, <1>2, <1>3, ProductFacts
  <2>2. gained \in Nat
    BY <1>2, <2>1
  <2>3. Refilled(b, r, time) =
          [tokens |-> IF gained < Full(r) THEN gained ELSE Full(r), last |-> time]
    BY <1>3 DEF Refilled
  <2> HIDE DEF gained
  <2>4. /\ Refilled(b, r, time) \in Bucket
        /\ Refilled(b, r, time).last = time
        /\ Refilled(b, r, time).tokens <= gained
    BY <1>1, <2>2, <2>3 DEF Bucket
  <2> QED
    BY <1>2, <1>3, <2>4 DEF gained
<1>4. CASE ~(time > b.last)
  <2>1. Refilled(b, r, time) = b
    BY <1>4 DEF Refilled
  <2> QED
    BY <1>1, <1>2, <2>1
<1> QED
  BY <1>3, <1>4

-----------------------------------------------------------------------------
(* The inductive invariant.                                                *)

\* The rules that some line of the configuration may become.
AnyRule == UNION {RulesOf(config[i].fields) : i \in DOMAIN config}

\* The constructor: only sound rules, and nobody is served before it is done.
Loading ==
    /\ config \in Configs
    /\ line \in 1..Len(config) + 1
    /\ phase \in {"parsing", "refused", "serving"}
    /\ rules \in Seq(AnyRule)
    /\ \A r \in DOMAIN rules : SoundRule(rules[r])
    /\ phase # "serving" => /\ DOMAIN buckets = {}
                            /\ \A t \in Thread : pc[t] = "idle"

\* The threads: a request that waits for the lock has a rule and the time it
\* read, and one that comes back for the report has a bucket.
Handling ==
    /\ clock \in Nat \ {0}
    /\ pc \in [Thread -> {"idle", "lock", "relock"}]
    /\ key \in [Thread -> {key[t] : t \in Thread}]
    /\ \A t \in Thread : pc[t] # "idle" => key[t][1] \in DOMAIN rules
    /\ \A t \in Thread : pc[t] = "relock" => key[t] \in DOMAIN buckets
    /\ now \in [Thread -> Nat]
    /\ reply \in [Thread -> Reply]

\* The buckets and their history.
Buckets ==
    /\ buckets \in [DOMAIN buckets -> Bucket]
    /\ \A k \in DOMAIN buckets : k[1] \in DOMAIN rules
    /\ created \in [DOMAIN buckets -> Nat]
    /\ admitted \in [DOMAIN buckets -> Nat]

Typed == Loading /\ Handling /\ Buckets

\* Retry-After is a number of seconds.
LEMMA RetryAfterIsNat ==
  ASSUME NEW r, SoundRule(rules[r]), NEW b \in Bucket, b.tokens < Token(r)
  PROVE  RetryAfter(b, r) \in Nat
<1> DEFINE p == Limit(r) * TicksPerSecond
           a == (Token(r) - b.tokens) * 1000 + 999 * p
           q == 1000 * p
<1>1. p \in Nat \ {0}
  BY PartsFacts, TimeIsDiscrete, ProductFacts
<1>2. b.tokens \in Nat /\ Token(r) \in Nat /\ rules[r].window \in Nat
  BY PartsFacts, WindowFitsInt DEF Bucket, SoundRule
<1> HIDE DEF p
<1>3. a \in Nat /\ q \in Nat \ {0}
  BY <1>1, <1>2
<1>4. RetryAfter(b, r) = IF a \div q < 1 THEN 1
                         ELSE IF a \div q > rules[r].window THEN rules[r].window ELSE a \div q
  BY DEF RetryAfter, p
<1> HIDE DEF a, q
<1>5. a \div q \in Nat
  BY <1>3, DivisionFacts
<1> QED
  BY <1>2, <1>4, <1>5

\* Typed holds at first.
LEMMA InitTyped == Init => Typed
<1> SUFFICES ASSUME Init PROVE Typed
  OBVIOUS
<1>1. Loading
  <2>1. config \in Seq({config[i] : i \in DOMAIN config})
    BY ConfigsAreText DEF Init
  <2>2. 1 \in 1..Len(config) + 1
    BY <2>1
  <2>3. rules \in Seq(AnyRule)
    BY DEF Init
  <2>4. DOMAIN rules = {} /\ DOMAIN buckets = {}
    BY DEF Init
  <2> QED
    BY <2>2, <2>3, <2>4 DEF Init, Loading
<1>2. Handling
  <2>1. Unlimited("none") \in Reply
    BY DEF Unlimited, Reply
  <2> QED
    BY <2>1 DEF Init, Handling
<1>3. Buckets
  BY DEF Init, Buckets
<1> QED
  BY <1>1, <1>2, <1>3 DEF Typed

\* The constructor keeps Typed.
LEMMA ParseLineTyped ==
  ASSUME Typed, ParseLine PROVE Typed'
<1> USE DEF Typed
<1>1. /\ config \in Seq({config[i] : i \in DOMAIN config})
      /\ \A i \in DOMAIN config : config[i].fields \in Seq(Seq(STRING))
  BY ConfigsAreText DEF Loading
<1>2. line \in DOMAIN config /\ line + 1 \in 1..Len(config) + 1
  BY <1>1 DEF Loading, ParseLine
<1>3. AnyRule' = AnyRule
  BY DEF ParseLine, AnyRule
<1> DEFINE Grown == /\ rules' \in Seq(AnyRule)
                    /\ \A r \in DOMAIN rules' : SoundRule(rules'[r])
                    /\ DOMAIN rules \subseteq DOMAIN rules'
<1>4. Grown /\ phase' \in {"parsing", "refused"}
  <2>1. phase' \in {"parsing", "refused"}
    BY DEF ParseLine
  <2>2. CASE UNCHANGED rules
    BY <2>1, <2>2 DEF Loading
  <2>3. ASSUME NEW rule \in RulesOf(config[line].fields), rule.valid,
               rules' = Append(rules, rule)
        PROVE  Grown
    <3>1. rule \in AnyRule /\ SoundRule(rule)
      BY <1>1, <1>2, <2>3, RulesAreSound DEF AnyRule
    <3>2. /\ rules' \in Seq(AnyRule)
          /\ DOMAIN rules' = DOMAIN rules \cup {Len(rules) + 1}
          /\ \A i \in DOMAIN rules : rules'[i] = rules[i]
          /\ rules'[Len(rules) + 1] = rule
      BY <2>3, <3>1 DEF Loading
    <3> QED
      BY <3>1, <3>2 DEF Loading
  <2>4. \/ UNCHANGED rules
        \/ \E rule \in RulesOf(config[line].fields) : rule.valid /\ rules' = Append(rules, rule)
    BY DEF ParseLine
  <2> QED
    BY <2>1, <2>2, <2>3, <2>4
<1>5. Loading'
  BY <1>2, <1>3, <1>4 DEF Loading, ParseLine
<1>6. Handling' /\ Buckets'
  BY <1>4 DEF Handling, Buckets, ParseLine
<1> QED
  BY <1>5, <1>6

\* The end of the constructor keeps Typed.
LEMMA EndOfConfigTyped ==
  ASSUME Typed, EndOfConfig PROVE Typed'
<1>1. AnyRule' = AnyRule
  BY DEF EndOfConfig, AnyRule
<1>2. phase' \in {"refused", "serving"}
  BY DEF EndOfConfig
<1>3. Loading'
  BY <1>1, <1>2 DEF Typed, Loading, EndOfConfig
<1> QED
  BY <1>3 DEF Typed, Handling, Buckets, EndOfConfig

\* The clock keeps Typed.
LEMMA AdvanceTyped ==
  ASSUME Typed, Advance PROVE Typed'
<1>1. AnyRule' = AnyRule
  BY DEF Advance, AnyRule, configVars
<1>2. clock' \in Nat \ {0}
  BY TimeIsDiscrete DEF Typed, Handling, Advance
<1>3. Loading'
  BY <1>1 DEF Typed, Loading, Advance, configVars
<1> QED
  BY <1>2, <1>3 DEF Typed, Handling, Buckets, Advance, configVars

\* The rule of a request is the first of those that match it.
LEMMA FirstMatchFacts ==
  ASSUME Typed, NEW q, Matching(rules, q) # {}
  PROVE  FirstMatch(q) \in DOMAIN rules
<1>1. Matching(rules, q) \subseteq DOMAIN rules /\ DOMAIN rules \subseteq Nat
  BY DEF Matching, Typed, Loading
<1>2. \E r \in Matching(rules, q) : \A s \in Matching(rules, q) : r <= s
  BY <1>1, LeastExists
<1> QED
  BY <1>1, <1>2 DEF FirstMatch

\* handle() keeps Typed up to the lock.
LEMMA BeginTyped ==
  ASSUME Typed, NEW t \in Thread, NEW q \in Request, Begin(t, q) PROVE Typed'
<1> USE DEF Typed
<1>1. AnyRule' = AnyRule
  BY DEF Begin, AnyRule, configVars
<1>2. Loading' /\ Buckets'
  BY <1>1 DEF Loading, Buckets, Begin, configVars
<1>3. Unlimited("none") \in Reply /\ Unlimited("pass") \in Reply
  BY DEF Unlimited, Reply
<1>4. CASE Matching(rules, q) = {}
  <2>1. /\ UNCHANGED <<clock, pc, key, now, rules, buckets>>
        /\ reply' = [reply EXCEPT ![t] = Unlimited("pass")]
    BY <1>4 DEF Begin, configVars
  <2>2. reply' \in [Thread -> Reply]
    BY <1>3, <2>1 DEF Handling
  <2> QED
    BY <1>2, <2>1, <2>2 DEF Handling
<1>5. CASE Matching(rules, q) # {}
  <2>1. KeyOf(q)[1] \in DOMAIN rules
    BY <1>5, FirstMatchFacts DEF KeyOf
  <2>2. /\ pc' = [pc EXCEPT ![t] = "lock"]
        /\ key' = [key EXCEPT ![t] = KeyOf(q)]
        /\ now' = [now EXCEPT ![t] = clock]
        /\ reply' = [reply EXCEPT ![t] = Unlimited("none")]
        /\ UNCHANGED <<rules, clock, buckets>>
    BY <1>5 DEF Begin, configVars
  <2>3. /\ \A u \in Thread : u # t => pc'[u] = pc[u] /\ key'[u] = key[u]
        /\ pc'[t] = "lock" /\ key'[t] = KeyOf(q)
        /\ key' \in [Thread -> {key'[u] : u \in Thread}]
    BY <2>2 DEF Handling
  <2> QED
    BY <1>2, <1>3, <2>1, <2>2, <2>3 DEF Handling
<1> QED
  BY <1>2, <1>4, <1>5

\* A map stays one of its type.
LEMMA PutType ==
  ASSUME NEW D, NEW S, NEW m \in [D -> S], NEW k, NEW v \in S
  PROVE  Put(m, k, v) \in [D \cup {k} -> S]
BY DEF Put

\* The bucket that check_and_consume leaves, the time it was created and the
\* number of requests it let through, in one place for the proofs below.
Outcome(t, k, r, b) ==
    /\ k = key[t] /\ r = k[1] /\ r \in DOMAIN rules /\ SoundRule(rules[r])
    /\ b \in Bucket
    /\ Found(k, now[t]) \in Bucket
    /\ b = Refilled(Found(k, now[t]), r, now[t])
    /\ UNCHANGED <<config, line, phase, rules, clock>>
    /\ phase = "serving"
    /\ created' = IF k \notin DOMAIN buckets THEN Put(created, k, now[t]) ELSE created
    /\ \/ /\ b.tokens >= Token(r)
          /\ buckets' = Put(buckets, k, [b EXCEPT !.tokens = @ - Token(r)])
          /\ admitted' = Put(admitted, k, IF k \notin DOMAIN buckets THEN 1 ELSE admitted[k] + 1)
          /\ pc' = [pc EXCEPT ![t] = "relock"]
          /\ UNCHANGED <<key, reply>>
       \/ /\ b.tokens < Token(r)
          /\ buckets' = Put(buckets, k, b)
          /\ reply' = [reply EXCEPT ![t] = [verdict |-> "limited", rule |-> r,
                           remaining |-> 0, retry |-> RetryAfter(b, r)]]
          /\ pc' = [pc EXCEPT ![t] = "idle"]
          /\ key' = [key EXCEPT ![t] = NoKey]
          /\ admitted' = IF k \notin DOMAIN buckets THEN Put(admitted, k, 0) ELSE admitted
    /\ now' = [now EXCEPT ![t] = 0]

\* Every critical section has such an outcome.
LEMMA ConsumeOutcome ==
  ASSUME Typed, NEW t \in Thread, Consume(t)
  PROVE  \E k, r, b : Outcome(t, k, r, b)
<1> DEFINE k == key[t]
           r == k[1]
           b == Refilled(Found(k, now[t]), r, now[t])
<1>1. r \in DOMAIN rules /\ SoundRule(rules[r]) /\ phase = "serving" /\ now[t] \in Nat
  BY DEF Typed, Loading, Handling, Consume
<1>2. Found(k, now[t]) \in Bucket
  BY <1>1, PartsFacts DEF Found, Bucket, Typed, Buckets
<1>3. b \in Bucket
  BY <1>1, <1>2, RefilledFacts
<1>4. Outcome(t, k, r, b)
  BY <1>1, <1>2, <1>3 DEF Outcome, Consume, configVars
<1> QED
  BY <1>4

\* check_and_consume keeps Typed.
LEMMA ConsumeTyped ==
  ASSUME Typed, NEW t \in Thread, Consume(t) PROVE Typed'
<1> USE DEF Typed
<1>1. PICK k, r, b : Outcome(t, k, r, b)
  BY ConsumeOutcome
<1>2. Token(r) \in Nat
  BY <1>1, PartsFacts DEF Outcome
<1>3. \E v \in Bucket : buckets' = Put(buckets, k, v)
  <2>1. CASE b.tokens >= Token(r)
    <3>1. [b EXCEPT !.tokens = @ - Token(r)] \in Bucket
      BY <1>1, <1>2, <2>1 DEF Outcome, Bucket
    <3> QED
      BY <1>1, <1>2, <2>1, <3>1 DEF Outcome, Bucket
  <2>2. CASE ~(b.tokens >= Token(r))
    BY <1>1, <2>2 DEF Outcome
  <2> QED
    BY <2>1, <2>2
<1>4. buckets' \in [DOMAIN buckets \cup {k} -> Bucket]
  <2>1. PICK v \in Bucket : buckets' = Put(buckets, k, v)
    BY <1>3
  <2>2. buckets \in [DOMAIN buckets -> Bucket]
    BY DEF Buckets
  <2>3. Put(buckets, k, v) \in [DOMAIN buckets \cup {k} -> Bucket]
    BY <2>2, PutType
  <2> QED
    BY <2>1, <2>3
<1>5. created' \in [DOMAIN buckets \cup {k} -> Nat]
  <2>1. CASE k \in DOMAIN buckets
    <3>1. created' = created /\ DOMAIN buckets \cup {k} = DOMAIN buckets
      BY <1>1, <2>1 DEF Outcome
    <3> QED
      BY <3>1 DEF Buckets
  <2>2. CASE k \notin DOMAIN buckets
    <3>1. created' = Put(created, k, now[t]) /\ now[t] \in Nat
      BY <1>1, <2>2 DEF Outcome, Handling
    <3> QED
      BY <3>1, PutType DEF Buckets
  <2> QED
    BY <2>1, <2>2
<1>6. admitted' \in [DOMAIN buckets \cup {k} -> Nat]
  <2>1. CASE k \in DOMAIN buckets
    <3>0. DOMAIN buckets \cup {k} = DOMAIN buckets
      BY <2>1
    <3>1. admitted[k] + 1 \in Nat /\ DOMAIN buckets \cup {k} = DOMAIN buckets
      <4>1. admitted[k] \in Nat
        BY <2>1 DEF Buckets
      <4> QED
        BY <3>0, <4>1
    <3>2. admitted' = Put(admitted, k, admitted[k] + 1) \/ admitted' = admitted
      <4>1. (IF k \notin DOMAIN buckets THEN 1 ELSE admitted[k] + 1) = admitted[k] + 1
        BY <2>1
      <4> QED
        BY <1>1, <2>1, <4>1 DEF Outcome
    <3>3. Put(admitted, k, admitted[k] + 1) \in [DOMAIN buckets \cup {k} -> Nat]
      BY <3>1, PutType DEF Buckets
    <3>4. admitted \in [DOMAIN buckets \cup {k} -> Nat]
      BY <3>1 DEF Buckets
    <3> QED
      BY <3>2, <3>3, <3>4
  <2>2. CASE k \notin DOMAIN buckets
    <3>1. admitted' \in {Put(admitted, k, 1), Put(admitted, k, 0)}
      BY <1>1, <2>2 DEF Outcome
    <3>2. /\ Put(admitted, k, 1) \in [DOMAIN buckets \cup {k} -> Nat]
          /\ Put(admitted, k, 0) \in [DOMAIN buckets \cup {k} -> Nat]
      BY PutType DEF Buckets
    <3> QED
      BY <3>1, <3>2
  <2> QED
    BY <2>1, <2>2
<1>7. Buckets'
  BY <1>1, <1>4, <1>5, <1>6 DEF Buckets, Outcome
<1>8. Loading'
  BY <1>1 DEF Loading, Outcome, AnyRule
<1>9. Handling'
  <2>1. now' \in [Thread -> Nat] /\ UNCHANGED <<clock, rules>>
    BY <1>1 DEF Outcome, Handling
  <2>2. CASE b.tokens >= Token(r)
    <3>1. /\ pc' = [pc EXCEPT ![t] = "relock"]
          /\ UNCHANGED <<key, reply>> /\ k = key[t]
      BY <1>1, <1>2, <2>2 DEF Outcome, Bucket
    <3> QED
      BY <1>1, <1>4, <2>1, <3>1 DEF Handling, Outcome
  <2>3. CASE b.tokens < Token(r)
    <3> DEFINE answer == [verdict |-> "limited", rule |-> r, remaining |-> 0,
                          retry |-> RetryAfter(b, r)]
    <3>1. /\ pc' = [pc EXCEPT ![t] = "idle"]
          /\ key' = [key EXCEPT ![t] = NoKey]
          /\ reply' = [reply EXCEPT ![t] = answer]
      BY <1>1, <1>2, <2>3 DEF Outcome, Bucket
    <3>2. r \in Nat
      BY <1>1 DEF Outcome, Loading
    <3>3. answer \in Reply
      BY <1>1, <2>3, <3>2, RetryAfterIsNat DEF Outcome, Reply
    <3> HIDE DEF answer
    <3>4. reply' \in [Thread -> Reply]
      BY <3>1, <3>3 DEF Handling
    <3>5. key' \in [Thread -> {key'[u] : u \in Thread}]
      BY <3>1 DEF Handling
    <3>6. \A u \in Thread : pc'[u] # "idle" => u # t /\ pc'[u] = pc[u] /\ key'[u] = key[u]
      BY <3>1 DEF Handling
    <3>7. pc' \in [Thread -> {"idle", "lock", "relock"}]
      BY <3>1 DEF Handling
    <3> QED
      BY <1>4, <2>1, <3>4, <3>5, <3>6, <3>7 DEF Handling
  <2> QED
    BY <1>1, <2>2, <2>3 DEF Outcome
<1> QED
  BY <1>7, <1>8, <1>9

\* The report of a pass keeps Typed.
LEMMA ReportTyped ==
  ASSUME Typed, NEW t \in Thread, ReportRemaining(t) PROVE Typed'
<1> USE DEF Typed
<1>1. AnyRule' = AnyRule
  BY DEF ReportRemaining, AnyRule, configVars
<1>2. Loading' /\ Buckets'
  BY <1>1 DEF Loading, Buckets, ReportRemaining, configVars, Handling
<1> DEFINE k == key[t]
           answer == [verdict |-> "pass", rule |-> k[1], retry |-> 0,
                      remaining |-> buckets[k].tokens \div Token(k[1])]
<1>3. /\ pc' = [pc EXCEPT ![t] = "idle"]
      /\ key' = [key EXCEPT ![t] = NoKey]
      /\ reply' = [reply EXCEPT ![t] = answer]
      /\ UNCHANGED <<clock, now, rules, buckets>>
  BY DEF ReportRemaining, configVars
<1>4. k \in DOMAIN buckets /\ k[1] \in DOMAIN rules /\ k[1] \in Nat /\ SoundRule(rules[k[1]])
  BY DEF ReportRemaining, Handling, Buckets, Loading
<1>5. buckets[k].tokens \in Nat /\ Token(k[1]) \in Nat \ {0}
  BY <1>4, PartsFacts DEF Buckets, Bucket
<1>6. buckets[k].tokens \div Token(k[1]) \in Nat
  BY <1>5, DivisionFacts
<1>7. answer \in Reply
  BY <1>4, <1>6 DEF Reply
<1> HIDE DEF answer, k
<1>8. reply' \in [Thread -> Reply] /\ pc' \in [Thread -> {"idle", "lock", "relock"}]
  BY <1>3, <1>7 DEF Handling
<1>9. key' \in [Thread -> {key'[u] : u \in Thread}]
  BY <1>3 DEF Handling
<1>10. \A u \in Thread : pc'[u] # "idle" => u # t /\ pc'[u] = pc[u] /\ key'[u] = key[u]
  BY <1>3 DEF Handling
<1>11. Handling'
  BY <1>3, <1>8, <1>9, <1>10 DEF Handling
<1> QED
  BY <1>2, <1>11

\* Typed is inductive.
LEMMA NextTyped == Typed /\ [Next]_vars => Typed'
<1> SUFFICES ASSUME Typed, [Next]_vars PROVE Typed'
  OBVIOUS
<1>1. CASE ParseLine
  BY <1>1, ParseLineTyped
<1>2. CASE EndOfConfig
  BY <1>2, EndOfConfigTyped
<1>3. CASE Advance
  BY <1>3, AdvanceTyped
<1>4. ASSUME NEW t \in Thread, NEW q \in Request, Begin(t, q) PROVE Typed'
  BY <1>4, BeginTyped
<1>5. ASSUME NEW t \in Thread, Consume(t) PROVE Typed'
  BY <1>5, ConsumeTyped
<1>6. ASSUME NEW t \in Thread, ReportRemaining(t) PROVE Typed'
  BY <1>6, ReportTyped
<1>7. CASE UNCHANGED vars
  BY <1>7 DEF vars, Typed, Loading, Handling, Buckets, AnyRule
<1> QED
  BY <1>1, <1>2, <1>3, <1>4, <1>5, <1>6, <1>7 DEF Next

\* Type correctness: a rule in force is always a sound one, a thread at the
\* lock always has a rule, and what it comes back for is there.
THEOREM TypeCorrect == Spec => []Typed
<1>1. Init => Typed
  BY InitTyped
<1>2. Typed /\ [Next]_vars => Typed'
  BY NextTyped
<1> QED
  BY <1>1, <1>2, PTL DEF Spec

\* The type invariant of the model follows.
THEOREM TypesHold == Spec => []TypeOK
<1>1. Typed => TypeOK
  BY DEF Typed, Loading, Handling, Buckets, TypeOK, SoundRule
<1> QED
  BY <1>1, TypeCorrect, PTL

-----------------------------------------------------------------------------
(* The promise of a rule.                                                  *)

\* The account of one bucket: what it holds and what it has let through is
\* covered by the burst and the time since its first request.
Covered(bucket, start, count, r) ==
    bucket.tokens + count * Token(r) <= Full(r) + (bucket.last - start) * Limit(r)

\* A new bucket's account is covered, with the first request let through or
\* without.
LEMMA NewIsCovered ==
  ASSUME NEW r, SoundRule(rules[r]), NEW time \in Nat, NEW b \in Bucket,
         b.last = time, b.tokens <= Full(r)
  PROVE  /\ Covered(b, time, 0, r)
         /\ b.tokens >= Token(r) => Covered([b EXCEPT !.tokens = @ - Token(r)], time, 1, r)
<1>1. Token(r) \in Nat /\ Full(r) \in Nat /\ Limit(r) \in Nat
  BY PartsFacts
<1>2. b.tokens \in Nat /\ b.last \in Nat
  BY DEF Bucket
<1>3. (time - time) * Limit(r) = 0 /\ 0 * Token(r) = 0 /\ 1 * Token(r) = Token(r)
  BY <1>1
<1>4. /\ [b EXCEPT !.tokens = @ - Token(r)].tokens = b.tokens - Token(r)
      /\ [b EXCEPT !.tokens = @ - Token(r)].last = b.last
  BY DEF Bucket
<1> QED
  BY <1>1, <1>2, <1>3, <1>4 DEF Covered

\* A refill keeps an account covered, and so does a request that is let
\* through.
LEMMA RefillKeepsCovered ==
  ASSUME NEW r, SoundRule(rules[r]), NEW b \in Bucket, NEW time \in Nat,
         NEW start \in Nat, NEW count \in Nat, Covered(b, start, count, r)
  PROVE  LET c == Refilled(b, r, time)
         IN /\ Covered(c, start, count, r)
            /\ c.tokens >= Token(r) =>
                 Covered([c EXCEPT !.tokens = @ - Token(r)], start, count + 1, r)
<1> DEFINE c == Refilled(b, r, time)
<1>1. Token(r) \in Nat /\ Full(r) \in Nat /\ Limit(r) \in Nat
  BY PartsFacts
<1>2. /\ c \in Bucket
      /\ c.tokens <= b.tokens + (c.last - b.last) * Limit(r)
  BY RefilledFacts
<1>3. b.tokens \in Nat /\ b.last \in Nat
  BY DEF Bucket
<1> HIDE DEF c
<1>4. c.tokens \in Nat /\ c.last \in Nat
  BY <1>2 DEF Bucket
<1>5. (c.last - b.last) * Limit(r) + (b.last - start) * Limit(r) = (c.last - start) * Limit(r)
  BY <1>1, <1>3, <1>4
<1>6. /\ (c.last - b.last) * Limit(r) \in Int /\ (b.last - start) * Limit(r) \in Int
      /\ (c.last - start) * Limit(r) \in Int /\ count * Token(r) \in Int
      /\ (count + 1) * Token(r) = count * Token(r) + Token(r)
  BY <1>1, <1>3, <1>4
<1>7. c.tokens + count * Token(r) <= Full(r) + (c.last - start) * Limit(r)
  BY <1>1, <1>2, <1>3, <1>4, <1>5, <1>6 DEF Covered
<1>8. /\ [c EXCEPT !.tokens = @ - Token(r)].tokens = c.tokens - Token(r)
      /\ [c EXCEPT !.tokens = @ - Token(r)].last = c.last
  BY <1>2 DEF Bucket
<1>9. (c.tokens - Token(r)) + (count + 1) * Token(r) = c.tokens + count * Token(r)
  BY <1>1, <1>4, <1>6
<1> QED
  BY <1>7, <1>8, <1>9 DEF c, Covered

\* RateBound is the account of every bucket.
LEMMA RateBoundMeans ==
  RateBound <=> \A k \in DOMAIN buckets : Covered(buckets[k], created[k], admitted[k], k[1])
BY DEF RateBound, Covered

\* check_and_consume keeps the promise.
LEMMA ConsumeKeepsRateBound ==
  ASSUME Typed, RateBound, NEW t \in Thread, Consume(t) PROVE RateBound'
<1>1. PICK k, r, b : Outcome(t, k, r, b)
  BY ConsumeOutcome
<1> DEFINE left == IF b.tokens >= Token(r) THEN [b EXCEPT !.tokens = @ - Token(r)] ELSE b
           start == IF k \notin DOMAIN buckets THEN now[t] ELSE created[k]
           before == IF k \notin DOMAIN buckets THEN 0 ELSE admitted[k]
           count == IF b.tokens >= Token(r) THEN before + 1 ELSE before
<1>2. /\ r = k[1] /\ SoundRule(rules[r]) /\ now[t] \in Nat /\ b \in Bucket
      /\ rules' = rules
      /\ Token(r) \in Nat /\ b.tokens \in Nat
  BY <1>1, PartsFacts DEF Outcome, Bucket, Typed, Handling
<1>3. Covered(left, start, count, r)
  <2>1. CASE k \notin DOMAIN buckets
    <3> DEFINE fresh == [tokens |-> Full(r), last |-> now[t]]
    <3>1. Found(k, now[t]) = fresh
      BY <1>2, <2>1 DEF Found
    <3>2. ~(now[t] > fresh.last)
      BY <1>2
    <3>3. b = fresh
      BY <1>1, <3>1, <3>2 DEF Outcome, Refilled
    <3>4. b.last = now[t] /\ b.tokens = Full(r) /\ Full(r) \in Nat
      BY <1>2, <3>3, PartsFacts
    <3>5. /\ Covered(b, now[t], 0, r)
          /\ b.tokens >= Token(r) => Covered([b EXCEPT !.tokens = @ - Token(r)], now[t], 1, r)
      BY <1>2, <3>4, NewIsCovered
    <3> QED
      BY <2>1, <3>5
  <2>2. CASE k \in DOMAIN buckets
    <3>1. /\ Found(k, now[t]) = buckets[k] /\ buckets[k] \in Bucket
          /\ created[k] \in Nat /\ admitted[k] \in Nat
      BY <2>2 DEF Found, Typed, Buckets
    <3>2. b = Refilled(buckets[k], r, now[t])
      BY <1>1, <3>1 DEF Outcome
    <3>3. Covered(buckets[k], created[k], admitted[k], r)
      BY <1>2, <2>2, RateBoundMeans
    <3>4. /\ Covered(b, created[k], admitted[k], r)
          /\ b.tokens >= Token(r) =>
               Covered([b EXCEPT !.tokens = @ - Token(r)], created[k], admitted[k] + 1, r)
      BY <1>2, <3>1, <3>2, <3>3, RefillKeepsCovered
    <3> QED
      BY <2>2, <3>4
  <2> QED
    BY <2>1, <2>2
<1>4. buckets' = Put(buckets, k, left)
  BY <1>1, <1>2 DEF Outcome
<1>5. /\ created'[k] = start
      /\ \A j \in DOMAIN buckets : j # k => created'[j] = created[j]
  <2>1. CASE k \in DOMAIN buckets
    BY <1>1, <2>1 DEF Outcome
  <2>2. CASE k \notin DOMAIN buckets
    <3>1. created' = Put(created, k, now[t]) /\ DOMAIN created = DOMAIN buckets
      BY <1>1, <2>2 DEF Outcome, Typed, Buckets
    <3>2. /\ Put(created, k, now[t])[k] = now[t]
          /\ \A j \in DOMAIN created : j # k => Put(created, k, now[t])[j] = created[j]
      BY DEF Put
    <3> QED
      BY <2>2, <3>1, <3>2
  <2> QED
    BY <2>1, <2>2
<1>6. /\ admitted'[k] = count
      /\ \A j \in DOMAIN buckets : j # k => admitted'[j] = admitted[j]
  <2>0. DOMAIN admitted = DOMAIN buckets
    BY DEF Typed, Buckets
  <2>1. CASE b.tokens >= Token(r)
    <3>1. (IF k \notin DOMAIN buckets THEN 1 ELSE admitted[k] + 1) = before + 1
      OBVIOUS
    <3>2. admitted' = Put(admitted, k, before + 1)
      BY <1>1, <1>2, <2>1, <3>1 DEF Outcome
    <3>3. /\ Put(admitted, k, before + 1)[k] = before + 1
          /\ \A j \in DOMAIN admitted : j # k => Put(admitted, k, before + 1)[j] = admitted[j]
      BY DEF Put
    <3>4. count = before + 1
      BY <2>1
    <3> HIDE DEF count, before
    <3> QED
      BY <2>0, <3>2, <3>3, <3>4
  <2>2. CASE b.tokens < Token(r)
    <3>1. admitted' = IF k \notin DOMAIN buckets THEN Put(admitted, k, 0) ELSE admitted
      BY <1>1, <1>2, <2>2 DEF Outcome
    <3>2. count = before
      BY <1>2, <2>2
    <3>3. /\ Put(admitted, k, 0)[k] = 0
          /\ \A j \in DOMAIN admitted : j # k => Put(admitted, k, 0)[j] = admitted[j]
      BY DEF Put
    <3> QED
      BY <2>0, <3>1, <3>2, <3>3
  <2> QED
    BY <1>2, <2>1, <2>2
<1> HIDE DEF left, start, before, count
<1>7. /\ buckets'[k] = left
      /\ DOMAIN buckets' = DOMAIN buckets \cup {k}
      /\ \A j \in DOMAIN buckets : j # k => buckets'[j] = buckets[j]
  <2>1. /\ Put(buckets, k, left)[k] = left
        /\ DOMAIN Put(buckets, k, left) = DOMAIN buckets \cup {k}
        /\ \A j \in DOMAIN buckets : j # k => Put(buckets, k, left)[j] = buckets[j]
    BY DEF Put
  <2> QED
    BY <1>4, <2>1
<1>8. ASSUME NEW j \in DOMAIN buckets'
      PROVE  Covered(buckets'[j], created'[j], admitted'[j], j[1])
  <2>1. CASE j = k
    BY <1>2, <1>3, <1>5, <1>6, <1>7, <2>1
  <2>2. CASE j # k
    <3>1. /\ j \in DOMAIN buckets /\ buckets'[j] = buckets[j]
          /\ created'[j] = created[j] /\ admitted'[j] = admitted[j]
      BY <1>5, <1>6, <1>7, <2>2
    <3>2. Covered(buckets[j], created[j], admitted[j], j[1])
      BY <3>1, RateBoundMeans
    <3> QED
      BY <3>1, <3>2
  <2> QED
    BY <2>1, <2>2
<1> QED
  BY <1>2, <1>8 DEF RateBound, Covered, Token, Full, Limit

\* RateBound, for every configuration, clock and number of threads: since its
\* first request a subject has been let through at most burst + rate * elapsed
\* times, whatever the order in which the threads bring their clock readings
\* to the lock.
THEOREM RateIsBounded == Spec => []RateBound
<1>1. Init => RateBound
  BY DEF Init, RateBound
<1>2. Typed /\ RateBound /\ [Next]_vars => RateBound'
  <2> SUFFICES ASSUME Typed, RateBound, [Next]_vars PROVE RateBound'
    OBVIOUS
  <2>1. CASE ParseLine
    <3>1. DOMAIN buckets = {} /\ UNCHANGED <<buckets, created, admitted>>
      BY <2>1 DEF ParseLine, Typed, Loading
    <3> QED
      BY <3>1 DEF RateBound
  <2>2. CASE EndOfConfig
    BY <2>2 DEF EndOfConfig, RateBound, Token, Full, Limit
  <2>3. CASE Advance
    BY <2>3 DEF Advance, configVars, RateBound, Token, Full, Limit
  <2>4. ASSUME NEW t \in Thread, NEW q \in Request, Begin(t, q) PROVE RateBound'
    BY <2>4 DEF Begin, configVars, RateBound, Token, Full, Limit
  <2>5. ASSUME NEW t \in Thread, Consume(t) PROVE RateBound'
    BY <2>5, ConsumeKeepsRateBound
  <2>6. ASSUME NEW t \in Thread, ReportRemaining(t) PROVE RateBound'
    BY <2>6 DEF ReportRemaining, configVars, RateBound, Token, Full, Limit
  <2>7. CASE UNCHANGED vars
    BY <2>7 DEF vars, RateBound, Token, Full, Limit
  <2> QED
    BY <2>1, <2>2, <2>3, <2>4, <2>5, <2>6, <2>7 DEF Next
<1> QED
  BY <1>1, <1>2, TypeCorrect, PTL DEF Spec

-----------------------------------------------------------------------------
(* Refills and Retry-After.                                                *)

\* check_and_consume never takes a bucket away, and never dates it back.
LEMMA ConsumeMovesForward ==
  ASSUME Typed, NEW t \in Thread, Consume(t), NEW j \in DOMAIN buckets
  PROVE  j \in DOMAIN buckets' /\ buckets'[j].last >= buckets[j].last
<1>1. PICK k, r, b : Outcome(t, k, r, b)
  BY ConsumeOutcome
<1>2. PICK v \in Bucket : buckets' = Put(buckets, k, v) /\ v.last = b.last
  <2>1. Token(r) \in Nat /\ b \in Bucket /\ b.tokens \in Nat
    BY <1>1, PartsFacts DEF Outcome, Bucket
  <2>2. CASE b.tokens >= Token(r)
    <3>1. /\ [b EXCEPT !.tokens = @ - Token(r)] \in Bucket
          /\ [b EXCEPT !.tokens = @ - Token(r)].last = b.last
      BY <2>1, <2>2 DEF Bucket
    <3>2. buckets' = Put(buckets, k, [b EXCEPT !.tokens = @ - Token(r)])
      BY <1>1, <2>1, <2>2 DEF Outcome
    <3> QED
      BY <3>1, <3>2
  <2>3. CASE b.tokens < Token(r)
    BY <1>1, <2>1, <2>3 DEF Outcome
  <2> QED
    BY <2>1, <2>2, <2>3
<1>3. /\ Put(buckets, k, v)[k] = v
      /\ DOMAIN Put(buckets, k, v) = DOMAIN buckets \cup {k}
      /\ \A i \in DOMAIN buckets : i # k => Put(buckets, k, v)[i] = buckets[i]
  BY DEF Put
<1>4. buckets[j] \in Bucket /\ buckets[j].last \in Nat
  BY DEF Typed, Buckets, Bucket
<1>5. CASE j = k
  <2>1. Found(k, now[t]) = buckets[j]
    BY <1>5 DEF Found
  <2>2. b.last >= buckets[j].last
    BY <1>1, <1>4, <2>1, RefilledFacts DEF Outcome, Typed, Handling
  <2> QED
    BY <1>2, <1>3, <1>5, <2>2
<1>6. CASE j # k
  BY <1>2, <1>3, <1>4, <1>6
<1> QED
  BY <1>5, <1>6

\* RefillsMoveForward: a reading of the clock that is older than the last
\* refill never sets its date back, so that no interval is refilled twice.
THEOREM RefillsMoveOn == Spec => RefillsMoveForward
<1> DEFINE Forward == \A k \in DOMAIN buckets : k \in DOMAIN buckets' /\ buckets'[k].last >= buckets[k].last
<1>1. Typed /\ [Next]_vars => [Forward]_vars
  <2> SUFFICES ASSUME Typed, [Next]_vars PROVE Forward
    OBVIOUS
  <2>1. CASE \E t \in Thread : Consume(t)
    BY <2>1, ConsumeMovesForward
  <2>2. CASE UNCHANGED buckets
    BY <2>2 DEF Typed, Buckets, Bucket
  <2> QED
    BY <2>1, <2>2 DEF Next, vars, ParseLine, EndOfConfig, Advance, Begin, ReportRemaining
<1> QED
  BY <1>1, TypeCorrect, PTL DEF Spec, RefillsMoveForward

\* The arithmetic of Retry-After: rounding up with 0.999 and the clamp to the
\* window leave less than a millisecond of refill missing.
LEMMA RetryAfterSuffices ==
  ASSUME NEW r, SoundRule(rules[r]), NEW b \in Bucket, b.tokens < Token(r)
  PROVE  (b.tokens + RetryAfter(b, r) * TicksPerSecond * Limit(r)) * 1000
            + TicksPerSecond * Limit(r) >= Token(r) * 1000
<1> DEFINE p == Limit(r) * TicksPerSecond
           a == (Token(r) - b.tokens) * 1000 + 999 * p
           q == 1000 * p
           w == rules[r].window
           retry == RetryAfter(b, r)
           tokens == b.tokens
           token == Token(r)
<1>1. /\ Limit(r) \in Nat \ {0} /\ TicksPerSecond \in Nat \ {0} /\ p \in Nat \ {0}
      /\ token \in Nat /\ tokens \in Nat /\ w \in Nat
      /\ TicksPerSecond * Limit(r) = p
  BY PartsFacts, TimeIsDiscrete, ProductFacts, WindowFitsInt DEF Bucket, SoundRule
<1>2. retry \in Nat
  BY RetryAfterIsNat
<1>3. retry * TicksPerSecond * Limit(r) = retry * p
  BY <1>1, <1>2
<1>4. retry = IF a \div q < 1 THEN 1 ELSE IF a \div q > w THEN w ELSE a \div q
  BY DEF RetryAfter
<1>5. token = w * TicksPerSecond
  BY DEF Token
<1>6. tokens < token
  OBVIOUS
<1> HIDE DEF retry, w, token, tokens
<1>7. a \in Nat /\ q \in Nat \ {0}
  <2> HIDE DEF p
  <2> QED
    BY <1>1, <1>6 DEF token, tokens
<1>8. a = (token - tokens) * 1000 + 999 * p
  BY DEF token, tokens
<1>9. q = 1000 * p /\ p = Limit(r) * TicksPerSecond
  OBVIOUS
<1> HIDE DEF a, p, q
<1> DEFINE d == a \div q
<1>10. d \in Nat /\ a < q * d + q
  BY <1>7, DivisionFacts
<1>11. retry = IF d < 1 THEN 1 ELSE IF d > w THEN w ELSE d
  BY <1>4
<1> HIDE DEF d
<1>12. CASE retry = w
  <2>1. w * p = token * Limit(r)
    BY <1>1, <1>5, <1>9
  <2>2. token <= token * Limit(r)
    BY <1>1, ProductFacts
  <2>3. w * p \in Nat /\ token * Limit(r) \in Nat
    BY <1>1, ProductFacts
  <2>4. (tokens + w * p) * 1000 + p >= token * 1000
    BY <1>1, <2>1, <2>2, <2>3
  <2> QED
    BY <1>1, <1>3, <1>12, <2>4 DEF token, tokens, retry
<1>13. CASE retry >= d
  <2>1. q * d = 1000 * (d * p)
    BY <1>1, <1>9, <1>10
  <2>2. d * p <= retry * p /\ d * p \in Nat /\ retry * p \in Nat
    BY <1>1, <1>2, <1>10, <1>13
  <2>3. (token - tokens) * 1000 + 999 * p < 1000 * (d * p) + 1000 * p
    BY <1>1, <1>8, <1>9, <1>10, <2>1
  <2>4. (tokens + retry * p) * 1000 + p >= token * 1000
    BY <1>1, <2>2, <2>3
  <2> QED
    BY <1>1, <1>3, <2>4 DEF token, tokens, retry
<1>14. retry = w \/ retry >= d
  BY <1>1, <1>10, <1>11
<1> QED
  BY <1>12, <1>13, <1>14

\* RetryAlmostSuffices: whoever waits for the Retry-After of its refusal and a
\* millisecond, alone on its bucket, finds a token.
THEOREM RetryAfterIsHonest == Spec => RetryAlmostSuffices
<1> DEFINE Honest ==
      \A t \in Thread : RefusedNow(t) =>
        LET r == key[t][1]
        IN AfterWaiting(t) * 1000 + TicksPerSecond * Limit(r) >= Token(r) * 1000
<1>1. Typed /\ [Next]_vars => Honest
  <2> SUFFICES ASSUME Typed, [Next]_vars, NEW t \in Thread, RefusedNow(t)
               PROVE  AfterWaiting(t) * 1000 + TicksPerSecond * Limit(key[t][1])
                        >= Token(key[t][1]) * 1000
    OBVIOUS
  <2>1. pc[t] = "lock" /\ pc'[t] = "idle" /\ pc \in [Thread -> {"idle", "lock", "relock"}]
    BY DEF RefusedNow, Typed, Handling
  <2>2. Consume(t)
    <3>1. ~ParseLine /\ ~EndOfConfig /\ ~Advance /\ ~UNCHANGED vars
      BY <2>1 DEF ParseLine, EndOfConfig, Advance, vars
    <3>2. ASSUME NEW u \in Thread, NEW q \in Request, Begin(u, q) PROVE FALSE
      BY <2>1, <3>2 DEF Begin
    <3>3. ASSUME NEW u \in Thread, ReportRemaining(u) PROVE FALSE
      BY <2>1, <3>3 DEF ReportRemaining
    <3>4. ASSUME NEW u \in Thread, Consume(u) PROVE u = t
      BY <2>1, <3>4 DEF Consume
    <3> QED
      BY <3>1, <3>2, <3>3, <3>4 DEF Next
  <2>3. PICK k, r, b : Outcome(t, k, r, b)
    BY <2>2, ConsumeOutcome
  <2>4. /\ b.tokens < Token(r) /\ buckets' = Put(buckets, k, b)
        /\ reply' = [reply EXCEPT ![t] = [verdict |-> "limited", rule |-> r,
                         remaining |-> 0, retry |-> RetryAfter(b, r)]]
        /\ k = key[t] /\ r = k[1] /\ b \in Bucket /\ SoundRule(rules[r])
    BY <2>1, <2>3 DEF Outcome
  <2>5. Put(buckets, k, b)[k] = b
    BY DEF Put
  <2>6. reply'[t].retry = RetryAfter(b, r)
    BY <2>4 DEF Typed, Handling
  <2>7. AfterWaiting(t) = b.tokens + RetryAfter(b, r) * TicksPerSecond * Limit(r)
    BY <2>4, <2>5, <2>6 DEF AfterWaiting
  <2> QED
    BY <2>4, <2>7, RetryAfterSuffices
<1>2. Typed /\ [Next]_vars => [Honest]_vars
  BY <1>1
<1> QED
  BY <1>2, TypeCorrect, PTL DEF Spec, RetryAlmostSuffices
-----------------------------------------------------------------------------
(* What a configuration means.                                             *)

\* Every line of a file is read the way it was meant, by itself: a rule that is
\* right becomes the rule it says, one that is wrong becomes none, and what is no
\* rule is skipped.  Of a number beyond int nothing is said.
LinesAreRead ==
    \A c \in Configs : \A i \in DOMAIN c :
        /\ c[i].means \in {"nothing", "wrong", "overflow", "rule"}
        /\ IsRuleLine(c[i]) <=> c[i].means # "nothing"
        /\ c[i].means = "wrong" => \A rule \in RulesOf(c[i].fields) : ~rule.valid
        /\ c[i].means = "rule" => \A rule \in RulesOf(c[i].fields) : rule.valid /\ Says(c[i], rule)

\* The meant lines before a line, which are those the constructor has read there.
Before(n) == {j \in Meant : j < n}

\* The rule a line became is what the line means.
Agrees(i, rule) ==
    /\ config[i].means # "wrong"
    /\ rule.limit > 0 /\ rule.burst >= rule.limit /\ rule.window \in 1..WindowMax
    /\ config[i].means = "rule" => Says(config[i], rule)

\* The loop invariant of the constructor: every meant line behind it has become
\* its rule, at its place, or was a reason to stop.
ReadSoFar ==
    /\ phase # "refused" => Len(rules) = Cardinality(Before(line))
    /\ phase = "serving" => line = Len(config) + 1
    /\ Len(rules) <= Cardinality(Meant)
    /\ phase = "refused" => \/ Meant = {}
                            \/ \E i \in Meant : config[i].means \in {"wrong", "overflow"}
    /\ \A i \in Meant : Rank(i) \in DOMAIN rules => Agrees(i, rules[Rank(i)])

\* The meant lines are finitely many, and are counted in their order.
LEMMA RankFacts ==
  ASSUME Typed
  PROVE  /\ Meant \subseteq 1..Len(config) /\ Len(config) \in Nat /\ Cardinality(Meant) \in Nat
         /\ Before(1) = {} /\ Cardinality({}) = 0
         /\ Before(Len(config) + 1) = Meant
         /\ \A n \in 1..Len(config) + 1 :
              Cardinality(Before(n)) \in Nat /\ Cardinality(Before(n)) <= Cardinality(Meant)
         /\ \A i \in Meant : Rank(i) = Cardinality(Before(i)) + 1 /\ Rank(i) <= Cardinality(Meant)
         /\ \A i \in DOMAIN config : Before(i + 1) = IF i \in Meant THEN Before(i) \cup {i} ELSE Before(i)
         /\ \A i \in Meant : Cardinality(Before(i + 1)) = Rank(i)
         /\ \A i, j \in Meant : i < j => Rank(i) < Rank(j)
<1>1. config \in Seq({config[i] : i \in DOMAIN config})
  BY ConfigsAreText DEF Typed, Loading
<1>2. Len(config) \in Nat /\ DOMAIN config = 1..Len(config)
  BY <1>1
<1>3. Meant \subseteq 1..Len(config)
  BY <1>2 DEF Meant
<1>4. IsFiniteSet(Meant)
  <2>1. IsFiniteSet(1..Len(config))
    BY <1>2, FS_Interval
  <2> QED
    BY <1>3, <2>1, FS_Subset
<1>5. Cardinality(Meant) \in Nat
  BY <1>4, FS_CardinalityType
<1>6. ASSUME NEW S, S \subseteq Meant
      PROVE  IsFiniteSet(S) /\ Cardinality(S) \in Nat /\ Cardinality(S) <= Cardinality(Meant)
  BY <1>4, <1>6, FS_Subset, FS_CardinalityType
<1>7. \A n : Before(n) \subseteq Meant
  BY DEF Before
<1>8. Before(1) = {} /\ Before(Len(config) + 1) = Meant
  <2>1. \A j \in Meant : ~(j < 1) /\ j < Len(config) + 1
    BY <1>2, <1>3
  <2> QED
    BY <2>1, Zenon DEF Before
<1>9. \A i \in DOMAIN config : Before(i + 1) = IF i \in Meant THEN Before(i) \cup {i} ELSE Before(i)
  <2>1. ASSUME NEW i \in DOMAIN config
        PROVE  \A j \in Meant : j < i + 1 <=> j < i \/ j = i
    BY <1>2, <1>3
  <2> QED
    BY <2>1 DEF Before
<1>10. ASSUME NEW i \in Meant
       PROVE  /\ Rank(i) = Cardinality(Before(i)) + 1 /\ Rank(i) <= Cardinality(Meant)
              /\ Cardinality(Before(i + 1)) = Rank(i)
  <2>1. {j \in Meant : j <= i} = Before(i) \cup {i}
    <3>1. \A j \in Meant : j <= i <=> j < i \/ j = i
      BY <1>3
    <3> QED
      BY <3>1 DEF Before
  <2>2. i \notin Before(i)
    BY <1>3 DEF Before
  <2>3. IsFiniteSet(Before(i)) /\ Before(i + 1) = Before(i) \cup {i}
    BY <1>2, <1>3, <1>6, <1>7, <1>9
  <2>4. Cardinality(Before(i) \cup {i}) = Cardinality(Before(i)) + 1
    BY <2>2, <2>3, FS_AddElement
  <2>5. Cardinality({j \in Meant : j <= i}) <= Cardinality(Meant)
    BY <1>6
  <2> QED
    BY <2>1, <2>3, <2>4, <2>5 DEF Rank
<1>11. ASSUME NEW i \in Meant, NEW j \in Meant, i < j PROVE Rank(i) < Rank(j)
  <2>1. Before(i + 1) \subseteq Before(j)
    <3>1. \A h \in Meant : h < i + 1 => h < j
      BY <1>3, <1>11
    <3> QED
      BY <3>1, Zenon DEF Before
  <2>2. IsFiniteSet(Before(j)) /\ Cardinality(Before(j)) \in Nat /\ Cardinality(Before(i + 1)) \in Nat
    BY <1>6, <1>7
  <2>3. Cardinality(Before(i + 1)) <= Cardinality(Before(j))
    BY <2>1, <2>2, FS_Subset
  <2>4. Rank(i) = Cardinality(Before(i + 1)) /\ Rank(j) = Cardinality(Before(j)) + 1
    BY <1>10
  <2> QED
    BY <2>2, <2>3, <2>4
<1>12. Cardinality({}) = 0
  BY FS_EmptySet
<1> QED
  BY <1>2, <1>3, <1>5, <1>6, <1>7, <1>8, <1>9, <1>10, <1>11, <1>12

\* Nothing is read at first.
LEMMA InitRead == Init => ReadSoFar
<1> SUFFICES ASSUME Init PROVE ReadSoFar
  OBVIOUS
<1>1. Typed
  BY InitTyped
<1>2. phase = "parsing" /\ line = 1 /\ Len(rules) = 0 /\ DOMAIN rules = {}
  BY DEF Init
<1>3. Cardinality(Before(1)) = 0 /\ Cardinality(Meant) \in Nat
  BY <1>1, RankFacts
<1> QED
  BY <1>2, <1>3 DEF ReadSoFar

\* A line is read.
LEMMA ParseLineRead ==
  ASSUME LinesAreRead, Typed, ReadSoFar, ParseLine
  PROVE  ReadSoFar'
<1>1. /\ line \in DOMAIN config /\ line \in 1..Len(config) /\ config \in Configs
      /\ config[line].fields \in Seq(Seq(STRING))
  <2>1. config \in Configs /\ config \in Seq({config[i] : i \in DOMAIN config})
    BY ConfigsAreText DEF Typed, Loading
  <2>2. line \in DOMAIN config /\ line \in 1..Len(config)
    BY <2>1 DEF Typed, Loading, ParseLine
  <2> QED
    BY <2>1, <2>2, ConfigsAreText
<1>2. /\ config[line].means \in {"nothing", "wrong", "overflow", "rule"}
      /\ IsRuleLine(config[line]) <=> line \in Meant
      /\ config[line].means = "wrong" => \A rule \in RulesOf(config[line].fields) : ~rule.valid
      /\ config[line].means = "rule" =>
            \A rule \in RulesOf(config[line].fields) : rule.valid /\ Says(config[line], rule)
  BY <1>1 DEF LinesAreRead, Meant
<1>3. phase = "parsing" /\ line' = line + 1 /\ config' = config /\ phase' # "serving"
  BY DEF ParseLine
<1>4. /\ Meant' = Meant /\ Cardinality(Meant)' = Cardinality(Meant)
      /\ \A i : Rank(i)' = Rank(i)
      /\ Cardinality(Before(line))' = Cardinality(Before(line + 1))
      /\ \A i, r : Agrees(i, r)' <=> Agrees(i, r)
  BY <1>3 DEF Meant, Rank, Before, Agrees
<1>5. /\ Len(rules) = Cardinality(Before(line)) /\ Len(rules) <= Cardinality(Meant)
      /\ \A i \in Meant : Rank(i) \in DOMAIN rules => Agrees(i, rules[Rank(i)])
  BY <1>3 DEF ReadSoFar
<1>6. CASE ~IsRuleLine(config[line])
  <2>1. UNCHANGED <<phase, rules>>
    BY <1>6 DEF ParseLine
  <2>2. Before(line + 1) = Before(line)
    BY <1>1, <1>2, <1>6, RankFacts
  <2>3. Cardinality(Before(line))' = Cardinality(Before(line))
    BY <1>4, <2>2
  <2> QED
    BY <1>3, <1>4, <1>5, <2>1, <2>3 DEF ReadSoFar
<1>7. ASSUME NEW rule \in RulesOf(config[line].fields), IsRuleLine(config[line]), ~rule.valid,
             phase' = "refused", UNCHANGED rules
      PROVE  ReadSoFar'
  <2>1. line \in Meant /\ config[line].means \in {"wrong", "overflow"}
    BY <1>2, <1>7 DEF Meant
  <2>2. \E i \in Meant' : config'[i].means \in {"wrong", "overflow"}
    BY <1>3, <1>4, <2>1
  <2> QED
    BY <1>3, <1>4, <1>5, <1>7, <2>2 DEF ReadSoFar
<1>8. ASSUME NEW rule \in RulesOf(config[line].fields), IsRuleLine(config[line]), rule.valid,
             rules' = Append(rules, rule), UNCHANGED phase
      PROVE  ReadSoFar'
  <2>1. line \in Meant /\ Agrees(line, rule)
    <3>1. SoundRule(rule)
      BY <1>1, <1>8, RulesAreSound
    <3>2. rule.limit > 0 /\ rule.burst >= rule.limit /\ rule.window \in 1..WindowMax
      BY <3>1 DEF SoundRule
    <3> QED
      BY <1>2, <1>8, <3>2 DEF Agrees
  <2>2. rules \in Seq(AnyRule)
    BY DEF Typed, Loading
  <2>3. /\ Len(rules) \in Nat /\ DOMAIN rules = 1..Len(rules)
        /\ Len(rules') = Len(rules) + 1 /\ DOMAIN rules' = 1..Len(rules) + 1
        /\ rules'[Len(rules) + 1] = rule
        /\ \A i \in 1..Len(rules) : rules'[i] = rules[i]
    <3>1. rule \in AnyRule
      BY <1>1 DEF AnyRule
    <3> QED
      BY <1>8, <2>2, <3>1
  <2>4. /\ Rank(line) = Len(rules) + 1 /\ Cardinality(Before(line + 1)) = Len(rules) + 1
        /\ Rank(line) <= Cardinality(Meant)
    BY <1>5, <2>1, RankFacts
  <2>5. ASSUME NEW i \in Meant, Rank(i) \in DOMAIN rules' PROVE Agrees(i, rules'[Rank(i)])
    <3>1. CASE Rank(i) \in 1..Len(rules)
      BY <1>5, <2>3, <3>1
    <3>2. CASE Rank(i) = Len(rules) + 1
      <4>1. i = line
        <5>1. ~(i < line) /\ ~(line < i)
          BY <2>1, <2>3, <2>4, <3>2, RankFacts
        <5>2. i \in Nat /\ line \in Nat
          BY <1>1, RankFacts
        <5> QED
          BY <5>1, <5>2
      <4> QED
        BY <2>1, <2>3, <3>2, <4>1
    <3> QED
      BY <2>3, <2>5, <3>1, <3>2
  <2> QED
    BY <1>3, <1>4, <1>8, <2>3, <2>4, <2>5 DEF ReadSoFar
<1> QED
  BY <1>6, <1>7, <1>8 DEF ParseLine

\* The end of the file: no rule means that none was meant.
LEMMA EndOfConfigRead ==
  ASSUME Typed, ReadSoFar, EndOfConfig
  PROVE  ReadSoFar'
<1>1. phase = "parsing" /\ line = Len(config) + 1 /\ UNCHANGED <<config, rules, line>>
  BY RankFacts DEF EndOfConfig, Typed, Loading
<1>2. phase' = IF rules = <<>> THEN "refused" ELSE "serving"
  BY DEF EndOfConfig
<1>3. Before(line) = Meant /\ Len(rules) = Cardinality(Meant)
  BY <1>1, RankFacts DEF ReadSoFar
<1>4. rules = <<>> => Meant = {}
  <2>1. IsFiniteSet(Meant)
    <3>1. IsFiniteSet(1..Len(config))
      BY RankFacts, FS_Interval
    <3> QED
      BY <3>1, RankFacts, FS_Subset
  <2> QED
    BY <1>3, <2>1, FS_EmptySet
<1>5. /\ Meant' = Meant /\ Cardinality(Meant)' = Cardinality(Meant)
      /\ \A i : Rank(i)' = Rank(i)
      /\ Cardinality(Before(line))' = Cardinality(Before(line))
      /\ \A i, r : Agrees(i, r)' <=> Agrees(i, r)
  BY <1>1 DEF Meant, Rank, Before, Agrees
<1> QED
  BY <1>1, <1>2, <1>3, <1>4, <1>5 DEF ReadSoFar

\* Once it serves nothing is read, and the other steps leave it alone.
LEMMA NextRead == LinesAreRead /\ Typed /\ ReadSoFar /\ [Next]_vars => ReadSoFar'
<1> SUFFICES ASSUME LinesAreRead, Typed, ReadSoFar, [Next]_vars PROVE ReadSoFar'
  OBVIOUS
<1>1. CASE ParseLine
  BY <1>1, ParseLineRead
<1>2. CASE EndOfConfig
  BY <1>2, EndOfConfigRead
<1>3. CASE UNCHANGED configVars
  <2>1. UNCHANGED <<config, line, phase, rules>>
    BY <1>3 DEF configVars
  <2> QED
    BY <2>1 DEF ReadSoFar, Meant, Rank, Before, Agrees
<1> QED
  BY <1>1, <1>2, <1>3 DEF Next, vars, configVars, Advance, Begin, Consume, ReportRemaining

\* ConfigMeansWhatItSays: whatever the file, the rules in force are its meant
\* lines in their order, none dropped and none of them wrong, if each line by
\* itself is read as it is meant; a number that overflowed is still a sound rule.
THEOREM ConfigurationIsMeant ==
  ASSUME LinesAreRead PROVE Spec => ConfigMeansWhatItSays
<1> DEFINE Done == phase' # phase => AsMeant'
<1>1. Init => ReadSoFar
  BY InitRead
<1>2. Typed /\ ReadSoFar /\ [Next]_vars => ReadSoFar'
  BY NextRead
<1>3. Typed /\ ReadSoFar => AsMeant
  <2> SUFFICES ASSUME Typed, ReadSoFar PROVE AsMeant
    OBVIOUS
  <2>1. phase = "serving" => Len(rules) = Cardinality(Meant)
    BY RankFacts DEF ReadSoFar
  <2> QED
    BY <2>1 DEF ReadSoFar, AsMeant, Agrees
<1>4. AsMeant' => [Done]_vars
  OBVIOUS
<1> QED
  BY <1>1, <1>2, <1>3, <1>4, TypeCorrect, PTL DEF Spec, ConfigMeansWhatItSays
=============================================================================
