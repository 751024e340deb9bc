-------------------------- MODULE PolicyChainProofs --------------------------
(***************************************************************************)
(* Proofs about PolicyChain, for every order of the modules, every         *)
(* configuration and every request.                                        *)
(***************************************************************************)
EXTENDS PolicyChain, SequenceTheorems, FiniteSetTheorems, WellFoundedInduction, TLAPS

-----------------------------------------------------------------------------
(* Numbers and sequences.                                                  *)

\* A set with 0 and with every successor of its numbers has all of them.
LEMMA NatSetInduction ==
  ASSUME NEW S, 0 \in S, \A n \in Nat : n \in S => n + 1 \in S
  PROVE  Nat \subseteq S
<1> DEFINE R == OpToRel(<, Nat)
           T == Nat \ S
<1>1. IsWellFoundedOn(R, Nat)
  BY NatLessThanWellFounded
<1>2. SUFFICES ASSUME T # {} PROVE FALSE
  OBVIOUS
<1>3. T \subseteq Nat
  OBVIOUS
<1> HIDE DEF R, T
<1>4. PICK x \in T : \A y \in T : ~(<<y, x>> \in R)
  BY <1>1, <1>2, <1>3, WFMin
<1> USE DEF T
<1>5. x # 0 /\ x - 1 \in Nat /\ x - 1 < x
  BY <1>4
<1>6. <<x - 1, x>> \in R
  BY <1>5 DEF R, OpToRel
<1>7. x - 1 \in S
  BY <1>4, <1>5, <1>6
<1>8. (x - 1) + 1 \in S
  BY <1>5, <1>7
<1> QED
  BY <1>4, <1>8

\* Induction from the last place to the first.
LEMMA DownInduction ==
  ASSUME NEW n \in Nat, NEW S, \A p \in 1..n : (\A q \in p + 1..n : q \in S) => p \in S
  PROVE  1..n \subseteq S
<1> DEFINE K == {k \in Nat : k <= n => \A q \in n - k + 1..n : q \in S}
<1>1. 0 \in K
  OBVIOUS
<1>2. ASSUME NEW k \in Nat, k \in K PROVE k + 1 \in K
  <2>1. SUFFICES ASSUME k + 1 <= n, NEW q \in n - (k + 1) + 1..n PROVE q \in S
    OBVIOUS
  <2>2. \A x \in n - k + 1..n : x \in S
    BY <1>2, <2>1
  <2>3. CASE q \in n - k + 1..n
    BY <2>2, <2>3
  <2>4. CASE q \notin n - k + 1..n
    <3>1. q = n - k /\ q \in 1..n
      BY <2>1, <2>4
    <3> QED
      BY <2>2, <3>1
  <2> QED
    BY <2>3, <2>4
<1> HIDE DEF K
<1>3. n \in K
  BY <1>1, <1>2, NatSetInduction
<1>4. n - n + 1 = 1
  OBVIOUS
<1> QED
  BY <1>3, <1>4 DEF K

\* The first of some positions is one of them, and none is before it.
LEMMA MinIsLeast ==
  ASSUME NEW S, S \subseteq Nat, S # {}
  PROVE  Min(S) \in S /\ \A n \in S : Min(S) <= n
<1> DEFINE R == OpToRel(<, Nat)
<1>1. IsWellFoundedOn(R, Nat)
  BY NatLessThanWellFounded
<1> HIDE DEF R
<1>2. PICK x \in S : \A y \in S : ~(<<y, x>> \in R)
  BY <1>1, WFMin
<1>3. ASSUME NEW n \in S PROVE x <= n
  <2>1. ~(<<n, x>> \in R) /\ n \in Nat /\ x \in Nat
    BY <1>2
  <2>2. ~(n < x)
    BY <2>1 DEF R, OpToRel
  <2> QED
    BY <2>1, <2>2
<1> QED
  BY <1>2, <1>3 DEF Min

\* The first of some positions in a sequence; 0 says that there is none.
LEMMA FirstOfFacts ==
  ASSUME NEW S, S \subseteq Nat \ {0}
  PROVE  /\ FirstOf(S) = 0 <=> S = {}
         /\ S # {} => FirstOf(S) \in S /\ \A n \in S : FirstOf(S) <= n
<1>1. S # {} => Min(S) \in S /\ \A n \in S : Min(S) <= n
  BY MinIsLeast
<1> QED
  BY <1>1 DEF FirstOf

\* A text has a length, and its words at the places up to it.
LEMMA TextFacts ==
  ASSUME NEW s, Text(s)
  PROVE  /\ Len(s) \in Nat /\ DOMAIN s = 1..Len(s)
         /\ s = [i \in 1..Len(s) |-> s[i]]
         /\ Len(s) = 0 <=> s = <<>>
<1>1. s \in Seq(Range(s))
  BY DEF Text
<1> QED
  BY <1>1

\* What has the words of a text is one.
LEMMA TextMade ==
  ASSUME NEW n \in Nat, NEW s, DOMAIN s = 1..n, s = [i \in 1..n |-> s[i]]
  PROVE  Text(s) /\ Len(s) = n
<1>1. \A i \in 1..n : s[i] \in Range(s)
  BY DEF Range
<1>2. s \in [1..n -> Range(s)]
  BY <1>1
<1>3. s \in Seq(Range(s))
  BY <1>2
<1> QED
  BY <1>3 DEF Text

\* A sequence is a text.
LEMMA SeqIsText ==
  ASSUME NEW S, NEW s \in Seq(S)
  PROVE  Text(s)
<1>1. Len(s) \in Nat /\ DOMAIN s = 1..Len(s) /\ s = [i \in 1..Len(s) |-> s[i]]
  OBVIOUS
<1> QED
  BY <1>1, TextMade

\* Two texts one after the other.
LEMMA TextConcat ==
  ASSUME NEW a, NEW b, Text(a), Text(b)
  PROVE  /\ Text(a \o b) /\ Len(a \o b) = Len(a) + Len(b)
         /\ DOMAIN (a \o b) = 1..(Len(a) + Len(b))
         /\ \A i \in 1..Len(a) : (a \o b)[i] = a[i]
         /\ \A i \in 1..Len(b) : (a \o b)[Len(a) + i] = b[i]
<1> DEFINE S == Range(a) \cup Range(b)
<1>1. a \in Seq(Range(a)) /\ b \in Seq(Range(b))
  BY DEF Text
<1>2. a \in Seq(S) /\ b \in Seq(S)
  BY <1>1
<1> HIDE DEF S
<1>3. a \o b \in Seq(S)
  BY <1>2
<1>4. /\ Len(a \o b) = Len(a) + Len(b)
      /\ \A i \in 1..Len(a) : (a \o b)[i] = a[i]
      /\ \A i \in 1..Len(b) : (a \o b)[Len(a) + i] = b[i]
  BY <1>2
<1>5. Text(a \o b)
  BY <1>3, SeqIsText
<1> QED
  BY <1>4, <1>5, TextFacts

-----------------------------------------------------------------------------
(* The start: what the modules made of their lines.                        *)

Parsed(c, m) == [i \in DOMAIN c.lines[m] |-> Rule(m, c.lines[m][i])]

AllValid(c, m) ==
    /\ \A i \in DOMAIN c.lines[m] : Rule(m, c.lines[m][i]).valid
    /\ m = "jwt_auth" => JwtSettingsValid(c.jwt)

Loaded(n) ==
    \A i \in 1..n : rules[Order[i]] = Parsed(config, Order[i]) /\ AllValid(config, Order[i])

\* The results a module may have for a request.
Results(c, m, r) ==
    CASE m = "host_guard" -> {HostGuardHandle(Parsed(c, m), r)}
      [] m = "router" -> {RouterHandle(Parsed(c, m), r)}
      [] m = "route_table" -> {RouteTableHandle(Parsed(c, m), r)}
      [] m = "cors" -> {CorsHandle(Parsed(c, m), r)}
      [] m = "header_guard" -> {HeaderGuardHandle(Parsed(c, m), r)}
      [] m = "jwt_auth" -> JwtHandle(Parsed(c, m), c.jwt, r)

\* The headers that only one of the modules sets.
HeadersOf(m) ==
    CASE m = "cors" -> {"Access-Control-Allow-Origin", "Vary"}
      [] m = "jwt_auth" -> {"X-Garcon-User-Id", "X-Garcon-Roles",
                            "X-Garcon-Claim-iss", "X-Garcon-Claim-aud"}
      [] OTHER -> {}

\* hs has none of some headers.
Free(hs, names) == \A i \in DOMAIN hs : hs[i][1] \notin names

\* Of some headers, all has what part has, in one piece.
Holds(all, part, names) ==
    \E d \in Nat :
        /\ \A i \in DOMAIN part : d + i \in DOMAIN all /\ all[d + i] = part[i]
        /\ \A k \in DOMAIN all : all[k][1] \in names => k - d \in DOMAIN part

\* Headers of others before or behind it change nothing.
LEMMA HoldsAround ==
  ASSUME NEW names, NEW all, NEW part, NEW more, Text(all), Text(part), Text(more),
         Holds(all, part, names), Free(more, names)
  PROVE  Holds(all \o more, part, names) /\ Holds(more \o all, part, names)
<1>1. PICK d \in Nat :
        /\ \A i \in DOMAIN part : d + i \in DOMAIN all /\ all[d + i] = part[i]
        /\ \A k \in DOMAIN all : all[k][1] \in names => k - d \in DOMAIN part
  BY DEF Holds
<1>2. /\ Len(all) \in Nat /\ DOMAIN all = 1..Len(all)
      /\ Len(more) \in Nat /\ DOMAIN more = 1..Len(more)
      /\ Len(part) \in Nat /\ DOMAIN part = 1..Len(part)
  BY TextFacts
<1>3. /\ DOMAIN (all \o more) = 1..(Len(all) + Len(more))
      /\ \A i \in 1..Len(all) : (all \o more)[i] = all[i]
      /\ \A i \in 1..Len(more) : (all \o more)[Len(all) + i] = more[i]
  BY TextConcat
<1>4. /\ DOMAIN (more \o all) = 1..(Len(more) + Len(all))
      /\ \A i \in 1..Len(more) : (more \o all)[i] = more[i]
      /\ \A i \in 1..Len(all) : (more \o all)[Len(more) + i] = all[i]
  BY TextConcat
<1>5. Holds(all \o more, part, names)
  <2>1. ASSUME NEW i \in DOMAIN part
        PROVE  d + i \in DOMAIN (all \o more) /\ (all \o more)[d + i] = part[i]
    BY <1>1, <1>2, <1>3
  <2>2. ASSUME NEW k \in DOMAIN (all \o more), (all \o more)[k][1] \in names
        PROVE  k - d \in DOMAIN part
    <3>1. CASE k \in 1..Len(all)
      BY <1>1, <1>2, <1>3, <2>2, <3>1
    <3>2. CASE k \notin 1..Len(all)
      <4>1. k - Len(all) \in 1..Len(more) /\ k = Len(all) + (k - Len(all))
        BY <1>2, <1>3, <3>2
      <4>2. (all \o more)[k] = more[k - Len(all)]
        BY <1>3, <4>1
      <4> QED
        BY <1>2, <2>2, <4>1, <4>2 DEF Free
    <3> QED
      BY <3>1, <3>2
  <2> QED
    BY <2>1, <2>2 DEF Holds
<1>6. Holds(more \o all, part, names)
  <2> DEFINE e == Len(more) + d
  <2>0. e \in Nat
    BY <1>2
  <2>1. ASSUME NEW i \in DOMAIN part
        PROVE  e + i \in DOMAIN (more \o all) /\ (more \o all)[e + i] = part[i]
    <3>1. d + i \in 1..Len(all) /\ all[d + i] = part[i]
      BY <1>1, <1>2
    <3>2. e + i = Len(more) + (d + i)
      BY <1>2
    <3> QED
      BY <1>2, <1>4, <3>1, <3>2
  <2>2. ASSUME NEW k \in DOMAIN (more \o all), (more \o all)[k][1] \in names
        PROVE  k - e \in DOMAIN part
    <3>1. CASE k \in 1..Len(more)
      BY <1>2, <1>4, <2>2, <3>1 DEF Free
    <3>2. CASE k \notin 1..Len(more)
      <4>1. k - Len(more) \in 1..Len(all) /\ k = Len(more) + (k - Len(more))
        BY <1>2, <1>4, <3>2
      <4>2. (more \o all)[k] = all[k - Len(more)]
        BY <1>4, <4>1
      <4>3. (k - Len(more)) - d \in DOMAIN part
        BY <1>1, <1>2, <2>2, <4>1, <4>2
      <4>4. (k - Len(more)) - d = k - e
        BY <1>2, <4>1
      <4> QED
        BY <4>3, <4>4
    <3> QED
      BY <3>1, <3>2
  <2> HIDE DEF e
  <2> QED
    BY <2>0, <2>1, <2>2 DEF Holds
<1> QED
  BY <1>5, <1>6

\* A header is new where there was none of its name.
LEMMA HoldsNew ==
  ASSUME NEW names, NEW before, NEW part, Text(before), Text(part), Free(before, names)
  PROVE  Holds(before \o part, part, names)
<1>2. /\ Len(before) \in Nat /\ DOMAIN before = 1..Len(before)
      /\ Len(part) \in Nat /\ DOMAIN part = 1..Len(part)
  BY TextFacts
<1>3. /\ DOMAIN (before \o part) = 1..(Len(before) + Len(part))
      /\ \A i \in 1..Len(before) : (before \o part)[i] = before[i]
      /\ \A i \in 1..Len(part) : (before \o part)[Len(before) + i] = part[i]
  BY TextConcat
<1>4. ASSUME NEW k \in DOMAIN (before \o part), (before \o part)[k][1] \in names
      PROVE  k - Len(before) \in DOMAIN part
  <2>1. k \notin 1..Len(before)
    BY <1>2, <1>3, <1>4 DEF Free
  <2> QED
    BY <1>2, <1>3, <2>1
<1>5. \A i \in DOMAIN part : Len(before) + i \in DOMAIN (before \o part)
                             /\ (before \o part)[Len(before) + i] = part[i]
  BY <1>2, <1>3
<1> QED
  BY <1>2, <1>4, <1>5 DEF Holds

\* Nothing comes from nothing.
LEMMA FreeConcat ==
  ASSUME NEW names, NEW a, NEW b, Text(a), Text(b), Free(a, names), Free(b, names)
  PROVE  Free(a \o b, names)
<1>2. /\ Len(a) \in Nat /\ DOMAIN a = 1..Len(a) /\ Len(b) \in Nat /\ DOMAIN b = 1..Len(b)
  BY TextFacts
<1>3. /\ DOMAIN (a \o b) = 1..(Len(a) + Len(b))
      /\ \A i \in 1..Len(a) : (a \o b)[i] = a[i]
      /\ \A i \in 1..Len(b) : (a \o b)[Len(a) + i] = b[i]
  BY TextConcat
<1>4. ASSUME NEW k \in DOMAIN (a \o b) PROVE (a \o b)[k][1] \notin names
  <2>1. CASE k \in 1..Len(a)
    BY <1>2, <1>3, <2>1 DEF Free
  <2>2. CASE k \notin 1..Len(a)
    <3>1. k - Len(a) \in 1..Len(b) /\ k = Len(a) + (k - Len(a))
      BY <1>2, <1>3, <2>2
    <3>2. (a \o b)[k] = b[k - Len(a)]
      BY <1>3, <3>1
    <3> QED
      BY <1>2, <3>1, <3>2 DEF Free
  <2> QED
    BY <2>1, <2>2
<1> QED
  BY <1>4 DEF Free

-----------------------------------------------------------------------------
(* match_target.                                                           *)

\* The brace is behind, and the segment's end not before, where the loop is.
LEMMA LoopProgress ==
  ASSUME NEW text, NEW path, Text(text), Text(path),
         NEW p \in 1..Len(text), NEW t \in 1..Len(path) + 1
  PROVE  /\ Closing(text, p) = 0 \/ Closing(text, p) \in p + 1..Len(text)
         /\ SegmentEnd(path, t) \in t..Len(path) + 1
         /\ \A i \in t..SegmentEnd(path, t) - 1 : path[i] # "/"
         /\ SegmentEnd(path, t) <= Len(path) => path[SegmentEnd(path, t)] = "/"
<1>1. /\ Len(text) \in Nat /\ DOMAIN text = 1..Len(text)
      /\ Len(path) \in Nat /\ DOMAIN path = 1..Len(path)
  BY TextFacts
<1>2. Closing(text, p) = 0 \/ Closing(text, p) \in p + 1..Len(text)
  <2> DEFINE S == {i \in DOMAIN text : i > p /\ text[i] = Close}
  <2>1. S \subseteq Nat \ {0} /\ \A i \in S : i \in p + 1..Len(text)
    BY <1>1
  <2> HIDE DEF S
  <2>2. FirstOf(S) = 0 \/ FirstOf(S) \in S
    BY <2>1, FirstOfFacts
  <2>3. Closing(text, p) = FirstOf(S)
    BY DEF Closing, S
  <2> QED
    BY <2>1, <2>2, <2>3
<1>3. /\ SegmentEnd(path, t) \in t..Len(path) + 1
      /\ \A i \in t..SegmentEnd(path, t) - 1 : path[i] # "/"
      /\ SegmentEnd(path, t) <= Len(path) => path[SegmentEnd(path, t)] = "/"
  <2> DEFINE S == {Len(path) + 1} \cup {i \in DOMAIN path : i >= t /\ path[i] = "/"}
  <2>1. /\ S \subseteq Nat /\ Len(path) + 1 \in S
        /\ \A i \in S : i >= t /\ (i <= Len(path) => path[i] = "/")
        /\ \A i \in t..Len(path) : path[i] = "/" => i \in S
    BY <1>1
  <2>2. SegmentEnd(path, t) = Min(S)
    BY DEF SegmentEnd, S
  <2> HIDE DEF S
  <2>3. Min(S) \in S /\ \A n \in S : Min(S) <= n
    BY <2>1, MinIsLeast
  <2>4. Min(S) \in t..Len(path) + 1 /\ (Min(S) <= Len(path) => path[Min(S)] = "/")
    <3>1. /\ Min(S) \in Nat /\ Min(S) >= t /\ Min(S) <= Len(path) + 1
          /\ Min(S) <= Len(path) => path[Min(S)] = "/"
      BY <2>1, <2>3, Zenon
    <3> QED
      BY <1>1, <3>1
  <2>5. ASSUME NEW i \in t..Min(S) - 1 PROVE path[i] # "/"
    <3>1. i \in t..Len(path) /\ ~(Min(S) <= i)
      BY <1>1, <2>4
    <3> QED
      BY <2>1, <2>3, <3>1
  <2> QED
    BY <2>2, <2>4, <2>5
<1> QED
  BY <1>2, <1>3

\* A turn of the loop asks only for what is behind it in the pattern.
LEMMA StepIsLocal ==
  ASSUME NEW pattern, NEW path, Text(pattern.text), Text(path),
         NEW p \in 1..Len(pattern.text) + 1, NEW t \in 1..Len(path) + 1, NEW f, NEW g,
         \A q \in p + 1..Len(pattern.text) + 1 : f[q] = g[q]
  PROVE  MatchStep(pattern, path, f, p, t) = MatchStep(pattern, path, g, p, t)
<1> DEFINE n == Len(pattern.text)
           c == Closing(pattern.text, p)
<1>1. n \in Nat
  BY TextFacts
<1>2. CASE p > n
  BY <1>2 DEF MatchStep
<1>3. CASE p <= n /\ pattern.text[p] = Open
  <2>1. c = 0 \/ c \in p + 1..n
    BY <1>1, <1>3, LoopProgress
  <2>2. CASE c = 0
    BY <1>3, <2>2 DEF MatchStep
  <2>3. CASE c # 0
    <3>1. f[c + 1] = g[c + 1]
      BY <1>1, <2>1, <2>3
    <3> QED
      BY <1>3, <3>1 DEF MatchStep
  <2> QED
    BY <2>2, <2>3
<1>4. CASE p <= n /\ pattern.text[p] # Open
  <2>1. f[p + 1] = g[p + 1]
    BY <1>1, <1>4
  <2> QED
    BY <1>1, <1>4, <2>1 DEF MatchStep
<1> QED
  BY <1>1, <1>2, <1>3, <1>4

\* f is the loop's result from every place behind q.
Solves(f, pattern, path, q) ==
    \A p \in q..Len(pattern.text) + 1 :
        f[p] = [t \in 1..Len(path) + 1 |-> MatchStep(pattern, path, f, p, t)]

\* The loop has a result from every place.
LEMMA LoopSolvable ==
  ASSUME NEW pattern, NEW path, Text(pattern.text), Text(path)
  PROVE  \E f : Solves(f, pattern, path, 1)
<1> DEFINE n == Len(pattern.text)
           Row(f, p) == [t \in 1..Len(path) + 1 |-> MatchStep(pattern, path, f, p, t)]
           S == {k \in Nat : k <= n => \E f : Solves(f, pattern, path, n + 1 - k)}
<1>1. n \in Nat
  BY TextFacts
<1>2. ASSUME NEW f, NEW g, NEW p \in 1..n + 1, \A q \in p + 1..n + 1 : f[q] = g[q]
      PROVE  Row(f, p) = Row(g, p)
  <2>1. \A t \in 1..Len(path) + 1 :
            MatchStep(pattern, path, f, p, t) = MatchStep(pattern, path, g, p, t)
    BY <1>2, StepIsLocal
  <2> QED
    BY <2>1
<1>3. ASSUME NEW f, NEW q PROVE Solves(f, pattern, path, q) <=> \A p \in q..n + 1 : f[p] = Row(f, p)
  BY DEF Solves
<1> HIDE DEF Row
<1>4. 0 \in S
  <2> DEFINE g == [p \in 1..n + 1 |-> Row(<<>>, n + 1)]
  <2>1. g[n + 1] = Row(<<>>, n + 1)
    BY <1>1
  <2>2. Row(g, n + 1) = Row(<<>>, n + 1)
    <3>1. n + 1 \in 1..n + 1 /\ \A q \in (n + 1) + 1..n + 1 : g[q] = <<>>[q]
      BY <1>1
    <3> HIDE DEF g
    <3> QED
      BY <1>2, <3>1
  <2> HIDE DEF g
  <2>3. \A p \in n + 1..n + 1 : g[p] = Row(g, p)
    BY <1>1, <2>1, <2>2
  <2>4. n + 1 - 0 = n + 1
    BY <1>1
  <2> HIDE DEF n
  <2> QED
    BY <1>3, <2>3, <2>4
<1>5. ASSUME NEW k \in Nat, k \in S PROVE k + 1 \in S
  <2>0. k + 1 \in Nat
    OBVIOUS
  <2>1. SUFFICES ASSUME k + 1 <= n PROVE \E f : Solves(f, pattern, path, n + 1 - (k + 1))
    BY <2>0
  <2> DEFINE q == n + 1 - (k + 1)
  <2>2. q \in 1..n /\ n + 1 - k = q + 1
    <3>1. ASSUME NEW x \in Nat, k + 1 <= x
          PROVE  x + 1 - (k + 1) \in 1..x /\ x + 1 - k = (x + 1 - (k + 1)) + 1
      BY <3>1
    <3> QED
      BY <1>1, <2>1, <3>1
  <2>3. PICK f : Solves(f, pattern, path, n + 1 - k)
    BY <1>1, <1>5, <2>1
  <2> HIDE DEF q
  <2>4. \A p \in q + 1..n + 1 : f[p] = Row(f, p)
    BY <1>3, <2>2, <2>3
  <2> DEFINE g == [p \in 1..n + 1 |-> IF p = q THEN Row(f, q) ELSE f[p]]
  <2>5. g[q] = Row(f, q) /\ \A p \in q + 1..n + 1 : g[p] = f[p]
    BY <1>1, <2>2
  <2> HIDE DEF g
  <2>6. ASSUME NEW p \in q..n + 1 PROVE Row(f, p) = Row(g, p)
    <3>1. p \in 1..n + 1 /\ \A x \in p + 1..n + 1 : f[x] = g[x]
      BY <1>1, <2>2, <2>5
    <3> QED
      BY <1>2, <3>1
  <2>7. ASSUME NEW p \in q..n + 1 PROVE g[p] = Row(g, p)
    <3>1. CASE p = q
      BY <2>5, <2>6, <3>1
    <3>2. CASE p # q
      <4>1. p \in q + 1..n + 1
        BY <1>1, <2>2, <3>2
      <4> QED
        BY <2>4, <2>5, <2>6, <4>1
    <3> QED
      BY <3>1, <3>2
  <2>8. Solves(g, pattern, path, q)
    BY <1>3, <2>7
  <2> QED
    BY <2>8 DEF q
<1> HIDE DEF S
<1>6. n \in S
  BY <1>1, <1>4, <1>5, NatSetInduction
<1>7. n + 1 - n = 1
  BY <1>1
<1> QED
  BY <1>1, <1>6, <1>7 DEF S

\* The loop, turn by turn.
LEMMA LoopUnfolds ==
  ASSUME NEW pattern, NEW path, Text(pattern.text), Text(path)
  PROVE  \A p \in 1..Len(pattern.text) + 1, t \in 1..Len(path) + 1 :
            MatchLoop(pattern, path)[p][t] =
                MatchStep(pattern, path, MatchLoop(pattern, path), p, t)
<1> DEFINE n == Len(pattern.text)
           Row(f, p) == [t \in 1..Len(path) + 1 |-> MatchStep(pattern, path, f, p, t)]
           Loops(f) == f = [p \in 1..n + 1 |-> Row(f, p)]
<1>1. n \in Nat
  BY TextFacts
<1>2. PICK f : Solves(f, pattern, path, 1)
  BY LoopSolvable
<1> DEFINE g == [p \in 1..n + 1 |-> f[p]]
<1>3. ASSUME NEW p \in 1..n + 1 PROVE Row(f, p) = Row(g, p)
  <2>1. \A q \in p + 1..n + 1 : f[q] = g[q]
    BY <1>1
  <2> HIDE DEF g
  <2>2. \A t \in 1..Len(path) + 1 :
            MatchStep(pattern, path, f, p, t) = MatchStep(pattern, path, g, p, t)
    BY <2>1, StepIsLocal
  <2> QED
    BY <2>2
<1>4. \A p \in 1..n + 1 : f[p] = Row(f, p)
  BY <1>2 DEF Solves
<1> HIDE DEF Row
<1>5. g = [p \in 1..n + 1 |-> Row(g, p)]
  BY <1>3, <1>4
<1> HIDE DEF g
<1>6. \E h : Loops(h)
  BY <1>5
<1> HIDE DEF Loops
<1>7. Loops(CHOOSE h : Loops(h))
  BY <1>6
<1>8. MatchLoop(pattern, path) = CHOOSE h : Loops(h)
  BY DEF MatchLoop, Loops, Row
<1>9. Loops(MatchLoop(pattern, path))
  BY <1>7, <1>8
<1> DEFINE m == MatchLoop(pattern, path)
<1> HIDE DEF m
<1>10. m = [p \in 1..n + 1 |-> Row(m, p)]
  BY <1>9 DEF Loops, m
<1>11. \A p \in 1..n + 1 : m[p] = Row(m, p)
  BY <1>10
<1>12. \A p \in 1..n + 1, t \in 1..Len(path) + 1 : m[p][t] = MatchStep(pattern, path, m, p, t)
  BY <1>11 DEF Row
<1> QED
  BY <1>12 DEF m

\* What the loop returns: no match, or the names of the pattern with values.
Capture(text, hs) == Text(hs) /\ \A i \in DOMAIN hs : hs[i][1] \in Range(text)
LoopResult(text, x) == x = NoMatch \/ \E hs : x = Match(hs) /\ Capture(text, hs)

\* The names of what is taken are the pattern's, whatever the target is.
LEMMA LoopCaptures ==
  ASSUME NEW pattern, NEW path, Text(pattern.text), Text(path)
  PROVE  \A p \in 1..Len(pattern.text) + 1, t \in 1..Len(path) + 1 :
            LoopResult(pattern.text, MatchLoop(pattern, path)[p][t])
<1> DEFINE text == pattern.text
           n == Len(text)
           m == MatchLoop(pattern, path)
           S == {p \in 1..n + 1 : \A t \in 1..Len(path) + 1 : LoopResult(text, m[p][t])}
<1>1. n \in Nat /\ DOMAIN text = 1..n /\ Len(path) \in Nat
  BY TextFacts
<1>2. \A p \in 1..n + 1, t \in 1..Len(path) + 1 : m[p][t] = MatchStep(pattern, path, m, p, t)
  BY LoopUnfolds
<1>3. LoopResult(text, NoMatch)
  BY DEF LoopResult
<1>4. LoopResult(text, Match(<<>>))
  <2>1. <<>> \in Seq({})
    OBVIOUS
  <2>2. Text(<<>>)
    BY <2>1, SeqIsText
  <2> QED
    BY <2>2 DEF LoopResult, Capture
<1> HIDE DEF m, n, text
<1>5. ASSUME NEW p \in 1..n + 1, \A q \in p + 1..n + 1 : q \in S PROVE p \in S
  <2>1. SUFFICES ASSUME NEW t \in 1..Len(path) + 1
                 PROVE  LoopResult(text, MatchStep(pattern, path, m, p, t))
    BY <1>2
  <2>2. CASE p > n
    BY <1>3, <1>4, <2>2 DEF MatchStep, n, text
  <2>3. CASE p <= n /\ text[p] = Open
    <3> DEFINE c == Closing(text, p)
               e == SegmentEnd(path, t)
    <3>0. p \in 1..Len(text) /\ Text(text)
      BY <1>1, <2>3 DEF n, text
    <3>1. (c = 0 \/ c \in p + 1..n) /\ e \in 1..Len(path) + 1
      <4>1. (c = 0 \/ c \in p + 1..n) /\ e \in t..Len(path) + 1
        BY <3>0, LoopProgress DEF n
      <4> QED
        BY <1>1, <4>1
    <3> HIDE DEF c, e
    <3> DEFINE rest == m[c + 1][e]
               took == <<text[p + 1], SubSeq(path, t, e - 1)>>
    <3>2. MatchStep(pattern, path, m, p, t) =
            IF c \in {0, p + 1} \/ ~rest.matched THEN NoMatch ELSE Match(<<took>> \o rest.captures)
      BY <2>3 DEF MatchStep, n, text, c, e
    <3>3. CASE c \in {0, p + 1} \/ ~rest.matched
      BY <1>3, <3>2, <3>3
    <3>4. CASE ~(c \in {0, p + 1} \/ ~rest.matched)
      <4>1. c \in p + 2..n /\ c + 1 \in p + 1..n + 1
        BY <1>1, <3>1, <3>4
      <4>2. LoopResult(text, rest)
        BY <1>5, <3>1, <4>1
      <4> HIDE DEF rest
      <4>3. ~(rest = NoMatch)
        BY <3>4 DEF NoMatch
      <4>4. PICK hs : rest = Match(hs) /\ Capture(text, hs)
        BY <4>2, <4>3 DEF LoopResult
      <4>5. rest.captures = hs
        BY <4>4 DEF Match
      <4>6. text[p + 1] \in Range(text)
        <5>1. p + 1 \in DOMAIN text
          BY <1>1, <4>1
        <5> QED
          BY <5>1 DEF Range
      <4> HIDE DEF took
      <4>7. <<took>> \in Seq({took}) /\ Len(<<took>>) = 1 /\ <<took>>[1] = took
        OBVIOUS
      <4>8. Text(<<took>>) /\ Text(hs)
        BY <4>4, <4>7, SeqIsText DEF Capture
      <4>9. Capture(text, <<took>> \o hs)
        <5>1. /\ Text(<<took>> \o hs) /\ DOMAIN (<<took>> \o hs) = 1..1 + Len(hs)
              /\ (<<took>> \o hs)[1] = took
              /\ \A i \in 1..Len(hs) : (<<took>> \o hs)[1 + i] = hs[i]
          BY <4>7, <4>8, TextConcat
        <5>2. Len(hs) \in Nat /\ DOMAIN hs = 1..Len(hs)
          BY <4>8, TextFacts
        <5>3. took[1] \in Range(text)
          BY <4>6 DEF took
        <5>4. ASSUME NEW i \in 1..1 + Len(hs) PROVE (<<took>> \o hs)[i][1] \in Range(text)
          <6>1. CASE i = 1
            BY <5>1, <5>3, <6>1
          <6>2. CASE i # 1
            <7>1. i - 1 \in 1..Len(hs) /\ i = 1 + (i - 1)
              BY <5>2, <6>2
            <7> QED
              BY <4>4, <5>1, <5>2, <7>1 DEF Capture
          <6> QED
            BY <6>1, <6>2
        <5> QED
          BY <5>1, <5>4 DEF Capture
      <4> QED
        BY <3>2, <3>4, <4>5, <4>9 DEF LoopResult
    <3> QED
      BY <3>3, <3>4
  <2>4. CASE p <= n /\ text[p] # Open
    <3>1. MatchStep(pattern, path, m, p, t) =
            IF t > Len(path) \/ text[p] # path[t] THEN NoMatch ELSE m[p + 1][t + 1]
      BY <1>1, <2>4 DEF MatchStep, n, text
    <3>2. t <= Len(path) => LoopResult(text, m[p + 1][t + 1])
      BY <1>1, <1>5, <2>4
    <3> QED
      BY <1>1, <1>3, <3>1, <3>2
  <2> QED
    BY <1>1, <2>2, <2>3, <2>4
<1>6. 1..n + 1 \subseteq S
  <2> HIDE DEF S
  <2>1. n + 1 \in Nat
    BY <1>1
  <2> QED
    BY <1>5, <2>1, DownInduction
<1> QED
  BY <1>6 DEF m, n, text

-----------------------------------------------------------------------------
(* Valid lines, and what the modules return.                               *)

\* A line that host_guard accepted.
LEMMA HostGuardLine ==
  ASSUME NEW f, HostGuardRule(f).valid
  PROVE  /\ Len(f) = 5 /\ TargetPattern(f[2]).text # <<>>
         /\ HostGuardRule(f).method = f[1] /\ HostGuardRule(f).target = TargetPattern(f[2])
         /\ HostGuardRule(f).hosts = {HostPattern(h) : h \in Range(f[3]) \ {<<>>}}
         /\ HostGuardRule(f).status \in StatusCodes
  BY Zenon DEF HostGuardRule, Invalid, ValidStatus

\* A line that header_guard accepted.
LEMMA HeaderGuardLine ==
  ASSUME NEW f, HeaderGuardRule(f).valid
  PROVE  /\ Len(f) \in {5, 6} /\ TargetPattern(f[2]).text # <<>>
         /\ HeaderGuardRule(f).method = f[1] /\ HeaderGuardRule(f).target = TargetPattern(f[2])
         /\ HeaderGuardRule(f).name = f[3]
         /\ HeaderGuardRule(f).expected = IF Len(f) = 6 THEN f[4] ELSE Absent
         /\ HeaderGuardRule(f).status \in StatusCodes
  BY Zenon DEF HeaderGuardRule, Invalid, ValidStatus

\* A line that cors accepted.
LEMMA CorsLineValid ==
  ASSUME NEW f, CorsRule(f).valid
  PROVE  /\ Len(f) = 4 /\ TargetPattern(f[1]).text # <<>>
         /\ CorsRule(f).target = TargetPattern(f[1])
         /\ CorsRule(f).origins = Range(f[2]) \ {Blank}
         /\ CorsRule(f).methods = Range(Lower(f[3])) \ {Blank}
  BY Zenon DEF CorsRule, Invalid

\* A line that jwt_auth accepted.
LEMMA JwtLine ==
  ASSUME NEW f, JwtRule(f).valid
  PROVE  /\ Len(f) = 2 /\ TargetPattern(f[2]).text # <<>>
         /\ JwtRule(f).method = f[1] /\ JwtRule(f).target = TargetPattern(f[2])
  BY Zenon DEF JwtRule, Invalid

\* A line that router or route_table accepted.
LEMMA RouteLine ==
  ASSUME NEW f, RouteRule(f).valid
  PROVE  /\ Len(f) >= 3 /\ TargetPattern(f[2]).text # <<>>
         /\ RouteRule(f).method = f[1] /\ RouteRule(f).target = TargetPattern(f[2])
         /\ RouteRule(f).action = f[3] /\ f[3] \in {"pass", "respond"}
         /\ f[3] # "pass" => RouteRule(f).status \in StatusCodes
  BY Zenon DEF RouteRule, Invalid, ValidStatus

\* The lines of a module in a configuration that starts, and their rules.
LEMMA LinesValid ==
  ASSUME NEW c \in Configs, NEW m \in Modules, AllValid(c, m)
  PROVE  /\ Text(c.lines[m])
         /\ DOMAIN c.lines[m] = 1..Len(c.lines[m]) /\ Len(c.lines[m]) \in Nat
         /\ DOMAIN Parsed(c, m) = DOMAIN c.lines[m]
         /\ DOMAIN c.lines[m] \subseteq Nat \ {0}
         /\ \A i \in DOMAIN c.lines[m] :
              /\ c.lines[m][i] \in Range(c.lines[m])
              /\ Parsed(c, m)[i] = Rule(m, c.lines[m][i])
              /\ Rule(m, c.lines[m][i]).valid
<1>1. Text(c.lines[m])
  BY ConfigsAreFiles
<1>2. Len(c.lines[m]) \in Nat /\ DOMAIN c.lines[m] = 1..Len(c.lines[m])
  BY <1>1, TextFacts
<1>3. \A i \in DOMAIN c.lines[m] : c.lines[m][i] \in Range(c.lines[m])
  BY DEF Range
<1>4. /\ DOMAIN Parsed(c, m) = DOMAIN c.lines[m]
      /\ \A i \in DOMAIN c.lines[m] : /\ Parsed(c, m)[i] = Rule(m, c.lines[m][i])
                                      /\ Rule(m, c.lines[m][i]).valid
  BY DEF Parsed, AllValid
<1>5. DOMAIN c.lines[m] \subseteq Nat \ {0}
  BY <1>2
<1> QED
  BY <1>1, <1>2, <1>3, <1>4, <1>5

\* What a module returned: a pass or a response, with headers of its own.
Result(m, res) ==
    \E hs :
        /\ Text(hs) /\ \A k \in Modules \ {m} : Free(hs, HeadersOf(k))
        /\ res = PassWith(hs) \/ \E s \in StatusCodes : res = RespondWith(s, hs)

\* A result without headers.
LEMMA BareResult ==
  ASSUME NEW m, NEW res, res = PassWith(<<>>) \/ \E s \in StatusCodes : res = RespondWith(s, <<>>)
  PROVE  Result(m, res)
<1>1. <<>> \in Seq({})
  OBVIOUS
<1>2. Text(<<>>)
  BY <1>1, SeqIsText
<1>3. \A k : Free(<<>>, HeadersOf(k))
  BY DEF Free
<1> QED
  BY <1>2, <1>3 DEF Result

\* What a guard returns.
LEMMA GuardResult ==
  ASSUME NEW m, NEW rs, NEW broken, broken \subseteq DOMAIN rs, DOMAIN rs \subseteq Nat \ {0},
         \A i \in DOMAIN rs : rs[i].status \in StatusCodes
  PROVE  Result(m, Guard(rs, broken))
<1>1. CASE broken = {}
  BY <1>1, BareResult DEF Guard
<1>2. CASE broken # {}
  <2>1. FirstOf(broken) \in DOMAIN rs
    BY <1>2, FirstOfFacts
  <2>2. rs[FirstOf(broken)].status \in StatusCodes
    BY <2>1
  <2>3. Guard(rs, broken) = RespondWith(rs[FirstOf(broken)].status, <<>>)
    BY <1>2 DEF Guard
  <2> QED
    BY <2>2, <2>3, BareResult
<1> QED
  BY <1>1, <1>2

\* Three of the modules have nothing to add.
LEMMA BareResults ==
  ASSUME NEW c \in Configs, NEW m \in {"host_guard", "header_guard", "route_table"},
         AllValid(c, m), NEW r \in Requests, NEW res \in Results(c, m, r)
  PROVE  Result(m, res)
<1> DEFINE rs == Parsed(c, m)
<1>0. m \in Modules
  BY DEF Modules
<1>1. /\ DOMAIN rs = DOMAIN c.lines[m] /\ DOMAIN rs \subseteq Nat \ {0}
      /\ \A i \in DOMAIN rs : rs[i] = Rule(m, c.lines[m][i]) /\ Rule(m, c.lines[m][i]).valid
  BY <1>0, LinesValid
<1> HIDE DEF rs
<1>2. Covering(rs, r) \subseteq DOMAIN rs
  BY DEF Covering
<1>3. CASE m = "host_guard"
  <2>1. \A i \in DOMAIN rs : rs[i].status \in StatusCodes
    BY <1>1, <1>3, HostGuardLine DEF Rule
  <2>2. res = HostGuardHandle(rs, r)
    BY <1>3 DEF Results, rs
  <2> QED
    BY <1>1, <1>2, <2>1, <2>2, GuardResult DEF HostGuardHandle
<1>4. CASE m = "header_guard"
  <2>1. \A i \in DOMAIN rs : rs[i].status \in StatusCodes
    BY <1>1, <1>4, HeaderGuardLine DEF Rule
  <2>2. res = HeaderGuardHandle(rs, r)
    BY <1>4 DEF Results, rs
  <2> QED
    BY <1>1, <1>2, <2>1, <2>2, GuardResult DEF HeaderGuardHandle
<1>5. CASE m = "route_table"
  <2>1. res = RouteTableHandle(rs, r)
    BY <1>5 DEF Results, rs
  <2> DEFINE i == FirstOf(Covering(rs, r))
  <2>2. i = 0 \/ i \in DOMAIN rs
    BY <1>1, <1>2, FirstOfFacts
  <2> HIDE DEF i
  <2>3. CASE i = 0 \/ rs[i].action = "pass"
    BY <2>1, <2>3, BareResult DEF RouteTableHandle, i
  <2>4. CASE ~(i = 0 \/ rs[i].action = "pass")
    <3>1. RouteRule(c.lines[m][i]).valid /\ rs[i] = RouteRule(c.lines[m][i])
      BY <1>1, <1>5, <2>2, <2>4 DEF Rule
    <3>2. rs[i].status \in StatusCodes
      BY <2>4, <3>1, RouteLine
    <3>3. res = RespondWith(rs[i].status, <<>>)
      BY <2>1, <2>4 DEF RouteTableHandle, i
    <3> QED
      BY <3>2, <3>3, BareResult
  <2> QED
    BY <2>3, <2>4
<1> QED
  BY <1>3, <1>4, <1>5

\* The statuses the modules write themselves.
LEMMA FixedStatuses == {204, 401, 403, 404, 405} \subseteq StatusCodes
  BY DEF StatusCodes

\* The beginning of a text.
LEMMA TextSubSeq ==
  ASSUME NEW s, Text(s), NEW a \in Nat \ {0}, NEW b \in 0..Len(s)
  PROVE  /\ Text(SubSeq(s, a, b))
         /\ Len(SubSeq(s, a, b)) = IF a <= b THEN b - a + 1 ELSE 0
         /\ \A i \in 1..b - a + 1 : SubSeq(s, a, b)[i] = s[a + i - 1]
         /\ Range(SubSeq(s, a, b)) \subseteq Range(s)
<1>1. Len(s) \in Nat /\ DOMAIN s = 1..Len(s)
  BY TextFacts
<1> DEFINE n == IF a <= b THEN b - a + 1 ELSE 0
           u == SubSeq(s, a, b)
<1>2. u = [i \in 1..b - a + 1 |-> s[i + a - 1]]
  BY DEF SubSeq
<1>3. n \in Nat /\ 1..b - a + 1 = 1..n
  BY <1>1
<1> HIDE DEF n, u
<1>4. DOMAIN u = 1..n /\ u = [i \in 1..n |-> u[i]]
  BY <1>2, <1>3
<1>5. Text(u) /\ Len(u) = n
  BY <1>3, <1>4, TextMade
<1>6. ASSUME NEW i \in 1..n PROVE u[i] = s[a + i - 1] /\ a + i - 1 \in DOMAIN s
  <2>1. u[i] = s[i + a - 1]
    BY <1>2, <1>3
  <2>2. i + a - 1 = a + i - 1
    BY <1>3
  <2>3. a + i - 1 \in 1..Len(s)
    BY <1>1, <1>3 DEF n
  <2> QED
    BY <1>1, <2>1, <2>2, <2>3
<1>7. Range(u) \subseteq Range(s)
  BY <1>4, <1>6 DEF Range
<1> QED
  BY <1>3, <1>5, <1>6, <1>7 DEF n, u

\* The path of a target is a text.
LEMMA PathIsText ==
  ASSUME NEW target, Text(target)
  PROVE  Text(PathOf(target))
<1> DEFINE Q == {i \in DOMAIN target : target[i] = "?"}
<1>1. Len(target) \in Nat /\ DOMAIN target = 1..Len(target)
  BY TextFacts
<1>2. CASE Q = {}
  BY <1>2 DEF PathOf
<1>3. CASE Q # {}
  <2>1. Q \subseteq Nat /\ \A i \in Q : i \in 1..Len(target)
    BY <1>1
  <2> HIDE DEF Q
  <2>2. Min(Q) \in 1..Len(target)
    BY <1>3, <2>1, MinIsLeast
  <2>3. Min(Q) - 1 \in 0..Len(target)
    BY <1>1, <2>2
  <2>4. Text(SubSeq(target, 1, Min(Q) - 1))
    BY <2>3, TextSubSeq
  <2> QED
    BY <1>3, <2>4 DEF PathOf, Q
<1> QED
  BY <1>2, <1>3

\* What classify_target_pattern leaves of a pattern.
LEMMA PatternIsText ==
  ASSUME NEW s, Text(s)
  PROVE  Text(TargetPattern(s).text) /\ Range(TargetPattern(s).text) \subseteq Range(s)
<1>1. Len(s) \in Nat /\ (s # <<>> => Len(s) # 0)
  BY TextFacts
<1>2. CASE s # <<>> /\ Last(s) = "*"
  <2>1. TargetPattern(s).text = SubSeq(s, 1, Len(s) - 1)
    BY <1>2 DEF TargetPattern, Front
  <2>2. Len(s) - 1 \in 0..Len(s)
    BY <1>1, <1>2
  <2> QED
    BY <2>1, <2>2, TextSubSeq
<1>3. CASE ~(s # <<>> /\ Last(s) = "*")
  BY <1>3 DEF TargetPattern
<1> QED
  BY <1>2, <1>3

\* The target fields of the lines are texts, and stay so without their star.
LEMMA LinePattern ==
  ASSUME NEW c \in Configs, NEW m \in Modules \ {"cors"}, NEW l \in Range(c.lines[m]), Len(l) > 1
  PROVE  /\ Text(l[2]) /\ Text(TargetPattern(l[2]).text)
         /\ Range(TargetPattern(l[2]).text) \subseteq Range(l[2])
<1>1. Text(l[2])
  BY ConfigsAreFiles
<1> QED
  BY <1>1, PatternIsText

\* What the router returns has only the names of parameters.
LEMMA RouterResult ==
  ASSUME NEW c \in Configs, AllValid(c, "router"), NEW r \in Requests,
         NEW res \in Results(c, "router", r)
  PROVE  Result("router", res)
<1> DEFINE rs == Parsed(c, "router")
           matched(rule) == MatchTarget(rule.target, r.target)
           hits == {k \in DOMAIN rs : /\ MethodMatches(rs[k].method, r.method)
                                      /\ matched(rs[k]).matched}
           i == FirstOf(hits)
<1>0. "router" \in Modules \ {"cors"}
  BY DEF Modules
<1>1. /\ DOMAIN rs = DOMAIN c.lines["router"] /\ DOMAIN rs \subseteq Nat \ {0}
      /\ \A k \in DOMAIN rs : /\ rs[k] = Rule("router", c.lines["router"][k])
                              /\ Rule("router", c.lines["router"][k]).valid
                              /\ c.lines["router"][k] \in Range(c.lines["router"])
  BY <1>0, LinesValid
<1>2. res = RouterHandle(rs, r)
  BY DEF Results
<1> HIDE DEF rs
<1>3. hits \subseteq DOMAIN rs
  OBVIOUS
<1>4. res = IF i = 0 THEN PassWith(<<>>)
            ELSE IF rs[i].action = "pass" THEN PassWith(matched(rs[i]).captures)
            ELSE RespondWith(rs[i].status, <<>>)
  BY <1>2 DEF RouterHandle
<1>5. i = 0 \/ i \in hits
  <2> HIDE DEF hits
  <2> QED
    BY <1>1, <1>3, FirstOfFacts
<1> HIDE DEF i
<1>6. CASE i = 0
  BY <1>4, <1>6, BareResult
<1>7. CASE i # 0
  <2> DEFINE f == c.lines["router"][i]
  <2>1. i \in DOMAIN rs /\ matched(rs[i]).matched
    BY <1>5, <1>7
  <2>2. rs[i] = RouteRule(f) /\ RouteRule(f).valid /\ f \in Range(c.lines["router"])
    BY <1>1, <2>1 DEF Rule
  <2> HIDE DEF f, matched
  <2>3. Len(f) >= 3 /\ rs[i].target = TargetPattern(f[2]) /\ rs[i].action = f[3]
        /\ (f[3] # "pass" => rs[i].status \in StatusCodes)
    BY <2>2, RouteLine
  <2>4. CASE f[3] # "pass"
    BY <1>4, <1>7, <2>3, <2>4, BareResult
  <2>5. CASE f[3] = "pass"
    <3> DEFINE text == TargetPattern(f[2]).text
               path == PathOf(r.target)
               x == MatchLoop(TargetPattern(f[2]), path)[1][1]
    <3>0. Len(f) > 1
      BY <2>3
    <3>1. Text(text) /\ Range(text) \subseteq Range(f[2])
      BY <1>0, <2>2, <3>0, LinePattern
    <3>2. Text(path)
      BY RequestsAreHttp, PathIsText
    <3>3. Len(text) \in Nat /\ Len(path) \in Nat
      BY <3>1, <3>2, TextFacts
    <3>4. LoopResult(text, x)
      <4>1. 1 \in 1..Len(text) + 1 /\ 1 \in 1..Len(path) + 1
        BY <3>3
      <4> QED
        BY <3>1, <3>2, <4>1, LoopCaptures
    <3>5. matched(rs[i]) = x
      BY <2>3 DEF matched, MatchTarget
    <3> HIDE DEF x, text, path
    <3>6. x # NoMatch
      BY <2>1, <3>5 DEF NoMatch
    <3>7. PICK hs : x = Match(hs) /\ Capture(text, hs)
      BY <3>4, <3>6 DEF LoopResult
    <3>8. res = PassWith(hs)
      BY <1>4, <1>7, <2>3, <2>5, <3>5, <3>7 DEF Match
    <3>9. Range(f[2]) \cap OwnHeaders = {}
      BY <2>2, <3>0, ConfigsAreFiles
    <3>10. ASSUME NEW k \in Modules PROVE Free(hs, HeadersOf(k))
      <4>1. HeadersOf(k) \subseteq OwnHeaders
        BY DEF HeadersOf, OwnHeaders
      <4> QED
        BY <3>1, <3>7, <3>9, <4>1 DEF Capture, Free
    <3> QED
      BY <3>7, <3>8, <3>10 DEF Result, Capture
  <2> QED
    BY <2>4, <2>5
<1> QED
  BY <1>6, <1>7

-----------------------------------------------------------------------------
(* Lines that are about a request.                                         *)

\* The target of a pattern with a star begins with what is before the star.
LEMMA CoversIsMatch ==
  ASSUME NEW method, NEW p, NEW r, Text(p), Text(r.target), TargetPattern(p).text # <<>>
  PROVE  Covers(method, p, r) <=>
            MethodMatches(method, r.method) /\ TargetMatches(TargetPattern(p), r.target)
<1>1. p # <<>>
  BY DEF TargetPattern
<1>2. Len(p) \in Nat \ {0} /\ DOMAIN p = 1..Len(p)
  BY <1>1, TextFacts
<1>3. CASE Last(p) = "*"
  <2>1. TargetPattern(p) = [kind |-> "prefix", text |-> Front(p)]
    BY <1>1, <1>3 DEF TargetPattern
  <2>2. TargetMatches(TargetPattern(p), r.target) <=> IsPrefix(Front(p), r.target)
    BY <2>1 DEF TargetMatches
  <2>3. IsPrefix(Front(p), p)
    <3> DEFINE n == Len(p) - 1
    <3>1. n \in 0..Len(p) /\ n <= Len(p) /\ n \in Nat
      BY <1>2
    <3>2. Text(Front(p)) /\ Len(Front(p)) = n
      BY <1>2, <3>1, TextSubSeq DEF Front
    <3>3. SubSeq(Front(p), 1, n) = Front(p)
      <4>1. /\ Front(p) = [i \in 1..n |-> Front(p)[i]]
        BY <3>2, TextFacts
      <4>2. SubSeq(Front(p), 1, n) = [i \in 1..n - 1 + 1 |-> Front(p)[i + 1 - 1]]
        BY DEF SubSeq
      <4>3. n - 1 + 1 = n /\ \A i \in 1..n : i + 1 - 1 = i
        BY <3>1
      <4> HIDE DEF n
      <4>4. SubSeq(Front(p), 1, n) = [i \in 1..n |-> Front(p)[i]]
        BY <4>2, <4>3
      <4> QED
        BY <4>1, <4>4
    <3> QED
      BY <3>1, <3>2, <3>3 DEF IsPrefix, Front
  <2> QED
    BY <1>3, <2>2, <2>3 DEF Covers, MethodMatches
<1>4. CASE Last(p) # "*"
  <2>1. TargetPattern(p) = [kind |-> "exact", text |-> p]
    BY <1>4 DEF TargetPattern
  <2>2. TargetMatches(TargetPattern(p), r.target) <=> p = r.target
    BY <2>1 DEF TargetMatches
  <2> QED
    BY <1>4, <2>2 DEF Covers, MethodMatches
<1> QED
  BY <1>3, <1>4

-----------------------------------------------------------------------------
(* cors.                                                                   *)

\* The method a request is about.
About(r) == IF IsPreflight(r) THEN r.headers["Access-Control-Request-Method"] ELSE r.method

AnyOrigin(r) == "*" \in Range(CorsLine(r)[2])

\* What the line lets a page read.
AllowHeaders(r) ==
    IF AnyOrigin(r) THEN <<<<"Access-Control-Allow-Origin", <<"*">>>>>>
    ELSE <<<<"Access-Control-Allow-Origin", <<r.headers["Origin"]>>>>, <<"Vary", <<"Origin">>>>>>

\* What the answer to a preflight says besides.
PreflightMethods(methods) == <<<<"Access-Control-Allow-Methods", methods>>>>
PreflightHeaders(headers) ==
    IF headers = Blank THEN <<>> ELSE <<<<"Access-Control-Allow-Headers", <<headers>>>>>>

\* The words of one item, in lower case.
LEMMA LowerWord ==
  ASSUME NEW w
  PROVE  Lower(<<w>>)[1] = (IF w \in DOMAIN LowerCase THEN LowerCase[w] ELSE w)
         /\ Lower(<<w>>) = <<Lower(<<w>>)[1]>>
<1>1. DOMAIN <<w>> = {1} /\ <<w>>[1] = w
  OBVIOUS
<1> DEFINE lw == IF w \in DOMAIN LowerCase THEN LowerCase[w] ELSE w
<1>2. Lower(<<w>>) = [i \in {1} |-> lw]
  BY <1>1 DEF Lower
<1> HIDE DEF lw
<1>3. Lower(<<w>>)[1] = lw
  BY <1>2
<1>4. [i \in {1} |-> lw] = <<lw>>
  OBVIOUS
<1> QED
  BY <1>2, <1>3, <1>4 DEF lw

\* A method is among a line's exactly if an item of the line is the method.
LEMMA MethodListed ==
  ASSUME NEW items, NEW method
  PROVE  (\E m \in Range(items) \ {Blank} : Lower(<<m>>) = Lower(<<method>>)) <=>
            Lower(<<method>>)[1] \in Range(Lower(items)) \ {Blank}
<1> DEFINE L(w) == IF w \in DOMAIN LowerCase THEN LowerCase[w] ELSE w
<1>1. \A w : Lower(<<w>>)[1] = L(w) /\ Lower(<<w>>) = <<Lower(<<w>>)[1]>>
  BY LowerWord
<1>2. \A w : L(w) = Blank <=> w = Blank
  BY MarksHaveNoCase
<1>3. Range(Lower(items)) = {L(m) : m \in Range(items)}
  BY DEF Lower, Range
<1> HIDE DEF L
<1>4. \A v, w : Lower(<<v>>) = Lower(<<w>>) <=> L(v) = L(w)
  BY <1>1
<1>5. (\E m \in Range(items) \ {Blank} : L(m) = L(method)) <=>
          L(method) \in {L(m) : m \in Range(items)} \ {Blank}
  BY <1>2
<1>6. (\E m \in Range(items) \ {Blank} : Lower(<<m>>) = Lower(<<method>>)) <=>
          \E m \in Range(items) \ {Blank} : L(m) = L(method)
  BY <1>4
<1>7. Lower(<<method>>)[1] = L(method)
  BY <1>1
<1> QED
  BY <1>3, <1>5, <1>6, <1>7

\* cors decides by the line for the request: what it does not admit gets no
\* headers, and what it admits gets the line's, with a response to a preflight.
LEMMA CorsOutcome ==
  ASSUME config \in Configs, AllValid(config, "cors"), NEW r \in Requests
  PROVE  LET res == CorsHandle(Parsed(config, "cors"), r)
         IN /\ ~Admitted(r, About(r)) =>
                 \/ res = PassWith(<<>>)
                 \/ res \in {RespondWith(403, <<>>), RespondWith(405, <<>>)}
            /\ Admitted(r, About(r)) /\ ~IsPreflight(r) => res = PassWith(AllowHeaders(r))
            /\ Admitted(r, About(r)) /\ IsPreflight(r) =>
                 \E methods, headers :
                    res = RespondWith(204, (AllowHeaders(r) \o PreflightMethods(methods))
                                             \o PreflightHeaders(headers))
<1> DEFINE ls == config.lines["cors"]
           rs == Parsed(config, "cors")
           res == CorsHandle(rs, r)
           H == {i \in DOMAIN ls : Covers("*", ls[i][1], r)}
           G == {k \in DOMAIN rs : TargetMatches(rs[k].target, r.target)}
           origin == r.headers["Origin"]
<1>0. "cors" \in Modules
  BY DEF Modules
<1>1. /\ DOMAIN rs = DOMAIN ls /\ DOMAIN ls \subseteq Nat \ {0}
      /\ \A k \in DOMAIN ls : /\ ls[k] \in Range(ls) /\ rs[k] = CorsRule(ls[k])
                              /\ CorsRule(ls[k]).valid
  <2>1. /\ DOMAIN rs = DOMAIN ls /\ DOMAIN ls \subseteq Nat \ {0}
        /\ \A k \in DOMAIN ls : /\ ls[k] \in Range(ls) /\ rs[k] = Rule("cors", ls[k])
                                /\ Rule("cors", ls[k]).valid
    BY <1>0, LinesValid
  <2>2. \A l : Rule("cors", l) = CorsRule(l)
    BY DEF Rule
  <2> HIDE DEF rs, ls
  <2> QED
    BY <2>1, <2>2
<1>2. Text(r.target)
  BY RequestsAreHttp
<1>3. ASSUME NEW k \in DOMAIN ls
      PROVE  Covers("*", ls[k][1], r) <=> TargetMatches(rs[k].target, r.target)
  <2>1. Text(ls[k][1])
    BY <1>1, ConfigsAreFiles
  <2>2. TargetPattern(ls[k][1]).text # <<>> /\ rs[k].target = TargetPattern(ls[k][1])
    BY <1>1, CorsLineValid
  <2>3. MethodMatches("*", r.method)
    BY DEF MethodMatches
  <2> HIDE DEF rs, ls
  <2> QED
    BY <1>2, <2>1, <2>2, <2>3, CoversIsMatch
<1>4. H = G
  BY <1>1, <1>3
<1>5. CorsLine(r) = IF H = {} THEN <<>> ELSE ls[Min(H)]
  BY DEF CorsLine, Lines
<1> HIDE DEF rs, ls
<1>6. G \subseteq DOMAIN rs /\ G \subseteq Nat \ {0}
  BY <1>1
<1> HIDE DEF G, H
<1>7. FirstOf(G) = (IF G = {} THEN 0 ELSE Min(G)) /\ (G # {} => FirstOf(G) # 0 /\ Min(G) \in G)
  BY <1>6, FirstOfFacts DEF FirstOf
<1>8. res = CASE origin = Absent \/ FirstOf(G) = 0 -> PassWith(<<>>)
              [] OTHER ->
                 LET rule == rs[FirstOf(G)]
                 IN CASE ~OriginAllowed(rule, origin) ->
                             IF IsPreflight(r) THEN RespondWith(403, <<>>) ELSE PassWith(<<>>)
                      [] OriginAllowed(rule, origin) /\ ~MethodAllowed(rule, About(r)) ->
                             RespondWith(405, <<>>)
                      [] OTHER ->
                             IF IsPreflight(r) THEN PreflightResponse(rule, origin)
                             ELSE PassWith(CorsHeaders(rule, origin))
  BY DEF CorsHandle, About, G
<1> HIDE DEF res
<1>9. CASE origin = Absent \/ FirstOf(G) = 0
  <2>1. res = PassWith(<<>>)
    BY <1>8, <1>9
  <2>2. ~Admitted(r, About(r))
    BY <1>4, <1>5, <1>7, <1>9 DEF Admitted
  <2> QED
    BY <2>1, <2>2 DEF res, rs
<1>10. CASE ~(origin = Absent \/ FirstOf(G) = 0)
  <2> DEFINE k == FirstOf(G)
             f == ls[k]
             rule == rs[k]
  <2>1. k \in DOMAIN ls /\ CorsLine(r) = f
    BY <1>1, <1>4, <1>5, <1>6, <1>7, <1>10
  <2> HIDE DEF k
  <2>2. CorsRule(f).valid /\ rule = CorsRule(f)
    BY <1>1, <2>1
  <2> HIDE DEF f, rule
  <2>3. /\ Len(f) = 4 /\ rule.origins = Range(f[2]) \ {Blank}
        /\ rule.methods = Range(Lower(f[3])) \ {Blank}
    BY <2>2, CorsLineValid
  <2>4. f # <<>>
    BY <2>3
  <2>5. Blank # "*"
    BY Zenon DEF Blank
  <2>6. AnyOriginAllowed(rule) <=> AnyOrigin(r)
    BY <2>1, <2>3, <2>5 DEF AnyOriginAllowed, AnyOrigin
  <2>7. OriginAllowed(rule, origin) <=> (Range(f[2]) \ {Blank}) \cap {"*", origin} # {}
    BY <2>3 DEF OriginAllowed, AnyOriginAllowed
  <2>8. MethodAllowed(rule, About(r)) <=>
            \E m \in Range(f[3]) \ {Blank} : Lower(<<m>>) = Lower(<<About(r)>>)
    BY <2>3, MethodListed DEF MethodAllowed
  <2>9. Admitted(r, About(r)) <=> OriginAllowed(rule, origin) /\ MethodAllowed(rule, About(r))
    BY <1>10, <2>1, <2>4, <2>7, <2>8 DEF Admitted
  <2>10. CorsHeaders(rule, origin) = AllowHeaders(r)
    BY <2>6 DEF CorsHeaders, AllowHeaders
  <2>11. /\ ~OriginAllowed(rule, origin) =>
              res = IF IsPreflight(r) THEN RespondWith(403, <<>>) ELSE PassWith(<<>>)
         /\ OriginAllowed(rule, origin) /\ ~MethodAllowed(rule, About(r)) => res = RespondWith(405, <<>>)
         /\ OriginAllowed(rule, origin) /\ MethodAllowed(rule, About(r)) =>
              res = IF IsPreflight(r) THEN PreflightResponse(rule, origin)
                    ELSE PassWith(CorsHeaders(rule, origin))
    BY <1>8, <1>10 DEF rule, k
  <2>12. ASSUME Admitted(r, About(r)), IsPreflight(r)
         PROVE  \E methods, headers :
                    res = RespondWith(204, (AllowHeaders(r) \o PreflightMethods(methods))
                                             \o PreflightHeaders(headers))
    <3>1. res = PreflightResponse(rule, origin)
      BY <2>9, <2>11, <2>12
    <3>2. PreflightResponse(rule, origin) =
            RespondWith(204, (CorsHeaders(rule, origin) \o PreflightMethods(rule.allowMethods))
                               \o PreflightHeaders(rule.allowHeaders))
      BY Zenon DEF PreflightResponse, PreflightMethods, PreflightHeaders
    <3>3. res = RespondWith(204, (AllowHeaders(r) \o PreflightMethods(rule.allowMethods))
                                   \o PreflightHeaders(rule.allowHeaders))
      BY <2>10, <3>1, <3>2, Zenon
    <3> QED
      BY <3>3, Zenon
  <2>13. Admitted(r, About(r)) /\ ~IsPreflight(r) => res = PassWith(AllowHeaders(r))
    BY <2>9, <2>10, <2>11
  <2>14. ~Admitted(r, About(r)) => \/ res = PassWith(<<>>)
                                   \/ res \in {RespondWith(403, <<>>), RespondWith(405, <<>>)}
    BY <2>9, <2>11
  <2> QED
    BY <2>12, <2>13, <2>14 DEF res, rs
<1> QED
  BY <1>9, <1>10

\* A sequence of one header.
LEMMA OneHeader ==
  ASSUME NEW h
  PROVE  Text(<<h>>) /\ DOMAIN <<h>> = {1} /\ <<h>>[1] = h /\ Len(<<h>>) = 1
<1>1. <<h>> \in Seq({h})
  OBVIOUS
<1>2. Text(<<h>>)
  BY <1>1, SeqIsText
<1>3. DOMAIN <<h>> = {1} /\ <<h>>[1] = h /\ Len(<<h>>) = 1
  OBVIOUS
<1> QED
  BY <1>2, <1>3

\* Only cors sets what it sets.
LEMMA AllowHeadersShape ==
  ASSUME NEW r
  PROVE  Text(AllowHeaders(r)) /\ \A m \in Modules \ {"cors"} : Free(AllowHeaders(r), HeadersOf(m))
<1> DEFINE h == <<"Access-Control-Allow-Origin", <<r.headers["Origin"]>>>>
           g == <<"Access-Control-Allow-Origin", <<"*">>>>
           v == <<"Vary", <<"Origin">>>>
           names == {"Access-Control-Allow-Origin", "Vary"}
<1>0. h[1] \in names /\ g[1] \in names /\ v[1] \in names
  OBVIOUS
<1>1. AllowHeaders(r) = IF AnyOrigin(r) THEN <<g>> ELSE <<h, v>>
  BY DEF AllowHeaders
<1>2. \A m \in Modules \ {"cors"} : HeadersOf(m) \cap names = {}
  BY DEF HeadersOf
<1> HIDE DEF h, g, v, names
<1>3. <<h, v>> \in Seq({h, v}) /\ DOMAIN <<h, v>> = {1, 2} /\ <<h, v>>[1] = h /\ <<h, v>>[2] = v
  OBVIOUS
<1>4. Text(<<h, v>>)
  BY <1>3, SeqIsText
<1>5. Text(<<g>>) /\ DOMAIN <<g>> = {1} /\ <<g>>[1] = g
  BY OneHeader
<1>6. \A m \in Modules \ {"cors"} : Free(<<h, v>>, HeadersOf(m)) /\ Free(<<g>>, HeadersOf(m))
  BY <1>0, <1>2, <1>3, <1>5 DEF Free
<1> QED
  BY <1>1, <1>4, <1>5, <1>6

\* The rest of the answer to a preflight.
LEMMA PreflightRest ==
  ASSUME NEW methods, NEW headers
  PROVE  /\ Text(PreflightMethods(methods)) /\ Text(PreflightHeaders(headers))
         /\ \A m \in Modules : /\ Free(PreflightMethods(methods), HeadersOf(m))
                               /\ Free(PreflightHeaders(headers), HeadersOf(m))
<1> DEFINE x == <<"Access-Control-Allow-Methods", methods>>
           y == <<"Access-Control-Allow-Headers", <<headers>>>>
           names == {"Access-Control-Allow-Methods", "Access-Control-Allow-Headers"}
<1>0. x[1] \in names /\ y[1] \in names
  OBVIOUS
<1>1. \A m \in Modules : HeadersOf(m) \cap names = {}
  BY DEF HeadersOf
<1>2. <<>> \in Seq({}) /\ DOMAIN <<>> = {}
  OBVIOUS
<1>3. Text(<<>>)
  BY <1>2, SeqIsText
<1> HIDE DEF x, y, names
<1>4. /\ Text(<<x>>) /\ DOMAIN <<x>> = {1} /\ <<x>>[1] = x
      /\ Text(<<y>>) /\ DOMAIN <<y>> = {1} /\ <<y>>[1] = y
  BY OneHeader
<1>5. \A m \in Modules : /\ Free(<<x>>, HeadersOf(m)) /\ Free(<<y>>, HeadersOf(m))
                         /\ Free(<<>>, HeadersOf(m))
  BY <1>0, <1>1, <1>2, <1>4 DEF Free
<1> QED
  BY <1>3, <1>4, <1>5 DEF x, y, PreflightMethods, PreflightHeaders

\* What cors returns.
LEMMA CorsResult ==
  ASSUME config \in Configs, AllValid(config, "cors"), NEW r \in Requests,
         NEW res \in Results(config, "cors", r)
  PROVE  Result("cors", res)
<1>1. res = CorsHandle(Parsed(config, "cors"), r)
  BY DEF Results
<1>2. CASE ~Admitted(r, About(r))
  BY <1>1, <1>2, CorsOutcome, BareResult, FixedStatuses
<1>3. CASE Admitted(r, About(r)) /\ ~IsPreflight(r)
  <2>1. res = PassWith(AllowHeaders(r))
    BY <1>1, <1>3, CorsOutcome
  <2> QED
    BY <2>1, AllowHeadersShape DEF Result
<1>4. CASE Admitted(r, About(r)) /\ IsPreflight(r)
  <2>1. PICK methods, headers :
            res = RespondWith(204, (AllowHeaders(r) \o PreflightMethods(methods))
                                     \o PreflightHeaders(headers))
    BY <1>1, <1>4, CorsOutcome
  <2> DEFINE a == PreflightMethods(methods)
             b == PreflightHeaders(headers)
  <2>2. Text(a) /\ Text(b) /\ \A m \in Modules : Free(a, HeadersOf(m)) /\ Free(b, HeadersOf(m))
    BY PreflightRest
  <2>3. res = RespondWith(204, (AllowHeaders(r) \o a) \o b)
    BY <2>1
  <2> HIDE DEF a, b
  <2>4. Text(AllowHeaders(r) \o a) /\ Text((AllowHeaders(r) \o a) \o b)
    BY <2>2, AllowHeadersShape, TextConcat
  <2>5. \A m \in Modules \ {"cors"} : Free((AllowHeaders(r) \o a) \o b, HeadersOf(m))
    <3>1. ASSUME NEW m \in Modules \ {"cors"} PROVE Free((AllowHeaders(r) \o a) \o b, HeadersOf(m))
      <4>1. Free(AllowHeaders(r) \o a, HeadersOf(m))
        BY <2>2, AllowHeadersShape, FreeConcat
      <4> QED
        BY <2>2, <2>4, <4>1, FreeConcat
    <3> QED
      BY <3>1
  <2>6. 204 \in StatusCodes
    BY FixedStatuses
  <2> QED
    BY <2>3, <2>4, <2>5, <2>6 DEF Result
<1> QED
  BY <1>2, <1>3, <1>4

-----------------------------------------------------------------------------
(* jwt_auth.                                                               *)

\* A claim makes one header, or none if it is empty.
LEMMA ClaimHeaderShape ==
  ASSUME NEW name \in HeadersOf("jwt_auth"), NEW value
  PROVE  /\ Text(ClaimHeader(name, value))
         /\ \A m \in Modules \ {"jwt_auth"} : Free(ClaimHeader(name, value), HeadersOf(m))
<1> DEFINE h == <<name, value>>
<1>0. h[1] = name
  OBVIOUS
<1>1. <<>> \in Seq({}) /\ DOMAIN <<>> = {}
  OBVIOUS
<1>2. Text(<<>>)
  BY <1>1, SeqIsText
<1>3. \A m \in Modules \ {"jwt_auth"} : name \notin HeadersOf(m)
  BY DEF HeadersOf
<1>4. ClaimHeader(name, value) = IF value = <<>> THEN <<>> ELSE <<h>>
  BY DEF ClaimHeader
<1> HIDE DEF h
<1>5. Text(<<h>>) /\ DOMAIN <<h>> = {1} /\ <<h>>[1] = h
  BY OneHeader
<1> QED
  BY <1>0, <1>1, <1>2, <1>3, <1>4, <1>5 DEF Free

\* Only jwt_auth sets what it sets.
LEMMA ClaimHeadersShape ==
  ASSUME NEW claims
  PROVE  /\ Text(ClaimHeaders(claims))
         /\ \A m \in Modules \ {"jwt_auth"} : Free(ClaimHeaders(claims), HeadersOf(m))
<1> DEFINE a == ClaimHeader("X-Garcon-User-Id", claims.sub)
           b == ClaimHeader("X-Garcon-Roles", claims.roles)
           d == ClaimHeader("X-Garcon-Claim-iss", claims.iss)
           e == ClaimHeader("X-Garcon-Claim-aud", claims.aud)
<1>0. {"X-Garcon-User-Id", "X-Garcon-Roles", "X-Garcon-Claim-iss", "X-Garcon-Claim-aud"}
        \subseteq HeadersOf("jwt_auth")
  BY DEF HeadersOf
<1>1. Text(a) /\ Text(b) /\ Text(d) /\ Text(e)
  BY <1>0, ClaimHeaderShape
<1>2. \A m \in Modules \ {"jwt_auth"} : /\ Free(a, HeadersOf(m)) /\ Free(b, HeadersOf(m))
                                        /\ Free(d, HeadersOf(m)) /\ Free(e, HeadersOf(m))
  BY <1>0, ClaimHeaderShape
<1>3. ClaimHeaders(claims) = ((a \o b) \o d) \o e
  BY DEF ClaimHeaders
<1> HIDE DEF a, b, d, e
<1>4. Text(a \o b) /\ Text((a \o b) \o d) /\ Text(((a \o b) \o d) \o e)
  BY <1>1, TextConcat
<1>5. ASSUME NEW m \in Modules \ {"jwt_auth"} PROVE Free(((a \o b) \o d) \o e, HeadersOf(m))
  <2>1. Free(a \o b, HeadersOf(m))
    BY <1>1, <1>2, FreeConcat
  <2>2. Free((a \o b) \o d, HeadersOf(m))
    BY <1>1, <1>2, <1>4, <2>1, FreeConcat
  <2> QED
    BY <1>1, <1>2, <1>4, <2>2, FreeConcat
<1> QED
  BY <1>3, <1>4, <1>5

\* What jwt_auth returns.
LEMMA JwtResult ==
  ASSUME NEW c \in Configs, NEW r \in Requests, NEW res \in Results(c, "jwt_auth", r)
  PROVE  Result("jwt_auth", res)
<1>1. \/ res = PassWith(<<>>) \/ res = RespondWith(401, <<>>)
      \/ \E claims : res = PassWith(ClaimHeaders(claims))
  BY Zenon DEF Results, JwtHandle
<1>2. CASE res = PassWith(<<>>) \/ res = RespondWith(401, <<>>)
  BY <1>2, BareResult, FixedStatuses
<1>3. CASE \E claims : res = PassWith(ClaimHeaders(claims))
  BY <1>3, ClaimHeadersShape DEF Result
<1> QED
  BY <1>1, <1>2, <1>3

\* What the modules return.
LEMMA ResultShape ==
  ASSUME config \in Configs, NEW m \in Modules, AllValid(config, m), NEW r \in Requests,
         NEW res \in Results(config, m, r)
  PROVE  Result(m, res)
<1>1. CASE m \in {"host_guard", "header_guard", "route_table"}
  BY <1>1, BareResults
<1>2. CASE m = "router"
  BY <1>2, RouterResult
<1>3. CASE m = "cors"
  BY <1>3, CorsResult
<1>4. CASE m = "jwt_auth"
  BY <1>4, JwtResult
<1> QED
  BY <1>1, <1>2, <1>3, <1>4 DEF Modules

-----------------------------------------------------------------------------
(* The chain.                                                              *)

InChain == phase = "handling" \/ Answered

\* The request went through the modules before at: each of them passed it, its
\* own headers are pending once, and nothing else is pending under their names.
WentThrough ==
    /\ request \in Requests /\ Text(pending)
    /\ \A i \in 1..at - 1 : \E hs :
          /\ Text(hs) /\ PassWith(hs) \in Results(config, Order[i], request)
          /\ Holds(pending, hs, HeadersOf(Order[i]))
    /\ \A m \in Modules : (\A i \in 1..at - 1 : Order[i] # m) => Free(pending, HeadersOf(m))
    /\ at > 1 => \E before, hs :
          /\ Text(before) /\ Text(hs) /\ pending = before \o hs
          /\ PassWith(hs) \in Results(config, Order[at - 1], request)

\* The module at the position at answered, or nobody did.
AnsweredBy ==
    \/ at = Len(Order) + 1 /\ reply = [by |-> "rest", status |-> 404, headers |-> pending]
    \/ /\ at \in 1..Len(Order)
       /\ \E s \in StatusCodes : \E hs :
            /\ Text(hs) /\ RespondWith(s, hs) \in Results(config, Order[at], request)
            /\ reply = [by |-> Order[at], status |-> s, headers |-> hs \o pending]

ChainInv ==
    /\ config \in Configs /\ at \in 1..Len(Order) + 1 /\ DOMAIN rules = Modules
    /\ phase \in {"loading", "failed", "serving", "handling"}
    /\ \A m \in Modules : rules[m] = <<>> \/ (rules[m] = Parsed(config, m) /\ AllValid(config, m))
    /\ phase = "loading" => Loaded(at - 1)
    /\ phase \in {"serving", "handling"} => Loaded(Len(Order))
    /\ ~Answered => reply = NoReply
    /\ ~InChain => pending = <<>>
    /\ InChain => WentThrough
    /\ Answered => AnsweredBy

\* What is known of the order.
LEMMA OrderFacts ==
  /\ Len(Order) \in Nat /\ DOMAIN Order = 1..Len(Order)
  /\ \A i \in 1..Len(Order) : Order[i] \in Modules
  /\ \A i, j \in 1..Len(Order) : Order[i] = Order[j] => i = j
<1>1. Order \in Seq(Modules) /\ IsInjective(Order)
  BY OrderIsOfModules
<1>2. Len(Order) \in Nat /\ DOMAIN Order = 1..Len(Order) /\ \A i \in 1..Len(Order) : Order[i] \in Modules
  BY <1>1
<1> QED
  BY <1>1, <1>2 DEF IsInjective

\* The chain's invariant holds at the start.
LEMMA ChainInit == Init => ChainInv
<1> SUFFICES ASSUME Init PROVE ChainInv
  OBVIOUS
<1>1. /\ config \in Configs /\ at = 1 /\ rules = [m \in Modules |-> <<>>] /\ phase = "loading"
      /\ pending = <<>> /\ reply = NoReply
  BY DEF Init
<1>2. at \in 1..Len(Order) + 1 /\ 1..at - 1 = {}
  BY <1>1, OrderFacts
<1>3. Loaded(at - 1)
  BY <1>2 DEF Loaded
<1>4. ~Answered /\ ~InChain
  BY <1>1 DEF Answered, InChain
<1> QED
  BY <1>1, <1>2, <1>3, <1>4 DEF ChainInv

\* A module's constructor.
LEMMA ChainLoad == ChainInv /\ LoadModule => ChainInv'
<1> SUFFICES ASSUME ChainInv, LoadModule PROVE ChainInv'
  OBVIOUS
<1> DEFINE m == Order[at]
           good == AllValid(config, m)
<1>0. phase = "loading" /\ at <= Len(Order) /\ at \in 1..Len(Order) + 1 /\ Loaded(at - 1)
  BY DEF LoadModule, ChainInv
<1>1. Len(Order) \in Nat /\ at \in 1..Len(Order) /\ m \in Modules
  BY <1>0, OrderFacts
<1>2. UNCHANGED <<config, request, pending, reply>>
  BY DEF LoadModule
<1>3. \/ ~good /\ phase' = "failed" /\ UNCHANGED <<rules, at>>
      \/ good /\ rules' = [rules EXCEPT ![m] = Parsed(config, m)] /\ at' = at + 1 /\ UNCHANGED phase
  <2>1. \A i \in DOMAIN config.lines[m] : Parsed(config, m)[i] = Rule(m, config.lines[m][i])
    BY DEF Parsed
  <2>2. DOMAIN Parsed(config, m) = DOMAIN config.lines[m]
    BY DEF Parsed
  <2> HIDE DEF m
  <2>3. good <=> /\ \A i \in DOMAIN Parsed(config, m) : Parsed(config, m)[i].valid
                 /\ m = "jwt_auth" => JwtSettingsValid(config.jwt)
    BY <2>1, <2>2 DEF AllValid
  <2> HIDE DEF good
  <2> QED
    BY <2>3, Zenon DEF LoadModule, Parsed, m
<1>4. ~Answered /\ ~Answered' /\ ~InChain /\ ~InChain'
  BY <1>0, <1>3 DEF Answered, InChain
<1>5. reply = NoReply /\ pending = <<>>
  BY <1>4 DEF ChainInv
<1>6. CASE ~good /\ phase' = "failed" /\ UNCHANGED <<rules, at>>
  BY <1>0, <1>2, <1>4, <1>5, <1>6 DEF ChainInv
<1>7. CASE good /\ rules' = [rules EXCEPT ![m] = Parsed(config, m)] /\ at' = at + 1 /\ UNCHANGED phase
  <2>1. DOMAIN rules = Modules
    BY DEF ChainInv
  <2>2. rules'[m] = Parsed(config, m) /\ \A k \in Modules \ {m} : rules'[k] = rules[k]
    BY <1>1, <1>7, <2>1
  <2>3. DOMAIN rules' = Modules
    BY <1>7, <2>1
  <2> HIDE DEF m
  <2>4. \A k \in Modules : rules'[k] = <<>> \/ (rules'[k] = Parsed(config, k) /\ AllValid(config, k))
    BY <1>7, <2>2 DEF ChainInv
  <2>5. ASSUME NEW i \in 1..at
        PROVE  rules'[Order[i]] = Parsed(config, Order[i]) /\ AllValid(config, Order[i])
    <3>1. CASE i = at
      BY <1>7, <2>2, <3>1 DEF m
    <3>2. CASE i # at
      <4>1. i \in 1..at - 1 /\ i \in 1..Len(Order)
        BY <1>1, <3>2
      <4>2. Order[i] \in Modules \ {m}
        BY <1>1, <3>2, <4>1, OrderFacts DEF m
      <4> QED
        BY <1>0, <2>2, <4>1, <4>2 DEF Loaded
    <3> QED
      BY <3>1, <3>2
  <2>6. at' - 1 = at /\ at' \in 1..Len(Order) + 1
    BY <1>1, <1>7
  <2>7. Loaded(at - 1)'
    BY <1>2, <2>5, <2>6 DEF Loaded
  <2> QED
    BY <1>0, <1>2, <1>4, <1>5, <1>7, <2>3, <2>4, <2>6, <2>7 DEF ChainInv
<1> QED
  BY <1>3, <1>6, <1>7

\* The server starts, and a request comes.
LEMMA ChainStart ==
  ChainInv /\ (StartServing \/ \E r \in Requests : Begin(r)) => ChainInv'
<1>1. ASSUME ChainInv, StartServing PROVE ChainInv'
  <2>1. /\ phase = "loading" /\ at > Len(Order) /\ at \in 1..Len(Order) + 1 /\ Loaded(at - 1)
        /\ phase' = "serving" /\ UNCHANGED <<config, rules, at, request, pending, reply>>
    BY <1>1 DEF ChainInv, StartServing
  <2>2. at - 1 = Len(Order)
    BY <2>1, OrderFacts
  <2>3. ~Answered /\ ~InChain
    BY <2>1 DEF Answered, InChain
  <2>4. reply = NoReply /\ pending = <<>>
    BY <1>1, <2>3 DEF ChainInv
  <2>5. ~Answered' /\ ~InChain'
    BY <2>1, <2>4 DEF Answered, InChain, NoReply
  <2>6. Loaded(Len(Order))'
    BY <2>1, <2>2 DEF Loaded
  <2> QED
    BY <1>1, <2>1, <2>4, <2>5, <2>6 DEF ChainInv
<1>2. ASSUME ChainInv, NEW r \in Requests, Begin(r) PROVE ChainInv'
  <2>1. /\ phase = "serving" /\ reply = NoReply /\ request' = r /\ phase' = "handling" /\ at' = 1
        /\ UNCHANGED <<config, rules, pending, reply>>
    BY <1>2 DEF Begin
  <2>2. ~Answered /\ ~InChain /\ ~Answered' /\ InChain'
    BY <2>1 DEF Answered, InChain
  <2>3. pending = <<>> /\ Loaded(Len(Order))
    BY <1>2, <2>1, <2>2 DEF ChainInv
  <2>4. Text(<<>>) /\ DOMAIN <<>> = {}
    <3>1. <<>> \in Seq({}) /\ DOMAIN <<>> = {}
      OBVIOUS
    <3> QED
      BY <3>1, SeqIsText
  <2>5. 1..at' - 1 = {} /\ at' \in 1..Len(Order) + 1 /\ ~(at' > 1)
    BY <2>1, OrderFacts
  <2>6. WentThrough'
    BY <2>1, <2>3, <2>4, <2>5 DEF WentThrough, Free
  <2>7. Loaded(Len(Order))'
    BY <2>1, <2>3 DEF Loaded
  <2> QED
    BY <1>2, <2>1, <2>2, <2>5, <2>6, <2>7 DEF ChainInv
<1> QED
  BY <1>1, <1>2

\* The module whose turn it is returns one of its results.
LEMMA ModuleTurn ==
  ASSUME ChainInv, HostGuard \/ Router \/ RouteTable \/ Cors \/ HeaderGuard \/ JwtAuth
  PROVE  /\ phase = "handling" /\ at \in 1..Len(Order)
         /\ \E res \in Results(config, Order[at], request) : Take(Order[at], res)
<1>1. PICK m, res :
        /\ m \in Modules /\ Take(m, res)
        /\ \/ m = "host_guard" /\ res = HostGuardHandle(rules["host_guard"], request)
           \/ m = "router" /\ res = RouterHandle(rules["router"], request)
           \/ m = "route_table" /\ res = RouteTableHandle(rules["route_table"], request)
           \/ m = "cors" /\ res = CorsHandle(rules["cors"], request)
           \/ m = "header_guard" /\ res = HeaderGuardHandle(rules["header_guard"], request)
           \/ m = "jwt_auth" /\ res \in JwtHandle(rules["jwt_auth"], config.jwt, request)
  BY Zenon DEF HostGuard, Router, RouteTable, Cors, HeaderGuard, JwtAuth, Modules
<1>2. phase = "handling" /\ at <= Len(Order) /\ Order[at] = m
  BY <1>1 DEF Take
<1>3. at \in 1..Len(Order)
  BY <1>2, OrderFacts DEF ChainInv
<1>4. rules[m] = Parsed(config, m)
  BY <1>2, <1>3 DEF ChainInv, Loaded
<1>5. res \in Results(config, m, request)
  BY <1>1, <1>4 DEF Results
<1> QED
  BY <1>1, <1>2, <1>3, <1>5

\* A module passes a request on.
LEMMA ChainPass ==
  ASSUME ChainInv, phase = "handling", at \in 1..Len(Order),
         NEW hs, Text(hs), \A k \in Modules \ {Order[at]} : Free(hs, HeadersOf(k)),
         PassWith(hs) \in Results(config, Order[at], request),
         pending' = pending \o hs, at' = at + 1,
         UNCHANGED <<config, rules, phase, request, reply>>
  PROVE  ChainInv'
<1>1. InChain /\ ~Answered /\ InChain' /\ ~Answered'
  BY DEF InChain, Answered
<1>2. WentThrough
  BY <1>1 DEF ChainInv
<1>3. at' \in 1..Len(Order) + 1 /\ at' - 1 = at /\ at \in Nat \ {0}
  BY OrderFacts
<1>4. Text(pending) /\ Text(pending')
  BY <1>2, TextConcat DEF WentThrough
<1>5. \A i \in 1..at - 1 : Order[i] # Order[at]
  BY OrderFacts
<1>6. ASSUME NEW i \in 1..at
      PROVE  \E x : /\ Text(x) /\ PassWith(x) \in Results(config, Order[i], request)
                    /\ Holds(pending', x, HeadersOf(Order[i]))
  <2>1. CASE i = at
    <3>1. Free(pending, HeadersOf(Order[at]))
      BY <1>2, <1>5, OrderFacts DEF WentThrough
    <3>2. Holds(pending', hs, HeadersOf(Order[at]))
      BY <1>4, <3>1, HoldsNew
    <3> QED
      BY <2>1, <3>2
  <2>2. CASE i # at
    <3>1. i \in 1..at - 1 /\ i \in 1..Len(Order)
      BY <1>3, <2>2, OrderFacts
    <3>2. PICK x : /\ Text(x) /\ PassWith(x) \in Results(config, Order[i], request)
                   /\ Holds(pending, x, HeadersOf(Order[i]))
      BY <1>2, <3>1 DEF WentThrough
    <3>3. Free(hs, HeadersOf(Order[i]))
      BY <1>5, <3>1, OrderFacts
    <3>4. Holds(pending \o hs, x, HeadersOf(Order[i]))
      BY <1>4, <3>2, <3>3, HoldsAround
    <3> QED
      BY <3>2, <3>4
  <2> QED
    BY <2>1, <2>2
<1>7. ASSUME NEW m \in Modules, \A i \in 1..at : Order[i] # m PROVE Free(pending', HeadersOf(m))
  <2>1. m # Order[at] /\ \A i \in 1..at - 1 : Order[i] # m
    BY <1>3, <1>7
  <2>2. Free(pending, HeadersOf(m)) /\ Free(hs, HeadersOf(m))
    BY <1>2, <2>1 DEF WentThrough
  <2> QED
    BY <1>4, <2>2, FreeConcat
<1>8. \E before, x : /\ Text(before) /\ Text(x) /\ pending' = before \o x
                     /\ PassWith(x) \in Results(config, Order[at], request)
  BY <1>4
<1>9. WentThrough'
  BY <1>2, <1>3, <1>4, <1>6, <1>7, <1>8 DEF WentThrough
<1>10. Loaded(Len(Order))'
  BY DEF ChainInv, Loaded
<1> QED
  BY <1>1, <1>3, <1>9, <1>10 DEF ChainInv

\* A response leaves the chain as it is.
LEMMA ChainRespond ==
  ASSUME ChainInv, phase = "handling", phase' = "serving", reply' # NoReply, AnsweredBy',
         UNCHANGED <<config, rules, at, request, pending>>
  PROVE  ChainInv'
<1>1. InChain /\ ~Answered /\ InChain' /\ Answered'
  BY DEF InChain, Answered
<1>2. WentThrough
  BY <1>1 DEF ChainInv
<1>3. WentThrough'
  BY <1>2 DEF WentThrough
<1>4. Loaded(Len(Order))'
  BY DEF ChainInv, Loaded
<1> QED
  BY <1>1, <1>3, <1>4 DEF ChainInv

\* A module's turn.
LEMMA ChainModule ==
  ASSUME ChainInv, HostGuard \/ Router \/ RouteTable \/ Cors \/ HeaderGuard \/ JwtAuth
  PROVE  ChainInv'
<1>1. PICK res \in Results(config, Order[at], request) : Take(Order[at], res)
  BY ModuleTurn
<1>2. phase = "handling" /\ at \in 1..Len(Order) /\ Order[at] \in Modules
  BY ModuleTurn, OrderFacts
<1>3. config \in Configs /\ AllValid(config, Order[at]) /\ request \in Requests
  BY <1>2 DEF ChainInv, Loaded, InChain, WentThrough
<1>4. PICK hs : /\ Text(hs) /\ \A k \in Modules \ {Order[at]} : Free(hs, HeadersOf(k))
                /\ res = PassWith(hs) \/ \E s \in StatusCodes : res = RespondWith(s, hs)
  BY <1>2, <1>3, ResultShape DEF Result
<1>5. CASE res = PassWith(hs)
  <2>1. /\ pending' = pending \o hs /\ at' = at + 1
        /\ UNCHANGED <<config, rules, phase, request, reply>>
    BY <1>1, <1>5 DEF Take, PassWith
  <2> QED
    BY <1>1, <1>2, <1>4, <1>5, <2>1, ChainPass
<1>6. CASE \E s \in StatusCodes : res = RespondWith(s, hs)
  <2>1. PICK s \in StatusCodes : res = RespondWith(s, hs)
    BY <1>6
  <2>2. /\ reply' = [by |-> Order[at], status |-> s, headers |-> hs \o pending]
        /\ phase' = "serving" /\ UNCHANGED <<config, rules, at, request, pending>>
    BY <1>1, <2>1 DEF Take, RespondWith, Respond
  <2>3. "nobody" \notin Modules
    BY DEF Modules
  <2>4. reply' # NoReply
    BY <1>2, <2>2, <2>3 DEF NoReply
  <2>5. AnsweredBy'
    BY <1>1, <1>2, <1>4, <2>1, <2>2 DEF AnsweredBy
  <2> QED
    BY <1>2, <2>2, <2>4, <2>5, ChainRespond
<1> QED
  BY <1>4, <1>5, <1>6

\* Nobody answers.
LEMMA ChainEnd ==
  ASSUME ChainInv, EndOfChain
  PROVE  ChainInv'
<1>1. /\ phase = "handling" /\ at > Len(Order)
      /\ reply' = [by |-> "rest", status |-> 404, headers |-> pending]
      /\ phase' = "serving" /\ UNCHANGED <<config, rules, at, request, pending>>
  BY DEF EndOfChain, Respond
<1>2. at = Len(Order) + 1
  BY <1>1, OrderFacts DEF ChainInv
<1>3. reply' # NoReply
  BY <1>1 DEF NoReply
<1>4. AnsweredBy'
  BY <1>1, <1>2 DEF AnsweredBy
<1> QED
  BY <1>1, <1>3, <1>4, ChainRespond

\* Every step of the chain keeps its invariant.
LEMMA ChainStep == ChainInv /\ [Next]_vars => ChainInv'
<1> SUFFICES ASSUME ChainInv, [Next]_vars PROVE ChainInv'
  OBVIOUS
<1>1. CASE LoadModule
  BY <1>1, ChainLoad
<1>2. CASE StartServing \/ \E r \in Requests : Begin(r)
  BY <1>2, ChainStart
<1>3. CASE HostGuard \/ Router \/ RouteTable \/ Cors \/ HeaderGuard \/ JwtAuth
  BY <1>3, ChainModule
<1>4. CASE EndOfChain
  BY <1>4, ChainEnd
<1>5. CASE UNCHANGED vars
  <2>1. UNCHANGED <<config, rules, phase, at, request, pending, reply>>
    BY <1>5 DEF vars
  <2>2. (Answered' <=> Answered) /\ (InChain' <=> InChain)
    BY <2>1 DEF Answered, InChain
  <2>3. ASSUME NEW m PROVE Loaded(m)' <=> Loaded(m)
    BY <2>1 DEF Loaded
  <2>4. WentThrough' <=> WentThrough
    BY <2>1 DEF WentThrough
  <2>5. AnsweredBy' <=> AnsweredBy
    BY <2>1 DEF AnsweredBy
  <2>6. Loaded(at - 1)' <=> Loaded(at - 1)
    BY <2>1 DEF Loaded
  <2> QED
    BY <2>1, <2>2, <2>3, <2>4, <2>5, <2>6 DEF ChainInv
<1> QED
  BY <1>1, <1>2, <1>3, <1>4, <1>5 DEF Next

\* The chain of request_pipeline::handle over the bundled modules: a request is
\* at a module exactly if every module before it passed it, the headers of the
\* passes are pending once and under no other module's names, and the response
\* is that of the first module that responds, with the pending headers added.
THEOREM ChainCorrect == Spec => []ChainInv
  BY ChainInit, ChainStep, PTL DEF Spec

\* What a module that responds is known by.
LEMMA ReplyFacts ==
  ASSUME ChainInv
  PROVE  /\ reply.by # "nobody" => Answered
         /\ \A m \in Modules : reply.by = m =>
              /\ Answered /\ at \in 1..Len(Order) /\ Order[at] = m
              /\ \E s \in StatusCodes : \E hs :
                   /\ Text(hs) /\ RespondWith(s, hs) \in Results(config, m, request)
                   /\ reply.status = s /\ reply.headers = hs \o pending
         /\ Answered => reply.by \in Modules \cup {"rest"}
         /\ Answered /\ reply.by = "rest" =>
              at = Len(Order) + 1 /\ reply.status = 404 /\ reply.headers = pending
<1>1. ~Answered => reply.by = "nobody"
  BY DEF ChainInv, NoReply
<1>2. "nobody" \notin Modules /\ "rest" \notin Modules
  BY DEF Modules
<1>3. Answered => AnsweredBy
  BY DEF ChainInv
<1>4. CASE ~Answered
  BY <1>1, <1>2, <1>4
<1>5. CASE Answered /\ at = Len(Order) + 1
                    /\ reply = [by |-> "rest", status |-> 404, headers |-> pending]
  BY <1>2, <1>5
<1>6. CASE /\ Answered /\ at \in 1..Len(Order)
           /\ \E s \in StatusCodes : \E hs :
                /\ Text(hs) /\ RespondWith(s, hs) \in Results(config, Order[at], request)
                /\ reply = [by |-> Order[at], status |-> s, headers |-> hs \o pending]
  <2>1. PICK s, hs :
                /\ s \in StatusCodes
                /\ Text(hs) /\ RespondWith(s, hs) \in Results(config, Order[at], request)
                /\ reply = [by |-> Order[at], status |-> s, headers |-> hs \o pending]
    BY <1>6
  <2>2. reply.by = Order[at] /\ reply.status = s /\ reply.headers = hs \o pending
    BY <2>1
  <2>3. Order[at] \in Modules
    BY <1>6, OrderFacts
  <2>4. ASSUME NEW m \in Modules, reply.by = m
        PROVE  /\ Answered /\ at \in 1..Len(Order) /\ Order[at] = m
               /\ \E x \in StatusCodes : \E y :
                    /\ Text(y) /\ RespondWith(x, y) \in Results(config, m, request)
                    /\ reply.status = x /\ reply.headers = y \o pending
    BY <1>6, <2>1, <2>2, <2>4
  <2> QED
    BY <1>2, <1>6, <2>2, <2>3, <2>4
<1> QED
  BY <1>3, <1>4, <1>5, <1>6 DEF AnsweredBy

\* A module that passed a request on.
LEMMA PassFacts ==
  ASSUME ChainInv, NEW m \in Modules, Passed(m)
  PROVE  /\ request \in Requests /\ config \in Configs /\ AllValid(config, m) /\ Text(pending)
         /\ \E hs : /\ Text(hs) /\ PassWith(hs) \in Results(config, m, request)
                    /\ Holds(pending, hs, HeadersOf(m))
<1>1. InChain /\ \E i \in 1..at - 1 : Order[i] = m
  BY DEF Passed, InChain
<1>2. PICK i \in 1..at - 1 : Order[i] = m
  BY <1>1
<1>3. WentThrough /\ config \in Configs /\ Loaded(Len(Order)) /\ at \in 1..Len(Order) + 1
  BY <1>1 DEF ChainInv, InChain, Answered
<1>4. i \in 1..Len(Order)
  BY <1>3, OrderFacts
<1> QED
  BY <1>2, <1>3, <1>4 DEF WentThrough, Loaded

\* A module that answered.
LEMMA AnswerFacts ==
  ASSUME ChainInv, Answered
  PROVE  /\ request \in Requests /\ config \in Configs /\ Text(pending)
         /\ \A m \in Modules : reply.by = m => AllValid(config, m) /\ ~Passed(m)
<1>1. WentThrough /\ config \in Configs /\ Loaded(Len(Order)) /\ at \in 1..Len(Order) + 1
  BY DEF ChainInv, InChain, Answered
<1>2. ASSUME NEW m \in Modules, reply.by = m PROVE AllValid(config, m) /\ ~Passed(m)
  <2>1. at \in 1..Len(Order) /\ Order[at] = m
    BY <1>2, ReplyFacts
  <2>2. \A i \in 1..at - 1 : Order[i] # m
    BY <2>1, OrderFacts
  <2> QED
    BY <1>1, <2>1, <2>2 DEF Loaded, Passed
<1> QED
  BY <1>1, <1>2 DEF WentThrough

\* Before its turn, or without one, no header of a module is pending.
LEMMA NotPassedFree ==
  ASSUME ChainInv, Answered, NEW m \in Modules, ~Passed(m)
  PROVE  Free(pending, HeadersOf(m))
<1>1. WentThrough
  BY DEF ChainInv, InChain
<1>2. \A i \in 1..at - 1 : Order[i] # m
  BY DEF Passed
<1> QED
  BY <1>1, <1>2 DEF WentThrough

\* The variables have their types: every rule a module works with is a valid one
\* made of one of its lines, none is left out once the server serves, and every
\* status a module sends is one of three digits.
THEOREM TypeCorrect == Spec => []TypeOK
<1>1. ASSUME ChainInv PROVE TypeOK
  <2>1. /\ config \in Configs /\ at \in 1..Len(Order) + 1
        /\ phase \in {"loading", "failed", "serving", "handling"}
    BY <1>1 DEF ChainInv
  <2>2. ASSUME NEW m \in Modules, NEW i \in DOMAIN rules[m] PROVE rules[m][i].valid
    <3>1. rules[m] # <<>>
      BY <2>2
    <3>2. rules[m] = Parsed(config, m) /\ AllValid(config, m)
      BY <1>1, <3>1 DEF ChainInv
    <3> QED
      BY <2>1, <2>2, <3>2, LinesValid
  <2>3. ASSUME phase \in {"serving", "handling"}, NEW m \in Range(Order)
        PROVE  Len(rules[m]) = Len(config.lines[m])
    <3>1. PICK i \in 1..Len(Order) : Order[i] = m
      BY OrderFacts DEF Range
    <3>2. rules[m] = Parsed(config, m) /\ AllValid(config, m) /\ m \in Modules
      BY <1>1, <2>3, <3>1, OrderFacts DEF ChainInv, Loaded
    <3>3. Len(config.lines[m]) \in Nat /\ DOMAIN Parsed(config, m) = 1..Len(config.lines[m])
      BY <2>1, <3>2, LinesValid
    <3>4. Parsed(config, m) = [k \in 1..Len(config.lines[m]) |-> Parsed(config, m)[k]]
      BY <3>3 DEF Parsed
    <3>5. Len(Parsed(config, m)) = Len(config.lines[m])
      BY <3>3, <3>4, TextMade
    <3> QED
      BY <3>2, <3>5
  <2>4. reply.status \in {0} \cup StatusCodes
    <3>1. CASE ~Answered
      BY <1>1, <3>1 DEF ChainInv, NoReply
    <3>2. CASE Answered /\ reply.by = "rest"
      BY <1>1, <3>2, ReplyFacts, FixedStatuses
    <3>3. CASE Answered /\ reply.by # "rest"
      BY <1>1, <3>3, ReplyFacts
    <3> QED
      BY <3>1, <3>2, <3>3
  <2> QED
    BY <2>1, <2>2, <2>3, <2>4 DEF TypeOK
<1> QED
  BY <1>1, ChainCorrect, PTL

-----------------------------------------------------------------------------
(* Preflights.                                                             *)

\* cors is in the chain, before the modules that ask for a key or a token.
CorsBeforeCredentials ==
    \E i \in 1..Len(Order) :
        Order[i] = "cors" /\ \A k \in 1..i - 1 : Order[k] \notin {"header_guard", "jwt_auth"}

\* In such an order a preflight of an admitted origin is answered by cors, or by
\* a module in front of it that has the request's host or target in its lines.
THEOREM PreflightsCorrect ==
  ASSUME CorsBeforeCredentials PROVE Spec => []PreflightNeedsNoCredentials
<1>1. ASSUME ChainInv PROVE PreflightNeedsNoCredentials
  <2>1. SUFFICES ASSUME Answered, IsPreflight(request), Admitted(request, About(request))
                 PROVE  reply.by \in {"host_guard", "router", "route_table"} \/ reply.status = 204
    BY DEF PreflightNeedsNoCredentials, About
  <2>2. PICK i \in 1..Len(Order) :
          Order[i] = "cors" /\ \A k \in 1..i - 1 : Order[k] \notin {"header_guard", "jwt_auth"}
    BY DEF CorsBeforeCredentials
  <2>3. "cors" \in Modules
    BY DEF Modules
  <2>4. config \in Configs /\ request \in Requests
    BY <1>1, <2>1, AnswerFacts
  <2>5. ASSUME AllValid(config, "cors"), NEW res \in Results(config, "cors", request)
        PROVE  res.outcome = "respond" /\ res.status = 204
    <3>1. res = CorsHandle(Parsed(config, "cors"), request)
      BY <2>5 DEF Results
    <3>2. \E hs : res = RespondWith(204, hs)
      BY <2>1, <2>4, <2>5, <3>1, CorsOutcome
    <3> QED
      BY <3>2 DEF RespondWith
  <2>6. ~Passed("cors")
    <3>1. SUFFICES ASSUME Passed("cors") PROVE FALSE
      OBVIOUS
    <3>2. PICK hs : AllValid(config, "cors") /\ PassWith(hs) \in Results(config, "cors", request)
      BY <1>1, <2>3, <3>1, PassFacts
    <3>3. PassWith(hs).outcome = "respond"
      BY <2>5, <3>2
    <3> QED
      BY <3>3 DEF PassWith
  <2>7. at \in 1..Len(Order) + 1 /\ Len(Order) \in Nat
    BY <1>1, OrderFacts DEF ChainInv
  <2>8. at <= i
    <3>1. ~(i \in 1..at - 1)
      BY <2>1, <2>2, <2>6 DEF Passed
    <3> QED
      BY <2>7, <3>1
  <2>9. reply.by \in Modules /\ Order[at] = reply.by /\ at \in 1..Len(Order)
    BY <1>1, <2>1, <2>7, <2>8, ReplyFacts
  <2>10. CASE at = i
    <3>1. PICK s, hs : /\ s \in StatusCodes /\ reply.status = s
                       /\ RespondWith(s, hs) \in Results(config, "cors", request)
      BY <1>1, <2>2, <2>3, <2>9, <2>10, ReplyFacts
    <3>2. AllValid(config, "cors")
      BY <1>1, <2>1, <2>2, <2>3, <2>9, <2>10, AnswerFacts
    <3>3. RespondWith(s, hs).status = 204
      BY <2>5, <3>1, <3>2
    <3> QED
      BY <3>1, <3>3 DEF RespondWith
  <2>11. CASE at # i
    <3>1. at \in 1..i - 1
      BY <2>7, <2>8, <2>11
    <3>2. Order[at] # "cors"
      BY <2>2, <2>9, <2>11, OrderFacts
    <3> QED
      BY <2>2, <2>9, <3>1, <3>2 DEF Modules
  <2> QED
    BY <2>10, <2>11
<1> QED
  BY <1>1, ChainCorrect, PTL

-----------------------------------------------------------------------------
(* Cross-origin reads.                                                     *)

\* Free headers alone hold nothing.
LEMMA HoldsNothing ==
  ASSUME NEW names, NEW hs, Text(hs), Free(hs, names)
  PROVE  Holds(hs, <<>>, names)
<1>1. DOMAIN <<>> = {} /\ 0 \in Nat
  OBVIOUS
<1> QED
  BY <1>1 DEF Free, Holds

\* What a response has of cors' headers is what the line for the request says.
LEMMA ReplyHolds ==
  ASSUME ChainInv, Answered, Passed("cors") \/ reply.by = "cors"
  PROVE  Holds(reply.headers,
               IF Admitted(request, About(request)) THEN AllowHeaders(request) ELSE <<>>,
               HeadersOf("cors"))
<1> DEFINE names == HeadersOf("cors")
           want == IF Admitted(request, About(request)) THEN AllowHeaders(request) ELSE <<>>
           res == CorsHandle(Parsed(config, "cors"), request)
<1>0. "cors" \in Modules
  BY DEF Modules
<1>1. config \in Configs /\ request \in Requests /\ Text(pending)
  BY AnswerFacts
<1>2. Text(<<>>)
  <2>1. <<>> \in Seq({})
    OBVIOUS
  <2> QED
    BY <2>1, SeqIsText
<1>3. Text(want)
  BY <1>2, AllowHeadersShape
<1>4. Results(config, "cors", request) = {res}
  BY DEF Results
<1>5. CASE Passed("cors")
  <2>1. PICK x : /\ AllValid(config, "cors") /\ PassWith(x) = res
                 /\ Text(x) /\ Holds(pending, x, names)
    BY <1>0, <1>4, <1>5, PassFacts
  <2>2. x = want
    <3>1. CASE ~Admitted(request, About(request))
      <4>1. res = PassWith(<<>>) \/ res \in {RespondWith(403, <<>>), RespondWith(405, <<>>)}
        BY <1>1, <2>1, <3>1, CorsOutcome
      <4> QED
        BY <2>1, <3>1, <4>1 DEF PassWith, RespondWith
    <3>2. CASE Admitted(request, About(request)) /\ ~IsPreflight(request)
      <4>1. res = PassWith(AllowHeaders(request))
        BY <1>1, <2>1, <3>2, CorsOutcome
      <4> QED
        BY <2>1, <3>2, <4>1 DEF PassWith
    <3>3. CASE Admitted(request, About(request)) /\ IsPreflight(request)
      <4>1. \E hs : res = RespondWith(204, hs)
        BY <1>1, <2>1, <3>3, CorsOutcome
      <4> QED
        BY <2>1, <4>1 DEF PassWith, RespondWith
    <3> QED
      BY <3>1, <3>2, <3>3
  <2>3. CASE reply.by = "rest"
    <3>1. reply.headers = pending
      BY <2>3, ReplyFacts
    <3> QED
      BY <2>1, <2>2, <3>1
  <2>4. CASE reply.by # "rest"
    <3> DEFINE m == reply.by
    <3>1. m \in Modules /\ AllValid(config, m) /\ ~Passed(m)
      BY <2>4, AnswerFacts, ReplyFacts
    <3>2. m # "cors"
      BY <1>5, <3>1
    <3> HIDE DEF m
    <3>3. PICK s, hs :
            /\ s \in StatusCodes /\ RespondWith(s, hs) \in Results(config, m, request)
            /\ reply.headers = hs \o pending
      BY <3>1, ReplyFacts DEF m
    <3>4. Result(m, RespondWith(s, hs))
      BY <1>1, <3>1, <3>3, ResultShape
    <3>5. Text(hs) /\ Free(hs, names)
      <4>1. PICK y : /\ Text(y) /\ \A k \in Modules \ {m} : Free(y, HeadersOf(k))
                     /\ \/ RespondWith(s, hs) = PassWith(y)
                        \/ \E u \in StatusCodes : RespondWith(s, hs) = RespondWith(u, y)
        BY <3>4 DEF Result
      <4>2. hs = y
        BY <4>1 DEF PassWith, RespondWith
      <4> QED
        BY <1>0, <3>2, <4>1, <4>2
    <3>6. Holds(hs \o pending, x, names)
      BY <1>1, <2>1, <3>5, HoldsAround
    <3> QED
      BY <2>2, <3>3, <3>6
  <2> QED
    BY <2>3, <2>4
<1>6. CASE reply.by = "cors"
  <2>1. AllValid(config, "cors") /\ ~Passed("cors")
    BY <1>0, <1>6, AnswerFacts
  <2>2. Free(pending, names)
    BY <1>0, <2>1, NotPassedFree
  <2>3. PICK s, x : RespondWith(s, x) = res /\ Text(x) /\ reply.headers = x \o pending
    BY <1>0, <1>4, <1>6, ReplyFacts
  <2>4. Holds(x, want, names)
    <3>1. CASE ~Admitted(request, About(request))
      <4>1. res = PassWith(<<>>) \/ res \in {RespondWith(403, <<>>), RespondWith(405, <<>>)}
        BY <1>1, <2>1, <3>1, CorsOutcome
      <4>2. x = <<>>
        BY <2>3, <4>1 DEF PassWith, RespondWith
      <4>3. Free(<<>>, names)
        BY DEF Free
      <4> QED
        BY <1>2, <3>1, <4>2, <4>3, HoldsNothing
    <3>2. CASE Admitted(request, About(request)) /\ ~IsPreflight(request)
      <4>1. res = PassWith(AllowHeaders(request))
        BY <1>1, <2>1, <3>2, CorsOutcome
      <4> QED
        BY <2>3, <4>1 DEF PassWith, RespondWith
    <3>3. CASE Admitted(request, About(request)) /\ IsPreflight(request)
      <4>1. PICK methods, headers :
              res = RespondWith(204, (AllowHeaders(request) \o PreflightMethods(methods))
                                       \o PreflightHeaders(headers))
        BY <1>1, <2>1, <3>3, CorsOutcome
      <4> DEFINE a == PreflightMethods(methods)
                 b == PreflightHeaders(headers)
      <4>2. Text(a) /\ Text(b) /\ Free(a, names) /\ Free(b, names)
        BY <1>0, PreflightRest
      <4>3. x = (want \o a) \o b
        BY <2>3, <3>3, <4>1 DEF RespondWith
      <4> HIDE DEF a, b, want
      <4>4. Holds(want, want, names)
        <5>1. \A i \in DOMAIN want : 0 + i = i /\ i - 0 = i
          <6>1. DOMAIN want = 1..Len(want) /\ Len(want) \in Nat
            BY <1>3, TextFacts
          <6> QED
            BY <6>1
        <5> QED
          BY <5>1 DEF Holds
      <4>5. Holds(want \o a, want, names) /\ Text(want \o a)
        BY <1>3, <4>2, <4>4, HoldsAround, TextConcat
      <4>6. Holds((want \o a) \o b, want, names)
        BY <1>3, <4>2, <4>5, HoldsAround
      <4> QED
        BY <4>3, <4>6
    <3> QED
      BY <3>1, <3>2, <3>3
  <2> HIDE DEF want
  <2>5. Holds(x \o pending, want, names)
    BY <1>1, <1>3, <2>2, <2>3, <2>4, HoldsAround
  <2> QED
    BY <2>3, <2>5 DEF want
<1> QED
  BY <1>5, <1>6

\* A page of an admitted origin can read every answer from cors on, and no other
\* page can, in any order of the modules.
THEOREM CrossOriginCorrect == Spec => []CrossOriginReadable
<1>1. ASSUME ChainInv PROVE CrossOriginReadable
  <2> DEFINE any == "*" \in Range(CorsLine(request)[2])
             adm == Admitted(request, About(request))
             acao == "Access-Control-Allow-Origin"
             vary == "Vary"
  <2>1. SUFFICES ASSUME Answered, Passed("cors") \/ reply.by = "cors"
                 PROVE  /\ ~adm => Named(acao) = {}
                        /\ adm =>
                             /\ Cardinality(Named(acao)) = 1
                             /\ \A i \in Named(acao) :
                                  reply.headers[i][2] = IF any THEN <<"*">> ELSE <<request.headers["Origin"]>>
                             /\ Cardinality(Named(vary)) = IF any THEN 0 ELSE 1
    BY DEF CrossOriginReadable, About
  <2>2. HeadersOf("cors") = {acao, vary}
    BY DEF HeadersOf
  <2>3. Holds(reply.headers, IF adm THEN AllowHeaders(request) ELSE <<>>, {acao, vary})
    BY <1>1, <2>1, <2>2, ReplyHolds
  <2>4. /\ Named(acao) = {i \in DOMAIN reply.headers : reply.headers[i][1] = acao}
        /\ Named(vary) = {i \in DOMAIN reply.headers : reply.headers[i][1] = vary}
    BY DEF Named
  <2>5. acao # vary
    OBVIOUS
  <2>6. DOMAIN reply.headers \subseteq Int
    <3>1. Text(reply.headers)
      <4>1. Text(pending)
        BY <1>1, <2>1, AnswerFacts
      <4>2. CASE reply.by = "rest"
        BY <1>1, <2>1, <4>1, <4>2, ReplyFacts
      <4>3. CASE reply.by # "rest"
        <5>1. \E hs : Text(hs) /\ reply.headers = hs \o pending
          BY <1>1, <2>1, <4>3, ReplyFacts
        <5> QED
          BY <4>1, <5>1, TextConcat
      <4> QED
        BY <4>2, <4>3
    <3>2. DOMAIN reply.headers = 1..Len(reply.headers)
      BY <3>1, TextFacts
    <3> QED
      BY <3>2
  <2>7. ASSUME ~adm PROVE Named(acao) = {}
    <3>1. Holds(reply.headers, <<>>, {acao, vary})
      BY <2>3, <2>7
    <3>2. DOMAIN <<>> = {}
      OBVIOUS
    <3> QED
      BY <2>4, <3>1, <3>2 DEF Holds
  <2>8. ASSUME adm, any
        PROVE  /\ Cardinality(Named(acao)) = 1
               /\ \A i \in Named(acao) : reply.headers[i][2] = <<"*">>
               /\ Cardinality(Named(vary)) = 0
    <3> DEFINE g == <<acao, <<"*">>>>
    <3>1. Holds(reply.headers, <<g>>, {acao, vary})
      BY <2>3, <2>8 DEF AllowHeaders, AnyOrigin
    <3>2. g[1] = acao /\ g[2] = <<"*">>
      OBVIOUS
    <3> HIDE DEF g, acao, vary
    <3>3. DOMAIN <<g>> = {1} /\ <<g>>[1] = g
      OBVIOUS
    <3>4. PICK d \in Nat :
            /\ d + 1 \in DOMAIN reply.headers /\ reply.headers[d + 1] = g
            /\ \A k \in DOMAIN reply.headers : reply.headers[k][1] \in {acao, vary} => k - d = 1
      BY <3>1, <3>3 DEF Holds
    <3>5. \A k \in DOMAIN reply.headers : reply.headers[k][1] \in {acao, vary} => k = d + 1
      BY <2>6, <3>4
    <3>6. Named(acao) = {d + 1}
      BY <2>4, <3>2, <3>4, <3>5
    <3>7. Named(vary) = {}
      BY <2>4, <2>5, <3>2, <3>4, <3>5
    <3> QED
      BY <3>2, <3>4, <3>6, <3>7, FS_Singleton, FS_EmptySet
  <2>9. ASSUME adm, ~any
        PROVE  /\ Cardinality(Named(acao)) = 1
               /\ \A i \in Named(acao) : reply.headers[i][2] = <<request.headers["Origin"]>>
               /\ Cardinality(Named(vary)) = 1
    <3> DEFINE g == <<acao, <<request.headers["Origin"]>>>>
               v == <<vary, <<"Origin">>>>
    <3>1. Holds(reply.headers, <<g, v>>, {acao, vary})
      BY <2>3, <2>9 DEF AllowHeaders, AnyOrigin
    <3>2. g[1] = acao /\ g[2] = <<request.headers["Origin"]>> /\ v[1] = vary
      OBVIOUS
    <3> HIDE DEF g, v, acao, vary
    <3>3. DOMAIN <<g, v>> = {1, 2} /\ <<g, v>>[1] = g /\ <<g, v>>[2] = v
      OBVIOUS
    <3>4. PICK d \in Nat :
            /\ d + 1 \in DOMAIN reply.headers /\ reply.headers[d + 1] = g
            /\ d + 2 \in DOMAIN reply.headers /\ reply.headers[d + 2] = v
            /\ \A k \in DOMAIN reply.headers : reply.headers[k][1] \in {acao, vary} => k - d \in {1, 2}
      BY <3>1, <3>3 DEF Holds
    <3>5. \A k \in DOMAIN reply.headers : reply.headers[k][1] \in {acao, vary} => k \in {d + 1, d + 2}
      BY <2>6, <3>4
    <3>6. Named(acao) = {d + 1}
      BY <2>4, <2>5, <3>2, <3>4, <3>5
    <3>7. Named(vary) = {d + 2}
      BY <2>4, <2>5, <3>2, <3>4, <3>5
    <3> QED
      BY <3>2, <3>4, <3>6, <3>7, FS_Singleton
  <2> QED
    BY <2>7, <2>8, <2>9
<1> QED
  BY <1>1, ChainCorrect, PTL

-----------------------------------------------------------------------------
(* Beginnings and ends of texts.                                           *)

\* Texts are equal that have the same words.
LEMMA TextEqual ==
  ASSUME NEW s, NEW t, Text(s), Text(t), Len(s) = Len(t), \A i \in 1..Len(s) : s[i] = t[i]
  PROVE  s = t
<1>1. s = [i \in 1..Len(s) |-> s[i]] /\ t = [i \in 1..Len(t) |-> t[i]]
  BY TextFacts
<1> QED
  BY <1>1

\* A text is the beginning of another.
LEMMA PrefixFacts ==
  ASSUME NEW s, NEW t, Text(s), Text(t)
  PROVE  IsPrefix(s, t) <=> Len(s) <= Len(t) /\ \A i \in 1..Len(s) : s[i] = t[i]
<1> DEFINE n == Len(s)
<1>1. n \in Nat /\ Len(t) \in Nat
  BY TextFacts
<1>2. ASSUME NEW u PROVE SubSeq(u, 1, n) = [i \in 1..n |-> u[i]]
  <2>1. SubSeq(u, 1, n) = [i \in 1..n - 1 + 1 |-> u[i + 1 - 1]]
    BY DEF SubSeq
  <2>2. n - 1 + 1 = n /\ \A i \in 1..n : i + 1 - 1 = i
    BY <1>1
  <2> HIDE DEF n
  <2> QED
    BY <2>1, <2>2
<1>3. IsPrefix(s, t) <=> n <= Len(t) /\ SubSeq(s, 1, n) = SubSeq(t, 1, n)
  BY DEF IsPrefix
<1>4. SubSeq(s, 1, n) = [i \in 1..n |-> s[i]] /\ SubSeq(t, 1, n) = [i \in 1..n |-> t[i]]
  BY <1>2
<1> HIDE DEF n
<1>5. [i \in 1..n |-> s[i]] = [i \in 1..n |-> t[i]] <=> \A i \in 1..n : s[i] = t[i]
  <2>1. ASSUME [i \in 1..n |-> s[i]] = [i \in 1..n |-> t[i]], NEW i \in 1..n PROVE s[i] = t[i]
    <3>1. [j \in 1..n |-> s[j]][i] = [j \in 1..n |-> t[j]][i]
      BY <2>1
    <3> QED
      BY <3>1
  <2> QED
    BY <2>1
<1> QED
  BY <1>3, <1>4, <1>5 DEF n

\* A text is the end of another.
LEMMA SuffixFacts ==
  ASSUME NEW s, NEW t, Text(s), Text(t)
  PROVE  IsSuffix(s, t) <=>
            Len(s) <= Len(t) /\ \A i \in 1..Len(s) : s[i] = t[Len(t) - Len(s) + i]
<1> DEFINE n == Len(s)
           k == Len(t)
           a == Reverse(s)
           b == Reverse(t)
<1>1. n \in Nat /\ k \in Nat
  BY TextFacts
<1>2. a = [i \in 1..n |-> s[(n - i) + 1]] /\ b = [i \in 1..k |-> t[(k - i) + 1]]
  BY DEF Reverse
<1> HIDE DEF a, b, n, k
<1>3. /\ DOMAIN a = 1..n /\ a = [i \in 1..n |-> a[i]]
      /\ DOMAIN b = 1..k /\ b = [i \in 1..k |-> b[i]]
  BY <1>2
<1>4. Text(a) /\ Len(a) = n /\ Text(b) /\ Len(b) = k
  BY <1>1, <1>3, TextMade
<1>5. IsSuffix(s, t) <=> n <= k /\ \A i \in 1..n : a[i] = b[i]
  <2>1. IsPrefix(a, b) <=> n <= k /\ \A i \in 1..n : a[i] = b[i]
    BY <1>4, PrefixFacts
  <2> QED
    BY <2>1 DEF IsSuffix, a, b
<1>6. ASSUME n <= k
      PROVE  (\A i \in 1..n : a[i] = b[i]) <=> (\A i \in 1..n : s[i] = t[k - n + i])
  <2>1. \A i \in 1..n : /\ a[i] = s[(n - i) + 1] /\ b[i] = t[(k - i) + 1]
                        /\ (n - i) + 1 \in 1..n /\ (n - ((n - i) + 1)) + 1 = i
                        /\ k - n + ((n - i) + 1) = (k - i) + 1
    BY <1>1, <1>2, <1>6
  <2>2. ASSUME \A i \in 1..n : a[i] = b[i], NEW i \in 1..n PROVE s[i] = t[k - n + i]
    <3> DEFINE j == (n - i) + 1
    <3>1. j \in 1..n /\ (n - j) + 1 = i
      BY <2>1
    <3>2. k - n + i = (k - j) + 1
      BY <1>1
    <3> HIDE DEF j
    <3>3. a[j] = s[i] /\ b[j] = t[(k - j) + 1] /\ a[j] = b[j]
      BY <2>1, <2>2, <3>1
    <3> QED
      BY <3>2, <3>3
  <2>3. ASSUME \A i \in 1..n : s[i] = t[k - n + i], NEW i \in 1..n PROVE a[i] = b[i]
    BY <2>1, <2>3
  <2> QED
    BY <2>2, <2>3
<1> QED
  BY <1>5, <1>6 DEF n, k

\* Lower case changes no length, and no word to or from a mark.
LowerOf(w) == IF w \in DOMAIN LowerCase THEN LowerCase[w] ELSE w
LEMMA LowerFacts ==
  ASSUME NEW s, Text(s)
  PROVE  /\ Text(Lower(s)) /\ Len(Lower(s)) = Len(s)
         /\ \A i \in 1..Len(s) : /\ Lower(s)[i] = LowerOf(s[i])
                                 /\ Lower(s)[i] = "*" <=> s[i] = "*"
                                 /\ Lower(s)[i] = "." <=> s[i] = "."
<1>1. Len(s) \in Nat /\ DOMAIN s = 1..Len(s)
  BY TextFacts
<1>2. Lower(s) = [i \in 1..Len(s) |-> LowerOf(s[i])]
  BY <1>1 DEF Lower, LowerOf
<1>3. DOMAIN Lower(s) = 1..Len(s) /\ \A i \in 1..Len(s) : Lower(s)[i] = LowerOf(s[i])
  BY <1>2
<1>4. Lower(s) = [i \in 1..Len(s) |-> Lower(s)[i]]
  BY <1>2, <1>3
<1>5. Text(Lower(s)) /\ Len(Lower(s)) = Len(s)
  BY <1>1, <1>3, <1>4, TextMade
<1>6. \A w : (LowerOf(w) = "*" <=> w = "*") /\ (LowerOf(w) = "." <=> w = ".")
  BY MarksHaveNoCase DEF LowerOf
<1> QED
  BY <1>3, <1>5, <1>6

\* Texts agree in lower case word by word.
LEMMA LowerEqual ==
  ASSUME NEW s, NEW t, Text(s), Text(t)
  PROVE  Lower(s) = Lower(t) <=>
            Len(s) = Len(t) /\ \A i \in 1..Len(s) : LowerOf(s[i]) = LowerOf(t[i])
<1>1. /\ Text(Lower(s)) /\ Len(Lower(s)) = Len(s) /\ \A i \in 1..Len(s) : Lower(s)[i] = LowerOf(s[i])
      /\ Text(Lower(t)) /\ Len(Lower(t)) = Len(t) /\ \A i \in 1..Len(t) : Lower(t)[i] = LowerOf(t[i])
  BY LowerFacts
<1>2. ASSUME Lower(s) = Lower(t)
      PROVE  Len(s) = Len(t) /\ \A i \in 1..Len(s) : LowerOf(s[i]) = LowerOf(t[i])
  BY <1>1, <1>2
<1>3. ASSUME Len(s) = Len(t), \A i \in 1..Len(s) : LowerOf(s[i]) = LowerOf(t[i])
      PROVE  Lower(s) = Lower(t)
  BY <1>1, <1>3, TextEqual
<1> QED
  BY <1>2, <1>3

-----------------------------------------------------------------------------
(* The guards.                                                             *)

\* The part of a Host value that names the host is what normalize_host_header
\* keeps, in lower case.
LEMMA HostNormalized ==
  ASSUME NEW r \in Requests
  PROVE  NormalizeHost(r.host) = Lower(r.hostName)
<1> DEFINE host == r.host
           name == r.hostName
           n == Len(name)
           k == Len(host)
           colons == {i \in DOMAIN host : host[i] = ":"}
           closing == {i \in DOMAIN host : host[i] = "]"}
<1>1. /\ Text(host) /\ Text(name) /\ IsPrefix(name, host)
      /\ \/ host = name
         \/ k > n + 1 /\ host[n + 1] = ":" /\ \A i \in n + 2..k : host[i] \in Digits
      /\ \/ n > 0 /\ name[1] = "[" /\ {i \in 1..n : name[i] = "]"} = {n}
         \/ /\ n > 0 => name[1] # "["
            /\ \A i \in 1..n : name[i] # ":"
  BY RequestsAreHttp
<1>2. /\ n \in Nat /\ k \in Nat /\ DOMAIN host = 1..k /\ DOMAIN name = 1..n
      /\ (n = 0 <=> name = <<>>) /\ (k = 0 <=> host = <<>>)
  BY <1>1, TextFacts
<1>3. n <= k /\ \A i \in 1..n : name[i] = host[i]
  BY <1>1, PrefixFacts
<1>4. NormalizeHost(host) =
        Lower(IF host # <<>> /\ host[1] = "["
                THEN IF closing = {} THEN host ELSE SubSeq(host, 1, Min(closing))
              ELSE IF /\ Cardinality(colons) = 1
                      /\ Max(colons) < k
                      /\ \A i \in Max(colons) + 1..k : host[i] \in Digits
                THEN SubSeq(host, 1, Max(colons) - 1)
              ELSE host)
  BY DEF NormalizeHost
<1>5. /\ \A i : i \in colons <=> i \in 1..k /\ host[i] = ":"
      /\ \A i : i \in closing <=> i \in 1..k /\ host[i] = "]"
  BY <1>2
<1>6. ":" \notin Digits /\ "]" \notin Digits /\ "[" \notin Digits
  BY DigitsAreNoMarks
<1> HIDE DEF host, name, n, k, colons, closing
<1>7. SubSeq(host, 1, n) = name
  <2> DEFINE u == SubSeq(host, 1, n)
  <2>1. 1 \in Nat \ {0} /\ n \in 0..k
    BY <1>2, <1>3
  <2>2. /\ Text(u) /\ Len(u) = IF 1 <= n THEN n - 1 + 1 ELSE 0
        /\ \A i \in 1..n - 1 + 1 : u[i] = host[1 + i - 1]
    BY <1>1, <2>1, TextSubSeq DEF k
  <2> HIDE DEF u
  <2>3. Len(u) = n /\ \A i \in 1..n : u[i] = host[i]
    <3>1. n - 1 + 1 = n /\ (1 <= n \/ n = 0) /\ \A i \in 1..n : 1 + i - 1 = i
      BY <1>2
    <3> QED
      BY <2>2, <3>1
  <2>4. \A i \in 1..Len(u) : u[i] = name[i]
    BY <1>3, <2>3
  <2>5. Len(u) = Len(name)
    BY <2>3 DEF n
  <2> QED
    BY <1>1, <2>2, <2>4, <2>5, TextEqual DEF u
<1>8. CASE n > 0 /\ name[1] = "[" /\ {i \in 1..n : name[i] = "]"} = {n}
  <2>1. host # <<>> /\ host[1] = "["
    BY <1>2, <1>3, <1>8
  <2>2. name[n] = "]" /\ n \in 1..n /\ \A i \in 1..n : name[i] = "]" => i = n
    BY <1>8
  <2>3. n \in closing
    BY <1>2, <1>3, <1>5, <2>2
  <2>4. \A i \in closing : i >= n
    BY <1>2, <1>3, <1>5, <2>2
  <2>5. closing \subseteq Nat
    BY <1>5
  <2>6. Min(closing) = n
    <3>1. Min(closing) \in closing /\ Min(closing) <= n
      BY <2>3, <2>5, MinIsLeast
    <3>2. Min(closing) \in Nat /\ Min(closing) >= n
      BY <2>4, <2>5, <3>1
    <3> QED
      BY <1>2, <3>1, <3>2
  <2>7. closing # {}
    BY <2>3
  <2>8. NormalizeHost(host) = Lower(SubSeq(host, 1, n))
    BY <1>4, <2>1, <2>6, <2>7
  <2> QED
    BY <1>7, <2>8 DEF host, name
<1>9. CASE (n > 0 => name[1] # "[") /\ \A i \in 1..n : name[i] # ":"
  <2>1. ASSUME host = name PROVE NormalizeHost(host) = Lower(name)
    <3>1. ~(host # <<>> /\ host[1] = "[")
      BY <1>2, <1>9, <2>1
    <3>2. colons = {}
      BY <1>5, <1>9, <2>1 DEF n, k
    <3>3. Cardinality(colons) # 1
      BY <3>2, FS_EmptySet
    <3> QED
      BY <1>4, <2>1, <3>1, <3>3
  <2>2. ASSUME k > n + 1, host[n + 1] = ":", \A i \in n + 2..k : host[i] \in Digits
        PROVE  NormalizeHost(host) = Lower(name)
    <3>1. ~(host # <<>> /\ host[1] = "[")
      <4>1. CASE n = 0
        BY <1>2, <2>2, <4>1
      <4>2. CASE n # 0
        BY <1>2, <1>3, <1>9, <4>2
      <4> QED
        BY <4>1, <4>2
    <3>2. colons = {n + 1}
      <4>1. n + 1 \in colons
        BY <1>2, <1>5, <2>2
      <4>2. ASSUME NEW i \in colons PROVE i = n + 1
        <5>1. i \in 1..k /\ host[i] = ":"
          BY <1>5
        <5>2. ~(i \in 1..n) /\ ~(i \in n + 2..k)
          BY <1>3, <1>6, <1>9, <2>2, <5>1
        <5> QED
          BY <1>2, <5>1, <5>2
      <4> QED
        BY <4>1, <4>2
    <3>3. Cardinality(colons) = 1
      BY <3>2, FS_Singleton
    <3>4. Max(colons) = n + 1
      BY <1>2, <3>2 DEF Max
    <3>5. n + 1 < k /\ (n + 1) + 1 = n + 2 /\ (n + 1) - 1 = n
      BY <1>2, <2>2
    <3>6. \A i \in Max(colons) + 1..k : host[i] \in Digits
      BY <2>2, <3>4, <3>5
    <3>7. NormalizeHost(host) = Lower(SubSeq(host, 1, n))
      BY <1>4, <3>1, <3>3, <3>4, <3>5, <3>6
    <3> QED
      BY <1>7, <3>7
  <2> QED
    BY <1>1, <2>1, <2>2 DEF host, name, n, k
<1> QED
  BY <1>1, <1>8, <1>9 DEF host, name, n, k

\* A guard passes a request on exactly if no line is broken.
LEMMA GuardDecides ==
  ASSUME NEW rs, NEW broken
  PROVE  /\ \A hs : PassWith(hs) = Guard(rs, broken) => broken = {}
         /\ \A s, hs : RespondWith(s, hs) = Guard(rs, broken) => broken # {}
<1>1. \A hs : PassWith(hs).outcome = "pass"
  BY DEF PassWith
<1>2. \A s, hs : RespondWith(s, hs).outcome = "respond"
  BY DEF RespondWith
<1>3. Guard(rs, broken) = IF broken = {} THEN PassWith(<<>>)
                          ELSE RespondWith(rs[FirstOf(broken)].status, <<>>)
  BY DEF Guard
<1>4. "pass" # "respond"
  OBVIOUS
<1> QED
  BY <1>1, <1>2, <1>3, <1>4, Zenon

\* ... and so does the chain.
LEMMA GuardHolds ==
  ASSUME ChainInv, NEW m \in Modules, NEW broken, NEW met \in BOOLEAN,
         Results(config, m, request) = {Guard(Parsed(config, m), broken)},
         config \in Configs /\ request \in Requests /\ AllValid(config, m) => (met <=> broken = {})
  PROVE  (Passed(m) => met) /\ (reply.by = m => ~met)
<1>1. ASSUME Passed(m) PROVE met
  BY <1>1, PassFacts, GuardDecides
<1>2. ASSUME reply.by = m PROVE ~met
  <2>1. Answered /\ \E s \in StatusCodes : \E hs : RespondWith(s, hs) \in Results(config, m, request)
    BY <1>2, ReplyFacts
  <2>2. config \in Configs /\ request \in Requests /\ AllValid(config, m)
    BY <1>2, <2>1, AnswerFacts
  <2> QED
    BY <2>1, <2>2, GuardDecides
<1> QED
  BY <1>1, <1>2

\* What is left of a text after its first word.
LEMMA TextTail ==
  ASSUME NEW s, Text(s), Len(s) > 0
  PROVE  /\ Text(Tail(s)) /\ Len(Tail(s)) = Len(s) - 1
         /\ \A i \in 1..Len(s) - 1 : Tail(s)[i] = s[i + 1]
<1>1. s \in Seq(Range(s)) /\ s # <<>>
  BY TextFacts DEF Text
<1>2. Tail(s) \in Seq(Range(s)) /\ Len(Tail(s)) = Len(s) - 1
  BY <1>1
<1>3. \A i \in 1..Len(s) - 1 : Tail(s)[i] = s[i + 1]
  BY <1>1
<1> QED
  BY <1>2, <1>3, SeqIsText

\* A name is one that an item of a list stands for.
ItemListed(h, n) ==
    \/ Lower(h) = Lower(n)
    \/ /\ Len(h) > 2 /\ h[1] = "*" /\ h[2] = "."
       /\ Len(n) > Len(h) - 1
       /\ Lower(SubSeq(n, Len(n) - Len(h) + 2, Len(n))) = Lower(Tail(h))

\* An item of host_guard's list matches the names it stands for: itself and, if
\* it is a star and a suffix, what ends in the suffix, in any case.
LEMMA ItemMatches ==
  ASSUME NEW h, NEW n, Text(h), Text(n), h # <<>>
  PROVE  n # <<>> /\ HostMatches(HostPattern(h), Lower(n)) <=> ItemListed(h, n)
<1> DEFINE a == Len(h)
           b == Len(n)
           lh == Lower(h)
           ln == Lower(n)
<1>1. a \in Nat /\ b \in Nat /\ a # 0 /\ (b = 0 <=> n = <<>>)
  BY TextFacts
<1>2. /\ Text(lh) /\ Len(lh) = a
      /\ \A i \in 1..a : /\ lh[i] = LowerOf(h[i])
                         /\ lh[i] = "*" <=> h[i] = "*"
                         /\ lh[i] = "." <=> h[i] = "."
      /\ Text(ln) /\ Len(ln) = b /\ \A i \in 1..b : ln[i] = LowerOf(n[i])
  BY LowerFacts
<1>3. lh = ln <=> a = b /\ \A i \in 1..a : LowerOf(h[i]) = LowerOf(n[i])
  BY LowerEqual
<1>4. HostPattern(h) = IF a > 2 /\ lh[1] = "*" /\ lh[2] = "."
                         THEN [kind |-> "suffix", text |-> Tail(lh)]
                       ELSE [kind |-> "exact", text |-> lh]
  BY <1>2 DEF HostPattern
<1>5. ItemListed(h, n) <=> \/ lh = ln
                           \/ /\ a > 2 /\ h[1] = "*" /\ h[2] = "." /\ b > a - 1
                              /\ Lower(SubSeq(n, b - a + 2, b)) = Lower(Tail(h))
  BY DEF ItemListed
<1> HIDE DEF a, b, lh, ln
<1>6. CASE ~(a > 2 /\ h[1] = "*" /\ h[2] = ".")
  <2>1. HostPattern(h) = [kind |-> "exact", text |-> lh]
    BY <1>1, <1>2, <1>4, <1>6
  <2>2. HostMatches(HostPattern(h), ln) <=> lh = ln
    BY <2>1 DEF HostMatches
  <2>3. lh = ln => n # <<>>
    BY <1>1, <1>3
  <2> QED
    BY <1>5, <1>6, <2>2, <2>3 DEF ln
<1>7. CASE a > 2 /\ h[1] = "*" /\ h[2] = "."
  <2> DEFINE u == Tail(lh)
             v == Tail(h)
             w == SubSeq(n, b - a + 2, b)
  <2>1. HostPattern(h) = [kind |-> "suffix", text |-> u]
    BY <1>1, <1>2, <1>4, <1>7
  <2>2. /\ Text(u) /\ Len(u) = a - 1 /\ \A i \in 1..a - 1 : u[i] = lh[i + 1]
        /\ Text(v) /\ Len(v) = a - 1 /\ \A i \in 1..a - 1 : v[i] = h[i + 1]
    <3>1. Len(lh) > 0 /\ Len(h) > 0
      BY <1>2, <1>7 DEF a
    <3> QED
      BY <1>2, <3>1, TextTail DEF a
  <2>3. \A i \in 1..a - 1 : u[i] = LowerOf(h[i + 1])
    <3>1. \A i \in 1..a - 1 : i + 1 \in 1..a
      BY <1>1
    <3> QED
      BY <1>2, <2>2, <3>1
  <2>4. HostMatches(HostPattern(h), ln) <=>
          b > a - 1 /\ \A i \in 1..a - 1 : u[i] = ln[b - (a - 1) + i]
    <3>1. HostMatches(HostPattern(h), ln) <=> b > a - 1 /\ IsSuffix(u, ln)
      BY <1>2, <2>1, <2>2 DEF HostMatches
    <3> HIDE DEF u
    <3>2. IsSuffix(u, ln) <=> a - 1 <= b /\ \A i \in 1..a - 1 : u[i] = ln[b - (a - 1) + i]
      <4>1. Text(u) /\ Text(ln)
        BY <1>2, <2>2
      <4>2. IsSuffix(u, ln) <=>
              Len(u) <= Len(ln) /\ \A i \in 1..Len(u) : u[i] = ln[Len(ln) - Len(u) + i]
        BY <4>1, SuffixFacts
      <4>3. Len(u) = a - 1 /\ Len(ln) = b
        BY <1>2, <2>2
      <4> QED
        BY <4>2, <4>3
    <3>3. b > a - 1 => a - 1 <= b
      BY <1>1
    <3> QED
      BY <3>1, <3>2, <3>3
  <2> HIDE DEF u, v
  <2>5. ASSUME b > a - 1
        PROVE  \A i \in 1..a - 1 : /\ b - (a - 1) + i \in 1..b
                                   /\ ln[b - (a - 1) + i] = LowerOf(n[b - (a - 1) + i])
    <3>1. \A i \in 1..a - 1 : b - (a - 1) + i \in 1..b
      BY <1>1, <2>5
    <3> QED
      BY <1>2, <3>1
  <2>6. ASSUME b > a - 1
        PROVE  Lower(w) = Lower(v) <=>
                 \A i \in 1..a - 1 : LowerOf(n[b - (a - 1) + i]) = LowerOf(h[i + 1])
    <3> DEFINE c == b - a + 2
    <3>1. c \in Nat \ {0} /\ b \in 0..b /\ c <= b /\ b - c + 1 = a - 1
      BY <1>1, <1>7, <2>6
    <3>2. /\ Text(w) /\ Len(w) = IF c <= b THEN b - c + 1 ELSE 0
          /\ \A i \in 1..b - c + 1 : w[i] = n[c + i - 1]
      BY <3>1, TextSubSeq DEF b
    <3> HIDE DEF w
    <3>3. Len(w) = a - 1 /\ \A i \in 1..a - 1 : w[i] = n[b - (a - 1) + i]
      <4>1. \A i \in 1..a - 1 : c + i - 1 = b - (a - 1) + i
        BY <1>1
      <4> HIDE DEF c
      <4> QED
        BY <3>1, <3>2, <4>1
    <3>4. Lower(w) = Lower(v) <=>
            Len(w) = Len(v) /\ \A i \in 1..Len(w) : LowerOf(w[i]) = LowerOf(v[i])
      BY <2>2, <3>2, LowerEqual
    <3> QED
      BY <2>2, <3>3, <3>4
  <2>7. HostMatches(HostPattern(h), ln) <=> b > a - 1 /\ Lower(w) = Lower(v)
    BY <2>3, <2>4, <2>5, <2>6
  <2>8. ASSUME lh = ln PROVE b > a - 1 /\ Lower(w) = Lower(v)
    <3>1. a = b /\ \A i \in 1..a : LowerOf(h[i]) = LowerOf(n[i])
      BY <1>3, <2>8
    <3>2. b > a - 1 /\ \A i \in 1..a - 1 : b - (a - 1) + i = i + 1 /\ i + 1 \in 1..a
      BY <1>1, <3>1
    <3>3. \A i \in 1..a - 1 : LowerOf(n[b - (a - 1) + i]) = LowerOf(h[i + 1])
      BY <3>1, <3>2
    <3> QED
      BY <2>6, <3>2, <3>3
  <2>9. b > a - 1 => n # <<>>
    BY <1>1, <1>7
  <2> HIDE DEF w
  <2> QED
    BY <1>5, <1>7, <2>7, <2>8, <2>9 DEF w, v, ln
<1> QED
  BY <1>6, <1>7

\* host_guard lets a request through exactly if each of its lines that covers it
\* lists the request's host.
LEMMA HostGuardCorrect ==
  ASSUME ChainInv
  PROVE  HostGuardHolds
<1> DEFINE m == "host_guard"
           rs == Parsed(config, m)
           met == \A l \in Range(Lines(m)) : Covers(l[1], l[2], request) => HostListed(request, l[3])
           broken == {i \in Covering(rs, request) : ~HostSatisfies(rs[i], request)}
<1>1. m \in Modules \ {"cors"}
  BY DEF Modules
<1>2. Results(config, m, request) = {Guard(rs, broken)}
  BY DEF Results, HostGuardHandle
<1>3. ASSUME config \in Configs, request \in Requests, AllValid(config, m)
      PROVE  met <=> broken = {}
  <2> DEFINE ls == config.lines[m]
             good(l) == Covers(l[1], l[2], request) => HostListed(request, l[3])
  <2>1. /\ DOMAIN rs = DOMAIN ls
        /\ \A i \in DOMAIN ls : ls[i] \in Range(ls) /\ rs[i] = Rule(m, ls[i]) /\ Rule(m, ls[i]).valid
    BY <1>1, <1>3, LinesValid
  <2>2. Text(request.target) /\ Text(request.hostName)
    BY <1>3, RequestsAreHttp
  <2>3. ASSUME NEW i \in DOMAIN ls PROVE good(ls[i]) <=> ~(i \in broken)
    <3> DEFINE l == ls[i]
    <3>1. l \in Range(ls) /\ rs[i] = HostGuardRule(l) /\ HostGuardRule(l).valid
      BY <2>1, <2>3 DEF Rule
    <3> HIDE DEF l
    <3>2. /\ Len(l) = 5 /\ TargetPattern(l[2]).text # <<>>
          /\ rs[i].method = l[1] /\ rs[i].target = TargetPattern(l[2])
          /\ rs[i].hosts = {HostPattern(h) : h \in Range(l[3]) \ {<<>>}}
      BY <3>1, HostGuardLine
    <3>3. Len(l) > 1 /\ Len(l) > 2
      BY <3>2
    <3>4. Text(l[2])
      BY <1>1, <1>3, <3>1, <3>3, LinePattern
    <3>5. \A h \in Range(l[3]) : Text(h)
      BY <1>3, <3>1, <3>3, ConfigsAreFiles
    <3>6. Covers(l[1], l[2], request) <=>
            MethodMatches(rs[i].method, request.method) /\ TargetMatches(rs[i].target, request.target)
      BY <2>2, <3>2, <3>4, CoversIsMatch
    <3>7. i \in Covering(rs, request) <=> Covers(l[1], l[2], request)
      BY <2>1, <2>3, <3>6 DEF Covering
    <3>8. HostSatisfies(rs[i], request) <=> HostListed(request, l[3])
      <4> DEFINE n == request.hostName
      <4>1. HostListed(request, l[3]) <=> \E h \in Range(l[3]) \ {<<>>} : ItemListed(h, n)
        BY DEF HostListed, ItemListed
      <4>2. Lower(n) # <<>> <=> n # <<>>
        <5>1. Text(Lower(n)) /\ Len(Lower(n)) = Len(n)
          BY <2>2, LowerFacts
        <5> QED
          BY <2>2, <5>1, TextFacts
      <4>3. HostSatisfies(rs[i], request) <=>
              Lower(n) # <<>> /\ \E p \in rs[i].hosts : HostMatches(p, Lower(n))
        BY <1>3, HostNormalized DEF HostSatisfies
      <4>4. \A h \in Range(l[3]) \ {<<>>} :
              n # <<>> /\ HostMatches(HostPattern(h), Lower(n)) <=> ItemListed(h, n)
        BY <2>2, <3>5, ItemMatches
      <4> HIDE DEF n
      <4> QED
        BY <3>2, <4>1, <4>2, <4>3, <4>4
    <3> HIDE DEF rs
    <3> QED
      BY <3>7, <3>8 DEF l
  <2>4. broken \subseteq DOMAIN ls
    BY <2>1 DEF Covering
  <2>5. met <=> \A i \in DOMAIN ls : good(ls[i])
    BY DEF Lines, Range
  <2> HIDE DEF broken, met, good, rs, ls
  <2> QED
    BY <2>3, <2>4, <2>5
<1>4. met \in BOOLEAN
  OBVIOUS
<1> HIDE DEF rs, broken
<1>5. (Passed(m) => met) /\ (reply.by = m => ~met)
  BY <1>1, <1>2, <1>3, <1>4, GuardHolds DEF rs
<1> QED
  BY <1>5 DEF HostGuardHolds

\* header_guard lets a request through exactly if it has the header of each line
\* that covers it, with the value the line expects.
LEMMA HeaderGuardCorrect ==
  ASSUME ChainInv
  PROVE  HeaderGuardHolds
<1> DEFINE m == "header_guard"
           rs == Parsed(config, m)
           asked(l) == /\ request.headers[l[3]] # Absent
                       /\ Len(l) = 6 => request.headers[l[3]] = l[4]
           met == \A l \in Range(Lines(m)) : Covers(l[1], l[2], request) => asked(l)
           broken == {i \in Covering(rs, request) : ~HeaderSatisfies(rs[i], request)}
<1>1. m \in Modules \ {"cors"}
  BY DEF Modules
<1>2. Results(config, m, request) = {Guard(rs, broken)}
  BY DEF Results, HeaderGuardHandle
<1>3. ASSUME config \in Configs, request \in Requests, AllValid(config, m)
      PROVE  met <=> broken = {}
  <2> DEFINE ls == config.lines[m]
             good(l) == Covers(l[1], l[2], request) => asked(l)
  <2>1. /\ DOMAIN rs = DOMAIN ls
        /\ \A i \in DOMAIN ls : ls[i] \in Range(ls) /\ rs[i] = Rule(m, ls[i]) /\ Rule(m, ls[i]).valid
    BY <1>1, <1>3, LinesValid
  <2>2. Text(request.target)
    BY <1>3, RequestsAreHttp
  <2>3. ASSUME NEW i \in DOMAIN ls PROVE good(ls[i]) <=> ~(i \in broken)
    <3> DEFINE l == ls[i]
    <3>1. l \in Range(ls) /\ rs[i] = HeaderGuardRule(l) /\ HeaderGuardRule(l).valid
      BY <2>1, <2>3 DEF Rule
    <3> HIDE DEF l
    <3>2. /\ Len(l) \in {5, 6} /\ TargetPattern(l[2]).text # <<>>
          /\ rs[i].method = l[1] /\ rs[i].target = TargetPattern(l[2])
          /\ rs[i].name = l[3] /\ rs[i].expected = IF Len(l) = 6 THEN l[4] ELSE Absent
      BY <3>1, HeaderGuardLine
    <3>3. Len(l) > 1
      BY <3>2
    <3>4. Text(l[2])
      BY <1>1, <1>3, <3>1, <3>3, LinePattern
    <3>5. Len(l) = 6 => l[4] # Absent
      BY <1>3, <3>1, ConfigsAreFiles
    <3>6. Covers(l[1], l[2], request) <=>
            MethodMatches(rs[i].method, request.method) /\ TargetMatches(rs[i].target, request.target)
      BY <2>2, <3>2, <3>4, CoversIsMatch
    <3>7. i \in Covering(rs, request) <=> Covers(l[1], l[2], request)
      BY <2>1, <2>3, <3>6 DEF Covering
    <3>8. HeaderSatisfies(rs[i], request) <=> asked(l)
      BY <3>2, <3>5 DEF HeaderSatisfies
    <3> HIDE DEF rs, asked
    <3> QED
      BY <3>7, <3>8 DEF l
  <2>4. broken \subseteq DOMAIN ls
    BY <2>1 DEF Covering
  <2>5. met <=> \A i \in DOMAIN ls : good(ls[i])
    BY DEF Lines, Range
  <2> HIDE DEF broken, met, good, rs, ls
  <2> QED
    BY <2>3, <2>4, <2>5
<1>4. met \in BOOLEAN
  OBVIOUS
<1> HIDE DEF rs, broken
<1>5. (Passed(m) => met) /\ (reply.by = m => ~met)
  BY <1>1, <1>2, <1>3, <1>4, GuardHolds DEF rs
<1> QED
  BY <1>5 DEF HeaderGuardHolds

-----------------------------------------------------------------------------
(* jwt_auth: the settings, the claims and the expiry.                      *)

\* The hypothesis on the tokens that clients send: the text of one says what its
\* issuer put into it.  Its signature fits the secret exactly if the issuer has
\* signed it; the searches in its payload find the claims it was issued with
\* (an audience that they do not find counts as none), and the expiry, of which
\* nothing is known where it does not fit a long long.
TokensAreRead ==
    \A c \in Configs, r \in Requests :
        LET token == BearerToken(r.authorization)
            payload == Decoded[token[3]]
        IN /\ r.login.exp \in Int
           /\ JwtSettingsValid(c.jwt) => (TokenSigned(token, c.jwt) <=> r.login.signed)
           /\ r.login.signed =>
                 /\ ClaimsOf(payload) = [sub |-> r.login.sub, iss |-> r.login.iss,
                                         aud |-> r.login.aud, roles |-> r.login.roles]
                 /\ JsonInts(payload, "exp") =
                       IF r.login.exp > LongMax THEN -LongMax - 1..LongMax ELSE {r.login.exp}

\* The first line of a key is what the configuration wants, if there is one.
LEMMA FirstLineDecides ==
  ASSUME NEW lines, Text(lines), \A i \in DOMAIN lines : lines[i][2] # Missing, NEW key, NEW v
  PROVE  Get(lines, key) \in {Missing, <<>>, v} <=>
           \A i \in DOMAIN lines :
             /\ lines[i][1] = key
             /\ \A k \in 1..i - 1 : lines[k][1] # key
             => lines[i][2] \in {<<>>, v}
<1> DEFINE hits == {k \in DOMAIN lines : lines[k][1] = key}
           f == FirstOf(hits)
           first(i) == lines[i][1] = key /\ \A k \in 1..i - 1 : lines[k][1] # key
<1>1. Len(lines) \in Nat /\ DOMAIN lines = 1..Len(lines)
  BY TextFacts
<1>2. hits \subseteq Nat \ {0} /\ \A k : k \in hits <=> k \in 1..Len(lines) /\ lines[k][1] = key
  BY <1>1
<1>3. Get(lines, key) = IF f = 0 THEN Missing ELSE lines[f][2]
  BY DEF Get
<1> HIDE DEF hits
<1>4. /\ f = 0 <=> hits = {}
      /\ hits # {} => f \in hits /\ \A n \in hits : f <= n
  BY <1>2, FirstOfFacts
<1> HIDE DEF f
<1>5. CASE hits = {}
  <2>1. \A i \in DOMAIN lines : ~first(i)
    BY <1>1, <1>2, <1>5
  <2>2. Get(lines, key) = Missing
    BY <1>3, <1>4, <1>5
  <2> QED
    BY <2>1, <2>2
<1>6. CASE hits # {}
  <2>1. f \in 1..Len(lines) /\ lines[f][1] = key /\ f # 0
    BY <1>2, <1>4, <1>6
  <2>2. \A k \in 1..f - 1 : lines[k][1] # key
    <3>1. \A k \in 1..f - 1 : k \in 1..Len(lines) /\ ~(f <= k)
      BY <1>1, <2>1
    <3> QED
      BY <1>2, <1>4, <3>1
  <2>3. ASSUME NEW i \in DOMAIN lines, first(i) PROVE i = f
    <3>1. i \in hits /\ f <= i
      BY <1>1, <1>2, <1>4, <2>3
    <3>2. ~(f \in 1..i - 1)
      BY <2>1, <2>3
    <3> QED
      BY <1>1, <2>1, <3>1, <3>2
  <2>4. first(f) /\ f \in DOMAIN lines
    BY <1>1, <2>1, <2>2
  <2>5. Get(lines, key) = lines[f][2] /\ lines[f][2] # Missing
    BY <1>3, <2>1, <2>4
  <2> HIDE DEF first
  <2>6. Get(lines, key) \in {Missing, <<>>, v} <=> lines[f][2] \in {<<>>, v}
    BY <2>5
  <2>7. (\A i \in DOMAIN lines : first(i) => lines[i][2] \in {<<>>, v}) <=> lines[f][2] \in {<<>>, v}
    BY <2>3, <2>4
  <2> QED
    BY <2>6, <2>7 DEF first
<1> QED
  BY <1>5, <1>6

\* The headers of two texts of headers are those of each.
LEMMA RangeConcat ==
  ASSUME NEW a, NEW b, Text(a), Text(b)
  PROVE  Range(a \o b) = Range(a) \cup Range(b)
<1>1. a \in Seq(Range(a) \cup Range(b)) /\ b \in Seq(Range(a) \cup Range(b))
  BY DEF Text
<1>2. Range(a) = {a[i] : i \in 1..Len(a)} /\ Range(b) = {b[i] : i \in 1..Len(b)}
  BY TextFacts DEF Range
<1>3. /\ DOMAIN (a \o b) = 1..(Len(a) + Len(b)) /\ Len(a) \in Nat /\ Len(b) \in Nat
      /\ \A i \in 1..Len(a) : (a \o b)[i] = a[i]
      /\ \A i \in 1..Len(b) : (a \o b)[Len(a) + i] = b[i]
  BY <1>1, TextConcat, TextFacts
<1>4. ASSUME NEW x \in Range(a \o b) PROVE x \in Range(a) \cup Range(b)
  <2>1. PICK i \in 1..Len(a) + Len(b) : x = (a \o b)[i]
    BY <1>3 DEF Range
  <2>2. CASE i \in 1..Len(a)
    BY <1>2, <1>3, <2>1, <2>2
  <2>3. CASE ~(i \in 1..Len(a))
    <3>1. i - Len(a) \in 1..Len(b) /\ Len(a) + (i - Len(a)) = i
      BY <1>3, <2>1, <2>3
    <3>2. (a \o b)[i] = b[i - Len(a)]
      BY <1>3, <3>1
    <3> QED
      BY <1>2, <2>1, <3>1, <3>2
  <2> QED
    BY <2>2, <2>3
<1>5. ASSUME NEW x \in Range(a) PROVE x \in Range(a \o b)
  <2>1. PICK i \in 1..Len(a) : x = (a \o b)[i]
    BY <1>2, <1>3
  <2>2. i \in DOMAIN (a \o b)
    BY <1>3
  <2> QED
    BY <2>1, <2>2 DEF Range
<1>6. ASSUME NEW x \in Range(b) PROVE x \in Range(a \o b)
  <2>1. PICK i \in 1..Len(b) : x = (a \o b)[Len(a) + i]
    BY <1>2, <1>3
  <2>2. Len(a) + i \in DOMAIN (a \o b)
    BY <1>3
  <2> QED
    BY <2>1, <2>2 DEF Range
<1> QED
  BY <1>4, <1>5, <1>6

\* The pending headers of a name are those of the part they hold.
LEMMA HoldsRange ==
  ASSUME NEW all, NEW part, NEW names, Text(all), Text(part), Holds(all, part, names), NEW name \in names
  PROVE  {h \in Range(all) : h[1] = name} = {h \in Range(part) : h[1] = name}
<1>1. PICK d \in Nat :
        /\ \A i \in DOMAIN part : d + i \in DOMAIN all /\ all[d + i] = part[i]
        /\ \A k \in DOMAIN all : all[k][1] \in names => k - d \in DOMAIN part
  BY DEF Holds
<1>2. DOMAIN all \subseteq Int
  BY TextFacts
<1>3. ASSUME NEW h \in Range(all), h[1] = name PROVE h \in Range(part)
  <2>1. PICK k \in DOMAIN all : all[k] = h
    BY DEF Range
  <2>2. k - d \in DOMAIN part /\ d + (k - d) = k
    BY <1>1, <1>2, <1>3, <2>1
  <2>3. part[k - d] = h
    BY <1>1, <2>1, <2>2
  <2> QED
    BY <2>2, <2>3 DEF Range
<1>4. ASSUME NEW h \in Range(part) PROVE h \in Range(all)
  <2>1. PICK k \in DOMAIN part : part[k] = h
    BY DEF Range
  <2>2. d + k \in DOMAIN all /\ all[d + k] = h
    BY <1>1, <2>1
  <2> QED
    BY <2>2 DEF Range
<1> QED
  BY <1>3, <1>4

\* Of the headers of the claims, the ones of a name are that claim's.
LEMMA ClaimNamed ==
  ASSUME NEW name, NEW other, NEW value
  PROVE  {h \in Range(ClaimHeader(other, value)) : h[1] = name} =
           IF other = name /\ value # <<>> THEN {<<name, value>>} ELSE {}
<1> DEFINE g == <<other, value>>
<1>1. g[1] = other
  OBVIOUS
<1>2. ClaimHeader(other, value) = IF value = <<>> THEN <<>> ELSE <<g>>
  BY DEF ClaimHeader
<1>3. CASE value = <<>>
  <2>1. ClaimHeader(other, value) = <<>> /\ DOMAIN <<>> = {}
    BY <1>2, <1>3
  <2> QED
    BY <1>3, <2>1 DEF Range
<1>4. CASE value # <<>>
  <2> HIDE DEF g
  <2>1. ClaimHeader(other, value) = <<g>> /\ DOMAIN <<g>> = {1} /\ <<g>>[1] = g
    BY <1>2, <1>4, OneHeader
  <2>2. Range(ClaimHeader(other, value)) = {g}
    BY <2>1 DEF Range
  <2> QED
    BY <1>1, <1>4, <2>2 DEF g
<1> QED
  BY <1>3, <1>4

\* What is pending of jwt_auth are the claims that are not empty.
LEMMA ClaimsNamed ==
  ASSUME NEW claims, NEW all, Text(all), Holds(all, ClaimHeaders(claims), HeadersOf("jwt_auth"))
  PROVE  \A pair \in {<<"X-Garcon-User-Id", claims.sub>>, <<"X-Garcon-Roles", claims.roles>>,
                      <<"X-Garcon-Claim-aud", claims.aud>>} :
           {h \in Range(all) : h[1] = pair[1]} = IF pair[2] = <<>> THEN {} ELSE {pair}
<1> DEFINE U == "X-Garcon-User-Id"
           R == "X-Garcon-Roles"
           I == "X-Garcon-Claim-iss"
           A == "X-Garcon-Claim-aud"
           a == ClaimHeader(U, claims.sub)
           b == ClaimHeader(R, claims.roles)
           d == ClaimHeader(I, claims.iss)
           e == ClaimHeader(A, claims.aud)
           all4 == ClaimHeaders(claims)
           named(s, name) == {h \in Range(s) : h[1] = name}
<1>1. HeadersOf("jwt_auth") = {U, R, I, A}
  BY DEF HeadersOf
<1>2. U # R /\ U # I /\ U # A /\ R # I /\ R # A /\ I # A
  OBVIOUS
<1>3. Text(a) /\ Text(b) /\ Text(d) /\ Text(e)
  BY <1>1, ClaimHeaderShape
<1>4. all4 = ((a \o b) \o d) \o e
  BY DEF ClaimHeaders
<1>5. \A name : /\ named(a, name) = IF U = name /\ claims.sub # <<>> THEN {<<name, claims.sub>>} ELSE {}
                /\ named(b, name) = IF R = name /\ claims.roles # <<>> THEN {<<name, claims.roles>>} ELSE {}
                /\ named(d, name) = IF I = name /\ claims.iss # <<>> THEN {<<name, claims.iss>>} ELSE {}
                /\ named(e, name) = IF A = name /\ claims.aud # <<>> THEN {<<name, claims.aud>>} ELSE {}
  BY ClaimNamed
<1> HIDE DEF a, b, d, e, all4, U, R, I, A
<1>6. Text(a \o b) /\ Text((a \o b) \o d) /\ Text(((a \o b) \o d) \o e)
  BY <1>3, TextConcat
<1>7. Range(all4) = ((Range(a) \cup Range(b)) \cup Range(d)) \cup Range(e)
  BY <1>3, <1>4, <1>6, RangeConcat
<1>8. \A name \in {U, R, I, A} : named(all, name) = named(all4, name)
  <2>1. Holds(all, all4, {U, R, I, A}) /\ Text(all4)
    BY <1>1, <1>4, <1>6 DEF all4
  <2> QED
    BY <2>1, HoldsRange
<1>9. \A name : named(all4, name) =
                  ((named(a, name) \cup named(b, name)) \cup named(d, name)) \cup named(e, name)
  BY <1>7
<1> HIDE DEF named
<1>10. named(all, U) = IF claims.sub = <<>> THEN {} ELSE {<<U, claims.sub>>}
  BY <1>2, <1>5, <1>8, <1>9
<1>11. named(all, R) = IF claims.roles = <<>> THEN {} ELSE {<<R, claims.roles>>}
  BY <1>2, <1>5, <1>8, <1>9
<1>12. named(all, A) = IF claims.aud = <<>> THEN {} ELSE {<<A, claims.aud>>}
  BY <1>2, <1>5, <1>8, <1>9
<1>13. ASSUME NEW pair \in {<<U, claims.sub>>, <<R, claims.roles>>, <<A, claims.aud>>}
       PROVE  named(all, pair[1]) = IF pair[2] = <<>> THEN {} ELSE {pair}
  <2>1. CASE pair = <<U, claims.sub>>
    <3>1. pair[1] = U /\ pair[2] = claims.sub
      BY <2>1
    <3> QED
      BY <1>10, <2>1, <3>1, Zenon
  <2>2. CASE pair = <<R, claims.roles>>
    <3>1. pair[1] = R /\ pair[2] = claims.roles
      BY <2>2
    <3> QED
      BY <1>11, <2>2, <3>1, Zenon
  <2>3. CASE pair = <<A, claims.aud>>
    <3>1. pair[1] = A /\ pair[2] = claims.aud
      BY <2>3
    <3> QED
      BY <1>12, <2>3, <3>1, Zenon
  <2> QED
    BY <1>13, <2>1, <2>2, <2>3
<1> QED
  BY <1>13 DEF named, U, R, I, A

\* A valid line of jwt_auth is about a request exactly if it covers it; without
\* lines every request is asked for a token.
LEMMA AskedIsEnforced ==
  ASSUME config \in Configs, request \in Requests, AllValid(config, "jwt_auth")
  PROVE  (Lines("jwt_auth") = <<>> \/
            \E l \in Range(Lines("jwt_auth")) : Covers(l[1], l[2], request))
         <=> (Parsed(config, "jwt_auth") = <<>> \/ Covering(Parsed(config, "jwt_auth"), request) # {})
<1> DEFINE m == "jwt_auth"
           rs == Parsed(config, m)
           ls == config.lines[m]
<1>1. m \in Modules \ {"cors"}
  BY DEF Modules
<1>2. /\ Text(ls) /\ DOMAIN ls = 1..Len(ls) /\ Len(ls) \in Nat /\ DOMAIN rs = DOMAIN ls
      /\ \A i \in DOMAIN ls : ls[i] \in Range(ls) /\ rs[i] = Rule(m, ls[i]) /\ Rule(m, ls[i]).valid
  BY <1>1, LinesValid
<1>3. Text(request.target)
  BY RequestsAreHttp
<1>4. ls = <<>> <=> rs = <<>>
  <2>1. rs = [i \in 1..Len(ls) |-> rs[i]]
    BY <1>2 DEF Parsed
  <2> HIDE DEF rs
  <2>2. Text(rs) /\ Len(rs) = Len(ls)
    BY <1>2, <2>1, TextMade
  <2> QED
    BY <1>2, <2>2, TextFacts
<1>5. ASSUME NEW i \in DOMAIN ls PROVE i \in Covering(rs, request) <=> Covers(ls[i][1], ls[i][2], request)
  <2> DEFINE l == ls[i]
  <2>1. l \in Range(ls) /\ rs[i] = JwtRule(l) /\ JwtRule(l).valid
    BY <1>2, <1>5 DEF Rule
  <2> HIDE DEF l
  <2>2. /\ Len(l) = 2 /\ TargetPattern(l[2]).text # <<>>
        /\ rs[i].method = l[1] /\ rs[i].target = TargetPattern(l[2])
    BY <2>1, JwtLine
  <2>3. Text(l[2])
    <3>1. Len(l) > 1
      BY <2>2
    <3> QED
      BY <1>1, <2>1, <3>1, LinePattern
  <2>4. Covers(l[1], l[2], request) <=>
          MethodMatches(rs[i].method, request.method) /\ TargetMatches(rs[i].target, request.target)
    BY <1>3, <2>2, <2>3, CoversIsMatch
  <2> HIDE DEF rs
  <2> QED
    BY <1>2, <1>5, <2>4 DEF Covering, l
<1>6. Covering(rs, request) \subseteq DOMAIN ls
  BY <1>2 DEF Covering
<1>7. Range(ls) = {ls[i] : i \in DOMAIN ls}
  BY DEF Range
<1> HIDE DEF rs
<1>8. (\E l \in Range(ls) : Covers(l[1], l[2], request)) <=> Covering(rs, request) # {}
  BY <1>5, <1>6, <1>7
<1> QED
  BY <1>4, <1>8 DEF Lines, rs

\* jwt_auth asks for a token where its lines say so, and lets exactly the good
\* ones through, with the claims of their issuer.
LEMMA JwtAuthCorrect ==
  ASSUME ChainInv, TokensAreRead
  PROVE  JwtAuthHolds
<1> DEFINE m == "jwt_auth"
           rs == Parsed(config, m)
           login == request.login
           token == BearerToken(request.authorization)
           payload == Decoded[token[3]]
           asked == Lines(m) = <<>> \/ \E l \in Range(Lines(m)) : Covers(l[1], l[2], request)
           enforce == rs = <<>> \/ Covering(rs, request) # {}
           claims == ClaimsOf(payload)
           exps == JsonInts(payload, "exp")
           wanted == /\ Get(config.jwt, "issuer") \in {Missing, <<>>, login.iss}
                     /\ Get(config.jwt, "audience") \in {Missing, <<>>, login.aud}
<1>1. m \in Modules
  BY DEF Modules
<1>2. Results(config, m, request) =
        IF ~enforce THEN {PassWith(<<>>)}
        ELSE IF ~TokenValid(token, config.jwt) THEN {RespondWith(401, <<>>)}
        ELSE {IF Expired(exp) THEN RespondWith(401, <<>>) ELSE PassWith(ClaimHeaders(claims)) : exp \in exps}
  BY DEF Results, JwtHandle
<1>3. LongMax \in Int /\ Now \in Int /\ Now <= LongMax
  <2>1. LongMax \in Int
    <3>1. LongBits - 1 \in Int
      BY LongIsSigned
    <3>2. 2 ^ (LongBits - 1) \in Int
      BY <3>1
    <3> QED
      BY <3>2 DEF LongMax
  <2> QED
    BY <2>1, NowIsTime
<1> HIDE DEF rs
<1>4. ASSUME config \in Configs, request \in Requests, AllValid(config, m)
      PROVE  /\ asked <=> enforce
             /\ login.exp \in Int
             /\ TokenSigned(token, config.jwt) <=> login.signed
             /\ login.signed =>
                  /\ claims = [sub |-> login.sub, iss |-> login.iss, aud |-> login.aud, roles |-> login.roles]
                  /\ exps = IF login.exp > LongMax THEN -LongMax - 1..LongMax ELSE {login.exp}
             /\ GoodLogin(login) <=> login.signed /\ wanted /\ (login.exp = 0 \/ login.exp > Now)
  <2>1. asked <=> enforce
    BY <1>4, AskedIsEnforced DEF rs
  <2>2. JwtSettingsValid(config.jwt)
    BY <1>4 DEF AllValid
  <2>3. /\ login.exp \in Int
        /\ TokenSigned(token, config.jwt) <=> login.signed
        /\ login.signed =>
             /\ claims = [sub |-> login.sub, iss |-> login.iss, aud |-> login.aud, roles |-> login.roles]
             /\ exps = IF login.exp > LongMax THEN -LongMax - 1..LongMax ELSE {login.exp}
    BY <1>4, <2>2 DEF TokensAreRead
  <2>4. Text(config.jwt) /\ \A i \in DOMAIN config.jwt : config.jwt[i][2] # Missing
    BY <1>4, ConfigsAreFiles
  <2> DEFINE first(key, v) == \A i \in DOMAIN config.jwt :
                                /\ config.jwt[i][1] = key
                                /\ \A k \in 1..i - 1 : config.jwt[k][1] # key
                                => config.jwt[i][2] \in {<<>>, v}
  <2>5. \A key, v : Get(config.jwt, key) \in {Missing, <<>>, v} <=> first(key, v)
    BY <2>4, FirstLineDecides
  <2> HIDE DEF login
  <2>6. (\A pair \in {<<"issuer", login.iss>>, <<"audience", login.aud>>} : first(pair[1], pair[2]))
          <=> first("issuer", login.iss) /\ first("audience", login.aud)
    <3> HIDE DEF first
    <3>1. /\ <<"issuer", login.iss>>[1] = "issuer" /\ <<"issuer", login.iss>>[2] = login.iss
          /\ <<"audience", login.aud>>[1] = "audience" /\ <<"audience", login.aud>>[2] = login.aud
      OBVIOUS
    <3> QED
      BY <3>1, Zenon
  <2>7. GoodLogin(login) <=>
          /\ login.signed
          /\ \A pair \in {<<"issuer", login.iss>>, <<"audience", login.aud>>} : first(pair[1], pair[2])
          /\ login.exp = 0 \/ login.exp > Now
    BY DEF GoodLogin
  <2> HIDE DEF first, token, claims, exps, asked, enforce
  <2>8. GoodLogin(login) <=> login.signed /\ wanted /\ (login.exp = 0 \/ login.exp > Now)
    BY <2>5, <2>6, <2>7
  <2> QED
    BY <2>1, <2>3, <2>8
<1>5. ASSUME login.signed, claims = [sub |-> login.sub, iss |-> login.iss, aud |-> login.aud, roles |-> login.roles]
      PROVE  /\ claims.sub = login.sub /\ claims.iss = login.iss
             /\ claims.aud = login.aud /\ claims.roles = login.roles
  <2> HIDE DEF claims, login
  <2> QED
    BY <1>5
<1>6. TokenValid(token, config.jwt) <=>
        /\ TokenSigned(token, config.jwt)
        /\ Get(config.jwt, "issuer") \in {Missing, <<>>, claims.iss}
        /\ Get(config.jwt, "audience") \in {Missing, <<>>, claims.aud}
  BY DEF TokenValid
<1>7. \A exp : Expired(exp) <=> exp # 0 /\ exp <= Now
  BY DEF Expired
<1>8. /\ \A hs, s, x : PassWith(hs) # RespondWith(s, x)
      /\ \A hs, x : PassWith(hs) = PassWith(x) => hs = x
  BY DEF PassWith, RespondWith
<1>9. Known(login) <=>
        \A pair \in {<<"X-Garcon-User-Id", login.sub>>, <<"X-Garcon-Roles", login.roles>>,
                     <<"X-Garcon-Claim-aud", login.aud>>} :
          {h \in Range(pending) : h[1] = pair[1]} = IF pair[2] = <<>> THEN {} ELSE {pair}
  BY DEF Known
<1> HIDE DEF login, token, payload, claims, exps, enforce, asked
<1>10. ASSUME Passed(m), asked PROVE GoodLogin(login) /\ Known(login)
  <2>1. config \in Configs /\ request \in Requests /\ AllValid(config, m) /\ Text(pending)
    BY <1>1, <1>10, PassFacts
  <2>2. PICK hs : PassWith(hs) \in Results(config, m, request) /\ Holds(pending, hs, HeadersOf(m))
    BY <1>1, <1>10, PassFacts
  <2>3. enforce
    BY <1>4, <1>10, <2>1
  <2>4. TokenValid(token, config.jwt)
    BY <1>2, <1>8, <2>2, <2>3
  <2>5. PICK exp \in exps : PassWith(hs) = IF Expired(exp) THEN RespondWith(401, <<>>)
                                            ELSE PassWith(ClaimHeaders(claims))
    BY <1>2, <2>2, <2>3, <2>4
  <2>6. ~Expired(exp) /\ hs = ClaimHeaders(claims)
    <3>0. PassWith(hs) # RespondWith(401, <<>>)
      BY <1>8
    <3>1. ~Expired(exp)
      BY <2>5, <3>0
    <3>2. PassWith(hs) = PassWith(ClaimHeaders(claims))
      BY <2>5, <3>1, Zenon
    <3> QED
      BY <1>8, <3>1, <3>2, Zenon
  <2>7. login.signed
    BY <1>4, <1>6, <2>1, <2>4
  <2>8. /\ claims.sub = login.sub /\ claims.iss = login.iss
        /\ claims.aud = login.aud /\ claims.roles = login.roles
    BY <1>4, <1>5, <2>1, <2>7
  <2>9. wanted
    BY <1>6, <2>4, <2>8
  <2>10. login.exp = 0 \/ login.exp > Now
    <3>1. login.exp \in Int /\ exps = IF login.exp > LongMax THEN -LongMax - 1..LongMax ELSE {login.exp}
      BY <1>4, <2>1, <2>7
    <3>2. CASE login.exp > LongMax
      BY <1>3, <3>1, <3>2
    <3>3. CASE ~(login.exp > LongMax)
      <4>1. exp = login.exp
        BY <3>1, <3>3
      <4> QED
        BY <1>3, <1>7, <2>6, <3>1, <4>1
    <3> QED
      BY <3>2, <3>3
  <2>11. Known(login)
    BY <1>9, <2>1, <2>2, <2>6, <2>8, ClaimsNamed
  <2> QED
    BY <1>4, <2>1, <2>7, <2>9, <2>10, <2>11
<1>11. ASSUME reply.by = m PROVE asked /\ (~GoodLogin(login) \/ login.exp > LongMax)
  <2>1. PICK s, hs : Answered /\ RespondWith(s, hs) \in Results(config, m, request)
    BY <1>1, <1>11, ReplyFacts
  <2>2. config \in Configs /\ request \in Requests /\ AllValid(config, m)
    BY <1>1, <1>11, <2>1, AnswerFacts
  <2>3. enforce
    BY <1>2, <1>8, <2>1
  <2>4. CASE ~TokenValid(token, config.jwt)
    <3>1. SUFFICES ASSUME GoodLogin(login) PROVE FALSE
      BY <1>4, <2>2, <2>3
    <3>2. login.signed /\ wanted
      BY <1>4, <2>2, <3>1
    <3>3. claims.iss = login.iss /\ claims.aud = login.aud /\ TokenSigned(token, config.jwt)
      BY <1>4, <1>5, <2>2, <3>2
    <3> QED
      BY <1>6, <2>4, <3>2, <3>3
  <2>5. CASE TokenValid(token, config.jwt)
    <3>1. PICK exp \in exps : RespondWith(s, hs) = IF Expired(exp) THEN RespondWith(401, <<>>)
                                                   ELSE PassWith(ClaimHeaders(claims))
      BY <1>2, <2>1, <2>3, <2>5
    <3>2. Expired(exp)
      BY <1>8, <3>1, Zenon
    <3>3. login.signed
      BY <1>4, <1>6, <2>2, <2>5
    <3>4. login.exp \in Int /\ exps = IF login.exp > LongMax THEN -LongMax - 1..LongMax ELSE {login.exp}
      BY <1>4, <2>2, <3>3
    <3>5. CASE ~(login.exp > LongMax)
      <4>1. exp = login.exp
        BY <3>4, <3>5
      <4>2. ~(login.exp = 0 \/ login.exp > Now)
        BY <1>3, <1>7, <3>2, <3>4, <4>1
      <4> QED
        BY <1>4, <2>2, <2>3, <4>2
    <3> QED
      BY <1>4, <2>2, <2>3, <3>5
  <2> QED
    BY <2>4, <2>5
<1> QED
  BY <1>10, <1>11 DEF JwtAuthHolds, asked, login

\* host_guard and header_guard: a request is past one of them exactly if it meets
\* every line that covers it, in any order of the modules and whatever the others
\* pass on.
THEOREM LineGuardsCorrect == Spec => [](HostGuardHolds /\ HeaderGuardHolds)
<1>1. ASSUME ChainInv PROVE HostGuardHolds /\ HeaderGuardHolds
  BY <1>1, HostGuardCorrect, HeaderGuardCorrect
<1> QED
  BY <1>1, ChainCorrect, PTL

\* All three guards of the chain, where the tokens that arrive say what their
\* issuer put into them.
THEOREM GuardsCorrect ==
  ASSUME TokensAreRead PROVE Spec => []GuardsHold
<1>1. ASSUME ChainInv PROVE GuardsHold
  BY <1>1, HostGuardCorrect, HeaderGuardCorrect, JwtAuthCorrect DEF GuardsHold
<1> QED
  BY <1>1, ChainCorrect, PTL

-----------------------------------------------------------------------------
(* Texts put together of pieces.                                           *)

\* The beginnings of a text made of pieces.
Grows(f, s, q) == f[1] = s[1] /\ \A i \in 2..q : f[i] = f[i - 1] \o s[i]

\* A text made of pieces has its beginnings.
LEMMA PiecesGrow ==
  ASSUME NEW s, Text(s), Len(s) > 0
  PROVE  \E f : Grows(f, s, Len(s))
<1> DEFINE n == Len(s)
           S == {k \in Nat : k < n => \E f : Grows(f, s, k + 1)}
<1>1. n \in Nat /\ n > 0
  BY TextFacts
<1> HIDE DEF n
<1>2. 0 \in S
  <2> DEFINE g == [i \in 1..n |-> s[1]]
  <2>1. g[1] = s[1]
    BY <1>1
  <2>2. ~\E i : i \in 2..0 + 1
    OBVIOUS
  <2> HIDE DEF g
  <2>3. Grows(g, s, 0 + 1)
    BY <2>1, <2>2 DEF Grows
  <2> QED
    BY <2>3
<1>3. ASSUME NEW k \in Nat, k \in S PROVE k + 1 \in S
  <2>1. k + 1 \in Nat
    OBVIOUS
  <2>2. SUFFICES ASSUME k + 1 < n PROVE \E f : Grows(f, s, (k + 1) + 1)
    BY <2>1
  <2>3. k < n
    BY <1>1, <2>2
  <2>4. PICK f : Grows(f, s, k + 1)
    BY <1>3, <2>3
  <2> DEFINE q == (k + 1) + 1
             g == [i \in 1..n |-> IF i = q THEN f[q - 1] \o s[q] ELSE f[i]]
  <2>5. q \in 2..n /\ q - 1 \in 1..n /\ q - 1 # q /\ q - 1 = k + 1 /\ q # 1 /\ 1 \in 1..n
    BY <1>1, <2>2
  <2>6. \A i \in 2..q : i \in 1..n /\ i - 1 \in 1..n /\ i - 1 # q /\ (i = q \/ i \in 2..k + 1)
    BY <1>1, <2>2
  <2> HIDE DEF q
  <2>7. \A i \in 1..n : g[i] = IF i = q THEN f[q - 1] \o s[q] ELSE f[i]
    OBVIOUS
  <2> HIDE DEF g
  <2>8. g[1] = s[1]
    BY <2>4, <2>5, <2>7 DEF Grows
  <2>9. ASSUME NEW i \in 2..q PROVE g[i] = g[i - 1] \o s[i]
    <3>1. g[i - 1] = f[i - 1]
      BY <2>6, <2>7
    <3>2. CASE i = q
      BY <2>6, <2>7, <3>1, <3>2
    <3>3. CASE i # q
      BY <2>4, <2>6, <2>7, <3>1, <3>3 DEF Grows
    <3> QED
      BY <3>2, <3>3
  <2>10. Grows(g, s, q)
    BY <2>8, <2>9 DEF Grows
  <2> QED
    BY <2>10 DEF q
<1> HIDE DEF S
<1>4. n - 1 \in Nat /\ n - 1 < n /\ (n - 1) + 1 = n
  BY <1>1
<1>5. n - 1 \in S
  BY <1>2, <1>3, <1>4, NatSetInduction
<1> QED
  BY <1>4, <1>5 DEF S, n

\* FlattenSeq is the last of them.
LEMMA FlattenGrows ==
  ASSUME NEW s, Text(s), Len(s) > 0
  PROVE  \E f : Grows(f, s, Len(s)) /\ FlattenSeq(s) = f[Len(s)]
<1> DEFINE n == Len(s)
           Row(f, i) == IF i = 1 THEN s[i] ELSE f[i - 1] \o s[i]
           Flat(f) == f = [i \in 1..n |-> Row(f, i)]
<1>1. n \in Nat /\ n > 0
  BY TextFacts
<1>2. PICK f : Grows(f, s, n)
  BY PiecesGrow
<1> DEFINE g == [i \in 1..n |-> f[i]]
<1>3. ASSUME NEW i \in 1..n PROVE f[i] = Row(g, i)
  <2>1. CASE i = 1
    BY <1>2, <2>1 DEF Grows
  <2>2. CASE i # 1
    <3>1. i \in 2..n /\ i - 1 \in 1..n
      BY <1>1, <2>2
    <3>2. f[i] = f[i - 1] \o s[i] /\ g[i - 1] = f[i - 1]
      BY <1>2, <3>1 DEF Grows
    <3> HIDE DEF g
    <3> QED
      BY <2>2, <3>2
  <2> QED
    BY <2>1, <2>2
<1> HIDE DEF Row, n
<1>4. g = [i \in 1..n |-> Row(g, i)]
  BY <1>3
<1> HIDE DEF g
<1>5. \E h : Flat(h)
  BY <1>4
<1> HIDE DEF Flat
<1> DEFINE m == CHOOSE h : Flat(h)
<1>6. Flat(m)
  BY <1>5
<1>7. FlattenSeq(s) = m[n]
  BY <1>1 DEF FlattenSeq, Flat, Row, n
<1> HIDE DEF m
<1>8. \A i \in 1..n : m[i] = Row(m, i)
  BY <1>6 DEF Flat
<1>9. Grows(m, s, n)
  <2>1. m[1] = s[1]
    BY <1>1, <1>8 DEF Row
  <2>2. ASSUME NEW i \in 2..n PROVE m[i] = m[i - 1] \o s[i]
    <3>1. i \in 1..n /\ i # 1
      BY <1>1
    <3> QED
      BY <1>8, <3>1 DEF Row
  <2> QED
    BY <2>1, <2>2 DEF Grows
<1> QED
  BY <1>7, <1>9 DEF n

\* Where the pieces begin.
Offsets(s, o) ==
    o[1] = 1 /\ \A i \in 1..Len(s) : o[i] \in Nat /\ o[i + 1] = o[i] + Len(s[i])

\* At these places a text has its pieces.
Laid(s, o, path, q) == \A i \in 1..q : \A j \in 1..Len(s[i]) : path[o[i] + j - 1] = s[i][j]

\* A text of pieces is a beginning of a path exactly if the path has each of the
\* pieces at its place.
LEMMA FlattenLaid ==
  ASSUME NEW s, Text(s), Len(s) > 0, \A i \in 1..Len(s) : Text(s[i]),
         NEW o, Offsets(s, o)
  PROVE  /\ Text(FlattenSeq(s)) /\ o[Len(s) + 1] = Len(FlattenSeq(s)) + 1
         /\ \A path : Text(path) =>
              (IsPrefix(FlattenSeq(s), path) <=> o[Len(s) + 1] <= Len(path) + 1 /\ Laid(s, o, path, Len(s)))
<1> DEFINE n == Len(s)
<1>1. n \in Nat /\ n > 0
  BY TextFacts
<1>2. PICK f : Grows(f, s, n) /\ FlattenSeq(s) = f[n]
  BY FlattenGrows
<1>3. \A i \in 1..n : Len(s[i]) \in Nat
  BY TextFacts
<1>4. o[1] = 1 /\ \A i \in 1..n : o[i] \in Nat /\ o[i + 1] = o[i] + Len(s[i])
  BY DEF Offsets
<1> DEFINE Same(i, path) == \A z \in 1..Len(f[i]) : f[i][z] = path[z]
           Good(i) == /\ Text(f[i]) /\ o[i + 1] = Len(f[i]) + 1
                      /\ \A path : Same(i, path) <=> Laid(s, o, path, i)
           S == {k \in Nat : k < n => Good(k + 1)}
<1> HIDE DEF n
<1>5. 0 \in S
  <2>1. f[1] = s[1] /\ Text(s[1]) /\ 1 \in 1..n
    BY <1>1, <1>2 DEF Grows, n
  <2>2. o[1 + 1] = Len(f[1]) + 1
    BY <1>3, <1>4, <2>1
  <2>3. ASSUME NEW path PROVE Same(1, path) <=> Laid(s, o, path, 1)
    <3>1. Laid(s, o, path, 1) <=> \A j \in 1..Len(s[1]) : path[o[1] + j - 1] = s[1][j]
      BY DEF Laid
    <3>2. \A j \in 1..Len(s[1]) : o[1] + j - 1 = j
      BY <1>3, <1>4
    <3> QED
      BY <2>1, <3>1, <3>2
  <2> HIDE DEF Same
  <2>4. Good(0 + 1)
    BY <2>1, <2>2, <2>3
  <2> HIDE DEF Good
  <2> QED
    BY <2>4
<1>6. ASSUME NEW k \in Nat, k \in S PROVE k + 1 \in S
  <2>1. k + 1 \in Nat
    OBVIOUS
  <2>2. SUFFICES ASSUME k + 1 < n PROVE Good((k + 1) + 1)
    BY <2>1
  <2> DEFINE q == k + 1
             r == q + 1
             a == f[q]
             b == s[r]
  <2>3. k < n /\ q \in 1..n /\ r \in 2..n /\ r \in 1..n /\ r - 1 = q
    BY <1>1, <2>2
  <2>4. Good(q)
    BY <1>6, <2>3
  <2> HIDE DEF q, r
  <2>5. f[r] = a \o b
    BY <1>2, <2>3 DEF Grows
  <2>6. Text(a) /\ Text(b) /\ o[r] = Len(a) + 1 /\ Len(a) \in Nat /\ Len(b) \in Nat
    BY <2>3, <2>4, TextFacts DEF n, r
  <2> HIDE DEF a, b
  <2>7. /\ Text(a \o b) /\ Len(a \o b) = Len(a) + Len(b)
        /\ \A i \in 1..Len(a) : (a \o b)[i] = a[i]
        /\ \A i \in 1..Len(b) : (a \o b)[Len(a) + i] = b[i]
    BY <2>6, TextConcat
  <2>8. o[r + 1] = Len(f[r]) + 1
    <3>1. o[r + 1] = o[r] + Len(b)
      BY <1>4, <2>3 DEF b
    <3>2. Len(f[r]) = Len(a) + Len(b)
      BY <2>5, <2>7
    <3> QED
      BY <2>6, <3>1, <3>2
  <2>9. ASSUME NEW path PROVE Same(r, path) <=> Laid(s, o, path, r)
    <3> DEFINE Here == \A j \in 1..Len(b) : path[o[r] + j - 1] = b[j]
    <3>1. Laid(s, o, path, r) <=> Laid(s, o, path, q) /\ Here
      <4>1. \A i : i \in 1..r <=> i \in 1..q \/ i = r
        BY <2>3
      <4> QED
        BY <4>1 DEF Laid, b
    <3>2. Laid(s, o, path, q) <=> \A z \in 1..Len(a) : a[z] = path[z]
      BY <2>4 DEF a
    <3>3. \A j \in 1..Len(b) : o[r] + j - 1 = Len(a) + j
      BY <2>6
    <3>4. Same(r, path) <=> \A z \in 1..Len(a) + Len(b) : (a \o b)[z] = path[z]
      BY <2>5, <2>7
    <3>5. (\A z \in 1..Len(a) + Len(b) : (a \o b)[z] = path[z]) <=>
            (\A z \in 1..Len(a) : a[z] = path[z]) /\ (\A j \in 1..Len(b) : path[Len(a) + j] = b[j])
      <4>1. ASSUME \A z \in 1..Len(a) + Len(b) : (a \o b)[z] = path[z]
            PROVE  (\A z \in 1..Len(a) : a[z] = path[z]) /\ (\A j \in 1..Len(b) : path[Len(a) + j] = b[j])
        <5>1. /\ \A z \in 1..Len(a) : z \in 1..Len(a) + Len(b)
              /\ \A j \in 1..Len(b) : Len(a) + j \in 1..Len(a) + Len(b)
          BY <2>6
        <5> QED
          BY <2>7, <4>1, <5>1
      <4>2. ASSUME \A z \in 1..Len(a) : a[z] = path[z], \A j \in 1..Len(b) : path[Len(a) + j] = b[j],
                   NEW z \in 1..Len(a) + Len(b)
            PROVE  (a \o b)[z] = path[z]
        <5>1. CASE z \in 1..Len(a)
          BY <2>7, <4>2, <5>1
        <5>2. CASE ~(z \in 1..Len(a))
          <6>1. z - Len(a) \in 1..Len(b) /\ Len(a) + (z - Len(a)) = z
            BY <2>6, <5>2
          <6> QED
            BY <2>7, <4>2, <6>1
        <5> QED
          BY <5>1, <5>2
      <4> QED
        BY <4>1, <4>2
    <3> QED
      BY <3>1, <3>2, <3>3, <3>4, <3>5
  <2> HIDE DEF Same
  <2>10. Good(r)
    BY <2>5, <2>7, <2>8, <2>9
  <2> HIDE DEF Good
  <2> QED
    BY <2>10 DEF r, q
<1> HIDE DEF S
<1>7. n - 1 \in Nat /\ n - 1 < n /\ (n - 1) + 1 = n
  BY <1>1
<1>8. n - 1 \in S
  BY <1>5, <1>6, <1>7, NatSetInduction
<1> HIDE DEF Good
<1>9. Good(n)
  BY <1>7, <1>8 DEF S
<1>10. Text(f[n]) /\ o[n + 1] = Len(f[n]) + 1 /\ Len(f[n]) \in Nat
  BY <1>9, TextFacts DEF Good
<1>11. ASSUME NEW path, Text(path)
       PROVE  IsPrefix(f[n], path) <=> o[n + 1] <= Len(path) + 1 /\ Laid(s, o, path, n)
  <2>1. IsPrefix(f[n], path) <=> Len(f[n]) <= Len(path) /\ Same(n, path)
    BY <1>10, <1>11, PrefixFacts
  <2>2. Same(n, path) <=> Laid(s, o, path, n)
    BY <1>9 DEF Good
  <2>3. Len(f[n]) <= Len(path) <=> o[n + 1] <= Len(path) + 1
    <3>1. Len(path) \in Nat
      BY <1>11, TextFacts
    <3> QED
      BY <1>10, <3>1
  <2> QED
    BY <2>1, <2>2, <2>3
<1> QED
  BY <1>2, <1>10, <1>11 DEF n

\* Pieces have places.
LEMMA OffsetsExist ==
  ASSUME NEW s, Text(s), Len(s) > 0, \A i \in 1..Len(s) : Text(s[i])
  PROVE  \E o : Offsets(s, o)
<1> DEFINE n == Len(s)
<1>1. n \in Nat /\ n > 0
  BY TextFacts
<1>2. PICK f : Grows(f, s, n)
  BY PiecesGrow
<1>3. \A i \in 1..n : Text(s[i])
  OBVIOUS
<1> DEFINE o == [i \in 1..n + 1 |-> IF i = 1 THEN 1 ELSE Len(f[i - 1]) + 1]
           S == {k \in Nat : k < n => Text(f[k + 1])}
<1> HIDE DEF n
<1>4. 0 \in S
  <2>1. f[0 + 1] = s[1] /\ Text(s[1])
    BY <1>1, <1>2, <1>3 DEF Grows
  <2> QED
    BY <2>1
<1>5. ASSUME NEW k \in Nat, k \in S PROVE k + 1 \in S
  <2>1. k + 1 \in Nat
    OBVIOUS
  <2>2. SUFFICES ASSUME k + 1 < n PROVE Text(f[(k + 1) + 1])
    BY <2>1
  <2>3. k < n /\ (k + 1) + 1 \in 2..n /\ (k + 1) + 1 \in 1..n /\ ((k + 1) + 1) - 1 = k + 1
    BY <1>1, <2>2
  <2>4. f[(k + 1) + 1] = f[k + 1] \o s[(k + 1) + 1] /\ Text(s[(k + 1) + 1])
    BY <1>2, <1>3, <2>3 DEF Grows
  <2>5. Text(f[k + 1])
    BY <1>5, <2>3
  <2> QED
    BY <2>4, <2>5, TextConcat
<1>6. \A i \in 1..n : Text(f[i])
  <2> HIDE DEF S
  <2>1. \A k \in Nat : k \in S
    BY <1>4, <1>5, NatSetInduction
  <2>2. ASSUME NEW i \in 1..n PROVE Text(f[i])
    <3>1. i - 1 \in Nat /\ i - 1 < n /\ (i - 1) + 1 = i
      BY <1>1
    <3> QED
      BY <2>1, <3>1 DEF S
  <2> QED
    BY <2>2
<1>7. \A i \in 1..n : Len(f[i]) \in Nat /\ Len(s[i]) \in Nat
  BY <1>3, <1>6, TextFacts
<1>8. o[1] = 1 /\ \A i \in 1..n : o[i + 1] = Len(f[i]) + 1
  <2>1. ASSUME NEW i \in 1..n PROVE o[i + 1] = Len(f[i]) + 1
    <3>1. i + 1 \in 1..n + 1 /\ i + 1 # 1 /\ (i + 1) - 1 = i
      BY <1>1
    <3>2. o[i + 1] = IF i + 1 = 1 THEN 1 ELSE Len(f[(i + 1) - 1]) + 1
      BY <3>1
    <3> QED
      BY <3>1, <3>2
  <2>2. o[1] = 1
    BY <1>1
  <2> QED
    BY <2>1, <2>2
<1> HIDE DEF o
<1>9. ASSUME NEW i \in 1..n PROVE o[i] \in Nat /\ o[i + 1] = o[i] + Len(s[i])
  <2>1. CASE i = 1
    <3>1. f[1] = s[1]
      BY <1>2 DEF Grows
    <3> QED
      BY <1>7, <1>8, <1>9, <2>1, <3>1
  <2>2. CASE i # 1
    <3> DEFINE h == i - 1
    <3>1. i \in 2..n /\ h \in 1..n /\ h + 1 = i
      BY <1>1, <2>2
    <3>2. f[i] = f[h] \o s[i] /\ Text(f[h]) /\ Text(s[i])
      BY <1>2, <1>3, <1>6, <3>1 DEF Grows
    <3> HIDE DEF h
    <3>3. Len(f[i]) = Len(f[h]) + Len(s[i])
      BY <3>2, TextConcat
    <3>4. o[i] = Len(f[h]) + 1 /\ o[i + 1] = Len(f[i]) + 1
      BY <1>8, <3>1
    <3>5. Len(f[h]) \in Nat /\ Len(s[i]) \in Nat
      BY <1>7, <3>1
    <3>6. \A a, b \in Nat : a + 1 \in Nat /\ (a + b) + 1 = (a + 1) + b
      OBVIOUS
    <3> DEFINE a == Len(f[h])
               b == Len(s[i])
    <3>7. /\ o[i] = a + 1 /\ o[i + 1] = (a + b) + 1
          /\ a + 1 \in Nat /\ (a + b) + 1 = (a + 1) + b
      BY <3>3, <3>4, <3>5, <3>6
    <3> HIDE DEF a
    <3> QED
      BY <3>7
  <2> QED
    BY <2>1, <2>2
<1> QED
  BY <1>8, <1>9 DEF Offsets, n

-----------------------------------------------------------------------------
(* What the router looks for: the ways a pattern lies on a path.           *)

\* w is what the path has at t, without a '/'.
TakenAt(path, w, t) == Text(w) /\ \A j \in 1..Len(w) : w[j] # "/" /\ path[t + j - 1] = w[j]

\* The word of a pattern at i is on the path at o[i], a name taken for v[i].
LiesAt(text, path, v, o, i) ==
    /\ i \in NamesIn(text) => TakenAt(path, v[i], o[i]) /\ o[i + 1] = o[i] + Len(v[i])
    /\ i \notin NamesIn(text) /\ text[i] \in {Open, Close} => o[i + 1] = o[i]
    /\ i \notin NamesIn(text) /\ text[i] \notin {Open, Close} =>
          o[i + 1] = o[i] + 1 /\ path[o[i]] = text[i]

\* A way of the words of a pattern from p on, at t in the path.
Way(pattern, path, v, o, p, t) ==
    /\ o[p] = t
    /\ \A i \in p..Len(pattern.text) + 1 : o[i] \in 1..Len(path) + 1
    /\ \A i \in p..Len(pattern.text) : LiesAt(pattern.text, path, v, o, i)
    /\ pattern.kind = "exact" => o[Len(pattern.text) + 1] = Len(path) + 1

\* A way is its first word and the way of the others.
LEMMA WayStep ==
  ASSUME NEW pattern, NEW path, Text(pattern.text), Text(path), NEW v, NEW o,
         NEW p \in 1..Len(pattern.text), NEW t
  PROVE  Way(pattern, path, v, o, p, t) <=>
           /\ o[p] = t /\ t \in 1..Len(path) + 1 /\ LiesAt(pattern.text, path, v, o, p)
           /\ Way(pattern, path, v, o, p + 1, o[p + 1])
<1> DEFINE n == Len(pattern.text)
<1>1. n \in Nat
  BY TextFacts
<1>2. /\ \A i : i \in p..n + 1 <=> i = p \/ i \in p + 1..n + 1
      /\ \A i : i \in p..n <=> i = p \/ i \in p + 1..n
  BY <1>1
<1> HIDE DEF n
<1> QED
  BY <1>2 DEF Way, n

\* It says nothing of values and places before it.
LEMMA WayAgrees ==
  ASSUME NEW pattern, NEW path, Text(pattern.text), NEW v, NEW o, NEW w, NEW x,
         NEW p \in 1..Len(pattern.text) + 1, NEW t, Way(pattern, path, v, o, p, t),
         \A i \in p..Len(pattern.text) : i \in NamesIn(pattern.text) => w[i] = v[i],
         \A i \in p..Len(pattern.text) + 1 : x[i] = o[i]
  PROVE  Way(pattern, path, w, x, p, t)
<1> DEFINE n == Len(pattern.text)
<1>1. n \in Nat
  BY TextFacts
<1>2. /\ p \in p..n + 1 /\ n + 1 \in p..n + 1
      /\ \A i \in p..n : i \in p..n + 1 /\ i + 1 \in p..n + 1
  BY <1>1
<1>3. ASSUME NEW i \in p..n PROVE LiesAt(pattern.text, path, w, x, i)
  <2>1. LiesAt(pattern.text, path, v, o, i)
    BY <1>3 DEF Way
  <2>2. /\ i \in NamesIn(pattern.text) => w[i] = v[i]
        /\ x[i] = o[i] /\ x[i + 1] = o[i + 1]
    BY <1>2, <1>3
  <2> HIDE DEF n
  <2> QED
    BY <2>1, <2>2 DEF LiesAt
<1> QED
  BY <1>2, <1>3 DEF Way

\* A place where the loop may be: not inside the braces of a name.
Aligned(text, p) == p \notin NamesIn(text) /\ (p <= Len(text) => text[p] # Close)

\* The braces are different words.
LEMMA BracesDiffer == Open # Close
  BY Zenon DEF Open, Close

\* Where the names are.
LEMMA NameAt ==
  ASSUME NEW text, Text(text), NEW i
  PROVE  i \in NamesIn(text) <=> i \in 1..Len(text) /\ i > 1 /\ text[i - 1] = Open
<1>1. DOMAIN text = 1..Len(text)
  BY TextFacts
<1> QED
  BY <1>1 DEF NamesIn

\* At an opening brace, in a pattern whose names take segments: the name, the
\* closing brace, and then a '/' or the end.
LEMMA AtName ==
  ASSUME NEW text, Text(text), SegmentPattern(text), NEW p \in 1..Len(text), text[p] = Open, Aligned(text, p)
  PROVE  /\ p + 2 \in 1..Len(text) /\ Closing(text, p) = p + 2
         /\ p + 1 \in NamesIn(text) /\ p \notin NamesIn(text) /\ p + 2 \notin NamesIn(text)
         /\ text[p + 2] = Close
         /\ Aligned(text, p + 3)
         /\ p + 3 <= Len(text) => text[p + 3] = "/" /\ p + 3 \notin NamesIn(text)
<1> DEFINE n == Len(text)
<1>1. n \in Nat /\ DOMAIN text = 1..n
  BY TextFacts
<1> HIDE DEF n
<1>2. \A i \in 1..n : /\ text[i] = Open => /\ i + 2 <= n /\ text[i + 2] = Close
                                           /\ text[i + 1] # Open /\ text[i + 1] # Close
                      /\ text[i] = Close => /\ i > 2 /\ text[i - 2] = Open
                                            /\ i = n \/ text[i + 1] = "/"
  BY <1>1, Zenon DEF SegmentPattern, n
<1>3. p \in 1..n
  BY DEF n
<1>4. p + 2 <= n /\ text[p + 2] = Close /\ text[p + 1] # Open /\ text[p + 1] # Close
  BY <1>2, <1>3
<1>5. p + 2 \in 1..n /\ p + 1 \in 1..n
  BY <1>1, <1>3, <1>4
<1>6. p + 1 \in NamesIn(text) /\ p \notin NamesIn(text) /\ p + 2 \notin NamesIn(text)
  <2>1. p + 1 > 1 /\ (p + 1) - 1 = p /\ (p + 2) - 1 = p + 1
    BY <1>3
  <2>2. p + 1 \in NamesIn(text)
    BY <1>5, <2>1, NameAt DEF n
  <2>3. p + 2 \notin NamesIn(text)
    BY <1>4, <2>1, NameAt DEF n
  <2> QED
    BY <2>2, <2>3 DEF Aligned
<1>7. Closing(text, p) = p + 2
  <2> DEFINE C == {i \in DOMAIN text : i > p /\ text[i] = Close}
  <2>1. p + 2 \in C
    BY <1>1, <1>4, <1>5
  <2>2. C \subseteq Nat \ {0}
    BY <1>1
  <2>3. \A i \in C : i >= p + 2
    <3>1. ASSUME NEW i \in C PROVE i >= p + 2
      <4>1. i \in 1..n /\ i > p /\ i # p + 1
        BY <1>1, <1>4
      <4> QED
        BY <1>3, <4>1
    <3> QED
      BY <3>1
  <2>4. Closing(text, p) = FirstOf(C)
    BY DEF Closing
  <2> HIDE DEF C
  <2>5. FirstOf(C) \in C /\ FirstOf(C) <= p + 2
    BY <2>1, <2>2, FirstOfFacts
  <2>6. FirstOf(C) \in Nat /\ FirstOf(C) >= p + 2
    BY <2>2, <2>3, <2>5
  <2> QED
    BY <1>3, <2>4, <2>5, <2>6
<1>8. p + 3 \notin NamesIn(text)
  <2>1. (p + 3) - 1 = p + 2
    BY <1>3
  <2> QED
    BY <1>4, <2>1, NameAt, BracesDiffer
<1>9. ASSUME p + 3 <= n PROVE text[p + 3] = "/" /\ text[p + 3] # Close
  <2>1. p + 2 # n /\ (p + 2) + 1 = p + 3 /\ p + 3 \in 1..n /\ (p + 3) - 2 = p + 1
    BY <1>1, <1>3, <1>9
  <2>2. text[p + 3] = "/"
    BY <1>2, <1>4, <1>5, <2>1
  <2>3. text[p + 3] # Close
    BY <1>2, <1>4, <2>1
  <2> QED
    BY <2>2, <2>3
<1> QED
  BY <1>4, <1>5, <1>6, <1>7, <1>8, <1>9 DEF Aligned, n

\* ... and at any other word the loop stays outside braces.
LEMMA AtWord ==
  ASSUME NEW text, Text(text), SegmentPattern(text), NEW p \in 1..Len(text), text[p] # Open, Aligned(text, p)
  PROVE  p \notin NamesIn(text) /\ text[p] \notin {Open, Close} /\ Aligned(text, p + 1)
<1> DEFINE n == Len(text)
<1>1. n \in Nat /\ DOMAIN text = 1..n
  BY TextFacts
<1>2. p \notin NamesIn(text) /\ text[p] # Close /\ p \in 1..n
  BY <1>1 DEF Aligned
<1> HIDE DEF n
<1>3. \A i \in 1..n : text[i] = Close => i > 2 /\ text[i - 2] = Open
  BY <1>1, Zenon DEF SegmentPattern
<1>4. p + 1 \notin NamesIn(text)
  <2>1. (p + 1) - 1 = p
    BY <1>2
  <2> QED
    BY <2>1, NameAt
<1>5. ASSUME p + 1 <= n PROVE text[p + 1] # Close
  <2>1. SUFFICES ASSUME text[p + 1] = Close PROVE FALSE
    OBVIOUS
  <2>2. p + 1 \in 1..n /\ (p + 1) - 2 = p - 1
    BY <1>1, <1>2, <1>5
  <2>3. p + 1 > 2 /\ text[p - 1] = Open
    BY <1>3, <2>1, <2>2
  <2>4. p > 1
    BY <1>2, <2>3
  <2> QED
    BY <1>2, <2>3, <2>4, NameAt DEF n
<1> QED
  BY <1>2, <1>4, <1>5 DEF Aligned, n

\* hs has the names of a pattern from p on in their order, with their values.
Captured(text, hs, v, p) ==
    /\ Text(hs)
    /\ \E pos :
          /\ \A i \in NamesIn(text) : i >= p => pos[i] \in DOMAIN hs /\ hs[pos[i]] = <<text[i], v[i]>>
          /\ \A i, j \in NamesIn(text) : p <= i /\ i < j => pos[i] < pos[j]

\* No way takes more for a name than v does.
Longest(pattern, path, v, p, t) ==
    \A w, x : Way(pattern, path, w, x, p, t) =>
        \A i \in NamesIn(pattern.text) : i >= p => IsPrefix(w[i], v[i])

\* The loop's result from p at t is right: a match exactly if there is a way, and
\* then what is captured are the values of the way that takes the most.
Found(pattern, path, res, p, t) ==
    /\ res.matched => \E v, o : /\ Way(pattern, path, v, o, p, t)
                                /\ Captured(pattern.text, res.captures, v, p)
                                /\ Longest(pattern, path, v, p, t)
    /\ (\E v, o : Way(pattern, path, v, o, p, t)) => res.matched

\* At the end of the pattern.
LEMMA FoundEnd ==
  ASSUME NEW pattern, NEW path, Text(pattern.text), Text(path), pattern.kind \in {"exact", "prefix"},
         NEW t \in 1..Len(path) + 1
  PROVE  Found(pattern, path,
               IF t > Len(path) \/ pattern.kind = "prefix" THEN Match(<<>>) ELSE NoMatch,
               Len(pattern.text) + 1, t)
<1> DEFINE n == Len(pattern.text)
           k == Len(path)
           end == t > k \/ pattern.kind = "prefix"
           res == IF end THEN Match(<<>>) ELSE NoMatch
<1>1. n \in Nat /\ k \in Nat
  BY TextFacts
<1>2. res.matched <=> end
  BY DEF Match, NoMatch
<1>3. end => res.captures = <<>>
  BY DEF Match
<1>4. \A v, o : Way(pattern, path, v, o, n + 1, t) <=> o[n + 1] = t /\ (pattern.kind = "exact" => t = k + 1)
  <2>1. (\A i \in n + 1..n + 1 : i = n + 1) /\ n + 1 \in n + 1..n + 1 /\ ~\E i : i \in n + 1..n
    BY <1>1
  <2> HIDE DEF n, k
  <2>2. t \in 1..k + 1
    BY DEF k
  <2> QED
    BY <2>1, <2>2 DEF Way, n, k
<1>5. \A i \in NamesIn(pattern.text) : ~(i >= n + 1)
  <2>1. \A i \in NamesIn(pattern.text) : i \in 1..n
    BY NameAt
  <2> QED
    BY <1>1, <2>1
<1>6. end <=> (pattern.kind = "exact" => t = k + 1)
  BY <1>1
<1> HIDE DEF n, k, end, res
<1>7. ASSUME res.matched
      PROVE  \E v, o : /\ Way(pattern, path, v, o, n + 1, t)
                       /\ Captured(pattern.text, res.captures, v, n + 1)
                       /\ Longest(pattern, path, v, n + 1, t)
  <2> DEFINE o == [i \in {n + 1} |-> t]
             v == <<>>
  <2>1. o[n + 1] = t
    OBVIOUS
  <2> HIDE DEF o, v
  <2>2. Way(pattern, path, v, o, n + 1, t)
    BY <1>2, <1>4, <1>6, <1>7, <2>1
  <2>3. Captured(pattern.text, res.captures, v, n + 1)
    <3>1. <<>> \in Seq({})
      OBVIOUS
    <3>2. Text(<<>>)
      BY <3>1, SeqIsText
    <3>3. Text(res.captures)
      BY <1>2, <1>3, <1>7, <3>2
    <3>4. ASSUME NEW i \in NamesIn(pattern.text), NEW j \in NamesIn(pattern.text)
          PROVE ~(n + 1 <= i)
      <4>1. i \in 1..n
        BY NameAt DEF n
      <4> QED
        BY <1>1, <4>1
    <3> QED
      BY <1>5, <3>3, <3>4 DEF Captured
  <2>4. Longest(pattern, path, v, n + 1, t)
    BY <1>5 DEF Longest
  <2> QED
    BY <2>2, <2>3, <2>4
<1>8. ASSUME NEW v, NEW o, Way(pattern, path, v, o, n + 1, t) PROVE res.matched
  BY <1>2, <1>4, <1>6, <1>8
<1>9. Found(pattern, path, res, n + 1, t)
  BY <1>7, <1>8 DEF Found
<1> QED
  BY <1>9 DEF n, k, end, res

\* At a word of the pattern, given what is found behind it.
LEMMA FoundWord ==
  ASSUME NEW pattern, NEW path, Text(pattern.text), Text(path),
         NEW p \in 1..Len(pattern.text), NEW t \in 1..Len(path) + 1,
         p \notin NamesIn(pattern.text), pattern.text[p] \notin {Open, Close},
         NEW rest, t <= Len(path) => Found(pattern, path, rest, p + 1, t + 1)
  PROVE  Found(pattern, path,
               IF t > Len(path) \/ pattern.text[p] # path[t] THEN NoMatch ELSE rest, p, t)
<1> DEFINE text == pattern.text
           n == Len(text)
           k == Len(path)
           here == t <= k /\ text[p] = path[t]
           res == IF t > k \/ text[p] # path[t] THEN NoMatch ELSE rest
<1>1. n \in Nat /\ k \in Nat /\ p \in 1..n /\ t \in 1..k + 1 /\ Text(text)
  BY TextFacts
<1>2. here => res = rest
  BY <1>1
<1>3. ~here => res = NoMatch
  BY <1>1
<1>4. \A v, o : Way(pattern, path, v, o, p, t) <=>
                  /\ o[p] = t /\ LiesAt(text, path, v, o, p)
                  /\ Way(pattern, path, v, o, p + 1, o[p + 1])
  BY WayStep
<1>5. \A v, o : LiesAt(text, path, v, o, p) <=> o[p + 1] = o[p] + 1 /\ path[o[p]] = text[p]
  BY DEF LiesAt
<1>6. \A v, o, u : Way(pattern, path, v, o, p + 1, u) => o[p + 1] = u /\ u \in 1..k + 1
  <2>1. p + 1 \in p + 1..n + 1
    BY <1>1
  <2> HIDE DEF n, k
  <2> QED
    BY <2>1 DEF Way, n, k, text
<1>7. \A i \in NamesIn(text) : i \in 1..n /\ i # p
  BY NameAt
<1>8. here => Found(pattern, path, rest, p + 1, t + 1)
  OBVIOUS
<1> HIDE DEF here, res, n, k
<1>9. ASSUME NEW v, NEW o, Way(pattern, path, v, o, p, t)
      PROVE  here /\ Way(pattern, path, v, o, p + 1, t + 1)
  <2>1. o[p + 1] = t + 1 /\ path[t] = text[p] /\ Way(pattern, path, v, o, p + 1, o[p + 1])
    BY <1>4, <1>5, <1>9
  <2>2. t + 1 \in 1..k + 1
    BY <1>6, <2>1
  <2>3. t <= k
    BY <1>1, <2>2
  <2> QED
    BY <2>1, <2>3 DEF here
<1>10. \A i \in NamesIn(text) : i >= p => i >= p + 1
  BY <1>1, <1>7
<1>11. ASSUME res.matched
       PROVE  \E v, o : /\ Way(pattern, path, v, o, p, t)
                        /\ Captured(text, res.captures, v, p)
                        /\ Longest(pattern, path, v, p, t)
  <2>1. here /\ res = rest
    BY <1>2, <1>3, <1>11 DEF NoMatch
  <2>2. PICK v, y : /\ Way(pattern, path, v, y, p + 1, t + 1)
                    /\ Captured(text, rest.captures, v, p + 1)
                    /\ Longest(pattern, path, v, p + 1, t + 1)
    BY <1>8, <1>11, <2>1 DEF Found
  <2> DEFINE o == [i \in 1..n + 1 |-> IF i = p THEN t ELSE y[i]]
  <2>3. o[p] = t /\ (\A i \in p + 1..n + 1 : o[i] = y[i]) /\ p + 1 \in 1..n + 1 /\ p + 1 \in p + 1..n + 1
    BY <1>1
  <2> HIDE DEF o
  <2>4. Way(pattern, path, v, o, p + 1, t + 1)
    BY <2>2, <2>3, WayAgrees DEF n, text
  <2>5. y[p + 1] = t + 1
    BY <1>6, <2>2
  <2>6. Way(pattern, path, v, o, p, t)
    <3>1. o[p + 1] = t + 1
      BY <2>3, <2>5
    <3>2. LiesAt(text, path, v, o, p)
      BY <1>5, <2>1, <2>3, <3>1 DEF here
    <3> QED
      BY <1>4, <2>3, <2>4, <3>1, <3>2
  <2>7. Captured(text, rest.captures, v, p)
    <3>1. PICK pos :
            /\ \A i \in NamesIn(text) :
                 i >= p + 1 => pos[i] \in DOMAIN rest.captures /\ rest.captures[pos[i]] = <<text[i], v[i]>>
            /\ \A i, j \in NamesIn(text) : p + 1 <= i /\ i < j => pos[i] < pos[j]
      BY <2>2 DEF Captured
    <3>2. \A i \in NamesIn(text) : p <= i => p + 1 <= i
      BY <1>1, <1>7
    <3> QED
      BY <1>10, <2>2, <3>1, <3>2 DEF Captured
  <2>8. Longest(pattern, path, v, p, t)
    BY <1>9, <1>10, <2>2 DEF Longest
  <2> QED
    BY <2>1, <2>6, <2>7, <2>8
<1>12. ASSUME NEW v, NEW o, Way(pattern, path, v, o, p, t) PROVE res.matched
  <2>1. here /\ Way(pattern, path, v, o, p + 1, t + 1)
    BY <1>9, <1>12
  <2>2. rest.matched
    BY <1>8, <2>1 DEF Found
  <2> QED
    BY <1>2, <2>1, <2>2
<1>13. Found(pattern, path, res, p, t)
  BY <1>11, <1>12 DEF Found
<1> QED
  BY <1>13 DEF res, k, n

\* What a name takes: the path from t up to the next '/'.
Segment(path, t) == SubSeq(path, t, SegmentEnd(path, t) - 1)

\* A segment is there, and has no '/'.
LEMMA SegmentFacts ==
  ASSUME NEW path, Text(path), NEW t \in 1..Len(path) + 1
  PROVE  /\ SegmentEnd(path, t) \in t..Len(path) + 1
         /\ \A i \in t..SegmentEnd(path, t) - 1 : path[i] # "/"
         /\ SegmentEnd(path, t) <= Len(path) => path[SegmentEnd(path, t)] = "/"
         /\ TakenAt(path, Segment(path, t), t)
         /\ t + Len(Segment(path, t)) = SegmentEnd(path, t)
<1> DEFINE e == SegmentEnd(path, t)
           k == Len(path)
           w == Segment(path, t)
<1>0. Len(path) \in Nat
  BY TextFacts
<1>1. /\ e \in t..k + 1 /\ \A i \in t..e - 1 : path[i] # "/"
      /\ e <= k => path[e] = "/"
  <2> DEFINE one == <<Open>>
  <2>1. one \in Seq({Open}) /\ Len(one) = 1
    OBVIOUS
  <2> HIDE DEF one
  <2>2. Text(one) /\ 1 \in 1..Len(one)
    BY <2>1, SeqIsText
  <2> QED
    BY <2>2, LoopProgress
<1> HIDE DEF e
<1>2. t \in Nat \ {0} /\ e - 1 \in 0..k
  BY <1>0, <1>1
<1>3. /\ Text(w) /\ Len(w) = IF t <= e - 1 THEN (e - 1) - t + 1 ELSE 0
      /\ \A i \in 1..(e - 1) - t + 1 : w[i] = path[t + i - 1]
  BY <1>2, TextSubSeq DEF Segment, e
<1> HIDE DEF w
<1>4. Len(w) = e - t /\ (e - 1) - t + 1 = e - t
  BY <1>0, <1>1, <1>3
<1>5. ASSUME NEW j \in 1..Len(w) PROVE w[j] # "/" /\ path[t + j - 1] = w[j]
  <2>1. w[j] = path[t + j - 1]
    BY <1>3, <1>4, <1>5
  <2>2. t + j - 1 \in t..e - 1
    BY <1>0, <1>1, <1>4, <1>5
  <2> QED
    BY <1>1, <2>1, <2>2
<1>6. t + Len(w) = e
  BY <1>0, <1>1, <1>4
<1>7. TakenAt(path, w, t)
  BY <1>3, <1>5 DEF TakenAt
<1> QED
  BY <1>1, <1>6, <1>7 DEF e, w

\* A way takes for a name a beginning of the segment, and goes on from the end of
\* it: behind the name are a '/' or the end of the pattern.
LEMMA NameWay ==
  ASSUME NEW pattern, NEW path, Text(pattern.text), Text(path), SegmentPattern(pattern.text),
         pattern.kind \in {"exact", "prefix"},
         NEW p \in 1..Len(pattern.text), NEW t \in 1..Len(path) + 1,
         pattern.text[p] = Open, Aligned(pattern.text, p),
         NEW w, NEW x, Way(pattern, path, w, x, p, t)
  PROVE  /\ IsPrefix(w[p + 1], Segment(path, t))
         /\ \E y : Way(pattern, path, w, y, p + 3, SegmentEnd(path, t))
<1> DEFINE text == pattern.text
           n == Len(text)
           k == Len(path)
           e == SegmentEnd(path, t)
           u == w[p + 1]
           a == t + Len(u)
<1>1. n \in Nat /\ k \in Nat /\ p \in 1..n /\ t \in 1..k + 1 /\ Text(text)
  BY TextFacts
<1>2. /\ p + 2 \in 1..n
      /\ p + 1 \in NamesIn(text) /\ p \notin NamesIn(text) /\ p + 2 \notin NamesIn(text)
      /\ text[p] = Open /\ text[p + 2] = Close
      /\ p + 3 <= n => text[p + 3] = "/" /\ p + 3 \notin NamesIn(text)
  BY AtName
<1>3. p + 1 \in 1..n /\ (p + 1) + 1 = p + 2 /\ (p + 2) + 1 = p + 3
  <2>1. n \in Nat /\ p \in 1..n /\ p + 2 \in 1..n
    BY <1>1, <1>2
  <2> HIDE DEF n
  <2> QED
    BY <2>1
<1>4. x[p] = t /\ x[p + 1] = t /\ Way(pattern, path, w, x, p + 1, t)
  <2>1. x[p] = t /\ LiesAt(text, path, w, x, p) /\ Way(pattern, path, w, x, p + 1, x[p + 1])
    BY WayStep
  <2>2. x[p + 1] = x[p]
    BY <1>2, <2>1 DEF LiesAt
  <2> QED
    BY <2>1, <2>2
<1>5. TakenAt(path, u, t) /\ x[p + 2] = a /\ Way(pattern, path, w, x, p + 2, a)
  <2>1. LiesAt(text, path, w, x, p + 1) /\ Way(pattern, path, w, x, p + 2, x[p + 2])
    BY <1>3, <1>4, WayStep
  <2>2. TakenAt(path, u, x[p + 1]) /\ x[p + 2] = x[p + 1] + Len(u)
    BY <1>2, <1>3, <2>1 DEF LiesAt
  <2> QED
    BY <1>4, <2>1, <2>2
<1>6. x[p + 3] = a /\ Way(pattern, path, w, x, p + 3, a)
  <2>0. p + 2 \in 1..Len(pattern.text) /\ Way(pattern, path, w, x, p + 2, a)
    BY <1>2, <1>5
  <2> HIDE DEF a
  <2>1. LiesAt(text, path, w, x, p + 2) /\ Way(pattern, path, w, x, p + 3, x[p + 3])
    <3>1. LiesAt(text, path, w, x, p + 2) /\ Way(pattern, path, w, x, (p + 2) + 1, x[(p + 2) + 1])
      BY <2>0, WayStep
    <3> QED
      BY <1>3, <3>1
  <2>2. x[p + 3] = x[p + 2]
    BY <1>2, <1>3, <2>1 DEF LiesAt
  <2> QED
    BY <1>5, <2>1, <2>2
<1>7. a \in 1..k + 1
  <2>1. p + 3 \in p + 3..n + 1
    BY <1>1, <1>2
  <2> QED
    BY <1>6, <2>1 DEF Way
<1>8. Text(u) /\ Len(u) \in Nat /\ \A j \in 1..Len(u) : u[j] # "/" /\ path[t + j - 1] = u[j]
  BY <1>5, TextFacts DEF TakenAt
<1>9. /\ e \in t..k + 1 /\ \A i \in t..e - 1 : path[i] # "/"
      /\ e <= k => path[e] = "/"
      /\ TakenAt(path, Segment(path, t), t) /\ t + Len(Segment(path, t)) = e
  BY SegmentFacts
<1>10. (pattern.kind = "exact" => x[n + 1] = k + 1) /\ \A i \in p + 3..n + 1 : x[i] \in 1..k + 1
  BY <1>6 DEF Way
<1>11. p + 3 <= n => Way(pattern, path, w, x, p + 3, a) /\ LiesAt(text, path, w, x, p + 3)
  <2>1. p + 3 <= n => p + 3 \in p + 3..n
    BY <1>1
  <2> QED
    BY <1>6, <2>1 DEF Way
<1> HIDE DEF n, k, e, u
<1>12. a <= e
  <2>1. SUFFICES ASSUME e < a PROVE FALSE
    BY <1>1, <1>7, <1>9
  <2>2. e <= k /\ e - t + 1 \in 1..Len(u) /\ t + (e - t + 1) - 1 = e
    BY <1>1, <1>7, <1>8, <1>9, <2>1
  <2>3. path[e] = "/" /\ path[e] # "/"
    BY <1>8, <1>9, <2>2
  <2> QED
    BY <2>3
<1>13. IsPrefix(u, Segment(path, t))
  <2> DEFINE s == Segment(path, t)
  <2>1. Text(s) /\ Len(s) \in Nat /\ (\A j \in 1..Len(s) : path[t + j - 1] = s[j]) /\ t + Len(s) = e
    BY <1>9, TextFacts DEF TakenAt
  <2> HIDE DEF s
  <2>2. Len(u) <= Len(s)
    BY <1>1, <1>8, <1>12, <2>1
  <2>3. \A j \in 1..Len(u) : j \in 1..Len(s)
    BY <1>8, <2>1, <2>2
  <2>4. \A j \in 1..Len(u) : u[j] = s[j]
    BY <1>8, <2>1, <2>3
  <2> QED
    BY <1>8, <2>1, <2>2, <2>4, PrefixFacts DEF s
<1>14. CASE p + 3 <= n
  <2>1. text[p + 3] = "/" /\ p + 3 \notin NamesIn(text) /\ LiesAt(text, path, w, x, p + 3)
    BY <1>2, <1>11, <1>14
  <2>2. "/" \notin {Open, Close}
    BY Zenon DEF Open, Close
  <2>3. x[(p + 3) + 1] = x[p + 3] + 1 /\ path[x[p + 3]] = "/"
    BY <2>1, <2>2, Zenon DEF LiesAt
  <2>4. path[a] = "/"
    BY <1>6, <2>3
  <2>5. ~(a < e)
    <3>1. a < e => a \in t..e - 1
      BY <1>1, <1>7, <1>8, <1>9
    <3> QED
      BY <1>9, <2>4, <3>1
  <2>6. a = e
    BY <1>1, <1>7, <1>9, <1>12, <2>5
  <2> QED
    BY <1>6, <1>13, <2>6 DEF e, u
<1>15. CASE ~(p + 3 <= n)
  <2>1. p + 3 = n + 1
    BY <1>1, <1>2, <1>15
  <2> DEFINE y == [i \in {n + 1} |-> e]
  <2>2. y[n + 1] = e
    OBVIOUS
  <2> HIDE DEF y
  <2>3. e \in 1..k + 1
    BY <1>1, <1>9
  <2>4. pattern.kind = "exact" => e = k + 1
    <3>1. ASSUME pattern.kind = "exact" PROVE a = k + 1
      BY <1>6, <1>10, <2>1, <3>1
    <3> QED
      BY <1>1, <1>7, <1>9, <1>12, <3>1
  <2>5. /\ \A i \in n + 1..n + 1 : i = n + 1
        /\ ~\E i : i \in n + 1..n
    BY <1>1
  <2>6. Way(pattern, path, w, y, n + 1, e)
    BY <2>2, <2>3, <2>4, <2>5 DEF Way, n, k
  <2> QED
    BY <1>13, <2>1, <2>6 DEF e, u
<1> QED
  BY <1>14, <1>15

\* The positions of the three words of a name.
LEMMA NameSpan ==
  ASSUME NEW n \in Nat, NEW p \in 1..n, p + 2 \in 1..n
  PROVE  p + 1 \in 1..n /\ (p + 1) + 1 = p + 2 /\ (p + 2) + 1 = p + 3
  OBVIOUS

\* A position from p on, but not at p and not at p + 2, is the name's own or
\* behind it.
LEMMA BehindName ==
  ASSUME NEW n \in Nat, NEW p \in 1..n, NEW i \in 1..n, i # p, i # p + 2
  PROVE  i >= p => i = p + 1 \/ i >= p + 3
  OBVIOUS

\* A position of a sequence is one further on behind one more element.
LEMMA OneBehind ==
  ASSUME NEW n \in Nat, NEW i \in 1..n
  PROVE  1 + i \in 1..1 + n
  OBVIOUS

\* At a name of the pattern, given what is found behind it.
LEMMA FoundName ==
  ASSUME NEW pattern, NEW path, Text(pattern.text), Text(path), SegmentPattern(pattern.text),
         pattern.kind \in {"exact", "prefix"},
         NEW p \in 1..Len(pattern.text), NEW t \in 1..Len(path) + 1,
         pattern.text[p] = Open, Aligned(pattern.text, p),
         NEW rest, Found(pattern, path, rest, p + 3, SegmentEnd(path, t))
  PROVE  Found(pattern, path,
               IF ~rest.matched THEN NoMatch
               ELSE Match(<<<<pattern.text[p + 1], Segment(path, t)>>>> \o rest.captures), p, t)
<1> DEFINE text == pattern.text
           n == Len(text)
           k == Len(path)
           e == SegmentEnd(path, t)
           took == <<text[p + 1], Segment(path, t)>>
           res == IF ~rest.matched THEN NoMatch ELSE Match(<<took>> \o rest.captures)
<1>1. n \in Nat /\ k \in Nat /\ p \in 1..n /\ t \in 1..k + 1 /\ Text(text)
  BY TextFacts
<1>2. /\ p + 2 \in 1..n
      /\ p + 1 \in NamesIn(text) /\ p \notin NamesIn(text) /\ p + 2 \notin NamesIn(text)
      /\ text[p] = Open /\ text[p + 2] = Close
  BY AtName
<1>3. p + 1 \in 1..n /\ (p + 1) + 1 = p + 2 /\ (p + 2) + 1 = p + 3
  <2>1. n \in Nat /\ p \in 1..n /\ p + 2 \in 1..n
    BY <1>1, <1>2
  <2> QED
    BY <2>1, NameSpan, Zenon
<1>4. /\ e \in t..k + 1 /\ e \in 1..k + 1
      /\ TakenAt(path, Segment(path, t), t) /\ t + Len(Segment(path, t)) = e
  <2>1. /\ e \in t..k + 1 
        /\ TakenAt(path, Segment(path, t), t) /\ t + Len(Segment(path, t)) = e
    BY SegmentFacts
  <2> QED
    BY <1>1, <2>1
<1>5. \A i \in NamesIn(text) : i \in 1..n /\ (i >= p => i = p + 1 \/ i >= p + 3)
  <2>1. ASSUME NEW i \in NamesIn(text) PROVE i \in 1..n /\ i # p /\ i # p + 2
    BY <1>2, NameAt
  <2>2. n \in Nat /\ p \in 1..n
    BY <1>1
  <2> QED
    BY <2>1, <2>2, BehindName, Zenon
<1>6. res.matched <=> rest.matched
  BY DEF Match, NoMatch
<1>7. rest.matched => res.captures = <<took>> \o rest.captures
  BY DEF Match
<1>8. Found(pattern, path, rest, p + 3, e)
  OBVIOUS
<1>9. took = <<text[p + 1], Segment(path, t)>>
  OBVIOUS
<1> HIDE DEF n, k, e, res, took
<1>10. ASSUME rest.matched
       PROVE  \E v, o : /\ Way(pattern, path, v, o, p, t)
                        /\ Captured(text, <<took>> \o rest.captures, v, p)
                        /\ Longest(pattern, path, v, p, t)
  <2>1. PICK v0, o0 : /\ Way(pattern, path, v0, o0, p + 3, e)
                      /\ Captured(text, rest.captures, v0, p + 3)
                      /\ Longest(pattern, path, v0, p + 3, e)
    BY <1>8, <1>10 DEF Found
  <2> DEFINE v == [i \in 1..n |-> IF i = p + 1 THEN Segment(path, t) ELSE v0[i]]
             o == [i \in 1..n + 1 |-> IF i \in {p, p + 1} THEN t ELSE IF i = p + 2 THEN e ELSE o0[i]]
  <2>2. v[p + 1] = Segment(path, t) /\ \A i \in 1..n : i # p + 1 => v[i] = v0[i]
    BY <1>3
  <2>3. /\ o[p] = t /\ o[p + 1] = t /\ o[p + 2] = e
        /\ \A i \in 1..n + 1 : i \notin {p, p + 1, p + 2} => o[i] = o0[i]
    <3>1. /\ p \in 1..n + 1 /\ p + 1 \in 1..n + 1 /\ p + 2 \in 1..n + 1
          /\ p + 2 # p /\ p + 2 # p + 1
      BY <1>1, <1>2
    <3> QED
      BY <3>1
  <2> HIDE DEF v, o
  <2>4. /\ \A i \in p + 3..n : i \in 1..n /\ i # p + 1
        /\ \A i \in p + 3..n + 1 : i \in 1..n + 1 /\ i \notin {p, p + 1, p + 2}
        /\ p + 3 \in 1..n + 1
        /\ p + 3 \in p + 3..n + 1
    BY <1>1, <1>2
  <2>5. Way(pattern, path, v, o, p + 3, e) /\ o[p + 3] = e
    <3>1. Way(pattern, path, v, o, p + 3, e)
      BY <2>1, <2>2, <2>3, <2>4, WayAgrees DEF n
    <3> QED
      BY <3>1 DEF Way
  <2>6. Way(pattern, path, v, o, p + 2, e)
    <3>1. LiesAt(text, path, v, o, p + 2)
      BY <1>2, <1>3, <2>3, <2>5 DEF LiesAt
    <3>2. o[(p + 2) + 1] = e /\ Way(pattern, path, v, o, (p + 2) + 1, e)
      BY <1>3, <2>5
    <3>3. e \in 1..Len(path) + 1 /\ p + 2 \in 1..Len(pattern.text)
      BY <1>2, <1>4 DEF k, n
    <3> QED
      BY <2>3, <3>1, <3>2, <3>3, WayStep
  <2>7. Way(pattern, path, v, o, p + 1, t)
    <3>1. LiesAt(text, path, v, o, p + 1)
      BY <1>2, <1>3, <1>4, <2>2, <2>3 DEF LiesAt
    <3>2. o[(p + 1) + 1] = e /\ Way(pattern, path, v, o, (p + 1) + 1, e)
      BY <1>3, <2>3, <2>6
    <3>3. p + 1 \in 1..Len(pattern.text)
      BY <1>3 DEF n
    <3> QED
      BY <2>3, <3>1, <3>2, <3>3, WayStep
  <2>8. Way(pattern, path, v, o, p, t)
    <3>1. LiesAt(text, path, v, o, p)
      BY <1>2, <2>3 DEF LiesAt
    <3> QED
      BY <2>3, <2>7, <3>1, WayStep
  <2>9. Captured(text, <<took>> \o rest.captures, v, p)
    <3> DEFINE hs == rest.captures
               all == <<took>> \o hs
    <3>1. Text(hs)
      BY <2>1 DEF Captured
    <3>2. PICK pos0 :
            /\ \A i \in NamesIn(text) :
                 i >= p + 3 => pos0[i] \in DOMAIN hs /\ hs[pos0[i]] = <<text[i], v0[i]>>
            /\ \A i, j \in NamesIn(text) : p + 3 <= i /\ i < j => pos0[i] < pos0[j]
      BY <2>1 DEF Captured
    <3> HIDE DEF hs
    <3>3. Len(hs) \in Nat /\ DOMAIN hs = 1..Len(hs)
      BY <3>1, TextFacts
    <3>4. Text(<<took>>) /\ Len(<<took>>) = 1 /\ <<took>>[1] = took
      <4>1. <<took>> \in Seq({took}) /\ Len(<<took>>) = 1 /\ <<took>>[1] = took
        OBVIOUS
      <4> QED
        BY <4>1, SeqIsText
    <3>5. /\ Text(all) /\ DOMAIN all = 1..1 + Len(hs) /\ all[1] = took
          /\ \A i \in 1..Len(hs) : all[1 + i] = hs[i]
      BY <3>1, <3>4, TextConcat
    <3> HIDE DEF all
    <3> DEFINE pos == [i \in 1..n |-> IF i = p + 1 THEN 1 ELSE 1 + pos0[i]]
    <3>6. pos[p + 1] = 1 /\ \A i \in 1..n : i # p + 1 => pos[i] = 1 + pos0[i]
      BY <1>3
    <3> HIDE DEF pos
    <3>7. ASSUME NEW i \in NamesIn(text), i >= p + 3
          PROVE  /\ i \in 1..n /\ i # p + 1 /\ pos[i] = 1 + pos0[i] /\ pos0[i] \in 1..Len(hs)
                 /\ pos[i] \in DOMAIN all /\ all[pos[i]] = <<text[i], v[i]>>
      <4>1. i \in 1..n /\ i # p + 1
        BY <1>1, <1>5, <3>7
      <4>2. pos[i] = 1 + pos0[i] /\ v[i] = v0[i]
        BY <2>2, <3>6, <4>1
      <4>3. pos0[i] \in 1..Len(hs) /\ hs[pos0[i]] = <<text[i], v0[i]>>
        BY <3>2, <3>3, <3>7
      <4>4. 1 + pos0[i] \in 1..1 + Len(hs)
        BY <3>3, <4>3, OneBehind, Zenon
      <4> QED
        BY <3>5, <4>1, <4>2, <4>3, <4>4
    <3>8. pos[p + 1] \in DOMAIN all /\ all[pos[p + 1]] = <<text[p + 1], v[p + 1]>>
      <4>1. 1 \in 1..1 + Len(hs)
        BY <3>3
      <4> QED
        BY <1>9, <2>2, <3>5, <3>6, <4>1
    <3>9. ASSUME NEW i \in NamesIn(text), i >= p
          PROVE  pos[i] \in DOMAIN all /\ all[pos[i]] = <<text[i], v[i]>>
      BY <1>5, <3>7, <3>8, <3>9
    <3>10. ASSUME NEW i \in NamesIn(text), NEW j \in NamesIn(text), p <= i, i < j
           PROVE  pos[i] < pos[j]
      <4>1. i \in 1..n /\ j \in 1..n
        BY <1>5
      <4>2. (i = p + 1 \/ i >= p + 3) /\ (j = p + 1 \/ j >= p + 3)
        BY <1>1, <1>5, <3>10, <4>1
      <4>3. j >= p + 3
        BY <1>1, <3>10, <4>1, <4>2
      <4>4. pos[j] = 1 + pos0[j] /\ pos0[j] \in 1..Len(hs)
        BY <3>7, <4>3
      <4>5. CASE i = p + 1
        BY <3>3, <3>6, <4>4, <4>5
      <4>6. CASE i >= p + 3
        <5>1. pos[i] = 1 + pos0[i] /\ pos0[i] \in 1..Len(hs)
          BY <3>7, <4>6
        <5>2. pos0[i] < pos0[j]
          BY <1>1, <3>2, <3>10, <4>1, <4>6
        <5> QED
          BY <3>3, <4>4, <5>1, <5>2
      <4> QED
        BY <4>2, <4>5, <4>6
    <3> QED
      BY <3>5, <3>9, <3>10 DEF Captured, all, hs
  <2>10. Longest(pattern, path, v, p, t)
    <3>1. SUFFICES ASSUME NEW w, NEW x, Way(pattern, path, w, x, p, t), NEW i \in NamesIn(text), i >= p
                   PROVE  IsPrefix(w[i], v[i])
      BY DEF Longest
    <3>2. IsPrefix(w[p + 1], Segment(path, t)) /\ \E y : Way(pattern, path, w, y, p + 3, e)
      BY <3>1, NameWay DEF e
    <3>3. CASE i = p + 1
      BY <2>2, <3>2, <3>3
    <3>4. CASE i >= p + 3
      <4>1. i \in 1..n /\ i # p + 1
        BY <1>1, <1>5, <3>4
      <4>2. IsPrefix(w[i], v0[i])
        BY <2>1, <3>1, <3>2, <3>4 DEF Longest
      <4> QED
        BY <2>2, <4>1, <4>2
    <3> QED
      BY <1>5, <3>1, <3>3, <3>4
  <2> QED
    BY <2>8, <2>9, <2>10
<1>11. ASSUME NEW w, NEW x, Way(pattern, path, w, x, p, t) PROVE rest.matched
  <2>1. \E y : Way(pattern, path, w, y, p + 3, e)
    BY <1>11, NameWay DEF e
  <2> QED
    BY <1>8, <2>1 DEF Found
<1>12. Found(pattern, path, res, p, t)
  BY <1>6, <1>7, <1>10, <1>11 DEF Found
<1> QED
  BY <1>12 DEF res, took

\* The loop finds a way from every place outside braces.
LEMMA LoopFinds ==
  ASSUME NEW pattern, NEW path, Text(pattern.text), Text(path), SegmentPattern(pattern.text),
         pattern.kind \in {"exact", "prefix"}
  PROVE  Found(pattern, path, MatchLoop(pattern, path)[1][1], 1, 1)
<1> DEFINE text == pattern.text
           n == Len(text)
           k == Len(path)
           m == MatchLoop(pattern, path)
           S == {p \in 1..n + 1 : Aligned(text, p) =>
                    \A t \in 1..k + 1 : Found(pattern, path, m[p][t], p, t)}
<1>1. n \in Nat /\ k \in Nat /\ DOMAIN text = 1..n
  BY TextFacts
<1>2. \A p \in 1..n + 1, t \in 1..k + 1 : m[p][t] = MatchStep(pattern, path, m, p, t)
  BY LoopUnfolds
<1> HIDE DEF m
<1>3. ASSUME NEW p \in 1..n + 1, \A q \in p + 1..n + 1 : q \in S PROVE p \in S
  <2>1. SUFFICES ASSUME Aligned(text, p), NEW t \in 1..k + 1
                 PROVE  Found(pattern, path, MatchStep(pattern, path, m, p, t), p, t)
    BY <1>2
  <2>2. CASE p > n
    <3>1. p = n + 1
      BY <1>1, <2>2
    <3>2. MatchStep(pattern, path, m, p, t) =
            IF t > k \/ pattern.kind = "prefix" THEN Match(<<>>) ELSE NoMatch
      BY <2>2 DEF MatchStep
    <3> QED
      BY <3>1, <3>2, FoundEnd
  <2>3. CASE p <= n /\ text[p] = Open
    <3> DEFINE e == SegmentEnd(path, t)
               rest == m[p + 3][e]
    <3>0. p \in 1..n
      BY <1>1, <2>3
    <3>1. p + 2 \in 1..n /\ Closing(text, p) = p + 2 /\ Aligned(text, p + 3)
      BY <2>1, <2>3, <3>0, AtName
    <3>2. p + 3 \in p + 1..n + 1 /\ (p + 2) + 1 = p + 3 /\ p + 2 \notin {0, p + 1}
      BY <1>1, <3>0, <3>1
    <3>3. e \in 1..k + 1
      <4>1. e \in t..k + 1
        BY SegmentFacts
      <4> QED
        BY <1>1, <4>1
    <3>4. Found(pattern, path, rest, p + 3, e)
      BY <1>3, <3>1, <3>2, <3>3
    <3>5. MatchStep(pattern, path, m, p, t) =
            IF ~rest.matched THEN NoMatch
            ELSE Match(<<<<text[p + 1], Segment(path, t)>>>> \o rest.captures)
      BY <2>3, <3>1, <3>2 DEF MatchStep, Segment
    <3> HIDE DEF rest
    <3> QED
      BY <2>1, <2>3, <3>0, <3>4, <3>5, FoundName
  <2>4. CASE p <= n /\ text[p] # Open
    <3> DEFINE rest == m[p + 1][t + 1]
    <3>0. p \in 1..n /\ p + 1 \in p + 1..n + 1
      BY <1>1, <2>4
    <3>1. p \notin NamesIn(text) /\ text[p] \notin {Open, Close} /\ Aligned(text, p + 1)
      BY <2>1, <2>4, <3>0, AtWord
    <3>2. t <= k => Found(pattern, path, rest, p + 1, t + 1)
      <4>1. t <= k => t + 1 \in 1..k + 1
        BY <1>1
      <4> QED
        BY <1>3, <3>0, <3>1, <4>1
    <3>3. MatchStep(pattern, path, m, p, t) =
            IF t > k \/ text[p] # path[t] THEN NoMatch ELSE rest
      BY <1>1, <2>4 DEF MatchStep
    <3> HIDE DEF rest
    <3>4. p \in 1..Len(pattern.text) /\ t \in 1..Len(path) + 1
      BY <3>0
    <3>5. Found(pattern, path,
                IF t > Len(path) \/ pattern.text[p] # path[t] THEN NoMatch ELSE rest, p, t)
      BY <3>1, <3>2, <3>4, FoundWord
    <3> QED
      BY <3>3, <3>5, Zenon
  <2> QED
    BY <1>1, <2>2, <2>3, <2>4
<1>4. 1..n + 1 \subseteq S
  <2> HIDE DEF S
  <2>1. n + 1 \in Nat
    BY <1>1
  <2> QED
    BY <1>3, <2>1, DownInduction
<1>5. Aligned(text, 1)
  <2>1. 1 \notin NamesIn(text)
    BY NameAt
  <2>2. ASSUME 1 <= n PROVE text[1] # Close
    <3>1. 1 \in DOMAIN text /\ ~(1 > 2)
      BY <1>1, <2>2
    <3> QED
      BY <3>1, Zenon DEF SegmentPattern
  <2> QED
    BY <2>1, <2>2 DEF Aligned
<1>6. 1 \in 1..n + 1 /\ 1 \in 1..k + 1
  BY <1>1
<1> QED
  BY <1>4, <1>5, <1>6 DEF m

-----------------------------------------------------------------------------
(* The router: a way is a choice of values that makes the pattern the path. *)

\* The pieces of a pattern with values for its names.
Piece(text, v, i) ==
    CASE i \in NamesIn(text) -> v[i]
      [] i \notin NamesIn(text) /\ text[i] \in {Open, Close} -> <<>>
      [] OTHER -> <<text[i]>>
Pieces(text, v) == [i \in DOMAIN text |-> Piece(text, v, i)]

\* Values that a name may have.
Segments(text, v) == \A i \in NamesIn(text) : Text(v[i]) /\ \A j \in DOMAIN v[i] : v[i][j] # "/"

\* The cases of a piece.
LEMMA PieceCases ==
  ASSUME NEW text, NEW v, NEW i
  PROVE  /\ i \in NamesIn(text) => Piece(text, v, i) = v[i]
         /\ i \notin NamesIn(text) /\ text[i] \in {Open, Close} => Piece(text, v, i) = <<>>
         /\ i \notin NamesIn(text) /\ text[i] \notin {Open, Close} => Piece(text, v, i) = <<text[i]>>
  BY DEF Piece

\* A word of a pattern lies on the path exactly if its piece does.
LEMMA PieceLies ==
  ASSUME NEW text, NEW v, Segments(text, v), NEW i, NEW path, NEW o, o[i] \in Nat
  PROVE  /\ Text(Piece(text, v, i))
         /\ LiesAt(text, path, v, o, i) <=>
              /\ o[i + 1] = o[i] + Len(Piece(text, v, i))
              /\ \A j \in 1..Len(Piece(text, v, i)) : path[o[i] + j - 1] = Piece(text, v, i)[j]
<1> DEFINE s == Piece(text, v, i)
<1>1. CASE i \in NamesIn(text)
  <2>1. s = v[i] /\ Text(v[i]) /\ DOMAIN v[i] = 1..Len(v[i]) /\ \A j \in DOMAIN v[i] : v[i][j] # "/"
    BY <1>1, PieceCases, TextFacts DEF Segments
  <2>2. LiesAt(text, path, v, o, i) <=> TakenAt(path, v[i], o[i]) /\ o[i + 1] = o[i] + Len(v[i])
    BY <1>1 DEF LiesAt
  <2>3. TakenAt(path, v[i], o[i]) <=> \A j \in 1..Len(v[i]) : path[o[i] + j - 1] = v[i][j]
    BY <2>1 DEF TakenAt
  <2> HIDE DEF s
  <2> QED
    BY <2>1, <2>2, <2>3 DEF s
<1>2. CASE i \notin NamesIn(text) /\ text[i] \in {Open, Close}
  <2>1. s = <<>>
    BY <1>2, PieceCases
  <2>2. <<>> \in Seq({}) /\ Len(<<>>) = 0
    OBVIOUS
  <2>3. Text(<<>>)
    BY <2>2, SeqIsText
  <2>4. LiesAt(text, path, v, o, i) <=> o[i + 1] = o[i]
    BY <1>2 DEF LiesAt
  <2>5. o[i] + 0 = o[i] /\ ~\E j : j \in 1..0
    OBVIOUS
  <2> HIDE DEF s
  <2> QED
    BY <2>1, <2>2, <2>3, <2>4, <2>5 DEF s
<1>3. CASE i \notin NamesIn(text) /\ text[i] \notin {Open, Close}
  <2> DEFINE c == text[i]
  <2>1. s = <<c>>
    BY <1>3, PieceCases
  <2>2. LiesAt(text, path, v, o, i) <=> o[i + 1] = o[i] + 1 /\ path[o[i]] = c
    BY <1>3 DEF LiesAt
  <2> HIDE DEF c, s
  <2>3. <<c>> \in Seq({c}) /\ Len(<<c>>) = 1 /\ <<c>>[1] = c
    OBVIOUS
  <2>4. Text(<<c>>)
    BY <2>3, SeqIsText
  <2>5. o[i] + 1 - 1 = o[i] /\ \A j : j \in 1..1 <=> j = 1
    OBVIOUS
  <2>6. (\A j \in 1..1 : path[o[i] + j - 1] = <<c>>[j]) <=> path[o[i]] = c
    BY <2>3, <2>5
  <2> QED
    BY <2>1, <2>2, <2>3, <2>4, <2>6 DEF s
<1> QED
  BY <1>1, <1>2, <1>3

\* Places that begin at 1, grow, and end on the path are on the path.
LEMMA PlacesOnPath ==
  ASSUME NEW n \in Nat, NEW k \in Nat, NEW o, o[1] = 1, o[n + 1] <= k + 1,
         \A i \in 1..n : o[i] \in Nat /\ o[i + 1] \in Nat /\ o[i + 1] >= o[i]
  PROVE  \A i \in 1..n + 1 : o[i] \in 1..k + 1
<1> DEFINE Up == {i \in Nat : i <= n => o[i + 1] >= 1}
           Down == {i \in 1..n + 1 : o[i] <= k + 1}
<1>1. \A i \in 1..n + 1 : o[i] \in Nat
  <2>1. ASSUME NEW i \in 1..n + 1 PROVE o[i] \in Nat
    <3>1. CASE i = 1
      BY <3>1
    <3>2. CASE i # 1
      <4>1. i - 1 \in 1..n /\ (i - 1) + 1 = i
        BY <3>2
      <4> QED
        BY <4>1
    <3> QED
      BY <3>1, <3>2
  <2> QED
    BY <2>1
<1>2. 0 \in Up
  OBVIOUS
<1>3. ASSUME NEW i \in Nat, i \in Up PROVE i + 1 \in Up
  <2>1. SUFFICES ASSUME i + 1 <= n PROVE o[(i + 1) + 1] >= 1
    OBVIOUS
  <2>2. i + 1 \in 1..n /\ i <= n
    BY <2>1
  <2>3. o[i + 1] >= 1 /\ o[(i + 1) + 1] >= o[i + 1] /\ o[i + 1] \in Nat /\ o[(i + 1) + 1] \in Nat
    BY <1>3, <2>2
  <2> QED
    BY <2>3
<1>4. ASSUME NEW i \in 1..n + 1, \A q \in i + 1..n + 1 : q \in Down PROVE i \in Down
  <2>1. CASE i = n + 1
    BY <2>1
  <2>2. CASE i # n + 1
    <3>1. i \in 1..n /\ i + 1 \in i + 1..n + 1
      BY <2>2
    <3>2. o[i + 1] <= k + 1 /\ o[i + 1] >= o[i] /\ o[i + 1] \in Nat /\ o[i] \in Nat
      BY <1>4, <3>1
    <3>3. o[i] <= k + 1
      BY <3>2
    <3> QED
      BY <3>3
  <2> QED
    BY <2>1, <2>2
<1> HIDE DEF Up, Down
<1>5. \A i \in Nat : i \in Up
  BY <1>2, <1>3, NatSetInduction
<1>6. 1..n + 1 \subseteq Down
  <2>1. n + 1 \in Nat
    OBVIOUS
  <2> QED
    BY <1>4, <2>1, DownInduction
<1>7. ASSUME NEW i \in 1..n + 1 PROVE o[i] \in 1..k + 1
  <2>1. i - 1 \in Nat /\ i - 1 <= n /\ (i - 1) + 1 = i
    OBVIOUS
  <2>2. o[i] >= 1
    BY <1>5, <2>1 DEF Up
  <2>3. o[i] <= k + 1
    BY <1>6 DEF Down
  <2> QED
    BY <1>1, <2>2, <2>3
<1> QED
  BY <1>7

\* Values fit a pattern to a path exactly if there is a way with them.
Fitting(pattern, path, v) ==
    IF pattern.kind = "prefix" THEN IsPrefix(Filled(pattern.text, v), path)
    ELSE Filled(pattern.text, v) = path
LEMMA FilledWay ==
  ASSUME NEW pattern, NEW path, Text(pattern.text), Len(pattern.text) > 0, Text(path),
         pattern.kind \in {"exact", "prefix"}, NEW v, Segments(pattern.text, v)
  PROVE  Fitting(pattern, path, v) <=> \E o : Way(pattern, path, v, o, 1, 1)
<1> DEFINE text == pattern.text
           n == Len(text)
           k == Len(path)
           s == Pieces(text, v)
<1>1. n \in Nat /\ n > 0 /\ k \in Nat /\ DOMAIN text = 1..n
  BY TextFacts
<1>2. DOMAIN s = 1..n /\ s = [i \in 1..n |-> s[i]] /\ \A i \in 1..n : s[i] = Piece(text, v, i)
  BY <1>1 DEF Pieces
<1>3. Filled(text, v) = FlattenSeq(s)
  BY DEF Filled, Pieces, Piece
<1> HIDE DEF n, k, s
<1>4. Text(s) /\ Len(s) = n
  BY <1>1, <1>2, TextMade
<1>5. \A i \in 1..n : Text(s[i]) /\ Len(s[i]) \in Nat
  <2>1. ASSUME NEW i \in 1..n PROVE Text(s[i])
    <3> DEFINE z == [j \in {i} |-> 0]
    <3>1. z[i] \in Nat
      OBVIOUS
    <3> HIDE DEF z
    <3>2. Text(Piece(text, v, i))
      BY <3>1, PieceLies
    <3> QED
      BY <1>2, <3>2
  <2> QED
    BY <2>1, TextFacts
<1>6. \A o, i : i \in 1..n /\ o[i] \in Nat =>
        (LiesAt(text, path, v, o, i) <=> /\ o[i + 1] = o[i] + Len(s[i])
                                         /\ \A j \in 1..Len(s[i]) : path[o[i] + j - 1] = s[i][j])
  <2>1. SUFFICES ASSUME NEW o, NEW i \in 1..n, o[i] \in Nat
                 PROVE  LiesAt(text, path, v, o, i) <=>
                          /\ o[i + 1] = o[i] + Len(s[i])
                          /\ \A j \in 1..Len(s[i]) : path[o[i] + j - 1] = s[i][j]
    OBVIOUS
  <2>2. LiesAt(text, path, v, o, i) <=>
          /\ o[i + 1] = o[i] + Len(Piece(text, v, i))
          /\ \A j \in 1..Len(Piece(text, v, i)) : path[o[i] + j - 1] = Piece(text, v, i)[j]
    BY <2>1, PieceLies
  <2>3. Piece(text, v, i) = s[i]
    BY <1>2
  <2> QED
    BY <2>2, <2>3
<1>7. ASSUME NEW o, Offsets(s, o)
      PROVE  Fitting(pattern, path, v) <=>
               /\ o[n + 1] <= k + 1 /\ Laid(s, o, path, n)
               /\ pattern.kind = "exact" => o[n + 1] = k + 1
  <2>1. /\ Text(FlattenSeq(s)) /\ o[n + 1] = Len(FlattenSeq(s)) + 1
        /\ IsPrefix(FlattenSeq(s), path) <=> o[n + 1] <= k + 1 /\ Laid(s, o, path, n)
    BY <1>1, <1>4, <1>5, <1>7, FlattenLaid DEF k
  <2> DEFINE f == FlattenSeq(s)
  <2> HIDE DEF f
  <2>2. Text(f) /\ o[n + 1] = Len(f) + 1 /\ Len(f) \in Nat
        /\ (IsPrefix(f, path) <=> o[n + 1] <= k + 1 /\ Laid(s, o, path, n))
    BY <2>1, TextFacts DEF f
  <2>3. f = path <=> IsPrefix(f, path) /\ o[n + 1] = k + 1
    <3>1. IsPrefix(f, path) <=> Len(f) <= k /\ \A i \in 1..Len(f) : f[i] = path[i]
      BY <2>2, PrefixFacts DEF k
    <3>2. ASSUME f = path PROVE IsPrefix(f, path) /\ o[n + 1] = k + 1
      <4>1. Len(f) = k
        BY <3>2 DEF k
      <4>2. Len(f) <= k /\ \A i \in 1..Len(f) : f[i] = path[i]
        BY <1>1, <3>2, <4>1
      <4> QED
        BY <2>2, <3>1, <4>1, <4>2
    <3>3. ASSUME IsPrefix(f, path), o[n + 1] = k + 1 PROVE f = path
      <4>1. Len(f) = k
        BY <1>1, <2>2, <3>3
      <4>2. \A i \in 1..Len(f) : f[i] = path[i]
        BY <3>1, <3>3
      <4> QED
        BY <2>2, <4>1, <4>2, TextEqual DEF k
    <3> QED
      BY <3>2, <3>3
  <2>4. Fitting(pattern, path, v) <=> IF pattern.kind = "prefix" THEN IsPrefix(f, path) ELSE f = path
    BY <1>3 DEF Fitting, f
  <2> QED
    BY <2>2, <2>3, <2>4
<1>8. ASSUME Fitting(pattern, path, v) PROVE \E o : Way(pattern, path, v, o, 1, 1)
  <2>1. PICK o : Offsets(s, o)
    BY <1>1, <1>4, <1>5, OffsetsExist
  <2>2. o[n + 1] <= k + 1 /\ Laid(s, o, path, n) /\ (pattern.kind = "exact" => o[n + 1] = k + 1)
    BY <1>7, <1>8, <2>1
  <2>3. o[1] = 1 /\ \A i \in 1..n : o[i] \in Nat /\ o[i + 1] = o[i] + Len(s[i])
    BY <1>4, <2>1 DEF Offsets
  <2>4. \A i \in 1..n : o[i] \in Nat /\ o[i + 1] \in Nat /\ o[i + 1] >= o[i]
    BY <1>5, <2>3
  <2>5. \A i \in 1..n + 1 : o[i] \in 1..k + 1
    BY <1>1, <2>2, <2>3, <2>4, PlacesOnPath
  <2>6. \A i \in 1..n : LiesAt(text, path, v, o, i)
    BY <1>6, <2>2, <2>3 DEF Laid
  <2>7. Way(pattern, path, v, o, 1, 1)
    BY <2>2, <2>3, <2>5, <2>6 DEF Way, n, k
  <2> QED
    BY <2>7
<1>9. ASSUME NEW o, Way(pattern, path, v, o, 1, 1) PROVE Fitting(pattern, path, v)
  <2>1. /\ o[1] = 1 /\ \A i \in 1..n + 1 : o[i] \in 1..k + 1
        /\ \A i \in 1..n : LiesAt(text, path, v, o, i)
        /\ pattern.kind = "exact" => o[n + 1] = k + 1
    BY <1>9 DEF Way, n, k
  <2>2. \A i \in 1..n : i \in 1..n + 1 /\ o[i] \in Nat
    BY <1>1, <2>1
  <2>3. \A i \in 1..n : o[i + 1] = o[i] + Len(s[i]) /\ \A j \in 1..Len(s[i]) : path[o[i] + j - 1] = s[i][j]
    BY <1>6, <2>1, <2>2
  <2>4. Offsets(s, o) /\ Laid(s, o, path, n)
    BY <1>4, <2>1, <2>2, <2>3 DEF Offsets, Laid
  <2>5. n + 1 \in 1..n + 1
    BY <1>1
  <2>6. o[n + 1] <= k + 1
    BY <2>1, <2>5
  <2> QED
    BY <1>7, <2>1, <2>4, <2>6
<1> QED
  BY <1>8, <1>9

\* The texts without '/' that are somewhere on a path.
PiecesOf(path) ==
    {s \in {SubSeq(path, a, b) : a \in 1..Len(path) + 1, b \in 0..Len(path)} :
        \A i \in DOMAIN s : s[i] # "/"}

\* They are values a name may have, ...
LEMMA PiecesAreSegments ==
  ASSUME NEW path, Text(path), NEW text, NEW v \in [NamesIn(text) -> PiecesOf(path)]
  PROVE  Segments(text, v)
<1>1. SUFFICES ASSUME NEW i \in NamesIn(text) PROVE Text(v[i]) /\ \A j \in DOMAIN v[i] : v[i][j] # "/"
  BY DEF Segments
<1>2. v[i] \in PiecesOf(path)
  OBVIOUS
<1>3. PICK a \in 1..Len(path) + 1, b \in 0..Len(path) : v[i] = SubSeq(path, a, b)
  BY <1>2 DEF PiecesOf
<1>4. a \in Nat \ {0}
  BY <1>3, TextFacts
<1>5. Text(v[i])
  <2>1. Text(SubSeq(path, a, b))
    BY <1>4, TextSubSeq, Zenon
  <2> QED
    BY <1>3, <2>1, Zenon
<1>6. \A j \in DOMAIN v[i] : v[i][j] # "/"
  BY <1>2 DEF PiecesOf
<1> QED
  BY <1>5, <1>6

\* ... and what a way takes is one of them.
LEMMA TakenIsPiece ==
  ASSUME NEW path, Text(path), NEW w, NEW t \in 1..Len(path) + 1, TakenAt(path, w, t),
         t + Len(w) \in 1..Len(path) + 1
  PROVE  w \in PiecesOf(path)
<1> DEFINE k == Len(path)
           b == t + Len(w) - 1
           s == SubSeq(path, t, b)
<1>1. k \in Nat /\ Text(w) /\ Len(w) \in Nat /\ DOMAIN w = 1..Len(w)
  BY TextFacts DEF TakenAt
<1>2. t \in Nat \ {0} /\ t \in 1..k + 1 /\ b \in 0..k /\ b - t + 1 = Len(w)
  BY <1>1
<1> HIDE DEF b
<1>3. /\ Text(s) /\ Len(s) = IF t <= b THEN b - t + 1 ELSE 0
      /\ \A i \in 1..b - t + 1 : s[i] = path[t + i - 1]
  BY <1>2, TextSubSeq
<1>4. s \in {SubSeq(path, x, y) : x \in 1..k + 1, y \in 0..k}
  BY <1>2
<1> HIDE DEF s, k
<1>5. Len(s) = Len(w)
  BY <1>1, <1>2, <1>3
<1>6. \A i \in 1..Len(w) : w[i] # "/" /\ s[i] = w[i]
  BY <1>2, <1>3 DEF TakenAt
<1>7. s = w
  BY <1>1, <1>3, <1>5, <1>6, TextEqual
<1>8. \A i \in DOMAIN w : w[i] # "/"
  BY <1>1, <1>6
<1> QED
  BY <1>4, <1>7, <1>8 DEF PiecesOf, k

\* The pattern of a line the router accepted.
LEMMA RouterLine ==
  ASSUME NEW c \in Configs, AllValid(c, "router"), NEW i \in DOMAIN c.lines["router"]
  PROVE  LET l == c.lines["router"][i]
             pattern == TargetPattern(l[2])
             rule == Parsed(c, "router")[i]
         IN /\ rule.target = pattern /\ rule.method = l[1] /\ rule.action = l[3]
            /\ l[3] \in {"pass", "respond"}
            /\ Text(pattern.text) /\ Len(pattern.text) > 0 /\ pattern.kind \in {"exact", "prefix"}
            /\ pattern.text = PatternText(l) /\ (pattern.kind = "prefix" <=> Last(l[2]) = "*")
            /\ l \in Range(c.lines["router"])
<1> DEFINE l == c.lines["router"][i]
           rule == Parsed(c, "router")[i]
<1>0. "router" \in Modules \ {"cors"}
  BY DEF Modules
<1>1. /\ rule = Rule("router", l) /\ Rule("router", l).valid /\ l \in Range(c.lines["router"])
  BY <1>0, LinesValid
<1>2. rule = RouteRule(l) /\ RouteRule(l).valid
  BY <1>1 DEF Rule
<1> HIDE DEF l, rule
<1>3. /\ Len(l) >= 3 /\ TargetPattern(l[2]).text # <<>>
      /\ rule.method = l[1] /\ rule.target = TargetPattern(l[2])
      /\ rule.action = l[3] /\ l[3] \in {"pass", "respond"}
  BY <1>2, RouteLine
<1>4. Len(l) > 1
  BY <1>3
<1>5. Text(l[2]) /\ Text(TargetPattern(l[2]).text)
  BY <1>0, <1>1, <1>4, LinePattern DEF l
<1>6. Len(TargetPattern(l[2]).text) > 0
  <2>1. Len(TargetPattern(l[2]).text) \in Nat /\ Len(TargetPattern(l[2]).text) # 0
    BY <1>3, <1>5, TextFacts
  <2> QED
    BY <2>1
<1>7. l[2] # <<>>
  BY <1>3 DEF TargetPattern
<1>8. /\ TargetPattern(l[2]).kind \in {"exact", "prefix"} /\ TargetPattern(l[2]).text = PatternText(l)
      /\ TargetPattern(l[2]).kind = "prefix" <=> Last(l[2]) = "*"
  BY <1>7 DEF TargetPattern, PatternText
<1> QED
  BY <1>1, <1>3, <1>5, <1>6, <1>8 DEF l, rule

\* match_target decides whether a line has values for a path, and its captures
\* are the longest.
LEMMA RouteFits ==
  ASSUME NEW l, NEW path, Text(path), NEW pattern, Text(pattern.text), Len(pattern.text) > 0,
         pattern.kind \in {"exact", "prefix"}, pattern.text = PatternText(l),
         pattern.kind = "prefix" <=> Last(l[2]) = "*", SegmentPattern(pattern.text)
  PROVE  LET res == MatchLoop(pattern, path)[1][1]
         IN /\ res.matched <=> Fits(l, path) # {}
            /\ res.matched => \E v \in Fits(l, path) :
                 /\ Captured(pattern.text, res.captures, v, 1)
                 /\ \A w \in Fits(l, path) : \A i \in DOMAIN w : IsPrefix(w[i], v[i])
<1> DEFINE res == MatchLoop(pattern, path)[1][1]
           text == pattern.text
           n == Len(text)
           k == Len(path)
<1>1. Found(pattern, path, res, 1, 1)
  BY LoopFinds
<1>2. n \in Nat /\ k \in Nat /\ \A i \in NamesIn(text) : i \in 1..n /\ i >= 1
  <2>1. n \in Nat /\ k \in Nat
    BY TextFacts
  <2>2. \A i \in NamesIn(text) : i \in 1..n
    BY NameAt
  <2> QED
    BY <2>1, <2>2
<1>3. Fits(l, path) = {v \in [NamesIn(text) -> PiecesOf(path)] : Fitting(pattern, path, v)}
  BY DEF Fits, PiecesOf, Fitting
<1> HIDE DEF res
<1>4. ASSUME NEW v \in Fits(l, path)
      PROVE  DOMAIN v = NamesIn(text) /\ \E o : Way(pattern, path, v, o, 1, 1)
  <2>1. v \in [NamesIn(text) -> PiecesOf(path)] /\ Fitting(pattern, path, v)
    BY <1>3, <1>4
  <2>2. Segments(text, v)
    BY <2>1, PiecesAreSegments
  <2> QED
    BY <2>1, <2>2, FilledWay
<1>5. ASSUME NEW v, NEW o, Way(pattern, path, v, o, 1, 1)
      PROVE  [i \in NamesIn(text) |-> v[i]] \in Fits(l, path)
  <2> DEFINE w == [i \in NamesIn(text) |-> v[i]]
  <2>1. /\ \A i \in 1..n + 1 : o[i] \in 1..k + 1
        /\ \A i \in 1..n : LiesAt(text, path, v, o, i)
    BY <1>5 DEF Way
  <2>2. ASSUME NEW i \in NamesIn(text) PROVE v[i] \in PiecesOf(path)
    <3>1. i \in 1..n /\ i \in 1..n + 1 /\ i + 1 \in 1..n + 1
      BY <1>2
    <3>2. TakenAt(path, v[i], o[i]) /\ o[i + 1] = o[i] + Len(v[i])
      BY <2>1, <2>2, <3>1 DEF LiesAt
    <3>3. o[i] \in 1..Len(path) + 1 /\ o[i] + Len(v[i]) \in 1..Len(path) + 1
      BY <2>1, <3>1, <3>2
    <3> QED
      BY <3>2, <3>3, TakenIsPiece
  <2>3. w \in [NamesIn(text) -> PiecesOf(path)]
    BY <2>2
  <2>4. \A i \in NamesIn(text) : w[i] = v[i]
    OBVIOUS
  <2> HIDE DEF w
  <2>5. Segments(text, w)
    BY <2>3, PiecesAreSegments
  <2>6. Way(pattern, path, w, o, 1, 1)
    <3>1. 1 \in 1..Len(pattern.text) + 1
      BY <1>2
    <3> QED
      BY <1>5, <2>4, <3>1, WayAgrees
  <2>7. Fitting(pattern, path, w)
    BY <2>5, <2>6, FilledWay
  <2> QED
    BY <1>3, <2>3, <2>7 DEF w
<1>6. ASSUME res.matched
      PROVE  \E v \in Fits(l, path) : /\ Captured(text, res.captures, v, 1)
                                      /\ \A w \in Fits(l, path) : \A i \in DOMAIN w : IsPrefix(w[i], v[i])
  <2>1. PICK v, o : /\ Way(pattern, path, v, o, 1, 1) /\ Captured(text, res.captures, v, 1)
                    /\ Longest(pattern, path, v, 1, 1)
    BY <1>1, <1>6 DEF Found
  <2> DEFINE u == [i \in NamesIn(text) |-> v[i]]
  <2>2. u \in Fits(l, path)
    BY <1>5, <2>1
  <2>3. \A i \in NamesIn(text) : u[i] = v[i]
    OBVIOUS
  <2> HIDE DEF u
  <2>4. Captured(text, res.captures, u, 1)
    BY <2>1, <2>3 DEF Captured
  <2>5. ASSUME NEW w \in Fits(l, path), NEW i \in DOMAIN w PROVE IsPrefix(w[i], u[i])
    <3>1. i \in NamesIn(text) /\ \E x : Way(pattern, path, w, x, 1, 1)
      BY <1>4, <2>5
    <3>2. IsPrefix(w[i], v[i])
      BY <1>2, <2>1, <3>1 DEF Longest
    <3> QED
      BY <2>3, <3>1, <3>2
  <2> QED
    BY <2>2, <2>4, <2>5
<1>7. ASSUME Fits(l, path) # {} PROVE res.matched
  <2>1. \E v, o : Way(pattern, path, v, o, 1, 1)
    BY <1>4, <1>7
  <2> QED
    BY <1>1, <2>1 DEF Found
<1> QED
  BY <1>6, <1>7 DEF res

\* The lines of the router that are about a request and have values for its path.
RouteHits == {i \in DOMAIN Lines("router") :
                 /\ Lines("router")[i][1] \in {"*", request.method}
                 /\ Fits(Lines("router")[i], PathOf(request.target)) # {}}
FirstRoute == Lines("router")[Min(RouteHits)]

\* hs are the captures the router ought to pass on.
RightCaptures(hs) ==
    \E v \in Fits(FirstRoute, PathOf(request.target)) :
        /\ Captured(PatternText(FirstRoute), hs, v, 1)
        /\ \A w \in Fits(FirstRoute, PathOf(request.target)) : \A i \in DOMAIN w : IsPrefix(w[i], v[i])

\* The router's result is that of the first line that has values.
LEMMA RouterDecides ==
  ASSUME config \in Configs, request \in Requests, AllValid(config, "router"),
         \A l \in Range(Lines("router")) : SegmentPattern(PatternText(l)),
         NEW res \in Results(config, "router", request)
  PROVE  /\ RouteHits = {} => res = PassWith(<<>>)
         /\ RouteHits # {} => FirstRoute[3] \in {"pass", "respond"}
         /\ RouteHits # {} /\ FirstRoute[3] = "respond" => \E s : res = RespondWith(s, <<>>)
         /\ RouteHits # {} /\ FirstRoute[3] = "pass" => \E hs : res = PassWith(hs) /\ RightCaptures(hs)
<1> DEFINE rs == Parsed(config, "router")
           ls == config.lines["router"]
           path == PathOf(request.target)
           res0(i) == MatchTarget(rs[i].target, request.target)
           hits == {i \in DOMAIN rs : MethodMatches(rs[i].method, request.method) /\ res0(i).matched}
<1>0. "router" \in Modules
  BY DEF Modules
<1>1. Lines("router") = ls /\ DOMAIN rs = DOMAIN ls /\ DOMAIN ls \subseteq Nat \ {0}
  BY <1>0, LinesValid DEF Lines
<1>2. Text(path)
  BY RequestsAreHttp, PathIsText
<1>3. res = RouterHandle(rs, request)
  BY DEF Results
<1>4. ASSUME NEW i \in DOMAIN ls
      PROVE  /\ rs[i].method = ls[i][1] /\ rs[i].action = ls[i][3] /\ ls[i][3] \in {"pass", "respond"}
             /\ res0(i).matched <=> Fits(ls[i], path) # {}
             /\ res0(i).matched => \E v \in Fits(ls[i], path) :
                  /\ Captured(PatternText(ls[i]), res0(i).captures, v, 1)
                  /\ \A w \in Fits(ls[i], path) : \A x \in DOMAIN w : IsPrefix(w[x], v[x])
  <2> DEFINE l == ls[i]
             pattern == TargetPattern(l[2])
  <2>1. /\ rs[i].target = pattern /\ rs[i].method = l[1] /\ rs[i].action = l[3]
        /\ l[3] \in {"pass", "respond"}
        /\ Text(pattern.text) /\ Len(pattern.text) > 0 /\ pattern.kind \in {"exact", "prefix"}
        /\ pattern.text = PatternText(l) /\ (pattern.kind = "prefix" <=> Last(l[2]) = "*")
        /\ l \in Range(ls)
    BY <1>4, RouterLine
  <2> HIDE DEF l, pattern, rs, path
  <2>2. SegmentPattern(pattern.text)
    BY <1>1, <2>1
  <2>3. res0(i) = MatchLoop(pattern, path)[1][1]
    BY <2>1 DEF MatchTarget, path
  <2> DEFINE r == MatchLoop(pattern, path)[1][1]
  <2>4. /\ r.matched <=> Fits(l, path) # {}
        /\ r.matched => \E v \in Fits(l, path) :
             /\ Captured(pattern.text, r.captures, v, 1)
             /\ \A w \in Fits(l, path) : \A x \in DOMAIN w : IsPrefix(w[x], v[x])
    BY <1>2, <2>1, <2>2, RouteFits
  <2> HIDE DEF r
  <2>5. res0(i) = r /\ pattern.text = PatternText(l)
    BY <2>1, <2>3 DEF r
  <2> HIDE DEF res0
  <2> QED
    BY <2>1, <2>4, <2>5 DEF l
<1>5. hits = RouteHits
  <2> HIDE DEF rs, path, res0
  <2>1. \A m : MethodMatches(m, request.method) <=> m \in {"*", request.method}
    BY DEF MethodMatches
  <2>2. RouteHits = {i \in DOMAIN ls : ls[i][1] \in {"*", request.method} /\ Fits(ls[i], path) # {}}
    BY <1>1 DEF RouteHits, path
  <2> QED
    BY <1>1, <1>4, <2>1, <2>2
<1>6. res = IF FirstOf(hits) = 0 THEN PassWith(<<>>)
            ELSE IF rs[FirstOf(hits)].action = "pass" THEN PassWith(res0(FirstOf(hits)).captures)
            ELSE RespondWith(rs[FirstOf(hits)].status, <<>>)
  BY <1>3 DEF RouterHandle
<1>7. hits \subseteq DOMAIN ls /\ \A i \in hits : res0(i).matched
  BY <1>1
<1> HIDE DEF rs, path, res0, hits
<1>8. CASE hits = {}
  <2>1. FirstOf(hits) = 0
    BY <1>8 DEF FirstOf
  <2> QED
    BY <1>5, <1>6, <1>8, <2>1
<1>9. CASE hits # {}
  <2> DEFINE i == FirstOf(hits)
  <2>1. i # 0 /\ i \in hits
    BY <1>1, <1>7, <1>9, FirstOfFacts
  <2>2. i = Min(RouteHits)
    BY <1>5, <1>9 DEF FirstOf
  <2> HIDE DEF i
  <2>3. i \in DOMAIN ls /\ res0(i).matched /\ FirstRoute = ls[i]
    BY <1>1, <1>7, <2>1, <2>2 DEF FirstRoute
  <2>4. res = IF ls[i][3] = "pass" THEN PassWith(res0(i).captures) ELSE RespondWith(rs[i].status, <<>>)
    BY <1>4, <1>6, <2>1, <2>3 DEF i
  <2>5. RightCaptures(res0(i).captures)
    BY <1>4, <2>3 DEF RightCaptures, path
  <2>6. FirstRoute[3] \in {"pass", "respond"}
    BY <1>4, <2>3
  <2>7. "pass" # "respond"
    OBVIOUS
  <2>8. ASSUME FirstRoute[3] = "respond" PROVE \E s : res = RespondWith(s, <<>>)
    BY <2>3, <2>4, <2>7, <2>8
  <2>9. ASSUME FirstRoute[3] = "pass" PROVE \E hs : res = PassWith(hs) /\ RightCaptures(hs)
    BY <2>3, <2>4, <2>5, <2>9
  <2> QED
    BY <1>5, <1>9, <2>6, <2>8, <2>9
<1> QED
  BY <1>8, <1>9

\* Captures at the end of what is pending are passed on.
LEMMA CapturesPassedOn ==
  ASSUME NEW text, Text(text), NEW hs, NEW v, Captured(text, hs, v, 1), NEW before, Text(before),
         pending = before \o hs
  PROVE  PassedOn(text, v)
<1>1. Text(hs)
  BY DEF Captured
<1>2. PICK pos :
        /\ \A i \in NamesIn(text) : i >= 1 => pos[i] \in DOMAIN hs /\ hs[pos[i]] = <<text[i], v[i]>>
        /\ \A i, j \in NamesIn(text) : 1 <= i /\ i < j => pos[i] < pos[j]
  BY DEF Captured
<1> DEFINE b == Len(before)
           q == [i \in NamesIn(text) |-> b + pos[i]]
<1>3. b \in Nat /\ Len(hs) \in Nat /\ DOMAIN hs = 1..Len(hs)
  BY <1>1, TextFacts
<1>4. /\ DOMAIN (before \o hs) = 1..(Len(before) + Len(hs))
      /\ \A i \in 1..Len(hs) : (before \o hs)[Len(before) + i] = hs[i]
  BY <1>1, TextConcat
<1>5. DOMAIN pending = 1..(b + Len(hs)) /\ \A i \in 1..Len(hs) : pending[b + i] = hs[i]
  BY <1>4
<1>6. \A i \in NamesIn(text) : 1 <= i /\ i >= 1
  <2>1. \A i \in NamesIn(text) : i \in 1..Len(text)
    BY NameAt
  <2> QED
    BY <2>1
<1> HIDE DEF b
<1>7. ASSUME NEW i \in NamesIn(text)
      PROVE  /\ q[i] = b + pos[i] /\ pos[i] \in 1..Len(hs)
             /\ q[i] \in DOMAIN pending /\ pending[q[i]] = <<text[i], v[i]>>
  <2>1. pos[i] \in 1..Len(hs) /\ hs[pos[i]] = <<text[i], v[i]>>
    BY <1>2, <1>3, <1>6
  <2>2. q[i] = b + pos[i]
    OBVIOUS
  <2>3. b + pos[i] \in 1..(b + Len(hs))
    BY <1>3, <2>1
  <2> HIDE DEF q
  <2> QED
    BY <1>5, <2>1, <2>2, <2>3
<1>8. q \in [NamesIn(text) -> DOMAIN pending]
  BY <1>7
<1> HIDE DEF q
<1>9. ASSUME NEW i \in NamesIn(text), NEW j \in NamesIn(text), i < j PROVE q[i] < q[j]
  <2>1. pos[i] < pos[j]
    BY <1>2, <1>6, <1>9
  <2>2. q[i] = b + pos[i] /\ q[j] = b + pos[j] /\ pos[i] \in 1..Len(hs) /\ pos[j] \in 1..Len(hs)
    BY <1>7
  <2> QED
    BY <1>3, <2>1, <2>2
<1> QED
  BY <1>7, <1>8, <1>9 DEF PassedOn

\* The router finds values for a route whenever there are some: the first route
\* that has them decides, and its values are passed on, the longest where there is
\* a choice, for every pattern whose names take whole segments.
THEOREM RoutesCorrect == Spec => []RouterFindsRoute
<1>1. ASSUME ChainInv PROVE RouterFindsRoute
  <2> DEFINE path == PathOf(request.target)
             responds == RouteHits # {} /\ FirstRoute[3] = "respond"
  <2>0. "router" \in Modules
    BY DEF Modules
  <2>1. SUFFICES ASSUME \A l \in Range(Lines("router")) : SegmentPattern(PatternText(l))
                 PROVE  /\ reply.by = "router" => responds
                        /\ Passed("router") => ~responds
                        /\ Passed("router") /\ phase = "handling" /\ Order[at - 1] = "router" /\ RouteHits # {} =>
                             \E v \in Fits(FirstRoute, path) :
                               /\ PassedOn(PatternText(FirstRoute), v)
                               /\ \A w \in Fits(FirstRoute, path) : \A i \in DOMAIN w : IsPrefix(w[i], v[i])
    BY DEF RouterFindsRoute, RouteHits, FirstRoute
  <2>2. /\ \A hs, s, x : PassWith(hs) # RespondWith(s, x)
        /\ \A hs, x : PassWith(hs) = PassWith(x) => hs = x
    BY DEF PassWith, RespondWith
  <2>3. ASSUME reply.by = "router" PROVE responds
    <3>1. PICK s, hs : Answered /\ RespondWith(s, hs) \in Results(config, "router", request)
      BY <1>1, <2>0, <2>3, ReplyFacts
    <3>2. config \in Configs /\ request \in Requests /\ AllValid(config, "router")
      BY <1>1, <2>0, <2>3, <3>1, AnswerFacts
    <3>3. /\ RouteHits = {} => RespondWith(s, hs) = PassWith(<<>>)
          /\ RouteHits # {} => FirstRoute[3] \in {"pass", "respond"}
          /\ RouteHits # {} /\ FirstRoute[3] = "pass" => \E y : RespondWith(s, hs) = PassWith(y)
      BY <2>1, <3>1, <3>2, RouterDecides
    <3> QED
      BY <2>2, <3>3
  <2>4. ASSUME Passed("router") PROVE ~responds
    <3>1. PICK hs : PassWith(hs) \in Results(config, "router", request)
      BY <1>1, <2>0, <2>4, PassFacts
    <3>2. config \in Configs /\ request \in Requests /\ AllValid(config, "router")
      BY <1>1, <2>0, <2>4, PassFacts
    <3>3. responds => \E s : PassWith(hs) = RespondWith(s, <<>>)
      BY <2>1, <3>1, <3>2, RouterDecides
    <3> QED
      BY <2>2, <3>3
  <2>5. ASSUME Passed("router"), phase = "handling", Order[at - 1] = "router", RouteHits # {}
        PROVE  \E v \in Fits(FirstRoute, path) :
                 /\ PassedOn(PatternText(FirstRoute), v)
                 /\ \A w \in Fits(FirstRoute, path) : \A i \in DOMAIN w : IsPrefix(w[i], v[i])
    <3>1. config \in Configs /\ request \in Requests /\ AllValid(config, "router")
      BY <1>1, <2>0, <2>5, PassFacts
    <3>2. at > 1
      <4>1. PICK i \in 1..at - 1 : TRUE
        BY <2>5 DEF Passed
      <4>2. at \in 1..Len(Order) + 1 /\ Len(Order) \in Nat
        BY <1>1, OrderFacts DEF ChainInv
      <4> QED
        BY <4>1, <4>2
    <3>3. PICK before, hs :
            /\ Text(before) /\ Text(hs) /\ pending = before \o hs
            /\ PassWith(hs) \in Results(config, "router", request)
      BY <1>1, <2>5, <3>2 DEF ChainInv, InChain, WentThrough
    <3>4. FirstRoute[3] = "pass"
      <4>1. FirstRoute[3] \in {"pass", "respond"}
        BY <2>1, <2>5, <3>1, <3>3, RouterDecides
      <4> QED
        BY <2>4, <2>5, <4>1
    <3>5. RightCaptures(hs)
      <4>1. PICK y : PassWith(hs) = PassWith(y) /\ RightCaptures(y)
        BY <2>1, <2>5, <3>1, <3>3, <3>4, RouterDecides
      <4>2. hs = y
        BY <2>2, <4>1
      <4> QED
        BY <4>1, <4>2
    <3>6. PICK v \in Fits(FirstRoute, path) :
            /\ Captured(PatternText(FirstRoute), hs, v, 1)
            /\ \A w \in Fits(FirstRoute, path) : \A i \in DOMAIN w : IsPrefix(w[i], v[i])
      BY <3>5 DEF RightCaptures
    <3>7. Text(PatternText(FirstRoute))
      <4>1. RouteHits \subseteq DOMAIN config.lines["router"] /\ DOMAIN config.lines["router"] \subseteq Nat
        BY <2>0, <3>1, LinesValid DEF RouteHits, Lines
      <4>2. Min(RouteHits) \in RouteHits
        BY <2>5, <4>1, MinIsLeast
      <4>3. Min(RouteHits) \in DOMAIN config.lines["router"] /\ FirstRoute = config.lines["router"][Min(RouteHits)]
        BY <4>1, <4>2 DEF FirstRoute, Lines
      <4> DEFINE pattern == TargetPattern(FirstRoute[2])
      <4>4. Text(pattern.text) /\ pattern.text = PatternText(FirstRoute)
        BY <3>1, <4>3, RouterLine
      <4> QED
        BY <4>4
    <3>8. PassedOn(PatternText(FirstRoute), v)
      BY <3>3, <3>6, <3>7, CapturesPassedOn
    <3> QED
      BY <3>6, <3>8
  <2> QED
    BY <2>3, <2>4, <2>5
<1> QED
  BY <1>1, ChainCorrect, PTL
=============================================================================
