---------------------------- MODULE StartupProofs ----------------------------
(***************************************************************************)
(* Proofs about Startup, for every command line and every state of the     *)
(* machine: what a worker uses outlives it, and what is served, shown or   *)
(* refused is what the words of the command line say.                      *)
(***************************************************************************)
EXTENDS Startup, WellFoundedInduction, TLAPS

-----------------------------------------------------------------------------
(* Induction.  The rules of the library have an operator as their          *)
(* parameter, which the provers cannot instantiate; with a set they can.   *)

\* A set with 0 and with every successor of its numbers has all of them.
LEMMA NatSetInduction ==
  ASSUME NEW S, 0 \in S, \A n \in Nat : n \in S => n + 1 \in S
  PROVE  Nat \subseteq S
<1> DEFINE R == OpToRel(<, Nat)
           T == Nat \ S
<1>1. IsWellFoundedOn(R, Nat)
  BY NatLessThanWellFounded
<1>2. SUFFICES ASSUME T # {} PROVE FALSE
  OBVIOUS
<1>3. T \subseteq Nat
  OBVIOUS
<1> HIDE DEF R, T
<1>4. PICK x \in T : \A y \in T : ~(<<y, x>> \in R)
  BY <1>1, <1>2, <1>3, WFMin
<1> USE DEF T
<1>5. x # 0 /\ x - 1 \in Nat /\ x - 1 < x
  BY <1>4
<1>6. <<x - 1, x>> \in R
  BY <1>5 DEF R, OpToRel
<1>7. x - 1 \in S
  BY <1>4, <1>5, <1>6
<1>8. (x - 1) + 1 \in S
  BY <1>5, <1>7
<1> QED
  BY <1>4, <1>8

\* A set of natural numbers that is not empty has a least element.
LEMMA LeastExists ==
  ASSUME NEW S, S \subseteq Nat, S # {}
  PROVE  \E m \in S : \A n \in S : m <= n
<1> DEFINE R == OpToRel(<, Nat)
<1>1. IsWellFoundedOn(R, Nat)
  BY NatLessThanWellFounded
<1> HIDE DEF R
<1>2. PICK x \in S : \A y \in S : ~(<<y, x>> \in R)
  BY <1>1, WFMin
<1>3. ASSUME NEW n \in S PROVE x <= n
  <2>1. ~(<<n, x>> \in R) /\ n \in Nat /\ x \in Nat
    BY <1>2
  <2>2. ~(n < x)
    BY <2>1 DEF R, OpToRel
  <2> QED
    BY <2>1, <2>2
<1> QED
  BY <1>2, <1>3

\* One that is not empty and has a bound has a greatest element.
LEMMA GreatestExists ==
  ASSUME NEW S, S \subseteq Nat, S # {}, NEW b \in Nat, \A n \in S : n <= b
  PROVE  \E m \in S : \A n \in S : n <= m
<1> DEFINE U == {u \in Nat : \A n \in S : n <= u}
<1>1. U \subseteq Nat /\ b \in U
  OBVIOUS
<1> HIDE DEF U
<1>2. PICK m \in U : \A u \in U : m <= u
  BY <1>1, LeastExists
<1>3. m \in Nat /\ \A n \in S : n <= m
  BY <1>2 DEF U
<1>4. SUFFICES ASSUME m \notin S PROVE FALSE
  BY <1>3
<1>5. m # 0
  <2>1. PICK s \in S : s \in Nat
    OBVIOUS
  <2> QED
    BY <1>3, <1>4, <2>1
<1>6. m - 1 \in Nat /\ \A n \in S : n <= m - 1
  BY <1>3, <1>4, <1>5
<1>7. m - 1 \in U
  BY <1>6 DEF U
<1> QED
  BY <1>2, <1>3, <1>7

-----------------------------------------------------------------------------
(* What the process owns.                                                  *)

\* All that a running server owns.
Everything == {"listener", "modules", "queue"} \cup (IF config.tls = None THEN {} ELSE {"tls"})

Starting == {"parse", "listen", "load", "tls", "queue"}

\* Stage by stage, what is held and how many workers run.
Owned ==
    /\ stage \in Starting \cup {"workers", "serving", "unwind", "exited"}
    /\ threads \in 0..MaxThreads
    /\ status \in {None, 0, 1} /\ (status # None <=> stage = "exited")
    /\ stage \in {"parse", "listen"} => held = {}
    /\ stage = "load" => held = {"listener"}
    /\ stage = "tls" => held = {"listener", "modules"}
    /\ stage = "queue" => held = Everything \ {"queue"}
    /\ stage \in {"workers", "serving"} => held = Everything
    /\ stage \in Starting => threads = 0
    /\ stage = "serving" => threads = config.workers
    /\ stage = "unwind" /\ threads > 0 => held = Everything
    /\ stage = "exited" => held = {} /\ threads = 0

\* Owned is inductive by itself: it does not matter what the words say.
LEMMA InitOwned == Init => Owned
BY ThreadsAreFew, NoneIsNoNumber DEF Init, Owned, Starting

\* Every step of main() keeps Owned.
LEMMA NextOwned == Owned /\ [Next]_vars => Owned'
<1> SUFFICES ASSUME Owned, [Next]_vars PROVE Owned'
  OBVIOUS
<1> USE DEF Owned, Starting
<1>1. CASE ParseInformation
  BY <1>1, NoneIsNoNumber DEF ParseInformation, Exit, settings
<1>2. CASE ParseNamedOption
  BY <1>2 DEF ParseNamedOption, Throw, Everything
<1>3. CASE ParseOtherWord
  BY <1>3 DEF ParseOtherWord, Throw, Everything
<1>4. CASE FinalizeOptions
  BY <1>4 DEF FinalizeOptions, Throw
<1>5. CASE OpenListener
  BY <1>5 DEF OpenListener, Construct, Throw, settings
<1>6. CASE LoadModules
  BY <1>6 DEF LoadModules, Construct, Throw, settings
<1>7. CASE CreateStreamFactory
  <2>1. config' = config /\ threads' = threads /\ stage = "tls"
    BY <1>7 DEF CreateStreamFactory, Construct, settings
  <2>2. \/ stage' = "queue" /\ status' = status /\ held' = Everything \ {"queue"}
        \/ stage' = "unwind" /\ status' = status
    BY <1>7 DEF CreateStreamFactory, Construct, Throw, settings, Everything
  <2> QED
    BY <2>1, <2>2 DEF Everything
<1>8. CASE CreateQueue
  <2>1. config' = config /\ threads' = threads /\ stage = "queue"
    BY <1>8 DEF CreateQueue, settings
  <2>2. \/ stage' = "workers" /\ status' = status /\ held' = Everything
        \/ stage' = "unwind" /\ status' = status
    BY <1>8 DEF CreateQueue, Throw, Everything
  <2> QED
    BY <2>1, <2>2 DEF Everything
<1>9. CASE StartWorker
  BY <1>9, ThreadsAreFew DEF StartWorker, Throw, settings, Everything
<1>10. CASE EnterAcceptLoop
  BY <1>10 DEF EnterAcceptLoop, settings, Everything
<1>11. CASE JoinWorker
  BY <1>11, ThreadsAreFew DEF JoinWorker, settings, Everything
<1>12. CASE Destroy
  BY <1>12 DEF Destroy, settings
<1>13. CASE Report
  BY <1>13, NoneIsNoNumber DEF Report, Exit, settings
<1>14. CASE AcceptFails
  BY <1>14 DEF AcceptFails, Throw, settings, Everything
<1>15. CASE UNCHANGED vars
  BY <1>15 DEF vars, Everything
<1> QED
  BY <1>1, <1>2, <1>3, <1>4, <1>5, <1>6, <1>7, <1>8, <1>9, <1>10, <1>11, <1>12, <1>13,
     <1>14, <1>15 DEF Next, MainStep

\* What the process owns at every stage.
THEOREM OwnsByStage == Spec => []Owned
BY InitOwned, NextOwned, PTL DEF Spec

\* NothingUsedAfterFree, whatever fails and however many workers have been
\* started by then: a worker never outlives its queue, its modules or its TLS
\* context, and a process that ends has given everything back.
THEOREM NothingIsUsedAfterFree == Spec => []NothingUsedAfterFree
<1>1. Owned => NothingUsedAfterFree
  BY DEF Owned, Starting, Everything, NothingUsedAfterFree
<1> QED
  BY <1>1, OwnsByStage, PTL

-----------------------------------------------------------------------------
(* The positions of the options, as the usage text has them.               *)

\* f marks the positions 1..n at which an option or a port stands.
Marks(f, a, n) ==
    f = [i \in 0..n |-> i > 0 /\ (i = 1 \/ ~(f[i - 1] /\ a[i - 1] \in DOMAIN Setting))]

\* There is such a marking, however many words there are.
LEMMA MarksExist ==
  ASSUME NEW a
  PROVE  \A n \in Nat : \E f : Marks(f, a, n)
<1> DEFINE S == {n \in Nat : \E f : Marks(f, a, n)}
<1>1. 0 \in S
  <2> DEFINE g == [i \in 0..0 |-> FALSE]
  <2>0. ASSUME NEW i \in 0..0
        PROVE  FALSE = (i > 0 /\ (i = 1 \/ ~(g[i - 1] /\ a[i - 1] \in DOMAIN Setting)))
    <3>1. ~(i > 0)
      OBVIOUS
    <3> QED
      BY <3>1, Zenon
  <2>1. Marks(g, a, 0)
    <3>1. g = [i \in 0..0 |-> (i > 0 /\ (i = 1 \/ ~(g[i - 1] /\ a[i - 1] \in DOMAIN Setting)))]
      BY <2>0, Zenon
    <3> QED
      BY <3>1 DEF Marks
  <2> QED
    BY <2>1
<1>2. ASSUME NEW n \in Nat, n \in S PROVE n + 1 \in S
  <2>1. PICK f : Marks(f, a, n)
    BY <1>2
  <2> DEFINE mark(g, i) == i > 0 /\ (i = 1 \/ ~(g[i - 1] /\ a[i - 1] \in DOMAIN Setting))
             g == [i \in 0..(n + 1) |-> IF i <= n THEN f[i] ELSE mark(f, n + 1)]
  <2>2. ASSUME NEW i \in 0..(n + 1) PROVE g[i] = mark(g, i)
    <3>1. CASE i = 0
      <4>1. 0 \in 0..n /\ ~(i > 0) /\ g[0] = f[0]
        BY <3>1
      <4>2. f[0] = mark(f, 0)
        BY <2>1, <4>1, Zenon DEF Marks
      <4>3. mark(f, 0) = FALSE /\ mark(g, 0) = FALSE
        BY <3>1, <4>1, Zenon
      <4> QED
        BY <3>1, <4>1, <4>2, <4>3
    <3>2. CASE i # 0 /\ i <= n
      <4>1. i - 1 \in 0..n /\ i \in 0..n
        BY <3>2
      <4>2. f[i] = mark(f, i)
        BY <2>1, <4>1 DEF Marks
      <4>3. g[i] = f[i] /\ g[i - 1] = f[i - 1]
        BY <4>1
      <4> QED
        BY <4>2, <4>3
    <3>3. CASE i = n + 1
      <4>1. g[i] = mark(f, i) /\ g[i - 1] = f[i - 1]
        BY <3>3
      <4> QED
        BY <4>1
    <3> QED
      BY <3>1, <3>2, <3>3
  <2>3. g = [i \in 0..(n + 1) |-> mark(g, i)]
    <3> HIDE DEF mark
    <3>1. g = [i \in 0..(n + 1) |-> g[i]]
      OBVIOUS
    <3> HIDE DEF g
    <3> QED
      BY <2>2, <3>1
  <2>4. Marks(g, a, n + 1)
    BY <2>3 DEF Marks
  <2> QED
    BY <2>4
<1> HIDE DEF S
<1>3. Nat \subseteq S
  BY <1>1, <1>2, NatSetInduction
<1> QED
  BY <1>3 DEF S

\* The command line is a sequence of words, none of them None.
Words ==
    /\ args \in Seq({args[i] : i \in DOMAIN args})
    /\ \A i, j \in DOMAIN args : args[i] # None /\ None # <<args[i], args[j]>>

\* The first word is an option or a port, and so is every other word but the
\* one after an option that has a value.
LEMMA OptionAtFacts ==
  ASSUME Words
  PROVE  /\ OptionAt \subseteq 1..Len(args)
         /\ 1 <= Len(args) => 1 \in OptionAt
         /\ \A i \in 1..Len(args) : i + 1 <= Len(args) =>
               (i + 1 \in OptionAt <=> ~(i \in OptionAt /\ args[i] \in DOMAIN Setting))
<1> DEFINE n == Len(args)
           f == CHOOSE f : Marks(f, args, n)
<1>1. n \in Nat
  BY DEF Words
<1>2. Marks(f, args, n)
  BY <1>1, MarksExist
<1>3. OptionAt = {i \in 1..n : f[i]}
  BY DEF OptionAt, Marks
<1> HIDE DEF f, n
<1>4. \A i \in 0..n : f[i] = (i > 0 /\ (i = 1 \/ ~(f[i - 1] /\ args[i - 1] \in DOMAIN Setting)))
  BY <1>2 DEF Marks
<1>5. ASSUME 1 <= n PROVE 1 \in OptionAt
  <2>1. 1 \in 0..n /\ 1 \in 1..n /\ 1 > 0
    BY <1>1, <1>5
  <2>2. f[1] = (1 > 0 /\ (1 = 1 \/ ~(f[1 - 1] /\ args[1 - 1] \in DOMAIN Setting)))
    BY <1>4, <2>1
  <2> QED
    BY <1>3, <2>1, <2>2, Zenon
<1>6. ASSUME NEW i \in 1..n, i + 1 <= n
      PROVE  i + 1 \in OptionAt <=> ~(i \in OptionAt /\ args[i] \in DOMAIN Setting)
  <2>1. i + 1 \in 0..n /\ i + 1 \in 1..n /\ i + 1 > 0 /\ i + 1 # 1 /\ (i + 1) - 1 = i
    BY <1>1, <1>6
  <2>2. f[i + 1] = (i + 1 > 0 /\ (i + 1 = 1 \/ ~(f[(i + 1) - 1] /\ args[(i + 1) - 1] \in DOMAIN Setting)))
    BY <1>4, <2>1
  <2>3. f[i + 1] <=> ~(f[i] /\ args[i] \in DOMAIN Setting)
    BY <2>1, <2>2
  <2> QED
    BY <1>3, <2>1, <2>3
<1> QED
  BY <1>3, <1>5, <1>6 DEF n

-----------------------------------------------------------------------------
(* What the parser has read.                                               *)

Names == {"bind", "cert", "key", "modules", "workers", "capacity", "port"}

\* The setting that the option or port at a position is about, and its value.
About(i) == IF args[i] \in DOMAIN Setting THEN Setting[args[i]] ELSE "port"
ValueAt(i) ==
    IF args[i] \in DOMAIN Setting THEN Stored(Setting[args[i]], args[i + 1]) ELSE NumberOf[args[i]]

\* The positions before n that are about a setting, and what they make of it.
Mentions(s, n) == {i \in OptionAt : i < n /\ About(i) = s}
Meaning(s, n) ==
    IF Mentions(s, n) = {} THEN NoOptions[s] ELSE ValueAt(Latest(Mentions(s, n)))

\* The parser's invariant: it stands at an option or at the end, all it has
\* passed was good, and its settings are what the words before say.
Reading ==
    /\ args \in CommandLines
    /\ index \in 1..Len(args) + 1
    /\ index <= Len(args) => index \in OptionAt
    /\ \A i \in OptionAt : i < index => GoodAt(i)
    /\ opts = [s \in Names |-> Meaning(s, index)]

\* A command line that can occur.
LEMMA LinesHaveWords ==
  ASSUME args \in CommandLines PROVE Words
BY LinesAreWords DEF Words

\* What depends on the command line alone does not change with it.
LEMMA SameLine ==
  ASSUME args' = args
  PROVE  /\ OptionAt' = OptionAt
         /\ \A i : /\ About(i)' = About(i) /\ ValueAt(i)' = ValueAt(i)
                   /\ GoodAt(i)' <=> GoodAt(i)
         /\ \A s, n : Mentions(s, n)' = Mentions(s, n) /\ Meaning(s, n)' = Meaning(s, n)
<1>1. OptionAt' = OptionAt
  BY DEF OptionAt
<1>2. ASSUME NEW i
      PROVE  /\ About(i)' = About(i) /\ ValueAt(i)' = ValueAt(i)
             /\ GoodAt(i)' <=> GoodAt(i)
  BY DEF About, ValueAt, GoodAt
<1>3. ASSUME NEW s, NEW n PROVE Mentions(s, n)' = Mentions(s, n)
  BY <1>1, <1>2 DEF Mentions
<1>4. ASSUME NEW s, NEW n PROVE Meaning(s, n)' = Meaning(s, n)
  <2>1. Mentions(s, n)' = Mentions(s, n)
    BY <1>3
  <2>2. ValueAt(Latest(Mentions(s, n)))' = ValueAt(Latest(Mentions(s, n)))
    BY <1>2, <2>1 DEF ValueAt
  <2> QED
    BY <2>1, <2>2 DEF Meaning
<1> QED
  BY <1>1, <1>2, <1>3, <1>4

\* The last of some positions, when it is known.
LEMMA LatestIs ==
  ASSUME NEW S, S \subseteq Nat, NEW m \in S, \A j \in S : j <= m
  PROVE  Latest(S) = m
<1>1. \A x \in S : (\A j \in S : j <= x) => x = m
  OBVIOUS
<1> QED
  BY <1>1 DEF Latest

\* The options' names and their settings.
LEMMA SettingFacts ==
  /\ DOMAIN Setting = {"--bind", "--tls-cert", "--tls-key", "--modules-dir", "--workers",
                       "--queue-capacity", "--port"}
  /\ Setting["--bind"] = "bind" /\ Setting["--tls-cert"] = "cert" /\ Setting["--tls-key"] = "key"
  /\ Setting["--modules-dir"] = "modules" /\ Setting["--workers"] = "workers"
  /\ Setting["--queue-capacity"] = "capacity" /\ Setting["--port"] = "port"
BY DEF Setting

\* Every position is about a setting.
LEMMA AboutFacts ==
  ASSUME NEW i PROVE About(i) \in Names
BY SettingFacts DEF About, Names

\* An option and its value are read, or a port is.
LEMMA ReadingGoesOn ==
  ASSUME Reading, index <= Len(args), GoodAt(index), args' = args,
         opts' = [opts EXCEPT ![About(index)] = ValueAt(index)],
         index' = IF args[index] \in DOMAIN Setting THEN index + 2 ELSE index + 1
  PROVE  Reading'
<1>1. Words /\ Len(args) \in Nat /\ index \in 1..Len(args) /\ index \in OptionAt
  BY LinesHaveWords DEF Reading, Words
<1>2. OptionAt \subseteq 1..Len(args)
  BY <1>1, OptionAtFacts
<1>3. args[index] \in DOMAIN Setting =>
        /\ index + 1 <= Len(args) /\ index + 1 \notin OptionAt
        /\ index + 2 <= Len(args) => index + 2 \in OptionAt
  <2> SUFFICES ASSUME args[index] \in DOMAIN Setting PROVE <1>3!2
    OBVIOUS
  <2>1. index + 1 <= Len(args)
    BY <1>1 DEF GoodAt
  <2>2. index + 1 \notin OptionAt
    BY <1>1, <2>1, OptionAtFacts
  <2>3. ASSUME index + 2 <= Len(args) PROVE index + 2 \in OptionAt
    <3>1. index + 1 \in 1..Len(args) /\ (index + 1) + 1 <= Len(args) /\ (index + 1) + 1 = index + 2
      BY <1>1, <2>3
    <3> QED
      BY <1>1, <2>2, <3>1, OptionAtFacts
  <2> QED
    BY <2>1, <2>2, <2>3
<1>4. args[index] \notin DOMAIN Setting => (index + 1 <= Len(args) => index + 1 \in OptionAt)
  BY <1>1, OptionAtFacts
<1>5. /\ index' \in 1..Len(args) + 1
      /\ index' <= Len(args) => index' \in OptionAt
      /\ \A i \in OptionAt : i < index' <=> i < index \/ i = index
  BY <1>1, <1>2, <1>3, <1>4
<1>6. \A i \in OptionAt : i < index' => GoodAt(i)
  BY <1>5 DEF Reading
<1>7. ASSUME NEW s \in Names
      PROVE  opts'[s] = Meaning(s, index')
  <2>0. opts = [x \in Names |-> Meaning(x, index)] /\ About(index) \in Names
    BY AboutFacts DEF Reading
  <2>1. CASE About(index) = s
    <3> DEFINE M == Mentions(s, index')
    <3>1. M \subseteq Nat /\ index \in M /\ \A j \in M : j <= index
      <4>1. M = {i \in OptionAt : i < index' /\ About(i) = s}
        BY DEF Mentions
      <4>2. M \subseteq OptionAt /\ \A j \in M : j < index \/ j = index
        BY <1>5, <4>1
      <4>3. index \in M
        BY <1>1, <1>5, <2>1, <4>1
      <4>4. M \subseteq Nat
        BY <1>2, <4>2
      <4> HIDE DEF M
      <4> QED
        BY <1>1, <4>2, <4>3, <4>4
    <3>2. Latest(M) = index
      BY <3>1, LatestIs
    <3>3. Meaning(s, index') = ValueAt(index)
      <4>1. Mentions(s, index') # {} /\ Latest(Mentions(s, index')) = index
        BY <3>1, <3>2
      <4> QED
        BY <4>1 DEF Meaning
    <3> QED
      BY <2>0, <2>1, <3>3
  <2>2. CASE About(index) # s
    <3>1. Mentions(s, index') = Mentions(s, index)
      BY <1>5, <2>2 DEF Mentions
    <3>2. Meaning(s, index') = Meaning(s, index)
      BY <3>1 DEF Meaning
    <3> QED
      BY <2>0, <2>2, <3>2
  <2> QED
    BY <2>1, <2>2
<1>8. opts' = [s \in Names |-> Meaning(s, index')]
  <2>1. opts' = [s \in Names |-> opts'[s]]
    BY DEF Reading
  <2> QED
    BY <1>7, <2>1
<1> QED
  BY <1>5, <1>6, <1>8, SameLine DEF Reading

\* The parser's invariant is one.
LEMMA InitReading == Init => Reading
<1> SUFFICES ASSUME Init PROVE Reading
  OBVIOUS
<1>1. args \in CommandLines /\ index = 1 /\ opts = NoOptions
  BY DEF Init
<1>2. Words /\ Len(args) \in Nat
  BY <1>1, LinesHaveWords DEF Words
<1>3. OptionAt \subseteq 1..Len(args) /\ (1 <= Len(args) => 1 \in OptionAt)
  BY <1>2, OptionAtFacts
<1>4. \A i \in OptionAt : ~(i < 1)
  BY <1>2, <1>3
<1>5. \A s \in Names : Meaning(s, index) = NoOptions[s]
  BY <1>1, <1>4 DEF Meaning, Mentions
<1>6. NoOptions = [s \in Names |-> NoOptions[s]]
  BY DEF NoOptions, Names
<1>7. opts = [s \in Names |-> Meaning(s, index)]
  BY <1>1, <1>5, <1>6
<1> QED
  BY <1>1, <1>2, <1>3, <1>4, <1>7 DEF Reading

\* Where the words have not been read on, the invariant stays.
LEMMA ReadingStays ==
  ASSUME Reading, UNCHANGED <<args, index, opts>> PROVE Reading'
BY SameLine DEF Reading

\* What follows from the words: how far main() comes and what it makes of
\* them.
Decided ==
    /\ stage \in {"listen", "load", "tls", "queue", "workers", "serving"} =>
          index > Len(args) /\ config = Configured(opts, world)
    /\ stage \in {"tls", "queue", "workers", "serving"} => world.files[config.modules] = "dir"
    /\ held # {} \/ stage = "listen" =>
          index > Len(args) /\ (opts.cert = None <=> opts.key = None)
    /\ stage = "unwind" /\ index <= Len(args) => ~GoodAt(index)
    /\ status = 0 => index <= Len(args) /\ args[index] \in {"--help", "--version"}

\* Both are kept by every step.
LEMMA NextDecided == Owned /\ Reading /\ Decided /\ [Next]_vars => Reading' /\ Decided'
<1> SUFFICES ASSUME Owned, Reading, Decided, [Next]_vars PROVE Reading' /\ Decided'
  OBVIOUS
<1>0. /\ 1 # 0 /\ None # 0 /\ None # 1
      /\ index \in Nat /\ Len(args) \in Nat /\ ~(index > Len(args) /\ index <= Len(args))
  BY NoneIsNoNumber, LinesHaveWords DEF Reading, Words
<1>1. CASE ParseInformation
  <2>1. Reading'
    BY <1>1, ReadingStays DEF ParseInformation, settings
  <2> QED
    BY <1>1, <2>1 DEF ParseInformation, settings, Exit, Decided, Owned
<1>2. CASE ParseNamedOption
  <2>1. /\ stage = "parse" /\ index <= Len(args) /\ args[index] \in DOMAIN Setting
        /\ UNCHANGED <<args, world, config, held, threads, status>>
        /\ About(index) = Setting[args[index]]
        /\ ValueAt(index) = Stored(Setting[args[index]], args[index + 1])
        /\ GoodAt(index) <=>
             RequireValue(index) /\ Accepts(Setting[args[index]], args[index + 1])
    BY <1>2 DEF ParseNamedOption, Throw, About, ValueAt, GoodAt, RequireValue
  <2>2. held = {} /\ status = None
    BY <2>1 DEF Owned
  <2>3. CASE GoodAt(index)
    <3>1. /\ opts' = [opts EXCEPT ![About(index)] = ValueAt(index)]
          /\ index' = index + 2 /\ stage' = stage
      BY <1>2, <2>1, <2>3 DEF ParseNamedOption
    <3>2. Reading'
      BY <2>1, <2>3, <3>1, ReadingGoesOn
    <3> QED
      BY <1>0, <2>1, <2>2, <3>1, <3>2 DEF Decided
  <2>4. CASE ~GoodAt(index)
    <3>1. UNCHANGED <<index, opts>> /\ stage' = "unwind"
      BY <1>2, <2>1, <2>4 DEF ParseNamedOption, Throw
    <3>2. Reading'
      BY <2>1, <3>1, ReadingStays
    <3>3. ~GoodAt(index)'
      BY <2>1, <2>4, <3>1 DEF GoodAt
    <3> QED
      BY <1>0, <2>1, <2>2, <3>1, <3>2, <3>3 DEF Decided
  <2> QED
    BY <2>3, <2>4
<1>3. CASE ParseOtherWord
  <2>1. /\ stage = "parse" /\ index <= Len(args) /\ args[index] \notin DOMAIN Setting
        /\ UNCHANGED <<args, world, config, held, threads, status>>
        /\ About(index) = "port" /\ ValueAt(index) = NumberOf[args[index]]
        /\ GoodAt(index) <=> args[index] \notin Dashed /\ IsPort(args[index])
    BY <1>3 DEF ParseOtherWord, Throw, About, ValueAt, GoodAt
  <2>2. held = {} /\ status = None
    BY <2>1 DEF Owned
  <2>3. CASE GoodAt(index)
    <3>1. /\ opts' = [opts EXCEPT ![About(index)] = ValueAt(index)]
          /\ index' = index + 1 /\ stage' = stage
      BY <1>3, <2>1, <2>3 DEF ParseOtherWord
    <3>2. Reading'
      BY <2>1, <2>3, <3>1, ReadingGoesOn
    <3> QED
      BY <1>0, <2>1, <2>2, <3>1, <3>2 DEF Decided
  <2>4. CASE ~GoodAt(index)
    <3>1. UNCHANGED <<index, opts>> /\ stage' = "unwind"
      BY <1>3, <2>1, <2>4 DEF ParseOtherWord, Throw
    <3>2. Reading'
      BY <2>1, <3>1, ReadingStays
    <3>3. ~GoodAt(index)'
      BY <2>1, <2>4, <3>1 DEF GoodAt
    <3> QED
      BY <1>0, <2>1, <2>2, <3>1, <3>2, <3>3 DEF Decided
  <2> QED
    BY <2>3, <2>4
<1>4. CASE FinalizeOptions
  <2>1. /\ stage = "parse" /\ index > Len(args)
        /\ UNCHANGED <<args, world, index, opts, held, threads, status>>
        /\ held = {} /\ status = None
        /\ index \in Nat /\ Len(args) \in Nat
    BY <1>4, LinesHaveWords DEF FinalizeOptions, Throw, Owned, Reading, Words
  <2>2. Reading'
    BY <2>1, ReadingStays
  <2>3. \/ /\ stage' = "listen" /\ config' = Configured(opts, world)
           /\ opts.cert = None <=> opts.key = None
        \/ stage' = "unwind"
    BY <1>4 DEF FinalizeOptions, Throw
  <2>4. Configured(opts, world)' = Configured(opts, world)
    BY <2>1 DEF Configured, ValueOr, DefaultWorkers, DefaultWwwRoot, DefaultModuleDir, ModuleDirs,
                DefaultCapacity
  <2> QED
    BY <1>0, <2>1, <2>2, <2>3, <2>4 DEF Decided
<1>5. CASE UNCHANGED settings
  <2>1. UNCHANGED <<args, world, index, opts, config>>
    BY <1>5 DEF settings
  <2>2. Reading' /\ (GoodAt(index)' <=> GoodAt(index))
    BY <2>1, ReadingStays DEF GoodAt
  <2>3. Configured(opts, world)' = Configured(opts, world)
    BY <2>1 DEF Configured, ValueOr, DefaultWorkers, DefaultWwwRoot, DefaultModuleDir, ModuleDirs,
                DefaultCapacity
  <2>4. CASE OpenListener
    BY <1>0, <2>1, <2>2, <2>3, <2>4 DEF OpenListener, Construct, Throw, Decided, Owned
  <2>5. CASE LoadModules
    BY <1>0, <2>1, <2>2, <2>3, <2>5 DEF LoadModules, Construct, Throw, Decided, Owned
  <2>6. CASE CreateStreamFactory
    BY <1>0, <2>1, <2>2, <2>3, <2>6 DEF CreateStreamFactory, Construct, Throw, Decided, Owned
  <2>7. CASE CreateQueue
    BY <1>0, <2>1, <2>2, <2>3, <2>7 DEF CreateQueue, Throw, Decided, Owned, Everything
  <2>8. CASE StartWorker \/ EnterAcceptLoop \/ AcceptFails
    BY <1>0, <2>1, <2>2, <2>3, <2>8
       DEF StartWorker, EnterAcceptLoop, AcceptFails, Throw, Decided, Owned, Everything
  <2>9. CASE JoinWorker \/ Destroy
    BY <1>0, <2>1, <2>2, <2>3, <2>9 DEF JoinWorker, Destroy, Decided
  <2>10. CASE Report
    BY <1>0, <2>1, <2>2, <2>3, <2>10 DEF Report, Exit, Decided
  <2>11. CASE ParseInformation
    BY <1>1, <2>11
  <2>12. CASE UNCHANGED vars
    BY <2>2, <2>3, <2>12 DEF vars, Decided
  <2>13. CASE ParseNamedOption \/ ParseOtherWord \/ FinalizeOptions
    BY <1>2, <1>3, <1>4, <2>13
  <2> QED
    BY <2>4, <2>5, <2>6, <2>7, <2>8, <2>9, <2>10, <2>11, <2>12, <2>13 DEF Next, MainStep
<1> QED
  BY <1>1, <1>2, <1>3, <1>4, <1>5
     DEF Next, MainStep, vars, settings, OpenListener, LoadModules, CreateStreamFactory, Construct,
         CreateQueue, StartWorker, EnterAcceptLoop, AcceptFails, JoinWorker, Destroy, Report

\* The parser and what follows from it, in every reachable state.
THEOREM WordsAreRead == Spec => [](Reading /\ Decided)
<1>1. Init => Reading /\ Decided
  BY InitReading, NoneIsNoNumber DEF Init, Decided
<1> QED
  BY <1>1, NextDecided, OwnsByStage, PTL DEF Spec

\* At the end of the words everything that was said counts.
LEMMA AllIsRead ==
  ASSUME Reading, index > Len(args)
  PROVE  /\ \A i \in OptionAt : GoodAt(i) /\ i < index
         /\ OptionAt \subseteq 1..Len(args) /\ Len(args) \in Nat /\ Words
<1>1. Words /\ Len(args) \in Nat /\ index \in Nat
  BY LinesHaveWords DEF Reading, Words
<1>2. OptionAt \subseteq 1..Len(args)
  BY <1>1, OptionAtFacts
<1>3. \A i \in OptionAt : i < index
  BY <1>1, <1>2
<1> QED
  BY <1>1, <1>2, <1>3 DEF Reading

\* What a good word says is a value.
LEMMA ValueAtIsSome ==
  ASSUME Words, NEW i \in 1..Len(args), GoodAt(i) PROVE ValueAt(i) # None
<1>1. CASE args[i] \in DOMAIN Setting
  <2>1. i + 1 \in DOMAIN args /\ Accepts(Setting[args[i]], args[i + 1])
    BY <1>1 DEF GoodAt, Words
  <2>2. args[i + 1] # None
    BY <2>1 DEF Words
  <2>3. CASE Setting[args[i]] \in {"port", "workers", "capacity"}
    <3>1. args[i + 1] \in Numeral
      <4>1. \A w : IsPort(w) => w \in Numeral
        BY Zenon DEF IsPort
      <4>2. \A w : IsCount(w) => w \in Numeral
        BY Zenon DEF IsCount
      <4> QED
        BY <2>1, <2>3, <4>1, <4>2 DEF Accepts
    <3>2. NumberOf[args[i + 1]] \in Int
      BY <3>1, NumbersAreInt
    <3> QED
      BY <1>1, <2>3, <3>2, NoneIsNoNumber DEF ValueAt, Stored
  <2>4. CASE Setting[args[i]] \notin {"port", "workers", "capacity"}
    BY <1>1, <2>2, <2>4 DEF ValueAt, Stored
  <2> QED
    BY <2>3, <2>4
<1>2. CASE args[i] \notin DOMAIN Setting
  <2>0. args[i] \in Numeral
    BY <1>2, Zenon DEF GoodAt, IsPort
  <2>1. NumberOf[args[i]] \in Int
    BY <2>0, NumbersAreInt
  <2> QED
    BY <1>2, <2>1, NoneIsNoNumber DEF ValueAt
<1> QED
  BY <1>1, <1>2

\* The positions of an option are those about its setting, except that a port
\* may stand alone.
LEMMA MentionsAreGiven ==
  ASSUME Reading, index > Len(args)
  PROVE  /\ \A o \in DOMAIN Setting \ {"--port"} : Mentions(Setting[o], index) = Given(o)
         /\ Mentions("port", index) =
              {i \in OptionAt : args[i] \notin DOMAIN Setting} \cup Given("--port")
<1>1. \A i \in OptionAt : i < index
  BY AllIsRead
<1>2. ASSUME NEW o \in DOMAIN Setting \ {"--port"}, NEW i
      PROVE  About(i) = Setting[o] <=> args[i] = o
  BY SettingFacts DEF About
<1>3. ASSUME NEW i PROVE About(i) = "port" <=> args[i] \notin DOMAIN Setting \/ args[i] = "--port"
  BY SettingFacts DEF About
<1> QED
  BY <1>1, <1>2, <1>3 DEF Mentions, Given

\* At the end of the words, a setting is what was said of it last.
LEMMA SettingsAreSaid ==
  ASSUME Reading, index > Len(args)
  PROVE  /\ \A o \in DOMAIN Setting \ {"--port"} :
              /\ Given(o) = {} => opts[Setting[o]] = NoOptions[Setting[o]] /\ Said(o) = None
              /\ Given(o) # {} =>
                   /\ opts[Setting[o]] = Said(o) /\ Said(o) # None
                   /\ \E i \in DOMAIN args : Setting[o] \in {"cert", "key"} => Said(o) = args[i]
         /\ opts.port = SaidPort
<1>0. /\ \A i \in OptionAt : GoodAt(i)
      /\ OptionAt \subseteq 1..Len(args) /\ Len(args) \in Nat /\ Words
      /\ opts = [s \in Names |-> Meaning(s, index)]
  BY AllIsRead DEF Reading
<1>1. ASSUME NEW S, S \subseteq OptionAt, S # {} PROVE Latest(S) \in S
  <2>1. S \subseteq Nat /\ \A i \in S : i <= Len(args)
    BY <1>0, <1>1
  <2>2. \E m \in S : \A n \in S : n <= m
    BY <1>0, <1>1, <2>1, GreatestExists
  <2> QED
    BY <2>2 DEF Latest
<1>2. ASSUME NEW o \in DOMAIN Setting \ {"--port"}
      PROVE  /\ Given(o) = {} => opts[Setting[o]] = NoOptions[Setting[o]] /\ Said(o) = None
             /\ Given(o) # {} =>
                  /\ opts[Setting[o]] = Said(o) /\ Said(o) # None
                  /\ \E i \in DOMAIN args : Setting[o] \in {"cert", "key"} => Said(o) = args[i]
  <2>1. Setting[o] \in Names /\ Mentions(Setting[o], index) = Given(o)
    BY SettingFacts, MentionsAreGiven DEF Names
  <2>2. opts[Setting[o]] = IF Given(o) = {} THEN NoOptions[Setting[o]] ELSE ValueAt(Latest(Given(o)))
    BY <1>0, <2>1 DEF Meaning
  <2>3. CASE Given(o) = {}
    BY <2>2, <2>3 DEF Said
  <2>4. CASE Given(o) # {}
    <3> DEFINE m == Latest(Given(o))
    <3>1. m \in OptionAt /\ args[m] = o /\ m \in 1..Len(args) /\ GoodAt(m)
      BY <1>0, <1>1, <2>4 DEF Given
    <3>2. ValueAt(m) # None
      BY <1>0, <3>1, ValueAtIsSome
    <3>3. ValueAt(m) = Said(o)
      BY <2>4, <3>1 DEF ValueAt, Said
    <3>4. m + 1 \in DOMAIN args
      BY <1>0, <3>1 DEF GoodAt, Words
    <3>5. Setting[o] \in {"cert", "key"} => Said(o) = args[m + 1]
      BY <2>4 DEF Said, Stored
    <3> QED
      BY <2>2, <2>4, <3>2, <3>3, <3>4, <3>5
  <2> QED
    BY <2>3, <2>4
<1>3. opts.port = SaidPort
  <2> DEFINE ports == {i \in OptionAt : args[i] \notin DOMAIN Setting} \cup Given("--port")
  <2>1. opts["port"] = Meaning("port", index) /\ Mentions("port", index) = ports
    BY <1>0, MentionsAreGiven DEF Names
  <2>2. NoOptions["port"] = None
    BY DEF NoOptions
  <2>3. CASE ports = {}
    BY <2>1, <2>2, <2>3 DEF Meaning, SaidPort
  <2>4. CASE ports # {}
    <3> DEFINE m == Latest(ports)
    <3>1. m \in ports
      BY <1>1, <2>4 DEF Given
    <3>2. args[m] \notin DOMAIN Setting \/ args[m] = "--port"
      BY <3>1 DEF Given
    <3>3. ValueAt(m) = NumberOf[IF args[m] = "--port" THEN args[m + 1] ELSE args[m]]
      BY <3>2, SettingFacts DEF ValueAt, Stored
    <3>4. SaidPort = NumberOf[IF args[m] = "--port" THEN args[m + 1] ELSE args[m]]
      BY <2>4 DEF SaidPort
    <3> QED
      BY <2>1, <2>4, <3>3, <3>4 DEF Meaning
  <2> QED
    BY <2>3, <2>4
<1> QED
  BY <1>2, <1>3

-----------------------------------------------------------------------------
(* What the words decide.                                                  *)

\* At the end of the words the certificate and the key were given together or
\* not at all, if the settings say so.
LEMMA TlsIsGiven ==
  ASSUME Reading, index > Len(args)
  PROVE  /\ opts.cert = None <=> Given("--tls-cert") = {}
         /\ opts.key = None <=> Given("--tls-key") = {}
<1>1. /\ "--tls-cert" \in DOMAIN Setting \ {"--port"} /\ Setting["--tls-cert"] = "cert"
      /\ "--tls-key" \in DOMAIN Setting \ {"--port"} /\ Setting["--tls-key"] = "key"
      /\ NoOptions["cert"] = None /\ NoOptions["key"] = None
  BY SettingFacts DEF NoOptions
<1> QED
  BY <1>1, SettingsAreSaid

\* CommandLineDecides, for every command line: nothing is opened before all of
\* it was read and found good, help or the version is only shown where it is
\* asked for behind good words, and words are only refused for a fault of
\* theirs.
THEOREM TheCommandLineDecides == Spec => []CommandLineDecides
<1>1. Owned /\ Reading /\ Decided => CommandLineDecides
  <2> SUFFICES ASSUME Owned, Reading, Decided PROVE CommandLineDecides
    OBVIOUS
  <2>1. ASSUME held # {} PROVE Acceptable
    <3>1. index > Len(args) /\ (opts.cert = None <=> opts.key = None)
      BY <2>1 DEF Decided
    <3>2. \A i \in OptionAt : GoodAt(i)
      BY <3>1, AllIsRead
    <3> QED
      BY <3>1, <3>2, TlsIsGiven DEF Acceptable
  <2>2. ASSUME status = 0
        PROVE  \E i \in OptionAt : /\ args[i] \in {"--help", "--version"}
                                   /\ \A j \in OptionAt : j < i => GoodAt(j)
    BY <2>2 DEF Decided, Reading
  <2>3. ASSUME stage = "unwind", index <= Len(args) PROVE ~Acceptable
    BY <2>3 DEF Decided, Reading, Acceptable
  <2> QED
    BY <2>1, <2>2, <2>3 DEF CommandLineDecides
<1> QED
  BY <1>1, OwnsByStage, WordsAreRead, PTL

\* A product that fits is not changed by the width of a std::size_t.
LEMMA FitsSize ==
  ASSUME NEW a \in Nat, NEW m \in Nat, a < m PROVE a % m = a
OBVIOUS

\* ServesAsAsked, for every command line, machine and width of std::size_t: a
\* server that serves has the settings that were asked for.  The product that
\* may overflow does not, because so many threads could not be started.
THEOREM TheServerServesAsAsked == Spec => []ServesAsAsked
<1>1. Owned /\ Reading /\ Decided => ServesAsAsked
  <2> SUFFICES ASSUME Owned, Reading, Decided, stage = "serving" PROVE ServesAsAsked
    BY DEF ServesAsAsked
  <2>1. /\ index > Len(args) /\ config = Configured(opts, world)
        /\ world.files[config.modules] = "dir"
        /\ held = Everything /\ held # {} /\ threads = config.workers
        /\ threads \in 0..MaxThreads
    BY DEF Owned, Decided, Everything
  <2>2. /\ config.bind = opts.bind
        /\ config.port = ValueOr(opts.port, IF opts.cert = None THEN 8080 ELSE 8443)
        /\ config.modules = ValueOr(opts.modules, DefaultModuleDir(world))
        /\ config.workers = ValueOr(opts.workers, DefaultWorkers(world))
        /\ config.capacity = ValueOr(opts.capacity, DefaultCapacity(config.workers))
        /\ config.tls = IF opts.cert = None THEN None ELSE <<opts.cert, opts.key>>
    BY <2>1 DEF Configured
  <2>3. opts.cert = None <=> opts.key = None
    BY <2>1 DEF Decided
  <2>4. /\ {"--bind", "--tls-cert", "--tls-key", "--modules-dir", "--workers",
            "--queue-capacity"} \subseteq DOMAIN Setting \ {"--port"}
        /\ NoOptions["bind"] = "127.0.0.1"
        /\ \A s \in Names \ {"bind"} : NoOptions[s] = None
    BY SettingFacts DEF NoOptions, Names
  <2>5. /\ opts.bind = ValueOr(Said("--bind"), "127.0.0.1")
        /\ opts.modules = Said("--modules-dir") /\ opts.workers = Said("--workers")
        /\ opts.capacity = Said("--queue-capacity") /\ opts.port = SaidPort
        /\ opts.cert = Said("--tls-cert") /\ opts.key = Said("--tls-key")
    BY <2>1, <2>4, SettingFacts, SettingsAreSaid DEF ValueOr, Names
  <2>6. Given("--tls-cert") # {} <=> opts.cert # None
    BY <2>1, TlsIsGiven
  <2>7. ASSUME opts.cert # None PROVE config.tls # None
    <3>1. opts.key # None
      BY <2>3, <2>7
    <3>2. PICK i \in DOMAIN args : opts.cert = args[i]
      BY <2>1, <2>4, <2>5, <2>6, <2>7, SettingFacts, SettingsAreSaid
    <3>3. PICK j \in DOMAIN args : opts.key = args[j]
      BY <2>1, <2>4, <2>5, <3>1, TlsIsGiven, SettingFacts, SettingsAreSaid
    <3>4. None # <<args[i], args[j]>>
      BY LinesHaveWords DEF Reading, Words
    <3> QED
      BY <2>2, <2>7, <3>2, <3>3, <3>4
  <2>8. config.tls # None <=> Given("--tls-cert") # {}
    BY <2>2, <2>6, <2>7
  <2>9. DefaultCapacity(threads) = threads * 64
    <3>1. threads * 64 \in Nat /\ MaxThreads \in Nat /\ threads * 64 <= MaxThreads * 64
      BY <2>1, ThreadsAreFew
    <3> DEFINE m == 2^SizeBits
    <3>2. m \in Int /\ MaxThreads * 64 < m
      BY SizeIsNat, ThreadsAreFew
    <3> HIDE DEF m
    <3>3. m \in Nat
      BY <3>1, <3>2
    <3>4. (threads * 64) % m = threads * 64
      <4>1. threads * 64 < m
        BY <2>1, <3>1, <3>2, <3>3
      <4> QED
        BY <3>1, <3>3, <4>1, FitsSize
    <3> QED
      BY <3>4 DEF DefaultCapacity, m
  <2>10. Said("--workers") \in {None, threads}
    BY <2>1, <2>2, <2>5 DEF ValueOr
  <2>11. config.capacity = ValueOr(Said("--queue-capacity"), threads * 64)
    BY <2>1, <2>2, <2>5, <2>9
  <2>12. Given("--tls-cert") # {} <=> "tls" \in held
    BY <2>1, <2>8 DEF Everything
  <2>13. Given("--tls-cert") # {} => config.tls = <<Said("--tls-cert"), Said("--tls-key")>>
    BY <2>2, <2>5, <2>6
  <2>14. config.port = ValueOr(SaidPort, IF Given("--tls-cert") # {} THEN 8443 ELSE 8080)
    BY <2>2, <2>5, <2>6
  <2> QED
    BY <2>1, <2>2, <2>5, <2>10, <2>11, <2>12, <2>13, <2>14 DEF ServesAsAsked
<1> QED
  BY <1>1, OwnsByStage, WordsAreRead, PTL
=============================================================================
