--------------------------- MODULE PipelineProofs ---------------------------
(***************************************************************************)
(* Proofs about Pipeline, for every set of threads, every set of module    *)
(* files, everything modules can return and any number of requests.        *)
(***************************************************************************)
EXTENDS Pipeline, Integers, FiniteSetTheorems, FunctionTheorems, SequenceTheorems,
        WellFoundedInduction, TLAPS

USE DEF lifeVars, threadVars, Slot

-----------------------------------------------------------------------------
(* Induction.  The rules of the library have an operator as their          *)
(* parameter, which the provers cannot instantiate; with a set they can.   *)

\* A set with 0 and with every successor of its numbers has all of them.
LEMMA NatSetInduction ==
  ASSUME NEW S, 0 \in S, \A n \in Nat : n \in S => n + 1 \in S
  PROVE  Nat \subseteq S
<1> DEFINE R == OpToRel(<, Nat)
           T == Nat \ S
<1>1. IsWellFoundedOn(R, Nat)
  BY NatLessThanWellFounded
<1>2. SUFFICES ASSUME T # {} PROVE FALSE
  OBVIOUS
<1>3. T \subseteq Nat
  OBVIOUS
<1> HIDE DEF R, T
<1>4. PICK x \in T : \A y \in T : ~(<<y, x>> \in R)
  BY <1>1, <1>2, <1>3, WFMin
<1> USE DEF T
<1>5. x # 0 /\ x - 1 \in Nat /\ x - 1 < x
  BY <1>4
<1>6. <<x - 1, x>> \in R
  BY <1>5 DEF R, OpToRel
<1>7. x - 1 \in S
  BY <1>4, <1>5, <1>6
<1>8. (x - 1) + 1 \in S
  BY <1>5, <1>7
<1> QED
  BY <1>4, <1>8

-----------------------------------------------------------------------------
(* Types.                                                                  *)

\* What a module returns, as CallModule sees it.
Returned(t, s, torn) ==
    [next |-> IF torn THEN "error" ELSE s.next, response |-> s.response, extra |-> s.extra,
     torn |-> torn, tag |-> <<t, turn[t], chain[at[t]]>>]

\* A call makes a result of the declared type.
LEMMA ReturnedType ==
  ASSUME TypeOK, NEW t \in Thread, turn[t] # 0, at[t] \in 1..Len(chain),
         NEW s \in Shape, NEW torn \in BOOLEAN
  PROVE  /\ Returned(t, s, torn) \in ModuleResult
         /\ Returned(t, s, torn).tag \in Tag
<1>1. chain[at[t]] \in ConfFile /\ turn[t] \in 1..MaxRequests
  BY RequestBound DEF TypeOK
<1>2. s.next \in Outcome /\ s.response \in BOOLEAN /\ s.extra \in BOOLEAN
  BY ShapesAreResults DEF Outcome
<1>3. <<t, turn[t], chain[at[t]]>> \in Tag
  BY <1>1 DEF Tag
<1> QED
  BY <1>2, <1>3 DEF Returned, ModuleResult, Outcome

\* The headers of a result are headers.
LEMMA ResultHeadersType ==
  ASSUME NEW r \in ModuleResult
  PROVE  /\ Own(r) \in Seq(Header) /\ Extra(r) \in Seq(Header)
         /\ ResultHeaders(r) \in Seq(Header)
<1>1. /\ [kind |-> "own", tag |-> r.tag] \in Header
      /\ [kind |-> "extra", tag |-> r.tag] \in Header
  BY DEF ModuleResult, Header, Kind
<1>2. Own(r) \in Seq(Header) /\ Extra(r) \in Seq(Header)
  BY <1>1 DEF Own, Extra
<1> QED
  BY <1>2, ConcatProperties DEF ResultHeaders

\* So is what the adapter leaves in the storage.
LEMMA PublishedType ==
  ASSUME NEW r \in ModuleResult, NEW c \in Content
  PROVE  Published(r, c) \in Content /\ TornContent(r) \in Content
<1>1. r.tag \in Tag
  BY DEF ModuleResult
<1>2. <<>> \in Seq(Header)
  OBVIOUS
<1>3. Own(r) \o Extra(r) \in Seq(Header) /\ Extra(r) \in Seq(Header)
  BY ResultHeadersType DEF ResultHeaders
<1>4. [headers |-> Own(r) \o Extra(r), body |-> r.tag] \in Content
  BY <1>1, <1>3 DEF Content
<1>5. [c EXCEPT !.headers = Extra(r)] \in Content
  BY <1>3 DEF Content
<1>6. TornContent(r) \in Content
  BY <1>1, <1>2 DEF TornContent, Content
<1> QED
  BY <1>4, <1>5, <1>6 DEF Published

\* What the host copies is a response.
LEMMA CopyType ==
  ASSUME TypeOK, NEW t \in Thread
  PROVE  /\ CopyHeaders(t) \in Seq(Header) /\ pending[t] \in Seq(Header)
         /\ Finalize(ToHttpResponse(t), pending[t]) \in Reply
         /\ \A code \in {"404", "500", "501"} :
               /\ Finalize(Text(code), pending[t]) \in Reply
               /\ Finalize(Text(code), pending[t] \o CopyHeaders(t)) \in Reply
<1>1. storage[t] \in Content /\ pending[t] \in Seq(Header) /\ view[t] \in View
  BY DEF TypeOK
<1>2. CopyHeaders(t) \in Seq(Header) /\ <<>> \in Seq(Header)
  BY <1>1 DEF CopyHeaders, Content
<1>3. /\ CopyHeaders(t) \o pending[t] \in Seq(Header)
      /\ <<>> \o pending[t] \in Seq(Header)
      /\ pending[t] \o CopyHeaders(t) \in Seq(Header)
      /\ <<>> \o (pending[t] \o CopyHeaders(t)) \in Seq(Header)
  BY <1>1, <1>2, ConcatProperties
<1>4. Finalize(ToHttpResponse(t), pending[t]) \in Reply
  BY <1>1, <1>3 DEF Finalize, ToHttpResponse, Reply, Content
<1>5. ASSUME NEW code \in {"404", "500", "501"}
      PROVE  /\ Finalize(Text(code), pending[t]) \in Reply
             /\ Finalize(Text(code), pending[t] \o CopyHeaders(t)) \in Reply
  BY <1>3 DEF Finalize, Text, Reply
<1> QED
  BY <1>1, <1>2, <1>4, <1>5

\* Threads are in requests while the server serves; a request has a number,
\* and its modules are called from the first on.
InRequest ==
    \A t \in Thread : pc[t] # "idle" =>
        /\ phase = "serving" /\ turn[t] # 0 /\ at[t] # 0
        /\ pc[t] = "copy" => at[t] <= Len(chain)

Typed == TypeOK /\ InRequest

\* The initial state has the declared types.
LEMMA InitType == Init => Typed
  BY RequestBound
     DEF Init, Typed, TypeOK, InRequest, NoContent, Content, FreshView, View, NoReply, Reply,
         Outcome

\* A call of a module keeps them.
LEMMA CallType ==
  ASSUME Typed, NEW t \in Thread, CallModule(t)
  PROVE  Typed'
<1>1. /\ pc[t] = "call" /\ at[t] <= Len(chain) /\ turn[t] # 0 /\ at[t] # 0
      /\ TypeOK /\ at[t] \in Nat /\ chain \in Seq(ConfFile)
  BY DEF Typed, InRequest, CallModule, TypeOK
<1>2. PICK s \in Shape, torn \in BOOLEAN :
         LET r == Returned(t, s, torn)
         IN /\ storage' = [storage EXCEPT ![t] = IF torn THEN TornContent(r)
                                                         ELSE Published(r, @)]
            /\ view' = [view EXCEPT ![t] = IF torn THEN TornView ELSE PublishedView(r)]
            /\ outcome' = [outcome EXCEPT ![t] = r.next]
            /\ ran' = [ran EXCEPT ![t] = Append(@, r)]
  BY DEF CallModule, Returned
<1> DEFINE r == Returned(t, s, torn)
<1>3. r \in ModuleResult
  BY <1>1, ReturnedType
<1>4. r.next \in Outcome /\ r.response \in BOOLEAN /\ r.extra \in BOOLEAN
  BY <1>3 DEF ModuleResult
<1> HIDE DEF r
<1>5. storage' \in [Thread -> Content]
  <2>1. storage[t] \in Content
    BY <1>1 DEF TypeOK
  <2>2. TornContent(r) \in Content /\ Published(r, storage[t]) \in Content
    BY <1>3, <2>1, PublishedType
  <2> QED
    BY <1>1, <1>2, <2>2 DEF TypeOK, r
<1>6. view' \in [Thread -> View]
  <2>1. TornView \in View /\ PublishedView(r) \in View
    BY <1>4 DEF TornView, PublishedView, View
  <2> QED
    BY <1>1, <1>2, <2>1 DEF TypeOK, r
<1>7. outcome' \in [Thread -> Outcome]
  BY <1>1, <1>2, <1>4 DEF TypeOK, r
<1>8. ran' \in [Thread -> Seq(ModuleResult)]
  <2>1. Append(ran[t], r) \in Seq(ModuleResult)
    BY <1>1, <1>3 DEF TypeOK
  <2> QED
    BY <1>1, <1>2, <2>1 DEF TypeOK, r
<1>9. seen' \in [Thread -> Seq(Header)]
  <2>1. <<>> \in Seq(Header)
    OBVIOUS
  <2> QED
    BY <1>1, <2>1 DEF TypeOK, CallModule, RequestHeaders
<1>10. /\ pc' = [pc EXCEPT ![t] = "copy"]
       /\ UNCHANGED <<phase, chain, lib, turn, at, pending, reply>>
  BY DEF CallModule
<1>11. InRequest'
  BY <1>1, <1>10 DEF Typed, InRequest, TypeOK
<1> QED
  BY <1>1, <1>5, <1>6, <1>7, <1>8, <1>9, <1>10, <1>11 DEF Typed, TypeOK

\* A response keeps them.
LEMMA AnswerType ==
  ASSUME Typed, NEW t \in Thread, NEW r \in Reply, Answer(t, r)
  PROVE  Typed'
  BY DEF Answer, Typed, TypeOK, InRequest

\* Every step of the pipeline keeps the types of its state.
LEMMA StepType == Typed /\ [Next]_vars => Typed'
<1> SUFFICES ASSUME Typed, [Next]_vars PROVE Typed'
  OBVIOUS
<1> USE DEF Typed
<1>1. CASE ReadConfig
  <2>1. chain' \in Seq(ConfFile)
    <3>1. CASE chain' \in LexicalOrder
      <4>1. Cardinality(ConfFile) \in Nat
        BY ConfFilesFinite, FS_CardinalityType
      <4> QED
        BY <3>1, <4>1, SeqDef DEF LexicalOrder
    <3>2. CASE chain' = chain
      BY <3>2 DEF TypeOK
    <3> QED
      BY <1>1, <3>1, <3>2 DEF ReadConfig
  <2>2. UNCHANGED <<lib, threadVars>> /\ phase' \in {"loading", "unloading"} /\ phase = "config"
    BY <1>1 DEF ReadConfig
  <2> QED
    BY <2>1, <2>2 DEF TypeOK, InRequest
<1>2. ASSUME NEW f \in ConfFile, OpenLibrary(f) \/ CreateInstance(f) \/ UnloadModule(f)
      PROVE  Typed'
  BY <1>2 DEF OpenLibrary, CreateInstance, UnloadModule, Loading, TypeOK, InRequest
<1>3. CASE StartServing \/ Stop \/ Exit
  BY <1>3 DEF StartServing, Stop, Exit, TypeOK, InRequest
<1>4. ASSUME NEW t \in Thread, BeginRequest(t) PROVE Typed'
  <2>1. <<>> \in Seq(Header) /\ <<>> \in Seq(ModuleResult)
    OBVIOUS
  <2>2. TypeOK'
    BY <1>4, <2>1, RequestBound DEF BeginRequest, TypeOK
  <2>3. InRequest'
    BY <1>4 DEF BeginRequest, TypeOK, InRequest
  <2> QED
    BY <2>2, <2>3
<1>5. ASSUME NEW t \in Thread, CallModule(t) PROVE Typed'
  BY <1>5, CallType
<1>6. ASSUME NEW t \in Thread, TakeResult(t) PROVE Typed'
  <2>1. CASE outcome[t] = "pass" /\ pending' = [pending EXCEPT ![t] = @ \o CopyHeaders(t)]
             /\ at' = [at EXCEPT ![t] = @ + 1] /\ pc' = [pc EXCEPT ![t] = "call"]
             /\ UNCHANGED <<lifeVars, turn, seen, storage, view, outcome, reply, ran>>
    <3>1. pending[t] \o CopyHeaders(t) \in Seq(Header)
      BY CopyType, ConcatProperties
    <3>2. TypeOK'
      <4>1. /\ at' \in [Thread -> Nat] /\ pending' \in [Thread -> Seq(Header)]
            /\ pc' \in [Thread -> {"idle", "call", "copy"}]
        BY <2>1, <3>1 DEF TypeOK
      <4> QED
        BY <2>1, <4>1 DEF TypeOK, lifeVars
    <3>3. InRequest'
      BY <1>6, <2>1 DEF TakeResult, TypeOK, InRequest
    <3> QED
      BY <3>2, <3>3
  <2>2. CASE \E r \in Reply : Answer(t, r)
    BY <2>2, AnswerType
  <2> QED
    BY <1>6, <2>1, <2>2, CopyType DEF TakeResult
<1>7. ASSUME NEW t \in Thread, NotFound(t) PROVE Typed'
  BY <1>7, CopyType, AnswerType DEF NotFound
<1>8. CASE UNCHANGED vars
  BY <1>8 DEF vars, TypeOK, InRequest
<1> QED
  BY <1>1, <1>2, <1>3, <1>4, <1>5, <1>6, <1>7, <1>8 DEF Next, ThreadStep

\* The state keeps its types in every behaviour, and threads are in the
\* pipeline only while the server serves.
THEOREM TypeCorrect == Spec => []Typed
  BY InitType, StepType, PTL DEF Spec

-----------------------------------------------------------------------------
(* The life cycle of the modules.                                          *)

\* A sorted list of all files has each of them in one place, behind as many
\* as are smaller.
LEMMA LexicalOrderFacts ==
  ASSUME NEW s \in LexicalOrder
  PROVE  /\ Len(s) = Cardinality(ConfFile)
         /\ \A f \in ConfFile : \E i \in 1..Len(s) : s[i] = f
         /\ \A i \in 1..Len(s) : /\ s[i] \in ConfFile
                               /\ Cardinality({f \in ConfFile : f < s[i]}) = i - 1
<1> DEFINE N == Cardinality(ConfFile)
<1>1. N \in Nat /\ IsFiniteSet(ConfFile) /\ ConfFile \subseteq Nat
  BY ConfFilesFinite, FS_CardinalityType
<1>2. s \in [1..N -> ConfFile]
  BY DEF LexicalOrder
<1>3. Len(s) = N /\ Sorted(s)
  BY <1>1, <1>2 DEF LexicalOrder
<1> HIDE DEF N
<1>4. \A i, j \in 1..N : s[i] \in Nat /\ (i < j => s[i] < s[j])
  BY <1>1, <1>2, <1>3 DEF Sorted
<1>5. \A i, j \in 1..N : s[i] = s[j] => i = j
  BY <1>1, <1>4
<1>6. s \in Injection(1..N, ConfFile)
  BY <1>2, <1>5, Fun_IsInj
<1>7. IsFiniteSet(1..N) /\ Cardinality(1..N) = N
  BY <1>1, FS_Interval
<1>8. s \in Surjection(1..N, ConfFile)
  BY <1>1, <1>6, <1>7, FS_Injection DEF N
<1>9. \A f \in ConfFile : \E i \in 1..N : s[i] = f
  BY <1>8 DEF Surjection
<1>10. ASSUME NEW i \in 1..N
       PROVE  Cardinality({f \in ConfFile : f < s[i]}) = i - 1
  <2> DEFINE below == {f \in ConfFile : f < s[i]}
             g == [j \in 1..(i - 1) |-> s[j]]
  <2>1. g \in [1..(i - 1) -> below]
    BY <1>1, <1>2, <1>4
  <2>2. \A a, b \in 1..(i - 1) : g[a] = g[b] => a = b
    BY <1>1, <1>5
  <2>3. ASSUME NEW f \in below PROVE \E j \in 1..(i - 1) : g[j] = f
    <3>1. PICK j \in 1..N : s[j] = f
      BY <1>9
    <3>2. j < i
      BY <1>1, <1>4, <3>1
    <3> QED
      BY <1>1, <3>1, <3>2
  <2>4. g \in Bijection(1..(i - 1), below)
    BY <2>1, <2>2, <2>3, Fun_IsBij
  <2>5. ExistsBijection(1..(i - 1), below)
    BY <2>4, Fun_ExistsBij
  <2>6. i - 1 \in Nat
    BY <1>1
  <2> HIDE DEF below
  <2> QED
    BY <2>5, <2>6, FS_CountingElements DEF below
<1> QED
  BY <1>2, <1>3, <1>9, <1>10 DEF N

AllAre(states) == \A f \in ConfFile : lib[f] \in states

\* Modules are loaded one after the other.
LoadedInOrder ==
    \A i, j \in 1..Len(chain) :
        i < j /\ lib[chain[j]] # "none" => lib[chain[i]] = "live"

\* How far the libraries are in every phase.
Life ==
    /\ phase = "config" => AllAre({"none"}) /\ \A t \in Thread : ran[t] = <<>>
    /\ phase = "loading" => LoadedInOrder
    /\ phase \in {"loading", "serving"} => chain \in LexicalOrder
    /\ phase = "serving" => AllAre({"live"})
    /\ phase = "unloading" => AllAre({"none", "live", "closed"})
    /\ phase = "exited" => AllAre({"none", "closed"})
    /\ \A t \in Thread : ran[t] # <<>> => chain \in LexicalOrder

\* Before the start nothing is loaded.
LEMMA InitLife == Init => Life
  BY DEF Init, Life, AllAre

\* While a module is being loaded, the ones before it are live and the ones
\* behind it untouched.
LEMMA WhileLoading ==
  ASSUME TypeOK, Life, NEW f \in ConfFile, Loading(f), lib[f] # "live"
  PROVE  \A g \in ConfFile \ {f} : lib[g] \in {"live", "none"}
<1>1. PICK i \in 1..Len(chain) : chain[i] = f /\ \A j \in 1..(i - 1) : lib[chain[j]] = "live"
  BY DEF Loading
<1>2. chain \in LexicalOrder /\ LoadedInOrder
  BY DEF Life, Loading
<1> SUFFICES ASSUME NEW g \in ConfFile \ {f} PROVE lib[g] \in {"live", "none"}
  OBVIOUS
<1>3. PICK j \in 1..Len(chain) : chain[j] = g
  BY <1>2, LexicalOrderFacts
<1>4. CASE j < i
  BY <1>1, <1>3, <1>4 DEF TypeOK
<1>5. CASE i < j
  BY <1>1, <1>2, <1>3, <1>5 DEF LoadedInOrder
<1> QED
  BY <1>1, <1>3, <1>4, <1>5 DEF TypeOK

\* Loading the next module keeps the order.
LEMMA OrderKept ==
  ASSUME TypeOK, Life, NEW f \in ConfFile, Loading(f), UNCHANGED <<phase, chain>>,
         \/ lib[f] = "none" /\ lib' = [lib EXCEPT ![f] = "open"]
         \/ lib[f] = "open" /\ lib' = [lib EXCEPT ![f] = "live"]
  PROVE  LoadedInOrder'
<1>1. PICK m \in 1..Len(chain) : chain[m] = f /\ \A j \in 1..(m - 1) : lib[chain[j]] = "live"
  BY DEF Loading
<1>2. chain \in LexicalOrder /\ LoadedInOrder
  BY DEF Life, Loading
<1>3. \A i \in 1..Len(chain) : chain[i] \in ConfFile
  BY <1>2, LexicalOrderFacts
<1> SUFFICES ASSUME NEW i \in 1..Len(chain), NEW j \in 1..Len(chain), i < j,
                    lib'[chain[j]] # "none"
             PROVE  lib'[chain[i]] = "live"
  BY DEF LoadedInOrder
<1>4. \A g \in ConfFile : g # f => lib'[g] = lib[g]
  BY DEF TypeOK
<1>5. lib[f] # "live"
  OBVIOUS
<1>6. CASE chain[j] = f
  <2>1. ~(m < j)
    BY <1>1, <1>2, <1>3, <1>5, <1>6, ConfFilesFinite DEF LexicalOrder, Sorted
  <2>2. i \in 1..(m - 1)
    BY <1>1, <2>1 DEF TypeOK
  <2> QED
    BY <1>1, <1>3, <1>4, <1>5, <2>2
<1>7. CASE chain[j] # f
  <2>1. lib[chain[i]] = "live"
    BY <1>2, <1>3, <1>4, <1>7 DEF LoadedInOrder
  <2> QED
    BY <1>3, <1>4, <1>5, <2>1
<1> QED
  BY <1>6, <1>7

\* Every step keeps the life cycle.
LEMMA StepLife == Typed /\ Life /\ [Next]_vars => Life'
<1> SUFFICES ASSUME Typed, Life, [Next]_vars PROVE Life'
  OBVIOUS
<1>0. TypeOK /\ InRequest
  BY DEF Typed
<1> USE DEF AllAre
<1>1. CASE ReadConfig
  <2>1. /\ \A f \in ConfFile : lib'[f] = "none"
        /\ \A t \in Thread : ran'[t] = <<>>
    BY <1>1 DEF ReadConfig, Life
  <2>2. CASE phase' = "loading" /\ chain' \in LexicalOrder
    <3>1. LoadedInOrder'
      BY <2>1, <2>2, LexicalOrderFacts DEF LoadedInOrder
    <3> QED
      BY <2>1, <2>2, <3>1 DEF Life
  <2>3. CASE phase' = "unloading"
    BY <2>1, <2>3 DEF Life
  <2> QED
    BY <1>1, <2>2, <2>3 DEF ReadConfig
<1>2. ASSUME NEW f \in ConfFile, OpenLibrary(f) PROVE Life'
  <2>1. Loading(f) /\ lib[f] = "none" /\ phase = "loading" /\ UNCHANGED <<chain, ran>>
    BY <1>2 DEF OpenLibrary, Loading
  <2>2. CASE UNCHANGED phase /\ lib' = [lib EXCEPT ![f] = "open"]
    <3>1. LoadedInOrder'
      BY <1>0, <2>1, <2>2, OrderKept
    <3> QED
      BY <2>1, <2>2, <3>1 DEF Life
  <2>3. CASE phase' = "unloading" /\ UNCHANGED lib
    BY <1>0, <2>1, <2>3, WhileLoading DEF Life
  <2> QED
    BY <1>2, <2>2, <2>3 DEF OpenLibrary
<1>3. ASSUME NEW f \in ConfFile, CreateInstance(f) PROVE Life'
  <2>1. Loading(f) /\ lib[f] = "open" /\ phase = "loading" /\ UNCHANGED <<chain, ran>>
    BY <1>3 DEF CreateInstance, Loading
  <2>2. CASE UNCHANGED phase /\ lib' = [lib EXCEPT ![f] = "live"]
    <3>1. LoadedInOrder'
      BY <1>0, <2>1, <2>2, OrderKept
    <3> QED
      BY <2>1, <2>2, <3>1 DEF Life
  <2>3. CASE phase' = "unloading" /\ lib' = [lib EXCEPT ![f] = "closed"]
    BY <1>0, <2>1, <2>3, WhileLoading DEF Life, TypeOK
  <2> QED
    BY <1>3, <2>2, <2>3 DEF CreateInstance
<1>4. ASSUME NEW f \in ConfFile, UnloadModule(f) PROVE Life'
  BY <1>0, <1>4 DEF UnloadModule, Life, TypeOK
<1>5. CASE StartServing \/ Stop \/ Exit
  BY <1>0, <1>5 DEF StartServing, Stop, Exit, Life, TypeOK
<1>6. ASSUME NEW t \in Thread, BeginRequest(t) PROVE Life'
  BY <1>0, <1>6 DEF BeginRequest, Life, TypeOK
<1>7. ASSUME NEW t \in Thread, CallModule(t) PROVE Life'
  <2>1. UNCHANGED <<phase, chain, lib>> /\ phase = "serving"
    BY <1>0, <1>7 DEF CallModule, InRequest
  <2> QED
    BY <2>1 DEF Life
<1>8. ASSUME NEW t \in Thread, TakeResult(t) \/ NotFound(t) PROVE Life'
  <2>1. UNCHANGED <<phase, chain, lib, ran>>
    BY <1>8 DEF TakeResult, NotFound, Answer
  <2> QED
    BY <2>1 DEF Life, LoadedInOrder
<1>9. CASE UNCHANGED vars
  BY <1>9 DEF vars, Life, LoadedInOrder
<1> QED
  BY <1>1, <1>2, <1>3, <1>4, <1>5, <1>6, <1>7, <1>8, <1>9 DEF Next, ThreadStep

\* The life cycle holds in every behaviour.
THEOREM LifeCycle == Spec => [](Typed /\ Life)
  BY InitType, InitLife, StepType, StepLife, PTL DEF Spec

\* A worker never runs in a library that is not loaded, is already destroyed
\* or belongs to a start that failed, whatever the start and the end race.
THEOREM ModulesAreLiveWhenCalled == Spec => []CallsOnlyLive
<1>1. Typed /\ Life => CallsOnlyLive
  BY DEF Typed, InRequest, Life, AllAre, CallsOnlyLive
<1> QED
  BY <1>1, LifeCycle, PTL

\* A process that ends has destroyed every instance and closed every library
\* that it opened, however far its start came.
THEOREM NothingStaysLoaded == Spec => []NothingLeftLoaded
<1>1. Life => NothingLeftLoaded
  BY DEF Life, AllAre, NothingLeftLoaded
<1> QED
  BY <1>1, LifeCycle, PTL

-----------------------------------------------------------------------------
(* The headers of the modules that passed.                                 *)

\* f[i] are the headers of the first i results.
Accumulates(f, rs, n) ==
    f = [i \in 0..n |-> IF i = 0 THEN <<>> ELSE f[i - 1] \o ResultHeaders(rs[i])]

\* The recursion of HeadersUpTo has a solution.
LEMMA AccumulatorExists ==
  ASSUME NEW rs
  PROVE  \A n \in Nat : \E f : Accumulates(f, rs, n)
<1> DEFINE S == {n \in Nat : \E f : Accumulates(f, rs, n)}
<1>1. 0 \in S
  <2>1. Accumulates([i \in 0..0 |-> <<>>], rs, 0)
    BY DEF Accumulates
  <2> QED
    BY <2>1
<1>2. ASSUME NEW n \in Nat, n \in S PROVE n + 1 \in S
  <2>1. PICK f : Accumulates(f, rs, n)
    BY <1>2
  <2> DEFINE g == [i \in 0..(n + 1) |->
                     IF i <= n THEN f[i] ELSE f[n] \o ResultHeaders(rs[n + 1])]
  <2>2. ASSUME NEW i \in 0..(n + 1)
        PROVE  g[i] = IF i = 0 THEN <<>> ELSE g[i - 1] \o ResultHeaders(rs[i])
    <3>1. CASE i = 0
      BY <2>1, <3>1 DEF Accumulates
    <3>2. CASE i # 0 /\ i <= n
      <4>1. i - 1 \in 0..n /\ i \in 0..n
        BY <3>2
      <4>2. f[i] = f[i - 1] \o ResultHeaders(rs[i])
        BY <2>1, <3>2, <4>1 DEF Accumulates
      <4>3. g[i] = f[i] /\ g[i - 1] = f[i - 1]
        BY <4>1
      <4> QED
        BY <3>2, <4>2, <4>3
    <3>3. CASE i = n + 1
      BY <3>3
    <3> QED
      BY <3>1, <3>2, <3>3
  <2>3. g = [i \in 0..(n + 1) |->
               IF i = 0 THEN <<>> ELSE g[i - 1] \o ResultHeaders(rs[i])]
    BY <2>2
  <2>4. Accumulates(g, rs, n + 1)
    BY <2>3 DEF Accumulates
  <2> QED
    BY <2>4
<1> HIDE DEF S
<1>3. Nat \subseteq S
  BY <1>1, <1>2, NatSetInduction
<1> QED
  BY <1>3 DEF S

\* What it accumulates depends on the results it has passed and nothing else.
LEMMA AccumulatorsAgree ==
  ASSUME NEW rs, NEW qs, NEW n \in Nat, NEW m \in Nat, NEW f, NEW g,
         Accumulates(f, rs, n), Accumulates(g, qs, m),
         NEW k \in Nat, k <= n, k <= m, \A i \in 1..k : rs[i] = qs[i]
  PROVE  f[k] = g[k]
<1> DEFINE S == {i \in Nat : i <= k => f[i] = g[i]}
<1>1. /\ \A i \in 0..n : f[i] = IF i = 0 THEN <<>> ELSE f[i - 1] \o ResultHeaders(rs[i])
      /\ \A i \in 0..m : g[i] = IF i = 0 THEN <<>> ELSE g[i - 1] \o ResultHeaders(qs[i])
  BY DEF Accumulates
<1>2. 0 \in S
  BY <1>1
<1>3. ASSUME NEW i \in Nat, i \in S PROVE i + 1 \in S
  <2>1. SUFFICES ASSUME i + 1 <= k PROVE f[i + 1] = g[i + 1]
    OBVIOUS
  <2>2. /\ i + 1 \in 0..n /\ i + 1 \in 0..m /\ i + 1 # 0 /\ (i + 1) - 1 = i
        /\ rs[i + 1] = qs[i + 1]
    BY <2>1
  <2>3. f[i] = g[i]
    BY <1>3, <2>1
  <2>4. /\ f[i + 1] = f[i] \o ResultHeaders(rs[i + 1])
        /\ g[i + 1] = g[i] \o ResultHeaders(qs[i + 1])
    BY <1>1, <2>2
  <2> QED
    BY <2>2, <2>3, <2>4
<1> HIDE DEF S
<1>4. Nat \subseteq S
  BY <1>2, <1>3, NatSetInduction
<1> QED
  BY <1>4 DEF S

\* HeadersUpTo is such a solution.
LEMMA HeadersUpToIsOne ==
  ASSUME NEW rs, NEW n \in Nat
  PROVE  \E f : Accumulates(f, rs, n) /\ HeadersUpTo(rs, n) = f[n]
<1> DEFINE f == CHOOSE f : Accumulates(f, rs, n)
<1>1. Accumulates(f, rs, n)
  BY AccumulatorExists
<1>2. HeadersUpTo(rs, n) = f[n]
  BY DEF HeadersUpTo, Accumulates
<1> QED
  BY <1>1, <1>2

\* HeadersUpTo starts empty, adds one result at a time, and does not look
\* behind the results it is asked for.
LEMMA HeadersUpToFacts ==
  ASSUME NEW rs, NEW n \in Nat
  PROVE  /\ HeadersUpTo(rs, 0) = <<>>
         /\ HeadersUpTo(rs, n + 1) = HeadersUpTo(rs, n) \o ResultHeaders(rs[n + 1])
         /\ \A qs : (\A i \in 1..n : rs[i] = qs[i]) => HeadersUpTo(qs, n) = HeadersUpTo(rs, n)
<1>1. PICK f : Accumulates(f, rs, n) /\ HeadersUpTo(rs, n) = f[n]
  BY HeadersUpToIsOne
<1>2. HeadersUpTo(rs, 0) = <<>>
  <2>1. PICK g : Accumulates(g, rs, 0) /\ HeadersUpTo(rs, 0) = g[0]
    BY HeadersUpToIsOne
  <2> QED
    BY <2>1 DEF Accumulates
<1>3. HeadersUpTo(rs, n + 1) = HeadersUpTo(rs, n) \o ResultHeaders(rs[n + 1])
  <2>1. PICK g : Accumulates(g, rs, n + 1) /\ HeadersUpTo(rs, n + 1) = g[n + 1]
    BY HeadersUpToIsOne
  <2>2. f[n] = g[n]
    <3> DEFINE m == n + 1
    <3>1. n <= n /\ n <= m /\ m \in Nat /\ Accumulates(g, rs, m)
      BY <2>1
    <3> HIDE DEF m
    <3>2. Accumulates(f, rs, n) /\ n \in Nat /\ \A i \in 1..n : rs[i] = rs[i]
      BY <1>1
    <3> QED
      BY <3>1, <3>2, AccumulatorsAgree
  <2>3. n + 1 \in 0..(n + 1) /\ n + 1 # 0 /\ (n + 1) - 1 = n
    OBVIOUS
  <2>4. g[n + 1] = g[n] \o ResultHeaders(rs[n + 1])
    BY <2>1, <2>3 DEF Accumulates
  <2> QED
    BY <1>1, <2>1, <2>2, <2>4
<1>4. ASSUME NEW qs, \A i \in 1..n : rs[i] = qs[i]
      PROVE  HeadersUpTo(qs, n) = HeadersUpTo(rs, n)
  <2>1. PICK g : Accumulates(g, qs, n) /\ HeadersUpTo(qs, n) = g[n]
    BY HeadersUpToIsOne
  <2> QED
    BY <1>1, <1>4, <2>1, AccumulatorsAgree
<1> QED
  BY <1>2, <1>3, <1>4

-----------------------------------------------------------------------------
(* What the modules of a request have done so far, and the response.       *)

Last(rs) == rs[Len(rs)]

\* What thread t left where the host copies it: the storage holds what the
\* views of the last result show.
InView(t, r) ==
    /\ outcome[t] = r.next
    /\ r.torn => r.response /\ r.next = "error"
    /\ view[t] = IF r.torn THEN TornView ELSE PublishedView(r)
    /\ view[t].headers => storage[t].headers = ResultHeaders(r)
    /\ view[t].body => storage[t].body = r.tag

\* The request of thread t: the results are those of the first modules of the
\* chain, all but the last passed, and their headers are pending.
Running(t) ==
    /\ \A i \in 1..Len(ran[t]) :
          /\ i <= Len(chain) /\ ran[t][i].tag = <<t, turn[t], chain[i]>>
          /\ i < Len(ran[t]) => ran[t][i].next = "pass"
    /\ pc[t] = "call" =>
          /\ Len(ran[t]) = at[t] - 1
          /\ \A i \in 1..Len(ran[t]) : ran[t][i].next = "pass"
          /\ pending[t] = HeadersUpTo(ran[t], Len(ran[t]))
    /\ pc[t] = "copy" =>
          /\ Len(ran[t]) = at[t]
          /\ pending[t] = HeadersUpTo(ran[t], Len(ran[t]) - 1)
          /\ InView(t, Last(ran[t]))
    /\ pc[t] = "idle" /\ turn[t] > 0 => reply[t] = Expected(ran[t])

Progress == \A t \in Thread : Running(t)

PipelineInv == Typed /\ Life /\ Progress

\* No thread has begun a request.
LEMMA InitProgress == Init => Progress
<1> SUFFICES ASSUME Init, NEW t \in Thread PROVE Running(t)
  BY DEF Progress
<1>1. pc[t] = "idle" /\ ran[t] = <<>> /\ turn[t] = 0
  BY DEF Init
<1> QED
  BY <1>1 DEF Running

\* What a copy shows is what the last result said.
LEMMA CopiedHeaders ==
  ASSUME TypeOK, NEW t \in Thread, NEW r \in ModuleResult, InView(t, r)
  PROVE  CopyHeaders(t) = IF r.torn THEN <<>> ELSE ResultHeaders(r)
<1>1. r.torn \in BOOLEAN /\ r.response \in BOOLEAN /\ r.extra \in BOOLEAN
  BY DEF ModuleResult
<1>2. CASE r.torn
  BY <1>2 DEF InView, TornView, CopyHeaders
<1>3. CASE ~r.torn /\ (r.response \/ r.extra)
  <2>1. view[t] = PublishedView(r)
    BY <1>3 DEF InView
  <2>2. PublishedView(r).headers = (r.response \/ r.extra)
    BY DEF PublishedView
  <2> QED
    BY <1>3, <2>1, <2>2 DEF InView, CopyHeaders
<1>4. CASE ~r.torn /\ ~r.response /\ ~r.extra
  <2>1. ResultHeaders(r) = <<>>
    BY <1>4, ConcatEmptySeq DEF ResultHeaders, Own, Extra
  <2> QED
    BY <1>4, <2>1 DEF InView, PublishedView, CopyHeaders
<1> QED
  BY <1>1, <1>2, <1>3, <1>4

\* The adapter leaves in the storage what its views show.
LEMMA PublishedInView ==
  ASSUME NEW r \in ModuleResult, NEW c \in Content, ~r.torn
  PROVE  /\ PublishedView(r).headers => Published(r, c).headers = ResultHeaders(r)
         /\ PublishedView(r).body => Published(r, c).body = r.tag
<1>1. CASE r.response
  BY <1>1 DEF PublishedView, Published, ResultHeaders
<1>2. CASE ~r.response
  <2>1. Extra(r) \in Seq(Header)
    BY ResultHeadersType
  <2>2. ResultHeaders(r) = Extra(r)
    BY <1>2, <2>1, ConcatEmptySeq DEF ResultHeaders, Own
  <2>3. r.extra => Published(r, c).headers = Extra(r)
    BY <1>2 DEF Published, Content
  <2> QED
    BY <1>2, <2>2, <2>3 DEF PublishedView
<1> QED
  BY <1>1, <1>2

\* A module's call adds its result to the request's.
LEMMA CallProgress ==
  ASSUME PipelineInv, NEW t \in Thread, CallModule(t)
  PROVE  Running(t)'
<1>1. /\ TypeOK /\ pc[t] = "call" /\ at[t] <= Len(chain) /\ turn[t] # 0 /\ at[t] # 0
      /\ at[t] \in Nat /\ Len(chain) \in Nat /\ ran[t] \in Seq(ModuleResult)
      /\ storage[t] \in Content /\ Running(t)
  BY DEF PipelineInv, Typed, InRequest, CallModule, TypeOK, Progress
<1>2. PICK r \in ModuleResult :
         /\ r.tag = <<t, turn[t], chain[at[t]]>>
         /\ r.torn => r.response /\ r.next = "error"
         /\ ran'[t] = Append(ran[t], r) /\ outcome'[t] = r.next
         /\ view'[t] = IF r.torn THEN TornView ELSE PublishedView(r)
         /\ storage'[t] = IF r.torn THEN TornContent(r) ELSE Published(r, storage[t])
  <2>1. PICK s \in Shape, torn \in BOOLEAN :
           LET q == Returned(t, s, torn)
           IN /\ torn => s.response
              /\ storage' = [storage EXCEPT ![t] = IF torn THEN TornContent(q)
                                                           ELSE Published(q, @)]
              /\ view' = [view EXCEPT ![t] = IF torn THEN TornView ELSE PublishedView(q)]
              /\ outcome' = [outcome EXCEPT ![t] = q.next]
              /\ ran' = [ran EXCEPT ![t] = Append(@, q)]
    BY DEF CallModule, Returned
  <2> DEFINE q == Returned(t, s, torn)
  <2>2. q \in ModuleResult
    BY <1>1, ReturnedType
  <2>3. /\ q.tag = <<t, turn[t], chain[at[t]]>> /\ q.torn = torn
        /\ q.torn => q.response /\ q.next = "error"
    BY <2>1 DEF Returned
  <2> HIDE DEF q
  <2>4. /\ ran'[t] = Append(ran[t], q) /\ outcome'[t] = q.next
        /\ view'[t] = IF q.torn THEN TornView ELSE PublishedView(q)
        /\ storage'[t] = IF q.torn THEN TornContent(q) ELSE Published(q, storage[t])
    BY <1>1, <2>1, <2>3 DEF TypeOK, q
  <2> QED
    BY <2>2, <2>3, <2>4
<1>5. pc'[t] = "copy" /\ UNCHANGED <<chain, at, turn, pending>>
  BY <1>1 DEF TypeOK, CallModule
<1>6. /\ Len(ran'[t]) = Len(ran[t]) + 1 /\ ran'[t][Len(ran[t]) + 1] = r
      /\ \A i \in 1..Len(ran[t]) : ran'[t][i] = ran[t][i]
      /\ Len(ran[t]) \in Nat /\ Len(ran[t]) = at[t] - 1
  BY <1>1, <1>2 DEF Running
<1>7. ASSUME NEW i \in 1..Len(ran'[t])
      PROVE  /\ i <= Len(chain) /\ ran'[t][i].tag = <<t, turn[t], chain[i]>>
             /\ i < Len(ran'[t]) => ran'[t][i].next = "pass"
  <2>1. CASE i = Len(ran[t]) + 1
    <3>1. ran'[t][i] = r /\ i = at[t] /\ ~(i < Len(ran'[t]))
      BY <1>1, <1>6, <2>1
    <3> QED
      BY <1>1, <1>2, <3>1
  <2>2. CASE i \in 1..Len(ran[t])
    BY <1>1, <1>6, <2>2 DEF Running
  <2> QED
    BY <1>6, <2>1, <2>2
<1>8. pending'[t] = HeadersUpTo(ran'[t], Len(ran'[t]) - 1)
  <2>1. HeadersUpTo(ran'[t], Len(ran[t])) = HeadersUpTo(ran[t], Len(ran[t]))
    BY <1>6, HeadersUpToFacts
  <2>2. pending'[t] = HeadersUpTo(ran[t], Len(ran[t])) /\ Len(ran'[t]) - 1 = Len(ran[t])
    BY <1>1, <1>5, <1>6 DEF Running
  <2> QED
    BY <2>1, <2>2
<1>9. InView(t, r)'
  <2>1. CASE r.torn
    BY <1>2, <2>1 DEF InView, TornView
  <2>2. CASE ~r.torn
    <3>1. /\ view'[t] = PublishedView(r) /\ storage'[t] = Published(r, storage[t])
          /\ outcome'[t] = r.next
      BY <1>2, <2>2
    <3> QED
      BY <1>1, <2>2, <3>1, PublishedInView DEF InView
  <2> QED
    BY <2>1, <2>2
<1>10. Last(ran'[t]) = r
  BY <1>6 DEF Last
<1>11. InView(t, Last(ran[t]))'
  BY <1>9, <1>10 DEF InView
<1>12. Len(ran'[t]) = at'[t] /\ pc'[t] # "call" /\ pc'[t] # "idle"
  BY <1>1, <1>5, <1>6
<1> QED
  BY <1>5, <1>7, <1>8, <1>11, <1>12 DEF Running

\* Finalize only adds headers.
LEMMA FinalizeIs ==
  ASSUME NEW c, NEW b, NEW h, NEW g
  PROVE  Finalize([code |-> c, body |-> b, headers |-> h], g)
            = [code |-> c, body |-> b, headers |-> h \o g]
<1> DEFINE r == [code |-> c, body |-> b, headers |-> h]
<1>1. r.headers = h
  OBVIOUS
<1>2. ASSUME NEW x PROVE [r EXCEPT !.headers = x] = [code |-> c, body |-> b, headers |-> x]
  OBVIOUS
<1> HIDE DEF r
<1>3. Finalize(r, g) = [r EXCEPT !.headers = r.headers \o g]
  BY DEF Finalize
<1> QED
  BY <1>1, <1>2, <1>3 DEF r

\* The response that ends a request is the one its results call for.
LEMMA AnswerIsExpected ==
  ASSUME PipelineInv, NEW t \in Thread, pc[t] = "copy", outcome[t] # "pass"
  PROVE  LET Responds == \/ outcome[t] = "respond"
                         \/ outcome[t] = "error" /\ view[t].status # 0
         IN /\ Responds => Finalize(ToHttpResponse(t), pending[t]) = Expected(ran[t])
            /\ outcome[t] = "upgrade" =>
                  Finalize(Text("501"), pending[t] \o CopyHeaders(t)) = Expected(ran[t])
            /\ outcome[t] = "error" /\ ~Responds =>
                  Finalize(Text("500"), pending[t] \o CopyHeaders(t)) = Expected(ran[t])
<1> DEFINE rs == ran[t]
           r == Last(rs)
           before == HeadersUpTo(rs, Len(rs) - 1)
<1>1. /\ TypeOK /\ Running(t) /\ at[t] # 0 /\ at[t] \in Nat /\ rs \in Seq(ModuleResult)
      /\ pending[t] \in Seq(Header) /\ storage[t] \in Content
  BY DEF PipelineInv, Typed, InRequest, TypeOK, Progress
<1>2. /\ Len(rs) \in Nat \ {0} /\ rs # <<>> /\ pending[t] = before /\ InView(t, r)
      /\ before \in Seq(Header)
  BY <1>1 DEF Running
<1>3. r \in ModuleResult /\ r = rs[Len(rs)]
  BY <1>1, <1>2 DEF Last
<1>4. /\ r.torn \in BOOLEAN /\ r.response \in BOOLEAN /\ r.extra \in BOOLEAN
      /\ outcome[t] = r.next
  BY <1>2, <1>3 DEF ModuleResult, InView
<1>5. CopyHeaders(t) = IF r.torn THEN <<>> ELSE ResultHeaders(r)
  BY <1>1, <1>2, <1>3, CopiedHeaders
<1>6. ResultHeaders(r) \in Seq(Header)
  BY <1>3, ResultHeadersType
<1>7. Expected(rs) =
         IF r.torn THEN [code |-> "own", body |-> None, headers |-> before]
         ELSE IF r.response /\ r.next \in {"respond", "error"}
           THEN [code |-> "own", body |-> r.tag, headers |-> ResultHeaders(r) \o before]
         ELSE [code |-> CASE r.next = "respond" -> "200"
                          [] r.next = "upgrade" -> "501"
                          [] r.next = "error" -> "500",
               body |-> None,
               headers |-> IF r.next = "respond" THEN ResultHeaders(r) \o before
                                                    ELSE before \o ResultHeaders(r)]
  BY <1>2, <1>3, <1>4 DEF Expected
<1> HIDE DEF r, before, rs
<1>8. CASE r.torn
  <2>1. r.next = "error" /\ view[t].status = 1 /\ ~view[t].body /\ r.response
    BY <1>2, <1>8 DEF InView, TornView
  <2>2. CopyHeaders(t) = <<>> /\ <<>> \o before = before
    BY <1>2, <1>5, <1>8, ConcatEmptySeq
  <2>3. ToHttpResponse(t) = [code |-> "own", body |-> None, headers |-> <<>>]
    BY <2>1, <2>2 DEF ToHttpResponse
  <2>4. Finalize([code |-> "own", body |-> None, headers |-> <<>>], before)
           = [code |-> "own", body |-> None, headers |-> <<>> \o before]
    BY FinalizeIs
  <2>5. Finalize(ToHttpResponse(t), pending[t]) = Expected(rs)
    BY <1>2, <1>7, <1>8, <2>2, <2>3, <2>4
  <2> QED
    BY <1>4, <2>1, <2>5 DEF rs
<1>9. CASE ~r.torn
  <2>1. view[t] = PublishedView(r)
    BY <1>2, <1>9 DEF InView
  <2>2. /\ view[t].status = IF r.response THEN 1 ELSE 0
        /\ view[t].body = r.response
    BY <2>1 DEF PublishedView
  <2>3. CopyHeaders(t) = ResultHeaders(r)
    BY <1>5, <1>9
  <2>4. ASSUME \/ outcome[t] = "respond"
               \/ outcome[t] = "error" /\ view[t].status # 0
        PROVE  Finalize(ToHttpResponse(t), pending[t]) = Expected(rs)
    <3>1. CASE r.response
      <4>1. storage[t].body = r.tag
        BY <1>2, <2>2, <3>1 DEF InView
      <4>2. ToHttpResponse(t) = [code |-> "own", body |-> r.tag,
                                 headers |-> ResultHeaders(r)]
        BY <2>2, <2>3, <3>1, <4>1 DEF ToHttpResponse
      <4>3. Finalize([code |-> "own", body |-> r.tag, headers |-> ResultHeaders(r)], before)
               = [code |-> "own", body |-> r.tag, headers |-> ResultHeaders(r) \o before]
        BY FinalizeIs
      <4> QED
        BY <1>2, <1>4, <1>7, <1>9, <2>4, <3>1, <4>2, <4>3
    <3>2. CASE ~r.response
      <4>1. r.next = "respond"
        BY <1>4, <2>2, <2>4, <3>2
      <4>2. ToHttpResponse(t) = [code |-> "200", body |-> None,
                                 headers |-> ResultHeaders(r)]
        BY <2>2, <2>3, <3>2 DEF ToHttpResponse
      <4>3. Finalize([code |-> "200", body |-> None, headers |-> ResultHeaders(r)], before)
               = [code |-> "200", body |-> None, headers |-> ResultHeaders(r) \o before]
        BY FinalizeIs
      <4> QED
        BY <1>2, <1>7, <1>9, <3>2, <4>1, <4>2, <4>3
    <3> QED
      BY <1>4, <3>1, <3>2
  <2>5. /\ before \o ResultHeaders(r) \in Seq(Header)
        /\ <<>> \o (before \o ResultHeaders(r)) = before \o ResultHeaders(r)
    BY <1>2, <1>6, ConcatProperties, ConcatEmptySeq
  <2>6. \A code \in {"500", "501"} :
           Finalize(Text(code), pending[t] \o CopyHeaders(t))
              = [code |-> code, body |-> None, headers |-> before \o ResultHeaders(r)]
    <3>1. ASSUME NEW code
          PROVE  Finalize([code |-> code, body |-> None, headers |-> <<>>],
                          before \o ResultHeaders(r))
                    = [code |-> code, body |-> None,
                       headers |-> <<>> \o (before \o ResultHeaders(r))]
      BY FinalizeIs
    <3> QED
      BY <1>2, <2>3, <2>5, <3>1 DEF Text
  <2>7. ASSUME outcome[t] = "upgrade"
        PROVE  Finalize(Text("501"), pending[t] \o CopyHeaders(t)) = Expected(rs)
    BY <1>4, <1>7, <1>9, <2>6, <2>7
  <2>8. ASSUME outcome[t] = "error", view[t].status = 0
        PROVE  Finalize(Text("500"), pending[t] \o CopyHeaders(t)) = Expected(rs)
    BY <1>4, <1>7, <1>9, <2>2, <2>6, <2>8
  <2> QED
    BY <2>4, <2>7, <2>8 DEF rs
<1> QED
  BY <1>4, <1>8, <1>9

\* A thread that does nothing keeps what it has.
LEMMA OthersProgress ==
  ASSUME Progress, NEW u \in Thread, chain' = chain \/ ran[u] = <<>>,
         pc'[u] = pc[u], turn'[u] = turn[u], at'[u] = at[u], storage'[u] = storage[u],
         view'[u] = view[u], outcome'[u] = outcome[u], pending'[u] = pending[u],
         reply'[u] = reply[u], ran'[u] = ran[u]
  PROVE  Running(u)'
<1>1. Running(u)
  BY DEF Progress
<1>2. InView(u, Last(ran[u])) => InView(u, Last(ran[u]))'
  BY DEF InView
<1>3. ASSUME NEW i \in 1..Len(ran'[u])
      PROVE  /\ i <= Len(chain') /\ ran'[u][i].tag = <<u, turn'[u], chain'[i]>>
             /\ i < Len(ran'[u]) => ran'[u][i].next = "pass"
  BY <1>1 DEF Running
<1> QED
  BY <1>1, <1>2, <1>3 DEF Running

\* A module that passes adds its headers to the pending ones.
LEMMA PassProgress ==
  ASSUME PipelineInv, NEW t \in Thread, pc[t] = "copy", outcome[t] = "pass",
         pending' = [pending EXCEPT ![t] = @ \o CopyHeaders(t)],
         at' = [at EXCEPT ![t] = @ + 1], pc' = [pc EXCEPT ![t] = "call"],
         UNCHANGED <<chain, turn, ran>>
  PROVE  Running(t)'
<1> DEFINE rs == ran[t]
           r == Last(rs)
           n == Len(rs) - 1
<1>1. /\ TypeOK /\ Running(t) /\ at[t] # 0 /\ at[t] \in Nat /\ rs \in Seq(ModuleResult)
      /\ pending[t] \in Seq(Header)
  BY DEF PipelineInv, Typed, InRequest, TypeOK, Progress
<1>2. /\ Len(rs) = at[t] /\ pending[t] = HeadersUpTo(rs, n) /\ InView(t, r)
      /\ n \in Nat /\ Len(rs) = n + 1
  BY <1>1 DEF Running
<1>3. r \in ModuleResult /\ r = rs[n + 1] /\ r.next = "pass" /\ ~r.torn
  BY <1>1, <1>2 DEF Last, InView
<1>4. CopyHeaders(t) = ResultHeaders(rs[n + 1])
  BY <1>1, <1>2, <1>3, CopiedHeaders
<1>5. pending'[t] = HeadersUpTo(rs, n + 1)
  <2>1. pending'[t] = HeadersUpTo(rs, n) \o ResultHeaders(rs[n + 1])
    BY <1>1, <1>2, <1>4 DEF TypeOK
  <2> HIDE DEF n, rs
  <2> QED
    BY <1>2, <2>1, HeadersUpToFacts
<1>6. ASSUME NEW i \in 1..Len(rs) PROVE rs[i].next = "pass"
  <2>1. i < Len(rs) => rs[i].next = "pass"
    BY <1>1 DEF Running
  <2>2. i < Len(rs) \/ i = n + 1
    BY <1>2
  <2> QED
    BY <1>3, <2>1, <2>2
<1>7. pc'[t] = "call" /\ at'[t] = Len(rs) + 1
  BY <1>1, <1>2 DEF TypeOK
<1>8. pending'[t] = HeadersUpTo(ran'[t], Len(ran'[t]))
  BY <1>2, <1>5
<1>9. ran'[t] = rs /\ turn'[t] = turn[t] /\ Len(ran'[t]) = at'[t] - 1
  BY <1>2, <1>7
<1> QED
  BY <1>1, <1>6, <1>7, <1>8, <1>9 DEF Running

\* A response ends the request with what it calls for.
LEMMA AnswerProgress ==
  ASSUME PipelineInv, NEW t \in Thread, NEW r, Answer(t, r), r = Expected(ran[t])
  PROVE  Running(t)'
<1>1. TypeOK /\ Running(t)
  BY DEF PipelineInv, Typed, Progress
<1>2. /\ reply'[t] = Expected(ran[t]) /\ pc'[t] = "idle"
      /\ ran'[t] = ran[t] /\ turn'[t] = turn[t] /\ chain' = chain
  BY <1>1 DEF TypeOK, Answer
<1> QED
  BY <1>1, <1>2 DEF Running

\* When every module passed, the response is a 404 with all their headers.
LEMMA NotFoundIsExpected ==
  ASSUME PipelineInv, NEW t \in Thread, pc[t] = "call"
  PROVE  Finalize(Text("404"), pending[t]) = Expected(ran[t])
<1> DEFINE rs == ran[t]
<1>1. /\ Running(t) /\ pending[t] \in Seq(Header) /\ rs \in Seq(ModuleResult)
  BY DEF PipelineInv, Typed, TypeOK, Progress
<1>2. pending[t] = HeadersUpTo(rs, Len(rs)) /\ \A i \in 1..Len(rs) : rs[i].next = "pass"
  BY <1>1 DEF Running
<1>3. rs = <<>> \/ rs[Len(rs)].next = "pass"
  BY <1>1, <1>2
<1>4. <<>> \o pending[t] = pending[t]
  BY <1>1, ConcatEmptySeq
<1>5. Finalize([code |-> "404", body |-> None, headers |-> <<>>], pending[t])
         = [code |-> "404", body |-> None, headers |-> <<>> \o pending[t]]
  BY FinalizeIs
<1> QED
  BY <1>2, <1>3, <1>4, <1>5 DEF Expected, Text

\* Every step keeps the progress of all requests.
LEMMA StepProgress == PipelineInv /\ [Next]_vars => Progress'
<1> SUFFICES ASSUME PipelineInv, [Next]_vars PROVE Progress'
  OBVIOUS
<1>0. TypeOK /\ Life /\ Progress
  BY DEF PipelineInv, Typed
<1>1. ASSUME UNCHANGED threadVars, chain' = chain \/ \A t \in Thread : ran[t] = <<>>
      PROVE  Progress'
  <2> SUFFICES ASSUME NEW u \in Thread PROVE Running(u)'
    BY DEF Progress
  <2>1. chain' = chain \/ ran[u] = <<>>
    BY <1>1
  <2> QED
    BY <1>0, <1>1, <2>1, OthersProgress
<1>2. CASE ReadConfig
  BY <1>0, <1>1, <1>2 DEF ReadConfig, Life
<1>3. CASE StartServing \/ Stop \/ Exit
  BY <1>1, <1>3 DEF StartServing, Stop, Exit
<1>4. ASSUME NEW f \in ConfFile, OpenLibrary(f) \/ CreateInstance(f) \/ UnloadModule(f)
      PROVE  Progress'
  BY <1>1, <1>4 DEF OpenLibrary, CreateInstance, UnloadModule
<1>5. CASE UNCHANGED vars
  BY <1>1, <1>5 DEF vars
<1>6. ASSUME NEW t \in Thread, BeginRequest(t) \/ ThreadStep(t) PROVE Progress'
  <2>1. Running(t)'
    <3>1. CASE BeginRequest(t)
      <4>1. /\ ran'[t] = <<>> /\ pc'[t] = "call" /\ at'[t] = 1 /\ pending'[t] = <<>>
        BY <1>0, <3>1 DEF BeginRequest, TypeOK
      <4>2. HeadersUpTo(ran'[t], 0) = <<>>
        BY HeadersUpToFacts
      <4> QED
        BY <4>1, <4>2 DEF Running
    <3>2. CASE CallModule(t)
      BY <3>2, CallProgress
    <3>3. CASE NotFound(t)
      BY <3>3, NotFoundIsExpected, AnswerProgress DEF NotFound
    <3>4. CASE TakeResult(t)
      <4>1. pc[t] = "copy"
        BY <3>4 DEF TakeResult
      <4>2. CASE outcome[t] = "pass"
        <5>1. /\ pending' = [pending EXCEPT ![t] = @ \o CopyHeaders(t)]
              /\ at' = [at EXCEPT ![t] = @ + 1] /\ pc' = [pc EXCEPT ![t] = "call"]
              /\ UNCHANGED <<chain, turn, ran>>
          BY <3>4, <4>2 DEF TakeResult
        <5> QED
          BY <4>1, <4>2, <5>1, PassProgress
      <4>3. CASE outcome[t] # "pass"
        <5>1. Answer(t, Expected(ran[t]))
          BY <3>4, <4>1, <4>3, AnswerIsExpected DEF TakeResult
        <5> QED
          BY <5>1, AnswerProgress
      <4> QED
        BY <4>2, <4>3
    <3> QED
      BY <1>6, <3>1, <3>2, <3>3, <3>4 DEF ThreadStep
  <2>2. ASSUME NEW u \in Thread, u # t PROVE Running(u)'
    <3>1. /\ pc'[u] = pc[u] /\ turn'[u] = turn[u] /\ at'[u] = at[u]
          /\ pending'[u] = pending[u] /\ reply'[u] = reply[u] /\ chain' = chain
      BY <1>0, <1>6, <2>2
         DEF TypeOK, BeginRequest, ThreadStep, CallModule, NotFound, TakeResult, Answer
    <3>2. /\ storage'[u] = storage[u] /\ view'[u] = view[u]
          /\ outcome'[u] = outcome[u] /\ ran'[u] = ran[u]
      <4>1. CASE CallModule(t)
        BY <1>0, <2>2, <4>1 DEF TypeOK, CallModule
      <4>2. CASE BeginRequest(t) \/ NotFound(t) \/ TakeResult(t)
        BY <1>0, <2>2, <4>2 DEF TypeOK, BeginRequest, NotFound, TakeResult, Answer
      <4> QED
        BY <1>6, <4>1, <4>2 DEF ThreadStep
    <3> QED
      BY <1>0, <3>1, <3>2, OthersProgress
  <2> QED
    BY <2>1, <2>2 DEF Progress
<1> QED
  BY <1>2, <1>3, <1>4, <1>5, <1>6 DEF Next

\* The invariant of the pipeline holds in every behaviour.
THEOREM PipelineCorrect == Spec => []PipelineInv
<1>1. Init => PipelineInv
  BY InitType, InitLife, InitProgress DEF PipelineInv
<1>2. PipelineInv /\ [Next]_vars => PipelineInv'
  BY StepType, StepLife, StepProgress DEF PipelineInv
<1> QED
  BY <1>1, <1>2, PTL DEF Spec

\* However many threads share the module instances, and although a result is
\* only a view into storage that the next call on the thread overwrites, every
\* request is answered by what its own modules returned for it.
THEOREM RepliesAreTheRequestsOwn == Spec => []RepliesAreOwn
<1>1. PipelineInv => RepliesAreOwn
  BY DEF PipelineInv, Progress, Running, RepliesAreOwn
<1> QED
  BY <1>1, PipelineCorrect, PTL

\* The modules of a request run in the order of their file names, and the
\* first one that does not pass is the last one that runs.
THEOREM FirstToDecideDecides == Spec => []FirstDecides
<1>1. PipelineInv => FirstDecides
  <2> SUFFICES ASSUME PipelineInv, NEW t \in Thread, NEW i \in 1..Len(ran[t])
               PROVE  /\ Cardinality({f \in ConfFile : f < ran[t][i].tag[3]}) = i - 1
                      /\ i < Len(ran[t]) => ran[t][i].next = "pass"
    BY DEF FirstDecides
  <2>1. TypeOK /\ Life /\ Running(t) /\ ran[t] \in Seq(ModuleResult)
    BY DEF PipelineInv, Typed, TypeOK, Progress
  <2>2. chain \in LexicalOrder
    BY <2>1 DEF Life
  <2>3. /\ i <= Len(chain) /\ ran[t][i].tag = <<t, turn[t], chain[i]>>
        /\ i < Len(ran[t]) => ran[t][i].next = "pass"
    BY <2>1 DEF Running
  <2>4. ran[t][i].tag[3] = chain[i]
    BY <2>3
  <2>5. i \in 1..Len(chain)
    BY <2>1, <2>3 DEF TypeOK
  <2> QED
    BY <2>2, <2>3, <2>4, <2>5, LexicalOrderFacts
<1> QED
  BY <1>1, PipelineCorrect, PTL
=============================================================================
