-------------------------- MODULE StaticFilesProofs --------------------------
(***************************************************************************)
(* Proofs about StaticFiles, for every file system and every change others *)
(* make to it during a request: what a response announces is what it has,  *)
(* and in a file system that nobody changes the answer is the file's.      *)
(***************************************************************************)
EXTENDS StaticFiles, Integers, SequenceTheorems, FiniteSetTheorems, WellFoundedInduction, TLAPS

-----------------------------------------------------------------------------
(* Induction.  The rules of the library have an operator as their          *)
(* parameter, which the provers cannot instantiate; with a set they can.   *)

\* A set with 0 and with every successor of its numbers has all of them.
LEMMA NatSetInduction ==
  ASSUME NEW S, 0 \in S, \A n \in Nat : n \in S => n + 1 \in S
  PROVE  Nat \subseteq S
<1> DEFINE R == OpToRel(<, Nat)
           T == Nat \ S
<1>1. IsWellFoundedOn(R, Nat)
  BY NatLessThanWellFounded
<1>2. SUFFICES ASSUME T # {} PROVE FALSE
  OBVIOUS
<1>3. T \subseteq Nat
  OBVIOUS
<1> HIDE DEF R, T
<1>4. PICK x \in T : \A y \in T : ~(<<y, x>> \in R)
  BY <1>1, <1>2, <1>3, WFMin
<1> USE DEF T
<1>5. x # 0 /\ x - 1 \in Nat /\ x - 1 < x
  BY <1>4
<1>6. <<x - 1, x>> \in R
  BY <1>5 DEF R, OpToRel
<1>7. x - 1 \in S
  BY <1>4, <1>5, <1>6
<1>8. (x - 1) + 1 \in S
  BY <1>5, <1>7
<1> QED
  BY <1>4, <1>8

-----------------------------------------------------------------------------
(* Framing.                                                                *)

\* Every place of a file system holds a node.
LEMMA AtIsNode ==
  ASSUME NEW t \in [Paths -> Node], NEW path
  PROVE  At(t, path) \in Node /\ Nothing \in Node
<1>1. Nothing \in Node
  BY DEF Nothing, Node
<1> QED
  BY <1>1 DEF At

\* What a path leads to is a node, wherever resolving it ends.
LEMMA StatIsNode ==
  ASSUME NEW t \in [Paths -> Node], NEW path
  PROVE  Stat(t, path) \in Node
BY AtIsNode DEF Stat

\* A node that is a file has a size.
LEMMA FileHasSize ==
  ASSUME NEW n \in Node, n.type = "file" PROVE n.size \in Nat
BY DEF Node

\* The inductive invariant of the framing: a GET that is past file_size() has
\* a size in bounds, and what was answered is framed.
Framed ==
    /\ tree \in [Paths -> Node]
    /\ pc \in {"start", "entry", "size", "open", "read", "done"}
    /\ method \in {"GET", "HEAD", "other"}
    /\ size \in Nat
    /\ pc \in {"open", "read"} => size <= MaxFile /\ method = "GET"
    /\ reply.status = "none" <=> pc # "done"
    /\ FramingHolds

\* It holds at first.
LEMMA InitFramed == Init => Framed
BY TreesOfNodes DEF Init, Framed, FramingHolds, Text

\* Every answer without a file is framed.
LEMMA FinishFramed ==
  ASSUME Framed, NEW s \in {"404", "405", "413", "throw"}, Finish(Text(s)),
         UNCHANGED <<tree, method>>
  PROVE  Framed'
BY DEF Framed, FramingHolds, Finish, Text

\* It is kept by every step of the request and of others.
LEMMA NextFramed == Framed /\ [Next]_vars => Framed'
<1> SUFFICES ASSUME Framed, [Next]_vars PROVE Framed'
  OBVIOUS
<1>1. CASE Resolve
  <2>1. UNCHANGED <<tree, method>>
    BY <1>1 DEF Resolve
  <2>2. CASE Finish(Text("405")) \/ Finish(Text("404"))
    BY <2>1, <2>2, FinishFramed
  <2>3. CASE pc = "start" /\ pc' = "entry" /\ UNCHANGED <<size, opened, reply>>
    BY <2>1, <2>3 DEF Framed, FramingHolds
  <2> QED
    BY <1>1, <2>2, <2>3 DEF Resolve
<1>2. CASE CheckEntry
  <2>1. UNCHANGED <<tree, method>>
    BY <1>2 DEF CheckEntry
  <2>2. CASE Finish(Text("404")) \/ Finish(Text("throw"))
    BY <2>1, <2>2, FinishFramed
  <2>3. CASE pc = "entry" /\ pc' = "size" /\ UNCHANGED <<resolved, size, opened, reply>>
    BY <2>1, <2>3 DEF Framed, FramingHolds
  <2> QED
    BY <1>2, <2>2, <2>3 DEF CheckEntry
<1>3. CASE TakeSize
  <2> DEFINE node == Stat(tree, resolved)
  <2>1. UNCHANGED <<tree, method>> /\ node \in Node /\ pc = "size"
    BY <1>3, StatIsNode DEF TakeSize, Framed
  <2>2. CASE Finish(Text("throw")) \/ Finish(Text("413"))
    BY <2>1, <2>2, FinishFramed
  <2>3. ASSUME node.type = "file", ~TooLarge(node.size), size' = node.size,
               \/ /\ method = "HEAD"
                  /\ reply' = [status |-> "200", length |-> node.size, body |-> <<>>]
                  /\ pc' = "done"
               \/ method = "GET" /\ pc' = "open" /\ UNCHANGED reply
        PROVE  Framed'
    <3>1. node.size \in Nat /\ node.size <= MaxFile
      BY <2>1, <2>3, FileHasSize, LimitsAreNat DEF TooLarge
    <3> HIDE DEF node
    <3>2. CASE method = "HEAD"
      BY <2>1, <2>3, <3>1, <3>2 DEF Framed, FramingHolds
    <3>3. CASE method = "GET"
      BY <2>1, <2>3, <3>1, <3>3 DEF Framed, FramingHolds
    <3> QED
      BY <2>3, <3>2, <3>3
  <2> QED
    BY <1>3, <2>2, <2>3 DEF TakeSize
<1>4. CASE Open
  <2>1. UNCHANGED <<tree, method>> /\ pc = "open"
    BY <1>4 DEF Open
  <2>2. CASE Finish(Text("404"))
    BY <2>1, <2>2, FinishFramed
  <2>3. CASE pc' = "read" /\ UNCHANGED <<resolved, size, reply>>
    BY <2>1, <2>3 DEF Framed, FramingHolds
  <2> QED
    BY <1>4, <2>2, <2>3 DEF Open
<1>5. CASE Read
  <2>1. UNCHANGED <<tree, method>> /\ pc = "read"
    BY <1>5 DEF Read
  <2>2. CASE Finish(Text("404"))
    BY <2>1, <2>2, FinishFramed
  <2>3. CASE Finish([status |-> "200", length |-> size, body |-> <<resolved, size>>])
    BY <2>1, <2>3 DEF Finish, Framed, FramingHolds
  <2> QED
    BY <1>5, <2>2, <2>3 DEF Read
<1>6. ASSUME NEW path \in Paths, NEW node \in NewNodes, Change(path, node) PROVE Framed'
  <2>1. node \in Node
    BY TreesOfNodes
  <2>2. tree' \in [Paths -> Node] /\ UNCHANGED <<method, target, pc, resolved, size, reply>>
    BY <1>6, <2>1 DEF Change, Framed
  <2> QED
    BY <2>2 DEF Framed, FramingHolds
<1>7. CASE UNCHANGED vars
  BY <1>7 DEF vars, Framed, FramingHolds
<1> QED
  BY <1>1, <1>2, <1>3, <1>4, <1>5, <1>6, <1>7 DEF Next, HandleStep

\* FramingHolds, for every file system and any number of changes: a file that
\* shrinks or grows under the read never breaks the client's framing.
THEOREM FramingIsKept == Spec => []FramingHolds
<1>1. Framed => FramingHolds
  BY DEF Framed
<1> QED
  BY <1>1, InitFramed, NextFramed, PTL DEF Spec

-----------------------------------------------------------------------------
(* Path resolution.                                                        *)

\* One step of the resolution: the next component is looked up.
Fail == [at |-> <<>>, todo |-> <<>>]
Follow(t, w) ==
    LET next == Append(w.at, Head(w.todo))
        node == At(t, next)
    IN CASE node.type = "none" -> Fail
         [] node.type = "link" -> [at |-> <<>>, todo |-> node.to \o Tail(w.todo)]
         [] node.type = "file" /\ Len(w.todo) > 1 -> Fail
         [] OTHER -> [at |-> next, todo |-> Tail(w.todo)]

Advanced(t, w) == IF w.todo = <<>> THEN w ELSE Follow(t, w)

\* f is the resolution of a path, step by step.
Walks(f, t, path, n) ==
    f = [i \in 0..n |-> IF i = 0 THEN [at |-> <<>>, todo |-> path] ELSE Advanced(t, f[i - 1])]

Steps == (MaxLinks + 1) * 4

\* Every path has its walk.
LEMMA WalkExists ==
  ASSUME NEW t, NEW path
  PROVE  \A n \in Nat : \E f : Walks(f, t, path, n)
<1> DEFINE S == {n \in Nat : \E f : Walks(f, t, path, n)}
           start == [at |-> <<>>, todo |-> path]
<1>1. 0 \in S
  <2>1. Walks([i \in 0..0 |-> start], t, path, 0)
    BY DEF Walks
  <2> QED
    BY <2>1
<1>2. ASSUME NEW n \in Nat, n \in S PROVE n + 1 \in S
  <2>1. PICK f : Walks(f, t, path, n)
    BY <1>2
  <2> DEFINE g == [i \in 0..(n + 1) |-> IF i <= n THEN f[i] ELSE Advanced(t, f[n])]
  <2> HIDE DEF start
  <2>2. ASSUME NEW i \in 0..(n + 1)
        PROVE  g[i] = IF i = 0 THEN start ELSE Advanced(t, g[i - 1])
    <3>1. CASE i = 0
      BY <2>1, <3>1 DEF Walks, start
    <3>2. CASE i # 0 /\ i <= n
      <4>1. i - 1 \in 0..n /\ i \in 0..n
        BY <3>2
      <4>2. f[i] = Advanced(t, f[i - 1])
        BY <2>1, <3>2, <4>1 DEF Walks
      <4>3. g[i] = f[i] /\ g[i - 1] = f[i - 1]
        BY <4>1
      <4> QED
        BY <3>2, <4>2, <4>3
    <3>3. CASE i = n + 1
      BY <3>3
    <3> QED
      BY <3>1, <3>2, <3>3
  <2>3. g = [i \in 0..(n + 1) |-> IF i = 0 THEN start ELSE Advanced(t, g[i - 1])]
    BY <2>2
  <2>4. Walks(g, t, path, n + 1)
    BY <2>3 DEF Walks, start
  <2> QED
    BY <2>4
<1> HIDE DEF S
<1>3. Nat \subseteq S
  BY <1>1, <1>2, NatSetInduction
<1> QED
  BY <1>3 DEF S

\* canonical() is where the walk ends.
LEMMA CanonicalIs ==
  ASSUME NEW t, NEW path
  PROVE  \E f : /\ Walks(f, t, path, Steps)
                /\ Canonical(t, path) =
                      IF f[Steps].todo = <<>> THEN f[Steps].at ELSE <<>>
<1> DEFINE f == CHOOSE f : Walks(f, t, path, Steps)
<1>1. Steps \in Nat
  BY LimitsAreNat DEF Steps
<1>2. Walks(f, t, path, Steps)
  BY <1>1, WalkExists
<1>3. Walked(t, path) = f[Steps]
  BY DEF Walked, Walks, Advanced, Follow, Fail, Steps
<1> HIDE DEF f
<1> QED
  BY <1>2, <1>3 DEF Canonical, Loops

Walker == [at : Seq(STRING), todo : Seq(STRING)]

\* A path without links: its proper prefixes are directories.
Straight(t, p) ==
    \A k \in 1..Len(p) :
        /\ At(t, SubSeq(p, 1, k)).type \in {"dir", "file"}
        /\ k < Len(p) => At(t, SubSeq(p, 1, k)).type = "dir"

\* Where a walk has come to: a straight path, which is no file if there is
\* more to do.
OnTheWay(t, w) ==
    /\ w \in Walker
    /\ Straight(t, w.at)
    /\ w.todo # <<>> /\ w.at # <<>> => At(t, w.at).type = "dir"

\* The prefixes of a sequence with one more element.
LEMMA PrefixesOfAppend ==
  ASSUME NEW S, NEW p \in Seq(S), NEW e \in S
  PROVE  /\ \A k \in 1..Len(p) : SubSeq(Append(p, e), 1, k) = SubSeq(p, 1, k)
         /\ SubSeq(Append(p, e), 1, Len(p) + 1) = Append(p, e)
         /\ SubSeq(p, 1, Len(p)) = p
OBVIOUS

\* One step keeps a walk on its way, and adds at most one component.
LEMMA AdvancedFacts ==
  ASSUME NEW t \in [Paths -> Node], NEW w, OnTheWay(t, w)
  PROVE  OnTheWay(t, Advanced(t, w)) /\ Len(Advanced(t, w).at) <= Len(w.at) + 1
<1>0. w.at \in Seq(STRING) /\ w.todo \in Seq(STRING) /\ Len(w.at) \in Nat
  BY DEF OnTheWay, Walker
<1>1. CASE w.todo = <<>>
  BY <1>0, <1>1 DEF Advanced
<1>2. CASE w.todo # <<>>
  <2> DEFINE e == Head(w.todo)
             next == Append(w.at, e)
             node == At(t, next)
  <2>1. e \in STRING /\ Tail(w.todo) \in Seq(STRING) /\ next \in Seq(STRING)
        /\ Len(next) = Len(w.at) + 1
    <3>1. e \in STRING
      <4>1. \A q \in Seq(STRING) : q # <<>> => Head(q) \in STRING
        OBVIOUS
      <4> QED
        BY <1>0, <1>2, <4>1
    <3>2. Tail(w.todo) \in Seq(STRING)
      BY <1>0, <1>2, HeadTailProperties
    <3> HIDE DEF e
    <3> QED
      BY <1>0, <3>1, <3>2
  <2>2. Advanced(t, w) =
          CASE node.type = "none" -> Fail
            [] node.type = "link" -> [at |-> <<>>, todo |-> node.to \o Tail(w.todo)]
            [] node.type = "file" /\ Len(w.todo) > 1 -> Fail
            [] OTHER -> [at |-> next, todo |-> Tail(w.todo)]
    BY <1>2 DEF Advanced, Follow
  <2>3. node \in Node
    BY AtIsNode
  <2>4. <<>> \in Seq(STRING) /\ Len(<<>>) = 0
    OBVIOUS
  <2>5. OnTheWay(t, Fail) /\ Len(Fail.at) <= Len(w.at) + 1
    BY <1>0, <2>4 DEF OnTheWay, Fail, Walker, Straight
  <2> HIDE DEF node, next, e
  <2>6. CASE node.type = "none"
    BY <2>2, <2>5, <2>6
  <2>7. CASE node.type = "link"
    <3>1. node.to \in Seq(STRING)
      BY <2>3, <2>7 DEF Node
    <3>2. Advanced(t, w) = [at |-> <<>>, todo |-> node.to \o Tail(w.todo)]
      BY <2>2, <2>7
    <3>3. node.to \o Tail(w.todo) \in Seq(STRING)
      BY <2>1, <3>1
    <3> QED
      BY <1>0, <2>4, <3>2, <3>3 DEF OnTheWay, Walker, Straight
  <2>8. CASE node.type = "file" /\ Len(w.todo) > 1
    BY <2>2, <2>5, <2>8
  <2>9. CASE node.type \notin {"none", "link"} /\ ~(node.type = "file" /\ Len(w.todo) > 1)
    <3> DEFINE v == Advanced(t, w)
    <3>1. v = [at |-> next, todo |-> Tail(w.todo)]
      BY <2>2, <2>9
    <3>2. v.at = next /\ v.todo = Tail(w.todo) /\ v \in Walker
      BY <2>1, <3>1 DEF Walker
    <3>3. node.type \in {"dir", "file"}
      BY <2>3, <2>9 DEF Node
    <3>4. Tail(w.todo) # <<>> => node.type = "dir"
      <4>1. Tail(w.todo) # <<>> => Len(w.todo) > 1
        BY <1>0, <1>2
      <4> QED
        BY <2>9, <3>3, <4>1
    <3>5. /\ \A k \in 1..Len(w.at) : SubSeq(next, 1, k) = SubSeq(w.at, 1, k)
          /\ SubSeq(next, 1, Len(w.at) + 1) = next
          /\ SubSeq(w.at, 1, Len(w.at)) = w.at
      BY <1>0, <2>1, PrefixesOfAppend DEF next
    <3>6. Straight(t, next)
      <4> SUFFICES ASSUME NEW k \in 1..Len(next)
                   PROVE  /\ At(t, SubSeq(next, 1, k)).type \in {"dir", "file"}
                          /\ k < Len(next) => At(t, SubSeq(next, 1, k)).type = "dir"
        BY DEF Straight
      <4>1. CASE k = Len(w.at) + 1
        <5>1. SubSeq(next, 1, k) = next /\ ~(k < Len(next))
          BY <1>0, <2>1, <3>5, <4>1
        <5> QED
          BY <3>3, <5>1 DEF node
      <4>2. CASE k < Len(w.at)
        <5>1. k \in 1..Len(w.at) /\ SubSeq(next, 1, k) = SubSeq(w.at, 1, k)
          BY <1>0, <3>5, <4>2
        <5>2. At(t, SubSeq(w.at, 1, k)).type = "dir"
          BY <4>2, <5>1 DEF OnTheWay, Straight
        <5> QED
          BY <5>1, <5>2
      <4>3. CASE k = Len(w.at)
        <5>1. k \in 1..Len(w.at) /\ w.at # <<>>
          BY <1>0, <4>3
        <5>2. SubSeq(next, 1, k) = w.at
          BY <3>5, <4>3, <5>1
        <5>3. At(t, w.at).type = "dir"
          BY <1>2, <5>1 DEF OnTheWay
        <5> QED
          BY <5>2, <5>3
      <4> QED
        BY <1>0, <2>1, <4>1, <4>2, <4>3
    <3> HIDE DEF v
    <3>7. OnTheWay(t, v)
      BY <3>2, <3>4, <3>6 DEF OnTheWay, node
    <3> QED
      BY <1>0, <2>1, <3>2, <3>7 DEF v
  <2> QED
    BY <2>6, <2>7, <2>8, <2>9
<1> QED
  BY <1>1, <1>2

\* So is a whole walk.
LEMMA WalkFacts ==
  ASSUME NEW t \in [Paths -> Node], NEW path \in Seq(STRING), NEW n \in Nat, NEW f,
         Walks(f, t, path, n)
  PROVE  \A i \in 0..n : OnTheWay(t, f[i]) /\ Len(f[i].at) <= i
<1> DEFINE S == {i \in Nat : i <= n => OnTheWay(t, f[i]) /\ Len(f[i].at) <= i}
<1>1. \A i \in 0..n :
        f[i] = IF i = 0 THEN [at |-> <<>>, todo |-> path] ELSE Advanced(t, f[i - 1])
  BY DEF Walks
<1>2. 0 \in S
  <2>1. <<>> \in Seq(STRING) /\ Len(<<>>) = 0
    OBVIOUS
  <2>2. f[0] = [at |-> <<>>, todo |-> path]
    BY <1>1
  <2>3. OnTheWay(t, f[0]) /\ Len(f[0].at) <= 0
    BY <2>1, <2>2 DEF OnTheWay, Walker, Straight
  <2> QED
    BY <2>3
<1>3. ASSUME NEW i \in Nat, i \in S PROVE i + 1 \in S
  <2>1. SUFFICES ASSUME i + 1 <= n
                 PROVE  OnTheWay(t, f[i + 1]) /\ Len(f[i + 1].at) <= i + 1
    OBVIOUS
  <2>2. i + 1 \in 0..n /\ i + 1 # 0 /\ (i + 1) - 1 = i
    BY <2>1
  <2>3. f[i + 1] = Advanced(t, f[i])
    BY <1>1, <2>2
  <2>4. OnTheWay(t, f[i]) /\ Len(f[i].at) <= i
    BY <1>3, <2>1
  <2>5. OnTheWay(t, f[i + 1]) /\ Len(f[i + 1].at) <= Len(f[i].at) + 1
    BY <2>3, <2>4, AdvancedFacts
  <2>6. Len(f[i].at) \in Nat /\ Len(f[i + 1].at) \in Nat
    BY <2>4, <2>5 DEF OnTheWay, Walker
  <2> QED
    BY <2>4, <2>5, <2>6
<1> HIDE DEF S
<1>4. Nat \subseteq S
  BY <1>2, <1>3, NatSetInduction
<1> QED
  BY <1>4 DEF S

\* What canonical() returns is no path, or a straight one that is there.
LEMMA CanonicalFacts ==
  ASSUME NEW t \in [Paths -> Node], NEW path \in Seq(STRING)
  PROVE  LET p == Canonical(t, path)
         IN /\ p \in Seq(STRING) /\ Len(p) <= Steps /\ Straight(t, p)
            /\ p # <<>> => p \in Paths /\ t[p].type \in {"dir", "file"}
<1>1. PICK f : /\ Walks(f, t, path, Steps)
               /\ Canonical(t, path) = IF f[Steps].todo = <<>> THEN f[Steps].at ELSE <<>>
  BY CanonicalIs
<1>2. Steps \in Nat
  BY LimitsAreNat DEF Steps
<1>3. OnTheWay(t, f[Steps]) /\ Len(f[Steps].at) <= Steps
  BY <1>1, <1>2, WalkFacts
<1> DEFINE p == Canonical(t, path)
<1>4. p \in Seq(STRING) /\ Len(p) <= Steps /\ Straight(t, p)
  <2>1. <<>> \in Seq(STRING) /\ Len(<<>>) = 0
    OBVIOUS
  <2>2. Straight(t, <<>>)
    BY <2>1 DEF Straight
  <2>3. CASE f[Steps].todo = <<>>
    <3>1. p = f[Steps].at
      BY <1>1, <2>3
    <3> QED
      BY <1>3, <3>1 DEF OnTheWay, Walker
  <2>4. CASE f[Steps].todo # <<>>
    <3>1. p = <<>>
      BY <1>1, <2>4
    <3> HIDE DEF p
    <3> QED
      BY <1>2, <2>1, <2>2, <3>1
  <2> QED
    BY <2>3, <2>4
<1> HIDE DEF p
<1>5. ASSUME p # <<>> PROVE p \in Paths /\ t[p].type \in {"dir", "file"}
  <2>1. Len(p) \in 1..Len(p) /\ SubSeq(p, 1, Len(p)) = p
    BY <1>4, <1>5
  <2>2. At(t, p).type \in {"dir", "file"}
    <3>1. At(t, SubSeq(p, 1, Len(p))).type \in {"dir", "file"}
      BY <1>4, <2>1 DEF Straight
    <3> QED
      BY <2>1, <3>1
  <2> QED
    BY <2>2 DEF At, Nothing
<1> QED
  BY <1>4, <1>5 DEF p

\* The components of a path before and behind a place in it.
LEMMA SplitFacts ==
  ASSUME NEW S, NEW p \in Seq(S), NEW i \in 0..(Len(p) - 1)
  PROVE  LET todo == SubSeq(p, i + 1, Len(p))
         IN /\ todo # <<>>
            /\ Len(todo) = Len(p) - i
            /\ Append(SubSeq(p, 1, i), Head(todo)) = SubSeq(p, 1, i + 1)
            /\ Tail(todo) = SubSeq(p, (i + 1) + 1, Len(p))
<1> DEFINE todo == SubSeq(p, i + 1, Len(p))
<1>1. Len(p) \in Nat /\ i \in Nat /\ i + 1 \in 1..Len(p) /\ i + 1 <= Len(p)
  OBVIOUS
<1>2. todo \in Seq(S) /\ Len(todo) = Len(p) - i /\ \A k \in 1..(Len(p) - i) : todo[k] = p[i + k]
  <2>1. todo \in Seq(S) /\ Len(todo) = Len(p) - i
    BY <1>1
  <2>2. ASSUME NEW k \in 1..(Len(p) - i) PROVE todo[k] = p[i + k]
    BY <1>1
  <2> QED
    BY <2>1, <2>2
<1>3. todo # <<>> /\ Head(todo) = p[i + 1]
  <2> HIDE DEF todo
  <2>1. todo # <<>> /\ Head(todo) = todo[1]
    BY <1>1, <1>2
  <2>2. 1 \in 1..(Len(p) - i)
    BY <1>1
  <2> QED
    BY <1>2, <2>1, <2>2
<1>4. Append(SubSeq(p, 1, i), p[i + 1]) = SubSeq(p, 1, i + 1)
  <2> DEFINE a == SubSeq(p, 1, i)
             b == SubSeq(p, 1, i + 1)
  <2>1. a \in Seq(S) /\ Len(a) = i /\ \A k \in 1..i : a[k] = p[k]
    BY <1>1
  <2>2. b \in Seq(S) /\ Len(b) = i + 1 /\ \A k \in 1..(i + 1) : b[k] = p[k]
    BY <1>1
  <2> HIDE DEF a, b
  <2>3. p[i + 1] \in S
    BY <1>1
  <2>4. Append(a, p[i + 1]) \in Seq(S) /\ Len(Append(a, p[i + 1])) = i + 1
    BY <2>1, <2>3
  <2>5. \A k \in 1..(i + 1) : Append(a, p[i + 1])[k] = b[k]
    BY <1>1, <2>1, <2>2
  <2> QED
    BY <2>2, <2>4, <2>5, SeqEqual DEF a, b
<1>5. Tail(todo) = SubSeq(p, (i + 1) + 1, Len(p))
  <2> DEFINE a == Tail(todo)
             b == SubSeq(p, (i + 1) + 1, Len(p))
  <2>1. b \in Seq(S) /\ Len(b) = Len(p) - (i + 1) /\ \A k \in 1..(Len(p) - (i + 1)) : b[k] = p[(i + 1) + k]
    BY <1>1
  <2> HIDE DEF todo, b
  <2>2. a \in Seq(S) /\ Len(a) = Len(p) - (i + 1) /\ \A k \in 1..(Len(p) - (i + 1)) : a[k] = todo[k + 1]
    BY <1>1, <1>2, <1>3
  <2>3. \A k \in 1..(Len(p) - (i + 1)) : a[k] = b[k]
    <3> TAKE k \in 1..(Len(p) - (i + 1))
    <3>1. k + 1 \in 1..(Len(p) - i) /\ i + (k + 1) = (i + 1) + k
      BY <1>1
    <3> QED
      BY <1>2, <2>1, <2>2, <3>1
  <2> HIDE DEF a
  <2> QED
    BY <2>1, <2>2, <2>3, SeqEqual DEF a, b
<1> QED
  BY <1>2, <1>3, <1>4, <1>5

\* A straight path is its own canonical form.
LEMMA CanonicalOfStraight ==
  ASSUME NEW t \in [Paths -> Node], NEW p \in Seq(STRING), Straight(t, p), Len(p) <= Steps
  PROVE  Canonical(t, p) = p
<1>1. PICK f : /\ Walks(f, t, p, Steps)
               /\ Canonical(t, p) = IF f[Steps].todo = <<>> THEN f[Steps].at ELSE <<>>
  BY CanonicalIs
<1>2. Steps \in Nat /\ Len(p) \in Nat
  BY LimitsAreNat DEF Steps
<1>3. \A i \in 0..Steps :
        f[i] = IF i = 0 THEN [at |-> <<>>, todo |-> p] ELSE Advanced(t, f[i - 1])
  BY <1>1 DEF Walks
<1> DEFINE halfway(i) == [at |-> SubSeq(p, 1, i), todo |-> SubSeq(p, i + 1, Len(p))]
           come(i) == /\ i <= Len(p) => f[i] = halfway(i)
                      /\ i >= Len(p) => f[i] = halfway(Len(p))
           S == {i \in Nat : i <= Steps => come(i)}
<1>4. 0 \in S
  <2>1. f[0] = [at |-> <<>>, todo |-> p]
    BY <1>2, <1>3
  <2>2. SubSeq(p, 1, 0) = <<>> /\ SubSeq(p, 0 + 1, Len(p)) = p
    OBVIOUS
  <2>3. f[0] = halfway(0)
    BY <2>1, <2>2
  <2>4. 0 >= Len(p) => Len(p) = 0
    BY <1>2
  <2>5. come(0)
    BY <2>3, <2>4
  <2> QED
    BY <2>5
<1>5. ASSUME NEW i \in Nat, i \in S PROVE i + 1 \in S
  <2>1. SUFFICES ASSUME i + 1 <= Steps
                 PROVE  come(i + 1)
    OBVIOUS
  <2>2. i + 1 \in 0..Steps /\ i + 1 # 0 /\ (i + 1) - 1 = i /\ i <= Steps
    BY <1>2, <2>1
  <2>3. f[i + 1] = Advanced(t, f[i]) /\ come(i)
    BY <1>3, <1>5, <2>2
  <2>4. CASE i < Len(p)
    <3> DEFINE w == halfway(i)
    <3>1. i \in 0..(Len(p) - 1) /\ i <= Len(p) /\ i + 1 <= Len(p)
      BY <1>2, <2>4
    <3>2. /\ w.at = SubSeq(p, 1, i) /\ w.todo # <<>>
          /\ Len(w.todo) = Len(p) - i
          /\ Append(w.at, Head(w.todo)) = SubSeq(p, 1, i + 1)
          /\ Tail(w.todo) = SubSeq(p, (i + 1) + 1, Len(p))
      BY <3>1, SplitFacts
    <3>3. f[i] = w
      BY <2>3, <3>1
    <3> HIDE DEF w
    <3> DEFINE node == At(t, SubSeq(p, 1, i + 1))
    <3>4. node.type \in {"dir", "file"} /\ (i + 1 < Len(p) => node.type = "dir")
      <4>1. i + 1 \in 1..Len(p)
        BY <1>2, <3>1
      <4> QED
        BY <4>1 DEF Straight
    <3>5. ~(node.type = "file" /\ Len(w.todo) > 1)
      BY <1>2, <3>1, <3>2, <3>4
    <3>6. Follow(t, w) = [at |-> SubSeq(p, 1, i + 1), todo |-> Tail(w.todo)]
      <4>1. Follow(t, w) =
              CASE node.type = "none" -> Fail
                [] node.type = "link" -> [at |-> <<>>, todo |-> node.to \o Tail(w.todo)]
                [] node.type = "file" /\ Len(w.todo) > 1 -> Fail
                [] OTHER -> [at |-> SubSeq(p, 1, i + 1), todo |-> Tail(w.todo)]
        BY <3>2 DEF Follow
      <4> HIDE DEF node
      <4> QED
        BY <3>4, <3>5, <4>1
    <3>7. Advanced(t, w) = halfway(i + 1)
      BY <3>2, <3>6 DEF Advanced
    <3>8. f[i + 1] = halfway(i + 1) /\ (i + 1 >= Len(p) => i + 1 = Len(p))
      BY <1>2, <2>3, <3>1, <3>3, <3>7
    <3> QED
      BY <3>8
  <2>5. CASE ~(i < Len(p))
    <3>1. SubSeq(p, Len(p) + 1, Len(p)) = <<>>
      OBVIOUS
    <3>2. f[i] = halfway(Len(p)) /\ ~(i + 1 <= Len(p))
      BY <1>2, <2>3, <2>5
    <3>3. Advanced(t, f[i]) = f[i]
      BY <3>1, <3>2 DEF Advanced
    <3> QED
      BY <2>3, <3>2, <3>3
  <2> QED
    BY <2>4, <2>5
<1> HIDE DEF S
<1>6. Nat \subseteq S
  BY <1>4, <1>5, NatSetInduction
<1>7. f[Steps] = halfway(Len(p))
  <2>1. Steps \in S /\ Steps <= Steps
    BY <1>2, <1>6
  <2>2. come(Steps)
    BY <2>1 DEF S
  <2> QED
    BY <1>2, <2>2
<1>8. f[Steps].todo = <<>> /\ f[Steps].at = p
  <2>1. SubSeq(p, Len(p) + 1, Len(p)) = <<>> /\ SubSeq(p, 1, Len(p)) = p
    OBVIOUS
  <2> QED
    BY <1>7, <2>1
<1> QED
  BY <1>1, <1>8

\* Asking again for a path that was resolved finds the same node, as long as
\* nobody changes the file system: this is what handle relies on when it
\* gives the canonical path to the directory_entry and the ifstream.
LEMMA StatOfCanonical ==
  ASSUME NEW t \in [Paths -> Node], NEW path \in Seq(STRING), Canonical(t, path) # <<>>
  PROVE  /\ Stat(t, Canonical(t, path)) = t[Canonical(t, path)]
         /\ ~Loops(t, Canonical(t, path))
<1> DEFINE p == Canonical(t, path)
<1>1. p \in Seq(STRING) /\ Len(p) <= Steps /\ Straight(t, p) /\ p \in Paths
  BY CanonicalFacts
<1> HIDE DEF p
<1>2. Canonical(t, p) = p
  BY <1>1, CanonicalOfStraight
<1>3. p # <<>>
  BY DEF p
<1>4. ~Loops(t, p)
  BY <1>2, <1>3 DEF Canonical
<1>5. Stat(t, p) = t[p]
  BY <1>1, <1>2, <1>3 DEF Stat, At
<1> QED
  BY <1>4, <1>5 DEF p

-----------------------------------------------------------------------------
(* The names of a target.                                                  *)

\* f is the loop of map_to_relative_path over the segments, one by one.
Maps(f, used, n) ==
    f = [i \in 0..n |-> IF i = 0 THEN <<>>
                        ELSE IF used[i] = "" THEN f[i - 1] ELSE Append(f[i - 1], used[i])]

\* The loop can be run over any segments.
LEMMA MapExists ==
  ASSUME NEW used
  PROVE  \A n \in Nat : \E f : Maps(f, used, n)
<1> DEFINE S == {n \in Nat : \E f : Maps(f, used, n)}
           step(v, i) == IF used[i] = "" THEN v ELSE Append(v, used[i])
<1>1. 0 \in S
  <2>1. Maps([i \in 0..0 |-> <<>>], used, 0)
    BY DEF Maps
  <2> QED
    BY <2>1
<1>2. ASSUME NEW n \in Nat, n \in S PROVE n + 1 \in S
  <2>1. PICK f : Maps(f, used, n)
    BY <1>2
  <2>2. f = [i \in 0..n |-> IF i = 0 THEN <<>> ELSE step(f[i - 1], i)]
    BY <2>1 DEF Maps
  <2> DEFINE g == [i \in 0..(n + 1) |-> IF i <= n THEN f[i] ELSE step(f[n], n + 1)]
  <2> HIDE DEF step
  <2>3. ASSUME NEW i \in 0..(n + 1)
        PROVE  g[i] = IF i = 0 THEN <<>> ELSE step(g[i - 1], i)
    <3>1. CASE i = 0
      BY <2>2, <3>1
    <3>2. CASE i # 0 /\ i <= n
      <4>1. i - 1 \in 0..n /\ i \in 0..n
        BY <3>2
      <4>2. f[i] = step(f[i - 1], i)
        BY <2>2, <3>2, <4>1
      <4>3. g[i] = f[i] /\ g[i - 1] = f[i - 1]
        BY <4>1
      <4> QED
        BY <3>2, <4>2, <4>3
    <3>3. CASE i = n + 1
      BY <3>3
    <3> QED
      BY <3>1, <3>2, <3>3
  <2>4. g = [i \in 0..(n + 1) |-> IF i = 0 THEN <<>> ELSE step(g[i - 1], i)]
    BY <2>3
  <2>5. Maps(g, used, n + 1)
    BY <2>4 DEF Maps, step
  <2> QED
    BY <2>5
<1> HIDE DEF S
<1>3. Nat \subseteq S
  BY <1>1, <1>2, NatSetInduction
<1> QED
  BY <1>3 DEF S

\* What a target maps to is a sequence of names.
LEMMA MapIsNames ==
  ASSUME NEW segments \in Seq(STRING)
  PROVE  MapToRelativePath(segments) \in Seq(STRING)
<1> DEFINE used == IF segments = <<"">> THEN <<"index.html">> ELSE segments
           f == CHOOSE f : Maps(f, used, Len(used))
<1>0. <<>> \in Seq(STRING)
  OBVIOUS
<1>1. used \in Seq(STRING) /\ Len(used) \in Nat /\ \A i \in 1..Len(used) : used[i] \in STRING
  <2>1. <<"index.html">> \in Seq(STRING)
    BY PathsAreNames
  <2>2. used \in Seq(STRING)
    BY <2>1
  <2> HIDE DEF used
  <2> QED
    BY <2>2
<1>3. MapToRelativePath(segments) =
        IF \E i \in 1..Len(used) : used[i] \in {".", ".."} THEN <<>> ELSE f[Len(used)]
  BY DEF MapToRelativePath, Maps
<1> HIDE DEF used, f
<1>4. Maps(f, used, Len(used))
  BY <1>1, MapExists DEF f
<1> DEFINE S == {i \in Nat : i <= Len(used) => f[i] \in Seq(STRING)}
<1>5. \A i \in 0..Len(used) :
        f[i] = IF i = 0 THEN <<>>
               ELSE IF used[i] = "" THEN f[i - 1] ELSE Append(f[i - 1], used[i])
  BY <1>4 DEF Maps
<1>6. 0 \in S
  <2>1. 0 \in 0..Len(used)
    BY <1>1
  <2>2. f[0] = <<>>
    BY <1>5, <2>1, Zenon
  <2> QED
    BY <1>0, <2>2
<1>7. ASSUME NEW i \in Nat, i \in S PROVE i + 1 \in S
  <2>1. SUFFICES ASSUME i + 1 <= Len(used) PROVE f[i + 1] \in Seq(STRING)
    OBVIOUS
  <2>2. i + 1 \in 0..Len(used) /\ i + 1 # 0 /\ (i + 1) - 1 = i /\ i <= Len(used)
        /\ i + 1 \in 1..Len(used)
    BY <1>1, <2>1
  <2>3. f[i] \in Seq(STRING) /\ used[i + 1] \in STRING
    BY <1>1, <1>7, <2>2
  <2>4. f[i + 1] = IF used[i + 1] = "" THEN f[i] ELSE Append(f[i], used[i + 1])
    BY <1>5, <2>2
  <2> HIDE DEF S
  <2>5. Append(f[i], used[i + 1]) \in Seq(STRING)
    BY <2>3, AppendProperties
  <2> QED
    BY <2>3, <2>4, <2>5
<1> HIDE DEF S
<1>8. Nat \subseteq S
  BY <1>6, <1>7, NatSetInduction
<1>9. f[Len(used)] \in Seq(STRING)
  BY <1>1, <1>8 DEF S
<1> QED
  BY <1>0, <1>3, <1>9

\* The loop keeps the segments that are not empty, in their order.
LEMMA LoopKeeps ==
  ASSUME NEW used \in Seq(STRING), NEW f, Maps(f, used, Len(used))
  PROVE  /\ f[Len(used)] = Names(used)
         /\ \A i \in Kept(used) :
               Place(used, i) \in DOMAIN Names(used) /\ Names(used)[Place(used, i)] = used[i]
         /\ \A k \in DOMAIN Names(used) : \E i \in Kept(used) : Names(used)[k] = used[i]
<1> DEFINE N == Len(used)
           K == Kept(used)
           P(i) == Place(used, i)
           upto(n) == {j \in K : j <= n}
<1>1. N \in Nat /\ DOMAIN used = 1..N /\ \A i \in 1..N : used[i] \in STRING
  OBVIOUS
<1>0. \A i \in 1..N : i \in K <=> ~(used[i] = "")
  BY <1>1, Zenon DEF Kept
<1>2. K \subseteq 1..N
  BY <1>1, Zenon DEF Kept
<1>3. IsFiniteSet(K)
  <2>1. IsFiniteSet(1..N)
    BY <1>1, FS_Interval
  <2> QED
    BY <1>2, <2>1, FS_Subset
<1>4. \A n : IsFiniteSet(upto(n)) /\ P(n) = Cardinality(upto(n)) /\ P(n) \in Nat
  <2>1. ASSUME NEW n PROVE IsFiniteSet(upto(n)) /\ P(n) = Cardinality(upto(n))
    BY <1>3, FS_Subset DEF Place
  <2> QED
    BY <2>1, FS_CardinalityType
<1>5. ASSUME NEW i \in 0..N
      PROVE  f[i] = IF i = 0 THEN <<>>
                    ELSE IF used[i] = "" THEN f[i - 1] ELSE Append(f[i - 1], used[i])
  BY Zenon DEF Maps
<1>6. P(0) = 0 /\ f[0] = <<>>
  <2>1. upto(0) = {}
    <3>1. N \in Nat /\ \A i \in K : i \in 1..N
      BY <1>1, <1>2
    <3> HIDE DEF N, K
    <3>2. \A i \in K : ~(i <= 0)
      BY <3>1
    <3> QED
      BY <3>2
  <2>2. 0 \in 0..N
    BY <1>1
  <2>3. f[0] = <<>>
    BY <1>5, <2>2, Zenon
  <2> QED
    BY <1>4, <2>1, <2>3, FS_EmptySet
<1> DEFINE Good(n) == /\ f[n] \in Seq(STRING) /\ Len(f[n]) = P(n)
                      /\ \A i \in K : i <= n => P(i) \in 1..P(n) /\ f[n][P(i)] = used[i]
                      /\ \A k \in 1..P(n) : \E i \in K : i <= n /\ P(i) = k
           S == {n \in Nat : n <= N => Good(n)}
<1> HIDE DEF N, K, P, upto
<1>7. 0 \in S
  <2>1. \A i \in K : ~(i <= 0)
    BY <1>1, <1>2
  <2>2. <<>> \in Seq(STRING) /\ Len(<<>>) = 0 /\ 1..0 = {}
    OBVIOUS
  <2>3. Good(0)
    BY <1>6, <2>1, <2>2
  <2> QED
    BY <2>3
<1>8. ASSUME NEW n \in Nat, n \in S PROVE n + 1 \in S
  <2>1. SUFFICES ASSUME n + 1 <= N PROVE Good(n + 1)
    OBVIOUS
  <2>2. n + 1 \in 0..N /\ n + 1 # 0 /\ (n + 1) - 1 = n /\ n + 1 \in 1..N /\ n <= N
    BY <1>1, <2>1
  <2>3. Good(n)
    BY <1>8, <2>2
  <2>4. f[n + 1] = IF used[n + 1] = "" THEN f[n] ELSE Append(f[n], used[n + 1])
    BY <1>5, <2>2, Zenon
  <2>5. \A i \in K : i <= n + 1 <=> i <= n \/ i = n + 1
    BY <1>1, <1>2
  <2>6. CASE n + 1 \notin K
    <3>1. f[n + 1] = f[n]
      BY <1>0, <2>2, <2>4, <2>6, Zenon
    <3>2. upto(n + 1) = upto(n)
      BY <2>5, <2>6 DEF upto
    <3>3. P(n + 1) = P(n)
      BY <1>4, <3>2
    <3>4. \A i \in K : i <= n + 1 <=> i <= n
      BY <2>5, <2>6
    <3> QED
      BY <2>3, <3>1, <3>3, <3>4
  <2>7. CASE n + 1 \in K
    <3>1. f[n + 1] = Append(f[n], used[n + 1]) /\ used[n + 1] \in STRING
      BY <1>0, <1>1, <2>2, <2>4, <2>7, Zenon
    <3>2. upto(n + 1) = upto(n) \cup {n + 1} /\ n + 1 \notin upto(n)
      BY <2>5, <2>7 DEF upto
    <3>3. P(n + 1) = P(n) + 1 /\ P(n) \in Nat
      BY <1>4, <3>2, FS_AddElement
    <3>4. /\ f[n + 1] \in Seq(STRING) /\ Len(f[n + 1]) = P(n) + 1
          /\ \A k \in 1..P(n) : f[n + 1][k] = f[n][k]
          /\ f[n + 1][P(n) + 1] = used[n + 1]
      <4>1. f[n] \in Seq(STRING) /\ Len(f[n]) = P(n)
        BY <2>3
      <4> HIDE DEF Good
      <4> QED
        BY <3>1, <3>3, <4>1, AppendProperties
    <3>5. ASSUME NEW i \in K, i <= n + 1
          PROVE  P(i) \in 1..P(n + 1) /\ f[n + 1][P(i)] = used[i]
      <4>1. CASE i <= n
        <5>1. P(i) \in 1..P(n) /\ f[n][P(i)] = used[i]
          BY <2>3, <4>1
        <5> HIDE DEF Good
        <5>2. P(i) \in 1..P(n) + 1
          BY <3>3, <5>1
        <5> QED
          BY <3>3, <3>4, <5>1, <5>2
      <4>2. CASE i = n + 1
        BY <3>3, <3>4, <4>2
      <4> QED
        BY <2>5, <3>5, <4>1, <4>2
    <3>6. ASSUME NEW k \in 1..P(n + 1) PROVE \E i \in K : i <= n + 1 /\ P(i) = k
      <4>1. CASE k \in 1..P(n)
        BY <2>3, <2>5, <4>1
      <4>2. CASE k = P(n) + 1
        BY <2>5, <2>7, <3>3, <4>2
      <4> QED
        BY <3>3, <4>1, <4>2
    <3> QED
      BY <3>3, <3>4, <3>5, <3>6
  <2> QED
    BY <2>6, <2>7
<1> HIDE DEF S
<1>9. Nat \subseteq S
  BY <1>7, <1>8, NatSetInduction
<1>10. Good(N) /\ \A i \in K : i <= N
  <2>1. N \in Nat /\ N <= N /\ \A i \in K : i <= N
    BY <1>1, <1>2
  <2> HIDE DEF Good
  <2> QED
    BY <1>9, <2>1 DEF S
<1>11. P(N) = Cardinality(K)
  <2>1. upto(N) = K
    BY <1>10 DEF upto
  <2> QED
    BY <1>4, <2>1
<1>12. Names(used) = [k \in 1..P(N) |-> used[CHOOSE i \in K : P(i) = k]]
  BY <1>11 DEF Names, K, P
<1>13. ASSUME NEW k \in 1..P(N)
       PROVE  \E i \in K : P(i) = k /\ Names(used)[k] = used[i] /\ f[N][k] = used[i]
  <2>1. \E i \in K : P(i) = k
    BY <1>10
  <2> DEFINE c == CHOOSE i \in K : P(i) = k
  <2>2. c \in K /\ P(c) = k
    BY <2>1
  <2>3. Names(used)[k] = used[c]
    BY <1>12
  <2> HIDE DEF c
  <2>4. f[N][k] = used[c]
    BY <1>10, <2>2
  <2> QED
    BY <2>2, <2>3, <2>4
<1>14. f[N] = Names(used) /\ DOMAIN Names(used) = 1..P(N)
  <2>1. f[N] \in [1..P(N) -> STRING]
    <3>1. f[N] \in Seq(STRING) /\ Len(f[N]) = P(N)
      BY <1>10
    <3> HIDE DEF Good
    <3>2. f[N] \in [1..Len(f[N]) -> STRING]
      BY <3>1, LenProperties
    <3> QED
      BY <3>1, <3>2
  <2>2. f[N] = [k \in 1..P(N) |-> f[N][k]]
    BY <2>1
  <2>3. \A k \in 1..P(N) : f[N][k] = used[CHOOSE i \in K : P(i) = k]
    BY <1>12, <1>13
  <2> QED
    BY <1>12, <2>2, <2>3
<1>15. ASSUME NEW i \in K PROVE P(i) \in 1..P(N) /\ Names(used)[P(i)] = used[i]
  BY <1>10, <1>14
<1> QED
  BY <1>13, <1>14, <1>15 DEF N, K, P

\* map_to_relative_path finds the names that a target asks for.
LEMMA MapIsAsked ==
  ASSUME NEW segments \in Seq(STRING)
  PROVE  MapToRelativePath(segments) = Asked(segments)
<1> DEFINE used == IF segments = <<"">> THEN <<"index.html">> ELSE segments
           f == CHOOSE f : Maps(f, used, Len(used))
           dots == {".", ".."}
<1>1. used \in Seq(STRING) /\ Len(used) \in Nat
  <2>1. <<"index.html">> \in Seq(STRING)
    BY PathsAreNames
  <2>2. used \in Seq(STRING)
    BY <2>1
  <2> HIDE DEF used
  <2> QED
    BY <2>2
<1>2. MapToRelativePath(segments) =
        IF \E i \in 1..Len(used) : used[i] \in dots THEN <<>> ELSE f[Len(used)]
  BY DEF MapToRelativePath, Maps
<1>3. Asked(segments) = IF Range(Names(used)) \cap dots # {} THEN <<>> ELSE Names(used)
  BY DEF Asked
<1> HIDE DEF used, f
<1>4. Maps(f, used, Len(used))
  BY <1>1, MapExists DEF f
<1>5. "" \notin dots
  BY Zenon
<1> HIDE DEF dots
<1>6. \A i \in 1..Len(used) : used[i] \in dots => i \in Kept(used)
  <2>1. DOMAIN used = 1..Len(used)
    BY <1>1
  <2> QED
    BY <1>5, <2>1, Zenon DEF Kept
<1>7. \A i \in Kept(used) : i \in 1..Len(used)
  <2>1. DOMAIN used = 1..Len(used)
    BY <1>1
  <2> QED
    BY <2>1, Zenon DEF Kept
<1>8. Range(Names(used)) \cap dots # {} <=> \E i \in 1..Len(used) : used[i] \in dots
  <2>1. Range(Names(used)) = {Names(used)[k] : k \in DOMAIN Names(used)}
    BY DEF Range
  <2>2. ASSUME NEW k \in DOMAIN Names(used), Names(used)[k] \in dots
        PROVE  \E i \in 1..Len(used) : used[i] \in dots
    BY <1>1, <1>4, <1>7, <2>2, LoopKeeps
  <2>3. ASSUME NEW i \in 1..Len(used), used[i] \in dots
        PROVE  \E k \in DOMAIN Names(used) : Names(used)[k] \in dots
    BY <1>1, <1>4, <1>6, <2>3, LoopKeeps
  <2> QED
    BY <2>1, <2>2, <2>3
<1>9. f[Len(used)] = Names(used)
  BY <1>1, <1>4, LoopKeeps
<1> QED
  BY <1>2, <1>3, <1>8, <1>9

-----------------------------------------------------------------------------
(* The answer in a file system nobody changes.                             *)

Rel == MapToRelativePath(target)
File == Canonical(tree, Root \o Rel)

\* A path's first components are the root's.
LEMMA WithinIsPrefix ==
  ASSUME NEW root \in Seq(STRING), NEW p \in Seq(STRING)
  PROVE  IsWithinRoot(root, p) <=> IsPrefix(root, p)
<1>1. CASE ~(Len(root) <= Len(p))
  BY <1>1 DEF IsWithinRoot, IsPrefix
<1>2. CASE Len(root) <= Len(p)
  <2> DEFINE a == SubSeq(root, 1, Len(root))
             b == SubSeq(p, 1, Len(root))
  <2>1. Len(root) \in Nat /\ Len(p) \in Nat
    OBVIOUS
  <2>2. a \in Seq(STRING) /\ Len(a) = Len(root) /\ \A i \in 1..Len(root) : a[i] = root[i]
    BY <2>1
  <2>3. b \in Seq(STRING) /\ Len(b) = Len(root) /\ \A i \in 1..Len(root) : b[i] = p[i]
    BY <1>2, <2>1
  <2> HIDE DEF a, b
  <2>4. (\A i \in 1..Len(root) : a[i] = b[i]) => a = b
    BY <2>2, <2>3, SeqEqual
  <2>5. a = b <=> \A i \in 1..Len(root) : root[i] = p[i]
    BY <2>2, <2>3, <2>4
  <2> QED
    BY <1>2, <2>5 DEF IsWithinRoot, IsPrefix, a, b
<1> QED
  BY <1>1, <1>2

\* The answer that a tree calls for, said with the names map_to_relative_path
\* finds.
Right ==
    /\ Rel = <<>> \/ File \notin Published(tree) => reply = Text("404")
    /\ Rel # <<>> /\ File \in Published(tree) =>
          /\ tree[File].size > MaxFile => reply = Text("413")
          /\ ~(tree[File].size > MaxFile) =>
                /\ reply.status = "200"
                /\ reply.length = tree[File].size
                /\ method = "GET" => reply.body = <<File, tree[File].size>>

\* The inductive invariant: while nobody has changed the file system, what
\* each system call learned of the file is still so when the next is made.
Quiet ==
    /\ changes \in Nat
    /\ target \in Targets
    /\ changes = 0 => tree \in Trees
    /\ changes = 0 /\ pc \in {"entry", "size", "open", "read"} =>
          /\ Rel # <<>> /\ resolved = File /\ File # <<>>
          /\ IsWithinRoot(Root, File)
          /\ method # "other"
    /\ changes = 0 /\ pc \in {"size", "open", "read"} => tree[File].type = "file"
    /\ changes = 0 /\ pc \in {"open", "read"} =>
          /\ size = tree[File].size /\ ~(size > MaxFile)
          /\ method = "GET"
    /\ changes = 0 /\ pc = "read" => opened = tree[File]
    /\ changes = 0 /\ pc = "done" /\ method # "other" => Right

\* What a tree nobody has changed says of the file that is asked for.
LEMMA FileFacts ==
  ASSUME target \in Targets, tree \in Trees
  PROVE  /\ Rel \in Seq(STRING) /\ Root \in Seq(STRING) /\ File \in Seq(STRING)
         /\ tree \in [Paths -> Node]
         /\ tree[Root].type = "dir"
         /\ File # <<>> =>
               File \in Paths /\ Stat(tree, File) = tree[File] /\ ~Loops(tree, File)
         /\ IsWithinRoot(Root, File) <=> IsPrefix(Root, File)
<1>1. tree \in [Paths -> Node] /\ tree[Root].type = "dir" /\ Root \in Seq(STRING)
      /\ target \in Seq(STRING)
  BY TreesOfNodes, RootIsDirectory, PathsAreNames
<1>2. Rel \in Seq(STRING)
  BY <1>1, MapIsNames DEF Rel
<1>3. Root \o Rel \in Seq(STRING)
  BY <1>1, <1>2
<1>4. File \in Seq(STRING) /\ (File # <<>> => File \in Paths)
  BY <1>1, <1>3, CanonicalFacts DEF File
<1>5. File # <<>> => Stat(tree, File) = tree[File] /\ ~Loops(tree, File)
  BY <1>1, <1>3, StatOfCanonical DEF File
<1> QED
  BY <1>1, <1>2, <1>4, <1>5, WithinIsPrefix

\* The file is published if it is below the root and a file.
LEMMA PublishedFacts ==
  ASSUME target \in Targets, tree \in Trees
  PROVE  File \in Published(tree) <=>
            File # <<>> /\ IsWithinRoot(Root, File) /\ tree[File].type = "file"
<1>1. /\ Root \in Seq(STRING) /\ File \in Seq(STRING)
      /\ tree[Root].type = "dir"
      /\ File # <<>> => File \in Paths
      /\ IsWithinRoot(Root, File) <=> IsPrefix(Root, File)
  BY FileFacts
<1>2. File = <<>> => ~(IsPrefix(Root, File) /\ File # Root)
  <2>1. \A p \in Seq(STRING) : p # <<>> => ~(Len(p) <= Len(<<>>))
    OBVIOUS
  <2> QED
    BY <1>1, <2>1 DEF IsPrefix
<1>3. tree[File].type = "file" => File # Root
  BY <1>1
<1> QED
  BY <1>1, <1>2, <1>3 DEF Published

\* It holds at first.
LEMMA InitQuiet == Init => Quiet
BY DEF Init, Quiet

\* The answer the tree calls for, by what became of the file.
LEMMA RightAnswers ==
  ASSUME target \in Targets, tree \in Trees, UNCHANGED <<tree, target, method>>
  PROVE  /\ Rel = <<>> \/ File = <<>> \/ ~IsWithinRoot(Root, File)
               \/ tree[File].type # "file" =>
            (reply' = Text("404") => Right')
         /\ Rel # <<>> /\ File # <<>> /\ IsWithinRoot(Root, File)
               /\ tree[File].type = "file" =>
            /\ tree[File].size > MaxFile => (reply' = Text("413") => Right')
            /\ ~(tree[File].size > MaxFile) =>
                  (/\ reply'.status = "200"
                   /\ reply'.length = tree[File].size
                   /\ method = "GET" => reply'.body = <<File, tree[File].size>>
                   => Right')
<1>1. Rel' = Rel /\ File' = File /\ tree' = tree /\ method' = method
  BY DEF Rel, File
<1>2. Published(tree)' = Published(tree)
  BY DEF Published
<1>3. Right' <=>
        /\ Rel = <<>> \/ File \notin Published(tree) => reply' = Text("404")
        /\ Rel # <<>> /\ File \in Published(tree) =>
              /\ tree[File].size > MaxFile => reply' = Text("413")
              /\ ~(tree[File].size > MaxFile) =>
                    /\ reply'.status = "200"
                    /\ reply'.length = tree[File].size
                    /\ method = "GET" => reply'.body = <<File, tree[File].size>>
  BY <1>1, <1>2, Zenon DEF Right, Text
<1>4. File \in Published(tree) <=>
            File # <<>> /\ IsWithinRoot(Root, File) /\ tree[File].type = "file"
  BY PublishedFacts
<1> QED
  BY <1>3, <1>4, Zenon

\* The end of the request keeps it, if the answer is the right one.
LEMMA EndQuiet ==
  ASSUME Quiet, UNCHANGED <<tree, changes, method, target>>, pc' = "done",
         changes = 0 /\ method # "other" => Right'
  PROVE  Quiet'
BY DEF Quiet

\* It is kept by every step: what a change breaks it does not claim.
LEMMA NextQuiet == Quiet /\ [Next]_vars => Quiet'
<1> SUFFICES ASSUME Quiet, [Next]_vars PROVE Quiet'
  OBVIOUS
<1>0. target \in Targets /\ changes \in Nat
  BY DEF Quiet
<1>1. CASE HandleStep
  <2>1. UNCHANGED <<tree, changes, method, target>>
    BY <1>1 DEF HandleStep, Resolve, CheckEntry, TakeSize, Open, Read
  <2>2. CASE changes # 0
    BY <1>0, <2>1, <2>2 DEF Quiet
  <2>3. CASE changes = 0
    <3>0. tree \in Trees
      BY <2>3 DEF Quiet
    <3>1. Rel' = Rel /\ File' = File
      BY <2>1 DEF Rel, File
    <3>2. File # <<>> => Stat(tree, File) = tree[File] /\ ~Loops(tree, File)
      BY <1>0, <3>0, FileFacts
    <3>3. CASE Resolve
      <4>1. ResolveUnderRoot(tree, Rel) =
              IF File # <<>> /\ IsWithinRoot(Root, File) THEN File ELSE <<>>
        BY DEF ResolveUnderRoot, File
      <4>2. CASE method = "other" /\ pc' = "done"
        BY <2>1, <4>2, EndQuiet
      <4>3. CASE /\ Rel = <<>> \/ ResolveUnderRoot(tree, Rel) = <<>>
                 /\ Finish(Text("404"))
        <5>1. Rel = <<>> \/ File = <<>> \/ ~IsWithinRoot(Root, File)
          BY <4>1, <4>3
        <5>2. reply' = Text("404") /\ pc' = "done"
          BY <4>3 DEF Finish
        <5>3. Right'
          BY <1>0, <2>1, <3>0, <5>1, <5>2, RightAnswers
        <5> QED
          BY <2>1, <5>2, <5>3, EndQuiet
      <4>4. CASE /\ method # "other"
                 /\ Rel # <<>> /\ ResolveUnderRoot(tree, Rel) # <<>>
                 /\ resolved' = ResolveUnderRoot(tree, Rel)
                 /\ pc' = "entry"
        <5>1. File # <<>> /\ IsWithinRoot(Root, File) /\ resolved' = File
          BY <4>1, <4>4
        <5> QED
          BY <1>0, <2>1, <2>3, <3>0, <3>1, <4>4, <5>1 DEF Quiet
      <4> QED
        BY <3>3, <4>2, <4>3, <4>4 DEF Resolve, Rel, Finish
    <3>4. CASE CheckEntry
      <4>1. /\ Rel # <<>> /\ resolved = File /\ File # <<>>
            /\ IsWithinRoot(Root, File) /\ method # "other"
        BY <2>3, <3>4 DEF Quiet, CheckEntry
      <4>2. Stat(tree, resolved) = tree[File] /\ ~Loops(tree, resolved)
        BY <3>2, <4>1
      <4>3. CASE tree[File].type # "file" /\ Finish(Text("404"))
        <5>1. reply' = Text("404") /\ pc' = "done"
          BY <4>3 DEF Finish
        <5>2. Right'
          BY <1>0, <2>1, <3>0, <4>3, <5>1, RightAnswers
        <5> QED
          BY <2>1, <5>1, <5>2, EndQuiet
      <4>4. CASE /\ tree[File].type = "file"
                 /\ pc' = "size"
                 /\ UNCHANGED <<resolved, size, opened, reply>>
        BY <1>0, <2>1, <2>3, <3>0, <3>1, <4>1, <4>4 DEF Quiet
      <4> QED
        BY <3>4, <4>2, <4>3, <4>4 DEF CheckEntry
    <3>5. CASE TakeSize
      <4>1. /\ Rel # <<>> /\ resolved = File /\ File # <<>>
            /\ IsWithinRoot(Root, File) /\ method # "other"
            /\ tree[File].type = "file"
        BY <2>3, <3>5 DEF Quiet, TakeSize
      <4>2. Stat(tree, resolved) = tree[File]
        BY <3>2, <4>1
      <4>3. CASE TooLarge(tree[File].size) /\ Finish(Text("413"))
        <5>1. reply' = Text("413") /\ pc' = "done" /\ tree[File].size > MaxFile
          BY <4>3 DEF Finish, TooLarge
        <5>2. Right'
          BY <1>0, <2>1, <3>0, <4>1, <5>1, RightAnswers
        <5> QED
          BY <2>1, <5>1, <5>2, EndQuiet
      <4>4. CASE /\ ~TooLarge(tree[File].size)
                 /\ method = "HEAD"
                 /\ reply' = [status |-> "200", length |-> tree[File].size, body |-> <<>>]
                 /\ pc' = "done"
        <5>1. reply'.status = "200" /\ reply'.length = tree[File].size /\ method # "GET"
              /\ ~(tree[File].size > MaxFile)
          BY <4>4 DEF TooLarge
        <5>2. Right'
          BY <1>0, <2>1, <3>0, <4>1, <5>1, RightAnswers
        <5> QED
          BY <2>1, <4>4, <5>2, EndQuiet
      <4>5. CASE /\ ~TooLarge(tree[File].size)
                 /\ size' = tree[File].size
                 /\ method = "GET"
                 /\ pc' = "open"
                 /\ UNCHANGED <<resolved, opened>>
        BY <1>0, <2>1, <2>3, <3>0, <3>1, <4>1, <4>5 DEF Quiet, TooLarge
      <4> QED
        BY <3>5, <4>1, <4>2, <4>3, <4>4, <4>5 DEF TakeSize
    <3>6. CASE Open
      <4>1. /\ Rel # <<>> /\ resolved = File /\ File # <<>>
            /\ IsWithinRoot(Root, File) /\ method = "GET"
            /\ tree[File].type = "file"
            /\ size = tree[File].size /\ ~(size > MaxFile)
        BY <2>3, <3>6 DEF Quiet, Open
      <4>2. Stat(tree, resolved) = tree[File]
        BY <3>2, <4>1
      <4>3. /\ opened' = tree[File]
            /\ pc' = "read"
            /\ UNCHANGED <<resolved, size, reply>>
        BY <3>6, <4>1, <4>2 DEF Open
      <4> QED
        BY <1>0, <2>1, <2>3, <3>0, <3>1, <4>1, <4>3 DEF Quiet
    <3>7. CASE Read
      <4>1. /\ Rel # <<>> /\ resolved = File /\ File # <<>>
            /\ IsWithinRoot(Root, File) /\ method = "GET"
            /\ tree[File].type = "file"
            /\ size = tree[File].size /\ ~(size > MaxFile)
            /\ opened = tree[File]
        BY <2>3, <3>7 DEF Quiet, Read
      <4>2. tree[File].size \in Nat
        <5>1. File \in Paths /\ tree \in [Paths -> Node]
          BY <1>0, <3>0, <4>1, FileFacts
        <5> QED
          BY <4>1, <5>1, FileHasSize
      <4>3. Readable = size /\ ~(Readable < size)
        BY <4>1, <4>2 DEF Readable
      <4>4. Finish([status |-> "200", length |-> size, body |-> <<resolved, size>>])
        BY <3>7, <4>3 DEF Read
      <4>5. /\ reply'.status = "200" /\ reply'.length = tree[File].size
            /\ reply'.body = <<File, tree[File].size>> /\ pc' = "done"
        BY <4>1, <4>4 DEF Finish
      <4>6. Right'
        BY <1>0, <2>1, <3>0, <4>1, <4>5, RightAnswers
      <4> QED
        BY <2>1, <4>5, <4>6, EndQuiet
    <3> QED
      BY <1>1, <3>3, <3>4, <3>5, <3>6, <3>7 DEF HandleStep
  <2> QED
    BY <2>2, <2>3
<1>2. ASSUME NEW path \in Paths, NEW node \in NewNodes, Change(path, node) PROVE Quiet'
  <2>1. changes' = changes + 1 /\ target' = target
    BY <1>2 DEF Change
  <2>2. changes' \in Nat /\ changes' # 0
    BY <1>0, <2>1
  <2> QED
    BY <1>0, <2>1, <2>2 DEF Quiet
<1>3. CASE UNCHANGED vars
  <2>1. UNCHANGED <<tree, changes, method, target, pc, resolved, size, opened, reply>>
    BY <1>3 DEF vars
  <2> QED
    BY <2>1 DEF Quiet, Right, Rel, File, Published, Text
<1> QED
  BY <1>1, <1>2, <1>3 DEF Next

\* QuietAnswer, for every file system, target, links and limits: with nobody
\* changing the tree, the loop of map_to_relative_path finds the names that are
\* asked for, the four looks that handle takes at the tree make one answer, and
\* it is the one the tree calls for.
THEOREM QuietAnswerIsRight == Spec => []QuietAnswer
<1>1. Quiet => QuietAnswer
  <2> SUFFICES ASSUME Quiet, pc = "done", changes = 0, method # "other" PROVE QuietAnswer
    BY DEF QuietAnswer
  <2>1. Right
    BY DEF Quiet
  <2>2. Asked(target) = Rel
    <3>1. target \in Seq(STRING)
      BY PathsAreNames DEF Quiet
    <3> QED
      BY <3>1, MapIsAsked DEF Rel
  <2> QED
    BY <2>1, <2>2, Zenon DEF QuietAnswer, Right, File
<1> QED
  BY <1>1, InitQuiet, NextQuiet, PTL DEF Spec

=============================================================================
