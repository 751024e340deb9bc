----------------------------- MODULE StaticFiles -----------------------------
(***************************************************************************)
(* app::static_files: one request for a file, against a file system that   *)
(* other processes may change between any two system calls of the request. *)
(*                                                                         *)
(* A path is the sequence of its components from "/".  A node is a         *)
(* directory, a regular file of some size, a symbolic link to a path, or   *)
(* nothing.  The module keeps no state of its own, so one request at a     *)
(* time says all there is to say about it.                                 *)
(***************************************************************************)
EXTENDS Naturals, Sequences, FiniteSets, SequencesExt

CONSTANTS
    Paths,      \* every path that may hold a node
    Root,       \* static_files::_root, canonical
    Trees,      \* the file systems a request may meet first
    NewNodes,   \* what other processes may put in place of a node
    Targets,    \* request targets without their query: sequences of segments
    MaxFile,    \* max_file_bytes
    MaxLinks,   \* bound: links one path resolution follows
    MaxChanges  \* bound: changes made by others during a request

Node ==
    [type : {"none", "dir"}] \cup [type : {"file"}, size : Nat]
        \cup [type : {"link"}, to : Seq(STRING)]
Nothing == [type |-> "none"]

ASSUME PathsAreNames == Paths \cup Targets \cup {<<"index.html">>} \subseteq Seq(STRING)
ASSUME TreesOfNodes == Trees \subseteq [Paths -> Node] /\ NewNodes \subseteq Node
ASSUME RootIsDirectory == Root \in Paths /\ \A t \in Trees : t[Root].type = "dir"
ASSUME LimitsAreNat == MaxFile \in Nat /\ MaxLinks \in Nat /\ MaxChanges \in Nat

VARIABLES
    tree,       \* the file system: Paths -> Node
    changes,    \* how often others changed it during this request
    method,     \* GET, HEAD, or something else
    target,     \* the segments of the request target
    pc,         \* where handle is
    resolved,   \* the canonical path of the target
    size,       \* file_size
    opened,     \* the node behind the ifstream
    reply       \* the response, or the exception, of the request

vars == <<tree, changes, method, target, pc, resolved, size, opened, reply>>

\* A body is named by the file it was read from and its length.
Reply == [status : {"none", "200", "404", "405", "413", "throw"},
          length : Nat, body : Seq(Paths \cup Nat)]
Text(status) == [status |-> status, length |-> 0, body |-> <<>>]

TypeOK ==
    /\ tree \in [Paths -> Node]
    /\ changes \in 0..MaxChanges
    /\ method \in {"GET", "HEAD", "other"}
    /\ target \in Targets
    /\ pc \in {"start", "entry", "size", "open", "read", "done"}
    /\ pc \notin {"start", "done"} => resolved \in Paths
    /\ size \in Nat
    /\ pc \in {"open", "read"} => size <= MaxFile
    /\ reply.status = "none" <=> pc # "done"

Init ==
    /\ tree \in Trees
    /\ changes = 0
    /\ method \in {"GET", "HEAD", "other"}
    /\ target \in Targets
    /\ pc = "start"
    /\ resolved = <<>>
    /\ size = 0
    /\ opened = Nothing
    /\ reply = Text("none")

-----------------------------------------------------------------------------
(* Paths.                                                                  *)

At(t, path) == IF path \in Paths THEN t[path] ELSE Nothing

\* Where the resolution of a path ends: nothing is left to do unless there are
\* too many links.
Walked(t, path) ==
    LET Fail == [at |-> <<>>, todo |-> <<>>]
        Follow(w) ==
            LET next == Append(w.at, Head(w.todo))
                node == At(t, next)
            IN CASE node.type = "none" -> Fail
                 [] node.type = "link" -> [at |-> <<>>, todo |-> node.to \o Tail(w.todo)]
                 [] node.type = "file" /\ Len(w.todo) > 1 -> Fail
                 [] OTHER -> [at |-> next, todo |-> Tail(w.todo)]
        Steps == (MaxLinks + 1) * 4
        Walk[n \in 0..Steps] ==
            IF n = 0 THEN [at |-> <<>>, todo |-> path]
            ELSE LET walked == Walk[n - 1]
                 IN IF walked.todo = <<>> THEN walked ELSE Follow(walked)
    IN Walk[Steps]

\* ELOOP
Loops(t, path) == Walked(t, path).todo # <<>>

\* std::filesystem::canonical: every component exists, links are followed.
\* The result is <<>> when the path does not resolve.
Canonical(t, path) == IF Loops(t, path) THEN <<>> ELSE Walked(t, path).at

\* stat: what a path leads to.
Stat(t, path) ==
    LET found == Canonical(t, path)
    IN IF found = <<>> THEN Nothing ELSE At(t, found)

\* map_to_relative_path: "/" is the index, empty segments are skipped, and
\* <<>> stands for a target that maps to nothing.
MapToRelativePath(segments) ==
    LET used == IF segments = <<"">> THEN <<"index.html">> ELSE segments
        relative[i \in 0..Len(used)] ==
            IF i = 0 THEN <<>>
            ELSE IF used[i] = "" THEN relative[i - 1] ELSE Append(relative[i - 1], used[i])
    IN IF \E i \in 1..Len(used) : used[i] \in {".", ".."} THEN <<>> ELSE relative[Len(used)]

\* Defect: the last component of the root is not compared.
IsWithinRootParent(root, candidate) ==
    /\ Len(root) <= Len(candidate)
    /\ \A i \in 1..Len(root) - 1 : root[i] = candidate[i]

\* is_within_root: the root's components are the first of the candidate's.
IsWithinRoot(root, candidate) ==
    /\ Len(root) <= Len(candidate)
    /\ \A i \in 1..Len(root) : root[i] = candidate[i]

\* resolve_under_root; <<>> is nullopt.
ResolveUnderRoot(t, relative) ==
    LET path == Canonical(t, Root \o relative)
    IN IF path # <<>> /\ IsWithinRoot(Root, path) THEN path ELSE <<>>

-----------------------------------------------------------------------------
(* static_files::handle and serve_file, one system call after the other.   *)

Finish(r) ==
    /\ reply' = r
    /\ pc' = "done"
    /\ UNCHANGED <<resolved, size, opened>>

Resolve ==
    /\ pc = "start"
    /\ LET relative == MapToRelativePath(target)
           path == ResolveUnderRoot(tree, relative)
       IN \/ /\ method = "other"
             /\ Finish(Text("405"))
          \/ /\ method # "other"
             /\ relative = <<>> \/ path = <<>>
             /\ Finish(Text("404"))
          \/ /\ method # "other"
             /\ relative # <<>> /\ path # <<>>
             /\ resolved' = path
             /\ pc' = "entry"
             /\ UNCHANGED <<size, opened, reply>>
    /\ UNCHANGED <<tree, changes, method, target>>

\* The directory_entry, whose constructor has an error_code, and
\* is_regular_file(), which has none: should the path end in a link by now, it
\* asks again, and throws if there are too many.
CheckEntry ==
    /\ pc = "entry"
    /\ \/ /\ Stat(tree, resolved).type # "file"
          /\ Finish(Text("404"))
       \/ /\ Loops(tree, resolved)
          /\ Finish(Text("throw"))
       \/ /\ Stat(tree, resolved).type = "file"
          /\ pc' = "size"
          /\ UNCHANGED <<resolved, size, opened, reply>>
    /\ UNCHANGED <<tree, changes, method, target>>

TooLarge(n) == n > MaxFile

\* file_size() asks again, and throws if there is no file any more; a HEAD
\* request is answered from it.
TakeSize ==
    /\ pc = "size"
    /\ LET node == Stat(tree, resolved)
       IN \/ /\ node.type # "file"
             /\ Finish(Text("throw"))
          \/ /\ node.type = "file" /\ TooLarge(node.size)
             /\ Finish(Text("413"))
          \/ /\ node.type = "file" /\ ~TooLarge(node.size)
             /\ size' = node.size
             /\ \/ /\ method = "HEAD"
                   /\ reply' = [status |-> "200", length |-> node.size, body |-> <<>>]
                   /\ pc' = "done"
                \/ /\ method = "GET"
                   /\ pc' = "open"
                   /\ UNCHANGED reply
             /\ UNCHANGED <<resolved, opened>>
    /\ UNCHANGED <<tree, changes, method, target>>

\* The ifstream; a directory can be opened too.
Open ==
    /\ pc = "open"
    /\ \/ /\ Stat(tree, resolved).type = "none"
          /\ Finish(Text("404"))
       \/ /\ Stat(tree, resolved).type # "none"
          /\ opened' = Stat(tree, resolved)
          /\ pc' = "read"
          /\ UNCHANGED <<resolved, size, reply>>
    /\ UNCHANGED <<tree, changes, method, target>>

\* What read() can deliver now.
Readable == IF opened.type = "file" THEN opened.size ELSE 0

\* Defect: what was read is sent, however much it is.
ReadShort ==
    /\ pc = "read"
    /\ LET got == IF Readable < size THEN Readable ELSE size
       IN Finish([status |-> "200", length |-> size, body |-> <<resolved, got>>])
    /\ UNCHANGED <<tree, changes, method, target>>

\* read_file_bytes reads `size' bytes; fewer are no answer.
Read ==
    /\ pc = "read"
    /\ \/ /\ Readable < size
          /\ Finish(Text("404"))
       \/ /\ Readable >= size
          /\ Finish([status |-> "200", length |-> size, body |-> <<resolved, size>>])
    /\ UNCHANGED <<tree, changes, method, target>>

\* Another process puts a new node in place of one below the root, or writes
\* to the file that is open.
Change(path, node) ==
    /\ pc # "done"
    /\ changes < MaxChanges
    /\ IsStrictPrefix(Root, path) /\ At(tree, path) # node
    /\ changes' = changes + 1
    /\ tree' = [tree EXCEPT ![path] = node]
    /\ \/ UNCHANGED opened
       \/ /\ pc = "read" /\ path = resolved
          /\ opened.type = "file" /\ node.type = "file"
          /\ opened' = node
    /\ UNCHANGED <<method, target, pc, resolved, size, reply>>

-----------------------------------------------------------------------------
HandleStep == Resolve \/ CheckEntry \/ TakeSize \/ Open \/ Read

Next == HandleStep \/ \E path \in Paths, node \in NewNodes : Change(path, node)

Spec == Init /\ [][Next]_vars

-----------------------------------------------------------------------------
(* Properties.                                                             *)

\* Whatever others do to the file meanwhile, a response that announces a
\* length has exactly that many bytes, never more than max_file_bytes: the
\* client's framing survives a file that shrinks or grows under the read.
FramingHolds ==
    reply.status = "200" =>
        /\ reply.length <= MaxFile
        /\ method = "GET" => reply.body = <<resolved, reply.length>>
        /\ method = "HEAD" => reply.body = <<>>

\* The regular files a client may name, with the path that holds them.
Published(t) ==
    {f \in Paths : t[f].type = "file" /\ IsPrefix(Root, f) /\ f # Root}

\* The segments that are not empty, each at its place among them.
Kept(segments) == {i \in DOMAIN segments : segments[i] # ""}
Place(segments, i) == Cardinality({j \in Kept(segments) : j <= i})
Names(segments) ==
    [k \in 1..Cardinality(Kept(segments)) |->
        segments[CHOOSE i \in Kept(segments) : Place(segments, i) = k]]

\* The names a target asks for: its segments without the empty ones, the index
\* for "/", and none at all if one of them is "." or "..".
Asked(segments) ==
    LET names == Names(IF segments = <<"">> THEN <<"index.html">> ELSE segments)
    IN IF Range(names) \cap {".", ".."} # {} THEN <<>> ELSE names

\* In a file system nobody changes, the answer is the one the tree calls for:
\* the file that the names lead to from the root, through links, if it is
\* there, is published and is small enough.
QuietAnswer ==
    pc = "done" /\ changes = 0 /\ method # "other" =>
        LET asked == Asked(target)
            file == Canonical(tree, Root \o asked)
        IN IF asked = <<>> \/ file \notin Published(tree) THEN reply = Text("404")
           ELSE IF tree[file].size > MaxFile THEN reply = Text("413")
           ELSE /\ reply.status = "200"
                /\ reply.length = tree[file].size
                /\ method = "GET" => reply.body = <<file, tree[file].size>>

=============================================================================
