---------------------------- MODULE DirectoryScan ----------------------------
(***************************************************************************)
(* Server_Extract_Files_From_Directory (Server.c:160-237): the recursion   *)
(* of one communication thread over the requested directory, with a stack  *)
(* of open directories, one per level.                                     *)
(*                                                                         *)
(* A path is a sequence of nodes, the requested directory first.  stat(2)  *)
(* follows symbolic links, to files, directories and other links, so a     *)
(* path may go through some, and the kernel refuses a path with more than  *)
(* MaxLinks of them.  Nodes may be deleted while the scan runs; readdir(3) *)
(* may still return them.                                                  *)
(***************************************************************************)
EXTENDS Naturals, Sequences, FiniteSets

CONSTANTS
  Node, Roots,  \* what there is; directories that a client may ask for
  Kind,      \* of every node: "dir", "file", "link" or "other"
  Children,  \* of every directory: the nodes in it
  Target,    \* of every link: any node, or Nowhere
  Nowhere,
  MaxLinks,  \* links the kernel follows in one path (ELOOP); 40 in Linux
  MaxOpen,   \* directories that may be open at once (EMFILE)
  Unstable   \* of every root: nodes that may be deleted while it is scanned

ASSUME ScanAssumption ==
  /\ Roots \subseteq Node /\ {Nowhere, ".", ".."} \cap Node = {} /\ \A n \in Roots : Kind[n] = "dir"
  /\ Kind \in [Node -> {"dir", "file", "link", "other"}]
  /\ \A n \in Node : Kind[n] = "dir" => Children[n] \subseteq Node
  /\ \A n \in Node : Kind[n] = "link" => Target[n] \in Node \cup {Nowhere}
  /\ MaxLinks \in Nat /\ MaxOpen \in Nat
  /\ Unstable \in [Roots -> SUBSET (Node \ Roots)]

VARIABLES
  root,     \* the requested directory
  pc,       \* "stat", "read", "done", or "failed": the process has exited
  path,     \* argument of the call
  stack,    \* open directories: path, entries not yet read
  queued,   \* paths given to Server_Insert_Files_To_Queue
  present   \* nodes not deleted

vars == <<root, pc, path, stack, queued, present>>

Last(s) == s[Len(s)]
Top == Last(stack)
Below == SubSeq(stack, 1, Len(stack) - 1)
Dots == {".", ".."}

Init ==
  /\ root \in Roots /\ pc = "stat" /\ path = <<root>> /\ stack = <<>> /\ queued = <<>>
  /\ present = Node

-----------------------------------------------------------------------------
\* What stat(2) comes to from a node, link by link, and what it looks at.
IsLink(n) == n \in Node /\ Kind[n] = "link"
Hops ==
  [n \in Node |->
     LET hop[k \in 0 .. MaxLinks] ==
           IF k = 0 THEN n ELSE IF IsLink(hop[k - 1]) THEN Target[hop[k - 1]] ELSE hop[k - 1]
     IN  hop]
Follow(n) == Hops[n][MaxLinks]

\* Links are counted over the whole path; more than MaxLinks are refused, also
\* in a link that leads to itself.
Links(p) == Cardinality({h \in (DOMAIN p) \X (0 .. MaxLinks) : IsLink(Hops[p[h[1]]][h[2]])})
Resolves(p) ==
  /\ Links(p) <= MaxLinks
  /\ \A i \in DOMAIN p : p[i] \in present /\ \A k \in 0 .. MaxLinks : Hops[p[i]][k] \in present
KindOf(p) == Kind[Follow(Last(p))]

\* stat or opendir fails: Print_Error or exit, and the process is gone.
StatFails ==
  /\ pc = "stat"
  /\ Resolves(path) => KindOf(path) = "dir" /\ Len(stack) = MaxOpen
  /\ pc' = "failed"
  /\ UNCHANGED <<root, path, stack, queued, present>>

OpenDirectory ==
  /\ pc = "stat" /\ Resolves(path) /\ KindOf(path) = "dir" /\ Len(stack) < MaxOpen
  /\ stack' = Append(stack, [path |-> path,
                             left |-> Dots \cup (Children[Follow(Last(path))] \cap present)])
  /\ pc' = "read"
  /\ UNCHANGED <<root, path, queued, present>>

\* The call returns to its caller's loop, or the first call returns.
Return == pc' = IF stack = <<>> THEN "done" ELSE "read"

QueueFile ==
  /\ pc = "stat" /\ Resolves(path) /\ KindOf(path) = "file"
  /\ queued' = Append(queued, path)
  /\ Return
  /\ UNCHANGED <<root, path, stack, present>>

SkipOther ==
  /\ pc = "stat" /\ Resolves(path) /\ KindOf(path) = "other"
  /\ Return
  /\ UNCHANGED <<root, path, stack, queued, present>>

\* A faulty server that appends the name to the last path instead of curr_path.
ReadEntryKeepsPath ==
  /\ pc = "read"
  /\ \E n \in Top.left :
       /\ stack' = Append(Below, [Top EXCEPT !.left = @ \ {n}])
       /\ \/ (n \in Dots \/ n \notin present) /\ UNCHANGED <<pc, path>>
          \/ n \notin Dots /\ pc' = "stat" /\ path' = Append(path, n)
  /\ UNCHANGED <<root, queued, present>>

\* A faulty server whose loop skips . and .. with continue, before readdir.
ReadEntryContinues ==
  /\ pc = "read"
  /\ \E n \in Top.left :
       \/ n \in Dots /\ UNCHANGED <<pc, path, stack>>
       \/ /\ n \notin Dots
          /\ stack' = Append(Below, [Top EXCEPT !.left = @ \ {n}])
          /\ \/ n \notin present /\ UNCHANGED <<pc, path>>
             \/ pc' = "stat" /\ path' = Append(Top.path, n)
  /\ UNCHANGED <<root, queued, present>>

\* readdir, in any order; the directory itself and its parent are skipped.  A
\* deleted entry may be left out.
ReadEntry ==
  /\ pc = "read"
  /\ \E n \in Top.left :
       /\ stack' = Append(Below, [Top EXCEPT !.left = @ \ {n}])
       /\ \/ (n \in Dots \/ n \notin present) /\ UNCHANGED <<pc, path>>
          \/ n \notin Dots /\ pc' = "stat" /\ path' = Append(Top.path, n)
  /\ UNCHANGED <<root, queued, present>>

\* A faulty server whose inner call uses up the caller's DIR as well.
CloseDirectoryAndParent ==
  /\ pc = "read" /\ Top.left = {}
  /\ stack' = IF Below = <<>> THEN <<>>
              ELSE [Below EXCEPT ![Len(Below)].left = {}]
  /\ pc' = IF stack' = <<>> THEN "done" ELSE "read"
  /\ UNCHANGED <<root, path, queued, present>>

CloseDirectory ==
  /\ pc = "read" /\ Top.left = {}
  /\ stack' = Below
  /\ pc' = IF stack' = <<>> THEN "done" ELSE "read"
  /\ UNCHANGED <<root, path, queued, present>>

\* Somebody deletes a file, or a directory with what is in it.
Delete(n) ==
  /\ n \in Unstable[root] \cap present
  /\ pc \in {"stat", "read"}
  /\ present' = present \ ({n} \cup IF Kind[n] = "dir" THEN Children[n] ELSE {})
  /\ UNCHANGED <<root, pc, path, stack, queued>>

ScanStep == \/ StatFails \/ OpenDirectory \/ QueueFile \/ SkipOther
            \/ ReadEntry \/ CloseDirectory

Next == ScanStep \/ \E n \in Node : Delete(n)
Spec == Init /\ [][Next]_vars
FairSpec == Spec /\ WF_vars(ScanStep)

-----------------------------------------------------------------------------
\* The usual type invariant; the stack is a path to where the scan is.
TypeOK ==
  /\ root \in Roots /\ pc \in {"stat", "read", "done", "failed"}
  /\ path \in Seq(Node) /\ queued \in Seq(Seq(Node)) /\ present \subseteq Node
  /\ Len(stack) <= MaxOpen
  /\ \A i \in DOMAIN stack :
       /\ Len(stack[i].path) = i /\ stack[i].left \subseteq Dots \cup Node
       /\ i > 1 => SubSeq(stack[i].path, 1, i - 1) = stack[i - 1].path

\* Reference: the regular files below root, by paths of at most MaxOpen names
\* below it.
IsNode(p) == Follow(Last(p)) \in Node
Entries(p) == {Append(p, n) : n \in Children[Follow(Last(p))]}
PathsBelow[k \in 0 .. MaxOpen] ==
  IF k = 0 THEN {<<root>>}
  ELSE UNION {Entries(p) : p \in {q \in PathsBelow[k - 1] : IsNode(q) /\ KindOf(q) = "dir"}}
RegularFiles ==
  {p \in UNION {PathsBelow[k] : k \in 0 .. MaxOpen} : IsNode(p) /\ KindOf(p) = "file"}

\* A scan that ends has queued every regular file that is still there, at any
\* depth and through any links, once per path, and nothing else, in whatever
\* order readdir(3) works and whatever is deleted meanwhile (Server.c:167-228).
ScanComplete ==
  /\ \A i, j \in DOMAIN queued : i # j => queued[i] # queued[j]
  /\ \A i \in DOMAIN queued : queued[i] \in RegularFiles
  /\ pc = "done" =>
       \A p \in RegularFiles : Resolves(p) => \E i \in DOMAIN queued : queued[i] = p

\* The scan ends, even in a directory that contains itself: the kernel's limits
\* stop it (Server.c:167, 180, 208).
ScanEnds == <>(pc \in {"done", "failed"})
=============================================================================
