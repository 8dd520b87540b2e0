------------------------- MODULE DirectoryScanProofs --------------------------
(***************************************************************************)
(* For any directory, with links, deep or cyclic, and whatever is deleted  *)
(* from it meanwhile: a scan that ends has queued every regular file that  *)
(* is still there, once per path.                                          *)
(*                                                                         *)
(* The invariant tells which paths are still to come: those below the      *)
(* argument of the call, and those below an entry that an open directory   *)
(* has yet to return.  No queued path is among them, and each path of a    *)
(* file that can be reached is queued or among them.                       *)
(***************************************************************************)
EXTENDS DirectoryScan, SequenceTheorems, NumberSets

IsDir(n) == Follow(n) \in Node /\ Kind[Follow(n)] = "dir"
IsFile(n) == Follow(n) \in Node /\ Kind[Follow(n)] = "file"

\* p goes from directory r downwards.
IsPath(r, p) ==
  /\ p \in Seq(Node) /\ Len(p) # 0 /\ p[1] = r
  /\ \A i \in 1 .. Len(p) - 1 : IsDir(p[i]) /\ p[i + 1] \in Children[Follow(p[i])]

FilePath(r, p) == IsPath(r, p) /\ IsFile(p[Len(p)])

\* p begins with q.
Extends(p, q) == Len(q) <= Len(p) /\ \A i \in 1 .. Len(q) : p[i] = q[i]

\* p goes through an entry of the open directory d: one that is still to be
\* returned, or one that has been.
Ahead(p, d) ==
  Extends(p, d.path) /\ Len(d.path) < Len(p) /\ p[Len(d.path) + 1] \in d.left
Passed(p, d) ==
  Extends(p, d.path) /\ Len(d.path) < Len(p) /\ p[Len(d.path) + 1] \notin d.left

Depth == Len(stack)

ToCome(p) ==
  \/ pc = "stat" /\ Extends(p, path)
  \/ \E i \in 1 .. Depth : Ahead(p, stack[i])

OpenDirs == [path : Seq(Node), left : SUBSET (Dots \cup Node)]

Types ==
  /\ root \in Roots /\ pc \in {"stat", "read", "done", "failed"} /\ present \subseteq Node
  /\ path \in Seq(Node) /\ queued \in Seq(Seq(Node))
  /\ stack \in Seq(OpenDirs) /\ Depth <= MaxOpen

Level(r, d, i) ==
  /\ IsPath(r, d.path) /\ Len(d.path) = i /\ IsDir(d.path[i])
  /\ d.left \subseteq Dots \cup Children[Follow(d.path[i])]

\* Each open directory was found as an entry of the one below it.
StackInv ==
  /\ \A i \in 1 .. Depth : Level(root, stack[i], i)
  /\ \A i, j \in 1 .. Depth : i < j => Passed(stack[j].path, stack[i])

CallInv ==
  /\ pc = "stat" => /\ IsPath(root, path) /\ Len(path) = Depth + 1
                    /\ \A i \in 1 .. Depth : Passed(path, stack[i])
  /\ pc = "read" => Depth # 0
  /\ pc = "done" => Depth = 0

QueuedInv ==
  \A i \in 1 .. Len(queued) :
    /\ FilePath(root, queued[i]) /\ Len(queued[i]) <= MaxOpen + 1 /\ ~ToCome(queued[i])
    /\ \A j \in 1 .. Len(queued) : i # j => queued[i] # queued[j]

IsQueued(p) == \E i \in 1 .. Len(queued) : queued[i] = p

NoneMissed ==
  pc # "failed" => \A p : FilePath(root, p) /\ Resolves(p) => IsQueued(p) \/ ToCome(p)

ScanInv == Types /\ StackInv /\ CallInv /\ QueuedInv /\ NoneMissed

-----------------------------------------------------------------------------
(* Paths *)

LEMMA NodeFacts ==
  ASSUME NEW n \in Node, IsDir(n)
  PROVE  Children[Follow(n)] \subseteq Node
BY ScanAssumption DEF IsDir

LEMMA PathLen ==
  ASSUME NEW p \in Seq(Node)
  PROVE  Len(p) \in Nat /\ \A i \in 1 .. Len(p) : p[i] \in Node
BY LenProperties, ElementOfSeq

LEMMA ExtendsItself ==
  ASSUME NEW p \in Seq(Node)
  PROVE  Extends(p, p)
BY PathLen DEF Extends

LEMMA ExtendsTransitive ==
  ASSUME NEW p \in Seq(Node), NEW q \in Seq(Node), NEW r \in Seq(Node),
         Extends(p, q), Extends(q, r)
  PROVE  Extends(p, r)
<1>1. Len(p) \in Nat /\ Len(q) \in Nat /\ Len(r) \in Nat  BY PathLen
<1>2. Len(r) <= Len(q) /\ Len(q) <= Len(p)  BY DEF Extends
<1>3. Len(r) <= Len(p)  BY <1>1, <1>2
<1>4. ASSUME NEW i \in 1 .. Len(r)  PROVE p[i] = r[i]
  <2>1. i \in 1 .. Len(q)  BY <1>1, <1>2
  <2>2. p[i] = q[i] /\ q[i] = r[i]  BY <2>1 DEF Extends
  <2>3. QED  BY <2>2
<1>5. QED  BY <1>3, <1>4 DEF Extends

LEMMA ExtendsEqual ==
  ASSUME NEW p \in Seq(Node), NEW q \in Seq(Node), Extends(p, q), Len(p) <= Len(q)
  PROVE  p = q
<1>1. Len(p) = Len(q)  BY PathLen DEF Extends
<1>2. QED  BY <1>1, SeqEqual DEF Extends

\* What goes through another path goes through what that went through.
LEMMA PassedToo ==
  ASSUME NEW p \in Seq(Node), NEW q \in Seq(Node), NEW d \in OpenDirs, Extends(p, q)
  PROVE  /\ Passed(q, d) => Passed(p, d)
         /\ Ahead(q, d) => Ahead(p, d)
<1> SUFFICES ASSUME Extends(q, d.path), Len(d.path) < Len(q)
             PROVE  /\ Extends(p, d.path) /\ Len(d.path) < Len(p)
                    /\ p[Len(d.path) + 1] = q[Len(d.path) + 1]
  BY DEF Passed, Ahead
<1>1. d.path \in Seq(Node)  BY DEF OpenDirs
<1>2. Len(p) \in Nat /\ Len(q) \in Nat /\ Len(d.path) \in Nat  BY <1>1, PathLen
<1>3. Len(d.path) + 1 \in 1 .. Len(q) /\ Len(q) <= Len(p)  BY <1>2 DEF Extends
<1>4. p[Len(d.path) + 1] = q[Len(d.path) + 1]  BY <1>3 DEF Extends
<1>5. Len(d.path) < Len(p)  BY <1>2, <1>3
<1>6. QED  BY <1>1, <1>4, <1>5, ExtendsTransitive

\* A file has nothing below it, and what is below a directory is in it.
LEMMA BelowPath ==
  ASSUME NEW r, NEW p, NEW q, IsPath(r, p), IsPath(r, q), Extends(p, q), p # q
  PROVE  /\ Len(q) < Len(p) /\ IsDir(q[Len(q)])
         /\ p[Len(q) + 1] \in Children[Follow(q[Len(q)])]
<1>1. p \in Seq(Node) /\ q \in Seq(Node) /\ Len(q) # 0  BY DEF IsPath
<1>2. PICK l \in Nat : l = Len(q)  BY <1>1, PathLen
<1>3. PICK k \in Nat : k = Len(p)  BY <1>1, PathLen
<1>4. l < k  BY <1>1, <1>2, <1>3, ExtendsEqual
<1>5. l \in 1 .. Len(p) - 1 /\ l \in 1 .. Len(q)  BY <1>1, <1>2, <1>3, <1>4
<1>6. IsDir(p[l]) /\ p[l + 1] \in Children[Follow(p[l])]  BY <1>5 DEF IsPath
<1>7. p[l] = q[l]  BY <1>5 DEF Extends
<1>8. QED  BY <1>2, <1>3, <1>4, <1>6, <1>7

\* One more entry.
LEMMA LongerPath ==
  ASSUME NEW r, NEW q, NEW n, IsPath(r, q), IsDir(q[Len(q)]), n \in Children[Follow(q[Len(q)])]
  PROVE  /\ IsPath(r, Append(q, n)) /\ Len(Append(q, n)) = Len(q) + 1
         /\ Extends(Append(q, n), q) /\ Append(q, n)[Len(q) + 1] = n
         /\ \A p \in Seq(Node) :
              Extends(p, Append(q, n)) <=> Extends(p, q) /\ Len(q) < Len(p) /\ p[Len(q) + 1] = n
<1>1. q \in Seq(Node) /\ Len(q) # 0 /\ q[1] = r  BY DEF IsPath
<1>2. PICK l \in Nat : l = Len(q)  BY <1>1, PathLen
<1>3. l # 0 /\ l \in 1 .. Len(q)  BY <1>1, <1>2
<1>4. n \in Node  BY <1>1, <1>2, <1>3, PathLen, NodeFacts
<1> DEFINE t == Append(q, n)
<1>5. /\ t \in Seq(Node) /\ Len(t) = l + 1 /\ t[l + 1] = n
      /\ \A i \in 1 .. l : t[i] = q[i]
  BY <1>1, <1>2, <1>4, AppendProperties
<1> HIDE DEF t
<1>6. IsPath(r, t)
  <2>1. t[1] = r /\ Len(t) # 0  BY <1>1, <1>2, <1>3, <1>5
  <2>2. ASSUME NEW i \in 1 .. Len(t) - 1  PROVE IsDir(t[i]) /\ t[i + 1] \in Children[Follow(t[i])]
    <3>1. i \in 1 .. l  BY <1>5
    <3>2. CASE i = l  BY <1>2, <1>3, <1>5, <3>2
    <3>3. CASE i # l
      <4>1. i \in 1 .. Len(q) - 1 /\ i + 1 \in 1 .. l  BY <1>2, <3>1, <3>3
      <4>2. IsDir(q[i]) /\ q[i + 1] \in Children[Follow(q[i])]  BY <4>1 DEF IsPath
      <4>3. QED  BY <1>5, <3>1, <4>1, <4>2
    <3>4. QED  BY <3>2, <3>3
  <2>3. QED  BY <1>5, <2>1, <2>2 DEF IsPath
<1>7. Extends(t, q)  BY <1>2, <1>5 DEF Extends
<1>8. ASSUME NEW p \in Seq(Node)
      PROVE  Extends(p, t) <=> Extends(p, q) /\ Len(q) < Len(p) /\ p[Len(q) + 1] = n
  <2>1. PICK k \in Nat : k = Len(p)  BY PathLen
  <2>2. 1 .. l + 1 = (1 .. l) \cup {l + 1} /\ l + 1 \in 1 .. l + 1  BY <1>2
  <2>3. l + 1 <= k <=> l < k  BY <1>2, <2>1
  <2>4. QED  BY <1>2, <1>5, <2>1, <2>2, <2>3 DEF Extends
<1>9. QED  BY <1>2, <1>5, <1>6, <1>7, <1>8 DEF t

\* The beginning of a path.
LEMMA Beginning ==
  ASSUME NEW p \in Seq(Node), NEW k \in Nat, k <= Len(p)
  PROVE  \E s \in Seq(Node) :
           s = SubSeq(p, 1, k) /\ Len(s) = k /\ \A j \in 1 .. k : s[j] = p[j]
<1>1. PICK l \in Nat : l = Len(p)  BY PathLen
<1>2. \A i \in 1 .. k : p[i] \in Node  BY <1>1, PathLen
<1>3. /\ SubSeq(p, 1, k) \in Seq(Node)
      /\ Len(SubSeq(p, 1, k)) = IF 1 <= k THEN k - 1 + 1 ELSE 0
      /\ \A i \in 1 .. k - 1 + 1 : SubSeq(p, 1, k)[i] = p[1 + i - 1]
  BY <1>2, SubSeqProperties
<1>4. PICK s : s = SubSeq(p, 1, k)  OBVIOUS
<1>5. s \in Seq(Node) /\ Len(s) = k /\ \A j \in 1 .. k : s[j] = p[j]
  <2>1. k - 1 + 1 = k /\ \A j \in 1 .. k : 1 + j - 1 = j  OBVIOUS
  <2>2. 1 <= k \/ k = 0  OBVIOUS
  <2>3. QED  BY <1>3, <1>4, <2>1, <2>2
<1>6. QED  BY <1>4, <1>5

-----------------------------------------------------------------------------
(* What a step leaves alone *)

LEMMA StackShrinks ==
  ASSUME StackInv, UNCHANGED root, Depth \in Nat, Depth' \in Nat, Depth' <= Depth,
         \A i \in 1 .. Depth' : stack'[i].path = stack[i].path /\ stack'[i].left \subseteq stack[i].left
  PROVE  /\ StackInv'
         /\ \A p : \A i \in 1 .. Depth' :
              /\ Passed(p, stack[i]) => Passed(p, stack'[i])
              /\ Ahead(p, stack'[i]) => Ahead(p, stack[i])
<1>1. \A i \in 1 .. Depth' : i \in 1 .. Depth  OBVIOUS
<1>2. \A p : \A i \in 1 .. Depth' :
        /\ Passed(p, stack[i]) => Passed(p, stack'[i])
        /\ Ahead(p, stack'[i]) => Ahead(p, stack[i])
  BY DEF Passed, Ahead
<1>3. ASSUME NEW i \in 1 .. Depth'  PROVE Level(root', stack'[i], i)
  <2>1. Level(root, stack[i], i)  BY <1>1 DEF StackInv
  <2>2. QED  BY <2>1 DEF Level
<1>4. ASSUME NEW i \in 1 .. Depth', NEW j \in 1 .. Depth', i < j
      PROVE  Passed(stack'[j].path, stack'[i])
  <2>1. Passed(stack[j].path, stack[i])  BY <1>1, <1>4 DEF StackInv
  <2>2. QED  BY <1>2, <2>1
<1>5. QED  BY <1>2, <1>3, <1>4 DEF StackInv

LEMMA QueuedKept ==
  ASSUME QueuedInv, UNCHANGED <<root, queued>>, \A p \in Seq(Node) : ToCome(p)' => ToCome(p)
  PROVE  QueuedInv'
<1>1. ASSUME NEW i \in 1 .. Len(queued)
      PROVE  /\ FilePath(root, queued[i]) /\ Len(queued[i]) <= MaxOpen + 1 /\ ~ToCome(queued[i])'
             /\ \A j \in 1 .. Len(queued) : i # j => queued[i] # queued[j]
  <2>1. /\ FilePath(root, queued[i]) /\ Len(queued[i]) <= MaxOpen + 1 /\ ~ToCome(queued[i])
        /\ \A j \in 1 .. Len(queued) : i # j => queued[i] # queued[j]
    BY DEF QueuedInv
  <2>2. PICK p \in Seq(Node) : p = queued[i]  BY <2>1 DEF FilePath, IsPath
  <2>3. ~ToCome(p)'  BY <2>1, <2>2
  <2>4. queued'[i] = p  BY <2>2
  <2>5. ~ToCome(queued[i])'  BY <2>3, <2>4 DEF ToCome
  <2>6. QED  BY <2>1, <2>5
<1>2. QED  BY <1>1 DEF QueuedInv, ToCome

LEMMA StillResolves ==
  ASSUME NEW p, present' \subseteq present, Resolves(p)'
  PROVE  Resolves(p)
BY DEF Resolves

LEMMA MissedKept ==
  ASSUME NoneMissed, pc # "failed", UNCHANGED <<root, queued>>, present' \subseteq present,
         \A p : FilePath(root, p) /\ Resolves(p) /\ ToCome(p) => ToCome(p)'
  PROVE  NoneMissed'
<1>1. ASSUME NEW p, FilePath(root, p), Resolves(p)'  PROVE IsQueued(p)' \/ ToCome(p)'
  <2>1. Resolves(p)  BY <1>1, StillResolves
  <2>2. IsQueued(p) \/ ToCome(p)  BY <1>1, <2>1 DEF NoneMissed
  <2>3. IsQueued(p) => IsQueued(p)'  BY DEF IsQueued
  <2>4. QED  BY <1>1, <2>1, <2>2, <2>3
<1>2. QED  BY <1>1 DEF NoneMissed

LEMMA ResolvesAt ==
  ASSUME NEW p \in Seq(Node), Resolves(p), present \subseteq Node, NEW i \in 1 .. Len(p)
  PROVE  p[i] \in present /\ Follow(p[i]) \in present /\ Follow(p[i]) \in Node
<1>1. DOMAIN p = 1 .. Len(p)  BY LenProperties
<1>2. p[i] \in present /\ \A k \in 0 .. MaxLinks : Hops[p[i]][k] \in present
  BY <1>1 DEF Resolves
<1>3. MaxLinks \in 0 .. MaxLinks  BY ScanAssumption
<1>4. QED  BY <1>2, <1>3 DEF Follow

\* The kind of the argument of the call.
LEMMA Argument ==
  ASSUME ScanInv, pc = "stat", Resolves(path)
  PROVE  /\ KindOf(path) = "dir" <=> IsDir(path[Depth + 1])
         /\ KindOf(path) = "file" <=> IsFile(path[Depth + 1])
         /\ Len(path) = Depth + 1 /\ Depth \in Nat /\ Depth <= MaxOpen
         /\ path \in Seq(Node) /\ IsPath(root, path)
<1>1. path \in Seq(Node) /\ present \subseteq Node /\ stack \in Seq(OpenDirs) /\ Depth <= MaxOpen
  BY DEF ScanInv, Types
<1>2. Depth \in Nat  BY <1>1, LenProperties DEF Depth
<1>3. IsPath(root, path) /\ Len(path) = Depth + 1  BY DEF ScanInv, CallInv
<1>4. Depth + 1 \in 1 .. Len(path)  BY <1>2, <1>3
<1>5. Follow(path[Depth + 1]) \in Node  BY <1>1, <1>4, ResolvesAt
<1>6. QED  BY <1>1, <1>2, <1>3, <1>5 DEF KindOf, Last, IsDir, IsFile

-----------------------------------------------------------------------------
(* Steps *)

LEMMA OpenDirectoryStep ==
  ASSUME ScanInv, OpenDirectory
  PROVE  ScanInv'
<1> DEFINE n == Depth
           d == [path |-> path, left |-> Dots \cup (Children[Follow(Last(path))] \cap present)]
<1>1. /\ pc = "stat" /\ Resolves(path) /\ KindOf(path) = "dir" /\ n < MaxOpen
      /\ stack' = Append(stack, d) /\ pc' = "read" /\ UNCHANGED <<root, path, queued, present>>
  BY DEF OpenDirectory, Depth
<1>2. /\ IsDir(path[n + 1]) /\ Len(path) = n + 1 /\ n \in Nat
      /\ path \in Seq(Node) /\ IsPath(root, path)
  BY <1>1, Argument
<1>3. /\ Types /\ StackInv /\ CallInv /\ QueuedInv /\ NoneMissed /\ present \subseteq Node
      /\ stack \in Seq(OpenDirs)
  BY DEF ScanInv, Types
<1>4. Last(path) = path[n + 1] /\ path[n + 1] \in Node
  <2>1. n + 1 \in 1 .. Len(path)  BY <1>2
  <2>2. QED  BY <1>2, <2>1, PathLen DEF Last
<1>5. Children[Follow(path[n + 1])] \subseteq Node  BY <1>2, <1>4, NodeFacts
<1>6. d \in OpenDirs /\ d.path = path /\ d.left = Dots \cup (Children[Follow(path[n + 1])] \cap present)
  BY <1>2, <1>4, <1>5 DEF OpenDirs
<1> HIDE DEF d, n
<1>7. /\ stack' \in Seq(OpenDirs) /\ Depth' = n + 1 /\ stack'[n + 1] = d
      /\ \A i \in 1 .. n : stack'[i] = stack[i]
  BY <1>1, <1>3, <1>6, AppendProperties DEF n, Depth
<1>8. \A i \in 1 .. n + 1 : i \in 1 .. n \/ i = n + 1  BY <1>2
<1>9. Types'
  <2>1. n + 1 <= MaxOpen  BY <1>1, <1>2, ScanAssumption
  <2>2. QED  BY <1>1, <1>3, <1>7, <2>1 DEF Types
<1>10. StackInv'
  <2>1. Level(root, d, n + 1)  BY <1>2, <1>6 DEF Level
  <2>2. \A i \in 1 .. n : Level(root, stack[i], i) /\ Passed(path, stack[i])
    BY <1>1, <1>3 DEF StackInv, CallInv, n
  <2>3. \A i, j \in 1 .. n : i < j => Passed(stack[j].path, stack[i])
    BY <1>3 DEF StackInv, n
  <2>4. \A i \in 1 .. n + 1 : Level(root, stack'[i], i)  BY <1>7, <1>8, <2>1, <2>2
  <2>5. ASSUME NEW i \in 1 .. n + 1, NEW j \in 1 .. n + 1, i < j
        PROVE  Passed(stack'[j].path, stack'[i])
    <3>1. i \in 1 .. n  BY <1>2, <2>5
    <3>2. CASE j \in 1 .. n  BY <1>7, <2>3, <2>5, <3>1, <3>2
    <3>3. CASE j = n + 1  BY <1>6, <1>7, <2>2, <3>1, <3>3
    <3>4. QED  BY <1>8, <3>2, <3>3
  <2>6. QED  BY <1>1, <1>7, <2>4, <2>5 DEF StackInv
<1>11. CallInv'
  <2>1. n + 1 # 0  BY <1>2
  <2>2. QED  BY <1>1, <1>7, <2>1 DEF CallInv
<1>12. QueuedInv'
  <2>1. ASSUME NEW p \in Seq(Node), ToCome(p)'  PROVE ToCome(p)
    <3>1. PICK i \in 1 .. n + 1 : Ahead(p, stack'[i])  BY <1>1, <1>7, <2>1 DEF ToCome
    <3>2. CASE i \in 1 .. n  BY <1>7, <3>1, <3>2 DEF ToCome, n
    <3>3. CASE i = n + 1  BY <1>1, <1>6, <1>7, <3>1, <3>3 DEF ToCome, Ahead
    <3>4. QED  BY <1>8, <3>2, <3>3
  <2>2. QED  BY <1>1, <1>3, <2>1, QueuedKept
<1>13. NoneMissed'
  <2>1. ASSUME NEW p, FilePath(root, p), Resolves(p), ToCome(p)  PROVE ToCome(p)'
    <3>1. CASE Extends(p, path)
      <4>1. p # path  BY <1>2, <2>1 DEF FilePath, IsFile, IsDir
      <4>2. IsPath(root, p) /\ p \in Seq(Node)  BY <2>1 DEF FilePath, IsPath
      <4>3. n + 1 < Len(p) /\ p[n + 1 + 1] \in Children[Follow(path[n + 1])]
        BY <1>2, <3>1, <4>1, <4>2, BelowPath
      <4>4. n + 1 + 1 \in 1 .. Len(p)  BY <1>2, <4>2, <4>3, PathLen
      <4>5. p[n + 1 + 1] \in present  BY <1>3, <2>1, <4>2, <4>4, ResolvesAt
      <4>6. Ahead(p, d)  BY <1>2, <1>6, <3>1, <4>3, <4>5 DEF Ahead
      <4>7. n + 1 \in 1 .. n + 1  BY <1>2
      <4>8. QED  BY <1>7, <4>6, <4>7 DEF ToCome
    <3>2. CASE \E i \in 1 .. n : Ahead(p, stack[i])
      BY <1>2, <1>7, <3>2 DEF ToCome
    <3>3. QED  BY <2>1, <3>1, <3>2 DEF ToCome, n
  <2>2. QED  BY <1>1, <1>3, <2>1, MissedKept
<1>14. QED  BY <1>9, <1>10, <1>11, <1>12, <1>13 DEF ScanInv

\* Nothing is below a path that is no directory.
LEMMA NothingBelow ==
  ASSUME ScanInv, pc = "stat", Resolves(path), KindOf(path) # "dir",
         NEW p, FilePath(root, p), Extends(p, path)
  PROVE  p = path /\ KindOf(path) = "file"
<1>1. /\ ~IsDir(path[Depth + 1]) /\ Len(path) = Depth + 1 /\ IsPath(root, path)
      /\ KindOf(path) = "file" <=> IsFile(path[Depth + 1])
  BY Argument
<1>2. IsPath(root, p)  BY DEF FilePath
<1>3. p = path  BY <1>1, <1>2, BelowPath
<1>4. QED  BY <1>1, <1>3 DEF FilePath

\* The call returns: what was below its argument is dealt with.
LEMMA ReturnKeeps ==
  ASSUME ScanInv, pc = "stat", Return, UNCHANGED <<root, path, stack, present>>, queued' \in Seq(Seq(Node))
  PROVE  /\ Types' /\ StackInv' /\ CallInv'
         /\ \A p : ToCome(p)' <=> \E i \in 1 .. Depth : Ahead(p, stack[i])
<1>1. Types /\ StackInv /\ CallInv  BY DEF ScanInv
<1>2. Depth \in Nat /\ (stack = <<>> <=> Depth = 0)
  <2>1. stack \in Seq(OpenDirs)  BY <1>1 DEF Types
  <2>2. QED  BY <2>1, LenProperties, EmptySeq DEF Depth
<1>3. pc' = IF stack = <<>> THEN "done" ELSE "read"  BY DEF Return
<1>4. Depth' = Depth  BY DEF Depth
<1>5. Types'  BY <1>1, <1>3, <1>4 DEF Types
<1>6. StackInv'  BY <1>1, <1>4 DEF StackInv
<1>7. CallInv'  BY <1>2, <1>3, <1>4 DEF CallInv
<1>8. \A p : ToCome(p)' <=> \E i \in 1 .. Depth : Ahead(p, stack[i])
  BY <1>3, <1>4 DEF ToCome
<1>9. QED  BY <1>5, <1>6, <1>7, <1>8

LEMMA QueueFileStep ==
  ASSUME ScanInv, QueueFile
  PROVE  ScanInv'
<1> DEFINE k == Len(queued)
<1>1. /\ pc = "stat" /\ Resolves(path) /\ KindOf(path) = "file" /\ queued' = Append(queued, path)
      /\ Return /\ UNCHANGED <<root, path, stack, present>>
  BY DEF QueueFile
<1>2. /\ Len(path) = Depth + 1 /\ Depth \in Nat /\ Depth <= MaxOpen /\ IsPath(root, path)
      /\ path \in Seq(Node) /\ IsFile(path[Depth + 1])
  BY <1>1, Argument
<1>3. /\ queued \in Seq(Seq(Node)) /\ QueuedInv /\ CallInv /\ NoneMissed
  BY DEF ScanInv, Types
<1>4. /\ queued' \in Seq(Seq(Node)) /\ Len(queued') = k + 1 /\ queued'[k + 1] = path
      /\ \A i \in 1 .. k : queued'[i] = queued[i]
  BY <1>1, <1>2, <1>3, AppendProperties
<1>5. k \in Nat  BY <1>3, LenProperties
<1> HIDE DEF k
<1>6. /\ Types' /\ StackInv' /\ CallInv'
      /\ \A p : ToCome(p)' <=> \E i \in 1 .. Depth : Ahead(p, stack[i])
  BY <1>1, <1>4, ReturnKeeps
<1>7. FilePath(root, path) /\ Len(path) <= MaxOpen + 1
  <2>1. Depth + 1 <= MaxOpen + 1  BY <1>2, ScanAssumption
  <2>2. QED  BY <1>2, <2>1 DEF FilePath
<1>8. PICK q \in Seq(Node) : q = path  BY <1>2
<1>9. ~ToCome(q)'
  <2>1. \A i \in 1 .. Depth : Passed(path, stack[i])  BY <1>1, <1>3 DEF CallInv
  <2>2. \A i \in 1 .. Depth : ~Ahead(path, stack[i])  BY <2>1 DEF Passed, Ahead
  <2>3. QED  BY <1>6, <1>8, <2>2
<1>10. ToCome(q)  BY <1>1, <1>2, <1>8, ExtendsItself DEF ToCome
<1>11. ASSUME NEW i \in 1 .. k
       PROVE  /\ FilePath(root, queued[i]) /\ Len(queued[i]) <= MaxOpen + 1 /\ queued[i] # q
              /\ \A j \in 1 .. k : i # j => queued[i] # queued[j]
              /\ \A p : p = queued[i] => ~ToCome(p)'
  <2>1. /\ FilePath(root, queued[i]) /\ Len(queued[i]) <= MaxOpen + 1 /\ ~ToCome(queued[i])
        /\ \A j \in 1 .. k : i # j => queued[i] # queued[j]
    BY <1>3 DEF QueuedInv, k
  <2>2. queued[i] # q  BY <1>10, <2>1 DEF ToCome
  <2>3. ASSUME NEW p, p = queued[i]  PROVE ~ToCome(p)'
    <3>1. ~ToCome(p)  BY <2>1, <2>3 DEF ToCome
    <3>2. QED  BY <1>6, <3>1 DEF ToCome
  <2>4. QED  BY <2>1, <2>2, <2>3
<1>12. QueuedInv'
  <2>1. \A i \in 1 .. k + 1 : i \in 1 .. k \/ i = k + 1  BY <1>5
  <2>2. ASSUME NEW i \in 1 .. k + 1
        PROVE  /\ FilePath(root, queued'[i]) /\ Len(queued'[i]) <= MaxOpen + 1
               /\ \A p : p = queued'[i] => ~ToCome(p)'
               /\ \A j \in 1 .. k + 1 : i # j => queued'[i] # queued'[j]
    <3>1. CASE i \in 1 .. k  BY <1>4, <1>8, <1>11, <2>1, <3>1
    <3>2. CASE i = k + 1
      <4>1. queued'[i] = q  BY <1>4, <1>8, <3>2
      <4>2. \A j \in 1 .. k : queued'[j] # q  BY <1>4, <1>11
      <4>3. \A p : p = queued'[i] => ~ToCome(p)'  BY <1>9, <4>1
      <4>4. QED  BY <1>7, <1>8, <2>1, <3>2, <4>1, <4>2, <4>3
    <3>3. QED  BY <2>1, <3>1, <3>2
  <2>3. ASSUME NEW i \in 1 .. k + 1  PROVE ~ToCome(queued[i])'
    <3>1. PICK p : p = queued'[i]  OBVIOUS
    <3>2. ~ToCome(p)'  BY <2>2, <3>1
    <3>3. QED  BY <3>1, <3>2 DEF ToCome
  <2>4. QED  BY <1>1, <1>4, <2>2, <2>3 DEF QueuedInv
<1>13. NoneMissed'
  <2>1. ASSUME NEW p, FilePath(root, p), Resolves(p)'  PROVE IsQueued(p)' \/ ToCome(p)'
    <3>1. Resolves(p)  BY <1>1, <2>1, StillResolves
    <3>2. CASE IsQueued(p)
      <4>1. PICK i \in 1 .. k : queued[i] = p  BY <3>2 DEF IsQueued, k
      <4>2. i \in 1 .. k + 1 /\ queued'[i] = p  BY <1>4, <1>5, <4>1
      <4>3. QED  BY <1>4, <4>2 DEF IsQueued
    <3>3. CASE Extends(p, path)
      <4>1. p = path  BY <1>1, <2>1, <3>3, NothingBelow
      <4>2. k + 1 \in 1 .. k + 1  BY <1>5
      <4>3. QED  BY <1>4, <4>1, <4>2 DEF IsQueued
    <3>4. CASE \E i \in 1 .. Depth : Ahead(p, stack[i])  BY <1>6, <3>4
    <3>5. QED  BY <1>1, <1>3, <2>1, <3>1, <3>2, <3>3, <3>4 DEF NoneMissed, ToCome
  <2>2. QED  BY <1>1, <2>1 DEF NoneMissed
<1>14. QED  BY <1>6, <1>12, <1>13 DEF ScanInv

LEMMA SkipOtherStep ==
  ASSUME ScanInv, SkipOther
  PROVE  ScanInv'
<1>1. /\ pc = "stat" /\ Resolves(path) /\ KindOf(path) = "other"
      /\ Return /\ UNCHANGED <<root, path, stack, queued, present>>
  BY DEF SkipOther
<1>2. queued \in Seq(Seq(Node)) /\ QueuedInv /\ NoneMissed  BY DEF ScanInv, Types
<1>3. /\ Types' /\ StackInv' /\ CallInv'
      /\ \A p : ToCome(p)' <=> \E i \in 1 .. Depth : Ahead(p, stack[i])
  BY <1>1, <1>2, ReturnKeeps
<1>4. QueuedInv'
  <2>1. \A p \in Seq(Node) : ToCome(p)' => ToCome(p)  BY <1>3 DEF ToCome
  <2>2. QED  BY <1>1, <1>2, <2>1, QueuedKept
<1>5. NoneMissed'
  <2>1. ASSUME NEW p, FilePath(root, p), Resolves(p), ToCome(p)  PROVE ToCome(p)'
    <3>1. ~Extends(p, path)  BY <1>1, <2>1, NothingBelow
    <3>2. QED  BY <1>3, <2>1, <3>1 DEF ToCome
  <2>2. QED  BY <1>1, <1>2, <2>1, MissedKept
<1>6. QED  BY <1>3, <1>4, <1>5 DEF ScanInv

LEMMA StatFailsStep ==
  ASSUME ScanInv, StatFails
  PROVE  ScanInv'
<1>1. pc' = "failed" /\ UNCHANGED <<root, path, stack, queued, present>>  BY DEF StatFails
<1>2. Types /\ StackInv /\ QueuedInv  BY DEF ScanInv
<1>3. Depth' = Depth  BY <1>1 DEF Depth
<1>4. Types' /\ StackInv' /\ CallInv' /\ NoneMissed'
  BY <1>1, <1>2, <1>3 DEF Types, StackInv, CallInv, NoneMissed
<1>5. \A p \in Seq(Node) : ToCome(p)' => ToCome(p)  BY <1>1, <1>3 DEF ToCome
<1>6. QueuedInv'  BY <1>1, <1>2, <1>5, QueuedKept
<1>7. QED  BY <1>4, <1>6 DEF ScanInv

LEMMA DeleteStep ==
  ASSUME ScanInv, NEW n \in Node, Delete(n)
  PROVE  ScanInv'
<1>1. /\ pc \in {"stat", "read"} /\ present' \subseteq present
      /\ UNCHANGED <<root, pc, path, stack, queued>>
  BY DEF Delete
<1>2. Types /\ StackInv /\ CallInv /\ QueuedInv /\ NoneMissed  BY DEF ScanInv
<1>3. Depth' = Depth /\ \A p : ToCome(p)' <=> ToCome(p)  BY <1>1 DEF Depth, ToCome
<1>4. Types' /\ StackInv' /\ CallInv'
  BY <1>1, <1>2, <1>3 DEF Types, StackInv, CallInv
<1>5. QueuedInv'  BY <1>1, <1>2, <1>3, QueuedKept
<1>6. NoneMissed'  BY <1>1, <1>2, <1>3, MissedKept
<1>7. QED  BY <1>4, <1>5, <1>6 DEF ScanInv

\* The stack without its top, and with another record on top.
LEMMA StackFacts ==
  ASSUME stack \in Seq(OpenDirs), Depth # 0
  PROVE  /\ Depth \in Nat /\ Below \in Seq(OpenDirs) /\ Len(Below) = Depth - 1
         /\ \A i \in 1 .. Depth - 1 : Below[i] = stack[i]
         /\ Top = stack[Depth] /\ stack[Depth] \in OpenDirs
         /\ \A d \in OpenDirs :
              /\ Append(Below, d) \in Seq(OpenDirs) /\ Len(Append(Below, d)) = Depth
              /\ Append(Below, d)[Depth] = d
              /\ \A i \in 1 .. Depth - 1 : Append(Below, d)[i] = stack[i]
<1> DEFINE n == Depth
<1>1. n \in Nat /\ n # 0 /\ n = Len(stack) /\ \A i \in 1 .. n : stack[i] \in OpenDirs
  BY LenProperties, ElementOfSeq DEF Depth
<1> HIDE DEF n
<1>2. PICK k \in Nat : k = n - 1  BY <1>1
<1>3. \A i \in 1 .. k : stack[i] \in OpenDirs  BY <1>1, <1>2
<1>4. /\ SubSeq(stack, 1, k) \in Seq(OpenDirs)
      /\ Len(SubSeq(stack, 1, k)) = IF 1 <= k THEN k - 1 + 1 ELSE 0
      /\ \A i \in 1 .. k - 1 + 1 : SubSeq(stack, 1, k)[i] = stack[1 + i - 1]
  BY <1>2, <1>3, SubSeqProperties
<1>5. /\ SubSeq(stack, 1, k) \in Seq(OpenDirs) /\ Len(SubSeq(stack, 1, k)) = k
      /\ \A i \in 1 .. k : SubSeq(stack, 1, k)[i] = stack[i]
  BY <1>2, <1>4
<1>6. Below = SubSeq(stack, 1, k)  BY <1>1, <1>2 DEF Below
<1>7. Below \in Seq(OpenDirs) /\ Len(Below) = k /\ \A i \in 1 .. k : Below[i] = stack[i]
  BY <1>5, <1>6
<1> HIDE DEF Below
<1>8. ASSUME NEW d \in OpenDirs
      PROVE  /\ Append(Below, d) \in Seq(OpenDirs) /\ Len(Append(Below, d)) = k + 1
             /\ Append(Below, d)[k + 1] = d
             /\ \A i \in 1 .. k : Append(Below, d)[i] = stack[i]
  BY <1>7, AppendProperties
<1>9. k + 1 = n /\ n \in 1 .. n  BY <1>1, <1>2
<1>10. QED  BY <1>1, <1>2, <1>7, <1>8, <1>9 DEF n, Top, Last, Depth

LEMMA OneLess ==
  ASSUME NEW t \in OpenDirs, NEW e
  PROVE  \E d \in OpenDirs :
           d = [t EXCEPT !.left = @ \ {e}] /\ d.path = t.path /\ d.left = t.left \ {e}
<1>1. PICK P : P = Seq(Node)  OBVIOUS
<1>2. PICK L : L = SUBSET (Dots \cup Node)  OBVIOUS
<1>3. t \in [path : P, left : L]  BY <1>1, <1>2 DEF OpenDirs
<1>4. t.left \ {e} \in L  BY <1>2, <1>3
<1>5. /\ [t EXCEPT !.left = @ \ {e}] \in [path : P, left : L]
      /\ [t EXCEPT !.left = @ \ {e}].path = t.path
      /\ [t EXCEPT !.left = @ \ {e}].left = t.left \ {e}
  BY <1>3, <1>4
<1>6. QED  BY <1>1, <1>2, <1>5 DEF OpenDirs

LEMMA CloseDirectoryStep ==
  ASSUME ScanInv, CloseDirectory
  PROVE  ScanInv'
<1>1. /\ pc = "read" /\ Top.left = {} /\ stack' = Below
      /\ pc' = (IF stack' = <<>> THEN "done" ELSE "read") /\ UNCHANGED <<root, path, queued, present>>
  BY DEF CloseDirectory
<1>2. Types /\ StackInv /\ CallInv /\ QueuedInv /\ NoneMissed  BY DEF ScanInv
<1>3. stack \in Seq(OpenDirs) /\ Depth # 0 /\ Depth <= MaxOpen  BY <1>1, <1>2 DEF Types, CallInv
<1>4. PICK n \in Nat : n = Depth /\ n # 0  BY <1>3, StackFacts
<1>5. /\ stack' \in Seq(OpenDirs) /\ Depth' = n - 1 /\ \A i \in 1 .. n - 1 : stack'[i] = stack[i]
  BY <1>1, <1>3, <1>4, StackFacts DEF Depth
<1>6. stack' = <<>> <=> n - 1 = 0  BY <1>4, <1>5, EmptySeq DEF Depth
<1>7. n - 1 \in Nat /\ n - 1 <= n /\ n - 1 <= MaxOpen  BY <1>3, <1>4, ScanAssumption
<1>8. StackInv'
  <2>1. \A i \in 1 .. Depth' : stack'[i].path = stack[i].path /\ stack'[i].left \subseteq stack[i].left
    BY <1>5
  <2>2. Depth \in Nat /\ Depth' \in Nat /\ Depth' <= Depth  BY <1>4, <1>5, <1>7
  <2>3. QED  BY <1>1, <1>2, <2>1, <2>2, StackShrinks
<1>9. Types'  BY <1>1, <1>2, <1>5, <1>7 DEF Types
<1>10. CallInv'  BY <1>1, <1>5, <1>6 DEF CallInv
<1>11. \A p : ToCome(p)' <=> \E i \in 1 .. n - 1 : Ahead(p, stack[i])  BY <1>1, <1>5 DEF ToCome
<1>12. QueuedInv'
  <2>1. ASSUME NEW p \in Seq(Node), ToCome(p)'  PROVE ToCome(p)
    <3>1. PICK i \in 1 .. n - 1 : Ahead(p, stack[i])  BY <1>11, <2>1
    <3>2. i \in 1 .. Depth  BY <1>4
    <3>3. QED  BY <3>1, <3>2 DEF ToCome
  <2>2. QED  BY <1>1, <1>2, <2>1, QueuedKept
<1>13. NoneMissed'
  <2>1. ASSUME NEW p, FilePath(root, p), Resolves(p), ToCome(p)  PROVE ToCome(p)'
    <3>1. PICK i \in 1 .. n : Ahead(p, stack[i])  BY <1>1, <1>4, <2>1 DEF ToCome
    <3>2. i # n  BY <1>1, <1>3, <1>4, <3>1, StackFacts DEF Ahead
    <3>3. i \in 1 .. n - 1  BY <1>4, <3>2
    <3>4. QED  BY <1>11, <3>1, <3>3
  <2>2. QED  BY <1>1, <1>2, <2>1, MissedKept
<1>14. QED  BY <1>8, <1>9, <1>10, <1>12, <1>13 DEF ScanInv

LEMMA ReadEntryStep ==
  ASSUME ScanInv, ReadEntry
  PROVE  ScanInv'
<1>1. PICK e \in Top.left :
        /\ pc = "read" /\ stack' = Append(Below, [Top EXCEPT !.left = @ \ {e}])
        /\ \/ (e \in Dots \/ e \notin present) /\ UNCHANGED <<pc, path>>
           \/ e \notin Dots /\ pc' = "stat" /\ path' = Append(Top.path, e)
        /\ UNCHANGED <<root, queued, present>>
  BY DEF ReadEntry
<1>2. Types /\ StackInv /\ CallInv /\ QueuedInv /\ NoneMissed  BY DEF ScanInv
<1>3. stack \in Seq(OpenDirs) /\ Depth # 0 /\ Depth <= MaxOpen /\ present \subseteq Node
  BY <1>1, <1>2 DEF Types, CallInv
<1>4. PICK n \in Nat : n = Depth /\ n # 0  BY <1>3, StackFacts
<1>5. PICK t \in OpenDirs : t = stack[n] /\ Top = t  BY <1>3, <1>4, StackFacts
<1>6. PICK d \in OpenDirs : d = [t EXCEPT !.left = @ \ {e}] /\ d.path = t.path /\ d.left = t.left \ {e}
  BY OneLess
<1>7. /\ stack' \in Seq(OpenDirs) /\ Depth' = n /\ stack'[n] = d
      /\ \A i \in 1 .. n - 1 : stack'[i] = stack[i]
  BY <1>1, <1>3, <1>4, <1>5, <1>6, StackFacts DEF Depth
<1>8. \A i \in 1 .. n : i \in 1 .. n - 1 \/ i = n  BY <1>4
<1>9. \A i \in 1 .. n : stack'[i].path = stack[i].path /\ stack'[i].left \subseteq stack[i].left
  BY <1>5, <1>6, <1>7, <1>8
<1>10. /\ StackInv'
       /\ \A p : \A i \in 1 .. n :
            /\ Passed(p, stack[i]) => Passed(p, stack'[i])
            /\ Ahead(p, stack'[i]) => Ahead(p, stack[i])
  <2>1. Depth \in Nat /\ Depth' \in Nat /\ Depth' <= Depth  BY <1>4, <1>7
  <2>2. QED  BY <1>1, <1>2, <1>7, <1>9, <2>1, StackShrinks
<1>11. /\ IsPath(root, t.path) /\ Len(t.path) = n /\ IsDir(t.path[n])
       /\ t.left \subseteq Dots \cup Children[Follow(t.path[n])] /\ t.path \in Seq(Node)
       /\ \A i \in 1 .. n - 1 : Passed(t.path, stack[i])
  <2>1. n \in 1 .. Depth /\ \A i \in 1 .. n - 1 : i \in 1 .. Depth /\ i < n  BY <1>4
  <2>2. Level(root, t, n)  BY <1>2, <1>5, <2>1 DEF StackInv
  <2>3. \A i \in 1 .. n - 1 : Passed(t.path, stack[i])  BY <1>2, <1>5, <2>1 DEF StackInv
  <2>4. QED  BY <2>2, <2>3 DEF Level, IsPath
\* What was to come is to come, but for what is below this entry.
<1>12. ASSUME NEW p, ToCome(p)
       PROVE  \/ \E i \in 1 .. n : Ahead(p, stack'[i])
              \/ Extends(p, t.path) /\ n < Len(p) /\ p[n + 1] = e
  <2>1. PICK i \in 1 .. n : Ahead(p, stack[i])  BY <1>1, <1>4, <1>12 DEF ToCome
  <2>2. CASE i # n
    <3>1. stack'[i] = stack[i]  BY <1>7, <1>8, <2>2
    <3>2. QED  BY <2>1, <3>1
  <2>3. CASE i = n
    <3>1. Extends(p, t.path) /\ n < Len(p) /\ p[n + 1] \in t.left
      BY <1>5, <1>11, <2>1, <2>3 DEF Ahead
    <3>2. p[n + 1] # e => Ahead(p, stack'[n])  BY <1>6, <1>7, <1>11, <3>1 DEF Ahead
    <3>3. QED  BY <2>3, <3>1, <3>2
  <2>4. QED  BY <2>2, <2>3
<1>13. CASE (e \in Dots \/ e \notin present) /\ UNCHANGED <<pc, path>>
  <2>1. Types' /\ CallInv'  BY <1>1, <1>2, <1>3, <1>4, <1>7, <1>13 DEF Types, CallInv
  <2>2. \A p : ToCome(p)' <=> \E i \in 1 .. n : Ahead(p, stack'[i])
    BY <1>1, <1>7, <1>13 DEF ToCome
  <2>3. QueuedInv'
    <3>1. \A p \in Seq(Node) : ToCome(p)' => ToCome(p)  BY <1>4, <1>10, <2>2 DEF ToCome
    <3>2. QED  BY <1>1, <1>2, <3>1, QueuedKept
  <2>4. NoneMissed'
    <3>1. ASSUME NEW p, FilePath(root, p), Resolves(p), ToCome(p)  PROVE ToCome(p)'
      <4>1. SUFFICES ASSUME n < Len(p), p[n + 1] = e  PROVE FALSE
        BY <1>12, <2>2, <3>1
      <4>2. p \in Seq(Node)  BY <3>1 DEF FilePath, IsPath
      <4>3. n + 1 \in 1 .. Len(p)  BY <1>4, <4>1, <4>2, PathLen
      <4>4. e \in Node /\ e \in present  BY <1>3, <3>1, <4>1, <4>2, <4>3, PathLen, ResolvesAt
      <4>5. QED  BY <1>13, <4>4, ScanAssumption DEF Dots
    <3>2. QED  BY <1>1, <1>2, <3>1, MissedKept
  <2>5. QED  BY <1>10, <2>1, <2>3, <2>4 DEF ScanInv
<1>14. CASE e \notin Dots /\ pc' = "stat" /\ path' = Append(Top.path, e)
  <2>1. e \in Children[Follow(t.path[n])] /\ e \in t.left  BY <1>1, <1>5, <1>11, <1>14
  <2>2. PICK q : q = Append(t.path, e)  OBVIOUS
  <2>3. /\ IsPath(root, q) /\ Len(q) = n + 1 /\ Extends(q, t.path) /\ q[n + 1] = e
        /\ \A p \in Seq(Node) : Extends(p, q) <=> Extends(p, t.path) /\ n < Len(p) /\ p[n + 1] = e
    <3>1. PICK b : b = t.path  OBVIOUS
    <3>2. /\ IsPath(root, b) /\ Len(b) = n /\ IsDir(b[Len(b)])
          /\ e \in Children[Follow(b[Len(b)])]
      BY <1>11, <2>1, <3>1
    <3>3. /\ IsPath(root, Append(b, e)) /\ Len(Append(b, e)) = Len(b) + 1
          /\ Extends(Append(b, e), b) /\ Append(b, e)[Len(b) + 1] = e
          /\ \A p \in Seq(Node) :
               Extends(p, Append(b, e)) <=> Extends(p, b) /\ Len(b) < Len(p) /\ p[Len(b) + 1] = e
      BY <3>2, LongerPath
    <3>4. q = Append(b, e)  BY <2>2, <3>1
    <3>5. QED  BY <3>1, <3>2, <3>3, <3>4
  <2>4. path' = q  BY <1>5, <1>14, <2>2
  <2>5. q \in Seq(Node)  BY <2>3 DEF IsPath
  <2>6. Types'  BY <1>1, <1>2, <1>3, <1>4, <1>7, <1>14, <2>4, <2>5 DEF Types
  <2>7. CallInv'
    <3>1. ASSUME NEW i \in 1 .. n  PROVE Passed(q, stack'[i])
      <4>1. CASE i # n
        <5>1. i \in 1 .. n - 1  BY <1>8, <4>1
        <5>2. Passed(t.path, stack[i])  BY <1>11, <5>1
        <5>3. stack[i] \in OpenDirs  BY <1>3, <1>4, ElementOfSeq DEF Depth
        <5>4. Passed(q, stack[i])  BY <1>11, <2>3, <2>5, <5>2, <5>3, PassedToo
        <5>5. QED  BY <1>10, <5>4
      <4>2. CASE i = n
        <5>1. stack'[i] = d /\ d.path = t.path /\ Len(d.path) = n /\ e \notin d.left
          BY <1>6, <1>7, <1>11, <4>2
        <5>2. n < n + 1  BY <1>4
        <5>3. Passed(q, d)  BY <2>3, <5>1, <5>2 DEF Passed
        <5>4. QED  BY <5>1, <5>3
      <4>3. QED  BY <4>1, <4>2
    <3>2. QED  BY <1>1, <1>7, <1>14, <2>3, <2>4, <3>1 DEF CallInv
  <2>8. \A p : ToCome(p)' <=> Extends(p, q) \/ \E i \in 1 .. n : Ahead(p, stack'[i])
    BY <1>7, <1>14, <2>4 DEF ToCome
  <2>9. QueuedInv'
    <3>1. ASSUME NEW p \in Seq(Node), ToCome(p)'  PROVE ToCome(p)
      <4>1. CASE Extends(p, q)
        <5>1. Ahead(p, stack[n])  BY <1>5, <1>11, <2>1, <2>3, <4>1 DEF Ahead
        <5>2. n \in 1 .. Depth  BY <1>4
        <5>3. QED  BY <5>1, <5>2 DEF ToCome
      <4>2. CASE \E i \in 1 .. n : Ahead(p, stack'[i])
        BY <1>4, <1>10, <4>2 DEF ToCome
      <4>3. QED  BY <2>8, <3>1, <4>1, <4>2
    <3>2. QED  BY <1>1, <1>2, <3>1, QueuedKept
  <2>10. NoneMissed'
    <3>1. ASSUME NEW p, FilePath(root, p), Resolves(p), ToCome(p)  PROVE ToCome(p)'
      <4>1. p \in Seq(Node)  BY <3>1 DEF FilePath, IsPath
      <4>2. QED  BY <1>12, <2>3, <2>8, <3>1, <4>1
    <3>2. QED  BY <1>1, <1>2, <3>1, MissedKept
  <2>11. QED  BY <1>10, <2>6, <2>7, <2>9, <2>10 DEF ScanInv
<1>15. QED  BY <1>1, <1>13, <1>14

LEMMA ScanInit ==
  ASSUME Init
  PROVE  ScanInv
<1>1. /\ root \in Roots /\ pc = "stat" /\ path = <<root>> /\ stack = <<>> /\ queued = <<>>
      /\ present = Node
  BY DEF Init
<1>2. root \in Node  BY <1>1, ScanAssumption
<1>3. PICK r \in Node : r = root  BY <1>2
<1>4. PICK q \in Seq(Node) : q = <<r>> /\ Len(q) = 1 /\ q[1] = r
  <2>1. <<r>> \in Seq(Node) /\ Len(<<r>>) = 1 /\ <<r>>[1] = r  OBVIOUS
  <2>2. QED  BY <2>1
<1>5. path = q /\ Depth = 0 /\ Len(queued) = 0  BY <1>1, <1>3, <1>4 DEF Depth
<1>6. stack \in Seq(OpenDirs) /\ queued \in Seq(Seq(Node))  BY <1>1
<1>7. Types  BY <1>1, <1>4, <1>5, <1>6, ScanAssumption DEF Types
<1>8. IsPath(r, q)  BY <1>4 DEF IsPath
<1>9. StackInv  BY <1>5 DEF StackInv
<1>10. CallInv  BY <1>1, <1>3, <1>4, <1>5, <1>8 DEF CallInv
<1>11. QueuedInv  BY <1>5 DEF QueuedInv
<1>12. ASSUME NEW p, FilePath(root, p)  PROVE ToCome(p)
  <2>1. p \in Seq(Node) /\ Len(p) # 0 /\ p[1] = r  BY <1>3, <1>12 DEF FilePath, IsPath
  <2>2. Len(p) \in Nat  BY <2>1, PathLen
  <2>3. 1 <= Len(p) /\ \A i \in 1 .. 1 : i = 1  BY <2>1, <2>2
  <2>4. Extends(p, q)  BY <1>4, <2>1, <2>3 DEF Extends
  <2>5. QED  BY <1>1, <1>5, <2>4 DEF ToCome
<1>13. NoneMissed  BY <1>12 DEF NoneMissed
<1>14. QED  BY <1>7, <1>9, <1>10, <1>11, <1>13 DEF ScanInv

LEMMA EveryStep ==
  ASSUME ScanInv, [Next]_vars
  PROVE  ScanInv'
<1>1. CASE StatFails  BY <1>1, StatFailsStep
<1>2. CASE OpenDirectory  BY <1>2, OpenDirectoryStep
<1>3. CASE QueueFile  BY <1>3, QueueFileStep
<1>4. CASE SkipOther  BY <1>4, SkipOtherStep
<1>5. CASE ReadEntry  BY <1>5, ReadEntryStep
<1>6. CASE CloseDirectory  BY <1>6, CloseDirectoryStep
<1>7. ASSUME NEW n \in Node, Delete(n)  PROVE ScanInv'  BY <1>7, DeleteStep
<1>8. CASE UNCHANGED vars
  <2>1. UNCHANGED <<root, pc, path, stack, queued, present>>  BY <1>8 DEF vars
  <2>2. Depth' = Depth /\ \A p : (ToCome(p)' <=> ToCome(p)) /\ (Resolves(p)' <=> Resolves(p))
    BY <2>1 DEF Depth, ToCome, Resolves
  <2>3. Types /\ StackInv /\ CallInv /\ QueuedInv /\ NoneMissed  BY DEF ScanInv
  <2>4. Types' /\ StackInv' /\ CallInv'  BY <2>1, <2>2, <2>3 DEF Types, StackInv, CallInv
  <2>5. QueuedInv'  BY <2>1, <2>2, <2>3, QueuedKept
  <2>6. NoneMissed'
    <3>1. \A p : IsQueued(p)' <=> IsQueued(p)  BY <2>1 DEF IsQueued
    <3>2. QED  BY <2>1, <2>2, <2>3, <3>1 DEF NoneMissed
  <2>7. QED  BY <2>4, <2>5, <2>6 DEF ScanInv
<1>9. QED  BY <1>1, <1>2, <1>3, <1>4, <1>5, <1>6, <1>7, <1>8 DEF Next, ScanStep

LEMMA ScanInvariant == Spec => []ScanInv
<1>1. Init => ScanInv  BY ScanInit
<1>2. ScanInv /\ [Next]_vars => ScanInv'  BY EveryStep
<1>3. QED  BY <1>1, <1>2, PTL DEF Spec

\* The usual types at every moment; and each open directory is an entry of the
\* one that was opened before it, so the stack is one path from the requested
\* directory to where the scan is (Server.c:174-222).
THEOREM TypeCorrect == Spec => []TypeOK
<1>1. ScanInv => TypeOK
  <2> SUFFICES ASSUME ScanInv  PROVE TypeOK
    OBVIOUS
  <2>2. Types /\ StackInv  BY DEF ScanInv
  <2>3. stack \in Seq(OpenDirs) /\ DOMAIN stack = 1 .. Depth /\ Depth \in Nat /\ Len(stack) = Depth
    BY <2>2, LenProperties DEF Types, Depth
  <2>4. ASSUME NEW i \in 1 .. Depth
        PROVE  /\ Len(stack[i].path) = i /\ stack[i].left \subseteq Dots \cup Node
               /\ i > 1 => SubSeq(stack[i].path, 1, i - 1) = stack[i - 1].path
    <3>1. PICK d \in OpenDirs : d = stack[i]  BY <2>3, ElementOfSeq
    <3>2. d.left \subseteq Dots \cup Node /\ d.path \in Seq(Node)  BY DEF OpenDirs
    <3>3. Len(d.path) = i  BY <2>2, <3>1 DEF StackInv, Level
    <3>4. ASSUME i > 1  PROVE SubSeq(d.path, 1, i - 1) = stack[i - 1].path
      <4>1. PICK k \in Nat : k = i - 1 /\ k \in 1 .. Depth /\ k < i /\ k <= i  BY <2>3, <3>4
      <4>2. PICK c \in OpenDirs : c = stack[k]  BY <2>3, <4>1, ElementOfSeq
      <4>3. Len(c.path) = k /\ c.path \in Seq(Node)
        BY <2>2, <4>1, <4>2 DEF StackInv, Level, OpenDirs
      <4>4. Passed(d.path, c)  BY <2>2, <3>1, <4>1, <4>2 DEF StackInv
      <4>5. \A j \in 1 .. k : d.path[j] = c.path[j]  BY <4>3, <4>4 DEF Passed, Extends
      <4>6. PICK s \in Seq(Node) : s = SubSeq(d.path, 1, k) /\ Len(s) = k
                                   /\ \A j \in 1 .. k : s[j] = d.path[j]
        BY <3>2, <3>3, <4>1, Beginning
      <4>7. s = c.path  BY <4>3, <4>5, <4>6, SeqEqual
      <4>8. QED  BY <4>1, <4>2, <4>6, <4>7
    <3>5. QED  BY <3>1, <3>2, <3>3, <3>4
  <2>5. QED  BY <2>2, <2>3, <2>4 DEF Types, TypeOK
<1>2. QED  BY <1>1, ScanInvariant, PTL

-----------------------------------------------------------------------------
(* The reference *)

\* The paths with k names below r.
PathsOf(r, k) == {p \in Seq(Node) : IsPath(r, p) /\ Len(p) = k + 1}

LEMMA FirstPath ==
  ASSUME NEW r \in Node
  PROVE  PathsOf(r, 0) = {<<r>>}
<1>1. PICK q : q = <<r>>  OBVIOUS
<1>2. q \in Seq(Node) /\ Len(q) = 1 /\ q[1] = r  BY <1>1
<1>3. q \in PathsOf(r, 0)  BY <1>2 DEF PathsOf, IsPath
<1>4. ASSUME NEW p \in PathsOf(r, 0)  PROVE p = q
  <2>1. p \in Seq(Node) /\ Len(p) = 1 /\ p[1] = r  BY DEF PathsOf, IsPath
  <2>2. QED  BY <1>2, <2>1, SeqEqual
<1>5. QED  BY <1>1, <1>3, <1>4

\* A path is an entry of its parent directory.
LEMMA NextPaths ==
  ASSUME NEW r \in Node, NEW k \in Nat
  PROVE  PathsOf(r, k + 1)
           = UNION {Entries(p) : p \in {q \in PathsOf(r, k) : IsNode(q) /\ KindOf(q) = "dir"}}
<1>1. ASSUME NEW q \in PathsOf(r, k)
      PROVE  /\ IsNode(q) /\ KindOf(q) = "dir" <=> IsDir(q[Len(q)])
             /\ Entries(q) = {Append(q, n) : n \in Children[Follow(q[Len(q)])]}
  BY DEF IsNode, KindOf, IsDir, Last, Entries
<1>2. ASSUME NEW q \in PathsOf(r, k), IsDir(q[Len(q)]), NEW n \in Children[Follow(q[Len(q)])]
      PROVE  Append(q, n) \in PathsOf(r, k + 1)
  <2>1. IsPath(r, q) /\ Len(q) = k + 1  BY DEF PathsOf
  <2>2. IsPath(r, Append(q, n)) /\ Len(Append(q, n)) = k + 1 + 1  BY <1>2, <2>1, LongerPath
  <2>3. QED  BY <2>2 DEF PathsOf, IsPath
<1>3. ASSUME NEW p \in PathsOf(r, k + 1)
      PROVE  \E q \in PathsOf(r, k) :
               IsDir(q[Len(q)]) /\ \E n \in Children[Follow(q[Len(q)])] : p = Append(q, n)
  <2>1. IsPath(r, p) /\ p \in Seq(Node) /\ Len(p) = k + 2 /\ p[1] = r  BY DEF PathsOf, IsPath
  <2>2. PICK m \in Nat : m = k + 1 /\ m <= Len(p) /\ m # 0 /\ Len(p) = m + 1  BY <2>1
  <2>3. PICK q \in Seq(Node) : Len(q) = m /\ \A j \in 1 .. m : q[j] = p[j]
    BY <2>1, <2>2, Beginning
  <2>4. q \in PathsOf(r, k)
    <3>1. q[1] = r  BY <2>1, <2>2, <2>3
    <3>2. ASSUME NEW i \in 1 .. m - 1  PROVE IsDir(q[i]) /\ q[i + 1] \in Children[Follow(q[i])]
      <4>1. i \in 1 .. Len(p) - 1 /\ i \in 1 .. m /\ i + 1 \in 1 .. m  BY <2>2
      <4>2. IsDir(p[i]) /\ p[i + 1] \in Children[Follow(p[i])]  BY <2>1, <4>1 DEF IsPath
      <4>3. QED  BY <2>3, <4>1, <4>2
    <3>3. QED  BY <2>2, <2>3, <3>1, <3>2 DEF PathsOf, IsPath
  <2>5. m \in 1 .. Len(p) - 1 /\ m \in 1 .. m  BY <2>2
  <2>6. IsDir(p[m]) /\ p[m + 1] \in Children[Follow(p[m])]  BY <2>1, <2>5 DEF IsPath
  <2>7. IsDir(q[m]) /\ p[m + 1] \in Children[Follow(q[m])]  BY <2>3, <2>5, <2>6
  <2>8. p = Append(q, p[m + 1])
    <3>1. m + 1 \in 1 .. Len(p)  BY <2>2
    <3>2. PICK n \in Node : n = p[m + 1]  BY <2>1, <3>1, PathLen
    <3>3. PICK s : s = Append(q, n)  OBVIOUS
    <3>4. s \in Seq(Node) /\ Len(s) = m + 1 /\ s[m + 1] = n /\ \A j \in 1 .. m : s[j] = q[j]
      BY <2>3, <3>3, AppendProperties
    <3>5. \A j \in 1 .. m + 1 : j \in 1 .. m \/ j = m + 1  BY <2>2
    <3>6. \A j \in 1 .. m + 1 : s[j] = p[j]  BY <2>3, <3>2, <3>4, <3>5
    <3>7. s = p  BY <2>1, <2>2, <3>4, <3>6, SeqEqual
    <3>8. QED  BY <3>2, <3>3, <3>7
  <2>9. QED  BY <2>3, <2>4, <2>7, <2>8
<1> DEFINE D == {q \in PathsOf(r, k) : IsNode(q) /\ KindOf(q) = "dir"}
<1>4. ASSUME NEW p \in PathsOf(r, k + 1)  PROVE \E q \in D : p \in Entries(q)
  BY <1>1, <1>3
<1>5. ASSUME NEW q \in D, NEW p \in Entries(q)  PROVE p \in PathsOf(r, k + 1)
  <2>1. q \in PathsOf(r, k) /\ IsNode(q) /\ KindOf(q) = "dir"  OBVIOUS
  <2>2. IsDir(q[Len(q)])  BY <1>1, <2>1
  <2>3. PICK n \in Children[Follow(q[Len(q)])] : p = Append(q, n)  BY <1>1, <2>1
  <2>4. QED  BY <1>2, <2>1, <2>2, <2>3
<1> HIDE DEF D
<1>6. PathsOf(r, k + 1) = UNION {Entries(q) : q \in D}
  BY <1>4, <1>5
<1>7. QED  BY <1>6 DEF D

\* The recursive function of the reference gives these paths.
LEMMA PathsBelowGives ==
  ASSUME root \in Node, NEW k \in 0 .. MaxOpen
  PROVE  PathsBelow[k] = PathsOf(root, k)
<1>1. PICK r \in Node : r = root  OBVIOUS
<1> DEFINE Below0(f, i) ==
             IF i = 0 THEN {<<r>>}
             ELSE UNION {Entries(p) : p \in {q \in f[i - 1] : IsNode(q) /\ KindOf(q) = "dir"}}
           W == [i \in 0 .. MaxOpen |-> PathsOf(r, i)]
<1>2. MaxOpen \in Nat  BY ScanAssumption
<1>3. W = [i \in 0 .. MaxOpen |-> Below0(W, i)]
  <2>1. ASSUME NEW i \in 0 .. MaxOpen  PROVE PathsOf(r, i) = Below0(W, i)
    <3>1. CASE i = 0  BY <3>1, FirstPath
    <3>2. CASE i # 0
      <4>1. PICK j \in Nat : j = i - 1 /\ i = j + 1 /\ j \in 0 .. MaxOpen  BY <1>2, <3>2
      <4>2. W[i - 1] = PathsOf(r, j)  BY <4>1
      <4>3. QED  BY <3>2, <4>1, <4>2, NextPaths
    <3>3. QED  BY <3>1, <3>2
  <2>2. QED  BY <2>1
<1>4. \E f : f = [i \in 0 .. MaxOpen |-> Below0(f, i)]  BY <1>3
<1>5. PathsBelow = [i \in 0 .. MaxOpen |-> Below0(PathsBelow, i)]
  <2> DEFINE G(f) == [i \in 0 .. MaxOpen |->
               IF i = 0 THEN {<<root>>}
               ELSE UNION {Entries(p) : p \in {q \in f[i - 1] : IsNode(q) /\ KindOf(q) = "dir"}}]
  <2>1. \A f : G(f) = [i \in 0 .. MaxOpen |-> Below0(f, i)]  BY <1>1
  <2>2. PathsBelow = CHOOSE f : f = G(f)  BY Zenon DEF PathsBelow
  <2> HIDE DEF G, Below0
  <2>3. \E f : f = G(f)  BY <1>4, <2>1
  <2>4. PathsBelow = G(PathsBelow)  BY <2>2, <2>3, Zenon
  <2>5. QED  BY <2>1, <2>4
<1>6. PICK B : B = PathsBelow  OBVIOUS
<1>7. \A i \in 0 .. MaxOpen : B[i] = Below0(B, i)
  <2>1. B = [i \in 0 .. MaxOpen |-> Below0(B, i)]  BY <1>5, <1>6
  <2>2. QED  BY <2>1
<1> DEFINE S == {i \in Nat : i <= MaxOpen => B[i] = PathsOf(r, i)}
<1>8. 0 \in S
  <2>1. 0 \in 0 .. MaxOpen  BY <1>2
  <2>2. B[0] = {<<r>>}  BY <1>7, <2>1
  <2>3. QED  BY <2>2, FirstPath
<1>9. ASSUME NEW i \in Nat, i \in S  PROVE i + 1 \in S
  <2> SUFFICES ASSUME i + 1 <= MaxOpen  PROVE B[i + 1] = PathsOf(r, i + 1)
    OBVIOUS
  <2>2. i <= MaxOpen /\ i + 1 \in 0 .. MaxOpen /\ i + 1 # 0 /\ i + 1 - 1 = i  BY <1>2
  <2>3. B[i] = PathsOf(r, i)  BY <1>9, <2>2
  <2>4. B[i + 1] = UNION {Entries(p) : p \in {q \in B[i] : IsNode(q) /\ KindOf(q) = "dir"}}
    <3>1. PICK j \in Nat : j = i + 1  BY <1>9
    <3>2. B[j] = Below0(B, j)  BY <1>7, <2>2, <3>1
    <3>3. j # 0 /\ B[j - 1] = B[i]  BY <2>2, <3>1
    <3>4. QED  BY <3>1, <3>2, <3>3
  <2>5. QED  BY <2>3, <2>4, NextPaths
<1> HIDE DEF S, Below0
<1>10. Nat \subseteq S  BY <1>8, <1>9, NatSetInduction
<1>11. k \in S /\ k <= MaxOpen  BY <1>2, <1>10
<1>12. QED  BY <1>1, <1>6, <1>11 DEF S

\* What the reference lists: the paths of files, as long as may be open.
LEMMA RegularFilesAre ==
  ASSUME root \in Node, NEW p
  PROVE  p \in RegularFiles <=> FilePath(root, p) /\ Len(p) <= MaxOpen + 1
<1>1. MaxOpen \in Nat  BY ScanAssumption
<1>2. ASSUME p \in RegularFiles  PROVE FilePath(root, p) /\ Len(p) <= MaxOpen + 1
  <2>1. PICK k \in 0 .. MaxOpen : p \in PathsBelow[k]  BY <1>2 DEF RegularFiles
  <2>2. p \in PathsOf(root, k)  BY <2>1, PathsBelowGives
  <2>3. IsNode(p) /\ KindOf(p) = "file"  BY <1>2 DEF RegularFiles
  <2>4. IsPath(root, p) /\ Len(p) = k + 1  BY <2>2 DEF PathsOf
  <2>5. k + 1 <= MaxOpen + 1  BY <1>1
  <2>6. QED  BY <2>3, <2>4, <2>5 DEF FilePath, IsFile, IsNode, KindOf, Last
<1>3. ASSUME FilePath(root, p), Len(p) <= MaxOpen + 1  PROVE p \in RegularFiles
  <2>1. p \in Seq(Node) /\ Len(p) # 0 /\ IsPath(root, p)  BY <1>3 DEF FilePath, IsPath
  <2>2. Len(p) \in Nat  BY <2>1, PathLen
  <2>3. PICK k \in 0 .. MaxOpen : Len(p) = k + 1
    <3>1. Len(p) - 1 \in 0 .. MaxOpen /\ Len(p) = Len(p) - 1 + 1  BY <1>1, <1>3, <2>1, <2>2
    <3>2. QED  BY <3>1
  <2>4. p \in PathsOf(root, k)  BY <2>1, <2>3 DEF PathsOf
  <2>5. p \in PathsBelow[k]  BY <2>4, PathsBelowGives
  <2>6. IsNode(p) /\ KindOf(p) = "file"  BY <1>3 DEF FilePath, IsFile, IsNode, KindOf, Last
  <2>7. QED  BY <2>5, <2>6 DEF RegularFiles
<1>4. QED  BY <1>2, <1>3

\* What the scan has queued is always a set of regular files below the
\* requested directory, no path twice; and when the recursion has returned to
\* the communication thread, no regular file that is still there is missing,
\* in whatever order readdir(3) works and whatever is deleted meanwhile
\* (Server.c:197-222).
THEOREM ScansAreComplete == Spec => []ScanComplete
<1>1. ScanInv => ScanComplete
  <2> SUFFICES ASSUME ScanInv  PROVE ScanComplete
    OBVIOUS
  <2>1. Types /\ CallInv /\ QueuedInv /\ NoneMissed  BY DEF ScanInv
  <2>2. root \in Node /\ queued \in Seq(Seq(Node))  BY <2>1, ScanAssumption DEF Types
  <2>3. DOMAIN queued = 1 .. Len(queued)  BY <2>2, LenProperties
  <2>4. \A i \in 1 .. Len(queued) :
          /\ queued[i] \in RegularFiles
          /\ \A j \in 1 .. Len(queued) : i # j => queued[i] # queued[j]
    BY <2>1, <2>2, RegularFilesAre DEF QueuedInv
  <2>5. ASSUME pc = "done", NEW p \in RegularFiles, Resolves(p)  PROVE IsQueued(p)
    <3>1. FilePath(root, p)  BY <2>2, RegularFilesAre
    <3>2. IsQueued(p) \/ ToCome(p)  BY <2>1, <2>5, <3>1 DEF NoneMissed
    <3>3. ~ToCome(p)  BY <2>1, <2>5 DEF CallInv, ToCome
    <3>4. QED  BY <3>2, <3>3
  <2>6. QED  BY <2>3, <2>4, <2>5 DEF ScanComplete, IsQueued
<1>2. QED  BY <1>1, ScanInvariant, PTL
=============================================================================
