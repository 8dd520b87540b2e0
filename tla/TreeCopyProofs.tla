---------------------------- MODULE TreeCopyProofs ----------------------------
(***************************************************************************)
(* For any number of clients, any trees and anything on the disk before,   *)
(* clients with the same output directory and the same files included:     *)
(* what is on the disk stays a tree; a client that is done has complete    *)
(* copies of the files that it alone writes, and a writer's content in the *)
(* others; and a client fails only where its paths clash with others.      *)
(***************************************************************************)
EXTENDS TreeCopy, SequenceTheorems, NumberSets

Labels == {"output", "makeoutput", "next", "stat", "mkdir", "unlink", "open", "write",
           "done", "failed"}
Receiving == {"stat", "mkdir", "unlink", "open", "write"}

AllFiles == UNION {Files[c] : c \in Client}

ControlTypes ==
  /\ pc \in [Client -> Labels]
  /\ todo \in [Client -> SUBSET AllFiles]
  /\ file \in [Client -> AllFiles \cup {<<>>}]
  /\ depth \in [Client -> Nat]
  /\ DOMAIN fd = Client

\* A file is received while it is still to do, and is all that its client touches.
Progress ==
  \A c \in Client :
    /\ todo[c] \subseteq Files[c]
    /\ pc[c] \in Receiving \cup {"failed"} => file[c] \in todo[c]
    /\ pc[c] \in {"unlink", "open", "write"} => Path(c) = CopyOf(c, file[c])
    /\ pc[c] = "done" => todo[c] = {}

\* What is under the name of the file was made by one of its writers.
Fresh(c, p) ==
  CopyOf(c, p) \in DOMAIN files =>
    \E d \in Writers(c, p) : files[CopyOf(c, p)] = Inode(d, p) /\ Inode(d, p) \in DOMAIN data

\* Something was written to it; or some writer will, or will make another, or has failed.
Settled(c, p) ==
  \/ CopyOf(c, p) \in DOMAIN files /\ data[files[CopyOf(c, p)]] # {}
  \/ \E d \in Writers(c, p) :
       /\ file[d] = p
       /\ \/ pc[d] \in {"open", "failed"}
          \/ pc[d] = "write" /\ CopyOf(c, p) \in DOMAIN files /\ files[CopyOf(c, p)] = fd[d]

\* From its first look at the name on, a client finds the copies of writers there.
Seen(c, p) == p \notin todo[c] \/ (file[c] = p /\ pc[c] \in {"open", "write"})
Opened(c, p) == p \notin todo[c] \/ (file[c] = p /\ pc[c] = "write")

CopyInv ==
  /\ ControlTypes
  /\ Progress
  /\ \A c \in Client : \A p \in Files[c] :
       /\ Seen(c, p) => Fresh(c, p)
       /\ Opened(c, p) => Settled(c, p)
       /\ Inode(c, p) \in DOMAIN data =>
            Opened(c, p) /\ data[Inode(c, p)] \subseteq {<<d, p>> : d \in Writers(c, p)}
  /\ \A c \in Client : pc[c] = "write" =>
       \E d \in Writers(c, file[c]) : fd[c] = Inode(d, file[c]) /\ fd[c] \in DOMAIN data

-----------------------------------------------------------------------------
(* Paths *)

\* The name of an output directory is one name.
LEMMA OutputDirType ==
  ASSUME NEW c \in Client
  PROVE  \E digits \in Seq(0 .. 9) : OutputDir(c) = <<digits>>
<1>1. Pid[c] \in Seq(0 .. 9) /\ PidRoom \in Nat
  BY TreeAssumption
<1>2. CASE Len(Pid[c]) <= PidRoom
  BY <1>1, <1>2 DEF OutputDir
<1>3. CASE ~(Len(Pid[c]) <= PidRoom)
  <2>1. Len(Pid[c]) \in Nat /\ PidRoom \in 0 .. Len(Pid[c])
    BY <1>1, <1>3
  <2>2. PrefixOf(Pid[c], PidRoom) \in Seq(0 .. 9)
    BY <1>1, <2>1 DEF PrefixOf
  <2> QED BY <1>3, <2>2 DEF OutputDir
<1> QED BY <1>2, <1>3

\* Two files have the same path only if their clients share a place, and they
\* are the same there.
LEMMA SamePath ==
  ASSUME NEW c \in Client, NEW d \in Client, NEW p \in Files[c], NEW q \in Files[d],
         CopyOf(c, p) = CopyOf(d, q)
  PROVE  p = q /\ Same(c, d) /\ d \in Writers(c, p)
<1> DEFINE S == Name \cup Seq(0 .. 9)
<1>1. PICK x \in Seq(0 .. 9) : OutputDir(c) = <<x>>
  BY OutputDirType
<1>2. PICK y \in Seq(0 .. 9) : OutputDir(d) = <<y>>
  BY OutputDirType
<1>3. /\ DirName[c] \in Name /\ DirName[d] \in Name
      /\ p \in Seq(Name) /\ q \in Seq(Name)
  BY TreeAssumption
<1> DEFINE s == <<x>> \o <<DirName[c]>>
           t == <<y>> \o <<DirName[d]>>
<1>4. p \in Seq(S) /\ q \in Seq(S)
  BY <1>3, SeqMonotonic
<1>5. /\ x \in S /\ y \in S /\ DirName[c] \in S /\ DirName[d] \in S
  BY <1>3
<1>6. /\ <<x>> \in Seq(S) /\ <<y>> \in Seq(S)
      /\ <<DirName[c]>> \in Seq(S) /\ <<DirName[d]>> \in Seq(S)
  BY <1>5
<1>7. /\ s \in Seq(S) /\ Len(s) = 2 /\ s[1] = x /\ s[2] = DirName[c]
      /\ t \in Seq(S) /\ Len(t) = 2 /\ t[1] = y /\ t[2] = DirName[d]
  <2> HIDE DEF S
  <2>1. /\ Len(<<x>>) = 1 /\ <<x>>[1] = x /\ Len(<<y>>) = 1 /\ <<y>>[1] = y
        /\ Len(<<DirName[c]>>) = 1 /\ <<DirName[c]>>[1] = DirName[c]
        /\ Len(<<DirName[d]>>) = 1 /\ <<DirName[d]>>[1] = DirName[d]
    OBVIOUS
  <2>2. /\ s \in Seq(S) /\ Len(s) = Len(<<x>>) + Len(<<DirName[c]>>)
        /\ \A i \in 1 .. Len(<<x>>) + Len(<<DirName[c]>>) :
             s[i] = IF i <= Len(<<x>>) THEN <<x>>[i] ELSE <<DirName[c]>>[i - Len(<<x>>)]
    BY <1>6, ConcatProperties
  <2>3. /\ t \in Seq(S) /\ Len(t) = Len(<<y>>) + Len(<<DirName[d]>>)
        /\ \A i \in 1 .. Len(<<y>>) + Len(<<DirName[d]>>) :
             t[i] = IF i <= Len(<<y>>) THEN <<y>>[i] ELSE <<DirName[d]>>[i - Len(<<y>>)]
    BY <1>6, ConcatProperties
  <2> HIDE DEF s, t
  <2> QED BY <2>1, <2>2, <2>3
<1>8. s \o p = t \o q
  BY <1>1, <1>2 DEF CopyOf
<1> HIDE DEF S, s, t
<1>9. /\ (s \o p)[1] = x /\ (s \o p)[2] = DirName[c]
      /\ (t \o q)[1] = y /\ (t \o q)[2] = DirName[d]
  <2>1. Len(p) \in Nat /\ Len(q) \in Nat
    BY <1>4
  <2>2. \A i \in 1 .. Len(s) + Len(p) :
          (s \o p)[i] = IF i <= Len(s) THEN s[i] ELSE p[i - Len(s)]
    BY <1>4, <1>7, ConcatProperties
  <2>3. \A i \in 1 .. Len(t) + Len(q) :
          (t \o q)[i] = IF i <= Len(t) THEN t[i] ELSE q[i - Len(t)]
    BY <1>4, <1>7, ConcatProperties
  <2>4. /\ 1 \in 1 .. Len(s) + Len(p) /\ 2 \in 1 .. Len(s) + Len(p)
        /\ 1 \in 1 .. Len(t) + Len(q) /\ 2 \in 1 .. Len(t) + Len(q)
        /\ 1 <= Len(s) /\ 2 <= Len(s) /\ 1 <= Len(t) /\ 2 <= Len(t)
    BY <1>7, <2>1
  <2>5. (s \o p)[1] = s[1] /\ (s \o p)[2] = s[2]
    BY <2>2, <2>4, Zenon
  <2>6. (t \o q)[1] = t[1] /\ (t \o q)[2] = t[2]
    BY <2>3, <2>4, Zenon
  <2> QED BY <1>7, <2>5, <2>6, Zenon
<1>10. x = y /\ DirName[c] = DirName[d]
  BY <1>8, <1>9
<1>11. s = t
  BY <1>10 DEF s, t
<1>12. p = q
  BY <1>4, <1>7, <1>8, <1>11, ConcatSimplifications
<1>13. Same(c, d)
  BY <1>1, <1>2, <1>10 DEF Same
<1> QED BY <1>12, <1>13 DEF Writers

\* The writers of a file agree on its path, and on who they are.
LEMMA WritersAgree ==
  ASSUME NEW c \in Client, NEW p \in Files[c], NEW d \in Writers(c, p)
  PROVE  /\ d \in Client /\ p \in Files[d] /\ CopyOf(d, p) = CopyOf(c, p)
         /\ Writers(d, p) = Writers(c, p) /\ c \in Writers(c, p)
BY DEF Writers, Same, CopyOf

\* The path of a file that has been dealt with name by name is all of it.
LEMMA WholePath ==
  ASSUME NEW c \in Client, file[c] \in Files[c], AtFile(c)
  PROVE  Path(c) = CopyOf(c, file[c])
<1>1. PICK x \in Seq(0 .. 9) : OutputDir(c) = <<x>>
  BY OutputDirType
<1>2. /\ DirName[c] \in Name /\ file[c] \in Seq(Name)
  BY TreeAssumption
<1> DEFINE S == Name \cup Seq(0 .. 9)
<1>3. file[c] \in Seq(S)
  BY <1>2, SeqMonotonic
<1>4. <<x>> \in Seq(S) /\ <<DirName[c]>> \in Seq(S)
  BY <1>2
<1> HIDE DEF S
<1>5. CopyOf(c, file[c]) \in Seq(S)
  BY <1>1, <1>3, <1>4, ConcatProperties DEF CopyOf
<1>6. SubSeq(CopyOf(c, file[c]), 1, Len(CopyOf(c, file[c]))) = CopyOf(c, file[c])
  BY <1>5
<1> QED BY <1>6 DEF Path, PrefixOf, AtFile
-----------------------------------------------------------------------------
(* The invariant, first for steps that leave files and data alone. *)

\* A step of client c that changes neither the disk nor what is still to do, and
\* does not come to open or write; a failure in open is one of them.
LEMMA QuietStep ==
  ASSUME CopyInv, ControlTypes', Progress', NEW c \in Client, NEW l \in Labels,
         pc' = [pc EXCEPT ![c] = l], l \notin {"open", "write"},
         \/ pc[c] \notin {"open", "write", "failed"}
         \/ pc[c] = "open" /\ l = "failed" /\ file'[c] = file[c],
         \A d \in Client \ {c} : file'[d] = file[d] /\ fd'[d] = fd[d],
         UNCHANGED <<todo, files, data>>
  PROVE  CopyInv'
<1>1. pc \in [Client -> Labels] /\ pc'[c] = l /\ \A d \in Client \ {c} : pc'[d] = pc[d]
  BY DEF CopyInv, ControlTypes
<1>2. ASSUME NEW d \in Client, NEW p \in Files[d]
      PROVE  /\ Seen(d, p)' => Seen(d, p)
             /\ Opened(d, p)' = Opened(d, p)
             /\ Fresh(d, p)' = Fresh(d, p)
  <2>1. Seen(d, p)' => Seen(d, p)  BY <1>1 DEF Seen
  <2>2. Opened(d, p)' = Opened(d, p)  BY <1>1 DEF Opened
  <2>3. Fresh(d, p)' = Fresh(d, p)  BY DEF Fresh
  <2> QED BY <2>1, <2>2, <2>3
<1>3. ASSUME NEW d \in Client, NEW p \in Files[d], Settled(d, p)  PROVE Settled(d, p)'
  <2>1. CASE CopyOf(d, p) \in DOMAIN files /\ data[files[CopyOf(d, p)]] # {}
    BY <2>1 DEF Settled
  <2>2. ASSUME NEW e \in Writers(d, p), file[e] = p,
               \/ pc[e] \in {"open", "failed"}
               \/ pc[e] = "write" /\ CopyOf(d, p) \in DOMAIN files /\ files[CopyOf(d, p)] = fd[e]
        PROVE  Settled(d, p)'
    <3>1. e \in Client  BY DEF Writers
    <3>2. CASE e = c  BY <1>1, <2>2, <3>2 DEF Settled
    <3>3. CASE e # c
      <4>1. pc'[e] = pc[e] /\ file'[e] = file[e] /\ fd'[e] = fd[e]  BY <1>1, <3>1, <3>3
      <4> QED BY <2>2, <4>1 DEF Settled
    <3> QED BY <3>2, <3>3
  <2> QED BY <1>3, <2>1, <2>2 DEF Settled
<1>4. ASSUME NEW d \in Client, pc'[d] = "write"
      PROVE  \E e \in Writers(d, file'[d]) : fd'[d] = Inode(e, file'[d]) /\ fd'[d] \in DOMAIN data'
  <2>1. d # c  BY <1>1, <1>4
  <2>2. file'[d] = file[d] /\ fd'[d] = fd[d] /\ pc[d] = "write"  BY <1>1, <1>4, <2>1
  <2> QED BY <2>2 DEF CopyInv
<1>5. ASSUME NEW d \in Client, NEW p \in Files[d]
      PROVE  /\ Seen(d, p)' => Fresh(d, p)'
             /\ Opened(d, p)' => Settled(d, p)'
             /\ Inode(d, p) \in DOMAIN data' =>
                  Opened(d, p)' /\ data'[Inode(d, p)] \subseteq {<<e, p>> : e \in Writers(d, p)}
  BY <1>2, <1>3 DEF CopyInv
<1> QED BY <1>4, <1>5 DEF CopyInv

LEMMA LookForOutputStep ==
  ASSUME CopyInv, NEW c \in Client, LookForOutput(c) \/ MakeOutput(c)
  PROVE  CopyInv'
<1>1. PICK l \in {"next", "makeoutput"} : pc' = [pc EXCEPT ![c] = l]
  BY DEF LookForOutput, MakeOutput, Make, Goto
<1>2. /\ pc[c] \in {"output", "makeoutput"}
      /\ UNCHANGED <<todo, file, depth, fd, files, data>>
  BY DEF LookForOutput, MakeOutput
<1>3. ControlTypes' /\ Progress'
  BY <1>1, <1>2 DEF CopyInv, ControlTypes, Progress, Labels, Receiving, Path
<1> QED BY <1>1, <1>2, <1>3, QuietStep DEF Labels

LEMMA NextFileStep ==
  ASSUME CopyInv, NEW c \in Client, NextFile(c)
  PROVE  CopyInv'
<1>1. PICK p \in todo[c] : file' = [file EXCEPT ![c] = p]
  BY DEF NextFile
<1>2. /\ pc[c] = "next"
      /\ pc' = [pc EXCEPT ![c] = "stat"] /\ depth' = [depth EXCEPT ![c] = 1]
      /\ UNCHANGED <<todo, fd, files, data>>
  BY DEF NextFile, Goto
<1>3. p \in AllFiles
  BY <1>1 DEF CopyInv, Progress, AllFiles
<1>4. ControlTypes'
  BY <1>1, <1>2, <1>3 DEF CopyInv, ControlTypes, Labels
<1>5. ASSUME NEW d \in Client, d # c
      PROVE  /\ pc'[d] = pc[d] /\ file'[d] = file[d] /\ depth'[d] = depth[d]
             /\ Path(d)' = Path(d)
  BY <1>1, <1>2, <1>5 DEF CopyInv, ControlTypes, Path
<1>6. pc'[c] = "stat" /\ file'[c] \in todo'[c]
  BY <1>1, <1>2 DEF CopyInv, ControlTypes
<1>7. Progress'
  BY <1>2, <1>5, <1>6 DEF CopyInv, Progress, Receiving
<1> QED BY <1>2, <1>4, <1>5, <1>7, QuietStep DEF Labels

LEMMA StatDirectoryStep ==
  ASSUME CopyInv, NEW c \in Client, StatDirectory(c) \/ MakeDirectory(c)
  PROVE  CopyInv'
<1>1. pc[c] \in {"stat", "mkdir"} /\ UNCHANGED <<todo, file, fd, files, data>>
  BY DEF StatDirectory, MakeDirectory
<1>2. PICK l \in {"stat", "mkdir"} : pc' = [pc EXCEPT ![c] = l]
  BY <1>1 DEF StatDirectory, MakeDirectory, Make, Goto, CopyInv, ControlTypes
<1>3. PICK n \in {depth[c], depth[c] + 1} : depth' = [depth EXCEPT ![c] = n]
  BY DEF StatDirectory, MakeDirectory, CopyInv, ControlTypes
<1>4. ControlTypes'
  BY <1>1, <1>2, <1>3 DEF CopyInv, ControlTypes, Labels
<1>5. ASSUME NEW d \in Client, d # c PROVE pc'[d] = pc[d] /\ Path(d)' = Path(d)
  BY <1>1, <1>2, <1>3, <1>5 DEF CopyInv, ControlTypes, Path
<1>6. pc'[c] \in {"stat", "mkdir"} /\ file[c] \in todo[c]
  BY <1>1, <1>2 DEF CopyInv, ControlTypes, Progress, Receiving
<1>7. Progress'
  BY <1>1, <1>5, <1>6 DEF CopyInv, Progress, Receiving
<1> QED BY <1>1, <1>2, <1>4, <1>7, QuietStep DEF Labels

LEMMA AllReceivedStep ==
  ASSUME CopyInv, NEW c \in Client, AllReceived(c)
  PROVE  CopyInv'
<1>1. /\ pc[c] = "next" /\ todo[c] = {} /\ pc' = [pc EXCEPT ![c] = "done"]
      /\ UNCHANGED <<todo, file, depth, fd, files, data>>
  BY DEF AllReceived, Goto
<1>2. ControlTypes' /\ Progress'
  BY <1>1 DEF CopyInv, ControlTypes, Progress, Labels, Receiving, Path
<1> QED BY <1>1, <1>2, QuietStep DEF Labels

-----------------------------------------------------------------------------
(* Steps that touch the disk. *)

\* What a file that was opened relies on, with the paths of its writers.
LEMMA Relying ==
  ASSUME CopyInv, NEW d \in Client, NEW p \in Files[d], Opened(d, p)
  PROVE  \/ CopyOf(d, p) \in DOMAIN files /\ data[files[CopyOf(d, p)]] # {}
         \/ \E e \in Writers(d, p) :
              /\ e \in Client /\ CopyOf(e, p) = CopyOf(d, p) /\ file[e] = p
              /\ \/ pc[e] \in {"open", "failed"}
                 \/ pc[e] = "write" /\ CopyOf(d, p) \in DOMAIN files /\ files[CopyOf(d, p)] = fd[e]
BY WritersAgree DEF CopyInv, Settled

\* stat of the old copy: when there is none, the name is free.
LEMMA StatFileStep ==
  ASSUME CopyInv, NEW c \in Client, StatFile(c)
  PROVE  CopyInv'
<1>1. /\ pc[c] = "stat" /\ AtFile(c)
      /\ pc' = [pc EXCEPT ![c] = IF Exists(Path(c)) THEN "unlink" ELSE "open"]
      /\ UNCHANGED <<todo, file, depth, fd, files, data>>
  BY DEF StatFile, Goto
<1>2. file[c] \in todo[c] /\ file[c] \in Files[c]
  BY <1>1 DEF CopyInv, Progress, Receiving
<1>3. Path(c) = CopyOf(c, file[c])
  BY <1>1, <1>2, WholePath
<1>4. /\ pc'[c] = IF Exists(Path(c)) THEN "unlink" ELSE "open"
      /\ \A d \in Client \ {c} : pc'[d] = pc[d]
      /\ \A d \in Client : Path(d)' = Path(d)
  BY <1>1 DEF CopyInv, ControlTypes, Path
<1>5. ControlTypes'
  BY <1>1 DEF CopyInv, ControlTypes, Labels
<1>6. Progress'
  BY <1>1, <1>2, <1>3, <1>4 DEF CopyInv, Progress, Receiving
<1>7. CASE Exists(Path(c))
  BY <1>1, <1>5, <1>6, <1>7, QuietStep DEF Labels
<1>8. CASE ~Exists(Path(c))
  <2>1. ASSUME NEW d \in Client, NEW p \in Files[d], Seen(d, p)'  PROVE Fresh(d, p)'
    <3>1. CASE d = c /\ p = file[c]
      BY <1>1, <1>3, <1>8, <3>1 DEF Exists, Fresh
    <3>2. CASE ~(d = c /\ p = file[c])
      <4>1. Seen(d, p)  BY <1>1, <1>4, <2>1, <3>2 DEF Seen
      <4> QED BY <1>1, <4>1 DEF CopyInv, Fresh
    <3> QED BY <3>1, <3>2
  <2>2. ASSUME NEW d \in Client, NEW p \in Files[d]
        PROVE  Opened(d, p)' = Opened(d, p)
    BY <1>1, <1>4, <1>8 DEF Opened
  <2>3. ASSUME NEW d \in Client, NEW p \in Files[d], Opened(d, p)  PROVE Settled(d, p)'
    <3>1. CASE CopyOf(d, p) \in DOMAIN files /\ data[files[CopyOf(d, p)]] # {}
      BY <1>1, <3>1 DEF Settled
    <3>2. ASSUME NEW e \in Writers(d, p), e \in Client, file[e] = p,
                 \/ pc[e] \in {"open", "failed"}
                 \/ pc[e] = "write" /\ CopyOf(d, p) \in DOMAIN files /\ files[CopyOf(d, p)] = fd[e]
          PROVE  Settled(d, p)'
      <4>1. pc'[e] = pc[e]  BY <1>1, <1>4, <3>2
      <4> QED BY <1>1, <3>2, <4>1 DEF Settled
    <3> QED BY <2>3, <3>1, <3>2, Relying
  <2>4. ASSUME NEW d \in Client, pc'[d] = "write"
        PROVE  \E e \in Writers(d, file'[d]) : fd'[d] = Inode(e, file'[d]) /\ fd'[d] \in DOMAIN data'
    BY <1>1, <1>4, <1>8, <2>4 DEF CopyInv
  <2>5. ASSUME NEW d \in Client, NEW p \in Files[d], Inode(d, p) \in DOMAIN data'
        PROVE  Opened(d, p)' /\ data'[Inode(d, p)] \subseteq {<<e, p>> : e \in Writers(d, p)}
    BY <1>1, <2>2, <2>5 DEF CopyInv
  <2> QED BY <1>5, <1>6, <2>1, <2>2, <2>3, <2>4, <2>5 DEF CopyInv
<1> QED BY <1>7, <1>8

\* unlink: whoever deletes a copy is there to make a new one.
LEMMA UnlinkStep ==
  ASSUME CopyInv, NEW c \in Client, Unlink(c)
  PROVE  CopyInv'
<1>1. /\ pc[c] = "unlink" /\ UNCHANGED <<todo, file, depth, fd, data>>
      /\ \A d \in Client : Path(d)' = Path(d)
  BY DEF Unlink, Path
<1>2. /\ file[c] \in todo[c] /\ file[c] \in Files[c] /\ Path(c) = CopyOf(c, file[c])
  BY <1>1 DEF CopyInv, Progress, Receiving
<1>3. PICK l \in {"open", "failed"} : pc' = [pc EXCEPT ![c] = l]
  BY DEF Unlink, Goto
<1>4. ControlTypes'
  BY <1>1, <1>3 DEF CopyInv, ControlTypes, Labels
<1>5. pc'[c] = l /\ \A d \in Client \ {c} : pc'[d] = pc[d]
  BY <1>3 DEF CopyInv, ControlTypes
<1>6. Progress'
  BY <1>1, <1>2, <1>5 DEF CopyInv, Progress, Receiving
<1>7. CASE Path(c) \notin DOMAIN files
  <2>1. UNCHANGED files /\ pc' = [pc EXCEPT ![c] = "failed"]
    BY <1>7 DEF Unlink, Goto
  <2> QED BY <1>1, <1>4, <1>6, <2>1, QuietStep DEF Labels
<1>8. CASE Path(c) \in DOMAIN files
  <2>1. /\ files' = [q \in DOMAIN files \ {CopyOf(c, file[c])} |-> files[q]]
        /\ pc' = [pc EXCEPT ![c] = "open"]
    BY <1>2, <1>8 DEF Unlink, Goto
  <2>2. pc'[c] = "open"  BY <2>1 DEF CopyInv, ControlTypes
  <2>3. ASSUME NEW d \in Client, NEW p \in Files[d]
        PROVE  /\ Opened(d, p)' = Opened(d, p)
               /\ Seen(d, p)' => Seen(d, p) \/ (d = c /\ p = file[c])
    BY <1>1, <1>5, <2>2 DEF Opened, Seen
  <2>4. ASSUME NEW d \in Client, NEW p \in Files[d], Seen(d, p)'  PROVE Fresh(d, p)'
    <3>1. CASE CopyOf(d, p) = CopyOf(c, file[c])
      BY <2>1, <3>1 DEF Fresh
    <3>2. CASE CopyOf(d, p) # CopyOf(c, file[c])
      <4>1. Fresh(d, p)  BY <2>3, <2>4, <3>2 DEF CopyInv
      <4> QED BY <1>1, <2>1, <3>2, <4>1 DEF Fresh
    <3> QED BY <3>1, <3>2
  <2>5. ASSUME NEW d \in Client, NEW p \in Files[d], Opened(d, p)  PROVE Settled(d, p)'
    <3>1. CASE CopyOf(d, p) = CopyOf(c, file[c])
      <4>1. p = file[c] /\ c \in Writers(d, p)  BY <1>2, <3>1, SamePath
      <4> QED BY <1>1, <2>2, <4>1 DEF Settled
    <3>2. CASE CopyOf(d, p) # CopyOf(c, file[c])
      <4>1. CASE CopyOf(d, p) \in DOMAIN files /\ data[files[CopyOf(d, p)]] # {}
        BY <1>1, <2>1, <3>2, <4>1 DEF Settled
      <4>2. ASSUME NEW e \in Writers(d, p), e \in Client, file[e] = p,
                   \/ pc[e] \in {"open", "failed"}
                   \/ pc[e] = "write" /\ CopyOf(d, p) \in DOMAIN files /\ files[CopyOf(d, p)] = fd[e]
            PROVE  Settled(d, p)'
        <5>1. pc'[e] = pc[e]  BY <1>1, <1>5, <4>2
        <5> QED BY <1>1, <2>1, <3>2, <4>2, <5>1 DEF Settled
      <4> QED BY <2>5, <4>1, <4>2, Relying
    <3> QED BY <3>1, <3>2
  <2>6. ASSUME NEW d \in Client, pc'[d] = "write"
        PROVE  \E e \in Writers(d, file'[d]) : fd'[d] = Inode(e, file'[d]) /\ fd'[d] \in DOMAIN data'
    BY <1>1, <1>5, <2>2, <2>6 DEF CopyInv
  <2>7. ASSUME NEW d \in Client, NEW p \in Files[d], Inode(d, p) \in DOMAIN data'
        PROVE  Opened(d, p)' /\ data'[Inode(d, p)] \subseteq {<<e, p>> : e \in Writers(d, p)}
    BY <1>1, <2>3, <2>7 DEF CopyInv
  <2> QED BY <1>4, <1>6, <2>3, <2>4, <2>5, <2>6, <2>7 DEF CopyInv
<1> QED BY <1>7, <1>8

\* open: the copy that is found there, or made, is one of a writer.
LEMMA OpenStep ==
  ASSUME CopyInv, NEW c \in Client, Open(c)
  PROVE  CopyInv'
<1> DEFINE P == CopyOf(c, file[c])
           new == Inode(c, file[c])
<1>1. /\ pc[c] = "open" /\ UNCHANGED <<todo, file, depth>>
      /\ \A d \in Client : Path(d)' = Path(d)
  BY DEF Open, Path
<1>2. file[c] \in todo[c] /\ file[c] \in Files[c] /\ Path(c) = P
  BY <1>1 DEF CopyInv, Progress, Receiving
<1>3. CASE Parent(Path(c)) \notin dirs \/ Path(c) \in dirs
  <2>1. pc' = [pc EXCEPT ![c] = "failed"] /\ UNCHANGED <<fd, files, data>>
    BY <1>3 DEF Open, Goto
  <2>2. ControlTypes' /\ Progress'
    BY <1>1, <2>1 DEF CopyInv, ControlTypes, Progress, Labels, Receiving
  <2> QED BY <1>1, <2>1, <2>2, QuietStep DEF Labels
<1>4. CASE ~(Parent(Path(c)) \notin dirs \/ Path(c) \in dirs)
  <2>1. PICK i : /\ pc' = [pc EXCEPT ![c] = "write"] /\ fd' = [fd EXCEPT ![c] = i]
                 /\ DOMAIN files' = DOMAIN files \cup {P} /\ files'[P] = i
                 /\ \A q \in DOMAIN files : q # P => files'[q] = files[q]
                 /\ \/ P \in DOMAIN files /\ i = files[P] /\ UNCHANGED <<files, data>>
                    \/ /\ P \notin DOMAIN files /\ i = new
                       /\ data' = [k \in DOMAIN data \cup {new} |-> IF k = new THEN {} ELSE data[k]]
    <3>1. CASE P \in DOMAIN files
      <4>1. /\ pc' = [pc EXCEPT ![c] = "write"] /\ fd' = [fd EXCEPT ![c] = files[P]]
            /\ UNCHANGED <<files, data>>
        BY <1>2, <1>4, <3>1 DEF Open, Goto
      <4> QED BY <3>1, <4>1
    <3>2. CASE P \notin DOMAIN files
      <4>1. /\ pc' = [pc EXCEPT ![c] = "write"] /\ fd' = [fd EXCEPT ![c] = new]
            /\ files' = [q \in DOMAIN files \cup {P} |-> IF q = P THEN new ELSE files[q]]
            /\ data' = [k \in DOMAIN data \cup {new} |-> IF k = new THEN {} ELSE data[k]]
        BY <1>2, <1>4, <3>2 DEF Open, Goto
      <4> HIDE DEF P, new
      <4> QED BY <3>2, <4>1
    <3> QED BY <3>1, <3>2
  <2>2. ControlTypes'
    BY <1>1, <2>1 DEF CopyInv, ControlTypes, Labels
  <2>3. /\ pc'[c] = "write" /\ fd'[c] = i
        /\ \A d \in Client \ {c} : pc'[d] = pc[d] /\ fd'[d] = fd[d]
    BY <2>1 DEF CopyInv, ControlTypes
  <2>4. Progress'
    BY <1>1, <1>2, <2>3 DEF CopyInv, Progress, Receiving
  <2>5. /\ DOMAIN data \subseteq DOMAIN data'
        /\ \A k \in DOMAIN data : data'[k] = data[k]
        /\ \A k \in DOMAIN data' : k \in DOMAIN data \/ (k = new /\ data'[k] = {})
        /\ i = new => i \in DOMAIN data'
    <3>1. ~Opened(c, file[c])  BY <1>1, <1>2 DEF Opened
    <3>2. new \notin DOMAIN data  BY <1>2, <3>1 DEF CopyInv
    <3>3. CASE P \in DOMAIN files /\ i = files[P] /\ UNCHANGED <<files, data>>
      <4>1. PICK e \in Writers(c, file[c]) : files[P] = Inode(e, file[c]) /\ Inode(e, file[c]) \in DOMAIN data
        BY <1>1, <1>2, <3>3 DEF CopyInv, Seen, Fresh
      <4> QED BY <3>3, <4>1
    <3>4. CASE /\ P \notin DOMAIN files /\ i = new
               /\ data' = [k \in DOMAIN data \cup {new} |-> IF k = new THEN {} ELSE data[k]]
      <4> HIDE DEF P, new
      <4> QED BY <3>2, <3>4
    <3> QED BY <2>1, <3>3, <3>4
  <2>6. PICK e \in Writers(c, file[c]) : i = Inode(e, file[c]) /\ i \in DOMAIN data'
    <3>1. CASE P \in DOMAIN files /\ i = files[P]
      <4>1. PICK e \in Writers(c, file[c]) : files[P] = Inode(e, file[c]) /\ Inode(e, file[c]) \in DOMAIN data
        BY <1>1, <1>2, <3>1 DEF CopyInv, Seen, Fresh
      <4> QED BY <2>5, <3>1, <4>1
    <3>2. CASE i = new
      <4>1. c \in Writers(c, file[c])  BY <1>2 DEF Writers, Same
      <4> QED BY <2>5, <3>2, <4>1
    <3> QED BY <2>1, <3>1, <3>2
  <2>7. ASSUME NEW d \in Client, NEW p \in Files[d]
        PROVE  /\ Opened(d, p) => Opened(d, p)'
               /\ Opened(d, p)' => Opened(d, p) \/ (d = c /\ p = file[c])
               /\ Seen(d, p)' => Seen(d, p)
    BY <1>1, <2>3 DEF Opened, Seen
  <2>8. \A p \in Files[c] : p = file[c] => Opened(c, p)'  BY <1>1, <2>3 DEF Opened
  <2>9. ASSUME NEW d \in Client, NEW p \in Files[d], CopyOf(d, p) = P
        PROVE  Settled(d, p)' /\ Fresh(d, p)'
    <3>1. p = file[c] /\ c \in Writers(d, p)  BY <1>2, <2>9, SamePath
    <3>2. Writers(c, p) = Writers(d, p)  BY <3>1, WritersAgree
    <3>3. Settled(d, p)'  BY <1>1, <2>1, <2>3, <2>9, <3>1 DEF Settled
    <3>4. Fresh(d, p)'
      <4>1. e \in Writers(d, p) /\ files'[CopyOf(d, p)] = Inode(e, p) /\ Inode(e, p) \in DOMAIN data'
        BY <2>1, <2>6, <2>9, <3>1, <3>2
      <4> QED BY <4>1 DEF Fresh
    <3> QED BY <3>3, <3>4
  <2>10. ASSUME NEW d \in Client, NEW p \in Files[d], Seen(d, p)'  PROVE Fresh(d, p)'
    <3>1. CASE CopyOf(d, p) # P
      <4>1. Fresh(d, p)  BY <2>7, <2>10 DEF CopyInv
      <4> QED BY <2>1, <2>5, <3>1, <4>1 DEF Fresh
    <3> QED BY <2>9, <3>1
  <2>11. ASSUME NEW d \in Client, NEW p \in Files[d], Opened(d, p)'  PROVE Settled(d, p)'
    <3>1. CASE CopyOf(d, p) # P
      <4>1. Opened(d, p) /\ Seen(d, p)  BY <2>7, <2>11, <3>1 DEF Opened, Seen
      <4>2. CASE CopyOf(d, p) \in DOMAIN files /\ data[files[CopyOf(d, p)]] # {}
        <5>1. files[CopyOf(d, p)] \in DOMAIN data  BY <4>1, <4>2 DEF CopyInv, Fresh
        <5> QED BY <2>1, <2>5, <3>1, <4>2, <5>1 DEF Settled
      <4>3. ASSUME NEW b \in Writers(d, p), b \in Client, CopyOf(b, p) = CopyOf(d, p), file[b] = p,
                   \/ pc[b] \in {"open", "failed"}
                   \/ pc[b] = "write" /\ CopyOf(d, p) \in DOMAIN files /\ files[CopyOf(d, p)] = fd[b]
            PROVE  Settled(d, p)'
        <5>1. b # c  BY <3>1, <4>3
        <5>2. pc'[b] = pc[b] /\ fd'[b] = fd[b] /\ file'[b] = p  BY <1>1, <2>3, <4>3, <5>1
        <5>3. CopyOf(d, p) \in DOMAIN files =>
                CopyOf(d, p) \in DOMAIN files' /\ files'[CopyOf(d, p)] = files[CopyOf(d, p)]
          BY <2>1, <3>1
        <5> QED BY <4>3, <5>2, <5>3 DEF Settled
      <4> QED BY <4>1, <4>2, <4>3, Relying
    <3> QED BY <2>9, <3>1
  <2>12. ASSUME NEW d \in Client, pc'[d] = "write"
         PROVE  \E b \in Writers(d, file'[d]) : fd'[d] = Inode(b, file'[d]) /\ fd'[d] \in DOMAIN data'
    <3>1. CASE d = c
      BY <1>1, <2>3, <2>6, <3>1
    <3>2. CASE d # c
      <4>1. pc[d] = "write" /\ fd'[d] = fd[d] /\ file'[d] = file[d]  BY <1>1, <2>3, <2>12, <3>2
      <4> QED BY <2>5, <4>1 DEF CopyInv
    <3> QED BY <3>1, <3>2
  <2>13. ASSUME NEW d \in Client, NEW p \in Files[d], Inode(d, p) \in DOMAIN data'
         PROVE  Opened(d, p)' /\ data'[Inode(d, p)] \subseteq {<<b, p>> : b \in Writers(d, p)}
    <3>1. CASE Inode(d, p) \in DOMAIN data
      BY <2>5, <2>7, <3>1 DEF CopyInv
    <3>2. CASE Inode(d, p) = new /\ data'[Inode(d, p)] = {}
      <4>1. d = c /\ p = file[c]  BY <3>2 DEF Inode
      <4>2. Opened(d, p)'  BY <2>8, <4>1
      <4> QED BY <3>2, <4>2
    <3> QED BY <2>5, <2>13, <3>1, <3>2
  <2> QED BY <2>2, <2>4, <2>10, <2>11, <2>12, <2>13 DEF CopyInv
<1> QED BY <1>3, <1>4

\* The content goes to an inode that a writer of this file made.
LEMMA WriteStep ==
  ASSUME CopyInv, NEW c \in Client, Write(c)
  PROVE  CopyInv'
<1>1. /\ pc[c] = "write" /\ UNCHANGED <<file, depth, fd, files>>
      /\ \A d \in Client : Path(d)' = Path(d)
      /\ pc' = [pc EXCEPT ![c] = "next"]
      /\ todo' = [todo EXCEPT ![c] = @ \ {file[c]}]
  BY DEF Write, Path, Goto
<1>2. file[c] \in todo[c] /\ file[c] \in Files[c]
  BY <1>1 DEF CopyInv, Progress, Receiving
<1>3. PICK e \in Writers(c, file[c]) : fd[c] = Inode(e, file[c]) /\ fd[c] \in DOMAIN data
  BY <1>1 DEF CopyInv
<1>4. /\ DOMAIN data' = DOMAIN data
      /\ data'[fd[c]] = data[fd[c]] \cup {<<c, file[c]>>}
      /\ \A i \in DOMAIN data : i # fd[c] => data'[i] = data[i]
  BY <1>3 DEF Write
<1>5. /\ pc'[c] = "next" /\ todo'[c] = todo[c] \ {file[c]}
      /\ \A d \in Client \ {c} : pc'[d] = pc[d] /\ todo'[d] = todo[d]
  BY <1>1 DEF CopyInv, ControlTypes
<1>6. ControlTypes'
  BY <1>1, <1>5 DEF CopyInv, ControlTypes, Labels
<1>7. Progress'
  BY <1>1, <1>5 DEF CopyInv, Progress, Receiving
<1>8. ASSUME NEW d \in Client, NEW p \in Files[d]
      PROVE  Opened(d, p)' = Opened(d, p) /\ (Seen(d, p)' => Seen(d, p))
  BY <1>1, <1>2, <1>5 DEF Opened, Seen
<1>9. ASSUME NEW d \in Client, NEW p \in Files[d], Seen(d, p)'  PROVE Fresh(d, p)'
  <2>1. Fresh(d, p)  BY <1>8, <1>9 DEF CopyInv
  <2> QED BY <1>1, <1>4, <2>1 DEF Fresh
<1>10. ASSUME NEW d \in Client, NEW p \in Files[d], Opened(d, p)  PROVE Settled(d, p)'
  <2>1. CASE CopyOf(d, p) \in DOMAIN files /\ data[files[CopyOf(d, p)]] # {}
    <3>1. Seen(d, p)  BY <1>10 DEF Opened, Seen
    <3>2. files[CopyOf(d, p)] \in DOMAIN data  BY <2>1, <3>1 DEF CopyInv, Fresh
    <3>3. data'[files[CopyOf(d, p)]] # {}  BY <1>4, <2>1, <3>2
    <3> QED BY <1>1, <2>1, <3>3 DEF Settled
  <2>2. ASSUME NEW b \in Writers(d, p), b \in Client, file[b] = p,
               \/ pc[b] \in {"open", "failed"}
               \/ pc[b] = "write" /\ CopyOf(d, p) \in DOMAIN files /\ files[CopyOf(d, p)] = fd[b]
        PROVE  Settled(d, p)'
    <3>1. CASE b = c
      <4>1. CopyOf(d, p) \in DOMAIN files /\ files[CopyOf(d, p)] = fd[c]  BY <1>1, <2>2, <3>1
      <4>2. data'[fd[c]] # {}  BY <1>4
      <4> QED BY <1>1, <4>1, <4>2 DEF Settled
    <3>2. CASE b # c
      <4>1. pc'[b] = pc[b]  BY <1>5, <2>2, <3>2
      <4> QED BY <1>1, <2>2, <4>1 DEF Settled
    <3> QED BY <3>1, <3>2
  <2> QED BY <1>10, <2>1, <2>2, Relying
<1>11. ASSUME NEW d \in Client, pc'[d] = "write"
       PROVE  \E b \in Writers(d, file'[d]) : fd'[d] = Inode(b, file'[d]) /\ fd'[d] \in DOMAIN data'
  <2>1. pc[d] = "write" /\ fd'[d] = fd[d] /\ file'[d] = file[d]  BY <1>1, <1>5, <1>11
  <2> QED BY <1>4, <2>1 DEF CopyInv
<1>12. ASSUME NEW d \in Client, NEW p \in Files[d], Inode(d, p) \in DOMAIN data'
       PROVE  Opened(d, p)' /\ data'[Inode(d, p)] \subseteq {<<b, p>> : b \in Writers(d, p)}
  <2>1. Opened(d, p)' /\ data[Inode(d, p)] \subseteq {<<b, p>> : b \in Writers(d, p)}
    BY <1>4, <1>8, <1>12 DEF CopyInv
  <2>2. CASE Inode(d, p) = fd[c]
    <3>1. d = e /\ p = file[c]  BY <1>3, <2>2 DEF Inode
    <3>2. c \in Writers(d, p)  BY <1>2, <3>1, WritersAgree
    <3>3. data'[Inode(d, p)] = data[Inode(d, p)] \cup {<<c, p>>}  BY <1>4, <2>2, <3>1
    <3> QED BY <2>1, <3>2, <3>3
  <2>3. CASE Inode(d, p) # fd[c]
    BY <1>4, <1>12, <2>1, <2>3
  <2> QED BY <2>2, <2>3
<1> QED BY <1>6, <1>7, <1>8, <1>9, <1>10, <1>11, <1>12 DEF CopyInv

LEMMA CopyInvInductive == Spec => []CopyInv
<1>1. Init => CopyInv
  <2> SUFFICES ASSUME Init PROVE CopyInv
    OBVIOUS
  <2>1. ControlTypes
    <3>1. Files \in [Client -> SUBSET AllFiles]
      BY TreeAssumption DEF AllFiles
    <3>2. pc \in [Client -> Labels] /\ depth \in [Client -> Nat] /\ DOMAIN fd = Client
      BY DEF Init, Labels
    <3>3. file \in [Client -> AllFiles \cup {<<>>}]
      BY DEF Init
    <3>4. todo \in [Client -> SUBSET AllFiles]
      BY <3>1 DEF Init
    <3> QED BY <3>2, <3>3, <3>4 DEF ControlTypes
  <2>2. Progress
    BY TreeAssumption DEF Init, Progress, Receiving
  <2>3. ASSUME NEW c \in Client, NEW p \in Files[c]
        PROVE  ~Seen(c, p) /\ ~Opened(c, p) /\ Inode(c, p) \notin DOMAIN data
    BY DEF Init, Seen, Opened, Inode, Old
  <2>4. \A c \in Client : pc[c] # "write"  BY DEF Init
  <2> QED BY <2>1, <2>2, <2>3, <2>4 DEF CopyInv
<1>2. CopyInv /\ [Next]_vars => CopyInv'
  <2> SUFFICES ASSUME CopyInv, [Next]_vars PROVE CopyInv'
    OBVIOUS
  <2>1. ASSUME NEW c \in Client, LookForOutput(c) \/ MakeOutput(c) PROVE CopyInv'
    BY <2>1, LookForOutputStep
  <2>2. ASSUME NEW c \in Client, NextFile(c) PROVE CopyInv'
    BY <2>2, NextFileStep
  <2>3. ASSUME NEW c \in Client, AllReceived(c) PROVE CopyInv'
    BY <2>3, AllReceivedStep
  <2>4. ASSUME NEW c \in Client, StatDirectory(c) \/ MakeDirectory(c) PROVE CopyInv'
    BY <2>4, StatDirectoryStep
  <2>5. ASSUME NEW c \in Client, StatFile(c) PROVE CopyInv'
    BY <2>5, StatFileStep
  <2>6. ASSUME NEW c \in Client, Unlink(c) PROVE CopyInv'
    BY <2>6, UnlinkStep
  <2>7. ASSUME NEW c \in Client, Open(c) PROVE CopyInv'
    BY <2>7, OpenStep
  <2>8. ASSUME NEW c \in Client, Write(c) PROVE CopyInv'
    BY <2>8, WriteStep
  <2>9. CASE UNCHANGED vars
    <3>1. UNCHANGED <<pc, todo, file, depth, fd, files, data>>
      BY <2>9 DEF vars, clientVars
    <3> QED BY <3>1 DEF CopyInv, ControlTypes, Progress, Seen, Opened, Fresh, Settled, Path
  <2> QED BY <2>1, <2>2, <2>3, <2>4, <2>5, <2>6, <2>7, <2>8, <2>9 DEF Next
<1> QED BY <1>1, <1>2, PTL DEF Spec

\* Whatever is on the disk, and however the system calls of the clients
\* interleave, a client that is done has each file under its name
\* (Client.c:70-133, 183-256): with its content, or with that of the clients
\* that write the same name, unless one of these is replacing it.
THEOREM CopiesAreComplete == Spec => []CopyComplete
<1>1. CopyInv => CopyComplete
  <2> SUFFICES ASSUME CopyInv, NEW c \in Client, pc[c] = "done", NEW p \in Files[c]
               PROVE  \/ /\ CopyOf(c, p) \in DOMAIN files
                         /\ data[files[CopyOf(c, p)]] # {}
                         /\ data[files[CopyOf(c, p)]] \subseteq {<<d, p>> : d \in Writers(c, p)}
                      \/ \E d \in Writers(c, p) \ {c} : Replacing(d, p)
    BY DEF CopyComplete
  <2>1. Seen(c, p) /\ Opened(c, p)
    BY DEF CopyInv, Progress, Seen, Opened
  <2>2. CASE CopyOf(c, p) \in DOMAIN files /\ data[files[CopyOf(c, p)]] # {}
    <3>1. PICK d \in Writers(c, p) : files[CopyOf(c, p)] = Inode(d, p) /\ Inode(d, p) \in DOMAIN data
      BY <2>1, <2>2 DEF CopyInv, Fresh
    <3>2. d \in Client /\ p \in Files[d] /\ Writers(d, p) = Writers(c, p)
      BY WritersAgree
    <3>3. data[Inode(d, p)] \subseteq {<<e, p>> : e \in Writers(c, p)}
      BY <3>1, <3>2 DEF CopyInv
    <3> QED BY <2>2, <3>1, <3>3
  <2>3. ASSUME NEW d \in Writers(c, p), file[d] = p, pc[d] \in {"open", "failed", "write"}
        PROVE  d # c /\ Replacing(d, p)
    BY <2>3 DEF Replacing
  <2> QED BY <2>1, <2>2, <2>3, Relying
<1> QED BY <1>1, CopyInvInductive, PTL

-----------------------------------------------------------------------------
(* The file system stays a tree, whatever the clients do. *)

Paths == Seq(Name \cup Seq(0 .. 9))

DiskInv ==
  /\ <<>> \in dirs /\ dirs \cup DOMAIN files \subseteq Paths
  /\ dirs \cap DOMAIN files = {}
  /\ \A p \in dirs \cup DOMAIN files : Proper(p) \subseteq dirs
  /\ \A p \in DOMAIN files : files[p] \in DOMAIN data

\* What client c knows of the tree; a directory that it is about to make has a parent.
Sound(c) ==
  /\ todo[c] \subseteq Files[c] /\ file[c] \in Files[c] \cup {<<>>}
  /\ pc[c] \in Receiving \cup {"failed"} => file[c] \in Files[c] /\ depth[c] # 0
  /\ depth[c] \in 0 .. Len(CopyOf(c, file[c]))
  /\ fd[c] \in DOMAIN data
  /\ pc[c] = "mkdir" => ~AtFile(c) /\ Parent(Path(c)) \in dirs
  /\ pc[c] \in {"unlink", "open"} => AtFile(c)

TreeInv == ControlTypes /\ DiskInv /\ \A c \in Client : Sound(c)

LEMMA PrefixFacts ==
  ASSUME NEW S, NEW p \in Seq(S), NEW n \in 0 .. Len(p)
  PROVE  /\ PrefixOf(p, n) \in Seq(S) /\ Len(PrefixOf(p, n)) = n
         /\ \A i \in 1 .. n : PrefixOf(p, n)[i] = p[i]
         /\ \A m \in 0 .. n : PrefixOf(PrefixOf(p, n), m) = PrefixOf(p, m)
<1>1. Len(p) \in Nat  BY LenProperties
<1>2. n \in Nat /\ n <= Len(p)  BY <1>1
<1>3. \A m \in 0 .. Len(p) :
        /\ SubSeq(p, 1, m) \in Seq(S) /\ Len(SubSeq(p, 1, m)) = m
        /\ \A i \in 1 .. m : SubSeq(p, 1, m)[i] = p[i]
  <2> SUFFICES ASSUME NEW m \in 0 .. Len(p)
               PROVE  /\ SubSeq(p, 1, m) \in Seq(S) /\ Len(SubSeq(p, 1, m)) = m
                      /\ \A i \in 1 .. m : SubSeq(p, 1, m)[i] = p[i]
    OBVIOUS
  <2>1. m \in Nat /\ \A i \in 1 .. m : p[i] \in S  BY <1>1, ElementOfSeq
  <2>2. /\ SubSeq(p, 1, m) \in Seq(S)
        /\ Len(SubSeq(p, 1, m)) = IF 1 <= m THEN m - 1 + 1 ELSE 0
        /\ \A i \in 1 .. m - 1 + 1 : SubSeq(p, 1, m)[i] = p[1 + i - 1]
    BY <2>1, SubSeqProperties
  <2>3. QED  BY <2>1, <2>2
<1>4. ASSUME NEW m \in 0 .. n  PROVE PrefixOf(PrefixOf(p, n), m) = PrefixOf(p, m)
  <2> DEFINE q == SubSeq(p, 1, n)
             s == SubSeq(q, 1, m)
             t == SubSeq(p, 1, m)
  <2>1. m \in Nat /\ m \in 0 .. Len(p)  BY <1>1, <1>2
  <2>2. q \in Seq(S) /\ Len(q) = n /\ \A i \in 1 .. n : q[i] = p[i]  BY <1>3
  <2>3. t \in Seq(S) /\ Len(t) = m /\ \A i \in 1 .. m : t[i] = p[i]  BY <1>3, <2>1
  <2> HIDE DEF q
  <2>4. \A i \in 1 .. m : q[i] \in S  BY <1>2, <2>2, ElementOfSeq
  <2>5. /\ s \in Seq(S) /\ Len(s) = IF 1 <= m THEN m - 1 + 1 ELSE 0
        /\ \A i \in 1 .. m - 1 + 1 : s[i] = q[1 + i - 1]
    BY <2>1, <2>2, <2>4, SubSeqProperties
  <2>6. Len(s) = m /\ \A i \in 1 .. m : s[i] = q[i]  BY <2>1, <2>5
  <2> HIDE DEF s, t
  <2>7. \A i \in 1 .. m : s[i] = t[i]  BY <1>2, <2>2, <2>3, <2>6
  <2>8. s = t  BY <2>3, <2>5, <2>6, <2>7, SeqEqual
  <2>9. QED  BY <2>8 DEF PrefixOf, q, s, t
<1>5. QED  BY <1>2, <1>3, <1>4 DEF PrefixOf

\* What is in a path, and in the directory that the path is in.
LEMMA ParentFacts ==
  ASSUME NEW p \in Paths, p # <<>>
  PROVE  Parent(p) \in Paths /\ Proper(p) = Proper(Parent(p)) \cup {Parent(p)}
<1> DEFINE S == Name \cup Seq(0 .. 9)
<1>1. p \in Seq(S)  BY DEF Paths
<1> HIDE DEF S
<1>2. PICK l \in Nat : l = Len(p)  BY <1>1, LenProperties
<1>3. l # 0  BY <1>1, <1>2, EmptySeq
<1>4. l - 1 \in 0 .. Len(p) /\ 0 .. l - 1 = (0 .. l - 2) \cup {l - 1}  BY <1>2, <1>3
<1>5. /\ Parent(p) \in Seq(S) /\ Len(Parent(p)) = l - 1
      /\ \A m \in 0 .. l - 1 : PrefixOf(Parent(p), m) = PrefixOf(p, m)
  BY <1>1, <1>2, <1>4, PrefixFacts DEF Parent
<1>6. Proper(p) = {PrefixOf(p, n) : n \in 0 .. l - 1}  BY <1>2 DEF Proper
<1>7. Proper(Parent(p)) = {PrefixOf(Parent(p), n) : n \in 0 .. l - 2}
  <2>1. 0 .. Len(Parent(p)) - 1 = 0 .. l - 2  BY <1>2, <1>5
  <2>2. QED  BY <2>1 DEF Proper
<1>8. {PrefixOf(Parent(p), n) : n \in 0 .. l - 2} = {PrefixOf(p, n) : n \in 0 .. l - 2}
  <2>1. \A n \in 0 .. l - 2 : PrefixOf(Parent(p), n) = PrefixOf(p, n)  BY <1>2, <1>5
  <2>2. QED  BY <2>1
<1>9. PrefixOf(p, l - 1) = Parent(p)  BY <1>2 DEF Parent
<1>10. Parent(p) \in Paths  BY <1>5 DEF S, Paths
<1>11. QED  BY <1>4, <1>6, <1>7, <1>8, <1>9, <1>10

LEMMA CopyType ==
  ASSUME NEW c \in Client, NEW p \in Files[c] \cup {<<>>}
  PROVE  /\ OutputDir(c) \in Paths /\ Len(OutputDir(c)) = 1
         /\ CopyOf(c, p) \in Paths /\ Len(p) \in Nat /\ Len(CopyOf(c, p)) = 2 + Len(p)
         /\ PrefixOf(CopyOf(c, p), 1) = OutputDir(c)
         /\ CopyOf(c, p)[1] = OutputDir(c)[1] /\ CopyOf(c, p)[2] = DirName[c]
         /\ \A i \in 1 .. Len(p) : CopyOf(c, p)[2 + i] = p[i]
<1> DEFINE S == Name \cup Seq(0 .. 9)
           o == OutputDir(c)
           b == o \o <<DirName[c]>>
           t == b \o p
<1>1. PICK x \in Seq(0 .. 9) : o = <<x>>  BY OutputDirType
<1>2. DirName[c] \in Name /\ p \in Seq(Name)
  <2>1. Files[c] \subseteq Seq(Name) /\ DirName[c] \in Name  BY TreeAssumption
  <2>2. <<>> \in Seq(Name)  BY EmptySeq
  <2>3. QED  BY <2>1, <2>2
<1>3. p \in Seq(S)  BY <1>2, SeqMonotonic
<1>4. x \in S /\ DirName[c] \in S  BY <1>1, <1>2
<1> HIDE DEF S, o
<1>5. o \in Seq(S) /\ Len(o) = 1 /\ o[1] = x  BY <1>1, <1>4
<1>6. /\ <<DirName[c]>> \in Seq(S) /\ Len(<<DirName[c]>>) = 1 /\ <<DirName[c]>>[1] = DirName[c]
  BY <1>4
<1>7. b \in Seq(S) /\ Len(b) = 2 /\ b[1] = x /\ b[2] = DirName[c]
  <2>1. /\ b \in Seq(S) /\ Len(b) = Len(o) + Len(<<DirName[c]>>)
        /\ \A i \in 1 .. Len(o) + Len(<<DirName[c]>>) :
             b[i] = IF i <= Len(o) THEN o[i] ELSE <<DirName[c]>>[i - Len(o)]
    BY <1>5, <1>6, ConcatProperties
  <2> HIDE DEF b
  <2>2. QED  BY <1>5, <1>6, <2>1
<1> HIDE DEF b
<1>8. PICK n \in Nat : n = Len(p)  BY <1>3, LenProperties
<1>9. /\ t \in Seq(S) /\ Len(t) = Len(b) + Len(p)
      /\ \A i \in 1 .. Len(b) + Len(p) : t[i] = IF i <= Len(b) THEN b[i] ELSE p[i - Len(b)]
  BY <1>3, <1>7, ConcatProperties
<1>10. t = CopyOf(c, p)  BY DEF CopyOf, b, o
<1> HIDE DEF t
<1>11. Len(t) = 2 + n /\ t[1] = x /\ t[2] = DirName[c] /\ \A i \in 1 .. n : t[2 + i] = p[i]
  <2>1. \A i \in 1 .. 2 + n : t[i] = IF i <= 2 THEN b[i] ELSE p[i - 2]  BY <1>7, <1>8, <1>9
  <2>2. 1 \in 1 .. 2 + n /\ 2 \in 1 .. 2 + n  BY <1>8
  <2>3. ASSUME NEW i \in 1 .. n  PROVE t[2 + i] = p[i]
    <3>1. PICK j \in 1 .. 2 + n : j = 2 + i  BY <1>8
    <3>2. ~(j <= 2) /\ j - 2 = i  BY <1>8, <3>1
    <3>3. QED  BY <2>1, <3>1, <3>2
  <2>4. QED  BY <1>7, <1>8, <1>9, <2>1, <2>2, <2>3
<1>12. PrefixOf(t, 1) = o
  <2>1. 1 \in 0 .. Len(t)  BY <1>8, <1>11
  <2>2. PrefixOf(t, 1) \in Seq(S) /\ Len(PrefixOf(t, 1)) = 1 /\ \A i \in 1 .. 1 : PrefixOf(t, 1)[i] = t[i]
    BY <1>9, <2>1, PrefixFacts
  <2>3. \A i \in 1 .. Len(o) : PrefixOf(t, 1)[i] = o[i]  BY <1>5, <1>11, <2>2
  <2>4. QED  BY <1>5, <2>2, <2>3, SeqEqual
<1>13. o \in Paths /\ t \in Paths  BY <1>5, <1>9 DEF S, Paths
<1>14. QED  BY <1>5, <1>8, <1>10, <1>11, <1>12, <1>13 DEF o

\* A directory that is made in another one.
LEMMA MakeKeepsDisk ==
  ASSUME DiskInv, NEW p \in Paths, p # <<>>, Parent(p) \in dirs,
         dirs' = IF Exists(p) THEN dirs ELSE dirs \cup {p}, UNCHANGED <<files, data>>
  PROVE  DiskInv' /\ dirs \subseteq dirs'
<1>1. Proper(p) \subseteq dirs  BY ParentFacts DEF DiskInv
<1>2. QED  BY <1>1 DEF DiskInv, Exists

\* The other clients know what they knew.
LEMMA OneClientMoves ==
  ASSUME TreeInv, ControlTypes', DiskInv', NEW c \in Client, Sound(c)',
         dirs \subseteq dirs', DOMAIN data \subseteq DOMAIN data',
         \A d \in Client \ {c} :
           /\ pc'[d] = pc[d] /\ todo'[d] = todo[d] /\ file'[d] = file[d]
           /\ depth'[d] = depth[d] /\ fd'[d] = fd[d]
  PROVE  TreeInv'
<1>1. ASSUME NEW d \in Client, d # c  PROVE Sound(d)'
  <2>1. Sound(d)  BY DEF TreeInv
  <2>2. AtFile(d)' = AtFile(d) /\ Path(d)' = Path(d)  BY <1>1 DEF AtFile, Path
  <2>3. QED  BY <1>1, <2>1, <2>2 DEF Sound
<1>2. QED  BY <1>1 DEF TreeInv

\* Where the client is in the path of a copy.
LEMMA PathType ==
  ASSUME TreeInv, NEW c \in Client
  PROVE  /\ Path(c) \in Paths /\ Len(Path(c)) = depth[c]
         /\ depth[c] \in Nat /\ depth[c] <= Len(CopyOf(c, file[c])) /\ Len(CopyOf(c, file[c])) \in Nat
         /\ depth[c] # 0 => Path(c) # <<>> /\ Parent(Path(c)) = PrefixOf(CopyOf(c, file[c]), depth[c] - 1)
<1> DEFINE S == Name \cup Seq(0 .. 9)
           t == CopyOf(c, file[c])
           n == depth[c]
<1>1. file[c] \in Files[c] \cup {<<>>} /\ n \in 0 .. Len(t)  BY DEF TreeInv, Sound
<1>2. t \in Seq(S)  BY <1>1, CopyType DEF Paths
<1>3. Path(c) = PrefixOf(t, n)  BY DEF Path
<1> HIDE DEF S, t, n
<1>4. PICK l \in Nat : l = Len(t)  BY <1>2, LenProperties
<1>5. n \in Nat /\ n <= l  BY <1>1, <1>4
<1>6. PrefixOf(t, n) \in Seq(S) /\ Len(PrefixOf(t, n)) = n
      /\ \A m \in 0 .. n : PrefixOf(PrefixOf(t, n), m) = PrefixOf(t, m)
  BY <1>1, <1>2, PrefixFacts
<1>7. ASSUME n # 0  PROVE Path(c) # <<>> /\ Parent(Path(c)) = PrefixOf(t, n - 1)
  <2>1. n - 1 \in 0 .. n  BY <1>5, <1>7
  <2>2. QED  BY <1>3, <1>6, <1>7, <2>1, EmptySeq DEF Parent
<1>8. Path(c) \in Paths  BY <1>3, <1>6 DEF S, Paths
<1>9. QED  BY <1>3, <1>4, <1>5, <1>6, <1>7, <1>8 DEF t, n

\* Steps that leave the disk and what the client is doing alone.
LEMMA NoDiskStep ==
  ASSUME TreeInv, NEW c \in Client,
         LookForOutput(c) \/ NextFile(c) \/ AllReceived(c) \/ StatDirectory(c) \/ StatFile(c)
  PROVE  TreeInv'
<1>1. UNCHANGED <<todo, fd, dirs, files, data>>
  BY DEF LookForOutput, NextFile, AllReceived, StatDirectory, StatFile
<1>2. DiskInv'  BY <1>1 DEF TreeInv, DiskInv
<1>3. Sound(c) /\ pc \in [Client -> Labels] /\ depth \in [Client -> Nat]
      /\ file \in [Client -> AllFiles \cup {<<>>}]
  BY DEF TreeInv, ControlTypes
<1>4. CASE LookForOutput(c) \/ AllReceived(c)
  <2>1. PICK l \in {"next", "makeoutput", "done"} : pc' = [pc EXCEPT ![c] = l]
    BY <1>4 DEF LookForOutput, AllReceived, Goto
  <2>2. UNCHANGED <<file, depth>>  BY <1>4 DEF LookForOutput, AllReceived
  <2>3. ControlTypes'  BY <1>1, <2>1, <2>2 DEF TreeInv, ControlTypes, Labels
  <2>4. pc'[c] = l /\ \A d \in Client \ {c} : pc'[d] = pc[d]  BY <1>3, <2>1
  <2>5. Sound(c)'  BY <1>1, <1>3, <2>2, <2>4 DEF Sound, Receiving
  <2>6. QED  BY <1>1, <1>2, <2>2, <2>3, <2>4, <2>5, OneClientMoves
<1>5. CASE NextFile(c)
  <2>1. PICK p \in todo[c] : file' = [file EXCEPT ![c] = p]  BY <1>5 DEF NextFile
  <2>2. pc' = [pc EXCEPT ![c] = "stat"] /\ depth' = [depth EXCEPT ![c] = 1]
    BY <1>5 DEF NextFile, Goto
  <2>3. p \in Files[c] /\ p \in AllFiles  BY <1>3 DEF Sound, AllFiles
  <2>4. ControlTypes'  BY <1>1, <2>1, <2>2, <2>3 DEF TreeInv, ControlTypes, Labels
  <2>5. /\ pc'[c] = "stat" /\ file'[c] = p /\ depth'[c] = 1
        /\ \A d \in Client \ {c} : pc'[d] = pc[d] /\ file'[d] = file[d] /\ depth'[d] = depth[d]
    BY <1>3, <2>1, <2>2
  <2>6. 1 \in 0 .. Len(CopyOf(c, p))
    <3>1. Len(CopyOf(c, p)) = 2 + Len(p) /\ Len(p) \in Nat  BY <2>3, CopyType
    <3>2. QED  BY <3>1
  <2>7. Sound(c)'  BY <1>1, <1>3, <2>3, <2>5, <2>6 DEF Sound, Receiving
  <2>8. QED  BY <1>1, <1>2, <2>4, <2>5, <2>7, OneClientMoves
<1>6. CASE StatDirectory(c)
  <2>1. pc[c] = "stat" /\ ~AtFile(c) /\ UNCHANGED file  BY <1>6 DEF StatDirectory
  <2>2. PICK k \in Nat : k = Len(CopyOf(c, file[c]))  BY PathType
  <2>3. depth[c] \in Nat /\ depth[c] + 1 \in 0 .. k /\ depth[c] # 0
    BY <1>3, <2>1, <2>2, PathType DEF AtFile, Sound, Receiving
  <2>4. CASE ~Exists(Path(c)) /\ Parent(Path(c)) \in dirs
    <3>1. pc' = [pc EXCEPT ![c] = "mkdir"] /\ UNCHANGED depth
      BY <1>6, <2>4 DEF StatDirectory, Goto
    <3>2. ControlTypes'  BY <1>1, <2>1, <3>1 DEF TreeInv, ControlTypes, Labels
    <3>3. pc'[c] = "mkdir" /\ \A d \in Client \ {c} : pc'[d] = pc[d]  BY <1>3, <3>1
    <3>4. Path(c)' = Path(c) /\ AtFile(c)' = AtFile(c)  BY <2>1, <3>1 DEF Path, AtFile
    <3>5. Sound(c)'  BY <1>1, <1>3, <2>1, <2>4, <3>1, <3>3, <3>4 DEF Sound, Receiving
    <3>6. QED  BY <1>1, <1>2, <2>1, <3>1, <3>2, <3>3, <3>5, OneClientMoves
  <2>5. CASE ~(~Exists(Path(c)) /\ Parent(Path(c)) \in dirs)
    <3>1. depth' = [depth EXCEPT ![c] = @ + 1] /\ UNCHANGED pc
      BY <1>6, <2>5 DEF StatDirectory
    <3>2. ControlTypes'  BY <1>1, <1>3, <2>1, <3>1 DEF TreeInv, ControlTypes
    <3>3. depth'[c] = depth[c] + 1 /\ \A d \in Client \ {c} : depth'[d] = depth[d]  BY <1>3, <3>1
    <3>4. depth'[c] \in 0 .. Len(CopyOf(c, file'[c])) /\ depth'[c] # 0  BY <2>1, <2>2, <2>3, <3>3
    <3>5. Sound(c)'  BY <1>1, <1>3, <2>1, <3>1, <3>4 DEF Sound, Receiving
    <3>6. QED  BY <1>1, <1>2, <2>1, <3>1, <3>2, <3>3, <3>5, OneClientMoves
  <2>6. QED  BY <2>4, <2>5
<1>7. CASE StatFile(c)
  <2>1. pc[c] = "stat" /\ AtFile(c) /\ UNCHANGED <<file, depth>>  BY <1>7 DEF StatFile
  <2>2. PICK l \in {"unlink", "open"} : pc' = [pc EXCEPT ![c] = l]  BY <1>7 DEF StatFile, Goto
  <2>3. ControlTypes'  BY <1>1, <2>1, <2>2 DEF TreeInv, ControlTypes, Labels
  <2>4. pc'[c] = l /\ \A d \in Client \ {c} : pc'[d] = pc[d]  BY <1>3, <2>2
  <2>5. AtFile(c)' = AtFile(c)  BY <2>1 DEF AtFile
  <2>6. Sound(c)'  BY <1>1, <1>3, <2>1, <2>4, <2>5 DEF Sound, Receiving
  <2>7. QED  BY <1>1, <1>2, <2>1, <2>3, <2>4, <2>6, OneClientMoves
<1>8. QED  BY <1>4, <1>5, <1>6, <1>7

LEMMA MakeStep ==
  ASSUME TreeInv, NEW c \in Client, MakeOutput(c) \/ MakeDirectory(c)
  PROVE  TreeInv'
<1>1. UNCHANGED <<todo, file, fd, files, data>>  BY DEF MakeOutput, MakeDirectory
<1>2. Sound(c) /\ DiskInv /\ pc \in [Client -> Labels] /\ depth \in [Client -> Nat]
  BY DEF TreeInv, ControlTypes
<1>3. CASE MakeOutput(c)
  <2>1. /\ pc' = [pc EXCEPT ![c] = "next"] /\ UNCHANGED depth
        /\ dirs' = IF Exists(OutputDir(c)) THEN dirs ELSE dirs \cup {OutputDir(c)}
    BY <1>3 DEF MakeOutput, Make, Goto
  <2>2. OutputDir(c) \in Paths /\ OutputDir(c) # <<>> /\ Parent(OutputDir(c)) \in dirs
    <3>1. OutputDir(c) \in Paths /\ Len(OutputDir(c)) = 1  BY CopyType
    <3>2. OutputDir(c) # <<>>  BY <3>1
    <3>3. 0 \in 0 .. 1 /\ 0 \in 0 .. Len(OutputDir(c))  BY <3>1
    <3>4. Len(Parent(OutputDir(c))) = 0 /\ Parent(OutputDir(c)) \in Paths
      BY <3>1, <3>3, PrefixFacts DEF Parent, Paths
    <3>5. Parent(OutputDir(c)) = <<>>  BY <3>4, EmptySeq DEF Paths
    <3>6. QED  BY <1>2, <3>1, <3>2, <3>5 DEF DiskInv
  <2>3. DiskInv' /\ dirs \subseteq dirs'  BY <1>1, <1>2, <2>1, <2>2, MakeKeepsDisk
  <2>4. ControlTypes'  BY <1>1, <2>1 DEF TreeInv, ControlTypes, Labels
  <2>5. pc'[c] = "next" /\ \A d \in Client \ {c} : pc'[d] = pc[d]  BY <1>2, <2>1
  <2>6. Sound(c)'  BY <1>1, <1>2, <2>1, <2>5 DEF Sound, Receiving
  <2>7. QED  BY <1>1, <2>1, <2>3, <2>4, <2>5, <2>6, OneClientMoves
<1>4. CASE MakeDirectory(c)
  <2>1. /\ pc[c] = "mkdir" /\ pc' = [pc EXCEPT ![c] = "stat"]
        /\ depth' = [depth EXCEPT ![c] = @ + 1]
        /\ dirs' = IF Exists(Path(c)) THEN dirs ELSE dirs \cup {Path(c)}
    BY <1>4 DEF MakeDirectory, Make, Goto
  <2>2. /\ depth[c] # 0 /\ ~AtFile(c) /\ Parent(Path(c)) \in dirs
        /\ Path(c) \in Paths /\ Path(c) # <<>>
    BY <1>2, <2>1, PathType DEF Sound, Receiving
  <2>3. DiskInv' /\ dirs \subseteq dirs'  BY <1>1, <1>2, <2>1, <2>2, MakeKeepsDisk
  <2>4. ControlTypes'  BY <1>1, <1>2, <2>1 DEF TreeInv, ControlTypes, Labels
  <2>5. /\ pc'[c] = "stat" /\ depth'[c] = depth[c] + 1
        /\ \A d \in Client \ {c} : pc'[d] = pc[d] /\ depth'[d] = depth[d]
    BY <1>2, <2>1
  <2>6. depth'[c] \in 0 .. Len(CopyOf(c, file'[c])) /\ depth'[c] # 0
    <3>1. PICK k \in Nat : k = Len(CopyOf(c, file[c]))  BY PathType
    <3>2. depth[c] \in Nat /\ depth[c] + 1 \in 0 .. k  BY <2>2, <3>1, PathType DEF AtFile
    <3>3. QED  BY <1>1, <2>5, <3>1, <3>2
  <2>7. Sound(c)'  BY <1>1, <1>2, <2>1, <2>5, <2>6 DEF Sound, Receiving
  <2>8. QED  BY <1>1, <2>3, <2>4, <2>5, <2>7, OneClientMoves
<1>5. QED  BY <1>3, <1>4

LEMMA FileStep ==
  ASSUME TreeInv, NEW c \in Client, Unlink(c) \/ Open(c) \/ Write(c)
  PROVE  TreeInv'
<1>1. UNCHANGED <<file, depth, dirs>> /\ AtFile(c)' = AtFile(c)
  BY DEF Unlink, Open, Write, AtFile
<1>2. Sound(c) /\ DiskInv /\ pc \in [Client -> Labels] /\ DOMAIN fd = Client
      /\ todo \in [Client -> SUBSET AllFiles]
  BY DEF TreeInv, ControlTypes
<1>3. PICK l \in {"open", "failed", "write", "next"} : pc' = [pc EXCEPT ![c] = l]
  BY DEF Unlink, Open, Write, Goto
<1>4. pc'[c] = l /\ \A d \in Client \ {c} : pc'[d] = pc[d]  BY <1>2, <1>3
<1>5. CASE Unlink(c)
  <2>1. UNCHANGED <<todo, fd, data>> /\ l \in {"open", "failed"} /\ pc[c] = "unlink"
    BY <1>4, <1>5, <1>2 DEF Unlink, Goto
  <2>2. DOMAIN files' \subseteq DOMAIN files /\ \A p \in DOMAIN files' : files'[p] = files[p]
    BY <1>5 DEF Unlink
  <2>3. DiskInv'  BY <1>1, <1>2, <2>1, <2>2 DEF DiskInv
  <2>4. ControlTypes'  BY <1>1, <1>3, <2>1 DEF TreeInv, ControlTypes, Labels
  <2>5. Sound(c)'  BY <1>1, <1>2, <1>4, <2>1 DEF Sound, Receiving
  <2>6. QED  BY <1>1, <1>4, <2>1, <2>3, <2>4, <2>5, OneClientMoves
<1>6. CASE Open(c) /\ l = "failed"
  <2>1. pc[c] = "open" /\ UNCHANGED <<todo, fd, files, data>>
    BY <1>2, <1>4, <1>6 DEF Open, Goto
  <2>2. ControlTypes' /\ DiskInv'
    BY <1>1, <1>2, <1>3, <2>1 DEF TreeInv, ControlTypes, Labels, DiskInv
  <2>3. Sound(c)'  BY <1>1, <1>2, <1>4, <1>6, <2>1 DEF Sound, Receiving
  <2>4. QED  BY <1>1, <1>4, <2>1, <2>2, <2>3, OneClientMoves
<1>7. CASE Open(c) /\ l # "failed"
  <2>1. pc[c] = "open" /\ Parent(Path(c)) \in dirs /\ Path(c) \notin dirs /\ UNCHANGED todo
    BY <1>2, <1>4, <1>7 DEF Open, Goto
  <2>2. l = "write"  BY <1>2, <1>4, <1>7, <2>1 DEF Open, Goto
  <2>3. Path(c) \in Paths /\ Proper(Path(c)) \subseteq dirs /\ depth[c] # 0
    <3>1. depth[c] # 0  BY <1>2, <2>1 DEF Sound, Receiving
    <3>2. Path(c) \in Paths /\ Path(c) # <<>>  BY <3>1, PathType
    <3>3. QED  BY <1>2, <2>1, <3>1, <3>2, ParentFacts DEF DiskInv
  <2>4. PICK i : /\ fd' = [fd EXCEPT ![c] = i] /\ i \in DOMAIN data'
                 /\ DOMAIN data \subseteq DOMAIN data'
                 /\ DOMAIN files' = DOMAIN files \cup {Path(c)}
                 /\ \A p \in DOMAIN files' : files'[p] = i \/ (p \in DOMAIN files /\ files'[p] = files[p])
    <3>1. CASE Path(c) \in DOMAIN files
      <4>1. fd' = [fd EXCEPT ![c] = files[Path(c)]] /\ UNCHANGED <<files, data>>
        BY <1>7, <2>1, <3>1 DEF Open
      <4>2. files[Path(c)] \in DOMAIN data  BY <1>2, <3>1 DEF DiskInv
      <4>3. QED  BY <3>1, <4>1, <4>2
    <3>2. CASE Path(c) \notin DOMAIN files
      BY <1>7, <2>1, <3>2 DEF Open
    <3>3. QED  BY <3>1, <3>2
  <2>5. DiskInv'  BY <1>1, <1>2, <2>1, <2>3, <2>4 DEF DiskInv
  <2>6. ControlTypes'  BY <1>1, <1>3, <2>1, <2>4 DEF TreeInv, ControlTypes, Labels
  <2>7. fd'[c] = i /\ \A d \in Client \ {c} : fd'[d] = fd[d]  BY <1>2, <2>4
  <2>8. Sound(c)'  BY <1>1, <1>2, <1>4, <2>1, <2>2, <2>4, <2>7 DEF Sound, Receiving
  <2>9. QED  BY <1>1, <1>4, <2>1, <2>4, <2>5, <2>6, <2>7, <2>8, OneClientMoves
<1>8. CASE Write(c)
  <2>1. /\ todo' = [todo EXCEPT ![c] = @ \ {file[c]}] /\ UNCHANGED <<fd, files>>
        /\ DOMAIN data' = DOMAIN data /\ l = "next"
    BY <1>2, <1>4, <1>8 DEF Write, Goto
  <2>2. DiskInv'  BY <1>1, <1>2, <2>1 DEF DiskInv
  <2>3. todo'[c] = todo[c] \ {file[c]} /\ \A d \in Client \ {c} : todo'[d] = todo[d]
    BY <1>2, <2>1
  <2>4. ControlTypes'  BY <1>1, <1>2, <1>3, <2>1, <2>3 DEF TreeInv, ControlTypes, Labels
  <2>5. Sound(c)'  BY <1>1, <1>2, <1>4, <2>1, <2>3 DEF Sound, Receiving
  <2>6. QED  BY <1>1, <1>4, <2>1, <2>2, <2>3, <2>4, <2>5, OneClientMoves
<1>9. QED  BY <1>5, <1>6, <1>7, <1>8

LEMMA TreeInit == Init => TreeInv
<1> SUFFICES ASSUME Init  PROVE TreeInv  OBVIOUS
<1>1. ControlTypes
  <2>1. Files \in [Client -> SUBSET AllFiles]  BY TreeAssumption DEF AllFiles
  <2>2. pc \in [Client -> Labels] /\ depth \in [Client -> Nat] /\ DOMAIN fd = Client
    BY DEF Init, Labels
  <2>3. file \in [Client -> AllFiles \cup {<<>>}] /\ todo \in [Client -> SUBSET AllFiles]
    BY <2>1 DEF Init
  <2>4. QED  BY <2>2, <2>3 DEF ControlTypes
<1>2. PICK old \in OldCopies :
        files = [p \in old |-> Old] /\ dirs = {<<>>} \cup UNION {Proper(p) : p \in old}
  BY DEF Init
<1>3. old \subseteq Paths \ {<<>>} /\ \A p, q \in old : q \notin Proper(p)
  BY TreeAssumption DEF Paths, Proper, PrefixOf
<1>4. ASSUME NEW p \in Paths, NEW q \in Proper(p)
      PROVE  q \in Paths /\ Proper(q) \subseteq Proper(p) /\ (p # <<>> => <<>> \in Proper(p))
  <2> DEFINE S == Name \cup Seq(0 .. 9)
  <2>1. p \in Seq(S)  BY DEF Paths
  <2> HIDE DEF S
  <2>2. PICK l \in Nat : l = Len(p)  BY <2>1, LenProperties
  <2>3. PICK n \in 0 .. l - 1 : q = PrefixOf(p, n)  BY <2>2 DEF Proper
  <2>4. n \in 0 .. Len(p) /\ n \in Nat  BY <2>2
  <2>5. q \in Seq(S) /\ Len(q) = n /\ \A m \in 0 .. n : PrefixOf(q, m) = PrefixOf(p, m)
    BY <2>1, <2>3, <2>4, PrefixFacts
  <2>6. Proper(q) \subseteq Proper(p)
    <3>1. ASSUME NEW m \in 0 .. n - 1  PROVE PrefixOf(q, m) \in Proper(p)
      <4>1. m \in 0 .. Len(p) - 1 /\ m \in 0 .. n  BY <2>2, <2>4
      <4>2. PrefixOf(q, m) = PrefixOf(p, m)  BY <2>5, <4>1
      <4>3. QED  BY <4>1, <4>2 DEF Proper
    <3>2. QED  BY <2>5, <3>1 DEF Proper
  <2>7. p # <<>> => <<>> \in Proper(p)
    <3>1. SUFFICES ASSUME p # <<>>  PROVE <<>> \in Proper(p)  OBVIOUS
    <3>2. l # 0  BY <2>1, <2>2, <3>1, EmptySeq
    <3>3. 0 \in 0 .. Len(p) /\ 0 \in 0 .. Len(p) - 1  BY <2>2, <3>2
    <3>4. PrefixOf(p, 0) \in Seq(S) /\ Len(PrefixOf(p, 0)) = 0  BY <2>1, <3>3, PrefixFacts
    <3>5. PrefixOf(p, 0) = <<>>  BY <3>4, EmptySeq
    <3>6. QED  BY <3>3, <3>5 DEF Proper
  <2>8. q \in Paths  BY <2>5 DEF S, Paths
  <2>9. QED  BY <2>6, <2>7, <2>8
<1>5. <<>> \in Paths /\ Proper(<<>>) = {}
  <2>1. <<>> \in Paths /\ Len(<<>>) = 0  BY EmptySeq DEF Paths
  <2>2. 0 .. Len(<<>>) - 1 = {}  BY <2>1
  <2>3. QED  BY <2>1, <2>2 DEF Proper
<1>6. DiskInv
  <2>1. dirs \cup DOMAIN files \subseteq Paths  BY <1>2, <1>3, <1>4, <1>5
  <2>2. dirs \cap DOMAIN files = {}  BY <1>2, <1>3
  <2>3. ASSUME NEW p \in dirs \cup DOMAIN files  PROVE Proper(p) \subseteq dirs
    <3>1. CASE p = <<>>  BY <1>5, <3>1
    <3>2. CASE p \in old  BY <1>2, <3>2
    <3>3. ASSUME NEW q \in old, p \in Proper(q)  PROVE Proper(p) \subseteq dirs
      <4>1. Proper(p) \subseteq Proper(q)  BY <1>3, <1>4, <3>3
      <4>2. QED  BY <1>2, <4>1
    <3>4. QED  BY <1>2, <3>1, <3>2, <3>3
  <2>4. \A p \in DOMAIN files : files[p] \in DOMAIN data  BY <1>2 DEF Init
  <2>5. QED  BY <1>2, <2>1, <2>2, <2>3, <2>4 DEF DiskInv
<1>7. ASSUME NEW c \in Client  PROVE Sound(c)
  <2>1. /\ pc[c] = "output" /\ file[c] = <<>> /\ depth[c] = 0 /\ fd[c] = Old
        /\ todo[c] = Files[c] /\ Old \in DOMAIN data
    BY DEF Init
  <2>2. Len(CopyOf(c, <<>>)) = 2 + Len(<<>>) /\ Len(<<>>) \in Nat  BY CopyType
  <2>3. 0 \in 0 .. Len(CopyOf(c, <<>>))  BY <2>2
  <2>4. QED  BY <2>1, <2>3 DEF Sound, Receiving
<1>8. QED  BY <1>1, <1>6, <1>7 DEF TreeInv

LEMMA TreeInvariant == Spec => []TreeInv
<1>1. TreeInv /\ [Next]_vars => TreeInv'
  <2> SUFFICES ASSUME TreeInv, [Next]_vars  PROVE TreeInv'  OBVIOUS
  <2>1. CASE Next  BY <2>1, NoDiskStep, MakeStep, FileStep DEF Next
  <2>2. CASE UNCHANGED vars
    <3>1. UNCHANGED <<pc, todo, file, depth, fd, dirs, files, data>>  BY <2>2 DEF vars, clientVars
    <3>2. ControlTypes' /\ DiskInv'  BY <3>1 DEF TreeInv, ControlTypes, DiskInv
    <3>3. ASSUME NEW c \in Client  PROVE Sound(c)'
      <4>1. Sound(c)  BY DEF TreeInv
      <4>2. QED  BY <3>1, <4>1 DEF Sound, Path, AtFile
    <3>4. QED  BY <3>2, <3>3 DEF TreeInv
  <2>3. QED  BY <2>1, <2>2
<1>2. QED  BY <1>1, TreeInit, PTL DEF Spec

\* Whatever was on the disk and however the system calls of the clients
\* interleave: it stays a tree, in which everything is in a directory and
\* nothing is both a directory and a file (Client.c:70-133, 183-256).
THEOREM TypeCorrect == Spec => []TypeOK
<1>1. TreeInv => TypeOK
  <2> SUFFICES ASSUME TreeInv  PROVE TypeOK  OBVIOUS
  <2>1. ControlTypes /\ DiskInv /\ \A c \in Client : Sound(c)  BY DEF TreeInv
  <2>2. QED  BY <2>1 DEF ControlTypes, Labels, DiskInv, Sound, TypeOK
<1>2. QED  BY <1>1, TreeInvariant, PTL

-----------------------------------------------------------------------------
(* A client fails only in a conflict. *)

\* The client may fail over the file that it is at.
Excused(c) == Rivals(c, file[c]) # {} \/ Blocked(c, file[c])

\* Otherwise it has made, or found, every directory on its way so far.
Going(c) ==
  /\ pc[c] = "failed" => Excused(c)
  /\ pc[c] \in Receiving /\ ~Excused(c) =>
       /\ pc[c] = "unlink" => CopyOf(c, file[c]) \in DOMAIN files
       /\ \A n \in 0 .. depth[c] - 1 : PrefixOf(CopyOf(c, file[c]), n) \in dirs

AllGoing == \A c \in Client : Going(c)

\* What is on the way to a file of the server's directory is a directory there.
LEMMA DirsOnTheWay ==
  ASSUME NEW c \in Client, NEW p \in Files[c], NEW n \in 0 .. Len(p) - 1
  PROVE  PrefixOf(p, n) \in Dirs[c]
<1>1. p \in Seq(Name) /\ p # <<>>  BY TreeAssumption
<1>2. PICK l \in Nat : l = Len(p)  BY <1>1, LenProperties
<1> DEFINE S == {k \in Nat : k < l => PrefixOf(p, l - 1 - k) \in Dirs[c]}
<1>3. ASSUME NEW q \in Dirs[c] \cup Files[c], q # <<>>  PROVE PrefixOf(q, Len(q) - 1) \in Dirs[c]
  BY <1>3, TreeAssumption DEF PrefixOf
<1>4. 0 \in S
  <2>1. PrefixOf(p, l - 1) \in Dirs[c]  BY <1>1, <1>2, <1>3
  <2>2. l - 1 - 0 = l - 1  BY <1>2
  <2>3. QED  BY <2>1, <2>2
<1>5. ASSUME NEW k \in Nat, k \in S  PROVE k + 1 \in S
  <2> SUFFICES ASSUME k + 1 < l  PROVE PrefixOf(p, l - 1 - (k + 1)) \in Dirs[c]
    OBVIOUS
  <2> DEFINE q == PrefixOf(p, l - 1 - k)
  <2>1. q \in Dirs[c]  BY <1>2, <1>5
  <2>2. PICK m \in Nat : m = l - 1 - k /\ m # 0 /\ m - 1 = l - 1 - (k + 1)  BY <1>2
  <2>3. m \in 0 .. Len(p) /\ m - 1 \in 0 .. m  BY <1>2, <2>2
  <2>4. Len(PrefixOf(p, m)) = m /\ PrefixOf(PrefixOf(p, m), m - 1) = PrefixOf(p, m - 1)
        /\ PrefixOf(p, m) \in Seq(Name)
    BY <1>1, <2>3, PrefixFacts
  <2>5. q # <<>>  BY <2>2, <2>4, EmptySeq
  <2>6. PrefixOf(q, m - 1) \in Dirs[c]  BY <1>3, <2>1, <2>2, <2>4, <2>5
  <2>7. QED  BY <2>2, <2>4, <2>6
<1> HIDE DEF S
<1>6. Nat \subseteq S  BY <1>4, <1>5, NatSetInduction
<1>7. PICK k \in Nat : k < l /\ l - 1 - k = n
  <2>1. n \in Nat /\ l - 1 - n \in Nat /\ l - 1 - n < l /\ l - 1 - (l - 1 - n) = n  BY <1>2
  <2>2. QED  BY <2>1
<1>8. QED  BY <1>6, <1>7 DEF S

\* So a path to a file goes only through files of other clients that share the place.
LEMMA PrefixOfRival ==
  ASSUME NEW c \in Client, NEW d \in Client, NEW p \in Files[c], NEW q \in Files[d],
         CopyOf(d, q) \in Proper(CopyOf(c, p))
  PROVE  d # c /\ Same(c, d) /\ q \in Proper(p)
<1> DEFINE t == CopyOf(c, p)
           u == CopyOf(d, q)
<1>1. p \in Seq(Name) /\ q \in Seq(Name) /\ q # <<>>  BY TreeAssumption
<1>2. /\ t \in Paths /\ Len(t) = 2 + Len(p) /\ t[1] = OutputDir(c)[1] /\ t[2] = DirName[c]
      /\ \A i \in 1 .. Len(p) : t[2 + i] = p[i]
      /\ u \in Paths /\ Len(u) = 2 + Len(q) /\ u[1] = OutputDir(d)[1] /\ u[2] = DirName[d]
      /\ \A i \in 1 .. Len(q) : u[2 + i] = q[i]
  BY CopyType
<1>3. PICK lp \in Nat : lp = Len(p)  BY <1>1, LenProperties
<1>4. PICK lq \in Nat : lq = Len(q) /\ lq # 0
  <2>1. Len(q) \in Nat /\ Len(q) # 0  BY <1>1, LenProperties, EmptySeq
  <2>2. QED  BY <2>1
<1>5. PICK n \in 0 .. Len(t) - 1 : u = PrefixOf(t, n)  BY DEF Proper
<1> HIDE DEF t, u
<1>6. n \in 0 .. Len(t)  BY <1>2, <1>3, <1>5
<1>7. Len(u) = n /\ \A i \in 1 .. n : u[i] = t[i]  BY <1>2, <1>5, <1>6, PrefixFacts DEF Paths
<1>8. n = 2 + lq /\ lq <= lp - 1  BY <1>2, <1>3, <1>4, <1>5, <1>7
<1>9. Same(c, d)
  <2>1. 1 \in 1 .. n /\ 2 \in 1 .. n  BY <1>8
  <2>2. OutputDir(c)[1] = OutputDir(d)[1] /\ DirName[c] = DirName[d]  BY <1>2, <1>7, <2>1
  <2>3. OutputDir(c) = OutputDir(d)
    <3>1. PICK x : OutputDir(c) = <<x>>  BY OutputDirType
    <3>2. PICK y : OutputDir(d) = <<y>>  BY OutputDirType
    <3>3. QED  BY <2>2, <3>1, <3>2
  <2>4. QED  BY <2>2, <2>3 DEF Same
<1>10. q = PrefixOf(p, lq)
  <2>1. lq \in 0 .. Len(p)  BY <1>3, <1>8
  <2>2. /\ PrefixOf(p, lq) \in Seq(Name) /\ Len(PrefixOf(p, lq)) = lq
        /\ \A i \in 1 .. lq : PrefixOf(p, lq)[i] = p[i]
    BY <1>1, <2>1, PrefixFacts
  <2>3. ASSUME NEW i \in 1 .. lq  PROVE q[i] = PrefixOf(p, lq)[i]
    <3>1. 2 + i \in 1 .. n /\ i \in 1 .. Len(p) /\ i \in 1 .. Len(q)  BY <1>3, <1>4, <1>8
    <3>2. q[i] = p[i]  BY <1>2, <1>7, <3>1
    <3>3. QED  BY <2>2, <3>2
  <2>4. QED  BY <1>1, <1>4, <2>2, <2>3, SeqEqual
<1>11. lq \in 0 .. Len(p) - 1  BY <1>3, <1>8
<1>12. q \in Dirs[c] /\ q \in Proper(p)
  <2>1. q \in Dirs[c]  BY <1>10, <1>11, DirsOnTheWay
  <2>2. q \in Proper(p)  BY <1>10, <1>11 DEF Proper
  <2>3. QED  BY <2>1, <2>2
<1>13. d # c  BY <1>12, TreeAssumption
<1>14. QED  BY <1>9, <1>12, <1>13

\* A path of client c that is not yet at its file.
LEMMA OnTheWay ==
  ASSUME TreeInv, NEW c \in Client, pc[c] \in Receiving, ~AtFile(c)
  PROVE  /\ Path(c) \in Proper(CopyOf(c, file[c]))
         /\ Path(c) = PrefixOf(CopyOf(c, file[c]), depth[c])
<1>1. PICK k \in Nat : k = Len(CopyOf(c, file[c]))  BY PathType
<1>2. depth[c] \in Nat /\ depth[c] <= k /\ depth[c] # k  BY <1>1, PathType DEF AtFile
<1>3. depth[c] \in 0 .. Len(CopyOf(c, file[c])) - 1  BY <1>1, <1>2
<1>4. QED  BY <1>3 DEF Path, Proper

\* A client that is excused stays so: directories stay, and a file on its way is
\* deleted by a rival only.
LEMMA ExcusedStays ==
  ASSUME TreeInv, NEW c \in Client, file[c] \in Files[c], file'[c] = file[c], Excused(c),
         dirs \subseteq dirs', NEW d \in Client, DOMAIN files \subseteq DOMAIN files' \/ Unlink(d)
  PROVE  Excused(c)'
<1> DEFINE P == CopyOf(c, file[c])
<1>1. CASE Rivals(c, file[c]) # {}  BY <1>1 DEF Excused
<1>2. CASE P \in dirs  BY <1>2 DEF Excused, Blocked
<1>3. ASSUME NEW q \in Proper(P), q \in DOMAIN files  PROVE Excused(c)'
  <2>1. CASE q \in DOMAIN files'  BY <1>3, <2>1 DEF Excused, Blocked
  <2>2. CASE q \notin DOMAIN files'
    <3>1. pc[d] = "unlink" /\ q = Path(d)  BY <1>3, <2>2 DEF Unlink
    <3>2. file[d] \in Files[d] /\ q = CopyOf(d, file[d])
      BY <3>1, WholePath DEF TreeInv, Sound, Receiving
    <3>3. d # c /\ Same(c, d) /\ file[d] \in Proper(file[c])
      BY <1>3, <3>2, PrefixOfRival
    <3>4. Rivals(c, file[c]) # {}  BY <3>2, <3>3 DEF Rivals
    <3>5. QED  BY <3>4 DEF Excused
  <2>3. QED  BY <2>1, <2>2
<1>4. QED  BY <1>1, <1>2, <1>3 DEF Excused, Blocked

\* The other clients go on as before, or are excused.
LEMMA OthersGo ==
  ASSUME TreeInv, AllGoing, NEW c \in Client, Going(c)', dirs \subseteq dirs',
         \A d \in Client \ {c} : pc'[d] = pc[d] /\ file'[d] = file[d] /\ depth'[d] = depth[d],
         DOMAIN files \subseteq DOMAIN files' \/
           (Unlink(c) /\ file[c] \in Files[c] /\ DOMAIN files \subseteq DOMAIN files' \cup {CopyOf(c, file[c])})
  PROVE  AllGoing'
<1>1. ASSUME NEW d \in Client, d # c  PROVE Going(d)'
  <2>1. Going(d) /\ Sound(d)  BY DEF AllGoing, TreeInv
  <2>2. pc'[d] = pc[d] /\ file'[d] = file[d] /\ depth'[d] = depth[d]  BY <1>1
  <2>3. pc[d] \in Receiving \cup {"failed"} /\ Excused(d) => Excused(d)'
    <3>1. pc[d] \in Receiving \cup {"failed"} => file[d] \in Files[d]  BY <2>1 DEF Sound
    <3>2. QED  BY <2>2, <3>1, ExcusedStays
  <2>4. ASSUME pc[d] = "unlink", ~Excused(d), CopyOf(d, file[d]) \in DOMAIN files
        PROVE  CopyOf(d, file[d]) \in DOMAIN files'
    <3>1. file[d] \in Files[d]  BY <2>1, <2>4 DEF Sound, Receiving
    <3>2. ASSUME file[c] \in Files[c], CopyOf(d, file[d]) = CopyOf(c, file[c])  PROVE FALSE
      <4>1. file[d] = file[c] /\ Same(d, c)  BY <3>1, <3>2, SamePath
      <4>2. c \in Rivals(d, file[d])  BY <1>1, <3>2, <4>1 DEF Rivals
      <4>3. QED  BY <2>4, <4>2 DEF Excused
    <3>3. QED  BY <2>4, <3>2
  <2>5. pc[d] = "failed" => Excused(d)'  BY <2>1, <2>3 DEF Going
  <2>6. ASSUME pc[d] \in Receiving, ~Excused(d)'
        PROVE  /\ pc[d] = "unlink" => CopyOf(d, file[d]) \in DOMAIN files'
               /\ \A n \in 0 .. depth[d] - 1 : PrefixOf(CopyOf(d, file[d]), n) \in dirs'
    <3>1. ~Excused(d)  BY <2>3, <2>6
    <3>2. QED  BY <2>1, <2>4, <2>6, <3>1 DEF Going
  <2>7. QED  BY <2>2, <2>5, <2>6 DEF Going
<1>2. QED  BY <1>1 DEF AllGoing

LEMMA WalkingGoes ==
  ASSUME TreeInv, AllGoing, NEW c \in Client,
         LookForOutput(c) \/ NextFile(c) \/ AllReceived(c) \/ StatDirectory(c) \/ StatFile(c)
  PROVE  AllGoing'
<1>1. UNCHANGED <<dirs, files>>
  BY DEF LookForOutput, NextFile, AllReceived, StatDirectory, StatFile
<1>2. /\ Sound(c) /\ Going(c) /\ pc \in [Client -> Labels] /\ depth \in [Client -> Nat]
      /\ file \in [Client -> AllFiles \cup {<<>>}] /\ <<>> \in dirs
  BY DEF TreeInv, ControlTypes, AllGoing, DiskInv
<1>3. CASE LookForOutput(c) \/ AllReceived(c)
  <2>1. PICK l \in {"next", "makeoutput", "done"} : pc' = [pc EXCEPT ![c] = l]
    BY <1>3 DEF LookForOutput, AllReceived, Goto
  <2>2. UNCHANGED <<file, depth>>  BY <1>3 DEF LookForOutput, AllReceived
  <2>3. pc'[c] = l /\ \A d \in Client \ {c} : pc'[d] = pc[d]  BY <1>2, <2>1
  <2>4. Going(c)'  BY <2>3 DEF Going, Receiving
  <2>5. QED  BY <1>1, <2>2, <2>3, <2>4, OthersGo
<1>4. CASE NextFile(c)
  <2>1. PICK p \in todo[c] : file' = [file EXCEPT ![c] = p]  BY <1>4 DEF NextFile
  <2>2. pc' = [pc EXCEPT ![c] = "stat"] /\ depth' = [depth EXCEPT ![c] = 1]
    BY <1>4 DEF NextFile, Goto
  <2>3. p \in Files[c]  BY <1>2 DEF Sound
  <2>4. /\ pc'[c] = "stat" /\ file'[c] = p /\ depth'[c] = 1
        /\ \A d \in Client \ {c} : pc'[d] = pc[d] /\ file'[d] = file[d] /\ depth'[d] = depth[d]
    BY <1>2, <2>1, <2>2
  <2>5. PrefixOf(CopyOf(c, p), 0) = <<>>
    <3>1. CopyOf(c, p) \in Paths /\ Len(CopyOf(c, p)) = 2 + Len(p) /\ Len(p) \in Nat
      BY <2>3, CopyType
    <3>2. 0 \in 0 .. Len(CopyOf(c, p))  BY <3>1
    <3>3. PrefixOf(CopyOf(c, p), 0) \in Paths /\ Len(PrefixOf(CopyOf(c, p), 0)) = 0
      BY <3>1, <3>2, PrefixFacts DEF Paths
    <3>4. QED  BY <3>3, EmptySeq DEF Paths
  <2>6. \A n \in 0 .. 1 - 1 : n = 0  OBVIOUS
  <2>7. Going(c)'  BY <1>1, <1>2, <2>4, <2>5, <2>6 DEF Going
  <2>8. QED  BY <1>1, <2>4, <2>7, OthersGo
<1>5. CASE StatDirectory(c)
  <2>1. pc[c] = "stat" /\ ~AtFile(c) /\ UNCHANGED file  BY <1>5 DEF StatDirectory
  <2>2. /\ Path(c) \in Proper(CopyOf(c, file[c])) /\ file[c] \in Files[c]
        /\ Path(c) = PrefixOf(CopyOf(c, file[c]), depth[c])
        /\ depth[c] \in Nat /\ depth[c] # 0
        /\ Parent(Path(c)) = PrefixOf(CopyOf(c, file[c]), depth[c] - 1)
    BY <1>2, <2>1, OnTheWay, PathType DEF Sound, Receiving
  <2>3. Excused(c)' = Excused(c)  BY <1>1, <2>1 DEF Excused, Blocked
  <2>4. ASSUME ~Excused(c)
        PROVE  /\ Path(c) \notin DOMAIN files
               /\ \A n \in 0 .. depth[c] - 1 : PrefixOf(CopyOf(c, file[c]), n) \in dirs
    BY <1>2, <2>1, <2>2, <2>4 DEF Excused, Blocked, Going, Receiving
  <2>5. CASE ~Exists(Path(c)) /\ Parent(Path(c)) \in dirs
    <3>1. pc' = [pc EXCEPT ![c] = "mkdir"] /\ UNCHANGED depth
      BY <1>5, <2>5 DEF StatDirectory, Goto
    <3>2. pc'[c] = "mkdir" /\ \A d \in Client \ {c} : pc'[d] = pc[d]  BY <1>2, <3>1
    <3>3. Going(c)'  BY <1>1, <2>1, <2>3, <2>4, <3>1, <3>2 DEF Going
    <3>4. QED  BY <1>1, <2>1, <3>1, <3>2, <3>3, OthersGo
  <2>6. CASE ~(~Exists(Path(c)) /\ Parent(Path(c)) \in dirs)
    <3>1. depth' = [depth EXCEPT ![c] = @ + 1] /\ UNCHANGED pc
      BY <1>5, <2>6 DEF StatDirectory
    <3>2. depth'[c] = depth[c] + 1 /\ \A d \in Client \ {c} : depth'[d] = depth[d]  BY <1>2, <3>1
    <3>3. ASSUME ~Excused(c)
          PROVE  \A n \in 0 .. depth'[c] - 1 : PrefixOf(CopyOf(c, file[c]), n) \in dirs
      <4>1. depth[c] - 1 \in 0 .. depth[c] - 1  BY <2>2
      <4>2. Path(c) \in dirs  BY <2>2, <2>4, <2>6, <3>3, <4>1 DEF Exists
      <4>3. \A n \in 0 .. depth'[c] - 1 : n \in 0 .. depth[c] - 1 \/ n = depth[c]  BY <2>2, <3>2
      <4>4. QED  BY <2>2, <2>4, <3>3, <4>2, <4>3
    <3>4. Going(c)'  BY <1>1, <2>1, <2>3, <3>1, <3>3 DEF Going
    <3>5. QED  BY <1>1, <2>1, <3>1, <3>2, <3>4, OthersGo
  <2>7. QED  BY <2>5, <2>6
<1>6. CASE StatFile(c)
  <2>1. pc[c] = "stat" /\ AtFile(c) /\ UNCHANGED <<file, depth>>  BY <1>6 DEF StatFile
  <2>2. file[c] \in Files[c] /\ Path(c) = CopyOf(c, file[c])
    BY <1>2, <2>1, WholePath DEF Sound, Receiving
  <2>3. Excused(c)' = Excused(c)  BY <1>1, <2>1 DEF Excused, Blocked
  <2>4. Exists(Path(c)) /\ ~Excused(c) => CopyOf(c, file[c]) \in DOMAIN files
    BY <2>2 DEF Exists, Excused, Blocked
  <2>5. PICK l \in {"unlink", "open"} :
          pc' = [pc EXCEPT ![c] = l] /\ (l = "unlink" => Exists(Path(c)))
    BY <1>6 DEF StatFile, Goto
  <2>6. pc'[c] = l /\ \A d \in Client \ {c} : pc'[d] = pc[d]  BY <1>2, <2>5
  <2>7. ~Excused(c) => \A n \in 0 .. depth[c] - 1 : PrefixOf(CopyOf(c, file[c]), n) \in dirs
    BY <1>2, <2>1 DEF Going, Receiving
  <2>8. Going(c)'  BY <1>1, <2>1, <2>3, <2>4, <2>5, <2>6, <2>7 DEF Going
  <2>9. QED  BY <1>1, <2>1, <2>6, <2>8, OthersGo
<1>7. QED  BY <1>3, <1>4, <1>5, <1>6

LEMMA MakingGoes ==
  ASSUME TreeInv, AllGoing, NEW c \in Client, MakeOutput(c) \/ MakeDirectory(c)
  PROVE  AllGoing'
<1>1. UNCHANGED <<file, files>>  BY DEF MakeOutput, MakeDirectory
<1>2. Sound(c) /\ Going(c) /\ pc \in [Client -> Labels] /\ depth \in [Client -> Nat]
  BY DEF TreeInv, ControlTypes, AllGoing
<1>3. CASE MakeOutput(c)
  <2>1. /\ pc' = [pc EXCEPT ![c] = "next"] /\ UNCHANGED depth
        /\ dirs' = IF Exists(OutputDir(c)) THEN dirs ELSE dirs \cup {OutputDir(c)}
    BY <1>3 DEF MakeOutput, Make, Goto
  <2>2. pc'[c] = "next" /\ \A d \in Client \ {c} : pc'[d] = pc[d]  BY <1>2, <2>1
  <2>3. Going(c)'  BY <2>2 DEF Going, Receiving
  <2>4. dirs \subseteq dirs'  BY <2>1
  <2>5. QED  BY <1>1, <2>1, <2>2, <2>3, <2>4, OthersGo
<1>4. CASE MakeDirectory(c)
  <2>1. /\ pc[c] = "mkdir" /\ pc' = [pc EXCEPT ![c] = "stat"]
        /\ depth' = [depth EXCEPT ![c] = @ + 1]
        /\ dirs' = IF Exists(Path(c)) THEN dirs ELSE dirs \cup {Path(c)}
    BY <1>4 DEF MakeDirectory, Make, Goto
  <2>2. /\ Path(c) \in Proper(CopyOf(c, file[c])) /\ file[c] \in Files[c]
        /\ Path(c) = PrefixOf(CopyOf(c, file[c]), depth[c]) /\ depth[c] \in Nat
    BY <1>2, <2>1, OnTheWay, PathType DEF Sound, Receiving
  <2>3. dirs \subseteq dirs'  BY <2>1
  <2>4. /\ pc'[c] = "stat" /\ depth'[c] = depth[c] + 1
        /\ \A d \in Client \ {c} : pc'[d] = pc[d] /\ depth'[d] = depth[d]
    BY <1>2, <2>1
  <2>5. Excused(c) => Excused(c)'  BY <1>1, <2>3 DEF Excused, Blocked
  <2>6. ASSUME ~Excused(c)'
        PROVE  \A n \in 0 .. depth'[c] - 1 : PrefixOf(CopyOf(c, file[c]), n) \in dirs'
    <3>1. Path(c) \notin DOMAIN files  BY <1>1, <2>2, <2>6 DEF Excused, Blocked
    <3>2. Path(c) \in dirs'  BY <2>1, <3>1 DEF Exists
    <3>3. \A n \in 0 .. depth[c] - 1 : PrefixOf(CopyOf(c, file[c]), n) \in dirs
      BY <1>2, <2>1, <2>5, <2>6 DEF Going, Receiving
    <3>4. \A n \in 0 .. depth'[c] - 1 : n \in 0 .. depth[c] - 1 \/ n = depth[c]  BY <2>2, <2>4
    <3>5. QED  BY <2>2, <2>3, <3>2, <3>3, <3>4
  <2>7. Going(c)'  BY <1>1, <2>4, <2>6 DEF Going
  <2>8. QED  BY <1>1, <2>3, <2>4, <2>7, OthersGo
<1>5. QED  BY <1>3, <1>4

LEMMA FileGoes ==
  ASSUME TreeInv, AllGoing, NEW c \in Client, Unlink(c) \/ Open(c) \/ Write(c)
  PROVE  AllGoing'
<1>1. UNCHANGED <<file, depth, dirs>>  BY DEF Unlink, Open, Write
<1>2. Sound(c) /\ Going(c) /\ pc \in [Client -> Labels]
  BY DEF TreeInv, ControlTypes, AllGoing
<1>3. pc[c] \in {"unlink", "open", "write"} /\ file[c] \in Files[c] /\ depth[c] # 0
  BY <1>2 DEF Unlink, Open, Write, Sound, Receiving
<1>4. ~Excused(c) => \A n \in 0 .. depth[c] - 1 : PrefixOf(CopyOf(c, file[c]), n) \in dirs
  BY <1>2, <1>3 DEF Going, Receiving
<1>5. pc[c] \in {"unlink", "open"} => Path(c) = CopyOf(c, file[c])
  BY <1>2, <1>3, WholePath DEF Sound
<1>6. CASE Unlink(c)
  <2>1. Excused(c) => Excused(c)'  BY <1>1, <1>3, <1>6, ExcusedStays
  <2>2. PICK l \in {"open", "failed"} :
          /\ pc' = [pc EXCEPT ![c] = l]
          /\ l = "failed" => CopyOf(c, file[c]) \notin DOMAIN files
    BY <1>5, <1>6 DEF Unlink, Goto
  <2>3. pc'[c] = l /\ \A d \in Client \ {c} : pc'[d] = pc[d]  BY <1>2, <2>2
  <2>4. pc[c] = "unlink" /\ DOMAIN files \subseteq DOMAIN files' \cup {CopyOf(c, file[c])}
    BY <1>5, <1>6 DEF Unlink
  <2>5. l = "failed" => Excused(c)  BY <1>2, <2>2, <2>4 DEF Going, Receiving
  <2>6. Going(c)'  BY <1>1, <1>4, <2>1, <2>2, <2>3, <2>5 DEF Going
  <2>7. QED  BY <1>1, <1>3, <1>6, <2>3, <2>4, <2>6, OthersGo
<1>7. CASE Open(c)
  <2>1. pc[c] = "open" /\ Path(c) = CopyOf(c, file[c])  BY <1>5, <1>7 DEF Open
  <2>2. PICK l \in {"write", "failed"} :
          /\ pc' = [pc EXCEPT ![c] = l] /\ DOMAIN files \subseteq DOMAIN files'
          /\ l = "failed" => Parent(Path(c)) \notin dirs \/ Path(c) \in dirs
    BY <1>7 DEF Open, Goto
  <2>3. pc'[c] = l /\ \A d \in Client \ {c} : pc'[d] = pc[d]  BY <1>2, <2>2
  <2>4. l = "failed" => Excused(c)
    <3>1. SUFFICES ASSUME ~Excused(c)
                   PROVE  Parent(Path(c)) \in dirs /\ Path(c) \notin dirs
      BY <2>2
    <3>2. Path(c) \notin dirs  BY <2>1, <3>1 DEF Excused, Blocked
    <3>3. depth[c] \in Nat /\ Parent(Path(c)) = PrefixOf(CopyOf(c, file[c]), depth[c] - 1)
      BY <1>3, PathType
    <3>4. depth[c] - 1 \in 0 .. depth[c] - 1  BY <1>3, <3>3
    <3>5. QED  BY <1>4, <3>1, <3>2, <3>3, <3>4
  <2>5. Excused(c) => Excused(c)'  BY <1>1, <1>3, <2>2, ExcusedStays
  <2>6. Going(c)'  BY <1>1, <1>4, <2>3, <2>4, <2>5 DEF Going
  <2>7. QED  BY <1>1, <2>2, <2>3, <2>6, OthersGo
<1>8. CASE Write(c)
  <2>1. pc' = [pc EXCEPT ![c] = "next"] /\ UNCHANGED files  BY <1>8 DEF Write, Goto
  <2>2. pc'[c] = "next" /\ \A d \in Client \ {c} : pc'[d] = pc[d]  BY <1>2, <2>1
  <2>3. Going(c)'  BY <2>2 DEF Going, Receiving
  <2>4. QED  BY <1>1, <2>1, <2>2, <2>3, OthersGo
<1>9. QED  BY <1>6, <1>7, <1>8

\* A client fails only over a file that clients in the same place want as well,
\* or want to be a directory, or that does not fit what is on the disk: a
\* directory that another client made first is as good as an own one, and no
\* other file is unlinked by somebody else (Client.c:81-84, 232-243).
THEOREM ClientsGetThrough == Spec => []FailsOnlyInConflict
<1>1. Init => AllGoing
  <2> SUFFICES ASSUME Init  PROVE AllGoing  OBVIOUS
  <2>1. QED  BY DEF Init, AllGoing, Going, Receiving
<1>2. TreeInv /\ AllGoing /\ [Next]_vars => AllGoing'
  <2> SUFFICES ASSUME TreeInv, AllGoing, [Next]_vars  PROVE AllGoing'  OBVIOUS
  <2>1. CASE Next  BY <2>1, WalkingGoes, MakingGoes, FileGoes DEF Next
  <2>2. CASE UNCHANGED vars
    <3>1. UNCHANGED <<pc, todo, file, depth, fd, dirs, files, data>>  BY <2>2 DEF vars, clientVars
    <3>2. QED  BY <3>1 DEF AllGoing, Going, Excused, Blocked
  <2>3. QED  BY <2>1, <2>2
<1>3. TreeInv /\ AllGoing => FailsOnlyInConflict
  BY DEF TreeInv, Sound, AllGoing, Going, Excused, FailsOnlyInConflict
<1>4. QED  BY <1>1, <1>2, <1>3, TreeInvariant, PTL DEF Spec
=============================================================================
