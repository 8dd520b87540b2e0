------------------------------- MODULE TreeCopy -------------------------------
(***************************************************************************)
(* The copies on the clients' disk: Client_CopyFiles (Client.c:70-133)     *)
(* with the file system calls of Client_Resolve_FilePath (Client.c:183),   *)
(* one action per call, for several clients that run in one directory.     *)
(*                                                                         *)
(* The server's side comes from the other modules: it sends every regular  *)
(* file of the directory once, in any order (DirectoryScan), and the       *)
(* client receives its bytes (BlockTransfer).  A path of a copy is a       *)
(* sequence of names: output_dir, then the name of the directory that was  *)
(* asked for, then the file's place in it (ClientPath).                    *)
(*                                                                         *)
(* output_dir is "SERVER_COPY_" and the process id, but the buffer has     *)
(* room for PidRoom digits only, and snprintf(3) leaves out the rest.      *)
(***************************************************************************)
EXTENDS Naturals, Sequences, FiniteSets

CONSTANTS
  Client,
  Name,       \* names of files and directories
  Pid,        \* digits of the process id of each client
  PidRoom,    \* 5
  DirName,    \* last name of the directory each client asks for
  Dirs,       \* its directories, as paths below it (<<>> is itself)
  Files,      \* its regular files
  OldCopies   \* sets of files that earlier clients can have left behind

ASSUME TreeAssumption ==
  /\ Pid \in [Client -> Seq(0 .. 9) \ {<<>>}]
  /\ DirName \in [Client -> Name]
  /\ Files \in [Client -> SUBSET (Seq(Name) \ {<<>>})]
  /\ \A c \in Client :
       /\ <<>> \in Dirs[c] /\ Dirs[c] \cap Files[c] = {}
       /\ \A p \in Dirs[c] \cup Files[c] :
            p # <<>> => SubSeq(p, 1, Len(p) - 1) \in Dirs[c]
  /\ PidRoom \in Nat \ {0}
  /\ \A old \in OldCopies :
       /\ old \subseteq Seq(Name \cup Seq(0 .. 9)) \ {<<>>}
       /\ \A p, q \in old : \A n \in 0 .. Len(p) - 1 : SubSeq(p, 1, n) # q

VARIABLES
  pc, todo,       \* clients: control point; files the server has yet to send
  file, depth,    \* the file being received; names of its path dealt with
  fd,             \* the inode its copy was opened as
  dirs, files,    \* local file system: directories, and files with their inodes
  data            \* what was written to each inode

clientVars == <<pc, todo, file, depth, fd>>
vars == <<clientVars, dirs, files, data>>

PrefixOf(p, n) == SubSeq(p, 1, n)
Parent(p) == PrefixOf(p, Len(p) - 1)
Proper(p) == {PrefixOf(p, n) : n \in 0 .. Len(p) - 1}

\* snprintf cuts the process id.
OutputDir(c) ==
  IF Len(Pid[c]) <= PidRoom THEN <<Pid[c]>> ELSE <<PrefixOf(Pid[c], PidRoom)>>
CopyOf(c, p) == OutputDir(c) \o <<DirName[c]>> \o p

\* Inodes are named by who made them; content by client and file.
Old == <<"old">>
Inode(c, p) == <<c, p>>
Exists(p) == p \in dirs \/ p \in DOMAIN files

Init ==
  /\ pc = [c \in Client |-> "output"] /\ todo = Files
  /\ file = [c \in Client |-> <<>>] /\ depth = [c \in Client |-> 0]
  /\ fd = [c \in Client |-> Old]
  /\ \E old \in OldCopies :
       /\ files = [p \in old |-> Old]
       /\ dirs = {<<>>} \cup UNION {Proper(p) : p \in old}
  /\ data = [i \in {Old} |-> {Old}]

Goto(c, label) == pc' = [pc EXCEPT ![c] = label]
Path(c) == PrefixOf(CopyOf(c, file[c]), depth[c])

\* A faulty client that takes the last name for a directory as well.
AtFileTooLate(c) == depth[c] > Len(CopyOf(c, file[c]))
AtFile(c) == depth[c] = Len(CopyOf(c, file[c]))

-----------------------------------------------------------------------------
\* stat of output_dir.
LookForOutput(c) ==
  /\ pc[c] = "output"
  /\ Goto(c, IF Exists(OutputDir(c)) THEN "next" ELSE "makeoutput")
  /\ UNCHANGED <<todo, file, depth, fd, dirs, files, data>>

\* A faulty client that does not tolerate EEXIST.
MakeOnlyIfNew(c, p, label) ==
  IF Exists(p)
  THEN Goto(c, "failed") /\ UNCHANGED dirs
  ELSE Goto(c, label) /\ dirs' = dirs \cup {p}

\* mkdir: when it finds that somebody else was faster, that is as good.
Make(c, p, label) ==
  /\ Goto(c, label)
  /\ dirs' = IF Exists(p) THEN dirs ELSE dirs \cup {p}

MakeOutput(c) ==
  /\ pc[c] = "makeoutput"
  /\ Make(c, OutputDir(c), "next")
  /\ UNCHANGED <<todo, file, depth, fd, files, data>>

\* The metadata of the next file.  output_dir itself is looked at again.
NextFile(c) ==
  /\ pc[c] = "next" /\ todo[c] # {}
  /\ \E p \in todo[c] : file' = [file EXCEPT ![c] = p]
  /\ depth' = [depth EXCEPT ![c] = 1]
  /\ Goto(c, "stat")
  /\ UNCHANGED <<todo, fd, dirs, files, data>>

\* TERMINATION_MSG.
AllReceived(c) ==
  /\ pc[c] = "next" /\ todo[c] = {}
  /\ Goto(c, "done")
  /\ UNCHANGED <<todo, file, depth, fd, dirs, files, data>>

\* A directory on the way.  mkdir is for one that is missing (ENOENT), not
\* for one below a file (ENOTDIR).
StatDirectory(c) ==
  /\ pc[c] = "stat" /\ ~AtFile(c)
  /\ IF ~Exists(Path(c)) /\ Parent(Path(c)) \in dirs
     THEN Goto(c, "mkdir") /\ UNCHANGED depth
     ELSE depth' = [depth EXCEPT ![c] = @ + 1] /\ UNCHANGED pc
  /\ UNCHANGED <<todo, file, fd, dirs, files, data>>

MakeDirectory(c) ==
  /\ pc[c] = "mkdir"
  /\ Make(c, Path(c), "stat")
  /\ depth' = [depth EXCEPT ![c] = @ + 1]
  /\ UNCHANGED <<todo, file, fd, files, data>>

\* A faulty client that opens an old copy without deleting it.
StatFileOnly(c) ==
  /\ pc[c] = "stat" /\ AtFile(c)
  /\ Goto(c, "open")
  /\ UNCHANGED <<todo, file, depth, fd, dirs, files, data>>

StatFile(c) ==
  /\ pc[c] = "stat" /\ AtFile(c)
  /\ Goto(c, IF Exists(Path(c)) THEN "unlink" ELSE "open")
  /\ UNCHANGED <<todo, file, depth, fd, dirs, files, data>>

\* A copy that somebody has open lives on without a name.  unlink fails for a
\* directory and for a file that is gone, and Print_Error ends the client.
Unlink(c) ==
  /\ pc[c] = "unlink"
  /\ IF Path(c) \in DOMAIN files
     THEN /\ files' = [p \in DOMAIN files \ {Path(c)} |-> files[p]]
          /\ Goto(c, "open")
     ELSE Goto(c, "failed") /\ UNCHANGED files
  /\ UNCHANGED <<todo, file, depth, fd, dirs, data>>

\* open with O_CREAT and without O_TRUNC.
Open(c) ==
  /\ pc[c] = "open"
  /\ IF Parent(Path(c)) \notin dirs \/ Path(c) \in dirs
     THEN Goto(c, "failed") /\ UNCHANGED <<fd, files, data>>
     ELSE IF Path(c) \in DOMAIN files
     THEN /\ fd' = [fd EXCEPT ![c] = files[Path(c)]]
          /\ Goto(c, "write") /\ UNCHANGED <<files, data>>
     ELSE LET new == Inode(c, file[c]) IN
          /\ fd' = [fd EXCEPT ![c] = new]
          /\ files' = [p \in DOMAIN files \cup {Path(c)} |->
                         IF p = Path(c) THEN new ELSE files[p]]
          /\ data' = [i \in DOMAIN data \cup {new} |-> IF i = new THEN {} ELSE data[i]]
          /\ Goto(c, "write")
  /\ UNCHANGED <<todo, file, depth, dirs>>

\* The content, close, ACK.
Write(c) ==
  /\ pc[c] = "write"
  /\ data' = [data EXCEPT ![fd[c]] = @ \cup {<<c, file[c]>>}]
  /\ todo' = [todo EXCEPT ![c] = @ \ {file[c]}]
  /\ Goto(c, "next")
  /\ UNCHANGED <<file, depth, fd, dirs, files>>

Next ==
  \E c \in Client :
    \/ LookForOutput(c) \/ MakeOutput(c) \/ NextFile(c) \/ AllReceived(c)
    \/ StatDirectory(c) \/ MakeDirectory(c)
    \/ StatFile(c) \/ Unlink(c) \/ Open(c) \/ Write(c)

Spec == Init /\ [][Next]_vars

-----------------------------------------------------------------------------
\* The usual type invariant; everything has a directory that it is in.
TypeOK ==
  /\ \A c \in Client :
       /\ pc[c] \in {"output", "makeoutput", "next", "stat", "mkdir", "unlink",
                     "open", "write", "done", "failed"}
       /\ todo[c] \subseteq Files[c] /\ file[c] \in Files[c] \cup {<<>>}
       /\ depth[c] \in 0 .. Len(CopyOf(c, file[c])) /\ fd[c] \in DOMAIN data
  /\ dirs \cap DOMAIN files = {}
  /\ \A p \in dirs \cup DOMAIN files : Proper(p) \subseteq dirs

\* Clients whose copies share a place: process ids that are cut to the same
\* digits, and directories of the same name.
Same(c, d) == OutputDir(c) = OutputDir(d) /\ DirName[c] = DirName[d]

\* Every client that writes its copy of this file of c under this name.
Writers(c, p) == {d \in Client : Same(c, d) /\ p \in Files[d]}

\* A client that has deleted the copy, or opened it and not yet written it.
Replacing(d, p) == file[d] = p /\ pc[d] \in {"open", "write", "failed"}

\* When a client is done, each of its files is on the disk under its name, with
\* no byte of an old copy or of another file in it: with exactly its content if
\* no other client writes that name; else with the content of clients that do,
\* unless one of them is replacing it (Client.c:76-85, 229-247).
CopyComplete ==
  \A c \in Client : pc[c] = "done" =>
    \A p \in Files[c] :
      \/ /\ CopyOf(c, p) \in DOMAIN files
         /\ data[files[CopyOf(c, p)]] # {}
         /\ data[files[CopyOf(c, p)]] \subseteq {<<d, p>> : d \in Writers(c, p)}
      \/ \E d \in Writers(c, p) \ {c} : Replacing(d, p)

\* Other clients with a file of the same path, or with a file where this one
\* needs a directory, or the other way round.
Rivals(c, p) ==
  {d \in Client \ {c} :
     Same(c, d) /\ \E q \in Files[d] : q = p \/ q \in Proper(p) \/ p \in Proper(q)}

\* What is on the disk has another shape.
Blocked(c, p) == CopyOf(c, p) \in dirs \/ Proper(CopyOf(c, p)) \cap DOMAIN files # {}

\* A client fails only over a file that a rival wants as well, or that does not
\* fit what is on the disk; never because others make the same directories at
\* the same time (Client.c:81-84, 232-235).
FailsOnlyInConflict ==
  \A c \in Client : pc[c] = "failed" =>
    /\ file[c] \in Files[c]
    /\ Rivals(c, file[c]) # {} \/ Blocked(c, file[c])
=============================================================================
