------------------------------ MODULE ClientPath ------------------------------
(***************************************************************************)
(* Client_Resolve_FilePath (Client.c:183-256): from the server's path of a *)
(* file to the path of its copy under output_dir, and the directories that *)
(* are made on the way.  Strings are sequences of characters here, because *)
(* the function searches them with strstr and strrchr.  What the file      *)
(* system does on the way is in TreeCopy; Session says how the server gets *)
(* the directory.                                                          *)
(***************************************************************************)
EXTENDS Naturals, Sequences

CONSTANTS
  DefaultDir,  \* DEFAULT_DIR, ending in a slash
  FilePaths    \* paths of files below the directory

VARIABLES
  client_path, path,      \* what the client asked for; what the server understood
  pc, rest,               \* control point; the file in the directory
  start,                  \* what is still to be copied
  copied_path,            \* what was copied, without output_dir
  made                    \* directories looked up or made, in order

Slash == "/"

\* What Client makes of its argument: one slash at the end is erased.
Stripped(argument) ==
  IF argument[Len(argument)] = Slash THEN SubSeq(argument, 1, Len(argument) - 1) ELSE argument

From(s, i) == SubSeq(s, i, Len(s))
OccursAt(s, t, i) == i + Len(t) - 1 <= Len(s) /\ SubSeq(s, i, i + Len(t) - 1) = t

\* strstr: the first place where t occurs in s, 0 if there is none.
Occurrence(s, t) ==
  LET places == {i \in 1 .. Len(s) : OccursAt(s, t, i)}
  IN  IF places = {} THEN 0 ELSE CHOOSE i \in places : \A j \in places : i <= j

\* A faulty client that looks for the first slash.
SlashOfNameFirst(s) == Occurrence(s, <<Slash>>)

\* strrchr: the last slash, 0 for NULL.
SlashOfName(s) ==
  LET places == {i \in 1 .. Len(s) : s[i] = Slash}
  IN  IF places = {} THEN 0 ELSE CHOOSE i \in places : \A j \in places : i >= j

\* How Server_Extract_Files_From_Directory writes the path of a file.
server_path == DefaultDir \o path \o <<Slash>> \o rest

Init ==
  /\ rest \in FilePaths
  /\ pc = "cut" /\ start = <<>> /\ copied_path = <<>> /\ made = <<>>

\* strlen(strrchr(...)) without a slash reads through NULL.
Cut ==
  /\ pc = "cut"
  /\ IF SlashOfName(client_path) = 0
     THEN pc' = "crashed" /\ UNCHANGED start
     ELSE /\ pc' = "walk"
          /\ start' = From(server_path, Occurrence(server_path, client_path)
                                          + SlashOfName(client_path) - 1)
  /\ UNCHANGED <<rest, copied_path, made>>

\* A faulty loop that leaves out the slash between two names.
MakeDirectoryJoined ==
  /\ pc = "walk" /\ Occurrence(start, <<Slash>>) # 0
  /\ LET end == Occurrence(start, <<Slash>>) IN
       /\ copied_path' = copied_path \o SubSeq(start, 1, end - 1)
       /\ start' = From(start, end + 1)
  /\ made' = Append(made, copied_path')
  /\ UNCHANGED <<pc, rest>>

\* A faulty loop that goes on with the slash instead of after it.
MakeDirectoryOffByOne ==
  /\ pc = "walk" /\ Occurrence(start, <<Slash>>) # 0
  /\ LET end == Occurrence(start, <<Slash>>) IN
       /\ copied_path' = copied_path \o SubSeq(start, 1, end)
       /\ start' = From(start, end)
  /\ made' = Append(made, copied_path')
  /\ UNCHANGED <<pc, rest>>

\* Everything up to a slash is a directory.
MakeDirectory ==
  /\ pc = "walk" /\ Occurrence(start, <<Slash>>) # 0
  /\ LET end == Occurrence(start, <<Slash>>) IN
       /\ copied_path' = copied_path \o SubSeq(start, 1, end)
       /\ start' = From(start, end + 1)
  /\ made' = Append(made, copied_path')
  /\ UNCHANGED <<pc, rest>>

\* What is left is the file.
CreateFile ==
  /\ pc = "walk" /\ Occurrence(start, <<Slash>>) = 0
  /\ copied_path' = copied_path \o start
  /\ start' = <<>> /\ pc' = "done"
  /\ UNCHANGED <<rest, made>>

Next == Cut \/ MakeDirectory \/ CreateFile

-----------------------------------------------------------------------------
EndsWith(s, t) == Len(t) <= Len(s) /\ OccursAt(s, t, Len(s) - Len(t) + 1)

\* The usual type invariant; the loop always has characters to look at.
TypeOK ==
  /\ pc \in {"cut", "walk", "done", "crashed"}
  /\ rest \in FilePaths
  /\ pc = "walk" => start # <<>> /\ EndsWith(server_path, start)
  /\ Len(copied_path) <= Len(server_path)

\* The path of the copy as it should be: the name of the directory, which is
\* empty when a second slash ends the argument, and the file's place in it.
LastName ==
  CHOOSE name \in {From(client_path, i) : i \in 2 .. Len(client_path) + 1} :
    /\ \A j \in DOMAIN name : name[j] # Slash
    /\ EndsWith(client_path, <<Slash>> \o name)
Intended == <<Slash>> \o LastName \o <<Slash>> \o rest
Unambiguous == Occurrence(server_path, client_path) = Len(DefaultDir) + 1

\* A copy is where it belongs, if the name of the directory does not occur in
\* DEFAULT_DIR; else its path still ends as it should, with more directories
\* in front (Client.c:190-193).
RightPlace ==
  pc = "done" =>
    /\ EndsWith(copied_path, Intended)
    /\ Unambiguous => copied_path = Intended

\* Every directory on the path of the copy is made, one at a time and the
\* outer ones first, before the file (Client.c:212-249).
ParentsFirst ==
  /\ \A i, j \in DOMAIN made : i < j => Len(made[i]) < Len(made[j])
  /\ \A i \in DOMAIN made : OccursAt(copied_path, made[i], 1)
  /\ pc = "done" =>
       {j \in DOMAIN copied_path : copied_path[j] = Slash} = {Len(made[i]) : i \in DOMAIN made}
=============================================================================
