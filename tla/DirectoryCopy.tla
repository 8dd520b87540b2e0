---------------------------- MODULE DirectoryCopy ----------------------------
(***************************************************************************)
(* What dataServer promises its clients, without threads, queues or        *)
(* sockets: the copy of a client grows by one whole file at a time, in the *)
(* order of the directory, and a client is told that it is complete only   *)
(* when it has every file.  A client whose directory cannot be opened gets *)
(* nothing.                                                                *)
(***************************************************************************)
EXTENDS Integers, Sequences

CONSTANTS Client, FileCount, BadDir

VARIABLES
  copy,      \* the files each client has received, in order
  complete   \* the clients that were told that they have everything

vars == <<copy, complete>>

File(c, i) == [owner |-> c, item |-> i]

Init ==
  /\ copy = [c \in Client |-> <<>>]
  /\ complete = {}

ReceiveFile(c) ==
  /\ c \notin BadDir
  /\ Len(copy[c]) < FileCount[c]
  /\ copy' = [copy EXCEPT ![c] = Append(@, File(c, Len(@) + 1))]
  /\ UNCHANGED complete

Complete(c) ==
  /\ c \notin BadDir \cup complete
  /\ Len(copy[c]) = FileCount[c]
  /\ complete' = complete \cup {c}
  /\ UNCHANGED copy

Next == \E c \in Client : ReceiveFile(c) \/ Complete(c)

Spec == Init /\ [][Next]_vars
=============================================================================
