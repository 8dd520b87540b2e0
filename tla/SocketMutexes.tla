---------------------------- MODULE SocketMutexes ----------------------------
(***************************************************************************)
(* Mutex_Socket_Queue as the linked list of Queue.c, pointer by pointer.   *)
(* Communication threads insert and delete their node under                *)
(* mutex_socket_queue (Server.c:29, 82).  Queue_Find walks the list        *)
(* without that mutex (Server.c:428): the worker holds mutex_files_queue,  *)
(* so there is one walk at a time, but it overlaps with insertions and     *)
(* deletions.                                                              *)
(*                                                                         *)
(* A thread is named by its socket: a descriptor that is closed is given   *)
(* to a new client, so threads start over.  What a walk reads in memory    *)
(* that is not allocated to a node may be anything: free() writes over     *)
(* the socket, and a new owner over all of it.                             *)
(***************************************************************************)
EXTENDS Naturals, FiniteSets

CONSTANTS
  Socket, Addr, NULL, None,
  Wild            \* a pointer to nowhere

ASSUME ListAssumption ==
  /\ IsFiniteSet(Socket) /\ IsFiniteSet(Addr)
  /\ NULL \notin Addr /\ Wild \notin Addr \cup {NULL}
  /\ None \notin Socket

VARIABLES
  first, last, size,   \* struct Queue
  heap,                \* contents of the memory for nodes
  live,                \* the part of it that is allocated
  mutex_socket_queue,  \* its holder, or None
  pc, node,            \* communication threads: control point, q_node of Server
  wpc, target, q_node, \* the walk: control point, socket_fd, q_node of Queue_Find
  pulled               \* history: the node of this walk was freed under it

listVars == <<first, last, size, heap, live>>
walkVars == <<wpc, target, q_node, pulled>>
vars == <<listVars, mutex_socket_queue, pc, node, walkVars>>

Init ==
  /\ first = NULL /\ last = NULL /\ size = 0
  /\ heap = [a \in Addr |-> [socket |-> None, next |-> NULL]]
  /\ live = {}
  /\ mutex_socket_queue = None
  /\ pc = [s \in Socket |-> "new"]
  /\ node = [s \in Socket |-> NULL]
  /\ wpc = "idle" /\ target = None /\ q_node = NULL /\ pulled = FALSE

ThreadGoto(s, label) == pc' = [pc EXCEPT ![s] = label]
Walking == wpc \in {"test", "next"}

-----------------------------------------------------------------------------
(* Queue_Insert and Queue_Delete, under mutex_socket_queue.  What a walk    *)
(* cannot see (last, size) is one step with what it can see next to it.     *)

\* The node reached from first by n times next.
Nth ==
  LET nth[n \in 0 .. Cardinality(Addr)] ==
        IF n = 0 THEN first
        ELSE IF nth[n - 1] = NULL THEN NULL ELSE heap[nth[n - 1]].next
  IN  nth
OnList == {Nth[n] : n \in DOMAIN Nth} \ {NULL}

\* Lock, QueueNode_Create.
Create(s) ==
  /\ pc[s] = "new" /\ mutex_socket_queue = None
  /\ mutex_socket_queue' = s
  /\ \E a \in Addr \ live :
       /\ live' = live \cup {a}
       /\ heap' = [heap EXCEPT ![a] = [socket |-> s, next |-> NULL]]
       /\ node' = [node EXCEPT ![s] = a]
  /\ ThreadGoto(s, "link")
  /\ UNCHANGED <<first, last, size, walkVars>>

Link(s) ==
  /\ pc[s] = "link"
  /\ IF size = 0
     THEN first' = node[s] /\ UNCHANGED heap
     ELSE heap' = [heap EXCEPT ![last].next = node[s]] /\ UNCHANGED first
  /\ last' = node[s]
  /\ size' = size + 1
  /\ mutex_socket_queue' = None
  /\ ThreadGoto(s, "serve")
  /\ UNCHANGED <<live, node, walkVars>>

\* A faulty thread that deletes its node while entries are left.
LocksToDeleteTooEarly(s) ==
  /\ pc[s] = "serve" /\ mutex_socket_queue = None
  /\ mutex_socket_queue' = s

\* A faulty thread that deletes without the mutex.
LocksToDeleteUnlocked(s) ==
  /\ pc[s] = "serve"
  /\ wpc # "idle" => target # s
  /\ UNCHANGED mutex_socket_queue

\* A client that has sent END has no entry left, so no walk is after its node.
LocksToDelete(s) ==
  /\ pc[s] = "serve" /\ mutex_socket_queue = None
  /\ wpc # "idle" => target # s
  /\ mutex_socket_queue' = s

\* A faulty Queue_Pop that clears next in the node it takes out.
UnlinkFirstClearsNext(s) ==
  /\ LocksToDelete(s)
  /\ node[s] = first
  /\ first' = heap[first].next
  /\ heap' = [heap EXCEPT ![first].next = NULL]
  /\ size' = size - 1
  /\ last' = IF size' <= 1 THEN first' ELSE last
  /\ ThreadGoto(s, "free")
  /\ UNCHANGED <<live, node, walkVars>>

\* Queue_Pop, when the node is the first one.
UnlinkFirst(s) ==
  /\ LocksToDelete(s)
  /\ node[s] = first
  /\ first' = heap[first].next
  /\ size' = size - 1
  /\ last' = IF size' <= 1 THEN first' ELSE last
  /\ ThreadGoto(s, "free")
  /\ UNCHANGED <<heap, live, node, walkVars>>

\* A faulty deletion that forgets that the last node may go.
UnlinkOtherKeepsLast(s) ==
  /\ LocksToDelete(s)
  /\ node[s] # first
  /\ \E prev_node \in OnList :
       /\ heap[prev_node].next = node[s]
       /\ heap' = [heap EXCEPT ![prev_node].next = heap[node[s]].next]
  /\ size' = size - 1
  /\ ThreadGoto(s, "free")
  /\ UNCHANGED <<first, last, live, node, walkVars>>

\* A faulty deletion that leaves a node in the middle linked.
UnlinkOtherOnlyAtEnd(s) ==
  /\ LocksToDelete(s)
  /\ node[s] # first
  /\ \E prev_node \in OnList :
       /\ heap[prev_node].next = node[s]
       /\ IF node[s] = last
          THEN last' = prev_node /\ heap' = [heap EXCEPT ![prev_node].next = NULL]
          ELSE UNCHANGED <<last, heap>>
  /\ size' = size - 1
  /\ ThreadGoto(s, "free")
  /\ UNCHANGED <<first, live, node, walkVars>>

UnlinkOther(s) ==
  /\ LocksToDelete(s)
  /\ node[s] # first
  /\ \E prev_node \in OnList :
       /\ heap[prev_node].next = node[s]
       /\ IF node[s] = last
          THEN last' = prev_node /\ heap' = [heap EXCEPT ![prev_node].next = NULL]
          ELSE /\ heap' = [heap EXCEPT ![prev_node].next = heap[node[s]].next]
               /\ UNCHANGED last
  /\ size' = size - 1
  /\ ThreadGoto(s, "free")
  /\ UNCHANGED <<first, live, node, walkVars>>

\* QueueNode_Delete, unlock, close the socket; the descriptor is free again.
FreeNode(s) ==
  /\ pc[s] = "free"
  /\ live' = live \ {node[s]}
  /\ pulled' = (pulled \/ (Walking /\ q_node = node[s]))
  /\ node' = [node EXCEPT ![s] = NULL]
  /\ mutex_socket_queue' = None
  /\ ThreadGoto(s, "new")
  /\ UNCHANGED <<first, last, size, heap, wpc, target, q_node>>

-----------------------------------------------------------------------------
(* Queue_Find, for a socket with an entry in Files_Queue.                   *)

StartFind(s) ==
  /\ wpc = "idle" /\ pc[s] = "serve"
  /\ wpc' = "test" /\ target' = s /\ q_node' = first
  /\ UNCHANGED <<listVars, mutex_socket_queue, pc, node, pulled>>

\* With NULL the worker goes on to lock the mutex in a node that is not there.
\* What is not a node may end the process, or look like any node.
CompareSocket ==
  /\ wpc = "test"
  /\ \/ q_node = NULL /\ wpc' = "lost"
     \/ q_node \in live /\ wpc' = IF heap[q_node].socket = target THEN "found" ELSE "next"
     \/ q_node \notin live \cup {NULL} /\ wpc' \in {"found", "next", "lost"}
  /\ UNCHANGED <<listVars, mutex_socket_queue, pc, node, target, q_node, pulled>>

Advance ==
  /\ wpc = "next"
  /\ \/ q_node \in live /\ q_node' = heap[q_node].next
     \/ q_node \notin live /\ q_node' \in Addr \cup {NULL, Wild}
  /\ wpc' = "test"
  /\ UNCHANGED <<listVars, mutex_socket_queue, pc, node, target, pulled>>

\* The worker locks the mutex and gives mutex_files_queue back.
EndFind ==
  /\ wpc = "found"
  /\ wpc' = "idle" /\ target' = None /\ q_node' = NULL /\ pulled' = FALSE
  /\ UNCHANGED <<listVars, mutex_socket_queue, pc, node>>

Next ==
  \/ CompareSocket \/ Advance \/ EndFind
  \/ \E s \in Socket :
       \/ Create(s) \/ Link(s)
       \/ UnlinkFirst(s) \/ UnlinkOther(s) \/ FreeNode(s)
       \/ StartFind(s)

Spec == Init /\ [][Next]_vars

-----------------------------------------------------------------------------
Nodes == [socket : Socket \cup {None}, next : Addr \cup {NULL}]

\* The usual type invariant; at most one thread is inside the mutex.
TypeOK ==
  /\ {first, last} \subseteq Addr \cup {NULL} /\ size \in 0 .. Cardinality(Socket)
  /\ heap \in [Addr -> Nodes] /\ live \subseteq Addr
  /\ pc \in [Socket -> {"new", "link", "serve", "free"}]
  /\ node \in [Socket -> Addr \cup {NULL}]
  /\ wpc \in {"idle", "test", "next", "found", "lost"}
  /\ target \in Socket \cup {None} /\ q_node \in Addr \cup {NULL, Wild}
  /\ \A s \in Socket : pc[s] \in {"link", "free"} <=> mutex_socket_queue = s

\* Between two critical sections the list is in order: it holds exactly the
\* nodes of the threads that serve a client, each once, size counts them, and
\* last is the end of it (Queue.c:131-206), whatever was deleted before.
ListIntact ==
  mutex_socket_queue = None =>
    /\ OnList = {node[s] : s \in {t \in Socket : pc[t] = "serve"}}
    /\ OnList \subseteq live
    /\ size = Cardinality(OnList)
    /\ IF size = 0 THEN last = NULL ELSE last = Nth[size - 1] /\ heap[last].next = NULL

\* Insertions and deletions elsewhere never lead a walk astray: it misses its
\* node only when the node it stands on is freed under it (Server.c:82-84,
\* 428).
LostOnlyWhenPulled == wpc = "lost" => pulled

\* A walk under which no node is freed reads no freed memory, though it passes
\* nodes that are being taken out, and though memory and descriptors are reused
\* behind it; it returns the node of its socket, which is not freed before the
\* worker has locked the mutex in it (Server.c:428-429).
FindsItsNode ==
  ~pulled => /\ wpc \in {"test", "next", "found"} => q_node \in live
             /\ wpc = "found" => q_node = node[target]

Set == INSTANCE SocketMutexSet
         WITH members   <- [s \in Socket |-> IF node[s] \in OnList THEN node[s] ELSE NULL],
              removed   <- {node[s] : s \in {t \in Socket : pc[t] = "free"}},
              asked     <- target,
              disturbed <- pulled,
              found     <- IF wpc = "found" THEN q_node ELSE NULL

\* The list with its unlocked walks implements the map from sockets to nodes
\* that its users take it for (Server.c:29-35, 82-84, 428): only a search whose
\* node is freed under it can be told from one step.
ImplementsSet == Set!Spec
=============================================================================
