----------------------------- MODULE DataServerInv -----------------------------
(***************************************************************************)
(* The inductive invariant behind the safety properties of DataServer, in  *)
(* layers: each layer is inductive given the ones before it.               *)
(*                                                                         *)
(*   TypeInv    types, and what the control points say about the counters  *)
(*   LockInv    who holds mutex_files_queue, who waits on the conditions   *)
(*   RoomInv    room in the queue is announced to who waits for it         *)
(*   ConnInv    whose descriptor is whose, who has a node in the list      *)
(*   QueueInv   the entries of Files_Queue, and of the workers             *)
(*   StreamInv  how far every client's stream is, and who may extend it    *)
(***************************************************************************)
EXTENDS DataServer

WaitsForSocket == {"find", "locksock"}
HoldsSocket    == {"signal", "meta", "content", "unlocksock"}
Queueing       == {"insert", "waiting", "signal", "acks"}

CommControl ==
  \A c \in Client :
    /\ cpc[c] # "idle" => sock[c] \in Socket
    /\ cpc[c] \in {"idle", "register", "request"} => inserted[c] = 0
    /\ cpc[c] \in {"insert", "waiting"} => inserted[c] < TerminationMsg(c)

WorkerControl ==
  \A w \in Worker : wpc[w] \in WaitsForSocket \cup HoldsSocket => task[w] \in Entry

TypeInv == TypeOK /\ CommControl /\ WorkerControl

\* mutex_files_queue is held exactly at these control points, and a worker that
\* is about to wait has seen the queue empty.  Who is blocked in
\* pthread_cond_wait is at that call.
LockInv ==
  /\ \A w \in Worker : mutex_files_queue = w <=> wpc[w] \in {"wait"} \cup WaitsForSocket
  /\ \A w \in Worker : wpc[w] = "wait" => Files_Queue = <<>>
  /\ \A w \in cond_queue_not_empty : wpc[w] = "waiting"
  /\ \A c \in cond_queue_not_full : cpc[c] = "waiting"

\* While a communication thread is blocked, every free place of the queue is
\* accounted for: by a worker that is still to signal it, or by a communication
\* thread that is awake to take it.
Announcing == {w \in Worker : wpc[w] \in WaitsForSocket \cup {"signal"}}
Woken      == {c \in Client : cpc[c] = "waiting" /\ c \notin cond_queue_not_full}

RoomInv ==
  cond_queue_not_full # {} =>
    QueueSize <= Len(Files_Queue) + Cardinality(Announcing) + Cardinality(Woken)

\* A communication thread that has been accepted and has not closed its socket.
Open(c) == cpc[c] \notin {"idle", "exited"} \/ (cpc[c] = "exited" /\ c \in BadDir)

\* The descriptor of a thread is its own until it closes it, and its node is in
\* the list only while the descriptor is.
ConnInv ==
  \A c \in Client :
    /\ Open(c) => conn[sock[c]] = c
    /\ c \in Mutex_Socket_Queue <=> Open(c) /\ cpc[c] \notin {"register", "close"}
    /\ c \in BadDir => cpc[c] \in {"idle", "register", "request", "exited"}

\* Items of a client enter and leave the queue one by one in order: the queue
\* holds exactly the items that are inserted and not yet popped.
EntriesPending ==
  \A k \in 1 .. Len(Files_Queue) :
    LET e == Files_Queue[k]
    IN  /\ popped[e.owner] < e.item /\ e.item <= inserted[e.owner]
        /\ e.socket = sock[e.owner]

EntriesOrdered ==
  \A j, k \in 1 .. Len(Files_Queue) :
    j < k /\ Files_Queue[j].owner = Files_Queue[k].owner
      => Files_Queue[j].item < Files_Queue[k].item

EntriesComplete ==
  \A c \in Client :
    /\ popped[c] <= inserted[c]
    /\ \A i \in popped[c] + 1 .. inserted[c] :
         \E k \in 1 .. Len(Files_Queue) : Files_Queue[k].owner = c /\ Files_Queue[k].item = i

TasksPopped ==
  \A w \in Worker : wpc[w] \in WaitsForSocket \cup HoldsSocket =>
    /\ task[w].socket = sock[task[w].owner]
    /\ 0 < task[w].item /\ task[w].item <= popped[task[w].owner]

QueueInv == EntriesPending /\ EntriesOrdered /\ EntriesComplete /\ TasksPopped

-----------------------------------------------------------------------------
\* The length of a stream that ends with item i.
LengthUpTo(c, i) == IF i = TerminationMsg(c) THEN 2 * i - 1 ELSE 2 * i

StreamComplete(c) == Len(toClient[c]) = LengthUpTo(c, TerminationMsg(c))

\* The last item of c whose worker has had the mutex of the socket.
WorkerWaitsFor(c) ==
  \E w \in Worker : wpc[w] \in WaitsForSocket /\ task[w].owner = c
Current(c) == IF WorkerWaitsFor(c) THEN popped[c] - 1 ELSE popped[c]

\* How long the stream is when w, the holder of the socket's mutex, is at each
\* control point.
Position(w) ==
  LET c == task[w].owner
      i == task[w].item
  IN  /\ wpc[w] \in {"signal", "meta"} => Len(toClient[c]) = 2 * i - 2
      /\ wpc[w] = "content" => i # TerminationMsg(c) /\ Len(toClient[c]) = 2 * i - 1
      /\ wpc[w] = "unlocksock" => Len(toClient[c]) = LengthUpTo(c, i)

\* Each chunk of a stream is the right one.
ChunksInOrder ==
  \A c \in Client : \A k \in 1 .. Len(toClient[c]) : toClient[c][k] = ExpectedChunk(c, k)

\* The one worker that has mutex_files_queue has the newest entry of its client.
WaiterIsNewest ==
  \A w \in Worker : wpc[w] \in WaitsForSocket => task[w].item = popped[task[w].owner]

\* Who is queued or served has not read END yet.
OwnersQueueing ==
  /\ \A k \in 1 .. Len(Files_Queue) : cpc[Files_Queue[k].owner] \in Queueing
  /\ \A w \in Worker : Serving(w) => cpc[task[w].owner] \in Queueing

NodeOfOwner ==
  \A w \in Worker : wpc[w] \in {"locksock"} \cup HoldsSocket => node[w] = task[w].owner

SocketMutexHeld ==
  \A w \in Worker, c \in Client :
    mutex_socket[c] = w <=> wpc[w] \in HoldsSocket /\ task[w].owner = c

\* While a worker has the mutex of a socket it sends the current item; while
\* nobody has it, the stream ends with the current item.
HolderAtPosition ==
  \A w \in Worker : wpc[w] \in HoldsSocket => task[w].item = Current(task[w].owner) /\ Position(w)

FreeAtEnd ==
  \A c \in Client : mutex_socket[c] = None => Len(toClient[c]) = LengthUpTo(c, Current(c))

\* END, and all that follows it, comes after the last chunk.
EndAfterLast ==
  \A c \in Client :
    /\ cpc[c] \in {"delete", "close"} \/ (cpc[c] = "exited" /\ c \notin BadDir) => StreamComplete(c)
    /\ rpc[c] = "ack" => received[c] > 0
    /\ rpc[c] = "end" => StreamComplete(c)
    /\ \A k \in 1 .. Len(toServer[c]) : toServer[c][k] = "END" => StreamComplete(c)

StreamInv ==
  /\ ChunksInOrder /\ WaiterIsNewest /\ OwnersQueueing /\ NodeOfOwner /\ SocketMutexHeld
  /\ HolderAtPosition /\ FreeAtEnd /\ EndAfterLast

\* All layers together: the control points of the threads, the holders of the
\* mutexes (Server.c:416-438), the queue's entries (Queue.c, Server.c:248-263) and
\* every stream agree about which item of each client is next, and who may send
\* it.  Every step of every thread keeps it.
InductiveInv == TypeInv /\ LockInv /\ RoomInv /\ ConnInv /\ QueueInv /\ StreamInv
=============================================================================
