------------------------------ MODULE DataServer ------------------------------
(***************************************************************************)
(* dataServer with its clients: the main thread, the worker pool, one      *)
(* communication thread per accepted client, and the remoteClient          *)
(* processes, over the shared state of ServerState.                        *)
(***************************************************************************)
EXTENDS WorkerThread, CommunicationThread, RemoteClient

CONSTANT Stalled   \* clients that may stop reading: no fairness for their steps

\* POSIX lets pthread_cond_wait return without a signal.
SpuriousWakeup ==
  /\ Up /\ SpuriousWakeups
  /\ \/ /\ \E w \in cond_queue_not_empty : cond_queue_not_empty' = cond_queue_not_empty \ {w}
        /\ UNCHANGED cond_queue_not_full
     \/ /\ \E c \in cond_queue_not_full : cond_queue_not_full' = cond_queue_not_full \ {c}
        /\ UNCHANGED cond_queue_not_empty
  /\ UNCHANGED <<mainVars, Files_Queue, mutex_files_queue, popped,
                 socketVars, workerVars, commVars, clientVars>>

Next ==
  \/ \E w \in Worker : WorkerStep(w)
  \/ \E c \in Client : CommStep(c)
  \/ \E c \in Client : Connect(c) \/ ClientStep(c)
  \/ MainStep
  \/ Stop_Server
  \/ SpuriousWakeup

Spec == Init /\ [][Next]_vars

\* Every thread that can go on does, and so does every client that is not
\* stalled.  Nothing forces a user to start a client or to type ^C.
Fairness ==
  /\ \A w \in Worker : WF_vars(WorkerStep(w))
  /\ \A c \in Client : WF_vars(CommStep(c))
  /\ \A c \in Client \ Stalled : WF_vars(ClientStep(c))
  /\ WF_vars(MainStep)

FairSpec == Spec /\ Fairness

-----------------------------------------------------------------------------
(* Types *)

WorkerLabel == {"test", "lock", "wait", "waiting", "find", "locksock", "signal",
                "meta", "content", "unlocksock", "exited"}
CommLabel   == {"idle", "register", "request", "insert", "waiting", "signal",
                "acks", "delete", "close", "exited"}
MainLabel   == {"test", "call", "accept", "close", "join", "cleanup"}
ClientLabel == {"idle", "connecting", "meta", "content", "ack", "end", "done", "failed", "hung"}

MainTypes ==
  /\ proc \in {"up", "exited", "failed", "crashed"}
  /\ mpc \in MainLabel
  /\ RUNNING \in BOOLEAN

QueueTypes ==
  /\ Files_Queue \in Seq(Entry)
  /\ mutex_files_queue \in Worker \cup {None}
  /\ cond_queue_not_empty \subseteq Worker
  /\ cond_queue_not_full \subseteq Client
  /\ popped \in [Client -> Nat]

SocketTypes ==
  /\ Mutex_Socket_Queue \subseteq Client
  /\ mutex_socket \in [Client -> Worker \cup {None}]
  /\ conn \in [Socket -> Client \cup {None}]

WorkerTypes ==
  /\ wpc \in [Worker -> WorkerLabel]
  /\ task \in [Worker -> Entry \cup {None}]
  /\ node \in [Worker -> Client \cup {None}]

CommTypes ==
  /\ cpc \in [Client -> CommLabel]
  /\ sock \in [Client -> Socket \cup {None}]
  /\ inserted \in [Client -> Nat]
  /\ \A c \in Client : inserted[c] <= TerminationMsg(c)

ClientTypes ==
  /\ rpc \in [Client -> ClientLabel]
  /\ toClient \in [Client -> Seq(Chunk)]
  /\ received \in [Client -> Nat]
  /\ \A c \in Client : received[c] <= Len(toClient[c])
  /\ toServer \in [Client -> Seq({"ACK", "END"})]

\* Every variable holds a value of its type; no communication thread queues
\* more than its files and TERMINATION_MSG, no client reads what is not sent.
TypeOK ==
  MainTypes /\ QueueTypes /\ SocketTypes /\ WorkerTypes /\ CommTypes /\ ClientTypes

-----------------------------------------------------------------------------
(* Safety *)

\* Files_Queue never holds more than queue_size entries (README.md:45): a
\* communication thread that was woken up tests the size again, because
\* another one may have taken the room (Server.c:256).
QueueBounded == Len(Files_Queue) <= QueueSize

ExpectedChunk(c, k) ==
  [owner |-> c, item |-> (k + 1) \div 2, part |-> IF k % 2 = 1 THEN "meta" ELSE "content"]

\* What is written to a client is, at any time, a prefix of its directory in
\* order, each file whole and TERMINATION_MSG last, whichever workers wrote
\* it.  It needs both that a file is sent under the mutex of its socket and
\* that this mutex is taken before mutex_files_queue is released
\* (Server.c:429-432).
StreamInOrder ==
  \A c \in Client :
    /\ Len(toClient[c]) <= 2 * FileCount[c] + 1
    /\ \A k \in 1 .. Len(toClient[c]) : toClient[c][k] = ExpectedChunk(c, k)

Serving(w) == wpc[w] \in {"find", "locksock", "signal", "meta", "content"}

\* From the time a worker pops an entry until it has sent it, the descriptor
\* in the entry belongs to the client the file was queued for: it was not
\* closed, and not given to the next client (Server.c:82-87, 425-435).
SocketStillOwned ==
  \A w \in Worker : Serving(w) => conn[task[w].socket] = task[w].owner

\* Two nodes of Mutex_Socket_Queue never have the same socket, though the
\* kernel gives closed descriptors out again: a node is deleted before its
\* socket is closed (Server.c:80-89), so Queue_Find returns the right mutex.
NodesHaveDistinctSockets ==
  \A m, n \in Mutex_Socket_Queue : sock[m] = sock[n] => m = n

\* When a communication thread goes on to delete its node and close the
\* socket, everything was sent: no entry of the client is queued, no worker
\* has one left to send, and the stream is complete (Server.c:62-89).
DeleteAfterLastWrite ==
  \A c \in Client \ BadDir :
    cpc[c] \in {"delete", "close", "exited"} =>
      /\ Len(toClient[c]) = 2 * FileCount[c] + 1
      /\ \A k \in 1 .. Len(Files_Queue) : Files_Queue[k].owner # c
      /\ \A w \in Worker : Serving(w) => task[w].owner # c

\* A signal is never lost on the workers: while entries are queued, some
\* worker is not blocked in pthread_cond_wait, or some communication thread is
\* still about to signal (Server.c:263-265, 417-419).
EntriesWakeWorkers ==
  Files_Queue # <<>> =>
    \/ \E w \in Worker : w \notin cond_queue_not_empty
    \/ \E c \in Client : cpc[c] = "signal"

\* Nor on the communication threads: while one is blocked and the queue has
\* room, a worker is still about to signal, or a woken communication thread
\* is about to take the room (Server.c:256-258, 432-433).
RoomWakesCommunicationThreads ==
  cond_queue_not_full # {} /\ ~QueueFull =>
    \/ \E w \in Worker : wpc[w] \in {"find", "locksock", "signal"}
    \/ \E c \in Client : cpc[c] = "waiting" /\ c \notin cond_queue_not_full

\* When the main thread destroys the mutexes and frees both queues, no worker
\* holds a mutex or a node any more, so that nothing in use is destroyed on
\* behalf of a worker (Server.c:420-423, 458-469; dataServer.c:159-161).
NoWorkerInCleanUp ==
  mpc = "cleanup" =>
    /\ mutex_files_queue = None
    /\ \A c \in Client : mutex_socket[c] = None

\* A server that has exited after ^C has not cut a file short: a worker
\* finishes the file it is sending before it looks at RUNNING again, and the
\* main thread joins the workers before it exits (Server.c:413, 458-459).
ExitCutsNoFile ==
  proc = "exited" =>
    \A c \in Client :
      Len(toClient[c]) % 2 = 0 \/ Len(toClient[c]) = 2 * FileCount[c] + 1

\* The server runs until ^C is typed (dataServer.c:115), whatever threads do.
RunsUntilInterrupted == RUNNING => Up

-----------------------------------------------------------------------------
(* Refinement *)

FilesOf(c) ==
  [i \in 1 .. received[c] \div 2 |->
     [owner |-> toClient[c][2 * i].owner, item |-> toClient[c][2 * i].item]]

Copy == INSTANCE DirectoryCopy
          WITH copy     <- [c \in Client |-> FilesOf(c)],
               complete <- {c \in Client : received[c] > 2 * FileCount[c]}

\* Seen from the clients, the server with all its threads only copies
\* directories file by file and announces the end when all files are there.
ImplementsDirectoryCopy == Copy!Spec

-----------------------------------------------------------------------------
(* Liveness *)

\* A client that has sent a valid request, and that keeps reading, gets its
\* whole directory, unless the server process ends first (README.md:24).
EveryClientServed ==
  \A c \in Client \ (BadDir \cup Stalled) :
    rpc[c] = "connecting" ~> rpc[c] = "done" \/ ~Up

\* The descriptor of a client that has finished is closed again, unless the
\* server process ends first (Server.c:80-89).
SocketsReleased ==
  \A c \in Client :
    rpc[c] = "done" ~> (\A s \in Socket : conn[s] # c) \/ ~Up

\* The broadcast of ThreadPool_Destroy wakes every worker that waits for an
\* entry (Server.c:454-455), so all of them exit.
ShutdownWakesWorkers ==
  mpc = "join" ~> (\A w \in Worker : wpc[w] = "exited") \/ ~Up
=============================================================================
