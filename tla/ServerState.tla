----------------------------- MODULE ServerState -----------------------------
(***************************************************************************)
(* The state shared by the threads of dataServer and by the remoteClient   *)
(* processes: the constants of a deployment, the variables, and the few    *)
(* operators that every thread uses.  The threads themselves are in        *)
(* MainThread, WorkerThread, CommunicationThread and RemoteClient;         *)
(* DataServer composes them.                                               *)
(*                                                                         *)
(* A client asks for a directory once, so a client also names the          *)
(* connection it opens, the communication thread that serves it, and the   *)
(* <socket, mutex> node that this thread puts into Mutex_Socket_Queue.     *)
(***************************************************************************)
EXTENDS Integers, Sequences, FiniteSets

CONSTANTS
  Client,           \* remoteClient processes
  Worker,           \* the worker threads of the pool (-s)
  Socket,           \* file descriptors the server may have open for clients
  None,             \* "no thread", "no connection", "no task"
  FileCount,        \* FileCount[c]: regular files below the directory c asks for
  BadDir,           \* clients whose directory the server cannot open
  NoName,           \* clients whose address gethostbyaddr may fail to resolve
  QueueSize,        \* capacity of Files_Queue (-q)
  DataCap,          \* chunks the kernel buffers from the server to one client
  AckCap,           \* messages the kernel buffers from one client to the server
  SpuriousWakeups,  \* may pthread_cond_wait return without a signal?
  Interruptible     \* may ^C be typed?

(***************************************************************************)
(* Items.  Items 1 .. FileCount[c] are the files of c's directory in the   *)
(* order Server_Extract_Files_From_Directory finds them; the last item is  *)
(* TERMINATION_MSG.  A file is written to its socket in two chunks, its    *)
(* metadata (length, size and name) and its content; TERMINATION_MSG only  *)
(* has the first.                                                          *)
(***************************************************************************)
TerminationMsg(c) == FileCount[c] + 1

Entry == [socket : Socket, owner : Client, item : Nat]
Chunk == [owner : Client, item : Nat, part : {"meta", "content"}]

ASSUME ConstantsAssumption ==
  /\ None \notin Client \cup Worker \cup Socket
  /\ IsFiniteSet(Client) /\ IsFiniteSet(Worker) /\ Worker # {}
  /\ FileCount \in [Client -> Nat]
  /\ BadDir \subseteq Client /\ NoName \subseteq Client
  /\ QueueSize \in Nat \ {0}
  /\ DataCap \in Nat \ {0}
  /\ AckCap \in Nat \ {0}
  /\ SpuriousWakeups \in BOOLEAN
  /\ Interruptible \in BOOLEAN

VARIABLES
  proc,                  \* the server process: up, or how it ended
  mpc,                   \* control point of the main thread
  RUNNING,               \* cleared by the SIGINT handler
  Files_Queue,           \* <file name, socket> entries waiting for a worker
  mutex_files_queue,     \* the worker that holds it across steps, or None
  cond_queue_not_empty,  \* workers blocked in pthread_cond_wait
  cond_queue_not_full,   \* communication threads blocked in pthread_cond_wait
  popped,                \* history: entries of each client already popped
  Mutex_Socket_Queue,    \* the <socket, mutex> nodes in the list
  mutex_socket,          \* holder of the mutex inside each node
  conn,                  \* the kernel's descriptor table: socket -> connection
  wpc, task, node,       \* per worker: control point, popped entry, mutex node
  cpc, sock, inserted,   \* per communication thread: control point, socket, items queued
  rpc,                   \* control point of each client
  toClient, received,    \* all chunks written to each client; how many it has read
  toServer               \* messages of each client not yet read by the server

mainVars   == <<proc, mpc, RUNNING>>
queueVars  == <<Files_Queue, mutex_files_queue, cond_queue_not_empty, cond_queue_not_full, popped>>
socketVars == <<Mutex_Socket_Queue, mutex_socket, conn>>
workerVars == <<wpc, task, node>>
commVars   == <<cpc, sock, inserted>>
clientVars == <<rpc, toClient, received, toServer>>
vars == <<mainVars, queueVars, socketVars, workerVars, commVars, clientVars>>

-----------------------------------------------------------------------------
Up == proc = "up"

\* pthread_cond_signal wakes one blocked thread, if there is one.
SignalOne(waiters) ==
  IF waiters = {} THEN {{}} ELSE {waiters \ {t} : t \in waiters}

\* write(2) on a blocking socket waits while the kernel's buffer is full.
RoomToClient(c) == Len(toClient[c]) - received[c] < DataCap
RoomToServer(c) == Len(toServer[c]) < AckCap

Init ==
  /\ proc = "up" /\ mpc = "test" /\ RUNNING = TRUE
  /\ Files_Queue = <<>> /\ mutex_files_queue = None
  /\ cond_queue_not_empty = {} /\ cond_queue_not_full = {}
  /\ popped = [c \in Client |-> 0]
  /\ Mutex_Socket_Queue = {}
  /\ mutex_socket = [c \in Client |-> None]
  /\ conn = [s \in Socket |-> None]
  /\ wpc = [w \in Worker |-> "test"]
  /\ task = [w \in Worker |-> None]
  /\ node = [w \in Worker |-> None]
  /\ cpc = [c \in Client |-> "idle"]
  /\ sock = [c \in Client |-> None]
  /\ inserted = [c \in Client |-> 0]
  /\ rpc = [c \in Client |-> "idle"]
  /\ toClient = [c \in Client |-> <<>>]
  /\ received = [c \in Client |-> 0]
  /\ toServer = [c \in Client |-> <<>>]
=============================================================================
