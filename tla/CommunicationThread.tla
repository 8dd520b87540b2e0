-------------------------- MODULE CommunicationThread --------------------------
(***************************************************************************)
(* Server (Server.c:21): the detached thread that serves one client.  It   *)
(* puts the mutex of its socket into Mutex_Socket_Queue, receives the      *)
(* request, queues every file and then TERMINATION_MSG, reads ACKs until   *)
(* END, deletes its node and closes the socket.                            *)
(*                                                                         *)
(* Control points: idle (not created), register, request, insert, waiting  *)
(* (in pthread_cond_wait), signal, acks, delete, close, exited.            *)
(***************************************************************************)
EXTENDS ServerState

CommGoto(c, label) == cpc' = [cpc EXCEPT ![c] = label]

\* Insert the <socket, mutex> node, under mutex_socket_queue.
RegisterSocket(c) ==
  /\ Up /\ cpc[c] = "register"
  /\ Mutex_Socket_Queue' = Mutex_Socket_Queue \cup {c}
  /\ CommGoto(c, "request")
  /\ UNCHANGED <<mainVars, queueVars, mutex_socket, conn, workerVars, sock, inserted, clientVars>>

\* The directory opens: confirmation, ACK, block size, ACK.
AcceptRequest(c) ==
  /\ Up /\ cpc[c] = "request" /\ c \notin BadDir
  /\ rpc[c] = "connecting"
  /\ rpc' = [rpc EXCEPT ![c] = "meta"]
  /\ CommGoto(c, "insert")
  /\ UNCHANGED <<mainVars, queueVars, socketVars, workerVars, sock, inserted,
                 toClient, received, toServer>>

\* The directory does not open: WRONG_MSG is sent without a length, so the
\* client waits for bytes that never come; the thread exits and leaves its
\* node in the list and its socket open.
RejectRequest(c) ==
  /\ Up /\ cpc[c] = "request" /\ c \in BadDir
  /\ rpc[c] = "connecting"
  /\ rpc' = [rpc EXCEPT ![c] = "hung"]
  /\ CommGoto(c, "exited")
  /\ UNCHANGED <<mainVars, queueVars, socketVars, workerVars, sock, inserted,
                 toClient, received, toServer>>

-----------------------------------------------------------------------------
(* Server_Insert_Files_To_Queue, once per file and once with NULL for      *)
(* TERMINATION_MSG.                                                        *)

QueueFull == Len(Files_Queue) >= QueueSize

\* The thread has mutex_files_queue at the loop test of line 256.
AtLoopTest(c) ==
  /\ Up
  /\ mutex_files_queue = None
  /\ \/ cpc[c] = "insert"
     \/ cpc[c] = "waiting" /\ c \notin cond_queue_not_full

WaitNotFull(c) ==
  /\ AtLoopTest(c)
  /\ QueueFull
  /\ cond_queue_not_full' = cond_queue_not_full \cup {c}
  /\ CommGoto(c, "waiting")
  /\ UNCHANGED <<mainVars, Files_Queue, mutex_files_queue, cond_queue_not_empty, popped,
                 socketVars, workerVars, sock, inserted, clientVars>>

\* A faulty thread that tests the queue once: `if` in place of `while`.
InsertItemWithoutRetest(c) ==
  /\ AtLoopTest(c)
  /\ ~QueueFull \/ cpc[c] = "waiting"
  /\ Files_Queue' = Append(Files_Queue,
       [socket |-> sock[c], owner |-> c, item |-> inserted[c] + 1])
  /\ inserted' = [inserted EXCEPT ![c] = @ + 1]
  /\ CommGoto(c, "signal")
  /\ UNCHANGED <<mainVars, mutex_files_queue, cond_queue_not_empty, cond_queue_not_full, popped,
                 socketVars, workerVars, sock, clientVars>>

InsertItem(c) ==
  /\ AtLoopTest(c)
  /\ ~QueueFull
  /\ Files_Queue' = Append(Files_Queue,
       [socket |-> sock[c], owner |-> c, item |-> inserted[c] + 1])
  /\ inserted' = [inserted EXCEPT ![c] = @ + 1]
  /\ CommGoto(c, "signal")
  /\ UNCHANGED <<mainVars, mutex_files_queue, cond_queue_not_empty, cond_queue_not_full, popped,
                 socketVars, workerVars, sock, clientVars>>

\* A faulty thread that goes on after TERMINATION_MSG.
SignalNotEmptyOnceMore(c) ==
  /\ Up /\ cpc[c] = "signal"
  /\ cond_queue_not_empty' \in SignalOne(cond_queue_not_empty)
  /\ CommGoto(c, IF inserted[c] > TerminationMsg(c) THEN "acks" ELSE "insert")
  /\ UNCHANGED <<mainVars, Files_Queue, mutex_files_queue, cond_queue_not_full, popped,
                 socketVars, workerVars, sock, inserted, clientVars>>

\* A faulty thread that forgets the signal.
SignalNotEmptyForgotten(c) ==
  /\ Up /\ cpc[c] = "signal"
  /\ CommGoto(c, IF inserted[c] = TerminationMsg(c) THEN "acks" ELSE "insert")
  /\ UNCHANGED <<mainVars, queueVars, socketVars, workerVars, sock, inserted, clientVars>>

\* The signal comes after the unlock.  Then the next file, or, after
\* TERMINATION_MSG, the loop that reads ACKs.
SignalNotEmpty(c) ==
  /\ Up /\ cpc[c] = "signal"
  /\ cond_queue_not_empty' \in SignalOne(cond_queue_not_empty)
  /\ CommGoto(c, IF inserted[c] = TerminationMsg(c) THEN "acks" ELSE "insert")
  /\ UNCHANGED <<mainVars, Files_Queue, mutex_files_queue, cond_queue_not_full, popped,
                 socketVars, workerVars, sock, inserted, clientVars>>

-----------------------------------------------------------------------------
\* A faulty thread that takes the first ACK for the end.
ReadAckEndsAtOnce(c) ==
  /\ Up /\ cpc[c] = "acks"
  /\ toServer[c] # <<>>
  /\ toServer' = [toServer EXCEPT ![c] = Tail(@)]
  /\ CommGoto(c, "delete")
  /\ UNCHANGED <<mainVars, queueVars, socketVars, workerVars, sock, inserted,
                 rpc, toClient, received>>

ReadAck(c) ==
  /\ Up /\ cpc[c] = "acks"
  /\ toServer[c] # <<>>
  /\ toServer' = [toServer EXCEPT ![c] = Tail(@)]
  /\ CommGoto(c, IF Head(toServer[c]) = "END" THEN "delete" ELSE "acks")
  /\ UNCHANGED <<mainVars, queueVars, socketVars, workerVars, sock, inserted,
                 rpc, toClient, received>>

\* A faulty thread that leaves its node in the list.
DeleteNodeForgotten(c) ==
  /\ Up /\ cpc[c] = "delete"
  /\ CommGoto(c, "close")
  /\ UNCHANGED <<mainVars, queueVars, socketVars, workerVars, sock, inserted, clientVars>>

\* Queue_Delete under mutex_socket_queue.  QueueNode_Delete takes the first
\* word of the node's union for a file name, and that word is the state of
\* the mutex: of a locked mutex it frees the pointer 1 or 2, and the process
\* dies.  A worker may be walking the list in Queue_Find, without the mutex:
\* when it stands on the freed node it may go on or fault.
DeleteNode(c) ==
  /\ Up /\ cpc[c] = "delete"
  /\ Mutex_Socket_Queue' = Mutex_Socket_Queue \ {c}
  /\ proc' \in IF mutex_socket[c] # None THEN {"crashed"}
               ELSE IF \E w \in Worker : wpc[w] = "find" THEN {"up", "crashed"}
               ELSE {"up"}
  /\ CommGoto(c, "close")
  /\ UNCHANGED <<mpc, RUNNING, queueVars, mutex_socket, conn, workerVars, sock, inserted, clientVars>>

\* A faulty thread that never closes its socket.
CloseSocketForgotten(c) ==
  /\ Up /\ cpc[c] = "close"
  /\ CommGoto(c, "exited")
  /\ UNCHANGED <<mainVars, queueVars, socketVars, workerVars, sock, inserted, clientVars>>

CloseSocket(c) ==
  /\ Up /\ cpc[c] = "close"
  /\ conn' = [conn EXCEPT ![sock[c]] = None]
  /\ CommGoto(c, "exited")
  /\ UNCHANGED <<mainVars, queueVars, Mutex_Socket_Queue, mutex_socket, workerVars,
                 sock, inserted, clientVars>>

CommStep(c) ==
  \/ RegisterSocket(c)
  \/ AcceptRequest(c) \/ RejectRequest(c)
  \/ WaitNotFull(c) \/ InsertItem(c) \/ SignalNotEmpty(c)
  \/ ReadAck(c)
  \/ DeleteNode(c) \/ CloseSocket(c)
=============================================================================
