----------------------------- MODULE WorkerThread -----------------------------
(***************************************************************************)
(* ThreadPool_WorkerThread_Runs (Server.c:407): a worker pops an entry of  *)
(* Files_Queue, locks the mutex of its socket while it still holds         *)
(* mutex_files_queue, and then sends the file.                             *)
(*                                                                         *)
(* Control points: test (while RUNNING), lock (mutex_files_queue), wait    *)
(* (loop condition seen true, pthread_cond_wait not yet entered), waiting, *)
(* find (Queue_Find), locksock, signal, meta and content                   *)
(* (Server_Send_Files_to_Client), unlocksock, exited.  The mutex is held   *)
(* at wait, find and locksock.  What a thread does under a mutex that no   *)
(* other thread can observe is one step with the lock or unlock next to it.*)
(***************************************************************************)
EXTENDS ServerState

Goto(w, label) == wpc' = [wpc EXCEPT ![w] = label]

TestRunning(w) ==
  /\ Up /\ wpc[w] = "test"
  /\ Goto(w, IF RUNNING THEN "lock" ELSE "exited")
  /\ UNCHANGED <<mainVars, queueVars, socketVars, commVars, clientVars, task, node>>

\* pthread_mutex_lock(&mutex_files_queue) succeeds, at the top of the loop or
\* inside pthread_cond_wait after a wakeup.
AcquiresFilesQueue(w) ==
  /\ Up
  /\ mutex_files_queue = None
  /\ \/ wpc[w] = "lock"
     \/ wpc[w] = "waiting" /\ w \notin cond_queue_not_empty

\* The loop condition "empty and RUNNING" holds: keep the mutex, go on to
\* pthread_cond_wait.  RUNNING is not protected by the mutex, so ^C may come
\* between this test and the wait.
FindsQueueEmpty(w) ==
  /\ AcquiresFilesQueue(w)
  /\ Files_Queue = <<>> /\ RUNNING
  /\ mutex_files_queue' = w
  /\ Goto(w, "wait")
  /\ UNCHANGED <<mainVars, Files_Queue, cond_queue_not_empty, cond_queue_not_full, popped,
                 socketVars, commVars, clientVars, task, node>>

WaitNotEmpty(w) ==
  /\ Up /\ wpc[w] = "wait"
  /\ mutex_files_queue' = None
  /\ cond_queue_not_empty' = cond_queue_not_empty \cup {w}
  /\ Goto(w, "waiting")
  /\ UNCHANGED <<mainVars, Files_Queue, cond_queue_not_full, popped,
                 socketVars, commVars, clientVars, task, node>>

\* A faulty worker that breaks out of the loop with the mutex locked.
LeavesLoopLocked(w) ==
  /\ AcquiresFilesQueue(w)
  /\ ~RUNNING
  /\ mutex_files_queue' = w
  /\ Goto(w, "exited")
  /\ UNCHANGED <<mainVars, Files_Queue, cond_queue_not_empty, cond_queue_not_full, popped,
                 socketVars, commVars, clientVars, task, node>>

\* if (!RUNNING) unlock and break, with entries left in the queue or not.
LeavesLoop(w) ==
  /\ AcquiresFilesQueue(w)
  /\ ~RUNNING
  /\ Goto(w, "exited")
  /\ UNCHANGED <<mainVars, queueVars, socketVars, commVars, clientVars, task, node>>

\* A faulty worker that unlocks mutex_files_queue as soon as it has popped.
PopTaskUnlocksEarly(w) ==
  /\ AcquiresFilesQueue(w)
  /\ Files_Queue # <<>> /\ RUNNING
  /\ mutex_files_queue' = None
  /\ Files_Queue' = Tail(Files_Queue)
  /\ task' = [task EXCEPT ![w] = Head(Files_Queue)]
  /\ popped' = [popped EXCEPT ![Head(Files_Queue).owner] = @ + 1]
  /\ Goto(w, "find")
  /\ UNCHANGED <<mainVars, cond_queue_not_empty, cond_queue_not_full,
                 socketVars, commVars, clientVars, node>>

PopTask(w) ==
  /\ AcquiresFilesQueue(w)
  /\ Files_Queue # <<>> /\ RUNNING
  /\ mutex_files_queue' = w
  /\ Files_Queue' = Tail(Files_Queue)
  /\ task' = [task EXCEPT ![w] = Head(Files_Queue)]
  /\ popped' = [popped EXCEPT ![Head(Files_Queue).owner] = @ + 1]
  /\ Goto(w, "find")
  /\ UNCHANGED <<mainVars, cond_queue_not_empty, cond_queue_not_full,
                 socketVars, commVars, clientVars, node>>

\* Queue_Find(Mutex_Socket_Queue, socket), without mutex_socket_queue.
FindMutex(w) ==
  /\ Up /\ wpc[w] = "find"
  /\ \E n \in Mutex_Socket_Queue :
       /\ sock[n] = task[w].socket
       /\ node' = [node EXCEPT ![w] = n]
  /\ Goto(w, "locksock")
  /\ UNCHANGED <<mainVars, queueVars, socketVars, commVars, clientVars, task>>

\* Lock the mutex of the socket, then unlock mutex_files_queue.
LockSocketMutex(w) ==
  /\ Up /\ wpc[w] = "locksock"
  /\ mutex_socket[node[w]] = None
  /\ mutex_socket' = [mutex_socket EXCEPT ![node[w]] = w]
  /\ mutex_files_queue' = None
  /\ Goto(w, "signal")
  /\ UNCHANGED <<mainVars, Files_Queue, cond_queue_not_empty, cond_queue_not_full, popped,
                 Mutex_Socket_Queue, conn, commVars, clientVars, task, node>>

\* A faulty worker that never announces the room it has made.
SignalNotFullForgotten(w) ==
  /\ Up /\ wpc[w] = "signal"
  /\ Goto(w, "meta")
  /\ UNCHANGED <<mainVars, queueVars, socketVars, commVars, clientVars, task, node>>

SignalNotFull(w) ==
  /\ Up /\ wpc[w] = "signal"
  /\ cond_queue_not_full' \in SignalOne(cond_queue_not_full)
  /\ Goto(w, "meta")
  /\ UNCHANGED <<mainVars, Files_Queue, mutex_files_queue, cond_queue_not_empty, popped,
                 socketVars, commVars, clientVars, task, node>>

-----------------------------------------------------------------------------
(* Server_Send_Files_to_Client: the writes to the socket of the task.      *)

IsTermination(t) == t.item = TerminationMsg(t.owner)

\* write(2) of one part of the task: it reaches whoever the descriptor is
\* connected to now.
WriteChunk(w, part) ==
  LET c == conn[task[w].socket]
  IN  /\ RoomToClient(c)
      /\ toClient' = [toClient EXCEPT ![c] =
           Append(@, [owner |-> task[w].owner, item |-> task[w].item, part |-> part])]
      /\ UNCHANGED <<rpc, received, toServer>>

\* A faulty worker that is done with a file when its metadata is sent.
SendMetaDataOnly(w) ==
  /\ Up /\ wpc[w] = "meta"
  /\ WriteChunk(w, "meta")
  /\ Goto(w, "unlocksock")
  /\ UNCHANGED <<mainVars, queueVars, socketVars, commVars, task, node>>

SendMetaData(w) ==
  /\ Up /\ wpc[w] = "meta"
  /\ WriteChunk(w, "meta")
  /\ Goto(w, IF IsTermination(task[w]) THEN "unlocksock" ELSE "content")
  /\ UNCHANGED <<mainVars, queueVars, socketVars, commVars, task, node>>

SendContent(w) ==
  /\ Up /\ wpc[w] = "content"
  /\ WriteChunk(w, "content")
  /\ Goto(w, "unlocksock")
  /\ UNCHANGED <<mainVars, queueVars, socketVars, commVars, task, node>>

\* QueueNode_Delete of the popped entry, then QueueNode_UnlockMutex.
UnlockSocketMutex(w) ==
  /\ Up /\ wpc[w] = "unlocksock"
  /\ mutex_socket' = [mutex_socket EXCEPT ![node[w]] = None]
  /\ task' = [task EXCEPT ![w] = None]
  /\ node' = [node EXCEPT ![w] = None]
  /\ Goto(w, "test")
  /\ UNCHANGED <<mainVars, queueVars, Mutex_Socket_Queue, conn, commVars, clientVars>>

WorkerStep(w) ==
  \/ TestRunning(w)
  \/ FindsQueueEmpty(w) \/ WaitNotEmpty(w) \/ LeavesLoop(w) \/ PopTask(w)
  \/ FindMutex(w) \/ LockSocketMutex(w) \/ SignalNotFull(w)
  \/ SendMetaData(w) \/ SendContent(w)
  \/ UnlockSocketMutex(w)
=============================================================================
