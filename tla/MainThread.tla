------------------------------ MODULE MainThread ------------------------------
(***************************************************************************)
(* The main thread of dataServer (dataServer.c:115-168): accept clients    *)
(* while RUNNING, then ThreadPool_Destroy and clean up; and the SIGINT     *)
(* handler, which runs on the main thread.                                 *)
(*                                                                         *)
(* Control points: test (while RUNNING), call (test passed, accept(2) not  *)
(* yet called), accept (blocked in it), close, join (ThreadPool_Destroy    *)
(* after the broadcast), cleanup.  The listening socket stays open until   *)
(* close.                                                                  *)
(***************************************************************************)
EXTENDS ServerState

Listening == Up /\ mpc \in {"test", "call", "accept", "close"}

TestAccepting ==
  /\ Up /\ mpc = "test"
  /\ mpc' = IF RUNNING THEN "call" ELSE "close"
  /\ UNCHANGED <<proc, RUNNING, queueVars, socketVars, workerVars, commVars, clientVars>>

\* accept(2) reserves an unused descriptor and then waits for a connection.
BlockInAccept ==
  /\ Up /\ mpc = "call"
  /\ \E s \in Socket : conn[s] = None
  /\ mpc' = "accept"
  /\ UNCHANGED <<proc, RUNNING, queueVars, socketVars, workerVars, commVars, clientVars>>

\* No descriptor is unused.  The error ends the process, unless ^C was typed.
AcceptFails ==
  /\ Up /\ mpc = "call"
  /\ \A s \in Socket : conn[s] # None
  /\ proc' = IF RUNNING THEN "failed" ELSE proc
  /\ mpc' = IF RUNNING THEN mpc ELSE "close"
  /\ UNCHANGED <<RUNNING, queueVars, socketVars, workerVars, commVars, clientVars>>

\* A connection accept(2) can return.
Pending(c) == rpc[c] = "connecting" /\ cpc[c] = "idle"

\* Create the communication thread of the new client.
AcceptClient(c) ==
  /\ Up /\ mpc = "accept" /\ Pending(c)
  /\ \E s \in Socket :
       /\ conn[s] = None
       /\ conn' = [conn EXCEPT ![s] = c]
       /\ sock' = [sock EXCEPT ![c] = s]
  /\ cpc' = [cpc EXCEPT ![c] = "register"]
  /\ mpc' = "test"
  /\ UNCHANGED <<proc, RUNNING, queueVars, Mutex_Socket_Queue, mutex_socket, workerVars,
                 inserted, clientVars>>

\* gethostbyaddr finds no name for the address of the client, for good or while
\* the resolver does not answer: the error ends the process.
LookupFails(c) ==
  /\ Up /\ mpc = "accept" /\ Pending(c) /\ c \in NoName
  /\ proc' = "failed"
  /\ UNCHANGED <<mpc, RUNNING, queueVars, socketVars, workerVars, commVars, clientVars>>

\* SIGINT: Stop_Server clears RUNNING; a blocked accept(2) returns EINTR.  A
\* second ^C matters only to accept(2).
Stop_Server ==
  /\ Up /\ Interruptible
  /\ RUNNING \/ mpc = "accept"
  /\ RUNNING' = FALSE
  /\ mpc' = IF mpc = "accept" THEN "close" ELSE mpc
  /\ UNCHANGED <<proc, queueVars, socketVars, workerVars, commVars, clientVars>>

\* close(socket_number), then pthread_cond_broadcast, without mutex_files_queue.
BroadcastStop ==
  /\ Up /\ mpc = "close"
  /\ cond_queue_not_empty' = {}
  /\ mpc' = "join"
  /\ UNCHANGED <<proc, RUNNING, Files_Queue, mutex_files_queue, cond_queue_not_full, popped,
                 socketVars, workerVars, commVars, clientVars>>

\* A faulty main thread that does not join the workers.
JoinNobody ==
  /\ Up /\ mpc = "join"
  /\ mpc' = "cleanup"
  /\ UNCHANGED <<proc, RUNNING, queueVars, socketVars, workerVars, commVars, clientVars>>

JoinWorkers ==
  /\ Up /\ mpc = "join"
  /\ \A w \in Worker : wpc[w] = "exited"
  /\ mpc' = "cleanup"
  /\ UNCHANGED <<proc, RUNNING, queueVars, socketVars, workerVars, commVars, clientVars>>

ThreadsGone == {c \in Client : cpc[c] \in {"idle", "exited"}}

\* Destroy the mutexes, the condition variables and both queues, then exit.
\* pthread_cond_destroy of glibc blocks while a thread waits on the variable.
\* Mutex_Socket_Queue is NULL until the first client is accepted, and
\* Queue_Destroy dereferences it.  Communication threads that still run use
\* what is destroyed: the process may fault before it exits.
CleanUp ==
  /\ Up /\ mpc = "cleanup"
  /\ cond_queue_not_full = {}
  /\ proc' \in IF \A c \in Client : cpc[c] = "idle" THEN {"crashed"}
               ELSE IF ThreadsGone # Client THEN {"exited", "crashed"}
               ELSE {"exited"}
  /\ UNCHANGED <<mpc, RUNNING, queueVars, socketVars, workerVars, commVars, clientVars>>

MainStep ==
  \/ TestAccepting \/ BlockInAccept \/ AcceptFails
  \/ (\E c \in Client : AcceptClient(c) \/ LookupFails(c))
  \/ BroadcastStop \/ JoinWorkers \/ CleanUp
=============================================================================
