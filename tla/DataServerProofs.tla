--------------------------- MODULE DataServerProofs ---------------------------
(***************************************************************************)
(* Proofs about the core, for every value of the constants.                *)
(*                                                                         *)
(* First what lies below the streams: types and counters;                  *)
(* mutex_files_queue, the two condition variables and the descriptors;     *)
(* Files_Queue.  The queue is bounded, no entry and no communication       *)
(* thread is stranded by a lost signal, the list never has two nodes for   *)
(* one descriptor, and the queue holds what was inserted and not popped,   *)
(* per client and in order.                                                *)
(*                                                                         *)
(* Then the streams to the clients and the end of the server: StreamInv is *)
(* an invariant, files come whole and in order, nodes are deleted after    *)
(* the last write, the main thread cleans up only when the workers have    *)
(* exited, and every stream then ends with a whole item.  With them, the   *)
(* server implements DirectoryCopy.                                        *)
(***************************************************************************)
EXTENDS DataServerInv, FiniteSetTheorems, TLAPS

-----------------------------------------------------------------------------
(* Types, and bounds on the counters at each control point.  Before them, *)
(* the frame lemmas: which steps change which variables.  The proofs of all *)
(* invariants use them to look only at the steps that matter.               *)

ChangesQueue ==
  \/ \E w \in Worker : FindsQueueEmpty(w) \/ WaitNotEmpty(w) \/ PopTask(w)
                       \/ LockSocketMutex(w) \/ SignalNotFull(w)
  \/ \E c \in Client : WaitNotFull(c) \/ InsertItem(c) \/ SignalNotEmpty(c)
  \/ BroadcastStop \/ SpuriousWakeup

ChangesSockets ==
  \/ \E w \in Worker : LockSocketMutex(w) \/ UnlockSocketMutex(w)
  \/ \E c \in Client : AcceptClient(c) \/ RegisterSocket(c) \/ DeleteNode(c) \/ CloseSocket(c)

ChangesWorkers == \E w \in Worker : WorkerStep(w)

ChangesComms == \E c \in Client : CommStep(c) \/ AcceptClient(c)

ChangesClients ==
  \/ \E w \in Worker : SendMetaData(w) \/ SendContent(w)
  \/ \E c \in Client : AcceptRequest(c) \/ RejectRequest(c) \/ ReadAck(c)
                       \/ Connect(c) \/ ClientStep(c)

\* The steps that change Files_Queue, its mutex, the wait sets or popped.
LEMMA QueueFrame == ASSUME Next PROVE ChangesQueue \/ UNCHANGED queueVars
<1>1. ASSUME NEW w \in Worker, WorkerStep(w) PROVE ChangesQueue \/ UNCHANGED queueVars
  BY <1>1 DEF WorkerStep, ChangesQueue, TestRunning, LeavesLoop, FindMutex, SendMetaData,
              SendContent, UnlockSocketMutex
<1>2. ASSUME NEW c \in Client, CommStep(c) PROVE ChangesQueue \/ UNCHANGED queueVars
  BY <1>2 DEF CommStep, ChangesQueue, RegisterSocket, AcceptRequest, RejectRequest, ReadAck,
              DeleteNode, CloseSocket
<1>3. ASSUME NEW c \in Client, Connect(c) \/ ClientStep(c) PROVE UNCHANGED queueVars
  BY <1>3 DEF ClientStep, Connect, ServerGone, ReadMetaData, ReadContent, SendAck, SendEnd
<1>4. ASSUME MainStep \/ Stop_Server PROVE ChangesQueue \/ UNCHANGED queueVars
  BY <1>4 DEF MainStep, ChangesQueue, TestAccepting, BlockInAccept, AcceptFails, AcceptClient,
              LookupFails, JoinWorkers, CleanUp, Stop_Server
<1>5. QED
  BY <1>1, <1>2, <1>3, <1>4 DEF Next, ChangesQueue

\* The steps that change the list of nodes, their mutexes or the descriptors.
LEMMA SocketFrame == ASSUME Next PROVE ChangesSockets \/ UNCHANGED socketVars
<1>1. ASSUME NEW w \in Worker, WorkerStep(w) PROVE ChangesSockets \/ UNCHANGED socketVars
  BY <1>1 DEF WorkerStep, ChangesSockets, TestRunning, FindsQueueEmpty, WaitNotEmpty, LeavesLoop,
              PopTask, FindMutex, SignalNotFull, SendMetaData, SendContent
<1>2. ASSUME NEW c \in Client, CommStep(c) PROVE ChangesSockets \/ UNCHANGED socketVars
  BY <1>2 DEF CommStep, ChangesSockets, AcceptRequest, RejectRequest, WaitNotFull, InsertItem,
              SignalNotEmpty, ReadAck
<1>3. ASSUME NEW c \in Client, Connect(c) \/ ClientStep(c) PROVE UNCHANGED socketVars
  BY <1>3 DEF ClientStep, Connect, ServerGone, ReadMetaData, ReadContent, SendAck, SendEnd
<1>4. ASSUME MainStep \/ Stop_Server \/ SpuriousWakeup
      PROVE  ChangesSockets \/ UNCHANGED socketVars
  BY <1>4 DEF MainStep, ChangesSockets, TestAccepting, BlockInAccept, AcceptFails, LookupFails,
              BroadcastStop, JoinWorkers, CleanUp, Stop_Server, SpuriousWakeup
<1>5. QED
  BY <1>1, <1>2, <1>3, <1>4 DEF Next

\* Only workers change their own control point, entry and node.
LEMMA WorkerFrame == ASSUME Next PROVE ChangesWorkers \/ UNCHANGED workerVars
<1>1. ASSUME NEW c \in Client, CommStep(c) PROVE UNCHANGED workerVars
  BY <1>1 DEF CommStep, RegisterSocket, AcceptRequest, RejectRequest, WaitNotFull, InsertItem,
              SignalNotEmpty, ReadAck, DeleteNode, CloseSocket
<1>2. ASSUME NEW c \in Client, Connect(c) \/ ClientStep(c) PROVE UNCHANGED workerVars
  BY <1>2 DEF ClientStep, Connect, ServerGone, ReadMetaData, ReadContent, SendAck, SendEnd
<1>3. ASSUME MainStep \/ Stop_Server \/ SpuriousWakeup PROVE UNCHANGED workerVars
  BY <1>3 DEF MainStep, TestAccepting, BlockInAccept, AcceptFails, AcceptClient, LookupFails,
              BroadcastStop, JoinWorkers, CleanUp, Stop_Server, SpuriousWakeup
<1>4. QED
  BY <1>1, <1>2, <1>3 DEF Next, ChangesWorkers

\* Only communication threads, and the thread that creates them, change theirs.
LEMMA CommFrame == ASSUME Next PROVE ChangesComms \/ UNCHANGED commVars
<1>1. ASSUME NEW w \in Worker, WorkerStep(w) PROVE UNCHANGED commVars
  BY <1>1 DEF WorkerStep, TestRunning, FindsQueueEmpty, WaitNotEmpty, LeavesLoop, PopTask,
              FindMutex, LockSocketMutex, SignalNotFull, SendMetaData, SendContent,
              UnlockSocketMutex
<1>2. ASSUME NEW c \in Client, Connect(c) \/ ClientStep(c) PROVE UNCHANGED commVars
  BY <1>2 DEF ClientStep, Connect, ServerGone, ReadMetaData, ReadContent, SendAck, SendEnd
<1>3. ASSUME MainStep \/ Stop_Server \/ SpuriousWakeup PROVE ChangesComms \/ UNCHANGED commVars
  BY <1>3 DEF MainStep, ChangesComms, TestAccepting, BlockInAccept, AcceptFails, LookupFails,
              BroadcastStop, JoinWorkers, CleanUp, Stop_Server, SpuriousWakeup
<1>4. QED
  BY <1>1, <1>2, <1>3 DEF Next, ChangesComms

\* The steps that change the clients or what is on the way to or from them.
LEMMA ClientFrame == ASSUME Next PROVE ChangesClients \/ UNCHANGED clientVars
<1>1. ASSUME NEW w \in Worker, WorkerStep(w) PROVE ChangesClients \/ UNCHANGED clientVars
  BY <1>1 DEF WorkerStep, ChangesClients, TestRunning, FindsQueueEmpty, WaitNotEmpty, LeavesLoop,
              PopTask, FindMutex, LockSocketMutex, SignalNotFull, UnlockSocketMutex
<1>2. ASSUME NEW c \in Client, CommStep(c) PROVE ChangesClients \/ UNCHANGED clientVars
  BY <1>2 DEF CommStep, ChangesClients, RegisterSocket, WaitNotFull, InsertItem, SignalNotEmpty,
              DeleteNode, CloseSocket
<1>3. ASSUME MainStep \/ Stop_Server \/ SpuriousWakeup PROVE UNCHANGED clientVars
  BY <1>3 DEF MainStep, TestAccepting, BlockInAccept, AcceptFails, AcceptClient, LookupFails,
              BroadcastStop, JoinWorkers, CleanUp, Stop_Server, SpuriousWakeup
<1>4. QED
  BY <1>1, <1>2, <1>3 DEF Next, ChangesClients

-----------------------------------------------------------------------------

LEMMA InitTypes == ASSUME Init PROVE TypeInv
BY ConstantsAssumption DEF Init, TypeInv, TypeOK, MainTypes, QueueTypes, SocketTypes, WorkerTypes,
   CommTypes, ClientTypes, CommControl, WorkerControl, MainLabel, WorkerLabel, CommLabel,
   ClientLabel, WaitsForSocket, HoldsSocket, TerminationMsg

\* A pop takes an entry from the front.
LEMMA HeadTail == ASSUME NEW S, NEW q \in Seq(S), q # <<>>
                  PROVE  Head(q) \in S /\ Tail(q) \in Seq(S) /\ Len(Tail(q)) = Len(q) - 1
OBVIOUS

LEMMA AppendType == ASSUME NEW S, NEW q \in Seq(S), NEW e \in S
                    PROVE  Append(q, e) \in Seq(S) /\ Len(Append(q, e)) = Len(q) + 1
OBVIOUS

\* What a communication thread inserts is an entry.
LEMMA AppendLength == ASSUME NEW S, NEW q \in Seq(S), NEW e
                      PROVE  Len(Append(q, e)) = Len(q) + 1
OBVIOUS

LEMMA InsertedEntry == ASSUME TypeInv, NEW c \in Client, InsertItem(c)
                       PROVE  [socket |-> sock[c], owner |-> c, item |-> inserted[c] + 1] \in Entry
BY DEF TypeInv, TypeOK, InsertItem, AtLoopTest, CommTypes, CommControl, Entry

LEMMA MainTypesStep == ASSUME TypeInv, Next PROVE MainTypes'
<1> USE DEF TypeInv, TypeOK, MainTypes, MainLabel, mainVars
<1>1. ASSUME NEW w \in Worker, WorkerStep(w) PROVE MainTypes'
  BY <1>1 DEF WorkerStep, TestRunning, FindsQueueEmpty, WaitNotEmpty, LeavesLoop, PopTask,
              FindMutex, LockSocketMutex, SignalNotFull, SendMetaData, SendContent,
              UnlockSocketMutex
<1>2. ASSUME NEW c \in Client, CommStep(c) PROVE MainTypes'
  BY <1>2 DEF CommStep, RegisterSocket, AcceptRequest, RejectRequest, WaitNotFull, InsertItem,
              SignalNotEmpty, ReadAck, DeleteNode, CloseSocket
<1>3. ASSUME NEW c \in Client, Connect(c) \/ ClientStep(c) PROVE MainTypes'
  BY <1>3 DEF ClientStep, Connect, ServerGone, ReadMetaData, ReadContent, SendAck, SendEnd
<1>4. ASSUME MainStep \/ Stop_Server \/ SpuriousWakeup PROVE MainTypes'
  BY <1>4 DEF MainStep, TestAccepting, BlockInAccept, AcceptFails, AcceptClient, LookupFails,
              BroadcastStop, JoinWorkers, CleanUp, Stop_Server, SpuriousWakeup
<1>5. QED
  BY <1>1, <1>2, <1>3, <1>4 DEF Next

LEMMA QueueTypesStep == ASSUME TypeInv, Next PROVE QueueTypes'
<1> USE ConstantsAssumption DEF TypeInv, TypeOK, QueueTypes
<1>1. CASE UNCHANGED queueVars
  BY <1>1 DEF queueVars
<1>2. ASSUME NEW w \in Worker, FindsQueueEmpty(w) \/ WaitNotEmpty(w) PROVE QueueTypes'
  BY <1>2 DEF FindsQueueEmpty, WaitNotEmpty
<1>3. ASSUME NEW w \in Worker, PopTask(w) PROVE QueueTypes'
  <2>1. Head(Files_Queue) \in Entry /\ Tail(Files_Queue) \in Seq(Entry)
    BY <1>3, HeadTail DEF PopTask
  <2>2. Head(Files_Queue).owner \in Client
    BY <2>1 DEF Entry
  <2>3. QED
    BY <1>3, <2>1, <2>2 DEF PopTask
<1>4. ASSUME NEW w \in Worker, LockSocketMutex(w) \/ SignalNotFull(w) PROVE QueueTypes'
  BY <1>4 DEF LockSocketMutex, SignalNotFull, SignalOne
<1>5. ASSUME NEW c \in Client, WaitNotFull(c) \/ SignalNotEmpty(c) PROVE QueueTypes'
  BY <1>5 DEF WaitNotFull, SignalNotEmpty, SignalOne
<1>6. ASSUME NEW c \in Client, InsertItem(c) PROVE QueueTypes'
  BY <1>6, InsertedEntry, AppendType DEF InsertItem
<1>7. ASSUME BroadcastStop \/ SpuriousWakeup PROVE QueueTypes'
  BY <1>7 DEF BroadcastStop, SpuriousWakeup
<1>8. QED
  BY <1>1, <1>2, <1>3, <1>4, <1>5, <1>6, <1>7, QueueFrame DEF ChangesQueue

LEMMA SocketTypesStep == ASSUME TypeInv, Next PROVE SocketTypes'
<1> USE DEF TypeInv, TypeOK, SocketTypes
<1>1. CASE UNCHANGED socketVars
  BY <1>1 DEF socketVars
<1>2. ASSUME NEW w \in Worker, LockSocketMutex(w) \/ UnlockSocketMutex(w) PROVE SocketTypes'
  BY <1>2 DEF LockSocketMutex, UnlockSocketMutex
<1>3. ASSUME NEW c \in Client, AcceptClient(c) PROVE SocketTypes'
  BY <1>3 DEF AcceptClient
<1>4. ASSUME NEW c \in Client, RegisterSocket(c) \/ DeleteNode(c) \/ CloseSocket(c)
      PROVE  SocketTypes'
  BY <1>4 DEF RegisterSocket, DeleteNode, CloseSocket
<1>5. QED
  BY <1>1, <1>2, <1>3, <1>4, SocketFrame DEF ChangesSockets

LEMMA WorkerTypesStep == ASSUME TypeInv, Next PROVE WorkerTypes' /\ WorkerControl'
<1> USE DEF TypeInv, TypeOK, WorkerTypes, WorkerControl, WorkerLabel, WaitsForSocket, HoldsSocket,
            Goto
<1>1. CASE UNCHANGED workerVars
  BY <1>1 DEF workerVars
<1>2. ASSUME NEW w \in Worker, TestRunning(w) \/ FindsQueueEmpty(w) \/ WaitNotEmpty(w) \/ LeavesLoop(w)
      PROVE  WorkerTypes' /\ WorkerControl'
  BY <1>2 DEF TestRunning, FindsQueueEmpty, WaitNotEmpty, LeavesLoop
<1>3. ASSUME NEW w \in Worker, PopTask(w) PROVE WorkerTypes' /\ WorkerControl'
  <2>1. Head(Files_Queue) \in Entry
    BY <1>3, HeadTail DEF PopTask, QueueTypes
  <2>2. WorkerTypes'
    BY <1>3, <2>1 DEF PopTask
  <2>3. WorkerControl'
    BY <1>3, <2>1 DEF PopTask
  <2>4. QED
    BY <2>2, <2>3
<1>4. ASSUME NEW w \in Worker, FindMutex(w) PROVE WorkerTypes' /\ WorkerControl'
  BY <1>4 DEF FindMutex, SocketTypes
<1>5. ASSUME NEW w \in Worker, LockSocketMutex(w) \/ SignalNotFull(w) PROVE WorkerTypes' /\ WorkerControl'
  BY <1>5 DEF LockSocketMutex, SignalNotFull
<1>6. ASSUME NEW w \in Worker, SendMetaData(w) \/ SendContent(w) PROVE WorkerTypes' /\ WorkerControl'
  BY <1>6 DEF SendMetaData, SendContent
<1>7. ASSUME NEW w \in Worker, UnlockSocketMutex(w) PROVE WorkerTypes' /\ WorkerControl'
  BY <1>7 DEF UnlockSocketMutex
<1>8. QED
  BY <1>1, <1>2, <1>3, <1>4, <1>5, <1>6, <1>7, WorkerFrame DEF ChangesWorkers, WorkerStep

LEMMA CommTypesStep == ASSUME TypeInv, Next PROVE CommTypes' /\ CommControl'
<1> USE ConstantsAssumption
    DEF TypeInv, TypeOK, CommTypes, CommControl, CommLabel, CommGoto, TerminationMsg
<1>1. CASE UNCHANGED commVars
  BY <1>1 DEF commVars
<1>2. ASSUME NEW c \in Client, AcceptClient(c) PROVE CommTypes' /\ CommControl'
  <2>1. PICK s \in Socket : sock' = [sock EXCEPT ![c] = s]
    BY <1>2 DEF AcceptClient
  <2>2. cpc[c] = "idle"
    BY <1>2 DEF AcceptClient, Pending
  <2>3. QED
    BY <1>2, <2>1, <2>2 DEF AcceptClient
<1>3. ASSUME NEW c \in Client, RegisterSocket(c) \/ AcceptRequest(c) \/ RejectRequest(c)
      PROVE  CommTypes' /\ CommControl'
  BY <1>3 DEF RegisterSocket, AcceptRequest, RejectRequest
<1>4. ASSUME NEW c \in Client, WaitNotFull(c) \/ InsertItem(c)
      PROVE  CommTypes' /\ CommControl'
  <2>1. CASE WaitNotFull(c)
    BY <2>1 DEF WaitNotFull, AtLoopTest
  <2>2. CASE InsertItem(c)
    <3>1. inserted[c] < TerminationMsg(c) /\ sock[c] \in Socket
      BY <2>2 DEF InsertItem, AtLoopTest
    <3>2. /\ cpc' = [cpc EXCEPT ![c] = "signal"] /\ sock' = sock
          /\ inserted' = [inserted EXCEPT ![c] = inserted[c] + 1]
      BY <2>2 DEF InsertItem
    <3>3. inserted[c] + 1 \in Nat /\ inserted[c] + 1 <= TerminationMsg(c)
      BY <3>1
    <3>4. CommTypes'
      BY <3>2, <3>3
    <3>5. CommControl'
      BY <3>1, <3>2
    <3>6. QED
      BY <3>4, <3>5
  <2>3. QED
    BY <1>4, <2>1, <2>2
<1>5. ASSUME NEW c \in Client, SignalNotEmpty(c) PROVE CommTypes' /\ CommControl'
  BY <1>5 DEF SignalNotEmpty
<1>6. ASSUME NEW c \in Client, ReadAck(c) \/ DeleteNode(c) \/ CloseSocket(c)
      PROVE  CommTypes' /\ CommControl'
  <2>1. cpc[c] \in {"acks", "delete", "close"} /\ UNCHANGED <<sock, inserted>>
    BY <1>6 DEF ReadAck, DeleteNode, CloseSocket
  <2>2. PICK l \in {"acks", "delete", "close", "exited"} : cpc' = [cpc EXCEPT ![c] = l]
    <3>1. CASE ReadAck(c)
      BY <3>1 DEF ReadAck
    <3>2. CASE DeleteNode(c)
      BY <3>2 DEF DeleteNode
    <3>3. CASE CloseSocket(c)
      BY <3>3 DEF CloseSocket
    <3>4. QED
      BY <1>6, <3>1, <3>2, <3>3
  <2>3. CommTypes'
    BY <2>1, <2>2
  <2>4. CommControl'
    BY <2>1, <2>2
  <2>5. QED
    BY <2>3, <2>4
<1>7. QED
  BY <1>1, <1>2, <1>3, <1>4, <1>5, <1>6, CommFrame DEF ChangesComms, CommStep

\* A write appends one chunk to one stream.
LEMMA WriteChunkTypes == ASSUME TypeInv, NEW w \in Worker, wpc[w] \in HoldsSocket,
                                NEW part \in {"meta", "content"}, WriteChunk(w, part)
                         PROVE  ClientTypes'
<1> DEFINE c == conn[task[w].socket]
           e == [owner |-> task[w].owner, item |-> task[w].item, part |-> part]
<1>1. e \in Chunk
  BY DEF TypeInv, WorkerControl, Entry, Chunk
<1>2. ASSUME NEW d \in Client
      PROVE  /\ Append(toClient[d], e) \in Seq(Chunk)
             /\ Len(Append(toClient[d], e)) = Len(toClient[d]) + 1
  <2>1. toClient[d] \in Seq(Chunk)
    BY DEF TypeInv, TypeOK, ClientTypes
  <2>2. QED
    BY <1>1, <2>1, AppendType
<1>3. toClient' = [toClient EXCEPT ![c] = Append(toClient[c], e)]
  BY DEF WriteChunk
<1> HIDE DEF c, e
<1>4. toClient' \in [Client -> Seq(Chunk)]
  BY <1>2, <1>3 DEF TypeInv, TypeOK, ClientTypes
<1>5. ASSUME NEW d \in Client PROVE received[d] <= Len(toClient'[d])
  <2>1. toClient[d] \in Seq(Chunk) /\ received[d] <= Len(toClient[d]) /\ received[d] \in Nat
    BY DEF TypeInv, TypeOK, ClientTypes
  <2>2. Len(toClient[d]) \in Nat
    BY <2>1
  <2>3. toClient'[d] = toClient[d] \/ toClient'[d] = Append(toClient[d], e)
    BY <1>3 DEF TypeInv, TypeOK, ClientTypes
  <2>4. QED
    BY <1>2, <2>1, <2>2, <2>3
<1>6. QED
  BY <1>4, <1>5 DEF WriteChunk, TypeInv, TypeOK, ClientTypes

\* A client reads what is there.
LEMMA ReadTypes == ASSUME TypeInv, NEW c \in Client, received[c] < Len(toClient[c]),
                          received' = [received EXCEPT ![c] = received[c] + 1],
                          NEW d \in Client
                   PROVE  received'[d] \in Nat /\ received'[d] <= Len(toClient[d])
<1>1. /\ received \in [Client -> Nat] /\ received[d] <= Len(toClient[d])
      /\ toClient[c] \in Seq(Chunk) /\ toClient[d] \in Seq(Chunk)
  BY DEF TypeInv, TypeOK, ClientTypes
<1>2. Len(toClient[c]) \in Nat /\ Len(toClient[d]) \in Nat
  BY <1>1
<1>3. received'[d] = IF d = c THEN received[d] + 1 ELSE received[d]
  BY <1>1
<1>4. QED
  BY <1>1, <1>2, <1>3

LEMMA ClientTypesStep == ASSUME TypeInv, Next PROVE ClientTypes'
<1> USE DEF TypeInv, TypeOK, ClientTypes, ClientLabel, ClientGoto
<1>1. CASE UNCHANGED clientVars
  BY <1>1 DEF clientVars
<1>2. ASSUME NEW w \in Worker, SendMetaData(w) \/ SendContent(w) PROVE ClientTypes'
  <2>1. wpc[w] \in HoldsSocket /\ (WriteChunk(w, "meta") \/ WriteChunk(w, "content"))
    BY <1>2 DEF SendMetaData, SendContent, HoldsSocket
  <2>2. QED
    BY <2>1, WriteChunkTypes
<1>3. ASSUME NEW c \in Client, AcceptRequest(c) \/ RejectRequest(c) PROVE ClientTypes'
  BY <1>3 DEF AcceptRequest, RejectRequest
<1>4. ASSUME NEW c \in Client, ReadAck(c) PROVE ClientTypes'
  <2>1. Tail(toServer[c]) \in Seq({"ACK", "END"})
    BY <1>4, HeadTail DEF ReadAck
  <2>2. QED
    BY <1>4, <2>1 DEF ReadAck
<1>5. ASSUME NEW c \in Client, Connect(c) \/ ServerGone(c) PROVE ClientTypes'
  <2>1. rpc' \in [Client -> ClientLabel]
    BY <1>5 DEF Connect, ServerGone
  <2>2. QED
    BY <1>5, <2>1 DEF Connect, ServerGone
<1>6. ASSUME NEW c \in Client, ReadMetaData(c) \/ ReadContent(c) PROVE ClientTypes'
  <2>1. rpc' \in [Client -> ClientLabel]
    BY <1>6 DEF ReadMetaData, ReadContent
  <2>2. received' = [received EXCEPT ![c] = received[c] + 1] /\ received[c] < Len(toClient[c])
    BY <1>6 DEF ReadMetaData, ReadContent, HasUnread
  <2>3. ASSUME NEW d \in Client PROVE received'[d] \in Nat /\ received'[d] <= Len(toClient[d])
    BY <2>2, ReadTypes
  <2>4. received' \in [Client -> Nat]
    BY <2>2, <2>3
  <2>5. QED
    BY <1>6, <2>1, <2>3, <2>4 DEF ReadMetaData, ReadContent
<1>7. ASSUME NEW c \in Client, SendAck(c) \/ SendEnd(c) PROVE ClientTypes'
  <2>1. ASSUME NEW m \in {"ACK", "END"} PROVE Append(toServer[c], m) \in Seq({"ACK", "END"})
    BY AppendType
  <2>2. toServer' \in [Client -> Seq({"ACK", "END"})]
    BY <1>7, <2>1 DEF SendAck, SendEnd
  <2>3. rpc' \in [Client -> ClientLabel]
    BY <1>7 DEF SendAck, SendEnd
  <2>4. QED
    BY <1>7, <2>2, <2>3 DEF SendAck, SendEnd
<1>8. QED
  BY <1>1, <1>2, <1>3, <1>4, <1>5, <1>6, <1>7, ClientFrame DEF ChangesClients, ClientStep

-----------------------------------------------------------------------------
\* Every variable holds a value of its type in every reachable state, and so do
\* the counters and entries that the control points speak of.
THEOREM TypeInvariant == Spec => []TypeInv
<1>1. Init => TypeInv
  BY InitTypes
<1>2. TypeInv /\ [Next]_vars => TypeInv'
  <2>1. ASSUME TypeInv, Next PROVE TypeInv'
    BY <2>1, MainTypesStep, QueueTypesStep, SocketTypesStep, WorkerTypesStep, CommTypesStep,
       ClientTypesStep DEF TypeInv, TypeOK
  <2>2. ASSUME TypeInv, UNCHANGED vars PROVE TypeInv'
    BY <2>2 DEF TypeInv, TypeOK, MainTypes, QueueTypes, SocketTypes, WorkerTypes, CommTypes,
                ClientTypes, CommControl, WorkerControl, vars, mainVars, queueVars, socketVars,
                workerVars, commVars, clientVars
  <2>3. QED
    BY <2>1, <2>2
<1>3. QED
  BY <1>1, <1>2, PTL DEF Spec

THEOREM TypeCorrect == Spec => []TypeOK
BY TypeInvariant, PTL DEF TypeInv

-----------------------------------------------------------------------------
(* LockInv, RoomInv and ConnInv.                                            *)

\* Files_Queue never exceeds queue_size, whatever is woken when (Server.c:256).
THEOREM QueueIsBounded == Spec => []QueueBounded
<1>1. Init => QueueBounded
  BY ConstantsAssumption DEF Init, QueueBounded
<1>2. ASSUME TypeInv, QueueBounded, Next PROVE QueueBounded'
  <2> USE ConstantsAssumption DEF TypeInv, TypeOK, QueueTypes, QueueBounded
  <2>1. CASE UNCHANGED queueVars
    BY <1>2, <2>1 DEF queueVars
  <2>2. ASSUME NEW w \in Worker, PopTask(w) PROVE QueueBounded'
    <3>1. Len(Tail(Files_Queue)) = Len(Files_Queue) - 1
      BY <1>2, <2>2, HeadTail DEF PopTask
    <3>2. Len(Files_Queue) \in Nat /\ Files_Queue' = Tail(Files_Queue)
      BY <1>2, <2>2 DEF PopTask
    <3>3. QED
      BY <1>2, <3>1, <3>2
  <2>3. ASSUME NEW c \in Client, InsertItem(c) PROVE QueueBounded'
    <3>1. Len(Files_Queue) \in Nat /\ Len(Files_Queue) < QueueSize
      BY <1>2, <2>3 DEF InsertItem, QueueFull
    <3>2. \E e \in Entry : Files_Queue' = Append(Files_Queue, e)
      BY <1>2, <2>3, InsertedEntry DEF InsertItem
    <3>3. Len(Files_Queue') = Len(Files_Queue) + 1
      BY <1>2, <3>2, AppendType
    <3>4. QED
      BY <3>1, <3>3
  <2>4. ASSUME NEW w \in Worker,
               FindsQueueEmpty(w) \/ WaitNotEmpty(w) \/ LockSocketMutex(w) \/ SignalNotFull(w)
        PROVE  UNCHANGED Files_Queue
    BY <2>4 DEF FindsQueueEmpty, WaitNotEmpty, LockSocketMutex, SignalNotFull
  <2>5. ASSUME NEW c \in Client, WaitNotFull(c) \/ SignalNotEmpty(c) PROVE UNCHANGED Files_Queue
    BY <2>5 DEF WaitNotFull, SignalNotEmpty
  <2>6. ASSUME BroadcastStop \/ SpuriousWakeup PROVE UNCHANGED Files_Queue
    BY <2>6 DEF BroadcastStop, SpuriousWakeup
  <2>7. UNCHANGED Files_Queue => QueueBounded'
    BY <1>2
  <2>8. QED
    BY <1>2, <2>1, <2>2, <2>3, <2>4, <2>5, <2>6, <2>7, QueueFrame DEF ChangesQueue
<1>3. TypeInv /\ QueueBounded /\ [Next]_vars => QueueBounded'
  BY <1>2 DEF QueueBounded, vars, queueVars
<1>4. QED
  BY <1>1, <1>3, TypeInvariant, PTL DEF Spec

-----------------------------------------------------------------------------
LEMMA LockInit == ASSUME Init PROVE LockInv
BY ConstantsAssumption DEF Init, LockInv, WaitsForSocket

LEMMA LockStep == ASSUME TypeInv, LockInv, Next PROVE LockInv'
<1> USE ConstantsAssumption DEF LockInv, WaitsForSocket, TypeInv, TypeOK, QueueTypes, WorkerTypes,
        CommTypes, Goto, CommGoto
<1>1. ASSUME NEW w \in Worker, TestRunning(w) \/ LeavesLoop(w) PROVE LockInv'
  BY <1>1 DEF TestRunning, LeavesLoop, AcquiresFilesQueue, queueVars, commVars
<1>2. ASSUME NEW w \in Worker, FindsQueueEmpty(w) PROVE LockInv'
  BY <1>2 DEF FindsQueueEmpty, AcquiresFilesQueue, commVars
<1>3. ASSUME NEW w \in Worker, WaitNotEmpty(w) PROVE LockInv'
  BY <1>3 DEF WaitNotEmpty, commVars
<1>4. ASSUME NEW w \in Worker, PopTask(w) PROVE LockInv'
  <2>1. wpc[w] \in {"lock", "waiting"} /\ w \notin cond_queue_not_empty
    BY <1>4 DEF PopTask, AcquiresFilesQueue
  <2>2. /\ mutex_files_queue = None /\ mutex_files_queue' = w
        /\ wpc' = [wpc EXCEPT ![w] = "find"]
        /\ UNCHANGED <<cond_queue_not_empty, cond_queue_not_full, cpc>>
    BY <1>4 DEF PopTask, AcquiresFilesQueue, commVars
  <2>3. \A v \in Worker : wpc[v] # "wait"
    BY <2>2
  <2>4. QED
    BY <2>1, <2>2, <2>3
<1>5. ASSUME NEW w \in Worker, FindMutex(w) PROVE LockInv'
  BY <1>5 DEF FindMutex, queueVars, commVars
<1>6. ASSUME NEW w \in Worker, LockSocketMutex(w) PROVE LockInv'
  BY <1>6 DEF LockSocketMutex, commVars
<1>7. ASSUME NEW w \in Worker, SignalNotFull(w) PROVE LockInv'
  BY <1>7 DEF SignalNotFull, SignalOne, commVars
<1>8. ASSUME NEW w \in Worker, SendMetaData(w) \/ SendContent(w) \/ UnlockSocketMutex(w) PROVE LockInv'
  <2>1. /\ wpc[w] \in {"meta", "content", "unlocksock"}
        /\ UNCHANGED <<Files_Queue, mutex_files_queue, cond_queue_not_empty, cond_queue_not_full, cpc>>
    BY <1>8 DEF SendMetaData, SendContent, UnlockSocketMutex, queueVars, commVars
  <2>2. PICK l \in {"content", "unlocksock", "test"} : wpc' = [wpc EXCEPT ![w] = l]
    <3>1. CASE SendMetaData(w)
      BY <3>1 DEF SendMetaData
    <3>2. CASE SendContent(w)
      BY <3>2 DEF SendContent
    <3>3. CASE UnlockSocketMutex(w)
      BY <3>3 DEF UnlockSocketMutex
    <3>4. QED
      BY <1>8, <3>1, <3>2, <3>3
  <2>3. /\ wpc'[w] \notin {"wait", "waiting"} \cup {"find", "locksock"}
        /\ \A v \in Worker : v # w => wpc'[v] = wpc[v]
    BY <2>1, <2>2
  <2>4. /\ mutex_files_queue # w /\ w \notin cond_queue_not_empty
    BY <2>1
  <2>5. QED
    BY <2>1, <2>3, <2>4
<1>9. ASSUME NEW c \in Client, WaitNotFull(c) PROVE LockInv'
  BY <1>9 DEF WaitNotFull, workerVars
<1>10. ASSUME NEW c \in Client, InsertItem(c) PROVE LockInv'
  <2>1. /\ mutex_files_queue = None /\ c \notin cond_queue_not_full
        /\ cpc' = [cpc EXCEPT ![c] = "signal"]
        /\ UNCHANGED <<mutex_files_queue, cond_queue_not_empty, cond_queue_not_full, wpc>>
    BY <1>10 DEF InsertItem, AtLoopTest, workerVars
  <2>2. \A v \in Worker : wpc[v] # "wait"
    BY <2>1
  <2>3. QED
    BY <2>1, <2>2
<1>11. ASSUME NEW c \in Client, SignalNotEmpty(c) PROVE LockInv'
  BY <1>11 DEF SignalNotEmpty, SignalOne, workerVars
<1>12. ASSUME NEW c \in Client,
              \/ AcceptClient(c) \/ RegisterSocket(c) \/ AcceptRequest(c) \/ RejectRequest(c)
              \/ ReadAck(c) \/ DeleteNode(c) \/ CloseSocket(c)
       PROVE  LockInv'
  BY <1>12 DEF AcceptClient, RegisterSocket, AcceptRequest, RejectRequest, ReadAck, DeleteNode,
               CloseSocket, Pending, queueVars, workerVars
<1>13. ASSUME BroadcastStop \/ SpuriousWakeup PROVE LockInv'
  BY <1>13 DEF BroadcastStop, SpuriousWakeup, workerVars, commVars
<1>14. CASE UNCHANGED <<queueVars, workerVars, commVars>>
  BY <1>14 DEF queueVars, workerVars, commVars
<1>15. QED
  BY <1>1, <1>2, <1>3, <1>4, <1>5, <1>6, <1>7, <1>8, <1>9, <1>10, <1>11, <1>12, <1>13, <1>14,
     QueueFrame, WorkerFrame, CommFrame
     DEF ChangesQueue, ChangesWorkers, ChangesComms, WorkerStep, CommStep

\* mutex_files_queue is held exactly by the worker at wait, find or locksock.
THEOREM LockInvariant == Spec => []LockInv
<1>1. TypeInv /\ LockInv /\ [Next]_vars => LockInv'
  <2>1. ASSUME LockInv, UNCHANGED vars PROVE LockInv'
    BY <2>1 DEF LockInv, vars, queueVars, workerVars, commVars
  <2>2. QED
    BY <2>1, LockStep
<1>2. QED
  BY <1>1, LockInit, TypeInvariant, PTL DEF Spec

-----------------------------------------------------------------------------
\* While entries are queued, not every worker is blocked, or a signal is about
\* to be sent (Server.c:263-265, 417-419).
THEOREM NoEntryStranded == Spec => []EntriesWakeWorkers
<1>1. Init => EntriesWakeWorkers
  BY DEF Init, EntriesWakeWorkers
<1>2. ASSUME TypeInv, LockInv, EntriesWakeWorkers, Next PROVE EntriesWakeWorkers'
  <2> USE <1>2 DEF EntriesWakeWorkers
  <2>1. ASSUME NEW w \in Worker, WaitNotEmpty(w) PROVE EntriesWakeWorkers'
    BY <2>1 DEF WaitNotEmpty, LockInv
  <2>2. ASSUME NEW w \in Worker, PopTask(w) PROVE EntriesWakeWorkers'
    BY <2>2 DEF PopTask, AcquiresFilesQueue, LockInv
  <2>3. ASSUME NEW c \in Client, InsertItem(c) PROVE EntriesWakeWorkers'
    BY <2>3 DEF InsertItem, CommGoto, TypeInv, TypeOK, CommTypes
  <2>4. ASSUME NEW c \in Client, SignalNotEmpty(c) PROVE EntriesWakeWorkers'
    BY <2>4, ConstantsAssumption DEF SignalNotEmpty, SignalOne, TypeInv, TypeOK, QueueTypes
  <2>5. ASSUME BroadcastStop \/ SpuriousWakeup PROVE EntriesWakeWorkers'
    BY <2>5, ConstantsAssumption DEF BroadcastStop, SpuriousWakeup, commVars
  <2>6. ASSUME NEW c \in Client, WaitNotFull(c) PROVE EntriesWakeWorkers'
    <3>1. cpc[c] # "signal"
      BY <2>6 DEF WaitNotFull, AtLoopTest
    <3>2. QED
      BY <2>6, <3>1 DEF WaitNotFull, CommGoto, TypeInv, TypeOK, CommTypes
  <2>7. ASSUME UNCHANGED <<Files_Queue, cond_queue_not_empty>>,
               \A c \in Client : cpc[c] = "signal" => cpc'[c] = "signal"
        PROVE  EntriesWakeWorkers'
    BY <2>7
  <2>8. ASSUME NEW w \in Worker, FindsQueueEmpty(w) \/ LockSocketMutex(w) \/ SignalNotFull(w)
        PROVE  EntriesWakeWorkers'
    BY <2>8 DEF FindsQueueEmpty, LockSocketMutex, SignalNotFull, commVars
  <2>9. CASE UNCHANGED queueVars /\ UNCHANGED commVars
    BY <2>9 DEF queueVars, commVars
  <2>10. ASSUME UNCHANGED queueVars, NEW c \in Client, CommStep(c) \/ AcceptClient(c)
         PROVE  EntriesWakeWorkers'
    <3>1. CASE cpc[c] = "signal"
      <4>1. SignalNotEmpty(c)
        BY <2>10, <3>1 DEF CommStep, AcceptClient, Pending, RegisterSocket, AcceptRequest,
             RejectRequest, WaitNotFull, InsertItem, AtLoopTest, ReadAck, DeleteNode, CloseSocket
      <4>2. QED
        BY <2>4, <4>1
    <3>2. CASE cpc[c] # "signal"
      <4>1. \A d \in Client : d # c => cpc'[d] = cpc[d]
        BY <2>10 DEF CommStep, AcceptClient, RegisterSocket, AcceptRequest,
             RejectRequest, WaitNotFull, InsertItem, SignalNotEmpty, ReadAck, DeleteNode,
             CloseSocket, CommGoto, TypeInv, TypeOK, CommTypes
      <4>2. QED
        BY <2>7, <2>10, <3>2, <4>1 DEF queueVars
    <3>3. QED
      BY <3>1, <3>2
  <2>11. QED
    BY <2>1, <2>2, <2>3, <2>4, <2>5, <2>6, <2>8, <2>9, <2>10, QueueFrame, CommFrame
       DEF ChangesQueue, ChangesComms
<1>3. TypeInv /\ LockInv /\ EntriesWakeWorkers /\ [Next]_vars => EntriesWakeWorkers'
  BY <1>2 DEF EntriesWakeWorkers, vars, queueVars, commVars
<1>4. QED
  BY <1>1, <1>3, TypeInvariant, LockInvariant, PTL DEF Spec

-----------------------------------------------------------------------------
LEMMA RoomSets == /\ IsFiniteSet(Announcing) /\ Cardinality(Announcing) \in Nat
                  /\ IsFiniteSet(Woken) /\ Cardinality(Woken) \in Nat
<1>1. Announcing \in SUBSET Worker /\ Woken \in SUBSET Client
  BY DEF Announcing, Woken
<1>2. QED
  BY <1>1, ConstantsAssumption, FS_Subset, FS_CardinalityType

LEMMA RoomSetsNext == /\ IsFiniteSet(Announcing') /\ Cardinality(Announcing') \in Nat
                      /\ IsFiniteSet(Woken') /\ Cardinality(Woken') \in Nat
<1>1. Announcing' \in SUBSET Worker /\ Woken' \in SUBSET Client
  BY DEF Announcing, Woken
<1>2. QED
  BY <1>1, ConstantsAssumption, FS_Subset, FS_CardinalityType

LEMMA RoomInit == ASSUME Init PROVE RoomInv
BY DEF Init, RoomInv

\* Steps that take no room, announce nothing new and put nobody to sleep.
LEMMA RoomKept ==
  ASSUME RoomInv, Len(Files_Queue) \in Nat, Len(Files_Queue') \in Nat,
         Len(Files_Queue) <= Len(Files_Queue'),
         cond_queue_not_full' # {} => cond_queue_not_full # {},
         Announcing \subseteq Announcing', Woken \subseteq Woken'
  PROVE  RoomInv'
<1>1. Cardinality(Announcing) <= Cardinality(Announcing') /\ Cardinality(Woken) <= Cardinality(Woken')
  BY RoomSetsNext, FS_Subset
<1>2. QED
  BY <1>1, RoomSets, RoomSetsNext, ConstantsAssumption DEF RoomInv

LEMMA RoomStep == ASSUME TypeInv, TypeInv', LockInv, RoomInv, Next PROVE RoomInv'
<1> DEFINE q == Len(Files_Queue)
<1>1. /\ q \in Nat /\ q' \in Nat /\ wpc \in [Worker -> WorkerLabel] /\ cpc \in [Client -> CommLabel]
      /\ QueueSize \in Nat
  BY ConstantsAssumption DEF TypeInv, TypeOK, QueueTypes, WorkerTypes, CommTypes
<1>2. ASSUME NEW w \in Worker, PopTask(w) PROVE RoomInv'
  <2>1. /\ wpc[w] \in {"lock", "waiting"} /\ wpc' = [wpc EXCEPT ![w] = "find"]
        /\ UNCHANGED <<cond_queue_not_full, cpc>>
    BY <1>2 DEF PopTask, AcquiresFilesQueue, Goto, commVars
  <2>2. q' = q - 1
    BY <1>2, HeadTail DEF PopTask, TypeInv, TypeOK, QueueTypes
  <2>3. w \notin Announcing /\ Announcing' = Announcing \cup {w} /\ Woken' = Woken
    BY <1>1, <2>1 DEF Announcing, Woken, WaitsForSocket
  <2>4. Cardinality(Announcing') = Cardinality(Announcing) + 1
    BY <2>3, RoomSets, FS_AddElement
  <2>5. QED
    BY <1>1, <2>1, <2>2, <2>3, <2>4, RoomSets DEF RoomInv
<1>3. ASSUME NEW w \in Worker, SignalNotFull(w) PROVE RoomInv'
  <2>1. /\ wpc[w] = "signal" /\ wpc' = [wpc EXCEPT ![w] = "meta"]
        /\ UNCHANGED <<Files_Queue, cpc>> /\ cond_queue_not_full' \in SignalOne(cond_queue_not_full)
    BY <1>3 DEF SignalNotFull, Goto, commVars
  <2>2. CASE cond_queue_not_full = {}
    BY <2>1, <2>2 DEF SignalOne, RoomInv
  <2>3. CASE cond_queue_not_full # {}
    <3>1. PICK c \in cond_queue_not_full : cond_queue_not_full' = cond_queue_not_full \ {c}
      BY <2>1, <2>3 DEF SignalOne
    <3>2. c \in Client /\ cpc[c] = "waiting"
      BY <3>1 DEF LockInv, TypeInv, TypeOK, QueueTypes
    <3>3. w \in Announcing /\ Announcing' = Announcing \ {w}
      BY <1>1, <2>1 DEF Announcing, WaitsForSocket
    <3>4. c \notin Woken /\ Woken' = Woken \cup {c}
      BY <2>1, <3>1, <3>2 DEF Woken
    <3>5. Cardinality(Announcing') = Cardinality(Announcing) - 1
      BY <3>3, RoomSets, FS_RemoveElement
    <3>6. Cardinality(Woken') = Cardinality(Woken) + 1
      BY <3>4, RoomSets, FS_AddElement
    <3>7. QED
      BY <1>1, <2>1, <2>3, <3>5, <3>6, RoomSets DEF RoomInv
  <2>4. QED
    BY <2>2, <2>3
<1>4. ASSUME NEW c \in Client, WaitNotFull(c) PROVE RoomInv'
  <2>1. QueueSize <= q /\ q' = q
    BY <1>1, <1>4 DEF WaitNotFull, QueueFull
  <2>2. QED
    BY <1>1, <2>1, RoomSetsNext DEF RoomInv
<1>5. ASSUME NEW c \in Client, InsertItem(c) PROVE RoomInv'
  <2>1. /\ UNCHANGED <<cond_queue_not_full, wpc>> /\ cpc' = [cpc EXCEPT ![c] = "signal"]
    BY <1>5 DEF InsertItem, CommGoto, workerVars
  <2>2. q' = q + 1
    BY <1>5, InsertedEntry, AppendType DEF InsertItem, TypeInv, TypeOK, QueueTypes
  <2>3. Announcing' = Announcing /\ Woken' = Woken \ {c}
    BY <1>1, <2>1 DEF Announcing, Woken
  <2>4. Cardinality(Woken) - 1 <= Cardinality(Woken')
    <3>1. Cardinality(Woken \ {c}) = IF c \in Woken THEN Cardinality(Woken) - 1 ELSE Cardinality(Woken)
      BY RoomSets, FS_RemoveElement
    <3>2. QED
      BY <2>3, <3>1, RoomSets
  <2>5. QED
    BY <1>1, <2>1, <2>2, <2>3, <2>4, RoomSets, RoomSetsNext DEF RoomInv
<1>6. ASSUME NEW w \in Worker, WorkerStep(w), ~PopTask(w), ~SignalNotFull(w) PROVE RoomInv'
  <2>1. UNCHANGED <<Files_Queue, cond_queue_not_full, cpc>>
    BY <1>6 DEF WorkerStep, TestRunning, FindsQueueEmpty, WaitNotEmpty, LeavesLoop, FindMutex,
         LockSocketMutex, SendMetaData, SendContent, UnlockSocketMutex, queueVars, commVars
  <2>2. Announcing \subseteq Announcing' /\ Woken' = Woken
    BY <1>1, <1>6, <2>1 DEF WorkerStep, TestRunning, FindsQueueEmpty, WaitNotEmpty, LeavesLoop,
         FindMutex, LockSocketMutex, SendMetaData, SendContent, UnlockSocketMutex,
         AcquiresFilesQueue, Goto, Announcing, Woken, WaitsForSocket
  <2>3. QED
    BY <1>1, <2>1, <2>2, RoomKept
<1>7. ASSUME NEW c \in Client, CommStep(c) \/ AcceptClient(c), ~WaitNotFull(c), ~InsertItem(c)
      PROVE  RoomInv'
  <2>1. /\ UNCHANGED <<Files_Queue, cond_queue_not_full, wpc>>
        /\ cpc[c] # "waiting" /\ \E l \in CommLabel : cpc' = [cpc EXCEPT ![c] = l]
    BY <1>7 DEF CommStep, AcceptClient, RegisterSocket, AcceptRequest, RejectRequest, SignalNotEmpty,
         ReadAck, DeleteNode, CloseSocket, Pending, CommGoto, CommLabel, queueVars, workerVars
  <2>2. Announcing' = Announcing /\ Woken \subseteq Woken'
    BY <1>1, <2>1 DEF Announcing, Woken
  <2>3. QED
    BY <1>1, <2>1, <2>2, RoomKept
<1>8. ASSUME BroadcastStop \/ SpuriousWakeup PROVE RoomInv'
  <2>1. /\ UNCHANGED <<Files_Queue, wpc, cpc>>
        /\ cond_queue_not_full' \subseteq cond_queue_not_full
    BY <1>8 DEF BroadcastStop, SpuriousWakeup, workerVars, commVars
  <2>2. Announcing' = Announcing /\ Woken \subseteq Woken'
    BY <2>1 DEF Announcing, Woken
  <2>3. QED
    BY <1>1, <2>1, <2>2, RoomKept
<1>9. ASSUME UNCHANGED <<queueVars, workerVars, commVars>> PROVE RoomInv'
  <2>1. /\ UNCHANGED <<Files_Queue, cond_queue_not_full>>
        /\ Announcing' = Announcing /\ Woken' = Woken
    BY <1>9 DEF Announcing, Woken, queueVars, workerVars, commVars
  <2>2. QED
    BY <1>1, <2>1, RoomKept
<1>10. QED
  BY <1>2, <1>3, <1>4, <1>5, <1>6, <1>7, <1>8, <1>9, QueueFrame, WorkerFrame, CommFrame
     DEF ChangesQueue, ChangesWorkers, ChangesComms, WorkerStep, CommStep

\* No free place of the queue is forgotten while somebody waits for one.
THEOREM RoomInvariant == Spec => []RoomInv
<1>1. TypeInv /\ TypeInv' /\ LockInv /\ RoomInv /\ [Next]_vars => RoomInv'
  <2>1. ASSUME RoomInv, UNCHANGED vars PROVE RoomInv'
    BY <2>1 DEF RoomInv, Announcing, Woken, vars, queueVars, workerVars, commVars
  <2>2. QED
    BY <2>1, RoomStep
<1>2. QED
  BY <1>1, RoomInit, TypeInvariant, LockInvariant, PTL DEF Spec

\* While a communication thread is blocked and the queue has room, a worker is
\* about to signal or another communication thread is awake (Server.c:256-258,
\* 432-433).
THEOREM NoThreadStranded == Spec => []RoomWakesCommunicationThreads
<1>1. TypeInv /\ RoomInv => RoomWakesCommunicationThreads
  <2>1. SUFFICES ASSUME TypeInv, RoomInv, cond_queue_not_full # {}, ~QueueFull
                 PROVE  \/ \E w \in Worker : wpc[w] \in {"find", "locksock", "signal"}
                        \/ \E c \in Client : cpc[c] = "waiting" /\ c \notin cond_queue_not_full
    BY DEF RoomWakesCommunicationThreads
  <2>2. Len(Files_Queue) < QueueSize /\ Len(Files_Queue) \in Nat /\ QueueSize \in Nat
    BY <2>1, ConstantsAssumption DEF QueueFull, TypeInv, TypeOK, QueueTypes
  <2>3. Cardinality(Announcing) # 0 \/ Cardinality(Woken) # 0
    BY <2>1, <2>2, RoomSets DEF RoomInv
  <2>4. Announcing # {} \/ Woken # {}
    BY <2>3, FS_EmptySet
  <2>5. QED
    BY <2>4 DEF Announcing, Woken, WaitsForSocket
<1>2. QED
  BY <1>1, TypeInvariant, RoomInvariant, PTL

-----------------------------------------------------------------------------
LEMMA ConnInit == ASSUME Init PROVE ConnInv
BY DEF Init, ConnInv, Open

LEMMA ConnStep == ASSUME TypeInv, ConnInv, Next PROVE ConnInv'
<1> USE ConstantsAssumption DEF ConnInv, Open, TypeInv, TypeOK, SocketTypes, CommTypes, CommControl,
        CommGoto
<1>1. ASSUME NEW c \in Client, AcceptClient(c) PROVE ConnInv'
  <2>1. PICK s \in Socket : conn[s] = None /\ conn' = [conn EXCEPT ![s] = c]
                            /\ sock' = [sock EXCEPT ![c] = s]
    BY <1>1 DEF AcceptClient
  <2>2. cpc[c] = "idle" /\ cpc' = [cpc EXCEPT ![c] = "register"]
        /\ UNCHANGED Mutex_Socket_Queue
    BY <1>1 DEF AcceptClient, Pending
  <2>3. QED
    BY <2>1, <2>2
<1>2. ASSUME NEW c \in Client, RegisterSocket(c) \/ DeleteNode(c) PROVE ConnInv'
  BY <1>2 DEF RegisterSocket, DeleteNode
<1>3. ASSUME NEW c \in Client, CloseSocket(c) PROVE ConnInv'
  <2>1. cpc[c] = "close" /\ cpc' = [cpc EXCEPT ![c] = "exited"] /\ c \notin BadDir
        /\ conn' = [conn EXCEPT ![sock[c]] = None] /\ UNCHANGED <<sock, Mutex_Socket_Queue>>
    BY <1>3 DEF CloseSocket
  <2>2. \A d \in Client : d # c /\ Open(d) => sock[d] # sock[c]
    BY <2>1
  <2>3. QED
    BY <2>1, <2>2
<1>4. ASSUME NEW c \in Client,
             \/ AcceptRequest(c) \/ RejectRequest(c) \/ WaitNotFull(c) \/ InsertItem(c)
             \/ SignalNotEmpty(c) \/ ReadAck(c)
      PROVE  ConnInv'
  BY <1>4 DEF AcceptRequest, RejectRequest, WaitNotFull, InsertItem, AtLoopTest, SignalNotEmpty,
              ReadAck, socketVars
<1>5. ASSUME NEW w \in Worker, LockSocketMutex(w) \/ UnlockSocketMutex(w) PROVE ConnInv'
  BY <1>5 DEF LockSocketMutex, UnlockSocketMutex, commVars
<1>6. CASE UNCHANGED <<socketVars, commVars>>
  BY <1>6 DEF socketVars, commVars
<1>7. QED
  BY <1>1, <1>2, <1>3, <1>4, <1>5, <1>6, SocketFrame, CommFrame
     DEF ChangesSockets, ChangesComms, CommStep

\* A descriptor belongs to the thread that was given it until that closes it.
THEOREM ConnInvariant == Spec => []ConnInv
<1>1. TypeInv /\ ConnInv /\ [Next]_vars => ConnInv'
  <2>1. ASSUME ConnInv, UNCHANGED vars PROVE ConnInv'
    BY <2>1 DEF ConnInv, Open, vars, socketVars, commVars
  <2>2. QED
    BY <2>1, ConnStep
<1>2. QED
  BY <1>1, ConnInit, TypeInvariant, PTL DEF Spec

\* Queue_Find cannot return the mutex of another socket: no two nodes of the
\* list have the same descriptor (Server.c:80-89).
THEOREM DistinctSockets == Spec => []NodesHaveDistinctSockets
<1>1. TypeInv /\ ConnInv => NodesHaveDistinctSockets
  BY DEF TypeInv, TypeOK, SocketTypes, ConnInv, NodesHaveDistinctSockets
<1>2. QED
  BY <1>1, TypeInvariant, ConnInvariant, PTL

-----------------------------------------------------------------------------
(* QueueInv.                                                                *)

LEMMA TailElements == ASSUME NEW S, NEW q \in Seq(S), q # <<>>
                      PROVE  /\ Len(q) \in Nat \ {0}
                             /\ Head(q) = q[1]
                             /\ \A k \in 1 .. Len(q) : q[k] \in S
                             /\ Tail(q) \in Seq(S) /\ Len(Tail(q)) = Len(q) - 1
                             /\ \A k \in 1 .. Len(Tail(q)) : Tail(q)[k] = q[k + 1]
OBVIOUS

LEMMA AppendElements == ASSUME NEW S, NEW q \in Seq(S), NEW e \in S
                        PROVE  /\ Len(q) \in Nat
                               /\ Len(Append(q, e)) = Len(q) + 1
                               /\ Append(q, e)[Len(q) + 1] = e
                               /\ \A k \in 1 .. Len(q) : q[k] \in S /\ Append(q, e)[k] = q[k]
OBVIOUS

\* The entry at the front is the next item of its client.
LEMMA HeadIsNext == ASSUME TypeInv, QueueInv, Files_Queue # <<>>
                    PROVE  /\ Head(Files_Queue) \in Entry
                           /\ Head(Files_Queue).owner \in Client
                           /\ Head(Files_Queue).item = popped[Head(Files_Queue).owner] + 1
                           /\ Head(Files_Queue).item <= inserted[Head(Files_Queue).owner]
                           /\ Head(Files_Queue).socket = sock[Head(Files_Queue).owner]
<1> DEFINE q == Files_Queue
           h == Head(q)
           c == h.owner
<1>1. /\ Len(q) \in Nat \ {0} /\ h = q[1] /\ h \in Entry
      /\ \A k \in 1 .. Len(q) : q[k] \in Entry
  BY TailElements DEF TypeInv, TypeOK, QueueTypes
<1>2. c \in Client /\ h.item \in Nat
  BY <1>1 DEF Entry
<1>3. popped[c] < h.item /\ h.item <= inserted[c] /\ h.socket = sock[c]
  BY <1>1 DEF QueueInv, EntriesPending
<1>4. popped[c] \in Nat /\ inserted[c] \in Nat
  BY <1>2 DEF TypeInv, TypeOK, QueueTypes, CommTypes
<1>5. PICK k \in 1 .. Len(q) : q[k].owner = c /\ q[k].item = popped[c] + 1
  <2>1. popped[c] + 1 \in popped[c] + 1 .. inserted[c]
    BY <1>2, <1>3, <1>4
  <2>2. QED
    BY <1>2, <2>1 DEF QueueInv, EntriesComplete
<1>6. CASE k = 1
  BY <1>1, <1>2, <1>3, <1>5, <1>6
<1>7. CASE k # 1
  <2>1. q[1].item < q[k].item
    BY <1>1, <1>5, <1>7 DEF QueueInv, EntriesOrdered
  <2>2. QED
    BY <1>1, <1>2, <1>3, <1>4, <1>5, <2>1
<1>8. QED
  BY <1>6, <1>7

LEMMA QueueInit == ASSUME Init PROVE QueueInv
BY DEF Init, QueueInv, EntriesPending, EntriesOrdered, EntriesComplete, TasksPopped,
       WaitsForSocket, HoldsSocket

LEMMA PopKeepsQueueInv == ASSUME TypeInv, QueueInv, NEW w \in Worker, PopTask(w) PROVE QueueInv'
<1> DEFINE q == Files_Queue
           h == Head(q)
           c == h.owner
<1>1. /\ h \in Entry /\ c \in Client /\ h.item = popped[c] + 1 /\ h.item <= inserted[c]
      /\ h.socket = sock[c]
  BY HeadIsNext DEF PopTask
<1>2. /\ Len(q) \in Nat \ {0} /\ h = q[1]
      /\ \A k \in 1 .. Len(q) : q[k] \in Entry
      /\ Len(Tail(q)) = Len(q) - 1
      /\ \A k \in 1 .. Len(Tail(q)) : Tail(q)[k] = q[k + 1]
  BY TailElements DEF PopTask, TypeInv, TypeOK, QueueTypes
<1>3. /\ Files_Queue' = Tail(q) /\ task' = [task EXCEPT ![w] = h]
      /\ popped' = [popped EXCEPT ![c] = popped[c] + 1] /\ wpc' = [wpc EXCEPT ![w] = "find"]
      /\ UNCHANGED <<inserted, sock>>
  BY DEF PopTask, Goto, commVars
<1>4. /\ popped \in [Client -> Nat] /\ inserted \in [Client -> Nat]
      /\ wpc \in [Worker -> WorkerLabel] /\ task \in [Worker -> Entry \cup {None}]
  BY DEF TypeInv, TypeOK, QueueTypes, CommTypes, WorkerTypes
<1>5. \A k \in 1 .. Len(q) : q[k].owner \in Client /\ q[k].item \in Nat
  BY <1>2 DEF Entry
<1> HIDE DEF c, h, q
<1>6. \A k \in 1 .. Len(Tail(q)) : k + 1 \in 1 .. Len(q)
  BY <1>2
<1>7. EntriesOrdered'
  <2>1. SUFFICES ASSUME NEW j \in 1 .. Len(Tail(q)), NEW k \in 1 .. Len(Tail(q)), j < k,
                        Tail(q)[j].owner = Tail(q)[k].owner
                 PROVE  Tail(q)[j].item < Tail(q)[k].item
    BY <1>3 DEF EntriesOrdered
  <2>2. q[j + 1].item < q[k + 1].item
    BY <1>2, <1>6, <2>1 DEF QueueInv, EntriesOrdered, q
  <2>3. QED
    BY <1>2, <2>2
<1>8. EntriesPending'
  <2>1. SUFFICES ASSUME NEW k \in 1 .. Len(Tail(q))
                 PROVE  /\ popped'[Tail(q)[k].owner] < Tail(q)[k].item
                        /\ Tail(q)[k].item <= inserted[Tail(q)[k].owner]
                        /\ Tail(q)[k].socket = sock[Tail(q)[k].owner]
    BY <1>3 DEF EntriesPending
  <2> DEFINE e == q[k + 1]
  <2>2. /\ Tail(q)[k] = e /\ e.owner \in Client /\ e.item \in Nat
        /\ popped[e.owner] < e.item /\ e.item <= inserted[e.owner] /\ e.socket = sock[e.owner]
    BY <1>2, <1>5, <1>6 DEF QueueInv, EntriesPending, q
  <2>3. e.owner = c => h.item < e.item
    BY <1>2, <1>6 DEF QueueInv, EntriesOrdered, q, c
  <2>4. QED
    BY <1>1, <1>3, <1>4, <2>2, <2>3
<1>9. EntriesComplete'
  <2>1. ASSUME NEW d \in Client PROVE popped'[d] <= inserted[d]
    BY <1>1, <1>3, <1>4 DEF QueueInv, EntriesComplete
  <2>2. ASSUME NEW d \in Client, NEW i \in popped'[d] + 1 .. inserted[d]
        PROVE  \E k \in 1 .. Len(Tail(q)) : Tail(q)[k].owner = d /\ Tail(q)[k].item = i
    <3>1. i \in popped[d] + 1 .. inserted[d] /\ (d = c => i # h.item)
      BY <1>1, <1>3, <1>4
    <3>2. PICK k \in 1 .. Len(q) : q[k].owner = d /\ q[k].item = i
      BY <3>1 DEF QueueInv, EntriesComplete, q
    <3>3. k # 1
      BY <1>2, <3>1, <3>2 DEF c
    <3>4. k - 1 \in 1 .. Len(Tail(q)) /\ (k - 1) + 1 = k
      BY <1>2, <3>3
    <3>5. Tail(q)[k - 1] = q[k]
      BY <1>2, <3>4
    <3>6. QED
      BY <3>2, <3>4, <3>5
  <2>3. Files_Queue' = Tail(q) /\ inserted' = inserted
    BY <1>3
  <2>4. QED
    BY <2>1, <2>2, <2>3 DEF EntriesComplete
<1>10. TasksPopped'
  <2>1. SUFFICES ASSUME NEW v \in Worker, wpc'[v] \in WaitsForSocket \cup HoldsSocket
                 PROVE  /\ task'[v].socket = sock[task'[v].owner]
                        /\ 0 < task'[v].item /\ task'[v].item <= popped'[task'[v].owner]
    BY <1>3 DEF TasksPopped
  <2>2. CASE v = w
    BY <1>1, <1>3, <1>4, <2>2 DEF c
  <2>3. CASE v # w
    <3>1. wpc[v] \in WaitsForSocket \cup HoldsSocket /\ task'[v] = task[v]
      BY <1>3, <1>4, <2>1, <2>3
    <3>2. task[v].owner \in Client /\ task[v].item \in Nat
      BY <3>1 DEF TypeInv, WorkerControl, Entry
    <3>3. /\ task[v].socket = sock[task[v].owner]
          /\ 0 < task[v].item /\ task[v].item <= popped[task[v].owner]
      BY <3>1 DEF QueueInv, TasksPopped
    <3>4. popped[task[v].owner] <= popped'[task[v].owner]
      BY <1>1, <1>3, <1>4, <3>2
    <3>5. popped'[task[v].owner] \in Nat /\ popped[task[v].owner] \in Nat
      BY <1>1, <1>3, <1>4, <3>2
    <3>6. QED
      BY <3>1, <3>2, <3>3, <3>4, <3>5
  <2>4. QED
    BY <2>2, <2>3
<1>11. QED
  BY <1>7, <1>8, <1>9, <1>10 DEF QueueInv

LEMMA InsertKeepsQueueInv == ASSUME TypeInv, QueueInv, NEW c \in Client, InsertItem(c)
                             PROVE  QueueInv'
<1> DEFINE q == Files_Queue
           e == [socket |-> sock[c], owner |-> c, item |-> inserted[c] + 1]
           n == Len(q)
<1>1. /\ e \in Entry /\ n \in Nat /\ Len(Append(q, e)) = n + 1 /\ Append(q, e)[n + 1] = e
      /\ \A k \in 1 .. n : q[k] \in Entry /\ Append(q, e)[k] = q[k]
  <2>1. q \in Seq(Entry) /\ e \in Entry
    BY InsertedEntry DEF TypeInv, TypeOK, QueueTypes
  <2>2. QED
    BY <2>1, AppendElements
<1>2. /\ Files_Queue' = Append(q, e) /\ inserted' = [inserted EXCEPT ![c] = inserted[c] + 1]
      /\ UNCHANGED <<popped, sock, wpc, task>>
  BY DEF InsertItem, workerVars
<1>3. /\ popped \in [Client -> Nat] /\ inserted \in [Client -> Nat]
      /\ \A d \in Client : popped[d] <= inserted[d]
  BY DEF TypeInv, TypeOK, QueueTypes, CommTypes, QueueInv, EntriesComplete
<1>4. \A k \in 1 .. n : q[k].owner \in Client /\ q[k].item \in Nat
  BY <1>1 DEF Entry
<1>5. \A k \in 1 .. n : /\ popped[q[k].owner] < q[k].item /\ q[k].item <= inserted[q[k].owner]
                        /\ q[k].socket = sock[q[k].owner]
  BY DEF QueueInv, EntriesPending
<1>6. e.owner = c /\ e.item = inserted[c] + 1 /\ e.socket = sock[c]
  OBVIOUS
<1> HIDE DEF e, n, q
<1>7. EntriesPending'
  <2>1. SUFFICES ASSUME NEW k \in 1 .. n + 1
                 PROVE  LET x == Append(q, e)[k]
                        IN  /\ popped[x.owner] < x.item /\ x.item <= inserted'[x.owner]
                            /\ x.socket = sock[x.owner]
    BY <1>1, <1>2 DEF EntriesPending
  <2>2. CASE k = n + 1
    BY <1>1, <1>2, <1>3, <1>6, <2>2
  <2>3. CASE k # n + 1
    <3>1. k \in 1 .. n
      BY <1>1, <2>3
    <3>2. inserted[q[k].owner] <= inserted'[q[k].owner] /\ inserted'[q[k].owner] \in Nat
      BY <1>2, <1>3, <1>4, <3>1
    <3>3. Append(q, e)[k] = q[k]
      BY <1>1, <3>1
    <3>4. /\ popped[q[k].owner] < q[k].item /\ q[k].item <= inserted[q[k].owner]
          /\ q[k].socket = sock[q[k].owner]
      BY <1>5, <3>1
    <3>5. q[k].item \in Nat /\ inserted[q[k].owner] \in Nat
      BY <1>3, <1>4, <3>1
    <3>6. QED
      BY <3>2, <3>3, <3>4, <3>5
  <2>4. QED
    BY <2>2, <2>3
<1>8. EntriesOrdered'
  <2>1. SUFFICES ASSUME NEW j \in 1 .. n + 1, NEW k \in 1 .. n + 1, j < k,
                        Append(q, e)[j].owner = Append(q, e)[k].owner
                 PROVE  Append(q, e)[j].item < Append(q, e)[k].item
    BY <1>1, <1>2 DEF EntriesOrdered
  <2>2. j \in 1 .. n
    BY <1>1, <2>1
  <2>3. CASE k = n + 1
    BY <1>1, <1>3, <1>4, <1>5, <1>6, <2>1, <2>2, <2>3
  <2>4. CASE k # n + 1
    <3>1. k \in 1 .. n
      BY <1>1, <2>4
    <3>2. q[j].item < q[k].item
      BY <1>1, <2>1, <2>2, <3>1 DEF QueueInv, EntriesOrdered, q, n
    <3>3. QED
      BY <1>1, <2>2, <3>1, <3>2
  <2>5. QED
    BY <2>3, <2>4
<1>9. EntriesComplete'
  <2>1. ASSUME NEW d \in Client PROVE popped[d] <= inserted'[d]
    BY <1>2, <1>3
  <2>2. ASSUME NEW d \in Client, NEW i \in popped[d] + 1 .. inserted'[d]
        PROVE  \E k \in 1 .. n + 1 : Append(q, e)[k].owner = d /\ Append(q, e)[k].item = i
    <3>1. CASE d = c /\ i = inserted[c] + 1
      BY <1>1, <1>6, <3>1
    <3>2. CASE ~(d = c /\ i = inserted[c] + 1)
      <4>1. i \in popped[d] + 1 .. inserted[d]
        BY <1>2, <1>3, <3>2
      <4>2. PICK k \in 1 .. n : q[k].owner = d /\ q[k].item = i
        BY <4>1 DEF QueueInv, EntriesComplete, q, n
      <4>3. QED
        BY <1>1, <4>2
    <3>3. QED
      BY <3>1, <3>2
  <2>3. QED
    BY <1>1, <1>2, <2>1, <2>2 DEF EntriesComplete
<1>10. TasksPopped'
  BY <1>2 DEF QueueInv, TasksPopped
<1>11. QED
  BY <1>7, <1>8, <1>9, <1>10 DEF QueueInv

\* A new communication thread has no entries yet, so that the descriptor in an
\* entry stays the one of its owner.
LEMMA AcceptKeepsQueueInv == ASSUME TypeInv, QueueInv, NEW c \in Client, AcceptClient(c)
                             PROVE  QueueInv'
<1>1. cpc[c] = "idle" /\ inserted[c] = 0 /\ \A d \in Client : d # c => sock'[d] = sock[d]
  BY DEF AcceptClient, Pending, TypeInv, TypeOK, CommTypes, CommControl
<1>2. UNCHANGED <<Files_Queue, popped, inserted, wpc, task>>
  BY DEF AcceptClient, queueVars, workerVars
<1>3. popped \in [Client -> Nat] /\ inserted \in [Client -> Nat] /\ popped[c] = 0
  BY <1>1 DEF TypeInv, TypeOK, QueueTypes, CommTypes, QueueInv, EntriesComplete
<1>4. ASSUME NEW k \in 1 .. Len(Files_Queue)
      PROVE  Files_Queue[k].owner \in Client \ {c}
  <2>1. Files_Queue[k] \in Entry
    BY DEF TypeInv, TypeOK, QueueTypes
  <2>2. /\ popped[Files_Queue[k].owner] < Files_Queue[k].item
        /\ Files_Queue[k].item <= inserted[Files_Queue[k].owner]
    BY DEF QueueInv, EntriesPending
  <2>3. Files_Queue[k].owner \in Client /\ Files_Queue[k].item \in Nat
    BY <2>1 DEF Entry
  <2>4. QED
    BY <1>1, <1>3, <2>2, <2>3
<1>5. ASSUME NEW w \in Worker, wpc[w] \in WaitsForSocket \cup HoldsSocket
      PROVE  task[w].owner \in Client \ {c}
  <2>1. 0 < task[w].item /\ task[w].item <= popped[task[w].owner]
    BY <1>5 DEF QueueInv, TasksPopped
  <2>2. task[w].owner \in Client /\ task[w].item \in Nat
    BY <1>5 DEF TypeInv, WorkerControl, Entry
  <2>3. QED
    BY <1>3, <2>1, <2>2
<1>6. EntriesPending'
  BY <1>1, <1>2, <1>4 DEF QueueInv, EntriesPending
<1>7. TasksPopped'
  BY <1>1, <1>2, <1>5 DEF QueueInv, TasksPopped
<1>8. QED
  BY <1>2, <1>6, <1>7 DEF QueueInv, EntriesOrdered, EntriesComplete

\* Every other step leaves the entries, the counters and the sockets alone, and
\* no worker gets a new entry.
LEMMA QueueStep == ASSUME TypeInv, QueueInv, Next PROVE QueueInv'
<1> DEFINE Same == UNCHANGED <<Files_Queue, popped, inserted, sock>>
           SameTasks == \A w \in Worker : wpc'[w] \in WaitsForSocket \cup HoldsSocket =>
                          wpc[w] \in WaitsForSocket \cup HoldsSocket /\ task'[w] = task[w]
<1>1. ASSUME Same, SameTasks PROVE QueueInv'
  BY <1>1 DEF QueueInv, EntriesPending, EntriesOrdered, EntriesComplete, TasksPopped
<1>2. ASSUME NEW w \in Worker, WorkerStep(w), ~PopTask(w) PROVE Same /\ SameTasks
  BY <1>2 DEF WorkerStep, TestRunning, FindsQueueEmpty, WaitNotEmpty, LeavesLoop, FindMutex,
       LockSocketMutex, SignalNotFull, SendMetaData, SendContent, UnlockSocketMutex, Goto,
       queueVars, commVars, WaitsForSocket, HoldsSocket, TypeInv, TypeOK, WorkerTypes
<1>3. ASSUME NEW c \in Client, CommStep(c), ~InsertItem(c) PROVE Same /\ SameTasks
  BY <1>3 DEF CommStep, RegisterSocket, AcceptRequest, RejectRequest, WaitNotFull, SignalNotEmpty,
       ReadAck, DeleteNode, CloseSocket, queueVars, workerVars
<1>4. ASSUME UNCHANGED <<queueVars, workerVars, commVars>> PROVE Same /\ SameTasks
  BY <1>4 DEF queueVars, workerVars, commVars
<1>5. ASSUME BroadcastStop \/ SpuriousWakeup PROVE Same /\ SameTasks
  BY <1>5 DEF BroadcastStop, SpuriousWakeup, workerVars, commVars
<1> HIDE DEF Same, SameTasks
<1>6. QED
  BY <1>1, <1>2, <1>3, <1>4, <1>5, PopKeepsQueueInv, InsertKeepsQueueInv, AcceptKeepsQueueInv,
     QueueFrame, WorkerFrame, CommFrame
     DEF ChangesQueue, ChangesWorkers, ChangesComms, WorkerStep, CommStep

\* Files_Queue holds, per client and in order, what is inserted and not popped.
THEOREM QueueInvariant == Spec => []QueueInv
<1>1. TypeInv /\ QueueInv /\ [Next]_vars => QueueInv'
  <2>1. ASSUME QueueInv, UNCHANGED vars PROVE QueueInv'
    BY <2>1 DEF QueueInv, EntriesPending, EntriesOrdered, EntriesComplete, TasksPopped, vars,
                queueVars, workerVars, commVars
  <2>2. QED
    BY <2>1, QueueStep
<1>2. QED
  BY <1>1, QueueInit, TypeInvariant, PTL DEF Spec

-----------------------------------------------------------------------------
(* StreamInv.                                                               *)

\* The arithmetic of positions in a stream.
LEMMA ChunkParity ==
  ASSUME NEW c \in Client, NEW i \in Nat \ {0}
  PROVE  /\ ExpectedChunk(c, 2 * i - 1) = [owner |-> c, item |-> i, part |-> "meta"]
         /\ ExpectedChunk(c, 2 * i) = [owner |-> c, item |-> i, part |-> "content"]
<1>1. (2 * i - 1 + 1) \div 2 = i /\ (2 * i - 1) % 2 = 1
  OBVIOUS
<1>2. (2 * i + 1) \div 2 = i /\ (2 * i) % 2 = 0
  OBVIOUS
<1>3. QED
  BY <1>1, <1>2 DEF ExpectedChunk

LEMMA ItemOfChunk ==
  ASSUME NEW c \in Client, NEW k \in Nat, NEW i \in Nat, ExpectedChunk(c, k).item = i
  PROVE  k = 2 * i - 1 \/ k = 2 * i
<1>1. (k + 1) \div 2 = i
  BY DEF ExpectedChunk
<1>2. QED
  BY <1>1

LEMMA Counters ==
  ASSUME TypeInv, QueueInv, NEW c \in Client
  PROVE  /\ TerminationMsg(c) \in Nat \ {0}
         /\ popped[c] \in Nat /\ inserted[c] \in Nat
         /\ popped[c] <= inserted[c] /\ inserted[c] <= TerminationMsg(c)
         /\ Len(toClient[c]) \in Nat /\ received[c] \in Nat /\ received[c] <= Len(toClient[c])
  BY ConstantsAssumption DEF TypeInv, TypeOK, QueueTypes, CommTypes, ClientTypes, QueueInv,
     EntriesComplete, TerminationMsg

\* A worker that has an entry has one that is popped.
LEMMA TaskOf ==
  ASSUME TypeInv, QueueInv, NEW w \in Worker, wpc[w] \in WaitsForSocket \cup HoldsSocket
  PROVE  /\ task[w] \in Entry /\ task[w].owner \in Client /\ task[w].item \in Nat \ {0}
         /\ task[w].item <= popped[task[w].owner] /\ task[w].socket = sock[task[w].owner]
<1>1. task[w] \in Entry
  BY DEF TypeInv, WorkerControl
<1>2. task[w].owner \in Client /\ task[w].item \in Nat
  BY <1>1 DEF Entry
<1>3. QED
  BY <1>1, <1>2 DEF QueueInv, TasksPopped

\* No stream is longer than the directory.
LEMMA StreamBounded ==
  ASSUME TypeInv, QueueInv, StreamInv, NEW c \in Client
  PROVE  Len(toClient[c]) <= 2 * TerminationMsg(c) - 1
<1> DEFINE T == TerminationMsg(c)
<1>1. T \in Nat \ {0} /\ popped[c] \in Nat /\ popped[c] <= T /\ Len(toClient[c]) \in Nat
  BY Counters
<1>2. CASE mutex_socket[c] = None
  <2>1. Len(toClient[c]) = LengthUpTo(c, Current(c))
    BY <1>2 DEF StreamInv, FreeAtEnd
  <2>2. Current(c) \in Int /\ Current(c) <= T
    BY <1>1 DEF Current
  <2>3. QED
    BY <1>1, <2>1, <2>2 DEF LengthUpTo
<1>3. CASE mutex_socket[c] # None
  <2>1. PICK w \in Worker : mutex_socket[c] = w
    BY <1>3 DEF TypeInv, TypeOK, SocketTypes
  <2>2. wpc[w] \in HoldsSocket /\ task[w].owner = c
    BY <2>1 DEF StreamInv, SocketMutexHeld
  <2>3. task[w].item \in Nat \ {0} /\ task[w].item <= popped[c]
    BY <2>2, TaskOf
  <2>4. Position(w)
    BY <2>2 DEF StreamInv, HolderAtPosition
  <2>5. \/ Len(toClient[c]) = 2 * task[w].item - 2
        \/ task[w].item # T /\ Len(toClient[c]) = 2 * task[w].item - 1
        \/ Len(toClient[c]) = LengthUpTo(c, task[w].item)
    BY <2>2, <2>4 DEF Position, HoldsSocket
  <2>6. task[w].item \in Nat /\ task[w].item <= T
    BY <1>1, <2>3
  <2> HIDE DEF T
  <2>7. LengthUpTo(c, task[w].item) <= 2 * T - 1
    <3>1. LengthUpTo(c, task[w].item) = IF task[w].item = T THEN 2 * task[w].item - 1
                                        ELSE 2 * task[w].item
      BY DEF LengthUpTo, T
    <3>2. QED
      BY <1>1, <2>6, <3>1
  <2>8. Len(toClient[c]) <= 2 * T - 1
    <3> DEFINE i == task[w].item
               l == Len(toClient[c])
    <3>1. i \in Nat /\ i <= T /\ T \in Nat /\ l \in Nat
      BY <1>1, <2>6
    <3> HIDE DEF i, l
    <3>2. CASE l = 2 * i - 2
      BY <3>1, <3>2 DEF l
    <3>3. CASE i # T /\ l = 2 * i - 1
      BY <3>1, <3>3 DEF l
    <3>4. CASE l = LengthUpTo(c, task[w].item)
      BY <2>7, <3>4 DEF l
    <3>5. QED
      BY <2>5, <3>2, <3>3, <3>4 DEF i, l
  <2>9. QED
    BY <2>8 DEF T
<1>4. QED
  BY <1>2, <1>3

\* When a stream is complete, all that concerns its client is done, but for the
\* unlocking of the socket's mutex.
LEMMA CompleteIsQuiet ==
  ASSUME TypeInv, QueueInv, StreamInv, NEW c \in Client, StreamComplete(c)
  PROVE  /\ \A k \in 1 .. Len(Files_Queue) : Files_Queue[k].owner # c
         /\ \A w \in Worker : Serving(w) => task[w].owner # c
<1> DEFINE T == TerminationMsg(c)
<1>1. /\ T \in Nat \ {0} /\ popped[c] \in Nat /\ inserted[c] \in Nat
      /\ popped[c] <= inserted[c] /\ inserted[c] <= T
  BY Counters
<1>2. Len(toClient[c]) = 2 * T - 1
  BY DEF StreamComplete, LengthUpTo
<1>3. Current(c) = T /\ \A w \in Worker : wpc[w] \in HoldsSocket /\ task[w].owner = c
                                           => wpc[w] = "unlocksock"
  <2>1. CASE mutex_socket[c] = None
    <3>1. 2 * T - 1 = LengthUpTo(c, Current(c))
      BY <1>2, <2>1 DEF StreamInv, FreeAtEnd
    <3>2. Current(c) \in Int
      BY <1>1 DEF Current
    <3>3. Current(c) = T
      BY <1>1, <3>1, <3>2 DEF LengthUpTo
    <3>4. \A w \in Worker : ~(wpc[w] \in HoldsSocket /\ task[w].owner = c)
      BY <2>1, ConstantsAssumption DEF StreamInv, SocketMutexHeld
    <3>5. QED
      BY <3>3, <3>4
  <2>2. CASE mutex_socket[c] # None
    <3>1. PICK w \in Worker : mutex_socket[c] = w
      BY <2>2 DEF TypeInv, TypeOK, SocketTypes
    <3>2. wpc[w] \in HoldsSocket /\ task[w].owner = c
      BY <3>1 DEF StreamInv, SocketMutexHeld
    <3>3. task[w].item \in Nat \ {0}
      BY <3>2, TaskOf
    <3>4. task[w].item = Current(c) /\ Position(w)
      BY <3>2 DEF StreamInv, HolderAtPosition
    <3>5. wpc[w] = "unlocksock" /\ task[w].item = T
      BY <1>1, <1>2, <3>2, <3>3, <3>4 DEF Position, LengthUpTo, HoldsSocket
    <3>6. \A v \in Worker : wpc[v] \in HoldsSocket /\ task[v].owner = c => v = w
      BY <3>1 DEF StreamInv, SocketMutexHeld
    <3>7. QED
      BY <3>4, <3>5, <3>6
  <2>3. QED
    BY <2>1, <2>2
<1>4. popped[c] = T /\ ~WorkerWaitsFor(c)
  BY <1>1, <1>3 DEF Current
<1>5. \A k \in 1 .. Len(Files_Queue) : Files_Queue[k].owner # c
  <2>1. ASSUME NEW k \in 1 .. Len(Files_Queue), Files_Queue[k].owner = c PROVE FALSE
    <3>1. Files_Queue[k] \in Entry
      BY DEF TypeInv, TypeOK, QueueTypes
    <3>2. Files_Queue[k].item \in Nat
      BY <3>1 DEF Entry
    <3>3. popped[c] < Files_Queue[k].item /\ Files_Queue[k].item <= inserted[c]
      BY <2>1 DEF QueueInv, EntriesPending
    <3>4. QED
      BY <1>1, <1>4, <3>2, <3>3
  <2>2. QED
    BY <2>1
<1>6. \A w \in Worker : Serving(w) => task[w].owner # c
  BY <1>3, <1>4 DEF Serving, WorkerWaitsFor, WaitsForSocket, HoldsSocket
<1>7. QED
  BY <1>5, <1>6

-----------------------------------------------------------------------------
LEMMA StreamInit == ASSUME Init PROVE StreamInv
BY ConstantsAssumption
   DEF Init, StreamInv, ChunksInOrder, WaiterIsNewest, OwnersQueueing, NodeOfOwner,
       SocketMutexHeld, HolderAtPosition, FreeAtEnd, EndAfterLast, WaitsForSocket, HoldsSocket,
       Serving, Current, WorkerWaitsFor, LengthUpTo, TerminationMsg


\* No worker starts, ends or changes what it does for a client.
SameEngagements ==
  \A w \in Worker : wpc[w] \in WaitsForSocket \cup HoldsSocket
                    \/ wpc'[w] \in WaitsForSocket \cup HoldsSocket =>
    wpc'[w] = wpc[w] /\ task'[w] = task[w] /\ node'[w] = node[w]

\* The parts of StreamInv that are about the workers and the streams.
WorkerParts ==
  /\ ChunksInOrder /\ WaiterIsNewest /\ NodeOfOwner /\ SocketMutexHeld
  /\ HolderAtPosition /\ FreeAtEnd

LEMMA WorkerPartsKept ==
  ASSUME WorkerParts, SameEngagements, UNCHANGED <<toClient, popped, mutex_socket>>
  PROVE  WorkerParts'
<1>1. \A c : Current(c)' = Current(c)
  <2>1. \A c : WorkerWaitsFor(c)' = WorkerWaitsFor(c)
    BY DEF SameEngagements, WorkerWaitsFor
  <2>2. QED
    BY <2>1 DEF Current
<1>2. ChunksInOrder'
  BY DEF WorkerParts, ChunksInOrder
<1>3. WaiterIsNewest' /\ NodeOfOwner' /\ SocketMutexHeld'
  BY DEF WorkerParts, SameEngagements, WaiterIsNewest, NodeOfOwner, SocketMutexHeld,
         WaitsForSocket, HoldsSocket
<1>4. HolderAtPosition'
  <2>1. SUFFICES ASSUME NEW w \in Worker, wpc'[w] \in HoldsSocket
                 PROVE  task'[w].item = Current(task[w].owner)' /\ Position(w)'
    BY DEF HolderAtPosition, SameEngagements
  <2>2. wpc'[w] = wpc[w] /\ task'[w] = task[w]
    BY <2>1 DEF SameEngagements
  <2>3. task[w].item = Current(task[w].owner) /\ Position(w)
    BY <2>1, <2>2 DEF WorkerParts, HolderAtPosition
  <2>4. Position(w)'
    BY <2>2, <2>3 DEF Position
  <2>5. QED
    BY <1>1, <2>2, <2>3, <2>4
<1>5. FreeAtEnd'
  BY <1>1 DEF WorkerParts, FreeAtEnd
<1>6. QED
  BY <1>2, <1>3, <1>4, <1>5 DEF WorkerParts

\* Steps of a worker outside of what it does for a client, and its signal.
LEMMA IdleStepKeepsStreamInv ==
  ASSUME TypeInv, StreamInv, NEW w \in Worker,
         TestRunning(w) \/ FindsQueueEmpty(w) \/ WaitNotEmpty(w) \/ LeavesLoop(w)
  PROVE  StreamInv'
<1>1. /\ SameEngagements
      /\ UNCHANGED <<toClient, popped, mutex_socket, Files_Queue, cpc, rpc, received, toServer>>
  BY DEF TestRunning, FindsQueueEmpty, WaitNotEmpty, LeavesLoop, AcquiresFilesQueue, Goto, TypeInv,
         TypeOK, WorkerTypes, SameEngagements, WaitsForSocket, HoldsSocket, queueVars, socketVars,
         commVars, clientVars
<1>2. WorkerParts'
  BY <1>1, WorkerPartsKept DEF StreamInv, WorkerParts
<1>3. OwnersQueueing'
  BY <1>1 DEF StreamInv, OwnersQueueing, SameEngagements, Serving, WaitsForSocket, HoldsSocket
<1>4. EndAfterLast'
  BY <1>1 DEF StreamInv, EndAfterLast, StreamComplete
<1>5. QED
  BY <1>2, <1>3, <1>4 DEF StreamInv, WorkerParts

\* The popped entry is the newest of its client, and the stream stays where
\* it is.
LEMMA PopKeepsStreamInv ==
  ASSUME TypeInv, LockInv, QueueInv, StreamInv, NEW w \in Worker, PopTask(w)
  PROVE  StreamInv'
<1>0. PICK h \in Entry : h = Head(Files_Queue)
  BY HeadIsNext DEF PopTask
<1>1. /\ mutex_files_queue = None /\ Files_Queue # <<>>
      /\ Files_Queue' = Tail(Files_Queue) /\ task' = [task EXCEPT ![w] = h]
      /\ popped' = [popped EXCEPT ![h.owner] = popped[h.owner] + 1]
      /\ wpc' = [wpc EXCEPT ![w] = "find"] /\ wpc[w] \in {"lock", "waiting"}
      /\ UNCHANGED <<node, toClient, mutex_socket, cpc, rpc, received, toServer>>
  BY <1>0 DEF PopTask, AcquiresFilesQueue, Goto, socketVars, commVars, clientVars
<1>2. h \in Entry /\ h.owner \in Client /\ h.item = popped[h.owner] + 1 /\ h = Files_Queue[1]
  BY <1>0, <1>1, HeadIsNext, TailElements DEF TypeInv, TypeOK, QueueTypes
<1>3. /\ wpc \in [Worker -> WorkerLabel] /\ task \in [Worker -> Entry \cup {None}]
      /\ popped \in [Client -> Nat]
  BY DEF TypeInv, TypeOK, WorkerTypes, QueueTypes
<1>4. \A v \in Worker : wpc[v] \notin WaitsForSocket
  BY <1>1, ConstantsAssumption DEF LockInv
<1>5. \A v \in Worker : v # w => wpc'[v] = wpc[v] /\ task'[v] = task[v] /\ node'[v] = node[v]
  BY <1>1, <1>3
<1>6. wpc'[w] = "find" /\ task'[w] = h
  BY <1>1, <1>3
<1>7. \A c \in Client : Current(c) = popped[c]
  BY <1>4 DEF Current, WorkerWaitsFor
<1>8. \A c \in Client : Current(c)' = popped[c]
  <2>1. WorkerWaitsFor(h.owner)'
    BY <1>6 DEF WorkerWaitsFor, WaitsForSocket
  <2>2. \A c \in Client : c # h.owner => ~WorkerWaitsFor(c)'
    BY <1>4, <1>5, <1>6 DEF WorkerWaitsFor
  <2>3. QED
    BY <1>1, <1>2, <1>3, <2>1, <2>2 DEF Current
<1>9. ChunksInOrder' /\ EndAfterLast'
  BY <1>1 DEF StreamInv, ChunksInOrder, EndAfterLast, StreamComplete
<1>10. WaiterIsNewest'
  BY <1>1, <1>2, <1>3, <1>4, <1>5, <1>6 DEF WaiterIsNewest
<1>11. OwnersQueueing'
  <2>1. \A k \in 1 .. Len(Tail(Files_Queue)) : /\ k + 1 \in 1 .. Len(Files_Queue)
                                               /\ Tail(Files_Queue)[k] = Files_Queue[k + 1]
    BY <1>1, TailElements DEF TypeInv, TypeOK, QueueTypes
  <2>2. 1 \in 1 .. Len(Files_Queue)
    BY <1>1, TailElements DEF TypeInv, TypeOK, QueueTypes
  <2>3. cpc[h.owner] \in Queueing
    BY <1>2, <2>2 DEF StreamInv, OwnersQueueing
  <2>4. \A v \in Worker : Serving(v)' => cpc[task'[v].owner] \in Queueing
    BY <1>5, <1>6, <2>3 DEF StreamInv, OwnersQueueing, Serving
  <2>5. QED
    BY <1>1, <2>1, <2>4 DEF StreamInv, OwnersQueueing
<1>12. NodeOfOwner' /\ SocketMutexHeld'
  BY <1>1, <1>5, <1>6 DEF StreamInv, NodeOfOwner, SocketMutexHeld, HoldsSocket
<1>13. HolderAtPosition'
  <2>1. SUFFICES ASSUME NEW v \in Worker, wpc'[v] \in HoldsSocket
                 PROVE  task'[v].item = Current(task[v].owner)' /\ Position(v)'
    BY DEF HolderAtPosition
  <2>2. v # w /\ wpc'[v] = wpc[v] /\ task'[v] = task[v] /\ task[v].owner \in Client
    BY <1>5, <1>6, <2>1, TaskOf DEF HoldsSocket
  <2>3. task[v].item = Current(task[v].owner) /\ Position(v)
    BY <2>1, <2>2 DEF StreamInv, HolderAtPosition
  <2>4. Position(v)'
    BY <1>1, <2>2, <2>3 DEF Position
  <2>5. QED
    BY <1>7, <1>8, <2>2, <2>3, <2>4
<1>14. FreeAtEnd'
  BY <1>1, <1>7, <1>8 DEF StreamInv, FreeAtEnd
<1>15. QED
  BY <1>9, <1>10, <1>11, <1>12, <1>13, <1>14 DEF StreamInv

\* The node that Queue_Find returns is the one of the owner of the entry.
LEMMA FindKeepsStreamInv ==
  ASSUME TypeInv, ConnInv, QueueInv, StreamInv, NEW w \in Worker, FindMutex(w)
  PROVE  StreamInv'
<1> DEFINE c == task[w].owner
<1>1. PICK n \in Mutex_Socket_Queue : sock[n] = task[w].socket /\ node' = [node EXCEPT ![w] = n]
  BY DEF FindMutex
<1>2. /\ wpc[w] = "find" /\ wpc' = [wpc EXCEPT ![w] = "locksock"]
      /\ UNCHANGED <<task, Files_Queue, popped, toClient, mutex_socket, cpc, rpc, received, toServer>>
  BY DEF FindMutex, Goto, queueVars, socketVars, commVars, clientVars
<1>3. c \in Client /\ task[w].socket = sock[c]
  BY <1>2, TaskOf DEF WaitsForSocket
<1>4. n = c
  <2>1. Open(c) /\ cpc[c] \in Queueing
    BY <1>2 DEF StreamInv, OwnersQueueing, Serving, Open, Queueing
  <2>2. n \in Client /\ Open(n)
    BY <1>1 DEF TypeInv, TypeOK, SocketTypes, ConnInv
  <2>3. conn[sock[c]] = c /\ conn[sock[n]] = n
    BY <1>3, <2>1, <2>2 DEF ConnInv
  <2>4. QED
    BY <1>1, <1>3, <2>3
<1>5. wpc \in [Worker -> WorkerLabel] /\ node \in [Worker -> Client \cup {None}]
  BY DEF TypeInv, TypeOK, WorkerTypes
<1>6. \A v \in Worker : v # w => wpc'[v] = wpc[v] /\ node'[v] = node[v]
  BY <1>1, <1>2, <1>5
<1>7. wpc'[w] = "locksock" /\ node'[w] = c
  BY <1>1, <1>2, <1>4, <1>5
<1> HIDE DEF c
<1>8. \A d : Current(d)' = Current(d)
  <2>1. \A d : WorkerWaitsFor(d)' = WorkerWaitsFor(d)
    BY <1>2, <1>6, <1>7 DEF WorkerWaitsFor, WaitsForSocket
  <2>2. QED
    BY <1>2, <2>1 DEF Current
<1>9. ChunksInOrder' /\ EndAfterLast'
  BY <1>2 DEF StreamInv, ChunksInOrder, EndAfterLast, StreamComplete
<1>10. WaiterIsNewest' /\ OwnersQueueing' /\ SocketMutexHeld'
  BY <1>2, <1>6, <1>7 DEF StreamInv, WaiterIsNewest, OwnersQueueing, SocketMutexHeld, Serving,
                          WaitsForSocket, HoldsSocket
<1>11. NodeOfOwner'
  BY <1>2, <1>6, <1>7 DEF StreamInv, NodeOfOwner, c
<1>12. HolderAtPosition'
  <2>1. \A v \in Worker : wpc'[v] \in HoldsSocket => v # w
    BY <1>7 DEF HoldsSocket
  <2>2. QED
    BY <1>2, <1>6, <1>8, <2>1 DEF StreamInv, HolderAtPosition, Position
<1>13. FreeAtEnd'
  BY <1>2, <1>8 DEF StreamInv, FreeAtEnd
<1>14. QED
  BY <1>9, <1>10, <1>11, <1>12, <1>13 DEF StreamInv

\* The worker that gets the mutex of the socket finds the stream complete up to
\* the item before its own.
LEMMA LockKeepsStreamInv ==
  ASSUME TypeInv, LockInv, QueueInv, StreamInv, NEW w \in Worker, LockSocketMutex(w)
  PROVE  StreamInv'
<1>0. PICK c \in Client : c = task[w].owner
  BY TaskOf DEF LockSocketMutex, WaitsForSocket
<1>1. /\ wpc[w] = "locksock" /\ wpc' = [wpc EXCEPT ![w] = "signal"]
      /\ mutex_socket[c] = None /\ mutex_socket' = [mutex_socket EXCEPT ![c] = w]
      /\ UNCHANGED <<task, node, Files_Queue, popped, toClient, cpc, rpc, received, toServer>>
  BY <1>0 DEF LockSocketMutex, Goto, StreamInv, NodeOfOwner, commVars, clientVars
<1>2. /\ wpc \in [Worker -> WorkerLabel] /\ mutex_socket \in [Client -> Worker \cup {None}]
  BY DEF TypeInv, TypeOK, WorkerTypes, SocketTypes
<1>3. \A v \in Worker : v # w => wpc'[v] = wpc[v]
  BY <1>1, <1>2
<1>4. wpc'[w] = "signal"
  BY <1>1, <1>2
<1>5. \A v \in Worker : v # w => wpc[v] \notin WaitsForSocket
  BY <1>1 DEF LockInv, WaitsForSocket
<1>6. /\ popped[c] \in Nat /\ popped[c] <= TerminationMsg(c) /\ TerminationMsg(c) \in Nat
      /\ task[w].item = popped[c] /\ popped[c] > 0
  <2>1. task[w].item = popped[c] /\ task[w].item \in Nat \ {0}
    BY <1>0, <1>1, TaskOf DEF StreamInv, WaiterIsNewest, WaitsForSocket
  <2>2. QED
    BY <2>1, Counters
<1>7. WorkerWaitsFor(c) /\ Current(c) = popped[c] - 1
  BY <1>0, <1>1 DEF WorkerWaitsFor, WaitsForSocket, Current
<1>8. ~WorkerWaitsFor(c)' /\ Current(c)' = popped[c]
  BY <1>1, <1>3, <1>4, <1>5 DEF WorkerWaitsFor, WaitsForSocket, Current
<1>9. \A d \in Client : d # c => Current(d)' = Current(d)
  <2>1. \A d \in Client : d # c => WorkerWaitsFor(d)' = WorkerWaitsFor(d)
    BY <1>0, <1>1, <1>3, <1>4 DEF WorkerWaitsFor
  <2>2. QED
    BY <1>1, <2>1 DEF Current
<1>10. Len(toClient[c]) = 2 * task[w].item - 2
  <2>1. Len(toClient[c]) = LengthUpTo(c, popped[c] - 1)
    BY <1>1, <1>7 DEF StreamInv, FreeAtEnd
  <2>2. QED
    BY <1>6, <2>1 DEF LengthUpTo
<1>11. ChunksInOrder' /\ EndAfterLast'
  BY <1>1 DEF StreamInv, ChunksInOrder, EndAfterLast, StreamComplete
<1>12. WaiterIsNewest' /\ OwnersQueueing' /\ NodeOfOwner'
  BY <1>1, <1>3, <1>4 DEF StreamInv, WaiterIsNewest, OwnersQueueing, NodeOfOwner, Serving,
                          WaitsForSocket, HoldsSocket
<1>13. SocketMutexHeld'
  <2>1. \A v \in Worker : v # w => ~(wpc[v] \in HoldsSocket /\ task[v].owner = c)
    BY <1>1, ConstantsAssumption DEF StreamInv, SocketMutexHeld
  <2>2. ASSUME NEW v \in Worker, NEW d \in Client
        PROVE  mutex_socket'[d] = v <=> wpc'[v] \in HoldsSocket /\ task[v].owner = d
    <3>1. CASE v = w
      <4>1. ~(wpc[w] \in HoldsSocket)
        BY <1>1 DEF HoldsSocket
      <4>2. mutex_socket[d] # w
        BY <4>1 DEF StreamInv, SocketMutexHeld
      <4>3. QED
        BY <1>0, <1>1, <1>2, <1>4, <3>1, <4>2 DEF HoldsSocket
    <3>2. CASE v # w
      BY <1>1, <1>2, <1>3, <2>1, <3>2 DEF StreamInv, SocketMutexHeld
    <3>3. QED
      BY <3>1, <3>2
  <2>3. QED
    BY <1>1, <2>2 DEF SocketMutexHeld
<1>14. HolderAtPosition'
  <2>1. SUFFICES ASSUME NEW v \in Worker, wpc'[v] \in HoldsSocket
                 PROVE  task[v].item = Current(task[v].owner)' /\ Position(v)'
    BY <1>1 DEF HolderAtPosition
  <2>2. CASE v = w
    <3>1. Position(w)'
      BY <1>0, <1>1, <1>4, <1>10 DEF Position
    <3>2. Current(task[w].owner)' = Current(c)'
      BY <1>0, <1>1
    <3>3. QED
      BY <1>6, <1>8, <2>2, <3>1, <3>2
  <2>3. CASE v # w
    <3>1. wpc[v] \in HoldsSocket
      BY <1>3, <2>1, <2>3
    <3>2. task[v].item = Current(task[v].owner) /\ Position(v)
      BY <3>1 DEF StreamInv, HolderAtPosition
    <3>3. PICK d \in Client : d = task[v].owner
      BY <3>1, TaskOf
    <3>4. d # c
      BY <1>1, <3>1, <3>3, ConstantsAssumption DEF StreamInv, SocketMutexHeld
    <3>5. Current(task[v].owner)' = Current(d)'
      BY <1>1, <3>3
    <3>6. Position(v)'
      BY <1>1, <1>3, <2>3, <3>2 DEF Position
    <3>7. QED
      BY <1>9, <3>2, <3>3, <3>4, <3>5, <3>6
  <2>4. QED
    BY <2>2, <2>3
<1>15. FreeAtEnd'
  <2>1. ASSUME NEW d \in Client, mutex_socket'[d] = None
        PROVE  Len(toClient[d]) = LengthUpTo(d, Current(d)')
    <3>1. d # c /\ mutex_socket[d] = None
      BY <1>1, <1>2, <2>1, ConstantsAssumption
    <3>2. QED
      BY <1>9, <3>1 DEF StreamInv, FreeAtEnd
  <2>2. QED
    BY <1>1, <2>1 DEF FreeAtEnd, LengthUpTo
<1>16. QED
  BY <1>11, <1>12, <1>13, <1>14, <1>15 DEF StreamInv

LEMMA SignalKeepsStreamInv ==
  ASSUME TypeInv, StreamInv, NEW w \in Worker, SignalNotFull(w)
  PROVE  StreamInv'
<1>1. /\ wpc[w] = "signal" /\ wpc' = [wpc EXCEPT ![w] = "meta"]
      /\ UNCHANGED <<task, node, Files_Queue, popped, toClient, mutex_socket, cpc, rpc, received,
                     toServer>>
  BY DEF SignalNotFull, Goto, socketVars, commVars, clientVars
<1>2. (\A v \in Worker : v # w => wpc'[v] = wpc[v]) /\ wpc'[w] = "meta"
  BY <1>1 DEF TypeInv, TypeOK, WorkerTypes
<1>3. \A d : Current(d)' = Current(d)
  <2>1. \A d : WorkerWaitsFor(d)' = WorkerWaitsFor(d)
    BY <1>1, <1>2 DEF WorkerWaitsFor, WaitsForSocket
  <2>2. QED
    BY <1>1, <2>1 DEF Current
<1>4. ChunksInOrder' /\ EndAfterLast' /\ FreeAtEnd'
  BY <1>1, <1>3 DEF StreamInv, ChunksInOrder, EndAfterLast, StreamComplete, FreeAtEnd
<1>5. WaiterIsNewest' /\ OwnersQueueing' /\ NodeOfOwner' /\ SocketMutexHeld'
  BY <1>1, <1>2 DEF StreamInv, WaiterIsNewest, OwnersQueueing, NodeOfOwner, SocketMutexHeld,
                    Serving, WaitsForSocket, HoldsSocket
<1>6. HolderAtPosition'
  <2>1. \A v \in Worker : wpc'[v] \in HoldsSocket => wpc[v] \in HoldsSocket
    BY <1>1, <1>2 DEF HoldsSocket
  <2>2. QED
    BY <1>1, <1>2, <1>3, <2>1 DEF StreamInv, HolderAtPosition, Position
<1>7. QED
  BY <1>4, <1>5, <1>6 DEF StreamInv

LEMMA UnlockKeepsStreamInv ==
  ASSUME TypeInv, QueueInv, StreamInv, NEW w \in Worker, UnlockSocketMutex(w)
  PROVE  StreamInv'
<1>0. PICK c \in Client : c = task[w].owner
  BY TaskOf DEF UnlockSocketMutex, HoldsSocket
<1>1. /\ wpc[w] = "unlocksock" /\ wpc' = [wpc EXCEPT ![w] = "test"]
      /\ mutex_socket' = [mutex_socket EXCEPT ![c] = None]
      /\ task' = [task EXCEPT ![w] = None] /\ node' = [node EXCEPT ![w] = None]
      /\ UNCHANGED <<Files_Queue, popped, toClient, cpc, rpc, received, toServer>>
  BY <1>0 DEF UnlockSocketMutex, Goto, StreamInv, NodeOfOwner, HoldsSocket, queueVars, commVars,
              clientVars
<1>2. /\ wpc \in [Worker -> WorkerLabel] /\ mutex_socket \in [Client -> Worker \cup {None}]
      /\ task \in [Worker -> Entry \cup {None}] /\ node \in [Worker -> Client \cup {None}]
  BY DEF TypeInv, TypeOK, WorkerTypes, SocketTypes
<1>3. \A v \in Worker : v # w => wpc'[v] = wpc[v] /\ task'[v] = task[v] /\ node'[v] = node[v]
  BY <1>1, <1>2
<1>4. wpc'[w] = "test"
  BY <1>1, <1>2
<1>5. mutex_socket[c] = w
  BY <1>0, <1>1 DEF StreamInv, SocketMutexHeld, HoldsSocket
<1>6. Len(toClient[c]) = LengthUpTo(c, Current(c))
  <2>1. task[w].item = Current(c) /\ Position(w)
    BY <1>0, <1>1 DEF StreamInv, HolderAtPosition, HoldsSocket
  <2>2. QED
    BY <1>0, <1>1, <2>1 DEF Position
<1>7. \A d : Current(d)' = Current(d)
  <2>1. \A d : WorkerWaitsFor(d)' = WorkerWaitsFor(d)
    BY <1>1, <1>3, <1>4 DEF WorkerWaitsFor, WaitsForSocket
  <2>2. QED
    BY <1>1, <2>1 DEF Current
<1>8. ChunksInOrder' /\ EndAfterLast'
  BY <1>1 DEF StreamInv, ChunksInOrder, EndAfterLast, StreamComplete
<1>9. WaiterIsNewest' /\ OwnersQueueing' /\ NodeOfOwner'
  BY <1>1, <1>3, <1>4 DEF StreamInv, WaiterIsNewest, OwnersQueueing, NodeOfOwner, Serving,
                          WaitsForSocket, HoldsSocket
<1>10. SocketMutexHeld'
  <2>1. ASSUME NEW v \in Worker, NEW d \in Client
        PROVE  mutex_socket'[d] = v <=> wpc'[v] \in HoldsSocket /\ task'[v].owner = d
    <3>1. CASE v = w
      <4>1. mutex_socket'[d] # w
        BY <1>0, <1>1, <1>2, ConstantsAssumption DEF StreamInv, SocketMutexHeld
      <4>2. QED
        BY <1>4, <3>1, <4>1 DEF HoldsSocket
    <3>2. CASE v # w
      <4>1. mutex_socket'[d] = v <=> mutex_socket[d] = v
        BY <1>1, <1>2, <1>5, <3>2, ConstantsAssumption
      <4>2. QED
        BY <1>3, <3>2, <4>1 DEF StreamInv, SocketMutexHeld
    <3>3. QED
      BY <3>1, <3>2
  <2>2. QED
    BY <2>1 DEF SocketMutexHeld
<1>11. HolderAtPosition'
  <2>1. SUFFICES ASSUME NEW v \in Worker, wpc'[v] \in HoldsSocket
                 PROVE  task'[v].item = Current(task[v].owner)' /\ Position(v)'
    BY DEF HolderAtPosition
  <2>2. v # w /\ wpc'[v] = wpc[v] /\ task'[v] = task[v]
    BY <1>3, <1>4, <2>1 DEF HoldsSocket
  <2>3. task[v].item = Current(task[v].owner) /\ Position(v)
    BY <2>1, <2>2 DEF StreamInv, HolderAtPosition
  <2>4. Position(v)'
    BY <1>1, <2>2, <2>3 DEF Position
  <2>5. QED
    BY <1>7, <2>2, <2>3, <2>4
<1>12. FreeAtEnd'
  <2>1. ASSUME NEW d \in Client, mutex_socket'[d] = None
        PROVE  Len(toClient[d]) = LengthUpTo(d, Current(d))
    BY <1>1, <1>2, <1>6, <2>1 DEF StreamInv, FreeAtEnd
  <2>2. QED
    BY <1>1, <1>7, <2>1 DEF FreeAtEnd, LengthUpTo
<1>13. QED
  BY <1>8, <1>9, <1>10, <1>11, <1>12 DEF StreamInv

\* The worker writes to the socket of the entry's owner, and its chunk is the
\* next one of the stream.
LEMMA WriteIsNext ==
  ASSUME TypeInv, ConnInv, QueueInv, StreamInv, NEW w \in Worker,
         SendMetaData(w) \/ SendContent(w)
  PROVE  LET c == task[w].owner
             s == toClient[c]
         IN  /\ toClient' = [toClient EXCEPT ![c] = Append(s, ExpectedChunk(c, Len(s) + 1))]
             /\ ~StreamComplete(c)
             /\ wpc'[w] \in HoldsSocket /\ Position(w)'
             /\ wpc[w] \in {"meta", "content"} /\ \E l \in HoldsSocket : wpc' = [wpc EXCEPT ![w] = l]
             /\ UNCHANGED <<task, node, Files_Queue, popped, mutex_socket, cpc, rpc, received, toServer>>
<1> DEFINE c == task[w].owner
           i == task[w].item
           s == toClient[c]
<1>1. wpc[w] \in {"meta", "content"} /\ Serving(w) /\ wpc[w] \in HoldsSocket
  BY DEF SendMetaData, SendContent, Serving, HoldsSocket
<1>2. c \in Client /\ i \in Nat \ {0} /\ task[w].socket = sock[c] /\ i <= TerminationMsg(c)
      /\ TerminationMsg(c) \in Nat
  BY <1>1, TaskOf, Counters
<1>3. conn[task[w].socket] = c
  <2>1. cpc[c] \in Queueing
    BY <1>1 DEF StreamInv, OwnersQueueing
  <2>2. QED
    BY <1>2, <2>1 DEF ConnInv, Open, Queueing
<1>4. /\ task' = task /\ node' = node
      /\ UNCHANGED <<Files_Queue, popped, mutex_socket, cpc, rpc, received, toServer>>
  BY DEF SendMetaData, SendContent, WriteChunk, queueVars, socketVars, commVars
<1>5. Position(w) /\ wpc \in [Worker -> WorkerLabel]
      /\ toClient \in [Client -> Seq(Chunk)] /\ s \in Seq(Chunk) /\ Len(s) \in Nat
  BY <1>1, <1>2 DEF StreamInv, HolderAtPosition, TypeInv, TypeOK, WorkerTypes, ClientTypes
<1>6. ~StreamComplete(c)
  BY <1>1, <1>2, CompleteIsQuiet
<1>7. CASE SendMetaData(w)
  <2>1. wpc[w] = "meta" /\ Len(s) = 2 * i - 2
    BY <1>5, <1>7 DEF Position, SendMetaData
  <2>2. toClient' = [toClient EXCEPT ![c] =
                       Append(s, [owner |-> c, item |-> i, part |-> "meta"])]
    BY <1>3, <1>7 DEF SendMetaData, WriteChunk
  <2>3. ExpectedChunk(c, Len(s) + 1) = [owner |-> c, item |-> i, part |-> "meta"]
    <3>1. Len(s) + 1 = 2 * i - 1
      BY <1>2, <2>1
    <3>2. QED
      BY <1>2, <3>1, ChunkParity
  <2>4. Len(toClient'[c]) = 2 * i - 1
    <3>1. toClient'[c] = Append(s, ExpectedChunk(c, Len(s) + 1))
      BY <1>2, <1>5, <2>2, <2>3
    <3>2. Len(toClient'[c]) = Len(s) + 1
      BY <1>5, <3>1, AppendLength
    <3>3. QED
      BY <1>2, <1>5, <2>1, <3>2
  <2>5. /\ wpc' = [wpc EXCEPT ![w] = IF i = TerminationMsg(c) THEN "unlocksock" ELSE "content"]
    BY <1>7 DEF SendMetaData, Goto, IsTermination
  <2>6. Position(w)'
    BY <1>2, <1>4, <1>5, <2>4, <2>5 DEF Position, LengthUpTo, TerminationMsg
  <2>7. QED
    BY <1>1, <1>4, <1>5, <1>6, <2>2, <2>3, <2>5, <2>6 DEF HoldsSocket
<1>8. CASE SendContent(w)
  <2>1. wpc[w] = "content" /\ Len(s) = 2 * i - 1 /\ i # TerminationMsg(c)
    BY <1>5, <1>8 DEF Position, SendContent
  <2>2. toClient' = [toClient EXCEPT ![c] =
                       Append(s, [owner |-> c, item |-> i, part |-> "content"])]
    BY <1>3, <1>8 DEF SendContent, WriteChunk
  <2>3. ExpectedChunk(c, Len(s) + 1) = [owner |-> c, item |-> i, part |-> "content"]
    <3>1. Len(s) + 1 = 2 * i
      BY <1>2, <2>1
    <3>2. QED
      BY <1>2, <3>1, ChunkParity
  <2>4. Len(toClient'[c]) = 2 * i
    <3>1. toClient'[c] = Append(s, ExpectedChunk(c, Len(s) + 1))
      BY <1>2, <1>5, <2>2, <2>3
    <3>2. Len(toClient'[c]) = Len(s) + 1
      BY <1>5, <3>1, AppendLength
    <3>3. QED
      BY <1>2, <1>5, <2>1, <3>2
  <2>5. wpc' = [wpc EXCEPT ![w] = "unlocksock"]
    BY <1>8 DEF SendContent, Goto
  <2>6. Position(w)'
    BY <1>2, <1>4, <1>5, <2>1, <2>4, <2>5 DEF Position, LengthUpTo, TerminationMsg
  <2>7. QED
    BY <1>1, <1>4, <1>5, <1>6, <2>2, <2>3, <2>5, <2>6 DEF HoldsSocket
<1>9. QED
  BY <1>7, <1>8

LEMMA WriteKeepsStreamInv ==
  ASSUME TypeInv, ConnInv, QueueInv, StreamInv, NEW w \in Worker,
         SendMetaData(w) \/ SendContent(w)
  PROVE  StreamInv'
<1>0. PICK c \in Client : c = task[w].owner
  BY TaskOf DEF SendMetaData, SendContent, HoldsSocket
<1> DEFINE s == toClient[c]
<1>1. /\ toClient' = [toClient EXCEPT ![c] = Append(s, ExpectedChunk(c, Len(s) + 1))]
      /\ ~StreamComplete(c) /\ Position(w)' /\ wpc[w] \in {"meta", "content"}
      /\ UNCHANGED <<task, node, Files_Queue, popped, mutex_socket, cpc, rpc, received, toServer>>
  BY <1>0, WriteIsNext
<1>2. PICK l \in HoldsSocket : wpc' = [wpc EXCEPT ![w] = l]
  BY WriteIsNext
<1>3. /\ \A v \in Worker : v # w => wpc'[v] = wpc[v]
      /\ wpc'[w] \in HoldsSocket /\ wpc[w] \in HoldsSocket
  BY <1>1, <1>2 DEF TypeInv, TypeOK, WorkerTypes, HoldsSocket
<1>4. /\ \A d \in Client : d # c => toClient'[d] = toClient[d]
      /\ toClient'[c] = Append(s, ExpectedChunk(c, Len(s) + 1))
      /\ s \in Seq(Chunk) /\ Len(s) \in Nat
  BY <1>1 DEF TypeInv, TypeOK, ClientTypes
<1>5. \A d : Current(d)' = Current(d)
  <2>1. \A d : WorkerWaitsFor(d)' = WorkerWaitsFor(d)
    BY <1>1, <1>3 DEF WorkerWaitsFor, WaitsForSocket, HoldsSocket
  <2>2. QED
    BY <1>1, <2>1 DEF Current
<1>6. ChunksInOrder'
  <2>1. ASSUME NEW k \in 1 .. Len(toClient'[c]) PROVE toClient'[c][k] = ExpectedChunk(c, k)
    <3>1. Len(toClient'[c]) = Len(s) + 1 /\ toClient'[c][Len(s) + 1] = ExpectedChunk(c, Len(s) + 1)
          /\ \A j \in 1 .. Len(s) : toClient'[c][j] = s[j]
      BY <1>4
    <3>2. \A j \in 1 .. Len(s) : s[j] = ExpectedChunk(c, j)
      BY DEF StreamInv, ChunksInOrder
    <3>3. QED
      BY <1>4, <3>1, <3>2
  <2>2. ASSUME NEW d \in Client, NEW k \in 1 .. Len(toClient'[d])
        PROVE  toClient'[d][k] = ExpectedChunk(d, k)
    BY <1>4, <2>1, <2>2 DEF StreamInv, ChunksInOrder
  <2>3. QED
    BY <2>2 DEF ChunksInOrder, ExpectedChunk
<1>7. WaiterIsNewest' /\ NodeOfOwner' /\ SocketMutexHeld'
  BY <1>1, <1>3 DEF StreamInv, WaiterIsNewest, NodeOfOwner, SocketMutexHeld, WaitsForSocket,
                    HoldsSocket
<1>8. OwnersQueueing'
  <2>1. \A v \in Worker : Serving(v)' => Serving(v)
    BY <1>1, <1>3 DEF Serving
  <2>2. QED
    BY <1>1, <2>1 DEF StreamInv, OwnersQueueing
<1>9. HolderAtPosition'
  <2>1. SUFFICES ASSUME NEW v \in Worker, wpc'[v] \in HoldsSocket
                 PROVE  task[v].item = Current(task[v].owner)' /\ Position(v)'
    BY <1>1 DEF HolderAtPosition
  <2>2. task[v].item = Current(task[v].owner) /\ Position(v) /\ wpc[v] \in HoldsSocket
    BY <1>3, <2>1 DEF StreamInv, HolderAtPosition
  <2>3. task[v].item = Current(task[v].owner)'
    BY <1>1, <1>5, <2>2
  <2>4. CASE v = w
    BY <1>1, <2>3, <2>4
  <2>5. CASE v # w
    <3>1. task[v].owner # c
      BY <1>0, <1>3, <2>2, <2>5, TaskOf DEF StreamInv, SocketMutexHeld
    <3>2. task[v].owner \in Client
      BY <2>2, TaskOf
    <3>3. Position(v)'
      BY <1>1, <1>3, <1>4, <2>2, <2>5, <3>1, <3>2 DEF Position, LengthUpTo, TerminationMsg
    <3>4. QED
      BY <2>3, <3>3
  <2>6. QED
    BY <2>4, <2>5
<1>10. FreeAtEnd'
  <2>1. mutex_socket[c] # None
    <3>1. mutex_socket[c] = w
      BY <1>0, <1>3 DEF StreamInv, SocketMutexHeld
    <3>2. QED
      BY <3>1, ConstantsAssumption
  <2>2. QED
    BY <1>1, <1>4, <1>5, <2>1 DEF StreamInv, FreeAtEnd, LengthUpTo
<1>11. EndAfterLast'
  <2>1. \A d \in Client : StreamComplete(d) => StreamComplete(d)'
    BY <1>1, <1>4 DEF StreamComplete, LengthUpTo
  <2>2. QED
    BY <1>1, <2>1 DEF StreamInv, EndAfterLast
<1>12. QED
  BY <1>6, <1>7, <1>8, <1>9, <1>10, <1>11 DEF StreamInv

-----------------------------------------------------------------------------
\* Communication threads and clients change no worker and no stream.
LEMMA OthersKeepWorkerParts ==
  ASSUME StreamInv, UNCHANGED <<wpc, task, node, toClient, popped, mutex_socket>>
  PROVE  WorkerParts'
<1>1. SameEngagements
  BY DEF SameEngagements
<1>2. QED
  BY <1>1, WorkerPartsKept DEF StreamInv, WorkerParts

LEMMA InsertKeepsStreamInv ==
  ASSUME TypeInv, QueueInv, StreamInv, NEW c \in Client, InsertItem(c)
  PROVE  StreamInv'
<1> DEFINE e == [socket |-> sock[c], owner |-> c, item |-> inserted[c] + 1]
<1>1. /\ cpc[c] \in Queueing /\ cpc' = [cpc EXCEPT ![c] = "signal"]
      /\ Files_Queue' = Append(Files_Queue, e)
      /\ UNCHANGED <<wpc, task, node, toClient, popped, mutex_socket, rpc, received, toServer>>
  BY DEF InsertItem, AtLoopTest, CommGoto, Queueing, workerVars, socketVars, clientVars
<1>2. /\ \A d \in Client : d # c => cpc'[d] = cpc[d]
      /\ cpc'[c] = "signal" /\ cpc'[c] \in Queueing
  BY <1>1 DEF TypeInv, TypeOK, CommTypes, Queueing
<1>3. OwnersQueueing'
  <2>1. /\ Len(Append(Files_Queue, e)) = Len(Files_Queue) + 1 /\ Len(Files_Queue) \in Nat
        /\ Append(Files_Queue, e)[Len(Files_Queue) + 1] = e
        /\ \A k \in 1 .. Len(Files_Queue) : /\ Files_Queue[k] \in Entry
                                            /\ Append(Files_Queue, e)[k] = Files_Queue[k]
    <3>1. e \in Entry /\ Files_Queue \in Seq(Entry)
      BY <1>1, InsertedEntry DEF InsertItem, TypeInv, TypeOK, QueueTypes
    <3>2. QED
      BY <3>1, AppendElements
  <2>2. \A d \in Client : cpc[d] \in Queueing => cpc'[d] \in Queueing
    BY <1>2
  <2>3. \A k \in 1 .. Len(Files_Queue) : cpc'[Files_Queue[k].owner] \in Queueing
    BY <2>1, <2>2 DEF StreamInv, OwnersQueueing, Entry
  <2>4. \A w \in Worker : Serving(w)' => cpc'[task[w].owner] \in Queueing
    <3>1. \A w \in Worker : Serving(w) => task[w].owner \in Client
      BY TaskOf DEF Serving, WaitsForSocket, HoldsSocket
    <3>2. QED
      BY <1>1, <2>2, <3>1 DEF StreamInv, OwnersQueueing, Serving
  <2>5. ASSUME NEW k \in 1 .. Len(Files_Queue) + 1
        PROVE  cpc'[Append(Files_Queue, e)[k].owner] \in Queueing
    <3>1. CASE k = Len(Files_Queue) + 1
      BY <1>2, <2>1, <3>1
    <3>2. CASE k # Len(Files_Queue) + 1
      <4>1. k \in 1 .. Len(Files_Queue)
        BY <2>1, <3>2
      <4>2. QED
        BY <2>1, <2>3, <4>1
    <3>3. QED
      BY <3>1, <3>2
  <2>6. QED
    BY <1>1, <2>1, <2>4, <2>5 DEF OwnersQueueing
<1>4. EndAfterLast'
  BY <1>1, <1>2 DEF StreamInv, EndAfterLast, StreamComplete
<1>5. QED
  BY <1>1, <1>3, <1>4, OthersKeepWorkerParts DEF StreamInv, WorkerParts

\* A communication thread leaves its queueing control points only when it reads
\* END, and then no entry of its client is left anywhere.
LEMMA ReadAckKeepsStreamInv ==
  ASSUME TypeInv, QueueInv, StreamInv, NEW c \in Client, ReadAck(c)
  PROVE  StreamInv'
<1>1. /\ cpc[c] = "acks" /\ toServer[c] # <<>>
      /\ toServer' = [toServer EXCEPT ![c] = Tail(toServer[c])]
      /\ cpc' = [cpc EXCEPT ![c] = IF Head(toServer[c]) = "END" THEN "delete" ELSE "acks"]
      /\ UNCHANGED <<wpc, task, node, Files_Queue, toClient, popped, mutex_socket, rpc, received>>
  BY DEF ReadAck, CommGoto, workerVars, queueVars, socketVars
<1>2. /\ toServer \in [Client -> Seq({"ACK", "END"})] /\ cpc \in [Client -> CommLabel]
  BY DEF TypeInv, TypeOK, ClientTypes, CommTypes
<1>3. /\ \A d \in Client : d # c => cpc'[d] = cpc[d] /\ toServer'[d] = toServer[d]
      /\ toServer'[c] = Tail(toServer[c])
      /\ cpc'[c] = IF Head(toServer[c]) = "END" THEN "delete" ELSE "acks"
  BY <1>1, <1>2
<1>4. /\ Len(toServer[c]) \in Nat \ {0} /\ Head(toServer[c]) = toServer[c][1]
      /\ Len(Tail(toServer[c])) = Len(toServer[c]) - 1
      /\ \A k \in 1 .. Len(Tail(toServer[c])) : Tail(toServer[c])[k] = toServer[c][k + 1]
  BY <1>1, <1>2, TailElements
<1>5. Head(toServer[c]) = "END" => StreamComplete(c)
  BY <1>4 DEF StreamInv, EndAfterLast
<1>6. OwnersQueueing'
  <2>1. /\ \A k \in 1 .. Len(Files_Queue) : Files_Queue[k].owner \in Client
        /\ \A w \in Worker : Serving(w) => task[w].owner \in Client
    <3>1. \A k \in 1 .. Len(Files_Queue) : Files_Queue[k] \in Entry
      BY DEF TypeInv, TypeOK, QueueTypes
    <3>2. QED
      BY <3>1, TaskOf DEF Serving, WaitsForSocket, HoldsSocket, Entry
  <2>2. CASE Head(toServer[c]) = "END"
    <3>1. /\ \A k \in 1 .. Len(Files_Queue) : Files_Queue[k].owner # c
          /\ \A w \in Worker : Serving(w) => task[w].owner # c
      BY <1>5, <2>2, CompleteIsQuiet
    <3>2. QED
      BY <1>1, <1>3, <2>1, <3>1 DEF StreamInv, OwnersQueueing, Serving
  <2>3. CASE Head(toServer[c]) # "END"
    <3>1. cpc' = cpc
      BY <1>1, <1>2, <2>3
    <3>2. QED
      BY <1>1, <3>1 DEF StreamInv, OwnersQueueing, Serving
  <2>4. QED
    BY <2>2, <2>3
<1>7. EndAfterLast'
  <2>1. \A d \in Client : StreamComplete(d)' = StreamComplete(d)
    BY <1>1 DEF StreamComplete
  <2>2. ASSUME NEW d \in Client, NEW k \in 1 .. Len(toServer'[d]), toServer'[d][k] = "END"
        PROVE  StreamComplete(d)
    <3>1. CASE d = c
      <4>1. k \in 1 .. Len(Tail(toServer[c])) /\ Tail(toServer[c])[k] = "END"
        BY <1>3, <2>2, <3>1
      <4>2. k + 1 \in 1 .. Len(toServer[c])
        BY <1>4, <4>1
      <4>3. toServer[c][k + 1] = "END"
        BY <1>4, <4>1
      <4>4. QED
        BY <3>1, <4>2, <4>3 DEF StreamInv, EndAfterLast
    <3>2. CASE d # c
      BY <1>3, <2>2, <3>2 DEF StreamInv, EndAfterLast
    <3>3. QED
      BY <3>1, <3>2
  <2>3. ASSUME NEW d \in Client,
               cpc'[d] \in {"delete", "close"} \/ (cpc'[d] = "exited" /\ d \notin BadDir)
        PROVE  StreamComplete(d)
    BY <1>3, <1>5, <2>3 DEF StreamInv, EndAfterLast
  <2>4. QED
    BY <1>1, <2>1, <2>2, <2>3 DEF StreamInv, EndAfterLast
<1>8. QED
  BY <1>1, <1>6, <1>7, OthersKeepWorkerParts DEF StreamInv, WorkerParts

\* The other steps of a communication thread, and its creation.
LEMMA CommStepKeepsStreamInv ==
  ASSUME TypeInv, StreamInv, NEW c \in Client,
         CommStep(c) \/ AcceptClient(c), ~InsertItem(c), ~ReadAck(c)
  PROVE  StreamInv'
<1>1. PICK l \in CommLabel :
        /\ cpc' = [cpc EXCEPT ![c] = l]
        /\ cpc[c] \in Queueing => l \in Queueing
        /\ \/ l \in Queueing \cup {"register", "request"}
           \/ cpc[c] \in {"delete", "close"}
           \/ l = "exited" /\ c \in BadDir
  BY DEF CommStep, AcceptClient, Pending, RegisterSocket, AcceptRequest, RejectRequest, WaitNotFull,
         SignalNotEmpty, DeleteNode, CloseSocket, AtLoopTest, CommGoto, CommLabel, Queueing
<1>2. UNCHANGED <<wpc, task, node, Files_Queue, toClient, popped, mutex_socket, received, toServer>>
  BY DEF CommStep, AcceptClient, RegisterSocket, AcceptRequest, RejectRequest, WaitNotFull,
         SignalNotEmpty, DeleteNode, CloseSocket, workerVars, queueVars, socketVars, clientVars
<1>3. \A d \in Client : rpc'[d] \in {"ack", "end"} => rpc'[d] = rpc[d]
  BY DEF CommStep, AcceptClient, RegisterSocket, AcceptRequest, RejectRequest, WaitNotFull,
         SignalNotEmpty, DeleteNode, CloseSocket, clientVars, TypeInv, TypeOK, ClientTypes
<1>4. (\A d \in Client : d # c => cpc'[d] = cpc[d]) /\ cpc'[c] = l
  BY <1>1 DEF TypeInv, TypeOK, CommTypes
<1>5. OwnersQueueing'
  <2>1. \A d : cpc[d] \in Queueing => cpc'[d] \in Queueing
    BY <1>1 DEF TypeInv, TypeOK, CommTypes
  <2>2. QED
    BY <1>2, <2>1 DEF StreamInv, OwnersQueueing, Serving
<1>6. EndAfterLast'
  <2>1. \A d \in Client : StreamComplete(d)' = StreamComplete(d)
    BY <1>2 DEF StreamComplete
  <2>2. ASSUME NEW d \in Client,
               cpc'[d] \in {"delete", "close"} \/ (cpc'[d] = "exited" /\ d \notin BadDir)
        PROVE  StreamComplete(d)
    <3>1. CASE d = c
      BY <1>1, <1>4, <2>2, <3>1 DEF StreamInv, EndAfterLast, Queueing
    <3>2. CASE d # c
      BY <1>4, <2>2, <3>2 DEF StreamInv, EndAfterLast
    <3>3. QED
      BY <3>1, <3>2
  <2>3. QED
    BY <1>2, <1>3, <2>1, <2>2 DEF StreamInv, EndAfterLast
<1>7. QED
  BY <1>2, <1>5, <1>6, OthersKeepWorkerParts DEF StreamInv, WorkerParts

\* A client sends END after TERMINATION_MSG, the last chunk of its stream.
LEMMA ClientStepKeepsStreamInv ==
  ASSUME TypeInv, QueueInv, StreamInv, NEW c \in Client, Connect(c) \/ ClientStep(c)
  PROVE  StreamInv'
<1>1. UNCHANGED <<wpc, task, node, Files_Queue, cpc, toClient, popped, mutex_socket>>
  BY DEF ClientStep, Connect, ServerGone, ReadMetaData, ReadContent, SendAck, SendEnd, workerVars,
         queueVars, socketVars, commVars
<1>2. OwnersQueueing'
  BY <1>1 DEF StreamInv, OwnersQueueing, Serving
<1>3. \A d \in Client : StreamComplete(d)' = StreamComplete(d)
  BY <1>1 DEF StreamComplete
<1>4. /\ rpc \in [Client -> ClientLabel] /\ received \in [Client -> Nat]
      /\ toServer \in [Client -> Seq({"ACK", "END"})] /\ received[c] <= Len(toClient[c])
      /\ Len(toClient[c]) \in Nat
  BY DEF TypeInv, TypeOK, ClientTypes
<1>5. CASE Connect(c) \/ ServerGone(c)
  <2>1. \A d \in Client : rpc'[d] \in {"ack", "end"} => rpc'[d] = rpc[d]
    BY <1>4, <1>5 DEF Connect, ServerGone, ClientGoto
  <2>2. UNCHANGED <<received, toServer>>
    BY <1>5 DEF Connect, ServerGone
  <2>3. EndAfterLast'
    BY <1>1, <1>3, <2>1, <2>2 DEF StreamInv, EndAfterLast
  <2>4. QED
    BY <1>1, <1>2, <2>3, OthersKeepWorkerParts DEF StreamInv, WorkerParts
<1>6. CASE ReadMetaData(c) \/ ReadContent(c)
  <2>1. /\ UNCHANGED toServer
        /\ received' = [received EXCEPT ![c] = received[c] + 1]
        /\ \E l \in {"ack", "content"} : rpc' = [rpc EXCEPT ![c] = l]
    BY <1>6 DEF ReadMetaData, ReadContent, ClientGoto
  <2>2. EndAfterLast'
    BY <1>1, <1>3, <1>4, <2>1 DEF StreamInv, EndAfterLast
  <2>3. QED
    BY <1>1, <1>2, <2>2, OthersKeepWorkerParts DEF StreamInv, WorkerParts
<1>7. CASE SendAck(c) \/ SendEnd(c)
  <2>1. PICK m \in {"ACK", "END"}, l \in {"meta", "end", "done"} :
          /\ toServer' = [toServer EXCEPT ![c] = Append(toServer[c], m)]
          /\ rpc' = [rpc EXCEPT ![c] = l]
          /\ m = "END" \/ l = "end" => StreamComplete(c)
    <3>1. CASE SendEnd(c)
      <4>1. StreamComplete(c)
        BY <3>1 DEF SendEnd, StreamInv, EndAfterLast
      <4>2. QED
        BY <3>1, <4>1 DEF SendEnd, ClientGoto
    <3>2. CASE SendAck(c)
      <4>1. LastItem(c) = TerminationMsg(c) => StreamComplete(c)
        <5>1. SUFFICES ASSUME LastItem(c) = TerminationMsg(c) PROVE StreamComplete(c)
          OBVIOUS
        <5>2. received[c] \in 1 .. Len(toClient[c])
          BY <1>4, <3>2 DEF SendAck, StreamInv, EndAfterLast
        <5>3. ExpectedChunk(c, received[c]).item = TerminationMsg(c)
          BY <5>1, <5>2 DEF LastItem, StreamInv, ChunksInOrder
        <5>4. TerminationMsg(c) \in Nat \ {0}
          BY Counters
        <5>5. received[c] = 2 * TerminationMsg(c) - 1 \/ received[c] = 2 * TerminationMsg(c)
          <6>1. received[c] \in Nat \ {0}
            BY <1>4, <5>2
          <6>2. QED
            BY <5>3, <5>4, <6>1, ItemOfChunk
        <5>6. QED
          BY <1>4, <5>2, <5>4, <5>5, StreamBounded DEF StreamComplete, LengthUpTo
      <4>2. QED
        BY <3>2, <4>1 DEF SendAck, ClientGoto
    <3>3. QED
      BY <1>7, <3>1, <3>2
  <2>2. UNCHANGED received
    BY <1>7 DEF SendAck, SendEnd
  <2>3. ASSUME NEW d \in Client, NEW k \in 1 .. Len(toServer'[d]), toServer'[d][k] = "END"
        PROVE  StreamComplete(d)
    <3>1. CASE d = c
      <4>1. /\ Len(toServer'[c]) = Len(toServer[c]) + 1 /\ Len(toServer[c]) \in Nat
            /\ toServer'[c][Len(toServer[c]) + 1] = m
            /\ \A j \in 1 .. Len(toServer[c]) : toServer'[c][j] = toServer[c][j]
        BY <1>4, <2>1
      <4>2. CASE k = Len(toServer[c]) + 1
        BY <2>1, <2>3, <3>1, <4>1, <4>2
      <4>3. CASE k # Len(toServer[c]) + 1
        <5>1. k \in 1 .. Len(toServer[c]) /\ toServer[c][k] = "END"
          BY <2>3, <3>1, <4>1, <4>3
        <5>2. QED
          BY <3>1, <5>1 DEF StreamInv, EndAfterLast
      <4>4. QED
        BY <4>2, <4>3
    <3>2. CASE d # c
      <4>1. toServer'[d] = toServer[d]
        BY <1>4, <2>1, <3>2
      <4>2. QED
        BY <2>3, <4>1 DEF StreamInv, EndAfterLast
    <3>3. QED
      BY <3>1, <3>2
  <2>4. ASSUME NEW d \in Client
        PROVE  /\ rpc'[d] = "end" => StreamComplete(d)
               /\ rpc'[d] = "ack" => received[d] > 0
    BY <1>4, <2>1 DEF StreamInv, EndAfterLast
  <2>5. EndAfterLast'
    BY <1>1, <1>3, <2>2, <2>3, <2>4 DEF StreamInv, EndAfterLast
  <2>6. QED
    BY <1>1, <1>2, <2>5, OthersKeepWorkerParts DEF StreamInv, WorkerParts
<1>8. QED
  BY <1>5, <1>6, <1>7 DEF ClientStep

LEMMA StreamStep ==
  ASSUME TypeInv, LockInv, ConnInv, QueueInv, StreamInv, Next
  PROVE  StreamInv'
<1>1. ASSUME NEW w \in Worker, WorkerStep(w) PROVE StreamInv'
  BY <1>1, IdleStepKeepsStreamInv, PopKeepsStreamInv, FindKeepsStreamInv, LockKeepsStreamInv,
     SignalKeepsStreamInv, WriteKeepsStreamInv, UnlockKeepsStreamInv DEF WorkerStep
<1>2. ASSUME NEW c \in Client, CommStep(c) \/ AcceptClient(c) PROVE StreamInv'
  BY <1>2, InsertKeepsStreamInv, ReadAckKeepsStreamInv, CommStepKeepsStreamInv
<1>3. ASSUME NEW c \in Client, Connect(c) \/ ClientStep(c) PROVE StreamInv'
  BY <1>3, ClientStepKeepsStreamInv
<1>4. ASSUME UNCHANGED <<wpc, task, node, Files_Queue, popped, mutex_socket, cpc, clientVars>>
      PROVE  StreamInv'
  <2>1. OwnersQueueing' /\ EndAfterLast'
    BY <1>4 DEF StreamInv, OwnersQueueing, EndAfterLast, Serving, StreamComplete, clientVars
  <2>2. QED
    BY <1>4, <2>1, OthersKeepWorkerParts DEF StreamInv, WorkerParts, clientVars
<1>5. ASSUME MainStep \/ Stop_Server \/ SpuriousWakeup PROVE StreamInv'
  <2>1. CASE \E c \in Client : AcceptClient(c)
    BY <1>2, <2>1
  <2>2. CASE ~\E c \in Client : AcceptClient(c)
    <3>1. UNCHANGED <<wpc, task, node, Files_Queue, popped, mutex_socket, cpc, clientVars>>
      BY <1>5, <2>2 DEF MainStep, TestAccepting, BlockInAccept, AcceptFails, LookupFails,
         BroadcastStop, JoinWorkers, CleanUp, Stop_Server, SpuriousWakeup, workerVars, queueVars,
         socketVars, commVars
    <3>2. QED
      BY <1>4, <3>1
  <2>3. QED
    BY <2>1, <2>2
<1>6. QED
  BY <1>1, <1>2, <1>3, <1>5 DEF Next

\* The streams, the mutexes of the sockets and the current items agree.
THEOREM StreamInvariant == Spec => []StreamInv
<1>1. TypeInv /\ LockInv /\ ConnInv /\ QueueInv /\ StreamInv /\ [Next]_vars => StreamInv'
  <2>1. ASSUME StreamInv, UNCHANGED vars PROVE StreamInv'
    <3>1. OwnersQueueing' /\ EndAfterLast'
      BY <2>1 DEF vars, queueVars, socketVars, workerVars, commVars, clientVars, StreamInv,
                  OwnersQueueing, EndAfterLast, Serving, StreamComplete
    <3>2. WorkerParts'
      BY <2>1, OthersKeepWorkerParts DEF vars, queueVars, socketVars, workerVars, clientVars
    <3>3. QED
      BY <3>1, <3>2 DEF StreamInv, WorkerParts
  <2>2. QED
    BY <2>1, StreamStep
<1>2. QED
  BY <1>1, StreamInit, TypeInvariant, LockInvariant, ConnInvariant, QueueInvariant, PTL DEF Spec

\* The whole invariant of DataServerInv.
THEOREM Invariant == Spec => []InductiveInv
<1>1. TypeInv /\ LockInv /\ RoomInv /\ ConnInv /\ QueueInv /\ StreamInv => InductiveInv
  BY DEF InductiveInv
<1>2. QED
  BY <1>1, TypeInvariant, LockInvariant, RoomInvariant, ConnInvariant, QueueInvariant,
     StreamInvariant, PTL

-----------------------------------------------------------------------------
\* Whichever workers send the files of a client, it is written its directory in
\* order, each file whole and TERMINATION_MSG last (Server.c:425-438).
THEOREM StreamsInOrder == Spec => []StreamInOrder
<1>1. TypeInv /\ QueueInv /\ StreamInv => StreamInOrder
  <2>1. SUFFICES ASSUME TypeInv, QueueInv, StreamInv, NEW c \in Client
                 PROVE  /\ Len(toClient[c]) <= 2 * FileCount[c] + 1
                        /\ \A k \in 1 .. Len(toClient[c]) : toClient[c][k] = ExpectedChunk(c, k)
    BY DEF StreamInOrder
  <2>2. Len(toClient[c]) <= 2 * TerminationMsg(c) - 1 /\ FileCount[c] \in Nat
    BY <2>1, StreamBounded, ConstantsAssumption
  <2>3. Len(toClient[c]) \in Nat
    BY <2>1, Counters
  <2>4. QED
    BY <2>1, <2>2, <2>3 DEF TerminationMsg, StreamInv, ChunksInOrder
<1>2. QED
  BY <1>1, TypeInvariant, QueueInvariant, StreamInvariant, PTL

\* A worker never writes to a descriptor that was closed, or given to another
\* client, after the entry was queued (Server.c:82-87, 425-435).
THEOREM SocketsStillOwned == Spec => []SocketStillOwned
<1>1. TypeInv /\ ConnInv /\ QueueInv /\ StreamInv => SocketStillOwned
  <2>1. SUFFICES ASSUME TypeInv, ConnInv, QueueInv, StreamInv, NEW w \in Worker, Serving(w)
                 PROVE  conn[task[w].socket] = task[w].owner
    BY DEF SocketStillOwned
  <2>2. task[w].owner \in Client /\ task[w].socket = sock[task[w].owner]
    BY <2>1, TaskOf DEF Serving, WaitsForSocket, HoldsSocket
  <2>3. cpc[task[w].owner] \in Queueing
    BY <2>1 DEF StreamInv, OwnersQueueing
  <2>4. QED
    BY <2>1, <2>2, <2>3 DEF ConnInv, Open, Queueing
<1>2. QED
  BY <1>1, TypeInvariant, ConnInvariant, QueueInvariant, StreamInvariant, PTL

\* A communication thread deletes its node and closes its socket only when the
\* whole directory is sent and nothing of its client is queued or in the hands
\* of a worker that has still to write (Server.c:62-89).
THEOREM DeletesAfterLastWrite == Spec => []DeleteAfterLastWrite
<1>1. TypeInv /\ QueueInv /\ StreamInv => DeleteAfterLastWrite
  <2>1. SUFFICES ASSUME TypeInv, QueueInv, StreamInv, NEW c \in Client \ BadDir,
                        cpc[c] \in {"delete", "close", "exited"}
                 PROVE  /\ Len(toClient[c]) = 2 * FileCount[c] + 1
                        /\ \A k \in 1 .. Len(Files_Queue) : Files_Queue[k].owner # c
                        /\ \A w \in Worker : Serving(w) => task[w].owner # c
    BY DEF DeleteAfterLastWrite
  <2>2. StreamComplete(c)
    BY <2>1 DEF StreamInv, EndAfterLast
  <2>3. Len(toClient[c]) = 2 * FileCount[c] + 1
    BY <2>2, ConstantsAssumption DEF StreamComplete, LengthUpTo, TerminationMsg
  <2>4. QED
    BY <2>1, <2>2, <2>3, CompleteIsQuiet
<1>2. QED
  BY <1>1, TypeInvariant, QueueInvariant, StreamInvariant, PTL

-----------------------------------------------------------------------------
(* The end of the server.                                                   *)

\* The main thread has joined the workers before it cleans up, and it exits
\* only from there.
ShutdownInv ==
  /\ mpc = "cleanup" => \A w \in Worker : wpc[w] = "exited"
  /\ proc = "exited" => mpc = "cleanup"

LEMMA ShutdownInit == ASSUME Init PROVE ShutdownInv
BY DEF Init, ShutdownInv

\* A worker that has exited takes no step.
LEMMA ExitedStays ==
  ASSUME TypeInv, Next, NEW w \in Worker, wpc[w] = "exited"
  PROVE  wpc'[w] = "exited"
<1>1. CASE UNCHANGED workerVars
  BY <1>1 DEF workerVars
<1>2. ASSUME NEW v \in Worker, WorkerStep(v) PROVE wpc'[w] = "exited"
  <2>1. wpc[v] # "exited" /\ \E l \in WorkerLabel : wpc' = [wpc EXCEPT ![v] = l]
    BY <1>2 DEF WorkerStep, TestRunning, FindsQueueEmpty, WaitNotEmpty, LeavesLoop, PopTask,
         FindMutex, LockSocketMutex, SignalNotFull, SendMetaData, SendContent, UnlockSocketMutex,
         AcquiresFilesQueue, Goto, WorkerLabel
  <2>2. QED
    BY <2>1 DEF TypeInv, TypeOK, WorkerTypes
<1>3. QED
  BY <1>1, <1>2, WorkerFrame DEF ChangesWorkers

LEMMA ShutdownStep == ASSUME TypeInv, ShutdownInv, Next PROVE ShutdownInv'
<1>1. ASSUME NEW w \in Worker, WorkerStep(w) PROVE UNCHANGED <<mpc, proc>>
  BY <1>1 DEF WorkerStep, TestRunning, FindsQueueEmpty, WaitNotEmpty, LeavesLoop, PopTask,
       FindMutex, LockSocketMutex, SignalNotFull, SendMetaData, SendContent, UnlockSocketMutex,
       mainVars
<1>2. ASSUME NEW c \in Client, CommStep(c) PROVE UNCHANGED mpc /\ (proc' = "exited" => proc = "exited")
  BY <1>2 DEF CommStep, RegisterSocket, AcceptRequest, RejectRequest, WaitNotFull, InsertItem,
       SignalNotEmpty, ReadAck, DeleteNode, CloseSocket, mainVars
<1>3. ASSUME NEW c \in Client, Connect(c) \/ ClientStep(c) PROVE UNCHANGED <<mpc, proc>>
  BY <1>3 DEF ClientStep, Connect, ServerGone, ReadMetaData, ReadContent, SendAck, SendEnd, mainVars
<1>4. ASSUME MainStep, ~JoinWorkers, ~CleanUp
      PROVE  (mpc' # "cleanup" /\ proc' # "exited") \/ UNCHANGED <<mpc, proc>>
  BY <1>4 DEF MainStep, TestAccepting, BlockInAccept, AcceptFails, AcceptClient, LookupFails,
       BroadcastStop, Up
<1>5. ASSUME JoinWorkers PROVE (\A w \in Worker : wpc[w] = "exited") /\ proc' # "exited"
  BY <1>5 DEF JoinWorkers, Up
<1>6. ASSUME CleanUp PROVE mpc = "cleanup" /\ mpc' = "cleanup"
  BY <1>6 DEF CleanUp
<1>7. ASSUME Stop_Server \/ SpuriousWakeup
      PROVE  mpc' \in {mpc, "close"} /\ proc' = proc /\ proc = "up"
  BY <1>7 DEF Stop_Server, SpuriousWakeup, mainVars, Up
<1>8. mpc' = "cleanup" => mpc = "cleanup" \/ \A w \in Worker : wpc[w] = "exited"
  BY <1>1, <1>2, <1>3, <1>4, <1>5, <1>6, <1>7 DEF Next
<1>9. proc' = "exited" => mpc' = "cleanup"
  BY <1>1, <1>2, <1>3, <1>4, <1>5, <1>6, <1>7 DEF Next, ShutdownInv
<1>10. QED
  BY <1>8, <1>9, ExitedStays DEF ShutdownInv

THEOREM ShutdownInvariant == Spec => []ShutdownInv
<1>1. TypeInv /\ ShutdownInv /\ [Next]_vars => ShutdownInv'
  <2>1. ASSUME ShutdownInv, UNCHANGED vars PROVE ShutdownInv'
    BY <2>1 DEF ShutdownInv, vars, mainVars, workerVars
  <2>2. QED
    BY <2>1, ShutdownStep
<1>2. QED
  BY <1>1, ShutdownInit, TypeInvariant, PTL DEF Spec

-----------------------------------------------------------------------------
\* The mutexes that the clean up destroys are not held by a worker
\* (Server.c:420-423, 458-469).
THEOREM NoWorkersInCleanUp == Spec => []NoWorkerInCleanUp
<1>1. TypeInv /\ LockInv /\ StreamInv /\ ShutdownInv => NoWorkerInCleanUp
  <2>1. SUFFICES ASSUME TypeInv, LockInv, StreamInv, \A w \in Worker : wpc[w] = "exited"
                 PROVE  mutex_files_queue = None /\ \A c \in Client : mutex_socket[c] = None
    BY DEF NoWorkerInCleanUp, ShutdownInv
  <2>2. mutex_files_queue = None
    BY <2>1 DEF LockInv, WaitsForSocket, TypeInv, TypeOK, QueueTypes
  <2>3. ASSUME NEW c \in Client PROVE mutex_socket[c] = None
    BY <2>1 DEF StreamInv, SocketMutexHeld, HoldsSocket, TypeInv, TypeOK, SocketTypes
  <2>4. QED
    BY <2>2, <2>3
<1>2. QED
  BY <1>1, TypeInvariant, LockInvariant, StreamInvariant, ShutdownInvariant, PTL

\* A server that exits after ^C has finished every file it has begun to send
\* (Server.c:413, 458-459).
THEOREM ExitsCutNoFile == Spec => []ExitCutsNoFile
<1>1. TypeInv /\ QueueInv /\ StreamInv /\ ShutdownInv /\ NoWorkerInCleanUp => ExitCutsNoFile
  <2>1. SUFFICES ASSUME TypeInv, QueueInv, StreamInv, NoWorkerInCleanUp, mpc = "cleanup",
                        NEW c \in Client
                 PROVE  Len(toClient[c]) % 2 = 0 \/ Len(toClient[c]) = 2 * FileCount[c] + 1
    BY DEF ExitCutsNoFile, ShutdownInv
  <2>2. Len(toClient[c]) = LengthUpTo(c, Current(c))
    BY <2>1 DEF NoWorkerInCleanUp, StreamInv, FreeAtEnd
  <2>3. Current(c) \in Int
    BY <2>1, Counters DEF Current
  <2>4. CASE Current(c) = TerminationMsg(c)
    BY <2>2, <2>4, ConstantsAssumption DEF LengthUpTo, TerminationMsg
  <2>5. CASE Current(c) # TerminationMsg(c)
    BY <2>2, <2>3, <2>5 DEF LengthUpTo
  <2>6. QED
    BY <2>4, <2>5
<1>2. QED
  BY <1>1, TypeInvariant, QueueInvariant, StreamInvariant, ShutdownInvariant, NoWorkersInCleanUp, PTL

-----------------------------------------------------------------------------
(* DataServer implements DirectoryCopy: the first chunks a client has read  *)
(* are its directory, so each step either adds the next file to its copy,   *)
(* or announces the end of a complete one, or changes neither.              *)

\* Nothing is queued for a directory that does not open.
BadDirInv == \A c \in BadDir : inserted[c] = 0

LEMMA BadDirInit == ASSUME Init PROVE BadDirInv
BY ConstantsAssumption DEF Init, BadDirInv

LEMMA BadDirStep == ASSUME TypeInv, ConnInv, BadDirInv, Next PROVE BadDirInv'
<1>1. ASSUME NEW c \in Client, InsertItem(c) PROVE BadDirInv'
  <2>1. c \notin BadDir /\ inserted' = [inserted EXCEPT ![c] = inserted[c] + 1]
    BY <1>1 DEF InsertItem, AtLoopTest, ConnInv
  <2>2. QED
    BY <2>1, ConstantsAssumption DEF BadDirInv, TypeInv, TypeOK, CommTypes
<1>2. ASSUME NEW c \in Client, CommStep(c) \/ AcceptClient(c), ~InsertItem(c)
      PROVE  UNCHANGED inserted
  BY <1>2 DEF CommStep, AcceptClient, RegisterSocket, AcceptRequest, RejectRequest, WaitNotFull,
       SignalNotEmpty, ReadAck, DeleteNode, CloseSocket
<1>3. UNCHANGED inserted => BadDirInv'
  BY DEF BadDirInv
<1>4. QED
  BY <1>1, <1>2, <1>3, CommFrame DEF ChangesComms, commVars

THEOREM BadDirInvariant == Spec => []BadDirInv
<1>1. TypeInv /\ ConnInv /\ BadDirInv /\ [Next]_vars => BadDirInv'
  <2>1. ASSUME BadDirInv, UNCHANGED vars PROVE BadDirInv'
    BY <2>1 DEF BadDirInv, vars, commVars
  <2>2. QED
    BY <2>1, BadDirStep
<1>2. QED
  BY <1>1, BadDirInit, TypeInvariant, ConnInvariant, PTL DEF Spec

-----------------------------------------------------------------------------
\* All that the refinement needs to know of a reachable state.
Reading ==
  /\ received \in [Client -> Nat]
  /\ FileCount \in [Client -> Nat]
  /\ \A c \in Client :
       /\ Len(toClient[c]) \in Nat
       /\ received[c] <= Len(toClient[c]) /\ Len(toClient[c]) <= 2 * FileCount[c] + 1
       /\ \A k \in 1 .. Len(toClient[c]) : toClient[c][k] = ExpectedChunk(c, k)
       /\ c \in BadDir => received[c] = 0

LEMMA ReadingHolds ==
  ASSUME TypeInv, QueueInv, StreamInv, StreamInOrder, BadDirInv PROVE Reading
<1>1. ASSUME NEW c \in BadDir PROVE c \in Client /\ received[c] = 0
  <2>1. c \in Client /\ inserted[c] = 0 /\ popped[c] = 0
    BY ConstantsAssumption, Counters DEF BadDirInv
  <2>2. CASE mutex_socket[c] = None
    <3>1. Len(toClient[c]) = LengthUpTo(c, Current(c))
      BY <2>1, <2>2 DEF StreamInv, FreeAtEnd
    <3>2. Current(c) <= 0 /\ Current(c) \in Int
      BY <2>1 DEF Current
    <3>3. QED
      BY <2>1, <3>1, <3>2, Counters DEF LengthUpTo
  <2>3. CASE mutex_socket[c] # None
    <3>1. PICK w \in Worker : mutex_socket[c] = w
      BY <2>1, <2>3 DEF TypeInv, TypeOK, SocketTypes
    <3>2. wpc[w] \in HoldsSocket /\ task[w].owner = c
      BY <2>1, <3>1 DEF StreamInv, SocketMutexHeld
    <3>3. task[w].item \in Nat \ {0} /\ task[w].item <= popped[c]
      BY <3>2, TaskOf
    <3>4. QED
      BY <2>1, <3>3
  <2>4. QED
    BY <2>1, <2>2, <2>3
<1>2. QED
  BY <1>1, ConstantsAssumption, Counters
     DEF Reading, TypeInv, TypeOK, ClientTypes, StreamInOrder

FilesUpTo(c, m) == [i \in 1 .. m |-> [owner |-> c, item |-> i]]
FilesIn(s, r) == [i \in 1 .. r \div 2 |-> [owner |-> s[2 * i].owner, item |-> s[2 * i].item]]

\* What is read of a stream in order is the beginning of the directory.
LEMMA FilesInOrder ==
  ASSUME NEW c \in Client, NEW s, NEW r, r \in Nat, Len(s) \in Nat, r <= Len(s),
         \A k \in 1 .. Len(s) : s[k] = ExpectedChunk(c, k)
  PROVE  FilesIn(s, r) = FilesUpTo(c, r \div 2)
<1>1. ASSUME NEW i \in 1 .. r \div 2 PROVE s[2 * i].owner = c /\ s[2 * i].item = i
  <2>1. 2 * i \in 1 .. Len(s) /\ i \in Nat \ {0}
    OBVIOUS
  <2>2. s[2 * i] = ExpectedChunk(c, 2 * i)
    BY <2>1
  <2>3. s[2 * i] = [owner |-> c, item |-> i, part |-> "content"]
    BY <2>1, <2>2, ChunkParity
  <2>4. QED
    BY <2>3
<1>2. QED
  BY <1>1 DEF FilesIn, FilesUpTo

LEMMA FilesBefore == ASSUME Reading, NEW c \in Client
                     PROVE  FilesOf(c) = FilesUpTo(c, received[c] \div 2)
<1>1. /\ received[c] \in Nat /\ Len(toClient[c]) \in Nat /\ received[c] <= Len(toClient[c])
      /\ \A k \in 1 .. Len(toClient[c]) : toClient[c][k] = ExpectedChunk(c, k)
  BY DEF Reading
<1>2. FilesIn(toClient[c], received[c]) = FilesUpTo(c, received[c] \div 2)
  BY <1>1, FilesInOrder
<1>3. QED
  BY <1>2 DEF FilesOf, FilesIn

LEMMA FilesAfter == ASSUME Reading', NEW c \in Client
                    PROVE  FilesOf(c)' = FilesUpTo(c, received'[c] \div 2)
<1>1. /\ received'[c] \in Nat /\ Len(toClient'[c]) \in Nat /\ received'[c] <= Len(toClient'[c])
      /\ \A k \in 1 .. Len(toClient'[c]) : toClient'[c][k] = ExpectedChunk(c, k)
  BY DEF Reading, ExpectedChunk
<1>2. FilesIn(toClient'[c], received'[c]) = FilesUpTo(c, received'[c] \div 2)
  BY <1>1, FilesInOrder
<1>3. QED
  BY <1>2 DEF FilesOf, FilesIn

\* A step either leaves what the clients have read, or one client reads one
\* chunk.
LEMMA ReadingStep ==
  ASSUME TypeInv, [Next]_vars
  PROVE  \/ UNCHANGED received
         \/ \E c \in Client : received' = [received EXCEPT ![c] = received[c] + 1]
<1>1. ASSUME NEW w \in Worker, SendMetaData(w) \/ SendContent(w) PROVE UNCHANGED received
  BY <1>1 DEF SendMetaData, SendContent, WriteChunk
<1>2. ASSUME NEW c \in Client, AcceptRequest(c) \/ RejectRequest(c) \/ ReadAck(c)
      PROVE  UNCHANGED received
  BY <1>2 DEF AcceptRequest, RejectRequest, ReadAck
<1>3. ASSUME NEW c \in Client, Connect(c) \/ ClientStep(c)
      PROVE  UNCHANGED received \/ received' = [received EXCEPT ![c] = received[c] + 1]
  BY <1>3 DEF Connect, ClientStep, ServerGone, ReadMetaData, ReadContent, SendAck, SendEnd
<1>4. QED
  BY <1>1, <1>2, <1>3, ClientFrame DEF ChangesClients, vars, clientVars

LEMMA CopyInit == ASSUME Init PROVE Copy!Init
<1>1. \A c \in Client : FilesOf(c) = <<>>
  BY DEF Init, FilesOf
<1>2. \A c \in Client : ~(received[c] > 2 * FileCount[c])
  BY ConstantsAssumption DEF Init
<1>3. QED
  BY <1>1, <1>2 DEF Copy!Init

LEMMA AppendFile ==
  ASSUME NEW c \in Client, NEW m \in Nat
  PROVE  /\ Len(FilesUpTo(c, m)) = m
         /\ FilesUpTo(c, m + 1) = Append(FilesUpTo(c, m), [owner |-> c, item |-> m + 1])
  BY DEF FilesUpTo

\* What a step of a client that reads a chunk does to the copies.
LEMMA CopyStep ==
  ASSUME Reading, Reading', NEW c \in Client, received' = [received EXCEPT ![c] = received[c] + 1]
  PROVE  [Copy!Next]_(Copy!vars)
<1> DEFINE n == received[c]
           cp == [d \in Client |-> FilesOf(d)]
           cm == {d \in Client : received[d] > 2 * FileCount[d]}
<1>1. /\ n \in Nat /\ FileCount[c] \in Nat /\ n + 1 <= 2 * FileCount[c] + 1 /\ c \notin BadDir
      /\ \A d \in Client : d # c => received'[d] = received[d]
      /\ received'[c] = n + 1
  BY DEF Reading
<1>2. \A d \in Client : d # c => FilesOf(d)' = FilesOf(d)
  BY <1>1, FilesBefore, FilesAfter
<1>3. FilesOf(c) = FilesUpTo(c, n \div 2) /\ FilesOf(c)' = FilesUpTo(c, (n + 1) \div 2)
  BY <1>1, FilesBefore, FilesAfter
<1>4. c \notin cm /\ cm' = IF n = 2 * FileCount[c] THEN cm \cup {c} ELSE cm
  BY <1>1
<1>5. CASE n % 2 = 1
  <2>1. (n + 1) \div 2 = n \div 2 + 1 /\ n \div 2 \in Nat /\ n \div 2 < FileCount[c]
        /\ n # 2 * FileCount[c]
    BY <1>1, <1>5
  <2>2. /\ Len(cp[c]) = n \div 2
        /\ FilesOf(c)' = Append(cp[c], [owner |-> c, item |-> n \div 2 + 1])
    BY <1>3, <2>1, AppendFile
  <2>3. cp' = [cp EXCEPT ![c] = Append(cp[c], [owner |-> c, item |-> Len(cp[c]) + 1])]
    BY <1>2, <2>2
  <2>4. Copy!ReceiveFile(c)
    BY <1>1, <1>4, <2>1, <2>2, <2>3 DEF Copy!ReceiveFile, Copy!File
  <2>5. QED
    BY <2>4 DEF Copy!Next
<1>6. CASE n % 2 = 0
  <2>1. (n + 1) \div 2 = n \div 2 /\ n \div 2 \in Nat
    BY <1>1, <1>6
  <2>2. cp' = cp
    BY <1>2, <1>3, <2>1
  <2>3. CASE n = 2 * FileCount[c]
    <3>1. Len(cp[c]) = FileCount[c]
      <4>1. n \div 2 = FileCount[c]
        BY <1>1, <2>3
      <4>2. Len(FilesUpTo(c, n \div 2)) = n \div 2
        BY <2>1, AppendFile
      <4>3. QED
        BY <1>3, <4>1, <4>2
    <3>2. Copy!Complete(c)
      BY <1>1, <1>4, <2>2, <2>3, <3>1 DEF Copy!Complete
    <3>3. QED
      BY <3>2 DEF Copy!Next
  <2>4. CASE n # 2 * FileCount[c]
    BY <1>4, <2>2, <2>4 DEF Copy!vars
  <2>5. QED
    BY <2>3, <2>4
<1>7. QED
  BY <1>1, <1>5, <1>6

\* The server with its threads, queues and sockets is a directory copier.
THEOREM Implementation == Spec => ImplementsDirectoryCopy
<1>1. Init => Copy!Init
  BY CopyInit
<1>2. Reading /\ Reading' /\ TypeInv /\ [Next]_vars => [Copy!Next]_(Copy!vars)
  <2>1. ASSUME Reading, Reading', UNCHANGED received PROVE UNCHANGED Copy!vars
    <3>1. \A d \in Client : FilesOf(d)' = FilesOf(d)
      BY <2>1, FilesBefore, FilesAfter
    <3>2. QED
      BY <2>1, <3>1 DEF Copy!vars
  <2>2. QED
    BY <2>1, ReadingStep, CopyStep
<1>3. Spec => []Reading
  <2>1. TypeInv /\ QueueInv /\ StreamInv /\ StreamInOrder /\ BadDirInv => Reading
    BY ReadingHolds
  <2>2. QED
    BY <2>1, TypeInvariant, QueueInvariant, StreamInvariant, StreamsInOrder, BadDirInvariant, PTL
<1>4. QED
  BY <1>1, <1>2, <1>3, TypeInvariant, PTL DEF Spec, ImplementsDirectoryCopy, Copy!Spec
=============================================================================
