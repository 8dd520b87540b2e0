----------------------------- MODULE RemoteClient -----------------------------
(***************************************************************************)
(* remoteClient: Client and Client_CopyFiles (Client.c:6, 70).  A client   *)
(* connects, sends its request, and then reads item after item, each       *)
(* followed by an ACK, up to TERMINATION_MSG, when it sends END.           *)
(*                                                                         *)
(* Control points: idle, connecting (request sent), meta, content, ack,    *)
(* end, done, and failed (exit(EXIT_FAILURE)) or hung (blocked, or         *)
(* spinning in Receive_Data, for ever).                                    *)
(***************************************************************************)
EXTENDS MainThread

ClientGoto(c, label) == rpc' = [rpc EXCEPT ![c] = label]

Connect(c) ==
  /\ rpc[c] = "idle"
  /\ ClientGoto(c, IF Listening THEN "connecting" ELSE "failed")
  /\ UNCHANGED <<mainVars, queueVars, socketVars, workerVars, commVars,
                 toClient, received, toServer>>

\* The client waits for data of a server that is gone: a read that returns 0
\* makes Receive_Data spin, a reset makes it exit.  The same happens to a
\* connection that was never accepted when the listening socket closes.
ServerGone(c) ==
  /\ \/ ~Up /\ rpc[c] \in {"connecting", "meta", "content", "ack", "end"}
     \/ ~Listening /\ Pending(c)
  /\ \E outcome \in {"hung", "failed"} : ClientGoto(c, outcome)
  /\ UNCHANGED <<mainVars, queueVars, socketVars, workerVars, commVars,
                 toClient, received, toServer>>

HasUnread(c) == received[c] < Len(toClient[c])
NextChunk(c) == toClient[c][received[c] + 1]
LastItem(c) == toClient[c][received[c]].item

\* Client_Get_FileMetaData.
ReadMetaData(c) ==
  /\ rpc[c] = "meta" /\ HasUnread(c)
  /\ received' = [received EXCEPT ![c] = @ + 1]
  /\ ClientGoto(c, IF NextChunk(c).item = TerminationMsg(c) THEN "ack" ELSE "content")
  /\ UNCHANGED <<mainVars, queueVars, socketVars, workerVars, commVars, toClient, toServer>>

\* The loop that copies the content into the new file.
ReadContent(c) ==
  /\ rpc[c] = "content" /\ HasUnread(c)
  /\ received' = [received EXCEPT ![c] = @ + 1]
  /\ ClientGoto(c, "ack")
  /\ UNCHANGED <<mainVars, queueVars, socketVars, workerVars, commVars, toClient, toServer>>

\* A faulty client that stops after its first item.
SendAckStopsEarly(c) ==
  /\ rpc[c] = "ack" /\ RoomToServer(c)
  /\ toServer' = [toServer EXCEPT ![c] = Append(@, "ACK")]
  /\ ClientGoto(c, "end")
  /\ UNCHANGED <<mainVars, queueVars, socketVars, workerVars, commVars, toClient, received>>

SendAck(c) ==
  /\ rpc[c] = "ack" /\ RoomToServer(c)
  /\ toServer' = [toServer EXCEPT ![c] = Append(@, "ACK")]
  /\ ClientGoto(c, IF LastItem(c) = TerminationMsg(c) THEN "end" ELSE "meta")
  /\ UNCHANGED <<mainVars, queueVars, socketVars, workerVars, commVars, toClient, received>>

SendEnd(c) ==
  /\ rpc[c] = "end" /\ RoomToServer(c)
  /\ toServer' = [toServer EXCEPT ![c] = Append(@, "END")]
  /\ ClientGoto(c, "done")
  /\ UNCHANGED <<mainVars, queueVars, socketVars, workerVars, commVars, toClient, received>>

\* The steps a connected client takes by itself; Connect is the user's.
ClientStep(c) ==
  \/ ServerGone(c)
  \/ ReadMetaData(c) \/ ReadContent(c)
  \/ SendAck(c) \/ SendEnd(c)
=============================================================================
