------------------------------- MODULE Transfer -------------------------------
(***************************************************************************)
(* Send_Data and Receive_Data (CommonFuncs.c:27-50) at the two ends of one *)
(* connection, byte by byte.  Both loops go on after a write(2) or read(2) *)
(* that transfers less than asked, but from the start of the buffer.       *)
(*                                                                         *)
(* The two ends exchange messages whose sizes both know (Size).  write(2)  *)
(* copies the message into the kernel's buffer as room appears and returns *)
(* when all is copied, or early when a handled signal interrupts it;       *)
(* read(2) returns what is there, up to what was asked for.                *)
(*                                                                         *)
(* A process that dies closes its end: a read then returns 0 bytes for     *)
(* ever, a write raises SIGPIPE, which nobody handles.                     *)
(***************************************************************************)
EXTENDS Naturals, Sequences

CONSTANTS
  Size,           \* sizes of the messages, in order
  Capacity,       \* bytes the connection holds
  Interruptible,  \* are there handled signals (^C at the server)?
  Mortal          \* which of "sender" and "receiver" may die at any time

ASSUME TransferAssumption ==
  /\ Size \in Seq(Nat) /\ Capacity \in Nat \ {0}
  /\ Interruptible \in BOOLEAN
  /\ Mortal \subseteq {"sender", "receiver"}

VARIABLES
  spc, sent,      \* sender: control point, messages sent
  bytes_to_send,  \* its loop variable
  copied,         \* bytes the write(2) in progress has copied
  stream,         \* bytes in the connection; byte i of message m is <<m, i>>
  rpc, bytes_to_receive, buffer,  \* receiver: control point, loop variable, buffer
  delivered,      \* messages received
  short           \* history: messages with a transfer that ended early

senderVars == <<spc, sent, bytes_to_send, copied>>
receiverVars == <<rpc, bytes_to_receive, buffer, delivered>>
vars == <<senderVars, receiverVars, stream, short>>

Blank == <<0, 0>>   \* contents of a fresh buffer
MinOf(x, y) == IF x < y THEN x ELSE y
Sending == sent + 1
Receiving == Len(delivered) + 1

Init ==
  /\ spc = "idle" /\ sent = 0 /\ bytes_to_send = 0 /\ copied = 0
  /\ rpc = "idle" /\ bytes_to_receive = 0 /\ buffer = <<>> /\ delivered = <<>>
  /\ stream = <<>> /\ short = {}

-----------------------------------------------------------------------------
(* Send_Data *)

\* A faulty caller that sends the '\0' of a string too.
CallSendWithNul ==
  /\ spc = "idle" /\ sent < Len(Size)
  /\ spc' = "loop" /\ bytes_to_send' = Size[Sending] + 1 /\ copied' = 0
  /\ UNCHANGED <<sent, stream, short, receiverVars>>

CallSend ==
  /\ spc = "idle" /\ sent < Len(Size)
  /\ spc' = "loop" /\ bytes_to_send' = Size[Sending] /\ copied' = 0
  /\ UNCHANGED <<sent, stream, short, receiverVars>>

\* One more byte of the buffer given to write(2).
CopyByte ==
  /\ spc = "loop" /\ copied < bytes_to_send
  /\ rpc # "dead" /\ Len(stream) < Capacity
  /\ copied' = copied + 1
  /\ stream' = Append(stream, <<Sending, copied'>>)
  /\ UNCHANGED <<spc, sent, bytes_to_send, short, receiverVars>>

\* A faulty Send_Data that writes once and takes it for the whole message.
WriteReturnsOnce ==
  /\ spc = "loop" /\ copied > 0
  /\ copied < bytes_to_send => Interruptible
  /\ short' = IF copied < bytes_to_send THEN short \cup {Sending} ELSE short
  /\ bytes_to_send' = 0 /\ copied' = 0
  /\ UNCHANGED <<spc, sent, stream, receiverVars>>

WriteReturns ==
  /\ spc = "loop" /\ copied > 0
  /\ copied < bytes_to_send => Interruptible
  /\ short' = IF copied < bytes_to_send THEN short \cup {Sending} ELSE short
  /\ bytes_to_send' = bytes_to_send - copied /\ copied' = 0
  /\ UNCHANGED <<spc, sent, stream, receiverVars>>

SendReturns ==
  /\ spc = "loop" /\ bytes_to_send = 0
  /\ spc' = "idle" /\ sent' = sent + 1
  /\ UNCHANGED <<bytes_to_send, copied, stream, short, receiverVars>>

\* write(2) to a connection whose other end is closed.
BrokenPipe ==
  /\ spc = "loop" /\ bytes_to_send > 0 /\ rpc = "dead"
  /\ spc' = "killed"
  /\ UNCHANGED <<sent, bytes_to_send, copied, stream, short, receiverVars>>

SenderDies ==
  /\ "sender" \in Mortal /\ spc \in {"idle", "loop"}
  /\ spc' = "dead"
  /\ UNCHANGED <<sent, bytes_to_send, copied, stream, short, receiverVars>>

-----------------------------------------------------------------------------
(* Receive_Data *)

CallReceive ==
  /\ rpc = "idle" /\ Len(delivered) < Len(Size)
  /\ rpc' = "loop"
  /\ bytes_to_receive' = Size[Receiving]
  /\ buffer' = [i \in 1 .. Size[Receiving] |-> Blank]
  /\ UNCHANGED <<delivered, stream, short, senderVars>>

\* A faulty Receive_Data that asks for the whole message in every turn.
ReadAgain ==
  /\ rpc = "loop" /\ bytes_to_receive # 0 /\ stream # <<>>
  /\ LET n == MinOf(Len(buffer), Len(stream)) IN
       /\ buffer' = [i \in DOMAIN buffer |-> IF i <= n THEN stream[i] ELSE buffer[i]]
       /\ stream' = SubSeq(stream, n + 1, Len(stream))
       /\ bytes_to_receive' = IF n < bytes_to_receive THEN bytes_to_receive - n ELSE 0
       /\ short' = IF n < Len(buffer) THEN short \cup {Receiving} ELSE short
  /\ UNCHANGED <<rpc, delivered, senderVars>>

\* read(2): what is there, to the start of the buffer.  (At the end of the
\* stream of a dead sender it returns 0, and the loop goes on for nothing.)
Read ==
  /\ rpc = "loop" /\ bytes_to_receive # 0 /\ stream # <<>>
  /\ LET n == MinOf(bytes_to_receive, Len(stream)) IN
       /\ buffer' = [i \in DOMAIN buffer |-> IF i <= n THEN stream[i] ELSE buffer[i]]
       /\ stream' = SubSeq(stream, n + 1, Len(stream))
       /\ bytes_to_receive' = bytes_to_receive - n
       /\ short' = IF n < Len(buffer) THEN short \cup {Receiving} ELSE short
  /\ UNCHANGED <<rpc, delivered, senderVars>>

ReceiveReturns ==
  /\ rpc = "loop" /\ bytes_to_receive = 0
  /\ rpc' = "idle" /\ delivered' = Append(delivered, buffer)
  /\ UNCHANGED <<bytes_to_receive, buffer, stream, short, senderVars>>

ReceiverDies ==
  /\ "receiver" \in Mortal /\ rpc \in {"idle", "loop"}
  /\ rpc' = "dead"
  /\ UNCHANGED <<bytes_to_receive, buffer, delivered, stream, short, senderVars>>

SenderStep == CallSend \/ CopyByte \/ WriteReturns \/ SendReturns \/ BrokenPipe
ReceiverStep == CallReceive \/ Read \/ ReceiveReturns

Next == SenderStep \/ ReceiverStep \/ SenderDies \/ ReceiverDies
Spec == Init /\ [][Next]_vars
FairSpec == Spec /\ WF_vars(SenderStep) /\ WF_vars(ReceiverStep)

-----------------------------------------------------------------------------
Message(m) == [i \in 1 .. Size[m] |-> <<m, i>>]

\* The usual type invariant; in particular no write goes past the buffer.
TypeOK ==
  /\ spc \in {"idle", "loop", "dead", "killed"} /\ rpc \in {"idle", "loop", "dead"}
  /\ sent \in 0 .. Len(Size) /\ Len(delivered) <= Len(Size)
  /\ copied <= bytes_to_send
  /\ \A i \in DOMAIN stream : stream[i][2] \in 1 .. Size[stream[i][1]]
  /\ Len(stream) <= Capacity /\ short \subseteq DOMAIN Size

\* However the transfers are cut, and whoever dies, each end counts the other's
\* bytes right (CommonFuncs.c:34, 47): a call that starts to receive finds no
\* byte of the messages before, and one that returns has a message that was
\* sent with all its bytes.
BoundariesKept ==
  /\ rpc = "idle" => \A i \in DOMAIN stream : stream[i][1] >= Receiving
  /\ rpc = "idle" /\ stream # <<>> => stream[1][2] = 1
  /\ \A m \in DOMAIN delivered :
       Size[m] = 0 \/ m <= sent \/ (m = Sending /\ bytes_to_send = copied)

\* Only the message whose own transfer was cut is damaged: another one that was
\* received is what was sent (CommonFuncs.c:31, 44).
WholeUnlessShort ==
  \A m \in DOMAIN delivered : m \notin short => delivered[m] = Message(m)

\* Both loops end: every message is received, however the transfers are cut,
\* unless an end dies (CommonFuncs.c:30, 43).
AllDelivered ==
  <>(Len(delivered) = Len(Size) \/ spc \in {"dead", "killed"} \/ rpc = "dead")
=============================================================================
