------------------------------ MODULE Handshake ------------------------------
(***************************************************************************)
(* The exchange before anything is copied: Client (Client.c:6-54) and      *)
(* Server with Server_Receive_DirName_From_Client (Server.c:41-53,         *)
(* 102-148).  The client sends the length of a directory's name and the    *)
(* name, gets the length of a text and the text, and, when the text        *)
(* confirms its directory, exchanges ACK, block size and ACK.              *)
(*                                                                         *)
(* Nothing on the wire says what a byte means: a receiver takes the next   *)
(* bytes for what it expects.  Here a byte is <<message, place in it>>, so *)
(* that both sides can be compared.  Transfers are whole (see Transfer).   *)
(***************************************************************************)
EXTENDS Naturals, Sequences

CONSTANTS
  Directories,  \* names that a client may ask for
  NoDirectory,  \* a name that is none of these
  Valid,        \* those that open under DEFAULT_DIR
  NameLength,   \* their lengths
  BlockSizes,   \* values of -b
  TextLength,   \* of CONFIRMATION_MSG with DEFAULT_DIR
  WrongLength,  \* of WRONG_MSG
  MaxLength     \* 2^16 - 1, or any smaller number no text is as long as

ASSUME HandshakeAssumption ==
  /\ NoDirectory \notin Directories
  /\ Valid \subseteq Directories /\ NameLength \in [Directories -> Nat \ {0}]
  /\ BlockSizes \subseteq Nat \ {0}
  /\ TextLength \in Nat /\ WrongLength \in Nat /\ WrongLength > 2
  /\ MaxLength \in Nat /\ MaxLength > WrongLength
  /\ \A d \in Directories : MaxLength > TextLength + NameLength[d]

VARIABLES
  cpc, directory, block_size,  \* client: control point, argument, result
  c_length, c_buffer,          \* client: dir_length, buffer
  spc, server_block_size,      \* communication thread: control point, -b
  s_length, path,              \* server: dir_length, name received
  toServer, toClient           \* bytes on their way

clientVars == <<cpc, directory, block_size, c_length, c_buffer>>
serverVars == <<spc, server_block_size, s_length, path>>
vars == <<clientVars, serverVars, toServer, toClient>>

NoText == <<>>

-----------------------------------------------------------------------------
(* Messages *)

\* The n bytes of a message; a length or a number is its value.
Encode(kind, value, n) == [i \in 1 .. n |-> <<kind, value, i>>]

Length(v) == Encode("length", v, 2)
Name(d)   == Encode("name", d, NameLength[d])
Found(d)  == Encode("found", d, TextLength + NameLength[d])
Wrong     == Encode("wrong", 0, WrongLength)
ACK       == Encode("ack", 0, 3)
Number(v) == Encode("number", v, 4)

Has(stream, n) == Len(stream) >= n
Prefix(stream, n) == SubSeq(stream, 1, n)
Rest(stream, n) == SubSeq(stream, n + 1, Len(stream))

\* A faulty side that forgets ntohs on a little-endian machine.
AsLengthSwapped(bytes) ==
  IF \E v \in 0 .. MaxLength : bytes = Length(v)
  THEN 256 * (CHOOSE v \in 0 .. MaxLength : bytes = Length(v))
  ELSE MaxLength

\* ntohs: two bytes that were not written as a length are some other number,
\* letters of a text a large one ("WR" is 22354).
AsLength(bytes) ==
  IF \E v \in 0 .. MaxLength : bytes = Length(v)
  THEN CHOOSE v \in 0 .. MaxLength : bytes = Length(v)
  ELSE MaxLength

Init ==
  /\ cpc = "request" /\ directory \in Directories /\ block_size = 0
  /\ c_length = 0 /\ c_buffer = NoText
  /\ spc = "length" /\ server_block_size \in BlockSizes
  /\ s_length = 0 /\ path = NoDirectory
  /\ toServer = <<>> /\ toClient = <<>>

-----------------------------------------------------------------------------
(* Client *)

\* The length and the name, in two writes.
SendLength ==
  /\ cpc = "request"
  /\ toServer' = toServer \o Length(NameLength[directory])
  /\ cpc' = "name"
  /\ UNCHANGED <<directory, block_size, c_length, c_buffer, serverVars, toClient>>

SendName ==
  /\ cpc = "name"
  /\ toServer' = toServer \o Name(directory)
  /\ cpc' = "textlength"
  /\ UNCHANGED <<directory, block_size, c_length, c_buffer, serverVars, toClient>>

ReceiveTextLength ==
  /\ cpc = "textlength" /\ Has(toClient, 2)
  /\ c_length' = AsLength(Prefix(toClient, 2))
  /\ toClient' = Rest(toClient, 2)
  /\ cpc' = "text"
  /\ UNCHANGED <<directory, block_size, c_buffer, serverVars, toServer>>

ReceiveText ==
  /\ cpc = "text" /\ Has(toClient, c_length)
  /\ c_buffer' = Prefix(toClient, c_length)
  /\ toClient' = Rest(toClient, c_length)
  /\ cpc' = "decide"
  /\ UNCHANGED <<directory, block_size, c_length, serverVars, toServer>>

\* With a text that is neither of the two it goes on, with block size 0.
Decide ==
  /\ cpc = "decide"
  /\ IF c_buffer = Wrong THEN cpc' = "failed" /\ UNCHANGED toServer
     ELSE IF c_buffer = Found(directory)
     THEN cpc' = "blocksize" /\ toServer' = toServer \o ACK
     ELSE cpc' = "copy" /\ UNCHANGED toServer
  /\ UNCHANGED <<directory, block_size, c_length, c_buffer, serverVars, toClient>>

ReceiveBlockSize ==
  /\ cpc = "blocksize" /\ Has(toClient, 4)
  /\ block_size' = IF \E b \in BlockSizes : Prefix(toClient, 4) = Number(b)
                   THEN CHOOSE b \in BlockSizes : Prefix(toClient, 4) = Number(b)
                   ELSE 0
  /\ toClient' = Rest(toClient, 4)
  /\ toServer' = toServer \o ACK
  /\ cpc' = "copy"
  /\ UNCHANGED <<directory, c_length, c_buffer, serverVars>>

-----------------------------------------------------------------------------
(* Communication thread *)

ReceiveLength ==
  /\ spc = "length" /\ Has(toServer, 2)
  /\ s_length' = AsLength(Prefix(toServer, 2))
  /\ toServer' = Rest(toServer, 2)
  /\ spc' = "name"
  /\ UNCHANGED <<server_block_size, path, clientVars, toClient>>

ReceiveName ==
  /\ spc = "name" /\ Has(toServer, s_length)
  /\ path' = IF \E d \in Directories : Prefix(toServer, s_length) = Name(d)
             THEN CHOOSE d \in Directories : Prefix(toServer, s_length) = Name(d)
             ELSE NoDirectory
  /\ toServer' = Rest(toServer, s_length)
  /\ spc' = "open"
  /\ UNCHANGED <<server_block_size, s_length, clientVars, toClient>>

\* A faulty server that sends a length, but one that is too small.
SendWrongCutShort ==
  /\ spc = "open" /\ path \notin Valid
  /\ toClient' = toClient \o Length(WrongLength - 1) \o Wrong
  /\ spc' = "exited"
  /\ UNCHANGED <<server_block_size, s_length, path, clientVars, toServer>>

\* opendir(3) fails: WRONG_MSG, without a length, and the thread is gone.
SendWrong ==
  /\ spc = "open" /\ path \notin Valid
  /\ toClient' = toClient \o Wrong
  /\ spc' = "exited"
  /\ UNCHANGED <<server_block_size, s_length, path, clientVars, toServer>>

\* A faulty server that counts the text without the name in it.
ConfirmShortLength ==
  /\ spc = "open" /\ path \in Valid
  /\ toClient' = toClient \o Length(TextLength) \o Found(path)
  /\ spc' = "ack1"
  /\ UNCHANGED <<server_block_size, s_length, path, clientVars, toServer>>

Confirm ==
  /\ spc = "open" /\ path \in Valid
  /\ toClient' = toClient \o Length(TextLength + NameLength[path]) \o Found(path)
  /\ spc' = "ack1"
  /\ UNCHANGED <<server_block_size, s_length, path, clientVars, toServer>>

\* A faulty server that does not wait for the second ACK.
SendBlockSizeLast ==
  /\ spc = "ack1" /\ Has(toServer, 3)
  /\ toServer' = Rest(toServer, 3)
  /\ toClient' = toClient \o Number(server_block_size)
  /\ spc' = "scan"
  /\ UNCHANGED <<server_block_size, s_length, path, clientVars>>

\* Three bytes, whichever; then the block size.
SendBlockSize ==
  /\ spc = "ack1" /\ Has(toServer, 3)
  /\ toServer' = Rest(toServer, 3)
  /\ toClient' = toClient \o Number(server_block_size)
  /\ spc' = "ack2"
  /\ UNCHANGED <<server_block_size, s_length, path, clientVars>>

ReceiveAck ==
  /\ spc = "ack2" /\ Has(toServer, 3)
  /\ toServer' = Rest(toServer, 3)
  /\ spc' = "scan"
  /\ UNCHANGED <<server_block_size, s_length, path, clientVars, toClient>>

ClientStep == \/ SendLength \/ SendName \/ ReceiveTextLength \/ ReceiveText
              \/ Decide \/ ReceiveBlockSize
ServerStep == \/ ReceiveLength \/ ReceiveName \/ SendWrong \/ Confirm
              \/ SendBlockSize \/ ReceiveAck

Next == ClientStep \/ ServerStep
Spec == Init /\ [][Next]_vars
FairSpec == Spec /\ WF_vars(ClientStep) /\ WF_vars(ServerStep)

-----------------------------------------------------------------------------
\* The usual type invariant; no more bytes are expected than a length can say.
TypeOK ==
  /\ cpc \in {"request", "name", "textlength", "text", "decide", "blocksize", "copy", "failed"}
  /\ spc \in {"length", "name", "open", "ack1", "ack2", "scan", "exited"}
  /\ directory \in Directories /\ path \in Directories \cup {NoDirectory}
  /\ block_size \in BlockSizes \cup {0} /\ server_block_size \in BlockSizes
  /\ c_length \in 0 .. MaxLength /\ s_length \in 0 .. MaxLength
  /\ {<<toServer[i][1], toServer[i][3]>> : i \in DOMAIN toServer}
       \subseteq {"length", "name", "ack"} \X Nat

\* When the thread begins to scan, it scans what the client has asked for, the
\* client has its block size, and no byte of the exchange is left to be taken
\* for the metadata of a file or for an ACK (Client.c:41-49, Server.c:43-53).
AgreeBeforeScan ==
  spc = "scan" =>
    /\ path = directory /\ cpc = "copy" /\ block_size = server_block_size
    /\ toServer = <<>> /\ toClient = <<>>

\* A client copies only after the server has said that it has its directory,
\* never by falling through both comparisons (Client.c:36-54).
CopiesOnlyConfirmed == cpc = "copy" => path = directory /\ directory \in Valid

\* A client that asks for a directory that exists gets to copying it, and the
\* server to scanning it.
ValidRequestsServed ==
  directory \in Valid ~> spc = "scan" /\ cpc = "copy" /\ block_size = server_block_size
=============================================================================
