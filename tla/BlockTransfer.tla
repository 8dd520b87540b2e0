---------------------------- MODULE BlockTransfer ----------------------------
(***************************************************************************)
(* The content of files on one connection: the block loops of              *)
(* Server_Send_Files_to_Client (Server.c:330-345) and Client_CopyFiles     *)
(* (Client.c:102-118), which know of each other only the size in the       *)
(* metadata.  The workers that send the files of one client follow each    *)
(* other under the mutex of the socket, so they are one server here.       *)
(*                                                                         *)
(* The server cuts every file into blocks of -b bytes; the client starts   *)
(* with the same block size but lowers it for the last block of a file     *)
(* and keeps the lower value for the files after it.  A size is off_t on   *)
(* disk, uint32_t on the wire and in the server's loop, int in the         *)
(* client's.                                                               *)
(*                                                                         *)
(* The connection is a stream, of which only positions matter: the         *)
(* metadata of a file counts as one byte, and log records where it is and  *)
(* what it says.                                                           *)
(***************************************************************************)
EXTENDS Integers, Sequences

CONSTANTS
  Half,       \* 2^31: ints are -Half .. Half - 1, uint32_t 0 .. 2 * Half - 1
  BlockSize,  \* the server's -b, as the handshake tells the client
  FileSizes,  \* sizes that files may have on disk
  MaxFiles,   \* bound on the files sent
  Unstable    \* may files shrink or vanish between stat(2) and read(2)?

ASSUME SizesAssumption ==
  /\ Half \in Nat \ {0}
  /\ BlockSize \in 1 .. Half - 1
  /\ FileSizes \subseteq Nat
  /\ MaxFiles \in Nat
  /\ Unstable \in BOOLEAN

VARIABLES
  spc, bytes_to_send, server_block_size,  \* server: control point and loop
  cpc, bytes_to_recv, block_size,         \* client: control point and loop
  written, consumed,                      \* positions in the stream
  log,                                    \* metadata written, with the size on disk
  bytes, copies                           \* bytes of the open copy; sizes of those closed

serverVars == <<spc, bytes_to_send, server_block_size, written, log>>
clientVars == <<cpc, bytes_to_recv, block_size, consumed, bytes, copies>>
vars == <<serverVars, clientVars>>

Modulus == 2 * Half

\* Conversions between off_t, uint32_t and int.
ToUnsigned(x) == x % Modulus
ToInt(u) == IF u >= Half THEN u - Modulus ELSE u

Init ==
  /\ spc = "idle" /\ bytes_to_send = 0 /\ server_block_size = BlockSize
  /\ cpc = "meta" /\ bytes_to_recv = 0 /\ block_size = BlockSize
  /\ written = 0 /\ consumed = 0
  /\ log = <<>> /\ bytes = 0 /\ copies = <<>>

-----------------------------------------------------------------------------
(* Server *)

\* A faulty server that counts in int and drops the sign.
SendMetaData31(size) ==
  /\ spc = "idle" /\ Len(log) < MaxFiles
  /\ log' = Append(log, [at |-> written, announced |-> size % Half, disk |-> size])
  /\ written' = written + 1
  /\ bytes_to_send' = size % Half
  /\ server_block_size' = BlockSize
  /\ spc' = "send"
  /\ UNCHANGED clientVars

\* Server_Send_FileMetaData: the size on disk is cut to 32 bits.
SendMetaData(size) ==
  /\ spc = "idle" /\ Len(log) < MaxFiles
  /\ log' = Append(log, [at |-> written, announced |-> ToUnsigned(size), disk |-> size])
  /\ written' = written + 1
  /\ bytes_to_send' = ToUnsigned(size)
  /\ server_block_size' = BlockSize
  /\ spc' = "send"
  /\ UNCHANGED clientVars

SendBlock ==
  /\ spc = "send" /\ bytes_to_send # 0
  /\ server_block_size' = IF bytes_to_send < server_block_size
                          THEN bytes_to_send ELSE server_block_size
  /\ written' = written + server_block_size'
  /\ bytes_to_send' = bytes_to_send - server_block_size'
  /\ UNCHANGED <<spc, log, clientVars>>

\* close(file_fd), and on to the next entry of this client.
FileSent ==
  /\ spc = "send" /\ bytes_to_send = 0
  /\ spc' = "idle"
  /\ UNCHANGED <<bytes_to_send, server_block_size, written, log, clientVars>>

\* The file does not open any more, and Print_Error ends the server, or it has
\* fewer bytes than stat(2) said, and Receive_Data reads 0 bytes for ever.
FileChanged ==
  /\ Unstable
  /\ spc = "send"
  /\ bytes_to_send # 0 \/ log[Len(log)].announced = 0
  /\ spc' = "stopped"
  /\ UNCHANGED <<bytes_to_send, server_block_size, written, log, clientVars>>

-----------------------------------------------------------------------------
(* Client *)

\* What the client reads at its position: metadata, or garbage if there is none.
SizeRead(u) ==
  IF \E i \in 1 .. Len(log) : log[i].at = consumed
  THEN \E i \in 1 .. Len(log) : log[i].at = consumed /\ u = log[i].announced
  ELSE u \in 0 .. Modulus - 1

ReadMetaData ==
  /\ cpc = "meta" /\ consumed < written
  /\ \E u \in 0 .. Modulus - 1 : SizeRead(u) /\ bytes_to_recv' = ToInt(u)
  /\ consumed' = consumed + 1
  /\ bytes' = 0
  /\ cpc' = "recv"
  /\ UNCHANGED <<block_size, copies, serverVars>>

\* A comparison of ints: a negative number would be the smaller one.
LessThanBlockSigned(x) == x < block_size

\* bytes_to_recv < block_size compares as size_t: a negative int is huge.
LessThanBlock(x) == 0 <= x /\ x < block_size

\* A faulty client that always reads whole blocks.
ReadWholeBlock ==
  /\ cpc = "recv" /\ bytes_to_recv # 0
  /\ block_size' = block_size
  /\ consumed + block_size' <= written
  /\ consumed' = consumed + block_size'
  /\ bytes' = bytes + block_size'
  /\ bytes_to_recv' = ToInt(ToUnsigned(bytes_to_recv - block_size'))
  /\ UNCHANGED <<cpc, copies, serverVars>>

\* Receive_Data waits for a whole block, Send_Data writes it to the copy.
ReadBlock ==
  /\ cpc = "recv" /\ bytes_to_recv # 0
  /\ block_size' = IF LessThanBlock(bytes_to_recv) THEN bytes_to_recv ELSE block_size
  /\ consumed + block_size' <= written
  /\ consumed' = consumed + block_size'
  /\ bytes' = bytes + block_size'
  /\ bytes_to_recv' = ToInt(ToUnsigned(bytes_to_recv - block_size'))
  /\ UNCHANGED <<cpc, copies, serverVars>>

FileReceived ==
  /\ cpc = "recv" /\ bytes_to_recv = 0
  /\ copies' = Append(copies, bytes)
  /\ cpc' = "meta"
  /\ UNCHANGED <<bytes_to_recv, block_size, consumed, bytes, serverVars>>

ServerStep == (\E size \in FileSizes : SendMetaData(size)) \/ SendBlock \/ FileSent \/ FileChanged
ClientStep == ReadMetaData \/ ReadBlock \/ FileReceived

Next == ServerStep \/ ClientStep
Spec == Init /\ [][Next]_vars
FairSpec == Spec /\ WF_vars(SendBlock) /\ WF_vars(FileSent) /\ WF_vars(ClientStep)

-----------------------------------------------------------------------------
Entries == [at : Nat, announced : 0 .. Modulus - 1, disk : FileSizes]

\* The usual type invariant; in particular no block is empty, and none is
\* larger than the buffers allocated for BlockSize bytes.
TypeOK ==
  /\ spc \in {"idle", "send", "stopped"} /\ cpc \in {"meta", "recv"}
  /\ bytes_to_send \in 0 .. Modulus - 1 /\ bytes_to_recv \in -Half .. Half - 1
  /\ server_block_size \in 1 .. BlockSize /\ block_size \in 1 .. BlockSize
  /\ written \in Nat /\ consumed \in 0 .. written
  /\ log \in Seq(Entries) /\ bytes \in Nat /\ copies \in Seq(Nat)

\* The client reads metadata exactly where the server wrote it, however far
\* its block size has drifted from the server's (Client.c:107-108,
\* Server.c:334-335), and whatever int makes of a size of 2 GB or more
\* (Client.c:102): it takes neither content for metadata nor the reverse.
InSync ==
  cpc = "meta" =>
    IF Len(copies) < Len(log)
    THEN consumed = log[Len(copies) + 1].at
    ELSE consumed = written

\* A copy that the client has closed is as long as the file was, if that is
\* less than 4 GB (Client.c:105-120), even when the file shrinks or vanishes
\* while it is sent: such a copy is never closed.
CopiesComplete ==
  /\ Len(copies) <= Len(log)
  /\ \A i \in 1 .. Len(copies) : log[i].disk < Modulus => copies[i] = log[i].disk

\* Every file whose metadata was sent is copied, unless the server stops over a
\* file that has changed: neither loop gets stuck waiting for a byte that the
\* other one does not count (Server.c:332-345, Client.c:105-118).
EveryFileCopied ==
  \A n \in 1 .. MaxFiles : Len(log) >= n ~> Len(copies) >= n \/ spc = "stopped"
=============================================================================
