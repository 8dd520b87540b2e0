------------------------- MODULE BlockTransferProofs -------------------------
(***************************************************************************)
(* The block loops stay in step for every int width, block size, set of    *)
(* file sizes and number of files.                                         *)
(*                                                                         *)
(* The invariant ties both loops to the log.  The server's says where the  *)
(* file it sends will end in the stream; the client's says how many bytes  *)
(* it still expects, Left, whether its int is negative or not.             *)
(***************************************************************************)
EXTENDS BlockTransfer, TLAPS

EndOf(i) == log[i].at + 1 + log[i].announced
StartOf(i) == IF i = 1 THEN 0 ELSE EndOf(i - 1)

\* Entries lie in the stream one behind the other.
LogInOrder ==
  \A i \in 1 .. Len(log) :
    /\ log[i].at = StartOf(i)
    /\ log[i].announced = ToUnsigned(log[i].disk)
    /\ \A j \in 1 .. Len(log) : i < j => EndOf(i) <= log[j].at

ServerInStep ==
  /\ spc = "idle" => written = StartOf(Len(log) + 1)
  /\ spc # "idle" => Len(log) > 0 /\ written + bytes_to_send = EndOf(Len(log))

\* The client's int taken for the number of bytes it stands for.
LeftOf(x) == IF x < 0 THEN x + Modulus ELSE x
Left == LeftOf(bytes_to_recv)

ClientInStep ==
  /\ Len(copies) <= Len(log)
  /\ \A i \in 1 .. Len(copies) : copies[i] = log[i].announced
  /\ cpc = "meta" => consumed = StartOf(Len(copies) + 1)
  /\ cpc = "recv" =>
       /\ Len(copies) < Len(log)
       /\ consumed + Left = EndOf(Len(copies) + 1)
       /\ bytes + Left = log[Len(copies) + 1].announced

BlockInv == TypeOK /\ LogInOrder /\ ServerInStep /\ ClientInStep

-----------------------------------------------------------------------------
\* The conversions of 32-bit numbers: a number in range is kept, a negative
\* one that is not too small is moved into range (Server.c:291, Client.c:102).
LEMMA UnsignedInRange ==
  ASSUME NEW x \in 0 .. Modulus - 1
  PROVE  ToUnsigned(x) = x
<1> x \in Nat /\ Modulus \in Nat \ {0} /\ x < Modulus
  BY SizesAssumption DEF Modulus
<1> HIDE DEF Modulus
<1> QED BY DEF ToUnsigned

LEMMA UnsignedOfNegative ==
  ASSUME NEW x \in -Modulus .. -1
  PROVE  ToUnsigned(x) = x + Modulus
<1> x \in Int /\ Modulus \in Nat \ {0} /\ x < 0 /\ 0 <= x + Modulus
  BY SizesAssumption DEF Modulus
<1> HIDE DEF Modulus
<1> QED BY DEF ToUnsigned

LEMMA UnsignedType ==
  ASSUME NEW x \in Int
  PROVE  ToUnsigned(x) \in 0 .. Modulus - 1
<1> Modulus \in Nat \ {0}
  BY SizesAssumption DEF Modulus
<1> HIDE DEF Modulus
<1> QED BY DEF ToUnsigned

-----------------------------------------------------------------------------
LEMMA LeftOfInt ==
  ASSUME NEW u \in 0 .. Modulus - 1
  PROVE  ToInt(u) \in -Half .. Half - 1 /\ LeftOf(ToInt(u)) = u
<1>1. Half \in Nat /\ Modulus = Half + Half /\ u \in Nat /\ u < Modulus
  BY SizesAssumption DEF Modulus
<1>2. CASE u >= Half
  BY <1>1, <1>2 DEF ToInt, LeftOf
<1>3. CASE u < Half
  BY <1>1, <1>3 DEF ToInt, LeftOf
<1> QED BY <1>1, <1>2, <1>3

\* One turn of the client's loop on its int x, with block size y, in which it
\* reads z bytes: never more than are left, and then z fewer are left.
LEMMA BlockArithmetic ==
  ASSUME NEW x \in -Half .. Half - 1, x # 0,
         NEW y \in 1 .. Half - 1,
         NEW z, z = IF 0 <= x /\ x < y THEN x ELSE y
  PROVE  /\ z \in 1 .. y /\ z <= LeftOf(x) /\ LeftOf(x) \in Nat
         /\ ToInt(ToUnsigned(x - z)) \in -Half .. Half - 1
         /\ LeftOf(ToInt(ToUnsigned(x - z))) = LeftOf(x) - z
<1>1. /\ Half \in Nat /\ Half > 0 /\ Modulus = Half + Half
      /\ x \in Int /\ y \in Int /\ z \in Int
      /\ -Half <= x /\ x < Half /\ 1 <= y /\ y < Half
  BY SizesAssumption DEF Modulus
<1>2. CASE x > 0
  <2>1. 1 <= z /\ z <= y /\ z <= x
    BY <1>1, <1>2
  <2>2. x - z \in 0 .. Modulus - 1 /\ x - z < Half
    BY <1>1, <2>1
  <2>3. ToInt(ToUnsigned(x - z)) = x - z
    BY <1>1, <2>2, UnsignedInRange DEF ToInt
  <2> QED BY <1>1, <1>2, <2>1, <2>2, <2>3 DEF LeftOf
<1>3. CASE x < 0
  <2>1. z = y /\ z \in Int
    BY <1>1, <1>3
  <2>2. x - z \in -Modulus .. -1 /\ x - z + Modulus \in Nat
    BY <1>1, <1>3, <2>1
  <2>3. ToInt(ToUnsigned(x - z)) = ToInt(x - z + Modulus)
    BY <2>2, UnsignedOfNegative
  <2>4. CASE x - z + Modulus >= Half
    <3>1. ToInt(ToUnsigned(x - z)) = x - z
      BY <1>1, <2>1, <2>3, <2>4 DEF ToInt
    <3> QED BY <1>1, <1>3, <2>1, <2>2, <2>4, <3>1 DEF LeftOf
  <2>5. CASE x - z + Modulus < Half
    <3>1. ToInt(ToUnsigned(x - z)) = x - z + Modulus
      BY <1>1, <2>1, <2>3, <2>5 DEF ToInt
    <3> QED BY <1>1, <1>3, <2>1, <2>2, <2>5, <3>1 DEF LeftOf
  <2> QED BY <1>1, <2>1, <2>4, <2>5
<1> QED BY <1>1, <1>2, <1>3

\* Where the log is only read, its part of the invariant stays.
LEMMA LogKept ==
  ASSUME BlockInv, UNCHANGED log
  PROVE  /\ LogInOrder'
         /\ \A i \in Nat : EndOf(i)' = EndOf(i) /\ StartOf(i)' = StartOf(i)
BY DEF BlockInv, LogInOrder, EndOf, StartOf

LEMMA EntryType ==
  ASSUME BlockInv, NEW i \in 1 .. Len(log)
  PROVE  /\ log[i].at \in Nat /\ log[i].announced \in Nat
         /\ EndOf(i) \in Nat /\ log[i].at < EndOf(i) /\ log[i].at <= EndOf(i)
<1>1. log[i] \in Entries
  BY DEF BlockInv, TypeOK
<1>2. Modulus \in Nat
  BY SizesAssumption DEF Modulus
<1>3. log[i].at \in Nat /\ log[i].announced \in Nat
  BY <1>1, <1>2 DEF Entries
<1> QED BY <1>3 DEF EndOf

\* Whatever the client has not consumed was written: past the last entry
\* there is nothing to read.
LEMMA WrittenUpToEnd ==
  ASSUME BlockInv
  PROVE  /\ written <= StartOf(Len(log) + 1)
         /\ StartOf(Len(log) + 1) \in Nat
<1>1. /\ Len(log) \in Nat /\ bytes_to_send \in Nat /\ written \in Nat
      /\ \A i \in 1 .. Len(log) : log[i].at \in Nat /\ log[i].announced \in Nat
  BY EntryType, SizesAssumption DEF BlockInv, TypeOK, Modulus
<1>2. CASE spc = "idle"
  BY <1>1, <1>2 DEF BlockInv, ServerInStep
<1>3. CASE spc # "idle"
  <2>1. StartOf(Len(log) + 1) = EndOf(Len(log)) /\ Len(log) \in 1 .. Len(log)
    BY <1>1, <1>3 DEF BlockInv, ServerInStep, StartOf
  <2> QED BY <1>1, <1>3, <2>1 DEF BlockInv, ServerInStep, EndOf
<1> QED BY <1>2, <1>3

LEMMA SendMetaDataStep ==
  ASSUME BlockInv, NEW size \in FileSizes, SendMetaData(size)
  PROVE  BlockInv'
<1> DEFINE entry == [at |-> written, announced |-> ToUnsigned(size), disk |-> size]
           n == Len(log)
<1>1. /\ n \in Nat /\ log \in Seq(Entries) /\ written \in Nat /\ consumed \in 0 .. written
      /\ entry \in Entries /\ ToUnsigned(size) \in 0 .. Modulus - 1
  BY SizesAssumption, UnsignedType DEF BlockInv, TypeOK, Entries
<1>2. /\ log' = Append(log, entry) /\ Len(log') = n + 1 /\ log' \in Seq(Entries)
      /\ log'[n + 1] = entry
      /\ \A i \in 1 .. n : log'[i] = log[i]
  BY <1>1 DEF SendMetaData
<1> HIDE DEF entry
<1>3. /\ entry.at = written /\ entry.announced = ToUnsigned(size) /\ entry.disk = size
  BY DEF entry
<1>4. TypeOK'
  <2>1. /\ spc' = "send" /\ server_block_size' = BlockSize /\ written' = written + 1
        /\ bytes_to_send' = ToUnsigned(size)
        /\ UNCHANGED <<cpc, bytes_to_recv, block_size, consumed, bytes, copies>>
    BY DEF SendMetaData, clientVars
  <2>2. written' \in Nat /\ consumed' \in 0 .. written' /\ server_block_size' \in 1 .. BlockSize
    BY <1>1, <2>1, SizesAssumption
  <2> QED BY <1>1, <1>2, <2>1, <2>2 DEF BlockInv, TypeOK
<1>5. /\ \A i \in 1 .. n : EndOf(i)' = EndOf(i)
      /\ \A i \in 1 .. n + 1 : StartOf(i)' = StartOf(i)
  BY <1>1, <1>2 DEF EndOf, StartOf
<1>6. StartOf(n + 1) = written
  BY DEF BlockInv, ServerInStep, SendMetaData
<1>7. \A i \in 1 .. n : EndOf(i) <= written
  <2> SUFFICES ASSUME NEW i \in 1 .. n PROVE EndOf(i) <= written
    OBVIOUS
  <2>1. EndOf(n) = written /\ n \in 1 .. n
    BY <1>1, <1>6 DEF StartOf
  <2>2. CASE i = n
    BY <1>1, <2>1, <2>2
  <2>3. CASE i < n
    <3>1. EndOf(i) <= log[n].at
      BY <2>1, <2>3 DEF BlockInv, LogInOrder
    <3>2. log[n].at \in Nat /\ log[n].at <= EndOf(n) /\ EndOf(i) \in Nat
      BY <2>1, EntryType
    <3> QED BY <1>1, <2>1, <3>1, <3>2
  <2> QED BY <1>1, <2>2, <2>3
<1>8. LogInOrder'
  <2> SUFFICES ASSUME NEW i \in 1 .. n + 1
               PROVE  /\ log'[i].at = StartOf(i)'
                      /\ log'[i].announced = ToUnsigned(log'[i].disk)
                      /\ \A j \in 1 .. n + 1 : i < j => EndOf(i)' <= log'[j].at
    BY <1>2 DEF LogInOrder, ToUnsigned, Modulus
  <2>1. CASE i = n + 1
    <3>1. log'[i] = entry /\ StartOf(i)' = written /\ \A j \in 1 .. n + 1 : ~ (i < j)
      BY <1>1, <1>2, <1>5, <1>6, <2>1
    <3> QED BY <1>3, <3>1
  <2>2. CASE i \in 1 .. n
    <3>1. /\ log'[i] = log[i] /\ StartOf(i)' = StartOf(i) /\ EndOf(i)' = EndOf(i)
          /\ log[i].at = StartOf(i) /\ log[i].announced = ToUnsigned(log[i].disk)
          /\ \A j \in 1 .. n : i < j => EndOf(i) <= log[j].at
      BY <1>1, <1>2, <1>5, <2>2 DEF BlockInv, LogInOrder
    <3>2. EndOf(i)' <= log'[n + 1].at
      BY <1>2, <1>3, <1>7, <2>2, <3>1
    <3>3. \A j \in 1 .. n : i < j => EndOf(i)' <= log'[j].at
      BY <1>2, <3>1
    <3>4. \A j \in 1 .. n + 1 : j \in 1 .. n \/ j = n + 1
      BY <1>1
    <3> QED BY <3>1, <3>2, <3>3, <3>4
  <2> QED BY <1>1, <2>1, <2>2
<1>9. ServerInStep'
  BY <1>1, <1>2, <1>3 DEF ServerInStep, EndOf, SendMetaData
<1>10. ClientInStep'
  <2>1. UNCHANGED <<cpc, consumed, copies, bytes, Left>>
    BY DEF SendMetaData, clientVars, Left
  <2>2. Len(copies) \in 0 .. n
    BY <1>1 DEF BlockInv, ClientInStep, TypeOK
  <2> QED BY <1>1, <1>2, <1>5, <2>1, <2>2 DEF BlockInv, ClientInStep
<1> QED BY <1>4, <1>8, <1>9, <1>10 DEF BlockInv

\* The other steps of the server leave the log alone.
LEMMA ServerStepInv ==
  ASSUME BlockInv, ServerStep
  PROVE  BlockInv'
<1>1. CASE \E size \in FileSizes : SendMetaData(size)
  BY <1>1, SendMetaDataStep
<1> SUFFICES ASSUME SendBlock \/ FileSent \/ FileChanged PROVE BlockInv'
  BY <1>1 DEF ServerStep
<1>2. /\ server_block_size \in 1 .. BlockSize /\ BlockSize \in Nat
      /\ bytes_to_send \in Nat /\ bytes_to_send < Modulus /\ Modulus \in Nat
      /\ written \in Nat /\ consumed \in 0 .. written
  BY SizesAssumption DEF BlockInv, TypeOK, Modulus
<1>3. UNCHANGED <<log, cpc, bytes_to_recv, block_size, consumed, bytes, copies>>
  BY DEF SendBlock, FileSent, FileChanged, clientVars
<1>4. Len(log) > 0 => EndOf(Len(log)) \in Nat /\ StartOf(Len(log) + 1) = EndOf(Len(log))
  <2>1. Len(log) \in Nat
    BY DEF BlockInv, TypeOK
  <2> QED BY <2>1, EntryType DEF EndOf, StartOf
<1>5. LogInOrder' /\ UNCHANGED <<Left, EndOf(Len(log)), StartOf(Len(log) + 1)>>
  BY <1>3, LogKept DEF Left, EndOf, StartOf
<1>6. /\ written' \in Nat /\ consumed \in 0 .. written'
      /\ bytes_to_send' \in 0 .. Modulus - 1
      /\ server_block_size' \in 1 .. BlockSize
      /\ written' + bytes_to_send' = written + bytes_to_send
  BY <1>2 DEF SendBlock, FileSent, FileChanged
<1>7. TypeOK'
  BY <1>3, <1>6 DEF BlockInv, TypeOK, Entries, SendBlock, FileSent, FileChanged
<1>8. ServerInStep'
  <2>1. spc = "send" /\ Len(log) > 0 /\ written' + bytes_to_send' = EndOf(Len(log))
    BY <1>6 DEF BlockInv, ServerInStep, SendBlock, FileSent, FileChanged
  <2>2. EndOf(Len(log))' = EndOf(Len(log)) /\ Len(log') = Len(log)
    BY <1>3, <1>5
  <2>3. ASSUME spc' = "idle" PROVE written' = StartOf(Len(log) + 1)'
    <3>1. FileSent
      BY <2>1, <2>3 DEF SendBlock, FileSent, FileChanged
    <3>2. bytes_to_send' = 0 /\ written' \in Nat
      BY <1>6, <3>1 DEF FileSent
    <3> QED BY <1>4, <1>5, <2>1, <3>2
  <2> QED BY <2>1, <2>2, <2>3 DEF ServerInStep
<1>9. ClientInStep'
  BY <1>3 DEF BlockInv, ClientInStep, Left, EndOf, StartOf
<1> QED BY <1>5, <1>7, <1>8, <1>9 DEF BlockInv

\* The client finds metadata, and the entry after those it has copied.
LEMMA ReadMetaDataStep ==
  ASSUME BlockInv, ReadMetaData
  PROVE  BlockInv'
<1> DEFINE k == Len(copies) + 1
<1>1. /\ Len(log) \in Nat /\ k \in 1 .. Len(log) + 1
      /\ consumed = StartOf(k) /\ consumed \in Nat /\ written \in Nat /\ consumed < written
  BY DEF BlockInv, TypeOK, ClientInStep, ReadMetaData
<1>2. k \in 1 .. Len(log)
  BY <1>1, WrittenUpToEnd
<1>3. /\ log[k].at = consumed
      /\ \A i \in 1 .. Len(log) : i # k => log[i].at # consumed
  <2>1. log[k].at = consumed
    BY <1>1, <1>2 DEF BlockInv, LogInOrder
  <2> SUFFICES ASSUME NEW i \in 1 .. Len(log), i # k PROVE log[i].at # consumed
    BY <2>1
  <2>2. CASE i < k
    <3>1. EndOf(i) <= log[k].at
      BY <1>2, <2>2 DEF BlockInv, LogInOrder
    <3> QED BY <2>1, <3>1, EntryType, <1>2
  <2>3. CASE k < i
    <3>1. EndOf(k) <= log[i].at
      BY <1>2, <2>3 DEF BlockInv, LogInOrder
    <3> QED BY <2>1, <3>1, EntryType, <1>2
  <2> QED BY <1>1, <2>2, <2>3
<1>4. bytes_to_recv' = ToInt(log[k].announced)
  BY <1>2, <1>3 DEF ReadMetaData, SizeRead
<1>5. log[k].announced \in 0 .. Modulus - 1
  <2>1. log[k] \in Entries
    BY <1>2 DEF BlockInv, TypeOK
  <2> QED BY <2>1 DEF Entries
<1>6. bytes_to_recv' \in -Half .. Half - 1 /\ Left' = log[k].announced
  BY <1>4, <1>5, LeftOfInt DEF Left
<1>7. TypeOK'
  <2>1. /\ consumed' = consumed + 1 /\ bytes' = 0 /\ cpc' = "recv"
        /\ UNCHANGED <<block_size, copies, spc, bytes_to_send, server_block_size, written, log>>
    BY DEF ReadMetaData, serverVars
  <2>2. consumed' \in 0 .. written
    BY <1>1, <2>1
  <2> QED BY <1>6, <2>1, <2>2 DEF BlockInv, TypeOK
<1>8. LogInOrder' /\ ServerInStep'
  BY LogKept DEF BlockInv, ServerInStep, ReadMetaData, serverVars, EndOf, StartOf
<1>9. ClientInStep'
  <2>1. /\ consumed' = consumed + 1 /\ bytes' = 0 /\ cpc' = "recv"
        /\ UNCHANGED <<log, copies>>
    BY DEF ReadMetaData, serverVars
  <2>2. EndOf(k)' = consumed + 1 + log[k].announced
    BY <1>3, <2>1 DEF EndOf
  <2>3. k \in Nat /\ Len(copies) <= Len(log) /\ Len(copies) < Len(log)
    BY <1>1, <1>2 DEF BlockInv, ClientInStep
  <2>4. \A i \in 1 .. Len(copies) : copies[i] = log[i].announced
    BY DEF BlockInv, ClientInStep
  <2>5. consumed' + Left' = EndOf(k)' /\ bytes' + Left' = log[k].announced
    BY <1>1, <1>5, <1>6, <2>1, <2>2, SizesAssumption DEF Modulus
  <2> QED BY <2>1, <2>3, <2>4, <2>5 DEF ClientInStep
<1> QED BY <1>7, <1>8, <1>9 DEF BlockInv

\* A block is never longer than what is left, and what is left of a negative
\* int is more than a block.
LEMMA ReadBlockStep ==
  ASSUME BlockInv, ReadBlock
  PROVE  BlockInv'
<1> DEFINE k == Len(copies) + 1
<1>1. /\ Half \in Nat \ {0} /\ BlockSize \in 1 .. Half - 1
      /\ block_size \in 1 .. BlockSize /\ bytes_to_recv \in -Half .. Half - 1
      /\ bytes_to_recv # 0 /\ cpc = "recv"
      /\ consumed \in Nat /\ written \in Nat /\ bytes \in Nat
  BY SizesAssumption DEF BlockInv, TypeOK, ReadBlock
<1>2. /\ block_size' \in 1 .. block_size /\ Left \in Nat /\ block_size' <= Left
      /\ bytes_to_recv' \in -Half .. Half - 1 /\ Left' = Left - block_size'
  <2> DEFINE z == block_size'
  <2>1. z = IF 0 <= bytes_to_recv /\ bytes_to_recv < block_size THEN bytes_to_recv ELSE block_size
    BY DEF ReadBlock, LessThanBlock
  <2>2. block_size \in 1 .. Half - 1
    BY <1>1
  <2>3. /\ z \in 1 .. block_size /\ z <= LeftOf(bytes_to_recv) /\ LeftOf(bytes_to_recv) \in Nat
        /\ ToInt(ToUnsigned(bytes_to_recv - z)) \in -Half .. Half - 1
        /\ LeftOf(ToInt(ToUnsigned(bytes_to_recv - z))) = LeftOf(bytes_to_recv) - z
    BY <1>1, <2>1, <2>2, BlockArithmetic
  <2> QED BY <2>3 DEF ReadBlock, Left
<1>3. /\ block_size' \in 1 .. BlockSize /\ block_size' \in Nat
      /\ consumed + block_size' \in Nat /\ bytes + block_size' \in Nat
  <2>1. BlockSize \in Nat
    BY SizesAssumption
  <2>2. block_size \in 1 .. BlockSize /\ block_size' \in 1 .. block_size
    BY <1>1, <1>2
  <2>3. block_size' \in 1 .. BlockSize /\ block_size' \in Nat
    BY <2>1, <2>2
  <2>4. consumed \in Nat /\ bytes \in Nat
    BY <1>1
  <2>5. consumed + block_size' \in Nat /\ bytes + block_size' \in Nat
    <3>1. \A x, y \in Nat : x + y \in Nat
      OBVIOUS
    <3> QED BY <2>3, <2>4, <3>1
  <2> QED BY <2>3, <2>5
<1>4. /\ consumed' = consumed + block_size' /\ bytes' = bytes + block_size'
      /\ consumed' <= written
      /\ UNCHANGED <<cpc, copies, serverVars>>
  BY DEF ReadBlock
<1>5. TypeOK'
  <2>1. /\ consumed' \in 0 .. written /\ bytes' \in Nat
        /\ block_size' \in 1 .. BlockSize
    <3>1. consumed' \in Nat /\ consumed' <= written /\ written \in Nat
      BY <1>1, <1>3, <1>4
    <3>2. consumed' \in 0 .. written
      BY <3>1
    <3> QED BY <1>3, <1>4, <3>2
  <2> QED BY <1>2, <1>4, <2>1 DEF BlockInv, TypeOK, Entries, serverVars
<1>6. LogInOrder' /\ ServerInStep'
  BY <1>4, LogKept DEF BlockInv, ServerInStep, serverVars, EndOf, StartOf
<1>7. ClientInStep'
  <2>1. EndOf(k)' = EndOf(k) /\ UNCHANGED log
    BY <1>4 DEF EndOf, serverVars
  <2>2. /\ Len(copies) <= Len(log) /\ Len(copies) < Len(log)
        /\ \A i \in 1 .. Len(copies) : copies[i] = log[i].announced
        /\ consumed + Left = EndOf(k) /\ bytes + Left = log[k].announced
    BY <1>1 DEF BlockInv, ClientInStep
  <2>3. consumed' + Left' = EndOf(k) /\ bytes' + Left' = log[k].announced
    <3>1. \A x, y, z \in Int : (x + z) + (y - z) = x + y
      OBVIOUS
    <3>2. consumed \in Int /\ bytes \in Int /\ Left \in Int /\ block_size' \in Int
      BY <1>1, <1>2, <1>3
    <3>3. consumed' + Left' = consumed + Left
      BY <1>2, <1>4, <3>1, <3>2
    <3>4. bytes' + Left' = bytes + Left
      BY <1>2, <1>4, <3>1, <3>2
    <3> QED BY <2>2, <3>3, <3>4
  <2> QED BY <1>1, <1>4, <2>1, <2>2, <2>3 DEF ClientInStep
<1> QED BY <1>5, <1>6, <1>7 DEF BlockInv

LEMMA FileReceivedStep ==
  ASSUME BlockInv, FileReceived
  PROVE  BlockInv'
<1> DEFINE k == Len(copies) + 1
<1>1. /\ copies \in Seq(Nat) /\ bytes \in Nat /\ consumed \in Nat /\ Left = 0
      /\ Len(copies) \in Nat /\ k \in 1 .. Len(log)
      /\ consumed = EndOf(k) /\ bytes = log[k].announced
  <2>1. /\ copies \in Seq(Nat) /\ bytes \in Nat /\ consumed \in Nat /\ Left = 0
        /\ Len(copies) \in Nat /\ Len(log) \in Nat
    BY DEF BlockInv, TypeOK, FileReceived, Left, LeftOf
  <2>2. Len(copies) < Len(log) /\ consumed + Left = EndOf(k) /\ bytes + Left = log[k].announced
    BY DEF BlockInv, ClientInStep, FileReceived
  <2>3. k \in 1 .. Len(log)
    BY <2>1, <2>2
  <2>4. EndOf(k) \in Nat /\ log[k].announced \in Nat
    BY <2>3, EntryType DEF EndOf
  <2> QED BY <2>1, <2>2, <2>3, <2>4
<1>2. /\ copies' = Append(copies, bytes) /\ cpc' = "meta"
      /\ UNCHANGED <<bytes_to_recv, block_size, consumed, bytes, serverVars>>
  BY DEF FileReceived
<1>3. /\ copies' \in Seq(Nat) /\ Len(copies') = k /\ copies'[k] = bytes
      /\ \A i \in 1 .. Len(copies) : copies'[i] = copies[i]
  BY <1>1, <1>2
<1>4. TypeOK'
  BY <1>2, <1>3 DEF BlockInv, TypeOK, Entries, serverVars
<1>5. LogInOrder' /\ ServerInStep'
  BY <1>2, LogKept DEF BlockInv, ServerInStep, serverVars, EndOf, StartOf
<1>6. ClientInStep'
  <2>1. UNCHANGED log
    BY <1>2 DEF serverVars
  <2>3. Len(copies') + 1 # 1 /\ Len(copies') + 1 - 1 = k
    BY <1>1, <1>3
  <2>4. StartOf(Len(copies) + 1)' = EndOf(k)
    BY <2>1, <2>3 DEF StartOf, EndOf
  <2>2. \A i \in 1 .. k : copies'[i] = log[i].announced
    <3> SUFFICES ASSUME NEW i \in 1 .. k PROVE copies'[i] = log[i].announced
      OBVIOUS
    <3>1. CASE i = k
      BY <1>1, <1>3, <3>1
    <3>2. CASE i \in 1 .. Len(copies)
      BY <1>3, <3>2 DEF BlockInv, ClientInStep
    <3> QED BY <1>1, <3>1, <3>2
  <2> QED BY <1>1, <1>2, <1>3, <2>1, <2>2, <2>4 DEF ClientInStep
<1> QED BY <1>4, <1>5, <1>6 DEF BlockInv

-----------------------------------------------------------------------------
LEMMA BlockInvInductive == Spec => []BlockInv
<1>1. Init => BlockInv
  BY SizesAssumption
  DEF Init, BlockInv, TypeOK, Entries, Modulus, LogInOrder, ServerInStep, ClientInStep, StartOf
<1>2. BlockInv /\ [Next]_vars => BlockInv'
  <2> SUFFICES ASSUME BlockInv, [Next]_vars PROVE BlockInv'
    OBVIOUS
  <2>1. CASE ServerStep
    BY <2>1, ServerStepInv
  <2>2. CASE ClientStep
    BY <2>2, ReadMetaDataStep, ReadBlockStep, FileReceivedStep DEF ClientStep
  <2>3. CASE UNCHANGED vars
    <3>1. LogInOrder'
      BY <2>3, LogKept DEF vars, serverVars
    <3> QED BY <2>3, <3>1 DEF BlockInv, TypeOK, Entries, ServerInStep, ClientInStep,
                             StartOf, EndOf, Left, vars, serverVars, clientVars
  <2> QED BY <2>1, <2>2, <2>3 DEF Next
<1> QED BY <1>1, <1>2, PTL DEF Spec

\* Types; in particular every block fits the buffers both sides allocate for
\* BlockSize bytes (Client.c:83, Server.c:315).
THEOREM TypeCorrect == Spec => []TypeOK
<1>1. BlockInv => TypeOK
  BY DEF BlockInv
<1> QED BY <1>1, BlockInvInductive, PTL

\* The client finds metadata where the server wrote it (Client.c:102-118,
\* Server.c:330-345), for every block size and sizes of any width.
THEOREM StaysInSync == Spec => []InSync
<1>1. BlockInv => InSync
  <2> SUFFICES ASSUME BlockInv, cpc = "meta"
               PROVE  IF Len(copies) < Len(log)
                      THEN consumed = log[Len(copies) + 1].at
                      ELSE consumed = written
    BY DEF InSync
  <2>1. /\ Len(copies) \in Nat /\ Len(log) \in Nat /\ Len(copies) <= Len(log)
        /\ consumed = StartOf(Len(copies) + 1) /\ consumed \in 0 .. written /\ written \in Nat
    BY DEF BlockInv, TypeOK, ClientInStep
  <2>2. CASE Len(copies) < Len(log)
    BY <2>1, <2>2 DEF BlockInv, LogInOrder
  <2>3. CASE Len(copies) = Len(log)
    BY <2>1, <2>3, WrittenUpToEnd
  <2> QED BY <2>1, <2>2, <2>3
<1> QED BY <1>1, BlockInvInductive, PTL

\* A copy that is closed is complete (Client.c:105-120), as long as 32 bits
\* hold the size of the file.
THEOREM ClosedCopiesComplete == Spec => []CopiesComplete
<1>1. BlockInv => CopiesComplete
  <2> SUFFICES ASSUME BlockInv, NEW i \in 1 .. Len(copies), log[i].disk < Modulus
               PROVE  copies[i] = log[i].disk
    BY DEF CopiesComplete, BlockInv, ClientInStep
  <2>1. i \in 1 .. Len(log) /\ Modulus \in Nat
    BY SizesAssumption DEF BlockInv, TypeOK, ClientInStep, Modulus
  <2>2. log[i] \in Entries
    BY <2>1 DEF BlockInv, TypeOK
  <2>3. log[i].disk \in 0 .. Modulus - 1
    <3>1. log[i].disk \in Nat
      BY <2>2, SizesAssumption DEF Entries
    <3> QED BY <2>1, <3>1
  <2>4. ToUnsigned(log[i].disk) = log[i].disk
    BY <2>3, UnsignedInRange
  <2> QED BY <2>1, <2>4 DEF BlockInv, ClientInStep, LogInOrder
<1> QED BY <1>1, BlockInvInductive, PTL
=============================================================================
