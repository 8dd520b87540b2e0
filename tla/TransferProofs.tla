---------------------------- MODULE TransferProofs ----------------------------
(***************************************************************************)
(* Send_Data and Receive_Data keep the boundaries of the messages, for any *)
(* sizes and any capacity, however their transfers are cut and whoever     *)
(* dies; and a message whose own transfers are whole arrives as it was.    *)
(*                                                                         *)
(* All bytes of all messages are numbered in the order in which they are   *)
(* to be sent.  The sender has put b of them into the connection, the      *)
(* receiver has taken a of them out, and the connection holds the ones in  *)
(* between.                                                                *)
(***************************************************************************)
EXTENDS Transfer, SequenceTheorems, NumberSets

Count == Len(Size)

\* The bytes before message m, and how many they are.
Before(m) == UNION {{j} \X (1 .. Size[j]) : j \in 1 .. m - 1}
Start(m) == Cardinality(Before(m))

Contents == Nat \X Nat

Types ==
  /\ spc \in {"idle", "loop", "dead", "killed"} /\ rpc \in {"idle", "loop", "dead"}
  /\ sent \in 0 .. Count
  /\ bytes_to_send \in Nat /\ copied \in 0 .. bytes_to_send /\ bytes_to_receive \in Nat
  /\ stream \in Seq((1 .. Count) \X Nat) /\ Len(stream) <= Capacity
  /\ delivered \in Seq(Seq(Contents)) /\ Len(delivered) <= Count
  /\ short \subseteq 1 .. Count

\* A dead sender died between two messages or in one.
SenderAt(b) ==
  \/ /\ spc \in {"idle", "dead"} /\ bytes_to_send = 0
     /\ b = Start(Sending)
  \/ /\ spc \in {"loop", "dead", "killed"} /\ Sending \in 1 .. Count
     /\ bytes_to_send <= Size[Sending]
     /\ b = Start(Sending) + (Size[Sending] - bytes_to_send) + copied
     /\ Sending \notin short => bytes_to_send \in {0, Size[Sending]}

ReceiverAt(a) ==
  \/ /\ rpc \in {"idle", "dead"}
     /\ a = Start(Receiving)
  \/ /\ rpc \in {"loop", "dead"} /\ Receiving \in 1 .. Count
     /\ bytes_to_receive <= Size[Receiving]
     /\ a = Start(Receiving) + (Size[Receiving] - bytes_to_receive)
     /\ buffer \in [1 .. Size[Receiving] -> Contents]
     /\ Receiving \notin short =>
          bytes_to_receive = Size[Receiving] \/ (bytes_to_receive = 0 /\ buffer = Message(Receiving))

\* Byte i of the connection is byte a + i of all.  It comes from its place in its
\* own message, or, when a transfer was cut, from an earlier one.
Wire(a) ==
  \A i \in 1 .. Len(stream) :
    LET m == stream[i][1]
        place == a + i - Start(m)
    IN  /\ place \in 1 .. Size[m]
        /\ stream[i][2] \in 1 .. place
        /\ m \notin short => stream[i][2] = place

Between ==
  \E a, b \in 0 .. Start(Count + 1) :
    ReceiverAt(a) /\ SenderAt(b) /\ b = a + Len(stream) /\ Wire(a)

Whole == \A m \in 1 .. Len(delivered) : m \notin short => delivered[m] = Message(m)

TransferInv == Types /\ Between /\ Whole

-----------------------------------------------------------------------------
(* Numbering the bytes *)

LEMMA SizeType ==
  /\ Count \in Nat /\ DOMAIN Size = 1 .. Count
  /\ \A m \in 1 .. Count : Size[m] \in Nat
<1>1. Size \in Seq(Nat)  BY TransferAssumption
<1>2. QED  BY <1>1, LenProperties, ElementOfSeq DEF Count

LEMMA BeforeNext ==
  ASSUME NEW m \in 1 .. Count
  PROVE  /\ Before(m + 1) = Before(m) \cup ({m} \X (1 .. Size[m]))
         /\ Before(m) \cap ({m} \X (1 .. Size[m])) = {}
<1>1. 1 .. m + 1 - 1 = (1 .. m - 1) \cup {m} /\ m \notin 1 .. m - 1
  BY SizeType
<1>2. QED  BY <1>1 DEF Before

LEMMA BeforeFinite ==
  ASSUME NEW m \in 1 .. Count + 1
  PROVE  IsFiniteSet(Before(m)) /\ Start(m) \in Nat
<1> DEFINE S == {k \in Nat : k < Count + 1 => IsFiniteSet(Before(k + 1))}
<1>1. 0 \in S
  <2>1. 1 .. 0 + 1 - 1 = {}  OBVIOUS
  <2>2. Before(0 + 1) = {}  BY <2>1 DEF Before
  <2>3. QED  BY <2>2, FS_EmptySet
<1>2. ASSUME NEW k \in Nat, k \in S  PROVE k + 1 \in S
  <2> SUFFICES ASSUME k + 1 < Count + 1  PROVE IsFiniteSet(Before(k + 1 + 1))
    OBVIOUS
  <2>1. k + 1 \in 1 .. Count /\ k < Count + 1  BY SizeType
  <2>2. IsFiniteSet(Before(k + 1))  BY <1>2, <2>1
  <2>3. IsFiniteSet({k + 1} \X (1 .. Size[k + 1]))
    <3>1. IsFiniteSet({k + 1})  BY FS_Singleton
    <3>2. IsFiniteSet(1 .. Size[k + 1])  BY <2>1, SizeType, FS_Interval
    <3>3. QED  BY <3>1, <3>2, FS_Product
  <2>4. Before(k + 1 + 1) = Before(k + 1) \cup ({k + 1} \X (1 .. Size[k + 1]))
    BY <2>1, BeforeNext
  <2>5. IsFiniteSet(Before(k + 1) \cup ({k + 1} \X (1 .. Size[k + 1])))
    BY <2>2, <2>3, FS_Union
  <2>6. QED  BY <2>4, <2>5
<1> HIDE DEF S
<1>3. Nat \subseteq S  BY <1>1, <1>2, NatSetInduction
<1>4. m - 1 \in Nat /\ m - 1 < Count + 1 /\ m - 1 + 1 = m  BY SizeType
<1>5. IsFiniteSet(Before(m))  BY <1>3, <1>4 DEF S
<1>6. QED  BY <1>5, FS_CardinalityType DEF Start

LEMMA StartNext ==
  ASSUME NEW m \in 1 .. Count
  PROVE  Start(m + 1) = Start(m) + Size[m]
<1> DEFINE new == {m} \X (1 .. Size[m])
<1>1. Size[m] \in Nat /\ m \in 1 .. Count + 1  BY SizeType
<1>2. IsFiniteSet(Before(m)) /\ Start(m) \in Nat  BY <1>1, BeforeFinite
<1>3. IsFiniteSet(new) /\ Cardinality(new) = Size[m]
  <2>1. IsFiniteSet({m}) /\ Cardinality({m}) = 1  BY FS_Singleton
  <2>2. IsFiniteSet(1 .. Size[m]) /\ Cardinality(1 .. Size[m]) = Size[m]
    <3>1. PICK k \in Nat : k = Size[m]  BY <1>1
    <3>2. IsFiniteSet(1 .. k) /\ Cardinality(1 .. k) = IF 1 > k THEN 0 ELSE k - 1 + 1
      BY FS_Interval
    <3>3. Cardinality(1 .. k) = k  BY <3>2
    <3>4. QED  BY <3>1, <3>2, <3>3
  <2>3. IsFiniteSet(new) /\ Cardinality(new) = Cardinality({m}) * Cardinality(1 .. Size[m])
    BY <2>1, <2>2, FS_Product
  <2>4. QED  BY <1>1, <2>1, <2>2, <2>3
<1>4. Before(m + 1) = Before(m) \cup new /\ Before(m) \cap new = {}  BY BeforeNext
<1> HIDE DEF new
<1>5. Cardinality(Before(m) \cup new)
        = Cardinality(Before(m)) + Cardinality(new) - Cardinality(Before(m) \cap new)
  BY <1>2, <1>3, FS_Union
<1>6. Cardinality(Before(m) \cap new) = 0  BY <1>4, FS_EmptySet
<1>7. Start(m + 1) = Start(m) + Size[m] - 0
  BY <1>3, <1>4, <1>5, <1>6, Zenon DEF Start
<1>8. QED  BY <1>1, <1>2, <1>7

LEMMA StartMonotonic ==
  ASSUME NEW m \in 1 .. Count + 1, NEW n \in 1 .. Count + 1, m <= n
  PROVE  Start(m) \in Nat /\ Start(n) \in Nat /\ Start(m) <= Start(n)
<1>1. Before(m) \subseteq Before(n)
  <2>1. 1 .. m - 1 \subseteq 1 .. n - 1  BY SizeType
  <2>2. QED  BY <2>1 DEF Before
<1>2. IsFiniteSet(Before(n))  BY BeforeFinite
<1>3. Cardinality(Before(m)) <= Cardinality(Before(n))  BY <1>1, <1>2, FS_Subset
<1>4. QED  BY <1>3, BeforeFinite DEF Start

\* A byte is of one message only.
LEMMA OneMessage ==
  ASSUME NEW m \in 1 .. Count, NEW n \in 1 .. Count, NEW p \in Nat,
         p - Start(m) \in 1 .. Size[m], p - Start(n) \in 1 .. Size[n]
  PROVE  m = n
<1>1. ASSUME NEW i \in 1 .. Count, NEW j \in 1 .. Count, i < j,
             p - Start(i) \in 1 .. Size[i], p - Start(j) \in 1 .. Size[j]
      PROVE  FALSE
  <2>1. i + 1 \in 1 .. Count + 1 /\ j \in 1 .. Count + 1 /\ i + 1 <= j /\ i \in 1 .. Count + 1
    BY <1>1, SizeType
  <2>2. Start(i + 1) \in Nat /\ Start(j) \in Nat /\ Start(i + 1) <= Start(j)
    BY <2>1, StartMonotonic
  <2>3. Start(i + 1) = Start(i) + Size[i] /\ Start(i) \in Nat /\ Size[i] \in Nat /\ Size[j] \in Nat
    BY <2>1, StartNext, BeforeFinite, SizeType
  <2>4. p - Start(i) <= Size[i] /\ p - Start(j) >= 1  BY <1>1, <2>2, <2>3
  <2>5. QED  BY <2>2, <2>3, <2>4
<1>2. m < n \/ n < m \/ m = n  BY SizeType
<1>3. QED  BY <1>1, <1>2

-----------------------------------------------------------------------------
(* What a step leaves alone *)

LEMMA SenderFrame ==
  ASSUME NEW b, SenderAt(b), UNCHANGED senderVars, short \subseteq short'
  PROVE  SenderAt(b)'
BY DEF SenderAt, senderVars, Sending

LEMMA ReceiverFrame ==
  ASSUME NEW a, ReceiverAt(a), UNCHANGED receiverVars, short \subseteq short'
  PROVE  ReceiverAt(a)'
BY DEF ReceiverAt, receiverVars, Receiving

LEMMA WireFrame ==
  ASSUME NEW a, Wire(a), UNCHANGED stream, short \subseteq short'
  PROVE  Wire(a)'
BY DEF Wire

LEMMA WholeFrame ==
  ASSUME Whole, UNCHANGED delivered, short \subseteq short'
  PROVE  Whole'
BY DEF Whole

-----------------------------------------------------------------------------
(* Steps of the sender *)

\* Steps that put no byte into the connection.
LEMMA QuietSenderStep ==
  ASSUME Types, Whole, NEW a \in 0 .. Start(Count + 1), NEW b \in 0 .. Start(Count + 1),
         ReceiverAt(a), SenderAt(b), b = a + Len(stream), Wire(a),
         UNCHANGED <<receiverVars, stream>>, short \subseteq short', Types', SenderAt(b)'
  PROVE  TransferInv'
<1>1. ReceiverAt(a)' /\ Wire(a)'  BY ReceiverFrame, WireFrame
<1>2. Whole'  BY WholeFrame DEF receiverVars
<1>3. QED  BY <1>1, <1>2 DEF TransferInv, Between

LEMMA CallSendStep ==
  ASSUME TransferInv, CallSend
  PROVE  TransferInv'
<1>1. PICK a \in 0 .. Start(Count + 1), b \in 0 .. Start(Count + 1) :
        ReceiverAt(a) /\ SenderAt(b) /\ b = a + Len(stream) /\ Wire(a)
  BY DEF TransferInv, Between
<1>2. Sending \in 1 .. Count /\ Size[Sending] \in Nat /\ Start(Sending) \in Nat
  <2>1. Sending \in 1 .. Count  BY SizeType DEF CallSend, Count, Sending, TransferInv, Types
  <2>2. Sending \in 1 .. Count + 1  BY <2>1, SizeType
  <2>3. QED  BY <2>1, <2>2, SizeType, BeforeFinite
<1>3. b = Start(Sending)  BY <1>1 DEF SenderAt, CallSend
<1>4. /\ spc' = "loop" /\ bytes_to_send' = Size[Sending] /\ copied' = 0 /\ sent' = sent
      /\ UNCHANGED <<receiverVars, stream, short>>
  BY DEF CallSend
<1>5. SenderAt(b)'
  <2>1. Sending' = Sending  BY <1>4 DEF Sending
  <2>2. b = Start(Sending) + (Size[Sending] - Size[Sending]) + 0 /\ Size[Sending] <= Size[Sending]
    BY <1>2, <1>3
  <2>3. QED  BY <1>2, <1>4, <2>1, <2>2 DEF SenderAt
<1>6. Types'  BY <1>2, <1>4 DEF TransferInv, Types, receiverVars
<1>7. QED  BY <1>1, <1>4, <1>5, <1>6, QuietSenderStep DEF TransferInv

LEMMA WriteReturnsStep ==
  ASSUME TransferInv, WriteReturns
  PROVE  TransferInv'
<1>1. PICK a \in 0 .. Start(Count + 1), b \in 0 .. Start(Count + 1) :
        ReceiverAt(a) /\ SenderAt(b) /\ b = a + Len(stream) /\ Wire(a)
  BY DEF TransferInv, Between
<1>2. /\ Sending \in 1 .. Count /\ bytes_to_send <= Size[Sending]
      /\ b = Start(Sending) + (Size[Sending] - bytes_to_send) + copied
      /\ Sending \notin short => bytes_to_send \in {0, Size[Sending]}
  BY <1>1 DEF SenderAt, WriteReturns
<1>3. /\ Size[Sending] \in Nat /\ Start(Sending) \in Nat /\ bytes_to_send \in Nat
      /\ copied \in Nat /\ copied <= bytes_to_send
  <2>1. Sending \in 1 .. Count + 1  BY <1>2, SizeType
  <2>2. Start(Sending) \in Nat /\ Size[Sending] \in Nat  BY <1>2, <2>1, SizeType, BeforeFinite
  <2>3. QED  BY <2>2 DEF TransferInv, Types
<1>4. /\ spc = "loop" /\ spc' = spc /\ sent' = sent /\ UNCHANGED <<receiverVars, stream>>
      /\ bytes_to_send' = bytes_to_send - copied /\ copied' = 0
      /\ short' = IF copied < bytes_to_send THEN short \cup {Sending} ELSE short
  BY DEF WriteReturns
<1>5. bytes_to_send' \in Nat /\ bytes_to_send' <= Size[Sending]
  BY <1>2, <1>3, <1>4
<1>6. b = Start(Sending) + (Size[Sending] - bytes_to_send') + copied'
  <2>1. PICK x \in Nat : x = bytes_to_send'  BY <1>5
  <2>2. x = bytes_to_send - copied  BY <1>4, <2>1
  <2>3. b = Start(Sending) + (Size[Sending] - x) + 0  BY <1>2, <1>3, <2>2
  <2>4. QED  BY <1>4, <2>1, <2>3
<1>7. Sending \notin short' => bytes_to_send' = 0
  BY <1>3, <1>4
<1>8. SenderAt(b)'
  <2>1. Sending' = Sending  BY <1>4 DEF Sending
  <2>2. QED  BY <1>2, <1>4, <1>5, <1>6, <1>7, <2>1 DEF SenderAt
<1>9. Types'
  <2>1. short' \subseteq 1 .. Count  BY <1>2, <1>4 DEF TransferInv, Types
  <2>2. copied' \in 0 .. bytes_to_send'  BY <1>4, <1>5
  <2>3. QED  BY <1>4, <1>5, <2>1, <2>2 DEF TransferInv, Types, receiverVars
<1>10. QED  BY <1>1, <1>4, <1>8, <1>9, QuietSenderStep DEF TransferInv

LEMMA SendReturnsStep ==
  ASSUME TransferInv, SendReturns
  PROVE  TransferInv'
<1>1. PICK a \in 0 .. Start(Count + 1), b \in 0 .. Start(Count + 1) :
        ReceiverAt(a) /\ SenderAt(b) /\ b = a + Len(stream) /\ Wire(a)
  BY DEF TransferInv, Between
<1>2. /\ Sending \in 1 .. Count
      /\ b = Start(Sending) + (Size[Sending] - bytes_to_send) + copied
  BY <1>1 DEF SenderAt, SendReturns
<1>3. bytes_to_send = 0 /\ copied = 0  BY DEF SendReturns, TransferInv, Types
<1>4. b = Start(Sending + 1)
  <2>1. Sending \in 1 .. Count + 1 /\ Size[Sending] \in Nat  BY <1>2, SizeType
  <2>2. Start(Sending) \in Nat /\ Start(Sending + 1) = Start(Sending) + Size[Sending]
    BY <1>2, <2>1, BeforeFinite, StartNext
  <2>3. QED  BY <1>2, <1>3, <2>1, <2>2
<1>5. /\ spc' = "idle" /\ sent' = sent + 1
      /\ UNCHANGED <<bytes_to_send, copied, stream, short, receiverVars>>
  BY DEF SendReturns
<1>6. SenderAt(b)'
  <2>1. Sending' = Sending + 1  BY <1>5 DEF Sending
  <2>2. QED  BY <1>3, <1>4, <1>5, <2>1 DEF SenderAt
<1>7. Types'
  <2>1. sent' \in 0 .. Count  BY <1>2, <1>5, SizeType DEF Sending, TransferInv, Types
  <2>2. QED  BY <1>5, <2>1 DEF TransferInv, Types, receiverVars
<1>8. QED  BY <1>1, <1>5, <1>6, <1>7, QuietSenderStep DEF TransferInv

LEMMA SenderEndsStep ==
  ASSUME TransferInv, BrokenPipe \/ SenderDies
  PROVE  TransferInv'
<1>1. PICK a \in 0 .. Start(Count + 1), b \in 0 .. Start(Count + 1) :
        ReceiverAt(a) /\ SenderAt(b) /\ b = a + Len(stream) /\ Wire(a)
  BY DEF TransferInv, Between
<1>2. /\ \/ spc = "loop" /\ spc' = "killed"
         \/ spc \in {"idle", "loop"} /\ spc' = "dead"
      /\ UNCHANGED <<sent, bytes_to_send, copied, stream, short, receiverVars>>
  BY DEF BrokenPipe, SenderDies
<1>3. SenderAt(b)'
  <2>1. Sending' = Sending  BY <1>2 DEF Sending
  <2>2. QED  BY <1>1, <1>2, <2>1 DEF SenderAt
<1>4. Types'  BY <1>2 DEF TransferInv, Types, receiverVars
<1>5. QED  BY <1>1, <1>2, <1>3, <1>4, QuietSenderStep DEF TransferInv

\* A byte that is put in is the next one of all.
LEMMA CopyByteStep ==
  ASSUME TransferInv, CopyByte
  PROVE  TransferInv'
<1>1. PICK a \in 0 .. Start(Count + 1), b \in 0 .. Start(Count + 1) :
        ReceiverAt(a) /\ SenderAt(b) /\ b = a + Len(stream) /\ Wire(a)
  BY DEF TransferInv, Between
<1> DEFINE m == Sending
           s == bytes_to_send
           c == copied
           byte == <<m, c + 1>>
           n == Len(stream)
<1>2. /\ m \in 1 .. Count /\ s <= Size[m]
      /\ b = Start(m) + (Size[m] - s) + c
      /\ m \notin short => s \in {0, Size[m]}
  BY <1>1 DEF SenderAt, CopyByte
<1>3. /\ c < s /\ n < Capacity
      /\ copied' = c + 1 /\ stream' = Append(stream, byte)
      /\ UNCHANGED <<spc, sent, bytes_to_send, short, receiverVars>>
  BY DEF CopyByte
<1>4. Size[m] \in Nat /\ Start(m) \in Nat /\ s \in Nat /\ c \in Nat /\ n \in Nat
      /\ stream \in Seq((1 .. Count) \X Nat)
  <2>1. m \in 1 .. Count + 1  BY <1>2, SizeType
  <2>2. Start(m) \in Nat /\ Size[m] \in Nat  BY <1>2, <2>1, SizeType, BeforeFinite
  <2>3. stream \in Seq((1 .. Count) \X Nat)  BY DEF TransferInv, Types
  <2>4. n \in Nat  BY <2>3, LenProperties
  <2>5. QED  BY <2>2, <2>3, <2>4 DEF TransferInv, Types
<1>5. /\ stream' \in Seq((1 .. Count) \X Nat) /\ Len(stream') = n + 1
      /\ \A i \in 1 .. n : stream'[i] = stream[i]
      /\ stream'[n + 1] = byte
  <2>1. byte \in (1 .. Count) \X Nat  BY <1>2, <1>4
  <2>2. QED  BY <1>3, <1>4, <2>1, AppendProperties
<1>0. a \in Nat /\ b \in Nat
  <2>1. Count + 1 \in 1 .. Count + 1  BY SizeType
  <2>2. Start(Count + 1) \in Nat  BY <2>1, BeforeFinite
  <2>3. QED  BY <2>2
<1> HIDE DEF m, s, c, n
<1>6. /\ b + 1 - Start(m) \in 1 .. Size[m] /\ c + 1 \in 1 .. b + 1 - Start(m)
      /\ m \notin short => c + 1 = b + 1 - Start(m)
  <2>1. PICK p \in Nat : p = Start(m)  BY <1>4
  <2>2. PICK z \in Nat : z = Size[m]  BY <1>4
  <2>3. s \in Nat /\ c \in Nat /\ s <= z /\ c < s /\ b = p + (z - s) + c
    BY <1>2, <1>3, <1>4, <2>1, <2>2
  <2>4. b + 1 - p \in 1 .. z /\ c + 1 \in 1 .. b + 1 - p /\ (s = z => c + 1 = b + 1 - p)
    BY <2>3
  <2>5. m \notin short => s = z
    <3>1. s # 0  BY <2>3
    <3>2. QED  BY <1>2, <2>2, <3>1
  <2>6. QED  BY <2>1, <2>2, <2>4, <2>5
<1>7. b + 1 \in 0 .. Start(Count + 1)
  <2>1. m + 1 \in 1 .. Count + 1 /\ Count + 1 \in 1 .. Count + 1 /\ m + 1 <= Count + 1
    BY <1>2, SizeType
  <2>2. Start(m + 1) \in Nat /\ Start(Count + 1) \in Nat /\ Start(m + 1) <= Start(Count + 1)
    BY <2>1, StartMonotonic
  <2>3. Start(m + 1) = Start(m) + Size[m]  BY <1>2, StartNext
  <2>4. b \in Nat /\ b + 1 - Start(m) <= Size[m]
    BY <1>1, <1>2, <1>4, <1>6, <2>2
  <2>5. QED  BY <1>4, <2>2, <2>3, <2>4
<1>8. SenderAt(b + 1)'
  <2>1. Sending' = m  BY <1>3 DEF Sending, m
  <2>2. b + 1 = Start(m) + (Size[m] - s) + (c + 1)
    <3>1. PICK p \in Nat : p = Start(m)  BY <1>4
    <3>2. PICK z \in Nat : z = Size[m]  BY <1>4
    <3>3. s \in Nat /\ c \in Nat /\ b = p + (z - s) + c  BY <1>2, <1>4, <3>1, <3>2
    <3>4. b + 1 = p + (z - s) + (c + 1)  BY <3>3
    <3>5. QED  BY <3>1, <3>2, <3>4
  <2>3. spc' = "loop"  BY <1>3 DEF CopyByte
  <2>4. bytes_to_send' = s /\ copied' = c + 1 /\ short' = short  BY <1>3 DEF s
  <2>5. QED  BY <1>2, <2>1, <2>2, <2>3, <2>4 DEF SenderAt
<1>9. ReceiverAt(a)'  BY <1>1, <1>3, ReceiverFrame
<1>10. Wire(a)'
  <2>1. ASSUME NEW i \in 1 .. n + 1
        PROVE  LET k == stream'[i][1]
                   place == a + i - Start(k)
               IN  /\ place \in 1 .. Size[k]
                   /\ stream'[i][2] \in 1 .. place
                   /\ k \notin short => stream'[i][2] = place
    <3>1. CASE i \in 1 .. n
      BY <1>1, <1>5, <3>1 DEF Wire, n
    <3>2. CASE i = n + 1
      <4>1. a + i = b + 1  BY <1>1, <1>4, <3>2 DEF n
      <4>2. stream'[i][1] = m /\ stream'[i][2] = c + 1  BY <1>5, <3>2
      <4>3. a + i - Start(m) = b + 1 - Start(m)
        <5>1. PICK p \in Nat : p = Start(m)  BY <1>4
        <5>2. i \in Nat  BY <1>4, <3>2
        <5>3. a + i - p = b + 1 - p  BY <1>0, <4>1, <5>2
        <5>4. QED  BY <5>1, <5>3
      <4>4. QED  BY <1>6, <4>2, <4>3
    <3>3. QED  BY <1>4, <3>1, <3>2
  <2>2. QED  BY <1>3, <1>5, <2>1 DEF Wire
<1>11. b + 1 = a + Len(stream')  BY <1>1, <1>4, <1>5 DEF n
<1>12. Types'
  <2>1. Len(stream') <= Capacity  BY <1>3, <1>4, <1>5, TransferAssumption
  <2>2. copied' \in 0 .. bytes_to_send'  BY <1>3, <1>4 DEF s, c
  <2>3. QED  BY <1>3, <1>5, <2>1, <2>2 DEF TransferInv, Types, receiverVars
<1>13. Whole'  BY <1>3 DEF TransferInv, Whole, receiverVars
<1>14. QED  BY <1>7, <1>8, <1>9, <1>10, <1>11, <1>12, <1>13 DEF TransferInv, Between

-----------------------------------------------------------------------------
(* Steps of the receiver *)

\* Steps that take no byte out of the connection.
LEMMA QuietReceiverStep ==
  ASSUME NEW a \in 0 .. Start(Count + 1), NEW b \in 0 .. Start(Count + 1),
         SenderAt(b), b = a + Len(stream), Wire(a),
         UNCHANGED <<senderVars, stream, short>>, Types', ReceiverAt(a)', Whole'
  PROVE  TransferInv'
<1>1. SenderAt(b)' /\ Wire(a)'  BY SenderFrame, WireFrame
<1>2. QED  BY <1>1 DEF TransferInv, Between

LEMMA CallReceiveStep ==
  ASSUME TransferInv, CallReceive
  PROVE  TransferInv'
<1>1. PICK a \in 0 .. Start(Count + 1), b \in 0 .. Start(Count + 1) :
        ReceiverAt(a) /\ SenderAt(b) /\ b = a + Len(stream) /\ Wire(a)
  BY DEF TransferInv, Between
<1>2. Receiving \in 1 .. Count /\ Size[Receiving] \in Nat /\ Start(Receiving) \in Nat
  <2>1. delivered \in Seq(Seq(Contents))  BY DEF TransferInv, Types
  <2>2. Len(delivered) \in Nat  BY <2>1, LenProperties
  <2>3. Receiving \in 1 .. Count /\ Receiving \in 1 .. Count + 1
    BY <2>2, SizeType DEF CallReceive, Count, Receiving
  <2>4. QED  BY <2>3, SizeType, BeforeFinite
<1>3. a = Start(Receiving)  BY <1>1 DEF ReceiverAt, CallReceive
<1>4. /\ rpc' = "loop" /\ bytes_to_receive' = Size[Receiving]
      /\ buffer' = [i \in 1 .. Size[Receiving] |-> Blank]
      /\ delivered' = delivered
      /\ UNCHANGED <<senderVars, stream, short>>
  BY DEF CallReceive
<1>5. ReceiverAt(a)'
  <2>1. Receiving' = Receiving  BY <1>4 DEF Receiving
  <2>2. a = Start(Receiving) + (Size[Receiving] - Size[Receiving]) /\ Size[Receiving] <= Size[Receiving]
    BY <1>2, <1>3
  <2>3. buffer' \in [1 .. Size[Receiving] -> Contents]  BY <1>4 DEF Blank, Contents
  <2>4. QED  BY <1>2, <1>4, <2>1, <2>2, <2>3 DEF ReceiverAt
<1>6. Types'  BY <1>2, <1>4 DEF TransferInv, Types, senderVars
<1>7. Whole'  BY <1>4, WholeFrame DEF TransferInv
<1>8. QED  BY <1>1, <1>4, <1>5, <1>6, <1>7, QuietReceiverStep

LEMMA ReceiveReturnsStep ==
  ASSUME TransferInv, ReceiveReturns
  PROVE  TransferInv'
<1>1. PICK a \in 0 .. Start(Count + 1), b \in 0 .. Start(Count + 1) :
        ReceiverAt(a) /\ SenderAt(b) /\ b = a + Len(stream) /\ Wire(a)
  BY DEF TransferInv, Between
<1> DEFINE m == Receiving
           n == Len(delivered)
<1>2. /\ m \in 1 .. Count /\ a = Start(m) + (Size[m] - bytes_to_receive)
      /\ buffer \in [1 .. Size[m] -> Contents]
      /\ m \notin short =>
           bytes_to_receive = Size[m] \/ (bytes_to_receive = 0 /\ buffer = Message(m))
  BY <1>1 DEF ReceiverAt, ReceiveReturns
<1>3. /\ bytes_to_receive = 0 /\ rpc' = "idle" /\ delivered' = Append(delivered, buffer)
      /\ UNCHANGED <<bytes_to_receive, buffer, stream, short, senderVars>>
  BY DEF ReceiveReturns
<1>4. /\ delivered \in Seq(Seq(Contents)) /\ n \in Nat /\ m = n + 1
      /\ Size[m] \in Nat /\ Start(m) \in Nat /\ Start(m + 1) = Start(m) + Size[m]
  <2>1. delivered \in Seq(Seq(Contents))  BY DEF TransferInv, Types
  <2>2. n \in Nat  BY <2>1, LenProperties
  <2>3. m \in 1 .. Count + 1  BY <1>2, SizeType
  <2>4. QED  BY <1>2, <2>1, <2>2, <2>3, SizeType, BeforeFinite, StartNext DEF Receiving
<1>5. buffer \in Seq(Contents)
  <2>1. PICK k \in Nat : k = Size[m]  BY <1>4
  <2>2. buffer \in [1 .. k -> Contents]  BY <1>2, <2>1
  <2>3. QED  BY <2>2
<1>6. /\ delivered' \in Seq(Seq(Contents)) /\ Len(delivered') = n + 1
      /\ \A i \in 1 .. n : delivered'[i] = delivered[i]
      /\ delivered'[n + 1] = buffer
  BY <1>3, <1>4, <1>5, AppendProperties
<1>7. ReceiverAt(a)'
  <2>1. Receiving' = m + 1  BY <1>4, <1>6 DEF Receiving
  <2>2. a = Start(m + 1)  BY <1>2, <1>3, <1>4
  <2>3. QED  BY <1>3, <2>1, <2>2 DEF ReceiverAt
<1>8. Types'
  <2>1. Len(delivered') <= Count  BY <1>2, <1>4, <1>6
  <2>2. QED  BY <1>3, <1>6, <2>1 DEF TransferInv, Types, senderVars
<1>9. Whole'
  <2>1. m \notin short => buffer = Message(m)
    <3>1. CASE Size[m] = 0
      <4>1. 1 .. Size[m] = {}  BY <3>1
      <4>2. QED  BY <1>2, <4>1 DEF Message
    <3>2. CASE Size[m] # 0
      BY <1>2, <1>3, <3>2
    <3>3. QED  BY <3>1, <3>2
  <2>2. \A i \in 1 .. n : i \notin short => delivered[i] = Message(i)
    BY DEF TransferInv, Whole
  <2>3. \A i \in 1 .. n + 1 : i \in 1 .. n \/ i = n + 1  BY <1>4
  <2>4. \A i \in 1 .. n + 1 : i \notin short => delivered'[i] = Message(i)
    BY <1>4, <1>6, <2>1, <2>2, <2>3
  <2>5. QED  BY <1>3, <1>6, <2>4 DEF Whole
<1>10. QED  BY <1>1, <1>3, <1>7, <1>8, <1>9, QuietReceiverStep

LEMMA ReceiverDiesStep ==
  ASSUME TransferInv, ReceiverDies
  PROVE  TransferInv'
<1>1. PICK a \in 0 .. Start(Count + 1), b \in 0 .. Start(Count + 1) :
        ReceiverAt(a) /\ SenderAt(b) /\ b = a + Len(stream) /\ Wire(a)
  BY DEF TransferInv, Between
<1>2. /\ rpc' = "dead" /\ rpc \in {"idle", "loop"}
      /\ UNCHANGED <<bytes_to_receive, buffer, delivered, stream, short, senderVars>>
  BY DEF ReceiverDies
<1>3. ReceiverAt(a)'
  <2>1. Receiving' = Receiving  BY <1>2 DEF Receiving
  <2>2. QED  BY <1>1, <1>2, <2>1 DEF ReceiverAt
<1>4. Types'  BY <1>2 DEF TransferInv, Types, senderVars
<1>5. Whole'  BY <1>2, WholeFrame DEF TransferInv
<1>6. QED  BY <1>1, <1>2, <1>3, <1>4, <1>5, QuietReceiverStep

\* The first bytes of the connection go to the start of the buffer: all of the
\* message, unless the transfer is cut.
LEMMA ReadStep ==
  ASSUME TransferInv, Read
  PROVE  TransferInv'
<1>1. PICK a \in 0 .. Start(Count + 1), b \in 0 .. Start(Count + 1) :
        ReceiverAt(a) /\ SenderAt(b) /\ b = a + Len(stream) /\ Wire(a)
  BY DEF TransferInv, Between
<1>0. a \in Nat /\ b \in Nat /\ b <= Start(Count + 1) /\ Start(Count + 1) \in Nat
  <2>1. Count + 1 \in 1 .. Count + 1  BY SizeType
  <2>2. Start(Count + 1) \in Nat  BY <2>1, BeforeFinite
  <2>3. QED  BY <2>2
<1> DEFINE m == Receiving
           r == bytes_to_receive
           l == Len(stream)
           n == MinOf(r, l)
<1>2. /\ m \in 1 .. Count /\ r <= Size[m] /\ a = Start(m) + (Size[m] - r)
      /\ buffer \in [1 .. Size[m] -> Contents]
  BY <1>1 DEF ReceiverAt, Read
<1>3. /\ rpc = "loop" /\ r # 0 /\ stream # <<>>
      /\ buffer' = [i \in DOMAIN buffer |-> IF i <= n THEN stream[i] ELSE buffer[i]]
      /\ stream' = SubSeq(stream, n + 1, l)
      /\ bytes_to_receive' = r - n
      /\ short' = IF n < Len(buffer) THEN short \cup {m} ELSE short
      /\ rpc' = rpc /\ delivered' = delivered /\ UNCHANGED senderVars
  BY DEF Read
<1>4. stream \in Seq((1 .. Count) \X Nat)  BY DEF TransferInv, Types
<1>5. /\ Size[m] \in Nat /\ Start(m) \in Nat /\ r \in Nat /\ l \in Nat /\ l # 0
      /\ n \in Nat /\ n <= r /\ n <= l
  <2>1. m \in 1 .. Count + 1  BY <1>2, SizeType
  <2>2. Start(m) \in Nat /\ Size[m] \in Nat  BY <1>2, <2>1, SizeType, BeforeFinite
  <2>3. l \in Nat /\ l # 0  BY <1>3, <1>4, EmptySeq
  <2>4. r \in Nat  BY DEF TransferInv, Types
  <2>5. QED  BY <2>2, <2>3, <2>4 DEF MinOf
<1>6. Len(buffer) = Size[m] /\ DOMAIN buffer = 1 .. Size[m]
  <2>1. PICK k \in Nat : k = Size[m]  BY <1>5
  <2>2. buffer \in [1 .. k -> Contents]  BY <1>2, <2>1
  <2>3. QED  BY <2>1, <2>2
<1>7. /\ stream' \in Seq((1 .. Count) \X Nat) /\ Len(stream') = l - n
      /\ \A i \in 1 .. l - n : stream'[i] = stream[n + i]
  <2>1. \A i \in n + 1 .. l : stream[i] \in (1 .. Count) \X Nat
    BY <1>4, <1>5, ElementOfSeq
  <2>2. PICK k \in Nat : k = n + 1  BY <1>5
  <2>3. /\ SubSeq(stream, k, l) \in Seq((1 .. Count) \X Nat)
        /\ Len(SubSeq(stream, k, l)) = IF k <= l THEN l - k + 1 ELSE 0
        /\ \A i \in 1 .. l - k + 1 : SubSeq(stream, k, l)[i] = stream[k + i - 1]
    BY <1>5, <2>1, <2>2, SubSeqProperties
  <2>4. (IF k <= l THEN l - k + 1 ELSE 0) = l - n /\ l - k + 1 = l - n
        /\ \A i \in 1 .. l - n : k + i - 1 = n + i
    BY <1>5, <2>2
  <2>5. QED  BY <1>3, <2>2, <2>3, <2>4
<1> HIDE DEF m, r, l, n
<1>8. PICK x \in 0 .. Start(Count + 1) : x = a + n /\ b = x + Len(stream')
  <2>1. PICK e \in Nat : e = Start(Count + 1)  BY <1>0
  <2>2. b = a + l  BY <1>1 DEF l
  <2>3. a + n \in 0 .. e /\ b = (a + n) + (l - n)  BY <1>0, <1>5, <2>1, <2>2
  <2>4. QED  BY <1>7, <2>1, <2>3
<1>9. m \notin short' => r - n = 0 /\ buffer' = Message(m)
  <2> SUFFICES ASSUME m \notin short'  PROVE r - n = 0 /\ buffer' = Message(m)
    OBVIOUS
  <2>1. PICK z \in Nat : z = Size[m]  BY <1>5
  <2>2. PICK s \in Nat : s = Start(m)  BY <1>5
  <2>3. m \notin short /\ ~(n < z)  BY <1>3, <1>6, <2>1
  <2>4. r <= z /\ a = s + (z - r)  BY <1>2, <2>1, <2>2
  <2>5. n = z /\ r = z /\ a = s /\ r - n = 0  BY <1>0, <1>5, <2>3, <2>4
  <2>6. ASSUME NEW i \in 1 .. z  PROVE stream[i] = <<m, i>>
    <3>1. i \in 1 .. l /\ i \in Nat /\ a + i \in Nat /\ a + i - s = i
      BY <1>0, <1>5, <2>2, <2>5
    <3>2. stream[i] \in (1 .. Count) \X Nat  BY <1>4, <3>1, ElementOfSeq DEF l
    <3>3. PICK k \in 1 .. Count, v \in Nat : stream[i] = <<k, v>>  BY <3>2
    <3>4. /\ a + i - Start(k) \in 1 .. Size[k]
          /\ k \notin short => v = a + i - Start(k)
      BY <1>1, <3>1, <3>3 DEF Wire, l
    <3>5. a + i - Start(m) \in 1 .. Size[m]
      <4>1. a + i - s \in 1 .. z  BY <2>1, <3>1
      <4>2. QED  BY <2>1, <2>2, <4>1, Zenon
    <3>6. k = m
      <4>1. PICK p \in Nat : p = a + i  BY <3>1
      <4>2. k \in 1 .. Count + 1  BY SizeType
      <4>3. PICK t \in Nat : t = Start(k)  BY <4>2, BeforeFinite
      <4>4. PICK y \in Nat : y = Size[k]  BY SizeType
      <4>5. a + i - t \in 1 .. y  BY <3>4, <4>3, <4>4
      <4>6. a + i - s \in 1 .. z  BY <2>1, <3>1
      <4>7. p - t \in 1 .. y /\ p - s \in 1 .. z  BY <4>1, <4>5, <4>6
      <4>8. p - Start(k) \in 1 .. Size[k] /\ p - Start(m) \in 1 .. Size[m]
        BY <2>1, <2>2, <4>3, <4>4, <4>7
      <4>9. PICK c \in 1 .. Count : c = m  BY <1>2
      <4>10. QED  BY <4>8, <4>9, OneMessage
    <3>7. v = i  BY <2>2, <2>3, <3>1, <3>4, <3>6
    <3>8. QED  BY <3>3, <3>6, <3>7
  <2>7. buffer' = [i \in 1 .. z |-> <<m, i>>]
    <3>1. \A i \in 1 .. z : i <= n  BY <1>5, <2>5
    <3>2. buffer' = [i \in 1 .. z |-> IF i <= n THEN stream[i] ELSE buffer[i]]
      BY <1>3, <1>6, <2>1
    <3>3. \A i \in 1 .. z : buffer'[i] = <<m, i>>  BY <2>6, <3>1, <3>2
    <3>4. QED  BY <3>2, <3>3
  <2>8. QED  BY <2>1, <2>5, <2>7 DEF Message
<1>10. ReceiverAt(x)'
  <2>1. Receiving' = m  BY <1>3 DEF Receiving, m
  <2>2. r - n <= Size[m] /\ a + n = Start(m) + (Size[m] - (r - n))
    <3>1. PICK z \in Nat : z = Size[m]  BY <1>5
    <3>2. PICK s \in Nat : s = Start(m)  BY <1>5
    <3>3. r <= z /\ a = s + (z - r)  BY <1>2, <3>1, <3>2
    <3>4. r - n <= z /\ a + n = s + (z - (r - n))  BY <1>0, <1>5, <3>3
    <3>5. QED  BY <3>1, <3>2, <3>4
  <2>3. buffer' \in [1 .. Size[m] -> Contents]
    <3>1. ASSUME NEW i \in 1 .. Size[m]
          PROVE  (IF i <= n THEN stream[i] ELSE buffer[i]) \in Contents
      <4>1. CASE i <= n
        <5>1. i \in 1 .. l  BY <1>5, <4>1
        <5>2. stream[i] \in (1 .. Count) \X Nat  BY <1>4, <5>1, ElementOfSeq DEF l
        <5>3. (1 .. Count) \X Nat \subseteq Contents  BY SizeType DEF Contents
        <5>4. QED  BY <4>1, <5>2, <5>3
      <4>2. CASE ~(i <= n)
        BY <1>2, <4>2
      <4>3. QED  BY <4>1, <4>2
    <3>2. QED  BY <1>3, <1>6, <3>1
  <2>4. rpc' = "loop" /\ bytes_to_receive' = r - n  BY <1>3
  <2>6. PICK y : y = r - n  OBVIOUS
  <2>7. /\ y <= Size[m] /\ x = Start(m) + (Size[m] - y) /\ bytes_to_receive' = y
        /\ m \notin short' => y = 0 /\ buffer' = Message(m)
    BY <1>8, <1>9, <2>2, <2>4, <2>6
  <2>8. QED  BY <1>2, <2>1, <2>3, <2>4, <2>7 DEF ReceiverAt
<1>11. SenderAt(b)'  BY <1>1, <1>3, SenderFrame
<1>12. Wire(x)'
  <2>2. ASSUME NEW i \in 1 .. l - n
        PROVE  LET k == stream'[i][1]
                   place == x + i - Start(k)
               IN  /\ place \in 1 .. Size[k]
                   /\ stream'[i][2] \in 1 .. place
                   /\ k \notin short' => stream'[i][2] = place
    <3>1. PICK q \in 1 .. l : q = n + i /\ x + i = a + q  BY <1>0, <1>5, <1>8
    <3>2. PICK k, p : k = stream[q][1] /\ p = stream[q][2]  OBVIOUS
    <3>3. stream'[i][1] = k /\ stream'[i][2] = p  BY <1>7, <3>1, <3>2
    <3>4. PICK t \in Nat : t = Start(k)
      <4>1. stream[q] \in (1 .. Count) \X Nat  BY <1>4, ElementOfSeq DEF l
      <4>2. k \in 1 .. Count  BY <3>2, <4>1
      <4>3. k \in 1 .. Count + 1  BY <4>2, SizeType
      <4>4. QED  BY <4>3, BeforeFinite
    <3>5. PICK g : g = a + q - t /\ g = x + i - t  BY <1>0, <1>5, <3>1
    <3>6. g = a + q - Start(k) /\ g = x + i - Start(k)  BY <3>4, <3>5
    <3>7. g \in 1 .. Size[k] /\ p \in 1 .. g /\ (k \notin short => p = g)
      BY <1>1, <3>2, <3>6 DEF Wire, l
    <3>8. short \subseteq short'  BY <1>3
    <3>9. QED  BY <3>3, <3>8, <3>6, <3>7, Zenon
  <2>3. QED  BY <1>7, <2>2 DEF Wire
<1>13. Types'
  <2>1. r - n \in Nat  BY <1>5
  <2>2. short' \subseteq 1 .. Count  BY <1>2, <1>3 DEF TransferInv, Types
  <2>3. Len(stream') <= Capacity
    <3>1. l <= Capacity /\ Capacity \in Nat  BY TransferAssumption DEF TransferInv, Types, l
    <3>2. QED  BY <1>5, <1>7, <3>1
  <2>4. QED  BY <1>3, <1>7, <2>1, <2>2, <2>3 DEF TransferInv, Types, senderVars
<1>14. Whole'
  <2>1. short \subseteq short'  BY <1>3
  <2>2. QED  BY <1>3, <2>1, WholeFrame DEF TransferInv
<1>15. QED  BY <1>1, <1>8, <1>10, <1>11, <1>12, <1>13, <1>14 DEF TransferInv, Between

-----------------------------------------------------------------------------
(* Theorems *)

LEMMA TransferInit == Init => TransferInv
<1> SUFFICES ASSUME Init  PROVE TransferInv  OBVIOUS
<1>1. Count \in Nat /\ Capacity \in Nat  BY SizeType, TransferAssumption
<1>2. 1 \in 1 .. Count + 1 /\ Count + 1 \in 1 .. Count + 1  BY <1>1
<1>3. Start(1) = 0
  <2>1. 1 .. 1 - 1 = {}  OBVIOUS
  <2>2. Before(1) = {}  BY <2>1 DEF Before
  <2>3. QED  BY <2>2, FS_EmptySet DEF Start
<1>4. Start(Count + 1) \in Nat  BY <1>2, BeforeFinite
<1>5. Len(stream) = 0 /\ stream \in Seq((1 .. Count) \X Nat)
      /\ Len(delivered) = 0 /\ delivered \in Seq(Seq(Contents))
  BY EmptySeq DEF Init
<1>6. Sending = 1 /\ Receiving = 1  BY <1>5 DEF Init, Sending, Receiving
<1>7. ReceiverAt(0) /\ SenderAt(0) /\ Wire(0)
  BY <1>3, <1>5, <1>6 DEF Init, ReceiverAt, SenderAt, Wire
<1>8. 0 \in 0 .. Start(Count + 1) /\ 0 = 0 + Len(stream)  BY <1>4, <1>5
<1>9. Types /\ Whole  BY <1>1, <1>5 DEF Init, Types, Whole
<1>10. QED  BY <1>7, <1>8, <1>9 DEF TransferInv, Between

LEMMA TransferStep ==
  ASSUME TransferInv, [Next]_vars
  PROVE  TransferInv'
<1>1. CASE UNCHANGED vars
  <2>1. Types' /\ Whole'
    BY <1>1, WholeFrame DEF vars, senderVars, receiverVars, TransferInv, Types
  <2>2. PICK a \in 0 .. Start(Count + 1), b \in 0 .. Start(Count + 1) :
          ReceiverAt(a) /\ SenderAt(b) /\ b = a + Len(stream) /\ Wire(a)
    BY DEF TransferInv, Between
  <2>3. UNCHANGED <<senderVars, receiverVars, stream, short>>  BY <1>1 DEF vars
  <2>4. ReceiverAt(a)' /\ SenderAt(b)' /\ Wire(a)'
    BY <2>2, <2>3, SenderFrame, ReceiverFrame, WireFrame
  <2>5. QED  BY <2>1, <2>2, <2>3, <2>4 DEF TransferInv, Between
<1>2. CASE SenderStep \/ SenderDies
  BY <1>2, CallSendStep, CopyByteStep, WriteReturnsStep, SendReturnsStep, SenderEndsStep DEF SenderStep
<1>3. CASE ReceiverStep \/ ReceiverDies
  BY <1>3, CallReceiveStep, ReadStep, ReceiveReturnsStep, ReceiverDiesStep DEF ReceiverStep
<1>4. QED  BY <1>1, <1>2, <1>3 DEF Next

LEMMA TransferInvariant == Spec => []TransferInv
<1>1. TransferInv /\ [Next]_vars => TransferInv'  BY TransferStep
<1>2. QED  BY <1>1, TransferInit, PTL DEF Spec

\* What every theorem below uses of the invariant.
LEMMA Position ==
  ASSUME TransferInv
  PROVE  \E a, b \in Nat :
           /\ ReceiverAt(a) /\ SenderAt(b) /\ b = a + Len(stream) /\ Wire(a)
           /\ Start(Receiving) \in Nat /\ Start(Receiving) <= a
           /\ rpc = "idle" => a = Start(Receiving)
<1>1. Count + 1 \in 1 .. Count + 1  BY SizeType
<1>2. Start(Count + 1) \in Nat  BY <1>1, BeforeFinite
<1>3. PICK a \in 0 .. Start(Count + 1), b \in 0 .. Start(Count + 1) :
        ReceiverAt(a) /\ SenderAt(b) /\ b = a + Len(stream) /\ Wire(a)
  BY DEF TransferInv, Between
<1>4. a \in Nat /\ b \in Nat  BY <1>2
<1>5. Receiving \in 1 .. Count + 1
  <2>1. delivered \in Seq(Seq(Contents)) /\ Len(delivered) <= Count  BY DEF TransferInv, Types
  <2>2. Len(delivered) \in Nat  BY <2>1, LenProperties
  <2>3. QED  BY <2>1, <2>2, SizeType DEF Receiving
<1>6. Start(Receiving) \in Nat  BY <1>5, BeforeFinite
<1>7. Start(Receiving) <= a
  <2>1. CASE a = Start(Receiving)  BY <1>4, <2>1
  <2>2. CASE /\ Receiving \in 1 .. Count /\ bytes_to_receive <= Size[Receiving]
             /\ a = Start(Receiving) + (Size[Receiving] - bytes_to_receive)
    <3>1. PICK z \in Nat : z = Size[Receiving]  BY <2>2, SizeType
    <3>2. PICK s \in Nat : s = Start(Receiving)  BY <1>6
    <3>3. bytes_to_receive \in Nat  BY DEF TransferInv, Types
    <3>4. s <= a  BY <1>4, <2>2, <3>1, <3>2, <3>3
    <3>5. QED  BY <3>2, <3>4
  <2>3. QED  BY <1>3, <2>1, <2>2 DEF ReceiverAt
<1>8. rpc = "idle" => a = Start(Receiving)  BY <1>3 DEF ReceiverAt
<1>9. QED  BY <1>3, <1>4, <1>6, <1>7, <1>8

\* Each byte in the connection, with the numbers it has.
LEMMA WireByte ==
  ASSUME TransferInv, NEW a \in Nat, Wire(a), NEW i \in 1 .. Len(stream)
  PROVE  \E k \in 1 .. Count, v \in Nat, s \in Nat, z \in Nat :
           /\ stream[i][1] = k /\ stream[i][2] = v /\ Start(k) = s /\ Size[k] = z
           /\ a + i - s \in 1 .. z /\ v \in 1 .. a + i - s
<1>1. stream \in Seq((1 .. Count) \X Nat)  BY DEF TransferInv, Types
<1>2. stream[i] \in (1 .. Count) \X Nat /\ i \in Nat
  <2>1. Len(stream) \in Nat  BY <1>1, LenProperties
  <2>2. QED  BY <1>1, <2>1, ElementOfSeq
<1>3. PICK k \in 1 .. Count, v \in Nat : stream[i] = <<k, v>>  BY <1>2
<1>4. k \in 1 .. Count + 1  BY SizeType
<1>5. PICK s \in Nat : s = Start(k)  BY <1>4, BeforeFinite
<1>6. PICK z \in Nat : z = Size[k]  BY SizeType
<1>7. stream[i][1] = k /\ stream[i][2] = v  BY <1>3
<1>8. a + i - Start(k) \in 1 .. Size[k] /\ v \in 1 .. a + i - Start(k)
  BY <1>7 DEF Wire
<1>9. a + i - s \in 1 .. z /\ v \in 1 .. a + i - s  BY <1>5, <1>6, <1>8
<1>10. QED  BY <1>5, <1>6, <1>7, <1>9

\* The types, for every list of sizes and every capacity; with them, no byte
\* has a place past the end of its message and no loop variable of Send_Data
\* (CommonFuncs.c:29-36) goes below 0.
THEOREM TypeCorrect == Spec => []TypeOK
<1>1. TransferInv => TypeOK
  <2> SUFFICES ASSUME TransferInv  PROVE TypeOK  OBVIOUS
  <2>1. PICK a \in Nat : Wire(a)  BY Position
  <2>2. stream \in Seq((1 .. Count) \X Nat)  BY DEF TransferInv, Types
  <2>3. DOMAIN stream = 1 .. Len(stream)  BY <2>2, LenProperties
  <2>4. ASSUME NEW i \in 1 .. Len(stream)  PROVE stream[i][2] \in 1 .. Size[stream[i][1]]
    <3>1. PICK k \in 1 .. Count, v \in Nat, s \in Nat, z \in Nat :
            /\ stream[i][1] = k /\ stream[i][2] = v /\ Start(k) = s /\ Size[k] = z
            /\ a + i - s \in 1 .. z /\ v \in 1 .. a + i - s
      BY <2>1, WireByte
    <3>2. i \in Nat  BY <2>2, LenProperties
    <3>3. v \in 1 .. z  BY <3>1, <3>2
    <3>4. QED  BY <3>1, <3>3
  <2>5. QED  BY <2>3, <2>4, SizeType DEF TypeOK, TransferInv, Types, Count
<1>2. QED  BY <1>1, TransferInvariant, PTL

\* However the transfers are cut and whoever dies, a call of Receive_Data that
\* starts finds no byte of an earlier message, and one that returned had a
\* message that was sent with all its bytes (CommonFuncs.c:27-50).
THEOREM BoundariesAlwaysKept == Spec => []BoundariesKept
<1>1. TransferInv => BoundariesKept
  <2> SUFFICES ASSUME TransferInv  PROVE BoundariesKept  OBVIOUS
  <2>1. PICK a \in Nat, b \in Nat :
          /\ ReceiverAt(a) /\ SenderAt(b) /\ b = a + Len(stream) /\ Wire(a)
          /\ Start(Receiving) \in Nat /\ Start(Receiving) <= a
          /\ rpc = "idle" => a = Start(Receiving)
    BY Position
  <2>2. /\ stream \in Seq((1 .. Count) \X Nat) /\ delivered \in Seq(Seq(Contents))
        /\ Len(delivered) <= Count /\ sent \in 0 .. Count
        /\ bytes_to_send \in Nat /\ copied \in 0 .. bytes_to_send
    BY DEF TransferInv, Types
  <2>3. /\ DOMAIN stream = 1 .. Len(stream) /\ Len(stream) \in Nat
        /\ DOMAIN delivered = 1 .. Len(delivered) /\ Len(delivered) \in Nat
    BY <2>2, LenProperties
  <2>4. Receiving \in 1 .. Count + 1 /\ Receiving = Len(delivered) + 1
    BY <2>2, <2>3, SizeType DEF Receiving
  <2>5. PICK at \in Nat : at = Start(Receiving)  BY <2>1
  <2>6. ASSUME rpc = "idle", NEW i \in 1 .. Len(stream)
        PROVE  stream[i][1] >= Receiving /\ (i = 1 => stream[i][2] = 1)
    <3>1. PICK k \in 1 .. Count, v \in Nat, s \in Nat, z \in Nat :
            /\ stream[i][1] = k /\ stream[i][2] = v /\ Start(k) = s /\ Size[k] = z
            /\ a + i - s \in 1 .. z /\ v \in 1 .. a + i - s
      BY <2>1, WireByte
    <3>2. i \in Nat /\ i >= 1 /\ a = at  BY <2>1, <2>3, <2>5, <2>6
    <3>3. k + 1 \in 1 .. Count + 1 /\ k \in 1 .. Count + 1  BY SizeType
    <3>4. k >= Receiving
      <4>1. SUFFICES ASSUME k + 1 <= Receiving  PROVE FALSE  BY <2>4, SizeType
      <4>2. Start(k + 1) <= Start(Receiving)  BY <2>4, <3>3, <4>1, StartMonotonic
      <4>3. Start(k + 1) = s + z  BY <3>1, StartNext
      <4>4. s + z <= at  BY <2>5, <4>2, <4>3
      <4>5. QED  BY <3>1, <3>2, <4>4
    <3>5. at <= s
      <4>1. Start(Receiving) <= Start(k)  BY <2>4, <3>3, <3>4, StartMonotonic
      <4>2. QED  BY <2>5, <3>1, <4>1
    <3>6. i = 1 => v = 1  BY <3>1, <3>2, <3>5
    <3>7. QED  BY <3>1, <3>4, <3>6
  <2>7. ASSUME NEW m \in 1 .. Len(delivered), Size[m] # 0, ~(m <= sent)
        PROVE  m = Sending /\ bytes_to_send = copied
    <3>1. m \in 1 .. Count /\ m \in 1 .. Count + 1 /\ m + 1 \in 1 .. Count + 1 /\ m + 1 <= Receiving
          /\ m >= Sending /\ Sending \in 1 .. Count /\ Sending \in 1 .. Count + 1
      BY <2>2, <2>3, <2>4, <2>7, SizeType DEF Sending
    <3>2. PICK z \in Nat : z = Size[m]  BY <3>1, SizeType
    <3>3. PICK s \in Nat : s = Start(m)  BY <3>1, BeforeFinite
    <3>4. s + z <= at
      <4>1. Start(m + 1) <= Start(Receiving)  BY <2>4, <3>1, StartMonotonic
      <4>2. Start(m + 1) = s + z  BY <3>1, <3>2, <3>3, StartNext
      <4>3. QED  BY <2>5, <4>1, <4>2
    <3>5. at <= b  BY <2>1, <2>3, <2>5
    <3>6. s + 1 <= b  BY <2>7, <3>2, <3>4, <3>5
    <3>7. PICK y \in Nat : y = Size[Sending]  BY <3>1, SizeType
    <3>8. PICK t \in Nat : t = Start(Sending)  BY <3>1, BeforeFinite
    <3>9. b # t
      <4>1. Start(Sending) <= Start(m)  BY <3>1, StartMonotonic
      <4>2. t <= s  BY <3>3, <3>8, <4>1
      <4>3. QED  BY <3>6, <4>2
    <3>10. bytes_to_send <= y /\ b = t + (y - bytes_to_send) + copied
      BY <2>1, <3>7, <3>8, <3>9 DEF SenderAt
    <3>11. m = Sending
      <4>1. SUFFICES ASSUME Sending + 1 <= m  PROVE FALSE  BY <3>1, SizeType
      <4>2. Sending + 1 \in 1 .. Count + 1  BY <3>1, SizeType
      <4>3. Start(Sending + 1) <= Start(m)  BY <3>1, <4>1, <4>2, StartMonotonic
      <4>4. Start(Sending + 1) = t + y  BY <3>1, <3>7, <3>8, StartNext
      <4>5. t + y <= s  BY <3>3, <4>3, <4>4
      <4>6. QED  BY <2>2, <3>6, <3>10, <4>5
    <3>12. s = t /\ z = y  BY <3>2, <3>3, <3>7, <3>8, <3>11
    <3>13. bytes_to_send = copied  BY <2>2, <3>4, <3>5, <3>10, <3>12
    <3>14. QED  BY <3>11, <3>13
  <2>8. stream # <<>> => 1 \in 1 .. Len(stream)  BY <2>2, <2>3, EmptySeq
  <2>9. QED  BY <2>3, <2>6, <2>7, <2>8 DEF BoundariesKept
<1>2. QED  BY <1>1, TransferInvariant, PTL

\* A message whose own transfers were whole arrives as it was sent, whatever
\* happened to the messages before it (CommonFuncs.c:31, 44).
THEOREM OnlyShortOnesDamaged == Spec => []WholeUnlessShort
<1>1. TransferInv => WholeUnlessShort
  <2> SUFFICES ASSUME TransferInv  PROVE WholeUnlessShort  OBVIOUS
  <2>1. delivered \in Seq(Seq(Contents))  BY DEF TransferInv, Types
  <2>2. DOMAIN delivered = 1 .. Len(delivered)  BY <2>1, LenProperties
  <2>3. QED  BY <2>2 DEF WholeUnlessShort, TransferInv, Whole
<1>2. QED  BY <1>1, TransferInvariant, PTL
=============================================================================
