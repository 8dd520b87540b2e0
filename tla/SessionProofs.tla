----------------------------- MODULE SessionProofs -----------------------------
(***************************************************************************)
(* The exchange between a client and its communication thread keeps both   *)
(* sides in step, and the path of a copy is the intended one, for any      *)
(* directories, files and lengths.                                         *)
(*                                                                         *)
(* A byte on the wire says nothing of what it means, so the invariant lists*)
(* the phases of the exchange with exactly what is on its way in each.     *)
(***************************************************************************)
EXTENDS Session, SequenceTheorems, NumberSets

-----------------------------------------------------------------------------
(* The phases of the exchange *)

Phase(client, server, toserver, toclient) ==
  cpc = client /\ spc = server /\ toServer = toserver /\ toClient = toclient

L == NameLength[directory]
T == TextLength + L

\* The server has not got the name yet.
Asking ==
  \/ Phase("request", "length", <<>>, <<>>)
  \/ Phase("name", "length", Length(L), <<>>)
  \/ Phase("name", "name", <<>>, <<>>) /\ s_length = L
  \/ Phase("textlength", "length", Length(L) \o Name(directory), <<>>)
  \/ Phase("textlength", "name", Name(directory), <<>>) /\ s_length = L

\* The client waits for the text; the letters of WRONG_MSG, which come without
\* a length, are taken for a length that no text has.
Waiting ==
  \/ Phase("textlength", "open", <<>>, <<>>)
  \/ Phase("textlength", "ack1", <<>>, Length(T) \o Found(directory)) /\ directory \in Valid
  \/ Phase("textlength", "exited", <<>>, Wrong) /\ directory \notin Valid
  \/ Phase("text", "ack1", <<>>, Found(directory)) /\ directory \in Valid /\ c_length = T
  \/ Phase("text", "exited", <<>>, Rest(Wrong, 2)) /\ directory \notin Valid /\ c_length = MaxLength

\* The client has its confirmation.
Confirmed ==
  /\ directory \in Valid
  /\ \/ Phase("decide", "ack1", <<>>, <<>>) /\ c_buffer = Found(directory)
     \/ Phase("blocksize", "ack1", ACK, <<>>)
     \/ Phase("blocksize", "ack2", <<>>, Number(server_block_size))
     \/ Phase("copy", "ack2", ACK, <<>>) /\ block_size = server_block_size
     \/ Phase("copy", "scan", <<>>, <<>>) /\ block_size = server_block_size

Values ==
  /\ directory \in Directories /\ server_block_size \in BlockSizes
  /\ block_size \in BlockSizes \cup {0}
  /\ c_length \in 0 .. MaxLength /\ s_length \in 0 .. MaxLength

Exchange ==
  /\ Values
  /\ \/ Asking /\ path = NoDirectory
     \/ (Waiting \/ Confirmed) /\ path = directory

-----------------------------------------------------------------------------
(* Bytes *)

Kinds == {"length", "name", "found", "wrong", "ack", "number"}
Bytes == Kinds \X (Nat \cup Directories) \X Nat

LEMMA EncodeIsASeq ==
  ASSUME NEW kind \in Kinds,
         NEW value \in Nat \cup Directories, NEW n \in Nat
  PROVE  /\ Encode(kind, value, n) \in Seq(Bytes)
         /\ Len(Encode(kind, value, n)) = n
         /\ \A i \in 1 .. n : Encode(kind, value, n)[i] = <<kind, value, i>>
<1>1. \A i \in 1 .. n : <<kind, value, i>> \in Bytes  BY DEF Bytes
<1>2. Encode(kind, value, n) \in [1 .. n -> Bytes]  BY <1>1 DEF Encode
<1>3. Encode(kind, value, n) \in Seq(Bytes)  BY <1>2, IsASeq
<1>4. Len(Encode(kind, value, n)) = n  BY <1>2, <1>3, LenProperties
<1>5. QED  BY <1>3, <1>4 DEF Encode

\* A receiver that takes as many bytes as the first message has takes it whole.
LEMMA Split ==
  ASSUME NEW S, NEW s \in Seq(S), NEW t \in Seq(S), NEW n \in Nat, Len(s) = n
  PROVE  /\ Has(s \o t, n)
         /\ Prefix(s \o t, n) = s
         /\ Rest(s \o t, n) = t
<1> DEFINE u == s \o t
<1>0. Len(t) \in Nat  BY LenProperties
<1>1. /\ u \in Seq(S) /\ Len(u) = n + Len(t)
      /\ \A i \in 1 .. n + Len(t) : u[i] = IF i <= n THEN s[i] ELSE t[i - n]
  BY ConcatProperties
<1> HIDE DEF u
<1>2. \A i \in 1 .. n + Len(t) : u[i] \in S  BY <1>1, ElementOfSeq
<1>3. Prefix(u, n) = s
  <2>1. /\ Prefix(u, n) \in Seq(S) /\ Len(Prefix(u, n)) = n
        /\ \A i \in 1 .. n : Prefix(u, n)[i] = u[i]
    BY <1>0, <1>2, SubSeqProperties DEF Prefix
  <2>2. \A i \in 1 .. n : Prefix(u, n)[i] = s[i]  BY <1>0, <1>1, <2>1
  <2>3. QED  BY <2>1, <2>2, SeqEqual
<1>4. Rest(u, n) = t
  <2>1. \A i \in n + 1 .. n + Len(t) : u[i] \in S  BY <1>0, <1>2
  <2>2. /\ Rest(u, n) \in Seq(S)
        /\ Len(Rest(u, n)) = IF n + 1 <= n + Len(t) THEN n + Len(t) - (n + 1) + 1 ELSE 0
        /\ \A i \in 1 .. n + Len(t) - (n + 1) + 1 : Rest(u, n)[i] = u[n + 1 + i - 1]
    BY <1>0, <1>1, <2>1, SubSeqProperties DEF Rest
  <2>3. Len(Rest(u, n)) = Len(t)  BY <1>0, <2>2
  <2>4. ASSUME NEW i \in 1 .. Len(t)  PROVE Rest(u, n)[i] = t[i]
    <3>1. Rest(u, n)[i] = u[n + i]  BY <1>0, <2>2
    <3>2. u[n + i] = t[i]  BY <1>0, <1>1
    <3>3. QED  BY <3>1, <3>2
  <2>5. QED  BY <2>2, <2>3, <2>4, SeqEqual
<1>5. QED  BY <1>0, <1>1, <1>3, <1>4 DEF Has, u

LEMMA WholeMessage ==
  ASSUME NEW S, NEW s \in Seq(S), NEW n \in Nat, Len(s) = n
  PROVE  Has(s, n) /\ Prefix(s, n) = s /\ Rest(s, n) = <<>>
<1>1. <<>> \in Seq(S) /\ s \o <<>> = s  BY EmptySeq, ConcatEmptySeq
<1>2. Has(s \o <<>>, n) /\ Prefix(s \o <<>>, n) = s /\ Rest(s \o <<>>, n) = <<>>
  BY <1>1, Split
<1>3. QED  BY <1>1, <1>2

-----------------------------------------------------------------------------
(* Messages *)

LEMMA LengthsFit ==
  ASSUME NEW d \in Directories
  PROVE  /\ NameLength[d] \in Nat \ {0}
         /\ NameLength[d] \in 0 .. MaxLength /\ TextLength + NameLength[d] \in 0 .. MaxLength
         /\ TextLength + NameLength[d] \in Nat \ {0}
         /\ MaxLength \in Nat /\ WrongLength \in Nat /\ WrongLength > 2 /\ MaxLength > WrongLength
<1>1. NameLength[d] \in Nat \ {0} /\ MaxLength > TextLength + NameLength[d]
      /\ TextLength \in Nat /\ MaxLength \in Nat /\ WrongLength \in Nat
      /\ WrongLength > 2 /\ MaxLength > WrongLength
  BY HandshakeAssumption
<1>2. QED  BY <1>1

LEMMA MessagesAreSeqs ==
  /\ \A v \in Nat : /\ Length(v) \in Seq(Bytes) /\ Len(Length(v)) = 2
                    /\ Number(v) \in Seq(Bytes) /\ Len(Number(v)) = 4
  /\ \A d \in Directories :
       /\ Name(d) \in Seq(Bytes) /\ Len(Name(d)) = NameLength[d]
       /\ Found(d) \in Seq(Bytes) /\ Len(Found(d)) = TextLength + NameLength[d]
  /\ Wrong \in Seq(Bytes) /\ Len(Wrong) = WrongLength
  /\ ACK \in Seq(Bytes) /\ Len(ACK) = 3
<1>1. WrongLength \in Nat  BY HandshakeAssumption
<1>2. \A d \in Directories : NameLength[d] \in Nat /\ TextLength + NameLength[d] \in Nat
  BY LengthsFit
<1>3. ASSUME NEW v \in Nat
      PROVE  /\ Length(v) \in Seq(Bytes) /\ Len(Length(v)) = 2
             /\ Number(v) \in Seq(Bytes) /\ Len(Number(v)) = 4
  <2>1. v \in Nat \cup Directories /\ 2 \in Nat /\ 4 \in Nat  OBVIOUS
  <2>2. "length" \in Kinds /\ "number" \in Kinds  BY DEF Kinds
  <2>3. Length(v) \in Seq(Bytes) /\ Len(Length(v)) = 2
    BY <2>1, <2>2, EncodeIsASeq, Zenon DEF Length
  <2>4. Number(v) \in Seq(Bytes) /\ Len(Number(v)) = 4
    BY <2>1, <2>2, EncodeIsASeq, Zenon DEF Number
  <2>5. QED  BY <2>3, <2>4
<1>4. ASSUME NEW d \in Directories
      PROVE  /\ Name(d) \in Seq(Bytes) /\ Len(Name(d)) = NameLength[d]
             /\ Found(d) \in Seq(Bytes) /\ Len(Found(d)) = TextLength + NameLength[d]
  <2>1. d \in Nat \cup Directories /\ "name" \in Kinds /\ "found" \in Kinds  BY DEF Kinds
  <2>2. Name(d) \in Seq(Bytes) /\ Len(Name(d)) = NameLength[d]
    BY <1>2, <2>1, EncodeIsASeq, Zenon DEF Name
  <2>3. Found(d) \in Seq(Bytes) /\ Len(Found(d)) = TextLength + NameLength[d]
    BY <1>2, <2>1, EncodeIsASeq, Zenon DEF Found
  <2>4. QED  BY <2>2, <2>3
<1>5. /\ Wrong \in Seq(Bytes) /\ Len(Wrong) = WrongLength
      /\ ACK \in Seq(Bytes) /\ Len(ACK) = 3
  <2>1. 0 \in Nat \cup Directories /\ 3 \in Nat /\ "wrong" \in Kinds /\ "ack" \in Kinds  BY DEF Kinds
  <2>2. Wrong \in Seq(Bytes) /\ Len(Wrong) = WrongLength
    BY <1>1, <2>1, EncodeIsASeq, Zenon DEF Wrong
  <2>3. ACK \in Seq(Bytes) /\ Len(ACK) = 3
    BY <2>1, EncodeIsASeq, Zenon DEF ACK
  <2>4. QED  BY <2>2, <2>3
<1>6. QED  BY <1>3, <1>4, <1>5

\* Messages that are equal say the same.
LEMMA EncodeInjective ==
  ASSUME NEW kind, NEW value, NEW n \in Nat \ {0}, NEW kind2, NEW value2, NEW n2 \in Nat \ {0},
         Encode(kind, value, n) = Encode(kind2, value2, n2)
  PROVE  kind = kind2 /\ value = value2
<1>1. Encode(kind, value, n)[1] = <<kind, value, 1>>  BY DEF Encode
<1>2. Encode(kind2, value2, n2)[1] = <<kind2, value2, 1>>  BY DEF Encode
<1>3. QED  BY <1>1, <1>2

LEMMA LengthReadBack ==
  ASSUME NEW v \in 0 .. MaxLength
  PROVE  AsLength(Length(v)) = v
<1>1. \A w \in 0 .. MaxLength : Length(v) = Length(w) => w = v
  BY EncodeInjective DEF Length
<1>2. QED  BY <1>1 DEF AsLength

LEMMA WrongIsNoLength == AsLength(Prefix(Wrong, 2)) = MaxLength
<1>1. WrongLength \in Nat /\ WrongLength > 2  BY HandshakeAssumption
<1>2. \A i \in 1 .. WrongLength : Wrong[i] = <<"wrong", 0, i>>  BY DEF Wrong, Encode
<1>3. Prefix(Wrong, 2) = [i \in 1 .. 2 |-> Wrong[i]]
  BY SMT DEF Prefix
<1>4. Prefix(Wrong, 2)[1] = <<"wrong", 0, 1>>  BY <1>1, <1>2, <1>3
<1>5. \A v : Length(v)[1] = <<"length", v, 1>>  BY DEF Length, Encode
<1>6. \A v : Prefix(Wrong, 2) # Length(v)  BY <1>4, <1>5
<1>7. QED  BY <1>6 DEF AsLength

LEMMA WrongLeft ==
  /\ Has(Wrong, 2)
  /\ Rest(Wrong, 2) \in Seq(Bytes)
  /\ ~ Has(Rest(Wrong, 2), MaxLength)
<1>1. WrongLength \in Nat /\ WrongLength > 2 /\ MaxLength > WrongLength /\ MaxLength \in Nat
  BY HandshakeAssumption
<1>2. Wrong \in Seq(Bytes) /\ Len(Wrong) = WrongLength  BY MessagesAreSeqs
<1>3. \A i \in 2 + 1 .. WrongLength : Wrong[i] \in Bytes  BY <1>1, <1>2, ElementOfSeq
<1>4. Rest(Wrong, 2) \in Seq(Bytes) /\ Len(Rest(Wrong, 2)) = WrongLength - 2
  BY <1>1, <1>2, <1>3, SubSeqProperties DEF Rest
<1>5. QED  BY <1>1, <1>2, <1>4 DEF Has

LEMMA NameReadBack ==
  ASSUME NEW d \in Directories
  PROVE  /\ \E e \in Directories : Name(d) = Name(e)
         /\ (CHOOSE e \in Directories : Name(d) = Name(e)) = d
<1>1. \A e \in Directories : Name(d) = Name(e) => e = d
  BY EncodeInjective, LengthsFit DEF Name
<1>2. QED  BY <1>1

LEMMA NumberReadBack ==
  ASSUME NEW b \in BlockSizes
  PROVE  /\ \E e \in BlockSizes : Number(b) = Number(e)
         /\ (CHOOSE e \in BlockSizes : Number(b) = Number(e)) = b
<1>1. \A e \in BlockSizes : Number(b) = Number(e) => e = b
  BY EncodeInjective DEF Number
<1>2. QED  BY <1>1

LEMMA TextsDiffer ==
  ASSUME NEW d \in Directories
  PROVE  Found(d) # Wrong
<1>1. TextLength + NameLength[d] \in Nat \ {0} /\ WrongLength \in Nat \ {0}  BY LengthsFit
<1>2. QED  BY <1>1, EncodeInjective DEF Found, Wrong

-----------------------------------------------------------------------------
(* The phases follow each other *)


LEMMA ExchangeInit == Init => Exchange
<1> SUFFICES ASSUME Init  PROVE Exchange  OBVIOUS
<1>1. MaxLength \in Nat  BY HandshakeAssumption
<1>2. QED  BY <1>1 DEF Init, Exchange, Values, Asking, Phase

LEMMA SendLengthKeepsPhase ==
  ASSUME Exchange, SendLength
  PROVE  Exchange'
<1>1. Phase("request", "length", <<>>, <<>>) /\ path = NoDirectory
  BY DEF Exchange, Asking, Waiting, Confirmed, Phase, SendLength
<1>2. L \in Nat  BY LengthsFit DEF Exchange, Values, L
<1>3. <<>> \o Length(L) = Length(L)  BY <1>2, MessagesAreSeqs, ConcatEmptySeq
<1>4. Asking'
  BY <1>1, <1>3 DEF SendLength, Asking, Phase, L, serverVars
<1>5. Values' /\ path' = NoDirectory  BY <1>1 DEF Exchange, Values, SendLength, serverVars
<1>6. QED  BY <1>4, <1>5 DEF Exchange

LEMMA SendNameKeepsPhase ==
  ASSUME Exchange, SendName
  PROVE  Exchange'
<1>1. /\ \/ Phase("name", "length", Length(L), <<>>)
         \/ Phase("name", "name", <<>>, <<>>) /\ s_length = L
      /\ path = NoDirectory /\ directory \in Directories
  BY DEF Exchange, Values, Asking, Waiting, Confirmed, Phase, SendName
<1>2. <<>> \o Name(directory) = Name(directory)  BY <1>1, MessagesAreSeqs, ConcatEmptySeq
<1>3. Asking'
  BY <1>1, <1>2 DEF SendName, Asking, Phase, L, serverVars
<1>4. Values' /\ path' = NoDirectory  BY <1>1 DEF Exchange, Values, SendName, serverVars
<1>5. QED  BY <1>3, <1>4 DEF Exchange

LEMMA ReceiveLengthKeepsPhase ==
  ASSUME Exchange, ReceiveLength
  PROVE  Exchange'
<1>0. directory \in Directories /\ L \in Nat /\ L \in 0 .. MaxLength
  BY LengthsFit DEF Exchange, Values, L
<1>1. /\ \/ Phase("name", "length", Length(L), <<>>)
         \/ Phase("textlength", "length", Length(L) \o Name(directory), <<>>)
      /\ path = NoDirectory
  <2>1. ~ Has(<<>>, 2)  BY DEF Has
  <2>2. QED  BY <2>1 DEF Exchange, Asking, Waiting, Confirmed, Phase, ReceiveLength
<1>2. CASE Phase("name", "length", Length(L), <<>>)
  <2>1. Prefix(Length(L), 2) = Length(L) /\ Rest(Length(L), 2) = <<>>
    BY <1>0, MessagesAreSeqs, WholeMessage
  <2>2. s_length' = L  BY <1>0, <1>2, <2>1, LengthReadBack DEF ReceiveLength, Phase
  <2>3. Asking'
    BY <1>2, <2>1, <2>2 DEF ReceiveLength, Asking, Phase, L, clientVars
  <2>4. Values' /\ path' = NoDirectory
    BY <1>0, <1>1, <2>2 DEF Exchange, Values, ReceiveLength, clientVars
  <2>5. QED  BY <2>3, <2>4 DEF Exchange
<1>3. CASE Phase("textlength", "length", Length(L) \o Name(directory), <<>>)
  <2>1. /\ Prefix(Length(L) \o Name(directory), 2) = Length(L)
        /\ Rest(Length(L) \o Name(directory), 2) = Name(directory)
    BY <1>0, MessagesAreSeqs, Split
  <2>2. s_length' = L  BY <1>0, <1>3, <2>1, LengthReadBack DEF ReceiveLength, Phase
  <2>3. Asking'
    BY <1>3, <2>1, <2>2 DEF ReceiveLength, Asking, Phase, L, clientVars
  <2>4. Values' /\ path' = NoDirectory
    BY <1>0, <1>1, <2>2 DEF Exchange, Values, ReceiveLength, clientVars
  <2>5. QED  BY <2>3, <2>4 DEF Exchange
<1>4. QED  BY <1>1, <1>2, <1>3

LEMMA ReceiveNameKeepsPhase ==
  ASSUME Exchange, ReceiveName
  PROVE  Exchange'
<1>0. directory \in Directories /\ L \in Nat \ {0}
  BY LengthsFit DEF Exchange, Values, L
<1>1. Phase("textlength", "name", Name(directory), <<>>) /\ s_length = L
  <2>1. ~ Has(<<>>, L)  BY <1>0 DEF Has
  <2>2. QED  BY <2>1 DEF Exchange, Asking, Waiting, Confirmed, Phase, ReceiveName
<1>2. Prefix(Name(directory), L) = Name(directory) /\ Rest(Name(directory), L) = <<>>
  BY <1>0, MessagesAreSeqs, WholeMessage DEF L
<1>3. path' = directory  BY <1>0, <1>1, <1>2, NameReadBack DEF ReceiveName, Phase
<1>4. Waiting'
  BY <1>1, <1>2 DEF ReceiveName, Waiting, Phase, clientVars
<1>5. Values' /\ path' = directory'  BY <1>3 DEF Exchange, Values, ReceiveName, clientVars
<1>6. QED  BY <1>4, <1>5 DEF Exchange

LEMMA OpenKeepsPhase ==
  ASSUME Exchange, SendWrong \/ Confirm
  PROVE  Exchange'
<1>0. directory \in Directories  BY DEF Exchange, Values
<1>1. Phase("textlength", "open", <<>>, <<>>) /\ path = directory
  BY DEF Exchange, Asking, Waiting, Confirmed, Phase, SendWrong, Confirm
<1>2. Values' /\ path' = directory'
  BY <1>1 DEF Exchange, Values, SendWrong, Confirm, clientVars
<1>3. CASE SendWrong
  <2>1. <<>> \o Wrong = Wrong  BY MessagesAreSeqs, ConcatEmptySeq
  <2>2. Waiting'  BY <1>1, <1>3, <2>1 DEF SendWrong, Waiting, Phase, clientVars
  <2>3. QED  BY <1>2, <2>2 DEF Exchange
<1>4. CASE Confirm
  <2>1. T \in Nat  BY <1>0, LengthsFit DEF T, L
  <2>2. <<>> \o Length(T) = Length(T)  BY <2>1, MessagesAreSeqs, ConcatEmptySeq
  <2>3. toClient' = Length(T) \o Found(directory) /\ directory \in Valid
    BY <1>1, <1>4, <2>2 DEF Confirm, Phase, T, L
  <2>4. Waiting'  BY <1>1, <1>4, <2>3 DEF Confirm, Waiting, Phase, T, L, clientVars
  <2>5. QED  BY <1>2, <2>4 DEF Exchange
<1>5. QED  BY <1>3, <1>4

LEMMA ReceiveTextLengthKeepsPhase ==
  ASSUME Exchange, ReceiveTextLength
  PROVE  Exchange'
<1>0. /\ directory \in Directories /\ T \in Nat /\ T \in 0 .. MaxLength /\ MaxLength \in 0 .. MaxLength
  BY LengthsFit DEF Exchange, Values, T, L
<1>1. /\ \/ Phase("textlength", "ack1", <<>>, Length(T) \o Found(directory)) /\ directory \in Valid
         \/ Phase("textlength", "exited", <<>>, Wrong) /\ directory \notin Valid
      /\ path = directory
  <2>1. ~ Has(<<>>, 2)  BY DEF Has
  <2>2. QED  BY <2>1 DEF Exchange, Asking, Waiting, Confirmed, Phase, ReceiveTextLength
<1>2. CASE Phase("textlength", "ack1", <<>>, Length(T) \o Found(directory)) /\ directory \in Valid
  <2>1. /\ Prefix(Length(T) \o Found(directory), 2) = Length(T)
        /\ Rest(Length(T) \o Found(directory), 2) = Found(directory)
    BY <1>0, MessagesAreSeqs, Split
  <2>2. c_length' = T  BY <1>0, <1>2, <2>1, LengthReadBack DEF ReceiveTextLength, Phase
  <2>3. Waiting'
    BY <1>2, <2>1, <2>2 DEF ReceiveTextLength, Waiting, Phase, T, L, serverVars
  <2>4. Values' /\ path' = directory'
    BY <1>0, <1>1, <2>2 DEF Exchange, Values, ReceiveTextLength, serverVars
  <2>5. QED  BY <2>3, <2>4 DEF Exchange
<1>3. CASE Phase("textlength", "exited", <<>>, Wrong) /\ directory \notin Valid
  <2>1. c_length' = MaxLength /\ toClient' = Rest(Wrong, 2)
    BY <1>3, WrongIsNoLength DEF ReceiveTextLength, Phase
  <2>2. Waiting'
    BY <1>3, <2>1 DEF ReceiveTextLength, Waiting, Phase, T, L, serverVars
  <2>3. Values' /\ path' = directory'
    BY <1>0, <1>1, <2>1 DEF Exchange, Values, ReceiveTextLength, serverVars
  <2>4. QED  BY <2>2, <2>3 DEF Exchange
<1>4. QED  BY <1>1, <1>2, <1>3

\* Only a client whose directory is there gets its text.
LEMMA ReceiveTextKeepsPhase ==
  ASSUME Exchange, ReceiveText
  PROVE  Exchange'
<1>0. directory \in Directories /\ T \in Nat  BY LengthsFit DEF Exchange, Values, T, L
<1>1. /\ Phase("text", "ack1", <<>>, Found(directory)) /\ directory \in Valid /\ c_length = T
      /\ path = directory
  <2>1. Has(toClient, c_length) /\ cpc = "text"  BY DEF ReceiveText
  <2>2. ~ (Phase("text", "exited", <<>>, Rest(Wrong, 2)) /\ c_length = MaxLength)
    BY <2>1, WrongLeft DEF Phase
  <2>3. QED  BY <2>1, <2>2 DEF Exchange, Asking, Waiting, Confirmed, Phase
<1>2. Prefix(Found(directory), T) = Found(directory) /\ Rest(Found(directory), T) = <<>>
  BY <1>0, MessagesAreSeqs, WholeMessage DEF T, L
<1>3. Confirmed'
  BY <1>1, <1>2 DEF ReceiveText, Confirmed, Phase, serverVars
<1>4. Values' /\ path' = directory'
  BY <1>1 DEF Exchange, Values, ReceiveText, serverVars
<1>5. QED  BY <1>3, <1>4 DEF Exchange

LEMMA DecideKeepsPhase ==
  ASSUME Exchange, Decide
  PROVE  Exchange'
<1>0. directory \in Directories  BY DEF Exchange, Values
<1>1. /\ Phase("decide", "ack1", <<>>, <<>>) /\ c_buffer = Found(directory)
      /\ directory \in Valid /\ path = directory
  BY DEF Exchange, Asking, Waiting, Confirmed, Phase, Decide
<1>2. c_buffer # Wrong /\ <<>> \o ACK = ACK
  BY <1>0, <1>1, TextsDiffer, MessagesAreSeqs, ConcatEmptySeq
<1>3. cpc' = "blocksize" /\ toServer' = ACK  BY <1>1, <1>2 DEF Decide, Phase
<1>4. Confirmed'  BY <1>1, <1>3 DEF Decide, Confirmed, Phase, serverVars
<1>5. Values' /\ path' = directory'
  BY <1>1 DEF Exchange, Values, Decide, serverVars
<1>6. QED  BY <1>4, <1>5 DEF Exchange

LEMMA ReceiveBlockSizeKeepsPhase ==
  ASSUME Exchange, ReceiveBlockSize
  PROVE  Exchange'
<1>0. server_block_size \in BlockSizes /\ server_block_size \in Nat
  BY HandshakeAssumption DEF Exchange, Values
<1>1. /\ Phase("blocksize", "ack2", <<>>, Number(server_block_size))
      /\ directory \in Valid /\ path = directory
  <2>1. ~ Has(<<>>, 4)  BY DEF Has
  <2>2. QED  BY <2>1 DEF Exchange, Asking, Waiting, Confirmed, Phase, ReceiveBlockSize
<1>2. /\ Prefix(Number(server_block_size), 4) = Number(server_block_size)
      /\ Rest(Number(server_block_size), 4) = <<>>
  BY <1>0, MessagesAreSeqs, WholeMessage
<1>3. block_size' = server_block_size
  BY <1>0, <1>1, <1>2, NumberReadBack DEF ReceiveBlockSize, Phase
<1>4. <<>> \o ACK = ACK  BY MessagesAreSeqs, ConcatEmptySeq
<1>5. Confirmed'
  BY <1>1, <1>2, <1>3, <1>4 DEF ReceiveBlockSize, Confirmed, Phase, serverVars
<1>6. Values' /\ path' = directory'
  BY <1>0, <1>1, <1>3 DEF Exchange, Values, ReceiveBlockSize, serverVars
<1>7. QED  BY <1>5, <1>6 DEF Exchange

LEMMA SendBlockSizeKeepsPhase ==
  ASSUME Exchange, SendBlockSize
  PROVE  Exchange'
<1>0. server_block_size \in Nat  BY HandshakeAssumption DEF Exchange, Values
<1>1. Phase("blocksize", "ack1", ACK, <<>>) /\ directory \in Valid /\ path = directory
  <2>1. ~ Has(<<>>, 3)  BY DEF Has
  <2>2. QED  BY <2>1 DEF Exchange, Asking, Waiting, Confirmed, Phase, SendBlockSize
<1>2. Rest(ACK, 3) = <<>>  BY MessagesAreSeqs, WholeMessage
<1>3. <<>> \o Number(server_block_size) = Number(server_block_size)
  BY <1>0, MessagesAreSeqs, ConcatEmptySeq
<1>4. Confirmed'
  BY <1>1, <1>2, <1>3 DEF SendBlockSize, Confirmed, Phase, clientVars
<1>5. Values' /\ path' = directory'
  BY <1>1 DEF Exchange, Values, SendBlockSize, clientVars
<1>6. QED  BY <1>4, <1>5 DEF Exchange

LEMMA ReceiveAckKeepsPhase ==
  ASSUME Exchange, ReceiveAck
  PROVE  Exchange'
<1>1. /\ Phase("copy", "ack2", ACK, <<>>) /\ block_size = server_block_size
      /\ directory \in Valid /\ path = directory
  <2>1. ~ Has(<<>>, 3)  BY DEF Has
  <2>2. QED  BY <2>1 DEF Exchange, Asking, Waiting, Confirmed, Phase, ReceiveAck
<1>2. Rest(ACK, 3) = <<>>  BY MessagesAreSeqs, WholeMessage
<1>3. Confirmed'
  BY <1>1, <1>2 DEF ReceiveAck, Confirmed, Phase, clientVars
<1>4. Values' /\ path' = directory'
  BY <1>1 DEF Exchange, Values, ReceiveAck, clientVars
<1>5. QED  BY <1>3, <1>4 DEF Exchange

LEMMA ExchangeStep ==
  ASSUME Exchange, [Next]_vars
  PROVE  Exchange'
<1>1. CASE UNCHANGED vars
  BY <1>1 DEF vars, clientVars, serverVars, Exchange, Values, Asking, Waiting, Confirmed, Phase, T, L
<1>2. CASE ClientStep
  BY <1>2, SendLengthKeepsPhase, SendNameKeepsPhase, ReceiveTextLengthKeepsPhase,
     ReceiveTextKeepsPhase, DecideKeepsPhase, ReceiveBlockSizeKeepsPhase DEF ClientStep
<1>3. CASE ServerStep
  BY <1>3, ReceiveLengthKeepsPhase, ReceiveNameKeepsPhase, OpenKeepsPhase,
     SendBlockSizeKeepsPhase, ReceiveAckKeepsPhase DEF ServerStep
<1>4. QED  BY <1>1, <1>2, <1>3 DEF Next

\* The exchange ends at most once: both sides leave it together.
LEMMA ExchangeEnds ==
  ASSUME Exchange, cpc = "copy", spc = "scan"
  PROVE  ~ Next
<1>1. ~ ClientStep
  BY DEF ClientStep, SendLength, SendName, ReceiveTextLength, ReceiveText, Decide, ReceiveBlockSize
<1>2. ~ ServerStep
  BY DEF ServerStep, ReceiveLength, ReceiveName, SendWrong, Confirm, SendBlockSize, ReceiveAck
<1>3. QED  BY <1>1, <1>2 DEF Next

-----------------------------------------------------------------------------
(* Strings *)

\* strstr finds the first place.
LEMMA OccurrenceIsFirst ==
  ASSUME NEW s, NEW t, Len(s) \in Nat
  PROVE  LET o == Resolve!Occurrence(s, t)
         IN  /\ o \in 0 .. Len(s)
             /\ o # 0 => Resolve!OccursAt(s, t, o)
             /\ \A i \in 1 .. Len(s) : Resolve!OccursAt(s, t, i) => o # 0 /\ o <= i
<1> DEFINE places == {i \in 1 .. Len(s) : Resolve!OccursAt(s, t, i)}
           least == CHOOSE i \in places : \A j \in places : i <= j
<1>1. Resolve!Occurrence(s, t) = IF places = {} THEN 0 ELSE least
  BY DEF Resolve!Occurrence
<1>2. CASE places = {}
  BY <1>1, <1>2
<1>3. CASE places # {}
  <2>1. places \in SUBSET Nat  OBVIOUS
  <2> HIDE DEF places
  <2>2. \E i \in places : \A j \in places : i <= j  BY <1>3, <2>1, LeastNumber
  <2>3. least \in places /\ \A j \in places : least <= j  BY <2>2
  <2> HIDE DEF least
  <2>4. QED  BY <1>1, <1>3, <2>3 DEF places
<1>4. QED  BY <1>2, <1>3

\* strrchr finds the last slash.
LEMMA SlashIsLast ==
  ASSUME NEW s, Len(s) \in Nat
  PROVE  LET k == Resolve!SlashOfName(s)
         IN  /\ k \in 0 .. Len(s)
             /\ k # 0 => s[k] = "/"
             /\ \A i \in 1 .. Len(s) : s[i] = "/" => k # 0 /\ i <= k
<1> DEFINE places == {i \in 1 .. Len(s) : s[i] = "/"}
           last == CHOOSE i \in places : \A j \in places : i >= j
<1>1. Resolve!SlashOfName(s) = IF places = {} THEN 0 ELSE last
  BY DEF Resolve!SlashOfName, Resolve!Slash
<1>2. CASE places = {}
  BY <1>1, <1>2
<1>3. CASE places # {}
  <2>1. places \in SUBSET (0 .. Len(s))  OBVIOUS
  <2> HIDE DEF places
  <2>2. \E i \in places : \A j \in places : j <= i  BY <1>3, <2>1, GreatestNumber
  <2>3. \E i \in places : \A j \in places : i >= j
    <3>1. PICK i \in places : \A j \in places : j <= i  BY <2>2
    <3>2. \A j \in places : i >= j  BY <2>1, <3>1
    <3>3. QED  BY <3>2
  <2>4. last \in places /\ \A j \in places : last >= j  BY <2>3
  <2> HIDE DEF last
  <2>5. QED  BY <1>1, <1>3, <2>4 DEF places
<1>4. QED  BY <1>2, <1>3

LEMMA SlashFound ==
  ASSUME NEW s \in Seq(Characters)
  PROVE  LET e == Resolve!Occurrence(s, <<"/">>)
         IN  /\ e \in 0 .. Len(s)
             /\ e # 0 => s[e] = "/"
             /\ \A i \in 1 .. Len(s) : s[i] = "/" => e # 0 /\ e <= i
<1> DEFINE e == Resolve!Occurrence(s, <<"/">>)
<1>0. Len(s) \in Nat  BY LenProperties
<1>1. ASSUME NEW i \in 1 .. Len(s)
      PROVE  Resolve!OccursAt(s, <<"/">>, i) <=> s[i] = "/"
  <2>1. Len(<<"/">>) = 1  OBVIOUS
  <2>2. i + 1 - 1 = i  OBVIOUS
  <2>3. SubSeq(s, i, i) = <<s[i]>>
    <3>1. \A j \in i .. i : s[j] \in Characters  BY <1>0, ElementOfSeq
    <3>2. /\ SubSeq(s, i, i) \in Seq(Characters) /\ Len(SubSeq(s, i, i)) = 1
          /\ SubSeq(s, i, i)[1] = s[i]
      BY <1>0, <3>1, SubSeqProperties
    <3>3. /\ <<s[i]>> \in Seq(Characters) /\ Len(<<s[i]>>) = 1 /\ <<s[i]>>[1] = s[i]
      BY <3>1, <1>0
    <3>4. \A j \in 1 .. 1 : SubSeq(s, i, i)[j] = <<s[i]>>[j]  BY <3>2, <3>3
    <3> DEFINE a == SubSeq(s, i, i)
               b == <<s[i]>>
    <3> HIDE DEF a, b
    <3>5. a \in Seq(Characters) /\ b \in Seq(Characters) /\ Len(a) = 1 /\ Len(b) = 1
          /\ \A j \in 1 .. 1 : a[j] = b[j]
      BY <3>2, <3>3, <3>4 DEF a, b
    <3>6. a = b  BY <3>5, SeqEqual
    <3>7. QED  BY <3>6 DEF a, b
  <2>4. Resolve!OccursAt(s, <<"/">>, i) <=> i <= Len(s) /\ <<s[i]>> = <<"/">>
    BY <2>1, <2>2, <2>3 DEF Resolve!OccursAt
  <2>5. QED  BY <1>0, <2>4
<1>2. /\ e \in 0 .. Len(s)
      /\ e # 0 => Resolve!OccursAt(s, <<"/">>, e)
      /\ \A i \in 1 .. Len(s) : Resolve!OccursAt(s, <<"/">>, i) => e # 0 /\ e <= i
  BY <1>0, OccurrenceIsFirst
<1> HIDE DEF e
<1>3. e # 0 => s[e] = "/"
  <2>1. e # 0 => e \in 1 .. Len(s)  BY <1>0, <1>2
  <2>2. QED  BY <1>1, <1>2, <2>1
<1>4. \A i \in 1 .. Len(s) : s[i] = "/" => e # 0 /\ e <= i  BY <1>1, <1>2
<1>5. QED  BY <1>2, <1>3, <1>4 DEF e

LEMMA StringTypes ==
  /\ \A s \in Strings : s \in Seq(Characters) /\ Len(s) \in Nat
  /\ DefaultDir \in Strings /\ NoDirectory \in Strings
  /\ Directories \subseteq Strings /\ FilePaths \subseteq Strings
<1>1. \A s \in Strings : s \in Seq(Characters)  BY StringAssumption
<1>2. \A s \in Strings : Len(s) \in Nat  BY <1>1, LenProperties
<1>3. QED  BY <1>1, <1>2 DEF Strings

\* A path in the server's file system, place by place.
LEMMA ServerPathParts ==
  ASSUME path \in Strings, rest \in FilePaths, "/" \in Characters
  PROVE  LET sp == Resolve!server_path
             d == Len(DefaultDir)
             n == Len(DefaultDir) + Len(path)
         IN  /\ sp \in Seq(Characters) /\ Len(sp) = n + 1 + Len(rest)
             /\ \A i \in 1 .. Len(path) : sp[d + i] = path[i]
             /\ sp[n + 1] = "/"
             /\ \A i \in 1 .. Len(rest) : sp[n + 1 + i] = rest[i]
<1>1. /\ DefaultDir \in Seq(Characters) /\ path \in Seq(Characters) /\ rest \in Seq(Characters)
      /\ Len(DefaultDir) \in Nat /\ Len(path) \in Nat /\ Len(rest) \in Nat
  BY StringTypes
<1> DEFINE slash == <<"/">>
<1>2. slash \in Seq(Characters) /\ Len(slash) = 1 /\ slash[1] = "/"  OBVIOUS
<1> DEFINE d == Len(DefaultDir)
           n == Len(DefaultDir) + Len(path)
           u == DefaultDir \o path
           v == u \o slash
           w == v \o rest
<1>3. /\ u \in Seq(Characters) /\ Len(u) = n
      /\ \A i \in 1 .. n : u[i] = IF i <= d THEN DefaultDir[i] ELSE path[i - d]
  BY <1>1, ConcatProperties
<1> HIDE DEF u, slash
<1>4. /\ v \in Seq(Characters) /\ Len(v) = n + 1
      /\ \A i \in 1 .. n + 1 : v[i] = IF i <= n THEN u[i] ELSE slash[i - n]
  <2>0. u \in Seq(Characters) /\ slash \in Seq(Characters)  BY <1>2, <1>3
  <2>1. /\ u \o slash \in Seq(Characters)
        /\ Len(u \o slash) = Len(u) + Len(slash)
        /\ \A i \in 1 .. Len(u) + Len(slash) :
              (u \o slash)[i] = IF i <= Len(u) THEN u[i] ELSE slash[i - Len(u)]
    BY <2>0, ConcatProperties
  <2>2. QED  BY <1>2, <1>3, <2>1
<1> HIDE DEF v
<1>5. /\ w \in Seq(Characters) /\ Len(w) = n + 1 + Len(rest)
      /\ \A i \in 1 .. n + 1 + Len(rest) : w[i] = IF i <= n + 1 THEN v[i] ELSE rest[i - (n + 1)]
  <2>0. v \in Seq(Characters) /\ rest \in Seq(Characters)  BY <1>1, <1>4
  <2>1. /\ v \o rest \in Seq(Characters)
        /\ Len(v \o rest) = Len(v) + Len(rest)
        /\ \A i \in 1 .. Len(v) + Len(rest) :
              (v \o rest)[i] = IF i <= Len(v) THEN v[i] ELSE rest[i - Len(v)]
    BY <2>0, ConcatProperties
  <2>2. QED  BY <1>1, <1>4, <2>1
<1> HIDE DEF w
<1>6. Resolve!server_path = w
  BY DEF Resolve!server_path, Resolve!Slash, slash, u, v, w
<1>7. ASSUME NEW i \in 1 .. Len(path)  PROVE w[d + i] = path[i]
  <2>1. d + i \in 1 .. n + 1 + Len(rest) /\ d + i <= n /\ ~(d + i <= d) /\ d + i - d = i
        /\ d + i \in 1 .. n /\ d + i \in 1 .. n + 1 /\ d + i <= n + 1
    BY <1>1
  <2>2. w[d + i] = v[d + i]  BY <1>5, <2>1
  <2>3. v[d + i] = u[d + i]  BY <1>4, <2>1
  <2>4. u[d + i] = path[i]  BY <1>3, <2>1
  <2>5. QED  BY <2>2, <2>3, <2>4
<1>8. w[n + 1] = "/"
  <2>1. n + 1 \in 1 .. n + 1 + Len(rest) /\ n + 1 \in 1 .. n + 1 /\ n + 1 <= n + 1
        /\ ~(n + 1 <= n) /\ n + 1 - n = 1
    BY <1>1
  <2>2. QED  BY <1>2, <1>4, <1>5, <2>1
<1>9. ASSUME NEW i \in 1 .. Len(rest)  PROVE w[n + 1 + i] = rest[i]
  <2>1. n + 1 + i \in 1 .. n + 1 + Len(rest) /\ ~(n + 1 + i <= n + 1) /\ n + 1 + i - (n + 1) = i
    BY <1>1
  <2>2. QED  BY <1>5, <2>1
<1>10. QED  BY <1>5, <1>6, <1>7, <1>8, <1>9

LEMMA FromFacts ==
  ASSUME NEW S, NEW s \in Seq(S), NEW p \in 1 .. Len(s) + 1
  PROVE  /\ Resolve!From(s, p) \in Seq(S)
         /\ Len(Resolve!From(s, p)) = Len(s) - p + 1
         /\ \A i \in 1 .. Len(s) - p + 1 : Resolve!From(s, p)[i] = s[p + i - 1]
<1>1. Len(s) \in Nat  BY LenProperties
<1>2. \A i \in p .. Len(s) : s[i] \in S  BY <1>1, ElementOfSeq
<1>3. /\ SubSeq(s, p, Len(s)) \in Seq(S)
      /\ Len(SubSeq(s, p, Len(s))) = IF p <= Len(s) THEN Len(s) - p + 1 ELSE 0
      /\ \A i \in 1 .. Len(s) - p + 1 : SubSeq(s, p, Len(s))[i] = s[p + i - 1]
  BY <1>1, <1>2, SubSeqProperties
<1>4. (IF p <= Len(s) THEN Len(s) - p + 1 ELSE 0) = Len(s) - p + 1  BY <1>1
<1>5. QED  BY <1>3, <1>4 DEF Resolve!From

LEMMA SliceFacts ==
  ASSUME NEW S, NEW s \in Seq(S), NEW m \in Nat, NEW n \in Nat, m + n <= Len(s)
  PROVE  /\ SubSeq(s, m + 1, m + n) \in Seq(S)
         /\ Len(SubSeq(s, m + 1, m + n)) = n
         /\ \A i \in 1 .. n : SubSeq(s, m + 1, m + n)[i] = s[m + i]
<1>0. Len(s) \in Nat  BY LenProperties
<1>1. PICK a \in Nat : a = m + 1  OBVIOUS
<1>2. PICK b \in Nat : b = m + n  OBVIOUS
<1>3. \A i \in a .. b : s[i] \in S  BY <1>0, <1>1, <1>2, ElementOfSeq
<1>4. /\ SubSeq(s, a, b) \in Seq(S)
      /\ Len(SubSeq(s, a, b)) = IF a <= b THEN b - a + 1 ELSE 0
      /\ \A i \in 1 .. b - a + 1 : SubSeq(s, a, b)[i] = s[a + i - 1]
  BY <1>3, SubSeqProperties
<1>5. (IF a <= b THEN b - a + 1 ELSE 0) = n /\ b - a + 1 = n
      /\ \A i \in 1 .. n : a + i - 1 = m + i
  BY <1>1, <1>2
<1>6. QED  BY <1>1, <1>2, <1>4, <1>5

\* Where Cut cuts the server's path, and what it leaves.
Cutting ==
  Resolve!Occurrence(Resolve!server_path, directory) + Resolve!SlashOfName(directory) - 1
Whole == Resolve!From(Resolve!server_path, Cutting)

\* What every copy must keep: the directory's name and the file's place in it.
Least == Len(directory) - Resolve!SlashOfName(directory) + 2 + Len(rest)

LEMMA WholeFacts ==
  ASSUME path = directory, directory \in Directories, rest \in FilePaths,
         Resolve!SlashOfName(directory) # 0
  PROVE  LET sp == Resolve!server_path
         IN  /\ sp \in Seq(Characters) /\ Len(sp) \in Nat
             /\ Whole \in Seq(Characters) /\ Len(Whole) \in Nat \ {0}
             /\ Len(Whole) <= Len(sp)
             /\ \A i \in 1 .. Len(Whole) : Whole[i] = sp[Len(sp) - Len(Whole) + i]
             /\ Whole[Len(Whole)] # "/"
             /\ Least \in Nat /\ Least <= Len(Whole)
             /\ Resolve!Unambiguous => Least = Len(Whole)
<1> DEFINE sp == Resolve!server_path
           o == Resolve!Occurrence(sp, directory)
           k == Resolve!SlashOfName(directory)
           d == Len(DefaultDir)
           l == Len(directory)
           r == Len(rest)
<1>1. /\ d \in Nat /\ l \in Nat /\ r \in Nat /\ r # 0
      /\ directory \in Seq(Characters) /\ directory \in Strings /\ rest \in Seq(Characters)
      /\ rest[r] # "/"
  <2>1. rest \in Strings /\ directory \in Strings /\ DefaultDir \in Strings  BY StringTypes
  <2>2. rest # <<>> /\ rest[r] # "/"  BY StringAssumption
  <2>3. rest \in Seq(Characters)  BY <2>1, StringTypes
  <2>4. r # 0  BY <2>2, <2>3, EmptySeq
  <2>5. QED  BY <2>1, <2>2, <2>3, <2>4, StringTypes
<1>2. k \in 1 .. l /\ directory[k] = "/"
  <2>1. k \in 0 .. l /\ (k # 0 => directory[k] = "/")  BY <1>1, SlashIsLast
  <2>2. QED  BY <1>1, <2>1
<1>3. "/" \in Characters
  <2>1. directory[k] \in Characters  BY <1>1, <1>2, ElementOfSeq
  <2>2. QED  BY <1>2, <2>1
<1>4. /\ sp \in Seq(Characters) /\ Len(sp) = d + l + 1 + r
      /\ \A i \in 1 .. l : sp[d + i] = directory[i]
      /\ \A i \in 1 .. r : sp[d + l + 1 + i] = rest[i]
  BY <1>1, <1>3, ServerPathParts
<1> HIDE DEF sp, d, l, r, k
<1>5. o \in 1 .. d + 1
  <2>3. /\ SubSeq(sp, d + 1, d + l) \in Seq(Characters)
        /\ Len(SubSeq(sp, d + 1, d + l)) = l
        /\ \A i \in 1 .. l : SubSeq(sp, d + 1, d + l)[i] = sp[d + i]
    <3>1. d + l <= Len(sp)  BY <1>1, <1>4
    <3>2. QED  BY <1>1, <1>4, <3>1, SliceFacts
  <2>4. \A i \in 1 .. l : SubSeq(sp, d + 1, d + l)[i] = directory[i]  BY <1>4, <2>3
  <2>5. SubSeq(sp, d + 1, d + l) = directory
    BY <1>1, <2>3, <2>4, SeqEqual DEF l
  <2>6. Resolve!OccursAt(sp, directory, d + 1)
    <3>1. d + 1 + l - 1 = d + l /\ d + l <= Len(sp)  BY <1>1, <1>4
    <3>2. QED  BY <2>5, <3>1 DEF Resolve!OccursAt, l
  <2>7. Len(sp) \in Nat /\ d + 1 \in 1 .. Len(sp)  BY <1>1, <1>4
  <2>8. o \in 0 .. Len(sp) /\ o # 0 /\ o <= d + 1
    BY <2>6, <2>7, OccurrenceIsFirst
  <2>9. QED  BY <1>1, <2>7, <2>8
<1> DEFINE p == o + k - 1
<1>6. Whole = Resolve!From(sp, p)  BY DEF Whole, Cutting, sp, k
<1>7. (Resolve!Unambiguous => o = d + 1) /\ Least = l - k + 2 + r
  BY DEF Resolve!Unambiguous, Least, sp, k, l, d, r
<1> HIDE DEF o
<1>8. p \in 1 .. Len(sp) + 1 /\ Len(sp) \in Nat /\ Len(sp) - p + 1 \in Nat
      /\ l - k + 2 + r <= Len(sp) - p + 1 /\ l - k + 2 + r \in Nat \ {0}
      /\ (o = d + 1 => l - k + 2 + r = Len(sp) - p + 1)
  BY <1>1, <1>2, <1>4, <1>5
<1> HIDE DEF p
<1>9. /\ Whole \in Seq(Characters) /\ Len(Whole) = Len(sp) - p + 1
      /\ \A i \in 1 .. Len(sp) - p + 1 : Whole[i] = sp[p + i - 1]
  BY <1>4, <1>6, <1>8, FromFacts
<1>10. \A i \in 1 .. Len(Whole) : Whole[i] = sp[Len(sp) - Len(Whole) + i]
  <2>1. \A i \in 1 .. Len(Whole) : Len(sp) - Len(Whole) + i = p + i - 1  BY <1>8, <1>9
  <2>2. QED  BY <1>9, <2>1
<1>11. Whole[Len(Whole)] # "/"
  <2>1. Len(Whole) \in 1 .. Len(Whole) /\ Len(sp) - Len(Whole) + Len(Whole) = d + l + 1 + r
    BY <1>1, <1>4, <1>8, <1>9
  <2>2. r \in 1 .. r  BY <1>1
  <2>3. QED  BY <1>1, <1>4, <1>10, <2>1, <2>2
<1>12. Len(Whole) \in Nat \ {0} /\ Len(Whole) <= Len(sp)  BY <1>8, <1>9
<1>13. QED  BY <1>4, <1>7, <1>8, <1>9, <1>10, <1>11, <1>12 DEF sp

-----------------------------------------------------------------------------
(* The loop over the names *)

\* What was copied and what is left make up w.
Walked(w) ==
  /\ copied_path \in Seq(Characters) /\ start \in Seq(Characters)
  /\ Len(copied_path) + Len(start) = Len(w)
  /\ \A i \in 1 .. Len(copied_path) : copied_path[i] = w[i]
  /\ \A i \in 1 .. Len(start) : start[i] = w[Len(copied_path) + i]

\* The directories made are the parts of the copied path that end in a slash.
Made ==
  /\ made \in Seq(Seq(Characters))
  /\ \A i, j \in DOMAIN made : i < j => Len(made[i]) < Len(made[j])
  /\ \A i \in DOMAIN made :
       /\ Len(made[i]) <= Len(copied_path)
       /\ \A j \in 1 .. Len(made[i]) : made[i][j] = copied_path[j]
  /\ {j \in DOMAIN copied_path : copied_path[j] = "/"} = {Len(made[i]) : i \in DOMAIN made}

PathInv ==
  /\ rest \in FilePaths /\ ppc \in {"cut", "walk", "done", "crashed"}
  /\ ppc # "cut" => cpc = "copy" /\ spc = "scan"
  /\ ppc \in {"cut", "crashed"} => start = <<>> /\ copied_path = <<>> /\ made = <<>>
  /\ ppc \in {"walk", "done"} =>
       Resolve!SlashOfName(directory) # 0 /\ Walked(Whole) /\ Made
  /\ ppc = "walk" => start # <<>>
  /\ ppc = "done" => start = <<>>

LEMMA MakeDirectoryStep ==
  ASSUME NEW w \in Seq(Characters), w[Len(w)] # "/", Walked(w), Made, Resolve!MakeDirectory
  PROVE  Walked(w)' /\ Made' /\ start' # <<>>
<1> DEFINE e == Resolve!Occurrence(start, <<"/">>)
           n == Len(copied_path)
           l == Len(start)
<1>1. /\ copied_path \in Seq(Characters) /\ start \in Seq(Characters)
      /\ n \in Nat /\ l \in Nat /\ Len(w) \in Nat /\ Len(w) = n + l
      /\ \A i \in 1 .. n : copied_path[i] = w[i]
      /\ \A i \in 1 .. l : start[i] = w[n + i]
  BY LenProperties DEF Walked
<1>2. /\ e # 0
      /\ copied_path' = copied_path \o SubSeq(start, 1, e)
      /\ start' = Resolve!From(start, e + 1)
      /\ made' = Append(made, copied_path')
  BY DEF Resolve!MakeDirectory, Resolve!Slash
<1>3. /\ e \in 1 .. l /\ start[e] = "/"
      /\ \A i \in 1 .. l : start[i] = "/" => e <= i
  <2>1. /\ e \in 0 .. l /\ (e # 0 => start[e] = "/")
        /\ \A i \in 1 .. l : start[i] = "/" => e # 0 /\ e <= i
    BY <1>1, SlashFound
  <2>2. QED  BY <1>1, <1>2, <2>1
<1> HIDE DEF e
<1>4. e < l
  <2>1. start[l] = w[n + l]  BY <1>1, <1>3
  <2>2. start[l] # "/"  BY <1>1, <2>1
  <2>3. QED  BY <1>1, <1>3, <2>2
<1>5. /\ SubSeq(start, 1, e) \in Seq(Characters) /\ Len(SubSeq(start, 1, e)) = e
      /\ \A i \in 1 .. e : SubSeq(start, 1, e)[i] = start[i]
  <2>1. 0 \in Nat /\ e \in Nat /\ 0 + e <= l /\ 0 + 1 = 1 /\ 0 + e = e
        /\ \A i \in 1 .. e : 0 + i = i
    BY <1>1, <1>3
  <2>2. /\ SubSeq(start, 0 + 1, 0 + e) \in Seq(Characters) /\ Len(SubSeq(start, 0 + 1, 0 + e)) = e
        /\ \A i \in 1 .. e : SubSeq(start, 0 + 1, 0 + e)[i] = start[0 + i]
    BY <1>1, <2>1, SliceFacts
  <2>3. QED  BY <2>1, <2>2
<1>6. /\ copied_path' \in Seq(Characters) /\ Len(copied_path') = n + e
      /\ \A i \in 1 .. n + e : copied_path'[i] = IF i <= n THEN copied_path[i] ELSE start[i - n]
  <2> DEFINE part == SubSeq(start, 1, e)
  <2> HIDE DEF part
  <2>1. part \in Seq(Characters) /\ Len(part) = e /\ \A i \in 1 .. e : part[i] = start[i]
    BY <1>5 DEF part
  <2>2. /\ copied_path \o part \in Seq(Characters)
        /\ Len(copied_path \o part) = Len(copied_path) + Len(part)
        /\ \A i \in 1 .. Len(copied_path) + Len(part) :
             (copied_path \o part)[i] = IF i <= Len(copied_path) THEN copied_path[i]
                                        ELSE part[i - Len(copied_path)]
    <3>1. copied_path \in Seq(Characters) /\ part \in Seq(Characters)  BY <1>1, <2>1
    <3>2. QED  BY <3>1, ConcatProperties
  <2>3. copied_path' = copied_path \o part  BY <1>2 DEF part
  <2>4. QED  BY <1>1, <1>3, <2>1, <2>2, <2>3
<1>7. /\ start' \in Seq(Characters) /\ Len(start') = l - e
      /\ \A i \in 1 .. l - e : start'[i] = start[e + i]
  <2>1. e + 1 \in 1 .. l + 1 /\ l - (e + 1) + 1 = l - e /\ \A i \in 1 .. l - e : e + 1 + i - 1 = e + i
    BY <1>1, <1>3
  <2>2. /\ Resolve!From(start, e + 1) \in Seq(Characters)
        /\ Len(Resolve!From(start, e + 1)) = l - (e + 1) + 1
        /\ \A i \in 1 .. l - (e + 1) + 1 : Resolve!From(start, e + 1)[i] = start[e + 1 + i - 1]
    BY <1>1, <2>1, FromFacts
  <2>3. QED  BY <1>2, <2>1, <2>2
<1>8. Walked(w)'
  <2>1. ASSUME NEW i \in 1 .. n + e  PROVE copied_path'[i] = w[i]
    <3>1. CASE i <= n
      <4>1. i \in 1 .. n  BY <1>1, <3>1
      <4>2. QED  BY <1>1, <1>6, <3>1, <4>1
    <3>2. CASE ~(i <= n)
      <4>1. i - n \in 1 .. l /\ n + (i - n) = i  BY <1>1, <1>3, <3>2
      <4>2. start[i - n] = w[i]  BY <1>1, <4>1
      <4>3. QED  BY <1>6, <3>2, <4>2
    <3>3. QED  BY <3>1, <3>2
  <2>2. ASSUME NEW i \in 1 .. l - e  PROVE start'[i] = w[n + e + i]
    <3>1. e + i \in 1 .. l /\ n + (e + i) = n + e + i  BY <1>1, <1>3
    <3>2. QED  BY <1>1, <1>7, <3>1
  <2>3. Len(copied_path') + Len(start') = Len(w)  BY <1>1, <1>3, <1>6, <1>7
  <2>4. QED  BY <1>6, <1>7, <2>1, <2>2, <2>3 DEF Walked
<1>9. start' # <<>>
  <2>1. Len(start') # 0  BY <1>1, <1>3, <1>4, <1>7
  <2>2. QED  BY <2>1, EmptySeq
<1>10. /\ made \in Seq(Seq(Characters)) /\ Len(made) \in Nat /\ DOMAIN made = 1 .. Len(made)
       /\ made' \in Seq(Seq(Characters)) /\ DOMAIN made' = 1 .. Len(made) + 1
       /\ \A i \in 1 .. Len(made) : made'[i] = made[i]
       /\ made'[Len(made) + 1] = copied_path'
  <2>1. made \in Seq(Seq(Characters))  BY DEF Made
  <2>2. Len(made) \in Nat /\ DOMAIN made = 1 .. Len(made)  BY <2>1, LenProperties
  <2>3. /\ Append(made, copied_path') \in Seq(Seq(Characters))
        /\ Len(Append(made, copied_path')) = Len(made) + 1
        /\ \A i \in 1 .. Len(made) : Append(made, copied_path')[i] = made[i]
        /\ Append(made, copied_path')[Len(made) + 1] = copied_path'
    BY <1>6, <2>1, AppendProperties
  <2>4. DOMAIN Append(made, copied_path') = 1 .. Len(made) + 1  BY <2>3, LenProperties
  <2>5. QED  BY <1>2, <2>1, <2>2, <2>3, <2>4
<1>11. ASSUME NEW i \in 1 .. Len(made)
       PROVE  /\ Len(made'[i]) \in Nat /\ Len(made'[i]) <= n
              /\ \A j \in 1 .. Len(made'[i]) : made'[i][j] = copied_path'[j]
  <2>1. Len(made[i]) \in Nat
    <3>1. made[i] \in Seq(Characters)  BY <1>10, ElementOfSeq
    <3>2. QED  BY <3>1, LenProperties
  <2>2. Len(made[i]) <= n /\ \A j \in 1 .. Len(made[i]) : made[i][j] = copied_path[j]
    BY <1>10 DEF Made
  <2>3. ASSUME NEW j \in 1 .. Len(made[i])  PROVE made[i][j] = copied_path'[j]
    <3>1. j \in 1 .. n + e /\ j <= n  BY <1>1, <1>3, <2>1, <2>2
    <3>2. QED  BY <1>6, <2>2, <3>1
  <2>4. QED  BY <1>10, <2>1, <2>2, <2>3
<1>12. Made'
  <2>1. ASSUME NEW i \in DOMAIN made', NEW j \in DOMAIN made', i < j
        PROVE  Len(made'[i]) < Len(made'[j])
    <3>1. i \in 1 .. Len(made)  BY <1>10, <2>1
    <3>2. CASE j \in 1 .. Len(made)
      <4>1. Len(made[i]) < Len(made[j])  BY <1>10, <2>1, <3>1, <3>2 DEF Made
      <4>2. QED  BY <1>10, <3>1, <3>2, <4>1
    <3>3. CASE j = Len(made) + 1
      <4>1. Len(made'[j]) = n + e  BY <1>6, <1>10, <3>3
      <4>2. Len(made'[i]) \in Nat /\ Len(made'[i]) <= n  BY <1>11, <3>1
      <4>3. QED  BY <1>1, <1>3, <4>1, <4>2
    <3>4. QED  BY <1>10, <3>2, <3>3
  <2>2. ASSUME NEW i \in DOMAIN made'
        PROVE  /\ Len(made'[i]) <= Len(copied_path')
               /\ \A j \in 1 .. Len(made'[i]) : made'[i][j] = copied_path'[j]
    <3>1. CASE i \in 1 .. Len(made)
      <4>1. Len(made'[i]) \in Nat /\ Len(made'[i]) <= n
            /\ \A j \in 1 .. Len(made'[i]) : made'[i][j] = copied_path'[j]
        BY <1>11, <3>1
      <4>2. QED  BY <1>1, <1>3, <1>6, <4>1
    <3>2. CASE i = Len(made) + 1
      BY <1>1, <1>3, <1>6, <1>10, <3>2
    <3>3. QED  BY <1>10, <3>1, <3>2
  <2>3. {j \in DOMAIN copied_path' : copied_path'[j] = "/"} = {Len(made'[i]) : i \in DOMAIN made'}
    <3>1. DOMAIN copied_path' = 1 .. n + e /\ DOMAIN copied_path = 1 .. n
      BY <1>1, <1>6, LenProperties
    <3>2. {j \in 1 .. n : copied_path[j] = "/"} = {Len(made[i]) : i \in 1 .. Len(made)}
      BY <1>10, <3>1 DEF Made
    <3>3. ASSUME NEW j \in 1 .. n  PROVE copied_path'[j] = copied_path[j]
      BY <1>1, <1>3, <1>6
    <3>4. ASSUME NEW j \in n + 1 .. n + e  PROVE copied_path'[j] = "/" <=> j = n + e
      <4>1. j \in 1 .. n + e /\ ~(j <= n) /\ j - n \in 1 .. l  BY <1>1, <1>3
      <4>2. copied_path'[j] = start[j - n]  BY <1>6, <4>1
      <4>3. CASE j = n + e
        <5>1. j - n = e  BY <1>1, <1>3, <4>3
        <5>2. QED  BY <1>3, <4>2, <4>3, <5>1
      <4>4. CASE j # n + e
        <5>1. n \in Nat /\ e \in Nat /\ j \in Nat /\ j <= n + e  BY <1>1, <1>3
        <5>2. ~(e <= j - n)  BY <4>4, <5>1
        <5>3. QED  BY <1>3, <4>1, <4>2, <4>4, <5>2
      <4>5. QED  BY <4>3, <4>4
    <3>5. {j \in 1 .. n + e : copied_path'[j] = "/"}
            = {j \in 1 .. n : copied_path[j] = "/"} \cup {n + e}
      <4>1. 1 .. n + e = (1 .. n) \cup (n + 1 .. n + e) /\ n + e \in n + 1 .. n + e
        BY <1>1, <1>3
      <4>2. QED  BY <3>3, <3>4, <4>1
    <3>6. {Len(made'[i]) : i \in 1 .. Len(made) + 1}
            = {Len(made[i]) : i \in 1 .. Len(made)} \cup {n + e}
      <4>1. 1 .. Len(made) + 1 = (1 .. Len(made)) \cup {Len(made) + 1}  BY <1>10
      <4>2. Len(made'[Len(made) + 1]) = n + e  BY <1>6, <1>10
      <4>3. \A i \in 1 .. Len(made) : Len(made'[i]) = Len(made[i])  BY <1>10
      <4>4. QED  BY <4>1, <4>2, <4>3
    <3>7. QED  BY <1>10, <3>1, <3>2, <3>5, <3>6
  <2>4. QED  BY <1>10, <2>1, <2>2, <2>3 DEF Made
<1>13. QED  BY <1>8, <1>9, <1>12

LEMMA CreateFileStep ==
  ASSUME NEW w \in Seq(Characters), Walked(w), Made, Resolve!CreateFile
  PROVE  Walked(w)' /\ Made' /\ start' = <<>>
<1> DEFINE n == Len(copied_path)
           l == Len(start)
<1>1. /\ copied_path \in Seq(Characters) /\ start \in Seq(Characters)
      /\ n \in Nat /\ l \in Nat /\ Len(w) \in Nat /\ Len(w) = n + l
      /\ \A i \in 1 .. n : copied_path[i] = w[i]
      /\ \A i \in 1 .. l : start[i] = w[n + i]
  BY LenProperties DEF Walked
<1>2. /\ Resolve!Occurrence(start, <<"/">>) = 0
      /\ copied_path' = copied_path \o start /\ start' = <<>> /\ made' = made
  BY DEF Resolve!CreateFile, Resolve!Slash
<1>3. \A i \in 1 .. l : start[i] # "/"  BY <1>1, <1>2, SlashFound
<1>4. /\ copied_path' \in Seq(Characters) /\ Len(copied_path') = n + l
      /\ \A i \in 1 .. n + l : copied_path'[i] = IF i <= n THEN copied_path[i] ELSE start[i - n]
  <2>1. copied_path \in Seq(Characters) /\ start \in Seq(Characters)  BY <1>1
  <2>2. /\ copied_path \o start \in Seq(Characters)
        /\ Len(copied_path \o start) = n + l
        /\ \A i \in 1 .. n + l :
             (copied_path \o start)[i] = IF i <= n THEN copied_path[i] ELSE start[i - n]
    BY <2>1, ConcatProperties
  <2>3. QED  BY <1>2, <2>2
<1>5. ASSUME NEW j \in n + 1 .. n + l
      PROVE  copied_path'[j] = w[j] /\ copied_path'[j] # "/"
  <2>1. j \in 1 .. n + l /\ ~(j <= n) /\ j - n \in 1 .. l /\ n + (j - n) = j  BY <1>1
  <2>2. copied_path'[j] = start[j - n]  BY <1>4, <2>1
  <2>3. QED  BY <1>1, <1>3, <2>1, <2>2
<1>6. ASSUME NEW j \in 1 .. n
      PROVE  copied_path'[j] = copied_path[j] /\ copied_path'[j] = w[j]
  <2>1. j \in 1 .. n + l /\ j <= n  BY <1>1
  <2>2. QED  BY <1>1, <1>4, <2>1
<1>7. 1 .. n + l = (1 .. n) \cup (n + 1 .. n + l)  BY <1>1
<1>8. Walked(w)'
  <2>1. \A j \in 1 .. n + l : copied_path'[j] = w[j]  BY <1>5, <1>6, <1>7
  <2>2. start' \in Seq(Characters) /\ Len(start') = 0  BY <1>2, EmptySeq
  <2>3. Len(copied_path') + Len(start') = Len(w)  BY <1>1, <1>4, <2>2
  <2>4. \A j \in 1 .. Len(start') : start'[j] = w[Len(copied_path') + j]  BY <2>2
  <2>5. QED  BY <1>4, <2>1, <2>2, <2>3, <2>4 DEF Walked
<1>9. Made'
  <2>1. /\ made \in Seq(Seq(Characters)) /\ DOMAIN made = 1 .. Len(made)
        /\ \A i \in DOMAIN made : Len(made[i]) \in Nat
    <3>1. made \in Seq(Seq(Characters))  BY DEF Made
    <3>2. DOMAIN made = 1 .. Len(made)  BY <3>1, LenProperties
    <3>3. \A i \in DOMAIN made : made[i] \in Seq(Characters)  BY <3>1, <3>2, ElementOfSeq
    <3>4. QED  BY <3>1, <3>2, <3>3, LenProperties
  <2>2. ASSUME NEW i \in DOMAIN made
        PROVE  /\ Len(made[i]) <= n + l
               /\ \A j \in 1 .. Len(made[i]) : made[i][j] = copied_path'[j]
    <3>1. Len(made[i]) <= n /\ \A j \in 1 .. Len(made[i]) : made[i][j] = copied_path[j]
      BY DEF Made
    <3>2. \A j \in 1 .. Len(made[i]) : j \in 1 .. n  BY <1>1, <2>1, <3>1
    <3>3. QED  BY <1>1, <1>6, <2>1, <3>1, <3>2
  <2>3. {j \in DOMAIN copied_path' : copied_path'[j] = "/"} = {Len(made[i]) : i \in DOMAIN made}
    <3>1. DOMAIN copied_path' = 1 .. n + l /\ DOMAIN copied_path = 1 .. n
      BY <1>1, <1>4, LenProperties
    <3>2. {j \in 1 .. n + l : copied_path'[j] = "/"} = {j \in 1 .. n : copied_path[j] = "/"}
      BY <1>5, <1>6, <1>7
    <3>3. QED  BY <3>1, <3>2 DEF Made
  <2>4. \A i, j \in DOMAIN made : i < j => Len(made[i]) < Len(made[j])  BY DEF Made
  <2>5. QED  BY <1>2, <1>4, <2>1, <2>2, <2>3, <2>4 DEF Made
<1>10. QED  BY <1>2, <1>8, <1>9

LEMMA CutStep ==
  ASSUME Exchange, PathInv, cpc = "copy", spc = "scan", UNCHANGED vars, Resolve!Cut
  PROVE  PathInv'
<1>1. directory \in Directories /\ path = directory /\ rest \in FilePaths
  BY DEF Exchange, Values, Asking, Waiting, Phase, PathInv
<1>2. start = <<>> /\ copied_path = <<>> /\ made = <<>>
  BY DEF PathInv, Resolve!Cut
<1>3. /\ directory' = directory /\ cpc' = cpc /\ spc' = spc /\ path' = path
      /\ rest' = rest /\ copied_path' = <<>> /\ made' = <<>>
  BY <1>2 DEF vars, clientVars, serverVars, Resolve!Cut
<1>4. CASE Resolve!SlashOfName(directory) = 0
  <2>1. ppc' = "crashed" /\ start' = <<>>  BY <1>2, <1>4 DEF Resolve!Cut
  <2>2. QED  BY <1>1, <1>3, <2>1 DEF PathInv
<1>5. CASE Resolve!SlashOfName(directory) # 0
  <2>1. ppc' = "walk" /\ start' = Whole  BY <1>5 DEF Resolve!Cut, Whole, Cutting
  <2>2. Whole' = Whole  BY <1>3 DEF Whole, Cutting, Resolve!server_path
  <2> DEFINE w == Whole
  <2>3. w \in Seq(Characters) /\ Len(w) \in Nat \ {0}  BY <1>1, <1>5, WholeFacts
  <2> HIDE DEF w
  <2>4. start' = w /\ Whole' = w  BY <2>1, <2>2 DEF w
  <2>5. <<>> \in Seq(Characters) /\ <<>> \in Seq(Seq(Characters)) /\ Len(<<>>) = 0
        /\ DOMAIN <<>> = {}
    BY EmptySeq
  <2>6. w # <<>>  BY <2>3, <2>5
  <2>7. Walked(Whole)'
    <3>1. \A i \in 1 .. Len(start') : start'[i] = w[Len(copied_path') + i]
      BY <1>3, <2>3, <2>4, <2>5
    <3>2. Len(copied_path') + Len(start') = Len(w)  BY <1>3, <2>3, <2>4, <2>5
    <3>3. QED  BY <1>3, <2>3, <2>4, <2>5, <3>1, <3>2 DEF Walked
  <2>8. Made'
    <3>1. made' \in Seq(Seq(Characters)) /\ DOMAIN made' = {} /\ DOMAIN copied_path' = {}
      BY <1>3, <2>5
    <3>2. QED  BY <3>1 DEF Made
  <2>9. QED  BY <1>1, <1>3, <1>5, <2>1, <2>4, <2>6, <2>7, <2>8 DEF PathInv
<1>6. QED  BY <1>4, <1>5

LEMMA PathStep ==
  ASSUME Exchange, PathInv, [SessionNext]_sessionVars
  PROVE  PathInv'
<1>1. CASE UNCHANGED sessionVars
  <2>1. /\ directory' = directory /\ path' = path /\ cpc' = cpc /\ spc' = spc
        /\ ppc' = ppc /\ rest' = rest /\ start' = start /\ copied_path' = copied_path /\ made' = made
    BY <1>1 DEF sessionVars, vars, clientVars, serverVars, pathVars
  <2>2. Whole' = Whole  BY <2>1 DEF Whole, Cutting, Resolve!server_path
  <2>3. Walked(Whole)' <=> Walked(Whole)  BY <2>1, <2>2 DEF Walked
  <2>4. Made' <=> Made  BY <2>1 DEF Made
  <2>5. QED  BY <2>1, <2>3, <2>4 DEF PathInv
<1>2. CASE Next /\ UNCHANGED pathVars
  <2>1. ppc = "cut"  BY <1>2, ExchangeEnds DEF PathInv
  <2>2. QED  BY <1>2, <2>1 DEF pathVars, PathInv
<1>3. CASE ResolvePath
  <2>1. cpc = "copy" /\ spc = "scan" /\ UNCHANGED vars  BY <1>3 DEF ResolvePath
  <2>2. directory \in Directories /\ path = directory /\ rest \in FilePaths
    BY <2>1 DEF Exchange, Values, Asking, Waiting, Phase, PathInv
  <2>3. CASE Resolve!Cut
    BY <2>1, <2>3, CutStep
  <2>4. CASE Resolve!MakeDirectory \/ Resolve!CreateFile
    <3>1. ppc = "walk" /\ rest' = rest
      BY <2>4 DEF Resolve!MakeDirectory, Resolve!CreateFile
    <3>2. directory' = directory /\ cpc' = cpc /\ spc' = spc /\ path' = path
      BY <2>1 DEF vars, clientVars, serverVars
    <3>3. Resolve!SlashOfName(directory) # 0 /\ Walked(Whole) /\ Made
      BY <3>1 DEF PathInv
    <3>4. PICK w : w = Whole  OBVIOUS
    <3>5. w \in Seq(Characters) /\ w[Len(w)] # "/"
      BY <2>2, <3>3, <3>4, WholeFacts
    <3>6. Walked(w)  BY <3>3, <3>4
    <3>7. Whole' = w
      BY <3>1, <3>2, <3>4 DEF Whole, Cutting, Resolve!server_path
    <3>8. CASE Resolve!MakeDirectory
      <4>1. Walked(w)' /\ Made' /\ start' # <<>>  BY <3>3, <3>5, <3>6, <3>8, MakeDirectoryStep
      <4>2. ppc' = "walk"  BY <3>1, <3>8 DEF Resolve!MakeDirectory
      <4>3. Walked(Whole)'  BY <3>7, <4>1 DEF Walked
      <4>4. QED  BY <2>1, <2>2, <3>1, <3>2, <3>3, <4>1, <4>2, <4>3 DEF PathInv
    <3>9. CASE Resolve!CreateFile
      <4>1. Walked(w)' /\ Made' /\ start' = <<>>  BY <3>3, <3>5, <3>6, <3>9, CreateFileStep
      <4>2. ppc' = "done"  BY <3>9 DEF Resolve!CreateFile
      <4>3. Walked(Whole)'  BY <3>7, <4>1 DEF Walked
      <4>4. QED  BY <2>1, <2>2, <3>1, <3>2, <3>3, <4>1, <4>2, <4>3 DEF PathInv
    <3>10. QED  BY <2>4, <3>8, <3>9
  <2>5. QED  BY <1>3, <2>3, <2>4 DEF ResolvePath, Resolve!Next
<1>4. QED  BY <1>1, <1>2, <1>3 DEF SessionNext

-----------------------------------------------------------------------------
(* Theorems *)

LEMMA SessionInvariant == SessionSpec => [](Exchange /\ PathInv)
<1>1. SessionInit => Exchange /\ PathInv
  <2>1. SessionInit => Exchange  BY ExchangeInit DEF SessionInit
  <2>2. SessionInit => PathInv  BY DEF SessionInit, Resolve!Init, PathInv
  <2>3. QED  BY <2>1, <2>2
<1>2. Exchange /\ PathInv /\ [SessionNext]_sessionVars => (Exchange /\ PathInv)'
  <2> SUFFICES ASSUME Exchange, PathInv, [SessionNext]_sessionVars
               PROVE  (Exchange /\ PathInv)'
    OBVIOUS
  <2>1. [Next]_vars  BY DEF SessionNext, ResolvePath, sessionVars
  <2>2. QED  BY <2>1, ExchangeStep, PathStep
<1>3. QED  BY <1>1, <1>2, PTL DEF SessionSpec

\* The usual types, and what is on its way to the server, in every phase of the
\* exchange (Client.c:6-54, Server.c:41-53).
THEOREM TypeCorrect == SessionSpec => []TypeOK
<1>1. Exchange => TypeOK
  <2> SUFFICES ASSUME Exchange  PROVE TypeOK  OBVIOUS
  <2>1. directory \in Directories /\ L \in Nat  BY LengthsFit DEF Exchange, Values, L
  <2>2. toServer \in {<<>>, Length(L), Length(L) \o Name(directory), Name(directory), ACK}
    BY DEF Exchange, Asking, Waiting, Confirmed, Phase
  <2>3. \A i \in DOMAIN toServer : toServer[i][1] \in {"length", "name", "ack"} /\ toServer[i][3] \in Nat
    <3>1. CASE toServer = <<>>
      BY <3>1
    <3>2. \A i \in DOMAIN Length(L) : Length(L)[i] = <<"length", L, i>> /\ i \in Nat
      BY DEF Length, Encode
    <3>3. \A i \in DOMAIN Name(directory) : Name(directory)[i] = <<"name", directory, i>> /\ i \in Nat
      BY DEF Name, Encode
    <3>4. \A i \in DOMAIN ACK : ACK[i] = <<"ack", 0, i>> /\ i \in Nat
      BY DEF ACK, Encode
    <3>5. CASE toServer \in {Length(L), Name(directory), ACK}
      BY <3>2, <3>3, <3>4, <3>5
    <3>6. CASE toServer = Length(L) \o Name(directory)
      <4> DEFINE a == Length(L)
                 b == Name(directory)
      <4>1. a \in Seq(Bytes) /\ b \in Seq(Bytes)  BY <2>1, MessagesAreSeqs
      <4>2. /\ Len(a) \in Nat /\ DOMAIN a = 1 .. Len(a) /\ Len(b) \in Nat /\ DOMAIN b = 1 .. Len(b)
        BY <4>1, LenProperties
      <4>3. /\ a \o b \in Seq(Bytes) /\ Len(a \o b) = Len(a) + Len(b)
            /\ \A i \in 1 .. Len(a) + Len(b) : (a \o b)[i] = IF i <= Len(a) THEN a[i] ELSE b[i - Len(a)]
        BY <4>1, ConcatProperties
      <4>4. DOMAIN (a \o b) = 1 .. Len(a) + Len(b)  BY <4>3, LenProperties
      <4>5. \A i \in DOMAIN a : a[i][1] \in {"length", "name", "ack"} /\ a[i][3] \in Nat  BY <3>2
      <4>6. \A i \in DOMAIN b : b[i][1] \in {"length", "name", "ack"} /\ b[i][3] \in Nat  BY <3>3
      <4>7. toServer = a \o b  BY <3>6
      <4> HIDE DEF a, b
      <4>8. ASSUME NEW i \in 1 .. Len(a) + Len(b)
            PROVE  toServer[i][1] \in {"length", "name", "ack"} /\ toServer[i][3] \in Nat
        <5>1. CASE i <= Len(a)
          <6>1. i \in DOMAIN a  BY <4>2, <5>1
          <6>2. QED  BY <4>3, <4>5, <4>7, <5>1, <6>1
        <5>2. CASE ~(i <= Len(a))
          <6>1. i - Len(a) \in DOMAIN b  BY <4>2, <5>2
          <6>2. QED  BY <4>3, <4>6, <4>7, <5>2, <6>1
        <5>3. QED  BY <5>1, <5>2
      <4>9. QED  BY <4>4, <4>7, <4>8
    <3>7. QED  BY <2>2, <3>1, <3>5, <3>6
  <2>4. {<<toServer[i][1], toServer[i][3]>> : i \in DOMAIN toServer}
          \subseteq {"length", "name", "ack"} \X Nat
    BY <2>3
  <2>5. path \in Directories \cup {NoDirectory}  BY <2>1 DEF Exchange
  <2>6. /\ cpc \in {"request", "name", "textlength", "text", "decide", "blocksize", "copy", "failed"}
        /\ spc \in {"length", "name", "open", "ack1", "ack2", "scan", "exited"}
    BY DEF Exchange, Asking, Waiting, Confirmed, Phase
  <2>7. QED  BY <2>4, <2>5, <2>6 DEF TypeOK, Exchange, Values
<1>2. QED  BY <1>1, SessionInvariant, PTL

\* When the server scans, both sides mean the same directory and block size,
\* and no byte of the exchange is left (Client.c:41-49, Server.c:43-53).
THEOREM SidesAgreeBeforeScan == SessionSpec => []AgreeBeforeScan
<1>1. Exchange => AgreeBeforeScan
  BY DEF Exchange, Asking, Waiting, Confirmed, Phase, AgreeBeforeScan
<1>2. QED  BY <1>1, SessionInvariant, PTL

\* A client does not begin to copy unless the server has its directory
\* (Client.c:36-54).
THEOREM CopiesAreConfirmed == SessionSpec => []CopiesOnlyConfirmed
<1>1. Exchange => CopiesOnlyConfirmed
  BY DEF Exchange, Asking, Waiting, Confirmed, Phase, CopiesOnlyConfirmed
<1>2. QED  BY <1>1, SessionInvariant, PTL

\* The loop over the names is never out of characters, and never writes more
\* than the server's path has (Client.c:212-249).
THEOREM PathTypeCorrect == SessionSpec => []PathTypeOK
<1>1. Exchange /\ PathInv => PathTypeOK
  <2> SUFFICES ASSUME Exchange, PathInv  PROVE PathTypeOK  OBVIOUS
  <2> DEFINE sp == Resolve!server_path
  <2>1. directory \in Directories /\ path \in Strings /\ rest \in FilePaths
    BY StringTypes DEF Exchange, Values, PathInv
  <2>2. Len(sp) \in Nat
    <3> DEFINE C == Characters \cup {"/"}
               u == DefaultDir \o path
               v == u \o <<"/">>
    <3>1. DefaultDir \in Seq(C) /\ path \in Seq(C) /\ rest \in Seq(C)
      BY <2>1, StringTypes, SeqMonotonic
    <3>2. <<"/">> \in Seq(C)  OBVIOUS
    <3> HIDE DEF C
    <3>3. u \in Seq(C)  BY <3>1, ConcatProperties
    <3> HIDE DEF u
    <3>4. v \in Seq(C)  BY <3>2, <3>3, ConcatProperties
    <3> HIDE DEF v
    <3>5. v \o rest \in Seq(C)  BY <3>1, <3>4, ConcatProperties
    <3>6. sp = v \o rest  BY DEF Resolve!server_path, Resolve!Slash, u, v
    <3>7. QED  BY <3>5, <3>6, LenProperties
  <2>3. CASE ppc \in {"cut", "crashed"}
    <3>1. Len(copied_path) = 0  BY <2>3, EmptySeq DEF PathInv
    <3>2. QED  BY <2>1, <2>2, <2>3, <3>1 DEF PathTypeOK, Resolve!TypeOK
  <2>4. CASE ppc \in {"walk", "done"}
    <3>1. cpc = "copy" /\ spc = "scan" /\ Resolve!SlashOfName(directory) # 0 /\ Walked(Whole)
      BY <2>4 DEF PathInv
    <3>2. path = directory  BY <3>1 DEF Exchange, Asking, Phase
    <3> DEFINE w == Whole
               n == Len(copied_path)
               l == Len(start)
    <3>3. /\ sp \in Seq(Characters) /\ Len(sp) \in Nat
          /\ w \in Seq(Characters) /\ Len(w) \in Nat /\ Len(w) <= Len(sp)
          /\ \A i \in 1 .. Len(w) : w[i] = sp[Len(sp) - Len(w) + i]
      BY <2>1, <3>1, <3>2, WholeFacts
    <3> HIDE DEF w, sp
    <3>4. /\ start \in Seq(Characters) /\ n \in Nat /\ l \in Nat /\ n + l = Len(w)
          /\ \A i \in 1 .. l : start[i] = w[n + i]
      BY <3>1, LenProperties DEF Walked, w
    <3>5. n <= Len(sp) /\ l <= Len(sp)  BY <3>3, <3>4
    <3>6. SubSeq(sp, Len(sp) - l + 1, Len(sp)) = start
      <4>0. l \in Nat /\ n \in Nat /\ Len(sp) \in Nat /\ Len(w) \in Nat /\ l <= Len(sp)
            /\ n + l = Len(w) /\ Len(w) <= Len(sp)
        BY <3>3, <3>4, <3>5
      <4> HIDE DEF l, n
      <4>1. PICK m \in Nat : m = Len(sp) - l  BY <4>0
      <4>2. m + l <= Len(sp) /\ m + l = Len(sp)  BY <3>3, <3>4, <4>1
      <4>3. /\ SubSeq(sp, m + 1, m + l) \in Seq(Characters) /\ Len(SubSeq(sp, m + 1, m + l)) = l
            /\ \A i \in 1 .. l : SubSeq(sp, m + 1, m + l)[i] = sp[m + i]
        BY <3>3, <3>4, <4>2, SliceFacts
      <4>4. ASSUME NEW i \in 1 .. l  PROVE start[i] = sp[m + i]
        <5>1. n + i \in 1 .. Len(w) /\ Len(sp) - Len(w) + (n + i) = m + i
          BY <4>0, <4>1
        <5>2. QED  BY <3>3, <3>4, <5>1
      <4>5. SubSeq(sp, m + 1, m + l) = start  BY <3>4, <4>3, <4>4, SeqEqual DEF l
      <4>6. QED  BY <4>1, <4>2, <4>5
    <3>7. Resolve!EndsWith(sp, start)
      <4>1. Len(sp) - l + 1 + l - 1 = Len(sp)  BY <3>3, <3>4
      <4>2. QED  BY <3>3, <3>5, <3>6, <4>1 DEF Resolve!EndsWith, Resolve!OccursAt
    <3>8. ppc = "walk" => start # <<>>  BY DEF PathInv
    <3>9. QED  BY <2>1, <2>4, <3>5, <3>7, <3>8 DEF PathTypeOK, Resolve!TypeOK, sp
  <2>5. QED  BY <2>3, <2>4 DEF PathInv
<1>2. QED  BY <1>1, SessionInvariant, PTL

\* Directories are made one at a time, the outer ones first, and all of them
\* before the file (Client.c:212-249).
THEOREM ParentsMadeFirst == SessionSpec => []ParentsFirst
<1>1. PathInv => ParentsFirst
  <2> SUFFICES ASSUME PathInv  PROVE ParentsFirst  OBVIOUS
  <2>1. CASE ppc \in {"cut", "crashed"}
    <3>1. DOMAIN made = {}  BY <2>1 DEF PathInv
    <3>2. QED  BY <2>1, <3>1 DEF ParentsFirst, Resolve!ParentsFirst
  <2>2. CASE ppc \in {"walk", "done"}
    <3>1. Made /\ copied_path \in Seq(Characters)  BY <2>2 DEF PathInv, Walked
    <3>2. Len(copied_path) \in Nat  BY <3>1, LenProperties
    <3>3. ASSUME NEW i \in DOMAIN made  PROVE Resolve!OccursAt(copied_path, made[i], 1)
      <4>1. made \in Seq(Seq(Characters))  BY <3>1 DEF Made
      <4>2. DOMAIN made = 1 .. Len(made)  BY <4>1, LenProperties
      <4>3. made[i] \in Seq(Characters)  BY <4>1, <4>2, ElementOfSeq
      <4> DEFINE m == made[i]
                 n == Len(m)
      <4>4. /\ n \in Nat /\ n <= Len(copied_path)
            /\ \A j \in 1 .. n : m[j] = copied_path[j]
        BY <3>1, <4>3, LenProperties DEF Made
      <4> HIDE DEF m
      <4>5. 0 \in Nat /\ 0 + n <= Len(copied_path) /\ 0 + 1 = 1 /\ 0 + n = n /\ 1 + n - 1 = n
            /\ \A j \in 1 .. n : 0 + j = j
        BY <4>4
      <4>6. /\ SubSeq(copied_path, 0 + 1, 0 + n) \in Seq(Characters)
            /\ Len(SubSeq(copied_path, 0 + 1, 0 + n)) = n
            /\ \A j \in 1 .. n : SubSeq(copied_path, 0 + 1, 0 + n)[j] = copied_path[0 + j]
        BY <3>1, <4>4, <4>5, SliceFacts
      <4>7. /\ SubSeq(copied_path, 1, n) \in Seq(Characters)
            /\ Len(SubSeq(copied_path, 1, n)) = n
            /\ \A j \in 1 .. n : SubSeq(copied_path, 1, n)[j] = m[j]
        BY <4>4, <4>5, <4>6
      <4>8. SubSeq(copied_path, 1, n) = m  BY <4>3, <4>7, SeqEqual DEF m
      <4>9. QED  BY <4>4, <4>5, <4>8 DEF Resolve!OccursAt, m
    <3>4. QED  BY <3>1, <3>3 DEF ParentsFirst, Resolve!ParentsFirst, Resolve!Slash, Made
  <2>3. QED  BY <2>1, <2>2 DEF PathInv
<1>2. QED  BY <1>1, SessionInvariant, PTL

\* The last name of the directory: what follows the last slash.
LEMMA LastNameIs ==
  ASSUME directory \in Directories, Resolve!SlashOfName(directory) # 0
  PROVE  Resolve!LastName = Resolve!From(directory, Resolve!SlashOfName(directory) + 1)
<1> DEFINE k == Resolve!SlashOfName(directory)
           l == Len(directory)
           candidates == {Resolve!From(directory, i) : i \in 2 .. l + 1}
           Fits(name) == /\ \A j \in DOMAIN name : name[j] # "/"
                         /\ Resolve!EndsWith(directory, <<"/">> \o name)
           name0 == Resolve!From(directory, k + 1)
<1>1. directory \in Seq(Characters) /\ l \in Nat  BY StringTypes
<1>2. /\ k \in 1 .. l /\ directory[k] = "/"
      /\ \A i \in 1 .. l : directory[i] = "/" => i <= k
  <2>1. /\ k \in 0 .. l /\ (k # 0 => directory[k] = "/")
        /\ \A i \in 1 .. l : directory[i] = "/" => k # 0 /\ i <= k
    BY <1>1, SlashIsLast
  <2>2. QED  BY <1>1, <2>1
<1> HIDE DEF k
<1>3. <<"/">> \in Seq(Characters) /\ Len(<<"/">>) = 1 /\ <<"/">>[1] = "/"
  <2>1. directory[k] \in Characters  BY <1>1, <1>2, ElementOfSeq
  <2>2. "/" \in Characters  BY <1>2, <2>1
  <2>3. QED  BY <2>2
<1> DEFINE slash == <<"/">>
<1> HIDE DEF slash
\* What a candidate is, place by place.
<1>4. ASSUME NEW i \in 2 .. l + 1
      PROVE  LET name == Resolve!From(directory, i)
             IN  /\ name \in Seq(Characters) /\ Len(name) = l - i + 1
                 /\ DOMAIN name = 1 .. l - i + 1
                 /\ \A j \in 1 .. l - i + 1 : name[j] = directory[i + j - 1]
                 /\ Resolve!EndsWith(directory, <<"/">> \o name) <=> directory[i - 1] = "/"
  <2> DEFINE name == Resolve!From(directory, i)
             whole == slash \o name
             n == l - i + 1
  <2>1. i \in 1 .. l + 1 /\ n \in Nat /\ i - 2 \in Nat /\ i - 2 + (n + 1) = l
        /\ l - (n + 1) + 1 = i - 1 /\ i - 1 + (n + 1) - 1 = l /\ i - 2 + 1 = i - 1 /\ n + 1 <= l
        /\ n + 1 \in Nat
    BY <1>1
  <2>2. /\ name \in Seq(Characters) /\ Len(name) = n
        /\ \A j \in 1 .. n : name[j] = directory[i + j - 1]
    BY <1>1, <2>1, FromFacts
  <2>3. DOMAIN name = 1 .. n  BY <2>2, LenProperties
  <2> HIDE DEF name
  <2>4. /\ whole \in Seq(Characters) /\ Len(whole) = n + 1
        /\ \A j \in 1 .. n + 1 : whole[j] = IF j = 1 THEN "/" ELSE name[j - 1]
    <3>1. slash \in Seq(Characters) /\ name \in Seq(Characters)  BY <1>3, <2>2 DEF slash
    <3>2. /\ slash \o name \in Seq(Characters)
          /\ Len(slash \o name) = Len(slash) + Len(name)
          /\ \A j \in 1 .. Len(slash) + Len(name) :
               (slash \o name)[j] = IF j <= Len(slash) THEN slash[j] ELSE name[j - Len(slash)]
      BY <3>1, ConcatProperties
    <3>3. Len(slash) = 1 /\ slash[1] = "/"  BY <1>3 DEF slash
    <3>4. Len(slash \o name) = n + 1  BY <2>1, <2>2, <3>2, <3>3
    <3>5. ASSUME NEW j \in 1 .. n + 1
          PROVE  (slash \o name)[j] = IF j = 1 THEN "/" ELSE name[j - 1]
      <4>1. j \in 1 .. Len(slash) + Len(name) /\ (j <= Len(slash) <=> j = 1)
        BY <2>1, <2>2, <3>3
      <4>2. QED  BY <3>2, <3>3, <4>1
    <3>6. QED  BY <3>2, <3>4, <3>5
  <2> HIDE DEF whole, n
  <2>5. /\ SubSeq(directory, i - 1, l) \in Seq(Characters)
        /\ Len(SubSeq(directory, i - 1, l)) = n + 1
        /\ \A j \in 1 .. n + 1 : SubSeq(directory, i - 1, l)[j] = directory[i - 2 + j]
    <3>1. PICK m \in Nat : m = i - 2  BY <2>1
    <3>2. m + 1 = i - 1 /\ m + (n + 1) = l /\ m + (n + 1) <= Len(directory)  BY <1>1, <2>1, <3>1
    <3>3. /\ SubSeq(directory, m + 1, m + (n + 1)) \in Seq(Characters)
          /\ Len(SubSeq(directory, m + 1, m + (n + 1))) = n + 1
          /\ \A j \in 1 .. n + 1 : SubSeq(directory, m + 1, m + (n + 1))[j] = directory[m + j]
      BY <1>1, <2>1, <3>2, SliceFacts
    <3>4. QED  BY <3>1, <3>2, <3>3
  <2>6. Resolve!EndsWith(directory, whole) <=> SubSeq(directory, i - 1, l) = whole
    <3>1. Len(whole) = n + 1 /\ Len(directory) = l  BY <2>4
    <3>2. Resolve!EndsWith(directory, whole) <=>
            /\ n + 1 <= l
            /\ l - (n + 1) + 1 + (n + 1) - 1 <= l
            /\ SubSeq(directory, l - (n + 1) + 1, l - (n + 1) + 1 + (n + 1) - 1) = whole
      BY <3>1, Zenon DEF Resolve!EndsWith, Resolve!OccursAt
    <3>3. l - (n + 1) + 1 = i - 1 /\ l - (n + 1) + 1 + (n + 1) - 1 = l /\ n + 1 <= l /\ l <= l
      BY <1>1, <2>1
    <3>4. QED  BY <3>2, <3>3, Zenon
  <2>7. ASSUME directory[i - 1] = "/"  PROVE SubSeq(directory, i - 1, l) = whole
    <3>1. ASSUME NEW j \in 1 .. n + 1  PROVE directory[i - 2 + j] = whole[j]
      <4>1. CASE j = 1
        <5>1. i - 2 + 1 = i - 1  BY <2>1
        <5>2. QED  BY <2>1, <2>4, <2>7, <4>1, <5>1
      <4>2. CASE j # 1
        <5>1. j - 1 \in 1 .. n /\ i + (j - 1) - 1 = i - 2 + j  BY <2>1, <4>2
        <5>2. name[j - 1] = directory[i - 2 + j]  BY <2>2, <5>1
        <5>3. QED  BY <2>4, <4>2, <5>2
      <4>3. QED  BY <4>1, <4>2
    <3>2. QED  BY <2>4, <2>5, <3>1, SeqEqual
  <2>8. ASSUME SubSeq(directory, i - 1, l) = whole  PROVE directory[i - 1] = "/"
    <3>1. 1 \in 1 .. n + 1  BY <2>1
    <3>2. QED  BY <2>1, <2>4, <2>5, <2>8, <3>1
  <2>9. QED  BY <2>2, <2>3, <2>6, <2>7, <2>8 DEF whole, slash, name, n
<1>5. k + 1 \in 2 .. l + 1 /\ k + 1 - 1 = k  BY <1>1, <1>2
<1>6. name0 \in candidates /\ Fits(name0)
  <2>1. name0 \in candidates  BY <1>5
  <2>2. Resolve!EndsWith(directory, <<"/">> \o name0)  BY <1>2, <1>4, <1>5
  <2>3. ASSUME NEW j \in DOMAIN name0  PROVE name0[j] # "/"
    <3>1. DOMAIN name0 = 1 .. l - (k + 1) + 1
          /\ \A h \in 1 .. l - (k + 1) + 1 : name0[h] = directory[k + 1 + h - 1]
      BY <1>4, <1>5
    <3>2. j \in 1 .. l - (k + 1) + 1  BY <2>3, <3>1
    <3>3. k + 1 + j - 1 \in 1 .. l /\ ~(k + 1 + j - 1 <= k)  BY <1>1, <1>2, <3>2
    <3>4. directory[k + 1 + j - 1] # "/"  BY <1>2, <3>3
    <3>5. QED  BY <3>1, <3>2, <3>4
  <2>4. QED  BY <2>1, <2>2, <2>3
<1>7. ASSUME NEW name \in candidates, Fits(name)  PROVE name = name0
  <2>1. PICK i \in 2 .. l + 1 : name = Resolve!From(directory, i)  OBVIOUS
  <2>2. directory[i - 1] = "/"  BY <1>4, <1>7, <2>1
  <2>3. i - 1 \in 1 .. l /\ i - 1 <= k  BY <1>1, <1>2, <2>2
  <2>4. CASE i = k + 1
    BY <2>1, <2>4
  <2>5. CASE i # k + 1
    <3>1. k - i + 1 \in 1 .. l - i + 1 /\ i + (k - i + 1) - 1 = k
      BY <1>1, <1>2, <2>3, <2>5
    <3>2. /\ DOMAIN name = 1 .. l - i + 1
          /\ \A j \in 1 .. l - i + 1 : name[j] = directory[i + j - 1]
      BY <1>4, <2>1
    <3>3. name[k - i + 1] = "/"  BY <1>2, <3>1, <3>2
    <3>4. QED  BY <1>7, <3>1, <3>2, <3>3
  <2>6. QED  BY <2>4, <2>5
<1>8. Resolve!LastName = CHOOSE name \in candidates : Fits(name)
  BY DEF Resolve!LastName, Resolve!Slash
<1> HIDE DEF Fits, candidates, name0
<1>9. (CHOOSE name \in candidates : Fits(name)) = name0  BY <1>6, <1>7
<1>10. QED  BY <1>8, <1>9 DEF name0, k

\* The end of the server's path is what the copy should be called.
LEMMA IntendedIs ==
  ASSUME path = directory, directory \in Directories, rest \in FilePaths,
         Resolve!SlashOfName(directory) # 0
  PROVE  LET sp == Resolve!server_path
         IN  /\ Resolve!Intended \in Seq(Characters) /\ Len(Resolve!Intended) = Least
             /\ \A i \in 1 .. Least : Resolve!Intended[i] = sp[Len(sp) - Least + i]
<1> DEFINE sp == Resolve!server_path
           k == Resolve!SlashOfName(directory)
           name == Resolve!From(directory, k + 1)
           d == Len(DefaultDir)
           l == Len(directory)
           r == Len(rest)
           slash == <<"/">>
           u == slash \o name
           v == u \o slash
           w == v \o rest
<1>1. /\ d \in Nat /\ l \in Nat /\ r \in Nat
      /\ directory \in Seq(Characters) /\ directory \in Strings /\ rest \in Seq(Characters)
  <2>1. rest \in Strings /\ directory \in Strings /\ DefaultDir \in Strings  BY StringTypes
  <2>2. QED  BY <2>1, StringTypes
<1>2. k \in 1 .. l /\ directory[k] = "/"
  <2>1. k \in 0 .. l /\ (k # 0 => directory[k] = "/")  BY <1>1, SlashIsLast
  <2>2. QED  BY <1>1, <2>1
<1>3. "/" \in Characters
  <2>1. directory[k] \in Characters  BY <1>1, <1>2, ElementOfSeq
  <2>2. QED  BY <1>2, <2>1
<1>4. /\ sp \in Seq(Characters) /\ Len(sp) = d + l + 1 + r
      /\ \A i \in 1 .. l : sp[d + i] = directory[i]
      /\ sp[d + l + 1] = "/"
      /\ \A i \in 1 .. r : sp[d + l + 1 + i] = rest[i]
  BY <1>1, <1>3, ServerPathParts
<1>5. slash \in Seq(Characters) /\ Len(slash) = 1 /\ slash[1] = "/"  BY <1>3
<1>6. Resolve!LastName = name  BY LastNameIs
<1>7. Least = l - k + 2 + r  BY DEF Least
<1> HIDE DEF k
<1> DEFINE n == l - k
<1>8. /\ name \in Seq(Characters) /\ Len(name) = n
      /\ \A i \in 1 .. n : name[i] = directory[k + i]
  <2>1. k + 1 \in 1 .. l + 1 /\ l - (k + 1) + 1 = n /\ \A i \in 1 .. n : k + 1 + i - 1 = k + i
    BY <1>1, <1>2
  <2>2. /\ name \in Seq(Characters) /\ Len(name) = l - (k + 1) + 1
        /\ \A i \in 1 .. l - (k + 1) + 1 : name[i] = directory[k + 1 + i - 1]
    BY <1>1, <2>1, FromFacts
  <2>3. QED  BY <2>1, <2>2
<1>9. n \in Nat /\ k \in Nat /\ l = k + n  BY <1>1, <1>2
<1> HIDE DEF sp, name, d, l, r, slash, n
<1>10. /\ u \in Seq(Characters) /\ Len(u) = 1 + n
       /\ \A i \in 1 .. 1 + n : u[i] = IF i <= 1 THEN slash[i] ELSE name[i - 1]
  <2>1. slash \in Seq(Characters) /\ name \in Seq(Characters)  BY <1>5, <1>8
  <2>2. /\ slash \o name \in Seq(Characters) /\ Len(slash \o name) = Len(slash) + Len(name)
        /\ \A i \in 1 .. Len(slash) + Len(name) :
             (slash \o name)[i] = IF i <= Len(slash) THEN slash[i] ELSE name[i - Len(slash)]
    BY <2>1, ConcatProperties
  <2>3. Len(slash) = 1 /\ Len(name) = n  BY <1>5, <1>8
  <2>4. QED  BY <2>2, <2>3
<1> HIDE DEF u
<1>11. /\ v \in Seq(Characters) /\ Len(v) = 1 + n + 1
       /\ \A i \in 1 .. 1 + n + 1 : v[i] = IF i <= 1 + n THEN u[i] ELSE slash[i - (1 + n)]
  <2>1. u \in Seq(Characters) /\ slash \in Seq(Characters)  BY <1>5, <1>10
  <2>2. /\ u \o slash \in Seq(Characters) /\ Len(u \o slash) = Len(u) + Len(slash)
        /\ \A i \in 1 .. Len(u) + Len(slash) :
             (u \o slash)[i] = IF i <= Len(u) THEN u[i] ELSE slash[i - Len(u)]
    BY <2>1, ConcatProperties
  <2>3. Len(slash) = 1 /\ Len(u) = 1 + n  BY <1>5, <1>10
  <2>4. QED  BY <2>2, <2>3
<1> HIDE DEF v
<1>12. /\ w \in Seq(Characters) /\ Len(w) = 1 + n + 1 + r
       /\ \A i \in 1 .. 1 + n + 1 + r :
             w[i] = IF i <= 1 + n + 1 THEN v[i] ELSE rest[i - (1 + n + 1)]
  <2>1. v \in Seq(Characters) /\ rest \in Seq(Characters)  BY <1>1, <1>11
  <2>2. /\ v \o rest \in Seq(Characters) /\ Len(v \o rest) = Len(v) + Len(rest)
        /\ \A i \in 1 .. Len(v) + Len(rest) :
             (v \o rest)[i] = IF i <= Len(v) THEN v[i] ELSE rest[i - Len(v)]
    BY <2>1, ConcatProperties
  <2>3. Len(v) = 1 + n + 1 /\ Len(rest) = r  BY <1>11 DEF r
  <2>4. QED  BY <2>2, <2>3
<1> HIDE DEF w
<1>13. Resolve!Intended = w
  <2>1. Resolve!Intended = slash \o name \o slash \o rest
    BY <1>6 DEF Resolve!Intended, Resolve!Slash, slash
  <2>2. QED  BY <2>1 DEF u, v, w
<1>14. Least = 1 + n + 1 + r /\ Len(sp) - Least = d + k - 1
  BY <1>1, <1>4, <1>7, <1>9
<1>15. ASSUME NEW i \in 1 .. 1 + n + 1 + r  PROVE w[i] = sp[d + k - 1 + i]
  <2>0. d \in Nat /\ r \in Nat /\ n \in Nat /\ k \in Nat /\ l = k + n /\ k \in 1 .. l
    BY <1>1, <1>2, <1>9
  <2>1. CASE i = 1
    <3>1. d + k - 1 + i = d + k /\ i \in 1 .. 1 + n + 1 /\ i \in 1 .. 1 + n /\ i <= 1
          /\ i <= 1 + n /\ i <= 1 + n + 1
      BY <2>0, <2>1
    <3>2. w[i] = slash[1]  BY <1>10, <1>11, <1>12, <2>1, <3>1
    <3>3. QED  BY <1>2, <1>4, <1>5, <3>1, <3>2
  <2>2. CASE i \in 2 .. 1 + n
    <3>1. /\ i \in 1 .. 1 + n + 1 /\ i \in 1 .. 1 + n /\ ~(i <= 1) /\ i <= 1 + n /\ i <= 1 + n + 1
          /\ i - 1 \in 1 .. n /\ k + (i - 1) \in 1 .. l
          /\ d + (k + (i - 1)) = d + k - 1 + i
      BY <2>0, <2>2
    <3>2. w[i] = name[i - 1]  BY <1>10, <1>11, <1>12, <3>1
    <3>3. name[i - 1] = sp[d + (k + (i - 1))]  BY <1>4, <1>8, <3>1
    <3>4. QED  BY <3>1, <3>2, <3>3
  <2>3. CASE i = 1 + n + 1
    <3>1. i \in 1 .. 1 + n + 1 /\ ~(i <= 1 + n) /\ i <= 1 + n + 1 /\ i - (1 + n) = 1
          /\ d + k - 1 + i = d + l + 1
      BY <2>0, <2>3
    <3>2. w[i] = slash[1]  BY <1>11, <1>12, <3>1
    <3>3. QED  BY <1>4, <1>5, <3>1, <3>2
  <2>4. CASE i \in 1 + n + 2 .. 1 + n + 1 + r
    <3>1. ~(i <= 1 + n + 1) /\ i - (1 + n + 1) \in 1 .. r
          /\ d + l + 1 + (i - (1 + n + 1)) = d + k - 1 + i
      BY <2>0, <2>4
    <3>2. w[i] = rest[i - (1 + n + 1)]  BY <1>12, <3>1
    <3>3. rest[i - (1 + n + 1)] = sp[d + l + 1 + (i - (1 + n + 1))]  BY <1>4, <3>1
    <3>4. QED  BY <3>1, <3>2, <3>3
  <2>5. i = 1 \/ i \in 2 .. 1 + n \/ i = 1 + n + 1 \/ i \in 1 + n + 2 .. 1 + n + 1 + r
    BY <2>0
  <2>6. QED  BY <2>1, <2>2, <2>3, <2>4, <2>5
<1>16. QED  BY <1>12, <1>13, <1>14, <1>15 DEF sp

\* A copy is put in its place below a directory of the requested name; in the
\* intended place, if the server's path contains the request nowhere before
\* (Client.c:190-193).
THEOREM CopiesInTheirPlace == SessionSpec => []RightPlace
<1>1. Exchange /\ PathInv => RightPlace
  <2> SUFFICES ASSUME Exchange, PathInv, ppc = "done"
               PROVE  /\ Resolve!EndsWith(copied_path, Resolve!Intended)
                      /\ Resolve!Unambiguous => copied_path = Resolve!Intended
    BY DEF RightPlace, Resolve!RightPlace
  <2>1. /\ directory \in Directories /\ rest \in FilePaths /\ cpc = "copy" /\ spc = "scan"
        /\ Resolve!SlashOfName(directory) # 0 /\ Walked(Whole) /\ start = <<>>
    BY DEF Exchange, Values, PathInv
  <2>2. path = directory  BY <2>1 DEF Exchange, Asking, Phase
  <2> DEFINE sp == Resolve!server_path
             c == copied_path
             w == Whole
             t == Resolve!Intended
             n == Least
             m == Len(copied_path)
  <2>3. /\ Len(sp) \in Nat /\ Len(w) \in Nat /\ n \in Nat /\ n <= Len(w) /\ Len(w) <= Len(sp)
        /\ Resolve!Unambiguous => n = Len(w)
    BY <2>1, <2>2, WholeFacts
  <2>4. \A i \in 1 .. Len(w) : w[i] = sp[Len(sp) - Len(w) + i]
    BY <2>1, <2>2, WholeFacts
  <2>5. t \in Seq(Characters) /\ Len(t) = n /\ \A i \in 1 .. n : t[i] = sp[Len(sp) - n + i]
    BY <2>1, <2>2, IntendedIs
  <2>6. c \in Seq(Characters) /\ m = Len(w) /\ \A i \in 1 .. Len(w) : c[i] = w[i]
    <3>1. /\ c \in Seq(Characters) /\ m \in Nat /\ m + Len(start) = Len(w)
          /\ \A i \in 1 .. m : c[i] = w[i]
      BY <2>1, LenProperties DEF Walked
    <3>2. Len(start) = 0  BY <2>1, EmptySeq
    <3>3. QED  BY <3>1, <3>2
  <2> HIDE DEF sp, w, t, n, c, m
  <2>7. ASSUME NEW i \in 1 .. n  PROVE c[Len(w) - n + i] = t[i]
    <3>1. Len(w) - n + i \in 1 .. Len(w)
          /\ Len(sp) - Len(w) + (Len(w) - n + i) = Len(sp) - n + i
      BY <2>3
    <3>2. c[Len(w) - n + i] = sp[Len(sp) - n + i]  BY <2>4, <2>6, <3>1
    <3>3. QED  BY <2>5, <3>2
  <2>8. PICK h \in Nat : h = Len(w) - n  BY <2>3
  <2>9. h + n = Len(w) /\ h + n <= Len(c) /\ h + 1 = Len(c) - n + 1 /\ Len(c) - n + 1 + n - 1 = Len(c)
        /\ Len(c) = h + n
    BY <2>3, <2>6, <2>8 DEF m, c
  <2>10. SubSeq(c, h + 1, h + n) = t
    <3>1. /\ SubSeq(c, h + 1, h + n) \in Seq(Characters)
          /\ Len(SubSeq(c, h + 1, h + n)) = n
          /\ \A i \in 1 .. n : SubSeq(c, h + 1, h + n)[i] = c[h + i]
      BY <2>3, <2>6, <2>9, SliceFacts
    <3>2. \A i \in 1 .. n : SubSeq(c, h + 1, h + n)[i] = t[i]  BY <2>7, <2>8, <3>1
    <3>3. QED  BY <2>5, <3>1, <3>2, SeqEqual
  <2>11. Resolve!EndsWith(c, t)
    <3>1. Resolve!EndsWith(c, t) <=>
            /\ n <= Len(c)
            /\ Len(c) - n + 1 + n - 1 <= Len(c)
            /\ SubSeq(c, Len(c) - n + 1, Len(c) - n + 1 + n - 1) = t
      BY <2>5, Zenon DEF Resolve!EndsWith, Resolve!OccursAt
    <3>2. n <= Len(c) /\ Len(c) <= Len(c)  BY <2>3, <2>8, <2>9
    <3>3. SubSeq(c, Len(c) - n + 1, Len(c) - n + 1 + n - 1) = t  BY <2>9, <2>10
    <3>4. QED  BY <2>9, <3>1, <3>2, <3>3
  <2>12. ASSUME Resolve!Unambiguous  PROVE c = t
    <3>1. n = Len(w) /\ \A i \in 1 .. n : Len(w) - n + i = i  BY <2>3, <2>12
    <3>2. \A i \in 1 .. n : c[i] = t[i]  BY <2>7, <3>1
    <3>3. Len(c) = n  BY <2>6, <3>1 DEF m, c
    <3>4. QED  BY <2>5, <2>6, <3>2, <3>3, SeqEqual
  <2>13. QED  BY <2>11, <2>12 DEF c, t
<1>2. QED  BY <1>1, SessionInvariant, PTL
=============================================================================
