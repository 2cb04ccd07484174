-------------------------------- MODULE Wire --------------------------------
(***************************************************************************)
(* What two nodes write on a connection and read from it: the encodings of *)
(* packages/converter and packages/network/protocol.go, the formats of a   *)
(* block, of its transactions and of an announcement.  Bytes are bytes and *)
(* words have 8 of them; hashes and payloads are runs of one byte.         *)
(*                                                                         *)
(* A reader takes a sequence of bytes and returns [ok, val, rest].         *)
(***************************************************************************)
EXTENDS Integers, Sequences, SequencesExt

CONSTANTS
  Messages,   \* what may be sent
  MaxTxSize,  \* max_tx_size
  MaxSent     \* bound on what is sent

VARIABLES
  conn,       \* the bytes on the connection
  wrote,      \* the messages that were written
  read        \* those that were read, Refused for one that was not taken

wireVars == <<conn, wrote, read>>

Some(v, rest) == [ok |-> TRUE, val |-> v, rest |-> rest]
Wrong == [ok |-> FALSE]

\* bytes.Buffer.Next and what it leaves
Next_(b, n) == SubSeq(b, 1, IF n > Len(b) THEN Len(b) ELSE n)
After(b, n) == SubSeq(b, n + 1, Len(b))

-----------------------------------------------------------------------------
\* The low n bytes of x, lowest first; a negative x in two's complement.
LittleEndian(x, n) ==
  LET q[i \in 0..n] == IF i = 0 THEN x ELSE q[i - 1] \div 256
  IN  [i \in 1..n |-> q[i - 1] % 256]
BigEndian(x, n) == Reverse(LittleEndian(x, n))

\* BinToDec and binary.BigEndian: a word of 8 bytes has a sign.
BinToDec(b) ==
  LET v[i \in 0..Len(b)] ==
        IF i = 0 THEN 0
        ELSE v[i - 1] * 256 + (IF i = 1 /\ Len(b) = 8 /\ b[1] >= 128 THEN b[1] - 256 ELSE b[i])
  IN  v[Len(b)]

\* buf without the zeros at its start
Trimmed(b) ==
  LET zeros == {i \in 0..Len(b) : \A j \in 1..i : b[j] = 0}
  IN  After(b, CHOOSE i \in zeros : \A j \in zeros : j <= i)

\* DecToBin, HexToBin: a number of more than 2 n digits is written in full, and
\* loses its last digit if their number is odd.
DecToBin(x, n) ==
  LET q[i \in 0..16] == IF i = 0 THEN x ELSE q[i - 1] \div 16
      w == CHOOSE i \in (2 * n)..16 : q[i] = 0 /\ \A j \in (2 * n)..(i - 1) : q[j] # 0
      digit(i) == q[w - i] % 16
  IN  [i \in 1..(w \div 2) |-> 16 * digit(2 * i - 1) + digit(2 * i)]

\* A slip: 128 is written as one byte.
EncodeLengthShort(n) ==
  IF n >= 0 /\ n <= 128 THEN <<n>>
  ELSE LET b == Trimmed(BigEndian(n, 8)) IN <<128 + Len(b)>> \o b

EncodeLength(n) ==
  IF n >= 0 /\ n <= 127 THEN <<n>>
  ELSE LET b == Trimmed(BigEndian(n, 8)) IN <<128 + Len(b)>> \o b

\* DecodeLength, DecodeLengthBuf: an empty input is a zero.
DecodeLength(b) ==
  LET size == b[1] - 128
  IN  IF b = <<>> THEN Some(0, b)
      ELSE IF b[1] < 128 THEN Some(b[1], Tail(b))
      ELSE IF Len(b) - 1 < size THEN Wrong
      ELSE Some(BinToDec(Next_(Tail(b), size)), After(b, size + 1))

EncodeLengthPlusData(d) == EncodeLength(Len(d)) \o d

DecodeData(b) ==
  LET n == DecodeLength(b)
  IN  IF ~n.ok THEN Wrong
      ELSE IF n.val < 0 \/ Len(n.rest) < n.val THEN Wrong
      ELSE Some(Next_(n.rest, n.val), After(n.rest, n.val))

\* EncodeLenInt64, EncodeLenInt64InPlace
EncodeLenInt64(x) == LET b == Reverse(Trimmed(BigEndian(x, 8))) IN <<Len(b)>> \o b

DecodeLenInt64(b) ==
  IF b = <<>> THEN Some(0, b)
  ELSE IF Len(b) - 1 < b[1] THEN Wrong
  ELSE LET word == Next_(Tail(b), b[1]) \o [i \in 1..(8 - b[1]) |-> 0]
       IN  Some(BinToDec(Reverse(word)), After(b, b[1] + 1))

-----------------------------------------------------------------------------
\* BinMarshal and BinUnmarshal of a field by its kind, a string being a slice;
\* a struct is the sequence of its fields.
BinMarshal(kind, v) ==
  CASE kind = "uint8" -> <<v>>
    [] kind = "uint32" -> BigEndian(v, 4)
    [] kind = "int64" -> EncodeLenInt64(v)
    [] kind = "int32" -> IF v < 128 THEN <<v>> ELSE LET w == Trimmed(BigEndian(v, 4)) IN <<128 + Len(w)>> \o w
    [] kind = "uint64" -> BigEndian(v, 8)
    [] kind = "slice" -> EncodeLengthPlusData(v)

\* The same from a buffer: a long int32 wants one byte more than it has.
BinUnmarshalBuff(kind, b) ==
  IF b = <<>> THEN Wrong ELSE
  CASE kind = "uint8" -> Some(b[1], Tail(b))
    [] kind = "uint32" -> Some(BinToDec(Next_(b, 4)), After(b, 4))
    [] kind = "int32" /\ b[1] < 128 -> Some(b[1], Tail(b))
    [] kind = "int32" /\ b[1] >= 128 ->
         IF Len(b) - 1 <= b[1] - 128 \/ b[1] > 132 THEN Wrong
         ELSE Some(BinToDec(SubSeq(b, 2, b[1] - 127)), After(b, b[1] - 127))
    [] kind = "int64" -> DecodeLenInt64(b)
    [] kind = "uint64" -> Some(BinToDec(Next_(b, 8)), After(b, 8))
    [] kind = "slice" -> DecodeData(b)

BinUnmarshal(kind, b) ==
  IF b = <<>> THEN Wrong ELSE
  CASE kind = "uint8" -> Some(b[1], Tail(b))
    [] kind = "uint32" -> Some(BinToDec(Next_(b, 4)), After(b, 4))
    [] kind = "int32" /\ b[1] < 128 -> Some(b[1], Tail(b))
    [] kind = "int32" /\ b[1] >= 128 ->
         IF Len(b) <= b[1] - 128 \/ b[1] > 132 THEN Wrong
         ELSE Some(BinToDec(SubSeq(b, 2, b[1] - 127)), After(b, b[1] - 127))
    [] kind = "int64" -> DecodeLenInt64(b)
    [] kind = "uint64" -> Some(BinToDec(Next_(b, 8)), After(b, 8))
    [] kind = "slice" -> DecodeData(b)

\* FirstBlock and StopNetwork of packages/consts
TxHeader == <<"uint8", "uint32", "int64">>
Struct(type) == TxHeader \o IF type = 1 THEN <<"slice", "slice", "slice", "int64", "uint64">> ELSE <<"slice">>

MarshalStruct(t) ==
  FoldLeft(\o, <<>>, [i \in DOMAIN t.fields |-> BinMarshal(Struct(t.fields[1])[i], t.fields[i])])

UnmarshalStruct(b) ==
  LET kinds == Struct(b[1])
      with(fields, v) == IF v.ok THEN Some(Append(fields, v.val), v.rest) ELSE Wrong
      field(got, kind) == IF got.ok THEN with(got.val, BinUnmarshal(kind, got.rest)) ELSE Wrong
  IN  FoldLeft(field, Some(<<>>, b), kinds)

\* newTransaction, and the transactions that are structs
TxBytes(t) ==
  IF t.type > 127
  THEN <<t.type>> \o EncodeLengthPlusData(t.payload) \o EncodeLengthPlusData(t.sign)
  ELSE MarshalStruct(t)

StructTx(type, s) == IF s.ok THEN Some([type |-> type, fields |-> s.val], s.rest) ELSE Wrong

\* RawTransaction.Unmarshall with parseFromStruct, or with the signature as
\* CheckSign takes it.
TxOf(b) ==
  IF b = <<>> THEN Wrong
  ELSE IF b[1] > 127
  THEN LET payload == BinUnmarshalBuff("slice", Tail(b))
           sign == DecodeData(payload.rest)
       IN  IF ~payload.ok THEN Wrong
           ELSE IF ~sign.ok THEN Wrong
           ELSE Some([type |-> b[1], payload |-> payload.val, sign |-> sign.val], <<>>)
  ELSE StructTx(b[1], UnmarshalStruct(b))

-----------------------------------------------------------------------------
\* The transactions one after another, of a block or of an announcement.
TxsBytes(txs) == FoldLeft(LAMBDA out, t : out \o EncodeLengthPlusData(TxBytes(t)), <<>>, txs)

\* t is the next transaction, and more those after it.
TxsAfter(t, more) ==
  IF ~t.ok THEN Wrong ELSE IF ~more.ok THEN Wrong ELSE Some(<<t.val>> \o more.val, <<>>)

\* The transactions after the first i bytes, piece by piece.
TxsOf(b) ==
  LET from[i \in 0..Len(b)] ==
        IF i = Len(b) THEN Some(<<>>, <<>>)
        ELSE LET d == DecodeData(After(b, i))
                 t == TxOf(d.val)
                 more == from[Len(b) - Len(d.rest)]
             IN  IF ~d.ok THEN Wrong ELSE TxsAfter(t, more)
  IN  from[0]

MarshallBlock(m) ==
  LET h == m.header
  IN  DecToBin(h.version, 2) \o DecToBin(h.blockID, 4) \o DecToBin(h.time, 4) \o DecToBin(h.ecosystemID, 4)
      \o EncodeLenInt64(h.keyID) \o DecToBin(h.nodePosition, 1) \o EncodeLengthPlusData(h.sign)
      \o TxsBytes(m.txs)

\* The first block has no signature, and one byte in its place.
ParseBlockHeader(b) ==
  LET key == DecodeLenInt64(After(b, 14))
      id == BinToDec(SubSeq(b, 3, 6))
      sign == IF id > 1 THEN DecodeData(Tail(key.rest)) ELSE Some(<<>>, After(key.rest, 2))
  IN  IF Len(b) < 9 THEN Wrong
      ELSE IF ~key.ok THEN Wrong
      ELSE IF ~sign.ok THEN Wrong
      ELSE Some([version |-> BinToDec(Next_(b, 2)), blockID |-> id, time |-> BinToDec(SubSeq(b, 7, 10)),
                 ecosystemID |-> BinToDec(SubSeq(b, 11, 14)), keyID |-> key.val,
                 nodePosition |-> key.rest[1], sign |-> sign.val], sign.rest)

BlockOf(h, txs) ==
  IF ~h.ok THEN Wrong
  ELSE IF ~txs.ok THEN Wrong
  ELSE Some([type |-> "block", header |-> h.val, txs |-> txs.val], <<>>)

UnmarshallBlock(b) == BlockOf(ParseBlockHeader(b), TxsOf(ParseBlockHeader(b).rest))

\* The leaves of a block: the hashes, here terms, of its transactions.
Leaves(txs) == IF txs = <<>> THEN <<<<"leaf", <<>>>>>> ELSE [i \in DOMAIN txs |-> <<"leaf", txs[i]>>]

\* The next level: hashes of pairs, and the last one if it has no partner.
NextLevel(level) ==
  [i \in 1..((Len(level) + 1) \div 2) |->
     IF 2 * i > Len(level) THEN level[2 * i - 1] ELSE <<"node", level[2 * i - 1], level[2 * i]>>]

\* A level of one is its own next one.
MerkleTreeRoot(leaves) ==
  LET level[i \in 0..Len(leaves)] == IF i = 0 THEN leaves ELSE LET below == level[i - 1] IN NextLevel(below)
  IN  level[Len(leaves)][1]

-----------------------------------------------------------------------------
\* writeSlice and ReadSlice: four bytes with seven bits of the length each.
Uvarint(n) ==
  LET q[i \in 0..4] == IF i = 0 THEN n ELSE q[i - 1] \div 128
  IN  [i \in 1..4 |-> (q[i - 1] % 128) + (IF q[i] > 0 THEN 128 ELSE 0)]

WriteSlice(d) == Uvarint(Len(d)) \o d

ReadSlice(b) ==
  LET last == {i \in 1..4 : b[i] < 128 /\ \A j \in 1..(i - 1) : b[j] >= 128}
      v[i \in 0..4] == IF i = 0 THEN 0 ELSE v[i - 1] + (b[i] % 128) * 128 ^ (i - 1)
      size == v[CHOOSE i \in last : TRUE]
  IN  IF Len(b) < 4 THEN Wrong
      ELSE IF last = {} THEN Wrong
      ELSE IF Len(b) - 4 < size THEN Wrong
      ELSE Some(Next_(After(b, 4), size), After(b, 4 + size))

HashSize == 32

\* prepareFullBlockRequest, and Type1 with processBlock and readHashes
AnnouncementBytes(m) ==
  DecToBin(m.node, 8)
  \o (IF m.block.id = 0 THEN <<1>> ELSE <<0>> \o DecToBin(m.block.id, 3) \o m.block.hash)
  \o FoldLeft(\o, <<>>, m.hashes)

NoBlock == [id |-> 0, hash |-> <<>>]

AnnouncementOf(b) ==
  LET some == b[9] = 0
      rest == After(b, IF some THEN 12 + HashSize ELSE 9)
  IN  IF Len(rest) % HashSize # 0 THEN Wrong
      ELSE Some([type |-> "announcement", node |-> BinToDec(Next_(b, 8)),
                 block |-> IF some THEN [id |-> BinToDec(SubSeq(b, 10, 12)), hash |-> SubSeq(b, 13, 12 + HashSize)] ELSE NoBlock,
                 hashes |-> [i \in 1..(Len(rest) \div HashSize) |-> SubSeq(rest, (i - 1) * HashSize + 1, i * HashSize)]], <<>>)

\* The transactions that were asked for: SendFullBlockToAll, resieveTxBodies.
BodiesBytes(m) == LET b == TxsBytes(m.txs) IN DecToBin(Len(b), 4) \o b

\* GetBodiesRequest
RequestBytes(m) == LittleEndian(m.blockID, 4) \o <<IF m.reverse THEN 1 ELSE 0>>

\* DisHashResponse: the hashes of the transactions that are wanted. The reader
\* splits what is not longer than max_tx_size.
HashesBytes(m) == WriteSlice(FoldLeft(\o, <<>>, m.hashes))
HashesOf(b) ==
  LET slice == ReadSlice(b)
  IN  IF ~slice.ok THEN Wrong
      ELSE IF Len(slice.val) > MaxTxSize THEN Wrong
      ELSE Some([type |-> "hashes",
                 hashes |-> [i \in 1..(Len(slice.val) \div HashSize) |-> SubSeq(slice.val, (i - 1) * HashSize + 1, i * HashSize)]],
                slice.rest)

\* StopNetworkRequest and StopNetworkResponse, ConfirmRequest,
\* MaxBlockResponse and the integers of WriteInt.
StopBytes(m) == WriteSlice(m.data)
StopOf(type, b) ==
  LET slice == ReadSlice(b)
  IN  IF ~slice.ok THEN Wrong
      ELSE IF type = "stopped" /\ Len(slice.val) # HashSize THEN Wrong
      ELSE Some([type |-> type, data |-> slice.val], slice.rest)
NumberSize(type) == IF type = "confirm" THEN 4 ELSE 8
NumberBytes(m) == LittleEndian(m.number, NumberSize(m.type))
NumberOf(type, b) ==
  Some([type |-> type, number |-> BinToDec(Reverse(Next_(b, NumberSize(type))))], After(b, NumberSize(type)))

\* RequestType, of what begins a request.
RequestType(type) ==
  CASE type = "announcement" -> LittleEndian(1, 2)
    [] type = "stop" -> LittleEndian(3, 2)
    [] type = "confirm" -> LittleEndian(4, 2)
    [] type = "request" -> LittleEndian(7, 2)
    [] OTHER -> <<>>

WriteMessage(m) ==
  RequestType(m.type) \o
  CASE m.type = "block" -> WriteSlice(MarshallBlock(m))
    [] m.type = "announcement" -> WriteSlice(AnnouncementBytes(m))
    [] m.type = "bodies" -> BodiesBytes(m)
    [] m.type = "request" -> RequestBytes(m)
    [] m.type = "hashes" -> HashesBytes(m)
    [] m.type \in {"stop", "stopped"} -> StopBytes(m)
    [] m.type \in {"confirm", "maxblock", "count"} -> NumberBytes(m)
    [] m.type = "value" -> BinMarshal(m.kind, m.val)

\* Something of its own inside a slice.
Within(slice, got) ==
  IF ~slice.ok THEN Wrong ELSE IF got.ok THEN Some(got.val, slice.rest) ELSE Wrong

BodiesOf(txs, rest) == IF txs.ok THEN Some([type |-> "bodies", txs |-> txs.val], rest) ELSE Wrong
ValueOf(m, value) == IF value.ok THEN Some([m EXCEPT !.val = value.val], value.rest) ELSE Wrong

\* What a side of the connection reads is what it expects there.
ReadMessage(m, conn_) ==
  LET type == m.type
      b == After(conn_, Len(RequestType(type)))
      slice == ReadSlice(b)
      size == BinToDec(Next_(b, 4))
  IN  IF Next_(conn_, Len(RequestType(type))) # RequestType(type) THEN Wrong ELSE
      CASE type = "block" -> Within(slice, UnmarshallBlock(slice.val))
        [] type = "announcement" -> Within(slice, AnnouncementOf(slice.val))
        [] type = "bodies" -> BodiesOf(TxsOf(SubSeq(b, 5, 4 + size)), After(b, 4 + size))
        [] type = "request" -> Some([type |-> "request", blockID |-> BinToDec(Reverse(Next_(b, 4))), reverse |-> b[5] > 0], After(b, 5))
        [] type = "hashes" -> HashesOf(b)
        [] type \in {"stop", "stopped"} -> StopOf(type, b)
        [] type \in {"confirm", "maxblock", "count"} -> NumberOf(type, b)
        [] type = "value" -> ValueOf(m, BinUnmarshal(m.kind, b))

-----------------------------------------------------------------------------
Init == conn = <<>> /\ wrote = <<>> /\ read = <<>>

Write(m) ==
  /\ Len(wrote) < MaxSent
  /\ conn' = conn \o WriteMessage(m) /\ wrote' = Append(wrote, m)
  /\ UNCHANGED read

Refused == [type |-> "refused"]

Take(got) ==
  /\ read' = Append(read, IF got.ok THEN got.val ELSE Refused)
  /\ conn' = IF got.ok THEN got.rest ELSE <<>>

Read ==
  /\ Len(read) < Len(wrote)
  /\ Take(ReadMessage(wrote[Len(read) + 1], conn))
  /\ UNCHANGED wrote

Next == Read \/ \E m \in Messages : Write(m)

-----------------------------------------------------------------------------
\* What is read is what was written, field by field, and the next message
\* begins where it ends, at every length at which an encoding changes its form
\* (EncodeLength, EncodeLenInt64, writeSlice, MarshallBlock, newTransaction).
ReadsBack ==
  /\ \A i \in 1..Len(read) : read[i] = wrote[i]
  /\ Len(read) = Len(wrote) => conn = <<>>

\* Two blocks with the same root have the same transactions, in their order
\* (MerkleTreeRoot): a lone leaf of a level goes up, and is not lost.
RootTellsApart ==
  Len(wrote) = 2 /\ read = <<>> /\ wrote[1].type = "block" /\ wrote[2].type = "block"
  => (MerkleTreeRoot(Leaves(wrote[1].txs)) = MerkleTreeRoot(Leaves(wrote[2].txs)) => wrote[1].txs = wrote[2].txs)

\* What is read is what was written, and a root stands for the transactions of
\* one block only (UnmarshallBlock, MerkleTreeRoot).
WireIsFaithful == ReadsBack /\ RootTellsApart
=============================================================================
