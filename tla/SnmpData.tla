------------------------------ MODULE SnmpData ------------------------------
(***************************************************************************)
(* The encoding of SNMP messages (common/snmp/src/QtSnmpData.cpp).  A byte *)
(* array is a sequence over 0..255; an object identifier is the sequence   *)
(* of its numbers after ".1.3".                                            *)
(***************************************************************************)
EXTENDS Integers, Sequences, SequencesExt, FiniteSetsExt

CONSTANT Nesting   \* bound: how deep packets to send are nested in one another
\* A request has five levels: the message, the request, the list, an element, a value.
ASSUME NestingAssumption == Nesting \in Nat /\ Nesting >= 5

Byte == 0..255
INTEGER_TYPE == 2
STRING_TYPE == 4
OBJECT_TYPE == 6
NULL_DATA_TYPE == 5
SEQUENCE_TYPE == 48
IP_ADDR_TYPE == 64
COUNTER_TYPE == 65
GAUGE_TYPE == 66
TIME_TICKS_TYPE == 67
GET_REQUEST_TYPE == 160
SET_REQUEST_TYPE == 163
\* The types with children; a request to set is never valid: it has no data of its own.
ParentTypes == {SEQUENCE_TYPE} \cup GET_REQUEST_TYPE..SET_REQUEST_TYPE
INVALID_TYPE == -1
FIRST_BYTE == 43

-----------------------------------------------------------------------------
(* Faulty variants of the definitions below; no specification uses them.   *)

\* pow(0x80, max_pow) < value
MaxPowStrict(value) == Max({p \in 0..4 : 128^p < value})

\* The zeros are dropped before a last byte, too.
CompressAllZeros(data) ==
    LET nonzero == {n \in 1..Len(data) : data[n] # 0}
        i == IF nonzero = {} THEN 1 ELSE Min(nonzero)
    IN  SubSeq(data, i, Len(data))

\* No zero before a first byte with the high bit.
UnsignedChunkRaw(type, data) ==
    LET chunk == CompressAllZeros(data) IN <<type, Len(chunk)>> \o chunk

\* The count of length bytes without the bit that tells it from a length.
LongForm(bytes) == <<Len(bytes)>> \o bytes

-----------------------------------------------------------------------------
\* The largest power of 0x80 that is not above an int of 0x80 or more.
MaxPow(value) == Max({p \in 0..4 : 128^p <= value})

\* packInt: seven bits a byte, the first ones with the high bit set.
PackInt(value) ==
    IF value < 128 THEN <<value % 256>>
    ELSE LET last == MaxPow(value)
         IN  [n \in 1..last + 1 |-> ((value \div 128^(last + 1 - n)) % 128)
                                     + (IF n <= last THEN 128 ELSE 0)]

\* packOid; an identifier that is only ".1.3" gives nothing.
PackOid(ids) ==
    IF ids = <<>> THEN <<>>
    ELSE <<FIRST_BYTE>> \o FlattenSeq([n \in 1..Len(ids) |-> PackInt(ids[n])])

\* getOid; a number that is cut off, or another first byte, gives nothing.
NextByte(done, byte) ==
    IF byte >= 128
      THEN [ids |-> done.ids, big |-> done.big * 128 + byte - 128, open |-> TRUE]
      ELSE [ids |-> Append(done.ids, done.big * 128 + byte), big |-> 0, open |-> FALSE]

GetOid(data) ==
    LET read[n \in 0..(Len(data) - 1)] ==
            IF n = 0 THEN [ids |-> <<>>, big |-> 0, open |-> FALSE]
            ELSE NextByte(read[n - 1], data[n + 1])
    IN  IF data = <<>> \/ Head(data) # FIRST_BYTE \/ read[Len(data) - 1].open THEN <<>>
        ELSE read[Len(data) - 1].ids

-----------------------------------------------------------------------------
\* An int written to a QDataStream, and read from the first four bytes of one.
Stream(value) == <<(value \div 256^3) % 256, (value \div 256^2) % 256,
                   (value \div 256) % 256, value % 256>>
FromStream(data) ==
    (IF data[1] >= 128 THEN data[1] - 256 ELSE data[1]) * 256^3
      + data[2] * 256^2 + data[3] * 256 + data[4]

\* Zeros before data up to four, or to any number of bytes.
Fill(data) == [n \in 1..(4 - Len(data)) |-> 0] \o data
FillTo(size, data) == [n \in 1..(size - Len(data)) |-> 0] \o data

\* compressLeadingZeros: zeros are kept before a byte that is the last one.
CompressLeadingZeros(data) ==
    LET nonzero == {n \in 1..Len(data) : data[n] # 0}
        i == IF nonzero = {} THEN 1 ELSE Min(nonzero)
    IN  IF i < Len(data) THEN SubSeq(data, i, Len(data)) ELSE data

\* packLength, packContent
LengthBytes(bytes) == <<128 + Len(bytes)>> \o bytes
PackLength(length) ==
    IF length < 128 THEN <<length>>
    ELSE LengthBytes(CompressLeadingZeros(Stream(length)))

PackContent(type, content) == <<type>> \o PackLength(Len(content)) \o content

\* makeSnmpChunk of a counter, a gauge or time ticks.
UnsignedChunk(type, data) ==
    LET bytes == CompressLeadingZeros(data)
        chunk == IF bytes[1] > 127 THEN <<0>> \o bytes ELSE bytes
    IN  <<type, Len(chunk)>> \o chunk

-----------------------------------------------------------------------------
\* parseData: how many bytes hold the length, and how long the packet is.
SizeLength(data) == IF data[2] > 128 THEN 1 + (data[2] - 128) ELSE 1
DataLength(data) ==
    IF data[2] > 128 THEN FromStream(Fill(SubSeq(data, 3, SizeLength(data) + 1)))
    ELSE data[2]
PacketSize(data) == 1 + SizeLength(data) + DataLength(data)

\* The constructor's m_data of the types with four and with eight bytes.
Word(data) == IF Len(data) < 4 THEN Fill(data)
              ELSE SubSeq(data, Len(data) - 3, Len(data))
Long(data) == FillTo(8, data)

Packet(type, data, childs, address) ==
    [m_type |-> type, m_data |-> data, m_childs |-> childs, m_address |-> address]

IsValid(d) ==
    \/ d.m_type \in {INTEGER_TYPE, GAUGE_TYPE, IP_ADDR_TYPE} /\ Len(d.m_data) = 4
    \/ d.m_type \in {TIME_TICKS_TYPE, COUNTER_TYPE} /\ Len(d.m_data) = 8
    \/ d.m_type \in ({NULL_DATA_TYPE} \cup ParentTypes) \ {SET_REQUEST_TYPE} /\ d.m_data = <<>>
    \/ d.m_type = SET_REQUEST_TYPE /\ d.m_data # <<>>
    \/ d.m_type \in {OBJECT_TYPE, STRING_TYPE}

\* The constructor, with the packets that parseData reads in the content.
Constructed(type, content, packets) ==
    LET data == CASE type \in {INTEGER_TYPE, GAUGE_TYPE} -> Word(content)
                  [] type \in {COUNTER_TYPE, TIME_TICKS_TYPE} -> Long(content)
                  [] type = OBJECT_TYPE -> GetOid(content)
                  [] type \in {NULL_DATA_TYPE} \cup ParentTypes -> <<>>
                  [] OTHER -> content
    IN  Packet(type, data, IF type \in ParentTypes THEN packets ELSE <<>>, <<>>)

\* A turn of the loop: the packets in data, the first one's content and what follows it
\* read by read, and how the loop ends: after all of them, at a break, or never,
\* because less is left than the packet says and nothing is taken away.
Ended(how) == [packets |-> <<>>, ends |-> how]
ReadPackets(data, read) ==
    IF data = <<>> THEN Ended("done")
    ELSE IF Len(data) < 2 THEN Ended("never")
    ELSE IF data[2] > 128 /\ Len(data) <= SizeLength(data) THEN Ended("break")
    ELSE IF Len(data) < PacketSize(data) THEN Ended("never")
    ELSE LET content == SubSeq(data, SizeLength(data) + 2, PacketSize(data))
             pack == Constructed(data[1], content, read[content].packets)
             rest == read[SubSeq(data, PacketSize(data) + 1, Len(data))]
         IN  IF IsValid(pack) THEN [packets |-> <<pack>> \o rest.packets, ends |-> rest.ends]
             ELSE Ended("break")

\* Data of up to n bytes is read.
Reading[n \in Nat] ==
    IF n = 0 THEN [data \in Seq(Byte) |-> Ended("done")]
    ELSE [data \in Seq(Byte) |-> ReadPackets(data, Reading[n - 1])]
ParseData(data) == Reading[Len(data)][data]

Data(type, content) == Constructed(type, content, ParseData(content).packets)

\* The factories; the text of an identifier is stored as it is.
Integer(value) == Data(INTEGER_TYPE, Stream(value))
NullData == Data(NULL_DATA_TYPE, <<>>)
String(bytes) == Data(STRING_TYPE, bytes)
Sequence == Data(SEQUENCE_TYPE, <<>>)
OidData(ids) == Packet(OBJECT_TYPE, ids, <<>>, <<>>)

\* addChild of each of them.
AddChildren(d, children) == [d EXCEPT !.m_childs = @ \o children]
SetDataAddress(d, value) == [d EXCEPT !.m_address = value]
DataEq(left, right) ==
    /\ left.m_type = right.m_type /\ left.m_data = right.m_data
    /\ left.m_childs = right.m_childs /\ left.m_address = right.m_address

\* longLongValue cut to an int: the last four bytes of four or of eight.
IntValue(d) == FromStream(Word(d.m_data))

\* An address is not modelled, nor are the characters of a text.
ToVariant(d) ==
    CASE d.m_type \in {INTEGER_TYPE, GAUGE_TYPE, COUNTER_TYPE, TIME_TICKS_TYPE} -> <<IntValue(d)>>
      [] d.m_type = STRING_TYPE -> d.m_data
      [] OTHER -> <<>>

\* The packets whose children are taken from a set, and those of at most n levels.
PacketsOver(childs) ==
    [m_type : Byte \cup {INVALID_TYPE}, m_data : Seq(Nat), m_childs : Seq(childs),
     m_address : Seq(Nat)]
Packets[n \in 0..Nesting] == IF n = 0 THEN {} ELSE PacketsOver(Packets[n - 1])

\* makeSnmpChunk, the chunks of the children given.
Chunk(d, chunks) ==
    CASE d.m_type = OBJECT_TYPE -> PackContent(d.m_type, PackOid(d.m_data))
      [] d.m_type \in {INTEGER_TYPE, IP_ADDR_TYPE} ->
            PackContent(d.m_type, CompressLeadingZeros(d.m_data))
      [] d.m_type \in {GAUGE_TYPE, COUNTER_TYPE, TIME_TICKS_TYPE} ->
            UnsignedChunk(d.m_type, d.m_data)
      [] d.m_type \in ParentTypes ->
            PackContent(d.m_type, FlattenSeq([c \in 1..Len(d.m_childs) |->
                                                chunks[d.m_childs[c]]]))
      [] OTHER -> PackContent(d.m_type, d.m_data)
Chunks[n \in 0..Nesting] ==
    IF n = 0 THEN <<>> ELSE [d \in Packets[n] |-> Chunk(d, Chunks[n - 1])]
MakeSnmpChunk(d) == Chunks[Nesting][d]

\* operator <<: type, data, number of children, children, address.
Streamed(d, streams) ==
    <<<<d.m_type>>, d.m_data, <<Len(d.m_childs)>>>>
        \o FlattenSeq([c \in 1..Len(d.m_childs) |-> streams[d.m_childs[c]]])
        \o <<d.m_address>>
Streams[n \in 0..Nesting] ==
    IF n = 0 THEN <<>> ELSE [d \in Packets[n] |-> Streamed(d, Streams[n - 1])]
ToStream(d) == Streams[Nesting][d]

\* operator >>: the object, its children read by read, and what is left of the stream.
Restored(stream, read) ==
    LET children[c \in 0..stream[3][1]] ==
            IF c = 0 THEN [obj |-> <<>>, rest |-> SubSeq(stream, 4, Len(stream))]
            ELSE LET child == read[children[c - 1].rest]
                 IN  [obj |-> Append(children[c - 1].obj, child.obj), rest |-> child.rest]
        last == children[stream[3][1]]
    IN  [obj |-> Packet(stream[1][1], stream[2], last.obj, Head(last.rest)),
         rest |-> Tail(last.rest)]
OfStreams[n \in 0..Nesting] ==
    IF n = 0 THEN <<>>
    ELSE [stream \in Seq(Seq(Int)) |-> Restored(stream, OfStreams[n - 1])]
OfStream(stream) == OfStreams[Nesting][stream]

\* A request of a session for some values.
RequestPacket(type, community, id, oids) ==
    LET info(ids) == AddChildren(Sequence, <<OidData(ids), NullData>>)
        objects == AddChildren(Sequence, [n \in 1..Len(oids) |-> info(oids[n])])
        request == AddChildren(Data(type, <<>>),
                               <<Integer(id), Integer(0), Integer(0), objects>>)
    IN  AddChildren(Sequence, <<Integer(0), String(community), request>>)
=============================================================================
