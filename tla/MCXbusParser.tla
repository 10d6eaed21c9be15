----------------------------- MODULE MCXbusParser ------------------------------
(***************************************************************************)
(* Streams for XbusParser: every sequence of at most two blocks of a set,  *)
(* valid messages and the kinds of noise the loop tells apart, and chosen  *)
(* longer ones.                                                            *)
(***************************************************************************)
EXTENDS XbusParser, SequencesExt

CONSTANTS
  Blocks,      \* the blocks the streams are made of
  LongLists    \* the longer lists of blocks

\* A message with bus id 255 (the master), as XsMessage_constructSized makes it.
ShortMsg(mid, data) ==
  LET body == <<255, mid, Len(data)>> \o data
  IN <<Preamble>> \o body \o <<(-ByteSum(body, 1, Len(body))) % 256>>

\* The extended form; findMessage does not ask that the length needs it.
ExtMsg(mid, data) ==
  LET body == <<255, mid, ExtLenCode, 0, Len(data)>> \o data
  IN <<Preamble>> \o body \o <<(-ByteSum(body, 1, Len(body))) % 256>>

Ack       == ShortMsg(49, <<>>)               \* XMID_GotoConfigAck
Data      == ShortMsg(54, <<Preamble>>)       \* XMID_MtData2, a preamble inside
Nested    == ShortMsg(54, Ack)                \* its data are a whole message
Extended  == ExtMsg(54, <<7>>)
Noise     == <<7>>
LonePre   == <<Preamble>>                     \* a preamble and nothing behind it
Corrupt   == [Data EXCEPT ![6] = 1]           \* a message with a wrong checksum
CorruptNested == [Nested EXCEPT ![10] = 0]    \* wrong checksum, a whole message inside
GpsHeader == <<Preamble, 0, 0, 1>>            \* bus id 0, message id 0
Oversize  == <<Preamble, 255, 54, 255, 255, 255>>   \* announces 65542 bytes
LateMsg   == ShortMsg(255, <<>>)              \* message id 255

AllBlocks   == {Ack, Data, Nested, Extended, Noise, LonePre, Corrupt,
                CorruptNested, GpsHeader, Oversize, LateMsg}

\* Three in a row, of messages and of noise before, between and behind them.
Triples ==
  [1 .. 3 -> {Ack, Nested, LonePre}]
    \cup {<<GpsHeader, LonePre, Data>>, <<Ack, Noise, Data>>, <<Corrupt, Oversize, Ack>>}

BlockLists == UNION {[1 .. k -> Blocks] : k \in 0 .. 2} \cup LongLists

MCStreams == {FlattenSeq(l) : l \in BlockLists}

\* The block boundaries of a stream.
MCBounds ==
  [w \in MCStreams |->
     LET l == CHOOSE x \in BlockLists : FlattenSeq(x) = w
     IN {Len(FlattenSeq(SubSeq(l, 1, k))) : k \in 0 .. Len(l)}]

================================================================================
