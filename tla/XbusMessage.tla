------------------------------ MODULE XbusMessage ------------------------------
(***************************************************************************)
(* XsMessage (xsmessage.c): a message kept as the bytes that go out, whose *)
(* checksum every setter updates by the difference it makes.  msg is       *)
(* m_message; the empty sequence stands for a null data pointer.           *)
(* m_autoUpdateChecksum is 1, as every constructor of the class leaves it. *)
(***************************************************************************)
EXTENDS XbusFraming

CONSTANTS
  BusIds, MessageIds,   \* the ids set
  Sizes,      \* data sizes constructed and resized to
  Offsets,    \* offsets written, inserted and deleted at
  Values,     \* what is written: byte strings in wire order
  Counts,     \* numbers of bytes inserted and deleted
  MaxData     \* bound on the data size

ASSUME MessageAssumption ==
  /\ BusIds \subseteq Bytes /\ MessageIds \subseteq Bytes
  /\ Values \subseteq Seq(Bytes) \ {<<>>}
  /\ MaxData \in 0 .. MaxMsgLen - ExtHeaderCS    \* XS_MAXDATALEN
  /\ Sizes \subseteq 0 .. MaxData /\ Offsets \subseteq Nat /\ Counts \subseteq Nat

VARIABLE msg

Master == 255    \* XS_BID_MASTER
Null   == <<>>

BusId(m)     == ByteAt(m, 1)
MessageId(m) == ByteAt(m, 2)
Checksum(m)  == m[Len(m)]
DataOf(m) ==
  IF m = Null THEN <<>>
  ELSE SubSeq(m, (IF IsExtended(m, 0) THEN 6 ELSE 4) + 1, Len(m) - 1)
DataSize(m) == Len(DataOf(m))

Zeros(n)   == [i \in 1 .. n |-> 0]
SumOf(s)   == ByteSum(s, 1, Len(s))
AsByte(i)  == i % 256

\* The length bytes of a message with n bytes of data.
Length(n) ==
  IF n < ExtLenCode THEN <<n>> ELSE <<ExtLenCode, n \div 256, AsByte(n)>>

Assembled(bus, mid, data, cs) ==
  <<Preamble, bus, mid>> \o Length(Len(data)) \o data \o <<AsByte(cs)>>

SizedChecksum(n) == -(SumOf(Length(n)) + Master)

\* XsMessage_constructSized
ConstructSized(n) == Assembled(Master, 0, Zeros(n), SizedChecksum(n))

\* m, constructed first when it is null
Constructed(m) == IF m = Null THEN ConstructSized(0) ELSE m

\* mutated: the message id is left out of the checksum of the new buffer
ResizedWithoutId(m, n) ==
  IF DataSize(m) = n THEN m
  ELSE IF m = Null THEN ConstructSized(n)
  ELSE LET kept == SubSeq(DataOf(m), 1, IF n < DataSize(m) THEN n ELSE DataSize(m))
       IN Assembled(BusId(m), MessageId(m), kept \o Zeros(n - Len(kept)),
                    SizedChecksum(n) + Master - BusId(m) - SumOf(kept))

Resized(m, n) ==
  IF DataSize(m) = n THEN m
  ELSE IF m = Null THEN ConstructSized(n)
  ELSE LET kept == SubSeq(DataOf(m), 1, IF n < DataSize(m) THEN n ELSE DataSize(m))
       IN Assembled(BusId(m), MessageId(m), kept \o Zeros(n - Len(kept)),
                    SizedChecksum(n) + Master - (BusId(m) + MessageId(m)) - SumOf(kept))

\* setEndianCorrectData and setDataBuffer
Written(m, values, offset) ==
  LET end == offset + Len(values)
      r   == IF DataSize(m) < end THEN Resized(m, end) ELSE m
      old == DataOf(r)
  IN Assembled(BusId(r), MessageId(r),
       SubSeq(old, 1, offset) \o values \o SubSeq(old, end + 1, Len(old)),
       Checksum(r) + SumOf(SubSeq(old, offset + 1, end)) - SumOf(values))

\* The checksum is that of a new message, less the old data: not the ids copied.
Inserted(m, count, offset) ==
  LET old  == DataOf(m)
      size == (IF Len(old) < offset THEN offset ELSE Len(old)) + count
  IN IF count = 0 THEN m
     ELSE IF m = Null THEN ConstructSized(size)
     ELSE Assembled(BusId(m), MessageId(m),
            SubSeq(old \o Zeros(offset), 1, offset) \o Zeros(count)
              \o SubSeq(old, offset + 1, Len(old)),
            SizedChecksum(size) - SumOf(old))

\* mutated: what follows is moved up from one byte too far
DeletedTooFar(m, count, offset) ==
  LET old  == DataOf(m)
      data == SubSeq(old, 1, offset) \o SubSeq(old, offset + count + 2, Len(old))
  IN IF count = 0 \/ offset >= Len(old) THEN m
     ELSE IF offset + count >= Len(old) THEN Resized(m, offset)
     ELSE Assembled(BusId(m), MessageId(m), data, SizedChecksum(Len(data)) - SumOf(data))

Deleted(m, count, offset) ==
  LET old  == DataOf(m)
      data == SubSeq(old, 1, offset) \o SubSeq(old, offset + count + 1, Len(old))
  IN IF count = 0 \/ offset >= Len(old) THEN m
     ELSE IF offset + count >= Len(old) THEN Resized(m, offset)
     ELSE Assembled(BusId(m), MessageId(m), data, SizedChecksum(Len(data)) - SumOf(data))
--------------------------------------------------------------------------------
MessageInit == msg \in {ConstructSized(n) : n \in Sizes}

Clear         == msg' = Null
Resize(n)     == msg' = Resized(msg, n)

SetBusId(b) ==
  LET m == Constructed(msg)
  IN msg' = Assembled(b, MessageId(m), DataOf(m), Checksum(m) + BusId(m) - b)

SetMessageId(id) ==
  LET m == Constructed(msg)
  IN msg' = Assembled(BusId(m), id, DataOf(m), Checksum(m) + MessageId(m) - id)

SetData(values, offset) ==
  /\ offset + Len(values) <= MaxData
  /\ msg' = Written(msg, values, offset)

\* recomputeChecksum asserts that there is a message.
RecomputeChecksum ==
  /\ msg # Null
  /\ msg' = [msg EXCEPT ![Len(msg)] = ComputeChecksum(msg, 0)]

InsertData(count, offset) ==
  /\ DataSize(msg) + offset + count <= MaxData
  /\ msg' = Inserted(msg, count, offset)

DeleteData(count, offset) == msg' = Deleted(msg, count, offset)

\* The operations that keep the checksum.
Set ==
  \/ Clear
  \/ \E n \in Sizes : Resize(n)
  \/ \E b \in BusIds : SetBusId(b)
  \/ \E id \in MessageIds : SetMessageId(id)
  \/ \E v \in Values, o \in Offsets : SetData(v, o)
  \/ RecomputeChecksum

MessageNext ==
  \/ Set
  \/ \E c \in Counts, o \in Offsets : InsertData(c, o) \/ DeleteData(c, o)

MessageSpec == MessageInit /\ [][MessageNext]_msg
--------------------------------------------------------------------------------
\* The parser on the other end accepts m, or would but for its rule for GPS data.
Readable(m) ==
  m # Null => /\ ChecksumOk(m, 0)
              /\ IsFalseHeader(m, 0) \/ Acceptable(m, 0, Len(m))

(* The setters make of a message that the parser on the other end accepts   *)
(* another such message, in any order and number: the length and the        *)
(* checksum updated by differences are those of the bytes.  Only bus id 0   *)
(* with message id 0 is refused, by findMessage's rule for GPS data, and    *)
(* even then the checksum is kept for the id that comes next.               *)
SettersKeepReadable == [][Set /\ Readable(msg) => Readable(msg')]_msg

(* insertData and deleteData leave messages whose header gives their        *)
(* length, on both sides of the length at which it changes form, and        *)
(* deleteData undoes insertData.                                            *)
DeleteUndoesInsert ==
  \A c \in Counts, o \in Offsets :
    msg # Null /\ o <= DataSize(msg) =>
      LET inserted == Inserted(msg, c, o)
          m == Deleted(inserted, c, o)
      IN /\ MsgSize(inserted, 0) = Len(inserted)
         /\ MsgSize(m, 0) = Len(m)
         /\ SubSeq(m, 1, Len(m) - 1) = SubSeq(msg, 1, Len(msg) - 1)
================================================================================
