------------------------------ MODULE XbusParser -------------------------------
(***************************************************************************)
(* DeviceClass::readDataToBuffer and processBufferedData with the loop of  *)
(* ProtocolHandler::findMessage, one action per way an iteration can end.  *)
(*                                                                         *)
(* The code copies bytes: m_dataBuffer is the received bytes from `head'   *)
(* on, and the array `raw' that findMessage scans starts `popped' bytes    *)
(* further.  The model keeps the stream whole and moves these indices over *)
(* it, so pre and the positions of the MessageLocation are offsets in the  *)
(* stream where the code has offsets in raw.                               *)
(***************************************************************************)
EXTENDS XbusWire

CONSTANT
  MaxRead    \* maxSz of readDataToBuffer, the most one read returns

ASSUME MaxReadAssumption == MaxRead \in Nat \ {0}

VARIABLES
  pc,          \* "idle", "scan" in findMessage, "return" behind it
  wire,        \* the bytes the device sends
  rcvd,        \* how many of them have been appended to m_dataBuffer
  head,        \* the stream offset of m_dataBuffer[0]
  popped,      \* processBufferedData's local
  pre,         \* findMessage's local, the position looked at
  rv,          \* the MessageLocation findMessage returns
  messages,    \* the messages of this call of processBufferedData
  delivered    \* history: the messages of all calls

vars == <<pc, wire, rcvd, head, popped, pre, rv, messages, delivered>>

None == -1

\* The stream offset of raw[0], from which findMessage starts.
Base == head + popped

NoLocation ==
  [startPos |-> None, size |-> 0, incompletePos |-> None, incompleteSize |-> 0]

IsValid(loc) == loc.startPos >= 0 /\ loc.size > 0

Init ==
  /\ pc = "idle"
  /\ wire \in Streams
  /\ rcvd = 0
  /\ head = 0
  /\ popped = 0
  /\ pre = 0
  /\ rv = NoLocation
  /\ messages = <<>>
  /\ delivered = <<>>

\* readDataToBuffer, then processBufferedData up to its first findMessage.  A
\* read that returns nothing leaves the buffer as it is and scans it again.
ReadAppending(n, buffer) ==
  /\ pc = "idle"
  /\ rcvd + n <= Len(wire)
  /\ rcvd' = rcvd + n
  /\ pc' = "scan"
  /\ popped' = 0
  /\ head' = buffer
  /\ pre' = buffer
  /\ rv' = NoLocation
  /\ messages' = <<>>
  /\ UNCHANGED <<wire, delivered>>

\* mutated: the new bytes replace the buffer instead of being appended
ReadReplacing(n) == ReadAppending(n, rcvd)

ReadAndProcess(n) == ReadAppending(n, head)
--------------------------------------------------------------------------------
(* The loop of findMessage. *)

loopUnchanged == <<wire, rcvd, head, popped, messages, delivered>>

Remaining == rcvd - pre

Target == ExpectedMessageSize(wire, pre, Remaining)

\* The assignments every preamble makes before its header is looked at.
Located ==
  [startPos       |-> IF rv.startPos = None THEN pre ELSE rv.startPos,
   size           |-> rv.size,
   incompletePos  |-> IF rv.incompletePos = None THEN pre ELSE rv.incompletePos,
   incompleteSize |-> rv.incompleteSize]

ToNextByte ==
  /\ pre' = pre + 1
  /\ UNCHANGED pc
  /\ UNCHANGED loopUnchanged

ReturnLocation ==
  /\ pc' = "return"
  /\ UNCHANGED pre
  /\ UNCHANGED loopUnchanged

Scanning == pc = "scan" /\ pre < rcvd

OtherByte ==
  /\ Scanning
  /\ ~IsPreamble(wire, pre)
  /\ UNCHANGED rv
  /\ ToNextByte

AtCutHeader == Scanning /\ IsPreamble(wire, pre) /\ HeaderCut(wire, pre, rcvd)

SkipCutHeader ==
  /\ AtCutHeader
  /\ Located.startPos # pre
  /\ rv' = Located
  /\ ToNextByte

ReturnCutHeader ==
  /\ AtCutHeader
  /\ Located.startPos = pre
  /\ rv' = [Located EXCEPT !.size = -Target, !.incompleteSize = Target]
  /\ ReturnLocation

AtHeader == Scanning /\ IsPreamble(wire, pre) /\ ~HeaderCut(wire, pre, rcvd)

FalseHeader ==
  /\ AtHeader
  /\ IsFalseHeader(wire, pre)
  /\ rv' = Located
  /\ ToNextByte

AtMessage == AtHeader /\ ~IsFalseHeader(wire, pre)

TooLong ==
  /\ AtMessage
  /\ Target > MaxMsgLen
  /\ rv' = [Located EXCEPT !.startPos = IF rv.size = 0 THEN None ELSE @]
  /\ ToNextByte

AtIncomplete ==
  /\ AtMessage
  /\ Target <= MaxMsgLen
  /\ Remaining < Target
  /\ rv' = [Located EXCEPT !.size           = IF @ = 0 THEN -Target ELSE @,
                           !.incompleteSize = IF @ = 0 THEN Target ELSE @]

\* mutated: findMessage gives up at the first incomplete message
IncompleteReturns == AtIncomplete /\ ReturnLocation

Incomplete == AtIncomplete /\ ToNextByte

AtWholeMessage ==
  /\ AtMessage
  /\ Target <= MaxMsgLen
  /\ Target <= Remaining

AcceptFrom(start) ==
  /\ AtWholeMessage
  /\ ChecksumOk(wire, pre)
  /\ LET completed == Located.incompletePos = pre
     IN rv' = [startPos       |-> start,
               size           |-> Target,
               incompletePos  |-> IF completed THEN None ELSE Located.incompletePos,
               incompleteSize |-> IF completed THEN 0 ELSE Located.incompleteSize]
  /\ ReturnLocation

\* mutated: the start of the first preamble met is kept
AcceptFromFirst == AcceptFrom(Located.startPos)

Accept == AcceptFrom(pre)

AtBadChecksum ==
  /\ AtWholeMessage
  /\ ~ChecksumOk(wire, pre)
  /\ LET here == Located.startPos = pre
     IN rv' = [Located EXCEPT
                 !.startPos      = IF here THEN None ELSE @,
                 !.incompletePos = IF here /\ @ = pre THEN None ELSE @]

\* mutated: the whole corrupted message is skipped
SkipCorrupted ==
  /\ AtBadChecksum
  /\ pre' = pre + Target
  /\ UNCHANGED pc
  /\ UNCHANGED loopUnchanged

BadChecksum == AtBadChecksum /\ ToNextByte

EndOfBuffer ==
  /\ pc = "scan"
  /\ pre >= rcvd
  /\ UNCHANGED rv
  /\ ReturnLocation
--------------------------------------------------------------------------------
(* processBufferedData behind findMessage. *)

\* The message is kept and everything up to end counts as consumed.
KeepMessage(end) ==
  /\ pc = "return"
  /\ IsValid(rv)
  /\ LET m == [start |-> rv.startPos, size |-> rv.size]
     IN /\ messages' = Append(messages, m)
        /\ delivered' = Append(delivered, m)
  /\ pre' = end
  /\ rv' = NoLocation
  /\ UNCHANGED <<wire, rcvd>>

TakeUpTo(end) ==
  /\ KeepMessage(end)
  /\ popped' = end - head
  /\ pc' = "scan"
  /\ UNCHANGED head

\* mutated: the bytes before the message are not counted
TakeSizeOnly == TakeUpTo(Base + rv.size)

\* A valid location: keep the message and scan what follows it.
TakeMessage == TakeUpTo(rv.startPos + rv.size)

PopTo(start) ==
  /\ pc = "return"
  /\ ~IsValid(rv)
  /\ head' = start
  /\ popped' = 0
  /\ pc' = "idle"
  /\ UNCHANGED <<wire, rcvd, pre, rv, messages, delivered>>

\* mutated: the consumed bytes stay in the buffer
PopNothing == PopTo(head)

\* mutated: the buffer is cleared
PopEverything == PopTo(rcvd)

\* Nothing more to find: drop the consumed bytes from m_dataBuffer and return.
PopConsumed == PopTo(head + popped)
--------------------------------------------------------------------------------
FindMessage ==
  \/ OtherByte
  \/ SkipCutHeader
  \/ ReturnCutHeader
  \/ FalseHeader
  \/ TooLong
  \/ Incomplete
  \/ Accept
  \/ BadChecksum
  \/ EndOfBuffer

ProcessBufferedData == FindMessage \/ TakeMessage \/ PopConsumed

Next ==
  \/ \E n \in 0 .. MaxRead : ReadAndProcess(n)
  \/ ProcessBufferedData

Spec == Init /\ [][Next]_vars

\* The program runs on, and a caller that polls reads bytes that keep waiting in
\* the driver: readData blocks up to its timeout until at least one is there.
FairSpec ==
  /\ Spec
  /\ WF_vars(ProcessBufferedData)
  /\ SF_vars(\E n \in 1 .. MaxRead : ReadAndProcess(n))

Stream == INSTANCE XbusStream WITH taken <- Base
--------------------------------------------------------------------------------
LocationType ==
  [startPos : Nat \cup {None}, size : Int,
   incompletePos : Nat \cup {None}, incompleteSize : Nat]

TypeOK ==
  /\ pc \in {"idle", "scan", "return"}
  /\ wire \in Streams
  /\ rcvd \in 0 .. Len(wire)
  /\ head \in Nat
  /\ popped \in Nat
  /\ Base <= rcvd
  /\ pre \in 0 .. rcvd
  /\ rv \in LocationType
  /\ messages \in Seq(Span)
  /\ delivered \in Seq(Span)

(* A message at q that one scan overlooks: its last byte is the last one    *)
(* received, and the byte before it looks like the preamble of an extended  *)
(* header that is still one byte short, at which findMessage gives up.      *)
HiddenByCutHeader(q) ==
  /\ q > Base
  /\ q = rcvd - HeaderCS
  /\ IsPreamble(wire, q - 1)
  /\ IsExtended(wire, q - 1)

Exhausted ==
  \A q \in Base .. (rcvd - 1) : Acceptable(wire, q, rcvd) => HiddenByCutHeader(q)

(* When processBufferedData has returned, no whole message is left in       *)
(* m_dataBuffer, but for one that findMessage's early return hides.         *)
NothingLeftBehind == pc = "idle" => Exhausted

(* A valid MessageLocation is the first whole message of the array scanned; *)
(* with an invalid one there is none to be had.                             *)
LocationSound ==
  pc = "return" =>
    IF IsValid(rv)
    THEN /\ rv.startPos >= Base
         /\ Acceptable(wire, rv.startPos, rcvd)
         /\ rv.size = MsgSize(wire, rv.startPos)
         /\ NoMessageIn(wire, Base, rv.startPos, rcvd)
    ELSE Exhausted

(* The invariants of the stream specification, here of the parser: see      *)
(* XbusStream for what they say.                                            *)
SpansSound        == Stream!SpansSound
LostOnlyByOverlap == Stream!LostOnlyByOverlap
CleanStreamExact  == Stream!CleanStreamExact

(* On a clean stream the buffer never grows: between calls it holds less    *)
(* than the one message it starts with.                                     *)
BufferBounded ==
  pc = "idle" /\ Clean(wire) /\ head < rcvd =>
    rcvd - head < MsgSize(wire, head)

(* The parser implements the stream specification, with Base for the number *)
(* of bytes taken.                                                          *)
ImplementsStream == Stream!Spec

(* Each call comes to its end, whatever the bytes, and every message of a   *)
(* clean stream is handed out by one of them.                               *)
CleanStreamDelivered ==
  /\ (pc # "idle") ~> (pc = "idle")
  /\ Clean(wire) ~>
       \A b \in Bounds[wire] \ {Len(wire)} :
         \E i \in DOMAIN delivered : delivered[i].start = b

--------------------------------------------------------------------------------
(* Why the parser's properties hold: what the loop has established so far.  *)

ScanInv ==
  pc = "scan" =>
    /\ pre >= Base
    /\ rv.size <= 0
    /\ NoMessageIn(wire, Base, pre, rcvd)

ParserInv ==
  /\ TypeOK
  /\ ScanInv
  /\ LocationSound
  /\ NothingLeftBehind
  /\ pc = "idle" => popped = 0
================================================================================
