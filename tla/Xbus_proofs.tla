------------------------------ MODULE Xbus_proofs ------------------------------
(***************************************************************************)
(* The Xbus format's two sides.  The parser's loop, for every stream and   *)
(* every way of cutting it into reads: its inductive invariant and that it *)
(* implements XbusStream.  And XsMessage, for every id, size, offset and   *)
(* value: what its setters keep and what deleteData gives back.            *)
(***************************************************************************)
EXTENDS XbusParser, XbusMessage, SequenceTheorems, WellFoundedInduction, TLAPS

(* The message format.                                                      *)

(* A byte of the stream is a number.                                        *)
LEMMA ByteType ==
  ASSUME NEW w \in Seq(Bytes), NEW q \in Nat, q < Len(w)
  PROVE  ByteAt(w, q) \in Nat
<1>1. q + 1 \in 1 .. Len(w)
  OBVIOUS
<1>2. w[q + 1] \in Bytes
  BY <1>1
<1>3. Bytes \subseteq Nat
  BY DEF Bytes
<1>4. QED
  BY <1>2, <1>3 DEF ByteAt

(* The size a complete header announces covers at least that header.        *)
LEMMA MsgSizeType ==
  ASSUME NEW w \in Seq(Bytes), NEW p \in Nat, NEW n \in 0 .. Len(w),
         p < n, ~HeaderCut(w, p, n)
  PROVE  /\ MsgSize(w, p) \in Nat
         /\ MsgSize(w, p) >= IF IsExtended(w, p) THEN ExtHeaderCS ELSE HeaderCS
<1>1. CASE IsExtended(w, p)
  <2>1. p + 4 < Len(w) /\ p + 5 < Len(w)
    BY <1>1 DEF HeaderCut, HeaderCS, ExtHeaderCS
  <2>2. ByteAt(w, p + 4) \in Nat /\ ByteAt(w, p + 5) \in Nat
    BY <2>1, ByteType
  <2>3. QED
    BY <1>1, <2>2 DEF MsgSize, HeaderCS, ExtHeaderCS
<1>2. CASE ~IsExtended(w, p)
  <2>1. p + 3 < Len(w)
    BY <1>2 DEF HeaderCut, HeaderCS, ExtHeaderCS
  <2>2. ByteAt(w, p + 3) \in Nat
    BY <2>1, ByteType
  <2>3. QED
    BY <1>2, <2>2 DEF MsgSize, HeaderCS
<1>3. QED
  BY <1>1, <1>2

(* An acceptable message lies inside the received bytes.                    *)
LEMMA AcceptableType ==
  ASSUME NEW w \in Seq(Bytes), NEW p \in Nat, NEW n \in 0 .. Len(w), Acceptable(w, p, n)
  PROVE  /\ MsgSize(w, p) \in Nat \ {0}
         /\ p + MsgSize(w, p) <= n
BY MsgSizeType DEF Acceptable, HeaderCS, ExtHeaderCS

(* Bytes that arrive later do not take a whole message away.                *)
LEMMA AcceptableMonotone ==
  ASSUME NEW w \in Seq(Bytes), NEW p \in Nat,
         NEW n \in 0 .. Len(w), NEW m \in n .. Len(w), Acceptable(w, p, n)
  PROVE  Acceptable(w, p, m)
BY MsgSizeType DEF Acceptable, HeaderCut, HeaderCS, ExtHeaderCS

(* A whole message of the stream is acceptable as soon as its last byte has *)
(* been received.                                                           *)
LEMMA AcceptableWhenWhole ==
  ASSUME NEW w \in Seq(Bytes), NEW p \in Nat, NEW n \in 0 .. Len(w),
         Acceptable(w, p, Len(w)), p + MsgSize(w, p) <= n
  PROVE  Acceptable(w, p, n)
<1>1. /\ MsgSize(w, p) \in Nat
      /\ MsgSize(w, p) >= IF IsExtended(w, p) THEN ExtHeaderCS ELSE HeaderCS
  BY MsgSizeType DEF Acceptable
<1>2. ~HeaderCut(w, p, n)
  BY <1>1 DEF HeaderCut, HeaderCS, ExtHeaderCS
<1>3. QED
  BY <1>1, <1>2 DEF Acceptable, HeaderCS, ExtHeaderCS
--------------------------------------------------------------------------------

(* Type facts every step needs.                                             *)
LEMMA ParserTypes ==
  ASSUME ParserInv
  PROVE  /\ wire \in Seq(Bytes)
         /\ rcvd \in Nat /\ rcvd \in 0 .. Len(wire)
         /\ head \in Nat /\ popped \in Nat /\ Base \in 0 .. rcvd /\ pre \in 0 .. rcvd
         /\ rv \in LocationType
BY StreamsAssumption DEF ParserInv, TypeOK, Base

(* Behind a complete header the size findMessage expects is the announced   *)
(* one, and it is positive.                                                 *)
LEMMA TargetType ==
  ASSUME ParserInv, AtHeader
  PROVE  Target = MsgSize(wire, pre) /\ Target \in Nat \ {0}
<1>1. /\ pre \in Nat /\ rcvd \in 0 .. Len(wire) /\ pre < rcvd
      /\ wire \in Seq(Bytes) /\ ~HeaderCut(wire, pre, rcvd)
  BY ParserTypes DEF AtHeader, Scanning
<1>2. /\ MsgSize(wire, pre) \in Nat
      /\ MsgSize(wire, pre) >= IF IsExtended(wire, pre) THEN ExtHeaderCS ELSE HeaderCS
  BY <1>1, MsgSizeType
<1>3. /\ ~(Remaining < 4)
      /\ ~(Remaining \in 4 .. 5 /\ IsExtended(wire, pre))
  BY <1>1 DEF Remaining, HeaderCut, HeaderCS, ExtHeaderCS
<1>4. Target = MsgSize(wire, pre)
  BY <1>3 DEF Target, ExpectedMessageSize
<1>5. QED
  BY <1>2, <1>4 DEF HeaderCS, ExtHeaderCS

(* What the preamble assignments leave in the location.                     *)
LEMMA LocatedType ==
  ASSUME ParserInv
  PROVE  /\ Located \in [startPos : Nat, size : {rv.size},
                         incompletePos : Nat, incompleteSize : Nat]
         /\ Located \in LocationType
<1>1. /\ rv.startPos \in Nat \cup {None} /\ rv.incompletePos \in Nat \cup {None}
      /\ rv.incompleteSize \in Nat /\ rv.size \in Int /\ pre \in Nat
  BY ParserTypes DEF LocationType
<1>2. QED
  BY <1>1 DEF Located, LocationType, None

(* A location stays one when its two sizes are set.                         *)
LEMMA SizesType ==
  ASSUME NEW loc \in LocationType, NEW s \in Int, NEW z \in Nat
  PROVE  /\ [loc EXCEPT !.size = s, !.incompleteSize = z] \in LocationType
         /\ [loc EXCEPT !.size = s, !.incompleteSize = z].size = s
BY DEF LocationType

(* The size expected of a cut-off message is positive.                      *)
LEMMA CutTargetType ==
  ASSUME ParserInv, AtCutHeader
  PROVE  Target \in Nat \ {0}
<1>1. /\ pre \in Nat /\ rcvd \in 0 .. Len(wire) /\ pre < rcvd /\ Remaining = rcvd - pre
      /\ wire \in Seq(Bytes) /\ HeaderCut(wire, pre, rcvd)
  BY ParserTypes DEF AtCutHeader, Scanning, Remaining
<1>2. CASE Remaining < 4
  BY <1>2 DEF Target, ExpectedMessageSize, HeaderCS
<1>3. CASE ~(Remaining < 4) /\ IsExtended(wire, pre)
  <2>1. Remaining \in 4 .. 6
    BY <1>1, <1>3 DEF HeaderCut, HeaderCS, ExtHeaderCS
  <2>2. CASE Remaining \in 4 .. 5
    BY <1>3, <2>2 DEF Target, ExpectedMessageSize, ExtLenCode, ExtHeaderCS
  <2>3. CASE Remaining = 6
    <3>1. pre + 4 < Len(wire) /\ pre + 5 < Len(wire)
      BY <1>1, <2>3
    <3>2. ByteAt(wire, pre + 4) \in Nat /\ ByteAt(wire, pre + 5) \in Nat
      BY <1>1, <3>1, ByteType
    <3>3. QED
      BY <1>3, <2>3, <3>2 DEF Target, ExpectedMessageSize, MsgSize, ExtHeaderCS
  <2>4. QED
    BY <2>1, <2>2, <2>3
<1>4. CASE ~(Remaining < 4) /\ ~IsExtended(wire, pre)
  <2>1. pre + 3 < Len(wire)
    BY <1>1, <1>4
  <2>2. ByteAt(wire, pre + 3) \in Nat
    BY <1>1, <2>1, ByteType
  <2>3. QED
    BY <1>4, <2>2 DEF Target, ExpectedMessageSize, MsgSize, HeaderCS
<1>5. QED
  BY <1>2, <1>3, <1>4

(* An iteration that moves on past a position where no whole message starts *)
(* keeps the invariant.                                                     *)
LEMMA SkipStep ==
  ASSUME ParserInv, Scanning, ~Acceptable(wire, pre, rcvd),
         ToNextByte, rv' \in LocationType, rv'.size <= 0
  PROVE  ParserInv'
<1>1. /\ rcvd \in Nat /\ Base \in 0 .. rcvd /\ pre \in 0 .. rcvd /\ pre < rcvd
  BY ParserTypes DEF Scanning
<1>2. UNCHANGED <<pc, wire, rcvd, head, popped, messages, delivered>> /\ pre' = pre + 1
  BY DEF ToNextByte, loopUnchanged
<1>3. TypeOK'
  BY <1>1, <1>2 DEF ParserInv, TypeOK, Base
<1>4. ScanInv'
  <2>1. pre >= Base /\ (\A q \in Base .. (pre - 1) : ~Acceptable(wire, q, rcvd))
    BY DEF ParserInv, ScanInv, Scanning, NoMessageIn
  <2>2. \A q \in Base .. (pre' - 1) : ~Acceptable(wire, q, rcvd)
    BY <1>1, <1>2, <2>1
  <2>3. QED
    BY <1>1, <1>2, <2>1, <2>2 DEF ScanInv, NoMessageIn, Base
<1>5. QED
  BY <1>2, <1>3, <1>4 DEF ParserInv, LocationSound, NothingLeftBehind, Scanning

(* findMessage returning a location that is not valid, with nothing to find.*)
LEMMA ReturnStep ==
  ASSUME ParserInv, pc = "scan", Exhausted,
         ReturnLocation, rv' \in LocationType, ~IsValid(rv')
  PROVE  ParserInv'
<1>1. UNCHANGED <<wire, rcvd, head, popped, pre, messages, delivered>> /\ pc' = "return"
  BY DEF ReturnLocation, loopUnchanged
<1>2. TypeOK'
  BY <1>1 DEF ParserInv, TypeOK, Base
<1>3. Exhausted'
  BY <1>1 DEF Exhausted, HiddenByCutHeader, Base
<1>4. QED
  BY <1>1, <1>2, <1>3 DEF ParserInv, ScanInv, LocationSound, NothingLeftBehind, IsValid

(* From the position of a cut-off header on there is no whole message, but  *)
(* for one that starts at the very next byte.                               *)
LEMMA CutHeaderExhausts ==
  ASSUME ParserInv, AtCutHeader, pc = "scan"
  PROVE  Exhausted
<1>1. /\ rcvd \in Nat /\ Base \in 0 .. rcvd /\ pre \in 0 .. rcvd /\ pre < rcvd
      /\ pre >= Base /\ HeaderCut(wire, pre, rcvd) /\ IsPreamble(wire, pre)
      /\ \A q \in Base .. (pre - 1) : ~Acceptable(wire, q, rcvd)
  BY ParserTypes DEF AtCutHeader, Scanning, ParserInv, ScanInv, NoMessageIn
<1> SUFFICES ASSUME NEW q \in Base .. (rcvd - 1), Acceptable(wire, q, rcvd)
             PROVE  HiddenByCutHeader(q)
  BY DEF Exhausted
<1>2. q \in Nat /\ q >= pre
  BY <1>1
<1>3. rcvd - q >= HeaderCS /\ ~HeaderCut(wire, q, rcvd)
  BY <1>1, <1>2 DEF Acceptable, HeaderCut, HeaderCS, ExtHeaderCS
<1>4. q # pre
  BY <1>1, <1>3
<1>5. IsExtended(wire, pre) /\ rcvd - pre < ExtHeaderCS
  BY <1>1, <1>2, <1>3 DEF HeaderCut, HeaderCS, ExtHeaderCS
<1>6. q = pre + 1 /\ q = rcvd - HeaderCS
  BY <1>1, <1>2, <1>3, <1>4, <1>5 DEF HeaderCS, ExtHeaderCS
<1>7. q - 1 = pre
  BY <1>1, <1>6
<1>8. QED
  BY <1>1, <1>5, <1>6, <1>7 DEF HiddenByCutHeader

(* Each way an iteration of the loop ends keeps the invariant.              *)
LEMMA FindMessageInv ==
  ASSUME ParserInv, FindMessage
  PROVE  ParserInv'
<1>0. /\ rv \in LocationType /\ rcvd \in Nat /\ pre \in Nat /\ Base \in 0 .. rcvd
      /\ Located \in LocationType /\ Located.startPos \in Nat
      /\ Located.incompletePos \in Nat /\ Located.size = rv.size
  BY ParserTypes, LocatedType
<1>1. pc = "scan"
  BY DEF FindMessage, OtherByte, SkipCutHeader, ReturnCutHeader, FalseHeader, TooLong,
         Incomplete, AtIncomplete, Accept, AcceptFrom, BadChecksum, AtBadChecksum, EndOfBuffer, AtCutHeader, AtWholeMessage,
         AtMessage, AtHeader, Scanning
<1>2. rv.size <= 0 /\ pre >= Base /\ NoMessageIn(wire, Base, pre, rcvd)
  BY <1>1 DEF ParserInv, ScanInv
<1>3. CASE OtherByte
  BY <1>0, <1>2, <1>3, SkipStep DEF OtherByte, Acceptable
<1>4. CASE SkipCutHeader
  BY <1>0, <1>2, <1>4, SkipStep DEF SkipCutHeader, AtCutHeader, Acceptable
<1>5. CASE ReturnCutHeader
  <2>1. Target \in Nat \ {0} /\ -Target \in Int
    BY <1>5, CutTargetType DEF ReturnCutHeader
  <2>2. rv' \in LocationType /\ rv'.size = -Target
    BY <1>0, <1>5, <2>1, SizesType DEF ReturnCutHeader
  <2>3. QED
    BY <1>1, <1>5, <2>1, <2>2, CutHeaderExhausts, ReturnStep DEF ReturnCutHeader, IsValid
<1>6. CASE FalseHeader
  BY <1>0, <1>2, <1>6, SkipStep DEF FalseHeader, AtHeader, Acceptable
<1>7. CASE TooLong
  <2>1. Target = MsgSize(wire, pre) /\ Target \in Nat
    BY <1>7, TargetType DEF TooLong, AtMessage
  <2>2. rv' \in LocationType /\ rv'.size <= 0
    BY <1>0, <1>2, <1>7 DEF TooLong, LocationType
  <2>3. ~Acceptable(wire, pre, rcvd)
    BY <1>7, <2>1 DEF TooLong, Acceptable, MaxMsgLen
  <2>4. QED
    BY <1>7, <2>2, <2>3, SkipStep DEF TooLong, AtMessage, AtHeader
<1>8. CASE Incomplete
  <2>1. Target = MsgSize(wire, pre) /\ Target \in Nat
    BY <1>8, TargetType DEF Incomplete, AtIncomplete, AtMessage
  <2>2. rv' \in LocationType /\ rv'.size <= 0
    <3> DEFINE s == IF Located.size = 0 THEN -Target ELSE Located.size
               z == IF Located.incompleteSize = 0 THEN Target ELSE Located.incompleteSize
    <3>1. s \in Int /\ s <= 0 /\ z \in Nat
      BY <1>0, <1>2, <2>1 DEF LocationType
    <3>2. rv' = [Located EXCEPT !.size = s, !.incompleteSize = z]
      BY <1>8 DEF Incomplete, AtIncomplete
    <3> HIDE DEF s, z
    <3>3. QED
      BY <1>0, <3>1, <3>2, SizesType
  <2>3. ~Acceptable(wire, pre, rcvd)
    BY <1>0, <1>8, <2>1 DEF Incomplete, AtIncomplete, Acceptable, Remaining
  <2>4. QED
    BY <1>8, <2>2, <2>3, SkipStep DEF Incomplete, AtIncomplete, AtMessage, AtHeader
<1>9. CASE Accept
  <2>1. Target = MsgSize(wire, pre) /\ Target \in Nat \ {0}
    BY <1>9, TargetType DEF Accept, AcceptFrom, AtWholeMessage, AtMessage
  <2>2. /\ rv' \in LocationType /\ IsValid(rv')
        /\ rv'.startPos = pre /\ rv'.size = MsgSize(wire, pre)
    BY <1>0, <1>9, <2>1 DEF Accept, AcceptFrom, LocationType, IsValid, None
  <2>3. Acceptable(wire, pre, rcvd)
    BY <1>0, <1>9, <2>1 DEF Accept, AcceptFrom, AtWholeMessage, AtMessage, AtHeader, Scanning,
                            Acceptable, Remaining
  <2>4. UNCHANGED <<wire, rcvd, head, popped, pre, messages, delivered>> /\ pc' = "return"
    BY <1>9 DEF Accept, AcceptFrom, ReturnLocation, loopUnchanged
  <2>5. TypeOK'
    BY <2>2, <2>4 DEF ParserInv, TypeOK, Base
  <2>6. LocationSound'
    BY <1>2, <2>2, <2>3, <2>4 DEF LocationSound, Base
  <2>7. QED
    BY <2>4, <2>5, <2>6 DEF ParserInv, ScanInv, NothingLeftBehind
<1>10. CASE BadChecksum
  <2>1. rv' \in LocationType /\ rv'.size <= 0
    BY <1>0, <1>2, <1>10 DEF BadChecksum, AtBadChecksum, LocationType
  <2>2. QED
    BY <1>10, <2>1, SkipStep
       DEF BadChecksum, AtBadChecksum, AtWholeMessage, AtMessage, AtHeader, Acceptable
<1>11. CASE EndOfBuffer
  <2>1. Exhausted
    BY <1>0, <1>2, <1>11 DEF EndOfBuffer, Exhausted, NoMessageIn
  <2>2. QED
    BY <1>0, <1>1, <1>2, <1>11, <2>1, ReturnStep DEF EndOfBuffer, IsValid, LocationType
<1>12. QED
  BY <1>3, <1>4, <1>5, <1>6, <1>7, <1>8, <1>9, <1>10, <1>11 DEF FindMessage

--------------------------------------------------------------------------------
(* The framing operators mean the same in the instance.                     *)
LEMMA SameFraming ==
  /\ \A w, p, n : Stream!Acceptable(w, p, n) <=> Acceptable(w, p, n)
  /\ \A w, p : Stream!MsgSize(w, p) = MsgSize(w, p)
<1> USE DEF Stream!ByteAt, ByteAt, Stream!IsExtended, IsExtended,
            Stream!ExtLenCode, ExtLenCode, Stream!HeaderCS, HeaderCS,
            Stream!ExtHeaderCS, ExtHeaderCS
<1>1. ASSUME NEW w, NEW p PROVE Stream!MsgSize(w, p) = MsgSize(w, p)
  BY DEF Stream!MsgSize, MsgSize
<1>2. ASSUME NEW w, NEW lo, NEW hi PROVE Stream!ByteSum(w, lo, hi) = ByteSum(w, lo, hi)
  BY DEF Stream!ByteSum, ByteSum
<1>3. ASSUME NEW w, NEW p PROVE Stream!ChecksumOk(w, p) <=> ChecksumOk(w, p)
  BY <1>1, <1>2 DEF Stream!ChecksumOk, ChecksumOk, Stream!ComputeChecksum, ComputeChecksum
<1>4. ASSUME NEW w, NEW p, NEW n PROVE Stream!Acceptable(w, p, n) <=> Acceptable(w, p, n)
  BY <1>1, <1>3
     DEF Stream!Acceptable, Acceptable, Stream!HeaderCut, HeaderCut,
         Stream!IsPreamble, IsPreamble, Stream!Preamble, Preamble,
         Stream!IsFalseHeader, IsFalseHeader, Stream!MaxMsgLen, MaxMsgLen
<1>5. QED
  BY <1>1, <1>4

--------------------------------------------------------------------------------
(* The rest of the steps, and the inductive invariant.                      *)
LEMMA InitInv == Init => ParserInv
<1> SUFFICES ASSUME Init PROVE ParserInv
  OBVIOUS
<1>1. wire \in Seq(Bytes)
  BY StreamsAssumption DEF Init
<1>2. TypeOK
  BY <1>1 DEF Init, TypeOK, NoLocation, LocationType, None, Base
<1>3. QED
  BY <1>2 DEF Init, ParserInv, ScanInv, LocationSound, NothingLeftBehind, Exhausted, Base

LEMMA ReadInv ==
  ASSUME ParserInv, NEW n \in 0 .. MaxRead, ReadAndProcess(n)
  PROVE  ParserInv'
<1>1. /\ wire \in Seq(Bytes) /\ rcvd \in 0 .. Len(wire) /\ head \in Nat /\ head <= rcvd
      /\ popped = 0
  BY ParserTypes DEF ReadAndProcess, ReadAppending, ParserInv, Base
<1>2. TypeOK'
  BY <1>1, MaxReadAssumption
     DEF ReadAndProcess, ReadAppending, ParserInv, TypeOK, NoLocation, LocationType, None, Base
<1>3. ScanInv'
  BY <1>1 DEF ReadAndProcess, ReadAppending, ScanInv, NoLocation, NoMessageIn, Base
<1>4. QED
  BY <1>2, <1>3 DEF ReadAndProcess, ReadAppending, ParserInv, LocationSound, NothingLeftBehind

(* A message is taken from where findMessage found it.                      *)
LEMMA TakeFacts ==
  ASSUME ParserInv, TakeMessage
  PROVE  /\ rv.startPos \in Base .. (rcvd - 1)
         /\ Acceptable(wire, rv.startPos, rcvd)
         /\ NoMessageIn(wire, Base, rv.startPos, rcvd)
         /\ rv.size = MsgSize(wire, rv.startPos)
         /\ rv.size \in Nat \ {0}
         /\ rv.startPos + rv.size <= rcvd
         /\ Base' = rv.startPos + rv.size
<1>1. /\ rv.startPos >= Base /\ Acceptable(wire, rv.startPos, rcvd)
      /\ rv.size = MsgSize(wire, rv.startPos)
      /\ NoMessageIn(wire, Base, rv.startPos, rcvd)
      /\ IsValid(rv)
  BY DEF ParserInv, LocationSound, TakeMessage, TakeUpTo, KeepMessage
<1>2. /\ wire \in Seq(Bytes) /\ rcvd \in 0 .. Len(wire) /\ head \in Nat
      /\ Base \in 0 .. rcvd /\ rv.startPos \in Nat
  BY <1>1, ParserTypes DEF LocationType, None, IsValid
<1>3. rv.size \in Nat \ {0} /\ rv.startPos + rv.size <= rcvd
  BY <1>1, <1>2, AcceptableType
<1>4. rv.startPos < rcvd
  BY <1>1 DEF Acceptable
<1>5. QED
  BY <1>1, <1>2, <1>3, <1>4 DEF TakeMessage, TakeUpTo, KeepMessage, Base

LEMMA TakeInv ==
  ASSUME ParserInv, TakeMessage
  PROVE  ParserInv'
<1>1. /\ wire \in Seq(Bytes) /\ rcvd \in 0 .. Len(wire) /\ head \in Nat /\ popped \in Nat
      /\ rv.startPos \in Base .. (rcvd - 1) /\ rv.size \in Nat \ {0}
      /\ rv.startPos + rv.size <= rcvd /\ Base' = rv.startPos + rv.size
  BY ParserTypes, TakeFacts
<1>2. /\ rv.startPos \in Nat /\ head <= rv.startPos
      /\ [start |-> rv.startPos, size |-> rv.size] \in Span
  BY <1>1 DEF Span, Base
<1>3. TypeOK'
  <2> DEFINE end == rv.startPos + rv.size
  <2>1. popped' = end - head /\ pre' = end
    <3>1. TakeUpTo(end)
      BY DEF TakeMessage
    <3> HIDE DEF end
    <3>2. QED
      BY <3>1 DEF TakeUpTo, KeepMessage
  <2>2. popped' \in Nat /\ pre' \in 0 .. rcvd /\ Base' <= rcvd
    BY <1>1, <1>2, <2>1
  <2>3. messages' \in Seq(Span) /\ delivered' \in Seq(Span)
    BY <1>2 DEF TakeMessage, TakeUpTo, KeepMessage, ParserInv, TypeOK
  <2>4. rv' \in LocationType
    BY DEF TakeMessage, TakeUpTo, KeepMessage, NoLocation, LocationType, None
  <2>5. QED
    BY <2>2, <2>3, <2>4 DEF TakeMessage, TakeUpTo, KeepMessage, ParserInv, TypeOK
<1>4. ScanInv'
  BY <1>1 DEF TakeMessage, TakeUpTo, KeepMessage, ScanInv, NoLocation, NoMessageIn
<1>5. QED
  BY <1>3, <1>4 DEF TakeMessage, TakeUpTo, KeepMessage, ParserInv, LocationSound, NothingLeftBehind

LEMMA PopInv ==
  ASSUME ParserInv, PopConsumed
  PROVE  ParserInv'
<1>1. head \in Nat /\ popped \in Nat /\ Base' = Base /\ Exhausted
  BY ParserTypes DEF PopConsumed, PopTo, ParserInv, LocationSound, Base
<1>2. TypeOK'
  BY <1>1 DEF PopConsumed, PopTo, ParserInv, TypeOK
<1>3. Exhausted'
  BY <1>1 DEF PopConsumed, PopTo, Exhausted, HiddenByCutHeader
<1>4. QED
  BY <1>2, <1>3 DEF PopConsumed, PopTo, ParserInv, ScanInv, LocationSound, NothingLeftBehind

LEMMA StutterInv ==
  ASSUME ParserInv, UNCHANGED vars
  PROVE  ParserInv'
BY DEF vars, ParserInv, TypeOK, ScanInv, LocationSound, NothingLeftBehind, Exhausted,
       HiddenByCutHeader, Base

(* findMessage's loop establishes what processBufferedData relies on: the   *)
(* first whole message, or that there is none.                              *)
THEOREM ParserInvariant == Spec => []ParserInv
<1>1. ParserInv /\ [Next]_vars => ParserInv'
  <2> SUFFICES ASSUME ParserInv, [Next]_vars PROVE ParserInv'
    OBVIOUS
  <2>1. CASE \E n \in 0 .. MaxRead : ReadAndProcess(n)
    BY <2>1, ReadInv
  <2>2. CASE FindMessage
    BY <2>2, FindMessageInv
  <2>3. CASE TakeMessage
    BY <2>3, TakeInv
  <2>4. CASE PopConsumed
    BY <2>4, PopInv
  <2>5. CASE UNCHANGED vars
    BY <2>5, StutterInv
  <2>6. QED
    BY <2>1, <2>2, <2>3, <2>4, <2>5 DEF Next, ProcessBufferedData
<1>2. QED
  BY <1>1, InitInv, PTL DEF Spec

(* Type correctness of the parser.                                          *)
THEOREM ParserTypeOK == Spec => []TypeOK
<1>1. ParserInv => TypeOK
  BY DEF ParserInv
<1>2. QED
  BY <1>1, ParserInvariant, PTL

(* findMessage returns the first whole message of the array, or an invalid  *)
(* location when there is none to be had.                                   *)
THEOREM ParserLocationSound == Spec => []LocationSound
<1>1. ParserInv => LocationSound
  BY DEF ParserInv
<1>2. QED
  BY <1>1, ParserInvariant, PTL

(* processBufferedData leaves no whole message in the buffer, with the one  *)
(* exception of a message hidden by a cut-off extended header.              *)
THEOREM ParserNothingLeftBehind == Spec => []NothingLeftBehind
<1>1. ParserInv => NothingLeftBehind
  BY DEF ParserInv
<1>2. QED
  BY <1>1, ParserInvariant, PTL
--------------------------------------------------------------------------------
(* Every step of the parser is a step of the stream specification or leaves *)
(* its variables alone.                                                     *)
THEOREM ParserImplementsStream == Spec => ImplementsStream
<1>1. Init => Stream!Init
  BY DEF Init, Stream!Init, Base
<1>2. ParserInv /\ [Next]_vars => [Stream!Next]_(Stream!streamVars)
  <2> SUFFICES ASSUME ParserInv, [Next]_vars
               PROVE  Stream!Next \/ UNCHANGED Stream!streamVars
    OBVIOUS
  <2>1. ASSUME NEW n \in 0 .. MaxRead, ReadAndProcess(n)
        PROVE  Stream!Next \/ UNCHANGED Stream!streamVars
    <3>1. /\ rcvd \in Nat /\ popped = 0 /\ rcvd + n <= Len(wire) /\ rcvd' = rcvd + n
          /\ Base' = Base /\ UNCHANGED <<wire, delivered>>
      BY <2>1, ParserTypes DEF ReadAndProcess, ReadAppending, ParserInv, Base
    <3>2. n \in Nat /\ Len(wire) \in Nat
      BY MaxReadAssumption, ParserTypes
    <3>3. CASE n = 0
      BY <3>1, <3>3 DEF Stream!streamVars
    <3>4. CASE n # 0
      <4>1. rcvd' \in (rcvd + 1) .. Len(wire) /\ Stream!Receive(rcvd')
        BY <3>1, <3>2, <3>4 DEF Stream!Receive
      <4>2. QED
        BY <4>1 DEF Stream!Next
    <3>5. QED
      BY <3>3, <3>4
  <2>2. CASE FindMessage
    BY <2>2
       DEF FindMessage, OtherByte, SkipCutHeader, ReturnCutHeader, FalseHeader, TooLong,
           Incomplete, AtIncomplete, Accept, AcceptFrom, BadChecksum, AtBadChecksum, EndOfBuffer, ToNextByte, ReturnLocation,
           loopUnchanged, Stream!streamVars, Base
  <2>3. CASE TakeMessage
    <3>1. Stream!Deliver(rv.startPos)
      BY <2>3, TakeFacts, SameFraming
         DEF TakeMessage, TakeUpTo, KeepMessage, Stream!Deliver, Stream!NoMessageIn, NoMessageIn
    <3>2. QED
      BY <2>3, <3>1, TakeFacts DEF Stream!Next
  <2>4. CASE PopConsumed
    BY <2>4, ParserTypes DEF PopConsumed, PopTo, Stream!streamVars, Base
  <2>5. CASE UNCHANGED vars
    BY <2>5 DEF vars, Stream!streamVars, Base
  <2>6. QED
    BY <2>1, <2>2, <2>3, <2>4, <2>5 DEF Next, ProcessBufferedData
<1>3. QED
  BY <1>1, <1>2, ParserInvariant, PTL DEF Spec, ImplementsStream, Stream!Spec

--------------------------------------------------------------------------------
(* The stream specification, whose own invariants these are.                *)

(* What was shown of messages, as the instance says it.                     *)
LEMMA StreamAcceptableType ==
  ASSUME NEW w \in Seq(Bytes), NEW p \in Nat, NEW n \in 0 .. Len(w), Stream!Acceptable(w, p, n)
  PROVE  /\ Stream!MsgSize(w, p) \in Nat \ {0}
         /\ p + Stream!MsgSize(w, p) <= n
BY AcceptableType, SameFraming

LEMMA StreamAcceptableMonotone ==
  ASSUME NEW w \in Seq(Bytes), NEW p \in Nat,
         NEW n \in 0 .. Len(w), NEW m \in n .. Len(w), Stream!Acceptable(w, p, n)
  PROVE  Stream!Acceptable(w, p, m)
BY AcceptableMonotone, SameFraming

LEMMA StreamAcceptableWhenWhole ==
  ASSUME NEW w \in Seq(Bytes), NEW p \in Nat, NEW n \in 0 .. Len(w),
         Stream!Acceptable(w, p, Len(w)), p + Stream!MsgSize(w, p) <= n
  PROVE  Stream!Acceptable(w, p, n)
BY AcceptableWhenWhole, SameFraming

(* Type correctness: the parser never consumes bytes it has not received,   *)
(* and every span it hands out has a positive size.                         *)
THEOREM StreamTypeOK == Stream!Spec => []Stream!TypeOK
<1>1. Stream!Init => Stream!TypeOK
  BY StreamsAssumption DEF Stream!Init, Stream!TypeOK
<1>2. Stream!TypeOK /\ [Stream!Next]_(Stream!streamVars) => Stream!TypeOK'
  <2> SUFFICES ASSUME Stream!TypeOK, [Stream!Next]_(Stream!streamVars) PROVE Stream!TypeOK'
    OBVIOUS
  <2>0. wire \in Seq(Bytes)
    BY StreamsAssumption DEF Stream!TypeOK
  <2>1. ASSUME NEW n \in (rcvd + 1) .. Len(wire), Stream!Receive(n) PROVE Stream!TypeOK'
    BY <2>0, <2>1 DEF Stream!TypeOK, Stream!Receive
  <2>2. ASSUME NEW p \in Base .. (rcvd - 1), Stream!Deliver(p) PROVE Stream!TypeOK'
    <3>1. p \in Nat /\ rcvd \in 0 .. Len(wire)
      BY <2>0 DEF Stream!TypeOK
    <3>2. Stream!MsgSize(wire, p) \in Nat \ {0} /\ p + Stream!MsgSize(wire, p) <= rcvd
      BY <2>0, <2>2, <3>1, StreamAcceptableType DEF Stream!Deliver
    <3>3. [start |-> p, size |-> Stream!MsgSize(wire, p)] \in Stream!Span
      BY <3>1, <3>2 DEF Stream!Span
    <3>4. QED
      BY <2>2, <3>1, <3>2, <3>3 DEF Stream!TypeOK, Stream!Deliver
  <2>3. CASE UNCHANGED Stream!streamVars
    BY <2>3 DEF Stream!TypeOK, Stream!streamVars
  <2>4. QED
    BY <2>1, <2>2, <2>3 DEF Stream!Next
<1>3. QED
  BY <1>1, <1>2, PTL DEF Stream!Spec

(* What type correctness says of the stream and of the spans handed out.    *)
LEMMA SpanTypes ==
  ASSUME Stream!TypeOK
  PROVE  /\ wire \in Seq(Bytes)
         /\ rcvd \in 0 .. Len(wire)
         /\ Base \in 0 .. rcvd
         /\ \A i \in DOMAIN delivered : delivered[i].start \in Nat /\ delivered[i].size \in Nat \ {0}
<1>1. \A i \in DOMAIN delivered : delivered[i] \in Stream!Span
  BY DEF Stream!TypeOK
<1>2. QED
  BY <1>1, StreamsAssumption DEF Stream!TypeOK, Stream!Span

(* Messages are handed out whole, in order and without overlap.             *)
THEOREM StreamSpansSound == Stream!Spec => []Stream!SpansSound
<1>1. Stream!Init => Stream!SpansSound
  BY DEF Stream!Init, Stream!SpansSound
<1>2. Stream!TypeOK /\ Stream!TypeOK' /\ Stream!SpansSound /\ [Stream!Next]_(Stream!streamVars) => Stream!SpansSound'
  <2> SUFFICES ASSUME Stream!TypeOK, Stream!TypeOK', Stream!SpansSound, [Stream!Next]_(Stream!streamVars) PROVE Stream!SpansSound'
    OBVIOUS
  <2>0. /\ wire \in Seq(Bytes)
        /\ rcvd \in 0 .. Len(wire)
        /\ \A i \in DOMAIN delivered : delivered[i].start \in Nat /\ delivered[i].size \in Nat
    BY SpanTypes
  <2>1. ASSUME NEW n \in (rcvd + 1) .. Len(wire), Stream!Receive(n) PROVE Stream!SpansSound'
    <3>1. \A i \in DOMAIN delivered : Stream!Acceptable(wire, delivered[i].start, n)
      BY <2>0, StreamAcceptableMonotone DEF Stream!SpansSound
    <3>2. QED
      BY <2>1, <3>1 DEF Stream!SpansSound, Stream!Receive, Stream!SpanEnd
  <2>2. ASSUME NEW p \in Base .. (rcvd - 1), Stream!Deliver(p) PROVE Stream!SpansSound'
    <3> DEFINE m == [start |-> p, size |-> Stream!MsgSize(wire, p)]
    <3>1. p \in Nat /\ Base \in Nat /\ Base <= p
      BY DEF Stream!TypeOK
    <3>2. Stream!MsgSize(wire, p) \in Nat \ {0} /\ p + Stream!MsgSize(wire, p) <= rcvd
      BY <2>0, <2>2, <3>1, StreamAcceptableType DEF Stream!Deliver
    <3>3. /\ delivered' = Append(delivered, m)
          /\ delivered \in Seq(Stream!Span)
          /\ Base' = p + Stream!MsgSize(wire, p)
          /\ Stream!Acceptable(wire, p, rcvd)
          /\ UNCHANGED <<wire, rcvd>>
      BY <2>2 DEF Stream!Deliver, Stream!TypeOK
    <3>4. /\ DOMAIN delivered' = 1 .. (Len(delivered) + 1)
          /\ DOMAIN delivered = 1 .. Len(delivered)
          /\ delivered'[Len(delivered) + 1] = m
          /\ \A i \in DOMAIN delivered : delivered'[i] = delivered[i]
      BY <3>3
    <3>5. \A i \in DOMAIN delivered :
            /\ Stream!Acceptable(wire, delivered[i].start, rcvd)
            /\ delivered[i].size = Stream!MsgSize(wire, delivered[i].start)
            /\ Stream!SpanEnd(delivered[i]) <= Base
            /\ Stream!SpanEnd(delivered[i]) \in Nat
      BY <2>0 DEF Stream!SpansSound, Stream!SpanEnd
    <3>6. \A i \in DOMAIN delivered' :
            /\ Stream!Acceptable(wire, delivered'[i].start, rcvd)
            /\ delivered'[i].size = Stream!MsgSize(wire, delivered'[i].start)
            /\ Stream!SpanEnd(delivered'[i]) <= Base'
      BY <3>1, <3>2, <3>3, <3>4, <3>5 DEF Stream!SpanEnd
    <3>7. ASSUME NEW i \in DOMAIN delivered', NEW j \in DOMAIN delivered', i < j
          PROVE  Stream!SpanEnd(delivered'[i]) <= delivered'[j].start
      <4>1. CASE j \in DOMAIN delivered
        BY <3>4, <3>7, <4>1 DEF Stream!SpansSound
      <4>2. CASE j = Len(delivered) + 1
        BY <3>1, <3>4, <3>5, <3>7, <4>2
      <4>3. QED
        BY <3>4, <4>1, <4>2
    <3>8. QED
      BY <3>3, <3>6, <3>7 DEF Stream!SpansSound
  <2>3. CASE UNCHANGED Stream!streamVars
    BY <2>3 DEF Stream!SpansSound, Stream!streamVars
  <2>4. QED
    BY <2>1, <2>2, <2>3 DEF Stream!Next
<1>3. QED
  BY <1>1, <1>2, StreamTypeOK, PTL DEF Stream!Spec

--------------------------------------------------------------------------------
(* What a Stream!Deliver step does to the history, for the proofs below.           *)
LEMMA DeliverAppends ==
  ASSUME Stream!TypeOK, NEW p \in Base .. (rcvd - 1), Stream!Deliver(p)
  PROVE  LET m == [start |-> p, size |-> Stream!MsgSize(wire, p)]
         IN /\ m.size \in Nat \ {0} /\ p \in Nat /\ Stream!SpanEnd(m) <= rcvd
            /\ Base' = Stream!SpanEnd(m)
            /\ DOMAIN delivered = 1 .. Len(delivered)
            /\ DOMAIN delivered' = 1 .. (Len(delivered) + 1)
            /\ Len(delivered) \in Nat /\ Len(delivered') = Len(delivered) + 1
            /\ delivered'[Len(delivered) + 1] = m
            /\ \A i \in DOMAIN delivered : delivered'[i] = delivered[i]
            /\ UNCHANGED <<wire, rcvd>>
<1>1. wire \in Seq(Bytes) /\ p \in Nat /\ rcvd \in 0 .. Len(wire) /\ delivered \in Seq(Stream!Span)
  BY SpanTypes DEF Stream!TypeOK
<1>2. Stream!MsgSize(wire, p) \in Nat \ {0} /\ p + Stream!MsgSize(wire, p) <= rcvd
  BY <1>1, StreamAcceptableType DEF Stream!Deliver
<1>3. QED
  BY <1>1, <1>2 DEF Stream!Deliver, Stream!SpanEnd

(* No message is lost in the consumed bytes unless it overlaps one that was *)
(* handed out.                                                              *)
THEOREM StreamLostOnlyByOverlap == Stream!Spec => []Stream!LostOnlyByOverlap
<1>1. Stream!Init => Stream!LostOnlyByOverlap
  BY DEF Stream!Init, Stream!LostOnlyByOverlap
<1>2. Stream!TypeOK /\ Stream!LostOnlyByOverlap /\ [Stream!Next]_(Stream!streamVars) => Stream!LostOnlyByOverlap'
  <2> SUFFICES ASSUME Stream!TypeOK, Stream!LostOnlyByOverlap, [Stream!Next]_(Stream!streamVars)
               PROVE  Stream!LostOnlyByOverlap'
    OBVIOUS
  <2>1. ASSUME NEW n \in (rcvd + 1) .. Len(wire), Stream!Receive(n) PROVE Stream!LostOnlyByOverlap'
    BY <2>1 DEF Stream!LostOnlyByOverlap, Stream!Receive, Stream!Obstructs, Stream!SpanEnd
  <2>2. ASSUME NEW p \in Base .. (rcvd - 1), Stream!Deliver(p) PROVE Stream!LostOnlyByOverlap'
    <3> DEFINE m == [start |-> p, size |-> Stream!MsgSize(wire, p)]
               last == Len(delivered) + 1
    <3>1. /\ m.size \in Nat \ {0} /\ p \in Nat /\ Stream!SpanEnd(m) <= rcvd
          /\ Base' = Stream!SpanEnd(m)
          /\ DOMAIN delivered = 1 .. Len(delivered)
          /\ DOMAIN delivered' = 1 .. last
          /\ Len(delivered) \in Nat
          /\ delivered'[last] = m
          /\ \A i \in DOMAIN delivered : delivered'[i] = delivered[i]
          /\ UNCHANGED <<wire, rcvd>>
      BY <2>2, DeliverAppends
    <3>2. wire \in Seq(Bytes) /\ rcvd \in 0 .. Len(wire) /\ Base \in 0 .. rcvd
      BY SpanTypes
    <3> SUFFICES ASSUME NEW q \in 0 .. (Base' - 1), Stream!Acceptable(wire, q, Len(wire))
                 PROVE  \E i \in DOMAIN delivered' : Stream!Obstructs(delivered'[i], q)
      BY <3>1 DEF Stream!LostOnlyByOverlap, Stream!Obstructs
    <3>3. q \in Nat /\ Stream!MsgSize(wire, q) \in Nat
      BY <3>1, <3>2, StreamAcceptableType DEF Stream!SpanEnd
    <3>4. CASE q < Base
      <4>1. PICK i \in DOMAIN delivered : Stream!Obstructs(delivered[i], q)
        BY <3>2, <3>3, <3>4 DEF Stream!LostOnlyByOverlap
      <4>2. i \in DOMAIN delivered' /\ Stream!Obstructs(delivered'[i], q)
        BY <3>1, <4>1 DEF Stream!Obstructs, Stream!SpanEnd
      <4>3. QED
        BY <4>2
    <3>5. CASE q >= Base /\ q < p
      <4>1. ~Stream!Acceptable(wire, q, rcvd)
        BY <2>2, <3>3, <3>5 DEF Stream!Deliver, Stream!NoMessageIn
      <4>2. q + Stream!MsgSize(wire, q) > rcvd
        BY <3>2, <3>3, <4>1, StreamAcceptableWhenWhole
      <4>3. last \in DOMAIN delivered' /\ Stream!Obstructs(delivered'[last], q)
        BY <3>1, <3>2, <3>3, <3>5, <4>2 DEF Stream!Obstructs, Stream!SpanEnd
      <4>4. QED
        BY <4>3
    <3>6. CASE q >= p
      <4>1. last \in DOMAIN delivered' /\ Stream!Obstructs(delivered'[last], q)
        BY <3>1, <3>3, <3>6 DEF Stream!Obstructs, Stream!SpanEnd
      <4>2. QED
        BY <4>1
    <3>7. QED
      BY <3>1, <3>2, <3>3, <3>4, <3>5, <3>6
  <2>3. CASE UNCHANGED Stream!streamVars
    BY <2>3 DEF Stream!LostOnlyByOverlap, Stream!streamVars, Stream!Obstructs, Stream!SpanEnd
  <2>4. QED
    BY <2>1, <2>2, <2>3 DEF Stream!Next
<1>3. QED
  BY <1>1, <1>2, StreamTypeOK, PTL DEF Stream!Spec

(* A clean stream is handed out as it was sent: a message boundary of the   *)
(* sender is where the consumed bytes end, so the next message handed out   *)
(* can only be the one that starts there.                                   *)
THEOREM StreamCleanExact == Stream!Spec => []Stream!CleanStreamExact
<1>1. Stream!Init => Stream!CleanStreamExact
  BY DEF Stream!Init, Stream!CleanStreamExact, Stream!Clean, Stream!WholeMessages
<1>2. Stream!TypeOK /\ Stream!CleanStreamExact /\ [Stream!Next]_(Stream!streamVars) => Stream!CleanStreamExact'
  <2> SUFFICES ASSUME Stream!TypeOK, Stream!CleanStreamExact, [Stream!Next]_(Stream!streamVars), Stream!Clean(wire)'
               PROVE  Stream!CleanStreamExact'
    BY DEF Stream!CleanStreamExact
  <2>0. /\ wire \in Seq(Bytes) /\ rcvd \in 0 .. Len(wire) /\ Base \in 0 .. rcvd
        /\ delivered \in Seq(Stream!Span)
    BY SpanTypes DEF Stream!TypeOK
  <2>1. ASSUME NEW n \in (rcvd + 1) .. Len(wire), Stream!Receive(n) PROVE Stream!CleanStreamExact'
    BY <2>1 DEF Stream!CleanStreamExact, Stream!Receive
  <2>2. ASSUME NEW p \in Base .. (rcvd - 1), Stream!Deliver(p) PROVE Stream!CleanStreamExact'
    <3> DEFINE m == [start |-> p, size |-> Stream!MsgSize(wire, p)]
               last == Len(delivered) + 1
    <3>1. /\ m.size \in Nat \ {0} /\ p \in Nat /\ Stream!SpanEnd(m) <= rcvd
          /\ Base' = Stream!SpanEnd(m)
          /\ DOMAIN delivered = 1 .. Len(delivered)
          /\ DOMAIN delivered' = 1 .. last
          /\ Len(delivered) \in Nat /\ Len(delivered') = last
          /\ delivered'[last] = m
          /\ \A i \in DOMAIN delivered : delivered'[i] = delivered[i]
          /\ UNCHANGED <<wire, rcvd>>
      BY <2>2, DeliverAppends
    <3>2. Stream!Clean(wire) /\ Base \in Bounds[wire]
      BY <3>1 DEF Stream!CleanStreamExact, Stream!Clean, Stream!WholeMessages
    <3>3. /\ Stream!Acceptable(wire, Base, Len(wire))
          /\ Base + Stream!MsgSize(wire, Base) \in Bounds[wire]
          /\ \A q \in (Base + 1) .. (Base + Stream!MsgSize(wire, Base) - 1) :
                ~Stream!Acceptable(wire, q, Len(wire))
      BY <2>0, <3>1, <3>2 DEF Stream!Clean, Stream!WholeMessages
    <3>4. Stream!MsgSize(wire, Base) \in Nat
      BY <2>0, <3>3, StreamAcceptableType
    <3>5. p = Base
      <4> SUFFICES ASSUME p > Base PROVE FALSE
        BY <2>0
      <4>1. ~Stream!Acceptable(wire, Base, rcvd)
        BY <2>0, <2>2 DEF Stream!Deliver, Stream!NoMessageIn
      <4>2. Base + Stream!MsgSize(wire, Base) > rcvd
        BY <2>0, <3>3, <3>4, <4>1, StreamAcceptableWhenWhole
      <4>3. Stream!Acceptable(wire, p, Len(wire))
        BY <2>0, <2>2, <3>1, StreamAcceptableMonotone DEF Stream!Deliver
      <4>4. QED
        BY <2>0, <3>3, <3>4, <4>2, <4>3
    <3>6. Base' \in Bounds[wire]
      BY <3>1, <3>3, <3>5 DEF Stream!SpanEnd
    <3>7. Base' = Stream!SpanEnd(delivered'[last]) /\ delivered' # <<>>
      BY <3>1
    <3>8. ASSUME NEW i \in DOMAIN delivered'
          PROVE  /\ delivered'[i].start \in Bounds[wire]
                 /\ delivered'[i].start = IF i = 1 THEN 0 ELSE Stream!SpanEnd(delivered'[i - 1])
      <4>1. CASE i \in DOMAIN delivered
        <5>1. i # 1 => i - 1 \in DOMAIN delivered
          BY <3>1, <4>1
        <5>2. QED
          BY <3>1, <3>2, <4>1, <5>1 DEF Stream!CleanStreamExact
      <4>2. CASE i = last
        <5>1. Base = IF delivered = <<>> THEN 0 ELSE Stream!SpanEnd(delivered[Len(delivered)])
          BY <3>2 DEF Stream!CleanStreamExact
        <5>2. CASE delivered = <<>>
          BY <3>1, <3>2, <3>5, <4>2, <5>1, <5>2
        <5>3. CASE delivered # <<>>
          <6>1. Len(delivered) \in DOMAIN delivered
            BY <2>0, <3>1, <5>3
          <6>2. QED
            BY <3>1, <3>2, <3>5, <4>2, <5>1, <5>3, <6>1
        <5>4. QED
          BY <5>2, <5>3
      <4>3. QED
        BY <3>1, <4>1, <4>2
    <3>9. QED
      BY <3>1, <3>6, <3>7, <3>8 DEF Stream!CleanStreamExact
  <2>3. CASE UNCHANGED Stream!streamVars
    BY <2>3 DEF Stream!CleanStreamExact, Stream!streamVars
  <2>4. QED
    BY <2>1, <2>2, <2>3 DEF Stream!Next
<1>3. QED
  BY <1>1, <1>2, StreamTypeOK, PTL DEF Stream!Spec
--------------------------------------------------------------------------------
(* What holds of the stream specification holds of the parser, which        *)
(* implements it.  The messages handed out are whole, in order and disjoint. *)
THEOREM ParserSpansSound == Spec => []SpansSound
BY StreamSpansSound, ParserImplementsStream, PTL DEF ImplementsStream, SpansSound

(* No message of the consumed bytes is lost, but by overlapping another.    *)
THEOREM ParserLostOnlyByOverlap == Spec => []LostOnlyByOverlap
BY StreamLostOnlyByOverlap, ParserImplementsStream, PTL DEF ImplementsStream, LostOnlyByOverlap

(* A clean stream is handed out exactly as it was sent.                     *)
THEOREM ParserCleanStreamExact == Spec => []CleanStreamExact
BY StreamCleanExact, ParserImplementsStream, PTL DEF ImplementsStream, CleanStreamExact

(* The buffer of a clean stream holds less than one message between calls:  *)
(* it starts at a message boundary, and that message is not complete.       *)
THEOREM ParserBufferBounded == Spec => []BufferBounded
<1>1. ParserInv /\ CleanStreamExact => BufferBounded
  <2> SUFFICES ASSUME ParserInv, CleanStreamExact, pc = "idle", Clean(wire), head < rcvd
               PROVE  rcvd - head < MsgSize(wire, head)
    BY DEF BufferBounded
  <2>1. /\ wire \in Seq(Bytes) /\ rcvd \in 0 .. Len(wire) /\ head \in Nat /\ Base = head
    BY ParserTypes DEF ParserInv, Base
  <2>2. Stream!Clean(wire)
    BY SameFraming DEF Clean, Stream!Clean, WholeMessages, Stream!WholeMessages
  <2>3. head \in Bounds[wire]
    BY <2>1, <2>2 DEF CleanStreamExact, Stream!CleanStreamExact
  <2>4. Acceptable(wire, head, Len(wire))
    BY <2>1, <2>3 DEF Clean, WholeMessages
  <2>5. ~Acceptable(wire, head, rcvd)
    BY <2>1 DEF ParserInv, NothingLeftBehind, Exhausted, HiddenByCutHeader
  <2>6. MsgSize(wire, head) \in Nat
    BY <2>1, <2>4, AcceptableType
  <2>7. QED
    BY <2>1, <2>4, <2>5, <2>6, AcceptableWhenWhole
<1>2. QED
  BY <1>1, ParserInvariant, ParserCleanStreamExact, PTL

--------------------------------------------------------------------------------
(* XsMessage.                                                               *)

(* Counting up.                                                             *)
LEMMA LeastNumber == ASSUME NEW T \in SUBSET Nat, T # {} PROVE \E x \in T : \A y \in T : x <= y
<1> DEFINE Less == {ss \in Nat \X Nat : ss[1] < ss[2]}
<1>1. IsWellFoundedOn(OpToRel(<, Nat), Nat)
  BY NatLessThanWellFounded, Zenon
<1>2. IsWellFoundedOn(Less, Nat)
  BY <1>1, Zenon DEF OpToRel
<1>3. \A x, y \in Nat : <<y, x>> \notin Less => x <= y
  OBVIOUS
<1> HIDE DEF Less
<1>4. PICK x \in T : \A y \in T : ~(<<y, x>> \in Less)
  BY <1>2, WFMin, Zenon
<1>5. QED
  BY <1>3, <1>4

LEMMA Counting ==
  ASSUME NEW T, 0 \in T, \A n \in Nat : n \in T => n + 1 \in T
  PROVE  \A n \in Nat : n \in T
<1> DEFINE U == Nat \ T
<1> SUFFICES ASSUME U # {} PROVE FALSE
  OBVIOUS
<1>1. PICK x \in U : \A y \in U : x <= y
  BY LeastNumber
<1>2. x - 1 \in Nat /\ x - 1 \in T /\ (x - 1) + 1 = x
  BY <1>1
<1>3. QED
  BY <1>2

(* The sums of bytes.                                                       *)

\* P[k] is the sum of the first k elements of s.
Sums(P, s) ==
  /\ P \in [0 .. Len(s) -> Int]
  /\ P[0] = 0
  /\ \A k \in 1 .. Len(s) : P[k] = P[k - 1] + s[k]

LEMMA SumsExist ==
  ASSUME NEW s \in Seq(Int)
  PROVE  \E P : Sums(P, s)
<1> DEFINE Upto(P, n) == /\ P \in [0 .. n -> Int]
                         /\ P[0] = 0
                         /\ \A k \in 1 .. n : P[k] = P[k - 1] + s[k]
           Some(n) == \E P : Upto(P, n)
           T == {n \in Nat : n <= Len(s) => Some(n)}
<1>1. 0 \in T
  <2>1. Upto([k \in 0 .. 0 |-> 0], 0)
    OBVIOUS
  <2>2. QED
    BY <2>1
<1>2. ASSUME NEW n \in Nat, n \in T PROVE n + 1 \in T
  <2> HIDE DEF Some
  <2> SUFFICES ASSUME n + 1 <= Len(s) PROVE Some(n + 1)
    OBVIOUS
  <2>0. Some(n)
    BY <1>2
  <2>1. PICK P : Upto(P, n)
    BY <2>0 DEF Some
  <2>2. s[n + 1] \in Int
    OBVIOUS
  <2>3. \A k \in 0 .. n : P[k] \in Int
    BY <2>1
  <2>4. P[n] + s[n + 1] \in Int
    BY <2>2, <2>3
  <2>5. \A k \in 0 .. n + 1 : (IF k = n + 1 THEN P[n] + s[n + 1] ELSE P[k]) \in Int
    BY <2>3, <2>4
  <2> DEFINE Q == [k \in 0 .. n + 1 |-> IF k = n + 1 THEN P[n] + s[n + 1] ELSE P[k]]
  <2>6. \A k \in 0 .. n : Q[k] = P[k]
    OBVIOUS
  <2>7. Q[n + 1] = P[n] + s[n + 1]
    OBVIOUS
  <2>8. Q \in [0 .. n + 1 -> Int]
    BY <2>5
  <2> HIDE DEF Q
  <2>9. Q[0] = 0
    BY <2>1, <2>6
  <2>10. \A k \in 1 .. n + 1 : Q[k] = Q[k - 1] + s[k]
    <3> SUFFICES ASSUME NEW k \in 1 .. n + 1 PROVE Q[k] = Q[k - 1] + s[k]
      OBVIOUS
    <3>1. CASE k = n + 1
      <4>1. k - 1 = n /\ n \in 0 .. n
        BY <3>1
      <4>2. Q[k - 1] = P[n]
        BY <2>6, <4>1
      <4>3. QED
        BY <2>7, <3>1, <4>2
    <3>2. CASE k \in 1 .. n
      <4>1. k \in 0 .. n /\ k - 1 \in 0 .. n
        BY <3>2
      <4>2. Q[k] = P[k] /\ Q[k - 1] = P[k - 1]
        BY <2>6, <4>1
      <4>3. QED
        BY <2>1, <3>2, <4>2
    <3>3. QED
      BY <3>1, <3>2
  <2>11. QED
    BY <2>8, <2>9, <2>10 DEF Some
<1>3. Len(s) \in T
  <2> HIDE DEF T
  <2>1. QED
    BY <1>1, <1>2, Counting, SMTT(30)
<1>4. QED
  BY <1>3 DEF Sums

(* Summing by halves gives the difference of two such sums.                 *)
LEMMA ByteSumIs ==
  ASSUME NEW s \in Seq(Int), NEW P, Sums(P, s),
         NEW lo \in 1 .. Len(s) + 1, NEW hi \in lo - 1 .. Len(s)
  PROVE  ByteSum(s, lo, hi) = P[hi] - P[lo - 1]
<1>1. \A k \in 0 .. Len(s) : P[k] \in Int
  BY DEF Sums
<1>2. CASE hi = lo - 1
  <2>1. lo > hi /\ P[hi] \in Int
    BY <1>1, <1>2
  <2>2. ByteSum(s, lo, hi) = 0
    BY <2>1, Zenon DEF ByteSum
  <2>3. QED
    BY <1>2, <2>1, <2>2
<1>3. CASE hi >= lo
  <2> DEFINE R == (lo .. hi) \X (lo .. hi)
             Mid(r) == (r[1] + r[2]) \div 2
             Halves(f, r) == IF r[1] = r[2] THEN s[r[1]]
                             ELSE f[<<r[1], Mid(r)>>] + f[<<Mid(r) + 1, r[2]>>]
             Half(f) == f = [r \in R |-> Halves(f, r)]
             sum == CHOOSE f : Half(f)
             Diff(r) == P[r[2]] - P[r[1] - 1]
             g == [r \in R |-> Diff(r)]
  <2>1. ByteSum(s, lo, hi) = sum[<<lo, hi>>]
    <3>1. ~(lo > hi)
      BY <1>3
    <3>2. QED
      BY <3>1, Zenon DEF ByteSum
  <2>2. ASSUME NEW r \in R, r[1] # r[2]
        PROVE  /\ <<r[1], Mid(r)>> \in R /\ <<Mid(r) + 1, r[2]>> \in R
               /\ r[1] < r[2] => Mid(r) \in r[1] .. r[2] - 1
    <3>1. PICK i \in lo .. hi, j \in lo .. hi : r = <<i, j>>
      OBVIOUS
    <3>2. i # j /\ Mid(r) = (i + j) \div 2
      BY <2>2, <3>1
    <3>3. (i + j) \div 2 \in lo .. hi - 1 /\ (i < j => (i + j) \div 2 \in i .. j - 1)
      BY <3>2
    <3>4. Mid(r) \in lo .. hi /\ Mid(r) + 1 \in lo .. hi
      BY <3>2, <3>3, SMTT(30)
    <3>5. QED
      BY <3>1, <3>2, <3>3, <3>4
  <2> HIDE DEF Mid
  <2>3. ASSUME NEW r \in R PROVE r[1] \in 1 .. Len(s) /\ r[2] \in 1 .. Len(s) /\ Diff(r) \in Int
    <3>1. r[1] \in 1 .. Len(s) /\ r[2] \in 1 .. Len(s)
      BY <1>3
    <3>2. P[r[2]] \in Int /\ P[r[1] - 1] \in Int
      BY <1>1, <3>1, SMTT(30)
    <3>3. P[r[2]] - P[r[1] - 1] \in Int
      BY <3>2
    <3>4. QED
      BY <3>1, <3>3
  <2>4. ASSUME NEW r \in R, r[1] = r[2] PROVE Diff(r) = s[r[1]]
    <3>1. r[1] \in 1 .. Len(s) /\ s[r[1]] \in Int
      BY <2>3
    <3>2. \A k \in 1 .. Len(s) : P[k] = P[k - 1] + s[k] /\ P[k - 1] \in Int
      BY <1>1 DEF Sums
    <3>4. P[r[1]] = P[r[1] - 1] + s[r[1]] /\ P[r[1] - 1] \in Int
      BY <3>1, <3>2
    <3>3. QED
      BY <2>4, <3>1, <3>4
  <2>5. ASSUME NEW r \in R, r[1] # r[2]
        PROVE  Diff(r) = Diff(<<r[1], Mid(r)>>) + Diff(<<Mid(r) + 1, r[2]>>)
    <3>1. <<r[1], Mid(r)>> \in R /\ <<Mid(r) + 1, r[2]>> \in R
      BY <2>2, <2>5
    <3> DEFINE mm == Mid(r)
    <3>2. mm \in 1 .. Len(s) /\ (mm + 1) - 1 = mm
      BY <2>3, <3>1
    <3> HIDE DEF mm
    <3>3. P[mm] \in Int /\ P[r[1] - 1] \in Int /\ P[r[2]] \in Int
      BY <1>1, <2>3, <3>2, SMTT(30)
    <3>4. P[r[2]] - P[r[1] - 1] = (P[mm] - P[r[1] - 1]) + (P[r[2]] - P[(mm + 1) - 1])
      BY <3>2, <3>3, SMTT(30)
    <3>5. QED
      BY <3>4 DEF mm
  <2> HIDE DEF Diff
  <2>6. Half(g)
    <3>1. ASSUME NEW r \in R PROVE Diff(r) = Halves(g, r)
      <4>1. CASE r[1] = r[2]
        BY <2>4, <4>1
      <4>2. CASE r[1] # r[2]
        BY <2>2, <2>5, <4>2
      <4>3. QED
        BY <4>1, <4>2
    <3> DEFINE h == g
    <3>2. h = g
      OBVIOUS
    <3>3. \A r \in R : Diff(r) = Halves(h, r)
      BY <3>1
    <3> HIDE DEF h, Halves
    <3>4. [r \in R |-> Diff(r)] = [r \in R |-> Halves(h, r)]
      BY <3>3
    <3>5. g = [r \in R |-> Halves(g, r)]
      BY <3>2, <3>4
    <3>6. QED
      BY <3>5, Zenon
  <2> HIDE DEF g
  <2>7. Half(sum)
    BY <2>6, Zenon
  <2> HIDE DEF sum
  <2>8. \A r \in R : sum[r] = Halves(sum, r)
    <3> HIDE DEF Halves
    <3>1. QED
      BY <2>7
  <2> HIDE DEF Half
  <2> DEFINE T == {d \in Nat : \A r \in R : r[2] - r[1] \in 0 .. d => sum[r] = Diff(r)}
  <2>9. ASSUME NEW r \in R, r[1] = r[2] PROVE sum[r] = Diff(r)
    BY <2>4, <2>8, <2>9
  <2>10. 0 \in T
    <3>1. \A r \in R : r[2] - r[1] \in 0 .. 0 => r[1] = r[2]
      OBVIOUS
    <3>2. QED
      BY <2>9, <3>1
  <2>11. ASSUME NEW d \in Nat, d \in T PROVE d + 1 \in T
    <3> SUFFICES ASSUME NEW r \in R, r[2] - r[1] \in 0 .. d + 1
                 PROVE  sum[r] = Diff(r)
      OBVIOUS
    <3>1. CASE r[1] = r[2]
      BY <2>9, <3>1
    <3>2. CASE r[1] # r[2]
      <4> DEFINE ra == <<r[1], Mid(r)>>
                 rb == <<Mid(r) + 1, r[2]>>
      <4>1. r[1] < r[2] /\ r[1] \in Int /\ r[2] \in Int
        BY <2>3, <3>2
      <4>2. Mid(r) \in r[1] .. r[2] - 1 /\ ra \in R /\ rb \in R
        BY <2>2, <3>2, <4>1
      <4>3. Mid(r) - r[1] \in 0 .. d /\ r[2] - (Mid(r) + 1) \in 0 .. d
        <5> DEFINE mm == Mid(r)
        <5>1. mm \in r[1] .. r[2] - 1
          BY <4>2
        <5> HIDE DEF mm
        <5>2. \A i, j, k \in Int : k \in i .. j - 1 /\ j - i \in 0 .. d + 1 =>
                                    k - i \in 0 .. d /\ j - (k + 1) \in 0 .. d
          BY SMTT(30)
        <5>3. mm \in Int
          BY <4>1, <5>1
        <5>4. mm - r[1] \in 0 .. d /\ r[2] - (mm + 1) \in 0 .. d
          BY <4>1, <5>1, <5>2, <5>3
        <5>5. QED
          BY <5>4 DEF mm
      <4>4. ra[2] - ra[1] \in 0 .. d /\ rb[2] - rb[1] \in 0 .. d
        BY <4>3
      <4>5. sum[r] = sum[ra] + sum[rb]
        BY <2>8, <3>2
      <4>6. Diff(r) = Diff(ra) + Diff(rb)
        BY <2>5, <3>2
      <4> HIDE DEF ra, rb
      <4>7. sum[ra] = Diff(ra) /\ sum[rb] = Diff(rb)
        BY <2>11, <4>2, <4>4
      <4>8. QED
        BY <4>5, <4>6, <4>7
    <3>3. QED
      BY <3>1, <3>2
  <2>12. hi - lo \in T
    <3>1. hi - lo \in Nat
      BY <1>3
    <3> HIDE DEF T
    <3>2. QED
      BY <3>1, <2>10, <2>11, Counting
  <2>13. <<lo, hi>> \in R /\ <<lo, hi>>[2] - <<lo, hi>>[1] \in 0 .. hi - lo
    BY <1>3
  <2>14. sum[<<lo, hi>>] = Diff(<<lo, hi>>)
    BY <2>12, <2>13
  <2>15. QED
    BY <2>1, <2>14 DEF Diff
<1>4. QED
  BY <1>2, <1>3

LEMMA SumOfIs ==
  ASSUME NEW s \in Seq(Int), NEW P, Sums(P, s)
  PROVE  SumOf(s) = P[Len(s)] /\ SumOf(s) \in Int
<1>1. ByteSum(s, 1, Len(s)) = P[Len(s)] - P[1 - 1]
  BY ByteSumIs
<1>2. P[0] = 0 /\ P[Len(s)] \in Int
  BY DEF Sums
<1>3. QED
  BY <1>1, <1>2 DEF SumOf

LEMMA SumOfType == ASSUME NEW s \in Seq(Int) PROVE SumOf(s) \in Int
BY SumsExist, SumOfIs

LEMMA PieceSum ==
  ASSUME NEW s \in Seq(Int), NEW lo \in 1 .. Len(s) + 1, NEW hi \in lo - 1 .. Len(s)
  PROVE  ByteSum(s, lo, hi) = SumOf(SubSeq(s, lo, hi))
<1>1. PICK P : Sums(P, s)
  BY SumsExist
<1>2. \A k \in 0 .. Len(s) : P[k] \in Int
  BY <1>1 DEF Sums
<1> DEFINE t == SubSeq(s, lo, hi)
           n == hi - lo + 1
           Q == [k \in 0 .. n |-> P[lo - 1 + k] - P[lo - 1]]
<1>3. n \in Nat /\ t \in Seq(Int) /\ Len(t) = n /\ \A k \in 1 .. n : t[k] = s[lo + k - 1]
  <2>1. \A i \in lo .. hi : s[i] \in Int
    OBVIOUS
  <2>2. lo \in Int /\ hi \in Int /\ n \in Nat
    OBVIOUS
  <2>3. Len(t) = n /\ \A k \in 1 .. n : t[k] = s[lo + k - 1]
    BY <2>1, <2>2, SubSeqProperties
  <2>4. t \in Seq(Int)
    BY <2>1, <2>2, SubSeqProperties
  <2>5. QED
    BY <2>2, <2>3, <2>4
<1>4. Sums(Q, t)
  <2>1. \A k \in 0 .. n : lo - 1 + k \in 0 .. Len(s) /\ P[lo - 1 + k] \in Int /\ P[lo - 1] \in Int
    BY <1>2
  <2>2. Q \in [0 .. n -> Int]
    <3>1. ASSUME NEW k \in 0 .. n PROVE P[lo - 1 + k] - P[lo - 1] \in Int
      <4> DEFINE x == P[lo - 1 + k]
                 y == P[lo - 1]
      <4>1. x \in Int /\ y \in Int
        BY <2>1
      <4> HIDE DEF x, y
      <4>2. x - y \in Int
        BY <4>1
      <4>3. QED
        BY <4>2 DEF x, y
    <3> HIDE DEF n
    <3>2. QED
      BY <3>1
  <2>3. \A k \in 0 .. n : Q[k] = P[lo - 1 + k] - P[lo - 1]
    OBVIOUS
  <2>4. Q[0] = 0
    <3>1. lo - 1 + 0 = lo - 1 /\ P[lo - 1] \in Int
      BY <1>2
    <3>2. Q[0] = P[lo - 1 + 0] - P[lo - 1]
      BY <1>3, <2>3
    <3>3. QED
      BY <3>1, <3>2
  <2>5. ASSUME NEW k \in 1 .. n PROVE Q[k] = Q[k - 1] + t[k]
    <3>1. lo - 1 + k \in 1 .. Len(s) /\ lo - 1 + (k - 1) = (lo - 1 + k) - 1 /\ lo + k - 1 = lo - 1 + k
      BY <1>3
    <3>2. P[lo - 1 + k] = P[(lo - 1 + k) - 1] + s[lo - 1 + k]
      BY <1>1, <3>1 DEF Sums
    <3>3. Q[k] = P[lo - 1 + k] - P[lo - 1] /\ Q[k - 1] = P[lo - 1 + (k - 1)] - P[lo - 1]
      BY <2>3
    <3>4. t[k] = s[lo - 1 + k]
      BY <1>3, <3>1
    <3>5. P[(lo - 1 + k) - 1] \in Int /\ P[lo - 1] \in Int /\ s[lo - 1 + k] \in Int
      BY <1>2, <3>1
    <3> HIDE DEF Q, t
    <3>6. QED
      BY <3>1, <3>2, <3>3, <3>4, <3>5, SMTT(30)
  <2> HIDE DEF Q, t
  <2>6. QED
    BY <1>3, <2>2, <2>4, <2>5 DEF Sums
<1>5. SumOf(t) = Q[n]
  <2> HIDE DEF Q, t, n
  <2>1. QED
    BY <1>3, <1>4, SumOfIs
<1>6. Q[n] = P[hi] - P[lo - 1]
  BY <1>3, SMTT(30)
<1>7. QED
  BY <1>1, <1>5, <1>6, ByteSumIs

LEMMA ConcatPieces ==
  ASSUME NEW S, NEW s \in Seq(S), NEW t \in Seq(S)
  PROVE  /\ SubSeq(s \o t, 1, Len(s)) = s
         /\ SubSeq(s \o t, Len(s) + 1, Len(s) + Len(t)) = t
<1> DEFINE u == s \o t
           a == Len(s)
           b == Len(t)
<1>1. u \in Seq(S) /\ Len(u) = a + b /\ a \in Nat /\ b \in Nat
  BY ConcatProperties
<1>2. SubSeq(u, 1, a) = s /\ SubSeq(u, a + 1, a + b) = t
  <2>1. \A i \in 1 .. a + b : u[i] = IF i <= a THEN s[i] ELSE t[i - a]
    BY ConcatProperties
  <2>2. \A i \in 1 .. a : u[i] \in S
    BY <1>1
  <2>3. \A i \in a + 1 .. a + b : u[i] \in S
    BY <1>1
  <2>4. /\ SubSeq(u, 1, a) \in Seq(S) /\ Len(SubSeq(u, 1, a)) = a
        /\ \A i \in 1 .. a : SubSeq(u, 1, a)[i] = u[i]
    <3>1. /\ SubSeq(u, 1, a) \in Seq(S)
          /\ Len(SubSeq(u, 1, a)) = IF 1 <= a THEN a - 1 + 1 ELSE 0
          /\ \A i \in 1 .. a - 1 + 1 : SubSeq(u, 1, a)[i] = u[1 + i - 1]
      BY <1>1, <2>2, SubSeqProperties
    <3> HIDE DEF u
    <3>2. QED
      BY <1>1, <3>1
  <2>5. /\ SubSeq(u, a + 1, a + b) \in Seq(S) /\ Len(SubSeq(u, a + 1, a + b)) = b
        /\ \A i \in 1 .. b : SubSeq(u, a + 1, a + b)[i] = u[a + i]
    <3>1. /\ SubSeq(u, a + 1, a + b) \in Seq(S)
          /\ Len(SubSeq(u, a + 1, a + b)) = IF a + 1 <= a + b THEN (a + b) - (a + 1) + 1 ELSE 0
          /\ \A i \in 1 .. (a + b) - (a + 1) + 1 : SubSeq(u, a + 1, a + b)[i] = u[(a + 1) + i - 1]
      <4>1. a + 1 \in Int /\ a + b \in Int
        BY <1>1
      <4> HIDE DEF u
      <4>2. QED
        BY <2>3, <4>1, SubSeqProperties
    <3> HIDE DEF u
    <3>2. QED
      BY <1>1, <3>1
  <2>6. \A i \in 1 .. a : SubSeq(u, 1, a)[i] = s[i]
    BY <1>1, <2>1, <2>4
  <2>7. \A i \in 1 .. b : SubSeq(u, a + 1, a + b)[i] = t[i]
    <3> HIDE DEF u
    <3>1. \A i \in 1 .. b : a + i \in 1 .. a + b /\ ~(a + i <= a) /\ (a + i) - a = i
      BY <1>1
    <3>2. QED
      BY <2>1, <2>5, <3>1
  <2> HIDE DEF u, a, b
  <2>8. Len(s) = a /\ Len(t) = b
    BY DEF a, b
  <2>9. QED
    BY <2>4, <2>5, <2>6, <2>7, <2>8, SeqEqual
<1>3. QED
  BY <1>2

LEMMA SumOfConcat ==
  ASSUME NEW s \in Seq(Int), NEW t \in Seq(Int)
  PROVE  SumOf(s \o t) = SumOf(s) + SumOf(t)
<1> DEFINE u == s \o t
           a == Len(s)
           b == Len(t)
<1>1. u \in Seq(Int) /\ Len(u) = a + b /\ a \in Nat /\ b \in Nat
  BY ConcatProperties
<1>2. SubSeq(u, 1, a) = s /\ SubSeq(u, a + 1, a + b) = t
  BY ConcatPieces
<1>3. PICK P : Sums(P, u)
  <2> HIDE DEF u
  <2>1. QED
    BY <1>1, SumsExist
<1> HIDE DEF u, a, b
<1>4. P[0] = 0 /\ P[a] \in Int /\ P[a + b] \in Int
  BY <1>1, <1>3 DEF Sums
<1>5. ByteSum(u, 1, a) = P[a] - P[1 - 1]
  <2>1. 1 \in 1 .. Len(u) + 1 /\ a \in 1 - 1 .. Len(u)
    BY <1>1
  <2>2. QED
    BY <1>1, <1>3, <2>1, ByteSumIs
<1>6. ByteSum(u, a + 1, a + b) = P[a + b] - P[(a + 1) - 1]
  <2>1. a + 1 \in 1 .. Len(u) + 1 /\ a + b \in (a + 1) - 1 .. Len(u)
    BY <1>1
  <2>2. QED
    BY <1>1, <1>3, <2>1, ByteSumIs
<1>7. ByteSum(u, 1, a) = SumOf(s)
  <2>1. 1 \in 1 .. Len(u) + 1 /\ a \in 1 - 1 .. Len(u)
    BY <1>1
  <2>2. QED
    BY <1>1, <1>2, <2>1, PieceSum
<1>8. ByteSum(u, a + 1, a + b) = SumOf(t)
  <2>1. a + 1 \in 1 .. Len(u) + 1 /\ a + b \in (a + 1) - 1 .. Len(u)
    BY <1>1
  <2>2. QED
    BY <1>1, <1>2, <2>1, PieceSum
<1>9. SumOf(u) = P[a + b]
  BY <1>1, <1>3, SumOfIs
<1>10. (a + 1) - 1 = a /\ 1 - 1 = 0
  BY <1>1
<1>11. SumOf(u) = SumOf(s) + SumOf(t)
  BY <1>4, <1>5, <1>6, <1>7, <1>8, <1>9, <1>10
<1>12. QED
  BY <1>11 DEF u

LEMMA SumOfZeros ==
  ASSUME NEW n \in Nat
  PROVE  Zeros(n) \in Seq(Nat) /\ Len(Zeros(n)) = n /\ SumOf(Zeros(n)) = 0
<1>1. Zeros(n) \in Seq(Nat) /\ Len(Zeros(n)) = n /\ \A i \in 1 .. n : Zeros(n)[i] = 0
  BY DEF Zeros
<1> DEFINE P == [k \in 0 .. n |-> 0]
<1>2. Sums(P, Zeros(n))
  BY <1>1 DEF Sums
<1>3. P[n] = 0
  OBVIOUS
<1> HIDE DEF P
<1>4. Zeros(n) \in Seq(Int)
  BY <1>1, SeqMonotonic
<1>5. SumOf(Zeros(n)) = P[n]
  BY <1>1, <1>2, <1>4, SumOfIs
<1>6. QED
  BY <1>1, <1>3, <1>5

LEMMA SumOfOne == ASSUME NEW b \in Int PROVE SumOf(<<b>>) = b
<1> DEFINE P == [k \in 0 .. 1 |-> IF k = 0 THEN 0 ELSE b]
<1>1. <<b>> \in Seq(Int) /\ Len(<<b>>) = 1 /\ <<b>>[1] = b
  OBVIOUS
<1>2. P \in [0 .. 1 -> Int] /\ P[0] = 0 /\ P[1] = b
  OBVIOUS
<1> HIDE DEF P
<1>3. Sums(P, <<b>>)
  <2>1. \A k \in 1 .. 1 : k = 1 /\ k - 1 = 0
    OBVIOUS
  <2>2. \A k \in 1 .. 1 : P[k] = P[k - 1] + <<b>>[k]
    BY <1>1, <1>2, <2>1
  <2>3. QED
    BY <1>1, <1>2, <2>2 DEF Sums
<1>4. SumOf(<<b>>) = P[Len(<<b>>)]
  BY <1>1, <1>3, SumOfIs
<1>5. QED
  BY <1>1, <1>2, <1>4

(* The bytes of a message.                                                  *)

\* What goes in front of n bytes of data.
HeaderOf(bus, mid, n) == <<Preamble, bus, mid>> \o Length(n)

LEMMA LengthIs ==
  ASSUME NEW n \in Nat
  PROVE  /\ Length(n) \in Seq(Nat)
         /\ Len(Length(n)) = IF n < ExtLenCode THEN 1 ELSE 3
         /\ n < ExtLenCode => Length(n)[1] = n
         /\ n >= ExtLenCode => /\ Length(n)[1] = ExtLenCode
                               /\ 256 * Length(n)[2] + Length(n)[3] = n
<1>1. PICK q \in Int, r \in Int : q = n \div 256 /\ r = n % 256
  <2>1. n \div 256 \in Int /\ n % 256 \in Int
    OBVIOUS
  <2>2. QED
    BY <2>1
<1>2. r \in Nat /\ 256 * q + r = n
  BY <1>1
<1>3. q \in Nat
  BY <1>1
<1>4. Length(n) = IF n < ExtLenCode THEN <<n>> ELSE <<ExtLenCode, q, r>>
  BY <1>1, Zenon DEF Length, AsByte
<1>5. QED
  BY <1>2, <1>3, <1>4 DEF ExtLenCode

Announces(h, bus, mid, n) ==
  /\ h \in Seq(Nat)
  /\ Len(h) = IF n < ExtLenCode THEN 4 ELSE 6
  /\ h[1] = Preamble /\ h[2] = bus /\ h[3] = mid
  /\ n < ExtLenCode => h[4] = n
  /\ n >= ExtLenCode => h[4] = ExtLenCode /\ 256 * h[5] + h[6] = n
  /\ SumOf(SubSeq(h, 2, Len(h))) = bus + mid + SumOf(Length(n))

LEMMA HeaderIs ==
  ASSUME NEW bus \in Nat, NEW mid \in Nat, NEW n \in Nat
  PROVE  Announces(HeaderOf(bus, mid, n), bus, mid, n)
<1> DEFINE l == Length(n)
           a == <<Preamble, bus, mid>>
           h == HeaderOf(bus, mid, n)
<1>1. a \in Seq(Nat) /\ Len(a) = 3 /\ a[1] = Preamble /\ a[2] = bus /\ a[3] = mid
  BY DEF Preamble
<1>2. /\ l \in Seq(Nat) /\ Len(l) = IF n < ExtLenCode THEN 1 ELSE 3
      /\ n < ExtLenCode => l[1] = n
      /\ n >= ExtLenCode => l[1] = ExtLenCode /\ 256 * l[2] + l[3] = n
  BY LengthIs
<1>3. h = a \o l
  BY DEF HeaderOf
<1> HIDE DEF a, l, h
<1>4. h \in Seq(Nat) /\ Len(h) = Len(a) + Len(l)
      /\ \A i \in 1 .. Len(a) + Len(l) : h[i] = IF i <= Len(a) THEN a[i] ELSE l[i - Len(a)]
  BY <1>1, <1>2, <1>3, ConcatProperties, ZenonT(30)
<1>5. Len(h) = IF n < ExtLenCode THEN 4 ELSE 6
  BY <1>1, <1>2, <1>4
<1>6. h[1] = Preamble /\ h[2] = bus /\ h[3] = mid /\ h[4] = l[1]
  <2>1. Len(l) \in Nat /\ Len(l) >= 1
    BY <1>2
  <2>2. \A i \in 1 .. 3 : h[i] = a[i]
    BY <1>1, <1>4, <2>1
  <2>3. h[4] = l[4 - Len(a)]
    BY <1>1, <1>4, <2>1
  <2>4. QED
    BY <1>1, <2>2, <2>3
<1>7. n >= ExtLenCode => h[5] = l[2] /\ h[6] = l[3]
  <2> SUFFICES ASSUME n >= ExtLenCode PROVE h[5] = l[2] /\ h[6] = l[3]
    OBVIOUS
  <2>1. ~(n < ExtLenCode)
    BY DEF ExtLenCode
  <2>2. Len(l) = 3
    BY <1>2, <2>1
  <2>3. \A i \in 4 .. 6 : h[i] = l[i - 3]
    BY <1>1, <1>4, <2>2
  <2>4. QED
    BY <2>3
<1> DEFINE ids == <<bus, mid>>
           u == ids \o l
<1>8. /\ ids \in Seq(Nat) /\ Len(ids) = 2 /\ ids[1] = bus /\ ids[2] = mid
      /\ SumOf(ids) = bus + mid
  <2>1. SumOf(<<bus>>) = bus /\ SumOf(<<mid>>) = mid
    BY SumOfOne
  <2>2. <<bus>> \in Seq(Int) /\ <<mid>> \in Seq(Int)
    OBVIOUS
  <2>3. SumOf(<<bus>> \o <<mid>>) = bus + mid
    BY <2>1, <2>2, SumOfConcat
  <2>4. ids \in Seq(Nat) /\ Len(ids) = 2 /\ ids[1] = bus /\ ids[2] = mid
    OBVIOUS
  <2>5. <<bus>> \o <<mid>> = ids
    <3>1. /\ <<bus>> \o <<mid>> \in Seq(Int) /\ Len(<<bus>> \o <<mid>>) = 1 + 1
          /\ \A i \in 1 .. 1 + 1 : (<<bus>> \o <<mid>>)[i] = IF i <= 1 THEN <<bus>>[i] ELSE <<mid>>[i - 1]
      BY <2>2, ConcatProperties
    <3>2. (<<bus>> \o <<mid>>)[1] = bus /\ (<<bus>> \o <<mid>>)[2] = mid
      BY <3>1
    <3>3. ids \in Seq(Int)
      OBVIOUS
    <3> DEFINE v == <<bus>> \o <<mid>>
    <3>4. \A i \in 1 .. 2 : i = 1 \/ i = 2
      OBVIOUS
    <3> HIDE DEF v, ids
    <3>5. v \in Seq(Int) /\ Len(v) = 2 /\ v[1] = bus /\ v[2] = mid
      BY <3>1, <3>2 DEF v
    <3>6. \A i \in 1 .. Len(v) : v[i] = ids[i]
      BY <2>4, <3>4, <3>5
    <3>7. v = ids
      BY <2>4, <3>3, <3>5, <3>6, SeqEqual
    <3>8. QED
      BY <3>7 DEF v
  <2>6. QED
    BY <2>3, <2>4, <2>5
<1> HIDE DEF ids
<1>9. /\ u \in Seq(Nat) /\ Len(u) = 2 + Len(l)
      /\ \A i \in 1 .. 2 + Len(l) : u[i] = IF i <= 2 THEN ids[i] ELSE l[i - 2]
  <2>1. /\ u \in Seq(Nat) /\ Len(u) = Len(ids) + Len(l)
        /\ \A i \in 1 .. Len(ids) + Len(l) : u[i] = IF i <= Len(ids) THEN ids[i] ELSE l[i - Len(ids)]
    BY <1>2, <1>8, ConcatProperties, ZenonT(30)
  <2> HIDE DEF u
  <2>2. QED
    BY <1>8, <2>1
<1>10. SubSeq(h, 2, Len(h)) = u
  <2> HIDE DEF u
  <2>1. \A i \in 2 .. Len(h) : h[i] \in Nat
    BY <1>4
  <2>2. /\ SubSeq(h, 2, Len(h)) \in Seq(Nat)
        /\ Len(SubSeq(h, 2, Len(h))) = IF 2 <= Len(h) THEN Len(h) - 2 + 1 ELSE 0
        /\ \A i \in 1 .. Len(h) - 2 + 1 : SubSeq(h, 2, Len(h))[i] = h[2 + i - 1]
    <3>1. 2 \in Int /\ Len(h) \in Int
      BY <1>4
    <3>2. QED
      BY <2>1, <3>1, SubSeqProperties
  <2>3. Len(l) \in Nat /\ Len(h) = 3 + Len(l)
    BY <1>1, <1>2, <1>4
  <2>4. Len(SubSeq(h, 2, Len(h))) = Len(u)
    BY <1>9, <2>2, <2>3
  <2>5. ASSUME NEW i \in 1 .. Len(u) PROVE SubSeq(h, 2, Len(h))[i] = u[i]
    <3>1. i \in 1 .. 2 + Len(l) /\ 2 + i - 1 = i + 1 /\ i + 1 \in 1 .. Len(a) + Len(l)
      BY <1>1, <1>9, <2>3
    <3>2. SubSeq(h, 2, Len(h))[i] = h[i + 1]
      BY <2>2, <2>3, <3>1
    <3>3. h[i + 1] = IF i + 1 <= 3 THEN a[i + 1] ELSE l[(i + 1) - 3]
      BY <1>1, <1>4, <3>1
    <3>4. u[i] = IF i <= 2 THEN ids[i] ELSE l[i - 2]
      BY <1>9, <3>1
    <3>5. CASE i = 1
      <4>1. h[i + 1] = bus /\ u[i] = bus
        BY <1>6, <1>8, <3>4, <3>5
      <4>2. QED
        BY <3>2, <4>1
    <3>6. CASE i = 2
      <4>1. h[i + 1] = mid /\ u[i] = mid
        BY <1>6, <1>8, <3>4, <3>6
      <4>2. QED
        BY <3>2, <4>1
    <3>7. CASE i > 2
      <4>1. (i + 1) - 3 = i - 2 /\ ~(i + 1 <= 3) /\ ~(i <= 2)
        BY <3>1, <3>7
      <4>2. QED
        BY <3>2, <3>3, <3>4, <4>1
    <3>8. i \in Nat \ {0}
      BY <2>3, <3>1
    <3>9. i = 1 \/ i = 2 \/ i > 2
      BY <3>8
    <3>10. QED
      BY <3>5, <3>6, <3>7, <3>9, Zenon
  <2>6. QED
    BY <1>9, <2>2, <2>4, <2>5, SeqEqual
<1>11. SumOf(u) = bus + mid + SumOf(l)
  <2>1. ids \in Seq(Int) /\ l \in Seq(Int)
    BY <1>2, <1>8, SeqMonotonic
  <2>2. QED
    BY <1>8, <2>1, SumOfConcat
<1>12. QED
  BY <1>2, <1>4, <1>5, <1>6, <1>7, <1>10, <1>11 DEF h, l, Announces

ConsistsOf(m, h, data, cs) ==
  /\ m \in Seq(Nat) /\ m # Null
  /\ Len(m) = Len(h) + Len(data) + 1
  /\ \A i \in 1 .. Len(h) : m[i] = h[i]
  /\ \A i \in 1 .. Len(data) : m[Len(h) + i] = data[i]
  /\ m[Len(m)] = cs % 256
  /\ SubSeq(m, 1, Len(m) - 1) = h \o data

LEMMA AssembledIs ==
  ASSUME NEW bus \in Nat, NEW mid \in Nat, NEW data \in Seq(Nat), NEW cs \in Int
  PROVE  ConsistsOf(Assembled(bus, mid, data, cs), HeaderOf(bus, mid, Len(data)), data, cs)
<1> DEFINE m == Assembled(bus, mid, data, cs)
           h == HeaderOf(bus, mid, Len(data))
           d == h \o data
           last == <<AsByte(cs)>>
<1>1. h \in Seq(Nat) /\ Len(h) \in Nat
  <2>1. Len(data) \in Nat
    OBVIOUS
  <2>2. Announces(h, bus, mid, Len(data))
    BY <2>1, HeaderIs, Zenon
  <2> HIDE DEF h
  <2>3. QED
    BY <2>2 DEF Announces
<1>2. last \in Seq(Nat) /\ Len(last) = 1 /\ last[1] = cs % 256
  BY DEF AsByte
<1>3. m = d \o last
  <2>1. m = ((<<Preamble, bus, mid>> \o Length(Len(data))) \o data) \o <<AsByte(cs)>>
    BY DEF Assembled
  <2>2. QED
    BY <2>1 DEF HeaderOf
<1> HIDE DEF m, h, last
<1>4. /\ d \in Seq(Nat) /\ Len(d) = Len(h) + Len(data)
      /\ \A i \in 1 .. Len(h) + Len(data) : d[i] = IF i <= Len(h) THEN h[i] ELSE data[i - Len(h)]
  BY <1>1, ConcatProperties
<1> HIDE DEF d
<1>5. /\ m \in Seq(Nat) /\ Len(m) = Len(d) + Len(last)
      /\ \A i \in 1 .. Len(d) + Len(last) : m[i] = IF i <= Len(d) THEN d[i] ELSE last[i - Len(d)]
  <2> DEFINE u == d \o last
  <2>1. d \in Seq(Nat) /\ last \in Seq(Nat)
    BY <1>2, <1>4
  <2>2. /\ u \in Seq(Nat) /\ Len(u) = Len(d) + Len(last)
        /\ \A i \in 1 .. Len(d) + Len(last) : u[i] = IF i <= Len(d) THEN d[i] ELSE last[i - Len(d)]
    BY <2>1, ConcatProperties
  <2> HIDE DEF u
  <2>3. m = u
    BY <1>3 DEF u
  <2>4. QED
    BY <2>2, <2>3
<1>6. Len(data) \in Nat /\ Len(d) \in Nat /\ Len(m) = Len(d) + 1 /\ m # Null
  BY <1>1, <1>2, <1>4, <1>5 DEF Null
<1>7. \A i \in 1 .. Len(d) : m[i] = d[i]
  BY <1>2, <1>5, <1>6
<1>8. m[Len(m)] = cs % 256
  <2>1. Len(m) \in 1 .. Len(d) + Len(last) /\ ~(Len(m) <= Len(d)) /\ Len(m) - Len(d) = 1
    BY <1>2, <1>6
  <2>2. QED
    BY <1>2, <1>5, <2>1
<1>9. ASSUME NEW i \in 1 .. Len(h) PROVE m[i] = h[i]
  <2>1. i \in 1 .. Len(d) /\ i \in 1 .. Len(h) + Len(data) /\ i <= Len(h)
    BY <1>1, <1>4, <1>6
  <2>2. m[i] = d[i]
    BY <1>7, <2>1
  <2>3. d[i] = h[i]
    BY <1>4, <2>1
  <2>4. QED
    BY <2>2, <2>3
<1>10. ASSUME NEW i \in 1 .. Len(data) PROVE m[Len(h) + i] = data[i]
  <2>1. Len(h) + i \in 1 .. Len(h) + Len(data) /\ ~(Len(h) + i <= Len(h)) /\ (Len(h) + i) - Len(h) = i
    BY <1>1, <1>6
  <2>2. QED
    BY <1>4, <1>7, <2>1
<1>11. SubSeq(m, 1, Len(m) - 1) = d
  <2>1. Len(m) - 1 = Len(d)
    BY <1>6
  <2>2. \A i \in 1 .. Len(d) : m[i] \in Nat
    BY <1>5, <1>6
  <2>3. /\ SubSeq(m, 1, Len(d)) \in Seq(Nat)
        /\ Len(SubSeq(m, 1, Len(d))) = IF 1 <= Len(d) THEN Len(d) - 1 + 1 ELSE 0
        /\ \A i \in 1 .. Len(d) - 1 + 1 : SubSeq(m, 1, Len(d))[i] = m[1 + i - 1]
    BY <1>6, <2>2, SubSeqProperties
  <2>4. Len(SubSeq(m, 1, Len(d))) = Len(d)
    BY <1>6, <2>3
  <2>5. \A i \in 1 .. Len(d) : SubSeq(m, 1, Len(d))[i] = d[i]
    <3>1. \A i \in 1 .. Len(d) : 1 + i - 1 = i /\ i \in 1 .. Len(d) - 1 + 1
      BY <1>6
    <3>2. QED
      BY <1>7, <2>3, <3>1
  <2>6. QED
    BY <1>4, <2>1, <2>3, <2>4, <2>5, SeqEqual
<1>12. ConsistsOf(m, h, data, cs)
  BY <1>4, <1>5, <1>6, <1>8, <1>9, <1>10, <1>11 DEF ConsistsOf, d
<1>13. QED
  BY <1>12 DEF m, h

(* What the accessors read from a message put together, and its sum.        *)
Total(bus, mid, data) == bus + mid + SumOf(Length(Len(data))) + SumOf(data)

ReadsAs(m, bus, mid, data, cs) ==
  /\ BusId(m) = bus /\ MessageId(m) = mid
  /\ Checksum(m) = cs % 256
  /\ DataOf(m) = data /\ DataSize(m) = Len(data)
  /\ IsPreamble(m, 0)
  /\ MsgSize(m, 0) = Len(m)
  /\ Len(m) = IF IsExtended(m, 0) THEN ExtHeaderCS + Len(data) ELSE HeaderCS + Len(data)
  /\ IsExtended(m, 0) <=> Len(data) >= ExtLenCode
  /\ ByteSum(m, 2, Len(m) - 1) = Total(bus, mid, data)

LEMMA AccessorsRead ==
  ASSUME NEW bus \in Nat, NEW mid \in Nat, NEW data \in Seq(Nat), NEW cs \in Int
  PROVE  ReadsAs(Assembled(bus, mid, data, cs), bus, mid, data, cs)
<1> DEFINE m == Assembled(bus, mid, data, cs)
           n == Len(data)
           h == HeaderOf(bus, mid, n)
           k == Len(h)
<1>0. n \in Nat
  OBVIOUS
<1>1. /\ m \in Seq(Nat) /\ m # Null
      /\ Len(m) = k + n + 1
      /\ \A i \in 1 .. k : m[i] = h[i]
      /\ \A i \in 1 .. n : m[k + i] = data[i]
      /\ m[Len(m)] = cs % 256
      /\ SubSeq(m, 1, Len(m) - 1) = h \o data
  <2>1. ConsistsOf(m, h, data, cs)
    BY AssembledIs
  <2> HIDE DEF m, h
  <2>2. QED
    BY <2>1 DEF ConsistsOf
<1>2. /\ h \in Seq(Nat)
      /\ k = IF n < ExtLenCode THEN 4 ELSE 6
      /\ h[1] = Preamble /\ h[2] = bus /\ h[3] = mid
      /\ n < ExtLenCode => h[4] = n
      /\ n >= ExtLenCode => h[4] = ExtLenCode /\ 256 * h[5] + h[6] = n
      /\ SumOf(SubSeq(h, 2, k)) = bus + mid + SumOf(Length(n))
  <2>1. Announces(h, bus, mid, n)
    BY <1>0, HeaderIs, Zenon
  <2> HIDE DEF h, n
  <2>2. QED
    BY <2>1 DEF Announces
<1> HIDE DEF m, h, n, k
<1>3. k \in {4, 6}
  BY <1>2
<1>4. m[1] = Preamble /\ m[2] = bus /\ m[3] = mid /\ m[4] = h[4]
  <2>1. 1 \in 1 .. k /\ 2 \in 1 .. k /\ 3 \in 1 .. k /\ 4 \in 1 .. k
    BY <1>3
  <2>2. m[1] = h[1] /\ m[2] = h[2] /\ m[3] = h[3] /\ m[4] = h[4]
    BY <1>1, <2>1
  <2>3. QED
    BY <1>2, <2>2
<1>5. n >= ExtLenCode => m[5] = h[5] /\ m[6] = h[6]
  BY <1>0, <1>1, <1>2 DEF ExtLenCode
<1>6. BusId(m) = bus /\ MessageId(m) = mid /\ Checksum(m) = cs % 256 /\ IsPreamble(m, 0)
  BY <1>1, <1>4 DEF BusId, MessageId, Checksum, IsPreamble, ByteAt
<1>7. IsExtended(m, 0) <=> n >= ExtLenCode
  BY <1>0, <1>2, <1>4 DEF IsExtended, ByteAt, ExtLenCode
<1>9. MsgSize(m, 0) = Len(m)
  <2>1. CASE n >= ExtLenCode
    <3>1. MsgSize(m, 0) = ExtHeaderCS + 256 * m[5] + m[6]
      BY <1>7, <2>1 DEF MsgSize, ByteAt
    <3>9. k = 6
      BY <1>0, <1>2, <2>1 DEF ExtLenCode
    <3>2. 5 \in 1 .. Len(m) /\ 6 \in 1 .. Len(m) /\ k = 6
      BY <1>0, <1>1, <3>9
    <3>3. m[5] \in Nat /\ m[6] \in Nat
      BY <1>1, <3>2, SMTT(30)
    <3>4. 256 * m[5] + m[6] = n
      BY <1>2, <1>5, <2>1
    <3>5. PICK a \in Nat, b \in Nat : a = m[5] /\ b = m[6]
      BY <3>3
    <3>6. MsgSize(m, 0) = 7 + 256 * a + b
      BY <3>1, <3>5 DEF ExtHeaderCS
    <3>7. 256 * a + b = n
      BY <3>4, <3>5
    <3>8. QED
      BY <1>0, <1>1, <3>2, <3>6, <3>7, SMTT(30)
  <2>2. CASE ~(n >= ExtLenCode)
    <3>1. MsgSize(m, 0) = HeaderCS + m[4]
      BY <1>7, <2>2 DEF MsgSize, ByteAt
    <3>2. m[4] = n /\ k = 4
      BY <1>0, <1>2, <1>4, <2>2 DEF ExtLenCode
    <3>3. QED
      BY <1>0, <1>1, <3>1, <3>2 DEF HeaderCS
  <2>3. QED
    BY <2>1, <2>2
<1>10. Len(m) = IF IsExtended(m, 0) THEN ExtHeaderCS + n ELSE HeaderCS + n
  BY <1>0, <1>1, <1>2, <1>7 DEF ExtHeaderCS, HeaderCS, ExtLenCode
<1>11. DataOf(m) = data
  <2>1. DataOf(m) = SubSeq(m, k + 1, Len(m) - 1)
    <3>1. (IF IsExtended(m, 0) THEN 6 ELSE 4) = k
      BY <1>0, <1>2, <1>7 DEF ExtLenCode
    <3>2. QED
      BY <1>1, <3>1, Zenon DEF DataOf
  <2>2. Len(m) - 1 = k + n
    BY <1>0, <1>1, <1>3
  <2>3. \A i \in k + 1 .. k + n : m[i] \in Nat
    BY <1>0, <1>1, <1>3
  <2>4. k + 1 \in Int /\ k + n \in Int
    BY <1>0, <1>3
  <2>5. /\ SubSeq(m, k + 1, k + n) \in Seq(Nat)
        /\ Len(SubSeq(m, k + 1, k + n)) = IF k + 1 <= k + n THEN (k + n) - (k + 1) + 1 ELSE 0
        /\ \A i \in 1 .. (k + n) - (k + 1) + 1 : SubSeq(m, k + 1, k + n)[i] = m[(k + 1) + i - 1]
    <3>1. QED
      BY <2>3, <2>4, SubSeqProperties
  <2> DEFINE s == SubSeq(m, k + 1, k + n)
  <2>6. s \in Seq(Nat) /\ Len(s) = n
    BY <1>0, <1>3, <2>5
  <2>7. ASSUME NEW i \in 1 .. n PROVE s[i] = data[i]
    <3>1. i \in 1 .. (k + n) - (k + 1) + 1 /\ (k + 1) + i - 1 = k + i
      BY <1>0, <1>3
    <3>2. QED
      BY <1>1, <2>5, <3>1
  <2> HIDE DEF s
  <2>8. s = data
    BY <2>6, <2>7, SeqEqual DEF n
  <2>9. QED
    BY <2>1, <2>2, <2>8 DEF s
<1>12. DataSize(m) = n
  BY <1>11 DEF DataSize, n
<1>13. ByteSum(m, 2, Len(m) - 1) = bus + mid + SumOf(Length(n)) + SumOf(data)
  <2> DEFINE t == SubSeq(h, 2, k)
             u == SubSeq(m, 2, Len(m) - 1)
  <2>1. Len(m) - 1 = k + n /\ Len(m) = k + n + 1
    BY <1>0, <1>1, <1>3
  <2>2. m \in Seq(Int) /\ data \in Seq(Int) /\ h \in Seq(Int)
    <3>1. Nat \subseteq Int
      OBVIOUS
    <3>2. m \in Seq(Nat) /\ h \in Seq(Nat)
      BY <1>1, <1>2
    <3>3. m \in Seq(Int)
      BY <3>1, <3>2, SeqMonotonic
    <3>4. h \in Seq(Int)
      BY <3>1, <3>2, SeqMonotonic
    <3>5. data \in Seq(Int)
      BY <3>1, SeqMonotonic
    <3>6. QED
      BY <3>3, <3>4, <3>5
  <2>3. ByteSum(m, 2, Len(m) - 1) = SumOf(u)
    <3>1. 2 \in 1 .. Len(m) + 1 /\ Len(m) - 1 \in 2 - 1 .. Len(m)
      BY <1>0, <1>3, <2>1
    <3>2. QED
      BY <2>2, <3>1, PieceSum
  <2>4. \A i \in 2 .. k : h[i] \in Int
    <3>1. Len(h) = k
      BY DEF k
    <3>2. QED
      BY <1>3, <2>2, <3>1
  <2>5. /\ t \in Seq(Int) /\ Len(t) = IF 2 <= k THEN k - 2 + 1 ELSE 0
        /\ \A i \in 1 .. k - 2 + 1 : t[i] = h[2 + i - 1]
    <3>1. 2 \in Int /\ k \in Int
      BY <1>3
    <3>2. QED
      BY <2>4, <3>1, SubSeqProperties
  <2>6. \A i \in 2 .. k + n : m[i] \in Int
    BY <1>0, <1>3, <2>1, <2>2
  <2>7. /\ u \in Seq(Int) /\ Len(u) = IF 2 <= k + n THEN (k + n) - 2 + 1 ELSE 0
        /\ \A i \in 1 .. (k + n) - 2 + 1 : u[i] = m[2 + i - 1]
    <3>1. 2 \in Int /\ k + n \in Int
      BY <1>0, <1>3
    <3>2. QED
      BY <2>1, <2>6, <3>1, SubSeqProperties
  <2> HIDE DEF t, u
  <2>8. Len(t) = k - 1 /\ Len(u) = k - 1 + n
    BY <1>0, <1>3, <2>5, <2>7
  <2> DEFINE v == t \o data
  <2>9. /\ v \in Seq(Int) /\ Len(v) = Len(t) + Len(data)
        /\ \A i \in 1 .. Len(t) + Len(data) : v[i] = IF i <= Len(t) THEN t[i] ELSE data[i - Len(t)]
    BY <2>2, <2>5, ConcatProperties
  <2> HIDE DEF v
  <2>10. ASSUME NEW i \in 1 .. Len(u) PROVE u[i] = v[i]
    <3>1. i \in 1 .. k - 1 + n /\ u[i] = m[i + 1]
      <4>1. i \in 1 .. (k + n) - 2 + 1 /\ 2 + i - 1 = i + 1 /\ i \in 1 .. k - 1 + n
        BY <1>0, <1>3, <2>8
      <4>2. QED
        BY <2>7, <4>1
    <3>2. CASE i <= k - 1
      <4>1. i \in 1 .. k - 2 + 1 /\ 2 + i - 1 = i + 1 /\ i + 1 \in 1 .. k
        BY <1>3, <3>2
      <4>2. t[i] = h[i + 1] /\ m[i + 1] = h[i + 1]
        BY <1>1, <2>5, <4>1
      <4>3. v[i] = t[i]
        BY <1>0, <1>3, <2>8, <2>9, <3>1, <3>2 DEF n
      <4>4. QED
        BY <3>1, <4>2, <4>3
    <3>3. CASE ~(i <= k - 1)
      <4> DEFINE j == i - (k - 1)
      <4>1. j \in 1 .. n /\ i + 1 = k + j
        BY <1>0, <1>3, <3>1, <3>3
      <4>2. m[i + 1] = data[j]
        <5> HIDE DEF j
        <5>1. QED
          BY <1>1, <4>1
      <4>3. v[i] = data[j]
        BY <1>0, <1>3, <2>8, <2>9, <3>1, <3>3 DEF n
      <4>4. QED
        BY <3>1, <4>2, <4>3
    <3>4. QED
      BY <3>2, <3>3
  <2>11. u = v
    BY <2>7, <2>8, <2>9, <2>10, SeqEqual DEF n
  <2>12. SumOf(v) = SumOf(t) + SumOf(data)
    BY <2>2, <2>5, SumOfConcat DEF v
  <2>13. SumOf(t) = bus + mid + SumOf(Length(n))
    BY <1>2 DEF t
  <2>14. QED
    BY <2>3, <2>11, <2>12, <2>13 DEF u
<1>14. QED
  <2>1. ByteSum(m, 2, Len(m) - 1) = Total(bus, mid, data)
    BY <1>13 DEF Total, n
  <2>2. ReadsAs(m, bus, mid, data, cs)
    BY <1>6, <1>7, <1>9, <1>10, <1>11, <1>12, <2>1 DEF ReadsAs, n
  <2>3. QED
    BY <2>2 DEF m

(* The checksum of a message put together makes its bytes add up to 0.      *)
LEMMA ReadableIs ==
  ASSUME NEW bus \in Nat, NEW mid \in Nat, NEW data \in Seq(Nat), NEW cs \in Int,
         Len(data) <= MaxMsgLen - ExtHeaderCS
  PROVE  /\ Total(bus, mid, data) \in Int
         /\ Readable(Assembled(bus, mid, data, cs)) <=> (cs + Total(bus, mid, data)) % 256 = 0
<1> DEFINE m == Assembled(bus, mid, data, cs)
           sum == Total(bus, mid, data)
<1>0. ReadsAs(m, bus, mid, data, cs)
  BY AccessorsRead
<1>1. /\ BusId(m) = bus /\ MessageId(m) = mid
      /\ Checksum(m) = cs % 256
      /\ DataOf(m) = data /\ DataSize(m) = Len(data)
      /\ IsPreamble(m, 0)
      /\ MsgSize(m, 0) = Len(m)
      /\ Len(m) = IF IsExtended(m, 0) THEN ExtHeaderCS + Len(data) ELSE HeaderCS + Len(data)
      /\ IsExtended(m, 0) <=> Len(data) >= ExtLenCode
      /\ ByteSum(m, 2, Len(m) - 1) = sum
  BY <1>0 DEF ReadsAs
<1>2. m # Null
  BY AssembledIs DEF ConsistsOf
<1>3. sum \in Int
  <2>1. Length(Len(data)) \in Seq(Nat)
    <3>1. Len(data) \in Nat
      OBVIOUS
    <3>2. QED
      BY <3>1, LengthIs
  <2>2. Nat \subseteq Int
    OBVIOUS
  <2>3. Length(Len(data)) \in Seq(Int) /\ data \in Seq(Int)
    <3>1. Length(Len(data)) \in Seq(Int)
      BY <2>1, <2>2, SeqMonotonic
    <3>2. data \in Seq(Int)
      BY <2>2, SeqMonotonic
    <3>3. QED
      BY <3>1, <3>2
  <2>4. SumOf(Length(Len(data))) \in Int /\ SumOf(data) \in Int
    BY <2>3, SumOfType
  <2>5. QED
    BY <2>4 DEF Total
<1>4. Len(data) \in Nat
  OBVIOUS
<1> HIDE DEF m, sum
<1>5. ChecksumOk(m, 0) <=> cs % 256 = (-sum) % 256
  <2>1. Len(m) \in Int
    BY <1>1, <1>4 DEF ExtHeaderCS, HeaderCS
  <2>2. 0 + MsgSize(m, 0) - 1 + 1 = Len(m) /\ 0 + MsgSize(m, 0) - 1 = Len(m) - 1 /\ 0 + 2 = 2
    BY <1>1, <2>1
  <2>3. m[Len(m)] = cs % 256
    BY <1>1 DEF Checksum
  <2>4. ComputeChecksum(m, 0) = (-sum) % 256
    BY <1>1, <2>2, Zenon DEF ComputeChecksum
  <2>5. QED
    BY <2>2, <2>3, <2>4, Zenon DEF ChecksumOk, ByteAt
<1>6. ~HeaderCut(m, 0, Len(m)) /\ 0 < Len(m) /\ MsgSize(m, 0) <= MaxMsgLen /\ MsgSize(m, 0) <= Len(m) - 0
  BY <1>1, <1>4 DEF HeaderCut, ExtHeaderCS, HeaderCS, MaxMsgLen, ExtLenCode
<1>7. Readable(m) <=> ChecksumOk(m, 0)
  BY <1>1, <1>2, <1>6 DEF Readable, Acceptable
<1>8. \A a, b \in Int : (a % 256 = (-b) % 256) <=> (a + b) % 256 = 0
  OBVIOUS
<1>9. Readable(m) <=> (cs + sum) % 256 = 0
  BY <1>3, <1>5, <1>7, <1>8
<1>10. QED
  BY <1>3, <1>9 DEF m, sum

(* A sequence cut into three.                                               *)
Pieces(S, s, a, b) ==
  LET x == SubSeq(s, 1, a)
      y == SubSeq(s, a + 1, b)
      z == SubSeq(s, b + 1, Len(s))
  IN /\ x \in Seq(S) /\ y \in Seq(S) /\ z \in Seq(S)
     /\ Len(x) = a /\ Len(y) = b - a /\ Len(z) = Len(s) - b
     /\ x \o y = SubSeq(s, 1, b)
     /\ (x \o y) \o z = s

LEMMA ThreePieces ==
  ASSUME NEW S, NEW s \in Seq(S), NEW a \in 0 .. Len(s), NEW b \in a .. Len(s)
  PROVE  Pieces(S, s, a, b)
<1> DEFINE x == SubSeq(s, 1, a)
           y == SubSeq(s, a + 1, b)
           z == SubSeq(s, b + 1, Len(s))
<1>1. Len(s) \in Nat /\ a \in Nat /\ b \in Nat /\ a <= b /\ b <= Len(s)
  OBVIOUS
<1>2. \A i \in 1 .. Len(s) : s[i] \in S
  OBVIOUS
<1>3. x \in Seq(S) /\ Len(x) = a
  <2>1. \A i \in 1 .. a : s[i] \in S
    BY <1>1, <1>2
  <2>2. x \in Seq(S) /\ Len(x) = IF 1 <= a THEN a - 1 + 1 ELSE 0
    BY <1>1, <2>1, SubSeqProperties
  <2> HIDE DEF x
  <2>3. QED
    BY <1>1, <2>2
<1>4. y \in Seq(S) /\ Len(y) = b - a
  <2>1. \A i \in a + 1 .. b : s[i] \in S
    BY <1>1, <1>2
  <2>2. a + 1 \in Int /\ b \in Int
    BY <1>1
  <2>3. y \in Seq(S) /\ Len(y) = IF a + 1 <= b THEN b - (a + 1) + 1 ELSE 0
    BY <2>1, <2>2, SubSeqProperties
  <2> HIDE DEF y
  <2>4. QED
    BY <1>1, <2>3
<1>5. z \in Seq(S) /\ Len(z) = Len(s) - b
  <2>1. \A i \in b + 1 .. Len(s) : s[i] \in S
    BY <1>1, <1>2
  <2>2. b + 1 \in Int /\ Len(s) \in Int
    BY <1>1
  <2>3. z \in Seq(S) /\ Len(z) = IF b + 1 <= Len(s) THEN Len(s) - (b + 1) + 1 ELSE 0
    BY <2>1, <2>2, SubSeqProperties
  <2> HIDE DEF z
  <2>4. QED
    BY <1>1, <2>3
<1>6. x \o y = SubSeq(s, 1, b)
  <2>1. 1 \in 1 .. Len(s) + 1 /\ a \in 1 - 1 .. Len(s) /\ b \in a .. Len(s)
    BY <1>1
  <2>2. QED
    BY <2>1, ConcatAdjacentSubSeq
<1>7. SubSeq(s, 1, b) \o z = SubSeq(s, 1, Len(s))
  <2>1. 1 \in 1 .. Len(s) + 1 /\ b \in 1 - 1 .. Len(s) /\ Len(s) \in b .. Len(s)
    BY <1>1
  <2>2. QED
    BY <2>1, ConcatAdjacentSubSeq
<1>8. SubSeq(s, 1, Len(s)) = s
  BY SubSeqFull
<1>9. (x \o y) \o z = s
  BY <1>6, <1>7, <1>8
<1>10. QED
  BY <1>3, <1>4, <1>5, <1>6, <1>9 DEF Pieces

(* Every message is one put together from its ids, its data and a checksum. *)
IsMessage(m) ==
  \/ m = Null
  \/ \E bus \in Bytes, mid \in Bytes, data \in Seq(Bytes), c \in Int :
       /\ Len(data) <= MaxData
       /\ m = Assembled(bus, mid, data, c)

LEMMA ByteFacts ==
  /\ Bytes \subseteq Nat /\ Bytes \subseteq Int
  /\ \A s \in Seq(Bytes) : s \in Seq(Nat) /\ s \in Seq(Int) /\ Len(s) \in Nat
  /\ \A n \in Nat : Zeros(n) \in Seq(Bytes)
<1>1. Bytes \subseteq Nat /\ Bytes \subseteq Int
  BY DEF Bytes
<1>2. ASSUME NEW s \in Seq(Bytes) PROVE s \in Seq(Nat) /\ s \in Seq(Int) /\ Len(s) \in Nat
  <2>1. s \in Seq(Nat)
    BY <1>1, SeqMonotonic
  <2>2. s \in Seq(Int)
    BY <1>1, SeqMonotonic
  <2>3. QED
    BY <2>1, <2>2
<1>3. ASSUME NEW n \in Nat PROVE Zeros(n) \in Seq(Bytes)
  <2>1. 0 \in Bytes
    BY DEF Bytes
  <2>2. QED
    BY <2>1 DEF Zeros
<1>4. QED
  BY <1>1, <1>2, <1>3

LEMMA MakesMessage ==
  ASSUME NEW bus \in Bytes, NEW mid \in Bytes, NEW data \in Seq(Bytes), NEW cs \in Int,
         Len(data) <= MaxData
  PROVE  IsMessage(Assembled(bus, mid, data, cs))
BY DEF IsMessage

LEMMA MessageReads ==
  ASSUME NEW bus \in Bytes, NEW mid \in Bytes, NEW data \in Seq(Bytes), NEW cs \in Int
  PROVE  /\ ReadsAs(Assembled(bus, mid, data, cs), bus, mid, data, cs)
         /\ Assembled(bus, mid, data, cs) # Null
<1>1. bus \in Nat /\ mid \in Nat /\ data \in Seq(Nat)
  BY ByteFacts
<1>2. ReadsAs(Assembled(bus, mid, data, cs), bus, mid, data, cs)
  BY <1>1, AccessorsRead
<1>3. Assembled(bus, mid, data, cs) # Null
  BY <1>1, AssembledIs DEF ConsistsOf
<1>4. QED
  BY <1>2, <1>3

Balanced(c, total) == (c + total) % 256 = 0

LEMMA MessageReadable ==
  ASSUME NEW bus \in Bytes, NEW mid \in Bytes, NEW data \in Seq(Bytes), NEW cs \in Int,
         Len(data) <= MaxData
  PROVE  /\ Total(bus, mid, data) \in Int
         /\ Readable(Assembled(bus, mid, data, cs)) <=> Balanced(cs, Total(bus, mid, data))
<1>1. bus \in Nat /\ mid \in Nat /\ data \in Seq(Nat) /\ Len(data) \in Nat
  BY ByteFacts
<1>2. Len(data) <= MaxMsgLen - ExtHeaderCS
  <2> DEFINE K == MaxMsgLen - ExtHeaderCS
  <2>1. MaxData \in 0 .. K
    BY MessageAssumption
  <2>2. K \in Int
    BY DEF MaxMsgLen, ExtHeaderCS
  <2> HIDE DEF K
  <2>3. Len(data) <= K
    BY <1>1, <2>1, <2>2
  <2>4. QED
    BY <2>3 DEF K
<1>3. QED
  BY <1>1, <1>2, ReadableIs DEF Balanced

(* A checksum that adds up to the same sum keeps a message readable.        *)
LEMMA KeepsReadable ==
  ASSUME NEW bus1 \in Bytes, NEW mid1 \in Bytes, NEW data1 \in Seq(Bytes), NEW c1 \in Int,
         NEW bus2 \in Bytes, NEW mid2 \in Bytes, NEW data2 \in Seq(Bytes), NEW c2 \in Int,
         Len(data1) <= MaxData, Len(data2) <= MaxData,
         c2 + Total(bus2, mid2, data2) = (c1 % 256) + Total(bus1, mid1, data1),
         Readable(Assembled(bus1, mid1, data1, c1))
  PROVE  Readable(Assembled(bus2, mid2, data2, c2))
<1>1. Balanced(c1, Total(bus1, mid1, data1)) /\ Total(bus1, mid1, data1) \in Int
  BY MessageReadable
<1>2. \A a, b \in Int : (a + b) % 256 = ((a % 256) + b) % 256
  OBVIOUS
<1>3. ((c1 % 256) + Total(bus1, mid1, data1)) % 256 = 0
  BY <1>1, <1>2, SMTT(30) DEF Balanced
<1>4. Balanced(c2, Total(bus2, mid2, data2))
  BY <1>3 DEF Balanced
<1>5. QED
  BY <1>4, MessageReadable

LEMMA SizedIs ==
  ASSUME NEW n \in 0 .. MaxData
  PROVE  /\ Master \in Bytes /\ 0 \in Bytes /\ Zeros(n) \in Seq(Bytes) /\ Len(Zeros(n)) = n
         /\ SizedChecksum(n) \in Int
         /\ ConstructSized(n) = Assembled(Master, 0, Zeros(n), SizedChecksum(n))
         /\ IsMessage(ConstructSized(n)) /\ Readable(ConstructSized(n))
<1>1. n \in Nat /\ n <= MaxData
  BY MessageAssumption
<1>2. /\ Master \in Bytes /\ 0 \in Bytes /\ Zeros(n) \in Seq(Bytes) /\ Len(Zeros(n)) = n
      /\ SumOf(Zeros(n)) = 0
  BY <1>1, ByteFacts, SumOfZeros DEF Bytes, Master
<1>3. SumOf(Length(n)) \in Int
  <2>1. Length(n) \in Seq(Nat)
    BY <1>1, LengthIs
  <2>2. Nat \subseteq Int
    OBVIOUS
  <2>3. Length(n) \in Seq(Int)
    BY <2>1, <2>2, SeqMonotonic
  <2>4. QED
    BY <2>3, SumOfType
<1>4. SizedChecksum(n) \in Int
  BY <1>3 DEF SizedChecksum, Master
<1>5. ConstructSized(n) = Assembled(Master, 0, Zeros(n), SizedChecksum(n))
  BY DEF ConstructSized
<1>6. SizedChecksum(n) + Total(Master, 0, Zeros(n)) = 0
  BY <1>2, <1>3 DEF SizedChecksum, Total, Master
<1>7. Balanced(SizedChecksum(n), Total(Master, 0, Zeros(n)))
  BY <1>6 DEF Balanced
<1>8. Readable(ConstructSized(n))
  BY <1>1, <1>2, <1>4, <1>5, <1>7, MessageReadable
<1>9. IsMessage(ConstructSized(n))
  BY <1>1, <1>2, <1>4, <1>5, MakesMessage
<1>10. QED
  BY <1>2, <1>4, <1>5, <1>8, <1>9

\* What resizeData keeps of the data, filled up with 0.
Fitted(data, n) ==
  LET kept == SubSeq(data, 1, IF n < Len(data) THEN n ELSE Len(data))
  IN kept \o Zeros(n - Len(kept))

(* A message brought to another size.                                       *)
LEMMA ResizedTo ==
  ASSUME NEW bus \in Bytes, NEW mid \in Bytes, NEW data \in Seq(Bytes), NEW c \in Int,
         NEW n \in Nat, n # Len(data)
  PROVE  /\ Fitted(data, n) \in Seq(Bytes) /\ Len(Fitted(data, n)) = n
         /\ \E cs \in Int :
              /\ Resized(Assembled(bus, mid, data, c), n) = Assembled(bus, mid, Fitted(data, n), cs)
              /\ cs + Total(bus, mid, Fitted(data, n)) = 0
<1> DEFINE m == Assembled(bus, mid, data, c)
           k == IF n < Len(data) THEN n ELSE Len(data)
           kept == SubSeq(data, 1, k)
           fill == Zeros(n - Len(kept))
           cs == SizedChecksum(n) + Master - (bus + mid) - SumOf(kept)
<1>1. n \in Nat /\ Len(data) \in Nat /\ k \in 0 .. Len(data) /\ k <= n
  OBVIOUS
<1>2. kept \in Seq(Bytes) /\ Len(kept) = k
  <2> HIDE DEF k
  <2>1. Len(data) \in k .. Len(data)
    BY <1>1
  <2>2. QED
    BY <1>1, <2>1, ThreePieces DEF Pieces
<1>3. n - Len(kept) \in Nat /\ Len(kept) \in Nat
  BY <1>1, <1>2
<1>4. fill \in Seq(Bytes) /\ Len(fill) = n - Len(kept) /\ SumOf(fill) = 0
  BY <1>3, ByteFacts, SumOfZeros
<1>5. Fitted(data, n) = kept \o fill
  BY DEF Fitted
<1>6. ReadsAs(m, bus, mid, data, c) /\ m # Null
  BY MessageReads
<1>7. Resized(m, n) = Assembled(bus, mid, kept \o fill, cs)
  <2>1. BusId(m) = bus /\ MessageId(m) = mid /\ DataOf(m) = data /\ DataSize(m) = Len(data)
    BY <1>6 DEF ReadsAs
  <2> HIDE DEF m
  <2>2. QED
    BY <1>6, <2>1, Zenon DEF Resized
<1> HIDE DEF m, k, fill
<1>8. kept \o fill \in Seq(Bytes) /\ Len(kept \o fill) = n
  <2>1. kept \o fill \in Seq(Bytes) /\ Len(kept \o fill) = Len(kept) + Len(fill)
    BY <1>2, <1>4, ConcatProperties
  <2>2. QED
    BY <1>1, <1>2, <1>3, <1>4, <2>1
<1>9. SumOf(kept) \in Int /\ SumOf(kept \o fill) = SumOf(kept)
  <2>1. kept \in Seq(Int) /\ fill \in Seq(Int)
    BY <1>2, <1>4, ByteFacts
  <2>2. SumOf(kept) \in Int /\ SumOf(kept \o fill) = SumOf(kept) + SumOf(fill)
    BY <2>1, SumOfConcat, SumOfType
  <2>3. QED
    BY <1>4, <2>2
<1> HIDE DEF kept
<1>10. SumOf(Length(n)) \in Int
  <2>1. Length(n) \in Seq(Nat)
    BY <1>1, LengthIs
  <2>2. Nat \subseteq Int
    OBVIOUS
  <2>3. Length(n) \in Seq(Int)
    BY <2>1, <2>2, SeqMonotonic
  <2>4. QED
    BY <2>3, SumOfType
<1>11. bus \in Int /\ mid \in Int
  BY ByteFacts
<1>12. cs \in Int
  BY <1>9, <1>10, <1>11 DEF SizedChecksum, Master
<1>13. cs + Total(bus, mid, kept \o fill) = 0
  <2>1. Total(bus, mid, kept \o fill) = bus + mid + SumOf(Length(n)) + SumOf(kept)
    BY <1>8, <1>9 DEF Total
  <2>2. QED
    BY <1>9, <1>10, <1>11, <2>1 DEF SizedChecksum, Master
<1> HIDE DEF cs
<1>14. QED
  BY <1>5, <1>7, <1>8, <1>12, <1>13 DEF m

LEMMA RefittedIs ==
  ASSUME NEW bus \in Bytes, NEW mid \in Bytes, NEW data \in Seq(Bytes), NEW c \in Int,
         NEW n \in 0 .. MaxData, n # Len(data)
  PROVE  /\ Fitted(data, n) \in Seq(Bytes) /\ Len(Fitted(data, n)) = n
         /\ \E cs \in Int :
              /\ Resized(Assembled(bus, mid, data, c), n) = Assembled(bus, mid, Fitted(data, n), cs)
              /\ Readable(Assembled(bus, mid, Fitted(data, n), cs))
<1>1. n \in Nat /\ n <= MaxData
  BY MessageAssumption
<1>2. Fitted(data, n) \in Seq(Bytes) /\ Len(Fitted(data, n)) = n
  BY <1>1, ResizedTo
<1>3. PICK cs \in Int :
        /\ Resized(Assembled(bus, mid, data, c), n) = Assembled(bus, mid, Fitted(data, n), cs)
        /\ cs + Total(bus, mid, Fitted(data, n)) = 0
  BY <1>1, ResizedTo
<1>4. Balanced(cs, Total(bus, mid, Fitted(data, n)))
  BY <1>3 DEF Balanced
<1>5. Readable(Assembled(bus, mid, Fitted(data, n), cs))
  BY <1>1, <1>2, <1>4, MessageReadable
<1>6. QED
  BY <1>2, <1>3, <1>5

LEMMA ResizedIs ==
  ASSUME NEW m, IsMessage(m), NEW n \in 0 .. MaxData
  PROVE  /\ IsMessage(Resized(m, n))
         /\ Readable(m) => Readable(Resized(m, n))
         /\ n # 0 => Resized(m, n) # Null
<1>1. CASE DataSize(m) = n
  <2>1. Resized(m, n) = m
    BY <1>1, Zenon DEF Resized
  <2>2. DataSize(Null) = 0
    BY DEF DataSize, DataOf, Null
  <2>3. QED
    BY <1>1, <2>1, <2>2
<1>2. CASE DataSize(m) # n /\ m = Null
  <2>1. Resized(m, n) = ConstructSized(n)
    BY <1>2, Zenon DEF Resized
  <2>2. n \in Nat
    OBVIOUS
  <2>3. ConstructSized(n) = Assembled(Master, 0, Zeros(n), SizedChecksum(n)) /\ Master \in Bytes
        /\ 0 \in Bytes /\ Zeros(n) \in Seq(Bytes) /\ SizedChecksum(n) \in Int
    BY SizedIs
  <2>4. ConstructSized(n) # Null
    BY <2>3, MessageReads
  <2>5. QED
    BY <2>1, <2>4, SizedIs
<1>3. CASE DataSize(m) # n /\ m # Null
  <2>1. PICK bus \in Bytes, mid \in Bytes, data \in Seq(Bytes), c \in Int :
          Len(data) <= MaxData /\ m = Assembled(bus, mid, data, c)
    BY <1>3 DEF IsMessage
  <2>2. c \in Int
    BY ByteFacts
  <2>3. n # Len(data)
    <3>1. ReadsAs(m, bus, mid, data, c)
      BY <2>1, <2>2, MessageReads
    <3>2. QED
      BY <1>3, <3>1 DEF ReadsAs
  <2>4. PICK cs \in Int : /\ Resized(m, n) = Assembled(bus, mid, Fitted(data, n), cs)
                          /\ Readable(Assembled(bus, mid, Fitted(data, n), cs))
    BY <2>1, <2>2, <2>3, RefittedIs
  <2>5. Fitted(data, n) \in Seq(Bytes) /\ Len(Fitted(data, n)) = n
    BY <2>1, <2>2, <2>3, RefittedIs
  <2>6. Len(Fitted(data, n)) <= MaxData
    BY <2>5, MessageAssumption
  <2>7. IsMessage(Resized(m, n)) /\ Resized(m, n) # Null
    BY <2>4, <2>5, <2>6, MakesMessage, MessageReads
  <2>8. QED
    BY <2>4, <2>7
<1>4. QED
  BY <1>1, <1>2, <1>3

LEMMA SizeType ==
  ASSUME NEW m, IsMessage(m)
  PROVE  DataSize(m) \in Nat
<1>1. CASE m = Null
  BY <1>1 DEF DataSize, DataOf, Null
<1>2. CASE m # Null
  <2>1. PICK bus \in Bytes, mid \in Bytes, data \in Seq(Bytes), c \in Int :
          m = Assembled(bus, mid, data, c)
    BY <1>2 DEF IsMessage
  <2>2. c \in Int /\ Len(data) \in Nat
    BY ByteFacts
  <2>3. ReadsAs(m, bus, mid, data, c)
    BY <2>1, <2>2, MessageReads
  <2>4. QED
    BY <2>2, <2>3 DEF ReadsAs
<1>3. QED
  BY <1>1, <1>2

LEMMA ResizedSize ==
  ASSUME NEW m, IsMessage(m), NEW n \in 0 .. MaxData
  PROVE  DataSize(Resized(m, n)) = n
<1>1. CASE DataSize(m) = n
  <2>1. Resized(m, n) = m
    BY <1>1, Zenon DEF Resized
  <2>2. QED
    BY <1>1, <2>1
<1>2. CASE DataSize(m) # n /\ m = Null
  <2>1. Resized(m, n) = ConstructSized(n)
    BY <1>2, Zenon DEF Resized
  <2>2. /\ Master \in Bytes /\ 0 \in Bytes /\ Zeros(n) \in Seq(Bytes) /\ Len(Zeros(n)) = n
        /\ SizedChecksum(n) \in Int
        /\ ConstructSized(n) = Assembled(Master, 0, Zeros(n), SizedChecksum(n))
    BY SizedIs
  <2>3. ReadsAs(ConstructSized(n), Master, 0, Zeros(n), SizedChecksum(n))
    BY <2>2, MessageReads
  <2>4. QED
    BY <2>1, <2>2, <2>3 DEF ReadsAs
<1>3. CASE DataSize(m) # n /\ m # Null
  <2>1. PICK bus \in Bytes, mid \in Bytes, data \in Seq(Bytes), c \in Int :
          Len(data) <= MaxData /\ m = Assembled(bus, mid, data, c)
    BY <1>3 DEF IsMessage
  <2>2. c \in Int
    BY ByteFacts
  <2>3. n # Len(data)
    <3>1. ReadsAs(m, bus, mid, data, c)
      BY <2>1, <2>2, MessageReads
    <3>2. QED
      BY <1>3, <3>1 DEF ReadsAs
  <2>4. PICK cs \in Int : Resized(m, n) = Assembled(bus, mid, Fitted(data, n), cs)
    BY <2>1, <2>2, <2>3, RefittedIs
  <2>5. Fitted(data, n) \in Seq(Bytes) /\ Len(Fitted(data, n)) = n
    BY <2>1, <2>2, <2>3, RefittedIs
  <2>6. ReadsAs(Resized(m, n), bus, mid, Fitted(data, n), cs)
    BY <2>4, <2>5, MessageReads
  <2>7. QED
    BY <2>5, <2>6 DEF ReadsAs
<1>4. QED
  BY <1>1, <1>2, <1>3

LEMMA ConstructedIs ==
  ASSUME NEW m, IsMessage(m)
  PROVE  /\ IsMessage(Constructed(m)) /\ Constructed(m) # Null
         /\ Readable(m) => Readable(Constructed(m))
<1>1. CASE m = Null
  <2>1. 0 \in 0 .. MaxData
    BY MessageAssumption
  <2>2. Constructed(m) = ConstructSized(0)
    BY <1>1 DEF Constructed
  <2>3. IsMessage(ConstructSized(0)) /\ Readable(ConstructSized(0))
    BY <2>1, SizedIs
  <2>4. ConstructSized(0) = Assembled(Master, 0, Zeros(0), SizedChecksum(0)) /\ Master \in Bytes
        /\ 0 \in Bytes /\ Zeros(0) \in Seq(Bytes) /\ SizedChecksum(0) \in Int
    BY <2>1, SizedIs
  <2>5. ConstructSized(0) # Null
    BY <2>4, MessageReads
  <2>6. QED
    BY <2>2, <2>3, <2>5
<1>2. CASE m # Null
  BY <1>2 DEF Constructed
<1>3. QED
  BY <1>1, <1>2

(* The setters.                                                             *)
LEMMA IdsSet ==
  ASSUME NEW m, IsMessage(m), NEW id \in Bytes
  PROVE  LET n == Constructed(m)
             b == Assembled(id, MessageId(n), DataOf(n), Checksum(n) + BusId(n) - id)
             i == Assembled(BusId(n), id, DataOf(n), Checksum(n) + MessageId(n) - id)
         IN /\ IsMessage(b) /\ IsMessage(i)
            /\ Readable(m) => Readable(b) /\ Readable(i)
<1> DEFINE n == Constructed(m)
<1>1. IsMessage(n) /\ n # Null /\ (Readable(m) => Readable(n))
  BY ConstructedIs
<1> HIDE DEF n
<1>2. PICK bus \in Bytes, mid \in Bytes, data \in Seq(Bytes), c \in Int :
        Len(data) <= MaxData /\ n = Assembled(bus, mid, data, c)
  BY <1>1 DEF IsMessage
<1>3. c \in Int /\ bus \in Int /\ mid \in Int /\ id \in Int /\ c % 256 \in Int
  BY ByteFacts
<1>4. ReadsAs(n, bus, mid, data, c)
  BY <1>2, <1>3, MessageReads
<1>5. BusId(n) = bus /\ MessageId(n) = mid /\ DataOf(n) = data /\ Checksum(n) = c % 256
  BY <1>4 DEF ReadsAs
<1> DEFINE cb == (c % 256) + bus - id
           ci == (c % 256) + mid - id
<1>6. cb \in Int /\ ci \in Int
  BY <1>3
<1>7. IsMessage(Assembled(id, mid, data, cb)) /\ IsMessage(Assembled(bus, id, data, ci))
  <2> HIDE DEF cb, ci
  <2>1. QED
    BY <1>2, <1>6, MakesMessage
<1>8. ASSUME Readable(m) PROVE Readable(Assembled(id, mid, data, cb)) /\ Readable(Assembled(bus, id, data, ci))
  <2>1. Readable(Assembled(bus, mid, data, c))
    BY <1>1, <1>2, <1>8
  <2>3. SumOf(Length(Len(data))) \in Int /\ SumOf(data) \in Int
    <3>1. data \in Seq(Int) /\ Len(data) \in Nat
      BY ByteFacts
    <3>2. Length(Len(data)) \in Seq(Nat) /\ Nat \subseteq Int
      BY <3>1, LengthIs
    <3>3. Length(Len(data)) \in Seq(Int)
      BY <3>2, SeqMonotonic
    <3>4. QED
      BY <3>1, <3>3, SumOfType
  <2>4. cb + Total(id, mid, data) = (c % 256) + Total(bus, mid, data)
    BY <1>3, <2>3 DEF Total
  <2>5. ci + Total(bus, id, data) = (c % 256) + Total(bus, mid, data)
    BY <1>3, <2>3 DEF Total
  <2> HIDE DEF cb, ci
  <2>6. Readable(Assembled(id, mid, data, cb))
    BY <1>2, <1>3, <1>6, <2>1, <2>4, KeepsReadable, SMTT(30)
  <2>7. Readable(Assembled(bus, id, data, ci))
    <3>1. Len(data) <= MaxData /\ c \in Int /\ ci \in Int
      BY <1>2, <1>3, <1>6
    <3>2. QED
      BY <2>1, <2>5, <3>1, KeepsReadable
  <2>8. QED
    BY <2>6, <2>7
<1>9. QED
  BY <1>5, <1>7, <1>8 DEF n

LEMMA SumTypes ==
  ASSUME NEW data \in Seq(Bytes)
  PROVE  SumOf(data) \in Int /\ SumOf(Length(Len(data))) \in Int
<1>1. data \in Seq(Int) /\ Len(data) \in Nat
  BY ByteFacts
<1>2. Length(Len(data)) \in Seq(Nat) /\ Nat \subseteq Int
  BY <1>1, LengthIs
<1>3. Length(Len(data)) \in Seq(Int)
  BY <1>2, SeqMonotonic
<1>4. QED
  BY <1>1, <1>3, SumOfType

(* Data laid over the data of a message.                                    *)
Overlaid(bus, mid, old, c, values, o) ==
  LET end  == o + Len(values)
  IN Assembled(bus, mid, (SubSeq(old, 1, o) \o values) \o SubSeq(old, end + 1, Len(old)),
               (c % 256) + SumOf(SubSeq(old, o + 1, end)) - SumOf(values))

LEMMA OverlaidIs ==
  ASSUME NEW bus \in Bytes, NEW mid \in Bytes, NEW old \in Seq(Bytes), NEW c \in Int,
         Len(old) <= MaxData, NEW values \in Seq(Bytes), NEW o \in Nat, o + Len(values) <= Len(old)
  PROVE  /\ IsMessage(Overlaid(bus, mid, old, c, values, o))
         /\ Readable(Assembled(bus, mid, old, c)) => Readable(Overlaid(bus, mid, old, c, values, o))
<1> DEFINE end  == o + Len(values)
           x == SubSeq(old, 1, o)
           y == SubSeq(old, o + 1, end)
           z == SubSeq(old, end + 1, Len(old))
           data == (x \o values) \o z
           cs   == (c % 256) + SumOf(y) - SumOf(values)
<1>1. Len(old) \in Nat /\ Len(values) \in Nat
  BY ByteFacts
<1>2. o \in 0 .. Len(old) /\ end \in o .. Len(old) /\ end \in Nat
  BY <1>1
<1>3. /\ x \in Seq(Bytes) /\ y \in Seq(Bytes) /\ z \in Seq(Bytes)
      /\ Len(x) = o /\ Len(y) = end - o /\ Len(z) = Len(old) - end
      /\ (x \o y) \o z = old
  <2> HIDE DEF end
  <2>1. Pieces(Bytes, old, o, end)
    BY <1>2, ThreePieces
  <2>2. QED
    BY <2>1 DEF Pieces
<1>4. end - o = Len(values)
  BY <1>1
<1> HIDE DEF end, x, y, z
<1>5. x \o values \in Seq(Bytes) /\ Len(x \o values) = o + Len(values)
  <2>0. x \in Seq(Bytes)
    BY <1>3
  <2>1. x \o values \in Seq(Bytes) /\ Len(x \o values) = Len(x) + Len(values)
    BY <2>0, ConcatProperties
  <2>2. QED
    BY <1>3, <2>1
<1>6. data \in Seq(Bytes) /\ Len(data) = Len(old)
  <2> DEFINE v == x \o values
  <2>0. v \in Seq(Bytes) /\ Len(v) = o + Len(values)
    BY <1>5
  <2> HIDE DEF v
  <2>1. v \o z \in Seq(Bytes) /\ Len(v \o z) = Len(v) + Len(z)
    <3>1. v \in Seq(Bytes) /\ z \in Seq(Bytes)
      BY <1>3, <2>0
    <3>2. QED
      BY <3>1, ConcatProperties
  <2>3. data = v \o z
    BY DEF v
  <2> HIDE DEF data
  <2>2. QED
    BY <2>0, <2>3, <1>1, <1>2, <1>3, <1>4, <1>5, <2>1
<1>7. SumOf(old) = SumOf(x) + SumOf(y) + SumOf(z)
  <2>1. x \in Seq(Int) /\ y \in Seq(Int) /\ z \in Seq(Int)
    BY <1>3, ByteFacts
  <2>2. x \o y \in Seq(Int) /\ SumOf(x \o y) = SumOf(x) + SumOf(y)
    BY <2>1, SumOfConcat, ConcatProperties
  <2>3. SumOf((x \o y) \o z) = SumOf(x \o y) + SumOf(z)
    BY <2>1, <2>2, SumOfConcat
  <2>4. QED
    BY <1>3, <2>2, <2>3
<1>8. SumOf(data) = SumOf(x) + SumOf(values) + SumOf(z)
  <2>1. x \in Seq(Int) /\ values \in Seq(Int) /\ z \in Seq(Int)
    BY <1>3, ByteFacts
  <2>2. x \o values \in Seq(Int) /\ SumOf(x \o values) = SumOf(x) + SumOf(values)
    BY <2>1, SumOfConcat, ConcatProperties
  <2>3. SumOf((x \o values) \o z) = SumOf(x \o values) + SumOf(z)
    BY <2>1, <2>2, SumOfConcat
  <2>4. QED
    BY <2>2, <2>3
<1>9. /\ SumOf(x) \in Int /\ SumOf(y) \in Int /\ SumOf(z) \in Int /\ SumOf(values) \in Int
      /\ SumOf(old) \in Int /\ SumOf(Length(Len(old))) \in Int /\ c % 256 \in Int
      /\ bus \in Int /\ mid \in Int
  BY <1>3, SumTypes, ByteFacts
<1>10. cs \in Int
  BY <1>9
<1>11. cs + Total(bus, mid, data) = (c % 256) + Total(bus, mid, old)
  <2>1. Total(bus, mid, data) = bus + mid + SumOf(Length(Len(old))) + SumOf(data)
    BY <1>6 DEF Total
  <2>2. Total(bus, mid, old) = bus + mid + SumOf(Length(Len(old))) + SumOf(old)
    BY DEF Total
  <2> HIDE DEF data
  <2> DEFINE sx == SumOf(x)
             sy == SumOf(y)
             sz == SumOf(z)
             sv == SumOf(values)
             sl == SumOf(Length(Len(old)))
             cc == c % 256
  <2>3. sx \in Int /\ sy \in Int /\ sz \in Int /\ sv \in Int /\ sl \in Int /\ cc \in Int
    BY <1>9
  <2>4. Total(bus, mid, data) = bus + mid + sl + (sx + sv + sz)
    BY <1>8, <2>1
  <2>5. Total(bus, mid, old) = bus + mid + sl + (sx + sy + sz)
    BY <1>7, <2>2
  <2>6. cs = cc + sy - sv
    OBVIOUS
  <2> HIDE DEF sx, sy, sz, sv, sl, cs
  <2>7. cs + Total(bus, mid, data) = cc + Total(bus, mid, old)
    <3> HIDE DEF cc
    <3>1. QED
      BY <1>9, <2>3, <2>4, <2>5, <2>6
  <2>8. QED
    BY <2>7
<1> HIDE DEF data, cs
<1>12. Len(data) <= MaxData
  BY <1>6
<1>13. IsMessage(Assembled(bus, mid, data, cs))
  BY <1>6, <1>10, <1>12, MakesMessage
<1>14. Readable(Assembled(bus, mid, old, c)) => Readable(Assembled(bus, mid, data, cs))
  BY <1>6, <1>10, <1>11, <1>12, KeepsReadable
<1>15. QED
  BY <1>13, <1>14 DEF data, cs, x, y, z, end, Overlaid

LEMMA WrittenIs ==
  ASSUME NEW m, IsMessage(m), NEW values \in Values, NEW o \in Offsets, o + Len(values) <= MaxData
  PROVE  /\ IsMessage(Written(m, values, o))
         /\ Readable(m) => Readable(Written(m, values, o))
<1> DEFINE end == o + Len(values)
           r == IF DataSize(m) < end THEN Resized(m, end) ELSE m
<1>1. values \in Seq(Bytes) /\ values # <<>> /\ Len(values) \in Nat \ {0} /\ o \in Nat
  BY MessageAssumption
<1>2. end \in 0 .. MaxData /\ end # 0 /\ end \in Nat
  BY <1>1, MessageAssumption
<1>3. /\ IsMessage(r) /\ r # Null /\ (Readable(m) => Readable(r))
      /\ DataSize(r) >= end
  <2> HIDE DEF end
  <2>1. CASE DataSize(m) < end
    <3>1. r = Resized(m, end)
      BY <2>1
    <3>2. IsMessage(Resized(m, end)) /\ Resized(m, end) # Null /\ (Readable(m) => Readable(Resized(m, end)))
      BY <1>2, ResizedIs
    <3>3. DataSize(Resized(m, end)) = end
      BY <1>2, ResizedSize
    <3>4. QED
      BY <1>2, <3>1, <3>2, <3>3
  <2>2. CASE ~(DataSize(m) < end)
    <3>1. r = m
      BY <2>2
    <3>2. DataSize(m) \in Nat
      BY SizeType
    <3>3. DataSize(m) >= end /\ DataSize(m) # 0
      BY <1>2, <2>2, <3>2
    <3>4. m # Null
      BY <3>3 DEF DataSize, DataOf, Null
    <3>5. QED
      BY <3>1, <3>3, <3>4
  <2>3. QED
    BY <2>1, <2>2
<1>4. Written(m, values, o) =
        Assembled(BusId(r), MessageId(r),
          (SubSeq(DataOf(r), 1, o) \o values) \o SubSeq(DataOf(r), end + 1, Len(DataOf(r))),
          Checksum(r) + SumOf(SubSeq(DataOf(r), o + 1, end)) - SumOf(values))
  BY DEF Written
<1> HIDE DEF r
<1>5. PICK bus \in Bytes, mid \in Bytes, old \in Seq(Bytes), c \in Int :
        Len(old) <= MaxData /\ r = Assembled(bus, mid, old, c)
  BY <1>3 DEF IsMessage
<1>6. c \in Int
  BY ByteFacts
<1>7. ReadsAs(r, bus, mid, old, c)
  BY <1>5, <1>6, MessageReads
<1>8. /\ BusId(r) = bus /\ MessageId(r) = mid /\ DataOf(r) = old /\ Checksum(r) = c % 256
      /\ DataSize(r) = Len(old)
  BY <1>7 DEF ReadsAs
<1>9. o + Len(values) <= Len(old)
  BY <1>1, <1>3, <1>8
<1>10. Written(m, values, o) = Overlaid(bus, mid, old, c, values, o)
  BY <1>4, <1>8, Zenon DEF Overlaid
<1>11. /\ IsMessage(Written(m, values, o))
       /\ Readable(Assembled(bus, mid, old, c)) => Readable(Written(m, values, o))
  BY <1>1, <1>5, <1>6, <1>9, <1>10, OverlaidIs
<1>12. QED
  BY <1>3, <1>5, <1>11

(* insertData and deleteData.                                               *)

\* The data with count zero bytes put in at o.
Opened(old, count, o) ==
  (SubSeq(old \o Zeros(o), 1, o) \o Zeros(count)) \o SubSeq(old, o + 1, Len(old))

LEMMA OpenedIs ==
  ASSUME NEW old \in Seq(Bytes), NEW count \in Nat, NEW o \in Nat
  PROVE  /\ Opened(old, count, o) \in Seq(Bytes)
         /\ Len(Opened(old, count, o)) = (IF Len(old) < o THEN o ELSE Len(old)) + count
<1> DEFINE w == old \o Zeros(o)
           x == SubSeq(w, 1, o)
           z == SubSeq(old, o + 1, Len(old))
           k == Zeros(count)
<1>1. /\ Len(old) \in Nat /\ k \in Seq(Bytes) /\ Len(k) = count
      /\ Zeros(o) \in Seq(Bytes) /\ Len(Zeros(o)) = o
  BY ByteFacts, SumOfZeros
<1>2. w \in Seq(Bytes) /\ Len(w) = Len(old) + o
  BY <1>1, ConcatProperties
<1>3. x \in Seq(Bytes) /\ Len(x) = o
  <2> HIDE DEF w
  <2>1. o \in 0 .. Len(w) /\ Len(w) \in o .. Len(w)
    BY <1>1, <1>2
  <2>2. Pieces(Bytes, w, o, Len(w))
    BY <1>2, <2>1, ThreePieces
  <2>3. QED
    BY <2>2 DEF Pieces
<1>4. z \in Seq(Bytes) /\ Len(z) = IF Len(old) < o THEN 0 ELSE Len(old) - o
  <2>1. \A i \in o + 1 .. Len(old) : old[i] \in Bytes
    <3>1. \A i \in 1 .. Len(old) : old[i] \in Bytes
      OBVIOUS
    <3>2. \A i \in o + 1 .. Len(old) : i \in 1 .. Len(old)
      BY <1>1
    <3>3. QED
      BY <3>1, <3>2
  <2>2. o + 1 \in Int /\ Len(old) \in Int
    BY <1>1
  <2>3. z \in Seq(Bytes) /\ Len(z) = IF o + 1 <= Len(old) THEN Len(old) - (o + 1) + 1 ELSE 0
    BY <2>1, <2>2, SubSeqProperties
  <2> HIDE DEF z
  <2>4. CASE Len(old) < o
    <3>1. ~(o + 1 <= Len(old))
      BY <1>1, <2>4
    <3>2. QED
      BY <2>3, <2>4, <3>1
  <2>5. CASE ~(Len(old) < o)
    <3>1. Len(z) = Len(old) - o
      BY <1>1, <2>3, <2>5
    <3>2. QED
      BY <2>3, <2>5, <3>1
  <2>6. QED
    BY <2>4, <2>5
<1> HIDE DEF x, z, k, w
<1>5. x \o k \in Seq(Bytes) /\ Len(x \o k) = o + count
  <2>1. x \in Seq(Bytes) /\ k \in Seq(Bytes)
    BY <1>1, <1>3
  <2>2. x \o k \in Seq(Bytes) /\ Len(x \o k) = Len(x) + Len(k)
    BY <2>1, ConcatProperties
  <2>3. QED
    BY <1>1, <1>3, <2>2
<1>6. (x \o k) \o z \in Seq(Bytes) /\ Len((x \o k) \o z) = (o + count) + Len(z)
  <2> DEFINE v == x \o k
  <2>1. v \in Seq(Bytes) /\ z \in Seq(Bytes) /\ Len(v) = o + count
    BY <1>4, <1>5
  <2> HIDE DEF v
  <2>2. v \o z \in Seq(Bytes) /\ Len(v \o z) = Len(v) + Len(z)
    BY <2>1, ConcatProperties
  <2>3. QED
    BY <2>1, <2>2 DEF v
<1>7. Opened(old, count, o) = (x \o k) \o z
  BY DEF Opened, x, k, z, w
<1>8. (o + count) + Len(z) = (IF Len(old) < o THEN o ELSE Len(old)) + count
  <2>1. CASE Len(old) < o
    BY <1>1, <1>4, <2>1
  <2>2. CASE ~(Len(old) < o)
    <3>1. Len(z) = Len(old) - o
      BY <1>4, <2>2
    <3>2. QED
      BY <1>1, <2>2, <3>1
  <2>3. QED
    BY <2>1, <2>2
<1>9. QED
  BY <1>6, <1>7, <1>8

(* Where the bytes are put in and taken out again.                          *)
LEMMA OpenedClosed ==
  ASSUME NEW old \in Seq(Bytes), NEW count \in Nat, NEW o \in 0 .. Len(old)
  PROVE  LET new == Opened(old, count, o)
         IN /\ SubSeq(new, 1, o) = SubSeq(old, 1, o)
            /\ SubSeq(new, o + count + 1, Len(new)) = SubSeq(old, o + 1, Len(old))
            /\ SubSeq(old, 1, o) \o SubSeq(old, o + 1, Len(old)) = old
<1> DEFINE x == SubSeq(old, 1, o)
           z == SubSeq(old, o + 1, Len(old))
           k == Zeros(count)
           new == Opened(old, count, o)
<1>1. /\ Len(old) \in Nat /\ o \in Nat /\ o <= Len(old) /\ k \in Seq(Bytes) /\ Len(k) = count
      /\ Zeros(o) \in Seq(Bytes) /\ Len(Zeros(o)) = o
  BY ByteFacts, SumOfZeros
<1>2. /\ x \in Seq(Bytes) /\ z \in Seq(Bytes) /\ Len(x) = o /\ Len(z) = Len(old) - o
      /\ x \o z = old
  <2>1. Len(old) \in o .. Len(old)
    BY <1>1
  <2>2. Pieces(Bytes, old, o, Len(old))
    BY <2>1, ThreePieces
  <2>3. /\ x \in Seq(Bytes) /\ z \in Seq(Bytes) /\ Len(x) = o /\ Len(z) = Len(old) - o
        /\ x \o z = SubSeq(old, 1, Len(old))
    BY <2>2, Zenon DEF Pieces
  <2>4. SubSeq(old, 1, Len(old)) = old
    BY SubSeqFull
  <2>5. QED
    BY <2>3, <2>4
<1>3. SubSeq(old \o Zeros(o), 1, o) = x
  <2>1. (x \o z) \o Zeros(o) = x \o (z \o Zeros(o))
    <3> HIDE DEF x, z
    <3>1. x \in Seq(Bytes) /\ z \in Seq(Bytes) /\ Zeros(o) \in Seq(Bytes)
      BY <1>1, <1>2
    <3>2. QED
      BY <3>1, ConcatAssociative, SMTT(30)
  <2> DEFINE r == z \o Zeros(o)
  <2>2. r \in Seq(Bytes)
    <3> HIDE DEF z
    <3>1. QED
      BY <1>1, <1>2, ConcatProperties
  <2>3. SubSeq(x \o r, 1, Len(x)) = x
    <3> HIDE DEF r, x
    <3>1. QED
      BY <1>2, <2>2, ConcatPieces
  <2>4. QED
    BY <1>2, <2>1, <2>3
<1>4. new = (x \o k) \o z
  BY <1>3 DEF Opened
<1> HIDE DEF x, z, k, new
<1>5. SubSeq(new, 1, o) = x
  <2>1. (x \o k) \o z = x \o (k \o z)
    <3>1. x \in Seq(Bytes) /\ z \in Seq(Bytes) /\ k \in Seq(Bytes)
      BY <1>1, <1>2
    <3>2. QED
      BY <3>1, ConcatAssociative, SMTT(30)
  <2> DEFINE r == k \o z
  <2>2. r \in Seq(Bytes)
    BY <1>1, <1>2, ConcatProperties
  <2> HIDE DEF r
  <2>3. SubSeq(x \o r, 1, Len(x)) = x
    BY <1>2, <2>2, ConcatPieces
  <2>4. QED
    BY <1>2, <1>4, <2>1, <2>3 DEF r
<1>6. SubSeq(new, o + count + 1, Len(new)) = z
  <2> DEFINE v == x \o k
  <2>1. v \in Seq(Bytes) /\ Len(v) = o + count
    <3>1. v \in Seq(Bytes) /\ Len(v) = Len(x) + Len(k)
      BY <1>1, <1>2, ConcatProperties
    <3> HIDE DEF v
    <3>2. QED
      BY <1>1, <1>2, <3>1
  <2> HIDE DEF v
  <2>2. SubSeq(v \o z, Len(v) + 1, Len(v) + Len(z)) = z /\ Len(v \o z) = Len(v) + Len(z)
    <3>1. v \in Seq(Bytes) /\ z \in Seq(Bytes)
      BY <1>2, <2>1
    <3>2. SubSeq(v \o z, Len(v) + 1, Len(v) + Len(z)) = z
      BY <3>1, ConcatPieces
    <3>3. Len(v \o z) = Len(v) + Len(z)
      BY <3>1, ConcatProperties
    <3>4. QED
      BY <3>2, <3>3
  <2>3. new = v \o z
    BY <1>4 DEF v
  <2>4. QED
    BY <2>1, <2>2, <2>3
<1>7. QED
  BY <1>2, <1>5, <1>6 DEF x, z, new

LEMMA InsertedIs ==
  ASSUME NEW bus \in Bytes, NEW mid \in Bytes, NEW old \in Seq(Bytes), NEW c \in Int,
         NEW count \in Nat, count # 0, NEW o \in Nat, NEW m, m = Assembled(bus, mid, old, c)
  PROVE  \E cs \in Int : Inserted(m, count, o) = Assembled(bus, mid, Opened(old, count, o), cs)
<1> DEFINE size == (IF Len(old) < o THEN o ELSE Len(old)) + count
           cs == SizedChecksum(size) - SumOf(old)
<1>1. ReadsAs(m, bus, mid, old, c) /\ m # Null
  BY MessageReads
<1>2. BusId(m) = bus /\ MessageId(m) = mid /\ DataOf(m) = old
  BY <1>1 DEF ReadsAs
<1>3. count # 0
  OBVIOUS
<1>4. Inserted(m, count, o) = Assembled(bus, mid, Opened(old, count, o), cs)
  BY <1>1, <1>2, <1>3, Zenon DEF Inserted, Opened
<1>5. Len(old) \in Nat /\ SumOf(old) \in Int
  BY ByteFacts, SumTypes
<1>6. size \in Nat
  BY <1>5
<1> HIDE DEF size
<1>7. SumOf(Length(size)) \in Int
  <2>1. Length(size) \in Seq(Nat) /\ Nat \subseteq Int
    BY <1>6, LengthIs
  <2>2. Length(size) \in Seq(Int)
    BY <2>1, SeqMonotonic
  <2>3. QED
    BY <2>2, SumOfType
<1>8. cs \in Int
  BY <1>5, <1>7 DEF SizedChecksum, Master
<1>9. QED
  BY <1>4, <1>8

\* The data left when count bytes are taken out at o.
Closed(old, count, o) == SubSeq(old, 1, o) \o SubSeq(old, o + count + 1, Len(old))

\* What deleteData leaves at the end of the data, and in the middle of them.
Deletes(bus, mid, old, c, count, o) ==
  LET m == Assembled(bus, mid, old, c)
      d == Closed(old, count, o)
  IN /\ o + count >= Len(old) => Deleted(m, count, o) = Resized(m, o)
     /\ o + count < Len(old) =>
          /\ d \in Seq(Bytes) /\ Len(d) <= Len(old)
          /\ \E cs \in Int : Deleted(m, count, o) = Assembled(bus, mid, d, cs)

LEMMA DeletedIs ==
  ASSUME NEW bus \in Bytes, NEW mid \in Bytes, NEW old \in Seq(Bytes), NEW c \in Int,
         NEW count \in Nat, count # 0, NEW o \in Nat, o < Len(old)
  PROVE  Deletes(bus, mid, old, c, count, o)
<1> DEFINE m == Assembled(bus, mid, old, c)
           d == Closed(old, count, o)
           cs == SizedChecksum(Len(d)) - SumOf(d)
<1>1. ReadsAs(m, bus, mid, old, c) /\ m # Null
  BY MessageReads
<1>2. BusId(m) = bus /\ MessageId(m) = mid /\ DataOf(m) = old
  BY <1>1 DEF ReadsAs
<1>3. Len(old) \in Nat
  BY ByteFacts
<1>4. ~(count = 0 \/ o >= Len(old))
  BY <1>3
<1>5. Deleted(m, count, o) = IF o + count >= Len(old) THEN Resized(m, o) ELSE Assembled(bus, mid, d, cs)
  BY <1>2, <1>4, Zenon DEF Deleted, Closed
<1>6. ASSUME o + count < Len(old)
      PROVE  d \in Seq(Bytes) /\ Len(d) <= Len(old) /\ cs \in Int
  <2> DEFINE x == SubSeq(old, 1, o)
             z == SubSeq(old, o + count + 1, Len(old))
             b == o + count
  <2>1. o \in 0 .. Len(old) /\ b \in o .. Len(old)
    BY <1>3, <1>6
  <2>2. Pieces(Bytes, old, o, b)
    <3> HIDE DEF b
    <3>1. QED
      BY <2>1, ThreePieces
  <2>3. x \in Seq(Bytes) /\ z \in Seq(Bytes) /\ Len(x) = o /\ Len(z) = Len(old) - b
    BY <2>2, Zenon DEF Pieces
  <2>4. d = x \o z
    BY DEF Closed
  <2> HIDE DEF x, z, d
  <2>5. x \in Seq(Bytes) /\ z \in Seq(Bytes)
    BY <2>3
  <2>6. x \o z \in Seq(Bytes) /\ Len(x \o z) = Len(x) + Len(z)
    BY <2>5, ConcatProperties
  <2>7. d \in Seq(Bytes) /\ Len(d) <= Len(old)
    BY <1>3, <2>1, <2>3, <2>4, <2>6
  <2>8. SumOf(d) \in Int /\ SumOf(Length(Len(d))) \in Int
    BY <2>7, SumTypes
  <2>9. QED
    BY <2>7, <2>8 DEF SizedChecksum, Master
<1>7. o + count \in Nat
  OBVIOUS
<1> HIDE DEF m, d, cs
<1>8. ASSUME o + count >= Len(old) PROVE Deleted(m, count, o) = Resized(m, o)
  BY <1>5, <1>8
<1>9. ASSUME o + count < Len(old) PROVE Deleted(m, count, o) = Assembled(bus, mid, d, cs)
  <2>1. ~(o + count >= Len(old))
    BY <1>3, <1>7, <1>9
  <2>2. QED
    BY <1>5, <2>1
<1>10. QED
  BY <1>6, <1>8, <1>9 DEF d, m, Deletes

(* insertData and deleteData make a message of a message.                   *)
LEMMA MovedIs ==
  ASSUME NEW m, IsMessage(m), NEW count \in Nat, NEW o \in Nat
  PROVE  /\ DataSize(m) + o + count <= MaxData => IsMessage(Inserted(m, count, o))
         /\ IsMessage(Deleted(m, count, o))
<1>1. DataSize(m) = Len(DataOf(m)) /\ DataSize(m) \in Nat
  BY SizeType DEF DataSize
<1>2. CASE count = 0
  <2>1. Inserted(m, count, o) = m /\ Deleted(m, count, o) = m
    BY <1>2, Zenon DEF Inserted, Deleted
  <2>2. QED
    BY <2>1
<1>3. CASE count # 0 /\ m = Null
  <2>1. DataOf(m) = <<>>
    BY <1>3 DEF DataOf
  <2>2. Len(DataOf(m)) = 0 /\ o >= Len(DataOf(m))
    BY <2>1
  <2>3. Deleted(m, count, o) = m
    BY <2>2, Zenon DEF Deleted
  <2> DEFINE size == (IF Len(DataOf(m)) < o THEN o ELSE Len(DataOf(m))) + count
  <2>4. Inserted(m, count, o) = ConstructSized(size)
    BY <1>3, Zenon DEF Inserted
  <2>5. size = o + count
    BY <2>2
  <2>6. ASSUME DataSize(m) + o + count <= MaxData PROVE IsMessage(Inserted(m, count, o))
    <3>1. size \in 0 .. MaxData
      <4>1. MaxData \in Int
        BY MessageAssumption
      <4> HIDE DEF size
      <4>2. QED
        BY <1>1, <2>2, <2>5, <2>6, <4>1
    <3> HIDE DEF size
    <3>2. QED
      BY <2>4, <3>1, SizedIs
  <2>7. QED
    BY <2>3, <2>6
<1>4. CASE count # 0 /\ m # Null
  <2>1. PICK bus \in Bytes, mid \in Bytes, old \in Seq(Bytes), c \in Int :
          Len(old) <= MaxData /\ m = Assembled(bus, mid, old, c)
    BY <1>4 DEF IsMessage
  <2>2. c \in Int /\ Len(old) \in Nat
    BY ByteFacts
  <2>3. DataSize(m) = Len(old) /\ DataOf(m) = old
    <3>1. ReadsAs(m, bus, mid, old, c)
      BY <2>1, <2>2, MessageReads
    <3>2. QED
      BY <3>1 DEF ReadsAs
  <2>4. MaxData \in Int /\ count # 0
    BY <1>4, MessageAssumption
  <2>5. ASSUME DataSize(m) + o + count <= MaxData PROVE IsMessage(Inserted(m, count, o))
    <3>1. PICK cs \in Int : Inserted(m, count, o) = Assembled(bus, mid, Opened(old, count, o), cs)
      <4>1. m = Assembled(bus, mid, old, c)
        BY <2>1
      <4>2. c \in Int /\ count # 0
        BY <2>2, <2>4
      <4>3. QED
        BY <4>1, <4>2, InsertedIs, SMTT(30)
    <3>2. /\ Opened(old, count, o) \in Seq(Bytes)
          /\ Len(Opened(old, count, o)) = (IF Len(old) < o THEN o ELSE Len(old)) + count
      BY OpenedIs
    <3>3. Len(Opened(old, count, o)) <= MaxData
      BY <2>2, <2>3, <2>4, <2>5, <3>2
    <3>4. QED
      BY <3>1, <3>2, <3>3, MakesMessage
  <2>6. CASE o >= Len(old)
    <3>1. Deleted(m, count, o) = m
      BY <2>3, <2>6, Zenon DEF Deleted
    <3>2. QED
      BY <2>5, <3>1
  <2>7. o < Len(old) => Deletes(bus, mid, old, c, count, o)
    BY <2>2, <2>4, DeletedIs
  <2>8. CASE o < Len(old) /\ o + count >= Len(old)
    <3>1. Deleted(m, count, o) = Resized(m, o)
      <4>1. m = Assembled(bus, mid, old, c)
        BY <2>1
      <4>2. QED
        BY <2>8, <2>7, <4>1 DEF Deletes
    <3>2. o \in 0 .. MaxData
      BY <2>1, <2>2, <2>4, <2>8
    <3>3. IsMessage(Resized(m, o))
      BY <3>2, ResizedIs
    <3>4. QED
      BY <2>5, <3>1, <3>3
  <2>9. CASE o < Len(old) /\ o + count < Len(old)
    <3>1. /\ Closed(old, count, o) \in Seq(Bytes)
          /\ Len(Closed(old, count, o)) <= Len(old)
          /\ \E cs \in Int : Deleted(m, count, o) = Assembled(bus, mid, Closed(old, count, o), cs)
      <4>1. m = Assembled(bus, mid, old, c)
        BY <2>1
      <4>2. QED
        BY <2>9, <2>7, <4>1 DEF Deletes
    <3>2. PICK cs \in Int : Deleted(m, count, o) = Assembled(bus, mid, Closed(old, count, o), cs)
      BY <3>1
    <3>3. Len(Closed(old, count, o)) <= MaxData
      <4>1. Len(Closed(old, count, o)) \in Nat
        BY <3>1, ByteFacts
      <4>2. QED
        BY <2>1, <2>2, <2>4, <3>1, <4>1
    <3>4. IsMessage(Deleted(m, count, o))
      BY <3>1, <3>2, <3>3, MakesMessage
    <3>5. QED
      BY <2>5, <3>4
  <2>10. QED
    BY <2>2, <2>6, <2>8, <2>9
<1>5. QED
  BY <1>2, <1>3, <1>4

LEMMA RecomputedIs ==
  ASSUME NEW m, IsMessage(m), m # Null
  PROVE  LET n == [m EXCEPT ![Len(m)] = ComputeChecksum(m, 0)]
         IN IsMessage(n) /\ Readable(n)
<1> DEFINE x == ComputeChecksum(m, 0)
           n == [m EXCEPT ![Len(m)] = x]
<1>1. PICK bus \in Bytes, mid \in Bytes, data \in Seq(Bytes), c \in Int :
        Len(data) <= MaxData /\ m = Assembled(bus, mid, data, c)
  BY DEF IsMessage
<1>2. ReadsAs(m, bus, mid, data, c)
  BY <1>1, MessageReads
<1> DEFINE total == Total(bus, mid, data)
<1>3. bus \in Nat /\ mid \in Nat /\ data \in Seq(Nat)
  BY ByteFacts
<1>4. total \in Int
  BY <1>1, MessageReadable
<1>5. m \in Seq(Nat)
  BY <1>1, <1>3, AssembledIs DEF ConsistsOf
<1>6. x = (-total) % 256
  <2>1. Len(m) \in Int /\ MsgSize(m, 0) = Len(m) /\ ByteSum(m, 2, Len(m) - 1) = total
    BY <1>2, <1>5 DEF ReadsAs
  <2>2. 0 + MsgSize(m, 0) - 1 = Len(m) - 1 /\ 0 + 2 = 2
    BY <2>1
  <2>3. QED
    BY <2>1, <2>2, Zenon DEF ComputeChecksum
<1> HIDE DEF total, x
<1>7. x \in Nat /\ x % 256 = x /\ Balanced(x, total)
  <2>1. \A i \in Int : (-i) % 256 \in Nat /\ ((-i) % 256) % 256 = (-i) % 256 /\ (((-i) % 256) + i) % 256 = 0
    OBVIOUS
  <2>2. QED
    BY <1>4, <1>6, <2>1 DEF Balanced
<1>8. n = Assembled(bus, mid, data, x)
  <2> DEFINE q == Assembled(bus, mid, data, x)
             h == HeaderOf(bus, mid, Len(data))
  <2>1. /\ m \in Seq(Nat) /\ m # Null
        /\ Len(m) = Len(h) + Len(data) + 1
        /\ \A i \in 1 .. Len(h) : m[i] = h[i]
        /\ \A i \in 1 .. Len(data) : m[Len(h) + i] = data[i]
    <3>1. ConsistsOf(m, h, data, c)
      BY <1>1, <1>3, AssembledIs
    <3> HIDE DEF h
    <3>2. QED
      BY <3>1 DEF ConsistsOf
  <2>2. x \in Int
    BY <1>7
  <2>3. /\ q \in Seq(Nat) /\ q # Null
        /\ Len(q) = Len(h) + Len(data) + 1
        /\ \A i \in 1 .. Len(h) : q[i] = h[i]
        /\ \A i \in 1 .. Len(data) : q[Len(h) + i] = data[i]
        /\ q[Len(q)] = x % 256
    <3>1. ConsistsOf(q, h, data, x)
      BY <1>3, <2>2, AssembledIs
    <3> HIDE DEF q, h
    <3>2. QED
      BY <3>1 DEF ConsistsOf
  <2>4. Len(h) \in Nat /\ Len(data) \in Nat
    <3>1. Len(data) \in Nat
      BY <1>3
    <3>2. Announces(h, bus, mid, Len(data))
      BY <1>3, <3>1, HeaderIs
    <3> HIDE DEF h
    <3>3. QED
      BY <3>1, <3>2 DEF Announces
  <2> HIDE DEF q, h
  <2>5. n \in Seq(Nat) /\ Len(n) = Len(m) /\ \A j \in 1 .. Len(m) : n[j] = IF j = Len(m) THEN x ELSE m[j]
    <3>1. Len(m) \in 1 .. Len(m)
      BY <2>1, <2>4
    <3>2. QED
      BY <1>5, <1>7, <3>1, ExceptSeq
  <2> HIDE DEF n
  <2>6. ASSUME NEW j \in 1 .. Len(n) PROVE n[j] = q[j]
    <3>1. CASE j = Len(m)
      BY <1>7, <2>1, <2>3, <2>5, <3>1
    <3>2. CASE j \in 1 .. Len(h)
      <4>1. j # Len(m)
        BY <2>1, <2>4, <3>2
      <4>2. QED
        BY <2>1, <2>3, <2>5, <3>2, <4>1
    <3>3. CASE j > Len(h) /\ j # Len(m)
      <4> DEFINE i == j - Len(h)
      <4>0. j \in 1 .. Len(h) + Len(data) + 1 /\ j # Len(h) + Len(data) + 1
        BY <2>1, <2>5, <3>3
      <4>1. i \in 1 .. Len(data) /\ j = Len(h) + i
        BY <2>4, <3>3, <4>0
      <4> HIDE DEF i
      <4>2. n[j] = m[j]
        BY <2>5, <3>3
      <4>3. m[Len(h) + i] = data[i] /\ q[Len(h) + i] = data[i]
        BY <2>1, <2>3, <4>1
      <4>4. QED
        BY <4>1, <4>2, <4>3
    <3>4. j \in 1 .. Len(h) \/ j > Len(h)
      BY <2>4, <2>5
    <3>5. QED
      BY <3>1, <3>2, <3>3, <3>4
  <2>7. Len(n) = Len(q)
    BY <2>1, <2>3, <2>5
  <2>8. n = q
    BY <2>3, <2>5, <2>6, <2>7, SeqEqual
  <2>9. QED
    BY <2>8 DEF q
<1> HIDE DEF n
<1>9. x \in Int
  BY <1>7
<1>10. IsMessage(n)
  BY <1>1, <1>8, <1>9, MakesMessage
<1>11. Readable(n)
  BY <1>1, <1>7, <1>8, <1>9, MessageReadable DEF total
<1>12. QED
  BY <1>10, <1>11 DEF n, x

LEMMA SetStep ==
  ASSUME IsMessage(msg), Set
  PROVE  IsMessage(msg') /\ (Readable(msg) => Readable(msg'))
<1>1. CASE Clear
  <2>1. msg' = Null
    BY <1>1 DEF Clear
  <2>2. IsMessage(Null) /\ Readable(Null)
    BY DEF IsMessage, Readable
  <2>3. QED
    BY <2>1, <2>2
<1>2. CASE \E n \in Sizes : Resize(n)
  <2>1. PICK n \in Sizes : msg' = Resized(msg, n)
    BY <1>2 DEF Resize
  <2>2. n \in 0 .. MaxData
    BY MessageAssumption
  <2>3. QED
    BY <2>1, <2>2, ResizedIs
<1>3. CASE \E b \in BusIds : SetBusId(b)
  <2>1. PICK b \in BusIds : SetBusId(b)
    BY <1>3
  <2>2. b \in Bytes
    BY MessageAssumption
  <2> DEFINE n == Constructed(msg)
             q == Assembled(b, MessageId(n), DataOf(n), Checksum(n) + BusId(n) - b)
  <2>3. msg' = q
    BY <2>1 DEF SetBusId
  <2>4. IsMessage(q) /\ (Readable(msg) => Readable(q))
    BY <2>2, IdsSet
  <2> HIDE DEF q
  <2>5. QED
    BY <2>3, <2>4
<1>4. CASE \E id \in MessageIds : SetMessageId(id)
  <2>1. PICK id \in MessageIds : SetMessageId(id)
    BY <1>4
  <2>2. id \in Bytes
    BY MessageAssumption
  <2> DEFINE n == Constructed(msg)
             q == Assembled(BusId(n), id, DataOf(n), Checksum(n) + MessageId(n) - id)
  <2>3. msg' = q
    BY <2>1 DEF SetMessageId
  <2>4. IsMessage(q) /\ (Readable(msg) => Readable(q))
    BY <2>2, IdsSet
  <2> HIDE DEF q
  <2>5. QED
    BY <2>3, <2>4
<1>5. CASE \E v \in Values, o \in Offsets : SetData(v, o)
  <2>1. PICK v \in Values, o \in Offsets : o + Len(v) <= MaxData /\ msg' = Written(msg, v, o)
    BY <1>5 DEF SetData
  <2>2. QED
    BY <2>1, WrittenIs
<1>6. CASE RecomputeChecksum
  <2> DEFINE n == [msg EXCEPT ![Len(msg)] = ComputeChecksum(msg, 0)]
  <2>1. msg # Null /\ msg' = n
    BY <1>6 DEF RecomputeChecksum
  <2>2. IsMessage(n) /\ Readable(n)
    BY <2>1, RecomputedIs
  <2> HIDE DEF n
  <2>3. QED
    BY <2>1, <2>2
<1>7. QED
  BY <1>1, <1>2, <1>3, <1>4, <1>5, <1>6 DEF Set

LEMMA MessageStep ==
  ASSUME IsMessage(msg), [MessageNext]_msg
  PROVE  IsMessage(msg')
<1>1. CASE Set
  BY <1>1, SetStep
<1>2. CASE \E c \in Counts, o \in Offsets : InsertData(c, o)
  <2>1. PICK c \in Counts, o \in Offsets :
          DataSize(msg) + o + c <= MaxData /\ msg' = Inserted(msg, c, o)
    BY <1>2 DEF InsertData
  <2>2. c \in Nat /\ o \in Nat
    BY MessageAssumption
  <2>3. QED
    BY <2>1, <2>2, MovedIs
<1>3. CASE \E c \in Counts, o \in Offsets : DeleteData(c, o)
  <2>1. PICK c \in Counts, o \in Offsets : msg' = Deleted(msg, c, o)
    BY <1>3 DEF DeleteData
  <2>2. c \in Nat /\ o \in Nat
    BY MessageAssumption
  <2>3. QED
    BY <2>1, <2>2, MovedIs
<1>4. CASE UNCHANGED msg
  BY <1>4
<1>5. QED
  BY <1>1, <1>2, <1>3, <1>4 DEF MessageNext

LEMMA MessageStart == MessageInit => IsMessage(msg)
<1> SUFFICES ASSUME MessageInit PROVE IsMessage(msg)
  OBVIOUS
<1>1. PICK n \in Sizes : msg = ConstructSized(n)
  BY DEF MessageInit
<1>2. n \in 0 .. MaxData
  BY MessageAssumption
<1>3. QED
  BY <1>1, <1>2, SizedIs

(* msg is always a message put together from ids, data and a checksum.      *)
LEMMA AlwaysMessage == MessageSpec => []IsMessage(msg)
<1>1. IsMessage(msg) /\ [MessageNext]_msg => IsMessage(msg)'
  BY MessageStep
<1>2. QED
  BY <1>1, MessageStart, PTL DEF MessageSpec

(* The setters of XsMessage, in any order and number, keep a message with a *)
(* right checksum one the parser accepts, for every size up to              *)
(* XS_MAXDATALEN: the invariant is AlwaysMessage.                           *)
THEOREM SettersReadable == MessageSpec => SettersKeepReadable
<1>1. IsMessage(msg) /\ [MessageNext]_msg => [Set /\ Readable(msg) => Readable(msg')]_msg
  BY SetStep
<1>2. QED
  BY <1>1, AlwaysMessage, PTL DEF MessageSpec, SettersKeepReadable

LEMMA MessageUndoes ==
  ASSUME IsMessage(msg)
  PROVE  DeleteUndoesInsert
<1> SUFFICES ASSUME NEW count \in Counts, NEW o \in Offsets, msg # Null, o <= DataSize(msg)
             PROVE  LET inserted == Inserted(msg, count, o)
                        m == Deleted(inserted, count, o)
                    IN /\ MsgSize(inserted, 0) = Len(inserted)
                       /\ MsgSize(m, 0) = Len(m)
                       /\ SubSeq(m, 1, Len(m) - 1) = SubSeq(msg, 1, Len(msg) - 1)
  BY DEF DeleteUndoesInsert
<1> DEFINE inserted == Inserted(msg, count, o)
           m == Deleted(inserted, count, o)
<1>1. count \in Nat /\ o \in Nat
  BY MessageAssumption
<1>2. PICK bus \in Bytes, mid \in Bytes, old \in Seq(Bytes), c \in Int :
        Len(old) <= MaxData /\ msg = Assembled(bus, mid, old, c)
  BY DEF IsMessage
<1>3. ReadsAs(msg, bus, mid, old, c)
  BY <1>2, MessageReads
<1>4. /\ MsgSize(msg, 0) = Len(msg) /\ Len(old) \in Nat /\ o \in 0 .. Len(old)
      /\ Len(old) <= MaxData /\ MaxData \in Int
  BY <1>1, <1>2, <1>3, ByteFacts, MessageAssumption DEF ReadsAs
<1> DEFINE h == HeaderOf(bus, mid, Len(old))
<1>5. ASSUME NEW q, NEW cs \in Int, q = Assembled(bus, mid, old, cs)
      PROVE  MsgSize(q, 0) = Len(q) /\ SubSeq(q, 1, Len(q) - 1) = h \o old
  <2>1. bus \in Nat /\ mid \in Nat /\ old \in Seq(Nat)
    BY ByteFacts
  <2>2. ReadsAs(q, bus, mid, old, cs)
    BY <1>5, <2>1, AccessorsRead
  <2>3. ConsistsOf(q, h, old, cs)
    BY <1>5, <2>1, AssembledIs
  <2> HIDE DEF h
  <2>4. QED
    BY <2>2, <2>3 DEF ReadsAs, ConsistsOf
<1>6. SubSeq(msg, 1, Len(msg) - 1) = h \o old
  <2> HIDE DEF h
  <2>1. QED
    BY <1>2, <1>5
<1> HIDE DEF h
<1>7. CASE count = 0
  <2>1. inserted = msg
    BY <1>7, Zenon DEF Inserted
  <2>2. m = inserted
    BY <1>7, Zenon DEF Deleted
  <2>3. QED
    BY <1>4, <2>1, <2>2
<1>8. CASE count # 0
  <2> DEFINE new == Opened(old, count, o)
  <2>1. PICK ci \in Int : inserted = Assembled(bus, mid, new, ci)
    <3>1. msg = Assembled(bus, mid, old, c)
      BY <1>2
    <3>2. QED
      BY <1>1, <1>8, <3>1, InsertedIs, SMTT(30)
  <2>2. new \in Seq(Bytes) /\ Len(new) = Len(old) + count
    <3>1. new \in Seq(Bytes) /\ Len(new) = (IF Len(old) < o THEN o ELSE Len(old)) + count
      BY <1>1, OpenedIs
    <3>2. ~(Len(old) < o)
      BY <1>1, <1>4
    <3>3. QED
      BY <3>1, <3>2
  <2>3. /\ SubSeq(new, 1, o) = SubSeq(old, 1, o)
        /\ SubSeq(new, o + count + 1, Len(new)) = SubSeq(old, o + 1, Len(old))
        /\ SubSeq(old, 1, o) \o SubSeq(old, o + 1, Len(old)) = old
    BY <1>1, <1>4, OpenedClosed
  <2> HIDE DEF inserted, new
  <2>4. MsgSize(inserted, 0) = Len(inserted)
    <3>1. ReadsAs(inserted, bus, mid, new, ci)
      BY <2>1, <2>2, MessageReads
    <3>2. QED
      BY <3>1 DEF ReadsAs
  <2>5. o < Len(new)
    BY <1>1, <1>4, <1>8, <2>2
  <2>6. /\ o + count >= Len(new) => m = Resized(inserted, o)
        /\ o + count < Len(new) =>
             \E cs \in Int : m = Assembled(bus, mid, Closed(new, count, o), cs)
    <3>1. /\ new \in Seq(Bytes) /\ count # 0 /\ o < Len(new) /\ count \in Nat /\ o \in Nat
      BY <1>1, <1>8, <2>2, <2>5
    <3>2. Deletes(bus, mid, new, ci, count, o)
      BY <3>1, DeletedIs
    <3>3. QED
      BY <2>1, <3>2 DEF Deletes
  <2>7. CASE o + count >= Len(new)
    <3>1. m = Resized(inserted, o)
      BY <2>7, <2>6
    <3>2. o = Len(old)
      BY <1>1, <1>4, <2>2, <2>7
    <3>3. Fitted(new, o) = old
      <4>1. SubSeq(new, 1, IF o < Len(new) THEN o ELSE Len(new)) = SubSeq(old, 1, o)
        BY <2>3, <2>5
      <4>2. SubSeq(old, 1, o) = old
        BY <3>2, SubSeqFull
      <4>3. o - Len(old) = 0
        BY <1>1, <3>2
      <4>4. Fitted(new, o) = old \o Zeros(0)
        BY <4>1, <4>2, <4>3, Zenon DEF Fitted
      <4>5. Zeros(0) = <<>>
        BY DEF Zeros
      <4>6. QED
        BY <4>4, <4>5, ConcatEmptySeq
    <3>4. \E cs \in Int : Resized(inserted, o) = Assembled(bus, mid, Fitted(new, o), cs)
      BY <1>1, <2>1, <2>2, <2>5, ResizedTo
    <3>5. PICK cs \in Int : m = Assembled(bus, mid, old, cs)
      BY <3>1, <3>3, <3>4
    <3> HIDE DEF m
    <3>6. MsgSize(m, 0) = Len(m) /\ SubSeq(m, 1, Len(m) - 1) = h \o old
      BY <1>5, <3>5
    <3>7. QED
      BY <1>6, <2>4, <3>6 DEF m, inserted
  <2>8. CASE o + count < Len(new)
    <3>1. \E cs \in Int : m = Assembled(bus, mid, Closed(new, count, o), cs)
      BY <2>8, <2>6
    <3>2. Closed(new, count, o) = old
      BY <2>3 DEF Closed
    <3>3. PICK cs \in Int : m = Assembled(bus, mid, old, cs)
      BY <3>1, <3>2
    <3> HIDE DEF m
    <3>4. MsgSize(m, 0) = Len(m) /\ SubSeq(m, 1, Len(m) - 1) = h \o old
      BY <1>5, <3>3
    <3>5. QED
      BY <1>6, <2>4, <3>4 DEF m, inserted
  <2>9. o + count >= Len(new) \/ o + count < Len(new)
    BY <1>1, <1>4, <2>2
  <2>10. QED
    BY <2>7, <2>8, <2>9 DEF inserted
<1>9. QED
  BY <1>7, <1>8

(* deleteData undoes insertData on every message the operations make, and   *)
(* both leave a header that gives the length, whatever the sizes.           *)
THEOREM DeleteUndoes == MessageSpec => []DeleteUndoesInsert
<1>1. IsMessage(msg) => DeleteUndoesInsert
  BY MessageUndoes
<1>2. QED
  BY <1>1, AlwaysMessage, PTL
================================================================================
