------------------------------ MODULE XbusStream -------------------------------
(***************************************************************************)
(* What the Xbus parser promises: from the bytes received so far it hands  *)
(* out checksum-correct messages, each the first one at or after the end   *)
(* of the message before it.  A behaviour is about one stream, the bytes   *)
(* the device sends from the moment the port is opened, chosen by Init.    *)
(***************************************************************************)
EXTENDS XbusWire

VARIABLES
  wire,        \* the stream
  rcvd,        \* how many of its bytes have been read
  taken,       \* how many have been consumed
  delivered    \* the messages handed out, as spans of the stream

streamVars == <<wire, rcvd, taken, delivered>>

Init ==
  /\ wire \in Streams
  /\ rcvd = 0
  /\ taken = 0
  /\ delivered = <<>>

Receive(n) ==
  /\ rcvd' = n
  /\ UNCHANGED <<wire, taken, delivered>>

Deliver(p) ==
  /\ Acceptable(wire, p, rcvd)
  /\ NoMessageIn(wire, taken, p, rcvd)
  /\ taken' = p + MsgSize(wire, p)
  /\ delivered' = Append(delivered, [start |-> p, size |-> MsgSize(wire, p)])
  /\ UNCHANGED <<wire, rcvd>>

Next ==
  \/ \E n \in (rcvd + 1) .. Len(wire) : Receive(n)
  \/ \E p \in taken .. (rcvd - 1) : Deliver(p)

Spec == Init /\ [][Next]_streamVars
--------------------------------------------------------------------------------
TypeOK ==
  /\ wire \in Streams
  /\ rcvd \in 0 .. Len(wire)
  /\ taken \in 0 .. rcvd
  /\ delivered \in Seq(Span)

(* The messages handed out are disjoint, in stream order, inside the       *)
(* consumed bytes, and each one is a whole checksum-correct message.       *)
SpansSound ==
  /\ \A i \in DOMAIN delivered :
       /\ Acceptable(wire, delivered[i].start, rcvd)
       /\ delivered[i].size = MsgSize(wire, delivered[i].start)
       /\ SpanEnd(delivered[i]) <= taken
  /\ \A i, j \in DOMAIN delivered :
       i < j => SpanEnd(delivered[i]) <= delivered[j].start

(* A message m stands in the way of one at q: q starts inside m, or the    *)
(* message at q reaches beyond the end of m.                               *)
Obstructs(m, q) ==
  /\ q < SpanEnd(m)
  /\ q >= m.start \/ q + MsgSize(wire, q) > SpanEnd(m)

(* Consumed bytes hold no lost message: a whole message that starts among  *)
(* them was handed out, lies across one that was, or encloses one.         *)
LostOnlyByOverlap ==
  \A q \in 0 .. (taken - 1) :
    Acceptable(wire, q, Len(wire)) =>
      \E i \in DOMAIN delivered : Obstructs(delivered[i], q)

(* A clean stream is handed out exactly as it was sent: every message is   *)
(* one of the sender's and the consumed bytes are covered without a gap,   *)
(* however the bytes were cut into reads.                                  *)
CleanStreamExact ==
  Clean(wire) =>
    /\ taken \in Bounds[wire]
    /\ \A i \in DOMAIN delivered :
         /\ delivered[i].start \in Bounds[wire]
         /\ delivered[i].start = IF i = 1 THEN 0 ELSE SpanEnd(delivered[i - 1])
    /\ taken = IF delivered = <<>> THEN 0 ELSE SpanEnd(delivered[Len(delivered)])

================================================================================
