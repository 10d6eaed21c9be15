------------------------------- MODULE XbusWire --------------------------------
(***************************************************************************)
(* The byte streams a device sends from the moment the port is opened, and *)
(* where the messages in them lie.                                         *)
(***************************************************************************)
EXTENDS XbusFraming

CONSTANTS
  Streams,   \* the byte streams considered
  Bounds     \* Bounds[w]: the offsets at which the sender of w starts and
             \* ends its messages

ASSUME StreamsAssumption == Streams \subseteq Seq(Bytes)
ASSUME BoundsAssumption  == Bounds \in [Streams -> SUBSET Nat]

\* A message as a piece of the stream.
Span == [start : Nat, size : Nat \ {0}]

SpanEnd(m) == m.start + m.size

(* The stream is a sequence of whole messages, whatever their data hold.    *)
WholeMessages(w) ==
  /\ 0 \in Bounds[w]
  /\ \A b \in Bounds[w] :
       b < Len(w) => /\ Acceptable(w, b, Len(w))
                     /\ b + MsgSize(w, b) \in Bounds[w]

(* The stream is what the sender meant it to be: whole messages one after  *)
(* the other, none with a second checksum-correct message starting in it.  *)
Clean(w) ==
  /\ WholeMessages(w)
  /\ \A b \in Bounds[w] :
       b < Len(w) =>
         \A q \in (b + 1) .. (b + MsgSize(w, b) - 1) : ~Acceptable(w, q, Len(w))

================================================================================
