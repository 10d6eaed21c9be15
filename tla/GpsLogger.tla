------------------------------- MODULE GpsLogger -------------------------------
(***************************************************************************)
(* The GPS logger and the ROS bridge on the serial line of the GPS         *)
(* receiver.  Both use one terminal device, whose mode outlives the        *)
(* program that has set it: the logger leaves it as it is, line by line by *)
(* default; the bridge wants bytes.                                        *)
(***************************************************************************)
EXTENDS Integers, Sequences, FiniteSets

CONSTANTS
  Sentences,   \* the lengths of the receiver's sentences, in pieces
  Piece,       \* bytes in a piece
  Low, High,   \* 30 and 90: lengths between them are logged
  Total,       \* 128: records after which the logger ends
  Room         \* bound: what the terminal holds, in pieces and line ends

ASSUME GpsAssumption ==
  /\ Sentences \subseteq Nat \ {0} /\ Sentences # {}
  /\ Piece \in Nat \ {0} /\ Total \in Nat \ {0} /\ Room \in Nat
  /\ Low \in Nat \ {0} /\ High \in Nat

VARIABLES
  rest,     \* what the receiver still has to send of its sentence
  queue,    \* what the terminal holds: "first" and other "piece"s of sentences, "cr", "lf"
  mode,     \* of the terminal: "lines" or "bytes"
  lost,     \* history: whether the terminal has had no room for something
  logger,   \* "off", "read", "check", "done"
  count,    \* the logger's count
  torn,     \* history: whether a record but the first was not one whole sentence
  bridge    \* "none" so far, "on", "off"

gpsVars == <<rest, queue, mode, lost, logger, count, torn, bridge>>

Ends == {"cr", "lf"}

\* The bytes of a part of the line.
Length(part) ==
  LET ends == {k \in 1 .. Len(part) : part[k] \in Ends}
  IN Cardinality(ends) + Piece * (Len(part) - Cardinality(ends))
--------------------------------------------------------------------------------
(* The receiver and the terminal. *)

\* A sentence of n pieces, up to its carriage return, and all of it.
Line(n)     == [k \in 1 .. n + 1 |-> IF k = 1 THEN "first" ELSE IF k <= n THEN "piece" ELSE "cr"]
Sentence(n) == Append(Line(n), "lf")

TerminalReceives ==
  LET now == IF rest = <<>> THEN {Sentence(n) : n \in Sentences} ELSE {rest}
  IN \E s \in now :
       /\ rest' = Tail(s)
       /\ IF Len(queue) < Room THEN queue' = Append(queue, Head(s)) /\ UNCHANGED lost
          ELSE lost' = TRUE /\ UNCHANGED queue
       /\ UNCHANGED <<mode, logger, count, torn, bridge>>

\* A carriage return is taken for a line end too.
LineEnds == {k \in 1 .. Len(queue) : queue[k] \in Ends}
FirstEnd == CHOOSE k \in LineEnds : \A j \in LineEnds : k <= j

Readable == IF mode = "lines" THEN LineEnds # {} ELSE queue # <<>>

\* What a read takes: a line, or what is there.
Taken == IF mode = "lines" THEN SubSeq(queue, 1, FirstEnd) ELSE queue
Left  == IF mode = "lines" THEN SubSeq(queue, FirstEnd + 1, Len(queue)) ELSE <<>>
--------------------------------------------------------------------------------
(* The logger. *)

\* mutated: the logger asks for bytes
SetParityRaw == mode' = "bytes"

\* Speed, parity and the least number of bytes of a read; the mode stays.
SetParity == UNCHANGED mode

Start ==
  /\ logger = "off"
  /\ logger' = "read"
  /\ queue' = <<>>
  /\ SetParity
  /\ UNCHANGED <<rest, lost, count, torn, bridge>>

\* mutated: empty lines count too
AnyLine(part) == Length(part) < High

Counts(part) == Length(part) > Low /\ Length(part) < High

\* Bound: counts behind Total are not told apart, as none of them is it.
Read ==
  /\ logger = "read" /\ Readable
  /\ queue' = Left
  /\ IF Counts(Taken)
     THEN /\ count' = IF count > Total THEN count ELSE count + 1
          /\ torn' = (torn \/ (count > 0 /\ \A n \in Sentences : Taken # Line(n)))
          /\ UNCHANGED logger
     ELSE logger' = "check" /\ UNCHANGED <<count, torn>>
  /\ UNCHANGED <<rest, mode, lost, bridge>>

\* mutated: the count begins again
RecountCheck ==
  /\ logger = "check"
  /\ logger' = IF count = Total THEN "done" ELSE "read"
  /\ count' = 0
  /\ UNCHANGED <<rest, queue, mode, lost, torn, bridge>>

Check ==
  /\ logger = "check"
  /\ IF count = Total THEN logger' = "done" /\ count' = 0 ELSE logger' = "read" /\ UNCHANGED count
  /\ UNCHANGED <<rest, queue, mode, lost, torn, bridge>>
--------------------------------------------------------------------------------
(* The bridge. *)

BridgeStart ==
  /\ bridge # "on"
  /\ bridge' = "on" /\ mode' = "bytes"
  /\ UNCHANGED <<rest, queue, lost, logger, count, torn>>

\* It publishes what is there.
BridgeRead ==
  /\ bridge = "on" /\ Readable
  /\ queue' = Left
  /\ UNCHANGED <<rest, mode, lost, logger, count, torn, bridge>>

BridgeStop ==
  /\ bridge = "on"
  /\ bridge' = "off"
  /\ UNCHANGED <<rest, queue, mode, lost, logger, count, torn>>
--------------------------------------------------------------------------------
GpsInit ==
  /\ rest = <<>> /\ queue = <<>> /\ mode = "lines" /\ lost = FALSE
  /\ logger = "off" /\ count = 0 /\ torn = FALSE /\ bridge = "none"

GpsNext == TerminalReceives \/ Start \/ Read \/ Check \/ BridgeStart \/ BridgeRead \/ BridgeStop

\* The receiver sends, and the logger runs when it can.
Fairness == WF_gpsVars(TerminalReceives) /\ WF_gpsVars(Start \/ Read \/ Check)

GpsSpec == GpsInit /\ [][GpsNext]_gpsVars /\ Fairness
--------------------------------------------------------------------------------
\* No bridge has set the terminal, and it has had room for everything.
Undisturbed == bridge = "none" /\ ~lost

(* Without a bridge, the line feed behind each sentence is a line of its   *)
(* own, too short to be logged: the count is compared after each record and *)
(* cannot step over the total at which the logger ends.                     *)
NeverPastTotal == Undisturbed => count <= Total

(* Without a bridge, each record but the first, which the flush at the      *)
(* start may have cut, is one whole sentence.                               *)
RecordsWhole == Undisturbed => ~torn

(* Without a bridge, the logger ends if sentences that count keep coming.   *)
LoggerEnds ==
  []Undisturbed /\ []<>(\E n \in Sentences : Piece * n > Low /\ rest = Tail(Sentence(n)))
    => <>(logger = "done")
================================================================================
