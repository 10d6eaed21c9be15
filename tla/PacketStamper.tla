----------------------------- MODULE PacketStamper -----------------------------
(***************************************************************************)
(* PacketStamper::stampPacket: packets that carry the low bits of a        *)
(* counter, or no counter, get a 64-bit id.  The packets of one device     *)
(* come in late, twice, out of order or not at all.                        *)
(***************************************************************************)
EXTENDS Integers

CONSTANTS
  Half,      \* half the boundary: the counter in a packet wraps at 2 * Half
  MaxCount,  \* bound on the device's counter
  MaxId      \* bound on the ids

ASSUME HalfAssumption  == Half \in Nat \ {0}
ASSUME CountAssumption == MaxCount \in Nat /\ MaxId \in Nat

Boundary == 2 * Half

VARIABLES
  counted,    \* whether the device's packets carry a counter (packetCounter,
              \* packetCounter8 or the Awinda frame number), or none (or sampleTimeFine)
  next,       \* the device's counter, of the packet it sends next
  received,   \* the packets stamped, by the device's count of them
  id,         \* the id of each of them
  highest,    \* the id of highestPacket, -1 while it is empty
  highestOf   \* history: the device's count of highestPacket

stamperVars == <<counted, next, received, id, highest, highestOf>>

Empty == -1

\* mutated: a packet from before the last wrap is not recognised
WrapsUpOnly(frame, last) ==
  IF last < 0 THEN frame
  ELSE LET dt == frame - (last % Boundary)
       IN IF dt < -Half THEN last + dt + Boundary ELSE last + dt

\* calculateLargePacketCounter, and calculateLargeSampleTime with its own boundary
CalculateLargeCounter(frame, last) ==
  IF last < 0 THEN frame
  ELSE LET dt == frame - (last % Boundary)
       IN IF dt < -Half THEN last + dt + Boundary
          ELSE IF dt < Half THEN last + dt
          ELSE last + dt - Boundary

NewCounter(count) ==
  IF counted THEN CalculateLargeCounter(count % Boundary, highest) ELSE highest + 1

StamperInit ==
  /\ counted \in BOOLEAN
  /\ next \in 0 .. MaxCount
  /\ received = {}
  /\ id = <<>>
  /\ highest = Empty
  /\ highestOf = 0

\* The device counts one packet on; whether it arrives, and when, is open.
Produce ==
  /\ next < MaxCount
  /\ next' = next + 1
  /\ UNCHANGED <<counted, received, id, highest, highestOf>>

(* Packets come less than half a wrap away from the newest one stamped: a   *)
(* wait of that long is a gap of 128 samples even of the 8-bit counter.     *)
InWindow(count) ==
  highest # Empty => count - highestOf \in -Half .. (Half - 1)

\* mutated: the last packet is kept, whether it is the newest or not
KeepLast(count, new) ==
  /\ highest' = new
  /\ highestOf' = count

\* The packet is kept if its counter is higher than that of the one before.
KeepHighest(count, new) ==
  /\ highest' = IF new > highest THEN new ELSE highest
  /\ highestOf' = IF new > highest THEN count ELSE highestOf

\* A packet without an id: it may be older than others, or a second copy.
Stamp(count) ==
  /\ InWindow(count)
  /\ highest < MaxId
  /\ LET new == NewCounter(count)
     IN /\ KeepHighest(count, new)
        /\ received' = received \cup {count}
        /\ id' = [c \in received' |-> IF c = count THEN new ELSE id[c]]
  /\ UNCHANGED <<counted, next>>

\* A packet stamped before keeps its id, when that is positive.
StampAgain(count) ==
  /\ count \in received
  /\ id[count] > 0
  /\ KeepHighest(count, id[count])
  /\ UNCHANGED <<counted, next, received, id>>

StamperNext ==
  \/ Produce
  \/ \E count \in 0 .. (next - 1) : Stamp(count)
  \/ \E count \in received : StampAgain(count)

StamperSpec == StamperInit /\ [][StamperNext]_stamperVars
--------------------------------------------------------------------------------
StamperType ==
  /\ counted \in BOOLEAN
  /\ next \in 0 .. MaxCount
  /\ received \in SUBSET (0 .. MaxCount)
  /\ id \in [received -> Int]
  /\ highest \in Nat \cup {Empty}
  /\ highestOf \in 0 .. MaxCount

(* The ids of packets that carry a counter are as far apart as the packets  *)
(* are in the device's own count, across any number of wraps, and however   *)
(* the packets were lost, repeated or reordered; so a repeated packet gets  *)
(* the id it had, and a late one an id below those that overtook it.        *)
ExactDifferences ==
  counted => \A s, t \in received : id[s] - id[t] = s - t

(* highestPacket is the newest of the packets stamped.                      *)
HighestIsNewest ==
  /\ \A c \in received : id[c] <= highest
  /\ received # {} => highestOf \in received /\ id[highestOf] = highest
--------------------------------------------------------------------------------
(* Why the ids are exact: all of them differ from the device's count by what *)
(* the first one did, a multiple of the boundary.                            *)
Aligned(count, new) == (count - new) % Boundary = 0

StamperInv ==
  /\ StamperType
  /\ received # {} => highest # Empty
  /\ received = {} => highest = Empty
  /\ counted /\ highest # Empty =>
       /\ Aligned(highestOf, highest)
       /\ \A c \in received : c - id[c] = highestOf - highest
================================================================================
