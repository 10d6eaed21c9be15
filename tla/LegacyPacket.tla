----------------------------- MODULE LegacyPacket -----------------------------
(***************************************************************************)
(* LegacyDataPacket: one message with the data of all devices, and for     *)
(* each device a table of the offsets of its items.  updateInfoList makes  *)
(* the tables from the formats; a setter of an item that the message does  *)
(* not hold, or holds in the precision of the device, puts it behind the   *)
(* end in double precision and changes the table.                          *)
(***************************************************************************)
EXTENDS Integers, Sequences, FiniteSets, SequencesExt

CONSTANTS
  Systems,   \* what may be connected: a record of xm (behind an Xbus Master), the
             \* formats of the devices, and what each sends: its items and their bytes
  Topics,    \* sets of items; a behaviour sets items of one of them
  MaxSets,   \* bound on the number of calls of setters
  None,      \* of an item: the packet does not contain it
  Open       \* of an item: it is there, and nothing is promised of its value

VARIABLES
  system,   \* the one that is connected
  topic,    \* what is set
  packet,   \* [data |-> the data of m_msg, info |-> the tables of the devices]
  sets,     \* number of setters called
  told      \* history: of each device, what was received or set last of each item

vars == <<system, topic, packet, sets, told>>

\* The bytes of an item of integers, and the numbers of one of reals.
Ints == [rawAcc |-> 6, rawGyr |-> 6, rawMag |-> 6, rawTemp |-> 2,
         rawGyroTemp1 |-> 2, rawGyroTemp2 |-> 2, rawGyroTemp3 |-> 2,
         sdiHead |-> 7, sdiLast |-> 2, sdiAir |-> 3, sdiRssi |-> 1,
         pressure |-> 3, gpsData |-> 41, analogIn1 |-> 2, analogIn2 |-> 2,
         status |-> 1, detailedStatus |-> 4, sc |-> 2, utcTime |-> 12, sampleTimeFine |-> 4]
Reals == [temp |-> 1, gyroTemp1 |-> 1, gyroTemp2 |-> 1, gyroTemp3 |-> 1,
          sdiMotion |-> 10, sdiMag |-> 3, calAcc |-> 3, calGyr |-> 3, calMag |-> 3,
          oriQuat |-> 4, oriEul |-> 3, oriMat |-> 9, posLLA |-> 3, velocity |-> 3, freeAcc |-> 3]

Items    == DOMAIN Ints \cup DOMAIN Reals
Devices  == 1 .. Len(system.formats)
Format(d) == system.formats[d]

RawItems     == <<"rawAcc", "rawGyr", "rawMag", "rawTemp">>
RawGyroTemps == <<"rawGyroTemp1", "rawGyroTemp2", "rawGyroTemp3">>
GyroTemps    == <<"gyroTemp1", "gyroTemp2", "gyroTemp3">>
SdiItems     == <<"sdiHead", "sdiLast", "sdiMotion", "sdiAir", "sdiMag", "sdiRssi">>
GpsItems     == <<"pressure", "gpsData">>
CalItems     == <<"calAcc", "calGyr", "calMag">>

\* What there are setters for: items, and some of them together.
Settable == (Items \ (ToSet(SdiItems) \cup {"gpsData", "status", "detailedStatus"}))
            \cup {"rawData", "calData", "anyStatus", "gpsPvtData", "sdiData"}

Width(x, real) == IF x \in DOMAIN Ints THEN Ints[x] ELSE Reals[x] * real

\* Where each item begins, in a row of items behind an offset; and the end of the row.
Ends(items, start, real) ==
  LET end[k \in 0 .. Len(items)] ==
        IF k = 0 THEN start ELSE end[k - 1] + Width(items[k], real)
  IN end
End(items, start, real) == Ends(items, start, real)[Len(items)]
Begins(items, start, real) ==
  LET ends == Ends(items, start, real)
  IN [x \in ToSet(items) |-> ends[(CHOOSE k \in 1 .. Len(items) : items[k] = x) - 1]]
--------------------------------------------------------------------------------
(* updateInfoList. *)

\* The formats of devices: what is in their messages, how, and the bytes of a real.
DataFormats ==
  [mode : SUBSET {"Raw", "Sdi", "GpsPvt", "Temperature", "Calibrated", "Orientation",
                  "Auxiliary", "Position", "Velocity", "Status"},
   settings : SUBSET {"ExtendedTemperature", "NoGpsInGpsPvt", "NoAcc", "NoGyr", "NoMag",
                      "Euler", "Matrix", "NoAin1", "NoAin2", "Detailed", "PacketCounter",
                      "SampleUtc", "SampleTimeFine", "Ned"},
   real : {4, 6, 8}]

When(c, items) == IF c THEN items ELSE <<>>

\* The items of a device in the order of its message.  Euler and Matrix together are no
\* orientation mode, of which nothing is sent.
Layout(f) ==
  LET has(m) == m \in f.mode
      set(s) == s \in f.settings
  IN When(has("Raw"), RawItems \o When(set("ExtendedTemperature"), RawGyroTemps))
     \o When(has("Sdi"), SdiItems)
     \o When(has("GpsPvt"), <<"pressure">> \o When(~set("NoGpsInGpsPvt"), <<"gpsData">>))
     \o When(has("Temperature"), <<"temp">> \o When(set("ExtendedTemperature"), GyroTemps))
     \o When(has("Calibrated"), When(~set("NoAcc"), <<"calAcc">>)
                                \o When(~set("NoGyr"), <<"calGyr">>)
                                \o When(~set("NoMag"), <<"calMag">>))
     \o When(has("Orientation"), When(set("Euler") /\ ~set("Matrix"), <<"oriEul">>)
                                 \o When(set("Matrix") /\ ~set("Euler"), <<"oriMat">>)
                                 \o When(~set("Euler") /\ ~set("Matrix"), <<"oriQuat">>))
     \o When(has("Auxiliary"), When(~set("NoAin1"), <<"analogIn1">>)
                               \o When(~set("NoAin2"), <<"analogIn2">>))
     \o When(has("Position"), <<"posLLA">>)
     \o When(has("Velocity"), <<"velocity">>)
     \o When(has("Status"), IF set("Detailed") THEN <<"detailedStatus">> ELSE <<"status">>)
     \o When(set("PacketCounter"), <<"sc">>)
     \o When(set("SampleUtc"), <<"utcTime">>)
     \o When(set("SampleTimeFine"), <<"sampleTimeFine">>)

\* The table of a device whose data begin at start.  rawData and calData are there if
\* a part of them is.  Behind an Xbus Master the counter of all is in front.
Table(f, start, xm) ==
  LET own == Begins(Layout(f), start, f.real)
      has(x) == x \in DOMAIN own
      cal == IF has("calAcc") THEN "calAcc" ELSE IF has("calGyr") THEN "calGyr" ELSE "calMag"
      other == (IF xm \/ has("sdiLast") THEN {"sc"} ELSE {})
               \cup (IF has("rawAcc") THEN {"rawData"} ELSE {})
               \cup (IF has(cal) THEN {"calData"} ELSE {})
  IN [at |-> [x \in DOMAIN own \cup other |->
                CASE x = "sc" /\ xm -> 0
                  [] x = "sc" /\ ~xm /\ ~has("sc") -> own["sdiLast"]
                  [] x = "rawData" -> own["rawAcc"]
                  [] x = "calData" -> own[cal]
                  [] OTHER -> own[x]],
      size |-> End(Layout(f), start, f.real) - start,
      boundary |-> End(Layout(f), start, f.real)]

UpdateInfoList(formats, xm) ==
  LET table[d \in 1 .. Len(formats)] ==
        Table(formats[d], IF d = 1 THEN IF xm THEN 2 ELSE 0 ELSE table[d - 1].boundary, xm)
  IN [d \in 1 .. Len(formats) |-> table[d]]
--------------------------------------------------------------------------------
(* Items in the message.  A byte tells what it is a part of: of which item  *)
(* and value, in which precision, and the how-manieth byte.                 *)

Blank == <<"blank", <<0, 0>>, 0, 0>>
Blanks(n) == [k \in 1 .. n |-> Blank]

\* The last frame of an SDI interval is a counter of packets.
Kind(x) == IF x = "sdiLast" THEN "sc" ELSE x

Encoded(x, v, real) ==
  [k \in 1 .. Width(x, real) |-> <<Kind(x), v, IF x \in DOMAIN Ints THEN 0 ELSE real, k>>]

Has(p, d, x) == x \in DOMAIN p.info[d].at
At(p, d, x)  == p.info[d].at[x]
\* mutated: an item that begins at the boundary is taken for the device's
IsBehind(p, d, x) == At(p, d, x) > p.info[d].boundary
IsDouble(p, d, x) == At(p, d, x) >= p.info[d].boundary
Real(p, d, x) == IF IsDouble(p, d, x) THEN 8 ELSE Format(d).real

Holds(p, d, x) == p.info[d].size # 0 /\ Has(p, d, x)

\* What a getter finds; nothing that was written reads as <<>>.
Decoded(bytes, x, real) ==
  IF Len(bytes) = Width(x, real) /\ bytes = Encoded(x, bytes[1][2], real) THEN bytes[1][2] ELSE <<>>

\* The getter of a matrix goes from number to number by the size they have in the
\* device's format, whatever they are read as.
MatrixBytes(p, d) ==
  LET real == Real(p, d, "oriMat")
      from == At(p, d, "oriMat")
  IN [k \in 1 .. 9 * real |->
        p.data[from + ((k - 1) \div real) * Format(d).real + ((k - 1) % real) + 1]]

Get(p, d, x) ==
  LET real == Real(p, d, x)
      from == At(p, d, x)
  IN Decoded(IF x = "oriMat" THEN MatrixBytes(p, d)
             ELSE SubSeq(p.data, from + 1, from + Width(x, real)), x, real)

\* The data with bytes written at an offset, resized first if they end behind the end.
Overwritten(data, from, bytes) ==
  LET to == from + Len(bytes)
      room == data \o Blanks(to - Len(data))
  IN SubSeq(room, 1, from) \o bytes \o SubSeq(room, to + 1, Len(room))

Written(p, d, x, v) ==
  [p EXCEPT !.data = Overwritten(@, At(p, d, x), Encoded(x, v, Real(p, d, x)))]

\* Those of the items that the device has, one after the other.
WrittenAll(p, d, items, v) ==
  LET data[k \in 0 .. Len(items)] ==
        IF k = 0 THEN p.data
        ELSE IF Has(p, d, items[k])
             THEN Overwritten(data[k - 1], At(p, d, items[k]),
                              Encoded(items[k], v, Real(p, d, items[k])))
             ELSE data[k - 1]
  IN [p EXCEPT !.data = data[Len(items)]]

\* Table f, and where it has nothing table g.
Over(f, g) == [x \in DOMAIN f \cup DOMAIN g |-> IF x \in DOMAIN f THEN f[x] ELSE g[x]]

\* Room for items behind the end, reals in double precision.
Appended(p, d, items) ==
  LET end == End(items, Len(p.data), 8)
  IN [p EXCEPT !.data = @ \o Blanks(end - Len(@)),
               !.info[d].at = Over(Begins(items, Len(p.data), 8), @),
               !.info[d].size = @ + end - Len(p.data)]

\* A name for the item that begins where x does.
Named(p, d, name, x) == [p EXCEPT !.info[d].at = Over([y \in {name} |-> @[x]], @)]
--------------------------------------------------------------------------------
(* Setters. *)

\* Integers and temperatures stay where they are.
SetInPlace(p, d, x, v) == Written(IF Has(p, d, x) THEN p ELSE Appended(p, d, <<x>>), d, x, v)

SetRawData(p, d, v) ==
  LET q == IF Has(p, d, "rawData") THEN p
           ELSE Named(Appended(p, d, RawItems \o RawGyroTemps), d, "rawData", "rawAcc")
  IN WrittenAll(q, d, RawItems \o RawGyroTemps, v)

SetGpsPvtData(p, d, v) ==
  WrittenAll(IF Has(p, d, "pressure") THEN p ELSE Appended(p, d, GpsItems), d, GpsItems, v)

SetMtwSdiData(p, d, v) ==
  WrittenAll(IF Has(p, d, "sdiHead") THEN p ELSE Appended(p, d, SdiItems), d, SdiItems, v)

SetStatus(p, d, v) ==
  IF Has(p, d, "status") THEN Written(p, d, "status", v) ELSE SetInPlace(p, d, "detailedStatus", v)

\* Vectors and orientations in the device's precision are put behind the end.
SetReals(p, d, x, v) ==
  Written(IF Has(p, d, x) /\ IsDouble(p, d, x) THEN p ELSE Appended(p, d, <<x>>), d, x, v)

SetCalibratedData(p, d, v) ==
  LET q == IF Has(p, d, "calData") /\ IsDouble(p, d, "calData") THEN p
           ELSE Named(Appended(p, d, CalItems), d, "calData", "calAcc")
  IN WrittenAll(q, d, CalItems, v)

\* setVelocity asks about the position.  65535, of no position, is behind every boundary.
SetVelocity(p, d, v) ==
  LET stays == Has(p, d, "velocity") /\ (Has(p, d, "posLLA") => IsDouble(p, d, "posLLA"))
  IN Written(IF stays THEN p ELSE Appended(p, d, <<"velocity">>), d, "velocity", v)

\* A matrix that is there in double precision is written with the steps of the
\* device's format: each number over the rest of the one before it.
SetOrientationMatrix(p, d, v) ==
  IF ~(Has(p, d, "oriMat") /\ IsDouble(p, d, "oriMat")) THEN SetReals(p, d, "oriMat", v)
  ELSE LET step == Format(d).real
           new == Encoded("oriMat", v, 8)
           number(k) == IF (k - 1) \div step > 8 THEN 8 ELSE (k - 1) \div step
       IN [p EXCEPT !.data = Overwritten(@, At(p, d, "oriMat"),
             [k \in 1 .. 8 * step + 8 |-> new[8 * number(k) + (k - number(k) * step)]])]
--------------------------------------------------------------------------------
(* Receiving, setting, and setting the format anew. *)

Counters == {"sc", "sdiLast"}
Moving   == ToSet(CalItems) \cup {"oriQuat", "oriEul", "oriMat", "posLLA", "velocity", "freeAcc"}

\* Whether device d sends an item.  Behind an Xbus Master there is one counter, and
\* every device sends something.
Sends(d, x) ==
  \/ \E k \in 1 .. Len(system.sends[d]) : system.sends[d][k][1] = x
  \/ x = "sc" /\ system.sends[d] # <<>>
       /\ (system.xm \/ \E k \in 1 .. Len(system.sends[d]) : system.sends[d][k][1] = "sdiLast")
Sent(d, x) == IF system.xm /\ x = "sc" THEN <<0, 0>> ELSE <<d, 0>>

\* The message of the devices: each of its items, in the bytes it takes.
Message ==
  LET item(d, x, n) == [k \in 1 .. n |->
                          <<Kind(x), Sent(d, x), IF x \in DOMAIN Ints THEN 0 ELSE Format(d).real, k>>]
      own(d) == FlattenSeq([k \in 1 .. Len(system.sends[d]) |->
                              item(d, system.sends[d][k][1], system.sends[d][k][2])])
  IN (IF system.xm THEN item(1, "sc", 2) ELSE <<>>) \o FlattenSeq([d \in Devices |-> own(d)])

Init ==
  /\ system \in Systems /\ topic \in Topics /\ sets = 0
  /\ packet = [data |-> Message, info |-> UpdateInfoList(system.formats, system.xm)]
  /\ told = [d \in Devices |-> [x \in Items |-> IF Sends(d, x) THEN Sent(d, x) ELSE None]]

\* The value of the next call.
New(d) == <<d, sets + 1>>

\* The names of the bytes of some items of device d in p: a counter has several.
Names(p, d, items) ==
  {n \in Devices \X Items :
     \E x \in items :
       /\ Has(p, d, x)
       /\ \/ n = <<d, x>>
          \/ /\ {x, n[2]} \subseteq Counters /\ Holds(p, n[1], n[2])
             /\ At(p, n[1], n[2]) = At(p, d, x)}

\* A setter of items of device d makes p of the packet.
Tell(d, items, p) ==
  LET names == Names(p, d, items)
  IN /\ sets < MaxSets
     /\ sets' = sets + 1
     /\ packet' = p
     /\ told' = [e \in Devices |-> [y \in Items |->
                   IF <<e, y>> \notin names THEN told[e][y]
                   ELSE IF y = "oriMat" /\ IsDouble(p, e, y) /\ Format(e).real # 8 THEN Open
                   ELSE New(d)]]
     /\ UNCHANGED <<system, topic>>

\* All setters but setMtwSdiData refuse a device without data.
Sized(d) == packet.info[d].size # 0

SetOne(d) ==
  \E x \in topic \cap Items :
    /\ Sized(d) /\ x \notin {"velocity", "oriMat"}
    /\ x \in ToSet(RawGyroTemps \o GyroTemps) => Has(packet, d, x)
    /\ IF x \in Moving THEN Tell(d, {x}, SetReals(packet, d, x, New(d)))
       ELSE Tell(d, {x}, SetInPlace(packet, d, x, New(d)))

\* Without data of its own, or as the last one, a device may have SDI data set.
SetOther(d) ==
  \/ /\ Sized(d)
     /\ \/ "rawData" \in topic
           /\ Tell(d, ToSet(RawItems \o RawGyroTemps), SetRawData(packet, d, New(d)))
        \/ "calData" \in topic /\ Tell(d, ToSet(CalItems), SetCalibratedData(packet, d, New(d)))
        \/ "anyStatus" \in topic
           /\ Tell(d, {"status", "detailedStatus"}, SetStatus(packet, d, New(d)))
        \/ "velocity" \in topic /\ Tell(d, {"velocity"}, SetVelocity(packet, d, New(d)))
        \/ "oriMat" \in topic /\ Tell(d, {"oriMat"}, SetOrientationMatrix(packet, d, New(d)))
        \/ "gpsPvtData" \in topic /\ (Has(packet, d, "pressure") => Has(packet, d, "gpsData"))
           /\ Tell(d, ToSet(GpsItems), SetGpsPvtData(packet, d, New(d)))
  \/ "sdiData" \in topic /\ Tell(d, ToSet(SdiItems), SetMtwSdiData(packet, d, New(d)))

\* setDataFormat, with the format there is: what was added is forgotten, and of what was
\* moved the original is found again.  A velocity may have been changed in its place.
SetDataFormat ==
  /\ packet' = [packet EXCEPT !.info = UpdateInfoList(system.formats, system.xm)]
  /\ told' = [d \in Devices |-> [x \in Items |->
                IF ~Sends(d, x) THEN None
                ELSE IF x \notin Moving \/ told[d][x] = Sent(d, x) THEN told[d][x]
                ELSE IF x = "velocity" THEN Open ELSE Sent(d, x)]]
  /\ UNCHANGED <<system, topic, sets>>

Next == SetDataFormat \/ \E d \in Devices : SetOne(d) \/ SetOther(d)

Spec == Init /\ [][Next]_vars
--------------------------------------------------------------------------------
(* Of each device the packet contains the items it sent and those that were *)
(* set, and no others; and each getter gives what was received or set last, *)
(* in the precision it is kept in, whatever else has been set of this or    *)
(* another device, alone or with others, moved or in its place.  Vectors    *)
(* and orientations that were set are kept in double precision, but for a   *)
(* velocity; the raw data read as one are their parts.                      *)
LegacyAsTold ==
  \A d \in Devices :
    /\ \A x \in Items :
         /\ Holds(packet, d, x) <=> told[d][x] # None
         /\ told[d][x] \notin {None, Open} => Get(packet, d, x) = told[d][x]
         /\ x \in Moving \ {"velocity"} /\ told[d][x] \notin {None, Open, Sent(d, x)}
              => packet.data[At(packet, d, x) + 1][3] = 8
    /\ Holds(packet, d, "rawData") =>
         Begins(RawItems, At(packet, d, "rawData"), 8)
           = [x \in ToSet(RawItems) |-> At(packet, d, x)]
================================================================================
