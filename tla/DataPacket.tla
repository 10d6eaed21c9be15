------------------------------ MODULE DataPacket ------------------------------
(***************************************************************************)
(* XsDataPacket: a map from data identifiers to items.  Several items can  *)
(* say the same thing: three forms of an orientation, two of the counter,  *)
(* of the status, of the sample time and of the raw data.  The setters,    *)
(* merge and the message conversions decide which of them a packet holds;  *)
(* the getters look for the one that is there and convert it.              *)
(***************************************************************************)
EXTENDS Integers, Sequences, FiniteSets

CONSTANTS
  Packets,    \* the packets a program works with
  Groups,     \* the groups of items of a run; a behaviour uses one of them
  Rotations,  \* orientations callers give, quaternions of integers
  Velocities, \* velocities callers give
  Frames,     \* the coordinate systems callers ask for: "enu", "ned", "nwu"
  Boundary,   \* the 2^16 of PacketCounter and of the ends of FrameRange
  CoarseFactor,  \* 10000: SampleTimeFine ticks in one of SampleTimeCoarse
  RawParts,   \* of raw data: "acc", "gyr", "mag"
  Formats,    \* the formats devices send values in, with the grain values have in it
  Half,       \* the 2^32 of SampleTimeFine, SampleTimeCoarse and the halves of SampleTime64
  None,       \* of a quantity: the packet does not contain it
  Open        \* of a quantity: it is there, and nothing is promised of its value

ASSUME PacketAssumption ==
  /\ Boundary \in Nat \ {0} /\ CoarseFactor \in Nat \ {0} /\ Half \in Nat \ {0}
  /\ Frames \subseteq {"enu", "ned", "nwu"}
  /\ RawParts \subseteq {"acc", "gyr", "mag"}
  /\ Formats \in [{"float", "double"} -> Nat \ {0}]
  /\ Rotations \subseteq (Int \X Int \X Int \X Int) \ {<<0, 0, 0, 0>>}
  /\ Velocities \subseteq Int \X Int \X Int

\* A double holds every value there is.
ASSUME FormatAssumption == Formats["double"] = 1

\* None and Open are nothing a packet can be told.
ASSUME NoneAssumption ==
  /\ None # Open
  /\ \A mark \in {None, Open} :
       /\ mark \notin Int /\ mark \notin Int \X Int
       /\ mark \notin [rot : Rotations, frame : Frames]
       /\ mark \notin [vel : Velocities, frame : Frames]

VARIABLES
  group,    \* the group of items this behaviour is about
  pkt,      \* the packets: each a function from the ids of its items to their data
  told      \* history: what each packet was told last of each quantity

vars == <<group, pkt, told>>

Orientations == {"Quaternion", "RotationMatrix", "EulerAngles"}
Raw == [acc |-> "RawAcc", gyr |-> "RawGyr", mag |-> "RawMag"]

\* Items of one value: integers, other numbers, and vectors, of which FreeAcceleration
\* is written in single precision.  GpsSol stands for Itow and GpsAge too, DeltaQ for
\* both increments of SDI data.
Whole   == {"BaroPressure", "PressureAge", "GpsSol", "Rssi"}
Numbers == Whole \cup {"Temperature", "AltitudeEllipsoid"}
Values  == Numbers \cup {"Acceleration", "FreeAcceleration", "RateOfTurn", "MagneticField",
                        "LatLon", "DeltaQ", "RawGyroTemp", "UtcTime"}

\* The quantities that an item says something of.
SaidBy(id) ==
  CASE id \in Orientations -> {"orientation"}
    [] id = "VelocityXYZ" -> {"velocity"}
    [] id \in {"PacketCounter", "FrameRange"} -> {"counter"}
    [] id \in {"StatusByte", "StatusWord"} -> {"status"}
    [] id = "RawAccGyrMagTemp" -> RawParts \cup {"temp"}
    [] id \in {Raw[part] : part \in RawParts} -> {part \in RawParts : Raw[part] = id}
    [] id \in Values -> {id}
    [] OTHER -> {}

ItemsOf == [orientation |-> Orientations \cup {"VelocityXYZ"},
            counter |-> {"PacketCounter", "FrameRange"},
            status  |-> {"StatusByte", "StatusWord"},
            time    |-> {"SampleTimeFine", "SampleTimeCoarse", "SampleTime64"},
            raw     |-> {"RawAccGyrMagTemp"} \cup {Raw[part] : part \in RawParts},
            values  |-> {"Acceleration", "FreeAcceleration", "Temperature"},
            place   |-> {"LatLon", "AltitudeEllipsoid"},
            gps     |-> Whole \ {"Rssi"},
            legacy  |-> Values \cup Orientations
                        \cup {"VelocityXYZ", "PacketCounter", "StatusWord", "RawAccGyrMagTemp"}]

ASSUME GroupsAssumption == Groups \subseteq DOMAIN ItemsOf

Quantities == UNION {SaidBy(id) : id \in ItemsOf[group]}

Nothing == [q \in Quantities |-> None]
Empty   == [id \in {} |-> None]
--------------------------------------------------------------------------------
(* DataPacketPrivate. *)

Has(p, id) == id \in DOMAIN p
Insert(p, id, item) == [x \in DOMAIN p \cup {id} |-> IF x = id THEN item ELSE p[x]]
Erase(p, ids) == [id \in DOMAIN p \ ids |-> p[id]]
Overlay(f, g) == [x \in DOMAIN f \cup DOMAIN g |-> IF x \in DOMAIN f THEN f[x] ELSE g[x]]
MergeItems(p, q, over) == IF over THEN Overlay(q, p) ELSE Overlay(p, q)
--------------------------------------------------------------------------------
(* Orientation and velocity. *)

\* The quaternion product; a quaternion stands for its multiples too.
Mul(a, b) ==
  <<a[1]*b[1] - a[2]*b[2] - a[3]*b[3] - a[4]*b[4],
    a[1]*b[2] + a[2]*b[1] + a[3]*b[4] - a[4]*b[3],
    a[1]*b[3] - a[2]*b[4] + a[3]*b[1] + a[4]*b[2],
    a[1]*b[4] + a[2]*b[3] - a[3]*b[2] + a[4]*b[1]>>

Norm(q) == q[1]*q[1] + q[2]*q[2] + q[3]*q[3] + q[4]*q[4]

\* The vector v rotated by the quaternion q, times the norm of q.
Rotate(q, v) ==
  LET r == Mul(Mul(q, <<0, v[1], v[2], v[3]>>), <<q[1], -q[2], -q[3], -q[4]>>)
  IN <<r[2], r[3], r[4]>>

\* mutated: enu to nwu turned the wrong way
PreRotTurned(actual, desired) ==
  CASE actual = desired -> <<1, 0, 0, 0>>
    [] actual = "ned" /\ desired = "enu" -> <<0, 1, 1, 0>>
    [] actual = "nwu" /\ desired = "enu" -> <<1, 0, 0, 1>>
    [] actual = "enu" /\ desired = "ned" -> <<0, -1, -1, 0>>
    [] actual = "nwu" /\ desired = "ned" -> <<0, 1, 0, 0>>
    [] actual = "enu" /\ desired = "nwu" -> <<1, 0, 0, 1>>
    [] actual = "ned" /\ desired = "nwu" -> <<0, -1, 0, 0>>

PreRotFromXdi(actual, desired) ==
  CASE actual = desired -> <<1, 0, 0, 0>>
    [] actual = "ned" /\ desired = "enu" -> <<0, 1, 1, 0>>
    [] actual = "nwu" /\ desired = "enu" -> <<1, 0, 0, 1>>
    [] actual = "enu" /\ desired = "ned" -> <<0, -1, -1, 0>>
    [] actual = "nwu" /\ desired = "ned" -> <<0, 1, 0, 0>>
    [] actual = "enu" /\ desired = "nwu" -> <<1, 0, 0, -1>>
    [] actual = "ned" /\ desired = "nwu" -> <<0, -1, 0, 0>>

\* The items the getter of each form looks for, in this order.
Search == [Quaternion     |-> <<"Quaternion", "RotationMatrix", "EulerAngles">>,
           RotationMatrix |-> <<"RotationMatrix", "Quaternion", "EulerAngles">>,
           EulerAngles    |-> <<"EulerAngles", "RotationMatrix", "Quaternion">>]

\* The getter of one form, in the coordinate system it is asked for: the three
\* forms are the same rotation, up to rounding.
Orientation(p, form, frame) ==
  LET k == CHOOSE k \in 1 .. 3 : Has(p, Search[form][k])
                                 /\ \A j \in 1 .. k - 1 : ~Has(p, Search[form][j])
      item == p[Search[form][k]]
  IN Mul(PreRotFromXdi(item.frame, frame), item.rot)

Velocity(p, desired) ==
  LET v == p["VelocityXYZ"].vel
      actual == p["VelocityXYZ"].frame
  IN CASE desired = actual -> v
       [] desired = "enu" /\ actual = "nwu" -> <<-v[2], v[1], v[3]>>
       [] desired = "enu" /\ actual = "ned" -> <<v[2], v[1], -v[3]>>
       [] desired = "nwu" /\ actual = "enu" -> <<v[2], -v[1], v[3]>>
       [] desired = "nwu" /\ actual = "ned" -> <<v[1], -v[2], -v[3]>>
       [] desired = "ned" /\ actual = "enu" -> <<v[2], v[1], -v[3]>>
       [] desired = "ned" /\ actual = "nwu" -> <<v[1], -v[2], -v[3]>>

SetOrientation(p, form, rot, frame) ==
  Insert(Erase(p, Orientations), form, [rot |-> rot, frame |-> frame])

SetVelocity(p, vel, frame) == Insert(p, "VelocityXYZ", [vel |-> vel, frame |-> frame])
--------------------------------------------------------------------------------
(* Counter, status and sample time. *)

PacketCounter(p) ==
  IF Has(p, "PacketCounter") THEN p["PacketCounter"]
  ELSE IF Has(p, "FrameRange") THEN p["FrameRange"].last % Boundary ELSE 0

SetPacketCounter(p, c) == Erase(Insert(p, "PacketCounter", c), {"FrameRange"})
SetFrameRange(p, r)    == Erase(Insert(p, "FrameRange", r), {"PacketCounter"})

\* A status is <<high, low>>, its bits above the lowest byte and that byte.
Status(p) ==
  IF Has(p, "StatusWord") THEN p["StatusWord"]
  ELSE IF Has(p, "StatusByte") THEN <<0, p["StatusByte"]>> ELSE <<0, 0>>

SetStatus(p, word) == Insert(Erase(p, {"StatusByte"}), "StatusWord", word)

SetStatusByte(p, byte) ==
  IF Has(p, "StatusWord") THEN SetStatus(p, <<p["StatusWord"][1], byte>>)
  ELSE Insert(p, "StatusByte", byte)

ContainsSampleTime64(p) ==
  Has(p, "SampleTime64") \/ (Has(p, "SampleTimeCoarse") /\ Has(p, "SampleTimeFine"))

SampleTime64(p) ==
  IF Has(p, "SampleTime64") THEN p["SampleTime64"]
  ELSE LET coarse == IF Has(p, "SampleTimeCoarse") THEN p["SampleTimeCoarse"] * CoarseFactor ELSE 0
           fine   == IF Has(p, "SampleTimeFine") THEN p["SampleTimeFine"] ELSE 0
       IN coarse + IF Has(p, "SampleTimeCoarse") THEN fine % CoarseFactor ELSE fine

\* Write an item, and bring SampleTime64 up to date if it is there.
SetSampleTimeFine(p, t) ==
  LET new == Insert(p, "SampleTimeFine", t) IN
  IF Has(p, "SampleTime64")
  THEN [new EXCEPT !["SampleTime64"] = CoarseFactor * (@ \div CoarseFactor) + (t % CoarseFactor)]
  ELSE new

\* mutated: SampleTime64 is forgotten
SetCoarseOnly(p, t) == Insert(p, "SampleTimeCoarse", t)

SetSampleTimeCoarse(p, t) ==
  LET new == Insert(p, "SampleTimeCoarse", t) IN
  IF Has(p, "SampleTime64")
  THEN [new EXCEPT !["SampleTime64"] = CoarseFactor * t + (@ % CoarseFactor)]
  ELSE new

SetSampleTime64(p, t) ==
  LET coarse == Insert(Insert(p, "SampleTime64", t), "SampleTimeCoarse", (t \div CoarseFactor) % Half)
  IN Insert(coarse, "SampleTimeFine", t % CoarseFactor)
--------------------------------------------------------------------------------
(* Raw data and values. *)

RawVector(p, part) ==
  IF Has(p, "RawAccGyrMagTemp") THEN p["RawAccGyrMagTemp"][part] ELSE p[Raw[part]]

SetRawVector(p, part, v) ==
  IF Has(p, "RawAccGyrMagTemp") THEN [p EXCEPT !["RawAccGyrMagTemp"][part] = v]
  ELSE Insert(p, Raw[part], v)

\* The other parts of a new item are zero.
SetRawTemperature(p, t) ==
  IF Has(p, "RawAccGyrMagTemp") THEN [p EXCEPT !["RawAccGyrMagTemp"]["temp"] = t]
  ELSE Insert(p, "RawAccGyrMagTemp", [x \in RawParts \cup {"temp"} |-> IF x = "temp" THEN t ELSE 0])

SetRawData(p, data) == Insert(p, "RawAccGyrMagTemp", data)

\* mutated: the format of the item that is there stays
SetSimple(p, id, v, format) ==
  IF Has(p, id) THEN [p EXCEPT ![id].value = v]
  ELSE Insert(p, id, [value |-> v, format |-> format])

GenericSet(p, id, v, format) == Insert(p, id, [value |-> v, format |-> format])

\* A number keeps the format it came in; GenericSimple::set.
SetNumber(p, id, v, format) ==
  IF Has(p, id) THEN [p EXCEPT ![id].value = v]
  ELSE Insert(p, id, [value |-> v, format |-> format])

SetValue(p, id, v) ==
  CASE id \in Numbers -> SetNumber(p, id, v, "double")
    [] id = "FreeAcceleration" -> GenericSet(p, id, v, "float")
    [] OTHER -> GenericSet(p, id, v, "double")

SetPositionLLA(p, place, height) ==
  SetValue(SetValue(p, "LatLon", place), "AltitudeEllipsoid", height)

SetPressure(p, pressure, age) ==
  SetValue(SetValue(p, "BaroPressure", pressure), "PressureAge", age)

SetGpsPvtData(p, pressure, age, sol) ==
  SetValue(SetPressure(p, pressure, age), "GpsSol", sol)
--------------------------------------------------------------------------------
(* merge. *)

KeepOne(p, other, over, id1, id2) ==
  IF Has(p, id1) /\ Has(p, id2)
  THEN IF Has(other, id1) # over THEN Erase(p, {id1}) ELSE Erase(p, {id2})
  ELSE p

Merged(p, q, over) ==
  LET m1 == KeepOne(MergeItems(p, q, over), q, over, "Quaternion", "RotationMatrix")
      m2 == KeepOne(m1, q, over, "Quaternion", "EulerAngles")
      m3 == KeepOne(m2, q, over, "EulerAngles", "RotationMatrix")
      m4 == KeepOne(m3, q, over, "PacketCounter", "FrameRange")
      m5 == KeepOne(m4, q, over, "SampleTime64", "SampleTimeCoarse")
  IN KeepOne(m5, q, over, "SampleTime64", "SampleTimeFine")
--------------------------------------------------------------------------------
(* Messages.  A message is whole if every item ends where the next begins,  *)
(* and the last one at the end of the data.                                 *)

\* A value is rounded to the grain of its format.
Rounded(item) == [item EXCEPT !.value = @ - (@ % Formats[item.format])]

Parsed(msg) == IF msg.whole THEN msg.items ELSE Empty

\* What a reader gets of an item that toMessage has written.  A range is unwrapped;
\* both halves of SampleTime64 go to the place of the higher one.
OnWire(id, item) ==
  CASE id = "FrameRange" ->
         LET first == item.first % Boundary
         IN [first |-> first, last |-> first + ((item.last - item.first) % Boundary)]
    [] id = "SampleTime64" -> (item % Half) * Half
    [] id \in Values -> Rounded(item)
    [] OTHER -> item

Written(p) == [items |-> [id \in DOMAIN p |-> OnWire(id, p[id])], whole |-> TRUE]
--------------------------------------------------------------------------------
Known(v) == v \notin {None, Open}

Init ==
  /\ group \in Groups
  /\ pkt = [i \in Packets |-> Empty]
  /\ told = [i \in Packets |-> Nothing]

\* Packet i becomes p, and has been told values of some quantities.
TellAll(i, p, values) ==
  /\ pkt' = [pkt EXCEPT ![i] = p]
  /\ told' = [told EXCEPT ![i] = Overlay(values, @)]
  /\ UNCHANGED group

Tell(i, p, q, value) == TellAll(i, p, [x \in {q} |-> value])

TellOrientation(i) ==
  /\ group = "orientation"
  /\ \E form \in Orientations, rot \in Rotations, frame \in Frames :
       Tell(i, SetOrientation(pkt[i], form, rot, frame), "orientation",
            [rot |-> rot, frame |-> frame])

TellVelocity(i) ==
  /\ group = "orientation"
  /\ \E vel \in Velocities, frame \in Frames :
       Tell(i, SetVelocity(pkt[i], vel, frame), "velocity", [vel |-> vel, frame |-> frame])

Counts == 0 .. Boundary - 1
Ranges == {[first |-> f, last |-> l] : f \in Counts, l \in 0 .. 2 * Boundary - 1}

TellCounter(i) ==
  /\ group = "counter"
  /\ \/ \E c \in Counts : Tell(i, SetPacketCounter(pkt[i], c), "counter", c)
     \/ \E r \in Ranges : /\ r.first <= r.last
                          /\ Tell(i, SetFrameRange(pkt[i], r), "counter", r.last % Boundary)

SomeBytes == {0, 1}

\* Of a status told before, a byte changes the lowest byte only.
TellStatus(i) ==
  /\ group = "status"
  /\ \/ \E word \in SomeBytes \X SomeBytes : Tell(i, SetStatus(pkt[i], word), "status", word)
     \/ \E byte \in SomeBytes :
          LET old == told[i]["status"]
          IN Tell(i, SetStatusByte(pkt[i], byte), "status",
                  IF old = Open THEN Open ELSE IF old = None THEN <<0, byte>> ELSE <<old[1], byte>>)

\* Times of 2^32 seconds and more, which no coarse time can say, are not told.
TellTime(i) ==
  /\ group = "time"
  /\ \/ \E t \in 0 .. Half - 1 : \/ pkt' = [pkt EXCEPT ![i] = SetSampleTimeFine(@, t)]
                                 \/ pkt' = [pkt EXCEPT ![i] = SetSampleTimeCoarse(@, t)]
     \/ \E t \in 0 .. CoarseFactor * Half - 1 : pkt' = [pkt EXCEPT ![i] = SetSampleTime64(@, t)]
  /\ UNCHANGED <<group, told>>

SomeValues == 1 .. 2

\* Of raw data set before, a new temperature may hide the rest.
TellRaw(i) ==
  /\ group = "raw"
  /\ \/ \E part \in RawParts, v \in SomeBytes : Tell(i, SetRawVector(pkt[i], part, v), part, v)
     \/ \E t \in SomeBytes :
          /\ pkt' = [pkt EXCEPT ![i] = SetRawTemperature(@, t)]
          /\ told' = [told EXCEPT ![i] = [q \in Quantities |->
                        IF q = "temp" THEN t
                        ELSE IF Has(pkt[i], "RawAccGyrMagTemp") THEN @[q] ELSE Open]]
          /\ UNCHANGED group
     \/ \E data \in [RawParts \cup {"temp"} -> SomeBytes] :
          /\ pkt' = [pkt EXCEPT ![i] = SetRawData(@, data)]
          /\ told' = [told EXCEPT ![i] = data]
          /\ UNCHANGED group

\* Values of the items of the group, each of its own and, of a place and of the data
\* of a GPS receiver, together.
TellValue(i) ==
  \/ /\ group \in {"values", "place"}
     /\ \E id \in ItemsOf[group], v \in SomeValues : Tell(i, SetValue(pkt[i], id, v), id, v)
  \/ /\ group = "place"
     /\ \E place, height \in SomeValues :
          TellAll(i, SetPositionLLA(pkt[i], place, height),
                  [LatLon |-> place, AltitudeEllipsoid |-> height])
  \/ /\ group = "gps"
     /\ \E pressure, age, sol \in SomeValues :
          \/ TellAll(i, SetPressure(pkt[i], pressure, age),
                     [BaroPressure |-> pressure, PressureAge |-> age])
          \/ TellAll(i, SetGpsPvtData(pkt[i], pressure, age, sol),
                     [BaroPressure |-> pressure, PressureAge |-> age, GpsSol |-> sol])

Contains(p, q) == \E id \in DOMAIN p : q \in SaidBy(id)

\* clear(id), of an item that is there.
ClearItem(i) ==
  \E id \in DOMAIN pkt[i] :
    /\ pkt' = [pkt EXCEPT ![i] = Erase(@, {id})]
    /\ told' = [told EXCEPT ![i] = [q \in Quantities |->
                  IF q \notin SaidBy(id) THEN @[q]
                  ELSE IF Contains(pkt'[i], q) THEN Open ELSE None]]
    /\ UNCHANGED group

Clear(i) ==
  /\ pkt' = [pkt EXCEPT ![i] = Empty]
  /\ told' = [told EXCEPT ![i] = Nothing]
  /\ UNCHANGED group

Copy(i, j) ==
  /\ pkt' = [pkt EXCEPT ![i] = pkt[j]]
  /\ told' = [told EXCEPT ![i] = told[j]]
  /\ UNCHANGED group

Swap(i, j) ==
  /\ pkt' = [pkt EXCEPT ![i] = pkt[j], ![j] = pkt[i]]
  /\ told' = [told EXCEPT ![i] = told[j], ![j] = told[i]]
  /\ UNCHANGED group

\* Where no promise is made: without overwriting, of an orientation both have in one
\* form and the other packet in a second one too; of a word and a byte of status; and of
\* raw data in one item in one packet, and in items of their own in either.
Clash(p, q, over, quantity) ==
  \/ /\ quantity = "orientation" /\ ~over
     /\ DOMAIN p \cap DOMAIN q \cap Orientations # {}
     /\ Cardinality(DOMAIN q \cap Orientations) > 1
  \/ quantity = "status" /\ {"StatusByte", "StatusWord"} \subseteq DOMAIN p \cup DOMAIN q
  \/ /\ quantity \in RawParts /\ Has(p, "RawAccGyrMagTemp") # Has(q, "RawAccGyrMagTemp")
     /\ Has(p, Raw[quantity]) \/ Has(q, Raw[quantity])

MergedTold(i, j, over, q) ==
  LET own == told[i][q]
      other == told[j][q]
  IN IF Clash(pkt[i], pkt[j], over, q) THEN Open
     ELSE IF other = None THEN own
     ELSE IF own = None \/ over THEN other ELSE own

Merge(i, j, over) ==
  /\ pkt' = [pkt EXCEPT ![i] = Merged(pkt[i], pkt[j], over)]
  /\ told' = [told EXCEPT ![i] = [q \in Quantities |-> MergedTold(i, j, over, q)]]
  /\ UNCHANGED group

ValueItem(id, v, format) == [x \in {id} |-> Rounded([value |-> v, format |-> format])]
SentFormats == IF group = "gps" THEN {"double"} ELSE DOMAIN Formats

\* The items of one message say one thing: the device has made them of one sample.
DeviceItems ==
  CASE group = "orientation" ->
         {[id \in forms |-> [rot |-> rot, frame |-> frame]] :
            forms \in {s \in SUBSET Orientations : Cardinality(s) \in 1 .. 2},
            rot \in Rotations, frame \in Frames}
    [] group = "counter" -> {[PacketCounter |-> c] : c \in Counts}
    [] group = "status" -> {[StatusByte |-> b] : b \in SomeBytes}
                           \cup {[StatusWord |-> w] : w \in SomeBytes \X SomeBytes}
    [] group = "time" -> {[SampleTimeFine |-> t] : t \in 0 .. Half - 1}
    [] group = "raw" -> {[RawAccGyrMagTemp |-> data] : data \in [RawParts \cup {"temp"} -> SomeBytes]}
    [] OTHER -> {ValueItem(id, v, f) : id \in ItemsOf[group], v \in SomeValues, f \in SentFormats}

\* What a message of these items tells of a quantity.
ToldBy(items, q) ==
  IF ~Contains(items, q) THEN None
  ELSE LET id == CHOOSE id \in DOMAIN items : q \in SaidBy(id)
       IN CASE id = "StatusByte" -> <<0, items[id]>>
            [] id = "RawAccGyrMagTemp" -> items[id][q]
            [] id \in Values -> items[id].value
            [] OTHER -> items[id]

\* Packet i becomes what setMessage makes of a message, which tells it these values.
Becomes(i, message, values) ==
  /\ pkt' = [pkt EXCEPT ![i] = Parsed(message)]
  /\ told' = [told EXCEPT ![i] = values]
  /\ UNCHANGED group

\* setMessage, of a message from the device.  Nothing is taken of one that is not whole,
\* whatever it holds.
Load(i) ==
  \/ \E items \in DeviceItems :
       Becomes(i, [items |-> items, whole |-> TRUE], [q \in Quantities |-> ToldBy(items, q)])
  \/ Becomes(i, [items |-> Empty, whole |-> FALSE], Nothing)

\* toMessage of one packet, setMessage of another.  An acceleration and a place come
\* through as they were set; the other values with the precision of their items.
Send(i, j) ==
  /\ pkt' = [pkt EXCEPT ![j] = Parsed(Written(pkt[i]))]
  /\ told' = [told EXCEPT ![j] = [q \in Quantities |->
                IF q \in Values \ {"Acceleration", "LatLon"} /\ Known(told[i][q])
                THEN Rounded([pkt[i][q] EXCEPT !.value = told[i][q]]).value ELSE told[i][q]]]
  /\ UNCHANGED group

Next ==
  \/ \E i \in Packets : \/ TellOrientation(i) \/ TellVelocity(i) \/ TellCounter(i)
                        \/ TellStatus(i) \/ TellTime(i) \/ TellRaw(i) \/ TellValue(i)
                        \/ ClearItem(i) \/ Clear(i) \/ Load(i)
  \/ \E i, j \in Packets : \/ Copy(i, j) \/ Swap(i, j) \/ Send(i, j)
                           \/ \E over \in BOOLEAN : Merge(i, j, over)

Spec == Init /\ [][Next]_vars
--------------------------------------------------------------------------------
\* The coordinate systems, along east, north and up.
Axes == [enu |-> <<<<1, 0, 0>>, <<0, 1, 0>>, <<0, 0, 1>>>>,
         ned |-> <<<<0, 1, 0>>, <<1, 0, 0>>, <<0, 0, -1>>>>,
         nwu |-> <<<<0, 1, 0>>, <<-1, 0, 0>>, <<0, 0, 1>>>>]

\* The direction with coordinates v in a frame, in east, north and up; the axes are orthogonal.
East(frame, v) ==
  [k \in 1 .. 3 |-> v[1]*Axes[frame][1][k] + v[2]*Axes[frame][2][k] + v[3]*Axes[frame][3][k]]
In(frame, e) ==
  [k \in 1 .. 3 |-> Axes[frame][k][1]*e[1] + Axes[frame][k][2]*e[2] + Axes[frame][k][3]*e[3]]

(* Whichever form an orientation was told or came in, and in whichever      *)
(* coordinate system, each getter gives the same directions of the body's   *)
(* axes in the system it is asked for; a velocity likewise.  The            *)
(* quaternions of preRotFromXdi and the switch of velocity turn alike.      *)
DirectionsAsTold ==
  \A i \in Packets, frame \in Frames :
    /\ "orientation" \in Quantities /\ Known(told[i]["orientation"]) =>
         LET o == told[i]["orientation"] IN
         \A form \in Orientations, axis, k \in 1 .. 3 :
           LET read == Orientation(pkt[i], form, frame)
               body == [n \in 1 .. 3 |-> IF n = axis THEN 1 ELSE 0]
           IN Rotate(read, body)[k] * Norm(o.rot)
                = In(frame, East(o.frame, Rotate(o.rot, body)))[k] * Norm(read)
    /\ "velocity" \in Quantities /\ Known(told[i]["velocity"]) =>
         Velocity(pkt[i], frame) = In(frame, East(told[i]["velocity"].frame, told[i]["velocity"].vel))

(* packetCounter, status, the raw data and the values are what was told     *)
(* last, whichever of their items holds them, a vector in double precision  *)
(* after it has been sent too; and a packet contains a quantity if and only *)
(* if it was told it, after a corrupt message, a merge or a clear too.      *)
ReadAsTold ==
  \A i \in Packets, q \in Quantities :
    /\ Contains(pkt[i], q) <=> told[i][q] # None
    /\ Known(told[i][q]) =>
         CASE q = "counter"   -> PacketCounter(pkt[i]) = told[i][q]
           [] q = "status"    -> Status(pkt[i]) = told[i][q]
           [] q \in RawParts  -> RawVector(pkt[i], q) = told[i][q]
           [] q = "temp"      -> pkt[i]["RawAccGyrMagTemp"].temp = told[i][q]
           [] q \in Values    -> pkt[i][q].value = told[i][q]
           [] OTHER -> TRUE

(* A packet with a full sample time has one, whether it is read from        *)
(* SampleTime64 or put together: its coarse and its fine time agree with it.*)
Agrees(p) ==
  ContainsSampleTime64(p) =>
    /\ Has(p, "SampleTimeCoarse") =>
         p["SampleTimeCoarse"] = (SampleTime64(p) \div CoarseFactor) % Half
    /\ Has(p, "SampleTimeFine") =>
         p["SampleTimeFine"] % CoarseFactor = SampleTime64(p) % CoarseFactor

(* No setter, merge, clear or copy of some of the three items, and no       *)
(* message but one written of a packet with SampleTime64, makes the times   *)
(* of a packet disagree.                                                    *)
TimesStay ==
  /\ \A i \in Packets : Agrees(pkt[i])
  /\ \A i, j \in Packets : Has(pkt[i], "SampleTime64") => ~Send(i, j)
  => \A i \in Packets : Agrees(pkt[i])'

TimesStayTrue == [][TimesStay]_vars

--------------------------------------------------------------------------------
(* xsdatapacket.cpp, sampleTime64: "Return the full 64-bit sample time of a *)
(* packet, combined from the fine and coarse sample times".                 *)
TimesAgree == \A i \in Packets : Agrees(pkt[i])
================================================================================
