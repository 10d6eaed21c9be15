--------------------------- MODULE PacketConversion ---------------------------
(***************************************************************************)
(* XsDataPacket_assignFromLegacyDataPacket: what a message of an older     *)
(* device says of one device becomes a packet.  In a behaviour of group    *)
(* "legacy" LegacyPacket runs, and packets are made of its packet; in the  *)
(* others DataPacket does.                                                 *)
(***************************************************************************)
EXTENDS DataPacket

CONSTANTS Systems, Topics, MaxSets   \* of LegacyPacket

VARIABLES system, topic, packet, sets, said   \* of LegacyPacket; said is its told

L == INSTANCE LegacyPacket WITH told <- said

legacyVars == <<system, topic, packet, sets, said>>

\* Devices send the items of their formats; several of them, each of which sends
\* something, are behind an Xbus Master.
ASSUME ConversionAssumption ==
  /\ MaxSets \in Nat
  /\ \A t \in Topics : t \subseteq L!Settable
  /\ \A s \in Systems :
       /\ s.xm \in BOOLEAN /\ s.formats \in Seq(L!DataFormats) \ {<<>>}
       /\ s.xm \/ Len(s.formats) = 1
       /\ s.sends = [d \in 1 .. Len(s.formats) |->
                       [k \in 1 .. Len(L!Layout(s.formats[d])) |->
                          LET x == L!Layout(s.formats[d])[k]
                          IN <<x, L!Width(x, s.formats[d].real)>>]]
       /\ s.xm => \A d \in 1 .. Len(s.formats) : L!Layout(s.formats[d]) # <<>>

\* None and Open are nothing that a packet is told of a legacy packet.
ASSUME ToldAssumption ==
  \A mark \in {None, Open} :
    /\ mark \notin Int \X (Int \X Int) /\ mark \notin (Int \X Int) \X (Int \X Int)
    /\ mark \notin [1 .. 3 -> Int \X Int]
    /\ mark \notin [rot : Int \X Int \X Int \X Int, frame : {"ned", "nwu"}]
    /\ mark \notin [vel : Int \X Int \X Int, frame : {"ned", "nwu"}]

\* A value of a legacy packet as a rotation, a velocity, and a frame number; a matrix
\* that cannot be read is some rotation.
Turn(v) ==
  CASE v = <<>> \/ (v[1] + v[2]) % 3 = 0 -> <<1, 0, 0, 0>>
    [] v # <<>> /\ (v[1] + v[2]) % 3 = 1 -> <<1, 1, 1, 1>>
    [] OTHER -> <<1, -1, -1, -1>>
Speed(v)  == <<v[1], v[2], 3>>
Number(v) == v[2]
Pascal(k, v) == <<k * v[1], k * v[2]>>
Zero == <<0, 0>>

Frame(d) == IF "Ned" \in L!Format(d).settings THEN "ned" ELSE "nwu"

\* The questions asked of the legacy packet, in their order.
Questions == <<"rawData", "rawGyroTemps", "calAcc", "calGyr", "calMag", "oriQuat", "oriEul",
               "oriMat", "posLLA", "velocity", "status", "detailedStatus", "gpsPvtData",
               "utcTime", "sampleTimeFine", "sc", "mtwSdiData", "temp">>

\* Of the data of a GPS receiver the first device is asked, whichever is read.
Answer(d, x) ==
  CASE x = "rawGyroTemps" -> L!Has(packet, d, "rawTemp") /\ L!Has(packet, d, "rawGyroTemp1")
    [] x = "gpsPvtData"   -> L!Holds(packet, 1, "pressure")
    [] x = "mtwSdiData"   -> L!Holds(packet, d, "sdiHead")
    [] OTHER -> L!Holds(packet, d, x)

\* The pressure set first, in Pascal, is set again as it was sent.
GpsTaken(p, d) ==
  LET get(x) == IF L!Holds(packet, d, x) THEN L!Get(packet, d, x) ELSE Zero
      air == get("pressure")
  IN SetGpsPvtData(SetPressure(p, Pascal(2, air), air), air, air,
                   IF L!Holds(packet, d, "pressure") THEN get("gpsData") ELSE Zero)

\* A barometer that reads 0 is none: what was set of the GPS data then stays.
SdiTaken(p, d) ==
  LET get(x) == L!Get(packet, d, x)
      motion == SetValue(p, "DeltaQ", get("sdiMotion"))
      field  == SetValue(motion, "MagneticField", get("sdiMag"))
      air    == IF Number(get("sdiAir")) = 0 THEN field
                ELSE SetPressure(field, Pascal(100, get("sdiAir")), Zero)
      frames == [first |-> Number(get("sdiHead")), last |-> Number(get("sdiLast"))]
  IN SetValue(SetFrameRange(air, frames), "Rssi", get("sdiRssi"))

\* p, with the answer of device d to x.
Taken(p, d, x) ==
  LET get(y) == L!Get(packet, d, y)
      turn   == Turn(get(x))
  IN CASE x = "rawData" -> SetRawData(p, [part \in RawParts \cup {"temp"} |->
                             get([acc |-> "rawAcc", gyr |-> "rawGyr", mag |-> "rawMag",
                                  temp |-> "rawTemp"][part])])
       [] x = "rawGyroTemps" ->
            SetValue(p, "RawGyroTemp", [k \in 1 .. 3 |-> get(L!RawGyroTemps[k])])
       [] x = "calAcc" -> SetValue(p, "Acceleration", get(x))
       [] x = "calGyr" -> SetValue(p, "RateOfTurn", get(x))
       [] x = "calMag" -> SetValue(p, "MagneticField", get(x))
       [] x = "oriQuat" -> SetOrientation(p, "Quaternion", turn, Frame(d))
       [] x = "oriEul"  -> SetOrientation(p, "EulerAngles", turn, Frame(d))
       [] x = "oriMat"  -> SetOrientation(p, "RotationMatrix", turn, Frame(d))
       [] x = "posLLA"  -> SetPositionLLA(p, get(x), get(x))
       [] x = "velocity" -> SetVelocity(p, Speed(get(x)), Frame(d))
       [] x = "status"   -> SetStatusByte(p, get(x))
       [] x = "detailedStatus" -> SetStatus(p, <<get(x), get(x)>>)
       [] x = "gpsPvtData" -> GpsTaken(p, d)
       [] x = "utcTime" -> SetValue(p, "UtcTime", get(x))
       [] x = "sampleTimeFine" -> SetSampleTimeFine(p, Number(get(x)))
       [] x = "sc" -> SetPacketCounter(p, Number(get(x)))
       [] x = "mtwSdiData" -> SdiTaken(p, d)
       [] x = "temp" -> SetValue(p, "Temperature", get(x))

Assigned(d) ==
  LET taken[k \in 0 .. Len(Questions)] ==
        IF k = 0 THEN Empty
        ELSE IF Answer(d, Questions[k]) THEN Taken(taken[k - 1], d, Questions[k]) ELSE taken[k - 1]
  IN taken[Len(Questions)]

\* What device d, as its legacy packet was told, tells of a quantity.  Of several forms of
\* an orientation the last one counts.
ToldOf(d, q) ==
  LET v(x) == said[d][x]
      has(x) == v(x) # None
      sdi == has("sdiHead")
      ori == IF has("oriMat") THEN "oriMat" ELSE IF has("oriEul") THEN "oriEul" ELSE "oriQuat"
      raw(x) == IF L!Holds(packet, d, "rawData") THEN v(x) ELSE None
  IN CASE q = "orientation" -> IF ~has(ori) \/ v(ori) = Open THEN v(ori)
                               ELSE [rot |-> Turn(v(ori)), frame |-> Frame(d)]
       [] q = "velocity" -> IF ~has("velocity") \/ v("velocity") = Open THEN v("velocity")
                            ELSE [vel |-> Speed(v("velocity")), frame |-> Frame(d)]
       [] q = "counter" -> IF sdi THEN Number(v("sdiLast")) % Boundary
                           ELSE IF has("sc") THEN Number(v("sc")) ELSE None
       [] q = "status"  -> IF has("status") THEN <<0, v("status")>>
                           ELSE IF has("detailedStatus") THEN <<v("detailedStatus"), v("detailedStatus")>>
                           ELSE None
       [] q = "acc"  -> raw("rawAcc")
       [] q = "gyr"  -> raw("rawGyr")
       [] q = "mag"  -> raw("rawMag")
       [] q = "temp" -> raw("rawTemp")
       [] q = "RawGyroTemp" -> IF has("rawTemp") /\ has("rawGyroTemp1")
                               THEN [k \in 1 .. 3 |-> v(L!RawGyroTemps[k])] ELSE None
       [] q = "Acceleration" -> v("calAcc")
       [] q = "RateOfTurn"   -> v("calGyr")
       [] q = "MagneticField" -> IF sdi THEN v("sdiMag") ELSE v("calMag")
       [] q \in {"LatLon", "AltitudeEllipsoid"} -> v("posLLA")
       [] q = "UtcTime" -> v("utcTime")
       [] q = "Temperature" -> v("temp")
       [] q = "DeltaQ" -> v("sdiMotion")
       [] q = "Rssi"   -> v("sdiRssi")
       [] q \in {"BaroPressure", "PressureAge"} ->
            IF sdi /\ Number(v("sdiAir")) # 0
            THEN IF q = "BaroPressure" THEN Pascal(100, v("sdiAir")) ELSE Zero
            ELSE IF said[1]["pressure"] # None THEN Open ELSE None
       [] q = "GpsSol" -> IF said[1]["pressure"] = None THEN None
                          ELSE IF has("gpsData") THEN v("gpsData") ELSE Open
       [] OTHER -> None

\* Without an Xbus Master there is one device, whichever is asked for.
Assign(i, d) ==
  LET index == IF system.xm THEN d ELSE 1
  IN /\ pkt' = [pkt EXCEPT ![i] = Assigned(index)]
     /\ told' = [told EXCEPT ![i] = [q \in Quantities |-> ToldOf(index, q)]]
     /\ UNCHANGED <<group, legacyVars>>

\* In the other groups there is a legacy packet which nothing looks at, a small one.
ConversionInit ==
  /\ Init /\ L!Init
  /\ group # "legacy" => /\ \A s \in Systems : Len(system.sends[1]) <= Len(s.sends[1])
                         /\ topic = CHOOSE t \in Topics : TRUE

\* Bound: packets are made of the legacy packet, one of them and again, when all has been set.
ConversionNext ==
  \/ group # "legacy" /\ Next /\ UNCHANGED legacyVars
  \/ /\ group = "legacy"
     /\ \A i \in Packets : pkt[i] = Empty
     /\ L!Next /\ UNCHANGED vars
  \/ /\ group = "legacy"
     /\ \E i \in Packets, d \in L!Devices :
          (\A j \in Packets \ {i} : pkt[j] = Empty) /\ Assign(i, d)

ConversionSpec == ConversionInit /\ [][ConversionNext]_<<vars, legacyVars>>
--------------------------------------------------------------------------------
(* The items of each device of a legacy packet read as they came or were    *)
(* set last; see LegacyPacket.                                              *)
LegacyAsTold == L!LegacyAsTold
================================================================================
