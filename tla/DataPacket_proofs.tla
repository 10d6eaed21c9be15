--------------------------- MODULE DataPacket_proofs ---------------------------
(***************************************************************************)
(* A packet reads as it was told last, and its times agree, for any number *)
(* of packets, any values, boundaries and grains.                          *)
(***************************************************************************)
EXTENDS DataPacket, FiniteSetTheorems, TLAPS

(* Division. *)

LEMMA Division ==
  ASSUME NEW c \in Nat \ {0}, NEW v \in Int
  PROVE  v = c * (v \div c) + (v % c) /\ v % c \in 0 .. c - 1 /\ v \div c \in Int
OBVIOUS

LEMMA DivideBack ==
  ASSUME NEW c \in Nat \ {0}, NEW a \in Int, NEW r \in 0 .. c - 1
  PROVE  (c * a + r) \div c = a /\ (c * a + r) % c = r
<1> DEFINE n == c * a + r
           d == a - (n \div c)
<1>1. n \in Int /\ n = c * (n \div c) + (n % c) /\ n % c \in 0 .. c - 1 /\ n \div c \in Int
  <2>1. n \in Int
    OBVIOUS
  <2>2. QED
    BY <2>1, Division
<1>2. d \in Int /\ c * d = (n % c) - r
  BY <1>1
<1> HIDE DEF d
<1>3. ~(d >= 1)
  <2> SUFFICES ASSUME d >= 1 PROVE FALSE
    OBVIOUS
  <2>1. c * d >= c
    BY <1>2
  <2>2. QED
    BY <1>1, <1>2, <2>1
<1>4. ~(d <= -1)
  <2> SUFFICES ASSUME d <= -1 PROVE FALSE
    OBVIOUS
  <2>1. c * d <= -c
    BY <1>2
  <2>2. QED
    BY <1>1, <1>2, <2>1
<1>5. d = 0
  BY <1>2, <1>3, <1>4
<1>6. QED
  BY <1>1, <1>2, <1>5 DEF d

LEMMA RoundedDivides ==
  ASSUME NEW c \in Nat \ {0}, NEW v \in Int
  PROVE  (v - (v % c)) % c = 0
<1> DEFINE a == v \div c
<1>1. a \in Int /\ v = c * a + (v % c) /\ v % c \in Int
  BY Division
<1> HIDE DEF a
<1>2. (c * a + 0) % c = 0
  BY <1>1, DivideBack
<1>3. v - (v % c) = c * a + 0
  BY <1>1
<1>4. QED
  BY <1>2, <1>3

--------------------------------------------------------------------------------
(* The map of a packet. *)

LEMMA InsertIs ==
  ASSUME NEW p, NEW id, NEW item
  PROVE  /\ DOMAIN Insert(p, id, item) = DOMAIN p \cup {id}
         /\ Insert(p, id, item)[id] = item
         /\ \A x \in DOMAIN p \ {id} : Insert(p, id, item)[x] = p[x]
BY DEF Insert

LEMMA EraseIs ==
  ASSUME NEW p, NEW ids
  PROVE  /\ DOMAIN Erase(p, ids) = DOMAIN p \ ids
         /\ \A x \in DOMAIN p \ ids : Erase(p, ids)[x] = p[x]
BY DEF Erase

\* The function r has the items of p and q, of those both have one of them.
Overlays(r, p, q, over) ==
  /\ DOMAIN r = DOMAIN p \cup DOMAIN q
  /\ \A x \in DOMAIN p \cup DOMAIN q :
       r[x] = IF x \notin DOMAIN q THEN p[x]
              ELSE IF x \notin DOMAIN p \/ over THEN q[x] ELSE p[x]

LEMMA MergeItemsIs ==
  ASSUME NEW p, NEW q, NEW over, over \in BOOLEAN
  PROVE  Overlays(MergeItems(p, q, over), p, q, over)
<1>1. CASE over
  BY <1>1 DEF MergeItems, Overlay, Overlays
<1>2. CASE ~over
  BY <1>2 DEF MergeItems, Overlay, Overlays
<1>3. QED
  BY <1>1, <1>2

\* The function r has items of f only.
Part(r, f) == \A x \in DOMAIN r : x \in DOMAIN f /\ r[x] = f[x]

(* Of two items that are there one goes, by who has the first one. *)
LEMMA KeepOneIs ==
  ASSUME NEW p, NEW q, NEW over, over \in BOOLEAN, NEW id1, NEW id2
  PROVE  LET r == KeepOne(p, q, over, id1, id2)
             both == id1 \in DOMAIN p /\ id2 \in DOMAIN p
         IN /\ Part(r, p) /\ ~(id1 \in DOMAIN r /\ id2 \in DOMAIN r)
            /\ ~both => r = p
            /\ both /\ (id1 \in DOMAIN q <=> over) => DOMAIN r = DOMAIN p \ {id2}
            /\ both /\ ~(id1 \in DOMAIN q <=> over) => DOMAIN r = DOMAIN p \ {id1}
<1> DEFINE r == KeepOne(p, q, over, id1, id2)
<1>1. CASE ~(id1 \in DOMAIN p /\ id2 \in DOMAIN p)
  <2>1. r = p
    BY <1>1 DEF KeepOne, Has
  <2>2. QED
    BY <1>1, <2>1 DEF Part
<1>2. CASE id1 \in DOMAIN p /\ id2 \in DOMAIN p /\ ~(id1 \in DOMAIN q <=> over)
  <2>1. r = Erase(p, {id1})
    BY <1>2 DEF KeepOne, Has
  <2> HIDE DEF r
  <2>2. DOMAIN r = DOMAIN p \ {id1} /\ Part(r, p)
    BY <2>1 DEF Erase, Part
  <2>3. QED
    BY <1>2, <2>2 DEF r
<1>3. CASE id1 \in DOMAIN p /\ id2 \in DOMAIN p /\ (id1 \in DOMAIN q <=> over)
  <2>1. r = Erase(p, {id2})
    BY <1>3 DEF KeepOne, Has
  <2> HIDE DEF r
  <2>2. DOMAIN r = DOMAIN p \ {id2} /\ Part(r, p)
    BY <2>1 DEF Erase, Part
  <2>3. QED
    BY <1>3, <2>2 DEF r
<1>4. QED
  BY <1>1, <1>2, <1>3

--------------------------------------------------------------------------------
(* The three times. *)

TimeIds == {"SampleTimeFine", "SampleTimeCoarse", "SampleTime64"}

(* The types of the times; and, if strict, the others are parts of the      *)
(* 64-bit time where there is one.                                          *)
Times(p, strict) ==
  /\ Has(p, "SampleTimeCoarse") => p["SampleTimeCoarse"] \in 0 .. Half - 1
  /\ Has(p, "SampleTimeFine") => p["SampleTimeFine"] \in Nat
  /\ Has(p, "SampleTime64") =>
       /\ p["SampleTime64"] \in Nat
       /\ strict /\ Has(p, "SampleTimeCoarse") =>
            p["SampleTimeCoarse"] = (p["SampleTime64"] \div CoarseFactor) % Half
       /\ strict /\ Has(p, "SampleTimeFine") =>
            p["SampleTimeFine"] % CoarseFactor = p["SampleTime64"] % CoarseFactor

TimeInv(strict) ==
  group \in Groups /\ DOMAIN pkt = Packets /\ \A i \in Packets : Times(pkt[i], strict)

\* The times of q are times of p.
TimesOf(q, p) == \A id \in TimeIds \cap DOMAIN q : id \in DOMAIN p /\ q[id] = p[id]

LEMMA PartOfTimes ==
  ASSUME NEW strict \in BOOLEAN, NEW p, NEW q, Times(p, strict), TimesOf(q, p)
  PROVE  Times(q, strict)
BY DEF Times, TimesOf, TimeIds, Has

LEMMA TimesRead ==
  ASSUME NEW p, Times(p, TRUE), ContainsSampleTime64(p)
  PROVE  /\ Has(p, "SampleTimeCoarse") =>
              p["SampleTimeCoarse"] = (SampleTime64(p) \div CoarseFactor) % Half
         /\ Has(p, "SampleTimeFine") =>
              p["SampleTimeFine"] % CoarseFactor = SampleTime64(p) % CoarseFactor
<1>1. CASE Has(p, "SampleTime64")
  BY <1>1 DEF Times, SampleTime64
<1>2. CASE ~Has(p, "SampleTime64")
  <2> DEFINE coarse == p["SampleTimeCoarse"]
             fine == p["SampleTimeFine"] % CoarseFactor
  <2>1. Has(p, "SampleTimeCoarse") /\ Has(p, "SampleTimeFine")
    BY <1>2 DEF ContainsSampleTime64
  <2>2. CoarseFactor \in Nat \ {0} /\ Half \in Nat \ {0}
    BY PacketAssumption
  <2>3. coarse \in 0 .. Half - 1 /\ fine \in 0 .. CoarseFactor - 1
    BY <2>1, <2>2 DEF Times
  <2>4. SampleTime64(p) = CoarseFactor * coarse + fine
    BY <1>2, <2>1, <2>2, <2>3 DEF SampleTime64
  <2> HIDE DEF coarse, fine
  <2>5. SampleTime64(p) \div CoarseFactor = coarse /\ SampleTime64(p) % CoarseFactor = fine
    BY <2>2, <2>3, <2>4, DivideBack
  <2>6. coarse % Half = coarse
    BY <2>2, <2>3
  <2>7. QED
    BY <2>5, <2>6 DEF coarse, fine
<1>3. QED
  BY <1>1, <1>2

LEMMA TimesStrict ==
  ASSUME NEW p
  PROVE  Times(p, TRUE) <=> Times(p, FALSE) /\ Agrees(p)
<1>1. Times(p, TRUE) => Times(p, FALSE) /\ Agrees(p)
  BY TimesRead DEF Times, Agrees
<1>2. Times(p, FALSE) /\ Agrees(p) => Times(p, TRUE)
  BY DEF Times, Agrees, ContainsSampleTime64, SampleTime64
<1>3. QED
  BY <1>1, <1>2

LEMMA InsertTimes ==
  ASSUME NEW p, NEW q, NEW id, id \notin TimeIds, NEW item, TimesOf(q, p)
  PROVE  TimesOf(Insert(q, id, item), p)
BY DEF TimesOf, Insert

LEMMA EraseTimes ==
  ASSUME NEW p, NEW q, NEW ids, TimesOf(q, p)
  PROVE  TimesOf(Erase(q, ids), p)
BY DEF TimesOf, Erase

(* The setters of other items. *)
LEMMA SettersOfOthers ==
  ASSUME NEW p
  PROVE  /\ \A form \in Orientations : \A rot, frame : TimesOf(SetOrientation(p, form, rot, frame), p)
         /\ \A vel, frame : TimesOf(SetVelocity(p, vel, frame), p)
         /\ \A c : TimesOf(SetPacketCounter(p, c), p) /\ TimesOf(SetFrameRange(p, c), p)
         /\ \A word : TimesOf(SetStatus(p, word), p)
         /\ \A byte : TimesOf(SetStatusByte(p, byte), p)
         /\ \A part \in RawParts : \A v : TimesOf(SetRawVector(p, part, v), p)
         /\ \A t : TimesOf(SetRawTemperature(p, t), p)
         /\ \A data : TimesOf(SetRawData(p, data), p)
         /\ \A id, v : id \notin TimeIds => TimesOf(SetValue(p, id, v), p)
<1>1. TimesOf(p, p)
  BY DEF TimesOf
<1>2. \A form \in Orientations : \A rot, frame : TimesOf(SetOrientation(p, form, rot, frame), p)
  <2> SUFFICES ASSUME NEW form \in Orientations, NEW rot, NEW frame
               PROVE TimesOf(SetOrientation(p, form, rot, frame), p)
    OBVIOUS
  <2>1. form \notin TimeIds
    BY DEF Orientations, TimeIds
  <2>2. QED
    BY <1>1, <2>1, InsertTimes, EraseTimes DEF SetOrientation
<1>3. \A vel, frame : TimesOf(SetVelocity(p, vel, frame), p)
  BY <1>1, InsertTimes DEF SetVelocity, TimeIds
<1>4. \A c : TimesOf(SetPacketCounter(p, c), p) /\ TimesOf(SetFrameRange(p, c), p)
  BY <1>1, InsertTimes, EraseTimes DEF SetPacketCounter, SetFrameRange, TimeIds
<1>5. \A word : TimesOf(SetStatus(p, word), p)
  BY <1>1, InsertTimes, EraseTimes DEF SetStatus, TimeIds
<1>6. \A byte : TimesOf(SetStatusByte(p, byte), p)
  BY <1>1, <1>5, InsertTimes DEF SetStatusByte, TimeIds
<1>7. \A part \in RawParts : \A v : TimesOf(SetRawVector(p, part, v), p)
  <2> SUFFICES ASSUME NEW part \in RawParts, NEW v PROVE TimesOf(SetRawVector(p, part, v), p)
    OBVIOUS
  <2>1. Raw[part] \notin TimeIds
    BY PacketAssumption DEF Raw, TimeIds
  <2>2. CASE Has(p, "RawAccGyrMagTemp")
    BY <2>2 DEF SetRawVector, TimesOf, TimeIds
  <2>3. CASE ~Has(p, "RawAccGyrMagTemp")
    BY <1>1, <2>1, <2>3, InsertTimes DEF SetRawVector
  <2>4. QED
    BY <2>2, <2>3
<1>8. \A t : TimesOf(SetRawTemperature(p, t), p)
  <2> SUFFICES ASSUME NEW t PROVE TimesOf(SetRawTemperature(p, t), p)
    OBVIOUS
  <2>1. CASE Has(p, "RawAccGyrMagTemp")
    BY <2>1 DEF SetRawTemperature, TimesOf, TimeIds
  <2>2. CASE ~Has(p, "RawAccGyrMagTemp")
    BY <1>1, <2>2, InsertTimes DEF SetRawTemperature, TimeIds
  <2>3. QED
    BY <2>1, <2>2
<1>9. \A data : TimesOf(SetRawData(p, data), p)
  BY <1>1, InsertTimes DEF SetRawData, TimeIds
<1>10. \A id, v : id \notin TimeIds => TimesOf(SetValue(p, id, v), p)
  <2> SUFFICES ASSUME NEW id, NEW v, id \notin TimeIds PROVE TimesOf(SetValue(p, id, v), p)
    OBVIOUS
  <2>1. \A format : TimesOf(GenericSet(p, id, v, format), p)
    BY <1>1, InsertTimes DEF GenericSet
  <2>2. \A format : TimesOf(SetNumber(p, id, v, format), p)
    <3> SUFFICES ASSUME NEW format PROVE TimesOf(SetNumber(p, id, v, format), p)
      OBVIOUS
    <3>1. CASE Has(p, id)
      BY <3>1 DEF SetNumber, TimesOf
    <3>2. CASE ~Has(p, id)
      BY <1>1, <3>2, InsertTimes DEF SetNumber
    <3>3. QED
      BY <3>1, <3>2
  <2>3. QED
    BY <2>1, <2>2 DEF SetValue
<1>11. QED
  BY <1>2, <1>3, <1>4, <1>5, <1>6, <1>7, <1>8, <1>9, <1>10

LEMMA TimeSetters ==
  ASSUME NEW strict \in BOOLEAN, NEW p, Times(p, strict)
  PROVE  /\ \A t \in 0 .. Half - 1 : /\ Times(SetSampleTimeFine(p, t), strict)
                                     /\ Times(SetSampleTimeCoarse(p, t), strict)
         /\ \A t \in 0 .. CoarseFactor * Half - 1 : Times(SetSampleTime64(p, t), strict)
<1>1. CoarseFactor \in Nat \ {0} /\ Half \in Nat \ {0} /\ CoarseFactor * Half \in Nat
  BY PacketAssumption
<1>2. ASSUME NEW t \in 0 .. Half - 1 PROVE Times(SetSampleTimeFine(p, t), strict)
  <2> DEFINE new == Insert(p, "SampleTimeFine", t)
             r == SetSampleTimeFine(p, t)
             whole == p["SampleTime64"]
             later == CoarseFactor * (whole \div CoarseFactor) + (t % CoarseFactor)
  <2>1. /\ DOMAIN new = DOMAIN p \cup {"SampleTimeFine"} /\ new["SampleTimeFine"] = t
        /\ \A x \in DOMAIN p \ {"SampleTimeFine"} : new[x] = p[x]
    BY DEF Insert
  <2> HIDE DEF new
  <2>2. CASE ~Has(p, "SampleTime64")
    <3>1. r = new
      BY <2>2 DEF SetSampleTimeFine, new
    <3>2. QED
      BY <1>1, <2>1, <2>2, <3>1 DEF Times, Has
  <2>3. CASE Has(p, "SampleTime64")
    <3>1. whole \in Nat
      BY <2>3 DEF Times
    <3>2. /\ later \in Nat /\ later \div CoarseFactor = whole \div CoarseFactor
          /\ later % CoarseFactor = t % CoarseFactor
      <4> DEFINE a == whole \div CoarseFactor
                 b == t % CoarseFactor
      <4>1. a \in Nat /\ b \in 0 .. CoarseFactor - 1
        BY <1>1, <3>1
      <4> HIDE DEF a, b
      <4>2. CoarseFactor * a + b \in Nat
        BY <1>1, <4>1
      <4>3. (CoarseFactor * a + b) \div CoarseFactor = a /\ (CoarseFactor * a + b) % CoarseFactor = b
        BY <1>1, <4>1, DivideBack
      <4>4. QED
        BY <4>2, <4>3 DEF a, b
    <3>3. r = [new EXCEPT !["SampleTime64"] = later]
      BY <2>1, <2>3 DEF SetSampleTimeFine, new, Has
    <3> HIDE DEF r, later, whole
    <3>4. /\ DOMAIN r = DOMAIN p \cup {"SampleTimeFine"} /\ r["SampleTimeFine"] = t
          /\ r["SampleTime64"] = later
          /\ Has(p, "SampleTimeCoarse") => r["SampleTimeCoarse"] = p["SampleTimeCoarse"]
      BY <2>1, <2>3, <3>3 DEF Has
    <3>5. Times(r, strict)
      BY <1>1, <2>3, <3>2, <3>4 DEF Times, Has, whole
    <3>6. QED
      BY <3>5 DEF r
  <2>4. QED
    BY <2>2, <2>3
<1>3. ASSUME NEW t \in 0 .. Half - 1 PROVE Times(SetSampleTimeCoarse(p, t), strict)
  <2> DEFINE new == Insert(p, "SampleTimeCoarse", t)
             r == SetSampleTimeCoarse(p, t)
             whole == p["SampleTime64"]
             later == CoarseFactor * t + (whole % CoarseFactor)
  <2>1. /\ DOMAIN new = DOMAIN p \cup {"SampleTimeCoarse"} /\ new["SampleTimeCoarse"] = t
        /\ \A x \in DOMAIN p \ {"SampleTimeCoarse"} : new[x] = p[x]
    BY DEF Insert
  <2> HIDE DEF new
  <2>2. CASE ~Has(p, "SampleTime64")
    <3>1. r = new
      BY <2>2 DEF SetSampleTimeCoarse, new
    <3>2. QED
      BY <1>1, <2>1, <2>2, <3>1 DEF Times, Has
  <2>3. CASE Has(p, "SampleTime64")
    <3>1. whole \in Nat
      BY <2>3 DEF Times
    <3>2. /\ later \in Nat /\ later \div CoarseFactor = t
          /\ later % CoarseFactor = whole % CoarseFactor
      <4> DEFINE b == whole % CoarseFactor
      <4>1. b \in 0 .. CoarseFactor - 1 /\ t \in Int
        BY <1>1, <3>1
      <4> HIDE DEF b
      <4>2. CoarseFactor * t + b \in Nat
        BY <1>1, <4>1
      <4>3. (CoarseFactor * t + b) \div CoarseFactor = t /\ (CoarseFactor * t + b) % CoarseFactor = b
        BY <1>1, <4>1, DivideBack
      <4>4. QED
        BY <4>2, <4>3 DEF b
    <3>3. t % Half = t
      BY <1>1
    <3>4. r = [new EXCEPT !["SampleTime64"] = later]
      BY <2>1, <2>3 DEF SetSampleTimeCoarse, new, Has
    <3> HIDE DEF r, later, whole
    <3>5. /\ DOMAIN r = DOMAIN p \cup {"SampleTimeCoarse"} /\ r["SampleTimeCoarse"] = t
          /\ r["SampleTime64"] = later
          /\ Has(p, "SampleTimeFine") => r["SampleTimeFine"] = p["SampleTimeFine"]
      BY <2>1, <2>3, <3>4 DEF Has
    <3>6. Times(r, strict)
      BY <1>1, <2>3, <3>2, <3>3, <3>5 DEF Times, Has, whole
    <3>7. QED
      BY <3>6 DEF r
  <2>4. QED
    BY <2>2, <2>3
<1>4. ASSUME NEW t \in 0 .. CoarseFactor * Half - 1 PROVE Times(SetSampleTime64(p, t), strict)
  <2> DEFINE r == SetSampleTime64(p, t)
             coarse == (t \div CoarseFactor) % Half
             fine == t % CoarseFactor
  <2>1. /\ t \in Nat /\ t \div CoarseFactor \in Nat /\ coarse \in 0 .. Half - 1
        /\ fine \in 0 .. CoarseFactor - 1
    BY <1>1
  <2>2. fine % CoarseFactor = fine
    BY <1>1, <2>1
  <2>3. /\ r["SampleTime64"] = t /\ r["SampleTimeCoarse"] = coarse /\ r["SampleTimeFine"] = fine
        /\ TimeIds \subseteq DOMAIN r
    BY DEF SetSampleTime64, Insert, TimeIds
  <2> HIDE DEF r, coarse
  <2>4. Times(r, strict)
    BY <1>1, <2>1, <2>2, <2>3 DEF Times, coarse
  <2>5. QED
    BY <2>4 DEF r
<1>5. QED
  BY <1>2, <1>3, <1>4

(* Of the 64-bit time and another one a merged packet keeps one. *)
LEMMA MergedTimes ==
  ASSUME NEW strict \in BOOLEAN, NEW p, NEW q, NEW over, over \in BOOLEAN, Times(p, strict), Times(q, strict)
  PROVE  Times(Merged(p, q, over), strict)
<1> DEFINE m0 == MergeItems(p, q, over)
           m1 == KeepOne(m0, q, over, "Quaternion", "RotationMatrix")
           m2 == KeepOne(m1, q, over, "Quaternion", "EulerAngles")
           m3 == KeepOne(m2, q, over, "EulerAngles", "RotationMatrix")
           m4 == KeepOne(m3, q, over, "PacketCounter", "FrameRange")
           m5 == KeepOne(m4, q, over, "SampleTime64", "SampleTimeCoarse")
           m6 == KeepOne(m5, q, over, "SampleTime64", "SampleTimeFine")
<1>1. \A x \in TimeIds \cap DOMAIN m0 : \/ x \in DOMAIN p /\ m0[x] = p[x]
                                        \/ x \in DOMAIN q /\ m0[x] = q[x]
  BY DEF MergeItems, Overlay
<1>2. \A f, id1, id2 : LET r == KeepOne(f, q, over, id1, id2)
                        IN Part(r, f) /\ ~(id1 \in DOMAIN r /\ id2 \in DOMAIN r)
  BY KeepOneIs
<1> HIDE DEF m0
<1>3. Part(m6, m5) /\ Part(m5, m4) /\ Part(m4, m3) /\ Part(m3, m2) /\ Part(m2, m1) /\ Part(m1, m0)
  BY <1>2
<1>4. /\ ~("SampleTime64" \in DOMAIN m5 /\ "SampleTimeCoarse" \in DOMAIN m5)
      /\ ~("SampleTime64" \in DOMAIN m6 /\ "SampleTimeFine" \in DOMAIN m6)
  BY <1>2
<1> HIDE DEF m1, m2, m3, m4, m5, m6
<1>5. Part(m6, m0)
  BY <1>3 DEF Part
<1>6. Has(m6, "SampleTime64") => ~Has(m6, "SampleTimeCoarse") /\ ~Has(m6, "SampleTimeFine")
  BY <1>3, <1>4 DEF Part, Has
<1>7. Times(m6, strict)
  BY <1>1, <1>5, <1>6 DEF Times, Part, Has, TimeIds
<1>8. m6 = Merged(p, q, over)
  BY DEF Merged, m0, m1, m2, m3, m4, m5, m6
<1>9. QED
  BY <1>7, <1>8

LEMMA OneBecomes ==
  ASSUME NEW strict \in BOOLEAN, TimeInv(strict), NEW i \in Packets, NEW p, Times(p, strict), pkt' = [pkt EXCEPT ![i] = p],
         UNCHANGED group
  PROVE  TimeInv(strict)'
BY DEF TimeInv, Times, Has

GroupNames == {"orientation", "counter", "status", "time", "raw", "values", "place", "gps", "legacy"}

LEMMA GroupIs == group \in Groups => group \in GroupNames
BY GroupsAssumption DEF ItemsOf, GroupNames

(* No other group than "time" has a time among its items. *)
LEMMA OtherGroups == \A g \in GroupNames \ {"time"} : ItemsOf[g] \cap TimeIds = {}
BY PacketAssumption DEF GroupNames, ItemsOf, TimeIds, Orientations, Values, Numbers, Whole, Raw

LEMMA LoadedTimes ==
  ASSUME NEW strict \in BOOLEAN, TimeInv(strict), NEW items \in DeviceItems
  PROVE  Times(items, strict)
<1>1. group \in GroupNames
  BY GroupIs DEF TimeInv
<1>2. CASE group = "orientation"
  <2>1. DOMAIN items \subseteq Orientations
    BY <1>2 DEF DeviceItems
  <2>2. QED
    BY <2>1 DEF Times, Has, Orientations
<1>3. CASE group = "counter"
  BY <1>3 DEF DeviceItems, Times, Has
<1>4. CASE group = "status"
  BY <1>4 DEF DeviceItems, Times, Has
<1>5. CASE group = "time"
  BY <1>5 DEF DeviceItems, Times, Has
<1>6. CASE group = "raw"
  BY <1>6 DEF DeviceItems, Times, Has
<1>7. CASE group \in {"values", "place", "gps", "legacy"}
  <2>1. PICK id \in ItemsOf[group] : DOMAIN items = {id}
    <3>1. PICK id \in ItemsOf[group], v \in SomeValues, f \in SentFormats : items = ValueItem(id, v, f)
      BY <1>7 DEF DeviceItems
    <3>2. QED
      BY <3>1 DEF ValueItem
  <2>2. id \notin TimeIds
    BY <1>7, <2>1, OtherGroups DEF GroupNames
  <2>3. QED
    BY <2>1, <2>2 DEF Times, Has, TimeIds
<1>8. QED
  BY <1>1, <1>2, <1>3, <1>4, <1>5, <1>6, <1>7 DEF GroupNames

(* A message says the times as they are, but for the 64-bit one. *)
LEMMA SentTimes ==
  ASSUME NEW strict \in BOOLEAN, NEW p, Times(p, strict), strict => ~Has(p, "SampleTime64")
  PROVE  Times(Parsed(Written(p)), strict)
<1>1. Parsed(Written(p)) = [id \in DOMAIN p |-> OnWire(id, p[id])]
  BY DEF Parsed, Written
<1>2. /\ OnWire("SampleTimeCoarse", p["SampleTimeCoarse"]) = p["SampleTimeCoarse"]
      /\ OnWire("SampleTimeFine", p["SampleTimeFine"]) = p["SampleTimeFine"]
      /\ OnWire("SampleTime64", p["SampleTime64"]) = (p["SampleTime64"] % Half) * Half
  BY DEF OnWire, Values, Numbers, Whole
<1>3. Has(p, "SampleTime64") => (p["SampleTime64"] % Half) * Half \in Nat
  <2>1. Half \in Nat \ {0}
    BY PacketAssumption
  <2>2. \A n \in Nat : n % Half \in Nat
    BY <2>1
  <2>3. \A a, b \in Nat : a * b \in Nat
    OBVIOUS
  <2>4. QED
    BY <2>1, <2>2, <2>3 DEF Times
<1>4. QED
  BY <1>1, <1>2, <1>3 DEF Times, Has

LEMMA TimeInitInv == Init => TimeInv(FALSE)
BY DEF Init, TimeInv, Times, Has, Empty

LEMMA TimeStep ==
  ASSUME NEW strict \in BOOLEAN, TimeInv(strict), [Next]_vars,
         strict => \A i, j \in Packets : Has(pkt[i], "SampleTime64") => ~Send(i, j)
  PROVE  TimeInv(strict)'
<1>1. ASSUME NEW i \in Packets PROVE Times(pkt[i], strict)
  BY DEF TimeInv
<1>2. ASSUME NEW i \in Packets, NEW p, TimesOf(p, pkt[i]), pkt' = [pkt EXCEPT ![i] = p],
             UNCHANGED group
      PROVE  TimeInv(strict)'
  BY <1>1, <1>2, PartOfTimes, OneBecomes
<1>3. group \in GroupNames
  BY GroupIs DEF TimeInv
<1>4. ASSUME NEW i \in Packets, TellOrientation(i) \/ TellVelocity(i) PROVE TimeInv(strict)'
  <2>1. CASE TellOrientation(i)
    <3>1. PICK form \in Orientations, rot \in Rotations, frame \in Frames :
             pkt' = [pkt EXCEPT ![i] = SetOrientation(pkt[i], form, rot, frame)]
      BY <2>1 DEF TellOrientation, Tell, TellAll
    <3>2. TimesOf(SetOrientation(pkt[i], form, rot, frame), pkt[i])
      BY SettersOfOthers
    <3>3. QED
      BY <1>2, <2>1, <3>1, <3>2 DEF TellOrientation, Tell, TellAll
  <2>2. CASE TellVelocity(i)
    <3>1. PICK vel \in Velocities, frame \in Frames :
             pkt' = [pkt EXCEPT ![i] = SetVelocity(pkt[i], vel, frame)]
      BY <2>2 DEF TellVelocity, Tell, TellAll
    <3>2. TimesOf(SetVelocity(pkt[i], vel, frame), pkt[i])
      BY SettersOfOthers
    <3>3. QED
      BY <1>2, <2>2, <3>1, <3>2 DEF TellVelocity, Tell, TellAll
  <2>3. QED
    BY <1>4, <2>1, <2>2
<1>5. ASSUME NEW i \in Packets, TellCounter(i) PROVE TimeInv(strict)'
  BY <1>2, <1>5, SettersOfOthers DEF TellCounter, Tell, TellAll
<1>6. ASSUME NEW i \in Packets, TellStatus(i) PROVE TimeInv(strict)'
  BY <1>2, <1>6, SettersOfOthers DEF TellStatus, Tell, TellAll
<1>7. ASSUME NEW i \in Packets, TellTime(i) PROVE TimeInv(strict)'
  BY <1>1, <1>7, TimeSetters, OneBecomes DEF TellTime, TimeInv
<1>8. ASSUME NEW i \in Packets, TellRaw(i) PROVE TimeInv(strict)'
  <2>1. UNCHANGED group
    BY <1>8 DEF TellRaw, Tell, TellAll
  <2>2. CASE \E part \in RawParts, v \in SomeBytes :
               Tell(i, SetRawVector(pkt[i], part, v), part, v)
    <3>1. PICK part \in RawParts, v \in SomeBytes :
             pkt' = [pkt EXCEPT ![i] = SetRawVector(pkt[i], part, v)]
      BY <2>2 DEF Tell, TellAll
    <3>2. TimesOf(SetRawVector(pkt[i], part, v), pkt[i])
      BY SettersOfOthers
    <3>3. QED
      BY <1>2, <2>1, <3>1, <3>2
  <2>3. CASE \E t : pkt' = [pkt EXCEPT ![i] = SetRawTemperature(@, t)]
    BY <1>2, <2>1, <2>3, SettersOfOthers
  <2>4. CASE \E data : pkt' = [pkt EXCEPT ![i] = SetRawData(@, data)]
    BY <1>2, <2>1, <2>4, SettersOfOthers
  <2>5. QED
    BY <1>8, <2>2, <2>3, <2>4 DEF TellRaw
<1>9. ASSUME NEW i \in Packets, TellValue(i) PROVE TimeInv(strict)'
  <2>1. UNCHANGED group
    BY <1>9 DEF TellValue, Tell, TellAll
  <2>2. \A p, id, v : TimesOf(p, pkt[i]) /\ id \notin TimeIds => TimesOf(SetValue(p, id, v), pkt[i])
    <3> SUFFICES ASSUME NEW p, NEW id, NEW v, TimesOf(p, pkt[i]), id \notin TimeIds
                 PROVE  TimesOf(SetValue(p, id, v), pkt[i])
      OBVIOUS
    <3>1. TimesOf(SetValue(p, id, v), p)
      BY SettersOfOthers
    <3>2. QED
      BY <3>1 DEF TimesOf
  <2>3. TimesOf(pkt[i], pkt[i])
    BY DEF TimesOf
  <2>4. {"LatLon", "AltitudeEllipsoid", "BaroPressure", "PressureAge", "GpsSol"} \cap TimeIds = {}
    BY DEF TimeIds
  <2>5. PICK p : pkt' = [pkt EXCEPT ![i] = p] /\ TimesOf(p, pkt[i])
    <3>1. ASSUME NEW v, NEW w PROVE TimesOf(SetPositionLLA(pkt[i], v, w), pkt[i])
      BY <2>2, <2>3, <2>4 DEF SetPositionLLA
    <3>2. ASSUME NEW v, NEW w PROVE TimesOf(SetPressure(pkt[i], v, w), pkt[i])
      BY <2>2, <2>3, <2>4 DEF SetPressure
    <3>3. ASSUME NEW u, NEW v, NEW w PROVE TimesOf(SetGpsPvtData(pkt[i], u, v, w), pkt[i])
      BY <2>2, <2>4, <3>2 DEF SetGpsPvtData
    <3>4. ASSUME group \in {"values", "place"}, NEW id \in ItemsOf[group], NEW v
          PROVE  TimesOf(SetValue(pkt[i], id, v), pkt[i])
      BY <2>2, <2>3, <3>4, OtherGroups DEF GroupNames
    <3>5. QED
      BY <1>9, <3>1, <3>2, <3>3, <3>4 DEF TellValue, Tell, TellAll
  <2>6. QED
    BY <1>2, <2>1, <2>5
<1>10. ASSUME NEW i \in Packets, ClearItem(i) \/ Clear(i) PROVE TimeInv(strict)'
  BY <1>2, <1>10 DEF ClearItem, Clear, Erase, Empty, TimesOf
<1>11. ASSUME NEW i \in Packets, Load(i) PROVE TimeInv(strict)'
  <2>1. ASSUME NEW items \in DeviceItems,
               Becomes(i, [items |-> items, whole |-> TRUE], [q \in Quantities |-> ToldBy(items, q)])
        PROVE  TimeInv(strict)'
    <3>1. pkt' = [pkt EXCEPT ![i] = items] /\ UNCHANGED group
      BY <2>1 DEF Becomes, Parsed
    <3>2. QED
      BY <3>1, LoadedTimes, OneBecomes
  <2>2. ASSUME Becomes(i, [items |-> Empty, whole |-> FALSE], Nothing)
        PROVE  TimeInv(strict)'
    <3>1. pkt' = [pkt EXCEPT ![i] = Empty] /\ UNCHANGED group
      BY <2>2 DEF Becomes, Parsed
    <3>2. Times(Empty, strict)
      BY DEF Times, Empty, Has
    <3>3. QED
      BY <3>1, <3>2, OneBecomes
  <2>3. QED
    BY <1>11, <2>1, <2>2 DEF Load
<1>12. ASSUME NEW i \in Packets, NEW j \in Packets, Copy(i, j) \/ Swap(i, j) PROVE TimeInv(strict)'
  BY <1>1, <1>12 DEF TimeInv, Copy, Swap, Times, Has
<1>13. ASSUME NEW i \in Packets, NEW j \in Packets, Send(i, j) PROVE TimeInv(strict)'
  BY <1>1, <1>13, SentTimes, OneBecomes DEF Send
<1>14. ASSUME NEW i \in Packets, NEW j \in Packets, NEW over \in BOOLEAN, Merge(i, j, over)
       PROVE  TimeInv(strict)'
  BY <1>1, <1>14, MergedTimes, OneBecomes DEF Merge
<1>15. CASE UNCHANGED vars
  BY <1>15 DEF vars, TimeInv, Times, Has
<1>16. QED
  BY <1>4, <1>5, <1>6, <1>7, <1>8, <1>9, <1>10, <1>11, <1>12, <1>13, <1>14, <1>15 DEF Next

LEMMA TimesStayInv == TimeInv(FALSE) /\ [Next]_vars => TimeInv(FALSE)'
BY TimeStep

LEMMA TimesFromInv == TimeInv(FALSE) /\ [Next]_vars => TimesStay
<1> SUFFICES ASSUME TimeInv(FALSE), [Next]_vars, \A i \in Packets : Agrees(pkt[i]),
                    \A i, j \in Packets : Has(pkt[i], "SampleTime64") => ~Send(i, j)
             PROVE  \A i \in Packets : Agrees(pkt[i])'
  BY DEF TimesStay
<1>1. TimeInv(TRUE)
  BY TimesStrict DEF TimeInv
<1>2. TimeInv(TRUE)'
  BY <1>1, TimeStep
<1>3. \A i \in Packets : Times(pkt'[i], TRUE)
  BY <1>2 DEF TimeInv
<1>4. QED
  BY <1>3, TimesStrict DEF Agrees, Has, ContainsSampleTime64, SampleTime64

(* A packet with a full sample time has one, whichever items it is read     *)
(* from: sampleTime64, and the coarse and the fine time stay true to one    *)
(* another in all calls but a message written of a packet with a 64-bit     *)
(* time, for any factor and width of the times.                             *)
THEOREM OneSampleTime == Spec => TimesStayTrue
<1>1. Init => TimeInv(FALSE)
  BY TimeInitInv
<1>2. TimeInv(FALSE) /\ [Next]_vars => TimeInv(FALSE)'
  BY TimesStayInv
<1>3. TimeInv(FALSE) /\ [Next]_vars => [TimesStay]_vars
  BY TimesFromInv
<1>4. QED
  BY <1>1, <1>2, <1>3, PTL DEF Spec, TimesStayTrue
--------------------------------------------------------------------------------
(* What the items say. *)

LEMMA Says ==
  /\ \A id \in Orientations : SaidBy(id) = {"orientation"}
  /\ SaidBy("VelocityXYZ") = {"velocity"}
  /\ \A id \in {"PacketCounter", "FrameRange"} : SaidBy(id) = {"counter"}
  /\ \A id \in {"StatusByte", "StatusWord"} : SaidBy(id) = {"status"}
  /\ \A id \in TimeIds : SaidBy(id) = {}
  /\ SaidBy("RawAccGyrMagTemp") = RawParts \cup {"temp"}
  /\ \A part \in RawParts : SaidBy(Raw[part]) = {part}
  /\ \A id \in Values : SaidBy(id) = {id}
<1>1. \A id \in Orientations : SaidBy(id) = {"orientation"}
  BY PacketAssumption DEF SaidBy, Orientations, TimeIds, Raw, Values, Numbers, Whole
<1>2. SaidBy("VelocityXYZ") = {"velocity"}
  BY PacketAssumption DEF SaidBy, Orientations, TimeIds, Raw, Values, Numbers, Whole
<1>3. \A id \in {"PacketCounter", "FrameRange"} : SaidBy(id) = {"counter"}
  BY PacketAssumption DEF SaidBy, Orientations, TimeIds, Raw, Values, Numbers, Whole
<1>4. \A id \in {"StatusByte", "StatusWord"} : SaidBy(id) = {"status"}
  BY PacketAssumption DEF SaidBy, Orientations, TimeIds, Raw, Values, Numbers, Whole
<1>5. \A id \in TimeIds : SaidBy(id) = {}
  BY PacketAssumption DEF SaidBy, Orientations, TimeIds, Raw, Values, Numbers, Whole
<1>6. SaidBy("RawAccGyrMagTemp") = RawParts \cup {"temp"}
  BY PacketAssumption DEF SaidBy, Orientations, TimeIds, Raw, Values, Numbers, Whole
<1>7. \A part \in RawParts : SaidBy(Raw[part]) = {part}
  BY PacketAssumption DEF SaidBy, Orientations, TimeIds, Raw, Values, Numbers, Whole
<1>8. \A id \in Values : SaidBy(id) = {id}
  BY PacketAssumption DEF SaidBy, Orientations, TimeIds, Raw, Values, Numbers, Whole
<1>9. QED
  BY <1>1, <1>2, <1>3, <1>4, <1>5, <1>6, <1>7, <1>8

LEMMA ItemsAre ==
  /\ ItemsOf["orientation"] = Orientations \cup {"VelocityXYZ"}
  /\ ItemsOf["counter"] = {"PacketCounter", "FrameRange"}
  /\ ItemsOf["status"] = {"StatusByte", "StatusWord"}
  /\ ItemsOf["time"] = TimeIds
  /\ ItemsOf["raw"] = {"RawAccGyrMagTemp"} \cup {Raw[part] : part \in RawParts}
  /\ ItemsOf["values"] = {"Acceleration", "FreeAcceleration", "Temperature"}
  /\ ItemsOf["place"] = {"LatLon", "AltitudeEllipsoid"}
  /\ ItemsOf["gps"] = {"BaroPressure", "PressureAge", "GpsSol"}
  /\ \A g \in {"values", "place", "gps"} : ItemsOf[g] \subseteq Values
BY DEF ItemsOf, TimeIds, Values, Numbers, Whole

LEMMA QuantitiesAre ==
  /\ group = "orientation" => Quantities = {"orientation", "velocity"}
  /\ group = "counter" => Quantities = {"counter"}
  /\ group = "status" => Quantities = {"status"}
  /\ group = "time" => Quantities = {}
  /\ group = "raw" => Quantities = RawParts \cup {"temp"}
  /\ group \in {"values", "place", "gps"} => Quantities = ItemsOf[group]
<1>1. CASE group = "orientation"
  BY <1>1, ItemsAre, Says DEF Quantities, Orientations
<1>2. CASE group = "counter"
  BY <1>2, ItemsAre, Says DEF Quantities
<1>3. CASE group = "status"
  BY <1>3, ItemsAre, Says DEF Quantities
<1>4. CASE group = "time"
  BY <1>4, ItemsAre, Says DEF Quantities
<1>5. CASE group = "raw"
  BY <1>5, ItemsAre, Says DEF Quantities
<1>6. CASE group \in {"values", "place", "gps"}
  BY <1>6, ItemsAre, Says DEF Quantities
<1>7. QED
  BY <1>1, <1>2, <1>3, <1>4, <1>5, <1>6

LEMMA ContainsIs ==
  ASSUME NEW p, DOMAIN p \subseteq ItemsOf[group]
  PROVE  /\ group = "orientation" =>
              /\ Contains(p, "orientation") <=> \E form \in Orientations : Has(p, form)
              /\ Contains(p, "velocity") <=> Has(p, "VelocityXYZ")
         /\ group = "counter" =>
              (Contains(p, "counter") <=> Has(p, "PacketCounter") \/ Has(p, "FrameRange"))
         /\ group = "status" =>
              (Contains(p, "status") <=> Has(p, "StatusWord") \/ Has(p, "StatusByte"))
         /\ group = "raw" =>
              /\ \A part \in RawParts :
                   Contains(p, part) <=> Has(p, "RawAccGyrMagTemp") \/ Has(p, Raw[part])
              /\ Contains(p, "temp") <=> Has(p, "RawAccGyrMagTemp")
         /\ group \in {"values", "place", "gps"} => \A q : Contains(p, q) <=> Has(p, q)
<1>1. CASE group = "orientation"
  BY <1>1, Says, ItemsAre DEF Contains, Has
<1>2. CASE group = "counter"
  BY <1>2, Says, ItemsAre DEF Contains, Has
<1>3. CASE group = "status"
  BY <1>3, Says, ItemsAre DEF Contains, Has
<1>4. CASE group = "raw"
  <2>1. "temp" \notin RawParts
    BY PacketAssumption
  <2>2. QED
    BY <1>4, <2>1, Says, ItemsAre DEF Contains, Has
<1>5. CASE group \in {"values", "place", "gps"}
  BY <1>5, Says, ItemsAre DEF Contains, Has
<1>6. QED
  BY <1>1, <1>2, <1>3, <1>4, <1>5

--------------------------------------------------------------------------------
(* Coordinate systems. *)

CoordinateSystems == {"enu", "ned", "nwu"}
Quaternions == Int \X Int \X Int \X Int
Vectors == Int \X Int \X Int

(* Quaternions of integers stay so. *)
LEMMA MulIs ==
  ASSUME NEW a \in Quaternions, NEW b \in Quaternions
  PROVE  Mul(a, b) \in Quaternions
<1>1. /\ a[1] \in Int /\ a[2] \in Int /\ a[3] \in Int /\ a[4] \in Int
      /\ b[1] \in Int /\ b[2] \in Int /\ b[3] \in Int /\ b[4] \in Int
  BY DEF Quaternions
<1> QED BY <1>1 DEF Mul, Quaternions

\* The rows of the matrix of a quaternion a, b, c, d, applied to a vector.
Row1(a, b, c, d, x, y, z) == x*(a*a + b*b - c*c - d*d) + y*(2*b*c - 2*a*d) + z*(2*b*d + 2*a*c)
Row2(a, b, c, d, x, y, z) == x*(2*b*c + 2*a*d) + y*(a*a - b*b + c*c - d*d) + z*(2*c*d - 2*a*b)
Row3(a, b, c, d, x, y, z) == x*(2*b*d - 2*a*c) + y*(2*c*d + 2*a*b) + z*(a*a - b*b - c*c + d*d)

LEMMA RotateIs ==
  ASSUME NEW q \in Quaternions, NEW v, v[1] \in Int, v[2] \in Int, v[3] \in Int
  PROVE  Rotate(q, v) = <<Row1(q[1], q[2], q[3], q[4], v[1], v[2], v[3]),
                          Row2(q[1], q[2], q[3], q[4], v[1], v[2], v[3]),
                          Row3(q[1], q[2], q[3], q[4], v[1], v[2], v[3])>>
<1> DEFINE a == q[1]
           b == q[2]
           c == q[3]
           d == q[4]
           x == v[1]
           y == v[2]
           z == v[3]
           m1 == -(b*x) - c*y - d*z
           m2 == a*x + c*z - d*y
           m3 == a*y - b*z + d*x
           m4 == a*z + b*y - c*x
           r == Mul(<<m1, m2, m3, m4>>, <<a, -b, -c, -d>>)
<1>1. a \in Int /\ b \in Int /\ c \in Int /\ d \in Int /\ x \in Int /\ y \in Int /\ z \in Int
  BY DEF Quaternions
<1>2. Rotate(q, v) = LET r0 == Mul(Mul(q, <<0, x, y, z>>), <<a, -b, -c, -d>>) IN <<r0[2], r0[3], r0[4]>>
  BY DEF Rotate
<1>3. Mul(q, <<0, x, y, z>>) = <<a*0 - b*x - c*y - d*z, a*x + b*0 + c*z - d*y, a*y - b*z + c*0 + d*x, a*z + b*y - c*x + d*0>>
  BY DEF Mul
<1> HIDE DEF a, b, c, d, x, y, z
<1>4. Mul(q, <<0, x, y, z>>) = <<m1, m2, m3, m4>>
  BY <1>1, <1>3
<1>5. /\ m1 \in Int /\ m2 \in Int /\ m3 \in Int /\ m4 \in Int
  BY <1>1
<1>6. r = <<m1*a + m2*b + m3*c + m4*d, -(m1*b) + m2*a - m3*d + m4*c,
            -(m1*c) + m2*d + m3*a - m4*b, -(m1*d) - m2*c + m3*b + m4*a>>
  <2> HIDE DEF m1, m2, m3, m4
  <2> QED
    BY <1>1, <1>5 DEF Mul
<1>7. /\ -(m1*b) + m2*a - m3*d + m4*c = Row1(a, b, c, d, x, y, z)
      /\ -(m1*c) + m2*d + m3*a - m4*b = Row2(a, b, c, d, x, y, z)
      /\ -(m1*d) - m2*c + m3*b + m4*a = Row3(a, b, c, d, x, y, z)
  BY <1>1 DEF Row1, Row2, Row3
<1> HIDE DEF r, m1, m2, m3, m4
<1>8. Rotate(q, v) = <<r[2], r[3], r[4]>>
  BY <1>2, <1>4 DEF r
<1>9. QED
  BY <1>6, <1>7, <1>8 DEF a, b, c, d, x, y, z

(* A product is as long as its factors. *)
LEMMA PreNorm ==
  ASSUME NEW q \in Quaternions, NEW f \in CoordinateSystems, NEW g \in CoordinateSystems
  PROVE  LET pre == PreRotFromXdi(f, g) IN
         /\ pre \in Quaternions
         /\ Norm(Mul(pre, q)) = Norm(pre) * Norm(q)
<1>1. /\ q[1] \in Int /\ q[2] \in Int /\ q[3] \in Int /\ q[4] \in Int
  BY DEF Quaternions
<1> DEFINE Goal(p) == p \in Quaternions /\ Norm(Mul(p, q)) = Norm(p) * Norm(q)
<1>2. Goal(<<1,0,0,0>>) BY <1>1 DEF Norm, Mul, Quaternions
<1>3. Goal(<<0,1,1,0>>) BY <1>1 DEF Norm, Mul, Quaternions
<1>4. Goal(<<1,0,0,1>>) BY <1>1 DEF Norm, Mul, Quaternions
<1>5. Goal(<<0,-1,-1,0>>) BY <1>1 DEF Norm, Mul, Quaternions
<1>6. Goal(<<0,1,0,0>>) BY <1>1 DEF Norm, Mul, Quaternions
<1>7. Goal(<<1,0,0,-1>>) BY <1>1 DEF Norm, Mul, Quaternions
<1>8. Goal(<<0,-1,0,0>>) BY <1>1 DEF Norm, Mul, Quaternions
<1> HIDE DEF Goal
<1>9. Goal(PreRotFromXdi(f, g))
  BY <1>2, <1>3, <1>4, <1>5, <1>6, <1>7, <1>8 DEF PreRotFromXdi, CoordinateSystems
<1> QED BY <1>9 DEF Goal


LEMMA RotateInts ==
  ASSUME NEW q \in Quaternions, NEW v, v[1] \in Int, v[2] \in Int, v[3] \in Int
  PROVE  /\ Rotate(q, v)[1] \in Int /\ Rotate(q, v)[2] \in Int /\ Rotate(q, v)[3] \in Int
<1>1. q[1] \in Int /\ q[2] \in Int /\ q[3] \in Int /\ q[4] \in Int
  BY DEF Quaternions
<1>2. QED
  BY <1>1, RotateIs DEF Row1, Row2, Row3

LEMMA NormInt == \A q \in Quaternions : Norm(q) \in Int
BY DEF Norm, Quaternions

(* The same direction in another coordinate system. *)
LEMMA InIs ==
  ASSUME NEW f \in CoordinateSystems, NEW g \in CoordinateSystems,
         NEW v, v[1] \in Int, v[2] \in Int, v[3] \in Int
  PROVE  In(g, East(f, v)) =
           CASE g = f -> <<v[1], v[2], v[3]>>
             [] g = "enu" /\ f = "nwu" -> <<-v[2], v[1], v[3]>>
             [] g = "enu" /\ f = "ned" -> <<v[2], v[1], -v[3]>>
             [] g = "nwu" /\ f = "enu" -> <<v[2], -v[1], v[3]>>
             [] g = "nwu" /\ f = "ned" -> <<v[1], -v[2], -v[3]>>
             [] g = "ned" /\ f = "enu" -> <<v[2], v[1], -v[3]>>
             [] g = "ned" /\ f = "nwu" -> <<v[1], -v[2], -v[3]>>
<1> DEFINE e == East(f, v)
           x == v[1]
           y == v[2]
           z == v[3]
<1>1. x \in Int /\ y \in Int /\ z \in Int
  OBVIOUS
<1> HIDE DEF e, x, y, z
<1>2. CASE f = "enu"
  <2>1. e[1] = x /\ e[2] = y /\ e[3] = z
    BY <1>1, <1>2 DEF East, Axes, e, x, y, z
  <2>2. /\ In("enu", e) = <<x, y, z>> /\ In("nwu", e) = <<y, -x, z>> /\ In("ned", e) = <<y, x, -z>>
    BY <1>1, <2>1 DEF In, Axes
  <2>3. QED
    BY <1>2, <2>2 DEF CoordinateSystems, e, x, y, z
<1>3. CASE f = "ned"
  <2>1. e[1] = y /\ e[2] = x /\ e[3] = -z
    BY <1>1, <1>3 DEF East, Axes, e, x, y, z
  <2>2. /\ In("ned", e) = <<x, y, z>> /\ In("enu", e) = <<y, x, -z>> /\ In("nwu", e) = <<x, -y, -z>>
    BY <1>1, <2>1 DEF In, Axes
  <2>3. QED
    BY <1>3, <2>2 DEF CoordinateSystems, e, x, y, z
<1>4. CASE f = "nwu"
  <2>1. e[1] = -y /\ e[2] = x /\ e[3] = z
    BY <1>1, <1>4 DEF East, Axes, e, x, y, z
  <2>2. /\ In("nwu", e) = <<x, y, z>> /\ In("enu", e) = <<-y, x, z>> /\ In("ned", e) = <<x, -y, -z>>
    BY <1>1, <2>1 DEF In, Axes
  <2>3. QED
    BY <1>4, <2>2 DEF CoordinateSystems, e, x, y, z
<1>5. QED
  BY <1>2, <1>3, <1>4 DEF CoordinateSystems

LEMMA DirectionInts ==
  ASSUME NEW f \in CoordinateSystems, NEW g \in CoordinateSystems,
         NEW v, v[1] \in Int, v[2] \in Int, v[3] \in Int, NEW k \in 1 .. 3
  PROVE  In(g, East(f, v))[k] \in Int
<1>1. /\ Axes[f][1][1] \in Int /\ Axes[f][1][2] \in Int /\ Axes[f][1][3] \in Int
      /\ Axes[f][2][1] \in Int /\ Axes[f][2][2] \in Int /\ Axes[f][2][3] \in Int
      /\ Axes[f][3][1] \in Int /\ Axes[f][3][2] \in Int /\ Axes[f][3][3] \in Int
      /\ Axes[g][k][1] \in Int /\ Axes[g][k][2] \in Int /\ Axes[g][k][3] \in Int
  BY DEF Axes, CoordinateSystems
<1> DEFINE e == East(f, v)
<1>2. e[1] \in Int /\ e[2] \in Int /\ e[3] \in Int
  BY <1>1 DEF East
<1> HIDE DEF e
<1>3. In(g, e)[k] \in Int
  BY <1>1, <1>2 DEF In
<1>4. QED
  BY <1>3 DEF e

(* An orientation turned by preRotFromXdi gives a vector the same direction, *)
(* in the coordinate system it is turned to.                                *)
LEMMA PreRotates ==
  ASSUME NEW q \in Quaternions, NEW f \in CoordinateSystems, NEW g \in CoordinateSystems,
         NEW v, v[1] \in Int, v[2] \in Int, v[3] \in Int, NEW k \in 1 .. 3
  PROVE  Rotate(Mul(PreRotFromXdi(f, g), q), v)[k]
           = In(g, East(f, Rotate(q, v)))[k] * Norm(PreRotFromXdi(f, g))
<1> DEFINE a == q[1]
           b == q[2]
           c == q[3]
           d == q[4]
           x == v[1]
           y == v[2]
           z == v[3]
           w1 == Row1(a, b, c, d, x, y, z)
           w2 == Row2(a, b, c, d, x, y, z)
           w3 == Row3(a, b, c, d, x, y, z)
<1>1. q = <<a, b, c, d>>
  BY DEF Quaternions
<1>2. a \in Int /\ b \in Int /\ c \in Int /\ d \in Int /\ x \in Int /\ y \in Int /\ z \in Int
  BY DEF Quaternions
<1>3. Rotate(q, v) = <<w1, w2, w3>>
  BY RotateIs
<1> HIDE DEF a, b, c, d, x, y, z
<1>4. w1 \in Int /\ w2 \in Int /\ w3 \in Int
  BY <1>2 DEF Row1, Row2, Row3
<1> HIDE DEF w1, w2, w3
<1>5. CASE f = g
  <2>1. Mul(<<1, 0, 0, 0>>, q) = q /\ Norm(<<1, 0, 0, 0>>) = 1 /\ PreRotFromXdi(f, g) = <<1, 0, 0, 0>>
    BY <1>1, <1>2, <1>5 DEF Mul, Norm, PreRotFromXdi
  <2>2. In(g, East(f, <<w1, w2, w3>>)) = <<w1, w2, w3>>
    BY <1>4, <1>5 DEF In, East, Axes, CoordinateSystems
  <2>3. QED
    BY <1>3, <1>4, <2>1, <2>2
<1>6. CASE f = "ned" /\ g = "enu"
  <2>1. /\ PreRotFromXdi(f, g) = <<0, 1, 1, 0>> /\ Norm(<<0, 1, 1, 0>>) = 2
        /\ Mul(<<0, 1, 1, 0>>, q) = <<-b - c, a + d, -d + a, c - b>>
    BY <1>1, <1>2, <1>6 DEF Mul, Norm, PreRotFromXdi
  <2> DEFINE m == <<-b - c, a + d, -d + a, c - b>>
  <2>2. Rotate(m, v)
          = <<Row1(-b - c, a + d, -d + a, c - b, x, y, z), Row2(-b - c, a + d, -d + a, c - b, x, y, z),
              Row3(-b - c, a + d, -d + a, c - b, x, y, z)>>
    <3>1. m \in Quaternions
      BY <1>2 DEF Quaternions
    <3>2. QED
      BY <1>2, <3>1, RotateIs DEF x, y, z
  <2>3. In(g, East(f, <<w1, w2, w3>>)) = <<w2, w1, -w3>>
    BY <1>4, <1>6 DEF In, East, Axes
  <2>4. /\ Row1(-b - c, a + d, -d + a, c - b, x, y, z) = 2*w2
        /\ Row2(-b - c, a + d, -d + a, c - b, x, y, z) = 2*w1
        /\ Row3(-b - c, a + d, -d + a, c - b, x, y, z) = -(2*w3)
    BY <1>2 DEF w1, w2, w3, Row1, Row2, Row3
  <2> HIDE DEF m
  <2>5. Mul(PreRotFromXdi(f, g), q) = m
    BY <2>1 DEF m
  <2>6. Rotate(m, v) = <<2*w2, 2*w1, -(2*w3)>>
    BY <2>2, <2>4
  <2>7. QED
    BY <1>3, <1>4, <2>1, <2>3, <2>5, <2>6
<1>7. CASE f = "nwu" /\ g = "enu"
  <2>1. /\ PreRotFromXdi(f, g) = <<1, 0, 0, 1>> /\ Norm(<<1, 0, 0, 1>>) = 2
        /\ Mul(<<1, 0, 0, 1>>, q) = <<a - d, b - c, c + b, d + a>>
    BY <1>1, <1>2, <1>7 DEF Mul, Norm, PreRotFromXdi
  <2> DEFINE m == <<a - d, b - c, c + b, d + a>>
  <2>2. Rotate(m, v)
          = <<Row1(a - d, b - c, c + b, d + a, x, y, z), Row2(a - d, b - c, c + b, d + a, x, y, z),
              Row3(a - d, b - c, c + b, d + a, x, y, z)>>
    <3>1. m \in Quaternions
      BY <1>2 DEF Quaternions
    <3>2. QED
      BY <1>2, <3>1, RotateIs DEF x, y, z
  <2>3. In(g, East(f, <<w1, w2, w3>>)) = <<-w2, w1, w3>>
    BY <1>4, <1>7 DEF In, East, Axes
  <2>4. /\ Row1(a - d, b - c, c + b, d + a, x, y, z) = -(2*w2)
        /\ Row2(a - d, b - c, c + b, d + a, x, y, z) = 2*w1
        /\ Row3(a - d, b - c, c + b, d + a, x, y, z) = 2*w3
    BY <1>2 DEF w1, w2, w3, Row1, Row2, Row3
  <2> HIDE DEF m
  <2>5. Mul(PreRotFromXdi(f, g), q) = m
    BY <2>1 DEF m
  <2>6. Rotate(m, v) = <<-(2*w2), 2*w1, 2*w3>>
    BY <2>2, <2>4
  <2>7. QED
    BY <1>3, <1>4, <2>1, <2>3, <2>5, <2>6
<1>8. CASE f = "enu" /\ g = "ned"
  <2>1. /\ PreRotFromXdi(f, g) = <<0, -1, -1, 0>> /\ Norm(<<0, -1, -1, 0>>) = 2
        /\ Mul(<<0, -1, -1, 0>>, q) = <<b + c, -a - d, d - a, -c + b>>
    BY <1>1, <1>2, <1>8 DEF Mul, Norm, PreRotFromXdi
  <2> DEFINE m == <<b + c, -a - d, d - a, -c + b>>
  <2>2. Rotate(m, v)
          = <<Row1(b + c, -a - d, d - a, -c + b, x, y, z), Row2(b + c, -a - d, d - a, -c + b, x, y, z),
              Row3(b + c, -a - d, d - a, -c + b, x, y, z)>>
    <3>1. m \in Quaternions
      BY <1>2 DEF Quaternions
    <3>2. QED
      BY <1>2, <3>1, RotateIs DEF x, y, z
  <2>3. In(g, East(f, <<w1, w2, w3>>)) = <<w2, w1, -w3>>
    BY <1>4, <1>8 DEF In, East, Axes
  <2>4. /\ Row1(b + c, -a - d, d - a, -c + b, x, y, z) = 2*w2
        /\ Row2(b + c, -a - d, d - a, -c + b, x, y, z) = 2*w1
        /\ Row3(b + c, -a - d, d - a, -c + b, x, y, z) = -(2*w3)
    BY <1>2 DEF w1, w2, w3, Row1, Row2, Row3
  <2> HIDE DEF m
  <2>5. Mul(PreRotFromXdi(f, g), q) = m
    BY <2>1 DEF m
  <2>6. Rotate(m, v) = <<2*w2, 2*w1, -(2*w3)>>
    BY <2>2, <2>4
  <2>7. QED
    BY <1>3, <1>4, <2>1, <2>3, <2>5, <2>6
<1>9. CASE f = "nwu" /\ g = "ned"
  <2>1. /\ PreRotFromXdi(f, g) = <<0, 1, 0, 0>> /\ Norm(<<0, 1, 0, 0>>) = 1
        /\ Mul(<<0, 1, 0, 0>>, q) = <<-b, a, -d, c>>
    BY <1>1, <1>2, <1>9 DEF Mul, Norm, PreRotFromXdi
  <2> DEFINE m == <<-b, a, -d, c>>
  <2>2. Rotate(m, v)
          = <<Row1(-b, a, -d, c, x, y, z), Row2(-b, a, -d, c, x, y, z),
              Row3(-b, a, -d, c, x, y, z)>>
    <3>1. m \in Quaternions
      BY <1>2 DEF Quaternions
    <3>2. QED
      BY <1>2, <3>1, RotateIs DEF x, y, z
  <2>3. In(g, East(f, <<w1, w2, w3>>)) = <<w1, -w2, -w3>>
    BY <1>4, <1>9 DEF In, East, Axes
  <2>4. /\ Row1(-b, a, -d, c, x, y, z) = w1
        /\ Row2(-b, a, -d, c, x, y, z) = -w2
        /\ Row3(-b, a, -d, c, x, y, z) = -w3
    BY <1>2 DEF w1, w2, w3, Row1, Row2, Row3
  <2> HIDE DEF m
  <2>5. Mul(PreRotFromXdi(f, g), q) = m
    BY <2>1 DEF m
  <2>6. Rotate(m, v) = <<w1, -w2, -w3>>
    BY <2>2, <2>4
  <2>7. QED
    BY <1>3, <1>4, <2>1, <2>3, <2>5, <2>6
<1>10. CASE f = "enu" /\ g = "nwu"
  <2>1. /\ PreRotFromXdi(f, g) = <<1, 0, 0, -1>> /\ Norm(<<1, 0, 0, -1>>) = 2
        /\ Mul(<<1, 0, 0, -1>>, q) = <<a + d, b + c, c - b, d - a>>
    BY <1>1, <1>2, <1>10 DEF Mul, Norm, PreRotFromXdi
  <2> DEFINE m == <<a + d, b + c, c - b, d - a>>
  <2>2. Rotate(m, v)
          = <<Row1(a + d, b + c, c - b, d - a, x, y, z), Row2(a + d, b + c, c - b, d - a, x, y, z),
              Row3(a + d, b + c, c - b, d - a, x, y, z)>>
    <3>1. m \in Quaternions
      BY <1>2 DEF Quaternions
    <3>2. QED
      BY <1>2, <3>1, RotateIs DEF x, y, z
  <2>3. In(g, East(f, <<w1, w2, w3>>)) = <<w2, -w1, w3>>
    BY <1>4, <1>10 DEF In, East, Axes
  <2>4. /\ Row1(a + d, b + c, c - b, d - a, x, y, z) = 2*w2
        /\ Row2(a + d, b + c, c - b, d - a, x, y, z) = -(2*w1)
        /\ Row3(a + d, b + c, c - b, d - a, x, y, z) = 2*w3
    BY <1>2 DEF w1, w2, w3, Row1, Row2, Row3
  <2> HIDE DEF m
  <2>5. Mul(PreRotFromXdi(f, g), q) = m
    BY <2>1 DEF m
  <2>6. Rotate(m, v) = <<2*w2, -(2*w1), 2*w3>>
    BY <2>2, <2>4
  <2>7. QED
    BY <1>3, <1>4, <2>1, <2>3, <2>5, <2>6
<1>11. CASE f = "ned" /\ g = "nwu"
  <2>1. /\ PreRotFromXdi(f, g) = <<0, -1, 0, 0>> /\ Norm(<<0, -1, 0, 0>>) = 1
        /\ Mul(<<0, -1, 0, 0>>, q) = <<b, -a, d, -c>>
    BY <1>1, <1>2, <1>11 DEF Mul, Norm, PreRotFromXdi
  <2> DEFINE m == <<b, -a, d, -c>>
  <2>2. Rotate(m, v)
          = <<Row1(b, -a, d, -c, x, y, z), Row2(b, -a, d, -c, x, y, z),
              Row3(b, -a, d, -c, x, y, z)>>
    <3>1. m \in Quaternions
      BY <1>2 DEF Quaternions
    <3>2. QED
      BY <1>2, <3>1, RotateIs DEF x, y, z
  <2>3. In(g, East(f, <<w1, w2, w3>>)) = <<w1, -w2, -w3>>
    BY <1>4, <1>11 DEF In, East, Axes
  <2>4. /\ Row1(b, -a, d, -c, x, y, z) = w1
        /\ Row2(b, -a, d, -c, x, y, z) = -w2
        /\ Row3(b, -a, d, -c, x, y, z) = -w3
    BY <1>2 DEF w1, w2, w3, Row1, Row2, Row3
  <2> HIDE DEF m
  <2>5. Mul(PreRotFromXdi(f, g), q) = m
    BY <2>1 DEF m
  <2>6. Rotate(m, v) = <<w1, -w2, -w3>>
    BY <2>2, <2>4
  <2>7. QED
    BY <1>3, <1>4, <2>1, <2>3, <2>5, <2>6
<1>12. QED
  BY <1>5, <1>6, <1>7, <1>8, <1>9, <1>10, <1>11 DEF CoordinateSystems

--------------------------------------------------------------------------------
(* What a packet p was told last, t, and what it holds, in each group.      *)

Rotating == [rot : Quaternions, frame : CoordinateSystems]
Moving   == [vel : Vectors, frame : CoordinateSystems]

(* All forms that are there say what was told last. *)
OrientationGood(p, t) ==
  /\ t["orientation"] # None <=> \E form \in Orientations : Has(p, form)
  /\ t["velocity"] # None <=> Has(p, "VelocityXYZ")
  /\ \A form \in Orientations : Has(p, form) =>
       p[form] \in Rotating /\ (Known(t["orientation"]) => p[form] = t["orientation"])
  /\ Has(p, "VelocityXYZ") =>
       p["VelocityXYZ"] \in Moving /\ (Known(t["velocity"]) => p["VelocityXYZ"] = t["velocity"])

(* There is one counter. *)
CounterGood(p, t) ==
  /\ t["counter"] # None <=> Has(p, "PacketCounter") \/ Has(p, "FrameRange")
  /\ ~(Has(p, "PacketCounter") /\ Has(p, "FrameRange"))
  /\ Has(p, "PacketCounter") => p["PacketCounter"] \in Int
  /\ Has(p, "FrameRange") => p["FrameRange"] \in [first : Int, last : Int]
  /\ Known(t["counter"]) => PacketCounter(p) = t["counter"]

(* There is one status, where one is known. *)
StatusGood(p, t) ==
  /\ t["status"] # None <=> Has(p, "StatusWord") \/ Has(p, "StatusByte")
  /\ Has(p, "StatusWord") => p["StatusWord"] \in Int \X Int
  /\ Known(t["status"]) => ~(Has(p, "StatusWord") /\ Has(p, "StatusByte")) /\ Status(p) = t["status"]

RawGood(p, t) ==
  /\ Has(p, "RawAccGyrMagTemp") => DOMAIN p["RawAccGyrMagTemp"] = RawParts \cup {"temp"}
  /\ t["temp"] # None <=> Has(p, "RawAccGyrMagTemp")
  /\ Known(t["temp"]) => p["RawAccGyrMagTemp"]["temp"] = t["temp"]
  /\ \A part \in RawParts :
       /\ t[part] # None <=> Has(p, "RawAccGyrMagTemp") \/ Has(p, Raw[part])
       /\ Known(t[part]) => RawVector(p, part) = t[part]

Items == [value : Int, format : {"float", "double"}]

(* An acceleration and a place lose nothing when they are sent. *)
ValuesGood(p, t) ==
  /\ \A id \in DOMAIN p :
       /\ p[id] \in Items
       /\ id \in {"Acceleration", "LatLon"} => p[id].value % Formats[p[id].format] = 0
  /\ \A id \in ItemsOf[group] : /\ t[id] # None <=> Has(p, id)
                                /\ Known(t[id]) => p[id].value = t[id]

Good(p, t) ==
  /\ DOMAIN p \subseteq ItemsOf[group] /\ DOMAIN t = Quantities
  /\ group = "orientation" => OrientationGood(p, t)
  /\ group = "counter" => CounterGood(p, t)
  /\ group = "status"  => StatusGood(p, t)
  /\ group = "raw"     => RawGood(p, t)
  /\ group \in {"values", "place", "gps"} => ValuesGood(p, t)

ReadInv ==
  /\ group \in Groups \ {"legacy"} /\ DOMAIN pkt = Packets /\ DOMAIN told = Packets
  /\ \A i \in Packets : Good(pkt[i], told[i])

LEMMA GoodReads ==
  ASSUME NEW p, NEW t, Good(p, t), group \in GroupNames \ {"legacy"}, NEW q \in Quantities
  PROVE  /\ Contains(p, q) <=> t[q] # None
         /\ Known(t[q]) =>
              CASE q = "counter"   -> PacketCounter(p) = t[q]
                [] q = "status"    -> Status(p) = t[q]
                [] q \in RawParts  -> RawVector(p, q) = t[q]
                [] q = "temp"      -> p["RawAccGyrMagTemp"].temp = t[q]
                [] q \in Values    -> p[q].value = t[q]
                [] OTHER -> TRUE
<1>1. CASE group = "orientation"
  BY <1>1, ContainsIs, QuantitiesAre, PacketAssumption
  DEF Good, OrientationGood, Values, Numbers, Whole
<1>2. CASE group = "counter"
  BY <1>2, ContainsIs, QuantitiesAre, PacketAssumption
  DEF Good, CounterGood, Values, Numbers, Whole
<1>3. CASE group = "status"
  BY <1>3, ContainsIs, QuantitiesAre, PacketAssumption
  DEF Good, StatusGood, Values, Numbers, Whole
<1>4. CASE group = "raw"
  BY <1>4, ContainsIs, QuantitiesAre, PacketAssumption
  DEF Good, RawGood, Values, Numbers, Whole
<1>5. CASE group \in {"values", "place", "gps"}
  BY <1>5, ContainsIs, QuantitiesAre, ItemsAre, PacketAssumption
  DEF Good, ValuesGood, Values, Numbers, Whole
<1>6. CASE group = "time"
  BY <1>6, QuantitiesAre
<1>7. QED
  BY <1>1, <1>2, <1>3, <1>4, <1>5, <1>6 DEF GroupNames

(* A getter turns the form it finds to the coordinate system it is asked for. *)
LEMMA FormTurns ==
  ASSUME NEW p, NEW o \in Rotating, \E form \in Orientations : Has(p, form),
         \A form \in Orientations : Has(p, form) => p[form] = o, NEW frame \in CoordinateSystems,
         NEW form \in Orientations, NEW axis \in 1 .. 3, NEW k \in 1 .. 3
  PROVE  LET read == Orientation(p, form, frame)
             body == [n \in 1 .. 3 |-> IF n = axis THEN 1 ELSE 0]
         IN Rotate(read, body)[k] * Norm(o.rot)
              = In(frame, East(o.frame, Rotate(o.rot, body)))[k] * Norm(read)
<1> DEFINE body == [n \in 1 .. 3 |-> IF n = axis THEN 1 ELSE 0]
           pre == PreRotFromXdi(o.frame, frame)
           First(n) == Has(p, Search[form][n]) /\ \A j \in 1 .. n - 1 : ~Has(p, Search[form][j])
<1>1. PICK there \in Orientations : Has(p, there)
  OBVIOUS
<1>2. \E n \in 1 .. 3 : First(n)
  BY <1>1 DEF Search, Orientations
<1> DEFINE n0 == CHOOSE n \in 1 .. 3 : First(n)
<1>3. n0 \in 1 .. 3 /\ First(n0)
  BY <1>2
<1>4. Orientation(p, form, frame) = Mul(PreRotFromXdi(p[Search[form][n0]].frame, frame), p[Search[form][n0]].rot)
  BY DEF Orientation
<1> HIDE DEF n0
<1>5. Search[form][n0] \in Orientations
  BY <1>3 DEF Search, Orientations
<1>6. p[Search[form][n0]] = o /\ o \in Rotating
  BY <1>3, <1>5
<1>7. Orientation(p, form, frame) = Mul(pre, o.rot) /\ o.rot \in Quaternions /\ o.frame \in CoordinateSystems
  BY <1>4, <1>6 DEF Rotating
<1>8. body[1] \in Int /\ body[2] \in Int /\ body[3] \in Int
  OBVIOUS
<1> HIDE DEF body
<1>9. /\ Rotate(Mul(pre, o.rot), body)[k] = In(frame, East(o.frame, Rotate(o.rot, body)))[k] * Norm(pre)
      /\ Norm(Mul(pre, o.rot)) = Norm(pre) * Norm(o.rot)
      /\ pre \in Quaternions
  BY <1>7, <1>8, PreRotates, PreNorm
<1> DEFINE e == In(frame, East(o.frame, Rotate(o.rot, body)))[k]
<1>10. e \in Int
  <2>1. /\ Rotate(o.rot, body)[1] \in Int /\ Rotate(o.rot, body)[2] \in Int /\ Rotate(o.rot, body)[3] \in Int
    BY <1>7, <1>8, RotateInts
  <2>2. QED
    BY <1>7, <2>1, DirectionInts
<1>11. Norm(pre) \in Int /\ Norm(o.rot) \in Int
  BY <1>7, <1>9, NormInt
<1> HIDE DEF e, pre
<1>12. (e * Norm(pre)) * Norm(o.rot) = e * (Norm(pre) * Norm(o.rot))
  BY <1>10, <1>11
<1>13. QED
  BY <1>7, <1>9, <1>12 DEF e, body

(* And so does velocity. *)
LEMMA VelocityTurns ==
  ASSUME NEW p, NEW m \in Moving, p["VelocityXYZ"] = m, NEW frame \in CoordinateSystems
  PROVE  Velocity(p, frame) = In(frame, East(m.frame, m.vel))
<1> DEFINE f == m.frame
           v == m.vel
<1>1. f \in CoordinateSystems /\ v \in Vectors
  BY DEF Moving
<1>2. v = <<v[1], v[2], v[3]>> /\ v[1] \in Int /\ v[2] \in Int /\ v[3] \in Int
  BY <1>1 DEF Vectors
<1>3. Velocity(p, frame) = CASE frame = f -> v
     [] frame = "enu" /\ f = "nwu" -> <<-v[2], v[1], v[3]>>
     [] frame = "enu" /\ f = "ned" -> <<v[2], v[1], -v[3]>>
     [] frame = "nwu" /\ f = "enu" -> <<v[2], -v[1], v[3]>>
     [] frame = "nwu" /\ f = "ned" -> <<v[1], -v[2], -v[3]>>
     [] frame = "ned" /\ f = "enu" -> <<v[2], v[1], -v[3]>>
     [] frame = "ned" /\ f = "nwu" -> <<v[1], -v[2], -v[3]>>
  BY DEF Velocity
<1> HIDE DEF f, v
<1>4. \A g \in CoordinateSystems, h \in CoordinateSystems :
        In(g, East(h, v)) =
          CASE g = h -> <<v[1], v[2], v[3]>>
            [] g = "enu" /\ h = "nwu" -> <<-v[2], v[1], v[3]>>
            [] g = "enu" /\ h = "ned" -> <<v[2], v[1], -v[3]>>
            [] g = "nwu" /\ h = "enu" -> <<v[2], -v[1], v[3]>>
            [] g = "nwu" /\ h = "ned" -> <<v[1], -v[2], -v[3]>>
            [] g = "ned" /\ h = "enu" -> <<v[2], v[1], -v[3]>>
            [] g = "ned" /\ h = "nwu" -> <<v[1], -v[2], -v[3]>>
  BY <1>2, InIs
<1>5. QED
  BY <1>1, <1>2, <1>3, <1>4 DEF f, v, CoordinateSystems

LEMMA GoodDirections ==
  ASSUME NEW p, NEW t, OrientationGood(p, t), NEW frame \in CoordinateSystems
  PROVE  /\ Known(t["orientation"]) =>
              LET o == t["orientation"] IN
              \A form \in Orientations, axis, k \in 1 .. 3 :
                LET read == Orientation(p, form, frame)
                    body == [n \in 1 .. 3 |-> IF n = axis THEN 1 ELSE 0]
                IN Rotate(read, body)[k] * Norm(o.rot)
                     = In(frame, East(o.frame, Rotate(o.rot, body)))[k] * Norm(read)
         /\ Known(t["velocity"]) =>
              Velocity(p, frame) = In(frame, East(t["velocity"].frame, t["velocity"].vel))
<1>1. Known(t["orientation"]) =>
        /\ t["orientation"] \in Rotating
        /\ \E form \in Orientations : Has(p, form)
        /\ \A form \in Orientations : Has(p, form) => p[form] = t["orientation"]
  BY DEF OrientationGood, Known
<1>2. Known(t["velocity"]) => p["VelocityXYZ"] = t["velocity"] /\ t["velocity"] \in Moving
  BY DEF OrientationGood, Known
<1>3. QED
  BY <1>1, <1>2, FormTurns, VelocityTurns

LEMMA NothingGood == Good(Empty, Nothing)
<1>1. DOMAIN Empty = {} /\ \A q \in Quantities : Nothing[q] = None
  BY DEF Empty, Nothing
<1>2. /\ DOMAIN Nothing = Quantities
      /\ group = "orientation" => OrientationGood(Empty, Nothing)
  BY <1>1, QuantitiesAre DEF Nothing, OrientationGood, Has, Known
<1>3. group = "counter" => CounterGood(Empty, Nothing)
  BY <1>1, QuantitiesAre DEF CounterGood, Has, Known
<1>4. group = "status" => StatusGood(Empty, Nothing)
  BY <1>1, QuantitiesAre DEF StatusGood, Has, Known
<1>5. group = "raw" => RawGood(Empty, Nothing)
  BY <1>1, QuantitiesAre DEF RawGood, Has, Known
<1>6. group \in {"values", "place", "gps"} => ValuesGood(Empty, Nothing)
  BY <1>1, QuantitiesAre DEF ValuesGood, Has, Known
<1>7. QED
  BY <1>1, <1>2, <1>3, <1>4, <1>5, <1>6 DEF Good

\* The quantity q is told the value v.
ToldNow(t, q, v) == Overlay([x \in {q} |-> v], t)

LEMMA ToldNowIs ==
  ASSUME NEW t, NEW q, NEW v
  PROVE  /\ DOMAIN ToldNow(t, q, v) = DOMAIN t \cup {q}
         /\ ToldNow(t, q, v)[q] = v
         /\ \A x \in DOMAIN t \ {q} : ToldNow(t, q, v)[x] = t[x]
BY DEF ToldNow, Overlay

--------------------------------------------------------------------------------
(* Setters. *)

LEMMA OrientationTold ==
  ASSUME NEW p, NEW t, Good(p, t), group = "orientation"
  PROVE  /\ \A form \in Orientations, rot \in Rotations, frame \in Frames :
              Good(SetOrientation(p, form, rot, frame),
                   ToldNow(t, "orientation", [rot |-> rot, frame |-> frame]))
         /\ \A vel \in Velocities, frame \in Frames :
              Good(SetVelocity(p, vel, frame),
                   ToldNow(t, "velocity", [vel |-> vel, frame |-> frame]))
<1>1. /\ DOMAIN p \subseteq Orientations \cup {"VelocityXYZ"}
      /\ DOMAIN t = {"orientation", "velocity"} /\ Quantities = {"orientation", "velocity"}
      /\ ItemsOf[group] = Orientations \cup {"VelocityXYZ"} /\ "VelocityXYZ" \notin Orientations
  BY ItemsAre, QuantitiesAre DEF Good, Orientations
<1>2. ASSUME NEW form \in Orientations, NEW rot \in Rotations, NEW frame \in Frames
      PROVE  Good(SetOrientation(p, form, rot, frame),
                  ToldNow(t, "orientation", [rot |-> rot, frame |-> frame]))
  <2> DEFINE v == [rot |-> rot, frame |-> frame]
             r == SetOrientation(p, form, rot, frame)
             u == ToldNow(t, "orientation", v)
  <2>1. v # None /\ v \in Rotating
    BY NoneAssumption, PacketAssumption DEF Rotating, Quaternions, CoordinateSystems
  <2>2. /\ DOMAIN r = (DOMAIN p \ Orientations) \cup {form} /\ r[form] = v
        /\ \A id \in DOMAIN p \ Orientations : id \notin Orientations => r[id] = p[id]
    BY DEF SetOrientation, Insert, Erase
  <2>3. DOMAIN u = DOMAIN t /\ u["orientation"] = v /\ u["velocity"] = t["velocity"]
    BY <1>1 DEF ToldNow, Overlay
  <2> HIDE DEF r, u, v
  <2>4. OrientationGood(r, u)
    BY <1>1, <2>1, <2>2, <2>3 DEF OrientationGood, Good, Has, Known
  <2>5. Good(r, u)
    BY <1>1, <2>2, <2>3, <2>4 DEF Good
  <2>6. QED
    BY <2>5 DEF r, u, v
<1>3. ASSUME NEW vel \in Velocities, NEW frame \in Frames
      PROVE  Good(SetVelocity(p, vel, frame), ToldNow(t, "velocity", [vel |-> vel, frame |-> frame]))
  <2> DEFINE v == [vel |-> vel, frame |-> frame]
             r == SetVelocity(p, vel, frame)
             u == ToldNow(t, "velocity", v)
  <2>1. v # None /\ v \in Moving
    BY NoneAssumption, PacketAssumption DEF Moving, Vectors, CoordinateSystems
  <2>2. /\ DOMAIN r = DOMAIN p \cup {"VelocityXYZ"} /\ r["VelocityXYZ"] = v
        /\ \A id \in DOMAIN p \ {"VelocityXYZ"} : r[id] = p[id]
    BY DEF SetVelocity, Insert
  <2>3. DOMAIN u = DOMAIN t /\ u["velocity"] = v /\ u["orientation"] = t["orientation"]
    BY <1>1 DEF ToldNow, Overlay
  <2> HIDE DEF r, u, v
  <2>4. OrientationGood(r, u)
    BY <1>1, <2>1, <2>2, <2>3 DEF OrientationGood, Good, Has, Known
  <2>5. Good(r, u)
    BY <1>1, <2>2, <2>3, <2>4 DEF Good
  <2>6. QED
    BY <2>5 DEF r, u, v
<1>4. QED
  BY <1>2, <1>3

LEMMA CounterTold ==
  ASSUME NEW p, NEW t, Good(p, t), group = "counter"
  PROVE  /\ \A c \in Counts : Good(SetPacketCounter(p, c), ToldNow(t, "counter", c))
         /\ \A r \in Ranges : Good(SetFrameRange(p, r), ToldNow(t, "counter", r.last % Boundary))
<1>1. /\ DOMAIN p \subseteq {"PacketCounter", "FrameRange"} /\ DOMAIN t = {"counter"}
      /\ Quantities = {"counter"} /\ ItemsOf[group] = {"PacketCounter", "FrameRange"}
      /\ Boundary \in Nat \ {0}
  BY ItemsAre, QuantitiesAre, PacketAssumption DEF Good
<1>2. ASSUME NEW c \in Counts PROVE Good(SetPacketCounter(p, c), ToldNow(t, "counter", c))
  <2> DEFINE r == SetPacketCounter(p, c)
             u == ToldNow(t, "counter", c)
  <2>1. c \in Int /\ c # None
    BY <1>1, NoneAssumption DEF Counts
  <2>2. DOMAIN r = {"PacketCounter"} /\ r["PacketCounter"] = c
    BY <1>1 DEF SetPacketCounter, Insert, Erase
  <2>3. DOMAIN u = {"counter"} /\ u["counter"] = c
    BY <1>1 DEF ToldNow, Overlay
  <2> HIDE DEF r, u
  <2>4. CounterGood(r, u)
    BY <2>1, <2>2, <2>3 DEF CounterGood, PacketCounter, Has
  <2>5. Good(r, u)
    BY <1>1, <2>2, <2>3, <2>4 DEF Good
  <2>6. QED
    BY <2>5 DEF r, u
<1>3. ASSUME NEW f \in Ranges
      PROVE Good(SetFrameRange(p, f), ToldNow(t, "counter", f.last % Boundary))
  <2> DEFINE r == SetFrameRange(p, f)
             u == ToldNow(t, "counter", f.last % Boundary)
  <2>1. f \in [first : Int, last : Int]
    BY <1>1 DEF Ranges, Counts
  <2>2. f.last % Boundary \in Int /\ f.last % Boundary # None
    BY <1>1, <2>1, NoneAssumption
  <2>3. DOMAIN r = {"FrameRange"} /\ r["FrameRange"] = f
    BY <1>1 DEF SetFrameRange, Insert, Erase
  <2>4. DOMAIN u = {"counter"} /\ u["counter"] = f.last % Boundary
    BY <1>1 DEF ToldNow, Overlay
  <2> HIDE DEF r, u
  <2>5. CounterGood(r, u)
    BY <2>1, <2>2, <2>3, <2>4 DEF CounterGood, PacketCounter, Has
  <2>6. Good(r, u)
    BY <1>1, <2>3, <2>4, <2>5 DEF Good
  <2>7. QED
    BY <2>6 DEF r, u
<1>4. QED
  BY <1>2, <1>3

(* A byte keeps the rest of a status that is known. *)
LEMMA StatusTold ==
  ASSUME NEW p, NEW t, Good(p, t), group = "status"
  PROVE  /\ \A word \in SomeBytes \X SomeBytes :
              Good(SetStatus(p, word), ToldNow(t, "status", word))
         /\ \A byte \in SomeBytes :
              LET old == t["status"]
              IN Good(SetStatusByte(p, byte),
                      ToldNow(t, "status", IF old = Open THEN Open
                                           ELSE IF old = None THEN <<0, byte>> ELSE <<old[1], byte>>))
<1>1. /\ DOMAIN p \subseteq {"StatusByte", "StatusWord"} /\ DOMAIN t = {"status"}
      /\ Quantities = {"status"} /\ ItemsOf[group] = {"StatusByte", "StatusWord"}
      /\ StatusGood(p, t)
  BY ItemsAre, QuantitiesAre DEF Good
<1>2. ASSUME NEW word \in Int \X Int PROVE Good(SetStatus(p, word), ToldNow(t, "status", word))
  <2> DEFINE r == SetStatus(p, word)
             u == ToldNow(t, "status", word)
  <2>1. word # None
    BY NoneAssumption
  <2>2. DOMAIN r = {"StatusWord"} /\ r["StatusWord"] = word
    BY <1>1 DEF SetStatus, Insert, Erase
  <2>3. DOMAIN u = {"status"} /\ u["status"] = word
    BY <1>1 DEF ToldNow, Overlay
  <2> HIDE DEF r, u
  <2>4. StatusGood(r, u)
    BY <2>1, <2>2, <2>3 DEF StatusGood, Status, Has
  <2>5. Good(r, u)
    BY <1>1, <2>2, <2>3, <2>4 DEF Good
  <2>6. QED
    BY <2>5 DEF r, u
<1>3. ASSUME NEW byte \in SomeBytes
      PROVE  LET old == t["status"]
             IN Good(SetStatusByte(p, byte),
                     ToldNow(t, "status", IF old = Open THEN Open
                                          ELSE IF old = None THEN <<0, byte>> ELSE <<old[1], byte>>))
  <2> DEFINE old == t["status"]
             new == IF old = Open THEN Open
                    ELSE IF old = None THEN <<0, byte>> ELSE <<old[1], byte>>
             r == SetStatusByte(p, byte)
             u == ToldNow(t, "status", new)
  <2>1. DOMAIN u = {"status"} /\ u["status"] = new
    BY <1>1 DEF ToldNow, Overlay
  <2>2. byte \in Int /\ None # Open
    BY NoneAssumption DEF SomeBytes
  <2>3. CASE Has(p, "StatusWord")
    <3> DEFINE word == p["StatusWord"]
    <3>1. word \in Int \X Int /\ old # None /\ (Known(old) => old = word)
      BY <1>1, <2>3 DEF StatusGood, Status
    <3>2. r = SetStatus(p, <<word[1], byte>>)
      BY <2>3 DEF SetStatusByte
    <3>3. DOMAIN r = {"StatusWord"} /\ r["StatusWord"] = <<word[1], byte>>
      BY <1>1, <3>2 DEF SetStatus, Insert, Erase
    <3>4. <<word[1], byte>> \in Int \X Int
      BY <2>2, <3>1
    <3>5. <<word[1], byte>> # None
      BY <3>4, NoneAssumption
    <3>6. new # None /\ (new # Open => new = <<word[1], byte>>)
      BY <2>2, <3>1, <3>5 DEF Known
    <3> HIDE DEF r, u, new, word
    <3>7. StatusGood(r, u)
      BY <2>1, <3>3, <3>4, <3>6 DEF StatusGood, Status, Has, Known
    <3>8. QED
      BY <1>1, <2>1, <3>3, <3>7 DEF Good, r, u, new
  <2>4. CASE ~Has(p, "StatusWord")
    <3>1. r = Insert(p, "StatusByte", byte)
      BY <2>4 DEF SetStatusByte
    <3>2. DOMAIN r = {"StatusByte"} /\ r["StatusByte"] = byte
      BY <1>1, <2>4, <3>1 DEF Insert, Has
    <3>3. Known(old) => old[1] = 0
      BY <1>1, <2>4 DEF StatusGood, Status, Known
    <3>4. <<0, byte>> # None
      BY <2>2, NoneAssumption
    <3>5. new # None /\ (new # Open => new = <<0, byte>>)
      BY <2>2, <3>3, <3>4 DEF Known
    <3> HIDE DEF r, u, new
    <3>6. StatusGood(r, u)
      BY <2>1, <3>2, <3>5 DEF StatusGood, Status, Has, Known
    <3>7. QED
      BY <1>1, <2>1, <3>2, <3>6 DEF Good, r, u, new
  <2>5. QED
    BY <2>3, <2>4
<1>4. SomeBytes \X SomeBytes \subseteq Int \X Int
  BY DEF SomeBytes
<1>5. QED
  BY <1>2, <1>3, <1>4

LEMMA RawNames ==
  /\ "temp" \notin RawParts
  /\ \A part \in RawParts : Raw[part] # "RawAccGyrMagTemp"
  /\ \A part, other \in RawParts : Raw[part] = Raw[other] => part = other
<1>1. RawParts \subseteq {"acc", "gyr", "mag"}
  BY PacketAssumption
<1>2. QED
  BY <1>1 DEF Raw

LEMMA RawVectorTold ==
  ASSUME NEW p, NEW t, Good(p, t), group = "raw", NEW part \in RawParts, NEW v \in SomeBytes
  PROVE  Good(SetRawVector(p, part, v), ToldNow(t, part, v))
<1> DEFINE r == SetRawVector(p, part, v)
           u == ToldNow(t, part, v)
<1>1. /\ DOMAIN p \subseteq ItemsOf[group] /\ DOMAIN t = Quantities /\ RawGood(p, t)
      /\ Quantities = RawParts \cup {"temp"} /\ Raw[part] \in ItemsOf[group]
  BY ItemsAre, QuantitiesAre DEF Good
<1>2. v \in Int /\ v # None
  BY NoneAssumption DEF SomeBytes
<1>3. DOMAIN u = Quantities /\ u[part] = v /\ \A q \in Quantities \ {part} : u[q] = t[q]
  BY <1>1 DEF ToldNow, Overlay
<1>4. CASE Has(p, "RawAccGyrMagTemp")
  <2>1. DOMAIN p["RawAccGyrMagTemp"] = RawParts \cup {"temp"}
    BY <1>1, <1>4 DEF RawGood
  <2>2. r = [p EXCEPT !["RawAccGyrMagTemp"][part] = v]
    BY <1>4 DEF SetRawVector
  <2>3. /\ DOMAIN r = DOMAIN p
        /\ DOMAIN r["RawAccGyrMagTemp"] = RawParts \cup {"temp"}
        /\ r["RawAccGyrMagTemp"][part] = v
        /\ \A q \in (RawParts \cup {"temp"}) \ {part} :
             r["RawAccGyrMagTemp"][q] = p["RawAccGyrMagTemp"][q]
    BY <1>4, <2>1, <2>2 DEF Has
  <2> HIDE DEF r, u
  <2>4. RawGood(r, u)
    BY <1>1, <1>2, <1>3, <1>4, <2>1, <2>3, RawNames DEF RawGood, RawVector, Has
  <2>5. QED
    BY <1>1, <1>3, <2>3, <2>4 DEF Good, r, u
<1>5. CASE ~Has(p, "RawAccGyrMagTemp")
  <2>1. r = Insert(p, Raw[part], v)
    BY <1>5 DEF SetRawVector
  <2>2. /\ DOMAIN r = DOMAIN p \cup {Raw[part]} /\ r[Raw[part]] = v
        /\ \A x \in DOMAIN p \ {Raw[part]} : r[x] = p[x]
    BY <2>1 DEF Insert
  <2> HIDE DEF r, u
  <2>3. /\ ~Has(r, "RawAccGyrMagTemp") /\ u["temp"] = t["temp"]
        /\ \A x : RawVector(r, x) = r[Raw[x]]
    BY <1>1, <1>3, <1>5, <2>2, RawNames DEF RawVector, Has
  <2>4. ASSUME NEW x \in RawParts
        PROVE  /\ u[x] # None <=> Has(r, Raw[x])
               /\ Known(u[x]) => r[Raw[x]] = u[x]
    <3>1. CASE x = part
      BY <1>2, <1>3, <2>2, <3>1 DEF Has
    <3>2. CASE x # part
      <4>1. u[x] = t[x] /\ Raw[x] # Raw[part]
        BY <1>1, <1>3, <3>2, RawNames
      <4>2. /\ t[x] # None <=> Has(p, Raw[x])
            /\ Known(t[x]) => p[Raw[x]] = t[x]
        BY <1>1, <1>5 DEF RawGood, RawVector
      <4>3. QED
        BY <2>2, <4>1, <4>2 DEF Has, Known
    <3>3. QED
      BY <3>1, <3>2
  <2>5. RawGood(r, u)
    BY <1>1, <1>5, <2>3, <2>4 DEF RawGood, Known
  <2>6. QED
    BY <1>1, <1>3, <2>2, <2>5 DEF Good, r, u
<1>6. QED
  BY <1>4, <1>5

(* A new item for the temperature hides what was there. *)
LEMMA RawTemperatureTold ==
  ASSUME NEW p, NEW t, Good(p, t), group = "raw", NEW v \in SomeBytes
  PROVE  Good(SetRawTemperature(p, v),
              [q \in Quantities |-> IF q = "temp" THEN v
                                    ELSE IF Has(p, "RawAccGyrMagTemp") THEN t[q] ELSE Open])
<1> DEFINE r == SetRawTemperature(p, v)
           u == [q \in Quantities |-> IF q = "temp" THEN v
                                      ELSE IF Has(p, "RawAccGyrMagTemp") THEN t[q] ELSE Open]
<1>1. /\ DOMAIN p \subseteq ItemsOf[group] /\ DOMAIN t = Quantities /\ RawGood(p, t)
      /\ Quantities = RawParts \cup {"temp"} /\ "RawAccGyrMagTemp" \in ItemsOf[group]
  BY ItemsAre, QuantitiesAre DEF Good
<1>2. v \in Int /\ v # None /\ None # Open
  BY NoneAssumption DEF SomeBytes
<1>3. CASE Has(p, "RawAccGyrMagTemp")
  <2>1. DOMAIN p["RawAccGyrMagTemp"] = RawParts \cup {"temp"}
    BY <1>1, <1>3 DEF RawGood
  <2>2. r = [p EXCEPT !["RawAccGyrMagTemp"]["temp"] = v]
    BY <1>3 DEF SetRawTemperature
  <2>3. /\ DOMAIN r = DOMAIN p
        /\ DOMAIN r["RawAccGyrMagTemp"] = RawParts \cup {"temp"}
        /\ r["RawAccGyrMagTemp"]["temp"] = v
        /\ \A q \in RawParts \ {"temp"} : r["RawAccGyrMagTemp"][q] = p["RawAccGyrMagTemp"][q]
    BY <1>3, <2>1, <2>2 DEF Has
  <2>4. DOMAIN u = Quantities /\ u["temp"] = v /\ \A q \in Quantities \ {"temp"} : u[q] = t[q]
    BY <1>1, <1>3
  <2> HIDE DEF r, u
  <2>5. RawGood(r, u)
    BY <1>1, <1>2, <1>3, <2>1, <2>3, <2>4, RawNames DEF RawGood, RawVector, Has
  <2>6. QED
    BY <1>1, <2>3, <2>4, <2>5 DEF Good, r, u
<1>4. CASE ~Has(p, "RawAccGyrMagTemp")
  <2> DEFINE new == [x \in RawParts \cup {"temp"} |-> IF x = "temp" THEN v ELSE 0]
  <2>1. DOMAIN new = RawParts \cup {"temp"} /\ new["temp"] = v
    OBVIOUS
  <2> HIDE DEF new
  <2>2. r = Insert(p, "RawAccGyrMagTemp", new)
    BY <1>4 DEF SetRawTemperature, new
  <2>3. /\ DOMAIN r = DOMAIN p \cup {"RawAccGyrMagTemp"} /\ r["RawAccGyrMagTemp"] = new
    BY <2>2 DEF Insert
  <2>4. DOMAIN u = Quantities /\ u["temp"] = v /\ \A q \in Quantities \ {"temp"} : u[q] = Open
    BY <1>1, <1>4
  <2> HIDE DEF r, u
  <2>5. RawGood(r, u)
    BY <1>1, <1>2, <2>1, <2>3, <2>4, RawNames DEF RawGood, RawVector, Has, Known
  <2>6. QED
    BY <1>1, <2>3, <2>4, <2>5 DEF Good, r, u
<1>5. QED
  BY <1>3, <1>4

LEMMA RawDataTold ==
  ASSUME NEW p, NEW t, Good(p, t), group = "raw", NEW data \in [RawParts \cup {"temp"} -> SomeBytes]
  PROVE  Good(SetRawData(p, data), data)
<1> DEFINE r == SetRawData(p, data)
<1>1. /\ DOMAIN p \subseteq ItemsOf[group]
      /\ Quantities = RawParts \cup {"temp"} /\ "RawAccGyrMagTemp" \in ItemsOf[group]
  BY ItemsAre, QuantitiesAre DEF Good
<1>2. \A q \in Quantities : data[q] # None
  BY <1>1, NoneAssumption DEF SomeBytes
<1>3. /\ DOMAIN r = DOMAIN p \cup {"RawAccGyrMagTemp"} /\ r["RawAccGyrMagTemp"] = data
  BY DEF SetRawData, Insert
<1> HIDE DEF r
<1>4. RawGood(r, data)
  BY <1>1, <1>2, <1>3 DEF RawGood, RawVector, Has
<1>5. QED
  BY <1>1, <1>3, <1>4 DEF Good, r

\* The packet r is p with a value v in the item id.
WithValue(r, p, id, v) ==
  /\ DOMAIN r = DOMAIN p \cup {id}
  /\ r[id] \in Items /\ r[id].value = v
  /\ id \in {"Acceleration", "LatLon"} => r[id].format = "double"
  /\ \A x \in DOMAIN p \ {id} : r[x] = p[x]

LEMMA SetValueIs ==
  ASSUME NEW p, NEW id \in Values, NEW v \in Int, Has(p, id) => p[id] \in Items
  PROVE  WithValue(SetValue(p, id, v), p, id, v)
<1> DEFINE r == SetValue(p, id, v)
<1>1. CASE id \in Numbers
  <2>1. r = SetNumber(p, id, v, "double") /\ id \notin {"Acceleration", "LatLon"}
    BY <1>1 DEF SetValue, Numbers, Whole
  <2> HIDE DEF r
  <2>2. CASE Has(p, id)
    BY <2>1, <2>2 DEF SetNumber, Has, Items, WithValue, r
  <2>3. CASE ~Has(p, id)
    BY <2>1, <2>3 DEF SetNumber, Insert, Items, WithValue, r
  <2>4. QED
    BY <2>2, <2>3
<1>2. CASE id \notin Numbers
  <2>1. PICK format \in {"float", "double"} :
           /\ r = GenericSet(p, id, v, format)
           /\ id \in {"Acceleration", "LatLon"} => format = "double"
    BY <1>2 DEF SetValue
  <2> HIDE DEF r
  <2>2. QED
    BY <2>1 DEF GenericSet, Insert, Items, WithValue, r
<1>3. QED
  BY <1>1, <1>2

LEMMA ValueTold ==
  ASSUME NEW p, NEW t, Good(p, t), group \in {"values", "place", "gps"},
         NEW id \in ItemsOf[group], NEW v \in SomeValues
  PROVE  Good(SetValue(p, id, v), ToldNow(t, id, v))
<1> DEFINE r == SetValue(p, id, v)
           u == ToldNow(t, id, v)
<1>1. /\ DOMAIN p \subseteq ItemsOf[group] /\ DOMAIN t = ItemsOf[group] /\ ValuesGood(p, t)
      /\ Quantities = ItemsOf[group] /\ id \in Values
  BY ItemsAre, QuantitiesAre DEF Good
<1>2. v \in Int /\ v # None
  BY NoneAssumption DEF SomeValues
<1>3. DOMAIN u = ItemsOf[group] /\ u[id] = v /\ \A q \in ItemsOf[group] \ {id} : u[q] = t[q]
  BY <1>1 DEF ToldNow, Overlay
<1>4. WithValue(r, p, id, v)
  <2>1. Has(p, id) => p[id] \in Items
    BY <1>1 DEF ValuesGood, Has
  <2>2. QED
    BY <1>1, <1>2, <2>1, SetValueIs
<1> HIDE DEF r, u
<1>5. v % Formats["double"] = 0
  BY <1>2, FormatAssumption
<1>6. ASSUME NEW x \in DOMAIN r
      PROVE  /\ r[x] \in Items
             /\ x \in {"Acceleration", "LatLon"} => r[x].value % Formats[r[x].format] = 0
  <2>1. CASE x = id
    BY <1>4, <1>5, <2>1 DEF WithValue
  <2>2. CASE x # id
    BY <1>1, <1>4, <1>6, <2>2 DEF ValuesGood, WithValue
  <2>3. QED
    BY <2>1, <2>2
<1>7. \A x \in ItemsOf[group] : /\ u[x] # None <=> Has(r, x)
                                /\ Known(u[x]) => r[x].value = u[x]
  <2> TAKE x \in ItemsOf[group]
  <2>1. CASE x = id
    BY <1>2, <1>3, <1>4, <2>1 DEF Has, WithValue
  <2>2. CASE x # id
    BY <1>1, <1>3, <1>4, <2>2 DEF ValuesGood, Has, Known, WithValue
  <2>3. QED
    BY <2>1, <2>2
<1>8. Good(r, u)
  BY <1>1, <1>3, <1>4, <1>6, <1>7 DEF Good, ValuesGood, WithValue
<1>9. QED
  BY <1>8 DEF r, u

--------------------------------------------------------------------------------
(* Clearing one item. *)

LEMMA ItemCleared ==
  ASSUME NEW p, NEW t, Good(p, t), NEW id \in DOMAIN p, group \in GroupNames \ {"legacy"}
  PROVE  Good(Erase(p, {id}),
              [q \in Quantities |-> IF q \notin SaidBy(id) THEN t[q]
                                    ELSE IF Contains(Erase(p, {id}), q) THEN Open ELSE None])
<1> DEFINE r == Erase(p, {id})
           left(q) == IF Contains(r, q) THEN Open ELSE None
           u == [q \in Quantities |-> IF q \notin SaidBy(id) THEN t[q] ELSE left(q)]
<1>1. /\ DOMAIN r = DOMAIN p \ {id} /\ DOMAIN r \subseteq ItemsOf[group]
      /\ \A x \in DOMAIN p \ {id} : r[x] = p[x]
  BY DEF Erase, Good
<1>2. /\ DOMAIN u = Quantities
      /\ \A q \in Quantities : u[q] = IF q \notin SaidBy(id) THEN t[q] ELSE left(q)
  OBVIOUS
<1>3. \A q : ~Known(left(q)) /\ (left(q) # None <=> Contains(r, q))
  BY NoneAssumption DEF Known
<1>4. id \in ItemsOf[group]
  BY DEF Good
<1> HIDE DEF r, u, left
<1>5. CASE group = "orientation"
  <2>1. OrientationGood(r, u)
    <3>1. CASE id \in Orientations
      BY <1>1, <1>2, <1>3, <1>5, <3>1, ContainsIs, Says, QuantitiesAre
      DEF Good, OrientationGood, Has, Orientations, Known
    <3>2. CASE id = "VelocityXYZ"
      BY <1>1, <1>2, <1>3, <1>5, <3>2, ContainsIs, Says, QuantitiesAre
      DEF Good, OrientationGood, Has, Orientations, Known
    <3>3. QED
      BY <1>4, <1>5, <3>1, <3>2, ItemsAre
  <2>2. QED
    BY <1>1, <1>2, <1>5, <2>1 DEF Good, r, u, left
<1>6. CASE group = "counter"
  <2>1. CounterGood(r, u)
    BY <1>1, <1>2, <1>3, <1>4, <1>6, ContainsIs, Says, QuantitiesAre, ItemsAre DEF Good, CounterGood, Has
  <2>2. QED
    BY <1>1, <1>2, <1>6, <2>1 DEF Good, r, u, left
<1>7. CASE group = "status"
  <2>1. StatusGood(r, u)
    BY <1>1, <1>2, <1>3, <1>4, <1>7, ContainsIs, Says, QuantitiesAre, ItemsAre DEF Good, StatusGood, Has
  <2>2. QED
    BY <1>1, <1>2, <1>7, <2>1 DEF Good, r, u, left
<1>8. CASE group = "raw"
  <2>1. RawGood(p, t) /\ Quantities = RawParts \cup {"temp"}
    BY <1>8, QuantitiesAre DEF Good
  <2>2. RawGood(r, u)
    <3>1. CASE id = "RawAccGyrMagTemp"
      <4>1. \A q \in Quantities : u[q] = left(q)
        BY <1>2, <2>1, <3>1, Says
      <4>2. ~Has(r, "RawAccGyrMagTemp")
        BY <1>1, <3>1 DEF Has
      <4>3. QED
        BY <1>1, <1>3, <1>8, <2>1, <4>1, <4>2, ContainsIs DEF RawGood
    <3>2. ASSUME NEW part \in RawParts, id = Raw[part] PROVE RawGood(r, u)
      <4>1. /\ u[part] = left(part) /\ part \in Quantities
            /\ \A q \in Quantities \ {part} : u[q] = t[q]
        BY <1>2, <2>1, <3>2, Says
      <4>2. /\ Has(r, "RawAccGyrMagTemp") <=> Has(p, "RawAccGyrMagTemp")
            /\ Has(r, "RawAccGyrMagTemp") => r["RawAccGyrMagTemp"] = p["RawAccGyrMagTemp"]
        BY <1>1, <3>2, RawNames DEF Has
      <4>3. ASSUME NEW q \in RawParts \ {part}
            PROVE  /\ Has(r, Raw[q]) <=> Has(p, Raw[q])
                   /\ Has(r, Raw[q]) => r[Raw[q]] = p[Raw[q]]
        BY <1>1, <3>2, RawNames DEF Has
      <4>4. ASSUME NEW q \in RawParts
            PROVE  /\ u[q] # None <=> Has(r, "RawAccGyrMagTemp") \/ Has(r, Raw[q])
                   /\ Known(u[q]) => RawVector(r, q) = u[q]
        <5>1. CASE q = part
          BY <1>1, <1>3, <1>8, <4>1, <5>1, ContainsIs
        <5>2. CASE q # part
          <6>1. u[q] = t[q]
            BY <2>1, <4>1, <5>2
          <6>2. /\ t[q] # None <=> Has(p, "RawAccGyrMagTemp") \/ Has(p, Raw[q])
                /\ Known(t[q]) => RawVector(p, q) = t[q]
            BY <2>1 DEF RawGood
          <6>3. QED
            BY <4>2, <4>3, <5>2, <6>1, <6>2 DEF RawVector, Known
        <5>3. QED
          BY <5>1, <5>2
      <4>5. u["temp"] = t["temp"]
        BY <2>1, <4>1, RawNames
      <4>6. QED
        BY <2>1, <4>2, <4>4, <4>5 DEF RawGood, Known
    <3>3. QED
      BY <1>4, <1>8, <3>1, <3>2, ItemsAre
  <2>3. QED
    BY <1>1, <1>2, <1>8, <2>2 DEF Good, r, u, left
<1>9. CASE group \in {"values", "place", "gps"}
  <2>1. ValuesGood(p, t) /\ Quantities = ItemsOf[group] /\ SaidBy(id) = {id}
    BY <1>4, <1>9, QuantitiesAre, ItemsAre, Says DEF Good
  <2>2. /\ u[id] = left(id) /\ ~Contains(r, id)
        /\ \A q \in Quantities \ {id} : u[q] = t[q]
    BY <1>1, <1>2, <1>4, <1>9, <2>1, ContainsIs DEF Has
  <2>3. ValuesGood(r, u)
    BY <1>1, <1>3, <2>1, <2>2 DEF ValuesGood, Has
  <2>4. QED
    BY <1>1, <1>2, <1>9, <2>3 DEF Good, r, u, left
<1>10. CASE group = "time"
  BY <1>1, <1>2, <1>10 DEF Good, r, u, left
<1>11. QED
  BY <1>5, <1>6, <1>7, <1>8, <1>9, <1>10 DEF GroupNames

--------------------------------------------------------------------------------
(* Messages. *)

LEMMA LoadedRead ==
  ASSUME NEW items \in DeviceItems, group \in GroupNames \ {"legacy"}
  PROVE  Good(items, [q \in Quantities |-> ToldBy(items, q)])
<1> DEFINE u == [q \in Quantities |-> ToldBy(items, q)]
<1>1. DOMAIN u = Quantities /\ \A q \in Quantities : u[q] = ToldBy(items, q)
  OBVIOUS
<1> HIDE DEF u
<1>2. CASE group = "orientation"
  <2>1. PICK forms \in {s \in SUBSET Orientations : Cardinality(s) \in 1 .. 2},
             rot \in Rotations, frame \in Frames :
           items = [id \in forms |-> [rot |-> rot, frame |-> frame]]
    BY <1>2 DEF DeviceItems
  <2> DEFINE v == [rot |-> rot, frame |-> frame]
  <2>2. forms # {} /\ forms \subseteq Orientations
    BY FS_EmptySet
  <2>3. DOMAIN items = forms /\ \A id \in forms : items[id] = v
    BY <2>1
  <2>4. v # None /\ v \in Rotating
    BY NoneAssumption, PacketAssumption DEF Rotating, Quaternions, CoordinateSystems
  <2> HIDE DEF v
  <2>5. DOMAIN items \subseteq ItemsOf[group] /\ "VelocityXYZ" \notin DOMAIN items
    BY <1>2, <2>2, <2>3, ItemsAre DEF Orientations
  <2>6. Contains(items, "orientation") /\ ~Contains(items, "velocity")
    BY <1>2, <2>2, <2>3, <2>5, ContainsIs DEF Has
  <2>7. u["orientation"] = v
    <3> DEFINE id == CHOOSE id \in DOMAIN items : "orientation" \in SaidBy(id)
    <3>1. id \in forms
      BY <2>3, <2>6 DEF Contains
    <3> HIDE DEF id
    <3>2. items[id] = v /\ id \notin {"StatusByte", "RawAccGyrMagTemp"} /\ id \notin Values
      BY <2>2, <2>3, <3>1 DEF Orientations, Values, Numbers, Whole
    <3>3. ToldBy(items, "orientation") = v
      BY <2>6, <3>2 DEF ToldBy, id
    <3>4. QED
      BY <1>1, <1>2, <3>3, QuantitiesAre
  <2>8. u["velocity"] = None
    BY <1>1, <1>2, <2>6, QuantitiesAre DEF ToldBy
  <2>9. OrientationGood(items, u)
    BY <2>2, <2>3, <2>4, <2>5, <2>7, <2>8 DEF OrientationGood, Has, Known
  <2>10. QED
    BY <1>1, <1>2, <2>5, <2>9 DEF Good, u
<1>3. CASE group = "counter"
  <2>1. PICK c \in Counts : items = [PacketCounter |-> c]
    BY <1>3 DEF DeviceItems
  <2>2. DOMAIN items = {"PacketCounter"} /\ items["PacketCounter"] = c
    BY <2>1
  <2>3. c \in Int /\ c # None
    BY PacketAssumption, NoneAssumption DEF Counts
  <2>4. DOMAIN items \subseteq ItemsOf[group]
    BY <1>3, <2>2, ItemsAre
  <2>5. Contains(items, "counter") /\ "counter" \in SaidBy("PacketCounter")
    BY <2>2, Says DEF Contains
  <2>6. (CHOOSE id \in DOMAIN items : "counter" \in SaidBy(id)) = "PacketCounter"
    BY <2>2, <2>5
  <2>7. u["counter"] = c
    BY <1>1, <1>3, <2>2, <2>5, <2>6, QuantitiesAre DEF ToldBy, Values, Numbers, Whole
  <2>8. CounterGood(items, u)
    BY <2>2, <2>3, <2>7 DEF CounterGood, PacketCounter, Has
  <2>9. QED
    BY <1>1, <1>3, <2>4, <2>8 DEF Good, u
<1>4. CASE group = "status"
  <2>1. /\ SomeBytes \X SomeBytes \subseteq Int \X Int
        /\ \A b \in SomeBytes : <<0, b>> \in Int \X Int
    BY DEF SomeBytes
  <2>2. CASE \E b \in SomeBytes : items = [StatusByte |-> b]
    <3>1. PICK b \in SomeBytes : items = [StatusByte |-> b]
      BY <2>2
    <3>2. DOMAIN items = {"StatusByte"} /\ items["StatusByte"] = b
      BY <3>1
    <3>3. Contains(items, "status") /\ "status" \in SaidBy("StatusByte")
      BY <3>2, Says DEF Contains
    <3>4. (CHOOSE id \in DOMAIN items : "status" \in SaidBy(id)) = "StatusByte"
      BY <3>2, <3>3
    <3>5. u["status"] = <<0, b>>
      BY <1>1, <1>4, <3>2, <3>3, <3>4, QuantitiesAre DEF ToldBy, Values, Numbers, Whole
    <3>6. <<0, b>> # None
      BY <2>1, NoneAssumption
    <3>7. StatusGood(items, u)
      BY <3>2, <3>5, <3>6 DEF StatusGood, Status, Has
    <3>8. QED
      BY <1>1, <1>4, <3>2, <3>7, ItemsAre DEF Good, u
  <2>3. CASE \E w \in SomeBytes \X SomeBytes : items = [StatusWord |-> w]
    <3>1. PICK w \in SomeBytes \X SomeBytes : items = [StatusWord |-> w]
      BY <2>3
    <3>2. DOMAIN items = {"StatusWord"} /\ items["StatusWord"] = w
      BY <3>1
    <3>3. Contains(items, "status") /\ "status" \in SaidBy("StatusWord")
      BY <3>2, Says DEF Contains
    <3>4. (CHOOSE id \in DOMAIN items : "status" \in SaidBy(id)) = "StatusWord"
      BY <3>2, <3>3
    <3>5. u["status"] = w
      BY <1>1, <1>4, <3>2, <3>3, <3>4, QuantitiesAre DEF ToldBy, Values, Numbers, Whole
    <3>6. w \in Int \X Int /\ w # None
      BY <2>1, NoneAssumption
    <3>7. StatusGood(items, u)
      BY <3>2, <3>5, <3>6 DEF StatusGood, Status, Has
    <3>8. QED
      BY <1>1, <1>4, <3>2, <3>7, ItemsAre DEF Good, u
  <2>4. QED
    BY <1>4, <2>2, <2>3 DEF DeviceItems
<1>5. CASE group = "raw"
  <2>1. PICK data \in [RawParts \cup {"temp"} -> SomeBytes] : items = [RawAccGyrMagTemp |-> data]
    BY <1>5 DEF DeviceItems
  <2>2. DOMAIN items = {"RawAccGyrMagTemp"} /\ items["RawAccGyrMagTemp"] = data
    BY <2>1
  <2>3. ASSUME NEW q \in RawParts \cup {"temp"} PROVE u[q] = data[q] /\ data[q] # None
    <3>1. Contains(items, q) /\ q \in SaidBy("RawAccGyrMagTemp")
      BY <2>2, Says DEF Contains
    <3>2. (CHOOSE id \in DOMAIN items : q \in SaidBy(id)) = "RawAccGyrMagTemp"
      BY <2>2, <3>1
    <3>3. QED
      BY <1>1, <1>5, <2>2, <3>1, <3>2, QuantitiesAre, NoneAssumption
      DEF ToldBy, Values, Numbers, Whole, SomeBytes
  <2>4. RawGood(items, u)
    BY <2>2, <2>3 DEF RawGood, RawVector, Has
  <2>5. QED
    BY <1>1, <1>5, <2>2, <2>4, ItemsAre DEF Good, u
<1>6. CASE group \in {"values", "place", "gps"}
  <2>1. PICK id \in ItemsOf[group], v \in SomeValues, f \in SentFormats : items = ValueItem(id, v, f)
    BY <1>6 DEF DeviceItems
  <2> DEFINE g == Formats[f]
             w == v - (v % g)
  <2>2. f \in {"float", "double"} /\ g \in Nat \ {0} /\ v \in Int
    BY PacketAssumption DEF SentFormats, SomeValues
  <2> HIDE DEF g
  <2>3. w \in Int /\ w # None /\ w % g = 0
    <3>1. w \in Int
      BY <2>2
    <3>2. w % g = 0
      BY <2>2, RoundedDivides
    <3>3. QED
      BY <3>1, <3>2, NoneAssumption
  <2> HIDE DEF w
  <2>4. DOMAIN items = {id} /\ items[id] = [value |-> w, format |-> f]
    BY <2>1 DEF ValueItem, Rounded, w, g
  <2>5. Quantities = ItemsOf[group] /\ id \in Values /\ SaidBy(id) = {id}
    BY <1>6, QuantitiesAre, ItemsAre, Says
  <2>6. u[id] = w
    <3>1. Contains(items, id)
      BY <2>4, <2>5 DEF Contains
    <3>2. (CHOOSE x \in DOMAIN items : id \in SaidBy(x)) = id
      BY <2>4, <2>5
    <3>3. id \notin {"StatusByte", "RawAccGyrMagTemp"}
      BY <2>5 DEF Values, Numbers, Whole
    <3>4. ToldBy(items, id) = items[id].value
      BY <2>5, <3>1, <3>2, <3>3 DEF ToldBy
    <3>5. QED
      BY <1>1, <2>4, <2>5, <3>4
  <2>7. ASSUME NEW q \in Quantities \ {id} PROVE u[q] = None
    BY <1>1, <2>4, <2>5 DEF ToldBy, Contains
  <2>8. ValuesGood(items, u)
    BY <2>2, <2>3, <2>4, <2>5, <2>6, <2>7 DEF ValuesGood, Items, Known, Has, g
  <2>9. QED
    BY <1>1, <1>6, <2>4, <2>8 DEF Good, u
<1>7. CASE group = "time"
  <2>1. DOMAIN items \subseteq TimeIds
    BY <1>7 DEF DeviceItems, TimeIds
  <2>2. QED
    BY <1>1, <1>7, <2>1, ItemsAre DEF Good, u
<1>8. QED
  BY <1>2, <1>3, <1>4, <1>5, <1>6, <1>7 DEF GroupNames

(* A range that is unwrapped ends where it ended. *)
LEMMA Unwrapped ==
  ASSUME NEW c \in Nat \ {0}, NEW f \in Int, NEW l \in Int
  PROVE  ((f % c) + ((l - f) % c)) % c = l % c
<1> DEFINE a == f \div c
           b == (l - f) \div c
           d == l \div c
           x == f % c
           y == (l - f) % c
           z == l % c
<1>1. a \in Int /\ f = c * a + x /\ x \in Int
  BY Division
<1>2. b \in Int /\ l - f = c * b + y /\ y \in Int
  <2>1. l - f \in Int
    OBVIOUS
  <2>2. QED
    BY <2>1, Division
<1>3. d \in Int /\ l = c * d + z /\ z \in 0 .. c - 1
  BY Division
<1> HIDE DEF a, b, d, x, y, z
<1>4. x + y = c * (d - a - b) + z
  BY <1>1, <1>2, <1>3
<1>5. d - a - b \in Int
  BY <1>1, <1>2, <1>3
<1>6. (x + y) % c = z
  BY <1>3, <1>4, <1>5, DivideBack
<1>7. QED
  BY <1>6 DEF x, y, z

LEMMA SentRead ==
  ASSUME NEW p, NEW t, Good(p, t), group \in GroupNames \ {"legacy"}
  PROVE  Good(Parsed(Written(p)),
              [q \in Quantities |->
                 IF q \in Values \ {"Acceleration", "LatLon"} /\ Known(t[q])
                 THEN Rounded([p[q] EXCEPT !.value = t[q]]).value ELSE t[q]])
<1> DEFINE r == Parsed(Written(p))
           u == [q \in Quantities |->
                   IF q \in Values \ {"Acceleration", "LatLon"} /\ Known(t[q])
                   THEN Rounded([p[q] EXCEPT !.value = t[q]]).value ELSE t[q]]
<1>1. DOMAIN r = DOMAIN p /\ \A id \in DOMAIN p : r[id] = OnWire(id, p[id])
  BY DEF Parsed, Written
<1>2. DOMAIN u = Quantities /\ DOMAIN t = Quantities /\ DOMAIN p \subseteq ItemsOf[group]
  BY DEF Good
<1>3. \A q \in Quantities \ (Values \ {"Acceleration", "LatLon"}) : u[q] = t[q]
  OBVIOUS
<1>4. \A q \in Quantities \cap (Values \ {"Acceleration", "LatLon"}) :
        u[q] = IF Known(t[q]) THEN Rounded([p[q] EXCEPT !.value = t[q]]).value ELSE t[q]
  OBVIOUS
<1> HIDE DEF r, u
<1>5. CASE group = "orientation"
  <2>1. u["orientation"] = t["orientation"] /\ u["velocity"] = t["velocity"]
    BY <1>3, <1>5, QuantitiesAre DEF Values, Numbers, Whole
  <2>2. \A id \in ItemsOf["orientation"] \cap DOMAIN p : r[id] = p[id]
    BY <1>1, ItemsAre DEF OnWire, Values, Numbers, Whole, Orientations
  <2>3. OrientationGood(r, u)
    BY <1>1, <1>5, <2>1, <2>2, ItemsAre DEF Good, OrientationGood, Has, Known
  <2>4. QED
    BY <1>1, <1>2, <1>5, <2>3 DEF Good, r, u
<1>6. CASE group = "counter"
  <2>1. u["counter"] = t["counter"] /\ CounterGood(p, t)
    BY <1>3, <1>6, QuantitiesAre DEF Values, Numbers, Whole, Good
  <2>2. Has(p, "PacketCounter") => r["PacketCounter"] = p["PacketCounter"]
    BY <1>1 DEF OnWire, Values, Numbers, Whole, Has
  <2>3. ASSUME Has(p, "FrameRange")
        PROVE  /\ r["FrameRange"] \in [first : Int, last : Int]
               /\ r["FrameRange"].last % Boundary = p["FrameRange"].last % Boundary
    <3> DEFINE range == p["FrameRange"]
               first == range.first % Boundary
               last  == first + ((range.last - range.first) % Boundary)
    <3>1. range \in [first : Int, last : Int] /\ Boundary \in Nat \ {0}
      BY <2>1, <2>3, PacketAssumption DEF CounterGood
    <3>2. r["FrameRange"] = [first |-> first, last |-> last]
      BY <1>1, <2>3 DEF OnWire, Values, Numbers, Whole, Has
    <3>3. first \in Int /\ last \in Int
      BY <3>1
    <3>4. last % Boundary = range.last % Boundary
      <4>1. range.first \in Int /\ range.last \in Int
        BY <3>1
      <4>2. QED
        BY <3>1, <4>1, Unwrapped
    <3> HIDE DEF first, last
    <3>5. QED
      BY <3>2, <3>3, <3>4
  <2>4. CounterGood(r, u)
    BY <1>1, <2>1, <2>2, <2>3 DEF CounterGood, PacketCounter, Has
  <2>5. QED
    BY <1>1, <1>2, <1>6, <2>4 DEF Good, r, u
<1>7. CASE group = "status"
  <2>1. u["status"] = t["status"] /\ StatusGood(p, t)
    BY <1>3, <1>7, QuantitiesAre DEF Values, Numbers, Whole, Good
  <2>2. \A id \in {"StatusByte", "StatusWord"} \cap DOMAIN p : r[id] = p[id]
    BY <1>1 DEF OnWire, Values, Numbers, Whole
  <2>3. StatusGood(r, u)
    BY <1>1, <2>1, <2>2 DEF StatusGood, Status, Has
  <2>4. QED
    BY <1>1, <1>2, <1>7, <2>3 DEF Good, r, u
<1>8. CASE group = "raw"
  <2>1. /\ RawGood(p, t) /\ Quantities = RawParts \cup {"temp"}
        /\ \A q \in RawParts \cup {"temp"} : u[q] = t[q]
    BY <1>3, <1>8, QuantitiesAre, PacketAssumption DEF Values, Numbers, Whole, Good
  <2>2. \A id \in ItemsOf["raw"] \cap DOMAIN p : r[id] = p[id]
    <3>1. ItemsOf["raw"] \cap (Values \cup {"FrameRange", "SampleTime64"}) = {}
      BY ItemsAre, PacketAssumption DEF Raw, Values, Numbers, Whole
    <3>2. QED
      BY <1>1, <3>1 DEF OnWire
  <2>3. /\ Has(p, "RawAccGyrMagTemp") => r["RawAccGyrMagTemp"] = p["RawAccGyrMagTemp"]
        /\ \A part \in RawParts : Has(p, Raw[part]) => r[Raw[part]] = p[Raw[part]]
    BY <2>2, ItemsAre DEF Has
  <2>4. RawGood(r, u)
    BY <1>1, <2>1, <2>3 DEF RawGood, RawVector, Has, Known
  <2>5. QED
    BY <1>1, <1>2, <1>8, <2>4 DEF Good, r, u
<1>9. CASE group \in {"values", "place", "gps"}
  <2>1. ValuesGood(p, t) /\ Quantities = ItemsOf[group] /\ ItemsOf[group] \subseteq Values
    BY <1>9, QuantitiesAre, ItemsAre DEF Good
  <2>2. ASSUME NEW id \in DOMAIN p
        PROVE  /\ r[id] \in Items /\ r[id].format = p[id].format
               /\ r[id].value = p[id].value - (p[id].value % Formats[p[id].format])
               /\ r[id].value % Formats[r[id].format] = 0
    <3> DEFINE f == p[id].format
               g == Formats[f]
               v == p[id].value
    <3>1. p[id] \in Items /\ id \in Values
      BY <1>2, <2>1 DEF ValuesGood
    <3>2. f \in {"float", "double"} /\ g \in Nat \ {0} /\ v \in Int
      BY <3>1, PacketAssumption DEF Items
    <3>3. r[id] = Rounded(p[id])
      BY <1>1, <3>1 DEF OnWire, Values, Numbers, Whole
    <3>4. r[id] = [value |-> v - (v % g), format |-> f]
      BY <3>1, <3>3 DEF Rounded, Items
    <3>5. v - (v % g) \in Int
      BY <3>2
    <3>6. (v - (v % g)) % g = 0
      BY <3>2, RoundedDivides
    <3> HIDE DEF v
    <3>7. QED
      BY <3>2, <3>4, <3>5, <3>6 DEF Items, v
  <2>3. ASSUME NEW q \in ItemsOf[group]
        PROVE  /\ u[q] # None <=> Has(r, q)
               /\ Known(u[q]) => r[q].value = u[q]
    <3>1. /\ t[q] # None <=> Has(p, q)
          /\ Known(t[q]) => p[q].value = t[q]
      BY <2>1 DEF ValuesGood
    <3>2. CASE ~Known(t[q])
      <4>1. u[q] = t[q]
        BY <1>3, <1>4, <2>1, <3>2
      <4>2. QED
        BY <1>1, <3>1, <3>2, <4>1 DEF Has
    <3>3. CASE Known(t[q])
      <4>1. /\ q \in DOMAIN p /\ p[q].value = t[q] /\ p[q] \in Items /\ p[q].value \in Int
            /\ q \in {"Acceleration", "LatLon"} => p[q].value % Formats[p[q].format] = 0
        BY <2>1, <3>1, <3>3 DEF Known, Has, ValuesGood, Items
      <4>2. r[q] \in Items /\ r[q].value = p[q].value - (p[q].value % Formats[p[q].format])
        BY <2>2, <4>1
      <4>3. CASE q \in {"Acceleration", "LatLon"}
        <5>1. u[q] = t[q]
          BY <1>3, <2>1, <4>3
        <5>2. r[q].value = p[q].value
          BY <4>1, <4>2, <4>3
        <5>3. QED
          BY <1>1, <3>1, <4>1, <5>1, <5>2 DEF Has
      <4>4. CASE q \notin {"Acceleration", "LatLon"}
        <5>1. u[q] = Rounded([p[q] EXCEPT !.value = t[q]]).value
          BY <1>4, <2>1, <3>3, <4>4
        <5>2. [p[q] EXCEPT !.value = t[q]] = p[q]
          BY <4>1 DEF Items
        <5>3. Rounded(p[q]).value = p[q].value - (p[q].value % Formats[p[q].format])
          BY <4>1 DEF Rounded, Items
        <5>4. u[q] = r[q].value /\ u[q] \in Int
          BY <4>2, <5>1, <5>2, <5>3 DEF Items
        <5>5. u[q] # None
          BY <5>4, NoneAssumption
        <5>6. QED
          BY <1>1, <4>1, <5>4, <5>5 DEF Has
      <4>5. QED
        BY <4>3, <4>4
    <3>4. QED
      BY <3>2, <3>3
  <2>4. ValuesGood(r, u)
    BY <1>1, <2>2, <2>3 DEF ValuesGood
  <2>5. QED
    BY <1>1, <1>2, <1>9, <2>4 DEF Good, r, u
<1>10. CASE group = "time"
  BY <1>1, <1>2, <1>10 DEF Good, r, u
<1>11. QED
  BY <1>5, <1>6, <1>7, <1>8, <1>9, <1>10 DEF GroupNames

--------------------------------------------------------------------------------
(* Merging. *)

\* Items of which merge keeps one.
Rivals == Orientations \cup {"PacketCounter", "FrameRange"} \cup TimeIds

LEMMA NoRivals ==
  ASSUME NEW p, NEW q, NEW over, over \in BOOLEAN,
         (DOMAIN p \cup DOMAIN q) \cap Rivals = {}
  PROVE  Merged(p, q, over) = MergeItems(p, q, over)
<1> DEFINE m == MergeItems(p, q, over)
<1>1. DOMAIN m \cap Rivals = {}
  BY MergeItemsIs DEF Overlays
<1> HIDE DEF m
<1>2. ASSUME NEW id1 \in Rivals, NEW id2 \in Rivals PROVE KeepOne(m, q, over, id1, id2) = m
  BY <1>1 DEF KeepOne, Has
<1>3. {"Quaternion", "RotationMatrix", "EulerAngles", "PacketCounter", "FrameRange",
       "SampleTime64", "SampleTimeCoarse", "SampleTimeFine"} \subseteq Rivals
  BY DEF Rivals, Orientations, TimeIds
<1>4. QED
  BY <1>2, <1>3 DEF Merged, m

LEMMA CounterRivals ==
  ASSUME NEW p, NEW q, NEW over, over \in BOOLEAN,
         DOMAIN p \cup DOMAIN q \subseteq {"PacketCounter", "FrameRange"}
  PROVE  Merged(p, q, over) = KeepOne(MergeItems(p, q, over), q, over, "PacketCounter", "FrameRange")
<1> DEFINE m == MergeItems(p, q, over)
           k == KeepOne(m, q, over, "PacketCounter", "FrameRange")
<1>1. DOMAIN m \subseteq {"PacketCounter", "FrameRange"}
  BY MergeItemsIs DEF Overlays
<1> HIDE DEF m
<1>2. DOMAIN k \subseteq {"PacketCounter", "FrameRange"}
  BY <1>1, KeepOneIs DEF Part
<1> HIDE DEF k
<1>3. /\ KeepOne(m, q, over, "Quaternion", "RotationMatrix") = m
      /\ KeepOne(m, q, over, "Quaternion", "EulerAngles") = m
      /\ KeepOne(m, q, over, "EulerAngles", "RotationMatrix") = m
  BY <1>1 DEF KeepOne, Has
<1>4. /\ KeepOne(k, q, over, "SampleTime64", "SampleTimeCoarse") = k
      /\ KeepOne(k, q, over, "SampleTime64", "SampleTimeFine") = k
  BY <1>2 DEF KeepOne, Has
<1>5. QED
  BY <1>3, <1>4 DEF Merged, m, k

(* A merged packet has a rotation if one of the two had one. *)
LEMMA OrientationRivals ==
  ASSUME NEW p, NEW q, NEW over, over \in BOOLEAN
  PROVE  LET r == Merged(p, q, over)
         IN /\ DOMAIN r \subseteq DOMAIN p \cup DOMAIN q
            /\ (DOMAIN p \cup DOMAIN q) \ Rivals \subseteq DOMAIN r
            /\ DOMAIN p \cap Orientations # {} => DOMAIN r \cap Orientations # {}
            /\ DOMAIN q \cap Orientations # {} => DOMAIN r \cap Orientations # {}
<1> DEFINE m0 == MergeItems(p, q, over)
           m1 == KeepOne(m0, q, over, "Quaternion", "RotationMatrix")
           m2 == KeepOne(m1, q, over, "Quaternion", "EulerAngles")
           m3 == KeepOne(m2, q, over, "EulerAngles", "RotationMatrix")
           m4 == KeepOne(m3, q, over, "PacketCounter", "FrameRange")
           m5 == KeepOne(m4, q, over, "SampleTime64", "SampleTimeCoarse")
           m6 == KeepOne(m5, q, over, "SampleTime64", "SampleTimeFine")
           Keeps(f, g) == /\ DOMAIN g \subseteq DOMAIN f
                          /\ DOMAIN f \ Rivals \subseteq DOMAIN g
                          /\ DOMAIN f \cap Orientations # {} => DOMAIN g \cap Orientations # {}
<1>1. DOMAIN m0 = DOMAIN p \cup DOMAIN q
  BY MergeItemsIs DEF Overlays
<1>2. ASSUME NEW f, NEW id1, NEW id2, id1 # id2,
             {id1, id2} \subseteq Orientations \/ {id1, id2} \subseteq Rivals \ Orientations
      PROVE  Keeps(f, KeepOne(f, q, over, id1, id2))
  <2> DEFINE g == KeepOne(f, q, over, id1, id2)
  <2>1. \/ g = f
        \/ id1 \in DOMAIN f /\ id2 \in DOMAIN f /\ DOMAIN g = DOMAIN f \ {id1}
        \/ id1 \in DOMAIN f /\ id2 \in DOMAIN f /\ DOMAIN g = DOMAIN f \ {id2}
    <3>1. g = f \/ (id1 \in DOMAIN f /\ id2 \in DOMAIN f /\ g \in {Erase(f, {id1}), Erase(f, {id2})})
      BY DEF KeepOne, Has
    <3> HIDE DEF g
    <3>2. QED
      BY <3>1 DEF Erase
  <2> HIDE DEF g
  <2>2. Keeps(f, g)
    BY <1>2, <2>1 DEF Rivals
  <2>3. QED
    BY <2>2 DEF g
<1>3. /\ {"Quaternion", "RotationMatrix", "EulerAngles"} = Orientations
      /\ {"PacketCounter", "FrameRange", "SampleTime64", "SampleTimeCoarse", "SampleTimeFine"}
           = Rivals \ Orientations
  BY DEF Rivals, Orientations, TimeIds
<1> HIDE DEF m0, Keeps
<1>4. Keeps(m0, m1) /\ Keeps(m1, m2) /\ Keeps(m2, m3) /\ Keeps(m3, m4) /\ Keeps(m4, m5) /\ Keeps(m5, m6)
  BY <1>2, <1>3
<1> HIDE DEF m1, m2, m3, m4, m5, m6
<1>5. Keeps(m0, m6)
  BY <1>4 DEF Keeps
<1>6. m6 = Merged(p, q, over)
  BY DEF Merged, m0, m1, m2, m3, m4, m5, m6
<1>7. QED
  BY <1>1, <1>5, <1>6 DEF Keeps

\* What is told of x, if p was told t, and it is merged with q, which was told s.
BothTold(p, t, q, s, over, x) ==
  IF Clash(p, q, over, x) THEN Open
  ELSE IF s[x] = None THEN t[x]
  ELSE IF t[x] = None \/ over THEN s[x] ELSE t[x]

LEMMA BothToldIs ==
  ASSUME NEW p, NEW t, NEW q, NEW s, NEW over, over \in BOOLEAN, NEW x, ~Clash(p, q, over, x)
  PROVE  /\ s[x] = None => BothTold(p, t, q, s, over, x) = t[x]
         /\ s[x] # None /\ (t[x] = None \/ over) => BothTold(p, t, q, s, over, x) = s[x]
         /\ s[x] # None /\ t[x] # None /\ ~over => BothTold(p, t, q, s, over, x) = t[x]
         /\ BothTold(p, t, q, s, over, x) = None <=> t[x] = None /\ s[x] = None
BY DEF BothTold

(* Items of a merged packet are those of the two, and without a clash its     *)
(* orientations all come from the one that counts.                          *)
LEMMA OrientationFrom ==
  ASSUME NEW p, NEW q, NEW over, over \in BOOLEAN
  PROVE  LET r == Merged(p, q, over)
         IN /\ \A id \in DOMAIN r : r[id] = MergeItems(p, q, over)[id]
            /\ over /\ DOMAIN q \cap Orientations # {} => DOMAIN r \cap Orientations \subseteq DOMAIN q
            /\ ~over /\ DOMAIN p \cap Orientations # {} /\ ~Clash(p, q, over, "orientation")
                 => DOMAIN r \cap Orientations \subseteq DOMAIN p
<1> DEFINE m0 == MergeItems(p, q, over)
           m1 == KeepOne(m0, q, over, "Quaternion", "RotationMatrix")
           m2 == KeepOne(m1, q, over, "Quaternion", "EulerAngles")
           m3 == KeepOne(m2, q, over, "EulerAngles", "RotationMatrix")
           m4 == KeepOne(m3, q, over, "PacketCounter", "FrameRange")
           m5 == KeepOne(m4, q, over, "SampleTime64", "SampleTimeCoarse")
           m6 == KeepOne(m5, q, over, "SampleTime64", "SampleTimeFine")
<1>1. DOMAIN m0 = DOMAIN p \cup DOMAIN q
  BY MergeItemsIs DEF Overlays
<1> HIDE DEF m0
<1> DEFINE Kept(f, r, id1, id2) ==
             LET both == id1 \in DOMAIN f /\ id2 \in DOMAIN f
             IN /\ Part(r, f)
                /\ ~both => r = f
                /\ both /\ (id1 \in DOMAIN q <=> over) => DOMAIN r = DOMAIN f \ {id2}
                /\ both /\ ~(id1 \in DOMAIN q <=> over) => DOMAIN r = DOMAIN f \ {id1}
<1>2. ASSUME NEW f, NEW id1, NEW id2
      PROVE  Kept(f, KeepOne(f, q, over, id1, id2), id1, id2)
  <2> DEFINE r == KeepOne(f, q, over, id1, id2)
             both == id1 \in DOMAIN f /\ id2 \in DOMAIN f
  <2>1. /\ Part(r, f)
        /\ ~both => r = f
        /\ both /\ (id1 \in DOMAIN q <=> over) => DOMAIN r = DOMAIN f \ {id2}
        /\ both /\ ~(id1 \in DOMAIN q <=> over) => DOMAIN r = DOMAIN f \ {id1}
    <3>1. /\ ~both => r = f
          /\ both /\ (id1 \in DOMAIN q <=> over) => r = Erase(f, {id2})
          /\ both /\ ~(id1 \in DOMAIN q <=> over) => r = Erase(f, {id1})
      BY DEF KeepOne, Has
    <3>2. Part(r, f)
      BY KeepOneIs
    <3> HIDE DEF r
    <3>3. QED
      BY <3>1, <3>2 DEF Erase
  <2>2. QED
    BY <2>1
<1> HIDE DEF Kept
<1>3. /\ Kept(m0, m1, "Quaternion", "RotationMatrix") /\ Kept(m1, m2, "Quaternion", "EulerAngles")
      /\ Kept(m2, m3, "EulerAngles", "RotationMatrix")
  BY <1>2
<1>4. /\ Kept(m3, m4, "PacketCounter", "FrameRange") /\ Kept(m4, m5, "SampleTime64", "SampleTimeCoarse")
      /\ Kept(m5, m6, "SampleTime64", "SampleTimeFine")
  BY <1>2
<1> HIDE DEF m1, m2, m3, m4, m5, m6
<1>5. /\ Part(m1, m0) /\ Part(m2, m1) /\ Part(m3, m2) /\ Part(m4, m3) /\ Part(m5, m4) /\ Part(m6, m5)
  BY <1>3, <1>4 DEF Kept
<1>6. /\ DOMAIN m6 \subseteq DOMAIN m3 /\ \A id \in DOMAIN m6 : m6[id] = m0[id]
  BY <1>5 DEF Part
<1>7. over /\ DOMAIN q \cap Orientations # {} => DOMAIN m3 \cap Orientations \subseteq DOMAIN q
  BY <1>1, <1>3 DEF Orientations, Kept
<1>8. ASSUME ~over, DOMAIN p \cap Orientations # {}, ~Clash(p, q, over, "orientation")
      PROVE  DOMAIN m3 \cap Orientations \subseteq DOMAIN p
  <2>1. \/ DOMAIN p \cap DOMAIN q \cap Orientations = {}
        \/ \A x, y \in DOMAIN q \cap Orientations : x = y
    <3>1. ASSUME NEW x \in DOMAIN q \cap Orientations, NEW y \in DOMAIN q \cap Orientations, x # y
          PROVE  Cardinality(DOMAIN q \cap Orientations) > 1
      <4>1. IsFiniteSet(Orientations)
        <5>1. IsFiniteSet({"Quaternion"})
          BY FS_Singleton
        <5>2. IsFiniteSet({"Quaternion"} \cup {"RotationMatrix"})
          BY <5>1, FS_AddElement
        <5>3. IsFiniteSet(({"Quaternion"} \cup {"RotationMatrix"}) \cup {"EulerAngles"})
          BY <5>2, FS_AddElement
        <5>4. Orientations = ({"Quaternion"} \cup {"RotationMatrix"}) \cup {"EulerAngles"}
          BY DEF Orientations
        <5>5. QED
          BY <5>3, <5>4
      <4>2. IsFiniteSet(DOMAIN q \cap Orientations)
        BY <4>1, FS_Subset
      <4>3. {x, y} \subseteq DOMAIN q \cap Orientations
        OBVIOUS
      <4>4. Cardinality({x, y}) = 2
        <5>1. IsFiniteSet({x}) /\ Cardinality({x}) = 1
          BY FS_Singleton
        <5>2. Cardinality({x} \cup {y}) = 2
          BY <3>1, <5>1, FS_AddElement
        <5>3. {x, y} = {x} \cup {y}
          OBVIOUS
        <5>4. QED
          BY <5>2, <5>3
      <4>5. /\ Cardinality({x, y}) \in Nat /\ Cardinality(DOMAIN q \cap Orientations) \in Nat
            /\ Cardinality({x, y}) <= Cardinality(DOMAIN q \cap Orientations)
        BY <4>2, <4>3, FS_Subset, FS_CardinalityType
      <4>6. QED
        BY <4>4, <4>5
    <3>2. QED
      BY <1>8, <3>1 DEF Clash
  <2>2. QED
    BY <1>1, <1>3, <1>8, <2>1 DEF Orientations, Kept
<1>9. m6 = Merged(p, q, over)
  BY DEF Merged, m0, m1, m2, m3, m4, m5, m6
<1>10. QED
  BY <1>6, <1>7, <1>8, <1>9 DEF m0

LEMMA MergedOrientation ==
  ASSUME NEW p, NEW t, Good(p, t), NEW q, NEW s, Good(q, s), NEW over, over \in BOOLEAN,
         group = "orientation", NEW u,
         \A x \in Quantities : u[x] = BothTold(p, t, q, s, over, x)
  PROVE  OrientationGood(Merged(p, q, over), u)
<1> DEFINE r == Merged(p, q, over)
<1>1. /\ DOMAIN p \cup DOMAIN q \subseteq Orientations \cup {"VelocityXYZ"}
      /\ "VelocityXYZ" \notin Rivals /\ Orientations \subseteq Rivals
  BY ItemsAre DEF Good, Rivals, Orientations, TimeIds
<1>2. /\ DOMAIN r \subseteq DOMAIN p \cup DOMAIN q
      /\ "VelocityXYZ" \in DOMAIN r <=> "VelocityXYZ" \in DOMAIN p \cup DOMAIN q
      /\ DOMAIN r \cap Orientations # {} <=> (DOMAIN p \cup DOMAIN q) \cap Orientations # {}
  BY <1>1, OrientationRivals
<1> HIDE DEF r
<1>3. ~Clash(p, q, over, "velocity")
  BY PacketAssumption DEF Clash
<1>4. u["velocity"] = None <=> t["velocity"] = None /\ s["velocity"] = None
  BY <1>3, QuantitiesAre DEF BothTold
<1>5. u["orientation"] = None <=> t["orientation"] = None /\ s["orientation"] = None
  <2>1. CASE Clash(p, q, over, "orientation")
    <3>1. DOMAIN p \cap Orientations # {}
      BY <2>1, PacketAssumption DEF Clash
    <3>2. t["orientation"] # None
      BY <3>1 DEF Good, OrientationGood, Has
    <3>3. u["orientation"] = Open
      BY <2>1, QuantitiesAre DEF BothTold
    <3>4. QED
      BY <3>2, <3>3, NoneAssumption
  <2>2. CASE ~Clash(p, q, over, "orientation")
    BY <2>2, QuantitiesAre DEF BothTold
  <2>3. QED
    BY <2>1, <2>2
<1> DEFINE m == MergeItems(p, q, over)
<1>6. /\ \A id \in DOMAIN r : r[id] = m[id]
      /\ over /\ DOMAIN q \cap Orientations # {} => DOMAIN r \cap Orientations \subseteq DOMAIN q
      /\ ~over /\ DOMAIN p \cap Orientations # {} /\ ~Clash(p, q, over, "orientation")
           => DOMAIN r \cap Orientations \subseteq DOMAIN p
  BY OrientationFrom DEF r
<1>7. Overlays(m, p, q, over)
  BY MergeItemsIs
<1> HIDE DEF m
<1>8. OrientationGood(p, t) /\ OrientationGood(q, s) /\ Quantities = {"orientation", "velocity"}
  BY QuantitiesAre DEF Good
<1>9. ASSUME NEW form \in Orientations, form \in DOMAIN r
      PROVE  r[form] \in Rotating /\ (Known(u["orientation"]) => r[form] = u["orientation"])
  <2>1. /\ form \in DOMAIN p \cup DOMAIN q /\ r[form] = m[form]
        /\ m[form] = IF form \notin DOMAIN q THEN p[form]
                     ELSE IF form \notin DOMAIN p \/ over THEN q[form] ELSE p[form]
    BY <1>2, <1>6, <1>7, <1>9 DEF Overlays
  <2>2. /\ form \in DOMAIN p => p[form] \in Rotating
        /\ form \in DOMAIN q => q[form] \in Rotating
    BY <1>8 DEF OrientationGood, Has
  <2>3. ASSUME Known(u["orientation"]) PROVE r[form] = u["orientation"]
    <3>1. ~Clash(p, q, over, "orientation") /\ u["orientation"] = BothTold(p, t, q, s, over, "orientation")
      BY <1>8, <2>3 DEF BothTold, Known
    <3>2. /\ form \in DOMAIN p /\ Known(t["orientation"]) => p[form] = t["orientation"]
          /\ form \in DOMAIN q /\ Known(s["orientation"]) => q[form] = s["orientation"]
          /\ t["orientation"] # None <=> DOMAIN p \cap Orientations # {}
          /\ s["orientation"] # None <=> DOMAIN q \cap Orientations # {}
      BY <1>8 DEF OrientationGood, Has
    <3>3. QED
      BY <1>6, <1>9, <2>1, <2>3, <3>1, <3>2, BothToldIs DEF Known
  <2>4. QED
    BY <2>1, <2>2, <2>3
<1>10. ASSUME "VelocityXYZ" \in DOMAIN r
       PROVE  /\ r["VelocityXYZ"] \in Moving
              /\ Known(u["velocity"]) => r["VelocityXYZ"] = u["velocity"]
  <2>1. /\ "VelocityXYZ" \in DOMAIN p \cup DOMAIN q /\ r["VelocityXYZ"] = m["VelocityXYZ"]
        /\ m["VelocityXYZ"] = IF "VelocityXYZ" \notin DOMAIN q THEN p["VelocityXYZ"]
                              ELSE IF "VelocityXYZ" \notin DOMAIN p \/ over THEN q["VelocityXYZ"]
                              ELSE p["VelocityXYZ"]
    BY <1>2, <1>6, <1>7, <1>10 DEF Overlays
  <2>2. u["velocity"] = BothTold(p, t, q, s, over, "velocity")
    BY <1>8
  <2>3. QED
    BY <1>3, <1>8, <2>1, <2>2, BothToldIs DEF OrientationGood, Has, Known
<1>11. QED
  BY <1>2, <1>4, <1>5, <1>8, <1>9, <1>10 DEF OrientationGood, Has, r

LEMMA MergedCounter ==
  ASSUME NEW p, NEW t, Good(p, t), NEW q, NEW s, Good(q, s), NEW over, over \in BOOLEAN,
         group = "counter", NEW u,
         \A x \in Quantities : u[x] = BothTold(p, t, q, s, over, x)
  PROVE  CounterGood(Merged(p, q, over), u)
<1> DEFINE m == MergeItems(p, q, over)
           r == Merged(p, q, over)
<1>1. /\ DOMAIN p \cup DOMAIN q \subseteq {"PacketCounter", "FrameRange"}
      /\ CounterGood(p, t) /\ CounterGood(q, s)
  BY ItemsAre DEF Good
<1>2. r = KeepOne(m, q, over, "PacketCounter", "FrameRange")
  BY <1>1, CounterRivals
<1>3. Overlays(m, p, q, over)
  BY MergeItemsIs
<1> HIDE DEF m, r
<1>4. ~Clash(p, q, over, "counter")
  BY PacketAssumption DEF Clash
<1>5. /\ s["counter"] = None => u["counter"] = t["counter"]
      /\ s["counter"] # None /\ (t["counter"] = None \/ over) => u["counter"] = s["counter"]
      /\ s["counter"] # None /\ t["counter"] # None /\ ~over => u["counter"] = t["counter"]
  BY <1>4, QuantitiesAre DEF BothTold
<1>6. ASSUME NEW f, NEW g, CounterGood(f, g), DOMAIN r = DOMAIN f, \A x \in DOMAIN f : r[x] = f[x],
             u["counter"] = g["counter"]
      PROVE  CounterGood(r, u)
  <2>1. PacketCounter(r) = PacketCounter(f)
    BY <1>6 DEF PacketCounter, Has
  <2>2. QED
    BY <1>6, <2>1 DEF CounterGood, Has
<1>7. CASE s["counter"] = None
  <2>1. DOMAIN q = {}
    BY <1>1, <1>7 DEF CounterGood, Has
  <2>2. /\ DOMAIN m = DOMAIN p /\ \A x \in DOMAIN p : m[x] = p[x]
    BY <1>3, <2>1 DEF Overlays
  <2>3. r = m
    BY <1>1, <1>2, <2>2 DEF CounterGood, KeepOne, Has
  <2>4. QED
    BY <1>1, <1>5, <1>6, <1>7, <2>2, <2>3 DEF r, Good
<1>8. CASE s["counter"] # None /\ (t["counter"] = None \/ over)
  <2>1. /\ DOMAIN r = DOMAIN q /\ \A x \in DOMAIN q : r[x] = m[x]
    <3>1. /\ DOMAIN q \in {{"PacketCounter"}, {"FrameRange"}}
          /\ DOMAIN p \in {{}, {"PacketCounter"}, {"FrameRange"}} /\ (DOMAIN p = {} \/ over)
      <4>1. DOMAIN q \in {{"PacketCounter"}, {"FrameRange"}}
        BY <1>1, <1>8 DEF CounterGood, Has
      <4>2. DOMAIN p \in {{}, {"PacketCounter"}, {"FrameRange"}}
        BY <1>1 DEF CounterGood, Has
      <4>3. t["counter"] = None => DOMAIN p = {}
        BY <1>1 DEF CounterGood, Has
      <4>4. QED
        BY <1>8, <4>1, <4>2, <4>3
    <3>2. DOMAIN m = DOMAIN p \cup DOMAIN q
      BY <1>3 DEF Overlays
    <3>3. CASE DOMAIN p \subseteq DOMAIN q
      BY <1>2, <3>1, <3>2, <3>3 DEF KeepOne, Has
    <3>4. CASE DOMAIN p = {"FrameRange"} /\ DOMAIN q = {"PacketCounter"}
      <4>1. r = Erase(m, {"FrameRange"})
        BY <1>2, <3>1, <3>2, <3>4 DEF KeepOne, Has
      <4>2. QED
        BY <3>2, <3>4, <4>1 DEF Erase
    <3>5. CASE DOMAIN p = {"PacketCounter"} /\ DOMAIN q = {"FrameRange"}
      <4>1. r = Erase(m, {"PacketCounter"})
        BY <1>2, <3>1, <3>2, <3>5 DEF KeepOne, Has
      <4>2. QED
        BY <3>2, <3>5, <4>1 DEF Erase
    <3>6. QED
      BY <3>1, <3>3, <3>4, <3>5
  <2>2. ASSUME NEW x \in DOMAIN q PROVE r[x] = q[x]
    BY <1>1, <1>3, <1>8, <2>1 DEF CounterGood, Has, Overlays
  <2>3. QED
    BY <1>1, <1>5, <1>6, <1>8, <2>1, <2>2 DEF r, Good
<1>9. CASE s["counter"] # None /\ t["counter"] # None /\ ~over
  <2>1. /\ DOMAIN r = DOMAIN p /\ \A x \in DOMAIN p : r[x] = m[x]
    <3>1. /\ DOMAIN p \in {{"PacketCounter"}, {"FrameRange"}}
          /\ DOMAIN q \in {{"PacketCounter"}, {"FrameRange"}}
      BY <1>1, <1>9 DEF CounterGood, Has
    <3>2. DOMAIN m = DOMAIN p \cup DOMAIN q
      BY <1>3 DEF Overlays
    <3>3. CASE DOMAIN p = DOMAIN q
      BY <1>2, <3>1, <3>2, <3>3 DEF KeepOne, Has
    <3>4. CASE DOMAIN p = {"PacketCounter"} /\ DOMAIN q = {"FrameRange"}
      <4>1. r = Erase(m, {"FrameRange"})
        BY <1>2, <1>9, <3>2, <3>4 DEF KeepOne, Has
      <4>2. QED
        BY <3>2, <3>4, <4>1 DEF Erase
    <3>5. CASE DOMAIN p = {"FrameRange"} /\ DOMAIN q = {"PacketCounter"}
      <4>1. r = Erase(m, {"PacketCounter"})
        BY <1>2, <1>9, <3>2, <3>5 DEF KeepOne, Has
      <4>2. QED
        BY <3>2, <3>5, <4>1 DEF Erase
    <3>6. QED
      BY <3>1, <3>3, <3>4, <3>5
  <2>2. ASSUME NEW x \in DOMAIN p PROVE r[x] = p[x]
    BY <1>1, <1>3, <1>9, <2>1 DEF Overlays
  <2>3. QED
    BY <1>1, <1>5, <1>6, <1>9, <2>1, <2>2 DEF r, Good
<1>10. QED
  BY <1>7, <1>8, <1>9


(* Other items are those of either packet. *)
LEMMA MergedOthers ==
  ASSUME NEW p, NEW q, NEW over, over \in BOOLEAN, group \in {"status", "raw", "values", "place", "gps"},
         DOMAIN p \cup DOMAIN q \subseteq ItemsOf[group]
  PROVE  Overlays(Merged(p, q, over), p, q, over)
<1>1. ItemsOf[group] \cap Rivals = {}
  BY ItemsAre, PacketAssumption DEF Rivals, Orientations, TimeIds, Raw
<1>2. Merged(p, q, over) = MergeItems(p, q, over)
  BY <1>1, NoRivals
<1>3. QED
  BY <1>2, MergeItemsIs

LEMMA MergedStatus ==
  ASSUME NEW p, NEW t, Good(p, t), NEW q, NEW s, Good(q, s), NEW over, over \in BOOLEAN,
         group = "status", NEW u,
         \A x \in Quantities : u[x] = BothTold(p, t, q, s, over, x)
  PROVE  StatusGood(Merged(p, q, over), u)
<1> DEFINE r == Merged(p, q, over)
<1>1. /\ DOMAIN p \cup DOMAIN q \subseteq {"StatusByte", "StatusWord"}
      /\ StatusGood(p, t) /\ StatusGood(q, s)
  BY ItemsAre DEF Good
<1>2. Overlays(r, p, q, over)
  <2>1. DOMAIN p \cup DOMAIN q \subseteq ItemsOf[group] /\ group \in {"status", "raw", "values", "place", "gps"}
    BY DEF Good
  <2>2. QED
    BY <2>1, MergedOthers
<1> HIDE DEF r
<1>3. Clash(p, q, over, "status") <=> {"StatusByte", "StatusWord"} \subseteq DOMAIN r
  BY <1>2, PacketAssumption DEF Clash, Overlays
<1>4. u["status"] = BothTold(p, t, q, s, over, "status")
  BY QuantitiesAre
<1>5. CASE Clash(p, q, over, "status")
  <2>1. u["status"] = Open
    BY <1>4, <1>5 DEF BothTold
  <2>2. Has(r, "StatusWord") => r["StatusWord"] \in Int \X Int
    BY <1>1, <1>2 DEF StatusGood, Has, Overlays
  <2>3. QED
    BY <1>3, <1>5, <2>1, <2>2, NoneAssumption DEF StatusGood, Has, Known, r
<1>6. CASE ~Clash(p, q, over, "status")
  <2>1. /\ s["status"] = None => u["status"] = t["status"]
        /\ s["status"] # None /\ (t["status"] = None \/ over) => u["status"] = s["status"]
        /\ s["status"] # None /\ t["status"] # None /\ ~over => u["status"] = t["status"]
    BY <1>4, <1>6 DEF BothTold
  <2>2. ASSUME NEW f, NEW g, StatusGood(f, g), DOMAIN r = DOMAIN f, \A x \in DOMAIN f : r[x] = f[x],
               u["status"] = g["status"]
        PROVE  StatusGood(r, u)
    <3>1. Status(r) = Status(f)
      BY <2>2 DEF Status, Has
    <3>2. QED
      BY <2>2, <3>1 DEF StatusGood, Has
  <2>3. CASE s["status"] = None
    <3>1. DOMAIN q = {}
      BY <1>1, <2>3 DEF StatusGood, Has
    <3>2. QED
      BY <1>1, <1>2, <2>1, <2>2, <2>3, <3>1 DEF r, Overlays
  <2>4. CASE s["status"] # None /\ (t["status"] = None \/ over)
    <3>1. DOMAIN r = DOMAIN q
      BY <1>1, <1>2, <1>3, <1>6, <2>4 DEF StatusGood, Has, Overlays
    <3>2. ASSUME NEW x \in DOMAIN q PROVE r[x] = q[x]
      BY <1>1, <1>2, <2>4, <3>1 DEF StatusGood, Has, Overlays
    <3>3. QED
      BY <1>1, <2>1, <2>2, <2>4, <3>1, <3>2 DEF r
  <2>5. CASE s["status"] # None /\ t["status"] # None /\ ~over
    <3>1. DOMAIN r = DOMAIN p
      BY <1>1, <1>2, <1>3, <1>6, <2>5 DEF StatusGood, Has, Overlays
    <3>2. ASSUME NEW x \in DOMAIN p PROVE r[x] = p[x]
      BY <1>2, <2>5 DEF Overlays
    <3>3. QED
      BY <1>1, <2>1, <2>2, <2>5, <3>1, <3>2 DEF r
  <2>6. QED
    BY <2>3, <2>4, <2>5
<1>7. QED
  BY <1>5, <1>6

LEMMA MergedValues ==
  ASSUME NEW p, NEW t, Good(p, t), NEW q, NEW s, Good(q, s), NEW over, over \in BOOLEAN,
         group \in {"values", "place", "gps"}, NEW u,
         \A x \in Quantities : u[x] = BothTold(p, t, q, s, over, x)
  PROVE  ValuesGood(Merged(p, q, over), u)
<1> DEFINE r == Merged(p, q, over)
<1>1. /\ DOMAIN p \cup DOMAIN q \subseteq ItemsOf[group]
      /\ ValuesGood(p, t) /\ ValuesGood(q, s) /\ Quantities = ItemsOf[group]
  BY QuantitiesAre DEF Good
<1>2. Overlays(r, p, q, over)
  <2>1. group \in {"status", "raw", "values", "place", "gps"}
    OBVIOUS
  <2>2. QED
    BY <1>1, <2>1, MergedOthers
<1> HIDE DEF r
<1>3. ASSUME NEW x \in DOMAIN r
      PROVE  /\ r[x] \in Items
             /\ x \in {"Acceleration", "LatLon"} => r[x].value % Formats[r[x].format] = 0
  <2>1. (x \in DOMAIN p /\ r[x] = p[x]) \/ (x \in DOMAIN q /\ r[x] = q[x])
    BY <1>2 DEF Overlays
  <2>2. QED
    BY <1>1, <2>1 DEF ValuesGood
<1>4. ASSUME NEW x \in ItemsOf[group]
      PROVE  /\ u[x] # None <=> Has(r, x)
             /\ Known(u[x]) => r[x].value = u[x]
  <2>1. ~Clash(p, q, over, x)
    BY ItemsAre, PacketAssumption DEF Clash
  <2>2. /\ s[x] = None => u[x] = t[x]
        /\ s[x] # None /\ (t[x] = None \/ over) => u[x] = s[x]
        /\ s[x] # None /\ t[x] # None /\ ~over => u[x] = t[x]
    BY <1>1, <2>1 DEF BothTold
  <2>3. /\ t[x] # None <=> x \in DOMAIN p
        /\ s[x] # None <=> x \in DOMAIN q
        /\ Known(t[x]) => p[x].value = t[x]
        /\ Known(s[x]) => q[x].value = s[x]
    BY <1>1 DEF ValuesGood, Has
  <2>4. CASE s[x] = None
    BY <1>2, <2>2, <2>3, <2>4 DEF Has, Known, Overlays
  <2>5. CASE s[x] # None /\ (t[x] = None \/ over)
    BY <1>2, <2>2, <2>3, <2>5 DEF Has, Known, Overlays
  <2>6. CASE s[x] # None /\ t[x] # None /\ ~over
    BY <1>2, <2>2, <2>3, <2>6 DEF Has, Known, Overlays
  <2>7. QED
    BY <2>4, <2>5, <2>6
<1>5. QED
  BY <1>3, <1>4 DEF ValuesGood, r

LEMMA MergedRaw ==
  ASSUME NEW p, NEW t, Good(p, t), NEW q, NEW s, Good(q, s), NEW over, over \in BOOLEAN,
         group = "raw", NEW u,
         \A x \in Quantities : u[x] = BothTold(p, t, q, s, over, x)
  PROVE  RawGood(Merged(p, q, over), u)
<1> DEFINE r == Merged(p, q, over)
<1>1. /\ DOMAIN p \cup DOMAIN q \subseteq ItemsOf[group]
      /\ RawGood(p, t) /\ RawGood(q, s) /\ Quantities = RawParts \cup {"temp"}
  BY QuantitiesAre DEF Good
<1>2. Overlays(r, p, q, over)
  <2>1. group \in {"status", "raw", "values", "place", "gps"}
    OBVIOUS
  <2>2. QED
    BY <1>1, <2>1, MergedOthers
<1> HIDE DEF r
<1>3. Has(r, "RawAccGyrMagTemp") => DOMAIN r["RawAccGyrMagTemp"] = RawParts \cup {"temp"}
  <2>1. "RawAccGyrMagTemp" \in DOMAIN r =>
          \/ Has(p, "RawAccGyrMagTemp") /\ r["RawAccGyrMagTemp"] = p["RawAccGyrMagTemp"]
          \/ Has(q, "RawAccGyrMagTemp") /\ r["RawAccGyrMagTemp"] = q["RawAccGyrMagTemp"]
    BY <1>2 DEF Overlays, Has
  <2>2. QED
    BY <1>1, <2>1 DEF RawGood, Has
<1>4. ASSUME NEW x \in RawParts \cup {"temp"}, ~Clash(p, q, over, x)
      PROVE  /\ s[x] = None => u[x] = t[x]
             /\ s[x] # None /\ (t[x] = None \/ over) => u[x] = s[x]
             /\ s[x] # None /\ t[x] # None /\ ~over => u[x] = t[x]
  BY <1>1, <1>4 DEF BothTold
<1>5. /\ u["temp"] # None <=> Has(r, "RawAccGyrMagTemp")
      /\ Known(u["temp"]) => r["RawAccGyrMagTemp"]["temp"] = u["temp"]
  <2>1. ~Clash(p, q, over, "temp")
    BY RawNames DEF Clash
  <2>2. /\ t["temp"] # None <=> "RawAccGyrMagTemp" \in DOMAIN p
        /\ s["temp"] # None <=> "RawAccGyrMagTemp" \in DOMAIN q
        /\ Known(t["temp"]) => p["RawAccGyrMagTemp"]["temp"] = t["temp"]
        /\ Known(s["temp"]) => q["RawAccGyrMagTemp"]["temp"] = s["temp"]
    BY <1>1 DEF RawGood, Has
  <2>3. CASE s["temp"] = None
    BY <1>2, <1>4, <2>1, <2>2, <2>3 DEF Overlays, Has, Known
  <2>4. CASE s["temp"] # None /\ (t["temp"] = None \/ over)
    BY <1>2, <1>4, <2>1, <2>2, <2>4 DEF Overlays, Has, Known
  <2>5. CASE s["temp"] # None /\ t["temp"] # None /\ ~over
    BY <1>2, <1>4, <2>1, <2>2, <2>5 DEF Overlays, Has, Known
  <2>6. QED
    BY <2>3, <2>4, <2>5
<1>6. ASSUME NEW part \in RawParts
      PROVE  /\ u[part] # None <=> Has(r, "RawAccGyrMagTemp") \/ Has(r, Raw[part])
             /\ Known(u[part]) => RawVector(r, part) = u[part]
  <2> DEFINE all == "RawAccGyrMagTemp"
             own == Raw[part]
  <2>1. own # all
    BY RawNames
  <2>2. /\ t[part] # None <=> all \in DOMAIN p \/ own \in DOMAIN p
        /\ s[part] # None <=> all \in DOMAIN q \/ own \in DOMAIN q
        /\ Known(t[part]) => RawVector(p, part) = t[part]
        /\ Known(s[part]) => RawVector(q, part) = s[part]
    BY <1>1 DEF RawGood, Has
  <2>3. DOMAIN r = DOMAIN p \cup DOMAIN q
    BY <1>2 DEF Overlays
  <2>4. CASE Clash(p, q, over, part)
    <3>1. own \in DOMAIN p \/ own \in DOMAIN q
      BY <2>4, PacketAssumption DEF Clash, Has
    <3>2. u[part] = Open
      BY <1>1, <2>4 DEF BothTold
    <3>3. QED
      BY <2>3, <3>1, <3>2, NoneAssumption DEF Has, Known
  <2>5. CASE ~Clash(p, q, over, part)
    <3>1. (all \in DOMAIN p <=> all \in DOMAIN q) \/ (own \notin DOMAIN p /\ own \notin DOMAIN q)
      BY <2>5 DEF Clash, Has
    <3> HIDE DEF own
    <3>2. ASSUME NEW f, all \in DOMAIN r <=> all \in DOMAIN f,
                 IF all \in DOMAIN r THEN r[all] = f[all] ELSE r[own] = f[own]
          PROVE  RawVector(r, part) = RawVector(f, part)
      BY <3>2 DEF RawVector, Has, own
    <3>3. CASE s[part] = None
      <4>1. u[part] = t[part] /\ all \notin DOMAIN q /\ own \notin DOMAIN q
        BY <1>4, <2>2, <2>5, <3>3
      <4>2. CASE t[part] = None
        BY <2>2, <2>3, <4>1, <4>2 DEF Has, Known, own
      <4>3. CASE t[part] # None
        <5>1. RawVector(r, part) = RawVector(p, part)
          BY <1>2, <2>2, <2>3, <3>2, <4>1, <4>3 DEF Overlays
        <5>2. QED
          BY <2>2, <2>3, <4>1, <4>3, <5>1 DEF Has, Known, own
      <4>4. QED
        BY <4>2, <4>3
    <3>4. CASE s[part] # None /\ (t[part] = None \/ over)
      <4>1. u[part] = s[part]
        BY <1>4, <2>5, <3>4
      <4>2. RawVector(r, part) = RawVector(q, part)
        BY <1>2, <2>2, <2>3, <3>1, <3>2, <3>4 DEF Overlays
      <4>3. QED
        BY <2>2, <2>3, <3>4, <4>1, <4>2 DEF Has, Known, own
    <3>5. CASE s[part] # None /\ t[part] # None /\ ~over
      <4>1. u[part] = t[part]
        BY <1>4, <2>5, <3>5
      <4>2. RawVector(r, part) = RawVector(p, part)
        BY <1>2, <2>2, <2>3, <3>1, <3>2, <3>5 DEF Overlays
      <4>3. QED
        BY <2>2, <2>3, <3>5, <4>1, <4>2 DEF Has, Known, own
    <3>6. QED
      BY <3>3, <3>4, <3>5
  <2>6. QED
    BY <2>4, <2>5
<1>7. QED
  BY <1>3, <1>5, <1>6 DEF RawGood, r

LEMMA MergedRead ==
  ASSUME NEW p, NEW t, Good(p, t), NEW q, NEW s, Good(q, s), NEW over, over \in BOOLEAN,
         group \in GroupNames \ {"legacy"}
  PROVE  Good(Merged(p, q, over), [x \in Quantities |-> BothTold(p, t, q, s, over, x)])
<1> DEFINE r == Merged(p, q, over)
           u == [x \in Quantities |-> BothTold(p, t, q, s, over, x)]
<1>1. DOMAIN u = Quantities /\ \A x \in Quantities : u[x] = BothTold(p, t, q, s, over, x)
  OBVIOUS
<1>2. DOMAIN r \subseteq ItemsOf[group]
  BY OrientationRivals DEF Good
<1> HIDE DEF r, u
<1>3. group = "orientation" => OrientationGood(r, u)
  BY <1>1, MergedOrientation DEF r
<1>4. group = "counter" => CounterGood(r, u)
  BY <1>1, MergedCounter DEF r
<1>5. group = "status" => StatusGood(r, u)
  BY <1>1, MergedStatus DEF r
<1>6. group = "raw" => RawGood(r, u)
  BY <1>1, MergedRaw DEF r
<1>7. group \in {"values", "place", "gps"} => ValuesGood(r, u)
  BY <1>1, MergedValues DEF r
<1>8. QED
  BY <1>1, <1>2, <1>3, <1>4, <1>5, <1>6, <1>7 DEF Good, r, u

--------------------------------------------------------------------------------
(* The steps. *)

LEMMA GroupStays ==
  ASSUME UNCHANGED group, DOMAIN pkt' = Packets, DOMAIN told' = Packets,
         group \in Groups \ {"legacy"},
         \A k \in Packets : Good(pkt'[k], told'[k])
  PROVE  ReadInv'
BY DEF ReadInv, Good, OrientationGood, Rotating, Moving, CounterGood, StatusGood, RawGood, ValuesGood, Quantities, Has,
       PacketCounter, Status, RawVector, Known

LEMMA PacketBecomes ==
  ASSUME ReadInv, NEW i \in Packets, NEW p, NEW t, Good(p, t), UNCHANGED group,
         pkt' = [pkt EXCEPT ![i] = p], told' = [told EXCEPT ![i] = t]
  PROVE  ReadInv'
BY GroupStays DEF ReadInv

LEMMA TellBecomes ==
  ASSUME ReadInv, NEW i \in Packets, NEW p, NEW q, NEW v, Tell(i, p, q, v),
         Good(p, ToldNow(told[i], q, v))
  PROVE  ReadInv'
<1>1. /\ pkt' = [pkt EXCEPT ![i] = p] /\ UNCHANGED group
      /\ told' = [told EXCEPT ![i] = ToldNow(told[i], q, v)]
  BY DEF Tell, TellAll, ToldNow
<1>2. QED
  BY <1>1, PacketBecomes

LEMMA TimeTold ==
  ASSUME ReadInv, NEW i \in Packets, TellTime(i)
  PROVE  ReadInv'
<1>1. \A p, v : /\ DOMAIN SetSampleTimeFine(p, v) \subseteq DOMAIN p \cup TimeIds
                /\ DOMAIN SetSampleTimeCoarse(p, v) \subseteq DOMAIN p \cup TimeIds
                /\ DOMAIN SetSampleTime64(p, v) \subseteq DOMAIN p \cup TimeIds
  BY DEF SetSampleTimeFine, SetSampleTimeCoarse, SetSampleTime64, Insert, TimeIds
<1>2. PICK p : pkt' = [pkt EXCEPT ![i] = p] /\ DOMAIN p \subseteq DOMAIN pkt[i] \cup TimeIds
  BY <1>1 DEF TellTime
<1>3. Good(p, told[i])
  <2>1. group = "time" /\ Good(pkt[i], told[i])
    BY DEF TellTime, ReadInv
  <2>2. QED
    BY <1>2, <2>1, ItemsAre DEF Good
<1>4. UNCHANGED <<group, told>>
  BY DEF TellTime
<1>5. \A k \in Packets : Good(pkt'[k], told'[k])
  BY <1>2, <1>3, <1>4 DEF ReadInv
<1>6. QED
  BY <1>2, <1>4, <1>5, GroupStays DEF ReadInv

LEMMA RawTold ==
  ASSUME ReadInv, NEW i \in Packets, TellRaw(i)
  PROVE  ReadInv'
<1>1. group = "raw" /\ Good(pkt[i], told[i])
  BY DEF TellRaw, ReadInv
<1>2. CASE \E part \in RawParts, v \in SomeBytes :
             Tell(i, SetRawVector(pkt[i], part, v), part, v)
  BY <1>1, <1>2, RawVectorTold, TellBecomes
<1>3. CASE \E t \in SomeBytes :
             /\ pkt' = [pkt EXCEPT ![i] = SetRawTemperature(@, t)]
             /\ told' = [told EXCEPT ![i] = [q \in Quantities |->
                           IF q = "temp" THEN t
                           ELSE IF Has(pkt[i], "RawAccGyrMagTemp") THEN @[q] ELSE Open]]
             /\ UNCHANGED group
  <2>1. PICK v \in SomeBytes :
           /\ pkt' = [pkt EXCEPT ![i] = SetRawTemperature(@, v)]
           /\ told' = [told EXCEPT ![i] = [q \in Quantities |->
                         IF q = "temp" THEN v
                         ELSE IF Has(pkt[i], "RawAccGyrMagTemp") THEN @[q] ELSE Open]]
           /\ UNCHANGED group
    BY <1>3
  <2> DEFINE u == [q \in Quantities |-> IF q = "temp" THEN v
                     ELSE IF Has(pkt[i], "RawAccGyrMagTemp") THEN told[i][q] ELSE Open]
  <2>2. pkt' = [pkt EXCEPT ![i] = SetRawTemperature(pkt[i], v)] /\ told' = [told EXCEPT ![i] = u]
    BY <2>1
  <2>3. Good(SetRawTemperature(pkt[i], v), u)
    BY <1>1, RawTemperatureTold
  <2> HIDE DEF u
  <2>4. QED
    BY <2>1, <2>2, <2>3, PacketBecomes
<1>4. CASE \E data \in [RawParts \cup {"temp"} -> SomeBytes] :
             /\ pkt' = [pkt EXCEPT ![i] = SetRawData(@, data)]
             /\ told' = [told EXCEPT ![i] = data]
             /\ UNCHANGED group
  BY <1>1, <1>4, RawDataTold, PacketBecomes
<1>5. QED
  BY <1>2, <1>3, <1>4 DEF TellRaw

(* A place and the data of a GPS receiver are values told one after another. *)
LEMMA ValuesTold ==
  ASSUME ReadInv, NEW i \in Packets, TellValue(i)
  PROVE  ReadInv'
<1> DEFINE p == pkt[i]
           t == told[i]
<1>1. Good(p, t) /\ UNCHANGED group
  BY DEF TellValue, Tell, TellAll, ReadInv
<1>2. CASE /\ group \in {"values", "place"}
           /\ \E id \in ItemsOf[group], v \in SomeValues : Tell(i, SetValue(p, id, v), id, v)
  BY <1>1, <1>2, ValueTold, TellBecomes
<1>3. ASSUME NEW r, NEW values, NEW u, TellAll(i, r, values), Overlay(values, t) = u, Good(r, u)
      PROVE  ReadInv'
  BY <1>3, PacketBecomes DEF TellAll
<1>4. CASE /\ group = "place"
           /\ \E place, height \in SomeValues :
                TellAll(i, SetPositionLLA(p, place, height),
                        [LatLon |-> place, AltitudeEllipsoid |-> height])
  <2>1. PICK place \in SomeValues, height \in SomeValues :
           TellAll(i, SetPositionLLA(p, place, height),
                   [LatLon |-> place, AltitudeEllipsoid |-> height])
    BY <1>4
  <2> DEFINE u1 == ToldNow(t, "LatLon", place)
             u2 == ToldNow(u1, "AltitudeEllipsoid", height)
  <2>2. Good(SetPositionLLA(p, place, height), u2)
    BY <1>1, <1>4, ItemsAre, ValueTold DEF SetPositionLLA
  <2>3. Overlay([LatLon |-> place, AltitudeEllipsoid |-> height], t) = u2
    BY DEF Overlay, ToldNow
  <2>4. QED
    BY <1>3, <2>1, <2>2, <2>3
<1>5. CASE group = "gps"
  <2>1. PICK pressure \in SomeValues, age \in SomeValues, sol \in SomeValues :
           \/ TellAll(i, SetPressure(p, pressure, age),
                      [BaroPressure |-> pressure, PressureAge |-> age])
           \/ TellAll(i, SetGpsPvtData(p, pressure, age, sol),
                      [BaroPressure |-> pressure, PressureAge |-> age, GpsSol |-> sol])
    BY <1>5 DEF TellValue
  <2> DEFINE u1 == ToldNow(t, "BaroPressure", pressure)
             u2 == ToldNow(u1, "PressureAge", age)
             u3 == ToldNow(u2, "GpsSol", sol)
  <2>2. Good(SetPressure(p, pressure, age), u2)
    BY <1>1, <1>5, ItemsAre, ValueTold DEF SetPressure
  <2>3. Good(SetGpsPvtData(p, pressure, age, sol), u3)
    BY <1>5, <2>2, ItemsAre, ValueTold DEF SetGpsPvtData
  <2>4. Overlay([BaroPressure |-> pressure, PressureAge |-> age], t) = u2
    BY DEF Overlay, ToldNow
  <2>5. Overlay([BaroPressure |-> pressure, PressureAge |-> age, GpsSol |-> sol], t) = u3
    BY DEF Overlay, ToldNow
  <2>6. QED
    BY <1>3, <2>1, <2>2, <2>3, <2>4, <2>5
<1>6. QED
  BY <1>2, <1>4, <1>5 DEF TellValue

LEMMA ReadStep ==
  ASSUME ReadInv, [Next]_vars
  PROVE  ReadInv'
<1>1. ASSUME NEW i \in Packets PROVE Good(pkt[i], told[i])
  BY DEF ReadInv
<1>2. group \in GroupNames \ {"legacy"}
  BY GroupIs DEF ReadInv
<1>3. ASSUME NEW i \in Packets, TellOrientation(i) \/ TellVelocity(i) PROVE ReadInv'
  <2>1. CASE TellOrientation(i)
    <3>1. PICK form \in Orientations, rot \in Rotations, frame \in Frames :
             Tell(i, SetOrientation(pkt[i], form, rot, frame), "orientation",
                  [rot |-> rot, frame |-> frame])
      BY <2>1 DEF TellOrientation
    <3>2. group = "orientation"
      BY <2>1 DEF TellOrientation
    <3>3. QED
      BY <1>1, <3>1, <3>2, OrientationTold, TellBecomes
  <2>2. CASE TellVelocity(i)
    <3>1. PICK vel \in Velocities, frame \in Frames :
             Tell(i, SetVelocity(pkt[i], vel, frame), "velocity", [vel |-> vel, frame |-> frame])
      BY <2>2 DEF TellVelocity
    <3>2. group = "orientation"
      BY <2>2 DEF TellVelocity
    <3>3. QED
      BY <1>1, <3>1, <3>2, OrientationTold, TellBecomes
  <2>3. QED
    BY <1>3, <2>1, <2>2
<1>4. ASSUME NEW i \in Packets, TellCounter(i) PROVE ReadInv'
  BY <1>1, <1>4, CounterTold, TellBecomes DEF TellCounter
<1>5. ASSUME NEW i \in Packets, TellStatus(i) PROVE ReadInv'
  BY <1>1, <1>5, StatusTold, TellBecomes DEF TellStatus
<1>6. ASSUME NEW i \in Packets, TellTime(i) \/ TellRaw(i) \/ TellValue(i) PROVE ReadInv'
  BY <1>6, TimeTold, RawTold, ValuesTold
<1>7. ASSUME NEW i \in Packets, ClearItem(i) PROVE ReadInv'
  <2>1. PICK id \in DOMAIN pkt[i] :
           /\ pkt' = [pkt EXCEPT ![i] = Erase(@, {id})]
           /\ told' = [told EXCEPT ![i] = [q \in Quantities |->
                         IF q \notin SaidBy(id) THEN @[q]
                         ELSE IF Contains(pkt'[i], q) THEN Open ELSE None]]
           /\ UNCHANGED group
    BY <1>7 DEF ClearItem
  <2>2. pkt'[i] = Erase(pkt[i], {id})
    BY <2>1 DEF ReadInv
  <2> DEFINE u == [q \in Quantities |->
                     IF q \notin SaidBy(id) THEN told[i][q]
                     ELSE IF Contains(Erase(pkt[i], {id}), q) THEN Open ELSE None]
  <2>3. pkt' = [pkt EXCEPT ![i] = Erase(pkt[i], {id})] /\ told' = [told EXCEPT ![i] = u]
    BY <2>1, <2>2
  <2>4. Good(Erase(pkt[i], {id}), u)
    BY <1>1, <1>2, ItemCleared
  <2> HIDE DEF u
  <2>5. QED
    BY <2>1, <2>3, <2>4, PacketBecomes
<1>8. ASSUME NEW i \in Packets, Clear(i) PROVE ReadInv'
  BY <1>8, NothingGood, PacketBecomes DEF Clear
<1>9. ASSUME NEW i \in Packets, Load(i) PROVE ReadInv'
  <2>1. ASSUME NEW items \in DeviceItems,
               Becomes(i, [items |-> items, whole |-> TRUE], [q \in Quantities |-> ToldBy(items, q)])
        PROVE  ReadInv'
    <3>1. /\ pkt' = [pkt EXCEPT ![i] = items] /\ UNCHANGED group
          /\ told' = [told EXCEPT ![i] = [q \in Quantities |-> ToldBy(items, q)]]
      BY <2>1 DEF Becomes, Parsed
    <3>2. Good(items, [q \in Quantities |-> ToldBy(items, q)])
      BY <1>2, LoadedRead
    <3>3. QED
      BY <3>1, <3>2, PacketBecomes
  <2>2. ASSUME Becomes(i, [items |-> Empty, whole |-> FALSE], Nothing)
        PROVE  ReadInv'
    <3>1. pkt' = [pkt EXCEPT ![i] = Empty] /\ told' = [told EXCEPT ![i] = Nothing] /\ UNCHANGED group
      BY <2>2 DEF Becomes, Parsed
    <3>2. QED
      BY <3>1, NothingGood, PacketBecomes
  <2>3. QED
    BY <1>9, <2>1, <2>2 DEF Load
<1>10. ASSUME NEW i \in Packets, NEW j \in Packets, Copy(i, j) PROVE ReadInv'
  BY <1>1, <1>10, PacketBecomes DEF Copy
<1>11. ASSUME NEW i \in Packets, NEW j \in Packets, Swap(i, j) PROVE ReadInv'
  BY <1>1, <1>11, GroupStays DEF Swap, ReadInv
<1>12. ASSUME NEW i \in Packets, NEW j \in Packets, Send(i, j) PROVE ReadInv'
  <2> DEFINE u == [q \in Quantities |->
                     IF q \in Values \ {"Acceleration", "LatLon"} /\ Known(told[i][q])
                     THEN Rounded([pkt[i][q] EXCEPT !.value = told[i][q]]).value ELSE told[i][q]]
  <2>1. /\ pkt' = [pkt EXCEPT ![j] = Parsed(Written(pkt[i]))]
        /\ told' = [told EXCEPT ![j] = u] /\ UNCHANGED group
    BY <1>12 DEF Send
  <2>2. Good(Parsed(Written(pkt[i])), u)
    BY <1>1, <1>2, SentRead
  <2> HIDE DEF u
  <2>3. QED
    BY <2>1, <2>2, PacketBecomes
<1>13. ASSUME NEW i \in Packets, NEW j \in Packets, NEW over \in BOOLEAN, Merge(i, j, over)
       PROVE  ReadInv'
  <2> DEFINE u == [q \in Quantities |-> BothTold(pkt[i], told[i], pkt[j], told[j], over, q)]
  <2>1. \A q : MergedTold(i, j, over, q) = BothTold(pkt[i], told[i], pkt[j], told[j], over, q)
    BY DEF MergedTold, BothTold
  <2>2. /\ pkt' = [pkt EXCEPT ![i] = Merged(pkt[i], pkt[j], over)]
        /\ told' = [told EXCEPT ![i] = u] /\ UNCHANGED group
    BY <1>13, <2>1 DEF Merge
  <2>3. Good(Merged(pkt[i], pkt[j], over), u)
    BY <1>1, <1>2, MergedRead
  <2> HIDE DEF u
  <2>4. QED
    BY <2>2, <2>3, PacketBecomes
<1>14. CASE UNCHANGED vars
  BY <1>1, <1>14, GroupStays DEF vars, ReadInv
<1>15. QED
  BY <1>3, <1>4, <1>5, <1>6, <1>7, <1>8, <1>9, <1>10, <1>11, <1>12, <1>13, <1>14 DEF Next

LEMMA ReadInitInv == Init /\ group # "legacy" => ReadInv
BY NothingGood DEF Init, ReadInv

LEMMA ReadFromInv == ReadInv => ReadAsTold
<1> SUFFICES ASSUME ReadInv, NEW i \in Packets, NEW q \in Quantities
             PROVE  /\ Contains(pkt[i], q) <=> told[i][q] # None
                    /\ Known(told[i][q]) =>
                         CASE q = "counter"   -> PacketCounter(pkt[i]) = told[i][q]
                           [] q = "status"    -> Status(pkt[i]) = told[i][q]
                           [] q \in RawParts  -> RawVector(pkt[i], q) = told[i][q]
                           [] q = "temp"      -> pkt[i]["RawAccGyrMagTemp"].temp = told[i][q]
                           [] q \in Values    -> pkt[i][q].value = told[i][q]
                           [] OTHER -> TRUE
  BY DEF ReadAsTold
<1>1. Good(pkt[i], told[i]) /\ group \in GroupNames \ {"legacy"}
  BY GroupIs DEF ReadInv
<1>2. QED
  BY <1>1, GoodReads

LEMMA DirectionsFromInv == ReadInv => DirectionsAsTold
<1> SUFFICES ASSUME ReadInv, NEW i \in Packets, NEW frame \in Frames,
                    "orientation" \in Quantities \/ "velocity" \in Quantities
             PROVE  OrientationGood(pkt[i], told[i]) /\ frame \in CoordinateSystems
  BY GoodDirections DEF DirectionsAsTold
<1>1. Good(pkt[i], told[i]) /\ group \in GroupNames \ {"legacy"}
  BY GroupIs DEF ReadInv
<1>2. group = "orientation"
  BY <1>1, QuantitiesAre, ItemsAre, PacketAssumption DEF GroupNames, Values, Numbers, Whole
<1>3. QED
  BY <1>1, <1>2, PacketAssumption DEF Good, CoordinateSystems

(* The getters of a packet give what it was told last, whichever of its     *)
(* items hold it, and it contains a quantity if and only if it was told it: *)
(* after any setters, clears, copies, swaps and merges, and after messages  *)
(* were read and written, corrupt ones too.  In the group "legacy" packets   *)
(* are made of a legacy packet, which DataPacket does not model.            *)
THEOREM LastToldIsRead == Spec /\ group # "legacy" => []ReadAsTold
<1>1. ReadInv /\ [Next]_vars => ReadInv'
  BY ReadStep
<1>2. QED
  BY <1>1, ReadInitInv, ReadFromInv, PTL DEF Spec

(* For every quaternion and velocity of integers, every getter and in every  *)
(* coordinate system: the directions of the body's axes and the velocity    *)
(* read from a packet are those it was told last, after any setters,        *)
(* clears, copies, swaps, merges and messages.                              *)
THEOREM DirectionsKept == Spec /\ group # "legacy" => []DirectionsAsTold
<1>1. ReadInv /\ [Next]_vars => ReadInv'
  BY ReadStep
<1>2. QED
  BY <1>1, ReadInitInv, DirectionsFromInv, PTL DEF Spec
================================================================================
