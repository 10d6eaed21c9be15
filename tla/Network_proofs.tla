----------------------------- MODULE Network_proofs -----------------------------
(***************************************************************************)
(* The camera's link and the UDP transfer.  What the camera's client shows *)
(* is what its server transmitted, for any number of images, any way of    *)
(* cutting a packet into parts, any capacity of the connection and a reset *)
(* at any time.  Each UDP request is answered by one pair of programs and  *)
(* each line of them arrives once, for any number of clients and lines.    *)
(***************************************************************************)
EXTENDS CameraLink, UdpTransfer, SequenceTheorems, TLAPS
--------------------------------------------------------------------------------
(* The camera. *)

Pieces  == [image : Nat, packet : Nat, part : Nat, flag : Nat]
Packets == [1 .. Parts -> Pieces]

(* The parts of an image, counted from 0 over both packets.                 *)
W == Parts + Parts

PartOf(x, e) == IF e < Parts THEN Part(x, 1, e + 1) ELSE Part(x, 2, e - Parts + 1)

(* The place, in the stream of all parts sent, of part e of image n.        *)
Place(n, e) == (n - 1) * W + e

LEMMA PlaceStep ==
  ASSUME NEW n \in Nat, NEW e \in Int
  PROVE  /\ Place(n, e) \in Int
         /\ \A d \in Int : Place(n, e + d) = Place(n, e) + d
         /\ Place(n + 1, e) = Place(n, e) + W
<1>1. W \in Nat
  BY CameraAssumption DEF W
<1>2. (n - 1) * W \in Int
  BY <1>1
<1>3. ((n + 1) - 1) * W = (n - 1) * W + W
  BY <1>1
<1> HIDE DEF W
<1>4. QED
  BY <1>1, <1>2, <1>3 DEF Place

(* No two parts have the same place.                                        *)
LEMMA PlaceUnique ==
  ASSUME NEW n \in Nat, NEW m \in Nat, NEW e \in 0 .. W - 1, NEW f \in 0 .. W - 1,
         Place(n, e) = Place(m, f)
  PROVE  n = m /\ e = f
<1>0. W \in Nat
  BY CameraAssumption DEF W
<1>1. ASSUME NEW a \in Nat, NEW b \in Nat, NEW x \in 0 .. W - 1, NEW y \in 0 .. W - 1, a < b
      PROVE  Place(a, x) # Place(b, y)
  <2>1. PICK d \in Nat : b = a + 1 + d
    BY <1>1
  <2>2. (b - 1) * W = (a - 1) * W + W + d * W
    BY <1>0, <2>1
  <2>3. d * W >= 0 /\ d * W \in Nat /\ (a - 1) * W \in Int
    BY <1>0
  <2>4. x < W /\ y >= 0 /\ x \in Int /\ y \in Int
    BY <1>0
  <2> HIDE DEF W
  <2>5. QED
    BY <1>0, <2>2, <2>3, <2>4 DEF Place
<1>2. n = m
  BY <1>1
<1>3. QED
  BY <1>2, PlaceStep, <1>0 DEF Place

(* The part transmit sends when it has sent so many.                        *)
LEMMA SentPart ==
  ASSUME NEW x, NEW e \in 0 .. W - 1
  PROVE  Part(x, (e \div Parts) + 1, (e % Parts) + 1) = PartOf(x, e)
<1>1. Parts \in Nat \ {0} /\ e \in Nat
  BY CameraAssumption DEF W
<1>2. CASE e < Parts
  <2>1. e \div Parts = 0 /\ e % Parts = e
    BY <1>1, <1>2
  <2>2. QED
    BY <1>2, <2>1 DEF PartOf
<1>3. CASE ~(e < Parts)
  <2>1. e \div Parts = 1 /\ e % Parts = e - Parts
    BY <1>1, <1>3 DEF W
  <2>2. QED
    BY <1>3, <2>1 DEF PartOf
<1>4. QED
  BY <1>2, <1>3
--------------------------------------------------------------------------------
(* The inductive invariant.                                                 *)

CameraType ==
  /\ image \in Nat /\ part \in 0 .. W - 1
  /\ transmitted \in Seq(Nat)
  /\ link \in {"up", "error", "down"}
  /\ conn \in Seq(Pieces)
  /\ client \in {"receiving", "storing", "stopped"}
  /\ i \in 1 .. 2 /\ pos \in 0 .. Parts
  /\ data \in Packets
  /\ img \in [1 .. PackageNum -> Packets]
  /\ shown \in Seq([1 .. PackageNum -> Packets])

(* The image the client is receiving.                                       *)
Current == transmitted[Len(shown) + 1]

(* How much of the stream of parts the client has taken, and the server has *)
(* given.                                                                   *)
Before == IF i = 1 THEN 0 ELSE Parts
Taken  == Place(Len(shown) + 1, Before + pos)
Given  == IF part = 0 THEN Place(Len(transmitted) + 1, 0) ELSE Place(Len(transmitted), part)

IsAt(y, x) ==
  \E n \in 1 .. Len(transmitted), e \in 0 .. W - 1 :
    Place(n, e) = x /\ y = PartOf(transmitted[n], e)

(* The connection holds what was given and not yet taken; what breaks it    *)
(* takes all of that.                                                       *)
Flow ==
  /\ link = "up" =>
       /\ client # "stopped" /\ Taken + Len(conn) = Given
       /\ part > 0 => Len(transmitted) > 0 /\ transmitted[Len(transmitted)] = image
  /\ link # "up" => conn = <<>>
  /\ \A j \in 1 .. Len(conn) : IsAt(conn[j], Taken + j - 1)

(* The locals of receive: what it has of the current image, and that a      *)
(* packet not yet complete has no flag that could end an image.             *)
Packet ==
  /\ client = "receiving" => pos < Parts
  /\ link # "down" =>
       /\ client = "storing" => pos = Parts
       /\ pos > 0 \/ i = 2 => Len(shown) < Len(transmitted)
       /\ \A p \in 1 .. pos : data[p] = Part(Current, i, p)
       /\ pos < Parts => data[Parts].flag = i - 1
       /\ count = i - 1
       /\ i = 2 => img[1] = [p \in 1 .. Parts |-> Part(Current, 1, p)]
  /\ link = "down" /\ client = "storing" => data[Parts].flag = i - 1
  /\ returnflag = 0

CameraInv == CameraType /\ Flow /\ Packet /\ ShownAsTransmitted

LEMMA Numbers == Parts \in Nat \ {0} /\ W \in Nat /\ W = Parts + Parts /\ Parts \in 1 .. Parts /\ 1 <= W
BY CameraAssumption DEF W

LEMMA BlankType == ZeroPacket \in Packets /\ Blank \in [1 .. PackageNum -> Packets]
BY DEF ZeroPacket, Zero, Part, Blank, Packets, Pieces

LEMMA CameraInit == Init => CameraInv
<1> SUFFICES ASSUME Init PROVE CameraInv
  OBVIOUS
<1>1. CameraType
  <2>1. <<>> \in Seq(Nat) /\ <<>> \in Seq(Pieces) /\ <<>> \in Seq([1 .. PackageNum -> Packets])
    BY EmptySeq
  <2>2. part \in 0 .. W - 1 /\ pos \in 0 .. Parts
    BY Numbers DEF Init
  <2>3. QED
    BY <2>1, <2>2, BlankType DEF Init, CameraType
<1>2. Len(conn) = 0 /\ Len(shown) = 0 /\ Len(transmitted) = 0
  BY EmptySeq DEF Init
<1>3. Taken = Place(1, 0) /\ Given = Place(1, 0) /\ Place(1, 0) \in Int
  BY <1>2, PlaceStep DEF Init, Taken, Before, Given
<1>4. Flow
  BY <1>2, <1>3 DEF Init, Flow
<1>5. data[Parts].flag = 0
  BY Numbers DEF Init, ZeroPacket, Zero, Part
<1>6. Packet
  BY <1>5, Numbers DEF Init, Packet
<1>7. ShownAsTransmitted
  BY <1>2 DEF Init, ShownAsTransmitted
<1>8. QED
  BY <1>1, <1>4, <1>6, <1>7 DEF CameraInv
--------------------------------------------------------------------------------
(* The steps of the server.                                                 *)

(* A step that sends nothing: image and part may change if the connection   *)
(* is lost.                                                                 *)
LEMMA IdleKeeps ==
  ASSUME CameraInv, UNCHANGED <<transmitted, link, conn, clientVars>>,
         image' \in Nat /\ part' \in 0 .. W - 1,
         \/ UNCHANGED <<image, part>> \/ link # "up" \/ (part = 0 /\ part' = 0)
  PROVE  CameraInv'
<1> USE DEF clientVars
<1>1. CameraType'
  BY DEF CameraInv, CameraType
<1>2. \A y, x : IsAt(y, x)' <=> IsAt(y, x)
  BY DEF IsAt
<1>3. Taken' = Taken /\ (link = "up" => Given' = Given)
  BY DEF Taken, Before, Given, CameraInv
<1>4. Flow'
  BY <1>2, <1>3 DEF CameraInv, Flow
<1>5. Packet'
  BY DEF CameraInv, Packet, Current
<1>6. ShownAsTransmitted'
  BY DEF CameraInv, ShownAsTransmitted
<1>7. QED
  BY <1>1, <1>4, <1>5, <1>6 DEF CameraInv

LEMMA QuietServerKeeps == ASSUME CameraInv, Reject \/ SendFails \/ Close PROVE CameraInv'
<1>0. image \in Nat /\ part \in 0 .. W - 1 /\ 0 \in 0 .. W - 1 /\ image + 1 \in Nat
  BY Numbers DEF CameraInv, CameraType
<1>1. CASE Reject
  BY <1>0, <1>1, IdleKeeps DEF Reject, NextImage
<1>2. CASE SendFails
  <2>1. link # "up"
    BY <1>2 DEF SendFails, Connected, CameraInv, Flow
  <2>2. QED
    BY <1>0, <1>2, <2>1, IdleKeeps DEF SendFails, NextImage
<1>3. CASE Close
  BY <1>0, <1>3, IdleKeeps DEF Close
<1>4. QED
  BY <1>1, <1>2, <1>3

LEMMA TakenType == ASSUME CameraType PROVE Len(shown) \in Nat /\ Before \in Nat /\ Taken \in Int
<1>1. Len(shown) \in Nat /\ Len(shown) + 1 \in Nat
  BY DEF CameraType
<1>2. Before \in Nat /\ Before + pos \in Int
  BY Numbers DEF CameraType, Before
<1>3. QED
  BY <1>1, <1>2, PlaceStep DEF Taken

(* What is in the stream stays there when it grows.                         *)
LEMMA StreamGrows ==
  ASSUME CameraType, NEW x \in Nat, transmitted' \in {transmitted, Append(transmitted, x)}
  PROVE  /\ Len(transmitted) <= Len(transmitted)'
         /\ \A n \in 1 .. Len(transmitted) : transmitted'[n] = transmitted[n]
         /\ \A y, z : IsAt(y, z) => IsAt(y, z)'
<1>1. /\ Len(transmitted) \in Nat /\ Len(transmitted') \in Nat /\ Len(transmitted) <= Len(transmitted')
      /\ \A n \in 1 .. Len(transmitted) : transmitted'[n] = transmitted[n]
  <2>1. transmitted \in Seq(Nat) /\ Len(transmitted) \in Nat
    BY DEF CameraType
  <2>2. CASE transmitted' = Append(transmitted, x)
    BY <2>1, <2>2, AppendProperties
  <2>3. QED
    BY <2>1, <2>2
<1>2. ASSUME NEW y, NEW z, IsAt(y, z) PROVE IsAt(y, z)'
  <2>1. PICK n \in 1 .. Len(transmitted), e \in 0 .. W - 1 :
          Place(n, e) = z /\ y = PartOf(transmitted[n], e)
    BY <1>2 DEF IsAt
  <2>2. n \in 1 .. Len(transmitted') /\ transmitted'[n] = transmitted[n]
    BY <1>1
  <2>3. QED
    BY <2>1, <2>2 DEF IsAt
<1>3. QED
  BY <1>1, <1>2

LEMMA SendKeeps == ASSUME CameraInv, SendPart PROVE CameraInv'
<1>0. /\ CameraType /\ Flow /\ Packet /\ ShownAsTransmitted /\ link = "up"
      /\ UNCHANGED <<link, client, i, pos, count, data, img, returnflag, shown>>
      /\ transmitted \in Seq(Nat) /\ image \in Nat /\ part \in 0 .. W - 1
  BY DEF CameraInv, CameraType, SendPart, Connected, clientVars
<1>1. conn' = Append(conn, PartOf(image, part))
  BY <1>0, SentPart DEF SendPart
<1>2. PartOf(image, part) \in Pieces
  BY <1>0, Numbers DEF PartOf, Part, Pieces
<1>3. transmitted' = IF part = 0 THEN Append(transmitted, image) ELSE transmitted
  BY DEF SendPart
<1>4. /\ Len(transmitted) <= Len(transmitted')
      /\ \A n \in 1 .. Len(transmitted) : transmitted'[n] = transmitted[n]
      /\ \A y, z : IsAt(y, z) => IsAt(y, z)'
  BY <1>0, <1>3, StreamGrows
<1>5. /\ Len(transmitted') \in Nat \ {0} /\ transmitted'[Len(transmitted')] = image
      /\ Place(Len(transmitted'), part) = Given
      /\ transmitted' \in Seq(Nat)
  BY <1>0, <1>3 DEF Flow, Given
<1>6. /\ Given' = Given + 1 /\ Given \in Int
      /\ part' \in 0 .. W - 1 /\ image' \in Nat
      /\ part' > 0 => transmitted'[Len(transmitted')] = image'
  <2>1. CASE part + 1 = PackageNum * Parts
    <3>1. part' = 0 /\ image' = image + 1 /\ part + 1 = W
      BY <2>1, Numbers DEF SendPart, NextImage, PackageNum
    <3>2. Place(Len(transmitted') + 1, 0) = Place(Len(transmitted'), 0) + W
      BY <1>5, PlaceStep
    <3>3. /\ Place(Len(transmitted'), 0 + part) = Place(Len(transmitted'), 0) + part
          /\ Place(Len(transmitted'), 0) \in Int /\ 0 + part = part
      BY <1>0, <1>5, PlaceStep
    <3>4. Given' = Place(Len(transmitted') + 1, 0)
      BY <3>1 DEF Given
    <3>5. Given = Place(Len(transmitted'), 0) + part
      BY <1>5, <3>3
    <3>6. Given' = Given + 1 /\ Given \in Int
      BY <1>0, <3>1, <3>2, <3>3, <3>4, <3>5
    <3>7. part' \in 0 .. W - 1 /\ image' \in Nat
      BY <1>0, <3>1, Numbers
    <3>8. QED
      BY <3>1, <3>6, <3>7
  <2>2. CASE part + 1 # PackageNum * Parts
    <3>1. part' = part + 1 /\ image' = image /\ part + 1 # W
      BY <2>2, Numbers DEF SendPart, PackageNum
    <3>2. part + 1 \in 1 .. W - 1
      BY <1>0, <3>1, Numbers
    <3>3. /\ Place(Len(transmitted'), part + 1) = Place(Len(transmitted'), part) + 1
          /\ Place(Len(transmitted'), part) \in Int
      BY <1>0, <1>5, PlaceStep
    <3>4. Given' = Place(Len(transmitted'), part + 1)
      BY <3>1, <3>2 DEF Given
    <3>5. QED
      BY <1>0, <1>5, <3>1, <3>2, <3>3, <3>4
  <2>3. QED
    BY <2>1, <2>2
<1>7. CameraType'
  BY <1>0, <1>1, <1>2, <1>5, <1>6 DEF CameraType
<1>8. Taken' = Taken
  BY <1>0 DEF Taken, Before
<1>9. Flow'
  <2>1. Len(conn) \in Nat /\ Len(conn') = Len(conn) + 1 /\ conn \in Seq(Pieces)
    BY <1>0, <1>1, <1>2 DEF CameraType
  <2>2. Taken + Len(conn) = Given /\ Taken \in Int
    BY <1>0, TakenType DEF Flow
  <2>3. ASSUME NEW j \in 1 .. Len(conn') PROVE IsAt(conn[j], Taken + j - 1)'
    <3>1. CASE j \in 1 .. Len(conn)
      <4>1. conn'[j] = conn[j]
        BY <1>1, <1>2, <2>1, <3>1
      <4>2. IsAt(conn[j], Taken + j - 1)
        BY <1>0, <3>1 DEF Flow
      <4>3. \A y, z : y = conn[j] /\ z = Taken + j - 1 => IsAt(y, z)'
        BY <1>4, <4>2
      <4>4. QED
        BY <1>8, <4>1, <4>3 DEF IsAt
    <3>2. CASE j = Len(conn) + 1
      <4>1. conn'[j] = PartOf(image, part)
        BY <1>1, <1>2, <2>1, <3>2
      <4>2. Taken + j - 1 = Given
        BY <2>1, <2>2, <3>2
      <4>3. Taken' + j - 1 = Place(Len(transmitted'), part)
        BY <1>5, <1>8, <4>2
      <4>4. Len(transmitted') \in 1 .. Len(transmitted')
        BY <1>5
      <4>5. QED
        BY <1>0, <1>5, <4>1, <4>3, <4>4 DEF IsAt
    <3>3. QED
      BY <2>1, <3>1, <3>2
  <2>4. Taken' + Len(conn') = Given'
    BY <1>6, <1>8, <2>1, <2>2
  <2>5. Len(transmitted') > 0
    BY <1>5
  <2>6. client' # "stopped" /\ link' = "up"
    BY <1>0 DEF Flow
  <2>7. QED
    BY <1>6, <2>3, <2>4, <2>5, <2>6 DEF Flow
<1>10. Packet'
  <2>1. Len(shown) < Len(transmitted) => Current' = Current /\ Len(shown') < Len(transmitted')
    <3> SUFFICES ASSUME Len(shown) < Len(transmitted)
                 PROVE  Current' = Current /\ Len(shown') < Len(transmitted')
      OBVIOUS
    <3>1. Len(shown) + 1 \in 1 .. Len(transmitted)
      BY <1>0, TakenType
    <3>2. QED
      BY <1>0, <1>4, <1>5, <3>1, TakenType DEF Current
  <2>2. pos > 0 \/ i = 2 => Current' = Current /\ Len(shown') < Len(transmitted')
    BY <1>0, <2>1 DEF Packet
  <2>3. \A p \in 1 .. pos : data[p] = Part(Current, i, p)'
    <3> SUFFICES ASSUME NEW p \in 1 .. pos PROVE data[p] = Part(Current, i, p)'
      OBVIOUS
    <3>1. pos > 0
      BY <1>0 DEF CameraType
    <3>2. QED
      BY <1>0, <2>2, <3>1 DEF Packet, Part
  <2>4. i = 2 => img[1] = [p \in 1 .. Parts |-> Part(Current', 1, p)]
    BY <1>0, <2>2 DEF Packet
  <2>5. QED
    BY <1>0, <2>2, <2>3, <2>4 DEF Packet
<1>11. ShownAsTransmitted'
  <2>1. /\ Len(shown) \in Nat /\ DOMAIN shown = 1 .. Len(shown) /\ Len(transmitted) \in Nat
        /\ Len(shown) <= Len(transmitted)
    BY <1>0 DEF ShownAsTransmitted, CameraType
  <2>2. Len(shown') <= Len(transmitted')
    BY <1>0, <1>4, <1>5, <2>1
  <2>3. ASSUME NEW n \in DOMAIN shown PROVE shown[n] = Whole(transmitted'[n])
    BY <1>0, <1>4, <2>1 DEF ShownAsTransmitted
  <2>4. QED
    BY <1>0, <2>2, <2>3 DEF ShownAsTransmitted
<1>12. QED
  BY <1>7, <1>9, <1>10, <1>11 DEF CameraInv

LEMMA BreakKeeps == ASSUME CameraInv, Break PROVE CameraInv'
<1>0. /\ link = "up" /\ link' = "error" /\ conn' = <<>> /\ UNCHANGED <<serverVars, clientVars>>
  BY DEF Break, Connected
<1>1. CameraType'
  BY <1>0, EmptySeq DEF CameraInv, CameraType, serverVars, clientVars
<1>2. Flow'
  BY <1>0, EmptySeq DEF Flow
<1>3. Packet' /\ ShownAsTransmitted'
  BY <1>0 DEF CameraInv, Packet, Current, ShownAsTransmitted, serverVars, clientVars
<1>4. QED
  BY <1>1, <1>2, <1>3 DEF CameraInv
--------------------------------------------------------------------------------
(* The steps of the client.                                                 *)

LEMMA RecvKeeps == ASSUME CameraInv, NEW n \in 1 .. Parts, RecvSome(n) PROVE CameraInv'
<1>0. /\ CameraType /\ Flow /\ Packet /\ ShownAsTransmitted
      /\ client = "receiving" /\ n \in 1 .. Len(conn) /\ n <= Parts - pos /\ pos' = pos + n
      /\ data' = [p \in 1 .. Parts |-> IF p \in pos + 1 .. pos + n THEN conn[p - pos] ELSE data[p]]
      /\ conn' = SubSeq(conn, n + 1, Len(conn))
      /\ UNCHANGED <<image, part, transmitted, link, i, count, img, returnflag, shown>>
      /\ client' = IF pos' < Parts THEN "receiving" ELSE "storing"
  BY DEF CameraInv, RecvSome, Recv, serverVars
<1>1. /\ Len(conn) \in Nat /\ pos \in Nat /\ n \in Nat /\ pos + n \in 1 .. Parts /\ i \in 1 .. 2
      /\ Before \in Nat /\ Taken \in Int /\ Len(shown) \in Nat /\ conn \in Seq(Pieces)
      /\ Len(transmitted) \in Nat
  BY <1>0, TakenType, Numbers DEF CameraType
<1>2. link # "down"
  <2>1. conn # <<>>
    BY <1>0, EmptySeq
  <2>2. QED
    BY <1>0, <2>1 DEF Flow
<1>3. /\ Len(conn') = Len(conn) - n
      /\ conn' \in Seq(Pieces)
      /\ \A j \in 1 .. Len(conn) - n : conn'[j] = conn[j + n]
  <2>1. \A k \in n + 1 .. Len(conn) : conn[k] \in Pieces
    BY <1>1
  <2>2. QED
    BY <1>0, <1>1, <2>1, SubSeqProperties
<1>4. ASSUME NEW k \in 1 .. n
      PROVE  conn[k] = Part(Current, i, pos + k) /\ Len(shown) + 1 \in 1 .. Len(transmitted)
  <2>1. IsAt(conn[k], Taken + k - 1)
    BY <1>0, <1>1 DEF Flow
  <2>2. PICK m \in 1 .. Len(transmitted), e \in 0 .. W - 1 :
          Place(m, e) = Taken + k - 1 /\ conn[k] = PartOf(transmitted[m], e)
    BY <2>1 DEF IsAt
  <2>3. Before + pos + k - 1 \in 0 .. W - 1
    <3>1. W = Parts + Parts /\ Parts \in Nat /\ pos + k <= Parts /\ k >= 1 /\ k \in Nat
      BY <1>1, Numbers
    <3>2. Before \in {0, Parts}
      BY DEF Before
    <3> HIDE DEF W
    <3>3. QED
      BY <1>1, <3>1, <3>2
  <2>4. Place(Len(shown) + 1, (Before + pos) + (k - 1)) = Taken + (k - 1)
    BY <1>1, PlaceStep DEF Taken
  <2>5. Taken + (k - 1) = Taken + k - 1 /\ (Before + pos) + (k - 1) = Before + pos + k - 1
    BY <1>1
  <2>6. m = Len(shown) + 1 /\ e = Before + pos + k - 1
    BY <1>1, <2>2, <2>3, <2>4, <2>5, PlaceUnique
  <2>7. PartOf(transmitted[m], e) = Part(transmitted[m], i, pos + k)
    <3>1. /\ Parts \in Nat /\ pos + k <= Parts /\ k >= 1 /\ k \in Nat /\ pos \in Nat
          /\ i \in {1, 2} /\ e = Before + pos + k - 1 /\ m = Len(shown) + 1
      BY <1>1, <2>6, Numbers
    <3>2. CASE i = 1
      <4>1. e < Parts /\ e + 1 = pos + k
        BY <3>1, <3>2 DEF Before
      <4>2. QED
        BY <3>2, <4>1 DEF PartOf
    <3>3. CASE i = 2
      <4>1. ~(e < Parts) /\ e - Parts + 1 = pos + k
        BY <3>1, <3>3 DEF Before
      <4>2. QED
        BY <3>3, <4>1 DEF PartOf
    <3>4. QED
      BY <3>1, <3>2, <3>3
  <2>8. QED
    BY <2>2, <2>6, <2>7 DEF Current
<1>5. Len(shown) < Len(transmitted)
  <2>1. 1 \in 1 .. n
    BY <1>1
  <2>2. QED
    BY <1>1, <1>4, <2>1
<1>6. data' \in Packets
  <2>1. ASSUME NEW p \in 1 .. Parts
        PROVE  (IF p \in pos + 1 .. pos + n THEN conn[p - pos] ELSE data[p]) \in Pieces
    <3>1. p \in pos + 1 .. pos + n => p - pos \in 1 .. Len(conn)
      BY <1>0, <1>1
    <3>2. data[p] \in Pieces
      BY <1>0 DEF CameraType, Packets
    <3>3. QED
      BY <1>1, <3>1, <3>2
  <2>2. QED
    BY <1>0, <2>1 DEF Packets
<1>7. CameraType'
  BY <1>0, <1>1, <1>3, <1>6 DEF CameraType
<1>8. Taken' = Taken + n
  <2>1. Taken' = Place(Len(shown) + 1, Before + (pos + n))
    BY <1>0 DEF Taken, Before
  <2>2. Place(Len(shown) + 1, (Before + pos) + n) = Taken + n
    BY <1>1, PlaceStep DEF Taken
  <2>3. QED
    BY <1>1, <2>1, <2>2
<1>9. Flow'
  <2>1. link = "up" => Taken' + Len(conn') = Given' /\ client' # "stopped"
    <3>1. Given' = Given
      BY <1>0 DEF Given
    <3>2. ASSUME link = "up" PROVE Taken' + Len(conn') = Given'
      <4>1. Taken + Len(conn) = Given
        BY <1>0, <3>2 DEF Flow
      <4>2. QED
        BY <1>1, <1>3, <1>8, <3>1, <4>1
    <3>3. client' # "stopped"
      BY <1>0
    <3>4. QED
      BY <3>2, <3>3
  <2>2. link # "up" => FALSE
    BY <1>0, <1>1, EmptySeq DEF Flow
  <2>3. ASSUME NEW j \in 1 .. Len(conn') PROVE IsAt(conn[j], Taken + j - 1)'
    <3>1. j + n \in 1 .. Len(conn) /\ conn'[j] = conn[j + n]
      BY <1>1, <1>3
    <3>2. IsAt(conn[j + n], Taken + (j + n) - 1)
      BY <1>0, <3>1 DEF Flow
    <3>3. Taken' + j - 1 = Taken + (j + n) - 1
      BY <1>1, <1>3, <1>8
    <3>4. QED
      BY <1>0, <3>1, <3>2, <3>3 DEF IsAt
  <2>4. QED
    BY <1>0, <2>1, <2>2, <2>3 DEF Flow
<1>10. Packet'
  <2>1. Current' = Current
    BY <1>0 DEF Current
  <2>2. ASSUME NEW p \in 1 .. pos' PROVE data'[p] = Part(Current, i, p)
    <3>1. p \in 1 .. Parts /\ p \in Nat
      <4>1. pos' \in 1 .. Parts /\ Parts \in Nat
        BY <1>0, <1>1, Numbers
      <4>2. QED
        BY <4>1
    <3>2. CASE p \in pos + 1 .. pos + n
      <4>1. p - pos \in 1 .. n /\ pos + (p - pos) = p
        BY <1>1, <3>1, <3>2
      <4>2. conn[p - pos] = Part(Current, i, pos + (p - pos))
        BY <1>4, <4>1
      <4>3. QED
        BY <1>0, <3>1, <3>2, <4>1, <4>2
    <3>3. CASE p \notin pos + 1 .. pos + n
      <4>1. p \in 1 .. pos
        BY <1>0, <1>1, <3>1, <3>3
      <4>2. QED
        BY <1>0, <1>2, <3>1, <3>3, <4>1 DEF Packet
    <3>4. QED
      BY <3>2, <3>3
  <2>3. pos' < Parts => data'[Parts].flag = i - 1
    <3>1. pos' < Parts => Parts \notin pos + 1 .. pos + n /\ pos < Parts
      BY <1>0, <1>1, Numbers
    <3>2. QED
      BY <1>0, <1>2, <3>1, Numbers DEF Packet
  <2>4. client' = "storing" => pos' = Parts
    BY <1>0, <1>1, Numbers
  <2>5. i = 2 => img[1] = [p \in 1 .. Parts |-> Part(Current', 1, p)]
    BY <1>0, <1>2, <2>1 DEF Packet
  <2>6. count = i - 1 /\ returnflag = 0
    BY <1>0, <1>2 DEF Packet
  <2>7. QED
    BY <1>0, <1>2, <1>5, <2>2, <2>1, <2>3, <2>4, <2>5, <2>6 DEF Packet
<1>11. ShownAsTransmitted'
  BY <1>0 DEF ShownAsTransmitted
<1>12. QED
  BY <1>7, <1>9, <1>10, <1>11 DEF CameraInv

LEMMA ErrorKeeps == ASSUME CameraInv, RecvError PROVE CameraInv'
<1>0. /\ CameraType /\ Flow /\ Packet /\ ShownAsTransmitted
      /\ client = "receiving" /\ link = "error" /\ link' = "down" /\ client' = "storing"
      /\ UNCHANGED <<serverVars, conn, i, pos, count, data, img, returnflag, shown>>
  BY DEF CameraInv, RecvError
<1>1. CameraType'
  BY <1>0 DEF CameraType, serverVars
<1>2. Flow'
  BY <1>0, EmptySeq DEF Flow
<1>3. Packet' /\ ShownAsTransmitted'
  BY <1>0 DEF Packet, ShownAsTransmitted, serverVars
<1>4. QED
  BY <1>1, <1>2, <1>3 DEF CameraInv

(* A packet stored behind an error has no flag that ends an image: it is    *)
(* the client that ends, or it waits for ever.                              *)
LEMMA StoreBroken == ASSUME CameraInv, StorePacket, link = "down" PROVE CameraInv'
<1>0. /\ CameraType /\ Flow /\ Packet /\ ShownAsTransmitted /\ client = "storing" /\ i \in 1 .. 2
      /\ Flag = i - 1 /\ returnflag = 0 /\ conn = <<>> /\ pos' = 0
      /\ UNCHANGED <<image, part, transmitted, link, conn>>
  BY DEF CameraInv, CameraType, StorePacket, Packet, Flag, Flow, serverVars
<1>1. Flag # 2
  BY <1>0
<1>2. /\ UNCHANGED shown /\ i' \in 1 .. 2 /\ client' \in {"receiving", "stopped"} /\ returnflag' = 0
      /\ data' \in {data, ZeroPacket} /\ img' \in {[img EXCEPT ![Rows(i)] = data], Blank}
  BY <1>0, <1>1 DEF StorePacket, PackageNum
<1>3. CameraType'
  <2>1. data' \in Packets /\ img' \in [1 .. PackageNum -> Packets]
    BY <1>0, <1>2, BlankType DEF CameraType, Rows
  <2>2. 0 \in 0 .. Parts
    BY Numbers
  <2>3. QED
    BY <1>0, <1>2, <2>1, <2>2 DEF CameraType
<1>4. Flow'
  BY <1>0, EmptySeq DEF Flow
<1>5. Packet'
  BY <1>0, <1>2, Numbers DEF Packet
<1>6. ShownAsTransmitted'
  BY <1>0, <1>2 DEF ShownAsTransmitted
<1>7. QED
  BY <1>3, <1>4, <1>5, <1>6 DEF CameraInv

(* A whole packet: the first is kept, the second completes the image.       *)
LEMMA StoreWhole == ASSUME CameraInv, StorePacket, link # "down" PROVE CameraInv'
<1>0. /\ CameraType /\ Flow /\ Packet /\ ShownAsTransmitted /\ client = "storing" /\ i \in 1 .. 2
      /\ returnflag = 0 /\ pos' = 0 /\ pos = Parts /\ count = i - 1
      /\ Len(shown) < Len(transmitted) /\ data \in Packets /\ img \in [1 .. PackageNum -> Packets]
      /\ shown \in Seq([1 .. PackageNum -> Packets]) /\ transmitted \in Seq(Nat)
      /\ \A p \in 1 .. Parts : data[p] = Part(Current, i, p)
      /\ UNCHANGED <<image, part, transmitted, link, conn>>
  BY Numbers DEF CameraInv, CameraType, StorePacket, Packet, serverVars
<1>1. data = [p \in 1 .. Parts |-> Part(Current, i, p)] /\ Flag = i
  BY <1>0, Numbers DEF Packets, Flag, Part
<1>2. \A y, x : IsAt(y, x)' <=> IsAt(y, x)
  BY <1>0 DEF IsAt
<1>3. Given' = Given
  BY <1>0 DEF Given
<1>4. Taken \in Int /\ Len(shown) \in Nat /\ 0 \in 0 .. Parts
  BY <1>0, TakenType, Numbers
<1>5. ASSUME client' = "receiving", Taken' = Taken PROVE Flow'
  BY <1>0, <1>2, <1>3, <1>5 DEF Flow
<1>6. CASE i = 1
  <2>1. /\ i' = 2 /\ count' = 1 /\ img' = [img EXCEPT ![1] = data] /\ returnflag' = 0
        /\ client' = "receiving" /\ UNCHANGED <<data, shown>>
    BY <1>0, <1>1, <1>6 DEF StorePacket, PackageNum, Rows
  <2>2. Taken' = Taken
    BY <1>0, <1>6, <2>1, Numbers DEF Taken, Before
  <2>3. CameraType'
    BY <1>0, <1>4, <2>1 DEF CameraType, PackageNum
  <2>4. Packet'
    <3>1. img'[1] = data /\ data[Parts].flag = 1 /\ Current' = Current
      BY <1>0, <1>1, <1>6, <2>1 DEF PackageNum, Flag, Current
    <3>2. img'[1] = [p \in 1 .. Parts |-> Part(Current', 1, p)]
      BY <1>1, <1>6, <3>1
    <3>3. QED
      BY <1>0, <2>1, <3>1, <3>2, Numbers DEF Packet
  <2>5. ShownAsTransmitted'
    BY <1>0, <2>1 DEF ShownAsTransmitted
  <2>6. QED
    BY <1>5, <2>1, <2>2, <2>3, <2>4, <2>5 DEF CameraInv
<1>7. CASE i = 2
  <2> DEFINE rows == [img EXCEPT ![2] = data]
  <2>1. /\ i' = 1 /\ count' = 0 /\ img' = Blank /\ data' = ZeroPacket /\ returnflag' = 0
        /\ shown' = Append(shown, rows) /\ client' = "receiving"
    BY <1>0, <1>1, <1>7 DEF StorePacket, PackageNum, Rows, Complete
  <2>2. rows = Whole(Current) /\ rows \in [1 .. PackageNum -> Packets]
    <3>1. img[1] = [p \in 1 .. Parts |-> Part(Current, 1, p)]
      BY <1>0, <1>7 DEF Packet
    <3>2. rows[1] = [p \in 1 .. Parts |-> Part(Current, 1, p)] /\ rows[2] = [p \in 1 .. Parts |-> Part(Current, 2, p)]
      BY <1>0, <1>1, <1>7, <3>1 DEF PackageNum
    <3>3. rows \in [1 .. PackageNum -> Packets] /\ 1 .. PackageNum = {1, 2}
      BY <1>0 DEF PackageNum
    <3>4. Whole(Current)[1] = rows[1] /\ Whole(Current)[2] = rows[2]
      BY <3>2 DEF Whole, PackageNum
    <3>5. \A k \in 1 .. PackageNum : rows[k] = Whole(Current)[k]
      BY <3>3, <3>4
    <3>6. Whole(Current) = [k \in 1 .. PackageNum |-> Whole(Current)[k]] /\ rows = [k \in 1 .. PackageNum |-> rows[k]]
      BY <3>3 DEF Whole
    <3>7. QED
      BY <3>3, <3>5, <3>6
  <2> HIDE DEF rows
  <2>3. /\ Len(shown') = Len(shown) + 1 /\ shown'[Len(shown) + 1] = rows
        /\ \A n \in 1 .. Len(shown) : shown'[n] = shown[n]
        /\ shown' \in Seq([1 .. PackageNum -> Packets])
    BY <1>0, <2>1, <2>2, AppendProperties
  <2>4. Taken' = Taken
    <3>1. Taken' = Place((Len(shown) + 1) + 1, 0)
      BY <1>0, <2>1, <2>3 DEF Taken, Before
    <3>2. Taken = Place(Len(shown) + 1, 0 + W)
      BY <1>0, <1>7, Numbers DEF Taken, Before
    <3>3. /\ Place((Len(shown) + 1) + 1, 0) = Place(Len(shown) + 1, 0) + W
          /\ Place(Len(shown) + 1, 0 + W) = Place(Len(shown) + 1, 0) + W
      BY <1>4, Numbers, PlaceStep
    <3>4. QED
      BY <3>1, <3>2, <3>3
  <2>5. CameraType'
    BY <1>0, <1>4, <2>1, <2>3, BlankType DEF CameraType
  <2>6. Packet'
    <3>1. data'[Parts].flag = 0
      BY <2>1, Numbers DEF ZeroPacket, Zero, Part
    <3>2. QED
      BY <1>0, <2>1, <3>1, Numbers DEF Packet
  <2>7. ShownAsTransmitted'
    <3>1. Len(shown') <= Len(transmitted')
      BY <1>0, <1>4, <2>3
    <3>2. ASSUME NEW n \in DOMAIN shown' PROVE shown'[n] = Whole(transmitted[n])
      <4>1. n \in 1 .. Len(shown) + 1 /\ DOMAIN shown = 1 .. Len(shown)
        BY <1>0, <2>3
      <4>2. CASE n = Len(shown) + 1
        BY <2>2, <2>3, <4>2 DEF Current
      <4>3. CASE n \in 1 .. Len(shown)
        BY <1>0, <2>3, <4>1, <4>3 DEF ShownAsTransmitted
      <4>4. QED
        BY <1>4, <4>1, <4>2, <4>3
    <3>3. QED
      BY <1>0, <3>1, <3>2 DEF ShownAsTransmitted
  <2>8. QED
    BY <1>5, <2>1, <2>4, <2>5, <2>6, <2>7 DEF CameraInv
<1>8. QED
  BY <1>0, <1>6, <1>7
--------------------------------------------------------------------------------
LEMMA CameraKeeps == CameraInv /\ [Next]_vars => CameraInv'
<1> SUFFICES ASSUME CameraInv, [Next]_vars PROVE CameraInv'
  OBVIOUS
<1>1. CASE Server
  BY <1>1, QuietServerKeeps, SendKeeps DEF Server
<1>2. CASE Client
  <2>1. CASE RecvNothing \/ UNCHANGED vars
    BY <2>1, IdleKeeps DEF RecvNothing, vars, clientVars, CameraInv, CameraType
  <2>2. QED
    BY <1>2, <2>1, RecvKeeps, ErrorKeeps, StoreBroken, StoreWhole DEF Client
<1>3. CASE Break
  BY <1>3, BreakKeeps
<1>4. CASE UNCHANGED vars
  BY <1>4, IdleKeeps DEF vars, clientVars, CameraInv, CameraType
<1>5. QED
  BY <1>1, <1>2, <1>3, <1>4 DEF Next

LEMMA CameraInvHolds == Spec => []CameraInv
BY CameraInit, CameraKeeps, PTL DEF Spec

(* The images shown are images transmitted, whole, each from one frame, in  *)
(* order and with none left out between them.                               *)
THEOREM ShownIsTransmitted == Spec => []ShownAsTransmitted
<1>1. CameraInv => ShownAsTransmitted
  BY DEF CameraInv
<1>2. QED
  BY <1>1, CameraInvHolds, PTL
--------------------------------------------------------------------------------
(* The UDP transfer. *)

Programs  == {None, "time_out", "time_out1"}
Places    == {"none", "recv", "took", "popen", "running", "exited"}
Runs      == [client : Clients, program : Programs, by : Procs]
Datagrams == [to : Clients, from : Procs, program : Programs, line : Nat]

Serving(p) == pc[p] \in {"took", "popen", "running"}

ServerType ==
  /\ pc \in [Procs -> Places]
  /\ addr \in [Procs -> Clients \cup {None}]
  /\ \A p \in Procs : Serving(p) => addr[p] \in Clients
  /\ program \in [Procs -> Programs]
  /\ lines \in [Procs -> Nat]
  /\ runs \subseteq Runs

(* A client that has yet to be served is served by nobody, and never was.   *)
Untouched(c) ==
  /\ \A p \in Procs : Serving(p) => addr[p] # c
  /\ \A r \in runs : r.client # c

Waiting == \A c \in Clients : asker[c] = "idle" \/ c \in requests => Untouched(c)

AskedOnce ==
  /\ asker \in [Clients -> {"idle", "waiting", "streaming", "exited"}]
  /\ requests \subseteq Clients
  /\ \A c \in requests : asker[c] # "idle"

(* Whoever has taken a request is the only one who serves its client.       *)
Alone ==
  \A p \in Procs : pc[p] = "took" =>
    /\ \A q \in Procs : q # p /\ Serving(q) => addr[q] # addr[p]
    /\ \A r \in runs : r.client # addr[p]

(* Two processes that serve one client run different programs.              *)
TwoPrograms ==
  \A p, q \in Procs : p # q /\ Serving(p) /\ Serving(q) /\ addr[p] = addr[q] =>
    program[p] # program[q]

(* What a process is about to run for a client nobody has run for it yet.   *)
NotRunYet ==
  \A p \in Procs : pc[p] = "popen" =>
    \A r \in runs : r.client = addr[p] => r.program # program[p] /\ r.by # p

PairInv ==
  ServerType /\ AskedOnce /\ Waiting /\ Alone /\ TwoPrograms /\ NotRunYet /\ OnePairEach

LEMMA PairInit == UdpInit => PairInv
<1> SUFFICES ASSUME UdpInit PROVE PairInv
  OBVIOUS
<1>1. \A p \in Procs : ~Serving(p) /\ pc[p] # "took" /\ pc[p] # "popen"
  BY DEF UdpInit, Serving
<1>2. ServerType
  BY <1>1 DEF UdpInit, ServerType, Places, Programs
<1>3. QED
  BY <1>1, <1>2 DEF UdpInit, PairInv, AskedOnce, Waiting, Untouched, Alone, TwoPrograms, NotRunYet,
                    OnePairEach

LEMMA TakeKeeps == ASSUME PairInv, NEW p \in Procs, Take(p) PROVE PairInv'
<1>1. PICK c \in requests : /\ pc[p] = "recv" /\ pc' = [pc EXCEPT ![p] = "took"]
                            /\ requests' = requests \ {c} /\ addr' = [addr EXCEPT ![p] = c]
                            /\ UNCHANGED <<program, lines, runs, asker>>
  BY DEF Take, At, udpClientVars
<1>2. c \in Clients /\ asker[c] # "idle" /\ Untouched(c)
  BY DEF PairInv, AskedOnce, Waiting
<1>3. \A q \in Procs : q # p => pc'[q] = pc[q] /\ addr'[q] = addr[q] /\ (Serving(q)' <=> Serving(q))
  BY <1>1 DEF PairInv, ServerType, Serving
<1>4. pc'[p] = "took" /\ addr'[p] = c
  BY <1>1 DEF PairInv, ServerType
<1>5. ServerType'
  <2>1. pc' \in [Procs -> Places] /\ addr' \in [Procs -> Clients \cup {None}]
    BY <1>1, <1>2 DEF PairInv, ServerType, Places
  <2>2. \A q \in Procs : Serving(q)' => addr'[q] \in Clients
    BY <1>2, <1>3, <1>4 DEF PairInv, ServerType
  <2>3. QED
    BY <1>1, <2>1, <2>2 DEF PairInv, ServerType
<1>6. AskedOnce' /\ OnePairEach'
  BY <1>1 DEF PairInv, AskedOnce, OnePairEach
<1>7. Waiting'
  BY <1>1, <1>2, <1>3, <1>4 DEF PairInv, Waiting, Untouched
<1>8. Alone'
  <2> SUFFICES ASSUME NEW q \in Procs, pc'[q] = "took"
               PROVE  /\ \A o \in Procs : o # q /\ Serving(o)' => addr'[o] # addr'[q]
                      /\ \A r \in runs' : r.client # addr'[q]
    BY DEF Alone
  <2>1. CASE q = p
    BY <1>1, <1>2, <1>3, <1>4, <2>1 DEF Untouched
  <2>2. CASE q # p
    <3>1. pc[q] = "took" /\ Serving(q) /\ addr'[q] = addr[q] /\ addr[q] # c
      BY <1>2, <1>3, <2>2 DEF Serving, Untouched
    <3>2. QED
      BY <1>1, <1>3, <1>4, <2>2, <3>1 DEF PairInv, Alone
  <2>3. QED
    BY <2>1, <2>2
<1>9. TwoPrograms'
  BY <1>1, <1>2, <1>3, <1>4 DEF PairInv, TwoPrograms, Untouched
<1>10. NotRunYet'
  BY <1>1, <1>3, <1>4 DEF PairInv, NotRunYet
<1>11. QED
  BY <1>5, <1>6, <1>7, <1>8, <1>9, <1>10 DEF PairInv

LEMMA ForkKeeps == ASSUME PairInv, NEW p \in Procs, Fork(p) PROVE PairInv'
<1>1. PICK child \in Procs :
        /\ pc[child] = "none" /\ pc[p] = "took"
        /\ pc' = [pc EXCEPT ![p] = "popen", ![child] = "popen"]
        /\ addr' = [addr EXCEPT ![child] = addr[p]]
        /\ program' = [program EXCEPT ![p] = "time_out1", ![child] = "time_out"]
        /\ UNCHANGED <<lines, runs, requests, asker>>
  <2>1. Unborn \in Procs /\ pc[Unborn] = "none"
    BY DEF Fork, Unborn
  <2>2. QED
    BY <2>1 DEF Fork, ProgramOf, udpClientVars
<1>2. p # child
  BY <1>1
<1>3. \A q \in Procs : q # p /\ q # child =>
        /\ pc'[q] = pc[q] /\ addr'[q] = addr[q] /\ program'[q] = program[q]
        /\ (Serving(q)' <=> Serving(q))
  BY <1>1 DEF PairInv, ServerType, Serving
<1>4. /\ pc'[p] = "popen" /\ pc'[child] = "popen" /\ addr'[p] = addr[p] /\ addr'[child] = addr[p]
      /\ program'[p] # program'[child]
  BY <1>1, <1>2 DEF PairInv, ServerType
<1>5. /\ Serving(p) /\ \A r \in runs : r.client # addr[p]
      /\ \A q \in Procs : q # p /\ Serving(q) => addr[q] # addr[p]
  BY <1>1 DEF PairInv, Alone, Serving
<1>6. ServerType'
  <2>1. pc' \in [Procs -> Places] /\ addr' \in [Procs -> Clients \cup {None}]
        /\ program' \in [Procs -> Programs]
    BY <1>1 DEF PairInv, ServerType, Places, Programs
  <2>2. \A q \in Procs : Serving(q)' => addr'[q] \in Clients
    BY <1>3, <1>4, <1>5 DEF PairInv, ServerType
  <2>3. QED
    BY <1>1, <2>1, <2>2 DEF PairInv, ServerType
<1>7. AskedOnce' /\ OnePairEach'
  BY <1>1 DEF PairInv, AskedOnce, OnePairEach
<1>8. Waiting'
  BY <1>1, <1>3, <1>4, <1>5 DEF PairInv, Waiting, Untouched
<1>9. Alone'
  BY <1>1, <1>3, <1>4, <1>5 DEF PairInv, Alone
<1>10. TwoPrograms'
  BY <1>3, <1>4, <1>5 DEF PairInv, TwoPrograms
<1>11. NotRunYet'
  <2> SUFFICES ASSUME NEW q \in Procs, pc'[q] = "popen", NEW r \in runs, r.client = addr'[q]
               PROVE  r.program # program'[q] /\ r.by # q
    BY <1>1 DEF NotRunYet
  <2>1. q # p /\ q # child
    BY <1>4, <1>5
  <2>2. QED
    BY <1>3, <2>1 DEF PairInv, NotRunYet
<1>12. QED
  BY <1>6, <1>7, <1>8, <1>9, <1>10, <1>11 DEF PairInv

LEMMA PopenKeeps == ASSUME PairInv, NEW p \in Procs, Popen(p) PROVE PairInv'
<1> DEFINE run == [client |-> addr[p], program |-> program[p], by |-> p]
<1>1. /\ pc[p] = "popen" /\ pc' = [pc EXCEPT ![p] = "running"]
      /\ runs' = runs \cup {run} /\ UNCHANGED <<addr, program, lines, requests, asker>>
  BY DEF Popen, At, udpClientVars
<1>2. \A q \in Procs : /\ q # p => pc'[q] = pc[q]
                       /\ Serving(q)' <=> Serving(q)
  BY <1>1 DEF PairInv, ServerType, Serving
<1>3. Serving(p) /\ pc'[p] = "running" /\ run \in Runs
  BY <1>1 DEF PairInv, ServerType, Serving, Runs
<1>4. run.client = addr[p] /\ run.program = program[p] /\ run.by = p
  OBVIOUS
<1> HIDE DEF run
<1>5. ServerType'
  BY <1>1, <1>2, <1>3 DEF PairInv, ServerType, Places
<1>6. AskedOnce'
  BY <1>1 DEF PairInv, AskedOnce
<1>7. Waiting'
  BY <1>1, <1>2, <1>3, <1>4 DEF PairInv, Waiting, Untouched
<1>8. Alone'
  BY <1>1, <1>2, <1>3, <1>4 DEF PairInv, Alone
<1>9. TwoPrograms'
  BY <1>1, <1>2 DEF PairInv, TwoPrograms
<1>10. NotRunYet'
  <2> SUFFICES ASSUME NEW q \in Procs, pc'[q] = "popen", NEW r \in runs', r.client = addr'[q]
               PROVE  r.program # program'[q] /\ r.by # q
    BY DEF NotRunYet
  <2>1. q # p /\ pc[q] = "popen" /\ Serving(q)
    BY <1>2, <1>3 DEF Serving
  <2>2. CASE r \in runs
    BY <1>1, <2>1, <2>2 DEF PairInv, NotRunYet
  <2>3. CASE r = run
    BY <1>1, <1>3, <1>4, <2>1, <2>3 DEF PairInv, TwoPrograms
  <2>4. QED
    BY <1>1, <2>2, <2>3
<1>11. OnePairEach'
  BY <1>1, <1>4 DEF PairInv, NotRunYet, OnePairEach
<1>12. QED
  BY <1>5, <1>6, <1>7, <1>8, <1>9, <1>10, <1>11 DEF PairInv

(* A process that no longer serves, or only sends a line.                   *)
LEMMA FewerServe ==
  ASSUME PairInv, NEW p \in Procs, NEW to \in {"recv", "exited", pc[p]},
         pc' = [pc EXCEPT ![p] = to], lines' \in [Procs -> Nat],
         UNCHANGED <<addr, program, runs, requests, asker>>
  PROVE  PairInv'
<1>1. \A q \in Procs : (Serving(q)' => Serving(q)) /\ (pc'[q] = "took" => pc[q] = "took")
                       /\ (pc'[q] = "popen" => pc[q] = "popen")
  BY DEF PairInv, ServerType, Serving
<1>2. ServerType'
  BY <1>1 DEF PairInv, ServerType, Places
<1>3. AskedOnce' /\ OnePairEach'
  BY DEF PairInv, AskedOnce, OnePairEach
<1>4. Waiting' /\ Alone' /\ TwoPrograms' /\ NotRunYet'
  BY <1>1 DEF PairInv, Waiting, Untouched, Alone, TwoPrograms, NotRunYet
<1>5. QED
  BY <1>2, <1>3, <1>4 DEF PairInv

(* A step of a client or of the network.                                    *)
LEMMA OutsideKeeps ==
  ASSUME PairInv, UNCHANGED udpServerVars,
         asker' \in [Clients -> {"idle", "waiting", "streaming", "exited"}],
         requests' \subseteq Clients, \A c \in requests' : asker'[c] # "idle",
         \A c \in Clients : asker'[c] = "idle" \/ c \in requests' =>
                              asker[c] = "idle" \/ c \in requests
  PROVE  PairInv'
BY DEF PairInv, udpServerVars, ServerType, Serving, AskedOnce, Waiting, Untouched, Alone, TwoPrograms,
       NotRunYet, OnePairEach

LEMMA PairKeeps == PairInv /\ [UdpNext]_udpVars => PairInv'
<1> SUFFICES ASSUME PairInv, [UdpNext]_udpVars PROVE PairInv'
  OBVIOUS
<1>0. /\ requests \subseteq Clients /\ \A c \in requests : asker[c] # "idle"
      /\ asker \in [Clients -> {"idle", "waiting", "streaming", "exited"}]
      /\ pc \in [Procs -> Places] /\ lines \in [Procs -> Nat]
  BY DEF PairInv, AskedOnce, ServerType
<1>1. ASSUME NEW p \in Procs, Serve(p) PROVE PairInv'
  <2>1. CASE Exit(p) \/ PopenFails(p)
    BY <1>0, <2>1, FewerServe DEF Exit, PopenFails, At, udpClientVars
  <2>2. QED
    BY <1>1, <2>1, TakeKeeps, ForkKeeps, PopenKeeps DEF Serve
<1>2. ASSUME NEW p \in Procs, SendLine(p) \/ EndProgram(p) PROVE PairInv'
  <2>1. /\ UNCHANGED <<addr, program, runs, requests, asker>> /\ lines' \in [Procs -> Nat]
        /\ pc' = [pc EXCEPT ![p] = pc[p]] \/ pc' = [pc EXCEPT ![p] = "recv"]
    BY <1>0, <1>2 DEF SendLine, EndProgram, At, udpClientVars
  <2>2. QED
    BY <2>1, FewerServe
<1>3. ASSUME NEW c \in Clients, Ask(c) \/ Save(c) \/ Alarm(c) PROVE PairInv'
  BY <1>0, <1>3, OutsideKeeps DEF Ask, Save, Alarm, Receiving
<1>4. CASE Lose \/ UNCHANGED udpVars
  BY <1>0, <1>4, OutsideKeeps DEF Lose, udpVars, udpClientVars, udpServerVars
<1>5. QED
  BY <1>1, <1>2, <1>3, <1>4 DEF UdpNext

LEMMA PairInvHolds == UdpSpec => []PairInv
<1>1. PairInv /\ [UdpNext]_udpVars => PairInv'
  BY PairKeeps
<1>2. QED
  BY <1>1, PairInit, PTL DEF UdpSpec

(* For each request either program is run at most once, by two processes.   *)
THEOREM OnePairForEach == UdpSpec => []OnePairEach
<1>1. PairInv => OnePairEach
  BY DEF PairInv
<1>2. QED
  BY <1>1, PairInvHolds, PTL
--------------------------------------------------------------------------------
(* The lines.                                                               *)

(* d was sent to a client, and not lost.                                    *)
Sent(d) == d \in net \/ \E c \in Clients : \E m \in DOMAIN saved[c] : saved[c][m] = d

NetType ==
  /\ net \subseteq Datagrams
  /\ saved \in [Clients -> Seq(Datagrams)]

(* A process is at the line after those it has sent, of its own run.        *)
LinesOfRun ==
  \A p \in Procs :
    IF pc[p] = "running"
    THEN [client |-> addr[p], program |-> program[p], by |-> p] \in runs
    ELSE lines[p] = 0

(* A datagram was sent for a request that was taken, and a line by a run;   *)
(* of the process that still serves this client it is one of the lines sent.*)
SentBefore(d) ==
  /\ d.line > 0 => [client |-> d.to, program |-> d.program, by |-> d.from] \in runs
  /\ asker[d.to] # "idle" /\ d.to \notin requests
  /\ \A p \in Procs : Serving(p) /\ addr[p] = d.to =>
       /\ pc[p] # "took"
       /\ d.from = p => pc[p] = "running" /\ d.line <= lines[p]

AllSentBefore == \A d \in Datagrams : Sent(d) => SentBefore(d)

(* No datagram is there twice.                                              *)
EachOnce ==
  \A c \in Clients : \A m \in DOMAIN saved[c] :
    /\ saved[c][m].to = c /\ saved[c][m] \notin net
    /\ \A j \in DOMAIN saved[c] : m # j => saved[c][m] # saved[c][j]

LineInv == PairInv /\ NetType /\ LinesOfRun /\ AllSentBefore /\ EachOnce

LEMMA LineInit == UdpInit => LineInv
<1> SUFFICES ASSUME UdpInit PROVE LineInv
  OBVIOUS
<1>1. PairInv
  BY PairInit
<1>2. NetType /\ LinesOfRun /\ EachOnce
  BY DEF UdpInit, NetType, LinesOfRun, EachOnce
<1>3. AllSentBefore
  BY DEF UdpInit, AllSentBefore, Sent
<1>4. QED
  BY <1>1, <1>2, <1>3 DEF LineInv

(* A step that sends nothing, and after which whoever serves a client of a  *)
(* datagram did so before.                                                  *)
LEMMA NothingSent ==
  ASSUME LineInv, UNCHANGED saved, net' \subseteq net, runs \subseteq runs', LinesOfRun',
         \A c \in Clients : asker[c] # "idle" => asker'[c] # "idle",
         \A c \in Clients : c \in requests' => c \in requests \/ asker[c] = "idle",
         \A p \in Procs : Serving(p)' =>
           \/ Serving(p) /\ addr'[p] = addr[p] /\ lines'[p] >= lines[p]
              /\ (pc'[p] = pc[p] \/ pc'[p] = "running")
           \/ addr'[p] \in requests
           \/ \E q \in Procs : pc[q] = "took" /\ addr'[p] = addr[q],
         \A p \in Procs : lines[p] \in Int /\ lines'[p] \in Int
  PROVE  NetType' /\ AllSentBefore' /\ EachOnce'
<1>1. NetType' /\ EachOnce'
  BY DEF LineInv, NetType, EachOnce
<1>2. ASSUME NEW d \in Datagrams, Sent(d)' PROVE SentBefore(d)'
  <2>1. SentBefore(d) /\ d.to \in Clients /\ d.line \in Int
    BY <1>2 DEF LineInv, AllSentBefore, Sent, Datagrams
  <2>2. ASSUME NEW p \in Procs, Serving(p)', addr'[p] = d.to
        PROVE  pc'[p] # "took" /\ (d.from = p => pc'[p] = "running" /\ d.line <= lines'[p])
    <3>1. addr'[p] \notin requests
      BY <2>1, <2>2 DEF SentBefore
    <3>2. ASSUME NEW q \in Procs, pc[q] = "took", addr'[p] = addr[q] PROVE FALSE
      BY <2>1, <2>2, <3>2 DEF SentBefore, Serving
    <3>3. Serving(p) /\ addr[p] = d.to /\ lines'[p] >= lines[p]
          /\ (pc'[p] = pc[p] \/ pc'[p] = "running")
      BY <2>2, <3>1, <3>2
    <3>4. QED
      BY <2>1, <3>3 DEF SentBefore
  <2>3. QED
    BY <2>1, <2>2 DEF SentBefore
<1>3. QED
  BY <1>1, <1>2 DEF AllSentBefore

(* A process sends a line it has not sent before, or that it runs nothing.  *)
LEMMA DatagramSent ==
  ASSUME LineInv, PairInv', LinesOfRun', NEW p \in Procs, Serving(p),
         NEW n \in Nat, net' = net \cup {Line(p, n)},
         pc[p] = "running" => n > lines[p] /\ pc'[p] = "running" /\ lines'[p] = n,
         pc[p] # "running" => n = 0 /\ ~Serving(p)',
         \A q \in Procs : q # p => pc'[q] = pc[q] /\ lines'[q] = lines[q],
         pc[p] # "took",
         UNCHANGED <<addr, program, runs, requests, asker, saved>>
  PROVE  NetType' /\ AllSentBefore' /\ EachOnce'
<1>0. PICK new : new = Line(p, n)
  OBVIOUS
<1>1. /\ new \in Datagrams /\ new.to = addr[p] /\ new.from = p /\ new.program = program[p]
      /\ new.line = n /\ addr[p] \in Clients
  BY <1>0 DEF LineInv, PairInv, ServerType, Line, Datagrams
<1>2. asker[addr[p]] # "idle" /\ addr[p] \notin requests
  BY <1>1 DEF LineInv, PairInv, Waiting, Untouched
<1>3. \A q \in Procs : pc[q] = "took" => addr[q] # addr[p]
  BY DEF LineInv, PairInv, Alone
<1>4. ~Sent(new)
  <2>1. SUFFICES ASSUME Sent(new) PROVE FALSE
    OBVIOUS
  <2>2. pc[p] = "running" /\ n <= lines[p] /\ lines[p] \in Nat
    BY <1>1, <2>1 DEF LineInv, AllSentBefore, SentBefore, PairInv, ServerType
  <2>3. QED
    BY <2>2
<1>5. net' = net \cup {new}
  BY <1>0
<1>6. NetType' /\ EachOnce'
  BY <1>1, <1>4, <1>5 DEF LineInv, NetType, EachOnce, Sent
<1>7. \A q \in Procs : (Serving(q)' => Serving(q)) /\ (pc'[q] = "took" => pc[q] = "took")
                       /\ (Serving(q)' => pc'[q] = pc[q])
  BY DEF Serving
<1>8. SentBefore(new)'
  <2>1. n > 0 => pc[p] = "running" /\ [client |-> addr[p], program |-> program[p], by |-> p] \in runs
    BY DEF LineInv, LinesOfRun
  <2>2. \A q \in Procs : Serving(q)' /\ new.from = q => pc'[q] = "running" /\ n <= lines'[q]
    BY <1>1
  <2>3. QED
    BY <1>1, <1>2, <1>3, <1>7, <2>1, <2>2 DEF SentBefore
<1>9. ASSUME NEW d \in Datagrams, Sent(d) PROVE SentBefore(d)'
  <2>1. SentBefore(d) /\ d.line \in Nat
    BY <1>9 DEF LineInv, AllSentBefore, Datagrams
  <2>2. \A q \in Procs : Serving(q)' => lines'[q] >= lines[q]
    BY DEF LineInv, PairInv, ServerType
  <2>3. \A q \in Procs : lines[q] \in Nat /\ lines'[q] \in Nat
    BY DEF LineInv, PairInv, ServerType
  <2>4. QED
    BY <1>7, <2>1, <2>2, <2>3 DEF SentBefore
<1>10. \A d : Sent(d)' => d = new \/ Sent(d)
  BY <1>5 DEF Sent
<1>11. QED
  BY <1>6, <1>8, <1>9, <1>10 DEF AllSentBefore

LEMMA SaveKeeps == ASSUME LineInv, NEW c \in Clients, Save(c)
                   PROVE  NetType' /\ LinesOfRun' /\ AllSentBefore' /\ EachOnce'
<1>1. PICK d \in net : /\ d.to = c /\ net' = net \ {d} /\ saved' = [saved EXCEPT ![c] = Append(@, d)]
                       /\ asker' = [asker EXCEPT ![c] = "streaming"]
                       /\ UNCHANGED <<pc, addr, program, lines, runs, requests>>
  BY DEF Save, udpServerVars
<1>2. d \in Datagrams /\ saved[c] \in Seq(Datagrams) /\ asker \in [Clients -> {"idle", "waiting", "streaming", "exited"}]
  BY DEF LineInv, NetType, PairInv, AskedOnce
<1>3. /\ saved' \in [Clients -> Seq(Datagrams)]
      /\ \A b \in Clients : b # c => saved'[b] = saved[b]
      /\ saved'[c] = Append(saved[c], d)
  BY <1>1, <1>2 DEF LineInv, NetType
<1>4. /\ DOMAIN saved'[c] = 1 .. Len(saved[c]) + 1 /\ DOMAIN saved[c] = 1 .. Len(saved[c])
      /\ Len(saved[c]) \in Nat
      /\ \A m \in 1 .. Len(saved[c]) : saved'[c][m] = saved[c][m]
      /\ saved'[c][Len(saved[c]) + 1] = d
  BY <1>2, <1>3
<1>5. NetType' /\ LinesOfRun'
  BY <1>1, <1>3 DEF LineInv, NetType, LinesOfRun
<1>6. \A e : Sent(e)' => Sent(e)
  <2> SUFFICES ASSUME NEW e, NEW b \in Clients, NEW m \in DOMAIN saved'[b], saved'[b][m] = e
               PROVE  Sent(e)
    BY <1>1 DEF Sent
  <2>1. CASE b = c
    BY <1>1, <1>4, <2>1 DEF Sent
  <2>2. QED
    BY <1>3, <2>1 DEF Sent
<1>7. AllSentBefore'
  BY <1>1, <1>2, <1>6 DEF LineInv, AllSentBefore, SentBefore, Serving, Datagrams
<1>8. EachOnce'
  <2> SUFFICES ASSUME NEW b \in Clients, NEW m \in DOMAIN saved'[b]
               PROVE  /\ saved'[b][m].to = b /\ saved'[b][m] \notin net'
                      /\ \A j \in DOMAIN saved'[b] : m # j => saved'[b][m] # saved'[b][j]
    BY DEF EachOnce
  <2>1. CASE b # c
    BY <1>1, <1>3, <2>1 DEF LineInv, EachOnce
  <2>2. CASE b = c
    <3>1. \A k \in 1 .. Len(saved[c]) : saved[c][k] # d
      BY <1>4 DEF LineInv, EachOnce
    <3>2. CASE m = Len(saved[c]) + 1
      BY <1>1, <1>4, <2>2, <3>1, <3>2
    <3>3. CASE m \in 1 .. Len(saved[c])
      BY <1>1, <1>4, <2>2, <3>1, <3>3 DEF LineInv, EachOnce
    <3>4. QED
      BY <1>4, <2>2, <3>2, <3>3
  <2>3. QED
    BY <2>1, <2>2
<1>9. QED
  BY <1>5, <1>7, <1>8

LEMMA ProcessKeeps == ASSUME LineInv, PairInv', NEW p \in Procs, Serve(p) \/ SendLine(p) \/ EndProgram(p)
                      PROVE  LineInv'
<1>0. /\ pc \in [Procs -> Places] /\ addr \in [Procs -> Clients \cup {None}]
      /\ lines \in [Procs -> Nat] /\ lines' \in [Procs -> Nat] /\ requests \subseteq Clients
  BY DEF LineInv, PairInv, ServerType, AskedOnce
<1>1. CASE Take(p)
  <2>1. PICK c \in requests : /\ pc[p] = "recv" /\ pc' = [pc EXCEPT ![p] = "took"]
                            /\ requests' = requests \ {c} /\ addr' = [addr EXCEPT ![p] = c]
                            /\ UNCHANGED <<program, lines, runs, net, asker, saved>>
    BY <1>1 DEF Take, At, udpClientVars
  <2>2. LinesOfRun'
    BY <1>0, <2>1 DEF LineInv, LinesOfRun
  <2>3. \A q \in Procs : Serving(q)' =>
          \/ Serving(q) /\ addr'[q] = addr[q] /\ pc'[q] = pc[q]
          \/ addr'[q] \in requests
    BY <1>0, <2>1 DEF Serving
  <2>4. QED
    BY <1>0, <2>1, <2>2, <2>3, NothingSent DEF LineInv
<1>2. CASE Fork(p)
  <2>1. PICK child \in Procs :
          /\ pc[child] = "none" /\ pc[p] = "took"
          /\ pc' = [pc EXCEPT ![p] = "popen", ![child] = "popen"]
          /\ addr' = [addr EXCEPT ![child] = addr[p]]
          /\ program' = [program EXCEPT ![p] = "time_out1", ![child] = "time_out"]
          /\ UNCHANGED <<lines, runs, requests, net, asker, saved>>
    <3>1. Unborn \in Procs /\ pc[Unborn] = "none"
      BY <1>2 DEF Fork, Unborn
    <3>2. QED
      BY <1>2, <3>1 DEF Fork, ProgramOf, udpClientVars
  <2>2. LinesOfRun'
    BY <1>0, <2>1 DEF LineInv, LinesOfRun, PairInv, ServerType
  <2>3. \A q \in Procs : Serving(q)' =>
          \/ Serving(q) /\ addr'[q] = addr[q] /\ pc'[q] = pc[q]
          \/ addr'[q] = addr[p]
    BY <1>0, <2>1 DEF Serving
  <2>4. QED
    BY <1>0, <2>1, <2>2, <2>3, NothingSent DEF LineInv
<1>3. CASE Exit(p) \/ EndProgram(p)
  <2>1. /\ \E to \in {"exited", "recv"} : pc' = [pc EXCEPT ![p] = to]
        /\ lines' \in {lines, [lines EXCEPT ![p] = 0]}
        /\ pc[p] = "running" => lines'[p] = 0
        /\ UNCHANGED <<addr, program, runs, requests, net, asker, saved>>
    BY <1>0, <1>3 DEF Exit, EndProgram, At, udpClientVars
  <2>2. LinesOfRun'
    BY <1>0, <2>1 DEF LineInv, LinesOfRun
  <2>3. \A q \in Procs : Serving(q)' => Serving(q) /\ pc'[q] = pc[q] /\ lines'[q] = lines[q]
    BY <1>0, <2>1 DEF Serving
  <2>4. QED
    BY <1>0, <2>1, <2>2, <2>3, NothingSent DEF LineInv
<1>4. CASE Popen(p)
  <2>1. /\ pc[p] = "popen" /\ pc' = [pc EXCEPT ![p] = "running"]
        /\ runs' = runs \cup {[client |-> addr[p], program |-> program[p], by |-> p]}
        /\ UNCHANGED <<addr, program, lines, requests, net, asker, saved>>
    BY <1>4 DEF Popen, At, udpClientVars
  <2>2. LinesOfRun'
    BY <1>0, <2>1 DEF LineInv, LinesOfRun
  <2>3. \A q \in Procs : Serving(q)' =>
          Serving(q) /\ (pc'[q] = pc[q] \/ pc'[q] = "running")
    BY <1>0, <2>1 DEF Serving
  <2>4. QED
    BY <1>0, <2>1, <2>2, <2>3, NothingSent DEF LineInv
<1>5. CASE PopenFails(p)
  <2>1. /\ pc[p] = "popen" /\ pc' = [pc EXCEPT ![p] = "recv"] /\ net' = net \cup {Line(p, 0)}
        /\ UNCHANGED <<addr, program, lines, runs, requests, asker, saved>>
    BY <1>5 DEF PopenFails, At, udpClientVars
  <2>2. LinesOfRun'
    BY <1>0, <2>1 DEF LineInv, LinesOfRun
  <2>3. Serving(p) /\ ~Serving(p)'
    BY <1>0, <2>1 DEF Serving
  <2>4. QED
    BY <1>0, <2>1, <2>2, <2>3, DatagramSent DEF LineInv
<1>6. CASE SendLine(p)
  <2>1. /\ pc[p] = "running" /\ pc' = pc /\ lines' = [lines EXCEPT ![p] = @ + 1]
        /\ net' = net \cup {Line(p, lines[p] + 1)}
        /\ UNCHANGED <<addr, program, runs, requests, asker, saved>>
    BY <1>6 DEF SendLine, udpClientVars
  <2>2. LinesOfRun'
    BY <1>0, <2>1 DEF LineInv, LinesOfRun
  <2>3. Serving(p) /\ lines[p] + 1 \in Nat /\ lines[p] + 1 > lines[p]
        /\ lines'[p] = lines[p] + 1
    BY <1>0, <2>1 DEF Serving
  <2>4. QED
    BY <1>0, <2>1, <2>2, <2>3, DatagramSent DEF LineInv
<1>7. QED
  BY <1>1, <1>2, <1>3, <1>4, <1>5, <1>6 DEF Serve

LEMMA LineKeeps == LineInv /\ [UdpNext]_udpVars => LineInv'
<1> SUFFICES ASSUME LineInv, [UdpNext]_udpVars PROVE LineInv'
  OBVIOUS
<1>0. PairInv' /\ \A p \in Procs : lines[p] \in Int
  BY PairKeeps DEF LineInv, PairInv, ServerType
<1>1. CASE \E p \in Procs : Serve(p) \/ SendLine(p) \/ EndProgram(p)
  BY <1>0, <1>1, ProcessKeeps
<1>2. ASSUME NEW c \in Clients, Save(c) PROVE LineInv'
  BY <1>0, <1>2, SaveKeeps DEF LineInv
<1>3. ASSUME UNCHANGED <<udpServerVars, saved>>, net' \subseteq net,
             \A c \in Clients : asker[c] # "idle" => asker'[c] # "idle",
             \A c \in Clients : c \in requests' => c \in requests \/ asker[c] = "idle"
      PROVE  LineInv'
  <2>1. LinesOfRun' /\ \A p \in Procs : (Serving(p)' <=> Serving(p))
    BY <1>3 DEF LineInv, LinesOfRun, Serving, udpServerVars
  <2>2. QED
    BY <1>0, <1>3, <2>1, NothingSent DEF LineInv, udpServerVars
<1>4. ASSUME NEW c \in Clients, Ask(c) \/ Alarm(c) PROVE LineInv'
  <2>1. asker \in [Clients -> {"idle", "waiting", "streaming", "exited"}]
    BY DEF LineInv, PairInv, AskedOnce
  <2>2. QED
    BY <1>3, <1>4, <2>1 DEF Ask, Alarm
<1>5. CASE Lose \/ UNCHANGED udpVars
  BY <1>3, <1>5 DEF Lose, udpVars, udpClientVars, udpServerVars
<1>6. QED
  BY <1>1, <1>2, <1>4, <1>5 DEF UdpNext

(* A client gets only lines of the programs run for its request, and no     *)
(* line twice.                                                              *)
THEOREM LinesAreOwn == UdpSpec => []OwnLines
<1>1. LineInv => OwnLines
  <2> SUFFICES ASSUME LineInv, NEW c \in Clients, NEW m \in DOMAIN saved[c], NEW j \in DOMAIN saved[c]
               PROVE  /\ saved[c][m].line > 0 =>
                           [client |-> c, program |-> saved[c][m].program,
                            by |-> saved[c][m].from] \in runs
                      /\ m # j => saved[c][m] # saved[c][j]
    BY DEF OwnLines
  <2>1. saved[c][m] \in Datagrams /\ Sent(saved[c][m])
    BY DEF LineInv, NetType, Sent
  <2>2. SentBefore(saved[c][m]) /\ saved[c][m].to = c
    BY <2>1 DEF LineInv, AllSentBefore, EachOnce
  <2>3. QED
    BY <2>2 DEF LineInv, EachOnce, SentBefore
<1>2. LineInv /\ [UdpNext]_udpVars => LineInv'
  BY LineKeeps
<1>3. QED
  BY <1>1, <1>2, LineInit, PTL DEF UdpSpec
================================================================================
