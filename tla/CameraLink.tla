------------------------------- MODULE CameraLink -------------------------------
(***************************************************************************)
(* The camera's server (transmit and its main) and client (receive and its *)
(* main): an image goes out as two packets, each a row block and a flag,   *)
(* over a TCP connection that cuts them anywhere.  A packet is a number of *)
(* parts, the flag in the last one; the connection and the frames the      *)
(* camera gives are external.                                              *)
(***************************************************************************)
EXTENDS Integers, Sequences

CONSTANTS
  Images,     \* EXPECTED_IMAGES of the server's main
  Parts,      \* how many parts the connection may cut a packet into
  Capacity,   \* how many parts the connection holds
  MayBreak    \* whether the connection may be reset

ASSUME CameraAssumption ==
  /\ Images \in Nat /\ Parts \in Nat \ {0} /\ Capacity \in Nat \ {0}
  /\ MayBreak \in BOOLEAN

PackageNum == 2   \* PACKAGE_NUM

VARIABLES
  server,      \* "sending", "closed" behind its main loop, "killed" by SIGPIPE
  image,       \* the frame transmit is at
  part,        \* how many parts of it have been sent
  transmitted, \* history: the frames transmit has sent something of
  link,        \* "up", "error" when a reset waits to be reported, "down"
  conn,        \* the parts in the connection
  client,      \* "receiving", "storing" a packet, "stopped"
  i, pos, count, data, img, returnflag,   \* the locals of receive, i from 1
  shown        \* the images shown

serverVars == <<server, image, part, transmitted>>
clientVars == <<client, i, pos, count, data, img, returnflag, shown>>
vars == <<server, image, part, transmitted, link, conn,
          client, i, pos, count, data, img, returnflag, shown>>

\* Part n of packet k of an image, and the flag transmit gives the packet.
Part(x, k, n) == [image |-> x, packet |-> k, part |-> n, flag |-> k]
Zero          == Part(0, 0, 0)
ZeroPacket    == [n \in 1 .. Parts |-> Zero]
Blank         == [k \in 1 .. PackageNum |-> ZeroPacket]
Whole(x)      == [k \in 1 .. PackageNum |-> [n \in 1 .. Parts |-> Part(x, k, n)]]

Init ==
  /\ server = "sending"
  /\ image = 1
  /\ part = 0
  /\ transmitted = <<>>
  /\ link = "up"
  /\ conn = <<>>
  /\ client = "receiving"
  /\ i = 1
  /\ pos = 0
  /\ count = 0
  /\ data = ZeroPacket
  /\ img = Blank
  /\ returnflag = 0
  /\ shown = <<>>
--------------------------------------------------------------------------------
(* The server. *)

NextImage == image' = image + 1 /\ part' = 0

Sending == server = "sending" /\ image <= Images

\* The frame is empty, or not of the size and type expected.
Reject ==
  /\ Sending
  /\ part = 0
  /\ NextImage
  /\ UNCHANGED <<server, transmitted, link, conn, clientVars>>

Connected == link = "up" /\ client # "stopped"

\* send blocks while the connection is full.
SendPart ==
  /\ Sending
  /\ Connected
  /\ Len(conn) < Capacity
  /\ conn' = Append(conn, Part(image, (part \div Parts) + 1, (part % Parts) + 1))
  /\ transmitted' = IF part = 0 THEN Append(transmitted, image) ELSE transmitted
  /\ IF part + 1 = PackageNum * Parts THEN NextImage
     ELSE part' = part + 1 /\ UNCHANGED image
  /\ UNCHANGED <<server, link, clientVars>>

\* The peer is gone: transmit returns -1, which main does not look at, or the
\* process is killed by the signal send raises.
SendFails ==
  /\ Sending
  /\ ~Connected
  /\ \/ NextImage /\ UNCHANGED server
     \/ server' = "killed" /\ UNCHANGED <<image, part>>
  /\ UNCHANGED <<transmitted, link, conn, clientVars>>

\* Behind the last frame, or when the camera throws instead of giving one.
Close ==
  /\ server = "sending"
  /\ part = 0
  /\ server' = "closed"
  /\ UNCHANGED <<image, part, transmitted, link, conn, clientVars>>

Break ==
  /\ MayBreak
  /\ Connected
  /\ link' = "error"
  /\ conn' = <<>>
  /\ UNCHANGED <<serverVars, clientVars>>
--------------------------------------------------------------------------------
(* The client. *)

AtMost(n, m) == IF n < m THEN n ELSE m

Recv(n) ==
  /\ client = "receiving"
  /\ n \in 1 .. Len(conn)
  /\ data' = [p \in 1 .. Parts |-> IF p \in pos + 1 .. pos + n THEN conn[p - pos] ELSE data[p]]
  /\ pos' = pos + n
  /\ conn' = SubSeq(conn, n + 1, Len(conn))
  /\ UNCHANGED <<serverVars, link, i, count, img, returnflag, shown>>

\* recv returns n parts, at most those the packet still lacks.
RecvSome(n) ==
  /\ n <= Parts - pos
  /\ Recv(n)
  /\ client' = IF pos' < Parts THEN "receiving" ELSE "storing"

\* recv returns -1, once: the loop is left with what data holds.
RecvError ==
  /\ client = "receiving"
  /\ link = "error"
  /\ link' = "down"
  /\ client' = "storing"
  /\ UNCHANGED <<serverVars, conn, i, pos, count, data, img, returnflag, shown>>

\* The peer has closed: recv returns 0, pos does not move, the loop goes round.
RecvNothing ==
  /\ client = "receiving"
  /\ conn = <<>>
  /\ link = "down" \/ (link = "up" /\ server # "sending")
  /\ UNCHANGED vars

\* mutated: every packet goes to the first rows
RowsFirst(k) == 1

\* Where the rows of a packet go in the image.
Rows(k) == k

\* mutated: compared with the number of packets
CompleteAtTwo(c) == c = PackageNum

\* The flags of an image add up to three.
Complete(c) == c = PackageNum + 1

Flag == data[Parts].flag

\* The packet is row block i; the second flag ends an image or starts afresh.
\* After a reset of i to 0 the loop's increment makes it the second packet's.
StorePacket ==
  /\ client = "storing"
  /\ LET c     == count + Flag
         rows  == [img EXCEPT ![Rows(i)] = data]
         whole == Flag = 2 /\ Complete(c)
         at    == IF Flag = 2 /\ ~Complete(c) THEN 1 ELSE i
         flag  == IF whole THEN 1 ELSE returnflag
     IN IF at < PackageNum
        THEN /\ i' = at + 1
             /\ count' = IF Flag = 2 THEN 0 ELSE c
             /\ img' = rows
             /\ returnflag' = flag
             /\ client' = "receiving"
             /\ UNCHANGED <<data, shown>>
        ELSE /\ i' = 1
             /\ count' = 0
             /\ img' = Blank
             /\ data' = ZeroPacket
             /\ returnflag' = 0
             /\ shown' = IF flag = 1 THEN Append(shown, rows) ELSE shown
             /\ client' = IF flag = 1 THEN "receiving" ELSE "stopped"
  /\ pos' = 0
  /\ UNCHANGED <<serverVars, link, conn>>
--------------------------------------------------------------------------------
Client ==
  \/ \E n \in 1 .. Parts : RecvSome(n)
  \/ RecvError
  \/ RecvNothing
  \/ StorePacket

Server == Reject \/ SendPart \/ SendFails \/ Close

Next == Server \/ Client \/ Break

Spec == Init /\ [][Next]_vars

\* Both processes run on; the connection delivers what was sent.
FairSpec == Spec /\ WF_vars(Server) /\ WF_vars(Client)
--------------------------------------------------------------------------------
(* What is shown is what the server transmitted: whole images, both halves  *)
(* of the same frame and the right way up, in order and without one left    *)
(* out, however the connection cut the packets and wherever it broke.       *)
ShownAsTransmitted ==
  /\ Len(shown) <= Len(transmitted)
  /\ \A n \in DOMAIN shown : shown[n] = Whole(transmitted[n])

(* On a connection that stays up every frame transmitted is shown.          *)
AllShown ==
  (server = "closed") ~> (link = "up" => Len(shown) = Len(transmitted))
================================================================================
