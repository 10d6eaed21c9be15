--------------------------- MODULE TcpTransfer_proofs ---------------------------
(***************************************************************************)
(* Each client of the TCP transfer gets one run of the program, whole when *)
(* it ends with exit(0), for any number of clients and lines, any buffer   *)
(* and listen queue.                                                       *)
(***************************************************************************)
EXTENDS TcpTransfer, SequenceTheorems, WellFoundedInduction, TLAPS

States == {"trying", "sleeping", "connected", "done", "failed", "error", "left"}
Pieces == Nat \X Nat

(* What the server gave a client: what it received and what is under way.   *)
All(c) == received[c] \o conn[c]

ServerType ==
  /\ server \in {"off", "accepting", "serving", "dead"}
  /\ server = "serving" => serving \in Clients /\ runs > 0
  /\ runs \in Nat /\ line \in -1 .. Lines
  /\ queue \in Seq(Clients)
  /\ ended \subseteq Clients

ClientType ==
  /\ state \in [Clients -> States]
  /\ conn \in [Clients -> Seq(Pieces)]
  /\ received \in [Clients -> Seq(Pieces)]

Waits(c)   == \E i \in DOMAIN queue : queue[i] = c
Outside(c) == state[c] \in {"trying", "sleeping", "failed"}
Served(c)  == server = "serving" /\ serving = c

(* Who has no connection, or one not yet accepted, was given nothing.       *)
Untouched ==
  /\ \A i, j \in DOMAIN queue : i # j => queue[i] # queue[j]
  /\ \A c \in Clients : Outside(c) => ~Waits(c)
  /\ \A c \in Clients : Outside(c) \/ Waits(c) =>
       ~Served(c) /\ conn[c] = <<>> /\ received[c] = <<>> /\ (server # "dead" => c \notin ended)

RunOf(s, r) == \A i \in DOMAIN s : s[i] = Piece(r, i)

(* The client that is served was given what was read of the present run, as *)
(* long as it is there.                                                     *)
Serves(c) ==
  /\ c \notin ended
  /\ line = -1 => All(c) = <<ErrorLine>>
  /\ line # -1 =>
       RunOf(All(c), runs) /\ Len(All(c)) <= line /\ (Here(c) => Len(All(c)) = line)

(* A connection the server closed was given all there was for it.           *)
EndedWhole(c) ==
  All(c) = <<ErrorLine>> \/ (state[c] \in {"connected", "done"} => Len(All(c)) = Lines)

(* A client that has seen the end of the stream has seen all of it.         *)
DoneIsEmpty(c) == state[c] = "done" => conn[c] = <<>> /\ (server # "dead" => c \in ended)

(* What a client was given is of one run, which is no other client's.       *)
OneRun(c) ==
  \/ All(c) \in {<<>>, <<ErrorLine>>}
  \/ \E r \in 1 .. runs : RunOf(All(c), r) /\ (server = "serving" /\ serving # c => r < runs)

OwnRun(c, d) == \A r \in 1 .. runs : RunOf(All(c), r) /\ RunOf(All(d), r) => <<>> \in {All(c), All(d)}

TcpInv ==
  /\ ServerType /\ ClientType /\ Untouched
  /\ \A c \in Clients :
       /\ Served(c) => Serves(c)
       /\ server # "dead" /\ c \in ended => EndedWhole(c)
       /\ DoneIsEmpty(c) /\ OneRun(c)
       /\ \A d \in Clients : c # d => OwnRun(c, d)

LEMMA TcpInit == Init => TcpInv
<1> SUFFICES ASSUME Init PROVE TcpInv
  OBVIOUS
<1>1. ServerType /\ ClientType
  <2>1. <<>> \in Seq(Clients) /\ <<>> \in Seq(Pieces)
    BY EmptySeq
  <2>2. -1 \in -1 .. Lines
    BY TransferAssumption
  <2>3. QED
    BY <2>1, <2>2 DEF Init, ServerType, ClientType, States
<1>2. Untouched
  BY DEF Init, Untouched, Waits, Outside, Served
<1>3. \A c \in Clients : All(c) = <<>>
  BY EmptySeq, ConcatEmptySeq DEF Init, All
<1>4. \A c \in Clients : ~Served(c) /\ c \notin ended /\ state[c] # "done"
  BY DEF Init, Served
<1>5. QED
  BY <1>1, <1>2, <1>3, <1>4 DEF TcpInv, DoneIsEmpty, OneRun, OwnRun

(* The steps of the server that give a client nothing.                      *)
LEMMA Given ==
  ASSUME UNCHANGED <<received, conn>>, NEW c \in Clients
  PROVE  All(c)' = All(c)
BY DEF All

LEMMA AcceptKeeps == ASSUME TcpInv, Accept PROVE TcpInv'
<1>1. /\ server = "accepting" /\ queue # <<>> /\ serving' = Head(queue) /\ queue' = Tail(queue)
      /\ server' = "serving" /\ runs' = runs + 1 /\ line' = 0
      /\ UNCHANGED <<conn, ended, state, received>>
  BY DEF Accept, clientVars
<1>2. /\ queue \in Seq(Clients) /\ Len(queue) \in Nat \ {0} /\ DOMAIN queue = 1 .. Len(queue)
      /\ queue' \in Seq(Clients) /\ DOMAIN queue' = 1 .. Len(queue) - 1
      /\ \A i \in DOMAIN queue' : queue'[i] = queue[i + 1] /\ i + 1 \in DOMAIN queue
      /\ serving' = queue[1] /\ 1 \in DOMAIN queue /\ queue[1] \in Clients
  <2>1. queue \in Seq(Clients)
    BY DEF TcpInv, ServerType
  <2>2. QED
    BY <1>1, <2>1
<1>3. ServerType' /\ ClientType'
  BY <1>1, <1>2, TransferAssumption DEF TcpInv, ServerType, ClientType
<1>4. /\ \A c \in Clients : Waits(c)' => Waits(c) /\ c # queue[1]
      /\ Waits(queue[1])
  BY <1>2 DEF TcpInv, Untouched, Waits
<1>5. Untouched'
  <2>1. \A i, j \in DOMAIN queue' : i # j => queue'[i] # queue'[j]
    BY <1>2 DEF TcpInv, Untouched
  <2>2. \A c \in Clients : Outside(c)' => ~Waits(c)' /\ Outside(c) /\ c # queue[1]
    BY <1>1, <1>4 DEF TcpInv, Untouched, Outside
  <2>3. QED
    BY <1>1, <1>2, <1>4, <2>1, <2>2 DEF TcpInv, Untouched, Served
<1>6. \A c \in Clients : All(c)' = All(c)
  BY <1>1, Given
<1>7. All(queue[1]) = <<>> /\ queue[1] \notin ended
  BY <1>1, <1>2, <1>4 DEF TcpInv, Untouched, All
<1>8. ASSUME NEW c \in Clients PROVE Served(c)' => Serves(c)'
  <2> SUFFICES ASSUME c = queue[1] PROVE Serves(c)'
    BY <1>2 DEF Served
  <2>1. All(c)' = <<>> /\ line' = 0 /\ c \notin ended'
    BY <1>1, <1>6, <1>7
  <2>2. QED
    BY <2>1 DEF Serves, RunOf
<1>9. ASSUME NEW c \in Clients PROVE OneRun(c)'
  <2>1. OneRun(c) /\ runs \in Nat
    BY DEF TcpInv, ServerType
  <2>2. QED
    BY <1>1, <1>6, <2>1 DEF OneRun
<1>10. ASSUME NEW c \in Clients, NEW d \in Clients, c # d PROVE OwnRun(c, d)'
  <2>1. OwnRun(c, d) /\ OneRun(c) /\ runs \in Nat
    BY <1>10 DEF TcpInv, ServerType
  <2>2. ASSUME RunOf(All(c), runs + 1) PROVE All(c) = <<>>
    <3>1. CASE All(c) = <<ErrorLine>>
      BY <2>1, <2>2, <3>1 DEF RunOf, Piece, ErrorLine
    <3>2. ASSUME NEW r \in 1 .. runs, RunOf(All(c), r), All(c) # <<>> PROVE FALSE
      <4>1. 1 \in DOMAIN All(c)
        BY <3>2 DEF All, TcpInv, ClientType
      <4>2. QED
        BY <2>1, <2>2, <3>2, <4>1 DEF RunOf, Piece
    <3>3. QED
      BY <2>1, <3>1, <3>2 DEF OneRun
  <2>3. QED
    BY <1>1, <1>6, <2>1, <2>2 DEF OwnRun
<1>11. \A c \in Clients : (c \in ended => EndedWhole(c)') /\ DoneIsEmpty(c)'
  BY <1>1, <1>6 DEF TcpInv, EndedWhole, DoneIsEmpty
<1>12. QED
  BY <1>1, <1>3, <1>5, <1>8, <1>9, <1>10, <1>11 DEF TcpInv

(* A step that gives a client nothing, and after which whoever is served or *)
(* has seen the end was served before or has received all.                  *)
LEMMA Quiet ==
  ASSUME TcpInv, UNCHANGED <<runs, serving, line>>, \A c \in Clients : All(c)' = All(c),
         ServerType', ClientType', Untouched',
         server = "dead" => server' = "dead",
         server' = "serving" => server = "serving" /\ ended' = ended,
         ended \subseteq ended',
         server' # "dead" => \A c \in ended' : c \in ended \/ (Served(c) /\ line \in {-1, Lines}),
         \A c \in Clients : conn[c] = <<>> => conn'[c] = <<>>,
         \A c \in Clients :
           \/ state'[c] = state[c]
           \/ state'[c] \notin {"connected", "done"}
           \/ Outside(c) /\ state'[c] = "connected"
           \/ Here(c) /\ state'[c] = "done" /\ conn'[c] = <<>> /\ c \in ended'
  PROVE  TcpInv'
<1>0. line \in Int /\ Lines \in Nat
  BY TransferAssumption DEF TcpInv, ServerType
<1>1. ASSUME NEW c \in Clients PROVE Served(c)' => Serves(c)'
  <2> SUFFICES ASSUME Served(c)' PROVE Serves(c)'
    OBVIOUS
  <2>1. Served(c) /\ Serves(c) /\ ~Outside(c)
    BY DEF TcpInv, Served, Untouched
  <2>2. Here(c)' => Here(c)
    BY <2>1 DEF Here
  <2>3. ended' = ended
    BY DEF Served
  <2>4. QED
    BY <2>1, <2>2, <2>3 DEF Serves
<1>2. ASSUME NEW c \in Clients, server' # "dead", c \in ended' PROVE EndedWhole(c)'
  <2>1. CASE c \in ended
    <3>1. EndedWhole(c) /\ ~Outside(c)
      BY <1>2, <2>1 DEF TcpInv, Untouched
    <3>2. QED
      BY <3>1 DEF EndedWhole, Here
  <2>2. CASE Served(c) /\ c \notin ended /\ line \in {-1, Lines}
    <3>1. Serves(c) /\ ~Outside(c) /\ state[c] # "done"
      BY <1>2, <2>2 DEF TcpInv, Untouched, DoneIsEmpty, Served
    <3>2. All(c) = <<ErrorLine>> \/ (Here(c) => Len(All(c)) = Lines)
      BY <1>0, <2>2, <3>1 DEF Serves
    <3>3. QED
      BY <3>1, <3>2 DEF EndedWhole, Here
  <2>3. QED
    BY <1>2, <2>1, <2>2
<1>3. ASSUME NEW c \in Clients PROVE DoneIsEmpty(c)' /\ OneRun(c)'
  <2>1. DoneIsEmpty(c) /\ OneRun(c)
    BY DEF TcpInv
  <2>2. QED
    BY <2>1 DEF DoneIsEmpty, OneRun
<1>4. ASSUME NEW c \in Clients, NEW d \in Clients, c # d PROVE OwnRun(c, d)'
  BY <1>4 DEF TcpInv, OwnRun
<1>5. QED
  BY <1>1, <1>2, <1>3, <1>4 DEF TcpInv

LEMMA ServerKeeps ==
  ASSUME TcpInv, Listen \/ AcceptFails \/ Killed \/ Finish PROVE TcpInv'
<1>1. /\ UNCHANGED <<runs, serving, line, queue, conn, state, received>>
      /\ \/ server = "off" /\ server' = "accepting" /\ ended' = ended
         \/ server' = "dead" /\ ended' = Clients
         \/ server = "serving" /\ server' = "accepting" /\ ended' = ended \cup {serving}
            /\ line \in {-1, Lines}
  BY DEF Listen, AcceptFails, Killed, Dies, Finish, clientVars
<1>2. ServerType' /\ ClientType'
  BY <1>1 DEF TcpInv, ServerType, ClientType
<1>3. \A c \in Clients : (Waits(c)' <=> Waits(c)) /\ (Outside(c)' <=> Outside(c))
  BY <1>1 DEF Waits, Outside
<1>4. Untouched'
  BY <1>1, <1>3 DEF TcpInv, Untouched, Served
<1>5. \A c \in Clients : All(c)' = All(c)
  BY <1>1, Given
<1>6. ended \subseteq ended'
  BY <1>1 DEF TcpInv, ServerType
<1>7. QED
  BY <1>1, <1>2, <1>4, <1>5, <1>6, Quiet DEF Served

(* The steps of a client that has no connection.                            *)
LEMMA ConnectKeeps == ASSUME TcpInv, NEW c \in Clients, Connect(c) PROVE TcpInv'
<1>1. /\ Outside(c) /\ server # "dead" /\ queue' = Append(queue, c)
      /\ state' = [state EXCEPT ![c] = "connected"]
      /\ UNCHANGED <<server, runs, serving, line, ended, conn, received>>
  BY DEF Connect, Outside, Listening, serverVars
<1>2. /\ queue \in Seq(Clients) /\ Len(queue) \in Nat /\ DOMAIN queue = 1 .. Len(queue)
      /\ queue' \in Seq(Clients) /\ DOMAIN queue' = 1 .. Len(queue) + 1
      /\ \A i \in DOMAIN queue : queue'[i] = queue[i]
      /\ queue'[Len(queue) + 1] = c
  <2>1. queue \in Seq(Clients)
    BY DEF TcpInv, ServerType
  <2>2. QED
    BY <1>1, <2>1
<1>3. /\ \A d \in Clients : state'[d] = IF d = c THEN "connected" ELSE state[d]
      /\ ServerType' /\ ClientType'
  BY <1>1, <1>2 DEF TcpInv, ServerType, ClientType, States
<1>4. ~Waits(c) /\ \A d \in Clients : Waits(d)' => Waits(d) \/ d = c
  BY <1>1, <1>2 DEF TcpInv, Untouched, Waits
<1>5. Untouched'
  <2>1. \A i, j \in DOMAIN queue' : i # j => queue'[i] # queue'[j]
    BY <1>2, <1>4 DEF TcpInv, Untouched, Waits
  <2>2. \A d \in Clients : Outside(d)' => Outside(d) /\ d # c
    BY <1>3 DEF Outside
  <2>3. QED
    BY <1>1, <1>4, <2>1, <2>2 DEF TcpInv, Untouched, Served
<1>6. \A d \in Clients : All(d)' = All(d)
  BY <1>1, Given
<1>7. QED
  BY <1>1, <1>3, <1>5, <1>6, Quiet

LEMMA OutsideKeeps == ASSUME TcpInv, NEW c \in Clients, Refused(c) \/ Wake(c) PROVE TcpInv'
<1>1. PICK how \in {"trying", "sleeping", "failed"} : state' = [state EXCEPT ![c] = how]
  BY DEF Refused, Wake, Retry, Sleep, GiveUp
<1>2. Outside(c) /\ UNCHANGED <<server, runs, serving, line, queue, ended, conn, received>>
  BY DEF Refused, Wake, Outside, serverVars
<1>3. /\ \A d \in Clients : state'[d] = IF d = c THEN how ELSE state[d]
      /\ ServerType' /\ ClientType'
  BY <1>1, <1>2 DEF TcpInv, ServerType, ClientType, States
<1>4. \A d \in Clients : (Waits(d)' <=> Waits(d)) /\ (Outside(d)' <=> Outside(d))
  BY <1>2, <1>3 DEF Waits, Outside
<1>5. Untouched'
  BY <1>2, <1>4 DEF TcpInv, Untouched, Served
<1>6. \A d \in Clients : All(d)' = All(d)
  BY <1>2, Given
<1>7. QED
  BY <1>2, <1>3, <1>5, <1>6, Quiet

(* The ends of a client that has one.                                       *)
LEMMA EndKeeps ==
  ASSUME TcpInv, NEW c \in Clients, EndOfStream(c) \/ RecvFails(c) \/ Leave(c) PROVE TcpInv'
<1>1. PICK how \in {"done", "error", "left"} : /\ state' = [state EXCEPT ![c] = how]
                                               /\ how = "done" => conn[c] = <<>> /\ c \in ended
  BY DEF EndOfStream, RecvFails, Leave, Ends
<1>2. Here(c) /\ UNCHANGED <<server, runs, serving, line, queue, ended, conn, received>>
  BY DEF EndOfStream, RecvFails, Leave, Ends, serverVars
<1>3. /\ \A d \in Clients : state'[d] = IF d = c THEN how ELSE state[d]
      /\ ServerType' /\ ClientType'
  BY <1>1, <1>2 DEF TcpInv, ServerType, ClientType, States
<1>4. \A d \in Clients : (Waits(d)' <=> Waits(d)) /\ (Outside(d)' <=> Outside(d))
  BY <1>2, <1>3 DEF Waits, Outside, Here
<1>5. Untouched'
  BY <1>2, <1>4 DEF TcpInv, Untouched, Served
<1>6. \A d \in Clients : All(d)' = All(d)
  BY <1>2, Given
<1>7. QED
  BY <1>1, <1>2, <1>3, <1>5, <1>6, Quiet

LEMMA Joined ==
  ASSUME NEW s \in Seq(Pieces), NEW new \in Seq(Pieces), NEW rest \in Seq(Pieces)
  PROVE  s \o new \in Seq(Pieces) /\ (s \o new) \o rest = s \o (new \o rest)
BY ConcatAssociative, ConcatProperties

(* recv cuts what is under way in two; nothing is lost.                     *)
LEMMA CutInTwo ==
  ASSUME NEW S, NEW t \in Seq(S), NEW n \in 1 .. Len(t)
  PROVE  /\ SubSeq(t, 1, n) \in Seq(S) /\ SubSeq(t, n + 1, Len(t)) \in Seq(S)
         /\ SubSeq(t, 1, n) \o SubSeq(t, n + 1, Len(t)) = t
<1>1. SubSeq(t, 1, n) \in Seq(S) /\ SubSeq(t, n + 1, Len(t)) \in Seq(S)
  OBVIOUS
<1>2. SubSeq(t, 1, n) \o SubSeq(t, n + 1, Len(t)) = SubSeq(t, 1, Len(t))
  BY ConcatAdjacentSubSeq
<1>3. SubSeq(t, 1, Len(t)) = t
  BY SubSeqFull
<1>4. QED
  BY <1>1, <1>2, <1>3

LEMMA RecvKeeps == ASSUME TcpInv, NEW c \in Clients, NEW n \in 1 .. BufLen, Recv(c, n) PROVE TcpInv'
<1>1. PICK new, rest : new = SubSeq(conn[c], 1, n) /\ rest = SubSeq(conn[c], n + 1, Len(conn[c]))
  OBVIOUS
<1>2. /\ n \in 1 .. Len(conn[c]) /\ Here(c)
      /\ received' = [received EXCEPT ![c] = @ \o new]
      /\ conn' = [conn EXCEPT ![c] = rest]
      /\ UNCHANGED <<server, runs, serving, line, queue, ended, state>>
  BY <1>1 DEF Recv, serverVars
<1>3. /\ conn[c] \in Seq(Pieces) /\ received[c] \in Seq(Pieces)
      /\ received \in [Clients -> Seq(Pieces)] /\ conn \in [Clients -> Seq(Pieces)]
  BY DEF TcpInv, ClientType
<1>4. /\ received[c] \o new \in Seq(Pieces) /\ rest \in Seq(Pieces)
      /\ (received[c] \o new) \o rest = All(c)
  <2>1. new \in Seq(Pieces) /\ rest \in Seq(Pieces) /\ new \o rest = conn[c]
    <3>1. conn[c] \in Seq(Pieces) /\ n \in 1 .. Len(conn[c])
      BY <1>2, <1>3
    <3>2. /\ SubSeq(conn[c], 1, n) \in Seq(Pieces) /\ SubSeq(conn[c], n + 1, Len(conn[c])) \in Seq(Pieces)
          /\ SubSeq(conn[c], 1, n) \o SubSeq(conn[c], n + 1, Len(conn[c])) = conn[c]
      BY <3>1, CutInTwo
    <3>3. QED
      BY <1>1, <3>2
  <2>2. /\ received[c] \o new \in Seq(Pieces)
        /\ (received[c] \o new) \o rest = received[c] \o (new \o rest)
    <3>1. received[c] \in Seq(Pieces) /\ new \in Seq(Pieces) /\ rest \in Seq(Pieces)
      BY <1>3, <2>1
    <3>2. QED
      BY <3>1, Joined, ZenonT(30)
  <2>3. QED
    BY <2>1, <2>2 DEF All
<1>5. /\ received'[c] = received[c] \o new /\ conn'[c] = rest
      /\ \A d \in Clients : d # c => received'[d] = received[d] /\ conn'[d] = conn[d]
      /\ received' \in [Clients -> Seq(Pieces)] /\ conn' \in [Clients -> Seq(Pieces)]
  BY <1>2, <1>3, <1>4
<1>6. ServerType' /\ ClientType'
  BY <1>2, <1>5 DEF TcpInv, ServerType, ClientType
<1>7. \A d \in Clients : All(d)' = All(d)
  BY <1>4, <1>5 DEF All
<1>8. conn[c] # <<>>
  BY <1>2, <1>3
<1>9. \A d \in Clients : (Waits(d)' <=> Waits(d)) /\ (Outside(d)' <=> Outside(d))
  BY <1>2 DEF Waits, Outside
<1>10. Untouched'
  BY <1>2, <1>5, <1>8, <1>9 DEF TcpInv, Untouched, Served
<1>11. QED
  BY <1>2, <1>5, <1>6, <1>7, <1>8, <1>10, Quiet

(* The steps of the server that read the program or fail to run it.         *)
LEMMA Appended ==
  ASSUME NEW S, NEW s \in Seq(S), NEW t \in Seq(S), NEW x \in S
  PROVE  /\ s \o t \in Seq(S) /\ Append(t, x) \in Seq(S)
         /\ s \o Append(t, x) = Append(s \o t, x)
BY AppendIsConcat, ConcatAssociative, ConcatProperties, AppendProperties

LEMMA NextLine ==
  ASSUME NEW s \in Seq(Pieces), NEW r \in Nat, RunOf(s, r)
  PROVE  RunOf(Append(s, Piece(r, Len(s) + 1)), r)
BY DEF RunOf, Piece, Pieces

(* The run of which a client was given something is only one.               *)
LEMMA SameRun ==
  ASSUME NEW s \in Seq(Pieces), s # <<>>, NEW q, NEW r, RunOf(s, q), RunOf(s, r)
  PROVE  q = r
<1>1. 1 \in DOMAIN s
  OBVIOUS
<1>2. QED
  BY <1>1 DEF RunOf, Piece

LEMMA GivesKeeps ==
  ASSUME TcpInv, server = "serving",
         UNCHANGED <<server, runs, serving, queue, ended, state, received>>,
         NEW x \in Pieces, conn' = [conn EXCEPT ![serving] = Append(@, x)],
         line' \in -1 .. Lines,
         \/ line = 0 /\ line' = -1 /\ x = ErrorLine
         \/ line >= 0 /\ line' = line + 1 /\ x = Piece(runs, line') /\ Here(serving)
  PROVE  TcpInv'
<1>1. serving \in Clients /\ runs \in Nat \ {0} /\ line \in Int
  BY DEF TcpInv, ServerType
<1>2. /\ \A c \in Clients : conn[c] \in Seq(Pieces) /\ received[c] \in Seq(Pieces)
      /\ conn \in [Clients -> Seq(Pieces)]
  BY DEF TcpInv, ClientType
<1>3. /\ conn'[serving] = Append(conn[serving], x)
      /\ \A c \in Clients : c # serving => conn'[c] = conn[c]
      /\ conn' \in [Clients -> Seq(Pieces)]
  BY <1>1, <1>2, Appended
<1>4. /\ \A c \in Clients : All(c) \in Seq(Pieces)
      /\ All(serving)' = Append(All(serving), x)
      /\ \A c \in Clients : c # serving => All(c)' = All(c)
  <2>1. \A c \in Clients : All(c) \in Seq(Pieces)
    BY <1>2, ConcatProperties DEF All
  <2>2. \A s, t \in Seq(Pieces) : s \o Append(t, x) = Append(s \o t, x)
    BY Appended
  <2>3. QED
    BY <1>1, <1>2, <1>3, <2>1, <2>2 DEF All
<1>5. ServerType' /\ ClientType'
  BY <1>1, <1>3 DEF TcpInv, ServerType, ClientType
<1>6. \A c \in Clients : (Waits(c)' <=> Waits(c)) /\ (Outside(c)' <=> Outside(c))
  BY DEF Waits, Outside
<1>7. Untouched'
  BY <1>3, <1>6 DEF TcpInv, Untouched, Served
<1>8. Serves(serving) /\ ~Outside(serving) /\ state[serving] # "done"
  BY <1>1 DEF TcpInv, Served, Untouched, DoneIsEmpty, Serves
<1>9. RunOf(All(serving), runs) /\ Len(All(serving)) \in Nat /\ Len(All(serving)) <= line
      /\ (Here(serving) => Len(All(serving)) = line)
  BY <1>1, <1>4, <1>8 DEF Serves
<1>10. \/ line' = -1 /\ All(serving)' = <<ErrorLine>>
       \/ line' # -1 /\ RunOf(All(serving)', runs) /\ Len(All(serving)') = line'
  <2>1. CASE line = 0 /\ line' = -1 /\ x = ErrorLine
    <3>1. All(serving) = <<>>
      BY <1>1, <1>4, <1>9, <2>1
    <3>2. QED
      BY <1>4, <2>1, <3>1
  <2>2. CASE line >= 0 /\ line' = line + 1 /\ x = Piece(runs, line') /\ Here(serving)
    <3>1. Len(All(serving)) + 1 = line' /\ line' # -1
      BY <1>1, <1>9, <2>2
    <3>2. RunOf(Append(All(serving), x), runs)
      BY <1>1, <1>4, <1>9, <2>2, <3>1, NextLine
    <3>3. Len(Append(All(serving), x)) = line'
      BY <1>1, <1>4, <3>1, AppendProperties
    <3>4. QED
      BY <1>4, <3>1, <3>2, <3>3
  <2>3. QED
    BY <2>1, <2>2
<1>11. Serves(serving)'
  BY <1>1, <1>8, <1>10 DEF Serves
<1>12. ASSUME NEW c \in Clients
       PROVE  (Served(c)' => Serves(c)') /\ (c \in ended => EndedWhole(c)') /\ DoneIsEmpty(c)' /\ OneRun(c)'
  <2>1. CASE c = serving
    <3>1. c \notin ended /\ DoneIsEmpty(c)'
      BY <1>8, <2>1 DEF Serves, DoneIsEmpty
    <3>2. OneRun(c)'
      BY <1>1, <1>10, <2>1 DEF OneRun
    <3>3. QED
      BY <1>11, <2>1, <3>1, <3>2
  <2>2. CASE c # serving
    <3>1. All(c)' = All(c) /\ conn'[c] = conn[c] /\ (c \in ended => EndedWhole(c)) /\ DoneIsEmpty(c) /\ OneRun(c)
      BY <1>3, <1>4, <2>2 DEF TcpInv
    <3>2. QED
      BY <2>2, <3>1 DEF Served, EndedWhole, DoneIsEmpty, OneRun
  <2>3. QED
    BY <2>1, <2>2
<1>13. ASSUME NEW c \in Clients, c # serving, NEW r \in 1 .. runs, RunOf(All(c), r),
              RunOf(All(serving)', r)
       PROVE  All(c) = <<>>
  <2>1. SUFFICES ASSUME All(c) # <<>> PROVE FALSE
    OBVIOUS
  <2>2. r < runs
    <3>1. OneRun(c) /\ All(c) # <<ErrorLine>>
      BY <1>13 DEF TcpInv, RunOf, Piece, ErrorLine
    <3>2. PICK q \in 1 .. runs : RunOf(All(c), q) /\ q < runs
      BY <1>13, <2>1, <3>1 DEF OneRun
    <3>3. q = r
      BY <1>4, <1>13, <2>1, <3>2, SameRun
    <3>4. QED
      BY <3>2, <3>3
  <2>3. All(serving)' # <<ErrorLine>>
    BY <1>13 DEF RunOf, Piece, ErrorLine
  <2>4. RunOf(All(serving)', runs) /\ All(serving)' \in Seq(Pieces) /\ All(serving)' # <<>>
    BY <1>1, <1>4, <1>10, <2>3, AppendProperties
  <2>5. r = runs
    BY <1>13, <2>4, SameRun
  <2>6. QED
    BY <1>1, <2>2, <2>5
<1>14. ASSUME NEW c \in Clients, NEW d \in Clients, c # d PROVE OwnRun(c, d)'
  <2>1. OwnRun(c, d)
    BY <1>14 DEF TcpInv
  <2>2. QED
    BY <1>4, <1>13, <1>14, <2>1 DEF OwnRun
<1>15. QED
  BY <1>5, <1>7, <1>12, <1>14 DEF TcpInv

LEMMA AnswerKeeps == ASSUME TcpInv, PopenFails \/ SendLine PROVE TcpInv'
<1>0. /\ server = "serving" /\ serving \in Clients /\ runs \in Nat \ {0} /\ line \in -1 .. Lines
      /\ UNCHANGED <<server, runs, serving, queue, ended, state, received>>
  BY DEF TcpInv, ServerType, PopenFails, SendLine, CanSend, clientVars
<1>1. CASE PopenFails
  <2>1. line = 0 /\ line' = -1 /\ conn' = [conn EXCEPT ![serving] = Append(@, ErrorLine)]
    BY <1>1 DEF PopenFails
  <2>2. ErrorLine \in Pieces /\ line' \in -1 .. Lines
    BY <2>1, TransferAssumption DEF ErrorLine, Pieces
  <2>3. QED
    BY <1>0, <2>1, <2>2, GivesKeeps
<1>2. CASE SendLine /\ Here(serving)
  <2>1. /\ line >= 0 /\ line' = line + 1 /\ line' \in -1 .. Lines
        /\ conn' = [conn EXCEPT ![serving] = Append(@, Piece(runs, line'))]
    BY <1>0, <1>2, TransferAssumption DEF SendLine, CanSend
  <2>2. Piece(runs, line') \in Pieces
    BY <1>0, <2>1, TransferAssumption DEF Piece, Pieces
  <2>3. QED
    BY <1>0, <1>2, <2>1, <2>2, GivesKeeps
<1>3. CASE SendLine /\ ~Here(serving)
  <2>1. line >= 0 /\ line' = line + 1 /\ line' \in -1 .. Lines /\ conn' = conn
    BY <1>0, <1>3, TransferAssumption DEF SendLine, CanSend
  <2>2. \A c \in Clients : /\ All(c)' = All(c) /\ (Waits(c)' <=> Waits(c))
                           /\ (Outside(c)' <=> Outside(c))
    BY <1>0, <2>1, Given DEF Waits, Outside
  <2>3. ServerType' /\ ClientType' /\ Untouched'
    BY <1>0, <2>1, <2>2 DEF TcpInv, ServerType, ClientType, Untouched, Served
  <2>4. Serves(serving) /\ Len(All(serving)) \in Nat
    BY <1>0, ConcatProperties DEF TcpInv, Served, ClientType, All
  <2>5. Serves(serving)'
    <3>1. All(serving)' = All(serving) /\ ~Here(serving)'
      BY <1>0, <1>3, <2>2 DEF Here
    <3>2. Len(All(serving)) <= line'
      BY <1>0, <2>1, <2>4 DEF Serves
    <3>3. QED
      BY <1>0, <2>1, <2>4, <3>1, <3>2 DEF Serves
  <2>6. ASSUME NEW c \in Clients
        PROVE  /\ Served(c)' => Serves(c)'
               /\ c \in ended => EndedWhole(c)'
               /\ DoneIsEmpty(c)' /\ OneRun(c)'
               /\ \A d \in Clients : c # d => OwnRun(c, d)'
    BY <1>0, <2>1, <2>2, <2>5 DEF TcpInv, Served, EndedWhole, DoneIsEmpty, OneRun, OwnRun
  <2>7. QED
    BY <1>0, <2>3, <2>6 DEF TcpInv
<1>4. QED
  BY <1>1, <1>2, <1>3

LEMMA TcpKeeps == TcpInv /\ [Next]_vars => TcpInv'
<1> SUFFICES ASSUME TcpInv, [Next]_vars PROVE TcpInv'
  OBVIOUS
<1>1. CASE Listen \/ Server \/ Failure
  BY <1>1, AcceptKeeps, ServerKeeps, AnswerKeeps DEF Server, Failure
<1>2. ASSUME NEW c \in Clients, Client(c) \/ Leave(c) PROVE TcpInv'
  BY <1>2, ConnectKeeps, OutsideKeeps, RecvKeeps, EndKeeps DEF Client
<1>3. CASE Tick \/ UNCHANGED vars
  <2>1. UNCHANGED <<server, runs, serving, line, queue, ended, state, conn, received>>
    BY <1>3 DEF Tick, vars, serverVars, clientVars
  <2>2. ServerType' /\ ClientType' /\ Untouched'
    BY <2>1 DEF TcpInv, ServerType, ClientType, Untouched, Outside, Waits, Served
  <2>3. \A c \in Clients : All(c)' = All(c)
    BY <2>1, Given
  <2>4. QED
    BY <2>1, <2>2, <2>3, Quiet
<1>4. QED
  BY <1>1, <1>2, <1>3 DEF Next

LEMMA TcpInvHolds == Spec => []TcpInv
<1>1. QED
  BY TcpInit, TcpKeeps, PTL DEF Spec

(* A client that ends with exit(0) has all the program printed, or the      *)
(* error line, unless the server died.                                      *)
THEOREM DoneHasAll == Spec => []DoneIsWhole
<1>1. TcpInv => DoneIsWhole
  <2> SUFFICES ASSUME TcpInv, NEW c \in Clients, state[c] = "done", server # "dead"
               PROVE  Len(received[c]) = Lines \/ received[c] = <<ErrorLine>>
    BY DEF DoneIsWhole
  <2>1. EndedWhole(c) /\ conn[c] = <<>> /\ received[c] \in Seq(Pieces)
    BY DEF TcpInv, DoneIsEmpty, ClientType
  <2>2. All(c) = received[c]
    BY <2>1, ConcatEmptySeq DEF All
  <2>3. QED
    BY <2>1, <2>2 DEF EndedWhole
<1>2. QED
  BY <1>1, TcpInvHolds, PTL
--------------------------------------------------------------------------------
(* What a client writes.                                                    *)

LEMMA LeastNumber == ASSUME NEW T \in SUBSET Nat, T # {} PROVE \E x \in T : \A y \in T : x <= y
<1> DEFINE Less == {ss \in Nat \X Nat : ss[1] < ss[2]}
<1>1. IsWellFoundedOn(OpToRel(<, Nat), Nat)
  BY NatLessThanWellFounded, Zenon
<1>2. IsWellFoundedOn(Less, Nat)
  BY <1>1, Zenon DEF OpToRel
<1>3. \A x, y \in Nat : <<y, x>> \notin Less => x <= y
  OBVIOUS
<1> HIDE DEF Less
<1>4. PICK x \in T : \A y \in T : ~(<<y, x>> \in Less)
  BY <1>2, WFMin, Zenon
<1>5. QED
  BY <1>3, <1>4

Buffers == [1 .. BufLen -> Pieces \cup {Nul}]

(* The string of a buffer is the part before its first NUL.                 *)
LEMMA StringOf ==
  ASSUME NEW b \in Buffers
  PROVE  \E n, s :
           /\ n \in 0 .. BufLen /\ s = SubSeq(b, 1, n) /\ String(b) = s
           /\ \A i \in 1 .. n : b[i] # Nul
           /\ n < BufLen => b[n + 1] = Nul
<1> DEFINE Length(n) == (\A i \in 1 .. n : b[i] # Nul) /\ (n < BufLen => b[n + 1] = Nul)
<1>0. BufLen \in Nat
  BY TransferAssumption
<1>1. \E n \in 0 .. BufLen : Length(n)
  <2>1. CASE \A i \in 1 .. BufLen : b[i] # Nul
    BY <1>0, <2>1
  <2>2. CASE \E i \in 1 .. BufLen : b[i] = Nul
    <3>1. {i \in 1 .. BufLen : b[i] = Nul} \in SUBSET Nat /\ {i \in 1 .. BufLen : b[i] = Nul} # {}
      BY <1>0, <2>2
    <3>2. PICK i \in 1 .. BufLen : b[i] = Nul /\ \A j \in 1 .. BufLen : b[j] = Nul => i <= j
      BY <3>1, LeastNumber
    <3>3. Length(i - 1) /\ i - 1 \in 0 .. BufLen
      BY <1>0, <3>2
    <3>4. QED
      BY <3>3
  <2>3. QED
    BY <2>1, <2>2
<1>2. PICK n : n = CHOOSE m \in 0 .. BufLen : Length(m)
  OBVIOUS
<1>3. n \in 0 .. BufLen /\ Length(n)
  BY <1>1, <1>2
<1>4. String(b) = SubSeq(b, 1, n)
  BY <1>2 DEF String
<1>5. QED
  BY <1>3, <1>4

(* ... which is of pieces, and begins with what recv has just put there.    *)
LEMMA StringBegins ==
  ASSUME NEW b \in Buffers, NEW n \in 0 .. BufLen, NEW new \in Seq(Pieces), Len(new) = n,
         \A i \in 1 .. n : b[i] = new[i]
  PROVE  /\ String(b) \in Seq(Pieces) /\ n <= Len(String(b))
         /\ \A i \in 1 .. n : String(b)[i] = new[i]
<1>0. BufLen \in Nat /\ Nul \notin Pieces
  BY TransferAssumption DEF Nul, Pieces
<1>1. PICK m, string :
        /\ m \in 0 .. BufLen /\ string = SubSeq(b, 1, m) /\ String(b) = string
        /\ \A i \in 1 .. m : b[i] # Nul
        /\ m < BufLen => b[m + 1] = Nul
  BY StringOf, Zenon
<1>2. m \in 0 .. BufLen /\ (\A i \in 1 .. m : b[i] # Nul) /\ (m < BufLen => b[m + 1] = Nul)
  BY <1>1, Zenon
<1>3. n <= m
  <2>1. SUFFICES ASSUME m < n PROVE FALSE
    BY <1>0, <1>2
  <2>2. PICK k \in 1 .. n : k = m + 1 /\ m < BufLen
    BY <1>0, <1>2, <2>1
  <2>3. b[k] = Nul /\ b[k] = new[k] /\ new[k] \in Pieces
    BY <1>2, <2>2
  <2>4. QED
    BY <1>0, <2>3
<1>4. \A i \in 1 .. m : b[i] \in Pieces
  <2>1. \A i \in 1 .. BufLen : b[i] \in Pieces \cup {Nul}
    BY DEF Buffers
  <2>2. \A i \in 1 .. m : i \in 1 .. BufLen
    BY <1>0, <1>2
  <2>3. QED
    BY <1>2, <2>1, <2>2
<1>5. /\ string \in Seq(Pieces) /\ Len(string) = m
      /\ \A i \in 1 .. m : string[i] = b[i]
  BY <1>0, <1>1, <1>2, <1>4, SubSeqProperties
<1>6. QED
  BY <1>0, <1>1, <1>3, <1>5

(* What is appended to a sequence is in it, behind what was in it before.   *)
LEMMA WithinAppended ==
  ASSUME NEW s \in Seq(Pieces), NEW t \in Seq(Pieces), Within(s, t),
         NEW u \in Seq(Pieces), NEW v \in Seq(Pieces), Len(u) <= Len(v),
         \A i \in 1 .. Len(u) : v[i] = u[i]
  PROVE  Within(s \o u, t \o v)
<1>1. /\ DOMAIN s = 1 .. Len(s) /\ DOMAIN t = 1 .. Len(t)
      /\ Len(s) \in Nat /\ Len(t) \in Nat /\ Len(u) \in Nat /\ Len(v) \in Nat
  OBVIOUS
<1>2. /\ DOMAIN (s \o u) = 1 .. Len(s) + Len(u)
      /\ DOMAIN (t \o v) = 1 .. Len(t) + Len(v)
      /\ \A i \in 1 .. Len(s) : (s \o u)[i] = s[i]
      /\ \A i \in 1 .. Len(t) : (t \o v)[i] = t[i]
      /\ \A i \in 1 .. Len(u) : (s \o u)[Len(s) + i] = u[i]
      /\ \A i \in 1 .. Len(v) : (t \o v)[Len(t) + i] = v[i]
  BY ConcatProperties
<1>3. PICK at \in [1 .. Len(s) -> 1 .. Len(t)] :
        /\ \A i \in 1 .. Len(s) : s[i] = t[at[i]]
        /\ \A i, j \in 1 .. Len(s) : i < j => at[i] < at[j]
  BY <1>1 DEF Within
<1> DEFINE then == [i \in 1 .. Len(s) + Len(u) |->
                      IF i <= Len(s) THEN at[i] ELSE Len(t) + (i - Len(s))]
<1>4. /\ \A i \in 1 .. Len(s) : then[i] = at[i] /\ at[i] \in 1 .. Len(t)
      /\ \A i \in Len(s) + 1 .. Len(s) + Len(u) :
           then[i] = Len(t) + (i - Len(s)) /\ i - Len(s) \in 1 .. Len(u)
      /\ \A i \in 1 .. Len(s) + Len(u) : i \in 1 .. Len(s) \/ i \in Len(s) + 1 .. Len(s) + Len(u)
  <2>1. \A i \in 1 .. Len(s) : i \in 1 .. Len(s) + Len(u) /\ i <= Len(s) /\ at[i] \in 1 .. Len(t)
    BY <1>1, <1>3
  <2>2. \A i \in Len(s) + 1 .. Len(s) + Len(u) :
          i \in 1 .. Len(s) + Len(u) /\ ~(i <= Len(s)) /\ i - Len(s) \in 1 .. Len(u)
    BY <1>1
  <2>3. \A i \in 1 .. Len(s) + Len(u) : i \in 1 .. Len(s) \/ i \in Len(s) + 1 .. Len(s) + Len(u)
    BY <1>1
  <2>4. QED
    BY <2>1, <2>2, <2>3
<1>5. then \in [1 .. Len(s) + Len(u) -> 1 .. Len(t) + Len(v)]
  BY <1>1, <1>4
<1> HIDE DEF then
<1>6. ASSUME NEW i \in 1 .. Len(s) + Len(u) PROVE (s \o u)[i] = (t \o v)[then[i]]
  <2>1. CASE i \in 1 .. Len(s)
    BY <1>1, <1>2, <1>3, <1>4, <2>1
  <2>2. CASE i \in Len(s) + 1 .. Len(s) + Len(u)
    <3>1. PICK k \in 1 .. Len(u) : k = i - Len(s)
      BY <1>4, <2>2
    <3>2. i = Len(s) + k /\ then[i] = Len(t) + k
      BY <1>1, <1>4, <2>2, <3>1
    <3>3. k \in 1 .. Len(v)
      BY <1>1, <3>1
    <3>4. (s \o u)[i] = u[k] /\ (t \o v)[then[i]] = v[k]
      BY <1>2, <3>2, <3>3
    <3>5. QED
      BY <3>4
  <2>3. QED
    BY <1>4, <2>1, <2>2
<1>7. ASSUME NEW i \in 1 .. Len(s) + Len(u), NEW j \in 1 .. Len(s) + Len(u), i < j
      PROVE  then[i] < then[j]
  <2>1. CASE i \in 1 .. Len(s) /\ j \in 1 .. Len(s)
    BY <1>3, <1>4, <1>7, <2>1
  <2>2. CASE i \in 1 .. Len(s) /\ j \in Len(s) + 1 .. Len(s) + Len(u)
    <3>1. then[i] \in 1 .. Len(t) /\ then[j] = Len(t) + (j - Len(s)) /\ j - Len(s) \in 1 .. Len(u)
      BY <1>4, <2>2
    <3>2. QED
      BY <1>1, <3>1
  <2>3. CASE i \in Len(s) + 1 .. Len(s) + Len(u)
    <3>1. j \in Len(s) + 1 .. Len(s) + Len(u)
      BY <1>1, <1>7, <2>3
    <3>2. then[i] = Len(t) + (i - Len(s)) /\ then[j] = Len(t) + (j - Len(s))
      BY <1>4, <2>3, <3>1
    <3>3. QED
      BY <1>1, <1>7, <3>2
  <2>4. QED
    BY <1>4, <2>1, <2>2, <2>3
<1>8. QED
  BY <1>2, <1>5, <1>6, <1>7 DEF Within

(* A client wrote what it received; in a file other pieces may come between.*)
Wrote(c) == IF c \in Recorders THEN Within(received[c], output[c]) ELSE output[c] = received[c]

OutputInv ==
  /\ buf \in [Clients -> Buffers]
  /\ output \in [Clients -> Seq(Pieces)]
  /\ \A c \in Clients : Wrote(c)

LEMMA OutputInit == Init => OutputInv
<1> SUFFICES ASSUME Init PROVE OutputInv
  OBVIOUS
<1>1. buf \in [Clients -> Buffers]
  <2>1. [i \in 1 .. BufLen |-> Nul] \in Buffers
    BY DEF Buffers
  <2>2. QED
    BY <2>1 DEF Init
<1>2. output \in [Clients -> Seq(Pieces)]
  BY EmptySeq DEF Init
<1>3. Within(<<>>, <<>>)
  <2>1. <<>> \in [DOMAIN <<>> -> DOMAIN <<>>] /\ DOMAIN <<>> = {}
    OBVIOUS
  <2>2. QED
    BY <2>1 DEF Within
<1>4. \A c \in Clients : Wrote(c)
  BY <1>3 DEF Init, Wrote
<1>5. QED
  BY <1>1, <1>2, <1>4 DEF OutputInv

LEMMA RecvWrites ==
  ASSUME TcpInv, OutputInv, NEW c \in Clients, NEW n \in 1 .. BufLen, Recv(c, n)
  PROVE  OutputInv'
<1>1. PICK new : new = SubSeq(conn[c], 1, n)
  OBVIOUS
<1>2. PICK b : b = [i \in 1 .. BufLen |-> IF i <= n THEN new[i] ELSE buf[c][i]]
  OBVIOUS
<1>3. PICK w : w = Written(c, new, b)
  OBVIOUS
<1>4. /\ n \in 1 .. Len(conn[c]) /\ buf' = [buf EXCEPT ![c] = b]
      /\ received' = [received EXCEPT ![c] = @ \o new]
      /\ output' = [output EXCEPT ![c] = @ \o w]
  BY <1>1, <1>2, <1>3 DEF Recv
<1>5. /\ received \in [Clients -> Seq(Pieces)] /\ conn[c] \in Seq(Pieces) /\ BufLen \in Nat
      /\ output \in [Clients -> Seq(Pieces)] /\ buf \in [Clients -> Buffers]
  BY TransferAssumption DEF TcpInv, ClientType, OutputInv
<1>6. new \in Seq(Pieces) /\ Len(new) = n
  BY <1>1, <1>4, <1>5
<1>7. b \in Buffers /\ \A i \in 1 .. n : b[i] = new[i]
  <2>1. \A i \in 1 .. n : new[i] \in Pieces
    BY <1>6
  <2>2. \A i \in 1 .. BufLen : buf[c][i] \in Pieces \cup {Nul}
    BY <1>5 DEF Buffers
  <2>3. QED
    BY <1>2, <1>5, <2>1, <2>2 DEF Buffers
<1>8. /\ w \in Seq(Pieces)
      /\ c \in Recorders => n <= Len(w) /\ \A i \in 1 .. n : w[i] = new[i]
      /\ c \notin Recorders => w = new
  <2>1. CASE c \in Recorders
    <3>1. w = String(b)
      BY <1>3, <2>1 DEF Written
    <3>2. n \in 0 .. BufLen
      BY <1>5
    <3>3. String(b) \in Seq(Pieces) /\ n <= Len(String(b)) /\ \A i \in 1 .. n : String(b)[i] = new[i]
      BY <1>6, <1>7, <3>2, StringBegins
    <3>4. QED
      BY <2>1, <3>1, <3>3
  <2>2. CASE c \notin Recorders
    BY <1>3, <1>6, <2>2 DEF Written
  <2>3. QED
    BY <2>1, <2>2
<1>9. /\ received'[c] = received[c] \o new /\ output'[c] = output[c] \o w
      /\ \A d \in Clients : d # c => received'[d] = received[d] /\ output'[d] = output[d]
      /\ buf' \in [Clients -> Buffers]
  BY <1>4, <1>5, <1>7
<1>10. output' \in [Clients -> Seq(Pieces)]
  <2>1. output[c] \in Seq(Pieces)
    BY <1>5
  <2>2. output[c] \o w \in Seq(Pieces)
    BY <1>8, <2>1, ConcatProperties
  <2>3. QED
    BY <1>4, <1>5, <2>2
<1>11. Wrote(c)'
  <2>1. CASE c \in Recorders
    <3>1. Within(received[c], output[c]) /\ received[c] \in Seq(Pieces) /\ output[c] \in Seq(Pieces)
      BY <1>5, <2>1 DEF OutputInv, Wrote
    <3>2. w \in Seq(Pieces) /\ Len(new) <= Len(w) /\ \A i \in 1 .. Len(new) : w[i] = new[i]
      BY <1>6, <1>8, <2>1
    <3>3. Within(received[c] \o new, output[c] \o w)
      BY <1>6, <3>1, <3>2, WithinAppended
    <3>4. QED
      BY <1>9, <2>1, <3>3 DEF Wrote
  <2>2. CASE c \notin Recorders
    BY <1>8, <1>9, <2>2 DEF OutputInv, Wrote
  <2>3. QED
    BY <2>1, <2>2
<1>12. QED
  BY <1>9, <1>10, <1>11 DEF OutputInv, Wrote

LEMMA OutputKeeps == TcpInv /\ OutputInv /\ [Next]_vars => OutputInv'
<1> SUFFICES ASSUME TcpInv, OutputInv, [Next]_vars PROVE OutputInv'
  OBVIOUS
<1>1. ASSUME UNCHANGED <<buf, received, output>> PROVE OutputInv'
  BY <1>1 DEF OutputInv, Wrote
<1>2. CASE Listen \/ Server \/ Failure \/ Tick \/ UNCHANGED vars
  BY <1>1, <1>2 DEF Listen, Server, Failure, Tick, Accept, SendLine, Finish, PopenFails, AcceptFails,
                    Killed, Dies, vars, clientVars
<1>3. ASSUME NEW c \in Clients, Client(c) \/ Leave(c) PROVE OutputInv'
  <2>1. CASE \E n \in 1 .. BufLen : Recv(c, n)
    BY <2>1, RecvWrites
  <2>2. CASE Connect(c) \/ Refused(c) \/ Wake(c) \/ EndOfStream(c) \/ RecvFails(c) \/ Leave(c)
    BY <1>1, <2>2 DEF Connect, Refused, Wake, EndOfStream, RecvFails, Leave, Ends
  <2>3. QED
    BY <1>3, <2>1, <2>2 DEF Client
<1>4. QED
  BY <1>2, <1>3 DEF Next

LEMMA PrefixOfRun ==
  ASSUME NEW s \in Seq(Pieces), NEW t \in Seq(Pieces), NEW r, RunOf(s \o t, r)
  PROVE  RunOf(s, r)
<1>1. \A i \in 1 .. Len(s) : i \in 1 .. Len(s \o t) /\ (s \o t)[i] = s[i]
  BY ConcatProperties
<1>2. QED
  BY <1>1 DEF RunOf

LEMMA RunIsRun ==
  ASSUME NEW s \in Seq(Pieces), NEW r, RunOf(s, r)
  PROVE  IsRun(s) /\ (s # <<>> => s[1] = <<r, 1>>)
<1>1. CASE s = <<>>
  BY <1>1 DEF IsRun
<1>2. CASE s # <<>>
  <2>1. 1 \in DOMAIN s
    BY <1>2
  <2>2. s[1] = <<r, 1>>
    BY <2>1 DEF RunOf, Piece
  <2>3. QED
    BY <2>2 DEF IsRun, RunOf, Piece
<1>3. QED
  BY <1>1, <1>2

LEMMA Short ==
  ASSUME NEW s \in Seq(Pieces), NEW x \in Pieces, Len(s) \in {0, 1}, \A i \in 1 .. Len(s) : s[i] = x
  PROVE  s = <<>> \/ s = <<x>>
<1>1. CASE Len(s) = 0
  BY <1>1
<1>2. CASE Len(s) = 1
  <2>1. /\ <<x>> \in Seq(Pieces) /\ Len(<<x>>) = 1 /\ <<x>>[1] = x
    OBVIOUS
  <2>2. QED
    BY <1>2, <2>1, SeqEqual
<1>3. QED
  BY <1>1, <1>2

LEMMA OneElement ==
  ASSUME NEW s \in Seq(Pieces), NEW t \in Seq(Pieces), Len(s \o t) = 1
  PROVE  Len(s) \in {0, 1} /\ \A i \in 1 .. Len(s) : s[i] = (s \o t)[1]
<1>1. Len(s \o t) = Len(s) + Len(t) /\ \A i \in 1 .. Len(s) : (s \o t)[i] = s[i]
  BY ConcatProperties
<1>2. PICK m, n : m = Len(s) /\ n = Len(t)
  OBVIOUS
<1>3. m \in Nat /\ n \in Nat /\ m + n = 1
  BY <1>1, <1>2
<1>4. m \in {0, 1} /\ \A i \in 1 .. m : i = 1
  BY <1>3
<1>5. \A i \in 1 .. m : (s \o t)[1] = s[i]
  BY <1>1, <1>2, <1>4
<1>6. QED
  BY <1>2, <1>4, <1>5

(* A client receives one run of the program from its start and without a    *)
(* gap, or the error line; no other client receives anything of that run,   *)
(* and the client writes it all, however recv cuts it.                      *)
THEOREM OneRunForEach == Spec => []OneRunEach
<1>1. TcpInv /\ OutputInv => OneRunEach
  <2> SUFFICES ASSUME TcpInv, OutputInv PROVE OneRunEach
    OBVIOUS
  <2>1. \A c \in Clients : received[c] \in Seq(Pieces) /\ conn[c] \in Seq(Pieces)
    BY DEF TcpInv, ClientType
  <2>2. ASSUME NEW c \in Clients
        PROVE  \/ received[c] \in {<<>>, <<ErrorLine>>}
               \/ \E r \in 1 .. runs : RunOf(received[c], r) /\ RunOf(All(c), r)
    <3>1. CASE All(c) = <<>>
      BY <2>1, <3>1, ConcatEqualIffEmpty DEF All
    <3>2. CASE All(c) = <<ErrorLine>>
      <4>1. ErrorLine \in Pieces /\ Len(<<ErrorLine>>) = 1 /\ <<ErrorLine>>[1] = ErrorLine
        BY DEF ErrorLine, Pieces
      <4>2. Len(All(c)) = 1 /\ All(c)[1] = ErrorLine
        BY <3>2, <4>1
      <4>3. Len(received[c]) \in {0, 1} /\ \A i \in 1 .. Len(received[c]) : received[c][i] = ErrorLine
        BY <2>1, <4>2, OneElement DEF All
      <4>4. QED
        BY <2>1, <4>1, <4>3, Short
    <3>3. CASE \E r \in 1 .. runs : RunOf(All(c), r)
      BY <2>1, <3>3, PrefixOfRun DEF All
    <3>4. QED
      BY <3>1, <3>2, <3>3 DEF TcpInv, OneRun
  <2>3. ASSUME NEW c \in Clients
        PROVE  /\ IsRun(received[c]) \/ received[c] = <<ErrorLine>>
               /\ Wrote(c)
    <3>1. CASE received[c] = <<>>
      BY <3>1 DEF IsRun, OutputInv
    <3>2. QED
      BY <2>1, <2>2, <3>1, RunIsRun DEF OutputInv
  <2>4. ASSUME NEW c \in Clients, NEW d \in Clients, c # d, received[c] # <<>>, received[d] # <<>>,
               received[c] # <<ErrorLine>>
        PROVE  received[c][1] # received[d][1]
    <3>1. PICK r \in 1 .. runs : RunOf(received[c], r) /\ RunOf(All(c), r)
      BY <2>2, <2>4
    <3>2. received[c][1] = <<r, 1>> /\ r # 0
      BY <2>1, <2>4, <3>1, RunIsRun
    <3>3. CASE received[d] = <<ErrorLine>>
      BY <3>2, <3>3 DEF ErrorLine
    <3>4. ASSUME NEW q \in 1 .. runs, RunOf(received[d], q), RunOf(All(d), q)
          PROVE  received[c][1] # received[d][1]
      <4>1. received[d][1] = <<q, 1>>
        BY <2>1, <2>4, <3>4, RunIsRun
      <4>2. All(c) # <<>> /\ All(d) # <<>>
        BY <2>1, <2>4, ConcatEqualIffEmpty DEF All
      <4>3. q # r
        BY <2>4, <3>1, <3>4, <4>2 DEF TcpInv, OwnRun
      <4>4. QED
        BY <3>2, <4>1, <4>3
    <3>5. QED
      BY <2>2, <2>4, <3>3, <3>4
  <2>5. QED
    BY <2>3, <2>4 DEF OneRunEach, Wrote
<1>2. QED
  BY <1>1, TcpInvHolds, OutputInit, OutputKeeps, PTL DEF Spec
--------------------------------------------------------------------------------
(* When a client gives up.                                                  *)

Tries(c) == state[c] \in {"trying", "sleeping"}

BackoffType ==
  /\ now \in Nat /\ wake \in [Clients -> Nat] /\ numsec \in [Clients -> Nat]
  /\ upSince \in Nat \cup {-1} /\ (server = "off" => upSince = -1)

(* The next delay divides MAXSLEEP.                                         *)
Divides(n) == \E q \in 1 .. MaxSleep : n * q = MaxSleep

(* The delays so far add up to one second less than the next.               *)
Waited(c) ==
  /\ numsec[c] \in 1 .. MaxSleep /\ Divides(numsec[c])
  /\ (IF state[c] = "trying" THEN now ELSE wake[c]) >= numsec[c] - 1

GaveUp(c) ==
  /\ now >= MaxSleep - 1
  /\ server # "dead" /\ upSince # -1 => upSince >= MaxSleep - 1

BackoffInv ==
  /\ BackoffType
  /\ \A c \in Clients : (Tries(c) => Waited(c)) /\ (state[c] = "failed" => GaveUp(c))

LEMMA BackoffInit == Init => BackoffInv
<1> SUFFICES ASSUME Init PROVE BackoffInv
  OBVIOUS
<1>1. MaxSleep \in 1 .. MaxSleep /\ 1 * MaxSleep = MaxSleep /\ 1 \in 1 .. MaxSleep
  BY TransferAssumption
<1>2. Divides(1)
  BY <1>1 DEF Divides
<1>3. BackoffType
  BY DEF Init, BackoffType
<1>4. QED
  BY <1>1, <1>2, <1>3 DEF Init, BackoffInv, Tries, Waited

(* A delay of at most half of MAXSLEEP can be doubled; the last is all of   *)
(* it.                                                                      *)
LEMMA Doubled ==
  ASSUME NEW n \in 1 .. MaxSleep, Divides(n)
  PROVE  IF n <= MaxSleep \div 2 THEN 2 * n \in 1 .. MaxSleep /\ Divides(2 * n) ELSE n = MaxSleep
<1>0. MaxSleep \in Nat \ {0} /\ n \in Nat
  BY TransferAssumption
<1>1. PICK q \in 1 .. MaxSleep : n * q = MaxSleep
  BY DEF Divides
<1>2. CASE q = 1
  <2>1. n = MaxSleep
    BY <1>0, <1>1, <1>2
  <2>2. QED
    BY <1>0, <2>1
<1>3. CASE q # 1
  <2>1. q \in 2 .. MaxSleep /\ q % 2 = 0
    <3>1. q * n = MaxSleep
      BY <1>0, <1>1
    <3>2. \A d, p \in 1 .. MaxSleep : d * p = MaxSleep => d = 1 \/ d % 2 = 0
      BY BackoffAssumption
    <3>3. q % 2 = 0
      BY <1>3, <3>1, <3>2, Zenon
    <3>4. QED
      BY <1>0, <1>3, <3>3
  <2>2. PICK h \in 1 .. MaxSleep : q = 2 * h
    BY <1>0, <2>1
  <2>3. (2 * n) * h = MaxSleep
    <3>1. n * (2 * h) = (2 * n) * h
      BY <1>0, <2>2
    <3>2. QED
      BY <1>1, <2>2, <3>1
  <2>4. 2 * n <= (2 * n) * h
    BY <1>0, <2>2
  <2>5. 2 * n \in 1 .. MaxSleep /\ n <= MaxSleep \div 2
    BY <1>0, <2>3, <2>4
  <2>6. Divides(2 * n)
    BY <2>2, <2>3 DEF Divides
  <2>7. QED
    BY <2>5, <2>6
<1>4. QED
  BY <1>2, <1>3

(* A client that is refused sleeps, or gives up behind the last delay.      *)
LEMMA RefusedKeeps == ASSUME TcpInv, BackoffInv, NEW c \in Clients, Refused(c) PROVE BackoffInv'
<1>0. /\ state[c] = "trying" /\ state \in [Clients -> States] /\ now \in Nat /\ numsec[c] \in Nat
      /\ server' = server /\ upSince' = upSince /\ now' = now
      /\ server = "dead" \/ upSince = -1
  BY DEF Refused, Listening, BackoffInv, BackoffType, TcpInv, ClientType, ServerType, serverVars
<1>1. numsec[c] \in 1 .. MaxSleep /\ Divides(numsec[c]) /\ now >= numsec[c] - 1
  BY <1>0 DEF BackoffInv, Tries, Waited
<1>2. CASE numsec[c] <= MaxSleep \div 2
  <2>1. Sleep(c, numsec[c])
    BY <1>2 DEF Refused, Retry
  <2>2. 2 * numsec[c] \in 1 .. MaxSleep /\ Divides(2 * numsec[c])
    BY <1>1, <1>2, Doubled
  <2>3. \E t \in Nat : t >= 2 * numsec[c] - 1 /\ wake' = [wake EXCEPT ![c] = t]
    <3> DEFINE t == IF now + numsec[c] < MaxNow THEN now + numsec[c] ELSE MaxNow
    <3>1. t \in Nat /\ t >= 2 * numsec[c] - 1
      BY <1>0, <1>1, <2>2, TransferAssumption
    <3>2. wake' = [wake EXCEPT ![c] = t]
      BY <2>1 DEF Sleep
    <3>3. QED
      BY <3>1, <3>2
  <2>4. BackoffType'
    BY <1>0, <2>1, <2>3 DEF BackoffInv, BackoffType, Sleep
  <2>5. numsec'[c] = 2 * numsec[c] /\ wake'[c] >= 2 * numsec[c] - 1 /\ state'[c] = "sleeping"
    BY <1>0, <2>1, <2>3 DEF BackoffInv, BackoffType, Sleep
  <2>6. \A d \in Clients : d # c => state'[d] = state[d] /\ numsec'[d] = numsec[d] /\ wake'[d] = wake[d]
    BY <1>0, <2>1, <2>3 DEF BackoffInv, BackoffType, Sleep
  <2>7. Waited(c)'
    BY <2>2, <2>5 DEF Waited, Divides
  <2>8. QED
    BY <1>0, <2>4, <2>5, <2>6, <2>7 DEF BackoffInv, Tries, Waited, Divides, GaveUp
<1>3. CASE ~(numsec[c] <= MaxSleep \div 2)
  <2>1. GiveUp(c)
    BY <1>3 DEF Refused, Retry
  <2>2. numsec[c] = MaxSleep
    BY <1>1, <1>3, Doubled
  <2>3. GaveUp(c)'
    BY <1>0, <1>1, <2>2 DEF GaveUp
  <2>4. \A d \in Clients : d # c => state'[d] = state[d]
    BY <2>1 DEF GiveUp
  <2>5. state'[c] = "failed"
    BY <1>0, <2>1 DEF GiveUp
  <2>6. QED
    BY <1>0, <2>1, <2>3, <2>4, <2>5
    DEF GiveUp, BackoffInv, BackoffType, Tries, Waited, Divides, GaveUp
<1>4. QED
  BY <1>2, <1>3

(* The steps that leave the delays alone.                                   *)
LEMMA BackoffQuiet ==
  ASSUME BackoffInv, UNCHANGED <<wake, numsec>>,
         UNCHANGED now \/ (now' = now + 1 /\ UNCHANGED <<state, server, upSince>>),
         \/ UNCHANGED upSince /\ (server' = server \/ server' # "off") /\ (server = "dead" => server' = "dead")
         \/ server = "off" /\ server' # "off" /\ upSince' = now,
         \A c \in Clients : \/ state'[c] = state[c]
                            \/ state'[c] \notin {"trying", "sleeping", "failed"}
                            \/ state[c] = "sleeping" /\ state'[c] = "trying" /\ now >= wake[c]
  PROVE  BackoffInv'
<1>1. BackoffType'
  BY DEF BackoffInv, BackoffType
<1>2. ASSUME NEW c \in Clients, Tries(c)' PROVE Waited(c)'
  <2>1. Tries(c)
    BY <1>2 DEF Tries
  <2>2. Waited(c) /\ now \in Nat /\ wake[c] \in Nat /\ numsec[c] \in Nat
    BY <2>1 DEF BackoffInv, BackoffType
  <2>3. numsec'[c] = numsec[c] /\ wake'[c] = wake[c] /\ now' >= now
    BY <2>2
  <2>4. (IF state'[c] = "trying" THEN now' ELSE wake'[c]) >= numsec[c] - 1
    BY <1>2, <2>1, <2>2, <2>3 DEF Waited, Tries, BackoffInv, BackoffType
  <2>5. QED
    BY <2>2, <2>3, <2>4 DEF Waited, Divides
<1>3. ASSUME NEW c \in Clients, state'[c] = "failed" PROVE GaveUp(c)'
  BY <1>3, TransferAssumption DEF BackoffInv, BackoffType, GaveUp
<1>4. QED
  BY <1>1, <1>2, <1>3 DEF BackoffInv

LEMMA BackoffKeeps == TcpInv /\ BackoffInv /\ [Next]_vars => BackoffInv'
<1> SUFFICES ASSUME TcpInv, BackoffInv, [Next]_vars PROVE BackoffInv'
  OBVIOUS
<1>0. state \in [Clients -> States]
  BY DEF TcpInv, ClientType
<1>1. CASE Listen \/ Server \/ Failure
  BY <1>1, BackoffQuiet
  DEF Listen, Server, Failure, Accept, SendLine, Finish, PopenFails, AcceptFails, Killed, CanSend,
      Dies, clientVars
<1>2. CASE Tick \/ UNCHANGED vars
  BY <1>2, BackoffQuiet DEF Tick, vars, serverVars, clientVars
<1>3. ASSUME NEW c \in Clients, Client(c) \/ Leave(c) PROVE BackoffInv'
  <2>1. CASE Refused(c)
    BY <2>1, RefusedKeeps
  <2>2. CASE Wake(c)
    BY <1>0, <2>2, BackoffQuiet DEF Wake, serverVars
  <2>3. CASE Connect(c) \/ EndOfStream(c) \/ RecvFails(c) \/ Leave(c)
    BY <1>0, <2>3, BackoffQuiet DEF Connect, EndOfStream, RecvFails, Leave, Ends, serverVars
  <2>4. ASSUME NEW n, Recv(c, n) PROVE BackoffInv'
    BY <2>4, BackoffQuiet DEF Recv, serverVars
  <2>5. QED
    BY <1>3, <2>1, <2>2, <2>3, <2>4 DEF Client
<1>4. QED
  BY <1>1, <1>2, <1>3 DEF Next

(* connect_retry gives up no sooner than MAXSLEEP - 1 seconds after it      *)
(* began, so that a server that listens by then is reached.                 *)
THEOREM LateIsSoonEnough == Spec => []GivesUpLate
<1>1. BackoffInv => GivesUpLate
  BY DEF BackoffInv, GivesUpLate, GaveUp
<1>2. Spec => []BackoffInv
  BY BackoffInit, BackoffKeeps, TcpInvHolds, PTL DEF Spec
<1>3. QED
  BY <1>1, <1>2, PTL
================================================================================
