------------------------------- MODULE UdpTransfer -------------------------------
(***************************************************************************)
(* The UDP server and its clients (udp_pc_to_tx2).  A request makes the    *)
(* process that takes it fork; parent and child each run a program, send   *)
(* its lines to the client, and go back to the one socket: every request   *)
(* leaves one server process more.  The network loses and reorders.        *)
(***************************************************************************)
EXTENDS Integers, Sequences, FiniteSets

CONSTANTS
  Clients,    \* client processes; each asks once
  MaxLines    \* bound: the lines a program prints

ASSUME UdpAssumption == IsFiniteSet(Clients) /\ MaxLines \in Nat

None  == "none"
Procs == 1 .. Cardinality(Clients) + 1

VARIABLES
  pc, addr, program, lines,   \* a server process: where it is, whom it serves,
                              \* the program it runs and the lines it has sent
  runs,       \* history: who has run which program for which client
  requests,   \* the datagrams in the server's socket
  net,        \* the datagrams under way to clients
  asker,     \* "idle", "waiting" with the alarm set, "streaming", "exited"
  saved       \* the lines a client has put in its file

udpServerVars == <<pc, addr, program, lines, runs>>
udpClientVars == <<asker, saved>>
udpVars == <<pc, addr, program, lines, runs, requests, net, asker, saved>>

UdpInit ==
  /\ pc = [p \in Procs |-> IF p = 1 THEN "recv" ELSE "none"]
  /\ addr = [p \in Procs |-> None]
  /\ program = [p \in Procs |-> None]
  /\ lines = [p \in Procs |-> 0]
  /\ runs = {}
  /\ requests = {}
  /\ net = {}
  /\ asker = [c \in Clients |-> "idle"]
  /\ saved = [c \in Clients |-> <<>>]
--------------------------------------------------------------------------------
(* The server's processes. *)

At(p, from, to) == pc[p] = from /\ pc' = [pc EXCEPT ![p] = to]

\* mutated: one buffer for the address in all processes
TakeShared(p) ==
  \E c \in requests :
    /\ At(p, "recv", "took")
    /\ requests' = requests \ {c}
    /\ addr' = [q \in Procs |-> c]
    /\ UNCHANGED <<program, lines, runs, net, udpClientVars>>

\* mutated: only the first process takes requests
TakeFirst(p) ==
  /\ p = 1
  /\ \E c \in requests :
       /\ At(p, "recv", "took")
       /\ requests' = requests \ {c}
       /\ addr' = [addr EXCEPT ![p] = c]
       /\ UNCHANGED <<program, lines, runs, net, udpClientVars>>

Take(p) ==
  \E c \in requests :
    /\ At(p, "recv", "took")
    /\ requests' = requests \ {c}
    /\ addr' = [addr EXCEPT ![p] = c]
    /\ UNCHANGED <<program, lines, runs, net, udpClientVars>>

\* mutated: "pid = 0" instead of "pid == 0"
ParentTwice(isChild) == "time_out1"

ProgramOf(isChild) == IF isChild THEN "time_out" ELSE "time_out1"

Unborn == CHOOSE q \in Procs : pc[q] = "none"

Fork(p) ==
  /\ pc[p] = "took"
  /\ \E q \in Procs : pc[q] = "none"
  /\ LET child == Unborn IN
     /\ pc' = [pc EXCEPT ![p] = "popen", ![child] = "popen"]
     /\ addr' = [addr EXCEPT ![child] = addr[p]]
     /\ program' = [program EXCEPT ![p] = ProgramOf(FALSE), ![child] = ProgramOf(TRUE)]
  /\ UNCHANGED <<lines, runs, requests, net, udpClientVars>>

\* recvfrom or fork fails: the process ends, and with it a request it has taken.
Exit(p) ==
  /\ At(p, "recv", "exited") \/ At(p, "took", "exited")
  /\ UNCHANGED <<addr, program, lines, runs, requests, net, udpClientVars>>

Line(p, n) == [to |-> addr[p], from |-> p, program |-> program[p], line |-> n]

Popen(p) ==
  /\ At(p, "popen", "running")
  /\ runs' = runs \cup {[client |-> addr[p], program |-> program[p], by |-> p]}
  /\ UNCHANGED <<addr, program, lines, requests, net, udpClientVars>>

PopenFails(p) ==
  /\ At(p, "popen", "recv")
  /\ net' = net \cup {Line(p, 0)}
  /\ UNCHANGED <<addr, program, lines, runs, requests, udpClientVars>>

SendLine(p) ==
  /\ pc[p] = "running" /\ lines[p] < MaxLines
  /\ lines' = [lines EXCEPT ![p] = @ + 1]
  /\ net' = net \cup {Line(p, lines[p] + 1)}
  /\ UNCHANGED <<pc, addr, program, runs, requests, udpClientVars>>

\* The program's output ends.
EndProgram(p) ==
  /\ At(p, "running", "recv")
  /\ lines' = [lines EXCEPT ![p] = 0]
  /\ UNCHANGED <<addr, program, runs, requests, net, udpClientVars>>
--------------------------------------------------------------------------------
(* The clients and the network. *)

Ask(c) ==
  /\ asker[c] = "idle"
  /\ asker' = [asker EXCEPT ![c] = "waiting"]
  /\ requests' = requests \cup {c}
  /\ UNCHANGED <<udpServerVars, net, saved>>

Receiving(c) == asker[c] \in {"waiting", "streaming"}

\* The first datagram cancels the alarm for good.
Save(c) ==
  /\ Receiving(c)
  /\ \E d \in net :
       /\ d.to = c
       /\ net' = net \ {d}
       /\ saved' = [saved EXCEPT ![c] = Append(@, d)]
  /\ asker' = [asker EXCEPT ![c] = "streaming"]
  /\ UNCHANGED <<udpServerVars, requests>>

\* recvfrom is interrupted, and the client ends.
Alarm(c) ==
  /\ asker[c] = "waiting"
  /\ asker' = [asker EXCEPT ![c] = "exited"]
  /\ UNCHANGED <<udpServerVars, requests, net, saved>>

Lose ==
  \/ \E c \in requests : requests' = requests \ {c} /\ UNCHANGED <<udpServerVars, net, udpClientVars>>
  \/ \E d \in net : net' = net \ {d} /\ UNCHANGED <<udpServerVars, requests, udpClientVars>>
--------------------------------------------------------------------------------
Serve(p) == Take(p) \/ Fork(p) \/ Exit(p) \/ Popen(p) \/ PopenFails(p)

UdpNext ==
  \/ \E p \in Procs : Serve(p) \/ SendLine(p) \/ EndProgram(p)
  \/ \E c \in Clients : Ask(c) \/ Save(c) \/ Alarm(c)
  \/ Lose

UdpSpec == UdpInit /\ [][UdpNext]_udpVars

\* Processes run on and alarms go off; a program need not print, nor end.
UdpFairSpec ==
  /\ UdpSpec
  /\ \A p \in Procs : WF_udpVars(Take(p)) /\ WF_udpVars(Fork(p) \/ (pc[p] = "took" /\ Exit(p)))
                      /\ WF_udpVars(Popen(p) \/ PopenFails(p))
  /\ \A c \in Clients : WF_udpVars(Alarm(c))
--------------------------------------------------------------------------------
(* For each request each of the two programs is run at most once, and not   *)
(* both by the same process.                                                *)
OnePairEach ==
  \A r, s \in runs : r.client = s.client /\ r # s => r.program # s.program /\ r.by # s.by

(* A client gets only lines of the programs run for its own request,        *)
(* whatever the processes that ran them serve by then, and no line twice.   *)
OwnLines ==
  \A c \in Clients : \A m, j \in DOMAIN saved[c] :
    /\ saved[c][m].line > 0 =>
         [client |-> c, program |-> saved[c][m].program, by |-> saved[c][m].from] \in runs
    /\ m # j => saved[c][m] # saved[c][j]

NoServer == \A p \in Procs : pc[p] \in {"none", "exited"}

(* A client that has not had a datagram does not wait for ever; and if no   *)
(* program runs for ever, a request that has come is taken, by whichever    *)
(* process is free, unless all of them have ended or it is lost.            *)
WaitsEnd ==
  /\ \A c \in Clients : asker[c] = "waiting" ~> asker[c] # "waiting"
  /\ (\A p \in Procs : []<>(pc[p] # "running")) =>
       \A c \in Clients : c \in requests ~> c \notin requests \/ NoServer
================================================================================
