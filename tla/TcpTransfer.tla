------------------------------ MODULE TcpTransfer ------------------------------
(***************************************************************************)
(* The TCP transfer of tpcudp: clients that connect with exponential       *)
(* backoff (connect_retry), and a server that serves them one at a time    *)
(* with the output of a program it runs for each.  The program, the listen *)
(* queue and the connections are external.                                 *)
(***************************************************************************)
EXTENDS Integers, Sequences

CONSTANTS
  Clients,
  QLen,        \* QLEN, the connections that may wait for accept
  Lines,       \* how many lines the program has printed when it ends, if it does
  BufLen,      \* how many lines fit a client's buf
  MaxSleep,    \* MAXSLEEP, in seconds
  MaxNow,      \* bound on the clock: MaxNow stands for that time and all later ones
  Recorders,   \* the clients that are those of "imu 1exe", which save to a file
  Troubled     \* whether clients may leave and system calls fail

ASSUME TransferAssumption ==
  /\ QLen \in Nat \ {0} /\ Lines \in Nat /\ BufLen \in Nat \ {0}
  /\ MaxSleep \in Nat \ {0} /\ MaxNow \in Nat /\ MaxNow >= MaxSleep - 1
  /\ Recorders \subseteq Clients /\ Troubled \in BOOLEAN

\* MAXSLEEP is 128, a power of two: no odd number but 1 divides it.
ASSUME BackoffAssumption == \A d, q \in 1 .. MaxSleep : d * q = MaxSleep => d = 1 \/ d % 2 = 0

None == "none"

VARIABLES
  now,        \* the time in seconds
  upSince,    \* when the server began to listen, -1 before
  server,     \* "off", "accepting", "serving", "dead"
  serving,    \* the client it serves
  runs,       \* how many times the program was run
  line,       \* how many lines of the present run were read, -1 for no run
  queue,      \* connections that wait for accept
  conn,       \* what is under way to each client
  ended,      \* the connections the server's end of which is closed
  state,      \* of each client: "trying", "sleeping", "connected" and its ends
              \* "done" (exit 0), "failed" (no connection), "error", "left"
  numsec,     \* the local of connect_retry
  wake,       \* when a sleep is over
  buf,        \* a client's buffer
  received,   \* history: what recv gave a client
  output      \* what a client wrote to its output or file

serverVars == <<upSince, server, serving, runs, line>>
clientVars == <<state, numsec, wake, buf, received, output>>
vars == <<now, upSince, server, serving, runs, line, queue, conn, ended,
          state, numsec, wake, buf, received, output>>

\* One fgets of a run of the program; the line of a failed popen.
Piece(run, n) == <<run, n>>
ErrorLine     == <<0, 0>>
Nul           == <<0, -1>>    \* a byte of buf that ends a string

Init ==
  /\ now = 0
  /\ upSince = -1
  /\ server = "off"
  /\ serving = None
  /\ runs = 0
  /\ line = -1
  /\ queue = <<>>
  /\ conn = [c \in Clients |-> <<>>]
  /\ ended = {}
  /\ state = [c \in Clients |-> "trying"]
  /\ numsec = [c \in Clients |-> 1]
  /\ wake = [c \in Clients |-> 0]
  /\ buf = [c \in Clients |-> [i \in 1 .. BufLen |-> Nul]]
  /\ received = [c \in Clients |-> <<>>]
  /\ output = [c \in Clients |-> <<>>]
--------------------------------------------------------------------------------
(* The server. *)

\* initserver: socket, bind and listen.
Listen ==
  /\ server = "off"
  /\ server' = "accepting"
  /\ upSince' = now
  /\ UNCHANGED <<now, serving, runs, line, queue, conn, ended, clientVars>>

\* accept and popen.
Accept ==
  /\ server = "accepting"
  /\ queue # <<>>
  /\ serving' = Head(queue)
  /\ queue' = Tail(queue)
  /\ server' = "serving"
  /\ runs' = runs + 1
  /\ line' = 0
  /\ UNCHANGED <<now, upSince, conn, ended, clientVars>>

\* popen fails: the error line is the answer.
PopenFails ==
  /\ Troubled
  /\ server = "serving"
  /\ line = 0
  /\ line' = -1
  /\ conn' = [conn EXCEPT ![serving] = Append(@, ErrorLine)]
  /\ UNCHANGED <<now, upSince, server, serving, runs, queue, ended, clientVars>>

\* The end of the process: the kernel closes what it had open.
Dies ==
  /\ server' = "dead"
  /\ ended' = Clients
  /\ UNCHANGED <<now, upSince, serving, runs, line, queue, conn, clientVars>>

AcceptFails == Troubled /\ server = "accepting" /\ Dies

CanSend == server = "serving" /\ line \in 0 .. Lines - 1

Here(c) == state[c] = "connected"

\* fgets and send; send's result is not looked at.
SendLine ==
  /\ CanSend
  /\ line' = line + 1
  /\ conn' = IF Here(serving)
             THEN [conn EXCEPT ![serving] = Append(@, Piece(runs, line'))] ELSE conn
  /\ UNCHANGED <<now, upSince, server, serving, runs, queue, ended, clientVars>>

\* The client is gone: a second send raises SIGPIPE.
Killed == CanSend /\ ~Here(serving) /\ Dies

\* mutated: nobody waits for the end of the program's output
FinishEarly ==
  /\ server = "serving"
  /\ line # 0
  /\ server' = "accepting"
  /\ ended' = ended \cup {serving}
  /\ UNCHANGED <<now, upSince, serving, runs, line, queue, conn, clientVars>>

\* mutated: the connection is not closed
FinishOpen ==
  /\ server = "serving"
  /\ line \in {-1, Lines}
  /\ server' = "accepting"
  /\ UNCHANGED <<now, upSince, serving, runs, line, queue, conn, ended, clientVars>>

\* The end of the program's output: pclose and close.
Finish ==
  /\ server = "serving"
  /\ line \in {-1, Lines}
  /\ server' = "accepting"
  /\ ended' = ended \cup {serving}
  /\ UNCHANGED <<now, upSince, serving, runs, line, queue, conn, clientVars>>
--------------------------------------------------------------------------------
(* The clients: connect_retry. *)

Listening == server \in {"accepting", "serving"}

\* connect waits while the listen queue is full.
Connect(c) ==
  /\ state[c] = "trying"
  /\ Listening
  /\ Len(queue) < QLen
  /\ queue' = Append(queue, c)
  /\ state' = [state EXCEPT ![c] = "connected"]
  /\ UNCHANGED <<now, serverVars, conn, ended, numsec, wake, buf, received, output>>

Sleep(c, seconds) ==
  /\ state' = [state EXCEPT ![c] = "sleeping"]
  /\ wake' = [wake EXCEPT ![c] = IF now + seconds < MaxNow THEN now + seconds ELSE MaxNow]
  /\ numsec' = [numsec EXCEPT ![c] = 2 * seconds]

GiveUp(c) ==
  /\ state' = [state EXCEPT ![c] = "failed"]
  /\ UNCHANGED <<wake, numsec>>

\* mutated: the last sleep and the try behind it are left out
RetryShort(c) == IF numsec[c] < MaxSleep \div 2 THEN Sleep(c, numsec[c]) ELSE GiveUp(c)

\* The delay doubles; behind the try of the last round there is none.
Retry(c) == IF numsec[c] <= MaxSleep \div 2 THEN Sleep(c, numsec[c]) ELSE GiveUp(c)

Refused(c) ==
  /\ state[c] = "trying"
  /\ ~Listening
  /\ Retry(c)
  /\ UNCHANGED <<now, serverVars, queue, conn, ended, buf, received, output>>

Wake(c) ==
  /\ state[c] = "sleeping"
  /\ now >= wake[c]
  /\ state' = [state EXCEPT ![c] = "trying"]
  /\ UNCHANGED <<now, serverVars, queue, conn, ended, numsec, wake, buf, received, output>>

Tick ==
  /\ now < MaxNow
  /\ now' = now + 1
  /\ UNCHANGED <<serverVars, queue, conn, ended, clientVars>>
--------------------------------------------------------------------------------
(* The clients: print_uptime. *)

\* The string buf holds, up to its first NUL.  A buffer without one goes on behind
\* its end, here with a NUL.
String(b) ==
  SubSeq(b, 1, CHOOSE n \in 0 .. BufLen :
                 /\ \A i \in 1 .. n : b[i] # Nul
                 /\ n < BufLen => b[n + 1] = Nul)

\* mutated: each client writes a string
WrittenAsString(c, new, b) == IF new = <<>> THEN new ELSE String(b)

\* What the client writes to its output or, that of "imu 1exe", to its file.
Written(c, new, b) == IF c \in Recorders THEN String(b) ELSE new

Recv(c, n) ==
  /\ Here(c)
  /\ n \in 1 .. Len(conn[c])
  /\ n <= BufLen
  /\ LET new == SubSeq(conn[c], 1, n)
         b   == [i \in 1 .. BufLen |-> IF i <= n THEN new[i] ELSE buf[c][i]]
     IN /\ buf' = [buf EXCEPT ![c] = b]
        /\ received' = [received EXCEPT ![c] = @ \o new]
        /\ output' = [output EXCEPT ![c] = @ \o Written(c, new, b)]
  /\ conn' = [conn EXCEPT ![c] = SubSeq(@, n + 1, Len(@))]
  /\ UNCHANGED <<now, serverVars, queue, ended, state, numsec, wake>>

Ends(c, how) ==
  /\ state' = [state EXCEPT ![c] = how]
  /\ UNCHANGED <<now, serverVars, queue, conn, ended, numsec, wake, buf, received, output>>

\* recv returns 0 behind the last byte: exit(0).
EndOfStream(c) == Here(c) /\ conn[c] = <<>> /\ c \in ended /\ Ends(c, "done")

\* The server died, and the connection is reset.
RecvFails(c) == Here(c) /\ server = "dead" /\ Ends(c, "error")

\* The user interrupts the client.
Leave(c) == Troubled /\ Here(c) /\ Ends(c, "left")
--------------------------------------------------------------------------------
Server == Accept \/ SendLine \/ Finish

Failure == PopenFails \/ AcceptFails \/ Killed

Client(c) ==
  \/ Connect(c) \/ Refused(c) \/ Wake(c)
  \/ \E n \in 1 .. BufLen : Recv(c, n)
  \/ EndOfStream(c) \/ RecvFails(c)

Next == Listen \/ Server \/ Failure \/ Tick \/ \E c \in Clients : Client(c) \/ Leave(c)

Spec == Init /\ [][Next]_vars

\* The processes run on and time passes; the server is started at some time.  The program
\* it runs need not print, or end: some of the repository's never do.  No failure is fair.
FairSpec ==
  /\ Spec
  /\ WF_vars(Listen) /\ WF_vars(Accept) /\ WF_vars(line = -1 /\ Finish) /\ WF_vars(Tick)
  /\ \A c \in Clients : WF_vars(Client(c))
--------------------------------------------------------------------------------
IsRun(s) == \A i \in DOMAIN s : s[i] = Piece(s[1][1], i)

\* s is in t, in order, with other elements between its own.
Within(s, t) ==
  \E at \in [DOMAIN s -> DOMAIN t] :
    /\ \A i \in DOMAIN s : s[i] = t[at[i]]
    /\ \A i, j \in DOMAIN s : i < j => at[i] < at[j]

(* A client receives the output of one run of the program, from its start   *)
(* and without a gap, or the error line, and no two clients share a run,    *)
(* however recv cuts the stream and whoever left before.  A client writes   *)
(* just that; in the file of one of "imu 1exe" lines of an earlier recv may *)
(* come between, but none is missing.                                       *)
OneRunEach ==
  /\ \A c \in Clients :
       /\ IsRun(received[c]) \/ received[c] = <<ErrorLine>>
       /\ IF c \in Recorders THEN Within(received[c], output[c]) ELSE output[c] = received[c]
  /\ \A c, d \in Clients :
       c # d /\ received[c] # <<>> /\ received[d] # <<>> /\ received[c] # <<ErrorLine>>
         => received[c][1] # received[d][1]

(* A client that ends with exit(0) has all of the program's output, unless  *)
(* the server died: it cannot tell that end from the other.                 *)
DoneIsWhole ==
  \A c \in Clients :
    state[c] = "done" /\ server # "dead" =>
      Len(received[c]) = Lines \/ received[c] = <<ErrorLine>>

(* connect_retry gives up no sooner than MAXSLEEP - 1 seconds after it      *)
(* began: a server listening by then, and alive, is reached.                *)
GivesUpLate ==
  \A c \in Clients :
    state[c] = "failed" =>
      /\ now >= MaxSleep - 1
      /\ server # "dead" /\ upSince # -1 => upSince >= MaxSleep - 1

(* Unless the server runs one program for ever, every client comes to an    *)
(* end, served or not: nobody waits for ever for a server that has died or  *)
(* is held up by another client.  Behind a program that never ends, and     *)
(* whose client stays, the next client waits for ever.                      *)
EveryClientEnds ==
  []<>(server # "serving") =>
    \A c \in Clients : <>(state[c] \in {"done", "failed", "error", "left"})
================================================================================
