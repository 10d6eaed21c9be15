---------------------------- MODULE SerialInterface ----------------------------
(***************************************************************************)
(* SerialInterface (on Linux): several objects, in one process or several, *)
(* that open the same port.  Each system call is a step.  The driver of    *)
(* the port, its lock and the device on the line are external; bytes are   *)
(* numbered, so that a queue is the interval between two counters.         *)
(***************************************************************************)
EXTENDS Integers

CONSTANTS
  Users,       \* the objects
  Options,     \* the options for a line that callers give to open
  MaxLength,   \* the largest number of bytes a caller asks for
  MaxBytes,    \* bound: bytes the device sends
  MaxOutput    \* bytes the output buffer holds

ASSUME SerialAssumption ==
  /\ Options \subseteq SUBSET {"set", "clear", "ignore", "flow"}
  /\ MaxLength \in Nat \ {0} /\ MaxBytes \in Nat /\ MaxOutput \in Nat

VARIABLES
  head, tail,   \* the bytes received and not read are head+1 .. tail
  tx,           \* bytes in the output buffer
  owner,        \* who has the lock, a set
  dtr,          \* the level of the line, which is set like RTS is
  plugged,      \* whether the device is there
  pc,           \* where each object is
  m_lastResult,
  call,         \* what an object that reads was asked for
  session,      \* history: up to where an object has read the bytes since its
                \* tcflush, what it has written and the line has not sent, and
                \* that no other object has flushed the port since
  asked         \* the options of the port open was given and has not failed to set

portVars == <<head, tail, tx, owner, dtr, plugged>>
userVars == <<pc, m_lastResult, call, session, asked>>
vars == <<head, tail, tx, owner, dtr, plugged, pc, m_lastResult, call, session, asked>>

NoCall  == [wait |-> FALSE, want |-> 0, have |-> 0]

NewSession == [seen |-> tail, due |-> 0, quiet |-> TRUE]
NoSession  == [seen |-> 0, due |-> 0, quiet |-> FALSE]

Init ==
  /\ head = 0 /\ tail = 0 /\ tx = 0
  /\ owner = {}
  /\ dtr = FALSE
  /\ plugged = TRUE
  /\ pc = [u \in Users |-> "closed"]
  /\ m_lastResult = [u \in Users |-> "OK"]
  /\ call = [u \in Users |-> NoCall]
  /\ session = [u \in Users |-> NoSession]
  /\ asked = [u \in Users |-> {}]
--------------------------------------------------------------------------------
(* The device and the driver. *)

InUse == \E u \in Users : pc[u] # "closed"

Receive ==
  /\ plugged /\ InUse /\ tail < MaxBytes
  /\ tail' = tail + 1
  /\ UNCHANGED <<head, tx, owner, dtr, plugged, userVars>>

Transmit ==
  /\ plugged /\ tx > 0
  /\ tx' = tx - 1
  /\ session' = [u \in Users |-> [session[u] EXCEPT !.due = IF u \in owner /\ @ > 0 THEN @ - 1 ELSE @]]
  /\ UNCHANGED <<head, tail, owner, dtr, plugged, pc, m_lastResult, call, asked>>

Unplug ==
  /\ plugged /\ InUse
  /\ plugged' = FALSE
  /\ UNCHANGED <<head, tail, tx, owner, dtr, userVars>>

\* mutated: TCIFLUSH
FlushedInput(u) ==
  /\ head' = tail
  /\ UNCHANGED tx
  /\ session' = [v \in Users |-> IF v = u THEN NewSession ELSE NoSession]

\* tcflush(TCIOFLUSH) throws away what either buffer holds, whoever calls it.
Flushed(u) ==
  /\ head' = tail
  /\ tx' = 0
  /\ session' = [v \in Users |-> IF v = u THEN NewSession ELSE NoSession]
--------------------------------------------------------------------------------
At(u, from, to) == pc[u] = from /\ pc' = [pc EXCEPT ![u] = to]

Sets(u, res) == m_lastResult' = [m_lastResult EXCEPT ![u] = res]

Open(u) ==
  /\ At(u, "closed", "opened")
  /\ plugged
  /\ \E opts \in Options : asked' = [asked EXCEPT ![u] = opts]
  /\ UNCHANGED <<portVars, m_lastResult, call, session>>

\* mutated: whoever comes first has the port
LockFree(u) == TRUE

\* flock(LOCK_EX | LOCK_NB) succeeds.
LockFor(u) == owner = {}

Lock(u) ==
  /\ IF LockFor(u) THEN At(u, "opened", "locked") /\ owner' = owner \cup {u}
     ELSE At(u, "opened", "refused") /\ UNCHANGED owner
  /\ UNCHANGED <<head, tail, tx, dtr, plugged, m_lastResult, call, session, asked>>

\* tcgetattr to tcsetattr.
Configure(u) ==
  /\ At(u, "locked", "configured")
  /\ UNCHANGED <<portVars, m_lastResult, call, session, asked>>

\* One of them fails: open returns the error and leaves the port open.
ConfigureFails(u) ==
  /\ At(u, "locked", "open")
  /\ asked' = [asked EXCEPT ![u] = {}]
  /\ UNCHANGED <<portVars, m_lastResult, call, session>>

FlushOnOpen(u) ==
  /\ At(u, "configured", "flushed")
  /\ Flushed(u)
  /\ UNCHANGED <<tail, owner, dtr, plugged, m_lastResult, call, asked>>

\* mutated: both options given count as clear
LevelClear(opts, old) ==
  IF "flow" \in opts THEN old ELSE "ignore" \in opts \/ "clear" \notin opts

\* applyHwControlLinesOptions for one line.
Level(opts, old) ==
  IF "flow" \in opts THEN old
  ELSE IF "ignore" \in opts \/ ("set" \in opts) = ("clear" \in opts) THEN TRUE
  ELSE "set" \in opts

\* TIOCMGET may fail, and leaves the level unknown; TIOCMSET may fail, and sets nothing:
\* both are ignored, as "OK for USB connected MkIV devices", and open returns XRV_OK.
SetLines(u) ==
  /\ At(u, "flushed", "open")
  /\ \/ plugged /\ (\E old \in BOOLEAN : dtr' = Level(asked[u], old)) /\ UNCHANGED asked
     \/ asked' = [asked EXCEPT ![u] = {}] /\ UNCHANGED dtr
  /\ Sets(u, "OK")
  /\ UNCHANGED <<head, tail, tx, owner, plugged, call, session>>

Idle(u) == pc[u] = "open"

\* closeLive, called by close, the destructor, and open when the lock is taken:
\* it flushes before it closes.
FlushOnClose(u) ==
  /\ pc[u] = "refused" \/ Idle(u)
  /\ pc' = [pc EXCEPT ![u] = "leaving"]
  /\ Flushed(u)
  /\ UNCHANGED <<tail, owner, dtr, plugged, m_lastResult, call, asked>>

Close(u) ==
  /\ At(u, "leaving", "closed")
  /\ Sets(u, IF u \in owner THEN "OK" ELSE "INPUTCANNOTBEOPENED")
  /\ owner' = owner \ {u}
  /\ asked' = [asked EXCEPT ![u] = {}]
  /\ session' = [session EXCEPT ![u] = NoSession]
  /\ UNCHANGED <<head, tail, tx, dtr, plugged, call>>

FlushData(u) ==
  /\ Idle(u)
  /\ Flushed(u)
  /\ Sets(u, "OK")
  /\ UNCHANGED <<pc, tail, owner, dtr, plugged, call, asked>>

\* The ioctls return -1 when they fail, and the code goes on only then: nothing
\* is set, and the result is OK when all calls have failed.
Escape(u) ==
  /\ Idle(u)
  /\ \E mask \in SUBSET {"DTR", "RTS"} :
       Sets(u, IF mask = {} \/ ~plugged THEN "OK" ELSE "ERROR")
  /\ UNCHANGED <<portVars, pc, call, session, asked>>

\* write takes n bytes; when it takes none, errno decides, and may be an old one.
WriteData(u, n) ==
  /\ Idle(u)
  /\ tx + n <= MaxOutput
  /\ IF n > 0 THEN plugged /\ Sets(u, "OK") ELSE Sets(u, "OK") \/ UNCHANGED m_lastResult
  /\ tx' = tx + n
  /\ session' = [session EXCEPT ![u].due = IF session[u].quiet THEN @ + n ELSE @]
  /\ UNCHANGED <<head, tail, owner, dtr, plugged, pc, call, asked>>
--------------------------------------------------------------------------------
(* readData and waitForData. *)

BeginRead(u, wait, n) ==
  /\ Idle(u)
  /\ pc' = [pc EXCEPT ![u] = "select"]
  /\ call' = [call EXCEPT ![u] = [wait |-> wait, want |-> n, have |-> 0]]
  /\ UNCHANGED <<portVars, m_lastResult, session, asked>>

\* waitForData returns what m_lastResult now holds; readData too, but for EAGAIN and EIO,
\* of which it tells its caller and m_lastResult knows nothing.
Return(u) ==
  /\ pc' = [pc EXCEPT ![u] = "open"]
  /\ call' = [call EXCEPT ![u] = NoCall]

\* mutated: no time is given to select
SelectForEver(u) ==
  /\ pc[u] = "select" /\ (head < tail \/ ~plugged)
  /\ pc' = [pc EXCEPT ![u] = "read"]
  /\ UNCHANGED <<m_lastResult, call>>
  /\ UNCHANGED <<portVars, session, asked>>

\* select: something can be read, nothing comes in time, or it fails.
Select(u) ==
  /\ pc[u] = "select"
  /\ IF head < tail \/ ~plugged
     THEN /\ pc' = [pc EXCEPT ![u] = "read"]
          /\ UNCHANGED <<m_lastResult, call>>
     ELSE Sets(u, "TIMEOUT") /\ Return(u)
  /\ UNCHANGED <<portVars, session, asked>>

SelectFails(u) ==
  /\ pc[u] = "select" /\ ~plugged
  /\ Sets(u, "ERROR") /\ Return(u)
  /\ UNCHANGED <<portVars, session, asked>>

\* The result of a call whose last read has ended well.
ResultOf(c) == IF c.wait /\ c.have < c.want THEN "TIMEOUT" ELSE "OK"

\* n bytes more.  While bytes are missing waitForData reads again, or the time is
\* over: it compares times of the day, so that behind midnight it may never be.
ReadOn(u, n) ==
  LET c == [call[u] EXCEPT !.have = @ + n] IN
  \/ /\ c.wait /\ c.have < c.want
     /\ pc' = [pc EXCEPT ![u] = "select"]
     /\ call' = [call EXCEPT ![u] = c]
     /\ Sets(u, "OK")
  \/ Return(u) /\ Sets(u, ResultOf(c))

ReadSome(u, n) ==
  /\ pc[u] = "read" /\ plugged
  /\ n <= tail - head /\ n <= call[u].want - call[u].have
  /\ head' = head + n
  /\ session' = [session EXCEPT ![u].seen = IF session[u].quiet THEN @ + n ELSE @]
  /\ ReadOn(u, n)
  /\ UNCHANGED <<tail, tx, owner, dtr, plugged, asked>>

\* read brings nothing: the port is gone, another one has flushed it, or read fails, as it
\* may at any time.  With EAGAIN or EIO, which may also be an old errno, readData returns
\* without touching m_lastResult, and waitForData returns what an earlier call has left there.
ReadNothing(u) ==
  /\ pc[u] = "read"
  /\ \/ (head = tail \/ ~plugged) /\ ReadOn(u, 0)
     \/ Return(u) /\ UNCHANGED m_lastResult
  /\ UNCHANGED <<portVars, session, asked>>
--------------------------------------------------------------------------------
Proceed(u) ==
  \/ Lock(u) \/ Configure(u) \/ ConfigureFails(u) \/ FlushOnOpen(u) \/ SetLines(u) \/ Close(u)
  \/ Select(u) \/ SelectFails(u) \/ ReadNothing(u)
  \/ \E n \in 1 .. MaxLength : ReadSome(u, n)

Request(u) ==
  \/ Open(u) \/ FlushOnClose(u) \/ FlushData(u) \/ Escape(u)
  \/ \E n \in 0 .. MaxLength : WriteData(u, n)
  \/ \E wait \in BOOLEAN, n \in 1 .. MaxLength : BeginRead(u, wait, n)

Next ==
  \/ Receive \/ Transmit \/ Unplug
  \/ \E u \in Users : Proceed(u) \/ Request(u)

Spec == Init /\ [][Next]_vars
--------------------------------------------------------------------------------
Using(u) == pc[u] \in {"locked", "configured", "flushed", "open", "select", "read"}

(* No two objects are behind the lock at a time, however their calls of     *)
(* open, their failures and their closing interleave.                       *)
Exclusive == \A u, v \in Users : Using(u) /\ Using(v) => u = v

(* Unless another object flushes the port, one that has opened it gets all  *)
(* the bytes received since then, and what writeData says it has written is *)
(* sent or still in the buffer.                                             *)
SeesAll ==
  \A u \in Users : pc[u] \in {"flushed", "open", "select", "read"} /\ session[u].quiet =>
    session[u].seen = head /\ session[u].due = tx

(* "returns XRV_OK if maxLength bytes were read, XRV_TIMEOUT if less was      *)
(* read" (serialinterface.cpp:709).  The code does not keep this.            *)
WaitOkIsWhole ==
  [][\A u \in Users :
       /\ call[u].wait /\ pc[u] \in {"select", "read"} /\ pc'[u] = "open"
       /\ m_lastResult'[u] = "OK"
       => call[u].have + (head' - head) = call[u].want]_vars

(* In a port where the driver has let open set the line, it has the level   *)
(* that the options ask for, low only when they ask for that and nothing    *)
(* else, whatever others have tried to do with the port since, and also if  *)
(* the level before could not be read.  Where the driver has refused, open  *)
(* has returned XRV_OK all the same, and the line is as it was.             *)
LinesAsAsked ==
  \A u \in Users : pc[u] \in {"open", "select", "read"} /\ plugged
                   /\ asked[u] # {} /\ "flow" \notin asked[u] =>
    dtr = (asked[u] # {"clear"})

(* A call that reads comes back even if its time is never over, while the   *)
(* device is there and nobody else flushes the port.                        *)
ReadEnds ==
  \A u \in Users : pc[u] = "select" ~> pc[u] = "open" \/ ~plugged \/ ~session[u].quiet

================================================================================
