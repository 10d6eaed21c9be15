-------------------------- MODULE DeviceStreams_proofs --------------------------
(***************************************************************************)
(* One object at a time has a port, for any number of objects, options,    *)
(* interfaces and bytes, and misses nothing unless another one flushes it. *)
(* At the terminal of the GPS receiver, while no bridge has set it and it  *)
(* has had room, the logger logs whole sentences and cannot step over its  *)
(* total, for sentences of any length and any total.                       *)
(***************************************************************************)
EXTENDS DeviceStreams, GpsLogger, FiniteSetTheorems, SequenceTheorems,
        WellFoundedInduction, TLAPS

Sessions == [seen : Int, due : Int, quiet : BOOLEAN]

Places == {"closed", "opened", "locked", "refused", "configured", "flushed", "open", "select",
           "read", "leaving"}

PortType ==
  /\ head \in Int /\ tail \in Int /\ tx \in Nat
  /\ owner \subseteq Users
  /\ pc \in [Users -> Places]
  /\ session \in [Users -> Sessions]

Fresh(u)  == pc[u] \in {"closed", "opened", "locked", "configured", "refused"}
Steady(u) == pc[u] \in {"flushed", "open", "select", "read"}

(* The lock has one owner at most, and whoever is behind it is the owner.   *)
OneOwner ==
  /\ \A u, v \in owner : u = v
  /\ \A u \in Users : Using(u) => u \in owner

(* A session begins with a flush.                                           *)
BeginsClean == \A u \in Users : Fresh(u) => ~session[u].quiet

SerialInv == PortType /\ OneOwner /\ BeginsClean /\ SeesAll

LEMMA SessionTypes ==
  /\ NoSession \in Sessions /\ ~NoSession.quiet
  /\ tail \in Int => NewSession \in Sessions
  /\ NewSession.seen = tail /\ NewSession.due = 0
BY DEF NoSession, NewSession, Sessions

LEMMA SerialInit == Init => SerialInv
<1> SUFFICES ASSUME Init PROVE SerialInv
  OBVIOUS
<1>1. pc = [u \in Users |-> "closed"] /\ session = [u \in Users |-> NoSession]
  BY DEF Init
<1>2. PortType
  BY <1>1, SessionTypes DEF Init, PortType, Places
<1>3. OneOwner /\ SeesAll
  BY <1>1 DEF Init, OneOwner, Using, SeesAll
<1>4. BeginsClean
  BY <1>1, SessionTypes DEF BeginsClean
<1>5. QED
  BY <1>2, <1>3, <1>4 DEF SerialInv

(* A step of one object that leaves the port and the sessions alone.        *)
LEMMA QuietStep ==
  ASSUME SerialInv, NEW u \in Users, NEW to \in Places, pc' = [pc EXCEPT ![u] = to],
         UNCHANGED <<head, tail, tx, owner, session>>,
         to \in {"locked", "configured", "flushed", "open", "select", "read"} => u \in owner,
         to \in {"flushed", "open", "select", "read"} => Steady(u) \/ ~session[u].quiet,
         to \in {"closed", "opened", "locked", "configured", "refused"} => Fresh(u)
  PROVE  SerialInv'
<1> USE DEF SerialInv, PortType
<1>1. PortType'
  OBVIOUS
<1>2. OneOwner'
  BY DEF OneOwner, Using
<1>3. BeginsClean'
  BY DEF BeginsClean, Fresh
<1>4. SeesAll'
  BY DEF SeesAll, Steady
<1>5. QED
  BY <1>1, <1>2, <1>3, <1>4

(* A flush by an object behind the lock, or by one that leaves.             *)
LEMMA FlushStep ==
  ASSUME SerialInv, NEW u \in Users, NEW to \in {"flushed", "open", "leaving"},
         pc' = [pc EXCEPT ![u] = to], UNCHANGED <<tail, owner>>, Flushed(u),
         to # "leaving" => u \in owner
  PROVE  SerialInv'
<1> USE DEF SerialInv, PortType
<1>1. /\ session'[u] = NewSession /\ session' \in [Users -> Sessions]
      /\ \A v \in Users : v # u => ~session'[v].quiet
  BY SessionTypes DEF Flushed
<1>2. PortType'
  BY <1>1 DEF Flushed, Places
<1>3. OneOwner'
  BY DEF OneOwner, Using
<1>4. BeginsClean'
  BY <1>1 DEF BeginsClean, Fresh
<1>5. SeesAll'
  BY <1>1, SessionTypes DEF SeesAll, Flushed
<1>6. QED
  BY <1>2, <1>3, <1>4, <1>5

(* Bytes written or read by the one object behind the lock.                 *)
LEMMA TransferStep ==
  ASSUME SerialInv, NEW u \in Users, Steady(u), NEW to \in {"open", "select"},
         pc' = [pc EXCEPT ![u] = to], UNCHANGED <<tail, owner>>,
         NEW read \in Nat, NEW written \in Nat, head' = head + read, tx' = tx + written,
         session' \in [Users -> Sessions],
         \A v \in Users \ {u} : session'[v] = session[v],
         session'[u].quiet = session[u].quiet,
         session[u].quiet => /\ session'[u].seen = session[u].seen + read
                             /\ session'[u].due = session[u].due + written
  PROVE  SerialInv'
<1>0. head \in Int /\ tail \in Int /\ tx \in Nat /\ owner \subseteq Users /\ pc \in [Users -> Places]
  BY DEF SerialInv, PortType
<1>1. PortType'
  <2>1. head' \in Int /\ tx' \in Nat
    BY <1>0
  <2>2. pc' \in [Users -> Places]
    BY <1>0 DEF Places
  <2>3. QED
    BY <1>0, <2>1, <2>2 DEF PortType
<1> USE DEF SerialInv, PortType
<1>2. OneOwner'
  BY DEF OneOwner, Using, Steady
<1>3. BeginsClean'
  BY DEF BeginsClean, Fresh
<1>4. SeesAll'
  <2> SUFFICES ASSUME NEW v \in Users, Steady(v)', session'[v].quiet
               PROVE  session'[v].seen = head' /\ session'[v].due = tx'
    BY DEF SeesAll, Steady
  <2>1. v = u
    BY DEF OneOwner, Using, Steady
  <2>2. QED
    BY <2>1 DEF SeesAll, Steady
<1>5. QED
  BY <1>1, <1>2, <1>3, <1>4

LEMMA ProceedKeeps == ASSUME SerialInv, NEW u \in Users, Proceed(u) PROVE SerialInv'
<1> USE DEF portVars, At, Return
<1>1. CASE Lock(u)
  <2>1. CASE LockFor(u)
    <3>1. /\ owner = {} /\ owner' = {u} /\ pc[u] = "opened" /\ pc' = [pc EXCEPT ![u] = "locked"]
          /\ UNCHANGED <<head, tail, tx, session>>
      BY <1>1, <2>1 DEF Lock, LockFor
    <3>2. PortType' /\ OneOwner'
      BY <3>1 DEF SerialInv, PortType, OneOwner, Using, Places
    <3>3. BeginsClean' /\ SeesAll'
      BY <3>1 DEF SerialInv, PortType, BeginsClean, Fresh, SeesAll
    <3>4. QED
      BY <3>2, <3>3 DEF SerialInv
  <2>2. CASE ~LockFor(u)
    BY <1>1, <2>2, QuietStep DEF Lock, Fresh, Places
  <2>3. QED
    BY <2>1, <2>2
<1>2. CASE Configure(u)
  BY <1>2, QuietStep DEF Configure, Fresh, Places, SerialInv, OneOwner, Using
<1>3. CASE ConfigureFails(u)
  BY <1>3, QuietStep DEF ConfigureFails, Fresh, Places, SerialInv, OneOwner, BeginsClean, Using
<1>4. CASE FlushOnOpen(u)
  BY <1>4, FlushStep DEF FlushOnOpen, SerialInv, OneOwner, Using
<1>5. CASE SetLines(u)
  BY <1>5, QuietStep DEF SetLines, Places, SerialInv, OneOwner, Steady, Using
<1>6. CASE Close(u)
  <2>1. /\ pc' = [pc EXCEPT ![u] = "closed"] /\ owner' = owner \ {u}
        /\ session' = [session EXCEPT ![u] = NoSession] /\ UNCHANGED <<head, tail, tx>>
    BY <1>6 DEF Close
  <2>2. PortType' /\ OneOwner'
    BY <2>1, SessionTypes DEF SerialInv, PortType, OneOwner, Using, Places
  <2>3. BeginsClean' /\ SeesAll'
    BY <2>1, SessionTypes DEF SerialInv, PortType, BeginsClean, Fresh, SeesAll
  <2>4. QED
    BY <2>2, <2>3 DEF SerialInv
<1>7. CASE Select(u) \/ SelectFails(u) \/ ReadNothing(u)
  <2>1. /\ pc[u] \in {"select", "read"}
        /\ \E to \in {"open", "select", "read"} : pc' = [pc EXCEPT ![u] = to]
        /\ UNCHANGED <<head, tail, tx, owner, session>>
    BY <1>7 DEF Select, SelectFails, ReadNothing, ReadOn
  <2>2. QED
    BY <2>1, QuietStep DEF Places, SerialInv, OneOwner, Steady, Using
<1>8. ASSUME NEW n \in 1 .. MaxLength, ReadSome(u, n) PROVE SerialInv'
  <2>1. /\ pc[u] = "read" /\ head' = head + n /\ UNCHANGED <<tail, owner, tx>>
        /\ session' = [session EXCEPT ![u].seen = IF session[u].quiet THEN @ + n ELSE @]
        /\ \E to \in {"open", "select"} : pc' = [pc EXCEPT ![u] = to]
    BY <1>8 DEF ReadSome, ReadOn
  <2>2. n \in Nat /\ tx' = tx + 0
    BY <2>1, SerialAssumption DEF SerialInv, PortType
  <2>3. /\ session' \in [Users -> Sessions]
        /\ \A v \in Users \ {u} : session'[v] = session[v]
        /\ session'[u].quiet = session[u].quiet
        /\ session[u].quiet => /\ session'[u].seen = session[u].seen + n
                               /\ session'[u].due = session[u].due + 0
    BY <2>1, <2>2 DEF SerialInv, PortType, Sessions
  <2>4. QED
    BY <2>1, <2>2, <2>3, TransferStep DEF Steady
<1>9. QED
  BY <1>1, <1>2, <1>3, <1>4, <1>5, <1>6, <1>7, <1>8 DEF Proceed

LEMMA RequestKeeps == ASSUME SerialInv, NEW u \in Users, Request(u) PROVE SerialInv'
<1> USE DEF portVars, At
<1>1. CASE Open(u)
  BY <1>1, QuietStep DEF Open, Fresh, Places
<1>2. CASE FlushOnClose(u)
  BY <1>2, FlushStep DEF FlushOnClose
<1>3. CASE FlushData(u)
  <2>1. pc' = [pc EXCEPT ![u] = "open"]
    BY <1>3 DEF FlushData, Idle, SerialInv, PortType
  <2>2. QED
    BY <1>3, <2>1, FlushStep DEF FlushData, Idle, SerialInv, OneOwner, Using
<1>4. CASE Escape(u)
  <2>1. pc' = [pc EXCEPT ![u] = "open"]
    BY <1>4 DEF Escape, Idle, SerialInv, PortType
  <2>2. QED
    BY <1>4, <2>1, QuietStep DEF Escape, Idle, Places, SerialInv, OneOwner, Steady, Using
<1>5. ASSUME NEW n \in 0 .. MaxLength, WriteData(u, n) PROVE SerialInv'
  <2>1. /\ pc[u] = "open" /\ tx' = tx + n /\ UNCHANGED <<head, tail, owner>>
        /\ session' = [session EXCEPT ![u].due = IF session[u].quiet THEN @ + n ELSE @]
        /\ pc' = [pc EXCEPT ![u] = "open"]
    BY <1>5 DEF WriteData, Idle, SerialInv, PortType
  <2>2. n \in Nat /\ head' = head + 0
    BY <2>1, SerialAssumption DEF SerialInv, PortType
  <2>3. /\ session' \in [Users -> Sessions]
        /\ \A v \in Users \ {u} : session'[v] = session[v]
        /\ session'[u].quiet = session[u].quiet
        /\ session[u].quiet => /\ session'[u].due = session[u].due + n
                               /\ session'[u].seen = session[u].seen + 0
    BY <2>1, <2>2 DEF SerialInv, PortType, Sessions
  <2>4. QED
    BY <2>1, <2>2, <2>3, TransferStep DEF Steady
<1>6. ASSUME NEW wait \in BOOLEAN, NEW n \in 1 .. MaxLength, BeginRead(u, wait, n)
      PROVE  SerialInv'
  BY <1>6, QuietStep DEF BeginRead, Idle, Places, SerialInv, OneOwner, Steady, Using
<1>7. QED
  BY <1>1, <1>2, <1>3, <1>4, <1>5, <1>6 DEF Request

LEMMA SerialStepKeeps == SerialInv /\ [Next]_vars => SerialInv'
<1> SUFFICES ASSUME SerialInv, [Next]_vars PROVE SerialInv'
  OBVIOUS
<1>1. CASE Receive
  BY <1>1 DEF Receive, userVars, SerialInv, PortType, OneOwner, BeginsClean, Fresh, SeesAll, Using
<1>2. CASE Transmit
  <2>1. /\ tx > 0 /\ tx' = tx - 1 /\ UNCHANGED <<head, tail, owner, pc>>
        /\ session' = [u \in Users |->
             [session[u] EXCEPT !.due = IF u \in owner /\ @ > 0 THEN @ - 1 ELSE @]]
    BY <1>2 DEF Transmit
  <2>2. PortType' /\ \A u \in Users : /\ session'[u].quiet = session[u].quiet
                                      /\ session'[u].seen = session[u].seen
    BY <2>1 DEF SerialInv, PortType, Sessions
  <2>3. OneOwner' /\ BeginsClean'
    BY <2>1, <2>2 DEF SerialInv, OneOwner, BeginsClean, Fresh, Using
  <2>4. SeesAll'
    <3> SUFFICES ASSUME NEW u \in Users, Steady(u), session[u].quiet
                 PROVE  session'[u].seen = head /\ session'[u].due = tx - 1
      BY <2>1, <2>2 DEF SeesAll, Steady
    <3>1. u \in owner /\ session[u].seen = head /\ session[u].due = tx
      BY DEF SerialInv, OneOwner, SeesAll, Steady, Using
    <3>2. QED
      BY <2>1, <2>2, <3>1 DEF SerialInv, PortType, Sessions
  <2>5. QED
    BY <2>2, <2>3, <2>4 DEF SerialInv
<1>3. CASE Unplug
  BY <1>3 DEF Unplug, userVars, SerialInv, PortType, OneOwner, BeginsClean, Fresh, SeesAll, Using
<1>4. CASE UNCHANGED vars
  BY <1>4 DEF vars, SerialInv, PortType, OneOwner, BeginsClean, Fresh, SeesAll, Using
<1>5. QED
  BY <1>1, <1>2, <1>3, <1>4, ProceedKeeps, RequestKeeps DEF Next
--------------------------------------------------------------------------------
(* The lines: only the object behind the lock sets them.                    *)

(* The options are sets of those there are.                                 *)
AskedType == asked \in [Users -> SUBSET {"set", "clear", "ignore", "flow"}]

LineInv == SerialInv /\ AskedType /\ LinesAsAsked

LEMMA LineStep ==
  ASSUME LineInv, plugged' => plugged, UNCHANGED <<dtr, asked>>,
         \A u \in Users : pc'[u] \in {"open", "select", "read"} =>
                            pc[u] \in {"open", "select", "read"}
  PROVE  AskedType' /\ LinesAsAsked'
<1>1. AskedType'
  BY DEF LineInv, AskedType
<1>2. QED
  BY <1>1 DEF LineInv, LinesAsAsked

(* The level that open asks for does not depend on the one before.          *)
LEMMA LevelAsked ==
  ASSUME NEW opts \in SUBSET {"set", "clear", "ignore", "flow"}, opts # {}, "flow" \notin opts,
         NEW old
  PROVE  Level(opts, old) = (opts # {"clear"})
<1>1. opts \subseteq {"set", "clear", "ignore"}
  OBVIOUS
<1>2. opts = {"clear"} <=> "clear" \in opts /\ "set" \notin opts /\ "ignore" \notin opts
  BY <1>1
<1>3. "clear" \in opts \/ "set" \in opts \/ "ignore" \in opts
  BY <1>1
<1>4. CASE opts = {"clear"}
  <2>1. Level(opts, old) = FALSE
    BY <1>2, <1>4 DEF Level
  <2>2. QED
    BY <1>4, <2>1
<1>5. CASE opts # {"clear"}
  BY <1>2, <1>3, <1>5 DEF Level
<1>6. QED
  BY <1>4, <1>5

(* A step of one object, which asks anew, or gives up what it asked for.    *)
LEMMA LineAsks ==
  ASSUME LineInv, NEW u \in Users, UNCHANGED <<plugged, dtr>>,
         NEW new \in SUBSET {"set", "clear", "ignore", "flow"},
         asked' = [asked EXCEPT ![u] = new],
         pc'[u] \in {"open", "select", "read"} => new = {},
         \A v \in Users \ {u} : pc'[v] = pc[v]
  PROVE  AskedType' /\ LinesAsAsked'
BY DEF LineInv, AskedType, LinesAsAsked

(* A step of one object, which gets what it asked for, or asks anew.        *)
LEMMA LineProceed ==
  ASSUME LineInv, NEW u \in Users, Proceed(u) \/ Request(u)
  PROVE  AskedType' /\ LinesAsAsked'
<1>0. pc \in [Users -> Places]
  BY DEF LineInv, SerialInv, PortType
<1>1. CASE SetLines(u)
  <2>1. /\ pc[u] = "flushed" /\ pc' = [pc EXCEPT ![u] = "open"] /\ UNCHANGED plugged
    BY <1>1 DEF SetLines, At
  <2>2. \A v \in Users : pc'[v] \in {"open", "select", "read"} => v = u
    BY <1>0, <2>1 DEF LineInv, SerialInv, OneOwner, Using
  <2>3. CASE UNCHANGED dtr /\ asked' = [asked EXCEPT ![u] = {}]
    <3>1. \A v \in Users \ {u} : pc'[v] = pc[v]
      BY <1>0, <2>1
    <3>2. QED
      BY <2>1, <2>3, <3>1, LineAsks
  <2>4. ASSUME NEW old \in BOOLEAN, dtr' = Level(asked[u], old), UNCHANGED asked
        PROVE  AskedType' /\ LinesAsAsked'
    <3>1. AskedType' /\ asked[u] \in SUBSET {"set", "clear", "ignore", "flow"}
      BY <2>4 DEF LineInv, AskedType
    <3>2. asked[u] # {} /\ "flow" \notin asked[u] => dtr' = (asked[u] # {"clear"})
      BY <2>4, <3>1, LevelAsked
    <3>3. QED
      BY <2>1, <2>2, <2>4, <3>1, <3>2 DEF LinesAsAsked
  <2>5. QED
    BY <1>1, <2>3, <2>4 DEF SetLines
<1>2. CASE Open(u) \/ ConfigureFails(u) \/ Close(u)
  <2>1. /\ UNCHANGED <<plugged, dtr>>
        /\ \E new \in SUBSET {"set", "clear", "ignore", "flow"} :
             /\ asked' = [asked EXCEPT ![u] = new]
             /\ pc'[u] \in {"open", "select", "read"} => new = {}
        /\ \A v \in Users \ {u} : pc'[v] = pc[v]
    BY <1>0, <1>2, SerialAssumption DEF Open, ConfigureFails, Close, At, portVars
  <2>2. QED
    BY <2>1, LineAsks
<1>3. CASE Lock(u) \/ Configure(u) \/ FlushOnOpen(u) \/ FlushOnClose(u) \/ Select(u)
           \/ SelectFails(u) \/ ReadNothing(u) \/ FlushData(u) \/ Escape(u)
  <2>1. UNCHANGED <<plugged, dtr, asked>>
    BY <1>3 DEF Lock, Configure, FlushOnOpen, FlushOnClose, Select, SelectFails, ReadNothing,
                FlushData, Escape, portVars
  <2>2. \A v \in Users : pc'[v] \in {"open", "select", "read"} =>
                           pc[v] \in {"open", "select", "read"}
    BY <1>0, <1>3 DEF Lock, Configure, FlushOnOpen, FlushOnClose, Select, SelectFails,
                      ReadNothing, ReadOn, Return, FlushData, Escape, At
  <2>3. QED
    BY <2>1, <2>2, LineStep
<1>4. ASSUME NEW n \in Nat, ReadSome(u, n) \/ WriteData(u, n) PROVE AskedType' /\ LinesAsAsked'
  BY <1>0, <1>4, LineStep DEF ReadSome, ReadOn, Return, WriteData
<1>5. ASSUME NEW wait \in BOOLEAN, NEW n \in 1 .. MaxLength, BeginRead(u, wait, n)
      PROVE  AskedType' /\ LinesAsAsked'
  BY <1>0, <1>5, LineStep DEF BeginRead, Idle, portVars
<1>6. 0 .. MaxLength \subseteq Nat
  BY SerialAssumption
<1>7. QED
  BY <1>1, <1>2, <1>3, <1>4, <1>5, <1>6 DEF Proceed, Request

LEMMA LineKeeps == LineInv /\ [Next]_vars => AskedType' /\ LinesAsAsked'
<1> SUFFICES ASSUME LineInv, [Next]_vars PROVE AskedType' /\ LinesAsAsked'
  OBVIOUS
<1>1. CASE Receive \/ Transmit \/ Unplug \/ UNCHANGED vars
  BY <1>1, LineStep DEF Receive, Transmit, Unplug, vars, userVars
<1>2. CASE \E u \in Users : Proceed(u) \/ Request(u)
  BY <1>2, LineProceed
<1>3. QED
  BY <1>1, <1>2 DEF Next
--------------------------------------------------------------------------------
(* The USB device.                                                          *)

Claiming == {"query", "detach", "claim"}

UsbType ==
  /\ holder \in [Interfaces -> UsbUsers \cup {Nobody}]
  /\ interface \in [UsbUsers -> Interfaces]
  /\ DOMAIN at = UsbUsers

(* In the claiming loop an object has the interfaces before the one it has  *)
(* reached; behind it, all.                                                 *)
HasClaimed ==
  usbPlugged => \A u \in UsbUsers : \A i \in Interfaces :
    \/ at[u] \in Claiming /\ i < interface[u]
    \/ at[u] \in {"flush", "open", "transfer"}
    => holder[i] = u

UsbInv == UsbType /\ HasClaimed

LEMMA InterfaceNumbers == 0 \in Interfaces /\ Interfaces \subseteq Nat
BY UsbAssumption DEF Interfaces

LEMMA UsbInitInv == UsbInit => UsbInv
BY InterfaceNumbers DEF UsbInit, UsbInv, UsbType, HasClaimed, Claiming

(* A step of one object to a place where it needs no more than it has.      *)
LEMMA UsbMove ==
  ASSUME UsbInv, NEW u \in UsbUsers, NEW from, NEW to, NEW i \in Interfaces, GoTo(u, from, to, i),
         UNCHANGED <<usbPlugged, holder>>,
         to \in Claiming => i = 0 \/ (from \in Claiming /\ i = interface[u]),
         to \in {"flush", "open", "transfer"} => from \in {"flush", "open", "transfer"}
  PROVE  UsbInv'
<1>1. UsbType'
  BY DEF UsbInv, UsbType, GoTo
<1>2. \A j \in Interfaces : ~(j < 0)
  BY InterfaceNumbers
<1>3. HasClaimed'
  BY <1>2 DEF UsbInv, UsbType, HasClaimed, GoTo
<1>4. QED
  BY <1>1, <1>3 DEF UsbInv

(* Somebody gives back an interface, at the end of having the device.       *)
LEMMA UsbGive ==
  ASSUME UsbInv, NEW u \in UsbUsers, NEW to \in {"rebind", "attach", "closed"},
         NEW i \in Interfaces, NEW from, GoTo(u, from, to, i), UNCHANGED usbPlugged,
         holder' \in [Interfaces -> UsbUsers \cup {Nobody}],
         \A j \in Interfaces : holder[j] # u => holder'[j] = holder[j]
  PROVE  UsbInv'
<1>1. UsbType'
  BY DEF UsbInv, UsbType, GoTo
<1>2. HasClaimed'
  BY DEF UsbInv, UsbType, HasClaimed, GoTo, Claiming
<1>3. QED
  BY <1>1, <1>2 DEF UsbInv

LEMMA ClaimKeeps == ASSUME UsbInv, NEW u \in UsbUsers, Claim(u) PROVE UsbInv'
<1>0. interface[u] \in Interfaces /\ 0 \in Interfaces
  BY InterfaceNumbers DEF UsbInv, UsbType
<1>1. CASE ClaimLoopFails(u, "claim") /\ UNCHANGED holder
  BY <1>0, <1>1, UsbMove DEF Claim, ClaimLoopFails, Claiming
<1>2. CASE /\ Claimable(interface[u]) /\ Further(u, "claim", "query", "flush")
           /\ holder' = [holder EXCEPT ![interface[u]] = u]
  <2>1. /\ at[u] = "claim" /\ holder[interface[u]] = Nobody
        /\ holder' = [holder EXCEPT ![interface[u]] = u] /\ usbPlugged' = usbPlugged /\ usbPlugged
    BY <1>2 DEF Claim, Claimable, Further, GoTo
  <2>2. \A v \in UsbUsers, j \in Interfaces : holder[j] = v => holder'[j] = v
    BY <2>1, UsbAssumption DEF UsbInv, UsbType
  <2>3. holder' \in [Interfaces -> UsbUsers \cup {Nobody}] /\ holder'[interface[u]] = u
    BY <1>0, <2>1 DEF UsbInv, UsbType
  <2>4. \A j \in Interfaces : j <= interface[u] => holder'[j] = u
    <3> SUFFICES ASSUME NEW j \in Interfaces, j <= interface[u] PROVE holder'[j] = u
      OBVIOUS
    <3>1. j = interface[u] \/ j < interface[u]
      BY <1>0, UsbAssumption DEF Interfaces
    <3>2. QED
      BY <2>1, <2>2, <2>3, <3>1 DEF UsbInv, HasClaimed, Claiming
  <2>5. CASE interface[u] + 1 < NumInterfaces
    <3>1. GoTo(u, "claim", "query", interface[u] + 1) /\ interface[u] + 1 \in Interfaces
      BY <1>0, <1>2, <2>5, UsbAssumption DEF Further, Interfaces
    <3>2. \A j \in Interfaces : j < interface[u] + 1 => j <= interface[u]
      BY <1>0, UsbAssumption DEF Interfaces
    <3>3. UsbType'
      BY <2>3, <3>1 DEF UsbInv, UsbType, GoTo
    <3>4. HasClaimed'
      BY <2>1, <2>2, <2>4, <3>1, <3>2 DEF UsbInv, UsbType, HasClaimed, GoTo
    <3>5. QED
      BY <3>3, <3>4 DEF UsbInv
  <2>6. CASE ~(interface[u] + 1 < NumInterfaces)
    <3>1. GoTo(u, "claim", "flush", 0)
      BY <1>2, <2>6 DEF Further
    <3>2. \A j \in Interfaces : j <= interface[u]
      BY <1>0, <2>6, UsbAssumption DEF Interfaces
    <3>3. UsbType'
      BY <1>0, <2>3, <3>1 DEF UsbInv, UsbType, GoTo
    <3>4. HasClaimed'
      BY <2>1, <2>2, <2>4, <3>1, <3>2 DEF UsbInv, UsbType, HasClaimed, GoTo, Claiming
    <3>5. QED
      BY <3>3, <3>4 DEF UsbInv
  <2>7. QED
    BY <2>5, <2>6
<1>3. QED
  BY <1>1, <1>2 DEF Claim

LEMMA UsbProceedKeeps == ASSUME UsbInv, NEW u \in UsbUsers, UsbProceed(u) PROVE UsbInv'
<1>0. interface[u] \in Interfaces /\ 0 \in Interfaces
  BY InterfaceNumbers DEF UsbInv, UsbType
<1>1. CASE Query(u)
  BY <1>0, <1>1, UsbMove DEF Query, ClaimLoopFails, Claiming
<1>2. CASE Detach(u)
  BY <1>0, <1>2, UsbMove DEF Detach, ClaimLoopFails, Claiming
<1>3. CASE Claim(u)
  BY <1>3, ClaimKeeps
<1>4. CASE Unwind(u) \/ Release(u)
  <2>1. \E i, k \in Interfaces : \E from, to \in {"rebind", "attach", "unwind", "release"} :
          /\ to \in {"rebind", "attach"} /\ GoTo(u, from, to, i)
          /\ holder[k] = u /\ holder' = [holder EXCEPT ![k] = Nobody]
          /\ UNCHANGED usbPlugged
    BY <1>0, <1>4 DEF Unwind, Release, Releases
  <2>2. holder' \in [Interfaces -> UsbUsers \cup {Nobody}]
    BY <2>1 DEF UsbInv, UsbType
  <2>3. \A j \in Interfaces : holder[j] # u => holder'[j] = holder[j]
    BY <2>1 DEF UsbInv, UsbType
  <2>4. QED
    BY <2>1, <2>2, <2>3, UsbGive
<1>5. CASE Drop(u)
  <2>1. /\ GoTo(u, "drop", "closed", 0) /\ UNCHANGED usbPlugged
        /\ holder' = [i \in Interfaces |-> IF holder[i] = u THEN Nobody ELSE holder[i]]
    BY <1>5 DEF Drop
  <2>2. /\ holder' \in [Interfaces -> UsbUsers \cup {Nobody}]
        /\ \A j \in Interfaces : holder[j] # u => holder'[j] = holder[j]
    BY <2>1 DEF UsbInv, UsbType
  <2>3. QED
    BY <1>0, <2>1, <2>2, UsbGive
<1>6. CASE Rebind(u) \/ FlushUsb(u)
  BY <1>0, <1>6, UsbMove DEF Rebind, FlushUsb, Claiming
<1>7. CASE Attach(u)
  <2>1. \E i \in Interfaces, to \in {"release", "drop"} : GoTo(u, "attach", to, i)
    BY <1>0, <1>7, UsbAssumption DEF Attach, Further, Interfaces
  <2>2. QED
    BY <1>7, <2>1, UsbMove DEF Attach, Claiming
<1>8. CASE TransferFails(u)
  BY <1>0, <1>8, UsbMove DEF TransferFails, UsbReturn, Claiming
<1>9. ASSUME NEW n, TransferIn(u, n) PROVE UsbInv'
  <2>1. CASE UNCHANGED <<at, interface>>
    BY <1>9, <2>1 DEF TransferIn, UsbInv, UsbType, HasClaimed
  <2>2. CASE UsbReturn(u)
    BY <1>0, <1>9, <2>2, UsbMove DEF TransferIn, UsbReturn, Claiming
  <2>3. QED
    BY <1>9, <2>1, <2>2 DEF TransferIn
<1>10. QED
  BY <1>1, <1>2, <1>3, <1>4, <1>5, <1>6, <1>7, <1>8, <1>9 DEF UsbProceed

LEMMA UsbStepKeeps == UsbInv /\ [UsbNext]_usbVars => UsbInv'
<1> SUFFICES ASSUME UsbInv, [UsbNext]_usbVars PROVE UsbInv'
  OBVIOUS
<1>0. 0 \in Interfaces
  BY InterfaceNumbers
<1>1. CASE UsbReceive \/ UNCHANGED usbVars
  BY <1>1 DEF UsbReceive, usbVars, UsbInv, UsbType, HasClaimed
<1>2. CASE UsbUnplug
  BY <1>2 DEF UsbUnplug, UsbInv, UsbType, HasClaimed
<1>3. ASSUME NEW u \in UsbUsers, UsbRequest(u) PROVE UsbInv'
  <2>1. CASE UsbOpen(u) \/ UsbOpenAbsent(u) \/ UsbClose(u)
    <3>1. CASE UsbOpen(u)
      <4>1. GoTo(u, "closed", "query", 0) /\ UNCHANGED <<usbPlugged, holder>>
        BY <3>1 DEF UsbOpen
      <4>2. QED
        BY <1>0, <4>1, UsbMove
    <3>2. CASE UsbOpenAbsent(u)
      BY <1>0, <3>2, UsbMove DEF UsbOpenAbsent, Claiming
    <3>3. CASE UsbClose(u)
      BY <1>0, <3>3, UsbMove DEF UsbClose, Claiming
    <3>4. QED
      BY <2>1, <3>1, <3>2, <3>3
  <2>2. CASE UsbFlushData(u)
    BY <2>2 DEF UsbFlushData, UsbInv, UsbType, HasClaimed
  <2>3. ASSUME NEW wait \in BOOLEAN, NEW n, UsbBeginRead(u, wait, n) PROVE UsbInv'
    <3>1. GoTo(u, "open", "transfer", 0) /\ UNCHANGED <<usbPlugged, holder>>
      BY <2>3 DEF UsbBeginRead
    <3>2. QED
      BY <1>0, <3>1, UsbMove DEF Claiming
  <2>4. QED
    BY <1>3, <2>1, <2>2, <2>3 DEF UsbRequest
<1>4. QED
  BY <1>1, <1>2, <1>3, UsbProceedKeeps DEF UsbNext
--------------------------------------------------------------------------------
(* The drivers.  What an object has claimed where it stands: behind a       *)
(* failed claim the interfaces before, but for the first, which alone is    *)
(* given back; when it closes, those its loop has not given back.           *)
Holds(u, i) ==
  \/ at[u] \in Claiming /\ i < interface[u]
  \/ at[u] \in {"flush", "open", "transfer"}
  \/ at[u] = "unwind" /\ i < interface[u]
  \/ at[u] \in {"rebind", "drop"} /\ 0 < i /\ i < interface[u]
  \/ at[u] = "release" /\ i >= interface[u]
  \/ at[u] = "attach" /\ i > interface[u]

(* An object about to claim interface i, or to give it back to its driver.  *)
Owes(u, i) ==
  \/ at[u] \in {"claim", "attach"} /\ interface[u] = i
  \/ at[u] = "rebind" /\ i = 0

Covered(i) == i \in driver \/ holder[i] # Nobody

(* An interface that is neither with its driver nor claimed is on its way   *)
(* to be one of the two, or has been left by an open that failed.           *)
DriversOwed ==
  usbPlugged =>
    /\ driver \subseteq hasDriver
    /\ \A u \in UsbUsers : \A i \in Interfaces : holder[i] = u <=> Holds(u, i)
    /\ \A i \in hasDriver : i \in left \/ Covered(i) \/ \E u \in UsbUsers : Owes(u, i)

DriverInv == UsbInv /\ hasDriver \subseteq Interfaces /\ DriversOwed

LEMMA DriverInit == UsbInit => DriverInv
<1> SUFFICES ASSUME UsbInit PROVE DriverInv
  OBVIOUS
<1>1. \A u \in UsbUsers, i \in Interfaces : holder[i] # u /\ ~Holds(u, i)
  BY UsbAssumption DEF UsbInit, Holds, Claiming
<1>2. hasDriver \subseteq Interfaces /\ driver = hasDriver
  BY DEF UsbInit
<1>3. QED
  BY <1>1, <1>2, UsbInitInv DEF DriverInv, DriversOwed, Covered

(* A step of one object: it has what it should have where it gets to, and   *)
(* leaves no interface behind.                                              *)
LEMMA OwedStep ==
  ASSUME DriverInv, NEW u \in UsbUsers, NEW from, NEW to, NEW k, GoTo(u, from, to, k),
         UNCHANGED <<usbPlugged, hasDriver>>, usbPlugged,
         driver' \subseteq hasDriver,
         \A j \in Interfaces : holder'[j] = u <=> Holds(u, j)',
         \A v \in UsbUsers \ {u}, j \in Interfaces : holder'[j] = v <=> holder[j] = v,
         \A j \in hasDriver : j \in left \/ Covered(j) \/ Owes(u, j) =>
                                j \in left' \/ Covered(j)' \/ Owes(u, j)'
  PROVE  DriversOwed'
<1>1. ASSUME NEW v \in UsbUsers \ {u} PROVE at'[v] = at[v] /\ interface'[v] = interface[v]
  BY DEF GoTo, DriverInv, UsbInv, UsbType
<1>2. ASSUME NEW v \in UsbUsers, NEW j \in Interfaces PROVE holder'[j] = v <=> Holds(v, j)'
  <2>1. CASE v # u
    BY <1>1, <2>1 DEF DriverInv, DriversOwed, Holds
  <2>2. QED
    BY <2>1
<1>3. ASSUME NEW j \in hasDriver
      PROVE  j \in left' \/ Covered(j)' \/ \E v \in UsbUsers : Owes(v, j)'
  <2>1. j \in left \/ Covered(j) \/ \E v \in UsbUsers : Owes(v, j)
    BY DEF DriverInv, DriversOwed
  <2>2. ASSUME NEW v \in UsbUsers \ {u}, Owes(v, j) PROVE Owes(v, j)'
    BY <1>1, <2>2 DEF Owes
  <2>3. QED
    BY <2>1, <2>2
<1>4. QED
  BY <1>2, <1>3 DEF DriversOwed

(* A step of one object that claims and gives back nothing.                 *)
LEMMA OwedMove ==
  ASSUME DriverInv, NEW u \in UsbUsers, NEW from, NEW to, NEW k, GoTo(u, from, to, k),
         UNCHANGED <<usbPlugged, hasDriver, driver, holder>>, usbPlugged, left \subseteq left',
         \A j \in Interfaces : Holds(u, j) <=> Holds(u, j)',
         \A j \in hasDriver : Owes(u, j) => j \in left' \/ Covered(j) \/ Owes(u, j)'
  PROVE  DriversOwed'
<1>1. driver' \subseteq hasDriver
  BY DEF DriverInv, DriversOwed
<1>2. \A j \in Interfaces : holder'[j] = u <=> Holds(u, j)'
  BY DEF DriverInv, DriversOwed
<1>3. \A j : Covered(j)' <=> Covered(j)
  BY DEF Covered
<1>4. QED
  BY <1>1, <1>2, <1>3, OwedStep

(* Behind a failed call of the loop: an interface that was detached and is  *)
(* not claimed has been left.                                               *)
LEMMA ClaimFailsOwed ==
  ASSUME DriverInv, NEW u \in UsbUsers, NEW from \in Claiming,
         ClaimLoopFails(u, from), UNCHANGED <<usbPlugged, hasDriver, driver, holder>>, usbPlugged,
         left \subseteq left',
         from = "claim" => interface[u] \in left' \/ Covered(interface[u]) \/ interface[u] \notin hasDriver
  PROVE  DriversOwed'
<1>1. interface[u] \in Nat /\ Interfaces \subseteq Nat
  BY InterfaceNumbers DEF DriverInv, UsbInv, UsbType
<1>2. DOMAIN at = UsbUsers /\ interface \in [UsbUsers -> Interfaces]
  BY DEF DriverInv, UsbInv, UsbType
<1>3. \A j \in hasDriver : Owes(u, j) => j \in left' \/ Covered(j)
  BY DEF ClaimLoopFails, GoTo, Owes, Claiming
<1>4. PICK to \in {"drop", "unwind"} : GoTo(u, from, to, interface[u]) /\ (to = "drop" => interface[u] = 0)
  BY DEF ClaimLoopFails
<1>5. \A j \in Interfaces : Holds(u, j) <=> j < interface[u]
  BY <1>4 DEF GoTo, Holds, Claiming
<1>6. \A j \in Interfaces : Holds(u, j)' <=> j < interface[u]
  <2>1. CASE to = "unwind"
    BY <1>2, <1>4, <2>1 DEF GoTo, Holds, Claiming
  <2>2. CASE to = "drop"
    BY <1>1, <1>2, <1>4, <2>2 DEF GoTo, Holds, Claiming
  <2>3. QED
    BY <2>1, <2>2
<1>7. QED
  BY <1>3, <1>4, <1>5, <1>6, OwedMove

LEMMA ClaimOwed ==
  ASSUME DriverInv, NEW u \in UsbUsers, Claim(u), usbPlugged
  PROVE  DriversOwed'
<1>0. /\ interface[u] \in Interfaces /\ DOMAIN at = UsbUsers /\ interface \in [UsbUsers -> Interfaces]
      /\ holder \in [Interfaces -> UsbUsers \cup {Nobody}] /\ driver \subseteq hasDriver /\ u # Nobody
      /\ Interfaces \subseteq Nat
  BY UsbAssumption, InterfaceNumbers DEF DriverInv, UsbInv, UsbType, DriversOwed
<1>1. CASE ClaimLoopFails(u, "claim") /\ left' = left \cup Abandoned(interface[u]) /\ UNCHANGED holder
  <2>1. interface[u] \in left' \/ Covered(interface[u]) \/ interface[u] \notin hasDriver
    BY <1>1 DEF Abandoned, Covered
  <2>2. UNCHANGED <<usbPlugged, hasDriver, driver>>
    BY DEF Claim
  <2>3. QED
    BY <1>1, <2>1, <2>2, ClaimFailsOwed DEF Claiming
<1>2. CASE /\ Claimable(interface[u])
           /\ Further(u, "claim", "query", "flush")
           /\ holder' = [holder EXCEPT ![interface[u]] = u]
           /\ UNCHANGED left
  <2>1. /\ at[u] = "claim" /\ holder[interface[u]] = Nobody
        /\ holder' = [holder EXCEPT ![interface[u]] = u]
        /\ UNCHANGED <<usbPlugged, hasDriver, driver, left>>
    BY <1>2 DEF Claim, Claimable, Further, GoTo
  <2>2. \A j \in Interfaces : holder'[j] = IF j = interface[u] THEN u ELSE holder[j]
    BY <1>0, <2>1
  <2>3. \A j \in Interfaces : holder[j] = u <=> j < interface[u]
    BY <2>1 DEF DriverInv, DriversOwed, Holds, Claiming
  <2>4. \A j \in Interfaces : holder'[j] = u <=> j < interface[u] + 1
    <3>1. \A j \in Interfaces : j < interface[u] + 1 <=> j < interface[u] \/ j = interface[u]
      BY <1>0, UsbAssumption DEF Interfaces
    <3>2. QED
      BY <2>2, <2>3, <3>1
  <2>5. \A v \in UsbUsers \ {u}, j \in Interfaces : holder'[j] = v <=> holder[j] = v
    BY <2>1, <2>2, UsbAssumption
  <2>6. \A j \in Interfaces : Covered(j) \/ Owes(u, j) => Covered(j)'
    BY <1>0, <2>1, <2>2 DEF Covered, Owes
  <2>7. CASE interface[u] + 1 < NumInterfaces
    <3>1. GoTo(u, "claim", "query", interface[u] + 1)
      BY <1>2, <2>7 DEF Further
    <3>2. \A j \in Interfaces : Holds(u, j)' <=> j < interface[u] + 1
      BY <1>0, <3>1 DEF GoTo, Holds, Claiming
    <3>3. QED
      BY <1>0, <2>1, <2>4, <2>5, <2>6, <3>1, <3>2, OwedStep DEF DriverInv
  <2>8. CASE ~(interface[u] + 1 < NumInterfaces)
    <3>1. GoTo(u, "claim", "flush", 0)
      BY <1>2, <2>8 DEF Further
    <3>2. \A j \in Interfaces : Holds(u, j)' /\ j < interface[u] + 1
      BY <1>0, <2>8, <3>1, UsbAssumption DEF GoTo, Holds, Interfaces
    <3>3. QED
      BY <1>0, <2>1, <2>4, <2>5, <2>6, <3>1, <3>2, OwedStep DEF DriverInv
  <2>9. QED
    BY <2>7, <2>8
<1>3. QED
  BY <1>1, <1>2 DEF Claim

(* An interface given back is owed to its driver until it is attached.      *)
LEMMA ReleaseOwed ==
  ASSUME DriverInv, NEW u \in UsbUsers, Release(u) \/ Unwind(u), usbPlugged
  PROVE  DriversOwed'
<1>0. /\ interface[u] \in Interfaces /\ DOMAIN at = UsbUsers /\ interface \in [UsbUsers -> Interfaces]
      /\ holder \in [Interfaces -> UsbUsers \cup {Nobody}] /\ driver \subseteq hasDriver /\ u # Nobody
      /\ Interfaces \subseteq Nat /\ hasDriver \subseteq Interfaces /\ 0 \in Interfaces
  BY UsbAssumption, InterfaceNumbers DEF DriverInv, UsbInv, UsbType, DriversOwed
<1>1. PICK i \in Interfaces, k \in Interfaces, from \in {"release", "unwind"}, to \in {"attach", "rebind"} :
        /\ GoTo(u, from, to, k) /\ Releases(u, i) /\ UNCHANGED <<usbPlugged, hasDriver, driver, left>>
        /\ \A j \in Interfaces : Holds(u, j)' <=> Holds(u, j) /\ j # i
        /\ Owes(u, i)'
  <2>1. CASE Release(u)
    <3>1. /\ GoTo(u, "release", "attach", interface[u]) /\ Releases(u, interface[u])
          /\ UNCHANGED <<usbPlugged, hasDriver, driver, left>>
      BY <2>1 DEF Release
    <3>2. \A j \in Interfaces : Holds(u, j)' <=> Holds(u, j) /\ j # interface[u]
      <4>1. \A j \in Interfaces : j > interface[u] <=> j >= interface[u] /\ j # interface[u]
        BY <1>0, UsbAssumption DEF Interfaces
      <4>2. QED
        BY <1>0, <3>1, <4>1 DEF GoTo, Holds, Claiming
    <3>3. \A j : j = interface[u] => Owes(u, j)'
      BY <1>0, <3>1 DEF GoTo, Owes
    <3>4. QED
      BY <1>0, <3>1, <3>2, <3>3
  <2>2. CASE Unwind(u)
    <3>1. /\ GoTo(u, "unwind", "rebind", interface[u]) /\ Releases(u, 0)
          /\ UNCHANGED <<usbPlugged, hasDriver, driver, left>>
      BY <2>2 DEF Unwind
    <3>2. \A j \in Interfaces : Holds(u, j)' <=> Holds(u, j) /\ j # 0
      <4>1. \A j \in Interfaces : 0 < j <=> j # 0
        BY <1>0
      <4>2. QED
        BY <1>0, <3>1, <4>1 DEF GoTo, Holds, Claiming
    <3>3. Owes(u, 0)'
      BY <1>0, <3>1 DEF GoTo, Owes
    <3>4. QED
      BY <1>0, <3>1, <3>2, <3>3
  <2>3. QED
    BY <2>1, <2>2
<1>2. \A j \in Interfaces : holder'[j] = IF j = i THEN Nobody ELSE holder[j]
  BY <1>0, <1>1 DEF Releases
<1>3. \A j \in Interfaces : holder'[j] = u <=> Holds(u, j)'
  BY <1>0, <1>1, <1>2 DEF DriverInv, DriversOwed
<1>4. \A v \in UsbUsers \ {u}, j \in Interfaces : holder'[j] = v <=> holder[j] = v
  BY <1>1, <1>2, UsbAssumption DEF Releases
<1>5. \A j \in hasDriver : j \in left \/ Covered(j) \/ Owes(u, j) =>
                             j \in left' \/ Covered(j)' \/ Owes(u, j)'
  <2>1. ~Owes(u, i) /\ \A j : ~Owes(u, j)
    BY <1>1 DEF GoTo, Owes, Release, Unwind
  <2>2. \A j \in hasDriver : j # i => (Covered(j)' <=> Covered(j))
    BY <1>0, <1>1, <1>2 DEF Covered
  <2>3. QED
    BY <1>1, <2>1, <2>2
<1>6. QED
  BY <1>0, <1>1, <1>3, <1>4, <1>5, OwedStep

(* attach_kernel_driver fails only if somebody has claimed the interface.   *)
LEMMA AttachOwed ==
  ASSUME DriverInv, NEW u \in UsbUsers, Attach(u) \/ Rebind(u), usbPlugged
  PROVE  DriversOwed'
<1>0. /\ interface[u] \in Interfaces /\ DOMAIN at = UsbUsers /\ interface \in [UsbUsers -> Interfaces]
      /\ driver \subseteq hasDriver
      /\ Interfaces \subseteq Nat /\ hasDriver \subseteq Interfaces /\ 0 \in Interfaces
  BY UsbAssumption, InterfaceNumbers DEF DriverInv, UsbInv, UsbType, DriversOwed
<1>1. PICK i \in Interfaces, k \in Nat, from \in {"attach", "rebind"}, to \in {"release", "drop"} :
        /\ GoTo(u, from, to, k) /\ driver' = Attached(i) /\ UNCHANGED <<usbPlugged, hasDriver, holder, left>>
        /\ \A j \in Interfaces : Holds(u, j)' <=> Holds(u, j)
        /\ \A j : Owes(u, j) => j = i
  <2>1. CASE Attach(u)
    <3>1. /\ at[u] = "attach" /\ driver' = Attached(interface[u])
          /\ UNCHANGED <<usbPlugged, hasDriver, holder, left>>
      BY <2>1 DEF Attach, Further, GoTo
    <3>2. \A j : Owes(u, j) => j = interface[u]
      BY <3>1 DEF Owes
    <3>3. CASE interface[u] + 1 < NumInterfaces
      <4>1. GoTo(u, "attach", "release", interface[u] + 1)
        BY <2>1, <3>3 DEF Attach, Further
      <4>2. \A j \in Interfaces : j > interface[u] <=> j >= interface[u] + 1
        BY <1>0, UsbAssumption DEF Interfaces
      <4>3. \A j \in Interfaces : Holds(u, j)' <=> Holds(u, j)
        BY <1>0, <4>1, <4>2 DEF GoTo, Holds, Claiming
      <4>4. interface[u] + 1 \in Nat
        BY <1>0, UsbAssumption DEF Interfaces
      <4>5. QED
        BY <1>0, <3>1, <3>2, <4>1, <4>3, <4>4
    <3>4. CASE ~(interface[u] + 1 < NumInterfaces)
      <4>1. GoTo(u, "attach", "drop", 0)
        BY <2>1, <3>4 DEF Attach, Further
      <4>2. \A j \in Interfaces : ~(j > interface[u])
        BY <1>0, <3>4, UsbAssumption DEF Interfaces
      <4>3. \A j \in Interfaces : Holds(u, j)' <=> Holds(u, j)
        BY <1>0, <4>1, <4>2 DEF GoTo, Holds, Claiming
      <4>4. QED
        BY <1>0, <3>1, <3>2, <4>1, <4>3
    <3>5. QED
      BY <3>3, <3>4
  <2>2. CASE Rebind(u)
    <3>1. GoTo(u, "rebind", "drop", interface[u]) /\ driver' = Attached(0) /\ UNCHANGED <<usbPlugged, hasDriver, holder, left>>
      BY <2>2 DEF Rebind
    <3>2. \A j \in Interfaces : Holds(u, j)' <=> Holds(u, j)
      BY <1>0, <3>1 DEF GoTo, Holds, Claiming
    <3>3. \A j : Owes(u, j) => j = 0
      BY <3>1 DEF GoTo, Owes
    <3>4. QED
      BY <1>0, <3>1, <3>2, <3>3
  <2>3. QED
    BY <2>1, <2>2
<1>2. driver' \subseteq hasDriver /\ driver \subseteq driver'
  BY <1>0, <1>1 DEF Attached
<1>3. i \in hasDriver => Covered(i)'
  BY <1>1 DEF Attached, Covered
<1>4. \A j \in hasDriver : j \in left \/ Covered(j) \/ Owes(u, j) => j \in left' \/ Covered(j)'
  BY <1>1, <1>2, <1>3 DEF Covered
<1>5. \A j \in Interfaces : holder'[j] = u <=> Holds(u, j)'
  BY <1>1 DEF DriverInv, DriversOwed
<1>6. QED
  BY <1>1, <1>2, <1>4, <1>5, OwedStep

LEMMA DetachOwed ==
  ASSUME DriverInv, NEW u \in UsbUsers, Query(u) \/ Detach(u), usbPlugged
  PROVE  DriversOwed'
<1>0. interface[u] \in Interfaces /\ DOMAIN at = UsbUsers /\ interface \in [UsbUsers -> Interfaces]
  BY DEF DriverInv, UsbInv, UsbType
<1>1. CASE Query(u) /\ ~ClaimLoopFails(u, "query")
  <2>1. PICK to \in {"detach", "claim"} : GoTo(u, "query", to, interface[u])
    BY <1>1 DEF Query
  <2>2. \A j \in Interfaces : Holds(u, j) <=> Holds(u, j)'
    BY <1>0, <2>1 DEF GoTo, Holds, Claiming
  <2>3. \A j : ~Owes(u, j)
    BY <2>1 DEF GoTo, Owes
  <2>4. QED
    BY <1>1, <2>1, <2>2, <2>3, OwedMove DEF Query
<1>2. ASSUME NEW from \in {"query", "detach"}, ClaimLoopFails(u, from),
             UNCHANGED <<usbPlugged, hasDriver, driver, holder, left>>
      PROVE  DriversOwed'
  <2>1. from \in Claiming /\ from # "claim" /\ left \subseteq left'
    BY <1>2 DEF Claiming
  <2>2. QED
    BY <1>2, <2>1, ClaimFailsOwed
<1>3. CASE Detach(u) /\ interface[u] \in driver /\ ~(ClaimLoopFails(u, "detach") /\ UNCHANGED driver)
  <2>1. /\ GoTo(u, "detach", "claim", interface[u]) /\ driver' = driver \ {interface[u]}
        /\ UNCHANGED <<usbPlugged, hasDriver, holder, left>>
    BY <1>3 DEF Detach
  <2>2. driver' \subseteq hasDriver
    BY <2>1 DEF DriverInv, DriversOwed
  <2>3. \A j \in Interfaces : Holds(u, j)' <=> Holds(u, j)
    BY <1>0, <2>1 DEF GoTo, Holds, Claiming
  <2>4. \A j \in Interfaces : holder'[j] = u <=> Holds(u, j)'
    BY <2>1, <2>3 DEF DriverInv, DriversOwed
  <2>5. \A j : ~Owes(u, j) /\ (j = interface[u] => Owes(u, j)')
    BY <1>0, <2>1 DEF GoTo, Owes
  <2>6. \A j \in hasDriver : j \in left \/ Covered(j) \/ Owes(u, j) =>
                               j \in left' \/ Covered(j)' \/ Owes(u, j)'
    <3>1. \A j : Covered(j) => Covered(j)' \/ j = interface[u]
      BY <2>1 DEF Covered
    <3>2. QED
      BY <2>1, <2>5, <3>1
  <2>7. \A v \in UsbUsers \ {u}, j \in Interfaces : holder'[j] = v <=> holder[j] = v
    BY <2>1
  <2>8. QED
    BY <2>1, <2>2, <2>4, <2>6, <2>7, OwedStep
<1>4. QED
  BY <1>1, <1>2, <1>3 DEF Query, Detach

LEMMA DropOwed == ASSUME DriverInv, NEW u \in UsbUsers, Drop(u), usbPlugged PROVE DriversOwed'
<1>0. /\ DOMAIN at = UsbUsers /\ interface \in [UsbUsers -> Interfaces] /\ Interfaces \subseteq Nat
      /\ hasDriver \subseteq Interfaces /\ u # Nobody
  BY UsbAssumption, InterfaceNumbers DEF DriverInv, UsbInv, UsbType
<1>1. /\ GoTo(u, "drop", "closed", 0) /\ UNCHANGED <<usbPlugged, hasDriver, driver>>
      /\ holder' = [i \in Interfaces |-> IF holder[i] = u THEN Nobody ELSE holder[i]]
      /\ left' = left \cup {i \in Interfaces : holder[i] = u /\ i < interface[u]}
  BY DEF Drop
<1>2. \A j \in Interfaces : ~Holds(u, j)'
  BY <1>0, <1>1 DEF GoTo, Holds, Claiming
<1>3. \A j \in Interfaces : holder'[j] # u /\ (holder[j] # u => holder'[j] = holder[j])
  BY <1>0, <1>1
<1>4. \A j \in Interfaces : holder[j] = u => j \in left'
  <2>1. \A j \in Interfaces : holder[j] = u => j < interface[u]
    BY <1>1 DEF DriverInv, DriversOwed, GoTo, Holds, Claiming
  <2>2. QED
    BY <1>1, <2>1
<1>5. \A j : ~Owes(u, j)
  BY <1>1 DEF GoTo, Owes
<1>6. \A j \in hasDriver : j \in left \/ Covered(j) => j \in left' \/ Covered(j)'
  BY <1>0, <1>1, <1>3, <1>4 DEF Covered
<1>7. driver' \subseteq hasDriver
  BY <1>1 DEF DriverInv, DriversOwed
<1>8. \A v \in UsbUsers \ {u}, j \in Interfaces : holder'[j] = v <=> holder[j] = v
  BY <1>1, UsbAssumption
<1>9. QED
  BY <1>1, <1>2, <1>3, <1>5, <1>6, <1>7, <1>8, OwedStep

(* The steps between opening and closing.                                   *)
LEMMA UseOwed ==
  ASSUME DriverInv, NEW u \in UsbUsers, NEW from, NEW to, GoTo(u, from, to, 0),
         UNCHANGED <<usbPlugged, hasDriver, driver, holder, left>>, usbPlugged,
         \/ from = "closed" /\ to \in {"query", "closed", "crashed"}
         \/ from \in {"flush", "open", "transfer"} /\ to \in {"open", "transfer"}
  PROVE  DriversOwed'
<1>0. DOMAIN at = UsbUsers /\ interface \in [UsbUsers -> Interfaces]
  BY DEF DriverInv, UsbInv, UsbType
<1>1. \A j \in Interfaces : ~(j < 0) /\ j >= 0
  BY InterfaceNumbers
<1>2. \A j \in Interfaces : Holds(u, j) <=> Holds(u, j)'
  BY <1>0, <1>1 DEF GoTo, Holds, Claiming
<1>3. \A j : ~Owes(u, j)
  BY DEF GoTo, Owes
<1>4. QED
  BY <1>2, <1>3, OwedMove

(* Who begins to close has all, and will give all back.                     *)
LEMMA CloseOwed == ASSUME DriverInv, NEW u \in UsbUsers, UsbClose(u), usbPlugged PROVE DriversOwed'
<1>0. DOMAIN at = UsbUsers /\ interface \in [UsbUsers -> Interfaces] /\ hasDriver \subseteq Interfaces
      /\ u # Nobody
  BY UsbAssumption DEF DriverInv, UsbInv, UsbType
<1>1. GoTo(u, "open", "release", 0) /\ UNCHANGED <<usbPlugged, hasDriver, driver, holder>>
  BY DEF UsbClose
<1>2. \A j \in Interfaces : Holds(u, j) /\ j >= 0
  BY <1>1, InterfaceNumbers DEF GoTo, Holds
<1>3. \A j \in Interfaces : Holds(u, j)' /\ holder[j] = u
  BY <1>0, <1>1, <1>2 DEF GoTo, Holds, DriverInv, DriversOwed
<1>4. \A j \in hasDriver : Covered(j)'
  BY <1>0, <1>1, <1>3 DEF Covered
<1>5. driver' \subseteq hasDriver /\ \A j \in Interfaces : holder'[j] = u <=> Holds(u, j)'
  BY <1>1, <1>3 DEF DriverInv, DriversOwed
<1>6. QED
  BY <1>1, <1>4, <1>5, OwedStep

LEMMA DriverKeeps == DriverInv /\ [UsbNext]_usbVars => DriverInv'
<1> SUFFICES ASSUME DriverInv, [UsbNext]_usbVars PROVE DriverInv'
  OBVIOUS
<1>1. UsbInv' /\ hasDriver' = hasDriver
  BY UsbStepKeeps
  DEF DriverInv, UsbNext, usbVars, UsbReceive, UsbUnplug, UsbProceed, UsbRequest, Query, Detach,
      Claim, Unwind, Rebind, Drop, FlushUsb, Release, Attach, TransferFails, TransferIn, UsbOpen,
      UsbOpenAbsent, UsbClose, UsbFlushData, UsbBeginRead
<1>2. CASE ~usbPlugged \/ UsbUnplug
  <2>1. ~usbPlugged'
    BY <1>2
    DEF UsbNext, usbVars, UsbReceive, UsbUnplug, UsbProceed, UsbRequest, Query, Detach,
        Claim, Unwind, Rebind, Drop, FlushUsb, Release, Attach, TransferFails, TransferIn, UsbOpen,
        UsbOpenAbsent, UsbClose, UsbFlushData, UsbBeginRead
  <2>2. QED
    BY <1>1, <2>1 DEF DriverInv, DriversOwed
<1>3. ASSUME usbPlugged, UNCHANGED <<usbPlugged, hasDriver, driver, holder, at, interface, left>>
      PROVE  DriversOwed'
  <2>1. \A u, j : (Holds(u, j)' <=> Holds(u, j)) /\ (Owes(u, j)' <=> Owes(u, j)) /\ (Covered(j)' <=> Covered(j))
    BY <1>3 DEF Holds, Owes, Covered
  <2>2. QED
    BY <1>3, <2>1 DEF DriverInv, DriversOwed
<1>4. ASSUME usbPlugged, NEW u \in UsbUsers, UsbProceed(u) PROVE DriversOwed'
  <2>1. CASE Query(u) \/ Detach(u)
    BY <1>4, <2>1, DetachOwed
  <2>2. CASE Claim(u)
    BY <1>4, <2>2, ClaimOwed
  <2>3. CASE Release(u) \/ Unwind(u)
    BY <1>4, <2>3, ReleaseOwed
  <2>4. CASE Attach(u) \/ Rebind(u)
    BY <1>4, <2>4, AttachOwed
  <2>5. CASE Drop(u)
    BY <1>4, <2>5, DropOwed
  <2>6. CASE FlushUsb(u) \/ TransferFails(u)
    BY <1>4, <2>6, UseOwed DEF FlushUsb, TransferFails, UsbReturn
  <2>7. ASSUME NEW n, TransferIn(u, n) PROVE DriversOwed'
    <3>1. UNCHANGED <<at, interface>> \/ GoTo(u, "transfer", "open", 0)
      BY <2>7 DEF TransferIn, UsbReturn
    <3>2. QED
      BY <1>3, <1>4, <2>7, <3>1, UseOwed DEF TransferIn
  <2>8. QED
    BY <1>4, <2>1, <2>2, <2>3, <2>4, <2>5, <2>6, <2>7 DEF UsbProceed
<1>5. ASSUME usbPlugged, NEW u \in UsbUsers, UsbRequest(u) PROVE DriversOwed'
  <2>1. CASE UsbOpen(u) \/ UsbOpenAbsent(u)
    BY <1>5, <2>1, UseOwed DEF UsbOpen, UsbOpenAbsent
  <2>2. CASE UsbFlushData(u)
    BY <1>3, <1>5, <2>2 DEF UsbFlushData
  <2>3. ASSUME NEW wait, NEW n, UsbBeginRead(u, wait, n) PROVE DriversOwed'
    BY <1>5, <2>3, UseOwed DEF UsbBeginRead
  <2>4. QED
    BY <1>5, <2>1, <2>2, <2>3, CloseOwed DEF UsbRequest
<1>6. ASSUME usbPlugged, UsbReceive \/ UNCHANGED usbVars PROVE DriversOwed'
  <2>1. UNCHANGED <<usbPlugged, hasDriver, driver, holder, at, interface, left>>
    BY <1>6 DEF UsbReceive, usbVars
  <2>2. QED
    BY <1>3, <1>6, <2>1
<1>7. DriversOwed'
  BY <1>2, <1>4, <1>5, <1>6 DEF UsbNext, DriverInv, DriversOwed, UsbUnplug
<1>8. QED
  BY <1>1, <1>7 DEF DriverInv
--------------------------------------------------------------------------------
(* The theorems about both.                                                 *)

StreamInv == LineInv /\ UsbInv

LEMMA StreamInitInv == StreamInit => StreamInv
<1> SUFFICES ASSUME Init, UsbInit PROVE StreamInv
  BY DEF StreamInit
<1>1. AskedType /\ LinesAsAsked
  BY DEF Init, AskedType, LinesAsAsked
<1>2. QED
  BY <1>1, SerialInit, UsbInitInv DEF StreamInv, LineInv

LEMMA StreamKeeps == StreamInv /\ [StreamNext]_streamVars => StreamInv'
<1> SUFFICES ASSUME StreamInv, [StreamNext]_streamVars PROVE StreamInv'
  OBVIOUS
<1>1. [Next]_vars /\ [UsbNext]_usbVars
  BY DEF StreamNext, SerialStep, UsbStep, streamVars
<1>2. QED
  BY <1>1, SerialStepKeeps, LineKeeps, UsbStepKeeps DEF StreamInv, LineInv

LEMMA StreamInvHolds == StreamSpec => []StreamInv
<1>1. StreamInv /\ [StreamNext]_streamVars => StreamInv'
  BY StreamKeeps
<1>2. QED
  BY <1>1, StreamInitInv, PTL DEF StreamSpec

(* No two objects are behind the lock of a serial port at a time.           *)
THEOREM OneHasThePort == StreamSpec => []Exclusive
<1>1. StreamInv => Exclusive
  BY DEF StreamInv, LineInv, SerialInv, OneOwner, Exclusive
<1>2. QED
  BY <1>1, StreamInvHolds, PTL

(* An object gets all bytes received since it opened the port, and what it  *)
(* has written is sent or in the buffer, unless another one flushes.        *)
THEOREM NothingIsMissed == StreamSpec => []SeesAll
<1>1. StreamInv => SeesAll
  BY DEF StreamInv, LineInv, SerialInv
<1>2. QED
  BY <1>1, StreamInvHolds, PTL

(* Where the driver has let open set them, the control lines have the level *)
(* that its options ask for, whatever they were before.                     *)
THEOREM LinesAreSet == StreamSpec => []LinesAsAsked
<1>1. StreamInv => LinesAsAsked
  BY DEF StreamInv, LineInv
<1>2. QED
  BY <1>1, StreamInvHolds, PTL

(* An object that has the USB device open has claimed all its interfaces.   *)
THEOREM DeviceIsWhole == StreamSpec => []PortIsWhole
<1>1. StreamInv => PortIsWhole
  BY DEF StreamInv, UsbInv, HasClaimed, PortIsWhole
<1>2. QED
  BY <1>1, StreamInvHolds, PTL

(* When nobody uses the device, each interface is back with its driver, or  *)
(* has been left by an open that failed, for any number of interfaces.      *)
THEOREM DriversReturn == StreamSpec => []DriversBack
<1>1. StreamInit => DriverInv
  BY DriverInit DEF StreamInit
<1>2. DriverInv /\ [StreamNext]_streamVars => DriverInv'
  <2>1. [StreamNext]_streamVars => [UsbNext]_usbVars
    BY DEF StreamNext, SerialStep, UsbStep, streamVars
  <2>2. QED
    BY <2>1, DriverKeeps
<1>3. DriverInv => DriversBack
  <2> SUFFICES ASSUME DriverInv, \A u \in UsbUsers : at[u] = "closed", usbPlugged
               PROVE  driver \subseteq hasDriver /\ hasDriver \ left \subseteq driver
    BY DEF DriversBack
  <2>1. \A u \in UsbUsers, i \in Interfaces : ~Holds(u, i) /\ ~Owes(u, i)
    BY DEF Holds, Owes, Claiming
  <2>2. \A i \in Interfaces : holder[i] = Nobody
    BY <2>1 DEF DriverInv, DriversOwed, UsbInv, UsbType
  <2>3. QED
    BY <2>1, <2>2 DEF DriverInv, DriversOwed, Covered
<1>4. QED
  BY <1>1, <1>2, <1>3, PTL DEF StreamSpec
--------------------------------------------------------------------------------
(* The logger. *)

Parts == {"first", "piece", "cr", "lf"}

\* What is still to be read: the terminal's and the rest of the receiver's sentence.
Stream == queue \o rest

(* A suffix of sentences: they end with a line feed, which is only behind a *)
(* carriage return, and where one begins all of it follows.                 *)
Lines(q) ==
  /\ q \in Seq(Parts)
  /\ q # <<>> => q[Len(q)] = "lf"
  /\ \A k \in 1 .. Len(q) :
       /\ q[k] = "cr" => k < Len(q) /\ q[k + 1] = "lf"
       /\ q[k] = "lf" /\ k < Len(q) => q[k + 1] = "first"
       /\ q[k] = "lf" /\ k > 1 => q[k - 1] = "cr"
       /\ q[k] = "first" =>
            \E n \in Sentences : /\ k + n + 1 <= Len(q)
                                 /\ \A j \in 1 .. n + 2 : q[k + j - 1] = Sentence(n)[j]

GpsType ==
  /\ queue \in Seq(Parts) /\ rest \in Seq(Parts)
  /\ logger \in {"off", "read", "check", "done"}
  /\ count \in Nat /\ torn \in BOOLEAN /\ lost \in BOOLEAN

(* While nothing disturbs it the logger, once it has counted a record, is   *)
(* between lines; when the count is the total it stands before a line feed, *)
(* a line that is not counted, or is about to compare.                      *)
Reading ==
  /\ mode = "lines" /\ ~torn /\ count <= Total
  /\ Lines(Stream)
  /\ logger = "off" => count = 0
  /\ count > 0 => Stream = <<>> \/ Stream[1] \in {"first", "lf"}
  /\ count = Total /\ logger = "read" => Stream # <<>> /\ Stream[1] = "lf"

GpsInv == GpsType /\ (Undisturbed => Reading)

LEMMA LeastNumber == ASSUME NEW T \in SUBSET Nat, T # {} PROVE \E x \in T : \A y \in T : x <= y
<1> DEFINE Less == {ss \in Nat \X Nat : ss[1] < ss[2]}
<1>1. IsWellFoundedOn(OpToRel(<, Nat), Nat)
  BY NatLessThanWellFounded, Zenon
<1>2. IsWellFoundedOn(Less, Nat)
  BY <1>1, Zenon DEF OpToRel
<1>3. \A x, y \in Nat : <<y, x>> \notin Less => x <= y
  OBVIOUS
<1> HIDE DEF Less
<1>4. PICK x \in T : \A y \in T : ~(<<y, x>> \in Less)
  BY <1>2, WFMin, Zenon
<1>5. QED
  BY <1>3, <1>4

LEMMA SentenceIs ==
  ASSUME NEW n \in Sentences
  PROVE  /\ n \in Nat /\ n >= 1
         /\ Line(n) \in Seq(Parts) /\ Len(Line(n)) = n + 1
         /\ Sentence(n) \in Seq(Parts) /\ Len(Sentence(n)) = n + 2
         /\ \A j \in 1 .. n + 1 : Sentence(n)[j] = Line(n)[j]
         /\ Sentence(n)[1] = "first" /\ Sentence(n)[n + 1] = "cr" /\ Sentence(n)[n + 2] = "lf"
         /\ \A j \in 2 .. n : Sentence(n)[j] = "piece"
<1>1. n \in Nat /\ n >= 1
  BY GpsAssumption
<1>2. Line(n) \in Seq(Parts) /\ Len(Line(n)) = n + 1
  BY <1>1 DEF Line, Parts
<1>3. \A j \in 1 .. n + 1 :
        Line(n)[j] = IF j = 1 THEN "first" ELSE IF j <= n THEN "piece" ELSE "cr"
  BY <1>1 DEF Line
<1>4. /\ Sentence(n) \in Seq(Parts) /\ Len(Sentence(n)) = n + 2
      /\ \A j \in 1 .. n + 1 : Sentence(n)[j] = Line(n)[j]
      /\ Sentence(n)[n + 2] = "lf"
  <2>1. "lf" \in Parts
    BY DEF Parts
  <2> DEFINE l == Line(n)
  <2>2. Sentence(n) = Append(l, "lf")
    BY DEF Sentence
  <2>3. l \in Seq(Parts) /\ Len(l) = n + 1
    BY <1>2
  <2> HIDE DEF l
  <2>4. /\ Append(l, "lf") \in Seq(Parts) /\ Len(Append(l, "lf")) = n + 2
        /\ \A j \in 1 .. n + 1 : Append(l, "lf")[j] = l[j]
        /\ Append(l, "lf")[n + 2] = "lf"
    BY <1>1, <2>1, <2>3, AppendProperties
  <2>5. QED
    BY <2>2, <2>4 DEF l
<1>5. QED
  BY <1>1, <1>2, <1>3, <1>4

(* What is left when the beginning has been read or flushed.                *)
LEMMA Suffix ==
  ASSUME NEW q, Lines(q), NEW e \in 0 .. Len(q), NEW r \in Seq(Parts), Len(r) = Len(q) - e,
         \A k \in 1 .. Len(r) : r[k] = q[k + e]
  PROVE  Lines(r)
<1>1. q \in Seq(Parts) /\ Len(q) \in Nat /\ Len(r) \in Nat
  BY DEF Lines
<1>2. r # <<>> => r[Len(r)] = "lf"
  <2> SUFFICES ASSUME r # <<>> PROVE r[Len(r)] = "lf"
    OBVIOUS
  <2>1. Len(r) \in 1 .. Len(r) /\ Len(r) + e = Len(q) /\ q # <<>>
    BY <1>1
  <2>2. QED
    BY <2>1 DEF Lines
<1>3. ASSUME NEW k \in 1 .. Len(r)
      PROVE  /\ r[k] = "cr" => k < Len(r) /\ r[k + 1] = "lf"
             /\ r[k] = "lf" /\ k < Len(r) => r[k + 1] = "first"
             /\ r[k] = "lf" /\ k > 1 => r[k - 1] = "cr"
             /\ r[k] = "first" =>
                  \E n \in Sentences : /\ k + n + 1 <= Len(r)
                                       /\ \A j \in 1 .. n + 2 : r[k + j - 1] = Sentence(n)[j]
  <2> DEFINE p == k + e
  <2>1. p \in 1 .. Len(q) /\ r[k] = q[p] /\ p > e /\ p = k + e
    BY <1>1
  <2>2. k < Len(r) => p < Len(q) /\ r[k + 1] = q[p + 1]
    <3>1. k < Len(r) => k + 1 \in 1 .. Len(r) /\ (k + 1) + e = p + 1
      BY <1>1
    <3>2. k < Len(r) => r[k + 1] = q[(k + 1) + e]
      BY <3>1
    <3>3. k < Len(r) => p < Len(q)
      BY <1>1
    <3>4. QED
      BY <3>1, <3>2, <3>3
  <2>3. k > 1 => p > 1 /\ r[k - 1] = q[p - 1]
    <3>1. k > 1 => k - 1 \in 1 .. Len(r) /\ (k - 1) + e = p - 1
      BY <1>1
    <3>2. QED
      BY <1>1, <3>1
  <2>4. p < Len(q) => k < Len(r)
    BY <1>1
  <2> HIDE DEF p
  <2>5. /\ q[p] = "cr" => p < Len(q) /\ q[p + 1] = "lf"
        /\ q[p] = "lf" /\ p < Len(q) => q[p + 1] = "first"
        /\ q[p] = "lf" /\ p > 1 => q[p - 1] = "cr"
        /\ q[p] = "first" =>
             \E n \in Sentences : /\ p + n + 1 <= Len(q)
                                  /\ \A j \in 1 .. n + 2 : q[p + j - 1] = Sentence(n)[j]
    BY <2>1 DEF Lines
  <2>6. ASSUME r[k] = "first"
        PROVE  \E n \in Sentences : /\ k + n + 1 <= Len(r)
                                    /\ \A j \in 1 .. n + 2 : r[k + j - 1] = Sentence(n)[j]
    <3>1. PICK n \in Sentences : /\ p + n + 1 <= Len(q)
                                 /\ \A j \in 1 .. n + 2 : q[p + j - 1] = Sentence(n)[j]
      BY <2>1, <2>5, <2>6
    <3>2. n \in Nat
      BY SentenceIs
    <3>3. k + n + 1 <= Len(r)
      BY <1>1, <2>1, <3>1, <3>2
    <3>4. ASSUME NEW j \in 1 .. n + 2 PROVE r[k + j - 1] = Sentence(n)[j]
      <4>1. k + j - 1 \in 1 .. Len(r) /\ (k + j - 1) + e = p + j - 1
        BY <1>1, <2>1, <3>2, <3>3
      <4>2. r[k + j - 1] = q[p + j - 1]
        BY <4>1
      <4>3. QED
        BY <3>1, <4>2
    <3>5. QED
      BY <3>3, <3>4
  <2>7. QED
    BY <2>1, <2>2, <2>3, <2>4, <2>5, <2>6
<1>4. QED
  BY <1>2, <1>3 DEF Lines

(* The receiver begins another sentence.                                    *)
LEMMA Extended ==
  ASSUME NEW q, Lines(q), NEW n \in Sentences, NEW r \in Seq(Parts), Len(r) = Len(q) + n + 2,
         \A k \in 1 .. Len(q) : r[k] = q[k],
         \A j \in 1 .. n + 2 : r[Len(q) + j] = Sentence(n)[j]
  PROVE  Lines(r)
<1> DEFINE v == Len(q)
<1>1. q \in Seq(Parts) /\ v \in Nat /\ Len(r) \in Nat /\ Len(r) = v + n + 2
  BY DEF Lines
<1>2. /\ n \in Nat /\ n >= 1
      /\ Sentence(n)[1] = "first" /\ Sentence(n)[n + 1] = "cr" /\ Sentence(n)[n + 2] = "lf"
      /\ \A j \in 2 .. n : Sentence(n)[j] = "piece"
  BY SentenceIs
<1>3. \A j \in 1 .. n + 2 : r[v + j] = Sentence(n)[j]
  OBVIOUS
<1>4. r[v + 1] = "first" /\ r[v + (n + 1)] = "cr" /\ r[v + (n + 2)] = "lf"
  BY <1>2, <1>3
<1>5. \A k \in 1 .. v : r[k] = q[k]
  OBVIOUS
<1>6. v >= 1 => q[v] = "lf"
  BY <1>1 DEF Lines
<1> HIDE DEF v
<1>7. r[Len(r)] = "lf"
  <2>1. Len(r) = v + n + 2 /\ v \in Nat /\ n \in Nat
    BY <1>1, <1>2
  <2>2. v + n + 2 = v + (n + 2)
    BY <2>1
  <2>3. QED
    BY <1>4, <2>1, <2>2
<1> DEFINE Good(k) ==
             /\ r[k] = "cr" => k < Len(r) /\ r[k + 1] = "lf"
             /\ r[k] = "lf" /\ k < Len(r) => r[k + 1] = "first"
             /\ r[k] = "lf" /\ k > 1 => r[k - 1] = "cr"
             /\ r[k] = "first" =>
                  \E m \in Sentences : /\ k + m + 1 <= Len(r)
                                       /\ \A j \in 1 .. m + 2 : r[k + j - 1] = Sentence(m)[j]
<1>8. ASSUME NEW k \in 1 .. v PROVE Good(k)
  <2>1. /\ q[k] = "cr" => k < v /\ q[k + 1] = "lf"
        /\ q[k] = "lf" /\ k < v => q[k + 1] = "first"
        /\ q[k] = "lf" /\ k > 1 => q[k - 1] = "cr"
        /\ q[k] = "first" =>
             \E m \in Sentences : /\ k + m + 1 <= v
                                  /\ \A j \in 1 .. m + 2 : q[k + j - 1] = Sentence(m)[j]
    BY DEF Lines, v
  <2>2. r[k] = q[k] /\ k \in Nat /\ k >= 1 /\ k <= v /\ k < Len(r)
    BY <1>1, <1>2, <1>5
  <2>3. k < v => r[k + 1] = q[k + 1]
    BY <1>1, <1>5
  <2>4. k > 1 => r[k - 1] = q[k - 1]
    BY <1>1, <1>5
  <2>5. k = v => r[k + 1] = "first" /\ q[k] = "lf"
    BY <1>4, <1>6, <2>2
  <2>6. ASSUME r[k] = "first"
        PROVE  \E m \in Sentences : /\ k + m + 1 <= Len(r)
                                    /\ \A j \in 1 .. m + 2 : r[k + j - 1] = Sentence(m)[j]
    <3>1. PICK m \in Sentences : /\ k + m + 1 <= v
                                 /\ \A j \in 1 .. m + 2 : q[k + j - 1] = Sentence(m)[j]
      BY <2>1, <2>2, <2>6
    <3>2. m \in Nat
      BY SentenceIs
    <3>3. ASSUME NEW j \in 1 .. m + 2 PROVE k + j - 1 \in 1 .. v
      <4>1. k \in Nat /\ k >= 1 /\ v \in Nat /\ j \in Nat /\ j >= 1 /\ j <= m + 2 /\ k + m + 1 <= v
        BY <1>1, <2>2, <3>1, <3>2
      <4>2. QED
        BY <3>2, <4>1
    <3>4. k + m + 1 <= Len(r)
      BY <1>1, <1>2, <2>2, <3>1, <3>2
    <3>5. QED
      BY <1>5, <3>1, <3>3, <3>4
  <2>7. QED
    BY <1>1, <2>1, <2>2, <2>3, <2>4, <2>5, <2>6
<1>9. ASSUME NEW k \in v + 1 .. v + n + 2 PROVE Good(k)
  <2>1. CASE k = v + 1
    <3>1. k + n + 1 <= Len(r)
      BY <1>1, <1>2, <2>1
    <3>2. ASSUME NEW j \in 1 .. n + 2 PROVE r[k + j - 1] = Sentence(n)[j]
      <4>1. k + j - 1 = v + j
        BY <1>1, <1>2, <2>1
      <4>2. QED
        BY <1>3, <4>1
    <3>3. QED
      BY <1>4, <2>1, <3>1, <3>2
  <2>2. CASE k \in v + 2 .. v + n
    <3>1. PICK j \in 2 .. n : k = v + j
      <4>1. k - v \in 2 .. n /\ k = v + (k - v)
        BY <1>1, <1>2, <2>2
      <4>2. QED
        BY <4>1
    <3>2. r[k] = "piece"
      BY <1>2, <1>3, <3>1
    <3>3. QED
      BY <3>2
  <2>3. CASE k = v + n + 1
    <3>1. k = v + (n + 1) /\ k + 1 = v + (n + 2) /\ k < Len(r)
      BY <1>1, <1>2, <2>3
    <3>2. QED
      BY <1>4, <3>1
  <2>4. CASE k = v + n + 2
    <3>1. k = v + (n + 2) /\ k - 1 = v + (n + 1) /\ ~(k < Len(r))
      BY <1>1, <1>2, <2>4
    <3>2. QED
      BY <1>4, <3>1
  <2>5. QED
    BY <1>1, <1>2, <2>1, <2>2, <2>3, <2>4
<1>10. ASSUME NEW k \in 1 .. Len(r) PROVE Good(k)
  <2>1. k \in 1 .. v \/ k \in v + 1 .. v + n + 2
    BY <1>1, <1>2
  <2> HIDE DEF Good
  <2>2. QED
    BY <1>8, <1>9, <2>1
<1>11. QED
  BY <1>7, <1>10 DEF Lines

(* The terminal's part of the stream, and what follows a part of it.        *)
LEMMA StreamIs ==
  ASSUME GpsType
  PROVE  /\ Stream \in Seq(Parts) /\ Len(Stream) = Len(queue) + Len(rest)
         /\ Len(queue) \in Nat /\ Len(rest) \in Nat
         /\ \A k \in 1 .. Len(queue) : Stream[k] = queue[k]
         /\ \A k \in 1 .. Len(rest) : Stream[Len(queue) + k] = rest[k]
<1>1. queue \in Seq(Parts) /\ rest \in Seq(Parts)
  BY DEF GpsType
<1>2. /\ Stream \in Seq(Parts) /\ Len(Stream) = Len(queue) + Len(rest)
      /\ \A k \in 1 .. Len(queue) + Len(rest) :
           Stream[k] = IF k <= Len(queue) THEN queue[k] ELSE rest[k - Len(queue)]
  BY <1>1, ConcatProperties DEF Stream
<1>3. Len(queue) \in Nat /\ Len(rest) \in Nat
  BY <1>1
<1>4. ASSUME NEW k \in 1 .. Len(queue) PROVE Stream[k] = queue[k]
  <2>1. k \in 1 .. Len(queue) + Len(rest) /\ k <= Len(queue)
    BY <1>3
  <2>2. QED
    BY <1>2, <2>1
<1>5. ASSUME NEW k \in 1 .. Len(rest) PROVE Stream[Len(queue) + k] = rest[k]
  <2> DEFINE p == Len(queue) + k
  <2>1. p \in 1 .. Len(queue) + Len(rest) /\ ~(p <= Len(queue)) /\ p - Len(queue) = k
    BY <1>3
  <2> HIDE DEF p
  <2>2. Stream[p] = rest[k]
    BY <1>2, <2>1
  <2>3. QED
    BY <2>2 DEF p
<1>6. QED
  BY <1>2, <1>3, <1>4, <1>5

LEMMA FirstEndIs ==
  ASSUME LineEnds # {}
  PROVE  FirstEnd \in LineEnds /\ \A j \in LineEnds : FirstEnd <= j
<1>1. LineEnds \in SUBSET Nat
  BY DEF LineEnds
<1>2. \E k \in LineEnds : \A j \in LineEnds : k <= j
  BY <1>1, LeastNumber
<1>3. QED
  BY <1>2 DEF FirstEnd

\* The stream is the terminal's part and then the rest of the sentence.
Joined ==
  /\ Stream \in Seq(Parts) /\ Len(Stream) = Len(queue) + Len(rest)
  /\ \A k \in 1 .. Len(queue) : Stream[k] = queue[k]
  /\ \A k \in 1 .. Len(rest) : Stream[Len(queue) + k] = rest[k]

LEMMA JoinedNow == GpsType => Joined
BY StreamIs DEF Joined

LEMMA JoinedThen == GpsType' => Joined'
BY JoinedNow, PTL

(* A line feed by itself is one byte, too short to be counted.              *)
LEMMA EmptyLine ==
  ASSUME NEW part, Len(part) = 1, part[1] = "lf"
  PROVE  ~Counts(part)
<1> DEFINE ends == {k \in 1 .. Len(part) : part[k] \in Ends}
<1>1. ends = {1}
  BY DEF Ends
<1>2. Cardinality(ends) = 1
  BY <1>1, FS_Singleton
<1>3. Length(part) = Cardinality(ends) + Piece * (1 - Cardinality(ends))
  BY DEF Length
<1> HIDE DEF ends
<1>4. Length(part) = 1
  BY <1>2, <1>3, GpsAssumption
<1>5. QED
  BY <1>4, GpsAssumption DEF Counts

(* What one read of a line takes, by what the stream begins with, and what  *)
(* is behind it.                                                            *)
Cut(e) ==
  /\ e \in 1 .. Len(queue)
  /\ Taken \in Seq(Parts) /\ Len(Taken) = e /\ \A k \in 1 .. e : Taken[k] = Stream[k]
  /\ Left \in Seq(Parts) /\ Len(Left) = Len(queue) - e
  /\ \A k \in 1 .. Len(queue) - e : Left[k] = Stream[k + e]
  /\ Stream[e] \in Ends
  /\ \A k \in 1 .. e - 1 : Stream[k] \notin Ends

LEMMA ReadCuts ==
  ASSUME GpsType, mode = "lines", Readable
  PROVE  Cut(FirstEnd)
<1> DEFINE e == FirstEnd
<1>1. LineEnds # {}
  BY DEF Readable
<1>2. e \in LineEnds /\ \A j \in LineEnds : e <= j
  BY <1>1, FirstEndIs
<1>3. Taken = SubSeq(queue, 1, e) /\ Left = SubSeq(queue, e + 1, Len(queue))
  BY DEF Taken, Left
<1>4. queue \in Seq(Parts) /\ Len(queue) \in Nat
  BY DEF GpsType
<1>5. \A k \in 1 .. Len(queue) : Stream[k] = queue[k]
  BY StreamIs
<1> HIDE DEF e
<1>6. e \in 1 .. Len(queue) /\ queue[e] \in Ends
  BY <1>2 DEF LineEnds
<1>7. \A k \in 1 .. e - 1 : Stream[k] \notin Ends
  <2> SUFFICES ASSUME NEW k \in 1 .. e - 1, Stream[k] \in Ends PROVE FALSE
    OBVIOUS
  <2>1. k \in 1 .. Len(queue) /\ ~(e <= k)
    BY <1>4, <1>6
  <2>2. queue[k] \in Ends
    BY <1>5, <2>1
  <2>3. k \in LineEnds
    BY <2>1, <2>2 DEF LineEnds
  <2>4. QED
    BY <1>2, <2>1, <2>3
<1>8. Taken \in Seq(Parts) /\ Len(Taken) = e /\ \A k \in 1 .. e : Taken[k] = queue[k]
  BY <1>3, <1>4, <1>6
<1>9. /\ Left \in Seq(Parts) /\ Len(Left) = Len(queue) - e
      /\ \A k \in 1 .. Len(queue) - e : Left[k] = queue[k + e]
  BY <1>3, <1>4, <1>6
<1>10. \A k \in 1 .. e : k \in 1 .. Len(queue)
  BY <1>4, <1>6
<1>11. \A k \in 1 .. Len(queue) - e : k + e \in 1 .. Len(queue)
  BY <1>4, <1>6
<1>12. QED
  BY <1>5, <1>6, <1>7, <1>8, <1>9, <1>10, <1>11 DEF Cut, e

LEMMA LineTaken ==
  ASSUME GpsType, Lines(Stream), NEW e, Cut(e)
  PROVE  /\ Stream[e] \in {"cr", "lf"} /\ e \in 1 .. Len(Stream)
         /\ Stream[e] = "lf" => e = 1
         /\ Stream[e] = "cr" => e < Len(Stream) /\ Stream[e + 1] = "lf"
         /\ Stream[1] = "lf" => e = 1
         /\ Stream[1] = "first" => \E n \in Sentences : Taken = Line(n)
<1>1. /\ e \in 1 .. Len(queue) /\ Len(queue) \in Nat /\ Len(Stream) \in Nat
      /\ Len(queue) <= Len(Stream) /\ e \in 1 .. Len(Stream)
  BY StreamIs DEF Cut
<1>2. Stream[e] \in {"cr", "lf"}
  BY DEF Cut, Ends
<1>3. \A k \in 1 .. e - 1 : Stream[k] # "cr" /\ Stream[k] # "lf"
  BY DEF Cut, Ends
<1>4. ASSUME Stream[e] = "lf" PROVE e = 1
  <2>1. e > 1 => Stream[e - 1] = "cr" /\ e - 1 \in 1 .. e - 1
    BY <1>1, <1>4 DEF Lines
  <2>2. QED
    BY <1>1, <1>3, <2>1
<1>5. ASSUME Stream[e] = "cr" PROVE e < Len(Stream) /\ Stream[e + 1] = "lf"
  BY <1>1, <1>5 DEF Lines
<1>6. ASSUME Stream[1] = "lf" PROVE e = 1
  <2>1. e > 1 => 1 \in 1 .. e - 1
    BY <1>1
  <2>2. QED
    BY <1>1, <1>3, <1>6, <2>1
<1>7. ASSUME Stream[1] = "first" PROVE \E n \in Sentences : Taken = Line(n)
  <2>1. 1 \in 1 .. Len(Stream)
    BY <1>1
  <2>2. PICK n \in Sentences : /\ 1 + n + 1 <= Len(Stream)
                               /\ \A j \in 1 .. n + 2 : Stream[1 + j - 1] = Sentence(n)[j]
    BY <1>7, <2>1 DEF Lines
  <2>3. /\ n \in Nat /\ n >= 1
        /\ Line(n) \in Seq(Parts) /\ Len(Line(n)) = n + 1
        /\ \A j \in 1 .. n + 1 : Sentence(n)[j] = Line(n)[j]
        /\ Sentence(n)[1] = "first" /\ Sentence(n)[n + 1] = "cr"
        /\ \A j \in 2 .. n : Sentence(n)[j] = "piece"
    BY SentenceIs
  <2>4. \A j \in 1 .. n + 2 : Stream[j] = Sentence(n)[j]
    <3>1. \A j \in 1 .. n + 2 : 1 + j - 1 = j
      BY <2>3
    <3>2. QED
      BY <2>2, <3>1
  <2>5. e <= n + 1
    <3>1. n + 1 \in 1 .. n + 2
      BY <2>3
    <3>2. Stream[n + 1] = "cr"
      BY <2>3, <2>4, <3>1
    <3>3. ~(n + 1 \in 1 .. e - 1)
      BY <1>3, <3>2
    <3>4. QED
      BY <1>1, <2>3, <3>3
  <2>6. e >= n + 1
    <3> SUFFICES ASSUME e <= n PROVE FALSE
      BY <1>1, <2>3
    <3>1. e \in 1 .. n + 2 /\ (e = 1 \/ e \in 2 .. n)
      BY <1>1, <2>3
    <3>2. Stream[e] = "first" \/ Stream[e] = "piece"
      BY <2>3, <2>4, <3>1
    <3>3. QED
      BY <1>2, <3>2
  <2>7. e = n + 1
    BY <1>1, <2>3, <2>5, <2>6
  <2>8. Taken \in Seq(Parts) /\ Len(Taken) = n + 1 /\ \A k \in 1 .. n + 1 : Taken[k] = Stream[k]
    BY <2>7 DEF Cut
  <2>9. \A k \in 1 .. n + 1 : k \in 1 .. n + 2
    BY <2>3
  <2>10. \A k \in 1 .. n + 1 : Taken[k] = Line(n)[k]
    BY <2>3, <2>4, <2>8, <2>9
  <2> DEFINE l == Line(n)
  <2>11. l \in Seq(Parts) /\ Len(l) = n + 1 /\ \A k \in 1 .. n + 1 : Taken[k] = l[k]
    BY <2>3, <2>10
  <2> HIDE DEF l
  <2>12. Taken = l
    BY <2>8, <2>11, SeqEqual
  <2>13. QED
    BY <2>12 DEF l
<1>8. QED
  BY <1>1, <1>2, <1>4, <1>5, <1>6, <1>7

(* What is to be read when the first e parts are taken.                     *)
LEMMA Shorter ==
  ASSUME GpsType, Lines(Stream), NEW e \in 0 .. Len(queue), rest' = rest, queue' \in Seq(Parts),
         Len(queue') = Len(queue) - e, \A k \in 1 .. Len(queue) - e : queue'[k] = Stream[k + e]
  PROVE  /\ Lines(Stream') /\ Len(Stream') = Len(Stream) - e
         /\ e < Len(Stream) => Stream' # <<>> /\ Stream'[1] = Stream[e + 1]
<1>1. /\ Len(queue) \in Nat /\ Len(rest) \in Nat /\ Len(Stream) = Len(queue) + Len(rest)
      /\ \A k \in 1 .. Len(rest) : Stream[Len(queue) + k] = rest[k]
  BY StreamIs
<1>2. rest' \in Seq(Parts)
  BY DEF GpsType
<1>3. /\ Stream' \in Seq(Parts) /\ Len(Stream') = Len(queue') + Len(rest)
      /\ \A k \in 1 .. Len(queue') + Len(rest) :
           Stream'[k] = IF k <= Len(queue') THEN queue'[k] ELSE rest[k - Len(queue')]
  BY <1>2, ConcatProperties DEF Stream
<1>4. Len(Stream') = Len(Stream) - e /\ e \in 0 .. Len(Stream) /\ e \in Nat
  BY <1>1, <1>3
<1>5. ASSUME NEW k \in 1 .. Len(Stream') PROVE Stream'[k] = Stream[k + e]
  <2>1. k \in 1 .. Len(queue') + Len(rest) /\ k \in Nat /\ k >= 1
    BY <1>1, <1>3, <1>4
  <2>2. CASE k <= Len(queue')
    <3>1. k \in 1 .. Len(queue) - e
      BY <1>1, <1>4, <2>1, <2>2
    <3>2. QED
      BY <1>3, <2>1, <2>2, <3>1
  <2>3. CASE ~(k <= Len(queue'))
    <3> DEFINE p == k - Len(queue')
    <3>1. p \in 1 .. Len(rest) /\ Len(queue) + p = k + e
      BY <1>1, <1>4, <2>1, <2>3
    <3>2. Stream'[k] = rest[p]
      BY <1>3, <2>1, <2>3
    <3> HIDE DEF p
    <3>3. Stream[Len(queue) + p] = rest[p]
      BY <1>1, <3>1
    <3>4. QED
      BY <3>1, <3>2, <3>3
  <2>4. QED
    BY <2>2, <2>3
<1>6. Lines(Stream')
  BY <1>3, <1>4, <1>5, Suffix
<1>7. ASSUME e < Len(Stream) PROVE Stream' # <<>> /\ Stream'[1] = Stream[e + 1]
  <2>1. Len(Stream') >= 1 /\ 1 \in 1 .. Len(Stream') /\ 1 + e = e + 1
    BY <1>1, <1>4, <1>7
  <2>2. Stream' # <<>>
    BY <1>3, <2>1
  <2>3. QED
    BY <1>5, <2>1, <2>2
<1>8. QED
  BY <1>4, <1>6, <1>7

LEMMA TerminalKeeps == ASSUME GpsInv, TerminalReceives PROVE GpsInv'
<1>1. PICK s \in IF rest = <<>> THEN {Sentence(n) : n \in Sentences} ELSE {rest} :
        /\ rest' = Tail(s)
        /\ IF Len(queue) < Room THEN queue' = Append(queue, Head(s)) /\ UNCHANGED lost
           ELSE lost' = TRUE /\ UNCHANGED queue
        /\ UNCHANGED <<mode, logger, count, torn, bridge>>
  BY DEF TerminalReceives
<1>2. GpsType
  BY DEF GpsInv
<1>3. s \in Seq(Parts) /\ Len(s) \in Nat /\ Len(s) >= 1 /\ s # <<>>
  <2>1. CASE rest = <<>>
    <3>1. PICK n \in Sentences : s = Sentence(n)
      BY <2>1
    <3>2. Sentence(n) \in Seq(Parts) /\ Len(Sentence(n)) = n + 2 /\ n \in Nat
      BY SentenceIs
    <3>3. QED
      BY <3>1, <3>2
  <2>2. CASE rest # <<>>
    BY <1>2, <2>2 DEF GpsType
  <2>3. QED
    BY <2>1, <2>2
<1>4. /\ Head(s) \in Parts /\ Tail(s) \in Seq(Parts) /\ Head(s) = s[1] /\ Len(Tail(s)) = Len(s) - 1
      /\ \A k \in 1 .. Len(s) - 1 : Tail(s)[k] = s[k + 1]
  BY <1>3
<1>5. GpsType'
  <2>1. queue \in Seq(Parts)
    BY <1>2 DEF GpsType
  <2>2. queue' \in Seq(Parts)
    <3>1. queue' = Append(queue, Head(s)) \/ queue' = queue
      BY <1>1
    <3>2. Append(queue, Head(s)) \in Seq(Parts)
      BY <1>4, <2>1, AppendProperties
    <3>3. QED
      BY <2>1, <3>1, <3>2
  <2>3. QED
    BY <1>1, <1>2, <1>4, <2>2 DEF GpsType
<1>6. ASSUME Undisturbed' PROVE Reading'
  <2>1. Undisturbed /\ queue' = Append(queue, Head(s))
    BY <1>1, <1>6 DEF Undisturbed
  <2>2. Reading
    BY <2>1 DEF GpsInv
  <2>3. queue \in Seq(Parts) /\ Len(queue) \in Nat /\ Len(rest) \in Nat
    BY <1>2 DEF GpsType
  <2>4. /\ Len(queue') = Len(queue) + 1 /\ queue'[Len(queue) + 1] = s[1]
        /\ \A k \in 1 .. Len(queue) : queue'[k] = queue[k]
    BY <1>4, <2>1, <2>3
  <2>5. /\ Stream' \in Seq(Parts) /\ Len(Stream') = Len(queue') + Len(rest')
        /\ \A k \in 1 .. Len(queue') : Stream'[k] = queue'[k]
        /\ \A k \in 1 .. Len(rest') : Stream'[Len(queue') + k] = rest'[k]
    BY <1>5, JoinedThen DEF Joined
  <2>6. Len(Stream') = Len(queue) + Len(s)
    BY <1>1, <1>3, <1>4, <2>3, <2>4, <2>5
  <2>7. \A k \in 1 .. Len(queue) : Stream'[k] = queue[k]
    <3>1. \A k \in 1 .. Len(queue) : k \in 1 .. Len(queue')
      BY <2>3, <2>4
    <3>2. QED
      BY <2>4, <2>5, <3>1
  <2>8. ASSUME NEW k \in 1 .. Len(s) PROVE Stream'[Len(queue) + k] = s[k]
    <3>1. CASE k = 1
      <4>1. Len(queue) + 1 \in 1 .. Len(queue')
        BY <2>3, <2>4
      <4>2. QED
        BY <2>4, <2>5, <3>1, <4>1
    <3>2. CASE k # 1
      <4> DEFINE p == k - 1
      <4>1. p \in 1 .. Len(rest') /\ Len(queue') + p = Len(queue) + k /\ p \in 1 .. Len(s) - 1 /\ p + 1 = k
        BY <1>1, <1>3, <1>4, <2>3, <2>4, <3>2
      <4> HIDE DEF p
      <4>2. Stream'[Len(queue') + p] = rest'[p] /\ rest'[p] = s[p + 1]
        BY <1>1, <1>4, <2>5, <4>1
      <4>3. QED
        BY <4>1, <4>2
    <3>3. QED
      BY <3>1, <3>2
  <2>9. /\ Stream \in Seq(Parts) /\ Len(Stream) = Len(queue) + Len(rest)
        /\ \A k \in 1 .. Len(queue) : Stream[k] = queue[k]
        /\ \A k \in 1 .. Len(rest) : Stream[Len(queue) + k] = rest[k]
    BY <1>2, StreamIs
  <2>10. /\ mode' = "lines" /\ ~torn' /\ count' <= Total /\ logger' = logger /\ count' = count
         /\ logger' = "off" => count' = 0
    BY <1>1, <2>2 DEF Reading
  <2>11. CASE rest = <<>>
    <3>1. PICK n \in Sentences : s = Sentence(n)
      BY <1>1, <2>11
    <3>2. Len(s) = n + 2 /\ n \in Nat /\ s[1] = "first"
      BY <3>1, SentenceIs
    <3>3. Len(Stream) = Len(queue) /\ \A k \in 1 .. Len(Stream) : Stream'[k] = Stream[k]
      <4>1. Len(Stream) = Len(queue)
        BY <2>3, <2>9, <2>11
      <4>2. QED
        BY <2>7, <2>9, <4>1
    <3>4. Len(Stream') = Len(Stream) + n + 2
      BY <2>3, <2>6, <3>2, <3>3
    <3>5. \A j \in 1 .. n + 2 : Stream'[Len(Stream) + j] = Sentence(n)[j]
      BY <2>8, <3>1, <3>2, <3>3
    <3>6. Lines(Stream)
      BY <2>2 DEF Reading
    <3>7. Lines(Stream')
      BY <2>5, <3>3, <3>4, <3>5, <3>6, Extended
    <3>8. Stream # <<>> => Stream' # <<>> /\ Stream'[1] = Stream[1]
      <4>1. Stream # <<>> => 1 \in 1 .. Len(Stream)
        BY <2>9
      <4>2. Stream' # <<>>
        BY <2>3, <2>5, <3>2, <3>3, <3>4
      <4>3. QED
        BY <3>3, <4>1, <4>2
    <3>9. Stream = <<>> => Stream'[1] = "first"
      <4>1. Stream = <<>> => Len(Stream) = 0 /\ Len(queue) + 1 = 1
        BY <3>3
      <4>2. Stream'[Len(queue) + 1] = s[1]
        BY <1>3, <2>8
      <4>3. QED
        BY <3>2, <4>1, <4>2
    <3>10. QED
      BY <2>2, <2>10, <3>7, <3>8, <3>9 DEF Reading
  <2>12. CASE rest # <<>>
    <3>1. s = rest
      BY <1>1, <2>12
    <3>2. Len(Stream') = Len(Stream)
      BY <2>6, <2>9, <3>1
    <3>3. ASSUME NEW k \in 1 .. Len(Stream) PROVE Stream'[k] = Stream[k]
      <4>1. CASE k \in 1 .. Len(queue)
        BY <2>7, <2>9, <4>1
      <4>2. CASE ~(k \in 1 .. Len(queue))
        <5> DEFINE p == k - Len(queue)
        <5>1. p \in 1 .. Len(rest) /\ Len(queue) + p = k
          BY <2>3, <2>9, <4>2
        <5> HIDE DEF p
        <5>2. Stream'[Len(queue) + p] = rest[p] /\ Stream[Len(queue) + p] = rest[p]
          BY <2>8, <2>9, <3>1, <5>1
        <5>3. QED
          BY <5>1, <5>2
      <4>3. QED
        BY <4>1, <4>2
    <3>4. Stream' = Stream
      BY <2>5, <2>9, <3>2, <3>3, SeqEqual
    <3>5. QED
      BY <2>2, <2>10, <3>4 DEF Reading
  <2>13. QED
    BY <2>11, <2>12
<1>7. QED
  BY <1>5, <1>6 DEF GpsInv

LEMMA StartKeeps == ASSUME GpsInv, Start PROVE GpsInv'
<1>1. /\ logger = "off" /\ logger' = "read" /\ queue' = <<>>
      /\ UNCHANGED <<mode, rest, lost, count, torn, bridge>>
  BY DEF Start, SetParity
<1>2. GpsType
  BY DEF GpsInv
<1>3. GpsType'
  BY <1>1, <1>2 DEF GpsType
<1>4. ASSUME Undisturbed' PROVE Reading'
  <2>1. Reading
    BY <1>1, <1>4 DEF GpsInv, Undisturbed
  <2>2. count = 0 /\ Lines(Stream)
    BY <1>1, <2>1 DEF Reading
  <2>3. Len(queue) \in Nat /\ queue' \in Seq(Parts) /\ Len(queue') = 0
    BY <1>1, <1>2 DEF GpsType
  <2>4. Lines(Stream')
    <3>1. Len(queue) \in 0 .. Len(queue) /\ Len(queue') = Len(queue) - Len(queue)
          /\ \A k \in 1 .. Len(queue) - Len(queue) : queue'[k] = Stream[k + Len(queue)]
      BY <2>3
    <3>2. rest' = rest
      BY <1>1
    <3>3. QED
      BY <1>2, <2>2, <2>3, <3>1, <3>2, Shorter
  <2>5. QED
    BY <1>1, <2>1, <2>2, <2>4, GpsAssumption DEF Reading
<1>5. QED
  BY <1>3, <1>4 DEF GpsInv

LEMMA GpsReadKeeps == ASSUME GpsInv, Read PROVE GpsInv'
<1>1. /\ logger = "read" /\ Readable /\ queue' = Left
      /\ UNCHANGED <<rest, mode, lost, bridge>>
      /\ Counts(Taken) =>
           /\ count' = IF count > Total THEN count ELSE count + 1
           /\ torn' = (torn \/ (count > 0 /\ \A n \in Sentences : Taken # Line(n)))
           /\ logger' = logger
      /\ ~Counts(Taken) => logger' = "check" /\ count' = count /\ torn' = torn
  BY DEF Read
<1>2. GpsType
  BY DEF GpsInv
<1>3. Left \in Seq(Parts)
  <2>1. CASE mode = "lines"
    BY <1>1, <1>2, <2>1, ReadCuts DEF Cut
  <2>2. CASE mode # "lines"
    <3>1. Left = <<>>
      BY <2>2 DEF Left
    <3>2. QED
      BY <3>1
  <2>3. QED
    BY <2>1, <2>2
<1>4. GpsType'
  <2>1. torn' \in BOOLEAN
    BY <1>1, <1>2 DEF GpsType
  <2>2. count' \in Nat
    BY <1>1, <1>2 DEF GpsType
  <2>3. logger' \in {"off", "read", "check", "done"}
    BY <1>1
  <2>4. QED
    BY <1>1, <1>2, <1>3, <2>1, <2>2, <2>3 DEF GpsType
<1>5. ASSUME Undisturbed' PROVE Reading'
  <2> DEFINE e == FirstEnd
  <2>1. Reading
    BY <1>1, <1>5 DEF GpsInv, Undisturbed
  <2>2. mode = "lines" /\ ~torn /\ count <= Total /\ Lines(Stream)
    BY <2>1 DEF Reading
  <2>3. Cut(e)
    BY <1>1, <1>2, <2>2, ReadCuts
  <2> HIDE DEF e
  <2>4. /\ Stream[e] \in {"cr", "lf"} /\ e \in 1 .. Len(Stream)
        /\ Stream[e] = "lf" => e = 1
        /\ Stream[e] = "cr" => e < Len(Stream) /\ Stream[e + 1] = "lf"
        /\ Stream[1] = "lf" => e = 1
        /\ Stream[1] = "first" => \E n \in Sentences : Taken = Line(n)
    BY <1>2, <2>2, <2>3, LineTaken
  <2>5. /\ Lines(Stream') /\ Len(Stream') = Len(Stream) - e
        /\ e < Len(Stream) => Stream' # <<>> /\ Stream'[1] = Stream[e + 1]
    <3>1. /\ e \in 0 .. Len(queue) /\ rest' = rest /\ queue' \in Seq(Parts)
          /\ Len(queue') = Len(queue) - e /\ \A k \in 1 .. Len(queue) - e : queue'[k] = Stream[k + e]
      BY <1>1, <2>3 DEF Cut
    <3>2. QED
      BY <1>2, <2>2, <3>1, Shorter
  <2>6. Len(Stream) \in Nat /\ Stream' \in Seq(Parts) /\ Stream # <<>>
    <3>1. Len(Stream) \in Nat /\ Stream \in Seq(Parts)
      BY <1>2, StreamIs
    <3>2. QED
      BY <2>4, <2>5, <3>1 DEF Lines
  <2>7. Stream' = <<>> \/ Stream'[1] \in {"first", "lf"}
    <3>1. CASE e < Len(Stream)
      <4>1. Stream[e] = "lf" => Stream[e + 1] = "first"
        BY <2>2, <2>4, <3>1 DEF Lines
      <4>2. QED
        BY <2>4, <2>5, <3>1, <4>1
    <3>2. CASE ~(e < Len(Stream))
      <4>1. Len(Stream') = 0
        BY <2>4, <2>5, <2>6, <3>2
      <4>2. QED
        BY <2>6, <4>1
    <3>3. QED
      BY <3>1, <3>2
  <2>8. Stream[e] = "lf" => ~Counts(Taken)
    <3> SUFFICES ASSUME Stream[e] = "lf" PROVE ~Counts(Taken)
      OBVIOUS
    <3>1. Len(Taken) = 1 /\ Taken[1] = "lf"
      BY <2>3, <2>4 DEF Cut
    <3>2. QED
      BY <3>1, EmptyLine
  <2>9. count \in Nat /\ Total \in Nat /\ Total >= 1
    BY <1>2, GpsAssumption DEF GpsType
  <2>10. CASE Counts(Taken)
    <3>1. Stream[e] = "cr"
      BY <2>4, <2>8, <2>10
    <3>2. Stream' # <<>> /\ Stream'[1] = "lf"
      BY <2>4, <2>5, <3>1
    <3>3. count # Total
      <4>1. count = Total => Stream[1] = "lf"
        BY <1>1, <2>1 DEF Reading
      <4>2. Stream[1] = "lf" => Stream[e] = "lf"
        BY <2>4
      <4>3. QED
        BY <3>1, <4>1, <4>2
    <3>4. count' = count + 1 /\ count' <= Total
      BY <1>1, <2>2, <2>9, <2>10, <3>3
    <3>5. count > 0 => \E n \in Sentences : Taken = Line(n)
      <4>1. count > 0 => Stream[1] \in {"first", "lf"}
        BY <2>1, <2>6 DEF Reading
      <4>2. Stream[1] # "lf"
        BY <2>4, <3>1
      <4>3. QED
        BY <2>4, <4>1, <4>2
    <3>6. ~torn'
      BY <1>1, <2>2, <2>10, <3>5
    <3>7. QED
      BY <1>1, <2>2, <2>5, <2>10, <3>2, <3>4, <3>6 DEF Reading
  <2>11. CASE ~Counts(Taken)
    BY <1>1, <2>1, <2>2, <2>5, <2>7, <2>11 DEF Reading
  <2>12. QED
    BY <2>10, <2>11
<1>6. QED
  BY <1>4, <1>5 DEF GpsInv

LEMMA CheckKeeps == ASSUME GpsInv, Check PROVE GpsInv'
<1>1. /\ UNCHANGED <<rest, queue, mode, lost, torn, bridge>>
      /\ count = Total => logger' = "done" /\ count' = 0
      /\ count # Total => logger' = "read" /\ count' = count
  BY DEF Check
<1>2. Stream' = Stream
  BY <1>1 DEF Stream
<1>3. GpsType'
  BY <1>1 DEF GpsInv, GpsType
<1>4. Undisturbed' => Undisturbed
  BY <1>1 DEF Undisturbed
<1>5. Total \in Nat /\ Total >= 1
  BY GpsAssumption
<1>6. ASSUME Undisturbed' PROVE Reading'
  <2>1. Reading
    BY <1>4, <1>6 DEF GpsInv
  <2>2. QED
    BY <1>1, <1>2, <1>5, <2>1 DEF Reading
<1>7. QED
  BY <1>3, <1>6 DEF GpsInv

(* The bridge leaves nothing to be said but the types.                      *)
LEMMA BridgeKeeps == ASSUME GpsInv, BridgeStart \/ BridgeRead \/ BridgeStop PROVE GpsInv'
<1>1. /\ UNCHANGED <<rest, logger, count, torn, lost>> /\ bridge' # "none"
      /\ queue' = queue \/ (queue' = Left /\ Readable)
  BY DEF BridgeStart, BridgeRead, BridgeStop
<1>2. GpsType
  BY DEF GpsInv
<1>3. queue' \in Seq(Parts)
  <2>1. CASE queue' = queue
    BY <1>2, <2>1 DEF GpsType
  <2>2. CASE queue' = Left /\ Readable /\ mode = "lines"
    BY <1>2, <2>2, ReadCuts DEF Cut
  <2>3. CASE queue' = Left /\ mode # "lines"
    <3>1. queue' = <<>>
      BY <2>3 DEF Left
    <3>2. QED
      BY <3>1
  <2>4. QED
    BY <1>1, <2>1, <2>2, <2>3
<1>4. GpsType'
  BY <1>1, <1>2, <1>3 DEF GpsType
<1>5. ~Undisturbed'
  BY <1>1 DEF Undisturbed
<1>6. QED
  BY <1>4, <1>5 DEF GpsInv

LEMMA GpsStart == GpsInit => GpsInv
<1> SUFFICES ASSUME GpsInit PROVE GpsInv
  OBVIOUS
<1>1. rest = <<>> /\ queue = <<>> /\ mode = "lines" /\ logger = "off" /\ count = 0 /\ torn = FALSE
  BY DEF GpsInit
<1>2. GpsType
  <2>1. <<>> \in Seq(Parts) /\ 0 \in Nat
    OBVIOUS
  <2>2. lost = FALSE
    BY DEF GpsInit
  <2>3. QED
    BY <1>1, <2>1, <2>2 DEF GpsType
<1>3. Len(Stream) = 0 /\ Stream \in Seq(Parts)
  BY <1>1, <1>2, StreamIs
<1>4. Stream = <<>>
  BY <1>3
<1>5. Lines(Stream)
  BY <1>3, <1>4 DEF Lines
<1>6. QED
  BY <1>1, <1>2, <1>4, <1>5, GpsAssumption DEF GpsInv, Reading

LEMMA GpsKeeps == GpsInv /\ [GpsNext]_gpsVars => GpsInv'
<1> SUFFICES ASSUME GpsInv, [GpsNext]_gpsVars PROVE GpsInv'
  OBVIOUS
<1>1. CASE TerminalReceives
  BY <1>1, TerminalKeeps
<1>2. CASE Start
  BY <1>2, StartKeeps
<1>3. CASE Read
  BY <1>3, GpsReadKeeps
<1>4. CASE Check
  BY <1>4, CheckKeeps
<1>5. CASE BridgeStart \/ BridgeRead \/ BridgeStop
  BY <1>5, BridgeKeeps
<1>6. CASE UNCHANGED gpsVars
  BY <1>6 DEF gpsVars, GpsInv, GpsType, Reading, Undisturbed, Stream
<1>7. QED
  BY <1>1, <1>2, <1>3, <1>4, <1>5, <1>6 DEF GpsNext

LEMMA GpsInvHolds == GpsSpec => []GpsInv
BY GpsStart, GpsKeeps, PTL DEF GpsSpec

(* The comparison behind the inner loop of serial.c's main is not stepped   *)
(* over: two records do not follow each other without a line between them   *)
(* that is not counted, for any total and sentences of any length, as long  *)
(* as no bridge has set the terminal and it has had room for everything.    *)
THEOREM NeverStepsOver == GpsSpec => []NeverPastTotal
<1>1. GpsInv => NeverPastTotal
  BY DEF GpsInv, Reading, NeverPastTotal
<1>2. QED
  BY <1>1, GpsInvHolds, PTL

(* Under the same condition each record of the logger but the first is one  *)
(* sentence, from its beginning to its carriage return.                     *)
THEOREM WholeRecords == GpsSpec => []RecordsWhole
<1>1. GpsInv => RecordsWhole
  BY DEF GpsInv, Reading, RecordsWhole
<1>2. QED
  BY <1>1, GpsInvHolds, PTL
================================================================================
