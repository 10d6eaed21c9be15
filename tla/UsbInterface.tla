------------------------------ MODULE UsbInterface ------------------------------
(***************************************************************************)
(* UsbInterface, built with libusb: several objects, in one process or     *)
(* several, that open the same device.  open takes every interface of the  *)
(* device from its kernel driver and claims it; closeUsb gives all back.   *)
(* Each call of libusb is a step; libusb and the kernel are external, and  *)
(* the results of the calls, which nothing reads later, are left out.      *)
(***************************************************************************)
EXTENDS Integers

CONSTANTS
  UsbUsers,       \* the objects
  NumInterfaces,  \* bNumInterfaces of the device's configuration
  UsbMaxLength,   \* the largest number of bytes a caller asks for
  UsbMaxBytes,    \* bound: bytes the device sends
  Nobody

Interfaces == 0 .. NumInterfaces - 1

ASSUME UsbAssumption ==
  /\ NumInterfaces \in Nat \ {0} /\ UsbMaxLength \in Nat \ {0} /\ UsbMaxBytes \in Nat
  /\ Nobody \notin UsbUsers

VARIABLES
  usbPlugged,
  hasDriver,    \* the interfaces that the kernel has a driver for
  driver,       \* the interfaces whose driver is attached
  holder,       \* who has claimed each interface
  inHead, inTail,  \* the bytes received and not read are inHead+1 .. inTail
  at,           \* where each object is
  interface,    \* the interface its loop has reached
  usbCall,      \* what an object that reads was asked for, and has
  left          \* history: the interfaces that a failing open has left to no driver
                \* since an object that had the device began to close it

usbVars == <<usbPlugged, hasDriver, driver, holder, inHead, inTail, at, interface, usbCall, left>>

NoUsbCall == [wait |-> FALSE, want |-> 0, have |-> 0]

UsbInit ==
  /\ usbPlugged = TRUE
  /\ hasDriver \in SUBSET Interfaces
  /\ driver = hasDriver
  /\ holder = [i \in Interfaces |-> Nobody]
  /\ inHead = 0 /\ inTail = 0
  /\ at = [u \in UsbUsers |-> "closed"]
  /\ interface = [u \in UsbUsers |-> 0]
  /\ usbCall = [u \in UsbUsers |-> NoUsbCall]
  /\ left = {}
--------------------------------------------------------------------------------
(* The device. *)

UsbReceive ==
  /\ usbPlugged /\ inTail < UsbMaxBytes /\ \E u \in UsbUsers : at[u] # "closed"
  /\ inTail' = inTail + 1
  /\ UNCHANGED <<usbPlugged, hasDriver, driver, holder, inHead, at, interface, usbCall, left>>

\* The kernel forgets the drivers and the claims.
UsbUnplug ==
  /\ usbPlugged /\ \E u \in UsbUsers : at[u] # "closed"
  /\ usbPlugged' = FALSE
  /\ driver' = {}
  /\ holder' = [i \in Interfaces |-> Nobody]
  /\ UNCHANGED <<hasDriver, inHead, inTail, at, interface, usbCall, left>>
--------------------------------------------------------------------------------
GoTo(u, from, to, i) ==
  /\ at[u] = from
  /\ at' = [at EXCEPT ![u] = to]
  /\ interface' = [interface EXCEPT ![u] = i]

\* The next interface, or what comes behind the loop.
Further(u, from, loop, after) ==
  IF interface[u] + 1 < NumInterfaces THEN GoTo(u, from, loop, interface[u] + 1)
  ELSE GoTo(u, from, after, 0)

\* The search for the device and libusb_open.
UsbOpen(u) ==
  /\ usbPlugged
  /\ GoTo(u, "closed", "query", 0)
  /\ UNCHANGED <<usbPlugged, hasDriver, driver, holder, inHead, inTail, usbCall, left>>

\* No device has the address: result is read without having been written.  It is taken
\* for an error, or for success, and then libusb_open is given NULL.
UsbOpenAbsent(u) ==
  /\ ~usbPlugged
  /\ GoTo(u, "closed", "closed", 0) \/ GoTo(u, "closed", "crashed", 0)
  /\ UNCHANGED <<usbPlugged, hasDriver, driver, holder, inHead, inTail, usbCall, left>>

\* A call in the claiming loop has failed: the interfaces before are released, and the
\* device is closed.
ClaimLoopFails(u, from) ==
  GoTo(u, from, IF interface[u] = 0 THEN "drop" ELSE "unwind", interface[u])

\* kernel_driver_active.  Like the other calls in the loop it may fail by itself.
Query(u) ==
  /\ \/ /\ usbPlugged
        /\ GoTo(u, "query", IF interface[u] \in driver THEN "detach" ELSE "claim", interface[u])
     \/ ClaimLoopFails(u, "query")
  /\ UNCHANGED <<usbPlugged, hasDriver, driver, holder, inHead, inTail, usbCall, left>>

Detach(u) ==
  /\ \/ /\ interface[u] \in driver
        /\ GoTo(u, "detach", "claim", interface[u])
        /\ driver' = driver \ {interface[u]}
     \/ ClaimLoopFails(u, "detach") /\ UNCHANGED driver
  /\ UNCHANGED <<usbPlugged, hasDriver, holder, inHead, inTail, usbCall, left>>

Claimable(i) == usbPlugged /\ i \notin driver /\ holder[i] = Nobody

\* Nobody gives back the driver of an interface that was detached and then not claimed.
Abandoned(i) == IF i \in hasDriver \ driver /\ holder[i] = Nobody THEN {i} ELSE {}

\* mutated: the last interface decides
ClaimAny(u) ==
  /\ Further(u, "claim", "query", "flush")
  /\ holder' = IF Claimable(interface[u]) THEN [holder EXCEPT ![interface[u]] = u] ELSE holder
  /\ UNCHANGED <<usbPlugged, hasDriver, driver, inHead, inTail, usbCall, left>>

Claim(u) ==
  /\ \/ /\ Claimable(interface[u])
        /\ Further(u, "claim", "query", "flush")
        /\ holder' = [holder EXCEPT ![interface[u]] = u]
        /\ UNCHANGED left
     \/ /\ ClaimLoopFails(u, "claim")
        /\ left' = left \cup Abandoned(interface[u])
        /\ UNCHANGED holder
  /\ UNCHANGED <<usbPlugged, hasDriver, driver, inHead, inTail, usbCall>>

\* release_interface, which fails if u has not claimed it or the device is gone.
Releases(u, i) == holder[i] = u /\ holder' = [holder EXCEPT ![i] = Nobody]

\* attach_kernel_driver; its result is not looked at.
Attached(i) ==
  IF usbPlugged /\ holder[i] = Nobody /\ i \in hasDriver THEN driver \cup {i} ELSE driver

\* The loops over the interfaces before the one that failed stop when result is success,
\* as it is with the first one released; open then returns this result.  On a device that
\* is gone the inner loop never ends.
Unwind(u) ==
  /\ GoTo(u, "unwind", "rebind", interface[u])
  /\ Releases(u, 0)
  /\ UNCHANGED <<usbPlugged, hasDriver, driver, inHead, inTail, usbCall, left>>

Rebind(u) ==
  /\ GoTo(u, "rebind", "drop", interface[u])
  /\ driver' = Attached(0)
  /\ UNCHANGED <<usbPlugged, hasDriver, holder, inHead, inTail, usbCall, left>>

\* libusb_close, with which the kernel takes back what is still claimed.
Drop(u) ==
  /\ GoTo(u, "drop", "closed", 0)
  /\ holder' = [i \in Interfaces |-> IF holder[i] = u THEN Nobody ELSE holder[i]]
  /\ left' = left \cup {i \in Interfaces : holder[i] = u /\ i < interface[u]}
  /\ UNCHANGED <<usbPlugged, hasDriver, driver, inHead, inTail, usbCall>>

\* m_deviceHandle is set, and what has been received is read and thrown away.
FlushUsb(u) ==
  /\ GoTo(u, "flush", "open", 0)
  /\ inHead' = inTail
  /\ UNCHANGED <<usbPlugged, hasDriver, driver, holder, inTail, usbCall, left>>
--------------------------------------------------------------------------------
(* closeUsb. *)

UsbClose(u) ==
  /\ GoTo(u, "open", "release", 0)
  /\ inHead' = inTail
  /\ left' = {}
  /\ UNCHANGED <<usbPlugged, hasDriver, driver, holder, inTail, usbCall>>

\* mutated: the loop over the interfaces ends with the first
ReleaseFirst(u) ==
  /\ GoTo(u, "release", "attach", NumInterfaces - 1)
  /\ Releases(u, interface[u])
  /\ UNCHANGED <<usbPlugged, hasDriver, driver, inHead, inTail, usbCall, left>>

\* Tried until it succeeds: on a device that is gone, for ever.
Release(u) ==
  /\ GoTo(u, "release", "attach", interface[u])
  /\ Releases(u, interface[u])
  /\ UNCHANGED <<usbPlugged, hasDriver, driver, inHead, inTail, usbCall, left>>

Attach(u) ==
  /\ Further(u, "attach", "release", "drop")
  /\ driver' = Attached(interface[u])
  /\ UNCHANGED <<usbPlugged, hasDriver, holder, inHead, inTail, usbCall, left>>
--------------------------------------------------------------------------------
(* Reading.  writeData changes nothing here: the device takes all, or is gone. *)

UsbFlushData(u) ==
  /\ at[u] = "open"
  /\ inHead' = inTail
  /\ UNCHANGED <<usbPlugged, hasDriver, driver, holder, inTail, at, interface, usbCall, left>>

UsbBeginRead(u, wait, n) ==
  /\ GoTo(u, "open", "transfer", 0)
  /\ usbCall' = [usbCall EXCEPT ![u] = [wait |-> wait, want |-> n, have |-> 0]]
  /\ UNCHANGED <<usbPlugged, hasDriver, driver, holder, inHead, inTail, left>>

UsbReturn(u) ==
  /\ GoTo(u, "transfer", "open", 0)
  /\ usbCall' = [usbCall EXCEPT ![u] = NoUsbCall]

\* bulk_transfer brings n bytes; while bytes are missing waitForData reads again, or its
\* time is over.
TransferIn(u, n) ==
  LET c == [usbCall[u] EXCEPT !.have = @ + n] IN
  /\ at[u] = "transfer"
  /\ usbPlugged /\ n <= inTail - inHead /\ c.have <= c.want
  /\ inHead' = inHead + n
  /\ \/ /\ c.wait /\ c.have < c.want
        /\ usbCall' = [usbCall EXCEPT ![u] = c]
        /\ UNCHANGED <<at, interface>>
     \/ UsbReturn(u)
  /\ UNCHANGED <<usbPlugged, hasDriver, driver, holder, inTail, left>>

\* Nothing comes within m_timeout, or the device is gone.
TransferFails(u) ==
  /\ ~usbPlugged \/ inHead = inTail
  /\ UsbReturn(u)
  /\ UNCHANGED <<usbPlugged, hasDriver, driver, holder, inHead, inTail, left>>

--------------------------------------------------------------------------------
UsbProceed(u) ==
  \/ Query(u) \/ Detach(u) \/ Claim(u) \/ Unwind(u) \/ Rebind(u) \/ Drop(u) \/ FlushUsb(u)
  \/ Release(u) \/ Attach(u)
  \/ TransferFails(u) \/ \E n \in 1 .. UsbMaxLength : TransferIn(u, n)

UsbRequest(u) ==
  \/ UsbOpen(u) \/ UsbOpenAbsent(u) \/ UsbClose(u) \/ UsbFlushData(u)
  \/ \E wait \in BOOLEAN, n \in 1 .. UsbMaxLength : UsbBeginRead(u, wait, n)

UsbNext ==
  \/ UsbReceive \/ UsbUnplug
  \/ \E u \in UsbUsers : UsbProceed(u) \/ UsbRequest(u)
--------------------------------------------------------------------------------
(* An object that has a device open has all its interfaces: whoever opens   *)
(* while another one is closing gets them all or none.                      *)
PortIsWhole ==
  \A u \in UsbUsers : at[u] \in {"open", "transfer"} /\ usbPlugged =>
    \A i \in Interfaces : holder[i] = u

(* When no object has the device open, or is opening or closing it, each    *)
(* interface is back with its driver, however the claims, releases and      *)
(* failures of the objects have interleaved, but for those that an open     *)
(* which failed has left, and that nobody has closed since.                 *)
DriversBack ==
  (\A u \in UsbUsers : at[u] = "closed") /\ usbPlugged =>
    driver \subseteq hasDriver /\ hasDriver \ left \subseteq driver

(* "If a kernel driver was detached when communication with the device      *)
(* started, attach it again" (usbinterface.cpp:463).  An open that fails    *)
(* does not.                                                                *)
DriversReturned ==
  (\A u \in UsbUsers : at[u] = "closed") /\ usbPlugged => driver = hasDriver

(* A call that has begun ends, if the device stays plugged in.              *)
UsbCallsEnd ==
  \A u \in UsbUsers : at[u] \notin {"closed", "open"} ~> at[u] \in {"closed", "open"} \/ ~usbPlugged
================================================================================
