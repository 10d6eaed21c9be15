------------------------------ MODULE DeviceStreams ------------------------------
(***************************************************************************)
(* The two kinds of port that DeviceClass::openPort chooses between: the   *)
(* objects of a behaviour all use a serial port, or all a USB device.      *)
(***************************************************************************)
EXTENDS SerialInterface, UsbInterface

VARIABLE isUsb

streamVars == <<isUsb, vars, usbVars>>

\* A serial port is no USB device: nothing is to be known of one.
StreamInit ==
  /\ isUsb \in BOOLEAN
  /\ Init /\ UsbInit
  /\ isUsb \/ hasDriver = {}

SerialStep(A) == ~isUsb /\ A /\ UNCHANGED <<isUsb, usbVars>>
UsbStep(A)    == isUsb /\ A /\ UNCHANGED <<isUsb, vars>>

StreamNext == SerialStep(Next) \/ UsbStep(UsbNext)

\* A call that has begun takes its next step; nobody has to make another.
StreamSpec ==
  /\ StreamInit /\ [][StreamNext]_streamVars
  /\ \A u \in Users : WF_streamVars(SerialStep(Proceed(u)))
  /\ \A u \in UsbUsers : WF_streamVars(UsbStep(UsbProceed(u)))
--------------------------------------------------------------------------------
(* A call that has begun comes back while the device is there, on a serial  *)
(* port also if the time of waitForData is never over, as long as nobody    *)
(* else flushes the port.                                                   *)
CallsEnd == ReadEnds /\ UsbCallsEnd
================================================================================
