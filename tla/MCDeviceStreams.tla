---------------------------- MODULE MCDeviceStreams ----------------------------
(***************************************************************************)
(* The port of the inertial unit, and the terminal of the GPS receiver.    *)
(* They share nothing: each behaviour follows one of them.                 *)
(***************************************************************************)
EXTENDS DeviceStreams, GpsLogger

LineOptions == {{"clear"}, {"set", "clear"}}

CONSTANT Devices    \* those followed, of "imu" and "gps"

VARIABLE device

deviceVars == <<device, streamVars, gpsVars>>

ImuStep(A) == device = "imu" /\ A /\ UNCHANGED <<device, gpsVars>>
GpsStep(A) == device = "gps" /\ A /\ UNCHANGED <<device, streamVars>>

\* The port that is not followed is a serial one.
DeviceInit == device \in Devices /\ StreamInit /\ GpsInit /\ (device = "gps" => ~isUsb)
DeviceNext == ImuStep(StreamNext) \/ GpsStep(GpsNext)

\* The fairness of StreamSpec and of GpsSpec, for the device followed.
DeviceSpec ==
  /\ DeviceInit /\ [][DeviceNext]_deviceVars
  /\ \A u \in Users : WF_deviceVars(ImuStep(SerialStep(Proceed(u))))
  /\ \A u \in UsbUsers : WF_deviceVars(ImuStep(UsbStep(UsbProceed(u))))
  /\ WF_deviceVars(GpsStep(TerminalReceives))
  /\ WF_deviceVars(GpsStep(Start \/ Read \/ Check))
================================================================================
