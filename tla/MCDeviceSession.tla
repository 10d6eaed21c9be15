---------------------------- MODULE MCDeviceSession ----------------------------
(***************************************************************************)
(* DeviceSession with the bounds its configurations give it.               *)
(***************************************************************************)
EXTENDS DeviceSession

AllKinds == {"MTi", "MTmk4", "other"}
================================================================================
