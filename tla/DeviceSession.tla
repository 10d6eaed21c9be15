----------------------------- MODULE DeviceSession -----------------------------
(***************************************************************************)
(* The session of example_mt_ix_mk4.cpp with a motion tracker: the         *)
(* requests of DeviceClass, each a message written and an answer waited    *)
(* for, then the loop that logs the samples.  The link carries whole       *)
(* messages in order, what XbusParser makes of a serial line; a message    *)
(* with a damaged byte is lost.  The device is external.                   *)
(***************************************************************************)
EXTENDS Integers, Sequences

CONSTANTS
  Kinds,        \* the kinds of device that may be connected
  MaxSamples,   \* bound on the samples the device sends
  MaxLost,      \* bound on the messages the link loses
  Noisy         \* whether the device is measuring when the program starts

ASSUME KindsAssumption == Kinds \subseteq {"MTi", "MTmk4", "other"}
ASSUME BoundsAssumption == MaxSamples \in Nat /\ MaxLost \in Nat /\ Noisy \in BOOLEAN

VARIABLES
  stage,       \* how many requests of the session have been answered
  waiting,     \* in waitForMessage for the answer to the next one
  host,        \* "starting", "logging" in the main loop, "closed"
  known,       \* the kind of device DeviceId told, "unknown" before
  rows,        \* what the log file holds
  device,      \* the device: kind, mode and output configuration
  samples,     \* how many samples it has sent
  toDevice, toHost,   \* messages under way
  lost         \* how many messages were lost

hostVars == <<stage, waiting, host, known, rows>>
vars == <<stage, waiting, host, known, rows, device, samples, toDevice, toHost, lost>>

Nothing == "none"

(* A message: its id and what its data say.  XMID_SetOutputSettings without *)
(* data is XMID_ReqOutputSettings: they are one number.                     *)
Message(mid, arg) == [mid |-> mid, arg |-> arg]

Ack(mid) ==
  CASE mid = "GotoConfig"             -> "GotoConfigAck"
    [] mid = "ReqDid"                 -> "DeviceId"
    [] mid = "SetOutputMode"          -> "SetOutputModeAck"
    [] mid = "SetOutputSettings"      -> "SetOutputSettingsAck"
    [] mid = "SetOutputConfiguration" -> "SetOutputConfigurationAck"
    [] mid = "GotoMeasurement"        -> "GotoMeasurementAck"

\* setDeviceMode: the message with the settings is built, another one is sent.
SetDeviceMode ==
  <<Message("SetOutputMode", "wanted"), Message("SetOutputSettings", Nothing)>>

SetOutputConfiguration == <<Message("SetOutputConfiguration", "wanted")>>

(* The requests of the program, given what it knows of the device.          *)
Requests ==
  <<Message("GotoConfig", Nothing), Message("ReqDid", Nothing)>>
    \o (CASE known = "MTi"   -> SetDeviceMode
          [] known = "MTmk4" -> SetOutputConfiguration
          [] OTHER           -> <<>>)
    \o <<Message("GotoMeasurement", Nothing)>>

Current == Requests[stage + 1]

Init ==
  /\ stage = 0
  /\ waiting = FALSE
  /\ host = "starting"
  /\ known = "unknown"
  /\ rows = <<>>
  /\ device \in [kind : Kinds, mode : {IF Noisy THEN "measurement" ELSE "config"},
                 outputMode : {"old"}, outputSettings : {"old"}, outputConfig : {"old"}]
  /\ samples = 0
  /\ toDevice = <<>>
  /\ toHost = <<>>
  /\ lost = 0
--------------------------------------------------------------------------------
(* The program. *)

\* writeMessage; whether it could be written is not looked at.
Send ==
  /\ host = "starting"
  /\ ~waiting
  /\ stage < Len(Requests)
  /\ toDevice' = Append(toDevice, Current)
  /\ waiting' = TRUE
  /\ UNCHANGED <<stage, host, known, rows, device, samples, toHost, lost>>

(* One call of processBufferedData yields the first n messages that have    *)
(* come in.                                                                 *)

\* mutated: they stay in the buffer
ConsumeNothing(n) == n >= 0 /\ toHost' = toHost

Consume(n) == toHost' = SubSeq(toHost, n + 1, Len(toHost))

\* mutated: any message is taken for the answer
AnyAnswers(n) == 1 .. n

\* mutated: only the first message of the batch is looked at
FirstAnswers(n) == {i \in 1 .. n : i = 1 /\ toHost[i].mid = Ack(Current.mid)}

Answers(n) == {i \in 1 .. n : toHost[i].mid = Ack(Current.mid)}
LastOf(S) == CHOOSE i \in S : \A j \in S : j <= i

\* One turn of waitForMessage without the answer: the messages read are dropped.
KeepWaiting(n) ==
  /\ host = "starting"
  /\ waiting
  /\ Answers(n) = {}
  /\ Consume(n)
  /\ UNCHANGED <<hostVars, device, samples, toDevice, lost>>

\* The answer is in the batch; what else the batch holds is dropped.
Answered(n) ==
  /\ host = "starting"
  /\ waiting
  /\ Answers(n) # {}
  /\ Consume(n)
  /\ waiting' = FALSE
  /\ stage' = stage + 1
  /\ known' = IF Current.mid = "ReqDid" THEN toHost[LastOf(Answers(n))].arg ELSE known
  /\ host' = IF known' = "other" THEN "closed"
             ELSE IF stage' = Len(Requests)' THEN "logging" ELSE "starting"
  /\ UNCHANGED <<rows, device, samples, toDevice, lost>>

\* The row of a message: its sample, or an empty packet's for any other message.
EmptyPacket ==
  [number |-> 0, outputMode |-> "old", outputSettings |-> "old", outputConfig |-> "old"]
Row(msg) == IF msg.mid = "MtData" THEN msg.arg ELSE EmptyPacket

\* One turn of the main loop, with the rows it writes for n messages.
Log(n, new) ==
  /\ host = "logging"
  /\ Consume(n)
  /\ rows' = rows \o new
  /\ UNCHANGED <<stage, waiting, host, known, device, samples, toDevice, lost>>

\* mutated: only the first message of the batch is looked at
LogFirst(n) == Log(n, [i \in 1 .. (IF n = 0 THEN 0 ELSE 1) |-> Row(toHost[i])])

LogBatch(n) == Log(n, [i \in 1 .. n |-> Row(toHost[i])])

KeyPressed ==
  /\ host = "logging"
  /\ host' = "closed"
  /\ UNCHANGED <<stage, waiting, known, rows, device, samples, toDevice, toHost, lost>>
--------------------------------------------------------------------------------
(* The device and the link. *)

Handled(msg) ==
  CASE msg.mid = "GotoConfig"      -> [device EXCEPT !.mode = "config"]
    [] msg.mid = "GotoMeasurement" -> [device EXCEPT !.mode = "measurement"]
    [] msg.mid = "SetOutputMode"   -> [device EXCEPT !.outputMode = msg.arg]
    [] msg.mid = "SetOutputSettings" ->
         IF msg.arg = Nothing THEN device ELSE [device EXCEPT !.outputSettings = msg.arg]
    [] msg.mid = "SetOutputConfiguration" -> [device EXCEPT !.outputConfig = msg.arg]
    [] OTHER -> device

\* In measurement mode only GotoConfig is listened to.
DeviceAnswers ==
  /\ toDevice # <<>>
  /\ toDevice' = Tail(toDevice)
  /\ LET msg == Head(toDevice)
     IN IF device.mode = "config" \/ msg.mid = "GotoConfig"
        THEN /\ device' = Handled(msg)
             /\ toHost' = Append(toHost, Message(Ack(msg.mid),
                            IF msg.mid = "ReqDid" THEN device.kind ELSE Nothing))
        ELSE UNCHANGED <<device, toHost>>
  /\ UNCHANGED <<hostVars, samples, lost>>

\* A sample: its number, and the mode, settings and configuration it was taken with.
DeviceMeasures ==
  /\ device.mode = "measurement"
  /\ samples < MaxSamples
  /\ samples' = samples + 1
  /\ toHost' = Append(toHost, Message("MtData",
                 [number |-> samples', outputMode |-> device.outputMode,
                  outputSettings |-> device.outputSettings,
                  outputConfig |-> device.outputConfig]))
  /\ UNCHANGED <<hostVars, device, toDevice, lost>>

Without(s, i) == SubSeq(s, 1, i - 1) \o SubSeq(s, i + 1, Len(s))

Lose ==
  /\ lost < MaxLost
  /\ lost' = lost + 1
  /\ \/ /\ \E i \in DOMAIN toDevice : toDevice' = Without(toDevice, i)
        /\ UNCHANGED toHost
     \/ /\ \E i \in DOMAIN toHost : toHost' = Without(toHost, i)
        /\ UNCHANGED toDevice
  /\ UNCHANGED <<hostVars, device, samples>>
--------------------------------------------------------------------------------
Poll ==
  \/ \E n \in 0 .. Len(toHost) : KeepWaiting(n)
  \/ \E n \in 1 .. Len(toHost) : Answered(n)

Next ==
  \/ Send
  \/ Poll
  \/ \E n \in 0 .. Len(toHost) : LogBatch(n)
  \/ KeyPressed
  \/ DeviceAnswers
  \/ DeviceMeasures
  \/ Lose

Spec == Init /\ [][Next]_vars

\* The program polls on, the device answers, and a message that has arrived is
\* read in the end: readData takes what there is.
FairSpec ==
  /\ Spec
  /\ WF_vars(Send)
  /\ WF_vars(DeviceAnswers)
  /\ WF_vars(\E n \in 1 .. Len(toHost) : KeepWaiting(n) \/ Answered(n))
--------------------------------------------------------------------------------
Done(mid) == \E i \in 1 .. stage : Requests[i].mid = mid

(* What the program has had acknowledged is true of the device, whatever    *)
(* messages were lost and whatever old samples were still under way: it is  *)
(* in configuration mode until it is sent to measure, it has the output     *)
(* mode or configuration asked for, and it measures when rows are logged.   *)
AcknowledgedHolds ==
  host # "closed" =>
    /\ Done("GotoConfig") /\ stage + 1 < Len(Requests) => device.mode = "config"
    /\ Done("SetOutputMode") => device.outputMode = "wanted"
    /\ Done("SetOutputConfiguration") => device.outputConfig = "wanted"
    /\ host = "logging" => device.mode = "measurement"

\* Taken with all the device is set to, and with what its kind was asked for:
\* of an MTi the mode alone, its settings are never sent (DeviceModeSet below).
Fresh(sample) ==
  /\ sample.outputMode = device.outputMode
  /\ sample.outputSettings = device.outputSettings
  /\ sample.outputConfig = device.outputConfig
  /\ known = "MTi" => sample.outputMode = "wanted"
  /\ known = "MTmk4" => sample.outputConfig = "wanted"

(* A row of the log is a sample, never an answer, and one of the run: no    *)
(* request changes what the device measures behind the first row, and no    *)
(* sample from before the requests is logged, however late it comes.  The   *)
(* rows are in the order the samples were taken in.                         *)
RowsAreFreshSamples ==
  /\ \A i \in DOMAIN rows : rows[i].number # 0 /\ Fresh(rows[i])
  /\ \A i, j \in DOMAIN rows : i < j => rows[i].number < rows[j].number

(* On a link that loses nothing the log has no gap, and what is not yet in  *)
(* it is still under way.                                                   *)
LogHasNoGap ==
  lost = 0 /\ host = "logging" /\ rows # <<>> =>
    /\ \A i \in DOMAIN rows : rows[i].number = rows[1].number + i - 1
    /\ samples = rows[Len(rows)].number + Len(toHost)

(* On a link that loses nothing the session reaches its main loop, or       *)
(* refuses the device, whatever samples come between the answers.           *)
SessionStarts == <>(host # "starting" \/ lost > 0)
--------------------------------------------------------------------------------
(* deviceclass.cpp, setDeviceMode: "Set the device mode of a device         *)
(* (outputmode and outputsettings) ... return True when successful".        *)
DeviceModeSet == Done("SetOutputSettings") => device.outputSettings = "wanted"
================================================================================
