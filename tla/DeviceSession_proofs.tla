-------------------------- MODULE DeviceSession_proofs --------------------------
(***************************************************************************)
(* What the program has had acknowledged holds, and what it logs is fresh, *)
(* for every number of samples and of lost messages; and the ids of the    *)
(* counted packets of a device are exact, for every boundary, window and   *)
(* order of arrival.                                                       *)
(***************************************************************************)
EXTENDS DeviceSession, PacketStamper, TLAPS

Mids == {"GotoConfig", "ReqDid", "SetOutputMode", "SetOutputSettings", "SetOutputConfiguration",
         "GotoMeasurement"}
Acks == {"GotoConfigAck", "DeviceId", "SetOutputModeAck", "SetOutputSettingsAck",
         "SetOutputConfigurationAck", "GotoMeasurementAck"}

Settings == {"old", "wanted"}
Samples  == [number : Nat, outputMode : Settings, outputSettings : Settings, outputConfig : Settings]
Messages == [mid : Mids \cup Acks \cup {"MtData"}, arg : Settings \cup Kinds \cup {Nothing} \cup Samples]
Devices  == [kind : Kinds, mode : {"config", "measurement"}, outputMode : Settings,
             outputSettings : Settings, outputConfig : Settings]

(* The requests that all devices get, around those for a kind.              *)
LEMMA Around ==
  ASSUME NEW S, NEW a \in S, NEW b \in S, NEW c \in S, NEW m \in Seq(S)
  PROVE  /\ Len((<<a, b>> \o m) \o <<c>>) = Len(m) + 3
         /\ ((<<a, b>> \o m) \o <<c>>)[1] = a /\ ((<<a, b>> \o m) \o <<c>>)[2] = b
         /\ \A i \in 1 .. Len(m) : ((<<a, b>> \o m) \o <<c>>)[i + 2] = m[i]
         /\ ((<<a, b>> \o m) \o <<c>>)[Len(m) + 3] = c
<1>1. <<a, b>> \in Seq(S) /\ <<c>> \in Seq(S) /\ Len(<<a, b>>) = 2 /\ Len(<<c>>) = 1
  OBVIOUS
<1>2. PICK t : t = <<a, b>> \o m
  OBVIOUS
<1>3. /\ t \in Seq(S) /\ Len(t) = Len(m) + 2 /\ t[1] = a /\ t[2] = b
      /\ \A i \in 1 .. Len(m) : t[i + 2] = m[i]
  BY <1>1, <1>2
<1>4. PICK r : r = t \o <<c>>
  OBVIOUS
<1>5. /\ Len(r) = Len(t) + 1 /\ \A i \in 1 .. Len(t) : r[i] = t[i]
      /\ r[Len(t) + 1] = c
  BY <1>1, <1>3, <1>4
<1>6. /\ Len(r) = Len(m) + 3 /\ r[1] = a /\ r[2] = b /\ r[Len(m) + 3] = c
      /\ \A i \in 1 .. Len(m) : r[i + 2] = m[i]
  BY <1>3, <1>5
<1>7. QED
  BY <1>2, <1>4, <1>6

(* The requests, one by one.                                                *)
LEMMA RequestsAre ==
  /\ Len(Requests) = IF known = "MTi" THEN 5 ELSE IF known = "MTmk4" THEN 4 ELSE 3
  /\ Requests[1] = Message("GotoConfig", Nothing)
  /\ Requests[2] = Message("ReqDid", Nothing)
  /\ known = "MTi" => /\ Requests[3] = Message("SetOutputMode", "wanted")
                      /\ Requests[4] = Message("SetOutputSettings", Nothing)
                      /\ Requests[5] = Message("GotoMeasurement", Nothing)
  /\ known = "MTmk4" => /\ Requests[3] = Message("SetOutputConfiguration", "wanted")
                        /\ Requests[4] = Message("GotoMeasurement", Nothing)
  /\ known \notin {"MTi", "MTmk4"} => Requests[3] = Message("GotoMeasurement", Nothing)
<1>1. PICK a, b, c, d, e, f : /\ a = Message("GotoConfig", Nothing)
                              /\ b = Message("ReqDid", Nothing)
                              /\ c = Message("GotoMeasurement", Nothing)
                              /\ d = Message("SetOutputMode", "wanted")
                              /\ e = Message("SetOutputSettings", Nothing)
                              /\ f = Message("SetOutputConfiguration", "wanted")
  OBVIOUS
<1>2. PICK S : S = {a, b, c, d, e, f}
  OBVIOUS
<1>3. PICK m : m = CASE known = "MTi" -> <<d, e>> [] known = "MTmk4" -> <<f>> [] OTHER -> << >>
  OBVIOUS
<1>4. Requests = (<<a, b>> \o m) \o <<c>>
  BY <1>1, <1>3 DEF Requests, SetDeviceMode, SetOutputConfiguration
<1>5. /\ known = "MTi" => m = <<d, e>>
      /\ known = "MTmk4" => m = <<f>>
      /\ known \notin {"MTi", "MTmk4"} => m = << >>
  BY <1>3
<1>6. m \in Seq(S)
  <2>1. <<d, e>> \in Seq(S) /\ <<f>> \in Seq(S) /\ << >> \in Seq(S)
    BY <1>2
  <2>2. QED
    BY <1>5, <2>1
<1>7. /\ Len(Requests) = Len(m) + 3 /\ Requests[1] = a /\ Requests[2] = b
      /\ \A i \in 1 .. Len(m) : Requests[i + 2] = m[i]
      /\ Requests[Len(m) + 3] = c
  BY <1>2, <1>4, <1>6, Around
<1>8. CASE known = "MTi"
  <2>1. Len(m) = 2 /\ m[1] = d /\ m[2] = e
    BY <1>5, <1>8
  <2>2. QED
    BY <1>1, <1>7, <1>8, <2>1
<1>9. CASE known = "MTmk4"
  <2>1. Len(m) = 1 /\ m[1] = f
    BY <1>5, <1>9
  <2>2. QED
    BY <1>1, <1>7, <1>9, <2>1
<1>10. CASE known \notin {"MTi", "MTmk4"}
  <2>1. Len(m) = 0
    BY <1>5, <1>10
  <2>2. QED
    BY <1>1, <1>7, <1>10, <2>1
<1>11. QED
  BY <1>8, <1>9, <1>10

HowMany == Len(Requests) = IF known = "MTi" THEN 5 ELSE IF known = "MTmk4" THEN 4 ELSE 3

LEMMA HowManyNow == HowMany
BY RequestsAre DEF HowMany

LEMMA HowManyThen == HowMany'
BY HowManyNow, PTL

LEMMA MessageIs == \A mid, arg : Message(mid, arg).mid = mid /\ Message(mid, arg).arg = arg
BY DEF Message

LEMMA AckIs ==
  ASSUME NEW mid \in Mids
  PROVE  /\ Ack(mid) \in Acks /\ Ack(mid) # "MtData"
         /\ mid = "ReqDid" => Ack(mid) = "DeviceId"
BY DEF Mids, Acks, Ack
--------------------------------------------------------------------------------
StageType ==
  /\ stage \in Nat /\ waiting \in BOOLEAN
  /\ host \in {"starting", "logging", "closed"}
  /\ known \in {"unknown", "MTi", "MTmk4", "other"}
  /\ stage < 2 => known = "unknown"
  /\ host # "closed" /\ stage >= 2 => known \in {"MTi", "MTmk4"}
  /\ host = "starting" => stage < Len(Requests)
  /\ host = "logging" => stage = Len(Requests)
  /\ host # "starting" => ~waiting

LinkType ==
  /\ device \in Devices
  /\ samples \in Nat /\ lost \in Nat
  /\ toDevice \in Seq(Messages) /\ toHost \in Seq(Messages)
  /\ rows \in Seq(Samples)
  /\ \A i \in DOMAIN toHost : toHost[i].mid = "MtData" => toHost[i].arg \in Samples

Data(i) == toHost[i].mid = "MtData"

(* What the answer to the present request says is true.                     *)
Answer(i) ==
  /\ toHost[i].mid = Ack(Current.mid)
  /\ Current.mid = "GotoConfig" => device.mode = "config"
  /\ Current.mid = "GotoMeasurement" => device.mode = "measurement"
  /\ Current.mid = "SetOutputMode" => device.outputMode = "wanted"
  /\ Current.mid = "SetOutputConfiguration" => device.outputConfig = "wanted"
  /\ Current.mid = "ReqDid" => toHost[i].arg = device.kind

(* One request or its answer is under way at a time.                        *)
InFlight ==
  \/ toDevice = << >> /\ \A i \in DOMAIN toHost : Data(i)
  \/ waiting /\ toDevice = <<Current>> /\ \A i \in DOMAIN toHost : Data(i)
  \/ /\ waiting /\ toDevice = << >>
     /\ \A i \in DOMAIN toHost : ~Data(i) =>
          Answer(i) /\ \A j \in DOMAIN toHost : ~Data(j) => i = j

(* What the requests answered so far have made of the device; and it        *)
(* measures only when the last request has reached it.                      *)
DeviceSet ==
  host # "closed" =>
    /\ stage >= 1 /\ stage + 1 < Len(Requests) => device.mode = "config"
    /\ stage >= 3 /\ known = "MTi" => device.outputMode = "wanted"
    /\ stage >= 3 /\ known = "MTmk4" => device.outputConfig = "wanted"
    /\ host = "logging" => device.mode = "measurement"
    /\ host = "starting" /\ stage >= 1 /\ device.mode = "measurement" =>
         waiting /\ toDevice = << >>

(* The first answer is the last message from before the device was asked;   *)
(* what comes behind are samples taken once it has been configured.         *)
FirstIsLast == stage = 0 => \A i \in DOMAIN toHost : ~Data(i) => i = Len(toHost)

SampleOfRun(i) ==
  /\ device.mode = "measurement"
  /\ toHost[i].arg.number \in 1 .. samples
  /\ Fresh(toHost[i].arg)

SamplesUnderWay ==
  host # "closed" /\ stage >= 1 =>
    /\ \A i \in DOMAIN toHost : IF Data(i) THEN SampleOfRun(i) ELSE i = 1
    /\ \A i, j \in DOMAIN toHost : Data(i) /\ Data(j) /\ i < j =>
         toHost[i].arg.number < toHost[j].arg.number
    /\ lost = 0 => \A i \in DOMAIN toHost : Data(i) =>
         toHost[i].arg.number = samples - Len(toHost) + i

RowsBefore ==
  /\ host = "starting" => rows = << >>
  /\ host = "logging" => \A i \in DOMAIN rows :
       /\ rows[i].number <= samples
       /\ \A j \in DOMAIN toHost : rows[i].number < toHost[j].arg.number
       /\ lost = 0 => rows[i].number = samples - Len(toHost) - Len(rows) + i

SessionInv ==
  /\ StageType /\ LinkType /\ InFlight /\ DeviceSet
  /\ FirstIsLast /\ SamplesUnderWay /\ RowsBefore /\ RowsAreFreshSamples

LEMMA CurrentIs ==
  ASSUME StageType, host = "starting"
  PROVE  /\ Current \in Messages /\ Current.mid \in Mids
         /\ Current.mid = "GotoConfig" <=> stage = 0
         /\ Current.mid = "ReqDid" <=> stage = 1
         /\ Current.mid = "GotoMeasurement" <=> stage + 1 = Len(Requests)
         /\ Current.mid = "GotoMeasurement" => stage >= 3
         /\ Current.mid = "SetOutputMode" => Current.arg = "wanted" /\ stage = 2
         /\ Current.mid = "SetOutputSettings" => Current.arg = Nothing
         /\ Current.mid = "SetOutputConfiguration" => Current.arg = "wanted" /\ stage = 2
         /\ stage = 2 /\ known = "MTi" => Current.mid = "SetOutputMode"
         /\ stage = 2 /\ known = "MTmk4" => Current.mid = "SetOutputConfiguration"
<1>1. stage \in 0 .. 4
  BY RequestsAre DEF StageType
<1>2. \A mid \in Mids, arg \in {"wanted", Nothing} : Message(mid, arg) \in Messages
  BY DEF Message, Messages, Settings
<1>3. CASE stage \in {0, 1}
  BY <1>2, <1>3, RequestsAre, MessageIs DEF StageType, Current, Mids
<1>4. CASE stage \in {2, 3, 4}
  BY <1>2, <1>4, RequestsAre, MessageIs DEF StageType, Current, Mids
<1>5. QED
  BY <1>1, <1>3, <1>4

LEMMA SessionInit == Init => SessionInv
<1> SUFFICES ASSUME Init PROVE SessionInv
  OBVIOUS
<1>1. StageType
  <2>1. stage = 0 /\ host = "starting" /\ known = "unknown" /\ waiting = FALSE
    BY DEF Init
  <2>2. Len(Requests) = 3
    BY <2>1, RequestsAre
  <2>3. stage \in Nat /\ ~(stage >= 2) /\ stage < Len(Requests)
    BY <2>1, <2>2
  <2>4. QED
    BY <2>1, <2>3 DEF StageType
<1>2. LinkType
  BY DEF Init, LinkType, Devices, Settings
<1>3. QED
  BY <1>1, <1>2 DEF Init, SessionInv, InFlight, DeviceSet, FirstIsLast, SamplesUnderWay,
                    RowsBefore, RowsAreFreshSamples
--------------------------------------------------------------------------------
LEMMA FrontGone ==
  ASSUME NEW S, NEW s \in Seq(S), NEW n \in 0 .. Len(s)
  PROVE  /\ SubSeq(s, n + 1, Len(s)) \in Seq(S)
         /\ Len(SubSeq(s, n + 1, Len(s))) = Len(s) - n
         /\ \A i \in 1 .. Len(s) - n : SubSeq(s, n + 1, Len(s))[i] = s[n + i]
OBVIOUS

LEMMA OneGone ==
  ASSUME NEW S, NEW s \in Seq(S), NEW k \in 1 .. Len(s)
  PROVE  /\ Without(s, k) \in Seq(S)
         /\ Len(Without(s, k)) = Len(s) - 1
         /\ \A i \in 1 .. Len(s) - 1 : Without(s, k)[i] = s[IF i < k THEN i ELSE i + 1]
<1>1. PICK a : a = SubSeq(s, 1, k - 1)
  OBVIOUS
<1>2. a \in Seq(S) /\ Len(a) = k - 1 /\ \A i \in 1 .. k - 1 : a[i] = s[i]
  BY <1>1
<1>3. PICK b : b = SubSeq(s, k + 1, Len(s))
  OBVIOUS
<1>4. b \in Seq(S) /\ Len(b) = Len(s) - k /\ \A i \in 1 .. Len(s) - k : b[i] = s[k + i]
  BY <1>3, FrontGone
<1>5. PICK t : t = a \o b
  OBVIOUS
<1>6. t \in Seq(S) /\ Len(t) = Len(s) - 1
  BY <1>2, <1>4, <1>5
<1>7. ASSUME NEW i \in 1 .. Len(s) - 1 PROVE t[i] = s[IF i < k THEN i ELSE i + 1]
  <2>1. t[i] = IF i <= Len(a) THEN a[i] ELSE b[i - Len(a)]
    BY <1>2, <1>4, <1>5, <1>7
  <2>2. CASE i < k
    BY <1>2, <2>1, <2>2
  <2>3. CASE ~(i < k)
    BY <1>2, <1>4, <2>1, <2>3
  <2>4. QED
    BY <2>2, <2>3
<1>8. Without(s, k) = t
  BY <1>1, <1>3, <1>5 DEF Without
<1>9. QED
  BY <1>6, <1>7, <1>8

LEMMA Index == \A n \in Nat : \A i \in 1 .. n : i \in Nat /\ i >= 1
OBVIOUS

LEMMA Shift == \A a, b, c, i, x \in Int : x = a - b + (b - c + i) => x = a - c + i
OBVIOUS

(* Some messages to the program are gone, and the others in their order.    *)
LEMMA FewerMessages ==
  ASSUME SessionInv, toHost' \in Seq(Messages),
         NEW f \in [1 .. Len(toHost') -> 1 .. Len(toHost)],
         \A i \in 1 .. Len(toHost') :
            /\ toHost'[i] = toHost[f[i]] /\ f[i] >= i /\ (f[i] = Len(toHost) => i = Len(toHost'))
            /\ \A j \in 1 .. Len(toHost') : i < j => f[i] < f[j]
            /\ lost' = 0 => f[i] = Len(toHost) - Len(toHost') + i,
         lost' \in Nat, lost' = 0 => lost = 0,
         toDevice' \in {toDevice, << >>},
         UNCHANGED <<stage, waiting, host, known, device, samples>>
  PROVE  InFlight' /\ FirstIsLast' /\ SamplesUnderWay'
<1>1. /\ DOMAIN toHost' = 1 .. Len(toHost') /\ DOMAIN toHost = 1 .. Len(toHost)
      /\ Len(toHost) \in Nat /\ Len(toHost') \in Nat /\ samples \in Nat
  BY DEF SessionInv, LinkType
<1>9. samples \in Int /\ Len(toHost) \in Int /\ Len(toHost') \in Int
  BY DEF SessionInv, LinkType
<1>2. \A i \in DOMAIN toHost' : f[i] \in DOMAIN toHost /\ (Data(i)' <=> Data(f[i]))
  BY <1>1 DEF Data
<1>8. \A i \in DOMAIN toHost' :
        /\ i \in Nat /\ i >= 1 /\ f[i] \in Nat /\ f[i] >= i /\ toHost'[i] = toHost[f[i]]
        /\ \A j \in DOMAIN toHost' : i < j => f[i] < f[j]
        /\ lost' = 0 => f[i] = Len(toHost) - Len(toHost') + i
  <2> TAKE i \in DOMAIN toHost'
  <2>1. i \in 1 .. Len(toHost') /\ f[i] \in 1 .. Len(toHost)
    BY <1>1
  <2>2. /\ toHost'[i] = toHost[f[i]] /\ f[i] >= i
        /\ \A j \in 1 .. Len(toHost') : i < j => f[i] < f[j]
        /\ lost' = 0 => f[i] = Len(toHost) - Len(toHost') + i
    BY <2>1
  <2>3. i \in Nat /\ i >= 1 /\ f[i] \in Nat
    BY <1>1, <2>1, Index
  <2>4. QED
    BY <1>1, <2>2, <2>3
<1>3. Current' = Current
  BY DEF Current, Requests
<1>4. InFlight'
  <2>1. \A i \in DOMAIN toHost' : Answer(f[i]) => Answer(i)'
    BY <1>1, <1>3 DEF Answer
  <2>2. ASSUME NEW i \in DOMAIN toHost', NEW j \in DOMAIN toHost', f[i] = f[j] PROVE i = j
    <3>1. ~(i < j) /\ ~(j < i)
      BY <1>8, <2>2
    <3>2. QED
      BY <1>8, <3>1
  <2>3. CASE toDevice = << >> /\ \A i \in DOMAIN toHost : Data(i)
    BY <1>2, <2>3 DEF InFlight
  <2>4. CASE waiting /\ toDevice = <<Current>> /\ \A i \in DOMAIN toHost : Data(i)
    BY <1>2, <1>3, <2>4 DEF InFlight
  <2>5. CASE /\ waiting /\ toDevice = << >>
             /\ \A i \in DOMAIN toHost : ~Data(i) =>
                  Answer(i) /\ \A j \in DOMAIN toHost : ~Data(j) => i = j
    BY <1>2, <2>1, <2>2, <2>5 DEF InFlight
  <2>6. QED
    BY <2>3, <2>4, <2>5 DEF SessionInv, InFlight
<1>5. FirstIsLast'
  BY <1>1, <1>2 DEF SessionInv, FirstIsLast
<1>6. SamplesUnderWay'
  <2> SUFFICES ASSUME host # "closed", stage >= 1
               PROVE  /\ \A i \in DOMAIN toHost' : IF Data(i)' THEN SampleOfRun(i)' ELSE i = 1
                      /\ \A i, j \in DOMAIN toHost' : Data(i)' /\ Data(j)' /\ i < j =>
                           toHost'[i].arg.number < toHost'[j].arg.number
                      /\ lost' = 0 => \A i \in DOMAIN toHost' : Data(i)' =>
                           toHost'[i].arg.number = samples - Len(toHost') + i
    BY DEF SamplesUnderWay
  <2>1. ASSUME NEW i \in DOMAIN toHost' PROVE IF Data(i)' THEN SampleOfRun(i)' ELSE i = 1
    <3>1. IF Data(f[i]) THEN SampleOfRun(f[i]) ELSE f[i] = 1
      BY <1>2 DEF SessionInv, SamplesUnderWay
    <3>2. f[i] = 1 => i = 1
      BY <1>8
    <3>3. QED
      BY <1>1, <1>2, <3>1, <3>2 DEF SampleOfRun, Fresh
  <2>2. ASSUME NEW i \in DOMAIN toHost', NEW j \in DOMAIN toHost', Data(i)', Data(j)', i < j
        PROVE  toHost'[i].arg.number < toHost'[j].arg.number
    <3>1. f[i] < f[j] /\ toHost'[i] = toHost[f[i]] /\ toHost'[j] = toHost[f[j]]
      BY <1>8, <2>2
    <3>2. QED
      BY <1>2, <2>2, <3>1 DEF SessionInv, SamplesUnderWay
  <2>3. ASSUME lost' = 0, NEW i \in DOMAIN toHost', Data(i)'
        PROVE  toHost'[i].arg.number = samples - Len(toHost') + i
    <3>1. f[i] \in DOMAIN toHost /\ Data(f[i]) /\ lost = 0
      BY <1>2, <2>3
    <3>2. toHost[f[i]].arg.number = samples - Len(toHost) + f[i]
      BY <3>1 DEF SessionInv, SamplesUnderWay
    <3>3. toHost'[i] = toHost[f[i]] /\ f[i] = Len(toHost) - Len(toHost') + i /\ i \in Nat
      BY <1>8, <2>3
    <3>4. toHost'[i].arg.number = samples - Len(toHost) + (Len(toHost) - Len(toHost') + i)
      BY <3>2, <3>3
    <3>5. toHost'[i].arg.number \in Int
      BY <3>1, <3>3 DEF SessionInv, LinkType, Data, Samples
    <3>6. PICK x : x = toHost'[i].arg.number
      OBVIOUS
    <3>7. i \in Int
      BY <3>3
    <3>8. x = samples - Len(toHost') + i
      BY <1>9, <3>4, <3>5, <3>6, <3>7, Shift
    <3>9. QED
      BY <3>6, <3>8
  <2>4. QED
    BY <2>1, <2>2, <2>3
<1>7. QED
  BY <1>4, <1>5, <1>6

(* processBufferedData takes n messages from the front.                     *)
LEMMA Consumed ==
  ASSUME SessionInv, NEW n \in 0 .. Len(toHost), Consume(n)
  PROVE  /\ toHost' \in Seq(Messages) /\ Len(toHost') = Len(toHost) - n
         /\ DOMAIN toHost' = 1 .. Len(toHost) - n
         /\ \A i \in 1 .. Len(toHost) - n : toHost'[i] = toHost[n + i]
         /\ Len(toHost) \in Nat /\ n \in Nat /\ DOMAIN toHost = 1 .. Len(toHost)
<1>1. toHost \in Seq(Messages)
  BY DEF SessionInv, LinkType
<1>2. QED
  BY <1>1, FrontGone DEF Consume

LEMMA FrontConsumed ==
  ASSUME SessionInv, NEW n \in 0 .. Len(toHost), Consume(n),
         UNCHANGED <<stage, waiting, host, known, device, samples, toDevice, lost>>
  PROVE  InFlight' /\ FirstIsLast' /\ SamplesUnderWay'
<1>1. PICK f : f = [i \in 1 .. Len(toHost) - n |-> n + i]
  OBVIOUS
<1>2. f \in [1 .. Len(toHost') -> 1 .. Len(toHost)] /\ lost \in Nat
  BY <1>1, Consumed DEF SessionInv, LinkType
<1>3. ASSUME NEW i \in 1 .. Len(toHost')
      PROVE  /\ toHost'[i] = toHost[f[i]] /\ f[i] >= i /\ (f[i] = Len(toHost) => i = Len(toHost'))
             /\ \A j \in 1 .. Len(toHost') : i < j => f[i] < f[j]
             /\ f[i] = Len(toHost) - Len(toHost') + i
  <2>1. /\ Len(toHost') = Len(toHost) - n /\ Len(toHost) \in Nat /\ n \in Nat
        /\ toHost'[i] = toHost[n + i]
    BY Consumed
  <2>2. \A j \in 1 .. Len(toHost') : f[j] = n + j /\ j \in Int
    BY <1>1, <2>1
  <2>3. f[i] = n + i /\ i \in 1 .. Len(toHost) - n
    BY <2>1, <2>2
  <2>4. /\ toHost'[i] = toHost[f[i]] /\ f[i] >= i
        /\ (f[i] = Len(toHost) => i = Len(toHost'))
        /\ f[i] = Len(toHost) - Len(toHost') + i
    BY <2>1, <2>3
  <2>5. ASSUME NEW j \in 1 .. Len(toHost'), i < j PROVE f[i] < f[j]
    <3>1. f[j] = n + j /\ f[i] = n + i /\ i \in Int /\ j \in Int /\ n \in Int
      BY <2>1, <2>2, <2>3
    <3>2. QED
      BY <2>5, <3>1
  <2>6. QED
    BY <2>4, <2>5
<1>4. QED
  BY <1>2, <1>3, Consumed, FewerMessages

LEMMA SampleMessages ==
  ASSUME SessionInv, toHost' \in Seq(Messages),
         \A i \in DOMAIN toHost' : \E j \in DOMAIN toHost : toHost'[i] = toHost[j],
         UNCHANGED <<device, samples, rows>>, lost' \in Nat, toDevice' \in Seq(Messages)
  PROVE  LinkType'
BY DEF SessionInv, LinkType

LEMMA KeepWaitingKeeps ==
  ASSUME SessionInv, NEW n \in 0 .. Len(toHost), KeepWaiting(n)
  PROVE  SessionInv'
<1>1. /\ Consume(n) /\ host = "starting"
      /\ UNCHANGED <<stage, waiting, host, known, rows, device, samples, toDevice, lost>>
  BY DEF KeepWaiting, hostVars
<1>2. InFlight' /\ FirstIsLast' /\ SamplesUnderWay'
  BY <1>1, FrontConsumed
<1>3. LinkType'
  <2>1. \A i \in DOMAIN toHost' : n + i \in DOMAIN toHost /\ toHost'[i] = toHost[n + i]
    <3>1. /\ DOMAIN toHost' = 1 .. Len(toHost) - n /\ DOMAIN toHost = 1 .. Len(toHost)
          /\ \A i \in 1 .. Len(toHost) - n : toHost'[i] = toHost[n + i]
          /\ Len(toHost) \in Nat /\ n \in Nat
      BY <1>1, Consumed
    <3>2. \A i \in 1 .. Len(toHost) - n : n + i \in 1 .. Len(toHost)
      BY <3>1
    <3>3. QED
      BY <3>1, <3>2
  <2>2. lost' \in Nat /\ toDevice' \in Seq(Messages)
    BY <1>1 DEF SessionInv, LinkType
  <2>3. QED
    BY <1>1, <2>1, <2>2, Consumed, SampleMessages
<1>4. Requests' = Requests
  BY <1>1 DEF Requests
<1>5. StageType' /\ DeviceSet' /\ RowsAreFreshSamples'
  BY <1>1, <1>4 DEF SessionInv, StageType, DeviceSet, RowsAreFreshSamples, Fresh
<1>6. RowsBefore'
  BY <1>1 DEF SessionInv, RowsBefore
<1>7. QED
  BY <1>2, <1>3, <1>5, <1>6 DEF SessionInv

LEMMA SendKeeps == ASSUME SessionInv, Send PROVE SessionInv'
<1>1. /\ host = "starting" /\ ~waiting /\ waiting' = TRUE /\ toDevice' = Append(toDevice, Current)
      /\ UNCHANGED <<stage, host, known, rows, device, samples, toHost, lost>>
  BY DEF Send
<1>2. Requests' = Requests /\ Current' = Current
  BY <1>1 DEF Requests, Current
<1>3. toDevice = << >> /\ \A i \in DOMAIN toHost : Data(i)
  BY <1>1 DEF SessionInv, InFlight
<1>4. toDevice' = <<Current>> /\ Current \in Messages
  BY <1>1, <1>3, CurrentIs DEF SessionInv
<1>5. InFlight'
  BY <1>1, <1>2, <1>3, <1>4 DEF InFlight, Data
<1>6. StageType'
  BY <1>1, <1>2 DEF SessionInv, StageType
<1>7. LinkType'
  BY <1>1, <1>4 DEF SessionInv, LinkType
<1>8. DeviceSet'
  BY <1>1, <1>2 DEF SessionInv, DeviceSet
<1>9. FirstIsLast' /\ SamplesUnderWay' /\ RowsBefore' /\ RowsAreFreshSamples'
  BY <1>1 DEF SessionInv, FirstIsLast, SamplesUnderWay, SampleOfRun, Data, RowsBefore,
              RowsAreFreshSamples, Fresh
<1>10. QED
  BY <1>5, <1>6, <1>7, <1>8, <1>9 DEF SessionInv

(* Nobody waits: what is left of the type of the session.                   *)
LEMMA NotWaiting ==
  ASSUME ~waiting', waiting' \in BOOLEAN, stage' \in Nat,
         host' \in {"starting", "logging", "closed"},
         known' \in {"unknown", "MTi", "MTmk4", "other"},
         stage' < 2 => known' = "unknown",
         host' # "closed" /\ stage' >= 2 => known' \in {"MTi", "MTmk4"},
         host' = "starting" => stage' < Len(Requests)',
         host' = "logging" => stage' = Len(Requests)'
  PROVE  StageType'
BY DEF StageType

(* The batch holds the one answer, and what it says is true.                *)
LEMMA TheAnswer ==
  ASSUME SessionInv, host = "starting", NEW n \in 0 .. Len(toHost), Answers(n) # {}
  PROVE  /\ waiting /\ toDevice = << >>
         /\ LastOf(Answers(n)) \in 1 .. n
         /\ Answer(LastOf(Answers(n)))
         /\ \A i \in DOMAIN toHost : i # LastOf(Answers(n)) => Data(i)
         /\ ~Data(LastOf(Answers(n)))
<1>1. DOMAIN toHost = 1 .. Len(toHost) /\ Len(toHost) \in Nat
  BY DEF SessionInv, LinkType
<1>2. PICK k \in Answers(n) : TRUE
  OBVIOUS
<1>3. k \in 1 .. n /\ k \in DOMAIN toHost /\ toHost[k].mid = Ack(Current.mid)
  BY <1>1, <1>2 DEF Answers
<1>4. ~Data(k) /\ Ack(Current.mid) # "MtData"
  BY <1>3, CurrentIs, AckIs DEF SessionInv, Data
<1>5. waiting /\ toDevice = << >> /\ Answer(k) /\ \A j \in DOMAIN toHost : j # k => Data(j)
  BY <1>3, <1>4 DEF SessionInv, InFlight
<1>6. Answers(n) = {k}
  <2>1. ASSUME NEW i \in Answers(n) PROVE i = k
    <3>1. i \in DOMAIN toHost /\ ~Data(i)
      BY <1>1, <1>4, <2>1 DEF Answers, Data
    <3>2. QED
      BY <1>5, <3>1
  <2>2. QED
    BY <1>2, <2>1
<1>7. LastOf(Answers(n)) = k
  BY <1>3, <1>6 DEF LastOf
<1>8. QED
  BY <1>3, <1>4, <1>5, <1>7

LEMMA AnsweredKeeps ==
  ASSUME SessionInv, NEW n \in 1 .. Len(toHost), Answered(n)
  PROVE  SessionInv'
<1>1. /\ host = "starting" /\ waiting' = FALSE /\ stage' = stage + 1 /\ Consume(n)
      /\ Answers(n) # {}
      /\ known' = IF Current.mid = "ReqDid" THEN toHost[LastOf(Answers(n))].arg ELSE known
      /\ host' = IF known' = "other" THEN "closed"
                 ELSE IF stage' = Len(Requests)' THEN "logging" ELSE "starting"
      /\ UNCHANGED <<rows, device, samples, toDevice, lost>>
  BY DEF Answered
<1>0. ~waiting' /\ waiting' \in BOOLEAN
  BY <1>1
<1>2. n \in 0 .. Len(toHost) /\ n \in Nat
  OBVIOUS
<1>3. PICK k : k = LastOf(Answers(n))
  OBVIOUS
<1>4. /\ waiting /\ toDevice = << >> /\ k \in 1 .. n /\ Answer(k) /\ ~Data(k)
      /\ \A i \in DOMAIN toHost : i # k => Data(i)
  BY <1>1, <1>2, <1>3, TheAnswer
<1>5. /\ toHost' \in Seq(Messages) /\ Len(toHost') = Len(toHost) - n
      /\ DOMAIN toHost' = 1 .. Len(toHost) - n
      /\ \A i \in 1 .. Len(toHost) - n : toHost'[i] = toHost[n + i]
      /\ Len(toHost) \in Nat /\ DOMAIN toHost = 1 .. Len(toHost)
  BY <1>1, <1>2, Consumed
<1>6. \A i \in DOMAIN toHost' : n + i \in DOMAIN toHost /\ n + i # k /\ toHost'[i] = toHost[n + i]
  BY <1>2, <1>4, <1>5
<1>7. \A i \in DOMAIN toHost' : Data(n + i) /\ Data(i)'
  BY <1>4, <1>6 DEF Data
<1>8. InFlight'
  BY <1>1, <1>4, <1>7 DEF InFlight
<1>9. LinkType'
  <2>1. lost' \in Nat /\ toDevice' \in Seq(Messages)
    BY <1>1 DEF SessionInv, LinkType
  <2>2. QED
    BY <1>1, <1>5, <1>6, <2>1, SampleMessages
<1>10. rows' = << >> /\ RowsBefore' /\ RowsAreFreshSamples'
  BY <1>1 DEF SessionInv, RowsBefore, RowsAreFreshSamples
<1>11. /\ stage \in Nat /\ stage < Len(Requests)
       /\ stage < 2 => known = "unknown" /\ Len(Requests) = 3
       /\ stage >= 2 => known \in {"MTi", "MTmk4"}
  BY <1>1, RequestsAre DEF SessionInv, StageType
<1>12. FirstIsLast'
  BY <1>1, <1>11 DEF FirstIsLast
<1>13. CASE stage = 0
  <2>1. Current.mid = "GotoConfig" /\ device.mode = "config"
    BY <1>1, <1>4, <1>13, CurrentIs DEF SessionInv, Answer
  <2>2. known' = "unknown" /\ known = "unknown" /\ Requests' = Requests
    BY <1>1, <1>11, <1>13, <2>1 DEF Requests
  <2>3. stage' = 1 /\ host' = "starting" /\ Len(Requests)' = 3
    BY <1>1, <1>13, <2>2, HowManyThen DEF HowMany
  <2>4. StageType'
    <3>1. stage' \in Nat /\ ~(stage' >= 2) /\ stage' < Len(Requests)'
      BY <2>3
    <3>2. QED
      BY <1>0, <2>2, <2>3, <3>1, NotWaiting
  <2>8. DeviceSet'
    BY <1>1, <2>1, <2>2, <2>3 DEF DeviceSet
  <2>5. DOMAIN toHost' = {}
    <3>1. k = Len(toHost)
      <4>1. FirstIsLast
        BY DEF SessionInv
      <4>2. \A i \in DOMAIN toHost : ~Data(i) => i = Len(toHost)
        BY <1>13, <4>1 DEF FirstIsLast
      <4>3. QED
        BY <1>4, <1>5, <4>2
    <3>2. QED
      BY <1>4, <1>5, <3>1
  <2>6. SamplesUnderWay'
    BY <2>5 DEF SamplesUnderWay
  <2>7. QED
    BY <1>8, <1>9, <1>10, <1>12, <2>4, <2>6, <2>8 DEF SessionInv
<1>14. CASE stage >= 1
  <2>1. SamplesUnderWay'
    <3>1. /\ \A i \in DOMAIN toHost : Data(i) => SampleOfRun(i)
          /\ \A i, j \in DOMAIN toHost : Data(i) /\ Data(j) /\ i < j =>
               toHost[i].arg.number < toHost[j].arg.number
          /\ lost = 0 => \A i \in DOMAIN toHost : Data(i) =>
               toHost[i].arg.number = samples - Len(toHost) + i
      BY <1>1, <1>14 DEF SessionInv, SamplesUnderWay
    <3>2. ASSUME NEW i \in DOMAIN toHost' PROVE SampleOfRun(i)'
      <4>1. SampleOfRun(n + i) /\ toHost'[i] = toHost[n + i] /\ device.mode = "measurement"
        BY <1>6, <1>7, <3>1 DEF SampleOfRun
      <4>2. Current.mid # "ReqDid"
        <5>1. Current.mid = "ReqDid" => stage + 1 < Len(Requests)
          BY <1>1, <1>11, CurrentIs DEF SessionInv
        <5>2. QED
          BY <1>1, <1>14, <4>1, <5>1 DEF SessionInv, DeviceSet
      <4>3. known' = known
        BY <1>1, <4>2
      <4>4. QED
        BY <1>1, <4>1, <4>3 DEF SampleOfRun, Fresh
    <3>3. \A i, j \in DOMAIN toHost' : i < j => toHost'[i].arg.number < toHost'[j].arg.number
      <4>1. \A i, j \in DOMAIN toHost' : i < j => n + i < n + j
        BY <1>2, <1>5
      <4>2. QED
        BY <1>6, <1>7, <3>1, <4>1
    <3>4. ASSUME lost' = 0, NEW i \in DOMAIN toHost'
          PROVE  toHost'[i].arg.number = samples - Len(toHost') + i
      <4>1. toHost'[i].arg.number = samples - Len(toHost) + (n + i)
        BY <1>1, <1>6, <1>7, <3>1, <3>4
      <4>2. PICK x : x = toHost'[i].arg.number
        OBVIOUS
      <4>3. samples \in Int /\ Len(toHost) \in Int /\ i \in Int
        BY <1>5, <3>4 DEF SessionInv, LinkType
      <4>4. x = samples - Len(toHost') + i
        BY <1>2, <1>5, <4>1, <4>2, <4>3
      <4>5. QED
        BY <4>2, <4>4
    <3>5. QED
      BY <1>1, <1>7, <3>2, <3>3, <3>4 DEF SamplesUnderWay
  <2>2. CASE Current.mid = "ReqDid"
    <3>1. stage = 1 /\ known' = device.kind /\ stage' = 2
      BY <1>1, <1>3, <1>4, <2>2, CurrentIs DEF SessionInv, Answer
    <3>2. known' \in {"MTi", "MTmk4", "other"}
      BY <3>1, KindsAssumption DEF SessionInv, LinkType, Devices
    <3>3. Len(Requests)' = IF known' = "MTi" THEN 5 ELSE IF known' = "MTmk4" THEN 4 ELSE 3
      BY HowManyThen DEF HowMany
    <3>4. host' = IF known' = "other" THEN "closed" ELSE "starting"
      BY <1>1, <3>1, <3>2, <3>3
    <3>5. StageType'
      <4>1. stage' \in Nat /\ stage' >= 2 /\ stage' < Len(Requests)'
        BY <3>1, <3>2, <3>3
      <4>2. QED
        BY <1>0, <3>1, <3>2, <3>4, <4>1, NotWaiting
    <3>6. device.mode = "config"
      <4>1. host = "starting" /\ stage >= 1 /\ stage + 1 < Len(Requests)
        BY <1>1, <1>11, <3>1
      <4>2. QED
        BY <4>1 DEF SessionInv, DeviceSet
    <3>7. DeviceSet'
      BY <1>1, <3>1, <3>4, <3>6 DEF DeviceSet
    <3>8. QED
      BY <1>8, <1>9, <1>10, <1>12, <2>1, <3>5, <3>7 DEF SessionInv
  <2>3. CASE Current.mid # "ReqDid"
    <3>1. known' = known /\ stage # 1 /\ Requests' = Requests /\ stage >= 2
      BY <1>1, <1>11, <1>14, <2>3, CurrentIs DEF SessionInv, Requests
    <3>2. known \in {"MTi", "MTmk4"}
      BY <1>11, <3>1
    <3>3. host' = IF stage + 1 = Len(Requests) THEN "logging" ELSE "starting"
      BY <1>1, <3>1, <3>2
    <3>4. StageType'
      <4>1. /\ stage' \in Nat /\ ~(stage' < 2) /\ stage + 1 <= Len(Requests)'
            /\ Len(Requests)' \in Nat /\ Len(Requests)' = Len(Requests) /\ stage' = stage + 1
        BY <1>1, <1>11, <3>1, <3>2, RequestsAre
      <4>2. /\ host' = "starting" => stage' < Len(Requests)'
            /\ host' = "logging" => stage' = Len(Requests)'
        BY <3>3, <4>1
      <4>3. QED
        BY <1>0, <3>1, <3>2, <3>3, <4>1, <4>2, NotWaiting
    <3>5. stage + 1 = Len(Requests) => device.mode = "measurement"
      BY <1>1, <1>4, CurrentIs DEF SessionInv, Answer
    <3>6. stage + 1 # Len(Requests) => device.mode = "config"
      BY <1>1, <1>11, <3>1, RequestsAre DEF SessionInv, DeviceSet
    <3>7. /\ known = "MTi" => device.outputMode = "wanted"
          /\ known = "MTmk4" => device.outputConfig = "wanted"
      <4>1. CASE stage = 2
        BY <1>1, <1>4, <4>1, CurrentIs DEF SessionInv, Answer
      <4>2. CASE stage >= 3
        BY <1>1, <4>2 DEF SessionInv, DeviceSet
      <4>3. QED
        BY <1>11, <3>1, <4>1, <4>2
    <3>8. DeviceSet'
      BY <1>1, <1>11, <3>1, <3>3, <3>5, <3>6, <3>7, RequestsAre DEF DeviceSet
    <3>9. QED
      BY <1>8, <1>9, <1>10, <1>12, <2>1, <3>4, <3>8 DEF SessionInv
  <2>4. QED
    BY <2>2, <2>3
<1>15. QED
  BY <1>11, <1>13, <1>14

LEMMA LogBatchKeeps ==
  ASSUME SessionInv, NEW n \in 0 .. Len(toHost), LogBatch(n)
  PROVE  SessionInv'
<1>1. /\ host = "logging" /\ Consume(n) /\ rows' = rows \o [i \in 1 .. n |-> Row(toHost[i])]
      /\ UNCHANGED <<stage, waiting, host, known, device, samples, toDevice, lost>>
  BY DEF LogBatch, Log
<1>2. InFlight' /\ FirstIsLast' /\ SamplesUnderWay'
  BY <1>1, FrontConsumed
<1>3. Requests' = Requests
  BY <1>1 DEF Requests
<1>4. StageType' /\ DeviceSet'
  BY <1>1, <1>3 DEF SessionInv, StageType, DeviceSet
<1>5. /\ toHost' \in Seq(Messages) /\ Len(toHost') = Len(toHost) - n
      /\ DOMAIN toHost' = 1 .. Len(toHost) - n
      /\ \A i \in 1 .. Len(toHost) - n : toHost'[i] = toHost[n + i]
      /\ Len(toHost) \in Nat /\ n \in Nat /\ DOMAIN toHost = 1 .. Len(toHost)
  BY <1>1, Consumed
<1>6. stage >= 1 /\ \A i \in DOMAIN toHost : Data(i)
  BY <1>1, RequestsAre DEF SessionInv, StageType, InFlight
<1>7. \A i \in DOMAIN toHost : SampleOfRun(i) /\ toHost[i].arg \in Samples
  BY <1>1, <1>6 DEF SessionInv, SamplesUnderWay, LinkType, Data
<1>8. PICK new : new = [i \in 1 .. n |-> Row(toHost[i])]
  OBVIOUS
<1>9. \A i \in 1 .. n : i \in DOMAIN toHost /\ new[i] = toHost[i].arg
  <2>1. \A i \in 1 .. n : i \in DOMAIN toHost
    BY <1>5
  <2>2. \A i \in DOMAIN toHost : Row(toHost[i]) = toHost[i].arg
    BY <1>6 DEF Row, Data
  <2>3. QED
    BY <1>8, <2>1, <2>2
<1>10. new \in Seq(Samples) /\ Len(new) = n
  <2>1. \A i \in 1 .. n : new[i] \in Samples
    BY <1>7, <1>9
  <2>2. DOMAIN new = 1 .. n /\ new = [i \in 1 .. n |-> new[i]]
    BY <1>8
  <2>3. QED
    BY <1>5, <2>1, <2>2
<1>11. /\ rows' \in Seq(Samples) /\ Len(rows') = Len(rows) + n /\ Len(rows) \in Nat
       /\ DOMAIN rows' = 1 .. Len(rows) + n /\ DOMAIN rows = 1 .. Len(rows)
       /\ \A i \in 1 .. Len(rows) : rows'[i] = rows[i]
       /\ \A i \in 1 .. n : rows'[Len(rows) + i] = new[i]
  BY <1>1, <1>5, <1>8, <1>10 DEF SessionInv, LinkType
<1>12. ASSUME NEW i \in DOMAIN rows'
       PROVE  \/ i \in DOMAIN rows /\ rows'[i] = rows[i]
              \/ \E k \in 1 .. n : i = Len(rows) + k /\ rows'[i] = toHost[k].arg
                                   /\ k \in DOMAIN toHost
  <2>1. CASE i <= Len(rows)
    BY <1>11, <1>12, <2>1
  <2>2. CASE i > Len(rows)
    <3>1. i - Len(rows) \in 1 .. n /\ i = Len(rows) + (i - Len(rows))
      BY <1>5, <1>11, <1>12, <2>2
    <3>2. QED
      BY <1>9, <1>11, <3>1
  <2>3. QED
    BY <1>11, <1>12, <2>1, <2>2
<1>13. LinkType'
  <2>1. ASSUME NEW i \in DOMAIN toHost' PROVE toHost'[i].arg \in Samples
    <3>1. n + i \in DOMAIN toHost /\ toHost'[i] = toHost[n + i]
      BY <1>5, <2>1
    <3>2. QED
      BY <1>7, <3>1
  <2>2. QED
    BY <1>1, <1>5, <1>11, <2>1 DEF SessionInv, LinkType
<1>14. samples \in Nat /\ (\A i \in DOMAIN rows : rows[i].number \in Nat)
       /\ (\A i \in DOMAIN toHost : toHost[i].arg.number \in 1 .. samples)
  <2>1. samples \in Nat /\ rows \in Seq(Samples)
    BY DEF SessionInv, LinkType
  <2>2. \A i \in DOMAIN rows : rows[i] \in Samples
    BY <2>1
  <2>3. QED
    BY <1>7, <2>1, <2>2 DEF Samples, SampleOfRun
<1>15. ASSUME NEW i \in DOMAIN toHost, NEW j \in DOMAIN toHost, i < j
       PROVE  toHost[i].arg.number < toHost[j].arg.number
  BY <1>1, <1>6, <1>15 DEF SessionInv, SamplesUnderWay
<1>16. RowsAreFreshSamples'
  <2>1. ASSUME NEW i \in DOMAIN rows' PROVE rows'[i].number # 0 /\ Fresh(rows[i])'
    <3>1. CASE i \in DOMAIN rows /\ rows'[i] = rows[i]
      BY <1>1, <3>1 DEF SessionInv, RowsAreFreshSamples, Fresh
    <3>2. ASSUME NEW k \in DOMAIN toHost, rows'[i] = toHost[k].arg
          PROVE  rows'[i].number # 0 /\ Fresh(rows[i])'
      BY <1>1, <1>7, <1>14, <3>2 DEF SampleOfRun, Fresh
    <3>3. QED
      BY <1>12, <2>1, <3>1, <3>2
  <2>2. ASSUME NEW i \in DOMAIN rows', NEW j \in DOMAIN rows', i < j
        PROVE  rows'[i].number < rows'[j].number
    <3>1. CASE i \in DOMAIN rows /\ j \in DOMAIN rows
      BY <1>11, <2>2, <3>1 DEF SessionInv, RowsAreFreshSamples
    <3>2. CASE i \in DOMAIN rows /\ j \notin DOMAIN rows
      <4>1. PICK k \in DOMAIN toHost : rows'[j] = toHost[k].arg
        BY <1>12, <2>2, <3>2
      <4>2. rows[i].number < toHost[k].arg.number /\ rows'[i] = rows[i]
        BY <1>1, <1>11, <3>2 DEF SessionInv, RowsBefore
      <4>3. QED
        BY <4>1, <4>2
    <3>3. CASE i \notin DOMAIN rows
      <4>1. PICK a \in 1 .. n : i = Len(rows) + a /\ rows'[i] = toHost[a].arg /\ a \in DOMAIN toHost
        BY <1>12, <2>2, <3>3
      <4>2. j \notin DOMAIN rows
        BY <1>11, <2>2, <4>1
      <4>3. PICK b \in 1 .. n : j = Len(rows) + b /\ rows'[j] = toHost[b].arg /\ b \in DOMAIN toHost
        BY <1>12, <2>2, <4>2
      <4>4. a < b
        BY <1>11, <2>2, <4>1, <4>3
      <4>5. QED
        BY <1>15, <4>1, <4>3, <4>4
    <3>4. QED
      BY <3>1, <3>2, <3>3
  <2>3. QED
    BY <2>1, <2>2 DEF RowsAreFreshSamples
<1>17. RowsBefore'
  <2>1. ASSUME NEW i \in DOMAIN rows' PROVE rows'[i].number <= samples
    <3>1. CASE i \in DOMAIN rows
      BY <1>1, <1>11, <3>1 DEF SessionInv, RowsBefore
    <3>2. CASE i \notin DOMAIN rows
      BY <1>12, <1>14, <2>1, <3>2
    <3>3. QED
      BY <3>1, <3>2
  <2>2. ASSUME NEW i \in DOMAIN rows', NEW j \in DOMAIN toHost'
        PROVE  rows'[i].number < toHost'[j].arg.number
    <3>1. n + j \in DOMAIN toHost /\ toHost'[j] = toHost[n + j] /\ j \in Nat /\ j >= 1
      BY <1>5, <2>2
    <3>2. CASE i \in DOMAIN rows
      BY <1>1, <1>11, <3>1, <3>2 DEF SessionInv, RowsBefore
    <3>3. CASE i \notin DOMAIN rows
      <4>1. PICK a \in 1 .. n : rows'[i] = toHost[a].arg /\ a \in DOMAIN toHost
        BY <1>12, <2>2, <3>3
      <4>2. a < n + j
        BY <1>5, <3>1
      <4>3. QED
        BY <1>15, <3>1, <4>1, <4>2
    <3>4. QED
      BY <3>2, <3>3
  <2>3. ASSUME lost = 0, NEW i \in DOMAIN rows'
        PROVE  rows'[i].number = samples - Len(toHost') - Len(rows') + i
    <3>1. samples - Len(toHost') - Len(rows') = samples - Len(toHost) - Len(rows)
          /\ i \in Nat
      BY <1>5, <1>11, <1>14, <2>3
    <3>2. CASE i \in DOMAIN rows
      <4>1. rows[i].number = samples - Len(toHost) - Len(rows) + i /\ rows'[i] = rows[i]
        BY <1>1, <1>11, <2>3, <3>2 DEF SessionInv, RowsBefore
      <4>2. QED
        BY <3>1, <4>1
    <3>3. CASE i \notin DOMAIN rows
      <4>1. PICK a \in 1 .. n : i = Len(rows) + a /\ rows'[i] = toHost[a].arg /\ a \in DOMAIN toHost
        BY <1>12, <2>3, <3>3
      <4>2. toHost[a].arg.number = samples - Len(toHost) + a /\ a \in Int
        BY <1>1, <1>6, <2>3, <4>1 DEF SessionInv, SamplesUnderWay
      <4>3. samples - Len(toHost) + a = samples - Len(toHost) - Len(rows) + i
        BY <1>5, <1>11, <1>14, <4>1, <4>2
      <4>4. QED
        BY <3>1, <4>1, <4>2, <4>3
    <3>4. QED
      BY <3>2, <3>3
  <2>4. QED
    BY <1>1, <2>1, <2>2, <2>3 DEF RowsBefore
<1>18. QED
  BY <1>2, <1>4, <1>13, <1>16, <1>17 DEF SessionInv

LEMMA KeyPressedKeeps == ASSUME SessionInv, KeyPressed PROVE SessionInv'
<1>1. /\ host = "logging" /\ host' = "closed"
      /\ UNCHANGED <<stage, waiting, known, rows, device, samples, toDevice, toHost, lost>>
  BY DEF KeyPressed
<1>2. Requests' = Requests /\ Current' = Current
  BY <1>1 DEF Requests, Current
<1>3. StageType' /\ LinkType' /\ DeviceSet'
  BY <1>1, <1>2 DEF SessionInv, StageType, LinkType, DeviceSet
<1>4. InFlight' /\ FirstIsLast' /\ RowsAreFreshSamples'
  BY <1>1, <1>2 DEF SessionInv, InFlight, FirstIsLast, Data, Answer, RowsAreFreshSamples, Fresh
<1>5. SamplesUnderWay' /\ RowsBefore'
  BY <1>1 DEF SamplesUnderWay, RowsBefore
<1>6. QED
  BY <1>3, <1>4, <1>5 DEF SessionInv

(* The device has what it was sent done.                                    *)
LEMMA DeviceAnswersKeeps == ASSUME SessionInv, DeviceAnswers PROVE SessionInv'
<1>1. /\ toDevice # << >> /\ toDevice' = Tail(toDevice)
      /\ UNCHANGED <<stage, waiting, host, known, rows, samples, lost>>
  BY DEF DeviceAnswers, hostVars
<1>2. waiting /\ toDevice = <<Current>> /\ \A i \in DOMAIN toHost : Data(i)
  BY <1>1 DEF SessionInv, InFlight
<1>3. host = "starting"
  BY <1>2 DEF SessionInv, StageType
<1>4. toDevice' = << >> /\ Head(toDevice) = Current
  BY <1>1, <1>2
<1>5. Requests' = Requests /\ Current' = Current
  BY <1>1 DEF Requests, Current
<1>6. StageType'
  BY <1>1, <1>5 DEF SessionInv, StageType
<1>7. RowsBefore' /\ RowsAreFreshSamples'
  BY <1>1, <1>3 DEF SessionInv, RowsBefore, RowsAreFreshSamples
<1>8. CASE ~(device.mode = "config" \/ Current.mid = "GotoConfig")
  <2>1. UNCHANGED <<device, toHost>>
    BY <1>4, <1>8 DEF DeviceAnswers
  <2>2. LinkType'
    BY <1>1, <1>4, <2>1 DEF SessionInv, LinkType
  <2>3. InFlight'
    BY <1>2, <1>4, <2>1 DEF InFlight, Data
  <2>4. DeviceSet'
    BY <1>1, <1>2, <1>4, <1>5, <2>1 DEF SessionInv, DeviceSet
  <2>5. FirstIsLast' /\ SamplesUnderWay'
    BY <1>1, <2>1 DEF SessionInv, FirstIsLast, SamplesUnderWay, SampleOfRun, Data, Fresh
  <2>6. QED
    BY <1>6, <1>7, <2>2, <2>3, <2>4, <2>5 DEF SessionInv
<1>9. CASE device.mode = "config" \/ Current.mid = "GotoConfig"
  <2>1. PICK ack : ack = Message(Ack(Current.mid),
                            IF Current.mid = "ReqDid" THEN device.kind ELSE Nothing)
    OBVIOUS
  <2>2. device' = Handled(Current) /\ toHost' = Append(toHost, ack)
    BY <1>4, <1>9, <2>1 DEF DeviceAnswers
  <2>3. /\ Current \in Messages /\ Current.mid \in Mids
        /\ Current.mid = "GotoConfig" <=> stage = 0
        /\ Current.mid = "GotoMeasurement" <=> stage + 1 = Len(Requests)
        /\ Current.mid = "SetOutputMode" => Current.arg = "wanted"
        /\ Current.mid = "SetOutputSettings" => Current.arg = Nothing
        /\ Current.mid = "SetOutputConfiguration" => Current.arg = "wanted"
    BY <1>3, CurrentIs DEF SessionInv
  <2>4. device \in Devices /\ toHost \in Seq(Messages)
    BY DEF SessionInv, LinkType
  <2>5. /\ ack.mid = Ack(Current.mid) /\ ack.mid # "MtData" /\ ack \in Messages
        /\ Current.mid = "ReqDid" => ack.arg = device.kind
    <3>1. device.kind \in Kinds
      BY <2>4 DEF Devices
    <3>2. QED
      BY <2>1, <2>3, <3>1, AckIs, MessageIs DEF Messages, Message
  <2>6. /\ device' \in Devices /\ device'.kind = device.kind
        /\ Current.mid = "GotoConfig" => device'.mode = "config"
        /\ Current.mid = "GotoMeasurement" => device'.mode = "measurement"
        /\ Current.mid \notin {"GotoConfig", "GotoMeasurement"} => device'.mode = device.mode
        /\ Current.mid = "SetOutputMode" => device'.outputMode = "wanted"
        /\ Current.mid # "SetOutputMode" => device'.outputMode = device.outputMode
        /\ Current.mid = "SetOutputConfiguration" => device'.outputConfig = "wanted"
        /\ Current.mid # "SetOutputConfiguration" => device'.outputConfig = device.outputConfig
    BY <2>2, <2>3, <2>4 DEF Handled, Devices, Settings, Mids
  <2>7. /\ toHost' \in Seq(Messages) /\ Len(toHost') = Len(toHost) + 1 /\ Len(toHost) \in Nat
        /\ DOMAIN toHost' = 1 .. Len(toHost) + 1 /\ DOMAIN toHost = 1 .. Len(toHost)
        /\ \A i \in 1 .. Len(toHost) : toHost'[i] = toHost[i]
        /\ toHost'[Len(toHost) + 1] = ack
    BY <2>2, <2>4, <2>5
  <2>8. PICK last : last = Len(toHost) + 1
    OBVIOUS
  <2>9. \A i \in DOMAIN toHost' : IF i = last THEN toHost'[i] = ack /\ ~Data(i)'
                                  ELSE i \in DOMAIN toHost /\ toHost'[i] = toHost[i] /\ Data(i)'
    BY <1>2, <2>5, <2>7, <2>8 DEF Data
  <2>10. LinkType'
    <3>1. \A i \in DOMAIN toHost' : toHost'[i].mid = "MtData" => toHost'[i].arg \in Samples
      BY <2>9 DEF SessionInv, LinkType, Data
    <3>2. toDevice' \in Seq(Messages)
      BY <1>4
    <3>3. QED
      BY <1>1, <2>6, <2>7, <3>1, <3>2 DEF SessionInv, LinkType
  <2>11. InFlight'
    <3>1. \A i \in DOMAIN toHost' : ~Data(i)' => i = last /\ Answer(i)'
      BY <1>5, <2>5, <2>6, <2>9 DEF Answer
    <3>2. QED
      BY <1>1, <1>2, <1>4, <3>1 DEF InFlight
  <2>12. FirstIsLast'
    BY <2>7, <2>8, <2>9 DEF FirstIsLast
  <2>13. DeviceSet'
    <3>1. /\ stage + 1 < Len(Requests) => Current.mid # "GotoMeasurement"
          /\ stage >= 1 => device.mode = "config"
      BY <1>9, <2>3, RequestsAre DEF SessionInv, StageType
    <3>2. stage >= 1 => Current.mid # "GotoConfig"
      BY <2>3
    <3>3. /\ stage >= 3 /\ known = "MTi" => device'.outputMode = "wanted"
          /\ stage >= 3 /\ known = "MTmk4" => device'.outputConfig = "wanted"
      BY <1>3, <2>6 DEF SessionInv, DeviceSet
    <3>4. QED
      BY <1>1, <1>2, <1>3, <1>4, <1>5, <2>6, <3>1, <3>2, <3>3 DEF DeviceSet
  <2>14. SamplesUnderWay'
    <3> SUFFICES ASSUME stage >= 1 PROVE SamplesUnderWay'
      BY <1>1 DEF SamplesUnderWay
    <3>1. device.mode = "config"
      BY <1>9, <2>3
    <3>2. \A i \in DOMAIN toHost : FALSE
      BY <1>2, <1>3, <3>1 DEF SessionInv, SamplesUnderWay, SampleOfRun
    <3>3. Len(toHost) = 0
      BY <2>7, <3>2
    <3>4. \A i \in DOMAIN toHost' : i = 1 /\ ~Data(i)'
      BY <2>7, <2>8, <2>9, <3>3
    <3>5. QED
      BY <3>4 DEF SamplesUnderWay
  <2>15. QED
    BY <1>6, <1>7, <2>10, <2>11, <2>12, <2>13, <2>14 DEF SessionInv
<1>10. QED
  BY <1>8, <1>9

LEMMA DeviceMeasuresKeeps == ASSUME SessionInv, DeviceMeasures PROVE SessionInv'
<1>1. PICK sample : sample = [number |-> samples + 1, outputMode |-> device.outputMode,
                              outputSettings |-> device.outputSettings,
                              outputConfig |-> device.outputConfig]
  OBVIOUS
<1>2. PICK msg : msg = Message("MtData", sample)
  OBVIOUS
<1>3. /\ device.mode = "measurement" /\ samples' = samples + 1
      /\ toHost' = Append(toHost, msg)
      /\ UNCHANGED <<stage, waiting, host, known, rows, device, toDevice, lost>>
  BY <1>1, <1>2 DEF DeviceMeasures, hostVars
<1>4. device \in Devices /\ samples \in Nat /\ toHost \in Seq(Messages)
  BY DEF SessionInv, LinkType
<1>5. /\ sample \in Samples /\ sample.number = samples + 1
      /\ sample.outputMode = device.outputMode /\ sample.outputConfig = device.outputConfig
      /\ sample.outputSettings = device.outputSettings
  BY <1>1, <1>4 DEF Samples, Devices
<1>6. msg \in Messages /\ msg.mid = "MtData" /\ msg.arg = sample
  BY <1>2, <1>5, MessageIs DEF Messages, Message
<1>7. /\ toHost' \in Seq(Messages) /\ Len(toHost') = Len(toHost) + 1 /\ Len(toHost) \in Nat
      /\ DOMAIN toHost' = 1 .. Len(toHost) + 1 /\ DOMAIN toHost = 1 .. Len(toHost)
      /\ \A i \in 1 .. Len(toHost) : toHost'[i] = toHost[i]
      /\ toHost'[Len(toHost) + 1] = msg
  BY <1>3, <1>4, <1>6
<1>8. PICK last : last = Len(toHost) + 1
  OBVIOUS
<1>9. \A i \in DOMAIN toHost' :
        IF i = last THEN toHost'[i] = msg /\ Data(i)'
        ELSE i \in DOMAIN toHost /\ toHost'[i] = toHost[i] /\ (Data(i)' <=> Data(i))
  BY <1>6, <1>7, <1>8 DEF Data
<1>10. Requests' = Requests /\ Current' = Current
  BY <1>3 DEF Requests, Current
<1>11. StageType' /\ DeviceSet' /\ RowsAreFreshSamples'
  BY <1>3, <1>10 DEF SessionInv, StageType, DeviceSet, RowsAreFreshSamples, Fresh
<1>12. LinkType'
  <2>1. \A i \in DOMAIN toHost' : toHost'[i].mid = "MtData" => toHost'[i].arg \in Samples
    BY <1>5, <1>6, <1>9 DEF SessionInv, LinkType
  <2>2. samples' \in Nat
    BY <1>3, <1>4
  <2>3. QED
    BY <1>3, <1>7, <2>1, <2>2 DEF SessionInv, LinkType
<1>13. InFlight'
  <2>1. \A i \in DOMAIN toHost' : ~Data(i)' =>
          i \in DOMAIN toHost /\ ~Data(i) /\ (Answer(i) => Answer(i)')
    BY <1>3, <1>9, <1>10 DEF Answer
  <2>2. CASE toDevice = << >> /\ \A i \in DOMAIN toHost : Data(i)
    BY <1>3, <2>1, <2>2 DEF InFlight
  <2>3. CASE waiting /\ toDevice = <<Current>> /\ \A i \in DOMAIN toHost : Data(i)
    BY <1>3, <1>10, <2>1, <2>3 DEF InFlight
  <2>4. CASE /\ waiting /\ toDevice = << >>
             /\ \A i \in DOMAIN toHost : ~Data(i) =>
                  Answer(i) /\ \A j \in DOMAIN toHost : ~Data(j) => i = j
    BY <1>3, <2>1, <2>4 DEF InFlight
  <2>5. QED
    BY <2>2, <2>3, <2>4 DEF SessionInv, InFlight
<1>14. FirstIsLast'
  <2> SUFFICES ASSUME stage = 0 PROVE \A i \in DOMAIN toHost' : Data(i)'
    BY <1>3 DEF FirstIsLast
  <2>1. \A i \in DOMAIN toHost : ~Data(i) => waiting /\ Answer(i)
    BY DEF SessionInv, InFlight
  <2>2. waiting => host = "starting"
    BY DEF SessionInv, StageType
  <2>3. waiting => Current.mid = "GotoConfig"
    BY <2>2, CurrentIs DEF SessionInv
  <2>4. \A i \in DOMAIN toHost : Data(i)
    BY <1>3, <2>1, <2>3 DEF Answer
  <2>5. QED
    BY <1>9, <2>4
<1>15. SamplesUnderWay'
  <2> SUFFICES ASSUME host # "closed", stage >= 1 PROVE SamplesUnderWay'
    BY <1>3 DEF SamplesUnderWay
  <2>1. stage >= 3 /\ known \in {"MTi", "MTmk4"}
    <3>1. ~(stage + 1 < Len(Requests)) /\ stage \in Nat
      BY <1>3 DEF SessionInv, DeviceSet, StageType
    <3>2. stage >= 2
      BY <3>1, RequestsAre DEF SessionInv, StageType
    <3>3. known \in {"MTi", "MTmk4"}
      BY <3>2 DEF SessionInv, StageType
    <3>4. QED
      BY <3>1, <3>3, RequestsAre
  <2>2. Fresh(sample)
    BY <1>5, <2>1 DEF SessionInv, DeviceSet, Fresh
  <2>3. \A i \in DOMAIN toHost : IF Data(i) THEN SampleOfRun(i) ELSE i = 1
    BY DEF SessionInv, SamplesUnderWay
  <2>4. ASSUME NEW i \in DOMAIN toHost' PROVE IF Data(i)' THEN SampleOfRun(i)' ELSE i = 1
    <3>1. CASE i = last
      <4>1. samples' >= 1 /\ samples' \in Nat /\ toHost'[i].arg.number = samples'
        BY <1>3, <1>4, <1>5, <1>6, <1>9, <2>4, <3>1
      <4>2. QED
        BY <1>3, <1>6, <1>9, <2>2, <2>4, <3>1, <4>1 DEF SampleOfRun, Fresh
    <3>2. CASE i # last
      <4>1. 1 .. samples \subseteq 1 .. samples'
        BY <1>3, <1>4
      <4>2. QED
        BY <1>3, <1>9, <2>3, <2>4, <3>2, <4>1 DEF SampleOfRun, Fresh
    <3>3. QED
      BY <3>1, <3>2
  <2>5. ASSUME NEW i \in DOMAIN toHost', NEW j \in DOMAIN toHost', Data(i)', Data(j)', i < j
        PROVE  toHost'[i].arg.number < toHost'[j].arg.number
    <3>1. i # last /\ i \in DOMAIN toHost
      BY <1>7, <1>8, <2>5
    <3>2. CASE j = last
      <4>1. toHost'[i].arg.number \in 1 .. samples
        BY <1>9, <2>3, <2>5, <3>1 DEF SampleOfRun
      <4>2. toHost'[j].arg.number = samples + 1
        BY <1>5, <1>6, <1>9, <3>2
      <4>3. QED
        BY <1>4, <4>1, <4>2
    <3>3. CASE j # last
      BY <1>9, <2>5, <3>1, <3>3 DEF SessionInv, SamplesUnderWay
    <3>4. QED
      BY <3>2, <3>3
  <2>6. ASSUME lost' = 0, NEW i \in DOMAIN toHost', Data(i)'
        PROVE  toHost'[i].arg.number = samples' - Len(toHost') + i
    <3>1. CASE i = last
      <4>1. toHost'[i].arg.number = samples + 1
        BY <1>5, <1>6, <1>9, <2>6, <3>1
      <4>2. QED
        BY <1>3, <1>4, <1>7, <1>8, <3>1, <4>1
    <3>2. CASE i # last
      <4>1. toHost'[i].arg.number = samples - Len(toHost) + i /\ i \in DOMAIN toHost
        BY <1>3, <1>9, <2>6, <3>2 DEF SessionInv, SamplesUnderWay
      <4>2. samples - Len(toHost) + i = samples' - Len(toHost') + i
        BY <1>3, <1>4, <1>7, <4>1
      <4>3. QED
        BY <4>1, <4>2
    <3>3. QED
      BY <3>1, <3>2
  <2>7. QED
    BY <2>4, <2>5, <2>6 DEF SamplesUnderWay
<1>16. RowsBefore'
  <2>1. CASE host # "logging"
    BY <1>3, <2>1 DEF SessionInv, RowsBefore
  <2>2. CASE host = "logging"
    <3>1. ASSUME NEW i \in DOMAIN rows
          PROVE  /\ rows[i].number <= samples'
                 /\ \A j \in DOMAIN toHost' : rows[i].number < toHost'[j].arg.number
                 /\ lost' = 0 => rows[i].number = samples' - Len(toHost') - Len(rows) + i
      <4>1. /\ rows[i].number <= samples /\ rows[i].number \in Nat
            /\ \A j \in DOMAIN toHost : rows[i].number < toHost[j].arg.number
            /\ lost = 0 => rows[i].number = samples - Len(toHost) - Len(rows) + i
        <5>1. rows[i] \in Samples
          BY DEF SessionInv, LinkType
        <5>2. QED
          BY <2>2, <5>1 DEF SessionInv, RowsBefore, Samples
      <4>2. rows[i].number <= samples' /\ rows[i].number < samples + 1
        BY <1>3, <1>4, <4>1
      <4>3. \A j \in DOMAIN toHost' : rows[i].number < toHost'[j].arg.number
        BY <1>5, <1>6, <1>9, <4>1, <4>2
      <4>4. samples' - Len(toHost') = samples - Len(toHost)
        BY <1>3, <1>4, <1>7
      <4>5. QED
        BY <1>3, <4>1, <4>2, <4>3, <4>4
    <3>2. QED
      BY <1>3, <2>2, <3>1 DEF RowsBefore
  <2>3. QED
    BY <2>1, <2>2
<1>17. QED
  BY <1>11, <1>12, <1>13, <1>14, <1>15, <1>16 DEF SessionInv

LEMMA Skipping ==
  ASSUME NEW n \in Nat, NEW k \in 1 .. n, NEW i \in 1 .. n - 1
  PROVE  LET g == IF i < k THEN i ELSE i + 1 IN g >= i /\ (g = n => i = n - 1)
OBVIOUS

LEMMA LoseKeeps == ASSUME SessionInv, Lose PROVE SessionInv'
<1>1. /\ lost' = lost + 1 /\ lost \in Nat
      /\ UNCHANGED <<stage, waiting, host, known, rows, device, samples>>
  BY DEF Lose, hostVars, SessionInv, LinkType
<1>2. lost' \in Nat /\ lost' # 0
  BY <1>1
<1>3. Requests' = Requests /\ Current' = Current
  BY <1>1 DEF Requests, Current
<1>4. StageType' /\ RowsAreFreshSamples'
  BY <1>1, <1>3 DEF SessionInv, StageType, RowsAreFreshSamples, Fresh
<1>5. toHost \in Seq(Messages) /\ toDevice \in Seq(Messages)
      /\ DOMAIN toHost = 1 .. Len(toHost) /\ Len(toHost) \in Nat
  BY DEF SessionInv, LinkType
<1>6. CASE \E i \in DOMAIN toDevice : toDevice' = Without(toDevice, i) /\ toHost' = toHost
  <2>1. waiting /\ toDevice = <<Current>> /\ \A i \in DOMAIN toHost : Data(i)
    BY <1>6 DEF SessionInv, InFlight
  <2>2. PICK k \in DOMAIN toDevice : toDevice' = Without(toDevice, k)
    BY <1>6
  <2>3. Len(toDevice) = 1 /\ k \in 1 .. Len(toDevice)
    BY <2>1, <2>2
  <2>4. toDevice' \in Seq(Messages) /\ Len(toDevice') = 0
    BY <1>5, <2>2, <2>3, OneGone
  <2>5. toDevice' = << >>
    BY <2>4
  <2>6. InFlight'
    BY <1>6, <2>1, <2>5 DEF InFlight, Data
  <2>7. LinkType' /\ FirstIsLast' /\ SamplesUnderWay' /\ RowsBefore'
    BY <1>1, <1>2, <1>6, <2>5 DEF SessionInv, LinkType, FirstIsLast, SamplesUnderWay, SampleOfRun,
       Data, RowsBefore, Fresh
  <2>8. DeviceSet'
    BY <1>1, <1>3, <2>1, <2>5 DEF SessionInv, DeviceSet
  <2>9. QED
    BY <1>4, <2>6, <2>7, <2>8 DEF SessionInv
<1>7. CASE \E i \in DOMAIN toHost : toHost' = Without(toHost, i) /\ toDevice' = toDevice
  <2>1. PICK k \in 1 .. Len(toHost) : toHost' = Without(toHost, k) /\ toDevice' = toDevice
    BY <1>5, <1>7
  <2>2. /\ toHost' \in Seq(Messages) /\ Len(toHost') = Len(toHost) - 1
        /\ \A i \in 1 .. Len(toHost) - 1 : toHost'[i] = toHost[IF i < k THEN i ELSE i + 1]
    BY <1>5, <2>1, OneGone
  <2>3. PICK f : f = [i \in 1 .. Len(toHost) - 1 |-> IF i < k THEN i ELSE i + 1]
    OBVIOUS
  <2>4. \A i \in 1 .. Len(toHost) - 1 : f[i] = (IF i < k THEN i ELSE i + 1) /\ i \in Int
    BY <1>5, <2>3
  <2>5. f \in [1 .. Len(toHost') -> 1 .. Len(toHost)]
    BY <1>5, <2>2, <2>3
  <2>6. ASSUME NEW i \in 1 .. Len(toHost')
        PROVE  /\ toHost'[i] = toHost[f[i]] /\ f[i] >= i
               /\ (f[i] = Len(toHost) => i = Len(toHost'))
               /\ \A j \in 1 .. Len(toHost') : i < j => f[i] < f[j]
               /\ lost' = 0 => f[i] = Len(toHost) - Len(toHost') + i
    <3>1. i \in 1 .. Len(toHost) - 1 /\ toHost'[i] = toHost[f[i]]
      BY <2>2, <2>4
    <3>2. f[i] >= i /\ (f[i] = Len(toHost) => i = Len(toHost'))
      <4>1. f[i] = IF i < k THEN i ELSE i + 1
        BY <2>4, <3>1
      <4>2. QED
        BY <1>5, <2>2, <3>1, <4>1, Skipping
    <3>3. ASSUME NEW j \in 1 .. Len(toHost'), i < j PROVE f[i] < f[j]
      <4>1. i \in Int /\ j \in 1 .. Len(toHost) - 1 /\ k \in Int
        BY <1>5, <2>1, <2>2, <3>1
      <4>2. f[i] = (IF i < k THEN i ELSE i + 1) /\ f[j] = (IF j < k THEN j ELSE j + 1) /\ j \in Int
        BY <2>4, <3>1, <4>1
      <4>3. QED
        BY <3>3, <4>1, <4>2
    <3>4. QED
      BY <1>2, <3>1, <3>2, <3>3
  <2>7. InFlight' /\ FirstIsLast' /\ SamplesUnderWay'
    BY <1>1, <1>2, <2>1, <2>2, <2>5, <2>6, FewerMessages
  <2>8. ASSUME NEW i \in DOMAIN toHost' PROVE f[i] \in DOMAIN toHost /\ toHost'[i] = toHost[f[i]]
    <3>1. i \in 1 .. Len(toHost')
      BY <2>2, <2>8
    <3>2. QED
      BY <1>5, <2>5, <2>6, <3>1
  <2>9. LinkType'
    BY <1>1, <1>2, <1>5, <2>1, <2>2, <2>8, SampleMessages
  <2>10. RowsBefore'
    BY <1>1, <1>2, <2>8 DEF SessionInv, RowsBefore
  <2>11. DeviceSet'
    BY <1>1, <1>3, <2>1 DEF SessionInv, DeviceSet
  <2>12. QED
    BY <1>4, <2>7, <2>9, <2>10, <2>11 DEF SessionInv
<1>8. QED
  BY <1>6, <1>7 DEF Lose

LEMMA SessionKeeps == SessionInv /\ [Next]_vars => SessionInv'
<1> SUFFICES ASSUME SessionInv, [Next]_vars PROVE SessionInv'
  OBVIOUS
<1>1. CASE UNCHANGED vars
  <2>1. Requests' = Requests /\ Current' = Current
    BY <1>1 DEF vars, Requests, Current
  <2>2. StageType' /\ LinkType' /\ DeviceSet' /\ InFlight'
    BY <1>1, <2>1 DEF vars, SessionInv, StageType, LinkType, DeviceSet, InFlight, Data, Answer
  <2>3. FirstIsLast' /\ SamplesUnderWay' /\ RowsBefore' /\ RowsAreFreshSamples'
    BY <1>1 DEF vars, SessionInv, FirstIsLast, SamplesUnderWay, SampleOfRun, Data, RowsBefore,
                RowsAreFreshSamples, Fresh
  <2>4. QED
    BY <2>2, <2>3 DEF SessionInv
<1>2. QED
  BY <1>1, SendKeeps, KeepWaitingKeeps, AnsweredKeeps, LogBatchKeeps, KeyPressedKeeps,
     DeviceAnswersKeeps, DeviceMeasuresKeeps, LoseKeeps DEF Next, Poll

LEMMA SessionInvHolds == Spec => []SessionInv
<1>1. SessionInv /\ [Next]_vars => SessionInv'
  BY SessionKeeps
<1>2. QED
  BY <1>1, SessionInit, PTL DEF Spec
--------------------------------------------------------------------------------
(* What the program has had acknowledged is true of the device.             *)
THEOREM AcknowledgedIsTrue == Spec => []AcknowledgedHolds
<1>1. SessionInv => AcknowledgedHolds
  <2> SUFFICES ASSUME SessionInv, host # "closed" PROVE AcknowledgedHolds
    BY DEF AcknowledgedHolds
  <2>1. stage \in Nat /\ stage <= Len(Requests) /\ (stage < 2 => Len(Requests) = 3)
    BY RequestsAre DEF SessionInv, StageType
  <2>2. Done("GotoConfig") => stage >= 1
    BY <2>1 DEF Done
  <2>3. ASSUME NEW mid \in {"SetOutputMode", "SetOutputConfiguration"}, Done(mid)
        PROVE  stage >= 3 /\ (mid = "SetOutputMode" => known = "MTi")
                          /\ (mid = "SetOutputConfiguration" => known = "MTmk4")
    <3>1. PICK i \in 1 .. stage : Requests[i].mid = mid
      BY <2>3 DEF Done
    <3>2. i \notin {1, 2}
      BY <3>1, RequestsAre, MessageIs
    <3>3. stage >= 3 /\ i >= 3 /\ i <= Len(Requests)
      BY <2>1, <3>1, <3>2
    <3>4. known \in {"MTi", "MTmk4"}
      BY <3>3 DEF SessionInv, StageType
    <3>5. i \in 3 .. 5
      BY <2>1, <3>1, <3>3, <3>4, RequestsAre
    <3>6. QED
      BY <3>1, <3>3, <3>4, <3>5, RequestsAre, MessageIs
  <2>4. QED
    BY <2>2, <2>3 DEF SessionInv, DeviceSet, AcknowledgedHolds
<1>2. QED
  BY <1>1, SessionInvHolds, PTL

(* Each row is a sample taken with all the device is set to, and with what  *)
(* its kind was asked for, and the rows are in the order of the samples.    *)
THEOREM RowsAreFresh == Spec => []RowsAreFreshSamples
<1>1. SessionInv => RowsAreFreshSamples
  BY DEF SessionInv
<1>2. QED
  BY <1>1, SessionInvHolds, PTL

(* On a link that loses nothing the log has no gap.                         *)
THEOREM NoGap == Spec => []LogHasNoGap
<1>1. SessionInv => LogHasNoGap
  <2> SUFFICES ASSUME SessionInv, lost = 0, host = "logging", rows # << >>
               PROVE  /\ \A i \in DOMAIN rows : rows[i].number = rows[1].number + i - 1
                      /\ samples = rows[Len(rows)].number + Len(toHost)
    BY DEF LogHasNoGap
  <2>1. /\ DOMAIN rows = 1 .. Len(rows) /\ Len(rows) \in Nat /\ Len(rows) >= 1
        /\ samples \in Int /\ Len(toHost) \in Int
    BY DEF SessionInv, LinkType
  <2>2. \A i \in DOMAIN rows : rows[i].number = samples - Len(toHost) - Len(rows) + i
    BY DEF SessionInv, RowsBefore
  <2>3. 1 \in DOMAIN rows /\ Len(rows) \in DOMAIN rows
    BY <2>1
  <2>4. /\ rows[1].number = samples - Len(toHost) - Len(rows) + 1
        /\ rows[Len(rows)].number = samples - Len(toHost) - Len(rows) + Len(rows)
    BY <2>2, <2>3
  <2>5. samples = rows[Len(rows)].number + Len(toHost)
    BY <2>1, <2>4
  <2>6. ASSUME NEW i \in DOMAIN rows PROVE rows[i].number = rows[1].number + i - 1
    <3>1. rows[i].number = samples - Len(toHost) - Len(rows) + i /\ i \in Int
      BY <2>1, <2>2
    <3>2. QED
      BY <2>1, <2>4, <3>1
  <2>7. QED
    BY <2>5, <2>6
<1>2. QED
  BY <1>1, SessionInvHolds, PTL

--------------------------------------------------------------------------------
(* The ids of the packets.                                                  *)

LEMMA DivMod ==
  ASSUME NEW n \in Int
  PROVE  /\ n % Boundary \in 0 .. (Boundary - 1)
         /\ \E q \in Int : n = q * Boundary + (n % Boundary)
<1>1. Boundary \in Nat \ {0}
  BY HalfAssumption DEF Boundary
<1> HIDE DEF Boundary
<1>2. n % Boundary \in 0 .. (Boundary - 1)
  BY <1>1
<1>3. n \div Boundary \in Int /\ n = (n \div Boundary) * Boundary + (n % Boundary)
  BY <1>1
<1>4. QED
  BY <1>2, <1>3

(* A multiple of the boundary that is the difference of two remainders, give *)
(* or take less than half a wrap, is one wrap at most.                       *)
LEMMA OneWrap ==
  ASSUME NEW m \in Int, NEW d \in -Half .. (Half - 1), NEW r \in 0 .. (Boundary - 1),
         NEW s \in 0 .. (Boundary - 1), r - s = d + m * Boundary
  PROVE  m \in {-1, 0, 1}
<1>1. Boundary \in Nat /\ Half \in Nat \ {0} /\ Boundary = 2 * Half
  BY HalfAssumption DEF Boundary
<1>2. CASE m >= 2
  <2>1. m * Boundary >= 2 * Boundary
    BY <1>1, <1>2
  <2>2. QED
    BY <1>1, <2>1
<1>3. CASE m <= -2
  <2>1. m * Boundary <= -(2 * Boundary)
    BY <1>1, <1>3
  <2>2. QED
    BY <1>1, <2>1
<1>4. QED
  BY <1>2, <1>3

(* The counter computed is as far from the highest one as the packet is from *)
(* the newest.                                                               *)
LEMMA CounterExact ==
  ASSUME NEW t \in Nat, NEW o \in Nat, NEW h \in Nat,
         Aligned(o, h), t - o \in -Half .. (Half - 1)
  PROVE  CalculateLargeCounter(t % Boundary, h) = h + (t - o)
<1>1. Boundary \in Nat /\ Half \in Nat \ {0} /\ Boundary = 2 * Half
  BY HalfAssumption DEF Boundary
<1>2. PICK a \in Int : t = a * Boundary + (t % Boundary)
  BY DivMod
<1>3. PICK b \in Int : h = b * Boundary + (h % Boundary)
  BY DivMod
<1>4. PICK k \in Int : o - h = k * Boundary
  <2>1. PICK q \in Int : o - h = q * Boundary + ((o - h) % Boundary)
    BY DivMod
  <2>2. QED
    BY <1>1, <2>1 DEF Aligned
<1> DEFINE r == t % Boundary
           s == h % Boundary
           d == t - o
           m == k - a + b
<1>5. r \in 0 .. (Boundary - 1) /\ s \in 0 .. (Boundary - 1)
  BY DivMod
<1>6. m \in Int /\ d \in -Half .. (Half - 1)
  OBVIOUS
<1>7. r - s = d + m * Boundary
  <2> DEFINE A == a * Boundary
             B == b * Boundary
             K == k * Boundary
  <2>1. m * Boundary = K - A + B
    BY <1>1
  <2>2. A \in Int /\ B \in Int /\ K \in Int
    BY <1>1
  <2>3. t = A + r /\ h = B + s /\ o - h = K
    BY <1>2, <1>3, <1>4
  <2> HIDE DEF m, r, s, A, B, K
  <2>4. QED
    BY <1>5, <2>1, <2>2, <2>3
<1>8. m \in {-1, 0, 1}
  <2> HIDE DEF m, r, s, d
  <2>1. QED
    BY <1>5, <1>6, <1>7, OneWrap
<1>9. CalculateLargeCounter(r, h) =
        IF r - s < -Half THEN h + (r - s) + Boundary
        ELSE IF r - s < Half THEN h + (r - s)
        ELSE h + (r - s) - Boundary
  BY DEF CalculateLargeCounter
<1> HIDE DEF m, r, s
<1>10. QED
  BY <1>1, <1>5, <1>6, <1>7, <1>8, <1>9 DEF r

--------------------------------------------------------------------------------
LEMMA InitInv == StamperInit => StamperInv
BY CountAssumption DEF StamperInit, StamperInv, StamperType, Empty

LEMMA ProduceInv == StamperInv /\ Produce => StamperInv'
BY CountAssumption DEF Produce, StamperInv, StamperType, Aligned, Empty

LEMMA AgainInv ==
  ASSUME NEW count \in received, StamperInv, StampAgain(count)
  PROVE  StamperInv'
<1>1. /\ id[count] \in Int /\ id[count] > 0 /\ count \in 0 .. MaxCount
      /\ highest \in Nat
  BY DEF StampAgain, StamperInv, StamperType, Empty
<1>2. StamperType'
  BY <1>1 DEF StampAgain, KeepHighest, StamperInv, StamperType
<1>3. counted => count - id[count] = highestOf - highest
  BY <1>1 DEF StamperInv, Empty
<1>4. ASSUME counted
      PROVE  /\ highestOf' - highest' = highestOf - highest
             /\ Aligned(highestOf, highest)
  BY <1>1, <1>3, <1>4 DEF StampAgain, KeepHighest, StamperInv, Empty, StamperType
<1>5. counted => Aligned(highestOf, highest)'
  BY <1>4 DEF Aligned
<1>6. /\ counted' = counted /\ received' = received /\ id' = id
      /\ received # {} /\ highest' # Empty
  BY <1>1 DEF StampAgain, KeepHighest, Empty
<1>7. counted => \A c \in received : c - id[c] = (highestOf - highest)'
  BY <1>1, <1>4 DEF StamperInv, Empty
<1>8. QED
  BY <1>2, <1>5, <1>6, <1>7 DEF StamperInv

(* The id a packet gets.                                                    *)
LEMMA NewCounterInv ==
  ASSUME NEW count \in 0 .. (next - 1), StamperInv, Stamp(count)
  PROVE  /\ NewCounter(count) \in Int
         /\ highest = Empty => NewCounter(count) \in Nat
         /\ counted /\ highest # Empty =>
              NewCounter(count) = highest + (count - highestOf)
         /\ counted /\ highest = Empty => Aligned(count, NewCounter(count))
<1>1. /\ count \in Nat /\ highest \in Nat \cup {-1} /\ highestOf \in Nat
      /\ counted \in BOOLEAN
  BY CountAssumption DEF StamperInv, StamperType, Empty
<1>2. count % Boundary \in Nat /\ Boundary \in Nat \ {0}
  BY <1>1, DivMod, HalfAssumption DEF Boundary
<1>3. CASE ~counted
  BY <1>1, <1>3 DEF NewCounter, Empty
<1>4. CASE counted /\ highest = Empty
  <2>1. NewCounter(count) = count % Boundary
    BY <1>4 DEF NewCounter, CalculateLargeCounter, Empty
  <2>2. (count - (count % Boundary)) % Boundary = 0
    <3> DEFINE r == count % Boundary
    <3>1. PICK a \in Int : count = a * Boundary + r
      BY <1>1, DivMod
    <3>2. (a * Boundary) % Boundary = 0
      BY <1>2
    <3>3. count - r = a * Boundary
      <4> DEFINE A == a * Boundary
      <4>1. A \in Int /\ r \in Int /\ count = A + r
        BY <1>2, <3>1
      <4> HIDE DEF A, r
      <4>2. count - r = A
        BY <4>1
      <4>3. QED
        BY <4>2 DEF A
    <3>4. QED
      BY <3>2, <3>3
  <2>3. QED
    BY <1>2, <1>4, <2>1, <2>2 DEF Aligned
<1>5. CASE counted /\ highest # Empty
  <2>1. Aligned(highestOf, highest) /\ count - highestOf \in -Half .. (Half - 1)
    BY <1>5 DEF StamperInv, Stamp, InWindow
  <2>2. NewCounter(count) = highest + (count - highestOf)
    BY <1>1, <1>5, <2>1, CounterExact DEF NewCounter, Empty
  <2>3. QED
    BY <1>1, <1>5, <2>2 DEF Empty
<1>6. QED
  BY <1>1, <1>3, <1>4, <1>5

LEMMA StampInv ==
  ASSUME NEW count \in 0 .. (next - 1), StamperInv, Stamp(count)
  PROVE  StamperInv'
<1> DEFINE new == NewCounter(count)
<1>1. /\ new \in Int
      /\ highest = Empty => new \in Nat
      /\ counted /\ highest # Empty => new = highest + (count - highestOf)
      /\ counted /\ highest = Empty => Aligned(count, new)
  BY NewCounterInv
<1>2. /\ KeepHighest(count, new)
      /\ received' = received \cup {count}
      /\ id' = [c \in received' |-> IF c = count THEN new ELSE id[c]]
      /\ next' = next /\ counted' = counted
  BY DEF Stamp
<1> HIDE DEF new
<1>3. /\ count \in 0 .. MaxCount /\ highest \in Nat \cup {-1}
      /\ highestOf \in 0 .. MaxCount /\ id \in [received -> Int]
      /\ received \in SUBSET (0 .. MaxCount) /\ MaxCount \in Nat
  BY CountAssumption DEF StamperInv, StamperType, Empty
<1>4. highest' \in Nat /\ highest' # Empty
  BY <1>1, <1>2, <1>3 DEF KeepHighest, Empty
<1>5. StamperType'
  BY <1>1, <1>2, <1>3, <1>4 DEF KeepHighest, StamperInv, StamperType
<1>6. ASSUME counted PROVE /\ count - new = (highestOf - highest)'
                           /\ Aligned(highestOf, highest)'
  <2>1. CASE highest = Empty
    BY <1>1, <1>2, <1>3, <1>6, <2>1 DEF KeepHighest, Aligned, Empty
  <2>2. CASE highest # Empty
    <3>1. /\ new = highest + (count - highestOf)
          /\ Aligned(highestOf, highest)
      BY <1>1, <1>6, <2>2 DEF StamperInv
    <3>2. highestOf' - highest' = highestOf - highest
      BY <1>1, <1>2, <1>3, <3>1 DEF KeepHighest
    <3>3. count - new = highestOf - highest
      BY <1>1, <1>3, <3>1
    <3>4. QED
      BY <3>1, <3>2, <3>3 DEF Aligned
  <2>3. QED
    BY <2>1, <2>2
<1>7. ASSUME counted, NEW c \in received' PROVE c - id'[c] = (highestOf - highest)'
  <2>1. CASE c = count
    BY <1>2, <1>6, <1>7, <2>1
  <2>2. CASE c # count
    <3>1. c \in received /\ id'[c] = id[c] /\ highest # Empty
      BY <1>2, <2>2 DEF StamperInv
    <3>2. c - id[c] = highestOf - highest /\ new = highest + (count - highestOf)
      BY <1>1, <1>7, <3>1 DEF StamperInv
    <3>3. QED
      BY <1>1, <1>2, <1>3, <3>1, <3>2 DEF KeepHighest
  <2>3. QED
    BY <2>1, <2>2
<1>8. QED
  BY <1>2, <1>4, <1>5, <1>6, <1>7 DEF StamperInv

(* Whatever is lost, repeated or reordered within half a wrap, the ids and   *)
(* the device's count of the packets keep one and the same distance, a       *)
(* multiple of the boundary.                                                 *)
THEOREM StamperInvariant == StamperSpec => []StamperInv
<1>1. StamperInv /\ [StamperNext]_stamperVars => StamperInv'
  <2> SUFFICES ASSUME StamperInv, [StamperNext]_stamperVars PROVE StamperInv'
    OBVIOUS
  <2>1. CASE Produce
    BY <2>1, ProduceInv
  <2>2. CASE \E count \in 0 .. (next - 1) : Stamp(count)
    BY <2>2, StampInv
  <2>3. CASE \E count \in received : StampAgain(count)
    BY <2>3, AgainInv
  <2>4. CASE UNCHANGED stamperVars
    BY <2>4 DEF stamperVars, StamperInv, StamperType, Aligned
  <2>5. QED
    BY <2>1, <2>2, <2>3, <2>4 DEF StamperNext
<1>2. QED
  BY <1>1, InitInv, PTL DEF StamperSpec

(* stampPacket never makes the id of highestPacket negative, however late the *)
(* packets come: lastCounter < 0 means "no packet yet" and nothing else.      *)
THEOREM StamperTypeOK == StamperSpec => []StamperType
<1>1. StamperInv => StamperType
  BY DEF StamperInv
<1>2. QED
  BY <1>1, StamperInvariant, PTL

(* Two packets' ids differ by exactly what the device counted between them,  *)
(* for every boundary and over any number of wraps.                          *)
THEOREM StamperExactDifferences == StamperSpec => []ExactDifferences
<1>1. StamperInv => ExactDifferences
  <2> SUFFICES ASSUME StamperInv, counted, NEW s \in received, NEW t \in received
               PROVE  id[s] - id[t] = s - t
    BY DEF ExactDifferences
  <2>1. s - id[s] = highestOf - highest /\ t - id[t] = highestOf - highest
    BY DEF StamperInv
  <2>2. /\ s \in Int /\ t \in Int /\ id[s] \in Int /\ id[t] \in Int
        /\ highestOf \in Int /\ highest \in Int
    BY DEF StamperInv, StamperType, Empty
  <2>3. QED
    BY <2>1, <2>2
<1>2. QED
  BY <1>1, StamperInvariant, PTL

--------------------------------------------------------------------------------
(* A packet that is stamped becomes the newest one or is below it.          *)
LEMMA StampNewest ==
  ASSUME NEW count \in 0 .. (next - 1), StamperInv, HighestIsNewest, Stamp(count)
  PROVE  HighestIsNewest'
<1> DEFINE new == NewCounter(count)
<1>1. /\ new \in Int
      /\ highest = Empty => new \in Nat
      /\ counted /\ highest # Empty => new = highest + (count - highestOf)
      /\ ~counted => new = highest + 1
  BY NewCounterInv DEF NewCounter
<1>2. /\ KeepHighest(count, new)
      /\ received' = received \cup {count}
      /\ id' = [c \in received' |-> IF c = count THEN new ELSE id[c]]
  BY DEF Stamp
<1> HIDE DEF new
<1>3. /\ count \in Nat /\ highest \in Nat \cup {-1} /\ highestOf \in Nat
      /\ id \in [received -> Int] /\ counted \in BOOLEAN
  BY CountAssumption DEF StamperInv, StamperType, Empty
<1>4. highest' \in Int /\ new <= highest' /\ highest <= highest'
  BY <1>1, <1>2, <1>3 DEF KeepHighest
<1>5. ASSUME NEW c \in received' PROVE id'[c] <= highest'
  <2>1. CASE c = count
    BY <1>2, <1>4, <2>1
  <2>2. CASE c # count
    <3>1. c \in received /\ id'[c] = id[c]
      BY <1>2, <2>2
    <3>2. id[c] \in Int /\ id[c] <= highest
      BY <1>3, <3>1 DEF HighestIsNewest
    <3>3. QED
      BY <1>3, <1>4, <3>1, <3>2
  <2>3. QED
    BY <2>1, <2>2
<1>6. highestOf' \in received' /\ id'[highestOf'] = highest'
  <2>1. CASE new > highest
    BY <1>2, <2>1 DEF KeepHighest
  <2>2. CASE ~(new > highest)
    <3>1. counted /\ highest # Empty
      BY <1>1, <1>3, <2>2 DEF Empty
    <3>2. highestOf' = highestOf /\ highest' = highest
      BY <1>2, <2>2 DEF KeepHighest
    <3>3. highestOf \in received /\ id[highestOf] = highest
      BY <3>1 DEF StamperInv, HighestIsNewest
    <3>4. highestOf = count => new = highest
      BY <1>1, <1>3, <3>1 DEF Empty
    <3>5. QED
      BY <1>2, <3>2, <3>3, <3>4
  <2>3. QED
    BY <2>1, <2>2
<1>7. QED
  BY <1>5, <1>6 DEF HighestIsNewest

(* highestPacket is the newest packet for every boundary, with and without  *)
(* counters in the packets.                                                 *)
THEOREM StamperHighestIsNewest == StamperSpec => []HighestIsNewest
<1>1. StamperInit => HighestIsNewest
  BY DEF StamperInit, HighestIsNewest
<1>2. StamperInv /\ HighestIsNewest /\ [StamperNext]_stamperVars => HighestIsNewest'
  <2> SUFFICES ASSUME StamperInv, HighestIsNewest, [StamperNext]_stamperVars PROVE HighestIsNewest'
    OBVIOUS
  <2>1. CASE Produce
    BY <2>1 DEF Produce, HighestIsNewest
  <2>2. CASE \E count \in 0 .. (next - 1) : Stamp(count)
    BY <2>2, StampNewest
  <2>3. ASSUME NEW count \in received, StampAgain(count) PROVE HighestIsNewest'
    <3>1. highest \in Int /\ id[count] \in Int /\ id[count] <= highest
      BY <2>3 DEF StamperInv, StamperType, HighestIsNewest, Empty
    <3>2. UNCHANGED <<received, id, highest, highestOf>>
      BY <2>3, <3>1 DEF StampAgain, KeepHighest
    <3>3. QED
      BY <3>2 DEF HighestIsNewest
  <2>4. CASE UNCHANGED stamperVars
    BY <2>4 DEF stamperVars, HighestIsNewest
  <2>5. QED
    BY <2>1, <2>2, <2>3, <2>4 DEF StamperNext
<1>3. QED
  BY <1>1, <1>2, StamperInvariant, PTL DEF StamperSpec
================================================================================
