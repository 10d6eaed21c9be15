# Formal models of tx2_navigation

tx2_navigation is the software of a sensor hub on an NVIDIA TX2: programs that
read an Xsens MTi inertial unit, a GPS receiver, a pressure sensor and a camera,
and small clients and servers that carry the readings to a PC. This directory
holds TLA+ models of its core logic, the TLC runs that check them, and theorems
about them with proofs for TLAPS.

Check one run with `tlc -config <run>.cfg <module>.tla`, one proof with
`tlapm <module>_proofs.tla`. PROJECT.json lists the runs, the lines of code each
definition stands for, the hazards and the theorems.

## Inventory

Paths are under `src/`.

| Component | Source | State | Operations | Here |
|---|---|---|---|---|
| Xbus stream parser | `mti-imu/xcommunication/protocolhandler.cpp`, `mti-imu/deviceclass.cpp:68-126` | receive buffer `m_dataBuffer`, `popped`, the `MessageLocation` being built | `readDataToBuffer`, `processBufferedData`, `findMessage` | XbusFraming, XbusWire, XbusStream, XbusParser |
| Device session | `mti-imu/deviceclass.cpp:128-272`, `mti-imu/example_mt_ix_mk4.cpp` | how far the session is, what is under way on the line, the device's mode and settings, the log | `gotoConfig`, `getDeviceId`, `setDeviceMode`, `setOutputConfiguration`, `gotoMeasurement`, the main loop | DeviceSession |
| XsMessage | `mti-imu/xstypes/xsmessage.c` | the bytes of a message, its checksum kept by differences | setters, `resizeData`, `insertData`, `deleteData` | XbusMessage |
| Data packets | `mti-imu/xstypes/xsdatapacket.cpp`, `datapacket_p.cpp` | the items of a packet, several of which say the same thing in other forms | setters, getters, `merge`, `setMessage`, `toMessage`, copy, swap, `clear` | DataPacket |
| Legacy packets | `mti-imu/xcommunication/legacydatapacket.cpp`, `int_xsdatapacket.cpp` | one message of all devices, for each a table of offsets | `updateInfoList`, setters, getters, `setDataFormat`, the conversion to a data packet | LegacyPacket, PacketConversion |
| Packet stamper | `mti-imu/xcommunication/packetstamper.cpp` | the newest packet | `stampPacket` | PacketStamper |
| Serial interface | `mti-imu/xcommunication/serialinterface.cpp` | handle, lock, timeout, last result | `open`, `close`, `flushData`, `readData`, `writeData`, `waitForData` | SerialInterface, DeviceStreams |
| USB interface | `mti-imu/xcommunication/usbinterface.cpp` | handle, the interfaces claimed, the drivers detached | `open`, `closeUsb`, `readData`, `waitForData`, `writeData` | UsbInterface, DeviceStreams |
| File interface | `mti-imu/xcommunication/iointerfacefile.cpp`, `xstypes/xsfile.c` | one stream, a read and a write position, whose place the stream is at | `open`, `create`, reads, searches, writes, `insertData`, `deleteData` | Bytes, ByteFile, FileInterface |
| Camera link | `camera/camera_client`, `camera/camera_server` | packets in the connection, rows collected | `transmit`, `receive`, the two mains | CameraLink |
| TCP transfer | `tpcudp/tcp_pc_to_tx2*` | listen queue, connections, the program's output, delays, buffers | `serve`, `connect_retry`, `print_uptime` | TcpTransfer |
| UDP transfer | `tpcudp/udp_pc_to_tx2*` | socket queue, server processes, the alarm | `serve`, `print_uptime` | UdpTransfer |
| GPS logger | `uart/serial` | record count, the terminal's queue and mode, log file | the read loop, `main` | GpsLogger |
| ROS bridge | `catkin_ws/src/beginner_tutorials` | the terminal's mode | its loop | GpsLogger (its use of the terminal) |
| Pressure sensor | `i2c_final` | registers of the BMP280, the bus | `writeReg`, `readReg`, the measurement | no |
| Simulated sensors | `simulate_output` | | print the time, most of them without end | as the programs TcpTransfer and UdpTransfer run |
| Containers and values, platform layer, XIMEA wrapper, build tree | see PROJECT.json | | | no |

How they interact. The IMU program (`example_mt_ix_mk4.cpp`) drives a
`DeviceClass`; this composes its requests as `XsMessage`s, writes them to the
serial or USB interface, appends what it reads to `m_dataBuffer` and lets the
`ProtocolHandler` find messages in it. What the messages of samples hold becomes
an `XsDataPacket`; those of older devices go through a `LegacyDataPacket`. The
sensor programs print their readings; the TCP and UDP servers run one of them per
client with `popen` and copy its output to the client, which prints or saves it.
The camera server sends frames over one TCP connection to the camera client. The
GPS logger and the ROS bridge use the same terminal device. Programs share no
memory; what they share is the serial line, the connections and their files.

What is hard in this code:

- bytes come in pieces of any size (serial reads, `recv`), and each reader has to
  find the records in them again, also behind noise and damage;
- counters and lengths change form at a boundary (Xbus lengths at 255, packet
  counters that wrap);
- a checksum, a position, an offset or a flag is updated by differences in many
  places;
- the same quantity is kept in several items, of which the getters take the first
  they find;
- the device sends samples while it is being asked something else;
- two programs may open one port, and an open can fail at each of its steps;
- a peer can be late, leave, or die at any moment, and results of `send`,
  `recv` and writes are often not looked at;
- several clients wait for one server, which serves them one at a time, or for a
  server whose processes multiply.

What makes each component correct: the parser hands out exactly the messages
that are there; the session ends up with the configuration it asked for and logs
the samples taken with it; a message is always what the parser on the other end
accepts; a packet reads as it was told last, in whichever form; packet ids keep the
packets' distances; a port belongs to one object at a time, which misses nothing
and gives all back; a file reads as an array of bytes with two positions; the
camera client shows whole frames in order; a client gets one whole output of its
own, of its own request, and does not wait for ever; a record of the log is one
sentence.

## Plan

Modelled in this order, most central first:

1. XbusFraming, XbusWire, XbusStream (abstract), XbusParser (detailed), with proofs;
2. DeviceSession, on top of what the parser promises, with proofs;
3. XbusMessage, which makes what the parser reads (it shares XbusFraming with it),
   with proofs;
4. PacketStamper, with proofs;
5. CameraLink, with proofs;
6. TcpTransfer, with proofs; UdpTransfer, with proofs;
7. SerialInterface and UsbInterface, composed in DeviceStreams, with proofs;
8. ByteFile (abstract) and FileInterface (detailed), with proofs;
9. GpsLogger, with proofs;
10. DataPacket, with proofs, then LegacyPacket, composed in PacketConversion, with
    proofs.

What is left and worth doing: the device ids of legacy packets and their cache
(`findDeviceId`).

## Modules

### XbusFraming, XbusWire, XbusStream, XbusParser

XbusFraming holds what a message is: its preamble, short and extended header,
size and checksum, and `Acceptable(w, p, n)`, that position `p` of the bytes `w`
holds a whole message within the first `n`, which is what `findMessage` checks
before it returns one. XbusWire holds the streams and their block boundaries.

XbusStream is what the parser promises: bytes arrive (`Receive`), whole messages
among those not yet taken are handed out in order, and the rest may be dropped
(`Deliver`). It says nothing of how they are found.

XbusParser is the code. A state is the point between two turns of the loop of
`findMessage`: `pc` is `idle` between calls of `processBufferedData`, `scan` in
the loop, `return` when `findMessage` has returned. `head` and `rcvd` delimit
`m_dataBuffer` in the stream, `popped` counts what has been taken of it, `pre` is
the preamble the loop is at, `rv` the `MessageLocation`, `messages` what the call
has collected. There is one action per way round the loop: `OtherByte`,
`SkipCutHeader` and `ReturnCutHeader` (a header at the end of the array),
`FalseHeader`, `TooLong`, `Incomplete`, `BadChecksum`, `Accept`, `EndOfBuffer`;
`TakeMessage` and `PopConsumed` are `processBufferedData` around it. The reads are
of any size up to `MaxRead`, so a message may be cut anywhere.

`ImplementsStream` is the refinement, `taken <- Base` (`head + popped`).

### DeviceSession

`stage` counts the requests answered, `waiting` says that `waitForMessage` is in
its loop. `Send` writes the next request; a turn of `waitForMessage` takes the
first `n` messages that have come in, and is `Answered(n)` when one of them has
the id waited for and `KeepWaiting(n)` otherwise: either way the others are
dropped, as in the code. `LogBatch(n)` is a turn of the main loop. What is asked
depends on the kind of device that `DeviceId` told (`known`): output mode and
settings, or an output configuration. A sample carries the mode, settings and
configuration it was taken with; `Fresh` compares them with the device's own and with
what its kind was asked for. Of an MTi the settings are not compared with what was asked
for, as `setDeviceMode` never sets them (`session_mode`). The device and the line are external: the
device acknowledges requests in configuration mode, listens only to GotoConfig when
it measures, and may be measuring at the start (`Noisy`); the line delivers whole
messages in order, what XbusParser makes of it, or loses some.

### XbusMessage

`msg` is the bytes of `m_message`, empty for a null pointer. Each setter computes
the bytes and the checksum by the differences the code applies, including the new
buffer of `resizeData`, `insertData` and `deleteData`.

### DataPacket

`pkt` is the map of each packet from data identifiers to variants, and `told`,
beside it, what the packet was last told of each quantity. An orientation can be
there as quaternion, Euler angles or matrix and in three coordinate systems, a time
as fine, coarse and 64-bit items, a status as word and byte, raw data whole or by
parts, a value in four number formats: the module has the setters with what they
erase (`removeAllOrientations`, `genericSet`), the getters with the order they look
in, `merge` with its choice between packets, and the way through a message, in which
each value is rounded to its format (`Rounded`). Rotations are quaternions of
integers, compared up to a factor (the length of a quaternion and the scale of its matrix
are not looked at), so that the turns between coordinate systems (`preRotFromXdi`) are
computed exactly. The properties compare what the getters read with `told`. A
behaviour is about one group of items (`group`), as items of different groups
share nothing.

A packet that was sent (`Send`) is the packet of the message. `OnWire` is what writing
an item makes of it: of a 64-bit sample time both halves go to one place
(`datapacket_p.h:113`), so that `TimesAgree` fails, in the run `packet_time`. What holds
is `TimesStayTrue`: nothing but a message written of a packet with a 64-bit time makes
the times of a packet disagree.

### LegacyPacket, PacketConversion

LegacyPacket has the bytes of the one message (each names the item, value and
precision it is a part of, so that reading at a wrong offset or in a wrong
precision cannot go unnoticed), and the table of each device. `UpdateInfoList` makes
the tables from the formats; the setters are of three sorts: in its place
(`SetInPlace`), behind the end in double precision (`SetReals`), and of several
items at once; `SetVelocity` and `SetOrientationMatrix` are apart because they are
different in the code. `Message` is what the devices send, written down in the
constant `Systems` item by item and apart from the code's layout: the run shows that the
code finds what was sent. `ConversionAssumption` says what may be connected: one device
or several behind an Xbus Master, of any formats, each of which sends the items of its
format one behind the other.

PacketConversion adds `XsDataPacket_assignFromLegacyDataPacket`: the questions in
their order and the setters of DataPacket they lead to. In group `legacy`
LegacyPacket runs, and `Assign` makes packets of its packet; `ToldOf` says what they
should read. SDI data whose barometer reads 0 are without a pressure
(`int_xsdatapacket.cpp:186`): the packet then has none, or the one of the GPS data. A
format with the settings of Euler angles and of a matrix, which is no orientation mode and
which no device uses, sends no orientation.

### PacketStamper

`received` and `id` are the packets stamped and their ids, by the device's own
count of them (`next`); `highest` is the id of `highestPacket`. `Stamp` takes any
packet sent so far, in any order and more than once, as long as it is less than
half a wrap from the newest one (`InWindow`); `StampAgain` one that already has an
id. `counted` says whether the packets carry a counter.

### SerialInterface, UsbInterface, DeviceStreams

Several objects, in one process or several, use one port; a step is one system call
(or one call of libusb), so their calls interleave everywhere. In SerialInterface
`pc` is where each object is between the calls of `open` (open, `flock`, settings,
`tcflush`), of a read (`select`, `read`) and of `close`; the bytes received and not
read are an interval of numbers. `session` remembers what an object should see and
have sent since its flush. The ioctls of the lines may fail on a port that is there,
which `open` ignores (`serialinterface.cpp:507`); `asked` is what of the options it has
not failed to set. `read` may bring an error at any time. In UsbInterface `open` walks through the interfaces of
the device, takes each from its kernel driver and claims it, and goes back when one
fails; `closeUsb` releases and reattaches them. Each call of the claiming loop may fail
by itself, and the device may be unplugged; `left` remembers the interfaces that a
failing `open` has left without their driver. DeviceStreams chooses one of the two for a behaviour, as
`DeviceClass::openPort` does.

### Bytes, ByteFile, FileInterface

ByteFile is the abstract file: an array of bytes, a read and a write position.
FileInterface is `IoInterfaceFile` over `XsFile` over one stdio stream: `st` is the
stream with its position, its end-of-file flag and what is not yet flushed,
`m_reading` says whose place it is at. `insertData` and `deleteData` copy the file
block by block in both directions (`InsertBlock`, `DeleteBlock`). `strayed` becomes
true with one of the five calls after which the object and its file disagree (see
below); ByteFile then allows everything, until the next `open`.

### CameraLink

The server (`image`, `part`) sends each frame as two packets of up to `Parts` parts;
the client's variables are the locals of `receive`. `RecvSome` is one `recv`,
`StorePacket` the rest of the loop's body with the return and the call that
follows. The connection may be reset (`Break`), frames may be refused
(`Reject`), the camera may fail (`Close`), the server may be killed by SIGPIPE.

### TcpTransfer

`queue` holds the connections that wait for `accept`; the server is `accepting` or
`serving` one client, `line` lines into the program's output. `connect_retry` is
`Connect`, `Refused` (with `Sleep` or `GiveUp`) and `Wake` against a clock.
Clients may leave, `popen` and `accept` may fail, and a `send` to a client that
has left may kill the server; the kernel then ends every connection. The clients
in `Recorders` are those of `tcp_pc_to_tx2 (imu 1exe)`, which save what they
receive with `fprintf`.

### UdpTransfer

Each process of the server takes a datagram (`Take`), forks, and parent and child
each run a program, send its lines and go back to the one socket: a request leaves
one process more. The network loses and reorders; a client's alarm is cancelled with
the first datagram. Each client asks once.

### GpsLogger

The receiver sends sentences in pieces to a terminal whose `mode` (lines or bytes)
outlives the program that set it. `logger` and `count` are the read loop, `bridge`
is the ROS program's use of the same device.

## Runs

| Run | Shows | Bounds and why they are enough |
|---|---|---|
| xbus | the parser's safety, its refinement of XbusStream and its liveness | every pair of eleven kinds of blocks and thirty triples; the blocks contain each case the loop tells apart, and a scan relates at most a message, what is inside it and what follows it. Reads of 0 to 24 bytes cut the streams at every byte. |
| session | what is acknowledged is true of the device, the log is fresh, ordered and without gap, the session starts | five samples and two losses: samples before, between, with and behind each answer, and the loss of a request and of an answer |
| session_mode | `setDeviceMode` does not set the output settings (a violation) | |
| messages | XsMessage: header and checksum stay those of the bytes; `deleteData` undoes `insertData`. PacketStamper: ids keep distances; the newest packet is kept | data sizes 1 and 253 to 257, on both sides of the extended header; bytes that carry in the sum. A counter that wraps at 4, two wraps |
| packet | data packets read as told last, in whichever form and coordinate system, and their times stay in step; legacy packets and packets made of them too | two packets (merge and swap relate two), one rotation that does not commute with the turns between the three coordinate systems it is told in, so that it has three values (what holds of it is proved for every rotation), counters that wrap at 3, two values per number format; eight systems of legacy devices that between them have every item and setting, one or two devices, all three sizes of numbers, with and without Xbus Master; three calls of setters: one to move an item, one of another, one again |
| packet_time | a 64-bit sample time is not what it was behind a message (a violation) | the items of time only |
| devices | the port of the inertial unit: exclusive and complete use; drivers come back but for those a failing open has left; calls end. The GPS logger: no stepping over the total, whole records, the end | two objects, as locks and flushes relate two; two bytes; a device with three interfaces, so that an open may fail at the first, between two and behind two that it has claimed. Sentences of one and two pieces, on both sides of the lengths that are logged; three records; room for one long sentence, so that the terminal can be full |
| serial_short | `waitForData` returns XRV_OK with bytes missing (a violation) | as devices |
| serial_drivers | a failing open leaves interfaces without their driver (a violation) | as devices |
| file | the object stays in step with its stream and implements ByteFile | files of up to four bytes in blocks of two: ends on, before and behind a block boundary, inserts longer than a block; every sequence of calls |
| network | the camera's link: only whole frames, in order; all of them on a sound connection. The UDP transfer: each program once for each request, own lines, waits that end | three frames in two packets of up to three parts: a cut in each half, and a frame before and after each. Two clients, so up to three server processes; one line per program |
| tcp | one run each, whole, late giving up, no waiting for ever for a server whose programs end | two clients (one of them a recorder) and one place in the queue: one is served, one waits or is refused; two rounds of the delay; three lines and buffers of two |

Three runs hold two components that share nothing: each behaviour follows one of them,
which a variable of the MC module chooses, while the other keeps its initial state
(`class` in MCMessages, `pair` in MCNetwork, `device` in MCDeviceStreams). The fairness
there is that of the components' own specifications, for the one that is followed.

Runs that allow deadlock (`CHECK_DEADLOCK FALSE`) are of programs that really end
or may find nothing more to do: servers killed, clients done, a device unplugged.

In the run packet one behaviour is about one group of items, and a device with a GPS
receiver stands before one with SDI data in one of its systems, so that a barometer that
reads 0 leaves a pressure of the GPS data.

### Disagreements between the code and what it says

- `session_mode`: `deviceclass.cpp:242` writes the empty message `sndOS` instead of
  `snd`, and the device takes it for a question. The device goes on with its old
  settings, and true is returned.
- `packet_time`: `datapacket_p.h:113` writes the lower half of a 64-bit sample time over
  the upper one, so that a packet read from a message has another time than its coarse
  and fine one; `xsdatapacket.cpp:1740` calls it the full sample time, combined from them.
- `serial_short`: behind an EIO or EAGAIN of `read`, `waitForData` returns what an
  earlier call has left in `m_lastResult` (`serialinterface.cpp:727`), XRV_OK with bytes
  missing; `:709` says that XRV_OK means that all were read.
- `serial_drivers`: when a call of the claiming loop fails, the loop that undoes the claims
  (`usbinterface.cpp:804`) ends with the first interface released, as it tests the
  result it sets: the other interfaces, and the one that failed behind its own detach, are
  never attached again, and `open` returns XRV_OK without being open. `:463` says that a
  driver that was detached is attached again.

Met while modelling and stated by no run. The models follow the code in all of
them; where a call is left out because of one, it says so.

Session, parser and messages: `waitForMessage` has no way out of its loop but
finding the message, though `deviceclass.cpp:131` says that the return value tells.
`deviceclass.cpp:87` says that all present messages are read, but a read that ends
inside a message which contains a whole one loses the outer one
(`protocolhandler.cpp:183`); a message behind a preamble and an almost complete
extended header stays unread until the next byte comes (`HiddenByCutHeader`).
`messagelocation.h:43` states an invariant that does not hold when only a cut header
was found. `insertData` and `deleteData` (`xsmessage.c:1121`, `:1187`) miss the
checksum correction that `resizeData` makes.

Data packets: a merge without overwriting may change the 64-bit sample time
(`xsdatapacket.cpp:2111`), hides a newer status byte behind an older word, and with
orientations in two forms may mix them. `setRawTemperature` over a raw acceleration
hides that. `setTemperature` and `setAltitude` over a received float keep single
precision. GnssSatInfo hides a later GpsSvInfo. Items longer than 255 bytes are cut.

Legacy packets: `setVelocity` asks whether the position is behind the boundary
(`legacydatapacket.cpp:1931`), so that a velocity may be set in its place in single
precision, or be added with each call. The matrix is added in double precision but
stepped through by the size of the device's format (`orientationMatrix`,
`setOrientationMatrix`), so a set matrix is not read back; the model promises
nothing of it (`Open`). `setTemperature` and `setRawTemperature` on a channel that
is not there write one element behind `m_gyroTemp` and `m_rawGyroTemp`; the pressure
of a device with an SDI barometer only is read, and GPS data are set over a pressure
without GPS, at offset 65535: these calls are left out of the model.
`originalMessage` is documented as the message as it was received, but
setters in place have changed it. The conversion sets the pressure in Pascal and then
sets it again as sent, and asks the first device whether there are GPS data,
whichever device is converted; the model promises nothing of the pressure then.
`findDeviceId` keeps an index that `setDeviceId` does not renew.

Ports: the comment of `flushData` in SerialInterface says that remaining data is
sent, but `tcflush` drops it; an open that finds the port locked flushes it too, and the
owner loses what was in the buffers (`SeesAll` is about sessions in which nobody else
flushes). On an unplugged USB device `closeUsb` and the way back of `open` go
round for ever (`usbinterface.cpp:510`, `:805`; `CallsEnd` supposes that the device stays);
`result` is returned uninitialised when no device was found (`:719`);
`writeData` begins again from the start after a partial transfer; `readData` returns
XRV_TIMEOUT where its comment says XRV_OK.

Files: five calls leave the positions the object keeps and the stream's apart
(they make the model `strayed`): a partial write (`iointerfacefile.cpp:716`), a
`deleteData` that copies or cuts what is not yet flushed (`:261`), an `insertData` of
nothing or behind the end, `readTerminatedData`, which hands out its one byte again
until the array is full, and so what the file does not hold, and a `reserve` behind a
read that came to the end (`:776`): the stream stays where it was, away from
`m_readPos`, and now has something to read there, so that the next `find` gives a
position at which the file does not hold what was found.

Programs: the camera client does not end when the server closes
(`SocketClient.cpp:63`); `SocketServer.hpp` and `SocketClient.hpp` document 1 as the
result of functions that return 0. The IMU variant of the TCP client and the UDP
client print buffers without a NUL (`client.c:21`, `client.c:30`); nothing limits the
UDP client's wait behind the first datagram. `gps_analyse.c` labels the C/N0 of a
satellite as the next one's number, and a record of the GPS log ends with a byte of an
earlier one (`serial.c:232`).

## Fairness

- XbusParser: `processBufferedData` runs on, and a caller that polls reads bytes
  that keep waiting (`readData` blocks up to its timeout until one is there):
  strong fairness, as the read is only possible between calls.
- DeviceSession: the program polls on, the device answers, a message that has
  arrived is read in the end. Losing, sampling and the key press are not fair.
- SerialInterface and UsbInterface: a call that has begun takes its next system
  call. Nobody has to begin one; failures, unplugging and the end of a timeout are
  not fair, so that `CallsEnd` holds also if the time is never over.
- CameraLink: both processes run on. Resets, refusals and the camera's
  failure are not forced: the server's fairness is one condition over all its
  steps.
- TcpTransfer: the server is started at some time, serves on, clients run on, time
  passes. No failure is fair. The program that is served need not print another line nor
  end: the simulated sensors (`simulate_output/time_out.c:11`) go on for ever, the IMU
  program until a key is pressed, and a client behind such a run waits as long as the
  client served stays. `EveryClientEnds` has it as its premise that the server is,
  again and again, not serving.
- UdpTransfer: a process that waits takes a datagram that stays, forks and starts
  its program, the alarm rings. Programs need not end, nor datagrams arrive.
- GpsLogger: the logger is started and runs on; the receiver sends on.
- XbusMessage, DataPacket, LegacyPacket, PacketStamper and FileInterface: none; they
  are sequential objects whose caller may stop at any time.

Safety properties do not depend on it.

## Proofs

Eight modules hold theorems, each for every value of the constants that the named
assumptions allow. Those say that sizes are natural numbers, sets of clients finite,
marks like `None` apart from values, and the like; TLC evaluates them in the runs.
Where a theorem needs more, it is named here.

Xbus_proofs, parser, for every set of streams and every read size:

- `ParserInvariant`: `ParserInv` is inductive. The interesting part is `ScanInv`:
  between `Base` and `pre` no whole message starts, so the first one accepted is
  the first one there is; it needs `LocationSound` and `NothingLeftBehind` to carry
  over the return of `findMessage` and the pop of the buffer, and `popped = 0`
  between calls.
- `ParserTypeOK`, `ParserLocationSound`, `ParserNothingLeftBehind` from it.
- `ParserImplementsStream`: every step of the parser is a `Receive`, a `Deliver` or
  a stutter of XbusStream.
- `ParserSpansSound`, `ParserLostOnlyByOverlap`, `ParserCleanStreamExact`,
  `ParserBufferBounded`, which are proved of the stream (`StreamSpansSound` and the
  others) and carried over by the refinement.

Xbus_proofs, messages, for every id, offset, count and value and every size up to
`XS_MAXDATALEN`: `SettersReadable` and `DeleteUndoes`. Every message is
`Assembled` from a bus id, a message id, data and a checksum (`IsMessage`); sums of
bytes are differences of sums of prefixes (`Sums`), so that what a setter
adds to the checksum is what it changes in the bytes, and a message is readable if and
only if checksum and sum are balanced (`Balanced`). `SettersKeepReadable` also
covers the two sizes at which the header changes its form.

DeviceSession_proofs, for any number of samples and losses: `AcknowledgedIsTrue`,
`RowsAreFresh` and `NoGap`. The invariant, `SessionInv`, says for each message under
way what it means for the device's state: a request under way is the one waited for,
and one request or its answer is under way at a time (`InFlight`); what has been
answered is true of the device (`DeviceSet`); the answer to the first request is the
last message from before, and all samples behind it were taken with the configuration
asked for, with the settings and the mode the device has now (`Fresh`, in `FirstIsLast`
and `SamplesUnderWay`). That is why dropping everything up to an
answer drops no sample of the run.

The same module has PacketStamper, for every boundary and every bound on the counts:
`StamperInv` is inductive (`StamperInvariant`): all ids differ from the device's count
by the same multiple of the boundary, so that the low bits of the newest id are those of
its packet's counter, which is what `calculateLargePacketCounter` needs to tell the
direction of a wrap (`CounterExact`). From it `StamperTypeOK`,
`StamperExactDifferences` and `StamperHighestIsNewest`. The assumption is `InWindow`:
packets less than half a wrap late or early.

DeviceStreams_proofs, for any set of objects, options and interfaces: `OneHasThePort`,
`NothingIsMissed`, `LinesAreSet`, `DeviceIsWhole` and `DriversReturn`. `StreamInv` is the
conjunction of `SerialInv` (whoever is between `flock` and `close` owns the lock; a
session begins with a flush, and from there on sees all) and of the lines being as asked
(together `LineInv`), and of `UsbInv` (an object whose claiming loop is at an interface
holds those before it, and one that is open all).
`DriversReturn` says that when nobody has the device open the drivers are back, but for
those of the interfaces that a failing `open` has left: an interface that is neither with
its driver nor claimed nor left is owed by an object that is about to claim it or to give
it back (`DriversOwed`, in `DriverInv`).

The same module has GpsLogger, for any total, room and lengths of sentences:
`NeverStepsOver` and `WholeRecords`. `GpsInv` says that while nothing disturbs the
logger, what it has still to read is a suffix of sentences (`Lines`), and it stands
between two lines once it has counted; with the total reached, before a line
that it does not count. The condition `Undisturbed` is part of the properties.
`GpsAssumption` has it that the lengths that are logged begin at 1.

Network_proofs, for any number of parts, frames, cuts and losses: `ShownIsTransmitted`.
`CameraInv` counts parts: what the client has taken and what is in the connection
add up to what the server gave (`Flow`), and part by part the client's buffer is that of
the image after the last one shown (`Packet`).

TcpTransfer_proofs, for any number of clients, lines and any buffer: `OneRunForEach`
and `DoneHasAll`. `TcpInv` is about what a client has received and what is under way
to it, taken together: it is the beginning of one run, which is no other client's, up
to the line the server is at; whoever waits was given nothing. `OutputInv` says that
the output is what was received, with pieces between in the file of a recorder.
`LateIsSoonEnough` is for every MAXSLEEP that is a power of two (`BackoffAssumption`; 128
in the code): delays double, so that those behind a client add up to one
second less than its next one, which divides MAXSLEEP (`Waited`, in `BackoffInv`).

Network_proofs, for any number of clients: `OnePairForEach` and `LinesAreOwn`.
`PairInv` says that a client that has yet to be served is served by nobody, whoever
has taken a request is alone, and two processes that serve one client run different
programs; `LineInv` that a line under way is of a run in the history, one of those its
process has sent, and is there once.

FileInterface_proofs, for files, data and blocks of any size: `ObjectInStep` and
`FileImplementsByteFile`. `FileInv` adds to `InStep` that the bytes not yet written out
lie inside the file and that the end-of-file flag stands only while the object reads,
with the stream at the end or behind it. `Moved` is the invariant of the loop of
`insertData` (what it has moved stands as many bytes further on as are inserted, what
it holds comes next, and nothing behind that has been touched); `InsertCopies` has from
it that the call moves all bytes. `MatchedIs` is what the loop of `find` has found.

DataPacket_proofs, for any number of packets: `OneSampleTime`, `LastToldIsRead` and
`DirectionsKept`.
`OneSampleTime` is `TimesStayTrue`: `TimeInv(TRUE)` says that where there is a 64-bit
time, coarse and fine are its parts, `TimeInv(FALSE)` only their types; every step but the
message keeps either, as `merge` keeps one of two, and division gives back what
`setSampleTime64` took apart. `ReadInv` is `Good(p, t)` of every packet `p` and what it
was told, `t`, for each group: one counter; one status item where the status is known;
either all raw data in one item or parts whose values are known; values that have lost
nothing if they are accelerations or places. Each setter, `merge`, clearing, loading
and sending has a lemma that it keeps `Good`; for `merge` it needs `Clash`, the cases in
which nothing is promised. `FormatAssumption` says that double precision holds every
value. `DirectionsKept` is for every rotation given as a quaternion of integers other
than 0: its invariant has the orientation items of a packet agree with what it was told,
in whichever of the three forms, and the lemmas are those of the product of quaternions
(`preRotFromXdi` to a system and back is a multiple of what it began with) and of
the product of a turn's matrix with another. In these theorems the group `legacy` is
excluded: there the packets come from LegacyPacket, and PacketConversion_proofs has it.

PacketConversion_proofs, for any number of devices, any formats, and any calls of setters:

- `TablesAreGood` is about `updateInfoList` alone: the items of a message ascend in one
  order whatever the format (`LayoutIs`), each begins where the one before it
  ends (`BeginsAre`), the devices' data follow one another, and so each item that a
  device sends has its place, where it spells what was sent (`MessageIs`), apart from all
  others but for a counter with two names.
- `LegacyKept` has `LegacyInv` for its invariant. It says where items may be
  (`PlacesGood`): one in the device's precision where the table of its format has it, one in
  double precision behind all that was sent, no two of those with a byte in common; which
  items are there together (`KinGood`); that an item's bytes spell the value it was told,
  in the precision that its offset tells (`ValueGood`); and that the original of
  what was moved still spells what was sent (`OriginGood`), for when `setDataFormat`
  makes the tables anew. Every setter makes a packet ready (`Appended`, `Named`), which
  moves no other item, and writes one or several items in it (`WrittenIs`,
  `WrittenAllIs`), which touches no byte of another; `Rewritten` puts the two together.

- `ConvertedIsRead`, `ConvertedDirections` and `ConvertedTimes` are the properties of data
  packets for `ConversionSpec`, the group `legacy` included: a packet that `Assign` makes
  of a legacy packet reads as the device told it. `ConversionInv` is `LegacyInv` with
  `Converted` of each packet, and `ReadInv` in the other groups. `TakenIs` says what each
  question makes and that it touches nothing else; an item is then as the last question
  that may change it leaves it (`LastAnswer`), which decides between SDI data and the
  counter and the calibrated magnetic field (`TwiceMade`), between the pressures of a
  barometer that reads something and of a GPS receiver (`PressureMade`),
  between byte and word of a status (`StatusMade`) and between the forms of an orientation
  (`FormMade`). `SaidsAre` has what the getters of the legacy packet give from `LegacyInv`,
  and only a matrix or a velocity may be open (`OpenRare`). `ToldAssumption` keeps `None`
  and `Open` apart from what is told in this group.

Only model-checked: all liveness (`CallsEnd`, `WaitsEnd` and the like), as fairness is
beyond the prover.

## Not modelled

- Pressure sensor: straight sequences of transfers on a bus without a branch on what
  they read; what could be said of them is the arithmetic of a calibration.
- `getProductCode`, which the program does not call, and what `openPort` prints.
- XsMessage's typed getters and fixed-point conversions (models use that a value in a
  format reads as it was rounded).
- Of data packets, items with one setter and one getter of the same form; of legacy
  packets, device ids, times of arrival, triggers, and an MTw's status byte.
- What the ROS bridge publishes, which ROS delivers; the labels `gps_analyse` prints.
- The Windows branches, the logs of `LOG_RX_TX`, the text mode of `XsFile`.
- The contents of frames, lines and samples: each is a name.
- Containers and mathematics of xstypes, and `xssocket`, `xsthread`, `xslibraryloader`
  and the USB enumeration: vendored code without state shared between parts, or
  wrappers of the operating system that no program here uses.
- The XIMEA wrapper (a getter and a setter for each parameter of the camera) and the
  catkin build tree: vendored or generated. They are most of the repository's lines.
