\* Two objects on one port, a serial one or a USB device with three interfaces;
\* sentences of 22 and 42 bytes for a GPS logger that ends after three records.
SPECIFICATION DeviceSpec
CONSTANTS
  Devices = {"imu", "gps"}
  Users = {u1, u2}
  Options <- LineOptions
  MaxLength = 2
  MaxBytes = 2
  MaxOutput = 1
  UsbUsers = {u1, u2}
  NumInterfaces = 3
  UsbMaxLength = 2
  UsbMaxBytes = 2
  Nobody = Nobody
  Sentences = {1, 2}
  Piece = 20
  Low = 30
  High = 90
  Total = 3
  Room = 4
INVARIANTS
  Exclusive
  SeesAll
  LinesAsAsked
  PortIsWhole
  DriversBack
  NeverPastTotal
  RecordsWhole
PROPERTIES
  CallsEnd
  LoggerEnds
CHECK_DEADLOCK FALSE
