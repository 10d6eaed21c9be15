\* Two objects on one USB device with three interfaces; an open that fails in its loop.
SPECIFICATION DeviceSpec
CONSTANTS
  Devices = {"imu"}
  Users = {u1, u2}
  Options <- LineOptions
  MaxLength = 2
  MaxBytes = 2
  MaxOutput = 1
  UsbUsers = {u1, u2}
  NumInterfaces = 3
  UsbMaxLength = 2
  UsbMaxBytes = 2
  Nobody = Nobody
  Sentences = {1, 2}
  Piece = 20
  Low = 30
  High = 90
  Total = 3
  Room = 4
INVARIANTS
  DriversReturned
CHECK_DEADLOCK FALSE
