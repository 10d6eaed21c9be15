\* Two objects on one serial port; a read that fails in waitForData.
SPECIFICATION DeviceSpec
CONSTANTS
  Devices = {"imu"}
  Users = {u1, u2}
  Options <- LineOptions
  MaxLength = 2
  MaxBytes = 2
  MaxOutput = 1
  UsbUsers = {u1, u2}
  NumInterfaces = 3
  UsbMaxLength = 2
  UsbMaxBytes = 2
  Nobody = Nobody
  Sentences = {1, 2}
  Piece = 20
  Low = 30
  High = 90
  Total = 3
  Room = 4
PROPERTIES
  WaitOkIsWhole
CHECK_DEADLOCK FALSE
