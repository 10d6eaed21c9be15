\* What setDeviceMode leaves in the device.
SPECIFICATION Spec
CONSTANTS
  Kinds <- AllKinds
  MaxSamples = 1
  MaxLost = 0
  Noisy = TRUE
INVARIANT DeviceModeSet
CHECK_DEADLOCK FALSE
