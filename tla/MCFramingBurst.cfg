CONSTANTS
  Packets <- MCPlainPackets
  Noise = {}
  Size = 16
  Modulus = 64
  MinLen = 8
  MaxLen = 32
  MaxBurst = 32
  MaxSends = 3
SPECIFICATION Spec
INVARIANT
  TogetherDelivered
CHECK_DEADLOCK FALSE
