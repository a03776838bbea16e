CONSTANTS
  Packets <- MCPackets
  Noise <- MCNoise
  Size = 16
  Modulus = 64
  MinLen = 8
  MaxLen = 32
  MaxBurst = 16
  MaxSends = 4
SPECIFICATION Spec
INVARIANTS
  TypeOK
  MessagesSurvive
  AllDelivered
CHECK_DEADLOCK FALSE
