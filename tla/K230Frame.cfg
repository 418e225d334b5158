SPECIFICATION Spec
CONSTANTS
  Byte = {0, 1, 2, 3}
  STX = 3
  ETX = 2
  MaxPayload = 1
  Frames <- MCFrames
  Crc <- MCCrc
  MaxSent = 2
  MaxNoise = 2
INVARIANT BufferFits
PROPERTY CarriesFrames
