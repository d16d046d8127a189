\* Encoder: chunks shorter and much longer than a frame, frames small and large.
\* Decoder: up to four frames, one of them may be damaged, chunks of any length.
CONSTANTS
  FRAME = 2
  ChunkLen = {0, 1, 3, 14}
  CodeLen = {0, 680, 1250}
  EncodeMayFail = TRUE
  MaxBytes = 20
  INBLOCK = 3
  OUTBLOCK = 4
  FrameLen = {0, 1, 2, 5}
  PcmLen = {0, 3, 4}
  PieceLen = {1, 2, 3, 7, 12}
  DecodeMayFail = TRUE
  MaxFrames = 4
SPECIFICATION CodecSpec
CHECK_DEADLOCK FALSE
INVARIANTS
  TypesOK
  NothingLost
  OutFits
  LagBounded
  StreamDecoded
