\* Refuted: what is left of the last frame is not uploaded.
CONSTANTS
  FRAME = 2
  ChunkLen = {1, 3}
  CodeLen = {600, 1250}
  EncodeMayFail = FALSE
  MaxBytes = 8
SPECIFICATION Spec
CHECK_DEADLOCK FALSE
INVARIANTS
  TailUploaded
