\* Range coder: streams of up to four symbols in five bytes of two bits.
\* Pulses: two blocks of four samples.  Quantiser: four subframes of
\* two samples, three paths.  Packets: of one and two frames, any
\* sequence of calls.  Bandwidth: transitions of two frames down, three up.
\* Gains: packets of two frames of two gains of five levels.  Filters:
\* of three frequencies.  Rates: all the encoder takes, calls of 10 to 40 ms.
CONSTANTS
  B = 2
  MAX_ARITHM_BYTES = 5
  Cdf <- Distributions
  MaxSymbols = 4
  Blocks = 2
  MaxPulses <- Most
  Amplitude <- Samples
  RateLevel = {0, 1}
  SubfrLength = 2
  DECISION_DELAY = 2
  PitchLags <- Lags
  States = {1, 3}
  Cost <- Costs
  PENALTY = 100
  Rate = {8, 12}
  PacketFrames = {1, 2}
  MAX_FRAMES_PER_PACKET = 2
  Numbers = 4
  NO_SPEECH_FRAMES_BEFORE_DTX = 2
  MAX_CONSECUTIVE_DTX = 1
  Setting <- Settings
  TRANSITION_FRAMES_DOWN = 2
  TRANSITION_FRAMES_UP = 3
  ACCUM_BITS_DIFF_THRESHOLD = 20
  MaxDeficit = 40
  N_LEVELS_QGAIN = 5
  MIN_DELTA_GAIN_QUANT <- MinDelta
  MAX_DELTA_GAIN_QUANT = 2
  Subframes = 2
  FramesInPacket = 2
  GainIncrease = {0, 2}
  LoudestIndex = 5
  L = 3
  ONE = 8
  NDeltaMin <- Least
  Given <- Frequencies
  MAX_LOOPS = 2
  SampleRate = {8000, 12000, 16000, 24000, 32000, 44100, 48000}
  InternalRate = {8, 12, 16, 24}
  MaxInput = 4
SPECIFICATION Spec
CHECK_DEADLOCK FALSE
INVARIANTS
  RoundTrip
  PacketsUnderstood
  SamplesCounted
PROPERTIES
  BandwidthSound
