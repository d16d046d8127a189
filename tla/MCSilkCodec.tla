----------------------------- MODULE MCSilkCodec -----------------------------
(***************************************************************************)
(* Instances for TLC of the parts of libsilk that keep both ends in step:  *)
(* the range coder, the coding of the excitation with it, its quantiser,   *)
(* the gains, the filters' frequencies, packets, the encoder's sampling    *)
(* rate, and the resamplers at either end.  A behaviour is one of one      *)
(* part.                                                                   *)
(***************************************************************************)
EXTENDS Integers, Sequences, SilkNLSFTables

CONSTANTS
  B, MAX_ARITHM_BYTES, Cdf, MaxSymbols,                     (* SilkRangeCoder *)
  Blocks, MaxPulses, Amplitude, RateLevel,                  (* SilkPulses     *)
  SubfrLength, DECISION_DELAY, PitchLags, States, Cost,     (* SilkQuantizer  *)
  PENALTY,
  Rate, PacketFrames, MAX_FRAMES_PER_PACKET, Numbers,       (* SilkPacket     *)
  NO_SPEECH_FRAMES_BEFORE_DTX, MAX_CONSECUTIVE_DTX,
  Setting, TRANSITION_FRAMES_DOWN, TRANSITION_FRAMES_UP,    (* SilkBandwidth  *)
  ACCUM_BITS_DIFF_THRESHOLD, MaxDeficit,
  N_LEVELS_QGAIN, MIN_DELTA_GAIN_QUANT,                     (* SilkGains      *)
  MAX_DELTA_GAIN_QUANT, Subframes, FramesInPacket, GainIncrease, LoudestIndex,
  SampleRate, InternalRate, MaxInput                        (* SilkResampler  *)

ASSUME CoderAssumption == B \in Nat \ {0} /\ MAX_ARITHM_BYTES \in Nat \ {0}
ASSUME PulsesAssumption ==
  /\ Blocks \in Nat \ {0} /\ MaxPulses \in Seq(Nat \ {0}) /\ Len(MaxPulses) > 0
  /\ Amplitude \subseteq Int
ASSUME QuantizerAssumption ==
  /\ SubfrLength \in Nat \ {0} /\ DECISION_DELAY \in Nat \ {0} /\ PENALTY \in Nat
  /\ States \subseteq Nat \ {0}
  /\ \A lags \in PitchLags : \A k \in 0..3 : lags[k] > 3
  /\ \A c \in Cost : 0 <= c[1] /\ c[1] <= c[2] /\ 4 * SubfrLength * c[2] < PENALTY
ASSUME PacketAssumption ==
  /\ MAX_FRAMES_PER_PACKET \in Nat \ {0} /\ PacketFrames \subseteq 1..MAX_FRAMES_PER_PACKET
  /\ NO_SPEECH_FRAMES_BEFORE_DTX \in Nat /\ MAX_CONSECUTIVE_DTX \in Nat /\ Numbers \in Nat
  /\ MAX_FRAMES_PER_PACKET <= NO_SPEECH_FRAMES_BEFORE_DTX
  /\ 2 * MAX_FRAMES_PER_PACKET <= Numbers
ASSUME BandwidthAssumption ==
  /\ TRANSITION_FRAMES_DOWN \in Nat \ {0} /\ TRANSITION_FRAMES_UP \in Nat \ {0}
  /\ ACCUM_BITS_DIFF_THRESHOLD \in Nat
  /\ MaxDeficit \in Nat /\ MaxDeficit >= ACCUM_BITS_DIFF_THRESHOLD
  /\ Setting \subseteq [API_fs_kHz : {8, 12, 16, 24, 32, 44, 48},
                       max_fs_kHz : {8, 12, 16, 24}, kbps : Nat]
ASSUME GainsAssumption ==
  /\ MIN_DELTA_GAIN_QUANT < 0 /\ 0 < MAX_DELTA_GAIN_QUANT
  /\ LoudestIndex + MIN_DELTA_GAIN_QUANT <= N_LEVELS_QGAIN - 1
ASSUME RatesAssumption ==
  /\ SampleRate \subseteq {100 * x : x \in 80..480}
  /\ InternalRate \subseteq {8, 12, 16, 24} /\ MaxInput \in Nat

VARIABLES
  part,                  (* which part of the library the behaviour is of   *)
  pc, enc, dec, call, net

vars == <<part, pc, enc, dec, call, net>>

R == INSTANCE SilkRangeCoder
P == INSTANCE SilkPulses WITH q <- enc, d <- dec, payload <- net
N == INSTANCE SilkQuantizer WITH frame <- call, nsq <- enc
K == INSTANCE SilkPacket
W == INSTANCE SilkBandwidth
G == INSTANCE SilkGains
F == INSTANCE SilkNLSF WITH st <- enc
Z == INSTANCE SilkResampler WITH ran <- net

(* What the resamplers' arithmetic has to give, at all the rates there are.*)
ASSUME RatiosAssumption == Z!RatiosExact

RATES == {"encoder's rates", "decoder's rates"}

Init ==
  \/ part = "range coder" /\ R!Init /\ call = 0 /\ net = 0
  \/ part = "pulses"      /\ P!Init /\ call = 0
  \/ part = "quantiser"   /\ N!Init /\ net = 0
  \/ part = "packets"     /\ K!Init /\ pc = 0
  \/ part = "bandwidth"   /\ W!Init /\ pc = 0 /\ dec = 0 /\ net = 0
  \/ part = "gains"       /\ G!Init /\ pc = 0 /\ call = 0
  \/ part = "filters"     /\ F!Init /\ dec = 0 /\ call = 0 /\ net = 0
  \/ part \in RATES       /\ Z!Init /\ pc = 0

Next ==
  /\ part' = part
  /\ \/ part = "range coder" /\ R!Next /\ UNCHANGED <<call, net>>
     \/ part = "pulses"      /\ P!Next /\ UNCHANGED call
     \/ part = "quantiser"   /\ N!Next /\ UNCHANGED net
     \/ part = "packets"     /\ K!Next /\ UNCHANGED pc
     \/ part = "bandwidth"   /\ W!Next /\ UNCHANGED <<pc, dec, net>>
     \/ part = "gains"       /\ G!Next /\ UNCHANGED <<pc, call>>
     \/ part = "filters"     /\ F!Next /\ UNCHANGED <<dec, call, net>>
     \/ part = "encoder's rates" /\ Z!EncoderNext /\ UNCHANGED pc
     \/ part = "decoder's rates" /\ Z!DecoderNext /\ UNCHANGED pc

Spec == Init /\ [][Next]_vars

-----------------------------------------------------------------------------
(* A byte of two bits, so that carries, shifts and the end of the buffer   *)
(* come early; symbols of 1/15 and of 14/15 among others.                  *)
Distributions == {<<0, 1, 15>>, <<0, 8, 15>>, <<0, 14, 15>>, <<0, 5, 10, 15>>}

(* Blocks of four samples, of which two may add up to 3 and four to 4.     *)
Most == <<3, 4>>
Samples == {-5, 0, 3}

(* Pitch lags that allow to wait for two samples, and for one; a decision  *)
(* that is as good as the best, or not, and the other one.                 *)
Lags == {[k \in 0..3 |-> 5], [k \in 0..3 |-> IF k < 2 THEN 5 ELSE 4]}
Costs == {<<0, 1>>, <<1, 1>>}

(* API and internal rates that force the encoder down, bit rates below,    *)
(* between and above the thresholds.                                       *)
Settings == [API_fs_kHz : {8, 16, 48}, max_fs_kHz : {12, 24}, kbps : {8, 16, 32}]

(* A gain falls by one level at most, of five; the largest is above them.  *)
MinDelta == -1

(* All distances that three frequencies have room for, and frequencies of  *)
(* which some are beyond the borders.                                      *)
Least == {delta \in [0..3 -> 1..3] : delta[0] + delta[1] + delta[2] + delta[3] <= 8}
Frequencies == -1..9

-----------------------------------------------------------------------------
(* The decoder reads the symbols the encoder wrote (SilkRangeCoder), from  *)
(* them the excitation (SilkPulses), and plays of it what the encoder      *)
(* quantised (SilkQuantizer), with the gains it did (SilkGains), through a *)
(* filter that is stable (SilkNLSF).                                       *)
RoundTrip ==
  /\ part = "range coder" => R!SymbolsBack
  /\ part = "pulses" => P!PulsesBack
  /\ part = "quantiser" => N!HeardAsQuantised
  /\ part = "gains" => G!GainsBack
  /\ part = "filters" => F!StableFilter /\ F!IInv

(* Frames are decoded in the context they were coded in (SilkPacket).      *)
PacketsUnderstood == part = "packets" => K!PacketsUnderstood /\ K!PacketInv

(* No jump of the audible band that no call forces (SilkBandwidth).        *)
BandwidthSound == [][part = "bandwidth" => W!BandSmooth /\ W!BandInv']_vars

(* No sample is lost or made up between the callers' rate and the internal *)
(* one, whenever either changes (SilkResampler).                           *)
SamplesCounted == part \in RATES => Z!SamplesCounted /\ Z!RatesInv

=============================================================================
