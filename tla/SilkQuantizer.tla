---------------------------- MODULE SilkQuantizer ----------------------------
(***************************************************************************)
(* How libsilk quantises a frame (SKP_Silk_NSQ_del_dec.c, SKP_Silk_NSQ.c)  *)
(* and how the decoder makes sound of it again (SKP_Silk_decode_core.c).   *)
(*                                                                         *)
(* The encoder follows several paths of decisions at a time and settles a  *)
(* sample only decisionDelay samples later; each path has a seed of its    *)
(* own, and its dither depends on all it has decided.  The decoder knows   *)
(* the settled pulses and ONE seed.  What it plays is what the encoder     *)
(* predicted from only if all samples settled are of one path, and nothing *)
(* was predicted from samples not settled yet.                             *)
(*                                                                         *)
(* The sound of a sample is named by what it is computed from: the state   *)
(* of the dither, which is the seed and all pulses up to the sample, and   *)
(* whether the long-term prediction saw settled samples only.  SKP_RAND is *)
(* taken not to collide.                                                   *)
(***************************************************************************)
EXTENDS Integers, Sequences, SequencesExt

CONSTANTS
  SubfrLength,            (* samples of a subframe                          *)
  DECISION_DELAY,         (* length of the ring of unsettled samples        *)
  PitchLags,              (* pitchL: a lag for each subframe                *)
  States,                 (* nStatesDelayedDecision                         *)
  Cost,                   (* what the better decision and the other cost    *)
  PENALTY                 (* SKP_int32_MAX >> 4: more than a frame may cost *)

VARIABLES
  pc,                     (* "subframe", "sample", "quantised", "decoded"   *)
  frame,                  (* the side information of the frame              *)
  nsq,                    (* the encoder's quantiser                        *)
  dec                     (* what the decoder plays                         *)

vars == <<pc, frame, nsq, dec>>

NB_SUBFR  == 4
HALF      == 2                                      (* LTP_ORDER / 2        *)
Subframe  == 0..(NB_SUBFR - 1)
FrameLength == NB_SUBFR * SubfrLength
Slot      == 0..(DECISION_DELAY - 1)
Path      == 1..frame.states
Paths     == [k \in Path |-> k]
Least(S)  == CHOOSE x \in S : \A y \in S : x <= y

(* The first path of least, and of greatest, cost.                         *)
Best(RD(_))  == FoldLeft(LAMBDA b, k : IF RD(k) < RD(b) THEN k ELSE b, 1, Paths)
Worst(RD(_)) == FoldLeft(LAMBDA w, k : IF RD(k) > RD(w) THEN k ELSE w, 1, Paths)

(* SKP_RAND and the addition of the pulse, in one: the seed of the path    *)
(* and its pulses so far.                                                  *)
NextSeed(seed, q) == Append(seed, q)

-----------------------------------------------------------------------------
(* A frame: voiced or not, its lags, and the lag of the frame before it,   *)
(* which an unvoiced one shapes its noise with.                            *)
Frames ==
  [voiced : BOOLEAN, pitchL : PitchLags, lagPrev : {0} \cup {p[3] : p \in PitchLags},
   interpolated : BOOLEAN, states : States, delayed : BOOLEAN]

(* For voiced frames the delay is lower than the pitch lag, so that the    *)
(* long-term prediction finds settled samples.                             *)
decisionDelay ==
  LET lags == IF frame.voiced THEN {frame.pitchL[k] : k \in Subframe}
              ELSE {frame.lagPrev} \ {0}
  IN  Least({DECISION_DELAY, SubfrLength} \cup {lag - HALF - 1 : lag \in lags})

(* Every path begins with a seed of its own; the frame's is taken to be 0. *)
InitDelDec ==
  [k \in Path |-> [SeedInit |-> (k - 1) % 4, Seed |-> <<(k - 1) % 4>>, RD |-> 0,
                   ring |-> [s \in Slot |-> [q |-> 0, rand |-> <<>>, sound |-> TRUE]]]]

(* encode_frame quantises without delay when only one path is followed and *)
(* nothing is warped.                                                      *)
Init ==
  /\ pc = "subframe"
  /\ frame \in Frames
  /\ frame.delayed \/ frame.states = 1
  /\ ~frame.voiced => ~frame.interpolated /\ frame.pitchL = CHOOSE p \in PitchLags : TRUE
  /\ frame.voiced => frame.lagPrev = 0
  /\ nsq = [paths |-> InitDelDec, smpl_buf_idx |-> 0, n |-> 0, subfr |-> 0,
            whitened |-> TRUE, from |-> 0, q |-> <<>>, xq |-> <<>>, Seed |-> 0]
  /\ dec = <<>>

-----------------------------------------------------------------------------
(* SKP_Silk_NSQ_del_dec.                                                   *)

RD_Q10(k) == nsq.paths[k].RD

(* What the winner of all has decided of the last decisionDelay samples.   *)
Unsettled(path) ==
  [i \in 1..decisionDelay |->
     path.ring[(nsq.smpl_buf_idx + decisionDelay - i) % DECISION_DELAY]]

Settle(samples) ==
  [q  |-> nsq.q  \o [i \in DOMAIN samples |-> samples[i].q],
   xq |-> nsq.xq \o [i \in DOMAIN samples |-> [rand |-> samples[i].rand,
                                               sound |-> samples[i].sound]]]

(* Whether the pitch prediction of subframe k starts anew from the sound   *)
(* of the past: at the first, and in the middle when the filter changes.   *)
Rewhitens(k) == frame.voiced /\ (k = 0 \/ (k = 2 /\ frame.interpolated))

(* In the middle of a frame the delayed decisions are taken before.        *)
ResetDecisions ==
  LET winner == Best(RD_Q10)
      out    == Settle(Unsettled(nsq.paths[winner]))
  IN  [nsq EXCEPT !.paths = [k \in Path |-> [@[k] EXCEPT !.RD =
                               IF k = winner THEN @ ELSE @ + PENALTY]],
                  !.q = out.q, !.xq = out.xq, !.subfr = 0]

BeginSubframe ==
  /\ pc = "subframe" /\ pc' = "sample"
  /\ LET k     == nsq.n \div SubfrLength
         after == IF Rewhitens(k) /\ k = 2 /\ frame.delayed THEN ResetDecisions ELSE nsq
     IN  nsq' = IF Rewhitens(k)
                THEN [after EXCEPT !.whitened = Len(after.xq) = after.n, !.from = after.n]
                ELSE nsq
  /\ UNCHANGED <<frame, dec>>

(* The taps of the long-term prediction of the next sample are settled:    *)
(* those before the rewhitening were when it happened.                     *)
PredictedFromSettled ==
  LET last == (nsq.n + 1) - frame.pitchL[nsq.n \div SubfrLength] + HALF
  IN  frame.voiced =>
        nsq.whitened /\ (last <= nsq.from \/ last <= Len(nsq.xq))

(* States whose decision of the sample to be settled is not the winner's   *)
(* have expired: they must not win any more.                               *)
Expired(k, winner, slot) ==
  nsq.paths[k].ring[slot].rand # nsq.paths[winner].ring[slot].rand

(* A path goes on with one of its two candidates, the better of which is   *)
(* called 0 and the other 1, and remembers it in the slot of the newest.   *)
Extended(path, q, RD, slot) ==
  LET seed == NextSeed(path.Seed, q)
  IN  [path EXCEPT !.RD = RD, !.Seed = seed,
                   !.ring[slot] = [q |-> q, rand |-> seed, sound |-> PredictedFromSettled]]

Advance ==
  /\ pc' = CASE nsq'.n = FrameLength -> "end"
             [] nsq'.n % SubfrLength = 0 -> "subframe"
             [] OTHER -> "sample"
  /\ UNCHANGED <<frame, dec>>

(* One sample of SKP_Silk_noise_shape_quantizer_del_dec.  Only differences *)
(* of costs are compared: they are counted from the winner's.              *)
QuantizeDelayed ==
  /\ pc = "sample" /\ frame.delayed
  /\ \E cost \in [Path -> Cost] :
     LET newest   == (nsq.smpl_buf_idx - 1) % DECISION_DELAY
         last     == (newest + decisionDelay) % DECISION_DELAY
         first(k) == RD_Q10(k) + cost[k][1]
         winner   == Best(first)
         RD(k, q) == RD_Q10(k) + cost[k][q + 1]
                       + (IF Expired(k, winner, last) THEN PENALTY ELSE 0)
         worst    == Worst(LAMBDA k : RD(k, 0))
         best     == Best(LAMBDA k : RD(k, 1))
         replaces == RD(best, 1) < RD(worst, 0)
         settles  == nsq.subfr > 0 \/ nsq.n % SubfrLength >= decisionDelay
         out      == Settle(IF settles THEN <<nsq.paths[winner].ring[last]>> ELSE <<>>)
     IN  nsq' = [nsq EXCEPT
                   !.paths = [k \in Path |->
                     IF replaces /\ k = worst
                     THEN Extended(nsq.paths[best], 1, RD(best, 1) - first(winner), newest)
                     ELSE Extended(nsq.paths[k], 0, RD(k, 0) - first(winner), newest)],
                   !.smpl_buf_idx = newest, !.q = out.q, !.xq = out.xq,
                   !.n = @ + 1,
                   !.subfr = IF (nsq.n + 1) % SubfrLength = 0 THEN @ + 1 ELSE @]
  /\ Advance

(* One sample of SKP_Silk_noise_shape_quantizer: settled at once.          *)
QuantizePlain ==
  /\ pc = "sample" /\ ~frame.delayed
  /\ \E q \in {0, 1} :
     LET seed == NextSeed(nsq.paths[1].Seed, q)
         out  == Settle(<<[q |-> q, rand |-> seed, sound |-> PredictedFromSettled]>>)
     IN  nsq' = [nsq EXCEPT !.paths[1].Seed = seed, !.n = @ + 1,
                            !.q = out.q, !.xq = out.xq]
  /\ Advance

(* The end of the frame: the rest of the winner, and its seed.             *)
EndFrame ==
  /\ pc = "end" /\ pc' = "quantised"
  /\ nsq' = IF frame.delayed
            THEN LET path == nsq.paths[Best(RD_Q10)]
                     out  == Settle(Unsettled(path))
                 IN  [nsq EXCEPT !.q = out.q, !.xq = out.xq, !.Seed = path.SeedInit]
            ELSE nsq
  /\ UNCHANGED <<frame, dec>>

-----------------------------------------------------------------------------
(* SKP_Silk_decode_core: the excitation from the pulses and the seed, the  *)
(* predictions from what it has played.                                    *)
Decode ==
  /\ pc = "quantised" /\ pc' = "decoded"
  /\ dec' = [i \in 1..Len(nsq.q) |->
               [rand |-> <<nsq.Seed>> \o SubSeq(nsq.q, 1, i), sound |-> TRUE]]
  /\ UNCHANGED <<frame, nsq>>

Next == BeginSubframe \/ QuantizeDelayed \/ QuantizePlain \/ EndFrame \/ Decode

-----------------------------------------------------------------------------
(* All samples settled are of one path, predicted from settled ones; the   *)
(* decoder plays, sample by sample, what the encoder keeps as the past it  *)
(* predicts the next frame from; and no state is charged so often that its *)
(* cost leaves 32 bits.                                                    *)
HeardAsQuantised ==
  /\ \A i \in DOMAIN nsq.xq :
       /\ nsq.xq[i].sound
       /\ i > 1 => nsq.xq[i].rand = NextSeed(nsq.xq[i - 1].rand, nsq.q[i])
  /\ pc = "decoded" => dec = nsq.xq /\ Len(dec) = FrameLength
  /\ \A k \in DOMAIN nsq.paths : nsq.paths[k].RD < 16 * PENALTY

=============================================================================
