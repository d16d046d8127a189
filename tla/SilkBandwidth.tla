---------------------------- MODULE SilkBandwidth ----------------------------
(***************************************************************************)
(* The internal sampling rate of libsilk's encoder                         *)
(* (SKP_Silk_control_audio_bandwidth.c, the part of                        *)
(* SKP_Silk_control_codec_FIX.c that sets it, SKP_Silk_LP_variable_cutoff.c*)
(* and SKP_Silk_detect_SWB_input.c).  The rate follows the bit rate down   *)
(* and up a ladder of four, but only between utterances, and only when a   *)
(* low-pass filter has closed over seconds of frames, or opens over them.  *)
(***************************************************************************)
EXTENDS Integers

CONSTANTS
  Setting,        (* what calls may ask for: API_fs_kHz, max_fs_kHz, kbps   *)
  TRANSITION_FRAMES_DOWN, TRANSITION_FRAMES_UP,
  ACCUM_BITS_DIFF_THRESHOLD,   (* in kbps of a packet                       *)
  MaxDeficit      (* bound: bitrateDiff, which the code lets grow unbounded *)

VARIABLES
  call,           (* what the call in progress asks for, <<>> between calls *)
  enc             (* the encoder: fs_kHz, bitrateDiff, vadFlag, mode,       *)
                  (* transition_frame_no, WB_detected, SWB_detected, and    *)
                  (* enoughSpeech for what ActiveSpeech_ms is compared with *)

vars == <<call, enc>>

Lower == [f \in {12, 16, 24} |-> CASE f = 24 -> 16 [] f = 16 -> 12 [] f = 12 -> 8]
Higher == [f \in {8, 12, 16} |-> CASE f = 8 -> 12 [] f = 12 -> 16 [] f = 16 -> 24]

(* bitrate_threshold_down and bitrate_threshold_up, in kbps.               *)
Down == [f \in {8, 12, 16, 24} |-> CASE f = 24 -> 25 [] f = 16 -> 14 [] f = 12 -> 10 [] f = 8 -> 0]
Up   == [f \in {8, 12, 16} |-> CASE f = 16 -> 30 [] f = 12 -> 18 [] f = 8 -> 14]

Lesser(a, b)  == IF a < b THEN a ELSE b
Greater(a, b) == IF a > b THEN a ELSE b

(* What the call leaves possible.                                          *)
Limit(s) == Lesser(s.API_fs_kHz, s.max_fs_kHz)

(* mutant: a new rate leaves the filter as it was                          *)
SetUpRateOnly(e, fs) == [e EXCEPT !.fs_kHz = fs]

(* SKP_Silk_setup_fs_FIX: a new rate restarts or ends the transition.      *)
SetUp(e, fs) ==
  IF fs = e.fs_kHz THEN e
  ELSE [e EXCEPT !.fs_kHz = fs, !.transition_frame_no = IF e.mode = 1 THEN 1 ELSE 0]

-----------------------------------------------------------------------------
(* SKP_Silk_control_audio_bandwidth, when the encoder has a rate that the  *)
(* call allows.                                                            *)

(* The first rate: the one the bit rate is enough for.                     *)
Initial(s) ==
  Lesser(Limit(s), CASE s.kbps >= 25 -> 24 [] s.kbps >= 14 /\ s.kbps < 25 -> 16
                     [] s.kbps >= 10 /\ s.kbps < 14 -> 12 [] s.kbps < 10 -> 8)

Accumulated(e, s) ==
  [e EXCEPT !.bitrateDiff =
     Greater(Lesser(@ + (s.kbps - Down[e.fs_kHz]), 0), -MaxDeficit)]

StartsDown(e) ==
  /\ e.transition_frame_no = 0
  /\ \/ e.bitrateDiff <= -ACCUM_BITS_DIFF_THRESHOLD
     \/ e.WB_detected /\ e.fs_kHz = 24

EndsDown(e) == e.transition_frame_no >= TRANSITION_FRAMES_DOWN /\ e.mode = 0

(* In silence: begin the transition down, or step down at its end.  At     *)
(* 8 kHz there is no step: SKP_assert( fs_kHz == 12 ) would fail.          *)
SteppedDown(e) ==
  CASE StartsDown(e) ->
         [st |-> [e EXCEPT !.transition_frame_no = 1, !.mode = 0], fs |-> e.fs_kHz]
    [] ~StartsDown(e) /\ EndsDown(e) ->
         [st |-> [e EXCEPT !.transition_frame_no = 0, !.bitrateDiff = 0],
          fs |-> IF e.fs_kHz = 8 THEN 8 ELSE Lower[e.fs_kHz]]
    [] OTHER -> [st |-> e, fs |-> e.fs_kHz]

StepsUp(e, s) ==
  /\ e.fs_kHz < Limit(s) /\ e.fs_kHz \in DOMAIN Up
  /\ s.kbps >= Up[e.fs_kHz]
  /\ ~(e.WB_detected /\ e.fs_kHz >= 16)
  /\ e.transition_frame_no = 0

(* A step up is to a rate the call allows, whatever stepped down before.   *)
SteppedUp(e, fs, s) ==
  IF StepsUp(e, s) THEN [st |-> [e EXCEPT !.mode = 1, !.bitrateDiff = 0],
                         fs |-> Higher[e.fs_kHz]]
  ELSE [st |-> e, fs |-> fs]

Switched(e, s) ==
  IF s.API_fs_kHz <= 8 THEN [st |-> e, fs |-> e.fs_kHz]
  ELSE LET a == Accumulated(e, s)
           d == SteppedDown(a)
       IN  IF e.vadFlag THEN [st |-> a, fs |-> a.fs_kHz] ELSE SteppedUp(d.st, d.fs, s)

(* The filter is done opening.                                             *)
Opened(e) ==
  IF e.mode = 1 /\ e.transition_frame_no >= TRANSITION_FRAMES_UP /\ ~e.vadFlag
  THEN [e EXCEPT !.transition_frame_no = 0] ELSE e

Init ==
  /\ call = <<>>
  /\ enc = [fs_kHz |-> 0, bitrateDiff |-> 0, vadFlag |-> FALSE, mode |-> 0,
            transition_frame_no |-> 0, WB_detected |-> FALSE, SWB_detected |-> FALSE,
            enoughSpeech |-> FALSE]

(* SKP_Silk_detect_SWB_input: energy above 8 kHz long enough, or speech    *)
(* enough without.                                                         *)
Detected(e, swb) ==
  [e EXCEPT !.SWB_detected = swb, !.WB_detected = e.enoughSpeech /\ ~swb]

(* SKP_Silk_SDK_Encode: the rate, and the look for the band of the input   *)
(* until it is known.                                                      *)
Control(s) ==
  /\ call = <<>> /\ call' = <<s>>
  /\ LET now == CASE enc.fs_kHz = 0        -> SetUp(enc, Initial(s))
                  [] enc.fs_kHz > Limit(s) -> SetUp(enc, Limit(s))
                  [] OTHER -> LET w == Switched(enc, s) IN SetUp(Opened(w.st), w.fs)
     IN  IF Limit(s) = 24 /\ ~now.SWB_detected /\ ~now.WB_detected
         THEN \E swb \in BOOLEAN : enc' = Detected(now, swb)
         ELSE enc' = now

(* SKP_Silk_LP_variable_cutoff, the voice activity, and ActiveSpeech_ms.   *)
EncodeFrame ==
  /\ call # <<>> /\ call' = <<>>
  /\ \E voice, enough \in BOOLEAN :
       LET last == IF enc.mode = 0 THEN TRANSITION_FRAMES_DOWN ELSE TRANSITION_FRAMES_UP
       IN  /\ enough => voice
           /\ enc' = [enc EXCEPT
                        !.vadFlag = voice,
                        !.enoughSpeech = @ \/ enough,
                        !.transition_frame_no = IF @ \in 1..(last - 1) THEN @ + 1 ELSE @]

Next == EncodeFrame \/ \E s \in Setting : Control(s)

-----------------------------------------------------------------------------
(* The band the encoder lets through: closed where a step down ends and a  *)
(* step up begins, open where there is no filter.                          *)
Closed(e) == \/ e.mode = 0 /\ e.transition_frame_no = TRANSITION_FRAMES_DOWN
             \/ e.mode = 1 /\ e.transition_frame_no = 1
Open(e)   == \/ e.transition_frame_no = 0
             \/ e.mode = 1 /\ e.transition_frame_no = TRANSITION_FRAMES_UP

(* The filter always has coefficients (the assertions of                   *)
(* SKP_Silk_LP_variable_cutoff), a frame has no higher rate than the call  *)
(* allows, and wide-band input is not coded at 24 kHz again once it is     *)
(* coded lower.                                                            *)
FilterDefined ==
  /\ enc.transition_frame_no \in 0..(IF enc.mode = 0 THEN TRANSITION_FRAMES_DOWN
                                                     ELSE TRANSITION_FRAMES_UP)
  /\ call # <<>> => enc.fs_kHz <= Limit(call[1])

(* The audible band never jumps unless the call forces it: the rate goes   *)
(* down one step under a closed filter, up one under a filter that closes, *)
(* both in silence; at one rate the filter moves a frame at a time, and    *)
(* turns round only where it is open.                                      *)
BandSmooth ==
  enc.fs_kHz # 0 /\ ~(call' # <<>> /\ enc.fs_kHz > Limit(call'[1])) =>
    \/ /\ enc'.fs_kHz = enc.fs_kHz
       /\ \/ enc'.mode = enc.mode
             /\ enc'.transition_frame_no \in
                  {enc.transition_frame_no, enc.transition_frame_no + 1}
          \/ Open(enc) /\ (Open(enc') \/ enc'.transition_frame_no = 1)
          \/ enc.fs_kHz = 8
    \/ /\ ~enc.vadFlag
       /\ \/ enc.fs_kHz > 8 /\ enc'.fs_kHz = Lower[enc.fs_kHz] /\ Closed(enc) /\ Open(enc')
          \/ /\ enc.fs_kHz < 24 /\ enc'.fs_kHz = Higher[enc.fs_kHz]
             /\ Open(enc) \/ Closed(enc)
             /\ Closed(enc') /\ ~(enc.WB_detected /\ enc'.fs_kHz = 24)

(* The inductive invariant: the rate is one of the ladder, of which the    *)
(* rate a call allows is one too, and the filter is where its mode lets it *)
(* be.                                                                     *)
TypeOK ==
  /\ call \in {<<>>} \cup {<<s>> : s \in Setting}
  /\ enc \in [fs_kHz : {0, 8, 12, 16, 24}, bitrateDiff : Int, vadFlag : BOOLEAN,
              mode : {0, 1}, transition_frame_no : Nat, WB_detected : BOOLEAN,
              SWB_detected : BOOLEAN, enoughSpeech : BOOLEAN]

BandInv == TypeOK /\ FilterDefined

=============================================================================
