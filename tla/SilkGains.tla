------------------------------ MODULE SilkGains ------------------------------
(***************************************************************************)
(* The gains of libsilk (SKP_Silk_gain_quant.c), as the encoder            *)
(* (SKP_Silk_process_gains_FIX), its second coding of a packet             *)
(* (SKP_Silk_LBRR_encode_FIX) and the decoder (SKP_Silk_decode_parameters) *)
(* use them.  The first gain of a packet is coded for itself, any other as *)
(* the difference from the one before; each of the three keeps its own     *)
(* last index.  A packet may be lost, its second coding be decoded instead *)
(* or not.                                                                 *)
(*                                                                         *)
(* A gain is the index of its level; what the signal asks for is any       *)
(* index, before it is limited.                                            *)
(***************************************************************************)
EXTENDS Integers, Sequences, SequencesExt

CONSTANTS
  N_LEVELS_QGAIN, MIN_DELTA_GAIN_QUANT, MAX_DELTA_GAIN_QUANT,
  Subframes,      (* NB_SUBFR                                               *)
  FramesInPacket,
  GainIncrease,   (* what LBRR_GainIncreases may be; 0 also where the rate  *)
                  (* is so low that the second coding has the same gains    *)
  LoudestIndex    (* the index of the largest 32-bit gain                   *)

VARIABLES
  enc,            (* LastGainIndex; LBRRprevLastGainIndex; the frames of    *)
                  (* the packet in either coding, as indices and as gains   *)
  net,            (* the packet under way, <<>> if none                     *)
  dec             (* the decoder: LastGainIndex, and whether the gains it   *)
                  (* decoded last are those that were coded                 *)

vars == <<enc, net, dec>>

NOTHING == [ind |-> <<>>, gain |-> <<>>]       (* a coding of no frames     *)

Limited(n, low, high) == IF n < low THEN low ELSE IF n > high THEN high ELSE n

Greater(a, b) == IF a > b THEN a ELSE b

Indices == 0 .. N_LEVELS_QGAIN - 1
Deltas  == 0 .. MAX_DELTA_GAIN_QUANT - MIN_DELTA_GAIN_QUANT

-----------------------------------------------------------------------------
(* SKP_Silk_gains_quant: s is the frame as far as it is coded, prev_ind    *)
(* with it.  A gain rounds towards the one before.                         *)
Rounded(raw, prev_ind) == IF raw < prev_ind THEN raw + 1 ELSE raw

FullIndex(raw, prev_ind) ==
  Greater(Limited(Rounded(raw, prev_ind), 0, N_LEVELS_QGAIN - 1),
          prev_ind + MIN_DELTA_GAIN_QUANT)

DeltaIndex(raw, prev_ind) ==
  Limited(Rounded(raw, prev_ind) - prev_ind, MIN_DELTA_GAIN_QUANT, MAX_DELTA_GAIN_QUANT)

Quantized(s, raw, full) ==
  LET delta == DeltaIndex(raw, s.prev_ind)
      gain  == IF full THEN FullIndex(raw, s.prev_ind) ELSE s.prev_ind + delta
  IN  [prev_ind |-> gain,
       ind  |-> Append(s.ind, IF full THEN gain ELSE delta - MIN_DELTA_GAIN_QUANT),
       gain |-> Append(s.gain, gain)]

gains_quant(raws, prev_ind, conditional) ==
  FoldLeft(LAMBDA s, raw : Quantized(s, raw, s.ind = <<>> /\ ~conditional),
           [prev_ind |-> prev_ind, ind |-> <<>>, gain |-> <<>>], raws)

(* SKP_Silk_gains_dequant                                                  *)
gains_dequant(ind, prev_ind, conditional) ==
  FoldLeft(LAMBDA s, i :
             LET gain == IF s.gain = <<>> /\ ~conditional THEN i
                         ELSE s.prev_ind + i + MIN_DELTA_GAIN_QUANT
             IN  [prev_ind |-> gain, gain |-> Append(s.gain, gain)],
           [prev_ind |-> prev_ind, gain |-> <<>>], ind)

-----------------------------------------------------------------------------
Init ==
  /\ enc = [LastGainIndex |-> 1, LBRRprevLastGainIndex |-> 0,
            main |-> NOTHING, second |-> NOTHING]
  /\ net = <<>>
  /\ dec = [LastGainIndex |-> 1, same |-> TRUE]

Added(coding, ind, gain) ==
  [ind |-> Append(coding.ind, ind), gain |-> Append(coding.gain, gain)]

(* SKP_Silk_LBRR_encode_FIX, of a frame with these indices: in the first   *)
(* frame of a packet the first gain is raised, and the others follow.      *)
Raised(ind, increase) ==
  [ind EXCEPT ![1] = Limited(@ + increase, 0, N_LEVELS_QGAIN - 1)]

(* A frame is encoded; SKP_Silk_process_gains_FIX, then the second coding. *)
(* Its last index, which the next packet does not read, is reset with the  *)
(* packet here.                                                            *)
EncodeFrame(raws, increase) ==
  LET first  == enc.main.ind = <<>>
      main   == gains_quant(raws, enc.LastGainIndex, ~first)
      ind    == IF first THEN Raised(main.ind, increase) ELSE main.ind
      second == gains_dequant(ind, IF first THEN main.prev_ind ELSE enc.LBRRprevLastGainIndex,
                              ~first)
      coded  == [LastGainIndex |-> main.prev_ind, LBRRprevLastGainIndex |-> second.prev_ind,
                 main   |-> Added(enc.main, main.ind, main.gain),
                 second |-> Added(enc.second, ind, second.gain)]
      ends   == Len(coded.main.ind) = FramesInPacket
  IN  /\ net = <<>>
      /\ enc' = IF ends THEN [coded EXCEPT !.main = NOTHING, !.second = NOTHING,
                                           !.LBRRprevLastGainIndex = 0]
                ELSE coded
      /\ net' = IF ends THEN <<[main |-> coded.main, second |-> coded.second]>> ELSE net
      /\ UNCHANGED dec

(* SKP_Silk_setup_fs_FIX: a new rate drops the frames coded.               *)
ChangeRate ==
  /\ net = <<>>
  /\ enc' = [LastGainIndex |-> 1, LBRRprevLastGainIndex |-> 0,
             main |-> NOTHING, second |-> NOTHING]
  /\ UNCHANGED <<net, dec>>

(* The packet comes, or the second coding of it after it was lost:         *)
(* SKP_Silk_decode_parameters of each frame.  It may be of a new rate,     *)
(* with which the decoder forgets its last index.                          *)
Decode(coding, reset) ==
  LET last  == IF reset THEN 1 ELSE dec.LastGainIndex
      heard == FoldLeft(LAMBDA s, ind :
                 LET g == gains_dequant(ind, s.prev_ind, s.gain # <<>>)
                 IN  [prev_ind |-> g.prev_ind, gain |-> Append(s.gain, g.gain)],
                 [prev_ind |-> last, gain |-> <<>>], coding.ind)
  IN  dec' = [LastGainIndex |-> heard.prev_ind, same |-> heard.gain = coding.gain]

Receive ==
  /\ net # <<>>
  /\ \E coding \in {net[1].main, net[1].second}, reset \in BOOLEAN : Decode(coding, reset)
  /\ net' = <<>>
  /\ UNCHANGED enc

Lose == net # <<>> /\ net' = <<>> /\ UNCHANGED <<enc, dec>>

Next ==
  \/ \E raws \in [1..Subframes -> -1 .. LoudestIndex], increase \in GainIncrease :
       EncodeFrame(raws, increase)
  \/ ChangeRate \/ Receive \/ Lose

Spec == Init /\ [][Next]_vars

-----------------------------------------------------------------------------
(* Whatever was lost before, the decoder plays a packet with the gains the *)
(* encoder used, and those of a second coding with those it was quantised  *)
(* with ("Decode to get gains in sync with decoder",                       *)
(* SKP_Silk_encode_frame_FIX.c:327); and no index is outside the table it  *)
(* is coded with, though a gain may be above the last level.               *)
InTables(coding) ==
  \A f \in DOMAIN coding.ind : \A k \in 1..Subframes :
    coding.ind[f][k] \in IF f = 1 /\ k = 1 THEN Indices ELSE Deltas

GainsBack ==
  /\ dec.same
  /\ InTables(enc.main) /\ InTables(enc.second)
  /\ net # <<>> => InTables(net[1].main) /\ InTables(net[1].second)

=============================================================================
