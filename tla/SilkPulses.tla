----------------------------- MODULE SilkPulses ------------------------------
(***************************************************************************)
(* How libsilk codes the quantised excitation of a frame                   *)
(* (SKP_Silk_encode_pulses.c, SKP_Silk_shell_coder.c,                      *)
(* SKP_Silk_code_signs.c and SKP_Silk_decode_pulses.c): block by block the *)
(* sum of the amplitudes, halved until it can be coded, the splits of the  *)
(* sum down a binary tree, the bits the halving dropped, and the signs.    *)
(* Nothing in the payload says which of these are there: the decoder knows *)
(* it only from what it has decoded before.                                *)
(*                                                                         *)
(* A payload is a sequence of symbols, each with the distribution it is    *)
(* coded with: SilkRangeCoder gives it back when the decoder asks for the  *)
(* same distributions in the same order.                                   *)
(***************************************************************************)
EXTENDS Integers, Sequences, SequencesExt, FiniteSetsExt

CONSTANTS
  Blocks,              (* shell blocks of a frame                           *)
  MaxPulses,           (* SKP_Silk_max_pulses_table: the most a sum of 2,   *)
                       (* of 4, ... and of all samples of a block may be    *)
  Amplitude,           (* values of a sample                                *)
  RateLevel            (* the rate levels but the last: N_RATE_LEVELS - 1   *)

VARIABLES
  pc,                  (* what is coded, then what is decoded next          *)
  q,                   (* the frame: its samples, block by block            *)
  payload,             (* the symbols not decoded yet                       *)
  d                    (* what the decoder knows: level, sums, shifts, q    *)

vars == <<pc, q, payload, d>>

Depth  == Len(MaxPulses)
Frame  == 2 ^ Depth                     (* SHELL_CODEC_FRAME_LENGTH: 2 ^ 4  *)
MAX_PULSES == MaxPulses[Depth]
ESCAPE == MAX_PULSES + 1
LAST   == "last rate level"
Block  == 1..Blocks

Sum(s)   == FoldLeft(+, 0, s)
Abs(a)   == IF a < 0 THEN -a ELSE a
First(s) == SubSeq(s, 1, Len(s) \div 2)
Rest(s)  == SubSeq(s, (Len(s) \div 2) + 1, Len(s))
Bit(a, j) == (a \div 2 ^ j) % 2
Sign(a)  == IF a < 0 THEN 0 ELSE 1      (* SKP_enc_map                      *)

(* The distributions.                                                      *)
LevelCdf     == <<"level">>
SumCdf(l)    == <<"sum", l>>
ShellCdf(n, p) == <<"shell", n, p>>
LsbCdf       == <<"lsb">>
SignCdf(l)   == <<"sign", l>>

-----------------------------------------------------------------------------
(* SKP_Silk_encode_pulses.                                                 *)

(* combine_and_check over all levels of the tree: the sums of 2^k samples. *)
Fits(p) ==
  \A k \in 1..Depth : \A i \in 0..((Frame \div 2 ^ k) - 1) :
    Sum(SubSeq(p, (i * 2 ^ k) + 1, (i + 1) * 2 ^ k)) <= MaxPulses[k]

Magnitude(s)   == [i \in DOMAIN s |-> Abs(s[i])]
Halved(p, r)   == [i \in DOMAIN p |-> p[i] \div 2 ^ r]
nRshifts(p)    == CHOOSE r \in 0..7 : /\ Fits(Halved(p, r))
                                      /\ \A t \in 0..(r - 1) : ~Fits(Halved(p, t))

EncodeSum(level, p) ==
  LET r == nRshifts(p)
      s == Sum(Halved(p, r))
  IN  IF r = 0 THEN << <<SumCdf(level), s>> >>
      ELSE <<<<SumCdf(level), ESCAPE>>>>
             \o [k \in 1..(r - 1) |-> <<SumCdf(LAST), ESCAPE>>]
             \o <<<<SumCdf(LAST), s>>>>

(* SKP_Silk_shell_encoder: encode_split wherever there is something.       *)
ShellEncoder[p \in Seq(Nat)] ==
  IF Len(p) = 1 \/ Sum(p) = 0 THEN <<>>
  ELSE <<<<ShellCdf(Len(p), Sum(p)), Sum(First(p))>>>>
         \o ShellEncoder[First(p)] \o ShellEncoder[Rest(p)]

(* All bits the halving dropped, the highest first.                        *)
EncodeLsbs(p) ==
  LET r == nRshifts(p)
  IN  [i \in 1..(r * Len(p)) |->
         <<LsbCdf, Bit(p[((i - 1) \div r) + 1], r - 1 - ((i - 1) % r))>>]

(* SKP_Silk_encode_signs: of the samples that are not 0.                   *)
EncodeSigns(level, s) ==
  LET marked == SelectSeq(s, LAMBDA a : a # 0)
  IN  [i \in DOMAIN marked |-> <<SignCdf(level), Sign(marked[i])>>]

OfBlocks(Part(_)) == FlattenSeq([b \in Block |-> Part(Magnitude(q[b]))])

EncodePulses(level) ==
  << <<LevelCdf, level>> >>
    \o OfBlocks(LAMBDA p : EncodeSum(level, p))
    \o OfBlocks(LAMBDA p : ShellEncoder[Halved(p, nRshifts(p))])
    \o OfBlocks(EncodeLsbs)
    \o FlattenSeq([b \in Block |-> EncodeSigns(level, q[b])])

Init ==
  /\ pc = "encode"
  /\ q \in [Block -> [1..Frame -> Amplitude]]
  /\ payload = <<>>
  /\ d = [level |-> LAST, sums |-> <<>>, shifts |-> <<>>, q |-> <<>>, ok |-> TRUE]

(* The rate level is the cheapest, whichever it is.                        *)
Encode ==
  /\ pc = "encode" /\ pc' = "level"
  /\ \E level \in RateLevel : payload' = EncodePulses(level)
  /\ UNCHANGED <<q, d>>

-----------------------------------------------------------------------------
(* SKP_Silk_decode_pulses.                                                 *)

(* The next symbols are of these distributions; what they are.             *)
Are(cdfs, at)   == /\ Len(payload) >= at + Len(cdfs)
                   /\ \A i \in DOMAIN cdfs : payload[at + i][1] = cdfs[i]
Symbol(i)       == payload[i][2]
Decoded(n)      == payload' = SubSeq(payload, n + 1, Len(payload))

DecodeRateLevel ==
  /\ pc = "level" /\ pc' = "sums"
  /\ d' = [d EXCEPT !.level = Symbol(1), !.ok = Are(<<LevelCdf>>, 0)]
  /\ Decoded(1)
  /\ UNCHANGED q

(* The sum of one more block: escapes, each for a halving, and the sum.    *)
DecodeSum ==
  /\ pc = "sums"
  /\ LET n == Min({j \in DOMAIN payload : Symbol(j) # ESCAPE})
     IN  /\ d' = [d EXCEPT !.sums   = Append(@, Symbol(n)),
                           !.shifts = Append(@, n - 1),
                           !.ok = @ /\ Are([j \in 1..n |-> SumCdf(IF j = 1 THEN d.level
                                                                 ELSE LAST)], 0)]
         /\ Decoded(n)
  /\ pc' = IF Len(d'.sums) = Blocks THEN "shells" ELSE "sums"
  /\ UNCHANGED q

(* SKP_Silk_shell_decoder and decode_split: the samples of n that make p,  *)
(* from the symbols behind the first "used" ones.                          *)
ShellDecoder[n \in Nat, p \in Int, used \in Nat] ==
  IF n = 1 \/ p = 0 THEN [q |-> [i \in 1..n |-> p], used |-> used, ok |-> TRUE]
  ELSE LET one == ShellDecoder[n \div 2, Symbol(used + 1), used + 1]
           two == ShellDecoder[n \div 2, p - Symbol(used + 1), one.used]
       IN  IF Are(<<ShellCdf(n, p)>>, used)
           THEN [q |-> one.q \o two.q, used |-> two.used, ok |-> one.ok /\ two.ok]
           ELSE [q |-> <<>>, used |-> used, ok |-> FALSE]

DecodeShell ==
  /\ pc = "shells"
  /\ LET shell == ShellDecoder[Frame, d.sums[Len(d.q) + 1], 0]
     IN  /\ d' = [d EXCEPT !.q = Append(@, shell.q), !.ok = @ /\ shell.ok]
         /\ Decoded(shell.used)
  /\ pc' = IF Len(d'.q) = Blocks THEN "lsbs" ELSE "shells"
  /\ UNCHANGED q

(* abs_q = ( abs_q << 1 ) + bit, for as many bits as the block was halved. *)
DecodeLsbs ==
  /\ pc = "lsbs" /\ pc' = "signs"
  /\ LET from(b) == Frame * Sum(SubSeq(d.shifts, 1, b - 1))
         bits(b, i) == [j \in 1..d.shifts[b] |-> from(b) + ((i - 1) * d.shifts[b]) + j]
         n == from(Blocks + 1)
     IN  /\ d' = [d EXCEPT
                    !.q = [b \in Block |-> [i \in 1..Frame |->
                             FoldLeft(LAMBDA a, at : (2 * a) + Symbol(at), d.q[b][i],
                                      bits(b, i))]],
                    !.ok = @ /\ Are([i \in 1..n |-> LsbCdf], 0)]
         /\ Decoded(n)
  /\ UNCHANGED q

(* SKP_Silk_decode_signs: a sign for each sample that is not 0.            *)
DecodeSigns ==
  /\ pc = "signs" /\ pc' = "decoded"
  /\ LET marked(b, i) == Sum([c \in 1..b |->
                           Len(SelectSeq(IF c = b THEN SubSeq(d.q[c], 1, i) ELSE d.q[c],
                                         LAMBDA a : a > 0))])
         n == marked(Blocks, Frame)
     IN  /\ d' = [d EXCEPT
                    !.q = [b \in Block |-> [i \in 1..Frame |->
                             IF @[b][i] = 0 THEN 0
                             ELSE @[b][i] * ((2 * Symbol(marked(b, i))) - 1)]],
                    !.ok = @ /\ Are([i \in 1..n |-> SignCdf(d.level)], 0)]
         /\ Decoded(n)
  /\ UNCHANGED q

Next == \/ Encode \/ DecodeRateLevel \/ DecodeSum \/ DecodeShell
        \/ DecodeLsbs \/ DecodeSigns

-----------------------------------------------------------------------------
(* The decoder asks for the distributions the encoder used, and has at the *)
(* end the frame the encoder was given and no symbol left.                 *)
PulsesBack ==
  /\ d.ok
  /\ pc = "decoded" => d.q = q /\ payload = <<>>

=============================================================================
