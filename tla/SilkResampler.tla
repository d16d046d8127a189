---------------------------- MODULE SilkResampler ----------------------------
(***************************************************************************)
(* The rates of libsilk: the callers' (API) and the internal one, and the  *)
(* resamplers between them (SKP_Silk_resampler.c and its down_FIR and      *)
(* IIR_FIR), as the encoder (SKP_Silk_SDK_Encode,                          *)
(* SKP_Silk_setup_resamplers_FIX) and the decoder (SKP_Silk_SDK_Decode)    *)
(* use them.  Either rate may change at a call.  A resampler is not told   *)
(* how many samples to write and does not say how many it wrote: its       *)
(* fixed-point ratio says, and its callers count on the exact one.         *)
(*                                                                         *)
(* The samples themselves are left out; numbers and arithmetic are the     *)
(* code's.  Rates are in Hz, of 8 to 48 kHz, and multiples of 100: the     *)
(* batches are of 10 ms.                                                   *)
(***************************************************************************)
EXTENDS Integers, FiniteSetsExt

CONSTANTS
  SampleRate,     (* API rates: those SKP_Silk_SDK_Encode takes             *)
  InternalRate,   (* in kHz                                                 *)
  MaxInput        (* bound: 10 ms blocks of a call to the encoder           *)

VARIABLES
  call,           (* the SKP_Silk_SDK_Encode in progress: 10 ms blocks it   *)
                  (* has come with, samples left of them                    *)
  enc,            (* fs_kHz, API_fs_Hz, the resampler, samples in inputBuf  *)
  dec,            (* fs_kHz, prev_API_sampleRate, the resampler             *)
  ran             (* the resamplings of the last step                       *)

vars == <<call, enc, dec, ran>>

NOT_IN_CALL == [blocks |-> 0, left |-> 0]
NONE == [in |-> 0, out |-> 0]                     (* not yet initialised    *)

FRAME_LENGTH_MS == 20
LA_SHAPE_MS     == 5
MAX_FS_KHZ      == 24
MAX_API_FS_KHZ  == 48
X_BUF == (2 * FRAME_LENGTH_MS + LA_SHAPE_MS) * MAX_FS_KHZ

Lesser(a, b) == IF a < b THEN a ELSE b

-----------------------------------------------------------------------------
(* SKP_Silk_macros.h: the low 16 bits of b are signed.                     *)
Int16(b) == ((b + 32768) % 65536) - 32768
SMULWB(a, b) == (a \div 65536) * Int16(b) + ((a % 65536) * Int16(b)) \div 65536
SMULWW(a, b) == SMULWB(a, b) + a * ((b + 32768) \div 65536)

(* SKP_Silk_resampler_init.  A ratio has a method of its own, or takes the *)
(* default, which interpolates what it has upsampled by two.               *)
FIR_Fracs(r) ==
  CASE 4 * r.out = 3 * r.in \/ 8 * r.out = 3 * r.in  -> 3
    [] 3 * r.out = 2 * r.in                          -> 2
    [] \E n \in {2, 3, 4, 6} : n * r.out = r.in      -> 1
    [] OTHER                                         -> 0

OfCD(r) == \E n \in {80, 120, 160, 240, 320} : 441 * r.out = n * r.in

Method(r) ==
  CASE r.in = r.out        -> "copy"
    [] r.out = 2 * r.in    -> "up2_HQ"
    [] FIR_Fracs(r) # 0    -> "down_FIR"
    [] OTHER               -> "IIR_FIR"

Up2(r)   == IF Method(r) = "IIR_FIR" /\ ~OfCD(r) THEN 1 ELSE 0
Down2(r) == IF r.out < r.in /\ (4 * r.out = r.in \/ 6 * r.out = r.in) THEN 1 ELSE 0

invRatio_Q16(r) ==
  LET cut == 4 * ((r.in * 2^(14 + Up2(r) - Down2(r))) \div r.out)
  IN  Min({q \in cut .. cut + 8 : SMULWW(q, r.out * 2^Down2(r)) >= r.in * 2^Up2(r)})

batchSize(r) == r.in \div 100

(* What a batch of n samples makes: of the interpolating methods, as many  *)
(* as the index takes steps before it is past the batch.                   *)
Steps(max_index_Q16, r) ==
  LET increment == invRatio_Q16(r) IN (max_index_Q16 + increment - 1) \div increment

OfBatch(r, n) ==
  CASE Method(r) = "copy"     -> n
    [] Method(r) = "up2_HQ"   -> 2 * n
    [] Method(r) = "down_FIR" -> Steps((n \div 2^Down2(r)) * 65536, r)
    [] Method(r) = "IIR_FIR"  -> Steps(n * 2^(16 + Up2(r)), r)

(* SKP_Silk_resampler: full batches, then the rest.                        *)
Written(r, n) ==
  (n \div batchSize(r)) * OfBatch(r, batchSize(r)) + OfBatch(r, n % batchSize(r))

(* down_FIR: the sample and the set of coefficients an output begins with. *)
Interpolation(index_Q16, r) ==
  [buf_ptr |-> index_Q16 \div 65536, interpol_ind |-> SMULWB(index_Q16 % 65536, FIR_Fracs(r))]

-----------------------------------------------------------------------------
Init ==
  /\ call = NOT_IN_CALL
  /\ enc = [fs_kHz |-> 0, API_fs_Hz |-> 0, resampler |-> NONE,
            inputBufIx |-> 0, controlled |-> FALSE]
  /\ dec = [fs_kHz |-> 24, prev_API_sampleRate |-> 0, resampler |-> NONE]
  /\ ran = {}

(* One use of a resampler: of n samples at the rates it should be for; its *)
(* user counts on so many samples, and has room for so many.               *)
Resampling(resampler, in, out, n, counted, room) ==
  [resampler |-> resampler, for |-> [in |-> in, out |-> out],
   n |-> n, counted |-> counted, room |-> room]

(* SKP_Silk_setup_resamplers_FIX.                                          *)
(* mutant: made anew for a new internal rate only                          *)
ChangedInside(e, api, fs) == e.fs_kHz # fs

Changed(e, api, fs) == e.fs_kHz # fs \/ e.API_fs_Hz # api

Buffered(fs) == 2 * FRAME_LENGTH_MS * fs + LA_SHAPE_MS * fs

SetUp(e, api, fs) ==
  [e EXCEPT !.API_fs_Hz = api,
            !.resampler = IF Changed(e, api, fs) /\ (e.fs_kHz = 0 \/ 1000 * fs < api)
                          THEN [in |-> api, out |-> 1000 * fs] ELSE @]

(* The audio in x_buf goes up to the API rate, and down through the new    *)
(* resampler, for that to continue from.                                   *)
Above(fs, api) == (Buffered(fs) * api) \div (1000 * fs)

HistoryUp(fs, api) ==
  Resampling([in |-> 1000 * fs, out |-> api], 1000 * fs, api,
             Buffered(fs), Above(fs, api), X_BUF * (MAX_API_FS_KHZ \div 8))

HistoryDown(resampler, old_fs, api, fs) ==
  Resampling(resampler, api, 1000 * fs, Above(old_fs, api), Buffered(fs), X_BUF)

SetUpRuns(e, api, fs) ==
  IF ~Changed(e, api, fs) \/ e.fs_kHz = 0 \/ 1000 * fs >= api THEN {}
  ELSE {HistoryUp(e.fs_kHz, api),
        HistoryDown(SetUp(e, api, fs).resampler, e.fs_kHz, api, fs)}

(* SKP_Silk_setup_fs_FIX                                                   *)
SetFs(e, fs) ==
  IF e.fs_kHz = fs THEN e ELSE [e EXCEPT !.fs_kHz = fs, !.inputBufIx = 0]

(* SKP_Silk_SDK_Encode is called, and controls the encoder: the rate stays *)
(* for the rest of a frame, else it becomes one that is not above the API  *)
(* rate (SilkBandwidth says which).  More than a packet is refused.        *)
(* Callers do not lower the API rate below it within a frame, and, when    *)
(* they are resampled, do not go past the end of a frame and end within    *)
(* the next.                                                               *)
Encode(api, blocks, fs) ==
  LET set == SetUp(enc, api, fs)
      e   == IF enc.controlled THEN set ELSE [SetFs(set, fs) EXCEPT !.controlled = TRUE]
      end == e.inputBufIx + 10 * fs * blocks
  IN  /\ call = NOT_IN_CALL
      /\ enc.controlled => fs = enc.fs_kHz
      /\ 1000 * fs <= api
      /\ 1000 * fs # api /\ end > FRAME_LENGTH_MS * fs => end % (FRAME_LENGTH_MS * fs) = 0
      /\ enc' = e
      /\ ran' = SetUpRuns(enc, api, fs)
      /\ \/ call' = [blocks |-> blocks, left |-> blocks * (api \div 100)]
         \/ call' = call
      /\ UNCHANGED dec

InputResampled(resampler, api, fs, taken, toBuffer) ==
  Resampling(resampler, api, 1000 * fs, taken, toBuffer, toBuffer)

(* One turn of its loop: samples into inputBuf, copied or resampled.  A    *)
(* full buffer is encoded, and the loop ends when all samples are taken or *)
(* the buffer is not full.                                                 *)
Buffer ==
  LET fs       == enc.fs_kHz
      missing  == FRAME_LENGTH_MS * fs - enc.inputBufIx
      same     == enc.API_fs_Hz = 1000 * fs
      toBuffer == Lesser(missing, IF same THEN call.left ELSE 10 * call.blocks * fs)
      taken    == IF same THEN toBuffer ELSE (toBuffer * enc.API_fs_Hz) \div (1000 * fs)
      full     == toBuffer = missing
  IN  /\ call # NOT_IN_CALL
      /\ ran' = IF same THEN {}
                ELSE {InputResampled(enc.resampler, enc.API_fs_Hz, fs, taken, toBuffer)}
      /\ enc' = [enc EXCEPT !.inputBufIx = IF full THEN 0 ELSE @ + toBuffer,
                            !.controlled = @ /\ ~full]
      /\ call' = IF full /\ call.left # taken THEN [call EXCEPT !.left = @ - taken]
                 ELSE NOT_IN_CALL
      /\ UNCHANGED dec

FrameResampled(resampler, fs, api) ==
  Resampling(resampler, 1000 * fs, api, FRAME_LENGTH_MS * fs,
             (FRAME_LENGTH_MS * fs * api) \div (1000 * fs), api \div 50)

(* SKP_Silk_SDK_Decode: a frame of a rate is decoded and resampled.  A     *)
(* rate above the API rate is not met after one that is not: it would be   *)
(* decoded into the caller's buffer.                                       *)
Decode(fs, api) ==
  LET fresh == dec.fs_kHz # fs \/ dec.prev_API_sampleRate # api
      needed == [in |-> 1000 * fs, out |-> api]
      used  == IF 1000 * fs # api /\ fresh THEN needed ELSE dec.resampler
  IN  /\ 1000 * fs > api => 1000 * dec.fs_kHz > api
      /\ dec' = [fs_kHz |-> fs, prev_API_sampleRate |-> api, resampler |-> used]
      /\ ran' = IF 1000 * fs = api THEN {}
                ELSE {FrameResampled(used, fs, api)}
      /\ UNCHANGED <<call, enc>>

EncoderNext ==
  \/ \E api \in SampleRate, blocks \in 1..MaxInput, fs \in InternalRate :
       Encode(api, blocks, fs)
  \/ Buffer

DecoderNext == \E fs \in InternalRate, api \in SampleRate : Decode(fs, api)

Next == EncoderNext \/ DecoderNext

Spec == Init /\ [][Next]_vars

-----------------------------------------------------------------------------
(* Every output of down_FIR begins with the sample and the coefficients    *)
(* that the exact ratio gives it.                                          *)
Exact(r) ==
  LET increment == invRatio_Q16(r)
      in        == r.in \div 2^Down2(r)
  IN  \A k \in 0 .. OfBatch(r, batchSize(r)) - 1 :
        Interpolation(k * increment, r) =
          [buf_ptr |-> (k * in) \div r.out,
           interpol_ind |-> (((k * in) % r.out) * FIR_Fracs(r)) \div r.out]

(* A resampler for the rates of a use writes the samples its user counts   *)
(* on, none beyond the room for them.                                      *)
Counted(use) ==
  /\ Written(use.for, use.n) \in use.counted .. use.room
  /\ Method(use.for) = "down_FIR" => Exact(use.for)

(* Whatever the rates were before, audio goes through a resampler for the  *)
(* rates it has; its samples are counted; and the encoder takes no more of *)
(* them than a call has brought, nor more than a frame into its buffer     *)
(* (the comments at SKP_Silk_resampler.c:234 and                           *)
(* SKP_Silk_dec_API.c:147-155, and the assertion at                        *)
(* SKP_Silk_enc_API.c:208).                                                *)
SamplesCounted ==
  /\ \A use \in ran : use.resampler = use.for /\ Counted(use)
  /\ call.left >= 0
  /\ enc.inputBufIx \in 0 .. FRAME_LENGTH_MS * enc.fs_kHz

-----------------------------------------------------------------------------
(* The arithmetic of the ratios: all the uses there are of a resampler, at *)
(* the rates of these sets, are counted.                                   *)
RatiosExact ==
  \A api \in SampleRate, fs \in InternalRate :
    LET down == [in |-> api, out |-> 1000 * fs]
        up   == [in |-> 1000 * fs, out |-> api]
    IN  /\ 1000 * fs # api => Counted(FrameResampled(up, fs, api))
        /\ 1000 * fs < api =>
             /\ \A blocks \in {1, 2} :
                  Counted(InputResampled(down, api, fs, blocks * (api \div 100), blocks * 10 * fs))
             /\ \A old_fs \in InternalRate :
                  Counted(HistoryUp(old_fs, api)) /\ Counted(HistoryDown(down, old_fs, api, fs))

(* The inductive invariant: between frames or calls the encoder's          *)
(* resampler is for its rates, and its buffer holds 10 ms or nothing; the  *)
(* rest of a call fills frames, or is the whole of it and ends in one.     *)
TypeOK ==
  LET Resampler == [in : Nat, out : Nat]
  IN  /\ call \in [blocks : Nat, left : Nat]
      /\ enc \in [fs_kHz : InternalRate \cup {0}, API_fs_Hz : SampleRate \cup {0},
                  resampler : Resampler, inputBufIx : Nat, controlled : BOOLEAN]
      /\ dec \in [fs_kHz : InternalRate \cup {24}, prev_API_sampleRate : SampleRate \cup {0},
                  resampler : Resampler]

EncoderRates ==
  /\ enc.fs_kHz # 0 /\ enc.API_fs_Hz # 1000 * enc.fs_kHz =>
       enc.resampler = [in |-> enc.API_fs_Hz, out |-> 1000 * enc.fs_kHz]
  /\ enc.inputBufIx \in {0, 10 * enc.fs_kHz}
  /\ call # NOT_IN_CALL =>
       /\ enc.fs_kHz \in InternalRate /\ enc.API_fs_Hz \in SampleRate
       /\ 1000 * enc.fs_kHz <= enc.API_fs_Hz
       /\ \E held \in {0, 1}, blocks \in 1..MaxInput :
            /\ enc.inputBufIx = held * 10 * enc.fs_kHz
            /\ call.left = blocks * (enc.API_fs_Hz \div 100)
            /\ 1000 * enc.fs_kHz # enc.API_fs_Hz =>
                 \/ held + blocks <= 2 /\ blocks = call.blocks
                 \/ (held + blocks) % 2 = 0 /\ blocks <= call.blocks

DecoderRates ==
  dec.prev_API_sampleRate # 0 /\ dec.prev_API_sampleRate # 1000 * dec.fs_kHz =>
    dec.resampler = [in |-> 1000 * dec.fs_kHz, out |-> dec.prev_API_sampleRate]

RatesInv == TypeOK /\ EncoderRates /\ DecoderRates /\ SamplesCounted

=============================================================================
