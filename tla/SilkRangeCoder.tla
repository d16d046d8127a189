--------------------------- MODULE SilkRangeCoder ----------------------------
(***************************************************************************)
(* The range coder of libsilk (src/silk/SKP_Silk_range_coder.c), through   *)
(* which everything in a payload goes.  A symbol narrows the interval      *)
(* base .. base + range; the encoder writes the bytes of base that can     *)
(* change no more but for a carry, which runs back through the buffer, and *)
(* range_enc_wrap_up as few bits as will do.  The decoder reads four bytes *)
(* ahead, past the end of a payload too.                                   *)
(*                                                                         *)
(* A byte has B bits: 8 in the code, where base_Q32 has four of them,      *)
(* range_Q16 two and a cumulative distribution ends at 0xFFFF.             *)
(***************************************************************************)
EXTENDS Integers, Sequences, FiniteSetsExt

CONSTANTS
  B,              (* bits of a byte                                         *)
  MAX_ARITHM_BYTES,
  Cdf,            (* the distributions symbols are coded with               *)
  MaxSymbols      (* bound: symbols of a stream                             *)

VARIABLES
  pc,             (* "encoding", "decoding", "decoded"                      *)
  enc,            (* the encoder: base_Q32, range_Q16, buffer, error, data  *)
  dec             (* the decoder: base_Q32, range_Q16, bufferIx, data, rest *)

vars == <<pc, enc, dec>>

Bytes(n)        == 2 ^ (n * B)
HighByte(base)  == base \div Bytes(3)
Shifted(base)   == (base * Bytes(1)) % Bytes(4)
OUTSIDE         == <<-1>>      (* what a carry out of the buffer leaves     *)

(* The symbols of a distribution, and where the interval of one begins.    *)
Symbols(cdf) == 1..(Len(cdf) - 1)
Low(cdf, s)  == cdf[s]
High(cdf, s) == cdf[s + 1]

(* mutant: the carry changes the last byte alone                           *)
CarryOnce(buffer) ==
  [buffer EXCEPT ![Len(buffer)] = (@ + 1) % Bytes(1)]

(* while( ( ++buffer[ --bufferIx_tmp ] ) == 0 ): a 1 added to the number   *)
(* the bytes so far make.                                                  *)
Carry(buffer) ==
  LET open == {i \in DOMAIN buffer : buffer[i] # Bytes(1) - 1}
  IN  IF open = {} THEN OUTSIDE
      ELSE [i \in DOMAIN buffer |-> IF i < Max(open) THEN buffer[i]
                                    ELSE IF i = Max(open) THEN buffer[i] + 1 ELSE 0]

(* How many bytes a new range_Q32 shifts out.                              *)
Normalization(range) ==
  IF range >= Bytes(3) THEN 0 ELSE IF range >= Bytes(2) THEN 1 ELSE 2

(* SKP_Silk_range_encoder.                                                 *)
Encoded(e, lo, hi) ==
  LET base   == (e.base_Q32 + e.range_Q16 * lo) % Bytes(4)
      range  == e.range_Q16 * (hi - lo)
      n      == Normalization(range)
      buffer == IF base < e.base_Q32 THEN Carry(e.buffer) ELSE e.buffer
  IN  IF e.error THEN e
      ELSE IF Len(buffer) + n > MAX_ARITHM_BYTES THEN [e EXCEPT !.error = TRUE]
      ELSE [e EXCEPT
              !.base_Q32  = CASE n = 0 -> base [] n = 1 -> Shifted(base)
                              [] n = 2 -> Shifted(Shifted(base)),
              !.range_Q16 = range \div Bytes(2 - n),
              !.buffer    = buffer \o CASE n = 0 -> <<>> [] n = 1 -> <<HighByte(base)>>
                                        [] n = 2 -> <<HighByte(base), HighByte(Shifted(base))>>]

(* SKP_Silk_range_coder_get_length: the bits of the stream, of which those *)
(* of base are the leading ones no number in the interval can do without.  *)
BitsToStore(range) == Max({n \in 2..(2 * B + 2) : range - 1 < 2 ^ (2 * B + 2 - n)})
BitsInStream(ix, range) == B * ix + BitsToStore(range)

ByteCount(bits) == (bits + (B - 1)) \div B

(* The bits of the last byte that are not used, all of them set.           *)
Unused(bits) == IF bits % B = 0 THEN 0 ELSE (2 ^ (B - (bits % B))) - 1

(* SKP_Silk_range_enc_wrap_up: base rounded up to the bits to store, which *)
(* may carry; what does not fit the buffer is not written.                 *)
WrappedUp(e) ==
  LET store  == BitsToStore(e.range_Q16)
      bits   == BitsInStream(Len(e.buffer), e.range_Q16)
      unit   == 2 ^ (3 * B - store)
      upper  == (((e.base_Q32 \div Bytes(1)) + unit) \div unit) * unit
      buffer == IF upper >= Bytes(3) THEN Carry(e.buffer) ELSE e.buffer
      tail   == <<(upper \div Bytes(2)) % Bytes(1), (upper \div Bytes(1)) % Bytes(1)>>
      whole  == buffer \o SubSeq(tail, 1, IF store > B THEN 2 ELSE 1)
      filled == [whole EXCEPT ![ByteCount(bits)] = @ + Unused(bits)]
  IN  SubSeq(filled, 1, Min({Len(filled), MAX_ARITHM_BYTES}))

-----------------------------------------------------------------------------
(* What the decoder finds at a place of its buffer: a byte of the payload, *)
(* or what memory holds behind it.                                         *)
ByteAt(d, i) == IF i < Len(enc.buffer) THEN enc.buffer[i + 1] ELSE d.behind

(* Reading one more byte, while there are any.                             *)
Read(d) ==
  IF d.bufferIx < Len(enc.buffer)
  THEN [d EXCEPT !.base_Q32 = Shifted(@) + ByteAt(d, d.bufferIx + 4), !.bufferIx = @ + 1]
  ELSE [d EXCEPT !.base_Q32 = Shifted(@)]

(* SKP_Silk_range_decoder, the search for the symbol included.             *)
Decoded(d, cdf) ==
  LET hit == {s \in Symbols(cdf) : /\ d.range_Q16 * Low(cdf, s) <= d.base_Q32
                                   /\ d.base_Q32 < d.range_Q16 * High(cdf, s)}
      s     == CHOOSE x \in hit : TRUE
      range == d.range_Q16 * (High(cdf, s) - Low(cdf, s))
      n     == Normalization(range)
      there == [d EXCEPT !.base_Q32  = @ - d.range_Q16 * Low(cdf, s),
                         !.range_Q16 = range \div Bytes(2 - n),
                         !.data      = Append(@, s)]
      wrong == \/ n > 0 /\ there.base_Q32 >= Bytes(4 - n)
               \/ there.range_Q16 = 0
  IN  IF hit = {} \/ wrong THEN [d EXCEPT !.error = TRUE]
      ELSE CASE n = 0 -> there [] n = 1 -> Read(there) [] n = 2 -> Read(Read(there))

(* SKP_Silk_range_coder_check_after_decoding.                              *)
CheckFails(d) ==
  LET bits == BitsInStream(d.bufferIx, d.range_Q16)
      last == ByteCount(bits)
  IN  \/ last > Len(enc.buffer)
      \/ enc.buffer[last] % (Unused(bits) + 1) # Unused(bits)

NoDecoder == [base_Q32 |-> 0, range_Q16 |-> 0, bufferIx |-> 0, data |-> <<>>,
              error |-> FALSE, behind |-> 0]

(* SKP_Silk_range_enc_init.                                                *)
Init ==
  /\ pc = "encoding"
  /\ enc = [base_Q32 |-> 0, range_Q16 |-> Bytes(2) - 1, buffer |-> <<>>, error |-> FALSE,
            data |-> <<>>, fits |-> TRUE]
  /\ dec = NoDecoder

EncodeSymbol ==
  /\ pc = "encoding" /\ Len(enc.data) < MaxSymbols
  /\ \E cdf \in Cdf : \E s \in Symbols(cdf) :
       enc' = [Encoded(enc, Low(cdf, s), High(cdf, s)) EXCEPT !.data = Append(@, <<cdf, s>>)]
  /\ UNCHANGED <<pc, dec>>

(* The end of the stream, and SKP_Silk_range_dec_init: four bytes, however *)
(* few the payload has.  What is behind it may make every number smaller   *)
(* or larger: the least and the greatest stand for all.                    *)
Finish ==
  /\ pc = "encoding" /\ enc.data # <<>> /\ ~enc.error
  /\ pc' = "decoding"
  /\ enc' = [enc EXCEPT !.buffer = WrappedUp(enc),
                        !.fits = ByteCount(BitsInStream(Len(enc.buffer), enc.range_Q16))
                                   <= MAX_ARITHM_BYTES]
  /\ \E behind \in {0, Bytes(1) - 1} :
       LET four(i) == IF i < Len(enc'.buffer) THEN enc'.buffer[i + 1] ELSE behind
       IN  dec' = [NoDecoder EXCEPT
                     !.base_Q32  = four(0) * Bytes(3) + four(1) * Bytes(2)
                                     + four(2) * Bytes(1) + four(3),
                     !.range_Q16 = Bytes(2) - 1,
                     !.behind    = behind]

DecodeSymbol ==
  /\ pc = "decoding" /\ ~dec.error /\ Len(dec.data) < Len(enc.data)
  /\ dec' = Decoded(dec, enc.data[Len(dec.data) + 1][1])
  /\ UNCHANGED <<pc, enc>>

CheckAfterDecoding ==
  /\ pc = "decoding" /\ ~dec.error /\ Len(dec.data) = Len(enc.data)
  /\ pc' = "decoded"
  /\ dec' = [dec EXCEPT !.error = CheckFails(dec)]
  /\ UNCHANGED enc

Next == EncodeSymbol \/ Finish \/ DecodeSymbol \/ CheckAfterDecoding

-----------------------------------------------------------------------------
(* No carry leaves the buffer.  A stream that fits is decoded to what was  *)
(* encoded, whatever memory holds behind it, the decoder has then used all *)
(* of its bytes, and the check of the bits that are left over agrees.      *)
SymbolsBack ==
  /\ enc.buffer # OUTSIDE
  /\ enc.fits /\ pc # "encoding" =>
       /\ ~dec.error
       /\ dec.data = [i \in DOMAIN dec.data |-> enc.data[i][2]]
       /\ pc = "decoded" =>
            ByteCount(BitsInStream(dec.bufferIx, dec.range_Q16)) = Len(enc.buffer)

=============================================================================
