----------------------------- MODULE SilkDecoder -----------------------------
(***************************************************************************)
(* The decoding half of tsilk_in (tsilk.c, edc 2): a stream of encoded     *)
(* frames, each behind the two bytes of its length, comes cut into chunks  *)
(* anywhere, even between those two bytes; tsilk_in puts the frames        *)
(* together again and hands each to the codec, which is external.  A byte  *)
(* <<k, i>> of the stream is the i-th of frame k.                          *)
(***************************************************************************)
EXTENDS Integers, Sequences, FiniteSets, Functions

CONSTANTS
  INBLOCK,        (* ptk->in grows by this many bytes: 1024 in the code     *)
  OUTBLOCK,       (* ptk->out by this many: 8192 in the code                *)
  FrameLen,       (* lengths of encoded frames; 0 in a damaged stream       *)
  PcmLen,         (* bytes of PCM a frame may decode to                     *)
  ChunkLen,       (* lengths of the chunks tsilk_in is given                *)
  DecodeMayFail,  (* TRUE: the codec may return an error                    *)
  MaxFrames       (* bound: frames in the stream                            *)

SHORT == 2          \* sizeof(short), the length before each encoded frame

VARIABLES
  frames,         (* external: the lengths of the stream's frames           *)
  fed,            (* bytes of the stream given to tsilk_in                  *)
  pc,             (* where tsilk_in is                                      *)
  chunk,          (* what it has not consumed of the chunk                  *)
  in,             (* ptk->in: its bytes and its size                        *)
  out,            (* ptk->out: its length and its size                      *)
  decoded,        (* what the codec was given, frame by frame               *)
  broken          (* tsilk_in has returned -1                               *)

vars == <<frames, fed, pc, chunk, in, out, decoded, broken>>

(* Bytes of the stream before frame k.                                     *)
Before ==
  LET bytes == [k \in DOMAIN frames |-> SHORT + frames[k]]
  IN  [k \in 1..Len(frames) + 1 |-> SumFunctionOnSet(bytes, 1..k - 1)]

Total == Before[Len(frames) + 1]

ByteAt(p) == LET k == CHOOSE k \in DOMAIN frames :
                        Before[k] < p /\ p <= Before[k + 1]
             IN  <<k, p - Before[k]>>

(* The bytes of the stream after the first a, up to the b-th.              *)
Wire(a, b) == [i \in 1..b - a |-> ByteAt(a + i)]

Init ==
  /\ frames \in UNION {[1..n -> FrameLen] : n \in 1..MaxFrames}
  /\ fed = 0
  /\ pc = "idle"
  /\ chunk = <<>>
  /\ in = [data |-> <<>>, size |-> INBLOCK]
  /\ out = [length |-> 0, size |-> OUTBLOCK]
  /\ decoded = <<>>
  /\ broken = FALSE

-----------------------------------------------------------------------------

First(s, n) == SubSeq(s, 1, n)
Rest(s, n)  == SubSeq(s, n + 1, Len(s))

(* The size of a buffer of blocks of b bytes that is to hold n.            *)
Grown(size, n, b) == IF size < n THEN (n \div b) * b + b ELSE size

PutIn(data) == in' = [data |-> data, size |-> Grown(in.size, Len(data), INBLOCK)]

(* The length of the frame that begins with these two bytes.               *)
LengthOf(head) ==
  IF head[1][2] = 1 /\ head[2] = <<head[1][1], 2>> THEN frames[head[1][1]] ELSE 0

(* tsilk_in is called: with a frame begun it resumes it.                   *)
Feed ==
  /\ pc = "idle" /\ ~broken
  /\ \E n \in ChunkLen :
       /\ fed + n <= Total
       /\ chunk' = Wire(fed, fed + n)
       /\ fed' = fed + n
  /\ pc' = IF Len(in.data) > 0 THEN "resume" ELSE "loop"
  /\ UNCHANGED <<frames, in, out, decoded, broken>>

Decode(payload) ==
  /\ \E n \in PcmLen :
       out' = [length |-> out.length + n,
               size   |-> Grown(out.size, out.length + n, OUTBLOCK)]
  /\ decoded' = Append(decoded, payload)

(* The second byte of the length comes with this chunk.                    *)
CompleteLength ==
  /\ pc = "resume" /\ Len(in.data) < SHORT
  /\ LET n == SHORT - Len(in.data)
     IN  /\ in' = [in EXCEPT !.data = @ \o First(chunk, n)]
         /\ chunk' = Rest(chunk, n)
  /\ UNCHANGED <<frames, fed, pc, out, decoded, broken>>

WholeAgain == LengthOf(in.data)

(* Bytes that the frame begun is still short of.                           *)
Wanted == LengthOf(in.data) - Len(in.data) + SHORT

StillIncomplete ==
  /\ pc = "resume" /\ Len(in.data) >= SHORT
  /\ LengthOf(in.data) >= 1
  /\ Len(chunk) < Wanted
  /\ PutIn(in.data \o chunk)
  /\ chunk' = <<>>
  /\ pc' = "idle"
  /\ UNCHANGED <<frames, fed, out, decoded, broken>>

(* What ptk->in holds once its frame is decoded.                           *)
AfterFrame == <<>>

CompleteFrame ==
  /\ pc = "resume" /\ Len(in.data) >= SHORT
  /\ LengthOf(in.data) >= 1
  /\ Len(chunk) >= Wanted
  /\ Decode(Rest(in.data, SHORT) \o First(chunk, Wanted))
  /\ in' = [data |-> AfterFrame,
            size |-> Grown(in.size, SHORT + LengthOf(in.data), INBLOCK)]
  /\ chunk' = Rest(chunk, Wanted)
  /\ pc' = "loop"
  /\ UNCHANGED <<frames, fed, broken>>

(* Not even a whole length is left of the chunk.                           *)
KeepPartOfLength ==
  /\ pc = "loop" /\ Len(chunk) < SHORT
  /\ in' = [in EXCEPT !.data = chunk]
  /\ chunk' = <<>>
  /\ pc' = "idle"
  /\ UNCHANGED <<frames, fed, out, decoded, broken>>

(* The length has been consumed: it is copied to ptk->in again.            *)
WithLength == First(chunk, SHORT) \o Rest(chunk, SHORT)

KeepPartOfFrame ==
  /\ pc = "loop" /\ Len(chunk) >= SHORT
  /\ LengthOf(chunk) >= 1
  /\ Len(chunk) - SHORT < LengthOf(chunk)
  /\ PutIn(WithLength)
  /\ chunk' = <<>>
  /\ pc' = "idle"
  /\ UNCHANGED <<frames, fed, out, decoded, broken>>

WholeFrame ==
  /\ pc = "loop" /\ Len(chunk) >= SHORT
  /\ LengthOf(chunk) >= 1
  /\ Len(chunk) - SHORT >= LengthOf(chunk)
  /\ Decode(First(Rest(chunk, SHORT), LengthOf(chunk)))
  /\ chunk' = Rest(chunk, SHORT + LengthOf(chunk))
  /\ UNCHANGED <<frames, fed, pc, in, broken>>

(* tsilk_in returns -1, and the stream is given up: its place is lost.     *)
GiveUp == /\ broken' = TRUE
          /\ pc' = "idle"
          /\ UNCHANGED <<frames, fed, chunk, out, decoded>>

BadLength == \/ pc = "resume" /\ Len(in.data) >= SHORT /\ LengthOf(in.data) < 1
             \/ pc = "loop" /\ Len(chunk) >= SHORT /\ LengthOf(chunk) < 1

RefuseLength ==
  /\ BadLength
  /\ GiveUp
  /\ UNCHANGED in

(* The codec returns an error for the frame.                               *)
DecodeFailed ==
  /\ DecodeMayFail /\ ~BadLength
  /\ \/ /\ pc = "resume" /\ Len(in.data) >= SHORT /\ Len(chunk) >= Wanted
        /\ in' = [data |-> AfterFrame,
                  size |-> Grown(in.size, SHORT + LengthOf(in.data), INBLOCK)]
     \/ /\ pc = "loop" /\ Len(chunk) >= SHORT
        /\ Len(chunk) - SHORT >= LengthOf(chunk)
        /\ UNCHANGED in
  /\ GiveUp

(* tsilk_out is asked for all there is.                                    *)
LeftInOut == 0

TakeOut ==
  /\ pc = "idle" /\ out.length > 0
  /\ out' = [out EXCEPT !.length = LeftInOut]
  /\ UNCHANGED <<frames, fed, pc, chunk, in, decoded, broken>>

Next ==
  \/ Feed \/ CompleteLength \/ StillIncomplete \/ CompleteFrame
  \/ KeepPartOfLength \/ KeepPartOfFrame \/ WholeFrame
  \/ RefuseLength \/ DecodeFailed \/ TakeOut

Spec == Init /\ [][Next]_vars

-----------------------------------------------------------------------------
(* Properties.                                                             *)

Byte == (1..MaxFrames) \X Nat

(* Every variable has the type of the object it stands for.                *)
TypeOK ==
  /\ frames \in Seq(FrameLen)
  /\ fed \in 0..Total
  /\ pc \in {"idle", "resume", "loop"}
  /\ chunk \in Seq(Byte)
  /\ in \in [data: Seq(Byte), size: Nat]
  /\ out \in [length: Nat, size: Nat]
  /\ decoded \in Seq(Seq(Byte))
  /\ broken \in BOOLEAN

(* The codec gets the frames of the stream whole, in order, none twice and *)
(* none left out, wherever the stream was cut.                             *)
FramesIntact ==
  \A k \in DOMAIN decoded :
    k \in DOMAIN frames /\ decoded[k] = [i \in 1..frames[k] |-> <<k, SHORT + i>>]

(* When tsilk_in returns it has decoded every frame that has come whole.   *)
DecodedPromptly ==
  pc = "idle" /\ ~broken =>
    Len(decoded) = Cardinality({k \in DOMAIN frames : Before[k + 1] <= fed})

(* What is written to ptk->in and ptk->out is inside their allocations.    *)
BuffersFit == Len(in.data) <= in.size /\ out.length <= out.size

(* A length is refused only in a damaged stream, and then at the frame     *)
(* that comes next: the place in the stream is never lost before.          *)
RefusedRightly ==
  BadLength => LET k == Len(decoded) + 1
               IN  k \in DOMAIN frames /\ frames[k] = 0

=============================================================================
