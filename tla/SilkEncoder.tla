----------------------------- MODULE SilkEncoder -----------------------------
(***************************************************************************)
(* What CloudVDPostData does with the PCM it is given when audio_quality   *)
(* is 1..10: tsilk_in cuts it into frames and encodes them, tsilk_out      *)
(* empties the output buffer into a PutAudio packet once it holds SILKSIZE *)
(* bytes or the chunk is the last one (VDPostData, tsilk.c).  Bytes of     *)
(* audio are numbered in the order the application posts them; a buffer is *)
(* the sequence of the bytes whose audio is in it.  The codec is external. *)
(***************************************************************************)
EXTENDS Integers, Sequences

CONSTANTS
  FRAME,          (* bytes of a frame: 960 in the code                      *)
  ChunkLen,       (* lengths of the chunks the application posts            *)
  CodeLen,        (* sizes the codec may give an encoded frame              *)
  EncodeMayFail,  (* TRUE: the codec may return an error                    *)
  MaxBytes        (* bound: bytes posted                                    *)

ASSUME FrameAssumption == FRAME \in Nat \ {0}
ASSUME SizesAssumption == ChunkLen \subseteq Nat /\ CodeLen \subseteq 0..1250
ASSUME FailAssumption  == EncodeMayFail \in BOOLEAN

SILKSIZE == 700
BLOCK    == 8192
SHORT    == 2       \* sizeof(short), the length before each encoded frame

VARIABLES
  pc,             (* where CloudVDPostData is                               *)
  fed,            (* bytes posted so far                                    *)
  open,           (* the utterance has begun and not ended                  *)
  last,           (* the chunk has AUDIO_STATUS_LAST                        *)
  chunk,          (* what tsilk_in has not consumed of the chunk            *)
  in,             (* ptk->in                                                *)
  held,           (* external: frames the codec has not given out yet       *)
  out,            (* ptk->out: the audio in it, its length and its size     *)
  sent,           (* the audio of the packets, in the order they are queued *)
  broken          (* the codec has failed                                   *)

vars == <<pc, fed, open, last, chunk, in, held, out, sent, broken>>

Init ==
  /\ pc = "idle"
  /\ fed = 0
  /\ open = FALSE /\ last = FALSE /\ broken = FALSE
  /\ chunk = <<>> /\ in = <<>> /\ held = <<>> /\ sent = <<>>
  /\ out = [audio |-> <<>>, length |-> 0, size |-> BLOCK]

-----------------------------------------------------------------------------

(* An utterance begins with AUDIO_STATUS_FIRST, of which the encoder is    *)
(* not told.                                                               *)
PostData ==
  /\ pc = "idle"
  /\ \E n \in ChunkLen, l \in BOOLEAN :
       /\ fed + n <= MaxBytes
       /\ l => open
       /\ chunk' = [i \in 1..n |-> fed + i]
       /\ fed' = fed + n
       /\ last' = l
       /\ open' = ~l
  /\ pc' = "tsilk_in"
  /\ UNCHANGED <<in, held, out, sent, broken>>

Missing == FRAME - Len(in)

HeaderForgotten(n) == out.size - out.length < n

(* The output buffer grows by whole blocks.                                *)
TooSmall(n) == out.size - out.length < n + SHORT

Grown(n) == ((out.length + SHORT + n) \div BLOCK) * BLOCK + BLOCK

(* An encoded frame of n bytes, and its length, go to ptk->out.            *)
Emit(audio, n) ==
  out' = [audio  |-> out.audio \o audio,
          length |-> out.length + SHORT + n,
          size   |-> IF TooSmall(n) THEN Grown(n) ELSE out.size]

LeftoverDropped == SubSeq(chunk, 1, Missing)

(* A frame is what was left of the last chunk, made up from this one.      *)
NextFrame == in \o SubSeq(chunk, 1, Missing)

EncodeFrame ==
  /\ pc = "tsilk_in"
  /\ Len(chunk) > 0 /\ Len(chunk) >= Missing
  /\ \E n \in CodeLen :
       IF n > 0
       THEN Emit(held \o NextFrame, n) /\ held' = <<>>
       ELSE held' = held \o NextFrame /\ UNCHANGED out
  /\ chunk' = SubSeq(chunk, Missing + 1, Len(chunk))
  /\ in' = <<>>
  /\ UNCHANGED <<pc, fed, open, last, sent, broken>>

(* tsilk_in returns -1, the rest of the chunk is not looked at.  For the   *)
(* last chunk VDPostData then allocates -1 bytes: an exception no code of  *)
(* the SDK catches.                                                        *)
EncodeFailed ==
  /\ pc = "tsilk_in"
  /\ EncodeMayFail
  /\ Len(chunk) > 0 /\ Len(chunk) >= Missing
  /\ broken' = TRUE
  /\ chunk' = <<>>
  /\ in' = <<>>
  /\ pc' = IF last THEN "crashed" ELSE "idle"
  /\ UNCHANGED <<fed, open, last, held, out, sent>>

Remainder == in \o chunk

(* Less than a frame is left: it waits for the next chunk.                 *)
KeepRest ==
  /\ pc = "tsilk_in"
  /\ Len(chunk) = 0 \/ Len(chunk) < Missing
  /\ in' = Remainder
  /\ chunk' = <<>>
  /\ pc' = "tsilk_out"
  /\ UNCHANGED <<fed, open, last, held, out, sent, broken>>

WaitForLast == ~last

Buffering == out.length < SILKSIZE /\ ~last

Buffer ==
  /\ pc = "tsilk_out"
  /\ Buffering
  /\ pc' = "idle"
  /\ UNCHANGED <<fed, open, last, chunk, in, held, out, sent, broken>>

SilksizeTaken == [audio |-> <<>>, length |-> out.length - SILKSIZE, size |-> out.size]

(* tsilk_out is asked for all there is.                                    *)
Emptied == [audio |-> <<>>, length |-> 0, size |-> out.size]

Queue ==
  /\ pc = "tsilk_out"
  /\ ~Buffering
  /\ sent' = sent \o out.audio
  /\ out' = Emptied
  /\ pc' = "idle"
  /\ UNCHANGED <<fed, open, last, chunk, in, held, broken>>

Next == PostData \/ EncodeFrame \/ EncodeFailed \/ KeepRest \/ Buffer \/ Queue

Spec == Init /\ [][Next]_vars

-----------------------------------------------------------------------------
(* Properties.                                                             *)

Audio == Seq(1..fed)

(* Every variable has the type of the object it stands for.                *)
TypeOK ==
  /\ pc \in {"idle", "tsilk_in", "tsilk_out", "crashed"}
  /\ fed \in 0..MaxBytes
  /\ {open, last, broken} \subseteq BOOLEAN
  /\ {chunk, in, held, sent} \subseteq Audio
  /\ out \in [audio: Audio, length: Nat, size: Nat]

(* All the audio there is, from what was queued first to what is still to  *)
(* be looked at.                                                           *)
Stream == sent \o out.audio \o held \o in \o chunk

(* As long as the codec does not fail, tsilk_in and tsilk_out neither lose *)
(* nor repeat nor reorder a byte, however the application cuts its audio.  *)
NothingLost == ~broken => Stream = [i \in 1..fed |-> i]

(* What is written to ptk->out is inside its allocation.                   *)
OutFits == out.length <= out.size

(* Between two calls less than a frame waits for the encoder and less than *)
(* SILKSIZE bytes of encoded audio wait for a packet: the audio sent lags  *)
(* behind the audio posted by a bounded amount.                            *)
LagBounded ==
  pc = "idle" /\ ~broken => Len(in) < FRAME /\ out.length < SILKSIZE

-----------------------------------------------------------------------------
(* What the repository says and the code does not do.                      *)

(* CloudVDPostData "pushes the voice data to the cloud" (header): once the *)
(* last chunk of an utterance is posted there is nothing left to push.     *)
TailUploaded == pc = "idle" /\ last /\ ~broken => Len(sent) = fed

=============================================================================
