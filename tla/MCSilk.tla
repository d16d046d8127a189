------------------------------- MODULE MCSilk --------------------------------
(***************************************************************************)
(* Instances of both halves of tsilk.c for TLC.  A tsilk object is an      *)
(* encoder or a decoder, as the edc it was made with says (tsilk_init):    *)
(* a behaviour is one of SilkEncoder or one of SilkDecoder.  The sizes of  *)
(* encoded audio are those of the code, a frame is two bytes long instead  *)
(* of 960; the decoder's frames are short and its blocks small, so that    *)
(* cuts fall everywhere and the buffers have to grow.                      *)
(***************************************************************************)
EXTENDS SilkEncoder, FiniteSets

CONSTANTS
  INBLOCK, OUTBLOCK, FrameLen, PcmLen, DecodeMayFail, MaxFrames,
  PieceLen        (* lengths of the chunks the decoder is given             *)

ASSUME BlockAssumption == INBLOCK \in Nat \ {0, 1} /\ OUTBLOCK \in Nat \ {0}
ASSUME PieceAssumption == /\ FrameLen \subseteq Nat /\ PcmLen \subseteq Nat
                          /\ PieceLen \subseteq Nat \ {0}
ASSUME LimitAssumption == MaxBytes \in Nat /\ MaxFrames \in Nat

VARIABLES
  edc,            (* 1 or 2: encoder or decoder                             *)
  frames, came, dpc, piece, din, dout, decoded, refused   (* the decoder's  *)

decoder == <<frames, came, dpc, piece, din, dout, decoded, refused>>

D == INSTANCE SilkDecoder
       WITH ChunkLen <- PieceLen, fed <- came, pc <- dpc, chunk <- piece,
            in <- din, out <- dout, broken <- refused

NoDecoder ==
  /\ frames = <<>> /\ came = 0 /\ dpc = "idle" /\ piece = <<>>
  /\ din = [data |-> <<>>, size |-> INBLOCK] /\ dout = [length |-> 0, size |-> OUTBLOCK]
  /\ decoded = <<>> /\ refused = FALSE

Made == /\ Init
        /\ \/ edc = 1 /\ NoDecoder
           \/ edc = 2 /\ D!Init

Used == \/ edc = 1 /\ Next /\ UNCHANGED <<edc, decoder>>
        \/ edc = 2 /\ D!Next /\ UNCHANGED <<edc, vars>>

CodecSpec == Made /\ [][Used]_<<edc, decoder, vars>>

-----------------------------------------------------------------------------
(* The invariants: those of SilkEncoder, and of SilkDecoder these.          *)

(* Every variable has the type of the object it stands for.                *)
TypesOK == TypeOK /\ D!TypeOK

(* The codec gets the frames of the stream whole, in order, none twice;    *)
(* when tsilk_in returns it has decoded every frame that has come whole;   *)
(* a length is refused only where the stream is damaged; and what is       *)
(* written to ptk->in and ptk->out is inside their allocations.            *)
StreamDecoded ==
  D!FramesIntact /\ D!DecodedPromptly /\ D!RefusedRightly /\ D!BuffersFit

=============================================================================
