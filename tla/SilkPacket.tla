------------------------------ MODULE SilkPacket -----------------------------
(***************************************************************************)
(* How libsilk makes packets of frames and frames of packets:              *)
(* SKP_Silk_SDK_Encode (SKP_Silk_enc_API.c), SKP_Silk_encode_frame_FIX and *)
(* the redundant second coding of a packet it sends with the next one      *)
(* (LBRR), the part of SKP_Silk_control_encoder_FIX that touches packets,  *)
(* SKP_Silk_SDK_Decode and SKP_Silk_SDK_search_for_LBRR                    *)
(* (SKP_Silk_dec_API.c), SKP_Silk_decode_frame and decode_parameters.      *)
(*                                                                         *)
(* Only the first frame of a packet is coded for itself and names its      *)
(* rate: the type and the gains of the others are coded with those of the  *)
(* frame before.  A frame is therefore its number (of which a few suffice, *)
(* as for the two bits of it the code sends as Seed), whether it is coded  *)
(* as a first one, and its rate.                                           *)
(* Audio comes in halves of a frame (10 ms).                               *)
(***************************************************************************)
EXTENDS Integers, Sequences, SequencesExt

CONSTANTS
  Rate,           (* internal sampling rates                                *)
  PacketFrames,   (* packet lengths callers ask for, in frames              *)
  MAX_FRAMES_PER_PACKET,
  NO_SPEECH_FRAMES_BEFORE_DTX, MAX_CONSECUTIVE_DTX,
  Numbers         (* bound: frame numbers start again after these           *)

VARIABLES
  enc,            (* the encoder's state                                    *)
  call,           (* the SKP_Silk_SDK_Encode in progress: halves of a frame *)
                  (* still to take, payloads it has made; or none           *)
  net,            (* the payload under way, if any                          *)
  dec             (* the decoder's state, and the application's round it    *)

vars == <<enc, call, net, dec>>

NOT_IN_CALL == [open |-> FALSE, left |-> 0, out |-> <<>>]
Empty  == [frames |-> <<>>, error |-> FALSE]     (* SKP_Silk_range_enc_init *)
Following(no)    == (no + 1) % Numbers

Init ==
  /\ enc = [fs_kHz |-> 0, PacketSize |-> 1, controlled |-> FALSE, LBRR_enabled |-> FALSE,
            useDTX |-> FALSE, inputBuf |-> 0, nFrames |-> 0, sRC |-> Empty,
            sRC_LBRR |-> Empty, LBRR_buffer |-> <<>>,
            noSpeech |-> 0, inDTX |-> FALSE, frameCounter |-> 0,
            silent |-> TRUE, voiceLost |-> FALSE]
  /\ call = NOT_IN_CALL
  /\ net = <<>>
  /\ dec = [fs_kHz |-> 0, last |-> 0, nFramesDecoded |-> 0,
            payload |-> <<>>, damaged |-> FALSE, missed |-> FALSE, understood |-> TRUE]

-----------------------------------------------------------------------------
(* SKP_Silk_control_encoder_FIX: SKP_Silk_setup_packetsize_FIX, then       *)
(* SKP_Silk_setup_fs_FIX, which drops what is coded and what is buffered.  *)
PacketSet(e, frames) ==
  IF e.PacketSize = frames THEN e
  ELSE [e EXCEPT !.PacketSize = frames, !.LBRR_buffer = <<>>]      (* SKP_Silk_LBRR_reset *)

(* mutant: the frames coded at the old rate stay in the payload            *)
RateSetAlone(e, fs) ==
  IF e.fs_kHz = fs THEN e
  ELSE [e EXCEPT !.fs_kHz = fs, !.inputBuf = 0, !.LBRR_buffer = <<>>]

RateSet(e, fs) ==
  IF e.fs_kHz = fs THEN e
  ELSE [e EXCEPT !.fs_kHz = fs, !.inputBuf = 0, !.nFrames = 0,
                 !.LBRR_buffer = <<>>]

(* It acts once per frame encoded: enc_API.c has                           *)
(* controlled_since_last_payload forgotten at each.                        *)
Controlled(e, fs, frames, fec, dtx) ==
  IF e.controlled THEN e
  ELSE [RateSet(PacketSet(e, frames), fs) EXCEPT
          !.LBRR_enabled = fec, !.useDTX = dtx, !.controlled = TRUE]

(* SKP_Silk_SDK_Encode is called; more than a packet at a time is refused. *)
(* Callers switch the redundancy on and off between packets.  Until a      *)
(* frame is encoded, what a call asks for after the first changes nothing: *)
(* it need not be anything else.                                           *)
Call(fs, frames, fec, dtx, halves) ==
  /\ ~call.open /\ net = <<>>
  /\ dec.payload = <<>>
  /\ enc.nFrames > 0 /\ ~enc.controlled => fec = enc.LBRR_enabled
  /\ enc.controlled => /\ fs = enc.fs_kHz /\ frames = enc.PacketSize
                       /\ fec = enc.LBRR_enabled /\ dtx = enc.useDTX
  /\ enc' = Controlled(enc, fs, frames, fec, dtx)
  /\ call' = IF halves > 2 * enc'.PacketSize THEN call
             ELSE [open |-> TRUE, left |-> halves, out |-> <<>>]
  /\ UNCHANGED <<net, dec>>

-----------------------------------------------------------------------------
(* SKP_Silk_encode_parameters: a coder that is full takes no more.         *)
Coded(rc, f, full) ==
  IF rc.error \/ full THEN [rc EXCEPT !.error = TRUE]
  ELSE [rc EXCEPT !.frames = Append(@, f)]

Continued(rc) == IF enc.nFrames = 0 THEN Empty ELSE rc

(* SKP_Silk_LBRR_encode_FIX: the coder after the frame, and the packet's   *)
(* second coding when it is complete.                                      *)
LBRRCoder(f, full) ==
  IF enc.LBRR_enabled THEN Coded(Continued(enc.sRC_LBRR), f, full) ELSE enc.sRC_LBRR

LBRRPayload(coder) ==
  IF enc.LBRR_enabled /\ ~coder.error /\ enc.nFrames + 1 >= enc.PacketSize
  THEN coder.frames ELSE <<>>

(* Speech activity into the DTX flags.                                     *)
Activity(e, voice) ==
  IF voice # "none" THEN [e EXCEPT !.noSpeech = 0, !.inDTX = FALSE]
  ELSE IF e.noSpeech + 1 > MAX_CONSECUTIVE_DTX + NO_SPEECH_FRAMES_BEFORE_DTX
       THEN [e EXCEPT !.noSpeech = NO_SPEECH_FRAMES_BEFORE_DTX, !.inDTX = FALSE]
       ELSE [e EXCEPT !.noSpeech = @ + 1,
                      !.inDTX = @ \/ e.noSpeech + 1 > NO_SPEECH_FRAMES_BEFORE_DTX]

(* The payload: the packet's frames, and behind them the second coding of  *)
(* the packet before when it is wanted and there is room.  What it is the  *)
(* coding of, and whether the packet is all silence, is for the properties.*)
Payload(coder, room, silent) ==
  LET added == enc.LBRR_buffer # <<>> /\ room
  IN  [frames |-> coder.frames,
       lbrr   |-> IF added THEN enc.LBRR_buffer[1].payload ELSE <<>>,
       before |-> IF added THEN enc.LBRR_buffer[1].of ELSE <<>>,
       silent |-> silent]

(* What LBRR_buffer keeps for the next packet.  Of its two places only the *)
(* newer is ever read: no packet's usage is SKP_SILK_ADD_LBRR_TO_PLUS2.    *)
Kept(lbrr, coder, voice) ==
  IF enc.LBRR_enabled /\ voice = "speech"
  THEN <<[payload |-> LBRRPayload(lbrr), of |-> coder.frames]>> ELSE <<>>

(* A frame is complete: SKP_Silk_encode_frame_FIX.  Either coder may be    *)
(* full, the caller's buffer too short for the payload or for both.        *)
FrameEncoded(voice, full, fullLBRR, fits, room) ==
  LET f      == [no |-> enc.frameCounter, first |-> enc.nFrames = 0,
                 fs_kHz |-> enc.fs_kHz]
      lbrr   == LBRRCoder(f, fullLBRR)
      coder  == Coded(Continued(enc.sRC), f, full)
      n      == IF coder.error THEN 0 ELSE enc.nFrames + 1
      ends   == n >= enc.PacketSize
      goesOn == n > 0 /\ ~ends
      silent == voice = "none" /\ (enc.nFrames = 0 \/ enc.silent)
      next   == [Activity(enc, voice) EXCEPT
                   !.frameCounter = Following(enc.frameCounter),
                   !.inputBuf = 0, !.controlled = FALSE,
                   !.nFrames  = IF goesOn THEN n ELSE 0,
                   !.sRC      = IF goesOn THEN coder ELSE Empty,
                   !.sRC_LBRR = IF goesOn THEN lbrr ELSE Empty,
                   !.silent   = goesOn => silent]
  IN  /\ fullLBRR => enc.LBRR_enabled
      /\ ~ends => fits
      /\ ~(ends /\ fits) \/ enc.LBRR_buffer = <<>> => room
      /\ enc' = IF ends /\ fits
                THEN [next EXCEPT !.LBRR_buffer = Kept(lbrr, coder, voice)]
                ELSE next
      /\ call' = [call EXCEPT
                    !.left = @ - (2 - enc.inputBuf),
                    !.out  = IF ends /\ fits
                             THEN Append(@, Payload(coder, room, silent)) ELSE @]

EncodeFrame ==
  /\ call.open /\ enc.inputBuf + call.left >= 2
  /\ \E voice \in {"none", "some", "speech"}, full, fullLBRR, fits, room \in BOOLEAN :
       FrameEncoded(voice, full, fullLBRR, fits, room)
  /\ UNCHANGED <<net, dec>>

(* The rest is buffered and the call returns, without the payload when the *)
(* last frame was in a pause.                                              *)
Return ==
  /\ call.open /\ enc.inputBuf + call.left < 2
  /\ call' = NOT_IN_CALL
  /\ LET pause == enc.useDTX /\ enc.inDTX
     IN  /\ net' = IF pause \/ call.out = <<>> THEN <<>>
                  ELSE <<[call.out[1] EXCEPT !.silent = TRUE]>>
         /\ enc' = [enc EXCEPT
                      !.inputBuf = @ + call.left,
                      !.voiceLost = /\ pause /\ call.out # <<>>
                                    /\ ~call.out[1].silent
                                    /\ Following(Last(call.out[1].frames).no) = enc.frameCounter]
  /\ UNCHANGED dec

-----------------------------------------------------------------------------
(* The network loses or damages payloads; the application conceals a lost  *)
(* one, and before it decodes the next looks there for its second coding.  *)
Idle == dec.payload = <<>>

Lose ==
  /\ net # <<>> /\ Idle
  /\ net' = <<>>
  /\ dec' = [dec EXCEPT !.missed = TRUE]
  /\ UNCHANGED <<enc, call>>

(* SKP_Silk_SDK_search_for_LBRR, offset 1: nothing in a corrupt stream.    *)
Search ==
  /\ net # <<>> /\ Idle /\ dec.missed
  /\ dec' = [dec EXCEPT !.missed = FALSE, !.payload = net[1].lbrr]
  /\ UNCHANGED <<enc, call, net>>

Receive ==
  /\ net # <<>> /\ Idle
  /\ \E damaged \in BOOLEAN :
       dec' = [dec EXCEPT !.missed = FALSE, !.damaged = damaged,
                          !.payload = net[1].frames]
  /\ net' = <<>>
  /\ UNCHANGED <<enc, call>>

(* SKP_Silk_SDK_Decode of a good payload: one frame of it.  The decoder    *)
(* takes the rate from a first frame and the context from the last one;    *)
(* the application comes back while moreInternalDecoderFrames says so, and *)
(* nFramesDecoded starts at 0 with the next payload.                       *)
DecodeFrame ==
  /\ dec.payload # <<>> /\ ~dec.damaged
  /\ LET i     == dec.nFramesDecoded
         f     == dec.payload[i + 1]
         fs    == IF i = 0 THEN f.fs_kHz ELSE dec.fs_kHz
         more  == i + 1 < Len(dec.payload) /\ i + 1 < MAX_FRAMES_PER_PACKET
     IN  dec' = [dec EXCEPT
                   !.fs_kHz = fs,
                   !.nFramesDecoded = IF more THEN i + 1 ELSE 0,
                   !.last           = IF more THEN f.no ELSE 0,
                   !.payload        = IF more THEN @ ELSE <<>>,
                   !.understood = /\ f.first <=> i = 0
                                  /\ f.first \/ f.no = Following(dec.last)
                                  /\ f.fs_kHz = fs]
  /\ UNCHANGED <<enc, call, net>>

(* Of a damaged one: an error, after which the rate is again the one       *)
(* before, or whatever the bits happen to say.                             *)
DecodeDamaged ==
  /\ dec.payload # <<>> /\ dec.damaged
  /\ \/ dec' = [dec EXCEPT !.damaged = FALSE, !.nFramesDecoded = 0, !.payload = <<>>]
     \/ \E fs \in Rate, more \in BOOLEAN :
          /\ dec.nFramesDecoded > 0 => fs = dec.fs_kHz
          /\ more => dec.nFramesDecoded + 1 < MAX_FRAMES_PER_PACKET
          /\ dec' = [dec EXCEPT
                       !.fs_kHz = fs,
                       !.damaged        = more,
                       !.nFramesDecoded = IF more THEN @ + 1 ELSE 0,
                       !.payload        = IF more THEN @ ELSE <<>>]
  /\ UNCHANGED <<enc, call, net>>

Next ==
  \/ \E fs \in Rate, frames \in PacketFrames, fec, dtx \in BOOLEAN :
       \E halves \in 1..(2 * MAX_FRAMES_PER_PACKET) : Call(fs, frames, fec, dtx, halves)
  \/ EncodeFrame \/ Return
  \/ Lose \/ Search \/ Receive \/ DecodeFrame \/ DecodeDamaged

-----------------------------------------------------------------------------
(* Whatever is lost, damaged, discarded or suppressed, and whenever rate,  *)
(* packet length and redundancy change, the decoder reads a frame of a     *)
(* good payload in the context it was coded in.  The second coding it      *)
(* finds for a lost packet is that of the packet before the one it is in.  *)
(* A call never makes a second payload, which would overwrite the first.   *)
(* The payload a pause suppresses is all silence, when the call ends with  *)
(* it.                                                                     *)
PacketsUnderstood ==
  /\ dec.understood
  /\ net # <<>> /\ net[1].lbrr # <<>> => net[1].lbrr = net[1].before
  /\ Len(call.out) <= 1
  /\ ~enc.voiceLost

-----------------------------------------------------------------------------
(* The inductive invariant.                                                *)

Frame  == [no : 0 .. Numbers - 1, first : BOOLEAN, fs_kHz : Rate \cup {0}]
Coder  == [frames : Seq(Frame), error : BOOLEAN]
Payloads == [frames : Seq(Frame), lbrr : Seq(Frame), before : Seq(Frame), silent : BOOLEAN]

TypeOK ==
  /\ enc \in [fs_kHz : Rate \cup {0}, PacketSize : 1..MAX_FRAMES_PER_PACKET,
              controlled : BOOLEAN, LBRR_enabled : BOOLEAN, useDTX : BOOLEAN,
              inputBuf : {0, 1}, nFrames : 0 .. MAX_FRAMES_PER_PACKET - 1,
              sRC : Coder, sRC_LBRR : Coder,
              LBRR_buffer : Seq([payload : Seq(Frame), of : Seq(Frame)]),
              noSpeech : Nat, inDTX : BOOLEAN, frameCounter : 0 .. Numbers - 1,
              silent : BOOLEAN, voiceLost : BOOLEAN]
  /\ call \in [open : BOOLEAN, left : Nat, out : Seq(Payloads)]
  /\ net \in Seq(Payloads)
  /\ dec \in [fs_kHz : Rate \cup {0}, last : 0 .. Numbers - 1, nFramesDecoded : Nat,
              payload : Seq(Frame), damaged : BOOLEAN, missed : BOOLEAN,
              understood : BOOLEAN]

(* Frames coded one after the other, at one rate, the first for itself.    *)
OnePacket(frames) ==
  \A i \in DOMAIN frames :
    /\ frames[i].first <=> i = 1
    /\ frames[i].fs_kHz = frames[1].fs_kHz
    /\ i > 1 => frames[i].no = Following(frames[i - 1].no)

(* The frames coded so far are a packet that goes on with the next frame;  *)
(* so is their second coding, unless it failed; and what DTX has counted   *)
(* is silence of the packet, if it goes back so far.                       *)
Coding ==
  enc.nFrames > 0 =>
    /\ Len(enc.sRC.frames) = enc.nFrames /\ ~enc.sRC.error
    /\ OnePacket(enc.sRC.frames)
    /\ enc.sRC.frames[1].fs_kHz = enc.fs_kHz
    /\ Following(Last(enc.sRC.frames).no) = enc.frameCounter
    /\ enc.LBRR_enabled => enc.sRC_LBRR.error \/ enc.sRC_LBRR.frames = enc.sRC.frames
    /\ enc.noSpeech >= enc.nFrames => enc.silent

Buffering ==
  \A k \in DOMAIN enc.LBRR_buffer :
    /\ enc.LBRR_buffer[k].payload \in {<<>>, enc.LBRR_buffer[k].of}
    /\ OnePacket(enc.LBRR_buffer[k].payload)

Good(p) ==
  /\ p.frames # <<>> /\ OnePacket(p.frames)
  /\ p.lbrr \in {<<>>, p.before} /\ OnePacket(p.lbrr)

(* A call that has made a payload has not the audio for another; "since"   *)
(* frames have been coded after it.  If there are none, then only silence  *)
(* makes a pause.                                                          *)
Since(since) ==
  LET next == Following(Last(call.out[1].frames).no)
  IN  /\ 2 * since + enc.inputBuf + call.left < 2 * enc.PacketSize
      /\ enc.frameCounter \in {next + since, next + since - Numbers}
      /\ since = 0 => call.out[1].silent \/ ~enc.inDTX

Calling ==
  /\ ~call.open => call = NOT_IN_CALL
  /\ Len(call.out) <= 1
  /\ \A k \in DOMAIN call.out : Good(call.out[k])
  /\ call.open /\ call.out = <<>> => enc.inputBuf + call.left <= 2 * enc.PacketSize + 1
  /\ call.out # <<>> =>
       /\ enc.inputBuf + call.left < 2 * (enc.PacketSize - enc.nFrames)
       /\ \E since \in 0..MAX_FRAMES_PER_PACKET : Since(since)
  /\ enc.inDTX => enc.noSpeech > NO_SPEECH_FRAMES_BEFORE_DTX
  /\ ~enc.voiceLost

Decoding ==
  /\ \A k \in DOMAIN net : Good(net[k])
  /\ OnePacket(dec.payload)
  /\ dec.payload = <<>> => dec.nFramesDecoded = 0 /\ ~dec.damaged
  /\ dec.payload # <<>> /\ ~dec.damaged =>
       /\ dec.nFramesDecoded < Len(dec.payload)
       /\ dec.nFramesDecoded > 0 => /\ dec.last = dec.payload[dec.nFramesDecoded].no
                                    /\ dec.fs_kHz = dec.payload[1].fs_kHz
  /\ dec.understood

PacketInv == TypeOK /\ Coding /\ Buffering /\ Calling /\ Decoding

=============================================================================
