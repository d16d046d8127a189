----------------------------- MODULE VoiceStream -----------------------------
(***************************************************************************)
(* VoiceSession implements AudioStream: the refinement mapping.  It is for *)
(* sessions of one utterance (ReuseSession = FALSE, TrustHandle = FALSE).  *)
(***************************************************************************)
EXTENDS VoiceSession

Numbered(p) == [n |-> p.audio_index, last |-> p.b_Last]

(* A packet received twice, by PostData's retry, is delivered once.        *)
Delivered(s) == {Numbered(server[s].rcvd[i].pkt) : i \in DOMAIN server[s].rcvd}

(* The packet the upload thread has popped, until the service has it; then *)
(* the queue; then the packet the recorder is about to push.               *)
InFlight(s) ==
  IF worker[s].pkt # NULL /\ Numbered(worker[s].pkt) \notin Delivered(s)
  THEN <<Numbered(worker[s].pkt)>> ELSE <<>>

Queued(s) == [i \in DOMAIN m_data[s].q_buf |-> Numbered(m_data[s].q_buf[i])]

Posting(s) ==
  IF call[Recorder].pc \in {"push", "pushing"} /\ call[Recorder].s = s
  THEN <<Numbered(call[Recorder].pkt)>> ELSE <<>>

(* The two flags CloudVDGetResult polls, while there is a thread that may  *)
(* still upload.                                                           *)
Outcome(s) ==
  IF worker[s].pc \in {"log", "dead"} \/ sp[s].state = "freed" THEN "over"
  ELSE IF UploadFailed(s) THEN "failed"
  ELSE IF m_data[s].b_last THEN "complete" ELSE "open"

Pending(s) ==
  IF Outcome(s) = "open" THEN InFlight(s) \o Queued(s) \o Posting(s) ELSE <<>>

Stream == INSTANCE AudioStream WITH
            delivered <- [s \in Session |-> Delivered(s)],
            pending   <- [s \in Session |-> Pending(s)],
            outcome   <- [s \in Session |-> Outcome(s)]

(* Every behaviour of the interface, its threads and the exchanges is one  *)
(* of the audio stream: in particular a failed upload is never followed by *)
(* another one, and b_last without a network error is never early.         *)
ImplementsAudioStream == Stream!Spec

=============================================================================
