-------------------------- MODULE UploadInvariant --------------------------
(***************************************************************************)
(* More inductive invariants of VoiceSession, each on top of IInv:         *)
(* where the process globals point while sessions do not overlap, and what *)
(* becomes of the packets of a session of one utterance.  TLC checks them  *)
(* on an instance; VoiceUploadProofs proves them for every instance.       *)
(***************************************************************************)
EXTENDS VoiceInvariant

-----------------------------------------------------------------------------
(* One session at a time (~Overlapping).                                   *)

(* From the accepted SessionBegin to the end of the upload loop the cookie *)
(* and the address of the process are those of the session.                *)
Uploads(s) == \/ worker[s].pc \in LoopLabels \cup {"created"}
              \/ \E c \in Caller : call[c].pc = "spawn" /\ call[c].s = s

Bound ==
  \A s \in Session : Uploads(s) =>
    session_id = s /\ server[s].home = g_configs.m_server_addr

(* A session the service was told to end is deleted, or about to be.       *)
ToldLast ==
  \A s \in Session : server[s].told =>
    \/ sp[s].state = "freed"
    \/ \E c \in Caller : call[c].pc = "free" /\ call[c].s = s

(* Nothing has been received of a session that never had an upload thread. *)
NothingYet ==
  \A s \in Session :
    worker[s].pc \in {"none", "created"} => server[s].rcvd = <<>>

OneAtATime == /\ CurlOwned
              /\ Bound
              /\ ToldLast
              /\ NothingYet
              /\ EndOKMeansTold
              /\ UploadAffinity

-----------------------------------------------------------------------------
(* One utterance (~ReuseSession).                                          *)

Pushing(s) == call[Recorder].pc \in {"push", "pushing"} /\ call[Recorder].s = s

(* The packets of s that are somewhere on their way, or received.          *)
Known(s) ==
  {m_data[s].q_buf[i] : i \in DOMAIN m_data[s].q_buf}
    \cup {server[s].rcvd[i].pkt : i \in DOMAIN server[s].rcvd}
    \cup (IF worker[s].pc \in PacketLabels THEN {worker[s].pkt} ELSE {})
    \cup (IF Pushing(s) THEN {call[Recorder].pkt} ELSE {})

(* How many packets the upload thread has taken from the queue, and how    *)
(* many the service has.                                                   *)
Popped(s) == sp[s].m_audio_index - Len(m_data[s].q_buf) - (IF Pushing(s) THEN 1 ELSE 0)

LastReceived(s) == server[s].rcvd[Len(server[s].rcvd)].pkt

Received(s) == IF server[s].rcvd = <<>> THEN 0 ELSE LastReceived(s).audio_index + 1

(* PostData's second attempt was received as well as its first.            *)
Retried(s) ==
  \E i \in 2..Len(server[s].rcvd) : server[s].rcvd[i].pkt = server[s].rcvd[i-1].pkt

(* Until CloudVDStartSession has returned nothing is posted; an upload     *)
(* thread belongs to a session that started.                               *)
Begun ==
  /\ \A c \in Caller :
       /\ call[c].pc \in {"push", "pushing"} => c = Recorder
       /\ call[c].pc \in {"begin", "spawn", "spawned"} =>
            /\ sp[call[c].s].start = NULL
            /\ sp[call[c].s].m_packet_id = IF call[c].pc = "begin" THEN 1 ELSE 3
  /\ \A s \in Session : Live(s) =>
       /\ worker[s].pc # "none" => sp[s].start \in {NULL, "SUCCESS"}
       /\ sp[s].start = NULL =>
            /\ sp[s].m_audio_index = 0 /\ sp[s].posts = 0 /\ ~sp[s].closed
            /\ m_data[s].q_buf = <<>> /\ ~Pushing(s)

(* The counters of SessionParam, and the packets they were written into.   *)
Counters(s) ==
  /\ sp[s].posts = 0 => sp[s].m_audio_index = 0
  /\ sp[s].closed => sp[s].m_audio_index > 0
  /\ sp[s].start = "SUCCESS" => sp[s].m_packet_id = 2 * sp[s].m_audio_index + 3

Stamped(s) ==
  \A p \in Known(s) :
    /\ p.audio_index < sp[s].m_audio_index
    /\ p.upto \in 1..sp[s].posts
    /\ p.b_Last <=> (sp[s].closed /\ p.audio_index + 1 = sp[s].m_audio_index)
    /\ p.b_Last => p.upto = sp[s].posts
    /\ sp[s].start = "SUCCESS" => p.packet_id = 2 * p.audio_index + 3

Ordered(s) ==
  \A p, o \in Known(s) : /\ p.audio_index < o.audio_index => p.upto < o.upto
                         /\ p.audio_index = o.audio_index => p = o

(* Where the packets are.                                                  *)
Placed(s) ==
  /\ Pushing(s) => call[Recorder].pkt.audio_index + 1 = sp[s].m_audio_index
  /\ \A i \in DOMAIN m_data[s].q_buf :
       m_data[s].q_buf[i].audio_index + 1 = Popped(s) + i
  /\ worker[s].pc \in PacketLabels => worker[s].pkt.audio_index + 1 = Popped(s)

(* Until an upload fails the service has every packet taken from the queue *)
(* but the one that is being uploaded.                                     *)
Sending(s) == worker[s].pc = "send" \/ (worker[s].pc = "retry" /\ ~worker[s].cut)

BusyLabels == PacketLabels \cup {"lock", "pop"}

UpToDate(s) ==
  /\ UploadFailed(s) => worker[s].pc \notin BusyLabels
  /\ ~UploadFailed(s) /\ worker[s].pc # "fail" =>
       Received(s) = IF Sending(s) THEN Popped(s) - 1 ELSE Popped(s)
  /\ ~UploadFailed(s) /\ worker[s].pc = "fail" =>
       Received(s) \in {Popped(s) - 1, Popped(s)}
  /\ worker[s].pc = "retry" /\ worker[s].cut =>
       \A i \in DOMAIN server[s].rcvd :
         i < Len(server[s].rcvd) => server[s].rcvd[i].pkt # worker[s].pkt

(* Half a reply is left over only from the first of two attempts.          *)
Uncut ==
  \A s \in Session :
    worker[s].pc \notin PacketLabels \/ worker[s].pc = "send" => ~worker[s].cut

(* The service has no packet without those before it.                      *)
Complete(s) ==
  /\ \A i \in DOMAIN server[s].rcvd : server[s].rcvd[i].pkt.audio_index < Received(s)
  /\ \A k \in 0..(Received(s) - 1) :
       \E i \in DOMAIN server[s].rcvd : server[s].rcvd[i].pkt.audio_index = k

(* The last packet leaves nothing behind it, and what is answered to it is *)
(* the result.                                                             *)
Over(s) ==
  /\ m_data[s].b_last \/ worker[s].pc = "last" =>
       sp[s].closed /\ m_data[s].q_buf = <<>> /\ ~Pushing(s)
  /\ m_data[s].b_last => worker[s].pc \notin BusyLabels

Answered(s) ==
  /\ worker[s].pc = "text" /\ worker[s].pkt.b_Last /\ worker[s].reply.code = "SUCCESS" =>
       worker[s].reply.text = worker[s].pkt.upto \/ Retried(s)
  /\ worker[s].pc = "code" /\ worker[s].pkt.b_Last /\ worker[s].reply.code = "SUCCESS" =>
       m_data[s].text = worker[s].pkt.upto \/ Retried(s)
  /\ (m_data[s].b_last \/ worker[s].pc = "last")
       /\ ~UploadFailed(s) /\ m_data[s].error_code = "SUCCESS" =>
       m_data[s].text = sp[s].posts \/ Retried(s)

Utterance(s) ==
  Live(s) => /\ Counters(s)
             /\ Stamped(s)
             /\ Ordered(s)
             /\ Placed(s)
             /\ UpToDate(s)
             /\ Complete(s)
             /\ Over(s)
             /\ Answered(s)

(* A final result is handed out only when it is final.                     *)
Final ==
  \A c \in Caller : LET s == call[c].s IN
    call[c].pc = "holding" =>
      /\ call[c].ret = "ERR_NET" => UploadFailed(s)
      /\ ~sp[s].vinput => UploadFailed(s) \/ m_data[s].b_last
      /\ ~sp[s].vinput /\ call[c].ret = "SUCCESS" =>
           UploadFailed(s) \/ m_data[s].error_code = "SUCCESS"

OneUtterance == /\ Begun
                /\ NothingYet
                /\ Uncut
                /\ GaplessUpload
                /\ Final
                /\ \A s \in Session : Utterance(s)

-----------------------------------------------------------------------------
(* What no upload thread has touched yet, or touches any more.             *)

Fresh ==
  \A s \in Session :
    /\ worker[s].pc \notin PacketLabels => worker[s].pkt = NULL
    /\ worker[s].pc \in {"none", "created"} => ~UploadFailed(s) /\ ~m_data[s].b_last
    /\ m_data[s].b_last => Live(s)
    /\ sp[s].state = "unused" => m_data[s].q_buf = <<>>

(* TLC checks all three at once.                                           *)
UploadInv == /\ Fresh
             /\ ~Overlapping => OneAtATime
             /\ ~ReuseSession => OneUtterance

=============================================================================
