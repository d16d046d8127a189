---------------------------- MODULE VoiceSession ----------------------------
(***************************************************************************)
(* The core of the voice SDK (VcyberVoiceSDK.cpp): the CloudVD* interface  *)
(* as application threads call it, the upload thread CloudVDStartSession   *)
(* creates for a session, and the process globals they all share.          *)
(*                                                                         *)
(* The records sp[s] and m_data[s] mirror SessionParam and dataBuf; a      *)
(* session is named by the handle it was given.  A thread's step is what   *)
(* it does between two accesses to data another thread may change.  The    *)
(* recognition server is external: it is modelled by the replies the code  *)
(* distinguishes and by a record of what reached it.                       *)
(***************************************************************************)
EXTENDS Naturals, Sequences

CONSTANTS
  Session,        (* handles: the sessions a process may ever start        *)
  Caller,         (* application threads that call the interface           *)
  Recorder,       (* the one caller that posts audio                       *)
  Server,         (* IP addresses of the recognition service               *)
  DomainName,     (* the address as configured, not yet resolved           *)
  NULL,
  LogModes,       (* the values of b_log the application may configure     *)
  MaxPosts,       (* bound: CloudVDPostData calls per session              *)
  Overlapping,    (* TRUE: a session may start before the last one ended   *)
  ReuseSession,   (* TRUE: audio may follow AUDIO_STATUS_LAST              *)
  TrustHandle     (* TRUE: the handle is used whatever StartSession says   *)

ASSUME RecorderAssumption == Recorder \in Caller
ASSUME LogModesAssumption == LogModes \subseteq BOOLEAN
ASSUME NamesAssumption    == /\ NULL \notin Session \cup Caller
                             /\ Session \cap Caller = {}
                             /\ DomainName \notin Server

VARIABLES
  ready,          (* the application is between CloudVDInit and -Fini      *)
  g_configs,      (* b_log and m_server_addr of the global configuration   *)
  p_Timelog,      (* "open", or NULL                                       *)
  session_id,     (* the cookie every upload carries                       *)
  curl,           (* the session whose easy handle the global holds, NULL  *)
  easy,           (* sessions whose easy handle has not been cleaned up    *)
  seq_lock,       (* the thread that holds the mutex, or NULL              *)
  sp,             (* SessionParam of every session                         *)
  m_data,         (* its dataBuf                                           *)
  worker,         (* its upload thread (ThreadPostData)                    *)
  call,           (* the call each application thread is in                *)
  server          (* external: what the service knows of each session      *)

vars == <<ready, g_configs, p_Timelog, session_id, curl, easy, seq_lock,
          sp, m_data, worker, call, server>>

library == <<ready, g_configs, p_Timelog>>

-----------------------------------------------------------------------------
(* Data.                                                                   *)

Code  == {"SUCCESS", "ERR_NULL_POINTER", "ERR_SERVER", "ERR_NET"}
CCode == {"CURLE_OK", "CURLE_FAILED"}

(* A PutAudio body: its two numbers, how many of the posted chunks the     *)
(* audio up to its end covers (but for the encoder's last partial frame,   *)
(* see SilkEncoder), and qBuf.b_Last.                                      *)
Packet == [packet_id: Nat, audio_index: Nat, upto: Nat, b_Last: BOOLEAN]

(* What PostData reads in a reply: error_code, and the recognition text,   *)
(* named by the audio it answers (0: the reply carries none).              *)
Reply == [code: Code, text: Nat]

(* NULL is none of these.                                                  *)
ASSUME NullAssumption == NULL \notin Code \cup Packet

Replies(p) ==
  {[code |-> "SUCCESS", text |-> p.upto], [code |-> "ERR_SERVER", text |-> 0]}
    \cup IF p.b_Last THEN {} ELSE {[code |-> "SUCCESS", text |-> 0]}

NewParam(vin) ==
  [state |-> "live", start |-> NULL, vinput |-> vin, m_state |-> "SUCCESS",
   put_last_audio |-> FALSE, m_packet_id |-> 1, m_audio_index |-> 0,
   posts |-> 0, closed |-> FALSE]

(* SessionParam of a handle that was not given yet, or was deleted.        *)
NoParam(state) == [NewParam(FALSE) EXCEPT !.state = state]

NewData ==
  [q_buf |-> <<>>, text |-> 0, error_code |-> "SUCCESS", b_start |-> FALSE,
   b_run |-> TRUE, b_last |-> FALSE, c_code |-> "CURLE_OK"]

Idle == [pc |-> "idle", s |-> NULL, pkt |-> NULL, ret |-> "SUCCESS"]

Live(s) == sp[s].state = "live"

(* The addresses a connection to a may reach.                              *)
Resolve(a) == IF a = DomainName THEN Server ELSE {a}

Init ==
  /\ ready = FALSE
  /\ g_configs = [b_log |-> FALSE, m_server_addr |-> NULL]
  /\ p_Timelog = NULL
  /\ session_id = NULL
  /\ curl = NULL
  /\ easy = {}
  /\ seq_lock = NULL
  /\ sp = [s \in Session |-> NoParam("unused")]
  /\ m_data = [s \in Session |-> NewData]
  /\ worker = [s \in Session |->
                [pc |-> "none", pkt |-> NULL, reply |-> NULL, cut |-> FALSE]]
  /\ call = [c \in Caller |-> Idle]
  /\ server = [s \in Session |-> [home |-> NULL, rcvd |-> <<>>, told |-> FALSE]]

-----------------------------------------------------------------------------
(* CloudVDInit and CloudVDFini.  By the header they bracket every other    *)
(* call, so no call is in progress and no handle is open.                  *)

Quiescent == /\ \A c \in Caller  : call[c].pc = "idle"
             /\ \A s \in Session : ~Live(s)

(* Configs::Init, and the log if it is wanted.                             *)
Configure(log, addr) ==
  /\ g_configs' = [b_log |-> log, m_server_addr |-> addr]
  /\ p_Timelog' = IF log THEN "open" ELSE p_Timelog

CloudVDInit ==
  /\ ~ready /\ Quiescent
  /\ \E log \in LogModes, addr \in {DomainName} \cup Server : Configure(log, addr)
  /\ ready' = TRUE
  /\ UNCHANGED <<session_id, curl, easy, seq_lock, sp, m_data, worker, call, server>>

(* ERR_PARAM, a member is missing: what was configured stays, and the log. *)
CloudVDInitRefused ==
  /\ ~ready /\ Quiescent
  /\ \E log \in LogModes, addr \in {NULL, DomainName} \cup Server : Configure(log, addr)
  /\ UNCHANGED <<ready, session_id, curl, easy, seq_lock,
                 sp, m_data, worker, call, server>>

CurlForgotten == /\ easy' = easy
                 /\ curl' = NULL

(* if (curl != nullptr) { curl_easy_cleanup(curl); curl = nullptr; }       *)
CleanupCurl == /\ easy' = easy \ {curl}
               /\ curl' = NULL

CloudVDFini ==
  /\ ready /\ Quiescent
  /\ CleanupCurl
  /\ p_Timelog' = IF g_configs.b_log THEN NULL ELSE p_Timelog
  /\ ready' = FALSE
  /\ UNCHANGED <<g_configs, session_id, seq_lock, sp, m_data, worker, call, server>>

-----------------------------------------------------------------------------
(* CloudVDStartSession.                                                    *)

Return(c)      == call' = [call EXCEPT ![c] = Idle]
Goto(c, label) == call' = [call EXCEPT ![c].pc = label]

(* A new SessionParam, *handle = sp, and the global easy handle replaced.  *)
StartSession(c, s) ==
  /\ ready /\ call[c].pc = "idle"
  /\ sp[s].state = "unused"
  /\ ~Overlapping => \A t \in Session : ~Live(t)
  /\ \E vin \in BOOLEAN : sp' = [sp EXCEPT ![s] = NewParam(vin)]
  /\ m_data' = [m_data EXCEPT ![s] = NewData]
  /\ curl' = s
  /\ easy' = easy \cup {s}
  /\ call' = [call EXCEPT ![c] = [Idle EXCEPT !.pc = "begin", !.s = s]]
  /\ UNCHANGED <<library, session_id, seq_lock, worker, server>>

(* The SessionBegin exchange fails: no reply within the timeout.           *)
BeginFailed(c) ==
  /\ call[c].pc = "begin"
  /\ sp' = [sp EXCEPT ![call[c].s].m_state = "ERR_NET",
                      ![call[c].s].start = "ERR_NET"]
  /\ Return(c)
  /\ UNCHANGED <<library, session_id, curl, easy, seq_lock, m_data, worker, server>>

(* Mutants, here and below, are definitions with a bug planted in them.    *)
FirstCookieKept(s, accepted) ==
  IF session_id # NULL THEN session_id ELSE IF accepted THEN s ELSE NULL

CookieOf(s, accepted) == IF accepted THEN s ELSE NULL

(* A reply arrives: its cookie becomes session_id, the address reached is  *)
(* written over m_server_addr, and error_code decides.                     *)
BeginReplied(c) ==
  LET s == call[c].s IN
  /\ call[c].pc = "begin"
  /\ \E addr \in Resolve(g_configs.m_server_addr), accepted \in BOOLEAN :
       /\ session_id' = CookieOf(s, accepted)
       /\ g_configs' = [g_configs EXCEPT !.m_server_addr = addr]
       /\ sp' = [sp EXCEPT ![s].m_packet_id = (sp[s].m_packet_id + 1) + 1,
                           ![s].m_state = IF accepted THEN @ ELSE "ERR_SERVER",
                           ![s].start = IF accepted THEN @ ELSE "ERR_SERVER"]
       /\ server' = IF accepted THEN [server EXCEPT ![s].home = addr] ELSE server
       /\ IF accepted THEN Goto(c, "spawn") ELSE Return(c)
  /\ UNCHANGED <<ready, p_Timelog, curl, easy, seq_lock, m_data, worker>>

(* The flags are set and pthread_create succeeds ...                       *)
SpawnThread(c) ==
  LET s == call[c].s IN
  /\ call[c].pc = "spawn"
  /\ m_data' = [m_data EXCEPT ![s].b_start = FALSE, ![s].b_run = TRUE,
                              ![s].b_last = FALSE, ![s].c_code = "CURLE_OK"]
  /\ worker' = [worker EXCEPT ![s].pc = "created"]
  /\ Goto(c, "spawned")
  /\ UNCHANGED <<library, session_id, curl, easy, seq_lock, sp, server>>

(* ... or fails, which is logged whatever b_log says: with no open log the *)
(* process dies here, so the step is taken only with one.                  *)
SpawnFailed(c) ==
  /\ call[c].pc = "spawn"
  /\ p_Timelog # NULL
  /\ sp' = [sp EXCEPT ![call[c].s].start = "ERR_NULL_POINTER"]
  /\ Return(c)
  /\ UNCHANGED <<library, session_id, curl, easy, seq_lock, m_data, worker, server>>

(* while (!b_start) Time_sleep(1); sp[s].start is what StartSession of s   *)
(* returned.                                                               *)
ThreadStarted(c) ==
  LET s == call[c].s IN
  /\ call[c].pc = "spawned"
  /\ m_data[s].b_start
  /\ sp' = [sp EXCEPT ![s].start = "SUCCESS"]
  /\ Return(c)
  /\ UNCHANGED <<library, session_id, curl, easy, seq_lock, m_data, worker, server>>

-----------------------------------------------------------------------------
(* CloudVDPostData.  A handle may be used while no call that starts or     *)
(* ends its session is in progress.                                        *)

UseLabels == {"push", "pushing", "poll", "holding"}

Usable(s) ==
  /\ Live(s)
  /\ sp[s].start = "SUCCESS" \/ (TrustHandle /\ sp[s].start # NULL)
  /\ \A d \in Caller : call[d].s = s => call[d].pc \in UseLabels

MayPost(c, s) ==
  /\ c = Recorder /\ call[c].pc = "idle"
  /\ Usable(s)
  /\ sp[s].posts < MaxPosts
  /\ sp[s].closed => ReuseSession

(* The first chunk of an utterance is posted with AUDIO_STATUS_FIRST.      *)
IsFirst(s) == sp[s].posts = 0 \/ sp[s].closed

(* The encoder has less than SILKSIZE bytes so far: nothing is queued.     *)
PostBuffered(c, s) ==
  /\ MayPost(c, s)
  /\ sp' = [sp EXCEPT ![s].posts = @ + 1, ![s].closed = FALSE]
  /\ UNCHANGED <<library, session_id, curl, easy, seq_lock, m_data, worker, call, server>>

NextIndex(s) == IF IsFirst(s) THEN 0 ELSE sp[s].m_audio_index

PacketOf(s, last) ==
  [packet_id |-> sp[s].m_packet_id, audio_index |-> NextIndex(s),
   upto |-> sp[s].posts + 1, b_Last |-> last]

(* get_data builds the body; the numbers and put_last_audio are advanced   *)
(* before the packet is queued.                                            *)
PostData(c, s) ==
  /\ MayPost(c, s)
  /\ \E last \in BOOLEAN :
       /\ last => ~sp[s].closed
       /\ sp' = [sp EXCEPT ![s].posts = @ + 1, ![s].closed = last,
                           ![s].m_audio_index = NextIndex(s) + 1,
                           ![s].m_packet_id = (@ + 1) + 1,
                           ![s].put_last_audio = last]
       /\ call' = [call EXCEPT ![c] = [Idle EXCEPT !.pc = "push", !.s = s,
                                                   !.pkt = PacketOf(s, last)]]
  /\ UNCHANGED <<library, session_id, curl, easy, seq_lock, m_data, worker, server>>

LockIgnored(t) == TRUE

(* pthread_mutex_lock(&seq_lock) returns to thread t.                      *)
CanLock(t) == seq_lock = NULL

PushLock(c) ==
  /\ call[c].pc = "push"
  /\ CanLock(c)
  /\ seq_lock' = c
  /\ Goto(c, "pushing")
  /\ UNCHANGED <<library, session_id, curl, easy, sp, m_data, worker, server>>

EnqueueFirst(q, p) == <<p>> \o q

Enqueue(q, p) == Append(q, p)

PushUnlock(c) ==
  LET s == call[c].s IN
  /\ call[c].pc = "pushing"
  /\ m_data' = [m_data EXCEPT ![s].q_buf = Enqueue(@, call[c].pkt)]
  /\ seq_lock' = NULL
  /\ Return(c)
  /\ UNCHANGED <<library, session_id, curl, easy, sp, worker, server>>

-----------------------------------------------------------------------------
(* CloudVDGetResult hands out a pointer to m_result; the caller is in      *)
(* "holding" until it has copied the structure.                            *)

ResultCode(s) ==
  IF m_data[s].error_code = "SUCCESS" THEN "SUCCESS" ELSE "ERR_SERVER"

Hold(c, s, code) ==
  call' = [call EXCEPT ![c] = [Idle EXCEPT !.pc = "holding", !.s = s, !.ret = code]]

(* Partial results are asked for at any time; the final one by any thread  *)
(* but the recorder while it still has audio to post.                      *)
MayAsk(c, s) ==
  /\ call[c].pc = "idle"
  /\ Usable(s)
  /\ c = Recorder => (sp[s].vinput \/ sp[s].closed)

GetPartialResult(c, s) ==
  /\ MayAsk(c, s)
  /\ sp[s].vinput /\ ~sp[s].put_last_audio
  /\ Hold(c, s, ResultCode(s))
  /\ UNCHANGED <<library, session_id, curl, easy, seq_lock, sp, m_data, worker, server>>

GetFinalResult(c, s) ==
  /\ MayAsk(c, s)
  /\ ~(sp[s].vinput /\ ~sp[s].put_last_audio)
  /\ call' = [call EXCEPT ![c] = [Idle EXCEPT !.pc = "poll", !.s = s]]
  /\ UNCHANGED <<library, session_id, curl, easy, seq_lock, sp, m_data, worker, server>>

LastPosted(s) == sp[s].put_last_audio

FailureUnseen(s) == FALSE

LastSent(s)     == m_data[s].b_last
UploadFailed(s) == m_data[s].c_code # "CURLE_OK"

(* One iteration of the polling loop that leaves it.                       *)
PollDone(c) ==
  LET s == call[c].s IN
  /\ call[c].pc = "poll"
  /\ LastSent(s)
  /\ Hold(c, s, ResultCode(s))
  /\ UNCHANGED <<library, session_id, curl, easy, seq_lock, sp, m_data, worker, server>>

PollFailed(c) ==
  LET s == call[c].s IN
  /\ call[c].pc = "poll"
  /\ ~LastSent(s) /\ UploadFailed(s)
  /\ Hold(c, s, "ERR_NET")
  /\ UNCHANGED <<library, session_id, curl, easy, seq_lock, sp, m_data, worker, server>>

CopyResult(c) ==
  /\ call[c].pc = "holding"
  /\ Return(c)
  /\ UNCHANGED <<library, session_id, curl, easy, seq_lock, sp, m_data, worker, server>>

-----------------------------------------------------------------------------
(* CloudVDEndSession.  The application calls it once, for a live handle    *)
(* that no other call is using.                                            *)

EndSession(c, s) ==
  /\ call[c].pc = "idle"
  /\ Live(s)
  /\ \A d \in Caller : call[d].s # s
  /\ m_data' = [m_data EXCEPT ![s].b_run = FALSE]
  /\ call' = [call EXCEPT ![c] = [Idle EXCEPT !.pc = "join", !.s = s]]
  /\ UNCHANGED <<library, session_id, curl, easy, seq_lock, sp, worker, server>>

ThreadAsked(s) == ~m_data[s].b_run

ThreadGone(s) == ~m_data[s].b_start

(* while (b_start) Time_sleep(1);                                          *)
Join(c) ==
  /\ call[c].pc = "join"
  /\ ThreadGone(call[c].s)
  /\ Goto(c, "bye")
  /\ UNCHANGED <<library, session_id, curl, easy, seq_lock, sp, m_data, worker, server>>

AlwaysEnded(answered) == "SUCCESS"

EndCode(answered) == IF answered THEN "SUCCESS" ELSE "ERR_NET"

(* SessionEnd is performed on the global handle, with that handle's cookie *)
(* and address, unless SessionBegin already failed; libcurl refuses a null *)
(* handle.                                                                 *)
SessionEnd(c) ==
  LET s == call[c].s IN
  /\ call[c].pc = "bye"
  /\ \E told, answered \in BOOLEAN :
       /\ told => (sp[s].m_state # "ERR_NET" /\ curl # NULL)
       /\ answered => told
       /\ server' = IF told THEN [server EXCEPT ![curl].told = TRUE] ELSE server
       /\ call' = [call EXCEPT ![c].pc = "free", ![c].ret = EndCode(answered)]
  /\ UNCHANGED <<library, session_id, curl, easy, seq_lock, sp, m_data, worker>>

(* delete sp, with its dataBuf; then the global handle is cleaned up.      *)
Release(c) ==
  /\ call[c].pc = "free"
  /\ sp' = [sp EXCEPT ![call[c].s] = NoParam("freed")]
  /\ m_data' = [m_data EXCEPT ![call[c].s] = NewData]
  /\ CleanupCurl
  /\ Return(c)
  /\ UNCHANGED <<library, session_id, seq_lock, worker, server>>

-----------------------------------------------------------------------------
(* ThreadPostData, the upload thread of session s.                         *)

Step(s, from, to) ==
  /\ worker[s].pc = from
  /\ worker' = [worker EXCEPT ![s].pc = to]

WorkerStart(s) ==
  /\ Step(s, "created", "test")
  /\ m_data' = [m_data EXCEPT ![s].b_start = TRUE]
  /\ UNCHANGED <<library, session_id, curl, easy, seq_lock, sp, call, server>>

StopWhenDrained(s) == ~m_data[s].b_run /\ m_data[s].q_buf = <<>>

StopRequested(s) == ~m_data[s].b_run

(* while (b_run)                                                           *)
WorkerTest(s) ==
  /\ ~StopRequested(s)
  /\ Step(s, "test", "peek")
  /\ UNCHANGED <<library, session_id, curl, easy, seq_lock, sp, m_data, call, server>>

(* b_start = false; a thread that logs is not over yet.                    *)
WorkerStop(s) ==
  /\ StopRequested(s)
  /\ Step(s, "test", IF g_configs.b_log THEN "log" ELSE "dead")
  /\ m_data' = [m_data EXCEPT ![s].b_start = FALSE]
  /\ UNCHANGED <<library, session_id, curl, easy, seq_lock, sp, call, server>>

(* The last log lines read m_thread->b_start and the log.                  *)
WorkerLog(s) ==
  /\ Step(s, "log", "dead")
  /\ UNCHANGED <<library, session_id, curl, easy, seq_lock, sp, m_data, call, server>>

(* q_buf.empty() is read without the lock: while a push is in progress on  *)
(* an empty queue it may give either answer.                               *)
BeingPushed(s) == \E c \in Caller : call[c].pc = "pushing" /\ call[c].s = s

EmptyUntested(s) == m_data[s].c_code = "CURLE_OK"

FailureIgnored(s) == m_data[s].q_buf # <<>> \/ BeingPushed(s)

HasWork(s) == /\ m_data[s].q_buf # <<>> \/ BeingPushed(s)
              /\ m_data[s].c_code = "CURLE_OK"

NoWork(s) == m_data[s].q_buf = <<>> \/ m_data[s].c_code # "CURLE_OK"

WorkerPeek(s) ==
  /\ \/ HasWork(s) /\ Step(s, "peek", "lock")
     \/ NoWork(s)  /\ Step(s, "peek", "test")
  /\ UNCHANGED <<library, session_id, curl, easy, seq_lock, sp, m_data, call, server>>

WorkerLock(s) ==
  /\ CanLock(s)
  /\ Step(s, "lock", "pop")
  /\ seq_lock' = s
  /\ UNCHANGED <<library, session_id, curl, easy, sp, m_data, call, server>>

(* front() and pop() of an empty queue are undefined: see NoPopFromEmpty.  *)
WorkerPop(s) ==
  /\ worker[s].pc = "pop"
  /\ m_data[s].q_buf # <<>>
  /\ worker' = [worker EXCEPT ![s].pc = "send", ![s].pkt = Head(m_data[s].q_buf)]
  /\ m_data' = [m_data EXCEPT ![s].q_buf = Tail(@)]
  /\ seq_lock' = NULL
  /\ UNCHANGED <<library, session_id, curl, easy, sp, call, server>>

(* CurlInit reads the cookie and the address of the moment.                *)
Upload(s) ==
  server' = [server EXCEPT ![s].rcvd = Append(@,
               [pkt |-> worker[s].pkt, cookie |-> session_id,
                addr |-> g_configs.m_server_addr])]

(* An attempt of PostData: the request is lost, or it arrives and is       *)
(* answered with one of replies, or it arrives and no whole reply comes.   *)
Attempt(s, replies, otherwise) ==
  /\ \/ /\ Upload(s)
        /\ \E r \in replies :
             worker' = [worker EXCEPT ![s].pc = "text", ![s].reply = r]
     \/ /\ Upload(s)
        /\ worker' = [worker EXCEPT ![s].pc = otherwise, ![s].cut = TRUE]
     \/ /\ UNCHANGED server
        /\ worker' = [worker EXCEPT ![s].pc = otherwise]
  /\ UNCHANGED <<library, session_id, curl, easy, seq_lock, sp, m_data, call>>

WorkerSend(s) ==
  /\ worker[s].pc = "send"
  /\ Attempt(s, Replies(worker[s].pkt), "retry")

(* rev_data is not cleared between the attempts: after half a reply the    *)
(* parser may find none of the fields of the whole one.                    *)
Unreadable == [code |-> "SUCCESS", text |-> 0]

WorkerRetry(s) ==
  /\ worker[s].pc = "retry"
  /\ Attempt(s, Replies(worker[s].pkt) \cup (IF worker[s].cut THEN {Unreadable} ELSE {}),
             "fail")

(* A text is copied only if the reply has one; then error_code.            *)
TextAfter(old, r) == IF r.text = 0 THEN old ELSE r.text

WorkerText(s) ==
  /\ Step(s, "text", "code")
  /\ m_data' = [m_data EXCEPT ![s].text = TextAfter(@, worker[s].reply)]
  /\ UNCHANGED <<library, session_id, curl, easy, seq_lock, sp, call, server>>

AlwaysLast(p) == "last"

(* Where the loop goes once PostData has returned.                         *)
Done(p) == IF p.b_Last THEN "last" ELSE "test"

Finished(s) == worker' = [worker EXCEPT ![s] = [pc |-> Done(@.pkt), pkt |-> NULL,
                                                reply |-> NULL, cut |-> FALSE]]

(* error_code is written, PostData returns CURLE_OK.                       *)
WorkerCode(s) ==
  /\ worker[s].pc = "code"
  /\ m_data' = [m_data EXCEPT ![s].error_code = worker[s].reply.code,
                              ![s].c_code = "CURLE_OK"]
  /\ Finished(s)
  /\ UNCHANGED <<library, session_id, curl, easy, seq_lock, sp, call, server>>

(* Both attempts failed: PostData returns libcurl's code.                  *)
WorkerFail(s) ==
  /\ worker[s].pc = "fail"
  /\ m_data' = [m_data EXCEPT ![s].c_code = "CURLE_FAILED"]
  /\ Finished(s)
  /\ UNCHANGED <<library, session_id, curl, easy, seq_lock, sp, call, server>>

(* if (last) b_last = true, whatever PostData returned.                    *)
WorkerLast(s) ==
  /\ Step(s, "last", "test")
  /\ m_data' = [m_data EXCEPT ![s].b_last = TRUE]
  /\ UNCHANGED <<library, session_id, curl, easy, seq_lock, sp, call, server>>

-----------------------------------------------------------------------------

(* What a call in progress does on its own: fair.                          *)
CallStep(c) ==
  \/ BeginFailed(c) \/ BeginReplied(c) \/ SpawnThread(c) \/ SpawnFailed(c)
  \/ ThreadStarted(c) \/ PushLock(c) \/ PushUnlock(c) \/ PollDone(c)
  \/ PollFailed(c) \/ Join(c) \/ SessionEnd(c) \/ Release(c)

(* What the application decides to do: not fair.                           *)
AppStep(c) ==
  \/ CopyResult(c)
  \/ \E s \in Session : \/ StartSession(c, s) \/ PostBuffered(c, s) \/ PostData(c, s)
                        \/ GetPartialResult(c, s) \/ GetFinalResult(c, s)
                        \/ EndSession(c, s)

WorkerStep(s) ==
  \/ WorkerStart(s) \/ WorkerTest(s) \/ WorkerStop(s) \/ WorkerLog(s)
  \/ WorkerPeek(s) \/ WorkerLock(s) \/ WorkerPop(s) \/ WorkerSend(s)
  \/ WorkerRetry(s) \/ WorkerText(s) \/ WorkerCode(s) \/ WorkerFail(s)
  \/ WorkerLast(s)

Next ==
  \/ CloudVDInit \/ CloudVDInitRefused \/ CloudVDFini
  \/ \E c \in Caller : CallStep(c) \/ AppStep(c)
  \/ \E s \in Session : WorkerStep(s)

Spec == Init /\ [][Next]_vars

(* The operating system runs every thread; an exchange ends within         *)
(* CURLOPT_TIMEOUT.                                                        *)
Fairness == /\ \A c \in Caller  : WF_vars(CallStep(c))
            /\ \A s \in Session : WF_vars(WorkerStep(s))

FairSpec == Spec /\ Fairness

-----------------------------------------------------------------------------
(* Properties.                                                             *)

CallLabels == {"idle", "begin", "spawn", "spawned", "push", "pushing", "poll",
               "holding", "join", "bye", "free"}

(* The labels at which an upload thread is between b_start = true and      *)
(* b_start = false.                                                        *)
LoopLabels == {"test", "peek", "lock", "pop", "send", "retry", "text", "code",
               "fail", "last"}

WorkerLabels == LoopLabels \cup {"none", "created", "log", "dead"}

ParamType ==
  [state: {"unused", "live", "freed"}, start: Code \cup {NULL}, vinput: BOOLEAN,
   m_state: Code, put_last_audio: BOOLEAN, m_packet_id: Nat,
   m_audio_index: Nat, posts: Nat, closed: BOOLEAN]

DataType ==
  [q_buf: Seq(Packet), text: Nat, error_code: Code, b_start: BOOLEAN,
   b_run: BOOLEAN, b_last: BOOLEAN, c_code: CCode]

WorkerType == [pc: WorkerLabels, pkt: Packet \cup {NULL},
               reply: Reply \cup {NULL}, cut: BOOLEAN]

CallType == [pc: CallLabels, s: Session \cup {NULL}, pkt: Packet \cup {NULL}, ret: Code]

Address == Server \cup {DomainName, NULL}

ServerType == [home: Address, told: BOOLEAN,
               rcvd: Seq([pkt: Packet, cookie: Session \cup {NULL}, addr: Address])]

(* Every variable has the type of the C++ object it stands for.            *)
TypeOK ==
  /\ ready \in BOOLEAN
  /\ g_configs \in [b_log: BOOLEAN, m_server_addr: Address]
  /\ p_Timelog \in {"open", NULL}
  /\ session_id \in Session \cup {NULL}
  /\ curl \in Session \cup {NULL}
  /\ easy \in SUBSET Session
  /\ seq_lock \in Session \cup Caller \cup {NULL}
  /\ sp \in [Session -> ParamType]
  /\ m_data \in [Session -> DataType]
  /\ worker \in [Session -> WorkerType]
  /\ call \in [Caller -> CallType]
  /\ server \in [Session -> ServerType]

(* seq_lock keeps its promise: one thread at a time is between lock and    *)
(* unlock, whichever sessions the threads belong to (seq_lock is global),  *)
(* and the mutex is free when none is.                                     *)
QueueMutex ==
  /\ \A c \in Caller  : call[c].pc = "pushing" <=> seq_lock = c
  /\ \A s \in Session : worker[s].pc = "pop"   <=> seq_lock = s

(* The upload thread tests empty() without the lock, and still never calls *)
(* front() or pop() on an empty queue.                                     *)
NoPopFromEmpty ==
  \A s \in Session : worker[s].pc = "pop" => m_data[s].q_buf # <<>>

(* CloudVDEndSession's wait for b_start protects delete sp: a thread that  *)
(* is still in its loop has a dataBuf to work on.                          *)
LiveWhileRunning ==
  \A s \in Session : worker[s].pc \in LoopLabels => Live(s)

(* What the service receives of a session is what was posted, in order,    *)
(* with no gap: packet_id and audio_index go up together from the first,   *)
(* and a packet comes at most twice, the second time by PostData's retry.  *)
GaplessUpload ==
  \A s \in Session :
    LET r == server[s].rcvd IN
    \A i \in 1..Len(r) :
      IF i = 1
      THEN r[i].pkt.packet_id = 3 /\ r[i].pkt.audio_index = 0
      ELSE \/ /\ r[i].pkt = r[i-1].pkt
              /\ i > 2 => r[i].pkt # r[i-2].pkt
           \/ /\ r[i].pkt.packet_id   = r[i-1].pkt.packet_id + 2
              /\ r[i].pkt.audio_index = r[i-1].pkt.audio_index + 1
              /\ r[i].pkt.upto        > r[i-1].pkt.upto

(* b_last with no network error means that all the audio was received: the *)
(* last packet, and in it the end of every chunk ever posted.              *)
AudioComplete ==
  \A s \in Session :
    m_data[s].b_last /\ m_data[s].c_code = "CURLE_OK" =>
      \E i \in DOMAIN server[s].rcvd :
        /\ server[s].rcvd[i].pkt.b_Last
        /\ server[s].rcvd[i].pkt.upto = sp[s].posts

(* The cookie and the address are process globals; with one session at a   *)
(* time every upload still reaches the server that began its session, with *)
(* the cookie that server gave.                                            *)
UploadAffinity ==
  \A s \in Session : \A i \in DOMAIN server[s].rcvd :
    /\ server[s].rcvd[i].cookie = s
    /\ server[s].rcvd[i].addr = server[s].home

(* With one session at a time the global easy handle is that session's,    *)
(* and no handle outlives the session it was made for.                     *)
CurlOwned ==
  /\ easy = {s \in Session : Live(s)}
  /\ \A s \in Session : Live(s) <=> curl = s

(* CloudVDEndSession reports success only if the service was told of the   *)
(* end of this session.                                                    *)
EndOKMeansTold ==
  \A c \in Caller :
    call[c].pc = "free" /\ call[c].ret = "SUCCESS" => server[call[c].s].told

(* When CloudVDGetResult returns the outcome of the upload: ERR_NET only   *)
(* if it failed; success only with the answer to all the audio, or after a *)
(* failed upload (b_last is tested first), or after a retry (which may not *)
(* be readable).                                                           *)
AnswerSound ==
  \A c \in Caller : LET s == call[c].s IN
    call[c].pc = "holding" =>
      /\ call[c].ret = "ERR_NET" => UploadFailed(s)
      /\ call[c].ret = "SUCCESS" /\ ~sp[s].vinput =>
           \/ UploadFailed(s)
           \/ m_data[s].text = sp[s].posts
           \/ \E i \in 2..Len(server[s].rcvd) :
                server[s].rcvd[i].pkt = server[s].rcvd[i-1].pkt

(* The structure CloudVDGetResult points at does not change before the     *)
(* caller has copied it: the final result is written before b_last is set. *)
ResultStable ==
  [][\A c \in Caller : LET s == call[c].s IN
       call[c].pc = "holding" /\ ~sp[s].vinput =>
         /\ m_data'[s].text = m_data[s].text
         /\ m_data'[s].error_code = m_data[s].error_code]_vars

(* Once the service has been told that the session is over it receives no  *)
(* more of its audio: the upload loop has stopped before SessionEnd.       *)
NothingAfterEnd ==
  [][\A s \in Session : server[s].told => server'[s].rcvd = server[s].rcvd]_vars

(* Once the last chunk has been posted, a CloudVDGetResult in progress     *)
(* returns, whatever happens to the uploads.                               *)
GetResultReturns ==
  \A c \in Caller :
    (call[c].pc = "poll" /\ sp[call[c].s].closed) ~> call[c].pc # "poll"

(* CloudVDEndSession returns: the upload thread notices b_run at the next  *)
(* turn of its loop, however much audio is still queued.                   *)
EndSessionReturns ==
  \A c \in Caller : call[c].pc = "join" ~> call[c].pc = "idle"

-----------------------------------------------------------------------------
(* What the repository's documentation says and the code does not do: each *)
(* is checked alone and refuted.                                           *)

(* "Make sure the thread terminates" (comment in CloudVDEndSession): once  *)
(* the wait for b_start is over the thread touches nothing any more.       *)
ThreadTerminated ==
  \A c \in Caller :
    call[c].pc \in {"bye", "free"} => worker[call[c].s].pc \in {"none", "dead"}

(* GetResult obtains "the result of the recognition" (header): with no     *)
(* failure and no retry, success means the answer to the audio posted up   *)
(* to the last AUDIO_STATUS_LAST.                                          *)
AnswerCurrent ==
  \A c \in Caller : LET s == call[c].s IN
    /\ call[c].pc = "holding" /\ call[c].ret = "SUCCESS"
    /\ ~sp[s].vinput /\ sp[s].closed /\ ~UploadFailed(s)
    /\ \A i \in 2..Len(server[s].rcvd) :
         server[s].rcvd[i].pkt # server[s].rcvd[i-1].pkt
    => m_data[s].text = sp[s].posts

=============================================================================
