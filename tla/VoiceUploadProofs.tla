------------------------- MODULE VoiceUploadProofs -------------------------
(***************************************************************************)
(* The invariants of UploadInvariant, for any number of sessions, callers, *)
(* servers and posts: OneAtATime where sessions do not overlap, and        *)
(* OneUtterance where none is reused.  Both stand on IInv, which           *)
(* VoiceSessionProofs proves; the properties of the runs follow from them. *)
(* And, last, that VoiceSession implements AudioStream wherever a session  *)
(* is used for one utterance: every step of the interface, of the upload   *)
(* threads and of the exchanges is, through the mapping of VoiceStream, a  *)
(* step of the audio stream of one session, or none.                       *)
(***************************************************************************)
EXTENDS UploadInvariant, VoiceSessionProofs, VoiceStream, Integers, FiniteSetTheorems,
        SequenceTheorems

USE NamesAssumption DEF library

-----------------------------------------------------------------------------
(* What the parts of an action write, record by record.                    *)

(* A call returns.                                                         *)
LEMMA ReturnEffect ==
  ASSUME Typed, NEW c \in Caller, Return(c)
  PROVE  /\ call'[c] = Idle
         /\ \A d \in Caller \ {c} : call'[d] = call[d]
BY VariableTypes DEF Return

(* A call goes on: only its label changes.                                 *)
LEMMA GotoEffect ==
  ASSUME Typed, NEW c \in Caller, NEW label, Goto(c, label)
  PROVE  /\ call'[c].pc = label
         /\ call'[c].s = call[c].s
         /\ call'[c].pkt = call[c].pkt
         /\ call'[c].ret = call[c].ret
         /\ \A d \in Caller \ {c} : call'[d] = call[d]
BY VariableTypes DEF Goto, CallType

(* CloudVDGetResult hands out the result.                                  *)
LEMMA HoldEffect ==
  ASSUME Typed, NEW c \in Caller, NEW s \in Session, NEW code, Hold(c, s, code)
  PROVE  /\ call'[c].pc = "holding" /\ call'[c].s = s /\ call'[c].ret = code
         /\ \A d \in Caller \ {c} : call'[d] = call[d]
BY VariableTypes DEF Hold, Idle

(* An upload thread moves: only its label changes.                         *)
LEMMA StepEffect ==
  ASSUME Typed, NEW s \in Session, NEW from, NEW to, Step(s, from, to)
  PROVE  /\ worker[s].pc = from /\ worker'[s].pc = to
         /\ worker'[s].pkt = worker[s].pkt
         /\ worker'[s].reply = worker[s].reply
         /\ worker'[s].cut = worker[s].cut
         /\ \A t \in Session \ {s} : worker'[t] = worker[t]
BY VariableTypes DEF Step, WorkerType

(* PostData has returned to the loop.                                      *)
LEMMA FinishedEffect ==
  ASSUME Typed, NEW s \in Session, Finished(s)
  PROVE  /\ worker'[s].pc = Done(worker[s].pkt) /\ worker'[s].cut = FALSE
         /\ worker'[s].pkt = NULL
         /\ \A t \in Session \ {s} : worker'[t] = worker[t]
BY VariableTypes DEF Finished

(* CloudVDPostData has built a packet: what it wrote into the SessionParam *)
(* and the packet it is about to queue.                                    *)
LEMMA PostDataEffect ==
  ASSUME Typed, NEW c \in Caller, NEW s \in Session, PostData(c, s)
  PROVE  /\ \E last \in BOOLEAN : /\ last => ~sp[s].closed
                                 /\ sp'[s].closed = last
                                 /\ call'[c].pkt = PacketOf(s, last)
         /\ sp'[s].posts = sp[s].posts + 1
         /\ sp'[s].m_audio_index = NextIndex(s) + 1
         /\ sp'[s].m_packet_id = sp[s].m_packet_id + 2
         /\ sp'[s].state = sp[s].state
         /\ sp'[s].start = sp[s].start
         /\ sp'[s].vinput = sp[s].vinput
         /\ call'[c].pc = "push" /\ call'[c].s = s
         /\ \A t \in Session \ {s} : sp'[t] = sp[t]
         /\ \A d \in Caller \ {c} : call'[d] = call[d]
<1>1. PICK last \in BOOLEAN :
        /\ last => ~sp[s].closed
        /\ sp' = [sp EXCEPT ![s].posts = @ + 1, ![s].closed = last,
                            ![s].m_audio_index = NextIndex(s) + 1,
                            ![s].m_packet_id = (@ + 1) + 1,
                            ![s].put_last_audio = last]
        /\ call' = [call EXCEPT ![c] = [Idle EXCEPT !.pc = "push", !.s = s,
                                                    !.pkt = PacketOf(s, last)]]
  BY DEF PostData
<1> DEFINE n == NextIndex(s) + 1
<1>2. sp[s] \in ParamType /\ sp \in [Session -> ParamType]
  BY VariableTypes
<1>3. sp' = [sp EXCEPT ![s] = [sp[s] EXCEPT !.posts = sp[s].posts + 1, !.closed = last,
               !.m_audio_index = n, !.m_packet_id = (sp[s].m_packet_id + 1) + 1,
               !.put_last_audio = last]]
  BY <1>1, <1>2 DEF ParamType
<1>4. (sp[s].m_packet_id + 1) + 1 = sp[s].m_packet_id + 2
  BY <1>2 DEF ParamType
<1> HIDE DEF n
<1>5. /\ sp'[s].posts = sp[s].posts + 1 /\ sp'[s].closed = last
      /\ sp'[s].m_audio_index = n /\ sp'[s].m_packet_id = sp[s].m_packet_id + 2
      /\ sp'[s].state = sp[s].state /\ sp'[s].start = sp[s].start
      /\ sp'[s].vinput = sp[s].vinput
      /\ \A t \in Session \ {s} : sp'[t] = sp[t]
  BY <1>2, <1>3, <1>4 DEF ParamType
<1>6. /\ call'[c].pc = "push" /\ call'[c].s = s /\ call'[c].pkt = PacketOf(s, last)
      /\ \A d \in Caller \ {c} : call'[d] = call[d]
  BY <1>1, VariableTypes DEF Idle
<1> QED
  BY <1>1, <1>5, <1>6 DEF n

-----------------------------------------------------------------------------
(* One session at a time.                                                  *)

(* A session whose cookie and address matter is live.                      *)
LEMMA UploadsLive ==
  ASSUME IInv, NEW s \in Session, Uploads(s)
  PROVE  Live(s)
<1> USE DEF IInv, Control
<1>1. CASE worker[s].pc \in LoopLabels
  BY <1>1 DEF LiveWhileRunning
<1>2. CASE worker[s].pc = "created"
  BY <1>2 DEF HandShake, CallsLive
<1>3. CASE \E c \in Caller : call[c].pc = "spawn" /\ call[c].s = s
  BY <1>3 DEF CallsLive
<1> QED
  BY <1>1, <1>2, <1>3 DEF Uploads

(* What most steps leave alone: the globals, what the service knows, which *)
(* sessions are live; no upload thread is created and no call comes to, or *)
(* leaves, the labels OneAtATime mentions.                                 *)
GlobalsKept == UNCHANGED <<g_configs, session_id, curl, easy, server>>

StatesKept == \A t \in Session : sp'[t].state = sp[t].state

ThreadsKept ==
  \A t \in Session :
    /\ worker'[t].pc \in {"none", "created"} => worker[t].pc \in {"none", "created"}
    /\ worker'[t].pc \in LoopLabels \cup {"created"} =>
         worker[t].pc \in LoopLabels \cup {"created"}

LabelsKept ==
  \A d \in Caller :
    call'[d].pc \in {"spawn", "free"} \/ call[d].pc = "free" =>
      /\ call'[d].pc = call[d].pc
      /\ call'[d].s = call[d].s
      /\ call'[d].ret = call[d].ret

(* Such a step keeps OneAtATime.                                           *)
LEMMA OneAtATimeKept ==
  ASSUME IInv, OneAtATime, GlobalsKept, StatesKept, ThreadsKept, LabelsKept
  PROVE  OneAtATime'
<1> USE DEF OneAtATime, GlobalsKept
<1>1. \A t \in Session : Live(t)' <=> Live(t)
  BY DEF StatesKept, Live
<1>2. CurlOwned'
  BY <1>1 DEF CurlOwned
<1>3. Bound'
  <2>1. ASSUME NEW t \in Session, Uploads(t)' PROVE Uploads(t)
    BY <2>1 DEF Uploads, ThreadsKept, LabelsKept
  <2> QED
    BY <2>1 DEF Bound
<1>4. ToldLast'
  BY DEF ToldLast, StatesKept, LabelsKept
<1>5. NothingYet'
  BY DEF NothingYet, ThreadsKept
<1>6. EndOKMeansTold'
  BY DEF EndOKMeansTold, LabelsKept
<1>7. UploadAffinity'
  BY DEF UploadAffinity
<1> QED
  BY <1>2, <1>3, <1>4, <1>5, <1>6, <1>7

(* The steps of calls that are of this kind ...                            *)
LEMMA OneAtATimeQuietCall ==
  ASSUME IInv, OneAtATime, NEW c \in Caller,
         \/ BeginFailed(c) \/ SpawnFailed(c) \/ ThreadStarted(c) \/ PushLock(c)
         \/ PushUnlock(c) \/ PollDone(c) \/ PollFailed(c) \/ Join(c) \/ CopyResult(c)
  PROVE  OneAtATime'
<1>0. Typed
  BY DEF IInv
<1> USE <1>0, VariableTypes
<1>1. GlobalsKept /\ ThreadsKept
  BY DEF GlobalsKept, ThreadsKept, BeginFailed, SpawnFailed, ThreadStarted, PushLock,
         PushUnlock, PollDone, PollFailed, Join, CopyResult
<1>2. StatesKept
  BY DEF StatesKept, ParamType, BeginFailed, SpawnFailed, ThreadStarted, PushLock,
         PushUnlock, PollDone, PollFailed, Join, CopyResult
<1>3. LabelsKept
  <2>1. CASE Return(c)
    BY <2>1, ReturnEffect DEF LabelsKept, Idle, BeginFailed, SpawnFailed, ThreadStarted,
       PushLock, PushUnlock, PollDone, PollFailed, Join, CopyResult
  <2>2. CASE PushLock(c)
    BY <2>2, GotoEffect DEF LabelsKept, PushLock
  <2>3. CASE Join(c)
    BY <2>3, GotoEffect DEF LabelsKept, Join
  <2>4. CASE PollDone(c) \/ PollFailed(c)
    <3>1. call[c].pc = "poll" /\ call[c].s \in Session
      BY <2>4 DEF PollDone, PollFailed, Typed, CallTyped
    <3> QED
      BY <2>4, <3>1, HoldEffect DEF LabelsKept, PollDone, PollFailed
  <2> QED
    BY <2>1, <2>2, <2>3, <2>4 DEF BeginFailed, SpawnFailed, ThreadStarted, PushUnlock,
       CopyResult
<1> QED
  BY <1>1, <1>2, <1>3, OneAtATimeKept

(* ... of the application ...                                              *)
LEMMA OneAtATimeQuietApp ==
  ASSUME IInv, OneAtATime, NEW c \in Caller, NEW s \in Session,
         \/ PostBuffered(c, s) \/ PostData(c, s) \/ GetPartialResult(c, s)
         \/ GetFinalResult(c, s) \/ EndSession(c, s)
  PROVE  OneAtATime'
<1>0. Typed
  BY DEF IInv
<1> USE <1>0, VariableTypes
<1>1. GlobalsKept /\ ThreadsKept
  BY DEF GlobalsKept, ThreadsKept, PostBuffered, PostData, GetPartialResult,
         GetFinalResult, EndSession
<1>2. StatesKept
  <2>1. CASE PostBuffered(c, s)
    BY <2>1 DEF StatesKept, ParamType, PostBuffered
  <2>2. CASE PostData(c, s)
    BY <2>2, PostDataEffect DEF StatesKept
  <2> QED
    BY <2>1, <2>2 DEF StatesKept, GetPartialResult, GetFinalResult, EndSession
<1>3. LabelsKept
  <2>1. CASE PostBuffered(c, s)
    BY <2>1 DEF LabelsKept, PostBuffered
  <2>2. CASE PostData(c, s)
    <3>1. /\ call[c].pc = "idle" /\ call'[c].pc = "push"
          /\ \A d \in Caller \ {c} : call'[d] = call[d]
      BY <2>2, PostDataEffect DEF PostData, MayPost
    <3> QED
      BY <3>1 DEF LabelsKept
  <2>3. CASE GetPartialResult(c, s)
    BY <2>3, HoldEffect DEF LabelsKept, GetPartialResult, MayAsk
  <2>4. CASE GetFinalResult(c, s)
    BY <2>4 DEF LabelsKept, GetFinalResult, MayAsk, Idle
  <2>5. CASE EndSession(c, s)
    BY <2>5 DEF LabelsKept, EndSession, Idle
  <2> QED
    BY <2>1, <2>2, <2>3, <2>4, <2>5
<1> QED
  BY <1>1, <1>2, <1>3, OneAtATimeKept

(* ... and of an upload thread that uploads nothing.                       *)
LEMMA OneAtATimeQuietWorker ==
  ASSUME IInv, OneAtATime, NEW s \in Session,
         \/ WorkerStart(s) \/ WorkerTest(s) \/ WorkerStop(s) \/ WorkerLog(s)
         \/ WorkerPeek(s) \/ WorkerLock(s) \/ WorkerPop(s) \/ WorkerText(s)
         \/ WorkerCode(s) \/ WorkerFail(s) \/ WorkerLast(s)
  PROVE  OneAtATime'
<1>0. Typed
  BY DEF IInv
<1> USE <1>0, VariableTypes
<1>1. GlobalsKept /\ StatesKept /\ LabelsKept
  BY DEF GlobalsKept, StatesKept, LabelsKept, WorkerStart, WorkerTest, WorkerStop,
         WorkerLog, WorkerPeek, WorkerLock, WorkerPop, WorkerText, WorkerCode,
         WorkerFail, WorkerLast
<1>2. ThreadsKept
  <2>1. CASE WorkerPop(s)
    BY <2>1 DEF ThreadsKept, WorkerPop, WorkerType, LoopLabels
  <2>2. CASE WorkerCode(s) \/ WorkerFail(s)
    BY <2>2, FinishedEffect DEF ThreadsKept, WorkerCode, WorkerFail, Done, LoopLabels
  <2>3. ASSUME NEW from, NEW to, Step(s, from, to), from \notin {"none", "dead"},
               to \in WorkerLabels \ {"none", "created"},
               from = "log" => to = "dead"
        PROVE  ThreadsKept
    BY <2>3, StepEffect DEF ThreadsKept, WorkerLabels, LoopLabels, TypeOK, WorkerType
  <2>4. CASE WorkerStart(s) \/ WorkerTest(s) \/ WorkerStop(s) \/ WorkerLog(s)
    BY <2>3, <2>4 DEF WorkerStart, WorkerTest, WorkerStop, WorkerLog, WorkerLabels,
                      LoopLabels
  <2>5. CASE WorkerPeek(s) \/ WorkerLock(s) \/ WorkerText(s) \/ WorkerLast(s)
    BY <2>3, <2>5 DEF WorkerPeek, WorkerLock, WorkerText, WorkerLast, WorkerLabels,
                      LoopLabels
  <2> QED
    BY <2>1, <2>2, <2>4, <2>5
<1> QED
  BY <1>1, <1>2, OneAtATimeKept

(* CloudVDInit, whether it accepts the configuration or not.               *)
LEMMA OneAtATimeInit ==
  ASSUME IInv, OneAtATime, CloudVDInit \/ CloudVDInitRefused
  PROVE  OneAtATime'
<1> USE DEF OneAtATime
<1>1. /\ Quiescent
      /\ UNCHANGED <<session_id, curl, easy, sp, worker, call, server>>
  BY DEF CloudVDInit, CloudVDInitRefused
<1>2. Bound'
  <2> SUFFICES ASSUME NEW s \in Session, Uploads(s)' PROVE FALSE
    BY DEF Bound
  <2>1. Uploads(s)
    BY <1>1 DEF Uploads
  <2> QED
    BY <1>1, <2>1, UploadsLive DEF Quiescent
<1>3. CurlOwned' /\ ToldLast' /\ NothingYet' /\ EndOKMeansTold' /\ UploadAffinity'
  BY <1>1 DEF CurlOwned, Live, ToldLast, NothingYet, EndOKMeansTold, UploadAffinity
<1> QED
  BY <1>2, <1>3

(* CloudVDFini: with no session live, the handle it cleans up is none.     *)
LEMMA OneAtATimeFini ==
  ASSUME IInv, OneAtATime, CloudVDFini
  PROVE  OneAtATime'
<1> USE DEF OneAtATime
<1>1. /\ Quiescent /\ CleanupCurl
      /\ UNCHANGED <<g_configs, session_id, sp, worker, call, server>>
  BY DEF CloudVDFini
<1>2. CurlOwned'
  BY <1>1 DEF CurlOwned, Quiescent, CleanupCurl, Live
<1>3. Bound'
  BY <1>1 DEF Bound, Uploads
<1>4. ToldLast' /\ NothingYet' /\ EndOKMeansTold' /\ UploadAffinity'
  BY <1>1 DEF ToldLast, NothingYet, EndOKMeansTold, UploadAffinity
<1> QED
  BY <1>2, <1>3, <1>4

(* CloudVDStartSession replaces the easy handle of no live session.        *)
LEMMA OneAtATimeStartSession ==
  ASSUME ~Overlapping, IInv, OneAtATime, NEW c \in Caller, NEW s \in Session,
         StartSession(c, s)
  PROVE  OneAtATime'
<1> USE DEF OneAtATime, IInv
<1>1. /\ \A t \in Session : ~Live(t)
      /\ sp[s].state = "unused" /\ sp'[s].state = "live"
      /\ \A t \in Session \ {s} : sp'[t] = sp[t]
      /\ curl' = s /\ easy' = easy \cup {s}
      /\ UNCHANGED <<g_configs, session_id, worker, server>>
  BY VariableTypes DEF StartSession, NewParam
<1>2. /\ call[c].pc = "idle" /\ call'[c].pc = "begin"
      /\ \A d \in Caller \ {c} : call'[d] = call[d]
  BY VariableTypes DEF StartSession, Idle
<1>3. CurlOwned'
  BY <1>1 DEF CurlOwned, Live
<1>4. Bound'
  <2> SUFFICES ASSUME NEW t \in Session, Uploads(t)' PROVE FALSE
    BY DEF Bound
  <2>1. Uploads(t)
    BY <1>1, <1>2 DEF Uploads
  <2> QED
    BY <1>1, <2>1, UploadsLive
<1>5. ToldLast'
  BY <1>1, <1>2 DEF ToldLast
<1>6. NothingYet' /\ UploadAffinity'
  BY <1>1 DEF NothingYet, UploadAffinity
<1>7. EndOKMeansTold'
  BY <1>1, <1>2 DEF EndOKMeansTold
<1> QED
  BY <1>3, <1>4, <1>5, <1>6, <1>7

(* The reply to SessionBegin: the cookie and the address it brings are     *)
(* those of the one session there is.                                      *)
LEMMA OneAtATimeBeginReplied ==
  ASSUME IInv, OneAtATime, NEW c \in Caller, BeginReplied(c)
  PROVE  OneAtATime'
<1> USE DEF OneAtATime, IInv
<1> DEFINE s == call[c].s
<1>1. call[c].pc = "begin" /\ s \in Session /\ Live(s) /\ worker[s].pc = "none"
  BY DEF BeginReplied, Typed, CallTyped, Control, CallsLive, HandShake
<1>2. /\ UNCHANGED <<curl, easy, worker>>
      /\ \A d \in Caller \ {c} : call'[d] = call[d]
      /\ \A t \in Session : sp'[t].state = sp[t].state
  <2>1. Return(c) \/ Goto(c, "spawn")
    BY DEF BeginReplied
  <2>2. \A d \in Caller \ {c} : call'[d] = call[d]
    BY <2>1, ReturnEffect, GotoEffect
  <2>3. StatesKept
    BY <1>1, VariableTypes DEF StatesKept, BeginReplied, ParamType
  <2> QED
    BY <2>2, <2>3 DEF StatesKept, BeginReplied
<1>3. \A t \in Session : Live(t) <=> t = s
  BY <1>1 DEF CurlOwned
<1>4. \A t \in Session : server'[t].rcvd = server[t].rcvd /\ server'[t].told = server[t].told
  BY VariableTypes DEF BeginReplied, ServerType
<1>5. call'[c].pc \in {"idle", "spawn"} /\ (call'[c].pc = "spawn" => call'[c].s = s)
  BY VariableTypes DEF BeginReplied, Return, Goto, Idle, CallType
<1>6. call'[c].pc = "spawn" =>
        session_id' = s /\ server'[s].home = g_configs'.m_server_addr
  <2>1. PICK addr \in Resolve(g_configs.m_server_addr), accepted \in BOOLEAN :
          /\ session_id' = CookieOf(s, accepted)
          /\ g_configs' = [g_configs EXCEPT !.m_server_addr = addr]
          /\ server' = IF accepted THEN [server EXCEPT ![s].home = addr] ELSE server
          /\ IF accepted THEN Goto(c, "spawn") ELSE Return(c)
    BY DEF BeginReplied
  <2>2. accepted \/ call'[c].pc = "idle"
    BY <2>1, ReturnEffect DEF Idle
  <2>3. g_configs'.m_server_addr = addr
    BY <2>1 DEF Typed, TypeOK
  <2>4. accepted => server'[s].home = addr
    BY <1>1, <2>1, VariableTypes DEF ServerType
  <2> QED
    BY <2>1, <2>2, <2>3, <2>4 DEF CookieOf
<1>7. CurlOwned'
  BY <1>2 DEF CurlOwned, Live
<1>8. Bound'
  <2> SUFFICES ASSUME NEW t \in Session, Uploads(t)'
               PROVE  session_id' = t /\ server'[t].home = g_configs'.m_server_addr
    BY DEF Bound
  <2>1. t = s
    <3>1. CASE Uploads(t)
      BY <1>3, <3>1, UploadsLive
    <3>2. CASE ~Uploads(t)
      BY <1>2, <1>5, <3>2 DEF Uploads
    <3> QED
      BY <3>1, <3>2
  <2>2. call'[c].pc = "spawn"
    <3>1. PICK d \in Caller : call'[d].pc = "spawn" /\ call'[d].s = s
      BY <1>1, <1>2, <2>1 DEF Uploads, LoopLabels
    <3>2. CASE d # c
      BY <1>1, <1>2, <3>1, <3>2 DEF Control, Exclusive, OwnLabels
    <3> QED
      BY <3>1, <3>2
  <2> QED
    BY <1>6, <2>1, <2>2
<1>9. ToldLast'
  BY <1>1, <1>2, <1>4, <1>5 DEF ToldLast
<1>10. NothingYet'
  BY <1>2, <1>4 DEF NothingYet
<1>11. EndOKMeansTold'
  <2> SUFFICES ASSUME NEW d \in Caller, call'[d].pc = "free", call'[d].ret = "SUCCESS"
               PROVE  server'[call'[d].s].told
    BY DEF EndOKMeansTold
  <2>1. d # c /\ call'[d] = call[d] /\ call[d].s \in Session
    BY <1>2, <1>5 DEF Typed, CallTyped
  <2> QED
    BY <1>4, <2>1 DEF EndOKMeansTold
<1>12. UploadAffinity'
  <2> SUFFICES ASSUME NEW t \in Session, NEW i \in DOMAIN server'[t].rcvd
               PROVE  /\ server'[t].rcvd[i].cookie = t
                      /\ server'[t].rcvd[i].addr = server'[t].home
    BY DEF UploadAffinity
  <2>1. CASE t = s
    BY <1>1, <1>4, <2>1 DEF NothingYet
  <2>2. CASE t # s
    <3>1. server'[t].home = server[t].home
      BY <2>2, VariableTypes DEF BeginReplied, ServerType
    <3> QED
      BY <1>4, <3>1 DEF UploadAffinity
  <2> QED
    BY <2>1, <2>2
<1> QED
  BY <1>7, <1>8, <1>9, <1>10, <1>11, <1>12

(* pthread_create: the session uploads before and after.                   *)
LEMMA OneAtATimeSpawnThread ==
  ASSUME IInv, OneAtATime, NEW c \in Caller, SpawnThread(c)
  PROVE  OneAtATime'
<1> USE DEF OneAtATime, IInv
<1> DEFINE s == call[c].s
<1>1. call[c].pc = "spawn" /\ s \in Session /\ worker[s].pc = "none"
  BY DEF SpawnThread, Typed, CallTyped, Control, HandShake
<1>2. /\ UNCHANGED <<g_configs, session_id, curl, easy, sp, server>>
      /\ worker'[s].pc = "created"
      /\ \A t \in Session \ {s} : worker'[t] = worker[t]
  BY <1>1, VariableTypes DEF SpawnThread, WorkerType
<1>3. /\ call'[c].pc = "spawned"
      /\ \A d \in Caller \ {c} : call'[d] = call[d]
  BY GotoEffect DEF SpawnThread
<1>4. CurlOwned' /\ UploadAffinity'
  BY <1>2 DEF CurlOwned, Live, UploadAffinity
<1>5. Bound'
  <2> SUFFICES ASSUME NEW t \in Session, Uploads(t)' PROVE Uploads(t)
    BY <1>2 DEF Bound
  <2> QED
    BY <1>1, <1>2, <1>3 DEF Uploads
<1>6. ToldLast'
  BY <1>1, <1>2, <1>3 DEF ToldLast
<1>7. NothingYet'
  BY <1>1, <1>2 DEF NothingYet
<1>8. EndOKMeansTold'
  BY <1>2, <1>3 DEF EndOKMeansTold
<1> QED
  BY <1>4, <1>5, <1>6, <1>7, <1>8

(* SessionEnd is told of the session the global handle was made for, which *)
(* is the one being ended.                                                 *)
LEMMA OneAtATimeSessionEnd ==
  ASSUME IInv, OneAtATime, NEW c \in Caller, SessionEnd(c)
  PROVE  OneAtATime'
<1> USE DEF OneAtATime, IInv
<1> DEFINE s == call[c].s
<1>1. call[c].pc = "bye" /\ s \in Session /\ curl = s
  BY DEF SessionEnd, Typed, CallTyped, Control, CallsLive, CurlOwned
<1>2. PICK told \in BOOLEAN, answered \in BOOLEAN :
        /\ answered => told
        /\ server' = IF told THEN [server EXCEPT ![curl].told = TRUE] ELSE server
        /\ call' = [call EXCEPT ![c].pc = "free", ![c].ret = EndCode(answered)]
        /\ UNCHANGED <<g_configs, session_id, curl, easy, sp, worker>>
  BY DEF SessionEnd
<1>3. /\ \A t \in Session : /\ server'[t].rcvd = server[t].rcvd
                            /\ server'[t].home = server[t].home
                            /\ t # s => server'[t].told = server[t].told
                            /\ server[t].told => server'[t].told
      /\ told => server'[s].told
  BY <1>1, <1>2, VariableTypes DEF ServerType
<1>4. /\ call'[c].pc = "free" /\ call'[c].s = s /\ call'[c].ret = EndCode(answered)
      /\ \A d \in Caller \ {c} : call'[d] = call[d]
  BY <1>2, VariableTypes DEF CallType
<1>5. CurlOwned' /\ UploadAffinity' /\ NothingYet'
  BY <1>2, <1>3 DEF CurlOwned, Live, UploadAffinity, NothingYet
<1>6. Bound'
  <2> SUFFICES ASSUME NEW t \in Session, Uploads(t)' PROVE Uploads(t)
    BY <1>2, <1>3 DEF Bound
  <2> QED
    BY <1>1, <1>2, <1>4 DEF Uploads
<1>7. ToldLast'
  <2> SUFFICES ASSUME NEW t \in Session, server'[t].told
               PROVE  \/ sp'[t].state = "freed"
                      \/ \E d \in Caller : call'[d].pc = "free" /\ call'[d].s = t
    BY DEF ToldLast
  <2>1. CASE t = s
    BY <1>4, <2>1
  <2>2. CASE t # s
    <3>1. server[t].told /\ sp'[t] = sp[t]
      BY <1>2, <1>3, <2>2
    <3>2. \A d \in Caller : call[d].pc = "free" => call'[d] = call[d]
      BY <1>1, <1>4
    <3> QED
      BY <3>1, <3>2 DEF ToldLast
  <2> QED
    BY <2>1, <2>2
<1>8. EndOKMeansTold'
  <2> SUFFICES ASSUME NEW d \in Caller, call'[d].pc = "free", call'[d].ret = "SUCCESS"
               PROVE  server'[call'[d].s].told
    BY DEF EndOKMeansTold
  <2>1. CASE d = c
    BY <1>2, <1>3, <1>4, <2>1 DEF EndCode
  <2>2. CASE d # c
    BY <1>3, <1>4, <2>2 DEF EndOKMeansTold, Typed, CallTyped
  <2> QED
    BY <2>1, <2>2
<1> QED
  BY <1>5, <1>6, <1>7, <1>8

(* delete sp, and the easy handle of the session deleted.                  *)
LEMMA OneAtATimeRelease ==
  ASSUME IInv, OneAtATime, NEW c \in Caller, Release(c)
  PROVE  OneAtATime'
<1> USE DEF OneAtATime, IInv
<1> DEFINE s == call[c].s
<1>1. call[c].pc = "free" /\ s \in Session /\ curl = s /\ Live(s)
  BY DEF Release, Typed, CallTyped, Control, CallsLive, CurlOwned
<1>2. /\ sp'[s].state = "freed"
      /\ \A t \in Session \ {s} : sp'[t] = sp[t]
      /\ easy' = easy \ {s} /\ curl' = NULL
      /\ UNCHANGED <<g_configs, session_id, worker, server>>
  BY <1>1, VariableTypes DEF Release, CleanupCurl, NoParam, NewParam
<1>3. /\ call'[c].pc = "idle"
      /\ \A d \in Caller \ {c} : call'[d] = call[d]
  BY ReturnEffect DEF Release, Idle
<1>4. CurlOwned'
  BY <1>1, <1>2 DEF CurlOwned, Live
<1>5. Bound'
  <2> SUFFICES ASSUME NEW t \in Session, Uploads(t)' PROVE Uploads(t)
    BY <1>2 DEF Bound
  <2> QED
    BY <1>2, <1>3 DEF Uploads
<1>6. ToldLast'
  BY <1>1, <1>2, <1>3 DEF ToldLast
<1>7. NothingYet' /\ UploadAffinity'
  BY <1>2 DEF NothingYet, UploadAffinity
<1>8. EndOKMeansTold'
  BY <1>2, <1>3 DEF EndOKMeansTold
<1> QED
  BY <1>4, <1>5, <1>6, <1>7, <1>8

(* An attempt of PostData: what may reach the server is the packet, with   *)
(* the cookie and the address of the moment.                               *)
LEMMA AttemptEffect ==
  ASSUME Typed, NEW s \in Session, NEW replies, NEW otherwise,
         Attempt(s, replies, otherwise)
  PROVE  /\ worker'[s].pkt = worker[s].pkt
         /\ \A t \in Session \ {s} : worker'[t] = worker[t] /\ server'[t] = server[t]
         /\ server'[s].home = server[s].home /\ server'[s].told = server[s].told
         /\ \/ /\ server'[s].rcvd =
                     Append(server[s].rcvd, [pkt |-> worker[s].pkt, cookie |-> session_id,
                                             addr |-> g_configs.m_server_addr])
               /\ \/ /\ worker'[s].pc = "text" /\ worker'[s].reply \in replies
                     /\ worker'[s].cut = worker[s].cut
                  \/ /\ worker'[s].pc = otherwise /\ worker'[s].cut = TRUE
                     /\ worker'[s].reply = worker[s].reply
            \/ /\ server'[s].rcvd = server[s].rcvd
               /\ worker'[s].pc = otherwise /\ worker'[s].cut = worker[s].cut
               /\ worker'[s].reply = worker[s].reply
<1> DEFINE q == Append(server[s].rcvd, [pkt |-> worker[s].pkt, cookie |-> session_id,
                                         addr |-> g_configs.m_server_addr])
<1>1. Upload(s) => server' = [server EXCEPT ![s].rcvd = q]
  BY DEF Upload
<1> HIDE DEF q
<1>2. Upload(s) => /\ server'[s].rcvd = q
                   /\ server'[s].home = server[s].home
                   /\ server'[s].told = server[s].told
                   /\ \A t \in Session \ {s} : server'[t] = server[t]
  BY <1>1, VariableTypes DEF ServerType
<1>3. CASE Upload(s) /\ \E r \in replies :
             worker' = [worker EXCEPT ![s].pc = "text", ![s].reply = r]
  <2>1. PICK r \in replies : worker' = [worker EXCEPT ![s].pc = "text", ![s].reply = r]
    BY <1>3
  <2>2. /\ worker'[s].pc = "text" /\ worker'[s].reply = r
        /\ worker'[s].cut = worker[s].cut /\ worker'[s].pkt = worker[s].pkt
        /\ \A t \in Session \ {s} : worker'[t] = worker[t]
    BY <2>1, VariableTypes DEF WorkerType
  <2> QED
    BY <1>2, <1>3, <2>1, <2>2 DEF q
<1>4. CASE Upload(s) /\ worker' = [worker EXCEPT ![s].pc = otherwise, ![s].cut = TRUE]
  <2>1. /\ worker'[s].pc = otherwise /\ worker'[s].cut = TRUE
        /\ worker'[s].reply = worker[s].reply /\ worker'[s].pkt = worker[s].pkt
        /\ \A t \in Session \ {s} : worker'[t] = worker[t]
    BY <1>4, VariableTypes DEF WorkerType
  <2> QED
    BY <1>2, <1>4, <2>1 DEF q
<1>5. CASE UNCHANGED server /\ worker' = [worker EXCEPT ![s].pc = otherwise]
  BY <1>5, VariableTypes DEF WorkerType
<1> QED
  BY <1>3, <1>4, <1>5 DEF Attempt

(* An upload carries the cookie and goes to the address of its session.    *)
LEMMA OneAtATimeUpload ==
  ASSUME IInv, OneAtATime, NEW s \in Session, NEW replies, NEW otherwise,
         worker[s].pc \in {"send", "retry"}, otherwise \in {"retry", "fail"},
         Attempt(s, replies, otherwise)
  PROVE  OneAtATime'
<1> USE DEF OneAtATime, IInv
<1>1. /\ UNCHANGED <<g_configs, session_id, curl, easy, sp, call>>
      /\ \A t \in Session \ {s} : worker'[t] = worker[t] /\ server'[t] = server[t]
      /\ server'[s].home = server[s].home /\ server'[s].told = server[s].told
      /\ worker'[s].pc \in {"text", "retry", "fail"}
  <2>1. UNCHANGED <<g_configs, session_id, curl, easy, sp, call>>
    BY DEF Attempt
  <2> QED
    BY <2>1, AttemptEffect
<1>2. Uploads(s)
  BY DEF Uploads, LoopLabels
<1>3. CurlOwned'
  BY <1>1 DEF CurlOwned, Live
<1>4. Bound'
  <2>1. \A t \in Session : Uploads(t)' => Uploads(t)
    BY <1>1, <1>2 DEF Uploads
  <2> QED
    BY <1>1, <2>1 DEF Bound
<1>5. ToldLast'
  BY <1>1 DEF ToldLast
<1>6. NothingYet'
  BY <1>1 DEF NothingYet
<1>7. EndOKMeansTold'
  BY <1>1 DEF EndOKMeansTold, Typed, CallTyped
<1>8. UploadAffinity'
  <2> SUFFICES ASSUME NEW t \in Session, NEW i \in DOMAIN server'[t].rcvd
               PROVE  /\ server'[t].rcvd[i].cookie = t
                      /\ server'[t].rcvd[i].addr = server'[t].home
    BY DEF UploadAffinity
  <2>1. CASE server'[t].rcvd = server[t].rcvd
    BY <1>1, <2>1 DEF UploadAffinity
  <2>2. CASE server'[t].rcvd # server[t].rcvd
    <3> DEFINE e == [pkt |-> worker[s].pkt, cookie |-> session_id,
                     addr |-> g_configs.m_server_addr]
    <3>1. t = s /\ server'[s].rcvd = Append(server[s].rcvd, e)
      BY <1>1, <2>2, AttemptEffect
    <3>2. server[s].rcvd \in Seq([pkt: Packet, cookie: Session \cup {NULL}, addr: Address])
      BY VariableTypes DEF ServerType
    <3>3. e.cookie = s /\ e.addr = server[s].home
      BY <1>2 DEF Bound
    <3> HIDE DEF e
    <3>4. server'[s].rcvd[i] = e \/
            (i \in DOMAIN server[s].rcvd /\ server'[s].rcvd[i] = server[s].rcvd[i])
      BY <3>1, <3>2
    <3> QED
      BY <1>1, <3>1, <3>3, <3>4 DEF UploadAffinity
  <2> QED
    BY <2>1, <2>2
<1> QED
  BY <1>3, <1>4, <1>5, <1>6, <1>7, <1>8

(* OneAtATime is inductive, relative to IInv.                              *)
LEMMA OneAtATimeStep ==
  ASSUME ~Overlapping, IInv, OneAtATime, [Next]_vars
  PROVE  OneAtATime'
<1>1. CASE CloudVDInit \/ CloudVDInitRefused
  BY <1>1, OneAtATimeInit
<1>2. CASE CloudVDFini
  BY <1>2, OneAtATimeFini
<1>3. ASSUME NEW c \in Caller, CallStep(c) PROVE OneAtATime'
  <2>1. CASE BeginReplied(c)
    BY <2>1, OneAtATimeBeginReplied
  <2>2. CASE SpawnThread(c)
    BY <2>2, OneAtATimeSpawnThread
  <2>3. CASE SessionEnd(c)
    BY <2>3, OneAtATimeSessionEnd
  <2>4. CASE Release(c)
    BY <2>4, OneAtATimeRelease
  <2> QED
    BY <1>3, <2>1, <2>2, <2>3, <2>4, OneAtATimeQuietCall DEF CallStep
<1>4. ASSUME NEW c \in Caller, AppStep(c) PROVE OneAtATime'
  <2>1. CASE CopyResult(c)
    BY <2>1, OneAtATimeQuietCall
  <2>2. ASSUME NEW s \in Session, StartSession(c, s) PROVE OneAtATime'
    BY <2>2, OneAtATimeStartSession
  <2> QED
    BY <1>4, <2>1, <2>2, OneAtATimeQuietApp DEF AppStep
<1>5. ASSUME NEW s \in Session, WorkerStep(s) PROVE OneAtATime'
  <2>1. CASE WorkerSend(s)
    BY <2>1, OneAtATimeUpload DEF WorkerSend
  <2>2. CASE WorkerRetry(s)
    BY <2>2, OneAtATimeUpload DEF WorkerRetry
  <2> QED
    BY <1>5, <2>1, <2>2, OneAtATimeQuietWorker DEF WorkerStep
<1>6. CASE UNCHANGED vars
  BY <1>6, OneAtATimeKept
    DEF vars, GlobalsKept, StatesKept, ThreadsKept, LabelsKept
<1> QED
  BY <1>1, <1>2, <1>3, <1>4, <1>5, <1>6 DEF Next

(* While sessions do not overlap, the process globals - the easy handle,   *)
(* the cookie, the server's address - are those of the session in use, and *)
(* only a session that is over has been ended.                             *)
THEOREM GlobalsOfTheSession ==
  ASSUME ~Overlapping
  PROVE  Spec => []OneAtATime
<1>1. Init => OneAtATime
  BY DEF Init, OneAtATime, CurlOwned, Live, NoParam, NewParam, Bound, Uploads, LoopLabels,
         Idle, ToldLast, NothingYet, EndOKMeansTold, UploadAffinity
<1>2. IInv /\ OneAtATime /\ [Next]_vars => OneAtATime'
  BY OneAtATimeStep
<1> QED
  BY <1>1, <1>2, Invariant, PTL DEF Spec

(* The easy handle curl, a global, is the live session's, and every handle *)
(* CloudVDStartSession made is cleaned up with its session.                *)
THEOREM NoHandleLeaked ==
  ASSUME ~Overlapping
  PROVE  Spec => []CurlOwned
<1>1. OneAtATime => CurlOwned
  BY DEF OneAtATime
<1> QED
  BY <1>1, GlobalsOfTheSession, PTL

(* session_id and m_server_addr, globals too, are at every upload what the *)
(* session's own SessionBegin made them.                                   *)
THEOREM UploadsReachTheirSession ==
  ASSUME ~Overlapping
  PROVE  Spec => []UploadAffinity
<1>1. OneAtATime => UploadAffinity
  BY DEF OneAtATime
<1> QED
  BY <1>1, GlobalsOfTheSession, PTL

(* CloudVDEndSession returns success only for a session it has ended.      *)
THEOREM EndReported ==
  ASSUME ~Overlapping
  PROVE  Spec => []EndOKMeansTold
<1>1. OneAtATime => EndOKMeansTold
  BY DEF OneAtATime
<1> QED
  BY <1>1, GlobalsOfTheSession, PTL

(* After SessionEnd the service gets no more audio of the session: the     *)
(* wait of CloudVDEndSession for b_start was for the whole upload loop.    *)
THEOREM SilenceAfterEnd ==
  ASSUME ~Overlapping
  PROVE  Spec => NothingAfterEnd
<1>1. ASSUME IInv, OneAtATime, [Next]_vars, NEW s \in Session, server[s].told
      PROVE  server'[s].rcvd = server[s].rcvd
  <2>0. Typed /\ worker[s].pc \notin LoopLabels
    <3>1. CASE sp[s].state = "freed"
      BY <1>1, <3>1 DEF IInv, Control, LiveWhileRunning, Live
    <3>2. CASE sp[s].state # "freed"
      BY <1>1, <3>2 DEF IInv, Control, HandShake, OneAtATime, ToldLast
    <3> QED
      BY <1>1, <3>1, <3>2 DEF IInv
  <2>1. CASE \E c \in Caller : BeginReplied(c)
    BY <2>0, <2>1, VariableTypes DEF BeginReplied, ServerType
  <2>2. CASE \E c \in Caller : SessionEnd(c)
    BY <2>0, <2>2, VariableTypes DEF SessionEnd, ServerType
  <2>3. ASSUME NEW t \in Session, WorkerSend(t) \/ WorkerRetry(t)
        PROVE  server'[s].rcvd = server[s].rcvd
    <3>1. t # s
      BY <2>0, <2>3 DEF WorkerSend, WorkerRetry, LoopLabels
    <3> QED
      BY <2>0, <2>3, <3>1, AttemptEffect DEF WorkerSend, WorkerRetry
  <2>4. CASE UNCHANGED server
    BY <2>4
  <2>5. CASE CloudVDInit \/ CloudVDInitRefused \/ CloudVDFini \/ UNCHANGED vars
    BY <2>4, <2>5 DEF CloudVDInit, CloudVDInitRefused, CloudVDFini, vars
  <2>6. ASSUME NEW c \in Caller, CallStep(c)
        PROVE  server'[s].rcvd = server[s].rcvd
    BY <2>1, <2>2, <2>4, <2>6 DEF CallStep, BeginFailed, SpawnThread, SpawnFailed,
       ThreadStarted, PushLock, PushUnlock, PollDone, PollFailed, Join, Release
  <2>7. ASSUME NEW c \in Caller, AppStep(c)
        PROVE  server'[s].rcvd = server[s].rcvd
    BY <2>4, <2>7 DEF AppStep, CopyResult, StartSession, PostBuffered, PostData,
       GetPartialResult, GetFinalResult, EndSession
  <2>8. ASSUME NEW t \in Session, WorkerStep(t)
        PROVE  server'[s].rcvd = server[s].rcvd
    BY <2>3, <2>4, <2>8 DEF WorkerStep, WorkerStart, WorkerTest, WorkerStop, WorkerLog,
       WorkerPeek, WorkerLock, WorkerPop, WorkerText, WorkerCode, WorkerFail, WorkerLast
  <2> QED
    BY <1>1, <2>5, <2>6, <2>7, <2>8 DEF Next
<1>2. IInv /\ OneAtATime /\ [Next]_vars =>
        [\A s \in Session : server[s].told => server'[s].rcvd = server[s].rcvd]_vars
  BY <1>1
<1> QED
  BY <1>2, Invariant, GlobalsOfTheSession, PTL DEF Spec, NothingAfterEnd

-----------------------------------------------------------------------------
(* One utterance.                                                          *)

(* The types of what Utterance speaks of.                                  *)
LEMMA UtteranceTypes ==
  ASSUME Typed, NEW s \in Session
  PROVE  /\ m_data[s].q_buf \in Seq(Packet)
         /\ server[s].rcvd \in Seq([pkt: Packet, cookie: Session \cup {NULL}, addr: Address])
         /\ sp[s].m_audio_index \in Nat /\ sp[s].posts \in Nat /\ sp[s].m_packet_id \in Nat
         /\ sp[s].closed \in BOOLEAN
         /\ Pushing(s) => call[Recorder].pkt \in Packet
         /\ worker[s].pc \in PacketLabels => worker[s].pkt \in Packet
         /\ worker[s].cut \in BOOLEAN
BY VariableTypes, RecorderAssumption
  DEF DataType, ServerType, ParamType, Pushing, Typed, CallTyped, WorkerTyped, WorkerType

(* The queue and the record of what arrived, as arrays.                    *)
LEMMA SequenceTypes ==
  ASSUME Typed, NEW s \in Session
  PROVE  /\ Len(m_data[s].q_buf) \in Nat
         /\ DOMAIN m_data[s].q_buf = 1..Len(m_data[s].q_buf)
         /\ m_data[s].q_buf = <<>> <=> Len(m_data[s].q_buf) = 0
         /\ \A i \in 1..Len(m_data[s].q_buf) : m_data[s].q_buf[i] \in Packet
         /\ Len(server[s].rcvd) \in Nat
         /\ DOMAIN server[s].rcvd = 1..Len(server[s].rcvd)
         /\ server[s].rcvd = <<>> <=> Len(server[s].rcvd) = 0
         /\ \A i \in 1..Len(server[s].rcvd) : server[s].rcvd[i].pkt \in Packet
<1> DEFINE R == [pkt: Packet, cookie: Session \cup {NULL}, addr: Address]
<1>1. m_data[s].q_buf \in Seq(Packet) /\ server[s].rcvd \in Seq(R)
  BY UtteranceTypes
<1>2. \A e \in R : e.pkt \in Packet
  OBVIOUS
<1> HIDE DEF R
<1>3. /\ Len(m_data[s].q_buf) \in Nat
      /\ DOMAIN m_data[s].q_buf = 1..Len(m_data[s].q_buf)
      /\ m_data[s].q_buf = <<>> <=> Len(m_data[s].q_buf) = 0
      /\ \A i \in 1..Len(m_data[s].q_buf) : m_data[s].q_buf[i] \in Packet
  BY <1>1
<1>4. /\ Len(server[s].rcvd) \in Nat
      /\ DOMAIN server[s].rcvd = 1..Len(server[s].rcvd)
      /\ server[s].rcvd = <<>> <=> Len(server[s].rcvd) = 0
      /\ \A i \in 1..Len(server[s].rcvd) : server[s].rcvd[i] \in R
  BY <1>1
<1> QED
  BY <1>2, <1>3, <1>4

(* What is known of a session is packets; what is known of a packet is     *)
(* where it is.                                                            *)
LEMMA KnownPackets ==
  ASSUME Typed, NEW s \in Session
  PROVE  /\ Known(s) \subseteq Packet
         /\ \A i \in DOMAIN m_data[s].q_buf : m_data[s].q_buf[i] \in Known(s)
         /\ \A i \in DOMAIN server[s].rcvd : server[s].rcvd[i].pkt \in Known(s)
         /\ worker[s].pc \in PacketLabels => worker[s].pkt \in Known(s)
         /\ Pushing(s) => call[Recorder].pkt \in Known(s)
<1>1. /\ \A i \in DOMAIN m_data[s].q_buf : m_data[s].q_buf[i] \in Packet
      /\ \A i \in DOMAIN server[s].rcvd : server[s].rcvd[i].pkt \in Packet
  BY SequenceTypes
<1>2. /\ worker[s].pc \in PacketLabels => worker[s].pkt \in Packet
      /\ Pushing(s) => call[Recorder].pkt \in Packet
  BY UtteranceTypes
<1> QED
  BY <1>1, <1>2 DEF Known

(* The counts: of packets received, and of packets taken from the queue.   *)
LEMMA CountTypes ==
  ASSUME Typed, NEW s \in Session
  PROVE  /\ Received(s) \in Nat
         /\ Popped(s) \in Int
         /\ Received(s) > 0 =>
              /\ server[s].rcvd # <<>>
              /\ Len(server[s].rcvd) \in DOMAIN server[s].rcvd
              /\ LastReceived(s) \in Known(s)
              /\ LastReceived(s).audio_index + 1 = Received(s)
         /\ server[s].rcvd # <<>> => Received(s) > 0
<1>1. /\ Len(m_data[s].q_buf) \in Nat /\ sp[s].m_audio_index \in Nat
      /\ Len(server[s].rcvd) \in Nat
  BY UtteranceTypes, SequenceTypes
<1>2. server[s].rcvd # <<>> =>
        /\ Len(server[s].rcvd) \in DOMAIN server[s].rcvd
        /\ LastReceived(s) \in Known(s)
        /\ LastReceived(s) \in Packet
  BY SequenceTypes, KnownPackets DEF LastReceived
<1>3. Popped(s) \in Int
  BY <1>1 DEF Popped
<1>4. \A p \in Packet : p.audio_index \in Nat
  BY DEF Packet
<1> QED
  BY <1>2, <1>3, <1>4 DEF Received

(* A step that does not touch what Utterance says of t, but for the label  *)
(* of an upload thread that holds no packet, or the return of              *)
(* CloudVDStartSession.                                                    *)
WaitLabels == {"none", "created", "test", "peek", "lock", "pop", "log", "dead"}

SameParam(t) ==
  /\ sp'[t].state = sp[t].state
  /\ sp'[t].vinput = sp[t].vinput
  /\ sp'[t].posts = sp[t].posts
  /\ sp'[t].closed = sp[t].closed
  /\ sp'[t].m_audio_index = sp[t].m_audio_index
  /\ sp'[t].start = "SUCCESS" =>
       \/ sp[t].start = "SUCCESS" /\ sp'[t].m_packet_id = sp[t].m_packet_id
       \/ sp[t].m_audio_index = 0 /\ sp'[t].m_packet_id = 3

SameData(t) ==
  /\ m_data'[t].q_buf = m_data[t].q_buf
  /\ m_data'[t].text = m_data[t].text
  /\ m_data'[t].error_code = m_data[t].error_code
  /\ m_data'[t].b_last = m_data[t].b_last
  /\ m_data'[t].c_code = m_data[t].c_code

SameThread(t) ==
  /\ worker'[t].pkt = worker[t].pkt
  /\ worker'[t].reply = worker[t].reply
  /\ worker'[t].cut = worker[t].cut
  /\ \/ worker'[t].pc = worker[t].pc
     \/ /\ worker[t].pc \in WaitLabels /\ worker'[t].pc \in WaitLabels
        /\ worker'[t].pc \in {"lock", "pop"} => ~UploadFailed(t) /\ ~m_data[t].b_last

SamePush(t) ==
  /\ Pushing(t)' = Pushing(t)
  /\ Pushing(t) => call'[Recorder].pkt = call[Recorder].pkt

QuietStep(t) == /\ SameParam(t)
                /\ SameData(t)
                /\ SameThread(t)
                /\ SamePush(t)
                /\ server'[t].rcvd = server[t].rcvd

(* A waiting thread holds no packet and is not at b_last = true.            *)
LEMMA WaitLabelsDisjoint ==
  WaitLabels \cap (PacketLabels \cup {"last"}) = {}
BY DEF WaitLabels, PacketLabels

(* Such a step keeps Utterance.                                            *)
LEMMA UtteranceKept ==
  ASSUME Typed, NEW t \in Session, Utterance(t), QuietStep(t)
  PROVE  Utterance(t)'
<1> SUFFICES ASSUME Live(t)'
             PROVE  /\ Counters(t)' /\ Stamped(t)' /\ Ordered(t)' /\ Placed(t)'
                    /\ UpToDate(t)' /\ Complete(t)' /\ Over(t)' /\ Answered(t)'
  BY DEF Utterance
<1>1. /\ Counters(t) /\ Stamped(t) /\ Ordered(t) /\ Placed(t)
      /\ UpToDate(t) /\ Complete(t) /\ Over(t) /\ Answered(t)
  BY DEF Utterance, Live, QuietStep, SameParam
<1>2. Known(t)' = Known(t)
  <2>1. (worker'[t].pc \in PacketLabels) = (worker[t].pc \in PacketLabels)
    BY WaitLabelsDisjoint DEF QuietStep, SameThread
  <2>2. /\ m_data'[t].q_buf = m_data[t].q_buf /\ server'[t].rcvd = server[t].rcvd
        /\ worker'[t].pkt = worker[t].pkt
        /\ Pushing(t)' = Pushing(t)
        /\ Pushing(t) => call'[Recorder].pkt = call[Recorder].pkt
    BY DEF QuietStep, SameData, SameThread, SamePush
  <2> QED
    BY <2>1, <2>2 DEF Known
<1>3. Popped(t)' = Popped(t)
  BY DEF Popped, QuietStep, SameParam, SameData, SamePush
<1>4. Received(t)' = Received(t) /\ Retried(t)' = Retried(t)
  BY DEF Received, LastReceived, Retried, QuietStep
<1>5. Counters(t)'
  <2>1. 3 = 2 * 0 + 3
    OBVIOUS
  <2> QED
    BY <1>1, <2>1 DEF Counters, QuietStep, SameParam
<1>6. Stamped(t)'
  <2>1. Known(t) # {} => sp[t].m_audio_index # 0
    BY <1>1, KnownPackets, UtteranceTypes DEF Stamped, Packet
  <2> QED
    BY <1>1, <1>2, <2>1 DEF Stamped, QuietStep, SameParam
<1>7. Ordered(t)'
  BY <1>1, <1>2 DEF Ordered
<1>8. Placed(t)'
  BY <1>1, <1>3, WaitLabelsDisjoint
    DEF Placed, QuietStep, SameParam, SameData, SameThread, SamePush
<1>9. UpToDate(t)'
  <2>1. worker'[t].pc \in PacketLabels \/ worker[t].pc \in PacketLabels =>
          worker'[t].pc = worker[t].pc
    BY WaitLabelsDisjoint DEF QuietStep, SameThread
  <2>2. Sending(t)' = Sending(t)
    BY <2>1 DEF Sending, QuietStep, SameThread, PacketLabels
  <2>3. UploadFailed(t)' = UploadFailed(t)
    BY DEF UploadFailed, QuietStep, SameData
  <2>4. UploadFailed(t)' => worker'[t].pc \notin BusyLabels
    BY <1>1, <2>1, <2>3 DEF UpToDate, BusyLabels, QuietStep, SameThread
  <2>5. worker'[t].pc = "fail" <=> worker[t].pc = "fail"
    BY <2>1 DEF PacketLabels
  <2>6. worker'[t].pc = "retry" <=> worker[t].pc = "retry"
    BY <2>1 DEF PacketLabels
  <2>7. /\ server'[t].rcvd = server[t].rcvd /\ worker'[t].pkt = worker[t].pkt
        /\ worker'[t].cut = worker[t].cut
    BY DEF QuietStep, SameThread
  <2> QED
    BY <1>1, <1>3, <1>4, <2>2, <2>3, <2>4, <2>5, <2>6, <2>7 DEF UpToDate
<1>10. Complete(t)'
  BY <1>1, <1>4 DEF Complete, QuietStep
<1>11. Over(t)'
  BY <1>1, WaitLabelsDisjoint
    DEF Over, QuietStep, SameParam, SameData, SameThread, SamePush, BusyLabels
<1>12. Answered(t)'
  <2>1. worker'[t].pc \in {"text", "code", "last"} \/ worker[t].pc = "last" =>
          worker'[t].pc = worker[t].pc
    BY WaitLabelsDisjoint DEF QuietStep, SameThread, PacketLabels
  <2> QED
    BY <1>1, <1>4, <2>1 DEF Answered, QuietStep, SameParam, SameData, SameThread, UploadFailed
<1> QED
  BY <1>5, <1>6, <1>7, <1>8, <1>9, <1>10, <1>11, <1>12

(* GaplessUpload is about one session's record of what arrived.            *)
Gapless(r) ==
  \A i \in 1..Len(r) :
    IF i = 1
    THEN r[i].pkt.packet_id = 3 /\ r[i].pkt.audio_index = 0
    ELSE \/ /\ r[i].pkt = r[i-1].pkt
            /\ i > 2 => r[i].pkt # r[i-2].pkt
         \/ /\ r[i].pkt.packet_id   = r[i-1].pkt.packet_id + 2
            /\ r[i].pkt.audio_index = r[i-1].pkt.audio_index + 1
            /\ r[i].pkt.upto        > r[i-1].pkt.upto

(* ... of every session.                                                   *)
LEMMA GaplessSequences ==
  /\ GaplessUpload <=> \A s \in Session : Gapless(server[s].rcvd)
  /\ GaplessUpload' <=> \A s \in Session : Gapless(server'[s].rcvd)
BY DEF GaplessUpload, Gapless

(* Nothing is pushed, or the recorder goes on with what it was pushing.    *)
LEMMA PushKept ==
  ASSUME NEW c \in Caller, \A d \in Caller \ {c} : call'[d] = call[d],
         \/ call[c].pc \notin {"push", "pushing"} /\ call'[c].pc \notin {"push", "pushing"}
         \/ /\ call[c].pc \in {"push", "pushing"} /\ call'[c].pc \in {"push", "pushing"}
            /\ call'[c].s = call[c].s /\ call'[c].pkt = call[c].pkt
  PROVE  \A t \in Session : SamePush(t)
BY RecorderAssumption DEF SamePush, Pushing

(* What a call that holds a result was told stays so.                      *)
LEMMA FinalKept ==
  ASSUME Typed, Final, \A t \in Session : sp'[t].vinput = sp[t].vinput /\ SameData(t),
         \A d \in Caller : call'[d].pc = "holding" =>
           /\ call[d].pc = "holding"
           /\ call'[d].s = call[d].s /\ call'[d].ret = call[d].ret
  PROVE  Final'
BY DEF Final, Typed, CallTyped, SameData, UploadFailed

(* A step that changes no SessionParam, no packet and no outcome.          *)
LEMMA OneUtteranceKept ==
  ASSUME IInv, OneUtterance, Final', UNCHANGED sp, \A t \in Session : QuietStep(t),
         \A d \in Caller :
           /\ call'[d].pc \in {"push", "pushing"} => call[d].pc \in {"push", "pushing"}
           /\ call'[d].pc \in {"begin", "spawn", "spawned"} =>
                call'[d].pc = call[d].pc /\ call'[d].s = call[d].s,
         \A t \in Session :
           /\ worker'[t].pc # "none" => worker[t].pc # "none"
           /\ worker'[t].pc \in {"none", "created"} => worker[t].pc \in {"none", "created"}
  PROVE  OneUtterance'
<1> USE DEF OneUtterance, IInv
<1>1. \A t \in Session : /\ m_data'[t].q_buf = m_data[t].q_buf
                        /\ Pushing(t)' = Pushing(t)
                        /\ server'[t].rcvd = server[t].rcvd
  BY DEF QuietStep, SameData, SamePush
<1>2. Begun'
  BY <1>1 DEF Begun, Live
<1>3. NothingYet'
  BY <1>1 DEF NothingYet
<1>4. GaplessUpload'
  BY <1>1, GaplessSequences
<1>5. Uncut'
  BY WaitLabelsDisjoint DEF Uncut, QuietStep, SameThread
<1>6. \A t \in Session : Utterance(t)'
  BY UtteranceKept
<1> QED
  BY <1>2, <1>3, <1>4, <1>5, <1>6

(* Nothing changes that Utterance is about.                                *)
LEMMA DataKept ==
  ASSUME UNCHANGED <<sp, m_data, worker, server>>
  PROVE  \A t \in Session : /\ SameParam(t) /\ SameData(t) /\ SameThread(t)
                           /\ server'[t].rcvd = server[t].rcvd
BY DEF SameParam, SameData, SameThread

(* Calls that only move: to the mutex, out of the polling loop, past the   *)
(* wait for b_start, back to the application.                              *)
LEMMA OneUtteranceQuietCall ==
  ASSUME IInv, OneUtterance, NEW c \in Caller,
         PushLock(c) \/ Join(c) \/ CopyResult(c)
  PROVE  OneUtterance'
<1> USE DEF IInv
<1>1. /\ UNCHANGED <<sp, m_data, worker, server>>
      /\ \A d \in Caller \ {c} : call'[d] = call[d]
      /\ \/ /\ call[c].pc = "push" /\ call'[c].pc = "pushing"
            /\ call'[c].s = call[c].s /\ call'[c].pkt = call[c].pkt
         \/ call[c].pc = "join" /\ call'[c].pc = "bye"
         \/ call[c].pc = "holding" /\ call'[c].pc = "idle"
  BY GotoEffect, ReturnEffect DEF PushLock, Join, CopyResult, Idle
<1>2. \A t \in Session : SamePush(t)
  BY <1>1, PushKept
<1>3. \A t \in Session : QuietStep(t)
  BY <1>1, <1>2, DataKept DEF QuietStep
<1>4. Final'
  BY <1>1, <1>3, FinalKept DEF QuietStep, OneUtterance
<1> QED
  BY <1>1, <1>3, <1>4, OneUtteranceKept

(* SessionEnd: what the service has received is as it was.                 *)
LEMMA OneUtteranceSessionEnd ==
  ASSUME IInv, OneUtterance, NEW c \in Caller, SessionEnd(c)
  PROVE  OneUtterance'
<1> USE DEF IInv
<1>1. /\ UNCHANGED <<sp, m_data, worker>>
      /\ \A t \in Session : server'[t].rcvd = server[t].rcvd
  BY VariableTypes DEF SessionEnd, ServerType
<1>2. /\ call[c].pc = "bye" /\ call'[c].pc = "free"
      /\ \A d \in Caller \ {c} : call'[d] = call[d]
  BY VariableTypes DEF SessionEnd, CallType
<1>3. \A t \in Session : SamePush(t)
  BY <1>2, PushKept
<1>4. \A t \in Session : QuietStep(t)
  BY <1>1, <1>3 DEF QuietStep, SameParam, SameData, SameThread
<1>5. Final'
  BY <1>1, <1>2, <1>4, FinalKept DEF QuietStep, OneUtterance
<1> QED
  BY <1>1, <1>2, <1>4, <1>5, OneUtteranceKept

(* CloudVDInit and CloudVDFini.                                            *)
LEMMA OneUtteranceProcess ==
  ASSUME IInv, OneUtterance,
         CloudVDInit \/ CloudVDInitRefused \/ CloudVDFini \/ UNCHANGED vars
  PROVE  OneUtterance'
<1> USE DEF IInv
<1>1. UNCHANGED <<sp, m_data, worker, server, call>>
  BY DEF CloudVDInit, CloudVDInitRefused, CloudVDFini, vars
<1>2. \A t \in Session : QuietStep(t)
  BY <1>1, DataKept DEF QuietStep, SamePush, Pushing
<1>3. Final'
  BY <1>1, <1>2, FinalKept DEF QuietStep, OneUtterance
<1> QED
  BY <1>1, <1>2, <1>3, OneUtteranceKept

(* CloudVDGetResult, from the question to the answer: the answer is final  *)
(* if it is not a partial one.                                             *)
LEMMA OneUtteranceGetResult ==
  ASSUME IInv, OneUtterance, NEW c \in Caller, NEW s \in Session,
         \/ GetPartialResult(c, s) \/ GetFinalResult(c, s)
         \/ call[c].s = s /\ (PollDone(c) \/ PollFailed(c))
  PROVE  OneUtterance'
<1> USE DEF IInv
<1>1. UNCHANGED <<sp, m_data, worker, server>>
  BY DEF GetPartialResult, GetFinalResult, PollDone, PollFailed
<1>2. /\ call[c].pc \in {"idle", "poll"}
      /\ call'[c].s = s
      /\ \A d \in Caller \ {c} : call'[d] = call[d]
      /\ \/ call'[c].pc = "poll"
         \/ call'[c].pc = "holding" /\ sp[s].vinput /\ call'[c].ret = ResultCode(s)
         \/ call'[c].pc = "holding" /\ m_data[s].b_last /\ call'[c].ret = ResultCode(s)
         \/ call'[c].pc = "holding" /\ UploadFailed(s)
  <2>1. CASE GetPartialResult(c, s)
    BY <2>1, HoldEffect DEF GetPartialResult, MayAsk
  <2>2. CASE GetFinalResult(c, s)
    BY <2>2, VariableTypes DEF GetFinalResult, MayAsk, Idle
  <2>3. CASE call[c].s = s /\ PollDone(c)
    BY <2>3, HoldEffect DEF PollDone, LastSent
  <2>4. CASE call[c].s = s /\ PollFailed(c)
    BY <2>4, HoldEffect DEF PollFailed
  <2> QED
    BY <2>1, <2>2, <2>3, <2>4
<1>3. \A t \in Session : QuietStep(t)
  <2>1. \A t \in Session : SamePush(t)
    BY <1>2, PushKept
  <2> QED
    BY <1>1, <2>1, DataKept DEF QuietStep
<1>4. Final'
  <2> SUFFICES ASSUME NEW d \in Caller, call'[d].pc = "holding"
               PROVE  LET t == call'[d].s IN
                        /\ call'[d].ret = "ERR_NET" => UploadFailed(t)
                        /\ ~sp[t].vinput => UploadFailed(t) \/ m_data[t].b_last
                        /\ ~sp[t].vinput /\ call'[d].ret = "SUCCESS" =>
                             UploadFailed(t) \/ m_data[t].error_code = "SUCCESS"
    BY <1>1 DEF Final, UploadFailed
  <2>1. CASE d # c
    BY <1>2, <2>1 DEF OneUtterance, Final
  <2>2. CASE d = c
    BY <1>2, <2>2 DEF ResultCode
  <2> QED
    BY <2>1, <2>2
<1> QED
  BY <1>1, <1>2, <1>3, <1>4, OneUtteranceKept

(* CloudVDEndSession asks the upload thread to stop.                       *)
LEMMA OneUtteranceEndSession ==
  ASSUME IInv, OneUtterance, NEW c \in Caller, NEW s \in Session, EndSession(c, s)
  PROVE  OneUtterance'
<1> USE DEF IInv
<1>1. /\ UNCHANGED <<sp, worker, server>>
      /\ \A t \in Session : SameData(t)
  BY VariableTypes DEF EndSession, SameData, DataType
<1>2. /\ call[c].pc = "idle" /\ call'[c].pc = "join"
      /\ \A d \in Caller \ {c} : call'[d] = call[d]
  BY VariableTypes DEF EndSession, Idle
<1>3. \A t \in Session : SamePush(t)
  BY <1>2, PushKept
<1>4. \A t \in Session : QuietStep(t)
  BY <1>1, <1>3 DEF QuietStep, SameParam, SameThread
<1>5. Final'
  BY <1>1, <1>2, FinalKept DEF OneUtterance
<1> QED
  BY <1>1, <1>2, <1>4, <1>5, OneUtteranceKept

(* The upload thread turns in its loop, leaves it, or goes for the mutex   *)
(* because there is something to pop.                                      *)
LEMMA OneUtteranceQuietWorker ==
  ASSUME IInv, OneUtterance, NEW s \in Session,
         \/ WorkerStart(s) \/ WorkerTest(s) \/ WorkerStop(s) \/ WorkerLog(s)
         \/ WorkerPeek(s) \/ WorkerLock(s)
  PROVE  OneUtterance'
<1> USE DEF IInv
<1>1. /\ UNCHANGED <<sp, call, server>>
      /\ \A t \in Session : SameData(t)
  <2>1. \/ UNCHANGED m_data
        \/ \E b \in BOOLEAN : m_data' = [m_data EXCEPT ![s].b_start = b]
    BY DEF WorkerStart, WorkerTest, WorkerStop, WorkerLog, WorkerPeek, WorkerLock
  <2>2. UNCHANGED <<sp, call, server>>
    BY DEF WorkerStart, WorkerTest, WorkerStop, WorkerLog, WorkerPeek, WorkerLock
  <2>3. CASE UNCHANGED m_data
    BY <2>2, <2>3 DEF SameData
  <2>4. ASSUME NEW b \in BOOLEAN, m_data' = [m_data EXCEPT ![s].b_start = b]
        PROVE  \A t \in Session : SameData(t)
    BY <2>4, VariableTypes DEF SameData, DataType
  <2> QED
    BY <2>1, <2>2, <2>3, <2>4
<1>2. PICK to \in WaitLabels \ {"none", "created"} :
        \/ \E from \in WaitLabels \ {"none", "peek", "lock"} :
             to \notin {"lock", "pop"} /\ Step(s, from, to)
        \/ to \notin {"lock", "pop"} /\ Step(s, "peek", to)
        \/ to = "lock" /\ Step(s, "peek", to) /\ HasWork(s)
        \/ to = "pop" /\ Step(s, "lock", to)
  <2>1. CASE WorkerStart(s)
    BY <2>1 DEF WorkerStart, WaitLabels
  <2>2. CASE WorkerTest(s) \/ WorkerStop(s) \/ WorkerLog(s)
    BY <2>2 DEF WorkerTest, WorkerStop, WorkerLog, WaitLabels
  <2>3. CASE WorkerPeek(s) \/ WorkerLock(s)
    BY <2>3 DEF WorkerPeek, WorkerLock, WaitLabels
  <2> QED
    BY <2>1, <2>2, <2>3
<1>3. /\ worker'[s].pc = to
      /\ worker[s].pc \in WaitLabels \ {"none"}
      /\ worker'[s].pkt = worker[s].pkt /\ worker'[s].reply = worker[s].reply
      /\ worker'[s].cut = worker[s].cut
      /\ \A t \in Session \ {s} : worker'[t] = worker[t]
      /\ to = "pop" => worker[s].pc = "lock"
      /\ to = "lock" => worker[s].pc = "peek" /\ HasWork(s)
  BY <1>2, StepEffect DEF WaitLabels
<1>4. to \in {"lock", "pop"} => ~UploadFailed(s) /\ ~m_data[s].b_last
  <2> SUFFICES ASSUME to \in {"lock", "pop"}
               PROVE  ~UploadFailed(s) /\ ~m_data[s].b_last
    OBVIOUS
  <2>1. UpToDate(s) /\ Over(s)
    <3>1. Live(s)
      BY <1>3 DEF Control, LiveWhileRunning, LoopLabels
    <3> QED
      BY <3>1 DEF OneUtterance, Utterance
  <2>2. CASE to = "pop"
    BY <1>3, <2>1, <2>2 DEF UpToDate, Over, BusyLabels
  <2>3. CASE to = "lock"
    <3>1. BeingPushed(s) => Pushing(s)
      BY DEF BeingPushed, Pushing, OneUtterance, Begun
    <3> QED
      BY <1>3, <2>1, <2>3, <3>1 DEF HasWork, Over, UploadFailed
  <2> QED
    BY <2>2, <2>3
<1>5. \A t \in Session : SameThread(t)
  BY <1>3, <1>4 DEF SameThread
<1>6. \A t \in Session : QuietStep(t)
  BY <1>1, <1>5 DEF QuietStep, SameParam, SamePush, Pushing
<1>7. Final'
  BY <1>1, FinalKept DEF OneUtterance
<1> QED
  BY <1>1, <1>3, <1>6, <1>7, OneUtteranceKept

(* CloudVDStartSession goes on or returns: nothing was posted yet, and the *)
(* packet numbers start from 3 if the session did.                         *)
LEMMA OneUtteranceStarting ==
  ASSUME IInv, OneUtterance, NEW c \in Caller,
         call[c].pc \in {"begin", "spawn", "spawned"},
         LET s == call[c].s IN
           /\ \A t \in Session \ {s} : sp'[t] = sp[t]
           /\ sp'[s].state = sp[s].state /\ sp'[s].vinput = sp[s].vinput
           /\ sp'[s].posts = sp[s].posts /\ sp'[s].closed = sp[s].closed
           /\ sp'[s].m_audio_index = sp[s].m_audio_index
           /\ \/ /\ call'[c].pc = "idle" /\ call[c].pc \in {"begin", "spawn"}
                 /\ sp'[s].start \notin {NULL, "SUCCESS"}
              \/ /\ call'[c].pc = "idle"
                 /\ sp'[s].start = "SUCCESS" /\ sp'[s].m_packet_id = 3
              \/ /\ call'[c].pc = "spawn" /\ call'[c].s = s
                 /\ sp'[s].start = NULL /\ sp'[s].m_packet_id = 3,
         \A d \in Caller \ {c} : call'[d] = call[d],
         UNCHANGED <<m_data, worker>>,
         \A t \in Session : server'[t].rcvd = server[t].rcvd
  PROVE  OneUtterance'
<1> USE DEF IInv
<1> DEFINE s == call[c].s
<1>1. /\ s \in Session /\ Live(s)
      /\ sp[s].start = NULL
      /\ sp[s].m_audio_index = 0 /\ sp[s].posts = 0 /\ ~sp[s].closed
      /\ m_data[s].q_buf = <<>> /\ ~Pushing(s)
      /\ call[c].pc \in {"begin", "spawn"} => worker[s].pc = "none"
  BY DEF OneUtterance, Begun, Typed, CallTyped, Control, CallsLive, HandShake
<1>2. \A d \in Caller \ {c} : call[d].s # s
  BY DEF Control, Exclusive, OwnLabels
<1>3. \A t \in Session : SamePush(t)
  BY PushKept
<1>4. \A t \in Session : QuietStep(t)
  <2>1. \A t \in Session : SameParam(t)
    BY <1>1 DEF SameParam
  <2> QED
    BY <1>3, <2>1 DEF QuietStep, SameData, SameThread
<1>5. Begun'
  <2>1. \A d \in Caller :
          /\ call'[d].pc \in {"push", "pushing"} => d = Recorder
          /\ call'[d].pc \in {"begin", "spawn", "spawned"} =>
               /\ sp'[call'[d].s].start = NULL
               /\ sp'[call'[d].s].m_packet_id = IF call'[d].pc = "begin" THEN 1 ELSE 3
    <3> SUFFICES ASSUME NEW d \in Caller
                 PROVE  /\ call'[d].pc \in {"push", "pushing"} => d = Recorder
                        /\ call'[d].pc \in {"begin", "spawn", "spawned"} =>
                             /\ sp'[call'[d].s].start = NULL
                             /\ sp'[call'[d].s].m_packet_id =
                                  IF call'[d].pc = "begin" THEN 1 ELSE 3
      OBVIOUS
    <3>1. CASE d = c
      BY <3>1
    <3>2. CASE d # c
      <4>1. call'[d] = call[d] /\ (call[d].pc # "idle" => call[d].s \in Session \ {s})
        BY <1>2, <3>2 DEF Typed, CallTyped
      <4> QED
        BY <4>1 DEF OneUtterance, Begun
    <3> QED
      BY <3>1, <3>2
  <2>2. \A t \in Session : Live(t)' =>
          /\ worker'[t].pc # "none" => sp'[t].start \in {NULL, "SUCCESS"}
          /\ sp'[t].start = NULL =>
               /\ sp'[t].m_audio_index = 0 /\ sp'[t].posts = 0 /\ ~sp'[t].closed
               /\ m_data'[t].q_buf = <<>> /\ ~Pushing(t)'
    BY <1>1, <1>3 DEF OneUtterance, Begun, Live, SamePush
  <2> QED
    BY <2>1, <2>2 DEF Begun
<1>6. NothingYet' /\ Uncut'
  BY DEF OneUtterance, NothingYet, Uncut
<1>7. GaplessUpload'
  BY GaplessSequences DEF OneUtterance
<1>8. Final'
  <2>1. \A t \in Session : sp'[t].vinput = sp[t].vinput /\ SameData(t)
    BY DEF SameData
  <2> QED
    BY <2>1, FinalKept DEF OneUtterance
<1>9. \A t \in Session : Utterance(t)'
  BY <1>4, UtteranceKept DEF OneUtterance
<1> QED
  BY <1>5, <1>6, <1>7, <1>8, <1>9 DEF OneUtterance

(* SessionBegin fails, is answered, the thread is not created, or it has   *)
(* set b_start.                                                            *)
LEMMA OneUtteranceBegin ==
  ASSUME IInv, OneUtterance, NEW c \in Caller,
         BeginFailed(c) \/ BeginReplied(c) \/ SpawnFailed(c) \/ ThreadStarted(c)
  PROVE  OneUtterance'
<1> USE DEF IInv
<1> DEFINE s == call[c].s
<1>1. /\ call[c].pc \in {"begin", "spawn", "spawned"} /\ s \in Session
      /\ sp[s].start = NULL
      /\ sp[s].m_packet_id = IF call[c].pc = "begin" THEN 1 ELSE 3
      /\ sp[s] \in ParamType /\ sp \in [Session -> ParamType]
  BY VariableTypes DEF BeginFailed, BeginReplied, SpawnFailed, ThreadStarted, Typed, CallTyped,
                       OneUtterance, Begun
<1>6. {"ERR_NET", "ERR_SERVER", "ERR_NULL_POINTER"} \cap {NULL, "SUCCESS"} = {}
  BY NullAssumption DEF Code
<1>2. CASE BeginFailed(c)
  <2>1. /\ call'[c].pc = "idle" /\ \A d \in Caller \ {c} : call'[d] = call[d]
    BY <1>2, ReturnEffect DEF BeginFailed, Idle
  <2>2. /\ \A t \in Session \ {s} : sp'[t] = sp[t]
        /\ sp'[s].state = sp[s].state /\ sp'[s].vinput = sp[s].vinput
        /\ sp'[s].posts = sp[s].posts /\ sp'[s].closed = sp[s].closed
        /\ sp'[s].m_audio_index = sp[s].m_audio_index
        /\ sp'[s].start = "ERR_NET"
    BY <1>1, <1>2 DEF BeginFailed, ParamType
  <2> QED
    BY <1>1, <1>2, <1>6, <2>1, <2>2, OneUtteranceStarting DEF BeginFailed
<1>3. CASE BeginReplied(c)
  <2>1. PICK accepted \in BOOLEAN :
          /\ sp' = [sp EXCEPT ![s].m_packet_id = (sp[s].m_packet_id + 1) + 1,
                              ![s].m_state = IF accepted THEN @ ELSE "ERR_SERVER",
                              ![s].start = IF accepted THEN @ ELSE "ERR_SERVER"]
          /\ IF accepted THEN Goto(c, "spawn") ELSE Return(c)
          /\ call[c].pc = "begin"
          /\ UNCHANGED <<m_data, worker>>
    BY <1>3 DEF BeginReplied
  <2> DEFINE r == [sp[s] EXCEPT !.m_packet_id = (sp[s].m_packet_id + 1) + 1,
                                !.m_state = IF accepted THEN @ ELSE "ERR_SERVER",
                                !.start = IF accepted THEN @ ELSE "ERR_SERVER"]
  <2>2. sp' = [sp EXCEPT ![s] = r]
    BY <1>1, <2>1
  <2>3. /\ r.state = sp[s].state /\ r.vinput = sp[s].vinput
        /\ r.posts = sp[s].posts /\ r.closed = sp[s].closed
        /\ r.m_audio_index = sp[s].m_audio_index
        /\ r.m_packet_id = 3
        /\ r.start = IF accepted THEN NULL ELSE "ERR_SERVER"
    BY <1>1, <2>1 DEF ParamType
  <2> HIDE DEF r
  <2>4. sp'[s] = r /\ \A t \in Session \ {s} : sp'[t] = sp[t]
    BY <1>1, <2>2
  <2>5. IF accepted THEN call'[c].pc = "spawn" /\ call'[c].s = s ELSE call'[c].pc = "idle"
    BY <2>1, GotoEffect, ReturnEffect DEF Idle
  <2>6. \A d \in Caller \ {c} : call'[d] = call[d]
    BY <2>1, GotoEffect, ReturnEffect
  <2>7. \A t \in Session : server'[t].rcvd = server[t].rcvd
    <3>1. \/ UNCHANGED server
          \/ \E addr : server' = [server EXCEPT ![s].home = addr]
      BY <1>3 DEF BeginReplied
    <3>2. ASSUME NEW addr, server' = [server EXCEPT ![s].home = addr]
          PROVE  \A t \in Session : server'[t].rcvd = server[t].rcvd
      BY <1>1, <3>2, VariableTypes DEF ServerType
    <3> QED
      BY <3>1, <3>2
  <2>8. /\ sp'[s].state = sp[s].state /\ sp'[s].vinput = sp[s].vinput
        /\ sp'[s].posts = sp[s].posts /\ sp'[s].closed = sp[s].closed
        /\ sp'[s].m_audio_index = sp[s].m_audio_index
        /\ sp'[s].m_packet_id = 3
    BY <2>3, <2>4
  <2>9. \/ call'[c].pc = "spawn" /\ call'[c].s = s /\ sp'[s].start = NULL
        \/ call'[c].pc = "idle" /\ sp'[s].start \notin {NULL, "SUCCESS"}
    BY <1>6, <2>3, <2>4, <2>5
  <2> QED
    BY <1>1, <2>1, <2>4, <2>6, <2>7, <2>8, <2>9, OneUtteranceStarting
<1>4. CASE SpawnFailed(c)
  <2>1. /\ call'[c].pc = "idle" /\ \A d \in Caller \ {c} : call'[d] = call[d]
    BY <1>4, ReturnEffect DEF SpawnFailed, Idle
  <2>2. /\ \A t \in Session \ {s} : sp'[t] = sp[t]
        /\ sp'[s].state = sp[s].state /\ sp'[s].vinput = sp[s].vinput
        /\ sp'[s].posts = sp[s].posts /\ sp'[s].closed = sp[s].closed
        /\ sp'[s].m_audio_index = sp[s].m_audio_index
        /\ sp'[s].start = "ERR_NULL_POINTER"
    BY <1>1, <1>4 DEF SpawnFailed, ParamType
  <2>3. call[c].pc = "spawn" /\ UNCHANGED <<m_data, worker, server>>
    BY <1>4 DEF SpawnFailed
  <2> QED
    BY <1>1, <1>6, <2>1, <2>2, <2>3, OneUtteranceStarting
<1>5. CASE ThreadStarted(c)
  <2>1. /\ call'[c].pc = "idle" /\ \A d \in Caller \ {c} : call'[d] = call[d]
    BY <1>5, ReturnEffect DEF ThreadStarted, Idle
  <2>2. /\ \A t \in Session \ {s} : sp'[t] = sp[t]
        /\ sp'[s].state = sp[s].state /\ sp'[s].vinput = sp[s].vinput
        /\ sp'[s].posts = sp[s].posts /\ sp'[s].closed = sp[s].closed
        /\ sp'[s].m_audio_index = sp[s].m_audio_index
        /\ sp'[s].m_packet_id = sp[s].m_packet_id
        /\ sp'[s].start = "SUCCESS"
    BY <1>1, <1>5 DEF ThreadStarted, ParamType
  <2>3. call[c].pc = "spawned" /\ UNCHANGED <<m_data, worker, server>>
    BY <1>5 DEF ThreadStarted
  <2> QED
    BY <1>1, <2>1, <2>2, <2>3, OneUtteranceStarting
<1> QED
  BY <1>2, <1>3, <1>4, <1>5

(* CloudVDStartSession: a new SessionParam, and nothing known of it yet.   *)
LEMMA OneUtteranceStartSession ==
  ASSUME IInv, OneUtterance, NEW c \in Caller, NEW s \in Session, StartSession(c, s)
  PROVE  OneUtterance'
<1> USE DEF IInv
<1>1. /\ sp[s].state = "unused" /\ worker[s].pc = "none" /\ server[s].rcvd = <<>>
      /\ call[c].pc = "idle"
      /\ \A d \in Caller : call[d].s # s
  BY DEF StartSession, Control, HandShake, OneUtterance, NothingYet, CallsLive, Live
<1>2. /\ \A t \in Session \ {s} : sp'[t] = sp[t] /\ m_data'[t] = m_data[t]
      /\ sp'[s].start = NULL /\ sp'[s].m_packet_id = 1 /\ sp'[s].m_audio_index = 0
      /\ sp'[s].posts = 0 /\ sp'[s].closed = FALSE
      /\ m_data'[s] = NewData
      /\ UNCHANGED <<worker, server>>
  BY VariableTypes DEF StartSession, NewParam
<1>3. /\ call'[c].pc = "begin" /\ call'[c].s = s
      /\ \A d \in Caller \ {c} : call'[d] = call[d]
  BY VariableTypes DEF StartSession, Idle
<1>4. /\ \A t \in Session : SamePush(t)
      /\ ~Pushing(s) /\ ~Pushing(s)'
  BY <1>1, <1>3, PushKept, RecorderAssumption DEF Pushing
<1>5. \A t \in Session \ {s} : QuietStep(t)
  BY <1>2, <1>4 DEF QuietStep, SameParam, SameData, SameThread
<1>6. Utterance(s)'
  <2>1. /\ m_data'[s].q_buf = <<>> /\ server'[s].rcvd = <<>> /\ ~m_data'[s].b_last
        /\ m_data'[s].c_code = "CURLE_OK" /\ worker'[s].pc = "none"
    BY <1>1, <1>2 DEF NewData
  <2>2. Known(s)' = {}
    BY <1>4, <2>1 DEF Known, PacketLabels
  <2>3. Popped(s)' = 0 /\ Received(s)' = 0
    <3>1. Len(m_data'[s].q_buf) = 0
      BY <2>1
    <3>2. Popped(s)' = 0 - 0 - 0
      BY <1>2, <1>4, <3>1 DEF Popped
    <3> QED
      BY <2>1, <3>2 DEF Received
  <2>4. ~worker'[s].cut
    BY <1>1, <1>2 DEF OneUtterance, Uncut, PacketLabels
  <2>5. Counters(s)' /\ Stamped(s)' /\ Ordered(s)'
    BY <1>2, <2>2, NullAssumption DEF Counters, Stamped, Ordered, Code
  <2>6. Placed(s)' /\ Over(s)' /\ Answered(s)' /\ Complete(s)'
    BY <1>4, <2>1, <2>3 DEF Placed, Over, Answered, PacketLabels, Complete
  <2>7. UpToDate(s)'
    BY <1>4, <2>1, <2>3, <2>4 DEF UpToDate, PacketLabels, UploadFailed, Sending
  <2> QED
    BY <2>5, <2>6, <2>7 DEF Utterance
<1>7. Begun'
  <2>1. \A d \in Caller \ {c} : call[d].pc # "idle" => call[d].s \in Session \ {s}
    BY <1>1 DEF Typed, CallTyped
  <2>2. \A t \in Session \ {s} : Live(t)' = Live(t)
    BY <1>2 DEF Live
  <2> QED
    BY <1>1, <1>2, <1>3, <1>4, <2>1, <2>2
      DEF OneUtterance, Begun, NewData, SamePush
<1>8. NothingYet' /\ Uncut'
  BY <1>2 DEF OneUtterance, NothingYet, Uncut
<1>9. GaplessUpload'
  BY <1>2, GaplessSequences DEF OneUtterance
<1>10. Final'
  <2>1. \A d \in Caller : call'[d].pc = "holding" =>
          call'[d] = call[d] /\ call[d].s \in Session \ {s}
    BY <1>1, <1>3 DEF Typed, CallTyped
  <2> QED
    BY <1>2, <2>1 DEF OneUtterance, Final, UploadFailed
<1> QED
  BY <1>5, <1>6, <1>7, <1>8, <1>9, <1>10, UtteranceKept DEF OneUtterance

(* The result of no other session changes, and nobody holds that of s.     *)
LEMMA FinalElsewhere ==
  ASSUME Typed, Final, NEW s \in Session,
         \A t \in Session \ {s} : sp'[t].vinput = sp[t].vinput /\ SameData(t),
         \A d \in Caller : call'[d].pc = "holding" =>
           /\ call[d].pc = "holding" /\ call[d].s # s
           /\ call'[d].s = call[d].s /\ call'[d].ret = call[d].ret
  PROVE  Final'
BY DEF Final, Typed, CallTyped, SameData, UploadFailed

(* pthread_create: the thread finds an empty queue and clean flags.        *)
LEMMA OneUtteranceSpawnThread ==
  ASSUME IInv, OneUtterance, NEW c \in Caller, SpawnThread(c)
  PROVE  OneUtterance'
<1> USE DEF IInv
<1>0. PICK s \in Session : call[c].s = s
  BY DEF SpawnThread, Typed, CallTyped
<1> USE <1>0
<1>1. /\ call[c].pc = "spawn" /\ s \in Session /\ Live(s) /\ worker[s].pc = "none"
      /\ sp[s].start = NULL /\ sp[s].m_audio_index = 0 /\ sp[s].posts = 0 /\ ~sp[s].closed
      /\ m_data[s].q_buf = <<>> /\ ~Pushing(s) /\ server[s].rcvd = <<>>
      /\ ~worker[s].cut
      /\ \A d \in Caller \ {c} : call[d].s # s
  BY DEF SpawnThread, OneUtterance, Begun, NothingYet, Uncut, PacketLabels, Typed, CallTyped,
         Control, CallsLive, HandShake, Exclusive, OwnLabels
<1>2. /\ m_data'[s].q_buf = <<>> /\ m_data'[s].b_last = FALSE
      /\ m_data'[s].c_code = "CURLE_OK"
      /\ \A t \in Session \ {s} : m_data'[t] = m_data[t]
      /\ UNCHANGED <<sp, server>>
  <2> DEFINE r == [m_data[s] EXCEPT !.b_start = FALSE, !.b_run = TRUE, !.b_last = FALSE,
                                    !.c_code = "CURLE_OK"]
  <2>1. m_data' = [m_data EXCEPT ![s] = r] /\ UNCHANGED <<sp, server>>
    BY <1>1, VariableTypes DEF SpawnThread
  <2>2. r.q_buf = <<>> /\ r.b_last = FALSE /\ r.c_code = "CURLE_OK"
    BY <1>1, VariableTypes DEF DataType
  <2> HIDE DEF r
  <2> QED
    BY <1>1, <2>1, <2>2, VariableTypes
<1>3. /\ worker'[s].pc = "created" /\ worker'[s].cut = worker[s].cut
      /\ \A t \in Session \ {s} : worker'[t] = worker[t]
  BY <1>1, VariableTypes DEF SpawnThread, WorkerType
<1>4. /\ call'[c].pc = "spawned" /\ call'[c].s = s
      /\ \A d \in Caller \ {c} : call'[d] = call[d]
  BY GotoEffect DEF SpawnThread
<1>5. \A t \in Session : SamePush(t)
  BY <1>1, <1>4, PushKept
<1>6. \A t \in Session \ {s} : QuietStep(t)
  BY <1>2, <1>3, <1>5 DEF QuietStep, SameParam, SameData, SameThread
<1>7. Utterance(s)'
  <2>1. server'[s].rcvd = <<>> /\ ~Pushing(s)'
    BY <1>1, <1>2, <1>5 DEF SamePush
  <2>2. Known(s)' = {}
    BY <1>2, <1>3, <2>1 DEF Known, PacketLabels
  <2>3. Popped(s)' = 0 /\ Received(s)' = 0
    <3>1. Len(m_data'[s].q_buf) = 0
      BY <1>2
    <3>2. Popped(s)' = 0 - 0 - 0
      BY <1>1, <1>2, <2>1, <3>1 DEF Popped
    <3> QED
      BY <2>1, <3>2 DEF Received
  <2>4. Counters(s)' /\ Stamped(s)' /\ Ordered(s)'
    BY <1>1, <1>2, <2>2, NullAssumption DEF Counters, Stamped, Ordered, Code
  <2>5. Placed(s)' /\ Over(s)' /\ Answered(s)' /\ Complete(s)'
    BY <1>2, <1>3, <2>1, <2>3 DEF Placed, Over, Answered, PacketLabels, Complete
  <2>6. UpToDate(s)'
    BY <1>2, <1>3, <2>3 DEF UpToDate, UploadFailed, Sending
  <2> QED
    BY <2>4, <2>5, <2>6 DEF Utterance
<1>8. Begun'
  <2>1. \A d \in Caller \ {c} : call[d].pc # "idle" => call[d].s \in Session \ {s}
    BY <1>1 DEF Typed, CallTyped
  <2> QED
    BY <1>1, <1>2, <1>3, <1>4, <1>5, <2>1 DEF OneUtterance, Begun, SamePush, Live
<1>9. NothingYet' /\ Uncut'
  BY <1>1, <1>2, <1>3 DEF OneUtterance, NothingYet, Uncut
<1>10. GaplessUpload'
  BY <1>2, GaplessSequences DEF OneUtterance
<1>11. Final'
  <2>1. \A d \in Caller : call'[d].pc = "holding" => call'[d] = call[d] /\ call[d].s # s
    BY <1>1, <1>4
  <2>2. \A t \in Session \ {s} : sp'[t].vinput = sp[t].vinput /\ SameData(t)
    BY <1>6 DEF QuietStep, SameParam
  <2> QED
    BY <1>1, <2>1, <2>2, FinalElsewhere DEF OneUtterance
<1> QED
  BY <1>6, <1>7, <1>8, <1>9, <1>10, <1>11, UtteranceKept DEF OneUtterance

(* delete sp: what is left of the session is what was received.            *)
LEMMA OneUtteranceRelease ==
  ASSUME IInv, OneUtterance, NEW c \in Caller, Release(c)
  PROVE  OneUtterance'
<1> USE DEF IInv
<1>0. PICK s \in Session : call[c].s = s
  BY DEF Release, Typed, CallTyped
<1> USE <1>0
<1>1. /\ call[c].pc = "free" /\ s \in Session
      /\ \A d \in Caller \ {c} : call[d].s # s
  BY DEF Release, Typed, CallTyped, Control, Exclusive, OwnLabels
<1>2. /\ sp'[s].state = "freed"
      /\ \A t \in Session \ {s} : sp'[t] = sp[t] /\ m_data'[t] = m_data[t]
      /\ UNCHANGED <<worker, server>>
  BY <1>1, VariableTypes DEF Release, NoParam, NewParam
<1>3. /\ call'[c].pc = "idle"
      /\ \A d \in Caller \ {c} : call'[d] = call[d]
  BY ReturnEffect DEF Release, Idle
<1>4. \A t \in Session : SamePush(t)
  BY <1>1, <1>3, PushKept
<1>5. \A t \in Session \ {s} : QuietStep(t)
  BY <1>2, <1>4 DEF QuietStep, SameParam, SameData, SameThread
<1>6. Utterance(s)'
  BY <1>2 DEF Utterance, Live
<1>7. Begun'
  <2>1. \A d \in Caller \ {c} : call[d].pc # "idle" => call[d].s \in Session \ {s}
    BY <1>1 DEF Typed, CallTyped
  <2> QED
    BY <1>1, <1>2, <1>3, <1>4, <2>1 DEF OneUtterance, Begun, SamePush, Live
<1>8. NothingYet' /\ Uncut'
  BY <1>2 DEF OneUtterance, NothingYet, Uncut
<1>9. GaplessUpload'
  BY <1>2, GaplessSequences DEF OneUtterance
<1>10. Final'
  <2>1. \A d \in Caller : call'[d].pc = "holding" => call'[d] = call[d] /\ call[d].s # s
    BY <1>1, <1>3
  <2>2. \A t \in Session \ {s} : sp'[t].vinput = sp[t].vinput /\ SameData(t)
    BY <1>5 DEF QuietStep, SameParam
  <2> QED
    BY <1>1, <2>1, <2>2, FinalElsewhere DEF OneUtterance
<1> QED
  BY <1>5, <1>6, <1>7, <1>8, <1>9, <1>10, UtteranceKept DEF OneUtterance

(* What CloudVDPostData may rely on: the session started, the recorder is  *)
(* in no call, and the utterance is still open.                            *)
LEMMA PostingState ==
  ASSUME ~ReuseSession, IInv, OneUtterance, NEW c \in Caller, NEW s \in Session, MayPost(c, s)
  PROVE  /\ c = Recorder /\ call[c].pc = "idle" /\ call[c].s = NULL
         /\ Live(s) /\ Utterance(s) /\ sp[s].start # NULL
         /\ ~sp[s].closed /\ NextIndex(s) = sp[s].m_audio_index
         /\ ~Pushing(s) /\ ~m_data[s].b_last /\ worker[s].pc # "last"
         /\ \A d \in Caller : call[d].pc \in {"begin", "spawn", "spawned"} => call[d].s # s
<1>1. /\ c = Recorder /\ call[c].pc = "idle" /\ call[c].s = NULL /\ Live(s) /\ ~sp[s].closed
      /\ \A d \in Caller : call[d].pc \in {"begin", "spawn", "spawned"} => call[d].s # s
  BY DEF MayPost, Usable, UseLabels, IInv, Control, CallsLive
<1>2. sp[s].start # NULL
  BY NullAssumption DEF MayPost, Usable, Code
<1>3. Utterance(s) /\ Counters(s) /\ Over(s)
  BY <1>1 DEF OneUtterance, Utterance
<1> QED
  BY <1>1, <1>2, <1>3 DEF Counters, Over, Pushing, NextIndex, IsFirst

(* A chunk that fills no packet: there is more audio than the packets      *)
(* cover, and the last packet is still to come.                            *)
LEMMA OneUtterancePostBuffered ==
  ASSUME ~ReuseSession, IInv, OneUtterance, NEW c \in Caller, NEW s \in Session,
         PostBuffered(c, s)
  PROVE  OneUtterance'
<1> USE DEF IInv
<1>1. /\ Live(s) /\ Utterance(s) /\ sp[s].start # NULL /\ ~sp[s].closed
      /\ ~m_data[s].b_last /\ worker[s].pc # "last"
      /\ \A d \in Caller : call[d].pc \in {"begin", "spawn", "spawned"} => call[d].s # s
  BY PostingState DEF PostBuffered
<1>2. /\ sp'[s].posts = sp[s].posts + 1 /\ sp'[s].closed = FALSE
      /\ sp'[s].state = sp[s].state /\ sp'[s].start = sp[s].start
      /\ sp'[s].vinput = sp[s].vinput
      /\ sp'[s].m_audio_index = sp[s].m_audio_index
      /\ sp'[s].m_packet_id = sp[s].m_packet_id
      /\ \A t \in Session \ {s} : sp'[t] = sp[t]
      /\ UNCHANGED <<m_data, worker, call, server>>
  BY VariableTypes DEF PostBuffered, ParamType
<1>3. \A t \in Session \ {s} : QuietStep(t)
  BY <1>2 DEF QuietStep, SameParam, SameData, SameThread, SamePush, Pushing
<1>4. Utterance(s)'
  <2>1. /\ Counters(s) /\ Stamped(s) /\ Ordered(s) /\ Placed(s)
        /\ UpToDate(s) /\ Complete(s) /\ Over(s) /\ Answered(s)
    BY <1>1 DEF Utterance
  <2>2. /\ Known(s)' = Known(s) /\ Popped(s)' = Popped(s) /\ Received(s)' = Received(s)
        /\ Retried(s)' = Retried(s) /\ Sending(s)' = Sending(s)
        /\ UploadFailed(s)' = UploadFailed(s) /\ Pushing(s)' = Pushing(s)
    BY <1>2 DEF Known, Popped, Received, LastReceived, Retried, Pushing, Sending, UploadFailed
  <2>3. Counters(s)'
    BY <1>2, <2>1, UtteranceTypes DEF Counters
  <2>4. Stamped(s)'
    <3>1. \A p \in Known(s) : p.upto \in 1..(sp[s].posts + 1) /\ ~p.b_Last
      BY <1>1, <2>1, UtteranceTypes, KnownPackets DEF Stamped, Packet
    <3> QED
      BY <1>1, <1>2, <2>1, <2>2, <3>1 DEF Stamped
  <2>5. Ordered(s)' /\ Placed(s)' /\ UpToDate(s)' /\ Complete(s)'
    BY <1>2, <2>1, <2>2 DEF Ordered, Placed, UpToDate, Complete
  <2>6. Over(s)' /\ Answered(s)'
    BY <1>1, <1>2, <2>1, <2>2 DEF Over, Answered
  <2> QED
    BY <2>3, <2>4, <2>5, <2>6 DEF Utterance
<1>5. Begun'
  <2>1. \A d \in Caller : call[d].pc # "idle" => call[d].s \in Session
    BY DEF Typed, CallTyped
  <2>2. \A t \in Session : Pushing(t)' = Pushing(t)
    BY <1>2 DEF Pushing
  <2> QED
    BY <1>1, <1>2, <2>1, <2>2 DEF OneUtterance, Begun, Live
<1>6. NothingYet' /\ Uncut'
  BY <1>2 DEF OneUtterance, NothingYet, Uncut
<1>7. GaplessUpload'
  BY <1>2, GaplessSequences DEF OneUtterance
<1>8. Final'
  <2>1. \A t \in Session : sp'[t].vinput = sp[t].vinput /\ SameData(t)
    BY <1>2 DEF SameData
  <2> QED
    BY <1>2, <2>1, FinalKept DEF OneUtterance
<1> QED
  BY <1>3, <1>4, <1>5, <1>6, <1>7, <1>8, UtteranceKept DEF OneUtterance

(* A packet is built: it follows all the packets known of the session.     *)
LEMMA OneUtterancePostData ==
  ASSUME ~ReuseSession, IInv, OneUtterance, NEW c \in Caller, NEW s \in Session,
         PostData(c, s)
  PROVE  OneUtterance'
<1> USE DEF IInv
<1>1. /\ c = Recorder /\ call[c].pc = "idle"
      /\ Live(s) /\ Utterance(s) /\ sp[s].start # NULL /\ ~sp[s].closed
      /\ NextIndex(s) = sp[s].m_audio_index
      /\ ~Pushing(s) /\ ~m_data[s].b_last /\ worker[s].pc # "last"
      /\ \A d \in Caller : call[d].pc \in {"begin", "spawn", "spawned"} => call[d].s # s
  BY PostingState DEF PostData
<1>2. PICK last \in BOOLEAN : /\ sp'[s].closed = last
                             /\ call'[c].pkt = PacketOf(s, last)
  BY PostDataEffect
<1>3. /\ sp'[s].posts = sp[s].posts + 1
      /\ sp'[s].m_audio_index = sp[s].m_audio_index + 1
      /\ sp'[s].m_packet_id = sp[s].m_packet_id + 2
      /\ sp'[s].state = sp[s].state /\ sp'[s].start = sp[s].start
      /\ sp'[s].vinput = sp[s].vinput
      /\ call'[c].pc = "push" /\ call'[c].s = s
      /\ \A t \in Session \ {s} : sp'[t] = sp[t]
      /\ \A d \in Caller \ {c} : call'[d] = call[d]
  BY <1>1, PostDataEffect
<1>4. UNCHANGED <<m_data, worker, server>>
  BY DEF PostData
<1> DEFINE p == PacketOf(s, last)
<1>5. /\ p.packet_id = sp[s].m_packet_id /\ p.audio_index = sp[s].m_audio_index
      /\ p.upto = sp[s].posts + 1 /\ p.b_Last = last
  BY <1>1 DEF PacketOf
<1> HIDE DEF p
<1>6. Pushing(s)' /\ call'[Recorder].pkt = p
  BY <1>1, <1>2, <1>3, RecorderAssumption DEF Pushing, p
<1>7. \A t \in Session \ {s} : QuietStep(t)
  <2>1. \A t \in Session \ {s} : ~Pushing(t) /\ ~Pushing(t)'
    BY <1>1, <1>3 DEF Pushing
  <2>2. \A t \in Session \ {s} : SamePush(t)
    BY <2>1 DEF SamePush, Pushing
  <2> QED
    BY <1>3, <1>4, <2>2 DEF QuietStep, SameParam, SameData, SameThread
<1>8. Utterance(s)'
  <2>1. /\ Counters(s) /\ Stamped(s) /\ Ordered(s) /\ Placed(s)
        /\ UpToDate(s) /\ Complete(s) /\ Over(s) /\ Answered(s)
    BY <1>1 DEF Utterance
  <2>2. Known(s)' = Known(s) \cup {p}
    BY <1>1, <1>4, <1>6 DEF Known
  <2>3. /\ Received(s)' = Received(s) /\ Retried(s)' = Retried(s)
        /\ Sending(s)' = Sending(s) /\ UploadFailed(s)' = UploadFailed(s)
    BY <1>4 DEF Received, LastReceived, Retried, Sending, UploadFailed
  <2>4. Popped(s)' = Popped(s)
    <3>1. Popped(s) = sp[s].m_audio_index - Len(m_data[s].q_buf) - 0
      BY <1>1 DEF Popped
    <3>2. Popped(s)' = (sp[s].m_audio_index + 1) - Len(m_data[s].q_buf) - 1
      BY <1>3, <1>4, <1>6 DEF Popped
    <3>3. sp[s].m_audio_index \in Nat /\ Len(m_data[s].q_buf) \in Nat
      BY UtteranceTypes, SequenceTypes
    <3> QED
      BY <3>1, <3>2, <3>3
  <2>5. Counters(s)'
    <3>1. sp[s].m_audio_index \in Nat /\ sp[s].m_packet_id \in Nat /\ sp[s].posts \in Nat
      BY UtteranceTypes
    <3>2. /\ sp[s].posts + 1 # 0 /\ sp[s].m_audio_index + 1 > 0
          /\ sp[s].m_packet_id = 2 * sp[s].m_audio_index + 3 =>
               sp[s].m_packet_id + 2 = 2 * (sp[s].m_audio_index + 1) + 3
      BY <3>1
    <3> QED
      BY <1>3, <2>1, <3>2 DEF Counters
  <2>6. /\ Known(s) \subseteq Packet /\ sp[s].posts \in Nat /\ sp[s].m_audio_index \in Nat
    BY UtteranceTypes, KnownPackets
  <2>7. \A o \in Known(s) :
          /\ o.audio_index < sp[s].m_audio_index /\ o.upto \in 1..sp[s].posts /\ ~o.b_Last
          /\ sp[s].start = "SUCCESS" => o.packet_id = 2 * o.audio_index + 3
          /\ o.audio_index \in Nat /\ o.upto \in Nat /\ o.b_Last \in BOOLEAN
    BY <1>1, <2>1, <2>6 DEF Stamped, Packet
  <2>8. Stamped(s)'
    <3> SUFFICES ASSUME NEW o \in Known(s) \cup {p}
                 PROVE  /\ o.audio_index < sp[s].m_audio_index + 1
                        /\ o.upto \in 1..(sp[s].posts + 1)
                        /\ o.b_Last <=> (last /\ o.audio_index + 1 = sp[s].m_audio_index + 1)
                        /\ o.b_Last => o.upto = sp[s].posts + 1
                        /\ sp[s].start = "SUCCESS" => o.packet_id = 2 * o.audio_index + 3
      BY <1>2, <1>3, <2>2 DEF Stamped
    <3>1. CASE o \in Known(s)
      BY <2>6, <2>7, <3>1
    <3>2. CASE o = p
      BY <1>5, <2>1, <2>6, <3>2 DEF Counters
    <3> QED
      BY <3>1, <3>2
  <2>9. Ordered(s)'
    <3>1. \A o \in Known(s) : o.audio_index < p.audio_index /\ o.upto < p.upto
      BY <1>5, <2>6, <2>7
    <3>2. p.audio_index \in Nat
      BY <1>5, <2>6
    <3> QED
      BY <2>1, <2>2, <2>7, <3>1, <3>2 DEF Ordered
  <2>10. Placed(s)'
    BY <1>3, <1>4, <1>5, <1>6, <2>1, <2>4 DEF Placed
  <2>11. UpToDate(s)' /\ Complete(s)'
    BY <1>4, <2>1, <2>3, <2>4 DEF UpToDate, Complete
  <2>12. Over(s)' /\ Answered(s)'
    BY <1>1, <1>4, <2>1, <2>3 DEF Over, Answered
  <2> QED
    BY <2>5, <2>8, <2>9, <2>10, <2>11, <2>12 DEF Utterance
<1>9. Begun'
  <2>1. \A d \in Caller : call[d].pc # "idle" => call[d].s \in Session
    BY DEF Typed, CallTyped
  <2>2. \A t \in Session \ {s} : Pushing(t)' = Pushing(t)
    BY <1>7 DEF QuietStep, SamePush
  <2>3. \A d \in Caller :
          /\ call'[d].pc \in {"push", "pushing"} => d = Recorder
          /\ call'[d].pc \in {"begin", "spawn", "spawned"} =>
               d # c /\ call'[d] = call[d] /\ call[d].s \in Session \ {s}
    BY <1>1, <1>3, <2>1 DEF OneUtterance, Begun
  <2> QED
    BY <1>1, <1>3, <1>4, <2>2, <2>3 DEF OneUtterance, Begun, Live
<1>10. NothingYet' /\ Uncut'
  BY <1>4 DEF OneUtterance, NothingYet, Uncut
<1>11. GaplessUpload'
  BY <1>4, GaplessSequences DEF OneUtterance
<1>12. Final'
  <2>1. \A t \in Session : sp'[t].vinput = sp[t].vinput /\ SameData(t)
    BY <1>3, <1>4 DEF SameData
  <2> QED
    BY <1>3, <2>1, FinalKept DEF OneUtterance
<1> QED
  BY <1>7, <1>8, <1>9, <1>10, <1>11, <1>12, UtteranceKept DEF OneUtterance

(* The packet that was pushed is the last of the queue.                    *)
LEMMA OneUtterancePushUnlock ==
  ASSUME IInv, OneUtterance, NEW c \in Caller, PushUnlock(c)
  PROVE  OneUtterance'
<1> USE DEF IInv
<1>0. PICK s \in Session : call[c].s = s
  BY DEF PushUnlock, Typed, CallTyped
<1>1. /\ call[c].pc = "pushing" /\ c = Recorder /\ Live(s) /\ Pushing(s)
  BY <1>0 DEF PushUnlock, OneUtterance, Begun, Control, CallsLive, Pushing
<1> DEFINE p == call[c].pkt
           q == m_data[s].q_buf
<1>2. /\ m_data'[s].q_buf = Append(q, p)
      /\ m_data'[s].text = m_data[s].text /\ m_data'[s].error_code = m_data[s].error_code
      /\ m_data'[s].b_last = m_data[s].b_last /\ m_data'[s].c_code = m_data[s].c_code
      /\ \A t \in Session \ {s} : m_data'[t] = m_data[t]
      /\ UNCHANGED <<sp, worker, server>>
  BY <1>0, VariableTypes DEF PushUnlock, Enqueue, DataType
<1>3. /\ call'[c].pc = "idle" /\ \A d \in Caller \ {c} : call'[d] = call[d]
  BY ReturnEffect DEF PushUnlock, Idle
<1>4. ~Pushing(s)' /\ \A t \in Session \ {s} : SamePush(t)
  BY <1>0, <1>1, <1>3 DEF Pushing, SamePush
<1>5. \A t \in Session \ {s} : QuietStep(t)
  BY <1>2, <1>4 DEF QuietStep, SameParam, SameData, SameThread
<1>6. /\ p \in Packet /\ q \in Seq(Packet) /\ Len(q) \in Nat
      /\ Len(Append(q, p)) = Len(q) + 1
      /\ DOMAIN Append(q, p) = 1..(Len(q) + 1) /\ DOMAIN q = 1..Len(q)
      /\ \A i \in 1..Len(q) : Append(q, p)[i] = q[i]
      /\ Append(q, p)[Len(q) + 1] = p
  BY <1>1, UtteranceTypes
<1> HIDE DEF p, q
<1>7. Utterance(s)'
  <2>1. /\ Counters(s) /\ Stamped(s) /\ Ordered(s) /\ Placed(s)
        /\ UpToDate(s) /\ Complete(s) /\ Over(s) /\ Answered(s)
    BY <1>1 DEF Utterance, OneUtterance
  <2>2. Known(s)' = Known(s)
    <3>1. {Append(q, p)[i] : i \in DOMAIN Append(q, p)} = {q[i] : i \in DOMAIN q} \cup {p}
      BY <1>6
    <3> DEFINE rest == {server[s].rcvd[i].pkt : i \in DOMAIN server[s].rcvd}
                         \cup (IF worker[s].pc \in PacketLabels THEN {worker[s].pkt} ELSE {})
    <3>2. Known(s) = {q[i] : i \in DOMAIN q} \cup rest \cup {p}
      BY <1>1 DEF Known, p, q
    <3>3. Known(s)' = {Append(q, p)[i] : i \in DOMAIN Append(q, p)} \cup rest
      BY <1>2, <1>4 DEF Known
    <3> QED
      BY <3>1, <3>2, <3>3
  <2>3. /\ Received(s)' = Received(s) /\ Retried(s)' = Retried(s)
        /\ Sending(s)' = Sending(s) /\ UploadFailed(s)' = UploadFailed(s)
    BY <1>2 DEF Received, LastReceived, Retried, Sending, UploadFailed
  <2>4. Popped(s) = sp[s].m_audio_index - Len(q) - 1
    BY <1>1 DEF Popped, q
  <2>5. Popped(s)' = sp[s].m_audio_index - (Len(q) + 1) - 0
    BY <1>2, <1>4, <1>6 DEF Popped
  <2>6. Popped(s)' = Popped(s) /\ sp[s].m_audio_index = Popped(s) + Len(q) + 1
        /\ Popped(s) \in Int
    <3>1. sp[s].m_audio_index \in Nat
      BY UtteranceTypes
    <3> QED
      BY <1>6, <2>4, <2>5, <3>1
  <2>7. Counters(s)' /\ Stamped(s)' /\ Ordered(s)'
    BY <1>2, <2>1, <2>2 DEF Counters, Stamped, Ordered
  <2>8. Placed(s)'
    <3>1. \A i \in 1..(Len(q) + 1) : Append(q, p)[i].audio_index + 1 = Popped(s) + i
      <4>1. \A i \in 1..Len(q) : q[i].audio_index + 1 = Popped(s) + i
        BY <1>6, <2>1 DEF Placed, q
      <4>2. p.audio_index + 1 = Popped(s) + (Len(q) + 1)
        BY <1>1, <1>6, <2>1, <2>6 DEF Placed, p
      <4> QED
        BY <1>6, <4>1, <4>2
    <3> QED
      BY <1>2, <1>4, <1>6, <2>1, <2>6, <3>1 DEF Placed
  <2>9. UpToDate(s)' /\ Complete(s)'
    BY <1>2, <2>1, <2>3, <2>6 DEF UpToDate, Complete
  <2>10. Over(s)' /\ Answered(s)'
    BY <1>1, <1>2, <2>1, <2>3 DEF Over, Answered
  <2> QED
    BY <2>7, <2>8, <2>9, <2>10 DEF Utterance
<1>8. Begun'
  <2>1. \A d \in Caller : call'[d].pc # "idle" => d # c /\ call'[d] = call[d]
    BY <1>3
  <2>2. sp[s].start # NULL
    BY <1>1 DEF OneUtterance, Begun
  <2> QED
    BY <1>2, <1>4, <2>1, <2>2 DEF OneUtterance, Begun, Live, SamePush
<1>9. NothingYet' /\ Uncut'
  BY <1>2 DEF OneUtterance, NothingYet, Uncut
<1>10. GaplessUpload'
  BY <1>2, GaplessSequences DEF OneUtterance
<1>11. Final'
  <2>1. \A t \in Session : sp'[t].vinput = sp[t].vinput
          /\ m_data'[t].error_code = m_data[t].error_code
          /\ m_data'[t].b_last = m_data[t].b_last /\ m_data'[t].c_code = m_data[t].c_code
    BY <1>2
  <2>2. \A d \in Caller : call'[d].pc = "holding" => call'[d] = call[d] /\ call[d].s \in Session
    BY <1>3 DEF Typed, CallTyped
  <2> QED
    BY <2>1, <2>2 DEF OneUtterance, Final, UploadFailed
<1> QED
  BY <1>5, <1>7, <1>8, <1>9, <1>10, <1>11, UtteranceKept DEF OneUtterance

(* pop: the packet goes from the head of the queue into the upload         *)
(* thread's hands.                                                         *)
LEMMA OneUtterancePop ==
  ASSUME IInv, OneUtterance, NEW s \in Session, WorkerPop(s)
  PROVE  OneUtterance'
<1> USE DEF IInv
<1> DEFINE q == m_data[s].q_buf
<1>1. /\ worker[s].pc = "pop" /\ q # <<>> /\ Live(s)
      /\ Utterance(s)
  BY DEF WorkerPop, Control, LiveWhileRunning, LoopLabels, OneUtterance
<1>2. /\ m_data'[s].q_buf = Tail(q)
      /\ m_data'[s].text = m_data[s].text /\ m_data'[s].error_code = m_data[s].error_code
      /\ m_data'[s].b_last = m_data[s].b_last /\ m_data'[s].c_code = m_data[s].c_code
      /\ \A t \in Session \ {s} : m_data'[t] = m_data[t]
      /\ UNCHANGED <<sp, call, server>>
  BY VariableTypes DEF WorkerPop, DataType
<1>3. /\ worker'[s].pc = "send" /\ worker'[s].pkt = Head(q)
      /\ worker'[s].cut = worker[s].cut /\ worker'[s].reply = worker[s].reply
      /\ \A t \in Session \ {s} : worker'[t] = worker[t]
  BY VariableTypes DEF WorkerPop, WorkerType
<1>4. /\ q \in Seq(Packet) /\ Len(q) \in Nat \ {0}
      /\ Len(Tail(q)) = Len(q) - 1
      /\ DOMAIN Tail(q) = 1..(Len(q) - 1) /\ DOMAIN q = 1..Len(q)
      /\ \A i \in 1..(Len(q) - 1) : Tail(q)[i] = q[i + 1]
      /\ Head(q) = q[1]
  BY <1>1, UtteranceTypes
<1> HIDE DEF q
<1>5. \A t \in Session : Pushing(t)' = Pushing(t)
  BY <1>2 DEF Pushing
<1>6. \A t \in Session \ {s} : QuietStep(t)
  BY <1>2, <1>3 DEF QuietStep, SameParam, SameData, SameThread, SamePush, Pushing
<1>7. Utterance(s)'
  <2>1. /\ Counters(s) /\ Stamped(s) /\ Ordered(s) /\ Placed(s)
        /\ UpToDate(s) /\ Complete(s) /\ Over(s) /\ Answered(s)
    BY <1>1 DEF Utterance
  <2>2. Known(s)' \subseteq Known(s)
    <3>1. {Tail(q)[i] : i \in DOMAIN Tail(q)} \cup {Head(q)} \subseteq {q[i] : i \in DOMAIN q}
      BY <1>4
    <3> DEFINE elsewhere == {server[s].rcvd[i].pkt : i \in DOMAIN server[s].rcvd}
                              \cup (IF Pushing(s) THEN {call[Recorder].pkt} ELSE {})
    <3>2. Known(s) = {q[i] : i \in DOMAIN q} \cup elsewhere
      BY <1>1 DEF Known, q, PacketLabels
    <3>3. Known(s)' = {Tail(q)[i] : i \in DOMAIN Tail(q)} \cup elsewhere \cup {Head(q)}
      BY <1>2, <1>3, <1>5 DEF Known, PacketLabels
    <3> QED
      BY <3>1, <3>2, <3>3
  <2>3. /\ Received(s)' = Received(s) /\ Retried(s)' = Retried(s)
        /\ UploadFailed(s)' = UploadFailed(s) /\ Sending(s)' /\ ~Sending(s)
    BY <1>1, <1>2, <1>3 DEF Received, LastReceived, Retried, Sending, UploadFailed
  <2>4. /\ Popped(s)' = Popped(s) + 1 /\ Popped(s) \in Int
    <3> DEFINE b == IF Pushing(s) THEN 1 ELSE 0
    <3>1. b \in Int /\ sp[s].m_audio_index \in Nat
      BY UtteranceTypes
    <3>2. Popped(s) = sp[s].m_audio_index - Len(q) - b
      BY DEF Popped, q
    <3>3. Popped(s)' = sp[s].m_audio_index - (Len(q) - 1) - b
      BY <1>2, <1>4, <1>5 DEF Popped
    <3> HIDE DEF b
    <3> QED
      BY <1>4, <3>1, <3>2, <3>3
  <2>5. Counters(s)' /\ Stamped(s)' /\ Ordered(s)'
    BY <1>2, <2>1, <2>2 DEF Counters, Stamped, Ordered
  <2>6. Placed(s)'
    <3>1. \A i \in 1..Len(q) : q[i].audio_index + 1 = Popped(s) + i
      BY <1>4, <2>1 DEF Placed, q
    <3>2. \A i \in 1..(Len(q) - 1) : Tail(q)[i].audio_index + 1 = (Popped(s) + 1) + i
      <4> SUFFICES ASSUME NEW i \in 1..(Len(q) - 1)
                   PROVE  Tail(q)[i].audio_index + 1 = (Popped(s) + 1) + i
        OBVIOUS
      <4>1. i + 1 \in 1..Len(q) /\ Tail(q)[i] = q[i + 1]
        BY <1>4
      <4> QED
        BY <1>4, <2>4, <3>1, <4>1
    <3>3. Head(q).audio_index + 1 = Popped(s) + 1
      BY <1>4, <3>1
    <3> QED
      BY <1>2, <1>3, <1>4, <1>5, <2>1, <2>4, <3>2, <3>3 DEF Placed
  <2>7. UpToDate(s)'
    <3>1. ~UploadFailed(s) /\ Received(s) = Popped(s)
      BY <1>1, <2>1, <2>3 DEF UpToDate, BusyLabels, UploadFailed
    <3> QED
      BY <1>3, <2>3, <2>4, <3>1 DEF UpToDate
  <2>8. Complete(s)'
    BY <1>2, <2>1, <2>3 DEF Complete
  <2>9. Over(s)' /\ Answered(s)'
    BY <1>1, <1>2, <1>3, <2>1, <2>3 DEF Over, Answered, BusyLabels
  <2> QED
    BY <2>5, <2>6, <2>7, <2>8, <2>9 DEF Utterance
<1>8. Begun'
  <2>1. sp[s].start # NULL
    BY <1>1 DEF OneUtterance, Begun, q
  <2>2. \A t \in Session : worker'[t].pc # "none" => worker[t].pc # "none"
    BY <1>1, <1>3
  <2> QED
    BY <1>2, <1>5, <2>1, <2>2 DEF OneUtterance, Begun, Live
<1>9. NothingYet' /\ Uncut'
  BY <1>1, <1>2, <1>3 DEF OneUtterance, NothingYet, Uncut, PacketLabels
<1>10. GaplessUpload'
  BY <1>2, GaplessSequences DEF OneUtterance
<1>11. Final'
  <2>1. \A t \in Session : /\ m_data'[t].error_code = m_data[t].error_code
                          /\ m_data'[t].b_last = m_data[t].b_last
                          /\ m_data'[t].c_code = m_data[t].c_code
    BY <1>2
  <2> QED
    BY <1>2, <2>1 DEF OneUtterance, Final, UploadFailed, Typed, CallTyped
<1> QED
  BY <1>6, <1>7, <1>8, <1>9, <1>10, <1>11, UtteranceKept DEF OneUtterance

(* A thread that is about to upload: the service has everything up to its  *)
(* packet, or (half a reply is left over) that packet too, as the last.    *)
LEMMA UploadingState ==
  ASSUME IInv, OneUtterance, NEW s \in Session, worker[s].pc \in {"send", "retry"}
  PROVE  /\ Utterance(s) /\ Live(s)
         /\ worker[s].pkt \in Packet /\ worker[s].pkt \in Known(s)
         /\ worker[s].pkt.audio_index \in Nat
         /\ Popped(s) = worker[s].pkt.audio_index + 1
         /\ sp[s].start = "SUCCESS"
         /\ ~UploadFailed(s) /\ ~m_data[s].b_last
         /\ Sending(s) => Received(s) = worker[s].pkt.audio_index
         /\ ~Sending(s) =>
              /\ server[s].rcvd # <<>>
              /\ Received(s) = worker[s].pkt.audio_index + 1
              /\ LastReceived(s) = worker[s].pkt
              /\ \A i \in DOMAIN server[s].rcvd :
                   i < Len(server[s].rcvd) => server[s].rcvd[i].pkt # worker[s].pkt
<1> USE DEF IInv
<1> DEFINE p == worker[s].pkt
<1>1. worker[s].pc \in PacketLabels /\ worker[s].pc \in BusyLabels
      /\ worker[s].pc \notin {"fail", "none"}
  BY DEF PacketLabels, BusyLabels
<1>2. Live(s) /\ Utterance(s)
  BY DEF Control, LiveWhileRunning, LoopLabels, OneUtterance
<1>3. /\ Stamped(s) /\ Ordered(s) /\ Placed(s) /\ UpToDate(s) /\ Over(s)
  BY <1>2 DEF Utterance
<1>4. p \in Packet /\ p \in Known(s)
  BY <1>1, UtteranceTypes, KnownPackets
<1>5. p.audio_index \in Nat /\ p.audio_index + 1 = Popped(s) /\ Popped(s) \in Int
  BY <1>1, <1>3, <1>4, CountTypes DEF Placed, Packet
<1>6. ~UploadFailed(s) /\ ~m_data[s].b_last
  BY <1>1, <1>3 DEF UpToDate, Over
<1>7. sp[s].start = "SUCCESS"
  <2>1. sp[s].start \in {NULL, "SUCCESS"}
    BY <1>1, <1>2 DEF OneUtterance, Begun
  <2>2. sp[s].start = NULL => sp[s].m_audio_index = 0
    BY <1>2 DEF OneUtterance, Begun
  <2>3. p.audio_index < sp[s].m_audio_index
    BY <1>3, <1>4 DEF Stamped
  <2> QED
    BY <1>5, <2>1, <2>2, <2>3
<1>8. Received(s) = IF Sending(s) THEN Popped(s) - 1 ELSE Popped(s)
  BY <1>1, <1>3, <1>6 DEF UpToDate
<1>9. Sending(s) => Received(s) = p.audio_index
  BY <1>5, <1>8
<1>10. ASSUME ~Sending(s)
       PROVE  /\ server[s].rcvd # <<>> /\ LastReceived(s) = p
              /\ Received(s) = p.audio_index + 1
              /\ \A i \in DOMAIN server[s].rcvd :
                   i < Len(server[s].rcvd) => server[s].rcvd[i].pkt # p
  <2>1. Received(s) = p.audio_index + 1
    BY <1>5, <1>8, <1>10
  <2>2. Received(s) > 0
    BY <1>5, <2>1
  <2>3. /\ server[s].rcvd # <<>> /\ LastReceived(s) \in Known(s)
        /\ LastReceived(s).audio_index + 1 = Received(s)
    BY <2>2, CountTypes
  <2>4. LastReceived(s).audio_index \in Nat
    BY <2>3, KnownPackets DEF Packet
  <2>5. LastReceived(s).audio_index = p.audio_index
    BY <1>5, <2>1, <2>3, <2>4
  <2>6. LastReceived(s) = p
    BY <1>3, <1>4, <2>3, <2>5 DEF Ordered
  <2>7. worker[s].pc = "retry" /\ worker[s].cut
    BY <1>10 DEF Sending
  <2> QED
    BY <1>3, <2>1, <2>3, <2>6, <2>7 DEF UpToDate
<1> QED
  BY <1>2, <1>4, <1>5, <1>6, <1>7, <1>9, <1>10

(* When the packet arrives the record of what arrived stays without a gap. *)
LEMMA GaplessArrival ==
  ASSUME IInv, OneUtterance, NEW s \in Session, worker[s].pc \in {"send", "retry"},
         NEW e \in [pkt: Packet, cookie: Session \cup {NULL}, addr: Address],
         e.pkt = worker[s].pkt
  PROVE  Gapless(Append(server[s].rcvd, e))
<1> USE DEF IInv
<1> DEFINE p == worker[s].pkt
           r == server[s].rcvd
           n == Len(server[s].rcvd)
           a == Append(server[s].rcvd, e)
<1>1. /\ n \in Nat /\ Len(a) = n + 1
      /\ \A i \in 1..n : a[i] = r[i]
      /\ a[n + 1] = e
      /\ \A i \in 1..n : r[i].pkt \in Packet
      /\ r = <<>> <=> n = 0
      /\ DOMAIN r = 1..n
  BY UtteranceTypes, SequenceTypes
<1>2. /\ Gapless(r) /\ Stamped(s) /\ Ordered(s) /\ sp[s].start = "SUCCESS"
      /\ p \in Known(s) /\ p \in Packet /\ p.audio_index \in Nat
      /\ Sending(s) => Received(s) = p.audio_index
      /\ ~Sending(s) => /\ r # <<>> /\ LastReceived(s) = p
                        /\ \A i \in 1..n : i < n => r[i].pkt # p
  BY <1>1, UploadingState, GaplessSequences DEF OneUtterance, Utterance
<1>3. /\ r # <<>> => /\ LastReceived(s) \in Known(s) /\ LastReceived(s) = r[n].pkt
                     /\ LastReceived(s).audio_index + 1 = Received(s)
                     /\ LastReceived(s) \in Packet
      /\ r = <<>> => Received(s) = 0
  BY <1>1, CountTypes, KnownPackets DEF LastReceived, Received
<1>4. \A o \in Known(s) : o.packet_id = 2 * o.audio_index + 3
  BY <1>2 DEF Stamped
<1> HIDE DEF r, a, n, p
<1>5. CASE r = <<>>
  <2>1. n = 0 /\ Sending(s) /\ p.audio_index = 0
    BY <1>1, <1>2, <1>3, <1>5
  <2>2. p.packet_id = 3
    BY <1>2, <1>4, <2>1
  <2> QED
    BY <1>1, <2>1, <2>2 DEF Gapless, a, p
<1>6. CASE r # <<>>
  <2>1. n \in Nat \ {0}
    BY <1>1, <1>6
  <2> SUFFICES ASSUME NEW i \in 1..(n + 1)
               PROVE  IF i = 1
                      THEN a[i].pkt.packet_id = 3 /\ a[i].pkt.audio_index = 0
                      ELSE \/ /\ a[i].pkt = a[i-1].pkt
                              /\ i > 2 => a[i].pkt # a[i-2].pkt
                           \/ /\ a[i].pkt.packet_id   = a[i-1].pkt.packet_id + 2
                              /\ a[i].pkt.audio_index = a[i-1].pkt.audio_index + 1
                              /\ a[i].pkt.upto        > a[i-1].pkt.upto
    BY <1>1 DEF Gapless, a
  <2>2. CASE i \in 1..n
    <3>1. /\ i # 1 => i - 1 \in 1..n
          /\ i > 2 => i - 2 \in 1..n
      BY <2>1, <2>2
    <3>2. /\ a[i] = r[i] /\ i # 1 => a[i - 1] = r[i - 1]
          /\ i > 2 => a[i - 2] = r[i - 2]
      BY <1>1, <2>2, <3>1
    <3>3. a[i] = r[i]
      BY <1>1, <2>2
    <3>4. n = Len(r)
      BY DEF n, r
    <3> QED
      BY <1>1, <1>2, <2>2, <3>1, <3>2, <3>3, <3>4 DEF Gapless
  <2>3. CASE i = n + 1
    <3>1. i # 1 /\ i - 1 = n /\ a[i] = e /\ a[i - 1] = r[n] /\ a[i].pkt = p
      BY <1>1, <2>1, <2>3 DEF p
    <3>2. i > 2 => i - 2 \in 1..n /\ i - 2 < n /\ a[i - 2] = r[i - 2]
      BY <1>1, <2>1, <2>3
    <3>3. CASE Sending(s)
      <4>1. p.audio_index = r[n].pkt.audio_index + 1
        BY <1>2, <1>3, <1>6, <3>3
      <4>2. p.packet_id = r[n].pkt.packet_id + 2
        <5>1. /\ p.packet_id = 2 * p.audio_index + 3
              /\ r[n].pkt.packet_id = 2 * r[n].pkt.audio_index + 3
          BY <1>2, <1>3, <1>4, <1>6
        <5>2. r[n].pkt.audio_index \in Nat
          BY <1>3, <1>6 DEF Packet
        <5> QED
          BY <4>1, <5>1, <5>2
      <4>3. p.upto > r[n].pkt.upto
        <5>1. r[n].pkt \in Known(s) /\ r[n].pkt \in Packet
          BY <1>3, <1>6
        <5>2. r[n].pkt.audio_index < p.audio_index
          BY <4>1, <5>1 DEF Packet
        <5>3. r[n].pkt.upto < p.upto
          BY <1>2, <5>1, <5>2 DEF Ordered
        <5> QED
          BY <5>3
      <4> QED
        BY <3>1, <4>1, <4>2, <4>3
    <3>4. CASE ~Sending(s)
      BY <1>2, <1>3, <1>6, <3>1, <3>2, <3>4
    <3> QED
      BY <3>3, <3>4
  <2> QED
    BY <1>1, <2>2, <2>3
<1> QED
  BY <1>5, <1>6 DEF a

(* A step of the upload thread of s that moves nothing in the queue: what  *)
(* is left to show is about its own session.                               *)
LEMMA OneUtteranceLoop ==
  ASSUME IInv, OneUtterance, NEW s \in Session,
         worker[s].pc \notin {"none", "created"},
         worker'[s].pc \notin {"none", "created", "send"},
         worker'[s].pc \in PacketLabels \/ ~worker'[s].cut,
         UNCHANGED <<sp, call>>,
         \A t \in Session \ {s} : /\ worker'[t] = worker[t] /\ m_data'[t] = m_data[t]
                                  /\ server'[t] = server[t],
         m_data'[s].q_buf = m_data[s].q_buf,
         Gapless(server'[s].rcvd), Final', Utterance(s)'
  PROVE  OneUtterance'
<1> USE DEF OneUtterance
<1>1. \A t \in Session : Pushing(t)' = Pushing(t) /\ m_data'[t].q_buf = m_data[t].q_buf
  BY DEF Pushing
<1>2. \A t \in Session \ {s} : QuietStep(t)
  BY <1>1 DEF QuietStep, SameParam, SameData, SameThread, SamePush
<1>3. Begun'
  BY <1>1 DEF Begun, Live
<1>4. NothingYet' /\ Uncut'
  BY DEF NothingYet, Uncut
<1>5. GaplessUpload'
  BY GaplessSequences
<1> QED
  BY <1>2, <1>3, <1>4, <1>5, UtteranceKept DEF IInv

(* An attempt of PostData: the packet is received, or it is not, and the   *)
(* answer to the last one is the result unless half a reply was in front.  *)
LEMMA OneUtteranceAttempt ==
  ASSUME IInv, OneUtterance, NEW s \in Session, NEW replies, NEW otherwise,
         \/ worker[s].pc = "send" /\ otherwise = "retry"
         \/ worker[s].pc = "retry" /\ otherwise = "fail",
         \A a \in replies :
           a \in Replies(worker[s].pkt) \/ (worker[s].pc = "retry" /\ worker[s].cut),
         Attempt(s, replies, otherwise)
  PROVE  OneUtterance'
<1> USE DEF IInv
<1> DEFINE p == worker[s].pkt
           r == server[s].rcvd
           e == [pkt |-> p, cookie |-> session_id, addr |-> g_configs.m_server_addr]
<1>1. /\ Utterance(s) /\ Live(s) /\ p \in Packet /\ p \in Known(s)
      /\ p.audio_index \in Nat /\ Popped(s) = p.audio_index + 1
      /\ ~UploadFailed(s) /\ ~m_data[s].b_last
      /\ Sending(s) => Received(s) = p.audio_index
      /\ ~Sending(s) => /\ r # <<>> /\ Received(s) = p.audio_index + 1
                        /\ LastReceived(s) = p
                        /\ \A i \in DOMAIN r : i < Len(r) => r[i].pkt # p
  BY UploadingState
<1>2. /\ worker'[s].pkt = p
      /\ \A t \in Session \ {s} : worker'[t] = worker[t] /\ server'[t] = server[t]
      /\ \/ /\ server'[s].rcvd = Append(r, e)
            /\ \/ /\ worker'[s].pc = "text" /\ worker'[s].reply \in replies
                  /\ worker'[s].cut = worker[s].cut
               \/ worker'[s].pc = otherwise /\ worker'[s].cut = TRUE
         \/ /\ server'[s].rcvd = r
            /\ worker'[s].pc = otherwise /\ worker'[s].cut = worker[s].cut
  <2>1. /\ worker'[s].pkt = worker[s].pkt
        /\ \A t \in Session \ {s} : worker'[t] = worker[t] /\ server'[t] = server[t]
        /\ server'[s].home = server[s].home /\ server'[s].told = server[s].told
        /\ \/ /\ server'[s].rcvd = Append(server[s].rcvd, e)
              /\ \/ /\ worker'[s].pc = "text" /\ worker'[s].reply \in replies
                    /\ worker'[s].cut = worker[s].cut
                 \/ /\ worker'[s].pc = otherwise /\ worker'[s].cut = TRUE
                    /\ worker'[s].reply = worker[s].reply
           \/ /\ server'[s].rcvd = server[s].rcvd
              /\ worker'[s].pc = otherwise /\ worker'[s].cut = worker[s].cut
              /\ worker'[s].reply = worker[s].reply
    BY AttemptEffect
  <2> HIDE DEF e
  <2> QED
    BY <2>1
<1>3. /\ UNCHANGED <<sp, m_data, call>>
      /\ worker[s].pc \in PacketLabels /\ worker'[s].pc \in {"text", "retry", "fail"}
      /\ worker'[s].pc \in PacketLabels
  BY <1>2 DEF Attempt, PacketLabels
<1>4. worker[s].pc = "send" => ~worker[s].cut
  BY DEF OneUtterance, Uncut
<1>5. /\ Len(r) \in Nat /\ DOMAIN r = 1..Len(r) /\ (r = <<>> <=> Len(r) = 0)
      /\ \A i \in 1..Len(r) : r[i].pkt \in Packet
      /\ e \in [pkt: Packet, cookie: Session \cup {NULL}, addr: Address] /\ e.pkt = p
  <2>1. e \in [pkt: Packet, cookie: Session \cup {NULL}, addr: Address] /\ e.pkt = p
    BY <1>1 DEF Typed, TypeOK
  <2> HIDE DEF e, p
  <2> QED
    BY <2>1, SequenceTypes
<1>6. /\ Len(Append(r, e)) = Len(r) + 1 /\ DOMAIN Append(r, e) = 1..(Len(r) + 1)
      /\ \A i \in 1..Len(r) : Append(r, e)[i] = r[i]
      /\ Append(r, e)[Len(r) + 1].pkt = p
  BY <1>5, UtteranceTypes
<1>7. Gapless(server'[s].rcvd)
  <2>1. Gapless(r) /\ Gapless(Append(r, e))
    BY <1>5, GaplessArrival, GaplessSequences DEF OneUtterance
  <2> HIDE DEF r, e
  <2> QED
    BY <1>2, <2>1
<1> HIDE DEF r, e, p
<1>8. /\ Pushing(s)' = Pushing(s) /\ Popped(s)' = Popped(s)
      /\ UploadFailed(s)' = UploadFailed(s)
  BY <1>3 DEF Pushing, Popped, UploadFailed
<1>9. Known(s)' \subseteq Known(s)
  <2> DEFINE elsewhere == {m_data[s].q_buf[i] : i \in DOMAIN m_data[s].q_buf}
                            \cup (IF Pushing(s) THEN {call[Recorder].pkt} ELSE {})
  <2>1. Known(s) = elsewhere \cup {r[i].pkt : i \in DOMAIN r} \cup {p}
    BY <1>3 DEF Known, r, p
  <2>2. Known(s)' = elsewhere \cup {server'[s].rcvd[i].pkt : i \in DOMAIN server'[s].rcvd}
                      \cup {p}
    BY <1>2, <1>3, <1>8 DEF Known
  <2>3. {server'[s].rcvd[i].pkt : i \in DOMAIN server'[s].rcvd}
          \subseteq {r[i].pkt : i \in DOMAIN r} \cup {p}
    BY <1>2, <1>5, <1>6
  <2> QED
    BY <2>1, <2>2, <2>3
<1>10. /\ Counters(s) /\ Stamped(s) /\ Ordered(s) /\ Placed(s)
       /\ UpToDate(s) /\ Complete(s) /\ Over(s) /\ Answered(s)
  BY <1>1 DEF Utterance
<1>11. Counters(s)' /\ Stamped(s)' /\ Ordered(s)' /\ Placed(s)'
  BY <1>2, <1>3, <1>8, <1>9, <1>10 DEF Counters, Stamped, Ordered, Placed, p
<1>12. Over(s)' /\ ~m_data'[s].b_last
  BY <1>1, <1>3, <1>8, <1>10 DEF Over
<1>13. ASSUME server'[s].rcvd = r,
              worker'[s].pc = otherwise /\ worker'[s].cut = worker[s].cut
       PROVE  Utterance(s)'
  <2>1. worker'[s].pc = otherwise /\ worker'[s].cut = worker[s].cut
    BY <1>13
  <2>2. Received(s)' = Received(s) /\ Retried(s)' = Retried(s)
    BY <1>13 DEF Received, LastReceived, Retried, r
  <2>3. UpToDate(s)'
    <3>1. worker'[s].pc = "retry" => ~worker'[s].cut /\ Sending(s) /\ Sending(s)'
      BY <1>4, <2>1 DEF Sending
    <3> QED
      BY <1>1, <1>8, <2>1, <2>2, <3>1 DEF UpToDate
  <2>4. Complete(s)' /\ Answered(s)'
    BY <1>10, <1>12, <1>13, <2>1, <2>2 DEF Complete, Answered, r
  <2> QED
    BY <1>11, <1>12, <2>3, <2>4 DEF Utterance
<1>14. ASSUME server'[s].rcvd = Append(r, e),
              \/ worker'[s].pc = "text" /\ worker'[s].reply \in replies
              \/ worker'[s].pc = otherwise /\ worker'[s].cut = TRUE
       PROVE  Utterance(s)'
  <2>1. /\ Received(s)' = p.audio_index + 1
        /\ server'[s].rcvd # <<>> /\ LastReceived(s)' = p
    <3>1. Len(server'[s].rcvd) = Len(r) + 1 /\ server'[s].rcvd[Len(r) + 1].pkt = p
      BY <1>6, <1>14
    <3>2. server'[s].rcvd # <<>>
      BY <1>5, <3>1
    <3> QED
      BY <3>1, <3>2 DEF Received, LastReceived
  <2>2. Received(s) \in {p.audio_index, p.audio_index + 1}
    BY <1>1
  <2>3. UpToDate(s)'
    <3>1. ~Sending(s)'
      BY <1>3, <1>14 DEF Sending
    <3>2. ASSUME worker'[s].pc = "retry"
          PROVE  \A i \in 1..Len(r) : r[i].pkt # p
      <4>1. Sending(s)
        BY <1>14, <3>2 DEF Sending
      <4>2. \A i \in 1..Len(r) : r[i].pkt.audio_index < p.audio_index
        BY <1>1, <1>5, <1>10, <4>1 DEF Complete, r
      <4> QED
        BY <1>1, <4>2
    <3>3. worker'[s].pc = "retry" =>
            \A i \in DOMAIN server'[s].rcvd : i < Len(server'[s].rcvd) =>
              server'[s].rcvd[i].pkt # worker'[s].pkt
      <4> DEFINE a == Append(r, e)
      <4>1. /\ Len(a) = Len(r) + 1 /\ DOMAIN a = 1..(Len(r) + 1)
            /\ \A i \in 1..Len(r) : a[i] = r[i]
        BY <1>6
      <4> HIDE DEF a
      <4>2. server'[s].rcvd = a
        BY <1>14 DEF a
      <4>3. \A i \in DOMAIN a : i < Len(a) => i \in 1..Len(r)
        BY <1>5, <4>1
      <4> QED
        BY <1>2, <3>2, <4>1, <4>2, <4>3
    <3> QED
      BY <1>1, <1>8, <2>1, <3>1, <3>3 DEF UpToDate
  <2>4. Complete(s)'
    <3>1. \A i \in 1..(Len(r) + 1) : Append(r, e)[i].pkt.audio_index < p.audio_index + 1
      <4> SUFFICES ASSUME NEW i \in 1..(Len(r) + 1)
                   PROVE  Append(r, e)[i].pkt.audio_index < p.audio_index + 1
        OBVIOUS
      <4>1. CASE i \in 1..Len(r)
        <5>1. Append(r, e)[i] = r[i] /\ r[i].pkt.audio_index < Received(s)
          BY <1>5, <1>6, <1>10, <4>1 DEF Complete, r
        <5>2. r[i].pkt.audio_index \in Nat
          BY <1>5, <4>1 DEF Packet
        <5> QED
          BY <1>1, <2>2, <5>1, <5>2
      <4>2. CASE i = Len(r) + 1
        BY <1>1, <1>6, <4>2
      <4> QED
        BY <1>5, <4>1, <4>2
    <3>2. \A k \in 0..p.audio_index :
            \E i \in 1..(Len(r) + 1) : Append(r, e)[i].pkt.audio_index = k
      <4> SUFFICES ASSUME NEW k \in 0..p.audio_index
                   PROVE  \E i \in 1..(Len(r) + 1) : Append(r, e)[i].pkt.audio_index = k
        OBVIOUS
      <4>1. CASE k = p.audio_index
        <5>1. Len(r) + 1 \in 1..(Len(r) + 1)
          BY <1>5
        <5> QED
          BY <1>6, <4>1, <5>1
      <4>2. CASE k # p.audio_index
        <5>1. k \in 0..(Received(s) - 1)
          BY <1>1, <2>2, <4>2
        <5>2. PICK i \in 1..Len(r) : r[i].pkt.audio_index = k
          BY <1>5, <1>10, <5>1 DEF Complete, r
        <5>3. i \in 1..(Len(r) + 1) /\ Append(r, e)[i] = r[i]
          BY <1>5, <1>6
        <5> QED
          BY <5>2, <5>3
      <4> QED
        BY <4>1, <4>2
    <3>3. (p.audio_index + 1) - 1 = p.audio_index
      BY <1>1
    <3> QED
      BY <1>6, <1>14, <2>1, <3>1, <3>2, <3>3 DEF Complete
  <2>5. Answered(s)'
    <3>1. CASE worker'[s].pc # "text"
      BY <1>3, <1>12, <3>1 DEF Answered
    <3>2. CASE worker'[s].pc = "text" /\ worker'[s].reply \in Replies(p)
      <4>1. p.b_Last /\ worker'[s].reply.code = "SUCCESS" => worker'[s].reply.text = p.upto
        BY <3>2 DEF Replies
      <4> QED
        BY <1>2, <1>12, <3>2, <4>1 DEF Answered
    <3>3. CASE worker'[s].pc = "text" /\ worker[s].pc = "retry" /\ worker[s].cut
      <4>1. r # <<>> /\ LastReceived(s) = p
        BY <1>1, <3>3 DEF Sending
      <4>2. /\ Len(r) \in 1..Len(r) /\ r[Len(r)].pkt = p
            /\ Len(r) + 1 \in 2..(Len(r) + 1) /\ (Len(r) + 1) - 1 = Len(r)
        BY <1>5, <4>1 DEF LastReceived, r
      <4>3. Append(r, e)[Len(r) + 1].pkt = Append(r, e)[(Len(r) + 1) - 1].pkt
        BY <1>6, <4>2
      <4>4. Retried(s)'
        BY <1>6, <1>14, <4>2, <4>3 DEF Retried
      <4> QED
        BY <1>12, <3>3, <4>4 DEF Answered
    <3>4. worker'[s].pc = "text" => worker'[s].reply \in replies
      BY <1>14
    <3> QED
      BY <3>1, <3>2, <3>3, <3>4 DEF p
  <2> QED
    BY <1>11, <1>12, <2>3, <2>4, <2>5 DEF Utterance
<1>15. Final'
  BY <1>3, FinalKept DEF OneUtterance, SameData
<1> QED
  <2>1. Utterance(s)'
    BY <1>2, <1>13, <1>14
  <2>2. /\ worker[s].pc \notin {"none", "created"}
        /\ worker'[s].pc \notin {"none", "created", "send"}
    BY <1>3
  <2> QED
    BY <1>2, <1>3, <1>7, <1>15, <2>1, <2>2, OneUtteranceLoop

(* PostData is done with both attempts: no upload failed before, nobody  *)
(* has been given a final result yet.                                      *)
LEMMA UploadedState ==
  ASSUME IInv, OneUtterance, NEW s \in Session, worker[s].pc \in {"text", "code", "fail"}
  PROVE  /\ Utterance(s) /\ Live(s)
         /\ worker[s].pkt \in Packet /\ worker[s].pkt \in Known(s)
         /\ worker[s].pkt.audio_index + 1 = Popped(s)
         /\ ~UploadFailed(s) /\ ~m_data[s].b_last
         /\ \A c \in Caller : call[c].pc = "holding" /\ call[c].s = s => sp[s].vinput
<1> USE DEF IInv
<1>1. worker[s].pc \in PacketLabels /\ worker[s].pc \in BusyLabels
  BY DEF PacketLabels, BusyLabels
<1>2. Live(s) /\ Utterance(s)
  BY DEF Control, LiveWhileRunning, LoopLabels, OneUtterance
<1>3. Placed(s) /\ UpToDate(s) /\ Over(s)
  BY <1>2 DEF Utterance
<1>4. ~UploadFailed(s) /\ ~m_data[s].b_last
  BY <1>1, <1>3 DEF UpToDate, Over
<1>5. ASSUME NEW c \in Caller, call[c].pc = "holding" /\ call[c].s = s PROVE sp[s].vinput
  BY <1>4, <1>5 DEF OneUtterance, Final
<1> QED
  BY <1>1, <1>2, <1>3, <1>4, <1>5, UtteranceTypes, KnownPackets DEF Placed

(* m_result is written: whoever waits for the final result is still told   *)
(* to wait.                                                                *)
LEMMA OneUtteranceText ==
  ASSUME IInv, OneUtterance, NEW s \in Session, WorkerText(s)
  PROVE  OneUtterance'
<1> USE DEF IInv
<1>1. /\ worker[s].pc = "text" /\ worker'[s].pc = "code"
      /\ worker'[s].pkt = worker[s].pkt /\ worker'[s].reply = worker[s].reply
      /\ worker'[s].cut = worker[s].cut
      /\ \A t \in Session \ {s} : worker'[t] = worker[t]
  BY StepEffect DEF WorkerText
<1>2. /\ m_data'[s].text = TextAfter(m_data[s].text, worker[s].reply)
      /\ m_data'[s].q_buf = m_data[s].q_buf
      /\ m_data'[s].b_last = m_data[s].b_last /\ m_data'[s].c_code = m_data[s].c_code
      /\ m_data'[s].error_code = m_data[s].error_code
      /\ \A t \in Session \ {s} : m_data'[t] = m_data[t]
      /\ UNCHANGED <<sp, call, server>>
  BY VariableTypes DEF WorkerText, DataType
<1>3. /\ Utterance(s) /\ Live(s) /\ worker[s].pkt \in Packet /\ worker[s].pkt \in Known(s)
      /\ ~UploadFailed(s) /\ ~m_data[s].b_last
  BY <1>1, UploadedState
<1>4. /\ Counters(s) /\ Stamped(s) /\ Ordered(s) /\ Placed(s)
      /\ UpToDate(s) /\ Complete(s) /\ Over(s) /\ Answered(s)
  BY <1>3 DEF Utterance
<1>5. /\ worker[s].pc \in PacketLabels /\ worker'[s].pc \in PacketLabels
      /\ ~Sending(s) /\ ~Sending(s)'
  BY <1>1 DEF PacketLabels, Sending
<1>6. /\ Pushing(s)' = Pushing(s) /\ Popped(s)' = Popped(s) /\ Known(s)' = Known(s)
      /\ Received(s)' = Received(s) /\ Retried(s)' = Retried(s)
      /\ UploadFailed(s)' = UploadFailed(s)
  BY <1>1, <1>2, <1>5 DEF Pushing, Popped, Known, Received, LastReceived, Retried,
                          UploadFailed
<1>7. Utterance(s)'
  <2>1. Counters(s)' /\ Stamped(s)' /\ Ordered(s)' /\ Placed(s)'
    BY <1>1, <1>2, <1>4, <1>5, <1>6 DEF Counters, Stamped, Ordered, Placed
  <2>2. UpToDate(s)' /\ Complete(s)' /\ Over(s)'
    BY <1>1, <1>2, <1>3, <1>4, <1>5, <1>6 DEF UpToDate, Complete, Over
  <2>3. Answered(s)'
    <3>1. worker[s].pkt.upto # 0
      BY <1>3, <1>4, UtteranceTypes DEF Stamped
    <3> QED
      BY <1>1, <1>2, <1>3, <1>4, <1>6, <3>1 DEF Answered, TextAfter
  <2> QED
    BY <2>1, <2>2, <2>3 DEF Utterance
<1>8. Final'
  BY <1>2, <1>6 DEF OneUtterance, Final, UploadFailed, Typed, CallTyped
<1>9. Gapless(server'[s].rcvd)
  BY <1>2, GaplessSequences DEF OneUtterance
<1> QED
  BY <1>1, <1>2, <1>5, <1>7, <1>8, <1>9, OneUtteranceLoop

(* The last packet is the last: nothing is queued or pushed behind it.     *)
LEMMA NothingBehindLast ==
  ASSUME IInv, OneUtterance, NEW s \in Session, worker[s].pc \in {"text", "code", "fail"},
         worker[s].pkt.b_Last
  PROVE  /\ sp[s].closed /\ m_data[s].q_buf = <<>> /\ ~Pushing(s)
         /\ worker[s].pkt.upto = sp[s].posts
<1> USE DEF IInv
<1> DEFINE p == worker[s].pkt
           n == Len(m_data[s].q_buf)
           b == IF Pushing(s) THEN 1 ELSE 0
<1>1. p \in Known(s) /\ p \in Packet /\ p.audio_index + 1 = Popped(s) /\ Stamped(s)
  BY UploadedState DEF Utterance
<1>2. sp[s].closed /\ p.audio_index + 1 = sp[s].m_audio_index /\ p.upto = sp[s].posts
  BY <1>1 DEF Stamped
<1>3. /\ n \in Nat /\ (m_data[s].q_buf = <<>> <=> n = 0) /\ sp[s].m_audio_index \in Nat
      /\ b \in {0, 1} /\ (Pushing(s) <=> b = 1)
      /\ Popped(s) = sp[s].m_audio_index - n - b
  BY UtteranceTypes, SequenceTypes DEF Popped
<1> HIDE DEF n, b, p
<1>4. n = 0 /\ b = 0
  <2>1. sp[s].m_audio_index = sp[s].m_audio_index - n - b
    BY <1>1, <1>2, <1>3
  <2> QED
    BY <1>3, <2>1
<1> QED
  BY <1>2, <1>3, <1>4 DEF p

(* What is left of Utterance when PostData returns to the loop.            *)
LEMMA UtteranceFinished ==
  ASSUME IInv, OneUtterance, NEW s \in Session, worker[s].pc \in {"code", "fail"},
         Finished(s), UNCHANGED <<sp, call, server>>,
         m_data'[s].q_buf = m_data[s].q_buf, m_data'[s].b_last = m_data[s].b_last
  PROVE  /\ Counters(s)' /\ Stamped(s)' /\ Ordered(s)' /\ Placed(s)'
         /\ Complete(s)' /\ Over(s)'
         /\ Received(s)' = Received(s) /\ Popped(s)' = Popped(s)
         /\ Retried(s)' = Retried(s)
         /\ worker'[s].pc \in {"test", "last"} /\ worker'[s].pc \notin BusyLabels
         /\ worker'[s].pc = "last" => worker[s].pkt.b_Last
<1> USE DEF IInv
<1>1. /\ worker'[s].pc \in {"test", "last"} /\ worker'[s].pc \notin BusyLabels
      /\ worker'[s].pc \notin PacketLabels /\ worker[s].pc \in PacketLabels
      /\ worker'[s].pc = "last" => worker[s].pkt.b_Last
  BY FinishedEffect DEF Done, BusyLabels, PacketLabels
<1>2. /\ Counters(s) /\ Stamped(s) /\ Ordered(s) /\ Placed(s) /\ Complete(s) /\ Over(s)
  BY UploadedState DEF Utterance
<1>3. /\ Pushing(s)' = Pushing(s) /\ Popped(s)' = Popped(s)
      /\ Received(s)' = Received(s) /\ Retried(s)' = Retried(s)
  BY DEF Pushing, Popped, Received, LastReceived, Retried
<1>4. Known(s)' \subseteq Known(s)
  BY <1>1, <1>3 DEF Known
<1>5. Counters(s)' /\ Stamped(s)' /\ Ordered(s)' /\ Placed(s)' /\ Complete(s)'
  BY <1>1, <1>2, <1>3, <1>4 DEF Counters, Stamped, Ordered, Placed, Complete
<1>6. Over(s)'
  BY <1>1, <1>2, <1>3, NothingBehindLast DEF Over
<1> QED
  BY <1>1, <1>3, <1>5, <1>6

(* PostData has been answered: the outcome is written, and if that was the *)
(* last packet the result is the answer to all that was posted.            *)
LEMMA OneUtteranceCode ==
  ASSUME IInv, OneUtterance, NEW s \in Session, WorkerCode(s)
  PROVE  OneUtterance'
<1> USE DEF IInv
<1>1. /\ worker[s].pc = "code" /\ Finished(s) /\ UNCHANGED <<sp, call, server>>
      /\ m_data'[s].text = m_data[s].text /\ m_data'[s].q_buf = m_data[s].q_buf
      /\ m_data'[s].b_last = m_data[s].b_last /\ m_data'[s].c_code = "CURLE_OK"
      /\ m_data'[s].error_code = worker[s].reply.code
      /\ \A t \in Session \ {s} : m_data'[t] = m_data[t]
  BY VariableTypes DEF WorkerCode, DataType
<1>2. /\ worker'[s].cut = FALSE /\ \A t \in Session \ {s} : worker'[t] = worker[t]
  BY <1>1, FinishedEffect
<1>3. /\ Utterance(s) /\ Live(s) /\ ~UploadFailed(s) /\ ~m_data[s].b_last
      /\ \A c \in Caller : call[c].pc = "holding" /\ call[c].s = s => sp[s].vinput
  BY <1>1, UploadedState
<1>4. /\ Counters(s)' /\ Stamped(s)' /\ Ordered(s)' /\ Placed(s)'
      /\ Complete(s)' /\ Over(s)'
      /\ Received(s)' = Received(s) /\ Popped(s)' = Popped(s)
      /\ Retried(s)' = Retried(s)
      /\ worker'[s].pc \in {"test", "last"} /\ worker'[s].pc \notin BusyLabels
      /\ worker'[s].pc = "last" => worker[s].pkt.b_Last
  BY <1>1, UtteranceFinished
<1>5. UpToDate(s)'
  <2>1. Received(s) = Popped(s)
    BY <1>1, <1>3 DEF Utterance, UpToDate, Sending
  <2> QED
    BY <1>4, <2>1 DEF UpToDate, Sending
<1>6. Answered(s)'
  <2>1. worker'[s].pc = "last" => worker[s].pkt.upto = sp[s].posts
    BY <1>1, <1>4, NothingBehindLast
  <2>2. worker[s].pkt.b_Last /\ worker[s].reply.code = "SUCCESS" =>
          m_data[s].text = worker[s].pkt.upto \/ Retried(s)
    BY <1>1, <1>3 DEF Utterance, Answered
  <2> QED
    BY <1>1, <1>3, <1>4, <2>1, <2>2 DEF Answered
<1>7. Utterance(s)'
  BY <1>4, <1>5, <1>6 DEF Utterance
<1>8. Final'
  <2> SUFFICES ASSUME NEW c \in Caller, call[c].pc = "holding"
               PROVE  /\ call[c].ret = "ERR_NET" => UploadFailed(call[c].s)'
                      /\ ~sp[call[c].s].vinput =>
                           UploadFailed(call[c].s)' \/ m_data'[call[c].s].b_last
                      /\ ~sp[call[c].s].vinput /\ call[c].ret = "SUCCESS" =>
                           \/ UploadFailed(call[c].s)'
                           \/ m_data'[call[c].s].error_code = "SUCCESS"
    BY <1>1 DEF Final, UploadFailed
  <2>1. CASE call[c].s = s
    BY <1>3, <2>1 DEF OneUtterance, Final
  <2>2. CASE call[c].s # s
    <3>1. call[c].s \in Session \ {s}
      BY <2>2 DEF Typed, CallTyped
    <3> QED
      BY <1>1, <3>1 DEF OneUtterance, Final, UploadFailed
  <2> QED
    BY <2>1, <2>2
<1>9. Gapless(server'[s].rcvd)
  BY <1>1, GaplessSequences DEF OneUtterance
<1> QED
  BY <1>1, <1>2, <1>4, <1>7, <1>8, <1>9, OneUtteranceLoop

(* Both attempts failed: from now on the upload is one that failed.        *)
LEMMA OneUtteranceFail ==
  ASSUME IInv, OneUtterance, NEW s \in Session, WorkerFail(s)
  PROVE  OneUtterance'
<1> USE DEF IInv
<1>1. /\ worker[s].pc = "fail" /\ Finished(s) /\ UNCHANGED <<sp, call, server>>
      /\ m_data'[s].text = m_data[s].text /\ m_data'[s].q_buf = m_data[s].q_buf
      /\ m_data'[s].b_last = m_data[s].b_last /\ m_data'[s].c_code = "CURLE_FAILED"
      /\ m_data'[s].error_code = m_data[s].error_code
      /\ \A t \in Session \ {s} : m_data'[t] = m_data[t]
  BY VariableTypes DEF WorkerFail, DataType
<1>2. /\ worker'[s].cut = FALSE /\ \A t \in Session \ {s} : worker'[t] = worker[t]
  BY <1>1, FinishedEffect
<1>3. /\ Counters(s)' /\ Stamped(s)' /\ Ordered(s)' /\ Placed(s)'
      /\ Complete(s)' /\ Over(s)'
      /\ worker'[s].pc \in {"test", "last"} /\ worker'[s].pc \notin BusyLabels
  BY <1>1, UtteranceFinished
<1>4. \A t \in Session : UploadFailed(t) => UploadFailed(t)'
  BY <1>1 DEF UploadFailed
<1>5. UploadFailed(s)'
  BY <1>1 DEF UploadFailed
<1>6. UpToDate(s)' /\ Answered(s)'
  BY <1>3, <1>5 DEF UpToDate, Answered
<1>7. Utterance(s)'
  BY <1>3, <1>6 DEF Utterance
<1>8. Final'
  <2>1. \A t \in Session : /\ m_data'[t].error_code = m_data[t].error_code
                          /\ m_data'[t].b_last = m_data[t].b_last
    BY <1>1
  <2> QED
    BY <1>1, <1>4, <2>1 DEF OneUtterance, Final, Typed, CallTyped
<1>9. Gapless(server'[s].rcvd)
  BY <1>1, GaplessSequences DEF OneUtterance
<1> QED
  BY <1>1, <1>2, <1>3, <1>7, <1>8, <1>9, OneUtteranceLoop

(* b_last = true: the result is final.                                     *)
LEMMA OneUtteranceLast ==
  ASSUME IInv, OneUtterance, NEW s \in Session, WorkerLast(s)
  PROVE  OneUtterance'
<1> USE DEF IInv
<1>1. /\ worker[s].pc = "last" /\ worker'[s].pc = "test"
      /\ worker'[s].cut = worker[s].cut
      /\ \A t \in Session \ {s} : worker'[t] = worker[t]
  BY StepEffect DEF WorkerLast
<1>2. /\ m_data'[s].text = m_data[s].text /\ m_data'[s].q_buf = m_data[s].q_buf
      /\ m_data'[s].b_last = TRUE /\ m_data'[s].c_code = m_data[s].c_code
      /\ m_data'[s].error_code = m_data[s].error_code
      /\ \A t \in Session \ {s} : m_data'[t] = m_data[t]
      /\ UNCHANGED <<sp, call, server>>
  BY VariableTypes DEF WorkerLast, DataType
<1>3. /\ worker[s].pc \notin PacketLabels /\ worker'[s].pc \notin PacketLabels
      /\ worker[s].pc \notin BusyLabels /\ worker'[s].pc \notin BusyLabels
      /\ ~Sending(s) /\ ~Sending(s)'
  BY <1>1 DEF PacketLabels, BusyLabels, Sending
<1>4. Utterance(s) /\ Live(s)
  BY <1>1 DEF Control, LiveWhileRunning, LoopLabels, OneUtterance
<1>5. /\ Counters(s) /\ Stamped(s) /\ Ordered(s) /\ Placed(s)
      /\ UpToDate(s) /\ Complete(s) /\ Over(s) /\ Answered(s)
  BY <1>4 DEF Utterance
<1>6. /\ Pushing(s)' = Pushing(s) /\ Popped(s)' = Popped(s) /\ Known(s)' = Known(s)
      /\ Received(s)' = Received(s) /\ Retried(s)' = Retried(s)
      /\ UploadFailed(s)' = UploadFailed(s)
  BY <1>2, <1>3 DEF Pushing, Popped, Known, Received, LastReceived, Retried, UploadFailed
<1>7. Counters(s)' /\ Stamped(s)' /\ Ordered(s)' /\ Placed(s)'
  BY <1>2, <1>3, <1>5, <1>6 DEF Counters, Stamped, Ordered, Placed
<1>8. UpToDate(s)' /\ Complete(s)' /\ Over(s)' /\ Answered(s)'
  BY <1>1, <1>2, <1>3, <1>5, <1>6 DEF UpToDate, Complete, Over, Answered
<1>9. Final'
  <2>1. \A t \in Session : /\ m_data'[t].error_code = m_data[t].error_code
                          /\ m_data[t].b_last => m_data'[t].b_last
                          /\ m_data'[t].c_code = m_data[t].c_code
    BY <1>2
  <2>2. \A c \in Caller : call[c].pc = "holding" => call[c].s \in Session
    BY DEF Typed, CallTyped
  <2> HIDE DEF IInv
  <2> QED
    BY <1>2, <2>1, <2>2 DEF OneUtterance, Final, UploadFailed
<1>10. Gapless(server'[s].rcvd)
  BY <1>2, GaplessSequences DEF OneUtterance
<1>11. ~worker'[s].cut
  BY <1>1, <1>3 DEF OneUtterance, Uncut
<1> QED
  BY <1>1, <1>2, <1>4, <1>7, <1>8, <1>9, <1>10, <1>11, OneUtteranceLoop DEF Utterance

(* OneUtterance is inductive, relative to IInv.                            *)
LEMMA OneUtteranceStep ==
  ASSUME ~ReuseSession, IInv, OneUtterance, [Next]_vars
  PROVE  OneUtterance'
<1>1. CASE CloudVDInit \/ CloudVDInitRefused \/ CloudVDFini \/ UNCHANGED vars
  BY <1>1, OneUtteranceProcess
<1>2. ASSUME NEW c \in Caller, CallStep(c) PROVE OneUtterance'
  <2>1. CASE BeginFailed(c) \/ BeginReplied(c) \/ SpawnFailed(c) \/ ThreadStarted(c)
    BY <2>1, OneUtteranceBegin
  <2>2. CASE SpawnThread(c)
    BY <2>2, OneUtteranceSpawnThread
  <2>3. CASE PushLock(c) \/ Join(c)
    BY <2>3, OneUtteranceQuietCall
  <2>4. CASE PushUnlock(c)
    BY <2>4, OneUtterancePushUnlock
  <2>5. CASE PollDone(c) \/ PollFailed(c)
    <3>1. call[c].s \in Session
      BY <2>5 DEF PollDone, PollFailed, IInv, Typed, CallTyped
    <3> QED
      BY <2>5, <3>1, OneUtteranceGetResult
  <2>6. CASE SessionEnd(c)
    BY <2>6, OneUtteranceSessionEnd
  <2>7. CASE Release(c)
    BY <2>7, OneUtteranceRelease
  <2> QED
    BY <1>2, <2>1, <2>2, <2>3, <2>4, <2>5, <2>6, <2>7 DEF CallStep
<1>3. ASSUME NEW c \in Caller, AppStep(c) PROVE OneUtterance'
  <2>1. CASE CopyResult(c)
    BY <2>1, OneUtteranceQuietCall
  <2>2. ASSUME NEW s \in Session, StartSession(c, s) PROVE OneUtterance'
    BY <2>2, OneUtteranceStartSession
  <2>3. ASSUME NEW s \in Session, PostBuffered(c, s) \/ PostData(c, s)
        PROVE  OneUtterance'
    BY <2>3, OneUtterancePostBuffered, OneUtterancePostData
  <2>4. ASSUME NEW s \in Session, GetPartialResult(c, s) \/ GetFinalResult(c, s)
        PROVE  OneUtterance'
    BY <2>4, OneUtteranceGetResult
  <2>5. ASSUME NEW s \in Session, EndSession(c, s) PROVE OneUtterance'
    BY <2>5, OneUtteranceEndSession
  <2> QED
    BY <1>3, <2>1, <2>2, <2>3, <2>4, <2>5 DEF AppStep
<1>4. ASSUME NEW s \in Session, WorkerStep(s) PROVE OneUtterance'
  <2>1. CASE \/ WorkerStart(s) \/ WorkerTest(s) \/ WorkerStop(s) \/ WorkerLog(s)
             \/ WorkerPeek(s) \/ WorkerLock(s)
    BY <2>1, OneUtteranceQuietWorker
  <2>2. CASE WorkerPop(s)
    BY <2>2, OneUtterancePop
  <2>3. CASE WorkerSend(s)
    BY <2>3, OneUtteranceAttempt DEF WorkerSend
  <2>4. CASE WorkerRetry(s)
    <3> DEFINE replies == Replies(worker[s].pkt)
                            \cup (IF worker[s].cut THEN {Unreadable} ELSE {})
    <3>1. /\ worker[s].pc = "retry"
          /\ \A a \in replies :
               a \in Replies(worker[s].pkt) \/ (worker[s].pc = "retry" /\ worker[s].cut)
      BY <2>4 DEF WorkerRetry
    <3>2. Attempt(s, replies, "fail")
      BY <2>4 DEF WorkerRetry
    <3> HIDE DEF replies
    <3> QED
      BY <3>1, <3>2, OneUtteranceAttempt
  <2>5. CASE WorkerText(s) \/ WorkerCode(s) \/ WorkerFail(s) \/ WorkerLast(s)
    BY <2>5, OneUtteranceText, OneUtteranceCode, OneUtteranceFail, OneUtteranceLast
  <2> QED
    BY <1>4, <2>1, <2>2, <2>3, <2>4, <2>5 DEF WorkerStep
<1> QED
  BY <1>1, <1>2, <1>3, <1>4 DEF Next

(* Nothing has been posted, queued or received.                            *)
LEMMA OneUtteranceInit == Init => OneUtterance
<1> SUFFICES ASSUME Init PROVE OneUtterance
  OBVIOUS
<1>1. /\ \A c \in Caller : call[c].pc = "idle"
      /\ \A s \in Session : /\ ~Live(s) /\ server[s].rcvd = <<>> /\ ~worker[s].cut
  BY DEF Init, Idle, Live, NoParam, NewParam
<1>2. GaplessUpload
  BY <1>1 DEF GaplessUpload
<1>3. Begun /\ NothingYet /\ Uncut /\ Final
  BY <1>1 DEF Begun, NothingYet, Uncut, Final
<1>4. \A s \in Session : Utterance(s)
  BY <1>1 DEF Utterance
<1> QED
  BY <1>2, <1>3, <1>4 DEF OneUtterance

(* While no session is used for a second utterance, the packets of each    *)
(* are where the code's counters say they are, and the service has all     *)
(* those before the one that is being uploaded.                            *)
THEOREM PacketsOfTheUtterance ==
  ASSUME ~ReuseSession
  PROVE  Spec => []OneUtterance
<1>1. IInv /\ OneUtterance /\ [Next]_vars => OneUtterance'
  BY OneUtteranceStep
<1> QED
  BY <1>1, OneUtteranceInit, Invariant, PTL DEF Spec

(* CloudVDPostData, the queue and ThreadPostData lose nothing, reorder     *)
(* nothing and repeat nothing but PostData's second attempt.               *)
THEOREM ReceivedInOrder ==
  ASSUME ~ReuseSession
  PROVE  Spec => []GaplessUpload
<1>1. OneUtterance => GaplessUpload
  BY DEF OneUtterance
<1> QED
  BY <1>1, PacketsOfTheUtterance, PTL

(* What CloudVDGetResult returns is what became of the upload: an error    *)
(* only if there was one, the text only if it answers all that was posted. *)
THEOREM ResultTrue ==
  ASSUME ~ReuseSession
  PROVE  Spec => []AnswerSound
<1>1. IInv /\ OneUtterance => AnswerSound
  <2> SUFFICES ASSUME IInv, OneUtterance, NEW c \in Caller, call[c].pc = "holding"
               PROVE  LET s == call[c].s IN
                      /\ call[c].ret = "ERR_NET" => UploadFailed(s)
                      /\ call[c].ret = "SUCCESS" /\ ~sp[s].vinput =>
                           UploadFailed(s) \/ m_data[s].text = sp[s].posts \/ Retried(s)
    BY DEF AnswerSound, Retried
  <2>1. PICK s \in Session : call[c].s = s
    BY DEF IInv, Typed, CallTyped
  <2>2. Answered(s)
    <3>1. Live(s)
      BY <2>1 DEF IInv, Control, CallsLive
    <3> QED
      BY <3>1 DEF OneUtterance, Utterance
  <2> QED
    BY <2>1, <2>2 DEF OneUtterance, Final, Answered
<1> QED
  BY <1>1, Invariant, PacketsOfTheUtterance, PTL

-----------------------------------------------------------------------------
(* The final result.                                                       *)

(* What writes the dataBuf but not b_last.                                 *)
LEMMA LastKept ==
  ASSUME Typed, NEW c \in Caller, NEW t \in Session,
         \/ PushUnlock(c) \/ EndSession(c, t) \/ WorkerStart(t) \/ WorkerStop(t)
         \/ WorkerPop(t) \/ WorkerText(t) \/ WorkerCode(t) \/ WorkerFail(t)
  PROVE  /\ \A s \in Session : m_data'[s].b_last = m_data[s].b_last
         /\ UNCHANGED sp
<1>1. CASE PushUnlock(c)
  BY <1>1, VariableTypes DEF PushUnlock, DataType
<1>2. CASE EndSession(c, t)
  BY <1>2, VariableTypes DEF EndSession, DataType
<1>3. CASE WorkerStart(t)
  BY <1>3, VariableTypes DEF WorkerStart, DataType
<1>4. CASE WorkerStop(t)
  BY <1>4, VariableTypes DEF WorkerStop, DataType
<1>5. CASE WorkerPop(t)
  BY <1>5, VariableTypes DEF WorkerPop, DataType
<1>6. CASE WorkerText(t)
  BY <1>6, VariableTypes DEF WorkerText, DataType
<1>7. CASE WorkerCode(t)
  BY <1>7, VariableTypes DEF WorkerCode, DataType
<1>8. CASE WorkerFail(t)
  BY <1>8, VariableTypes DEF WorkerFail, DataType
<1> QED
  BY <1>1, <1>2, <1>3, <1>4, <1>5, <1>6, <1>7, <1>8

(* A step that does not touch what Fresh says of s.                        *)
FreshStep(s) ==
  /\ worker'[s].pkt = worker[s].pkt
  /\ worker'[s].pc \in PacketLabels <=> worker[s].pc \in PacketLabels
  /\ worker'[s].pc \in {"none", "created"} => worker[s].pc \in {"none", "created"}
  /\ m_data'[s].q_buf = m_data[s].q_buf
  /\ m_data'[s].b_last = m_data[s].b_last
  /\ m_data'[s].c_code = m_data[s].c_code
  /\ sp'[s].state = sp[s].state

(* Such a step keeps it.                                                   *)
LEMMA FreshKept ==
  ASSUME Fresh, \A s \in Session : FreshStep(s)
  PROVE  Fresh'
BY DEF Fresh, FreshStep, UploadFailed, Live

(* Steps of calls ...                                                      *)
LEMMA FreshCall ==
  ASSUME IInv, Fresh, NEW c \in Caller, CallStep(c)
  PROVE  Fresh'
<1> USE DEF IInv
<1>1. ASSUME UNCHANGED <<worker, m_data>>, \A s \in Session : sp'[s].state = sp[s].state
      PROVE  Fresh'
  BY <1>1, FreshKept DEF FreshStep
<1>2. CASE BeginFailed(c) \/ SpawnFailed(c) \/ ThreadStarted(c)
  <2>1. \A s \in Session : sp'[s].state = sp[s].state
    <3>1. CASE BeginFailed(c)
      BY <3>1, VariableTypes DEF BeginFailed, ParamType
    <3>2. CASE SpawnFailed(c)
      BY <3>2, VariableTypes DEF SpawnFailed, ParamType
    <3>3. CASE ThreadStarted(c)
      BY <3>3, VariableTypes DEF ThreadStarted, ParamType
    <3> QED
      BY <1>2, <3>1, <3>2, <3>3
  <2> QED
    BY <1>1, <1>2, <2>1 DEF BeginFailed, SpawnFailed, ThreadStarted
<1>3. CASE BeginReplied(c)
  <2>1. \A s \in Session : sp'[s].state = sp[s].state
    BY <1>3, VariableTypes DEF BeginReplied, ParamType
  <2> QED
    BY <1>1, <1>3, <2>1 DEF BeginReplied
<1>4. CASE SpawnThread(c)
  <2>0. PICK s \in Session : call[c].s = s
    BY <1>4 DEF SpawnThread, Typed, CallTyped
  <2>1. worker[s].pc = "none"
    BY <1>4, <2>0 DEF SpawnThread, Control, HandShake
  <2>2. /\ worker'[s].pc = "created" /\ worker'[s].pkt = worker[s].pkt
        /\ m_data'[s].c_code = "CURLE_OK" /\ m_data'[s].b_last = FALSE
        /\ m_data'[s].q_buf = m_data[s].q_buf
        /\ \A t \in Session \ {s} : worker'[t] = worker[t] /\ m_data'[t] = m_data[t]
        /\ UNCHANGED sp
    BY <1>4, <2>0, VariableTypes DEF SpawnThread, WorkerType, DataType
  <2>3. \A t \in Session \ {s} : FreshStep(t)
    BY <2>2 DEF FreshStep
  <2> QED
    BY <2>1, <2>2, <2>3 DEF Fresh, FreshStep, UploadFailed, Live, PacketLabels
<1>5. CASE PushUnlock(c)
  <2>0. PICK s \in Session : call[c].s = s
    BY <1>5 DEF PushUnlock, Typed, CallTyped
  <2>1. Live(s)
    BY <1>5, <2>0 DEF PushUnlock, Control, CallsLive
  <2>2. /\ m_data'[s].c_code = m_data[s].c_code /\ m_data'[s].b_last = m_data[s].b_last
        /\ \A t \in Session \ {s} : m_data'[t] = m_data[t]
        /\ UNCHANGED <<sp, worker>>
    BY <1>5, <2>0, VariableTypes DEF PushUnlock, DataType
  <2> QED
    BY <2>1, <2>2 DEF Fresh, UploadFailed, Live
<1>6. CASE Release(c)
  <2>0. PICK s \in Session : call[c].s = s
    BY <1>6 DEF Release, Typed, CallTyped
  <2>1. /\ m_data'[s] = NewData /\ sp'[s].state = "freed"
        /\ \A t \in Session \ {s} : m_data'[t] = m_data[t] /\ sp'[t] = sp[t]
        /\ UNCHANGED worker
    BY <1>6, <2>0, VariableTypes DEF Release, NoParam, NewParam
  <2> QED
    BY <2>1 DEF Fresh, UploadFailed, Live, NewData
<1> QED
  BY <1>1, <1>2, <1>3, <1>4, <1>5, <1>6
    DEF CallStep, PushLock, PollDone, PollFailed, Join, SessionEnd

(* ... of the application ...                                              *)
LEMMA FreshApp ==
  ASSUME IInv, Fresh, NEW c \in Caller, AppStep(c)
  PROVE  Fresh'
<1> USE DEF IInv
<1>1. ASSUME UNCHANGED <<worker, m_data>>, \A s \in Session : sp'[s].state = sp[s].state
      PROVE  Fresh'
  BY <1>1, FreshKept DEF FreshStep
<1>2. ASSUME NEW s \in Session, StartSession(c, s) PROVE Fresh'
  <2>1. /\ m_data'[s] = NewData /\ sp'[s].state = "live"
        /\ \A t \in Session \ {s} : m_data'[t] = m_data[t] /\ sp'[t] = sp[t]
        /\ UNCHANGED worker
    BY <1>2, VariableTypes DEF StartSession, NewParam
  <2> QED
    BY <2>1 DEF Fresh, UploadFailed, Live, NewData
<1>3. ASSUME NEW s \in Session, PostBuffered(c, s) PROVE Fresh'
  <2>1. \A t \in Session : sp'[t].state = sp[t].state
    BY <1>3, VariableTypes DEF PostBuffered, ParamType
  <2> QED
    BY <1>1, <1>3, <2>1 DEF PostBuffered
<1>4. ASSUME NEW s \in Session, PostData(c, s) PROVE Fresh'
  <2>1. \A t \in Session : sp'[t].state = sp[t].state
    BY <1>4, PostDataEffect
  <2> QED
    BY <1>1, <1>4, <2>1 DEF PostData
<1>5. ASSUME NEW s \in Session, EndSession(c, s) PROVE Fresh'
  <2>1. UNCHANGED <<sp, worker>> /\ \A t \in Session : SameData(t)
    BY <1>5, VariableTypes DEF EndSession, SameData, DataType
  <2> QED
    BY <2>1, FreshKept DEF FreshStep, SameData
<1> QED
  BY <1>1, <1>2, <1>3, <1>4, <1>5
    DEF AppStep, CopyResult, GetPartialResult, GetFinalResult

(* ... and of upload threads.                                              *)
LEMMA FreshWorker ==
  ASSUME IInv, Fresh, NEW s \in Session, WorkerStep(s)
  PROVE  Fresh'
<1> USE DEF IInv
<1>1. ASSUME NEW from, NEW to, Step(s, from, to), to \notin {"none", "created"},
             to \in PacketLabels <=> from \in PacketLabels,
             UNCHANGED sp, \A t \in Session : SameData(t)
      PROVE  Fresh'
  BY <1>1, StepEffect, FreshKept DEF FreshStep, SameData
<1>2. CASE WorkerStart(s)
  <2>1. UNCHANGED sp /\ \A t \in Session : SameData(t)
    BY <1>2, VariableTypes DEF WorkerStart, SameData, DataType
  <2> QED
    BY <1>1, <1>2, <2>1 DEF WorkerStart, PacketLabels
<1>3. CASE WorkerStop(s)
  <2>1. UNCHANGED sp /\ \A t \in Session : SameData(t)
    BY <1>3, VariableTypes DEF WorkerStop, SameData, DataType
  <2> QED
    BY <1>1, <1>3, <2>1 DEF WorkerStop, PacketLabels
<1>4. CASE WorkerTest(s) \/ WorkerLog(s) \/ WorkerPeek(s) \/ WorkerLock(s)
  <2>1. UNCHANGED sp /\ \A t \in Session : SameData(t)
    BY <1>4 DEF WorkerTest, WorkerLog, WorkerPeek, WorkerLock, SameData
  <2> QED
    BY <1>1, <1>4, <2>1 DEF WorkerTest, WorkerLog, WorkerPeek, WorkerLock, PacketLabels
<1>5. CASE WorkerText(s)
  <2>1. /\ worker[s].pc = "text" /\ worker'[s].pc = "code"
        /\ worker'[s].pkt = worker[s].pkt
        /\ \A t \in Session \ {s} : worker'[t] = worker[t]
    BY <1>5, StepEffect DEF WorkerText
  <2>2. /\ m_data'[s].q_buf = m_data[s].q_buf /\ m_data'[s].b_last = m_data[s].b_last
        /\ m_data'[s].c_code = m_data[s].c_code
        /\ \A t \in Session \ {s} : m_data'[t] = m_data[t]
        /\ UNCHANGED sp
    BY <1>5, VariableTypes DEF WorkerText, DataType
  <2> QED
    BY <2>1, <2>2, FreshKept DEF FreshStep, PacketLabels
<1>6. CASE WorkerPop(s)
  <2>1. /\ worker'[s].pc = "send"
        /\ \A t \in Session \ {s} : worker'[t] = worker[t] /\ m_data'[t] = m_data[t]
        /\ m_data'[s].b_last = m_data[s].b_last /\ m_data'[s].c_code = m_data[s].c_code
        /\ UNCHANGED sp
    BY <1>6, VariableTypes DEF WorkerPop, WorkerType, DataType
  <2>2. sp[s].state # "unused"
    BY <1>6 DEF WorkerPop, Control, HandShake
  <2> QED
    BY <2>1, <2>2 DEF Fresh, UploadFailed, Live, PacketLabels
<1>7. CASE WorkerSend(s) \/ WorkerRetry(s)
  <2>1. PICK replies, otherwise : /\ otherwise \in {"retry", "fail"}
                                  /\ worker[s].pc \in {"send", "retry"}
                                  /\ Attempt(s, replies, otherwise)
    BY <1>7 DEF WorkerSend, WorkerRetry
  <2>2. /\ worker'[s].pkt = worker[s].pkt /\ worker'[s].pc \in {"text", "retry", "fail"}
        /\ \A t \in Session \ {s} : worker'[t] = worker[t]
    BY <2>1, AttemptEffect
  <2>3. UNCHANGED <<sp, m_data>>
    BY <2>1 DEF Attempt
  <2> QED
    BY <2>1, <2>2, <2>3, FreshKept DEF FreshStep, PacketLabels
<1>8. CASE WorkerCode(s) \/ WorkerFail(s)
  <2>1. /\ worker'[s].pc \in {"test", "last"} /\ worker'[s].pkt = NULL
        /\ \A t \in Session \ {s} : worker'[t] = worker[t]
    BY <1>8, FinishedEffect DEF WorkerCode, WorkerFail, Done
  <2>2. \A t \in Session : m_data'[t].q_buf = m_data[t].q_buf
    <3>1. CASE WorkerCode(s)
      BY <3>1, VariableTypes DEF WorkerCode, DataType
    <3>2. CASE WorkerFail(s)
      BY <3>2, VariableTypes DEF WorkerFail, DataType
    <3> QED
      BY <1>8, <3>1, <3>2
  <2>3. /\ \A t \in Session : m_data'[t].b_last = m_data[t].b_last
        /\ UNCHANGED sp
    BY <1>8, RecorderAssumption, LastKept
  <2>4. \A t \in Session \ {s} : m_data'[t].c_code = m_data[t].c_code
    BY <1>8, VariableTypes DEF WorkerCode, WorkerFail
  <2> QED
    BY <2>1, <2>2, <2>3, <2>4 DEF Fresh, UploadFailed, Live, PacketLabels
<1>9. CASE WorkerLast(s)
  <2>1. /\ worker[s].pc = "last" /\ worker'[s].pc = "test"
        /\ worker'[s].pkt = worker[s].pkt
        /\ \A t \in Session \ {s} : worker'[t] = worker[t]
    BY <1>9, StepEffect DEF WorkerLast
  <2>2. /\ m_data'[s].q_buf = m_data[s].q_buf
        /\ \A t \in Session \ {s} : m_data'[t] = m_data[t]
        /\ UNCHANGED sp
    BY <1>9, VariableTypes DEF WorkerLast, DataType
  <2>3. Live(s)
    BY <2>1 DEF Control, LiveWhileRunning, LoopLabels
  <2> QED
    BY <2>1, <2>2, <2>3 DEF Fresh, UploadFailed, Live, PacketLabels
<1> QED
  BY <1>2, <1>3, <1>4, <1>5, <1>6, <1>7, <1>8, <1>9 DEF WorkerStep

(* A thread that holds no packet has none, and before a thread's first     *)
(* step, and after delete sp, the flags of the dataBuf are as it was made. *)
THEOREM FreshData == Spec => []Fresh
<1>1. Init => Fresh
  <2> SUFFICES ASSUME Init, NEW s \in Session
               PROVE  /\ worker[s].pkt = NULL
                      /\ m_data[s].c_code = "CURLE_OK" /\ ~m_data[s].b_last
                      /\ m_data[s].q_buf = <<>>
    BY DEF Fresh, UploadFailed
  <2>1. worker[s].pkt = NULL
    BY DEF Init
  <2>2. m_data[s] = NewData
    BY DEF Init
  <2>3. NewData.c_code = "CURLE_OK" /\ NewData.b_last = FALSE /\ NewData.q_buf = <<>>
    BY DEF NewData
  <2> QED
    BY <2>1, <2>2, <2>3
<1>2. ASSUME IInv, Fresh, [Next]_vars PROVE Fresh'
  <2>1. CASE CloudVDInit \/ CloudVDInitRefused \/ CloudVDFini \/ UNCHANGED vars
    BY <1>2, <2>1, FreshKept
      DEF CloudVDInit, CloudVDInitRefused, CloudVDFini, vars, FreshStep
  <2> QED
    BY <1>2, <2>1, FreshCall, FreshApp, FreshWorker DEF Next
<1> QED
  BY <1>1, <1>2, Invariant, PTL DEF Spec

(* b_last with no failure says that the service has all the audio posted:  *)
(* nothing is in the queue or in anybody's hands, and the last packet      *)
(* received is the last one built.                                         *)
THEOREM NothingMissing ==
  ASSUME ~ReuseSession
  PROVE  Spec => []AudioComplete
<1>1. IInv /\ OneUtterance /\ Fresh => AudioComplete
  <2> SUFFICES ASSUME IInv, OneUtterance, NEW s \in Session, Live(s),
                      m_data[s].b_last, ~UploadFailed(s)
               PROVE  \E i \in DOMAIN server[s].rcvd :
                        /\ server[s].rcvd[i].pkt.b_Last
                        /\ server[s].rcvd[i].pkt.upto = sp[s].posts
    BY DEF AudioComplete, Fresh, UploadFailed
  <2> USE DEF IInv
  <2>1. Counters(s) /\ Stamped(s) /\ UpToDate(s) /\ Over(s)
    BY DEF OneUtterance, Utterance
  <2>2. /\ sp[s].closed /\ sp[s].m_audio_index > 0
        /\ m_data[s].q_buf = <<>> /\ ~Pushing(s) /\ worker[s].pc \notin BusyLabels
    BY <2>1 DEF Over, Counters
  <2>3. Popped(s) = sp[s].m_audio_index
    <3>1. Len(m_data[s].q_buf) = 0 /\ sp[s].m_audio_index \in Nat
      BY <2>2, SequenceTypes, UtteranceTypes
    <3> QED
      BY <2>2, <3>1 DEF Popped
  <2>4. Received(s) = sp[s].m_audio_index
    BY <2>1, <2>2, <2>3 DEF UpToDate, Sending, BusyLabels, PacketLabels
  <2>5. /\ Len(server[s].rcvd) \in DOMAIN server[s].rcvd
        /\ LastReceived(s) \in Known(s)
        /\ LastReceived(s).audio_index + 1 = sp[s].m_audio_index
    BY <2>2, <2>4, CountTypes
  <2>6. LastReceived(s).b_Last /\ LastReceived(s).upto = sp[s].posts
    BY <2>1, <2>2, <2>5 DEF Stamped
  <2> QED
    BY <2>5, <2>6 DEF LastReceived
<1> QED
  BY <1>1, Invariant, FreshData, PacketsOfTheUtterance, PTL

(* Only the session's own upload thread writes the text and the outcome of *)
(* a session that a call is working on, and only once PostData is done.    *)
LEMMA ResultWritten ==
  ASSUME IInv, [Next]_vars, NEW c \in Caller, NEW s \in Session,
         call[c].pc = "holding", call[c].s = s, worker[s].pc \notin {"text", "code"}
  PROVE  /\ m_data'[s].text = m_data[s].text
         /\ m_data'[s].error_code = m_data[s].error_code
<1> DEFINE Goal == /\ m_data'[s].text = m_data[s].text
                   /\ m_data'[s].error_code = m_data[s].error_code
<1> USE DEF IInv
<1> HIDE DEF Goal
<1>1. ASSUME m_data'[s] = m_data[s] PROVE Goal
  BY <1>1 DEF Goal
<1>2. CASE CloudVDInit \/ CloudVDInitRefused \/ CloudVDFini \/ UNCHANGED vars
  BY <1>1, <1>2 DEF CloudVDInit, CloudVDInitRefused, CloudVDFini, vars
<1>3. ASSUME NEW d \in Caller, CallStep(d) PROVE Goal
  <2>1. CASE SpawnThread(d)
    BY <2>1, VariableTypes DEF SpawnThread, DataType, Goal
  <2>2. CASE PushUnlock(d)
    BY <2>2, VariableTypes DEF PushUnlock, DataType, Goal
  <2>3. CASE Release(d)
    <3>1. call[d].s # s
      BY <2>3 DEF Release, Control, Exclusive, OwnLabels
    <3> QED
      BY <1>1, <2>3, <3>1, VariableTypes DEF Release
  <2> QED
    BY <1>1, <1>3, <2>1, <2>2, <2>3
      DEF CallStep, BeginFailed, BeginReplied, SpawnFailed, ThreadStarted, PushLock,
          PollDone, PollFailed, Join, SessionEnd
<1>4. ASSUME NEW d \in Caller, AppStep(d) PROVE Goal
  <2>1. ASSUME NEW t \in Session, StartSession(d, t) PROVE Goal
    <3>1. t # s
      BY <2>1 DEF StartSession, Control, CallsLive, Live
    <3> QED
      BY <1>1, <2>1, <3>1, VariableTypes DEF StartSession
  <2>2. ASSUME NEW t \in Session, EndSession(d, t) PROVE Goal
    BY <2>2, VariableTypes DEF EndSession, DataType, Goal
  <2> QED
    BY <1>1, <1>4, <2>1, <2>2 DEF AppStep, CopyResult, PostBuffered, PostData,
       GetPartialResult, GetFinalResult
<1>5. ASSUME NEW t \in Session, WorkerStep(t) PROVE Goal
  <2>1. CASE WorkerStart(t)
    BY <2>1, VariableTypes DEF WorkerStart, DataType, Goal
  <2>2. CASE WorkerStop(t)
    BY <2>2, VariableTypes DEF WorkerStop, DataType, Goal
  <2>3. CASE WorkerPop(t)
    BY <2>3, VariableTypes DEF WorkerPop, DataType, Goal
  <2>4. CASE WorkerFail(t)
    BY <2>4, VariableTypes DEF WorkerFail, DataType, Goal
  <2>5. CASE WorkerText(t) \/ WorkerCode(t)
    <3>1. t # s
      BY <2>5 DEF WorkerText, WorkerCode, Step
    <3> QED
      BY <1>1, <2>5, <3>1, VariableTypes DEF WorkerText, WorkerCode
  <2>6. CASE WorkerLast(t)
    BY <2>6, VariableTypes DEF WorkerLast, DataType, Goal
  <2> QED
    BY <1>1, <1>5, <2>1, <2>2, <2>3, <2>4, <2>5, <2>6
      DEF WorkerStep, WorkerTest, WorkerLog, WorkerPeek, WorkerLock, WorkerSend,
          WorkerRetry, Attempt
<1> QED
  BY <1>2, <1>3, <1>4, <1>5 DEF Next, Goal

(* The caller of CloudVDGetResult gets a pointer to m_result, and reads a  *)
(* final result that no thread is going to write again.                    *)
THEOREM FinalResultStays ==
  ASSUME ~ReuseSession
  PROVE  Spec => ResultStable
<1>1. ASSUME IInv, OneUtterance, [Next]_vars, NEW c \in Caller,
             call[c].pc = "holding", ~sp[call[c].s].vinput
      PROVE  /\ m_data'[call[c].s].text = m_data[call[c].s].text
             /\ m_data'[call[c].s].error_code = m_data[call[c].s].error_code
  <2>1. PICK s \in Session : call[c].s = s
    BY <1>1 DEF IInv, Typed, CallTyped
  <2>2. UpToDate(s) /\ Over(s)
    <3>1. Live(s)
      BY <1>1, <2>1 DEF IInv, Control, CallsLive
    <3> QED
      BY <1>1, <3>1 DEF OneUtterance, Utterance
  <2>3. UploadFailed(s) \/ m_data[s].b_last
    BY <1>1, <2>1 DEF OneUtterance, Final
  <2>4. worker[s].pc \notin {"text", "code"}
    BY <2>2, <2>3 DEF UpToDate, Over, BusyLabels, PacketLabels
  <2> QED
    BY <1>1, <2>1, <2>4, ResultWritten
<1>2. IInv /\ OneUtterance /\ [Next]_vars =>
        [\A c \in Caller : LET s == call[c].s IN
           call[c].pc = "holding" /\ ~sp[s].vinput =>
             /\ m_data'[s].text = m_data[s].text
             /\ m_data'[s].error_code = m_data[s].error_code]_vars
  BY <1>1
<1> QED
  BY <1>2, Invariant, PacketsOfTheUtterance, PTL DEF Spec, ResultStable

(* The three invariants, as the run checks them together.                  *)
THEOREM UploadInvariants == Spec => []UploadInv
<1>1. CASE ~Overlapping /\ ~ReuseSession
  <2>1. Fresh /\ OneAtATime /\ OneUtterance => UploadInv
    BY DEF UploadInv
  <2> QED
    BY <1>1, <2>1, FreshData, GlobalsOfTheSession, PacketsOfTheUtterance, PTL
<1>2. CASE ~Overlapping /\ ReuseSession
  <2>1. Fresh /\ OneAtATime => UploadInv
    BY <1>2 DEF UploadInv
  <2> QED
    BY <1>2, <2>1, FreshData, GlobalsOfTheSession, PTL
<1>3. CASE Overlapping /\ ~ReuseSession
  <2>1. Fresh /\ OneUtterance => UploadInv
    BY <1>3 DEF UploadInv
  <2> QED
    BY <1>3, <2>1, FreshData, PacketsOfTheUtterance, PTL
<1>4. CASE Overlapping /\ ReuseSession
  <2>1. Fresh => UploadInv
    BY <1>4 DEF UploadInv
  <2> QED
    BY <2>1, FreshData, PTL
<1> QED
  BY <1>1, <1>2, <1>3, <1>4

-----------------------------------------------------------------------------
(* The refinement: the mapping, session by session.                        *)

(* What the mapping makes of a session does not change.                    *)
StreamKept(t) == /\ Delivered(t)' = Delivered(t)
                 /\ Pending(t)' = Pending(t)
                 /\ Outcome(t)' = Outcome(t)

(* The packets of s, as AudioStream has them.                              *)
Posted(s) == Delivered(s) \cup {Pending(s)[i] : i \in DOMAIN Pending(s)}

(* Nothing changes for any session: the audio stream stutters.             *)
LEMMA StreamStutters ==
  ASSUME \A t \in Session : StreamKept(t)
  PROVE  UNCHANGED Stream!stream
BY DEF StreamKept, Stream!stream

(* One session accepts a packet.                                           *)
LEMMA StreamPosts ==
  ASSUME NEW s \in Session, \A t \in Session \ {s} : StreamKept(t),
         Outcome(s) = "open", Outcome(s)' = "open",
         \A p \in Posted(s) : ~p.last,
         Delivered(s)' = Delivered(s),
         NEW last \in BOOLEAN,
         Pending(s)' = Append(Pending(s), [n |-> Cardinality(Posted(s)), last |-> last])
  PROVE  Stream!Next
<1>1. Stream!Packets(s) = Posted(s)
  BY DEF Stream!Packets, Posted
<1>2. Stream!Cardinality(Posted(s)) = Cardinality(Posted(s))
  BY DEF Stream!Cardinality, Cardinality
<1>3. Stream!Post(s)
  BY <1>1, <1>2 DEF Stream!Post, StreamKept
<1> QED
  BY <1>3 DEF Stream!Next

(* One session has a packet delivered.                                     *)
LEMMA StreamDelivers ==
  ASSUME NEW s \in Session, \A t \in Session \ {s} : StreamKept(t),
         Outcome(s) = "open", Outcome(s)' = "open",
         Pending(s) # <<>>,
         Delivered(s)' = Delivered(s) \cup {Head(Pending(s))},
         Pending(s)' = Tail(Pending(s))
  PROVE  Stream!Next
<1>1. Stream!Deliver(s)
  BY DEF Stream!Deliver, StreamKept
<1> QED
  BY <1>1 DEF Stream!Next

(* One session is complete.                                                *)
LEMMA StreamCompletes ==
  ASSUME NEW s \in Session, \A t \in Session \ {s} : StreamKept(t),
         Outcome(s) = "open", Outcome(s)' = "complete",
         \E p \in Delivered(s) : p.last,
         Delivered(s)' = Delivered(s), Pending(s)' = Pending(s)
  PROVE  Stream!Next
<1>1. Stream!Complete(s)
  BY DEF Stream!Complete, StreamKept
<1> QED
  BY <1>1 DEF Stream!Next

(* One session fails, or is over.                                          *)
LEMMA StreamEnds ==
  ASSUME NEW s \in Session, \A t \in Session \ {s} : StreamKept(t),
         \/ Outcome(s) = "open" /\ Outcome(s)' = "failed"
         \/ Outcome(s) # "over" /\ Outcome(s)' = "over",
         Delivered(s)' = Delivered(s), Pending(s)' = <<>>
  PROVE  Stream!Next
<1>1. CASE Outcome(s) = "open" /\ Outcome(s)' = "failed"
  <2>1. Stream!Fail(s)
    BY <1>1 DEF Stream!Fail, Stream!GiveUp, StreamKept
  <2> QED
    BY <2>1 DEF Stream!Next
<1>2. CASE Outcome(s) # "over" /\ Outcome(s)' = "over"
  <2>1. Stream!End(s)
    BY <1>2 DEF Stream!End, Stream!GiveUp, StreamKept
  <2> QED
    BY <2>1 DEF Stream!Next
<1> QED
  BY <1>1, <1>2

-----------------------------------------------------------------------------
(* What the mapping depends on.                                            *)

SameStream(t) ==
  /\ (sp'[t].state = "freed") = (sp[t].state = "freed")
  /\ m_data'[t].q_buf = m_data[t].q_buf
  /\ m_data'[t].b_last = m_data[t].b_last
  /\ UploadFailed(t)' = UploadFailed(t)
  /\ worker'[t].pkt = worker[t].pkt
  /\ (worker'[t].pc \in {"log", "dead"}) = (worker[t].pc \in {"log", "dead"})
  /\ SamePush(t)
  /\ server'[t].rcvd = server[t].rcvd

(* A step that keeps that keeps what the mapping makes of the session.     *)
LEMMA SameStreamKept ==
  ASSUME NEW t \in Session, SameStream(t)
  PROVE  StreamKept(t)
<1>1. Delivered(t)' = Delivered(t)
  BY DEF SameStream, Delivered
<1>2. Outcome(t)' = Outcome(t)
  BY DEF SameStream, Outcome
<1>3. InFlight(t)' = InFlight(t)
  BY <1>1 DEF SameStream, InFlight
<1>4. Queued(t)' = Queued(t)
  BY DEF SameStream, Queued
<1>5. Posting(t)' = Posting(t)
  BY DEF SameStream, Posting, SamePush, Pushing
<1> QED
  BY <1>1, <1>2, <1>3, <1>4, <1>5 DEF StreamKept, Pending

(* ... in particular a step of another session.                            *)
LEMMA ElsewhereKept ==
  ASSUME NEW t \in Session, sp'[t] = sp[t], m_data'[t] = m_data[t],
         worker'[t] = worker[t], server'[t].rcvd = server[t].rcvd, SamePush(t)
  PROVE  StreamKept(t)
BY SameStreamKept DEF SameStream, UploadFailed

(* The packets as the audio stream has them.                               *)
Numbers == [n: Nat, last: BOOLEAN]

(* The parts of Pending are sequences of such packets.                     *)
LEMMA PendingTypes ==
  ASSUME IInv, Fresh, NEW s \in Session
  PROVE  /\ InFlight(s) \in Seq(Numbers)
         /\ Queued(s) \in Seq(Numbers)
         /\ Posting(s) \in Seq(Numbers)
         /\ Len(Queued(s)) = Len(m_data[s].q_buf)
         /\ Posting(s) = IF Pushing(s) THEN <<Numbered(call[Recorder].pkt)>> ELSE <<>>
<1> USE DEF IInv
<1>1. \A p \in Packet : Numbered(p) \in Numbers
  BY DEF Packet, Numbered, Numbers
<1>2. worker[s].pkt # NULL => worker[s].pkt \in Packet
  BY VariableTypes DEF WorkerType
<1>3. InFlight(s) \in Seq(Numbers)
  BY <1>1, <1>2 DEF InFlight
<1>4. Queued(s) \in Seq(Numbers) /\ Len(Queued(s)) = Len(m_data[s].q_buf)
  BY <1>1, SequenceTypes DEF Queued
<1>5. Posting(s) \in Seq(Numbers)
  BY <1>1, UtteranceTypes DEF Posting, Pushing
<1> QED
  BY <1>3, <1>4, <1>5 DEF Posting, Pushing

(* The elements of a concatenation.                                        *)
Elements(q) == {q[i] : i \in DOMAIN q}

(* A concatenation has the elements of both sequences.                     *)
LEMMA ConcatElements ==
  ASSUME NEW S, NEW a \in Seq(S), NEW b \in Seq(S)
  PROVE  Elements(a \o b) = Elements(a) \cup Elements(b)
<1> DEFINE c == a \o b
<1>1. /\ Len(a) \in Nat /\ Len(b) \in Nat /\ Len(c) = Len(a) + Len(b)
      /\ DOMAIN a = 1..Len(a) /\ DOMAIN b = 1..Len(b) /\ DOMAIN c = 1..(Len(a) + Len(b))
      /\ \A i \in 1..(Len(a) + Len(b)) :
           c[i] = IF i <= Len(a) THEN a[i] ELSE b[i - Len(a)]
  OBVIOUS
<1> HIDE DEF c
<1>2. ASSUME NEW i \in DOMAIN c
      PROVE  \/ i \in DOMAIN a /\ c[i] = a[i]
             \/ i - Len(a) \in DOMAIN b /\ c[i] = b[i - Len(a)]
  BY <1>1
<1>3. ASSUME NEW i \in DOMAIN a PROVE i \in DOMAIN c /\ c[i] = a[i]
  BY <1>1
<1>4. ASSUME NEW i \in DOMAIN b PROVE i + Len(a) \in DOMAIN c /\ c[i + Len(a)] = b[i]
  BY <1>1
<1>5. {c[i] : i \in DOMAIN c} = {a[i] : i \in DOMAIN a} \cup {b[i] : i \in DOMAIN b}
  BY <1>2, <1>3, <1>4
<1> QED
  BY <1>5 DEF c, Elements

(* Until it is known how the upload ends the stream's packets are the      *)
(* packets there are.                                                      *)
LEMMA PostedKnown ==
  ASSUME IInv, Fresh, NEW s \in Session, Outcome(s) = "open"
  PROVE  Posted(s) = {Numbered(p) : p \in Known(s)}
<1> USE DEF IInv
<1> DEFINE a == InFlight(s)
           b == Queued(s)
           c == Posting(s)
           mine == IF worker[s].pc \in PacketLabels THEN {Numbered(worker[s].pkt)} ELSE {}
           ours == IF Pushing(s) THEN {Numbered(call[Recorder].pkt)} ELSE {}
<1>1. /\ a \in Seq(Numbers) /\ b \in Seq(Numbers) /\ c \in Seq(Numbers)
      /\ a \o b \in Seq(Numbers)
  BY PendingTypes
<1>2. Pending(s) = (a \o b) \o c
  BY DEF Pending
<1>3. Elements(Pending(s)) = Elements(a) \cup Elements(b) \cup Elements(c)
  <2> HIDE DEF a, b, c
  <2>1. Elements(a \o b) = Elements(a) \cup Elements(b)
    BY <1>1, ConcatElements
  <2>2. Elements((a \o b) \o c) = Elements(a \o b) \cup Elements(c)
    <3> DEFINE d == a \o b
    <3>1. d \in Seq(Numbers)
      BY <1>1
    <3> HIDE DEF d
    <3>2. Elements(d \o c) = Elements(d) \cup Elements(c)
      BY <1>1, <3>1, ConcatElements
    <3> QED
      BY <3>2 DEF d
  <2> QED
    BY <1>2, <2>1, <2>2
<1>4. Elements(b) = {Numbered(m_data[s].q_buf[i]) : i \in DOMAIN m_data[s].q_buf}
  BY DEF Queued, Elements
<1>5. Elements(c) = ours
  BY PendingTypes DEF Elements
<1>6. Delivered(s) \cup Elements(a) = Delivered(s) \cup mine
  <2>1. worker[s].pkt # NULL <=> worker[s].pc \in PacketLabels
    BY UtteranceTypes, NullAssumption DEF Fresh
  <2> QED
    BY <2>1 DEF InFlight, Elements
<1>7. {Numbered(p) : p \in Known(s)}
        = {Numbered(m_data[s].q_buf[i]) : i \in DOMAIN m_data[s].q_buf}
            \cup Delivered(s) \cup mine \cup ours
  BY DEF Known, Delivered
<1> HIDE DEF mine, ours, a, b, c
<1> QED
  BY <1>3, <1>4, <1>5, <1>6, <1>7 DEF Posted, Elements

(* While the upload is open every number up to m_audio_index is that of a  *)
(* packet: received, in the upload thread's hands, queued or pushed.       *)
LEMMA EveryNumber ==
  ASSUME IInv, OneUtterance, NEW s \in Session, Live(s), Outcome(s) = "open",
         NEW k \in 0..(sp[s].m_audio_index - 1)
  PROVE  \E p \in Known(s) : p.audio_index = k
<1> USE DEF IInv
<1> DEFINE m == sp[s].m_audio_index
           n == Len(m_data[s].q_buf)
           b == IF Pushing(s) THEN 1 ELSE 0
<1>1. Complete(s) /\ Placed(s) /\ UpToDate(s)
  BY DEF OneUtterance, Utterance
<1>2. /\ m \in Nat /\ n \in Nat /\ b \in {0, 1} /\ (Pushing(s) <=> b = 1)
      /\ Popped(s) = m - n - b /\ Received(s) \in Nat
      /\ k \in Nat /\ k < m
  BY UtteranceTypes, SequenceTypes, CountTypes DEF Popped
<1>3. \/ Received(s) = Popped(s)
      \/ Received(s) = Popped(s) - 1 /\ worker[s].pc \in PacketLabels
  <2>1. ~UploadFailed(s)
    BY DEF Outcome
  <2>2. Sending(s) => worker[s].pc \in PacketLabels
    BY DEF Sending, PacketLabels
  <2>3. "fail" \in PacketLabels
    BY DEF PacketLabels
  <2> QED
    BY <1>1, <2>1, <2>2, <2>3 DEF UpToDate
<1>4. CASE k < Received(s)
  <2>1. k \in 0..(Received(s) - 1)
    BY <1>2, <1>4
  <2>2. PICK i \in DOMAIN server[s].rcvd : server[s].rcvd[i].pkt.audio_index = k
    BY <1>1, <2>1 DEF Complete
  <2> QED
    BY <2>2, KnownPackets
<1>5. CASE k >= Received(s) /\ k < Popped(s)
  <2>1. worker[s].pc \in PacketLabels /\ k + 1 = Popped(s)
    <3> HIDE DEF m, n, b
    <3> QED
      BY <1>2, <1>3, <1>5
  <2>2. worker[s].pkt \in Known(s) /\ worker[s].pkt.audio_index + 1 = k + 1
    BY <1>1, <2>1, KnownPackets DEF Placed
  <2>3. worker[s].pkt.audio_index \in Nat
    BY <2>2, KnownPackets DEF Packet
  <2> QED
    BY <2>2, <2>3
<1>6. CASE k >= Popped(s) /\ k < Popped(s) + n
  <2> DEFINE i == k + 1 - Popped(s)
  <2>1. i \in 1..n /\ Popped(s) + i = k + 1
    <3> HIDE DEF m, n, b
    <3> QED
      BY <1>2, <1>6
  <2>2. i \in DOMAIN m_data[s].q_buf
    BY <2>1, SequenceTypes
  <2> HIDE DEF i, n
  <2>3. m_data[s].q_buf[i] \in Known(s) /\ m_data[s].q_buf[i].audio_index + 1 = k + 1
    BY <1>1, <2>1, <2>2, KnownPackets DEF Placed
  <2>4. m_data[s].q_buf[i].audio_index \in Nat
    BY <2>3, KnownPackets DEF Packet
  <2> QED
    BY <2>3, <2>4
<1>7. CASE k >= Popped(s) + n
  <2>1. Pushing(s) /\ k + 1 = m
    <3> HIDE DEF m, n, b
    <3> QED
      BY <1>2, <1>7
  <2>2. call[Recorder].pkt \in Known(s) /\ call[Recorder].pkt.audio_index + 1 = m
    BY <1>1, <2>1, KnownPackets DEF Placed
  <2>3. call[Recorder].pkt.audio_index \in Nat
    BY <2>2, KnownPackets DEF Packet
  <2> QED
    BY <2>1, <2>2, <2>3
<1> HIDE DEF m, n, b
<1> QED
  BY <1>2, <1>4, <1>5, <1>6, <1>7

(* ... and of one packet only: the stream has m_audio_index packets.       *)
LEMMA PostedCount ==
  ASSUME IInv, Fresh, OneUtterance, NEW s \in Session, Live(s), Outcome(s) = "open"
  PROVE  Cardinality(Posted(s)) = sp[s].m_audio_index
<1> USE DEF IInv
<1> DEFINE m == sp[s].m_audio_index
           f == [p \in Posted(s) |-> p.n]
<1>1. m \in Nat /\ Stamped(s) /\ Ordered(s)
  BY UtteranceTypes DEF OneUtterance, Utterance
<1>2. \A p \in Known(s) : p.audio_index \in 0..(m - 1)
  <2> SUFFICES ASSUME NEW p \in Known(s) PROVE p.audio_index \in 0..(m - 1)
    OBVIOUS
  <2>1. p.audio_index \in Nat /\ p.audio_index < m
    BY <1>1, KnownPackets DEF Stamped, Packet
  <2> QED
    BY <1>1, <2>1
<1>3. \A k \in 0..(m - 1) : \E p \in Known(s) : p.audio_index = k
  BY EveryNumber
<1>4. Posted(s) = {Numbered(p) : p \in Known(s)}
  BY PostedKnown
<1> HIDE DEF m
<1>5. \A x \in Posted(s) : x.n \in 0..(m - 1)
  BY <1>2, <1>4 DEF Numbered
<1>6. \A x, y \in Posted(s) : x.n = y.n => x = y
  BY <1>1, <1>4 DEF Numbered, Ordered
<1>7. \A k \in 0..(m - 1) : \E x \in Posted(s) : x.n = k
  <2>1. \A p \in Known(s) : Numbered(p) \in Posted(s) /\ Numbered(p).n = p.audio_index
    BY <1>4 DEF Numbered
  <2> QED
    BY <1>3, <2>1
<1>8. f \in Injection(Posted(s), 0..(m - 1)) /\ f \in Surjection(Posted(s), 0..(m - 1))
  BY <1>5, <1>6, <1>7 DEF Injection, Surjection, IsInjective
<1>9. IsFiniteSet(0..(m - 1)) /\ Cardinality(0..(m - 1)) = m
  <2>1. /\ IsFiniteSet(0..(m - 1))
        /\ Cardinality(0..(m - 1)) = IF 0 > m - 1 THEN 0 ELSE (m - 1) - 0 + 1
    BY <1>1, FS_Interval
  <2> QED
    BY <1>1, <2>1
<1> HIDE DEF f
<1> QED
  BY <1>8, <1>9, FS_Injection DEF m

-----------------------------------------------------------------------------
(* The steps the audio stream does not see.                                *)

(* Calls that change neither the dataBuf nor the upload thread, and push   *)
(* what they pushed.                                                       *)
LEMMA CallStutters ==
  ASSUME NEW c \in Caller, \A d \in Caller \ {c} : call'[d] = call[d],
         \/ call[c].pc \notin {"push", "pushing"} /\ call'[c].pc \notin {"push", "pushing"}
         \/ /\ call[c].pc \in {"push", "pushing"} /\ call'[c].pc \in {"push", "pushing"}
            /\ call'[c].s = call[c].s /\ call'[c].pkt = call[c].pkt,
         UNCHANGED <<m_data, worker>>,
         \A t \in Session : /\ sp'[t].state = sp[t].state
                            /\ server'[t].rcvd = server[t].rcvd
  PROVE  UNCHANGED Stream!stream
<1>1. \A t \in Session : SameStream(t)
  BY PushKept DEF SameStream, UploadFailed
<1> QED
  BY <1>1, SameStreamKept, StreamStutters

(* A call that starts a session, but for the thread.                       *)
LEMMA StreamBegin ==
  ASSUME IInv, NEW c \in Caller,
         BeginFailed(c) \/ SpawnFailed(c) \/ ThreadStarted(c)
  PROVE  UNCHANGED Stream!stream
<1> USE DEF IInv
<1>1. \A t \in Session : sp'[t].state = sp[t].state
  <2>1. CASE BeginFailed(c)
    BY <2>1, VariableTypes DEF BeginFailed, ParamType
  <2>2. CASE SpawnFailed(c)
    BY <2>2, VariableTypes DEF SpawnFailed, ParamType
  <2>3. CASE ThreadStarted(c)
    BY <2>3, VariableTypes DEF ThreadStarted, ParamType
  <2> QED
    BY <2>1, <2>2, <2>3
<1>2. /\ UNCHANGED <<m_data, worker, server>> /\ Return(c)
      /\ call[c].pc \in {"begin", "spawn", "spawned"}
  BY DEF BeginFailed, SpawnFailed, ThreadStarted
<1>3. call'[c].pc = "idle" /\ \A d \in Caller \ {c} : call'[d] = call[d]
  BY <1>2, ReturnEffect DEF Idle
<1> QED
  BY <1>1, <1>2, <1>3, CallStutters

(* The reply to SessionBegin.                                              *)
LEMMA StreamBeginReplied ==
  ASSUME IInv, NEW c \in Caller, BeginReplied(c)
  PROVE  UNCHANGED Stream!stream
<1> USE DEF IInv
<1>1. \A t \in Session : sp'[t].state = sp[t].state
  BY VariableTypes DEF BeginReplied, ParamType
<1>2. \A t \in Session : server'[t].rcvd = server[t].rcvd
  <2>1. \/ UNCHANGED server
        \/ \E addr : server' = [server EXCEPT ![call[c].s].home = addr]
    BY DEF BeginReplied
  <2>2. ASSUME NEW addr, server' = [server EXCEPT ![call[c].s].home = addr]
        PROVE  \A t \in Session : server'[t].rcvd = server[t].rcvd
    BY <2>2, VariableTypes DEF ServerType
  <2> QED
    BY <2>1, <2>2
<1>3. UNCHANGED <<m_data, worker>> /\ call[c].pc = "begin"
  BY DEF BeginReplied
<1>4. Goto(c, "spawn") \/ Return(c)
  BY DEF BeginReplied
<1>5. /\ call'[c].pc \in {"idle", "spawn"}
      /\ \A d \in Caller \ {c} : call'[d] = call[d]
  BY <1>4, ReturnEffect, GotoEffect DEF Idle
<1> QED
  BY <1>1, <1>2, <1>3, <1>5, CallStutters

(* Steps that only move a call.                                            *)
LEMMA StreamQuietCall ==
  ASSUME IInv, NEW c \in Caller, PushLock(c) \/ Join(c) \/ CopyResult(c)
  PROVE  UNCHANGED Stream!stream
<1> USE DEF IInv
<1>1. /\ UNCHANGED <<sp, m_data, worker, server>>
      /\ \A d \in Caller \ {c} : call'[d] = call[d]
      /\ \/ /\ call[c].pc = "push" /\ call'[c].pc = "pushing"
            /\ call'[c].s = call[c].s /\ call'[c].pkt = call[c].pkt
         \/ call[c].pc = "join" /\ call'[c].pc = "bye"
         \/ call[c].pc = "holding" /\ call'[c].pc = "idle"
  BY GotoEffect, ReturnEffect DEF PushLock, Join, CopyResult, Idle
<1> QED
  BY <1>1, CallStutters

(* CloudVDGetResult has its answer.                                        *)
LEMMA StreamPolled ==
  ASSUME IInv, NEW c \in Caller, PollDone(c) \/ PollFailed(c)
  PROVE  UNCHANGED Stream!stream
<1> USE DEF IInv
<1>1. call[c].pc = "poll" /\ UNCHANGED <<sp, m_data, worker, server>>
  BY DEF PollDone, PollFailed
<1>2. PICK code : Hold(c, call[c].s, code)
  BY DEF PollDone, PollFailed
<1>3. call[c].s \in Session
  BY <1>1 DEF Typed, CallTyped
<1>4. /\ call'[c].pc = "holding" /\ \A d \in Caller \ {c} : call'[d] = call[d]
  BY <1>2, <1>3, HoldEffect
<1> QED
  BY <1>1, <1>4, CallStutters

(* The service is told of the end.                                         *)
LEMMA StreamSessionEnd ==
  ASSUME IInv, NEW c \in Caller, SessionEnd(c)
  PROVE  UNCHANGED Stream!stream
<1> USE DEF IInv
<1>1. /\ UNCHANGED <<sp, m_data, worker>>
      /\ \A t \in Session : server'[t].rcvd = server[t].rcvd
  BY VariableTypes DEF SessionEnd, ServerType
<1>2. /\ call[c].pc = "bye" /\ call'[c].pc = "free"
      /\ \A d \in Caller \ {c} : call'[d] = call[d]
  BY VariableTypes DEF SessionEnd, CallType
<1> QED
  BY <1>1, <1>2, CallStutters

(* What the application does but starting a session and posting a packet.  *)
LEMMA StreamQuietApp ==
  ASSUME IInv, NEW c \in Caller, NEW s \in Session,
         \/ PostBuffered(c, s) \/ GetPartialResult(c, s) \/ GetFinalResult(c, s)
         \/ EndSession(c, s)
  PROVE  UNCHANGED Stream!stream
<1> USE DEF IInv
<1>1. CASE PostBuffered(c, s)
  <2>1. \A t \in Session : sp'[t].state = sp[t].state
    BY <1>1, VariableTypes DEF PostBuffered, ParamType
  <2>2. call[c].pc = "idle" /\ UNCHANGED <<m_data, worker, server, call>>
    BY <1>1 DEF PostBuffered, MayPost
  <2> QED
    BY <2>1, <2>2, CallStutters
<1>2. CASE GetPartialResult(c, s)
  <2>1. /\ call'[c].pc = "holding" /\ \A d \in Caller \ {c} : call'[d] = call[d]
    BY <1>2, HoldEffect DEF GetPartialResult
  <2> QED
    BY <1>2, <2>1, CallStutters DEF GetPartialResult, MayAsk
<1>3. CASE GetFinalResult(c, s)
  <2>1. /\ call'[c].pc = "poll" /\ \A d \in Caller \ {c} : call'[d] = call[d]
    BY <1>3, VariableTypes DEF GetFinalResult, Idle
  <2> QED
    BY <1>3, <2>1, CallStutters DEF GetFinalResult, MayAsk
<1>4. CASE EndSession(c, s)
  <2>1. /\ call'[c].pc = "join" /\ \A d \in Caller \ {c} : call'[d] = call[d]
        /\ call[c].pc = "idle" /\ UNCHANGED <<sp, worker, server>>
    BY <1>4, VariableTypes DEF EndSession, Idle
  <2>2. \A t \in Session : SamePush(t)
    BY <2>1, PushKept
  <2>3. \A t \in Session : /\ m_data'[t].q_buf = m_data[t].q_buf
                          /\ m_data'[t].c_code = m_data[t].c_code
    BY <1>4, VariableTypes DEF EndSession, DataType
  <2>4. \A t \in Session : m_data'[t].b_last = m_data[t].b_last
    BY <1>4, LastKept
  <2>5. \A t \in Session : SameStream(t)
    BY <2>1, <2>2, <2>3, <2>4 DEF SameStream, UploadFailed
  <2> QED
    BY <2>5, SameStreamKept, StreamStutters
<1> QED
  BY <1>1, <1>2, <1>3, <1>4

(* The dataBuf of a session without an upload thread is as it was made.    *)
LEMMA UntouchedData ==
  ASSUME IInv, Fresh, NEW s \in Session, worker[s].pc = "none"
  PROVE  ~UploadFailed(s) /\ m_data[s].b_last = FALSE
<1>1. ~UploadFailed(s) /\ ~m_data[s].b_last
  BY DEF Fresh
<1>2. m_data[s].b_last \in BOOLEAN
  BY VariableTypes DEF IInv, DataType
<1> QED
  BY <1>1, <1>2

(* CloudVDStartSession: no packet yet, as before.                          *)
LEMMA StreamStartSession ==
  ASSUME IInv, Fresh, NEW c \in Caller, NEW s \in Session, StartSession(c, s)
  PROVE  UNCHANGED Stream!stream
<1> USE DEF IInv
<1>1. /\ sp[s].state = "unused" /\ worker[s].pc = "none" /\ call[c].pc = "idle"
      /\ m_data[s].q_buf = <<>>
  BY DEF StartSession, Control, HandShake, Fresh
<1>2. ~UploadFailed(s) /\ m_data[s].b_last = FALSE
  BY <1>1, UntouchedData
<1>3. /\ m_data'[s] = NewData /\ sp'[s].state = "live"
      /\ \A t \in Session \ {s} : sp'[t] = sp[t] /\ m_data'[t] = m_data[t]
      /\ UNCHANGED <<worker, server>>
  BY VariableTypes DEF StartSession, NewParam
<1>4. /\ call'[c].pc = "begin" /\ \A d \in Caller \ {c} : call'[d] = call[d]
  BY VariableTypes DEF StartSession, Idle
<1>5. \A t \in Session : SamePush(t)
  BY <1>1, <1>4, PushKept
<1>6. NewData.q_buf = <<>> /\ NewData.b_last = FALSE /\ NewData.c_code = "CURLE_OK"
  BY DEF NewData
<1>7. UploadFailed(s)' = UploadFailed(s)
  BY <1>2, <1>3, <1>6 DEF UploadFailed
<1>8. SameStream(s)
  BY <1>1, <1>2, <1>3, <1>5, <1>6, <1>7 DEF SameStream
<1>9. \A t \in Session \ {s} : StreamKept(t)
  BY <1>3, <1>5, ElsewhereKept
<1> QED
  BY <1>8, <1>9, SameStreamKept, StreamStutters

(* pthread_create: the flags it resets were clean.                         *)
LEMMA StreamSpawnThread ==
  ASSUME IInv, Fresh, NEW c \in Caller, SpawnThread(c)
  PROVE  UNCHANGED Stream!stream
<1> USE DEF IInv
<1>0. PICK s \in Session : call[c].s = s
  BY DEF SpawnThread, Typed, CallTyped
<1>1. call[c].pc = "spawn" /\ worker[s].pc = "none"
  BY <1>0 DEF SpawnThread, Control, HandShake
<1>2. ~UploadFailed(s) /\ m_data[s].b_last = FALSE
  BY <1>1, UntouchedData
<1>3. /\ m_data'[s].q_buf = m_data[s].q_buf /\ m_data'[s].b_last = FALSE
      /\ m_data'[s].c_code = "CURLE_OK"
      /\ \A t \in Session \ {s} : m_data'[t] = m_data[t]
      /\ UNCHANGED <<sp, server>>
  <2> DEFINE r == [m_data[s] EXCEPT !.b_start = FALSE, !.b_run = TRUE, !.b_last = FALSE,
                                    !.c_code = "CURLE_OK"]
  <2>1. m_data' = [m_data EXCEPT ![s] = r] /\ UNCHANGED <<sp, server>>
    BY <1>0, VariableTypes DEF SpawnThread
  <2>2. r.q_buf = m_data[s].q_buf /\ r.b_last = FALSE /\ r.c_code = "CURLE_OK"
    BY VariableTypes DEF DataType
  <2> HIDE DEF r
  <2> QED
    BY <2>1, <2>2, VariableTypes
<1>4. /\ worker'[s].pc = "created" /\ worker'[s].pkt = worker[s].pkt
      /\ \A t \in Session \ {s} : worker'[t] = worker[t]
  BY <1>0, VariableTypes DEF SpawnThread, WorkerType
<1>5. /\ call'[c].pc = "spawned" /\ \A d \in Caller \ {c} : call'[d] = call[d]
  BY GotoEffect DEF SpawnThread
<1>6. \A t \in Session : SamePush(t)
  BY <1>1, <1>5, PushKept
<1>7. UploadFailed(s)' = UploadFailed(s)
  BY <1>2, <1>3 DEF UploadFailed
<1>8. SameStream(s)
  <2>1. (worker'[s].pc \in {"log", "dead"}) = (worker[s].pc \in {"log", "dead"})
    BY <1>1, <1>4
  <2>2. (sp'[s].state = "freed") = (sp[s].state = "freed")
    BY <1>3
  <2> QED
    BY <1>2, <1>3, <1>4, <1>6, <1>7, <2>1, <2>2 DEF SameStream
<1>9. \A t \in Session \ {s} : StreamKept(t)
  BY <1>3, <1>4, <1>6, ElsewhereKept
<1> QED
  BY <1>8, <1>9, SameStreamKept, StreamStutters

-----------------------------------------------------------------------------
(* The steps it sees.                                                      *)

(* Once the outcome is known nothing is pending.                           *)
LEMMA NothingPending ==
  ASSUME NEW s \in Session
  PROVE  /\ Outcome(s) # "open" => Pending(s) = <<>>
         /\ Outcome(s)' # "open" => Pending(s)' = <<>>
BY DEF Pending

(* delete sp ends the stream, unless its thread has ended it already.      *)
LEMMA StreamRelease ==
  ASSUME IInv, NEW c \in Caller, Release(c)
  PROVE  Stream!Next \/ UNCHANGED Stream!stream
<1> USE DEF IInv
<1>0. PICK s \in Session : call[c].s = s
  BY DEF Release, Typed, CallTyped
<1>1. /\ sp'[s].state = "freed"
      /\ \A t \in Session \ {s} : sp'[t] = sp[t] /\ m_data'[t] = m_data[t]
      /\ UNCHANGED <<worker, server>>
  BY <1>0, VariableTypes DEF Release, NoParam, NewParam
<1>2. /\ call[c].pc = "free" /\ call'[c].pc = "idle"
      /\ \A d \in Caller \ {c} : call'[d] = call[d]
  BY ReturnEffect DEF Release, Idle
<1>3. \A t \in Session : SamePush(t)
  BY <1>2, PushKept
<1>4. \A t \in Session \ {s} : StreamKept(t)
  BY <1>1, <1>3, ElsewhereKept
<1>5. Outcome(s)' = "over" /\ Delivered(s)' = Delivered(s)
  BY <1>1 DEF Outcome, Delivered
<1>6. Pending(s)' = <<>>
  BY <1>5, NothingPending
<1>7. CASE Outcome(s) = "over"
  <2>1. Pending(s) = <<>>
    BY <1>7, NothingPending
  <2>2. StreamKept(s)
    BY <1>5, <1>6, <1>7, <2>1 DEF StreamKept
  <2> QED
    BY <1>4, <2>2, StreamStutters
<1>8. CASE Outcome(s) # "over"
  BY <1>4, <1>5, <1>6, <1>8, StreamEnds
<1> QED
  BY <1>7, <1>8

(* A packet is built: the stream accepts it, with the number that follows  *)
(* all those it has; what is posted after a failure goes nowhere.          *)
LEMMA StreamPostData ==
  ASSUME ~ReuseSession, IInv, Fresh, OneUtterance,
         NEW c \in Caller, NEW s \in Session, PostData(c, s)
  PROVE  Stream!Next \/ UNCHANGED Stream!stream
<1> USE DEF IInv
<1>1. /\ c = Recorder /\ call[c].pc = "idle" /\ Live(s) /\ Utterance(s)
      /\ ~sp[s].closed /\ NextIndex(s) = sp[s].m_audio_index /\ ~Pushing(s)
  BY PostingState DEF PostData
<1>2. PICK last \in BOOLEAN : call'[c].pkt = PacketOf(s, last)
  BY PostDataEffect
<1>3. /\ sp'[s].state = sp[s].state
      /\ call'[c].pc = "push" /\ call'[c].s = s
      /\ \A t \in Session \ {s} : sp'[t] = sp[t]
      /\ \A d \in Caller \ {c} : call'[d] = call[d]
      /\ UNCHANGED <<m_data, worker, server>>
  <2>1. UNCHANGED <<m_data, worker, server>>
    BY DEF PostData
  <2> QED
    BY <2>1, PostDataEffect
<1>4. \A t \in Session \ {s} : StreamKept(t)
  <2>1. \A t \in Session \ {s} : ~Pushing(t) /\ ~Pushing(t)'
    BY <1>1, <1>3 DEF Pushing
  <2>2. \A t \in Session \ {s} : SamePush(t)
    BY <2>1 DEF SamePush, Pushing
  <2> QED
    BY <1>3, <2>2, ElsewhereKept
<1>5. /\ Delivered(s)' = Delivered(s) /\ Outcome(s)' = Outcome(s)
      /\ InFlight(s)' = InFlight(s) /\ Queued(s)' = Queued(s)
  BY <1>3 DEF Delivered, Outcome, UploadFailed, InFlight, Queued
<1>6. CASE Outcome(s) # "open"
  <2>1. StreamKept(s)
    BY <1>5, <1>6, NothingPending DEF StreamKept
  <2> QED
    BY <1>4, <2>1, StreamStutters
<1>7. CASE Outcome(s) = "open"
  <2> DEFINE a == InFlight(s)
             b == Queued(s)
             e == [n |-> sp[s].m_audio_index, last |-> last]
  <2>1. a \in Seq(Numbers) /\ b \in Seq(Numbers) /\ Posting(s) = <<>>
    BY <1>1, PendingTypes
  <2>2. sp[s].m_audio_index \in Nat
    BY UtteranceTypes
  <2>3. e \in Numbers
    BY <2>2 DEF Numbers
  <2>4. Numbered(PacketOf(s, last)) = e
    BY <1>1 DEF Numbered, PacketOf
  <2>5. Posting(s)' = <<e>>
    BY <1>1, <1>2, <1>3, <2>4, RecorderAssumption DEF Posting
  <2>6. Pending(s) = (a \o b) \o <<>> /\ Pending(s)' = (a \o b) \o <<e>>
    BY <1>5, <1>7, <2>1, <2>5 DEF Pending
  <2>7. Pending(s)' = Append(Pending(s), e)
    <3> HIDE DEF a, b, e
    <3> QED
      BY <2>1, <2>3, <2>6
  <2>8. Cardinality(Posted(s)) = sp[s].m_audio_index
    BY <1>1, <1>7, PostedCount
  <2>9. \A p \in Posted(s) : ~p.last
    <3>1. \A p \in Known(s) : ~p.b_Last
      BY <1>1 DEF Utterance, Stamped
    <3> QED
      BY <1>7, <3>1, PostedKnown DEF Numbered
  <2> QED
    BY <1>4, <1>5, <1>7, <2>7, <2>8, <2>9, StreamPosts
<1> QED
  BY <1>6, <1>7

(* The packet goes to the end of the queue, which it was in front of.      *)
LEMMA StreamPushUnlock ==
  ASSUME IInv, Fresh, OneUtterance, NEW c \in Caller, PushUnlock(c)
  PROVE  UNCHANGED Stream!stream
<1> USE DEF IInv
<1>0. PICK s \in Session : call[c].s = s
  BY DEF PushUnlock, Typed, CallTyped
<1>1. /\ call[c].pc = "pushing" /\ c = Recorder /\ Pushing(s)
  BY <1>0 DEF PushUnlock, OneUtterance, Begun, Pushing
<1> DEFINE p == call[c].pkt
           q == m_data[s].q_buf
           a == InFlight(s)
           b == Queued(s)
           e == Numbered(p)
<1>2. /\ m_data'[s].q_buf = Append(q, p)
      /\ m_data'[s].c_code = m_data[s].c_code
      /\ \A t \in Session \ {s} : m_data'[t] = m_data[t]
      /\ UNCHANGED <<sp, worker, server>>
  BY <1>0, VariableTypes DEF PushUnlock, Enqueue, DataType
<1>3. m_data'[s].b_last = m_data[s].b_last
  BY LastKept
<1>4. /\ call'[c].pc = "idle" /\ \A d \in Caller \ {c} : call'[d] = call[d]
  BY ReturnEffect DEF PushUnlock, Idle
<1>5. ~Pushing(s)' /\ \A t \in Session \ {s} : SamePush(t)
  BY <1>0, <1>1, <1>4 DEF Pushing, SamePush
<1>6. \A t \in Session \ {s} : StreamKept(t)
  BY <1>2, <1>5, ElsewhereKept
<1>7. /\ Delivered(s)' = Delivered(s) /\ Outcome(s)' = Outcome(s) /\ InFlight(s)' = a
  BY <1>2, <1>3 DEF Delivered, Outcome, UploadFailed, InFlight
<1>8. /\ p \in Packet /\ q \in Seq(Packet) /\ Len(q) \in Nat
      /\ Len(Append(q, p)) = Len(q) + 1
      /\ DOMAIN Append(q, p) = 1..(Len(q) + 1) /\ DOMAIN q = 1..Len(q)
      /\ \A i \in 1..Len(q) : Append(q, p)[i] = q[i]
      /\ Append(q, p)[Len(q) + 1] = p
  BY <1>1, UtteranceTypes
<1>9. /\ a \in Seq(Numbers) /\ b \in Seq(Numbers) /\ e \in Numbers /\ Len(b) = Len(q)
      /\ Posting(s) = <<e>>
  BY <1>1, <1>8, PendingTypes DEF Packet, Numbered, Numbers
<1>10. Posting(s)' = <<>>
  BY <1>5 DEF Posting, Pushing
<1>11. Queued(s)' = Append(b, e)
  <2>1. Queued(s)' = [i \in 1..(Len(q) + 1) |-> Numbered(Append(q, p)[i])]
    BY <1>2, <1>8 DEF Queued
  <2>2. \A i \in 1..Len(q) : b[i] = Numbered(q[i])
    BY <1>8 DEF Queued
  <2> HIDE DEF a, b, q, p
  <2> DEFINE d == [i \in 1..(Len(q) + 1) |-> Numbered(Append(q, p)[i])]
  <2>3. \A i \in 1..(Len(q) + 1) : d[i] = IF i = Len(q) + 1 THEN e ELSE b[i]
    BY <1>8, <2>2
  <2> HIDE DEF e
  <2>4. d \in Seq(Numbers) /\ Len(d) = Len(q) + 1
    BY <1>8, <1>9, <2>3
  <2>5. /\ Append(b, e) \in Seq(Numbers) /\ Len(Append(b, e)) = Len(q) + 1
        /\ \A i \in 1..(Len(q) + 1) : Append(b, e)[i] = IF i = Len(q) + 1 THEN e ELSE b[i]
    BY <1>8, <1>9, AppendProperties
  <2> HIDE DEF d
  <2>6. d = Append(b, e)
    BY <2>3, <2>4, <2>5, SeqEqual
  <2> QED
    BY <2>1, <2>6 DEF d
<1>12. Pending(s)' = Pending(s)
  <2>1. CASE Outcome(s) # "open"
    BY <1>7, <2>1, NothingPending
  <2>2. CASE Outcome(s) = "open"
    <3>1. Pending(s) = (a \o b) \o <<e>> /\ Pending(s)' = (a \o Append(b, e)) \o <<>>
      BY <1>7, <1>9, <1>10, <1>11, <2>2 DEF Pending
    <3> HIDE DEF a, b, e
    <3>2. (a \o Append(b, e)) \o <<>> = (a \o b) \o <<e>>
      <4>1. Append(b, e) = b \o <<e>> /\ <<e>> \in Seq(Numbers)
        BY <1>9
      <4>2. a \o (b \o <<e>>) = (a \o b) \o <<e>>
        BY <1>9, <4>1, ConcatAssociative
      <4>3. a \o Append(b, e) \in Seq(Numbers)
        BY <1>9
      <4> QED
        BY <4>1, <4>2, <4>3, ConcatEmptySeq
    <3> QED
      BY <3>1, <3>2
  <2> QED
    BY <2>1, <2>2
<1>13. StreamKept(s)
  BY <1>7, <1>12 DEF StreamKept
<1> QED
  BY <1>6, <1>13, StreamStutters

-----------------------------------------------------------------------------
(* The upload thread.                                                      *)

(* A step of the upload thread of s leaves the other sessions alone.       *)
LEMMA OthersKept ==
  ASSUME NEW s \in Session, UNCHANGED <<sp, call>>,
         \A t \in Session \ {s} : /\ m_data'[t] = m_data[t] /\ worker'[t] = worker[t]
                                  /\ server'[t].rcvd = server[t].rcvd
  PROVE  /\ \A t \in Session \ {s} : StreamKept(t)
         /\ SamePush(s) /\ Posting(s)' = Posting(s)
BY ElsewhereKept DEF SamePush, Pushing, Posting

(* The turns of the loop, and the writes of m_result.                      *)
LEMMA StreamQuietWorker ==
  ASSUME IInv, NEW s \in Session,
         \/ WorkerStart(s) \/ WorkerTest(s) \/ WorkerLog(s) \/ WorkerPeek(s)
         \/ WorkerLock(s) \/ WorkerText(s)
  PROVE  UNCHANGED Stream!stream
<1> USE DEF IInv
<1>1. /\ worker'[s].pkt = worker[s].pkt
      /\ (worker'[s].pc \in {"log", "dead"}) = (worker[s].pc \in {"log", "dead"})
      /\ \A t \in Session \ {s} : worker'[t] = worker[t]
  BY StepEffect DEF WorkerStart, WorkerTest, WorkerLog, WorkerPeek, WorkerLock, WorkerText
<1>2. UNCHANGED <<sp, call, server>>
  BY DEF WorkerStart, WorkerTest, WorkerLog, WorkerPeek, WorkerLock, WorkerText
<1>3. /\ m_data'[s].q_buf = m_data[s].q_buf /\ m_data'[s].c_code = m_data[s].c_code
      /\ m_data'[s].b_last = m_data[s].b_last
      /\ \A t \in Session \ {s} : m_data'[t] = m_data[t]
  <2>1. CASE WorkerStart(s)
    <3>1. m_data'[s].b_last = m_data[s].b_last
      BY <2>1, RecorderAssumption, LastKept
    <3> QED
      BY <2>1, <3>1, VariableTypes DEF WorkerStart, DataType
  <2>2. CASE WorkerText(s)
    <3>1. m_data'[s].b_last = m_data[s].b_last
      BY <2>2, RecorderAssumption, LastKept
    <3> QED
      BY <2>2, <3>1, VariableTypes DEF WorkerText, DataType
  <2>3. CASE WorkerTest(s) \/ WorkerLog(s) \/ WorkerPeek(s) \/ WorkerLock(s)
    BY <2>3 DEF WorkerTest, WorkerLog, WorkerPeek, WorkerLock
  <2> QED
    BY <2>1, <2>2, <2>3
<1>4. \A t \in Session \ {s} : StreamKept(t)
  BY <1>1, <1>2, <1>3, OthersKept
<1>5. SamePush(s)
  BY <1>2 DEF SamePush, Pushing
<1>6. SameStream(s)
  BY <1>1, <1>2, <1>3, <1>5 DEF SameStream, UploadFailed
<1> QED
  BY <1>4, <1>6, SameStreamKept, StreamStutters

(* The loop ends, and with it the stream.                                  *)
LEMMA StreamStop ==
  ASSUME IInv, NEW s \in Session, WorkerStop(s)
  PROVE  Stream!Next
<1> USE DEF IInv
<1>1. /\ worker[s].pc = "test" /\ worker'[s].pc \in {"log", "dead"}
      /\ \A t \in Session \ {s} : worker'[t] = worker[t]
  BY StepEffect DEF WorkerStop
<1>2. /\ UNCHANGED <<sp, call, server>>
      /\ \A t \in Session \ {s} : m_data'[t] = m_data[t]
  BY VariableTypes DEF WorkerStop
<1>3. \A t \in Session \ {s} : StreamKept(t)
  BY <1>1, <1>2, OthersKept
<1>4. Live(s)
  BY <1>1 DEF Control, LiveWhileRunning, LoopLabels
<1>5. Outcome(s) # "over" /\ Outcome(s)' = "over" /\ Delivered(s)' = Delivered(s)
  BY <1>1, <1>2, <1>4 DEF Outcome, Live, Delivered
<1> QED
  BY <1>3, <1>5, NothingPending, StreamEnds

(* What the service has is numbered below what it is about to receive.     *)
LEMMA NotDelivered ==
  ASSUME IInv, OneUtterance, NEW s \in Session, Live(s),
         NEW p \in Packet, p.audio_index >= Received(s)
  PROVE  Numbered(p) \notin Delivered(s)
<1>1. Complete(s) /\ Received(s) \in Nat
  BY CountTypes DEF OneUtterance, Utterance, IInv
<1>2. \A i \in DOMAIN server[s].rcvd :
        /\ server[s].rcvd[i].pkt.audio_index < Received(s)
        /\ server[s].rcvd[i].pkt.audio_index \in Nat
  BY <1>1, SequenceTypes DEF Complete, IInv, Packet
<1>3. p.audio_index \in Nat
  BY DEF Packet
<1> SUFFICES ASSUME NEW i \in DOMAIN server[s].rcvd,
                    Numbered(p) = Numbered(server[s].rcvd[i].pkt)
             PROVE  FALSE
  BY DEF Delivered
<1>4. p.audio_index = server[s].rcvd[i].pkt.audio_index
  BY DEF Numbered
<1> QED
  BY <1>1, <1>2, <1>3, <1>4

(* Until the last packet has been dealt with the outcome is open.          *)
LEMMA BusyOpen ==
  ASSUME IInv, OneUtterance, NEW s \in Session, worker[s].pc \in BusyLabels
  PROVE  Live(s) /\ Utterance(s) /\ Outcome(s) = "open" /\ ~UploadFailed(s)
<1>1. Live(s) /\ Utterance(s)
  BY DEF IInv, Control, LiveWhileRunning, LoopLabels, BusyLabels, PacketLabels, OneUtterance
<1>2. ~UploadFailed(s) /\ ~m_data[s].b_last
  BY <1>1 DEF Utterance, UpToDate, Over
<1>3. worker[s].pc \notin {"log", "dead"}
  BY DEF BusyLabels, PacketLabels
<1> QED
  BY <1>1, <1>2, <1>3 DEF Outcome, Live

(* pop: the packet is still pending, in the thread's hands.                *)
LEMMA StreamPop ==
  ASSUME IInv, Fresh, OneUtterance, NEW s \in Session, WorkerPop(s)
  PROVE  UNCHANGED Stream!stream
<1> USE DEF IInv
<1> DEFINE q == m_data[s].q_buf
           b == Queued(s)
           c == Posting(s)
<1>1. worker[s].pc = "pop" /\ q # <<>>
  BY DEF WorkerPop
<1>2. /\ m_data'[s].q_buf = Tail(q)
      /\ m_data'[s].c_code = m_data[s].c_code
      /\ \A t \in Session \ {s} : m_data'[t] = m_data[t]
      /\ UNCHANGED <<sp, call, server>>
  BY VariableTypes DEF WorkerPop, DataType
<1>3. m_data'[s].b_last = m_data[s].b_last
  BY RecorderAssumption, LastKept
<1>4. /\ worker'[s].pc = "send" /\ worker'[s].pkt = Head(q)
      /\ \A t \in Session \ {s} : worker'[t] = worker[t]
  BY VariableTypes DEF WorkerPop, WorkerType
<1>5. \A t \in Session \ {s} : StreamKept(t)
  BY <1>2, <1>4, OthersKept
<1>6. Live(s) /\ Utterance(s) /\ Outcome(s) = "open" /\ ~UploadFailed(s)
  BY <1>1, BusyOpen DEF BusyLabels
<1>7. /\ Delivered(s)' = Delivered(s) /\ Outcome(s)' = Outcome(s) /\ Posting(s)' = c
  BY <1>1, <1>2, <1>3, <1>4 DEF Delivered, Outcome, UploadFailed, Posting
<1>8. InFlight(s) = <<>>
  BY <1>1 DEF InFlight, Fresh, PacketLabels
<1>9. /\ q \in Seq(Packet) /\ Len(q) \in Nat \ {0} /\ Head(q) = q[1] /\ q[1] \in Packet
      /\ Len(Tail(q)) = Len(q) - 1
      /\ DOMAIN Tail(q) = 1..(Len(q) - 1) /\ DOMAIN q = 1..Len(q)
      /\ \A i \in 1..(Len(q) - 1) : Tail(q)[i] = q[i + 1]
  BY <1>1, UtteranceTypes
<1>10. q[1].audio_index >= Received(s)
  <2>1. Received(s) = Popped(s) /\ Popped(s) \in Int
    BY <1>1, <1>6, CountTypes DEF Utterance, UpToDate, Sending
  <2>2. q[1].audio_index + 1 = Popped(s) + 1
    <3>1. 1 \in DOMAIN q
      BY <1>9
    <3> QED
      BY <1>6, <3>1 DEF Utterance, Placed
  <2>3. q[1].audio_index \in Nat
    BY <1>9 DEF Packet
  <2> QED
    BY <2>1, <2>2, <2>3
<1>11. InFlight(s)' = <<Numbered(q[1])>>
  <2>1. Numbered(q[1]) \notin Delivered(s) /\ q[1] # NULL
    BY <1>6, <1>9, <1>10, NotDelivered, NullAssumption
  <2> QED
    BY <1>4, <1>7, <1>9, <2>1 DEF InFlight
<1>12. /\ b \in Seq(Numbers) /\ c \in Seq(Numbers) /\ Len(b) = Len(q)
  BY PendingTypes
<1>13. /\ b # <<>> /\ Head(b) = Numbered(q[1])
       /\ Queued(s)' = Tail(b)
  <2>1. Queued(s)' = [i \in 1..(Len(q) - 1) |-> Numbered(Tail(q)[i])]
    BY <1>2, <1>9 DEF Queued
  <2>2. \A i \in 1..Len(q) : b[i] = Numbered(q[i])
    BY <1>9 DEF Queued
  <2> HIDE DEF b, q
  <2> DEFINE d == [i \in 1..(Len(q) - 1) |-> Numbered(Tail(q)[i])]
  <2>3. \A i \in 1..(Len(q) - 1) : d[i] = b[i + 1]
    BY <1>9, <2>2
  <2>4. /\ b # <<>> /\ Head(b) = b[1] /\ 1 \in 1..Len(q)
        /\ Tail(b) \in Seq(Numbers) /\ Len(Tail(b)) = Len(q) - 1
        /\ \A i \in 1..(Len(q) - 1) : Tail(b)[i] = b[i + 1]
    BY <1>9, <1>12
  <2>5. d \in Seq(Numbers) /\ Len(d) = Len(q) - 1
    BY <1>9, <1>12, <2>3
  <2> HIDE DEF d
  <2>6. d = Tail(b)
    BY <2>3, <2>4, <2>5, SeqEqual
  <2> QED
    BY <2>1, <2>2, <2>4, <2>6 DEF d
<1>14. Pending(s)' = Pending(s)
  <2>1. /\ Pending(s) = (<<>> \o b) \o c
        /\ Pending(s)' = (<<Numbered(q[1])>> \o Tail(b)) \o c
    BY <1>6, <1>7, <1>8, <1>11, <1>13 DEF Pending
  <2> HIDE DEF b, c
  <2>2. <<>> \o b = b
    BY <1>12, ConcatEmptySeq
  <2>3. <<Head(b)>> \o Tail(b) = b
    BY <1>12, <1>13
  <2> QED
    BY <1>13, <2>1, <2>2, <2>3
<1>15. StreamKept(s)
  BY <1>7, <1>14 DEF StreamKept
<1> QED
  BY <1>5, <1>15, StreamStutters

(* An attempt of PostData: the packet is delivered when the service gets   *)
(* it for the first time.                                                  *)
LEMMA StreamAttempt ==
  ASSUME IInv, Fresh, OneUtterance, NEW s \in Session, NEW replies, NEW otherwise,
         worker[s].pc \in {"send", "retry"}, otherwise \in {"retry", "fail"},
         Attempt(s, replies, otherwise)
  PROVE  Stream!Next \/ UNCHANGED Stream!stream
<1> USE DEF IInv
<1> DEFINE p == worker[s].pkt
           r == server[s].rcvd
           b == Queued(s)
           c == Posting(s)
<1>1. /\ Live(s) /\ p \in Packet
      /\ Sending(s) => Received(s) = p.audio_index
      /\ p.audio_index \in Nat
      /\ ~Sending(s) => r # <<>> /\ LastReceived(s) = p
  BY UploadingState
<1>2. PICK e : /\ e \in [pkt: Packet, cookie: Session \cup {NULL}, addr: Address]
               /\ e.pkt = p
               /\ worker'[s].pkt = p /\ worker'[s].pc \in {"text", "retry", "fail"}
               /\ \A t \in Session \ {s} : worker'[t] = worker[t] /\ server'[t] = server[t]
               /\ server'[s].rcvd \in {r, Append(r, e)}
  <2> DEFINE x == [pkt |-> p, cookie |-> session_id, addr |-> g_configs.m_server_addr]
  <2>1. /\ worker'[s].pkt = p
        /\ \A t \in Session \ {s} : worker'[t] = worker[t] /\ server'[t] = server[t]
        /\ server'[s].home = server[s].home /\ server'[s].told = server[s].told
        /\ \/ /\ server'[s].rcvd = Append(r, x)
              /\ \/ /\ worker'[s].pc = "text" /\ worker'[s].reply \in replies
                    /\ worker'[s].cut = worker[s].cut
                 \/ /\ worker'[s].pc = otherwise /\ worker'[s].cut = TRUE
                    /\ worker'[s].reply = worker[s].reply
           \/ /\ server'[s].rcvd = r
              /\ worker'[s].pc = otherwise /\ worker'[s].cut = worker[s].cut
              /\ worker'[s].reply = worker[s].reply
    BY AttemptEffect
  <2>2. x \in [pkt: Packet, cookie: Session \cup {NULL}, addr: Address] /\ x.pkt = p
    <3>1. session_id \in Session \cup {NULL} /\ g_configs.m_server_addr \in Address
      BY DEF Typed, TypeOK
    <3>2. p \in Packet
      BY <1>1
    <3> HIDE DEF p
    <3> QED
      BY <3>1, <3>2
  <2> HIDE DEF x
  <2> QED
    BY <2>1, <2>2
<1>3. UNCHANGED <<sp, m_data, call>>
  BY DEF Attempt
<1>4. \A t \in Session \ {s} : StreamKept(t)
  BY <1>2, <1>3, OthersKept
<1>5. Outcome(s) = "open"
  BY BusyOpen DEF BusyLabels, PacketLabels
<1>6. Outcome(s)' = "open" /\ Queued(s)' = b /\ Posting(s)' = c
  BY <1>2, <1>3, <1>5 DEF Outcome, UploadFailed, Queued, Posting
<1>7. CASE server'[s].rcvd = r
  <2>1. SameStream(s)
    <3>1. SamePush(s)
      BY <1>3 DEF SamePush, Pushing
    <3>2. (worker'[s].pc \in {"log", "dead"}) = (worker[s].pc \in {"log", "dead"})
      BY <1>2
    <3> QED
      BY <1>2, <1>3, <1>7, <3>1, <3>2 DEF SameStream, UploadFailed
  <2> QED
    BY <1>4, <2>1, SameStreamKept, StreamStutters
<1>8. CASE server'[s].rcvd = Append(r, e)
  <2>1. /\ Len(r) \in Nat /\ DOMAIN r = 1..Len(r) /\ (r = <<>> <=> Len(r) = 0)
        /\ DOMAIN Append(r, e) = 1..(Len(r) + 1)
        /\ \A i \in 1..Len(r) : Append(r, e)[i] = r[i]
        /\ Append(r, e)[Len(r) + 1] = e
    BY <1>2, UtteranceTypes, SequenceTypes
  <2>2. Delivered(s)' = Delivered(s) \cup {Numbered(p)}
    <3> DEFINE D(z) == {Numbered(z[i].pkt) : i \in DOMAIN z}
    <3>1. D(Append(r, e)) = D(r) \cup {Numbered(e.pkt)}
      <4> HIDE DEF r, p
      <4> QED
        BY <2>1
    <3>2. Delivered(s) = D(r) /\ Delivered(s)' = D(server'[s].rcvd)
      BY DEF Delivered
    <3> HIDE DEF D, r, p
    <3> QED
      BY <1>2, <1>8, <3>1, <3>2
  <2>3. InFlight(s)' = <<>>
    BY <1>2, <2>2 DEF InFlight
  <2>4. b \in Seq(Numbers) /\ c \in Seq(Numbers)
    BY PendingTypes
  <2>5. Pending(s)' = b \o c
    <3>1. Pending(s)' = (<<>> \o b) \o c
      BY <1>6, <2>3 DEF Pending
    <3> HIDE DEF b, c
    <3> QED
      BY <2>4, <3>1, ConcatEmptySeq
  <2>6. CASE Sending(s)
    <3>1. InFlight(s) = <<Numbered(p)>>
      <4>1. p.audio_index >= Received(s) /\ p \in Packet
        BY <1>1, <2>6
      <4> HIDE DEF p
      <4>2. Numbered(p) \notin Delivered(s) /\ p # NULL
        BY <1>1, <4>1, NotDelivered, NullAssumption
      <4> QED
        BY <4>2 DEF InFlight, p
    <3>2. Pending(s) = (<<Numbered(p)>> \o b) \o c
      BY <1>5, <3>1 DEF Pending
    <3>3. Numbered(p) \in Numbers
      <4>1. \A x \in Packet : Numbered(x) \in Numbers
        BY DEF Numbered, Numbers, Packet
      <4> QED
        BY <1>1, <4>1
    <3> DEFINE x == Numbered(p)
    <3>4. /\ Pending(s) # <<>> /\ Head(Pending(s)) = x /\ Tail(Pending(s)) = b \o c
      <4> HIDE DEF b, c, x
      <4>1. Pending(s) = <<x>> \o (b \o c)
        BY <2>4, <3>2, <3>3, ConcatAssociative DEF x
      <4>2. b \o c \in Seq(Numbers)
        BY <2>4
      <4> DEFINE d == b \o c
      <4> HIDE DEF d
      <4>3. d \in Seq(Numbers) /\ x \in Numbers
        BY <3>3, <4>2 DEF d, x
      <4>4. /\ <<x>> \o d # <<>> /\ Head(<<x>> \o d) = x /\ Tail(<<x>> \o d) = d
        BY <4>3
      <4> QED
        BY <4>1, <4>4 DEF d
    <3> QED
      BY <1>4, <1>5, <1>6, <2>2, <2>5, <3>4, StreamDelivers
  <2>7. CASE ~Sending(s)
    <3>1. Len(r) \in DOMAIN r /\ r[Len(r)].pkt = p
      BY <1>1, <2>1, <2>7 DEF LastReceived
    <3>2. Numbered(p) \in Delivered(s)
      BY <3>1 DEF Delivered
    <3>3. InFlight(s) = <<>> /\ Delivered(s)' = Delivered(s)
      BY <2>2, <3>2 DEF InFlight
    <3>4. Pending(s) = b \o c
      <4>1. Pending(s) = (<<>> \o b) \o c
        BY <1>5, <3>3 DEF Pending
      <4> HIDE DEF b, c
      <4> QED
        BY <2>4, <4>1, ConcatEmptySeq
    <3>5. StreamKept(s)
      BY <1>5, <1>6, <2>5, <3>3, <3>4 DEF StreamKept
    <3> QED
      BY <1>4, <3>5, StreamStutters
  <2> QED
    BY <2>6, <2>7
<1> QED
  BY <1>2, <1>7, <1>8

(* PostData has been answered: its packet was delivered before.            *)
LEMMA StreamCode ==
  ASSUME IInv, Fresh, OneUtterance, NEW s \in Session, WorkerCode(s)
  PROVE  UNCHANGED Stream!stream
<1> USE DEF IInv
<1>1. /\ worker[s].pc = "code" /\ Finished(s) /\ UNCHANGED <<sp, call, server>>
      /\ m_data'[s].q_buf = m_data[s].q_buf /\ m_data'[s].c_code = "CURLE_OK"
      /\ \A t \in Session \ {s} : m_data'[t] = m_data[t]
  BY VariableTypes DEF WorkerCode, DataType
<1>2. m_data'[s].b_last = m_data[s].b_last
  BY RecorderAssumption, LastKept
<1>3. /\ worker'[s].pkt = NULL /\ worker'[s].pc \in {"test", "last"}
      /\ \A t \in Session \ {s} : worker'[t] = worker[t]
  BY <1>1, FinishedEffect DEF Done
<1>4. \A t \in Session \ {s} : StreamKept(t)
  BY <1>1, <1>3, OthersKept
<1>5. Live(s) /\ Utterance(s) /\ Outcome(s) = "open" /\ ~UploadFailed(s)
  BY <1>1, BusyOpen DEF BusyLabels, PacketLabels
<1>6. /\ Delivered(s)' = Delivered(s) /\ Queued(s)' = Queued(s) /\ Posting(s)' = Posting(s)
      /\ Outcome(s)' = "open"
  BY <1>1, <1>2, <1>3, <1>5 DEF Delivered, Queued, Posting, Outcome, UploadFailed
<1>7. InFlight(s) = <<>> /\ InFlight(s)' = <<>>
  <2>1. /\ worker[s].pkt \in Packet /\ worker[s].pkt \in Known(s)
        /\ worker[s].pkt.audio_index + 1 = Popped(s)
    BY <1>1, UploadedState
  <2>2. Received(s) = Popped(s)
    BY <1>1, <1>5 DEF Utterance, UpToDate, Sending
  <2>3. worker[s].pkt.audio_index \in Nat
    BY <2>1 DEF Packet
  <2>4. worker[s].pkt.audio_index \in 0..(Received(s) - 1)
    BY <2>1, <2>2, <2>3
  <2>5. PICK i \in DOMAIN server[s].rcvd :
          server[s].rcvd[i].pkt.audio_index = worker[s].pkt.audio_index
    BY <1>5, <2>4 DEF Utterance, Complete
  <2>6. server[s].rcvd[i].pkt = worker[s].pkt
    BY <1>5, <2>1, <2>5, KnownPackets DEF Utterance, Ordered
  <2>7. Numbered(worker[s].pkt) \in Delivered(s)
    BY <2>6 DEF Delivered
  <2> QED
    BY <1>3, <2>7 DEF InFlight
<1>8. StreamKept(s)
  BY <1>5, <1>6, <1>7 DEF StreamKept, Pending
<1> QED
  BY <1>4, <1>8, StreamStutters

(* Both attempts failed: so does the stream.                               *)
LEMMA StreamFail ==
  ASSUME IInv, OneUtterance, NEW s \in Session, WorkerFail(s)
  PROVE  Stream!Next
<1> USE DEF IInv
<1>1. /\ worker[s].pc = "fail" /\ Finished(s) /\ UNCHANGED <<sp, call, server>>
      /\ m_data'[s].c_code = "CURLE_FAILED"
      /\ \A t \in Session \ {s} : m_data'[t] = m_data[t]
  BY VariableTypes DEF WorkerFail, DataType
<1>2. /\ worker'[s].pc \in {"test", "last"}
      /\ \A t \in Session \ {s} : worker'[t] = worker[t]
  BY <1>1, FinishedEffect DEF Done
<1>3. \A t \in Session \ {s} : StreamKept(t)
  BY <1>1, <1>2, OthersKept
<1>4. Outcome(s) = "open" /\ Live(s)
  BY <1>1, BusyOpen DEF BusyLabels, PacketLabels
<1>5. Outcome(s)' = "failed" /\ Delivered(s)' = Delivered(s)
  BY <1>1, <1>2, <1>4 DEF Outcome, UploadFailed, Live, Delivered
<1> QED
  BY <1>3, <1>4, <1>5, NothingPending, StreamEnds

(* b_last = true: the stream is complete, unless it failed.                *)
LEMMA StreamLast ==
  ASSUME IInv, Fresh, OneUtterance, NEW s \in Session, WorkerLast(s)
  PROVE  Stream!Next \/ UNCHANGED Stream!stream
<1> USE DEF IInv
<1>1. /\ worker[s].pc = "last" /\ worker'[s].pc = "test" /\ worker'[s].pkt = worker[s].pkt
      /\ \A t \in Session \ {s} : worker'[t] = worker[t]
  BY StepEffect DEF WorkerLast
<1>2. /\ m_data'[s].q_buf = m_data[s].q_buf /\ m_data'[s].b_last = TRUE
      /\ m_data'[s].c_code = m_data[s].c_code
      /\ \A t \in Session \ {s} : m_data'[t] = m_data[t]
      /\ UNCHANGED <<sp, call, server>>
  BY VariableTypes DEF WorkerLast, DataType
<1>3. Live(s) /\ Utterance(s)
  BY <1>1 DEF Control, LiveWhileRunning, LoopLabels, OneUtterance
<1>4. \A t \in Session \ {s} : StreamKept(t)
  BY <1>1, <1>2, OthersKept
<1>5. Delivered(s)' = Delivered(s) /\ UploadFailed(s)' = UploadFailed(s)
  BY <1>2 DEF Delivered, UploadFailed
<1>6. Outcome(s)' = IF UploadFailed(s) THEN "failed" ELSE "complete"
  BY <1>1, <1>2, <1>3, <1>5 DEF Outcome, Live
<1>7. Pending(s)' = <<>>
  BY <1>6, NothingPending
<1>8. CASE UploadFailed(s) \/ m_data[s].b_last
  <2>1. Outcome(s)' = Outcome(s) /\ Outcome(s) # "open"
    BY <1>1, <1>3, <1>6, <1>8 DEF Outcome, Live
  <2>2. StreamKept(s)
    BY <1>5, <1>7, <2>1, NothingPending DEF StreamKept
  <2> QED
    BY <1>4, <2>2, StreamStutters
<1>9. CASE ~UploadFailed(s) /\ ~m_data[s].b_last
  <2>1. Outcome(s) = "open" /\ Outcome(s)' = "complete"
    BY <1>1, <1>3, <1>6, <1>9 DEF Outcome, Live
  <2>2. /\ sp[s].closed /\ m_data[s].q_buf = <<>> /\ ~Pushing(s)
        /\ Counters(s) /\ Stamped(s)
    BY <1>1, <1>3 DEF Utterance, Over
  <2>3. Pending(s) = <<>>
    <3>1. InFlight(s) = <<>>
      BY <1>1 DEF InFlight, Fresh, PacketLabels
    <3>2. Queued(s) = <<>>
      <4>1. Queued(s) \in Seq(Numbers) /\ Len(Queued(s)) = 0
        BY <2>2, PendingTypes, SequenceTypes
      <4> QED
        BY <4>1
    <3>3. Posting(s) = <<>>
      BY <2>2 DEF Posting, Pushing
    <3>4. (<<>> \o <<>>) \o <<>> = <<>>
      BY ConcatEmptySeq
    <3> QED
      BY <2>1, <3>1, <3>2, <3>3, <3>4 DEF Pending
  <2>4. Received(s) = Popped(s)
    BY <1>1, <1>3, <1>9 DEF Utterance, UpToDate, Sending
  <2>5. Popped(s) = sp[s].m_audio_index
    <3>1. Len(m_data[s].q_buf) = 0 /\ sp[s].m_audio_index \in Nat
      BY <2>2, SequenceTypes, UtteranceTypes
    <3> QED
      BY <2>2, <3>1 DEF Popped
  <2>6. Received(s) > 0
    BY <2>2, <2>4, <2>5 DEF Counters
  <2>7. /\ LastReceived(s) \in Known(s) /\ LastReceived(s).b_Last
        /\ Len(server[s].rcvd) \in DOMAIN server[s].rcvd
    BY <2>2, <2>4, <2>5, <2>6, CountTypes DEF Stamped
  <2>8. Numbered(LastReceived(s)) \in Delivered(s) /\ Numbered(LastReceived(s)).last
    BY <2>7 DEF Delivered, LastReceived, Numbered
  <2> QED
    BY <1>4, <1>5, <1>7, <2>1, <2>3, <2>8, StreamCompletes
<1> QED
  BY <1>8, <1>9

-----------------------------------------------------------------------------
(* The refinement.                                                         *)

(* Nothing has been accepted, and nothing is known.                        *)
LEMMA StreamInit == Init => Stream!Init
<1> SUFFICES ASSUME Init PROVE Stream!Init
  OBVIOUS
<1>1. ASSUME NEW s \in Session
      PROVE  Delivered(s) = {} /\ Pending(s) = <<>> /\ Outcome(s) = "open"
  <2>1. /\ server[s].rcvd = <<>> /\ worker[s].pc = "none" /\ worker[s].pkt = NULL
        /\ sp[s].state = "unused" /\ m_data[s] = NewData
    BY DEF Init, NoParam, NewParam
  <2>2. call[Recorder].pc = "idle"
    BY RecorderAssumption DEF Init, Idle
  <2>3. NewData.q_buf = <<>> /\ NewData.b_last = FALSE /\ NewData.c_code = "CURLE_OK"
    BY DEF NewData
  <2>4. Delivered(s) = {}
    BY <2>1 DEF Delivered
  <2>5. Outcome(s) = "open"
    BY <2>1, <2>3 DEF Outcome, UploadFailed
  <2>6. InFlight(s) = <<>> /\ Posting(s) = <<>>
    BY <2>1, <2>2 DEF InFlight, Posting
  <2>7. Queued(s) = <<>>
    BY <2>1, <2>3 DEF Queued
  <2>8. (<<>> \o <<>>) \o <<>> = <<>>
    BY ConcatEmptySeq
  <2> QED
    BY <2>4, <2>5, <2>6, <2>7, <2>8 DEF Pending
<1> QED
  BY <1>1 DEF Stream!Init

(* Every step is one of the stream's, or none.                             *)
LEMMA StreamStep ==
  ASSUME ~ReuseSession, IInv, Fresh, OneUtterance, [Next]_vars
  PROVE  Stream!Next \/ UNCHANGED Stream!stream
<1>1. CASE CloudVDInit \/ CloudVDInitRefused \/ CloudVDFini \/ UNCHANGED vars
  <2>1. UNCHANGED <<sp, m_data, worker, call, server>>
    BY <1>1 DEF CloudVDInit, CloudVDInitRefused, CloudVDFini, vars
  <2>2. \A t \in Session : StreamKept(t)
    BY <2>1, ElsewhereKept DEF SamePush, Pushing
  <2> QED
    BY <2>2, StreamStutters
<1>2. ASSUME NEW c \in Caller, CallStep(c)
      PROVE  Stream!Next \/ UNCHANGED Stream!stream
  <2>1. CASE BeginFailed(c) \/ SpawnFailed(c) \/ ThreadStarted(c)
    BY <2>1, StreamBegin
  <2>2. CASE BeginReplied(c)
    BY <2>2, StreamBeginReplied
  <2>3. CASE SpawnThread(c)
    BY <2>3, StreamSpawnThread
  <2>4. CASE PushLock(c) \/ Join(c)
    BY <2>4, StreamQuietCall
  <2>5. CASE PushUnlock(c)
    BY <2>5, StreamPushUnlock
  <2>6. CASE PollDone(c) \/ PollFailed(c)
    BY <2>6, StreamPolled
  <2>7. CASE SessionEnd(c)
    BY <2>7, StreamSessionEnd
  <2>8. CASE Release(c)
    BY <2>8, StreamRelease
  <2> QED
    BY <1>2, <2>1, <2>2, <2>3, <2>4, <2>5, <2>6, <2>7, <2>8 DEF CallStep
<1>3. ASSUME NEW c \in Caller, AppStep(c)
      PROVE  Stream!Next \/ UNCHANGED Stream!stream
  <2>1. CASE CopyResult(c)
    BY <2>1, StreamQuietCall
  <2>2. ASSUME NEW s \in Session, StartSession(c, s)
        PROVE  Stream!Next \/ UNCHANGED Stream!stream
    BY <2>2, StreamStartSession
  <2>3. ASSUME NEW s \in Session, PostData(c, s)
        PROVE  Stream!Next \/ UNCHANGED Stream!stream
    BY <2>3, StreamPostData
  <2>4. ASSUME NEW s \in Session,
               \/ PostBuffered(c, s) \/ GetPartialResult(c, s) \/ GetFinalResult(c, s)
               \/ EndSession(c, s)
        PROVE  Stream!Next \/ UNCHANGED Stream!stream
    BY <2>4, StreamQuietApp
  <2> QED
    BY <1>3, <2>1, <2>2, <2>3, <2>4 DEF AppStep
<1>4. ASSUME NEW s \in Session, WorkerStep(s)
      PROVE  Stream!Next \/ UNCHANGED Stream!stream
  <2>1. CASE \/ WorkerStart(s) \/ WorkerTest(s) \/ WorkerLog(s) \/ WorkerPeek(s)
             \/ WorkerLock(s) \/ WorkerText(s)
    BY <2>1, StreamQuietWorker
  <2>2. CASE WorkerStop(s)
    BY <2>2, StreamStop
  <2>3. CASE WorkerPop(s)
    BY <2>3, StreamPop
  <2>4. CASE WorkerSend(s) \/ WorkerRetry(s)
    <3>1. PICK replies, otherwise : /\ otherwise \in {"retry", "fail"}
                                    /\ worker[s].pc \in {"send", "retry"}
                                    /\ Attempt(s, replies, otherwise)
      BY <2>4 DEF WorkerSend, WorkerRetry
    <3> QED
      BY <3>1, StreamAttempt
  <2>5. CASE WorkerCode(s)
    BY <2>5, StreamCode
  <2>6. CASE WorkerFail(s)
    BY <2>6, StreamFail
  <2>7. CASE WorkerLast(s)
    BY <2>7, StreamLast
  <2> QED
    BY <1>4, <2>1, <2>2, <2>3, <2>4, <2>5, <2>6, <2>7 DEF WorkerStep
<1> QED
  BY <1>1, <1>2, <1>3, <1>4 DEF Next

(* VcyberVoiceSDK.cpp keeps the promise of AudioStream to every session of *)
(* one utterance: packets numbered as they are posted reach the service in *)
(* that order, each after all before it, until an upload fails or the      *)
(* session is over, and the upload is complete only with the last of them. *)
THEOREM StreamImplemented ==
  ASSUME ~ReuseSession
  PROVE  Spec => ImplementsAudioStream
<1>1. IInv /\ Fresh /\ OneUtterance /\ [Next]_vars => [Stream!Next]_(Stream!stream)
  BY StreamStep
<1> QED
  BY <1>1, StreamInit, Invariant, FreshData, PacketsOfTheUtterance, PTL
    DEF Spec, ImplementsAudioStream, Stream!Spec

=============================================================================
