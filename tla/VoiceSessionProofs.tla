------------------------- MODULE VoiceSessionProofs -------------------------
(***************************************************************************)
(* What holds of VoiceSession for any number of sessions, callers, servers *)
(* and posts, with sessions overlapping or not, and whatever the           *)
(* application does with a handle: the invariant IInv of VoiceInvariant    *)
(* is inductive, and four properties of the runs follow from it.           *)
(*                                                                         *)
(* IInv has two halves.  Typed is preserved on its own (the Typed lemmas,  *)
(* one for each action); Control, about labels, flags, the mutex and life  *)
(* times, is preserved where IInv holds (the Control lemmas).              *)
(***************************************************************************)
EXTENDS VoiceInvariant, TLAPS

USE DEF library

-----------------------------------------------------------------------------
(* Typing.                                                                 *)

(* The types of the arrays, as facts that do not need TypeOK expanded.     *)
LEMMA VariableTypes ==
  ASSUME Typed
  PROVE  /\ sp \in [Session -> ParamType]
         /\ m_data \in [Session -> DataType]
         /\ worker \in [Session -> WorkerType]
         /\ call \in [Caller -> CallType]
         /\ server \in [Session -> ServerType]
BY DEF Typed, TypeOK

(* Records of the two structures with some members written.                *)
LEMMA ParamUpdate ==
  ASSUME NEW d \in ParamType, NEW n \in Nat, NEW code \in Code, NEW ok \in BOOLEAN
  PROVE  [d EXCEPT !.m_packet_id = n, !.m_state = IF ok THEN @ ELSE code,
                   !.start = IF ok THEN @ ELSE code] \in ParamType
BY DEF ParamType

(* The flags as CloudVDStartSession sets them.                             *)
LEMMA DataUpdate ==
  ASSUME NEW d \in DataType
  PROVE  [d EXCEPT !.b_start = FALSE, !.b_run = TRUE, !.b_last = FALSE,
                   !.c_code = "CURLE_OK"] \in DataType
<1>1. "CURLE_OK" \in CCode
  BY DEF CCode
<1> QED
  BY <1>1 DEF DataType

(* A call returns.                                                         *)
LEMMA ReturnTyped ==
  ASSUME Typed, NEW c \in Caller, Return(c)
  PROVE  call' \in [Caller -> CallType] /\ CallTyped'
<1>1. call' = [call EXCEPT ![c] = Idle] /\ Idle \in CallType /\ Idle.pc = "idle"
  BY DEF Return, Idle, CallType, CallLabels, Code
<1> QED
  BY <1>1 DEF Typed, TypeOK, CallTyped

(* A call begins.                                                          *)
LEMMA EnterTyped ==
  ASSUME Typed, NEW c \in Caller, NEW r \in CallType, r.s \in Session,
         r.pc \in {"push", "pushing"} => r.pkt \in Packet,
         call' = [call EXCEPT ![c] = r]
  PROVE  call' \in [Caller -> CallType] /\ CallTyped'
BY DEF Typed, TypeOK, CallTyped

(* A call goes on.                                                         *)
LEMMA GotoTyped ==
  ASSUME Typed, NEW c \in Caller, NEW label \in CallLabels, Goto(c, label),
         call[c].pc # "idle",
         label \in {"push", "pushing"} => call[c].pkt \in Packet
  PROVE  call' \in [Caller -> CallType] /\ CallTyped'
<1> DEFINE r == [call[c] EXCEPT !.pc = label]
<1>1. r \in CallType /\ r.s = call[c].s /\ r.pc = label /\ r.pkt = call[c].pkt
  BY DEF Typed, TypeOK, CallType
<1>2. r.s \in Session
  BY <1>1 DEF Typed, CallTyped
<1>3. call' = [call EXCEPT ![c] = r]
  BY DEF Goto
<1> HIDE DEF r
<1> QED
  BY <1>1, <1>2, <1>3, EnterTyped

(* An upload thread's record may be replaced by any well-formed one.       *)
LEMMA WorkerUpdateTyped ==
  ASSUME Typed, NEW s \in Session, NEW w \in WorkerType,
         w.pc \in PacketLabels => w.pkt \in Packet,
         w.pc \in {"text", "code"} => w.reply \in Reply,
         worker' = [worker EXCEPT ![s] = w]
  PROVE  worker' \in [Session -> WorkerType] /\ WorkerTyped'
BY DEF Typed, TypeOK, WorkerTyped

(* An upload thread goes to a label where it needs no more than it has.    *)
LEMMA WorkerGotoTyped ==
  ASSUME Typed, NEW s \in Session, NEW from, NEW to \in WorkerLabels, Step(s, from, to),
         to \in PacketLabels => from \in PacketLabels,
         to \in {"text", "code"} => from \in {"text", "code"}
  PROVE  worker' \in [Session -> WorkerType] /\ WorkerTyped'
<1> DEFINE w == [worker[s] EXCEPT !.pc = to]
<1>1. /\ w \in WorkerType /\ w.pc = to
      /\ w.pkt = worker[s].pkt /\ w.reply = worker[s].reply
  BY DEF Typed, TypeOK, WorkerType
<1>2. worker' = [worker EXCEPT ![s] = w] /\ worker[s].pc = from
  BY DEF Step
<1> HIDE DEF w
<1> QED
  BY <1>1, <1>2, WorkerUpdateTyped DEF Typed, WorkerTyped

(* PostData has returned.                                                  *)
LEMMA FinishedTyped ==
  ASSUME Typed, NEW s \in Session, worker[s].pkt \in Packet, Finished(s)
  PROVE  worker' \in [Session -> WorkerType] /\ WorkerTyped'
<1> DEFINE w == [pc |-> Done(worker[s].pkt), pkt |-> NULL, reply |-> NULL, cut |-> FALSE]
<1>1. w \in WorkerType /\ w.pc \in {"last", "test"}
  BY DEF Done, WorkerType, WorkerLabels, LoopLabels
<1>2. worker' = [worker EXCEPT ![s] = w]
  BY DEF Finished, Typed, TypeOK
<1> HIDE DEF w
<1> QED
  BY <1>1, <1>2, WorkerUpdateTyped DEF PacketLabels

(* Both attempts of PostData.                                              *)
LEMMA AttemptTyped ==
  ASSUME Typed, NEW s \in Session, NEW replies \in SUBSET Reply,
         NEW otherwise \in {"retry", "fail"}, worker[s].pkt \in Packet,
         Attempt(s, replies, otherwise)
  PROVE  /\ worker' \in [Session -> WorkerType] /\ WorkerTyped'
         /\ server' \in [Session -> ServerType]
<1> DEFINE e  == [pkt |-> worker[s].pkt, cookie |-> session_id,
                  addr |-> g_configs.m_server_addr]
           R  == [pkt: Packet, cookie: Session \cup {NULL}, addr: Address]
           q  == Append(server[s].rcvd, e)
<1>0. worker[s] \in WorkerType /\ worker \in [Session -> WorkerType]
  BY DEF Typed, TypeOK
<1>1. q \in Seq(R)
  <2>1. server[s].rcvd \in Seq(R)
    BY DEF Typed, TypeOK, ServerType
  <2>2. e \in R
    BY DEF Typed, TypeOK
  <2> QED
    BY <2>1, <2>2
<1>2. server' = server \/ server' = [server EXCEPT ![s].rcvd = q]
  BY DEF Attempt, Upload
<1>3. server' \in [Session -> ServerType]
  <2>1. server \in [Session -> ServerType] /\ server[s] \in ServerType
    BY VariableTypes
  <2> DEFINE r == [server[s] EXCEPT !.rcvd = q]
  <2> HIDE DEF q
  <2>2. r \in ServerType
    BY <1>1, <2>1 DEF ServerType
  <2>3. server' = server \/ server' = [server EXCEPT ![s] = r]
    BY <1>2, <2>1
  <2> HIDE DEF r
  <2> QED
    BY <2>1, <2>2, <2>3
<1> DEFINE Replaced == \E w \in WorkerType :
        /\ worker' = [worker EXCEPT ![s] = w]
        /\ w.pkt = worker[s].pkt
        /\ w.pc \in {"text", "code"} => w.reply \in Reply
<1>4. Replaced
  <2>1. ASSUME NEW r \in replies,
               worker' = [worker EXCEPT ![s].pc = "text", ![s].reply = r]
        PROVE  Replaced
    <3>1. [worker[s] EXCEPT !.pc = "text", !.reply = r] \in WorkerType
      BY <1>0 DEF WorkerType, WorkerLabels, LoopLabels
    <3> QED
      BY <1>0, <2>1, <3>1 DEF WorkerType
  <2>2. ASSUME worker' = [worker EXCEPT ![s].pc = otherwise, ![s].cut = TRUE]
        PROVE  Replaced
    <3>1. [worker[s] EXCEPT !.pc = otherwise, !.cut = TRUE] \in WorkerType
      BY <1>0 DEF WorkerType, WorkerLabels, LoopLabels
    <3> QED
      BY <1>0, <2>2, <3>1 DEF WorkerType
  <2>3. ASSUME worker' = [worker EXCEPT ![s].pc = otherwise]
        PROVE  Replaced
    <3>1. [worker[s] EXCEPT !.pc = otherwise] \in WorkerType
      BY <1>0 DEF WorkerType, WorkerLabels, LoopLabels
    <3> QED
      BY <1>0, <2>3, <3>1 DEF WorkerType
  <2> QED
    BY <2>1, <2>2, <2>3 DEF Attempt
<1> QED
  BY <1>3, <1>4, WorkerUpdateTyped

(* The initial states are typed.                                           *)
LEMMA TypedInit == Init => Typed
<1> SUFFICES ASSUME Init PROVE Typed
  OBVIOUS
<1>1. ready \in BOOLEAN /\ g_configs \in [b_log: BOOLEAN, m_server_addr: Address]
  BY DEF Init, Address
<1>2. /\ p_Timelog \in {"open", NULL}
      /\ session_id \in Session \cup {NULL}
      /\ curl \in Session \cup {NULL}
      /\ easy \in SUBSET Session
      /\ seq_lock \in Session \cup Caller \cup {NULL}
  BY DEF Init
<1>3. sp \in [Session -> ParamType]
  BY DEF Init, NoParam, NewParam, ParamType, Code
<1>4. m_data \in [Session -> DataType]
  BY DEF Init, NewData, DataType, Code, CCode
<1>5. worker \in [Session -> WorkerType]
  BY DEF Init, WorkerType, WorkerLabels
<1>6. call \in [Caller -> CallType]
  BY DEF Init, Idle, CallType, CallLabels, Code
<1>7. server \in [Session -> ServerType]
  BY DEF Init, ServerType, Address
<1>8. CallTyped /\ WorkerTyped
  BY DEF Init, CallTyped, WorkerTyped, Idle, PacketLabels
<1> QED
  BY <1>1, <1>2, <1>3, <1>4, <1>5, <1>6, <1>7, <1>8 DEF TypeOK, Typed

(* CloudVDInit, refused or not, writes the configuration and opens the log. *)
LEMMA ConfigureTyped ==
  ASSUME Typed, NEW log \in LogModes, NEW addr \in Address, Configure(log, addr)
  PROVE  /\ g_configs' \in [b_log: BOOLEAN, m_server_addr: Address]
         /\ p_Timelog' \in {"open", NULL}
<1>1. log \in BOOLEAN
  BY LogModesAssumption
<1> QED
  BY <1>1 DEF Configure, Typed, TypeOK

(* CloudVDInit keeps the types.                                            *)
LEMMA TypedCloudVDInit ==
  ASSUME Typed, CloudVDInit \/ CloudVDInitRefused
  PROVE  Typed'
<1>1. PICK log \in LogModes, addr \in Address : Configure(log, addr)
  BY DEF CloudVDInit, CloudVDInitRefused, Address
<1>2. /\ g_configs' \in [b_log: BOOLEAN, m_server_addr: Address]
      /\ p_Timelog' \in {"open", NULL}
  BY <1>1, ConfigureTyped
<1>3. /\ ready' \in BOOLEAN
      /\ UNCHANGED <<session_id, curl, easy, seq_lock, sp, m_data, worker, call, server>>
  BY DEF CloudVDInit, CloudVDInitRefused, Typed, TypeOK
<1> QED
  BY <1>2, <1>3 DEF Typed, TypeOK, CallTyped, WorkerTyped

(* CloudVDFini closes the log and cleans up the easy handle.               *)
LEMMA TypedCloudVDFini ==
  ASSUME Typed, CloudVDFini
  PROVE  Typed'
BY DEF CloudVDFini, CleanupCurl, Typed, TypeOK, CallTyped, WorkerTyped

(* A step that changes nothing keeps the types.                            *)
LEMMA TypedStutter ==
  ASSUME Typed, UNCHANGED vars
  PROVE  Typed'
BY DEF vars, Typed, TypeOK, CallTyped, WorkerTyped

(* Every step keeps the types.                                             *)
LEMMA TypedStartSession ==
  ASSUME Typed, NEW c \in Caller, NEW s \in Session, StartSession(c, s)
  PROVE  Typed'
<1>1. call' \in [Caller -> CallType] /\ CallTyped'
  <2>1. [Idle EXCEPT !.pc = "begin", !.s = s] \in CallType
    BY DEF Idle, CallType, CallLabels, Code
  <2> QED
    BY <2>1, EnterTyped DEF StartSession, Idle
<1>2. sp' \in [Session -> ParamType]
  BY VariableTypes DEF StartSession, ParamType, Code, NewParam
<1>3. m_data' \in [Session -> DataType]
  BY VariableTypes DEF StartSession, DataType, Code, CCode, NewData
<1>4. curl' \in Session \cup {NULL} /\ easy' \in SUBSET Session
  BY DEF StartSession, Typed, TypeOK
<1> QED
  BY <1>1, <1>2, <1>3, <1>4 DEF StartSession, Typed, TypeOK, CallTyped, WorkerTyped

(* BeginFailed keeps the types.                                            *)
LEMMA TypedBeginFailed ==
  ASSUME Typed, NEW c \in Caller, BeginFailed(c)
  PROVE  Typed'
<1>1. call[c].s \in Session
  BY DEF BeginFailed, Typed, CallTyped
<1>2. call' \in [Caller -> CallType] /\ CallTyped'
  BY ReturnTyped DEF BeginFailed
<1>3. sp' \in [Session -> ParamType]
  BY <1>1, VariableTypes DEF BeginFailed, ParamType, Code
<1> QED
  BY <1>1, <1>2, <1>3 DEF BeginFailed, Typed, TypeOK, CallTyped, WorkerTyped

(* BeginReplied keeps the types.                                           *)
LEMMA TypedBeginReplied ==
  ASSUME Typed, NEW c \in Caller, BeginReplied(c)
  PROVE  Typed'
<1>1. call[c].s \in Session
  BY DEF BeginReplied, Typed, CallTyped
<1>2. Resolve(g_configs.m_server_addr) \subseteq Address
  BY DEF Typed, TypeOK, Resolve, Address
<1>3. call' \in [Caller -> CallType] /\ CallTyped'
  BY ReturnTyped, GotoTyped DEF BeginReplied, CallLabels
<1>4. sp' \in [Session -> ParamType]
  <2> DEFINE s == call[c].s
             n == (sp[s].m_packet_id + 1) + 1
             p(ok) == [sp[s] EXCEPT !.m_packet_id = n,
                                    !.m_state = IF ok THEN @ ELSE "ERR_SERVER",
                                    !.start = IF ok THEN @ ELSE "ERR_SERVER"]
  <2>1. n \in Nat /\ sp[s] \in ParamType /\ "ERR_SERVER" \in Code
    BY <1>1, VariableTypes DEF ParamType, Code
  <2>2. PICK ok \in BOOLEAN : sp' = [sp EXCEPT ![s] = p(ok)]
    BY ZenonT(30) DEF BeginReplied
  <2>3. p(ok) \in ParamType
    BY <2>1, ParamUpdate
  <2> HIDE DEF p
  <2> QED
    BY <1>1, <2>2, <2>3, VariableTypes
<1>5. server' \in [Session -> ServerType]
  <2>1. server' = server \/ \E addr \in Address : server' = [server EXCEPT ![call[c].s].home = addr]
    BY <1>2 DEF BeginReplied
  <2> QED
    BY <1>1, <2>1, VariableTypes DEF ServerType
<1>6. session_id' \in Session \cup {NULL} /\ g_configs' \in [b_log: BOOLEAN, m_server_addr: Address]
  BY <1>1, <1>2 DEF BeginReplied, Typed, TypeOK, CookieOf
<1> QED
  BY <1>1, <1>2, <1>3, <1>4, <1>5, <1>6 DEF BeginReplied, Typed, TypeOK, CallTyped, WorkerTyped

(* SpawnThread keeps the types.                                            *)
LEMMA TypedSpawnThread ==
  ASSUME Typed, NEW c \in Caller, SpawnThread(c)
  PROVE  Typed'
<1>1. call[c].s \in Session
  BY DEF SpawnThread, Typed, CallTyped
<1>2. call' \in [Caller -> CallType] /\ CallTyped'
  BY GotoTyped DEF SpawnThread, CallLabels, Typed, CallTyped
<1>3. m_data' \in [Session -> DataType]
  <2> DEFINE r == [m_data[call[c].s] EXCEPT !.b_start = FALSE, !.b_run = TRUE,
                                  !.b_last = FALSE, !.c_code = "CURLE_OK"]
  <2>1. r \in DataType
    BY <1>1, VariableTypes, DataUpdate
  <2>2. m_data' = [m_data EXCEPT ![call[c].s] = r]
    BY DEF SpawnThread
  <2> HIDE DEF r
  <2> QED
    BY <2>1, <2>2, VariableTypes
<1>4. worker' \in [Session -> WorkerType] /\ WorkerTyped'
  <2> DEFINE w == [worker[call[c].s] EXCEPT !.pc = "created"]
  <2>1. w \in WorkerType /\ w.pc = "created"
    BY <1>1, VariableTypes DEF WorkerType, WorkerLabels
  <2>2. worker' = [worker EXCEPT ![call[c].s] = w]
    BY DEF SpawnThread
  <2> HIDE DEF w
  <2> QED
    BY <1>1, <2>1, <2>2, WorkerUpdateTyped DEF PacketLabels
<1> QED
  BY <1>1, <1>2, <1>3, <1>4 DEF SpawnThread, Typed, TypeOK, CallTyped, WorkerTyped

(* SpawnFailed keeps the types.                                            *)
LEMMA TypedSpawnFailed ==
  ASSUME Typed, NEW c \in Caller, SpawnFailed(c)
  PROVE  Typed'
<1>1. call[c].s \in Session
  BY DEF SpawnFailed, Typed, CallTyped
<1>2. call' \in [Caller -> CallType] /\ CallTyped'
  BY ReturnTyped DEF SpawnFailed
<1>3. sp' \in [Session -> ParamType]
  BY <1>1, VariableTypes DEF SpawnFailed, ParamType, Code
<1> QED
  BY <1>1, <1>2, <1>3 DEF SpawnFailed, Typed, TypeOK, CallTyped, WorkerTyped

(* ThreadStarted keeps the types.                                          *)
LEMMA TypedThreadStarted ==
  ASSUME Typed, NEW c \in Caller, ThreadStarted(c)
  PROVE  Typed'
<1>1. call[c].s \in Session
  BY DEF ThreadStarted, Typed, CallTyped
<1>2. call' \in [Caller -> CallType] /\ CallTyped'
  BY ReturnTyped DEF ThreadStarted
<1>3. sp' \in [Session -> ParamType]
  BY SMTT(60), <1>1, VariableTypes DEF ThreadStarted, ParamType, Code
<1> QED
  BY <1>1, <1>2, <1>3 DEF ThreadStarted, Typed, TypeOK, CallTyped, WorkerTyped

(* PostBuffered keeps the types.                                           *)
LEMMA TypedPostBuffered ==
  ASSUME Typed, NEW c \in Caller, NEW s \in Session, PostBuffered(c, s)
  PROVE  Typed'
<1>1. sp[s].posts + 1 \in Nat
  BY VariableTypes DEF ParamType
<1>2. sp' \in [Session -> ParamType]
  <2> DEFINE r == [sp[s] EXCEPT !.posts = sp[s].posts + 1, !.closed = FALSE]
  <2>1. r \in ParamType
    BY <1>1, VariableTypes DEF ParamType
  <2>2. sp' = [sp EXCEPT ![s] = r]
    BY DEF PostBuffered
  <2> HIDE DEF r
  <2> QED
    BY <2>1, <2>2, VariableTypes
<1> QED
  BY <1>1, <1>2 DEF PostBuffered, Typed, TypeOK, CallTyped, WorkerTyped

(* PostData keeps the types.                                               *)
LEMMA TypedPostData ==
  ASSUME Typed, NEW c \in Caller, NEW s \in Session, PostData(c, s)
  PROVE  Typed'
<1>1. call' \in [Caller -> CallType] /\ CallTyped'
  <2>1. \A last \in BOOLEAN : PacketOf(s, last) \in Packet
    BY DEF PacketOf, Packet, NextIndex, Typed, TypeOK, ParamType
  <2>2. \A p \in Packet : [Idle EXCEPT !.pc = "push", !.s = s, !.pkt = p] \in CallType
    BY DEF Idle, CallType, CallLabels, Code
  <2> QED
    BY <2>1, <2>2, EnterTyped DEF PostData, Idle
<1>2. sp' \in [Session -> ParamType]
  BY VariableTypes DEF PostData, ParamType, Code, NextIndex
<1> QED
  BY <1>1, <1>2 DEF PostData, Typed, TypeOK, CallTyped, WorkerTyped

(* PushLock keeps the types.                                               *)
LEMMA TypedPushLock ==
  ASSUME Typed, NEW c \in Caller, PushLock(c)
  PROVE  Typed'
<1>1. call' \in [Caller -> CallType] /\ CallTyped'
  BY GotoTyped DEF PushLock, CallLabels, Typed, CallTyped
<1> QED
  BY <1>1 DEF PushLock, Typed, TypeOK, CallTyped, WorkerTyped

(* PushUnlock keeps the types.                                             *)
LEMMA TypedPushUnlock ==
  ASSUME Typed, NEW c \in Caller, PushUnlock(c)
  PROVE  Typed'
<1>1. call' \in [Caller -> CallType] /\ CallTyped'
  BY ReturnTyped DEF PushUnlock
<1>2. m_data' \in [Session -> DataType]
  <2> DEFINE q == Append(m_data[call[c].s].q_buf, call[c].pkt)
  <2>1. call[c].s \in Session /\ call[c].pkt \in Packet
    BY DEF PushUnlock, Typed, CallTyped
  <2>2. q \in Seq(Packet)
    <3>1. m_data[call[c].s].q_buf \in Seq(Packet)
      BY <2>1 DEF Typed, TypeOK, DataType
    <3> QED
      BY <2>1, <3>1
  <2>3. m_data' = [m_data EXCEPT ![call[c].s].q_buf = q]
    BY DEF PushUnlock, Enqueue
  <2> HIDE DEF q
  <2> QED
    BY ZenonT(30), <2>2, <2>3 DEF Typed, TypeOK, DataType
<1> QED
  BY <1>1, <1>2 DEF PushUnlock, Typed, TypeOK, CallTyped, WorkerTyped

(* GetPartialResult keeps the types.                                       *)
LEMMA TypedGetPartialResult ==
  ASSUME Typed, NEW c \in Caller, NEW s \in Session, GetPartialResult(c, s)
  PROVE  Typed'
<1>1. call' \in [Caller -> CallType] /\ CallTyped'
  <2>1. \A code \in Code : [Idle EXCEPT !.pc = "holding", !.s = s, !.ret = code] \in CallType
    BY DEF Idle, CallType, CallLabels, Code
  <2> QED
    BY <2>1, EnterTyped DEF GetPartialResult, Hold, ResultCode, Idle, Code
<1> QED
  BY <1>1 DEF GetPartialResult, Typed, TypeOK, CallTyped, WorkerTyped

(* GetFinalResult keeps the types.                                         *)
LEMMA TypedGetFinalResult ==
  ASSUME Typed, NEW c \in Caller, NEW s \in Session, GetFinalResult(c, s)
  PROVE  Typed'
<1>1. call' \in [Caller -> CallType] /\ CallTyped'
  <2>1. [Idle EXCEPT !.pc = "poll", !.s = s] \in CallType
    BY DEF Idle, CallType, CallLabels, Code
  <2> QED
    BY <2>1, EnterTyped DEF GetFinalResult, Idle
<1> QED
  BY <1>1 DEF GetFinalResult, Typed, TypeOK, CallTyped, WorkerTyped

(* PollDone keeps the types.                                               *)
LEMMA TypedPollDone ==
  ASSUME Typed, NEW c \in Caller, PollDone(c)
  PROVE  Typed'
<1>1. call[c].s \in Session
  BY DEF PollDone, Typed, CallTyped
<1>2. call' \in [Caller -> CallType] /\ CallTyped'
  <2>1. \A code \in Code : [Idle EXCEPT !.pc = "holding", !.s = call[c].s, !.ret = code] \in CallType
    BY <1>1 DEF Idle, CallType, CallLabels, Code
  <2> QED
    BY <1>1, <2>1, EnterTyped DEF PollDone, Hold, ResultCode, Idle, Code
<1> QED
  BY <1>1, <1>2 DEF PollDone, Typed, TypeOK, CallTyped, WorkerTyped

(* PollFailed keeps the types.                                             *)
LEMMA TypedPollFailed ==
  ASSUME Typed, NEW c \in Caller, PollFailed(c)
  PROVE  Typed'
<1>1. call[c].s \in Session
  BY DEF PollFailed, Typed, CallTyped
<1>2. call' \in [Caller -> CallType] /\ CallTyped'
  <2>1. \A code \in Code : [Idle EXCEPT !.pc = "holding", !.s = call[c].s, !.ret = code] \in CallType
    BY <1>1 DEF Idle, CallType, CallLabels, Code
  <2> QED
    BY <1>1, <2>1, EnterTyped DEF PollFailed, Hold, ResultCode, Idle, Code
<1> QED
  BY <1>1, <1>2 DEF PollFailed, Typed, TypeOK, CallTyped, WorkerTyped

(* CopyResult keeps the types.                                             *)
LEMMA TypedCopyResult ==
  ASSUME Typed, NEW c \in Caller, CopyResult(c)
  PROVE  Typed'
<1>1. call' \in [Caller -> CallType] /\ CallTyped'
  BY ReturnTyped DEF CopyResult
<1> QED
  BY <1>1 DEF CopyResult, Typed, TypeOK, CallTyped, WorkerTyped

(* EndSession keeps the types.                                             *)
LEMMA TypedEndSession ==
  ASSUME Typed, NEW c \in Caller, NEW s \in Session, EndSession(c, s)
  PROVE  Typed'
<1>1. call' \in [Caller -> CallType] /\ CallTyped'
  <2>1. [Idle EXCEPT !.pc = "join", !.s = s] \in CallType
    BY DEF Idle, CallType, CallLabels, Code
  <2> QED
    BY <2>1, EnterTyped DEF EndSession, Idle
<1>2. m_data' \in [Session -> DataType]
  BY ZenonT(30), VariableTypes DEF EndSession, DataType, Code, CCode
<1> QED
  BY <1>1, <1>2 DEF EndSession, Typed, TypeOK, CallTyped, WorkerTyped

(* Join keeps the types.                                                   *)
LEMMA TypedJoin ==
  ASSUME Typed, NEW c \in Caller, Join(c)
  PROVE  Typed'
<1>1. call' \in [Caller -> CallType] /\ CallTyped'
  BY GotoTyped DEF Join, CallLabels, Typed, CallTyped
<1> QED
  BY <1>1 DEF Join, Typed, TypeOK, CallTyped, WorkerTyped

(* SessionEnd keeps the types.                                             *)
LEMMA TypedSessionEnd ==
  ASSUME Typed, NEW c \in Caller, SessionEnd(c)
  PROVE  Typed'
<1>1. call' \in [Caller -> CallType] /\ CallTyped'
  BY VariableTypes DEF SessionEnd, EndCode, Typed, CallTyped, CallType, CallLabels, Code
<1>2. server' \in [Session -> ServerType]
  <2>1. server' = server \/ server' = [server EXCEPT ![curl].told = TRUE]
    BY DEF SessionEnd
  <2> QED
    BY <2>1, VariableTypes DEF ServerType
<1> QED
  BY <1>1, <1>2 DEF SessionEnd, Typed, TypeOK, CallTyped, WorkerTyped

(* Release keeps the types.                                                *)
LEMMA TypedRelease ==
  ASSUME Typed, NEW c \in Caller, Release(c)
  PROVE  Typed'
<1>1. call[c].s \in Session
  BY DEF Release, Typed, CallTyped
<1>2. call' \in [Caller -> CallType] /\ CallTyped'
  BY ReturnTyped DEF Release
<1>3. sp' \in [Session -> ParamType]
  BY <1>1, VariableTypes DEF Release, ParamType, Code, NoParam, NewParam
<1>4. m_data' \in [Session -> DataType]
  BY <1>1, VariableTypes DEF Release, DataType, Code, CCode, NewData
<1>5. curl' \in Session \cup {NULL} /\ easy' \in SUBSET Session
  BY DEF Release, Typed, TypeOK, CleanupCurl
<1> QED
  BY <1>1, <1>2, <1>3, <1>4, <1>5 DEF Release, Typed, TypeOK, CallTyped, WorkerTyped, CleanupCurl

(* WorkerStart keeps the types.                                            *)
LEMMA TypedWorkerStart ==
  ASSUME Typed, NEW s \in Session, WorkerStart(s)
  PROVE  Typed'
<1>1. worker' \in [Session -> WorkerType] /\ WorkerTyped'
  BY WorkerGotoTyped DEF WorkerStart, PacketLabels, WorkerLabels, LoopLabels
<1>2. m_data' \in [Session -> DataType]
  BY ZenonT(30), VariableTypes DEF WorkerStart, DataType, Code, CCode
<1> QED
  BY <1>1, <1>2 DEF WorkerStart, Typed, TypeOK, CallTyped, WorkerTyped

(* WorkerTest keeps the types.                                             *)
LEMMA TypedWorkerTest ==
  ASSUME Typed, NEW s \in Session, WorkerTest(s)
  PROVE  Typed'
<1>1. worker' \in [Session -> WorkerType] /\ WorkerTyped'
  BY WorkerGotoTyped DEF WorkerTest, PacketLabels, WorkerLabels, LoopLabels
<1> QED
  BY <1>1 DEF WorkerTest, Typed, TypeOK, CallTyped, WorkerTyped

(* WorkerStop keeps the types.                                             *)
LEMMA TypedWorkerStop ==
  ASSUME Typed, NEW s \in Session, WorkerStop(s)
  PROVE  Typed'
<1>1. worker' \in [Session -> WorkerType] /\ WorkerTyped'
  BY WorkerGotoTyped DEF WorkerStop, PacketLabels, WorkerLabels, LoopLabels
<1>2. m_data' \in [Session -> DataType]
  BY ZenonT(30), VariableTypes DEF WorkerStop, DataType, Code, CCode
<1> QED
  BY <1>1, <1>2 DEF WorkerStop, Typed, TypeOK, CallTyped, WorkerTyped

(* WorkerLog keeps the types.                                              *)
LEMMA TypedWorkerLog ==
  ASSUME Typed, NEW s \in Session, WorkerLog(s)
  PROVE  Typed'
<1>1. worker' \in [Session -> WorkerType] /\ WorkerTyped'
  BY WorkerGotoTyped DEF WorkerLog, PacketLabels, WorkerLabels, LoopLabels
<1> QED
  BY <1>1 DEF WorkerLog, Typed, TypeOK, CallTyped, WorkerTyped

(* WorkerPeek keeps the types.                                             *)
LEMMA TypedWorkerPeek ==
  ASSUME Typed, NEW s \in Session, WorkerPeek(s)
  PROVE  Typed'
<1>1. worker' \in [Session -> WorkerType] /\ WorkerTyped'
  BY WorkerGotoTyped DEF WorkerPeek, PacketLabels, WorkerLabels, LoopLabels
<1> QED
  BY <1>1 DEF WorkerPeek, Typed, TypeOK, CallTyped, WorkerTyped

(* WorkerLock keeps the types.                                             *)
LEMMA TypedWorkerLock ==
  ASSUME Typed, NEW s \in Session, WorkerLock(s)
  PROVE  Typed'
<1>1. worker' \in [Session -> WorkerType] /\ WorkerTyped'
  BY WorkerGotoTyped DEF WorkerLock, PacketLabels, WorkerLabels, LoopLabels
<1> QED
  BY <1>1 DEF WorkerLock, Typed, TypeOK, CallTyped, WorkerTyped

(* WorkerPop keeps the types.                                              *)
LEMMA TypedWorkerPop ==
  ASSUME Typed, NEW s \in Session, WorkerPop(s)
  PROVE  Typed'
<1> DEFINE q == Tail(m_data[s].q_buf)
           p == Head(m_data[s].q_buf)
<1>1. q \in Seq(Packet) /\ p \in Packet
  <2>1. m_data[s].q_buf \in Seq(Packet) /\ m_data[s].q_buf # <<>>
    BY DEF WorkerPop, Typed, TypeOK, DataType
  <2> QED
    BY <2>1
<1>2. /\ m_data' = [m_data EXCEPT ![s].q_buf = q]
      /\ worker' = [worker EXCEPT ![s].pc = "send", ![s].pkt = p]
  BY DEF WorkerPop
<1> HIDE DEF p, q
<1>3. m_data' \in [Session -> DataType]
  BY ZenonT(30), <1>1, <1>2 DEF Typed, TypeOK, DataType
<1>4. worker' \in [Session -> WorkerType] /\ WorkerTyped'
  <2> DEFINE w == [worker[s] EXCEPT !.pc = "send", !.pkt = p]
  <2>1. w \in WorkerType /\ w.pc = "send" /\ w.pkt = p
    BY <1>1, VariableTypes DEF WorkerType, WorkerLabels, LoopLabels
  <2>2. worker' = [worker EXCEPT ![s] = w]
    BY <1>2
  <2> HIDE DEF w
  <2> QED
    BY <1>1, <2>1, <2>2, WorkerUpdateTyped
<1> QED
  BY <1>1, <1>2, <1>3, <1>4 DEF WorkerPop, Typed, TypeOK, CallTyped, WorkerTyped

(* WorkerSend keeps the types.                                             *)
LEMMA TypedWorkerSend ==
  ASSUME Typed, NEW s \in Session, WorkerSend(s)
  PROVE  Typed'
<1> DEFINE replies == Replies(worker[s].pkt)
<1>1. worker[s].pkt \in Packet
  BY DEF WorkerSend, Typed, WorkerTyped, PacketLabels
<1>2. replies \in SUBSET Reply
  BY <1>1 DEF Replies, Unreadable, Reply, Packet, Code
<1>3. Attempt(s, replies, "retry")
  BY DEF WorkerSend
<1> HIDE DEF replies
<1>4. /\ worker' \in [Session -> WorkerType] /\ WorkerTyped'
      /\ server' \in [Session -> ServerType]
  BY <1>1, <1>2, <1>3, AttemptTyped
<1> QED
  BY <1>1, <1>2, <1>3, <1>4 DEF WorkerSend, Typed, TypeOK, CallTyped, WorkerTyped, Attempt

(* WorkerRetry keeps the types.                                            *)
LEMMA TypedWorkerRetry ==
  ASSUME Typed, NEW s \in Session, WorkerRetry(s)
  PROVE  Typed'
<1> DEFINE replies == Replies(worker[s].pkt) \cup (IF worker[s].cut THEN {Unreadable} ELSE {})
<1>1. worker[s].pkt \in Packet
  BY DEF WorkerRetry, Typed, WorkerTyped, PacketLabels
<1>2. replies \in SUBSET Reply
  BY <1>1 DEF Replies, Unreadable, Reply, Packet, Code
<1>3. Attempt(s, replies, "fail")
  BY DEF WorkerRetry
<1> HIDE DEF replies
<1>4. /\ worker' \in [Session -> WorkerType] /\ WorkerTyped'
      /\ server' \in [Session -> ServerType]
  BY <1>1, <1>2, <1>3, AttemptTyped
<1> QED
  BY <1>1, <1>2, <1>3, <1>4 DEF WorkerRetry, Typed, TypeOK, CallTyped, WorkerTyped, Attempt

(* WorkerText keeps the types.                                             *)
LEMMA TypedWorkerText ==
  ASSUME Typed, NEW s \in Session, WorkerText(s)
  PROVE  Typed'
<1>1. worker' \in [Session -> WorkerType] /\ WorkerTyped'
  BY WorkerGotoTyped DEF WorkerText, PacketLabels, WorkerLabels, LoopLabels
<1>2. m_data' \in [Session -> DataType]
  <2>1. worker[s].reply \in Reply
    BY DEF WorkerText, Step, Typed, WorkerTyped
  <2>2. TextAfter(m_data[s].text, worker[s].reply) \in Nat
    BY <2>1 DEF TextAfter, Reply, Typed, TypeOK, DataType
  <2> QED
    BY ZenonT(30), <2>2 DEF WorkerText, Typed, TypeOK, DataType
<1> QED
  BY <1>1, <1>2 DEF WorkerText, Typed, TypeOK, CallTyped, WorkerTyped

(* WorkerCode keeps the types.                                             *)
LEMMA TypedWorkerCode ==
  ASSUME Typed, NEW s \in Session, WorkerCode(s)
  PROVE  Typed'
<1>1. worker' \in [Session -> WorkerType] /\ WorkerTyped'
  BY FinishedTyped DEF WorkerCode, Typed, WorkerTyped, PacketLabels
<1>2. m_data' \in [Session -> DataType]
  <2> DEFINE r == [m_data[s] EXCEPT !.error_code = worker[s].reply.code, !.c_code = "CURLE_OK"]
  <2>1. r \in DataType
    BY VariableTypes DEF WorkerCode, Typed, WorkerTyped, DataType, CCode, Reply
  <2>2. m_data' = [m_data EXCEPT ![s] = r]
    BY DEF WorkerCode
  <2> HIDE DEF r
  <2> QED
    BY <2>1, <2>2, VariableTypes
<1> QED
  BY <1>1, <1>2 DEF WorkerCode, Typed, TypeOK, CallTyped, WorkerTyped

(* WorkerFail keeps the types.                                             *)
LEMMA TypedWorkerFail ==
  ASSUME Typed, NEW s \in Session, WorkerFail(s)
  PROVE  Typed'
<1>1. worker' \in [Session -> WorkerType] /\ WorkerTyped'
  BY FinishedTyped DEF WorkerFail, Typed, WorkerTyped, PacketLabels
<1>2. m_data' \in [Session -> DataType]
  BY ZenonT(30), VariableTypes DEF WorkerFail, DataType, Code, CCode
<1> QED
  BY <1>1, <1>2 DEF WorkerFail, Typed, TypeOK, CallTyped, WorkerTyped

(* WorkerLast keeps the types.                                             *)
LEMMA TypedWorkerLast ==
  ASSUME Typed, NEW s \in Session, WorkerLast(s)
  PROVE  Typed'
<1>1. worker' \in [Session -> WorkerType] /\ WorkerTyped'
  BY WorkerGotoTyped DEF WorkerLast, PacketLabels, WorkerLabels, LoopLabels
<1>2. m_data' \in [Session -> DataType]
  BY ZenonT(30), VariableTypes DEF WorkerLast, DataType, Code, CCode
<1> QED
  BY <1>1, <1>2 DEF WorkerLast, Typed, TypeOK, CallTyped, WorkerTyped

-----------------------------------------------------------------------------
(* Control: who holds the mutex, whose session is live, where the upload   *)
(* threads are.  Most steps only move one thread; these two lemmas say     *)
(* which moves are harmless.                                               *)

USE NamesAssumption

LiveKept   == \A t \in Session : Live(t)' <=> Live(t)
QueuesKept == \A t \in Session : /\ m_data'[t].q_buf = m_data[t].q_buf
                                 /\ m_data'[t].b_start = m_data[t].b_start

(* An application thread moves: to a label where it has the session for    *)
(* itself only if nobody else is at it, and never on a session another     *)
(* thread has for itself.                                                  *)
LEMMA CallMoves ==
  ASSUME Typed, Control, NEW c \in Caller,
         \A d \in Caller \ {c} : call'[d] = call[d],
         LiveKept, QueuesKept, UNCHANGED <<seq_lock, worker>>,
         \A t \in Session : sp'[t].state = sp[t].state,
         call[c].pc # "pushing" /\ call'[c].pc \notin {"pushing", "begin", "spawned"},
         IF call'[c].pc = "idle" THEN call'[c].s = NULL
         ELSE call'[c].s \in Session /\ Live(call'[c].s),
         call'[c].pc # "idle" =>
           \A d \in Caller \ {c} :
             call'[c].pc \in OwnLabels \/ call[d].pc \in OwnLabels => call[d].s # call'[c].s,
         call[c].pc = "spawned" => worker[call[c].s].pc # "created",
         call'[c].pc = "spawn" => worker[call'[c].s].pc = "none",
         call'[c].pc \in {"bye", "free"} => worker[call'[c].s].pc \notin LoopLabels
  PROVE  Control'
<1> USE DEF Control
<1>1. QueueMutex'
  BY DEF QueueMutex
<1>2. Exclusive'
  BY DEF Exclusive, CallsLive, Typed, CallTyped, OwnLabels
<1>3. CallsLive'
  BY DEF CallsLive, LiveKept, Typed, CallTyped
<1>4. StartFlag'
  BY DEF StartFlag, QueuesKept
<1>5. HandShake'
  BY DEF HandShake
<1>6. LiveWhileRunning'
  BY DEF LiveWhileRunning, LiveKept
<1>7. WorkAhead'
  <2>1. \A t \in Session : BeingPushed(t) => BeingPushed(t)'
    BY DEF BeingPushed
  <2> QED
    BY <2>1 DEF WorkAhead, QueuesKept
<1> QED
  BY <1>1, <1>2, <1>3, <1>4, <1>5, <1>6, <1>7

(* An upload thread moves within its loop, neither into nor out of the     *)
(* part that pops.                                                         *)
LEMMA WorkerMoves ==
  ASSUME Typed, Control, NEW s \in Session,
         \A t \in Session \ {s} : worker'[t] = worker[t],
         QueuesKept, UNCHANGED <<seq_lock, sp, call>>,
         worker[s].pc \in LoopLabels \ {"pop"},
         worker'[s].pc \in LoopLabels \ {"lock", "pop"}
  PROVE  Control'
<1> USE DEF Control
<1>1. QueueMutex'
  BY DEF QueueMutex
<1>2. Exclusive' /\ CallsLive'
  BY DEF Exclusive, CallsLive, Live
<1>3. StartFlag'
  BY DEF StartFlag, QueuesKept
<1>4. HandShake'
  <2>1. worker[s].pc \notin {"none", "created"} /\ worker'[s].pc \notin {"none", "created"}
    BY DEF LoopLabels
  <2>2. \A c \in Caller : call[c].pc # "idle" => call[c].s \in Session
    BY DEF Typed, CallTyped
  <2> QED
    BY <2>1, <2>2 DEF HandShake
<1>5. LiveWhileRunning'
  BY DEF LiveWhileRunning, Live
<1>6. WorkAhead'
  BY DEF WorkAhead, QueuesKept, BeingPushed
<1> QED
  BY <1>1, <1>2, <1>3, <1>4, <1>5, <1>6

(* BeginFailed keeps Control.                                              *)
LEMMA ControlBeginFailed ==
  ASSUME IInv, NEW c \in Caller, BeginFailed(c)
  PROVE  Control'
<1> USE DEF IInv
<1>1. /\ \A d \in Caller \ {c} : call'[d] = call[d]
      /\ call[c].pc = "begin"
  BY VariableTypes DEF BeginFailed, Return, Idle
<1>2. call'[c].pc = "idle" /\ call'[c].s = NULL
  BY VariableTypes DEF BeginFailed, Return, Idle, CallType
<1>3. /\ LiveKept /\ QueuesKept /\ UNCHANGED <<seq_lock, worker>>
      /\ \A t \in Session : sp'[t].state = sp[t].state
  BY VariableTypes DEF BeginFailed, LiveKept, QueuesKept, Live, ParamType
<1> QED
  BY <1>1, <1>2, <1>3, CallMoves DEF OwnLabels

(* BeginReplied keeps Control.                                             *)
LEMMA ControlBeginReplied ==
  ASSUME IInv, NEW c \in Caller, BeginReplied(c)
  PROVE  Control'
<1> USE DEF IInv
<1>1. /\ \A d \in Caller \ {c} : call'[d] = call[d]
      /\ call[c].pc = "begin"
  BY VariableTypes DEF BeginReplied, Return, Idle, Goto
<1>2. \/ call'[c].pc = "idle" /\ call'[c].s = NULL
      \/ call'[c].pc = "spawn" /\ call'[c].s = call[c].s
  BY VariableTypes DEF BeginReplied, Return, Idle, Goto, CallType
<1>3. /\ LiveKept /\ QueuesKept /\ UNCHANGED <<seq_lock, worker>>
      /\ \A t \in Session : sp'[t].state = sp[t].state
  BY SMTT(60), VariableTypes DEF BeginReplied, LiveKept, QueuesKept, Live, ParamType
<1>4. /\ call[c].s \in Session /\ Live(call[c].s)
      /\ \A d \in Caller \ {c} :
           call[c].pc \in OwnLabels \/ call[d].pc \in OwnLabels => call[d].s # call[c].s
      /\ worker[call[c].s].pc = "none"
  BY <1>1 DEF Typed, CallTyped, Control, CallsLive, Exclusive, HandShake
<1> QED
  BY <1>1, <1>2, <1>3, <1>4, CallMoves DEF OwnLabels

(* SpawnFailed keeps Control.                                              *)
LEMMA ControlSpawnFailed ==
  ASSUME IInv, NEW c \in Caller, SpawnFailed(c)
  PROVE  Control'
<1> USE DEF IInv
<1>1. /\ \A d \in Caller \ {c} : call'[d] = call[d]
      /\ call[c].pc = "spawn"
  BY VariableTypes DEF SpawnFailed, Return, Idle
<1>2. call'[c].pc = "idle" /\ call'[c].s = NULL
  BY VariableTypes DEF SpawnFailed, Return, Idle, CallType
<1>3. /\ LiveKept /\ QueuesKept /\ UNCHANGED <<seq_lock, worker>>
      /\ \A t \in Session : sp'[t].state = sp[t].state
  BY VariableTypes DEF SpawnFailed, LiveKept, QueuesKept, Live, ParamType
<1> QED
  BY <1>1, <1>2, <1>3, CallMoves DEF OwnLabels

(* ThreadStarted keeps Control.                                            *)
LEMMA ControlThreadStarted ==
  ASSUME IInv, NEW c \in Caller, ThreadStarted(c)
  PROVE  Control'
<1> USE DEF IInv
<1>1. /\ \A d \in Caller \ {c} : call'[d] = call[d]
      /\ call[c].pc = "spawned"
  BY VariableTypes DEF ThreadStarted, Return, Idle
<1>2. call'[c].pc = "idle" /\ call'[c].s = NULL
  BY VariableTypes DEF ThreadStarted, Return, Idle, CallType
<1>3. /\ LiveKept /\ QueuesKept /\ UNCHANGED <<seq_lock, worker>>
      /\ \A t \in Session : sp'[t].state = sp[t].state
  BY VariableTypes DEF ThreadStarted, LiveKept, QueuesKept, Live, ParamType
<1>4. call[c].s \in Session /\ worker[call[c].s].pc # "created"
  BY <1>1 DEF ThreadStarted, Typed, CallTyped, Control, StartFlag, LoopLabels
<1> QED
  BY <1>1, <1>2, <1>3, <1>4, CallMoves DEF OwnLabels

(* PostBuffered keeps Control.                                             *)
LEMMA ControlPostBuffered ==
  ASSUME IInv, NEW c \in Caller, NEW s \in Session, PostBuffered(c, s)
  PROVE  Control'
<1> USE DEF IInv
<1>1. call[c].pc = "idle" /\ call[c].s = NULL
  BY DEF PostBuffered, MayPost, Control, CallsLive
<1>2. LiveKept /\ QueuesKept /\ \A t \in Session : sp'[t].state = sp[t].state
  BY VariableTypes DEF PostBuffered, LiveKept, QueuesKept, Live, ParamType
<1> QED
  BY <1>1, <1>2, CallMoves DEF PostBuffered

(* PostData keeps Control.                                                 *)
LEMMA ControlPostData ==
  ASSUME IInv, NEW c \in Caller, NEW s \in Session, PostData(c, s)
  PROVE  Control'
<1> USE DEF IInv
<1>1. /\ \A d \in Caller \ {c} : call'[d] = call[d]
      /\ call[c].pc = "idle"
  BY VariableTypes DEF PostData, MayPost, Idle
<1>2. call'[c].pc = "push" /\ call'[c].s = s
  BY VariableTypes DEF PostData, MayPost, Idle, CallType
<1>3. /\ LiveKept /\ QueuesKept /\ UNCHANGED <<seq_lock, worker>>
      /\ \A t \in Session : sp'[t].state = sp[t].state
  BY VariableTypes DEF PostData, MayPost, LiveKept, QueuesKept, Live, ParamType
<1>4. Live(s) /\ \A d \in Caller \ {c} :
        call[d].pc \in OwnLabels => call[d].s # s
  BY DEF PostData, MayPost, Usable, UseLabels, OwnLabels
<1> QED
  BY <1>1, <1>2, <1>3, <1>4, CallMoves DEF OwnLabels

(* GetPartialResult keeps Control.                                         *)
LEMMA ControlGetPartialResult ==
  ASSUME IInv, NEW c \in Caller, NEW s \in Session, GetPartialResult(c, s)
  PROVE  Control'
<1> USE DEF IInv
<1>1. /\ \A d \in Caller \ {c} : call'[d] = call[d]
      /\ call[c].pc = "idle"
  BY VariableTypes DEF GetPartialResult, MayAsk, Hold, Idle
<1>2. call'[c].pc = "holding" /\ call'[c].s = s
  BY VariableTypes DEF GetPartialResult, MayAsk, Hold, Idle, CallType
<1>3. /\ LiveKept /\ QueuesKept /\ UNCHANGED <<seq_lock, worker>>
      /\ \A t \in Session : sp'[t].state = sp[t].state
  BY VariableTypes DEF GetPartialResult, LiveKept, QueuesKept, Live, ParamType
<1>4. Live(s) /\ \A d \in Caller \ {c} :
        call[d].pc \in OwnLabels => call[d].s # s
  BY DEF GetPartialResult, MayAsk, Usable, UseLabels, OwnLabels
<1> QED
  BY <1>1, <1>2, <1>3, <1>4, CallMoves DEF OwnLabels

(* GetFinalResult keeps Control.                                           *)
LEMMA ControlGetFinalResult ==
  ASSUME IInv, NEW c \in Caller, NEW s \in Session, GetFinalResult(c, s)
  PROVE  Control'
<1> USE DEF IInv
<1>1. /\ \A d \in Caller \ {c} : call'[d] = call[d]
      /\ call[c].pc = "idle"
  BY VariableTypes DEF GetFinalResult, MayAsk, Idle
<1>2. call'[c].pc = "poll" /\ call'[c].s = s
  BY VariableTypes DEF GetFinalResult, MayAsk, Idle, CallType
<1>3. /\ LiveKept /\ QueuesKept /\ UNCHANGED <<seq_lock, worker>>
      /\ \A t \in Session : sp'[t].state = sp[t].state
  BY VariableTypes DEF GetFinalResult, LiveKept, QueuesKept, Live, ParamType
<1>4. Live(s) /\ \A d \in Caller \ {c} :
        call[d].pc \in OwnLabels => call[d].s # s
  BY DEF GetFinalResult, MayAsk, Usable, UseLabels, OwnLabels
<1> QED
  BY <1>1, <1>2, <1>3, <1>4, CallMoves DEF OwnLabels

(* PollDone keeps Control.                                                 *)
LEMMA ControlPollDone ==
  ASSUME IInv, NEW c \in Caller, PollDone(c)
  PROVE  Control'
<1> USE DEF IInv
<1>1. /\ \A d \in Caller \ {c} : call'[d] = call[d]
      /\ call[c].pc = "poll"
  BY VariableTypes DEF PollDone, Hold, Idle
<1>2. call'[c].pc = "holding" /\ call'[c].s = call[c].s
  BY VariableTypes DEF PollDone, Hold, Idle, CallType
<1>3. /\ LiveKept /\ QueuesKept /\ UNCHANGED <<seq_lock, worker>>
      /\ \A t \in Session : sp'[t].state = sp[t].state
  BY VariableTypes DEF PollDone, LiveKept, QueuesKept, Live, ParamType
<1>4. /\ call[c].s \in Session /\ Live(call[c].s)
      /\ \A d \in Caller \ {c} :
           call[c].pc \in OwnLabels \/ call[d].pc \in OwnLabels => call[d].s # call[c].s
  BY <1>1 DEF Typed, CallTyped, Control, CallsLive, Exclusive, HandShake
<1> QED
  BY <1>1, <1>2, <1>3, <1>4, CallMoves DEF OwnLabels

(* PollFailed keeps Control.                                               *)
LEMMA ControlPollFailed ==
  ASSUME IInv, NEW c \in Caller, PollFailed(c)
  PROVE  Control'
<1> USE DEF IInv
<1>1. /\ \A d \in Caller \ {c} : call'[d] = call[d]
      /\ call[c].pc = "poll"
  BY VariableTypes DEF PollFailed, Hold, Idle
<1>2. call'[c].pc = "holding" /\ call'[c].s = call[c].s
  BY VariableTypes DEF PollFailed, Hold, Idle, CallType
<1>3. /\ LiveKept /\ QueuesKept /\ UNCHANGED <<seq_lock, worker>>
      /\ \A t \in Session : sp'[t].state = sp[t].state
  BY VariableTypes DEF PollFailed, LiveKept, QueuesKept, Live, ParamType
<1>4. /\ call[c].s \in Session /\ Live(call[c].s)
      /\ \A d \in Caller \ {c} :
           call[c].pc \in OwnLabels \/ call[d].pc \in OwnLabels => call[d].s # call[c].s
  BY <1>1 DEF Typed, CallTyped, Control, CallsLive, Exclusive, HandShake
<1> QED
  BY <1>1, <1>2, <1>3, <1>4, CallMoves DEF OwnLabels

(* CopyResult keeps Control.                                               *)
LEMMA ControlCopyResult ==
  ASSUME IInv, NEW c \in Caller, CopyResult(c)
  PROVE  Control'
<1> USE DEF IInv
<1>1. /\ \A d \in Caller \ {c} : call'[d] = call[d]
      /\ call[c].pc = "holding"
  BY VariableTypes DEF CopyResult, Return, Idle
<1>2. call'[c].pc = "idle" /\ call'[c].s = NULL
  BY VariableTypes DEF CopyResult, Return, Idle, CallType
<1>3. /\ LiveKept /\ QueuesKept /\ UNCHANGED <<seq_lock, worker>>
      /\ \A t \in Session : sp'[t].state = sp[t].state
  BY VariableTypes DEF CopyResult, LiveKept, QueuesKept, Live, ParamType
<1> QED
  BY <1>1, <1>2, <1>3, CallMoves DEF OwnLabels

(* EndSession keeps Control.                                               *)
LEMMA ControlEndSession ==
  ASSUME IInv, NEW c \in Caller, NEW s \in Session, EndSession(c, s)
  PROVE  Control'
<1> USE DEF IInv
<1>1. /\ \A d \in Caller \ {c} : call'[d] = call[d]
      /\ call[c].pc = "idle"
  BY VariableTypes DEF EndSession, Idle
<1>2. call'[c].pc = "join" /\ call'[c].s = s
  BY VariableTypes DEF EndSession, Idle, CallType
<1>3. /\ LiveKept /\ QueuesKept /\ UNCHANGED <<seq_lock, worker>>
      /\ \A t \in Session : sp'[t].state = sp[t].state
  BY VariableTypes DEF EndSession, LiveKept, QueuesKept, Live, ParamType, DataType
<1>4. Live(s) /\ \A d \in Caller \ {c} :
        call[d].s # s
  BY DEF EndSession, Usable, UseLabels, OwnLabels
<1> QED
  BY <1>1, <1>2, <1>3, <1>4, CallMoves DEF OwnLabels

(* Join keeps Control.                                                     *)
LEMMA ControlJoin ==
  ASSUME IInv, NEW c \in Caller, Join(c)
  PROVE  Control'
<1> USE DEF IInv
<1>1. /\ \A d \in Caller \ {c} : call'[d] = call[d]
      /\ call[c].pc = "join"
  BY VariableTypes DEF Join, Goto
<1>2. call'[c].pc = "bye" /\ call'[c].s = call[c].s
  BY VariableTypes DEF Join, Goto, CallType
<1>3. /\ LiveKept /\ QueuesKept /\ UNCHANGED <<seq_lock, worker>>
      /\ \A t \in Session : sp'[t].state = sp[t].state
  BY VariableTypes DEF Join, LiveKept, QueuesKept, Live, ParamType
<1>4. /\ call[c].s \in Session /\ Live(call[c].s)
      /\ \A d \in Caller \ {c} :
           call[c].pc \in OwnLabels \/ call[d].pc \in OwnLabels => call[d].s # call[c].s
      /\ worker[call[c].s].pc \notin LoopLabels
  BY <1>1 DEF Join, ThreadGone, StartFlag, Typed, CallTyped, Control, CallsLive, Exclusive, HandShake
<1> QED
  BY <1>1, <1>2, <1>3, <1>4, CallMoves DEF OwnLabels

(* SessionEnd keeps Control.                                               *)
LEMMA ControlSessionEnd ==
  ASSUME IInv, NEW c \in Caller, SessionEnd(c)
  PROVE  Control'
<1> USE DEF IInv
<1>1. /\ \A d \in Caller \ {c} : call'[d] = call[d]
      /\ call[c].pc = "bye"
  BY VariableTypes DEF SessionEnd
<1>2. call'[c].pc = "free" /\ call'[c].s = call[c].s
  BY VariableTypes DEF SessionEnd, CallType
<1>3. /\ LiveKept /\ QueuesKept /\ UNCHANGED <<seq_lock, worker>>
      /\ \A t \in Session : sp'[t].state = sp[t].state
  BY VariableTypes DEF SessionEnd, LiveKept, QueuesKept, Live, ParamType
<1>4. /\ call[c].s \in Session /\ Live(call[c].s)
      /\ \A d \in Caller \ {c} :
           call[c].pc \in OwnLabels \/ call[d].pc \in OwnLabels => call[d].s # call[c].s
      /\ worker[call[c].s].pc \notin LoopLabels
  BY <1>1 DEF Typed, CallTyped, Control, CallsLive, Exclusive, HandShake
<1> QED
  BY <1>1, <1>2, <1>3, <1>4, CallMoves DEF OwnLabels

(* WorkerTest keeps Control.                                               *)
LEMMA ControlWorkerTest ==
  ASSUME IInv, NEW s \in Session, WorkerTest(s)
  PROVE  Control'
<1>1. /\ \A t \in Session \ {s} : worker'[t] = worker[t]
      /\ worker[s].pc \in LoopLabels \ {"pop"}
      /\ worker'[s].pc \in LoopLabels \ {"lock", "pop"}
  BY VariableTypes DEF IInv, WorkerTest, Step, LoopLabels, WorkerType
<1>2. QueuesKept /\ UNCHANGED <<seq_lock, sp, call>>
  BY VariableTypes DEF IInv, WorkerTest, Step, QueuesKept, DataType
<1> QED
  BY <1>1, <1>2, WorkerMoves DEF IInv

(* WorkerSend keeps Control.                                               *)
LEMMA ControlWorkerSend ==
  ASSUME IInv, NEW s \in Session, WorkerSend(s)
  PROVE  Control'
<1>1. /\ \A t \in Session \ {s} : worker'[t] = worker[t]
      /\ worker[s].pc \in LoopLabels \ {"pop"}
      /\ worker'[s].pc \in LoopLabels \ {"lock", "pop"}
  BY VariableTypes DEF IInv, WorkerSend, Attempt, LoopLabels, WorkerType
<1>2. QueuesKept /\ UNCHANGED <<seq_lock, sp, call>>
  BY VariableTypes DEF IInv, WorkerSend, Attempt, QueuesKept, DataType
<1> QED
  BY <1>1, <1>2, WorkerMoves DEF IInv

(* WorkerRetry keeps Control.                                              *)
LEMMA ControlWorkerRetry ==
  ASSUME IInv, NEW s \in Session, WorkerRetry(s)
  PROVE  Control'
<1>1. /\ \A t \in Session \ {s} : worker'[t] = worker[t]
      /\ worker[s].pc \in LoopLabels \ {"pop"}
      /\ worker'[s].pc \in LoopLabels \ {"lock", "pop"}
  BY VariableTypes DEF IInv, WorkerRetry, Attempt, LoopLabels, WorkerType
<1>2. QueuesKept /\ UNCHANGED <<seq_lock, sp, call>>
  BY VariableTypes DEF IInv, WorkerRetry, Attempt, QueuesKept, DataType
<1> QED
  BY <1>1, <1>2, WorkerMoves DEF IInv

(* WorkerText keeps Control.                                               *)
LEMMA ControlWorkerText ==
  ASSUME IInv, NEW s \in Session, WorkerText(s)
  PROVE  Control'
<1>1. /\ \A t \in Session \ {s} : worker'[t] = worker[t]
      /\ worker[s].pc \in LoopLabels \ {"pop"}
      /\ worker'[s].pc \in LoopLabels \ {"lock", "pop"}
  BY VariableTypes DEF IInv, WorkerText, Step, LoopLabels, WorkerType
<1>2. QueuesKept /\ UNCHANGED <<seq_lock, sp, call>>
  BY VariableTypes DEF IInv, WorkerText, Step, QueuesKept, DataType
<1> QED
  BY <1>1, <1>2, WorkerMoves DEF IInv

(* WorkerCode keeps Control.                                               *)
LEMMA ControlWorkerCode ==
  ASSUME IInv, NEW s \in Session, WorkerCode(s)
  PROVE  Control'
<1>1. /\ \A t \in Session \ {s} : worker'[t] = worker[t]
      /\ worker[s].pc \in LoopLabels \ {"pop"}
      /\ worker'[s].pc \in LoopLabels \ {"lock", "pop"}
  BY VariableTypes DEF IInv, WorkerCode, Finished, Done, LoopLabels, WorkerType
<1>2. QueuesKept /\ UNCHANGED <<seq_lock, sp, call>>
  BY VariableTypes DEF IInv, WorkerCode, Finished, Done, QueuesKept, DataType
<1> QED
  BY <1>1, <1>2, WorkerMoves DEF IInv

(* WorkerFail keeps Control.                                               *)
LEMMA ControlWorkerFail ==
  ASSUME IInv, NEW s \in Session, WorkerFail(s)
  PROVE  Control'
<1>1. /\ \A t \in Session \ {s} : worker'[t] = worker[t]
      /\ worker[s].pc \in LoopLabels \ {"pop"}
      /\ worker'[s].pc \in LoopLabels \ {"lock", "pop"}
  BY VariableTypes DEF IInv, WorkerFail, Finished, Done, LoopLabels, WorkerType
<1>2. QueuesKept /\ UNCHANGED <<seq_lock, sp, call>>
  BY VariableTypes DEF IInv, WorkerFail, Finished, Done, QueuesKept, DataType
<1> QED
  BY <1>1, <1>2, WorkerMoves DEF IInv

(* WorkerLast keeps Control.                                               *)
LEMMA ControlWorkerLast ==
  ASSUME IInv, NEW s \in Session, WorkerLast(s)
  PROVE  Control'
<1>1. /\ \A t \in Session \ {s} : worker'[t] = worker[t]
      /\ worker[s].pc \in LoopLabels \ {"pop"}
      /\ worker'[s].pc \in LoopLabels \ {"lock", "pop"}
  BY VariableTypes DEF IInv, WorkerLast, Step, LoopLabels, WorkerType
<1>2. QueuesKept /\ UNCHANGED <<seq_lock, sp, call>>
  BY VariableTypes DEF IInv, WorkerLast, Step, QueuesKept, DataType
<1> QED
  BY <1>1, <1>2, WorkerMoves DEF IInv

(* The steps that change the state of a session, of its queue or of the    *)
(* mutex.                                                                  *)
LEMMA ControlStartSession ==
  ASSUME IInv, NEW c \in Caller, NEW s \in Session, StartSession(c, s)
  PROVE  Control'
<1> USE DEF IInv, Control
<1>1. /\ \A d \in Caller \ {c} : call'[d] = call[d]
      /\ call[c].pc = "idle" /\ call'[c].pc = "begin" /\ call'[c].s = s
      /\ UNCHANGED <<worker, seq_lock>>
  BY VariableTypes DEF StartSession, Idle
<1>2. /\ sp[s].state = "unused" /\ sp'[s].state = "live"
      /\ \A t \in Session \ {s} : sp'[t] = sp[t] /\ m_data'[t] = m_data[t]
      /\ ~m_data'[s].b_start
  BY VariableTypes DEF StartSession, NewParam, NewData
<1>3. /\ worker[s].pc = "none"
      /\ \A d \in Caller : call[d].s # s
  BY <1>2 DEF HandShake, CallsLive, Live
<1>4. QueueMutex'
  BY <1>1, <1>2, <1>3 DEF QueueMutex
<1>5. Exclusive' /\ CallsLive'
  <2>1. \A d \in Caller : call[d].pc # "idle" => call[d].s \in Session
    BY DEF Typed, CallTyped
  <2>2. \A d, e \in Caller :
          call[d].pc \in OwnLabels /\ d # e => call[e].s # call[d].s
    BY DEF Exclusive
  <2>3. Exclusive'
    BY <1>1, <1>2, <1>3, <2>1, <2>2, NamesAssumption DEF Exclusive, OwnLabels
  <2>4. CallsLive'
    BY <1>1, <1>2, <1>3, <2>1 DEF CallsLive, Live
  <2> QED
    BY <2>3, <2>4
<1>6. StartFlag'
  BY <1>1, <1>2, <1>3 DEF StartFlag, LoopLabels
<1>7. HandShake'
  BY <1>1, <1>2, <1>3 DEF HandShake, CallsLive, Exclusive, OwnLabels, LoopLabels, StartFlag, Live
<1>8. LiveWhileRunning'
  BY <1>1, <1>2, <1>3 DEF LiveWhileRunning, LoopLabels, HandShake, CallsLive, Exclusive, OwnLabels, Live
<1>9. WorkAhead'
  BY <1>1, <1>2, <1>3 DEF WorkAhead, BeingPushed, LoopLabels
<1> QED
  BY <1>4, <1>5, <1>6, <1>7, <1>8, <1>9

(* SpawnThread keeps Control.                                              *)
LEMMA ControlSpawnThread ==
  ASSUME IInv, NEW c \in Caller, SpawnThread(c)
  PROVE  Control'
<1> USE DEF IInv, Control
<1>1. /\ \A d \in Caller \ {c} : call'[d] = call[d]
      /\ call[c].pc = "spawn" /\ call'[c].pc = "spawned" /\ call'[c].s = call[c].s
      /\ UNCHANGED <<sp, seq_lock>>
  BY VariableTypes DEF SpawnThread, Goto, CallType
<1>2. /\ call[c].s \in Session /\ Live(call[c].s)
      /\ worker[call[c].s].pc = "none"
      /\ \A d \in Caller \ {c} : call[d].s # call[c].s
  BY <1>1 DEF Typed, CallTyped, CallsLive, HandShake, Exclusive, OwnLabels
<1>3. /\ worker'[call[c].s].pc = "created"
      /\ \A t \in Session \ {call[c].s} : worker'[t] = worker[t] /\ m_data'[t] = m_data[t]
      /\ ~m_data'[call[c].s].b_start
  BY <1>2, VariableTypes DEF SpawnThread, WorkerType, DataType
<1>4. QueueMutex'
  BY <1>1, <1>2, <1>3 DEF QueueMutex
<1>5. Exclusive' /\ CallsLive'
  BY <1>1, <1>2, <1>3 DEF Exclusive, CallsLive, OwnLabels, Live
<1>6. StartFlag'
  BY <1>1, <1>2, <1>3 DEF StartFlag, LoopLabels
<1>7. HandShake'
  <2>1. \A t \in Session : sp'[t].state = "unused" => worker'[t].pc = "none"
    BY <1>1, <1>2, <1>3 DEF HandShake, Live
  <2>2. \A d \in Caller : call'[d].pc \in {"begin", "spawn"} => worker'[call'[d].s].pc = "none"
    <3>1. \A d \in Caller : call[d].pc # "idle" => call[d].s \in Session
      BY DEF Typed, CallTyped
    <3> QED
      BY <1>1, <1>2, <1>3, <3>1 DEF HandShake
  <2>3. \A t \in Session : worker'[t].pc = "created" =>
          \E d \in Caller : call'[d].pc = "spawned" /\ call'[d].s = t
    BY <1>1, <1>2, <1>3 DEF HandShake
  <2>4. \A d \in Caller : call'[d].pc \in {"bye", "free"} => worker'[call'[d].s].pc \notin LoopLabels
    <3>1. \A d \in Caller : call[d].pc # "idle" => call[d].s \in Session
      BY DEF Typed, CallTyped
    <3> QED
      BY <1>1, <1>2, <1>3, <3>1 DEF HandShake, LoopLabels
  <2> QED
    BY <2>1, <2>2, <2>3, <2>4 DEF HandShake
<1>8. LiveWhileRunning'
  BY <1>1, <1>2, <1>3 DEF LiveWhileRunning, LoopLabels, HandShake, CallsLive, Exclusive, OwnLabels, Live
<1>9. WorkAhead'
  BY <1>1, <1>2, <1>3 DEF WorkAhead, BeingPushed, LoopLabels
<1> QED
  BY <1>4, <1>5, <1>6, <1>7, <1>8, <1>9

(* PushLock keeps Control.                                                 *)
LEMMA ControlPushLock ==
  ASSUME IInv, NEW c \in Caller, PushLock(c)
  PROVE  Control'
<1> USE DEF IInv, Control
<1>1. /\ \A d \in Caller \ {c} : call'[d] = call[d]
      /\ call[c].pc = "push" /\ call'[c].pc = "pushing" /\ call'[c].s = call[c].s
      /\ seq_lock = NULL /\ seq_lock' = c
      /\ UNCHANGED <<sp, m_data, worker>>
  BY VariableTypes DEF PushLock, CanLock, Goto, CallType
<1>2. QueueMutex'
  BY <1>1 DEF QueueMutex
<1>3. Exclusive' /\ CallsLive'
  BY <1>1 DEF Exclusive, CallsLive, OwnLabels, Live
<1>4. StartFlag'
  BY <1>1 DEF StartFlag, LoopLabels
<1>5. HandShake'
  BY <1>1 DEF HandShake, CallsLive, Exclusive, OwnLabels, LoopLabels, StartFlag, Live
<1>6. LiveWhileRunning'
  BY <1>1 DEF LiveWhileRunning, LoopLabels, HandShake, CallsLive, Exclusive, OwnLabels, Live
<1>7. WorkAhead'
  BY <1>1 DEF WorkAhead, BeingPushed, LoopLabels
<1> QED
  BY <1>2, <1>3, <1>4, <1>5, <1>6, <1>7

(* PushUnlock keeps Control.                                               *)
LEMMA ControlPushUnlock ==
  ASSUME IInv, NEW c \in Caller, PushUnlock(c)
  PROVE  Control'
<1> USE DEF IInv, Control
<1>1. /\ \A d \in Caller \ {c} : call'[d] = call[d]
      /\ call[c].pc = "pushing" /\ call'[c].pc = "idle" /\ call'[c].s = NULL
      /\ seq_lock = c /\ seq_lock' = NULL
      /\ UNCHANGED <<sp, worker>>
  BY VariableTypes DEF PushUnlock, Return, Idle, QueueMutex
<1>2. /\ call[c].s \in Session
      /\ \A t \in Session \ {call[c].s} : m_data'[t] = m_data[t]
      /\ m_data'[call[c].s].b_start = m_data[call[c].s].b_start
  BY <1>1, VariableTypes DEF PushUnlock, Typed, CallTyped, DataType
<1>3. m_data'[call[c].s].q_buf # <<>>
  <2>1. m_data[call[c].s].q_buf \in Seq(Packet) /\ call[c].pkt \in Packet
    BY <1>1, <1>2, VariableTypes DEF Typed, CallTyped, DataType
  <2>2. m_data'[call[c].s].q_buf = Append(m_data[call[c].s].q_buf, call[c].pkt)
    BY <1>2, VariableTypes DEF PushUnlock, Enqueue, DataType
  <2> QED
    BY SMTT(60), <2>1, <2>2
<1>4. QueueMutex'
  BY <1>1, <1>2, <1>3 DEF QueueMutex
<1>5. Exclusive' /\ CallsLive'
  <2>1. \A d \in Caller : call[d].pc # "idle" => call[d].s \in Session
    BY DEF Typed, CallTyped
  <2>2. \A d, e \in Caller :
          call[d].pc \in OwnLabels /\ d # e => call[e].s # call[d].s
    BY DEF Exclusive
  <2>3. Exclusive'
    BY <1>1, <1>2, <1>3, <2>1, <2>2, NamesAssumption DEF Exclusive, OwnLabels
  <2>4. CallsLive'
    BY <1>1, <1>2, <1>3, <2>1 DEF CallsLive, Live
  <2> QED
    BY <2>3, <2>4
<1>6. StartFlag'
  BY <1>1, <1>2, <1>3 DEF StartFlag, LoopLabels
<1>7. HandShake'
  BY <1>1, <1>2, <1>3 DEF HandShake, CallsLive, Exclusive, OwnLabels, LoopLabels, StartFlag, Live
<1>8. LiveWhileRunning'
  BY <1>1, <1>2, <1>3 DEF LiveWhileRunning, LoopLabels, HandShake, CallsLive, Exclusive, OwnLabels, Live
<1>9. WorkAhead'
  BY <1>1, <1>2, <1>3 DEF WorkAhead, BeingPushed, LoopLabels
<1> QED
  BY <1>4, <1>5, <1>6, <1>7, <1>8, <1>9

(* Release keeps Control.                                                  *)
LEMMA ControlRelease ==
  ASSUME IInv, NEW c \in Caller, Release(c)
  PROVE  Control'
<1> USE DEF IInv, Control
<1>1. /\ \A d \in Caller \ {c} : call'[d] = call[d]
      /\ call[c].pc = "free" /\ call'[c].pc = "idle" /\ call'[c].s = NULL
      /\ UNCHANGED <<worker, seq_lock>>
  BY VariableTypes DEF Release, Return, Idle
<1>2. /\ call[c].s \in Session
      /\ \A d \in Caller \ {c} : call[d].s # call[c].s
      /\ worker[call[c].s].pc \notin LoopLabels \cup {"created"}
  BY <1>1 DEF Typed, CallTyped, Exclusive, OwnLabels, HandShake
<1>3. /\ sp'[call[c].s].state = "freed"
      /\ \A t \in Session \ {call[c].s} : sp'[t] = sp[t] /\ m_data'[t] = m_data[t]
      /\ ~m_data'[call[c].s].b_start
  BY <1>2, VariableTypes DEF Release, NoParam, NewParam, NewData
<1>4. QueueMutex'
  BY <1>1, <1>2, <1>3 DEF QueueMutex
<1>5. Exclusive' /\ CallsLive'
  <2>1. \A d \in Caller : call[d].pc # "idle" => call[d].s \in Session
    BY DEF Typed, CallTyped
  <2>2. \A d, e \in Caller :
          call[d].pc \in OwnLabels /\ d # e => call[e].s # call[d].s
    BY DEF Exclusive
  <2>3. Exclusive'
    BY <1>1, <1>2, <1>3, <2>1, <2>2, NamesAssumption DEF Exclusive, OwnLabels
  <2>4. CallsLive'
    BY <1>1, <1>2, <1>3, <2>1 DEF CallsLive, Live
  <2> QED
    BY <2>3, <2>4
<1>6. StartFlag'
  BY <1>1, <1>2, <1>3 DEF StartFlag, LoopLabels
<1>7. HandShake'
  BY <1>1, <1>2, <1>3 DEF HandShake, CallsLive, Exclusive, OwnLabels, LoopLabels, StartFlag, Live
<1>8. LiveWhileRunning'
  BY <1>1, <1>2, <1>3 DEF LiveWhileRunning, LoopLabels, HandShake, CallsLive, Exclusive, OwnLabels, Live
<1>9. WorkAhead'
  BY <1>1, <1>2, <1>3 DEF WorkAhead, BeingPushed, LoopLabels
<1> QED
  BY <1>4, <1>5, <1>6, <1>7, <1>8, <1>9

(* WorkerStart keeps Control.                                              *)
LEMMA ControlWorkerStart ==
  ASSUME IInv, NEW s \in Session, WorkerStart(s)
  PROVE  Control'
<1> USE DEF IInv, Control
<1>1. /\ \A t \in Session \ {s} : worker'[t] = worker[t]
      /\ worker[s].pc = "created" /\ worker'[s].pc = "test"
      /\ UNCHANGED <<sp, call, seq_lock>>
  BY VariableTypes DEF WorkerStart, Step, WorkerType
<1>2. /\ m_data'[s].b_start = TRUE /\ m_data'[s].q_buf = m_data[s].q_buf
      /\ \A t \in Session \ {s} : m_data'[t] = m_data[t]
  BY VariableTypes DEF WorkerStart, DataType
<1>3. Live(s) /\ \A c \in Caller : call[c].pc # "idle" => call[c].s \in Session
  BY <1>1 DEF HandShake, CallsLive, Typed, CallTyped
<1>4. \A c \in Caller : call[c].pc \in {"begin", "spawn", "bye", "free"} => call[c].s # s
  BY <1>1 DEF HandShake, Exclusive, OwnLabels
<1>5. QueueMutex'
  BY <1>1, <1>2, <1>3, <1>4 DEF QueueMutex
<1>6. Exclusive' /\ CallsLive'
  BY <1>1, <1>2, <1>3, <1>4 DEF Exclusive, CallsLive, OwnLabels, Live
<1>7. StartFlag'
  BY <1>1, <1>2, <1>3, <1>4 DEF StartFlag, LoopLabels
<1>8. HandShake'
  BY <1>1, <1>2, <1>3, <1>4 DEF HandShake, CallsLive, Exclusive, OwnLabels, LoopLabels, StartFlag, Live
<1>9. LiveWhileRunning'
  BY <1>1, <1>2, <1>3, <1>4 DEF LiveWhileRunning, LoopLabels, HandShake, CallsLive, Exclusive, OwnLabels, Live
<1>10. WorkAhead'
  BY <1>1, <1>2, <1>3, <1>4 DEF WorkAhead, BeingPushed, LoopLabels
<1> QED
  BY <1>5, <1>6, <1>7, <1>8, <1>9, <1>10

(* WorkerStop keeps Control.                                               *)
LEMMA ControlWorkerStop ==
  ASSUME IInv, NEW s \in Session, WorkerStop(s)
  PROVE  Control'
<1> USE DEF IInv, Control
<1>1. /\ \A t \in Session \ {s} : worker'[t] = worker[t]
      /\ worker[s].pc = "test" /\ worker'[s].pc \in {"log", "dead"}
      /\ UNCHANGED <<sp, call, seq_lock>>
  BY VariableTypes DEF WorkerStop, Step, WorkerType
<1>2. /\ m_data'[s].b_start = FALSE /\ m_data'[s].q_buf = m_data[s].q_buf
      /\ \A t \in Session \ {s} : m_data'[t] = m_data[t]
  BY VariableTypes DEF WorkerStop, DataType
<1>3. \A c \in Caller : call[c].pc # "idle" => call[c].s \in Session
  BY DEF Typed, CallTyped
<1>4. QueueMutex'
  BY <1>1, <1>2, <1>3 DEF QueueMutex
<1>5. Exclusive' /\ CallsLive'
  BY <1>1, <1>2, <1>3 DEF Exclusive, CallsLive, OwnLabels, Live
<1>6. StartFlag'
  BY <1>1, <1>2, <1>3 DEF StartFlag, LoopLabels
<1>7. HandShake'
  BY <1>1, <1>2, <1>3 DEF HandShake, CallsLive, Exclusive, OwnLabels, LoopLabels, StartFlag, Live
<1>8. LiveWhileRunning'
  BY <1>1, <1>2, <1>3 DEF LiveWhileRunning, LoopLabels, HandShake, CallsLive, Exclusive, OwnLabels, Live
<1>9. WorkAhead'
  BY <1>1, <1>2, <1>3 DEF WorkAhead, BeingPushed, LoopLabels
<1> QED
  BY <1>4, <1>5, <1>6, <1>7, <1>8, <1>9

(* WorkerLog keeps Control.                                                *)
LEMMA ControlWorkerLog ==
  ASSUME IInv, NEW s \in Session, WorkerLog(s)
  PROVE  Control'
<1> USE DEF IInv, Control
<1>1. /\ \A t \in Session \ {s} : worker'[t] = worker[t]
      /\ worker[s].pc = "log" /\ worker'[s].pc = "dead"
      /\ UNCHANGED <<sp, call, seq_lock>>
      /\ UNCHANGED m_data
  BY VariableTypes DEF WorkerLog, Step, WorkerType
<1>2. \A c \in Caller : call[c].pc # "idle" => call[c].s \in Session
  BY DEF Typed, CallTyped
<1>3. QueueMutex'
  BY <1>1, <1>2 DEF QueueMutex
<1>4. Exclusive' /\ CallsLive'
  BY <1>1, <1>2 DEF Exclusive, CallsLive, OwnLabels, Live
<1>5. StartFlag'
  BY <1>1, <1>2 DEF StartFlag, LoopLabels
<1>6. HandShake'
  BY <1>1, <1>2 DEF HandShake, CallsLive, Exclusive, OwnLabels, LoopLabels, StartFlag, Live
<1>7. LiveWhileRunning'
  BY <1>1, <1>2 DEF LiveWhileRunning, LoopLabels, HandShake, CallsLive, Exclusive, OwnLabels, Live
<1>8. WorkAhead'
  BY <1>1, <1>2 DEF WorkAhead, BeingPushed, LoopLabels
<1> QED
  BY <1>3, <1>4, <1>5, <1>6, <1>7, <1>8

(* WorkerPeek keeps Control.                                               *)
LEMMA ControlWorkerPeek ==
  ASSUME IInv, NEW s \in Session, WorkerPeek(s)
  PROVE  Control'
<1> USE DEF IInv, Control
<1>1. /\ \A t \in Session \ {s} : worker'[t] = worker[t]
      /\ worker[s].pc = "peek" /\ worker'[s].pc \in {"lock", "test"}
      /\ UNCHANGED <<sp, call, seq_lock>>
      /\ UNCHANGED m_data
  BY VariableTypes DEF WorkerPeek, Step, WorkerType
<1>2. worker'[s].pc = "lock" => m_data[s].q_buf # <<>> \/ BeingPushed(s)
  BY VariableTypes DEF WorkerPeek, HasWork, Step, WorkerType
<1>3. \A c \in Caller : call[c].pc # "idle" => call[c].s \in Session
  BY DEF Typed, CallTyped
<1>4. QueueMutex'
  BY <1>1, <1>2, <1>3 DEF QueueMutex
<1>5. Exclusive' /\ CallsLive'
  BY <1>1, <1>2, <1>3 DEF Exclusive, CallsLive, OwnLabels, Live
<1>6. StartFlag'
  BY <1>1, <1>2, <1>3 DEF StartFlag, LoopLabels
<1>7. HandShake'
  BY <1>1, <1>2, <1>3 DEF HandShake, CallsLive, Exclusive, OwnLabels, LoopLabels, StartFlag, Live
<1>8. LiveWhileRunning'
  BY <1>1, <1>2, <1>3 DEF LiveWhileRunning, LoopLabels, HandShake, CallsLive, Exclusive, OwnLabels, Live
<1>9. WorkAhead'
  BY <1>1, <1>2, <1>3 DEF WorkAhead, BeingPushed, LoopLabels
<1> QED
  BY <1>4, <1>5, <1>6, <1>7, <1>8, <1>9

(* WorkerLock keeps Control.                                               *)
LEMMA ControlWorkerLock ==
  ASSUME IInv, NEW s \in Session, WorkerLock(s)
  PROVE  Control'
<1> USE DEF IInv, Control
<1>1. /\ \A t \in Session \ {s} : worker'[t] = worker[t]
      /\ worker[s].pc = "lock" /\ worker'[s].pc = "pop"
      /\ seq_lock = NULL /\ seq_lock' = s /\ UNCHANGED <<sp, call>>
      /\ UNCHANGED m_data
  BY VariableTypes DEF WorkerLock, CanLock, Step, WorkerType
<1>2. \A c \in Caller : call[c].pc # "idle" => call[c].s \in Session
  BY DEF Typed, CallTyped
<1>3. QueueMutex'
  BY <1>1, <1>2 DEF QueueMutex
<1>4. Exclusive' /\ CallsLive'
  BY <1>1, <1>2 DEF Exclusive, CallsLive, OwnLabels, Live
<1>5. StartFlag'
  BY <1>1, <1>2 DEF StartFlag, LoopLabels
<1>6. HandShake'
  BY <1>1, <1>2 DEF HandShake, CallsLive, Exclusive, OwnLabels, LoopLabels, StartFlag, Live
<1>7. LiveWhileRunning'
  BY <1>1, <1>2 DEF LiveWhileRunning, LoopLabels, HandShake, CallsLive, Exclusive, OwnLabels, Live
<1>8. WorkAhead'
  BY <1>1, <1>2 DEF WorkAhead, BeingPushed, LoopLabels
<1> QED
  BY <1>3, <1>4, <1>5, <1>6, <1>7, <1>8

(* WorkerPop keeps Control.                                                *)
LEMMA ControlWorkerPop ==
  ASSUME IInv, NEW s \in Session, WorkerPop(s)
  PROVE  Control'
<1> USE DEF IInv, Control
<1>1. /\ \A t \in Session \ {s} : worker'[t] = worker[t]
      /\ worker[s].pc = "pop" /\ worker'[s].pc = "send"
      /\ seq_lock = s /\ seq_lock' = NULL /\ UNCHANGED <<sp, call>>
  BY VariableTypes DEF WorkerPop, QueueMutex, WorkerType
<1>2. /\ m_data'[s].b_start = m_data[s].b_start
      /\ \A t \in Session \ {s} : m_data'[t] = m_data[t]
  BY VariableTypes DEF WorkerPop, DataType
<1>3. \A c \in Caller : call[c].pc # "idle" => call[c].s \in Session
  BY DEF Typed, CallTyped
<1>4. QueueMutex'
  BY <1>1, <1>2, <1>3 DEF QueueMutex
<1>5. Exclusive' /\ CallsLive'
  BY <1>1, <1>2, <1>3 DEF Exclusive, CallsLive, OwnLabels, Live
<1>6. StartFlag'
  BY <1>1, <1>2, <1>3 DEF StartFlag, LoopLabels
<1>7. HandShake'
  BY <1>1, <1>2, <1>3 DEF HandShake, CallsLive, Exclusive, OwnLabels, LoopLabels, StartFlag, Live
<1>8. LiveWhileRunning'
  BY <1>1, <1>2, <1>3 DEF LiveWhileRunning, LoopLabels, HandShake, CallsLive, Exclusive, OwnLabels, Live
<1>9. WorkAhead'
  BY <1>1, <1>2, <1>3 DEF WorkAhead, BeingPushed, LoopLabels
<1> QED
  BY <1>4, <1>5, <1>6, <1>7, <1>8, <1>9

(* The initial states satisfy it.                                          *)
LEMMA ControlInit == Init => Control
BY NamesAssumption DEF Init, Control, QueueMutex, Exclusive, CallsLive, StartFlag, HandShake,
   LiveWhileRunning, WorkAhead, Idle, OwnLabels, LoopLabels, NewData, NoParam, NewParam

(* CloudVDInit and CloudVDFini, and steps that change nothing.             *)
LEMMA ControlKept ==
  ASSUME IInv, UNCHANGED <<seq_lock, sp, m_data, worker, call>>
  PROVE  Control'
BY DEF IInv, Control, QueueMutex, Exclusive, CallsLive, StartFlag, HandShake,
   LiveWhileRunning, WorkAhead, BeingPushed, Live

-----------------------------------------------------------------------------
(* The invariant.                                                          *)

(* It holds initially.                                                     *)
LEMMA InvariantInit == Init => IInv
BY TypedInit, ControlInit DEF IInv

(* A call in progress keeps it ...                                         *)
LEMMA CallInvariant ==
  ASSUME IInv, NEW c \in Caller, CallStep(c)
  PROVE  IInv'
<1> USE DEF IInv
<1>1. CASE BeginFailed(c)
  BY <1>1, TypedBeginFailed, ControlBeginFailed
<1>2. CASE BeginReplied(c)
  BY <1>2, TypedBeginReplied, ControlBeginReplied
<1>3. CASE SpawnThread(c)
  BY <1>3, TypedSpawnThread, ControlSpawnThread
<1>4. CASE SpawnFailed(c)
  BY <1>4, TypedSpawnFailed, ControlSpawnFailed
<1>5. CASE ThreadStarted(c)
  BY <1>5, TypedThreadStarted, ControlThreadStarted
<1>6. CASE PushLock(c)
  BY <1>6, TypedPushLock, ControlPushLock
<1>7. CASE PushUnlock(c)
  BY <1>7, TypedPushUnlock, ControlPushUnlock
<1>8. CASE PollDone(c)
  BY <1>8, TypedPollDone, ControlPollDone
<1>9. CASE PollFailed(c)
  BY <1>9, TypedPollFailed, ControlPollFailed
<1>10. CASE Join(c)
  BY <1>10, TypedJoin, ControlJoin
<1>11. CASE SessionEnd(c)
  BY <1>11, TypedSessionEnd, ControlSessionEnd
<1>12. CASE Release(c)
  BY <1>12, TypedRelease, ControlRelease
<1> QED
  BY <1>1, <1>2, <1>3, <1>4, <1>5, <1>6, <1>7, <1>8, <1>9, <1>10, <1>11, <1>12 DEF CallStep

(* ... and so does what the application does next ...                      *)
LEMMA AppInvariant ==
  ASSUME IInv, NEW c \in Caller, AppStep(c)
  PROVE  IInv'
<1> USE DEF IInv
<1>1. CASE CopyResult(c)
  BY <1>1, TypedCopyResult, ControlCopyResult
<1>2. ASSUME NEW s \in Session,
             \/ StartSession(c, s) \/ PostBuffered(c, s) \/ PostData(c, s)
             \/ GetPartialResult(c, s) \/ GetFinalResult(c, s) \/ EndSession(c, s)
      PROVE  IInv'
  <2>1. CASE StartSession(c, s)
    BY <2>1, TypedStartSession, ControlStartSession
  <2>2. CASE PostBuffered(c, s)
    BY <2>2, TypedPostBuffered, ControlPostBuffered
  <2>3. CASE PostData(c, s)
    BY <2>3, TypedPostData, ControlPostData
  <2>4. CASE GetPartialResult(c, s)
    BY <2>4, TypedGetPartialResult, ControlGetPartialResult
  <2>5. CASE GetFinalResult(c, s)
    BY <2>5, TypedGetFinalResult, ControlGetFinalResult
  <2>6. CASE EndSession(c, s)
    BY <2>6, TypedEndSession, ControlEndSession
  <2> QED
    BY <1>2, <2>1, <2>2, <2>3, <2>4, <2>5, <2>6
<1> QED
  BY <1>1, <1>2 DEF AppStep

(* ... and an upload thread.                                               *)
LEMMA WorkerInvariant ==
  ASSUME IInv, NEW s \in Session, WorkerStep(s)
  PROVE  IInv'
<1> USE DEF IInv
<1>1. CASE WorkerStart(s)
  BY <1>1, TypedWorkerStart, ControlWorkerStart
<1>2. CASE WorkerTest(s)
  BY <1>2, TypedWorkerTest, ControlWorkerTest
<1>3. CASE WorkerStop(s)
  BY <1>3, TypedWorkerStop, ControlWorkerStop
<1>4. CASE WorkerLog(s)
  BY <1>4, TypedWorkerLog, ControlWorkerLog
<1>5. CASE WorkerPeek(s)
  BY <1>5, TypedWorkerPeek, ControlWorkerPeek
<1>6. CASE WorkerLock(s)
  BY <1>6, TypedWorkerLock, ControlWorkerLock
<1>7. CASE WorkerPop(s)
  BY <1>7, TypedWorkerPop, ControlWorkerPop
<1>8. CASE WorkerSend(s)
  BY <1>8, TypedWorkerSend, ControlWorkerSend
<1>9. CASE WorkerRetry(s)
  BY <1>9, TypedWorkerRetry, ControlWorkerRetry
<1>10. CASE WorkerText(s)
  BY <1>10, TypedWorkerText, ControlWorkerText
<1>11. CASE WorkerCode(s)
  BY <1>11, TypedWorkerCode, ControlWorkerCode
<1>12. CASE WorkerFail(s)
  BY <1>12, TypedWorkerFail, ControlWorkerFail
<1>13. CASE WorkerLast(s)
  BY <1>13, TypedWorkerLast, ControlWorkerLast
<1> QED
  BY <1>1, <1>2, <1>3, <1>4, <1>5, <1>6, <1>7, <1>8, <1>9, <1>10, <1>11, <1>12, <1>13 DEF WorkerStep

(* IInv is inductive.                                                      *)
LEMMA InvariantStep == IInv /\ [Next]_vars => IInv'
<1> SUFFICES ASSUME IInv, [Next]_vars PROVE IInv'
  OBVIOUS
<1>1. CASE CloudVDInit \/ CloudVDInitRefused
  <2>1. UNCHANGED <<seq_lock, sp, m_data, worker, call>>
    BY <1>1 DEF CloudVDInit, CloudVDInitRefused
  <2> QED
    BY <1>1, <2>1, TypedCloudVDInit, ControlKept DEF IInv
<1>2. CASE CloudVDFini
  <2>1. UNCHANGED <<seq_lock, sp, m_data, worker, call>>
    BY <1>2 DEF CloudVDFini
  <2> QED
    BY <1>2, <2>1, TypedCloudVDFini, ControlKept DEF IInv
<1>3. ASSUME NEW c \in Caller, CallStep(c) \/ AppStep(c) PROVE IInv'
  BY <1>3, CallInvariant, AppInvariant
<1>4. ASSUME NEW s \in Session, WorkerStep(s) PROVE IInv'
  BY <1>4, WorkerInvariant
<1>5. CASE UNCHANGED vars
  <2>1. UNCHANGED <<seq_lock, sp, m_data, worker, call>>
    BY <1>5 DEF vars
  <2> QED
    BY <1>5, <2>1, TypedStutter, ControlKept DEF IInv
<1> QED
  BY <1>1, <1>2, <1>3, <1>4, <1>5 DEF Next

(* In every reachable state, for every instance of the constants, a call   *)
(* in progress has its session, its upload thread, its queue and the flags *)
(* they share in step.                                                     *)
THEOREM Invariant == Spec => []IInv
<1> QED
  BY InvariantInit, InvariantStep, PTL DEF Spec

-----------------------------------------------------------------------------
(* What follows from it.                                                   *)

(* Every variable keeps the type of the C++ object it stands for.          *)
THEOREM TypeCorrect == Spec => []TypeOK
<1>1. IInv => TypeOK
  BY DEF IInv, Typed
<1> QED
  BY <1>1, Invariant, PTL

(* seq_lock (CloudVDPostData against ThreadPostData) excludes: at most one *)
(* thread, of any session, is between its lock and its unlock.             *)
THEOREM MutualExclusion == Spec => []QueueMutex
<1>1. IInv => QueueMutex
  BY DEF IInv, Control
<1> QED
  BY <1>1, Invariant, PTL

(* ThreadPostData tests q_buf.empty() outside the mutex and still never    *)
(* takes the front of an empty queue: only a push in progress may have     *)
(* misled it, and that push is over when the thread has the mutex.         *)
THEOREM NeverPopsEmpty == Spec => []NoPopFromEmpty
<1>1. IInv => NoPopFromEmpty
  <2> SUFFICES ASSUME IInv, NEW s \in Session, worker[s].pc = "pop"
               PROVE  m_data[s].q_buf # <<>>
    BY DEF NoPopFromEmpty
  <2>1. QueueMutex /\ WorkAhead
    BY DEF IInv, Control
  <2>2. seq_lock = s
    BY <2>1 DEF QueueMutex
  <2>3. ~BeingPushed(s)
    BY <2>1, <2>2, NamesAssumption DEF QueueMutex, BeingPushed
  <2> QED
    BY <2>1, <2>3 DEF WorkAhead
<1> QED
  BY <1>1, Invariant, PTL

(* CloudVDEndSession deletes no session whose upload thread is still in    *)
(* its loop.                                                               *)
THEOREM Lifetime == Spec => []LiveWhileRunning
<1>1. IInv => LiveWhileRunning
  BY DEF IInv, Control
<1> QED
  BY <1>1, Invariant, PTL

=============================================================================
