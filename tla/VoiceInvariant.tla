--------------------------- MODULE VoiceInvariant ---------------------------
(***************************************************************************)
(* The inductive invariant of VoiceSession behind its typing, the queue's  *)
(* mutual exclusion and the life time of a session's data.  TLC checks it  *)
(* on an instance; VoiceSessionProofs proves it for every instance.        *)
(***************************************************************************)
EXTENDS VoiceSession

(* TypeOK is not inductive: what a thread queues or uploads is a packet    *)
(* because of the label the thread is at.                                  *)
CallTyped ==
  \A c \in Caller :
    /\ call[c].pc # "idle" => call[c].s \in Session
    /\ call[c].pc \in {"push", "pushing"} => call[c].pkt \in Packet

PacketLabels == {"send", "retry", "text", "code", "fail"}

WorkerTyped ==
  \A s \in Session :
    /\ worker[s].pc \in PacketLabels => worker[s].pkt \in Packet
    /\ worker[s].pc \in {"text", "code"} => worker[s].reply \in Reply

Typed == TypeOK /\ CallTyped /\ WorkerTyped

(* A call that starts or ends a session has it for itself.                 *)
OwnLabels == {"begin", "spawn", "spawned", "join", "bye", "free"}

Exclusive ==
  \A c, d \in Caller :
    call[c].pc \in OwnLabels /\ c # d => call[d].s # call[c].s

(* An application thread in a call works on a live session; one that is in *)
(* none has let go of its handle.                                          *)
CallsLive ==
  \A c \in Caller : IF call[c].pc = "idle" THEN call[c].s = NULL
                                           ELSE Live(call[c].s)

(* b_start says exactly whether the upload thread is in its loop.          *)
StartFlag ==
  \A s \in Session : m_data[s].b_start <=> worker[s].pc \in LoopLabels

(* Up to pthread_create a session has no upload thread; until the thread   *)
(* has set b_start its creator is waiting for it; and past the wait of     *)
(* CloudVDEndSession the thread is out of its loop.                        *)
HandShake ==
  /\ \A s \in Session : sp[s].state = "unused" => worker[s].pc = "none"
  /\ \A c \in Caller : call[c].pc \in {"begin", "spawn"} => worker[call[c].s].pc = "none"
  /\ \A s \in Session : worker[s].pc = "created" =>
       \E c \in Caller : call[c].pc = "spawned" /\ call[c].s = s
  /\ \A c \in Caller : call[c].pc \in {"bye", "free"} =>
       worker[call[c].s].pc \notin LoopLabels

(* An upload thread that decided to pop has something to pop, or will have *)
(* it by the time it gets the lock.                                        *)
WorkAhead ==
  \A s \in Session : worker[s].pc \in {"lock", "pop"} =>
    m_data[s].q_buf # <<>> \/ BeingPushed(s)

Control == /\ QueueMutex
           /\ Exclusive
           /\ CallsLive
           /\ StartFlag
           /\ HandShake
           /\ LiveWhileRunning
           /\ WorkAhead

IInv == Typed /\ Control

=============================================================================
