------------------------------ MODULE ParsingIP ------------------------------
(***************************************************************************)
(* Parsing_IP (DNS.cpp): a URL's address is asked of two detached threads  *)
(* at once, Get_IP_pod (an HTTP name service) and Get_IP_normal            *)
(* (getaddrinfo), which answer in the globals pod_ip and normal_ip; then   *)
(* SIGUSR1 is sent to those still running.  The threads of earlier calls   *)
(* share the globals.  A step is one access to them, as built for Android. *)
(***************************************************************************)
EXTENDS Naturals

CONSTANTS
  Url,            (* what may be resolved; the address of u is named u      *)
  NoIP,           (* the empty string                                       *)
  MaxCalls,       (* bound: calls of Parsing_IP, one after the other        *)
  CreateMayFail   (* TRUE: pthread_create may return an error               *)

ASSUME UrlAssumption   == NoIP \notin Url
ASSUME CallsAssumption == MaxCalls \in Nat
ASSUME FlagsAssumption == CreateMayFail \in BOOLEAN

VARIABLES
  pc,             (* where the calling thread is                            *)
  calls,          (* how many calls there have been                         *)
  ip,             (* pod_ip and normal_ip                                   *)
  ID,             (* pod_ID and normal_ID: the call that created the thread *)
  thread,         (* the threads of each kind and call                      *)
  signalled,      (* threads with SIGUSR1 pending                           *)
  IP,             (* the string the last call returned                      *)
  clean           (* ghost: no thread of an earlier call was alive when the *)
                  (* call began                                             *)

vars == <<pc, calls, ip, ID, thread, signalled, IP, clean>>

Kind == {"pod", "normal"}

NoThread == 0

(* A thread at a label where it has no local variables.                    *)
At(label) == [pc |-> label, url |-> NoIP, out |-> "INIT_STATUS"]

Init ==
  /\ pc = <<"idle">>
  /\ calls = 0
  /\ ip = [k \in Kind |-> [b_start |-> FALSE, b_status |-> "INIT_STATUS",
                           url |-> NoIP, IP |-> NoIP]]
  /\ ID = [k \in Kind |-> NoThread]
  /\ thread = [k \in Kind |-> [n \in 1..MaxCalls |-> At("none")]]
  /\ signalled = {}
  /\ IP = NoIP
  /\ clean = TRUE

Alive(k, n) == thread[k][n].pc \notin {"none", "dead"}

Quiet == \A k \in Kind, n \in 1..MaxCalls : ~Alive(k, n)

-----------------------------------------------------------------------------
(* The calling thread.                                                     *)

Call ==
  /\ pc = <<"idle">> /\ calls < MaxCalls
  /\ \E url \in Url :
       ip' = [k \in Kind |-> [b_start |-> FALSE, b_status |-> "INIT_STATUS",
                              url |-> url, IP |-> NoIP]]
  /\ calls' = calls + 1
  /\ IP' = NoIP
  /\ clean' = Quiet
  /\ pc' = <<"create", "pod">>
  /\ UNCHANGED <<ID, thread, signalled>>

AfterStart(k) == IF k = "pod" THEN <<"create", "normal">> ELSE <<"check">>

CreateThread(k) ==
  /\ pc = <<"create", k>>
  /\ thread' = [thread EXCEPT ![k][calls].pc = "created"]
  /\ ID' = [ID EXCEPT ![k] = calls]
  /\ pc' = <<"await", k>>
  /\ UNCHANGED <<calls, ip, signalled, IP, clean>>

(* The status is compared with UNSUCCEEDED here, not set to it.            *)
CreateFailed(k) ==
  /\ pc = <<"create", k>>
  /\ CreateMayFail
  /\ ip' = [ip EXCEPT ![k].IP = NoIP]
  /\ pc' = AfterStart(k)
  /\ UNCHANGED <<calls, ID, thread, signalled, IP, clean>>

(* while (!b_start) Time_sleep(1);                                         *)
Started(k) ==
  /\ pc = <<"await", k>>
  /\ ip[k].b_start
  /\ pc' = AfterStart(k)
  /\ UNCHANGED <<calls, ip, ID, thread, signalled, IP, clean>>

Succeeded(k)   == ip[k].b_status = "SUCCEEDED"
Unsucceeded(k) == ip[k].b_status = "UNSUCCEEDED"

TimeoutIgnored ==
  \/ \E k \in Kind : Succeeded(k)
  \/ \A k \in Kind : Unsucceeded(k)

(* What ends while (true).                                                 *)
Settled ==
  \/ \E k \in Kind : Succeeded(k)
  \/ ip["pod"].b_status = "POD_TIME_OUT"
  \/ \A k \in Kind : Unsucceeded(k)

EitherPending == \E k \in Kind : ip[k].b_status = "INIT_STATUS"

(* pod_ip failed: normal_ip gets another 100 ms.                           *)
OnlyNormalPending == Unsucceeded("pod") /\ ip["normal"].b_status = "INIT_STATUS"

Settle ==
  /\ pc = <<"check">>
  /\ Settled
  /\ pc' = <<"choose">>
  /\ UNCHANGED <<calls, ip, ID, thread, signalled, IP, clean>>

(* The 100 ms end, or the answer comes before: either way out of the loop. *)
Grace ==
  /\ pc = <<"check">>
  /\ OnlyNormalPending
  /\ pc' = <<"grace">>
  /\ UNCHANGED <<calls, ip, ID, thread, signalled, IP, clean>>

GraceOver ==
  /\ pc = <<"grace">>
  /\ pc' = <<"choose">>
  /\ UNCHANGED <<calls, ip, ID, thread, signalled, IP, clean>>

Answer == IF Succeeded("pod") THEN ip["pod"].IP
          ELSE IF Succeeded("normal") THEN ip["normal"].IP
          ELSE NoIP

Choose ==
  /\ pc = <<"choose">>
  /\ IP' = Answer
  /\ pc' = <<"kill", "normal">>
  /\ UNCHANGED <<calls, ip, ID, thread, signalled, clean>>

(* pthread_kill(id, 0) tells a thread that is alive, and only that one is  *)
(* sent SIGUSR1; nothing waits for it to act on the signal.                *)
Kill(k) ==
  /\ pc = <<"kill", k>>
  /\ signalled' = IF ID[k] # NoThread /\ Alive(k, ID[k])
                  THEN signalled \cup {<<k, ID[k]>>} ELSE signalled
  /\ pc' = IF k = "normal" THEN <<"kill", "pod">> ELSE <<"idle">>
  /\ UNCHANGED <<calls, ip, ID, thread, IP, clean>>

-----------------------------------------------------------------------------
(* Get_IP_pod and Get_IP_normal, in the n-th call.                         *)

ThreadStart(k, n) ==
  /\ thread[k][n].pc = "created"
  /\ ip' = [ip EXCEPT ![k].b_start = TRUE]
  /\ thread' = [thread EXCEPT ![k][n].pc = "started"]
  /\ UNCHANGED <<pc, calls, ID, signalled, IP, clean>>

ReadUrl(k, n) ==
  /\ thread[k][n].pc = "started"
  /\ thread' = [thread EXCEPT ![k][n].pc = "resolving", ![k][n].url = ip[k].url]
  /\ UNCHANGED <<pc, calls, ip, ID, signalled, IP, clean>>

(* Only the name service's thread tells a timeout from a failure.          *)
Outcomes(k) ==
  {"SUCCEEDED", "UNSUCCEEDED"} \cup IF k = "pod" THEN {"POD_TIME_OUT"} ELSE {}

Resolved(k, n) ==
  /\ thread[k][n].pc = "resolving"
  /\ \E out \in Outcomes(k) :
       thread' = [thread EXCEPT ![k][n].pc = "first", ![k][n].out = out]
  /\ UNCHANGED <<pc, calls, ip, ID, signalled, IP, clean>>

StatusFirst(out) == FALSE

(* A success is announced after its address is stored; a failure before    *)
(* the address is cleared.                                                 *)
AddressFirst(out) == out = "SUCCEEDED"

StatusAsAddress(k, n) == ip' = [ip EXCEPT ![k].IP = thread[k][n].out]

StoreAddress(k, n) ==
  ip' = [ip EXCEPT ![k].IP = IF thread[k][n].out = "SUCCEEDED"
                             THEN thread[k][n].url ELSE NoIP]

StoreStatus(k, n) == ip' = [ip EXCEPT ![k].b_status = thread[k][n].out]

StoreFirst(k, n) ==
  /\ thread[k][n].pc = "first"
  /\ IF AddressFirst(thread[k][n].out) THEN StoreAddress(k, n) ELSE StoreStatus(k, n)
  /\ thread' = [thread EXCEPT ![k][n].pc = "second"]
  /\ UNCHANGED <<pc, calls, ID, signalled, IP, clean>>

StoreSecond(k, n) ==
  /\ thread[k][n].pc = "second"
  /\ IF AddressFirst(thread[k][n].out) THEN StoreStatus(k, n) ELSE StoreAddress(k, n)
  /\ thread' = [thread EXCEPT ![k][n] = At("finish")]
  /\ UNCHANGED <<pc, calls, ID, signalled, IP, clean>>

(* The last log lines, and pthread_exit.                                   *)
ThreadExit(k, n) ==
  /\ thread[k][n].pc = "finish"
  /\ thread' = [thread EXCEPT ![k][n] = At("dead")]
  /\ signalled' = signalled \ {<<k, n>>}
  /\ UNCHANGED <<pc, calls, ip, ID, IP, clean>>

(* thread_exit_handler, wherever the thread is.                            *)
SignalHandled(k, n) ==
  /\ <<k, n>> \in signalled /\ Alive(k, n)
  /\ thread' = [thread EXCEPT ![k][n] = At("dead")]
  /\ signalled' = signalled \ {<<k, n>>}
  /\ UNCHANGED <<pc, calls, ip, ID, IP, clean>>

-----------------------------------------------------------------------------

CallerStep ==
  \/ Settle \/ Grace \/ GraceOver \/ Choose
  \/ \E k \in Kind : CreateThread(k) \/ CreateFailed(k) \/ Started(k) \/ Kill(k)

ThreadStep(k, n) ==
  \/ ThreadStart(k, n) \/ ReadUrl(k, n) \/ Resolved(k, n) \/ StoreFirst(k, n)
  \/ StoreSecond(k, n) \/ ThreadExit(k, n) \/ SignalHandled(k, n)

Next ==
  \/ Call \/ CallerStep
  \/ \E k \in Kind, n \in 1..MaxCalls : ThreadStep(k, n)

Spec == Init /\ [][Next]_vars

(* Threads are scheduled, and a resolution ends (CURLOPT_TIMEOUT, and the  *)
(* resolver's own); nobody has to call again.                              *)
FairSpec ==
  /\ Spec
  /\ WF_vars(CallerStep)
  /\ \A k \in Kind, n \in 1..MaxCalls : WF_vars(ThreadStep(k, n))

-----------------------------------------------------------------------------
(* Properties.                                                             *)

Status == {"INIT_STATUS", "SUCCEEDED", "UNSUCCEEDED", "POD_TIME_OUT"}

Labels == {<<"idle">>, <<"check">>, <<"grace">>, <<"choose">>}
            \cup {"create", "await", "kill"} \X Kind

(* Every variable has the type of the C++ object it stands for.            *)
TypeOK ==
  /\ pc \in Labels
  /\ calls \in 0..MaxCalls
  /\ ip \in [Kind -> [b_start: BOOLEAN, b_status: Status, url: Url \cup {NoIP},
                      IP: Url \cup {NoIP}]]
  /\ ID \in [Kind -> 0..MaxCalls]
  /\ thread \in [Kind -> [1..MaxCalls ->
                   [pc: {"none", "created", "started", "resolving", "first",
                         "second", "finish", "dead"},
                    url: Url \cup {NoIP}, out: Status]]]
  /\ signalled \subseteq Kind \X (1..MaxCalls)
  /\ IP \in Url \cup {NoIP}
  /\ clean \in BOOLEAN

(* Without a lock: whoever reads SUCCEEDED finds the address asked for,    *)
(* unless a thread of an earlier call was still there when this one began. *)
PublishedWithAddress ==
  clean => \A k \in Kind : Succeeded(k) => ip[k].IP = ip[k].url

(* Parsing_IP gives up on a name only after Get_IP_pod has: an empty       *)
(* string is never the result of leaving the loop too early.               *)
EmptyMeansPodFailed ==
  clean /\ pc \in {<<"idle">>} \cup {"kill"} \X Kind /\ calls > 0 /\ IP = NoIP =>
    ip["pod"].b_status \in {"UNSUCCEEDED", "POD_TIME_OUT"}

Polling == pc \in {<<"check">>, <<"grace">>}

(* A call both of whose threads could be created returns, whatever becomes *)
(* of the two resolutions and however late earlier threads die.            *)
ParsingReturns ==
  pc # <<"idle">> ~> \/ pc = <<"idle">>
                     \/ Polling /\ \E k \in Kind : ID[k] # calls

-----------------------------------------------------------------------------
(* What the repository says and the code does not do.                      *)

(* "Both threads return failure" is one of the three conditions that end   *)
(* the loop (comment in Parsing_IP): the loop ends in every call.          *)
LoopEnds == Polling ~> ~Polling

=============================================================================
