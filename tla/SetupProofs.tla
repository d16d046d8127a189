----------------------------- MODULE SetupProofs -----------------------------
(***************************************************************************)
(* Proofs about what comes before a session has audio.  ParsingIP, for any *)
(* URLs, any number of calls and whether or not pthread_create may fail: a *)
(* call no thread of an earlier one interferes with publishes only the     *)
(* address it was asked for, and gives up only when the name service has.  *)
(* SessionConfig, for any fields and texts of a parameter string and any   *)
(* left-over memory: a session works with what the service is told, and    *)
(* leaves nothing behind.                                                  *)
(***************************************************************************)
EXTENDS MCSetup, SumTheorems

-----------------------------------------------------------------------------
(* The lookup of the addresses.                                            *)

(* The lines of the calling thread, one by one.                            *)
LEMMA TheLabels ==
  /\ Labels = {<<"idle">>, <<"check">>, <<"grace">>, <<"choose">>,
               <<"create", "pod">>, <<"create", "normal">>, <<"await", "pod">>,
               <<"await", "normal">>, <<"kill", "pod">>, <<"kill", "normal">>}
  /\ {"kill"} \X Kind = {<<"kill", "pod">>, <<"kill", "normal">>}
  BY DEF Labels, Kind

(* At first no call was made and there is no thread.                       *)
LEMMA TypeInit == Init => TypeOK
  BY UrlAssumption, CallsAssumption, TheLabels DEF Init, TypeOK, At, Kind, Status, NoThread

(* What the globals and the threads may hold, read off a typed state.      *)
LEMMA TypeFacts ==
  ASSUME TypeOK
  PROVE /\ \A k \in Kind : /\ ip[k].url \in Url \cup {NoIP}
                           /\ ip[k].IP \in Url \cup {NoIP}
                           /\ ip[k].b_status \in Status
        /\ \A k \in Kind, n \in 1..MaxCalls :
             /\ thread[k][n].url \in Url \cup {NoIP}
             /\ thread[k][n].out \in Status
  BY DEF TypeOK

Threads == [pc: {"none", "created", "started", "resolving", "first",
                 "second", "finish", "dead"},
            url: Url \cup {NoIP}, out: Status]

Globals == [b_start: BOOLEAN, b_status: Status, url: Url \cup {NoIP},
            IP: Url \cup {NoIP}]

(* The thread of kind k and call n becomes t, and only that one.           *)
Becomes(k, n, t) ==
  /\ thread' \in [Kind -> [1..MaxCalls -> Threads]]
  /\ thread'[k][n] = t
  /\ \A j \in Kind, m \in 1..MaxCalls :
       j # k \/ m # n => thread'[j][m] = thread[j][m]

(* A step of one thread leaves the others alone.                           *)
LEMMA ThreadUpdate ==
  ASSUME TypeOK, NEW k \in Kind, NEW n \in 1..MaxCalls, NEW t \in Threads,
         thread' = [thread EXCEPT ![k] = [thread[k] EXCEPT ![n] = t]]
  PROVE Becomes(k, n, t)
  BY DEF TypeOK, Threads, Becomes

(* A store to one of pod_ip and normal_ip leaves the other alone.          *)
LEMMA GlobalUpdate ==
  ASSUME TypeOK, NEW k \in Kind, NEW g \in Globals, ip' = [ip EXCEPT ![k] = g]
  PROVE /\ ip' \in [Kind -> Globals]
        /\ ip'[k] = g
        /\ \A j \in Kind : j # k => ip'[j] = ip[j]
  BY DEF TypeOK, Globals

(* The record of a typed thread.                                           *)
LEMMA ThreadTyped ==
  ASSUME TypeOK, NEW k \in Kind, NEW n \in 1..MaxCalls
  PROVE thread[k][n] \in Threads
<1>1. thread \in [Kind -> [1..MaxCalls -> Threads]]
  BY DEF TypeOK, Threads
<1> HIDE DEF Threads
<1> QED  BY <1>1

(* An assignment to a thread's label, and what it keeps.                   *)
LEMMA LabelUpdate ==
  ASSUME TypeOK, NEW k \in Kind, NEW n \in 1..MaxCalls,
         NEW l \in {"created", "started", "second"},
         thread' = [thread EXCEPT ![k][n].pc = l]
  PROVE Becomes(k, n, [pc |-> l, url |-> thread[k][n].url, out |-> thread[k][n].out])
<1> DEFINE t == [pc |-> l, url |-> thread[k][n].url, out |-> thread[k][n].out]
<1>1. thread[k][n] \in Threads
  BY ThreadTyped
<1>2. t \in Threads /\ [thread[k][n] EXCEPT !.pc = l] = t
  BY <1>1 DEF Threads
<1>3. thread' = [thread EXCEPT ![k] = [thread[k] EXCEPT ![n] = t]]
  BY <1>2
<1> HIDE DEF t
<1>4. Becomes(k, n, t)
  BY <1>2, <1>3, ThreadUpdate
<1> QED  BY <1>4 DEF t

(* A thread reads its URL, or learns the outcome, as it moves on.          *)
LEMMA TwoFields ==
  ASSUME NEW r \in Threads, NEW u \in Url \cup {NoIP}, NEW o \in Status
  PROVE /\ [r EXCEPT !.pc = "resolving", !.url = u] =
             [pc |-> "resolving", url |-> u, out |-> r.out]
        /\ [r EXCEPT !.pc = "first", !.out = o] =
             [pc |-> "first", url |-> r.url, out |-> o]
<1> DEFINE p == [pc |-> "resolving", url |-> r.url, out |-> r.out]
           q == [pc |-> "first", url |-> r.url, out |-> r.out]
<1>1. /\ [r EXCEPT !.pc = "resolving"] = p
      /\ [r EXCEPT !.pc = "first"] = q
  BY DEF Threads
<1>2. p \in Threads /\ q \in Threads
  BY DEF Threads
<1>3. /\ p.pc = "resolving" /\ p.out = r.out
      /\ q.pc = "first" /\ q.url = r.url
  OBVIOUS
<1> HIDE DEF p, q
<1>4. /\ [p EXCEPT !.url = u] = [pc |-> p.pc, url |-> u, out |-> p.out]
      /\ [q EXCEPT !.out = o] = [pc |-> q.pc, url |-> q.url, out |-> o]
  BY <1>2 DEF Threads
<1>5. /\ [r EXCEPT !.pc = "resolving", !.url = u] =
            [[r EXCEPT !.pc = "resolving"] EXCEPT !.url = u]
      /\ [r EXCEPT !.pc = "first", !.out = o] =
            [[r EXCEPT !.pc = "first"] EXCEPT !.out = o]
  BY DEF Threads
<1> QED  BY <1>1, <1>3, <1>4, <1>5

(* What each step of a thread makes of it.                                 *)
LEMMA ThreadMoves ==
  ASSUME TypeOK, NEW k \in Kind, NEW n \in 1..MaxCalls
  PROVE /\ ThreadStart(k, n) =>
             Becomes(k, n, [pc |-> "started", url |-> thread[k][n].url,
                            out |-> thread[k][n].out])
        /\ ReadUrl(k, n) =>
             Becomes(k, n, [pc |-> "resolving", url |-> ip[k].url,
                            out |-> thread[k][n].out])
        /\ Resolved(k, n) =>
             \E out \in Outcomes(k) :
               Becomes(k, n, [pc |-> "first", url |-> thread[k][n].url, out |-> out])
        /\ StoreFirst(k, n) =>
             Becomes(k, n, [pc |-> "second", url |-> thread[k][n].url,
                            out |-> thread[k][n].out])
        /\ StoreSecond(k, n) => Becomes(k, n, At("finish"))
        /\ ThreadExit(k, n) \/ SignalHandled(k, n) => Becomes(k, n, At("dead"))
<1>1. thread[k][n] \in Threads /\ ip[k].url \in Url \cup {NoIP}
  BY ThreadTyped DEF TypeOK
<1>2. ThreadStart(k, n) => Becomes(k, n, [pc |-> "started", url |-> thread[k][n].url,
                                          out |-> thread[k][n].out])
  BY LabelUpdate DEF ThreadStart
<1>3. StoreFirst(k, n) => Becomes(k, n, [pc |-> "second", url |-> thread[k][n].url,
                                         out |-> thread[k][n].out])
  BY LabelUpdate DEF StoreFirst
<1>4. ASSUME ReadUrl(k, n)
      PROVE  Becomes(k, n, [pc |-> "resolving", url |-> ip[k].url,
                            out |-> thread[k][n].out])
  <2> DEFINE t == [pc |-> "resolving", url |-> ip[k].url, out |-> thread[k][n].out]
  <2>1. t \in Threads
    BY <1>1 DEF Threads
  <2>u. [thread[k][n] EXCEPT !.pc = "resolving", !.url = ip[k].url] = t
    BY <1>1, TwoFields DEF Threads
  <2>2. thread' = [thread EXCEPT ![k] = [thread[k] EXCEPT ![n] = t]]
    BY <1>4, <2>u DEF ReadUrl, TypeOK
  <2> HIDE DEF t
  <2>3. Becomes(k, n, t)
    BY <2>1, <2>2, ThreadUpdate
  <2> QED  BY <2>3 DEF t
<1>5. ASSUME Resolved(k, n)
      PROVE  \E out \in Outcomes(k) :
               Becomes(k, n, [pc |-> "first", url |-> thread[k][n].url, out |-> out])
  <2>0. PICK out \in Outcomes(k) :
          thread' = [thread EXCEPT ![k][n].pc = "first", ![k][n].out = out]
    BY <1>5 DEF Resolved
  <2> DEFINE t == [pc |-> "first", url |-> thread[k][n].url, out |-> out]
  <2>1. t \in Threads
    BY <1>1 DEF Threads, Outcomes, Status
  <2>u. [thread[k][n] EXCEPT !.pc = "first", !.out = out] = t
    BY <1>1, TwoFields DEF Outcomes, Status
  <2>2. thread' = [thread EXCEPT ![k] = [thread[k] EXCEPT ![n] = t]]
    BY <2>0, <2>u DEF TypeOK
  <2> HIDE DEF t
  <2>3. Becomes(k, n, t)
    BY <2>1, <2>2, ThreadUpdate
  <2> QED  BY <2>3 DEF t
<1>6. At("finish") \in Threads /\ At("dead") \in Threads
  BY DEF At, Threads, Status
<1>7. StoreSecond(k, n) => Becomes(k, n, At("finish"))
  BY <1>6, ThreadUpdate DEF StoreSecond
<1>8. ThreadExit(k, n) \/ SignalHandled(k, n) => Becomes(k, n, At("dead"))
  BY <1>6, ThreadUpdate DEF ThreadExit, SignalHandled
<1> QED  BY <1>2, <1>3, <1>4, <1>5, <1>7, <1>8

(* What each store of a thread changes.                                    *)
LEMMA Stores ==
  ASSUME TypeOK, NEW k \in Kind, NEW n \in 1..MaxCalls
  PROVE /\ StoreAddress(k, n) =>
             /\ ip' \in [Kind -> Globals]
             /\ ip'[k] = [b_start |-> ip[k].b_start, b_status |-> ip[k].b_status,
                          url |-> ip[k].url,
                          IP |-> IF thread[k][n].out = "SUCCEEDED"
                                 THEN thread[k][n].url ELSE NoIP]
             /\ \A j \in Kind : j # k => ip'[j] = ip[j]
        /\ StoreStatus(k, n) =>
             /\ ip' \in [Kind -> Globals]
             /\ ip'[k] = [b_start |-> ip[k].b_start, b_status |-> thread[k][n].out,
                          url |-> ip[k].url, IP |-> ip[k].IP]
             /\ \A j \in Kind : j # k => ip'[j] = ip[j]
<1> DEFINE a == IF thread[k][n].out = "SUCCEEDED" THEN thread[k][n].url ELSE NoIP
           A == [b_start |-> ip[k].b_start, b_status |-> ip[k].b_status,
                 url |-> ip[k].url, IP |-> a]
           B == [b_start |-> ip[k].b_start, b_status |-> thread[k][n].out,
                 url |-> ip[k].url, IP |-> ip[k].IP]
<1>1. ip[k] \in Globals /\ thread[k][n] \in Threads
  BY DEF TypeOK, Globals, Threads
<1>2. A \in Globals /\ [ip[k] EXCEPT !.IP = a] = A
  BY <1>1 DEF Globals, Threads
<1>3. B \in Globals /\ [ip[k] EXCEPT !.b_status = thread[k][n].out] = B
  BY <1>1 DEF Globals, Threads
<1>4. StoreAddress(k, n) => ip' = [ip EXCEPT ![k] = A]
  BY <1>2 DEF StoreAddress, TypeOK
<1>5. StoreStatus(k, n) => ip' = [ip EXCEPT ![k] = B]
  BY <1>3 DEF StoreStatus, TypeOK
<1> HIDE DEF A, B
<1>6. StoreAddress(k, n) =>
        ip' \in [Kind -> Globals] /\ ip'[k] = A /\ \A j \in Kind : j # k => ip'[j] = ip[j]
  BY <1>2, <1>4, GlobalUpdate
<1>7. StoreStatus(k, n) =>
        ip' \in [Kind -> Globals] /\ ip'[k] = B /\ \A j \in Kind : j # k => ip'[j] = ip[j]
  BY <1>3, <1>5, GlobalUpdate
<1> QED  BY <1>6, <1>7 DEF A, B

(* The same, field by field.                                               *)
LEMMA StoredFields ==
  ASSUME TypeOK, NEW k \in Kind, NEW n \in 1..MaxCalls
  PROVE /\ StoreAddress(k, n) =>
             /\ ip'[k].b_status = ip[k].b_status
             /\ ip'[k].url = ip[k].url
             /\ ip'[k].IP = IF thread[k][n].out = "SUCCEEDED"
                            THEN thread[k][n].url ELSE NoIP
             /\ \A j \in Kind : j # k => ip'[j] = ip[j]
        /\ StoreStatus(k, n) =>
             /\ ip'[k].b_status = thread[k][n].out
             /\ ip'[k].url = ip[k].url
             /\ ip'[k].IP = ip[k].IP
             /\ \A j \in Kind : j # k => ip'[j] = ip[j]
<1>1. ASSUME StoreAddress(k, n)
      PROVE  /\ ip'[k].b_status = ip[k].b_status
             /\ ip'[k].url = ip[k].url
             /\ ip'[k].IP = IF thread[k][n].out = "SUCCEEDED"
                            THEN thread[k][n].url ELSE NoIP
             /\ \A j \in Kind : j # k => ip'[j] = ip[j]
  <2>1. ip'[k] = [b_start |-> ip[k].b_start, b_status |-> ip[k].b_status,
                  url |-> ip[k].url,
                  IP |-> IF thread[k][n].out = "SUCCEEDED" THEN thread[k][n].url ELSE NoIP]
    BY <1>1, Stores
  <2>2. \A j \in Kind : j # k => ip'[j] = ip[j]
    BY <1>1, Stores
  <2> QED  BY <2>1, <2>2
<1>2. ASSUME StoreStatus(k, n)
      PROVE  /\ ip'[k].b_status = thread[k][n].out
             /\ ip'[k].url = ip[k].url
             /\ ip'[k].IP = ip[k].IP
             /\ \A j \in Kind : j # k => ip'[j] = ip[j]
  <2>1. ip'[k] = [b_start |-> ip[k].b_start, b_status |-> thread[k][n].out,
                  url |-> ip[k].url, IP |-> ip[k].IP]
    BY <1>2, Stores
  <2>2. \A j \in Kind : j # k => ip'[j] = ip[j]
    BY <1>2, Stores
  <2> QED  BY <2>1, <2>2
<1> QED  BY <1>1, <1>2

(* A call that is going on is one of the numbered ones.                    *)
LEMMA CallNumber == TypeOK /\ Asked /\ pc # <<"idle">> => calls \in 1..MaxCalls
  BY CallsAssumption DEF TypeOK, Asked

(* The thread that pthread_create made.                                    *)
LEMMA Creation ==
  ASSUME TypeOK, Asked, NEW k \in Kind, CreateThread(k)
  PROVE Becomes(k, calls, [pc |-> "created", url |-> thread[k][calls].url,
                           out |-> thread[k][calls].out])
<1>1. pc # <<"idle">>
  BY TheLabels DEF CreateThread
<1>2. calls \in 1..MaxCalls
  BY <1>1, CallNumber
<1> QED  BY <1>2, LabelUpdate DEF CreateThread

(* Every step keeps the types.                                             *)
LEMMA TypeStep == TypeOK /\ Asked /\ [Next]_vars => TypeOK'
<1> SUFFICES ASSUME TypeOK, Asked, [Next]_vars PROVE TypeOK'
  OBVIOUS
<1>l. Labels = {<<"idle">>, <<"check">>, <<"grace">>, <<"choose">>,
               <<"create", "pod">>, <<"create", "normal">>, <<"await", "pod">>,
               <<"await", "normal">>, <<"kill", "pod">>, <<"kill", "normal">>}
  BY TheLabels
<1>1. CASE Call
  BY <1>1, <1>l, CallsAssumption DEF Call, TypeOK, Quiet, Status
<1>2. CASE CallerStep
  <2>1. CASE Settle \/ Grace \/ GraceOver
    BY <2>1, <1>l DEF Settle, Grace, GraceOver, TypeOK
  <2>2. CASE Choose
    <3>1. Answer \in Url \cup {NoIP}
      BY DEF TypeOK, Answer, Kind
    <3> QED  BY <2>2, <3>1, <1>l DEF Choose, TypeOK
  <2>3. ASSUME NEW k \in Kind, CreateThread(k) PROVE TypeOK'
    <3>1. thread' \in [Kind -> [1..MaxCalls -> Threads]]
      BY <2>3, Creation DEF Becomes
    <3>2. ID' \in [Kind -> 0..MaxCalls]
      BY <2>3 DEF CreateThread, TypeOK
    <3> QED  BY <2>3, <3>1, <3>2, <1>l DEF CreateThread, TypeOK, Threads, Kind
  <2>4. ASSUME NEW k \in Kind, CreateFailed(k) PROVE TypeOK'
    BY <2>4, <1>l DEF CreateFailed, AfterStart, TypeOK, Kind
  <2>5. ASSUME NEW k \in Kind, Started(k) PROVE TypeOK'
    BY <2>5, <1>l DEF Started, AfterStart, TypeOK, Kind
  <2>6. ASSUME NEW k \in Kind, Kill(k) PROVE TypeOK'
    <3>1. ID[k] # NoThread => ID[k] \in 1..MaxCalls
      BY CallsAssumption DEF TypeOK, NoThread
    <3>2. signalled' \subseteq Kind \X (1..MaxCalls)
      BY <2>6, <3>1 DEF Kill, TypeOK
    <3> QED  BY <2>6, <3>2, <1>l DEF Kill, TypeOK, Kind
  <2> QED  BY <1>2, <2>1, <2>2, <2>3, <2>4, <2>5, <2>6 DEF CallerStep
<1>3. ASSUME NEW k \in Kind, NEW n \in 1..MaxCalls, ThreadStep(k, n) PROVE TypeOK'
  <2>0. UNCHANGED <<pc, calls, ID, IP, clean>> /\ signalled' \subseteq signalled
    BY <1>3 DEF ThreadStep, ThreadStart, ReadUrl, Resolved, StoreFirst, StoreSecond,
                ThreadExit, SignalHandled
  <2>1. thread' \in [Kind -> [1..MaxCalls -> Threads]]
    BY <1>3, ThreadMoves DEF ThreadStep, Becomes
  <2>2. ip' \in [Kind -> Globals]
    <3>1. CASE ThreadStart(k, n)
      BY <3>1 DEF ThreadStart, TypeOK, Globals
    <3>2. CASE StoreFirst(k, n) \/ StoreSecond(k, n)
      BY <3>2, Stores DEF StoreFirst, StoreSecond
    <3>3. CASE UNCHANGED ip
      BY <3>3 DEF TypeOK, Globals
    <3> QED  BY <1>3, <3>1, <3>2, <3>3 DEF ThreadStep, ReadUrl, Resolved, ThreadExit,
                                           SignalHandled
  <2> QED  BY <2>0, <2>1, <2>2 DEF TypeOK, Threads, Globals
<1>4. CASE UNCHANGED vars
  BY <1>4 DEF vars, TypeOK
<1> QED  BY <1>1, <1>2, <1>3, <1>4 DEF Next

-----------------------------------------------------------------------------
(* The inductive invariant.                                                *)

(* What a call whose threads have the globals to themselves relies on.     *)
Own == OnlyCurrent /\ NoneYet /\ Resolving /\ Published /\ Reason

(* The threads of the call, and the globals, are as they were.             *)
LEMMA Untouched ==
  ASSUME Own, UNCHANGED <<calls, ip, thread>>,
         \A k \in Kind : Uncreated(k)' => Uncreated(k)
  PROVE OnlyCurrent' /\ NoneYet' /\ Resolving' /\ Published'
<1>1. OnlyCurrent'
  BY DEF Own, OnlyCurrent, Alive
<1>2. NoneYet'
  BY DEF Own, NoneYet, Alive
<1>3. Resolving'
  BY DEF Own, Resolving
<1>4. Published'
  BY DEF Own, Published, Succeeded
<1> QED  BY <1>1, <1>2, <1>3, <1>4

(* A new call of which no thread of an earlier one is left: nothing is     *)
(* alive, and nothing has been stored.                                     *)
LEMMA CallOwns == ASSUME LookupInv, Call, clean' PROVE Own'
<1>0. PICK url \in Url :
        ip' = [k \in Kind |-> [b_start |-> FALSE, b_status |-> "INIT_STATUS",
                               url |-> url, IP |-> NoIP]]
  BY DEF Call
<1>1. \A k \in Kind : ip'[k].b_status = "INIT_STATUS"
  BY <1>0
<1>2. \A k \in Kind, n \in 1..MaxCalls : thread'[k][n].pc \in {"none", "dead"}
  BY DEF Call, Quiet, Alive
<1>3. pc' = <<"create", "pod">>
  BY DEF Call
<1>4. OnlyCurrent'
  BY <1>2 DEF OnlyCurrent, Alive
<1>5. NoneYet'
  BY <1>1, <1>2 DEF NoneYet, Alive
<1>6. Resolving'
  BY <1>2 DEF Resolving
<1>7. Published'
  BY <1>1 DEF Published, Succeeded
<1>8. Reason'
  BY <1>3, TheLabels DEF Reason
<1> QED  BY <1>4, <1>5, <1>6, <1>7, <1>8 DEF Own

(* The loop ends for one of the comment's reasons.                         *)
LEMMA LoopOwns ==
  ASSUME LookupInv, Own, Settle \/ Grace \/ GraceOver PROVE Own'
<1>1. UNCHANGED <<calls, ip, thread>> /\ \A k \in Kind : ~Uncreated(k)'
  BY TheLabels DEF Settle, Grace, GraceOver, Uncreated, Kind
<1>2. Reason'
  <2>1. CASE Settle
    <3>1. PodFailed \/ \E k \in Kind : Succeeded(k)
      BY <2>1 DEF Settle, Settled, PodFailed, Unsucceeded, Kind
    <3> QED  BY <2>1, <3>1, TheLabels DEF Settle, Reason, PodFailed, Succeeded
  <2>2. CASE Grace
    BY <2>2, TheLabels DEF Grace, OnlyNormalPending, Unsucceeded, Reason, PodFailed
  <2>3. CASE GraceOver
    BY <2>3, TheLabels DEF GraceOver, Own, Reason, PodFailed, Succeeded
  <2> QED  BY <2>1, <2>2, <2>3
<1> QED  BY <1>1, <1>2, Untouched DEF Own

(* The answer is an address that was published, which is the one asked     *)
(* for, or the name service has given up.                                  *)
LEMMA ChooseOwns == ASSUME LookupInv, Own, Choose PROVE Own'
<1>1. UNCHANGED <<calls, ip, thread>> /\ \A k \in Kind : ~Uncreated(k)'
  BY TheLabels DEF Choose, Uncreated, Kind
<1>2. \/ Answer = ip["pod"].url
      \/ Answer = NoIP /\ PodFailed
  <2>1. CASE \E k \in Kind : Succeeded(k)
    <3>1. \A k \in Kind : Succeeded(k) => ip[k].IP = ip["pod"].url
      <4>1. calls # 0
        BY TheLabels DEF LookupInv, Asked, Choose
      <4> QED  BY <4>1 DEF Own, Published, LookupInv, Asked
    <3> QED  BY <2>1, <3>1 DEF Answer, Kind
  <2>2. CASE ~ \E k \in Kind : Succeeded(k)
    BY <2>2 DEF Answer, Kind, Choose, Own, Reason
  <2> QED  BY <2>1, <2>2
<1>3. Reason'
  BY <1>2, TheLabels DEF Choose, Reason, PodFailed
<1> QED  BY <1>1, <1>3, Untouched DEF Own

(* Waiting for b_start, and the signals after the answer.                  *)
LEMMA WaitOwns ==
  ASSUME LookupInv, Own, NEW k \in Kind, Started(k) \/ Kill(k) PROVE Own'
<1>1. UNCHANGED <<calls, ip, thread, IP>>
  BY DEF Started, Kill
<1>2. \A j \in Kind : Uncreated(j)' => Uncreated(j)
  BY TheLabels DEF Started, Kill, AfterStart, Uncreated, Kind
<1>3. Reason'
  BY <1>1, TheLabels DEF Started, Kill, AfterStart, Own, Reason, PodFailed, Kind
<1> QED  BY <1>1, <1>2, <1>3, Untouched DEF Own

(* The new thread is the call's only one of its kind, and starts with the  *)
(* status as the call set it.                                              *)
LEMMA CreateOwns == ASSUME LookupInv, Own, NEW k \in Kind, CreateThread(k) PROVE Own'
<1>0. calls \in 1..MaxCalls
  BY TheLabels, CallNumber DEF LookupInv, CreateThread
<1>1. /\ thread'[k][calls].pc = "created"
      /\ \A j \in Kind, m \in 1..MaxCalls :
           j # k \/ m # calls => thread'[j][m] = thread[j][m]
  <2> DEFINE t == [pc |-> "created", url |-> thread[k][calls].url,
                   out |-> thread[k][calls].out]
  <2>1. Becomes(k, calls, t) /\ t.pc = "created"
    BY Creation DEF LookupInv
  <2> HIDE DEF t
  <2> QED  BY <2>1 DEF Becomes
<1>2. UNCHANGED <<calls, ip, IP>> /\ pc = <<"create", k>> /\ pc' = <<"await", k>>
  BY DEF CreateThread
<1>3. ip[k].b_status = "INIT_STATUS" /\ \A n \in 1..MaxCalls : ~Alive(k, n)
  BY <1>2 DEF Own, NoneYet, Uncreated
<1>4. OnlyCurrent'
  BY <1>0, <1>1, <1>2 DEF Own, OnlyCurrent, Alive
<1>5. NoneYet'
  <2> SUFFICES ASSUME NEW j \in Kind, Uncreated(j)'
               PROVE  /\ ip'[j].b_status = "INIT_STATUS"
                      /\ \A n \in 1..MaxCalls : ~Alive(j, n)'
    BY DEF NoneYet
  <2>1. j # k /\ Uncreated(j)
    BY <1>2, TheLabels DEF Uncreated, Kind
  <2> QED  BY <1>1, <1>2, <2>1 DEF Own, NoneYet, Alive
<1>6. Resolving'
  <2> SUFFICES ASSUME NEW j \in Kind, NEW m \in 1..MaxCalls
               PROVE  LET t == thread'[j][m] IN
      /\ t.pc \in {"created", "started", "resolving", "first"} =>
           ip'[j].b_status = "INIT_STATUS"
      /\ t.pc \in {"resolving", "first", "second"} => t.url = ip'[j].url
      /\ t.pc \in {"first", "second"} => t.out \in Outcomes(j)
      /\ t.pc = "second" =>
           IF AddressFirst(t.out)
           THEN ip'[j].b_status = "INIT_STATUS" /\ ip'[j].IP = ip'[j].url
           ELSE ip'[j].b_status = t.out
    BY DEF Resolving
  <2>1. CASE j = k /\ m = calls
    BY <1>1, <1>2, <1>3, <2>1
  <2>2. CASE j # k \/ m # calls
    BY <1>1, <1>2, <2>2 DEF Own, Resolving
  <2> QED  BY <2>1, <2>2
<1>7. Published'
  BY <1>2 DEF Own, Published, Succeeded
<1>8. Reason'
  BY <1>2, TheLabels DEF Reason, Kind
<1> QED  BY <1>4, <1>5, <1>6, <1>7, <1>8 DEF Own

(* Without a thread of its kind a call has no answer of that kind.         *)
LEMMA CreateFailedOwns ==
  ASSUME LookupInv, Own, NEW k \in Kind, CreateFailed(k) PROVE Own'
<1>1. UNCHANGED <<calls, thread, IP>> /\ pc = <<"create", k>> /\ pc' = AfterStart(k)
  BY DEF CreateFailed
<1>2. ip[k].b_status = "INIT_STATUS" /\ \A n \in 1..MaxCalls : ~Alive(k, n)
  BY <1>1 DEF Own, NoneYet, Uncreated
<1>3. /\ ip'[k].b_status = ip[k].b_status
      /\ \A j \in Kind : j # k => ip'[j] = ip[j]
  BY DEF CreateFailed, LookupInv, TypeOK
<1>4. OnlyCurrent'
  BY <1>1 DEF Own, OnlyCurrent, Alive
<1>5. NoneYet'
  <2>1. \A j \in Kind : Uncreated(j)' => Uncreated(j)
    BY <1>1, TheLabels DEF AfterStart, Uncreated, Kind
  <2> QED  BY <1>1, <1>3, <2>1 DEF Own, NoneYet, Alive
<1>6. Resolving'
  BY <1>1, <1>2, <1>3 DEF Own, Resolving, Alive
<1>7. Published'
  BY <1>2, <1>3 DEF Own, Published, Succeeded
<1>8. Reason'
  BY <1>1, TheLabels DEF AfterStart, Reason, Kind
<1> QED  BY <1>4, <1>5, <1>6, <1>7, <1>8 DEF Own

(* A step of a thread, seen from the calling one: who is alive was before, *)
(* no URL changes, and a status once stored stays.                         *)
LEMMA ThreadOwns ==
  ASSUME LookupInv, Own, NEW k \in Kind, NEW n \in 1..MaxCalls,
         Alive(k, n), UNCHANGED <<pc, calls, IP>>,
         NEW t \in Threads, Becomes(k, n, t),
         ip'[k].url = ip[k].url,
         ip[k].b_status # "INIT_STATUS" => ip'[k].b_status = ip[k].b_status,
         ip'[k].b_status = "SUCCEEDED" => ip'[k].IP = ip'[k].url,
         \A j \in Kind : j # k => ip'[j] = ip[j],
         t.pc \in {"created", "started", "resolving", "first"} =>
           ip'[k].b_status = "INIT_STATUS",
         t.pc \in {"resolving", "first", "second"} => t.url = ip[k].url,
         t.pc \in {"first", "second"} => t.out \in Outcomes(k),
         t.pc = "second" => IF AddressFirst(t.out)
                            THEN ip'[k].b_status = "INIT_STATUS" /\ ip'[k].IP = ip[k].url
                            ELSE ip'[k].b_status = t.out
  PROVE Own'
<1>1. /\ thread'[k][n] = t
      /\ \A j \in Kind, m \in 1..MaxCalls :
           j # k \/ m # n => thread'[j][m] = thread[j][m]
  BY DEF Becomes
<1>2. n = calls /\ \A m \in 1..MaxCalls : Alive(k, m) => m = n
  BY DEF Own, OnlyCurrent
<1>3. ~Uncreated(k)
  BY DEF Own, NoneYet
<1>4. OnlyCurrent'
  BY <1>1, <1>2 DEF Own, OnlyCurrent, Alive
<1>5. NoneYet'
  BY <1>1, <1>3 DEF Own, NoneYet, Uncreated, Alive
<1>6. Resolving'
  <2> SUFFICES ASSUME NEW j \in Kind, NEW m \in 1..MaxCalls
               PROVE  LET u == thread'[j][m] IN
      /\ u.pc \in {"created", "started", "resolving", "first"} =>
           ip'[j].b_status = "INIT_STATUS"
      /\ u.pc \in {"resolving", "first", "second"} => u.url = ip'[j].url
      /\ u.pc \in {"first", "second"} => u.out \in Outcomes(j)
      /\ u.pc = "second" =>
           IF AddressFirst(u.out)
           THEN ip'[j].b_status = "INIT_STATUS" /\ ip'[j].IP = ip'[j].url
           ELSE ip'[j].b_status = u.out
    BY DEF Resolving
  <2>1. CASE j = k /\ m = n
    BY <1>1, <2>1
  <2>2. CASE j = k /\ m # n
    <3>1. thread'[j][m] = thread[j][m] /\ thread[j][m].pc \in {"none", "dead"}
      BY <1>1, <1>2, <2>2 DEF Alive
    <3> QED  BY <3>1
  <2>3. CASE j # k
    BY <1>1, <2>3 DEF Own, Resolving
  <2> QED  BY <2>1, <2>2, <2>3
<1>7. Published'
  BY DEF Own, Published, Succeeded
<1>8. Reason'
  <2>1. \A j \in Kind : /\ ip'[j].url = ip[j].url
                        /\ ip[j].b_status # "INIT_STATUS" => ip'[j].b_status = ip[j].b_status
    OBVIOUS
  <2>2. PodFailed => PodFailed'
    BY <2>1 DEF PodFailed, Kind
  <2>3. \A j \in Kind : Succeeded(j) => Succeeded(j)'
    BY <2>1 DEF Succeeded
  <2>4. ip'["pod"].url = ip["pod"].url
    BY <2>1 DEF Kind
  <2> QED  BY <2>2, <2>3, <2>4 DEF Own, Reason
<1> QED  BY <1>4, <1>5, <1>6, <1>7, <1>8 DEF Own

(* What Resolving says of one thread.                                      *)
LEMMA OfThread ==
  ASSUME LookupInv, Own, NEW k \in Kind, NEW n \in 1..MaxCalls
  PROVE LET t == thread[k][n] IN
    /\ t \in Threads
    /\ t.pc \in {"created", "started", "resolving", "first"} =>
         ip[k].b_status = "INIT_STATUS"
    /\ t.pc \in {"resolving", "first", "second"} => t.url = ip[k].url
    /\ t.pc \in {"first", "second"} => t.out \in Outcomes(k)
    /\ t.pc = "second" => IF AddressFirst(t.out)
                          THEN ip[k].b_status = "INIT_STATUS" /\ ip[k].IP = ip[k].url
                          ELSE ip[k].b_status = t.out
    /\ ip[k].b_status = "SUCCEEDED" => ip[k].IP = ip[k].url
<1>1. thread[k][n] \in Threads
  BY ThreadTyped DEF LookupInv
<1> QED  BY <1>1 DEF Own, Resolving, Published, Succeeded

(* A thread that begins keeps what it owns.                                *)
LEMMA StartOwns ==
  ASSUME LookupInv, Own, NEW k \in Kind, NEW n \in 1..MaxCalls, ThreadStart(k, n)
  PROVE Own'
<1> DEFINE t == [pc |-> "started", url |-> thread[k][n].url, out |-> thread[k][n].out]
<1>1. Becomes(k, n, t) /\ t \in Threads /\ t.pc = "started"
  BY ThreadMoves, OfThread DEF LookupInv, Threads
<1>2. /\ ip'[k].b_status = ip[k].b_status /\ ip'[k].url = ip[k].url
      /\ ip'[k].IP = ip[k].IP
      /\ \A j \in Kind : j # k => ip'[j] = ip[j]
  BY DEF ThreadStart, LookupInv, TypeOK
<1>3. Alive(k, n) /\ UNCHANGED <<pc, calls, IP>> /\ thread[k][n].pc = "created"
  BY DEF ThreadStart, Alive
<1> HIDE DEF t
<1> QED  BY <1>1, <1>2, <1>3, OfThread, ThreadOwns

(* The URL it reads is that of its call.                                   *)
LEMMA ReadUrlOwns ==
  ASSUME LookupInv, Own, NEW k \in Kind, NEW n \in 1..MaxCalls, ReadUrl(k, n)
  PROVE Own'
<1> DEFINE t == [pc |-> "resolving", url |-> ip[k].url, out |-> thread[k][n].out]
<1>1. ip[k].url \in Url \cup {NoIP}
  BY DEF LookupInv, TypeOK
<1>2. Becomes(k, n, t) /\ t \in Threads /\ t.pc = "resolving" /\ t.url = ip[k].url
  BY <1>1, ThreadMoves, OfThread DEF LookupInv, Threads
<1>3. Alive(k, n) /\ UNCHANGED <<pc, calls, IP, ip>> /\ thread[k][n].pc = "started"
  BY DEF ReadUrl, Alive
<1> HIDE DEF t
<1> QED  BY <1>2, <1>3, OfThread, ThreadOwns

(* What its name service answers is one of the answers it gives.           *)
LEMMA ResolvedOwns ==
  ASSUME LookupInv, Own, NEW k \in Kind, NEW n \in 1..MaxCalls, Resolved(k, n)
  PROVE Own'
<1>0. PICK out \in Outcomes(k) :
        Becomes(k, n, [pc |-> "first", url |-> thread[k][n].url, out |-> out])
  BY ThreadMoves DEF LookupInv
<1> DEFINE t == [pc |-> "first", url |-> thread[k][n].url, out |-> out]
<1>1. out \in Status
  BY DEF Outcomes, Status
<1>2. /\ Becomes(k, n, t) /\ t \in Threads /\ t.pc = "first" /\ t.out = out
      /\ t.url = thread[k][n].url
  BY <1>0, <1>1, OfThread DEF Threads
<1>3. Alive(k, n) /\ UNCHANGED <<pc, calls, IP, ip>> /\ thread[k][n].pc = "resolving"
  BY DEF Resolved, Alive
<1> HIDE DEF t
<1> QED  BY <1>2, <1>3, OfThread, ThreadOwns

(* The first of a thread's two stores: the address of a success, the       *)
(* status of a failure.                                                    *)
LEMMA StoreFirstOwns ==
  ASSUME LookupInv, Own, NEW k \in Kind, NEW n \in 1..MaxCalls, StoreFirst(k, n)
  PROVE Own'
<1> DEFINE t == [pc |-> "second", url |-> thread[k][n].url, out |-> thread[k][n].out]
<1>1. /\ Becomes(k, n, t) /\ t \in Threads /\ t.pc = "second"
      /\ t.out = thread[k][n].out /\ t.url = thread[k][n].url
  BY ThreadMoves, OfThread DEF LookupInv, Threads
<1>2. Alive(k, n) /\ UNCHANGED <<pc, calls, IP>> /\ thread[k][n].pc = "first"
  BY DEF StoreFirst, Alive
<1> HIDE DEF t
<1>3. CASE AddressFirst(thread[k][n].out)
  <2>1. /\ ip'[k].b_status = ip[k].b_status /\ ip'[k].url = ip[k].url
        /\ ip'[k].IP = ip[k].url
        /\ \A j \in Kind : j # k => ip'[j] = ip[j]
    BY <1>2, <1>3, StoredFields, OfThread DEF StoreFirst, LookupInv, AddressFirst
  <2> QED  BY <1>1, <1>2, <1>3, <2>1, OfThread, ThreadOwns
<1>4. CASE ~AddressFirst(thread[k][n].out)
  <2>1. /\ ip'[k].b_status = thread[k][n].out /\ ip'[k].url = ip[k].url
        /\ \A j \in Kind : j # k => ip'[j] = ip[j]
    BY <1>2, <1>4, StoredFields DEF StoreFirst, LookupInv
  <2> QED  BY <1>1, <1>2, <1>4, <2>1, OfThread, ThreadOwns DEF AddressFirst
<1> QED  BY <1>3, <1>4

(* The second: the status of a success, the address of a failure.          *)
LEMMA StoreSecondOwns ==
  ASSUME LookupInv, Own, NEW k \in Kind, NEW n \in 1..MaxCalls, StoreSecond(k, n)
  PROVE Own'
<1> DEFINE t == At("finish")
<1>1. Becomes(k, n, t) /\ t \in Threads /\ t.pc = "finish"
  BY ThreadMoves DEF LookupInv, Threads, At, Status
<1>2. Alive(k, n) /\ UNCHANGED <<pc, calls, IP>> /\ thread[k][n].pc = "second"
  BY DEF StoreSecond, Alive
<1> HIDE DEF t
<1>3. CASE AddressFirst(thread[k][n].out)
  <2>1. /\ ip[k].b_status = "INIT_STATUS" /\ ip'[k].url = ip[k].url
        /\ ip'[k].IP = ip[k].url
        /\ \A j \in Kind : j # k => ip'[j] = ip[j]
    BY <1>2, <1>3, StoredFields, OfThread DEF StoreSecond, LookupInv
  <2> QED  BY <1>1, <1>2, <2>1, ThreadOwns
<1>4. CASE ~AddressFirst(thread[k][n].out)
  <2>1. /\ ip'[k].b_status = ip[k].b_status /\ ip[k].b_status # "SUCCEEDED"
        /\ ip'[k].url = ip[k].url
        /\ \A j \in Kind : j # k => ip'[j] = ip[j]
    BY <1>2, <1>4, StoredFields, OfThread DEF StoreSecond, LookupInv, AddressFirst
  <2> QED  BY <1>1, <1>2, <2>1, ThreadOwns
<1> QED  BY <1>3, <1>4

(* A thread ends, by itself or by the signal.                              *)
LEMMA EndOwns ==
  ASSUME LookupInv, Own, NEW k \in Kind, NEW n \in 1..MaxCalls,
         ThreadExit(k, n) \/ SignalHandled(k, n)
  PROVE Own'
<1> DEFINE t == At("dead")
<1>1. Becomes(k, n, t) /\ t \in Threads /\ t.pc = "dead"
  BY ThreadMoves DEF LookupInv, Threads, At, Status
<1>2. Alive(k, n) /\ UNCHANGED <<pc, calls, IP, ip>>
  BY DEF ThreadExit, SignalHandled, Alive
<1> HIDE DEF t
<1> QED  BY <1>1, <1>2, OfThread, ThreadOwns

(* Asked is kept: nothing changes what a call asks for but the next call.  *)
LEMMA AskedStep == TypeOK /\ Asked /\ [Next]_vars => Asked'
<1> SUFFICES ASSUME TypeOK, Asked, [Next]_vars PROVE Asked'
  OBVIOUS
<1>1. CASE Call
  <2>1. calls' # 0
    BY <1>1 DEF Call, TypeOK
  <2> QED  BY <1>1, <2>1 DEF Call, Asked, Kind
<1>2. ASSUME calls' = calls, \A k \in Kind : ip'[k].url = ip[k].url,
             pc' # <<"idle">> => pc # <<"idle">>
      PROVE  Asked'
  BY <1>2 DEF Asked, Kind
<1>3. CASE CallerStep
  <2>1. calls' = calls
    BY <1>3 DEF CallerStep, Settle, Grace, GraceOver, Choose, CreateThread, CreateFailed,
                Started, Kill
  <2>2. \A k \in Kind : ip'[k].url = ip[k].url
    <3>1. ASSUME NEW j \in Kind, CreateFailed(j)
          PROVE  \A k \in Kind : ip'[k].url = ip[k].url
      BY <3>1 DEF CreateFailed, TypeOK
    <3>2. CASE UNCHANGED ip
      BY <3>2
    <3> QED  BY <1>3, <3>1, <3>2 DEF CallerStep, Settle, Grace, GraceOver, Choose,
                                     CreateThread, Started, Kill
  <2>3. pc # <<"idle">>
    BY <1>3, TheLabels DEF CallerStep, Settle, Grace, GraceOver, Choose, CreateThread,
                           CreateFailed, Started, Kill
  <2> QED  BY <1>2, <2>1, <2>2, <2>3
<1>4. ASSUME NEW k \in Kind, NEW n \in 1..MaxCalls, ThreadStep(k, n) PROVE Asked'
  <2>1. calls' = calls /\ pc' = pc
    BY <1>4 DEF ThreadStep, ThreadStart, ReadUrl, Resolved, StoreFirst, StoreSecond,
                ThreadExit, SignalHandled
  <2>2. \A j \in Kind : ip'[j].url = ip[j].url
    <3>1. CASE ThreadStart(k, n)
      BY <3>1 DEF ThreadStart, TypeOK
    <3>2. CASE StoreAddress(k, n) \/ StoreStatus(k, n)
      BY <3>2, StoredFields
    <3>3. CASE UNCHANGED ip
      BY <3>3
    <3> QED  BY <1>4, <3>1, <3>2, <3>3 DEF ThreadStep, ReadUrl, Resolved, StoreFirst,
                                           StoreSecond, ThreadExit, SignalHandled
  <2> QED  BY <1>2, <2>1, <2>2
<1>5. CASE UNCHANGED vars
  BY <1>5, <1>2 DEF vars
<1> QED  BY <1>1, <1>3, <1>4, <1>5 DEF Next

(* At first nothing is alive, and nothing has been asked.                  *)
LEMMA LookupInit == Init => LookupInv
<1> SUFFICES ASSUME Init PROVE LookupInv
  OBVIOUS
<1>1. \A k \in Kind, n \in 1..MaxCalls : thread[k][n].pc = "none"
  BY DEF Init, At
<1>2. OnlyCurrent /\ Resolving
  BY <1>1 DEF OnlyCurrent, Resolving, Alive
<1>3. NoneYet
  BY <1>1 DEF Init, NoneYet, Alive
<1>4. Published
  BY DEF Init, Published, Succeeded
<1>5. Asked /\ Reason
  BY TheLabels DEF Init, Asked, Reason
<1> QED  BY TypeInit, <1>2, <1>3, <1>4, <1>5 DEF LookupInv

(* LookupInv is inductive.                                                 *)
LEMMA LookupStep == LookupInv /\ [Next]_vars => LookupInv'
<1> SUFFICES ASSUME LookupInv, [Next]_vars PROVE LookupInv'
  OBVIOUS
<1>1. TypeOK' /\ Asked'
  BY TypeStep, AskedStep DEF LookupInv
<1>2. ASSUME clean' PROVE Own'
  <2>1. CASE Call
    BY <1>2, <2>1, CallOwns
  <2>2. ASSUME ~Call PROVE clean
    <3>1. CallerStep => clean' = clean
      BY DEF CallerStep, Settle, Grace, GraceOver, Choose, CreateThread, CreateFailed,
             Started, Kill
    <3>2. ASSUME NEW k \in Kind, NEW n \in 1..MaxCalls, ThreadStep(k, n)
          PROVE  clean' = clean
      BY <3>2 DEF ThreadStep, ThreadStart, ReadUrl, Resolved, StoreFirst, StoreSecond,
                  ThreadExit, SignalHandled
    <3>3. UNCHANGED vars => clean' = clean
      BY DEF vars
    <3> QED  BY <1>2, <2>2, <3>1, <3>2, <3>3 DEF Next
  <2>3. CASE ~Call /\ CallerStep
    <3>1. Own
      BY <2>2, <2>3 DEF LookupInv, Own
    <3> QED  BY <2>3, <3>1, LoopOwns, ChooseOwns, WaitOwns, CreateOwns, CreateFailedOwns
             DEF CallerStep
  <2>4. ASSUME ~Call, NEW k \in Kind, NEW n \in 1..MaxCalls, ThreadStep(k, n)
        PROVE  Own'
    <3>1. Own
      BY <2>2, <2>4 DEF LookupInv, Own
    <3> QED  BY <2>4, <3>1, StartOwns, ReadUrlOwns, ResolvedOwns, StoreFirstOwns,
                StoreSecondOwns, EndOwns DEF ThreadStep
  <2>5. CASE ~Call /\ UNCHANGED vars
    <3>1. Own
      BY <2>2, <2>5 DEF LookupInv, Own
    <3>2. /\ UNCHANGED <<calls, ip, thread>> /\ pc' = pc /\ IP' = IP
      BY <2>5 DEF vars
    <3>3. Reason'
      BY <3>1, <3>2 DEF Own, Reason, PodFailed, Succeeded
    <3> QED  BY <3>1, <3>2, <3>3, Untouched DEF Own, Uncreated
  <2> QED  BY <2>1, <2>3, <2>4, <2>5 DEF Next
<1> QED  BY <1>1, <1>2 DEF LookupInv, Own

-----------------------------------------------------------------------------
(* The theorems.                                                           *)

(* The globals, the threads and the answer of Parsing_IP are as LookupInv  *)
(* says in every state.                                                    *)
THEOREM LookupInvariants == Spec => []LookupInv
  BY LookupInit, LookupStep, PTL DEF Spec

(* pod_ip and normal_ip hold what they may: every variable of Parsing_IP   *)
(* keeps its type.                                                         *)
THEOREM LookupTyped == Spec => []TypeOK
<1>1. LookupInv => TypeOK
  BY DEF LookupInv
<1> QED  BY <1>1, LookupInvariants, PTL

(* Without a lock, whoever reads SUCCEEDED in pod_ip or normal_ip finds    *)
(* the address this call asked for.                                        *)
THEOREM AddressBeforeStatus == Spec => []PublishedWithAddress
<1>1. LookupInv => PublishedWithAddress
  BY DEF LookupInv, Published, PublishedWithAddress
<1> QED  BY <1>1, LookupInvariants, PTL

(* Parsing_IP returns an empty string only when Get_IP_pod has failed or   *)
(* timed out.                                                              *)
THEOREM NoEarlyGivingUp == Spec => []EmptyMeansPodFailed
<1>1. LookupInv => EmptyMeansPodFailed
  <2> SUFFICES ASSUME LookupInv, clean, pc \in {<<"idle">>} \cup {"kill"} \X Kind,
                      calls > 0, IP = NoIP
               PROVE  PodFailed
    BY DEF EmptyMeansPodFailed, PodFailed
  <2>1. calls # 0 /\ Reason
    BY DEF LookupInv, TypeOK
  <2>2. ip["pod"].url \in Url
    BY <2>1 DEF LookupInv, Asked, Kind
  <2> QED  BY <2>1, <2>2, UrlAssumption DEF Reason
<1> QED  BY <1>1, LookupInvariants, PTL

-----------------------------------------------------------------------------
(* The parameters of a session.                                            *)

(* The operators of SessionConfig are those of this module.                *)
LEMMA ConfigOperators ==
  /\ \A T : S!Cardinality(T) = Cardinality(T)
  /\ \A f, T : S!SumFunctionOnSet(f, T) = SumFunctionOnSet(f, T)
<1>1. ASSUME NEW T PROVE S!Cardinality(T) = Cardinality(T)
  BY DEF S!Cardinality, Cardinality
<1>2. ASSUME NEW f, NEW T PROVE S!SumFunctionOnSet(f, T) = SumFunctionOnSet(f, T)
  BY Zenon DEF S!SumFunctionOnSet, SumFunctionOnSet, S!FoldFunctionOnSet,
               FoldFunctionOnSet, S!MapThenFoldSet, MapThenFoldSet
<1> QED  BY <1>1, <1>2

(* What the service is told of the fields is a text of each.               *)
LEMMA InfoType ==
  ASSUME config \in S!Fields, NEW fields \in S!Fields
  PROVE  [f \in Field |-> S!UserInfo(f, fields[f])] \in S!Fields
BY DEF S!Fields, S!UserInfo

(* A text has a length, and so have all of them together.                  *)
LEMMA TotalType ==
  ASSUME NEW info \in S!Fields, NEW other \in SUBSET Other, NEW i \in {1, 2}
  PROVE  S!Total(info, other, i) \in Int
<1>1. \A f \in Field : info[f] \in Nat \X Nat
  BY ParametersAssumption DEF S!Fields, S!EMPTY
<1>2. \A f \in Field : [g \in Field |-> info[g][i]][f] \in Int
  BY <1>1
<1>3. SumFunctionOnSet([g \in Field |-> info[g][i]], Field) \in Int
  BY <1>2, ParametersAssumption, SumIsInt
<1>4. Cardinality(other) \in Int
  BY ParametersAssumption, FS_Subset, FS_CardinalityType
<1>5. S!Labels[i] \in Int /\ S!OtherText[i] \in Int
  BY DEF S!Labels, S!OtherText
<1> DEFINE c == Cardinality(other)
           s == SumFunctionOnSet([g \in Field |-> info[g][i]], Field)
<1>6. S!Total(info, other, i) = S!Labels[i] + s + c * S!OtherText[i]
  BY ConfigOperators DEF S!Total
<1>7. c \in Int /\ s \in Int
  BY <1>3, <1>4
<1> HIDE DEF c, s
<1> QED  BY <1>5, <1>6, <1>7

(* What a request to begin tells.                                          *)
LEMMA BeginTells ==
  ASSUME config \in S!Fields, NEW s, s.field \in S!Fields, s.other \in SUBSET Other, S!Begin(s)
  PROVE  /\ told'.format = s.format /\ told'.quality = s.quality
         /\ told'.whole =>
              /\ told'.field = [f \in Field |-> S!UserInfo(f, s.field[f])]
              /\ told'.other = s.other
         /\ overrun' \/ ~told'.whole =>
              2 * S!Total([f \in Field |-> S!UserInfo(f, s.field[f])], s.other, 2)
                >= S!Total([f \in Field |-> S!UserInfo(f, s.field[f])], s.other, 1)
<1> DEFINE info == [f \in Field |-> S!UserInfo(f, s.field[f])]
           length == S!Total(info, s.other, 1)
           escaped == S!Total(info, s.other, 2)
           whole == S!EncLength(length, escaped) <= S!ChipBufLen(length)
<1>1. /\ told' = [packet_id |-> s.packet_id, format |-> s.format, quality |-> s.quality,
                  whole |-> whole,
                  field |-> IF whole THEN info ELSE S!NoField,
                  other |-> IF whole THEN s.other ELSE {}]
      /\ overrun' = (S!EncLength(length, escaped) >= S!ChipBufLen(length))
  BY DEF S!Begin
<1>2. length \in Int /\ escaped \in Int
  BY InfoType, TotalType
<1> HIDE DEF info, length, escaped
<1>3. overrun' \/ ~whole => 2 * escaped >= length
  <2>1. whole <=> 2 * (length + 2 * escaped) <= length * 4
    BY DEF S!EncLength, S!ChipBufLen
  <2>2. overrun' <=> 2 * (length + 2 * escaped) >= length * 4
    BY <1>1 DEF S!EncLength, S!ChipBufLen
  <2>3. /\ 2 * (length + 2 * escaped) >= length * 4 => 2 * escaped >= length
        /\ ~(2 * (length + 2 * escaped) <= length * 4) => 2 * escaped >= length
    BY <1>2
  <2> QED  BY <2>1, <2>2, <2>3
<1>4. /\ told'.whole = whole /\ told'.format = s.format /\ told'.quality = s.quality
      /\ told'.whole => told'.field = info /\ told'.other = s.other
  BY <1>1
<1> QED  BY <1>3, <1>4 DEF info, length, escaped

(* A codec that could be made has the rate and the level of the session.   *)
LEMMA CodecMade ==
  ASSUME NEW format, NEW q \in Int, NEW rt \in S!CodecResult
  PROVE  LET c == S!Codec(S!HzOf(format), S!Clamped(q), rt)
         IN  /\ S!Clamped(q) \in 0..10
             /\ rt = "ok" <=> c # NULL
             /\ rt = "ok" => /\ c.hz = 8000 <=> format = 1
                             /\ S!Clamped(q) # 0 => c.level = S!Clamped(q)
<1>1. S!Clamped(q) \in 0..10
  BY DEF S!Clamped
<1>2. S!RateOf(S!HzOf(format)) \in Int /\ (S!RateOf(S!HzOf(format)) = 8000 <=> format = 1)
  BY DEF S!RateOf, S!HzOf
<1>3. /\ S!LevelOf(S!Clamped(q)) \in Int
      /\ S!Clamped(q) # 0 => S!LevelOf(S!Clamped(q)) = S!Clamped(q)
  BY <1>1 DEF S!LevelOf
<1>4. CASE rt = "ok"
  <2>1. S!Codec(S!HzOf(format), S!Clamped(q), rt)
          = [hz |-> S!RateOf(S!HzOf(format)), level |-> S!LevelOf(S!Clamped(q))]
    BY <1>4 DEF S!Codec
  <2>2. S!Codec(S!HzOf(format), S!Clamped(q), rt) \in [hz: Int, level: Int]
    BY <1>2, <1>3, <2>1
  <2> QED  BY <1>1, <1>2, <1>3, <1>4, <2>1, <2>2, ParametersAssumption
<1>5. CASE rt # "ok"
  BY <1>1, <1>5 DEF S!Codec
<1> QED  BY <1>4, <1>5

(* What is left of a codec that failed half-way is freed.                  *)
LEMMA HeapMade ==
  ASSUME NEW edc, NEW rt \in S!CodecResult
  PROVE  S!HeapAfter(edc, rt) = IF rt = "ok" THEN {edc} \X S!Part ELSE {}
<1>1. CASE rt = "ok"
  BY <1>1 DEF S!HeapAfter, S!Allocated
<1>2. CASE rt # "ok"
  <2>1. S!Allocated(edc, rt) \subseteq S!Freed(edc)
    BY <1>2 DEF S!Allocated, S!Freed, S!Part, S!CodecResult
  <2> QED  BY <1>2, <2>1 DEF S!HeapAfter
<1> QED  BY <1>1, <1>2

(* What the constructor makes of a string that parses.                     *)
LEMMA SessionMade ==
  ASSUME NEW g \in S!Given, NEW u \in Junk, NEW rt \in S!CodecResult \X S!CodecResult
  PROVE  LET s      == S!Parsed(g, u, rt)
             format == IF g.audio_format = ABSENT THEN u ELSE g.audio_format
             q      == IF g.audio_quality = ABSENT THEN u ELSE g.audio_quality
         IN  /\ s.format = format /\ s.quality = S!Clamped(q) /\ q \in Int
             /\ s.enc = S!Codec(S!HzOf(format), S!Clamped(q), rt[1])
             /\ s.dec = S!Codec(S!HzOf(format), S!Clamped(q), rt[2])
             /\ s.field \in S!Fields /\ s.other \in SUBSET Other
             /\ rt = <<"ok", "ok">> =>
                  /\ s.time_out = S!TimeOut(g.time_out) /\ s.other = g.other
                  /\ s.field = [f \in Field |-> S!AsString(g.field[f])]
<1> DEFINE format == IF g.audio_format = ABSENT THEN u ELSE g.audio_format
           q == IF g.audio_quality = ABSENT THEN u ELSE g.audio_quality
           enc == S!Codec(S!HzOf(format), S!Clamped(q), rt[1])
           dec == S!Codec(S!HzOf(format), S!Clamped(q), rt[2])
           object == [S!Unparsed(u) EXCEPT
                        !.packet_id = 1, !.format = format, !.quality = S!Clamped(q),
                        !.enc = enc, !.dec = dec]
           fields == [f \in Field |-> S!AsString(g.field[f])]
<1>1. q \in Int
  BY ParametersAssumption DEF S!Given
<1>2. S!Parsed(g, u, rt) = IF "ok" # rt[1] \/ "ok" # rt[2] THEN object
                           ELSE [object EXCEPT !.time_out = S!TimeOut(g.time_out),
                                               !.field = fields, !.other = S!Unread(g)]
  BY DEF S!Parsed
<1>3. S!NoField \in S!Fields /\ fields \in S!Fields /\ g.other \in SUBSET Other
  BY DEF S!NoField, S!Fields, S!AsString, S!Given
<1> HIDE DEF format, q, enc, dec, fields
<1>4. /\ object.format = format /\ object.quality = S!Clamped(q) /\ object.enc = enc
      /\ object.dec = dec /\ object.field = S!NoField /\ object.other = {}
  BY DEF S!Unparsed
<1>5. CASE "ok" # rt[1] \/ "ok" # rt[2]
  <2>1. S!Parsed(g, u, rt) = object /\ rt # <<"ok", "ok">>
    BY <1>2, <1>5
  <2>2. object.field \in S!Fields /\ object.other \in SUBSET Other
    BY <1>3, <1>4
  <2> HIDE DEF object
  <2> QED  BY <1>1, <1>4, <2>1, <2>2 DEF format, q, enc, dec
<1>6. CASE ~("ok" # rt[1] \/ "ok" # rt[2])
  <2>1. S!Parsed(g, u, rt) = [object EXCEPT !.time_out = S!TimeOut(g.time_out),
                                            !.field = fields, !.other = g.other]
    BY <1>2, <1>6 DEF S!Unread
  <2> DEFINE parsed == [object EXCEPT !.time_out = S!TimeOut(g.time_out),
                                      !.field = fields, !.other = g.other]
  <2>2. /\ parsed.format = format /\ parsed.quality = S!Clamped(q) /\ parsed.enc = enc
        /\ parsed.dec = dec /\ parsed.field = fields /\ parsed.other = g.other
        /\ parsed.time_out = S!TimeOut(g.time_out)
    BY DEF S!Unparsed
  <2> HIDE DEF parsed
  <2> QED  BY <1>1, <1>3, <2>1, <2>2 DEF format, q, enc, dec, fields
<1> QED  BY <1>5, <1>6

(* A member of the string has a text, or none.                             *)
LEMMA MemberTold ==
  ASSUME NEW v \in Text \cup {S!EMPTY, ABSENT}, NEW f \in Field
  PROVE  S!UserInfo(f, S!AsString(v)) = IF v \in Text THEN v ELSE config[f]
BY ParametersAssumption DEF S!UserInfo, S!AsString, S!EMPTY

(* A session whose string parses starts as the three say.                  *)
LEMMA ConfigStart == S!ConfigInv /\ S!StartSession => S!ConfigInv'
<1> SUFFICES ASSUME S!ConfigInv, S!StartSession PROVE S!ConfigInv'
  OBVIOUS
<1>1. PICK g \in S!Given, u \in Junk, rt \in S!CodecResult \X S!CodecResult :
        /\ given' = g /\ sp' = S!Parsed(g, u, rt)
        /\ heap' = S!HeapAfter(1, rt[1]) \cup S!HeapAfter(2, rt[2])
        /\ S!Begin(S!Parsed(g, u, rt))
  BY DEF S!StartSession
<1>2. /\ state' = "session" /\ config' = config /\ config \in S!Fields
      /\ given' # UNPARSABLE /\ rt[1] \in S!CodecResult /\ rt[2] \in S!CodecResult
  BY <1>1, StringsAssumption DEF S!StartSession, S!ConfigInv
<1> DEFINE format == IF g.audio_format = ABSENT THEN u ELSE g.audio_format
           q == IF g.audio_quality = ABSENT THEN u ELSE g.audio_quality
           hz == S!HzOf(format)
           info == [f \in Field |-> S!UserInfo(f, sp'.field[f])]
<1>3. /\ sp'.format = format /\ sp'.quality = S!Clamped(q) /\ q \in Int
      /\ sp'.enc = S!Codec(hz, S!Clamped(q), rt[1]) /\ sp'.dec = S!Codec(hz, S!Clamped(q), rt[2])
      /\ sp'.field \in S!Fields /\ sp'.other \in SUBSET Other
      /\ rt = <<"ok", "ok">> =>
           /\ sp'.time_out = S!TimeOut(g.time_out) /\ sp'.other = g.other
           /\ sp'.field = [f \in Field |-> S!AsString(g.field[f])]
  BY <1>1, SessionMade
<1>4. /\ told'.format = format /\ told'.quality = S!Clamped(q)
      /\ told'.whole => told'.field = info /\ told'.other = sp'.other
      /\ overrun' \/ ~told'.whole =>
           2 * S!Total(info, sp'.other, 2) >= S!Total(info, sp'.other, 1)
  BY <1>1, <1>2, <1>3, BeginTells
<1> HIDE DEF format, q
<1>5. /\ sp'.enc # NULL <=> rt[1] = "ok"
      /\ sp'.dec # NULL <=> rt[2] = "ok"
      /\ sp'.enc # NULL => /\ sp'.enc.hz = 8000 <=> format = 1
                           /\ S!Clamped(q) # 0 => sp'.enc.level = S!Clamped(q)
      /\ S!Clamped(q) \in 0..10
  BY <1>2, <1>3, CodecMade
<1>6. S!HasCodecs' => rt = <<"ok", "ok">>
  BY <1>5 DEF S!HasCodecs
<1>7. S!SessionWorks'
  <2>1. S!TimeOut(g.time_out) > 0
    BY ParametersAssumption DEF S!TimeOut, S!Given
  <2> QED  BY <1>3, <1>4, <1>5, <1>6, <2>1 DEF S!SessionWorks
<1>8. S!NothingLeaked'
  <2>1. heap' = (IF rt[1] = "ok" THEN {1} \X S!Part ELSE {})
                  \cup (IF rt[2] = "ok" THEN {2} \X S!Part ELSE {})
    BY <1>1, <1>2, HeapMade
  <2> QED  BY <1>2, <1>5, <2>1 DEF S!NothingLeaked, S!Ready
<1>9. S!EachMemberTold'
  <2>1. ASSUME S!HasCodecs', told'.whole, NEW f \in Field
        PROVE  told'.field[f] = IF g.field[f] \in Text THEN g.field[f] ELSE config[f]
    <3>1. g.field[f] \in Text \cup {S!EMPTY, ABSENT}
      BY DEF S!Given
    <3>2. told'.field[f] = S!UserInfo(f, S!AsString(g.field[f]))
      BY <1>3, <1>4, <1>6, <2>1
    <3> QED  BY <3>1, <3>2, MemberTold
  <2>2. S!HasCodecs' /\ told'.whole => told'.other = g.other
    BY <1>3, <1>4, <1>6
  <2>3. overrun' \/ ~told'.whole => S!MostEscaped'
    BY <1>2, <1>4 DEF S!MostEscaped, S!UserInfo, S!Total
  <2> QED  BY <1>1, <1>2, <2>1, <2>2, <2>3 DEF S!EachMemberTold
<1> QED  BY <1>2, <1>7, <1>8, <1>9 DEF S!ConfigInv

(* One whose string does not parse has no codec, and is told nothing that  *)
(* would not fit.                                                          *)
LEMMA ConfigStartUnparsable == S!ConfigInv /\ S!StartUnparsable => S!ConfigInv'
<1> SUFFICES ASSUME S!ConfigInv, S!StartUnparsable PROVE S!ConfigInv'
  OBVIOUS
<1>1. PICK u \in Junk : sp' = S!Unparsed(u) /\ S!Begin(S!Unparsed(u))
  BY DEF S!StartUnparsable
<1>2. /\ given' = UNPARSABLE /\ config' = config /\ heap' = heap
      /\ state = "idle" /\ config \in S!Fields
  BY DEF S!StartUnparsable, S!ConfigInv
<1> DEFINE info == [f \in Field |-> S!UserInfo(f, sp'.field[f])]
<1>3. overrun' \/ ~told'.whole =>
        2 * S!Total(info, sp'.other, 2) >= S!Total(info, sp'.other, 1)
  <2>1. S!Unparsed(u).field \in S!Fields /\ S!Unparsed(u).other \in SUBSET Other
    BY DEF S!Unparsed, S!NoField, S!Fields
  <2> QED  BY <1>1, <1>2, <2>1, BeginTells
<1>4. ~S!Ready /\ ~S!Ready'
  BY <1>2 DEF S!Ready
<1>5. S!NothingLeaked'
  BY <1>2, <1>4 DEF S!NothingLeaked, S!ConfigInv
<1>6. overrun' \/ ~told'.whole => S!MostEscaped'
  BY <1>2, <1>3 DEF S!MostEscaped, S!UserInfo, S!Total
<1> QED  BY <1>2, <1>4, <1>5, <1>6
         DEF S!ConfigInv, S!SessionWorks, S!EachMemberTold, S!HasCodecs

(* The end of a session frees its codecs.                                  *)
LEMMA ConfigEnd == S!ConfigInv /\ S!EndSession => S!ConfigInv'
<1> SUFFICES ASSUME S!ConfigInv, S!EndSession PROVE S!ConfigInv'
  OBVIOUS
<1>1. /\ state' # "session" /\ given' = UNPARSABLE /\ config' = config
      /\ heap' = heap \ S!Released
  BY DEF S!EndSession
<1>2. ~S!Ready'
  BY <1>1 DEF S!Ready
<1>3. heap' = {}
  BY <1>1 DEF S!ConfigInv, S!NothingLeaked, S!Released, S!Freed
<1> QED  BY <1>1, <1>2, <1>3
         DEF S!ConfigInv, S!SessionWorks, S!NothingLeaked, S!EachMemberTold, S!HasCodecs

(* ConfigInv is an invariant.                                              *)
LEMMA ConfigBehaviour == Setup => []S!ConfigInv
<1>1. Start => S!ConfigInv
  BY DEF Start, S!Init, S!ConfigInv, S!SessionWorks, S!NothingLeaked, S!EachMemberTold,
         S!HasCodecs, S!Ready, S!Fields, S!NoField
<1>2. S!ConfigInv /\ [Step]_<<part, vars, session>> => S!ConfigInv'
  <2> SUFFICES ASSUME S!ConfigInv, [Step]_<<part, vars, session>> PROVE S!ConfigInv'
    OBVIOUS
  <2>1. CASE S!CloudVDInit
    BY <2>1 DEF S!CloudVDInit, S!ConfigInv, S!SessionWorks, S!NothingLeaked,
                S!EachMemberTold, S!HasCodecs, S!Ready
  <2>2. CASE UNCHANGED session
    BY <2>2 DEF session, S!ConfigInv, S!SessionWorks, S!NothingLeaked, S!EachMemberTold,
                S!HasCodecs, S!Ready, S!MostEscaped, S!UserInfo
  <2> QED  BY <2>1, <2>2, ConfigStart, ConfigStartUnparsable, ConfigEnd DEF Step, S!Next
<1> QED  BY <1>1, <1>2, PTL DEF Setup

(* A session whose codecs could be made works, whatever the application    *)
(* gave and whatever the memory held: the encoder uses the rate and level  *)
(* the service is told of, and its requests end.                           *)
THEOREM SessionsWork == Setup => []SessionWorks
<1>1. S!ConfigInv => SessionWorks
  BY DEF S!ConfigInv, SessionWorks
<1> QED  BY <1>1, ConfigBehaviour, PTL

(* The allocated parts of codecs are those of the session's codecs.        *)
THEOREM CodecsFreed == Setup => []NothingLeaked
<1>1. S!ConfigInv => NothingLeaked
  BY DEF S!ConfigInv, NothingLeaked
<1> QED  BY <1>1, ConfigBehaviour, PTL

(* The service is told every member of a parameter string, of any fields   *)
(* and texts, unless a codec or the ciphertext's buffer fails; the latter  *)
(* only if at least half of the text has to be escaped.                    *)
THEOREM MembersTold == Setup => []EachMemberTold
<1>1. S!ConfigInv => EachMemberTold
  BY DEF S!ConfigInv, EachMemberTold
<1> QED  BY <1>1, ConfigBehaviour, PTL

=============================================================================
