--------------------------- MODULE LookupInvariant ---------------------------
(***************************************************************************)
(* The inductive invariant of ParsingIP: who may still write pod_ip and    *)
(* normal_ip, and what is in them meanwhile.  TLC checks it on an          *)
(* instance; SetupProofs proves it for every instance.                     *)
(***************************************************************************)
EXTENDS ParsingIP

(* A call that is going on is counted, and asks for something.             *)
Asked ==
  /\ pc # <<"idle">> => calls # 0
  /\ calls # 0 => \A k \in Kind : ip[k].url \in Url /\ ip[k].url = ip["pod"].url

(* Calls whose threads have the globals to themselves stay so.             *)
OnlyCurrent == \A k \in Kind, n \in 1..MaxCalls : Alive(k, n) => n = calls

(* The thread of kind k is still to be created.                            *)
Uncreated(k) ==
  \/ pc = <<"create", k>>
  \/ k = "normal" /\ pc \in {<<"create", "pod">>, <<"await", "pod">>}

(* Nothing answers before its thread is there.                             *)
NoneYet ==
  \A k \in Kind : Uncreated(k) =>
    /\ ip[k].b_status = "INIT_STATUS"
    /\ \A n \in 1..MaxCalls : ~Alive(k, n)

(* A thread resolves the URL of its call, and until it stores a status     *)
(* there is none: each of the two is written once in a call.               *)
Resolving ==
  \A k \in Kind, n \in 1..MaxCalls :
    LET t == thread[k][n] IN
      /\ t.pc \in {"created", "started", "resolving", "first"} =>
           ip[k].b_status = "INIT_STATUS"
      /\ t.pc \in {"resolving", "first", "second"} => t.url = ip[k].url
      /\ t.pc \in {"first", "second"} => t.out \in Outcomes(k)
      /\ t.pc = "second" =>
           IF AddressFirst(t.out)
           THEN ip[k].b_status = "INIT_STATUS" /\ ip[k].IP = ip[k].url
           ELSE ip[k].b_status = t.out

Published == \A k \in Kind : Succeeded(k) => ip[k].IP = ip[k].url

PodFailed == ip["pod"].b_status \in {"UNSUCCEEDED", "POD_TIME_OUT"}

(* Why the calling thread is where it is, and what it returns.             *)
Reason ==
  /\ pc = <<"grace">>  => PodFailed
  /\ pc = <<"choose">> => PodFailed \/ \E k \in Kind : Succeeded(k)
  /\ pc \in {<<"idle">>} \cup {"kill"} \X Kind /\ calls # 0 =>
       \/ IP = ip["pod"].url
       \/ IP = NoIP /\ PodFailed

(* The invariant: what a call that began with no thread of an earlier one  *)
(* about can rely on.                                                      *)
LookupInv ==
  /\ TypeOK
  /\ Asked
  /\ clean => OnlyCurrent /\ NoneYet /\ Resolving /\ Published /\ Reason

=============================================================================
