----------------------------- MODULE AudioStream -----------------------------
(***************************************************************************)
(* What the voice interface promises of a session's audio, whatever        *)
(* threads, queues and retries are behind it: packets are numbered as they *)
(* are posted, the service gets them in that order, each as soon as those  *)
(* before it, until the upload fails or the session is over; and the       *)
(* upload is called complete only when the last packet has been received.  *)
(***************************************************************************)
EXTENDS Naturals, Sequences, FiniteSets

CONSTANT Session

VARIABLES
  delivered,      (* the packets the service has of each session            *)
  pending,        (* posted and still to be delivered, in order             *)
  outcome         (* what is known of the upload                            *)

stream == <<delivered, pending, outcome>>

Packets(s) == delivered[s] \cup {pending[s][i] : i \in DOMAIN pending[s]}

Init == /\ delivered = [s \in Session |-> {}]
        /\ pending = [s \in Session |-> <<>>]
        /\ outcome = [s \in Session |-> "open"]

Post(s) ==
  /\ outcome[s] = "open"
  /\ \A p \in Packets(s) : ~p.last
  /\ \E last \in BOOLEAN :
       pending' = [pending EXCEPT ![s] =
                    Append(@, [n |-> Cardinality(Packets(s)), last |-> last])]
  /\ UNCHANGED <<delivered, outcome>>

Deliver(s) ==
  /\ outcome[s] = "open"
  /\ pending[s] # <<>>
  /\ delivered' = [delivered EXCEPT ![s] = @ \cup {Head(pending[s])}]
  /\ pending' = [pending EXCEPT ![s] = Tail(@)]
  /\ UNCHANGED outcome

Complete(s) ==
  /\ outcome[s] = "open"
  /\ \E p \in delivered[s] : p.last
  /\ outcome' = [outcome EXCEPT ![s] = "complete"]
  /\ UNCHANGED <<delivered, pending>>

(* What was pending is lost, and whatever is posted later.                 *)
GiveUp(s, why) ==
  /\ outcome' = [outcome EXCEPT ![s] = why]
  /\ pending' = [pending EXCEPT ![s] = <<>>]
  /\ UNCHANGED delivered

Fail(s) == outcome[s] = "open" /\ GiveUp(s, "failed")

End(s) == outcome[s] # "over" /\ GiveUp(s, "over")

Next == \E s \in Session : Post(s) \/ Deliver(s) \/ Complete(s) \/ Fail(s) \/ End(s)

Spec == Init /\ [][Next]_stream

=============================================================================
