------------------------------- MODULE Barrier -------------------------------
(***************************************************************************)
(* pthread_barrier_t of the Windows threads library (pthread_barrier_*.c): *)
(* a height that counts down, and two semaphores the rounds use in turn.   *)
(* A semaphore is the count of CountingSemaphore, which module Semaphore   *)
(* is shown to implement; the wait is the one that cannot be cancelled.    *)
(***************************************************************************)
EXTENDS Integers, FiniteSets

CONSTANTS
  Thread,
  Height          (* threads the barrier is made for                        *)

VARIABLES
  obj,            (* the barrier                                            *)
  pc,             (* where each thread is                                   *)
  loc             (* step and result of its call                            *)

(* pthread_barrier_init.                                                   *)
Init ==
  /\ obj = [ptr |-> "live", height |-> Height, iStep |-> 0, sem |-> [s \in {0, 1} |-> 0]]
  /\ pc = [t \in Thread |-> "idle"]
  /\ loc = [t \in Thread |-> [step |-> 0, result |-> "none"]]

Goto(t, label) == pc' = [pc EXCEPT ![t] = label]

-----------------------------------------------------------------------------
(* pthread_barrier_wait.                                                   *)

(* b = *barrier; step = b->iStep;                                          *)
Enter(t) ==
  /\ pc[t] = "idle" /\ obj.ptr = "live"
  /\ loc' = [loc EXCEPT ![t].step = obj.iStep]
  /\ Goto(t, "decrement")
  /\ UNCHANGED obj

Decrement(t) ==
  /\ pc[t] = "decrement"
  /\ obj' = [obj EXCEPT !.height = @ - 1]
  /\ Goto(t, IF obj.height = 1 THEN "last" ELSE "wait")
  /\ UNCHANGED loc

(* "Must be done before posting the semaphore."                            *)
Reset(t) ==
  /\ pc[t] = "last"
  /\ obj' = [obj EXCEPT !.height = Height]
  /\ Goto(t, "post")
  /\ UNCHANGED loc

PostOne == 1

PostOthers == Height - 1

Post(t) ==
  /\ pc[t] = "post"
  /\ obj' = [obj EXCEPT !.sem[loc[t].step] = @ + PostOthers]
  /\ Goto(t, "cross")
  /\ UNCHANGED loc

Wait(t) ==
  /\ pc[t] = "wait" /\ obj.sem[loc[t].step] > 0
  /\ obj' = [obj EXCEPT !.sem[loc[t].step] = @ - 1]
  /\ Goto(t, "cross")
  /\ UNCHANGED loc

(* The compare-and-exchange of step for 1 - step: the first across.        *)
Cross(t) ==
  /\ pc[t] = "cross"
  /\ IF obj.iStep = loc[t].step
     THEN /\ obj' = [obj EXCEPT !.iStep = 1 - @]
          /\ loc' = [loc EXCEPT ![t].result = "SERIAL"]
     ELSE /\ loc' = [loc EXCEPT ![t].result = "0"]
          /\ UNCHANGED obj
  /\ Goto(t, "returned")

Return(t) ==
  /\ pc[t] = "returned"
  /\ Goto(t, "idle")
  /\ UNCHANGED <<obj, loc>>

(* pthread_barrier_destroy: undefined while a thread has not returned from *)
(* its wait, so that both sem_destroy succeed.                             *)
Destroy ==
  /\ obj.ptr = "live" /\ \A t \in Thread : pc[t] = "idle"
  /\ obj' = [obj EXCEPT !.ptr = "null"]
  /\ UNCHANGED <<pc, loc>>

-----------------------------------------------------------------------------

Step(t) == \/ Decrement(t) \/ Reset(t) \/ Post(t) \/ Wait(t) \/ Cross(t) \/ Return(t)

Next == Destroy \/ \E t \in Thread : Step(t) \/ Enter(t)

Spec == Init /\ [][Next]_<<obj, pc, loc>>

-----------------------------------------------------------------------------
(* Properties.                                                             *)

TypeOK ==
  /\ obj \in [ptr: {"live", "null"}, height: 0..Height, iStep: {0, 1},
              sem: [{0, 1} -> 0..Height]]
  /\ pc \in [Thread -> {"idle", "decrement", "last", "post", "wait", "cross", "returned"}]
  /\ loc \in [Thread -> [step: {0, 1}, result: {"none", "0", "SERIAL"}]]

(* The refinement mapping to AbstractBarrier.                              *)
Complete(s) == \/ obj.sem[s] > 0
               \/ \E t \in Thread : pc[t] \in {"last", "post"} /\ loc[t].step = s
Leaving == {t \in Thread : \/ pc[t] \in {"last", "post", "cross"}
                           \/ pc[t] = "wait" /\ Complete(loc[t].step)}
Arrived == {t \in Thread : pc[t] = "wait"} \ Leaving
Told    == [t \in Thread |-> loc[t].result]

(* "will nevertheless continue through the semaphore (barrier) and will    *)
(* not be left stranded" (comment in pthread_barrier_wait): fewer threads  *)
(* wait for a round to complete than complete one.                         *)
NotStranded == Cardinality(Arrived) < Height

=============================================================================
