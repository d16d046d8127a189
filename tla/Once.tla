-------------------------------- MODULE Once ---------------------------------
(***************************************************************************)
(* pthread_once of the Windows threads library (pthread_once.c): a flag    *)
(* checked outside and again inside a queue lock, and a cleanup handler    *)
(* that gives the lock up when the initialising thread is cancelled.  The  *)
(* lock is what MCSLock is shown to implement: one holder, first come      *)
(* first served.                                                           *)
(***************************************************************************)
EXTENDS Naturals, Sequences

CONSTANT Thread

VARIABLES
  obj,            (* the once_control, and how often its routine completed  *)
  pc,             (* where each thread is                                   *)
  loc             (* not used here                                          *)

Init ==
  /\ obj = [done |-> FALSE, queue |-> <<>>, completed |-> 0]
  /\ pc = [t \in Thread |-> "idle"]
  /\ loc = [t \in Thread |-> 0]

Goto(t, label) == pc' = [pc EXCEPT ![t] = label] /\ UNCHANGED loc

(* The check without the lock.                                             *)
Call(t) ==
  /\ pc[t] = "idle"
  /\ Goto(t, IF obj.done THEN "returned" ELSE "acquire")
  /\ UNCHANGED obj

Acquire(t) ==
  \/ /\ pc[t] = "acquire"
     /\ obj' = [obj EXCEPT !.queue = Append(@, t)]
     /\ Goto(t, "queued")
  \/ /\ pc[t] = "queued" /\ Head(obj.queue) = t
     /\ Goto(t, "locked")
     /\ UNCHANGED obj

DoneMeanwhile == obj.done

Recheck(t) ==
  /\ pc[t] = "locked"
  /\ Goto(t, IF DoneMeanwhile THEN "release" ELSE "routine")
  /\ UNCHANGED obj

RoutineReturns(t) ==
  /\ pc[t] = "routine"
  /\ obj' = [obj EXCEPT !.completed = @ + 1]
  /\ Goto(t, "done")

(* once_control->done = PTW32_TRUE;                                        *)
SetDone(t) ==
  /\ pc[t] = "done"
  /\ obj' = [obj EXCEPT !.done = TRUE]
  /\ Goto(t, "release")

ReleaseLock(t) ==
  /\ pc[t] = "release"
  /\ obj' = [obj EXCEPT !.queue = Tail(@)]
  /\ Goto(t, "returned")

(* ptw32_once_on_init_cancel.                                              *)
OnInitCancel == [obj EXCEPT !.queue = Tail(@)]

(* The routine is cancelled, or ends its thread; another thread may come.  *)
Cancelled(t) ==
  /\ pc[t] = "routine"
  /\ obj' = OnInitCancel
  /\ Goto(t, "idle")

Return(t) ==
  /\ pc[t] = "returned"
  /\ Goto(t, "idle")
  /\ UNCHANGED obj

Step(t) == \/ Acquire(t) \/ Recheck(t) \/ SetDone(t) \/ ReleaseLock(t) \/ Return(t)

Next == \E t \in Thread : Step(t) \/ Call(t) \/ RoutineReturns(t) \/ Cancelled(t)

Spec == Init /\ [][Next]_<<obj, pc, loc>>

-----------------------------------------------------------------------------
(* Properties.                                                             *)

TypeOK ==
  /\ obj \in [done: BOOLEAN, queue: Seq(Thread), completed: 0..1]
  /\ pc \in [Thread -> {"idle", "acquire", "queued", "locked", "routine", "done",
                        "release", "returned"}]

(* The routine completes at most once, runs in one thread at a time, and   *)
(* has completed before any call returns, though initialisers are          *)
(* cancelled and others take their place.                                  *)
InitialisedOnce ==
  /\ obj.completed <= 1
  /\ \A t, u \in Thread : pc[t] = "routine" /\ pc[u] = "routine" => t = u
  /\ \A t \in Thread :
       /\ pc[t] = "returned" => obj.completed = 1
       /\ pc[t] = "routine" => obj.completed = 0

-----------------------------------------------------------------------------
(* The inductive invariant.                                                *)

InQueue == {"queued", "locked", "routine", "done", "release"}

(* The queue holds the threads that wait for the lock, and first the one   *)
(* that has it.                                                            *)
QueueTrue ==
  /\ \A i \in 1..Len(obj.queue) : pc[obj.queue[i]] \in InQueue
  /\ \A t \in Thread : pc[t] \in InQueue => \E i \in 1..Len(obj.queue) : obj.queue[i] = t
  /\ \A i, j \in 1..Len(obj.queue) : obj.queue[i] = obj.queue[j] => i = j
  /\ \A t \in Thread : pc[t] \in InQueue \ {"queued"} => obj.queue[1] = t

(* The flag is set when the routine has completed, by the thread it        *)
(* completed in, and no other runs it after that.                          *)
DoneTrue ==
  /\ obj.completed = 1 <=> obj.done \/ \E t \in Thread : pc[t] = "done"
  /\ \A t \in Thread : /\ pc[t] \in {"release", "returned"} => obj.done
                       /\ pc[t] = "routine" => ~obj.done

OnceInv == TypeOK /\ QueueTrue /\ DoneTrue

=============================================================================
