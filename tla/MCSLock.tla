------------------------------- MODULE MCSLock -------------------------------
(***************************************************************************)
(* The queue lock of the Windows threads library (ptw32_MCS_lock.c).  Each *)
(* thread that wants the lock brings a node on its own stack and exchanges *)
(* it with the tail of the queue; it then links itself behind its          *)
(* predecessor and waits for its readyFlag.  A flag is clear (0), set (-1) *)
(* or holds the handle of an event its one waiter waits for.               *)
(***************************************************************************)
EXTENDS Sequences

CONSTANT Thread

VARIABLES
  obj,            (* the tail, the nodes, and the order of the exchanges    *)
  pc,             (* where each thread is                                   *)
  loc             (* pred and next of the call it is in                     *)

NONE == "none"

Clear == [nextFlag |-> "clear", readyFlag |-> "clear", next |-> NONE]

Init ==
  /\ obj = [tail |-> NONE, order |-> <<>>, node |-> [t \in Thread |-> Clear]]
  /\ pc = [t \in Thread |-> "idle"]
  /\ loc = [t \in Thread |-> [pred |-> NONE, next |-> NONE]]

Goto(t, label) == pc' = [pc EXCEPT ![t] = label]

(* ptw32_mcs_flag_set: what becomes of a flag.                             *)
FlagSet(f) == CASE f = "clear"  -> "set"
                [] f = "handle" -> "signalled"
                [] OTHER        -> f

-----------------------------------------------------------------------------
(* ptw32_mcs_lock_acquire.                                                 *)

(* The node is initialised, and exchanged with the tail.  The caller's     *)
(* next node is at the same place as its last one.                         *)
Acquire(t) ==
  /\ pc[t] = "idle"
  /\ obj' = [obj EXCEPT !.node[t] = Clear, !.tail = t, !.order = Append(@, t)]
  /\ loc' = [loc EXCEPT ![t] = [pred |-> obj.tail, next |-> NONE]]
  /\ Goto(t, IF obj.tail = NONE THEN "inside" ELSE "link")

(* pred->next = node;                                                      *)
Link(t) ==
  /\ pc[t] = "link"
  /\ obj' = [obj EXCEPT !.node[loc[t].pred].next = t]
  /\ Goto(t, "tell")
  /\ UNCHANGED loc

(* ptw32_mcs_flag_set(&pred->nextFlag): whatever is there by now.          *)
Tell(t) ==
  /\ pc[t] = "tell"
  /\ obj' = [obj EXCEPT !.node[loc[t].pred].nextFlag = FlagSet(@)]
  /\ Goto(t, "ready?")
  /\ UNCHANGED loc

(* ptw32_mcs_flag_wait: the flag is read; if it is clear an event's handle *)
(* is put into it, if it still is, and waited for.                         *)
FlagWait(t, field, read, swap, wait, done) ==
  /\ UNCHANGED loc
  /\ \/ /\ pc[t] = read
        /\ Goto(t, IF obj.node[t][field] = "clear" THEN swap ELSE done)
        /\ UNCHANGED obj
     \/ /\ pc[t] = swap
        /\ IF obj.node[t][field] = "clear"
           THEN Goto(t, wait) /\ obj' = [obj EXCEPT !.node[t][field] = "handle"]
           ELSE Goto(t, done) /\ UNCHANGED obj
     \/ /\ pc[t] = wait /\ obj.node[t][field] = "signalled"
        /\ Goto(t, done)
        /\ UNCHANGED obj

WaitReady(t) == FlagWait(t, "readyFlag", "ready?", "ready!", "ready", "inside")

-----------------------------------------------------------------------------
(* ptw32_mcs_lock_release.                                                 *)

ReadNext(t, label, known) ==
  /\ pc[t] = label
  /\ loc' = [loc EXCEPT ![t].next = obj.node[t].next]
  /\ Goto(t, known)
  /\ UNCHANGED obj

(* next is read once; with a successor known nothing else is waited for.   *)
Release(t) ==
  ReadNext(t, "inside", IF obj.node[t].next = NONE THEN "free" ELSE "pass")

NoSuccessor(t) == obj.tail = t

(* CAS(lock, 0, node): the lock is free, or somebody is on the way.        *)
FreeLock(t) ==
  /\ pc[t] = "free"
  /\ IF NoSuccessor(t)
     THEN /\ obj' = [obj EXCEPT !.tail = NONE, !.order = Tail(@)]
          /\ Goto(t, "idle")
     ELSE Goto(t, "next?") /\ UNCHANGED obj
  /\ UNCHANGED loc

WaitSuccessor(t) == FlagWait(t, "nextFlag", "next?", "next!", "next", "reread")

Reread(t) == ReadNext(t, "reread", "pass")

(* ptw32_mcs_flag_set(&next->readyFlag): with a null next the process ends *)
(* here.                                                                   *)
Pass(t) ==
  /\ pc[t] = "pass" /\ loc[t].next # NONE
  /\ obj' = [obj EXCEPT !.node[loc[t].next].readyFlag = FlagSet(@), !.order = Tail(@)]
  /\ Goto(t, "idle")
  /\ UNCHANGED loc

-----------------------------------------------------------------------------

Step(t) == \/ Link(t) \/ Tell(t) \/ WaitReady(t) \/ Release(t) \/ FreeLock(t)
           \/ WaitSuccessor(t) \/ Reread(t) \/ Pass(t)

Crashed == \E t \in Thread : pc[t] = "pass" /\ loc[t].next = NONE

Next == ~Crashed /\ \E t \in Thread : Step(t) \/ Acquire(t)

Spec == Init /\ [][Next]_<<obj, pc, loc>>

-----------------------------------------------------------------------------
(* Properties.                                                             *)

Inside == {t \in Thread : pc[t] \in {"inside", "free", "next?", "next!", "next",
                                     "reread", "pass"}}

(* Threads get the lock in the order in which they exchanged the tail, and *)
(* the tail is the last of them: no thread is passed over or forgotten by  *)
(* the links, which are made later and in any order.                       *)
FirstComeFirstServed ==
  /\ \A t \in Inside : obj.order # <<>> /\ Head(obj.order) = t
  /\ obj.tail = IF obj.order = <<>> THEN NONE ELSE obj.order[Len(obj.order)]

=============================================================================
