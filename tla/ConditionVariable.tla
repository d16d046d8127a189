-------------------------- MODULE ConditionVariable --------------------------
(***************************************************************************)
(* pthread_cond_t of the Windows threads library (pthread_cond_*.c,        *)
(* ptw32_cond_check_need_init.c).  A gate (semBlockLock) lets waiters in   *)
(* and is shut from a signal until the waiters it unblocks are out; a      *)
(* waiter that timed out may be counted as gone (nWaitersGone) instead.    *)
(* Semaphores are counts and mutexes have one holder, as modules Semaphore *)
(* and MutexLock are shown to implement; the caller's mutex is one too.    *)
(***************************************************************************)
EXTENDS Integers, FiniteSetsExt

CONSTANTS
  Thread,
  GoneMax         (* INT_MAX / 2 in the library: gone waiters before they   *)
                  (* are taken off nWaitersBlocked                          *)

VARIABLES
  obj,            (* the condition variable and the locks around it         *)
  pc,             (* where each thread is                                   *)
  loc             (* op: the call it is in; n: nSignalsToIssue or           *)
                  (* nSignalsWasLeft; result: of the last call              *)

NOBODY == "nobody"

Init ==
  /\ obj \in [ptr: {"static", "live"}, nWaitersBlocked: {0}, nWaitersToUnblock: {0},
              nWaitersGone: {0}, semBlockLock: {1}, semBlockQueue: {0},
              mtxUnblockLock: {NOBODY}, mutex: {NOBODY}, list: {NOBODY}]
  /\ pc = [t \in Thread |-> "idle"]
  /\ loc = [t \in Thread |-> [op |-> "none", n |-> 0, result |-> "none"]]

Goto(t, label) == pc' = [pc EXCEPT ![t] = label]

Enter(t, op) == loc' = [loc EXCEPT ![t] = [op |-> op, n |-> 0, result |-> "none"]]

Destroying == \E t \in Thread : loc[t].op = "destroy"

Return(t, r) ==
  Goto(t, "idle") /\ loc' = [loc EXCEPT ![t] = [op |-> "none", n |-> 0, result |-> r]]

-----------------------------------------------------------------------------
(* pthread_cond_wait, pthread_cond_timedwait (ptw32_cond_timedwait), by a  *)
(* thread that has locked its mutex.                                       *)

Wait(t) ==
  /\ pc[t] = "idle" /\ obj.ptr # "null" /\ obj.mutex = NOBODY /\ ~Destroying
  /\ obj' = [obj EXCEPT !.mutex = t]
  /\ \E op \in {"wait", "timedwait"} : Enter(t, op)
  /\ Goto(t, IF obj.ptr = "static" THEN "init" ELSE "gate")

(* ptw32_cond_check_need_init, one thread at a time.                       *)
CheckNeedInit(t) ==
  /\ pc[t] = "init"
  /\ obj' = IF obj.ptr = "static" THEN [obj EXCEPT !.ptr = "live"] ELSE obj
  /\ Goto(t, IF obj.ptr = "null" THEN "unlock" ELSE "gate")
  /\ UNCHANGED loc

(* sem_wait (&cv->semBlockLock): the thread may be cancelled here; its own *)
(* handler unlocks the mutex.                                              *)
Gate(t) ==
  /\ pc[t] = "gate"
  /\ \/ /\ obj.semBlockLock > 0
        /\ obj' = [obj EXCEPT !.semBlockLock = @ - 1]
        /\ Goto(t, "count")
     \/ /\ obj' = obj
        /\ Goto(t, "unlock")
  /\ UNCHANGED loc

(* ++nWaitersBlocked, and the gate is opened again.                        *)
CountWaiter(t) ==
  /\ pc[t] = "count"
  /\ obj' = [obj EXCEPT !.nWaitersBlocked = @ + 1, !.semBlockLock = @ + 1]
  /\ Goto(t, "blocking")
  /\ UNCHANGED loc

UnlockMutex(t) ==
  /\ pc[t] = "blocking"
  /\ obj' = [obj EXCEPT !.mutex = NOBODY]
  /\ Goto(t, "queue")
  /\ UNCHANGED loc

(* sem_timedwait (&cv->semBlockQueue, abstime).                            *)
Awakened(t) ==
  /\ pc[t] = "queue" /\ obj.semBlockQueue > 0
  /\ obj' = [obj EXCEPT !.semBlockQueue = @ - 1]
  /\ Goto(t, "cleanup")
  /\ loc' = [loc EXCEPT ![t].result = "0"]

(* A timeout, or a cancellation.                                           *)
NotAwakened(t) ==
  /\ pc[t] = "queue" /\ obj.semBlockQueue = 0
  /\ \/ loc[t].op = "timedwait" /\ loc' = [loc EXCEPT ![t].result = "ETIMEDOUT"]
     \/ loc' = [loc EXCEPT ![t].result = "CANCELED"]
  /\ Goto(t, "cleanup")
  /\ UNCHANGED obj

-----------------------------------------------------------------------------
(* ptw32_cond_wait_cleanup.                                                *)

LockUnblock(t, from, to) ==
  /\ pc[t] = from /\ obj.mtxUnblockLock = NOBODY
  /\ obj' = [obj EXCEPT !.mtxUnblockLock = t]
  /\ Goto(t, to)
  /\ UNCHANGED loc

CleanupLock(t) == LockUnblock(t, "cleanup", "retract")

(* Somebody's signal is used up, whether it awakened this thread or not.   *)
SignalsLeft(t) == obj.nWaitersToUnblock # 0

Retract(t) ==
  /\ pc[t] = "retract"
  /\ IF SignalsLeft(t)
     THEN /\ obj' = [obj EXCEPT !.nWaitersToUnblock = @ - 1, !.mtxUnblockLock = NOBODY]
          /\ Goto(t, IF obj.nWaitersToUnblock = 1 THEN "open" ELSE "relock")
     ELSE IF obj.nWaitersGone + 1 = GoneMax
          THEN /\ obj' = [obj EXCEPT !.nWaitersGone = @ + 1]
               /\ Goto(t, "forget")
          ELSE /\ obj' = [obj EXCEPT !.nWaitersGone = @ + 1, !.mtxUnblockLock = NOBODY]
               /\ Goto(t, "relock")
  /\ UNCHANGED loc

Settled == [obj EXCEPT !.nWaitersBlocked = @ - obj.nWaitersGone, !.nWaitersGone = 0]

(* Gate taken, nWaitersBlocked -= nWaitersGone, gate opened.               *)
Forget(t) ==
  /\ pc[t] = "forget" /\ obj.semBlockLock > 0
  /\ obj' = [Settled EXCEPT !.mtxUnblockLock = NOBODY]
  /\ Goto(t, "relock")
  /\ UNCHANGED loc

(* if (1 == nSignalsWasLeft) sem_post (&cv->semBlockLock);                 *)
OpenGate(t) ==
  /\ pc[t] = "open"
  /\ obj' = [obj EXCEPT !.semBlockLock = @ + 1]
  /\ Goto(t, "relock")
  /\ UNCHANGED loc

(* The mutex is locked again, and the caller unlocks it.                   *)
Relock(t) ==
  \/ /\ pc[t] = "relock" /\ obj.mutex = NOBODY
     /\ obj' = [obj EXCEPT !.mutex = t]
     /\ Goto(t, "unlock")
     /\ UNCHANGED loc
  \/ /\ pc[t] = "unlock"
     /\ obj' = [obj EXCEPT !.mutex = NOBODY]
     /\ Return(t, "none")

-----------------------------------------------------------------------------
(* pthread_cond_signal and pthread_cond_broadcast (ptw32_cond_unblock).  A *)
(* static variable has no waiters.                                         *)

Signal(t) ==
  /\ pc[t] = "idle" /\ obj.ptr = "live" /\ ~Destroying
  /\ \E op \in {"signal", "broadcast"} : Enter(t, op)
  /\ Goto(t, "lock")
  /\ UNCHANGED obj

SignalLock(t) == LockUnblock(t, "lock", "unblock")

(* nWaitersToUnblock and nSignalsToIssue for one waiter or for all.        *)
Unblocked(o, all) ==
  LET n == IF all THEN o.nWaitersBlocked ELSE 1
  IN  [o EXCEPT !.nWaitersToUnblock = @ + n, !.nWaitersBlocked = @ - n,
                !.mtxUnblockLock = NOBODY]

Issue(t, o) ==
  /\ obj' = Unblocked(o, loc[t].op = "broadcast")
  /\ loc' = [loc EXCEPT ![t].n = o.nWaitersBlocked - obj'.nWaitersBlocked]
  /\ Goto(t, "post")

(* More are blocked than have gone.                                        *)
SomeBlocked == obj.nWaitersBlocked > obj.nWaitersGone

Unblock(t) ==
  /\ pc[t] = "unblock"
  /\ \/ /\ obj.nWaitersToUnblock # 0 /\ obj.nWaitersBlocked # 0
        /\ Issue(t, obj)
     \/ /\ obj.nWaitersToUnblock = 0 /\ SomeBlocked
        /\ Goto(t, "shut")
        /\ UNCHANGED <<obj, loc>>
     \/ /\ IF obj.nWaitersToUnblock # 0 THEN obj.nWaitersBlocked = 0 ELSE ~SomeBlocked
        /\ obj' = [obj EXCEPT !.mtxUnblockLock = NOBODY]
        /\ Return(t, "none")

GateLeftOpen == 0

GateShut == 1

(* The gate is shut, and stays so.                                         *)
ShutGate(t) ==
  /\ pc[t] = "shut" /\ obj.semBlockLock > 0
  /\ Issue(t, [Settled EXCEPT !.semBlockLock = @ - GateShut])

PostOne(t) == 1

Issued(t) == loc[t].n

(* sem_post_multiple (&cv->semBlockQueue, nSignalsToIssue);                *)
PostQueue(t) ==
  /\ pc[t] = "post"
  /\ obj' = [obj EXCEPT !.semBlockQueue = @ + Issued(t)]
  /\ Return(t, "none")

-----------------------------------------------------------------------------
(* pthread_cond_destroy.  No other thread is signalling or about to wait;  *)
(* threads may be blocked ("EBUSY 'cond' is in use") or on their way out   *)
(* of a wait.  A static variable is given up inside a critical section.    *)

Destroy(t) ==
  /\ pc[t] = "idle" /\ obj.ptr = "live"
  /\ \A u \in Thread \ {t} :
       pc[u] \in {"idle", "blocking", "queue", "cleanup", "retract", "forget",
                  "open", "relock", "unlock"}
  /\ ~Destroying
  /\ Enter(t, "destroy")
  /\ Goto(t, "list")
  /\ UNCHANGED obj

DestroyStatic(t) ==
  /\ pc[t] = "idle" /\ obj.ptr = "static"
  /\ obj' = [obj EXCEPT !.ptr = "null"]
  /\ UNCHANGED <<pc, loc>>

(* ptw32_cond_list_lock, which its holder may enter again.                 *)
LockList(t) ==
  /\ pc[t] = "list" /\ obj.list \in {NOBODY, t}
  /\ obj' = [obj EXCEPT !.list = t]
  /\ Goto(t, "close")
  /\ UNCHANGED loc

(* "Close the gate; this will synchronize this thread with all already     *)
(* signaled waiters to let them retract their waiter status".              *)
CloseGate(t) ==
  /\ pc[t] = "close" /\ obj.semBlockLock > 0
  /\ obj' = [obj EXCEPT !.semBlockLock = @ - 1]
  /\ Goto(t, "try")
  /\ UNCHANGED loc

(* pthread_mutex_trylock (&cv->mtxUnblockLock) fails: the list lock is not *)
(* given up.                                                               *)
TryFails(t) ==
  /\ pc[t] = "try" /\ obj.mtxUnblockLock # NOBODY
  /\ obj' = [obj EXCEPT !.semBlockLock = @ + 1]
  /\ Return(t, "EBUSY")

InUse == obj.nWaitersBlocked > obj.nWaitersGone

(* Still waiters, or freed and unlinked.                                   *)
TryLock(t) ==
  /\ pc[t] = "try" /\ obj.mtxUnblockLock = NOBODY
  /\ IF InUse
     THEN /\ obj' = [obj EXCEPT !.semBlockLock = @ + 1, !.list = NOBODY]
          /\ Return(t, "EBUSY")
     ELSE /\ obj' = [obj EXCEPT !.ptr = "null", !.list = NOBODY]
          /\ Return(t, "0")

-----------------------------------------------------------------------------

Step(t) ==
  \/ CheckNeedInit(t) \/ Gate(t) \/ CountWaiter(t) \/ UnlockMutex(t) \/ Awakened(t)
  \/ CleanupLock(t) \/ Retract(t) \/ Forget(t) \/ OpenGate(t) \/ Relock(t)
  \/ SignalLock(t) \/ Unblock(t) \/ ShutGate(t) \/ PostQueue(t)
  \/ LockList(t) \/ CloseGate(t) \/ TryFails(t) \/ TryLock(t)

Next == \E t \in Thread : \/ Step(t) \/ Wait(t) \/ NotAwakened(t) \/ Signal(t)
                          \/ Destroy(t) \/ DestroyStatic(t)

Spec == Init /\ [][Next]_<<obj, pc, loc>>

-----------------------------------------------------------------------------
(* Properties.                                                             *)

At(labels) == {t \in Thread : pc[t] \in labels}

TypeOK ==
  /\ obj \in [ptr: {"static", "live", "null"}, nWaitersBlocked: Nat,
              nWaitersToUnblock: 0..Cardinality(Thread), nWaitersGone: 0..GoneMax,
              semBlockLock: {0, 1}, semBlockQueue: Nat,
              mtxUnblockLock: Thread \cup {NOBODY}, mutex: Thread \cup {NOBODY},
              list: Thread \cup {NOBODY}]
  /\ pc \in [Thread -> {"idle", "init", "gate", "count", "blocking", "queue", "cleanup",
                        "retract", "forget", "open", "relock", "unlock", "lock",
                        "unblock", "shut", "post", "list", "close", "try"}]
  /\ loc \in [Thread -> [op: {"none", "wait", "timedwait", "signal", "broadcast", "destroy"},
                         n: 0..Cardinality(Thread),
                         result: {"none", "0", "ETIMEDOUT", "CANCELED", "EBUSY"}]]

(* Threads that count as waiters and have not retracted that.              *)
Counted == At({"blocking", "queue", "cleanup", "retract"})

(* The three counts together are the waiters, however these are awakened,  *)
(* time out, are cancelled, or go without a signal.                        *)
WaitersCounted ==
  obj.nWaitersBlocked - obj.nWaitersGone + obj.nWaitersToUnblock = Cardinality(Counted)

(* nSignalsToIssue of each thread.                                         *)
Issues == [t \in Thread |-> loc[t].n]

(* No wake-up is lost: as many units are in the queue, or about to be      *)
(* posted, as waiters are to be unblocked and not yet on their way out.    *)
NoLostWakeup ==
  obj.nWaitersToUnblock <=
    obj.semBlockQueue + SumFunctionOnSet(Issues, At({"post"}))
      + Cardinality(At({"cleanup", "retract"}))

(* The gate is shut as long as a waiter is to be unblocked: no thread that *)
(* comes later is let in between and takes its wake-up.                    *)
GateShutWhileUnblocking ==
  obj.nWaitersToUnblock > 0 => obj.semBlockLock = 0 /\ At({"count"}) = {}

(* "A condition variable can be destroyed immediately after all the        *)
(* threads that are blocked on it are awakened": none of them uses it      *)
(* once it is freed.                                                       *)
NoUseAfterFree ==
  obj.ptr = "null" =>
    At({"gate", "count", "blocking", "queue", "cleanup", "retract", "forget", "open"}) = {}

-----------------------------------------------------------------------------
(* The inductive invariant.                                                *)

(* The gate is open, or one thread has shut it, or waiters are to be       *)
(* unblocked and it stays shut.                                            *)
HoldsGate(t) == pc[t] \in {"count", "open", "try"}

GateTrue ==
  /\ obj.semBlockLock = 1 => obj.nWaitersToUnblock = 0
  /\ \A t \in Thread :
       HoldsGate(t) => /\ obj.semBlockLock = 0 /\ obj.nWaitersToUnblock = 0
                       /\ \A u \in Thread : HoldsGate(u) => u = t

(* mtxUnblockLock is held by the thread that changes the counts.           *)
UnblockLockTrue ==
  \A t \in Thread :
    obj.mtxUnblockLock = t <=> pc[t] \in {"retract", "forget", "unblock", "shut"}

(* No waiter has gone while others are to be unblocked, and the limit is   *)
(* reached only by the thread that is about to settle the counts.          *)
GoneTrue ==
  /\ obj.nWaitersToUnblock > 0 => obj.nWaitersGone = 0
  /\ obj.nWaitersGone = GoneMax => At({"forget"}) # {}
  /\ At({"forget", "shut"}) # {} => obj.nWaitersToUnblock = 0
  /\ At({"shut"}) # {} => SomeBlocked

(* Where threads may be while the variable is not made yet, is given up,   *)
(* or is about to be.                                                      *)
Outside == {"idle", "blocking", "queue", "cleanup", "retract", "forget", "open",
            "relock", "unlock"}

UsedWhileLive ==
  /\ obj.ptr = "static" => \A t \in Thread : pc[t] \in {"idle", "init"}
  /\ obj.ptr = "null"   => \A t \in Thread : pc[t] \in {"idle", "init", "relock", "unlock"}
  /\ \A t \in Thread :
       /\ loc[t].op = "destroy" <=> pc[t] \in {"list", "close", "try"}
       /\ loc[t].op = "destroy" => \A u \in Thread : u = t \/ pc[u] \in Outside

CondInv == /\ TypeOK /\ WaitersCounted /\ NoLostWakeup
           /\ GateTrue /\ UnblockLockTrue /\ GoneTrue /\ UsedWhileLive

=============================================================================
