------------------------------ MODULE Semaphore ------------------------------
(***************************************************************************)
(* sem_t of the Windows threads library (sem_*.c, ptw32_semwait.c): a      *)
(* count under a mutex, negative while threads wait, and a Win32 semaphore *)
(* that holds the wake-ups posted to them.  Threads wait outside the       *)
(* mutex, so a timeout or a cancellation races with the post meant for the *)
(* thread.  The library is built without NEED_SEM.                         *)
(***************************************************************************)
EXTENDS Integers, FiniteSets

CONSTANTS
  Thread,
  SEM_VALUE_MAX   (* INT_MAX in the library                                 *)

VARIABLES
  obj,            (* the sem_t and what it points to                        *)
  pc,             (* where each thread is                                   *)
  loc             (* the call it is in and the result so far                *)

NOBODY == "nobody"

WaitOps == {"sem_wait", "sem_timedwait", "ptw32_semwait"}
Ops     == WaitOps \cup {"sem_trywait", "sem_post", "sem_post_multiple", "sem_getvalue"}

(* sem_init; a failure leaves *sem as it was and nothing behind.           *)
Init ==
  /\ obj \in [sem: {"live"}, freed: {FALSE}, value: 0..SEM_VALUE_MAX,
              lock: {NOBODY}, w32: {0}]
  /\ pc = [t \in Thread |-> "idle"]
  /\ loc = [t \in Thread |-> [op |-> "none", count |-> 0, result |-> "0"]]

Goto(t, label)   == pc' = [pc EXCEPT ![t] = label]
Result(t, r)     == loc' = [loc EXCEPT ![t].result = r]
Finish(t, r)     == Goto(t, "returned") /\ Result(t, r)

(* A call reads *sem once; NULL is EINVAL, but for sem_timedwait, which    *)
(* does not ask and must not be called then.                               *)
Call(t) ==
  /\ pc[t] = "idle"
  /\ \E op \in Ops, n \in 1..2 :
       /\ op = "sem_post_multiple" \/ n = 1
       /\ op = "sem_timedwait" => obj.sem = "live"
       /\ loc' = [loc EXCEPT ![t] = [op |-> op, count |-> n,
                    result |-> IF obj.sem = "null" THEN "EINVAL" ELSE "0"]]
  /\ Goto(t, IF obj.sem = "null" THEN "returned" ELSE "lock")
  /\ UNCHANGED obj

Lock(t) ==
  /\ \/ pc[t] = "lock"    /\ Goto(t, "region")
     \/ pc[t] = "cleanup" /\ Goto(t, "cleaning")
  /\ obj.lock = NOBODY
  /\ obj' = [obj EXCEPT !.lock = t]
  /\ UNCHANGED loc

Region(t, ops) == pc[t] = "region" /\ loc[t].op \in ops

(* int v = --s->value, unlock; the thread has to wait if v < 0.            *)
Wait(t) ==
  /\ Region(t, WaitOps)
  /\ obj' = [obj EXCEPT !.value = @ - 1, !.lock = NOBODY]
  /\ IF obj.value - 1 < 0 THEN Goto(t, "blocked") /\ UNCHANGED loc
                          ELSE Finish(t, "0")

TryWait(t) ==
  /\ Region(t, {"sem_trywait"})
  /\ IF obj.value > 0
     THEN obj' = [obj EXCEPT !.value = @ - 1, !.lock = NOBODY] /\ Finish(t, "0")
     ELSE obj' = [obj EXCEPT !.lock = NOBODY] /\ Finish(t, "EAGAIN")

(* if (++s->value <= 0) ReleaseSemaphore(s->sem, 1, NULL)                  *)
Post(t) ==
  /\ Region(t, {"sem_post"})
  /\ IF obj.value < SEM_VALUE_MAX
     THEN /\ obj' = [obj EXCEPT !.value = @ + 1, !.lock = NOBODY,
                                !.w32 = IF obj.value + 1 <= 0 THEN @ + 1 ELSE @]
          /\ Finish(t, "0")
     ELSE obj' = [obj EXCEPT !.lock = NOBODY] /\ Finish(t, "ERANGE")

(* How many wake-ups sem_post_multiple releases.                           *)
Released(waiters, count) == IF waiters <= count THEN waiters ELSE count

PostMultiple(t) ==
  LET n == loc[t].count IN
  /\ Region(t, {"sem_post_multiple"})
  /\ IF obj.value <= SEM_VALUE_MAX - n
     THEN /\ obj' = [obj EXCEPT !.value = @ + n, !.lock = NOBODY,
                       !.w32 = IF obj.value < 0 THEN @ + Released(-obj.value, n) ELSE @]
          /\ Finish(t, "0")
     ELSE obj' = [obj EXCEPT !.lock = NOBODY] /\ Finish(t, "ERANGE")

GetValue(t) ==
  /\ Region(t, {"sem_getvalue"})
  /\ obj' = [obj EXCEPT !.lock = NOBODY]
  /\ Finish(t, "0")

(* WaitForMultipleObjects prefers the semaphore to the cancel event and to *)
(* the timeout.                                                            *)
Wake(t) ==
  /\ pc[t] = "blocked" /\ obj.w32 > 0
  /\ obj' = [obj EXCEPT !.w32 = @ - 1]
  /\ Finish(t, "0")

GiveUp(t) ==
  /\ pc[t] = "blocked" /\ obj.w32 = 0
  /\ \/ loc[t].op = "sem_timedwait" /\ Result(t, "ETIMEDOUT")
     \/ loc[t].op \in {"sem_wait", "sem_timedwait"} /\ Result(t, "CANCELED")
  /\ Goto(t, "cleanup")
  /\ UNCHANGED obj

(* WaitForSingleObject(s->sem, 0) in the cleanup handlers: was there a     *)
(* post between giving up and locking?                                     *)
PostedMeanwhile == obj.w32 > 0

(* ptw32_sem_wait_cleanup and ptw32_sem_timedwait_cleanup: take the        *)
(* wake-up, or stop counting as a waiter.                                  *)
Cleanup(t) ==
  /\ pc[t] = "cleaning"
  /\ IF PostedMeanwhile
     THEN /\ obj' = [obj EXCEPT !.w32 = @ - 1, !.lock = NOBODY]
          /\ Result(t, IF loc[t].result = "CANCELED" THEN "TAKEN" ELSE "0")
     ELSE /\ obj' = [obj EXCEPT !.value = @ + 1, !.lock = NOBODY]
          /\ UNCHANGED loc
  /\ Goto(t, "returned")

(* The caller has the result; a cancelled thread ends, and its place may   *)
(* be taken by another.                                                    *)
Return(t) ==
  /\ pc[t] = "returned"
  /\ Goto(t, "idle")
  /\ loc' = [loc EXCEPT ![t] = [op |-> "none", count |-> 0, result |-> "0"]]
  /\ UNCHANGED obj

-----------------------------------------------------------------------------
(* sem_destroy.  It may be called while threads are blocked (EBUSY), not   *)
(* while one is entering a call or has just been woken.                    *)

DestroyAllowed(t) ==
  \A u \in Thread \ {t} :
    \/ pc[u] \in {"idle", "returned"}
    \/ pc[u] = "blocked" /\ obj.w32 = 0

(* s = *sem; *sem = NULL;                                                  *)
Destroy(t) ==
  /\ pc[t] = "idle" /\ obj.sem = "live"
  /\ DestroyAllowed(t)
  /\ obj' = [obj EXCEPT !.sem = "null"]
  /\ loc' = [loc EXCEPT ![t].op = "sem_destroy"]
  /\ Goto(t, "trylock")

DestroyRefused(t) ==
  /\ pc[t] = "trylock" /\ obj.lock # NOBODY
  /\ Finish(t, "EBUSY")
  /\ UNCHANGED obj

NobodyBlocked == obj.value >= 0

(* With nobody waiting: unlock, CloseHandle, free.                         *)
DestroyLocked(t) ==
  /\ pc[t] = "trylock" /\ obj.lock = NOBODY
  /\ IF NobodyBlocked THEN /\ obj' = [obj EXCEPT !.freed = TRUE]
                           /\ Finish(t, "0")
                      ELSE Finish(t, "EBUSY") /\ UNCHANGED obj

-----------------------------------------------------------------------------

(* What a thread in a call does on its own.                                *)
Step(t) ==
  \/ Lock(t) \/ Wait(t) \/ TryWait(t) \/ Post(t) \/ PostMultiple(t) \/ GetValue(t)
  \/ Wake(t) \/ Cleanup(t) \/ Return(t) \/ DestroyRefused(t) \/ DestroyLocked(t)

Next == \E t \in Thread : Step(t) \/ Call(t) \/ GiveUp(t) \/ Destroy(t)

Spec == Init /\ [][Next]_<<obj, pc, loc>>

-----------------------------------------------------------------------------
(* Properties.                                                             *)

Labels == {"idle", "lock", "region", "blocked", "cleanup", "cleaning", "trylock",
           "returned"}

TypeOK ==
  /\ obj \in [sem: {"live", "null"}, freed: BOOLEAN,
              value: -Cardinality(Thread)..SEM_VALUE_MAX,
              lock: Thread \cup {NOBODY}, w32: 0..Cardinality(Thread)]
  /\ pc \in [Thread -> Labels]
  /\ loc \in [Thread -> [op: Ops \cup {"none", "sem_destroy"}, count: 0..2,
                result: {"0", "EINVAL", "EAGAIN", "ERANGE", "ETIMEDOUT",
                         "CANCELED", "TAKEN", "EBUSY"}]]

Waiters == {t \in Thread : pc[t] \in {"blocked", "cleanup", "cleaning"}}

(* The threads that wait, or have given up and not yet said so, are        *)
(* exactly those the count owes and those a wake-up is ready for: no post  *)
(* is lost and none wakes two, whatever times out or is cancelled.         *)
WaitersCounted ==
  Cardinality(Waiters) = obj.w32 + (IF obj.value < 0 THEN -obj.value ELSE 0)

(* A thread that may still use the semaphore finds it allocated.           *)
NoUseAfterFree ==
  obj.freed => \A t \in Thread :
    pc[t] \notin {"lock", "region", "blocked", "cleanup", "cleaning", "trylock"}

(* The refinement mapping to a counting semaphore.                         *)
Count   == obj.w32 + (IF obj.value > 0 THEN obj.value ELSE 0)
Granted == {t \in Thread : /\ pc[t] = "returned"
                           /\ loc[t].op \in WaitOps \cup {"sem_trywait"}
                           /\ loc[t].result \in {"0", "TAKEN"}}

-----------------------------------------------------------------------------
(* The inductive invariant.                                                *)

(* The mutex is held by the thread that is past it.                        *)
Locked ==
  \A t \in Thread : obj.lock = t <=> pc[t] \in {"region", "cleaning"}

(* What a thread is doing agrees with the call it is in.                   *)
InItsCall ==
  \A t \in Thread :
    /\ pc[t] \in {"lock", "region"} =>
         loc[t].op \in Ops /\ loc[t].count \in 1..2 /\ loc[t].result = "0"
    /\ pc[t] \in {"blocked", "cleanup", "cleaning"} => loc[t].op \in WaitOps
    /\ pc[t] \in {"cleanup", "cleaning"} => loc[t].result \in {"ETIMEDOUT", "CANCELED"}
    /\ pc[t] = "trylock" => loc[t].op = "sem_destroy"

(* Once *sem is NULL nobody posts: threads wait and give up, and the one   *)
(* that destroys it is alone in that.                                      *)
NobodyPosts ==
  /\ obj.sem = "null" => /\ obj.w32 = 0
                         /\ \A t \in Thread : pc[t] \notin {"lock", "region"}
  /\ \A t, u \in Thread : pc[t] = "trylock" /\ pc[u] = "trylock" => t = u
  /\ obj.freed \/ (\E t \in Thread : pc[t] = "trylock") => obj.sem = "null"

SemInv == TypeOK /\ Locked /\ InItsCall /\ NobodyPosts /\ WaitersCounted /\ NoUseAfterFree

=============================================================================
