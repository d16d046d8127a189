---------------------------- MODULE ReadWriteLock ----------------------------
(***************************************************************************)
(* pthread_rwlock_t of the Windows threads library (pthread_rwlock_*.c,    *)
(* ptw32_rwlock_*.c): two mutexes, a condition variable and three counts.  *)
(* A reader counts itself in under the first mutex and out under the       *)
(* second; a writer keeps both, and waits until those that are in have     *)
(* counted themselves out.  The mutexes are what MutexLock is shown to     *)
(* implement; the condition variable has at most one waiter here.          *)
(***************************************************************************)
EXTENDS Integers, FiniteSets

CONSTANTS
  Thread,
  INT_MAX         (* at which the reader counts are made smaller            *)

VARIABLES
  obj,            (* the lock                                               *)
  pc,             (* where each thread is                                   *)
  loc             (* the call it is in and the lock it holds                *)

NOBODY == "nobody"

ReadOps  == {"rdlock", "tryrdlock", "timedrdlock"}
WriteOps == {"wrlock", "trywrlock", "timedwrlock"}
TryOps   == {"tryrdlock", "trywrlock"}
TimedOps == {"timedrdlock", "timedwrlock"}

(* A static initialiser, or what pthread_rwlock_init makes.                *)
Init ==
  /\ obj \in [ptr: {"static", "live"}, exclusiveAccess: {NOBODY}, completedAccess: {NOBODY},
              nShared: {0}, nExclusive: {0}, nCompleted: {0}, signal: {FALSE}]
  /\ pc = [t \in Thread |-> "idle"]
  /\ loc = [t \in Thread |-> [op |-> "none", holds |-> "none"]]

Goto(t, label) == pc' = [pc EXCEPT ![t] = label]

(* The call returns, holding what it says.                                 *)
Return(t, holds) ==
  Goto(t, "idle") /\ loc' = [loc EXCEPT ![t] = [op |-> "none", holds |-> holds]]

BothFree(o) == [o EXCEPT !.exclusiveAccess = NOBODY, !.completedAccess = NOBODY]

Destroying == \E t \in Thread : loc[t].op = "destroy"

(* A call by a thread that does not hold the lock; NULL is EINVAL.         *)
Call(t) ==
  /\ pc[t] = "idle" /\ loc[t].holds = "none" /\ obj.ptr # "null" /\ ~Destroying
  /\ \E op \in ReadOps \cup WriteOps : loc' = [loc EXCEPT ![t].op = op]
  /\ Goto(t, IF obj.ptr = "static" THEN "init" ELSE "exclusive")
  /\ UNCHANGED obj

(* ptw32_rwlock_check_need_init, one thread at a time.                     *)
CheckNeedInit(t) ==
  /\ pc[t] = "init"
  /\ obj' = IF obj.ptr = "static" THEN [obj EXCEPT !.ptr = "live"] ELSE obj
  /\ IF obj.ptr = "null" THEN Return(t, "none")
                         ELSE Goto(t, "exclusive") /\ UNCHANGED loc

(* mtxExclusiveAccess: locked, tried, or waited for until a time.          *)
LockExclusive(t) ==
  /\ pc[t] = "exclusive" /\ obj.exclusiveAccess = NOBODY
  /\ obj' = [obj EXCEPT !.exclusiveAccess = t]
  /\ Goto(t, IF loc[t].op \in ReadOps THEN "count" ELSE "completed")
  /\ UNCHANGED loc

ExclusiveRefused(t) ==
  /\ pc[t] = "exclusive" /\ obj.exclusiveAccess # NOBODY
  /\ loc[t].op \in TryOps \cup TimedOps
  /\ Return(t, "none")
  /\ UNCHANGED obj

-----------------------------------------------------------------------------
(* Readers.                                                                *)

(* A 32-bit count.                                                         *)
Next32(n) == IF n = INT_MAX THEN -INT_MAX - 1 ELSE n + 1

(* ++nSharedAccessCount; at INT_MAX the counts have to be made smaller.    *)
CountIn(t) ==
  LET n == Next32(obj.nShared) IN
  /\ pc[t] = "count"
  /\ IF n = INT_MAX
     THEN /\ obj' = [obj EXCEPT !.nShared = n]
          /\ Goto(t, "normalise")
          /\ UNCHANGED loc
     ELSE /\ obj' = [obj EXCEPT !.nShared = n, !.exclusiveAccess = NOBODY]
          /\ Return(t, "read")

(* nSharedAccessCount -= nCompletedSharedAccessCount, which becomes 0.     *)
Normalised(o) == [o EXCEPT !.nShared = @ - o.nCompleted, !.nCompleted = 0]

Normalise(t) ==
  /\ pc[t] = "normalise" /\ obj.completedAccess = NOBODY
  /\ obj' = [Normalised(obj) EXCEPT !.exclusiveAccess = NOBODY]
  /\ Return(t, "read")

(* timedrdlock gives up; it counts itself out without the mutex, so that   *)
(* its count and that of a thread with the mutex may become one, and the   *)
(* next reader's count overflows: the model ends here.                     *)
NormaliseTimedOut(t) ==
  /\ pc[t] = "normalise" /\ loc[t].op = "timedrdlock" /\ obj.completedAccess # NOBODY
  /\ \E n \in {obj.nCompleted, obj.nCompleted + 1} :
       obj' = [obj EXCEPT !.nCompleted = n, !.exclusiveAccess = NOBODY]
  /\ Goto(t, "lost")
  /\ loc' = [loc EXCEPT ![t] = [op |-> "none", holds |-> "none"]]

Lost == \E t \in Thread : pc[t] = "lost"

(* pthread_rwlock_unlock by a reader.                                      *)
Unlock(t) ==
  /\ pc[t] = "idle" /\ loc[t].holds = "read"
  /\ Goto(t, "leave")
  /\ UNCHANGED <<obj, loc>>

LockCompleted(t) ==
  /\ pc[t] = "leave" /\ obj.completedAccess = NOBODY
  /\ obj' = [obj EXCEPT !.completedAccess = t]
  /\ Goto(t, "complete")
  /\ UNCHANGED loc

SeenBefore(o) == o.nCompleted = 0

(* if (++nCompletedSharedAccessCount == 0) pthread_cond_signal (...)       *)
LastOut(o) == o.nCompleted + 1 = 0

CountOut(t) ==
  /\ pc[t] = "complete"
  /\ obj' = [obj EXCEPT !.nCompleted = @ + 1, !.completedAccess = NOBODY,
                        !.signal = @ \/ LastOut(obj)]
  /\ Return(t, "none")

-----------------------------------------------------------------------------
(* Writers.                                                                *)

ReadersIn(o) == Normalised(o).nShared > 0

(* With mtxSharedAccessCompleted too: the lock, if no reader is in.        *)
Enter(t) ==
  /\ pc[t] = "completed" /\ loc[t].op \in WriteOps /\ obj.completedAccess = NOBODY
  /\ ~ReadersIn(obj)
  /\ obj' = [(IF obj.nCompleted > 0 THEN Normalised(obj) ELSE obj)
               EXCEPT !.completedAccess = t, !.nExclusive = @ + 1]
  /\ Return(t, "write")

(* nCompletedSharedAccessCount counts from minus the readers to 0, and the *)
(* second mutex is given up to wait for that.                              *)
WaitForReaders(t) ==
  /\ pc[t] = "completed" /\ loc[t].op \in WriteOps \ TryOps /\ obj.completedAccess = NOBODY
  /\ ReadersIn(obj)
  /\ obj' = [Normalised(obj) EXCEPT !.nCompleted = -Normalised(obj).nShared,
                                    !.signal = FALSE]
  /\ Goto(t, "waiting")
  /\ UNCHANGED loc

(* trywrlock's EBUSY, with the readers or with the mutex; timedwrlock's    *)
(* timeout.                                                                *)
CompletedRefused(t) ==
  /\ pc[t] = "completed"
  /\ \/ /\ loc[t].op = "trywrlock" /\ obj.completedAccess = NOBODY /\ ReadersIn(obj)
        /\ obj' = [Normalised(obj) EXCEPT !.exclusiveAccess = NOBODY]
     \/ /\ loc[t].op \in {"trywrlock", "timedwrlock"} /\ obj.completedAccess # NOBODY
        /\ obj' = [obj EXCEPT !.exclusiveAccess = NOBODY]
  /\ Return(t, "none")

AllCompleted(t) == obj.nCompleted >= 0

(* pthread_cond_wait returns with the mutex.                               *)
Woken(t) ==
  /\ pc[t] = "waiting" /\ obj.signal /\ obj.completedAccess = NOBODY
  /\ AllCompleted(t)
  /\ obj' = [obj EXCEPT !.completedAccess = t, !.nShared = 0, !.nExclusive = @ + 1]
  /\ Return(t, "write")

CountsRestored == [obj EXCEPT !.nShared = -obj.nCompleted, !.nCompleted = 0]

(* ptw32_rwlock_cancelwrwait, after a timeout or a cancellation, whose     *)
(* thread ends.                                                            *)
CancelWait(t) ==
  /\ pc[t] = "waiting" /\ obj.completedAccess = NOBODY
  /\ obj' = BothFree(CountsRestored)
  /\ Return(t, "none")

(* pthread_rwlock_unlock by the writer.                                    *)
UnlockExclusive(t) ==
  /\ pc[t] = "idle" /\ loc[t].holds = "write"
  /\ obj' = [BothFree(obj) EXCEPT !.nExclusive = @ - 1]
  /\ Return(t, "none")

-----------------------------------------------------------------------------
(* pthread_rwlock_destroy.  A lock that was used: no thread is in a call   *)
(* to it.  A static one: threads may be about to initialise it.            *)

Destroy(t) ==
  /\ pc[t] = "idle" /\ loc[t].holds = "none" /\ ~Destroying
  /\ \/ /\ obj.ptr = "live" /\ \A u \in Thread : pc[u] = "idle"
        /\ loc' = [loc EXCEPT ![t].op = "destroy"]
        /\ Goto(t, "exclusive")
        /\ UNCHANGED obj
     \/ /\ obj.ptr = "static"
        /\ obj' = [obj EXCEPT !.ptr = "null"]
        /\ UNCHANGED <<pc, loc>>

StillRead == obj.nShared > obj.nCompleted

(* With both mutexes: EBUSY, or nobody holds it or waits and it is freed.  *)
DestroyLocked(t) ==
  /\ pc[t] = "completed" /\ loc[t].op = "destroy" /\ obj.completedAccess = NOBODY
  /\ obj' = [obj EXCEPT !.exclusiveAccess = NOBODY,
                        !.ptr = IF obj.nExclusive > 0 \/ StillRead THEN @ ELSE "null"]
  /\ Return(t, "none")

-----------------------------------------------------------------------------

Step(t) ==
  \/ CheckNeedInit(t) \/ LockExclusive(t) \/ CountIn(t) \/ Normalise(t)
  \/ LockCompleted(t) \/ CountOut(t) \/ Enter(t) \/ WaitForReaders(t)
  \/ CompletedRefused(t) \/ Woken(t) \/ DestroyLocked(t)

(* What the holder of the lock does in the end.                            *)
GiveUp(t) == Unlock(t) \/ UnlockExclusive(t)

Next == ~Lost /\ \E t \in Thread :
  \/ Step(t) \/ GiveUp(t) \/ Call(t) \/ Destroy(t)
  \/ ExclusiveRefused(t) \/ NormaliseTimedOut(t) \/ CancelWait(t)

Spec == Init /\ [][Next]_<<obj, pc, loc>>

-----------------------------------------------------------------------------
(* Properties.                                                             *)

TypeOK ==
  /\ obj \in [ptr: {"static", "live", "null"},
              exclusiveAccess: Thread \cup {NOBODY}, completedAccess: Thread \cup {NOBODY},
              nShared: 0..INT_MAX, nExclusive: 0..1,
              nCompleted: -Cardinality(Thread)..INT_MAX, signal: BOOLEAN]
  /\ pc \in [Thread -> {"idle", "init", "exclusive", "count", "normalise", "leave",
                        "complete", "completed", "waiting", "lost"}]
  /\ loc \in [Thread -> [op: ReadOps \cup WriteOps \cup {"none", "destroy"},
                         holds: {"none", "read", "write"}]]

(* The refinement mapping to Exclusion.                                    *)
Writers == {t \in Thread : loc[t].holds = "write"}
Readers == {t \in Thread : loc[t].holds = "read"}

(* Whatever times out, is cancelled or is made smaller, the counts tell    *)
(* how many readers are in; while a writer waits it is told by how far     *)
(* they are from 0.                                                        *)
ReadersCounted ==
  LET in == Cardinality(Readers) + Cardinality({t \in Thread : pc[t] = "normalise"})
  IN  Lost \/ IF \E t \in Thread : pc[t] = "waiting"
      THEN obj.nCompleted = -in
      ELSE Writers = {} => obj.nShared - obj.nCompleted = in

(* A writer that waits has readers to wait for, or has been signalled.     *)
WriterNotForgotten ==
  (\E t \in Thread : pc[t] = "waiting") => obj.signal \/ Readers # {}

(* A lock is not freed under a reader or a writer.                         *)
NoUseAfterFree ==
  obj.ptr = "null" => Readers = {} /\ Writers = {}

=============================================================================
