----------------------------- MODULE ThreadLife ------------------------------
(***************************************************************************)
(* The life of a thread in the Windows threads library: pthread_create,    *)
(* ptw32_threadStart, pthread_exit, pthread_win32_thread_detach_np,        *)
(* pthread_join, pthread_detach, pthread_cancel and the deferred           *)
(* cancellation points.  A ptw32_thread_t is never freed: it waits on the  *)
(* reuse list for the next thread, with a counter x that tells an old      *)
(* pthread_t [p, x] from a new one.  The library is linked statically, so  *)
(* that a thread tidies up before it ends.  Asynchronous cancellation is   *)
(* left out.                                                               *)
(***************************************************************************)
EXTENDS Naturals, Sequences, FiniteSetsExt

CONSTANTS
  Struct,         (* the ptw32_thread_t there is memory for                 *)
  Caller,         (* threads that create, join, detach and cancel           *)
  MaxReuse        (* bound: how often a ptw32_thread_t is destroyed before  *)
                  (* the last thread is created                             *)

VARIABLES
  obj,            (* reuse, the list; reuseLock, the critical section that  *)
                  (* guards it; tp, the ptw32_thread_t                      *)
  pc,             (* where each thread (at its ptw32_thread_t) and caller is*)
  loc             (* the callers' pthread_t                                 *)

NOBODY == "nobody"

(* A ptw32_thread_t.  asked: its thread has been cancelled; owned: it has  *)
(* neither been joined nor detached; stolen: its cancelLock was unlocked   *)
(* by another than the one who held it.                                    *)
Unused == [x |-> 0, made |-> FALSE, state |-> "Initial", detached |-> FALSE,
           cancelState |-> TRUE, cancelEvent |-> FALSE, cancelLock |-> NOBODY,
           exitStatus |-> "none", asked |-> FALSE, owned |-> FALSE,
           stolen |-> FALSE]

NoThread == [p |-> NOBODY, x |-> 0]

Init ==
  /\ obj = [reuse |-> <<>>, reuseLock |-> NOBODY, tp |-> [p \in Struct |-> Unused]]
  /\ pc = [a \in Struct \cup Caller |-> "idle"]
  /\ loc = [c \in Caller |-> NoThread]

Goto(a, label) == pc' = [pc EXCEPT ![a] = label]

Set(p, tp) == obj' = [obj EXCEPT !.tp[p] = tp]

CancelingOrLater == {"Canceling", "Last"}

(* Nobody is in the critical section ptw32_thread_reuse_lock.              *)
ReuseFree == obj.reuseLock = NOBODY

(* The mutex is a normal one: who unlocks it need not have locked it.      *)
Unlocked(tp, a) ==
  [tp EXCEPT !.cancelLock = NOBODY, !.stolen = @ \/ tp.cancelLock \notin {a, NOBODY}]

(* ptw32_threadDestroy and ptw32_threadReusePush: wiped but for x, and put *)
(* at the end of the list.                                                 *)
Destroyed(o, p) ==
  [o EXCEPT !.reuse = Append(@, p),
            !.tp[p] = [Unused EXCEPT !.x = o.tp[p].x + 1, !.made = TRUE]]

-----------------------------------------------------------------------------
(* pthread_create; ptw32_new takes the oldest of the list, or a new one.   *)

Available == IF obj.reuse # <<>> THEN {Head(obj.reuse)}
                                 ELSE {p \in Struct : ~obj.tp[p].made}

MayCreate == MapThenSumSet(LAMBDA p : obj.tp[p].x, Struct) < MaxReuse

Popped(p) == [obj EXCEPT !.reuse = IF @ = <<>> THEN @ ELSE Tail(@)]

Create(c) ==
  /\ pc[c] = "idle" /\ ReuseFree /\ MayCreate
  /\ \E p \in Available, d \in BOOLEAN :
       /\ pc[p] = "idle"
       /\ obj' = [Popped(p) EXCEPT
                    !.tp[p] = [Unused EXCEPT !.x = obj.tp[p].x, !.made = TRUE,
                                 !.detached = d, !.owned = ~d]]
       /\ Goto(p, "start")
  /\ UNCHANGED loc

(* No event, no memory for the parameters, or no thread.                   *)
CreateFails(c) ==
  /\ pc[c] = "idle" /\ ReuseFree /\ MayCreate
  /\ \E p \in Available : obj' = Destroyed(Popped(p), p)
  /\ UNCHANGED <<pc, loc>>

-----------------------------------------------------------------------------
(* The thread.                                                             *)

(* sp->state = PThreadStateRunning;                                        *)
Start(p) ==
  /\ pc[p] = "start"
  /\ Set(p, [obj.tp[p] EXCEPT !.state = "Running"])
  /\ Goto(p, "run")
  /\ UNCHANGED loc

Locks(a, p, from, to) ==
  /\ pc[a] = from /\ obj.tp[p].cancelLock = NOBODY
  /\ Set(p, [obj.tp[p] EXCEPT !.cancelLock = a])
  /\ Goto(a, to)
  /\ UNCHANGED loc

(* pthread_setcancelstate; its lock is held by nobody else meanwhile.      *)
SetCancelState(p) ==
  /\ pc[p] = "run" /\ obj.tp[p].cancelLock = NOBODY
  /\ obj.tp[p].state \notin CancelingOrLater
  /\ Set(p, [obj.tp[p] EXCEPT !.cancelState = ~@])
  /\ UNCHANGED <<pc, loc>>

Pending(p) == obj.tp[p].state = "CancelPending"

(* pthread_testcancel: without a lock unless the state says so.            *)
TestCancel(p) ==
  /\ pc[p] = "run" /\ Pending(p)
  /\ Goto(p, "test")
  /\ UNCHANGED <<obj, loc>>

TestLock(p) == Locks(p, p, "test", "tested")

Tested(p) ==
  /\ pc[p] = "tested"
  /\ IF obj.tp[p].cancelState
     THEN /\ Set(p, [Unlocked(obj.tp[p], p) EXCEPT
                       !.cancelEvent = FALSE, !.state = "Canceling"])
          /\ Goto(p, "unlock again")
     ELSE /\ Set(p, Unlocked(obj.tp[p], p))
          /\ Goto(p, "run")
  /\ UNCHANGED loc

(* sp->cancelState is set and the mutex unlocked once more, whoever has    *)
(* locked it in between; PTW32_EPS_CANCEL is thrown.                       *)
UnlockAgain(p) ==
  /\ pc[p] = "unlock again"
  /\ Set(p, [Unlocked(obj.tp[p], p) EXCEPT
               !.cancelState = FALSE, !.exitStatus = "CANCELED"])
  /\ Goto(p, "end")
  /\ UNCHANGED loc

(* ptw32_cancelable_wait got the event.                                    *)
CancelableWait(p) ==
  /\ pc[p] = "run" /\ obj.tp[p].cancelState /\ obj.tp[p].cancelEvent
  /\ Set(p, [obj.tp[p] EXCEPT !.cancelEvent = FALSE])
  /\ Goto(p, "waited")
  /\ UNCHANGED loc

WaitLock(p) == Locks(p, p, "waited", "woken")

Woken(p) ==
  /\ pc[p] = "woken"
  /\ Set(p, [Unlocked(obj.tp[p], p) EXCEPT !.state = "Canceling",
               !.cancelState = FALSE, !.exitStatus = "CANCELED"])
  /\ Goto(p, "end")
  /\ UNCHANGED loc

(* The start routine returns, or calls pthread_exit.                       *)
Exit(p) ==
  /\ pc[p] = "run"
  /\ Set(p, [obj.tp[p] EXCEPT !.exitStatus = "value"])
  /\ Goto(p, "end")
  /\ UNCHANGED loc

(* pthread_win32_thread_detach_np, after the keys' destructors.            *)
EndLock(p) == Locks(p, p, "end", "last")

Last(p) ==
  /\ pc[p] = "last"
  /\ Set(p, [obj.tp[p] EXCEPT !.state = "Last"])
  /\ Goto(p, "unlock")
  /\ UNCHANGED loc

LastUnlock(p) ==
  /\ pc[p] = "unlock"
  /\ Set(p, Unlocked(obj.tp[p], p))
  /\ Goto(p, "detached?")
  /\ UNCHANGED loc

AlreadyDetached(p) == obj.tp[p].detached

(* The thread ends with its handle signalled, or on the reuse list, for    *)
(* which it waits until no pthread_detach looks at its ptw32_thread_t.     *)
End(p) ==
  /\ pc[p] = "detached?"
  /\ IF AlreadyDetached(p)
     THEN ReuseFree /\ obj' = Destroyed(obj, p) /\ Goto(p, "idle")
     ELSE UNCHANGED obj /\ Goto(p, "ended")
  /\ UNCHANGED loc

-----------------------------------------------------------------------------
(* pthread_join and pthread_detach: one of them, once, and not while       *)
(* another caller cancels the thread.                                      *)

NoCallOn(p) ==
  \A c \in Caller : pc[c] # "idle" => loc[c].p # p \/ loc[c].x # obj.tp[p].x

Checked(p, x) == obj.tp[p].x = x /\ ~obj.tp[p].detached

JoinOrDetach(c) ==
  /\ pc[c] = "idle"
  /\ \E p \in Struct, op \in {"join", "detach"} :
       /\ obj.tp[p].owned /\ NoCallOn(p)
       /\ op = "join" => ReuseFree /\ Checked(p, obj.tp[p].x)
       /\ loc' = [loc EXCEPT ![c] = [p |-> p, x |-> obj.tp[p].x]]
       /\ Set(p, [obj.tp[p] EXCEPT !.owned = FALSE])
       /\ Goto(c, IF op = "join" THEN "join" ELSE "detach")

(* The caller has kept its pthread_t of a thread that it joined or         *)
(* detached before.                                                        *)
DetachAgain(c) ==
  /\ pc[c] = "idle" /\ loc[c] # NoThread
  /\ Goto(c, "detach")
  /\ UNCHANGED <<obj, loc>>

(* The handle is signalled.                                                *)
Joined(c) ==
  /\ pc[c] = "join" /\ pc[loc[c].p] = "ended"
  /\ Goto(c, "detach")
  /\ UNCHANGED <<obj, loc>>

(* pthread_detach keeps the reuse list's critical section until it has     *)
(* unlocked cancelLock; otherwise it is ESRCH or EINVAL.                   *)
DetachEnter(c) ==
  /\ pc[c] = "detach" /\ ReuseFree
  /\ IF Checked(loc[c].p, loc[c].x)
     THEN obj' = [obj EXCEPT !.reuseLock = c] /\ Goto(c, "entered")
     ELSE UNCHANGED obj /\ Goto(c, "idle")
  /\ UNCHANGED loc

DetachLock(c) == Locks(c, loc[c].p, "entered", "state?")

DetachAlways(p) == TRUE

StillRuns(p) == obj.tp[p].state # "Last"

(* tp->state is read: the thread will be told to destroy itself, or the    *)
(* caller does.  That the thread reads and stores its own in between is    *)
(* for cancelLock to prevent.                                              *)
DetachReads(c) ==
  /\ pc[c] = "state?"
  /\ Goto(c, IF StillRuns(loc[c].p) THEN "store" ELSE "take over")
  /\ UNCHANGED <<obj, loc>>

DetachStores(c) ==
  /\ pc[c] = "store"
  /\ Set(loc[c].p, [obj.tp[loc[c].p] EXCEPT !.detached = TRUE])
  /\ Goto(c, "stored")
  /\ UNCHANGED loc

DetachLeaves(c) ==
  LET p == loc[c].p IN
  /\ pc[c] \in {"stored", "take over"}
  /\ obj' = [obj EXCEPT !.tp[p] = Unlocked(@, c), !.reuseLock = NOBODY]
  /\ Goto(c, IF pc[c] = "stored" THEN "idle" ELSE "destroy")
  /\ UNCHANGED loc

(* Once the thread has ended.                                              *)
Destroy(c) ==
  /\ pc[c] = "destroy" /\ pc[loc[c].p] = "ended" /\ ReuseFree
  /\ obj' = Destroyed(obj, loc[c].p)
  /\ pc' = [pc EXCEPT ![c] = "idle", ![loc[c].p] = "idle"]
  /\ UNCHANGED loc

-----------------------------------------------------------------------------
(* pthread_cancel of a thread that was neither joined nor detached; of one *)
(* long gone it is ESRCH (pthread_kill).                                   *)

Cancel(c) ==
  /\ pc[c] = "idle" /\ ReuseFree
  /\ \E p \in Struct :
       /\ obj.tp[p].owned
       /\ loc' = [loc EXCEPT ![c] = [p |-> p, x |-> obj.tp[p].x]]
  /\ Goto(c, "cancel")
  /\ UNCHANGED obj

CancelLock(c) == Locks(c, loc[c].p, "cancel", "canceling")

CancelRequested(c) ==
  LET p == loc[c].p  tp == obj.tp[p] IN
  /\ pc[c] = "canceling"
  /\ Set(p, [tp EXCEPT
               !.state = IF @ \in {"Initial", "Running"} THEN "CancelPending" ELSE @,
               !.cancelEvent = @ \/ tp.state \in {"Initial", "Running"},
               !.asked = @ \/ tp.state \notin CancelingOrLater])
  /\ Goto(c, "requested")
  /\ UNCHANGED loc

CancelUnlock(c) ==
  /\ pc[c] = "requested"
  /\ Set(loc[c].p, Unlocked(obj.tp[loc[c].p], c))
  /\ Goto(c, "idle")
  /\ loc' = [loc EXCEPT ![c] = NoThread]

-----------------------------------------------------------------------------

ThreadStep(p) ==
  \/ Start(p) \/ TestLock(p) \/ Tested(p) \/ UnlockAgain(p) \/ WaitLock(p)
  \/ Woken(p) \/ EndLock(p) \/ Last(p) \/ LastUnlock(p) \/ End(p)

CallerStep(c) ==
  \/ Joined(c) \/ DetachEnter(c) \/ DetachLock(c) \/ DetachReads(c)
  \/ DetachStores(c) \/ DetachLeaves(c) \/ Destroy(c)
  \/ CancelLock(c) \/ CancelRequested(c) \/ CancelUnlock(c)

Next ==
  \/ \E p \in Struct : \/ ThreadStep(p) \/ SetCancelState(p) \/ TestCancel(p)
                        \/ CancelableWait(p) \/ Exit(p)
  \/ \E c \in Caller : \/ CallerStep(c) \/ Create(c) \/ CreateFails(c)
                        \/ JoinOrDetach(c) \/ DetachAgain(c) \/ Cancel(c)

Spec == Init /\ [][Next]_<<obj, pc, loc>>

-----------------------------------------------------------------------------
(* Properties.                                                             *)

(* A pthread_detach that has found its pthread_t to be valid.              *)
Detaching == {"entered", "state?", "store", "stored", "take over", "destroy"}

TypeOK ==
  /\ obj.reuse \in Seq(Struct)
  /\ obj.reuseLock \in Caller \cup {NOBODY}
  /\ obj.tp \in [Struct ->
       [x: 0..MaxReuse, made: BOOLEAN, detached: BOOLEAN, cancelState: BOOLEAN,
        cancelEvent: BOOLEAN, asked: BOOLEAN, owned: BOOLEAN, stolen: BOOLEAN,
        state: {"Initial", "Running", "CancelPending", "Canceling", "Last"},
        cancelLock: Struct \cup Caller \cup {NOBODY},
        exitStatus: {"none", "value", "CANCELED"}]]
  /\ pc \in [Struct \cup Caller ->
       {"idle", "start", "run", "test", "tested", "unlock again", "waited", "woken",
        "end", "last", "unlock", "detached?", "ended", "join", "detach", "cancel",
        "canceling", "requested"} \cup Detaching]
  /\ loc \in [Caller -> [p: Struct \cup {NOBODY}, x: 0..MaxReuse]]

(* A ptw32_thread_t waits for reuse once, and not while a thread runs on   *)
(* it or a pthread_t of it may still be joined, detached or be waited for: *)
(* the thread and the caller that detaches it do not both destroy it, and  *)
(* nobody is let in with a pthread_t of a thread before.                   *)
DestroyedOnce ==
  /\ \A i \in DOMAIN obj.reuse : LET p == obj.reuse[i] IN
       /\ pc[p] = "idle" /\ ~obj.tp[p].owned
       /\ \A j \in DOMAIN obj.reuse : obj.reuse[j] = p => i = j
       /\ \A c \in Caller : loc[c].p = p => pc[c] \notin Detaching \cup {"join"}
  /\ \A c \in Caller : pc[c] \in Detaching => loc[c].x = obj.tp[loc[c].p].x

(* Nor does each leave it to the other: a thread that has ended can still  *)
(* be joined or detached, or is about to be destroyed by a caller.  Only   *)
(* one cancelled in pthread_testcancel may be lost, if its second unlock   *)
(* let it read detachState between the detaching caller's test of state    *)
(* and store.                                                              *)
ThreadsScavenged ==
  \A p \in Struct : LET tp == obj.tp[p] IN
    /\ pc[p] = "ended" /\ ~tp.owned =>
         \/ \E c \in Caller : /\ loc[c].p = p /\ loc[c].x = tp.x
                              /\ pc[c] \in Detaching \cup {"join", "detach"}
         \/ tp.stolen /\ tp.detached /\ tp.exitStatus = "CANCELED"
    /\ pc[p] = "idle" /\ tp.made => \E i \in DOMAIN obj.reuse : obj.reuse[i] = p

(* A thread ends cancelled only if this thread, not one that had its       *)
(* ptw32_thread_t before, was cancelled.                                   *)
CancelledIfAsked ==
  \A p \in Struct : obj.tp[p].exitStatus = "CANCELED" => obj.tp[p].asked

=============================================================================
