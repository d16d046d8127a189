------------------------------ MODULE SpinLock -------------------------------
(***************************************************************************)
(* pthread_spinlock_t of the Windows threads library (pthread_spin_*.c,    *)
(* ptw32_spinlock_check_need_init.c).  interlock moves between UNLOCKED    *)
(* and LOCKED by compare-and-exchange; on one processor it says USE_MUTEX  *)
(* instead and a mutex, as in module MutexLock, does the work.             *)
(***************************************************************************)
EXTENDS Naturals

CONSTANT Thread

VARIABLES
  obj,            (* the lock                                               *)
  pc,             (* where each thread is                                   *)
  loc             (* the call it is in, and whether it has the lock         *)

NOBODY == "nobody"

(* pthread_spin_init: several processors, or one.                          *)
Made == {"UNLOCKED", "USE_MUTEX"}

Init ==
  /\ obj \in [ptr: {"static", "live"}, interlock: Made, mutex: {NOBODY}, made: {0}]
  /\ pc = [t \in Thread |-> "idle"]
  /\ loc = [t \in Thread |-> [op |-> "none", holds |-> FALSE]]

Goto(t, label) == pc' = [pc EXCEPT ![t] = label]

(* The call returns, with the lock or without.                             *)
Return(t, holds) == Goto(t, "idle") /\ loc' = [loc EXCEPT ![t] = [op |-> "none", holds |-> holds]]

(* lock and trylock read *lock; NULL is EINVAL.                            *)
Call(t) ==
  /\ pc[t] = "idle" /\ obj.ptr # "null"
  /\ \E op \in {"lock", "trylock"} :
       /\ loc[t].holds => op = "trylock"
       /\ loc' = [loc EXCEPT ![t].op = op]
  /\ Goto(t, IF obj.ptr = "static" THEN "init" ELSE "compare")
  /\ UNCHANGED obj

CheckedOutside == TRUE

(* The second check, inside the critical section.                          *)
StillStatic == obj.ptr = "static"

(* ptw32_spinlock_check_need_init, one thread at a time.                   *)
CheckNeedInit(t) ==
  /\ pc[t] = "init"
  /\ IF StillStatic
     THEN \E i \in Made : obj' = [ptr |-> "live", interlock |-> i, mutex |-> NOBODY,
                                  made |-> obj.made + 1]
     ELSE UNCHANGED obj
  /\ IF obj.ptr = "null" THEN Return(t, FALSE) ELSE Goto(t, "compare") /\ UNCHANGED loc

(* The compare-and-exchange of UNLOCKED for LOCKED.                        *)
Acquire(t) ==
  /\ pc[t] = "compare" /\ obj.interlock = "UNLOCKED"
  /\ obj' = [obj EXCEPT !.interlock = "LOCKED"]
  /\ Return(t, TRUE)

AcquireMutex(t) ==
  /\ pc[t] = "compare" /\ obj.interlock = "USE_MUTEX" /\ obj.mutex = NOBODY
  /\ obj' = [obj EXCEPT !.mutex = t]
  /\ Return(t, TRUE)

(* trylock's EBUSY; lock compares again, or waits for the mutex.           *)
Busy(t) ==
  /\ pc[t] = "compare" /\ loc[t].op = "trylock"
  /\ obj.interlock = "LOCKED" \/ obj.mutex # NOBODY
  /\ Return(t, loc[t].holds)
  /\ UNCHANGED obj

(* The compare-and-exchange of LOCKED for UNLOCKED, or the mutex's unlock. *)
Unlocked == IF obj.interlock = "LOCKED" THEN [obj EXCEPT !.interlock = "UNLOCKED"]
                                        ELSE [obj EXCEPT !.mutex = NOBODY]

(* It is called by the holder.                                             *)
Unlock(t) ==
  /\ pc[t] = "idle" /\ loc[t].holds
  /\ obj' = Unlocked
  /\ Return(t, FALSE)

-----------------------------------------------------------------------------
(* pthread_spin_destroy.                                                   *)

(* One that exists: the caller sees to it that no other thread uses it;    *)
(* one that is locked is refused.                                          *)
Destroy(t) ==
  /\ obj.ptr = "live" /\ \A u \in Thread : pc[u] = "idle"
  /\ obj.interlock # "LOCKED" /\ obj.mutex = NOBODY
  /\ obj' = [obj EXCEPT !.ptr = "null"]
  /\ UNCHANGED <<pc, loc>>

(* A static one is given up inside the critical section.                   *)
DestroyStatic(t) ==
  /\ pc[t] = "idle" /\ obj.ptr = "static"
  /\ Goto(t, "unmake")
  /\ UNCHANGED <<obj, loc>>

Unmake(t) ==
  /\ pc[t] = "unmake"
  /\ obj' = IF StillStatic THEN [obj EXCEPT !.ptr = "null"] ELSE obj
  /\ Goto(t, "idle")
  /\ UNCHANGED loc

-----------------------------------------------------------------------------

Step(t) == CheckNeedInit(t) \/ Acquire(t) \/ AcquireMutex(t) \/ Busy(t) \/ Unmake(t)

Next == \E t \in Thread : Step(t) \/ Call(t) \/ Unlock(t) \/ Destroy(t) \/ DestroyStatic(t)

Spec == Init /\ [][Next]_<<obj, pc, loc>>

-----------------------------------------------------------------------------
(* Properties.                                                             *)

TypeOK ==
  /\ obj \in [ptr: {"static", "live", "null"}, interlock: Made \cup {"LOCKED"},
              mutex: Thread \cup {NOBODY}, made: 0..1]
  /\ pc \in [Thread -> {"idle", "init", "compare", "unmake"}]
  /\ loc \in [Thread -> [op: {"none", "lock", "trylock"}, holds: BOOLEAN]]

(* The refinement mapping to Exclusion.                                    *)
Inside == {t \in Thread : loc[t].holds}

(* A static lock is made by one thread, and one that was given up before   *)
(* its first use is made by none.                                          *)
MadeOnce == obj.made <= 1 /\ (obj.ptr = "null" => Inside = {})

-----------------------------------------------------------------------------
(* The inductive invariant.                                                *)

(* A lock is used once it is made, and until it is destroyed.              *)
UsedOnceMade ==
  /\ obj.ptr = "static" => obj.made = 0
  /\ \A t \in Thread : pc[t] = "compare" \/ loc[t].holds => obj.ptr = "live"

(* interlock, and the mutex where it is used, say whether a thread is      *)
(* inside; the mutex says which.                                           *)
HeldByOne ==
  /\ obj.interlock # "USE_MUTEX" => obj.mutex = NOBODY
  /\ obj.interlock # "LOCKED" => \A t \in Thread : loc[t].holds <=> obj.mutex = t
  /\ obj.interlock = "LOCKED" =>
       \E t \in Thread : \A u \in Thread : loc[u].holds <=> u = t

SpinInv == TypeOK /\ UsedOnceMade /\ HeldByOne

=============================================================================
