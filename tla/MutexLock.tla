------------------------------ MODULE MutexLock ------------------------------
(***************************************************************************)
(* pthread_mutex_t of the Windows threads library (pthread_mutex_*.c,      *)
(* ptw32_mutex_check_need_init.c).  lock_idx is 0 (free), 1 (locked) or -1 *)
(* (locked, threads may be waiting); it changes by interlocked exchanges,  *)
(* and an auto-reset event wakes one waiting thread.  A statically         *)
(* initialised mutex is made by the first thread that locks it.            *)
(***************************************************************************)
EXTENDS Integers

CONSTANTS
  Thread,
  MaxDepth        (* bound: locks a thread holds of a recursive mutex       *)

VARIABLES
  obj,            (* the mutex                                              *)
  pc,             (* where each thread is                                   *)
  loc             (* the call it is in and the locks it holds               *)

NOBODY == "nobody"
Kinds  == {"NORMAL", "RECURSIVE", "ERRORCHECK"}

(* The pointer is a static initialiser or a mutex just made.               *)
Init ==
  /\ obj \in [ptr: {"static", "live"}, kind: Kinds, lock_idx: {0}, event: {FALSE},
              owner: {NOBODY}, count: {0}, made: {0}]
  /\ pc = [t \in Thread |-> "idle"]
  /\ loc = [t \in Thread |-> [op |-> "none", depth |-> 0]]

Goto(t, label) == pc' = [pc EXCEPT ![t] = label]
Holds(t)       == loc[t].depth > 0

(* The call returns an error, or a success that changes no lock.           *)
Return(t) == Goto(t, "idle") /\ loc' = [loc EXCEPT ![t].op = "none"]

(* The call returns with the lock.                                         *)
Locked(t) ==
  /\ Goto(t, "idle")
  /\ loc' = [loc EXCEPT ![t] = [op |-> "none", depth |-> @.depth + 1]]

(* lock, timedlock, trylock: *mutex is read, an initialiser or a mutex.  A *)
(* thread does not lock a normal mutex twice.                              *)
Call(t) ==
  /\ pc[t] = "idle" /\ loc[t].depth < MaxDepth
  /\ obj.ptr # "null"
  /\ \E op \in {"lock", "timedlock", "trylock"} :
       /\ obj.kind = "NORMAL" /\ Holds(t) => op = "trylock"
       /\ loc' = [loc EXCEPT ![t].op = op]
  /\ Goto(t, IF obj.ptr = "static" THEN "init" ELSE "first")
  /\ UNCHANGED obj

CheckedOutside == TRUE

(* The second check, inside the critical section.                          *)
StillStatic == obj.ptr = "static"

(* ptw32_mutex_check_need_init, one thread at a time.                      *)
CheckNeedInit(t) ==
  /\ pc[t] = "init"
  /\ IF StillStatic
     THEN obj' = [ptr |-> "live", kind |-> obj.kind, lock_idx |-> 0, event |-> FALSE,
                  owner |-> NOBODY, count |-> 0, made |-> obj.made + 1]
     ELSE UNCHANGED obj
  /\ IF obj.ptr = "null" THEN Return(t) ELSE Goto(t, "first") /\ UNCHANGED loc

Free == obj.lock_idx = 0

(* InterlockedExchange(&lock_idx, 1), or with -1 in its place when it was  *)
(* a trylock's or an owned mutex's compare-and-exchange of 0 for 1.        *)
FirstNormal(t) ==
  /\ pc[t] = "first" /\ obj.kind = "NORMAL" /\ loc[t].op # "trylock"
  /\ obj' = [obj EXCEPT !.lock_idx = 1]
  /\ IF Free THEN Locked(t) ELSE Goto(t, "again") /\ UNCHANGED loc

FirstCompare(t) ==
  /\ pc[t] = "first" /\ (obj.kind # "NORMAL" \/ loc[t].op = "trylock")
  /\ IF Free
     THEN /\ obj' = [obj EXCEPT !.lock_idx = 1]
          /\ IF obj.kind = "NORMAL" THEN Locked(t) ELSE Goto(t, "claim") /\ UNCHANGED loc
     ELSE Goto(t, "contend") /\ UNCHANGED <<obj, loc>>

(* The owner is asked for without a lock.  Not its own: EBUSY, or wait.    *)
Contend(t) ==
  /\ pc[t] = "contend"
  /\ \/ /\ obj.kind = "RECURSIVE" /\ obj.owner = t
        /\ obj' = [obj EXCEPT !.count = @ + 1]
        /\ Locked(t)
     \/ /\ \/ loc[t].op = "trylock" /\ (obj.kind # "RECURSIVE" \/ obj.owner # t)
           \/ obj.kind = "ERRORCHECK" /\ obj.owner = t
        /\ Return(t)
        /\ UNCHANGED obj
     \/ /\ loc[t].op # "trylock" /\ obj.owner # t
        /\ Goto(t, "again")
        /\ UNCHANGED <<obj, loc>>

(* What a thread that is going to wait leaves in lock_idx.                 *)
WaiterMark == -1

Again(t) ==
  /\ pc[t] = "again"
  /\ obj' = [obj EXCEPT !.lock_idx = WaiterMark]
  /\ IF Free
     THEN IF obj.kind = "NORMAL" THEN Locked(t) ELSE Goto(t, "claim") /\ UNCHANGED loc
     ELSE Goto(t, "wait") /\ UNCHANGED loc

Woken(t) ==
  /\ pc[t] = "wait" /\ obj.event
  /\ obj' = [obj EXCEPT !.event = FALSE]
  /\ Goto(t, "again")
  /\ UNCHANGED loc

TimedOut(t) ==
  /\ pc[t] = "wait" /\ ~obj.event /\ loc[t].op = "timedlock"
  /\ Return(t)
  /\ UNCHANGED obj

(* recursive_count = 1; ownerThread = self;                                *)
Claim(t) ==
  /\ pc[t] = "claim"
  /\ obj' = [obj EXCEPT !.count = 1, !.owner = t]
  /\ Locked(t)

-----------------------------------------------------------------------------
(* pthread_mutex_unlock.  A normal mutex is unlocked by its holder; of the *)
(* others any thread may try, and has EPERM.                               *)

Exchanged(t) ==
  /\ obj' = [obj EXCEPT !.lock_idx = 0]
  /\ Goto(t, IF obj.lock_idx < 0 THEN "signal" ELSE "idle")
  /\ loc' = [loc EXCEPT ![t].depth = 0]

UnlockNormal(t) ==
  /\ pc[t] = "idle" /\ Holds(t) /\ obj.kind = "NORMAL"
  /\ Exchanged(t)

AnyThread(t) == TRUE

IsOwner(t) == obj.owner = t

UnlockOwned(t) ==
  /\ pc[t] = "idle" /\ obj.ptr = "live" /\ obj.kind # "NORMAL"
  /\ IsOwner(t)
  /\ IF obj.kind = "RECURSIVE" /\ obj.count > 1
     THEN /\ obj' = [obj EXCEPT !.count = @ - 1]
          /\ loc' = [loc EXCEPT ![t].depth = @ - 1]
          /\ UNCHANGED pc
     ELSE /\ obj' = [obj EXCEPT !.owner = NOBODY,
                       !.count = IF obj.kind = "RECURSIVE" THEN 0 ELSE @]
          /\ Goto(t, "release")
          /\ UNCHANGED loc

Release(t) == pc[t] = "release" /\ Exchanged(t)

Signal(t) ==
  /\ pc[t] = "signal"
  /\ obj' = [obj EXCEPT !.event = TRUE]
  /\ Goto(t, "idle")
  /\ UNCHANGED loc

-----------------------------------------------------------------------------
(* pthread_mutex_destroy.  A static mutex nobody has used yet is given up  *)
(* inside the critical section; one that exists is destroyed if trylock    *)
(* gets it, and only while no other thread is in a call (see the FIXME in  *)
(* the code).                                                              *)

DestroyStatic(t) ==
  /\ pc[t] = "idle" /\ obj.ptr = "static"
  /\ Goto(t, "unmake")
  /\ UNCHANGED <<obj, loc>>

Unmake(t) ==
  /\ pc[t] = "unmake"
  /\ obj' = IF obj.ptr = "static" THEN [obj EXCEPT !.ptr = "null"] ELSE obj
  /\ Goto(t, "idle")
  /\ UNCHANGED loc

NobodyHolds == obj.lock_idx = 0

Destroy(t) ==
  /\ obj.ptr = "live" /\ \A u \in Thread : pc[u] = "idle"
  /\ NobodyHolds
  /\ obj' = [obj EXCEPT !.ptr = "null"]
  /\ UNCHANGED <<pc, loc>>

-----------------------------------------------------------------------------

Step(t) ==
  \/ CheckNeedInit(t) \/ FirstNormal(t) \/ FirstCompare(t) \/ Contend(t)
  \/ Again(t) \/ Woken(t) \/ Claim(t) \/ Release(t) \/ Signal(t) \/ Unmake(t)

Next == \E t \in Thread : \/ Step(t) \/ Call(t) \/ TimedOut(t)
                          \/ UnlockNormal(t) \/ UnlockOwned(t)
                          \/ DestroyStatic(t) \/ Destroy(t)

Spec == Init /\ [][Next]_<<obj, pc, loc>>

-----------------------------------------------------------------------------
(* Properties.                                                             *)

Labels == {"idle", "init", "first", "contend", "again", "wait", "claim",
           "release", "signal", "unmake"}

TypeOK ==
  /\ obj \in [ptr: {"static", "live", "null"}, kind: Kinds, lock_idx: {-1, 0, 1},
              event: BOOLEAN, owner: Thread \cup {NOBODY}, count: 0..MaxDepth,
              made: {0, 1}]
  /\ pc \in [Thread -> Labels]
  /\ loc \in [Thread -> [op: {"none", "lock", "timedlock", "trylock"}, depth: 0..MaxDepth]]

(* The refinement mapping to Exclusion.                                    *)
Inside == {t \in Thread : Holds(t) \/ pc[t] = "claim"}

(* A waiting thread is not forgotten, although first exchanges overwrite   *)
(* its mark and timeouts leave marks behind: the event is set, or the      *)
(* holder will see the mark, or some thread is yet to set either.          *)
NoStrandedWaiter ==
  (\E t \in Thread : pc[t] = "wait") =>
    \/ obj.event
    \/ obj.lock_idx = -1
    \/ \E t \in Thread : pc[t] \in {"again", "signal"}

(* A thread that holds the mutex is its recorded owner, with as many locks *)
(* as it has taken, and no other thread can be taken for it.               *)
OwnerRecorded ==
  obj.kind # "NORMAL" =>
    /\ \A t \in Thread : obj.owner = t =>
         /\ loc[t].depth > 0
         /\ obj.kind = "RECURSIVE" => obj.count = loc[t].depth
    /\ \A t \in Thread : Holds(t) /\ pc[t] # "release" => obj.owner = t

(* Nobody is inside, or on the way in, of a mutex that is destroyed.       *)
NoUseAfterFree ==
  obj.ptr = "null" /\ obj.made > 0 => \A t \in Thread : ~Holds(t)

-----------------------------------------------------------------------------
(* The inductive invariant.                                                *)

(* Until there is a mutex, and when there is none any more, nobody is past *)
(* the checks at the beginning of a call; it is made once.                 *)
UsedOnceMade ==
  /\ obj.ptr # "live" => \A t \in Thread : /\ loc[t].depth = 0
                                           /\ pc[t] \in {"idle", "init", "unmake"}
  /\ obj.ptr = "static" => obj.made = 0

(* The bound on the locks a thread holds leaves room for the one it asks   *)
(* for.                                                                    *)
RoomToLock ==
  \A t \in Thread :
    pc[t] \in {"init", "first", "contend", "again", "wait", "claim"} => loc[t].depth < MaxDepth

(* A holder does not wait for itself, nor claim the mutex again.           *)
HoldersKnow ==
  \A t \in Thread :
    /\ Holds(t) => pc[t] \in {"idle", "first", "contend", "release"}
    /\ Holds(t) /\ obj.kind = "NORMAL" /\ pc[t] \in {"first", "contend"} =>
         loc[t].op = "trylock"
    /\ pc[t] = "release" => Holds(t) /\ obj.owner = NOBODY
    /\ pc[t] \in {"claim", "release"} => obj.kind # "NORMAL"

(* lock_idx is 0 exactly while nobody is inside, and one thread is at most.*)
LockWord ==
  /\ Free => Inside = {}
  /\ ~Free => Inside # {}
  /\ \A t, u \in Inside : t = u

MutexInv ==
  /\ TypeOK /\ UsedOnceMade /\ RoomToLock /\ HoldersKnow /\ LockWord /\ OwnerRecorded
  /\ NoStrandedWaiter

=============================================================================
