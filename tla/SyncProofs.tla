----------------------------- MODULE SyncProofs ------------------------------
(***************************************************************************)
(* Proofs about the threads library, for any number of threads: what a     *)
(* mutex, a semaphore, a spin lock and pthread_once record is true, nobody *)
(* who waits is forgotten, what is to be made is made once, and the first  *)
(* three implement Exclusion and CountingSemaphore.                        *)
(***************************************************************************)
EXTENDS MCSync, Sequences, FiniteSets, FiniteSetTheorems, TLAPS

-----------------------------------------------------------------------------
(* The mutex.                                                              *)

MutexObject == [ptr: {"static", "live", "null"}, kind: Mutex!Kinds,
                lock_idx: {-1, 0, 1}, event: BOOLEAN, owner: Thread \cup {Mutex!NOBODY},
                count: 0..MaxDepth, made: {0, 1}]

MutexCalls == [op: {"none", "lock", "timedlock", "trylock"}, depth: 0..MaxDepth]

(* The thread t goes on at label l, and only that one.                     *)
Goes(t, l) == /\ pc' \in [Thread -> Mutex!Labels]
              /\ pc'[t] = l
              /\ \A u \in Thread : u # t => pc'[u] = pc[u]

(* What a jump to a label does.                                            *)
LEMMA MutexGoes ==
  ASSUME Mutex!TypeOK, NEW t \in Thread, NEW l \in Mutex!Labels, Mutex!Goto(t, l)
  PROVE Goes(t, l)
  BY DEF Mutex!TypeOK, Mutex!Goto, Goes

(* The call t is in becomes op, and it has d locks.                        *)
Holding(t, op, d) == /\ loc' \in [Thread -> MutexCalls]
                     /\ loc'[t].op = op /\ loc'[t].depth = d
                     /\ \A u \in Thread : u # t => loc'[u] = loc[u]

(* What a call that returns has done to loc.                               *)
LEMMA MutexReturns ==
  ASSUME Mutex!TypeOK, NEW t \in Thread
  PROVE /\ Mutex!Return(t) => Goes(t, "idle") /\ Holding(t, "none", loc[t].depth)
        /\ Mutex!Locked(t) /\ loc[t].depth < MaxDepth =>
             Goes(t, "idle") /\ Holding(t, "none", loc[t].depth + 1)
<1>0. "idle" \in Mutex!Labels
  BY DEF Mutex!Labels
<1>1. loc[t] \in MutexCalls
  BY DEF Mutex!TypeOK, MutexCalls
<1>2. Mutex!Return(t) => Holding(t, "none", loc[t].depth)
  BY <1>1 DEF Mutex!Return, Mutex!TypeOK, MutexCalls, Holding
<1>3. Mutex!Locked(t) /\ loc[t].depth < MaxDepth => Holding(t, "none", loc[t].depth + 1)
  BY <1>1, BoundAssumption DEF Mutex!Locked, Mutex!TypeOK, MutexCalls, Holding
<1> QED  BY <1>0, <1>2, <1>3, MutexGoes DEF Mutex!Return, Mutex!Locked

(* Nothing but the call a thread is in changes its calls.                  *)
LEMMA MutexKeepsCalls ==
  ASSUME Mutex!TypeOK, NEW t \in Thread, UNCHANGED loc
  PROVE Holding(t, loc[t].op, loc[t].depth)
  BY DEF Mutex!TypeOK, MutexCalls, Holding

(* The fields of the mutex after a step.                                   *)
Object(ptr, lock_idx, event, owner, count, made) ==
  /\ obj' \in MutexObject
  /\ obj'.kind = obj.kind
  /\ obj'.ptr = ptr /\ obj'.lock_idx = lock_idx /\ obj'.event = event
  /\ obj'.owner = owner /\ obj'.count = count /\ obj'.made = made

(* What each assignment to the mutex changes.                              *)
LEMMA MutexObjects ==
  ASSUME Mutex!TypeOK
  PROVE /\ UNCHANGED obj =>
             Object(obj.ptr, obj.lock_idx, obj.event, obj.owner, obj.count, obj.made)
        /\ \A i \in {-1, 0, 1} : obj' = [obj EXCEPT !.lock_idx = i] =>
             Object(obj.ptr, i, obj.event, obj.owner, obj.count, obj.made)
        /\ \A e \in BOOLEAN : obj' = [obj EXCEPT !.event = e] =>
             Object(obj.ptr, obj.lock_idx, e, obj.owner, obj.count, obj.made)
        /\ obj' = [obj EXCEPT !.ptr = "null"] =>
             Object("null", obj.lock_idx, obj.event, obj.owner, obj.count, obj.made)
        /\ \A c \in 0..MaxDepth : obj' = [obj EXCEPT !.count = c] =>
             Object(obj.ptr, obj.lock_idx, obj.event, obj.owner, c, obj.made)
<1>0. obj \in MutexObject
  BY DEF Mutex!TypeOK, MutexObject
<1>1. UNCHANGED obj =>
        Object(obj.ptr, obj.lock_idx, obj.event, obj.owner, obj.count, obj.made)
  BY <1>0 DEF Object
<1>2. ASSUME NEW i \in {-1, 0, 1}, obj' = [obj EXCEPT !.lock_idx = i]
      PROVE  Object(obj.ptr, i, obj.event, obj.owner, obj.count, obj.made)
  BY <1>0, <1>2 DEF Object, MutexObject
<1>3. ASSUME NEW e \in BOOLEAN, obj' = [obj EXCEPT !.event = e]
      PROVE  Object(obj.ptr, obj.lock_idx, e, obj.owner, obj.count, obj.made)
  BY <1>0, <1>3 DEF Object, MutexObject
<1>4. ASSUME obj' = [obj EXCEPT !.ptr = "null"]
      PROVE  Object("null", obj.lock_idx, obj.event, obj.owner, obj.count, obj.made)
  BY <1>0, <1>4 DEF Object, MutexObject
<1>5. ASSUME NEW c \in 0..MaxDepth, obj' = [obj EXCEPT !.count = c]
      PROVE  Object(obj.ptr, obj.lock_idx, obj.event, obj.owner, c, obj.made)
  BY <1>0, <1>5 DEF Object, MutexObject
<1> QED  BY <1>1, <1>2, <1>3, <1>4, <1>5

(* A step with these effects keeps the types.                              *)
LEMMA MutexTyped ==
  ASSUME NEW t \in Thread, NEW l, Goes(t, l), NEW op, NEW d, Holding(t, op, d),
         obj' \in MutexObject
  PROVE Mutex!TypeOK'
  BY DEF Goes, Holding, MutexObject, MutexCalls, Mutex!TypeOK, Mutex!Labels, Mutex!Kinds

(* The first exchange of a normal mutex: the thread is inside, or asks     *)
(* again and puts back what mark it has overwritten.                       *)
LEMMA MutexFirstNormal ==
  ASSUME Mutex!MutexInv, NEW t \in Thread, Mutex!FirstNormal(t) PROVE Mutex!MutexInv'
<1>0. Mutex!TypeOK
  BY DEF Mutex!MutexInv
<1>1. pc[t] = "first" /\ obj.kind = "NORMAL" /\ loc[t].op # "trylock"
  BY DEF Mutex!FirstNormal
<1>2. loc[t].depth = 0 /\ obj.ptr = "live" /\ loc[t].depth < MaxDepth
  BY <1>1 DEF Mutex!MutexInv, Mutex!HoldersKnow, Mutex!UsedOnceMade, Mutex!RoomToLock, Mutex!TypeOK, Mutex!Holds
<1>3. Object(obj.ptr, 1, obj.event, obj.owner, obj.count, obj.made)
  BY <1>0, MutexObjects DEF Mutex!FirstNormal
<1>4. CASE Mutex!Free
  <2>1. Goes(t, "idle") /\ Holding(t, "none", 1)
    BY <1>0, <1>2, <1>4, MutexReturns DEF Mutex!FirstNormal
  <2>2. Mutex!TypeOK'
    BY <1>3, <2>1, MutexTyped DEF Object
  <2>3. Mutex!Inside = {}
    BY <1>4 DEF Mutex!MutexInv, Mutex!LockWord
  <2>4. Mutex!Inside' = {t}
    BY <2>1, <2>3 DEF Mutex!Inside, Mutex!Holds, Goes, Holding
  <2>5. Mutex!UsedOnceMade'
    BY <1>2, <1>3 DEF Object, Mutex!UsedOnceMade
  <2>6. Mutex!RoomToLock'
    BY <1>0, <2>1 DEF Goes, Holding, Mutex!MutexInv, Mutex!RoomToLock
  <2>7. Mutex!HoldersKnow'
    BY <1>1, <1>3, <2>1 DEF Goes, Holding, Object, Mutex!MutexInv, Mutex!HoldersKnow, Mutex!Holds
  <2>8. Mutex!LockWord'
    BY <1>3, <2>4 DEF Object, Mutex!LockWord, Mutex!Free
  <2>9. Mutex!OwnerRecorded'
    BY <1>1, <1>3 DEF Object, Mutex!OwnerRecorded
  <2>10. Mutex!NoStrandedWaiter'
    BY <1>1, <1>3, <1>4, <2>1 DEF Goes, Holding, Object, Mutex!MutexInv, Mutex!NoStrandedWaiter, Mutex!Free
  <2> QED  BY <2>2, <2>5, <2>6, <2>7, <2>8, <2>9, <2>10 DEF Mutex!MutexInv
<1>5. CASE ~Mutex!Free
  <2>1. Goes(t, "again") /\ Holding(t, loc[t].op, 0)
    BY <1>0, <1>2, <1>5, MutexGoes, MutexKeepsCalls DEF Mutex!FirstNormal, Mutex!Labels
  <2>2. Mutex!TypeOK'
    BY <1>3, <2>1, MutexTyped DEF Object
  <2>4. Mutex!Inside' = Mutex!Inside
    BY <1>1, <1>2, <2>1 DEF Mutex!Inside, Mutex!Holds, Goes, Holding
  <2>5. Mutex!UsedOnceMade'
    BY <1>2, <1>3 DEF Object, Mutex!UsedOnceMade
  <2>6. Mutex!RoomToLock'
    BY <1>2, <2>1 DEF Goes, Holding, Mutex!MutexInv, Mutex!RoomToLock
  <2>7. Mutex!HoldersKnow'
    BY <1>1, <1>3, <2>1 DEF Goes, Holding, Object, Mutex!MutexInv, Mutex!HoldersKnow, Mutex!Holds
  <2>8. Mutex!LockWord'
    BY <1>3, <1>5, <2>4 DEF Object, Mutex!LockWord, Mutex!Free, Mutex!MutexInv
  <2>9. Mutex!OwnerRecorded'
    BY <1>1, <1>3 DEF Object, Mutex!OwnerRecorded
  <2>10. Mutex!NoStrandedWaiter'
    BY <2>1 DEF Goes, Mutex!NoStrandedWaiter
  <2> QED  BY <2>2, <2>5, <2>6, <2>7, <2>8, <2>9, <2>10 DEF Mutex!MutexInv
<1> QED  BY <1>4, <1>5

(* A call begins: nothing is locked, and nobody is inside that was not.    *)
LEMMA MutexCall ==
  ASSUME Mutex!MutexInv, NEW t \in Thread, Mutex!Call(t) PROVE Mutex!MutexInv'
<1>0. Mutex!TypeOK
  BY DEF Mutex!MutexInv
<1>1. pc[t] = "idle" /\ loc[t].depth < MaxDepth /\ obj.ptr # "null"
  BY DEF Mutex!Call
<1>2. Object(obj.ptr, obj.lock_idx, obj.event, obj.owner, obj.count, obj.made)
  BY <1>0, MutexObjects DEF Mutex!Call
<1>3. PICK op \in {"lock", "timedlock", "trylock"} :
        /\ obj.kind = "NORMAL" /\ Mutex!Holds(t) => op = "trylock"
        /\ loc' = [loc EXCEPT ![t].op = op]
  BY DEF Mutex!Call
<1>4. Holding(t, op, loc[t].depth)
  BY <1>0, <1>3 DEF Mutex!TypeOK, MutexCalls, Holding
<1>5. CASE obj.ptr = "static"
  <2>1. Goes(t, "init")
    BY <1>0, <1>5, MutexGoes DEF Mutex!Call, Mutex!Labels
  <2>2. loc[t].depth = 0
    BY <1>5 DEF Mutex!MutexInv, Mutex!HoldersKnow, Mutex!UsedOnceMade, Mutex!RoomToLock, Mutex!Holds
  <2>3. Mutex!Inside' = Mutex!Inside
    BY <1>1, <1>2, <1>3, <1>4, <1>5, <2>1, <2>2 DEF Goes, Holding, Object, Mutex!Inside, Mutex!Holds
  <2>4. Mutex!TypeOK'
    BY <1>1, <1>2, <1>3, <1>4, <1>5, <2>1, <2>2, MutexTyped DEF Object
  <2>5. Mutex!UsedOnceMade'
    BY <1>1, <1>2, <1>3, <1>4, <1>5, <2>1, <2>2 DEF Goes, Holding, Object, Mutex!MutexInv, Mutex!UsedOnceMade
  <2>6. Mutex!RoomToLock'
    BY <1>1, <1>2, <1>3, <1>4, <1>5, <2>1, <2>2 DEF Goes, Holding, Object, Mutex!MutexInv, Mutex!RoomToLock
  <2>7. Mutex!HoldersKnow'
    BY <1>1, <1>2, <1>3, <1>4, <1>5, <2>1, <2>2, ThreadAssumption DEF Goes, Holding, Object, Mutex!MutexInv, Mutex!HoldersKnow, Mutex!Holds, Mutex!NOBODY
  <2>8. Mutex!LockWord'
    BY <1>1, <1>2, <1>3, <1>4, <1>5, <2>1, <2>2, <2>3 DEF Goes, Holding, Object, Mutex!MutexInv, Mutex!LockWord, Mutex!Free
  <2>9. Mutex!OwnerRecorded'
    BY <1>1, <1>2, <1>3, <1>4, <1>5, <2>1, <2>2, ThreadAssumption DEF Goes, Holding, Object, Mutex!MutexInv, Mutex!OwnerRecorded, Mutex!HoldersKnow, Mutex!Holds, Mutex!NOBODY
  <2>10. Mutex!NoStrandedWaiter'
    BY <1>1, <1>2, <1>3, <1>4, <1>5, <2>1, <2>2 DEF Goes, Holding, Object, Mutex!MutexInv, Mutex!NoStrandedWaiter, Mutex!Free
  <2> QED  BY <2>4, <2>5, <2>6, <2>7, <2>8, <2>9, <2>10 DEF Mutex!MutexInv
<1>6. CASE obj.ptr # "static"
  <2>1. Goes(t, "first")
    BY <1>0, <1>6, MutexGoes DEF Mutex!Call, Mutex!Labels
  <2>2. obj.ptr = "live"
    BY <1>0, <1>1, <1>6 DEF Mutex!TypeOK
  <2>3. Mutex!Inside' = Mutex!Inside
    BY <1>1, <1>2, <1>3, <1>4, <1>6, <2>1, <2>2 DEF Goes, Holding, Object, Mutex!Inside, Mutex!Holds
  <2>4. Mutex!TypeOK'
    BY <1>1, <1>2, <1>3, <1>4, <1>6, <2>1, <2>2, MutexTyped DEF Object
  <2>5. Mutex!UsedOnceMade'
    BY <1>1, <1>2, <1>3, <1>4, <1>6, <2>1, <2>2 DEF Goes, Holding, Object, Mutex!MutexInv, Mutex!UsedOnceMade
  <2>6. Mutex!RoomToLock'
    BY <1>1, <1>2, <1>3, <1>4, <1>6, <2>1, <2>2 DEF Goes, Holding, Object, Mutex!MutexInv, Mutex!RoomToLock
  <2>7. Mutex!HoldersKnow'
    BY <1>1, <1>2, <1>3, <1>4, <1>6, <2>1, <2>2, ThreadAssumption DEF Goes, Holding, Object, Mutex!MutexInv, Mutex!HoldersKnow, Mutex!Holds, Mutex!NOBODY
  <2>8. Mutex!LockWord'
    BY <1>1, <1>2, <1>3, <1>4, <1>6, <2>1, <2>2, <2>3 DEF Goes, Holding, Object, Mutex!MutexInv, Mutex!LockWord, Mutex!Free
  <2>9. Mutex!OwnerRecorded'
    BY <1>1, <1>2, <1>3, <1>4, <1>6, <2>1, <2>2, ThreadAssumption DEF Goes, Holding, Object, Mutex!MutexInv, Mutex!OwnerRecorded, Mutex!HoldersKnow, Mutex!Holds, Mutex!NOBODY
  <2>10. Mutex!NoStrandedWaiter'
    BY <1>1, <1>2, <1>3, <1>4, <1>6, <2>1, <2>2 DEF Goes, Holding, Object, Mutex!MutexInv, Mutex!NoStrandedWaiter, Mutex!Free
  <2> QED  BY <2>4, <2>5, <2>6, <2>7, <2>8, <2>9, <2>10 DEF Mutex!MutexInv
<1> QED  BY <1>5, <1>6

(* The mutex is made by the first thread that finds it is not, when        *)
(* nobody can be past the check.                                           *)
LEMMA MutexCheckNeedInit ==
  ASSUME Mutex!MutexInv, NEW t \in Thread, Mutex!CheckNeedInit(t) PROVE Mutex!MutexInv'
<1>0. Mutex!TypeOK
  BY DEF Mutex!MutexInv
<1>1. pc[t] = "init" /\ loc[t].depth < MaxDepth
  BY DEF Mutex!CheckNeedInit, Mutex!MutexInv, Mutex!HoldersKnow, Mutex!UsedOnceMade, Mutex!RoomToLock, Mutex!Holds
<1>2. CASE obj.ptr = "static"
  <2>1. Object("live", 0, FALSE, Mutex!NOBODY, 0, 1)
    <3>1. obj \in MutexObject /\ obj.made = 0
      BY <1>0, <1>2 DEF Mutex!TypeOK, MutexObject, Mutex!MutexInv, Mutex!UsedOnceMade
    <3>2. obj' = [ptr |-> "live", kind |-> obj.kind, lock_idx |-> 0, event |-> FALSE,
                  owner |-> Mutex!NOBODY, count |-> 0, made |-> 1]
      BY <1>2, <3>1 DEF Mutex!CheckNeedInit, Mutex!StillStatic
    <3> QED  BY <3>1, <3>2, BoundAssumption DEF MutexObject, Object
  <2>2. Goes(t, "first") /\ Holding(t, loc[t].op, loc[t].depth)
    BY <1>0, <1>2, MutexGoes, MutexKeepsCalls DEF Mutex!CheckNeedInit, Mutex!Labels
  <2>a. \A u \in Thread : loc[u].depth = 0 /\ pc[u] \in {"idle", "init", "unmake"}
    BY <1>2 DEF Mutex!MutexInv, Mutex!UsedOnceMade
  <2>3. Mutex!Inside' = {}
    BY <1>1, <1>2, <2>1, <2>2, <2>a DEF Goes, Holding, Object, Mutex!MutexInv, Mutex!LockWord, Mutex!Inside, Mutex!Holds
  <2>4. Mutex!TypeOK'
    BY <1>1, <1>2, <2>1, <2>2, <2>a, MutexTyped DEF Object
  <2>5. Mutex!UsedOnceMade'
    BY <1>1, <1>2, <2>1, <2>2, <2>a DEF Goes, Holding, Object, Mutex!MutexInv, Mutex!UsedOnceMade
  <2>6. Mutex!RoomToLock'
    BY <1>1, <1>2, <2>1, <2>2, <2>a DEF Goes, Holding, Object, Mutex!MutexInv, Mutex!RoomToLock
  <2>7. Mutex!HoldersKnow'
    BY <1>1, <1>2, <2>1, <2>2, <2>a, ThreadAssumption DEF Goes, Holding, Object, Mutex!MutexInv, Mutex!HoldersKnow, Mutex!Holds, Mutex!NOBODY
  <2>8. Mutex!LockWord'
    BY <1>1, <1>2, <2>1, <2>2, <2>a, <2>3 DEF Goes, Holding, Object, Mutex!LockWord, Mutex!Free
  <2>9. Mutex!OwnerRecorded'
    BY <1>1, <1>2, <2>1, <2>2, <2>a, ThreadAssumption DEF Goes, Holding, Object, Mutex!MutexInv, Mutex!OwnerRecorded, Mutex!HoldersKnow, Mutex!Holds, Mutex!NOBODY
  <2>10. Mutex!NoStrandedWaiter'
    BY <1>1, <1>2, <2>1, <2>2, <2>a DEF Goes, Holding, Object, Mutex!MutexInv, Mutex!NoStrandedWaiter, Mutex!Free
  <2> QED  BY <2>4, <2>5, <2>6, <2>7, <2>8, <2>9, <2>10 DEF Mutex!MutexInv
<1>3. CASE obj.ptr = "live"
  <2>1. Object(obj.ptr, obj.lock_idx, obj.event, obj.owner, obj.count, obj.made)
    BY <1>0, <1>3, MutexObjects DEF Mutex!CheckNeedInit, Mutex!StillStatic
  <2>2. Goes(t, "first") /\ Holding(t, loc[t].op, loc[t].depth)
    BY <1>0, <1>3, MutexGoes, MutexKeepsCalls DEF Mutex!CheckNeedInit, Mutex!Labels
  <2>a. loc[t].depth = 0
    BY <1>0, <1>1 DEF Mutex!TypeOK, Mutex!MutexInv, Mutex!HoldersKnow, Mutex!UsedOnceMade, Mutex!RoomToLock, Mutex!Holds
  <2>3. Mutex!Inside' = Mutex!Inside
    BY <1>1, <1>3, <2>1, <2>2, <2>a DEF Goes, Holding, Object, Mutex!Inside, Mutex!Holds
  <2>4. Mutex!TypeOK'
    BY <1>1, <1>3, <2>1, <2>2, <2>a, MutexTyped DEF Object
  <2>5. Mutex!UsedOnceMade'
    BY <1>1, <1>3, <2>1, <2>2, <2>a DEF Goes, Holding, Object, Mutex!MutexInv, Mutex!UsedOnceMade
  <2>6. Mutex!RoomToLock'
    BY <1>1, <1>3, <2>1, <2>2, <2>a DEF Goes, Holding, Object, Mutex!MutexInv, Mutex!RoomToLock
  <2>7. Mutex!HoldersKnow'
    BY <1>1, <1>3, <2>1, <2>2, <2>a, ThreadAssumption DEF Goes, Holding, Object, Mutex!MutexInv, Mutex!HoldersKnow, Mutex!Holds, Mutex!NOBODY
  <2>8. Mutex!LockWord'
    BY <1>1, <1>3, <2>1, <2>2, <2>a, <2>3 DEF Goes, Holding, Object, Mutex!MutexInv, Mutex!LockWord, Mutex!Free
  <2>9. Mutex!OwnerRecorded'
    BY <1>1, <1>3, <2>1, <2>2, <2>a, ThreadAssumption DEF Goes, Holding, Object, Mutex!MutexInv, Mutex!OwnerRecorded, Mutex!HoldersKnow, Mutex!Holds, Mutex!NOBODY
  <2>10. Mutex!NoStrandedWaiter'
    BY <1>1, <1>3, <2>1, <2>2, <2>a DEF Goes, Holding, Object, Mutex!MutexInv, Mutex!NoStrandedWaiter, Mutex!Free
  <2> QED  BY <2>4, <2>5, <2>6, <2>7, <2>8, <2>9, <2>10 DEF Mutex!MutexInv
<1>4. CASE obj.ptr = "null"
  <2>1. Object(obj.ptr, obj.lock_idx, obj.event, obj.owner, obj.count, obj.made)
    BY <1>0, <1>4, MutexObjects DEF Mutex!CheckNeedInit, Mutex!StillStatic
  <2>2. Goes(t, "idle") /\ Holding(t, "none", loc[t].depth)
    BY <1>0, <1>4, MutexReturns DEF Mutex!CheckNeedInit
  <2>3. Mutex!Inside' = Mutex!Inside
    BY <1>1, <1>4, <2>1, <2>2 DEF Goes, Holding, Object, Mutex!Inside, Mutex!Holds
  <2>4. Mutex!TypeOK'
    BY <1>1, <1>4, <2>1, <2>2, MutexTyped DEF Object
  <2>5. Mutex!UsedOnceMade'
    BY <1>1, <1>4, <2>1, <2>2 DEF Goes, Holding, Object, Mutex!MutexInv, Mutex!UsedOnceMade
  <2>6. Mutex!RoomToLock'
    BY <1>1, <1>4, <2>1, <2>2 DEF Goes, Holding, Object, Mutex!MutexInv, Mutex!RoomToLock
  <2>7. Mutex!HoldersKnow'
    BY <1>1, <1>4, <2>1, <2>2, ThreadAssumption DEF Goes, Holding, Object, Mutex!MutexInv, Mutex!HoldersKnow, Mutex!Holds, Mutex!NOBODY
  <2>8. Mutex!LockWord'
    BY <1>1, <1>4, <2>1, <2>2, <2>3 DEF Goes, Holding, Object, Mutex!MutexInv, Mutex!LockWord, Mutex!Free
  <2>9. Mutex!OwnerRecorded'
    BY <1>1, <1>4, <2>1, <2>2, ThreadAssumption DEF Goes, Holding, Object, Mutex!MutexInv, Mutex!OwnerRecorded, Mutex!HoldersKnow, Mutex!Holds, Mutex!NOBODY
  <2>10. Mutex!NoStrandedWaiter'
    BY <1>1, <1>4, <2>1, <2>2 DEF Goes, Holding, Object, Mutex!MutexInv, Mutex!NoStrandedWaiter, Mutex!Free
  <2> QED  BY <2>4, <2>5, <2>6, <2>7, <2>8, <2>9, <2>10 DEF Mutex!MutexInv
<1> QED  BY <1>0, <1>2, <1>3, <1>4 DEF Mutex!TypeOK

(* A compare-and-exchange gets a free mutex, or changes nothing.           *)
LEMMA MutexFirstCompare ==
  ASSUME Mutex!MutexInv, NEW t \in Thread, Mutex!FirstCompare(t) PROVE Mutex!MutexInv'
<1>0. Mutex!TypeOK
  BY DEF Mutex!MutexInv
<1>1. pc[t] = "first" /\ obj.ptr = "live"
  BY <1>0 DEF Mutex!FirstCompare, Mutex!TypeOK, Mutex!MutexInv, Mutex!HoldersKnow, Mutex!UsedOnceMade, Mutex!RoomToLock, Mutex!Holds
<1>2. loc[t].depth < MaxDepth
  BY <1>1 DEF Mutex!MutexInv, Mutex!HoldersKnow, Mutex!UsedOnceMade, Mutex!RoomToLock, Mutex!Holds
<1>3. obj.kind # "NORMAL" \/ loc[t].op = "trylock"
  BY DEF Mutex!FirstCompare
<1>4. CASE Mutex!Free /\ obj.kind = "NORMAL"
  <2>1. Object(obj.ptr, 1, obj.event, obj.owner, obj.count, obj.made)
    BY <1>0, <1>4, MutexObjects DEF Mutex!FirstCompare
  <2>2. Goes(t, "idle") /\ Holding(t, "none", loc[t].depth + 1)
    BY <1>0, <1>2, <1>4, MutexReturns DEF Mutex!FirstCompare
  <2>a. loc[t].depth = 0 /\ Mutex!Inside = {}
    BY <1>0, <1>4 DEF Mutex!MutexInv, Mutex!LockWord, Mutex!Inside, Mutex!Holds, Mutex!TypeOK
  <2>3. Mutex!Inside' = {t}
    BY <1>1, <1>2, <1>4, <2>1, <2>2, <2>a DEF Goes, Holding, Object, Mutex!MutexInv, Mutex!LockWord, Mutex!Inside, Mutex!Holds
  <2>4. Mutex!TypeOK'
    BY <1>1, <1>2, <1>4, <2>1, <2>2, <2>a, MutexTyped DEF Object
  <2>5. Mutex!UsedOnceMade'
    BY <1>1, <1>2, <1>4, <2>1, <2>2, <2>a DEF Goes, Holding, Object, Mutex!MutexInv, Mutex!UsedOnceMade
  <2>6. Mutex!RoomToLock'
    BY <1>1, <1>2, <1>4, <2>1, <2>2, <2>a DEF Goes, Holding, Object, Mutex!MutexInv, Mutex!RoomToLock
  <2>7. Mutex!HoldersKnow'
    BY <1>1, <1>2, <1>4, <2>1, <2>2, <2>a, ThreadAssumption DEF Goes, Holding, Object, Mutex!MutexInv, Mutex!HoldersKnow, Mutex!Holds, Mutex!NOBODY
  <2>8. Mutex!LockWord'
    BY <1>1, <1>2, <1>4, <2>1, <2>2, <2>a, <2>3 DEF Goes, Holding, Object, Mutex!LockWord, Mutex!Free
  <2>9. Mutex!OwnerRecorded'
    BY <1>1, <1>2, <1>4, <2>1, <2>2, <2>a, ThreadAssumption DEF Goes, Holding, Object, Mutex!MutexInv, Mutex!OwnerRecorded, Mutex!HoldersKnow, Mutex!Holds, Mutex!NOBODY
  <2>10. Mutex!NoStrandedWaiter'
    BY <1>1, <1>2, <1>4, <2>1, <2>2, <2>a DEF Goes, Holding, Object, Mutex!MutexInv, Mutex!NoStrandedWaiter, Mutex!Free
  <2> QED  BY <2>4, <2>5, <2>6, <2>7, <2>8, <2>9, <2>10 DEF Mutex!MutexInv
<1>5. CASE Mutex!Free /\ obj.kind # "NORMAL"
  <2>1. Object(obj.ptr, 1, obj.event, obj.owner, obj.count, obj.made)
    BY <1>0, <1>5, MutexObjects DEF Mutex!FirstCompare
  <2>2. Goes(t, "claim") /\ Holding(t, loc[t].op, loc[t].depth)
    BY <1>0, <1>5, MutexGoes, MutexKeepsCalls DEF Mutex!FirstCompare, Mutex!Labels
  <2>a. loc[t].depth = 0 /\ Mutex!Inside = {}
    BY <1>0, <1>5 DEF Mutex!MutexInv, Mutex!LockWord, Mutex!Inside, Mutex!Holds, Mutex!TypeOK
  <2>3. Mutex!Inside' = {t}
    BY <1>1, <1>2, <1>5, <2>1, <2>2, <2>a DEF Goes, Holding, Object, Mutex!MutexInv, Mutex!LockWord, Mutex!Inside, Mutex!Holds
  <2>4. Mutex!TypeOK'
    BY <1>1, <1>2, <1>5, <2>1, <2>2, <2>a, MutexTyped DEF Object
  <2>5. Mutex!UsedOnceMade'
    BY <1>1, <1>2, <1>5, <2>1, <2>2, <2>a DEF Goes, Holding, Object, Mutex!MutexInv, Mutex!UsedOnceMade
  <2>6. Mutex!RoomToLock'
    BY <1>1, <1>2, <1>5, <2>1, <2>2, <2>a DEF Goes, Holding, Object, Mutex!MutexInv, Mutex!RoomToLock
  <2>7. Mutex!HoldersKnow'
    BY <1>1, <1>2, <1>5, <2>1, <2>2, <2>a, ThreadAssumption DEF Goes, Holding, Object, Mutex!MutexInv, Mutex!HoldersKnow, Mutex!Holds, Mutex!NOBODY
  <2>8. Mutex!LockWord'
    BY <1>1, <1>2, <1>5, <2>1, <2>2, <2>a, <2>3 DEF Goes, Holding, Object, Mutex!LockWord, Mutex!Free
  <2>9. Mutex!OwnerRecorded'
    BY <1>1, <1>2, <1>5, <2>1, <2>2, <2>a, ThreadAssumption DEF Goes, Holding, Object, Mutex!MutexInv, Mutex!OwnerRecorded, Mutex!HoldersKnow, Mutex!Holds, Mutex!NOBODY
  <2>10. Mutex!NoStrandedWaiter'
    BY <1>1, <1>2, <1>5, <2>1, <2>2, <2>a DEF Goes, Holding, Object, Mutex!MutexInv, Mutex!NoStrandedWaiter, Mutex!Free
  <2> QED  BY <2>4, <2>5, <2>6, <2>7, <2>8, <2>9, <2>10 DEF Mutex!MutexInv
<1>6. CASE ~Mutex!Free
  <2>1. Object(obj.ptr, obj.lock_idx, obj.event, obj.owner, obj.count, obj.made)
    BY <1>0, <1>6, MutexObjects DEF Mutex!FirstCompare
  <2>2. Goes(t, "contend") /\ Holding(t, loc[t].op, loc[t].depth)
    BY <1>0, <1>6, MutexGoes, MutexKeepsCalls DEF Mutex!FirstCompare, Mutex!Labels
  <2>3. Mutex!Inside' = Mutex!Inside
    BY <1>1, <1>2, <1>3, <1>6, <2>1, <2>2 DEF Goes, Holding, Object, Mutex!Inside, Mutex!Holds
  <2>4. Mutex!TypeOK'
    BY <1>1, <1>2, <1>3, <1>6, <2>1, <2>2, MutexTyped DEF Object
  <2>5. Mutex!UsedOnceMade'
    BY <1>1, <1>2, <1>3, <1>6, <2>1, <2>2 DEF Goes, Holding, Object, Mutex!MutexInv, Mutex!UsedOnceMade
  <2>6. Mutex!RoomToLock'
    BY <1>1, <1>2, <1>3, <1>6, <2>1, <2>2 DEF Goes, Holding, Object, Mutex!MutexInv, Mutex!RoomToLock
  <2>7. Mutex!HoldersKnow'
    BY <1>1, <1>2, <1>3, <1>6, <2>1, <2>2, ThreadAssumption DEF Goes, Holding, Object, Mutex!MutexInv, Mutex!HoldersKnow, Mutex!Holds, Mutex!NOBODY
  <2>8. Mutex!LockWord'
    BY <1>1, <1>2, <1>3, <1>6, <2>1, <2>2, <2>3 DEF Goes, Holding, Object, Mutex!MutexInv, Mutex!LockWord, Mutex!Free
  <2>9. Mutex!OwnerRecorded'
    BY <1>1, <1>2, <1>3, <1>6, <2>1, <2>2, ThreadAssumption DEF Goes, Holding, Object, Mutex!MutexInv, Mutex!OwnerRecorded, Mutex!HoldersKnow, Mutex!Holds, Mutex!NOBODY
  <2>10. Mutex!NoStrandedWaiter'
    BY <1>1, <1>2, <1>3, <1>6, <2>1, <2>2 DEF Goes, Holding, Object, Mutex!MutexInv, Mutex!NoStrandedWaiter, Mutex!Free
  <2> QED  BY <2>4, <2>5, <2>6, <2>7, <2>8, <2>9, <2>10 DEF Mutex!MutexInv
<1> QED  BY <1>4, <1>5, <1>6

(* A mutex that is not free is locked again by its owner, given up by      *)
(* others that cannot wait, or waited for.                                 *)
LEMMA MutexContend ==
  ASSUME Mutex!MutexInv, NEW t \in Thread, Mutex!Contend(t) PROVE Mutex!MutexInv'
<1>0. Mutex!TypeOK
  BY DEF Mutex!MutexInv
<1>1. pc[t] = "contend" /\ obj.ptr = "live"
  BY <1>0 DEF Mutex!Contend, Mutex!TypeOK, Mutex!MutexInv, Mutex!HoldersKnow, Mutex!UsedOnceMade, Mutex!RoomToLock, Mutex!Holds
<1>2. loc[t].depth < MaxDepth
  BY <1>1 DEF Mutex!MutexInv, Mutex!HoldersKnow, Mutex!UsedOnceMade, Mutex!RoomToLock, Mutex!Holds
<1>3. CASE /\ obj.kind = "RECURSIVE" /\ obj.owner = t
           /\ obj' = [obj EXCEPT !.count = @ + 1] /\ Mutex!Locked(t)
  <2>0. loc[t].depth > 0 /\ obj.count = loc[t].depth
    BY <1>3 DEF Mutex!MutexInv, Mutex!OwnerRecorded
  <2>1. Object(obj.ptr, obj.lock_idx, obj.event, obj.owner, obj.count + 1, obj.made)
    <3>1. obj.count + 1 \in 0..MaxDepth
      BY <1>0, <1>2, <2>0, BoundAssumption DEF Mutex!TypeOK
    <3> QED  BY <1>0, <1>3, <3>1, MutexObjects
  <2>2. Goes(t, "idle") /\ Holding(t, "none", loc[t].depth + 1)
    BY <1>0, <1>2, <1>3, MutexReturns
  <2>a. loc[t].depth + 1 > 0
    BY <1>0, <2>0 DEF Mutex!TypeOK
  <2>3. Mutex!Inside' = Mutex!Inside
    BY <1>1, <1>2, <1>3, <2>0, <2>1, <2>2, <2>a DEF Goes, Holding, Object, Mutex!Inside, Mutex!Holds
  <2>4. Mutex!TypeOK'
    BY <1>1, <1>2, <1>3, <2>0, <2>1, <2>2, <2>a, MutexTyped DEF Object
  <2>5. Mutex!UsedOnceMade'
    BY <1>1, <1>2, <1>3, <2>0, <2>1, <2>2, <2>a DEF Goes, Holding, Object, Mutex!MutexInv, Mutex!UsedOnceMade
  <2>6. Mutex!RoomToLock'
    BY <1>1, <1>2, <1>3, <2>0, <2>1, <2>2, <2>a DEF Goes, Holding, Object, Mutex!MutexInv, Mutex!RoomToLock
  <2>7. Mutex!HoldersKnow'
    BY <1>1, <1>2, <1>3, <2>0, <2>1, <2>2, <2>a, ThreadAssumption DEF Goes, Holding, Object, Mutex!MutexInv, Mutex!HoldersKnow, Mutex!Holds, Mutex!NOBODY
  <2>8. Mutex!LockWord'
    BY <1>1, <1>2, <1>3, <2>0, <2>1, <2>2, <2>a, <2>3 DEF Goes, Holding, Object, Mutex!MutexInv, Mutex!LockWord, Mutex!Free
  <2>9. Mutex!OwnerRecorded'
    BY <1>1, <1>2, <1>3, <2>0, <2>1, <2>2, <2>a, ThreadAssumption DEF Goes, Holding, Object, Mutex!MutexInv, Mutex!OwnerRecorded, Mutex!HoldersKnow, Mutex!Holds, Mutex!NOBODY
  <2>10. Mutex!NoStrandedWaiter'
    BY <1>1, <1>2, <1>3, <2>0, <2>1, <2>2, <2>a DEF Goes, Holding, Object, Mutex!MutexInv, Mutex!NoStrandedWaiter, Mutex!Free
  <2> QED  BY <2>4, <2>5, <2>6, <2>7, <2>8, <2>9, <2>10 DEF Mutex!MutexInv
<1>4. CASE UNCHANGED obj /\ Mutex!Return(t)
  <2>1. Object(obj.ptr, obj.lock_idx, obj.event, obj.owner, obj.count, obj.made)
    BY <1>0, <1>4, MutexObjects
  <2>2. Goes(t, "idle") /\ Holding(t, "none", loc[t].depth)
    BY <1>0, <1>4, MutexReturns
  <2>3. Mutex!Inside' = Mutex!Inside
    BY <1>1, <1>2, <2>1, <2>2 DEF Goes, Holding, Object, Mutex!Inside, Mutex!Holds
  <2>4. Mutex!TypeOK'
    BY <1>1, <1>2, <2>1, <2>2, MutexTyped DEF Object
  <2>5. Mutex!UsedOnceMade'
    BY <1>1, <1>2, <2>1, <2>2 DEF Goes, Holding, Object, Mutex!MutexInv, Mutex!UsedOnceMade
  <2>6. Mutex!RoomToLock'
    BY <1>1, <1>2, <2>1, <2>2 DEF Goes, Holding, Object, Mutex!MutexInv, Mutex!RoomToLock
  <2>7. Mutex!HoldersKnow'
    BY <1>1, <1>2, <2>1, <2>2, ThreadAssumption DEF Goes, Holding, Object, Mutex!MutexInv, Mutex!HoldersKnow, Mutex!Holds, Mutex!NOBODY
  <2>8. Mutex!LockWord'
    BY <1>1, <1>2, <2>1, <2>2, <2>3 DEF Goes, Holding, Object, Mutex!MutexInv, Mutex!LockWord, Mutex!Free
  <2>9. Mutex!OwnerRecorded'
    BY <1>1, <1>2, <2>1, <2>2, ThreadAssumption DEF Goes, Holding, Object, Mutex!MutexInv, Mutex!OwnerRecorded, Mutex!HoldersKnow, Mutex!Holds, Mutex!NOBODY
  <2>10. Mutex!NoStrandedWaiter'
    BY <1>1, <1>2, <2>1, <2>2 DEF Goes, Holding, Object, Mutex!MutexInv, Mutex!NoStrandedWaiter, Mutex!Free
  <2> QED  BY <2>4, <2>5, <2>6, <2>7, <2>8, <2>9, <2>10 DEF Mutex!MutexInv
<1>5. CASE /\ loc[t].op # "trylock" /\ obj.owner # t
           /\ Mutex!Goto(t, "again") /\ UNCHANGED <<obj, loc>>
  <2>1. Object(obj.ptr, obj.lock_idx, obj.event, obj.owner, obj.count, obj.made)
    BY <1>0, <1>5, MutexObjects
  <2>2. Goes(t, "again") /\ Holding(t, loc[t].op, loc[t].depth)
    BY <1>0, <1>5, MutexGoes, MutexKeepsCalls DEF Mutex!Labels
  <2>a. loc[t].depth = 0
    <3>1. ~Mutex!Holds(t)
      BY <1>1, <1>5 DEF Mutex!MutexInv, Mutex!HoldersKnow, Mutex!OwnerRecorded
    <3> QED  BY <1>0, <3>1 DEF Mutex!Holds, Mutex!TypeOK
  <2>3. Mutex!Inside' = Mutex!Inside
    BY <1>1, <1>2, <2>1, <2>2, <2>a DEF Goes, Holding, Object, Mutex!Inside, Mutex!Holds
  <2>4. Mutex!TypeOK'
    BY <1>1, <1>2, <2>1, <2>2, <2>a, MutexTyped DEF Object
  <2>5. Mutex!UsedOnceMade'
    BY <1>1, <1>2, <2>1, <2>2, <2>a DEF Goes, Holding, Object, Mutex!MutexInv, Mutex!UsedOnceMade
  <2>6. Mutex!RoomToLock'
    BY <1>1, <1>2, <2>1, <2>2, <2>a DEF Goes, Holding, Object, Mutex!MutexInv, Mutex!RoomToLock
  <2>7. Mutex!HoldersKnow'
    BY <1>1, <1>2, <2>1, <2>2, <2>a, ThreadAssumption DEF Goes, Holding, Object, Mutex!MutexInv, Mutex!HoldersKnow, Mutex!Holds, Mutex!NOBODY
  <2>8. Mutex!LockWord'
    BY <1>1, <1>2, <2>1, <2>2, <2>a, <2>3 DEF Goes, Holding, Object, Mutex!MutexInv, Mutex!LockWord, Mutex!Free
  <2>9. Mutex!OwnerRecorded'
    BY <1>1, <1>2, <2>1, <2>2, <2>a, ThreadAssumption DEF Goes, Holding, Object, Mutex!MutexInv, Mutex!OwnerRecorded, Mutex!HoldersKnow, Mutex!Holds, Mutex!NOBODY
  <2>10. Mutex!NoStrandedWaiter'
    BY <1>1, <1>2, <2>1, <2>2, <2>a DEF Goes, Holding, Object, Mutex!MutexInv, Mutex!NoStrandedWaiter, Mutex!Free
  <2> QED  BY <2>4, <2>5, <2>6, <2>7, <2>8, <2>9, <2>10 DEF Mutex!MutexInv
<1> QED  BY <1>3, <1>4, <1>5 DEF Mutex!Contend

(* Whoever is going to wait leaves its mark in lock_idx, also when it      *)
(* finds it free after all.                                                *)
LEMMA MutexAgain ==
  ASSUME Mutex!MutexInv, NEW t \in Thread, Mutex!Again(t) PROVE Mutex!MutexInv'
<1>0. Mutex!TypeOK
  BY DEF Mutex!MutexInv
<1>1. pc[t] = "again" /\ obj.ptr = "live"
  BY <1>0 DEF Mutex!Again, Mutex!TypeOK, Mutex!MutexInv, Mutex!HoldersKnow, Mutex!UsedOnceMade, Mutex!RoomToLock, Mutex!Holds
<1>2. loc[t].depth < MaxDepth /\ loc[t].depth = 0
  BY <1>0, <1>1 DEF Mutex!TypeOK, Mutex!MutexInv, Mutex!HoldersKnow, Mutex!UsedOnceMade, Mutex!RoomToLock, Mutex!Holds
<1>3. Object(obj.ptr, -1, obj.event, obj.owner, obj.count, obj.made)
  BY <1>0, MutexObjects DEF Mutex!Again, Mutex!WaiterMark
<1>4. CASE Mutex!Free /\ obj.kind = "NORMAL"
  <2>2. Goes(t, "idle") /\ Holding(t, "none", loc[t].depth + 1)
    BY <1>0, <1>2, <1>4, MutexReturns DEF Mutex!Again
  <2>3. Mutex!Inside' = {t}
    BY <1>1, <1>2, <1>3, <1>4, <2>2 DEF Goes, Holding, Object, Mutex!MutexInv, Mutex!LockWord, Mutex!Inside, Mutex!Holds
  <2>4. Mutex!TypeOK'
    BY <1>1, <1>2, <1>3, <1>4, <2>2, MutexTyped DEF Object
  <2>5. Mutex!UsedOnceMade'
    BY <1>1, <1>2, <1>3, <1>4, <2>2 DEF Goes, Holding, Object, Mutex!MutexInv, Mutex!UsedOnceMade
  <2>6. Mutex!RoomToLock'
    BY <1>1, <1>2, <1>3, <1>4, <2>2 DEF Goes, Holding, Object, Mutex!MutexInv, Mutex!RoomToLock
  <2>7. Mutex!HoldersKnow'
    BY <1>1, <1>2, <1>3, <1>4, <2>2, ThreadAssumption DEF Goes, Holding, Object, Mutex!MutexInv, Mutex!HoldersKnow, Mutex!Holds, Mutex!NOBODY
  <2>8. Mutex!LockWord'
    BY <1>1, <1>2, <1>3, <1>4, <2>2, <2>3 DEF Goes, Holding, Object, Mutex!LockWord, Mutex!Free
  <2>9. Mutex!OwnerRecorded'
    BY <1>1, <1>2, <1>3, <1>4, <2>2, ThreadAssumption DEF Goes, Holding, Object, Mutex!MutexInv, Mutex!OwnerRecorded, Mutex!HoldersKnow, Mutex!Holds, Mutex!NOBODY
  <2>10. Mutex!NoStrandedWaiter'
    BY <1>1, <1>2, <1>3, <1>4, <2>2 DEF Goes, Holding, Object, Mutex!MutexInv, Mutex!NoStrandedWaiter, Mutex!Free
  <2> QED  BY <2>4, <2>5, <2>6, <2>7, <2>8, <2>9, <2>10 DEF Mutex!MutexInv
<1>5. CASE Mutex!Free /\ obj.kind # "NORMAL"
  <2>2. Goes(t, "claim") /\ Holding(t, loc[t].op, loc[t].depth)
    BY <1>0, <1>5, MutexGoes, MutexKeepsCalls DEF Mutex!Again, Mutex!Labels
  <2>3. Mutex!Inside' = {t}
    BY <1>1, <1>2, <1>3, <1>5, <2>2 DEF Goes, Holding, Object, Mutex!MutexInv, Mutex!LockWord, Mutex!Inside, Mutex!Holds
  <2>4. Mutex!TypeOK'
    BY <1>1, <1>2, <1>3, <1>5, <2>2, MutexTyped DEF Object
  <2>5. Mutex!UsedOnceMade'
    BY <1>1, <1>2, <1>3, <1>5, <2>2 DEF Goes, Holding, Object, Mutex!MutexInv, Mutex!UsedOnceMade
  <2>6. Mutex!RoomToLock'
    BY <1>1, <1>2, <1>3, <1>5, <2>2 DEF Goes, Holding, Object, Mutex!MutexInv, Mutex!RoomToLock
  <2>7. Mutex!HoldersKnow'
    BY <1>1, <1>2, <1>3, <1>5, <2>2, ThreadAssumption DEF Goes, Holding, Object, Mutex!MutexInv, Mutex!HoldersKnow, Mutex!Holds, Mutex!NOBODY
  <2>8. Mutex!LockWord'
    BY <1>1, <1>2, <1>3, <1>5, <2>2, <2>3 DEF Goes, Holding, Object, Mutex!LockWord, Mutex!Free
  <2>9. Mutex!OwnerRecorded'
    BY <1>1, <1>2, <1>3, <1>5, <2>2, ThreadAssumption DEF Goes, Holding, Object, Mutex!MutexInv, Mutex!OwnerRecorded, Mutex!HoldersKnow, Mutex!Holds, Mutex!NOBODY
  <2>10. Mutex!NoStrandedWaiter'
    BY <1>1, <1>2, <1>3, <1>5, <2>2 DEF Goes, Holding, Object, Mutex!MutexInv, Mutex!NoStrandedWaiter, Mutex!Free
  <2> QED  BY <2>4, <2>5, <2>6, <2>7, <2>8, <2>9, <2>10 DEF Mutex!MutexInv
<1>6. CASE ~Mutex!Free
  <2>2. Goes(t, "wait") /\ Holding(t, loc[t].op, loc[t].depth)
    BY <1>0, <1>6, MutexGoes, MutexKeepsCalls DEF Mutex!Again, Mutex!Labels
  <2>3. Mutex!Inside' = Mutex!Inside
    BY <1>1, <1>2, <1>3, <1>6, <2>2 DEF Goes, Holding, Object, Mutex!Inside, Mutex!Holds
  <2>4. Mutex!TypeOK'
    BY <1>1, <1>2, <1>3, <1>6, <2>2, MutexTyped DEF Object
  <2>5. Mutex!UsedOnceMade'
    BY <1>1, <1>2, <1>3, <1>6, <2>2 DEF Goes, Holding, Object, Mutex!MutexInv, Mutex!UsedOnceMade
  <2>6. Mutex!RoomToLock'
    BY <1>1, <1>2, <1>3, <1>6, <2>2 DEF Goes, Holding, Object, Mutex!MutexInv, Mutex!RoomToLock
  <2>7. Mutex!HoldersKnow'
    BY <1>1, <1>2, <1>3, <1>6, <2>2, ThreadAssumption DEF Goes, Holding, Object, Mutex!MutexInv, Mutex!HoldersKnow, Mutex!Holds, Mutex!NOBODY
  <2>8. Mutex!LockWord'
    BY <1>1, <1>2, <1>3, <1>6, <2>2, <2>3 DEF Goes, Holding, Object, Mutex!MutexInv, Mutex!LockWord, Mutex!Free
  <2>9. Mutex!OwnerRecorded'
    BY <1>1, <1>2, <1>3, <1>6, <2>2, ThreadAssumption DEF Goes, Holding, Object, Mutex!MutexInv, Mutex!OwnerRecorded, Mutex!HoldersKnow, Mutex!Holds, Mutex!NOBODY
  <2>10. Mutex!NoStrandedWaiter'
    BY <1>1, <1>2, <1>3, <1>6, <2>2 DEF Goes, Holding, Object, Mutex!MutexInv, Mutex!NoStrandedWaiter, Mutex!Free
  <2> QED  BY <2>4, <2>5, <2>6, <2>7, <2>8, <2>9, <2>10 DEF Mutex!MutexInv
<1> QED  BY <1>4, <1>5, <1>6

(* A thread that is woken takes the event with it, and asks again.         *)
LEMMA MutexWoken ==
  ASSUME Mutex!MutexInv, NEW t \in Thread, Mutex!Woken(t) PROVE Mutex!MutexInv'
<1>0. Mutex!TypeOK
  BY DEF Mutex!MutexInv
<1>1. pc[t] = "wait" /\ obj.ptr = "live"
  BY <1>0 DEF Mutex!Woken, Mutex!TypeOK, Mutex!MutexInv, Mutex!HoldersKnow, Mutex!UsedOnceMade, Mutex!RoomToLock, Mutex!Holds
<1>2. Object(obj.ptr, obj.lock_idx, FALSE, obj.owner, obj.count, obj.made)
  BY <1>0, MutexObjects DEF Mutex!Woken
<1>3. Goes(t, "again") /\ Holding(t, loc[t].op, loc[t].depth)
  BY <1>0, MutexGoes, MutexKeepsCalls DEF Mutex!Woken, Mutex!Labels
<1>a. loc[t].depth = 0
  BY <1>0, <1>1 DEF Mutex!TypeOK, Mutex!MutexInv, Mutex!HoldersKnow, Mutex!UsedOnceMade, Mutex!RoomToLock, Mutex!Holds
<1>b. Mutex!Inside' = Mutex!Inside
  BY <1>1, <1>2, <1>3, <1>a DEF Goes, Holding, Object, Mutex!Inside, Mutex!Holds
<1>4. Mutex!TypeOK'
  BY <1>1, <1>2, <1>3, <1>a, MutexTyped DEF Object
<1>5. Mutex!UsedOnceMade'
  BY <1>1, <1>2, <1>3, <1>a DEF Goes, Holding, Object, Mutex!MutexInv, Mutex!UsedOnceMade
<1>6. Mutex!RoomToLock'
  BY <1>1, <1>2, <1>3, <1>a DEF Goes, Holding, Object, Mutex!MutexInv, Mutex!RoomToLock
<1>7. Mutex!HoldersKnow'
  BY <1>1, <1>2, <1>3, <1>a, ThreadAssumption DEF Goes, Holding, Object, Mutex!MutexInv, Mutex!HoldersKnow, Mutex!Holds, Mutex!NOBODY
<1>8. Mutex!LockWord'
  BY <1>1, <1>2, <1>3, <1>a, <1>b DEF Goes, Holding, Object, Mutex!MutexInv, Mutex!LockWord, Mutex!Free
<1>9. Mutex!OwnerRecorded'
  BY <1>1, <1>2, <1>3, <1>a, ThreadAssumption DEF Goes, Holding, Object, Mutex!MutexInv, Mutex!OwnerRecorded, Mutex!HoldersKnow, Mutex!Holds, Mutex!NOBODY
<1>10. Mutex!NoStrandedWaiter'
  BY <1>1, <1>2, <1>3, <1>a DEF Goes, Holding, Object, Mutex!MutexInv, Mutex!NoStrandedWaiter, Mutex!Free
<1> QED  BY <1>4, <1>5, <1>6, <1>7, <1>8, <1>9, <1>10 DEF Mutex!MutexInv

(* A timeout leaves the mark, and the event, to others.                    *)
LEMMA MutexTimedOut ==
  ASSUME Mutex!MutexInv, NEW t \in Thread, Mutex!TimedOut(t) PROVE Mutex!MutexInv'
<1>0. Mutex!TypeOK
  BY DEF Mutex!MutexInv
<1>1. pc[t] = "wait" /\ obj.ptr = "live"
  BY <1>0 DEF Mutex!TimedOut, Mutex!TypeOK, Mutex!MutexInv, Mutex!HoldersKnow, Mutex!UsedOnceMade, Mutex!RoomToLock, Mutex!Holds
<1>2. Object(obj.ptr, obj.lock_idx, obj.event, obj.owner, obj.count, obj.made) /\ ~obj.event
  BY <1>0, MutexObjects DEF Mutex!TimedOut
<1>3. Goes(t, "idle") /\ Holding(t, "none", loc[t].depth)
  BY <1>0, MutexReturns DEF Mutex!TimedOut
<1>a. loc[t].depth = 0
  BY <1>0, <1>1 DEF Mutex!TypeOK, Mutex!MutexInv, Mutex!HoldersKnow, Mutex!UsedOnceMade, Mutex!RoomToLock, Mutex!Holds
<1>b. Mutex!Inside' = Mutex!Inside
  BY <1>1, <1>2, <1>3, <1>a DEF Goes, Holding, Object, Mutex!Inside, Mutex!Holds
<1>4. Mutex!TypeOK'
  BY <1>1, <1>2, <1>3, <1>a, MutexTyped DEF Object
<1>5. Mutex!UsedOnceMade'
  BY <1>1, <1>2, <1>3, <1>a DEF Goes, Holding, Object, Mutex!MutexInv, Mutex!UsedOnceMade
<1>6. Mutex!RoomToLock'
  BY <1>1, <1>2, <1>3, <1>a DEF Goes, Holding, Object, Mutex!MutexInv, Mutex!RoomToLock
<1>7. Mutex!HoldersKnow'
  BY <1>1, <1>2, <1>3, <1>a, ThreadAssumption DEF Goes, Holding, Object, Mutex!MutexInv, Mutex!HoldersKnow, Mutex!Holds, Mutex!NOBODY
<1>8. Mutex!LockWord'
  BY <1>1, <1>2, <1>3, <1>a, <1>b DEF Goes, Holding, Object, Mutex!MutexInv, Mutex!LockWord, Mutex!Free
<1>9. Mutex!OwnerRecorded'
  BY <1>1, <1>2, <1>3, <1>a, ThreadAssumption DEF Goes, Holding, Object, Mutex!MutexInv, Mutex!OwnerRecorded, Mutex!HoldersKnow, Mutex!Holds, Mutex!NOBODY
<1>10. Mutex!NoStrandedWaiter'
  BY <1>1, <1>2, <1>3, <1>a DEF Goes, Holding, Object, Mutex!MutexInv, Mutex!NoStrandedWaiter, Mutex!Free
<1> QED  BY <1>4, <1>5, <1>6, <1>7, <1>8, <1>9, <1>10 DEF Mutex!MutexInv

(* The thread that got the mutex enters itself as the owner; nobody else   *)
(* is inside.                                                              *)
LEMMA MutexClaim ==
  ASSUME Mutex!MutexInv, NEW t \in Thread, Mutex!Claim(t) PROVE Mutex!MutexInv'
<1>0. Mutex!TypeOK
  BY DEF Mutex!MutexInv
<1>1. pc[t] = "claim" /\ obj.ptr = "live"
  BY <1>0 DEF Mutex!Claim, Mutex!TypeOK, Mutex!MutexInv, Mutex!HoldersKnow, Mutex!UsedOnceMade, Mutex!RoomToLock, Mutex!Holds
<1>2. loc[t].depth = 0 /\ loc[t].depth < MaxDepth /\ obj.kind # "NORMAL" /\ ~Mutex!Free
  BY <1>0, <1>1 DEF Mutex!TypeOK, Mutex!MutexInv, Mutex!HoldersKnow, Mutex!UsedOnceMade, Mutex!RoomToLock, Mutex!Holds, Mutex!LockWord, Mutex!Inside
<1>3. Object(obj.ptr, obj.lock_idx, obj.event, t, 1, obj.made)
  <2>1. obj \in MutexObject /\ 1 \in 0..MaxDepth
    BY <1>0, <1>2, BoundAssumption DEF Mutex!TypeOK, MutexObject
  <2> QED  BY <2>1 DEF Mutex!Claim, MutexObject, Object
<1>4. Goes(t, "idle") /\ Holding(t, "none", 1)
  BY <1>0, <1>2, MutexReturns DEF Mutex!Claim
<1>5. CASE TRUE
  <2>a. Mutex!Inside = {t}
    BY <1>1 DEF Mutex!MutexInv, Mutex!LockWord, Mutex!Inside
  <2>b. \A u \in Thread : u # t => ~Mutex!Holds(u) /\ pc[u] \notin {"release", "claim"}
    BY <2>a DEF Mutex!MutexInv, Mutex!HoldersKnow, Mutex!Inside
  <2>3. Mutex!Inside' = {t}
    BY <1>1, <1>2, <1>3, <1>4, <2>a, <2>b DEF Goes, Holding, Object, Mutex!MutexInv, Mutex!LockWord, Mutex!Inside, Mutex!Holds
  <2>4. Mutex!TypeOK'
    BY <1>1, <1>2, <1>3, <1>4, <2>a, <2>b, MutexTyped DEF Object
  <2>5. Mutex!UsedOnceMade'
    BY <1>1, <1>2, <1>3, <1>4, <2>a, <2>b DEF Goes, Holding, Object, Mutex!MutexInv, Mutex!UsedOnceMade
  <2>6. Mutex!RoomToLock'
    BY <1>1, <1>2, <1>3, <1>4, <2>a, <2>b DEF Goes, Holding, Object, Mutex!MutexInv, Mutex!RoomToLock
  <2>7. Mutex!HoldersKnow'
    BY <1>1, <1>2, <1>3, <1>4, <2>a, <2>b, ThreadAssumption DEF Goes, Holding, Object, Mutex!MutexInv, Mutex!HoldersKnow, Mutex!Holds, Mutex!NOBODY
  <2>8. Mutex!LockWord'
    BY <1>1, <1>2, <1>3, <1>4, <2>a, <2>b, <2>3 DEF Goes, Holding, Object, Mutex!LockWord, Mutex!Free
  <2>9. Mutex!OwnerRecorded'
    BY <1>1, <1>2, <1>3, <1>4, <2>a, <2>b, ThreadAssumption DEF Goes, Holding, Object, Mutex!MutexInv, Mutex!OwnerRecorded, Mutex!HoldersKnow, Mutex!Holds, Mutex!NOBODY
  <2>10. Mutex!NoStrandedWaiter'
    BY <1>1, <1>2, <1>3, <1>4, <2>a, <2>b DEF Goes, Holding, Object, Mutex!MutexInv, Mutex!NoStrandedWaiter, Mutex!Free
  <2> QED  BY <2>4, <2>5, <2>6, <2>7, <2>8, <2>9, <2>10 DEF Mutex!MutexInv
<1> QED  BY <1>5

(* The exchange that frees the mutex: whoever was inside has left, and     *)
(* is going to set the event if it saw a mark.                             *)
LEMMA MutexExchanged ==
  ASSUME Mutex!MutexInv, NEW t \in Thread, Mutex!Exchanged(t), Mutex!Holds(t),
         pc[t] \in {"idle", "release"}, obj.kind # "NORMAL" => pc[t] = "release"
  PROVE Mutex!MutexInv'
<1>0. Mutex!TypeOK
  BY DEF Mutex!MutexInv
<1>1. Object(obj.ptr, 0, obj.event, obj.owner, obj.count, obj.made)
  BY <1>0, MutexObjects DEF Mutex!Exchanged
<1>2. Holding(t, loc[t].op, 0)
  BY <1>0, BoundAssumption DEF Mutex!Exchanged, Mutex!TypeOK, MutexCalls, Holding
<1>a. Mutex!Inside = {t} /\ obj.ptr = "live"
  BY <1>0 DEF Mutex!TypeOK, Mutex!MutexInv, Mutex!LockWord, Mutex!Inside, Mutex!Holds,
              Mutex!UsedOnceMade
<1>3. CASE obj.lock_idx < 0
  <2>1. Goes(t, "signal")
    BY <1>0, <1>3, MutexGoes DEF Mutex!Exchanged, Mutex!Labels
  <2>3. Mutex!Inside' = {}
    BY <1>1, <1>2, <1>a, <1>3, <2>1 DEF Goes, Holding, Object, Mutex!MutexInv, Mutex!LockWord, Mutex!Inside, Mutex!Holds
  <2>4. Mutex!TypeOK'
    BY <1>1, <1>2, <1>a, <1>3, <2>1, MutexTyped DEF Object
  <2>5. Mutex!UsedOnceMade'
    BY <1>1, <1>2, <1>a, <1>3, <2>1 DEF Goes, Holding, Object, Mutex!MutexInv, Mutex!UsedOnceMade
  <2>6. Mutex!RoomToLock'
    BY <1>1, <1>2, <1>a, <1>3, <2>1 DEF Goes, Holding, Object, Mutex!MutexInv, Mutex!RoomToLock
  <2>7. Mutex!HoldersKnow'
    BY <1>1, <1>2, <1>a, <1>3, <2>1, ThreadAssumption DEF Goes, Holding, Object, Mutex!MutexInv, Mutex!HoldersKnow, Mutex!Holds, Mutex!NOBODY
  <2>8. Mutex!LockWord'
    BY <1>1, <1>2, <1>a, <1>3, <2>1, <2>3 DEF Goes, Holding, Object, Mutex!LockWord, Mutex!Free
  <2>9. Mutex!OwnerRecorded'
    BY <1>1, <1>2, <1>a, <1>3, <2>1, ThreadAssumption DEF Goes, Holding, Object, Mutex!MutexInv, Mutex!OwnerRecorded, Mutex!HoldersKnow, Mutex!Holds, Mutex!NOBODY
  <2>10. Mutex!NoStrandedWaiter'
    BY <1>1, <1>2, <1>a, <1>3, <2>1 DEF Goes, Holding, Object, Mutex!MutexInv, Mutex!NoStrandedWaiter, Mutex!Free
  <2> QED  BY <2>4, <2>5, <2>6, <2>7, <2>8, <2>9, <2>10 DEF Mutex!MutexInv
<1>4. CASE ~(obj.lock_idx < 0)
  <2>1. Goes(t, "idle") /\ obj.lock_idx # -1
    BY <1>0, <1>4, MutexGoes DEF Mutex!Exchanged, Mutex!Labels
  <2>3. Mutex!Inside' = {}
    BY <1>1, <1>2, <1>a, <1>4, <2>1 DEF Goes, Holding, Object, Mutex!MutexInv, Mutex!LockWord, Mutex!Inside, Mutex!Holds
  <2>4. Mutex!TypeOK'
    BY <1>1, <1>2, <1>a, <1>4, <2>1, MutexTyped DEF Object
  <2>5. Mutex!UsedOnceMade'
    BY <1>1, <1>2, <1>a, <1>4, <2>1 DEF Goes, Holding, Object, Mutex!MutexInv, Mutex!UsedOnceMade
  <2>6. Mutex!RoomToLock'
    BY <1>1, <1>2, <1>a, <1>4, <2>1 DEF Goes, Holding, Object, Mutex!MutexInv, Mutex!RoomToLock
  <2>7. Mutex!HoldersKnow'
    BY <1>1, <1>2, <1>a, <1>4, <2>1, ThreadAssumption DEF Goes, Holding, Object, Mutex!MutexInv, Mutex!HoldersKnow, Mutex!Holds, Mutex!NOBODY
  <2>8. Mutex!LockWord'
    BY <1>1, <1>2, <1>a, <1>4, <2>1, <2>3 DEF Goes, Holding, Object, Mutex!LockWord, Mutex!Free
  <2>9. Mutex!OwnerRecorded'
    BY <1>1, <1>2, <1>a, <1>4, <2>1, ThreadAssumption DEF Goes, Holding, Object, Mutex!MutexInv, Mutex!OwnerRecorded, Mutex!HoldersKnow, Mutex!Holds, Mutex!NOBODY
  <2>10. Mutex!NoStrandedWaiter'
    BY <1>1, <1>2, <1>a, <1>4, <2>1 DEF Goes, Holding, Object, Mutex!MutexInv, Mutex!NoStrandedWaiter, Mutex!Free
  <2> QED  BY <2>4, <2>5, <2>6, <2>7, <2>8, <2>9, <2>10 DEF Mutex!MutexInv
<1> QED  BY <1>3, <1>4

(* Of a recursive mutex one lock is given back; the last one, or that of   *)
(* an error-checking one, frees the owner first.                           *)
LEMMA MutexUnlockOwned ==
  ASSUME Mutex!MutexInv, NEW t \in Thread, Mutex!UnlockOwned(t) PROVE Mutex!MutexInv'
<1>0. Mutex!TypeOK
  BY DEF Mutex!MutexInv
<1>1. pc[t] = "idle" /\ obj.ptr = "live" /\ obj.kind # "NORMAL" /\ obj.owner = t
  BY DEF Mutex!UnlockOwned, Mutex!IsOwner
<1>2. loc[t].depth > 0 /\ (obj.kind = "RECURSIVE" => obj.count = loc[t].depth)
  BY <1>1 DEF Mutex!MutexInv, Mutex!OwnerRecorded
<1>a. Mutex!Inside = {t} /\ loc[t].depth \in 0..MaxDepth
  BY <1>0, <1>2 DEF Mutex!TypeOK, Mutex!MutexInv, Mutex!LockWord, Mutex!Inside, Mutex!Holds
<1>3. CASE obj.kind = "RECURSIVE" /\ obj.count > 1
  <2>1. Object(obj.ptr, obj.lock_idx, obj.event, obj.owner, obj.count - 1, obj.made)
    <3>1. obj.count - 1 \in 0..MaxDepth
      BY <1>3, <1>2, <1>a, BoundAssumption
    <3> QED  BY <1>0, <1>3, <3>1, MutexObjects DEF Mutex!UnlockOwned
  <2>2. Holding(t, loc[t].op, loc[t].depth - 1)
    BY <1>0, <1>3, <1>2, <1>a, BoundAssumption
       DEF Mutex!UnlockOwned, Mutex!TypeOK, MutexCalls, Holding
  <2>b. Goes(t, "idle") /\ loc[t].depth - 1 > 0
    BY <1>0, <1>1, <1>2, <1>3, <1>a DEF Mutex!UnlockOwned, Goes, Mutex!TypeOK
  <2>3. Mutex!Inside' = Mutex!Inside
    BY <1>1, <1>2, <1>a, <1>3, <2>1, <2>2, <2>b DEF Goes, Holding, Object, Mutex!Inside, Mutex!Holds
  <2>4. Mutex!TypeOK'
    BY <1>1, <1>2, <1>a, <1>3, <2>1, <2>2, <2>b, MutexTyped DEF Object
  <2>5. Mutex!UsedOnceMade'
    BY <1>1, <1>2, <1>a, <1>3, <2>1, <2>2, <2>b DEF Goes, Holding, Object, Mutex!MutexInv, Mutex!UsedOnceMade
  <2>6. Mutex!RoomToLock'
    BY <1>1, <1>2, <1>a, <1>3, <2>1, <2>2, <2>b DEF Goes, Holding, Object, Mutex!MutexInv, Mutex!RoomToLock
  <2>7. Mutex!HoldersKnow'
    BY <1>1, <1>2, <1>a, <1>3, <2>1, <2>2, <2>b, ThreadAssumption DEF Goes, Holding, Object, Mutex!MutexInv, Mutex!HoldersKnow, Mutex!Holds, Mutex!NOBODY
  <2>8. Mutex!LockWord'
    BY <1>1, <1>2, <1>a, <1>3, <2>1, <2>2, <2>b, <2>3 DEF Goes, Holding, Object, Mutex!MutexInv, Mutex!LockWord, Mutex!Free
  <2>9. Mutex!OwnerRecorded'
    BY <1>1, <1>2, <1>a, <1>3, <2>1, <2>2, <2>b, ThreadAssumption DEF Goes, Holding, Object, Mutex!MutexInv, Mutex!OwnerRecorded, Mutex!HoldersKnow, Mutex!Holds, Mutex!NOBODY
  <2>10. Mutex!NoStrandedWaiter'
    BY <1>1, <1>2, <1>a, <1>3, <2>1, <2>2, <2>b DEF Goes, Holding, Object, Mutex!MutexInv, Mutex!NoStrandedWaiter, Mutex!Free
  <2> QED  BY <2>4, <2>5, <2>6, <2>7, <2>8, <2>9, <2>10 DEF Mutex!MutexInv
<1>4. CASE ~(obj.kind = "RECURSIVE" /\ obj.count > 1)
  <2>0. PICK c \in 0..MaxDepth : obj' = [obj EXCEPT !.owner = Mutex!NOBODY, !.count = c]
    <3>1. obj.count \in 0..MaxDepth /\ 0 \in 0..MaxDepth
      BY <1>0, BoundAssumption DEF Mutex!TypeOK
    <3> QED  BY <1>4, <3>1 DEF Mutex!UnlockOwned
  <2>1. Object(obj.ptr, obj.lock_idx, obj.event, Mutex!NOBODY, c, obj.made)
    <3>1. obj \in MutexObject
      BY <1>0 DEF Mutex!TypeOK, MutexObject
    <3> QED  BY <2>0, <3>1 DEF MutexObject, Object
  <2>2. Goes(t, "release") /\ Holding(t, loc[t].op, loc[t].depth)
    BY <1>0, <1>4, MutexGoes, MutexKeepsCalls DEF Mutex!UnlockOwned, Mutex!Labels
  <2>3. Mutex!Inside' = Mutex!Inside
    BY <1>1, <1>2, <1>a, <1>4, <2>1, <2>2 DEF Goes, Holding, Object, Mutex!Inside, Mutex!Holds
  <2>4. Mutex!TypeOK'
    BY <1>1, <1>2, <1>a, <1>4, <2>1, <2>2, MutexTyped DEF Object
  <2>5. Mutex!UsedOnceMade'
    BY <1>1, <1>2, <1>a, <1>4, <2>1, <2>2 DEF Goes, Holding, Object, Mutex!MutexInv, Mutex!UsedOnceMade
  <2>6. Mutex!RoomToLock'
    BY <1>1, <1>2, <1>a, <1>4, <2>1, <2>2 DEF Goes, Holding, Object, Mutex!MutexInv, Mutex!RoomToLock
  <2>7. Mutex!HoldersKnow'
    BY <1>1, <1>2, <1>a, <1>4, <2>1, <2>2, ThreadAssumption DEF Goes, Holding, Object, Mutex!MutexInv, Mutex!HoldersKnow, Mutex!Holds, Mutex!NOBODY
  <2>8. Mutex!LockWord'
    BY <1>1, <1>2, <1>a, <1>4, <2>1, <2>2, <2>3 DEF Goes, Holding, Object, Mutex!MutexInv, Mutex!LockWord, Mutex!Free
  <2>9. Mutex!OwnerRecorded'
    BY <1>1, <1>2, <1>a, <1>4, <2>1, <2>2, ThreadAssumption DEF Goes, Holding, Object, Mutex!MutexInv, Mutex!OwnerRecorded, Mutex!HoldersKnow, Mutex!Holds, Mutex!NOBODY
  <2>10. Mutex!NoStrandedWaiter'
    BY <1>1, <1>2, <1>a, <1>4, <2>1, <2>2 DEF Goes, Holding, Object, Mutex!MutexInv, Mutex!NoStrandedWaiter, Mutex!Free
  <2> QED  BY <2>4, <2>5, <2>6, <2>7, <2>8, <2>9, <2>10 DEF Mutex!MutexInv
<1> QED  BY <1>3, <1>4

(* The event is set for whoever waits.                                     *)
LEMMA MutexSignal ==
  ASSUME Mutex!MutexInv, NEW t \in Thread, Mutex!Signal(t) PROVE Mutex!MutexInv'
<1>0. Mutex!TypeOK
  BY DEF Mutex!MutexInv
<1>1. pc[t] = "signal" /\ obj.ptr = "live"
  BY <1>0 DEF Mutex!Signal, Mutex!TypeOK, Mutex!MutexInv, Mutex!HoldersKnow, Mutex!UsedOnceMade, Mutex!RoomToLock, Mutex!Holds
<1>2. Object(obj.ptr, obj.lock_idx, TRUE, obj.owner, obj.count, obj.made)
  BY <1>0, MutexObjects DEF Mutex!Signal
<1>3. Goes(t, "idle") /\ Holding(t, loc[t].op, loc[t].depth)
  BY <1>0, MutexGoes, MutexKeepsCalls DEF Mutex!Signal, Mutex!Labels
<1>a. loc[t].depth = 0
  BY <1>0, <1>1 DEF Mutex!TypeOK, Mutex!MutexInv, Mutex!HoldersKnow, Mutex!UsedOnceMade, Mutex!RoomToLock, Mutex!Holds
<1>b. Mutex!Inside' = Mutex!Inside
  BY <1>1, <1>2, <1>3, <1>a DEF Goes, Holding, Object, Mutex!Inside, Mutex!Holds
<1>4. Mutex!TypeOK'
  BY <1>1, <1>2, <1>3, <1>a, MutexTyped DEF Object
<1>5. Mutex!UsedOnceMade'
  BY <1>1, <1>2, <1>3, <1>a DEF Goes, Holding, Object, Mutex!MutexInv, Mutex!UsedOnceMade
<1>6. Mutex!RoomToLock'
  BY <1>1, <1>2, <1>3, <1>a DEF Goes, Holding, Object, Mutex!MutexInv, Mutex!RoomToLock
<1>7. Mutex!HoldersKnow'
  BY <1>1, <1>2, <1>3, <1>a, ThreadAssumption DEF Goes, Holding, Object, Mutex!MutexInv, Mutex!HoldersKnow, Mutex!Holds, Mutex!NOBODY
<1>8. Mutex!LockWord'
  BY <1>1, <1>2, <1>3, <1>a, <1>b DEF Goes, Holding, Object, Mutex!MutexInv, Mutex!LockWord, Mutex!Free
<1>9. Mutex!OwnerRecorded'
  BY <1>1, <1>2, <1>3, <1>a, ThreadAssumption DEF Goes, Holding, Object, Mutex!MutexInv, Mutex!OwnerRecorded, Mutex!HoldersKnow, Mutex!Holds, Mutex!NOBODY
<1>10. Mutex!NoStrandedWaiter'
  BY <1>1, <1>2, <1>3, <1>a DEF Goes, Holding, Object, Mutex!MutexInv, Mutex!NoStrandedWaiter, Mutex!Free
<1> QED  BY <1>4, <1>5, <1>6, <1>7, <1>8, <1>9, <1>10 DEF Mutex!MutexInv

(* A thread is about to give up a mutex nobody has used.                   *)
LEMMA MutexDestroyStatic ==
  ASSUME Mutex!MutexInv, NEW t \in Thread, Mutex!DestroyStatic(t) PROVE Mutex!MutexInv'
<1>0. Mutex!TypeOK
  BY DEF Mutex!MutexInv
<1>1. pc[t] = "idle" /\ obj.ptr = "static"
  BY DEF Mutex!DestroyStatic
<1>2. Object(obj.ptr, obj.lock_idx, obj.event, obj.owner, obj.count, obj.made)
  BY <1>0, MutexObjects DEF Mutex!DestroyStatic
<1>3. Goes(t, "unmake") /\ Holding(t, loc[t].op, loc[t].depth)
  BY <1>0, MutexGoes, MutexKeepsCalls DEF Mutex!DestroyStatic, Mutex!Labels
<1>a. loc[t].depth = 0
  BY <1>0, <1>1 DEF Mutex!TypeOK, Mutex!MutexInv, Mutex!HoldersKnow, Mutex!UsedOnceMade, Mutex!RoomToLock, Mutex!Holds
<1>b. Mutex!Inside' = Mutex!Inside
  BY <1>1, <1>2, <1>3, <1>a DEF Goes, Holding, Object, Mutex!Inside, Mutex!Holds
<1>4. Mutex!TypeOK'
  BY <1>1, <1>2, <1>3, <1>a, MutexTyped DEF Object
<1>5. Mutex!UsedOnceMade'
  BY <1>1, <1>2, <1>3, <1>a DEF Goes, Holding, Object, Mutex!MutexInv, Mutex!UsedOnceMade
<1>6. Mutex!RoomToLock'
  BY <1>1, <1>2, <1>3, <1>a DEF Goes, Holding, Object, Mutex!MutexInv, Mutex!RoomToLock
<1>7. Mutex!HoldersKnow'
  BY <1>1, <1>2, <1>3, <1>a, ThreadAssumption DEF Goes, Holding, Object, Mutex!MutexInv, Mutex!HoldersKnow, Mutex!Holds, Mutex!NOBODY
<1>8. Mutex!LockWord'
  BY <1>1, <1>2, <1>3, <1>a, <1>b DEF Goes, Holding, Object, Mutex!MutexInv, Mutex!LockWord, Mutex!Free
<1>9. Mutex!OwnerRecorded'
  BY <1>1, <1>2, <1>3, <1>a, ThreadAssumption DEF Goes, Holding, Object, Mutex!MutexInv, Mutex!OwnerRecorded, Mutex!HoldersKnow, Mutex!Holds, Mutex!NOBODY
<1>10. Mutex!NoStrandedWaiter'
  BY <1>1, <1>2, <1>3, <1>a DEF Goes, Holding, Object, Mutex!MutexInv, Mutex!NoStrandedWaiter, Mutex!Free
<1> QED  BY <1>4, <1>5, <1>6, <1>7, <1>8, <1>9, <1>10 DEF Mutex!MutexInv

(* It is given up if still nobody has used it.                             *)
LEMMA MutexUnmake ==
  ASSUME Mutex!MutexInv, NEW t \in Thread, Mutex!Unmake(t) PROVE Mutex!MutexInv'
<1>0. Mutex!TypeOK
  BY DEF Mutex!MutexInv
<1>1. pc[t] = "unmake"
  BY DEF Mutex!Unmake
<1>3. Goes(t, "idle") /\ Holding(t, loc[t].op, loc[t].depth)
  BY <1>0, MutexGoes, MutexKeepsCalls DEF Mutex!Unmake, Mutex!Labels
<1>a. loc[t].depth = 0
  BY <1>0, <1>1 DEF Mutex!TypeOK, Mutex!MutexInv, Mutex!HoldersKnow, Mutex!UsedOnceMade, Mutex!RoomToLock, Mutex!Holds
<1>4. CASE obj.ptr = "static"
  <2>1. Object("null", obj.lock_idx, obj.event, obj.owner, obj.count, obj.made)
    BY <1>0, <1>4, MutexObjects DEF Mutex!Unmake
  <2>3. Mutex!Inside' = Mutex!Inside
    BY <1>1, <1>3, <1>a, <1>4, <2>1 DEF Goes, Holding, Object, Mutex!Inside, Mutex!Holds
  <2>4. Mutex!TypeOK'
    BY <1>1, <1>3, <1>a, <1>4, <2>1, MutexTyped DEF Object
  <2>5. Mutex!UsedOnceMade'
    BY <1>1, <1>3, <1>a, <1>4, <2>1 DEF Goes, Holding, Object, Mutex!MutexInv, Mutex!UsedOnceMade
  <2>6. Mutex!RoomToLock'
    BY <1>1, <1>3, <1>a, <1>4, <2>1 DEF Goes, Holding, Object, Mutex!MutexInv, Mutex!RoomToLock
  <2>7. Mutex!HoldersKnow'
    BY <1>1, <1>3, <1>a, <1>4, <2>1, ThreadAssumption DEF Goes, Holding, Object, Mutex!MutexInv, Mutex!HoldersKnow, Mutex!Holds, Mutex!NOBODY
  <2>8. Mutex!LockWord'
    BY <1>1, <1>3, <1>a, <1>4, <2>1, <2>3 DEF Goes, Holding, Object, Mutex!MutexInv, Mutex!LockWord, Mutex!Free
  <2>9. Mutex!OwnerRecorded'
    BY <1>1, <1>3, <1>a, <1>4, <2>1, ThreadAssumption DEF Goes, Holding, Object, Mutex!MutexInv, Mutex!OwnerRecorded, Mutex!HoldersKnow, Mutex!Holds, Mutex!NOBODY
  <2>10. Mutex!NoStrandedWaiter'
    BY <1>1, <1>3, <1>a, <1>4, <2>1 DEF Goes, Holding, Object, Mutex!MutexInv, Mutex!NoStrandedWaiter, Mutex!Free
  <2> QED  BY <2>4, <2>5, <2>6, <2>7, <2>8, <2>9, <2>10 DEF Mutex!MutexInv
<1>5. CASE obj.ptr # "static"
  <2>1. Object(obj.ptr, obj.lock_idx, obj.event, obj.owner, obj.count, obj.made)
    BY <1>0, <1>5, MutexObjects DEF Mutex!Unmake
  <2>3. Mutex!Inside' = Mutex!Inside
    BY <1>1, <1>3, <1>a, <1>5, <2>1 DEF Goes, Holding, Object, Mutex!Inside, Mutex!Holds
  <2>4. Mutex!TypeOK'
    BY <1>1, <1>3, <1>a, <1>5, <2>1, MutexTyped DEF Object
  <2>5. Mutex!UsedOnceMade'
    BY <1>1, <1>3, <1>a, <1>5, <2>1 DEF Goes, Holding, Object, Mutex!MutexInv, Mutex!UsedOnceMade
  <2>6. Mutex!RoomToLock'
    BY <1>1, <1>3, <1>a, <1>5, <2>1 DEF Goes, Holding, Object, Mutex!MutexInv, Mutex!RoomToLock
  <2>7. Mutex!HoldersKnow'
    BY <1>1, <1>3, <1>a, <1>5, <2>1, ThreadAssumption DEF Goes, Holding, Object, Mutex!MutexInv, Mutex!HoldersKnow, Mutex!Holds, Mutex!NOBODY
  <2>8. Mutex!LockWord'
    BY <1>1, <1>3, <1>a, <1>5, <2>1, <2>3 DEF Goes, Holding, Object, Mutex!MutexInv, Mutex!LockWord, Mutex!Free
  <2>9. Mutex!OwnerRecorded'
    BY <1>1, <1>3, <1>a, <1>5, <2>1, ThreadAssumption DEF Goes, Holding, Object, Mutex!MutexInv, Mutex!OwnerRecorded, Mutex!HoldersKnow, Mutex!Holds, Mutex!NOBODY
  <2>10. Mutex!NoStrandedWaiter'
    BY <1>1, <1>3, <1>a, <1>5, <2>1 DEF Goes, Holding, Object, Mutex!MutexInv, Mutex!NoStrandedWaiter, Mutex!Free
  <2> QED  BY <2>4, <2>5, <2>6, <2>7, <2>8, <2>9, <2>10 DEF Mutex!MutexInv
<1> QED  BY <1>4, <1>5

(* A mutex is destroyed when nobody is inside, or on the way in.           *)
LEMMA MutexDestroy ==
  ASSUME Mutex!MutexInv, NEW t \in Thread, Mutex!Destroy(t) PROVE Mutex!MutexInv'
<1>0. Mutex!TypeOK
  BY DEF Mutex!MutexInv
<1>1. obj.ptr = "live" /\ Mutex!Free /\ \A u \in Thread : pc[u] = "idle"
  BY DEF Mutex!Destroy, Mutex!NobodyHolds, Mutex!Free
<1>2. Object("null", obj.lock_idx, obj.event, obj.owner, obj.count, obj.made)
  BY <1>0, MutexObjects DEF Mutex!Destroy
<1>3. Goes(t, "idle") /\ Holding(t, loc[t].op, loc[t].depth)
  BY <1>0, <1>1, MutexKeepsCalls DEF Mutex!Destroy, Goes, Mutex!TypeOK
<1>a. \A u \in Thread : loc[u].depth = 0
  BY <1>0, <1>1 DEF Mutex!TypeOK, Mutex!MutexInv, Mutex!LockWord, Mutex!Inside, Mutex!Holds
<1>b. Mutex!Inside' = Mutex!Inside
  BY <1>1, <1>2, <1>3, <1>a DEF Goes, Holding, Object, Mutex!Inside, Mutex!Holds
<1>4. Mutex!TypeOK'
  BY <1>1, <1>2, <1>3, <1>a, MutexTyped DEF Object
<1>5. Mutex!UsedOnceMade'
  BY <1>1, <1>2, <1>3, <1>a DEF Goes, Holding, Object, Mutex!MutexInv, Mutex!UsedOnceMade
<1>6. Mutex!RoomToLock'
  BY <1>1, <1>2, <1>3, <1>a DEF Goes, Holding, Object, Mutex!MutexInv, Mutex!RoomToLock
<1>7. Mutex!HoldersKnow'
  BY <1>1, <1>2, <1>3, <1>a, ThreadAssumption DEF Goes, Holding, Object, Mutex!MutexInv, Mutex!HoldersKnow, Mutex!Holds, Mutex!NOBODY
<1>8. Mutex!LockWord'
  BY <1>1, <1>2, <1>3, <1>a, <1>b DEF Goes, Holding, Object, Mutex!MutexInv, Mutex!LockWord, Mutex!Free
<1>9. Mutex!OwnerRecorded'
  BY <1>1, <1>2, <1>3, <1>a, ThreadAssumption DEF Goes, Holding, Object, Mutex!MutexInv, Mutex!OwnerRecorded, Mutex!HoldersKnow, Mutex!Holds, Mutex!NOBODY
<1>10. Mutex!NoStrandedWaiter'
  BY <1>1, <1>2, <1>3, <1>a DEF Goes, Holding, Object, Mutex!MutexInv, Mutex!NoStrandedWaiter, Mutex!Free
<1> QED  BY <1>4, <1>5, <1>6, <1>7, <1>8, <1>9, <1>10 DEF Mutex!MutexInv

(* Every step of a thread keeps MutexInv.                                  *)
LEMMA MutexThread ==
  ASSUME Mutex!MutexInv, NEW t \in Thread,
         \/ Mutex!Step(t) \/ Mutex!Call(t) \/ Mutex!TimedOut(t)
         \/ Mutex!UnlockNormal(t) \/ Mutex!UnlockOwned(t)
         \/ Mutex!DestroyStatic(t) \/ Mutex!Destroy(t)
  PROVE Mutex!MutexInv'
<1>1. CASE Mutex!UnlockNormal(t)
  BY <1>1, MutexExchanged DEF Mutex!UnlockNormal
<1>2. CASE Mutex!Release(t)
  BY <1>2, MutexExchanged DEF Mutex!Release, Mutex!MutexInv, Mutex!HoldersKnow
<1>3. CASE \/ Mutex!CheckNeedInit(t) \/ Mutex!FirstNormal(t) \/ Mutex!FirstCompare(t)
           \/ Mutex!Contend(t) \/ Mutex!Again(t) \/ Mutex!Woken(t)
  BY <1>3, MutexCheckNeedInit, MutexFirstNormal, MutexFirstCompare, MutexContend,
     MutexAgain, MutexWoken
<1>4. CASE \/ Mutex!Claim(t) \/ Mutex!Signal(t) \/ Mutex!Unmake(t) \/ Mutex!Call(t)
           \/ Mutex!TimedOut(t) \/ Mutex!UnlockOwned(t) \/ Mutex!DestroyStatic(t)
           \/ Mutex!Destroy(t)
  BY <1>4, MutexClaim, MutexSignal, MutexUnmake, MutexCall, MutexTimedOut,
     MutexUnlockOwned, MutexDestroyStatic, MutexDestroy
<1> QED  BY <1>1, <1>2, <1>3, <1>4 DEF Mutex!Step

(* At first nobody is in a call.                                           *)
LEMMA MutexInit == Mutex!Init => Mutex!MutexInv
<1> SUFFICES ASSUME Mutex!Init PROVE Mutex!MutexInv
  OBVIOUS
<1>1. Mutex!TypeOK
  <2>0. PICK p \in {"static", "live"}, k \in Mutex!Kinds :
          obj = [ptr |-> p, kind |-> k, lock_idx |-> 0, event |-> FALSE,
                 owner |-> Mutex!NOBODY, count |-> 0, made |-> 0]
    BY DEF Mutex!Init
  <2>1. obj \in MutexObject
    BY <2>0, BoundAssumption DEF MutexObject
  <2>2. pc \in [Thread -> Mutex!Labels] /\ loc \in [Thread -> MutexCalls]
    BY BoundAssumption DEF Mutex!Init, Mutex!Labels, MutexCalls
  <2> QED  BY <2>1, <2>2 DEF Mutex!TypeOK, MutexObject, MutexCalls
<1>2. /\ \A t \in Thread : pc[t] = "idle" /\ loc[t].depth = 0
      /\ obj.lock_idx = 0 /\ obj.owner = Mutex!NOBODY /\ obj.made = 0
  BY DEF Mutex!Init
<1>3. Mutex!Inside = {}
  BY <1>2 DEF Mutex!Inside, Mutex!Holds
<1>4. Mutex!UsedOnceMade /\ Mutex!RoomToLock /\ Mutex!HoldersKnow
  BY <1>2 DEF Mutex!UsedOnceMade, Mutex!RoomToLock, Mutex!HoldersKnow, Mutex!Holds
<1>5. Mutex!LockWord
  BY <1>2, <1>3 DEF Mutex!LockWord, Mutex!Free
<1>6. Mutex!OwnerRecorded /\ Mutex!NoStrandedWaiter
  BY <1>2, ThreadAssumption DEF Mutex!OwnerRecorded, Mutex!NoStrandedWaiter, Mutex!Holds,
                                Mutex!NOBODY
<1> QED  BY <1>1, <1>4, <1>5, <1>6 DEF Mutex!MutexInv

(* MutexInv is inductive.                                                  *)
LEMMA MutexStep == Mutex!MutexInv /\ (Mutex!Next \/ UNCHANGED <<obj, pc, loc>>) => Mutex!MutexInv'
<1>1. Mutex!MutexInv /\ Mutex!Next => Mutex!MutexInv'
  BY MutexThread DEF Mutex!Next
<1>2. ASSUME Mutex!MutexInv, UNCHANGED <<obj, pc, loc>> PROVE Mutex!MutexInv'
  <2>1. Mutex!Inside' = Mutex!Inside
    BY <1>2 DEF Mutex!Inside, Mutex!Holds
  <2>2. (Mutex!TypeOK /\ Mutex!UsedOnceMade /\ Mutex!RoomToLock)'
    BY <1>2 DEF Mutex!MutexInv, Mutex!TypeOK, Mutex!UsedOnceMade, Mutex!RoomToLock
  <2>3. (Mutex!HoldersKnow /\ Mutex!OwnerRecorded)'
    BY <1>2 DEF Mutex!MutexInv, Mutex!HoldersKnow, Mutex!OwnerRecorded, Mutex!Holds
  <2>4. (Mutex!LockWord /\ Mutex!NoStrandedWaiter)'
    BY <1>2, <2>1 DEF Mutex!MutexInv, Mutex!LockWord, Mutex!NoStrandedWaiter, Mutex!Free
  <2> QED  BY <2>2, <2>3, <2>4 DEF Mutex!MutexInv
<1> QED  BY <1>1, <1>2

(* In a step of one thread no other enters or leaves.                      *)
LEMMA MutexOthers ==
  ASSUME Mutex!TypeOK, NEW t \in Thread,
         \/ Mutex!Step(t) \/ Mutex!Call(t) \/ Mutex!TimedOut(t)
         \/ Mutex!UnlockNormal(t) \/ Mutex!UnlockOwned(t)
         \/ Mutex!DestroyStatic(t) \/ Mutex!Destroy(t),
         NEW u \in Thread, u # t
  PROVE u \in Mutex!Inside' <=> u \in Mutex!Inside
<1>0. /\ \A l : pc' = [pc EXCEPT ![t] = l] => pc'[u] = pc[u]
      /\ \A x : loc' = [loc EXCEPT ![t] = x] => loc'[u] = loc[u]
  BY DEF Mutex!TypeOK
<1>1. pc'[u] = pc[u]
  BY <1>0 DEF Mutex!Step, Mutex!CheckNeedInit, Mutex!FirstNormal, Mutex!FirstCompare,
     Mutex!Contend, Mutex!Again, Mutex!Woken, Mutex!Claim, Mutex!Release, Mutex!Signal,
     Mutex!Unmake, Mutex!Call, Mutex!TimedOut, Mutex!UnlockNormal, Mutex!UnlockOwned,
     Mutex!DestroyStatic, Mutex!Destroy, Mutex!Exchanged, Mutex!Return, Mutex!Locked,
     Mutex!Goto
<1>2. loc'[u] = loc[u]
  BY <1>0 DEF Mutex!Step, Mutex!CheckNeedInit, Mutex!FirstNormal, Mutex!FirstCompare,
     Mutex!Contend, Mutex!Again, Mutex!Woken, Mutex!Claim, Mutex!Release, Mutex!Signal,
     Mutex!Unmake, Mutex!Call, Mutex!TimedOut, Mutex!UnlockNormal, Mutex!UnlockOwned,
     Mutex!DestroyStatic, Mutex!Destroy, Mutex!Exchanged, Mutex!Return, Mutex!Locked
<1> QED  BY <1>1, <1>2 DEF Mutex!Inside, Mutex!Holds

(* A step of the mutex is one of Exclusion, or none: one thread enters     *)
(* when nobody is inside, or the one that is leaves.                       *)
LEMMA MutexExcludes ==
  ASSUME Mutex!MutexInv, Mutex!MutexInv', Mutex!Next
  PROVE \/ Mutex!Inside' = Mutex!Inside
        \/ \E t \in Thread : Mutex!Inside = {} /\ Mutex!Inside' = {t}
        \/ \E t \in Thread : Mutex!Inside = {t} /\ Mutex!Inside' = {}
<1>0. PICK t \in Thread : \/ Mutex!Step(t) \/ Mutex!Call(t) \/ Mutex!TimedOut(t)
                          \/ Mutex!UnlockNormal(t) \/ Mutex!UnlockOwned(t)
                          \/ Mutex!DestroyStatic(t) \/ Mutex!Destroy(t)
  BY DEF Mutex!Next
<1>1. \A u \in Thread : u # t => (u \in Mutex!Inside' <=> u \in Mutex!Inside)
  BY <1>0, MutexOthers DEF Mutex!MutexInv
<1>2. Mutex!Inside \subseteq Thread /\ Mutex!Inside' \subseteq Thread
  BY DEF Mutex!Inside
<1>3. /\ \A u, v \in Mutex!Inside : u = v
      /\ \A u, v \in Mutex!Inside' : u = v
  BY DEF Mutex!MutexInv, Mutex!LockWord
<1> QED  BY <1>1, <1>2, <1>3

(* A behaviour of a mutex stays one, and keeps MutexInv.                   *)
LEMMA MutexBehaviour == Spec /\ kind = "mutex" => [](kind = "mutex" /\ Mutex!MutexInv)
<1>1. Init /\ kind = "mutex" => Mutex!MutexInv
  BY MutexInit DEF Init
<1>2. kind = "mutex" /\ Mutex!MutexInv /\ [Next]_vars => (kind = "mutex" /\ Mutex!MutexInv)'
  <2> SUFFICES ASSUME kind = "mutex", Mutex!MutexInv, [Next]_vars
               PROVE  kind' = "mutex" /\ Mutex!MutexInv'
    OBVIOUS
  <2>1. kind' = kind /\ (Mutex!Next \/ UNCHANGED <<obj, pc, loc>>)
    BY DEF Next, vars
  <2> QED  BY <2>1, MutexStep
<1> QED  BY <1>1, <1>2, PTL DEF Spec

(* What a mutex records is true in every state: whose it is, how many      *)
(* locks its owner has, and that lock_idx is 0 while it is nobody's.       *)
THEOREM MutexRecordsTrue == Spec /\ kind = "mutex" => []RecordsTrue
<1>1. kind = "mutex" /\ Mutex!MutexInv => RecordsTrue
  BY DEF RecordsTrue
<1> QED  BY <1>1, MutexBehaviour, PTL

(* No thread waits for a mutex that has forgotten it: the event is set, or *)
(* the holder will see the mark, or some thread is yet to set either.      *)
THEOREM MutexStrandsNobody == Spec /\ kind = "mutex" => []NobodyStranded
<1>1. kind = "mutex" /\ Mutex!MutexInv => NobodyStranded
  BY DEF NobodyStranded, Mutex!MutexInv
<1> QED  BY <1>1, MutexBehaviour, PTL

(* A mutex that has been destroyed is held by nobody.                      *)
THEOREM MutexNotUsedAfterFree == Spec /\ kind = "mutex" => []NoUseAfterFree
<1>1. kind = "mutex" /\ Mutex!MutexInv => NoUseAfterFree
  BY DEF NoUseAfterFree, Mutex!NoUseAfterFree, Mutex!MutexInv, Mutex!UsedOnceMade,
         Mutex!TypeOK, Mutex!Holds
<1> QED  BY <1>1, MutexBehaviour, PTL

(* The mutex implements Exclusion, with the threads that hold it, or have  *)
(* got it and not yet claimed it, as the ones inside.                      *)
THEOREM MutexExclusion == Spec /\ kind = "mutex" => ImplementsExclusion
<1>1. kind = "mutex" => Writers = Mutex!Inside /\ Readers = {}
  BY DEF Writers, Readers
<1>2. Init /\ kind = "mutex" => Excl!Init
  <2> SUFFICES ASSUME Mutex!Init PROVE Mutex!Inside = {}
    BY <1>1 DEF Init, Excl!Init
  <2> QED  BY DEF Mutex!Init, Mutex!Inside, Mutex!Holds
<1>3. /\ kind = "mutex" /\ Mutex!MutexInv /\ (kind = "mutex" /\ Mutex!MutexInv)'
      /\ [Next]_vars
      => [Excl!Next]_<<Writers, Readers>>
  <2> SUFFICES ASSUME kind = "mutex", kind' = "mutex", Mutex!MutexInv, Mutex!MutexInv',
                      [Next]_vars
               PROVE  [Excl!Next]_<<Writers, Readers>>
    OBVIOUS
  <2>1. /\ Writers = Mutex!Inside /\ Writers' = Mutex!Inside'
        /\ Readers = {} /\ Readers' = {}
    BY DEF Writers, Readers
  <2>2. CASE Mutex!Next
    <3>1. CASE Mutex!Inside' = Mutex!Inside
      BY <3>1, <2>1
    <3>2. ASSUME NEW t \in Thread, Mutex!Inside = {}, Mutex!Inside' = {t}
          PROVE  Excl!Next
      BY <3>2, <2>1 DEF Excl!Next, Excl!Write
    <3>3. ASSUME NEW t \in Thread, Mutex!Inside = {t}, Mutex!Inside' = {}
          PROVE  Excl!Next
      BY <3>3, <2>1 DEF Excl!Next, Excl!Leave
    <3> QED  BY <2>2, <3>1, <3>2, <3>3, MutexExcludes
  <2>3. CASE UNCHANGED <<obj, pc, loc>>
    <3>1. Mutex!Inside' = Mutex!Inside
      BY <2>3 DEF Mutex!Inside, Mutex!Holds
    <3> QED  BY <3>1, <2>1
  <2> QED  BY <2>2, <2>3 DEF Next, vars
<1> QED  BY <1>2, <1>3, MutexBehaviour, PTL DEF Spec, ImplementsExclusion, Excl!Spec

-----------------------------------------------------------------------------
(* The semaphore.                                                          *)

SemObject == [sem: {"live", "null"}, freed: BOOLEAN, value: Int,
              lock: Thread \cup {Sem!NOBODY}, w32: Int]

Results == {"0", "EINVAL", "EAGAIN", "ERANGE", "ETIMEDOUT", "CANCELED", "TAKEN", "EBUSY"}

SemCalls == [op: Sem!Ops \cup {"none", "sem_destroy"}, count: 0..2, result: Results]

(* The thread t goes on at label l of a semaphore's calls, and only it.    *)
SemAt(t, l) == /\ pc' \in [Thread -> Sem!Labels]
               /\ pc'[t] = l
               /\ \A u \in Thread : u # t => pc'[u] = pc[u]

(* What a jump to a label does.                                            *)
LEMMA SemGoes ==
  ASSUME Sem!TypeOK, NEW t \in Thread, NEW l \in Sem!Labels, Sem!Goto(t, l)
  PROVE SemAt(t, l)
  BY DEF Sem!TypeOK, Sem!Goto, SemAt

(* The call of t is of op, for so many posts, with this result.            *)
SemCall(t, op, count, result) ==
  /\ loc' \in [Thread -> SemCalls]
  /\ loc'[t].op = op /\ loc'[t].count = count /\ loc'[t].result = result
  /\ \A u \in Thread : u # t => loc'[u] = loc[u]

(* What setting the result of a call does, or leaving it.                  *)
LEMMA SemResults ==
  ASSUME Sem!TypeOK, NEW t \in Thread
  PROVE /\ UNCHANGED loc => SemCall(t, loc[t].op, loc[t].count, loc[t].result)
        /\ \A r \in Results : Sem!Result(t, r) => SemCall(t, loc[t].op, loc[t].count, r)
<1>0. loc \in [Thread -> SemCalls]
  BY DEF Sem!TypeOK, SemCalls, Results
<1>1. ASSUME NEW r \in Results, Sem!Result(t, r)
      PROVE  SemCall(t, loc[t].op, loc[t].count, r)
  BY <1>0, <1>1 DEF Sem!Result, SemCalls, SemCall
<1>2. UNCHANGED loc => SemCall(t, loc[t].op, loc[t].count, loc[t].result)
  BY <1>0 DEF SemCall
<1> QED  BY <1>1, <1>2

(* The fields of the semaphore after a step.                               *)
SemFields(sem, freed, value, lock, w32) ==
  /\ obj' \in SemObject
  /\ obj'.sem = sem /\ obj'.freed = freed /\ obj'.value = value
  /\ obj'.lock = lock /\ obj'.w32 = w32

(* What each assignment to the semaphore changes.                          *)
LEMMA SemObjects ==
  ASSUME Sem!TypeOK
  PROVE /\ UNCHANGED obj => SemFields(obj.sem, obj.freed, obj.value, obj.lock, obj.w32)
        /\ \A u \in Thread \cup {Sem!NOBODY} : obj' = [obj EXCEPT !.lock = u] =>
             SemFields(obj.sem, obj.freed, obj.value, u, obj.w32)
        /\ \A v \in Int, u \in Thread \cup {Sem!NOBODY} :
             obj' = [obj EXCEPT !.value = v, !.lock = u] =>
               SemFields(obj.sem, obj.freed, v, u, obj.w32)
        /\ \A w \in Int, u \in Thread \cup {Sem!NOBODY} :
             obj' = [obj EXCEPT !.w32 = w, !.lock = u] =>
               SemFields(obj.sem, obj.freed, obj.value, u, w)
        /\ \A v, w \in Int, u \in Thread \cup {Sem!NOBODY} :
             obj' = [obj EXCEPT !.value = v, !.lock = u, !.w32 = w] =>
               SemFields(obj.sem, obj.freed, v, u, w)
        /\ \A w \in Int : obj' = [obj EXCEPT !.w32 = w] =>
             SemFields(obj.sem, obj.freed, obj.value, obj.lock, w)
        /\ obj' = [obj EXCEPT !.sem = "null"] =>
             SemFields("null", obj.freed, obj.value, obj.lock, obj.w32)
        /\ obj' = [obj EXCEPT !.freed = TRUE] =>
             SemFields(obj.sem, TRUE, obj.value, obj.lock, obj.w32)
<1>0. obj \in SemObject
  BY DEF Sem!TypeOK, SemObject
<1>1. UNCHANGED obj => SemFields(obj.sem, obj.freed, obj.value, obj.lock, obj.w32)
  BY <1>0 DEF SemFields
<1>2. ASSUME NEW u \in Thread \cup {Sem!NOBODY}, obj' = [obj EXCEPT !.lock = u]
      PROVE  SemFields(obj.sem, obj.freed, obj.value, u, obj.w32)
  BY <1>0, <1>2 DEF SemObject, SemFields
<1>3. ASSUME NEW v \in Int, NEW u \in Thread \cup {Sem!NOBODY},
             obj' = [obj EXCEPT !.value = v, !.lock = u]
      PROVE  SemFields(obj.sem, obj.freed, v, u, obj.w32)
  BY <1>0, <1>3 DEF SemObject, SemFields
<1>4. ASSUME NEW w \in Int, NEW u \in Thread \cup {Sem!NOBODY},
             obj' = [obj EXCEPT !.w32 = w, !.lock = u]
      PROVE  SemFields(obj.sem, obj.freed, obj.value, u, w)
  BY <1>0, <1>4 DEF SemObject, SemFields
<1>5. ASSUME NEW v \in Int, NEW w \in Int, NEW u \in Thread \cup {Sem!NOBODY},
             obj' = [obj EXCEPT !.value = v, !.lock = u, !.w32 = w]
      PROVE  SemFields(obj.sem, obj.freed, v, u, w)
  BY <1>0, <1>5 DEF SemObject, SemFields
<1>6. ASSUME NEW w \in Int, obj' = [obj EXCEPT !.w32 = w]
      PROVE  SemFields(obj.sem, obj.freed, obj.value, obj.lock, w)
  BY <1>0, <1>6 DEF SemObject, SemFields
<1>7. ASSUME obj' = [obj EXCEPT !.sem = "null"]
      PROVE  SemFields("null", obj.freed, obj.value, obj.lock, obj.w32)
  BY <1>0, <1>7 DEF SemObject, SemFields
<1>8. ASSUME obj' = [obj EXCEPT !.freed = TRUE]
      PROVE  SemFields(obj.sem, TRUE, obj.value, obj.lock, obj.w32)
  BY <1>0, <1>8 DEF SemObject, SemFields
<1> QED  BY <1>1, <1>2, <1>3, <1>4, <1>5, <1>6, <1>7, <1>8

(* Cardinality is that of the semaphore's module.                          *)
LEMMA SemCardinality ==
  ASSUME NEW S PROVE Sem!Cardinality(S) = Cardinality(S)
  BY DEF Sem!Cardinality, Cardinality

(* What the number of those that wait is to be.                            *)
Owed == obj.w32 + (IF obj.value < 0 THEN -obj.value ELSE 0)

(* WaitersCounted in these words, before and after a step.                 *)
LEMMA SemOwed ==
  /\ Sem!WaitersCounted <=> Cardinality(Sem!Waiters) = Owed
  /\ Sem!WaitersCounted' <=> Cardinality(Sem!Waiters)' = Owed'
<1>1. Sem!Cardinality(Sem!Waiters) = Cardinality(Sem!Waiters)
  BY SemCardinality
<1>2. Sem!Cardinality(Sem!Waiters') = Cardinality(Sem!Waiters')
  BY SemCardinality
<1> QED  BY <1>1, <1>2 DEF Sem!WaitersCounted, Owed

(* How many threads wait.                                                  *)
LEMMA SemWaiters ==
  /\ IsFiniteSet(Sem!Waiters) /\ Cardinality(Sem!Waiters) \in 0..Cardinality(Thread)
  /\ Cardinality(Thread) \in Nat
<1>1. Sem!Waiters \subseteq Thread
  BY DEF Sem!Waiters
<1> QED  BY <1>1, ThreadAssumption, FS_Subset, FS_CardinalityType

(* One thread begins to wait, or ends, or neither.                         *)
LEMMA SemWaitersChange ==
  ASSUME NEW t \in Thread, NEW l, SemAt(t, l)
  PROVE LET waits == l \in {"blocked", "cleanup", "cleaning"} IN
        Cardinality(Sem!Waiters)' =
          IF waits = (t \in Sem!Waiters) THEN Cardinality(Sem!Waiters)
          ELSE IF waits THEN Cardinality(Sem!Waiters) + 1
                        ELSE Cardinality(Sem!Waiters) - 1
<1> DEFINE waits == l \in {"blocked", "cleanup", "cleaning"}
           W == Sem!Waiters
<1>1. IsFiniteSet(W)
  BY SemWaiters
<1>2. W' = IF waits THEN W \cup {t} ELSE W \ {t}
  BY DEF SemAt, Sem!Waiters
<1>3. /\ t \notin W => Cardinality(W \cup {t}) = Cardinality(W) + 1
      /\ t \in W => Cardinality(W \ {t}) = Cardinality(W) - 1
  BY <1>1, FS_AddElement, FS_RemoveElement
<1>4. CASE waits /\ t \in W
  <2>1. W' = W
    BY <1>2, <1>4
  <2> QED  BY <1>4, <2>1
<1>5. CASE ~waits /\ t \notin W
  <2>1. W' = W
    BY <1>2, <1>5
  <2> QED  BY <1>5, <2>1
<1>6. CASE waits /\ t \notin W
  BY <1>2, <1>3, <1>6
<1>7. CASE ~waits /\ t \in W
  BY <1>2, <1>3, <1>7
<1> QED  BY <1>4, <1>5, <1>6, <1>7

(* A step with these effects keeps the types: the bounds of the count and  *)
(* of the wake-ups follow from the number of those that wait.              *)
LEMMA SemTyped ==
  ASSUME NEW t \in Thread, NEW l, SemAt(t, l), NEW op, NEW n, NEW r, SemCall(t, op, n, r),
         obj' \in SemObject, obj'.value <= SEM_VALUE_MAX, obj'.w32 >= 0,
         Sem!WaitersCounted'
  PROVE Sem!TypeOK'
<1> DEFINE N == Cardinality(Thread)
           c == Cardinality(Sem!Waiters')
<1>1. c \in 0..N /\ N \in Nat
  <2>1. Sem!Waiters' \subseteq Thread
    BY DEF Sem!Waiters
  <2> QED  BY <2>1, ThreadAssumption, FS_Subset, FS_CardinalityType
<1>2. obj'.value \in Int /\ obj'.w32 \in Int
  BY DEF SemObject
<1>3. c = obj'.w32 + (IF obj'.value < 0 THEN -obj'.value ELSE 0)
  BY SemOwed DEF Owed
<1>4. obj'.value \in -N..SEM_VALUE_MAX /\ obj'.w32 \in 0..N
  <2> HIDE DEF N, c
  <2> QED  BY <1>1, <1>2, <1>3, BoundAssumption
<1>5. Sem!Cardinality(Thread) = N
  BY SemCardinality
<1>6. obj' \in [sem: {"live", "null"}, freed: BOOLEAN, value: -N..SEM_VALUE_MAX,
                lock: Thread \cup {Sem!NOBODY}, w32: 0..N]
  BY <1>4 DEF SemObject
<1>7. /\ pc' \in [Thread -> Sem!Labels]
      /\ loc' \in [Thread -> SemCalls]
  BY DEF SemAt, SemCall
<1> QED  BY <1>5, <1>6, <1>7 DEF SemCalls, Results, Sem!TypeOK

(* The numbers of a typed semaphore.                                       *)
SemValues == /\ obj.value \in Int /\ obj.value <= SEM_VALUE_MAX
             /\ obj.w32 \in Int /\ obj.w32 >= 0
             /\ SEM_VALUE_MAX \in Int /\ SEM_VALUE_MAX > 1
             /\ Cardinality(Sem!Waiters) \in Int
             /\ Cardinality(Sem!Waiters) = Owed

(* The invariant has all that the arithmetic of a step needs.              *)
LEMMA SemValuesAre == Sem!SemInv => SemValues
<1> SUFFICES ASSUME Sem!TypeOK, Sem!WaitersCounted PROVE SemValues
  BY DEF Sem!SemInv
<1>1. Cardinality(Sem!Waiters) \in Int /\ Cardinality(Thread) \in Nat
  BY SemWaiters
<1>2. Cardinality(Sem!Waiters) = Owed
  BY SemOwed
<1>3. Sem!Cardinality(Thread) = Cardinality(Thread)
  BY SemCardinality
<1>4. /\ obj.value \in -Cardinality(Thread)..SEM_VALUE_MAX
      /\ obj.w32 \in 0..Cardinality(Thread)
  BY <1>3 DEF Sem!TypeOK
<1>5. /\ obj.value \in Int /\ obj.value <= SEM_VALUE_MAX
      /\ obj.w32 \in Int /\ obj.w32 >= 0
  BY <1>1, <1>4, BoundAssumption
<1> QED  BY <1>1, <1>2, <1>5, BoundAssumption, SyncAssumption DEF SemValues

(* What a step of thread t is to a counting semaphore: units are added, or *)
(* none; t takes one and is told so; or t is told nothing any more.        *)
UnitsStep(t) ==
  \/ /\ \E n \in 0..SEM_VALUE_MAX : Sem!Count' = Sem!Count + n
     /\ Sem!Granted' = Sem!Granted
  \/ /\ Sem!Count' = Sem!Count - 1 /\ Sem!Count > 0
     /\ t \notin Sem!Granted /\ Sem!Granted' = Sem!Granted \cup {t}
  \/ /\ Sem!Count' = Sem!Count
     /\ Sem!Granted' = Sem!Granted \ {t}

(* A call begins; of a semaphore that is no more it is over.               *)
LEMMA SemCallBegins ==
  ASSUME Sem!SemInv, NEW t \in Thread, Sem!Call(t) PROVE Sem!SemInv' /\ UnitsStep(t)
<1>0. Sem!TypeOK
  BY DEF Sem!SemInv
<1>v. SemValues
  BY SemValuesAre
<1>1. pc[t] = "idle"
  BY DEF Sem!Call
<1>2. SemFields(obj.sem, obj.freed, obj.value, obj.lock, obj.w32)
  BY <1>0, SemObjects DEF Sem!Call
<1>3. PICK op \in Sem!Ops, k \in 1..2 :
        loc' = [loc EXCEPT ![t] = [op |-> op, count |-> k,
                  result |-> IF obj.sem = "null" THEN "EINVAL" ELSE "0"]]
  BY DEF Sem!Call
<1> DEFINE r == IF obj.sem = "null" THEN "EINVAL" ELSE "0"
<1>4. SemCall(t, op, k, r)
  BY <1>0, <1>3 DEF Sem!TypeOK, SemCalls, Results, SemCall
<1>5. CASE obj.sem = "null"
  <2>1. SemAt(t, "returned") /\ SemCall(t, op, k, "EINVAL")
    BY <1>0, <1>4, <1>5, SemGoes DEF Sem!Call, Sem!Labels
  <2>w. Cardinality(Sem!Waiters)' = Cardinality(Sem!Waiters)
    BY <1>1, <1>2, <1>5, <2>1, SemWaitersChange DEF Sem!Waiters
  <2>d. Cardinality(Sem!Waiters)' = Owed'
    BY <1>1, <1>2, <1>5, <2>1, <1>v, <2>w DEF SemValues, Owed, SemFields
  <2>c. Sem!WaitersCounted'
    BY <2>d, SemOwed
  <2>o. Sem!TypeOK'
    BY <1>1, <1>2, <1>5, <2>1, <1>v, <2>c, SemTyped DEF SemValues, SemAt, SemCall, SemFields
  <2>l. Sem!Locked'
    BY <1>1, <1>2, <1>5, <2>1, ThreadAssumption DEF SemAt, SemCall, SemFields, Sem!SemInv, Sem!Locked, Sem!NOBODY
  <2>i. Sem!InItsCall'
    BY <1>1, <1>2, <1>5, <2>1 DEF SemAt, SemCall, SemFields, Sem!SemInv, Sem!InItsCall
  <2>p. Sem!NobodyPosts'
    BY <1>1, <1>2, <1>5, <2>1 DEF SemAt, SemCall, SemFields, Sem!SemInv, Sem!NobodyPosts
  <2>f. Sem!NoUseAfterFree'
    BY <1>1, <1>2, <1>5, <2>1 DEF SemAt, SemCall, SemFields, Sem!SemInv, Sem!NoUseAfterFree, Sem!NobodyPosts
  <2>g. Sem!Granted' = Sem!Granted
    BY <1>1, <1>2, <1>5, <2>1 DEF SemAt, SemCall, SemFields, Sem!SemInv, Sem!InItsCall, Sem!Granted, Sem!WaitOps
  <2>u. \E n \in 0..SEM_VALUE_MAX : Sem!Count' = Sem!Count + n
    BY <1>1, <1>2, <1>5, <2>1, <1>v DEF SemValues, SemAt, SemCall, SemFields, Sem!Count
  <2>s. UnitsStep(t)
    BY <2>g, <2>u DEF UnitsStep
  <2> QED  BY <2>c, <2>o, <2>l, <2>i, <2>p, <2>f, <2>s DEF Sem!SemInv
<1>6. CASE obj.sem # "null"
  <2>1. SemAt(t, "lock") /\ SemCall(t, op, k, "0")
    BY <1>0, <1>4, <1>6, SemGoes DEF Sem!Call, Sem!Labels
  <2>w. Cardinality(Sem!Waiters)' = Cardinality(Sem!Waiters)
    BY <1>1, <1>2, <1>6, <2>1, SemWaitersChange DEF Sem!Waiters
  <2>d. Cardinality(Sem!Waiters)' = Owed'
    BY <1>1, <1>2, <1>6, <2>1, <1>v, <2>w DEF SemValues, Owed, SemFields
  <2>c. Sem!WaitersCounted'
    BY <2>d, SemOwed
  <2>o. Sem!TypeOK'
    BY <1>1, <1>2, <1>6, <2>1, <1>v, <2>c, SemTyped DEF SemValues, SemAt, SemCall, SemFields
  <2>l. Sem!Locked'
    BY <1>1, <1>2, <1>6, <2>1, ThreadAssumption DEF SemAt, SemCall, SemFields, Sem!SemInv, Sem!Locked, Sem!NOBODY
  <2>i. Sem!InItsCall'
    BY <1>1, <1>2, <1>6, <2>1 DEF SemAt, SemCall, SemFields, Sem!SemInv, Sem!InItsCall
  <2>p. Sem!NobodyPosts'
    BY <1>1, <1>2, <1>6, <2>1 DEF SemAt, SemCall, SemFields, Sem!SemInv, Sem!NobodyPosts
  <2>f. Sem!NoUseAfterFree'
    BY <1>1, <1>2, <1>6, <2>1 DEF SemAt, SemCall, SemFields, Sem!SemInv, Sem!NoUseAfterFree, Sem!NobodyPosts
  <2>g. Sem!Granted' = Sem!Granted
    BY <1>1, <1>2, <1>6, <2>1 DEF SemAt, SemCall, SemFields, Sem!SemInv, Sem!InItsCall, Sem!Granted, Sem!WaitOps
  <2>u. \E n \in 0..SEM_VALUE_MAX : Sem!Count' = Sem!Count + n
    BY <1>1, <1>2, <1>6, <2>1, <1>v DEF SemValues, SemAt, SemCall, SemFields, Sem!Count
  <2>s. UnitsStep(t)
    BY <2>g, <2>u DEF UnitsStep
  <2> QED  BY <2>c, <2>o, <2>l, <2>i, <2>p, <2>f, <2>s DEF Sem!SemInv
<1> QED  BY <1>5, <1>6

(* The mutex is taken by a thread that begins, or that gave up waiting.    *)
LEMMA SemLock ==
  ASSUME Sem!SemInv, NEW t \in Thread, Sem!Lock(t) PROVE Sem!SemInv' /\ UnitsStep(t)
<1>0. Sem!TypeOK
  BY DEF Sem!SemInv
<1>v. SemValues
  BY SemValuesAre
<1>1. obj.lock = Sem!NOBODY /\ SemFields(obj.sem, obj.freed, obj.value, t, obj.w32)
  BY <1>0, SemObjects DEF Sem!Lock
<1>2. SemCall(t, loc[t].op, loc[t].count, loc[t].result)
  BY <1>0, SemResults DEF Sem!Lock
<1>3. CASE pc[t] = "lock"
  <2>1. SemAt(t, "region")
    BY <1>0, <1>3, SemGoes DEF Sem!Lock, Sem!Labels
  <2>w. Cardinality(Sem!Waiters)' = Cardinality(Sem!Waiters)
    BY <1>1, <1>2, <1>3, <2>1, SemWaitersChange DEF Sem!Waiters
  <2>d. Cardinality(Sem!Waiters)' = Owed'
    BY <1>1, <1>2, <1>3, <2>1, <1>v, <2>w DEF SemValues, Owed, SemFields
  <2>c. Sem!WaitersCounted'
    BY <2>d, SemOwed
  <2>o. Sem!TypeOK'
    BY <1>1, <1>2, <1>3, <2>1, <1>v, <2>c, SemTyped DEF SemValues, SemAt, SemCall, SemFields
  <2>l. Sem!Locked'
    BY <1>1, <1>2, <1>3, <2>1, ThreadAssumption DEF SemAt, SemCall, SemFields, Sem!SemInv, Sem!Locked, Sem!NOBODY
  <2>i. Sem!InItsCall'
    BY <1>1, <1>2, <1>3, <2>1 DEF SemAt, SemCall, SemFields, Sem!SemInv, Sem!InItsCall
  <2>p. Sem!NobodyPosts'
    BY <1>1, <1>2, <1>3, <2>1 DEF SemAt, SemCall, SemFields, Sem!SemInv, Sem!NobodyPosts
  <2>f. Sem!NoUseAfterFree'
    BY <1>1, <1>2, <1>3, <2>1 DEF SemAt, SemCall, SemFields, Sem!SemInv, Sem!NoUseAfterFree, Sem!NobodyPosts
  <2>g. Sem!Granted' = Sem!Granted
    BY <1>1, <1>2, <1>3, <2>1 DEF SemAt, SemCall, SemFields, Sem!SemInv, Sem!InItsCall, Sem!Granted, Sem!WaitOps
  <2>u. \E n \in 0..SEM_VALUE_MAX : Sem!Count' = Sem!Count + n
    BY <1>1, <1>2, <1>3, <2>1, <1>v DEF SemValues, SemAt, SemCall, SemFields, Sem!Count
  <2>s. UnitsStep(t)
    BY <2>g, <2>u DEF UnitsStep
  <2> QED  BY <2>c, <2>o, <2>l, <2>i, <2>p, <2>f, <2>s DEF Sem!SemInv
<1>4. CASE pc[t] = "cleanup"
  <2>1. SemAt(t, "cleaning")
    BY <1>0, <1>4, SemGoes DEF Sem!Lock, Sem!Labels
  <2>w. Cardinality(Sem!Waiters)' = Cardinality(Sem!Waiters)
    BY <1>1, <1>2, <1>4, <2>1, SemWaitersChange DEF Sem!Waiters
  <2>d. Cardinality(Sem!Waiters)' = Owed'
    BY <1>1, <1>2, <1>4, <2>1, <1>v, <2>w DEF SemValues, Owed, SemFields
  <2>c. Sem!WaitersCounted'
    BY <2>d, SemOwed
  <2>o. Sem!TypeOK'
    BY <1>1, <1>2, <1>4, <2>1, <1>v, <2>c, SemTyped DEF SemValues, SemAt, SemCall, SemFields
  <2>l. Sem!Locked'
    BY <1>1, <1>2, <1>4, <2>1, ThreadAssumption DEF SemAt, SemCall, SemFields, Sem!SemInv, Sem!Locked, Sem!NOBODY
  <2>i. Sem!InItsCall'
    BY <1>1, <1>2, <1>4, <2>1 DEF SemAt, SemCall, SemFields, Sem!SemInv, Sem!InItsCall
  <2>p. Sem!NobodyPosts'
    BY <1>1, <1>2, <1>4, <2>1 DEF SemAt, SemCall, SemFields, Sem!SemInv, Sem!NobodyPosts
  <2>f. Sem!NoUseAfterFree'
    BY <1>1, <1>2, <1>4, <2>1 DEF SemAt, SemCall, SemFields, Sem!SemInv, Sem!NoUseAfterFree, Sem!NobodyPosts
  <2>g. Sem!Granted' = Sem!Granted
    BY <1>1, <1>2, <1>4, <2>1 DEF SemAt, SemCall, SemFields, Sem!SemInv, Sem!InItsCall, Sem!Granted, Sem!WaitOps
  <2>u. \E n \in 0..SEM_VALUE_MAX : Sem!Count' = Sem!Count + n
    BY <1>1, <1>2, <1>4, <2>1, <1>v DEF SemValues, SemAt, SemCall, SemFields, Sem!Count
  <2>s. UnitsStep(t)
    BY <2>g, <2>u DEF UnitsStep
  <2> QED  BY <2>c, <2>o, <2>l, <2>i, <2>p, <2>f, <2>s DEF Sem!SemInv
<1> QED  BY <1>3, <1>4 DEF Sem!Lock

(* A wait takes a unit that is there, or is counted as waiting.            *)
LEMMA SemWait ==
  ASSUME Sem!SemInv, NEW t \in Thread, Sem!Wait(t) PROVE Sem!SemInv' /\ UnitsStep(t)
<1>0. Sem!TypeOK
  BY DEF Sem!SemInv
<1>v. SemValues
  BY SemValuesAre
<1>1. /\ pc[t] = "region" /\ obj.lock = t /\ loc[t].result = "0"
      /\ loc[t].op \in Sem!WaitOps
  BY DEF Sem!Wait, Sem!Region, Sem!SemInv, Sem!Locked, Sem!InItsCall
<1>2. SemFields(obj.sem, obj.freed, obj.value - 1, Sem!NOBODY, obj.w32)
  <2>1. obj.value - 1 \in Int
    BY <1>v DEF SemValues
  <2> QED  BY <1>0, <2>1, SemObjects DEF Sem!Wait
<1>3. CASE obj.value - 1 < 0
  <2>1. SemAt(t, "blocked") /\ SemCall(t, loc[t].op, loc[t].count, loc[t].result)
    BY <1>0, <1>3, SemGoes, SemResults DEF Sem!Wait, Sem!Labels
  <2>w. Cardinality(Sem!Waiters)' = Cardinality(Sem!Waiters) + 1
    BY <1>1, <1>2, <1>3, <2>1, SemWaitersChange DEF Sem!Waiters
  <2>d. Cardinality(Sem!Waiters)' = Owed'
    BY <1>1, <1>2, <1>3, <2>1, <1>v, <2>w DEF SemValues, Owed, SemFields
  <2>c. Sem!WaitersCounted'
    BY <2>d, SemOwed
  <2>o. Sem!TypeOK'
    BY <1>1, <1>2, <1>3, <2>1, <1>v, <2>c, SemTyped DEF SemValues, SemAt, SemCall, SemFields
  <2>l. Sem!Locked'
    BY <1>1, <1>2, <1>3, <2>1, ThreadAssumption DEF SemAt, SemCall, SemFields, Sem!SemInv, Sem!Locked, Sem!NOBODY
  <2>i. Sem!InItsCall'
    BY <1>1, <1>2, <1>3, <2>1 DEF SemAt, SemCall, SemFields, Sem!SemInv, Sem!InItsCall
  <2>p. Sem!NobodyPosts'
    BY <1>1, <1>2, <1>3, <2>1 DEF SemAt, SemCall, SemFields, Sem!SemInv, Sem!NobodyPosts
  <2>f. Sem!NoUseAfterFree'
    BY <1>1, <1>2, <1>3, <2>1 DEF SemAt, SemCall, SemFields, Sem!SemInv, Sem!NoUseAfterFree, Sem!NobodyPosts
  <2>g. Sem!Granted' = Sem!Granted
    BY <1>1, <1>2, <1>3, <2>1 DEF SemAt, SemCall, SemFields, Sem!SemInv, Sem!InItsCall, Sem!Granted, Sem!WaitOps
  <2>u. \E n \in 0..SEM_VALUE_MAX : Sem!Count' = Sem!Count + n
    BY <1>1, <1>2, <1>3, <2>1, <1>v DEF SemValues, SemAt, SemCall, SemFields, Sem!Count
  <2>s. UnitsStep(t)
    BY <2>g, <2>u DEF UnitsStep
  <2> QED  BY <2>c, <2>o, <2>l, <2>i, <2>p, <2>f, <2>s DEF Sem!SemInv
<1>4. CASE ~(obj.value - 1 < 0)
  <2>1. SemAt(t, "returned") /\ SemCall(t, loc[t].op, loc[t].count, "0")
    BY <1>0, <1>4, SemGoes, SemResults DEF Sem!Wait, Sem!Finish, Sem!Labels, Results
  <2>w. Cardinality(Sem!Waiters)' = Cardinality(Sem!Waiters)
    BY <1>1, <1>2, <1>4, <2>1, SemWaitersChange DEF Sem!Waiters
  <2>d. Cardinality(Sem!Waiters)' = Owed'
    BY <1>1, <1>2, <1>4, <2>1, <1>v, <2>w DEF SemValues, Owed, SemFields
  <2>c. Sem!WaitersCounted'
    BY <2>d, SemOwed
  <2>o. Sem!TypeOK'
    BY <1>1, <1>2, <1>4, <2>1, <1>v, <2>c, SemTyped DEF SemValues, SemAt, SemCall, SemFields
  <2>l. Sem!Locked'
    BY <1>1, <1>2, <1>4, <2>1, ThreadAssumption DEF SemAt, SemCall, SemFields, Sem!SemInv, Sem!Locked, Sem!NOBODY
  <2>i. Sem!InItsCall'
    BY <1>1, <1>2, <1>4, <2>1 DEF SemAt, SemCall, SemFields, Sem!SemInv, Sem!InItsCall
  <2>p. Sem!NobodyPosts'
    BY <1>1, <1>2, <1>4, <2>1 DEF SemAt, SemCall, SemFields, Sem!SemInv, Sem!NobodyPosts
  <2>f. Sem!NoUseAfterFree'
    BY <1>1, <1>2, <1>4, <2>1 DEF SemAt, SemCall, SemFields, Sem!SemInv, Sem!NoUseAfterFree, Sem!NobodyPosts
  <2>g. Sem!Granted' = Sem!Granted \cup {t} /\ t \notin Sem!Granted
    BY <1>1, <1>2, <1>4, <2>1 DEF SemAt, SemCall, SemFields, Sem!SemInv, Sem!InItsCall, Sem!Granted, Sem!WaitOps
  <2>u. Sem!Count' = Sem!Count - 1 /\ Sem!Count > 0
    BY <1>1, <1>2, <1>4, <2>1, <1>v DEF SemValues, SemAt, SemCall, SemFields, Sem!Count
  <2>s. UnitsStep(t)
    BY <2>g, <2>u DEF UnitsStep
  <2> QED  BY <2>c, <2>o, <2>l, <2>i, <2>p, <2>f, <2>s DEF Sem!SemInv
<1> QED  BY <1>3, <1>4

(* sem_trywait takes a unit that is there, or none.                        *)
LEMMA SemTryWait ==
  ASSUME Sem!SemInv, NEW t \in Thread, Sem!TryWait(t) PROVE Sem!SemInv' /\ UnitsStep(t)
<1>0. Sem!TypeOK
  BY DEF Sem!SemInv
<1>v. SemValues
  BY SemValuesAre
<1>1. /\ pc[t] = "region" /\ obj.lock = t /\ loc[t].result = "0"
      /\ loc[t].op \in {"sem_trywait"}
  BY DEF Sem!TryWait, Sem!Region, Sem!SemInv, Sem!Locked, Sem!InItsCall
<1>3. CASE obj.value > 0
  <2>0. SemFields(obj.sem, obj.freed, obj.value - 1, Sem!NOBODY, obj.w32)
    <3>1. obj.value - 1 \in Int
      BY <1>v DEF SemValues
    <3> QED  BY <1>0, <1>3, <3>1, SemObjects DEF Sem!TryWait
  <2>1. SemAt(t, "returned") /\ SemCall(t, loc[t].op, loc[t].count, "0")
    BY <1>0, <1>3, SemGoes, SemResults DEF Sem!TryWait, Sem!Finish, Sem!Labels, Results
  <2>w. Cardinality(Sem!Waiters)' = Cardinality(Sem!Waiters)
    BY <1>1, <1>3, <2>0, <2>1, SemWaitersChange DEF Sem!Waiters
  <2>d. Cardinality(Sem!Waiters)' = Owed'
    BY <1>1, <1>3, <2>0, <2>1, <1>v, <2>w DEF SemValues, Owed, SemFields
  <2>c. Sem!WaitersCounted'
    BY <2>d, SemOwed
  <2>o. Sem!TypeOK'
    BY <1>1, <1>3, <2>0, <2>1, <1>v, <2>c, SemTyped DEF SemValues, SemAt, SemCall, SemFields
  <2>l. Sem!Locked'
    BY <1>1, <1>3, <2>0, <2>1, ThreadAssumption DEF SemAt, SemCall, SemFields, Sem!SemInv, Sem!Locked, Sem!NOBODY
  <2>i. Sem!InItsCall'
    BY <1>1, <1>3, <2>0, <2>1 DEF SemAt, SemCall, SemFields, Sem!SemInv, Sem!InItsCall
  <2>p. Sem!NobodyPosts'
    BY <1>1, <1>3, <2>0, <2>1 DEF SemAt, SemCall, SemFields, Sem!SemInv, Sem!NobodyPosts
  <2>f. Sem!NoUseAfterFree'
    BY <1>1, <1>3, <2>0, <2>1 DEF SemAt, SemCall, SemFields, Sem!SemInv, Sem!NoUseAfterFree, Sem!NobodyPosts
  <2>g. Sem!Granted' = Sem!Granted \cup {t} /\ t \notin Sem!Granted
    BY <1>1, <1>3, <2>0, <2>1 DEF SemAt, SemCall, SemFields, Sem!SemInv, Sem!InItsCall, Sem!Granted, Sem!WaitOps
  <2>u. Sem!Count' = Sem!Count - 1 /\ Sem!Count > 0
    BY <1>1, <1>3, <2>0, <2>1, <1>v DEF SemValues, SemAt, SemCall, SemFields, Sem!Count
  <2>s. UnitsStep(t)
    BY <2>g, <2>u DEF UnitsStep
  <2> QED  BY <2>c, <2>o, <2>l, <2>i, <2>p, <2>f, <2>s DEF Sem!SemInv
<1>4. CASE ~(obj.value > 0)
  <2>0. SemFields(obj.sem, obj.freed, obj.value, Sem!NOBODY, obj.w32)
    BY <1>0, <1>4, SemObjects DEF Sem!TryWait
  <2>1. SemAt(t, "returned") /\ SemCall(t, loc[t].op, loc[t].count, "EAGAIN")
    BY <1>0, <1>4, SemGoes, SemResults DEF Sem!TryWait, Sem!Finish, Sem!Labels, Results
  <2>w. Cardinality(Sem!Waiters)' = Cardinality(Sem!Waiters)
    BY <1>1, <1>4, <2>0, <2>1, SemWaitersChange DEF Sem!Waiters
  <2>d. Cardinality(Sem!Waiters)' = Owed'
    BY <1>1, <1>4, <2>0, <2>1, <1>v, <2>w DEF SemValues, Owed, SemFields
  <2>c. Sem!WaitersCounted'
    BY <2>d, SemOwed
  <2>o. Sem!TypeOK'
    BY <1>1, <1>4, <2>0, <2>1, <1>v, <2>c, SemTyped DEF SemValues, SemAt, SemCall, SemFields
  <2>l. Sem!Locked'
    BY <1>1, <1>4, <2>0, <2>1, ThreadAssumption DEF SemAt, SemCall, SemFields, Sem!SemInv, Sem!Locked, Sem!NOBODY
  <2>i. Sem!InItsCall'
    BY <1>1, <1>4, <2>0, <2>1 DEF SemAt, SemCall, SemFields, Sem!SemInv, Sem!InItsCall
  <2>p. Sem!NobodyPosts'
    BY <1>1, <1>4, <2>0, <2>1 DEF SemAt, SemCall, SemFields, Sem!SemInv, Sem!NobodyPosts
  <2>f. Sem!NoUseAfterFree'
    BY <1>1, <1>4, <2>0, <2>1 DEF SemAt, SemCall, SemFields, Sem!SemInv, Sem!NoUseAfterFree, Sem!NobodyPosts
  <2>g. Sem!Granted' = Sem!Granted
    BY <1>1, <1>4, <2>0, <2>1 DEF SemAt, SemCall, SemFields, Sem!SemInv, Sem!InItsCall, Sem!Granted, Sem!WaitOps
  <2>u. \E n \in 0..SEM_VALUE_MAX : Sem!Count' = Sem!Count + n
    BY <1>1, <1>4, <2>0, <2>1, <1>v DEF SemValues, SemAt, SemCall, SemFields, Sem!Count
  <2>s. UnitsStep(t)
    BY <2>g, <2>u DEF UnitsStep
  <2> QED  BY <2>c, <2>o, <2>l, <2>i, <2>p, <2>f, <2>s DEF Sem!SemInv
<1> QED  BY <1>3, <1>4

(* A post adds a unit, or a wake-up for one of those that wait.            *)
LEMMA SemPost ==
  ASSUME Sem!SemInv, NEW t \in Thread, Sem!Post(t) PROVE Sem!SemInv' /\ UnitsStep(t)
<1>0. Sem!TypeOK
  BY DEF Sem!SemInv
<1>v. SemValues
  BY SemValuesAre
<1>1. /\ pc[t] = "region" /\ obj.lock = t /\ loc[t].result = "0"
      /\ loc[t].op \in {"sem_post"}
  BY DEF Sem!Post, Sem!Region, Sem!SemInv, Sem!Locked, Sem!InItsCall
<1>3. CASE obj.value < SEM_VALUE_MAX
  <2> DEFINE w == IF obj.value + 1 <= 0 THEN obj.w32 + 1 ELSE obj.w32
  <2>0. SemFields(obj.sem, obj.freed, obj.value + 1, Sem!NOBODY, w)
    <3>1. obj.value + 1 \in Int /\ w \in Int
      BY <1>v DEF SemValues
    <3>2. obj' = [obj EXCEPT !.value = obj.value + 1, !.lock = Sem!NOBODY, !.w32 = w]
      BY <1>3 DEF Sem!Post
    <3> HIDE DEF w
    <3> QED  BY <1>0, <3>1, <3>2, SemObjects
  <2>1. SemAt(t, "returned") /\ SemCall(t, loc[t].op, loc[t].count, "0")
    BY <1>0, <1>3, SemGoes, SemResults DEF Sem!Post, Sem!Finish, Sem!Labels, Results
  <2>w. Cardinality(Sem!Waiters)' = Cardinality(Sem!Waiters)
    BY <1>1, <1>3, <2>0, <2>1, SemWaitersChange DEF Sem!Waiters
  <2>d. Cardinality(Sem!Waiters)' = Owed'
    BY <1>1, <1>3, <2>0, <2>1, <1>v, <2>w DEF SemValues, Owed, SemFields
  <2>c. Sem!WaitersCounted'
    BY <2>d, SemOwed
  <2>o. Sem!TypeOK'
    BY <1>1, <1>3, <2>0, <2>1, <1>v, <2>c, SemTyped DEF SemValues, SemAt, SemCall, SemFields
  <2>l. Sem!Locked'
    BY <1>1, <1>3, <2>0, <2>1, ThreadAssumption DEF SemAt, SemCall, SemFields, Sem!SemInv, Sem!Locked, Sem!NOBODY
  <2>i. Sem!InItsCall'
    BY <1>1, <1>3, <2>0, <2>1 DEF SemAt, SemCall, SemFields, Sem!SemInv, Sem!InItsCall
  <2>p. Sem!NobodyPosts'
    BY <1>1, <1>3, <2>0, <2>1 DEF SemAt, SemCall, SemFields, Sem!SemInv, Sem!NobodyPosts
  <2>f. Sem!NoUseAfterFree'
    BY <1>1, <1>3, <2>0, <2>1 DEF SemAt, SemCall, SemFields, Sem!SemInv, Sem!NoUseAfterFree, Sem!NobodyPosts
  <2>g. Sem!Granted' = Sem!Granted
    BY <1>1, <1>3, <2>0, <2>1 DEF SemAt, SemCall, SemFields, Sem!SemInv, Sem!InItsCall, Sem!Granted, Sem!WaitOps
  <2>u. \E n \in 0..SEM_VALUE_MAX : Sem!Count' = Sem!Count + n
    BY <1>1, <1>3, <2>0, <2>1, <1>v DEF SemValues, SemAt, SemCall, SemFields, Sem!Count
  <2>s. UnitsStep(t)
    BY <2>g, <2>u DEF UnitsStep
  <2> QED  BY <2>c, <2>o, <2>l, <2>i, <2>p, <2>f, <2>s DEF Sem!SemInv
<1>4. CASE ~(obj.value < SEM_VALUE_MAX)
  <2>0. SemFields(obj.sem, obj.freed, obj.value, Sem!NOBODY, obj.w32)
    BY <1>0, <1>4, SemObjects DEF Sem!Post
  <2>1. SemAt(t, "returned") /\ SemCall(t, loc[t].op, loc[t].count, "ERANGE")
    BY <1>0, <1>4, SemGoes, SemResults DEF Sem!Post, Sem!Finish, Sem!Labels, Results
  <2>w. Cardinality(Sem!Waiters)' = Cardinality(Sem!Waiters)
    BY <1>1, <1>4, <2>0, <2>1, SemWaitersChange DEF Sem!Waiters
  <2>d. Cardinality(Sem!Waiters)' = Owed'
    BY <1>1, <1>4, <2>0, <2>1, <1>v, <2>w DEF SemValues, Owed, SemFields
  <2>c. Sem!WaitersCounted'
    BY <2>d, SemOwed
  <2>o. Sem!TypeOK'
    BY <1>1, <1>4, <2>0, <2>1, <1>v, <2>c, SemTyped DEF SemValues, SemAt, SemCall, SemFields
  <2>l. Sem!Locked'
    BY <1>1, <1>4, <2>0, <2>1, ThreadAssumption DEF SemAt, SemCall, SemFields, Sem!SemInv, Sem!Locked, Sem!NOBODY
  <2>i. Sem!InItsCall'
    BY <1>1, <1>4, <2>0, <2>1 DEF SemAt, SemCall, SemFields, Sem!SemInv, Sem!InItsCall
  <2>p. Sem!NobodyPosts'
    BY <1>1, <1>4, <2>0, <2>1 DEF SemAt, SemCall, SemFields, Sem!SemInv, Sem!NobodyPosts
  <2>f. Sem!NoUseAfterFree'
    BY <1>1, <1>4, <2>0, <2>1 DEF SemAt, SemCall, SemFields, Sem!SemInv, Sem!NoUseAfterFree, Sem!NobodyPosts
  <2>g. Sem!Granted' = Sem!Granted
    BY <1>1, <1>4, <2>0, <2>1 DEF SemAt, SemCall, SemFields, Sem!SemInv, Sem!InItsCall, Sem!Granted, Sem!WaitOps
  <2>u. \E n \in 0..SEM_VALUE_MAX : Sem!Count' = Sem!Count + n
    BY <1>1, <1>4, <2>0, <2>1, <1>v DEF SemValues, SemAt, SemCall, SemFields, Sem!Count
  <2>s. UnitsStep(t)
    BY <2>g, <2>u DEF UnitsStep
  <2> QED  BY <2>c, <2>o, <2>l, <2>i, <2>p, <2>f, <2>s DEF Sem!SemInv
<1> QED  BY <1>3, <1>4

(* sem_post_multiple adds units, or wake-ups for as many of those that     *)
(* wait.                                                                   *)
LEMMA SemPostMultiple ==
  ASSUME Sem!SemInv, NEW t \in Thread, Sem!PostMultiple(t) PROVE Sem!SemInv' /\ UnitsStep(t)
<1>0. Sem!TypeOK
  BY DEF Sem!SemInv
<1>v. SemValues
  BY SemValuesAre
<1>1. /\ pc[t] = "region" /\ obj.lock = t /\ loc[t].result = "0"
      /\ loc[t].op \in {"sem_post_multiple"}
  BY DEF Sem!PostMultiple, Sem!Region, Sem!SemInv, Sem!Locked, Sem!InItsCall
<1> DEFINE k == loc[t].count
<1>2. k \in 1..2
  BY <1>1 DEF Sem!SemInv, Sem!InItsCall
<1>3. CASE obj.value <= SEM_VALUE_MAX - k
  <2> DEFINE w == IF obj.value < 0 THEN obj.w32 + Sem!Released(-obj.value, k) ELSE obj.w32
  <2>0. SemFields(obj.sem, obj.freed, obj.value + k, Sem!NOBODY, w)
    <3>1. obj.value + k \in Int /\ w \in Int
      BY <1>v, <1>2 DEF SemValues, Sem!Released
    <3>2. obj' = [obj EXCEPT !.value = obj.value + k, !.lock = Sem!NOBODY, !.w32 = w]
      BY <1>3 DEF Sem!PostMultiple
    <3> HIDE DEF w, k
    <3> QED  BY <1>0, <3>1, <3>2, SemObjects
  <2>1. SemAt(t, "returned") /\ SemCall(t, loc[t].op, loc[t].count, "0")
    BY <1>0, <1>3, SemGoes, SemResults DEF Sem!PostMultiple, Sem!Finish, Sem!Labels, Results
  <2>2. w = IF obj.value < 0 THEN obj.w32 + (IF -obj.value <= k THEN -obj.value ELSE k)
                             ELSE obj.w32
    BY DEF Sem!Released
  <2> HIDE DEF w, k
  <2>w. Cardinality(Sem!Waiters)' = Cardinality(Sem!Waiters)
    BY <1>1, <1>2, <1>3, <2>0, <2>1, <2>2, SemWaitersChange DEF Sem!Waiters
  <2>d. Cardinality(Sem!Waiters)' = Owed'
    BY <1>1, <1>2, <1>3, <2>0, <2>1, <2>2, <1>v, <2>w DEF SemValues, Owed, SemFields
  <2>c. Sem!WaitersCounted'
    BY <2>d, SemOwed
  <2>o. Sem!TypeOK'
    BY <1>1, <1>2, <1>3, <2>0, <2>1, <2>2, <1>v, <2>c, SemTyped DEF SemValues, SemAt, SemCall, SemFields
  <2>l. Sem!Locked'
    BY <1>1, <1>2, <1>3, <2>0, <2>1, <2>2, ThreadAssumption DEF SemAt, SemCall, SemFields, Sem!SemInv, Sem!Locked, Sem!NOBODY
  <2>i. Sem!InItsCall'
    BY <1>1, <1>2, <1>3, <2>0, <2>1, <2>2 DEF SemAt, SemCall, SemFields, Sem!SemInv, Sem!InItsCall
  <2>p. Sem!NobodyPosts'
    BY <1>1, <1>2, <1>3, <2>0, <2>1, <2>2 DEF SemAt, SemCall, SemFields, Sem!SemInv, Sem!NobodyPosts
  <2>f. Sem!NoUseAfterFree'
    BY <1>1, <1>2, <1>3, <2>0, <2>1, <2>2 DEF SemAt, SemCall, SemFields, Sem!SemInv, Sem!NoUseAfterFree, Sem!NobodyPosts
  <2>g. Sem!Granted' = Sem!Granted
    BY <1>1, <1>2, <1>3, <2>0, <2>1, <2>2 DEF SemAt, SemCall, SemFields, Sem!SemInv, Sem!InItsCall, Sem!Granted, Sem!WaitOps
  <2>u. \E n \in 0..SEM_VALUE_MAX : Sem!Count' = Sem!Count + n
    BY <1>1, <1>2, <1>3, <2>0, <2>1, <2>2, <1>v DEF SemValues, SemAt, SemCall, SemFields, Sem!Count
  <2>s. UnitsStep(t)
    BY <2>g, <2>u DEF UnitsStep
  <2> QED  BY <2>c, <2>o, <2>l, <2>i, <2>p, <2>f, <2>s DEF Sem!SemInv
<1>4. CASE ~(obj.value <= SEM_VALUE_MAX - k)
  <2>0. SemFields(obj.sem, obj.freed, obj.value, Sem!NOBODY, obj.w32)
    BY <1>0, <1>4, SemObjects DEF Sem!PostMultiple
  <2>1. SemAt(t, "returned") /\ SemCall(t, loc[t].op, loc[t].count, "ERANGE")
    BY <1>0, <1>4, SemGoes, SemResults DEF Sem!PostMultiple, Sem!Finish, Sem!Labels, Results
  <2>w. Cardinality(Sem!Waiters)' = Cardinality(Sem!Waiters)
    BY <1>1, <1>4, <2>0, <2>1, SemWaitersChange DEF Sem!Waiters
  <2>d. Cardinality(Sem!Waiters)' = Owed'
    BY <1>1, <1>4, <2>0, <2>1, <1>v, <2>w DEF SemValues, Owed, SemFields
  <2>c. Sem!WaitersCounted'
    BY <2>d, SemOwed
  <2>o. Sem!TypeOK'
    BY <1>1, <1>4, <2>0, <2>1, <1>v, <2>c, SemTyped DEF SemValues, SemAt, SemCall, SemFields
  <2>l. Sem!Locked'
    BY <1>1, <1>4, <2>0, <2>1, ThreadAssumption DEF SemAt, SemCall, SemFields, Sem!SemInv, Sem!Locked, Sem!NOBODY
  <2>i. Sem!InItsCall'
    BY <1>1, <1>4, <2>0, <2>1 DEF SemAt, SemCall, SemFields, Sem!SemInv, Sem!InItsCall
  <2>p. Sem!NobodyPosts'
    BY <1>1, <1>4, <2>0, <2>1 DEF SemAt, SemCall, SemFields, Sem!SemInv, Sem!NobodyPosts
  <2>f. Sem!NoUseAfterFree'
    BY <1>1, <1>4, <2>0, <2>1 DEF SemAt, SemCall, SemFields, Sem!SemInv, Sem!NoUseAfterFree, Sem!NobodyPosts
  <2>g. Sem!Granted' = Sem!Granted
    BY <1>1, <1>4, <2>0, <2>1 DEF SemAt, SemCall, SemFields, Sem!SemInv, Sem!InItsCall, Sem!Granted, Sem!WaitOps
  <2>u. \E n \in 0..SEM_VALUE_MAX : Sem!Count' = Sem!Count + n
    BY <1>1, <1>4, <2>0, <2>1, <1>v DEF SemValues, SemAt, SemCall, SemFields, Sem!Count
  <2>s. UnitsStep(t)
    BY <2>g, <2>u DEF UnitsStep
  <2> QED  BY <2>c, <2>o, <2>l, <2>i, <2>p, <2>f, <2>s DEF Sem!SemInv
<1> QED  BY <1>3, <1>4

(* sem_getvalue changes nothing.                                           *)
LEMMA SemGetValue ==
  ASSUME Sem!SemInv, NEW t \in Thread, Sem!GetValue(t) PROVE Sem!SemInv' /\ UnitsStep(t)
<1>0. Sem!TypeOK
  BY DEF Sem!SemInv
<1>v. SemValues
  BY SemValuesAre
<1>1. /\ pc[t] = "region" /\ obj.lock = t /\ loc[t].result = "0"
      /\ loc[t].op \in {"sem_getvalue"}
  BY DEF Sem!GetValue, Sem!Region, Sem!SemInv, Sem!Locked, Sem!InItsCall
<1>2. SemFields(obj.sem, obj.freed, obj.value, Sem!NOBODY, obj.w32)
  BY <1>0, SemObjects DEF Sem!GetValue
<1>3. SemAt(t, "returned") /\ SemCall(t, loc[t].op, loc[t].count, "0")
  BY <1>0, SemGoes, SemResults DEF Sem!GetValue, Sem!Finish, Sem!Labels, Results
<1>w. Cardinality(Sem!Waiters)' = Cardinality(Sem!Waiters)
  BY <1>1, <1>2, <1>3, SemWaitersChange DEF Sem!Waiters
<1>d. Cardinality(Sem!Waiters)' = Owed'
  BY <1>1, <1>2, <1>3, <1>v, <1>w DEF SemValues, Owed, SemFields
<1>c. Sem!WaitersCounted'
  BY <1>d, SemOwed
<1>o. Sem!TypeOK'
  BY <1>1, <1>2, <1>3, <1>v, <1>c, SemTyped DEF SemValues, SemAt, SemCall, SemFields
<1>l. Sem!Locked'
  BY <1>1, <1>2, <1>3, ThreadAssumption DEF SemAt, SemCall, SemFields, Sem!SemInv, Sem!Locked, Sem!NOBODY
<1>i. Sem!InItsCall'
  BY <1>1, <1>2, <1>3 DEF SemAt, SemCall, SemFields, Sem!SemInv, Sem!InItsCall
<1>p. Sem!NobodyPosts'
  BY <1>1, <1>2, <1>3 DEF SemAt, SemCall, SemFields, Sem!SemInv, Sem!NobodyPosts
<1>f. Sem!NoUseAfterFree'
  BY <1>1, <1>2, <1>3 DEF SemAt, SemCall, SemFields, Sem!SemInv, Sem!NoUseAfterFree, Sem!NobodyPosts
<1>g. Sem!Granted' = Sem!Granted
  BY <1>1, <1>2, <1>3 DEF SemAt, SemCall, SemFields, Sem!SemInv, Sem!InItsCall, Sem!Granted, Sem!WaitOps
<1>u. \E n \in 0..SEM_VALUE_MAX : Sem!Count' = Sem!Count + n
  BY <1>1, <1>2, <1>3, <1>v DEF SemValues, SemAt, SemCall, SemFields, Sem!Count
<1>s. UnitsStep(t)
  BY <1>g, <1>u DEF UnitsStep
<1> QED  BY <1>c, <1>o, <1>l, <1>i, <1>p, <1>f, <1>s DEF Sem!SemInv

(* A thread that waits takes one of the wake-ups.                          *)
LEMMA SemWake ==
  ASSUME Sem!SemInv, NEW t \in Thread, Sem!Wake(t) PROVE Sem!SemInv' /\ UnitsStep(t)
<1>0. Sem!TypeOK
  BY DEF Sem!SemInv
<1>v. SemValues
  BY SemValuesAre
<1>1. pc[t] = "blocked" /\ obj.w32 > 0 /\ loc[t].op \in Sem!WaitOps
  BY DEF Sem!Wake, Sem!SemInv, Sem!InItsCall
<1>2. SemFields(obj.sem, obj.freed, obj.value, obj.lock, obj.w32 - 1)
  <2>1. obj.w32 - 1 \in Int
    BY <1>v DEF SemValues
  <2> QED  BY <1>0, <2>1, SemObjects DEF Sem!Wake
<1>3. SemAt(t, "returned") /\ SemCall(t, loc[t].op, loc[t].count, "0")
  BY <1>0, SemGoes, SemResults DEF Sem!Wake, Sem!Finish, Sem!Labels, Results
<1>w. Cardinality(Sem!Waiters)' = Cardinality(Sem!Waiters) - 1
  BY <1>1, <1>2, <1>3, SemWaitersChange DEF Sem!Waiters
<1>d. Cardinality(Sem!Waiters)' = Owed'
  BY <1>1, <1>2, <1>3, <1>v, <1>w DEF SemValues, Owed, SemFields
<1>c. Sem!WaitersCounted'
  BY <1>d, SemOwed
<1>o. Sem!TypeOK'
  BY <1>1, <1>2, <1>3, <1>v, <1>c, SemTyped DEF SemValues, SemAt, SemCall, SemFields
<1>l. Sem!Locked'
  BY <1>1, <1>2, <1>3, ThreadAssumption DEF SemAt, SemCall, SemFields, Sem!SemInv, Sem!Locked, Sem!NOBODY
<1>i. Sem!InItsCall'
  BY <1>1, <1>2, <1>3 DEF SemAt, SemCall, SemFields, Sem!SemInv, Sem!InItsCall
<1>p. Sem!NobodyPosts'
  BY <1>1, <1>2, <1>3 DEF SemAt, SemCall, SemFields, Sem!SemInv, Sem!NobodyPosts
<1>f. Sem!NoUseAfterFree'
  BY <1>1, <1>2, <1>3 DEF SemAt, SemCall, SemFields, Sem!SemInv, Sem!NoUseAfterFree, Sem!NobodyPosts
<1>g. Sem!Granted' = Sem!Granted \cup {t} /\ t \notin Sem!Granted
  BY <1>1, <1>2, <1>3 DEF SemAt, SemCall, SemFields, Sem!SemInv, Sem!InItsCall, Sem!Granted, Sem!WaitOps
<1>u. Sem!Count' = Sem!Count - 1 /\ Sem!Count > 0
  BY <1>1, <1>2, <1>3, <1>v DEF SemValues, SemAt, SemCall, SemFields, Sem!Count
<1>s. UnitsStep(t)
  BY <1>g, <1>u DEF UnitsStep
<1> QED  BY <1>c, <1>o, <1>l, <1>i, <1>p, <1>f, <1>s DEF Sem!SemInv

(* A thread that times out or is cancelled is still counted.               *)
LEMMA SemGiveUp ==
  ASSUME Sem!SemInv, NEW t \in Thread, Sem!GiveUp(t) PROVE Sem!SemInv' /\ UnitsStep(t)
<1>0. Sem!TypeOK
  BY DEF Sem!SemInv
<1>v. SemValues
  BY SemValuesAre
<1>1. pc[t] = "blocked" /\ loc[t].op \in Sem!WaitOps
  BY DEF Sem!GiveUp, Sem!SemInv, Sem!InItsCall
<1>2. SemFields(obj.sem, obj.freed, obj.value, obj.lock, obj.w32)
  BY <1>0, SemObjects DEF Sem!GiveUp
<1>3. SemAt(t, "cleanup")
  BY <1>0, SemGoes DEF Sem!GiveUp, Sem!Labels
<1>4. PICK r \in {"ETIMEDOUT", "CANCELED"} : SemCall(t, loc[t].op, loc[t].count, r)
  BY <1>0, SemResults DEF Sem!GiveUp, Results
<1>w. Cardinality(Sem!Waiters)' = Cardinality(Sem!Waiters)
  BY <1>1, <1>2, <1>3, <1>4, SemWaitersChange DEF Sem!Waiters
<1>d. Cardinality(Sem!Waiters)' = Owed'
  BY <1>1, <1>2, <1>3, <1>4, <1>v, <1>w DEF SemValues, Owed, SemFields
<1>c. Sem!WaitersCounted'
  BY <1>d, SemOwed
<1>o. Sem!TypeOK'
  BY <1>1, <1>2, <1>3, <1>4, <1>v, <1>c, SemTyped DEF SemValues, SemAt, SemCall, SemFields
<1>l. Sem!Locked'
  BY <1>1, <1>2, <1>3, <1>4, ThreadAssumption DEF SemAt, SemCall, SemFields, Sem!SemInv, Sem!Locked, Sem!NOBODY
<1>i. Sem!InItsCall'
  BY <1>1, <1>2, <1>3, <1>4 DEF SemAt, SemCall, SemFields, Sem!SemInv, Sem!InItsCall
<1>p. Sem!NobodyPosts'
  BY <1>1, <1>2, <1>3, <1>4 DEF SemAt, SemCall, SemFields, Sem!SemInv, Sem!NobodyPosts
<1>f. Sem!NoUseAfterFree'
  BY <1>1, <1>2, <1>3, <1>4 DEF SemAt, SemCall, SemFields, Sem!SemInv, Sem!NoUseAfterFree, Sem!NobodyPosts
<1>g. Sem!Granted' = Sem!Granted
  BY <1>1, <1>2, <1>3, <1>4 DEF SemAt, SemCall, SemFields, Sem!SemInv, Sem!InItsCall, Sem!Granted, Sem!WaitOps
<1>u. \E n \in 0..SEM_VALUE_MAX : Sem!Count' = Sem!Count + n
  BY <1>1, <1>2, <1>3, <1>4, <1>v DEF SemValues, SemAt, SemCall, SemFields, Sem!Count
<1>s. UnitsStep(t)
  BY <1>g, <1>u DEF UnitsStep
<1> QED  BY <1>c, <1>o, <1>l, <1>i, <1>p, <1>f, <1>s DEF Sem!SemInv

(* Before it leaves it takes a wake-up posted meanwhile, or is counted no  *)
(* more.                                                                   *)
LEMMA SemCleanup ==
  ASSUME Sem!SemInv, NEW t \in Thread, Sem!Cleanup(t) PROVE Sem!SemInv' /\ UnitsStep(t)
<1>0. Sem!TypeOK
  BY DEF Sem!SemInv
<1>v. SemValues
  BY SemValuesAre
<1>1. /\ pc[t] = "cleaning" /\ obj.lock = t /\ loc[t].op \in Sem!WaitOps
      /\ loc[t].result \in {"ETIMEDOUT", "CANCELED"}
  BY DEF Sem!Cleanup, Sem!SemInv, Sem!Locked, Sem!InItsCall
<1>2. SemAt(t, "returned")
  BY <1>0, SemGoes DEF Sem!Cleanup, Sem!Labels
<1>3. CASE obj.w32 > 0
  <2>0. SemFields(obj.sem, obj.freed, obj.value, Sem!NOBODY, obj.w32 - 1)
    <3>1. obj.w32 - 1 \in Int
      BY <1>v DEF SemValues
    <3> QED  BY <1>0, <1>3, <3>1, SemObjects DEF Sem!Cleanup, Sem!PostedMeanwhile
  <2>1. PICK r \in {"TAKEN", "0"} : SemCall(t, loc[t].op, loc[t].count, r)
    BY <1>0, <1>3, SemResults DEF Sem!Cleanup, Sem!PostedMeanwhile, Results
  <2>w. Cardinality(Sem!Waiters)' = Cardinality(Sem!Waiters) - 1
    BY <1>1, <1>2, <1>3, <2>0, <2>1, SemWaitersChange DEF Sem!Waiters
  <2>d. Cardinality(Sem!Waiters)' = Owed'
    BY <1>1, <1>2, <1>3, <2>0, <2>1, <1>v, <2>w DEF SemValues, Owed, SemFields
  <2>c. Sem!WaitersCounted'
    BY <2>d, SemOwed
  <2>o. Sem!TypeOK'
    BY <1>1, <1>2, <1>3, <2>0, <2>1, <1>v, <2>c, SemTyped DEF SemValues, SemAt, SemCall, SemFields
  <2>l. Sem!Locked'
    BY <1>1, <1>2, <1>3, <2>0, <2>1, ThreadAssumption DEF SemAt, SemCall, SemFields, Sem!SemInv, Sem!Locked, Sem!NOBODY
  <2>i. Sem!InItsCall'
    BY <1>1, <1>2, <1>3, <2>0, <2>1 DEF SemAt, SemCall, SemFields, Sem!SemInv, Sem!InItsCall
  <2>p. Sem!NobodyPosts'
    BY <1>1, <1>2, <1>3, <2>0, <2>1 DEF SemAt, SemCall, SemFields, Sem!SemInv, Sem!NobodyPosts
  <2>f. Sem!NoUseAfterFree'
    BY <1>1, <1>2, <1>3, <2>0, <2>1 DEF SemAt, SemCall, SemFields, Sem!SemInv, Sem!NoUseAfterFree, Sem!NobodyPosts
  <2>g. Sem!Granted' = Sem!Granted \cup {t} /\ t \notin Sem!Granted
    BY <1>1, <1>2, <1>3, <2>0, <2>1 DEF SemAt, SemCall, SemFields, Sem!SemInv, Sem!InItsCall, Sem!Granted, Sem!WaitOps
  <2>u. Sem!Count' = Sem!Count - 1 /\ Sem!Count > 0
    BY <1>1, <1>2, <1>3, <2>0, <2>1, <1>v DEF SemValues, SemAt, SemCall, SemFields, Sem!Count
  <2>s. UnitsStep(t)
    BY <2>g, <2>u DEF UnitsStep
  <2> QED  BY <2>c, <2>o, <2>l, <2>i, <2>p, <2>f, <2>s DEF Sem!SemInv
<1>4. CASE ~(obj.w32 > 0)
  <2>0. SemFields(obj.sem, obj.freed, obj.value + 1, Sem!NOBODY, obj.w32)
    <3>1. obj.value + 1 \in Int
      BY <1>v DEF SemValues
    <3> QED  BY <1>0, <1>4, <3>1, SemObjects DEF Sem!Cleanup, Sem!PostedMeanwhile
  <2>1. SemCall(t, loc[t].op, loc[t].count, loc[t].result)
    BY <1>0, <1>4, SemResults DEF Sem!Cleanup, Sem!PostedMeanwhile
  <2>2. obj.value < 0
    <3>1. Cardinality(Sem!Waiters) # 0
      BY <1>1, SemWaiters, FS_EmptySet DEF Sem!Waiters
    <3> QED  BY <1>v, <1>4, <3>1 DEF SemValues, Owed
  <2>w. Cardinality(Sem!Waiters)' = Cardinality(Sem!Waiters) - 1
    BY <1>1, <1>2, <1>4, <2>0, <2>1, <2>2, SemWaitersChange DEF Sem!Waiters
  <2>d. Cardinality(Sem!Waiters)' = Owed'
    BY <1>1, <1>2, <1>4, <2>0, <2>1, <2>2, <1>v, <2>w DEF SemValues, Owed, SemFields
  <2>c. Sem!WaitersCounted'
    BY <2>d, SemOwed
  <2>o. Sem!TypeOK'
    BY <1>1, <1>2, <1>4, <2>0, <2>1, <2>2, <1>v, <2>c, SemTyped DEF SemValues, SemAt, SemCall, SemFields
  <2>l. Sem!Locked'
    BY <1>1, <1>2, <1>4, <2>0, <2>1, <2>2, ThreadAssumption DEF SemAt, SemCall, SemFields, Sem!SemInv, Sem!Locked, Sem!NOBODY
  <2>i. Sem!InItsCall'
    BY <1>1, <1>2, <1>4, <2>0, <2>1, <2>2 DEF SemAt, SemCall, SemFields, Sem!SemInv, Sem!InItsCall
  <2>p. Sem!NobodyPosts'
    BY <1>1, <1>2, <1>4, <2>0, <2>1, <2>2 DEF SemAt, SemCall, SemFields, Sem!SemInv, Sem!NobodyPosts
  <2>f. Sem!NoUseAfterFree'
    BY <1>1, <1>2, <1>4, <2>0, <2>1, <2>2 DEF SemAt, SemCall, SemFields, Sem!SemInv, Sem!NoUseAfterFree, Sem!NobodyPosts
  <2>g. Sem!Granted' = Sem!Granted
    BY <1>1, <1>2, <1>4, <2>0, <2>1, <2>2 DEF SemAt, SemCall, SemFields, Sem!SemInv, Sem!InItsCall, Sem!Granted, Sem!WaitOps
  <2>u. \E n \in 0..SEM_VALUE_MAX : Sem!Count' = Sem!Count + n
    BY <1>1, <1>2, <1>4, <2>0, <2>1, <2>2, <1>v DEF SemValues, SemAt, SemCall, SemFields, Sem!Count
  <2>s. UnitsStep(t)
    BY <2>g, <2>u DEF UnitsStep
  <2> QED  BY <2>c, <2>o, <2>l, <2>i, <2>p, <2>f, <2>s DEF Sem!SemInv
<1> QED  BY <1>3, <1>4

(* The caller goes on.                                                     *)
LEMMA SemReturn ==
  ASSUME Sem!SemInv, NEW t \in Thread, Sem!Return(t) PROVE Sem!SemInv' /\ UnitsStep(t)
<1>0. Sem!TypeOK
  BY DEF Sem!SemInv
<1>v. SemValues
  BY SemValuesAre
<1>1. pc[t] = "returned"
  BY DEF Sem!Return
<1>2. SemFields(obj.sem, obj.freed, obj.value, obj.lock, obj.w32)
  BY <1>0, SemObjects DEF Sem!Return
<1>3. SemAt(t, "idle")
  BY <1>0, SemGoes DEF Sem!Return, Sem!Labels
<1>4. SemCall(t, "none", 0, "0")
  BY <1>0 DEF Sem!Return, Sem!TypeOK, SemCalls, Results, SemCall
<1>w. Cardinality(Sem!Waiters)' = Cardinality(Sem!Waiters)
  BY <1>1, <1>2, <1>3, <1>4, SemWaitersChange DEF Sem!Waiters
<1>d. Cardinality(Sem!Waiters)' = Owed'
  BY <1>1, <1>2, <1>3, <1>4, <1>v, <1>w DEF SemValues, Owed, SemFields
<1>c. Sem!WaitersCounted'
  BY <1>d, SemOwed
<1>o. Sem!TypeOK'
  BY <1>1, <1>2, <1>3, <1>4, <1>v, <1>c, SemTyped DEF SemValues, SemAt, SemCall, SemFields
<1>l. Sem!Locked'
  BY <1>1, <1>2, <1>3, <1>4, ThreadAssumption DEF SemAt, SemCall, SemFields, Sem!SemInv, Sem!Locked, Sem!NOBODY
<1>i. Sem!InItsCall'
  BY <1>1, <1>2, <1>3, <1>4 DEF SemAt, SemCall, SemFields, Sem!SemInv, Sem!InItsCall
<1>p. Sem!NobodyPosts'
  BY <1>1, <1>2, <1>3, <1>4 DEF SemAt, SemCall, SemFields, Sem!SemInv, Sem!NobodyPosts
<1>f. Sem!NoUseAfterFree'
  BY <1>1, <1>2, <1>3, <1>4 DEF SemAt, SemCall, SemFields, Sem!SemInv, Sem!NoUseAfterFree, Sem!NobodyPosts
<1>g. Sem!Granted' = Sem!Granted \ {t}
  BY <1>1, <1>2, <1>3, <1>4 DEF SemAt, SemCall, SemFields, Sem!SemInv, Sem!InItsCall, Sem!Granted, Sem!WaitOps
<1>u. Sem!Count' = Sem!Count
  BY <1>1, <1>2, <1>3, <1>4, <1>v DEF SemValues, SemAt, SemCall, SemFields, Sem!Count
<1>s. UnitsStep(t)
  BY <1>g, <1>u DEF UnitsStep
<1> QED  BY <1>c, <1>o, <1>l, <1>i, <1>p, <1>f, <1>s DEF Sem!SemInv

(* *sem becomes NULL: no thread is about to post, and no wake-up is left.  *)
LEMMA SemDestroy ==
  ASSUME Sem!SemInv, NEW t \in Thread, Sem!Destroy(t) PROVE Sem!SemInv' /\ UnitsStep(t)
<1>0. Sem!TypeOK
  BY DEF Sem!SemInv
<1>v. SemValues
  BY SemValuesAre
<1>a. pc[t] = "idle" /\ obj.sem = "live" /\ Sem!DestroyAllowed(t)
  BY DEF Sem!Destroy
<1>b. ASSUME NEW u \in Thread, u # t
      PROVE  pc[u] \in {"idle", "returned"} \/ (pc[u] = "blocked" /\ obj.w32 = 0)
  BY <1>a, <1>b DEF Sem!DestroyAllowed
<1>others. \A u \in Thread : u # t =>
        pc[u] \in {"idle", "returned"} \/ (pc[u] = "blocked" /\ obj.w32 = 0)
  BY <1>b
<1>1. /\ pc[t] = "idle" /\ obj.sem = "live"
      /\ \A u \in Thread : u # t =>
           pc[u] \in {"idle", "returned"} \/ (pc[u] = "blocked" /\ obj.w32 = 0)
  BY <1>a, <1>others
<1>2. SemFields("null", obj.freed, obj.value, obj.lock, obj.w32)
  BY <1>0, SemObjects DEF Sem!Destroy
<1>3. SemAt(t, "trylock")
  BY <1>0, SemGoes DEF Sem!Destroy, Sem!Labels
<1>4. SemCall(t, "sem_destroy", loc[t].count, loc[t].result)
  <2>1. loc \in [Thread -> SemCalls]
    BY <1>0 DEF Sem!TypeOK, SemCalls, Results
  <2> QED  BY <2>1 DEF Sem!Destroy, SemCalls, SemCall
<1>5. obj.w32 = 0 /\ ~obj.freed
  <2>1. ASSUME obj.w32 # 0 PROVE FALSE
    <3>1. Sem!Waiters = {}
      BY <1>1, <2>1 DEF Sem!Waiters
    <3>2. Cardinality(Sem!Waiters) = 0
      BY <3>1, FS_EmptySet
    <3> QED  BY <1>v, <2>1, <3>2 DEF SemValues, Owed
  <2>2. ~obj.freed
    BY <1>1 DEF Sem!SemInv, Sem!NobodyPosts
  <2> QED  BY <2>1, <2>2
<1>w. Cardinality(Sem!Waiters)' = Cardinality(Sem!Waiters)
  BY <1>1, <1>2, <1>3, <1>4, <1>5, SemWaitersChange DEF Sem!Waiters
<1>d. Cardinality(Sem!Waiters)' = Owed'
  BY <1>1, <1>2, <1>3, <1>4, <1>5, <1>v, <1>w DEF SemValues, Owed, SemFields
<1>c. Sem!WaitersCounted'
  BY <1>d, SemOwed
<1>o. Sem!TypeOK'
  BY <1>1, <1>2, <1>3, <1>4, <1>5, <1>v, <1>c, SemTyped DEF SemValues, SemAt, SemCall, SemFields
<1>l. Sem!Locked'
  BY <1>1, <1>2, <1>3, <1>4, <1>5, ThreadAssumption DEF SemAt, SemCall, SemFields, Sem!SemInv, Sem!Locked, Sem!NOBODY
<1>i. Sem!InItsCall'
  BY <1>1, <1>2, <1>3, <1>4, <1>5 DEF SemAt, SemCall, SemFields, Sem!SemInv, Sem!InItsCall
<1>p. Sem!NobodyPosts'
  BY <1>1, <1>2, <1>3, <1>4, <1>5 DEF SemAt, SemCall, SemFields, Sem!SemInv, Sem!NobodyPosts
<1>f. Sem!NoUseAfterFree'
  BY <1>1, <1>2, <1>3, <1>4, <1>5 DEF SemAt, SemCall, SemFields, Sem!SemInv, Sem!NoUseAfterFree, Sem!NobodyPosts
<1>g. Sem!Granted' = Sem!Granted
  BY <1>1, <1>2, <1>3, <1>4, <1>5 DEF SemAt, SemCall, SemFields, Sem!SemInv, Sem!InItsCall, Sem!Granted, Sem!WaitOps
<1>u. \E n \in 0..SEM_VALUE_MAX : Sem!Count' = Sem!Count + n
  BY <1>1, <1>2, <1>3, <1>4, <1>5, <1>v DEF SemValues, SemAt, SemCall, SemFields, Sem!Count
<1>s. UnitsStep(t)
  BY <1>g, <1>u DEF UnitsStep
<1> QED  BY <1>c, <1>o, <1>l, <1>i, <1>p, <1>f, <1>s DEF Sem!SemInv

(* While another thread has the mutex the destruction is refused.          *)
LEMMA SemDestroyRefused ==
  ASSUME Sem!SemInv, NEW t \in Thread, Sem!DestroyRefused(t) PROVE Sem!SemInv' /\ UnitsStep(t)
<1>0. Sem!TypeOK
  BY DEF Sem!SemInv
<1>v. SemValues
  BY SemValuesAre
<1>1. pc[t] = "trylock" /\ loc[t].op = "sem_destroy"
  BY DEF Sem!DestroyRefused, Sem!SemInv, Sem!InItsCall
<1>2. SemFields(obj.sem, obj.freed, obj.value, obj.lock, obj.w32)
  BY <1>0, SemObjects DEF Sem!DestroyRefused
<1>3. SemAt(t, "returned") /\ SemCall(t, loc[t].op, loc[t].count, "EBUSY")
  BY <1>0, SemGoes, SemResults DEF Sem!DestroyRefused, Sem!Finish, Sem!Labels, Results
<1>w. Cardinality(Sem!Waiters)' = Cardinality(Sem!Waiters)
  BY <1>1, <1>2, <1>3, SemWaitersChange DEF Sem!Waiters
<1>d. Cardinality(Sem!Waiters)' = Owed'
  BY <1>1, <1>2, <1>3, <1>v, <1>w DEF SemValues, Owed, SemFields
<1>c. Sem!WaitersCounted'
  BY <1>d, SemOwed
<1>o. Sem!TypeOK'
  BY <1>1, <1>2, <1>3, <1>v, <1>c, SemTyped DEF SemValues, SemAt, SemCall, SemFields
<1>l. Sem!Locked'
  BY <1>1, <1>2, <1>3, ThreadAssumption DEF SemAt, SemCall, SemFields, Sem!SemInv, Sem!Locked, Sem!NOBODY
<1>i. Sem!InItsCall'
  BY <1>1, <1>2, <1>3 DEF SemAt, SemCall, SemFields, Sem!SemInv, Sem!InItsCall
<1>p. Sem!NobodyPosts'
  BY <1>1, <1>2, <1>3 DEF SemAt, SemCall, SemFields, Sem!SemInv, Sem!NobodyPosts
<1>f. Sem!NoUseAfterFree'
  BY <1>1, <1>2, <1>3 DEF SemAt, SemCall, SemFields, Sem!SemInv, Sem!NoUseAfterFree, Sem!NobodyPosts
<1>g. Sem!Granted' = Sem!Granted
  BY <1>1, <1>2, <1>3 DEF SemAt, SemCall, SemFields, Sem!SemInv, Sem!InItsCall, Sem!Granted, Sem!WaitOps
<1>u. \E n \in 0..SEM_VALUE_MAX : Sem!Count' = Sem!Count + n
  BY <1>1, <1>2, <1>3, <1>v DEF SemValues, SemAt, SemCall, SemFields, Sem!Count
<1>s. UnitsStep(t)
  BY <1>g, <1>u DEF UnitsStep
<1> QED  BY <1>c, <1>o, <1>l, <1>i, <1>p, <1>f, <1>s DEF Sem!SemInv

(* With nobody waiting, and nobody inside, it is freed.                    *)
LEMMA SemDestroyLocked ==
  ASSUME Sem!SemInv, NEW t \in Thread, Sem!DestroyLocked(t) PROVE Sem!SemInv' /\ UnitsStep(t)
<1>0. Sem!TypeOK
  BY DEF Sem!SemInv
<1>v. SemValues
  BY SemValuesAre
<1>1. /\ pc[t] = "trylock" /\ loc[t].op = "sem_destroy" /\ obj.lock = Sem!NOBODY
      /\ obj.sem = "null" /\ obj.w32 = 0
  BY DEF Sem!DestroyLocked, Sem!SemInv, Sem!InItsCall, Sem!NobodyPosts
<1>3. CASE obj.value >= 0
  <2>0. SemFields(obj.sem, TRUE, obj.value, obj.lock, obj.w32)
    BY <1>0, <1>3, SemObjects DEF Sem!DestroyLocked, Sem!NobodyBlocked
  <2>1. SemAt(t, "returned") /\ SemCall(t, loc[t].op, loc[t].count, "0")
    BY <1>0, <1>3, SemGoes, SemResults
       DEF Sem!DestroyLocked, Sem!NobodyBlocked, Sem!Finish, Sem!Labels, Results
  <2>2. Sem!Waiters = {}
    <3>1. Cardinality(Sem!Waiters) = 0
      BY <1>v, <1>1, <1>3 DEF SemValues, Owed
    <3> QED  BY <3>1, SemWaiters, FS_EmptySet
  <2>3. \A u \in Thread : u # t => pc[u] \in {"idle", "returned"}
    <3> SUFFICES ASSUME NEW u \in Thread, u # t PROVE pc[u] \in {"idle", "returned"}
      OBVIOUS
    <3>1. pc[u] \notin {"blocked", "cleanup", "cleaning"}
      BY <2>2 DEF Sem!Waiters
    <3>2. pc[u] \notin {"lock", "region", "trylock"}
      BY <1>1 DEF Sem!SemInv, Sem!NobodyPosts
    <3>3. pc[u] \in Sem!Labels
      BY <1>0 DEF Sem!TypeOK
    <3> QED  BY <3>1, <3>2, <3>3 DEF Sem!Labels
  <2>w. Cardinality(Sem!Waiters)' = Cardinality(Sem!Waiters)
    BY <1>1, <1>3, <2>0, <2>1, <2>3, SemWaitersChange DEF Sem!Waiters
  <2>d. Cardinality(Sem!Waiters)' = Owed'
    BY <1>1, <1>3, <2>0, <2>1, <2>3, <1>v, <2>w DEF SemValues, Owed, SemFields
  <2>c. Sem!WaitersCounted'
    BY <2>d, SemOwed
  <2>o. Sem!TypeOK'
    BY <1>1, <1>3, <2>0, <2>1, <2>3, <1>v, <2>c, SemTyped DEF SemValues, SemAt, SemCall, SemFields
  <2>l. Sem!Locked'
    BY <1>1, <1>3, <2>0, <2>1, <2>3, ThreadAssumption DEF SemAt, SemCall, SemFields, Sem!SemInv, Sem!Locked, Sem!NOBODY
  <2>i. Sem!InItsCall'
    BY <1>1, <1>3, <2>0, <2>1, <2>3 DEF SemAt, SemCall, SemFields, Sem!SemInv, Sem!InItsCall
  <2>p. Sem!NobodyPosts'
    BY <1>1, <1>3, <2>0, <2>1, <2>3 DEF SemAt, SemCall, SemFields, Sem!SemInv, Sem!NobodyPosts
  <2>f. Sem!NoUseAfterFree'
    BY <1>1, <1>3, <2>0, <2>1, <2>3 DEF SemAt, SemCall, SemFields, Sem!SemInv, Sem!NoUseAfterFree, Sem!NobodyPosts
  <2>g. Sem!Granted' = Sem!Granted
    BY <1>1, <1>3, <2>0, <2>1, <2>3 DEF SemAt, SemCall, SemFields, Sem!SemInv, Sem!InItsCall, Sem!Granted, Sem!WaitOps
  <2>u. \E n \in 0..SEM_VALUE_MAX : Sem!Count' = Sem!Count + n
    BY <1>1, <1>3, <2>0, <2>1, <2>3, <1>v DEF SemValues, SemAt, SemCall, SemFields, Sem!Count
  <2>s. UnitsStep(t)
    BY <2>g, <2>u DEF UnitsStep
  <2> QED  BY <2>c, <2>o, <2>l, <2>i, <2>p, <2>f, <2>s DEF Sem!SemInv
<1>4. CASE ~(obj.value >= 0)
  <2>0. SemFields(obj.sem, obj.freed, obj.value, obj.lock, obj.w32)
    BY <1>0, <1>4, SemObjects DEF Sem!DestroyLocked, Sem!NobodyBlocked
  <2>1. SemAt(t, "returned") /\ SemCall(t, loc[t].op, loc[t].count, "EBUSY")
    BY <1>0, <1>4, SemGoes, SemResults
       DEF Sem!DestroyLocked, Sem!NobodyBlocked, Sem!Finish, Sem!Labels, Results
  <2>w. Cardinality(Sem!Waiters)' = Cardinality(Sem!Waiters)
    BY <1>1, <1>4, <2>0, <2>1, SemWaitersChange DEF Sem!Waiters
  <2>d. Cardinality(Sem!Waiters)' = Owed'
    BY <1>1, <1>4, <2>0, <2>1, <1>v, <2>w DEF SemValues, Owed, SemFields
  <2>c. Sem!WaitersCounted'
    BY <2>d, SemOwed
  <2>o. Sem!TypeOK'
    BY <1>1, <1>4, <2>0, <2>1, <1>v, <2>c, SemTyped DEF SemValues, SemAt, SemCall, SemFields
  <2>l. Sem!Locked'
    BY <1>1, <1>4, <2>0, <2>1, ThreadAssumption DEF SemAt, SemCall, SemFields, Sem!SemInv, Sem!Locked, Sem!NOBODY
  <2>i. Sem!InItsCall'
    BY <1>1, <1>4, <2>0, <2>1 DEF SemAt, SemCall, SemFields, Sem!SemInv, Sem!InItsCall
  <2>p. Sem!NobodyPosts'
    BY <1>1, <1>4, <2>0, <2>1 DEF SemAt, SemCall, SemFields, Sem!SemInv, Sem!NobodyPosts
  <2>f. Sem!NoUseAfterFree'
    BY <1>1, <1>4, <2>0, <2>1 DEF SemAt, SemCall, SemFields, Sem!SemInv, Sem!NoUseAfterFree, Sem!NobodyPosts
  <2>g. Sem!Granted' = Sem!Granted
    BY <1>1, <1>4, <2>0, <2>1 DEF SemAt, SemCall, SemFields, Sem!SemInv, Sem!InItsCall, Sem!Granted, Sem!WaitOps
  <2>u. \E n \in 0..SEM_VALUE_MAX : Sem!Count' = Sem!Count + n
    BY <1>1, <1>4, <2>0, <2>1, <1>v DEF SemValues, SemAt, SemCall, SemFields, Sem!Count
  <2>s. UnitsStep(t)
    BY <2>g, <2>u DEF UnitsStep
  <2> QED  BY <2>c, <2>o, <2>l, <2>i, <2>p, <2>f, <2>s DEF Sem!SemInv
<1> QED  BY <1>3, <1>4

(* Every step of a thread keeps SemInv, and is one of a counting           *)
(* semaphore, or none.                                                     *)
LEMMA SemThread ==
  ASSUME Sem!SemInv, NEW t \in Thread,
         Sem!Step(t) \/ Sem!Call(t) \/ Sem!GiveUp(t) \/ Sem!Destroy(t)
  PROVE Sem!SemInv' /\ UnitsStep(t)
<1>1. CASE \/ Sem!Lock(t) \/ Sem!Wait(t) \/ Sem!TryWait(t) \/ Sem!Post(t)
           \/ Sem!PostMultiple(t) \/ Sem!GetValue(t) \/ Sem!Wake(t)
  BY <1>1, SemLock, SemWait, SemTryWait, SemPost, SemPostMultiple, SemGetValue, SemWake
<1>2. CASE \/ Sem!Cleanup(t) \/ Sem!Return(t) \/ Sem!DestroyRefused(t)
           \/ Sem!DestroyLocked(t) \/ Sem!Call(t) \/ Sem!GiveUp(t) \/ Sem!Destroy(t)
  BY <1>2, SemCleanup, SemReturn, SemDestroyRefused, SemDestroyLocked, SemCallBegins,
     SemGiveUp, SemDestroy
<1> QED  BY <1>1, <1>2 DEF Sem!Step

(* At first nobody waits and no wake-up is posted.                         *)
LEMMA SemInit == Sem!Init => Sem!SemInv
<1> SUFFICES ASSUME Sem!Init PROVE Sem!SemInv
  OBVIOUS
<1>1. /\ obj \in [sem: {"live"}, freed: {FALSE}, value: 0..SEM_VALUE_MAX,
                  lock: {Sem!NOBODY}, w32: {0}]
      /\ pc = [t \in Thread |-> "idle"]
      /\ loc = [t \in Thread |-> [op |-> "none", count |-> 0, result |-> "0"]]
  BY DEF Sem!Init
<1>2. /\ obj.sem = "live" /\ obj.freed = FALSE /\ obj.value \in 0..SEM_VALUE_MAX
      /\ obj.lock = Sem!NOBODY /\ obj.w32 = 0
      /\ \A t \in Thread : pc[t] = "idle"
  BY <1>1
<1>3. Sem!WaitersCounted
  <2>1. Sem!Waiters = {}
    BY <1>2 DEF Sem!Waiters
  <2>2. Cardinality(Sem!Waiters) = 0
    BY <2>1, FS_EmptySet
  <2>3. Owed = 0
    BY <1>2, BoundAssumption DEF Owed
  <2> QED  BY <2>2, <2>3, SemOwed
<1>4. Sem!TypeOK
  <2> DEFINE N == Cardinality(Thread)
  <2>1. N \in Nat /\ Sem!Cardinality(Thread) = N
    BY SemWaiters, SemCardinality
  <2>2. obj.value \in -N..SEM_VALUE_MAX /\ obj.w32 \in 0..N
    <3> HIDE DEF N
    <3> QED  BY <1>2, <2>1, BoundAssumption
  <2>3. obj \in [sem: {"live", "null"}, freed: BOOLEAN, value: -N..SEM_VALUE_MAX,
                 lock: Thread \cup {Sem!NOBODY}, w32: 0..N]
    BY <1>1, <2>2
  <2>4. pc \in [Thread -> Sem!Labels]
    BY <1>1 DEF Sem!Labels
  <2>5. loc \in [Thread -> SemCalls]
    BY <1>1 DEF SemCalls, Results
  <2> QED  BY <2>1, <2>3, <2>4, <2>5 DEF Sem!TypeOK, SemCalls, Results
<1>5. Sem!Locked /\ Sem!InItsCall
  BY <1>2, ThreadAssumption DEF Sem!Locked, Sem!InItsCall, Sem!NOBODY
<1>6. Sem!NobodyPosts /\ Sem!NoUseAfterFree
  BY <1>2 DEF Sem!NobodyPosts, Sem!NoUseAfterFree
<1> QED  BY <1>3, <1>4, <1>5, <1>6 DEF Sem!SemInv

(* SemInv is inductive.                                                    *)
LEMMA SemStep == Sem!SemInv /\ (Sem!Next \/ UNCHANGED <<obj, pc, loc>>) => Sem!SemInv'
<1>1. Sem!SemInv /\ Sem!Next => Sem!SemInv'
  BY SemThread DEF Sem!Next
<1>2. ASSUME Sem!SemInv, UNCHANGED <<obj, pc, loc>> PROVE Sem!SemInv'
  <2>1. (Sem!TypeOK /\ Sem!Locked /\ Sem!InItsCall)'
    BY <1>2 DEF Sem!SemInv, Sem!TypeOK, Sem!Locked, Sem!InItsCall
  <2>2. (Sem!NobodyPosts /\ Sem!NoUseAfterFree)'
    BY <1>2 DEF Sem!SemInv, Sem!NobodyPosts, Sem!NoUseAfterFree
  <2>3. Sem!WaitersCounted'
    <3>1. Sem!Waiters' = Sem!Waiters
      BY <1>2 DEF Sem!Waiters
    <3>2. Owed' = Owed
      BY <1>2 DEF Owed
    <3> QED  BY <1>2, <3>1, <3>2, SemOwed DEF Sem!SemInv
  <2> QED  BY <2>1, <2>2, <2>3 DEF Sem!SemInv
<1> QED  BY <1>1, <1>2

(* A behaviour of a semaphore stays one, and keeps SemInv.                 *)
LEMMA SemBehaviour ==
  Spec /\ kind = "semaphore" => [](kind = "semaphore" /\ Sem!SemInv)
<1>1. Init /\ kind = "semaphore" => Sem!SemInv
  BY SemInit DEF Init
<1>2. kind = "semaphore" /\ Sem!SemInv /\ [Next]_vars
        => (kind = "semaphore" /\ Sem!SemInv)'
  <2> SUFFICES ASSUME kind = "semaphore", Sem!SemInv, [Next]_vars
               PROVE  kind' = "semaphore" /\ Sem!SemInv'
    OBVIOUS
  <2>1. kind' = kind /\ (Sem!Next \/ UNCHANGED <<obj, pc, loc>>)
    BY DEF Next, vars
  <2> QED  BY <2>1, SemStep
<1> QED  BY <1>1, <1>2, PTL DEF Spec

(* What a semaphore records is true in every state: as many threads wait,  *)
(* or have given up and not yet said so, as it owes and has posted.        *)
THEOREM SemRecordsTrue == Spec /\ kind = "semaphore" => []RecordsTrue
<1>1. kind = "semaphore" /\ Sem!SemInv => RecordsTrue
  BY DEF RecordsTrue
<1> QED  BY <1>1, SemBehaviour, PTL

(* No thread waits that no post will count, whatever timed out or was      *)
(* cancelled.                                                              *)
THEOREM SemStrandsNobody == Spec /\ kind = "semaphore" => []NobodyStranded
<1>1. kind = "semaphore" /\ Sem!SemInv => NobodyStranded
  BY DEF NobodyStranded, Sem!SemInv
<1> QED  BY <1>1, SemBehaviour, PTL

(* When sem_destroy frees the semaphore, no thread is in a call on it.     *)
THEOREM SemNotUsedAfterFree == Spec /\ kind = "semaphore" => []NoUseAfterFree
<1>1. kind = "semaphore" /\ Sem!SemInv => NoUseAfterFree
  BY DEF NoUseAfterFree, Sem!SemInv
<1> QED  BY <1>1, SemBehaviour, PTL

(* The semaphore implements CountingSemaphore: a unit posted is taken once *)
(* and by a thread that is told so, though the thread may have timed out   *)
(* or have been cancelled when it was posted.                              *)
THEOREM SemCounts == Spec /\ kind = "semaphore" => ImplementsCounting
<1> DEFINE count == IF kind = "semaphore" THEN Sem!Count ELSE 0
           granted == IF kind = "semaphore" THEN Sem!Granted ELSE {}
<1>1. Init /\ kind = "semaphore" => Units!Init
  <2> SUFFICES ASSUME Sem!Init, kind = "semaphore" PROVE Units!Init
    BY DEF Init
  <2>1. /\ obj \in [sem: {"live"}, freed: {FALSE}, value: 0..SEM_VALUE_MAX,
                    lock: {Sem!NOBODY}, w32: {0}]
        /\ \A t \in Thread : pc[t] = "idle"
    BY DEF Sem!Init
  <2>2. obj.value \in 0..SEM_VALUE_MAX /\ obj.w32 = 0
    BY <2>1
  <2>3. Sem!Count \in 0..SEM_VALUE_MAX
    BY <2>2, BoundAssumption DEF Sem!Count
  <2>4. Sem!Granted = {}
    BY <2>1 DEF Sem!Granted
  <2> QED  BY <2>3, <2>4 DEF Units!Init
<1>2. /\ kind = "semaphore" /\ Sem!SemInv /\ (kind = "semaphore" /\ Sem!SemInv)'
      /\ [Next]_vars
      => [Units!Next]_<<count, granted>>
  <2> SUFFICES ASSUME kind = "semaphore", kind' = "semaphore", Sem!SemInv, [Next]_vars
               PROVE  [Units!Next]_<<count, granted>>
    OBVIOUS
  <2>1. /\ count = Sem!Count /\ count' = Sem!Count'
        /\ granted = Sem!Granted /\ granted' = Sem!Granted'
    OBVIOUS
  <2>2. CASE Sem!Next
    <3>1. PICK t \in Thread : UnitsStep(t)
      BY <2>2, SemThread DEF Sem!Next
    <3>2. CASE /\ \E n \in 0..SEM_VALUE_MAX : Sem!Count' = Sem!Count + n
               /\ Sem!Granted' = Sem!Granted
      <4>1. PICK n \in 0..SEM_VALUE_MAX : Sem!Count' = Sem!Count + n
        BY <3>2
      <4>2. CASE n = 0
        <5>1. Sem!Count \in Int
          BY SemValuesAre DEF SemValues, Sem!Count
        <5>2. Sem!Count' = Sem!Count
          BY <4>1, <4>2, <5>1
        <5> QED  BY <2>1, <3>2, <5>2
      <4>3. CASE n # 0
        <5>1. n \in 1..SEM_VALUE_MAX
          BY <4>1, <4>3, BoundAssumption
        <5>2. Units!Up
          BY <2>1, <3>2, <4>1, <5>1 DEF Units!Up
        <5> QED  BY <5>2 DEF Units!Next
      <4> QED  BY <4>2, <4>3
    <3>3. CASE /\ Sem!Count' = Sem!Count - 1 /\ Sem!Count > 0
               /\ t \notin Sem!Granted /\ Sem!Granted' = Sem!Granted \cup {t}
      <4>1. Units!Down(t)
        BY <2>1, <3>3 DEF Units!Down
      <4> QED  BY <4>1 DEF Units!Next
    <3>4. CASE Sem!Count' = Sem!Count /\ Sem!Granted' = Sem!Granted \ {t}
      <4>1. Units!Forget(t)
        BY <2>1, <3>4 DEF Units!Forget
      <4> QED  BY <4>1 DEF Units!Next
    <3> QED  BY <3>1, <3>2, <3>3, <3>4 DEF UnitsStep
  <2>3. CASE UNCHANGED <<obj, pc, loc>>
    <3>1. Sem!Count' = Sem!Count /\ Sem!Granted' = Sem!Granted
      BY <2>3 DEF Sem!Count, Sem!Granted
    <3> QED  BY <2>1, <3>1
  <2> QED  BY <2>2, <2>3 DEF Next, vars
<1> QED  BY <1>1, <1>2, SemBehaviour, PTL DEF Spec, ImplementsCounting, Units!Spec

-----------------------------------------------------------------------------
(* The spin lock.                                                          *)

SpinObject == [ptr: {"static", "live", "null"}, interlock: Spin!Made \cup {"LOCKED"},
               mutex: Thread \cup {Spin!NOBODY}, made: 0..1]

SpinLabels == {"idle", "init", "compare", "unmake"}

SpinCalls == [op: {"none", "lock", "trylock"}, holds: BOOLEAN]

(* The thread t goes on at label l, and only it.                           *)
SpinAt(t, l) == /\ pc' \in [Thread -> SpinLabels]
                /\ pc'[t] = l
                /\ \A u \in Thread : u # t => pc'[u] = pc[u]

(* After the step t has the lock or not, and the others what they had.     *)
SpinHas(t, h) == /\ loc' \in [Thread -> SpinCalls]
                 /\ loc'[t].holds = h
                 /\ \A u \in Thread : u # t => loc'[u] = loc[u]

(* What the returns and the jumps of a spin lock's calls do.               *)
LEMMA SpinGoes ==
  ASSUME Spin!TypeOK, NEW t \in Thread
  PROVE /\ \A l \in SpinLabels : Spin!Goto(t, l) => SpinAt(t, l)
        /\ \A h \in BOOLEAN : Spin!Return(t, h) => SpinAt(t, "idle") /\ SpinHas(t, h)
        /\ UNCHANGED loc => SpinHas(t, loc[t].holds)
        /\ \A op \in {"lock", "trylock"} :
             loc' = [loc EXCEPT ![t].op = op] => SpinHas(t, loc[t].holds)
<1>0. pc \in [Thread -> SpinLabels] /\ loc \in [Thread -> SpinCalls]
  BY DEF Spin!TypeOK, SpinLabels, SpinCalls
<1>1. ASSUME NEW l \in SpinLabels, Spin!Goto(t, l) PROVE SpinAt(t, l)
  BY <1>0, <1>1 DEF Spin!Goto, SpinAt
<1>2. ASSUME NEW h \in BOOLEAN, Spin!Return(t, h)
      PROVE  SpinAt(t, "idle") /\ SpinHas(t, h)
  <2>1. SpinAt(t, "idle")
    BY <1>1, <1>2 DEF Spin!Return, SpinLabels
  <2>2. SpinHas(t, h)
    BY <1>0, <1>2 DEF Spin!Return, SpinCalls, SpinHas
  <2> QED  BY <2>1, <2>2
<1>3. UNCHANGED loc => SpinHas(t, loc[t].holds)
  BY <1>0 DEF SpinHas, SpinCalls
<1>4. ASSUME NEW op \in {"lock", "trylock"}, loc' = [loc EXCEPT ![t].op = op]
      PROVE  SpinHas(t, loc[t].holds)
  BY <1>0, <1>4 DEF SpinHas, SpinCalls
<1> QED  BY <1>1, <1>2, <1>3, <1>4

(* A step with these effects keeps the types.                              *)
LEMMA SpinTyped ==
  ASSUME NEW t \in Thread, NEW l, SpinAt(t, l), NEW h, SpinHas(t, h), obj' \in SpinObject
  PROVE Spin!TypeOK'
<1>1. pc' \in [Thread -> SpinLabels] /\ loc' \in [Thread -> SpinCalls]
  BY DEF SpinAt, SpinHas
<1> QED  BY <1>1 DEF SpinObject, SpinLabels, SpinCalls, Spin!TypeOK, Spin!Made

(* What a step of thread t is to Exclusion: the others stay in or out, and *)
(* if it enters nobody is inside.                                          *)
SpinExcludes(t) ==
  /\ \A u \in Thread : u # t => (loc'[u].holds <=> loc[u].holds)
  /\ loc'[t].holds /\ ~loc[t].holds => \A u \in Thread : ~loc[u].holds

(* A step that leaves the lock alone, and in which t neither enters nor    *)
(* leaves, and compares only a lock that is made.                          *)
LEMMA SpinStays ==
  ASSUME Spin!SpinInv, NEW t \in Thread, UNCHANGED obj, NEW l \in SpinLabels, SpinAt(t, l),
         SpinHas(t, loc[t].holds), l = "compare" => obj.ptr = "live"
  PROVE Spin!SpinInv' /\ SpinExcludes(t)
<1>0. \A u \in Thread : loc'[u].holds <=> loc[u].holds
  BY DEF SpinHas
<1>1. Spin!TypeOK'
  BY SpinTyped DEF Spin!SpinInv, Spin!TypeOK, SpinObject
<1>2. Spin!UsedOnceMade'
  BY <1>0 DEF Spin!SpinInv, Spin!UsedOnceMade, SpinAt
<1>3. Spin!HeldByOne'
  BY <1>0 DEF Spin!SpinInv, Spin!HeldByOne
<1> QED  BY <1>0, <1>1, <1>2, <1>3 DEF Spin!SpinInv, SpinExcludes

(* One thread makes a static lock; one that was given up is not made.      *)
LEMMA SpinCheckNeedInit ==
  ASSUME Spin!SpinInv, NEW t \in Thread, Spin!CheckNeedInit(t)
  PROVE Spin!SpinInv' /\ SpinExcludes(t)
<1>0. Spin!TypeOK
  BY DEF Spin!SpinInv
<1>1. CASE obj.ptr = "static"
  <2>1. PICK i \in Spin!Made : obj' = [ptr |-> "live", interlock |-> i,
                                       mutex |-> Spin!NOBODY, made |-> obj.made + 1]
    BY <1>1 DEF Spin!CheckNeedInit, Spin!StillStatic
  <2>2. SpinAt(t, "compare") /\ SpinHas(t, loc[t].holds)
    BY <1>0, <1>1, SpinGoes DEF Spin!CheckNeedInit, SpinLabels
  <2>3. obj.made = 0 /\ \A u \in Thread : loc[u].holds = FALSE
    BY <1>0, <1>1 DEF Spin!SpinInv, Spin!UsedOnceMade, Spin!TypeOK
  <2>4. \A u \in Thread : loc'[u].holds = FALSE
    BY <2>2, <2>3 DEF SpinHas
  <2>5. obj' \in SpinObject /\ obj'.interlock \in Spin!Made
    BY <2>1, <2>3 DEF SpinObject
  <2>6. Spin!TypeOK'
    BY <2>2, <2>5, SpinTyped
  <2>7. Spin!UsedOnceMade'
    BY <2>1 DEF Spin!UsedOnceMade
  <2>8. Spin!HeldByOne'
    BY <2>1, <2>4, <2>5, ThreadAssumption DEF Spin!HeldByOne, Spin!Made, Spin!NOBODY
  <2>9. SpinExcludes(t)
    BY <2>3, <2>4 DEF SpinExcludes
  <2> QED  BY <2>6, <2>7, <2>8, <2>9 DEF Spin!SpinInv
<1>2. CASE obj.ptr = "null"
  <2>1. UNCHANGED obj /\ Spin!Return(t, FALSE)
    BY <1>2 DEF Spin!CheckNeedInit, Spin!StillStatic
  <2>2. loc[t].holds = FALSE
    BY <1>0, <1>2 DEF Spin!SpinInv, Spin!UsedOnceMade, Spin!TypeOK
  <2>3. SpinAt(t, "idle") /\ SpinHas(t, loc[t].holds)
    BY <1>0, <2>1, <2>2, SpinGoes
  <2> QED  BY <2>1, <2>3, SpinStays DEF SpinLabels
<1>3. CASE obj.ptr = "live"
  <2>1. UNCHANGED obj /\ SpinAt(t, "compare") /\ SpinHas(t, loc[t].holds)
    BY <1>0, <1>3, SpinGoes DEF Spin!CheckNeedInit, Spin!StillStatic, SpinLabels
  <2> QED  BY <1>3, <2>1, SpinStays DEF SpinLabels
<1> QED  BY <1>0, <1>1, <1>2, <1>3 DEF Spin!TypeOK

(* A thread that finds the lock UNLOCKED, or the mutex free, is alone.     *)
LEMMA SpinAcquire ==
  ASSUME Spin!SpinInv, NEW t \in Thread, Spin!Acquire(t) \/ Spin!AcquireMutex(t)
  PROVE Spin!SpinInv' /\ SpinExcludes(t)
<1>0. Spin!TypeOK
  BY DEF Spin!SpinInv
<1>1. pc[t] = "compare" /\ obj.mutex = Spin!NOBODY /\ obj.interlock # "LOCKED"
  BY DEF Spin!Acquire, Spin!AcquireMutex, Spin!SpinInv, Spin!HeldByOne
<1>2. obj.ptr = "live"
  BY <1>1 DEF Spin!SpinInv, Spin!UsedOnceMade
<1>3. \A u \in Thread : ~loc[u].holds
  BY <1>1, ThreadAssumption DEF Spin!SpinInv, Spin!HeldByOne, Spin!NOBODY
<1>4. SpinAt(t, "idle") /\ SpinHas(t, TRUE)
  BY <1>0, SpinGoes DEF Spin!Acquire, Spin!AcquireMutex
<1>5. \A u \in Thread : loc'[u].holds <=> u = t
  BY <1>3, <1>4 DEF SpinHas
<1>6. /\ obj' \in SpinObject /\ obj'.ptr = "live"
      /\ \/ obj'.interlock = "LOCKED" /\ obj'.mutex = Spin!NOBODY
         \/ obj'.interlock = "USE_MUTEX" /\ obj'.mutex = t
  <2>1. CASE Spin!Acquire(t)
    BY <1>0, <1>1, <1>2, <2>1 DEF Spin!Acquire, Spin!TypeOK, SpinObject
  <2>2. CASE Spin!AcquireMutex(t)
    BY <1>0, <1>1, <1>2, <2>2 DEF Spin!AcquireMutex, Spin!TypeOK, SpinObject
  <2> QED  BY <2>1, <2>2
<1>7. Spin!TypeOK'
  BY <1>4, <1>6, SpinTyped
<1>8. Spin!UsedOnceMade'
  BY <1>6 DEF Spin!UsedOnceMade
<1>9. Spin!HeldByOne'
  BY <1>5, <1>6 DEF Spin!HeldByOne
<1>10. SpinExcludes(t)
  BY <1>3, <1>4 DEF SpinHas, SpinExcludes
<1> QED  BY <1>7, <1>8, <1>9, <1>10 DEF Spin!SpinInv

(* The holder leaves it to nobody.                                         *)
LEMMA SpinUnlock ==
  ASSUME Spin!SpinInv, NEW t \in Thread, Spin!Unlock(t)
  PROVE Spin!SpinInv' /\ SpinExcludes(t)
<1>0. Spin!TypeOK
  BY DEF Spin!SpinInv
<1>1. loc[t].holds /\ obj' = Spin!Unlocked
  BY DEF Spin!Unlock
<1>2. obj.ptr = "live"
  BY <1>1 DEF Spin!SpinInv, Spin!UsedOnceMade
<1>3. SpinAt(t, "idle") /\ SpinHas(t, FALSE)
  BY <1>0, SpinGoes DEF Spin!Unlock
<1>4. \A u \in Thread : loc[u].holds => u = t
  BY <1>1, ThreadAssumption DEF Spin!SpinInv, Spin!HeldByOne
<1>5. \A u \in Thread : ~loc'[u].holds
  BY <1>3, <1>4 DEF SpinHas
<1>6. /\ obj' \in SpinObject /\ obj'.ptr = "live"
      /\ obj'.interlock # "LOCKED" /\ obj'.mutex = Spin!NOBODY
  <2>1. CASE obj.interlock = "LOCKED"
    <3>1. obj' = [obj EXCEPT !.interlock = "UNLOCKED"] /\ obj.mutex = Spin!NOBODY
      BY <1>1, <2>1 DEF Spin!Unlocked, Spin!SpinInv, Spin!HeldByOne
    <3> QED  BY <1>0, <1>2, <3>1 DEF Spin!TypeOK, SpinObject, Spin!Made
  <2>2. CASE obj.interlock # "LOCKED"
    <3>1. obj' = [obj EXCEPT !.mutex = Spin!NOBODY]
      BY <1>1, <2>2 DEF Spin!Unlocked
    <3> QED  BY <1>0, <1>2, <2>2, <3>1 DEF Spin!TypeOK, SpinObject
  <2> QED  BY <2>1, <2>2
<1>7. Spin!TypeOK'
  BY <1>3, <1>6, SpinTyped
<1>8. Spin!UsedOnceMade'
  BY <1>6 DEF Spin!UsedOnceMade
<1>9. Spin!HeldByOne'
  BY <1>5, <1>6, ThreadAssumption DEF Spin!HeldByOne, Spin!NOBODY
<1>10. SpinExcludes(t)
  BY <1>3 DEF SpinHas, SpinExcludes
<1> QED  BY <1>7, <1>8, <1>9, <1>10 DEF Spin!SpinInv

(* A lock is given up before its first use, or when nobody is inside.      *)
LEMMA SpinGivenUp ==
  ASSUME Spin!SpinInv, NEW t \in Thread, NEW l \in SpinLabels, SpinAt(t, l), l # "compare",
         SpinHas(t, loc[t].holds), obj' = [obj EXCEPT !.ptr = "null"],
         \A u \in Thread : pc[u] # "compare" /\ ~loc[u].holds
  PROVE Spin!SpinInv' /\ SpinExcludes(t)
<1>0. \A u \in Thread : loc'[u].holds <=> loc[u].holds
  BY DEF SpinHas
<1>1. /\ obj' \in SpinObject /\ obj'.ptr = "null" /\ obj'.interlock = obj.interlock
      /\ obj'.mutex = obj.mutex
  BY DEF Spin!SpinInv, Spin!TypeOK, SpinObject
<1>2. Spin!TypeOK'
  BY <1>1, SpinTyped
<1>3. Spin!UsedOnceMade'
  BY <1>0, <1>1 DEF Spin!UsedOnceMade, SpinAt
<1>4. Spin!HeldByOne'
  BY <1>0, <1>1 DEF Spin!SpinInv, Spin!HeldByOne
<1> QED  BY <1>0, <1>2, <1>3, <1>4 DEF Spin!SpinInv, SpinExcludes

(* Every step of a thread keeps SpinInv and excludes the others.           *)
LEMMA SpinThread ==
  ASSUME Spin!SpinInv, NEW t \in Thread,
         \/ Spin!Step(t) \/ Spin!Call(t) \/ Spin!Unlock(t) \/ Spin!Destroy(t)
         \/ Spin!DestroyStatic(t)
  PROVE Spin!SpinInv' /\ SpinExcludes(t)
<1>0. Spin!TypeOK
  BY DEF Spin!SpinInv
<1>1. CASE Spin!CheckNeedInit(t) \/ Spin!Acquire(t) \/ Spin!AcquireMutex(t) \/ Spin!Unlock(t)
  BY <1>1, SpinCheckNeedInit, SpinAcquire, SpinUnlock
<1>2. CASE Spin!Busy(t)
  <2>1. UNCHANGED obj /\ loc[t].holds \in BOOLEAN /\ Spin!Return(t, loc[t].holds)
    BY <1>0, <1>2 DEF Spin!Busy, Spin!TypeOK
  <2>2. SpinAt(t, "idle") /\ SpinHas(t, loc[t].holds)
    BY <1>0, <2>1, SpinGoes
  <2> QED  BY <2>1, <2>2, SpinStays DEF SpinLabels
<1>3. CASE Spin!Call(t)
  <2>1. UNCHANGED obj /\ obj.ptr \in {"static", "live"}
    BY <1>0, <1>3 DEF Spin!Call, Spin!TypeOK
  <2>2. SpinHas(t, loc[t].holds)
    BY <1>0, <1>3, SpinGoes DEF Spin!Call
  <2>3. PICK l \in SpinLabels : SpinAt(t, l) /\ (l = "compare" => obj.ptr = "live")
    <3>1. CASE obj.ptr = "static"
      BY <1>0, <1>3, <3>1, SpinGoes DEF Spin!Call, SpinLabels
    <3>2. CASE obj.ptr = "live"
      BY <1>0, <1>3, <3>2, SpinGoes DEF Spin!Call, SpinLabels
    <3> QED  BY <2>1, <3>1, <3>2
  <2> QED  BY <2>1, <2>2, <2>3, SpinStays
<1>4. CASE Spin!DestroyStatic(t)
  <2>1. UNCHANGED obj /\ SpinAt(t, "unmake") /\ SpinHas(t, loc[t].holds)
    BY <1>0, <1>4, SpinGoes DEF Spin!DestroyStatic, SpinLabels
  <2> QED  BY <2>1, SpinStays DEF SpinLabels
<1>5. CASE Spin!Unmake(t)
  <2>1. SpinAt(t, "idle") /\ SpinHas(t, loc[t].holds)
    BY <1>0, <1>5, SpinGoes DEF Spin!Unmake, SpinLabels
  <2>2. CASE obj.ptr = "static"
    <3>1. obj' = [obj EXCEPT !.ptr = "null"]
      BY <1>5, <2>2 DEF Spin!Unmake, Spin!StillStatic
    <3>2. \A u \in Thread : pc[u] # "compare" /\ ~loc[u].holds
      BY <2>2 DEF Spin!SpinInv, Spin!UsedOnceMade
    <3> QED  BY <2>1, <3>1, <3>2, SpinGivenUp DEF SpinLabels
  <2>3. CASE obj.ptr # "static"
    <3>1. UNCHANGED obj
      BY <1>5, <2>3 DEF Spin!Unmake, Spin!StillStatic
    <3> QED  BY <2>1, <3>1, SpinStays DEF SpinLabels
  <2> QED  BY <2>2, <2>3
<1>6. CASE Spin!Destroy(t)
  <2>1. /\ obj.ptr = "live" /\ \A u \in Thread : pc[u] = "idle"
        /\ obj.interlock # "LOCKED" /\ obj.mutex = Spin!NOBODY
        /\ obj' = [obj EXCEPT !.ptr = "null"] /\ UNCHANGED <<pc, loc>>
    BY <1>6 DEF Spin!Destroy
  <2>2. \A u \in Thread : pc[u] # "compare" /\ ~loc[u].holds
    BY <2>1, ThreadAssumption DEF Spin!SpinInv, Spin!HeldByOne, Spin!NOBODY
  <2>3. SpinAt(t, "idle") /\ SpinHas(t, loc[t].holds)
    <3>1. pc \in [Thread -> SpinLabels]
      BY <1>0 DEF Spin!TypeOK, SpinLabels
    <3> QED  BY <1>0, <2>1, <3>1, SpinGoes DEF SpinAt
  <2> QED  BY <2>1, <2>2, <2>3, SpinGivenUp DEF SpinLabels
<1> QED  BY <1>1, <1>2, <1>3, <1>4, <1>5, <1>6 DEF Spin!Step

(* At first nobody is inside.                                              *)
LEMMA SpinInit == Spin!Init => Spin!SpinInv
<1> SUFFICES ASSUME Spin!Init PROVE Spin!SpinInv
  OBVIOUS
<1>1. /\ obj \in SpinObject /\ obj.made = 0 /\ obj.interlock # "LOCKED"
      /\ obj.mutex = Spin!NOBODY
  BY DEF Spin!Init, SpinObject, Spin!Made
<1>2. /\ pc \in [Thread -> SpinLabels] /\ loc \in [Thread -> SpinCalls]
      /\ \A t \in Thread : pc[t] = "idle" /\ loc[t].holds = FALSE
  BY DEF Spin!Init, SpinLabels, SpinCalls
<1>3. Spin!TypeOK
  BY <1>1, <1>2 DEF Spin!TypeOK, SpinObject, SpinLabels, SpinCalls
<1>4. Spin!UsedOnceMade
  BY <1>1, <1>2 DEF Spin!UsedOnceMade
<1>5. Spin!HeldByOne
  BY <1>1, <1>2, ThreadAssumption DEF Spin!HeldByOne, Spin!NOBODY
<1> QED  BY <1>3, <1>4, <1>5 DEF Spin!SpinInv

(* A behaviour of a spin lock stays one, and keeps SpinInv.                *)
LEMMA SpinBehaviour == Spec /\ kind = "spin" => [](kind = "spin" /\ Spin!SpinInv)
<1>1. Init /\ kind = "spin" => Spin!SpinInv
  BY SpinInit DEF Init
<1>2. kind = "spin" /\ Spin!SpinInv /\ [Next]_vars => (kind = "spin" /\ Spin!SpinInv)'
  <2> SUFFICES ASSUME kind = "spin", Spin!SpinInv, [Next]_vars
               PROVE  kind' = "spin" /\ Spin!SpinInv'
    OBVIOUS
  <2>1. kind' = kind /\ (Spin!Next \/ UNCHANGED <<obj, pc, loc>>)
    BY DEF Next, vars
  <2>2. CASE Spin!Next
    BY <2>1, <2>2, SpinThread DEF Spin!Next
  <2>3. CASE UNCHANGED <<obj, pc, loc>>
    BY <2>1, <2>3 DEF Spin!SpinInv, Spin!TypeOK, Spin!UsedOnceMade, Spin!HeldByOne
  <2> QED  BY <2>1, <2>2, <2>3
<1> QED  BY <1>1, <1>2, PTL DEF Spec

(* What interlock and the mutex of a spin lock say of who has it is true   *)
(* in every state.                                                         *)
THEOREM SpinRecordsTrue == Spec /\ kind = "spin" => []RecordsTrue
<1>1. kind = "spin" /\ Spin!SpinInv => RecordsTrue
  BY DEF RecordsTrue
<1> QED  BY <1>1, SpinBehaviour, PTL

(* Threads that meet at a static spin lock make one, and one that was      *)
(* given up before its first use is held by nobody.                        *)
THEOREM SpinMadeOnce == Spec /\ kind = "spin" => []DoneOnce
<1>1. ASSUME kind = "spin", Spin!SpinInv PROVE DoneOnce
  <2>1. obj.made <= 1
    BY <1>1 DEF Spin!SpinInv, Spin!TypeOK
  <2>2. obj.ptr = "null" => Spin!Inside = {}
    BY <1>1 DEF Spin!SpinInv, Spin!UsedOnceMade, Spin!Inside
  <2> QED  BY <1>1, <2>1, <2>2 DEF DoneOnce, Spin!MadeOnce
<1> QED  BY <1>1, SpinBehaviour, PTL

(* The spin lock implements Exclusion.                                     *)
LEMMA SpinExclusion == Spec /\ kind = "spin" => ImplementsExclusion
<1>1. Init /\ kind = "spin" => Excl!Init
  <2> SUFFICES ASSUME Spin!Init, kind = "spin" PROVE Excl!Init
    BY DEF Init
  <2>1. Spin!Inside = {}
    BY DEF Spin!Init, Spin!Inside
  <2> QED  BY <2>1 DEF Writers, Readers, Excl!Init
<1>2. kind = "spin" /\ Spin!SpinInv /\ (kind = "spin" /\ Spin!SpinInv)' /\ [Next]_vars
      => [Excl!Next]_<<Writers, Readers>>
  <2> SUFFICES ASSUME kind = "spin", kind' = "spin", Spin!SpinInv, [Next]_vars
               PROVE  [Excl!Next]_<<Writers, Readers>>
    OBVIOUS
  <2>1. /\ Writers = Spin!Inside /\ Writers' = Spin!Inside'
        /\ Readers = {} /\ Readers' = {}
    BY DEF Writers, Readers
  <2>2. CASE Spin!Next
    <3>1. PICK t \in Thread : SpinExcludes(t)
      BY <2>2, SpinThread DEF Spin!Next
    <3>2. CASE loc'[t].holds <=> loc[t].holds
      <4>1. Spin!Inside' = Spin!Inside
        BY <3>1, <3>2 DEF Spin!Inside, SpinExcludes
      <4> QED  BY <4>1, <2>1
    <3>3. CASE loc'[t].holds /\ ~loc[t].holds
      <4>1. Spin!Inside = {} /\ Spin!Inside' = {t}
        BY <3>1, <3>3 DEF Spin!Inside, SpinExcludes
      <4> QED  BY <4>1, <2>1 DEF Excl!Next, Excl!Write
    <3>4. CASE ~loc'[t].holds /\ loc[t].holds
      <4>1. t \in Spin!Inside /\ Spin!Inside' = Spin!Inside \ {t}
        BY <3>1, <3>4 DEF Spin!Inside, SpinExcludes
      <4> QED  BY <4>1, <2>1 DEF Excl!Next, Excl!Leave
    <3> QED  BY <3>2, <3>3, <3>4
  <2>3. CASE UNCHANGED <<obj, pc, loc>>
    BY <2>1, <2>3 DEF Spin!Inside
  <2> QED  BY <2>2, <2>3 DEF Next, vars
<1> QED  BY <1>1, <1>2, SpinBehaviour, PTL DEF Spec, ImplementsExclusion, Excl!Spec

-----------------------------------------------------------------------------
(* pthread_once.                                                           *)

OnceObject == [done: BOOLEAN, queue: Seq(Thread), completed: 0..1]

OnceLabels == {"idle", "acquire", "queued", "locked", "routine", "done", "release",
               "returned"}

(* The thread t goes on at label l, and only it.                           *)
OnceAt(t, l) == /\ pc' \in [Thread -> OnceLabels]
                /\ pc'[t] = l
                /\ \A u \in Thread : u # t => pc'[u] = pc[u]

(* What a jump to a label does.                                            *)
LEMMA OnceGoes ==
  ASSUME First!TypeOK, NEW t \in Thread, NEW l \in OnceLabels, First!Goto(t, l)
  PROVE OnceAt(t, l)
  BY DEF First!TypeOK, First!Goto, OnceLabels, OnceAt

(* The once-control after a step.                                          *)
OnceIs(done, queue, completed) ==
  /\ obj' \in OnceObject
  /\ obj'.done = done /\ obj'.queue = queue /\ obj'.completed = completed

(* What the assignments to the once-control change.                        *)
LEMMA OnceObjects ==
  ASSUME First!TypeOK
  PROVE /\ UNCHANGED obj => OnceIs(obj.done, obj.queue, obj.completed)
        /\ \A q \in Seq(Thread) : obj' = [obj EXCEPT !.queue = q] =>
             OnceIs(obj.done, q, obj.completed)
        /\ \A c \in 0..1 : obj' = [obj EXCEPT !.completed = c] =>
             OnceIs(obj.done, obj.queue, c)
        /\ obj' = [obj EXCEPT !.done = TRUE] => OnceIs(TRUE, obj.queue, obj.completed)
<1>0. obj \in OnceObject
  BY DEF First!TypeOK, OnceObject
<1>1. UNCHANGED obj => OnceIs(obj.done, obj.queue, obj.completed)
  BY <1>0 DEF OnceIs
<1>2. ASSUME NEW q \in Seq(Thread), obj' = [obj EXCEPT !.queue = q]
      PROVE  OnceIs(obj.done, q, obj.completed)
  BY <1>0, <1>2 DEF OnceIs, OnceObject
<1>3. ASSUME NEW c \in 0..1, obj' = [obj EXCEPT !.completed = c]
      PROVE  OnceIs(obj.done, obj.queue, c)
  BY <1>0, <1>3 DEF OnceIs, OnceObject
<1>4. ASSUME obj' = [obj EXCEPT !.done = TRUE]
      PROVE  OnceIs(TRUE, obj.queue, obj.completed)
  BY <1>0, <1>4 DEF OnceIs, OnceObject
<1> QED  BY <1>1, <1>2, <1>3, <1>4

(* A step with these effects keeps the types.                              *)
LEMMA OnceTyped ==
  ASSUME NEW t \in Thread, NEW l, OnceAt(t, l), NEW d, NEW q, NEW c, OnceIs(d, q, c)
  PROVE First!TypeOK'
  BY DEF OnceAt, OnceIs, OnceObject, OnceLabels, First!TypeOK

(* The thread that has the lock is the first of the queue, and the only    *)
(* one that is past waiting for it.                                        *)
LEMMA OnceFirst ==
  ASSUME First!OnceInv, NEW t \in Thread, pc[t] \in First!InQueue \ {"queued"}
  PROVE /\ Len(obj.queue) \in Nat \ {0} /\ obj.queue[1] = t
        /\ \A u \in Thread : u # t => pc[u] \notin First!InQueue \ {"queued"}
<1>1. PICK i \in 1..Len(obj.queue) : obj.queue[i] = t
  BY DEF First!OnceInv, First!QueueTrue
<1>2. obj.queue \in Seq(Thread)
  BY DEF First!OnceInv, First!TypeOK
<1>3. Len(obj.queue) \in Nat \ {0}
  BY <1>1, <1>2
<1>4. \A u \in Thread : pc[u] \in First!InQueue \ {"queued"} => obj.queue[1] = u
  BY DEF First!OnceInv, First!QueueTrue
<1> QED  BY <1>3, <1>4

(* The queue stays as it is while no thread comes or goes.                 *)
LEMMA OnceQueueStays ==
  ASSUME First!OnceInv, NEW t \in Thread, NEW l, OnceAt(t, l), obj'.queue = obj.queue,
         pc[t] \in First!InQueue <=> l \in First!InQueue,
         l \in First!InQueue \ {"queued"} => obj.queue[1] = t
  PROVE First!QueueTrue'
<1>1. obj.queue \in Seq(Thread) /\ First!QueueTrue
  BY DEF First!OnceInv, First!TypeOK
<1>2. \A u \in Thread : pc'[u] \in First!InQueue <=> pc[u] \in First!InQueue
  BY DEF OnceAt
<1>3. \A i \in 1..Len(obj.queue) : obj.queue[i] \in Thread
  BY <1>1
<1>4. \A u \in Thread : pc'[u] \in First!InQueue \ {"queued"} => obj.queue[1] = u
  BY <1>1 DEF OnceAt, First!QueueTrue
<1> QED  BY <1>1, <1>2, <1>3, <1>4 DEF First!QueueTrue

(* The first of the queue leaves it.                                       *)
LEMMA OnceQueueLeft ==
  ASSUME First!OnceInv, NEW t \in Thread, NEW l \in {"idle", "returned"}, OnceAt(t, l),
         pc[t] \in First!InQueue \ {"queued"}, obj'.queue = Tail(obj.queue)
  PROVE First!QueueTrue'
<1> DEFINE q == obj.queue
<1>1. q \in Seq(Thread) /\ First!QueueTrue
  BY DEF First!OnceInv, First!TypeOK
<1>2. /\ Len(q) \in Nat \ {0} /\ q[1] = t
      /\ \A u \in Thread : u # t => pc[u] \notin First!InQueue \ {"queued"}
  BY OnceFirst
<1>3. /\ Len(obj'.queue) = Len(q) - 1
      /\ \A i \in 1..Len(q) - 1 : obj'.queue[i] = q[i + 1] /\ i + 1 \in 1..Len(q)
  BY <1>1, <1>2
<1>4. l \notin First!InQueue
  BY DEF First!InQueue
<1>5. \A i \in 1..Len(q) - 1 : q[i + 1] \in Thread /\ q[i + 1] # t
  BY <1>1, <1>2 DEF First!QueueTrue
<1>6. ASSUME NEW i \in 1..Len(obj'.queue) PROVE pc'[obj'.queue[i]] \in First!InQueue
  <2>1. i \in 1..Len(q) - 1 /\ obj'.queue[i] = q[i + 1] /\ i + 1 \in 1..Len(q)
    BY <1>3
  <2>2. pc[q[i + 1]] \in First!InQueue
    BY <1>1, <2>1 DEF First!QueueTrue
  <2> QED  BY <1>5, <2>1, <2>2 DEF OnceAt
<1>7. ASSUME NEW u \in Thread, pc'[u] \in First!InQueue
      PROVE  \E i \in 1..Len(obj'.queue) : obj'.queue[i] = u
  <2>1. u # t /\ pc[u] \in First!InQueue
    BY <1>4, <1>7 DEF OnceAt
  <2>2. PICK j \in 1..Len(q) : q[j] = u
    BY <1>1, <2>1 DEF First!QueueTrue
  <2>3. j - 1 \in 1..Len(q) - 1
    BY <1>2, <2>1, <2>2
  <2>4. obj'.queue[j - 1] = u
    BY <1>3, <2>2, <2>3
  <2> QED  BY <1>3, <2>3, <2>4
<1>8. ASSUME NEW i \in 1..Len(obj'.queue), NEW j \in 1..Len(obj'.queue),
             obj'.queue[i] = obj'.queue[j]
      PROVE  i = j
  <2>1. /\ i \in Nat /\ j \in Nat
        /\ i + 1 \in 1..Len(q) /\ obj'.queue[i] = q[i + 1]
        /\ j + 1 \in 1..Len(q) /\ obj'.queue[j] = q[j + 1]
    BY <1>2, <1>3
  <2>2. i + 1 = j + 1
    BY <1>1, <1>8, <2>1 DEF First!QueueTrue
  <2> QED  BY <2>1, <2>2
<1>9. \A u \in Thread : pc'[u] \notin First!InQueue \ {"queued"}
  BY <1>2, <1>4 DEF OnceAt
<1> QED  BY <1>6, <1>7, <1>8, <1>9 DEF First!QueueTrue

(* A thread comes to the end of the queue.                                 *)
LEMMA OnceQueueJoined ==
  ASSUME First!OnceInv, NEW t \in Thread, OnceAt(t, "queued"), pc[t] = "acquire",
         obj'.queue = Append(obj.queue, t)
  PROVE First!QueueTrue'
<1> DEFINE q == obj.queue
           n == Len(q) + 1
<1>1. q \in Seq(Thread) /\ First!QueueTrue /\ Len(q) \in Nat
  BY DEF First!OnceInv, First!TypeOK
<1>2. /\ Len(obj'.queue) = n /\ obj'.queue[n] = t
      /\ \A i \in 1..Len(q) : obj'.queue[i] = q[i]
  BY <1>1
<1>3. \A i \in 1..n : i \in 1..Len(q) \/ i = n
  BY <1>1
<1>4. \A i \in 1..Len(q) : q[i] \in Thread /\ q[i] # t /\ pc[q[i]] \in First!InQueue
  BY <1>1 DEF First!QueueTrue, First!InQueue
<1>5. ASSUME NEW i \in 1..n PROVE pc'[obj'.queue[i]] \in First!InQueue
  <2>1. CASE i = n
    BY <1>2, <2>1 DEF OnceAt, First!InQueue
  <2>2. CASE i \in 1..Len(q)
    BY <1>2, <1>4, <2>2 DEF OnceAt
  <2> QED  BY <1>3, <2>1, <2>2
<1>6. ASSUME NEW u \in Thread, pc'[u] \in First!InQueue
      PROVE  \E i \in 1..n : obj'.queue[i] = u
  <2>1. CASE u = t
    BY <1>1, <1>2, <2>1
  <2>2. CASE u # t
    <3>1. PICK i \in 1..Len(q) : q[i] = u
      BY <1>1, <1>6, <2>2 DEF OnceAt, First!QueueTrue
    <3> QED  BY <1>1, <1>2, <3>1
  <2> QED  BY <2>1, <2>2
<1>7. ASSUME NEW i \in 1..n, NEW j \in 1..n, obj'.queue[i] = obj'.queue[j] PROVE i = j
  <2>1. CASE i \in 1..Len(q) /\ j \in 1..Len(q)
    BY <1>1, <1>2, <1>7, <2>1 DEF First!QueueTrue
  <2>2. CASE i = n \/ j = n
    <3>1. \A k \in 1..Len(q) : obj'.queue[k] # obj'.queue[n]
      BY <1>2, <1>4
    <3> QED  BY <1>3, <1>7, <2>2, <3>1
  <2> QED  BY <1>3, <2>1, <2>2
<1>8. ASSUME NEW u \in Thread, pc'[u] \in First!InQueue \ {"queued"}
      PROVE  obj'.queue[1] = u
  <2>1. u # t /\ pc[u] \in First!InQueue \ {"queued"}
    BY <1>8 DEF OnceAt
  <2>2. Len(q) \in Nat \ {0} /\ q[1] = u
    BY <2>1, OnceFirst
  <2>3. 1 \in 1..Len(q)
    BY <2>2
  <2> QED  BY <1>2, <2>2, <2>3
<1> QED  BY <1>2, <1>5, <1>6, <1>7, <1>8 DEF First!QueueTrue

(* Every step of a thread keeps OnceInv.                                   *)
LEMMA OnceThread ==
  ASSUME First!OnceInv, NEW t \in Thread,
         First!Step(t) \/ First!Call(t) \/ First!RoutineReturns(t) \/ First!Cancelled(t)
  PROVE First!OnceInv'
<1>0. First!TypeOK /\ First!DoneTrue /\ obj.queue \in Seq(Thread)
  BY DEF First!OnceInv, First!TypeOK
<1>1. CASE First!Call(t)
  <2>1. pc[t] = "idle" /\ OnceIs(obj.done, obj.queue, obj.completed)
    BY <1>0, <1>1, OnceObjects DEF First!Call
  <2>2. PICK l \in {"returned", "acquire"} : OnceAt(t, l) /\ (l = "returned" => obj.done)
    BY <1>0, <1>1, OnceGoes DEF First!Call, OnceLabels
  <2>3. First!QueueTrue'
    BY <2>1, <2>2, OnceQueueStays DEF OnceIs, First!InQueue
  <2>4. First!DoneTrue'
    BY <1>0, <2>1, <2>2 DEF First!DoneTrue, OnceAt, OnceIs
  <2> QED  BY <2>1, <2>2, <2>3, <2>4, OnceTyped DEF First!OnceInv
<1>2. CASE First!Acquire(t) /\ pc[t] = "acquire"
  <2>1. OnceIs(obj.done, Append(obj.queue, t), obj.completed) /\ OnceAt(t, "queued")
    <3>1. Append(obj.queue, t) \in Seq(Thread)
      BY <1>0
    <3>2. obj' = [obj EXCEPT !.queue = Append(obj.queue, t)] /\ First!Goto(t, "queued")
      BY <1>2 DEF First!Acquire
    <3> QED  BY <1>0, <3>1, <3>2, OnceObjects, OnceGoes DEF OnceLabels
  <2>2. First!QueueTrue'
    BY <1>2, <2>1, OnceQueueJoined DEF OnceIs
  <2>3. First!DoneTrue'
    BY <1>0, <1>2, <2>1 DEF First!DoneTrue, OnceAt, OnceIs
  <2> QED  BY <2>1, <2>2, <2>3, OnceTyped DEF First!OnceInv
<1>3. CASE First!Acquire(t) /\ pc[t] = "queued"
  <2>1. OnceIs(obj.done, obj.queue, obj.completed) /\ OnceAt(t, "locked")
    BY <1>0, <1>3, OnceObjects, OnceGoes DEF First!Acquire, OnceLabels
  <2>2. obj.queue[1] = t
    BY <1>0, <1>3 DEF First!Acquire
  <2>3. First!QueueTrue'
    BY <1>3, <2>1, <2>2, OnceQueueStays DEF OnceIs, First!InQueue
  <2>4. First!DoneTrue'
    BY <1>0, <1>3, <2>1 DEF First!DoneTrue, OnceAt, OnceIs
  <2> QED  BY <2>1, <2>3, <2>4, OnceTyped DEF First!OnceInv
<1>4. CASE First!Recheck(t)
  <2>0. pc[t] = "locked" /\ obj.queue[1] = t
    BY <1>4, OnceFirst DEF First!Recheck, First!InQueue
  <2>1. OnceIs(obj.done, obj.queue, obj.completed)
    BY <1>0, <1>4, OnceObjects DEF First!Recheck
  <2>2. PICK l \in {"release", "routine"} :
          OnceAt(t, l) /\ (l = "release" => obj.done) /\ (l = "routine" => ~obj.done)
    BY <1>0, <1>4, OnceGoes DEF First!Recheck, First!DoneMeanwhile, OnceLabels
  <2>3. First!QueueTrue'
    BY <2>0, <2>1, <2>2, OnceQueueStays DEF OnceIs, First!InQueue
  <2>4. First!DoneTrue'
    BY <1>0, <2>0, <2>1, <2>2 DEF First!DoneTrue, OnceAt, OnceIs
  <2> QED  BY <2>1, <2>2, <2>3, <2>4, OnceTyped DEF First!OnceInv
<1>5. CASE First!RoutineReturns(t)
  <2>0. /\ pc[t] = "routine" /\ obj.queue[1] = t
        /\ \A u \in Thread : u # t => pc[u] # "done"
    BY <1>5, OnceFirst DEF First!RoutineReturns, First!InQueue
  <2>1. obj.completed = 0
    BY <1>0, <2>0 DEF First!DoneTrue, First!TypeOK
  <2>2. OnceIs(obj.done, obj.queue, 1) /\ OnceAt(t, "done")
    BY <1>0, <1>5, <2>1, OnceObjects, OnceGoes DEF First!RoutineReturns, OnceLabels
  <2>3. First!QueueTrue'
    BY <2>0, <2>2, OnceQueueStays DEF OnceIs, First!InQueue
  <2>4. First!DoneTrue'
    BY <1>0, <2>2 DEF First!DoneTrue, OnceAt, OnceIs
  <2> QED  BY <2>2, <2>3, <2>4, OnceTyped DEF First!OnceInv
<1>6. CASE First!SetDone(t)
  <2>0. /\ pc[t] = "done" /\ obj.queue[1] = t
        /\ \A u \in Thread : u # t => pc[u] # "routine"
    BY <1>6, OnceFirst DEF First!SetDone, First!InQueue
  <2>1. obj.completed = 1
    BY <1>0, <2>0 DEF First!DoneTrue
  <2>2. OnceIs(TRUE, obj.queue, obj.completed) /\ OnceAt(t, "release")
    BY <1>0, <1>6, OnceObjects, OnceGoes DEF First!SetDone, OnceLabels
  <2>3. First!QueueTrue'
    BY <2>0, <2>2, OnceQueueStays DEF OnceIs, First!InQueue
  <2>4. First!DoneTrue'
    BY <1>0, <2>0, <2>1, <2>2 DEF First!DoneTrue, OnceAt, OnceIs
  <2> QED  BY <2>2, <2>3, <2>4, OnceTyped DEF First!OnceInv
<1>7. CASE First!ReleaseLock(t) \/ First!Cancelled(t)
  <2>0. pc[t] \in {"release", "routine"} /\ Len(obj.queue) \in Nat \ {0}
    BY <1>7, OnceFirst DEF First!ReleaseLock, First!Cancelled, First!InQueue
  <2>1. OnceIs(obj.done, Tail(obj.queue), obj.completed)
    <3>1. Tail(obj.queue) \in Seq(Thread)
      BY <1>0, <2>0
    <3>2. obj' = [obj EXCEPT !.queue = Tail(obj.queue)]
      BY <1>7 DEF First!ReleaseLock, First!Cancelled, First!OnInitCancel
    <3> QED  BY <1>0, <3>1, <3>2, OnceObjects
  <2>2. PICK l \in {"idle", "returned"} :
          OnceAt(t, l) /\ (l = "returned" => pc[t] = "release")
    BY <1>0, <1>7, OnceGoes DEF First!ReleaseLock, First!Cancelled, OnceLabels
  <2>3. First!QueueTrue'
    BY <2>0, <2>1, <2>2, OnceQueueLeft DEF OnceIs, First!InQueue
  <2>4. First!DoneTrue'
    BY <1>0, <2>0, <2>1, <2>2 DEF First!DoneTrue, OnceAt, OnceIs
  <2> QED  BY <2>1, <2>2, <2>3, <2>4, OnceTyped DEF First!OnceInv
<1>8. CASE First!Return(t)
  <2>1. /\ pc[t] = "returned"
        /\ OnceIs(obj.done, obj.queue, obj.completed) /\ OnceAt(t, "idle")
    BY <1>0, <1>8, OnceObjects, OnceGoes DEF First!Return, OnceLabels
  <2>2. First!QueueTrue'
    BY <2>1, OnceQueueStays DEF OnceIs, First!InQueue
  <2>3. First!DoneTrue'
    BY <1>0, <2>1 DEF First!DoneTrue, OnceAt, OnceIs
  <2> QED  BY <2>1, <2>2, <2>3, OnceTyped DEF First!OnceInv
<1>9. First!Acquire(t) => pc[t] \in {"acquire", "queued"}
  BY DEF First!Acquire
<1> QED  BY <1>1, <1>2, <1>3, <1>4, <1>5, <1>6, <1>7, <1>8, <1>9 DEF First!Step

(* At first nobody has called.                                             *)
LEMMA OnceInit == First!Init => First!OnceInv
<1> SUFFICES ASSUME First!Init PROVE First!OnceInv
  OBVIOUS
<1>1. /\ obj = [done |-> FALSE, queue |-> <<>>, completed |-> 0]
      /\ pc = [t \in Thread |-> "idle"]
  BY DEF First!Init
<1>2. First!TypeOK
  <2>1. <<>> \in Seq(Thread)
    OBVIOUS
  <2> QED  BY <1>1, <2>1 DEF First!TypeOK
<1>3. First!QueueTrue
  BY <1>1 DEF First!QueueTrue, First!InQueue
<1>4. First!DoneTrue
  BY <1>1 DEF First!DoneTrue
<1> QED  BY <1>2, <1>3, <1>4 DEF First!OnceInv

(* A behaviour of pthread_once stays one, and keeps OnceInv.               *)
LEMMA OnceBehaviour == Spec /\ kind = "once" => [](kind = "once" /\ First!OnceInv)
<1>1. Init /\ kind = "once" => First!OnceInv
  BY OnceInit DEF Init
<1>2. kind = "once" /\ First!OnceInv /\ [Next]_vars => (kind = "once" /\ First!OnceInv)'
  <2> SUFFICES ASSUME kind = "once", First!OnceInv, [Next]_vars
               PROVE  kind' = "once" /\ First!OnceInv'
    OBVIOUS
  <2>1. kind' = kind /\ (First!Next \/ UNCHANGED <<obj, pc, loc>>)
    BY DEF Next, vars
  <2>2. CASE First!Next
    BY <2>1, <2>2, OnceThread DEF First!Next
  <2>3. CASE UNCHANGED <<obj, pc, loc>>
    BY <2>1, <2>3 DEF First!OnceInv, First!TypeOK, First!QueueTrue, First!DoneTrue
  <2> QED  BY <2>1, <2>2, <2>3
<1> QED  BY <1>1, <1>2, PTL DEF Spec

(* The queue of pthread_once holds those that wait for its lock, and the   *)
(* flag is true of the routine, in every state.                            *)
THEOREM OnceRecordsTrue == Spec /\ kind = "once" => []RecordsTrue
<1>1. kind = "once" /\ First!OnceInv => RecordsTrue
  BY DEF RecordsTrue
<1> QED  BY <1>1, OnceBehaviour, PTL

(* The routine of pthread_once completes at most once, in one thread at a  *)
(* time, and before any call returns, whoever is cancelled in it.          *)
THEOREM OnceDoneOnce == Spec /\ kind = "once" => []DoneOnce
<1>1. ASSUME kind = "once", First!OnceInv PROVE DoneOnce
  <2>1. obj.completed \in 0..1
    BY <1>1 DEF First!OnceInv, First!TypeOK
  <2>2. ASSUME NEW t \in Thread, NEW u \in Thread, pc[t] = "routine", pc[u] = "routine"
        PROVE  t = u
    BY <1>1, <2>2, OnceFirst DEF First!InQueue
  <2>3. ASSUME NEW t \in Thread
        PROVE  /\ pc[t] = "returned" => obj.completed = 1
               /\ pc[t] = "routine" => obj.completed = 0
    <3>1. pc[t] = "returned" => obj.completed = 1
      BY <1>1 DEF First!OnceInv, First!DoneTrue
    <3>2. ASSUME pc[t] = "routine" PROVE obj.completed # 1
      <4>1. ~obj.done /\ ~(\E u \in Thread : pc[u] = "done")
        BY <1>1, <3>2, OnceFirst DEF First!OnceInv, First!DoneTrue, First!InQueue
      <4> QED  BY <1>1, <4>1 DEF First!OnceInv, First!DoneTrue
    <3> QED  BY <2>1, <3>1, <3>2
  <2> QED  BY <1>1, <2>1, <2>2, <2>3 DEF DoneOnce, First!InitialisedOnce
<1> QED  BY <1>1, OnceBehaviour, PTL

-----------------------------------------------------------------------------
(* What several of them promise.                                           *)

(* The kind of a behaviour does not change.                                *)
LEMMA KindStays == [Next]_vars => kind' = kind
  BY DEF Next, vars

(* An object that is no lock keeps nobody inside.                          *)
LEMMA NoLockExcludes ==
  Spec /\ kind \notin {"mutex", "mcs", "spin", "rwlock"} => ImplementsExclusion
<1> DEFINE Other == kind \notin {"mutex", "mcs", "spin", "rwlock"}
<1>1. Other => Writers = {} /\ Readers = {}
  BY DEF Writers, Readers
<1>2. Other /\ [Next]_vars => Other'
  BY KindStays
<1>3. Other /\ Other' /\ [Next]_vars => UNCHANGED <<Writers, Readers>>
  BY DEF Writers, Readers
<1>4. Other => Excl!Init
  BY <1>1 DEF Excl!Init
<1> HIDE DEF Other
<1>5. Spec /\ Other => ImplementsExclusion
  BY <1>2, <1>3, <1>4, PTL DEF Spec, ImplementsExclusion, Excl!Spec
<1> QED  BY <1>5 DEF Other

(* An object that is no semaphore grants nothing.                          *)
LEMMA NoSemaphoreCounts == Spec /\ kind # "semaphore" => ImplementsCounting
<1> DEFINE Other == kind # "semaphore"
           Units_ == <<IF kind = "semaphore" THEN Sem!Count ELSE 0,
                       IF kind = "semaphore" THEN Sem!Granted ELSE {}>>
<1>1. Other => Units!Init
  BY BoundAssumption DEF Units!Init
<1>2. Other /\ [Next]_vars => Other'
  BY KindStays
<1>3. Other /\ Other' => UNCHANGED Units_
  OBVIOUS
<1>4. Spec /\ kind # "semaphore" => Units!Spec
  BY <1>1, <1>2, <1>3, PTL DEF Spec, Units!Spec
<1> QED  BY <1>4 DEF ImplementsCounting

(* An object that is no barrier keeps nobody waiting for a round.          *)
LEMMA NoBarrierRounds == Spec /\ kind # "barrier" => ImplementsRounds
<1> DEFINE Other == kind # "barrier"
           Rounds_ == <<IF kind = "barrier" THEN Meet!Arrived ELSE {},
                        IF kind = "barrier" THEN Meet!Leaving ELSE {},
                        IF kind = "barrier" THEN Meet!Told ELSE [t \in Thread |-> "none"]>>
<1>1. Other => Rounds!Init
  BY DEF Rounds!Init
<1>2. Other /\ [Next]_vars => Other'
  BY KindStays
<1>3. Other /\ Other' => UNCHANGED Rounds_
  OBVIOUS
<1>4. Other /\ Other' => [Rounds!Next]_Rounds_
  BY <1>3
<1>5. Spec /\ kind # "barrier" => Rounds!Spec
  BY <1>1, <1>2, <1>4, PTL DEF Spec, Rounds!Spec
<1> QED  BY <1>5 DEF ImplementsRounds

(* Mutex, spin lock and semaphore keep what their users were promised: the *)
(* first two implement Exclusion, the third a CountingSemaphore.           *)
THEOREM PromiseKept ==
  Spec /\ kind \in {"mutex", "spin", "semaphore"} => KeepsPromise
<1>1. Spec /\ kind = "mutex" => KeepsPromise
  BY MutexExclusion, NoSemaphoreCounts, NoBarrierRounds DEF KeepsPromise
<1>2. Spec /\ kind = "spin" => KeepsPromise
  BY SpinExclusion, NoSemaphoreCounts, NoBarrierRounds DEF KeepsPromise
<1>3. Spec /\ kind = "semaphore" => KeepsPromise
  BY SemCounts, NoLockExcludes, NoBarrierRounds DEF KeepsPromise
<1> QED  BY <1>1, <1>2, <1>3

=============================================================================
