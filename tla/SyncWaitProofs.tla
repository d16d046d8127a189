--------------------------- MODULE SyncWaitProofs ----------------------------
(***************************************************************************)
(* Proofs about the threads library, continued: the condition variable,    *)
(* for any number of threads.                                              *)
(***************************************************************************)
EXTENDS SyncProofs, SumTheorems

-----------------------------------------------------------------------------
(* The condition variable.                                                 *)

CondLabels == {"idle", "init", "gate", "count", "blocking", "queue", "cleanup", "retract",
               "forget", "open", "relock", "unlock", "lock", "unblock", "shut", "post",
               "list", "close", "try"}

CondObject == [ptr: {"static", "live", "null"}, nWaitersBlocked: Int,
               nWaitersToUnblock: Int, nWaitersGone: Int, semBlockLock: Int,
               semBlockQueue: Int, mtxUnblockLock: Waiter \cup {Cond!NOBODY},
               mutex: Waiter \cup {Cond!NOBODY}, list: Waiter \cup {Cond!NOBODY}]

CondOps == {"none", "wait", "timedwait", "signal", "broadcast", "destroy"}

CondResults == {"none", "0", "ETIMEDOUT", "CANCELED", "EBUSY"}

CondCalls == [op: CondOps, n: 0..Cardinality(Waiter), result: CondResults]

(* The thread t goes on at label l, and only it.                           *)
CondAt(t, l) == /\ pc' \in [Waiter -> CondLabels]
                /\ pc'[t] = l
                /\ \A u \in Waiter : u # t => pc'[u] = pc[u]

(* Its call is of op, with n signals to issue or left, and only that one.  *)
CondCall(t, op, n) == /\ loc' \in [Waiter -> CondCalls]
                      /\ loc'[t].op = op /\ loc'[t].n = n
                      /\ \A u \in Waiter : u # t => loc'[u] = loc[u]

(* The variable has these fields after a step.                             *)
CondFields(ptr, blocked, toUnblock, gone, gate, queue, unblockLock) ==
  /\ obj' \in CondObject
  /\ obj'.ptr = ptr /\ obj'.nWaitersBlocked = blocked
  /\ obj'.nWaitersToUnblock = toUnblock /\ obj'.nWaitersGone = gone
  /\ obj'.semBlockLock = gate /\ obj'.semBlockQueue = queue
  /\ obj'.mtxUnblockLock = unblockLock

CondSame == CondFields(obj.ptr, obj.nWaitersBlocked, obj.nWaitersToUnblock,
                       obj.nWaitersGone, obj.semBlockLock, obj.semBlockQueue,
                       obj.mtxUnblockLock)

(* Those awakened and on their way out, and the signals to be issued.      *)
CondLeaving == {t \in Waiter : pc[t] \in {"cleanup", "retract"}}
CondPosting == {t \in Waiter : pc[t] = "post"}
CondIssues  == [t \in Waiter |-> loc[t].n]
CondPosts   == SumFunctionOnSet(CondIssues, CondPosting)

(* Finitely many threads wait.                                             *)
LEMMA FewWaiters ==
  /\ IsFiniteSet(Waiter) /\ Cardinality(Waiter) \in Nat
  /\ \A S \in SUBSET Waiter : /\ IsFiniteSet(S)
                              /\ Cardinality(S) \in 0..Cardinality(Waiter)
<1>1. IsFiniteSet(Waiter)
  BY ThreadAssumption, WaiterAssumption, FS_Subset
<1>2. Cardinality(Waiter) \in Nat
  BY <1>1, FS_CardinalityType
<1>3. ASSUME NEW S \in SUBSET Waiter
      PROVE  IsFiniteSet(S) /\ Cardinality(S) \in 0..Cardinality(Waiter)
  <2>1. IsFiniteSet(S) /\ Cardinality(S) <= Cardinality(Waiter)
    BY <1>1, FS_Subset
  <2>2. Cardinality(S) \in Nat
    BY <2>1, FS_CardinalityType
  <2> QED  BY <1>2, <2>1, <2>2
<1> QED  BY <1>1, <1>2, <1>3

(* The operators of the variable's module are those of this one.           *)
LEMMA CondOperators ==
  /\ \A S : Cond!Cardinality(S) = Cardinality(S)
  /\ \A f, S : Cond!SumFunctionOnSet(f, S) = SumFunctionOnSet(f, S)
<1>1. ASSUME NEW S PROVE Cond!Cardinality(S) = Cardinality(S)
  BY DEF Cond!Cardinality, Cardinality
<1>2. ASSUME NEW f, NEW S PROVE Cond!SumFunctionOnSet(f, S) = SumFunctionOnSet(f, S)
  BY Zenon DEF Cond!SumFunctionOnSet, SumFunctionOnSet, Cond!FoldFunctionOnSet,
               FoldFunctionOnSet, Cond!MapThenFoldSet, MapThenFoldSet
<1> QED  BY <1>1, <1>2

(* WaitersCounted and NoLostWakeup in these words, before and after a step.*)
LEMMA CondWords ==
  /\ Cond!WaitersCounted <=>
       obj.nWaitersBlocked - obj.nWaitersGone + obj.nWaitersToUnblock = Cardinality(Cond!Counted)
  /\ Cond!WaitersCounted' <=>
       obj'.nWaitersBlocked - obj'.nWaitersGone + obj'.nWaitersToUnblock = Cardinality(Cond!Counted)'
  /\ Cond!NoLostWakeup <=>
       obj.nWaitersToUnblock <= obj.semBlockQueue + CondPosts + Cardinality(CondLeaving)
  /\ Cond!NoLostWakeup' <=>
       obj'.nWaitersToUnblock <= obj'.semBlockQueue + CondPosts' + Cardinality(CondLeaving)'
<1>1. /\ Cond!At({"cleanup", "retract"}) = CondLeaving
      /\ Cond!At({"post"}) = CondPosting
      /\ Cond!Issues = CondIssues
  BY DEF Cond!At, CondLeaving, CondPosting, Cond!Issues, CondIssues
<1>2. /\ Cond!At({"cleanup", "retract"})' = CondLeaving'
      /\ Cond!At({"post"})' = CondPosting'
      /\ Cond!Issues' = CondIssues'
  BY DEF Cond!At, CondLeaving, CondPosting, Cond!Issues, CondIssues
<1>3. Cond!WaitersCounted <=>
       obj.nWaitersBlocked - obj.nWaitersGone + obj.nWaitersToUnblock = Cardinality(Cond!Counted)
  BY CondOperators DEF Cond!WaitersCounted
<1>4. Cond!WaitersCounted' <=>
       obj'.nWaitersBlocked - obj'.nWaitersGone + obj'.nWaitersToUnblock = Cardinality(Cond!Counted)'
  BY CondOperators DEF Cond!WaitersCounted
<1>5. Cond!NoLostWakeup <=>
       obj.nWaitersToUnblock <= obj.semBlockQueue + CondPosts + Cardinality(CondLeaving)
  BY <1>1, CondOperators DEF Cond!NoLostWakeup, CondPosts
<1>6. Cond!NoLostWakeup' <=>
       obj'.nWaitersToUnblock <= obj'.semBlockQueue + CondPosts' + Cardinality(CondLeaving)'
  BY <1>2, CondOperators DEF Cond!NoLostWakeup, CondPosts
<1> QED  BY <1>3, <1>4, <1>5, <1>6

(* The invariant has all that the arithmetic of a step needs.              *)
CondValues ==
  /\ obj \in CondObject /\ obj.nWaitersBlocked >= 0 /\ obj.semBlockQueue >= 0
  /\ obj.nWaitersToUnblock >= 0 /\ obj.nWaitersGone >= 0 /\ obj.nWaitersGone <= GoneMax
  /\ obj.semBlockLock \in {0, 1}
  /\ pc \in [Waiter -> CondLabels] /\ loc \in [Waiter -> CondCalls]
  /\ \A t \in Waiter : loc[t].n \in Nat
  /\ Cardinality(Waiter) \in Nat /\ Cardinality(Cond!Counted) \in 0..Cardinality(Waiter)
  /\ Cardinality(CondLeaving) \in Nat /\ CondPosts \in Nat
  /\ obj.nWaitersBlocked - obj.nWaitersGone + obj.nWaitersToUnblock = Cardinality(Cond!Counted)
  /\ obj.nWaitersToUnblock <= obj.semBlockQueue + CondPosts + Cardinality(CondLeaving)
  /\ GoneMax \in Nat /\ GoneMax > 0

LEMMA CondValuesAre == Cond!CondInv => CondValues
<1> SUFFICES ASSUME Cond!CondInv PROVE CondValues
  OBVIOUS
<1>0. Cond!TypeOK /\ Cond!WaitersCounted /\ Cond!NoLostWakeup
  BY DEF Cond!CondInv
<1>1. /\ obj \in CondObject /\ obj.nWaitersBlocked >= 0 /\ obj.semBlockQueue >= 0
      /\ obj.nWaitersToUnblock >= 0 /\ obj.nWaitersGone >= 0 /\ obj.nWaitersGone <= GoneMax
      /\ obj.semBlockLock \in {0, 1}
      /\ pc \in [Waiter -> CondLabels]
  BY <1>0, CondOperators, FewWaiters, BoundAssumption DEF Cond!TypeOK, CondObject, CondLabels
<1>2. loc \in [Waiter -> CondCalls]
  BY <1>0, CondOperators DEF Cond!TypeOK, CondCalls, CondOps, CondResults
<1>3. \A t \in Waiter : loc[t].n \in Nat
  BY <1>2, FewWaiters DEF CondCalls
<1>4. /\ Cardinality(Cond!Counted) \in 0..Cardinality(Waiter)
      /\ Cardinality(CondLeaving) \in 0..Cardinality(Waiter)
      /\ IsFiniteSet(CondPosting)
  <2>1. /\ Cond!Counted \in SUBSET Waiter /\ CondLeaving \in SUBSET Waiter
        /\ CondPosting \in SUBSET Waiter
    BY DEF Cond!Counted, Cond!At, CondLeaving, CondPosting
  <2> QED  BY <2>1, FewWaiters
<1>5. CondPosts \in Nat
  <2>1. \A t \in CondPosting : CondIssues[t] \in Nat
    BY <1>3 DEF CondPosting, CondIssues
  <2> QED  BY <1>4, <2>1, SumIsNat DEF CondPosts
<1>6. /\ obj.nWaitersBlocked - obj.nWaitersGone + obj.nWaitersToUnblock = Cardinality(Cond!Counted)
      /\ obj.nWaitersToUnblock <= obj.semBlockQueue + CondPosts + Cardinality(CondLeaving)
  BY <1>0, CondWords
<1> QED  BY <1>1, <1>2, <1>3, <1>4, <1>5, <1>6, FewWaiters, SyncAssumption, BoundAssumption
         DEF CondValues

(* How a step changes the number of waiters, of those on their way out and *)
(* of signals to be issued.                                                *)
CondChange(waiters, leaving, posts) ==
  /\ Cardinality(Cond!Counted)' = Cardinality(Cond!Counted) + waiters
  /\ Cardinality(CondLeaving)' = Cardinality(CondLeaving) + leaving
  /\ CondPosts' = CondPosts + posts
  /\ Cardinality(Cond!Counted)' \in 0..Cardinality(Waiter)
  /\ Cardinality(CondLeaving)' \in Nat /\ CondPosts' \in Nat

In(l, labels) == IF l \in labels THEN 1 ELSE 0

LEMMA CondChanges ==
  ASSUME CondValues, NEW t \in Waiter, NEW l, CondAt(t, l), NEW op, NEW n, CondCall(t, op, n)
  PROVE  CondChange(
           In(l, {"blocking", "queue", "cleanup", "retract"})
             - In(pc[t], {"blocking", "queue", "cleanup", "retract"}),
           In(l, {"cleanup", "retract"}) - In(pc[t], {"cleanup", "retract"}),
           n * In(l, {"post"}) - loc[t].n * In(pc[t], {"post"}))
<1>1. /\ Cond!Counted \in SUBSET Waiter /\ CondLeaving \in SUBSET Waiter
      /\ CondPosting \in SUBSET Waiter
      /\ Cond!Counted' \in SUBSET Waiter /\ CondLeaving' \in SUBSET Waiter
      /\ CondPosting' \in SUBSET Waiter
  BY DEF Cond!Counted, Cond!At, CondLeaving, CondPosting
<1>2. Cardinality(Cond!Counted)' = Cardinality(Cond!Counted)
        + (In(l, {"blocking", "queue", "cleanup", "retract"})
             - In(pc[t], {"blocking", "queue", "cleanup", "retract"}))
  <2>1. Cond!Counted \ {t} = Cond!Counted' \ {t}
    BY DEF CondAt, Cond!Counted, Cond!At
  <2>2. /\ t \in Cond!Counted <=> pc[t] \in {"blocking", "queue", "cleanup", "retract"}
        /\ t \in Cond!Counted' <=> l \in {"blocking", "queue", "cleanup", "retract"}
    BY DEF CondAt, Cond!Counted, Cond!At
  <2> QED  BY <1>1, <2>1, <2>2, FewWaiters, SizeChange DEF In
<1>3. Cardinality(CondLeaving)' = Cardinality(CondLeaving)
        + (In(l, {"cleanup", "retract"}) - In(pc[t], {"cleanup", "retract"}))
  <2>1. CondLeaving \ {t} = CondLeaving' \ {t}
    BY DEF CondAt, CondLeaving
  <2>2. /\ t \in CondLeaving <=> pc[t] \in {"cleanup", "retract"}
        /\ t \in CondLeaving' <=> l \in {"cleanup", "retract"}
    BY DEF CondAt, CondLeaving
  <2> QED  BY <1>1, <2>1, <2>2, FewWaiters, SizeChange DEF In
<1>4. /\ CondPosts' = CondPosts + (n * In(l, {"post"}) - loc[t].n * In(pc[t], {"post"}))
      /\ CondPosts' \in Nat
  <2>1. CondPosting \ {t} = CondPosting' \ {t} /\ IsFiniteSet(CondPosting)
    BY <1>1, FewWaiters DEF CondAt, CondPosting
  <2>2. /\ t \in CondPosting <=> pc[t] \in {"post"}
        /\ t \in CondPosting' <=> l \in {"post"}
    BY DEF CondAt, CondPosting
  <2>3. /\ \A u \in CondPosting : CondIssues[u] \in Nat
        /\ \A u \in CondPosting' : CondIssues'[u] \in Nat
        /\ CondIssues[t] = loc[t].n /\ CondIssues'[t] = n
        /\ n \in Nat /\ loc[t].n \in Nat
    <3>1. \A u \in Waiter : loc[u].n \in Nat /\ loc'[u].n \in Nat
      BY FewWaiters DEF CondValues, CondCall, CondCalls
    <3> QED  BY <3>1 DEF CondPosting, CondIssues, CondCall
  <2>4. \A u \in CondPosting \ {t} : CondIssues[u] = CondIssues'[u]
    BY DEF CondPosting, CondIssues, CondCall
  <2>5. SumFunctionOnSet(CondIssues', CondPosting') =
          SumFunctionOnSet(CondIssues, CondPosting)
            + (IF t \in CondPosting' THEN CondIssues'[t] ELSE 0)
            - (IF t \in CondPosting THEN CondIssues[t] ELSE 0)
    BY <2>1, <2>3, <2>4, SumChange
  <2>6. CondPosts' = CondPosts + (IF l \in {"post"} THEN n ELSE 0)
                               - (IF pc[t] \in {"post"} THEN loc[t].n ELSE 0)
    BY <2>2, <2>3, <2>5 DEF CondPosts
  <2>7. CondPosts' \in Nat
    BY <1>1, <2>3, FewWaiters, SumIsNat DEF CondPosts
  <2>8. CondPosts \in Nat
    BY DEF CondValues
  <2> QED  BY <2>3, <2>6, <2>7, <2>8 DEF In
<1>5. /\ Cardinality(Cond!Counted)' \in 0..Cardinality(Waiter)
      /\ Cardinality(CondLeaving)' \in Nat
  BY <1>1, FewWaiters
<1> QED  BY <1>2, <1>3, <1>4, <1>5 DEF CondChange

(* A step with these effects keeps the types: the bounds of the counts     *)
(* follow from the number of waiters.                                      *)
LEMMA CondTyped ==
  ASSUME CondValues, NEW t \in Waiter, NEW l, CondAt(t, l), NEW op, NEW n, CondCall(t, op, n),
         obj' \in CondObject, obj'.nWaitersBlocked >= 0, obj'.semBlockQueue >= 0,
         obj'.nWaitersToUnblock >= 0, obj'.nWaitersGone \in 0..GoneMax,
         obj'.semBlockLock \in {0, 1},
         Cond!WaitersCounted', Cond!GoneTrue'
  PROVE  Cond!TypeOK'
<1>1. Cardinality(Cond!Counted)' \in 0..Cardinality(Waiter)
  <2>1. Cond!Counted' \in SUBSET Waiter
    BY DEF Cond!Counted, Cond!At
  <2> QED  BY <2>1, FewWaiters
<1>2. /\ obj'.nWaitersBlocked \in Int /\ obj'.nWaitersToUnblock \in Int
      /\ obj'.nWaitersGone \in Int /\ obj'.semBlockQueue \in Int
  BY DEF CondObject
<1>3. obj'.nWaitersBlocked - obj'.nWaitersGone + obj'.nWaitersToUnblock = Cardinality(Cond!Counted)'
  BY CondWords
<1>4. obj'.nWaitersToUnblock > 0 => obj'.nWaitersGone = 0
  BY DEF Cond!GoneTrue
<1>5. obj'.nWaitersToUnblock \in 0..Cardinality(Waiter)
  BY <1>1, <1>2, <1>3, <1>4, FewWaiters
<1>6. obj' \in [ptr: {"static", "live", "null"}, nWaitersBlocked: Nat,
                nWaitersToUnblock: 0..Cardinality(Waiter), nWaitersGone: 0..GoneMax,
                semBlockLock: {0, 1}, semBlockQueue: Nat,
                mtxUnblockLock: Waiter \cup {Cond!NOBODY}, mutex: Waiter \cup {Cond!NOBODY},
                list: Waiter \cup {Cond!NOBODY}]
  BY <1>2, <1>5 DEF CondObject
<1>7. /\ pc' \in [Waiter -> CondLabels]
      /\ loc' \in [Waiter -> CondCalls]
  BY DEF CondAt, CondCall
<1> QED  BY <1>6, <1>7, CondOperators
         DEF CondCalls, CondOps, CondResults, CondLabels, Cond!TypeOK


(* What a step that sets some of the counts leaves, first a waiter that    *)
(* counts itself, then the others in the order of the code.                *)
LEMMA CondBlockedGateSet ==
  ASSUME obj \in CondObject,
         NEW b \in Int,
         NEW k \in Int,
         obj' = [obj EXCEPT !.nWaitersBlocked = b,
                            !.semBlockLock = k]
  PROVE  CondFields(obj.ptr, b, obj.nWaitersToUnblock,
                    obj.nWaitersGone, k, obj.semBlockQueue, obj.mtxUnblockLock)
BY DEF CondObject, CondFields

(* The same, of ToUnblock, the lock. *)
LEMMA CondToUnblockLockSet ==
  ASSUME obj \in CondObject,
         NEW n \in Int,
         NEW m \in Waiter \cup {Cond!NOBODY},
         obj' = [obj EXCEPT !.nWaitersToUnblock = n,
                            !.mtxUnblockLock = m]
  PROVE  CondFields(obj.ptr, obj.nWaitersBlocked, n,
                    obj.nWaitersGone, obj.semBlockLock, obj.semBlockQueue, m)
BY DEF CondObject, CondFields

(* The same, of Gone. *)
LEMMA CondGoneSet ==
  ASSUME obj \in CondObject,
         NEW g \in Int,
         obj' = [obj EXCEPT !.nWaitersGone = g]
  PROVE  CondFields(obj.ptr, obj.nWaitersBlocked, obj.nWaitersToUnblock,
                    g, obj.semBlockLock, obj.semBlockQueue, obj.mtxUnblockLock)
BY DEF CondObject, CondFields

(* The same, of Gone, the lock. *)
LEMMA CondGoneLockSet ==
  ASSUME obj \in CondObject,
         NEW g \in Int,
         NEW m \in Waiter \cup {Cond!NOBODY},
         obj' = [obj EXCEPT !.nWaitersGone = g,
                            !.mtxUnblockLock = m]
  PROVE  CondFields(obj.ptr, obj.nWaitersBlocked, obj.nWaitersToUnblock,
                    g, obj.semBlockLock, obj.semBlockQueue, m)
BY DEF CondObject, CondFields

(* The same, of Blocked, Gone, the lock. *)
LEMMA CondBlockedGoneLockSet ==
  ASSUME obj \in CondObject,
         NEW b \in Int,
         NEW g \in Int,
         NEW m \in Waiter \cup {Cond!NOBODY},
         obj' = [obj EXCEPT !.nWaitersBlocked = b,
                            !.nWaitersGone = g,
                            !.mtxUnblockLock = m]
  PROVE  CondFields(obj.ptr, b, obj.nWaitersToUnblock,
                    g, obj.semBlockLock, obj.semBlockQueue, m)
BY DEF CondObject, CondFields

(* The same, of Blocked, ToUnblock, the lock. *)
LEMMA CondBlockedToUnblockLockSet ==
  ASSUME obj \in CondObject,
         NEW b \in Int,
         NEW n \in Int,
         NEW m \in Waiter \cup {Cond!NOBODY},
         obj' = [obj EXCEPT !.nWaitersBlocked = b,
                            !.nWaitersToUnblock = n,
                            !.mtxUnblockLock = m]
  PROVE  CondFields(obj.ptr, b, n,
                    obj.nWaitersGone, obj.semBlockLock, obj.semBlockQueue, m)
BY DEF CondObject, CondFields

(* The same, of Blocked, ToUnblock, Gone, the gate, the lock. *)
LEMMA CondBlockedToUnblockGoneGateLockSet ==
  ASSUME obj \in CondObject,
         NEW b \in Int,
         NEW n \in Int,
         NEW g \in Int,
         NEW k \in Int,
         NEW m \in Waiter \cup {Cond!NOBODY},
         obj' = [obj EXCEPT !.nWaitersBlocked = b,
                            !.nWaitersToUnblock = n,
                            !.nWaitersGone = g,
                            !.semBlockLock = k,
                            !.mtxUnblockLock = m]
  PROVE  CondFields(obj.ptr, b, n,
                    g, k, obj.semBlockQueue, m)
BY DEF CondObject, CondFields

(* The same, of the gate. *)
LEMMA CondGateSet ==
  ASSUME obj \in CondObject,
         NEW k \in Int,
         obj' = [obj EXCEPT !.semBlockLock = k]
  PROVE  CondFields(obj.ptr, obj.nWaitersBlocked, obj.nWaitersToUnblock,
                    obj.nWaitersGone, k, obj.semBlockQueue, obj.mtxUnblockLock)
BY DEF CondObject, CondFields

(* The same, of the gate, list. *)
LEMMA CondGateListSet ==
  ASSUME obj \in CondObject,
         NEW k \in Int,
         NEW w \in Waiter \cup {Cond!NOBODY},
         obj' = [obj EXCEPT !.semBlockLock = k,
                            !.list = w]
  PROVE  CondFields(obj.ptr, obj.nWaitersBlocked, obj.nWaitersToUnblock,
                    obj.nWaitersGone, k, obj.semBlockQueue, obj.mtxUnblockLock)
BY DEF CondObject, CondFields

(* A wait begins; a static variable has to be made first.                  *)
LEMMA CondWait ==
  ASSUME Cond!CondInv, NEW t \in Waiter, Cond!Wait(t) PROVE Cond!CondInv'
<1>0. Cond!Wait(t)
  OBVIOUS
<1>v. CondValues
  BY CondValuesAre
<1>i. Cond!GateTrue /\ Cond!UnblockLockTrue /\ Cond!GoneTrue /\ Cond!UsedWhileLive
  BY DEF Cond!CondInv
<1>p. obj.ptr \in {"static", "live"}
  BY <1>0, <1>v DEF Cond!Wait, CondValues, CondObject
<1>q. loc'[t].op \in {"wait", "timedwait"}
  BY <1>0, <1>v DEF Cond!Wait, Cond!Enter, CondValues
<1>1. CASE obj.ptr = "static"
  <2>1. pc[t] = "idle" /\ ~Cond!Destroying /\ obj.ptr = "static"
    BY <1>1, <1>0 DEF Cond!Wait
  <2>2. CondSame
    BY <1>1, <1>v, <2>1 DEF Cond!Wait, CondValues, CondFields, CondSame, CondObject
  <2>3. CondAt(t, "init")
    BY <1>1, <1>v, <2>1 DEF Cond!Wait, Cond!Goto, Cond!Return, CondValues, CondAt,
       CondLabels
  <2>4. CondCall(t, loc'[t].op, 0)
    BY <1>1, <1>v, <2>1, FewWaiters DEF Cond!Wait, Cond!Return, Cond!Enter, CondValues,
       CondCall, CondCalls, CondOps, CondResults
  <2>5. CondChange(0, 0, 0)
    BY <1>v, <2>1, <2>3, <2>4, CondChanges DEF In, CondValues
  <2>c. Cond!WaitersCounted'
    BY <1>v, <2>1, <2>2, <2>5, CondWords DEF CondValues, CondObject, CondChange,
       CondFields, CondSame
  <2>w. Cond!NoLostWakeup'
    BY <1>v, <2>1, <2>2, <2>5, CondWords DEF CondValues, CondObject, CondChange,
       CondFields, CondSame
  <2>g. Cond!GateTrue'
    BY <1>v, <1>i, <2>1, <2>2, <2>3 DEF CondAt, CondCall, CondFields, CondSame,
       CondValues, CondObject, Cond!GateTrue, Cond!HoldsGate
  <2>m. Cond!UnblockLockTrue'
    BY <1>i, <2>1, <2>2, <2>3, ThreadAssumption, WaiterAssumption DEF CondAt, CondCall,
       CondFields, CondSame, Cond!UnblockLockTrue, Cond!NOBODY
  <2>n. Cond!GoneTrue'
    BY <1>v, <1>i, <2>1, <2>2, <2>3 DEF CondAt, CondCall, CondFields, CondSame,
       CondValues, CondObject, Cond!UnblockLockTrue, Cond!GoneTrue, Cond!SomeBlocked,
       Cond!At
  <2>l. Cond!UsedWhileLive'
    BY <1>i, <1>q, <2>1, <2>2, <2>3, <2>4 DEF CondAt, CondCall, CondFields, CondSame,
       Cond!UsedWhileLive, Cond!Outside, Cond!Destroying
  <2>b. /\ obj' \in CondObject /\ obj'.nWaitersBlocked >= 0 /\ obj'.semBlockQueue >= 0
        /\ obj'.nWaitersToUnblock >= 0 /\ obj'.nWaitersGone \in 0..GoneMax
        /\ obj'.semBlockLock \in {0, 1}
    BY <1>v, <2>1, <2>2 DEF CondValues, CondFields, CondSame, CondObject
  <2>o. Cond!TypeOK'
    BY <1>v, <2>3, <2>4, <2>b, <2>c, <2>n, CondTyped
  <2> QED  BY <2>c, <2>w, <2>g, <2>m, <2>n, <2>l, <2>o DEF Cond!CondInv
<1>2. CASE obj.ptr = "live"
  <2>1. pc[t] = "idle" /\ ~Cond!Destroying /\ obj.ptr = "live"
    BY <1>2, <1>0 DEF Cond!Wait
  <2>2. CondSame
    BY <1>2, <1>v, <2>1 DEF Cond!Wait, CondValues, CondFields, CondSame, CondObject
  <2>3. CondAt(t, "gate")
    BY <1>2, <1>v, <2>1 DEF Cond!Wait, Cond!Goto, Cond!Return, CondValues, CondAt,
       CondLabels
  <2>4. CondCall(t, loc'[t].op, 0)
    BY <1>2, <1>v, <2>1, FewWaiters DEF Cond!Wait, Cond!Return, Cond!Enter, CondValues,
       CondCall, CondCalls, CondOps, CondResults
  <2>5. CondChange(0, 0, 0)
    BY <1>v, <2>1, <2>3, <2>4, CondChanges DEF In, CondValues
  <2>c. Cond!WaitersCounted'
    BY <1>v, <2>1, <2>2, <2>5, CondWords DEF CondValues, CondObject, CondChange,
       CondFields, CondSame
  <2>w. Cond!NoLostWakeup'
    BY <1>v, <2>1, <2>2, <2>5, CondWords DEF CondValues, CondObject, CondChange,
       CondFields, CondSame
  <2>g. Cond!GateTrue'
    BY <1>v, <1>i, <2>1, <2>2, <2>3 DEF CondAt, CondCall, CondFields, CondSame,
       CondValues, CondObject, Cond!GateTrue, Cond!HoldsGate
  <2>m. Cond!UnblockLockTrue'
    BY <1>i, <2>1, <2>2, <2>3, ThreadAssumption, WaiterAssumption DEF CondAt, CondCall,
       CondFields, CondSame, Cond!UnblockLockTrue, Cond!NOBODY
  <2>n. Cond!GoneTrue'
    BY <1>v, <1>i, <2>1, <2>2, <2>3 DEF CondAt, CondCall, CondFields, CondSame,
       CondValues, CondObject, Cond!UnblockLockTrue, Cond!GoneTrue, Cond!SomeBlocked,
       Cond!At
  <2>l. Cond!UsedWhileLive'
    BY <1>i, <1>q, <2>1, <2>2, <2>3, <2>4 DEF CondAt, CondCall, CondFields, CondSame,
       Cond!UsedWhileLive, Cond!Outside, Cond!Destroying
  <2>b. /\ obj' \in CondObject /\ obj'.nWaitersBlocked >= 0 /\ obj'.semBlockQueue >= 0
        /\ obj'.nWaitersToUnblock >= 0 /\ obj'.nWaitersGone \in 0..GoneMax
        /\ obj'.semBlockLock \in {0, 1}
    BY <1>v, <2>1, <2>2 DEF CondValues, CondFields, CondSame, CondObject
  <2>o. Cond!TypeOK'
    BY <1>v, <2>3, <2>4, <2>b, <2>c, <2>n, CondTyped
  <2> QED  BY <2>c, <2>w, <2>g, <2>m, <2>n, <2>l, <2>o DEF Cond!CondInv
<1> QED  BY <1>0, <1>1, <1>2, <1>p

(* The variable is made by the first that comes, and given up by none that *)
(* waits.                                                                  *)
LEMMA CondCheckNeedInit ==
  ASSUME Cond!CondInv, NEW t \in Waiter, Cond!CheckNeedInit(t) PROVE Cond!CondInv'
<1>0. Cond!CheckNeedInit(t)
  OBVIOUS
<1>v. CondValues
  BY CondValuesAre
<1>i. Cond!GateTrue /\ Cond!UnblockLockTrue /\ Cond!GoneTrue /\ Cond!UsedWhileLive
  BY DEF Cond!CondInv
<1>p. obj.ptr \in {"static", "null", "live"}
  BY <1>v DEF CondValues, CondObject
<1>1. CASE obj.ptr = "static"
  <2>1. pc[t] = "init" /\ obj.ptr = "static"
    BY <1>1, <1>0 DEF Cond!CheckNeedInit
  <2>2. CondFields("live", obj.nWaitersBlocked, obj.nWaitersToUnblock,
                          obj.nWaitersGone, obj.semBlockLock, obj.semBlockQueue, obj.mtxUnblockLock)
    BY <1>1, <1>v, <2>1 DEF Cond!CheckNeedInit, CondValues, CondFields, CondSame,
       CondObject
  <2>3. CondAt(t, "gate")
    BY <1>1, <1>v, <2>1 DEF Cond!CheckNeedInit, Cond!Goto, Cond!Return, CondValues,
       CondAt, CondLabels
  <2>4. CondCall(t, loc[t].op, loc[t].n)
    BY <1>1, <1>v, <2>1, FewWaiters DEF Cond!CheckNeedInit, Cond!Return, Cond!Enter,
       CondValues, CondCall, CondCalls, CondOps, CondResults
  <2>5. CondChange(0, 0, 0)
    BY <1>v, <2>1, <2>3, <2>4, CondChanges DEF In, CondValues
  <2>c. Cond!WaitersCounted'
    BY <1>v, <2>1, <2>2, <2>5, CondWords DEF CondValues, CondObject, CondChange,
       CondFields, CondSame
  <2>w. Cond!NoLostWakeup'
    BY <1>v, <2>1, <2>2, <2>5, CondWords DEF CondValues, CondObject, CondChange,
       CondFields, CondSame
  <2>g. Cond!GateTrue'
    BY <1>v, <1>i, <2>1, <2>2, <2>3 DEF CondAt, CondCall, CondFields, CondSame,
       CondValues, CondObject, Cond!GateTrue, Cond!HoldsGate
  <2>m. Cond!UnblockLockTrue'
    BY <1>i, <2>1, <2>2, <2>3, ThreadAssumption, WaiterAssumption DEF CondAt, CondCall,
       CondFields, CondSame, Cond!UnblockLockTrue, Cond!NOBODY
  <2>n. Cond!GoneTrue'
    BY <1>v, <1>i, <2>1, <2>2, <2>3 DEF CondAt, CondCall, CondFields, CondSame,
       CondValues, CondObject, Cond!UnblockLockTrue, Cond!GoneTrue, Cond!SomeBlocked,
       Cond!At
  <2>l. Cond!UsedWhileLive'
    BY <1>i, <2>1, <2>2, <2>3, <2>4 DEF CondAt, CondCall, CondFields, CondSame,
       Cond!UsedWhileLive, Cond!Outside
  <2>b. /\ obj' \in CondObject /\ obj'.nWaitersBlocked >= 0 /\ obj'.semBlockQueue >= 0
        /\ obj'.nWaitersToUnblock >= 0 /\ obj'.nWaitersGone \in 0..GoneMax
        /\ obj'.semBlockLock \in {0, 1}
    BY <1>v, <2>1, <2>2 DEF CondValues, CondFields, CondSame, CondObject
  <2>o. Cond!TypeOK'
    BY <1>v, <2>3, <2>4, <2>b, <2>c, <2>n, CondTyped
  <2> QED  BY <2>c, <2>w, <2>g, <2>m, <2>n, <2>l, <2>o DEF Cond!CondInv
<1>2. CASE obj.ptr = "null"
  <2>1. pc[t] = "init" /\ obj.ptr = "null"
    BY <1>2, <1>0 DEF Cond!CheckNeedInit
  <2>2. CondSame
    BY <1>2, <1>v, <2>1 DEF Cond!CheckNeedInit, CondValues, CondFields, CondSame,
       CondObject
  <2>3. CondAt(t, "unlock")
    BY <1>2, <1>v, <2>1 DEF Cond!CheckNeedInit, Cond!Goto, Cond!Return, CondValues,
       CondAt, CondLabels
  <2>4. CondCall(t, loc[t].op, loc[t].n)
    BY <1>2, <1>v, <2>1, FewWaiters DEF Cond!CheckNeedInit, Cond!Return, Cond!Enter,
       CondValues, CondCall, CondCalls, CondOps, CondResults
  <2>5. CondChange(0, 0, 0)
    BY <1>v, <2>1, <2>3, <2>4, CondChanges DEF In, CondValues
  <2>c. Cond!WaitersCounted'
    BY <1>v, <2>1, <2>2, <2>5, CondWords DEF CondValues, CondObject, CondChange,
       CondFields, CondSame
  <2>w. Cond!NoLostWakeup'
    BY <1>v, <2>1, <2>2, <2>5, CondWords DEF CondValues, CondObject, CondChange,
       CondFields, CondSame
  <2>g. Cond!GateTrue'
    BY <1>v, <1>i, <2>1, <2>2, <2>3 DEF CondAt, CondCall, CondFields, CondSame,
       CondValues, CondObject, Cond!GateTrue, Cond!HoldsGate
  <2>m. Cond!UnblockLockTrue'
    BY <1>i, <2>1, <2>2, <2>3, ThreadAssumption, WaiterAssumption DEF CondAt, CondCall,
       CondFields, CondSame, Cond!UnblockLockTrue, Cond!NOBODY
  <2>n. Cond!GoneTrue'
    BY <1>v, <1>i, <2>1, <2>2, <2>3 DEF CondAt, CondCall, CondFields, CondSame,
       CondValues, CondObject, Cond!UnblockLockTrue, Cond!GoneTrue, Cond!SomeBlocked,
       Cond!At
  <2>l. Cond!UsedWhileLive'
    BY <1>i, <2>1, <2>2, <2>3, <2>4 DEF CondAt, CondCall, CondFields, CondSame,
       Cond!UsedWhileLive, Cond!Outside
  <2>b. /\ obj' \in CondObject /\ obj'.nWaitersBlocked >= 0 /\ obj'.semBlockQueue >= 0
        /\ obj'.nWaitersToUnblock >= 0 /\ obj'.nWaitersGone \in 0..GoneMax
        /\ obj'.semBlockLock \in {0, 1}
    BY <1>v, <2>1, <2>2 DEF CondValues, CondFields, CondSame, CondObject
  <2>o. Cond!TypeOK'
    BY <1>v, <2>3, <2>4, <2>b, <2>c, <2>n, CondTyped
  <2> QED  BY <2>c, <2>w, <2>g, <2>m, <2>n, <2>l, <2>o DEF Cond!CondInv
<1>3. CASE obj.ptr = "live"
  <2>1. pc[t] = "init" /\ obj.ptr = "live"
    BY <1>3, <1>0 DEF Cond!CheckNeedInit
  <2>2. CondSame
    BY <1>3, <1>v, <2>1 DEF Cond!CheckNeedInit, CondValues, CondFields, CondSame,
       CondObject
  <2>3. CondAt(t, "gate")
    BY <1>3, <1>v, <2>1 DEF Cond!CheckNeedInit, Cond!Goto, Cond!Return, CondValues,
       CondAt, CondLabels
  <2>4. CondCall(t, loc[t].op, loc[t].n)
    BY <1>3, <1>v, <2>1, FewWaiters DEF Cond!CheckNeedInit, Cond!Return, Cond!Enter,
       CondValues, CondCall, CondCalls, CondOps, CondResults
  <2>5. CondChange(0, 0, 0)
    BY <1>v, <2>1, <2>3, <2>4, CondChanges DEF In, CondValues
  <2>c. Cond!WaitersCounted'
    BY <1>v, <2>1, <2>2, <2>5, CondWords DEF CondValues, CondObject, CondChange,
       CondFields, CondSame
  <2>w. Cond!NoLostWakeup'
    BY <1>v, <2>1, <2>2, <2>5, CondWords DEF CondValues, CondObject, CondChange,
       CondFields, CondSame
  <2>g. Cond!GateTrue'
    BY <1>v, <1>i, <2>1, <2>2, <2>3 DEF CondAt, CondCall, CondFields, CondSame,
       CondValues, CondObject, Cond!GateTrue, Cond!HoldsGate
  <2>m. Cond!UnblockLockTrue'
    BY <1>i, <2>1, <2>2, <2>3, ThreadAssumption, WaiterAssumption DEF CondAt, CondCall,
       CondFields, CondSame, Cond!UnblockLockTrue, Cond!NOBODY
  <2>n. Cond!GoneTrue'
    BY <1>v, <1>i, <2>1, <2>2, <2>3 DEF CondAt, CondCall, CondFields, CondSame,
       CondValues, CondObject, Cond!UnblockLockTrue, Cond!GoneTrue, Cond!SomeBlocked,
       Cond!At
  <2>l. Cond!UsedWhileLive'
    BY <1>i, <2>1, <2>2, <2>3, <2>4 DEF CondAt, CondCall, CondFields, CondSame,
       Cond!UsedWhileLive, Cond!Outside
  <2>b. /\ obj' \in CondObject /\ obj'.nWaitersBlocked >= 0 /\ obj'.semBlockQueue >= 0
        /\ obj'.nWaitersToUnblock >= 0 /\ obj'.nWaitersGone \in 0..GoneMax
        /\ obj'.semBlockLock \in {0, 1}
    BY <1>v, <2>1, <2>2 DEF CondValues, CondFields, CondSame, CondObject
  <2>o. Cond!TypeOK'
    BY <1>v, <2>3, <2>4, <2>b, <2>c, <2>n, CondTyped
  <2> QED  BY <2>c, <2>w, <2>g, <2>m, <2>n, <2>l, <2>o DEF Cond!CondInv
<1> QED  BY <1>0, <1>1, <1>2, <1>3, <1>p

(* A waiter takes the gate, or is cancelled in front of it.                *)
LEMMA CondGate ==
  ASSUME Cond!CondInv, NEW t \in Waiter, Cond!Gate(t) PROVE Cond!CondInv'
<1>0. Cond!Gate(t)
  OBVIOUS
<1>v. CondValues
  BY CondValuesAre
<1>i. Cond!GateTrue /\ Cond!UnblockLockTrue /\ Cond!GoneTrue /\ Cond!UsedWhileLive
  BY DEF Cond!CondInv
<1>1. CASE obj.semBlockLock > 0 /\ obj' = [obj EXCEPT !.semBlockLock = @ - 1] /\ Cond!Goto(t, "count")
  <2>1. pc[t] = "gate" /\ obj.semBlockLock > 0
    BY <1>1, <1>0 DEF Cond!Gate
  <2>2. CondFields(obj.ptr, obj.nWaitersBlocked, obj.nWaitersToUnblock,
                          obj.nWaitersGone, obj.semBlockLock - 1, obj.semBlockQueue, obj.mtxUnblockLock)
    BY <1>1, <1>v, <2>1 DEF Cond!Gate, CondValues, CondFields, CondSame, CondObject,
       Cond!Goto
  <2>3. CondAt(t, "count")
    BY <1>1, <1>v, <2>1 DEF Cond!Gate, Cond!Goto, Cond!Return, CondValues, CondAt,
       CondLabels
  <2>4. CondCall(t, loc[t].op, loc[t].n)
    BY <1>1, <1>v, <2>1, FewWaiters DEF Cond!Gate, Cond!Return, Cond!Enter, CondValues,
       CondCall, CondCalls, CondOps, CondResults
  <2>5. CondChange(0, 0, 0)
    BY <1>v, <2>1, <2>3, <2>4, CondChanges DEF In, CondValues
  <2>c. Cond!WaitersCounted'
    BY <1>v, <2>1, <2>2, <2>5, CondWords DEF CondValues, CondObject, CondChange,
       CondFields, CondSame
  <2>w. Cond!NoLostWakeup'
    BY <1>v, <2>1, <2>2, <2>5, CondWords DEF CondValues, CondObject, CondChange,
       CondFields, CondSame
  <2>g. Cond!GateTrue'
    BY <1>v, <1>i, <2>1, <2>2, <2>3 DEF CondAt, CondCall, CondFields, CondSame,
       CondValues, CondObject, Cond!GateTrue, Cond!HoldsGate
  <2>m. Cond!UnblockLockTrue'
    BY <1>i, <2>1, <2>2, <2>3, ThreadAssumption, WaiterAssumption DEF CondAt, CondCall,
       CondFields, CondSame, Cond!UnblockLockTrue, Cond!NOBODY
  <2>n. Cond!GoneTrue'
    BY <1>v, <1>i, <2>1, <2>2, <2>3 DEF CondAt, CondCall, CondFields, CondSame,
       CondValues, CondObject, Cond!UnblockLockTrue, Cond!GoneTrue, Cond!SomeBlocked,
       Cond!At
  <2>l. Cond!UsedWhileLive'
    BY <1>i, <2>1, <2>2, <2>3, <2>4 DEF CondAt, CondCall, CondFields, CondSame,
       Cond!UsedWhileLive, Cond!Outside
  <2>b. /\ obj' \in CondObject /\ obj'.nWaitersBlocked >= 0 /\ obj'.semBlockQueue >= 0
        /\ obj'.nWaitersToUnblock >= 0 /\ obj'.nWaitersGone \in 0..GoneMax
        /\ obj'.semBlockLock \in {0, 1}
    BY <1>v, <2>1, <2>2 DEF CondValues, CondFields, CondSame, CondObject
  <2>o. Cond!TypeOK'
    BY <1>v, <2>3, <2>4, <2>b, <2>c, <2>n, CondTyped
  <2> QED  BY <2>c, <2>w, <2>g, <2>m, <2>n, <2>l, <2>o DEF Cond!CondInv
<1>2. CASE obj' = obj /\ Cond!Goto(t, "unlock")
  <2>1. pc[t] = "gate"
    BY <1>2, <1>0 DEF Cond!Gate
  <2>2. CondSame
    BY <1>2, <1>v, <2>1 DEF Cond!Gate, CondValues, CondFields, CondSame, CondObject,
       Cond!Goto
  <2>3. CondAt(t, "unlock")
    BY <1>2, <1>v, <2>1 DEF Cond!Gate, Cond!Goto, Cond!Return, CondValues, CondAt,
       CondLabels
  <2>4. CondCall(t, loc[t].op, loc[t].n)
    BY <1>2, <1>v, <2>1, FewWaiters DEF Cond!Gate, Cond!Return, Cond!Enter, CondValues,
       CondCall, CondCalls, CondOps, CondResults
  <2>5. CondChange(0, 0, 0)
    BY <1>v, <2>1, <2>3, <2>4, CondChanges DEF In, CondValues
  <2>c. Cond!WaitersCounted'
    BY <1>v, <2>1, <2>2, <2>5, CondWords DEF CondValues, CondObject, CondChange,
       CondFields, CondSame
  <2>w. Cond!NoLostWakeup'
    BY <1>v, <2>1, <2>2, <2>5, CondWords DEF CondValues, CondObject, CondChange,
       CondFields, CondSame
  <2>g. Cond!GateTrue'
    BY <1>v, <1>i, <2>1, <2>2, <2>3 DEF CondAt, CondCall, CondFields, CondSame,
       CondValues, CondObject, Cond!GateTrue, Cond!HoldsGate
  <2>m. Cond!UnblockLockTrue'
    BY <1>i, <2>1, <2>2, <2>3, ThreadAssumption, WaiterAssumption DEF CondAt, CondCall,
       CondFields, CondSame, Cond!UnblockLockTrue, Cond!NOBODY
  <2>n. Cond!GoneTrue'
    BY <1>v, <1>i, <2>1, <2>2, <2>3 DEF CondAt, CondCall, CondFields, CondSame,
       CondValues, CondObject, Cond!UnblockLockTrue, Cond!GoneTrue, Cond!SomeBlocked,
       Cond!At
  <2>l. Cond!UsedWhileLive'
    BY <1>i, <2>1, <2>2, <2>3, <2>4 DEF CondAt, CondCall, CondFields, CondSame,
       Cond!UsedWhileLive, Cond!Outside
  <2>b. /\ obj' \in CondObject /\ obj'.nWaitersBlocked >= 0 /\ obj'.semBlockQueue >= 0
        /\ obj'.nWaitersToUnblock >= 0 /\ obj'.nWaitersGone \in 0..GoneMax
        /\ obj'.semBlockLock \in {0, 1}
    BY <1>v, <2>1, <2>2 DEF CondValues, CondFields, CondSame, CondObject
  <2>o. Cond!TypeOK'
    BY <1>v, <2>3, <2>4, <2>b, <2>c, <2>n, CondTyped
  <2> QED  BY <2>c, <2>w, <2>g, <2>m, <2>n, <2>l, <2>o DEF Cond!CondInv
<1> QED  BY <1>0, <1>1, <1>2 DEF Cond!Gate

(* It counts itself among the blocked, and opens the gate.                 *)
LEMMA CondCountWaiter ==
  ASSUME Cond!CondInv, NEW t \in Waiter, Cond!CountWaiter(t) PROVE Cond!CondInv'
<1>0. Cond!CountWaiter(t)
  OBVIOUS
<1>v. CondValues
  BY CondValuesAre
<1>i. Cond!GateTrue /\ Cond!UnblockLockTrue /\ Cond!GoneTrue /\ Cond!UsedWhileLive
  BY DEF Cond!CondInv
<1>1. pc[t] = "count"
  BY <1>0 DEF Cond!CountWaiter
<1>e. obj' = [obj EXCEPT !.nWaitersBlocked = obj.nWaitersBlocked + 1,
                    !.semBlockLock = obj.semBlockLock + 1]
  BY <1>0, <1>v, <1>1 DEF Cond!CountWaiter, CondValues, CondObject
<1>t. obj.nWaitersBlocked + 1 \in Int /\ obj.semBlockLock + 1 \in Int
  BY <1>v DEF CondValues, CondObject
<1>2. CondFields(obj.ptr, obj.nWaitersBlocked + 1, obj.nWaitersToUnblock,
                      obj.nWaitersGone, obj.semBlockLock + 1, obj.semBlockQueue, obj.mtxUnblockLock)
  BY <1>v, <1>e, <1>t, CondBlockedGateSet DEF CondValues
<1>3. CondAt(t, "blocking")
  BY <1>v, <1>1 DEF Cond!CountWaiter, Cond!Goto, Cond!Return, CondValues, CondAt,
     CondLabels
<1>4. CondCall(t, loc[t].op, loc[t].n)
  BY <1>v, <1>1, FewWaiters DEF Cond!CountWaiter, Cond!Return, Cond!Enter, CondValues,
     CondCall, CondCalls, CondOps, CondResults
<1>5. CondChange(1, 0, 0)
  BY <1>v, <1>1, <1>3, <1>4, CondChanges DEF In, CondValues
<1>c. Cond!WaitersCounted'
  BY <1>v, <1>1, <1>2, <1>5, CondWords DEF CondValues, CondObject, CondChange,
     CondFields, CondSame
<1>w. Cond!NoLostWakeup'
  BY <1>v, <1>1, <1>2, <1>5, CondWords DEF CondValues, CondObject, CondChange,
     CondFields, CondSame
<1>g. Cond!GateTrue'
  BY <1>v, <1>i, <1>1, <1>2, <1>3 DEF CondAt, CondCall, CondFields, CondSame,
     CondValues, CondObject, Cond!GateTrue, Cond!HoldsGate
<1>m. Cond!UnblockLockTrue'
  BY <1>i, <1>1, <1>2, <1>3, ThreadAssumption, WaiterAssumption DEF CondAt, CondCall,
     CondFields, CondSame, Cond!UnblockLockTrue, Cond!NOBODY
<1>n. Cond!GoneTrue'
  BY <1>v, <1>i, <1>1, <1>2, <1>3 DEF CondAt, CondCall, CondFields, CondSame,
     CondValues, CondObject, Cond!UnblockLockTrue, Cond!GoneTrue, Cond!SomeBlocked, Cond!At
<1>l. Cond!UsedWhileLive'
  BY <1>i, <1>1, <1>2, <1>3, <1>4 DEF CondAt, CondCall, CondFields, CondSame,
     Cond!UsedWhileLive, Cond!Outside
<1>b. /\ obj' \in CondObject /\ obj'.nWaitersBlocked >= 0 /\ obj'.semBlockQueue >= 0
      /\ obj'.nWaitersToUnblock >= 0 /\ obj'.nWaitersGone \in 0..GoneMax
      /\ obj'.semBlockLock \in {0, 1}
  BY <1>v, <1>1, <1>2, <1>i DEF CondValues, CondFields, CondSame, CondObject,
     Cond!GateTrue, Cond!HoldsGate, Cond!UnblockLockTrue, Cond!GoneTrue, Cond!At
<1>o. Cond!TypeOK'
  BY <1>v, <1>3, <1>4, <1>b, <1>c, <1>n, CondTyped
<1> QED  BY <1>c, <1>w, <1>g, <1>m, <1>n, <1>l, <1>o DEF Cond!CondInv

(* It gives up its mutex.                                                  *)
LEMMA CondUnlockMutex ==
  ASSUME Cond!CondInv, NEW t \in Waiter, Cond!UnlockMutex(t) PROVE Cond!CondInv'
<1>0. Cond!UnlockMutex(t)
  OBVIOUS
<1>v. CondValues
  BY CondValuesAre
<1>i. Cond!GateTrue /\ Cond!UnblockLockTrue /\ Cond!GoneTrue /\ Cond!UsedWhileLive
  BY DEF Cond!CondInv
<1>1. pc[t] = "blocking"
  BY <1>0 DEF Cond!UnlockMutex
<1>2. CondSame
  BY <1>v, <1>1 DEF Cond!UnlockMutex, CondValues, CondFields, CondSame, CondObject
<1>3. CondAt(t, "queue")
  BY <1>v, <1>1 DEF Cond!UnlockMutex, Cond!Goto, Cond!Return, CondValues, CondAt,
     CondLabels
<1>4. CondCall(t, loc[t].op, loc[t].n)
  BY <1>v, <1>1, FewWaiters DEF Cond!UnlockMutex, Cond!Return, Cond!Enter, CondValues,
     CondCall, CondCalls, CondOps, CondResults
<1>5. CondChange(0, 0, 0)
  BY <1>v, <1>1, <1>3, <1>4, CondChanges DEF In, CondValues
<1>c. Cond!WaitersCounted'
  BY <1>v, <1>1, <1>2, <1>5, CondWords DEF CondValues, CondObject, CondChange,
     CondFields, CondSame
<1>w. Cond!NoLostWakeup'
  BY <1>v, <1>1, <1>2, <1>5, CondWords DEF CondValues, CondObject, CondChange,
     CondFields, CondSame
<1>g. Cond!GateTrue'
  BY <1>v, <1>i, <1>1, <1>2, <1>3 DEF CondAt, CondCall, CondFields, CondSame,
     CondValues, CondObject, Cond!GateTrue, Cond!HoldsGate
<1>m. Cond!UnblockLockTrue'
  BY <1>i, <1>1, <1>2, <1>3, ThreadAssumption, WaiterAssumption DEF CondAt, CondCall,
     CondFields, CondSame, Cond!UnblockLockTrue, Cond!NOBODY
<1>n. Cond!GoneTrue'
  BY <1>v, <1>i, <1>1, <1>2, <1>3 DEF CondAt, CondCall, CondFields, CondSame,
     CondValues, CondObject, Cond!UnblockLockTrue, Cond!GoneTrue, Cond!SomeBlocked, Cond!At
<1>l. Cond!UsedWhileLive'
  BY <1>i, <1>1, <1>2, <1>3, <1>4 DEF CondAt, CondCall, CondFields, CondSame,
     Cond!UsedWhileLive, Cond!Outside
<1>b. /\ obj' \in CondObject /\ obj'.nWaitersBlocked >= 0 /\ obj'.semBlockQueue >= 0
      /\ obj'.nWaitersToUnblock >= 0 /\ obj'.nWaitersGone \in 0..GoneMax
      /\ obj'.semBlockLock \in {0, 1}
  BY <1>v, <1>1, <1>2 DEF CondValues, CondFields, CondSame, CondObject
<1>o. Cond!TypeOK'
  BY <1>v, <1>3, <1>4, <1>b, <1>c, <1>n, CondTyped
<1> QED  BY <1>c, <1>w, <1>g, <1>m, <1>n, <1>l, <1>o DEF Cond!CondInv

(* It takes a unit from the queue.                                         *)
LEMMA CondAwakened ==
  ASSUME Cond!CondInv, NEW t \in Waiter, Cond!Awakened(t) PROVE Cond!CondInv'
<1>0. Cond!Awakened(t)
  OBVIOUS
<1>v. CondValues
  BY CondValuesAre
<1>i. Cond!GateTrue /\ Cond!UnblockLockTrue /\ Cond!GoneTrue /\ Cond!UsedWhileLive
  BY DEF Cond!CondInv
<1>1. pc[t] = "queue" /\ obj.semBlockQueue > 0
  BY <1>0 DEF Cond!Awakened
<1>2. CondFields(obj.ptr, obj.nWaitersBlocked, obj.nWaitersToUnblock,
                      obj.nWaitersGone, obj.semBlockLock, obj.semBlockQueue - 1, obj.mtxUnblockLock)
  BY <1>v, <1>1 DEF Cond!Awakened, CondValues, CondFields, CondSame, CondObject
<1>3. CondAt(t, "cleanup")
  BY <1>v, <1>1 DEF Cond!Awakened, Cond!Goto, Cond!Return, CondValues, CondAt,
     CondLabels
<1>4. CondCall(t, loc[t].op, loc[t].n)
  BY <1>v, <1>1, FewWaiters DEF Cond!Awakened, Cond!Return, Cond!Enter, CondValues,
     CondCall, CondCalls, CondOps, CondResults
<1>5. CondChange(0, 1, 0)
  BY <1>v, <1>1, <1>3, <1>4, CondChanges DEF In, CondValues
<1>c. Cond!WaitersCounted'
  BY <1>v, <1>1, <1>2, <1>5, CondWords DEF CondValues, CondObject, CondChange,
     CondFields, CondSame
<1>w. Cond!NoLostWakeup'
  BY <1>v, <1>1, <1>2, <1>5, CondWords DEF CondValues, CondObject, CondChange,
     CondFields, CondSame
<1>g. Cond!GateTrue'
  BY <1>v, <1>i, <1>1, <1>2, <1>3 DEF CondAt, CondCall, CondFields, CondSame,
     CondValues, CondObject, Cond!GateTrue, Cond!HoldsGate
<1>m. Cond!UnblockLockTrue'
  BY <1>i, <1>1, <1>2, <1>3, ThreadAssumption, WaiterAssumption DEF CondAt, CondCall,
     CondFields, CondSame, Cond!UnblockLockTrue, Cond!NOBODY
<1>n. Cond!GoneTrue'
  BY <1>v, <1>i, <1>1, <1>2, <1>3 DEF CondAt, CondCall, CondFields, CondSame,
     CondValues, CondObject, Cond!UnblockLockTrue, Cond!GoneTrue, Cond!SomeBlocked, Cond!At
<1>l. Cond!UsedWhileLive'
  BY <1>i, <1>1, <1>2, <1>3, <1>4 DEF CondAt, CondCall, CondFields, CondSame,
     Cond!UsedWhileLive, Cond!Outside
<1>b. /\ obj' \in CondObject /\ obj'.nWaitersBlocked >= 0 /\ obj'.semBlockQueue >= 0
      /\ obj'.nWaitersToUnblock >= 0 /\ obj'.nWaitersGone \in 0..GoneMax
      /\ obj'.semBlockLock \in {0, 1}
  BY <1>v, <1>1, <1>2 DEF CondValues, CondFields, CondSame, CondObject
<1>o. Cond!TypeOK'
  BY <1>v, <1>3, <1>4, <1>b, <1>c, <1>n, CondTyped
<1> QED  BY <1>c, <1>w, <1>g, <1>m, <1>n, <1>l, <1>o DEF Cond!CondInv

(* It times out, or is cancelled.                                          *)
LEMMA CondNotAwakened ==
  ASSUME Cond!CondInv, NEW t \in Waiter, Cond!NotAwakened(t) PROVE Cond!CondInv'
<1>0. Cond!NotAwakened(t)
  OBVIOUS
<1>v. CondValues
  BY CondValuesAre
<1>i. Cond!GateTrue /\ Cond!UnblockLockTrue /\ Cond!GoneTrue /\ Cond!UsedWhileLive
  BY DEF Cond!CondInv
<1>1. pc[t] = "queue"
  BY <1>0 DEF Cond!NotAwakened
<1>2. CondSame
  BY <1>v, <1>1 DEF Cond!NotAwakened, CondValues, CondFields, CondSame, CondObject
<1>3. CondAt(t, "cleanup")
  BY <1>v, <1>1 DEF Cond!NotAwakened, Cond!Goto, Cond!Return, CondValues, CondAt,
     CondLabels
<1>4. CondCall(t, loc[t].op, loc[t].n)
  BY <1>v, <1>1, FewWaiters DEF Cond!NotAwakened, Cond!Return, Cond!Enter, CondValues,
     CondCall, CondCalls, CondOps, CondResults
<1>5. CondChange(0, 1, 0)
  BY <1>v, <1>1, <1>3, <1>4, CondChanges DEF In, CondValues
<1>c. Cond!WaitersCounted'
  BY <1>v, <1>1, <1>2, <1>5, CondWords DEF CondValues, CondObject, CondChange,
     CondFields, CondSame
<1>w. Cond!NoLostWakeup'
  BY <1>v, <1>1, <1>2, <1>5, CondWords DEF CondValues, CondObject, CondChange,
     CondFields, CondSame
<1>g. Cond!GateTrue'
  BY <1>v, <1>i, <1>1, <1>2, <1>3 DEF CondAt, CondCall, CondFields, CondSame,
     CondValues, CondObject, Cond!GateTrue, Cond!HoldsGate
<1>m. Cond!UnblockLockTrue'
  BY <1>i, <1>1, <1>2, <1>3, ThreadAssumption, WaiterAssumption DEF CondAt, CondCall,
     CondFields, CondSame, Cond!UnblockLockTrue, Cond!NOBODY
<1>n. Cond!GoneTrue'
  BY <1>v, <1>i, <1>1, <1>2, <1>3 DEF CondAt, CondCall, CondFields, CondSame,
     CondValues, CondObject, Cond!UnblockLockTrue, Cond!GoneTrue, Cond!SomeBlocked, Cond!At
<1>l. Cond!UsedWhileLive'
  BY <1>i, <1>1, <1>2, <1>3, <1>4 DEF CondAt, CondCall, CondFields, CondSame,
     Cond!UsedWhileLive, Cond!Outside
<1>b. /\ obj' \in CondObject /\ obj'.nWaitersBlocked >= 0 /\ obj'.semBlockQueue >= 0
      /\ obj'.nWaitersToUnblock >= 0 /\ obj'.nWaitersGone \in 0..GoneMax
      /\ obj'.semBlockLock \in {0, 1}
  BY <1>v, <1>1, <1>2 DEF CondValues, CondFields, CondSame, CondObject
<1>o. Cond!TypeOK'
  BY <1>v, <1>3, <1>4, <1>b, <1>c, <1>n, CondTyped
<1> QED  BY <1>c, <1>w, <1>g, <1>m, <1>n, <1>l, <1>o DEF Cond!CondInv

(* It locks the counts.                                                    *)
LEMMA CondCleanupLock ==
  ASSUME Cond!CondInv, NEW t \in Waiter, Cond!CleanupLock(t) PROVE Cond!CondInv'
<1>0. Cond!CleanupLock(t)
  OBVIOUS
<1>v. CondValues
  BY CondValuesAre
<1>i. Cond!GateTrue /\ Cond!UnblockLockTrue /\ Cond!GoneTrue /\ Cond!UsedWhileLive
  BY DEF Cond!CondInv
<1>1. pc[t] = "cleanup" /\ obj.mtxUnblockLock = Cond!NOBODY
  BY <1>0 DEF Cond!CleanupLock, Cond!LockUnblock
<1>2. CondFields(obj.ptr, obj.nWaitersBlocked, obj.nWaitersToUnblock,
                      obj.nWaitersGone, obj.semBlockLock, obj.semBlockQueue, t)
  BY <1>v, <1>1 DEF Cond!CleanupLock, CondValues, CondFields, CondSame, CondObject,
     Cond!LockUnblock
<1>3. CondAt(t, "retract")
  BY <1>v, <1>1 DEF Cond!CleanupLock, Cond!Goto, Cond!Return, CondValues, CondAt,
     CondLabels, Cond!LockUnblock
<1>4. CondCall(t, loc[t].op, loc[t].n)
  BY <1>v, <1>1, FewWaiters DEF Cond!CleanupLock, Cond!Return, Cond!Enter, CondValues,
     CondCall, CondCalls, CondOps, CondResults, Cond!LockUnblock
<1>5. CondChange(0, 0, 0)
  BY <1>v, <1>1, <1>3, <1>4, CondChanges DEF In, CondValues
<1>c. Cond!WaitersCounted'
  BY <1>v, <1>1, <1>2, <1>5, CondWords DEF CondValues, CondObject, CondChange,
     CondFields, CondSame
<1>w. Cond!NoLostWakeup'
  BY <1>v, <1>1, <1>2, <1>5, CondWords DEF CondValues, CondObject, CondChange,
     CondFields, CondSame
<1>g. Cond!GateTrue'
  BY <1>v, <1>i, <1>1, <1>2, <1>3 DEF CondAt, CondCall, CondFields, CondSame,
     CondValues, CondObject, Cond!GateTrue, Cond!HoldsGate
<1>m. Cond!UnblockLockTrue'
  BY <1>i, <1>1, <1>2, <1>3, ThreadAssumption, WaiterAssumption DEF CondAt, CondCall,
     CondFields, CondSame, Cond!UnblockLockTrue, Cond!NOBODY
<1>n. Cond!GoneTrue'
  BY <1>v, <1>i, <1>1, <1>2, <1>3 DEF CondAt, CondCall, CondFields, CondSame,
     CondValues, CondObject, Cond!UnblockLockTrue, Cond!GoneTrue, Cond!SomeBlocked, Cond!At
<1>l. Cond!UsedWhileLive'
  BY <1>i, <1>1, <1>2, <1>3, <1>4 DEF CondAt, CondCall, CondFields, CondSame,
     Cond!UsedWhileLive, Cond!Outside
<1>b. /\ obj' \in CondObject /\ obj'.nWaitersBlocked >= 0 /\ obj'.semBlockQueue >= 0
      /\ obj'.nWaitersToUnblock >= 0 /\ obj'.nWaitersGone \in 0..GoneMax
      /\ obj'.semBlockLock \in {0, 1}
  BY <1>v, <1>1, <1>2 DEF CondValues, CondFields, CondSame, CondObject
<1>o. Cond!TypeOK'
  BY <1>v, <1>3, <1>4, <1>b, <1>c, <1>n, CondTyped
<1> QED  BY <1>c, <1>w, <1>g, <1>m, <1>n, <1>l, <1>o DEF Cond!CondInv

(* It is a waiter no more: one to be unblocked less, the last of whom      *)
(* opens the gate, or one that has gone.                                   *)
LEMMA CondRetract ==
  ASSUME Cond!CondInv, NEW t \in Waiter, Cond!Retract(t) PROVE Cond!CondInv'
<1>0. Cond!Retract(t)
  OBVIOUS
<1>v. CondValues
  BY CondValuesAre
<1>i. Cond!GateTrue /\ Cond!UnblockLockTrue /\ Cond!GoneTrue /\ Cond!UsedWhileLive
  BY DEF Cond!CondInv
<1>1. CASE obj.nWaitersToUnblock = 1
  <2>1. pc[t] = "retract" /\ obj.nWaitersToUnblock = 1
    BY <1>1, <1>0 DEF Cond!Retract, Cond!SignalsLeft
  <2>e. obj' = [obj EXCEPT !.nWaitersToUnblock = obj.nWaitersToUnblock - 1,
                      !.mtxUnblockLock = Cond!NOBODY]
    BY <1>1, <1>0, <1>v, <2>1 DEF Cond!Retract, CondValues, CondObject, Cond!SignalsLeft
  <2>t. obj.nWaitersToUnblock - 1 \in Int
    BY <1>v DEF CondValues, CondObject
  <2>2. CondFields(obj.ptr, obj.nWaitersBlocked, obj.nWaitersToUnblock - 1,
                          obj.nWaitersGone, obj.semBlockLock, obj.semBlockQueue, Cond!NOBODY)
    BY <1>v, <2>e, <2>t, CondToUnblockLockSet DEF CondValues
  <2>3. CondAt(t, "open")
    BY <1>1, <1>v, <2>1 DEF Cond!Retract, Cond!Goto, Cond!Return, CondValues, CondAt,
       CondLabels, Cond!SignalsLeft
  <2>4. CondCall(t, loc[t].op, loc[t].n)
    BY <1>1, <1>v, <2>1, FewWaiters DEF Cond!Retract, Cond!Return, Cond!Enter,
       CondValues, CondCall, CondCalls, CondOps, CondResults
  <2>5. CondChange(-1, -1, 0)
    BY <1>v, <2>1, <2>3, <2>4, CondChanges DEF In, CondValues
  <2>c. Cond!WaitersCounted'
    BY <1>v, <2>1, <2>2, <2>5, CondWords DEF CondValues, CondObject, CondChange,
       CondFields, CondSame
  <2>w. Cond!NoLostWakeup'
    BY <1>v, <2>1, <2>2, <2>5, CondWords DEF CondValues, CondObject, CondChange,
       CondFields, CondSame
  <2>g. Cond!GateTrue'
    BY <1>v, <1>i, <2>1, <2>2, <2>3 DEF CondAt, CondCall, CondFields, CondSame,
       CondValues, CondObject, Cond!GateTrue, Cond!HoldsGate
  <2>m. Cond!UnblockLockTrue'
    BY <1>i, <2>1, <2>2, <2>3, ThreadAssumption, WaiterAssumption DEF CondAt, CondCall,
       CondFields, CondSame, Cond!UnblockLockTrue, Cond!NOBODY
  <2>n. Cond!GoneTrue'
    BY <1>v, <1>i, <2>1, <2>2, <2>3 DEF CondAt, CondCall, CondFields, CondSame,
       CondValues, CondObject, Cond!UnblockLockTrue, Cond!GoneTrue, Cond!SomeBlocked,
       Cond!At
  <2>l. Cond!UsedWhileLive'
    BY <1>i, <2>1, <2>2, <2>3, <2>4 DEF CondAt, CondCall, CondFields, CondSame,
       Cond!UsedWhileLive, Cond!Outside
  <2>b. /\ obj' \in CondObject /\ obj'.nWaitersBlocked >= 0 /\ obj'.semBlockQueue >= 0
        /\ obj'.nWaitersToUnblock >= 0 /\ obj'.nWaitersGone \in 0..GoneMax
        /\ obj'.semBlockLock \in {0, 1}
    BY <1>v, <2>1, <2>2, <1>i DEF CondValues, CondFields, CondSame, CondObject,
       Cond!GateTrue, Cond!HoldsGate, Cond!UnblockLockTrue, Cond!GoneTrue, Cond!At
  <2>o. Cond!TypeOK'
    BY <1>v, <2>3, <2>4, <2>b, <2>c, <2>n, CondTyped
  <2> QED  BY <2>c, <2>w, <2>g, <2>m, <2>n, <2>l, <2>o DEF Cond!CondInv
<1>2. CASE obj.nWaitersToUnblock \notin {0, 1}
  <2>1. pc[t] = "retract" /\ obj.nWaitersToUnblock \notin {0, 1}
    BY <1>2, <1>0 DEF Cond!Retract, Cond!SignalsLeft
  <2>e. obj' = [obj EXCEPT !.nWaitersToUnblock = obj.nWaitersToUnblock - 1,
                      !.mtxUnblockLock = Cond!NOBODY]
    BY <1>2, <1>0, <1>v, <2>1 DEF Cond!Retract, CondValues, CondObject, Cond!SignalsLeft
  <2>t. obj.nWaitersToUnblock - 1 \in Int
    BY <1>v DEF CondValues, CondObject
  <2>2. CondFields(obj.ptr, obj.nWaitersBlocked, obj.nWaitersToUnblock - 1,
                          obj.nWaitersGone, obj.semBlockLock, obj.semBlockQueue, Cond!NOBODY)
    BY <1>v, <2>e, <2>t, CondToUnblockLockSet DEF CondValues
  <2>3. CondAt(t, "relock")
    BY <1>2, <1>v, <2>1 DEF Cond!Retract, Cond!Goto, Cond!Return, CondValues, CondAt,
       CondLabels, Cond!SignalsLeft
  <2>4. CondCall(t, loc[t].op, loc[t].n)
    BY <1>2, <1>v, <2>1, FewWaiters DEF Cond!Retract, Cond!Return, Cond!Enter,
       CondValues, CondCall, CondCalls, CondOps, CondResults
  <2>5. CondChange(-1, -1, 0)
    BY <1>v, <2>1, <2>3, <2>4, CondChanges DEF In, CondValues
  <2>c. Cond!WaitersCounted'
    BY <1>v, <2>1, <2>2, <2>5, CondWords DEF CondValues, CondObject, CondChange,
       CondFields, CondSame
  <2>w. Cond!NoLostWakeup'
    BY <1>v, <2>1, <2>2, <2>5, CondWords DEF CondValues, CondObject, CondChange,
       CondFields, CondSame
  <2>g. Cond!GateTrue'
    BY <1>v, <1>i, <2>1, <2>2, <2>3 DEF CondAt, CondCall, CondFields, CondSame,
       CondValues, CondObject, Cond!GateTrue, Cond!HoldsGate
  <2>m. Cond!UnblockLockTrue'
    BY <1>i, <2>1, <2>2, <2>3, ThreadAssumption, WaiterAssumption DEF CondAt, CondCall,
       CondFields, CondSame, Cond!UnblockLockTrue, Cond!NOBODY
  <2>n. Cond!GoneTrue'
    BY <1>v, <1>i, <2>1, <2>2, <2>3 DEF CondAt, CondCall, CondFields, CondSame,
       CondValues, CondObject, Cond!UnblockLockTrue, Cond!GoneTrue, Cond!SomeBlocked,
       Cond!At
  <2>l. Cond!UsedWhileLive'
    BY <1>i, <2>1, <2>2, <2>3, <2>4 DEF CondAt, CondCall, CondFields, CondSame,
       Cond!UsedWhileLive, Cond!Outside
  <2>b. /\ obj' \in CondObject /\ obj'.nWaitersBlocked >= 0 /\ obj'.semBlockQueue >= 0
        /\ obj'.nWaitersToUnblock >= 0 /\ obj'.nWaitersGone \in 0..GoneMax
        /\ obj'.semBlockLock \in {0, 1}
    BY <1>v, <2>1, <2>2, <1>i DEF CondValues, CondFields, CondSame, CondObject,
       Cond!GateTrue, Cond!HoldsGate, Cond!UnblockLockTrue, Cond!GoneTrue, Cond!At
  <2>o. Cond!TypeOK'
    BY <1>v, <2>3, <2>4, <2>b, <2>c, <2>n, CondTyped
  <2> QED  BY <2>c, <2>w, <2>g, <2>m, <2>n, <2>l, <2>o DEF Cond!CondInv
<1>3. CASE obj.nWaitersToUnblock = 0 /\ obj.nWaitersGone + 1 = GoneMax
  <2>1. pc[t] = "retract" /\ obj.nWaitersToUnblock = 0 /\ obj.nWaitersGone + 1 = GoneMax
    BY <1>3, <1>0 DEF Cond!Retract, Cond!SignalsLeft
  <2>e. obj' = [obj EXCEPT !.nWaitersGone = obj.nWaitersGone + 1]
    BY <1>3, <1>0, <1>v, <2>1 DEF Cond!Retract, CondValues, CondObject, Cond!SignalsLeft
  <2>t. obj.nWaitersGone + 1 \in Int
    BY <1>v DEF CondValues, CondObject
  <2>2. CondFields(obj.ptr, obj.nWaitersBlocked, obj.nWaitersToUnblock,
                          obj.nWaitersGone + 1, obj.semBlockLock, obj.semBlockQueue, obj.mtxUnblockLock)
    BY <1>v, <2>e, <2>t, CondGoneSet DEF CondValues
  <2>3. CondAt(t, "forget")
    BY <1>3, <1>v, <2>1 DEF Cond!Retract, Cond!Goto, Cond!Return, CondValues, CondAt,
       CondLabels, Cond!SignalsLeft
  <2>4. CondCall(t, loc[t].op, loc[t].n)
    BY <1>3, <1>v, <2>1, FewWaiters DEF Cond!Retract, Cond!Return, Cond!Enter,
       CondValues, CondCall, CondCalls, CondOps, CondResults
  <2>5. CondChange(-1, -1, 0)
    BY <1>v, <2>1, <2>3, <2>4, CondChanges DEF In, CondValues
  <2>c. Cond!WaitersCounted'
    BY <1>v, <2>1, <2>2, <2>5, CondWords DEF CondValues, CondObject, CondChange,
       CondFields, CondSame
  <2>w. Cond!NoLostWakeup'
    BY <1>v, <2>1, <2>2, <2>5, CondWords DEF CondValues, CondObject, CondChange,
       CondFields, CondSame
  <2>g. Cond!GateTrue'
    BY <1>v, <1>i, <2>1, <2>2, <2>3 DEF CondAt, CondCall, CondFields, CondSame,
       CondValues, CondObject, Cond!GateTrue, Cond!HoldsGate
  <2>m. Cond!UnblockLockTrue'
    BY <1>i, <2>1, <2>2, <2>3, ThreadAssumption, WaiterAssumption DEF CondAt, CondCall,
       CondFields, CondSame, Cond!UnblockLockTrue, Cond!NOBODY
  <2>n. Cond!GoneTrue'
    BY <1>v, <1>i, <2>1, <2>2, <2>3 DEF CondAt, CondCall, CondFields, CondSame,
       CondValues, CondObject, Cond!UnblockLockTrue, Cond!GoneTrue, Cond!SomeBlocked,
       Cond!At
  <2>l. Cond!UsedWhileLive'
    BY <1>i, <2>1, <2>2, <2>3, <2>4 DEF CondAt, CondCall, CondFields, CondSame,
       Cond!UsedWhileLive, Cond!Outside
  <2>b. /\ obj' \in CondObject /\ obj'.nWaitersBlocked >= 0 /\ obj'.semBlockQueue >= 0
        /\ obj'.nWaitersToUnblock >= 0 /\ obj'.nWaitersGone \in 0..GoneMax
        /\ obj'.semBlockLock \in {0, 1}
    BY <1>v, <2>1, <2>2, <1>i DEF CondValues, CondFields, CondSame, CondObject,
       Cond!GateTrue, Cond!HoldsGate, Cond!UnblockLockTrue, Cond!GoneTrue, Cond!At
  <2>o. Cond!TypeOK'
    BY <1>v, <2>3, <2>4, <2>b, <2>c, <2>n, CondTyped
  <2> QED  BY <2>c, <2>w, <2>g, <2>m, <2>n, <2>l, <2>o DEF Cond!CondInv
<1>4. CASE obj.nWaitersToUnblock = 0 /\ obj.nWaitersGone + 1 # GoneMax
  <2>1. pc[t] = "retract" /\ obj.nWaitersToUnblock = 0 /\ obj.nWaitersGone + 1 # GoneMax
    BY <1>4, <1>0 DEF Cond!Retract, Cond!SignalsLeft
  <2>e. obj' = [obj EXCEPT !.nWaitersGone = obj.nWaitersGone + 1,
                      !.mtxUnblockLock = Cond!NOBODY]
    BY <1>4, <1>0, <1>v, <2>1 DEF Cond!Retract, CondValues, CondObject, Cond!SignalsLeft
  <2>t. obj.nWaitersGone + 1 \in Int
    BY <1>v DEF CondValues, CondObject
  <2>2. CondFields(obj.ptr, obj.nWaitersBlocked, obj.nWaitersToUnblock,
                          obj.nWaitersGone + 1, obj.semBlockLock, obj.semBlockQueue, Cond!NOBODY)
    BY <1>v, <2>e, <2>t, CondGoneLockSet DEF CondValues
  <2>3. CondAt(t, "relock")
    BY <1>4, <1>v, <2>1 DEF Cond!Retract, Cond!Goto, Cond!Return, CondValues, CondAt,
       CondLabels, Cond!SignalsLeft
  <2>4. CondCall(t, loc[t].op, loc[t].n)
    BY <1>4, <1>v, <2>1, FewWaiters DEF Cond!Retract, Cond!Return, Cond!Enter,
       CondValues, CondCall, CondCalls, CondOps, CondResults
  <2>5. CondChange(-1, -1, 0)
    BY <1>v, <2>1, <2>3, <2>4, CondChanges DEF In, CondValues
  <2>c. Cond!WaitersCounted'
    BY <1>v, <2>1, <2>2, <2>5, CondWords DEF CondValues, CondObject, CondChange,
       CondFields, CondSame
  <2>w. Cond!NoLostWakeup'
    BY <1>v, <2>1, <2>2, <2>5, CondWords DEF CondValues, CondObject, CondChange,
       CondFields, CondSame
  <2>g. Cond!GateTrue'
    BY <1>v, <1>i, <2>1, <2>2, <2>3 DEF CondAt, CondCall, CondFields, CondSame,
       CondValues, CondObject, Cond!GateTrue, Cond!HoldsGate
  <2>m. Cond!UnblockLockTrue'
    BY <1>i, <2>1, <2>2, <2>3, ThreadAssumption, WaiterAssumption DEF CondAt, CondCall,
       CondFields, CondSame, Cond!UnblockLockTrue, Cond!NOBODY
  <2>n. Cond!GoneTrue'
    BY <1>v, <1>i, <2>1, <2>2, <2>3 DEF CondAt, CondCall, CondFields, CondSame,
       CondValues, CondObject, Cond!UnblockLockTrue, Cond!GoneTrue, Cond!SomeBlocked,
       Cond!At
  <2>l. Cond!UsedWhileLive'
    BY <1>i, <2>1, <2>2, <2>3, <2>4 DEF CondAt, CondCall, CondFields, CondSame,
       Cond!UsedWhileLive, Cond!Outside
  <2>b. /\ obj' \in CondObject /\ obj'.nWaitersBlocked >= 0 /\ obj'.semBlockQueue >= 0
        /\ obj'.nWaitersToUnblock >= 0 /\ obj'.nWaitersGone \in 0..GoneMax
        /\ obj'.semBlockLock \in {0, 1}
    BY <1>v, <2>1, <2>2, <1>i DEF CondValues, CondFields, CondSame, CondObject,
       Cond!GateTrue, Cond!HoldsGate, Cond!UnblockLockTrue, Cond!GoneTrue, Cond!At
  <2>o. Cond!TypeOK'
    BY <1>v, <2>3, <2>4, <2>b, <2>c, <2>n, CondTyped
  <2> QED  BY <2>c, <2>w, <2>g, <2>m, <2>n, <2>l, <2>o DEF Cond!CondInv
<1> QED  BY <1>0, <1>1, <1>2, <1>3, <1>4

(* Those that have gone are taken off the count of the blocked.            *)
LEMMA CondForget ==
  ASSUME Cond!CondInv, NEW t \in Waiter, Cond!Forget(t) PROVE Cond!CondInv'
<1>0. Cond!Forget(t)
  OBVIOUS
<1>v. CondValues
  BY CondValuesAre
<1>i. Cond!GateTrue /\ Cond!UnblockLockTrue /\ Cond!GoneTrue /\ Cond!UsedWhileLive
  BY DEF Cond!CondInv
<1>1. pc[t] = "forget" /\ obj.semBlockLock > 0
  BY <1>0 DEF Cond!Forget
<1>e. obj' = [obj EXCEPT !.nWaitersBlocked = obj.nWaitersBlocked - obj.nWaitersGone,
                    !.nWaitersGone = 0, !.mtxUnblockLock = Cond!NOBODY]
  BY <1>0, <1>v, <1>1 DEF Cond!Forget, CondValues, CondObject, Cond!Settled
<1>t. obj.nWaitersBlocked - obj.nWaitersGone \in Int /\ 0 \in Int
  BY <1>v DEF CondValues, CondObject
<1>2. CondFields(obj.ptr, obj.nWaitersBlocked - obj.nWaitersGone, obj.nWaitersToUnblock,
                      0, obj.semBlockLock, obj.semBlockQueue, Cond!NOBODY)
  BY <1>v, <1>e, <1>t, CondBlockedGoneLockSet DEF CondValues
<1>3. CondAt(t, "relock")
  BY <1>v, <1>1 DEF Cond!Forget, Cond!Goto, Cond!Return, CondValues, CondAt, CondLabels
<1>4. CondCall(t, loc[t].op, loc[t].n)
  BY <1>v, <1>1, FewWaiters DEF Cond!Forget, Cond!Return, Cond!Enter, CondValues,
     CondCall, CondCalls, CondOps, CondResults
<1>5. CondChange(0, 0, 0)
  BY <1>v, <1>1, <1>3, <1>4, CondChanges DEF In, CondValues
<1>c. Cond!WaitersCounted'
  BY <1>v, <1>1, <1>2, <1>5, CondWords DEF CondValues, CondObject, CondChange,
     CondFields, CondSame
<1>w. Cond!NoLostWakeup'
  BY <1>v, <1>1, <1>2, <1>5, CondWords DEF CondValues, CondObject, CondChange,
     CondFields, CondSame
<1>g. Cond!GateTrue'
  BY <1>v, <1>i, <1>1, <1>2, <1>3 DEF CondAt, CondCall, CondFields, CondSame,
     CondValues, CondObject, Cond!GateTrue, Cond!HoldsGate
<1>m. Cond!UnblockLockTrue'
  BY <1>i, <1>1, <1>2, <1>3, ThreadAssumption, WaiterAssumption DEF CondAt, CondCall,
     CondFields, CondSame, Cond!UnblockLockTrue, Cond!NOBODY
<1>n. Cond!GoneTrue'
  BY <1>v, <1>i, <1>1, <1>2, <1>3 DEF CondAt, CondCall, CondFields, CondSame,
     CondValues, CondObject, Cond!UnblockLockTrue, Cond!GoneTrue, Cond!SomeBlocked, Cond!At
<1>l. Cond!UsedWhileLive'
  BY <1>i, <1>1, <1>2, <1>3, <1>4 DEF CondAt, CondCall, CondFields, CondSame,
     Cond!UsedWhileLive, Cond!Outside
<1>b. /\ obj' \in CondObject /\ obj'.nWaitersBlocked >= 0 /\ obj'.semBlockQueue >= 0
      /\ obj'.nWaitersToUnblock >= 0 /\ obj'.nWaitersGone \in 0..GoneMax
      /\ obj'.semBlockLock \in {0, 1}
  BY <1>v, <1>1, <1>2, <1>i DEF CondValues, CondFields, CondSame, CondObject,
     Cond!GateTrue, Cond!HoldsGate, Cond!UnblockLockTrue, Cond!GoneTrue, Cond!At
<1>o. Cond!TypeOK'
  BY <1>v, <1>3, <1>4, <1>b, <1>c, <1>n, CondTyped
<1> QED  BY <1>c, <1>w, <1>g, <1>m, <1>n, <1>l, <1>o DEF Cond!CondInv

(* The gate is opened when all are unblocked.                              *)
LEMMA CondOpenGate ==
  ASSUME Cond!CondInv, NEW t \in Waiter, Cond!OpenGate(t) PROVE Cond!CondInv'
<1>0. Cond!OpenGate(t)
  OBVIOUS
<1>v. CondValues
  BY CondValuesAre
<1>i. Cond!GateTrue /\ Cond!UnblockLockTrue /\ Cond!GoneTrue /\ Cond!UsedWhileLive
  BY DEF Cond!CondInv
<1>1. pc[t] = "open"
  BY <1>0 DEF Cond!OpenGate
<1>2. CondFields(obj.ptr, obj.nWaitersBlocked, obj.nWaitersToUnblock,
                      obj.nWaitersGone, obj.semBlockLock + 1, obj.semBlockQueue, obj.mtxUnblockLock)
  BY <1>v, <1>1 DEF Cond!OpenGate, CondValues, CondFields, CondSame, CondObject
<1>3. CondAt(t, "relock")
  BY <1>v, <1>1 DEF Cond!OpenGate, Cond!Goto, Cond!Return, CondValues, CondAt,
     CondLabels
<1>4. CondCall(t, loc[t].op, loc[t].n)
  BY <1>v, <1>1, FewWaiters DEF Cond!OpenGate, Cond!Return, Cond!Enter, CondValues,
     CondCall, CondCalls, CondOps, CondResults
<1>5. CondChange(0, 0, 0)
  BY <1>v, <1>1, <1>3, <1>4, CondChanges DEF In, CondValues
<1>c. Cond!WaitersCounted'
  BY <1>v, <1>1, <1>2, <1>5, CondWords DEF CondValues, CondObject, CondChange,
     CondFields, CondSame
<1>w. Cond!NoLostWakeup'
  BY <1>v, <1>1, <1>2, <1>5, CondWords DEF CondValues, CondObject, CondChange,
     CondFields, CondSame
<1>g. Cond!GateTrue'
  BY <1>v, <1>i, <1>1, <1>2, <1>3 DEF CondAt, CondCall, CondFields, CondSame,
     CondValues, CondObject, Cond!GateTrue, Cond!HoldsGate
<1>m. Cond!UnblockLockTrue'
  BY <1>i, <1>1, <1>2, <1>3, ThreadAssumption, WaiterAssumption DEF CondAt, CondCall,
     CondFields, CondSame, Cond!UnblockLockTrue, Cond!NOBODY
<1>n. Cond!GoneTrue'
  BY <1>v, <1>i, <1>1, <1>2, <1>3 DEF CondAt, CondCall, CondFields, CondSame,
     CondValues, CondObject, Cond!UnblockLockTrue, Cond!GoneTrue, Cond!SomeBlocked, Cond!At
<1>l. Cond!UsedWhileLive'
  BY <1>i, <1>1, <1>2, <1>3, <1>4 DEF CondAt, CondCall, CondFields, CondSame,
     Cond!UsedWhileLive, Cond!Outside
<1>b. /\ obj' \in CondObject /\ obj'.nWaitersBlocked >= 0 /\ obj'.semBlockQueue >= 0
      /\ obj'.nWaitersToUnblock >= 0 /\ obj'.nWaitersGone \in 0..GoneMax
      /\ obj'.semBlockLock \in {0, 1}
  BY <1>v, <1>1, <1>2, <1>i DEF CondValues, CondFields, CondSame, CondObject,
     Cond!GateTrue, Cond!HoldsGate, Cond!UnblockLockTrue, Cond!GoneTrue, Cond!At
<1>o. Cond!TypeOK'
  BY <1>v, <1>3, <1>4, <1>b, <1>c, <1>n, CondTyped
<1> QED  BY <1>c, <1>w, <1>g, <1>m, <1>n, <1>l, <1>o DEF Cond!CondInv

(* The mutex is locked again and unlocked by the caller.                   *)
LEMMA CondRelock ==
  ASSUME Cond!CondInv, NEW t \in Waiter, Cond!Relock(t) PROVE Cond!CondInv'
<1>0. Cond!Relock(t)
  OBVIOUS
<1>v. CondValues
  BY CondValuesAre
<1>i. Cond!GateTrue /\ Cond!UnblockLockTrue /\ Cond!GoneTrue /\ Cond!UsedWhileLive
  BY DEF Cond!CondInv
<1>1. CASE pc[t] = "relock"
  <2>1. pc[t] = "relock"
    BY <1>1, <1>0 DEF Cond!Relock
  <2>2. CondSame
    BY <1>1, <1>v, <2>1 DEF Cond!Relock, CondValues, CondFields, CondSame, CondObject
  <2>3. CondAt(t, "unlock")
    BY <1>1, <1>v, <2>1 DEF Cond!Relock, Cond!Goto, Cond!Return, CondValues, CondAt,
       CondLabels
  <2>4. CondCall(t, loc[t].op, loc[t].n)
    BY <1>1, <1>v, <2>1, FewWaiters DEF Cond!Relock, Cond!Return, Cond!Enter,
       CondValues, CondCall, CondCalls, CondOps, CondResults
  <2>5. CondChange(0, 0, 0)
    BY <1>v, <2>1, <2>3, <2>4, CondChanges DEF In, CondValues
  <2>c. Cond!WaitersCounted'
    BY <1>v, <2>1, <2>2, <2>5, CondWords DEF CondValues, CondObject, CondChange,
       CondFields, CondSame
  <2>w. Cond!NoLostWakeup'
    BY <1>v, <2>1, <2>2, <2>5, CondWords DEF CondValues, CondObject, CondChange,
       CondFields, CondSame
  <2>g. Cond!GateTrue'
    BY <1>v, <1>i, <2>1, <2>2, <2>3 DEF CondAt, CondCall, CondFields, CondSame,
       CondValues, CondObject, Cond!GateTrue, Cond!HoldsGate
  <2>m. Cond!UnblockLockTrue'
    BY <1>i, <2>1, <2>2, <2>3, ThreadAssumption, WaiterAssumption DEF CondAt, CondCall,
       CondFields, CondSame, Cond!UnblockLockTrue, Cond!NOBODY
  <2>n. Cond!GoneTrue'
    BY <1>v, <1>i, <2>1, <2>2, <2>3 DEF CondAt, CondCall, CondFields, CondSame,
       CondValues, CondObject, Cond!UnblockLockTrue, Cond!GoneTrue, Cond!SomeBlocked,
       Cond!At
  <2>l. Cond!UsedWhileLive'
    BY <1>i, <2>1, <2>2, <2>3, <2>4 DEF CondAt, CondCall, CondFields, CondSame,
       Cond!UsedWhileLive, Cond!Outside
  <2>b. /\ obj' \in CondObject /\ obj'.nWaitersBlocked >= 0 /\ obj'.semBlockQueue >= 0
        /\ obj'.nWaitersToUnblock >= 0 /\ obj'.nWaitersGone \in 0..GoneMax
        /\ obj'.semBlockLock \in {0, 1}
    BY <1>v, <2>1, <2>2 DEF CondValues, CondFields, CondSame, CondObject
  <2>o. Cond!TypeOK'
    BY <1>v, <2>3, <2>4, <2>b, <2>c, <2>n, CondTyped
  <2> QED  BY <2>c, <2>w, <2>g, <2>m, <2>n, <2>l, <2>o DEF Cond!CondInv
<1>2. CASE pc[t] = "unlock"
  <2>1. pc[t] = "unlock"
    BY <1>2, <1>0 DEF Cond!Relock
  <2>2. CondSame
    BY <1>2, <1>v, <2>1 DEF Cond!Relock, CondValues, CondFields, CondSame, CondObject
  <2>3. CondAt(t, "idle")
    BY <1>2, <1>v, <2>1 DEF Cond!Relock, Cond!Goto, Cond!Return, CondValues, CondAt,
       CondLabels
  <2>4. CondCall(t, "none", 0)
    BY <1>2, <1>v, <2>1, FewWaiters DEF Cond!Relock, Cond!Return, Cond!Enter,
       CondValues, CondCall, CondCalls, CondOps, CondResults
  <2>5. CondChange(0, 0, 0)
    BY <1>v, <2>1, <2>3, <2>4, CondChanges DEF In, CondValues
  <2>c. Cond!WaitersCounted'
    BY <1>v, <2>1, <2>2, <2>5, CondWords DEF CondValues, CondObject, CondChange,
       CondFields, CondSame
  <2>w. Cond!NoLostWakeup'
    BY <1>v, <2>1, <2>2, <2>5, CondWords DEF CondValues, CondObject, CondChange,
       CondFields, CondSame
  <2>g. Cond!GateTrue'
    BY <1>v, <1>i, <2>1, <2>2, <2>3 DEF CondAt, CondCall, CondFields, CondSame,
       CondValues, CondObject, Cond!GateTrue, Cond!HoldsGate
  <2>m. Cond!UnblockLockTrue'
    BY <1>i, <2>1, <2>2, <2>3, ThreadAssumption, WaiterAssumption DEF CondAt, CondCall,
       CondFields, CondSame, Cond!UnblockLockTrue, Cond!NOBODY
  <2>n. Cond!GoneTrue'
    BY <1>v, <1>i, <2>1, <2>2, <2>3 DEF CondAt, CondCall, CondFields, CondSame,
       CondValues, CondObject, Cond!UnblockLockTrue, Cond!GoneTrue, Cond!SomeBlocked,
       Cond!At
  <2>l. Cond!UsedWhileLive'
    BY <1>i, <2>1, <2>2, <2>3, <2>4 DEF CondAt, CondCall, CondFields, CondSame,
       Cond!UsedWhileLive, Cond!Outside
  <2>b. /\ obj' \in CondObject /\ obj'.nWaitersBlocked >= 0 /\ obj'.semBlockQueue >= 0
        /\ obj'.nWaitersToUnblock >= 0 /\ obj'.nWaitersGone \in 0..GoneMax
        /\ obj'.semBlockLock \in {0, 1}
    BY <1>v, <2>1, <2>2 DEF CondValues, CondFields, CondSame, CondObject
  <2>o. Cond!TypeOK'
    BY <1>v, <2>3, <2>4, <2>b, <2>c, <2>n, CondTyped
  <2> QED  BY <2>c, <2>w, <2>g, <2>m, <2>n, <2>l, <2>o DEF Cond!CondInv
<1> QED  BY <1>0, <1>1, <1>2 DEF Cond!Relock

(* A signal or a broadcast begins.                                         *)
LEMMA CondSignal ==
  ASSUME Cond!CondInv, NEW t \in Waiter, Cond!Signal(t) PROVE Cond!CondInv'
<1>0. Cond!Signal(t)
  OBVIOUS
<1>v. CondValues
  BY CondValuesAre
<1>i. Cond!GateTrue /\ Cond!UnblockLockTrue /\ Cond!GoneTrue /\ Cond!UsedWhileLive
  BY DEF Cond!CondInv
<1>q. loc'[t].op \in {"signal", "broadcast"}
  BY <1>0, <1>v DEF Cond!Signal, Cond!Enter, CondValues
<1>1. pc[t] = "idle" /\ obj.ptr = "live" /\ ~Cond!Destroying
  BY <1>0 DEF Cond!Signal
<1>2. CondSame
  BY <1>v, <1>1 DEF Cond!Signal, CondValues, CondFields, CondSame, CondObject
<1>3. CondAt(t, "lock")
  BY <1>v, <1>1 DEF Cond!Signal, Cond!Goto, Cond!Return, CondValues, CondAt, CondLabels
<1>4. CondCall(t, loc'[t].op, 0)
  BY <1>v, <1>1, FewWaiters DEF Cond!Signal, Cond!Return, Cond!Enter, CondValues,
     CondCall, CondCalls, CondOps, CondResults
<1>5. CondChange(0, 0, 0)
  BY <1>v, <1>1, <1>3, <1>4, CondChanges DEF In, CondValues
<1>c. Cond!WaitersCounted'
  BY <1>v, <1>1, <1>2, <1>5, CondWords DEF CondValues, CondObject, CondChange,
     CondFields, CondSame
<1>w. Cond!NoLostWakeup'
  BY <1>v, <1>1, <1>2, <1>5, CondWords DEF CondValues, CondObject, CondChange,
     CondFields, CondSame
<1>g. Cond!GateTrue'
  BY <1>v, <1>i, <1>1, <1>2, <1>3 DEF CondAt, CondCall, CondFields, CondSame,
     CondValues, CondObject, Cond!GateTrue, Cond!HoldsGate
<1>m. Cond!UnblockLockTrue'
  BY <1>i, <1>1, <1>2, <1>3, ThreadAssumption, WaiterAssumption DEF CondAt, CondCall,
     CondFields, CondSame, Cond!UnblockLockTrue, Cond!NOBODY
<1>n. Cond!GoneTrue'
  BY <1>v, <1>i, <1>1, <1>2, <1>3 DEF CondAt, CondCall, CondFields, CondSame,
     CondValues, CondObject, Cond!UnblockLockTrue, Cond!GoneTrue, Cond!SomeBlocked, Cond!At
<1>l. Cond!UsedWhileLive'
  BY <1>i, <1>q, <1>1, <1>2, <1>3, <1>4 DEF CondAt, CondCall, CondFields, CondSame,
     Cond!UsedWhileLive, Cond!Outside, Cond!Destroying
<1>b. /\ obj' \in CondObject /\ obj'.nWaitersBlocked >= 0 /\ obj'.semBlockQueue >= 0
      /\ obj'.nWaitersToUnblock >= 0 /\ obj'.nWaitersGone \in 0..GoneMax
      /\ obj'.semBlockLock \in {0, 1}
  BY <1>v, <1>1, <1>2 DEF CondValues, CondFields, CondSame, CondObject
<1>o. Cond!TypeOK'
  BY <1>v, <1>3, <1>4, <1>b, <1>c, <1>n, CondTyped
<1> QED  BY <1>c, <1>w, <1>g, <1>m, <1>n, <1>l, <1>o DEF Cond!CondInv

(* It locks the counts.                                                    *)
LEMMA CondSignalLock ==
  ASSUME Cond!CondInv, NEW t \in Waiter, Cond!SignalLock(t) PROVE Cond!CondInv'
<1>0. Cond!SignalLock(t)
  OBVIOUS
<1>v. CondValues
  BY CondValuesAre
<1>i. Cond!GateTrue /\ Cond!UnblockLockTrue /\ Cond!GoneTrue /\ Cond!UsedWhileLive
  BY DEF Cond!CondInv
<1>1. pc[t] = "lock" /\ obj.mtxUnblockLock = Cond!NOBODY
  BY <1>0 DEF Cond!SignalLock, Cond!LockUnblock
<1>2. CondFields(obj.ptr, obj.nWaitersBlocked, obj.nWaitersToUnblock,
                      obj.nWaitersGone, obj.semBlockLock, obj.semBlockQueue, t)
  BY <1>v, <1>1 DEF Cond!SignalLock, CondValues, CondFields, CondSame, CondObject,
     Cond!LockUnblock
<1>3. CondAt(t, "unblock")
  BY <1>v, <1>1 DEF Cond!SignalLock, Cond!Goto, Cond!Return, CondValues, CondAt,
     CondLabels, Cond!LockUnblock
<1>4. CondCall(t, loc[t].op, loc[t].n)
  BY <1>v, <1>1, FewWaiters DEF Cond!SignalLock, Cond!Return, Cond!Enter, CondValues,
     CondCall, CondCalls, CondOps, CondResults, Cond!LockUnblock
<1>5. CondChange(0, 0, 0)
  BY <1>v, <1>1, <1>3, <1>4, CondChanges DEF In, CondValues
<1>c. Cond!WaitersCounted'
  BY <1>v, <1>1, <1>2, <1>5, CondWords DEF CondValues, CondObject, CondChange,
     CondFields, CondSame
<1>w. Cond!NoLostWakeup'
  BY <1>v, <1>1, <1>2, <1>5, CondWords DEF CondValues, CondObject, CondChange,
     CondFields, CondSame
<1>g. Cond!GateTrue'
  BY <1>v, <1>i, <1>1, <1>2, <1>3 DEF CondAt, CondCall, CondFields, CondSame,
     CondValues, CondObject, Cond!GateTrue, Cond!HoldsGate
<1>m. Cond!UnblockLockTrue'
  BY <1>i, <1>1, <1>2, <1>3, ThreadAssumption, WaiterAssumption DEF CondAt, CondCall,
     CondFields, CondSame, Cond!UnblockLockTrue, Cond!NOBODY
<1>n. Cond!GoneTrue'
  BY <1>v, <1>i, <1>1, <1>2, <1>3 DEF CondAt, CondCall, CondFields, CondSame,
     CondValues, CondObject, Cond!UnblockLockTrue, Cond!GoneTrue, Cond!SomeBlocked, Cond!At
<1>l. Cond!UsedWhileLive'
  BY <1>i, <1>1, <1>2, <1>3, <1>4 DEF CondAt, CondCall, CondFields, CondSame,
     Cond!UsedWhileLive, Cond!Outside
<1>b. /\ obj' \in CondObject /\ obj'.nWaitersBlocked >= 0 /\ obj'.semBlockQueue >= 0
      /\ obj'.nWaitersToUnblock >= 0 /\ obj'.nWaitersGone \in 0..GoneMax
      /\ obj'.semBlockLock \in {0, 1}
  BY <1>v, <1>1, <1>2 DEF CondValues, CondFields, CondSame, CondObject
<1>o. Cond!TypeOK'
  BY <1>v, <1>3, <1>4, <1>b, <1>c, <1>n, CondTyped
<1> QED  BY <1>c, <1>w, <1>g, <1>m, <1>n, <1>l, <1>o DEF Cond!CondInv

(* More are unblocked while the gate is shut; or it has to be shut first;  *)
(* or there is nobody.                                                     *)
LEMMA CondUnblock ==
  ASSUME Cond!CondInv, NEW t \in Waiter, Cond!Unblock(t) PROVE Cond!CondInv'
<1>0. Cond!Unblock(t)
  OBVIOUS
<1>v. CondValues
  BY CondValuesAre
<1>i. Cond!GateTrue /\ Cond!UnblockLockTrue /\ Cond!GoneTrue /\ Cond!UsedWhileLive
  BY DEF Cond!CondInv
<1>1. CASE obj.nWaitersToUnblock # 0 /\ obj.nWaitersBlocked # 0 /\ loc[t].op = "broadcast"
  <2>1. pc[t] = "unblock" /\ obj.nWaitersToUnblock # 0 /\ obj.nWaitersBlocked # 0 /\ loc[t].op = "broadcast"
    BY <1>1, <1>0 DEF Cond!Unblock
  <2>e. obj' = [obj EXCEPT !.nWaitersToUnblock = obj.nWaitersToUnblock + obj.nWaitersBlocked,
                      !.nWaitersBlocked = obj.nWaitersBlocked - obj.nWaitersBlocked,
                      !.mtxUnblockLock = Cond!NOBODY]
    BY <1>1, <1>0, <1>v, <2>1 DEF Cond!Unblock, CondValues, CondObject, Cond!Issue,
       Cond!Unblocked
  <2>t. obj.nWaitersBlocked - obj.nWaitersBlocked \in Int /\ obj.nWaitersToUnblock + obj.nWaitersBlocked \in Int
    BY <1>v DEF CondValues, CondObject
  <2>2. CondFields(obj.ptr, obj.nWaitersBlocked - obj.nWaitersBlocked, obj.nWaitersToUnblock + obj.nWaitersBlocked,
                          obj.nWaitersGone, obj.semBlockLock, obj.semBlockQueue, Cond!NOBODY)
    BY <1>v, <2>e, <2>t, CondBlockedToUnblockLockSet DEF CondValues
  <2>3. CondAt(t, "post")
    BY <1>1, <1>v, <2>1 DEF Cond!Unblock, Cond!Goto, Cond!Return, CondValues, CondAt,
       CondLabels, Cond!Issue
  <2>s. obj.nWaitersBlocked \in 1..Cardinality(Waiter)
    BY <1>v, <1>i, <2>1 DEF CondValues, CondObject, Cond!GoneTrue
  <2>q. loc' = [loc EXCEPT ![t].n = obj.nWaitersBlocked]
    BY <1>1, <1>0, <1>v, <2>1, <2>e DEF Cond!Unblock, CondValues, CondObject, Cond!Issue
  <2>4. CondCall(t, loc[t].op, obj.nWaitersBlocked)
    BY <1>v, <2>s, <2>q, FewWaiters DEF CondValues, CondCall, CondCalls
  <2>5. CondChange(0, 0, obj.nWaitersBlocked)
    BY <1>v, <2>1, <2>3, <2>4, CondChanges DEF In, CondValues, CondObject
  <2>c. Cond!WaitersCounted'
    BY <1>v, <2>1, <2>2, <2>5, CondWords DEF CondValues, CondObject, CondChange,
       CondFields, CondSame
  <2>w. Cond!NoLostWakeup'
    BY <1>v, <2>1, <2>2, <2>5, CondWords DEF CondValues, CondObject, CondChange,
       CondFields, CondSame
  <2>g. Cond!GateTrue'
    BY <1>v, <1>i, <2>1, <2>2, <2>3 DEF CondAt, CondCall, CondFields, CondSame,
       CondValues, CondObject, Cond!GateTrue, Cond!HoldsGate
  <2>m. Cond!UnblockLockTrue'
    BY <1>i, <2>1, <2>2, <2>3, ThreadAssumption, WaiterAssumption DEF CondAt, CondCall,
       CondFields, CondSame, Cond!UnblockLockTrue, Cond!NOBODY
  <2>n. Cond!GoneTrue'
    BY <1>v, <1>i, <2>1, <2>2, <2>3 DEF CondAt, CondCall, CondFields, CondSame,
       CondValues, CondObject, Cond!UnblockLockTrue, Cond!GoneTrue, Cond!SomeBlocked,
       Cond!At
  <2>l. Cond!UsedWhileLive'
    BY <1>i, <2>1, <2>2, <2>3, <2>4 DEF CondAt, CondCall, CondFields, CondSame,
       Cond!UsedWhileLive, Cond!Outside
  <2>b. /\ obj' \in CondObject /\ obj'.nWaitersBlocked >= 0 /\ obj'.semBlockQueue >= 0
        /\ obj'.nWaitersToUnblock >= 0 /\ obj'.nWaitersGone \in 0..GoneMax
        /\ obj'.semBlockLock \in {0, 1}
    BY <1>v, <2>1, <2>2 DEF CondValues, CondFields, CondSame, CondObject
  <2>o. Cond!TypeOK'
    BY <1>v, <2>3, <2>4, <2>b, <2>c, <2>n, CondTyped
  <2> QED  BY <2>c, <2>w, <2>g, <2>m, <2>n, <2>l, <2>o DEF Cond!CondInv
<1>2. CASE obj.nWaitersToUnblock # 0 /\ obj.nWaitersBlocked # 0 /\ loc[t].op # "broadcast"
  <2>1. pc[t] = "unblock" /\ obj.nWaitersToUnblock # 0 /\ obj.nWaitersBlocked # 0 /\ loc[t].op # "broadcast"
    BY <1>2, <1>0 DEF Cond!Unblock
  <2>e. obj' = [obj EXCEPT !.nWaitersToUnblock = obj.nWaitersToUnblock + 1,
                      !.nWaitersBlocked = obj.nWaitersBlocked - 1,
                      !.mtxUnblockLock = Cond!NOBODY]
    BY <1>2, <1>0, <1>v, <2>1 DEF Cond!Unblock, CondValues, CondObject, Cond!Issue,
       Cond!Unblocked
  <2>t. obj.nWaitersBlocked - 1 \in Int /\ obj.nWaitersToUnblock + 1 \in Int
    BY <1>v DEF CondValues, CondObject
  <2>2. CondFields(obj.ptr, obj.nWaitersBlocked - 1, obj.nWaitersToUnblock + 1,
                          obj.nWaitersGone, obj.semBlockLock, obj.semBlockQueue, Cond!NOBODY)
    BY <1>v, <2>e, <2>t, CondBlockedToUnblockLockSet DEF CondValues
  <2>3. CondAt(t, "post")
    BY <1>2, <1>v, <2>1 DEF Cond!Unblock, Cond!Goto, Cond!Return, CondValues, CondAt,
       CondLabels, Cond!Issue
  <2>s. obj.nWaitersBlocked \in 1..Cardinality(Waiter)
    BY <1>v, <1>i, <2>1 DEF CondValues, CondObject, Cond!GoneTrue
  <2>q. loc' = [loc EXCEPT ![t].n = 1]
    BY <1>2, <1>0, <1>v, <2>1, <2>e DEF Cond!Unblock, CondValues, CondObject, Cond!Issue
  <2>4. CondCall(t, loc[t].op, 1)
    BY <1>v, <2>s, <2>q, FewWaiters DEF CondValues, CondCall, CondCalls
  <2>5. CondChange(0, 0, 1)
    BY <1>v, <2>1, <2>3, <2>4, CondChanges DEF In, CondValues, CondObject
  <2>c. Cond!WaitersCounted'
    BY <1>v, <2>1, <2>2, <2>5, CondWords DEF CondValues, CondObject, CondChange,
       CondFields, CondSame
  <2>w. Cond!NoLostWakeup'
    BY <1>v, <2>1, <2>2, <2>5, CondWords DEF CondValues, CondObject, CondChange,
       CondFields, CondSame
  <2>g. Cond!GateTrue'
    BY <1>v, <1>i, <2>1, <2>2, <2>3 DEF CondAt, CondCall, CondFields, CondSame,
       CondValues, CondObject, Cond!GateTrue, Cond!HoldsGate
  <2>m. Cond!UnblockLockTrue'
    BY <1>i, <2>1, <2>2, <2>3, ThreadAssumption, WaiterAssumption DEF CondAt, CondCall,
       CondFields, CondSame, Cond!UnblockLockTrue, Cond!NOBODY
  <2>n. Cond!GoneTrue'
    BY <1>v, <1>i, <2>1, <2>2, <2>3 DEF CondAt, CondCall, CondFields, CondSame,
       CondValues, CondObject, Cond!UnblockLockTrue, Cond!GoneTrue, Cond!SomeBlocked,
       Cond!At
  <2>l. Cond!UsedWhileLive'
    BY <1>i, <2>1, <2>2, <2>3, <2>4 DEF CondAt, CondCall, CondFields, CondSame,
       Cond!UsedWhileLive, Cond!Outside
  <2>b. /\ obj' \in CondObject /\ obj'.nWaitersBlocked >= 0 /\ obj'.semBlockQueue >= 0
        /\ obj'.nWaitersToUnblock >= 0 /\ obj'.nWaitersGone \in 0..GoneMax
        /\ obj'.semBlockLock \in {0, 1}
    BY <1>v, <2>1, <2>2 DEF CondValues, CondFields, CondSame, CondObject
  <2>o. Cond!TypeOK'
    BY <1>v, <2>3, <2>4, <2>b, <2>c, <2>n, CondTyped
  <2> QED  BY <2>c, <2>w, <2>g, <2>m, <2>n, <2>l, <2>o DEF Cond!CondInv
<1>3. CASE obj.nWaitersToUnblock = 0 /\ Cond!SomeBlocked
  <2>1. pc[t] = "unblock" /\ obj.nWaitersToUnblock = 0 /\ obj.nWaitersBlocked > obj.nWaitersGone
    BY <1>3, <1>0 DEF Cond!Unblock, Cond!SomeBlocked
  <2>2. CondSame
    BY <1>3, <1>v, <2>1 DEF Cond!Unblock, CondValues, CondFields, CondSame, CondObject
  <2>3. CondAt(t, "shut")
    BY <1>3, <1>v, <2>1 DEF Cond!Unblock, Cond!Goto, Cond!Return, CondValues, CondAt,
       CondLabels, Cond!SomeBlocked
  <2>4. CondCall(t, loc[t].op, loc[t].n)
    BY <1>3, <1>v, <2>1, FewWaiters DEF Cond!Unblock, Cond!Return, Cond!Enter,
       CondValues, CondCall, CondCalls, CondOps, CondResults
  <2>5. CondChange(0, 0, 0)
    BY <1>v, <2>1, <2>3, <2>4, CondChanges DEF In, CondValues
  <2>c. Cond!WaitersCounted'
    BY <1>v, <2>1, <2>2, <2>5, CondWords DEF CondValues, CondObject, CondChange,
       CondFields, CondSame
  <2>w. Cond!NoLostWakeup'
    BY <1>v, <2>1, <2>2, <2>5, CondWords DEF CondValues, CondObject, CondChange,
       CondFields, CondSame
  <2>g. Cond!GateTrue'
    BY <1>v, <1>i, <2>1, <2>2, <2>3 DEF CondAt, CondCall, CondFields, CondSame,
       CondValues, CondObject, Cond!GateTrue, Cond!HoldsGate
  <2>m. Cond!UnblockLockTrue'
    BY <1>i, <2>1, <2>2, <2>3, ThreadAssumption, WaiterAssumption DEF CondAt, CondCall,
       CondFields, CondSame, Cond!UnblockLockTrue, Cond!NOBODY
  <2>n. Cond!GoneTrue'
    BY <1>v, <1>i, <2>1, <2>2, <2>3 DEF CondAt, CondCall, CondFields, CondSame,
       CondValues, CondObject, Cond!UnblockLockTrue, Cond!GoneTrue, Cond!SomeBlocked,
       Cond!At
  <2>l. Cond!UsedWhileLive'
    BY <1>i, <2>1, <2>2, <2>3, <2>4 DEF CondAt, CondCall, CondFields, CondSame,
       Cond!UsedWhileLive, Cond!Outside
  <2>b. /\ obj' \in CondObject /\ obj'.nWaitersBlocked >= 0 /\ obj'.semBlockQueue >= 0
        /\ obj'.nWaitersToUnblock >= 0 /\ obj'.nWaitersGone \in 0..GoneMax
        /\ obj'.semBlockLock \in {0, 1}
    BY <1>v, <2>1, <2>2 DEF CondValues, CondFields, CondSame, CondObject
  <2>o. Cond!TypeOK'
    BY <1>v, <2>3, <2>4, <2>b, <2>c, <2>n, CondTyped
  <2> QED  BY <2>c, <2>w, <2>g, <2>m, <2>n, <2>l, <2>o DEF Cond!CondInv
<1>4. CASE (obj.nWaitersToUnblock # 0 /\ obj.nWaitersBlocked = 0) \/ (obj.nWaitersToUnblock = 0 /\ ~Cond!SomeBlocked)
  <2>1. pc[t] = "unblock"
    BY <1>4, <1>0 DEF Cond!Unblock
  <2>2. CondFields(obj.ptr, obj.nWaitersBlocked, obj.nWaitersToUnblock,
                          obj.nWaitersGone, obj.semBlockLock, obj.semBlockQueue, Cond!NOBODY)
    BY <1>4, <1>v, <2>1 DEF Cond!Unblock, CondValues, CondFields, CondSame, CondObject
  <2>3. CondAt(t, "idle")
    BY <1>4, <1>v, <2>1 DEF Cond!Unblock, Cond!Goto, Cond!Return, CondValues, CondAt,
       CondLabels
  <2>4. CondCall(t, "none", 0)
    BY <1>4, <1>v, <2>1, FewWaiters DEF Cond!Unblock, Cond!Return, Cond!Enter,
       CondValues, CondCall, CondCalls, CondOps, CondResults
  <2>5. CondChange(0, 0, 0)
    BY <1>v, <2>1, <2>3, <2>4, CondChanges DEF In, CondValues
  <2>c. Cond!WaitersCounted'
    BY <1>v, <2>1, <2>2, <2>5, CondWords DEF CondValues, CondObject, CondChange,
       CondFields, CondSame
  <2>w. Cond!NoLostWakeup'
    BY <1>v, <2>1, <2>2, <2>5, CondWords DEF CondValues, CondObject, CondChange,
       CondFields, CondSame
  <2>g. Cond!GateTrue'
    BY <1>v, <1>i, <2>1, <2>2, <2>3 DEF CondAt, CondCall, CondFields, CondSame,
       CondValues, CondObject, Cond!GateTrue, Cond!HoldsGate
  <2>m. Cond!UnblockLockTrue'
    BY <1>i, <2>1, <2>2, <2>3, ThreadAssumption, WaiterAssumption DEF CondAt, CondCall,
       CondFields, CondSame, Cond!UnblockLockTrue, Cond!NOBODY
  <2>n. Cond!GoneTrue'
    BY <1>v, <1>i, <2>1, <2>2, <2>3 DEF CondAt, CondCall, CondFields, CondSame,
       CondValues, CondObject, Cond!UnblockLockTrue, Cond!GoneTrue, Cond!SomeBlocked,
       Cond!At
  <2>l. Cond!UsedWhileLive'
    BY <1>i, <2>1, <2>2, <2>3, <2>4 DEF CondAt, CondCall, CondFields, CondSame,
       Cond!UsedWhileLive, Cond!Outside
  <2>b. /\ obj' \in CondObject /\ obj'.nWaitersBlocked >= 0 /\ obj'.semBlockQueue >= 0
        /\ obj'.nWaitersToUnblock >= 0 /\ obj'.nWaitersGone \in 0..GoneMax
        /\ obj'.semBlockLock \in {0, 1}
    BY <1>v, <2>1, <2>2 DEF CondValues, CondFields, CondSame, CondObject
  <2>o. Cond!TypeOK'
    BY <1>v, <2>3, <2>4, <2>b, <2>c, <2>n, CondTyped
  <2> QED  BY <2>c, <2>w, <2>g, <2>m, <2>n, <2>l, <2>o DEF Cond!CondInv
<1> QED  BY <1>0, <1>1, <1>2, <1>3, <1>4 DEF Cond!Unblock

(* The gate is shut, and those that have gone are taken off the count.     *)
LEMMA CondShutGate ==
  ASSUME Cond!CondInv, NEW t \in Waiter, Cond!ShutGate(t) PROVE Cond!CondInv'
<1>0. Cond!ShutGate(t)
  OBVIOUS
<1>v. CondValues
  BY CondValuesAre
<1>i. Cond!GateTrue /\ Cond!UnblockLockTrue /\ Cond!GoneTrue /\ Cond!UsedWhileLive
  BY DEF Cond!CondInv
<1>1. CASE loc[t].op = "broadcast"
  <2>1. pc[t] = "shut" /\ obj.semBlockLock > 0 /\ obj.nWaitersToUnblock = 0 /\ obj.nWaitersBlocked > obj.nWaitersGone /\ loc[t].op = "broadcast"
    BY <1>1, <1>0, <1>i DEF Cond!ShutGate, Cond!GoneTrue, Cond!At, Cond!SomeBlocked
  <2>e. obj' = [obj EXCEPT
                   !.nWaitersToUnblock = obj.nWaitersToUnblock + (obj.nWaitersBlocked - obj.nWaitersGone),
                   !.nWaitersBlocked = (obj.nWaitersBlocked - obj.nWaitersGone)
                                        - (obj.nWaitersBlocked - obj.nWaitersGone),
                   !.nWaitersGone = 0,
                   !.semBlockLock = obj.semBlockLock - 1, !.mtxUnblockLock = Cond!NOBODY]
    BY <1>1, <1>0, <1>v, <2>1 DEF Cond!ShutGate, CondValues, CondObject, Cond!Issue,
       Cond!Unblocked, Cond!Settled, Cond!GateShut
  <2>t. (obj.nWaitersBlocked - obj.nWaitersGone) - (obj.nWaitersBlocked - obj.nWaitersGone) \in Int /\ obj.nWaitersToUnblock + (obj.nWaitersBlocked - obj.nWaitersGone) \in Int /\ 0 \in Int /\ obj.semBlockLock - 1 \in Int
    BY <1>v DEF CondValues, CondObject
  <2>2. CondFields(obj.ptr, (obj.nWaitersBlocked - obj.nWaitersGone) - (obj.nWaitersBlocked - obj.nWaitersGone), obj.nWaitersToUnblock + (obj.nWaitersBlocked - obj.nWaitersGone),
                          0, obj.semBlockLock - 1, obj.semBlockQueue, Cond!NOBODY)
    BY <1>v, <2>e, <2>t, CondBlockedToUnblockGoneGateLockSet DEF CondValues
  <2>3. CondAt(t, "post")
    BY <1>1, <1>v, <2>1 DEF Cond!ShutGate, Cond!Goto, Cond!Return, CondValues, CondAt,
       CondLabels, Cond!Issue
  <2>4. CondCall(t, loc[t].op, obj.nWaitersBlocked - obj.nWaitersGone)
    BY <1>1, <1>v, <2>1, FewWaiters DEF Cond!ShutGate, Cond!Return, Cond!Enter,
       CondValues, CondCall, CondCalls, CondOps, CondResults, Cond!Issue, Cond!Unblocked,
       CondObject, Cond!Settled, Cond!GateShut
  <2>5. CondChange(0, 0, obj.nWaitersBlocked - obj.nWaitersGone)
    BY <1>v, <2>1, <2>3, <2>4, CondChanges DEF In, CondValues, CondObject
  <2>c. Cond!WaitersCounted'
    BY <1>v, <2>1, <2>2, <2>5, CondWords DEF CondValues, CondObject, CondChange,
       CondFields, CondSame
  <2>w. Cond!NoLostWakeup'
    BY <1>v, <2>1, <2>2, <2>5, CondWords DEF CondValues, CondObject, CondChange,
       CondFields, CondSame
  <2>g. Cond!GateTrue'
    BY <1>v, <1>i, <2>1, <2>2, <2>3 DEF CondAt, CondCall, CondFields, CondSame,
       CondValues, CondObject, Cond!GateTrue, Cond!HoldsGate
  <2>m. Cond!UnblockLockTrue'
    BY <1>i, <2>1, <2>2, <2>3, ThreadAssumption, WaiterAssumption DEF CondAt, CondCall,
       CondFields, CondSame, Cond!UnblockLockTrue, Cond!NOBODY
  <2>n. Cond!GoneTrue'
    BY <1>v, <1>i, <2>1, <2>2, <2>3 DEF CondAt, CondCall, CondFields, CondSame,
       CondValues, CondObject, Cond!UnblockLockTrue, Cond!GoneTrue, Cond!SomeBlocked,
       Cond!At
  <2>l. Cond!UsedWhileLive'
    BY <1>i, <2>1, <2>2, <2>3, <2>4 DEF CondAt, CondCall, CondFields, CondSame,
       Cond!UsedWhileLive, Cond!Outside
  <2>b. /\ obj' \in CondObject /\ obj'.nWaitersBlocked >= 0 /\ obj'.semBlockQueue >= 0
        /\ obj'.nWaitersToUnblock >= 0 /\ obj'.nWaitersGone \in 0..GoneMax
        /\ obj'.semBlockLock \in {0, 1}
    BY <1>v, <2>1, <2>2 DEF CondValues, CondFields, CondSame, CondObject
  <2>o. Cond!TypeOK'
    BY <1>v, <2>3, <2>4, <2>b, <2>c, <2>n, CondTyped
  <2> QED  BY <2>c, <2>w, <2>g, <2>m, <2>n, <2>l, <2>o DEF Cond!CondInv
<1>2. CASE loc[t].op # "broadcast"
  <2>1. pc[t] = "shut" /\ obj.semBlockLock > 0 /\ obj.nWaitersToUnblock = 0 /\ obj.nWaitersBlocked > obj.nWaitersGone /\ loc[t].op # "broadcast"
    BY <1>2, <1>0, <1>i DEF Cond!ShutGate, Cond!GoneTrue, Cond!At, Cond!SomeBlocked
  <2>e. obj' = [obj EXCEPT
                   !.nWaitersToUnblock = obj.nWaitersToUnblock + 1,
                   !.nWaitersBlocked = (obj.nWaitersBlocked - obj.nWaitersGone) - 1, !.nWaitersGone = 0,
                   !.semBlockLock = obj.semBlockLock - 1, !.mtxUnblockLock = Cond!NOBODY]
    BY <1>2, <1>0, <1>v, <2>1 DEF Cond!ShutGate, CondValues, CondObject, Cond!Issue,
       Cond!Unblocked, Cond!Settled, Cond!GateShut
  <2>t. (obj.nWaitersBlocked - obj.nWaitersGone) - 1 \in Int /\ obj.nWaitersToUnblock + 1 \in Int /\ 0 \in Int /\ obj.semBlockLock - 1 \in Int
    BY <1>v DEF CondValues, CondObject
  <2>2. CondFields(obj.ptr, (obj.nWaitersBlocked - obj.nWaitersGone) - 1, obj.nWaitersToUnblock + 1,
                          0, obj.semBlockLock - 1, obj.semBlockQueue, Cond!NOBODY)
    BY <1>v, <2>e, <2>t, CondBlockedToUnblockGoneGateLockSet DEF CondValues
  <2>3. CondAt(t, "post")
    BY <1>2, <1>v, <2>1 DEF Cond!ShutGate, Cond!Goto, Cond!Return, CondValues, CondAt,
       CondLabels, Cond!Issue
  <2>4. CondCall(t, loc[t].op, 1)
    BY <1>2, <1>v, <2>1, FewWaiters DEF Cond!ShutGate, Cond!Return, Cond!Enter,
       CondValues, CondCall, CondCalls, CondOps, CondResults, Cond!Issue, Cond!Unblocked,
       CondObject, Cond!Settled, Cond!GateShut
  <2>5. CondChange(0, 0, 1)
    BY <1>v, <2>1, <2>3, <2>4, CondChanges DEF In, CondValues, CondObject
  <2>c. Cond!WaitersCounted'
    BY <1>v, <2>1, <2>2, <2>5, CondWords DEF CondValues, CondObject, CondChange,
       CondFields, CondSame
  <2>w. Cond!NoLostWakeup'
    BY <1>v, <2>1, <2>2, <2>5, CondWords DEF CondValues, CondObject, CondChange,
       CondFields, CondSame
  <2>g. Cond!GateTrue'
    BY <1>v, <1>i, <2>1, <2>2, <2>3 DEF CondAt, CondCall, CondFields, CondSame,
       CondValues, CondObject, Cond!GateTrue, Cond!HoldsGate
  <2>m. Cond!UnblockLockTrue'
    BY <1>i, <2>1, <2>2, <2>3, ThreadAssumption, WaiterAssumption DEF CondAt, CondCall,
       CondFields, CondSame, Cond!UnblockLockTrue, Cond!NOBODY
  <2>n. Cond!GoneTrue'
    BY <1>v, <1>i, <2>1, <2>2, <2>3 DEF CondAt, CondCall, CondFields, CondSame,
       CondValues, CondObject, Cond!UnblockLockTrue, Cond!GoneTrue, Cond!SomeBlocked,
       Cond!At
  <2>l. Cond!UsedWhileLive'
    BY <1>i, <2>1, <2>2, <2>3, <2>4 DEF CondAt, CondCall, CondFields, CondSame,
       Cond!UsedWhileLive, Cond!Outside
  <2>b. /\ obj' \in CondObject /\ obj'.nWaitersBlocked >= 0 /\ obj'.semBlockQueue >= 0
        /\ obj'.nWaitersToUnblock >= 0 /\ obj'.nWaitersGone \in 0..GoneMax
        /\ obj'.semBlockLock \in {0, 1}
    BY <1>v, <2>1, <2>2 DEF CondValues, CondFields, CondSame, CondObject
  <2>o. Cond!TypeOK'
    BY <1>v, <2>3, <2>4, <2>b, <2>c, <2>n, CondTyped
  <2> QED  BY <2>c, <2>w, <2>g, <2>m, <2>n, <2>l, <2>o DEF Cond!CondInv
<1> QED  BY <1>0, <1>1, <1>2

(* The units are posted.                                                   *)
LEMMA CondPostQueue ==
  ASSUME Cond!CondInv, NEW t \in Waiter, Cond!PostQueue(t) PROVE Cond!CondInv'
<1>0. Cond!PostQueue(t)
  OBVIOUS
<1>v. CondValues
  BY CondValuesAre
<1>i. Cond!GateTrue /\ Cond!UnblockLockTrue /\ Cond!GoneTrue /\ Cond!UsedWhileLive
  BY DEF Cond!CondInv
<1>1. pc[t] = "post"
  BY <1>0 DEF Cond!PostQueue
<1>2. CondFields(obj.ptr, obj.nWaitersBlocked, obj.nWaitersToUnblock,
                      obj.nWaitersGone, obj.semBlockLock, obj.semBlockQueue + loc[t].n, obj.mtxUnblockLock)
  BY <1>v, <1>1 DEF Cond!PostQueue, CondValues, CondFields, CondSame, CondObject,
     Cond!Issued
<1>3. CondAt(t, "idle")
  BY <1>v, <1>1 DEF Cond!PostQueue, Cond!Goto, Cond!Return, CondValues, CondAt,
     CondLabels
<1>4. CondCall(t, "none", 0)
  BY <1>v, <1>1, FewWaiters DEF Cond!PostQueue, Cond!Return, Cond!Enter, CondValues,
     CondCall, CondCalls, CondOps, CondResults
<1>5. CondChange(0, 0, -loc[t].n)
  BY <1>v, <1>1, <1>3, <1>4, CondChanges DEF In, CondValues
<1>c. Cond!WaitersCounted'
  BY <1>v, <1>1, <1>2, <1>5, CondWords DEF CondValues, CondObject, CondChange,
     CondFields, CondSame
<1>w. Cond!NoLostWakeup'
  BY <1>v, <1>1, <1>2, <1>5, CondWords DEF CondValues, CondObject, CondChange,
     CondFields, CondSame
<1>g. Cond!GateTrue'
  BY <1>v, <1>i, <1>1, <1>2, <1>3 DEF CondAt, CondCall, CondFields, CondSame,
     CondValues, CondObject, Cond!GateTrue, Cond!HoldsGate
<1>m. Cond!UnblockLockTrue'
  BY <1>i, <1>1, <1>2, <1>3, ThreadAssumption, WaiterAssumption DEF CondAt, CondCall,
     CondFields, CondSame, Cond!UnblockLockTrue, Cond!NOBODY
<1>n. Cond!GoneTrue'
  BY <1>v, <1>i, <1>1, <1>2, <1>3 DEF CondAt, CondCall, CondFields, CondSame,
     CondValues, CondObject, Cond!UnblockLockTrue, Cond!GoneTrue, Cond!SomeBlocked, Cond!At
<1>l. Cond!UsedWhileLive'
  BY <1>i, <1>1, <1>2, <1>3, <1>4 DEF CondAt, CondCall, CondFields, CondSame,
     Cond!UsedWhileLive, Cond!Outside
<1>b. /\ obj' \in CondObject /\ obj'.nWaitersBlocked >= 0 /\ obj'.semBlockQueue >= 0
      /\ obj'.nWaitersToUnblock >= 0 /\ obj'.nWaitersGone \in 0..GoneMax
      /\ obj'.semBlockLock \in {0, 1}
  BY <1>v, <1>1, <1>2 DEF CondValues, CondFields, CondSame, CondObject
<1>o. Cond!TypeOK'
  BY <1>v, <1>3, <1>4, <1>b, <1>c, <1>n, CondTyped
<1> QED  BY <1>c, <1>w, <1>g, <1>m, <1>n, <1>l, <1>o DEF Cond!CondInv

(* The variable is to be destroyed, while nobody is about to wait or       *)
(* signals.                                                                *)
LEMMA CondDestroy ==
  ASSUME Cond!CondInv, NEW t \in Waiter, Cond!Destroy(t) PROVE Cond!CondInv'
<1>0. Cond!Destroy(t)
  OBVIOUS
<1>v. CondValues
  BY CondValuesAre
<1>i. Cond!GateTrue /\ Cond!UnblockLockTrue /\ Cond!GoneTrue /\ Cond!UsedWhileLive
  BY DEF Cond!CondInv
<1>1. /\ pc[t] = "idle" /\ obj.ptr = "live" /\ ~Cond!Destroying
      /\ \A u \in Waiter : u = t \/ pc[u] \in Cond!Outside
  BY <1>0 DEF Cond!Destroy, Cond!Outside
<1>2. CondSame
  BY <1>v, <1>1 DEF Cond!Destroy, CondValues, CondFields, CondSame, CondObject
<1>3. CondAt(t, "list")
  BY <1>v, <1>1 DEF Cond!Destroy, Cond!Goto, Cond!Return, CondValues, CondAt,
     CondLabels, Cond!Outside
<1>4. CondCall(t, "destroy", 0)
  BY <1>v, <1>1, FewWaiters DEF Cond!Destroy, Cond!Return, Cond!Enter, CondValues,
     CondCall, CondCalls, CondOps, CondResults
<1>5. CondChange(0, 0, 0)
  BY <1>v, <1>1, <1>3, <1>4, CondChanges DEF In, CondValues
<1>c. Cond!WaitersCounted'
  BY <1>v, <1>1, <1>2, <1>5, CondWords DEF CondValues, CondObject, CondChange,
     CondFields, CondSame
<1>w. Cond!NoLostWakeup'
  BY <1>v, <1>1, <1>2, <1>5, CondWords DEF CondValues, CondObject, CondChange,
     CondFields, CondSame
<1>g. Cond!GateTrue'
  BY <1>v, <1>i, <1>1, <1>2, <1>3 DEF CondAt, CondCall, CondFields, CondSame,
     CondValues, CondObject, Cond!GateTrue, Cond!HoldsGate
<1>m. Cond!UnblockLockTrue'
  BY <1>i, <1>1, <1>2, <1>3, ThreadAssumption, WaiterAssumption DEF CondAt, CondCall,
     CondFields, CondSame, Cond!UnblockLockTrue, Cond!NOBODY
<1>n. Cond!GoneTrue'
  BY <1>v, <1>i, <1>1, <1>2, <1>3 DEF CondAt, CondCall, CondFields, CondSame,
     CondValues, CondObject, Cond!UnblockLockTrue, Cond!GoneTrue, Cond!SomeBlocked, Cond!At
<1>l. Cond!UsedWhileLive'
  BY <1>i, <1>1, <1>2, <1>3, <1>4 DEF CondAt, CondCall, CondFields, CondSame,
     Cond!UsedWhileLive, Cond!Outside, Cond!Destroying
<1>b. /\ obj' \in CondObject /\ obj'.nWaitersBlocked >= 0 /\ obj'.semBlockQueue >= 0
      /\ obj'.nWaitersToUnblock >= 0 /\ obj'.nWaitersGone \in 0..GoneMax
      /\ obj'.semBlockLock \in {0, 1}
  BY <1>v, <1>1, <1>2 DEF CondValues, CondFields, CondSame, CondObject
<1>o. Cond!TypeOK'
  BY <1>v, <1>3, <1>4, <1>b, <1>c, <1>n, CondTyped
<1> QED  BY <1>c, <1>w, <1>g, <1>m, <1>n, <1>l, <1>o DEF Cond!CondInv

(* A static variable is given up.                                          *)
LEMMA CondDestroyStatic ==
  ASSUME Cond!CondInv, NEW t \in Waiter, Cond!DestroyStatic(t) PROVE Cond!CondInv'
<1>0. Cond!DestroyStatic(t)
  OBVIOUS
<1>v. CondValues
  BY CondValuesAre
<1>i. Cond!GateTrue /\ Cond!UnblockLockTrue /\ Cond!GoneTrue /\ Cond!UsedWhileLive
  BY DEF Cond!CondInv
<1>1. pc[t] = "idle" /\ obj.ptr = "static"
  BY <1>0 DEF Cond!DestroyStatic
<1>2. CondFields("null", obj.nWaitersBlocked, obj.nWaitersToUnblock,
                      obj.nWaitersGone, obj.semBlockLock, obj.semBlockQueue, obj.mtxUnblockLock)
  BY <1>v, <1>1 DEF Cond!DestroyStatic, CondValues, CondFields, CondSame, CondObject
<1>3. CondAt(t, "idle")
  BY <1>v, <1>1 DEF Cond!DestroyStatic, Cond!Goto, Cond!Return, CondValues, CondAt,
     CondLabels
<1>4. CondCall(t, loc[t].op, loc[t].n)
  BY <1>v, <1>1, FewWaiters DEF Cond!DestroyStatic, Cond!Return, Cond!Enter, CondValues,
     CondCall, CondCalls, CondOps, CondResults
<1>5. CondChange(0, 0, 0)
  BY <1>v, <1>1, <1>3, <1>4, CondChanges DEF In, CondValues
<1>c. Cond!WaitersCounted'
  BY <1>v, <1>1, <1>2, <1>5, CondWords DEF CondValues, CondObject, CondChange,
     CondFields, CondSame
<1>w. Cond!NoLostWakeup'
  BY <1>v, <1>1, <1>2, <1>5, CondWords DEF CondValues, CondObject, CondChange,
     CondFields, CondSame
<1>g. Cond!GateTrue'
  BY <1>v, <1>i, <1>1, <1>2, <1>3 DEF CondAt, CondCall, CondFields, CondSame,
     CondValues, CondObject, Cond!GateTrue, Cond!HoldsGate
<1>m. Cond!UnblockLockTrue'
  BY <1>i, <1>1, <1>2, <1>3, ThreadAssumption, WaiterAssumption DEF CondAt, CondCall,
     CondFields, CondSame, Cond!UnblockLockTrue, Cond!NOBODY
<1>n. Cond!GoneTrue'
  BY <1>v, <1>i, <1>1, <1>2, <1>3 DEF CondAt, CondCall, CondFields, CondSame,
     CondValues, CondObject, Cond!UnblockLockTrue, Cond!GoneTrue, Cond!SomeBlocked, Cond!At
<1>l. Cond!UsedWhileLive'
  BY <1>i, <1>1, <1>2, <1>3, <1>4 DEF CondAt, CondCall, CondFields, CondSame,
     Cond!UsedWhileLive, Cond!Outside
<1>b. /\ obj' \in CondObject /\ obj'.nWaitersBlocked >= 0 /\ obj'.semBlockQueue >= 0
      /\ obj'.nWaitersToUnblock >= 0 /\ obj'.nWaitersGone \in 0..GoneMax
      /\ obj'.semBlockLock \in {0, 1}
  BY <1>v, <1>1, <1>2 DEF CondValues, CondFields, CondSame, CondObject
<1>o. Cond!TypeOK'
  BY <1>v, <1>3, <1>4, <1>b, <1>c, <1>n, CondTyped
<1> QED  BY <1>c, <1>w, <1>g, <1>m, <1>n, <1>l, <1>o DEF Cond!CondInv

(* The list of variables is locked.                                        *)
LEMMA CondLockList ==
  ASSUME Cond!CondInv, NEW t \in Waiter, Cond!LockList(t) PROVE Cond!CondInv'
<1>0. Cond!LockList(t)
  OBVIOUS
<1>v. CondValues
  BY CondValuesAre
<1>i. Cond!GateTrue /\ Cond!UnblockLockTrue /\ Cond!GoneTrue /\ Cond!UsedWhileLive
  BY DEF Cond!CondInv
<1>1. pc[t] = "list"
  BY <1>0 DEF Cond!LockList
<1>2. CondSame
  BY <1>v, <1>1 DEF Cond!LockList, CondValues, CondFields, CondSame, CondObject
<1>3. CondAt(t, "close")
  BY <1>v, <1>1 DEF Cond!LockList, Cond!Goto, Cond!Return, CondValues, CondAt,
     CondLabels
<1>4. CondCall(t, loc[t].op, loc[t].n)
  BY <1>v, <1>1, FewWaiters DEF Cond!LockList, Cond!Return, Cond!Enter, CondValues,
     CondCall, CondCalls, CondOps, CondResults
<1>5. CondChange(0, 0, 0)
  BY <1>v, <1>1, <1>3, <1>4, CondChanges DEF In, CondValues
<1>c. Cond!WaitersCounted'
  BY <1>v, <1>1, <1>2, <1>5, CondWords DEF CondValues, CondObject, CondChange,
     CondFields, CondSame
<1>w. Cond!NoLostWakeup'
  BY <1>v, <1>1, <1>2, <1>5, CondWords DEF CondValues, CondObject, CondChange,
     CondFields, CondSame
<1>g. Cond!GateTrue'
  BY <1>v, <1>i, <1>1, <1>2, <1>3 DEF CondAt, CondCall, CondFields, CondSame,
     CondValues, CondObject, Cond!GateTrue, Cond!HoldsGate
<1>m. Cond!UnblockLockTrue'
  BY <1>i, <1>1, <1>2, <1>3, ThreadAssumption, WaiterAssumption DEF CondAt, CondCall,
     CondFields, CondSame, Cond!UnblockLockTrue, Cond!NOBODY
<1>n. Cond!GoneTrue'
  BY <1>v, <1>i, <1>1, <1>2, <1>3 DEF CondAt, CondCall, CondFields, CondSame,
     CondValues, CondObject, Cond!UnblockLockTrue, Cond!GoneTrue, Cond!SomeBlocked, Cond!At
<1>l. Cond!UsedWhileLive'
  BY <1>i, <1>1, <1>2, <1>3, <1>4 DEF CondAt, CondCall, CondFields, CondSame,
     Cond!UsedWhileLive, Cond!Outside
<1>b. /\ obj' \in CondObject /\ obj'.nWaitersBlocked >= 0 /\ obj'.semBlockQueue >= 0
      /\ obj'.nWaitersToUnblock >= 0 /\ obj'.nWaitersGone \in 0..GoneMax
      /\ obj'.semBlockLock \in {0, 1}
  BY <1>v, <1>1, <1>2 DEF CondValues, CondFields, CondSame, CondObject
<1>o. Cond!TypeOK'
  BY <1>v, <1>3, <1>4, <1>b, <1>c, <1>n, CondTyped
<1> QED  BY <1>c, <1>w, <1>g, <1>m, <1>n, <1>l, <1>o DEF Cond!CondInv

(* The gate is shut for the last time.                                     *)
LEMMA CondCloseGate ==
  ASSUME Cond!CondInv, NEW t \in Waiter, Cond!CloseGate(t) PROVE Cond!CondInv'
<1>0. Cond!CloseGate(t)
  OBVIOUS
<1>v. CondValues
  BY CondValuesAre
<1>i. Cond!GateTrue /\ Cond!UnblockLockTrue /\ Cond!GoneTrue /\ Cond!UsedWhileLive
  BY DEF Cond!CondInv
<1>1. pc[t] = "close" /\ obj.semBlockLock > 0
  BY <1>0 DEF Cond!CloseGate
<1>2. CondFields(obj.ptr, obj.nWaitersBlocked, obj.nWaitersToUnblock,
                      obj.nWaitersGone, obj.semBlockLock - 1, obj.semBlockQueue, obj.mtxUnblockLock)
  BY <1>v, <1>1 DEF Cond!CloseGate, CondValues, CondFields, CondSame, CondObject
<1>3. CondAt(t, "try")
  BY <1>v, <1>1 DEF Cond!CloseGate, Cond!Goto, Cond!Return, CondValues, CondAt,
     CondLabels
<1>4. CondCall(t, loc[t].op, loc[t].n)
  BY <1>v, <1>1, FewWaiters DEF Cond!CloseGate, Cond!Return, Cond!Enter, CondValues,
     CondCall, CondCalls, CondOps, CondResults
<1>5. CondChange(0, 0, 0)
  BY <1>v, <1>1, <1>3, <1>4, CondChanges DEF In, CondValues
<1>c. Cond!WaitersCounted'
  BY <1>v, <1>1, <1>2, <1>5, CondWords DEF CondValues, CondObject, CondChange,
     CondFields, CondSame
<1>w. Cond!NoLostWakeup'
  BY <1>v, <1>1, <1>2, <1>5, CondWords DEF CondValues, CondObject, CondChange,
     CondFields, CondSame
<1>g. Cond!GateTrue'
  BY <1>v, <1>i, <1>1, <1>2, <1>3 DEF CondAt, CondCall, CondFields, CondSame,
     CondValues, CondObject, Cond!GateTrue, Cond!HoldsGate
<1>m. Cond!UnblockLockTrue'
  BY <1>i, <1>1, <1>2, <1>3, ThreadAssumption, WaiterAssumption DEF CondAt, CondCall,
     CondFields, CondSame, Cond!UnblockLockTrue, Cond!NOBODY
<1>n. Cond!GoneTrue'
  BY <1>v, <1>i, <1>1, <1>2, <1>3 DEF CondAt, CondCall, CondFields, CondSame,
     CondValues, CondObject, Cond!UnblockLockTrue, Cond!GoneTrue, Cond!SomeBlocked, Cond!At
<1>l. Cond!UsedWhileLive'
  BY <1>i, <1>1, <1>2, <1>3, <1>4 DEF CondAt, CondCall, CondFields, CondSame,
     Cond!UsedWhileLive, Cond!Outside
<1>b. /\ obj' \in CondObject /\ obj'.nWaitersBlocked >= 0 /\ obj'.semBlockQueue >= 0
      /\ obj'.nWaitersToUnblock >= 0 /\ obj'.nWaitersGone \in 0..GoneMax
      /\ obj'.semBlockLock \in {0, 1}
  BY <1>v, <1>1, <1>2 DEF CondValues, CondFields, CondSame, CondObject
<1>o. Cond!TypeOK'
  BY <1>v, <1>3, <1>4, <1>b, <1>c, <1>n, CondTyped
<1> QED  BY <1>c, <1>w, <1>g, <1>m, <1>n, <1>l, <1>o DEF Cond!CondInv

(* The counts are locked by another thread.                                *)
LEMMA CondTryFails ==
  ASSUME Cond!CondInv, NEW t \in Waiter, Cond!TryFails(t) PROVE Cond!CondInv'
<1>0. Cond!TryFails(t)
  OBVIOUS
<1>v. CondValues
  BY CondValuesAre
<1>i. Cond!GateTrue /\ Cond!UnblockLockTrue /\ Cond!GoneTrue /\ Cond!UsedWhileLive
  BY DEF Cond!CondInv
<1>1. pc[t] = "try"
  BY <1>0 DEF Cond!TryFails
<1>2. CondFields(obj.ptr, obj.nWaitersBlocked, obj.nWaitersToUnblock,
                      obj.nWaitersGone, obj.semBlockLock + 1, obj.semBlockQueue, obj.mtxUnblockLock)
  BY <1>v, <1>1 DEF Cond!TryFails, CondValues, CondFields, CondSame, CondObject
<1>3. CondAt(t, "idle")
  BY <1>v, <1>1 DEF Cond!TryFails, Cond!Goto, Cond!Return, CondValues, CondAt,
     CondLabels
<1>4. CondCall(t, "none", 0)
  BY <1>v, <1>1, FewWaiters DEF Cond!TryFails, Cond!Return, Cond!Enter, CondValues,
     CondCall, CondCalls, CondOps, CondResults
<1>5. CondChange(0, 0, 0)
  BY <1>v, <1>1, <1>3, <1>4, CondChanges DEF In, CondValues
<1>c. Cond!WaitersCounted'
  BY <1>v, <1>1, <1>2, <1>5, CondWords DEF CondValues, CondObject, CondChange,
     CondFields, CondSame
<1>w. Cond!NoLostWakeup'
  BY <1>v, <1>1, <1>2, <1>5, CondWords DEF CondValues, CondObject, CondChange,
     CondFields, CondSame
<1>g. Cond!GateTrue'
  BY <1>v, <1>i, <1>1, <1>2, <1>3 DEF CondAt, CondCall, CondFields, CondSame,
     CondValues, CondObject, Cond!GateTrue, Cond!HoldsGate
<1>m. Cond!UnblockLockTrue'
  BY <1>i, <1>1, <1>2, <1>3, ThreadAssumption, WaiterAssumption DEF CondAt, CondCall,
     CondFields, CondSame, Cond!UnblockLockTrue, Cond!NOBODY
<1>n. Cond!GoneTrue'
  BY <1>v, <1>i, <1>1, <1>2, <1>3 DEF CondAt, CondCall, CondFields, CondSame,
     CondValues, CondObject, Cond!UnblockLockTrue, Cond!GoneTrue, Cond!SomeBlocked, Cond!At
<1>l. Cond!UsedWhileLive'
  BY <1>i, <1>1, <1>2, <1>3, <1>4 DEF CondAt, CondCall, CondFields, CondSame,
     Cond!UsedWhileLive, Cond!Outside
<1>b. /\ obj' \in CondObject /\ obj'.nWaitersBlocked >= 0 /\ obj'.semBlockQueue >= 0
      /\ obj'.nWaitersToUnblock >= 0 /\ obj'.nWaitersGone \in 0..GoneMax
      /\ obj'.semBlockLock \in {0, 1}
  BY <1>v, <1>1, <1>2, <1>i DEF CondValues, CondFields, CondSame, CondObject,
     Cond!GateTrue, Cond!HoldsGate, Cond!UnblockLockTrue, Cond!GoneTrue, Cond!At
<1>o. Cond!TypeOK'
  BY <1>v, <1>3, <1>4, <1>b, <1>c, <1>n, CondTyped
<1> QED  BY <1>c, <1>w, <1>g, <1>m, <1>n, <1>l, <1>o DEF Cond!CondInv

(* Some still wait, or the variable is freed.                              *)
LEMMA CondTryLock ==
  ASSUME Cond!CondInv, NEW t \in Waiter, Cond!TryLock(t) PROVE Cond!CondInv'
<1>0. Cond!TryLock(t)
  OBVIOUS
<1>v. CondValues
  BY CondValuesAre
<1>i. Cond!GateTrue /\ Cond!UnblockLockTrue /\ Cond!GoneTrue /\ Cond!UsedWhileLive
  BY DEF Cond!CondInv
<1>1. CASE Cond!InUse
  <2>1. pc[t] = "try"
    BY <1>1, <1>0 DEF Cond!TryLock
  <2>e. obj' = [obj EXCEPT !.semBlockLock = obj.semBlockLock + 1, !.list = Cond!NOBODY]
    BY <1>1, <1>0, <1>v, <2>1 DEF Cond!TryLock, CondValues, CondObject
  <2>t. obj.semBlockLock + 1 \in Int
    BY <1>v DEF CondValues, CondObject
  <2>2. CondFields(obj.ptr, obj.nWaitersBlocked, obj.nWaitersToUnblock,
                          obj.nWaitersGone, obj.semBlockLock + 1, obj.semBlockQueue, obj.mtxUnblockLock)
    BY <1>v, <2>e, <2>t, CondGateListSet DEF CondValues
  <2>3. CondAt(t, "idle")
    BY <1>1, <1>v, <2>1 DEF Cond!TryLock, Cond!Goto, Cond!Return, CondValues, CondAt,
       CondLabels
  <2>4. CondCall(t, "none", 0)
    BY <1>1, <1>v, <2>1, FewWaiters DEF Cond!TryLock, Cond!Return, Cond!Enter,
       CondValues, CondCall, CondCalls, CondOps, CondResults
  <2>5. CondChange(0, 0, 0)
    BY <1>v, <2>1, <2>3, <2>4, CondChanges DEF In, CondValues
  <2>c. Cond!WaitersCounted'
    BY <1>v, <2>1, <2>2, <2>5, CondWords DEF CondValues, CondObject, CondChange,
       CondFields, CondSame
  <2>w. Cond!NoLostWakeup'
    BY <1>v, <2>1, <2>2, <2>5, CondWords DEF CondValues, CondObject, CondChange,
       CondFields, CondSame
  <2>g. Cond!GateTrue'
    BY <1>v, <1>i, <2>1, <2>2, <2>3 DEF CondAt, CondCall, CondFields, CondSame,
       CondValues, CondObject, Cond!GateTrue, Cond!HoldsGate
  <2>m. Cond!UnblockLockTrue'
    BY <1>i, <2>1, <2>2, <2>3, ThreadAssumption, WaiterAssumption DEF CondAt, CondCall,
       CondFields, CondSame, Cond!UnblockLockTrue, Cond!NOBODY
  <2>n. Cond!GoneTrue'
    BY <1>v, <1>i, <2>1, <2>2, <2>3 DEF CondAt, CondCall, CondFields, CondSame,
       CondValues, CondObject, Cond!UnblockLockTrue, Cond!GoneTrue, Cond!SomeBlocked,
       Cond!At
  <2>l. Cond!UsedWhileLive'
    BY <1>i, <2>1, <2>2, <2>3, <2>4 DEF CondAt, CondCall, CondFields, CondSame,
       Cond!UsedWhileLive, Cond!Outside
  <2>b. /\ obj' \in CondObject /\ obj'.nWaitersBlocked >= 0 /\ obj'.semBlockQueue >= 0
        /\ obj'.nWaitersToUnblock >= 0 /\ obj'.nWaitersGone \in 0..GoneMax
        /\ obj'.semBlockLock \in {0, 1}
    BY <1>v, <2>1, <2>2, <1>i DEF CondValues, CondFields, CondSame, CondObject,
       Cond!GateTrue, Cond!HoldsGate, Cond!UnblockLockTrue, Cond!GoneTrue, Cond!At
  <2>o. Cond!TypeOK'
    BY <1>v, <2>3, <2>4, <2>b, <2>c, <2>n, CondTyped
  <2> QED  BY <2>c, <2>w, <2>g, <2>m, <2>n, <2>l, <2>o DEF Cond!CondInv
<1>2. CASE ~Cond!InUse
  <2>1. /\ pc[t] = "try" /\ obj.mtxUnblockLock = Cond!NOBODY
        /\ obj.nWaitersBlocked <= obj.nWaitersGone
    BY <1>2, <1>0, <1>v DEF Cond!TryLock, Cond!InUse, CondValues, CondObject
  <2>2. CondFields("null", obj.nWaitersBlocked, obj.nWaitersToUnblock,
                          obj.nWaitersGone, obj.semBlockLock, obj.semBlockQueue, obj.mtxUnblockLock)
    BY <1>2, <1>v, <2>1 DEF Cond!TryLock, CondValues, CondFields, CondSame, CondObject
  <2>3. CondAt(t, "idle")
    BY <1>2, <1>v, <2>1 DEF Cond!TryLock, Cond!Goto, Cond!Return, CondValues, CondAt,
       CondLabels, Cond!InUse, CondValues, CondObject
  <2>4. CondCall(t, "none", 0)
    BY <1>2, <1>v, <2>1, FewWaiters DEF Cond!TryLock, Cond!Return, Cond!Enter,
       CondValues, CondCall, CondCalls, CondOps, CondResults
  <2>5. CondChange(0, 0, 0)
    BY <1>v, <2>1, <2>3, <2>4, CondChanges DEF In, CondValues
  <2>c. Cond!WaitersCounted'
    BY <1>v, <2>1, <2>2, <2>5, CondWords DEF CondValues, CondObject, CondChange,
       CondFields, CondSame
  <2>w. Cond!NoLostWakeup'
    BY <1>v, <2>1, <2>2, <2>5, CondWords DEF CondValues, CondObject, CondChange,
       CondFields, CondSame
  <2>g. Cond!GateTrue'
    BY <1>v, <1>i, <2>1, <2>2, <2>3 DEF CondAt, CondCall, CondFields, CondSame,
       CondValues, CondObject, Cond!GateTrue, Cond!HoldsGate
  <2>m. Cond!UnblockLockTrue'
    BY <1>i, <2>1, <2>2, <2>3, ThreadAssumption, WaiterAssumption DEF CondAt, CondCall,
       CondFields, CondSame, Cond!UnblockLockTrue, Cond!NOBODY
  <2>n. Cond!GoneTrue'
    BY <1>v, <1>i, <2>1, <2>2, <2>3 DEF CondAt, CondCall, CondFields, CondSame,
       CondValues, CondObject, Cond!UnblockLockTrue, Cond!GoneTrue, Cond!SomeBlocked,
       Cond!At
  <2>x. \A u \in Waiter : u = t \/ pc[u] \in {"idle", "relock", "unlock"}
    <3>1. Cardinality(Cond!Counted) = 0
      <4>1. obj.nWaitersToUnblock = 0
        BY <1>i, <2>1 DEF Cond!GateTrue, Cond!HoldsGate
      <4> QED  BY <1>v, <2>1, <4>1 DEF CondValues, CondObject
    <3>2. Cond!Counted = {}
      <4>1. Cond!Counted \in SUBSET Waiter
        BY DEF Cond!Counted, Cond!At
      <4> QED  BY <3>1, <4>1, FewWaiters, FS_EmptySet
    <3>3. ASSUME NEW u \in Waiter, u # t PROVE pc[u] \in {"idle", "relock", "unlock"}
      <4>1. pc[u] \in Cond!Outside
        BY <1>i, <2>1, <3>3 DEF Cond!UsedWhileLive
      <4>2. pc[u] \notin {"blocking", "queue", "cleanup", "retract"}
        BY <3>2 DEF Cond!Counted, Cond!At
      <4>3. pc[u] # "open"
        BY <1>i, <2>1, <3>3 DEF Cond!GateTrue, Cond!HoldsGate
      <4>4. pc[u] # "forget"
        BY <1>i, <2>1, ThreadAssumption, WaiterAssumption DEF Cond!UnblockLockTrue, Cond!NOBODY
      <4> QED  BY <4>1, <4>2, <4>3, <4>4 DEF Cond!Outside
    <3> QED  BY <3>3
  <2>l. Cond!UsedWhileLive'
    BY <1>i, <2>x, <2>1, <2>2, <2>3, <2>4 DEF CondAt, CondCall, CondFields, CondSame,
       Cond!UsedWhileLive, Cond!Outside
  <2>b. /\ obj' \in CondObject /\ obj'.nWaitersBlocked >= 0 /\ obj'.semBlockQueue >= 0
        /\ obj'.nWaitersToUnblock >= 0 /\ obj'.nWaitersGone \in 0..GoneMax
        /\ obj'.semBlockLock \in {0, 1}
    BY <1>v, <2>1, <2>2 DEF CondValues, CondFields, CondSame, CondObject
  <2>o. Cond!TypeOK'
    BY <1>v, <2>3, <2>4, <2>b, <2>c, <2>n, CondTyped
  <2> QED  BY <2>c, <2>w, <2>g, <2>m, <2>n, <2>l, <2>o DEF Cond!CondInv
<1> QED  BY <1>0, <1>1, <1>2

(* Every step of a thread keeps the invariant.                             *)
LEMMA CondThread ==
  ASSUME Cond!CondInv, NEW t \in Waiter,
         Cond!Step(t) \/ Cond!Wait(t) \/ Cond!NotAwakened(t) \/ Cond!Signal(t)
           \/ Cond!Destroy(t) \/ Cond!DestroyStatic(t)
  PROVE  Cond!CondInv'
<1>1. CASE Cond!Step(t)
  BY <1>1, CondCheckNeedInit, CondGate, CondCountWaiter, CondUnlockMutex, CondAwakened,
     CondCleanupLock, CondRetract, CondForget, CondOpenGate, CondRelock, CondSignalLock,
     CondUnblock, CondShutGate, CondPostQueue, CondLockList, CondCloseGate, CondTryFails,
     CondTryLock
     DEF Cond!Step
<1> QED  BY <1>1, CondWait, CondNotAwakened, CondSignal, CondDestroy, CondDestroyStatic

(* It holds of a variable nobody has used yet.                             *)
LEMMA CondInit == Cond!Init => Cond!CondInv
<1> SUFFICES ASSUME Cond!Init PROVE Cond!CondInv
  OBVIOUS
<1>1. /\ obj.ptr \in {"static", "live"} /\ obj.nWaitersBlocked = 0
      /\ obj.nWaitersToUnblock = 0 /\ obj.nWaitersGone = 0 /\ obj.semBlockLock = 1
      /\ obj.semBlockQueue = 0 /\ obj.mtxUnblockLock = Cond!NOBODY
  BY DEF Cond!Init
<1>2. \A t \in Waiter : pc[t] = "idle" /\ loc[t].op = "none" /\ loc[t].n = 0
  BY DEF Cond!Init
<1>3. Cond!TypeOK
  <2>1. 0 \in 0..Cardinality(Waiter) /\ 0 \in 0..GoneMax
    BY FewWaiters, BoundAssumption
  <2>2. /\ obj \in [ptr: {"static", "live", "null"}, nWaitersBlocked: Nat,
                    nWaitersToUnblock: 0..Cardinality(Waiter), nWaitersGone: 0..GoneMax,
                    semBlockLock: {0, 1}, semBlockQueue: Nat,
                    mtxUnblockLock: Waiter \cup {Cond!NOBODY},
                    mutex: Waiter \cup {Cond!NOBODY}, list: Waiter \cup {Cond!NOBODY}]
    BY <2>1 DEF Cond!Init
  <2>3. pc \in [Waiter -> CondLabels] /\ loc \in [Waiter -> CondCalls]
    BY <2>1 DEF Cond!Init, CondLabels, CondCalls, CondOps, CondResults
  <2> QED  BY <2>2, <2>3, CondOperators
           DEF Cond!TypeOK, CondLabels, CondCalls, CondOps, CondResults
<1>4. Cond!WaitersCounted
  <2>1. Cond!Counted = {}
    BY <1>2 DEF Cond!Counted, Cond!At
  <2> QED  BY <1>1, <2>1, FS_EmptySet, CondWords
<1>5. Cond!NoLostWakeup
  <2>1. CondLeaving = {} /\ CondPosting = {}
    BY <1>2 DEF CondLeaving, CondPosting
  <2>2. CondPosts = 0
    BY <2>1, SumOfNone DEF CondPosts
  <2> QED  BY <1>1, <2>1, <2>2, FS_EmptySet, CondWords
<1>6. Cond!GateTrue /\ Cond!UsedWhileLive
  BY <1>1, <1>2 DEF Cond!GateTrue, Cond!HoldsGate, Cond!UsedWhileLive
<1>7. Cond!UnblockLockTrue
  BY <1>1, <1>2, ThreadAssumption, WaiterAssumption DEF Cond!UnblockLockTrue, Cond!NOBODY
<1>8. Cond!GoneTrue
  BY <1>1, <1>2, SyncAssumption, BoundAssumption DEF Cond!GoneTrue, Cond!At
<1> QED  BY <1>3, <1>4, <1>5, <1>6, <1>7, <1>8 DEF Cond!CondInv

(* So it holds in every state of a condition variable.                     *)
LEMMA CondBehaviour == Spec /\ kind = "cond" => [](kind = "cond" /\ Cond!CondInv)
<1>1. Init /\ kind = "cond" => Cond!CondInv
  BY CondInit DEF Init
<1>2. kind = "cond" /\ Cond!CondInv /\ [Next]_vars => (kind = "cond" /\ Cond!CondInv)'
  <2> SUFFICES ASSUME kind = "cond", Cond!CondInv, [Next]_vars
               PROVE  kind' = "cond" /\ Cond!CondInv'
    OBVIOUS
  <2>1. kind' = kind /\ (Cond!Next \/ UNCHANGED <<obj, pc, loc>>)
    BY DEF Next, vars
  <2>2. CASE Cond!Next
    BY <2>1, <2>2, CondThread DEF Cond!Next
  <2>3. CASE UNCHANGED <<obj, pc, loc>>
    <3>1. /\ Cond!TypeOK' = Cond!TypeOK /\ Cond!GateTrue' = Cond!GateTrue
          /\ Cond!UnblockLockTrue' = Cond!UnblockLockTrue
          /\ Cond!GoneTrue' = Cond!GoneTrue /\ Cond!UsedWhileLive' = Cond!UsedWhileLive
      BY <2>3 DEF Cond!TypeOK, Cond!GateTrue, Cond!HoldsGate, Cond!UnblockLockTrue,
                  Cond!GoneTrue, Cond!SomeBlocked, Cond!At, Cond!UsedWhileLive
    <3>2. /\ Cond!Counted' = Cond!Counted /\ CondLeaving' = CondLeaving
          /\ CondPosts' = CondPosts
      BY <2>3 DEF Cond!Counted, Cond!At, CondLeaving, CondPosts, CondPosting, CondIssues
    <3>3. Cond!WaitersCounted' /\ Cond!NoLostWakeup'
      BY <2>3, <3>2, CondWords DEF Cond!CondInv
    <3> QED  BY <2>1, <3>1, <3>3 DEF Cond!CondInv
  <2> QED  BY <2>1, <2>2, <2>3
<1> QED  BY <1>1, <1>2, PTL DEF Spec

(* The counts, the gate and the lock of a condition variable are true of   *)
(* the threads in its calls, however these time out, are cancelled or give *)
(* it up, for any number of them and any limit on those that have gone.    *)
THEOREM CondRecordsTrue == Spec /\ kind = "cond" => []RecordsTrue
<1>1. kind = "cond" /\ Cond!CondInv => RecordsTrue
  BY DEF RecordsTrue
<1> QED  BY <1>1, CondBehaviour, PTL

(* No wake-up is lost: the three counts are the waiters, and for those     *)
(* that are to be unblocked units are posted, or about to be, or they are  *)
(* on their way out.                                                       *)
THEOREM CondStrandsNobody == Spec /\ kind = "cond" => []NobodyStranded
<1>1. kind = "cond" /\ Cond!CondInv => NobodyStranded
  BY DEF NobodyStranded, Cond!CondInv
<1> QED  BY <1>1, CondBehaviour, PTL

(* The gate is shut while waiters are to be unblocked, and no thread that  *)
(* comes later is between it and the count of the blocked.                 *)
THEOREM CondGateShut == Spec => []GateShutWhileUnblocking
<1>1. kind = "cond" /\ Cond!CondInv => GateShutWhileUnblocking
  <2> SUFFICES ASSUME kind = "cond", Cond!CondInv, obj.nWaitersToUnblock > 0
               PROVE  obj.semBlockLock = 0 /\ Cond!At({"count"}) = {}
    BY DEF GateShutWhileUnblocking, Cond!GateShutWhileUnblocking
  <2>1. obj.semBlockLock \in {0, 1} /\ obj.nWaitersToUnblock # 0
    BY CondValuesAre DEF CondValues, CondObject
  <2>2. obj.semBlockLock = 0
    BY <2>1 DEF Cond!CondInv, Cond!GateTrue
  <2>3. \A t \in Waiter : pc[t] # "count"
    BY <2>1 DEF Cond!CondInv, Cond!GateTrue, Cond!HoldsGate
  <2> QED  BY <2>2, <2>3 DEF Cond!At
<1>2. Spec /\ kind = "cond" => []GateShutWhileUnblocking
  BY <1>1, CondBehaviour, PTL
<1>3. kind # "cond" => GateShutWhileUnblocking
  BY DEF GateShutWhileUnblocking
<1>4. kind # "cond" /\ [Next]_vars => (kind # "cond")'
  BY KindStays
<1>5. Spec /\ kind # "cond" => []GateShutWhileUnblocking
  BY <1>3, <1>4, PTL DEF Spec
<1>6. kind = "cond" \/ kind # "cond"
  OBVIOUS
<1> QED  BY <1>2, <1>5, <1>6, PTL

(* "A condition variable can be destroyed immediately after all the        *)
(* threads that are blocked on it are awakened": it is freed when none of  *)
(* them is to use it any more.                                             *)
THEOREM CondNotUsedAfterFree == Spec /\ kind = "cond" => []NoUseAfterFree
<1>1. kind = "cond" /\ Cond!CondInv => NoUseAfterFree
  BY DEF NoUseAfterFree, Cond!NoUseAfterFree, Cond!CondInv, Cond!UsedWhileLive, Cond!At
<1> QED  BY <1>1, CondBehaviour, PTL

=============================================================================
