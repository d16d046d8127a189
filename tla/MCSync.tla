------------------------------- MODULE MCSync --------------------------------
(***************************************************************************)
(* Instances of the modules of the threads library for TLC.  A behaviour   *)
(* is one of one of them: kind says which, and does not change.  What      *)
(* several promise, to be an Exclusion say, is one property here.          *)
(***************************************************************************)
EXTENDS Integers, FiniteSets, TLC

CONSTANTS
  Kind,           (* the modules to check                                   *)
  Thread,
  Waiter,         (* threads that use the queue lock, the read-write lock   *)
                  (* and the condition variable: no more than Thread        *)
  User,           (* threads that set keys                                  *)
  Struct, Caller, MaxReuse, Key, PTHREAD_DESTRUCTOR_ITERATIONS,
  SEM_VALUE_MAX, MaxDepth, Height, INT_MAX, GoneMax

(* What pthread_barrier_init, sem_init and the library's limits ensure.    *)
ASSUME SyncAssumption ==
  /\ SEM_VALUE_MAX > 1 /\ Height > 0 /\ GoneMax > 0
  /\ INT_MAX > Cardinality(Waiter)

(* Finitely many threads, none of which is the handle of none.             *)
ASSUME ThreadAssumption == IsFiniteSet(Thread) /\ "nobody" \notin Thread

ASSUME WaiterAssumption == Waiter \subseteq Thread /\ "none" \notin Waiter

ASSUME BoundAssumption ==
  /\ SEM_VALUE_MAX \in Nat /\ MaxDepth \in Nat /\ Height \in Nat
  /\ INT_MAX \in Nat /\ GoneMax \in Nat

VARIABLES kind, obj, pc, loc

vars == <<kind, obj, pc, loc>>

Sem     == INSTANCE Semaphore
Mutex   == INSTANCE MutexLock
Queue   == INSTANCE MCSLock WITH Thread <- Waiter
Meet    == INSTANCE Barrier
First   == INSTANCE Once
Spin    == INSTANCE SpinLock
RWLock  == INSTANCE ReadWriteLock WITH Thread <- Waiter
Cond    == INSTANCE ConditionVariable WITH Thread <- Waiter
Life    == INSTANCE ThreadLife
Keys    == INSTANCE ThreadKeys WITH Thread <- User

Init ==
  /\ kind \in Kind
  /\ \/ kind = "semaphore" /\ Sem!Init
     \/ kind = "mutex"     /\ Mutex!Init
     \/ kind = "mcs"       /\ Queue!Init
     \/ kind = "barrier"   /\ Meet!Init
     \/ kind = "once"      /\ First!Init
     \/ kind = "spin"      /\ Spin!Init
     \/ kind = "rwlock"    /\ RWLock!Init
     \/ kind = "cond"      /\ Cond!Init
     \/ kind = "thread"    /\ Life!Init
     \/ kind = "keys"      /\ Keys!Init

Next ==
  /\ UNCHANGED kind
  /\ \/ kind = "semaphore" /\ Sem!Next
     \/ kind = "mutex"     /\ Mutex!Next
     \/ kind = "mcs"       /\ Queue!Next
     \/ kind = "barrier"   /\ Meet!Next
     \/ kind = "once"      /\ First!Next
     \/ kind = "spin"      /\ Spin!Next
     \/ kind = "rwlock"    /\ RWLock!Next
     \/ kind = "cond"      /\ Cond!Next
     \/ kind = "thread"    /\ Life!Next
     \/ kind = "keys"      /\ Keys!Next

Spec == Init /\ [][Next]_vars

(* Threads, structs, callers, keys are alike.                              *)
Perms == Permutations(Thread) \cup Permutations(User) \cup Permutations(Struct)
           \cup Permutations(Caller) \cup Permutations(Key)

-----------------------------------------------------------------------------
(* Invariants: what the modules promise of the same kind is one property.  *)

(* What an object records of those that use it is true: the owner of a     *)
(* mutex, the readers and writers that came and went, each field in its    *)
(* range however often calls time out, are cancelled or wrap the counts.   *)
RecordsTrue ==
  CASE kind = "semaphore" -> Sem!SemInv
    [] kind = "mutex"     -> Mutex!MutexInv
    [] kind = "mcs"       -> Queue!FirstComeFirstServed
    [] kind = "barrier"   -> Meet!TypeOK
    [] kind = "once"      -> First!OnceInv
    [] kind = "spin"      -> Spin!SpinInv
    [] kind = "rwlock"    -> RWLock!TypeOK /\ RWLock!ReadersCounted
    [] kind = "cond"      -> Cond!CondInv
    [] kind = "thread"    -> Life!TypeOK
    [] kind = "keys"      -> Keys!TypeOK

(* No call that is in progress works on an object that was freed, a        *)
(* thread's struct is freed for reuse once, and no chain leads to a key    *)
(* that was deleted.                                                       *)
NoUseAfterFree ==
  CASE kind = "semaphore" -> Sem!NoUseAfterFree
    [] kind = "mutex"     -> Mutex!NoUseAfterFree
    [] kind = "rwlock"    -> RWLock!NoUseAfterFree
    [] kind = "cond"      -> Cond!NoUseAfterFree
    [] kind = "thread"    -> Life!DestroyedOnce
    [] kind = "keys"      -> Keys!NothingDangles
    [] OTHER              -> TRUE

(* Nobody is left asleep: for whoever waits the object still owes a        *)
(* wake-up, has posted one, or somebody awake is on the way to it.         *)
NobodyStranded ==
  CASE kind = "semaphore" -> Sem!WaitersCounted
    [] kind = "mutex"     -> Mutex!NoStrandedWaiter
    [] kind = "barrier"   -> Meet!NotStranded
    [] kind = "rwlock"    -> RWLock!WriterNotForgotten
    [] kind = "cond"      -> Cond!WaitersCounted /\ Cond!NoLostWakeup
    [] OTHER              -> TRUE

(* No waiter gets in between a signal and those it is for, whoever comes   *)
(* or gives up meanwhile.                                                  *)
GateShutWhileUnblocking == kind = "cond" => Cond!GateShutWhileUnblocking

(* What has to be done once is done, and once: a routine of pthread_once   *)
(* and the making of a static lock, before any call returns; the freeing   *)
(* of threads that ended; the destructors of values; a cancellation only   *)
(* of the thread it was asked of.                                          *)
DoneOnce ==
  CASE kind = "once"   -> First!InitialisedOnce
    [] kind = "spin"   -> Spin!MadeOnce
    [] kind = "thread" -> Life!ThreadsScavenged /\ Life!CancelledIfAsked
    [] kind = "keys"   -> Keys!ValuesDestroyed
    [] OTHER           -> TRUE

-----------------------------------------------------------------------------
(* Refinements.                                                            *)

Writers == CASE kind = "mutex"  -> Mutex!Inside
             [] kind = "mcs"    -> Queue!Inside
             [] kind = "spin"   -> Spin!Inside
             [] kind = "rwlock" -> RWLock!Writers
             [] OTHER           -> {}
Readers == IF kind = "rwlock" THEN RWLock!Readers ELSE {}

Excl == INSTANCE Exclusion WITH writers <- Writers, readers <- Readers

(* Mutex, queue lock, spin lock and read-write lock implement exclusion.   *)
ImplementsExclusion == Excl!Spec

Units == INSTANCE CountingSemaphore
  WITH MaxUnits <- SEM_VALUE_MAX,
       count    <- IF kind = "semaphore" THEN Sem!Count ELSE 0,
       granted  <- IF kind = "semaphore" THEN Sem!Granted ELSE {}

(* The semaphore, of a value and an event, implements a counting one.      *)
ImplementsCounting == Units!Spec

Rounds == INSTANCE AbstractBarrier
  WITH arrived <- IF kind = "barrier" THEN Meet!Arrived ELSE {},
       leaving <- IF kind = "barrier" THEN Meet!Leaving ELSE {},
       told    <- IF kind = "barrier" THEN Meet!Told ELSE [t \in Thread |-> "none"]

(* The barrier, of two semaphores and a step, implements rounds.           *)
ImplementsRounds == Rounds!Spec

(* Whatever the object, it keeps what its users were promised.             *)
KeepsPromise == ImplementsExclusion /\ ImplementsCounting /\ ImplementsRounds

-----------------------------------------------------------------------------
(* Progress.  A behaviour has one kind, so that one fairness condition     *)
(* stands for that of every module.                                        *)

(* What a thread goes on to do, unless it waits; a routine of pthread_once *)
(* returns, and the holder of a read-write lock gives it up.               *)
Runs(t) ==
  \/ kind = "mcs"     /\ t \in Waiter /\ ~Queue!Crashed /\ Queue!Step(t)
  \/ kind = "barrier" /\ t \in Thread /\ Meet!Step(t)
  \/ kind = "once"    /\ t \in Thread /\ First!Step(t)
  \/ kind = "rwlock"  /\ t \in Waiter /\ ~RWLock!Lost /\ RWLock!Step(t)
  \/ kind = "cond"    /\ t \in Waiter /\ Cond!Step(t)
  \/ kind = "thread"  /\ t \in Struct /\ Life!ThreadStep(t)
  \/ kind = "thread"  /\ t \in Caller /\ Life!CallerStep(t)
  \/ kind = "keys"    /\ t \in User   /\ Keys!Step(t)

LetsGo(t) ==
  \/ kind = "once"    /\ t \in Thread /\ First!RoutineReturns(t)
  \/ kind = "rwlock"  /\ t \in Waiter /\ ~RWLock!Lost /\ RWLock!GiveUp(t)

(* Locks others take again and again, which a thread gets some time.       *)
GetsLock(t) ==
  \/ kind = "cond"    /\ t \in Waiter /\ Cond!CleanupLock(t)
  \/ kind = "thread"  /\ t \in Struct /\ Life!EndLock(t)
  \/ kind = "thread"  /\ t \in Caller /\ (Life!DetachEnter(t) \/ Life!DetachLock(t))
  \/ kind = "keys"    /\ t \in User   /\ Keys!DeleteUnlink(t)

GetsOther(t) ==
  \/ kind = "cond"    /\ t \in Waiter /\ Cond!Awakened(t)
  \/ kind = "keys"    /\ t \in User   /\ Keys!TryKeyLock(t) /\ pc'[t] = "both"

Fairness ==
  /\ \A t \in Thread : /\ WF_vars(UNCHANGED kind /\ Runs(t))
                       /\ WF_vars(UNCHANGED kind /\ LetsGo(t))
  /\ \A t \in Waiter \cup User : /\ SF_vars(UNCHANGED kind /\ GetsLock(t))
                                 /\ SF_vars(UNCHANGED kind /\ GetsOther(t))

FairSpec == Spec /\ Fairness

(* A thread in the queue of an MCS lock gets its turn, unless the process  *)
(* ends because a successor was not known (ptw32_MCS_lock.c).              *)
TurnComes ==
  \A t \in Waiter : kind = "mcs" /\ pc[t] = "ready"
                      ~> (kind = "mcs" => t \in Queue!Inside \/ Queue!Crashed)

(* A complete round of a barrier is left by all its threads.               *)
RoundEnds ==
  \A t \in Thread : kind = "barrier" /\ t \in Meet!Leaving
                      ~> (kind = "barrier" => pc[t] = "returned")

(* A caller of pthread_once gets as far as the routine or an initialised   *)
(* object, although initialisers are cancelled.                            *)
CallerProceeds ==
  \A t \in Thread : kind = "once" /\ pc[t] = "acquire"
                      ~> (kind = "once" => pc[t] \in {"routine", "returned"})

(* A writer that waits for readers gets in, or gives up, if they leave.    *)
WriterProceeds ==
  \A t \in Waiter : kind = "rwlock" /\ pc[t] = "waiting"
                      ~> (kind = "rwlock" => pc[t] # "waiting" \/ RWLock!Lost)

(* Those a signal is for are awakened, and the gate is opened again.       *)
UnblockingEnds ==
  kind = "cond" /\ obj.nWaitersToUnblock > 0
    ~> (kind = "cond" => obj.nWaitersToUnblock = 0)

(* A join or detach of a thread that ends returns.                         *)
DetachReturns ==
  \A c \in Caller : kind = "thread" /\ pc[c] \in Life!Detaching \cup {"detach"}
                      ~> (kind = "thread" => pc[c] = "idle")

(* A thread that ends gets to the end of its keys, and a key's deletion to *)
(* the end of its threads, although they take the locks in opposite order. *)
(* The thread that ends gives way and asks again: only others that set the *)
(* key again and again can keep it from it.                                *)
EndingEnds ==
  \/ \A t \in User : kind = "keys" /\ pc[t] = "assoc"
                       ~> (kind = "keys" => pc[t] \in {"destructor", "ended"})
  \/ []<>(kind = "keys" /\ \E t \in User : pc[t] = "set")

(* The deletion of a key comes to the end of its threads.                  *)
DeletionEnds ==
  \A t \in User : kind = "keys" /\ pc[t] = "unlink"
                    ~> (kind = "keys" => pc[t] # "unlink")

(* Whoever waits in a lock, a barrier, pthread_once or a condition         *)
(* variable is served, if the others go on.                                *)
WaitersProceed ==
  TurnComes /\ RoundEnds /\ CallerProceeds /\ WriterProceeds /\ UnblockingEnds

(* Whoever ends, joins or deletes comes to the end of it, although the     *)
(* locks are taken in different orders and the structs change hands.       *)
EndingsComplete == DetachReturns /\ EndingEnds /\ DeletionEnds

=============================================================================
