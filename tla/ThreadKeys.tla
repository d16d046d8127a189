----------------------------- MODULE ThreadKeys ------------------------------
(***************************************************************************)
(* Thread-specific data of the Windows threads library (pthread_key_*.c,   *)
(* pthread_setspecific.c, pthread_getspecific.c, ptw32_tkAssoc*.c and      *)
(* ptw32_callUserDestroyRoutines.c).  An association links a key that has  *)
(* a destructor with a thread that has set it; it is on a chain of each    *)
(* and is guarded by a lock of each, which setting a value and deleting a  *)
(* key take in one order and a thread that ends in the other.              *)
(***************************************************************************)
EXTENDS Naturals, Sequences, SequencesExt

CONSTANTS
  Thread,
  Key,                            (* keys that have a destructor            *)
  PTHREAD_DESTRUCTOR_ITERATIONS   (* 4 in the library                       *)

VARIABLES
  obj,            (* the keys, the threads' chains, and their locks         *)
  pc,             (* where each thread is                                   *)
  loc             (* the key it works on; iterations, assocsRemaining       *)

NOBODY == "nobody"
NONE   == "none"

(* chain[t] is sp->keys: the keys t is associated with, the latest first;  *)
(* a key's own chain is the threads it is on.  next[t] is sp->nextAssoc,   *)
(* and value[t][k] says whether t's TLS holds a value for k.               *)
Init ==
  /\ obj = [key        |-> [k \in Key |-> "live"],
            chain      |-> [t \in Thread |-> <<>>],
            next       |-> [t \in Thread |-> NONE],
            value      |-> [t \in Thread |-> [k \in Key |-> FALSE]],
            keyLock    |-> [k \in Key |-> NOBODY],
            threadLock |-> [t \in Thread |-> NOBODY]]
  /\ pc = [t \in Thread |-> "run"]
  /\ loc = [t \in Thread |-> [key |-> NONE, iterations |-> 0,
                              remaining |-> FALSE, ending |-> FALSE]]

Goto(t, label)  == pc' = [pc EXCEPT ![t] = label]
Threads(k)      == {t \in Thread : Contains(obj.chain[t], k)}
Deleting(k)     == \E t \in Thread : loc[t].key = k /\ pc[t] \in {"delete", "unlink", "free"}

(* After a call the thread goes on, with its destructors if it is ending.  *)
Resume(t) == /\ Goto(t, IF loc[t].ending THEN "destructor" ELSE "run")
             /\ loc' = [loc EXCEPT ![t].key = NONE]

(* A key's lock that is free is taken.                                     *)
TakeKey(t, k) == obj.keyLock[k] = NOBODY /\ obj' = [obj EXCEPT !.keyLock[k] = t]

-----------------------------------------------------------------------------
(* pthread_key_create: no thread has a value for the new key.              *)
Create(t) ==
  /\ pc[t] = "run"
  /\ \E k \in Key : obj.key[k] = "freed" /\ obj' = [obj EXCEPT !.key[k] = "live"]
  /\ UNCHANGED <<pc, loc>>

(* pthread_setspecific, by a thread or by a destructor, with a value for a *)
(* key that nobody deletes.                                                *)
SetSpecific(t) ==
  /\ pc[t] \in {"run", "destructor"}
  /\ \E k \in Key :
       /\ obj.key[k] = "live" /\ ~Deleting(k)
       /\ TakeKey(t, k)
       /\ loc' = [loc EXCEPT ![t].key = k]
  /\ Goto(t, "set")

(* With the thread's lock too, an association is made if there is none     *)
(* (ptw32_tkAssocCreate: at the head of the chain); then the value is set. *)
Associate(t) ==
  LET k == loc[t].key IN
  /\ pc[t] = "set" /\ obj.threadLock[t] = NOBODY
  /\ obj' = [obj EXCEPT !.keyLock[k] = NOBODY, !.value[t][k] = TRUE,
               !.chain[t] = IF Contains(@, k) THEN @ ELSE <<k>> \o @]
  /\ Resume(t)

(* To NULL: the association stays.                                         *)
SetNull(t) ==
  /\ pc[t] = "run"
  /\ \E k \in Key : /\ obj.key[k] = "live" /\ obj.value[t][k]
                    /\ obj' = [obj EXCEPT !.value[t][k] = FALSE]
  /\ UNCHANGED <<pc, loc>>

-----------------------------------------------------------------------------
(* ptw32_tkAssocDestroy: off both chains; a thread about to look at it is  *)
(* given the one after it.                                                 *)

After(s, k) == LET rest == SelectInSeq(s, LAMBDA e : e = k)
               IN  IF rest < Len(s) THEN s[rest + 1] ELSE NONE

NextKept(o, t, k) == o.next[t]

NextAfter(o, t, k) == IF o.next[t] = k THEN After(o.chain[t], k) ELSE o.next[t]

Unlinked(o, t, k) ==
  [o EXCEPT !.next[t] = NextAfter(o, t, k),
            !.chain[t] = SelectSeq(@, LAMBDA e : e # k)]

-----------------------------------------------------------------------------
(* pthread_key_delete: the associations are taken off one by one, under    *)
(* the key's lock and each thread's.  Nobody sets the key meanwhile.       *)

Delete(t) ==
  /\ pc[t] \in {"run", "destructor"}
  /\ \E k \in Key :
       /\ obj.key[k] = "live" /\ ~Deleting(k)
       /\ \A u \in Thread : ~(pc[u] = "set" /\ loc[u].key = k)
       /\ loc' = [loc EXCEPT ![t].key = k]
       /\ Goto(t, IF Threads(k) = {} THEN "free" ELSE "delete")
  /\ UNCHANGED obj

DeleteLock(t) ==
  /\ pc[t] = "delete"
  /\ TakeKey(t, loc[t].key)
  /\ Goto(t, "unlink")
  /\ UNCHANGED loc

DeleteUnlink(t) ==
  LET k == loc[t].key IN
  /\ pc[t] = "unlink"
  /\ \/ \E u \in Threads(k) :
          /\ obj.threadLock[u] = NOBODY
          /\ obj' = Unlinked(obj, u, k)
          /\ UNCHANGED <<pc, loc>>
     \/ /\ Threads(k) = {}
        /\ obj' = [obj EXCEPT !.keyLock[k] = NOBODY]
        /\ Goto(t, "free")
        /\ UNCHANGED loc

NotHeld(k) == obj.keyLock[k] = NOBODY

(* TlsFree, and the key is freed when pthread_mutex_destroy gets its lock. *)
DeleteFree(t) ==
  LET k == loc[t].key IN
  /\ pc[t] = "free" /\ NotHeld(k)
  /\ obj' = [obj EXCEPT !.key[k] = "freed",
                        !.value = [u \in Thread |-> [@[u] EXCEPT ![k] = FALSE]]]
  /\ Resume(t)

-----------------------------------------------------------------------------
(* ptw32_callUserDestroyRoutines, when a thread ends.                      *)

(* do { ... sp->nextAssoc = sp->keys;                                      *)
Ending(t) ==
  /\ \/ pc[t] = "run"
     \/ pc[t] = "pass" /\ loc[t].remaining
  /\ obj.threadLock[t] = NOBODY
  /\ obj' = [obj EXCEPT !.next[t] = IF obj.chain[t] = <<>> THEN NONE ELSE Head(obj.chain[t])]
  /\ loc' = [loc EXCEPT ![t] = [@ EXCEPT !.iterations = @ + 1, !.remaining = FALSE,
                                         !.ending = TRUE]]
  /\ Goto(t, "assoc")

NoneRemaining(t) == ~loc[t].remaining

(* while (assocsRemaining);                                                *)
Ended(t) ==
  /\ pc[t] = "pass" /\ NoneRemaining(t)
  /\ Goto(t, "ended")
  /\ UNCHANGED <<obj, loc>>

(* The thread's lock, and the next association.                            *)
NextAssoc(t) ==
  /\ pc[t] = "assoc" /\ obj.threadLock[t] = NOBODY
  /\ IF obj.next[t] = NONE
     THEN Goto(t, "pass") /\ UNCHANGED obj
     ELSE obj' = [obj EXCEPT !.threadLock[t] = t] /\ Goto(t, "try")
  /\ UNCHANGED loc

KeepsLock(t) == obj

BackedOff(t) == [obj EXCEPT !.threadLock[t] = NOBODY]

(* pthread_mutex_trylock of the key's lock; on EBUSY the thread's is given *)
(* up too, and asked for again.                                            *)
TryKeyLock(t) ==
  LET k == obj.next[t] IN
  /\ pc[t] = "try"
  /\ IF obj.keyLock[k] = NOBODY
     THEN /\ obj' = [obj EXCEPT !.keyLock[k] = t, !.next[t] = After(obj.chain[t], k)]
          /\ loc' = [loc EXCEPT ![t].key = k]
          /\ Goto(t, "both")
     ELSE /\ obj' = BackedOff(t)
          /\ Goto(t, "assoc")
          /\ UNCHANGED loc

WithinIterations(n) == n <= PTHREAD_DESTRUCTOR_ITERATIONS

(* The value is taken; its destructor is run without the locks, or with no *)
(* value (or no patience) left the association goes.                       *)
BothLocks(t) ==
  LET k == loc[t].key
      unlocked == [obj EXCEPT !.value[t][k] = FALSE, !.keyLock[k] = NOBODY,
                              !.threadLock[t] = NOBODY]
  IN
  /\ pc[t] = "both"
  /\ IF obj.value[t][k] /\ WithinIterations(loc[t].iterations)
     THEN /\ obj' = unlocked
          /\ loc' = [loc EXCEPT ![t] = [@ EXCEPT !.key = NONE, !.remaining = TRUE]]
          /\ Goto(t, "destructor")
     ELSE /\ obj' = Unlinked(unlocked, t, k)
          /\ loc' = [loc EXCEPT ![t].key = NONE]
          /\ Goto(t, "assoc")

(* destructor (value) has returned.                                        *)
DestructorReturns(t) ==
  /\ pc[t] = "destructor"
  /\ Goto(t, "assoc")
  /\ UNCHANGED <<obj, loc>>

-----------------------------------------------------------------------------

Step(t) ==
  \/ Associate(t) \/ DeleteLock(t) \/ DeleteUnlink(t) \/ DeleteFree(t)
  \/ (pc[t] # "run" /\ Ending(t)) \/ Ended(t) \/ NextAssoc(t) \/ TryKeyLock(t)
  \/ BothLocks(t) \/ DestructorReturns(t)

Next == \E t \in Thread : \/ Step(t) \/ Create(t) \/ SetSpecific(t) \/ SetNull(t)
                          \/ Delete(t) \/ Ending(t)

Spec == Init /\ [][Next]_<<obj, pc, loc>>

-----------------------------------------------------------------------------
(* Properties.                                                             *)

TypeOK ==
  /\ obj.key \in [Key -> {"live", "freed"}]
  /\ obj.chain \in [Thread -> Seq(Key)]
  /\ obj.next \in [Thread -> Key \cup {NONE}]
  /\ obj.value \in [Thread -> [Key -> BOOLEAN]]
  /\ obj.keyLock \in [Key -> Thread \cup {NOBODY}]
  /\ obj.threadLock \in [Thread -> Thread \cup {NOBODY}]
  /\ pc \in [Thread -> {"run", "set", "delete", "unlink", "free", "pass", "assoc", "try",
                        "both", "destructor", "ended"}]
  /\ loc \in [Thread -> [key: Key \cup {NONE}, remaining: BOOLEAN, ending: BOOLEAN,
                         iterations: 0..PTHREAD_DESTRUCTOR_ITERATIONS + 1]]

(* A key that is freed is on no chain, nor the next a thread will look at, *)
(* and nobody has its lock; a thread that has ended is on no key's chain.  *)
NothingDangles ==
  /\ \A k \in Key : obj.key[k] = "freed" =>
       /\ obj.keyLock[k] = NOBODY
       /\ \A t \in Thread : obj.next[t] # k /\ ~Contains(obj.chain[t], k)
  /\ \A t \in Thread : pc[t] = "ended" => obj.chain[t] = <<>>

(* A value a destructor set again, or a thread set before it ended, is     *)
(* destroyed, unless its key is deleted or the iterations run out.         *)
ValuesDestroyed ==
  \A t \in Thread, k \in Key : obj.value[t][k] =>
    \/ pc[t] # "ended" /\ Contains(obj.chain[t], k)
    \/ Deleting(k)
    \/ loc[t].iterations > PTHREAD_DESTRUCTOR_ITERATIONS

=============================================================================
