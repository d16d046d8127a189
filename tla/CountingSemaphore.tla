-------------------------- MODULE CountingSemaphore --------------------------
(***************************************************************************)
(* The abstract counting semaphore: units are added, and each is taken by  *)
(* one thread that is told so.                                             *)
(***************************************************************************)
EXTENDS Naturals

CONSTANTS
  Thread,
  MaxUnits        (* the largest count                                      *)

VARIABLES
  count,          (* units that can be taken                                *)
  granted         (* threads that took one in the call they are ending      *)

Init == count \in 0..MaxUnits /\ granted = {}

Up == /\ \E n \in 1..MaxUnits : count' = count + n
      /\ UNCHANGED granted

Down(t) == /\ count > 0
           /\ count' = count - 1
           /\ t \notin granted
           /\ granted' = granted \cup {t}

Forget(t) == /\ granted' = granted \ {t}
             /\ UNCHANGED count

Next == Up \/ \E t \in Thread : Down(t) \/ Forget(t)

Spec == Init /\ [][Next]_<<count, granted>>

=============================================================================
