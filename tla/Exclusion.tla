------------------------------ MODULE Exclusion ------------------------------
(***************************************************************************)
(* What every lock of the threads library promises: one thread inside, or  *)
(* any number of readers.                                                  *)
(***************************************************************************)
CONSTANT Thread

VARIABLES
  writers,        (* threads inside that exclude every other                *)
  readers         (* threads inside that exclude writers only               *)

Init == writers = {} /\ readers = {}

Write(t) == /\ writers = {} /\ readers = {}
            /\ writers' = {t}
            /\ UNCHANGED readers

Read(t) == /\ writers = {} /\ t \notin readers
           /\ readers' = readers \cup {t}
           /\ UNCHANGED writers

Leave(t) == /\ t \in writers \cup readers
            /\ writers' = writers \ {t}
            /\ readers' = readers \ {t}

Next == \E t \in Thread : Write(t) \/ Read(t) \/ Leave(t)

Spec == Init /\ [][Next]_<<writers, readers>>

=============================================================================
