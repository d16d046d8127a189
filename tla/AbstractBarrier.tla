--------------------------- MODULE AbstractBarrier ---------------------------
(***************************************************************************)
(* What a barrier promises its callers: none leaves before as many as it   *)
(* was made for have come, and exactly one of a round is told that it is   *)
(* the serial thread.                                                      *)
(***************************************************************************)
EXTENDS FiniteSets, Naturals

CONSTANTS Thread, Height

VARIABLES
  arrived,        (* callers of the round that is filling                   *)
  leaving,        (* callers of the round before that have not left yet     *)
  told            (* what each thread was told when it last left            *)

Init == arrived = {} /\ leaving = {} /\ told = [t \in Thread |-> "none"]

Arrive(t) ==
  /\ t \notin arrived \cup leaving
  /\ IF Cardinality(arrived) + 1 < Height
     THEN arrived' = arrived \cup {t} /\ UNCHANGED leaving
     ELSE arrived' = {} /\ leaving = {} /\ leaving' = arrived \cup {t}
  /\ UNCHANGED told

Leave(t) ==
  /\ t \in leaving
  /\ leaving' = leaving \ {t}
  /\ told' = [told EXCEPT ![t] =
                IF Cardinality(leaving) = Height THEN "SERIAL" ELSE "0"]
  /\ UNCHANGED arrived

Next == \E t \in Thread : Arrive(t) \/ Leave(t)

Spec == Init /\ [][Next]_<<arrived, leaving, told>>

=============================================================================
