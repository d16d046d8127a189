------------------------------- MODULE SilkNLSF ------------------------------
(***************************************************************************)
(* SKP_Silk_NLSF_stabilize of libsilk, through which the frequencies of    *)
(* every frame's filter pass at both ends (SKP_Silk_NLSF_MSVQ_decode): it  *)
(* moves them apart and away from the borders until each has its least     *)
(* distance, the nearest first; and if that has not ended after some loops *)
(* it sorts them and pushes them up and then down.  The filter is stable   *)
(* only if all distances are kept.                                         *)
(*                                                                         *)
(* One action is one turn of a loop.                                       *)
(***************************************************************************)
EXTENDS SilkNLSFTables

VARIABLES
  pc,             (* the loop it is in                                      *)
  st              (* NLSF, over 0..L-1; delta, the least distances, and     *)
                  (* their sums, which the code adds up where it needs      *)
                  (* them; loops; i, of the loops over the vector           *)

vars == <<pc, st>>

Greater(a, b) == IF a > b THEN a ELSE b
Lesser(a, b)  == IF a < b THEN a ELSE b

(* What keeps the k-th frequency from the one below, or from a border.     *)
Slack(NLSF, delta, k) ==
  (IF k = L THEN ONE ELSE NLSF[k]) - (IF k = 0 THEN 0 ELSE NLSF[k - 1]) - delta[k]

Spaced(NLSF, delta) == \A k \in 0..L : Slack(NLSF, delta, k) >= 0

(* I is the first of the smallest.                                         *)
Closest(NLSF, delta, I) ==
  \A k \in 0..L : /\ Slack(NLSF, delta, I) <= Slack(NLSF, delta, k)
                  /\ k < I => Slack(NLSF, delta, I) < Slack(NLSF, delta, k)

(* The pair keeps its centre as far as the others leave room for it.       *)
Centre(NLSF, delta, sums, I) ==
  LET low  == sums[I - 1] + delta[I] \div 2
      high == ONE - (sums[L] - sums[I]) - (delta[I] - delta[I] \div 2)
  IN  Greater(low, Lesser((NLSF[I - 1] + NLSF[I] + 1) \div 2, high))

MovedApart(NLSF, delta, sums, I) ==
  CASE I = 0 -> [NLSF EXCEPT ![0] = delta[0]]
    [] I = L -> [NLSF EXCEPT ![L - 1] = ONE - delta[L]]
    [] OTHER -> LET lower == Centre(NLSF, delta, sums, I) - delta[I] \div 2
                IN  [NLSF EXCEPT ![I - 1] = lower, ![I] = lower + delta[I]]

(* SKP_Silk_insertion_sort_increasing_all_values: p says where from.       *)
Sorting(p, NLSF) ==
  /\ \A j, k \in 0 .. L - 1 : p[j] = p[k] => j = k
  /\ \A k \in 1 .. L - 1 : NLSF[p[k - 1]] <= NLSF[p[k]]

-----------------------------------------------------------------------------
Init ==
  /\ pc = "move"
  /\ \E delta \in NDeltaMin : \E sums \in [0..L -> 0..ONE] :
       /\ Sums(sums, delta)
       /\ \E NLSF \in [0 .. L - 1 -> Given] :
            st = [NLSF |-> NLSF, delta |-> delta, sums |-> sums, loops |-> 0, i |-> 0]

Return ==
  /\ pc = "move" /\ st.loops < MAX_LOOPS
  /\ Spaced(st.NLSF, st.delta)
  /\ pc' = "done"
  /\ UNCHANGED st

Move ==
  /\ pc = "move" /\ st.loops < MAX_LOOPS
  /\ ~Spaced(st.NLSF, st.delta)
  /\ \E I \in 0..L :
       /\ Closest(st.NLSF, st.delta, I)
       /\ st' = [st EXCEPT !.NLSF = MovedApart(@, st.delta, st.sums, I), !.loops = @ + 1]
  /\ UNCHANGED pc

(* After MAX_LOOPS, whether the last of them was enough or not.            *)
FallBack ==
  /\ pc = "move" /\ st.loops = MAX_LOOPS
  /\ \E p \in [0 .. L - 1 -> 0 .. L - 1] :
       /\ Sorting(p, st.NLSF)
       /\ st' = [st EXCEPT !.NLSF = [k \in 0 .. L - 1 |->
                                      IF k = 0 THEN Greater(st.NLSF[p[0]], st.delta[0])
                                      ELSE st.NLSF[p[k]]],
                           !.i = 1]
  /\ pc' = "up"

Up ==
  /\ pc = "up" /\ st.i < L
  /\ st' = [st EXCEPT !.NLSF[st.i] = Greater(@, st.NLSF[st.i - 1] + st.delta[st.i]),
                      !.i = @ + 1]
  /\ UNCHANGED pc

Top ==
  /\ pc = "up" /\ st.i = L
  /\ st' = [st EXCEPT !.NLSF[L - 1] = Lesser(@, ONE - st.delta[L]), !.i = L - 2]
  /\ pc' = "down"

Down ==
  /\ pc = "down" /\ st.i >= 0
  /\ st' = [st EXCEPT !.NLSF[st.i] = Lesser(@, st.NLSF[st.i + 1] - st.delta[st.i + 1]),
                      !.i = @ - 1]
  /\ UNCHANGED pc

Bottom == pc = "down" /\ st.i < 0 /\ pc' = "done" /\ UNCHANGED st

Next == Return \/ Move \/ FallBack \/ Up \/ Top \/ Down \/ Bottom

Spec == Init /\ [][Next]_vars

-----------------------------------------------------------------------------
(* Whatever vector was given, what is returned has every least distance,   *)
(* between frequencies and to the borders ("Moves NLSFs futher apart if    *)
(* they are too close", SKP_Silk_NLSF_stabilize.c:30).                     *)
StableFilter == pc = "done" => Spaced(st.NLSF, st.delta)

TypeOK ==
  /\ pc \in {"move", "up", "down", "done"}
  /\ st \in [NLSF : [0 .. L - 1 -> Int], delta : NDeltaMin, sums : [0..L -> 0..ONE],
             loops : Nat, i : Int]

(* The inductive invariant: on the way up the frequencies leave room below *)
(* them, and keep it on the way down, where the distances are made.        *)
Raised(from, to) == \A k \in from..to : st.NLSF[k] >= st.sums[k]

Apart(from, to) == \A k \in from..to : st.NLSF[k - 1] + st.delta[k] <= st.NLSF[k]

IInv ==
  /\ TypeOK
  /\ Sums(st.sums, st.delta)
  /\ pc = "up" => st.i \in 1..L /\ Raised(0, st.i - 1)
  /\ pc = "down" => /\ st.i \in -1 .. L - 2
                    /\ Raised(0, L - 1)
                    /\ Apart(st.i + 2, L - 1)
                    /\ st.NLSF[L - 1] + st.delta[L] <= ONE
  /\ StableFilter

=============================================================================
