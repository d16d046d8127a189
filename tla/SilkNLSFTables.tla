--------------------------- MODULE SilkNLSFTables ---------------------------
(***************************************************************************)
(* The least distances between the frequencies of a filter of libsilk      *)
(* (NDeltaMin_Q15 of the codebooks in SKP_Silk_tables_NLSF_CB*.c), which   *)
(* SilkNLSF keeps.                                                         *)
(***************************************************************************)
EXTENDS Integers

CONSTANTS
  L,              (* frequencies of a vector                                *)
  ONE,            (* the upper border, 1 << 15                              *)
  NDeltaMin,      (* vectors of least distances, over 0..L                  *)
  Given,          (* frequencies the vector may come with                   *)
  MAX_LOOPS

(* sums[k] is what frequency k needs below it.                             *)
Sums(sums, delta) ==
  /\ sums[0] = delta[0]
  /\ \A k \in 1..L : sums[k] = sums[k - 1] + delta[k]

(* There is room for all of them (the tables of src/silk have it).         *)
ASSUME NLSFAssumption ==
  /\ L \in Nat \ {0, 1} /\ ONE \in Nat /\ MAX_LOOPS \in Nat /\ Given \subseteq Int
  /\ NDeltaMin \subseteq [0..L -> Nat]
  /\ \A delta \in NDeltaMin : \E sums \in [0..L -> 0..ONE] : Sums(sums, delta)

=============================================================================
