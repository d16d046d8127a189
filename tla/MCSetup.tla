------------------------------ MODULE MCSetup --------------------------------
(***************************************************************************)
(* Instances for TLC of what comes before a session has audio: the lookup  *)
(* of the service's addresses (ParsingIP) and the parameters of a session  *)
(* (SessionConfig).  The two share nothing: a behaviour is one of one of   *)
(* them.                                                                   *)
(***************************************************************************)
EXTENDS LookupInvariant, Integers, FiniteSets

CONSTANTS
  Field, Other, Text, Format, Quality, Seconds, Junk, ABSENT, UNPARSABLE, NULL, UNSET

VARIABLES
  part,                                             (* which of the two     *)
  state, given, config, sp, heap, told, overrun     (* SessionConfig's      *)

(* A parameter string is finite.  A text has so many bytes, none if it is  *)
(* empty; the handles that are none are no codec, and a member that is not *)
(* there has no value.                                                     *)
ASSUME ParametersAssumption ==
  /\ IsFiniteSet(Field) /\ IsFiniteSet(Other)
  /\ Text \subseteq (Nat \X Nat) \ {<<0, 0>>}
  /\ Format \cup Quality \cup Seconds \cup Junk \subseteq Int
  /\ ABSENT \notin Text \cup Int
  /\ NULL # UNSET /\ NULL \notin [hz: Int, level: Int]

session == <<state, given, config, sp, heap, told, overrun>>

S == INSTANCE SessionConfig WITH pc <- state

(* A parameter string that was parsed is not the one that was not.         *)
ASSUME StringsAssumption == UNPARSABLE \notin S!Given

Start == part \in {"lookup", "parameters"} /\ Init /\ S!Init

Step == /\ part' = part
        /\ \/ part = "lookup"     /\ Next   /\ UNCHANGED session
           \/ part = "parameters" /\ S!Next /\ UNCHANGED vars

(* The fairness of ParsingIP!FairSpec.                                     *)
Setup ==
  /\ Start /\ [][Step]_<<part, vars, session>>
  /\ WF_vars(part = "lookup" /\ CallerStep)
  /\ \A k \in Kind, n \in 1..MaxCalls : WF_vars(part = "lookup" /\ ThreadStep(k, n))

(* A number, eleven Chinese characters in UTF-8 and a digit, and twelve:   *)
(* user_info is well inside its buffer, fills it, and outgrows it.         *)
Values == {<<6, 0>>, <<34, 33>>, <<36, 36>>}

(* What an application gives, and what it should not.                      *)
Qualities == {-1, 0, 5, 11}

Leftovers == {0, 1, 7}

-----------------------------------------------------------------------------
(* SessionConfig's properties.                                             *)

(* A session with codecs works: SessionConfig!SessionWorks.                *)
SessionWorks == S!SessionWorks

(* No part of a codec leaks: SessionConfig!NothingLeaked.                  *)
NothingLeaked == S!NothingLeaked

(* The service is told every member: SessionConfig!EachMemberTold.         *)
EachMemberTold == S!EachMemberTold

=============================================================================
