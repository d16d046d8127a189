--------------------------- MODULE SilkCodecProofs ---------------------------
(***************************************************************************)
(* Both ends of libsilk keep in step: theorems about the parts of the      *)
(* codec that MCSilkCodec puts together.                                   *)
(***************************************************************************)
EXTENDS MCSilkCodec, TLAPS

-----------------------------------------------------------------------------
(* The filters (SilkNLSF).                                                 *)

Vectors == [0 .. L - 1 -> Int]

Stabilizers == [NLSF : Vectors, delta : NDeltaMin, sums : [0..L -> 0..ONE], loops : Nat, i : Int]

(* What the constants are.                                                 *)
LEMMA Bounds == L \in Nat /\ L >= 2 /\ ONE \in Nat /\ NDeltaMin \subseteq [0..L -> Nat]
BY NLSFAssumption

(* A vector's frequencies are integers.                                    *)
LEMMA VectorType == ASSUME NEW f \in Vectors, NEW k \in 0 .. L - 1 PROVE f[k] \in Int
BY DEF Vectors

(* The least distances are integers.                                       *)
LEMMA DeltaType == ASSUME NEW f \in [0..L -> Nat], NEW k \in 0..L PROVE f[k] \in Int
OBVIOUS

(* What frequencies need below them is not above the upper border.         *)
LEMMA SumsType ==
  ASSUME NEW f \in [0..L -> 0..ONE], NEW k \in 0..L PROVE f[k] \in Int /\ f[k] <= ONE
<1>1. f[k] \in 0..ONE
  OBVIOUS
<1> QED BY <1>1, Bounds

(* Half an integer is one.                                                 *)
LEMMA Half == ASSUME NEW n \in Int PROVE n \div 2 \in Int
OBVIOUS

(* Moving two frequencies apart leaves a vector of integers.               *)
LEMMA MovedApartType ==
  ASSUME NEW NLSF \in Vectors, NEW delta \in [0..L -> Nat],
         NEW sums \in [0..L -> 0..ONE], NEW I \in 0..L
  PROVE  F!MovedApart(NLSF, delta, sums, I) \in Vectors
<1>0. L \in Nat /\ L >= 2 /\ ONE \in Nat
  BY Bounds
<1> DEFINE half == delta[I] \div 2
<1>1. delta[0] \in Int /\ delta[I] \in Int /\ ONE - delta[L] \in Int
  BY <1>0
<1>2. half \in Int
  BY <1>1, Half
<1>3. CASE I = 0
  BY <1>0, <1>1, <1>3 DEF F!MovedApart, Vectors
<1>4. CASE I = L
  BY <1>0, <1>1, <1>4 DEF F!MovedApart, Vectors
<1>5. CASE I \notin {0, L}
  <2>1. I - 1 \in 0 .. L - 1 /\ I \in 0 .. L - 1 /\ I - 1 \in 0..L /\ L \in 0..L
    BY <1>0, <1>5
  <2>2. sums[I - 1] \in Int /\ sums[I] \in Int /\ sums[L] \in Int
    BY <2>1, SumsType
  <2>9. NLSF[I - 1] \in Int /\ NLSF[I] \in Int
    BY <2>1, VectorType
  <2>3. NLSF[I - 1] + NLSF[I] + 1 \in Int
    BY <2>9
  <2> DEFINE mean == (NLSF[I - 1] + NLSF[I] + 1) \div 2
             low  == sums[I - 1] + half
             high == ONE - (sums[L] - sums[I]) - (delta[I] - half)
  <2>4. mean \in Int
    BY <2>3, Half
  <2> HIDE DEF half
  <2>10. low \in Int
    BY <1>2, <2>2
  <2>11. high \in Int
    BY <1>0, <1>1, <1>2, <2>2
  <2>5. F!Centre(NLSF, delta, sums, I) = F!Greater(low, F!Lesser(mean, high))
    BY DEF F!Centre, half
  <2> HIDE DEF mean, low, high
  <2>6. F!Centre(NLSF, delta, sums, I) \in Int
    BY <2>4, <2>5, <2>10, <2>11 DEF F!Greater, F!Lesser
  <2> DEFINE lower == F!Centre(NLSF, delta, sums, I) - half
  <2>7. F!MovedApart(NLSF, delta, sums, I) = [NLSF EXCEPT ![I - 1] = lower, ![I] = lower + delta[I]]
    BY <1>5 DEF F!MovedApart, half
  <2>8. lower \in Int /\ lower + delta[I] \in Int
    BY <1>1, <1>2, <2>6
  <2> HIDE DEF lower
  <2> QED BY <2>7, <2>8 DEF Vectors
<1> QED BY <1>3, <1>4, <1>5

(* IInv holds of any vector as it is given.                                *)
LEMMA FiltersInit == F!Init => F!IInv
<1> SUFFICES ASSUME F!Init PROVE F!IInv OBVIOUS
<1> USE NLSFAssumption
<1>1. PICK delta \in NDeltaMin, sums \in [0..L -> 0..ONE], NLSF \in [0 .. L - 1 -> Given] :
        /\ F!Sums(sums, delta)
        /\ enc = [NLSF |-> NLSF, delta |-> delta, sums |-> sums, loops |-> 0, i |-> 0]
  BY DEF F!Init
<1>2. NLSF \in [0 .. L - 1 -> Int]
  OBVIOUS
<1>3. pc = "move"
  BY DEF F!Init
<1>4. F!TypeOK
  BY <1>1, <1>2, <1>3 DEF F!TypeOK
<1> QED BY <1>1, <1>3, <1>4 DEF F!IInv, F!StableFilter

(* Every turn of a loop keeps IInv.                                        *)
LEMMA FiltersStep == F!IInv /\ [F!Next]_(F!vars) => F!IInv'
<1> SUFFICES ASSUME F!IInv, [F!Next]_(F!vars) PROVE F!IInv' OBVIOUS
<1>0. /\ L \in Nat /\ L >= 2 /\ ONE \in Nat
      /\ enc \in Stabilizers
      /\ enc.NLSF \in Vectors /\ enc.delta \in [0..L -> Nat] /\ enc.sums \in [0..L -> 0..ONE]
      /\ enc.i \in Int /\ enc.loops \in Nat
  BY Bounds DEF F!IInv, F!TypeOK, Stabilizers, Vectors
<1>1. CASE F!Return
  BY <1>1 DEF F!IInv, F!TypeOK, F!Return, F!StableFilter
<1>2. CASE F!Move
  <2>1. PICK I \in 0..L :
          enc' = [enc EXCEPT !.NLSF = F!MovedApart(@, enc.delta, enc.sums, I), !.loops = @ + 1]
    BY <1>2 DEF F!Move
  <2>2. PICK NLSF \in Vectors : enc' = [enc EXCEPT !.NLSF = NLSF, !.loops = @ + 1]
    BY <1>0, <2>1, MovedApartType
  <2>3. pc = "move" /\ pc' = "move"
    BY <1>2 DEF F!Move
  <2>4. enc' \in Stabilizers /\ enc'.sums = enc.sums /\ enc'.delta = enc.delta
    <3>1. enc.loops + 1 \in Nat
      BY <1>0
    <3> QED BY <1>0, <2>2, <3>1 DEF Stabilizers
  <2> QED BY <2>3, <2>4 DEF F!IInv, F!TypeOK, Stabilizers, Vectors, F!StableFilter
<1>3. CASE F!FallBack
  <2>1. PICK p \in [0 .. L - 1 -> 0 .. L - 1] :
          enc' = [enc EXCEPT !.NLSF = [k \in 0 .. L - 1 |->
                                       IF k = 0 THEN F!Greater(enc.NLSF[p[0]], enc.delta[0])
                                       ELSE enc.NLSF[p[k]]],
                           !.i = 1]
    BY <1>3 DEF F!FallBack
  <2>2. 0 \in 0 .. L - 1 /\ 0 \in 0..L
    BY <1>0
  <2>3. enc.NLSF[p[0]] \in Int /\ enc.delta[0] \in Int
    <3>1. p[0] \in 0 .. L - 1
      BY <2>2
    <3> QED BY <1>0, <2>2, <3>1, VectorType, DeltaType
  <2> DEFINE first == F!Greater(enc.NLSF[p[0]], enc.delta[0])
  <2>4. first \in Int /\ first >= enc.delta[0]
    BY <2>3 DEF F!Greater
  <2> DEFINE sorted == [k \in 0 .. L - 1 |-> IF k = 0 THEN first ELSE enc.NLSF[p[k]]]
  <2>5. enc' = [enc EXCEPT !.NLSF = sorted, !.i = 1]
    BY <2>1
  <2> HIDE DEF first
  <2>6. sorted \in Vectors /\ sorted[0] >= enc.delta[0]
    BY <1>0, <2>2, <2>4 DEF Vectors
  <2> HIDE DEF sorted
  <2>7. /\ enc' \in Stabilizers
        /\ enc'.NLSF = sorted /\ enc'.i = 1 /\ enc'.sums = enc.sums /\ enc'.delta = enc.delta
    <3>1. enc \in Stabilizers /\ 1 \in Int
      BY <1>0
    <3>2. PICK i \in Int : i = 1
      BY <3>1
    <3>3. enc' = [enc EXCEPT !.NLSF = sorted, !.i = i]
      BY <2>5, <3>2
    <3>4. /\ enc' \in Stabilizers
          /\ enc'.NLSF = sorted /\ enc'.i = i /\ enc'.sums = enc.sums /\ enc'.delta = enc.delta
      BY <2>6, <3>1, <3>3 DEF Stabilizers
    <3> QED BY <3>2, <3>4
  <2>8. enc.sums[0] = enc.delta[0]
    BY DEF F!IInv, F!Sums
  <2>9. \A k \in 0..0 : enc'.NLSF[k] >= enc'.sums[k]
    BY <2>6, <2>7, <2>8
  <2>10. pc' = "up" /\ enc'.i \in 1..L /\ (\A k \in 0 .. enc'.i - 1 : enc'.NLSF[k] >= enc'.sums[k])
    BY <1>0, <1>3, <2>7, <2>9 DEF F!FallBack
  <2> QED BY <2>7, <2>10 DEF F!IInv, F!TypeOK, Stabilizers, Vectors, F!Raised, F!StableFilter
<1>4. CASE F!Up
  <2>1. PICK i \in Int : i = enc.i
    BY <1>0
  <2>2. pc = "up" /\ pc' = "up" /\ i \in 1 .. L - 1 /\ (\A k \in 0 .. i - 1 : enc.NLSF[k] >= enc.sums[k])
    BY <1>0, <1>4, <2>1 DEF F!Up, F!IInv, F!Raised
  <2>3. i \in 0..L /\ i - 1 \in 0..L /\ i \in 1..L /\ i \in 0 .. L - 1 /\ i - 1 \in 0 .. L - 1
        /\ i - 1 \in 0 .. i - 1
    BY <1>0, <2>2
  <2>4. enc.NLSF[i] \in Int /\ enc.NLSF[i - 1] \in Int /\ enc.delta[i] \in Int
        /\ enc.sums[i - 1] \in Int
    BY <1>0, <2>3, VectorType, DeltaType, SumsType
  <2>5. enc.NLSF[i - 1] >= enc.sums[i - 1] /\ enc.sums[i] = enc.sums[i - 1] + enc.delta[i]
    BY <2>2, <2>3 DEF F!IInv, F!Sums
  <2> DEFINE higher == F!Greater(enc.NLSF[i], enc.NLSF[i - 1] + enc.delta[i])
             NLSF   == [enc.NLSF EXCEPT ![i] = higher]
  <2>6. higher \in Int /\ higher >= enc.sums[i]
    BY <2>4, <2>5 DEF F!Greater
  <2>7. enc' = [enc EXCEPT !.NLSF = NLSF, !.i = i + 1]
    BY <1>0, <1>4, <2>1 DEF F!Up, Stabilizers
  <2> HIDE DEF higher
  <2>8. /\ NLSF \in Vectors /\ NLSF[i] = higher
        /\ \A k \in 0 .. L - 1 : k # i => NLSF[k] = enc.NLSF[k]
    BY <1>0, <2>3, <2>6 DEF Vectors
  <2> HIDE DEF NLSF
  <2>9. /\ enc' \in Stabilizers
        /\ enc'.NLSF = NLSF /\ enc'.i = i + 1 /\ enc'.sums = enc.sums /\ enc'.delta = enc.delta
    <3>1. enc \in Stabilizers /\ i + 1 \in Int
      BY <1>0
    <3> QED BY <2>7, <2>8, <3>1 DEF Stabilizers
  <2>10. \A k \in 0..i : enc'.NLSF[k] >= enc'.sums[k]
    <3> SUFFICES ASSUME NEW k \in 0..i PROVE NLSF[k] >= enc.sums[k]
      BY <2>9
    <3>1. CASE k = i
      BY <2>6, <2>8, <3>1
    <3>2. CASE k # i
      <4>1. k \in 0 .. i - 1 /\ k \in 0 .. L - 1
        BY <1>0, <2>2, <3>2
      <4> QED BY <2>2, <2>8, <3>2, <4>1
    <3> QED BY <3>1, <3>2
  <2>11. enc'.i \in 1..L /\ (\A k \in 0 .. enc'.i - 1 : enc'.NLSF[k] >= enc'.sums[k])
    <3>1. enc'.i = i + 1 /\ enc'.i - 1 = i
      BY <2>9
    <3>2. i + 1 \in 1..L
      BY SMTT(60), <1>0, <2>2
    <3> QED BY <2>10, <3>1, <3>2
  <2> QED BY <2>2, <2>9, <2>11 DEF F!IInv, F!TypeOK, Stabilizers, Vectors, F!Raised, F!StableFilter
<1>5. CASE F!Top
  <2>1. pc = "up" /\ pc' = "down" /\ enc.i = L /\ (\A k \in 0 .. L - 1 : enc.NLSF[k] >= enc.sums[k])
    BY <1>0, <1>5 DEF F!Top, F!IInv, F!Raised
  <2>2. L \in 0..L /\ L \in 1..L /\ L - 1 \in 0..L /\ L - 1 \in 0 .. L - 1
    BY <1>0
  <2>3. /\ enc.NLSF[L - 1] \in Int /\ enc.delta[L] \in Int /\ enc.sums[L - 1] \in Int
        /\ enc.sums[L] \in Int /\ enc.sums[L] <= ONE
    BY <1>0, <2>2, VectorType, DeltaType, SumsType
  <2>4. enc.NLSF[L - 1] >= enc.sums[L - 1] /\ enc.sums[L] = enc.sums[L - 1] + enc.delta[L]
    BY <2>1, <2>2 DEF F!IInv, F!Sums
  <2> DEFINE top  == F!Lesser(enc.NLSF[L - 1], ONE - enc.delta[L])
             NLSF == [enc.NLSF EXCEPT ![L - 1] = top]
  <2>5. top \in Int /\ top >= enc.sums[L - 1] /\ top + enc.delta[L] <= ONE
    <3>1. CASE enc.NLSF[L - 1] < ONE - enc.delta[L]
      BY <1>0, <2>3, <2>4, <3>1 DEF F!Lesser
    <3>2. CASE ~(enc.NLSF[L - 1] < ONE - enc.delta[L])
      <4>1. top = ONE - enc.delta[L]
        BY <3>2 DEF F!Lesser
      <4> QED BY <1>0, <2>3, <2>4, <4>1
    <3> QED BY <3>1, <3>2
  <2>6. enc' = [enc EXCEPT !.NLSF = NLSF, !.i = L - 2]
    BY <1>0, <1>5 DEF F!Top, Stabilizers
  <2> HIDE DEF top
  <2>7. /\ NLSF \in Vectors /\ NLSF[L - 1] = top
        /\ \A k \in 0 .. L - 1 : k # L - 1 => NLSF[k] = enc.NLSF[k]
    BY <1>0, <2>2, <2>5 DEF Vectors
  <2> HIDE DEF NLSF
  <2>8. /\ enc' \in Stabilizers
        /\ enc'.NLSF = NLSF /\ enc'.i = L - 2 /\ enc'.sums = enc.sums /\ enc'.delta = enc.delta
    <3>1. enc \in Stabilizers /\ L - 2 \in Int
      BY <1>0
    <3> QED BY <2>6, <2>7, <3>1 DEF Stabilizers
  <2>9. \A k \in 0 .. L - 1 : enc'.NLSF[k] >= enc'.sums[k]
    BY <2>1, <2>5, <2>7, <2>8
  <2>10. \A k \in enc'.i + 2 .. L - 1 : enc'.NLSF[k - 1] + enc'.delta[k] <= enc'.NLSF[k]
    BY <1>0, <2>8
  <2>11. enc'.NLSF[L - 1] + enc'.delta[L] <= ONE /\ enc'.i \in -1 .. L - 2
    BY <1>0, <2>5, <2>7, <2>8
  <2> QED BY <2>1, <2>8, <2>9, <2>10, <2>11
          DEF F!IInv, F!TypeOK, Stabilizers, Vectors, F!Raised, F!Apart, F!StableFilter
<1>6. CASE F!Down
  <2>1. PICK i \in Int : i = enc.i
    BY <1>0
  <2>2. /\ pc = "down" /\ pc' = "down" /\ i \in 0 .. L - 2
        /\ \A k \in 0 .. L - 1 : enc.NLSF[k] >= enc.sums[k]
        /\ \A k \in i + 2 .. L - 1 : enc.NLSF[k - 1] + enc.delta[k] <= enc.NLSF[k]
        /\ enc.NLSF[L - 1] + enc.delta[L] <= ONE
    BY <1>0, <1>6, <2>1 DEF F!Down, F!IInv, F!Raised, F!Apart
  <2>3. i \in 0..L /\ i + 1 \in 0..L /\ i + 1 \in 1..L /\ i \in 0 .. L - 1 /\ i + 1 \in 0 .. L - 1
    BY <1>0, <2>2
  <2>4. enc.NLSF[i] \in Int /\ enc.NLSF[i + 1] \in Int /\ enc.delta[i + 1] \in Int
        /\ enc.sums[i] \in Int /\ enc.sums[i + 1] \in Int
    BY <1>0, <2>3, VectorType, DeltaType, SumsType
  <2>5. enc.NLSF[i] >= enc.sums[i] /\ enc.NLSF[i + 1] >= enc.sums[i + 1]
    BY <2>2, <2>3
  <2>6. enc.sums[i + 1] = enc.sums[i] + enc.delta[i + 1]
    <3>1. enc.sums[i + 1] = enc.sums[(i + 1) - 1] + enc.delta[i + 1]
      BY <2>3 DEF F!IInv, F!Sums
    <3> QED BY <3>1
  <2> DEFINE lower == F!Lesser(enc.NLSF[i], enc.NLSF[i + 1] - enc.delta[i + 1])
             NLSF  == [enc.NLSF EXCEPT ![i] = lower]
  <2>7. lower \in Int /\ lower >= enc.sums[i] /\ lower + enc.delta[i + 1] <= enc.NLSF[i + 1]
    BY <2>4, <2>5, <2>6 DEF F!Lesser
  <2>8. enc' = [enc EXCEPT !.NLSF = NLSF, !.i = i - 1]
    BY <1>0, <1>6, <2>1 DEF F!Down, Stabilizers
  <2> HIDE DEF lower
  <2>9. /\ NLSF \in Vectors /\ NLSF[i] = lower
        /\ \A k \in 0 .. L - 1 : k # i => NLSF[k] = enc.NLSF[k]
    BY <1>0, <2>3, <2>7 DEF Vectors
  <2> HIDE DEF NLSF
  <2>10. /\ enc' \in Stabilizers
         /\ enc'.NLSF = NLSF /\ enc'.i = i - 1 /\ enc'.sums = enc.sums /\ enc'.delta = enc.delta
    <3>1. enc \in Stabilizers /\ i - 1 \in Int
      BY <1>0
    <3> QED BY <2>8, <2>9, <3>1 DEF Stabilizers
  <2>11. \A k \in 0 .. L - 1 : enc'.NLSF[k] >= enc'.sums[k]
    BY <2>2, <2>7, <2>9, <2>10
  <2>12. \A k \in i + 1 .. L - 1 : enc'.NLSF[k - 1] + enc'.delta[k] <= enc'.NLSF[k]
    <3> SUFFICES ASSUME NEW k \in i + 1 .. L - 1 PROVE NLSF[k - 1] + enc.delta[k] <= NLSF[k]
      BY <2>10
    <3>1. k \in 0 .. L - 1 /\ k - 1 \in 0 .. L - 1 /\ k # i
      BY <1>0, <2>2
    <3>2. CASE k = i + 1
      <4>1. k - 1 = i /\ NLSF[k - 1] = lower /\ NLSF[k] = enc.NLSF[k]
        BY <2>9, <3>1, <3>2
      <4> QED BY <2>7, <3>2, <4>1
    <3>3. CASE k # i + 1
      <4>1. k \in i + 2 .. L - 1 /\ k - 1 # i
        BY <1>0, <2>2, <3>3
      <4> QED BY <2>2, <2>9, <3>1, <4>1
    <3> QED BY <3>2, <3>3
  <2>13. \A k \in enc'.i + 2 .. L - 1 : enc'.NLSF[k - 1] + enc'.delta[k] <= enc'.NLSF[k]
    <3>1. enc'.i + 2 = i + 1
      BY <2>10
    <3> QED BY <2>12, <3>1
  <2>14. enc'.NLSF[L - 1] + enc'.delta[L] <= ONE /\ enc'.i \in -1 .. L - 2
    <3>1. L - 1 \in 0 .. L - 1 /\ L - 1 # i
      BY <1>0, <2>2
    <3> QED BY <1>0, <2>2, <2>9, <2>10, <3>1
  <2> QED BY <2>2, <2>10, <2>11, <2>13, <2>14
          DEF F!IInv, F!TypeOK, Stabilizers, Vectors, F!Raised, F!Apart, F!StableFilter
<1>7. CASE F!Bottom
  <2>1. pc = "down" /\ pc' = "done" /\ enc' = enc /\ enc.i = -1
    BY <1>7 DEF F!Bottom, F!IInv
  <2>2. F!Spaced(enc.NLSF, enc.delta)
    <3> SUFFICES ASSUME NEW k \in 0..L PROVE F!Slack(enc.NLSF, enc.delta, k) >= 0
      BY DEF F!Spaced
    <3>1. /\ F!Raised(0, L - 1) /\ F!Apart(1, L - 1) /\ enc.NLSF[L - 1] + enc.delta[L] <= ONE
          /\ enc.sums[0] = enc.delta[0]
      BY <2>1 DEF F!IInv, F!Sums
    <3>9. 0 \in 0 .. L - 1 /\ 0 \in 0..L /\ L \in 0..L /\ L - 1 \in 0 .. L - 1
      BY <1>0
    <3>2. enc.NLSF[0] >= enc.delta[0] /\ enc.NLSF[0] \in Int /\ enc.delta[0] \in Int
      <4>1. enc.NLSF[0] \in Int /\ enc.delta[0] \in Int
        BY <1>0, <3>9, VectorType, DeltaType
      <4>2. enc.NLSF[0] >= enc.sums[0]
        BY <3>1, <3>9 DEF F!Raised
      <4> QED BY <3>1, <4>1, <4>2
    <3>3. CASE k = 0
      <4>1. F!Slack(enc.NLSF, enc.delta, 0) = enc.NLSF[0] - 0 - enc.delta[0]
        BY <1>0 DEF F!Slack
      <4> QED BY <3>2, <3>3, <4>1
    <3>4. CASE k \in 1 .. L - 1
      <4>1. enc.NLSF[k - 1] + enc.delta[k] <= enc.NLSF[k]
        BY <3>1, <3>4 DEF F!Apart
      <4>3. k - 1 \in 0 .. L - 1 /\ k \in 0 .. L - 1
        BY <1>0, <3>4
      <4>2. enc.NLSF[k - 1] \in Int /\ enc.NLSF[k] \in Int /\ enc.delta[k] \in Int
        BY <1>0, <4>3, VectorType, DeltaType
      <4>4. F!Slack(enc.NLSF, enc.delta, k) = enc.NLSF[k] - enc.NLSF[k - 1] - enc.delta[k]
        <5>1. k # 0 /\ k # L
          BY <1>0, <3>4
        <5> QED BY <5>1 DEF F!Slack
      <4> QED BY <4>1, <4>2, <4>4
    <3>5. CASE k = L
      <4>1. enc.NLSF[L - 1] \in Int /\ enc.delta[L] \in Int
        BY <1>0, <3>9, VectorType, DeltaType
      <4>2. F!Slack(enc.NLSF, enc.delta, L) = ONE - enc.NLSF[L - 1] - enc.delta[L]
        BY <1>0 DEF F!Slack
      <4> QED BY SMTT(60), <1>0, <3>1, <3>5, <4>1, <4>2
    <3> QED BY <1>0, <3>3, <3>4, <3>5
  <2> QED BY <2>1, <2>2 DEF F!IInv, F!TypeOK, F!StableFilter
<1>8. CASE UNCHANGED F!vars
  BY <1>8 DEF F!IInv, F!TypeOK, F!Raised, F!Apart, F!StableFilter, F!vars
<1> QED BY <1>1, <1>2, <1>3, <1>4, <1>5, <1>6, <1>7, <1>8 DEF F!Next

(* A behaviour of the filters is one of SilkNLSF.                          *)
LEMMA FiltersBehaviour == Spec /\ part = "filters" => [](part = "filters" /\ F!IInv)
<1>1. Init /\ part = "filters" => F!IInv
  BY FiltersInit DEF Init, RATES
<1>2. part = "filters" /\ F!IInv /\ [Next]_vars => (part = "filters" /\ F!IInv)'
  <2> SUFFICES ASSUME part = "filters", F!IInv, [Next]_vars
               PROVE  part' = "filters" /\ F!IInv'
    OBVIOUS
  <2>1. CASE Next
    BY <2>1, FiltersStep DEF Next, RATES
  <2>2. CASE UNCHANGED vars
    BY <2>2, FiltersStep DEF vars, F!vars
  <2> QED BY <2>1, <2>2
<1> QED BY <1>1, <1>2, PTL DEF Spec

(* Whatever vector it is given, SKP_Silk_NLSF_stabilize returns one that   *)
(* keeps all least distances (SKP_Silk_NLSF_stabilize.c:30-32).            *)
THEOREM FiltersStable == Spec /\ part = "filters" => []RoundTrip
<1>1. part = "filters" /\ F!IInv => RoundTrip
  BY DEF RoundTrip, F!IInv
<1> QED BY <1>1, FiltersBehaviour, PTL

-----------------------------------------------------------------------------
(* The internal sampling rate (SilkBandwidth).                             *)

Rates == {8, 12, 16, 24}

Bands == [fs_kHz : {0} \cup Rates, bitrateDiff : Int, vadFlag : BOOLEAN, mode : {0, 1},
          transition_frame_no : Nat, WB_detected : BOOLEAN, SWB_detected : BOOLEAN,
          enoughSpeech : BOOLEAN]

LastFrame(mode) == IF mode = 0 THEN TRANSITION_FRAMES_DOWN ELSE TRANSITION_FRAMES_UP

(* The filter is where its mode lets it be.                                *)
Placed(e) == e.transition_frame_no \in 0 .. LastFrame(e.mode)

(* The ladder of rates.                                                    *)
LEMMA Ladder ==
  /\ W!Lower[24] = 16 /\ W!Lower[16] = 12 /\ W!Lower[12] = 8
  /\ W!Higher[8] = 12 /\ W!Higher[12] = 16 /\ W!Higher[16] = 24
  /\ \A f \in Rates : W!Down[f] \in Nat
  /\ \A f \in Rates \ {24} : W!Up[f] \in Nat
  /\ DOMAIN W!Up = Rates \ {24}
<1>1. W!Lower[24] = 16 /\ W!Lower[16] = 12 /\ W!Lower[12] = 8
  BY DEF W!Lower
<1>2. W!Higher[8] = 12 /\ W!Higher[12] = 16 /\ W!Higher[16] = 24
  BY DEF W!Higher
<1>3. \A f \in Rates : W!Down[f] \in Nat
  BY DEF W!Down, Rates
<1>4. \A f \in Rates \ {24} : W!Up[f] \in Nat
  BY DEF W!Up, Rates
<1>5. DOMAIN W!Up = Rates \ {24}
  BY DEF W!Up, Rates
<1> QED  BY <1>1, <1>2, <1>3, <1>4, <1>5

(* What a call allows is a rate of the ladder.                             *)
LEMMA LimitType == ASSUME NEW s \in Setting PROVE W!Limit(s) \in Rates
<1>1. s \in [API_fs_kHz : {8, 12, 16, 24, 32, 44, 48}, max_fs_kHz : {8, 12, 16, 24}, kbps : Nat]
  BY BandwidthAssumption
<1>2. s.API_fs_kHz \in {8, 12, 16, 24, 32, 44, 48} /\ s.max_fs_kHz \in {8, 12, 16, 24}
  BY <1>1
<1> QED  BY <1>2 DEF W!Limit, W!Lesser, Rates

(* The first rate is one of the ladder, and allowed.                       *)
LEMMA InitialType ==
  ASSUME NEW s \in Setting PROVE W!Initial(s) \in Rates /\ W!Initial(s) <= W!Limit(s)
<1>1. s.kbps \in Nat
  BY BandwidthAssumption
<1> DEFINE fit == CASE s.kbps >= 25 -> 24 [] s.kbps >= 14 /\ s.kbps < 25 -> 16
                    [] s.kbps >= 10 /\ s.kbps < 14 -> 12 [] s.kbps < 10 -> 8
<1>2. fit \in Rates
  <2>1. CASE s.kbps >= 25
    <3>1. ~(s.kbps >= 14 /\ s.kbps < 25) /\ ~(s.kbps >= 10 /\ s.kbps < 14) /\ ~(s.kbps < 10)
      BY <1>1, <2>1
    <3> QED  BY <2>1, <3>1 DEF Rates
  <2>2. CASE s.kbps >= 14 /\ s.kbps < 25
    <3>1. ~(s.kbps >= 25) /\ ~(s.kbps >= 10 /\ s.kbps < 14) /\ ~(s.kbps < 10)
      BY <1>1, <2>2
    <3> QED  BY <2>2, <3>1 DEF Rates
  <2>3. CASE s.kbps >= 10 /\ s.kbps < 14
    <3>1. ~(s.kbps >= 25) /\ ~(s.kbps >= 14 /\ s.kbps < 25) /\ ~(s.kbps < 10)
      BY <1>1, <2>3
    <3> QED  BY <2>3, <3>1 DEF Rates
  <2>4. CASE s.kbps < 10
    <3>1. ~(s.kbps >= 25) /\ ~(s.kbps >= 14 /\ s.kbps < 25) /\ ~(s.kbps >= 10 /\ s.kbps < 14)
      BY <1>1, <2>4
    <3> QED  BY <2>4, <3>1 DEF Rates
  <2> QED  BY <1>1, <2>1, <2>2, <2>3, <2>4
<1>3. W!Initial(s) = W!Lesser(W!Limit(s), fit)
  BY DEF W!Initial
<1> HIDE DEF fit
<1> QED  BY <1>2, <1>3, LimitType DEF W!Lesser, Rates

(* A new rate restarts or ends the transition.                             *)
LEMMA SetUpMakes ==
  ASSUME NEW e \in Bands, NEW fs \in Rates, Placed(e)
  PROVE  /\ W!SetUp(e, fs) \in Bands /\ Placed(W!SetUp(e, fs))
         /\ W!SetUp(e, fs).fs_kHz = fs
         /\ W!SetUp(e, fs).mode = e.mode
         /\ W!SetUp(e, fs).transition_frame_no =
              IF fs = e.fs_kHz THEN e.transition_frame_no ELSE IF e.mode = 1 THEN 1 ELSE 0
<1>1. CASE fs = e.fs_kHz
  BY <1>1 DEF W!SetUp
<1>2. CASE fs # e.fs_kHz
  <2> DEFINE t == IF e.mode = 1 THEN 1 ELSE 0
  <2>1. t \in Nat /\ t \in 0 .. LastFrame(e.mode)
    BY BandwidthAssumption DEF LastFrame
  <2>2. W!SetUp(e, fs) = [e EXCEPT !.fs_kHz = fs, !.transition_frame_no = t]
    BY <1>2 DEF W!SetUp
  <2> HIDE DEF t
  <2>3. /\ W!SetUp(e, fs) \in Bands
        /\ W!SetUp(e, fs).fs_kHz = fs /\ W!SetUp(e, fs).mode = e.mode
        /\ W!SetUp(e, fs).transition_frame_no = t
    BY <2>1, <2>2 DEF Bands
  <2> QED  BY <1>2, <2>1, <2>3 DEF Placed, t
<1> QED  BY <1>1, <1>2

(* What a call does to the bits in hand changes nothing else.              *)
LEMMA AccumulatedMakes ==
  ASSUME NEW e \in Bands, NEW s \in Setting, e.fs_kHz # 0
  PROVE  /\ W!Accumulated(e, s) \in Bands
         /\ W!Accumulated(e, s).fs_kHz = e.fs_kHz
         /\ W!Accumulated(e, s).mode = e.mode
         /\ W!Accumulated(e, s).vadFlag = e.vadFlag
         /\ W!Accumulated(e, s).WB_detected = e.WB_detected
         /\ W!Accumulated(e, s).transition_frame_no = e.transition_frame_no
<1>1. s.kbps \in Nat /\ e.bitrateDiff \in Int /\ e.fs_kHz \in Rates /\ MaxDeficit \in Nat
  BY BandwidthAssumption DEF Bands
<1>2. W!Down[e.fs_kHz] \in Nat
  BY <1>1, Ladder
<1> DEFINE diff == W!Greater(W!Lesser(e.bitrateDiff + (s.kbps - W!Down[e.fs_kHz]), 0), -MaxDeficit)
<1>3. diff \in Int
  BY <1>1, <1>2 DEF W!Greater, W!Lesser
<1>4. W!Accumulated(e, s) = [e EXCEPT !.bitrateDiff = diff]
  BY DEF W!Accumulated
<1> HIDE DEF diff
<1> QED  BY <1>3, <1>4 DEF Bands

(* A step down is one step, under a closed filter, and opens it; else the  *)
(* transition begins, or nothing changes.                                  *)
LEMMA SteppedDownMakes ==
  ASSUME NEW e \in Bands, Placed(e), e.fs_kHz # 0
  PROVE  LET d == W!SteppedDown(e)
         IN  /\ d.st \in Bands /\ Placed(d.st)
             /\ d.st.fs_kHz = e.fs_kHz /\ d.st.WB_detected = e.WB_detected
             /\ d.st.vadFlag = e.vadFlag
             /\ \/ /\ e.transition_frame_no = 0
                   /\ d.st.transition_frame_no = 1 /\ d.st.mode = 0 /\ d.fs = e.fs_kHz
                \/ /\ e.mode = 0 /\ e.transition_frame_no = TRANSITION_FRAMES_DOWN
                   /\ d.st.transition_frame_no = 0 /\ d.st.mode = 0
                   /\ d.fs = IF e.fs_kHz = 8 THEN 8 ELSE W!Lower[e.fs_kHz]
                \/ /\ d.st.transition_frame_no = e.transition_frame_no
                   /\ d.st.mode = e.mode /\ d.fs = e.fs_kHz
<1>0. /\ TRANSITION_FRAMES_DOWN \in Nat \ {0} /\ TRANSITION_FRAMES_UP \in Nat \ {0}
      /\ e.transition_frame_no \in Nat /\ e.mode \in {0, 1}
  BY BandwidthAssumption DEF Bands
<1>1. CASE W!StartsDown(e)
  <2>1. e.transition_frame_no = 0
    BY <1>1 DEF W!StartsDown
  <2> DEFINE st == [e EXCEPT !.transition_frame_no = 1, !.mode = 0]
  <2>2. W!SteppedDown(e) = [st |-> st, fs |-> e.fs_kHz]
    BY <1>1 DEF W!SteppedDown
  <2>3. /\ st \in Bands /\ st.transition_frame_no = 1 /\ st.mode = 0
        /\ st.fs_kHz = e.fs_kHz /\ st.WB_detected = e.WB_detected /\ st.vadFlag = e.vadFlag
    BY DEF Bands
  <2> HIDE DEF st
  <2>4. Placed(st)
    BY <1>0, <2>3 DEF Placed, LastFrame
  <2> QED  BY <2>1, <2>2, <2>3, <2>4
<1>2. CASE ~W!StartsDown(e) /\ W!EndsDown(e)
  <2>1. e.mode = 0 /\ e.transition_frame_no = TRANSITION_FRAMES_DOWN
    BY <1>0, <1>2 DEF W!EndsDown, Placed, LastFrame
  <2>5. PICK zero \in Int : zero = 0
    OBVIOUS
  <2> DEFINE st == [e EXCEPT !.transition_frame_no = 0, !.bitrateDiff = zero]
             fs == IF e.fs_kHz = 8 THEN 8 ELSE W!Lower[e.fs_kHz]
  <2>2. W!SteppedDown(e) = [st |-> st, fs |-> fs]
    BY <1>2, <2>5 DEF W!SteppedDown
  <2>3. /\ st \in Bands /\ st.transition_frame_no = 0 /\ st.mode = e.mode
        /\ st.fs_kHz = e.fs_kHz /\ st.WB_detected = e.WB_detected /\ st.vadFlag = e.vadFlag
    BY DEF Bands
  <2> HIDE DEF st, fs
  <2>4. Placed(st)
    BY <1>0, <2>3 DEF Placed, LastFrame
  <2> QED  BY <2>1, <2>2, <2>3, <2>4 DEF fs
<1>3. CASE ~W!StartsDown(e) /\ ~W!EndsDown(e)
  <2>1. W!SteppedDown(e) = [st |-> e, fs |-> e.fs_kHz]
    BY <1>3 DEF W!SteppedDown
  <2> QED  BY <2>1
<1> QED  BY <1>1, <1>2, <1>3

(* A step up is to the next rate, which the call allows, from no           *)
(* transition; wide-band input is not taken to 24 kHz.                     *)
LEMMA SteppedUpMakes ==
  ASSUME NEW e \in Bands, Placed(e), e.fs_kHz # 0, NEW fs \in Rates, NEW s \in Setting
  PROVE  LET u == W!SteppedUp(e, fs, s)
         IN  /\ u.st \in Bands /\ Placed(u.st)
             /\ u.st.fs_kHz = e.fs_kHz /\ u.st.vadFlag = e.vadFlag
             /\ \/ /\ e.transition_frame_no = 0 /\ u.st.transition_frame_no = 0 /\ u.st.mode = 1
                   /\ e.fs_kHz < 24 /\ u.fs = W!Higher[e.fs_kHz] /\ u.fs \in Rates
                   /\ u.fs <= W!Limit(s)
                   /\ ~(e.WB_detected /\ u.fs = 24)
                \/ u.st = e /\ u.fs = fs
<1>0. /\ TRANSITION_FRAMES_UP \in Nat \ {0} /\ e.fs_kHz \in Rates
  BY BandwidthAssumption DEF Bands
<1>1. CASE W!StepsUp(e, s)
  <2>1. /\ e.fs_kHz < W!Limit(s) /\ e.fs_kHz \in Rates \ {24}
        /\ ~(e.WB_detected /\ e.fs_kHz >= 16) /\ e.transition_frame_no = 0
    BY <1>1, Ladder DEF W!StepsUp
  <2>6. PICK zero \in Int : zero = 0
    OBVIOUS
  <2> DEFINE st == [e EXCEPT !.mode = 1, !.bitrateDiff = zero]
  <2>2. W!SteppedUp(e, fs, s) = [st |-> st, fs |-> W!Higher[e.fs_kHz]]
    BY <1>1, <2>6 DEF W!SteppedUp
  <2>3. /\ st \in Bands /\ st.transition_frame_no = e.transition_frame_no /\ st.mode = 1
        /\ st.fs_kHz = e.fs_kHz /\ st.vadFlag = e.vadFlag
    BY DEF Bands
  <2> HIDE DEF st
  <2>4. Placed(st)
    BY <1>0, <2>1, <2>3 DEF Placed, LastFrame
  <2>5. /\ W!Higher[e.fs_kHz] \in Rates /\ W!Higher[e.fs_kHz] <= W!Limit(s) /\ e.fs_kHz < 24
        /\ W!Higher[e.fs_kHz] = 24 => e.fs_kHz = 16
    BY <2>1, LimitType, Ladder DEF Rates
  <2> QED  BY <2>1, <2>2, <2>3, <2>4, <2>5
<1>2. CASE ~W!StepsUp(e, s)
  BY <1>2 DEF W!SteppedUp
<1> QED  BY <1>1, <1>2

(* The end of an opening filter, of which nothing is heard.                *)
LEMMA OpenedMakes ==
  ASSUME NEW e \in Bands, Placed(e)
  PROVE  /\ W!Opened(e) \in Bands /\ Placed(W!Opened(e))
         /\ W!Opened(e).fs_kHz = e.fs_kHz /\ W!Opened(e).mode = e.mode
         /\ \/ W!Opened(e) = e
            \/ /\ e.mode = 1 /\ e.transition_frame_no = TRANSITION_FRAMES_UP
               /\ W!Opened(e).transition_frame_no = 0
<1>0. /\ TRANSITION_FRAMES_DOWN \in Nat \ {0} /\ TRANSITION_FRAMES_UP \in Nat \ {0}
      /\ e.transition_frame_no \in Nat
  BY BandwidthAssumption DEF Bands
<1>1. CASE e.mode = 1 /\ e.transition_frame_no >= TRANSITION_FRAMES_UP /\ ~e.vadFlag
  <2> DEFINE st == [e EXCEPT !.transition_frame_no = 0]
  <2>1. W!Opened(e) = st
    BY <1>1 DEF W!Opened
  <2>2. st \in Bands /\ st.transition_frame_no = 0 /\ st.fs_kHz = e.fs_kHz /\ st.mode = e.mode
    BY DEF Bands
  <2> HIDE DEF st
  <2>3. e.transition_frame_no = TRANSITION_FRAMES_UP /\ Placed(st)
    BY <1>0, <1>1, <2>2 DEF Placed, LastFrame
  <2> QED  BY <1>1, <2>1, <2>2, <2>3
<1>2. CASE ~(e.mode = 1 /\ e.transition_frame_no >= TRANSITION_FRAMES_UP /\ ~e.vadFlag)
  BY <1>2 DEF W!Opened
<1> QED  BY <1>1, <1>2

(* What a call makes of an encoder with a rate that the call allows: the   *)
(* cases of BandSmooth.                                                    *)
LEMMA SwitchedMakes ==
  ASSUME NEW e \in Bands, Placed(e), e.fs_kHz # 0, NEW s \in Setting, e.fs_kHz <= W!Limit(s)
  PROVE  LET w   == W!Switched(e, s)
             now == W!SetUp(W!Opened(w.st), w.fs)
         IN  /\ now \in Bands /\ Placed(now) /\ now.fs_kHz <= W!Limit(s)
             /\ \/ /\ now.fs_kHz = e.fs_kHz
                   /\ \/ now.mode = e.mode /\ now.transition_frame_no = e.transition_frame_no
                      \/ W!Open(e) /\ (W!Open(now) \/ now.transition_frame_no = 1)
                      \/ e.fs_kHz = 8
                \/ /\ ~e.vadFlag
                   /\ \/ /\ e.fs_kHz > 8 /\ now.fs_kHz = W!Lower[e.fs_kHz]
                         /\ W!Closed(e) /\ W!Open(now)
                      \/ /\ e.fs_kHz < 24 /\ now.fs_kHz = W!Higher[e.fs_kHz]
                         /\ W!Open(e) \/ W!Closed(e)
                         /\ W!Closed(now) /\ ~(e.WB_detected /\ now.fs_kHz = 24)
<1>0. /\ TRANSITION_FRAMES_DOWN \in Nat \ {0} /\ TRANSITION_FRAMES_UP \in Nat \ {0}
      /\ e.transition_frame_no \in Nat /\ e.mode \in {0, 1} /\ e.fs_kHz \in Rates
      /\ W!Limit(s) \in Rates
  BY BandwidthAssumption, LimitType DEF Bands
<1> DEFINE w == W!Switched(e, s)
           o == W!Opened(w.st)
           now == W!SetUp(o, w.fs)
<1>1. SUFFICES
        /\ now \in Bands /\ Placed(now) /\ now.fs_kHz <= W!Limit(s)
        /\ \/ /\ now.fs_kHz = e.fs_kHz
              /\ \/ now.mode = e.mode /\ now.transition_frame_no = e.transition_frame_no
                 \/ W!Open(e) /\ (W!Open(now) \/ now.transition_frame_no = 1)
                 \/ e.fs_kHz = 8
           \/ /\ ~e.vadFlag
              /\ \/ /\ e.fs_kHz > 8 /\ now.fs_kHz = W!Lower[e.fs_kHz]
                    /\ W!Closed(e) /\ W!Open(now)
                 \/ /\ e.fs_kHz < 24 /\ now.fs_kHz = W!Higher[e.fs_kHz]
                    /\ W!Open(e) \/ W!Closed(e)
                    /\ W!Closed(now) /\ ~(e.WB_detected /\ now.fs_kHz = 24)
  OBVIOUS
<1> HIDE DEF w, o, now
<1>2. ASSUME w.st \in Bands, Placed(w.st), w.st.fs_kHz = e.fs_kHz, w.fs = e.fs_kHz,
             w.st.mode = e.mode /\ w.st.transition_frame_no = e.transition_frame_no
      PROVE  /\ now \in Bands /\ Placed(now) /\ now.fs_kHz = e.fs_kHz
             /\ \/ now.mode = e.mode /\ now.transition_frame_no = e.transition_frame_no
                \/ W!Open(e) /\ W!Open(now)
  <2>1. /\ o \in Bands /\ Placed(o) /\ o.fs_kHz = e.fs_kHz /\ o.mode = e.mode
        /\ \/ o.transition_frame_no = e.transition_frame_no
           \/ /\ e.mode = 1 /\ e.transition_frame_no = TRANSITION_FRAMES_UP
              /\ o.transition_frame_no = 0
    BY <1>2, OpenedMakes DEF o
  <2>2. /\ now \in Bands /\ Placed(now) /\ now.fs_kHz = e.fs_kHz /\ now.mode = e.mode
        /\ now.transition_frame_no = o.transition_frame_no
    BY <1>0, <1>2, <2>1, SetUpMakes DEF now
  <2> QED  BY <2>1, <2>2 DEF W!Open
<1>3. CASE s.API_fs_kHz <= 8
  <2>1. w = [st |-> e, fs |-> e.fs_kHz]
    BY <1>3 DEF w, W!Switched
  <2> QED  BY <1>2, <2>1
<1> DEFINE a == W!Accumulated(e, s)
           d == W!SteppedDown(a)
<1>4. /\ a \in Bands /\ Placed(a) /\ a.fs_kHz = e.fs_kHz /\ a.mode = e.mode
      /\ a.vadFlag = e.vadFlag /\ a.WB_detected = e.WB_detected
      /\ a.transition_frame_no = e.transition_frame_no
  BY AccumulatedMakes DEF Placed
<1> HIDE DEF a
<1>5. CASE ~(s.API_fs_kHz <= 8) /\ e.vadFlag
  <2>1. w = [st |-> a, fs |-> a.fs_kHz]
    BY <1>5 DEF w, a, W!Switched
  <2> QED  BY <1>2, <1>4, <2>1
<1>6. CASE ~(s.API_fs_kHz <= 8) /\ ~e.vadFlag
  <2>1. w = W!SteppedUp(d.st, d.fs, s)
    BY <1>6 DEF w, a, W!Switched
  <2>2. /\ d.st \in Bands /\ Placed(d.st)
        /\ d.st.fs_kHz = e.fs_kHz /\ d.st.WB_detected = e.WB_detected
        /\ d.st.vadFlag = e.vadFlag
        /\ \/ /\ e.transition_frame_no = 0
              /\ d.st.transition_frame_no = 1 /\ d.st.mode = 0 /\ d.fs = e.fs_kHz
           \/ /\ e.mode = 0 /\ e.transition_frame_no = TRANSITION_FRAMES_DOWN
              /\ d.st.transition_frame_no = 0 /\ d.st.mode = 0
              /\ d.fs = IF e.fs_kHz = 8 THEN 8 ELSE W!Lower[e.fs_kHz]
           \/ /\ d.st.transition_frame_no = e.transition_frame_no
              /\ d.st.mode = e.mode /\ d.fs = e.fs_kHz
    BY <1>4, SteppedDownMakes
  <2> HIDE DEF d
  <2>3. d.fs \in Rates /\ d.fs <= e.fs_kHz
    BY <1>0, <2>2, Ladder DEF Rates
  <2>4. /\ w.st \in Bands /\ Placed(w.st)
        /\ w.st.fs_kHz = e.fs_kHz /\ w.st.vadFlag = e.vadFlag
        /\ \/ /\ d.st.transition_frame_no = 0 /\ w.st.transition_frame_no = 0 /\ w.st.mode = 1
              /\ e.fs_kHz < 24 /\ w.fs = W!Higher[e.fs_kHz] /\ w.fs \in Rates
              /\ w.fs <= W!Limit(s)
              /\ ~(e.WB_detected /\ w.fs = 24)
           \/ w.st = d.st /\ w.fs = d.fs
    BY <2>1, <2>2, <2>3, SteppedUpMakes
  <2>5. CASE /\ d.st.transition_frame_no = 0 /\ w.st.transition_frame_no = 0 /\ w.st.mode = 1
             /\ e.fs_kHz < 24 /\ w.fs = W!Higher[e.fs_kHz] /\ w.fs \in Rates
             /\ w.fs <= W!Limit(s)
             /\ ~(e.WB_detected /\ w.fs = 24)
    <3>1. o = w.st
      <4>1. \/ o = w.st
            \/ w.st.transition_frame_no = TRANSITION_FRAMES_UP
        BY <2>4, OpenedMakes DEF o
      <4> QED  BY <1>0, <2>5, <4>1
    <3>2. w.fs # e.fs_kHz
      BY <1>0, <2>5, Ladder DEF Rates
    <3>3. /\ now \in Bands /\ Placed(now) /\ now.fs_kHz = w.fs /\ now.mode = 1
          /\ now.transition_frame_no = 1
      BY <2>4, <2>5, <3>1, <3>2, SetUpMakes DEF now
    <3>4. W!Open(e) \/ W!Closed(e)
      BY <1>0, <2>2, <2>5 DEF W!Open, W!Closed
    <3>5. W!Closed(now)
      BY <3>3 DEF W!Closed
    <3> QED  BY <1>6, <2>5, <3>3, <3>4, <3>5
  <2>6. CASE w.st = d.st /\ w.fs = d.fs
    <3>1. CASE /\ e.transition_frame_no = 0
               /\ d.st.transition_frame_no = 1 /\ d.st.mode = 0 /\ d.fs = e.fs_kHz
      <4>1. o = w.st
        <5>1. o = w.st \/ w.st.mode = 1
          BY <2>4, OpenedMakes DEF o
        <5> QED  BY <2>6, <3>1, <5>1
      <4>2. /\ now \in Bands /\ Placed(now) /\ now.fs_kHz = e.fs_kHz
            /\ now.transition_frame_no = 1
        BY <1>0, <2>4, <2>6, <3>1, <4>1, SetUpMakes DEF now
      <4> QED  BY <3>1, <4>2 DEF W!Open
    <3>2. CASE /\ e.mode = 0 /\ e.transition_frame_no = TRANSITION_FRAMES_DOWN
               /\ d.st.transition_frame_no = 0 /\ d.st.mode = 0
               /\ d.fs = IF e.fs_kHz = 8 THEN 8 ELSE W!Lower[e.fs_kHz]
      <4>1. o = w.st
        <5>1. o = w.st \/ w.st.mode = 1
          BY <2>4, OpenedMakes DEF o
        <5> QED  BY <2>6, <3>2, <5>1
      <4>2. /\ now \in Bands /\ Placed(now) /\ now.fs_kHz = d.fs
            /\ now.transition_frame_no = 0
        BY <2>3, <2>4, <2>6, <3>2, <4>1, SetUpMakes DEF now
      <4>3. now.fs_kHz <= W!Limit(s)
        BY <1>0, <2>3, <4>2 DEF Rates
      <4>4. W!Closed(e) /\ W!Open(now)
        BY <3>2, <4>2 DEF W!Closed, W!Open
      <4>5. CASE e.fs_kHz = 8
        BY <3>2, <4>2, <4>3, <4>5
      <4>6. CASE e.fs_kHz # 8
        <5>1. e.fs_kHz > 8
          BY <1>0, <4>6 DEF Rates
        <5> QED  BY <1>6, <3>2, <4>2, <4>3, <4>4, <4>6, <5>1
      <4> QED  BY <4>5, <4>6
    <3>3. CASE /\ d.st.transition_frame_no = e.transition_frame_no
               /\ d.st.mode = e.mode /\ d.fs = e.fs_kHz
      BY <1>2, <2>4, <2>6, <3>3
    <3> QED  BY <2>2, <3>1, <3>2, <3>3
  <2> QED  BY <2>4, <2>5, <2>6
<1> QED  BY <1>3, <1>5, <1>6

(* SKP_Silk_SDK_Encode keeps BandInv and does not make the band jump.      *)
LEMMA ControlSmooth ==
  ASSUME W!BandInv, NEW s \in Setting, W!Control(s)
  PROVE  W!BandInv' /\ W!BandSmooth
<1>1. enc \in Bands /\ Placed(enc) /\ call' = <<s>>
  BY DEF W!BandInv, W!TypeOK, W!FilterDefined, W!Control, Bands, Rates, Placed, LastFrame
<1> DEFINE w   == W!Switched(enc, s)
           now == CASE enc.fs_kHz = 0          -> W!SetUp(enc, W!Initial(s))
                    [] enc.fs_kHz > W!Limit(s) -> W!SetUp(enc, W!Limit(s))
                    [] OTHER -> W!SetUp(W!Opened(w.st), w.fs)
<1>2. enc' = now \/ \E swb \in BOOLEAN : enc' = W!Detected(now, swb)
  BY DEF W!Control
<1>3. /\ now \in Bands /\ Placed(now) /\ now.fs_kHz <= W!Limit(s)
      /\ \/ enc.fs_kHz = 0
         \/ enc.fs_kHz > W!Limit(s)
         \/ now.fs_kHz = enc.fs_kHz
            /\ \/ now.mode = enc.mode /\ now.transition_frame_no = enc.transition_frame_no
               \/ W!Open(enc) /\ (W!Open(now) \/ now.transition_frame_no = 1)
               \/ enc.fs_kHz = 8
         \/ /\ ~enc.vadFlag
            /\ \/ /\ enc.fs_kHz > 8 /\ now.fs_kHz = W!Lower[enc.fs_kHz]
                  /\ W!Closed(enc) /\ W!Open(now)
               \/ /\ enc.fs_kHz < 24 /\ now.fs_kHz = W!Higher[enc.fs_kHz]
                  /\ W!Open(enc) \/ W!Closed(enc)
                  /\ W!Closed(now) /\ ~(enc.WB_detected /\ now.fs_kHz = 24)
  <2>0. enc.fs_kHz \in {0} \cup Rates /\ W!Limit(s) \in Rates
    BY <1>1, LimitType DEF Bands
  <2>1. CASE enc.fs_kHz = 0
    <3>1. ~(enc.fs_kHz > W!Limit(s))
      BY <2>0, <2>1 DEF Rates
    <3>2. now = W!SetUp(enc, W!Initial(s))
      BY <2>1, <3>1
    <3> HIDE DEF now
    <3> QED  BY <1>1, <2>1, <3>2, InitialType, SetUpMakes
  <2>2. CASE enc.fs_kHz > W!Limit(s)
    <3>1. enc.fs_kHz # 0
      BY <2>0, <2>2 DEF Rates
    <3>2. now = W!SetUp(enc, W!Limit(s))
      BY <2>2, <3>1
    <3> HIDE DEF now
    <3>3. now \in Bands /\ Placed(now) /\ now.fs_kHz = W!Limit(s)
      BY <1>1, <2>0, <3>2, SetUpMakes
    <3> QED  BY <2>0, <2>2, <3>3 DEF Rates
  <2>3. CASE enc.fs_kHz # 0 /\ ~(enc.fs_kHz > W!Limit(s))
    <3>1. now = W!SetUp(W!Opened(w.st), w.fs)
      BY <2>3
    <3>2. enc.fs_kHz <= W!Limit(s)
      BY <2>0, <2>3 DEF Rates
    <3> HIDE DEF now
    <3> QED  BY <1>1, <2>3, <3>1, <3>2, SwitchedMakes
  <2> QED  BY <2>1, <2>2, <2>3
<1> HIDE DEF now
<1>4. /\ enc' \in Bands /\ enc'.fs_kHz = now.fs_kHz /\ enc'.mode = now.mode
      /\ enc'.transition_frame_no = now.transition_frame_no
  <2>1. CASE enc' = now
    BY <1>3, <2>1
  <2>2. ASSUME NEW swb \in BOOLEAN, enc' = W!Detected(now, swb)
        PROVE  /\ enc' \in Bands /\ enc'.fs_kHz = now.fs_kHz /\ enc'.mode = now.mode
               /\ enc'.transition_frame_no = now.transition_frame_no
    <3>1. now.enoughSpeech \in BOOLEAN
      BY <1>3 DEF Bands
    <3> DEFINE wb == now.enoughSpeech /\ ~swb
    <3>2. wb \in BOOLEAN
      OBVIOUS
    <3>3. enc' = [now EXCEPT !.SWB_detected = swb, !.WB_detected = wb]
      BY <2>2 DEF W!Detected
    <3> HIDE DEF wb
    <3> QED  BY <1>3, <3>2, <3>3 DEF Bands
  <2> QED  BY <1>2, <2>1, <2>2
<1>5. W!BandInv'
  <2>1. W!TypeOK'
    BY <1>1, <1>4 DEF W!TypeOK, Bands, Rates
  <2>2. call'[1] = s
    BY <1>1
  <2>3. Placed(enc')
    BY <1>3, <1>4 DEF Placed
  <2>4. enc'.fs_kHz <= W!Limit(s)
    BY <1>3, <1>4
  <2>5. W!Limit(call[1])' = W!Limit(s)
    BY <2>2 DEF W!Limit, W!Lesser
  <2> QED  BY <2>1, <2>3, <2>4, <2>5 DEF W!BandInv, W!FilterDefined, Placed, LastFrame
<1>6. W!BandSmooth
  <2>1. W!Limit(call'[1]) = W!Limit(s) /\ call' # <<>>
    BY <1>1
  <2>2. /\ W!Open(now) => W!Open(enc')
        /\ W!Closed(now) => W!Closed(enc')
    BY <1>4 DEF W!Open, W!Closed
  <2>3. W!Open(enc)' = W!Open(enc') /\ W!Closed(enc)' = W!Closed(enc')
    BY DEF W!Open, W!Closed
  <2> SUFFICES ASSUME enc.fs_kHz # 0, ~(enc.fs_kHz > W!Limit(s))
               PROVE  W!BandSmooth
    BY <2>1 DEF W!BandSmooth
  <2>4. CASE /\ now.fs_kHz = enc.fs_kHz
             /\ \/ now.mode = enc.mode /\ now.transition_frame_no = enc.transition_frame_no
                \/ W!Open(enc) /\ (W!Open(now) \/ now.transition_frame_no = 1)
                \/ enc.fs_kHz = 8
    BY <1>4, <2>2, <2>4 DEF W!BandSmooth
  <2>5. CASE /\ ~enc.vadFlag
             /\ \/ /\ enc.fs_kHz > 8 /\ now.fs_kHz = W!Lower[enc.fs_kHz]
                   /\ W!Closed(enc) /\ W!Open(now)
                \/ /\ enc.fs_kHz < 24 /\ now.fs_kHz = W!Higher[enc.fs_kHz]
                   /\ W!Open(enc) \/ W!Closed(enc)
                   /\ W!Closed(now) /\ ~(enc.WB_detected /\ now.fs_kHz = 24)
    BY <1>4, <2>2, <2>5 DEF W!BandSmooth
  <2> QED  BY <1>3, <2>4, <2>5
<1> QED  BY <1>5, <1>6

(* So does a frame: the filter moves by one.                               *)
LEMMA BandFrameSmooth ==
  ASSUME W!BandInv, W!EncodeFrame
  PROVE  W!BandInv' /\ W!BandSmooth
<1>1. /\ enc \in Bands /\ Placed(enc) /\ call' = <<>>
      /\ TRANSITION_FRAMES_DOWN \in Nat \ {0} /\ TRANSITION_FRAMES_UP \in Nat \ {0}
      /\ enc.transition_frame_no \in Nat /\ enc.mode \in {0, 1}
  BY BandwidthAssumption
     DEF W!BandInv, W!TypeOK, W!FilterDefined, W!EncodeFrame, Bands, Rates, Placed, LastFrame
<1> DEFINE t == IF enc.transition_frame_no \in 1 .. LastFrame(enc.mode) - 1
                THEN enc.transition_frame_no + 1 ELSE enc.transition_frame_no
<1>2. PICK voice \in BOOLEAN, enough \in BOOLEAN :
        enc' = [enc EXCEPT !.vadFlag = voice,
                           !.enoughSpeech = @ \/ enough,
                           !.transition_frame_no = t]
  BY DEF W!EncodeFrame, LastFrame
<1>3. /\ t \in Nat /\ t \in 0 .. LastFrame(enc.mode)
      /\ t \in {enc.transition_frame_no, enc.transition_frame_no + 1}
  BY <1>1 DEF Placed, LastFrame
<1> HIDE DEF t
<1> DEFINE speech == enc.enoughSpeech \/ enough
<1>4. speech \in BOOLEAN
  OBVIOUS
<1>5. enc' = [enc EXCEPT !.vadFlag = voice, !.enoughSpeech = speech, !.transition_frame_no = t]
  BY <1>1, <1>2 DEF Bands
<1> HIDE DEF speech
<1>6. /\ enc' \in Bands /\ enc'.fs_kHz = enc.fs_kHz /\ enc'.mode = enc.mode
      /\ enc'.transition_frame_no = t
  BY <1>1, <1>3, <1>4, <1>5 DEF Bands
<1>7. W!BandInv'
  <2>1. W!TypeOK'
    BY <1>1, <1>6 DEF W!TypeOK, Bands, Rates
  <2> QED  BY <1>1, <1>3, <1>6, <2>1 DEF W!BandInv, W!FilterDefined, LastFrame
<1> QED  BY <1>3, <1>6, <1>7 DEF W!BandSmooth

(* BandInv in every state of a behaviour of this part.                     *)
LEMMA BandBehaviour == Spec => [](part = "bandwidth" => W!BandInv)
<1>1. Init => (part = "bandwidth" => W!BandInv)
  <2> SUFFICES ASSUME Init, part = "bandwidth" PROVE W!BandInv
    OBVIOUS
  <2>1. call = <<>> /\ W!Init
    BY DEF Init, RATES, W!Init
  <2>2. TRANSITION_FRAMES_DOWN \in Nat
    BY BandwidthAssumption
  <2>3. W!TypeOK
    BY <2>1 DEF W!TypeOK, W!Init
  <2>4. enc.mode = 0 /\ enc.transition_frame_no = 0
    BY <2>1 DEF W!Init
  <2> QED  BY <2>1, <2>2, <2>3, <2>4 DEF W!BandInv, W!FilterDefined
<1>2. (part = "bandwidth" => W!BandInv) /\ [Next]_vars => (part = "bandwidth" => W!BandInv)'
  <2> SUFFICES ASSUME part = "bandwidth" => W!BandInv, [Next]_vars, part' = "bandwidth"
               PROVE  W!BandInv'
    OBVIOUS
  <2>1. part = "bandwidth"
    BY DEF Next, vars
  <2>2. CASE Next
    <3>1. W!Next
      BY <2>1, <2>2 DEF Next, RATES
    <3> QED  BY <2>1, <3>1, ControlSmooth, BandFrameSmooth DEF W!Next
  <2>3. CASE UNCHANGED vars
    BY <2>1, <2>3 DEF vars, W!BandInv, W!TypeOK, W!FilterDefined, W!Limit, W!Lesser
  <2> QED  BY <2>2, <2>3
<1> QED  BY <1>1, <1>2, PTL DEF Spec

(* The audible band never jumps unless a call forces it, whatever rates    *)
(* and bit rates calls ask for and however long transitions are; and the   *)
(* filter always has coefficients.                                         *)
THEOREM BandNeverJumps == Spec => BandwidthSound
<1>1. /\ part = "bandwidth" => W!BandInv
      /\ [Next]_vars
      => [part = "bandwidth" => W!BandSmooth /\ W!BandInv']_vars
  <2> SUFFICES ASSUME part = "bandwidth" => W!BandInv, Next, part = "bandwidth"
               PROVE  W!BandSmooth /\ W!BandInv'
    OBVIOUS
  <2>1. W!Next
    BY DEF Next, RATES
  <2> QED  BY <2>1, ControlSmooth, BandFrameSmooth DEF W!Next
<1> QED  BY <1>1, BandBehaviour, PTL DEF Spec, BandwidthSound

-----------------------------------------------------------------------------
(* Packets (SilkPacket).                                                   *)

EncoderType ==
  [fs_kHz : Rate \cup {0}, PacketSize : 1..MAX_FRAMES_PER_PACKET,
   controlled : BOOLEAN, LBRR_enabled : BOOLEAN, useDTX : BOOLEAN,
   inputBuf : {0, 1}, nFrames : 0 .. MAX_FRAMES_PER_PACKET - 1,
   sRC : K!Coder, sRC_LBRR : K!Coder,
   LBRR_buffer : Seq([payload : Seq(K!Frame), of : Seq(K!Frame)]),
   noSpeech : Nat, inDTX : BOOLEAN, frameCounter : 0 .. Numbers - 1,
   silent : BOOLEAN, voiceLost : BOOLEAN]

CallType == [open : BOOLEAN, left : Nat, out : Seq(K!Payloads)]

DecoderType ==
  [fs_kHz : Rate \cup {0}, last : 0 .. Numbers - 1, nFramesDecoded : Nat,
   payload : Seq(K!Frame), damaged : BOOLEAN, missed : BOOLEAN, understood : BOOLEAN]

(* What the constants are.                                                 *)
LEMMA PacketBounds ==
  /\ MAX_FRAMES_PER_PACKET \in Nat /\ MAX_FRAMES_PER_PACKET >= 1
  /\ Numbers \in Nat /\ 2 * MAX_FRAMES_PER_PACKET <= Numbers
  /\ NO_SPEECH_FRAMES_BEFORE_DTX \in Nat /\ MAX_CONSECUTIVE_DTX \in Nat
  /\ MAX_FRAMES_PER_PACKET <= NO_SPEECH_FRAMES_BEFORE_DTX
  /\ PacketFrames \subseteq 1..MAX_FRAMES_PER_PACKET
BY PacketAssumption

(* The number that follows one is the next, or the first.                  *)
LEMMA FollowingIs ==
  ASSUME NEW no \in 0 .. Numbers - 1
  PROVE  /\ K!Following(no) \in 0 .. Numbers - 1
         /\ K!Following(no) = IF no + 1 = Numbers THEN 0 ELSE no + 1
<1>1. Numbers \in Nat /\ Numbers >= 2
  BY PacketBounds
<1>2. CASE no + 1 = Numbers
  <2>1. (no + 1) % Numbers = 0
    BY <1>1, <1>2
  <2> QED  BY <1>1, <1>2, <2>1 DEF K!Following
<1>3. CASE no + 1 # Numbers
  <2>1. no + 1 \in 0 .. Numbers - 1
    BY <1>1, <1>3
  <2>2. (no + 1) % Numbers = no + 1
    BY <1>1, <2>1
  <2> QED  BY <1>3, <2>1, <2>2 DEF K!Following
<1> QED  BY <1>2, <1>3

(* A packet that goes on with the frame that follows is one.               *)
LEMMA PacketGrows ==
  ASSUME NEW fr \in Seq(K!Frame), NEW f \in K!Frame, K!OnePacket(fr),
         f.first <=> fr = <<>>,
         fr # <<>> => /\ f.fs_kHz = fr[1].fs_kHz
                      /\ f.no = K!Following(fr[Len(fr)].no)
  PROVE  /\ Append(fr, f) \in Seq(K!Frame) /\ K!OnePacket(Append(fr, f))
         /\ Len(Append(fr, f)) = Len(fr) + 1
         /\ Append(fr, f)[1].fs_kHz = f.fs_kHz
         /\ K!Last(Append(fr, f)) = f
<1> DEFINE new == Append(fr, f)
<1>1. /\ new \in Seq(K!Frame) /\ Len(new) = Len(fr) + 1 /\ new[Len(fr) + 1] = f
      /\ \A i \in 1 .. Len(fr) : new[i] = fr[i]
      /\ DOMAIN new = 1 .. Len(fr) + 1 /\ DOMAIN fr = 1 .. Len(fr) /\ Len(fr) \in Nat
  OBVIOUS
<1>2. fr = <<>> <=> Len(fr) = 0
  OBVIOUS
<1> HIDE DEF new
<1>3. new[1].fs_kHz = f.fs_kHz
  <2>1. CASE Len(fr) = 0
    BY <1>1, <2>1
  <2>2. CASE Len(fr) # 0
    <3>1. 1 \in 1 .. Len(fr) /\ fr # <<>>
      BY <1>1, <1>2, <2>2
    <3> QED  BY <1>1, <3>1
  <2> QED  BY <2>1, <2>2
<1>4. ASSUME NEW i \in DOMAIN new
      PROVE  /\ new[i].first <=> i = 1
             /\ new[i].fs_kHz = new[1].fs_kHz
             /\ i > 1 => new[i].no = K!Following(new[i - 1].no)
  <2>1. CASE i = Len(fr) + 1
    <3>1. new[i] = f
      BY <1>1, <2>1
    <3>2. i = 1 <=> fr = <<>>
      BY <1>1, <1>2, <2>1
    <3>3. i > 1 => fr # <<>> /\ i - 1 = Len(fr) /\ i - 1 \in 1 .. Len(fr)
      BY <1>1, <1>2, <2>1
    <3> QED  BY <1>1, <1>3, <3>1, <3>2, <3>3
  <2>2. CASE i # Len(fr) + 1
    <3>1. i \in 1 .. Len(fr) /\ 1 \in 1 .. Len(fr) /\ fr # <<>>
      BY <1>1, <1>2, <2>2
    <3>2. new[i] = fr[i] /\ new[1] = fr[1]
      BY <1>1, <3>1
    <3>3. i > 1 => i - 1 \in 1 .. Len(fr) /\ new[i - 1] = fr[i - 1]
      BY <1>1, <3>1
    <3>4. /\ fr[i].first <=> i = 1
          /\ fr[i].fs_kHz = fr[1].fs_kHz
          /\ i > 1 => fr[i].no = K!Following(fr[i - 1].no)
      BY <1>1, <3>1 DEF K!OnePacket
    <3> QED  BY <3>2, <3>3, <3>4
  <2> QED  BY <2>1, <2>2
<1>5. K!OnePacket(new)
  BY <1>4 DEF K!OnePacket
<1>6. K!Last(new) = f
  BY <1>1 DEF K!Last
<1> QED  BY <1>1, <1>3, <1>5, <1>6 DEF new

(* No frames are a packet.                                                 *)
LEMMA PacketEmpty == K!OnePacket(<<>>)
BY DEF K!OnePacket

(* SKP_Silk_control_encoder_FIX: a new packet length or rate drops what    *)
(* does not fit it; the redundancy changes only with the control.          *)
LEMMA ControlledMakes ==
  ASSUME NEW e \in EncoderType, NEW fs \in Rate, NEW frames \in PacketFrames,
         NEW fec \in BOOLEAN, NEW dtx \in BOOLEAN
  PROVE  LET c == K!Controlled(e, fs, frames, fec, dtx)
         IN  /\ c \in EncoderType
             /\ c.nFrames = 0 \/ (c.nFrames = e.nFrames /\ c.fs_kHz = e.fs_kHz)
             /\ c.LBRR_enabled = IF e.controlled THEN e.LBRR_enabled ELSE fec
             /\ c.LBRR_buffer \in {e.LBRR_buffer, <<>>}
             /\ c.sRC = e.sRC /\ c.sRC_LBRR = e.sRC_LBRR
             /\ c.noSpeech = e.noSpeech /\ c.inDTX = e.inDTX
             /\ c.frameCounter = e.frameCounter
             /\ c.silent = e.silent /\ c.voiceLost = e.voiceLost
<1>0. frames \in 1..MAX_FRAMES_PER_PACKET /\ MAX_FRAMES_PER_PACKET \in Nat
      /\ 0 \in 0 .. MAX_FRAMES_PER_PACKET - 1
      /\ <<>> \in Seq([payload : Seq(K!Frame), of : Seq(K!Frame)])
  BY PacketBounds
<1>1. CASE e.controlled
  BY <1>1 DEF K!Controlled
<1>2. CASE ~e.controlled
  <2> DEFINE p == K!PacketSet(e, frames)
             r == K!RateSet(p, fs)
             c == K!Controlled(e, fs, frames, fec, dtx)
  <2>1. /\ p \in EncoderType /\ p.nFrames = e.nFrames /\ p.fs_kHz = e.fs_kHz
        /\ p.LBRR_buffer \in {e.LBRR_buffer, <<>>}
        /\ p.sRC = e.sRC /\ p.sRC_LBRR = e.sRC_LBRR
        /\ p.noSpeech = e.noSpeech /\ p.inDTX = e.inDTX /\ p.frameCounter = e.frameCounter
        /\ p.silent = e.silent /\ p.voiceLost = e.voiceLost
    BY <1>0 DEF K!PacketSet, EncoderType
  <2> HIDE DEF p
  <2>2. /\ r \in EncoderType
        /\ r.nFrames = 0 \/ (r.nFrames = p.nFrames /\ r.fs_kHz = p.fs_kHz)
        /\ r.LBRR_buffer \in {p.LBRR_buffer, <<>>}
        /\ r.sRC = p.sRC /\ r.sRC_LBRR = p.sRC_LBRR
        /\ r.noSpeech = p.noSpeech /\ r.inDTX = p.inDTX /\ r.frameCounter = p.frameCounter
        /\ r.silent = p.silent /\ r.voiceLost = p.voiceLost
    <3>1. CASE p.fs_kHz = fs
      BY <2>1, <3>1 DEF K!RateSet
    <3>2. CASE p.fs_kHz # fs
      <4>1. PICK zero, nothing : zero = 0 /\ nothing = <<>>
        OBVIOUS
      <4>2. r = [p EXCEPT !.fs_kHz = fs, !.inputBuf = zero, !.nFrames = zero,
                          !.LBRR_buffer = nothing]
        BY <3>2, <4>1 DEF K!RateSet
      <4>3. /\ zero \in 0 .. MAX_FRAMES_PER_PACKET - 1 /\ zero \in {0, 1}
            /\ nothing \in Seq([payload : Seq(K!Frame), of : Seq(K!Frame)])
        BY <1>0, <4>1
      <4>4. /\ r \in EncoderType /\ r.nFrames = zero /\ r.LBRR_buffer = nothing
            /\ r.sRC = p.sRC /\ r.sRC_LBRR = p.sRC_LBRR
            /\ r.noSpeech = p.noSpeech /\ r.inDTX = p.inDTX
            /\ r.frameCounter = p.frameCounter
            /\ r.silent = p.silent /\ r.voiceLost = p.voiceLost
        BY <2>1, <4>2, <4>3 DEF EncoderType
      <4> QED  BY <4>1, <4>4
    <3> QED  BY <3>1, <3>2
  <2>3. c = [r EXCEPT !.LBRR_enabled = fec, !.useDTX = dtx, !.controlled = TRUE]
    BY <1>2 DEF K!Controlled, p
  <2> HIDE DEF r, c
  <2>4. /\ c \in EncoderType /\ c.nFrames = r.nFrames /\ c.fs_kHz = r.fs_kHz
        /\ c.LBRR_enabled = fec /\ c.LBRR_buffer = r.LBRR_buffer
        /\ c.sRC = r.sRC /\ c.sRC_LBRR = r.sRC_LBRR
        /\ c.noSpeech = r.noSpeech /\ c.inDTX = r.inDTX /\ c.frameCounter = r.frameCounter
        /\ c.silent = r.silent /\ c.voiceLost = r.voiceLost
    <3>1. r \in EncoderType /\ {fec, dtx, TRUE} \subseteq BOOLEAN
      BY <2>2
    <3>2. c \in EncoderType
      BY <2>3, <3>1 DEF EncoderType
    <3>3. /\ c.nFrames = r.nFrames /\ c.fs_kHz = r.fs_kHz
          /\ c.LBRR_enabled = fec /\ c.LBRR_buffer = r.LBRR_buffer
          /\ c.sRC = r.sRC /\ c.sRC_LBRR = r.sRC_LBRR
          /\ c.noSpeech = r.noSpeech /\ c.inDTX = r.inDTX /\ c.frameCounter = r.frameCounter
          /\ c.silent = r.silent /\ c.voiceLost = r.voiceLost
      BY <2>3, <3>1 DEF EncoderType
    <3> QED  BY <3>2, <3>3
  <2> QED  BY <1>2, <2>1, <2>2, <2>4 DEF c
<1> QED  BY <1>1, <1>2

(* Speech activity: a pause is of more frames of silence than a packet has.*)
LEMMA ActivityMakes ==
  ASSUME NEW e \in EncoderType, NEW voice \in {"none", "some", "speech"},
         e.inDTX => e.noSpeech > NO_SPEECH_FRAMES_BEFORE_DTX
  PROVE  \E m \in Nat, b \in BOOLEAN :
           /\ K!Activity(e, voice) = [e EXCEPT !.noSpeech = m, !.inDTX = b]
           /\ b => voice = "none" /\ m > NO_SPEECH_FRAMES_BEFORE_DTX /\ m = e.noSpeech + 1
           /\ m > 0 => voice = "none"
           /\ m <= e.noSpeech + 1
<1>0. /\ e.noSpeech \in Nat /\ e.inDTX \in BOOLEAN
      /\ NO_SPEECH_FRAMES_BEFORE_DTX \in Nat /\ MAX_CONSECUTIVE_DTX \in Nat
  BY PacketBounds DEF EncoderType
<1>1. CASE voice # "none"
  <2>1. K!Activity(e, voice) = [e EXCEPT !.noSpeech = 0, !.inDTX = FALSE]
    BY <1>1 DEF K!Activity
  <2>2. 0 \in Nat /\ ~(0 > 0) /\ 0 <= e.noSpeech + 1
    BY <1>0
  <2> QED  BY <2>1, <2>2, Zenon
<1>2. CASE voice = "none" /\ e.noSpeech + 1 > MAX_CONSECUTIVE_DTX + NO_SPEECH_FRAMES_BEFORE_DTX
  <2>1. K!Activity(e, voice) = [e EXCEPT !.noSpeech = NO_SPEECH_FRAMES_BEFORE_DTX, !.inDTX = FALSE]
    BY <1>2 DEF K!Activity
  <2>2. NO_SPEECH_FRAMES_BEFORE_DTX <= e.noSpeech + 1
    BY <1>0, <1>2
  <2> QED  BY <1>0, <1>2, <2>1, <2>2, Zenon
<1>3. CASE voice = "none" /\ ~(e.noSpeech + 1 > MAX_CONSECUTIVE_DTX + NO_SPEECH_FRAMES_BEFORE_DTX)
  <2> DEFINE m == e.noSpeech + 1
             b == e.inDTX \/ m > NO_SPEECH_FRAMES_BEFORE_DTX
  <2>1. K!Activity(e, voice) = [e EXCEPT !.noSpeech = m, !.inDTX = b]
    BY <1>3 DEF K!Activity, EncoderType
  <2>2. m \in Nat /\ b \in BOOLEAN
    BY <1>0
  <2>3. m <= e.noSpeech + 1 /\ (b => m > NO_SPEECH_FRAMES_BEFORE_DTX)
    BY <1>0
  <2>4. m = e.noSpeech + 1
    OBVIOUS
  <2> HIDE DEF m, b
  <2> QED  BY <1>3, <2>1, <2>2, <2>3, <2>4, Zenon
<1> QED  BY <1>1, <1>2, <1>3

(* A call without samples for a frame, or refused, changes only what       *)
(* control changes.                                                        *)
LEMMA PacketCall ==
  ASSUME K!PacketInv, NEW fs \in Rate, NEW frames \in PacketFrames, NEW fec \in BOOLEAN,
         NEW dtx \in BOOLEAN, NEW halves \in 1..(2 * MAX_FRAMES_PER_PACKET),
         K!Call(fs, frames, fec, dtx, halves)
  PROVE  K!PacketInv'
<1> DEFINE c == K!Controlled(enc, fs, frames, fec, dtx)
<1>0. /\ enc \in EncoderType /\ call \in CallType /\ call = K!NOT_IN_CALL
      /\ enc' = c /\ net' = net /\ dec' = dec /\ net = <<>>
      /\ enc.nFrames > 0 /\ ~enc.controlled => fec = enc.LBRR_enabled
      /\ halves \in Nat
  BY PacketBounds DEF K!PacketInv, K!TypeOK, K!Calling, K!Call, EncoderType, CallType
<1> HIDE DEF c
<1>1. /\ enc' \in EncoderType
      /\ enc'.nFrames = 0 \/ (enc'.nFrames = enc.nFrames /\ enc'.fs_kHz = enc.fs_kHz)
      /\ enc'.LBRR_enabled = IF enc.controlled THEN enc.LBRR_enabled ELSE fec
      /\ enc'.LBRR_buffer \in {enc.LBRR_buffer, <<>>}
      /\ enc'.sRC = enc.sRC /\ enc'.sRC_LBRR = enc.sRC_LBRR
      /\ enc'.noSpeech = enc.noSpeech /\ enc'.inDTX = enc.inDTX
      /\ enc'.frameCounter = enc.frameCounter
      /\ enc'.silent = enc.silent /\ enc'.voiceLost = enc.voiceLost
  BY <1>0, ControlledMakes DEF c
<1>2. /\ enc'.inputBuf \in {0, 1} /\ enc'.PacketSize \in Nat
  BY <1>1, PacketBounds DEF EncoderType
<1>3. /\ call'.out = <<>> /\ call' \in CallType
      /\ ~call'.open => call' = K!NOT_IN_CALL
      /\ call'.open => call'.left <= 2 * enc'.PacketSize
  <2>1. CASE halves > 2 * enc'.PacketSize
    <3>1. call' = K!NOT_IN_CALL
      BY <1>0, <2>1 DEF K!Call
    <3> QED  BY <1>0, <3>1 DEF K!NOT_IN_CALL
  <2>2. CASE ~(halves > 2 * enc'.PacketSize)
    <3>1. call' = [open |-> TRUE, left |-> halves, out |-> <<>>]
      BY <2>2 DEF K!Call
    <3>2. halves <= 2 * enc'.PacketSize
      BY <1>0, <1>2, <2>2
    <3> QED  BY <1>0, <3>1, <3>2 DEF CallType
  <2> QED  BY <2>1, <2>2
<1>4. K!TypeOK'
  BY <1>0, <1>1, <1>3 DEF K!PacketInv, K!TypeOK, EncoderType, CallType
<1>5. K!Coding'
  <2> SUFFICES ASSUME enc'.nFrames > 0 PROVE K!Coding'
    BY DEF K!Coding
  <2>1. /\ enc'.nFrames = enc.nFrames /\ enc'.fs_kHz = enc.fs_kHz /\ enc.nFrames > 0
        /\ enc'.LBRR_enabled = enc.LBRR_enabled
    BY <1>0, <1>1
  <2> QED  BY <1>1, <2>1 DEF K!PacketInv, K!Coding, K!OnePacket, K!Following, K!Last
<1>6. K!Buffering'
  <2>1. CASE enc'.LBRR_buffer = enc.LBRR_buffer
    BY <2>1 DEF K!PacketInv, K!Buffering, K!OnePacket, K!Following
  <2>2. CASE enc'.LBRR_buffer = <<>>
    BY <2>2 DEF K!Buffering
  <2> QED  BY <1>1, <2>1, <2>2
<1>7. K!Calling'
  <2>1. Len(call'.out) <= 1 /\ DOMAIN call'.out = {}
    BY <1>3
  <2>2. call'.open => enc'.inputBuf + call'.left <= 2 * enc'.PacketSize + 1
    BY <1>2, <1>3 DEF CallType
  <2>3. enc'.inDTX => enc'.noSpeech > NO_SPEECH_FRAMES_BEFORE_DTX
    BY <1>1 DEF K!PacketInv, K!Calling
  <2>4. ~enc'.voiceLost
    BY <1>1 DEF K!PacketInv, K!Calling
  <2> QED  BY <1>3, <2>1, <2>2, <2>3, <2>4 DEF K!Calling, K!NOT_IN_CALL
<1>8. K!Decoding'
  BY <1>0 DEF K!PacketInv, K!Decoding, K!Good, K!OnePacket, K!Following
<1> QED  BY <1>4, <1>5, <1>6, <1>7, <1>8 DEF K!PacketInv

(* The payload of a call goes to the network, unless only silence is in it.*)
LEMMA PacketReturn == ASSUME K!PacketInv, K!Return PROVE K!PacketInv'
<1> DEFINE pause == enc.useDTX /\ enc.inDTX
           voiceLost == /\ pause /\ call.out # <<>>
                        /\ ~call.out[1].silent
                        /\ K!Following(K!Last(call.out[1].frames).no) = enc.frameCounter
           rest == enc.inputBuf + call.left
<1>0. /\ enc \in EncoderType /\ call \in CallType /\ call.open
      /\ call' = K!NOT_IN_CALL /\ dec' = dec
      /\ rest < 2 /\ rest \in Nat
      /\ enc.inputBuf \in {0, 1} /\ call.left \in Nat
  BY DEF K!PacketInv, K!TypeOK, K!Return, EncoderType, CallType
<1>1. enc' = [enc EXCEPT !.inputBuf = rest, !.voiceLost = voiceLost]
  BY <1>0 DEF K!Return, EncoderType
<1>2. voiceLost = FALSE
  <2> SUFFICES ASSUME enc.inDTX, call.out # <<>>, ~call.out[1].silent,
                      K!Following(K!Last(call.out[1].frames).no) = enc.frameCounter
               PROVE  FALSE
    OBVIOUS
  <2>1. PICK since \in 0..MAX_FRAMES_PER_PACKET : K!Since(since)
    BY DEF K!PacketInv, K!Calling
  <2>2. /\ since # 0
        /\ enc.frameCounter \in {enc.frameCounter + since, enc.frameCounter + since - Numbers}
    BY <2>1 DEF K!Since
  <2> QED  BY <1>0, <2>2, PacketBounds DEF EncoderType
<1> HIDE DEF voiceLost
<1>3. rest \in {0, 1}
  BY <1>0
<1> HIDE DEF rest
<1>4. /\ enc' \in EncoderType /\ enc'.nFrames = enc.nFrames /\ enc'.fs_kHz = enc.fs_kHz
      /\ enc'.LBRR_enabled = enc.LBRR_enabled /\ enc'.LBRR_buffer = enc.LBRR_buffer
      /\ enc'.sRC = enc.sRC /\ enc'.sRC_LBRR = enc.sRC_LBRR
      /\ enc'.noSpeech = enc.noSpeech /\ enc'.inDTX = enc.inDTX
      /\ enc'.frameCounter = enc.frameCounter
      /\ enc'.silent = enc.silent /\ enc'.voiceLost = FALSE
  BY <1>0, <1>1, <1>2, <1>3 DEF EncoderType
<1>5. net' \in Seq(K!Payloads) /\ \A k \in DOMAIN net' : K!Good(net'[k])
  <2>1. CASE net' = <<>>
    BY <2>1
  <2>2. CASE call.out # <<>> /\ net' = <<[call.out[1] EXCEPT !.silent = TRUE]>>
    <3>1. call.out[1] \in K!Payloads /\ K!Good(call.out[1])
      BY <1>0, <2>2 DEF K!PacketInv, K!Calling, CallType
    <3> DEFINE p == [call.out[1] EXCEPT !.silent = TRUE]
    <3>2. /\ p \in K!Payloads /\ p.frames = call.out[1].frames
          /\ p.lbrr = call.out[1].lbrr /\ p.before = call.out[1].before
      BY <3>1 DEF K!Payloads
    <3>3. net' = <<p>>
      BY <2>2
    <3> HIDE DEF p
    <3>4. K!Good(p)
      BY <3>1, <3>2 DEF K!Good
    <3> QED  BY <3>2, <3>3, <3>4
  <2> QED  BY <2>1, <2>2 DEF K!Return
<1>6. K!TypeOK'
  BY <1>0, <1>4, <1>5 DEF K!PacketInv, K!TypeOK, EncoderType, CallType, K!NOT_IN_CALL
<1>7. K!Coding'
  BY <1>4 DEF K!PacketInv, K!Coding, K!OnePacket, K!Following, K!Last
<1>8. K!Buffering'
  BY <1>4 DEF K!PacketInv, K!Buffering, K!OnePacket, K!Following
<1>9. K!Calling'
  <2>1. call'.out = <<>> /\ ~call'.open
    BY <1>0 DEF K!NOT_IN_CALL
  <2>2. Len(call'.out) <= 1 /\ DOMAIN call'.out = {}
    BY <2>1
  <2> QED  BY <1>0, <1>4, <2>1, <2>2 DEF K!PacketInv, K!Calling, K!NOT_IN_CALL
<1>10. K!Decoding'
  BY <1>0, <1>5 DEF K!PacketInv, K!Decoding, K!Good, K!OnePacket, K!Following
<1> QED  BY <1>6, <1>7, <1>8, <1>9, <1>10 DEF K!PacketInv

(* What the decoder and its application do leaves the encoder alone.       *)
LEMMA PacketSent ==
  ASSUME K!PacketInv, UNCHANGED <<enc, call>>, net' \in {net, <<>>},
         dec' \in DecoderType,
         K!OnePacket(dec'.payload),
         dec'.payload = <<>> => dec'.nFramesDecoded = 0 /\ ~dec'.damaged,
         dec'.payload # <<>> /\ ~dec'.damaged =>
           /\ dec'.nFramesDecoded < Len(dec'.payload)
           /\ dec'.nFramesDecoded > 0 => /\ dec'.last = dec'.payload[dec'.nFramesDecoded].no
                                         /\ dec'.fs_kHz = dec'.payload[1].fs_kHz,
         dec'.understood
  PROVE  K!PacketInv'
<1>1. net' \in Seq(K!Payloads) /\ \A k \in DOMAIN net' : K!Good(net'[k])
  <2>1. CASE net' = net
    BY <2>1 DEF K!PacketInv, K!TypeOK, K!Decoding
  <2>2. CASE net' = <<>>
    <3>1. <<>> \in Seq(K!Payloads) /\ \A k \in DOMAIN <<>> : K!Good(net'[k])
      OBVIOUS
    <3> QED  BY <2>2, <3>1
  <2> QED  BY <2>1, <2>2
<1>2. K!TypeOK'
  BY <1>1 DEF K!PacketInv, K!TypeOK, DecoderType
<1>3. K!Coding'
  BY DEF K!PacketInv, K!Coding, K!OnePacket, K!Following, K!Last
<1>4. K!Buffering'
  BY DEF K!PacketInv, K!Buffering, K!OnePacket, K!Following
<1>5. K!Calling'
  <2>1. K!Calling
    BY DEF K!PacketInv
  <2> QED  BY <2>1 DEF K!Calling, K!Since, K!Good, K!OnePacket
<1>6. K!Decoding'
  BY <1>1 DEF K!Decoding, K!Good, K!OnePacket, K!Following
<1> QED  BY <1>2, <1>3, <1>4, <1>5, <1>6 DEF K!PacketInv

(* A payload is lost, searched for a second coding, or received.           *)
LEMMA PacketArrives ==
  ASSUME K!PacketInv, K!Lose \/ K!Search \/ K!Receive PROVE K!PacketInv'
<1>0. /\ dec \in DecoderType /\ dec.payload = <<>> /\ net # <<>>
      /\ UNCHANGED <<enc, call>> /\ net' \in {net, <<>>}
      /\ dec.nFramesDecoded = 0 /\ ~dec.damaged /\ dec.understood
  BY DEF K!PacketInv, K!TypeOK, K!Decoding, K!Lose, K!Search, K!Receive, K!Idle, DecoderType
<1>1. /\ net[1] \in K!Payloads /\ K!Good(net[1])
  BY <1>0 DEF K!PacketInv, K!TypeOK, K!Decoding
<1>2. /\ net[1].frames \in Seq(K!Frame) /\ net[1].lbrr \in Seq(K!Frame)
      /\ net[1].frames # <<>> /\ K!OnePacket(net[1].frames) /\ K!OnePacket(net[1].lbrr)
  BY <1>1 DEF K!Payloads, K!Good
<1>3. CASE K!Lose
  <2>1. /\ dec' \in DecoderType /\ dec'.payload = <<>> /\ dec'.nFramesDecoded = 0
        /\ ~dec'.damaged /\ dec'.understood
    BY <1>0, <1>3 DEF K!Lose, DecoderType
  <2> QED  BY <1>0, <2>1, PacketEmpty, PacketSent
<1>4. CASE K!Search
  <2>1. /\ dec' \in DecoderType /\ dec'.payload = net[1].lbrr /\ dec'.nFramesDecoded = 0
        /\ dec'.damaged = FALSE /\ dec'.understood
    BY <1>0, <1>2, <1>4 DEF K!Search, DecoderType
  <2>2. dec'.payload # <<>> => dec'.nFramesDecoded < Len(dec'.payload)
    BY <1>2, <2>1
  <2> QED  BY <1>0, <1>2, <2>1, <2>2, PacketSent
<1>5. CASE K!Receive
  <2>1. PICK damaged \in BOOLEAN :
          dec' = [dec EXCEPT !.missed = FALSE, !.damaged = damaged,
                             !.payload = net[1].frames]
    BY <1>5 DEF K!Receive
  <2>2. /\ dec' \in DecoderType /\ dec'.payload = net[1].frames /\ dec'.nFramesDecoded = 0
        /\ dec'.understood
    BY <1>0, <1>2, <2>1 DEF DecoderType
  <2>3. dec'.nFramesDecoded < Len(dec'.payload)
    BY <1>2, <2>2
  <2> QED  BY <1>0, <1>2, <2>2, <2>3, PacketSent
<1> QED  BY <1>3, <1>4, <1>5

(* A frame of a good payload is decoded in the context it was coded in.    *)
LEMMA PacketDecoded == ASSUME K!PacketInv, K!DecodeFrame PROVE K!PacketInv'
<1> DEFINE i    == dec.nFramesDecoded
           f    == dec.payload[i + 1]
           fs   == IF i = 0 THEN f.fs_kHz ELSE dec.fs_kHz
           more == i + 1 < Len(dec.payload) /\ i + 1 < MAX_FRAMES_PER_PACKET
           understood == /\ f.first <=> i = 0
                         /\ f.first \/ f.no = K!Following(dec.last)
                         /\ f.fs_kHz = fs
           n    == IF more THEN i + 1 ELSE 0
           last == IF more THEN f.no ELSE 0
           left == IF more THEN dec.payload ELSE <<>>
<1>0. /\ dec \in DecoderType /\ dec.payload # <<>> /\ ~dec.damaged
      /\ dec.payload \in Seq(K!Frame) /\ i \in Nat /\ i < Len(dec.payload)
      /\ i > 0 => dec.last = dec.payload[i].no /\ dec.fs_kHz = dec.payload[1].fs_kHz
      /\ K!OnePacket(dec.payload) /\ Len(dec.payload) \in Nat
      /\ UNCHANGED <<enc, call, net>>
      /\ Numbers >= 1
  BY SMTT(60), PacketBounds DEF K!PacketInv, K!TypeOK, K!Decoding, K!DecodeFrame, DecoderType
<1>1. dec' = [dec EXCEPT !.fs_kHz = fs, !.nFramesDecoded = n, !.last = last,
                         !.payload = left, !.understood = understood]
  BY <1>0 DEF K!DecodeFrame, DecoderType
<1>2. i + 1 \in DOMAIN dec.payload /\ f \in K!Frame
  BY <1>0
<1>3. /\ f.first <=> i = 0
      /\ f.fs_kHz = dec.payload[1].fs_kHz
      /\ i > 0 => f.no = K!Following(dec.payload[i].no)
  <2>1. /\ f.first <=> i + 1 = 1
        /\ f.fs_kHz = dec.payload[1].fs_kHz
        /\ i + 1 > 1 => f.no = K!Following(dec.payload[(i + 1) - 1].no)
    BY <1>0, <1>2 DEF K!OnePacket
  <2>2. (i + 1) - 1 = i /\ (i + 1 = 1 <=> i = 0) /\ (i + 1 > 1 <=> i > 0)
    BY <1>0
  <2> QED  BY <2>1, <2>2
<1>4. understood = TRUE
  <2>1. f.first <=> i = 0
    BY <1>3
  <2>2. f.first \/ f.no = K!Following(dec.last)
    <3>1. CASE i = 0
      BY <1>3, <3>1
    <3>2. CASE i # 0
      <4>1. i > 0
        BY <1>0, <3>2
      <4> QED  BY <1>0, <1>3, <4>1
    <3> QED  BY <3>1, <3>2
  <2>3. f.fs_kHz = fs
    <3>1. CASE i = 0
      BY <3>1
    <3>2. CASE i # 0
      <4>1. i > 0
        BY <1>0, <3>2
      <4> QED  BY <1>0, <1>3, <3>2, <4>1
    <3> QED  BY <3>1, <3>2
  <2> QED  BY <2>1, <2>2, <2>3
<1>5. /\ f.fs_kHz \in Rate \cup {0} /\ f.no \in 0 .. Numbers - 1
      /\ fs \in Rate \cup {0} /\ fs = dec.payload[1].fs_kHz
  <2>1. f.fs_kHz \in Rate \cup {0} /\ f.no \in 0 .. Numbers - 1
    BY <1>2 DEF K!Frame
  <2>2. f.fs_kHz = fs
    BY <1>4
  <2> QED  BY <1>3, <2>1, <2>2
<1>6. /\ n \in Nat /\ last \in 0 .. Numbers - 1 /\ left \in Seq(K!Frame)
      /\ left = <<>> => n = 0
      /\ left # <<>> => /\ left = dec.payload /\ n = i + 1 /\ n < Len(left)
                        /\ last = f.no
  <2>1. 0 \in 0 .. Numbers - 1
    BY <1>0, PacketBounds
  <2>2. CASE more
    BY <1>0, <1>5, <2>2
  <2>3. CASE ~more
    BY <2>1, <2>3, PacketBounds
  <2> QED  BY <2>2, <2>3
<1> HIDE DEF understood, fs, n, last, left
<1>7. /\ dec' \in DecoderType /\ dec'.fs_kHz = fs /\ dec'.nFramesDecoded = n
      /\ dec'.last = last /\ dec'.payload = left /\ dec'.understood = TRUE
      /\ dec'.damaged = dec.damaged
  BY <1>0, <1>1, <1>4, <1>5, <1>6 DEF DecoderType
<1>8. K!OnePacket(dec'.payload)
  BY <1>0, <1>6, <1>7, PacketEmpty
<1>9. dec'.payload # <<>> =>
        /\ dec'.nFramesDecoded < Len(dec'.payload)
        /\ dec'.last = dec'.payload[dec'.nFramesDecoded].no
        /\ dec'.fs_kHz = dec'.payload[1].fs_kHz
  BY <1>5, <1>6, <1>7
<1> HIDE DEF f, i
<1> QED  BY <1>0, <1>6, <1>7, <1>8, <1>9, PacketSent

(* A damaged one says nothing, and is gone when the decoder is through.    *)
LEMMA PacketSpoilt == ASSUME K!PacketInv, K!DecodeDamaged PROVE K!PacketInv'
<1>0. /\ dec \in DecoderType /\ dec.payload # <<>> /\ dec.damaged
      /\ dec.payload \in Seq(K!Frame) /\ K!OnePacket(dec.payload)
      /\ UNCHANGED <<enc, call, net>> /\ dec.understood /\ dec.nFramesDecoded \in Nat
  BY DEF K!PacketInv, K!TypeOK, K!Decoding, K!DecodeDamaged, DecoderType
<1>1. CASE dec' = [dec EXCEPT !.damaged = FALSE, !.nFramesDecoded = 0, !.payload = <<>>]
  <2>0. PICK zero, none : zero = 0 /\ none = <<>>
    OBVIOUS
  <2>1. zero \in Nat /\ none \in Seq(K!Frame) /\ zero = 0 /\ none = <<>>
    BY <2>0
  <2>2. dec' = [dec EXCEPT !.damaged = FALSE, !.nFramesDecoded = zero, !.payload = none]
    BY <1>1, <2>0
  <2>3. /\ dec' \in DecoderType /\ dec'.payload = none /\ dec'.nFramesDecoded = zero
        /\ dec'.damaged = FALSE /\ dec'.understood
    BY <1>0, <2>1, <2>2 DEF DecoderType
  <2> QED  BY <1>0, <2>1, <2>3, PacketEmpty, PacketSent
<1>2. ASSUME NEW fs \in Rate, NEW more \in BOOLEAN,
             dec' = [dec EXCEPT
                       !.fs_kHz = fs,
                       !.damaged        = more,
                       !.nFramesDecoded = IF more THEN @ + 1 ELSE 0,
                       !.payload        = IF more THEN @ ELSE <<>>]
      PROVE  K!PacketInv'
  <2> DEFINE n    == IF more THEN dec.nFramesDecoded + 1 ELSE 0
             left == IF more THEN dec.payload ELSE <<>>
  <2>1. dec' = [dec EXCEPT !.fs_kHz = fs, !.damaged = more, !.nFramesDecoded = n,
                           !.payload = left]
    BY <1>0, <1>2 DEF DecoderType
  <2>2. /\ n \in Nat /\ left \in Seq(K!Frame) /\ K!OnePacket(left)
        /\ left = <<>> => n = 0 /\ ~more
        /\ left # <<>> => more
    BY <1>0, PacketEmpty
  <2> HIDE DEF n, left
  <2>3. /\ dec' \in DecoderType /\ dec'.payload = left /\ dec'.nFramesDecoded = n
        /\ dec'.damaged = more /\ dec'.understood
    BY <1>0, <2>1, <2>2 DEF DecoderType
  <2> QED  BY <1>0, <2>2, <2>3, PacketSent
<1> QED  BY <1>1, <1>2 DEF K!DecodeDamaged

(* A coder that has not failed has taken the frame.                        *)
LEMMA CodedMakes ==
  ASSUME NEW rc \in K!Coder, NEW f \in K!Frame, NEW full \in BOOLEAN
  PROVE  /\ K!Coded(rc, f, full) \in K!Coder
         /\ ~K!Coded(rc, f, full).error =>
              ~rc.error /\ K!Coded(rc, f, full).frames = Append(rc.frames, f)
<1>1. rc.frames \in Seq(K!Frame) /\ Append(rc.frames, f) \in Seq(K!Frame)
  BY DEF K!Coder
<1> DEFINE fr == Append(rc.frames, f)
<1>2. K!Coded(rc, f, full) = IF rc.error \/ full THEN [rc EXCEPT !.error = TRUE]
                             ELSE [rc EXCEPT !.frames = fr]
  BY DEF K!Coded, K!Coder
<1> HIDE DEF fr
<1>3. fr \in Seq(K!Frame) /\ fr = Append(rc.frames, f)
  BY <1>1 DEF fr
<1> QED  BY <1>2, <1>3 DEF K!Coder

(* What the frame under way is, and what the two coders are after it.      *)
LEMMA FrameCoded ==
  ASSUME K!PacketInv, NEW full \in BOOLEAN, NEW fullLBRR \in BOOLEAN
  PROVE  LET f     == [no |-> enc.frameCounter, first |-> enc.nFrames = 0,
                       fs_kHz |-> enc.fs_kHz]
             lbrr  == K!LBRRCoder(f, fullLBRR)
             coder == K!Coded(K!Continued(enc.sRC), f, full)
         IN  /\ lbrr \in K!Coder /\ coder \in K!Coder
             /\ ~coder.error =>
                  /\ Len(coder.frames) = enc.nFrames + 1 /\ K!OnePacket(coder.frames)
                  /\ coder.frames # <<>>
                  /\ coder.frames[1].fs_kHz = enc.fs_kHz
                  /\ K!Last(coder.frames).no = enc.frameCounter
             /\ ~coder.error /\ enc.LBRR_enabled =>
                  lbrr.error \/ lbrr.frames = coder.frames
<1> DEFINE f     == [no |-> enc.frameCounter, first |-> enc.nFrames = 0,
                     fs_kHz |-> enc.fs_kHz]
           lbrr  == K!LBRRCoder(f, fullLBRR)
           coder == K!Coded(K!Continued(enc.sRC), f, full)
           c0    == K!Continued(enc.sRC)
           d0    == K!Continued(enc.sRC_LBRR)
<1>1. enc \in EncoderType /\ enc.nFrames \in Nat
  BY PacketBounds DEF K!PacketInv, K!TypeOK, EncoderType
<1>2. /\ f \in K!Frame /\ f.no = enc.frameCounter /\ f.fs_kHz = enc.fs_kHz
      /\ f.first <=> enc.nFrames = 0
  BY <1>1 DEF K!Frame, EncoderType
<1>3. /\ c0 \in K!Coder /\ d0 \in K!Coder
      /\ Len(c0.frames) = enc.nFrames /\ K!OnePacket(c0.frames) /\ ~c0.error
      /\ c0.frames # <<>> => /\ f.fs_kHz = c0.frames[1].fs_kHz
                             /\ f.no = K!Following(c0.frames[Len(c0.frames)].no)
      /\ enc.LBRR_enabled => d0.error \/ d0.frames = c0.frames
  <2>1. CASE enc.nFrames = 0
    <3>1. c0 = K!Empty /\ d0 = K!Empty
      BY <2>1 DEF K!Continued
    <3>2. /\ K!Empty \in K!Coder /\ K!Empty.frames = <<>> /\ ~K!Empty.error
      BY DEF K!Empty, K!Coder
    <3>3. Len(c0.frames) = enc.nFrames
      BY <2>1, <3>1, <3>2
    <3> HIDE DEF c0, d0
    <3> QED  BY <3>1, <3>2, <3>3, PacketEmpty
  <2>2. CASE enc.nFrames # 0
    <3>1. c0 = enc.sRC /\ d0 = enc.sRC_LBRR /\ enc.nFrames > 0
      BY <1>1, <2>2 DEF K!Continued
    <3>2. K!Last(c0.frames) = c0.frames[Len(c0.frames)]
      BY DEF K!Last
    <3>3. /\ Len(c0.frames) = enc.nFrames /\ K!OnePacket(c0.frames) /\ ~c0.error
          /\ c0.frames[1].fs_kHz = enc.fs_kHz
          /\ K!Following(K!Last(c0.frames).no) = enc.frameCounter
          /\ enc.LBRR_enabled => d0.error \/ d0.frames = c0.frames
      BY <3>1 DEF K!PacketInv, K!Coding
    <3>4. c0 \in K!Coder /\ d0 \in K!Coder
      BY <1>1, <3>1 DEF EncoderType
    <3> HIDE DEF c0, d0, f
    <3> QED  BY <1>2, <3>2, <3>3, <3>4
  <2> QED  BY <2>1, <2>2
<1>4. c0.frames \in Seq(K!Frame) /\ (f.first <=> c0.frames = <<>>)
  <2>1. c0.frames \in Seq(K!Frame)
    BY <1>3 DEF K!Coder
  <2>2. c0.frames = <<>> <=> Len(c0.frames) = 0
    BY <2>1
  <2> QED  BY <1>2, <1>3, <2>1, <2>2
<1> HIDE DEF f, c0, d0
<1>5. LET fr == Append(c0.frames, f)
      IN  /\ fr \in Seq(K!Frame) /\ K!OnePacket(fr) /\ Len(fr) = enc.nFrames + 1
          /\ fr[1].fs_kHz = enc.fs_kHz /\ K!Last(fr) = f
  BY <1>2, <1>3, <1>4, PacketGrows
<1>6. coder \in K!Coder /\ (~coder.error => coder.frames = Append(c0.frames, f))
  BY <1>2, <1>3, CodedMakes DEF c0
<1>7. /\ lbrr \in K!Coder
      /\ enc.LBRR_enabled => lbrr.error \/ lbrr.frames = Append(c0.frames, f)
  <2>1. CASE enc.LBRR_enabled
    <3>1. lbrr = K!Coded(d0, f, fullLBRR)
      BY <2>1 DEF K!LBRRCoder, d0
    <3> HIDE DEF lbrr
    <3>2. lbrr \in K!Coder /\ (~lbrr.error => ~d0.error /\ lbrr.frames = Append(d0.frames, f))
      BY <1>2, <1>3, <3>1, CodedMakes
    <3> QED  BY <1>3, <2>1, <3>2
  <2>2. CASE ~enc.LBRR_enabled
    BY <1>1, <2>2 DEF K!LBRRCoder, EncoderType
  <2> QED  BY <2>1, <2>2
<1> HIDE DEF coder, lbrr
<1>8. ~coder.error => coder.frames # <<>>
  <2>1. Append(c0.frames, f) # <<>>
    <3>1. Len(Append(c0.frames, f)) # Len(<<>>)
      BY <1>1, <1>5
    <3> QED  BY <3>1, Zenon
  <2> QED  BY <1>6, <2>1
<1>9. ~coder.error =>
        /\ Len(coder.frames) = enc.nFrames + 1 /\ K!OnePacket(coder.frames)
        /\ coder.frames[1].fs_kHz = enc.fs_kHz
        /\ K!Last(coder.frames).no = enc.frameCounter
  BY <1>2, <1>5, <1>6
<1>10. ~coder.error /\ enc.LBRR_enabled => lbrr.error \/ lbrr.frames = coder.frames
  BY <1>6, <1>7
<1> QED  BY <1>6, <1>7, <1>8, <1>9, <1>10 DEF coder, lbrr, f

(* A frame is encoded: it goes on with the packet, ends it, or is lost.    *)
LEMMA PacketEncoded == ASSUME K!PacketInv, K!EncodeFrame PROVE K!PacketInv'
<1>0. /\ enc \in EncoderType /\ call \in CallType /\ call.open
      /\ enc.inputBuf + call.left >= 2 /\ net' = net /\ dec' = dec
      /\ enc.inputBuf \in {0, 1} /\ call.left \in Nat /\ call.out \in Seq(K!Payloads)
      /\ enc.nFrames \in 0 .. MAX_FRAMES_PER_PACKET - 1
      /\ enc.PacketSize \in 1..MAX_FRAMES_PER_PACKET /\ enc.noSpeech \in Nat
      /\ enc.frameCounter \in 0 .. Numbers - 1
      /\ enc.inDTX => enc.noSpeech > NO_SPEECH_FRAMES_BEFORE_DTX
      /\ Len(call.out) <= 1 /\ ~enc.voiceLost
  BY PacketBounds DEF K!PacketInv, K!TypeOK, K!Calling, K!EncodeFrame, EncoderType, CallType
<1>b. /\ MAX_FRAMES_PER_PACKET \in Nat /\ Numbers \in Nat
      /\ 2 * MAX_FRAMES_PER_PACKET <= Numbers /\ NO_SPEECH_FRAMES_BEFORE_DTX \in Nat
      /\ MAX_FRAMES_PER_PACKET <= NO_SPEECH_FRAMES_BEFORE_DTX
  BY PacketBounds
<1>1. PICK voice \in {"none", "some", "speech"}, full \in BOOLEAN, fullLBRR \in BOOLEAN,
           fits \in BOOLEAN, room \in BOOLEAN :
        K!FrameEncoded(voice, full, fullLBRR, fits, room)
  BY DEF K!EncodeFrame
<1> DEFINE f  == [no |-> enc.frameCounter, first |-> enc.nFrames = 0, fs_kHz |-> enc.fs_kHz]
           lb == K!LBRRCoder(f, fullLBRR)
           cd == K!Coded(K!Continued(enc.sRC), f, full)
           nn == IF cd.error THEN 0 ELSE enc.nFrames + 1
           ends   == nn >= enc.PacketSize
           goesOn == nn > 0 /\ ~ends
           silent == voice = "none" /\ (enc.nFrames = 0 \/ enc.silent)
           g  == IF goesOn THEN nn ELSE 0
           sc == IF goesOn THEN cd ELSE K!Empty
           sl == IF goesOn THEN lb ELSE K!Empty
           quiet == goesOn => silent
           no == K!Following(enc.frameCounter)
           zero == 0
           rest == call.left - (2 - enc.inputBuf)
           kept == K!Kept(lb, cd, voice)
           p    == K!Payload(cd, room, silent)
           a    == K!Activity(enc, voice)
           nx   == [a EXCEPT !.frameCounter = no, !.inputBuf = zero, !.controlled = FALSE,
                             !.nFrames = g, !.sRC = sc, !.sRC_LBRR = sl, !.silent = quiet]
           out  == IF ends /\ fits THEN Append(call.out, p) ELSE call.out
<1>e. /\ enc' = IF ends /\ fits THEN [nx EXCEPT !.LBRR_buffer = kept] ELSE nx
      /\ call' = [call EXCEPT !.left = rest, !.out = out]
  BY <1>0, <1>1 DEF K!FrameEncoded, CallType
<1>2. /\ lb \in K!Coder /\ cd \in K!Coder
      /\ ~cd.error =>
           /\ Len(cd.frames) = enc.nFrames + 1 /\ K!OnePacket(cd.frames) /\ cd.frames # <<>>
           /\ cd.frames[1].fs_kHz = enc.fs_kHz
           /\ K!Last(cd.frames).no = enc.frameCounter
      /\ ~cd.error /\ enc.LBRR_enabled => lb.error \/ lb.frames = cd.frames
  BY FrameCoded
<1>3. PICK m \in Nat, b \in BOOLEAN :
        /\ a = [enc EXCEPT !.noSpeech = m, !.inDTX = b]
        /\ b => voice = "none" /\ m > NO_SPEECH_FRAMES_BEFORE_DTX /\ m = enc.noSpeech + 1
        /\ m > 0 => voice = "none"
        /\ m <= enc.noSpeech + 1
  BY <1>0, ActivityMakes
<1>4. /\ K!Empty \in K!Coder
      /\ no \in 0 .. Numbers - 1
      /\ no = IF enc.frameCounter + 1 = Numbers THEN 0 ELSE enc.frameCounter + 1
      /\ rest \in Nat /\ rest + 2 = enc.inputBuf + call.left
  <2>1. K!Empty \in K!Coder
    BY DEF K!Empty, K!Coder
  <2>2. rest \in Nat /\ rest + 2 = enc.inputBuf + call.left
    BY <1>0
  <2> QED  BY <1>0, <2>1, <2>2, FollowingIs
<1> HIDE DEF lb, cd, a
<1>5. /\ g \in 0 .. MAX_FRAMES_PER_PACKET - 1
      /\ ends => g = 0 /\ ~cd.error /\ enc.nFrames + 1 >= enc.PacketSize
      /\ g > 0 => /\ g = enc.nFrames + 1 /\ ~cd.error /\ sc = cd /\ sl = lb
                  /\ quiet <=> silent
                  /\ g < enc.PacketSize
      /\ g = 0 \/ g = enc.nFrames + 1
  BY <1>0, <1>b
<1>6. sc \in K!Coder /\ sl \in K!Coder /\ quiet \in BOOLEAN
  BY <1>2, <1>4
<1>8. /\ a \in EncoderType /\ a.noSpeech = m /\ a.inDTX = b
      /\ a.fs_kHz = enc.fs_kHz /\ a.PacketSize = enc.PacketSize
      /\ a.LBRR_enabled = enc.LBRR_enabled /\ a.LBRR_buffer = enc.LBRR_buffer
      /\ a.voiceLost = enc.voiceLost
  BY <1>0, <1>3 DEF EncoderType
<1>9. zero \in {0, 1} /\ zero = 0
  OBVIOUS
<1> HIDE DEF g, sc, sl, quiet, no, zero, kept, p, rest, out
<1>10. /\ nx \in EncoderType /\ nx.noSpeech = m /\ nx.inDTX = b
       /\ nx.fs_kHz = enc.fs_kHz /\ nx.PacketSize = enc.PacketSize
       /\ nx.LBRR_enabled = enc.LBRR_enabled /\ nx.LBRR_buffer = enc.LBRR_buffer
       /\ nx.voiceLost = enc.voiceLost /\ nx.frameCounter = no /\ nx.inputBuf = zero
       /\ nx.nFrames = g /\ nx.sRC = sc /\ nx.sRC_LBRR = sl /\ nx.silent = quiet
  <2>1. /\ a \in EncoderType /\ no \in 0 .. Numbers - 1 /\ zero \in {0, 1}
        /\ g \in 0 .. MAX_FRAMES_PER_PACKET - 1
        /\ sc \in K!Coder /\ sl \in K!Coder /\ quiet \in BOOLEAN
    BY <1>4, <1>5, <1>6, <1>8, <1>9
  <2>2. nx \in EncoderType
    BY <2>1 DEF EncoderType
  <2>3. /\ nx.noSpeech = a.noSpeech /\ nx.inDTX = a.inDTX
        /\ nx.fs_kHz = a.fs_kHz /\ nx.PacketSize = a.PacketSize
        /\ nx.LBRR_enabled = a.LBRR_enabled /\ nx.LBRR_buffer = a.LBRR_buffer
        /\ nx.voiceLost = a.voiceLost /\ nx.frameCounter = no /\ nx.inputBuf = zero
        /\ nx.nFrames = g /\ nx.sRC = sc /\ nx.sRC_LBRR = sl /\ nx.silent = quiet
    BY <2>1 DEF EncoderType
  <2> HIDE DEF nx
  <2> QED  BY <1>8, <2>2, <2>3
<1> HIDE DEF nx
<1>11. /\ kept \in Seq([payload : Seq(K!Frame), of : Seq(K!Frame)])
       /\ ends => \A k \in DOMAIN kept : /\ kept[k].payload \in {<<>>, kept[k].of}
                                         /\ K!OnePacket(kept[k].payload)
  <2> DEFINE pl == K!LBRRPayload(lb)
  <2>1. /\ pl \in Seq(K!Frame) /\ cd.frames \in Seq(K!Frame)
        /\ ends => pl \in {<<>>, cd.frames} /\ K!OnePacket(pl)
    <3>1. lb.frames \in Seq(K!Frame) /\ cd.frames \in Seq(K!Frame)
      BY <1>2 DEF K!Coder
    <3>2. CASE enc.LBRR_enabled /\ ~lb.error /\ enc.nFrames + 1 >= enc.PacketSize
      <4>1. pl = lb.frames
        BY <3>2 DEF K!LBRRPayload
      <4> HIDE DEF pl, ends
      <4>2. ends => pl = cd.frames /\ K!OnePacket(cd.frames)
        BY <1>2, <1>5, <3>2, <4>1
      <4> QED  BY <3>1, <4>1, <4>2
    <3>3. CASE ~(enc.LBRR_enabled /\ ~lb.error /\ enc.nFrames + 1 >= enc.PacketSize)
      <4>1. pl = <<>>
        BY <3>3 DEF K!LBRRPayload
      <4> HIDE DEF pl, ends
      <4> QED  BY <3>1, <4>1, PacketEmpty
    <3> QED  BY <3>2, <3>3
  <2>2. CASE enc.LBRR_enabled /\ voice = "speech"
    <3> DEFINE q == [payload |-> pl, of |-> cd.frames]
    <3>1. kept = <<q>>
      BY <2>2 DEF K!Kept, kept
    <3> HIDE DEF pl, ends
    <3>2. q \in [payload : Seq(K!Frame), of : Seq(K!Frame)] /\ q.payload = pl /\ q.of = cd.frames
      BY <2>1
    <3> HIDE DEF q
    <3> QED  BY <2>1, <3>1, <3>2
  <2>3. CASE ~(enc.LBRR_enabled /\ voice = "speech")
    <3>1. kept = <<>>
      BY <2>3 DEF K!Kept, kept
    <3> QED  BY <3>1
  <2> QED  BY <2>2, <2>3
<1>12. /\ enc' \in EncoderType /\ enc'.noSpeech = m /\ enc'.inDTX = b
       /\ enc'.fs_kHz = enc.fs_kHz /\ enc'.PacketSize = enc.PacketSize
       /\ enc'.LBRR_enabled = enc.LBRR_enabled
       /\ enc'.LBRR_buffer = enc.LBRR_buffer \/ (ends /\ enc'.LBRR_buffer = kept)
       /\ enc'.voiceLost = enc.voiceLost /\ enc'.frameCounter = no /\ enc'.inputBuf = 0
       /\ enc'.nFrames = g /\ enc'.sRC = sc /\ enc'.sRC_LBRR = sl /\ enc'.silent = quiet
  <2>1. CASE ends /\ fits
    <3>1. enc' = [nx EXCEPT !.LBRR_buffer = kept]
      BY <1>e, <2>1
    <3> HIDE DEF ends
    <3> QED  BY <1>9, <1>10, <1>11, <2>1, <3>1 DEF EncoderType
  <2>2. CASE ~(ends /\ fits)
    <3>1. enc' = nx
      BY <1>e, <2>2
    <3> HIDE DEF ends
    <3> QED  BY <1>9, <1>10, <3>1
  <2> QED  BY <2>1, <2>2
<1>13. /\ p \in K!Payloads
       /\ ends => K!Good(p) /\ p.frames = cd.frames /\ p.silent = silent
  <2> DEFINE added == enc.LBRR_buffer # <<>> /\ room
             r == IF added THEN enc.LBRR_buffer[1].payload ELSE <<>>
             o == IF added THEN enc.LBRR_buffer[1].of ELSE <<>>
             s == silent
  <2>1. p = [frames |-> cd.frames, lbrr |-> r, before |-> o, silent |-> s]
    BY DEF K!Payload, p
  <2>2. /\ r \in Seq(K!Frame) /\ o \in Seq(K!Frame) /\ r \in {<<>>, o} /\ K!OnePacket(r)
    <3>1. CASE added
      <4> DEFINE T == [payload : Seq(K!Frame), of : Seq(K!Frame)]
      <4>1. enc.LBRR_buffer \in Seq(T)
        BY <1>0 DEF EncoderType
      <4> HIDE DEF T
      <4>2. 1 \in DOMAIN enc.LBRR_buffer
        BY <3>1, <4>1
      <4>t. enc.LBRR_buffer[1] \in T
        BY <4>1, <4>2
      <4>3. enc.LBRR_buffer[1] \in [payload : Seq(K!Frame), of : Seq(K!Frame)]
        BY <4>t DEF T
      <4>4. /\ enc.LBRR_buffer[1].payload \in {<<>>, enc.LBRR_buffer[1].of}
            /\ K!OnePacket(enc.LBRR_buffer[1].payload)
        BY <4>2 DEF K!PacketInv, K!Buffering
      <4> QED  BY <3>1, <4>3, <4>4
    <3>2. CASE ~added
      BY <3>2, PacketEmpty
    <3> QED  BY <3>1, <3>2
  <2>3. cd.frames \in Seq(K!Frame) /\ s \in BOOLEAN
    BY <1>0, <1>2 DEF K!Coder, EncoderType
  <2> HIDE DEF r, o, s, ends
  <2>4. /\ p \in K!Payloads /\ p.frames = cd.frames /\ p.lbrr = r /\ p.before = o
        /\ p.silent = s
    BY <2>1, <2>2, <2>3 DEF K!Payloads
  <2>5. ends => K!Good(p)
    BY <1>2, <1>5, <2>2, <2>4 DEF K!Good
  <2> QED  BY <2>4, <2>5 DEF s
<1>14. ends => call.out = <<>>
  <2> SUFFICES ASSUME ends, call.out # <<>> PROVE FALSE
    OBVIOUS
  <2>1. enc.inputBuf + call.left < 2 * (enc.PacketSize - enc.nFrames)
    BY DEF K!PacketInv, K!Calling
  <2>2. enc.nFrames + 1 >= enc.PacketSize
    BY <1>5
  <2> HIDE DEF ends
  <2> QED  BY SMTT(60), <1>0, <1>b, <2>1, <2>2
<1>15. out \in Seq(K!Payloads) /\ Len(out) <= 1
       /\ (out = call.out \/ (out = <<p>> /\ ends))
  <2>1. CASE ends /\ fits
    <3>1. out = Append(call.out, p) /\ call.out = <<>>
      BY <1>14, <2>1 DEF out
    <3>2. out = <<p>>
      BY <3>1
    <3> HIDE DEF ends
    <3> QED  BY <1>13, <2>1, <3>2
  <2>2. CASE ~(ends /\ fits)
    BY <1>0, <2>2 DEF out
  <2> QED  BY <2>1, <2>2
<1>16. /\ call' \in CallType /\ call'.open /\ call'.left = rest /\ call'.out = out
  BY <1>0, <1>4, <1>15, <1>e DEF CallType
<1> HIDE DEF ends
<1>17. K!TypeOK'
  BY <1>0, <1>12, <1>16 DEF K!PacketInv, K!TypeOK, EncoderType, CallType
<1>18. K!Coding'
  <2> SUFFICES ASSUME g > 0 PROVE K!Coding'
    BY <1>12 DEF K!Coding
  <2>1. /\ g = enc.nFrames + 1 /\ ~cd.error /\ sc = cd /\ sl = lb
        /\ quiet <=> silent
    BY <1>5
  <2>2. Len(sc.frames) = g /\ ~sc.error
    BY <1>2, <2>1
  <2>3. K!OnePacket(sc.frames)
    BY <1>2, <2>1
  <2>4. sc.frames[1].fs_kHz = enc'.fs_kHz
    BY <1>2, <1>12, <2>1
  <2>5. K!Following(K!Last(sc.frames).no) = no
    BY <1>2, <2>1 DEF no
  <2>6. enc'.LBRR_enabled => sl.error \/ sl.frames = sc.frames
    BY <1>2, <1>12, <2>1
  <2>7. m >= g => quiet
    <3> SUFFICES ASSUME m >= g PROVE silent
      BY <2>1
    <3>1. voice = "none" /\ enc.noSpeech >= enc.nFrames
      BY <1>0, <1>3, <1>b, <2>1
    <3>2. enc.nFrames > 0 => enc.silent
      BY <3>1 DEF K!PacketInv, K!Coding
    <3> QED  BY <1>0, <1>b, <3>1, <3>2
  <2> HIDE DEF silent
  <2>8. /\ Len(enc'.sRC.frames) = enc'.nFrames /\ ~enc'.sRC.error
        /\ K!OnePacket(enc'.sRC.frames)
        /\ enc'.sRC.frames[1].fs_kHz = enc'.fs_kHz
        /\ K!Following(K!Last(enc'.sRC.frames).no) = enc'.frameCounter
        /\ enc'.LBRR_enabled => enc'.sRC_LBRR.error \/ enc'.sRC_LBRR.frames = enc'.sRC.frames
        /\ enc'.noSpeech >= enc'.nFrames => enc'.silent
    BY <1>12, <2>2, <2>3, <2>4, <2>5, <2>6, <2>7
  <2> QED  BY <2>8 DEF K!Coding, K!OnePacket, K!Following, K!Last
<1>19. K!Buffering'
  <2>1. CASE enc'.LBRR_buffer = enc.LBRR_buffer
    BY <2>1 DEF K!PacketInv, K!Buffering, K!OnePacket, K!Following
  <2>2. CASE ends /\ enc'.LBRR_buffer = kept
    BY <1>11, <2>2 DEF K!Buffering, K!OnePacket, K!Following
  <2> QED  BY <1>12, <2>1, <2>2
<1>20. K!Calling'
  <2>1. \A k \in DOMAIN out : K!Good(out[k])
    <3>1. CASE out = call.out
      BY <3>1 DEF K!PacketInv, K!Calling
    <3>2. CASE out = <<p>> /\ ends
      BY <1>13, <3>2
    <3> QED  BY <1>15, <3>1, <3>2
  <2>2. out = <<>> => rest <= 2 * enc.PacketSize + 1
    <3> SUFFICES ASSUME out = <<>> PROVE rest <= 2 * enc.PacketSize + 1
      OBVIOUS
    <3>1. <<p>> # <<>>
      OBVIOUS
    <3>2. call.out = <<>>
      BY <1>15, <3>1
    <3>3. enc.inputBuf + call.left <= 2 * enc.PacketSize + 1
      BY <1>0, <3>2 DEF K!PacketInv, K!Calling
    <3> QED  BY <1>0, <1>4, <1>b, <3>3
  <2>3. out # <<>> => /\ rest < 2 * (enc.PacketSize - g)
                      /\ \E since \in 0..MAX_FRAMES_PER_PACKET :
                           LET first == K!Following(K!Last(out[1].frames).no)
                           IN  /\ 2 * since + rest < 2 * enc.PacketSize
                               /\ no \in {first + since, first + since - Numbers}
                               /\ since = 0 => out[1].silent \/ ~b
    <3>1. CASE out = <<p>> /\ ends
      <4>1. /\ K!Last(p.frames).no = enc.frameCounter /\ p.silent = silent
            /\ g = 0 /\ out[1] = p
        BY <1>2, <1>5, <1>13, <3>1
      <4>2. enc.inputBuf + call.left <= 2 * enc.PacketSize + 1
        BY <1>0, <1>14, <3>1 DEF K!PacketInv, K!Calling
      <4>3. rest < 2 * enc.PacketSize
        BY <1>0, <1>4, <1>b, <4>2
      <4>4. K!Following(K!Last(out[1].frames).no) = no
        BY <4>1 DEF no
      <4>5. b => silent
        <5> SUFFICES ASSUME b PROVE silent
          OBVIOUS
        <5>1. voice = "none" /\ enc.noSpeech >= enc.nFrames
          BY <1>0, <1>3, <1>b
        <5>2. enc.nFrames > 0 => enc.silent
          BY <5>1 DEF K!PacketInv, K!Coding
        <5> QED  BY <1>0, <1>b, <5>1, <5>2
      <4>6. /\ 0 \in 0..MAX_FRAMES_PER_PACKET /\ 2 * 0 + rest < 2 * enc.PacketSize
            /\ no = no + 0 /\ rest < 2 * (enc.PacketSize - g)
        BY <1>0, <1>4, <1>b, <4>1, <4>3
      <4>7. out[1].silent \/ ~b
        BY <4>1, <4>5
      <4> HIDE DEF silent
      <4> QED  BY <4>4, <4>6, <4>7
    <3>2. CASE out = call.out
      <4> SUFFICES ASSUME call.out # <<>>
                   PROVE  /\ rest < 2 * (enc.PacketSize - g)
                          /\ \E since \in 0..MAX_FRAMES_PER_PACKET :
                               LET first == K!Following(K!Last(out[1].frames).no)
                               IN  /\ 2 * since + rest < 2 * enc.PacketSize
                                   /\ no \in {first + since, first + since - Numbers}
                                   /\ since = 0 => out[1].silent \/ ~b
        BY <3>2
      <4> DEFINE first == K!Following(K!Last(call.out[1].frames).no)
      <4>1. enc.inputBuf + call.left < 2 * (enc.PacketSize - enc.nFrames)
        BY DEF K!PacketInv, K!Calling
      <4>2. PICK since \in 0..MAX_FRAMES_PER_PACKET : K!Since(since)
        BY DEF K!PacketInv, K!Calling
      <4>3. /\ 2 * since + enc.inputBuf + call.left < 2 * enc.PacketSize
            /\ enc.frameCounter \in {first + since, first + since - Numbers}
        BY <4>2 DEF K!Since
      <4>4. first \in 0 .. Numbers - 1
        <5>1. call.out[1] \in K!Payloads /\ K!Good(call.out[1])
          BY <1>0 DEF K!PacketInv, K!Calling
        <5>2. call.out[1].frames \in Seq(K!Frame) /\ call.out[1].frames # <<>>
          BY <5>1 DEF K!Payloads, K!Good
        <5>3. K!Last(call.out[1].frames) \in K!Frame
          BY <5>2 DEF K!Last
        <5>4. K!Last(call.out[1].frames).no \in 0 .. Numbers - 1
          BY <5>3 DEF K!Frame
        <5> QED  BY <5>4, FollowingIs
      <4> HIDE DEF first
      <4>5. rest < 2 * (enc.PacketSize - g)
        BY SMTT(60), <1>0, <1>4, <1>5, <1>b, <4>1
      <4>6. /\ since + 1 \in 0..MAX_FRAMES_PER_PACKET
            /\ 2 * (since + 1) + rest < 2 * enc.PacketSize /\ since + 1 # 0
        <5>1. since \in Nat /\ rest \in Nat /\ enc.PacketSize \in Nat
              /\ rest + 2 = enc.inputBuf + call.left
              /\ enc.inputBuf \in Nat /\ call.left \in Nat
              /\ enc.PacketSize <= MAX_FRAMES_PER_PACKET
          BY SMTT(60), <1>0, <1>4, <1>b
        <5>2. 2 * since + (rest + 2) < 2 * enc.PacketSize
          BY <4>3, <5>1
        <5>3. 2 * (since + 1) + rest < 2 * enc.PacketSize
          BY <5>1, <5>2
        <5>4. since + 1 <= MAX_FRAMES_PER_PACKET
          BY <1>b, <5>1, <5>3
        <5> QED  BY <1>b, <5>1, <5>3, <5>4
      <4>7. no \in {first + (since + 1), first + (since + 1) - Numbers}
        BY <1>0, <1>4, <1>b, <4>3, <4>4, <4>6
      <4> QED  BY <3>2, <4>5, <4>6, <4>7 DEF first
    <3> QED  BY <1>15, <3>1, <3>2
  <2>4. b => m > NO_SPEECH_FRAMES_BEFORE_DTX
    BY <1>3
  <2>5. /\ call'.out # <<>> =>
             /\ enc'.inputBuf + call'.left < 2 * (enc'.PacketSize - enc'.nFrames)
             /\ \E since \in 0..MAX_FRAMES_PER_PACKET : K!Since(since)'
        /\ call'.open /\ call'.out = <<>> =>
             enc'.inputBuf + call'.left <= 2 * enc'.PacketSize + 1
    <3>1. /\ enc'.inputBuf + call'.left = rest
          /\ \A since \in 0..MAX_FRAMES_PER_PACKET :
               2 * since + enc'.inputBuf + call'.left = 2 * since + rest
      BY <1>4, <1>12, <1>16, <1>b
    <3> QED  BY <1>12, <1>16, <2>2, <2>3, <3>1 DEF K!Since, K!Following, K!Last
  <2> HIDE DEF silent
  <2> QED  BY <1>0, <1>12, <1>15, <1>16, <2>1, <2>4, <2>5
           DEF K!Calling, K!Good, K!OnePacket, K!Following, K!NOT_IN_CALL
<1>21. K!Decoding'
  BY <1>0 DEF K!PacketInv, K!Decoding, K!Good, K!OnePacket, K!Following
<1> QED  BY <1>17, <1>18, <1>19, <1>20, <1>21 DEF K!PacketInv

LEMMA PacketInit == ASSUME K!Init PROVE K!PacketInv
<1>1. PICK zero, none : zero = 0 /\ none = <<>>
  OBVIOUS
<1>b. /\ zero \in Nat /\ zero \in 0 .. Numbers - 1 /\ zero \in 0 .. MAX_FRAMES_PER_PACKET - 1
      /\ zero \in {0, 1} /\ zero \in Rate \cup {0} /\ 1 \in 1..MAX_FRAMES_PER_PACKET
  BY <1>1, PacketBounds
<1>s. /\ none \in Seq(K!Frame) /\ none \in Seq(K!Payloads) /\ DOMAIN none = {} /\ Len(none) = 0
      /\ none \in Seq([payload : Seq(K!Frame), of : Seq(K!Frame)])
  BY <1>1
<1>m. K!Empty \in K!Coder
  BY DEF K!Empty, K!Coder
<1>2. enc = [fs_kHz |-> zero, PacketSize |-> 1, controlled |-> FALSE, LBRR_enabled |-> FALSE,
             useDTX |-> FALSE, inputBuf |-> zero, nFrames |-> zero, sRC |-> K!Empty,
             sRC_LBRR |-> K!Empty, LBRR_buffer |-> none,
             noSpeech |-> zero, inDTX |-> FALSE, frameCounter |-> zero,
             silent |-> TRUE, voiceLost |-> FALSE]
  BY <1>1 DEF K!Init
<1>3. /\ enc \in EncoderType /\ enc.nFrames = 0 /\ enc.LBRR_buffer = none
      /\ ~enc.inDTX /\ ~enc.voiceLost
  BY <1>1, <1>2, <1>b, <1>s, <1>m DEF EncoderType
<1>4. call = K!NOT_IN_CALL /\ net = none
  BY <1>1 DEF K!Init
<1>5. call \in CallType /\ ~call.open /\ call.out = none
  BY <1>1, <1>4, <1>b, <1>s DEF K!NOT_IN_CALL, CallType
<1>6. dec = [fs_kHz |-> zero, last |-> zero, nFramesDecoded |-> zero,
             payload |-> none, damaged |-> FALSE, missed |-> FALSE, understood |-> TRUE]
  BY <1>1 DEF K!Init
<1>7. /\ dec \in DecoderType /\ dec.payload = <<>> /\ dec.nFramesDecoded = 0
      /\ ~dec.damaged /\ dec.understood
  BY <1>1, <1>6, <1>b, <1>s DEF DecoderType
<1>8. K!TypeOK
  BY <1>3, <1>4, <1>5, <1>7, <1>s DEF K!TypeOK, EncoderType, CallType, DecoderType
<1>9. K!Coding
  BY <1>3 DEF K!Coding
<1>10. K!Buffering
  BY <1>3, <1>s DEF K!Buffering
<1>11. K!Calling
  BY <1>1, <1>3, <1>4, <1>5, <1>s DEF K!Calling
<1>12. K!Decoding
  BY <1>4, <1>7, <1>s, PacketEmpty DEF K!Decoding
<1> QED  BY <1>8, <1>9, <1>10, <1>11, <1>12 DEF K!PacketInv

(* PacketInv in every state of a behaviour of this part.                   *)
LEMMA PacketBehaviour == Spec => [](part = "packets" => K!PacketInv)
<1>1. Init => (part = "packets" => K!PacketInv)
  BY PacketInit DEF Init, RATES
<1>2. (part = "packets" => K!PacketInv) /\ [Next]_vars => (part = "packets" => K!PacketInv)'
  <2> SUFFICES ASSUME part = "packets" => K!PacketInv, [Next]_vars, part' = "packets"
               PROVE  K!PacketInv'
    OBVIOUS
  <2>1. part = "packets"
    BY DEF Next, vars
  <2>2. CASE Next
    <3>1. K!Next
      BY <2>1, <2>2 DEF Next, RATES
    <3>2. K!PacketInv
      BY <2>1
    <3>3. ASSUME NEW fs \in Rate, NEW frames \in PacketFrames, NEW fec \in BOOLEAN,
                 NEW dtx \in BOOLEAN, NEW halves \in 1..(2 * MAX_FRAMES_PER_PACKET),
                 K!Call(fs, frames, fec, dtx, halves)
          PROVE  K!PacketInv'
      BY <3>2, <3>3, PacketCall
    <3>4. CASE K!Lose \/ K!Search \/ K!Receive
      BY <3>2, <3>4, PacketArrives
    <3>5. CASE K!EncodeFrame
      BY <3>2, <3>5, PacketEncoded
    <3>6. CASE K!Return
      BY <3>2, <3>6, PacketReturn
    <3>7. CASE K!DecodeFrame
      BY <3>2, <3>7, PacketDecoded
    <3>8. CASE K!DecodeDamaged
      BY <3>2, <3>8, PacketSpoilt
    <3> QED  BY <3>1, <3>3, <3>4, <3>5, <3>6, <3>7, <3>8 DEF K!Next
  <2>3. CASE UNCHANGED vars
    <3>1. UNCHANGED <<enc, call, net>> /\ dec' = dec /\ K!PacketInv
      BY <2>1, <2>3 DEF vars
    <3>2. /\ dec \in DecoderType /\ K!OnePacket(dec.payload)
          /\ dec.payload = <<>> => dec.nFramesDecoded = 0 /\ ~dec.damaged
          /\ dec.payload # <<>> /\ ~dec.damaged =>
               /\ dec.nFramesDecoded < Len(dec.payload)
               /\ dec.nFramesDecoded > 0 =>
                    /\ dec.last = dec.payload[dec.nFramesDecoded].no
                    /\ dec.fs_kHz = dec.payload[1].fs_kHz
          /\ dec.understood
      BY <3>1 DEF K!PacketInv, K!TypeOK, K!Decoding, DecoderType
    <3> QED  BY <3>1, <3>2, PacketSent
  <2> QED  BY <2>2, <2>3
<1> QED  BY <1>1, <1>2, PTL DEF Spec

(* Whatever is lost, damaged or suppressed and whenever rate, length and   *)
(* redundancy change, frames are decoded in the context they were coded    *)
(* in, a second coding is that of the packet before, a call makes one      *)
(* payload at most, and a pause suppresses only silence.                   *)
THEOREM PacketsInStep == Spec => []PacketsUnderstood
<1>1. (part = "packets" => K!PacketInv) => PacketsUnderstood
  <2> SUFFICES ASSUME part = "packets", K!PacketInv PROVE K!PacketsUnderstood
    BY DEF PacketsUnderstood
  <2>1. net # <<>> /\ net[1].lbrr # <<>> => net[1].lbrr = net[1].before
    <3> SUFFICES ASSUME net # <<>> PROVE net[1].lbrr \in {<<>>, net[1].before}
      OBVIOUS
    <3>1. 1 \in DOMAIN net
      BY DEF K!PacketInv, K!TypeOK
    <3> QED  BY <3>1 DEF K!PacketInv, K!Decoding, K!Good
  <2> QED  BY <2>1 DEF K!PacketInv, K!Decoding, K!Calling, K!PacketsUnderstood
<1> QED  BY <1>1, PacketBehaviour, PTL

-----------------------------------------------------------------------------
(* The resamplers' rates and counts (SilkResampler).                       *)

Ratio(in, out) == [in |-> in, out |-> out]

EncoderRatesType ==
  [fs_kHz : InternalRate \cup {0}, API_fs_Hz : SampleRate \cup {0},
   resampler : [in : Nat, out : Nat], inputBufIx : Nat, controlled : BOOLEAN]

LEMMA RatesBounds ==
  /\ InternalRate \subseteq {8, 12, 16, 24}
  /\ SampleRate \subseteq {100 * x : x \in 80..480}
  /\ MaxInput \in Nat
BY RatesAssumption

(* The uses of a resampler that is for its rates, and that it counts.      *)
LEMMA UsesCounted ==
  ASSUME NEW api \in SampleRate, NEW fs \in InternalRate
  PROVE  /\ 1000 * fs # api =>
              LET use == Z!FrameResampled(Ratio(1000 * fs, api), fs, api)
              IN  use.resampler = use.for /\ Z!Counted(use)
         /\ 1000 * fs < api =>
              /\ \A blocks \in {1, 2} :
                   LET use == Z!InputResampled(Ratio(api, 1000 * fs), api, fs,
                                               blocks * (api \div 100), blocks * 10 * fs)
                   IN  use.resampler = use.for /\ Z!Counted(use)
              /\ \A old_fs \in InternalRate :
                   LET up   == Z!HistoryUp(old_fs, api)
                       down == Z!HistoryDown(Ratio(api, 1000 * fs), old_fs, api, fs)
                   IN  /\ up.resampler = up.for /\ Z!Counted(up)
                       /\ down.resampler = down.for /\ Z!Counted(down)
<1>1. /\ 1000 * fs # api => Z!Counted(Z!FrameResampled(Ratio(1000 * fs, api), fs, api))
      /\ 1000 * fs < api =>
           /\ \A blocks \in {1, 2} :
                Z!Counted(Z!InputResampled(Ratio(api, 1000 * fs), api, fs,
                                           blocks * (api \div 100), blocks * 10 * fs))
           /\ \A old_fs \in InternalRate :
                /\ Z!Counted(Z!HistoryUp(old_fs, api))
                /\ Z!Counted(Z!HistoryDown(Ratio(api, 1000 * fs), old_fs, api, fs))
  <2>1. Z!RatiosExact
    BY RatiosAssumption, Zenon
  <2> QED  BY <2>1 DEF Z!RatiosExact, Ratio
<1>2. ASSUME NEW r, NEW f, NEW a, NEW o, NEW t, NEW b
      PROVE  /\ Z!FrameResampled(r, f, a).resampler = r
             /\ Z!FrameResampled(r, f, a).for = Ratio(1000 * f, a)
             /\ Z!InputResampled(r, a, f, t, b).resampler = r
             /\ Z!InputResampled(r, a, f, t, b).for = Ratio(a, 1000 * f)
             /\ Z!HistoryUp(f, a).resampler = Ratio(1000 * f, a)
             /\ Z!HistoryUp(f, a).for = Ratio(1000 * f, a)
             /\ Z!HistoryDown(r, o, a, f).resampler = r
             /\ Z!HistoryDown(r, o, a, f).for = Ratio(a, 1000 * f)
  <2>1. ASSUME NEW resampler, NEW in, NEW out, NEW n, NEW counted, NEW room
        PROVE  /\ Z!Resampling(resampler, in, out, n, counted, room).resampler = resampler
               /\ Z!Resampling(resampler, in, out, n, counted, room).for = Ratio(in, out)
    BY DEF Z!Resampling, Ratio
  <2>2. /\ Z!FrameResampled(r, f, a).resampler = r
        /\ Z!FrameResampled(r, f, a).for = Ratio(1000 * f, a)
    BY <2>1 DEF Z!FrameResampled
  <2>3. /\ Z!InputResampled(r, a, f, t, b).resampler = r
        /\ Z!InputResampled(r, a, f, t, b).for = Ratio(a, 1000 * f)
    BY <2>1 DEF Z!InputResampled
  <2>4. /\ Z!HistoryUp(f, a).resampler = Ratio(1000 * f, a)
        /\ Z!HistoryUp(f, a).for = Ratio(1000 * f, a)
    BY <2>1 DEF Z!HistoryUp, Ratio
  <2>5. /\ Z!HistoryDown(r, o, a, f).resampler = r
        /\ Z!HistoryDown(r, o, a, f).for = Ratio(a, 1000 * f)
    BY <2>1 DEF Z!HistoryDown
  <2> QED  BY <2>2, <2>3, <2>4, <2>5
<1>3. 1000 * fs # api =>
        LET use == Z!FrameResampled(Ratio(1000 * fs, api), fs, api)
        IN  use.resampler = use.for /\ Z!Counted(use)
  BY <1>1, <1>2
<1>4. 1000 * fs < api =>
        \A blocks \in {1, 2} :
          LET use == Z!InputResampled(Ratio(api, 1000 * fs), api, fs,
                                      blocks * (api \div 100), blocks * 10 * fs)
          IN  use.resampler = use.for /\ Z!Counted(use)
  BY <1>1, <1>2
<1>5. 1000 * fs < api =>
        \A old_fs \in InternalRate :
          LET up   == Z!HistoryUp(old_fs, api)
              down == Z!HistoryDown(Ratio(api, 1000 * fs), old_fs, api, fs)
          IN  /\ up.resampler = up.for /\ Z!Counted(up)
              /\ down.resampler = down.for /\ Z!Counted(down)
  <2> SUFFICES ASSUME 1000 * fs < api, NEW old_fs \in InternalRate
               PROVE  LET up   == Z!HistoryUp(old_fs, api)
                          down == Z!HistoryDown(Ratio(api, 1000 * fs), old_fs, api, fs)
                      IN  /\ up.resampler = up.for /\ Z!Counted(up)
                          /\ down.resampler = down.for /\ Z!Counted(down)
    OBVIOUS
  <2>1. /\ Z!Counted(Z!HistoryUp(old_fs, api))
        /\ Z!Counted(Z!HistoryDown(Ratio(api, 1000 * fs), old_fs, api, fs))
    BY <1>1
  <2> QED  BY <1>2, <2>1
<1> QED  BY <1>3, <1>4, <1>5

(* Blocks of 10 ms are as long at either rate.                             *)
LEMMA BlocksTaken ==
  ASSUME NEW api \in SampleRate, NEW fs \in InternalRate, NEW blocks \in {1, 2}
  PROVE  (blocks * 10 * fs * api) \div (1000 * fs) = blocks * (api \div 100)
<1>1. PICK x \in 80..480 : api = 100 * x
  BY RatesBounds
<1>2. fs \in {8, 12, 16, 24}
  BY RatesBounds
<1>3. api \div 100 = x
  BY <1>1
<1>4. CASE blocks = 1
  BY <1>1, <1>2, <1>3, <1>4
<1>5. CASE blocks = 2
  BY <1>1, <1>2, <1>3, <1>5
<1> QED  BY <1>4, <1>5

(* The encoder is controlled, with other rates perhaps.                    *)
LEMMA RatesEncode ==
  ASSUME Z!RatesInv, NEW api \in SampleRate, NEW blocks \in 1..MaxInput,
         NEW fs \in InternalRate, Z!Encode(api, blocks, fs)
  PROVE  Z!RatesInv'
<1> DEFINE down  == Ratio(api, 1000 * fs)
           fresh == Z!Changed(enc, api, fs) /\ (enc.fs_kHz = 0 \/ 1000 * fs < api)
           set   == Z!SetUp(enc, api, fs)
           ix    == IF enc.fs_kHz = fs THEN enc.inputBufIx ELSE 0
           res   == IF fresh THEN down ELSE enc.resampler
<1>0. /\ enc \in EncoderRatesType /\ call = Z!NOT_IN_CALL /\ dec' = dec
      /\ 1000 * fs <= api /\ (enc.controlled => fs = enc.fs_kHz)
      /\ fs \in {8, 12, 16, 24} /\ api \in Nat /\ api > 0 /\ blocks \in Nat /\ blocks >= 1
      /\ enc.fs_kHz \in InternalRate \cup {0} /\ enc.inputBufIx \in Nat
      /\ enc.inputBufIx \in {0, 10 * enc.fs_kHz}
  <2>1. /\ fs \in {8, 12, 16, 24} /\ api \in Nat /\ api > 0
        /\ blocks \in Nat /\ blocks >= 1
    BY RatesBounds
  <2>2. /\ enc \in EncoderRatesType /\ enc.fs_kHz \in InternalRate \cup {0}
        /\ enc.inputBufIx \in Nat
    BY DEF Z!RatesInv, Z!TypeOK, EncoderRatesType
  <2>3. enc.inputBufIx \in {0, 10 * enc.fs_kHz}
    BY DEF Z!RatesInv, Z!EncoderRates
  <2>4. /\ call = Z!NOT_IN_CALL /\ dec' = dec
        /\ 1000 * fs <= api /\ (enc.controlled => fs = enc.fs_kHz)
    BY DEF Z!Encode
  <2> QED  BY <2>1, <2>2, <2>3, <2>4
<1>1. /\ down \in [in : Nat, out : Nat] /\ res \in [in : Nat, out : Nat]
      /\ ix \in {0, 10 * fs} /\ ix \in Nat
  <2>1. down \in [in : Nat, out : Nat]
    BY <1>0 DEF Ratio
  <2>2. ix \in {0, 10 * fs} /\ ix \in Nat
    BY <1>0
  <2> HIDE DEF down
  <2> QED  BY <1>0, <2>1, <2>2 DEF EncoderRatesType
<1>2. set = [enc EXCEPT !.API_fs_Hz = api, !.resampler = res]
  BY DEF Z!SetUp, Ratio, EncoderRatesType
<1> HIDE DEF down, set
<1>3. /\ set \in EncoderRatesType /\ set.fs_kHz = enc.fs_kHz /\ set.API_fs_Hz = api
      /\ set.resampler = res /\ set.inputBufIx = enc.inputBufIx
      /\ set.controlled = enc.controlled
  <2> HIDE DEF res, ix
  <2> QED  BY <1>0, <1>1, <1>2 DEF EncoderRatesType
<1>4. /\ enc' \in EncoderRatesType /\ enc'.fs_kHz = fs /\ enc'.API_fs_Hz = api
      /\ enc'.resampler = res /\ enc'.inputBufIx = ix
  <2>1. CASE enc.controlled
    <3>1. enc' = set
      BY <2>1 DEF Z!Encode, set
    <3> QED  BY <1>0, <1>3, <2>1, <3>1
  <2>2. CASE ~enc.controlled
    <3>1. enc' = [Z!SetFs(set, fs) EXCEPT !.controlled = TRUE]
      BY <2>2 DEF Z!Encode, set
    <3> DEFINE other == Z!SetFs(set, fs)
    <3>2. /\ other \in EncoderRatesType /\ other.fs_kHz = fs /\ other.API_fs_Hz = api
          /\ other.resampler = res /\ other.inputBufIx = ix
      <4>1. CASE set.fs_kHz = fs
        <5>1. other = set
          BY <4>1 DEF Z!SetFs
        <5> HIDE DEF other, res
        <5> QED  BY <1>3, <4>1, <5>1
      <4>2. CASE set.fs_kHz # fs
        <5>1. other = [set EXCEPT !.fs_kHz = fs, !.inputBufIx = ix]
          BY <1>3, <4>2 DEF Z!SetFs
        <5> HIDE DEF other, res, ix
        <5> QED  BY <1>1, <1>3, <5>1 DEF EncoderRatesType
      <4> QED  BY <4>1, <4>2
    <3> HIDE DEF other, res, ix
    <3> QED  BY <3>1, <3>2 DEF EncoderRatesType, other
  <2> QED  BY <2>1, <2>2
<1>5. /\ call' = [blocks |-> blocks, left |-> blocks * (api \div 100)] \/ call' = Z!NOT_IN_CALL
      /\ 1000 * fs # api /\ ix + 10 * fs * blocks > 20 * fs =>
           (ix + 10 * fs * blocks) % (20 * fs) = 0
      /\ net' = Z!SetUpRuns(enc, api, fs)
  <2>1. Z!FRAME_LENGTH_MS = 20
    BY DEF Z!FRAME_LENGTH_MS
  <2> QED  BY <1>0, <1>4, <2>1 DEF Z!Encode
<1>6. api \div 100 \in Nat /\ blocks * (api \div 100) \in Nat
  BY <1>0
<1>7. PICK held \in {0, 1} : ix = held * 10 * fs
  BY <1>0, <1>1
<1>8. 1000 * fs # api => held + blocks <= 2 \/ (held + blocks) % 2 = 0
  <2>1. /\ ix + 10 * fs * blocks = 10 * fs * (held + blocks)
        /\ ~(10 * fs * (held + blocks) > 20 * fs) => held + blocks <= 2
        /\ (10 * fs * (held + blocks)) % (20 * fs) = 0 => (held + blocks) % 2 = 0
    BY <1>0, <1>7
  <2> QED  BY <1>5, <2>1
<1>9. Z!TypeOK'
  <2>1. call' \in [blocks : Nat, left : Nat]
    BY <1>0, <1>5, <1>6 DEF Z!NOT_IN_CALL
  <2> QED  BY <1>0, <1>4, <2>1 DEF Z!RatesInv, Z!TypeOK, EncoderRatesType
<1>10. api # 1000 * fs => res = down
  <2> SUFFICES ASSUME api # 1000 * fs, ~fresh PROVE enc.resampler = down
    OBVIOUS
  <2>1. ~Z!Changed(enc, api, fs)
    BY <1>0
  <2>2. enc.fs_kHz = fs /\ enc.API_fs_Hz = api /\ enc.fs_kHz # 0
    BY <1>0, <2>1 DEF Z!Changed
  <2> QED  BY <2>2 DEF Z!RatesInv, Z!EncoderRates, Ratio, down
<1>11. Z!EncoderRates'
  <2>1. call' # Z!NOT_IN_CALL =>
          /\ call'.left = blocks * (api \div 100) /\ blocks = call'.blocks
    BY <1>5
  <2> HIDE DEF res, ix
  <2> QED  BY <1>0, <1>1, <1>4, <1>7, <1>8, <1>10, <2>1
           DEF Z!EncoderRates, Z!NOT_IN_CALL, Ratio, down
<1>12. Z!SamplesCounted'
  <2>1. \A use \in net' : use.resampler = use.for /\ Z!Counted(use)
    <3>1. CASE ~Z!Changed(enc, api, fs) \/ enc.fs_kHz = 0 \/ 1000 * fs >= api
      BY <1>5, <3>1 DEF Z!SetUpRuns
    <3>2. CASE Z!Changed(enc, api, fs) /\ enc.fs_kHz # 0 /\ 1000 * fs < api
      <4>1. net' = {Z!HistoryUp(enc.fs_kHz, api),
                    Z!HistoryDown(down, enc.fs_kHz, api, fs)}
        BY <1>0, <1>3, <1>5, <3>2 DEF Z!SetUpRuns, set
      <4>2. enc.fs_kHz \in InternalRate
        BY <1>0, <3>2
      <4>3. LET up   == Z!HistoryUp(enc.fs_kHz, api)
                back == Z!HistoryDown(down, enc.fs_kHz, api, fs)
            IN  /\ up.resampler = up.for /\ Z!Counted(up)
                /\ back.resampler = back.for /\ Z!Counted(back)
        BY <3>2, <4>2, UsesCounted DEF down
      <4> QED  BY <4>1, <4>3
    <3> QED  BY <1>0, <3>1, <3>2
  <2>2. call'.left >= 0
    BY <1>5, <1>6 DEF Z!NOT_IN_CALL
  <2>3. enc'.inputBufIx \in 0 .. 20 * enc'.fs_kHz
    BY <1>0, <1>1, <1>4
  <2> QED  BY <2>1, <2>2, <2>3 DEF Z!SamplesCounted, Z!Counted, Z!FRAME_LENGTH_MS
<1>13. Z!DecoderRates'
  BY <1>0 DEF Z!RatesInv, Z!DecoderRates
<1> QED  BY <1>9, <1>11, <1>12, <1>13 DEF Z!RatesInv

(* A turn of the encoder's loop: up to the end of the frame or of the call.*)
LEMMA RatesBuffer == ASSUME Z!RatesInv, Z!Buffer PROVE Z!RatesInv'
<1> DEFINE fs       == enc.fs_kHz
           api      == enc.API_fs_Hz
           missing  == 20 * fs - enc.inputBufIx
           same     == api = 1000 * fs
           toBuffer == Z!Lesser(missing, IF same THEN call.left ELSE 10 * call.blocks * fs)
           taken    == IF same THEN toBuffer ELSE (toBuffer * api) \div (1000 * fs)
           full     == toBuffer = missing
           down     == Ratio(api, 1000 * fs)
           x        == api \div 100
<1>0. /\ enc \in EncoderRatesType /\ call \in [blocks : Nat, left : Nat]
      /\ call # Z!NOT_IN_CALL
      /\ dec' = dec
  BY DEF Z!RatesInv, Z!TypeOK, Z!Buffer, EncoderRatesType
<1>1. /\ net' = IF same THEN {}
                ELSE {Z!InputResampled(enc.resampler, api, fs, taken, toBuffer)}
      /\ enc' = [enc EXCEPT !.inputBufIx = IF full THEN 0 ELSE enc.inputBufIx + toBuffer,
                            !.controlled = enc.controlled /\ ~full]
      /\ call' = IF full /\ call.left # taken THEN [call EXCEPT !.left = call.left - taken]
                 ELSE Z!NOT_IN_CALL
  BY DEF Z!Buffer, Z!FRAME_LENGTH_MS
<1>2. /\ fs \in InternalRate /\ api \in SampleRate /\ 1000 * fs <= api
      /\ 1000 * fs # api => enc.resampler = down
      /\ fs \in {8, 12, 16, 24}
  <2>1. fs \in InternalRate /\ api \in SampleRate /\ 1000 * fs <= api
    BY <1>0 DEF Z!RatesInv, Z!EncoderRates
  <2>2. fs \in {8, 12, 16, 24}
    BY <2>1, RatesBounds
  <2>3. 1000 * fs # api => enc.resampler = down
    BY <2>2 DEF Z!RatesInv, Z!EncoderRates, Ratio
  <2> QED  BY <2>1, <2>2, <2>3
<1>3. PICK held \in {0, 1}, blocks \in 1..MaxInput :
        /\ enc.inputBufIx = held * 10 * fs
        /\ call.left = blocks * x
        /\ 1000 * fs # api =>
             \/ held + blocks <= 2 /\ blocks = call.blocks
             \/ (held + blocks) % 2 = 0 /\ blocks <= call.blocks
  BY <1>0 DEF Z!RatesInv, Z!EncoderRates
<1>4. /\ fs \in {8, 12, 16, 24} /\ api \in Nat /\ x \in Nat /\ x >= 80 /\ api = 100 * x
      /\ blocks \in Nat /\ blocks >= 1 /\ call.blocks \in Nat /\ call.left \in Nat
  <2>1. PICK y \in 80..480 : api = 100 * y
    BY <1>2, RatesBounds
  <2>2. x = y
    BY <2>1
  <2> HIDE DEF x
  <2>3. api \in Nat /\ x \in Nat /\ x >= 80 /\ api = 100 * x
    BY <2>1, <2>2
  <2>4. blocks \in Nat /\ blocks >= 1
    BY RatesBounds
  <2> HIDE DEF fs, api
  <2> QED  BY <1>0, <1>2, <2>3, <2>4
<1> HIDE DEF x
<1>5. PICK m \in {1, 2} :
        /\ toBuffer = m * 10 * fs /\ taken = m * x
        /\ m <= 2 - held /\ m <= blocks
        /\ full <=> m = 2 - held
        /\ 1000 * fs # api => m = blocks \/ (m = 2 - held /\ (held + blocks) % 2 = 0)
  <2>1. missing = (2 - held) * 10 * fs
    BY <1>3, <1>4
  <2>2. CASE same
    <3> DEFINE m == IF 2 - held < blocks THEN 2 - held ELSE blocks
    <3>1. x = 10 * fs
      BY <1>4, <2>2
    <3>2. call.left = blocks * 10 * fs
      BY <1>3, <1>4, <3>1
    <3>3. m \in {1, 2} /\ m <= 2 - held /\ m <= blocks
      BY <1>4
    <3>4. toBuffer = m * 10 * fs
      BY <1>4, <2>1, <2>2, <3>2 DEF Z!Lesser
    <3>5. taken = m * x
      BY <1>4, <2>2, <3>1, <3>3, <3>4
    <3>6. full <=> m = 2 - held
      BY <1>4, <2>1, <3>3, <3>4
    <3> HIDE DEF m
    <3> QED  BY <2>2, <3>3, <3>4, <3>5, <3>6
  <2>3. CASE ~same
    <3> DEFINE m == IF 2 - held < call.blocks THEN 2 - held ELSE call.blocks
    <3>1. /\ m \in {1, 2} /\ m <= 2 - held /\ m <= blocks
          /\ m = blocks \/ (m = 2 - held /\ (held + blocks) % 2 = 0)
      BY <1>3, <1>4, <2>3
    <3>2. toBuffer = m * 10 * fs
      BY <1>4, <2>1, <2>3 DEF Z!Lesser
    <3>3. full <=> m = 2 - held
      BY <1>4, <2>1, <3>1, <3>2
    <3> HIDE DEF m, toBuffer
    <3>4. taken = m * x
      BY <1>2, <2>3, <3>1, <3>2, BlocksTaken DEF x
    <3> QED  BY <2>3, <3>1, <3>2, <3>3, <3>4
  <2> QED  BY <2>2, <2>3
<1> HIDE DEF toBuffer, taken, full
<1> DEFINE ix == IF full THEN 0 ELSE enc.inputBufIx + toBuffer
<1>6. ix \in {0, 10 * fs} /\ ix \in Nat
  <2>1. CASE full
    BY <1>4, <2>1
  <2>2. CASE ~full
    <3>1. held = 0 /\ m = 1
      BY <1>5, <2>2
    <3> QED  BY <1>3, <1>4, <1>5, <2>2, <3>1
  <2> QED  BY <2>1, <2>2
<1>7. /\ enc' \in EncoderRatesType /\ enc'.fs_kHz = fs /\ enc'.API_fs_Hz = api
      /\ enc'.resampler = enc.resampler /\ enc'.inputBufIx = ix
  <2> DEFINE c == enc.controlled /\ ~full
  <2>1. enc' = [enc EXCEPT !.inputBufIx = ix, !.controlled = c] /\ c \in BOOLEAN
    BY <1>0, <1>1 DEF EncoderRatesType
  <2> HIDE DEF ix, c
  <2> QED  BY <1>0, <1>6, <2>1 DEF EncoderRatesType
<1>8. \/ call' = Z!NOT_IN_CALL
      \/ /\ call' = [call EXCEPT !.left = (blocks - m) * x]
         /\ ix = 0 /\ blocks - m \in 1..MaxInput /\ blocks - m <= blocks
         /\ 1000 * fs # api => (0 + (blocks - m)) % 2 = 0
  <2> SUFFICES ASSUME full, call.left # taken
               PROVE  /\ call' = [call EXCEPT !.left = (blocks - m) * x]
                      /\ ix = 0 /\ blocks - m \in 1..MaxInput /\ blocks - m <= blocks
                      /\ 1000 * fs # api => (0 + (blocks - m)) % 2 = 0
    BY <1>1
  <2>1. blocks # m
    BY <1>3, <1>5
  <2>2. call.left - taken = (blocks - m) * x
    BY <1>3, <1>4, <1>5
  <2>3. blocks - m \in 1..MaxInput /\ blocks - m <= blocks
    BY <1>4, <1>5, <2>1, RatesBounds
  <2>4. ASSUME 1000 * fs # api PROVE (0 + (blocks - m)) % 2 = 0
    <3>1. m = 2 - held /\ (held + blocks) % 2 = 0
      BY <1>5, <2>1, <2>4
    <3>2. 0 + (blocks - m) = (held + blocks) - 2
      BY <1>4, <3>1
    <3> QED  BY <1>4, <3>1, <3>2
  <2> QED  BY <1>1, <2>2, <2>3, <2>4
<1> HIDE DEF ix
<1>9. call' \in [blocks : Nat, left : Nat]
  <2>1. CASE call' = Z!NOT_IN_CALL
    BY <2>1 DEF Z!NOT_IN_CALL
  <2>2. CASE call' = [call EXCEPT !.left = (blocks - m) * x] /\ blocks - m \in 1..MaxInput
    <3> DEFINE l == (blocks - m) * x
    <3>1. l \in Nat
      BY <1>4, <2>2, RatesBounds
    <3> HIDE DEF l
    <3> QED  BY <1>0, <2>2, <3>1 DEF l
  <2> QED  BY <1>8, <2>1, <2>2
<1>10. Z!TypeOK'
  BY <1>0, <1>7, <1>9 DEF Z!RatesInv, Z!TypeOK, EncoderRatesType
<1>11. Z!EncoderRates'
  <2>1. ASSUME call' # Z!NOT_IN_CALL
        PROVE  \E h \in {0, 1}, b \in 1..MaxInput :
                 /\ ix = h * 10 * fs
                 /\ call'.left = b * x
                 /\ 1000 * fs # api =>
                      \/ h + b <= 2 /\ b = call'.blocks
                      \/ (h + b) % 2 = 0 /\ b <= call'.blocks
    <3> DEFINE b == blocks - m
    <3>1. /\ call' = [call EXCEPT !.left = (blocks - m) * x]
          /\ ix = 0 /\ b \in 1..MaxInput /\ b <= blocks
          /\ 1000 * fs # api => (0 + b) % 2 = 0
      BY <1>8, <2>1
    <3>2. call'.left = b * x /\ call'.blocks = call.blocks
      BY <1>0, <3>1
    <3>3. 1000 * fs # api => b <= call.blocks
      BY <1>3, <1>4, <3>1
    <3>4. ix = 0 * 10 * fs
      BY <1>4, <3>1
    <3> HIDE DEF b
    <3> QED  BY <3>1, <3>2, <3>3, <3>4
  <2> QED  BY <1>2, <1>4, <1>6, <1>7, <2>1 DEF Z!EncoderRates, Z!NOT_IN_CALL, Ratio, x
<1>12. Z!SamplesCounted'
  <2>1. \A use \in net' : use.resampler = use.for /\ Z!Counted(use)
    <3>1. CASE same
      BY <1>1, <3>1
    <3>2. CASE ~same
      <4>1. net' = {Z!InputResampled(down, api, fs, m * x, m * 10 * fs)}
        BY <1>1, <1>2, <1>5, <3>2
      <4>2. 1000 * fs < api
        BY <1>2, <1>4, <3>2
      <4>3. LET use == Z!InputResampled(down, api, fs, m * x, m * 10 * fs)
            IN  use.resampler = use.for /\ Z!Counted(use)
        BY <1>2, <4>2, UsesCounted DEF x
      <4> QED  BY <4>1, <4>3
    <3> QED  BY <3>1, <3>2
  <2>2. call'.left >= 0
    BY <1>9
  <2>3. enc'.inputBufIx \in 0 .. 20 * enc'.fs_kHz
    BY <1>4, <1>6, <1>7
  <2> QED  BY <2>1, <2>2, <2>3 DEF Z!SamplesCounted, Z!Counted, Z!FRAME_LENGTH_MS
<1>13. Z!DecoderRates'
  BY <1>0 DEF Z!RatesInv, Z!DecoderRates
<1> QED  BY <1>10, <1>11, <1>12, <1>13 DEF Z!RatesInv

(* A frame is decoded, at other rates perhaps.                             *)
LEMMA RatesDecode ==
  ASSUME Z!RatesInv, NEW fs \in InternalRate, NEW api \in SampleRate, Z!Decode(fs, api)
  PROVE  Z!RatesInv'
<1> DEFINE up    == Ratio(1000 * fs, api)
           fresh == dec.fs_kHz # fs \/ dec.prev_API_sampleRate # api
           used  == IF 1000 * fs # api /\ fresh THEN up ELSE dec.resampler
<1>0. /\ dec \in [fs_kHz : InternalRate \cup {24}, prev_API_sampleRate : SampleRate \cup {0},
                  resampler : [in : Nat, out : Nat]]
      /\ UNCHANGED <<call, enc>>
      /\ fs \in {8, 12, 16, 24} /\ api \in Nat /\ api > 0
  <2>1. fs \in {8, 12, 16, 24} /\ api \in Nat /\ api > 0
    BY RatesBounds
  <2> QED  BY <2>1 DEF Z!RatesInv, Z!TypeOK, Z!Decode
<1>1. /\ dec' = [fs_kHz |-> fs, prev_API_sampleRate |-> api, resampler |-> used]
      /\ net' = IF 1000 * fs = api THEN {} ELSE {Z!FrameResampled(used, fs, api)}
  BY DEF Z!Decode, Ratio
<1>2. used \in [in : Nat, out : Nat]
  <2>1. up \in [in : Nat, out : Nat]
    BY <1>0 DEF Ratio
  <2> HIDE DEF up
  <2> QED  BY <1>0, <2>1
<1>3. 1000 * fs # api => used = up
  <2> SUFFICES ASSUME 1000 * fs # api, dec.fs_kHz = fs, dec.prev_API_sampleRate = api
               PROVE  dec.resampler = up
    OBVIOUS
  <2> QED  BY <1>0 DEF Z!RatesInv, Z!DecoderRates, Ratio
<1> HIDE DEF used, up
<1>4. Z!TypeOK'
  BY <1>0, <1>1, <1>2 DEF Z!RatesInv, Z!TypeOK
<1>5. Z!EncoderRates'
  BY <1>0 DEF Z!RatesInv, Z!EncoderRates, Z!NOT_IN_CALL
<1>6. Z!SamplesCounted'
  <2>1. \A use \in net' : use.resampler = use.for /\ Z!Counted(use)
    <3>1. CASE 1000 * fs = api
      BY <1>1, <3>1
    <3>2. CASE 1000 * fs # api
      <4>1. net' = {Z!FrameResampled(up, fs, api)}
        BY <1>1, <1>3, <3>2
      <4>2. LET use == Z!FrameResampled(up, fs, api)
            IN  use.resampler = use.for /\ Z!Counted(use)
        BY <3>2, UsesCounted DEF up
      <4> QED  BY <4>1, <4>2
    <3> QED  BY <3>1, <3>2
  <2>2. call'.left >= 0 /\ enc'.inputBufIx \in 0 .. 20 * enc'.fs_kHz
    BY <1>0 DEF Z!RatesInv, Z!SamplesCounted, Z!FRAME_LENGTH_MS
  <2> QED  BY <2>1, <2>2 DEF Z!SamplesCounted, Z!Counted, Z!FRAME_LENGTH_MS
<1>7. Z!DecoderRates'
  BY <1>0, <1>1, <1>3 DEF Z!DecoderRates, Ratio, up
<1> QED  BY <1>4, <1>5, <1>6, <1>7 DEF Z!RatesInv

(* RatesInv in every state of a behaviour of these parts.                  *)
LEMMA RatesBehaviour == Spec => [](part \in RATES => Z!RatesInv)
<1>1. Init => (part \in RATES => Z!RatesInv)
  <2> SUFFICES ASSUME Init, part \in RATES PROVE Z!RatesInv
    OBVIOUS
  <2>1. Z!Init
    BY DEF Init, RATES
  <2>2. /\ call = Z!NOT_IN_CALL /\ call.left = 0 /\ call \in [blocks : Nat, left : Nat]
        /\ net = {}
    BY <2>1 DEF Z!Init, Z!NOT_IN_CALL
  <2>3. enc = [fs_kHz |-> 0, API_fs_Hz |-> 0, resampler |-> Z!NONE,
               inputBufIx |-> 0, controlled |-> FALSE]
    BY <2>1 DEF Z!Init
  <2>4. dec = [fs_kHz |-> 24, prev_API_sampleRate |-> 0, resampler |-> Z!NONE]
    BY <2>1 DEF Z!Init
  <2>5. Z!NONE \in [in : Nat, out : Nat]
    BY DEF Z!NONE
  <2>6. /\ enc \in EncoderRatesType /\ enc.fs_kHz = 0 /\ enc.inputBufIx = 0
    BY <2>3, <2>5 DEF EncoderRatesType
  <2>7. Z!TypeOK
    BY <2>2, <2>4, <2>5, <2>6 DEF Z!TypeOK, EncoderRatesType
  <2>8. Z!EncoderRates
    BY <2>2, <2>6 DEF Z!EncoderRates
  <2>9. Z!DecoderRates
    BY <2>4 DEF Z!DecoderRates
  <2>10. Z!SamplesCounted
    BY <2>2, <2>6 DEF Z!SamplesCounted, Z!FRAME_LENGTH_MS
  <2> QED  BY <2>7, <2>8, <2>9, <2>10 DEF Z!RatesInv
<1>2. (part \in RATES => Z!RatesInv) /\ [Next]_vars => (part \in RATES => Z!RatesInv)'
  <2> SUFFICES ASSUME part \in RATES => Z!RatesInv, [Next]_vars, part' \in RATES
               PROVE  Z!RatesInv'
    BY DEF RATES
  <2>1. part \in RATES /\ Z!RatesInv
    BY DEF Next, vars
  <2>2. CASE Next
    <3>1. Z!EncoderNext \/ Z!DecoderNext
      BY <2>1, <2>2 DEF Next, RATES
    <3>2. CASE Z!EncoderNext
      BY <2>1, <3>2, RatesEncode, RatesBuffer DEF Z!EncoderNext
    <3>3. CASE Z!DecoderNext
      BY <2>1, <3>3, RatesDecode DEF Z!DecoderNext
    <3> QED  BY <3>1, <3>2, <3>3
  <2>3. CASE UNCHANGED vars
    BY <2>1, <2>3 DEF vars, Z!RatesInv, Z!TypeOK, Z!EncoderRates, Z!DecoderRates,
       Z!SamplesCounted, Z!Counted, Z!NOT_IN_CALL, Z!FRAME_LENGTH_MS
  <2> QED  BY <2>2, <2>3
<1> QED  BY <1>1, <1>2, PTL DEF Spec

(* Whichever rates follow one another, audio goes through a resampler for  *)
(* those it has, that writes as many samples as its user counts on; the    *)
(* encoder takes what a call has brought and no more than a frame.         *)
THEOREM RatesFollowed == Spec => []SamplesCounted
<1>1. (part \in RATES => Z!RatesInv) => SamplesCounted
  BY DEF SamplesCounted, Z!RatesInv
<1> QED  BY <1>1, RatesBehaviour, PTL

=============================================================================
