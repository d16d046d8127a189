-------------------------- MODULE SilkStreamProofs ---------------------------
(***************************************************************************)
(* What holds of both halves of tsilk.c for every frame length, every way  *)
(* to cut the audio or the stream into chunks, every size of the encoded   *)
(* frames and every block the buffers grow by: the encoder stays inside    *)
(* its output buffer, lags by a bounded amount, and loses, repeats or      *)
(* reorders nothing; the decoder hands the codec the frames of the stream, *)
(* whole, in order and as soon as they have come.                          *)
(***************************************************************************)
EXTENDS MCSilk, SumTheorems, SequenceTheorems

(* The shape of the buffers ...                                            *)
Buffers ==
  /\ {chunk, in, held} \subseteq Seq(Nat)
  /\ fed \in Nat
  /\ out \in [audio: Seq(Nat), length: Nat, size: Nat]

(* ... and how full they are: out may reach SILKSIZE only within a call,   *)
(* or when the codec has failed and the call returned early.               *)
Levels ==
  /\ Len(in) < FRAME
  /\ out.length <= out.size
  /\ pc = "idle" /\ ~broken => out.length < SILKSIZE

EInv == Buffers /\ Levels

(* The grown buffer has room for the frame it is grown for.                *)
LEMMA GrownFits ==
  ASSUME NEW n \in Nat, out.length \in Nat
  PROVE  Grown(n) \in Nat /\ out.length + SHORT + n <= Grown(n)
<1> DEFINE x == out.length + SHORT + n
<1>1. x \in Nat
  BY DEF SHORT
<1> HIDE DEF x
<1>2. (x \div 8192) * 8192 + 8192 \in Nat /\ x <= (x \div 8192) * 8192 + 8192
  BY <1>1
<1> QED
  BY <1>2 DEF Grown, BLOCK, x

(* The initial buffers.                                                    *)
LEMMA EncoderInit == Init => EInv
BY FrameAssumption DEF Init, EInv, Buffers, Levels, BLOCK, SILKSIZE

(* A chunk is posted.                                                      *)
LEMMA PostDataKeeps ==
  ASSUME EInv, PostData
  PROVE  EInv'
<1>1. PICK n \in ChunkLen : chunk' = [i \in 1..n |-> fed + i] /\ fed' = fed + n
  BY DEF PostData
<1>2. n \in Nat
  BY SizesAssumption
<1>3. chunk' \in Seq(Nat) /\ fed' \in Nat
  BY <1>1, <1>2 DEF EInv, Buffers
<1> QED
  BY <1>3 DEF EInv, Buffers, Levels, PostData

(* A frame is encoded.                                                     *)
LEMMA EncodeFrameKeeps ==
  ASSUME EInv, EncodeFrame
  PROVE  EInv'
<1>1. Missing \in Nat \ {0} /\ Missing <= Len(chunk)
  BY FrameAssumption DEF EInv, Buffers, Levels, Missing, EncodeFrame
<1>2. chunk' \in Seq(Nat) /\ in' = <<>>
  BY SMTT(60), <1>1 DEF EInv, Buffers, EncodeFrame
<1>3. NextFrame \in Seq(Nat)
  BY <1>1 DEF NextFrame, EInv, Buffers
<1>4. held \o NextFrame \in Seq(Nat)
  BY <1>3 DEF EInv, Buffers
<1>5. PICK n \in CodeLen :
        IF n > 0
        THEN Emit(held \o NextFrame, n) /\ held' = <<>>
        ELSE held' = held \o NextFrame /\ UNCHANGED out
  BY DEF EncodeFrame
<1>6. n \in Nat
  BY SizesAssumption
<1> DEFINE audio == held \o NextFrame
           size  == IF TooSmall(n) THEN Grown(n) ELSE out.size
<1>7. size \in Nat /\ out.length + SHORT + n <= size
  <2>1. out.length \in Nat /\ out.size \in Nat
    BY DEF EInv, Buffers
  <2>2. CASE TooSmall(n)
    BY <1>6, <2>1, <2>2, GrownFits
  <2>3. CASE ~TooSmall(n)
    BY <1>6, <2>1, <2>3 DEF TooSmall, SHORT
  <2> QED
    BY <2>2, <2>3
<1>8. out.audio \o audio \in Seq(Nat)
  BY <1>4 DEF EInv, Buffers
<1>9. /\ out' \in [audio: Seq(Nat), length: Nat, size: Nat]
      /\ out'.length <= out'.size
      /\ held' \in Seq(Nat)
  <2>1. CASE n > 0
    <3>1. out' = [audio |-> out.audio \o audio, length |-> out.length + SHORT + n,
                  size |-> size]
      BY <1>5, <2>1 DEF Emit
    <3>2. out.length + SHORT + n \in Nat
      BY <1>6 DEF EInv, Buffers, SHORT
    <3> HIDE DEF size, audio
    <3> QED
      BY <1>5, <1>7, <1>8, <2>1, <3>1, <3>2
  <2>2. CASE ~(n > 0)
    BY <1>4, <1>5, <2>2 DEF EInv, Buffers, Levels
  <2> QED
    BY <2>1, <2>2
<1> QED
  BY <1>2, <1>9, FrameAssumption DEF EInv, Buffers, Levels, EncodeFrame

(* What is left of the chunk waits for the next one.                       *)
LEMMA KeepRestKeeps ==
  ASSUME EInv, KeepRest
  PROVE  EInv'
<1>1. in' \in Seq(Nat) /\ Len(in') = Len(in) + Len(chunk)
  BY DEF KeepRest, Remainder, EInv, Buffers
<1>2. Len(in') < FRAME
  BY <1>1, FrameAssumption DEF KeepRest, Missing, EInv, Buffers, Levels
<1> QED
  BY <1>1, <1>2 DEF EInv, Buffers, Levels, KeepRest

(* EInv is inductive.                                                      *)
LEMMA EncoderStep == EInv /\ [Next]_vars => EInv'
<1> SUFFICES ASSUME EInv, [Next]_vars PROVE EInv'
  OBVIOUS
<1>1. CASE PostData
  BY <1>1, PostDataKeeps
<1>2. CASE EncodeFrame
  BY <1>2, EncodeFrameKeeps
<1>3. CASE EncodeFailed
  BY <1>3, FrameAssumption DEF EncodeFailed, EInv, Buffers, Levels
<1>4. CASE KeepRest
  BY <1>4, KeepRestKeeps
<1>5. CASE Buffer
  BY <1>5 DEF Buffer, Buffering, EInv, Buffers, Levels
<1>6. CASE Queue
  <2>1. out.size \in Nat
    BY DEF EInv, Buffers
  <2>2. out' = [audio |-> <<>>, length |-> 0, size |-> out.size]
    BY <1>6 DEF Queue, Emptied
  <2>3. <<>> \in Seq(Nat)
    OBVIOUS
  <2>4. out' \in [audio: Seq(Nat), length: Nat, size: Nat]
    BY <2>1, <2>2, <2>3
  <2>5. out'.length = 0 /\ out'.size \in Nat
    BY <2>1, <2>2
  <2> QED
    BY <1>6, <2>4, <2>5 DEF Queue, EInv, Buffers, Levels, SILKSIZE
<1>7. CASE UNCHANGED vars
  BY <1>7 DEF vars, EInv, Buffers, Levels
<1> QED
  BY <1>1, <1>2, <1>3, <1>4, <1>5, <1>6, <1>7 DEF Next

-----------------------------------------------------------------------------

(* tsilk_in writes nothing past the end of ptk->out.buf.                   *)
THEOREM OutputFits == Spec => []OutFits
<1>1. EInv => OutFits
  BY DEF EInv, Levels, OutFits
<1> QED
  BY <1>1, EncoderInit, EncoderStep, PTL DEF Spec

(* Between two calls of CloudVDPostData less than a frame of PCM and less  *)
(* than SILKSIZE bytes of encoded audio are held back, unless the codec    *)
(* has failed.                                                             *)
THEOREM BoundedLag == Spec => []LagBounded
<1>1. EInv => LagBounded
  BY DEF EInv, Levels, LagBounded
<1> QED
  BY <1>1, EncoderInit, EncoderStep, PTL DEF Spec

-----------------------------------------------------------------------------
(* The stream of the audio.                                                *)

(* Concatenation, of which only the following lemmas are used.             *)
Then(s, t) == s \o t

(* Sequences of numbers are closed under it, ...                           *)
LEMMA ThenTyped == \A s, t \in Seq(Nat) : Then(s, t) \in Seq(Nat)
BY DEF Then

(* ... and it is associative, ...                                          *)
LEMMA ThenAssociative ==
  \A s, t, u \in Seq(Nat) : Then(Then(s, t), u) = Then(s, Then(t, u))
BY SMTT(60), ConcatAssociative DEF Then

(* ... and the empty sequence is neutral.                                  *)
LEMMA ThenEmpty == <<>> \in Seq(Nat) /\ \A s \in Seq(Nat) : Then(s, <<>>) = s
BY DEF Then

(* A sequence cut in two.                                                  *)
LEMMA Cut ==
  ASSUME NEW c \in Seq(Nat), NEW m \in 0..Len(c)
  PROVE  /\ SubSeq(c, 1, m) \in Seq(Nat) /\ SubSeq(c, m + 1, Len(c)) \in Seq(Nat)
         /\ Then(SubSeq(c, 1, m), SubSeq(c, m + 1, Len(c))) = c
<1>1. SubSeq(c, 1, m) \in Seq(Nat) /\ SubSeq(c, m + 1, Len(c)) \in Seq(Nat)
  OBVIOUS
<1>2. SubSeq(c, 1, m) \o SubSeq(c, m + 1, Len(c)) = SubSeq(c, 1, Len(c))
  <2>1. 1 \in 1..Len(c)+1 /\ m \in (1-1)..Len(c) /\ Len(c) \in m..Len(c)
    OBVIOUS
  <2> QED
    BY <2>1, ConcatAdjacentSubSeq
<1>3. SubSeq(c, 1, Len(c)) = c
  BY SubSeqFull
<1>4. Then(SubSeq(c, 1, m), SubSeq(c, m + 1, Len(c))) = c
  BY <1>2, <1>3, Zenon DEF Then
<1> QED
  BY <1>1, <1>4, Zenon

(* Five sequences joined, and a frame made up from three.                  *)
Joined(s, q, h, i, c) == Then(Then(Then(Then(s, q), h), i), c)

Framed(h, i, p) == Then(h, Then(i, p))

(* Numbers counted on are in order.                                        *)
LEMMA Count ==
  ASSUME NEW a \in Nat, NEW n \in Nat
  PROVE  Then([i \in 1..a |-> i], [i \in 1..n |-> a + i]) = [i \in 1..a+n |-> i]
<1> DEFINE x == [i \in 1..a |-> i]
           y == [i \in 1..n |-> a + i]
           z == [i \in 1..a+n |-> i]
<1>1. /\ x \in Seq(Nat) /\ Len(x) = a
      /\ y \in Seq(Nat) /\ Len(y) = n
      /\ z \in Seq(Nat) /\ Len(z) = a + n
  OBVIOUS
<1>2. ASSUME NEW i \in 1..a+n PROVE (x \o y)[i] = z[i]
  <2>1. (x \o y)[i] = IF i <= Len(x) THEN x[i] ELSE y[i - Len(x)]
    BY <1>1, ConcatProperties
  <2> QED
    BY <1>1, <2>1
<1>3. x \o y \in Seq(Nat) /\ Len(x \o y) = a + n
  BY <1>1, ConcatProperties
<1>4. x \o y = z
  BY <1>1, <1>2, <1>3, SeqEqual
<1> QED
  BY <1>4 DEF Then

-----------------------------------------------------------------------------

(* Stream in terms of Then.                                                *)
LEMMA StreamJoined == Stream = Joined(sent, out.audio, held, in, chunk)
BY DEF Stream, Joined, Then

(* The same of the next state.                                             *)
LEMMA StreamJoinedNext == Stream' = Joined(sent', out'.audio, held', in', chunk')
BY DEF Stream, Joined, Then

(* What NothingLost rests on: chunk is consumed before tsilk_out.          *)
Consumed ==
  /\ sent \in Seq(Nat)
  /\ pc \in {"idle", "tsilk_out"} => chunk = <<>>

SInv == EInv /\ Consumed /\ NothingLost

(* The buffers are sequences of numbers.                                   *)
LEMMA Sequences ==
  ASSUME SInv
  PROVE  /\ sent \in Seq(Nat) /\ out.audio \in Seq(Nat) /\ held \in Seq(Nat)
         /\ in \in Seq(Nat) /\ chunk \in Seq(Nat)
BY DEF SInv, EInv, Buffers, Consumed

(* Nothing is posted yet.                                                  *)
LEMMA StreamInit == Init => Consumed /\ NothingLost
<1> SUFFICES ASSUME Init PROVE Consumed /\ NothingLost
  OBVIOUS
<1>1. Stream = <<>>
  BY StreamJoined, ThenEmpty DEF Init, Joined
<1>2. [i \in 1..fed |-> i] = <<>>
  BY DEF Init
<1> QED
  BY <1>1, <1>2, ThenEmpty DEF Init, Consumed, NothingLost

(* What is posted is next in the stream.                                   *)
LEMMA PostDataStream ==
  ASSUME SInv, PostData
  PROVE  NothingLost'
<1> SUFFICES ASSUME ~broken PROVE Stream' = [i \in 1..fed' |-> i]
  BY DEF NothingLost, PostData
<1>1. PICK n \in ChunkLen : chunk' = [i \in 1..n |-> fed + i] /\ fed' = fed + n
  BY DEF PostData
<1>2. n \in Nat /\ fed \in Nat
  BY SizesAssumption DEF SInv, EInv, Buffers
<1> DEFINE held_back == Then(Then(Then(sent, out.audio), held), in)
<1>3. held_back \in Seq(Nat)
  BY Sequences, ThenTyped
<1> HIDE DEF held_back
<1>4. Stream = Then(held_back, <<>>)
  BY StreamJoined DEF SInv, Consumed, PostData, Joined, held_back
<1>5. held_back = [i \in 1..fed |-> i]
  BY <1>3, <1>4, ThenEmpty DEF SInv, NothingLost
<1>6. Stream' = Then(held_back, chunk')
  BY StreamJoinedNext DEF PostData, Joined, held_back
<1> QED
  BY <1>1, <1>2, <1>5, <1>6, Count

(* An encoded frame moves to ptk->out, or waits in the codec.              *)
LEMMA EncodeFrameStream ==
  ASSUME SInv, EncodeFrame
  PROVE  NothingLost'
<1> DEFINE p == SubSeq(chunk, 1, Missing)
           r == SubSeq(chunk, Missing + 1, Len(chunk))
           frame == Framed(held, in, p)
<1>1. Missing \in 0..Len(chunk)
  BY FrameAssumption DEF SInv, EInv, Buffers, Levels, Missing, EncodeFrame
<1>2. p \in Seq(Nat) /\ r \in Seq(Nat) /\ Then(p, r) = chunk
  BY <1>1, Sequences, Cut
<1>3. held \o NextFrame = frame
  BY DEF NextFrame, Framed, Then
<1>4. chunk' = r /\ in' = <<>> /\ fed' = fed /\ sent' = sent /\ broken' = broken
  BY DEF EncodeFrame
<1>5. PICK n \in CodeLen :
        IF n > 0
        THEN Emit(held \o NextFrame, n) /\ held' = <<>>
        ELSE held' = held \o NextFrame /\ UNCHANGED out
  BY DEF EncodeFrame
<1> HIDE DEF p, r
<1>6. Then(in, p) \in Seq(Nat)
  BY <1>2, Sequences, ThenTyped
<1>7. frame \in Seq(Nat)
  BY <1>6, Sequences, ThenTyped DEF Framed
<1>8. /\ Stream = Then(Then(sent, Then(out.audio, frame)), r)
      /\ Stream = Then(Then(Then(sent, out.audio), frame), r)
  <2>1. Then(sent, out.audio) \in Seq(Nat)
    BY Sequences, ThenTyped
  <2>2. Then(Then(sent, out.audio), held) \in Seq(Nat)
    BY <2>1, Sequences, ThenTyped
  <2>3. Then(Then(Then(sent, out.audio), held), in) \in Seq(Nat)
    BY <2>2, Sequences, ThenTyped
  <2>4. Then(Then(sent, out.audio), frame) = Then(sent, Then(out.audio, frame))
    BY <1>7, Sequences, ThenAssociative
  <2>5. Then(Then(Then(sent, out.audio), held), Then(in, p)) = Then(Then(sent, out.audio), frame)
    BY <1>6, <2>1, Sequences, ThenAssociative DEF Framed
  <2>6. Then(Then(Then(Then(sent, out.audio), held), in), p)
          = Then(Then(Then(sent, out.audio), held), Then(in, p))
    BY <1>2, <2>2, Sequences, ThenAssociative
  <2>7. Then(Then(Then(Then(Then(sent, out.audio), held), in), p), r)
          = Then(Then(Then(Then(sent, out.audio), held), in), Then(p, r))
    BY <1>2, <2>3, ThenAssociative
  <2>8. Stream = Then(Then(Then(Then(Then(sent, out.audio), held), in), p), r)
    BY <1>2, <2>7, StreamJoined DEF Joined
  <2> QED
    BY <2>4, <2>5, <2>6, <2>8
<1> HIDE DEF frame
<1>9. CASE n > 0
  <2>1. Emit(frame, n) /\ held' = <<>>
    BY <1>3, <1>5, <1>9
  <2>2. out'.audio = Then(out.audio, frame)
    BY <2>1 DEF Emit, Then
  <2>3. Then(out.audio, frame) \in Seq(Nat)
    BY <1>7, Sequences, ThenTyped
  <2>4. Then(sent, Then(out.audio, frame)) \in Seq(Nat)
    BY <2>3, Sequences, ThenTyped
  <2>5. Stream' = Then(Then(sent, Then(out.audio, frame)), r)
    BY <1>4, <2>1, <2>2, <2>4, StreamJoinedNext, ThenEmpty DEF Joined
  <2> QED
    BY <1>4, <1>8, <2>5 DEF SInv, NothingLost
<1>10. CASE ~(n > 0)
  <2>1. out' = out /\ held' = frame
    BY <1>3, <1>5, <1>10
  <2>2. Then(sent, out.audio) \in Seq(Nat)
    BY Sequences, ThenTyped
  <2>3. Then(Then(sent, out.audio), frame) \in Seq(Nat)
    BY <1>7, <2>2, ThenTyped
  <2>4. Stream' = Then(Then(Then(sent, out.audio), frame), r)
    BY <1>4, <2>1, <2>3, StreamJoinedNext, ThenEmpty DEF Joined
  <2> QED
    BY <1>4, <1>8, <2>4 DEF SInv, NothingLost
<1> QED
  BY <1>9, <1>10

(* What is left of the chunk moves to ptk->in.                             *)
LEMMA KeepRestStream ==
  ASSUME SInv, KeepRest
  PROVE  NothingLost' /\ Consumed'
<1> DEFINE before == Then(Then(sent, out.audio), held)
<1>1. Then(sent, out.audio) \in Seq(Nat)
  BY Sequences, ThenTyped
<1>2. before \in Seq(Nat)
  BY <1>1, Sequences, ThenTyped
<1> HIDE DEF before
<1>3. Then(before, Then(in, chunk)) \in Seq(Nat)
  <2>1. Then(in, chunk) \in Seq(Nat)
    BY Sequences, ThenTyped
  <2> QED
    BY <1>2, <2>1, ThenTyped
<1>4. in' = Then(in, chunk) /\ chunk' = <<>>
  BY DEF KeepRest, Remainder, Then
<1>5. Stream' = Then(before, Then(in, chunk))
  BY <1>3, <1>4, StreamJoinedNext, ThenEmpty DEF KeepRest, Joined, before
<1>6. Stream = Then(Then(before, in), chunk)
  BY StreamJoined DEF Joined, before
<1>7. Stream' = Stream
  BY <1>2, <1>5, <1>6, Sequences, ThenAssociative
<1> QED
  BY <1>7 DEF SInv, Consumed, NothingLost, KeepRest

(* What is in ptk->out moves to a packet.                                  *)
LEMMA QueueStream ==
  ASSUME SInv, Queue
  PROVE  NothingLost' /\ Consumed'
<1>1. sent' = Then(sent, out.audio) /\ sent' \in Seq(Nat)
  BY Sequences, ThenTyped DEF Queue, Then
<1>2. out'.audio = <<>>
  BY DEF Queue, Emptied
<1>3. Stream' = Stream
  BY <1>1, <1>2, StreamJoined, StreamJoinedNext, ThenEmpty DEF Queue, Joined
<1> QED
  BY <1>1, <1>3 DEF SInv, Consumed, NothingLost, Queue

(* SInv is inductive.                                                      *)
LEMMA StreamStep == SInv /\ [Next]_vars => SInv'
<1> SUFFICES ASSUME SInv, [Next]_vars PROVE Consumed' /\ NothingLost'
  BY EncoderStep DEF SInv
<1>1. CASE PostData
  BY <1>1, PostDataStream DEF PostData, SInv, Consumed
<1>2. CASE EncodeFrame
  BY <1>2, EncodeFrameStream DEF EncodeFrame, SInv, Consumed
<1>3. CASE EncodeFailed
  BY <1>3 DEF EncodeFailed, SInv, Consumed, NothingLost
<1>4. CASE KeepRest
  BY <1>4, KeepRestStream
<1>5. CASE Buffer
  BY <1>5 DEF Buffer, SInv, Consumed, NothingLost, Stream
<1>6. CASE Queue
  BY <1>6, QueueStream
<1>7. CASE UNCHANGED vars
  BY <1>7 DEF vars, SInv, Consumed, NothingLost, Stream
<1> QED
  BY <1>1, <1>2, <1>3, <1>4, <1>5, <1>6, <1>7 DEF Next

(* Until the codec fails, tsilk_in and tsilk_out neither lose nor repeat   *)
(* nor reorder a byte of the audio.                                        *)
THEOREM StreamIntact == Spec => []NothingLost
<1>1. Init => SInv
  BY EncoderInit, StreamInit DEF SInv
<1>2. SInv => NothingLost
  BY DEF SInv
<1> QED
  BY <1>1, <1>2, StreamStep, PTL DEF Spec

-----------------------------------------------------------------------------
(* The decoder's stream.  Places in the stream, its bytes and its pieces   *)
(* depend on nothing but the lengths of its frames, here fr.               *)

(* The bytes of each frame, and of all the frames before frame k.          *)
Bytes(fr) == [k \in DOMAIN fr |-> SHORT + fr[k]]

Start(fr, k) == SumFunctionOnSet(Bytes(fr), 1..k - 1)

(* The byte at place p, and the bytes after the first a up to the b-th.    *)
FrameOf(fr, p) == CHOOSE k \in DOMAIN fr : Start(fr, k) < p /\ p <= Start(fr, k + 1)

StreamByte(fr, p) == <<FrameOf(fr, p), p - Start(fr, FrameOf(fr, p))>>

Piece(fr, a, b) == [i \in 1..b - a |-> StreamByte(fr, a + i)]

(* Places are numbers, the first is 0, and frame k takes the two bytes of  *)
(* its length and its own.                                                 *)
LEMMA StartIs ==
  ASSUME NEW fr \in Seq(Nat)
  PROVE  /\ Start(fr, 1) = 0
         /\ \A k \in 1..Len(fr) + 1 : Start(fr, k) \in Nat
         /\ \A k \in 1..Len(fr) : Start(fr, k + 1) = Start(fr, k) + SHORT + fr[k]
<1> DEFINE f == Bytes(fr)
<1>1. \A k \in 1..Len(fr) : f[k] = SHORT + fr[k] /\ f[k] \in Nat
  BY DEF Bytes, SHORT
<1> HIDE DEF f
<1>2. Start(fr, 1) = 0
  <2>1. 1..1 - 1 = {}
    OBVIOUS
  <2> QED  BY <2>1, SumOfNone DEF Start
<1>3. ASSUME NEW k \in 1..Len(fr) + 1 PROVE Start(fr, k) \in Nat
  <2>1. IsFiniteSet(1..k - 1)
    BY FS_Interval
  <2>2. \A x \in 1..k - 1 : f[x] \in Nat
    BY <1>1
  <2> QED  BY <2>1, <2>2, SumIsNat DEF Start, f
<1>4. ASSUME NEW k \in 1..Len(fr) PROVE Start(fr, k + 1) = Start(fr, k) + SHORT + fr[k]
  <2>1. IsFiniteSet(1..k)
    BY FS_Interval
  <2>2. \A x \in 1..k : f[x] \in Int
    BY <1>1
  <2>3. (1..k) \ {k} = 1..k - 1 /\ 1..(k + 1) - 1 = 1..k /\ k \in 1..k
    OBVIOUS
  <2>4. SumFunctionOnSet(f, 1..k) = f[k] + SumFunctionOnSet(f, (1..k) \ {k})
    BY <2>1, <2>2, <2>3, SumWithout
  <2>5. Start(fr, k + 1) = f[k] + Start(fr, k)
    BY <2>3, <2>4 DEF Start, f
  <2>6. Start(fr, k) \in Nat /\ fr[k] \in Nat
    BY <1>3
  <2>7. f[k] = SHORT + fr[k]
    BY <1>1
  <2>8. \A x, y \in Nat : (2 + y) + x = x + 2 + y
    OBVIOUS
  <2> QED  BY <2>5, <2>6, <2>7, <2>8, Zenon DEF SHORT
<1> QED  BY <1>2, <1>3, <1>4

(* Frames come one after the other.                                        *)
LEMMA StartGrows ==
  ASSUME NEW fr \in Seq(Nat), NEW j \in 1..Len(fr) + 1, NEW k \in j..Len(fr) + 1
  PROVE  Start(fr, j) <= Start(fr, k)
<1> DEFINE f == Bytes(fr)
<1>1. \A x \in 1..k - 1 : f[x] \in Nat
  BY DEF Bytes, SHORT
<1>2. IsFiniteSet(1..k - 1)
  BY FS_Interval
<1>3. 1..j - 1 \in SUBSET (1..k - 1)
  OBVIOUS
<1> HIDE DEF f
<1> QED  BY <1>1, <1>2, <1>3, SumOfPart DEF Start, f

(* A frame with a byte at place p is the one ...                           *)
LEMMA FrameIs ==
  ASSUME NEW fr \in Seq(Nat), NEW p \in Nat, NEW k \in 1..Len(fr),
         Start(fr, k) < p, p <= Start(fr, k + 1),
         NEW j \in 1..Len(fr), Start(fr, j) < p, p <= Start(fr, j + 1)
  PROVE  j = k
<1>1. /\ Start(fr, j) \in Nat /\ Start(fr, j + 1) \in Nat
      /\ Start(fr, k) \in Nat /\ Start(fr, k + 1) \in Nat
  BY StartIs
<1>2. CASE j < k
  <2>1. j + 1 \in 1..Len(fr) + 1 /\ k \in (j + 1)..Len(fr) + 1
    BY <1>2
  <2>2. Start(fr, j + 1) <= Start(fr, k)
    BY <2>1, StartGrows
  <2> QED  BY <1>1, <2>2
<1>3. CASE k < j
  <2>1. k + 1 \in 1..Len(fr) + 1 /\ j \in (k + 1)..Len(fr) + 1
    BY <1>3
  <2>2. Start(fr, k + 1) <= Start(fr, j)
    BY <2>1, StartGrows
  <2> QED  BY <1>1, <2>2
<1> QED  BY <1>2, <1>3

(* ... and there is one for every place in the stream.                     *)
LEMMA FrameExists ==
  ASSUME NEW fr \in Seq(Nat), NEW p \in 1..Start(fr, Len(fr) + 1)
  PROVE  \E k \in 1..Len(fr) : Start(fr, k) < p /\ p <= Start(fr, k + 1)
<1> DEFINE K == {k \in 1..Len(fr) + 1 : p <= Start(fr, k)}
<1>1. Start(fr, 1) = 0 /\ \A k \in 1..Len(fr) + 1 : Start(fr, k) \in Nat
  BY StartIs
<1>2. Len(fr) + 1 \in Nat /\ K \in SUBSET (1..Len(fr) + 1) /\ Len(fr) + 1 \in K
  BY <1>1
<1>3. PICK k \in K : k - 1 \notin K
  <2> HIDE DEF K
  <2> QED  BY <1>2, Lowest
<1>4. k # 1 /\ k - 1 \in 1..Len(fr)
  BY <1>1, <1>3
<1>5. Start(fr, k - 1) < p /\ p <= Start(fr, (k - 1) + 1)
  BY <1>1, <1>3, <1>4
<1> QED  BY <1>4, <1>5

(* The byte at a place of frame k.                                         *)
LEMMA ByteIs ==
  ASSUME NEW fr \in Seq(Nat), NEW p \in Nat, NEW k \in 1..Len(fr),
         Start(fr, k) < p, p <= Start(fr, k + 1)
  PROVE  StreamByte(fr, p) = <<k, p - Start(fr, k)>>
<1>1. DOMAIN fr = 1..Len(fr)
  OBVIOUS
<1>2. /\ FrameOf(fr, p) \in 1..Len(fr)
      /\ Start(fr, FrameOf(fr, p)) < p /\ p <= Start(fr, FrameOf(fr, p) + 1)
  BY <1>1, Zenon DEF FrameOf
<1>3. FrameOf(fr, p) = k
  BY <1>2, FrameIs
<1> QED  BY <1>3 DEF StreamByte

(* Pieces are sequences of bytes ...                                       *)
LEMMA PieceIs ==
  ASSUME NEW fr \in Seq(Nat), NEW b \in 0..Start(fr, Len(fr) + 1), NEW a \in 0..b
  PROVE  /\ Piece(fr, a, b) \in Seq((1..Len(fr)) \X Nat)
         /\ Len(Piece(fr, a, b)) = b - a
         /\ \A i \in 1..b - a : Piece(fr, a, b)[i] = StreamByte(fr, a + i)
<1>1. ASSUME NEW p \in 1..Start(fr, Len(fr) + 1)
      PROVE  StreamByte(fr, p) \in (1..Len(fr)) \X Nat
  <2>1. PICK k \in 1..Len(fr) : Start(fr, k) < p /\ p <= Start(fr, k + 1)
    BY FrameExists
  <2>2. StreamByte(fr, p) = <<k, p - Start(fr, k)>>
    BY <2>1, ByteIs
  <2>3. Start(fr, k) \in Nat
    BY StartIs
  <2>4. p - Start(fr, k) \in Nat
    BY <2>1, <2>3
  <2> QED  BY <2>2, <2>4
<1>2. \A i \in 1..b - a : a + i \in 1..Start(fr, Len(fr) + 1)
  <2>1. Start(fr, Len(fr) + 1) \in Nat
    BY StartIs
  <2> QED  BY <2>1
<1>3. \A i \in 1..b - a : StreamByte(fr, a + i) \in (1..Len(fr)) \X Nat
  BY <1>1, <1>2
<1>4. b - a \in Nat
  <2>1. Start(fr, Len(fr) + 1) \in Nat
    BY StartIs
  <2> QED  BY <2>1
<1> DEFINE n == b - a
           B == (1..Len(fr)) \X Nat
<1>5. Piece(fr, a, b) \in [1..n -> B] /\ n \in Nat
  BY <1>3, <1>4 DEF Piece
<1>6. \A i \in 1..n : Piece(fr, a, b)[i] = StreamByte(fr, a + i)
  BY DEF Piece
<1>7. Piece(fr, a, b) \in Seq(B) /\ Len(Piece(fr, a, b)) = n
  <2> HIDE DEF n, B
  <2> QED  BY <1>5
<1> QED  BY <1>6, <1>7

(* ... that can be cut ...                                                 *)
LEMMA PieceCut ==
  ASSUME NEW fr \in Seq(Nat), NEW c \in 0..Start(fr, Len(fr) + 1), NEW b \in 0..c,
         NEW a \in 0..b
  PROVE  /\ SubSeq(Piece(fr, a, c), 1, b - a) = Piece(fr, a, b)
         /\ SubSeq(Piece(fr, a, c), (b - a) + 1, Len(Piece(fr, a, c))) = Piece(fr, b, c)
<1> DEFINE B == (1..Len(fr)) \X Nat
           s == Piece(fr, a, c)
           h == Piece(fr, a, b)
           t == Piece(fr, b, c)
           n == b - a
           m == c - a
<1>0. Start(fr, Len(fr) + 1) \in Nat
  BY StartIs
<1>1. /\ a \in 0..c /\ b \in 0..Start(fr, Len(fr) + 1)
      /\ n \in Nat /\ m \in Nat /\ n <= m /\ c - b = m - n
  BY <1>0
<1>2. s \in Seq(B) /\ Len(s) = m /\ \A i \in 1..m : s[i] = StreamByte(fr, a + i)
  BY <1>1, PieceIs
<1>3. h \in Seq(B) /\ Len(h) = n /\ \A i \in 1..n : h[i] = StreamByte(fr, a + i)
  BY <1>1, PieceIs
<1>4. t \in Seq(B) /\ Len(t) = m - n
      /\ \A i \in 1..m - n : t[i] = StreamByte(fr, b + i)
  <2>1. Len(t) = c - b /\ \A i \in 1..c - b : t[i] = StreamByte(fr, b + i)
    BY PieceIs
  <2>2. t \in Seq(B)
    BY PieceIs
  <2> HIDE DEF t, n, m, B
  <2> QED  BY <1>1, <2>1, <2>2
<1>5. SubSeq(s, 1, n) = h
  <2> HIDE DEF s, h, n, m, B
  <2>1. SubSeq(s, 1, n) \in Seq(B) /\ Len(SubSeq(s, 1, n)) = n
        /\ \A i \in 1..n : SubSeq(s, 1, n)[i] = s[i]
    BY <1>1, <1>2
  <2>2. \A i \in 1..n : SubSeq(s, 1, n)[i] = h[i]
    BY <1>1, <1>2, <1>3, <2>1
  <2> QED  BY <1>3, <2>1, <2>2, SeqEqual
<1>6. SubSeq(s, n + 1, m) = t
  <2>1. \A i \in 1..m - n : StreamByte(fr, a + (n + i)) = StreamByte(fr, b + i)
    <3>1. ASSUME NEW i \in 1..m - n PROVE a + (n + i) = b + i
      OBVIOUS
    <3> QED  BY <3>1
  <2> HIDE DEF s, t, n, m, B
  <2>2. SubSeq(s, n + 1, m) \in Seq(B) /\ Len(SubSeq(s, n + 1, m)) = m - n
        /\ \A i \in 1..m - n : SubSeq(s, n + 1, m)[i] = s[n + i]
    BY <1>1, <1>2
  <2>3. ASSUME NEW i \in 1..m - n PROVE SubSeq(s, n + 1, m)[i] = t[i]
    <3>1. n + i \in 1..m
      BY <1>1
    <3> QED  BY <1>2, <1>4, <2>1, <2>2, <3>1
  <2> QED  BY <1>4, <2>2, <2>3, SeqEqual
<1> QED  BY <1>2, <1>5, <1>6

(* ... and joined; ...                                                     *)
LEMMA PieceJoin ==
  ASSUME NEW fr \in Seq(Nat), NEW c \in 0..Start(fr, Len(fr) + 1), NEW b \in 0..c,
         NEW a \in 0..b
  PROVE  Piece(fr, a, b) \o Piece(fr, b, c) = Piece(fr, a, c)
<1> DEFINE B == (1..Len(fr)) \X Nat
           s == Piece(fr, a, c)
           h == Piece(fr, a, b)
           t == Piece(fr, b, c)
           n == b - a
<1>0. Start(fr, Len(fr) + 1) \in Nat
  BY StartIs
<1>1. /\ a \in 0..c /\ b \in 0..Start(fr, Len(fr) + 1)
      /\ n \in 0..c - a /\ c - a \in Nat
  BY <1>0
<1>2. s \in Seq(B) /\ Len(s) = c - a
  BY <1>1, PieceIs
<1>3. h = SubSeq(s, 1, n) /\ t = SubSeq(s, n + 1, Len(s))
  BY PieceCut
<1>4. h \o t = s
  <2> HIDE DEF s, t, h, n, B
  <2>1. 1 \in 1..Len(s)+1 /\ n \in (1-1)..Len(s) /\ Len(s) \in n..Len(s)
    BY <1>1, <1>2
  <2>2. SubSeq(s, 1, n) \o SubSeq(s, n + 1, Len(s)) = SubSeq(s, 1, Len(s))
    BY <1>2, <2>1, ConcatAdjacentSubSeq
  <2>3. SubSeq(s, 1, Len(s)) = s
    BY <1>2, SubSeqFull
  <2> QED  BY <1>3, <2>2, <2>3
<1> QED  BY <1>4

(* ... there is nothing between a place and itself.                        *)
LEMMA PieceEmpty ==
  ASSUME NEW fr \in Seq(Nat), NEW a \in 0..Start(fr, Len(fr) + 1)
  PROVE  Piece(fr, a, a) = <<>>
<1>1. Start(fr, Len(fr) + 1) \in Nat
  BY StartIs
<1>2. a \in 0..a /\ a - a = 0
  BY <1>1
<1>3. Len(Piece(fr, a, a)) = 0 /\ Piece(fr, a, a) \in Seq((1..Len(fr)) \X Nat)
  BY <1>2, PieceIs
<1> QED  BY <1>3

(* What tsilk_in takes for the length of a frame that begins here is its   *)
(* length.                                                                 *)
LEMMA PieceHead ==
  ASSUME NEW fr \in Seq(Nat), NEW k \in 1..Len(fr),
         NEW b \in Start(fr, k) + SHORT..Start(fr, Len(fr) + 1)
  PROVE  /\ Piece(fr, Start(fr, k), b)[1] = <<k, 1>>
         /\ Piece(fr, Start(fr, k), b)[2] = <<k, 2>>
<1> DEFINE a == Start(fr, k)
<1>1. /\ a \in Nat /\ Start(fr, k + 1) \in Nat /\ Start(fr, Len(fr) + 1) \in Nat
      /\ Start(fr, k + 1) = a + SHORT + fr[k] /\ fr[k] \in Nat
  BY StartIs
<1>2. b \in 0..Start(fr, Len(fr) + 1) /\ a \in 0..b /\ 1 \in 1..b - a /\ 2 \in 1..b - a
  <2> HIDE DEF a
  <2> QED  BY SMTT(60), <1>1 DEF SHORT, a
<1>3. Piece(fr, a, b)[1] = StreamByte(fr, a + 1) /\ Piece(fr, a, b)[2] = StreamByte(fr, a + 2)
  BY <1>2, PieceIs
<1>4. /\ a + 1 \in Nat /\ a < a + 1 /\ a + 1 <= Start(fr, k + 1)
      /\ a + 2 \in Nat /\ a < a + 2 /\ a + 2 <= Start(fr, k + 1)
  <2> HIDE DEF a
  <2> QED  BY <1>1 DEF SHORT
<1>5. StreamByte(fr, a + 1) = <<k, (a + 1) - a>> /\ StreamByte(fr, a + 2) = <<k, (a + 2) - a>>
  BY <1>4, ByteIs
<1>6. (a + 1) - a = 1 /\ (a + 2) - a = 2
  <2> HIDE DEF a
  <2> QED  BY <1>1
<1> QED  BY <1>3, <1>5, <1>6, Zenon

(* A frame without the two bytes of its length.                            *)
LEMMA PieceWhole ==
  ASSUME NEW fr \in Seq(Nat), NEW k \in 1..Len(fr)
  PROVE  Piece(fr, Start(fr, k) + SHORT, Start(fr, k + 1))
           = [i \in 1..fr[k] |-> <<k, SHORT + i>>]
<1> DEFINE a == Start(fr, k)
           z == Start(fr, k + 1)
           e == Start(fr, Len(fr) + 1)
           n == fr[k]
           s == Piece(fr, a + 2, z)
           w == [i \in 1..n |-> <<k, 2 + i>>]
<1>1. a \in Nat /\ z \in Nat /\ e \in Nat /\ z = a + 2 + n /\ n \in Nat
  BY StartIs DEF SHORT
<1>2. z <= e
  <2>1. k + 1 \in 1..Len(fr) + 1 /\ Len(fr) + 1 \in (k + 1)..Len(fr) + 1
    OBVIOUS
  <2> QED  BY <2>1, StartGrows
<1>3. z \in 0..e /\ a + 2 \in 0..z /\ z - (a + 2) = n
  <2> HIDE DEF a, z, e, n
  <2> QED  BY <1>1, <1>2
<1>4. s \in Seq((1..Len(fr)) \X Nat) /\ Len(s) = n
      /\ \A i \in 1..n : s[i] = StreamByte(fr, (a + 2) + i)
  BY <1>3, PieceIs
<1>5. ASSUME NEW i \in 1..n PROVE StreamByte(fr, (a + 2) + i) = <<k, 2 + i>>
  <2>1. (a + 2) + i \in Nat /\ a < (a + 2) + i /\ (a + 2) + i <= z /\ ((a + 2) + i) - a = 2 + i
    <3> HIDE DEF a, z, e, n
    <3> QED  BY <1>1
  <2>2. StreamByte(fr, (a + 2) + i) = <<k, ((a + 2) + i) - a>>
    BY <2>1, ByteIs
  <2> QED  BY <2>1, <2>2, Zenon
<1>6. w \in Seq((1..Len(fr)) \X Nat) /\ Len(w) = n
  <2> HIDE DEF n
  <2>1. \A i \in 1..n : <<k, 2 + i>> \in (1..Len(fr)) \X Nat
    BY <1>1
  <2> QED  BY <1>1, <2>1
<1>7. \A i \in 1..n : s[i] = w[i]
  BY <1>4, <1>5
<1>8. s = w
  <2> HIDE DEF s, w, n
  <2> QED  BY <1>1, <1>4, <1>6, <1>7, SeqEqual
<1> QED  BY <1>8 DEF SHORT

-----------------------------------------------------------------------------
(* The decoder's invariant.                                                *)

(* The frame the decoder is to decode next, and where it begins.           *)
Coming == Len(decoded) + 1

Here == Start(frames, Coming)

(* How far ptk->in reaches when it holds a frame begun.                    *)
Reached == Here + Len(din.data)

(* Between two calls all that has come of the next frame is in ptk->in.    *)
Waiting ==
  /\ piece = <<>>
  /\ din.data = Piece(frames, Here, came)
  /\ Coming <= Len(frames) => came < Start(frames, Coming + 1)

(* Between two frames it is in the chunk.                                  *)
Looking ==
  /\ din.data = <<>>
  /\ piece = Piece(frames, Here, came)

(* Resuming a frame its beginning is in ptk->in and the rest in the chunk. *)
Resuming ==
  /\ Coming <= Len(frames)
  /\ Len(din.data) > 0
  /\ Reached <= Start(frames, Coming + 1)
  /\ Reached <= came
  /\ Len(din.data) = 1 => Reached < came
  /\ din.data = Piece(frames, Here, Reached)
  /\ piece = Piece(frames, Reached, came)

Places ==
  /\ Here <= came
  /\ refused => dpc = "idle"
  /\ ~refused /\ dpc = "idle" => Waiting
  /\ ~refused /\ dpc = "loop" => Looking
  /\ ~refused /\ dpc = "resume" => Resuming

(* The types of the decoder's variables, din and dout field by field.      *)
InTyped(r) == /\ r.data \in Seq(D!Byte) /\ r.size \in Nat
              /\ INBLOCK <= r.size /\ Len(r.data) <= r.size
              /\ r = [data |-> r.data, size |-> r.size]

OutTyped(r) == /\ r.length \in Nat /\ r.size \in Nat /\ r.length <= r.size
               /\ r = [length |-> r.length, size |-> r.size]

DTypes ==
  /\ frames \in Seq(FrameLen) /\ Len(frames) <= MaxFrames
  /\ came \in 0..Start(frames, Len(frames) + 1)
  /\ dpc \in {"idle", "resume", "loop"}
  /\ piece \in Seq(D!Byte)
  /\ InTyped(din)
  /\ OutTyped(dout)
  /\ decoded \in Seq(Seq(D!Byte)) /\ Len(decoded) <= Len(frames)
  /\ refused \in BOOLEAN

DInv == DTypes /\ Places /\ D!FramesIntact

(* A sequence of elements of S is one of elements of every T around S.     *)
LEMMA WiderSeq ==
  ASSUME NEW S, NEW T, S \subseteq T, NEW s \in Seq(S)
  PROVE  s \in Seq(T)
<1>1. s \in [1..Len(s) -> T] /\ Len(s) \in Nat
  OBVIOUS
<1> QED  BY <1>1

(* A buffer that has grown has room for what it has grown for.             *)
LEMMA GrownEnough ==
  ASSUME NEW s \in Nat, NEW n \in Nat, NEW b \in Nat \ {0}
  PROVE  /\ D!Grown(s, n, b) \in Nat
         /\ n <= D!Grown(s, n, b) /\ s <= D!Grown(s, n, b)
<1> DEFINE q == n \div b
           r == n % b
<1>1. q \in Nat /\ r \in 0..b - 1 /\ n = b * q + r
  OBVIOUS
<1>2. q * b \in Nat /\ b * q = q * b
  <2> HIDE DEF q, r
  <2> QED  BY <1>1
<1> DEFINE x == q * b
<1>3. x \in Nat /\ n = x + r
  BY <1>1, <1>2
<1> HIDE DEF q, r, x
<1>4. x + b \in Nat /\ n <= x + b
  BY <1>1, <1>3
<1>5. D!Grown(s, n, b) = IF s < n THEN x + b ELSE s
  BY DEF D!Grown, x, q
<1> QED  BY <1>4, <1>5

(* The operators of the decoder's module are those of this one, ...        *)
LEMMA DecoderOperators ==
  /\ \A T : D!Cardinality(T) = Cardinality(T)
  /\ \A f, T : D!SumFunctionOnSet(f, T) = SumFunctionOnSet(f, T)
<1>1. ASSUME NEW T PROVE D!Cardinality(T) = Cardinality(T)
  BY DEF D!Cardinality, Cardinality
<1>2. ASSUME NEW f, NEW T PROVE D!SumFunctionOnSet(f, T) = SumFunctionOnSet(f, T)
  BY Zenon DEF D!SumFunctionOnSet, SumFunctionOnSet, D!FoldFunctionOnSet,
               FoldFunctionOnSet, D!MapThenFoldSet, MapThenFoldSet
<1> QED  BY <1>1, <1>2

(* ... and its places and pieces are those above.                          *)
LEMMA BeforeIs ==
  ASSUME frames \in Seq(Nat), NEW k \in 1..Len(frames) + 1
  PROVE  D!Before[k] = Start(frames, k)
<1>1. D!Before = [i \in 1..Len(frames) + 1 |-> SumFunctionOnSet(Bytes(frames), 1..i - 1)]
  <2>1. D!SHORT = SHORT
    BY DEF SHORT, D!SHORT
  <2>2. Bytes(frames) = [i \in DOMAIN frames |-> D!SHORT + frames[i]]
    BY <2>1 DEF Bytes
  <2>3. D!Before = [i \in 1..Len(frames) + 1 |->
                      D!SumFunctionOnSet(Bytes(frames), 1..i - 1)]
    BY <2>2, Zenon DEF D!Before
  <2> QED  BY <2>3, DecoderOperators
<1> QED  BY <1>1 DEF Start

LEMMA ByteAtIs ==
  ASSUME frames \in Seq(Nat), NEW p \in 1..Start(frames, Len(frames) + 1)
  PROVE  D!ByteAt(p) = StreamByte(frames, p)
<1>1. PICK k \in 1..Len(frames) : Start(frames, k) < p /\ p <= Start(frames, k + 1)
  BY FrameExists
<1> DEFINE j == CHOOSE j \in DOMAIN frames : D!Before[j] < p /\ p <= D!Before[j + 1]
<1>2. DOMAIN frames = 1..Len(frames)
  OBVIOUS
<1>3. /\ \A i \in 1..Len(frames) : i \in 1..Len(frames) + 1 /\ i + 1 \in 1..Len(frames) + 1
      /\ p \in Nat
  <2>1. Start(frames, Len(frames) + 1) \in Nat
    BY StartIs
  <2> QED  BY <2>1
<1>4. \A i \in 1..Len(frames) : D!Before[i] = Start(frames, i)
                                /\ D!Before[i + 1] = Start(frames, i + 1)
  BY <1>3, BeforeIs
<1>5. \E i \in DOMAIN frames : D!Before[i] < p /\ p <= D!Before[i + 1]
  BY <1>1, <1>2, <1>4
<1>6. j \in DOMAIN frames /\ D!Before[j] < p /\ p <= D!Before[j + 1]
  BY <1>5, Zenon
<1>7. D!ByteAt(p) = <<j, p - D!Before[j]>>
  BY DEF D!ByteAt
<1> HIDE DEF j
<1>8. j = k
  BY <1>1, <1>2, <1>3, <1>4, <1>6, FrameIs
<1>9. StreamByte(frames, p) = <<k, p - Start(frames, k)>>
  BY <1>1, <1>3, ByteIs
<1> QED  BY <1>4, <1>7, <1>8, <1>9

LEMMA WireIs ==
  ASSUME frames \in Seq(Nat), NEW b \in 0..Start(frames, Len(frames) + 1), NEW a \in 0..b
  PROVE  D!Wire(a, b) = Piece(frames, a, b)
<1>1. Start(frames, Len(frames) + 1) \in Nat
  BY StartIs
<1>2. \A i \in 1..b - a : a + i \in 1..Start(frames, Len(frames) + 1)
  BY <1>1
<1>3. \A i \in 1..b - a : D!ByteAt(a + i) = StreamByte(frames, a + i)
  BY <1>2, ByteAtIs
<1> QED  BY <1>3 DEF D!Wire, Piece

(* What all the actions need to know.                                      *)
LEMMA Basics ==
  ASSUME DInv
  PROVE  /\ frames \in Seq(Nat) /\ Start(frames, Len(frames) + 1) \in Nat
         /\ came \in Nat /\ came \in 0..Start(frames, Len(frames) + 1)
         /\ Here \in Nat /\ Here \in 0..came
         /\ Coming \in 1..Len(frames) + 1 /\ Coming = Len(decoded) + 1
         /\ Coming \in 1..Len(frames) =>
              /\ frames[Coming] \in Nat
              /\ Start(frames, Coming + 1) \in Nat
              /\ Start(frames, Coming + 1) = Here + 2 + frames[Coming]
              /\ Start(frames, Coming + 1) <= Start(frames, Len(frames) + 1)
         /\ ~(Coming \in 1..Len(frames)) => Here = came
<1>1. frames \in Seq(Nat)
  BY PieceAssumption, WiderSeq DEF DInv, DTypes
<1>2. /\ Start(frames, 1) = 0
      /\ \A k \in 1..Len(frames) + 1 : Start(frames, k) \in Nat
      /\ \A k \in 1..Len(frames) : Start(frames, k + 1) = Start(frames, k) + SHORT + frames[k]
  BY <1>1, StartIs
<1>3. Coming \in 1..Len(frames) + 1 /\ Coming = Len(decoded) + 1
  BY <1>1 DEF DInv, DTypes, Coming
<1>4. /\ Start(frames, Len(frames) + 1) \in Nat
      /\ came \in Nat /\ came \in 0..Start(frames, Len(frames) + 1)
      /\ Here \in Nat /\ Here <= came
  BY <1>1, <1>2, <1>3 DEF DInv, DTypes, Places, Here
<1>5. ASSUME Coming \in 1..Len(frames)
      PROVE  /\ frames[Coming] \in Nat
             /\ Start(frames, Coming + 1) \in Nat
             /\ Start(frames, Coming + 1) = Here + 2 + frames[Coming]
             /\ Start(frames, Coming + 1) <= Start(frames, Len(frames) + 1)
  <2>1. Coming + 1 \in 1..Len(frames) + 1 /\ Len(frames) + 1 \in Coming + 1..Len(frames) + 1
    BY <1>1, <1>5
  <2>2. Start(frames, Coming + 1) <= Start(frames, Len(frames) + 1)
    BY <1>1, <2>1, StartGrows
  <2>3. Start(frames, Coming + 1) = Here + 2 + frames[Coming]
    BY <1>2, <1>5 DEF Here, SHORT
  <2> QED  BY <1>1, <1>2, <1>5, <2>1, <2>2, <2>3
<1>6. ASSUME ~(Coming \in 1..Len(frames)) PROVE Here = came
  <2>1. Coming = Len(frames) + 1
    BY <1>1, <1>3, <1>6
  <2> QED  BY <1>4, <2>1 DEF Here
<1> QED  BY <1>1, <1>3, <1>4, <1>5, <1>6

(* The pieces the decoder holds have the type of its buffers.              *)
LEMMA PieceTyped ==
  ASSUME DInv, NEW b \in 0..Start(frames, Len(frames) + 1), NEW a \in 0..b
  PROVE  Piece(frames, a, b) \in Seq(D!Byte) /\ Len(Piece(frames, a, b)) = b - a
<1>1. frames \in Seq(Nat) /\ Len(frames) <= MaxFrames
  BY Basics DEF DInv, DTypes
<1>2. Piece(frames, a, b) \in Seq((1..Len(frames)) \X Nat) /\ Len(Piece(frames, a, b)) = b - a
  BY <1>1, PieceIs
<1>3. (1..Len(frames)) \X Nat \subseteq D!Byte
  BY <1>1, LimitAssumption DEF D!Byte
<1> QED  BY <1>2, <1>3

(* The length of the next frame, when both its bytes are there.            *)
LEMMA LengthIs ==
  ASSUME DInv, Coming \in 1..Len(frames),
         NEW b \in 0..Start(frames, Len(frames) + 1), Here + 2 <= b
  PROVE  D!LengthOf(Piece(frames, Here, b)) = frames[Coming]
<1> DEFINE s == Piece(frames, Here, b)
<1>1. b \in Start(frames, Coming) + SHORT..Start(frames, Len(frames) + 1)
  BY Basics DEF Here, SHORT
<1>2. s[1] = <<Coming, 1>> /\ s[2] = <<Coming, 2>>
  BY <1>1, Basics, PieceHead DEF Here
<1> HIDE DEF s
<1>3. D!LengthOf(s) = frames[Coming]
  BY <1>2 DEF D!LengthOf
<1> QED  BY <1>3 DEF s

-----------------------------------------------------------------------------
(* What a step of the decoder does to the invariant.                       *)

(* A chunk is given to tsilk_in.                                           *)
LEMMA FeedKeeps ==
  ASSUME DInv, D!Feed
  PROVE  DInv'
<1>1. PICK n \in PieceLen : /\ came + n <= D!Total
                            /\ piece' = D!Wire(came, came + n)
                            /\ came' = came + n
  BY DEF D!Feed
<1>2. /\ dpc = "idle" /\ refused = FALSE
      /\ dpc' = IF Len(din.data) > 0 THEN "resume" ELSE "loop"
      /\ frames' = frames /\ din' = din /\ dout' = dout
      /\ decoded' = decoded /\ refused' = refused
  BY DEF D!Feed, DInv, DTypes
<1> DEFINE e == Start(frames, Len(frames) + 1)
<1>3. D!Total = e
  BY SMTT(60), Basics, BeforeIs DEF D!Total
<1>4. n \in Nat \ {0}
  BY PieceAssumption
<1>5. came + n \in 0..e /\ came \in 0..came + n
  <2>1. came + n <= e /\ came \in Nat /\ e \in Nat
    BY <1>1, <1>3, Basics
  <2> HIDE DEF e
  <2> QED  BY <1>4, <2>1
<1>6. piece' = Piece(frames, came, came')
  BY <1>1, <1>5, Basics, WireIs
<1>7. piece' \in Seq(D!Byte)
  BY <1>1, <1>5, <1>6, PieceTyped
<1>8. Waiting
  BY <1>2 DEF DInv, Places
<1>9. Here' = Here /\ Coming' = Coming /\ Reached' = Here + Len(din.data)
  BY <1>2 DEF Here, Coming, Reached
<1>10. Len(din.data) = came - Here
  BY <1>8, Basics, PieceTyped DEF Waiting
<1>11. DTypes'
  BY <1>1, <1>2, <1>5, <1>7 DEF DInv, DTypes
<1>12. D!FramesIntact'
  BY <1>2 DEF DInv, D!FramesIntact
<1>13. CASE Len(din.data) > 0
  <2>1. Here # came
    BY <1>10, <1>13, Basics
  <2>2. Coming \in 1..Len(frames)
    BY <2>1, Basics
  <2>3. Coming <= Len(frames) /\ came < Start(frames, Coming + 1)
    BY <1>8, <2>2, Basics DEF Waiting
  <2>4. Reached' = came
    BY <1>9, <1>10, Basics
  <2>5. came <= came' /\ came < came'
    BY SMTT(60), <1>1, <1>4, Basics
  <2>6. Start(frames, Coming + 1) \in Nat
    BY <2>2, Basics
  <2>7. Resuming'
    BY <1>2, <1>6, <1>8, <1>9, <1>13, <2>3, <2>4, <2>5, <2>6, Basics DEF Resuming, Waiting
  <2>8. Here' <= came'
    BY <1>1, <1>4, <1>9, Basics
  <2> QED  BY <1>2, <1>11, <1>12, <1>13, <2>7, <2>8 DEF DInv, Places
<1>14. CASE ~(Len(din.data) > 0)
  <2>1. Here = came /\ Len(din.data) = 0
    BY <1>10, <1>14, Basics
  <2>2. din.data = <<>>
    BY <2>1 DEF DInv, DTypes, InTyped
  <2>3. Looking'
    BY <1>2, <1>6, <1>9, <2>1, <2>2 DEF Looking
  <2>4. Here' <= came'
    BY <1>1, <1>4, <1>9, Basics
  <2> QED  BY <1>2, <1>11, <1>12, <1>14, <2>3, <2>4 DEF DInv, Places
<1> QED  BY <1>13, <1>14

(* What is known when a frame is resumed.                                  *)
LEMMA ResumingIs ==
  ASSUME DInv, dpc = "resume"
  PROVE  /\ Resuming /\ refused = FALSE
         /\ Coming \in 1..Len(frames)
         /\ Reached \in Nat /\ Reached \in 0..came /\ Here \in 0..Reached
         /\ Reached \in 0..Start(frames, Len(frames) + 1)
         /\ Len(din.data) \in Nat /\ Len(din.data) = Reached - Here
         /\ Len(piece) \in Nat /\ Len(piece) = came - Reached
<1>1. Resuming /\ refused = FALSE
  BY DEF DInv, Places, DTypes
<1>2. Coming \in 1..Len(frames)
  BY <1>1, Basics DEF Resuming
<1>3. Len(din.data) \in Nat
  BY DEF DInv, DTypes, InTyped
<1>4. Reached \in Nat /\ Reached \in 0..came /\ Here \in 0..Reached
      /\ Reached \in 0..Start(frames, Len(frames) + 1)
      /\ Len(din.data) = Reached - Here
  <2> DEFINE e == Start(frames, Len(frames) + 1)
  <2>1. /\ Here \in Nat /\ came \in Nat /\ e \in Nat /\ came <= e
        /\ Reached = Here + Len(din.data) /\ Reached <= came
    BY <1>1, Basics DEF Resuming, Reached
  <2> HIDE DEF e
  <2>2. Reached \in Nat /\ Reached \in 0..came /\ Here \in 0..Reached
        /\ Reached \in 0..e /\ Len(din.data) = Reached - Here
    BY <1>3, <2>1
  <2> QED  BY <2>2 DEF e
<1>5. Len(piece) = came - Reached
  BY <1>1, <1>4, Basics, PieceTyped DEF Resuming
<1> QED  BY <1>1, <1>2, <1>3, <1>4, <1>5, Basics

(* The second byte of a length comes.                                      *)
LEMMA CompleteLengthKeeps ==
  ASSUME DInv, D!CompleteLength
  PROVE  DInv'
<1>1. dpc = "resume" /\ Len(din.data) < 2
  BY DEF D!CompleteLength, D!SHORT
<1>2. /\ Len(din.data) = 1 /\ Reached = Here + 1 /\ Reached < came
      /\ Reached + 1 \in 0..came /\ Reached \in 0..Reached + 1 /\ (Reached + 1) - Reached = 1
      /\ Reached + 1 \in 0..Start(frames, Len(frames) + 1)
      /\ Here \in 0..Reached + 1 /\ (Reached + 1) - Here = 2 /\ Here \in 0..Reached
  <2> DEFINE e == Start(frames, Len(frames) + 1)
             l == Len(din.data)
  <2>0. Here \in Nat /\ came \in Nat /\ e \in Nat /\ came <= e
    BY Basics
  <2>1. /\ Here \in Nat /\ came \in Nat /\ e \in Nat /\ came <= e
        /\ l \in Nat /\ l > 0 /\ l < 2 /\ l = Reached - Here /\ Reached \in Nat
        /\ l = 1 => Reached < came
    <3>1. l \in Nat /\ l = Reached - Here /\ Reached \in Nat /\ Resuming
      BY <1>1, ResumingIs
    <3>2. l > 0 /\ l < 2 /\ (l = 1 => Reached < came)
      BY <1>1, <3>1 DEF Resuming
    <3> HIDE DEF e, l
    <3> QED  BY <2>0, <3>1, <3>2
  <2> HIDE DEF e, l
  <2>2. l = 1 /\ Reached = Here + 1 /\ Reached < came
    BY <2>1
  <2>3. /\ Reached + 1 \in 0..came /\ Reached \in 0..Reached + 1
        /\ (Reached + 1) - Reached = 1 /\ Reached + 1 \in 0..e
        /\ Here \in 0..Reached + 1 /\ (Reached + 1) - Here = 2 /\ Here \in 0..Reached
    BY <2>1, <2>2
  <2> QED  BY <2>2, <2>3 DEF e, l
<1> DEFINE d == din.data \o SubSeq(piece, 1, 1)
           r == SubSeq(piece, 2, Len(piece))
<1>3. /\ din' = [din EXCEPT !.data = d] /\ piece' = r
      /\ frames' = frames /\ came' = came /\ dpc' = dpc /\ dout' = dout
      /\ decoded' = decoded /\ refused' = refused
  <2> DEFINE n == D!SHORT - Len(din.data)
  <2>1. n = 1
    BY <1>2 DEF D!SHORT
  <2>2. /\ din' = [din EXCEPT !.data = din.data \o SubSeq(piece, 1, n)]
        /\ piece' = SubSeq(piece, n + 1, Len(piece))
    BY DEF D!CompleteLength, D!First, D!Rest
  <2> HIDE DEF n
  <2>3. n + 1 = 2
    BY <2>1
  <2> QED  BY <2>1, <2>2, <2>3 DEF D!CompleteLength
<1>4. piece = Piece(frames, Reached, came) /\ din.data = Piece(frames, Here, Reached)
  BY <1>1, ResumingIs DEF Resuming
<1>5. /\ SubSeq(piece, 1, 1) = Piece(frames, Reached, Reached + 1)
      /\ r = Piece(frames, Reached + 1, came)
  <2>1. /\ frames \in Seq(Nat) /\ came \in 0..Start(frames, Len(frames) + 1)
        /\ Reached + 1 \in 0..came /\ Reached \in 0..Reached + 1
    BY <1>2, Basics
  <2>2. (Reached + 1) - Reached = 1 /\ 1 + 1 = 2
    BY <1>2
  <2>3. /\ SubSeq(piece, 1, (Reached + 1) - Reached) = Piece(frames, Reached, Reached + 1)
        /\ SubSeq(piece, ((Reached + 1) - Reached) + 1, Len(piece))
             = Piece(frames, Reached + 1, came)
    BY <1>4, <2>1, PieceCut
  <2> QED  BY <2>2, <2>3
<1>6. d = Piece(frames, Here, Reached + 1)
  BY <1>2, <1>4, <1>5, Basics, PieceJoin
<1>7. d \in Seq(D!Byte) /\ Len(d) = 2
  BY <1>2, <1>6, PieceTyped
<1>8. r \in Seq(D!Byte)
  <2>1. came \in 0..Start(frames, Len(frames) + 1) /\ Reached + 1 \in 0..came
    BY <1>2, Basics
  <2>2. Piece(frames, Reached + 1, came) \in Seq(D!Byte)
    BY <2>1, PieceTyped
  <2> QED  BY <1>5, <2>2
<1> HIDE DEF d, r
<1>9. InTyped(din)
  BY DEF DInv, DTypes
<1>10. din' = [data |-> d, size |-> din.size] /\ din'.data = d /\ din'.size = din.size
  BY <1>3, <1>9 DEF InTyped
<1>11. InTyped(din')
  <2>1. 2 <= din.size /\ din.size \in Nat /\ INBLOCK <= din.size
    BY <1>9, BlockAssumption DEF InTyped
  <2> QED  BY <1>7, <1>10, <2>1 DEF InTyped
<1>12. DTypes'
  BY <1>3, <1>8, <1>11 DEF DInv, DTypes
<1>13. D!FramesIntact'
  BY <1>3 DEF DInv, D!FramesIntact
<1>14. Here' = Here /\ Coming' = Coming /\ Reached' = Reached + 1
  <2>1. Here' = Here /\ Coming' = Coming
    BY <1>3 DEF Here, Coming
  <2>2. Reached' = Here' + Len(din'.data)
    BY DEF Reached
  <2>3. Reached + 1 = Here + 2 /\ Len(din'.data) = 2
    BY <1>2, <1>7, <1>10, Basics
  <2> QED  BY <2>1, <2>2, <2>3
<1>15. Reached + 1 <= Start(frames, Coming + 1) /\ Coming <= Len(frames)
  <2> DEFINE z == Start(frames, Coming + 1)
             f == frames[Coming]
  <2>1. z = Here + 2 + f /\ f \in Nat /\ Here \in Nat /\ Reached = Here + 1
        /\ Coming <= Len(frames)
    BY <1>1, <1>2, Basics, ResumingIs
  <2> HIDE DEF z, f
  <2>2. Reached + 1 <= z
    BY <2>1
  <2> QED  BY <2>1, <2>2 DEF z
<1>16. Resuming'
  <2>0. Reached + 1 <= came
    BY <1>2
  <2>1. Reached + 1 <= came /\ Coming' <= Len(frames') /\ Len(din'.data) > 0
        /\ ~(Len(din'.data) = 1)
    <3>1. Len(din'.data) = 2
      BY <1>7, <1>10
    <3>2. Coming' <= Len(frames')
      BY <1>3, <1>14, <1>15
    <3> QED  BY <2>0, <3>1, <3>2
  <2>2. Reached' <= Start(frames', Coming' + 1) /\ Reached' <= came'
    BY <1>3, <1>14, <1>15, <2>1
  <2>3. din'.data = Piece(frames', Here', Reached') /\ piece' = Piece(frames', Reached', came')
    BY <1>3, <1>5, <1>6, <1>10, <1>14
  <2> QED  BY <2>1, <2>2, <2>3 DEF Resuming
<1>17. Here' <= came' /\ dpc' = "resume" /\ refused' = FALSE
  BY <1>1, <1>3, <1>14, Basics, ResumingIs
<1> QED  BY <1>12, <1>13, <1>16, <1>17 DEF DInv, Places

(* What PutIn leaves in ptk->in fits.                                      *)
LEMMA PutInFits ==
  ASSUME DInv, NEW d \in Seq(D!Byte), NEW n \in Nat, Len(d) <= n,
         NEW r, r = [data |-> d, size |-> D!Grown(din.size, n, INBLOCK)]
  PROVE  InTyped(r)
<1>1. /\ din.size \in Nat /\ INBLOCK <= din.size /\ INBLOCK \in Nat \ {0}
  BY BlockAssumption DEF DInv, DTypes, InTyped
<1> DEFINE s == D!Grown(din.size, n, INBLOCK)
<1>2. s \in Nat /\ n <= s /\ din.size <= s
  BY <1>1, GrownEnough
<1> HIDE DEF s
<1>3. r = [data |-> d, size |-> s] /\ r.data = d /\ r.size = s
  BY DEF s
<1>4. INBLOCK <= s /\ Len(d) <= s
  BY <1>1, <1>2
<1> QED  BY <1>2, <1>3, <1>4 DEF InTyped

(* The call ends within a frame: all that has come of it is in ptk->in.    *)
LEMMA WaitKeeps ==
  ASSUME DInv, InTyped(din'), din'.data = Piece(frames, Here, came),
         Coming \in 1..Len(frames) => came < Start(frames, Coming + 1),
         piece' = <<>>, dpc' = "idle", frames' = frames, came' = came, dout' = dout,
         decoded' = decoded, refused' = refused
  PROVE  DInv'
<1>1. DTypes'
  <2>1. <<>> \in Seq(D!Byte)
    OBVIOUS
  <2> QED  BY <2>1 DEF DInv, DTypes
<1>2. D!FramesIntact'
  BY DEF DInv, D!FramesIntact
<1>3. Here' = Here /\ Coming' = Coming
  BY DEF Here, Coming
<1>4. Waiting'
  BY <1>3, Basics DEF Waiting
<1>5. Here' <= came'
  BY <1>3, Basics
<1> QED  BY <1>1, <1>2, <1>4, <1>5 DEF DInv, Places

(* The codec is given the next frame: the decoder looks for the one after. *)
LEMMA DecodedKeeps ==
  ASSUME DInv, Coming \in 1..Len(frames), Start(frames, Coming + 1) <= came,
         decoded' = Append(decoded, Piece(frames, Here + 2, Start(frames, Coming + 1))),
         InTyped(din'), din'.data = <<>>, OutTyped(dout'),
         piece' = Piece(frames, Start(frames, Coming + 1), came), dpc' = "loop",
         refused' = FALSE, frames' = frames, came' = came
  PROVE  DInv'
<1> DEFINE e == Start(frames, Len(frames) + 1)
           z == Start(frames, Coming + 1)
           n == frames[Coming]
           p == Piece(frames, Here + 2, z)
<1>1. /\ frames \in Seq(Nat) /\ e \in Nat /\ z \in Nat /\ n \in Nat /\ Here \in Nat
      /\ z = Here + 2 + n /\ z <= e /\ z <= came /\ came \in Nat /\ came <= e
  BY Basics
<1>2. z \in 0..e /\ z \in 0..came /\ came \in 0..e /\ Here + 2 \in 0..z
  <2> HIDE DEF e, z, n
  <2> QED  BY <1>1
<1>3. p \in Seq(D!Byte)
  BY <1>2, PieceTyped
<1>4. piece' \in Seq(D!Byte)
  BY <1>2, PieceTyped
<1>5. p = [i \in 1..frames[Coming] |-> <<Coming, D!SHORT + i>>]
  BY <1>1, PieceWhole DEF Here, SHORT, D!SHORT
<1>6. decoded \in Seq(Seq(D!Byte)) /\ Coming = Len(decoded) + 1
  BY Basics DEF DInv, DTypes
<1> HIDE DEF p
<1>7. /\ decoded' = Append(decoded, p)
      /\ decoded' \in Seq(Seq(D!Byte)) /\ Len(decoded') = Len(decoded) + 1
      /\ decoded'[Coming] = p /\ \A k \in 1..Len(decoded) : decoded'[k] = decoded[k]
  <2>1. decoded' = Append(decoded, p)
    BY DEF p
  <2> QED  BY <1>3, <1>6, <2>1
<1>8. DTypes'
  <2>1. Len(decoded') <= Len(frames)
    BY <1>6, <1>7
  <2> QED  BY <1>4, <1>7, <2>1 DEF DInv, DTypes
<1>9. D!FramesIntact'
  <2> SUFFICES ASSUME NEW k \in DOMAIN (decoded')
               PROVE  /\ k \in DOMAIN frames
                      /\ decoded'[k] = [i \in 1..frames[k] |-> <<k, D!SHORT + i>>]
    BY DEF D!FramesIntact
  <2>1. CASE k \in 1..Len(decoded)
    <3>1. k \in DOMAIN decoded
      BY <1>6, <2>1
    <3> QED  BY <1>7, <2>1, <3>1 DEF DInv, D!FramesIntact
  <2>2. CASE ~(k \in 1..Len(decoded))
    <3>1. k = Coming
      BY <1>6, <1>7, <2>2
    <3>2. k \in DOMAIN frames
      BY <1>1, <3>1
    <3> QED  BY <1>5, <1>7, <3>1, <3>2
  <2> QED  BY <2>1, <2>2
<1>10. Coming' = Coming + 1 /\ Here' = z
  BY <1>6, <1>7 DEF Coming, Here
<1>11. Looking'
  BY <1>10 DEF Looking
<1>12. Here' <= came'
  BY <1>1, <1>10
<1> QED  BY <1>8, <1>9, <1>11, <1>12 DEF DInv, Places

(* What the codec makes of a frame fits in ptk->out.                       *)
LEMMA DecodeFits ==
  ASSUME DInv, NEW p, D!Decode(p)
  PROVE  OutTyped(dout') /\ decoded' = Append(decoded, p)
<1>1. PICK n \in PcmLen :
        dout' = [length |-> dout.length + n,
                 size   |-> D!Grown(dout.size, dout.length + n, OUTBLOCK)]
  BY DEF D!Decode
<1> DEFINE l == dout.length + n
           s == D!Grown(dout.size, l, OUTBLOCK)
<1>2. l \in Nat /\ dout.size \in Nat
  BY PieceAssumption DEF DInv, DTypes, OutTyped
<1>3. s \in Nat /\ l <= s
  <2> HIDE DEF l
  <2> QED  BY <1>2, BlockAssumption, GrownEnough
<1>4. dout' = [length |-> l, size |-> s]
  BY <1>1
<1> HIDE DEF l, s
<1>5. OutTyped(dout')
  BY <1>2, <1>3, <1>4 DEF OutTyped
<1> QED  BY <1>5 DEF D!Decode

(* The length in ptk->in, and what the frame begun is still short of.      *)
LEMMA WantedIs ==
  ASSUME DInv, dpc = "resume", Len(din.data) >= 2
  PROVE  /\ D!LengthOf(din.data) = frames[Coming]
         /\ D!Wanted \in Nat /\ Reached + D!Wanted = Start(frames, Coming + 1)
<1> DEFINE f == frames[Coming]
           z == Start(frames, Coming + 1)
           l == Len(din.data)
<1>1. /\ l \in Nat /\ l = Reached - Here /\ Reached \in Nat /\ Here \in Nat
      /\ Reached \in 0..Start(frames, Len(frames) + 1) /\ Coming \in 1..Len(frames)
  BY ResumingIs, Basics
<1>2. f \in Nat /\ z \in Nat /\ z = Here + 2 + f
  BY <1>1, Basics
<1>3. din.data = Piece(frames, Here, Reached) /\ Reached <= z
  BY ResumingIs DEF Resuming
<1>4. Here + 2 <= Reached
  <2>1. l >= 2
    OBVIOUS
  <2> HIDE DEF l
  <2> QED  BY <1>1, <2>1
<1>5. D!LengthOf(din.data) = f
  BY <1>1, <1>3, <1>4, LengthIs
<1>6. D!Wanted = f - l + 2
  BY <1>5 DEF D!Wanted, D!SHORT
<1> HIDE DEF f, z, l
<1>7. D!Wanted \in Nat /\ Reached + D!Wanted = z
  BY <1>1, <1>2, <1>3, <1>6
<1> QED  BY <1>5, <1>7 DEF f, z

(* The chunk ends before the frame begun does.                             *)
LEMMA StillIncompleteKeeps ==
  ASSUME DInv, D!StillIncomplete
  PROVE  DInv'
<1>1. /\ dpc = "resume" /\ Len(din.data) >= 2 /\ Len(piece) < D!Wanted
      /\ piece' = <<>> /\ dpc' = "idle" /\ frames' = frames /\ came' = came
      /\ dout' = dout /\ decoded' = decoded /\ refused' = refused
  BY DEF D!StillIncomplete, D!SHORT
<1> DEFINE d == din.data \o piece
<1>2. d = Piece(frames, Here, came)
  BY <1>1, ResumingIs, Basics, PieceJoin DEF Resuming
<1>3. Here \in 0..came /\ came \in 0..Start(frames, Len(frames) + 1)
  BY Basics
<1>4. d \in Seq(D!Byte) /\ Len(d) \in Nat
  BY <1>2, <1>3, PieceTyped
<1>5. din' = [data |-> d, size |-> D!Grown(din.size, Len(d), INBLOCK)]
  BY DEF D!StillIncomplete, D!PutIn
<1> HIDE DEF d
<1>6. InTyped(din')
  BY <1>4, <1>5, PutInFits
<1>7. din'.data = d
  BY <1>5
<1>8. came < Start(frames, Coming + 1)
  <2> DEFINE z == Start(frames, Coming + 1)
             l == Len(piece)
             w == D!Wanted
  <2>1. l < w /\ w \in Nat /\ Reached + w = z /\ l = came - Reached
        /\ Reached \in Nat /\ came \in Nat
    BY <1>1, WantedIs, ResumingIs, Basics
  <2> HIDE DEF z, l, w
  <2>2. came < z
    BY <2>1
  <2> QED  BY <2>2 DEF z
<1> QED  BY <1>1, <1>2, <1>6, <1>7, <1>8, WaitKeeps

(* The frame begun is completed and decoded.                               *)
LEMMA CompleteFrameKeeps ==
  ASSUME DInv, D!CompleteFrame
  PROVE  DInv'
<1> DEFINE z == Start(frames, Coming + 1)
           w == D!Wanted
           l == Len(din.data)
           f == frames[Coming]
           e == Start(frames, Len(frames) + 1)
<1>1. /\ dpc = "resume" /\ l >= 2 /\ Len(piece) >= w
      /\ dpc' = "loop" /\ frames' = frames /\ came' = came /\ refused' = refused
      /\ D!Decode(D!Rest(din.data, 2) \o D!First(piece, w))
      /\ din' = [data |-> <<>>,
                 size |-> D!Grown(din.size, 2 + D!LengthOf(din.data), INBLOCK)]
      /\ piece' = D!Rest(piece, w)
  BY DEF D!CompleteFrame, D!SHORT, D!AfterFrame
<1>2. /\ D!LengthOf(din.data) = f /\ w \in Nat /\ Reached + w = z
      /\ Len(piece) = came - Reached /\ l \in Nat /\ l = Reached - Here
      /\ din.data = Piece(frames, Here, Reached) /\ piece = Piece(frames, Reached, came)
      /\ Reached \in Nat /\ Reached \in 0..came /\ refused = FALSE
      /\ Coming \in 1..Len(frames)
  BY <1>1, WantedIs, ResumingIs DEF Resuming
<1>3. /\ Here \in Nat /\ came \in Nat /\ e \in Nat /\ came <= e
      /\ f \in Nat /\ z \in Nat /\ z = Here + 2 + f /\ z <= e
      /\ frames \in Seq(Nat)
  BY <1>2, Basics
<1>4. /\ z <= came /\ came \in 0..e /\ z \in 0..came /\ Reached \in 0..z /\ z - Reached = w
      /\ z \in 0..e /\ Here + 2 \in 0..Reached /\ Here \in 0..Here + 2
      /\ (Here + 2) - Here = 2 /\ Reached \in 0..e
  <2>1. l >= 2 /\ came - Reached >= w
    BY <1>1, <1>2
  <2> HIDE DEF z, w, l, f, e
  <2> QED  BY <1>2, <1>3, <2>1
<1>5. D!Rest(din.data, 2) = Piece(frames, Here + 2, Reached)
  <2>1. SubSeq(din.data, ((Here + 2) - Here) + 1, Len(din.data)) = Piece(frames, Here + 2, Reached)
    BY <1>2, <1>3, <1>4, PieceCut
  <2> QED  BY <1>4, <2>1 DEF D!Rest
<1>6. D!First(piece, w) = Piece(frames, Reached, z) /\ D!Rest(piece, w) = Piece(frames, z, came)
  <2>1. /\ SubSeq(piece, 1, z - Reached) = Piece(frames, Reached, z)
        /\ SubSeq(piece, (z - Reached) + 1, Len(piece)) = Piece(frames, z, came)
    BY <1>2, <1>3, <1>4, PieceCut
  <2> QED  BY <1>4, <2>1 DEF D!Rest, D!First
<1>7. D!Rest(din.data, 2) \o D!First(piece, w) = Piece(frames, Here + 2, z)
  BY <1>3, <1>4, <1>5, <1>6, PieceJoin
<1>8. OutTyped(dout') /\ decoded' = Append(decoded, Piece(frames, Here + 2, z))
  BY <1>1, <1>7, DecodeFits
<1>9. InTyped(din') /\ din'.data = <<>>
  <2> DEFINE n == 2 + f
             d == <<>>
  <2>1. d \in Seq(D!Byte) /\ n \in Nat /\ Len(d) <= n
    BY <1>3
  <2>2. din' = [data |-> d, size |-> D!Grown(din.size, n, INBLOCK)]
    BY <1>1, <1>2
  <2> HIDE DEF n, d
  <2>3. InTyped(din') /\ din'.data = d
    BY <2>1, <2>2, PutInFits
  <2> QED  BY <2>3 DEF d
<1> QED  BY <1>1, <1>2, <1>4, <1>6, <1>8, <1>9, DecodedKeeps

(* What is known between two frames.                                       *)
LEMMA LookingIs ==
  ASSUME DInv, dpc = "loop"
  PROVE  /\ Looking /\ refused = FALSE
         /\ Len(piece) \in Nat /\ Len(piece) = came - Here
         /\ Len(piece) > 0 => Coming \in 1..Len(frames)
         /\ Len(piece) >= 2 => D!LengthOf(piece) = frames[Coming]
<1>1. Looking /\ refused = FALSE
  BY DEF DInv, Places, DTypes
<1>2. piece = Piece(frames, Here, came) /\ Here \in Nat /\ came \in Nat /\ Here <= came
  BY <1>1, Basics DEF Looking
<1>3. Len(piece) = came - Here /\ Len(piece) \in Nat
  <2>1. Len(piece) = came - Here
    BY <1>2, Basics, PieceTyped
  <2> DEFINE l == Len(piece)
  <2>2. l = came - Here
    BY <2>1
  <2> HIDE DEF l
  <2>3. l \in Nat
    BY <1>2, <2>2
  <2> QED  BY <2>1, <2>3 DEF l
<1>4. ASSUME Len(piece) > 0 PROVE Coming \in 1..Len(frames)
  <2>1. Here # came
    BY <1>2, <1>3, <1>4
  <2> QED  BY <2>1, Basics
<1>5. ASSUME Len(piece) >= 2 PROVE D!LengthOf(piece) = frames[Coming]
  <2>1. Len(piece) > 0 /\ Here + 2 <= came
    <3> DEFINE l == Len(piece)
    <3>1. l >= 2 /\ l = came - Here
      BY <1>3, <1>5
    <3> HIDE DEF l
    <3>2. l > 0 /\ Here + 2 <= came
      BY <1>2, <3>1
    <3> QED  BY <3>2 DEF l
  <2> QED  BY <1>2, <1>4, <2>1, Basics, LengthIs
<1> QED  BY <1>1, <1>3, <1>4, <1>5

(* Not even the two bytes of a length are left.                            *)
LEMMA KeepPartOfLengthKeeps ==
  ASSUME DInv, D!KeepPartOfLength
  PROVE  DInv'
<1>1. /\ dpc = "loop" /\ Len(piece) < 2
      /\ din' = [din EXCEPT !.data = piece]
      /\ piece' = <<>> /\ dpc' = "idle" /\ frames' = frames /\ came' = came
      /\ dout' = dout /\ decoded' = decoded /\ refused' = refused
  BY DEF D!KeepPartOfLength, D!SHORT
<1>2. piece = Piece(frames, Here, came) /\ Len(piece) = came - Here /\ Len(piece) \in Nat
  BY <1>1, LookingIs DEF Looking
<1>3. InTyped(din) /\ piece \in Seq(D!Byte)
  BY DEF DInv, DTypes
<1>4. din' = [data |-> piece, size |-> din.size]
  BY <1>1, <1>3 DEF InTyped
<1>5. InTyped(din') /\ din'.data = piece
  <2>1. din'.data = piece /\ din'.size = din.size
    BY <1>4
  <2>2. Len(piece) <= din.size
    <3>1. INBLOCK <= din.size /\ din.size \in Nat /\ INBLOCK \in Nat \ {0, 1}
      BY <1>3, BlockAssumption DEF InTyped
    <3> QED  BY <1>1, <1>2, <3>1
  <2> QED  BY <1>3, <1>4, <2>1, <2>2 DEF InTyped
<1>6. ASSUME Coming \in 1..Len(frames) PROVE came < Start(frames, Coming + 1)
  <2> DEFINE z == Start(frames, Coming + 1)
             f == frames[Coming]
             l == Len(piece)
  <2>1. z = Here + 2 + f /\ f \in Nat /\ Here \in Nat /\ came \in Nat
    BY <1>6, Basics
  <2>2. l = came - Here /\ l < 2
    BY <1>1, <1>2
  <2> HIDE DEF z, f, l
  <2>3. came < z
    BY <2>1, <2>2
  <2> QED  BY <2>3 DEF z
<1> QED  BY <1>1, <1>2, <1>5, <1>6, WaitKeeps

(* The chunk ends within a frame that began in it.                         *)
LEMMA KeepPartOfFrameKeeps ==
  ASSUME DInv, D!KeepPartOfFrame
  PROVE  DInv'
<1>1. /\ dpc = "loop" /\ Len(piece) >= 2 /\ Len(piece) - 2 < D!LengthOf(piece)
      /\ din' = [data |-> D!WithLength,
                 size |-> D!Grown(din.size, Len(D!WithLength), INBLOCK)]
      /\ piece' = <<>> /\ dpc' = "idle" /\ frames' = frames /\ came' = came
      /\ dout' = dout /\ decoded' = decoded /\ refused' = refused
  BY DEF D!KeepPartOfFrame, D!SHORT, D!PutIn
<1>2. /\ piece = Piece(frames, Here, came) /\ Len(piece) = came - Here
      /\ D!LengthOf(piece) = frames[Coming] /\ Coming \in 1..Len(frames)
  <2>1. Len(piece) > 0
    BY <1>1, LookingIs
  <2> QED  BY <1>1, <2>1, LookingIs DEF Looking
<1> DEFINE z == Start(frames, Coming + 1)
           f == frames[Coming]
           l == Len(piece)
           e == Start(frames, Len(frames) + 1)
<1>3. /\ z = Here + 2 + f /\ f \in Nat /\ Here \in Nat /\ came \in Nat /\ e \in Nat
      /\ came <= e /\ frames \in Seq(Nat) /\ l = came - Here /\ l >= 2 /\ l - 2 < f
  BY <1>1, <1>2, Basics
<1>4. /\ came < z /\ Here + 2 \in 0..came /\ Here \in 0..Here + 2 /\ came \in 0..e
      /\ (Here + 2) - Here = 2
  <2> HIDE DEF z, f, l, e
  <2> QED  BY <1>3
<1>5. D!WithLength = piece
  <2>1. /\ SubSeq(piece, 1, (Here + 2) - Here) = Piece(frames, Here, Here + 2)
        /\ SubSeq(piece, ((Here + 2) - Here) + 1, Len(piece)) = Piece(frames, Here + 2, came)
    BY <1>2, <1>3, <1>4, PieceCut
  <2>2. D!First(piece, 2) = Piece(frames, Here, Here + 2)
        /\ D!Rest(piece, 2) = Piece(frames, Here + 2, came)
    BY <1>4, <2>1 DEF D!First, D!Rest
  <2>3. D!First(piece, 2) \o D!Rest(piece, 2) = piece
    BY <1>2, <1>3, <1>4, <2>2, PieceJoin
  <2> QED  BY <2>3 DEF D!WithLength, D!SHORT
<1>6. InTyped(din') /\ din'.data = piece
  <2>1. piece \in Seq(D!Byte) /\ Len(piece) \in Nat
    BY DEF DInv, DTypes
  <2>2. din' = [data |-> piece, size |-> D!Grown(din.size, Len(piece), INBLOCK)]
    BY <1>1, <1>5
  <2> QED  BY <2>1, <2>2, PutInFits
<1> QED  BY <1>1, <1>2, <1>4, <1>6, WaitKeeps

(* A frame that is whole in the chunk is decoded.                          *)
LEMMA WholeFrameKeeps ==
  ASSUME DInv, D!WholeFrame
  PROVE  DInv'
<1> DEFINE z == Start(frames, Coming + 1)
           f == frames[Coming]
           l == Len(piece)
           e == Start(frames, Len(frames) + 1)
<1>1. /\ dpc = "loop" /\ l >= 2 /\ l - 2 >= D!LengthOf(piece)
      /\ dpc' = dpc /\ frames' = frames /\ came' = came /\ refused' = refused
      /\ D!Decode(D!First(D!Rest(piece, 2), D!LengthOf(piece)))
      /\ din' = din /\ piece' = D!Rest(piece, 2 + D!LengthOf(piece))
  BY DEF D!WholeFrame, D!SHORT
<1>2. /\ piece = Piece(frames, Here, came) /\ l = came - Here
      /\ D!LengthOf(piece) = f /\ Coming \in 1..Len(frames)
      /\ din.data = <<>> /\ refused = FALSE
  <2>1. Len(piece) > 0
    BY <1>1, LookingIs
  <2> QED  BY <1>1, <2>1, LookingIs DEF Looking
<1>3. /\ z = Here + 2 + f /\ f \in Nat /\ Here \in Nat /\ came \in Nat /\ e \in Nat
      /\ came <= e /\ frames \in Seq(Nat) /\ l - 2 >= f /\ z \in Nat
  BY <1>1, <1>2, Basics
<1>4. /\ z <= came /\ came \in 0..e /\ z \in 0..came /\ Here + 2 \in 0..came
      /\ Here \in 0..Here + 2 /\ (Here + 2) - Here = 2 /\ Here + 2 \in 0..z
      /\ z - (Here + 2) = f /\ z - Here = 2 + f /\ Here \in 0..z
  <2> HIDE DEF z, f, l, e
  <2> QED  BY <1>2, <1>3
<1>5. D!Rest(piece, 2) = Piece(frames, Here + 2, came)
  <2>1. SubSeq(piece, ((Here + 2) - Here) + 1, Len(piece)) = Piece(frames, Here + 2, came)
    BY <1>2, <1>3, <1>4, PieceCut
  <2> QED  BY <1>4, <2>1 DEF D!Rest
<1>6. D!First(D!Rest(piece, 2), f) = Piece(frames, Here + 2, z)
  <2>1. SubSeq(Piece(frames, Here + 2, came), 1, z - (Here + 2)) = Piece(frames, Here + 2, z)
    BY <1>3, <1>4, PieceCut
  <2> QED  BY <1>4, <1>5, <2>1 DEF D!First
<1>7. D!Rest(piece, 2 + f) = Piece(frames, z, came)
  <2>1. SubSeq(piece, (z - Here) + 1, Len(piece)) = Piece(frames, z, came)
    BY <1>2, <1>3, <1>4, PieceCut
  <2> QED  BY <1>4, <2>1 DEF D!Rest
<1>8. OutTyped(dout') /\ decoded' = Append(decoded, Piece(frames, Here + 2, z))
  BY <1>1, <1>2, <1>6, DecodeFits
<1>9. InTyped(din') /\ din'.data = <<>>
  BY <1>1, <1>2 DEF DInv, DTypes
<1> QED  BY <1>1, <1>2, <1>4, <1>7, <1>8, <1>9, DecodedKeeps

(* tsilk_in gives the stream up.                                           *)
LEMMA GiveUpKeeps ==
  ASSUME DInv, D!GiveUp, InTyped(din')
  PROVE  DInv'
<1>1. /\ refused' = TRUE /\ dpc' = "idle" /\ frames' = frames /\ came' = came
      /\ piece' = piece /\ dout' = dout /\ decoded' = decoded
  BY DEF D!GiveUp
<1>2. DTypes' /\ D!FramesIntact'
  BY <1>1 DEF DInv, DTypes, D!FramesIntact
<1>3. Here' <= came'
  BY <1>1 DEF DInv, Places, Here, Coming
<1> QED  BY <1>1, <1>2, <1>3 DEF DInv, Places

(* The codec returns an error.                                             *)
LEMMA DecodeFailedKeeps ==
  ASSUME DInv, D!DecodeFailed
  PROVE  DInv'
<1>1. CASE dpc = "resume" /\ Len(din.data) >= D!SHORT /\ Len(piece) >= D!Wanted
           /\ din' = [data |-> D!AfterFrame,
                      size |-> D!Grown(din.size, D!SHORT + D!LengthOf(din.data), INBLOCK)]
  <2>1. D!LengthOf(din.data) \in Nat
    <3>1. Len(din.data) >= 2 /\ dpc = "resume"
      BY <1>1 DEF D!SHORT
    <3> QED  BY <3>1, WantedIs, ResumingIs, Basics
  <2> DEFINE n == D!SHORT + D!LengthOf(din.data)
             d == <<>>
  <2>2. d \in Seq(D!Byte) /\ n \in Nat /\ Len(d) <= n
    BY <2>1 DEF D!SHORT
  <2>3. din' = [data |-> d, size |-> D!Grown(din.size, n, INBLOCK)]
    BY <1>1 DEF D!AfterFrame
  <2> HIDE DEF n, d
  <2>4. InTyped(din')
    BY <2>2, <2>3, PutInFits
  <2> QED  BY <2>4, GiveUpKeeps DEF D!DecodeFailed
<1>2. CASE din' = din
  <2>1. InTyped(din')
    BY <1>2 DEF DInv, DTypes
  <2> QED  BY <2>1, GiveUpKeeps DEF D!DecodeFailed
<1> QED  BY <1>1, <1>2 DEF D!DecodeFailed

(* A length is refused.                                                    *)
LEMMA RefuseLengthKeeps ==
  ASSUME DInv, D!RefuseLength
  PROVE  DInv'
<1>1. InTyped(din')
  BY DEF DInv, DTypes, D!RefuseLength
<1> QED  BY <1>1, GiveUpKeeps DEF D!RefuseLength

(* tsilk_out empties ptk->out.                                             *)
LEMMA TakeOutKeeps ==
  ASSUME DInv, D!TakeOut
  PROVE  DInv'
<1>1. /\ dout' = [dout EXCEPT !.length = 0]
      /\ frames' = frames /\ came' = came /\ dpc' = dpc /\ piece' = piece
      /\ din' = din /\ decoded' = decoded /\ refused' = refused
  BY DEF D!TakeOut, D!LeftInOut
<1>2. OutTyped(dout)
  BY DEF DInv, DTypes
<1>3. dout' = [length |-> 0, size |-> dout.size]
  BY <1>1, <1>2 DEF OutTyped
<1>4. OutTyped(dout')
  <2>1. dout'.length = 0 /\ dout'.size = dout.size /\ dout.size \in Nat
    BY <1>2, <1>3 DEF OutTyped
  <2> QED  BY <1>3, <2>1 DEF OutTyped
<1>5. DTypes' /\ D!FramesIntact'
  BY <1>1, <1>4 DEF DInv, DTypes, D!FramesIntact
<1>6. Places'
  BY <1>1 DEF DInv, Places, Waiting, Looking, Resuming, Reached, Here, Coming
<1> QED  BY <1>5, <1>6 DEF DInv

(* Nothing changes for the decoder.                                        *)
LEMMA DecoderStutter ==
  ASSUME DInv, UNCHANGED decoder
  PROVE  DInv'
<1>1. /\ dout' = dout /\ frames' = frames /\ came' = came /\ dpc' = dpc /\ piece' = piece
      /\ din' = din /\ decoded' = decoded /\ refused' = refused
  BY DEF decoder
<1>2. DTypes' /\ D!FramesIntact'
  BY <1>1 DEF DInv, DTypes, D!FramesIntact
<1>3. Places'
  BY <1>1 DEF DInv, Places, Waiting, Looking, Resuming, Reached, Here, Coming
<1> QED  BY <1>2, <1>3 DEF DInv

(* DInv is inductive.                                                      *)
LEMMA DecoderStep == DInv /\ D!Next => DInv'
<1> SUFFICES ASSUME DInv, D!Next PROVE DInv'
  OBVIOUS
<1>1. CASE D!Feed
  BY <1>1, FeedKeeps
<1>2. CASE D!CompleteLength
  BY <1>2, CompleteLengthKeeps
<1>3. CASE D!StillIncomplete
  BY <1>3, StillIncompleteKeeps
<1>4. CASE D!CompleteFrame
  BY <1>4, CompleteFrameKeeps
<1>5. CASE D!KeepPartOfLength
  BY <1>5, KeepPartOfLengthKeeps
<1>6. CASE D!KeepPartOfFrame
  BY <1>6, KeepPartOfFrameKeeps
<1>7. CASE D!WholeFrame
  BY <1>7, WholeFrameKeeps
<1>8. CASE D!RefuseLength
  BY <1>8, RefuseLengthKeeps
<1>9. CASE D!DecodeFailed
  BY <1>9, DecodeFailedKeeps
<1>10. CASE D!TakeOut
  BY <1>10, TakeOutKeeps
<1> QED
  BY <1>1, <1>2, <1>3, <1>4, <1>5, <1>6, <1>7, <1>8, <1>9, <1>10 DEF D!Next

(* The stream has not begun.                                               *)
LEMMA DecoderInit ==
  ASSUME D!Init \/ NoDecoder
  PROVE  DInv
<1>1. /\ frames \in Seq(FrameLen) /\ Len(frames) \in Nat /\ Len(frames) <= MaxFrames
  <2>1. CASE D!Init
    <3>1. PICK n \in 1..MaxFrames : frames \in [1..n -> FrameLen]
      BY <2>1 DEF D!Init
    <3>2. n \in Nat /\ n <= MaxFrames
      BY LimitAssumption
    <3> QED  BY <3>1, <3>2
  <2>2. CASE NoDecoder
    BY <2>2, LimitAssumption DEF NoDecoder
  <2> QED  BY <2>1, <2>2
<1>2. /\ came = 0 /\ dpc = "idle" /\ piece = <<>> /\ decoded = <<>> /\ refused = FALSE
      /\ din = [data |-> <<>>, size |-> INBLOCK] /\ dout = [length |-> 0, size |-> OUTBLOCK]
  BY DEF D!Init, NoDecoder
<1>3. frames \in Seq(Nat)
  BY <1>1, PieceAssumption, WiderSeq
<1>4. /\ Coming = 1 /\ Here = 0 /\ Start(frames, 1) = 0
      /\ Start(frames, Len(frames) + 1) \in Nat
      /\ 0 \in 0..Start(frames, Len(frames) + 1)
  <2>1. Coming = 1
    BY <1>2 DEF Coming
  <2>2. Start(frames, 1) = 0 /\ Start(frames, Len(frames) + 1) \in Nat
    BY <1>1, <1>3, StartIs
  <2> QED  BY <2>1, <2>2 DEF Here
<1>5. InTyped(din)
  BY <1>2, BlockAssumption DEF InTyped
<1>6. OutTyped(dout)
  BY <1>2, BlockAssumption DEF OutTyped
<1>7. DTypes
  <2>1. piece \in Seq(D!Byte) /\ decoded \in Seq(Seq(D!Byte)) /\ Len(decoded) = 0
    BY <1>2
  <2>2. Len(decoded) <= Len(frames)
    BY <1>1, <2>1
  <2>3. came \in 0..Start(frames, Len(frames) + 1)
    BY <1>2, <1>4
  <2>4. dpc \in {"idle", "resume", "loop"} /\ refused \in BOOLEAN
    BY <1>2
  <2> QED  BY <1>1, <1>5, <1>6, <2>1, <2>2, <2>3, <2>4 DEF DTypes
<1>8. ASSUME Coming <= Len(frames) PROVE came < Start(frames, Coming + 1)
  <2>1. 1 \in 1..Len(frames)
    BY <1>1, <1>4, <1>8
  <2>2. Start(frames, 1 + 1) = Start(frames, 1) + SHORT + frames[1] /\ frames[1] \in Nat
    BY <1>3, <2>1, StartIs
  <2>3. Start(frames, Coming + 1) = 0 + 2 + frames[1]
    BY <1>4, <2>2 DEF SHORT
  <2> QED  BY <1>2, <2>2, <2>3
<1>9. Waiting
  <2>1. Piece(frames, 0, 0) = <<>>
    BY <1>3, <1>4, PieceEmpty
  <2> QED  BY <1>2, <1>4, <1>8, <2>1 DEF Waiting
<1>10. Places
  BY <1>2, <1>4, <1>9 DEF Places
<1>11. D!FramesIntact
  BY <1>2 DEF D!FramesIntact
<1> QED  BY <1>7, <1>10, <1>11 DEF DInv

(* When tsilk_in returns it has decoded every frame that has come whole.   *)
LEMMA Promptly == DInv => D!DecodedPromptly
<1> SUFFICES ASSUME DInv, dpc = "idle", ~refused
             PROVE  Len(decoded) = D!Cardinality({k \in DOMAIN frames : D!Before[k + 1] <= came})
  BY DEF D!DecodedPromptly
<1> DEFINE n == Len(decoded)
           K == {k \in DOMAIN frames : D!Before[k + 1] <= came}
<1>1. Waiting /\ n \in Nat /\ n <= Len(frames) /\ frames \in Seq(Nat)
  BY Basics DEF DInv, DTypes, Places
<1>2. ASSUME NEW k \in 1..Len(frames) PROVE (k \in K) <=> (k \in 1..n)
  <2>1. D!Before[k + 1] = Start(frames, k + 1) /\ k + 1 \in 1..Len(frames) + 1
        /\ Start(frames, k + 1) \in Nat
    BY <1>1, BeforeIs, StartIs
  <2>2. CASE k <= n
    <3>1. Coming \in (k + 1)..Len(frames) + 1
      BY <1>1, <2>2, Basics
    <3>2. Start(frames, k + 1) <= Here
      BY <1>1, <2>1, <3>1, StartGrows DEF Here
    <3>3. Start(frames, k + 1) <= came
      BY <2>1, <3>2, Basics
    <3> QED  BY <1>1, <2>1, <2>2, <3>3
  <2>3. CASE ~(k <= n)
    <3>1. Coming \in 1..Len(frames) /\ Coming <= Len(frames)
          /\ Coming + 1 \in 1..Len(frames) + 1 /\ k + 1 \in Coming + 1..Len(frames) + 1
      BY SMTT(60), <1>1, <2>3, Basics
    <3>2. Start(frames, Coming + 1) <= Start(frames, k + 1)
      BY <1>1, <3>1, StartGrows
    <3>3. came < Start(frames, Coming + 1) /\ Start(frames, Coming + 1) \in Nat
      BY <1>1, <3>1, Basics DEF Waiting
    <3>4. ~(Start(frames, k + 1) <= came)
      BY <2>1, <3>2, <3>3, Basics
    <3> QED  BY <1>1, <2>1, <2>3, <3>4
  <2> QED  BY <2>2, <2>3
<1>3. K = 1..n
  BY <1>1, <1>2
<1>4. D!Cardinality(1..n) = n
  <2> HIDE DEF n
  <2>1. n \in Int /\ 1 \in Int
    BY <1>1
  <2>2. Cardinality(1..n) = n
    BY <1>1, <2>1, FS_Interval
  <2> QED  BY <2>2, DecoderOperators
<1> QED  BY <1>3, <1>4

(* A length is refused only where the stream is damaged.                   *)
LEMMA Rightly == DInv => D!RefusedRightly
<1> SUFFICES ASSUME DInv, D!BadLength
             PROVE  Coming \in DOMAIN frames /\ frames[Coming] = 0
  BY DEF D!RefusedRightly, Coming
<1>1. CASE dpc = "resume" /\ Len(din.data) >= 2 /\ D!LengthOf(din.data) < 1
  <2>1. D!LengthOf(din.data) = frames[Coming] /\ Coming \in 1..Len(frames)
    BY <1>1, ResumingIs, WantedIs
  <2>2. frames \in Seq(Nat) /\ frames[Coming] \in Nat
    BY <2>1, Basics
  <2> QED  BY <1>1, <2>1, <2>2
<1>2. CASE dpc = "loop" /\ Len(piece) >= 2 /\ D!LengthOf(piece) < 1
  <2>1. Coming \in 1..Len(frames) /\ D!LengthOf(piece) = frames[Coming]
    BY <1>2, LookingIs
  <2> QED  BY SMTT(60), <1>2, <2>1, Basics
<1> QED  BY <1>1, <1>2 DEF D!BadLength, D!SHORT

-----------------------------------------------------------------------------
(* Both halves.                                                            *)

(* The encoder's buffers hold bytes that were posted.                      *)
Posted ==
  /\ pc \in {"idle", "tsilk_in", "tsilk_out", "crashed"}
  /\ fed \in 0..MaxBytes
  /\ open \in BOOLEAN /\ last \in BOOLEAN /\ broken \in BOOLEAN
  /\ chunk \in Seq(1..fed) /\ in \in Seq(1..fed) /\ held \in Seq(1..fed)
  /\ sent \in Seq(1..fed) /\ out.audio \in Seq(1..fed)
  /\ out = [audio |-> out.audio, length |-> out.length, size |-> out.size]

(* A chunk is posted.                                                      *)
LEMMA PostDataPosted ==
  ASSUME EInv, Posted, PostData
  PROVE  Posted'
<1>1. PICK n \in ChunkLen, l \in BOOLEAN :
        /\ fed + n <= MaxBytes /\ chunk' = [i \in 1..n |-> fed + i] /\ fed' = fed + n
        /\ last' = l /\ open' = ~l
  BY DEF PostData
<1>2. n \in Nat /\ fed \in Nat /\ MaxBytes \in Nat
  BY SizesAssumption, LimitAssumption DEF EInv, Buffers
<1>3. fed' \in 0..MaxBytes /\ 1..fed \subseteq 1..fed'
  BY <1>1, <1>2
<1>4. chunk' \in Seq(1..fed')
  <2>1. \A i \in 1..n : fed + i \in 1..fed + n
    BY <1>2
  <2> DEFINE T == 1..fed + n
  <2>2. \A i \in 1..n : fed + i \in T
    BY <2>1
  <2> HIDE DEF T
  <2>3. [i \in 1..n |-> fed + i] \in Seq(T)
    BY <1>2, <2>2
  <2> QED  BY <1>1, <2>3 DEF T
<1>5. /\ in' = in /\ held' = held /\ out' = out /\ sent' = sent /\ broken' = broken
      /\ pc' = "tsilk_in"
  BY DEF PostData
<1>6. /\ in' \in Seq(1..fed') /\ held' \in Seq(1..fed') /\ sent' \in Seq(1..fed')
      /\ out'.audio \in Seq(1..fed')
  <2> DEFINE S == 1..fed
             T == 1..fed'
  <2>1. in \in Seq(S) /\ held \in Seq(S) /\ sent \in Seq(S) /\ out.audio \in Seq(S)
    BY DEF Posted
  <2>2. S \subseteq T
    BY <1>3
  <2> HIDE DEF S, T
  <2>3. in \in Seq(T) /\ held \in Seq(T) /\ sent \in Seq(T) /\ out.audio \in Seq(T)
    BY <2>1, <2>2, WiderSeq
  <2> QED  BY <1>5, <2>3 DEF T
<1> QED  BY <1>1, <1>3, <1>4, <1>5, <1>6 DEF Posted

(* A frame is encoded.                                                     *)
LEMMA EncodeFramePosted ==
  ASSUME EInv, Posted, EncodeFrame
  PROVE  Posted'
<1> DEFINE S == 1..fed
           p == SubSeq(chunk, 1, Missing)
           r == SubSeq(chunk, Missing + 1, Len(chunk))
           a == held \o NextFrame
<1>1. Missing \in 0..Len(chunk)
  BY FrameAssumption DEF EInv, Buffers, Levels, Missing, EncodeFrame
<1>2. chunk \in Seq(S) /\ in \in Seq(S) /\ held \in Seq(S) /\ out.audio \in Seq(S)
  BY DEF Posted
<1>3. p \in Seq(S) /\ r \in Seq(S)
  <2> HIDE DEF S
  <2> QED  BY <1>1, <1>2
<1>4. a \in Seq(S) /\ out.audio \o a \in Seq(S) /\ <<>> \in Seq(S)
  <2>1. NextFrame = in \o p
    BY DEF NextFrame
  <2> HIDE DEF S, p
  <2> QED  BY <1>2, <1>3, <2>1
<1>5. PICK n \in CodeLen :
        IF n > 0
        THEN Emit(a, n) /\ held' = <<>>
        ELSE held' = a /\ UNCHANGED out
  BY DEF EncodeFrame
<1>6. /\ chunk' = r /\ in' = <<>> /\ pc' = pc /\ fed' = fed /\ open' = open
      /\ last' = last /\ sent' = sent /\ broken' = broken
  BY DEF EncodeFrame
<1> HIDE DEF a, r
<1>7. /\ held' \in Seq(S) /\ out'.audio \in Seq(S)
      /\ out' = [audio |-> out'.audio, length |-> out'.length, size |-> out'.size]
  <2>1. CASE n > 0
    <3> DEFINE size == IF TooSmall(n) THEN Grown(n) ELSE out.size
               l    == out.length + SHORT + n
               b    == out.audio \o a
    <3>1. out' = [audio |-> b, length |-> l, size |-> size] /\ held' = <<>>
      BY <1>5, <2>1 DEF Emit
    <3> HIDE DEF size, l, b
    <3>2. /\ out'.audio = b
          /\ out' = [audio |-> out'.audio, length |-> out'.length, size |-> out'.size]
      BY <3>1
    <3> QED  BY <1>4, <3>1, <3>2 DEF b
  <2>2. CASE ~(n > 0)
    BY <1>2, <1>4, <1>5, <2>2 DEF Posted
  <2> QED  BY <2>1, <2>2
<1> QED  BY <1>3, <1>4, <1>6, <1>7 DEF Posted

(* Posted is inductive.                                                    *)
LEMMA PostedStep == EInv /\ Posted /\ [Next]_vars => Posted'
<1> SUFFICES ASSUME EInv, Posted, [Next]_vars PROVE Posted'
  OBVIOUS
<1> DEFINE S == 1..fed
<1>0. /\ chunk \in Seq(S) /\ in \in Seq(S) /\ held \in Seq(S) /\ out.audio \in Seq(S)
      /\ sent \in Seq(S) /\ <<>> \in Seq(S)
      /\ in \o chunk \in Seq(S) /\ sent \o out.audio \in Seq(S)
  <2>1. /\ chunk \in Seq(S) /\ in \in Seq(S) /\ held \in Seq(S) /\ out.audio \in Seq(S)
        /\ sent \in Seq(S)
    BY DEF Posted
  <2> HIDE DEF S
  <2> QED  BY <2>1
<1>1. CASE PostData
  BY <1>1, PostDataPosted
<1>2. CASE EncodeFrame
  BY <1>2, EncodeFramePosted
<1>3. CASE EncodeFailed
  BY <1>0, <1>3 DEF EncodeFailed, Posted
<1>4. CASE KeepRest
  BY <1>0, <1>4 DEF KeepRest, Remainder, Posted
<1>5. CASE Buffer
  BY <1>5 DEF Buffer, Posted
<1>6. CASE Queue
  <2>1. out' = [audio |-> <<>>, length |-> 0, size |-> out.size]
    BY <1>6 DEF Queue, Emptied
  <2>2. out'.audio = <<>> /\ out'.length = 0 /\ out'.size = out.size
    BY <2>1
  <2>3. sent' = sent \o out.audio /\ pc' = "idle" /\ fed' = fed /\ open' = open
        /\ last' = last /\ chunk' = chunk /\ in' = in /\ held' = held /\ broken' = broken
    BY <1>6 DEF Queue
  <2> QED  BY <1>0, <2>1, <2>2, <2>3 DEF Posted
<1>7. CASE UNCHANGED vars
  BY <1>7 DEF vars, Posted
<1> QED
  BY <1>1, <1>2, <1>3, <1>4, <1>5, <1>6, <1>7 DEF Next

(* A behaviour is one of the encoder or one of the decoder: the invariants *)
(* of both.                                                                *)
CodecInv == SInv /\ Posted /\ DInv

(* Nothing is posted or fed yet.                                           *)
LEMMA CodecInit == Made => CodecInv
<1> SUFFICES ASSUME Made PROVE CodecInv
  OBVIOUS
<1>1. Init /\ (NoDecoder \/ D!Init)
  BY DEF Made
<1>2. DInv
  BY <1>1, DecoderInit
<1>3. Posted
  <2>1. <<>> \in Seq(1..fed) /\ fed \in 0..MaxBytes
    BY <1>1, LimitAssumption DEF Init
  <2> QED  BY <1>1, <2>1 DEF Init, Posted
<1> QED  BY <1>1, <1>2, <1>3, EncoderInit, StreamInit DEF CodecInv, SInv

(* CodecInv is inductive.                                                  *)
LEMMA CodecStep == CodecInv /\ [Used]_<<edc, decoder, vars>> => CodecInv'
<1> SUFFICES ASSUME CodecInv, [Used]_<<edc, decoder, vars>> PROVE CodecInv'
  OBVIOUS
<1>1. CASE Next /\ UNCHANGED decoder
  BY <1>1, StreamStep, PostedStep, DecoderStutter DEF CodecInv, SInv
<1>2. CASE D!Next /\ UNCHANGED vars
  BY <1>2, StreamStep, PostedStep, DecoderStep DEF CodecInv, SInv
<1>3. CASE UNCHANGED decoder /\ UNCHANGED vars
  BY <1>3, StreamStep, PostedStep, DecoderStutter DEF CodecInv, SInv
<1> QED  BY <1>1, <1>2, <1>3 DEF Used

(* Every variable of both halves has the type of what it stands for.       *)
THEOREM CodecTyped == CodecSpec => []TypesOK
<1>1. CodecInv => TypesOK
  <2> SUFFICES ASSUME CodecInv PROVE TypesOK
    OBVIOUS
  <2>1. TypeOK
    <3>1. out \in [audio: Seq(1..fed), length: Nat, size: Nat]
      <4>1. /\ out.audio \in Seq(1..fed)
            /\ out = [audio |-> out.audio, length |-> out.length, size |-> out.size]
        BY DEF CodecInv, Posted
      <4>2. out.length \in Nat /\ out.size \in Nat
        BY DEF CodecInv, SInv, EInv, Buffers
      <4> QED  BY <4>1, <4>2
    <3> QED  BY <3>1 DEF CodecInv, Posted, TypeOK, Audio
  <2>2. D!TypeOK
    <3>1. D!Total = Start(frames, Len(frames) + 1)
      BY SMTT(60), Basics, BeforeIs DEF D!Total, CodecInv
    <3>2. din \in [data: Seq(D!Byte), size: Nat]
      BY DEF CodecInv, DInv, DTypes, InTyped
    <3>3. dout \in [length: Nat, size: Nat]
      BY DEF CodecInv, DInv, DTypes, OutTyped
    <3> QED  BY <3>1, <3>2, <3>3 DEF D!TypeOK, CodecInv, DInv, DTypes
  <2> QED  BY <2>1, <2>2 DEF TypesOK
<1> QED
  BY <1>1, CodecInit, CodecStep, PTL DEF CodecSpec

(* However the stream is cut, the codec gets its frames whole, in order,   *)
(* none twice; when tsilk_in returns it has decoded every frame that has   *)
(* come whole; a length is refused only where the stream is damaged; and   *)
(* what is written to ptk->in and ptk->out is inside their allocations.    *)
THEOREM FramesDecoded == CodecSpec => []StreamDecoded
<1>1. CodecInv => StreamDecoded
  <2> SUFFICES ASSUME CodecInv PROVE StreamDecoded
    OBVIOUS
  <2>1. D!FramesIntact /\ D!DecodedPromptly /\ D!RefusedRightly
    BY Promptly, Rightly DEF CodecInv, DInv
  <2>2. D!BuffersFit
    BY DEF CodecInv, DInv, DTypes, InTyped, OutTyped, D!BuffersFit
  <2> QED  BY <2>1, <2>2 DEF StreamDecoded
<1> QED
  BY <1>1, CodecInit, CodecStep, PTL DEF CodecSpec

(* The encoder's promises, of a tsilk object that may be either: nothing   *)
(* is lost, the buffer fits, the lag is bounded.                           *)
THEOREM EncoderInCodec == CodecSpec => [](NothingLost /\ OutFits /\ LagBounded)
<1>1. CodecInv => NothingLost /\ OutFits /\ LagBounded
  BY DEF CodecInv, SInv, EInv, Levels, OutFits, LagBounded
<1> QED
  BY <1>1, CodecInit, CodecStep, PTL DEF CodecSpec

=============================================================================
