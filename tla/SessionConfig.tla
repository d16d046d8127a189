---------------------------- MODULE SessionConfig ----------------------------
(***************************************************************************)
(* The parameters of the SDK and of a session: Configs::Init, the          *)
(* SessionParam object with its two tsilk codecs, what the SessionBegin    *)
(* request tells the service of them (get_data, GetUserInfo), and the end  *)
(* of the object.  A member of a parameter string may be absent, a string  *)
(* may not parse at all, and a field no statement sets holds whatever the  *)
(* memory held: a choice made when the object is allocated.                *)
(***************************************************************************)
EXTENDS Integers, FiniteSetsExt

CONSTANTS
  Field,      (* members a session may update: gps, vin, mac, tel, ...      *)
  Other,      (* members of a parameter string the SDK has no field for     *)
  Text,       (* values of a member: <<bytes, of them not alphanumeric>>    *)
  Format, Quality, Seconds,   (* values of audio_format, -_quality, time_out*)
  Junk,       (* integers the memory of a new object may hold               *)
  ABSENT,     (* for a member that is not there                             *)
  UNPARSABLE, (* for a string that is no JSON                               *)
  NULL,
  UNSET       (* a handle nothing was assigned to                           *)

EMPTY == <<0, 0>>

VARIABLES
  pc,         (* "idle", "session" or "crashed"                             *)
  given,      (* the parameter string of the session                        *)
  config,     (* the fields of g_configs a session may update               *)
  sp,         (* its SessionParam                                           *)
  heap,       (* the allocated parts of codecs: <<edc, part>>               *)
  told,       (* what SessionBegin told the service                         *)
  overrun     (* a byte was written past the end of pChipBuf                *)

vars == <<pc, given, config, sp, heap, told, overrun>>

Fields == [Field -> Text \cup {EMPTY}]
Given  == [audio_format: Format \cup {ABSENT}, audio_quality: Quality \cup {ABSENT},
           time_out: Seconds \cup {ABSENT}, other: SUBSET Other,
           field: [Field -> Text \cup {EMPTY, ABSENT}]]
NoField == [f \in Field |-> EMPTY]

(* asString of a member that is not there is the empty string.             *)
AsString(v) == IF v = ABSENT THEN EMPTY ELSE v

-----------------------------------------------------------------------------
(* tsilk_init and tsilk_fini.                                              *)

Part == {"object", "hd", "in", "out"}

KeepsHandle(edc) == {edc} \X (Part \ {"hd"})

(* tsilk_fini: every part that was allocated is freed.                     *)
Freed(edc) == {edc} \X Part

(* What is allocated when the codec gives an error, or none.               *)
Allocated(edc, rt) ==
  {edc} \X (CASE rt = "size failed" -> {"object"}
              [] rt = "init failed" -> {"object", "hd"}
              [] rt = "ok"          -> Part)

CodecResult == {"size failed", "init failed", "ok"}

RateOf(hz) == IF hz = 8000 THEN 8000 ELSE 16000

LevelOf(level) == IF level > 0 /\ level < 11 THEN level ELSE 10

Codec(hz, level, rt) ==
  IF rt = "ok" THEN [hz |-> RateOf(hz), level |-> LevelOf(level)] ELSE NULL

HeapAfter(edc, rt) == Allocated(edc, rt) \ (IF rt = "ok" THEN {} ELSE Freed(edc))

-----------------------------------------------------------------------------
(* SessionParam::SessionParam.  u is the integer the memory was full of,   *)
(* rt what the two codecs answer.                                          *)

Unparsed(u) ==
  [format |-> u, quality |-> u, time_out |-> u, packet_id |-> u,
   field |-> NoField, other |-> {}, enc |-> UNSET, dec |-> UNSET]

NotClamped(q) == q

Clamped(q) == IF q < 0 \/ q > 10 THEN 10 ELSE q

HzOf(format) == CASE format = 1 -> 8000 [] format = 2 -> 16000 [] OTHER -> 0

TimeOut(t) == IF t = ABSENT \/ t <= 0 THEN 2 ELSE t

(* getMemberNames: every member that was read has been removed by now.     *)
Unread(g) == g.other

(* Both codecs are there: the rest of the members is read.                 *)
Parsed(g, u, rt) ==
  LET format == IF g.audio_format = ABSENT THEN u ELSE g.audio_format
      q      == Clamped(IF g.audio_quality = ABSENT THEN u ELSE g.audio_quality)
      object == [Unparsed(u) EXCEPT
                   !.packet_id = 1, !.format = format, !.quality = q,
                   !.enc = Codec(HzOf(format), q, rt[1]),
                   !.dec = Codec(HzOf(format), q, rt[2])]
  IN  IF "ok" # rt[1] \/ "ok" # rt[2]
      THEN object
      ELSE [object EXCEPT !.time_out = TimeOut(g.time_out),
                          !.field = [f \in Field |-> AsString(g.field[f])],
                          !.other = Unread(g)]

-----------------------------------------------------------------------------
(* get_data for SessionBegin, with GetUserInfo.                            *)

Preferred(f, value) == config[f]

(* The session's value, or the configuration's where it is empty.          *)
UserInfo(f, value) == IF value = EMPTY THEN config[f] ELSE value

(* "program=shngi2;gps=;vin=;mac=;tel=;bluetooth=;carnum=;engine=;city=;"  *)
Labels  == <<68, 18>>

(* "name=value;" of a member the SDK has no field for, with a short value. *)
OtherText == <<8, 2>>

Total(info, other, i) ==
  Labels[i] + SumFunctionOnSet([f \in Field |-> info[f][i]], Field) + Cardinality(other) * OtherText[i]

ChipBufLen(length) == length * 4

(* vcyber_encrypt: url-encoded (three bytes for one), then in hexadecimal. *)
EncLength(length, escaped) == 2 * (length + 2 * escaped)

Begin(s) ==
  LET info    == [f \in Field |-> UserInfo(f, s.field[f])]
      length  == Total(info, s.other, 1)
      nEncRet == EncLength(length, Total(info, s.other, 2))
      whole   == nEncRet <= ChipBufLen(length)
  IN  /\ told' = [packet_id |-> s.packet_id, format |-> s.format, quality |-> s.quality,
                  whole |-> whole,
                  field |-> IF whole THEN info ELSE NoField,
                  other |-> IF whole THEN s.other ELSE {}]
      /\ overrun' = (nEncRet >= ChipBufLen(length))

-----------------------------------------------------------------------------

NotTold == [packet_id |-> 0, format |-> 0, quality |-> 0, whole |-> FALSE,
            field |-> NoField, other |-> {}]

Nothing == Unparsed(0)

Init ==
  /\ pc = "idle" /\ given = UNPARSABLE /\ config = NoField /\ sp = Nothing
  /\ heap = {} /\ told = NotTold /\ overrun = FALSE

(* Configs::Init reads the fields, absent or not; a string that does not   *)
(* parse changes nothing.                                                  *)
CloudVDInit ==
  /\ pc = "idle"
  /\ config' \in Fields
  /\ UNCHANGED <<pc, given, sp, heap, told, overrun>>

(* CloudVDStartSession up to the request: the object, and what is told.    *)
StartUnparsable ==
  /\ pc = "idle" /\ pc' = "session"
  /\ \E u \in Junk : sp' = Unparsed(u) /\ Begin(Unparsed(u))
  /\ given' = UNPARSABLE
  /\ UNCHANGED <<config, heap>>

StartSession ==
  /\ pc = "idle" /\ pc' = "session"
  /\ \E g \in Given, u \in Junk, rt \in CodecResult \X CodecResult :
       /\ given' = g
       /\ sp' = Parsed(g, u, rt)
       /\ heap' = HeapAfter(1, rt[1]) \cup HeapAfter(2, rt[2])
       /\ Begin(Parsed(g, u, rt))
  /\ UNCHANGED config

(* The codecs tsilk_fini gets a handle of.                                 *)
Released == (IF sp.enc = NULL THEN {} ELSE Freed(1)) \cup (IF sp.dec = NULL THEN {} ELSE Freed(2))

(* delete sp: SessionParam::~SessionParam frees both codecs.  A handle     *)
(* nothing was assigned to may be null or lead anywhere.                   *)
EndSession ==
  /\ pc = "session"
  /\ \/ pc' = "idle"
     \/ UNSET \in {sp.enc, sp.dec} /\ pc' = "crashed"
  /\ heap' = heap \ Released
  /\ given' = UNPARSABLE /\ sp' = Nothing /\ told' = NotTold
  /\ UNCHANGED <<config, overrun>>

Next == CloudVDInit \/ StartUnparsable \/ StartSession \/ EndSession

Spec == Init /\ [][Next]_vars

-----------------------------------------------------------------------------
(* Properties.                                                             *)

Ready == pc = "session" /\ given # UNPARSABLE

HasCodecs == Ready /\ NULL \notin {sp.enc, sp.dec}

(* A session whose codecs could be made works: the encoder uses the rate   *)
(* and the level the service is told of, also where the application gave   *)
(* neither and they are what the memory held, so that the audio is what    *)
(* the service takes it for; and its requests end, as libcurl takes a      *)
(* timeout of 0 for none.                                                  *)
SessionWorks ==
  /\ Ready /\ sp.enc # NULL =>
       /\ sp.enc.hz = 8000 <=> told.format = 1
       /\ told.quality \in 0..10
       /\ told.quality # 0 => sp.enc.level = told.quality
  /\ HasCodecs => sp.time_out > 0

(* The parts of codecs that are allocated are those of the session's       *)
(* codecs: a codec that fails half-way, or alone, leaves nothing behind,   *)
(* and the end of a session nothing either.                                *)
NothingLeaked ==
  heap = {b \in {1, 2} \X Part : Ready /\ (IF b[1] = 1 THEN sp.enc ELSE sp.dec) # NULL}

(* At least half of the text of user_info has to be escaped.               *)
MostEscaped ==
  LET info == [f \in Field |-> UserInfo(f, sp.field[f])]
  IN  2 * Total(info, sp.other, 2) >= Total(info, sp.other, 1)

(* The service is told every member of the parameter string, the session's *)
(* value before the configuration's, and every member that has no field of *)
(* its own once.  An early return of the constructor, or a buffer too      *)
(* small for the ciphertext, is the only way to lose them; the latter, and *)
(* a byte written past its end, needs a text half of which is escaped.     *)
EachMemberTold ==
  /\ HasCodecs /\ told.whole =>
       /\ \A f \in Field : LET v == given.field[f]
                           IN  told.field[f] = IF v \in Text THEN v ELSE config[f]
       /\ told.other = given.other
  /\ pc = "session" /\ (overrun \/ ~told.whole) => MostEscaped

(* These three are inductive with what a session starts from.              *)
ConfigInv ==
  /\ SessionWorks /\ NothingLeaked /\ EachMemberTold
  /\ config \in Fields
  /\ pc # "session" => given = UNPARSABLE

=============================================================================
