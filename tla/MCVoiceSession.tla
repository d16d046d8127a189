--------------------------- MODULE MCVoiceSession ---------------------------
(***************************************************************************)
(* Instances of VoiceSession for TLC.                                      *)
(***************************************************************************)
EXTENDS UploadInvariant, VoiceStream, TLC

(* Sessions play the same part, and so do the servers.                     *)
Perms == Permutations(Session) \cup Permutations(Server)

=============================================================================
