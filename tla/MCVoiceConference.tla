------------------------- MODULE MCVoiceConference -------------------------
(* Two callers, who are interchangeable, one attribute that is shown on    *)
(* the screen and one that is not.                                         *)
EXTENDS VoiceConference

MCAttributes == {"muted", "locked"}
MCSymmetry == Permutations(Voices)
=============================================================================
