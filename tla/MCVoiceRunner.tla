---------------------------- MODULE MCVoiceRunner ----------------------------
(* Instances of VoiceRunner for TLC. *)
EXTENDS VoiceRunner

=============================================================================
