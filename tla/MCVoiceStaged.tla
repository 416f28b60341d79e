---------------------------- MODULE MCVoiceStaged ----------------------------
(***************************************************************************)
(* VoiceStaged for any client, with one utterance and one chunk text (no   *)
(* property of this module tells two of them apart) and replies of up to   *)
(* three chunks.                                                           *)
(***************************************************************************)
EXTENDS VoiceStaged
=============================================================================
