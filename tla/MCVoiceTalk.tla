----------------------------- MODULE MCVoiceTalk -----------------------------
(***************************************************************************)
(* VoiceTalk for a user with two utterances: the second is answered in one *)
(* chunk, the first in two.                                                *)
(***************************************************************************)
EXTENDS VoiceTalk

CONSTANTS u1, u2

MCUtterances == {u1, u2}
MCReplyLen == u1 :> 2 @@ u2 :> 1
MCChunks == MCUtterances \X Seqs
=============================================================================
