--------------------------- MODULE MCLlmFailover ---------------------------
(* LlmFailover for TLC: one model has a request limit, the other has none. *)
EXTENDS LlmFailover

CONSTANT m1

MCLimited == {m1} \X Keys
=============================================================================
