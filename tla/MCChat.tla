------------------------------- MODULE MCChat -------------------------------
(* Model-checking instance of Chat. *)
EXTENDS Chat
=============================================================================
