---------------------------- MODULE MCCaptureFlow ----------------------------
(* Model-checking instance of CaptureFlow. *)
EXTENDS CaptureFlow

CONSTANTS chrome, edge

MCRequests == {<<Invalid, edge>>}
=============================================================================
