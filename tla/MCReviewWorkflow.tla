-------------------------- MODULE MCReviewWorkflow --------------------------
(* ReviewWorkflow for TLC: handlers are interchangeable, and so are rules
   when none of them is a YAML rule. *)
EXTENDS ReviewInvariant, TLC

CONSTANTS h1, h2, h3, h4

HandlerSymmetry == Permutations(Handlers)
=============================================================================
