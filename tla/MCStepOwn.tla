----------------------------- MODULE MCStepOwn ------------------------------
(***************************************************************************)
(* Stacks of three frames, forms of two further expressions: every frame   *)
(* with nothing, one or more to come, over and under every other.          *)
(***************************************************************************)
EXTENDS StepOwnRef
=============================================================================
