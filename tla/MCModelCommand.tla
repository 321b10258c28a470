--------------------------- MODULE MCModelCommand ---------------------------
(***************************************************************************)
(* ModelCommand for TLC; the .cfg files give it pipes of one unit, so that *)
(* a prompt of two and an output of two fill them.                         *)
(***************************************************************************)
EXTENDS ModelCommand
=============================================================================
