--------------------------- MODULE MCQuestionWalk ---------------------------
(***************************************************************************)
(* QuestionWalk at a small scale: labels up to 3 bytes, names up to 9, and *)
(* captures from nothing behind the DNS header to more than a name of the  *)
(* largest size with its OPT record needs.                                 *)
(***************************************************************************)
EXTENDS QuestionWalk

SmallCapLens == 0..24
=============================================================================
