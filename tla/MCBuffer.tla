------------------------------ MODULE MCBuffer ------------------------------
(***************************************************************************)
(* Finite instances of Buffer: pages of two bytes instead of 4096.         *)
(***************************************************************************)
EXTENDS Buffer

CONSTANTS a, b

(* Nothing, less than a page, a page, and more than one page.              *)
MCTexts == {<<>>, <<a>>, <<a, b>>, <<b, a, a>>}
=============================================================================
