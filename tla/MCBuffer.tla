------------------------------- MODULE MCBuffer -------------------------------
(***************************************************************************)
(* A small instance of Buffer for TLC.                                     *)
(***************************************************************************)
EXTENDS Buffer, TLC

CONSTANTS a, b   \* the bytes that are put in

\* They are interchangeable.
Symmetry == Permutations({a, b})
=============================================================================
