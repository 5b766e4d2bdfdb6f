--------------------------- MODULE MCGuandanMatch ---------------------------
(***************************************************************************)
(* GuandanMatch for TLC: people are interchangeable, and no property of a  *)
(* run tells them apart.                                                   *)
(***************************************************************************)
EXTENDS GuandanMatch, TLC

PeopleSymmetry == Permutations(People)
=============================================================================
