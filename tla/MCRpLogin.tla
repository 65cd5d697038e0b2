----------------------------- MODULE MCRpLogin -----------------------------
(***************************************************************************)
(* Small instances of RpLogin.                                             *)
(***************************************************************************)
EXTENDS RpLogin, TLC

MCSymmetry == Permutations(Requests) \cup Permutations(Subjects)
=============================================================================
