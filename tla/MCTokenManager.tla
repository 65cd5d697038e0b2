--------------------------- MODULE MCTokenManager ---------------------------
(***************************************************************************)
(* Small instances of TokenManager.                                        *)
(***************************************************************************)
EXTENDS TokenManager

MCLifetimes == {NoExpiry, 0, 2}

=============================================================================
