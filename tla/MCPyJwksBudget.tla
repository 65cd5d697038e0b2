--------------------------- MODULE MCPyJwksBudget ---------------------------
(* Instance of PyJwksBudget: no rotation, and no token that a key signed. *)
EXTENDS PyJwksBudget, MCPyJwks

MCForged == {Key("z", 0), Key("a", 0)}
=============================================================================
