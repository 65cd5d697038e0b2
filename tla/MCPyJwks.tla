------------------------------ MODULE MCPyJwks ------------------------------
(***************************************************************************)
(* Small instances of PyJwks.  A key is a record of its kid and its        *)
(* material; a token carries the kid of its header and the material that   *)
(* signed it, so a token equal to a key is genuine.                        *)
(***************************************************************************)
EXTENDS PyJwks

Key(kid, mat) == [kid |-> kid, mat |-> mat]

k1 == Key("a", 1)
k2 == Key("b", 2)
k3 == Key("a", 3)
k4 == Key("e", 4)

MCKeys == {k1, k2, k3, k4}

\* k4 is an encryption key: a token without a kid is matched with the others.
MCCandidates == [S \in SUBSET MCKeys |-> IF S \ {k4} = {} THEN S ELSE S \ {k4}]

\* The provider adds a kid and replaces the material under the old one.
MCRotating == {{k1}, {k2, k3}}
MCRotated == {k2, k3}

\* No rotation.
MCStatic == {{k1, k4}}
MCStaticTokens == {k1, Key("z", 0), Key(NoKid, 1)}

MCOneLoop == [c \in Callers |-> "loop"]
MCTwoLoops == CHOOSE f \in [Callers -> {"l1", "l2"}] : \A c, d \in Callers : c # d => f[c] # f[d]
MCOneStripe == [u \in Uris |-> "s"]

MCSymmetry == Permutations(Callers)
=============================================================================
