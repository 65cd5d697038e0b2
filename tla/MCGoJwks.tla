------------------------------ MODULE MCGoJwks ------------------------------
(***************************************************************************)
(* Small instances of GoJwks.                                              *)
(***************************************************************************)
EXTENDS GoJwks

\* The provider moves from one key to the next; "z" is a kid nobody publishes.
MCKids == {"a", "b"}
MCRotating == {{"a"}, {"b"}}

MCSymmetry == Permutations(Callers)

\* One handle for each URI.
MCOwnUri == "h1" :> "u1" @@ "h2" :> "u2"

\* Nothing has been asked of the second provider, or is left of it.
OneUri ==
    /\ handle["h2"] = {} /\ entry["u2"] = NoEntry /\ lastRefresh["u2"] = NoMark
    /\ flight["u2"] = NoFlight
    /\ \A c \in Callers : job[c].h = "h2" => pc[c] = "idle"

\* The operations in progress.
Used == {job[c].op : c \in {d \in Callers : pc[d] # "idle"}}

\* The run follows forced refreshes of one URI over rotations at one instant and
\* over expiry without rotation (the age of a key set is the same whatever is in
\* it), and misses, evictions and failures of two URIs at one instant.
MCScope ==
    /\ published["u2"] = {"a"}
    /\ now > 0 => published["u1"] = {"a"}
    /\ ~OneUri \/ now = MaxTime => "force" \notin Used
    /\ ~OneUri \/ "resolve" \in Used => now = 0 /\ published["u1"] = {"a"}
=============================================================================
