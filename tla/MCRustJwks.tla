----------------------------- MODULE MCRustJwks -----------------------------
(***************************************************************************)
(* Small instances of RustJwks.  There are as many gates as tasks: a gate  *)
(* that no task refers to is in no map.                                    *)
(***************************************************************************)
EXTENDS RustJwks

\* The provider moves from one key to the next.
MCKids == {"a", "b"}
MCRotating == {{"a"}, {"b"}}
MCStatic == {{"a"}}

MCSymmetry == Permutations(Tasks) \cup Permutations(Gates)

\* The operations in progress, and the URIs that something is known of.
Used == {job[c].op : c \in {d \in Tasks : pc[d] # "idle"}}
Known ==
    {u \in Uris : entry[u] # NoEntry \/ last_refresh[u] # NoMark \/ in_flight[u] # NoGate}
        \cup {job[c].uri : c \in {d \in Tasks : pc[d] # "idle"}}

Alone == Cardinality({c \in Tasks : pc[c] # "idle"}) <= 1

\* The run follows forced refreshes over rotations and expiry for one URI, misses
\* over rotations, misses over expiry for one URI, and misses, evictions and
\* failures of two URIs: of several tasks at one instant, of one task after it.
MCScope ==
    /\ published["u2"] = {"a"}
    /\ \/ Known \subseteq {"u1"} /\ Used \subseteq {"force"}
       \/ Known \subseteq {"u1"} /\ Used \subseteq {"resolve"} /\ now = 0
       \/ /\ published["u1"] = {"a"} /\ Used \subseteq {"resolve"}
          /\ now = 0 \/ Known \subseteq {"u1"} \/ Alone
=============================================================================
