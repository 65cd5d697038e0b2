------------------------------ MODULE Recency ------------------------------
(***************************************************************************)
(* The order in which the keys of a bounded cache were used, least         *)
(* recently used first: an OrderedDict in Python, access ticks in Go and   *)
(* Rust.                                                                   *)
(***************************************************************************)
EXTENDS Integers, SequencesExt

\* OrderedDict.pop(u, None); delete(entries, u); entries.remove(u).
Popped(s, u) ==
    IF Contains(s, u) THEN RemoveAt(s, CHOOSE i \in 1..Len(s) : s[i] = u) ELSE s

\* Drop from the least recently used end until at most n keys are left.
Newest(s, n) == IF Len(s) > n THEN SubSeq(s, Len(s) - n + 1, Len(s)) ELSE s
=============================================================================
