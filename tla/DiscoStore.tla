----------------------------- MODULE DiscoStore -----------------------------
(***************************************************************************)
(* What the discovery cache of the Python library promises its callers,    *)
(* without a cache: a caller asks for the document of an address under a   *)
(* policy, and is given either what its own request brought, or what some  *)
(* request for the same address under the same policy brought, as long as  *)
(* that answer may be stored and is no older than its lifetime and the     *)
(* time a request may take.  A failure reaches only the caller whose       *)
(* request failed.                                                         *)
(***************************************************************************)
EXTENDS Naturals

CONSTANTS Callers,
          Flight,           \* how long a request may take
          Admits(_, _)      \* Admits(w, r): r may come of a request that wants w

VARIABLES now,      \* the time
          log,      \* the answers that may still be shared: [want, resp, at, ttl]
          phase,    \* caller -> "idle", "asked", "sent" or "given"
          want,     \* caller -> what it asked for
          got       \* caller -> what it was given

vars == <<now, log, phase, want, got>>

Init == /\ now = 0 /\ log = {}
        /\ phase = [c \in Callers |-> "idle"]

Young(rec, t) == t < rec.at + rec.ttl + Flight

Ask(c) == /\ phase[c] = "idle" /\ phase'[c] = "asked"
          /\ UNCHANGED <<now, log>>

\* The caller sends a request of its own.
Send(c) == /\ phase[c] = "asked" /\ phase'[c] = "sent"
           /\ want'[c] = want[c] /\ UNCHANGED <<now, log>>

Given(c, from) == phase[c] = from /\ phase'[c] = "given" /\ want'[c] = want[c] /\ UNCHANGED now

\* The answer to the caller's own request, which took at most Flight.
Fetch(c) == /\ Given(c, "sent")
            /\ got'[c].ok => Admits(want[c], got'[c])
            /\ \A rec \in log' \ log :
                 /\ got'[c].ok /\ rec.resp = got'[c] /\ rec.want = want[c]
                 /\ rec.at <= now /\ now <= rec.at + Flight
            /\ log \subseteq log' /\ \A rec, other \in log' \ log : rec = other

\* A failure without a request.
Refuse(c) == Given(c, "asked") /\ ~got'[c].ok /\ UNCHANGED log

\* An answer that an earlier request brought.
Share(c) == /\ Given(c, "asked")
            /\ \E rec \in log : rec.want = want[c] /\ rec.resp = got'[c]
            /\ UNCHANGED log

\* The caller has its answer, or was cancelled.
Leave(c) == phase[c] # "idle" /\ phase'[c] = "idle" /\ UNCHANGED <<now, log>>

\* What gets too old may not be shared any more.
Tick == /\ now' = now + 1
        /\ log' = {rec \in log : Young(rec, now')}
        /\ UNCHANGED <<phase, want, got>>

Others(c) == \A o \in Callers \ {c} : phase'[o] = phase[o] /\ want'[o] = want[o] /\ got'[o] = got[o]

Next == \/ \E c \in Callers : (Ask(c) \/ Send(c) \/ Fetch(c) \/ Refuse(c) \/ Share(c) \/ Leave(c)) /\ Others(c)
        \/ Tick

Spec == Init /\ [][Next]_vars
=============================================================================
