---------------------------- MODULE PyJwksBudget ----------------------------
(***************************************************************************)
(* PyJwks with a history of the forced refreshes that did not help: who    *)
(* stamped the cooldown of a URI, and when.  The history is forgotten when *)
(* the stamp is dropped (the kid was found, the entry evicted or cleared). *)
(***************************************************************************)
EXTENDS PyJwks

VARIABLE spent  \* per URI: pairs of a caller and the time it set the stamp

BudgetInit == Init /\ spent = [u \in Uris |-> {}]

\* c sent a request, was not helped by the answer and has just set the stamp.
Stamps(c) ==
    /\ pc[c] = "account" /\ pc'[c] # "account"
    /\ stamp'[job[c].uri] = now
    /\ job[c].from = "refresh" /\ Validates(job[c].resp)

BudgetNext ==
    /\ Next
    /\ spent' = [u \in Uris |->
            IF stamp'[u] = NoStamp THEN {}
            ELSE spent[u] \cup {<<c, now>> : c \in {d \in Callers : Stamps(d) /\ job[d].uri = u}}]

BudgetSpec == BudgetInit /\ [][BudgetNext]_<<vars, spent>> /\ Fairness

\* While a stamp stands, no caller spends a second unhelpful refresh on the same
\* URI within one cooldown, on the kid-miss and the signature path together
\* (should_attempt_kid_miss_refresh gates both on one budget).
OncePerCaller ==
    [][\A c \in Callers : Stamps(c) =>
        \A s \in spent[job[c].uri] : s[1] = c => now - s[2] >= Cooldown]_<<vars, spent>>
=============================================================================
