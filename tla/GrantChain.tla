----------------------------- MODULE GrantChain -----------------------------
(***************************************************************************)
(* What the OAuth server promises of an authorization: the right to renew  *)
(* it is a baton.  It starts as the code, is handed on from one refresh    *)
(* token to the next, may be dropped at any time, and is never in two      *)
(* hands, never picked up again, and never handed back.                    *)
(***************************************************************************)
CONSTANTS Grants, Credentials, Nobody

VARIABLES
    holder,   \* the credential that renews each grant
    spent     \* the credentials that did, or will not any more

vars == <<holder, spent>>

Init == holder = [g \in Grants |-> Nobody] /\ spent = {}

Held == {holder[g] : g \in Grants} \ {Nobody}

Give(g, c) ==
    /\ c \in Credentials \ (spent \cup Held)
    /\ holder' = [holder EXCEPT ![g] = c]

Begin(g) == g \notin spent /\ holder[g] = Nobody /\ Give(g, g) /\ UNCHANGED spent
HandOn(g) ==
    /\ holder[g] # Nobody
    /\ \E c \in Credentials : Give(g, c)
    /\ spent' = spent \cup {holder[g]}
Drop(g) ==
    /\ holder[g] # Nobody
    /\ holder' = [holder EXCEPT ![g] = Nobody]
    /\ spent' = spent \cup {holder[g]}

Next == \E g \in Grants : Begin(g) \/ HandOn(g) \/ Drop(g)

Spec == Init /\ [][Next]_vars
=============================================================================
