-------------------------- MODULE MCGuardedAction --------------------------
(* Instances of GuardedAction for TLC: which calls name which operation and
   carry which request. *)
EXTENDS GuardedAction, TLC

CONSTANTS o1, o2,             \* operations
          a1, a2, a3,         \* calls
          click, sem, web, sh \* request bodies

MCKindOf == [p \in Payloads |-> CASE p = click -> "click"   [] p = sem -> "semantic"
                                  [] p = web   -> "browser" [] OTHER   -> "exec"]
MCStepsOf == [p \in Payloads |-> IF p = sem THEN 2 ELSE 1]

OneOp   == [c \in Calls |-> o1]

(* A key repeated with its request, then reused for another one. *)
BatchBatchClick == a1 :> sem @@ a2 :> sem @@ a3 :> click
(* One observation acted upon again, under the same key or another. *)
BatchOnly       == [c \in Calls |-> sem]
=============================================================================
