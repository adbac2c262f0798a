--------------------------- MODULE GuardedOutcome ---------------------------
(***************************************************************************)
(* What the guarded tools promise about one idempotency key: its effect    *)
(* happens at most once, as a whole or in part; a client is told           *)
(* "confirmed" only about a whole effect and "stale" only about an effect  *)
(* that never begins.  (OperationJournal: "Existing running/uncertain ops  *)
(* are never redispatched"; every other answer promises nothing.)          *)
(***************************************************************************)
CONSTANT Ops

VARIABLES effect,   \* how much of the operation has reached the device
          told      \* the definite answers given about it

vars == <<effect, told>>

Effects == {"open", "begun", "whole", "void"}

Init == effect = [o \in Ops |-> "open"] /\ told = [o \in Ops |-> {}]

Advance(o, from, to) ==
    effect[o] \in from /\ effect' = [effect EXCEPT ![o] = to]

(* The first input reaches the device, and then the last. *)
Begin(o)    == Advance(o, {"open"}, "begun") /\ UNCHANGED told
Complete(o) == Advance(o, {"open", "begun"}, "whole") /\ UNCHANGED told

(* The operation is closed without effect, for good. *)
Reject(o) ==
    /\ Advance(o, {"open"}, "void")
    /\ told' = [told EXCEPT ![o] = @ \cup {"stale"}]

Confirm(o) ==
    /\ effect[o] = "whole"
    /\ told' = [told EXCEPT ![o] = @ \cup {"confirmed"}]
    /\ UNCHANGED effect

Repeat(o) ==
    /\ effect[o] = "void"
    /\ told' = [told EXCEPT ![o] = @ \cup {"stale"}]
    /\ UNCHANGED effect

Next == \E o \in Ops : Begin(o) \/ Complete(o) \/ Reject(o) \/ Confirm(o) \/ Repeat(o)

Spec == Init /\ [][Next]_vars
=============================================================================
