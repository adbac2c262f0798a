------------------------ MODULE MCGuardedScenarios ------------------------
(***************************************************************************)
(* Two instances of GuardedAction in one run: a behaviour makes the calls  *)
(* of one of two scenarios, whose operations and observations have nothing *)
(* in common, and never those of the other.                                *)
(***************************************************************************)
EXTENDS MCGuardedAction

CONSTANTS o3,           \* a third operation
          b1, b2, b3    \* the calls of the second scenario

Shell   == {a1, a2, a3} \* a command repeated, its key reused for a click
Browser == {b1, b2, b3} \* one observation, acted upon twice under one key and under another

KeyOf  == [c \in Calls |-> IF c \in Shell THEN o1 ELSE IF c = b3 THEN o3 ELSE o2]
BodyOf == [c \in Calls |-> IF c = a3 THEN click ELSE IF c \in Shell THEN sh ELSE web]

(* The constraint of the run. *)
OneScenario == \E s \in {Shell, Browser} : \A c \in Calls \ s : pc[c] = "idle"
=============================================================================
