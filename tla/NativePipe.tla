----------------------------- MODULE NativePipe -----------------------------
(***************************************************************************)
(* The Agent's calls of its native helper over a pipe (yourhand-agent.mjs: *)
(* initNative, nativeCallInner; the helper's loop is Main of               *)
(* YourHandNative.cs).                                                     *)
(*                                                                         *)
(* Calls overlap, the helper works through them one by one, may die at any *)
(* time and is started again by the next call.  What the Agent knows of it *)
(* lags behind: answers and the exit event wait for their turn of the      *)
(* event loop.  The Agent's own shutdown is left out.                      *)
(***************************************************************************)
EXTENDS Naturals, Sequences, Functions

CONSTANTS
    Calls,     \* calls of nativeCall, each with an id of its own
    Helpers    \* processes started one after the other

NoHelper == "none"
ASSUME HelpersType == NoHelper \notin Helpers

VARIABLES
    proc,      \* nativeProc
    init,      \* nativeInit: a start is under way
    life,      \* of each helper; "dead": its exit or error event is due
    queue,     \* calls written to a helper's stdin
    answers,   \* lines of its stdout not read yet
    phase,     \* where each call stands
    waiting,   \* calls that await nativeInit, in order
    pending,   \* nativePending
    via        \* history: the helper each call was written to

pipeVars == <<proc, init, life, queue, answers, phase, waiting, pending, via>>

PipeTypeOK ==
    /\ proc \in Helpers \cup {NoHelper} /\ init \in BOOLEAN
    /\ life \in [Helpers -> {"new", "alive", "dead", "gone"}]
    /\ queue \in [Helpers -> Seq(Calls)] /\ answers \in [Helpers -> Seq(Calls)]
    /\ phase \in [Calls -> {"new", "waiting", "pending", "answered", "failed", "timeout"}]
    /\ waiting \in Seq(Calls) /\ pending \in SUBSET Calls
    /\ via \in [Calls -> Helpers \cup {NoHelper}]

PipeInit ==
    /\ proc = NoHelper /\ init = FALSE
    /\ life = [h \in Helpers |-> "new"]
    /\ queue = [h \in Helpers |-> <<>>] /\ answers = [h \in Helpers |-> <<>>]
    /\ phase = [c \in Calls |-> "new"] /\ waiting = <<>> /\ pending = {}
    /\ via = [c \in Calls |-> NoHelper]

Turn(S, p) == phase' = [c \in Calls |-> IF c \in S THEN p ELSE phase[c]]

-----------------------------------------------------------------------------
(* nativeCall.                                                             *)

(* The calls of q, one after the other, after initNative. *)
WriteCalls(q) ==
    IF proc = NoHelper
    THEN Turn(Range(q), "failed") /\ UNCHANGED <<queue, pending, via>>
    ELSE /\ Turn(Range(q), "pending")
         /\ pending' = pending \cup Range(q)
         /\ queue' = [queue EXCEPT ![proc] = @ \o q]
         /\ via' = [c \in Calls |-> IF c \in Range(q) THEN proc ELSE via[c]]

Started == proc # NoHelper /\ ~init                   \* mutant: not used while it starts
Usable  == proc # NoHelper

(* The first turn of a call: the helper is there, being started, or started
   by this call; its program may be missing, or not start. *)
Call(c) ==
    /\ phase[c] = "new"
    /\ \/ /\ Usable /\ WriteCalls(<<c>>)
          /\ UNCHANGED <<proc, init, life, waiting>>
       \/ /\ ~Usable
          /\ IF init /\ proc = NoHelper THEN UNCHANGED <<proc, init, life>>
             ELSE \E h \in Helpers, l \in {"alive", "dead"} :
                    /\ life[h] = "new" /\ life' = [life EXCEPT ![h] = l]
                    /\ proc' = h /\ init' = TRUE
          /\ waiting' = Append(waiting, c) /\ Turn({c}, "waiting")
          /\ UNCHANGED <<queue, pending, via>>
       \/ /\ ~Usable /\ ~init /\ Turn({c}, "failed")
          /\ UNCHANGED <<proc, init, life, waiting, queue, pending, via>>
    /\ UNCHANGED <<answers>>

(* 40 ms after the start: everybody who waited goes on, helper or not. *)
StartedAlive == init /\ proc # NoHelper               \* mutant: only with the helper up
StartOver    == init

InitDone ==
    /\ StartOver /\ init' = FALSE
    /\ WriteCalls(waiting) /\ waiting' = <<>>
    /\ UNCHANGED <<proc, life, answers>>

-----------------------------------------------------------------------------
(* What settles a call.                                                    *)

(* A line of stdout: what nobody waits for is dropped. *)
ReadLine(h) ==
    /\ answers[h] # <<>>
    /\ answers' = [answers EXCEPT ![h] = Tail(@)]
    /\ LET c == Head(answers[h]) IN
       IF c \in pending
       THEN Turn({c}, "answered") /\ pending' = pending \ {c}
       ELSE UNCHANGED <<phase, pending>>
    /\ UNCHANGED <<proc, init, life, queue, waiting, via>>

Timeout(c) ==
    /\ phase[c] = "pending"
    /\ Turn({c}, "timeout") /\ pending' = pending \ {c}
    /\ UNCHANGED <<proc, init, life, queue, answers, waiting, via>>

(* The callback of a write to a pipe nobody reads any more. *)
WriteFails(c) ==
    /\ phase[c] = "pending" /\ life[via[c]] # "alive"
    /\ Turn({c}, "failed") /\ pending' = pending \ {c}
    /\ UNCHANGED <<proc, init, life, queue, answers, waiting, via>>

(* The exit or error event: rejectNativePending, nativeProc = null. *)
RejectPending == Turn(pending, "failed") /\ pending' = {}

HelperExit(h) ==
    /\ life[h] = "dead" /\ life' = [life EXCEPT ![h] = "gone"]
    /\ RejectPending /\ proc' = NoHelper
    /\ UNCHANGED <<init, queue, answers, waiting, via>>

-----------------------------------------------------------------------------
(* The helper.                                                             *)

Work(h) ==
    /\ life[h] = "alive" /\ queue[h] # <<>>
    /\ queue' = [queue EXCEPT ![h] = Tail(@)]
    /\ answers' = [answers EXCEPT ![h] = Append(@, Head(queue[h]))]
    /\ UNCHANGED <<proc, init, life, phase, waiting, pending, via>>

Die(h) ==
    /\ life[h] = "alive" /\ life' = [life EXCEPT ![h] = "dead"]
    /\ UNCHANGED <<proc, init, queue, answers, phase, waiting, pending, via>>

PipeNext ==
    \/ InitDone
    \/ \E c \in Calls : Call(c) \/ Timeout(c) \/ WriteFails(c)
    \/ \E h \in Helpers : ReadLine(h) \/ HelperExit(h) \/ Work(h) \/ Die(h)

(* Only the Agent's timers are assumed to fire: that of a start, those of
   the calls.  Nothing is assumed of the helper. *)
PipeFairness == WF_pipeVars(InitDone) /\ \A c \in Calls : WF_pipeVars(Timeout(c))

PipeSpec == PipeInit /\ [][PipeNext]_pipeVars /\ PipeFairness

-----------------------------------------------------------------------------
(* Properties.                                                             *)

(* The Agent runs one helper, and nothing is left waiting on one it has given
   up: input is not sent by two helpers at a time, and every pending call was
   written to the one in use (yourhand-agent.mjs:129-148). *)
OneHelper ==
    /\ \A g, h \in Helpers : life[g] = "alive" /\ life[h] = "alive" => g = h
    /\ \A c \in Calls : phase[c] = "pending" => via[c] = proc /\ proc # NoHelper
    /\ pending = {c \in Calls : phase[c] = "pending"}

(* Every call of the helper is settled. *)
CallsSettle ==
    \A c \in Calls : (phase[c] # "new") ~> (phase[c] \in {"answered", "failed", "timeout"})

-----------------------------------------------------------------------------
(* What the proofs add.  A helper lives, or its exit event is due, only as
   the one in use; so when a helper is started no call is pending. *)
InUse == \A h \in Helpers : life[h] \in {"alive", "dead"} => h = proc

PipeInv == PipeTypeOK /\ InUse /\ OneHelper
=============================================================================
