------------------------------ MODULE Planning ------------------------------
(***************************************************************************)
(* Choosing a route for a task (capability-router.js) from what the device *)
(* says of itself: computer_plan, computer_background_task and             *)
(* computer_doctor in server-multiuser.js.                                 *)
(*                                                                         *)
(* Three questions are put to the Agent together and answered at different *)
(* moments, or not at all, while the device changes.  What was heard is a  *)
(* set of facts; an unanswered question adds none.                         *)
(***************************************************************************)
EXTENDS Naturals, FiniteSets

CONSTANTS
    Asks,        \* calls of the tools
    MaxChanges   \* bound of the changes of the device

ASSUME ChangesType == MaxChanges \in Nat

VARIABLES
    device,    \* what is true of the device now
    changes,   \* how often it has changed
    asked,     \* the task each call plans for
    open,      \* the questions of a call not settled yet
    heard,     \* the facts a call has heard
    seen,      \* history: the states of the device since the call
    plan       \* chooseRoute's answer

planVars == <<device, changes, asked, open, heard, seen, plan>>

Direct == {"file_read", "file_write", "process_run"}
Alternates == Direct \cup {"browser"}
NoTask == [kind |-> "none", admin |-> FALSE, start |-> FALSE, alternate |-> "none"]
Tasks ==
    [kind : Direct, admin : BOOLEAN, start : {FALSE}, alternate : {"none"}] \cup
    [kind : {"browser"}, admin : BOOLEAN, start : BOOLEAN, alternate : {"none"}] \cup
    [kind : {"desktop"}, admin : BOOLEAN, start : {FALSE}, alternate : Alternates \cup {"none"}]

Conditions == {"locked", "approval", "foreground", "elevated", "browser"}
Questions == {"session", "system", "browser"}
Facts == {"interactive", "locked", "unlocked", "approvalPending", "elevated", "direct", "running"}

NoPlan == [route |-> "none", ready |-> FALSE]
Wait(r) == [route |-> r, ready |-> FALSE]
Go(r)   == [route |-> r, ready |-> TRUE]

Screen == {"windows.uia_guarded", "windows.preview_guarded"}
Behind == {"background.filesystem", "background.process", "browser.cdp", "browser.cdp_start"}
Waits  == {"waiting_for_user_approval", "authorized_admin_provisioning", "unavailable",
           "browser_not_ready", "waiting_for_interactive_session"}

PlanTypeOK ==
    /\ device \in SUBSET Conditions /\ changes \in 0..MaxChanges
    /\ asked \in [Asks -> Tasks \cup {NoTask}]
    /\ open \in [Asks -> SUBSET Questions]
    /\ heard \in [Asks -> SUBSET Facts]
    /\ seen \in [Asks -> SUBSET SUBSET Conditions]
    /\ plan \in [Asks -> {NoPlan} \cup {Wait(r) : r \in Waits} \cup
                         {Go(r) : r \in Screen \cup Behind}]

PlanInit ==
    /\ device = {"foreground"} /\ changes = 0
    /\ asked = [a \in Asks |-> NoTask] /\ open = [a \in Asks |-> {}]
    /\ heard = [a \in Asks |-> {}] /\ seen = [a \in Asks |-> {}]
    /\ plan = [a \in Asks |-> NoPlan]

(* What session_state, system_info and the browser's status answer, of a
   device in a state. *)
SaysIn(d, q) ==
    CASE q = "session" ->
            {IF "locked" \in d THEN "locked" ELSE "unlocked"} \cup
            (IF "approval" \in d THEN {"approvalPending"} ELSE {}) \cup
            (IF "elevated" \in d THEN {"elevated"} ELSE {}) \cup
            (IF "foreground" \in d /\ d \cap {"locked", "approval"} = {}
             THEN {"interactive"} ELSE {})
      [] q = "system" -> {"direct"}
      [] q = "browser" -> IF "browser" \in d THEN {"running"} ELSE {}
Says(q) == SaysIn(device, q)

-----------------------------------------------------------------------------
(* chooseRoute.                                                            *)

NotLocked(F) == "locked" \notin F /\ "approvalPending" \notin F  \* mutant: silence taken for yes
Unlocked(F)  == "interactive" \in F /\ "unlocked" \in F

Background(kind, start, F) ==
    CASE kind \in Direct /\ "direct" \in F ->
            Go(IF kind = "process_run" THEN "background.process" ELSE "background.filesystem")
      [] kind \in Direct /\ "direct" \notin F -> Wait("unavailable")
      [] kind = "browser" /\ "running" \in F -> Go("browser.cdp")
      [] kind = "browser" /\ "running" \notin F ->
            IF start /\ "direct" \in F THEN Go("browser.cdp_start") ELSE Wait("browser_not_ready")

ChooseRoute(t, F) ==
    IF t.kind = "desktop" /\ "approvalPending" \in F THEN Wait("waiting_for_user_approval")
    ELSE IF t.admin /\ "elevated" \notin F THEN Wait("authorized_admin_provisioning")
    ELSE IF t.kind # "desktop" THEN Background(t.kind, t.start, F)
    ELSE IF Unlocked(F)
    THEN Go(IF "direct" \in F THEN "windows.uia_guarded" ELSE "windows.preview_guarded")
    ELSE IF t.alternate # "none" /\ Background(t.alternate, FALSE, F).ready
    THEN Background(t.alternate, FALSE, F)
    ELSE Wait("waiting_for_interactive_session")

(* computer_doctor. *)
Interactive(F) == Unlocked(F) /\ "approvalPending" \notin F
Suggested(F) ==
    CASE "approvalPending" \in F -> "wait_for_local_admin_approval"
      [] "approvalPending" \notin F /\ Interactive(F) -> "windows.uia_then_guarded_preview"
      [] OTHER -> IF "direct" \in F THEN "background_direct_api" ELSE "wait_for_interactive_session"

-----------------------------------------------------------------------------

Ask(a, t) ==
    /\ asked[a] = NoTask
    /\ asked' = [asked EXCEPT ![a] = t]
    /\ open' = [open EXCEPT ![a] = Questions]
    /\ seen' = [seen EXCEPT ![a] = {device}]
    /\ UNCHANGED <<device, changes, heard, plan>>

(* Promise.allSettled: an answer, or an error or timeout; the last of the
   three lets the plan be made. *)
Hear(a, q) ==
    /\ q \in open[a]
    /\ open' = [open EXCEPT ![a] = @ \ {q}]
    /\ \E F \in {{}, Says(q)} :
        /\ heard' = [heard EXCEPT ![a] = @ \cup F]
        /\ plan' = [plan EXCEPT ![a] = IF open[a] = {q} THEN ChooseRoute(asked[a], heard[a] \cup F)
                                       ELSE NoPlan]
    /\ UNCHANGED <<device, changes, asked, seen>>

(* The screen is locked, a prompt appears, a browser ends, the Agent comes
   back elevated, ... *)
Change(c) ==
    /\ changes < MaxChanges /\ changes' = changes + 1
    /\ device' = IF c \in device THEN device \ {c} ELSE device \cup {c}
    /\ seen' = [a \in Asks |-> IF open[a] = {} THEN seen[a] ELSE seen[a] \cup {device'}]
    /\ UNCHANGED <<asked, open, heard, plan>>

PlanNext ==
    \/ \E a \in Asks, t \in Tasks : Ask(a, t)
    \/ \E a \in Asks, q \in Questions : Hear(a, q)
    \/ \E c \in Conditions : Change(c)

PlanSpec == PlanInit /\ [][PlanNext]_planVars

-----------------------------------------------------------------------------
(* Properties.                                                             *)

(* Whatever was answered when, or not at all: a task is said to be ready on
   the screen only if at one moment during the call the screen was unlocked,
   without a prompt and, if asked for, administrative; and on a running
   browser only if it ran (capability-router.js:14). *)
ReadyIsWitnessed ==
    \A a \in Asks : plan[a].ready =>
        /\ \E d \in seen[a] :
            /\ asked[a].admin => "elevated" \in d
            /\ plan[a].route \in Screen => "foreground" \in d /\ d \cap {"locked", "approval"} = {}
        /\ plan[a].route = "browser.cdp" => \E d \in seen[a] : "browser" \in d

(* The doctor and the planner agree on the same answers: a suggestion names
   the screen exactly when a desktop task would be ready there. *)
DoctorAgrees ==
    \A a \in Asks :
        LET p == ChooseRoute([NoTask EXCEPT !.kind = "desktop"], heard[a]) IN
        /\ Suggested(heard[a]) = "windows.uia_then_guarded_preview" <=> p.ready
        /\ Suggested(heard[a]) = "wait_for_local_admin_approval"
            <=> p.route = "waiting_for_user_approval"

(* What a plan says is ready was so at one moment of the call, and the doctor
   and the planner agree. *)
PlansSound == ReadyIsWitnessed /\ DoctorAgrees

-----------------------------------------------------------------------------
(* The inductive invariant behind PlansSound.                              *)

FactsOf(q) == CASE q = "session" -> {"interactive", "locked", "unlocked", "approvalPending", "elevated"}
                [] q = "system"  -> {"direct"}
                [] q = "browser" -> {"running"}

(* What a call has heard of a question is what the device would have said to
   it in one of the states it was in since the call, or nothing; nothing is
   heard of a question that is open. *)
HeardIsTrue ==
    \A a \in Asks, q \in Questions : heard[a] \cap FactsOf(q) # {} =>
        q \notin open[a] /\ \E d \in seen[a] : heard[a] \cap FactsOf(q) = SaysIn(d, q)

(* A call follows the device until its last answer, and plans then. *)
Stages ==
    \A a \in Asks :
        /\ open[a] # {} => device \in seen[a] /\ plan[a] = NoPlan
        /\ asked[a] = NoTask => open[a] = {} /\ heard[a] = {} /\ plan[a] = NoPlan
        /\ plan[a] # NoPlan => seen[a] # {} /\ plan[a] = ChooseRoute(asked[a], heard[a])

PlanInv == PlanTypeOK /\ HeardIsTrue /\ Stages
=============================================================================
