----------------------------- MODULE BrowserTab -----------------------------
(***************************************************************************)
(* Observing and acting on one tab of the device's browser: observe and    *)
(* act of BrowserExecution (browser.js), over the Agent's browser calls    *)
(* (yourhand-agent.mjs), each of which looks for the browser, and may      *)
(* start it, for itself.                                                   *)
(*                                                                         *)
(* Between the calls the page goes on, and the browser may exit.  A tab's  *)
(* id never returns, so there is one tab here, which is there or not.      *)
(* Journals and keys are in GuardedAction.                                 *)
(***************************************************************************)
EXTENDS Naturals, FiniteSets

CONSTANTS
    Looks,      \* calls of observe, and the observations they make
    Acts,       \* calls of act, each with its own key
    Urls,       \* addresses of the page
    States      \* states of the one selected element

VARIABLES
    running,    \* the browser answers on its port
    tab,        \* the tab is there
    page,       \* its address and the element's state
    look,       \* where each observation stands
    frame,      \* what it has found
    act,        \* where each action stands
    uses,       \* the observation it consumed
    lease,      \* actions that hold the lease of the tab
    working,    \* actions whose evaluation is, or may still be, at the Agent
    started     \* history: looks that started a browser

tabVars == <<running, tab, page, look, frame, act, uses, lease, working, started>>
lookVars == <<look, frame, started>>
actVars == <<act, uses, lease, working>>

Unknown == "none"
NoPage == [url |-> Unknown, state |-> Unknown]
Pages == [url : Urls, state : States]

TabTypeOK ==
    /\ running \in BOOLEAN /\ tab \in BOOLEAN /\ (tab => running)
    /\ page \in Pages
    /\ started \in SUBSET Looks
    /\ look \in [Looks -> {"new", "status", "tabs", "eval", "kept", "over"}]
    /\ frame \in [Looks -> [url : Urls \cup {Unknown}, state : States \cup {Unknown}]]
    /\ act \in [Acts -> {"new", "tabs", "eval", "probe", "over", "uncertain"}]
    /\ uses \in [Acts -> Looks \cup {Unknown}]
    /\ lease \in SUBSET Acts /\ working \in SUBSET Acts

TabInit ==
    /\ running = TRUE /\ tab = TRUE
    /\ page \in Pages
    /\ started = {}
    /\ look = [o \in Looks |-> "new"] /\ frame = [o \in Looks |-> NoPage]
    /\ act = [a \in Acts |-> "new"] /\ uses = [a \in Acts |-> Unknown]
    /\ lease = {} /\ working = {}

-----------------------------------------------------------------------------
(* The page and the browser.                                               *)

Navigate(p) ==
    /\ tab /\ page' = p
    /\ UNCHANGED <<running, tab, look, frame, started>> /\ UNCHANGED actVars
BrowserExits ==
    /\ running /\ running' = FALSE /\ tab' = FALSE
    /\ UNCHANGED page /\ UNCHANGED lookVars /\ UNCHANGED actVars
StartBrowser ==                                   \* somebody asks for it
    /\ ~running /\ running' = TRUE
    /\ UNCHANGED <<tab, page>> /\ UNCHANGED lookVars /\ UNCHANGED actVars
CloseTab ==
    /\ tab /\ tab' = FALSE
    /\ UNCHANGED <<running, page>> /\ UNCHANGED lookVars /\ UNCHANGED actVars

(* ensureBrowser: a browser that does not answer is started, or that fails. *)
EnsureBrowser == running' \in {running, TRUE}

-----------------------------------------------------------------------------
(* observe: status, tabs, eval, each a request to the Agent.               *)

Observe(o) ==
    /\ look[o] = "new" /\ look' = [look EXCEPT ![o] = "status"]
    /\ UNCHANGED <<running, tab, page, frame, started>> /\ UNCHANGED actVars

AskStatus(o) ==
    /\ look[o] = "status"
    /\ \/ running /\ look' = [look EXCEPT ![o] = "tabs"]
       \/ look' = [look EXCEPT ![o] = "over"]     \* not running, or no answer
    /\ UNCHANGED <<running, tab, page, frame, started>> /\ UNCHANGED actVars

(* tabs and eval make sure of a browser first. *)
Reach(o) ==
    /\ EnsureBrowser
    /\ started' = IF running' # running THEN started \cup {o} ELSE started

AskTabs(o) ==
    /\ look[o] = "tabs" /\ Reach(o)
    /\ \/ /\ tab /\ look' = [look EXCEPT ![o] = "eval"]
          /\ frame' = [frame EXCEPT ![o].url = page.url]
       \/ look' = [look EXCEPT ![o] = "over"] /\ UNCHANGED frame
    /\ UNCHANGED <<tab, page>> /\ UNCHANGED actVars

(* A tab that is gone is replaced by a blank one, in which there is no such
   element. *)
AskElement(o) ==
    /\ look[o] = "eval" /\ Reach(o)
    /\ \/ /\ tab /\ look' = [look EXCEPT ![o] = "kept"]
          /\ frame' = [frame EXCEPT ![o].state = page.state]
       \/ look' = [look EXCEPT ![o] = "over"] /\ UNCHANGED frame
    /\ UNCHANGED <<tab, page>> /\ UNCHANGED actVars

Expire(o) ==
    /\ look[o] = "kept" /\ look' = [look EXCEPT ![o] = "over"]
    /\ UNCHANGED <<running, tab, page, frame, started>> /\ UNCHANGED actVars

-----------------------------------------------------------------------------
(* act and perform.                                                        *)

Ignore == TRUE                                    \* mutant: the lease not asked for
TabFree == lease = {}

(* The first turn: the observation is consumed and the lease taken. *)
Act(a, o) ==
    /\ act[a] = "new" /\ look[o] = "kept" /\ TabFree
    /\ look' = [look EXCEPT ![o] = "over"]
    /\ act' = [act EXCEPT ![a] = "tabs"] /\ uses' = [uses EXCEPT ![a] = o]
    /\ lease' = lease \cup {a}
    /\ UNCHANGED <<running, tab, page, frame, started, working>>

Over(a, p) == act' = [act EXCEPT ![a] = p] /\ lease' = lease \ {a}

CheckTab(a) ==
    /\ act[a] = "tabs" /\ EnsureBrowser
    /\ \/ /\ tab /\ page.url = frame[uses[a]].url
          /\ act' = [act EXCEPT ![a] = "eval"] /\ working' = working \cup {a}
          /\ UNCHANGED lease
       \/ Over(a, "over") /\ UNCHANGED working    \* stale, or no answer
    /\ UNCHANGED <<tab, page, uses>> /\ UNCHANGED lookVars

(* guardedExpression, in one turn of the page, whether the Core still waits
   for it or not.  In the blank tab that replaces a lost one it finds another
   address.  It may also fail before it gets there. *)
AsObserved(p, f)  == p = f

Evaluate(a) ==
    /\ a \in working /\ working' = working \ {a} /\ EnsureBrowser
    /\ \/ /\ tab /\ AsObserved(page, frame[uses[a]])
          /\ page' \in Pages
          /\ IF act[a] = "eval" THEN act' = [act EXCEPT ![a] = "probe"] ELSE UNCHANGED act
          /\ UNCHANGED lease
       \/ /\ UNCHANGED page
          /\ IF act[a] = "eval" THEN Over(a, "over") ELSE UNCHANGED <<act, lease>>
    /\ UNCHANGED <<tab, uses>> /\ UNCHANGED lookVars

(* The RPC is given up, or its answer lost: uncertain, and the lease ends. *)
GiveUp(a) ==
    /\ act[a] = "eval" /\ Over(a, "uncertain")
    /\ UNCHANGED <<running, tab, page, uses, working>> /\ UNCHANGED lookVars

(* The expected address or text is looked for, or not. *)
Probe(a) ==
    /\ act[a] = "probe" /\ EnsureBrowser /\ Over(a, "over")
    /\ UNCHANGED <<tab, page, uses, working>> /\ UNCHANGED lookVars

TabNext ==
    \/ BrowserExits \/ StartBrowser \/ CloseTab \/ \E p \in Pages : Navigate(p)
    \/ \E o \in Looks : Observe(o) \/ AskStatus(o) \/ AskTabs(o) \/ AskElement(o) \/ Expire(o)
    \/ \E a \in Acts, o \in Looks : Act(a, o)
    \/ \E a \in Acts : CheckTab(a) \/ Evaluate(a) \/ GiveUp(a) \/ Probe(a)

TabSpec == TabInit /\ [][TabNext]_tabVars

-----------------------------------------------------------------------------
(* Properties.                                                             *)

(* Two actions are at work in a tab together only where the answer to one was
   "uncertain": the lease ends with the call, not with the evaluation
   (browser.js:82-86). *)
OneInTab ==
    \A a, b \in Acts :
        a # b /\ {a, b} \subseteq working => "uncertain" \in {act[a], act[b]}

(* "Does not require the Windows foreground or start a browser automatically."
   (server-multiuser.js:706, of the guarded observation.)  The answer to status
   is not the last word: the requests after it make sure of a browser, and
   start one where the one that was found has exited (browser.js:51-55,
   yourhand-agent.mjs:212, 265). *)
StartsNoBrowser == started = {}

-----------------------------------------------------------------------------
(* What the proofs add.  An action is at the Agent after its tab was checked
   and until its answer, or for longer if that is uncertain; until its call
   is over it has the lease, and one action has. *)
AtAgent == \A a \in working : act[a] \in {"eval", "uncertain"}
OneLease ==
    /\ \A a \in Acts : act[a] \in {"tabs", "eval", "probe"} => a \in lease
    /\ \A a, b \in lease : a = b

TabInv == TabTypeOK /\ AtAgent /\ OneLease
=============================================================================
