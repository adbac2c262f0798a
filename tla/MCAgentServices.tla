-------------------------- MODULE MCAgentServices --------------------------
(***************************************************************************)
(* The parts of the Agent that keep state of their own and share none of   *)
(* it: its connection, the pipe to its helper, the output of a process it  *)
(* starts, and a tab of its browser with the Core's observations of it.    *)
(* As in MCCoreServices a behaviour follows one of them.                   *)
(***************************************************************************)
EXTENDS AgentLink, NativePipe, ChildOutput, BrowserTab

VARIABLE focus

vars == <<focus, linkVars, pipeVars, childVars, tabVars>>

Init ==
    /\ focus \in {"link", "pipe", "child", "tab"}
    /\ LinkInit /\ PipeInit /\ ChildInit /\ TabInit
    /\ focus = "tab" \/ page = CHOOSE p \in Pages : TRUE

InLink  == focus = "link"  /\ UNCHANGED <<focus, pipeVars, childVars, tabVars>>
InPipe  == focus = "pipe"  /\ UNCHANGED <<focus, linkVars, childVars, tabVars>>
InChild == focus = "child" /\ UNCHANGED <<focus, linkVars, pipeVars, tabVars>>
InTab   == focus = "tab"   /\ UNCHANGED <<focus, linkVars, pipeVars, childVars>>

Next ==
    \/ InLink /\ LinkNext
    \/ InPipe /\ PipeNext
    \/ InChild /\ ChildNext
    \/ InTab /\ TabNext

(* The fairness of each part, of its own steps while it is followed. *)
Fairness ==
    /\ WF_vars(InLink /\ Fire) /\ WF_vars(InLink /\ Attempt)
    /\ \A s \in Sockets : /\ WF_vars(InLink /\ Deadline(s))
                          /\ WF_vars(InLink /\ Finish(s))
                          /\ WF_vars(InLink /\ CloseEvent(s))
    /\ WF_vars(InPipe /\ InitDone)
    /\ \A c \in Calls : WF_vars(InPipe /\ Timeout(c))
    /\ WF_vars(InChild /\ RunTimeout) /\ WF_vars(InChild /\ Killed)
    /\ WF_vars(InChild /\ ProcessExit) /\ WF_vars(InChild /\ Answer)
    /\ WF_vars(InChild /\ \E n \in 1..MaxOutput : Data(n))

Spec == Init /\ [][Next]_vars /\ Fairness

(* The types of every part. *)
TypeOK == LinkTypeOK /\ PipeTypeOK /\ ChildTypeOK /\ TabTypeOK
=============================================================================
