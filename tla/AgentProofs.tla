---------------------------- MODULE AgentProofs ----------------------------
(***************************************************************************)
(* Proofs of the Agent's own parts: its connection to the Core, the pipe   *)
(* to its helper, the output of its processes and the tab of its browser.  *)
(***************************************************************************)
EXTENDS MCAgentServices,
        FiniteSetTheorems, SequenceTheorems, TLAPS

-----------------------------------------------------------------------------
(* The connection.                                                         *)

(* A blank process, started or gone, satisfies the invariant. *)
LEMMA BlankLink ==
    ASSUME NEW m \in {"starting", "gone"}, Blank(m)
    PROVE  LinkInv'
<1>1. LinkTypeOK'
  BY DEF Blank, LinkTypeOK
<1>2. NeverTwo' /\ Stays' /\ NoOther' /\ Remembered' /\ BeatsWithSocket'
  BY DEF Blank, NeverTwo, Stays, NoOther, Remembered, BeatsWithSocket
<1> QED
  BY <1>1, <1>2 DEF LinkInv

(* A process that starts has one attempt under way and nothing else. *)
LEMMA LinkStart == LinkInit => LinkInv
BY DEF LinkInit, LinkInv, LinkTypeOK, NeverTwo, Stays, NoOther, Remembered, BeatsWithSocket

(* Every event of the connection keeps it. *)
LEMMA LinkStep == LinkInv /\ [LinkNext]_linkVars => LinkInv'
<1> SUFFICES ASSUME LinkInv, [LinkNext]_linkVars PROVE LinkInv'
  OBVIOUS
<1> USE SocketsType DEF LinkInv
<1>1. CASE Fire
  <2>1. LinkTypeOK'
    BY <1>1 DEF Fire, LinkTypeOK
  <2>2. NeverTwo' /\ Stays'
    BY <1>1 DEF Fire, NeverTwo, Stays, LinkTypeOK
  <2>3. NoOther' /\ Remembered' /\ BeatsWithSocket'
    BY <1>1 DEF Fire, NoOther, Remembered, BeatsWithSocket
  <2> QED
    BY <2>1, <2>2, <2>3
<1>2. CASE AttemptFails
  <2>1. CASE mode = "starting"
    BY <1>2, <2>1, BlankLink DEF AttemptFails
  <2>2. CASE mode # "starting"
    <3>1. /\ attempt /\ ~attempt' /\ timer' = (timer \/ mode # "closing")
          /\ UNCHANGED <<mode, ws, state, ready, deadline, heartbeat, beating>>
      BY <1>2, <2>2 DEF AttemptFails, ScheduleReconnect
    <3>2. attempt' \in BOOLEAN /\ timer' \in BOOLEAN
      BY <1>2, <2>2 DEF AttemptFails, ScheduleReconnect
    <3>3. LinkTypeOK'
      BY <3>1, <3>2 DEF LinkTypeOK
    <3>4. NeverTwo' /\ Stays'
      BY <2>2, <3>1 DEF NeverTwo, Stays, LinkTypeOK
    <3>5. NoOther' /\ Remembered' /\ BeatsWithSocket'
      BY <3>1 DEF NoOther, Remembered, BeatsWithSocket
    <3> QED
      BY <3>3, <3>4, <3>5
  <2> QED
    BY <2>1, <2>2
<1>3. CASE Shutdown
  <2>1. LinkTypeOK'
    BY <1>3 DEF Shutdown, LinkTypeOK
  <2>2. NeverTwo' /\ Stays'
    BY <1>3 DEF Shutdown, NeverTwo, Stays
  <2>3. NoOther'
    BY <1>3 DEF Shutdown, NoOther, LinkTypeOK
  <2>4. Remembered' /\ BeatsWithSocket'
    BY <1>3 DEF Shutdown, Remembered, BeatsWithSocket, LinkTypeOK
  <2> QED
    BY <2>1, <2>2, <2>3, <2>4
<1>4. CASE AgentExits \/ AgentStarts
  BY <1>4, BlankLink DEF AgentExits, AgentStarts
<1>5. ASSUME NEW s \in Sockets, Connect(s) PROVE LinkInv'
  <2>0. attempt /\ ws = NoSocket /\ ~timer /\ beating = {}
    BY <1>5 DEF Connect, NeverTwo, BeatsWithSocket, LinkTypeOK
  <2>1. LinkTypeOK'
    BY <1>5 DEF Connect, Set, LinkTypeOK
  <2>2. NeverTwo' /\ Stays'
    BY <1>5, <2>0 DEF Connect, NeverTwo, Stays, LinkTypeOK
  <2>3. NoOther'
    BY <1>5, <2>0 DEF Connect, Set, NoOther, LinkTypeOK
  <2>4. Remembered' /\ BeatsWithSocket'
    BY <1>5, <2>0 DEF Connect, Remembered, BeatsWithSocket
  <2> QED
    BY <2>1, <2>2, <2>3, <2>4
(* a socket that opens, ends or is given up is the one in use, and stays it *)
<1>6. ASSUME NEW s \in Sockets, Opens(s) \/ SocketEnds(s) \/ CannotSign(s) \/ Deadline(s)
      PROVE  LinkInv'
  <2>1. /\ UNCHANGED <<mode, ws, ready, timer, attempt, heartbeat, beating>>
        /\ deadline' \in SUBSET Sockets
        /\ \/ UNCHANGED state
           \/ \E x \in {"open", "closing", "closed"} : state[s] # "free" /\ Set(s, x)
    BY <1>6 DEF Opens, SocketEnds, CannotSign, Deadline, NotAuthenticated, LinkTypeOK
  <2>2. LinkTypeOK'
    BY <2>1 DEF Set, LinkTypeOK
  <2>3. NoOther'
    BY <2>1 DEF Set, NoOther, LinkTypeOK
  <2>4. NeverTwo' /\ Stays' /\ Remembered' /\ BeatsWithSocket'
    BY <2>1 DEF NeverTwo, Stays, Remembered, BeatsWithSocket
  <2> QED
    BY <2>2, <2>3, <2>4
<1>7. ASSUME NEW s \in Sockets, MarkReady(s) PROVE LinkInv'
  <2>1. mode = "running" /\ beating = {}
    BY <1>7 DEF MarkReady, LinkTypeOK, NeverTwo, Stays, BeatsWithSocket
  <2>2. LinkTypeOK'
    BY <1>7 DEF MarkReady, LinkTypeOK
  <2>3. NeverTwo' /\ Stays' /\ NoOther'
    BY <1>7 DEF MarkReady, NeverTwo, Stays, NoOther
  <2>4. Remembered' /\ BeatsWithSocket'
    BY <1>7, <2>1 DEF MarkReady, Remembered, BeatsWithSocket
  <2> QED
    BY <2>2, <2>3, <2>4
<1>8. ASSUME NEW s \in Sockets, CloseEvent(s) PROVE LinkInv'
  <2>1. s = ws
    BY <1>8 DEF CloseEvent, NoOther
  <2>2. ~timer /\ ~attempt
    BY <2>1 DEF NeverTwo
  <2>3. /\ ws' = NoSocket /\ heartbeat' = NoSocket /\ beating' = beating \ {heartbeat}
        /\ ready' = ready \ {s} /\ deadline' = deadline \ {s} /\ Set(s, "free")
        /\ UNCHANGED <<mode, attempt>>
    BY <1>8, <2>1 DEF CloseEvent, StopBeating
  <2>4. (mode = "closing" => ~timer') /\ (mode # "closing" => timer') /\ timer' \in BOOLEAN
    BY <1>8, <2>1, <2>2 DEF CloseEvent, ScheduleReconnect
  <2>5. beating' = {}
    BY <2>3 DEF Remembered
  <2>6. LinkTypeOK'
    BY <2>3, <2>4, <2>5 DEF Set, LinkTypeOK
  <2>7. mode \in {"running", "closing"}
    BY <2>1, <2>2 DEF Stays, LinkTypeOK
  <2>8. NeverTwo' /\ Stays'
    BY <2>2, <2>3, <2>4, <2>7 DEF NeverTwo, Stays
  <2>9. NoOther'
    BY <2>1, <2>3 DEF Set, NoOther, LinkTypeOK
  <2>10. Remembered' /\ BeatsWithSocket'
    BY <2>3, <2>5 DEF Remembered, BeatsWithSocket
  <2> QED
    BY <2>6, <2>8, <2>9, <2>10
<1>9. CASE UNCHANGED linkVars
  BY <1>9 DEF linkVars, LinkTypeOK, NeverTwo, Stays, NoOther, Remembered, BeatsWithSocket
<1> QED
  BY <1>1, <1>2, <1>3, <1>4, <1>5, <1>6, <1>7, <1>8, <1>9 DEF LinkNext

(* The connection's invariant holds throughout. *)
THEOREM LinkInvariance == LinkSpec => []LinkInv
<1>1. LinkInit => LinkInv
  BY LinkStart
<1>2. LinkInv /\ [LinkNext]_linkVars => LinkInv'
  BY LinkStep
<1> QED
  BY <1>1, <1>2, PTL DEF LinkSpec

(* Exactly one of a timer, an attempt and a socket. *)
LEMMA OneWayFollows == LinkInv => OneWay
<1> SUFFICES ASSUME LinkInv PROVE OneWay
  OBVIOUS
<1>1. \A s \in Sockets : state[s] # "free" => s = ws
  BY DEF LinkInv, NoOther
<1>2. ASSUME mode = "running"
      PROVE  Cardinality({w \in {"timer", "attempt", "socket"} :
                              \/ w = "timer" /\ timer
                              \/ w = "attempt" /\ attempt
                              \/ w = "socket" /\ ws # NoSocket}) = 1
  <2> DEFINE Ways == {w \in {"timer", "attempt", "socket"} :
                              \/ w = "timer" /\ timer
                              \/ w = "attempt" /\ attempt
                              \/ w = "socket" /\ ws # NoSocket}
  <2>1. Ways = {"timer"} \/ Ways = {"attempt"} \/ Ways = {"socket"}
    BY <1>2 DEF LinkInv, NeverTwo, Stays
  <2>2. \E x : Ways = {x}
    BY <2>1
  <2> QED
    BY <2>2, FS_Singleton
<1> QED
  BY <1>1, <1>2 DEF OneWay

(* However timers, the await inside connectRemote, the deaths of sockets and
   the end of the process interleave, a running Agent has one way to the
   Core: never none, never two. *)
THEOREM OneWayHolds == LinkSpec => []OneWay
BY LinkInvariance, OneWayFollows, PTL

(* One heartbeat runs, that of the authenticated socket in use, over any
   number of connections. *)
THEOREM BeatsWithSocketHolds == LinkSpec => []BeatsWithSocket
<1>1. LinkInv => BeatsWithSocket
  BY DEF LinkInv
<1> QED
  BY <1>1, LinkInvariance, PTL

-----------------------------------------------------------------------------
(* The helper's pipe.                                                      *)

(* Before the first call there is no helper. *)
LEMMA PipeStart == PipeInit => PipeInv
<1> SUFFICES ASSUME PipeInit PROVE PipeInv
  OBVIOUS
<1>1. PipeTypeOK
  <2>1. <<>> \in Seq(Calls)
    OBVIOUS
  <2>2. queue \in [Helpers -> Seq(Calls)] /\ answers \in [Helpers -> Seq(Calls)]
    BY <2>1 DEF PipeInit
  <2> QED
    BY <2>1, <2>2 DEF PipeInit, PipeTypeOK
<1>2. InUse /\ OneHelper
  BY DEF PipeInit, InUse, OneHelper
<1> QED
  BY <1>1, <1>2 DEF PipeInv

(* A call that is pending no longer, for whatever reason. *)
LEMMA CallSettles ==
    ASSUME PipeInv, NEW S \in SUBSET pending, NEW p \in {"answered", "failed", "timeout"},
           Turn(S, p), pending' = pending \ S, UNCHANGED via
    PROVE  /\ phase' \in [Calls -> {"new", "waiting", "pending", "answered", "failed", "timeout"}]
           /\ pending' \in SUBSET Calls
           /\ \A c \in Calls : phase'[c] = "pending" => phase[c] = "pending"
           /\ pending' = {c \in Calls : phase'[c] = "pending"}
BY DEF PipeInv, PipeTypeOK, OneHelper, Turn

(* Calls that are written after the helper's start, or fail as there is
   none. *)
LEMMA CallsWritten ==
    ASSUME PipeInv, NEW q \in Seq(Calls), WriteCalls(q), UNCHANGED proc
    PROVE  /\ queue' \in [Helpers -> Seq(Calls)]
           /\ phase' \in [Calls -> {"new", "waiting", "pending", "answered", "failed", "timeout"}]
           /\ pending' \in SUBSET Calls /\ via' \in [Calls -> Helpers \cup {NoHelper}]
           /\ \A c \in Calls : phase'[c] = "pending" => via'[c] = proc' /\ proc' # NoHelper
           /\ pending' = {c \in Calls : phase'[c] = "pending"}
<1> USE HelpersType DEF PipeInv, PipeTypeOK
<1>1. Range(q) \subseteq Calls
  BY DEF Range
<1>2. CASE proc = NoHelper
  <2>1. Turn(Range(q), "failed") /\ UNCHANGED <<queue, pending, via, proc>>
    BY <1>2 DEF WriteCalls
  <2>2. pending = {}
    BY <1>2 DEF OneHelper
  <2>3. \A c \in Calls : phase'[c] # "pending"
    BY <1>2, <2>1 DEF Turn, OneHelper
  <2> QED
    BY <2>1, <2>2, <2>3 DEF Turn
<1>3. CASE proc # NoHelper
  <2>1. /\ Turn(Range(q), "pending") /\ pending' = pending \cup Range(q)
        /\ queue' = [queue EXCEPT ![proc] = @ \o q]
        /\ via' = [c \in Calls |-> IF c \in Range(q) THEN proc ELSE via[c]]
    BY <1>3 DEF WriteCalls
  <2>2. queue' \in [Helpers -> Seq(Calls)]
    BY <1>3, <2>1
  <2>3. phase' \in [Calls -> {"new", "waiting", "pending", "answered", "failed", "timeout"}]
    BY <2>1 DEF Turn
  <2>4. via' \in [Calls -> Helpers \cup {NoHelper}]
    BY <2>1
  <2>5. pending' = {c \in Calls : phase'[c] = "pending"}
    BY <1>1, <2>1 DEF Turn, OneHelper
  <2>6. \A c \in Calls : phase'[c] = "pending" => via'[c] = proc' /\ proc' # NoHelper
    BY <1>3, <2>1 DEF Turn, OneHelper
  <2> QED
    BY <1>1, <2>1, <2>2, <2>3, <2>4, <2>5, <2>6
<1> QED
  BY <1>2, <1>3

(* Every step of the Agent's event loop and of the helper keeps it. *)
LEMMA PipeStep == PipeInv /\ [PipeNext]_pipeVars => PipeInv'
<1> SUFFICES ASSUME PipeInv, [PipeNext]_pipeVars PROVE PipeInv'
  OBVIOUS
<1>0. PipeTypeOK /\ InUse /\ OneHelper
  BY DEF PipeInv
<1>1. CASE InitDone
  <2>1. waiting \in Seq(Calls) /\ WriteCalls(waiting) /\ waiting' = <<>> /\ init' = FALSE
        /\ UNCHANGED <<proc, life, answers>>
    BY <1>0, <1>1 DEF InitDone, PipeTypeOK
  <2>2. PipeTypeOK'
    <3>1. <<>> \in Seq(Calls)
      OBVIOUS
    <3> QED
      BY <1>0, <2>1, <3>1, CallsWritten DEF PipeTypeOK
  <2>3. InUse' /\ OneHelper'
    BY <1>0, <2>1, CallsWritten DEF InUse, OneHelper
  <2> QED
    BY <2>2, <2>3 DEF PipeInv
<1>2. ASSUME NEW c \in Calls, Call(c) PROVE PipeInv'
  (* written at once *)
  <2>1. CASE Usable /\ WriteCalls(<<c>>) /\ UNCHANGED <<proc, init, life, waiting, answers>>
    <3>1. <<c>> \in Seq(Calls)
      OBVIOUS
    <3>2. PipeTypeOK'
      BY <1>0, <2>1, <3>1, CallsWritten DEF PipeTypeOK
    <3>3. InUse' /\ OneHelper'
      BY <1>0, <2>1, <3>1, CallsWritten DEF InUse, OneHelper
    <3> QED
      BY <3>2, <3>3 DEF PipeInv
  (* it waits for the helper's start, its own or another call's *)
  <2>2. CASE /\ ~Usable /\ waiting' = Append(waiting, c) /\ Turn({c}, "waiting")
             /\ UNCHANGED <<queue, pending, via, answers>>
             /\ \/ UNCHANGED <<proc, init, life>>
                \/ \E h \in Helpers, l \in {"alive", "dead"} :
                     /\ life[h] = "new" /\ life' = [life EXCEPT ![h] = l]
                     /\ proc' = h /\ init' = TRUE
    <3>1. /\ proc = NoHelper /\ pending = {} /\ \A d \in Calls : phase[d] # "pending"
          /\ \A h \in Helpers : life[h] \notin {"alive", "dead"}
      BY <1>0, <2>2, HelpersType DEF Usable, OneHelper, InUse, PipeTypeOK
    <3>2. /\ phase' \in [Calls -> {"new", "waiting", "pending", "answered", "failed", "timeout"}]
          /\ \A d \in Calls : phase'[d] # "pending"
      BY <1>0, <2>2, <3>1 DEF Turn, PipeTypeOK
    <3>3. /\ proc' \in Helpers \cup {NoHelper} /\ init' \in BOOLEAN
          /\ life' \in [Helpers -> {"new", "alive", "dead", "gone"}]
          /\ \A h \in Helpers : life'[h] \in {"alive", "dead"} => h = proc'
      BY <1>0, <2>2, <3>1 DEF PipeTypeOK
    <3>4. PipeTypeOK'
      BY <1>0, <2>2, <3>2, <3>3 DEF PipeTypeOK
    <3>5. InUse' /\ OneHelper'
      BY <2>2, <3>1, <3>2, <3>3 DEF InUse, OneHelper
    <3> QED
      BY <3>4, <3>5 DEF PipeInv
  (* there is no helper's program *)
  <2>3. CASE ~Usable /\ Turn({c}, "failed")
             /\ UNCHANGED <<proc, init, life, waiting, queue, pending, via, answers>>
    <3>1. proc = NoHelper /\ pending = {} /\ \A d \in Calls : phase[d] # "pending"
      BY <1>0, <2>3 DEF Usable, OneHelper
    <3>2. PipeTypeOK'
      BY <1>0, <2>3 DEF Turn, PipeTypeOK
    <3>3. InUse' /\ OneHelper'
      BY <1>0, <2>3, <3>1 DEF Turn, InUse, OneHelper
    <3> QED
      BY <3>2, <3>3 DEF PipeInv
  <2> QED
    BY <1>2, <2>1, <2>2, <2>3 DEF Call
(* a call is settled by a line, its timer or its write *)
<1>3. ASSUME NEW S \in SUBSET pending, NEW p \in {"answered", "failed", "timeout"},
             Turn(S, p), pending' = pending \ S,
             UNCHANGED <<proc, init, life, queue, waiting, via>>,
             answers' \in [Helpers -> Seq(Calls)]
      PROVE  PipeInv'
  <2>1. PipeTypeOK'
    BY <1>0, <1>3, CallSettles DEF PipeTypeOK
  <2>2. InUse' /\ OneHelper'
    BY <1>0, <1>3, CallSettles DEF InUse, OneHelper
  <2> QED
    BY <2>1, <2>2 DEF PipeInv
<1>4. ASSUME NEW c \in Calls, Timeout(c) \/ WriteFails(c) PROVE PipeInv'
  <2>1. c \in pending /\ {c} \in SUBSET pending
    BY <1>0, <1>4 DEF Timeout, WriteFails, OneHelper
  <2>2. PICK p \in {"failed", "timeout"} : Turn({c}, p) /\ pending' = pending \ {c}
    BY <1>4 DEF Timeout, WriteFails
  <2>3. UNCHANGED <<proc, init, life, queue, waiting, via, answers>>
    BY <1>4 DEF Timeout, WriteFails
  <2> QED
    BY <1>0, <1>3, <2>1, <2>2, <2>3 DEF PipeTypeOK
<1>5. ASSUME NEW h \in Helpers, ReadLine(h) PROVE PipeInv'
  <2>1. answers' \in [Helpers -> Seq(Calls)] /\ UNCHANGED <<proc, init, life, queue, waiting, via>>
    BY <1>0, <1>5 DEF ReadLine, PipeTypeOK
  <2>2. CASE Head(answers[h]) \in pending
    BY <1>3, <1>5, <2>1, <2>2 DEF ReadLine
  <2>3. CASE Head(answers[h]) \notin pending
    <3>1. UNCHANGED <<phase, pending>>
      BY <1>5, <2>3 DEF ReadLine
    <3> QED
      BY <1>0, <2>1, <3>1 DEF PipeInv, PipeTypeOK, InUse, OneHelper
  <2> QED
    BY <2>2, <2>3
(* the helper is given up: nobody is left waiting on it *)
<1>6. ASSUME NEW h \in Helpers, HelperExit(h) PROVE PipeInv'
  <2>1. /\ h = proc /\ proc' = NoHelper /\ life' = [life EXCEPT ![h] = "gone"]
        /\ Turn(pending, "failed") /\ pending' = {}
        /\ UNCHANGED <<init, queue, answers, waiting, via>>
    BY <1>0, <1>6 DEF HelperExit, RejectPending, InUse
  <2>2. PipeTypeOK'
    BY <1>0, <2>1 DEF Turn, PipeTypeOK
  <2>3. InUse'
    BY <1>0, <2>1 DEF InUse, PipeTypeOK
  <2>4. \A c \in Calls : phase'[c] # "pending"
    BY <1>0, <2>1 DEF Turn, OneHelper
  <2>5. OneHelper'
    BY <2>1, <2>3, <2>4 DEF OneHelper, InUse
  <2> QED
    BY <2>2, <2>3, <2>5 DEF PipeInv
<1>7. ASSUME NEW h \in Helpers, Work(h) \/ Die(h) PROVE PipeInv'
  <2>1. CASE Work(h)
    <3>1. queue[h] \in Seq(Calls) /\ queue[h] # <<>> /\ answers[h] \in Seq(Calls)
      BY <1>0, <2>1 DEF Work, PipeTypeOK
    <3>2. Tail(queue[h]) \in Seq(Calls) /\ Append(answers[h], Head(queue[h])) \in Seq(Calls)
      BY <3>1
    <3>3. queue' \in [Helpers -> Seq(Calls)] /\ answers' \in [Helpers -> Seq(Calls)]
      BY <1>0, <2>1, <3>2 DEF Work, PipeTypeOK
    <3> QED
      BY <1>0, <2>1, <3>3 DEF Work, PipeInv, PipeTypeOK, InUse, OneHelper
  <2>2. CASE Die(h)
    BY <1>0, <2>2 DEF Die, PipeInv, PipeTypeOK, InUse, OneHelper
  <2> QED
    BY <1>7, <2>1, <2>2
<1>8. CASE UNCHANGED pipeVars
  BY <1>0, <1>8 DEF pipeVars, PipeInv, PipeTypeOK, InUse, OneHelper
<1> QED
  BY <1>1, <1>2, <1>4, <1>5, <1>6, <1>7, <1>8 DEF PipeNext

(* The pipe's invariant holds throughout. *)
THEOREM PipeInvariance == PipeSpec => []PipeInv
BY PipeStart, PipeStep, PTL DEF PipeSpec

(* However calls, starts, deaths and late events interleave, one helper at a
   time lives and every pending call was written to it. *)
THEOREM OneHelperHolds == PipeSpec => []OneHelper
<1>1. PipeInv => OneHelper
  BY DEF PipeInv
<1> QED
  BY <1>1, PipeInvariance, PTL

-----------------------------------------------------------------------------
(* A browser tab.                                                          *)

(* A browser with its tab, and nobody at it. *)
LEMMA TabStart == TabInit => TabInv
<1> SUFFICES ASSUME TabInit PROVE TabInv
  OBVIOUS
<1>1. TabTypeOK
  BY DEF TabInit, TabTypeOK, NoPage
<1>2. AtAgent /\ OneLease
  BY DEF TabInit, AtAgent, OneLease
<1> QED
  BY <1>1, <1>2 DEF TabInv

(* A request that makes sure of the browser ends no browser. *)
LEMMA Ensured ==
    ASSUME running \in BOOLEAN, EnsureBrowser
    PROVE  running' \in BOOLEAN /\ (running => running')
<1>1. CASE running' = running
  BY <1>1
<1>2. CASE running' = TRUE
  BY <1>2
<1> QED
  BY <1>1, <1>2 DEF EnsureBrowser

(* Every step of the page, the browser, an observation and an action keeps
   it. *)
LEMMA TabStep == TabInv /\ [TabNext]_tabVars => TabInv'
<1> SUFFICES ASSUME TabInv, [TabNext]_tabVars PROVE TabInv'
  OBVIOUS
<1>0. TabTypeOK /\ AtAgent /\ OneLease
  BY DEF TabInv
(* steps that leave the actions alone *)
<1>1. ASSUME UNCHANGED actVars, TabTypeOK' PROVE TabInv'
  BY <1>0, <1>1 DEF actVars, AtAgent, OneLease, TabInv
<1>3. CASE BrowserExits
  <2>1. TabTypeOK'
    BY <1>0, <1>3 DEF BrowserExits, TabTypeOK, actVars, lookVars
  <2> QED
    BY <1>1, <1>3, <2>1 DEF BrowserExits
<1>4. CASE StartBrowser \/ CloseTab \/ \E p \in Pages : Navigate(p)
  <2>1. TabTypeOK'
    BY <1>0, <1>4 DEF StartBrowser, CloseTab, Navigate, TabTypeOK, actVars, lookVars
  <2> QED
    BY <1>1, <1>4, <2>1 DEF StartBrowser, CloseTab, Navigate
<1>5. ASSUME NEW o \in Looks, Observe(o) \/ AskStatus(o) \/ Expire(o) PROVE TabInv'
  <2>1. TabTypeOK'
    BY <1>0, <1>5 DEF Observe, AskStatus, Expire, TabTypeOK, actVars
  <2> QED
    BY <1>1, <1>5, <2>1 DEF Observe, AskStatus, Expire
<1>6. ASSUME NEW o \in Looks, AskTabs(o) \/ AskElement(o) PROVE TabInv'
  <2>0. /\ look[o] \in {"tabs", "eval"} /\ Reach(o) /\ UNCHANGED <<tab, page>>
        /\ UNCHANGED actVars /\ \E x \in {"eval", "kept", "over"} : look' = [look EXCEPT ![o] = x]
    BY <1>6 DEF AskTabs, AskElement
  <2>1. frame' \in [Looks -> [url : Urls \cup {Unknown}, state : States \cup {Unknown}]]
    <3>1. page.url \in Urls /\ page.state \in States
      BY <1>0 DEF TabTypeOK, Pages
    <3> QED
      BY <1>0, <1>6, <3>1 DEF AskTabs, AskElement, TabTypeOK
  <2>2. running' \in BOOLEAN /\ (running => running') /\ started' \in SUBSET Looks
    BY <1>0, <2>0, Ensured DEF Reach, TabTypeOK
  <2>3. TabTypeOK'
    BY <1>0, <2>0, <2>1, <2>2 DEF TabTypeOK, actVars
  <2> QED
    BY <1>1, <2>0, <2>3
<1>7. ASSUME NEW a \in Acts, NEW o \in Looks, Act(a, o) PROVE TabInv'
  <2>1. TabTypeOK'
    BY <1>0, <1>7 DEF Act, TabTypeOK
  <2>2. AtAgent' /\ OneLease'
    BY <1>0, <1>7 DEF Act, TabFree, AtAgent, OneLease, TabTypeOK
  <2> QED
    BY <2>1, <2>2 DEF TabInv
<1>8. ASSUME NEW a \in Acts, CheckTab(a) PROVE TabInv'
  <2>0. running' \in BOOLEAN /\ (running => running')
    BY <1>0, <1>8, Ensured DEF CheckTab, TabTypeOK
  <2>1. TabTypeOK'
    BY <1>0, <1>8, <2>0 DEF CheckTab, Over, TabTypeOK, lookVars
  <2>2. AtAgent'
    BY <1>0, <1>8 DEF CheckTab, Over, AtAgent, TabTypeOK
  <2>3. OneLease'
    BY <1>0, <1>8 DEF CheckTab, Over, OneLease, TabTypeOK
  <2> QED
    BY <2>1, <2>2, <2>3 DEF TabInv
<1>9. ASSUME NEW a \in Acts, Evaluate(a) PROVE TabInv'
  <2>0. running' \in BOOLEAN /\ (running => running')
    BY <1>0, <1>9, Ensured DEF Evaluate, TabTypeOK
  <2>1. TabTypeOK'
    BY <1>0, <1>9, <2>0 DEF Evaluate, Over, TabTypeOK, lookVars
  <2>2. AtAgent'
    BY <1>0, <1>9 DEF Evaluate, Over, AtAgent, TabTypeOK
  <2>3. OneLease'
    BY <1>0, <1>9 DEF Evaluate, Over, OneLease, TabTypeOK
  <2> QED
    BY <2>1, <2>2, <2>3 DEF TabInv
<1>10. ASSUME NEW a \in Acts, GiveUp(a) \/ Probe(a) PROVE TabInv'
  <2>0. running' \in BOOLEAN /\ (running => running')
    BY <1>0, <1>10, Ensured DEF GiveUp, Probe, TabTypeOK
  <2>1. TabTypeOK'
    BY <1>0, <1>10, <2>0 DEF GiveUp, Probe, Over, TabTypeOK, lookVars
  <2>2. AtAgent' /\ OneLease'
    BY <1>0, <1>10 DEF GiveUp, Probe, Over, AtAgent, OneLease, TabTypeOK
  <2> QED
    BY <2>1, <2>2 DEF TabInv
<1>11. CASE UNCHANGED tabVars
  BY <1>0, <1>11 DEF tabVars, TabInv, TabTypeOK, AtAgent, OneLease
<1> QED
  BY <1>3, <1>4, <1>5, <1>6, <1>7, <1>8, <1>9, <1>10, <1>11 DEF TabNext

(* The tab's invariant holds throughout. *)
THEOREM TabInvariance == TabSpec => []TabInv
BY TabStart, TabStep, PTL DEF TabSpec

(* Two actions are at work in a tab only where one is uncertain. *)
THEOREM OneInTabHolds == TabSpec => []OneInTab
<1>1. TabInv => OneInTab
  BY DEF TabInv, TabTypeOK, AtAgent, OneLease, OneInTab
<1> QED
  BY <1>1, TabInvariance, PTL

-----------------------------------------------------------------------------
(* The output of processes.                                                *)

(* The numbers after a, up to b. *)
LEMMA NumbersAre ==
    ASSUME NEW a \in Nat, NEW b \in Nat, a <= b
    PROVE  /\ Numbers(a, b) \in Seq(Nat) /\ Len(Numbers(a, b)) = b - a
           /\ \A i \in 1..(b - a) : Numbers(a, b)[i] = a + i
<1>1. b - a \in Nat /\ \A i \in 1..(b - a) : a + i \in Nat
  OBVIOUS
<1>2. Numbers(a, b) \in [1..(b - a) -> Nat]
  BY <1>1 DEF Numbers
<1> QED
  BY <1>1, <1>2 DEF Numbers

(* What is kept, and what comes. *)
LEMMA NumbersJoin ==
    ASSUME NEW a \in Nat, NEW b \in Nat, NEW c \in Nat, a <= b, b <= c
    PROVE  Numbers(a, b) \o Numbers(b, c) = Numbers(a, c)
<1> DEFINE p == Numbers(a, b)
           q == Numbers(b, c)
           r == Numbers(a, c)
<1>0. a <= c
  OBVIOUS
<1>1. p \in Seq(Nat) /\ Len(p) = b - a /\ \A i \in 1..(b - a) : p[i] = a + i
  BY <1>0, NumbersAre
<1>2. q \in Seq(Nat) /\ Len(q) = c - b /\ \A i \in 1..(c - b) : q[i] = b + i
  BY NumbersAre
<1>3. r \in Seq(Nat) /\ Len(r) = c - a /\ \A i \in 1..(c - a) : r[i] = a + i
  BY <1>0, NumbersAre
<1> HIDE DEF p, q, r
<1>4. /\ p \o q \in Seq(Nat) /\ Len(p \o q) = Len(p) + Len(q)
      /\ \A i \in 1..(Len(p) + Len(q)) :
             (p \o q)[i] = IF i <= Len(p) THEN p[i] ELSE q[i - Len(p)]
  BY <1>1, <1>2, ConcatProperties
<1>5. Len(p) + Len(q) = c - a
  BY <1>1, <1>2
<1>6. \A i \in 1..(c - a) : (p \o q)[i] = r[i]
  <2> SUFFICES ASSUME NEW i \in 1..(c - a) PROVE (p \o q)[i] = r[i]
    OBVIOUS
  <2>1. CASE i <= b - a
    <3>1. i \in 1..(b - a)
      BY <2>1
    <3> QED
      BY <1>1, <1>3, <1>4, <1>5, <2>1, <3>1
  <2>2. CASE ~(i <= b - a)
    <3>1. i - (b - a) \in 1..(c - b) /\ b + (i - (b - a)) = a + i
      BY <2>2
    <3>2. (p \o q)[i] = q[i - (b - a)]
      BY <1>1, <1>4, <1>5, <2>2
    <3> QED
      BY <1>2, <1>3, <3>1, <3>2
  <2> QED
    BY <2>1, <2>2
<1>7. p \o q = r
  BY <1>3, <1>4, <1>5, <1>6, SeqEqual
<1> QED
  BY <1>7 DEF p, q, r

(* The head, of k numbers, dropped. *)
LEMMA NumbersCut ==
    ASSUME NEW a \in Nat, NEW b \in Nat, NEW k \in Nat, a + k <= b
    PROVE  SubSeq(Numbers(a, b), k + 1, b - a) = Numbers(a + k, b)
<1> DEFINE p == Numbers(a, b)
           r == Numbers(a + k, b)
           t == SubSeq(p, k + 1, b - a)
<1>0. a <= b /\ a + k \in Nat
  OBVIOUS
<1>1. p \in Seq(Nat) /\ Len(p) = b - a /\ \A i \in 1..(b - a) : p[i] = a + i
  BY <1>0, NumbersAre
<1>2. r \in Seq(Nat) /\ Len(r) = b - (a + k) /\ \A i \in 1..(b - (a + k)) : r[i] = (a + k) + i
  BY <1>0, NumbersAre
<1> HIDE DEF p, r
<1>3. \A i \in (k + 1)..(b - a) : p[i] \in Nat
  BY <1>1, ElementOfSeq
<1>4. k + 1 \in Int /\ b - a \in Int
  OBVIOUS
<1>5. /\ t \in Seq(Nat)
      /\ Len(t) = IF k + 1 <= b - a THEN (b - a) - (k + 1) + 1 ELSE 0
      /\ \A i \in 1..((b - a) - (k + 1) + 1) : t[i] = p[(k + 1) + i - 1]
  BY <1>3, <1>4, SubSeqProperties
<1> HIDE DEF t
<1>6. Len(t) = b - (a + k) /\ (b - a) - (k + 1) + 1 = b - (a + k)
  BY <1>5
<1>7. \A i \in 1..(b - (a + k)) : t[i] = r[i]
  <2> SUFFICES ASSUME NEW i \in 1..(b - (a + k)) PROVE t[i] = r[i]
    OBVIOUS
  <2>1. t[i] = p[(k + 1) + i - 1]
    BY <1>5, <1>6
  <2>2. (k + 1) + i - 1 \in 1..(b - a) /\ a + ((k + 1) + i - 1) = (a + k) + i
    OBVIOUS
  <2>3. t[i] = a + ((k + 1) + i - 1)
    BY <1>1, <2>1, <2>2
  <2> QED
    BY <1>2, <2>2, <2>3
<1>8. t = r
  BY <1>2, <1>5, <1>6, <1>7, SeqEqual
<1> QED
  BY <1>8 DEF p, r, t

(* Nothing comes between a place and itself. *)
LEMMA NumbersNone ==
    ASSUME NEW a \in Nat
    PROVE  Numbers(a, a) = <<>>
<1> DEFINE p == Numbers(a, a)
<1>1. p \in Seq(Nat) /\ Len(p) = 0
  BY NumbersAre
<1> HIDE DEF p
<1>2. p = <<>>
  BY <1>1, EmptySeq
<1> QED
  BY <1>2 DEF p

(* A buffer that holds the places after its base still does when the next
   ones have come and its head was dropped; and it keeps to its capacity. *)
LEMMA AppendKeeps ==
    ASSUME NEW s \in [base : Nat, buffer : Seq(Nat)],
           NEW a \in Nat, NEW b \in Nat, a <= b,
           s.base <= a, s.buffer = Numbers(s.base, a)
    PROVE  LET t == ProcAppend(s, Numbers(a, b)) IN
           /\ t \in [base : Nat, buffer : Seq(Nat)]
           /\ Len(t.buffer) <= Capacity
           /\ t.base <= b /\ t.buffer = Numbers(t.base, b)
<1> DEFINE base == s.base
           all == Numbers(base, b)
           cut == (b - base) - Capacity
           t == ProcAppend(s, Numbers(a, b))
<1>1. base \in Nat /\ base <= a /\ base <= b
  OBVIOUS
<1>2. s.buffer \o Numbers(a, b) = all
  <2>1. Numbers(base, a) \o Numbers(a, b) = Numbers(base, b)
    BY <1>1, NumbersJoin
  <2> QED
    BY <2>1
<1>3. [s EXCEPT !.buffer = @ \o Numbers(a, b)] = [base |-> base, buffer |-> all]
  BY <1>2
<1>4. t = IF Len(all) > Capacity
          THEN [base |-> base + (Len(all) - Capacity),
                buffer |-> SubSeq(all, (Len(all) - Capacity) + 1, Len(all))]
          ELSE [base |-> base, buffer |-> all]
  BY <1>3 DEF ProcAppend, DropHead
<1>5. all \in Seq(Nat) /\ Len(all) = b - base
  BY <1>1, NumbersAre
<1>6. CASE ~(b - base > Capacity)
  <2>1. t = [base |-> base, buffer |-> all]
    BY <1>4, <1>5, <1>6
  <2>2. b - base <= Capacity /\ base <= b
    BY <1>1, <1>6, BoundsType
  <2> QED
    BY <1>1, <1>5, <2>1, <2>2
<1>7. CASE b - base > Capacity
  <2>1. cut \in Nat /\ base + cut \in Nat /\ base + cut <= b /\ b - (base + cut) = Capacity
        /\ base + cut \in Nat
    BY <1>1, <1>7, BoundsType
  <2>2. SubSeq(all, cut + 1, b - base) = Numbers(base + cut, b)
    BY <1>1, <2>1, NumbersCut
  <2>3. t = [base |-> base + cut, buffer |-> Numbers(base + cut, b)]
    BY <1>4, <1>5, <1>7, <2>2
  <2>4. Numbers(base + cut, b) \in Seq(Nat) /\ Len(Numbers(base + cut, b)) = Capacity
    BY <2>1, NumbersAre
  <2> QED
    BY <2>1, <2>3, <2>4, BoundsType
<1> QED
  BY <1>6, <1>7

(* There are finitely many units. *)
LEMMA UnitsFinite == IsFiniteSet(Units)
<1> DEFINE code == [u \in Units |-> 10 * u.at + 2 * u.size + (IF u.whole THEN 1 ELSE 0)]
           bound == 10 * MaxOutput + 9
<1>1. MaxOutput \in Nat /\ bound \in Int
  BY BoundsType
<1>2. \A u \in Units : u.at \in 1..MaxOutput /\ u.size \in 0..4 /\ u.whole \in BOOLEAN
  BY DEF Units, Bytes
<1>3. code \in [Units -> 0..bound]
  <2>1. ASSUME NEW u \in Units PROVE 10 * u.at + 2 * u.size + (IF u.whole THEN 1 ELSE 0) \in 0..bound
    BY <1>1, <1>2
  <2> QED
    BY <2>1
<1>4. ASSUME NEW u \in Units, NEW v \in Units, code[u] = code[v] PROVE u = v
  <2>1. u.at = v.at /\ u.size = v.size /\ u.whole = v.whole
    <3>1. 10 * u.at + 2 * u.size + (IF u.whole THEN 1 ELSE 0)
              = 10 * v.at + 2 * v.size + (IF v.whole THEN 1 ELSE 0)
      BY <1>4
    <3> QED
      BY <1>1, <1>2, <3>1
  <2> QED
    BY <2>1 DEF Units
<1>5. code \in Injection(Units, 0..bound)
  BY <1>3, <1>4 DEF Injection, IsInjective
<1>6. IsFiniteSet(0..bound)
  BY <1>1, FS_Interval
<1> QED
  BY <1>5, <1>6, FS_Injection

(* The length of an encoding is a number. *)
LEMMA ByteLengthIs ==
    ASSUME NEW t \in Seq(Units)
    PROVE  ByteLength(t) \in Nat
<1> DEFINE S == {x \in (DOMAIN t) \X (1..4) : x[2] <= t[x[1]].size}
           code == [x \in S |-> 4 * x[1] + x[2]]
           bound == 4 * Len(t) + 4
<1>1. Len(t) \in Nat /\ DOMAIN t = 1..Len(t) /\ bound \in Int
  BY LenProperties
<1>2. \A x \in S : x[1] \in 1..Len(t) /\ x[2] \in 1..4 /\ x = <<x[1], x[2]>>
  BY <1>1
<1> HIDE DEF S
<1>3. code \in [S -> 0..bound]
  <2>1. ASSUME NEW x \in S PROVE 4 * x[1] + x[2] \in 0..bound
    BY <1>1, <1>2
  <2> QED
    BY <2>1
<1>4. ASSUME NEW x \in S, NEW y \in S, code[x] = code[y] PROVE x = y
  <2>1. 4 * x[1] + x[2] = 4 * y[1] + y[2]
    BY <1>4
  <2>2. x[1] = y[1] /\ x[2] = y[2]
    BY <1>1, <1>2, <2>1
  <2> QED
    BY <1>2, <2>2
<1>5. code \in Injection(S, 0..bound)
  BY <1>3, <1>4 DEF Injection, IsInjective
<1>6. IsFiniteSet(0..bound)
  BY <1>1, FS_Interval
<1>7. IsFiniteSet(S)
  BY <1>5, <1>6, FS_Injection
<1>8. Cardinality(S) \in Nat
  BY <1>7, FS_CardinalityType
<1> QED
  BY <1>8 DEF ByteLength, S

(* A character has one byte to four. *)
Shaped == \A c \in chars : c.first <= c.last /\ c.last <= c.first + 3

(* A unit of a decoded event is of a whole character, or U+FFFD for a character
   that goes on after it, or U+FFFD for a byte of one that began before it. *)
LEMMA DecodedCases ==
    ASSUME NEW lo, NEW hi, NEW u \in Decoded(lo, hi)
    PROVE  \/ \E c \in chars : lo < c.first /\ c.last <= hi /\ u \in UnitsOf(c)
           \/ \E c \in chars : lo < c.first /\ c.first <= hi /\ hi < c.last /\ u = Damaged(hi)
           \/ \E b \in (lo + 1)..hi : u = Damaged(b) /\ \E c \in chars : c.first <= lo /\ b <= c.last
<1> DEFINE Cut == {c \in chars : lo < c.first /\ c.first <= hi /\ hi < c.last}
           Rest == {b \in (lo + 1)..hi : \E c \in chars : c.first <= lo /\ b <= c.last}
           Inside == {d \in chars : lo < d.first /\ d.last <= hi}
           A == UNION {UnitsOf(c) : c \in Inside}
           B == {Damaged(hi) : c \in Cut}
           C == {Damaged(b) : b \in Rest}
<1>1. u \in A \/ u \in B \/ u \in C
  <2>1. Decoded(lo, hi) = A \cup B \cup C
    BY DEF Decoded
  <2> HIDE DEF A, B, C
  <2> QED
    BY <2>1
<1>2. CASE u \in A
  <2>1. PICK c \in Inside : u \in UnitsOf(c)
    BY <1>2
  <2> QED
    BY <2>1
<1>3. CASE u \in B
  <2>1. PICK c \in Cut : u = Damaged(hi)
    BY <1>3
  <2> QED
    BY <2>1
<1>4. CASE u \in C
  <2>1. PICK b \in Rest : u = Damaged(b)
    BY <1>4
  <2> QED
    BY <2>1
<1> QED
  BY <1>1, <1>2, <1>3, <1>4

(* What a data event is decoded to stands in that event. *)
LEMMA DecodedIs ==
    ASSUME chars \in SUBSET Characters, Shaped, NEW lo \in Nat, NEW hi \in 0..MaxOutput
    PROVE  /\ Decoded(lo, hi) \subseteq Units
           /\ \A u \in Decoded(lo, hi) : lo < u.at /\ u.at <= hi
<1> SUFFICES ASSUME NEW u \in Decoded(lo, hi) PROVE u \in Units /\ lo < u.at /\ u.at <= hi
  OBVIOUS
<1>0. MaxOutput \in Nat /\ \A c \in chars : c.first \in 1..MaxOutput /\ c.last \in 1..MaxOutput
  BY BoundsType DEF Characters, Bytes
<1>1. \/ \E c \in chars : lo < c.first /\ c.last <= hi /\ u \in UnitsOf(c)
      \/ \E c \in chars : lo < c.first /\ c.first <= hi /\ hi < c.last /\ u = Damaged(hi)
      \/ \E b \in (lo + 1)..hi : u = Damaged(b)
  BY DecodedCases
<1>2. ASSUME NEW b \in (lo + 1)..hi, u = Damaged(b) PROVE u \in Units /\ lo < u.at /\ u.at <= hi
  <2>1. b \in Bytes /\ u.at = b /\ 3 \in 0..4
    BY <1>0, <1>2 DEF Bytes, Damaged
  <2> QED
    BY <1>2, <2>1 DEF Units, Damaged
<1>3. ASSUME NEW c \in chars, lo < c.first, c.first <= hi, u = Damaged(hi)
      PROVE  u \in Units /\ lo < u.at /\ u.at <= hi
  BY <1>0, <1>2, <1>3
<1>4. ASSUME NEW c \in chars, lo < c.first, c.last <= hi, u \in UnitsOf(c)
      PROVE  u \in Units /\ lo < u.at /\ u.at <= hi
  <2>0. c.first <= c.last /\ c.last <= c.first + 3
    BY DEF Shaped
  <2>1. CASE c.last = c.first + 3
    <3>1. u = Whole(c.last - 1, 4) \/ u = Whole(c.last, 0)
      BY <1>4, <2>1 DEF UnitsOf
    <3>2. c.last - 1 \in Bytes /\ c.last \in Bytes /\ lo < c.last - 1 /\ c.last - 1 <= hi
      BY <1>0, <1>4, <2>1 DEF Bytes
    <3>3. c.last - 1 \in Int /\ c.last \in Int /\ lo < c.last
      BY <1>0, <1>4, <2>1
    <3>4. u.at \in Bytes /\ u.size \in 0..4 /\ u \in Units /\ lo < u.at /\ u.at <= hi
      <4>1. CASE u = Whole(c.last - 1, 4)
        BY <3>2, <4>1 DEF Units, Whole
      <4>2. CASE u = Whole(c.last, 0)
        BY <1>4, <3>2, <3>3, <4>2 DEF Units, Whole
      <4> QED
        BY <3>1, <4>1, <4>2
    <3> QED
      BY <3>4
  <2>2. CASE c.last # c.first + 3
    <3>1. u = Whole(c.last, c.last - c.first + 1)
      BY <1>4, <2>2 DEF UnitsOf
    <3>2. c.last \in Bytes /\ c.last - c.first + 1 \in 0..4 /\ lo < c.last
      BY <1>0, <1>4, <2>0, <2>2 DEF Bytes
    <3> QED
      BY <1>4, <3>1, <3>2 DEF Units, Whole
  <2> QED
    BY <2>1, <2>2
<1> QED
  BY <1>1, <1>2, <1>3, <1>4

(* ... and is all of it, in order. *)
LEMMA ToStringIs ==
    ASSUME chars \in SUBSET Characters, Shaped, NEW lo \in Nat, NEW hi \in 0..MaxOutput,
           NEW t \in ToString(lo, hi)
    PROVE  /\ t \in Seq(Units) /\ Range(t) = Decoded(lo, hi)
           /\ \A i, j \in 1..Len(t) : i < j => t[i].at < t[j].at
<1> DEFINE D == Decoded(lo, hi)
           n == Cardinality(D)
<1>1. D \subseteq Units
  BY DecodedIs
<1>2. n \in Nat
  <2>1. IsFiniteSet(D)
    BY <1>1, UnitsFinite, FS_Subset
  <2> QED
    BY <2>1, FS_CardinalityType
<1>3. t \in Bijection(1..n, D) /\ \A i, j \in DOMAIN t : i < j => t[i].at < t[j].at
  BY DEF ToString
<1> HIDE DEF D, n
<1>4. t \in [1..n -> D] /\ \A u \in D : \E i \in 1..n : t[i] = u
  BY <1>3 DEF Bijection, Injection, Surjection
<1>5. DOMAIN t = 1..n /\ Range(t) = D
  BY <1>4 DEF Range
<1>6. t \in Seq(D) /\ Len(t) = n
  BY <1>2, <1>4
<1>7. t \in Seq(Units)
  BY <1>1, <1>6
<1> QED
  BY <1>3, <1>5, <1>6, <1>7 DEF D

(* Every place up to x is in got, in order, or else in gaps. *)
ExactUpTo(got, gaps, x) ==
    /\ \A i \in 1..(Len(got) - 1) : got[i] < got[i + 1]
    /\ Range(got) \cup gaps = 1..x /\ Range(got) \cap gaps = {}

(* A client that has everything up to its place, or was told of it, and is
   given what comes after a place not before it, and told of what is between. *)
LEMMA ReadsOn ==
    ASSUME NEW got \in Seq(Nat), NEW gaps \in SUBSET Nat,
           NEW x \in Nat, NEW y \in Nat, NEW z \in Nat, x <= y, y <= z,
           ExactUpTo(got, gaps, x)
    PROVE  /\ got \o Numbers(y, z) \in Seq(Nat)
           /\ gaps \cup ((x + 1)..y) \in SUBSET Nat
           /\ ExactUpTo(got \o Numbers(y, z), gaps \cup ((x + 1)..y), z)
<1> DEFINE all == got \o Numbers(y, z)
           told == gaps \cup ((x + 1)..y)
           rest == Numbers(y, z)
           n == Len(got)
           old == Range(got)
<1>1. rest \in Seq(Nat) /\ Len(rest) = z - y /\ \A i \in 1..(z - y) : rest[i] = y + i
  BY NumbersAre
<1>2. n \in Nat /\ DOMAIN got = 1..n
  BY LenProperties
<1>3. /\ all \in Seq(Nat) /\ Len(all) = n + (z - y)
      /\ \A i \in 1..(n + (z - y)) : all[i] = IF i <= n THEN got[i] ELSE rest[i - n]
  <2>1. all = got \o rest
    OBVIOUS
  <2> HIDE DEF rest
  <2>2. /\ got \o rest \in Seq(Nat) /\ Len(got \o rest) = Len(got) + Len(rest)
        /\ \A i \in 1..(Len(got) + Len(rest)) :
               (got \o rest)[i] = IF i <= Len(got) THEN got[i] ELSE rest[i - Len(got)]
    BY <1>1, ConcatProperties
  <2> QED
    BY <1>1, <2>1, <2>2
<1>30. DOMAIN all = 1..(n + (z - y))
  BY <1>3, LenProperties
<1>31. old = {got[i] : i \in 1..n} /\ Range(all) = {all[i] : i \in 1..(n + (z - y))}
  BY <1>2, <1>30 DEF Range
<1> HIDE DEF rest, n, old, all
<1>4. \A i \in 1..n : i \in 1..(n + (z - y)) /\ all[i] = got[i]
  BY <1>2, <1>3
<1>5. \A i \in 1..(z - y) : n + i \in 1..(n + (z - y)) /\ all[n + i] = y + i
  <2> SUFFICES ASSUME NEW i \in 1..(z - y)
               PROVE  n + i \in 1..(n + (z - y)) /\ all[n + i] = y + i
    OBVIOUS
  <2>1. n + i \in 1..(n + (z - y)) /\ ~(n + i <= n) /\ (n + i) - n = i
    BY <1>2
  <2>2. all[n + i] = rest[i]
    BY <1>3, <2>1
  <2> QED
    BY <1>1, <2>1, <2>2
<1>6. \A j \in 1..(n + (z - y)) : j \in 1..n \/ \E i \in 1..(z - y) : j = n + i
  <2> SUFFICES ASSUME NEW j \in 1..(n + (z - y)), j \notin 1..n
               PROVE  \E i \in 1..(z - y) : j = n + i
    OBVIOUS
  <2>1. j - n \in 1..(z - y) /\ j = n + (j - n)
    BY <1>2
  <2> QED
    BY <2>1
<1>7. Range(all) = old \cup ((y + 1)..z)
  <2>1. ASSUME NEW j \in 1..(n + (z - y)) PROVE all[j] \in old \cup ((y + 1)..z)
    <3>1. CASE j \in 1..n
      BY <1>4, <1>31, <3>1
    <3>2. CASE \E i \in 1..(z - y) : j = n + i
      <4>1. PICK i \in 1..(z - y) : j = n + i
        BY <3>2
      <4>2. all[j] = y + i
        BY <1>5, <4>1
      <4>3. y + i \in (y + 1)..z
        BY <4>1
      <4> QED
        BY <4>2, <4>3
    <3> QED
      BY <1>6, <2>1, <3>1, <3>2
  <2>2. ASSUME NEW e \in old PROVE \E j \in 1..(n + (z - y)) : e = all[j]
    <3>1. PICK i \in 1..n : e = got[i]
      BY <1>31, <2>2
    <3> QED
      BY <1>4, <3>1
  <2>3. ASSUME NEW e \in (y + 1)..z PROVE \E j \in 1..(n + (z - y)) : e = all[j]
    <3>1. e - y \in 1..(z - y) /\ e = y + (e - y)
      OBVIOUS
    <3>2. n + (e - y) \in 1..(n + (z - y)) /\ all[n + (e - y)] = e
      BY <1>5, <3>1
    <3> QED
      BY <3>2
  <2>4. Range(all) \subseteq old \cup ((y + 1)..z)
    BY <1>31, <2>1
  <2>5. old \cup ((y + 1)..z) \subseteq Range(all)
    BY <1>31, <2>2, <2>3
  <2> QED
    BY <2>4, <2>5
<1>8. \A i \in 1..(n - 1) : got[i] < got[i + 1]
  BY DEF n, ExactUpTo
<1>9. old \cup gaps = 1..x /\ old \cap gaps = {}
  BY DEF old, ExactUpTo
<1>10. ASSUME NEW j \in 1..(Len(all) - 1) PROVE all[j] < all[j + 1]
  <2>1. CASE j < n
    <3>1. j \in 1..(n - 1) /\ j \in 1..n /\ j + 1 \in 1..n
      BY <1>2, <1>3, <2>1
    <3> QED
      BY <1>4, <1>8, <3>1
  <2>2. CASE j = n
    <3>1. n \in 1..n /\ 1 \in 1..(z - y)
      BY <1>2, <1>3, <2>2
    <3>2. all[j] \in 1..x
      BY <1>4, <1>9, <1>31, <2>2, <3>1
    <3>3. all[j + 1] = y + 1
      BY <1>5, <2>2, <3>1
    <3> QED
      BY <3>2, <3>3
  <2>3. CASE j > n
    <3>1. /\ j - n \in 1..(z - y) /\ (j - n) + 1 \in 1..(z - y)
          /\ j = n + (j - n) /\ j + 1 = n + ((j - n) + 1)
      BY <1>2, <1>3, <2>3
    <3>2. all[j] = y + (j - n) /\ all[j + 1] = y + ((j - n) + 1)
      BY <1>5, <3>1
    <3> QED
      BY <1>2, <3>1, <3>2
  <2> QED
    BY <1>2, <1>3, <2>1, <2>2, <2>3
<1>11. told \in SUBSET Nat
  OBVIOUS
<1>12. old \cup ((y + 1)..z) \cup told = 1..z
  <2>1. (1..x) \cup ((x + 1)..y) \cup ((y + 1)..z) = 1..z
    OBVIOUS
  <2> QED
    BY <1>9, <2>1
<1>13. (old \cup ((y + 1)..z)) \cap told = {}
  <2>1. /\ (1..x) \cap ((x + 1)..y) = {} /\ (1..x) \cap ((y + 1)..z) = {}
        /\ ((x + 1)..y) \cap ((y + 1)..z) = {}
    OBVIOUS
  <2>2. old \subseteq 1..x /\ gaps \subseteq 1..x
    BY <1>9
  <2> QED
    BY <1>9, <2>1, <2>2
<1>14. ExactUpTo(all, told, z)
  BY <1>7, <1>10, <1>12, <1>13 DEF ExactUpTo
<1> QED
  BY <1>3, <1>11, <1>14 DEF all

(* A client reads. *)
LEMMA ReadExact ==
    ASSUME ChildInv, Read
    PROVE  /\ reader' \in [next : Nat, got : Seq(Nat), gaps : SUBSET Nat]
           /\ Follows' /\ ReaderExact'
<1> DEFINE base == session.base
           next == reader.next
           last == Len(text)
           start == IF next > base THEN next ELSE base
<1>0. ChildTypeOK /\ Idle /\ Stream /\ Follows /\ ReaderExact
  BY DEF ChildInv
<1>1. /\ base \in Nat /\ next \in Nat /\ last \in Nat
      /\ reader.got \in Seq(Nat) /\ reader.gaps \in SUBSET Nat
  BY <1>0 DEF ChildTypeOK
<1>2. Buffered = last
  BY <1>0 DEF Read, Idle, Buffered
<1>3. base <= last /\ session.buffer = Numbers(base, last) /\ next <= last
  BY <1>0, <1>2 DEF Stream, Follows
<1>4. base \in Nat /\ next \in Nat /\ last \in Nat
  BY <1>1, BoundsType
<1>5. start \in Nat /\ start - base \in Nat /\ base + (start - base) = start
      /\ start <= last /\ next <= start
  BY <1>3, <1>4
<1>6. Len(session.buffer) = last - base
  BY <1>3, <1>4, NumbersAre
<1>7. SubSeq(session.buffer, start - base + 1, Len(session.buffer)) = Numbers(start, last)
  <2>1. SubSeq(Numbers(base, last), (start - base) + 1, last - base)
            = Numbers(base + (start - base), last)
    BY <1>3, <1>4, <1>5, NumbersCut
  <2> QED
    BY <1>3, <1>5, <1>6, <2>1
<1>8. reader' = [next |-> base + Len(session.buffer),
                 got  |-> reader.got \o SubSeq(session.buffer, start - base + 1, Len(session.buffer)),
                 gaps |-> IF next < base THEN reader.gaps \cup ((next + 1)..start) ELSE reader.gaps]
  BY DEF Read
<1>9. base + Len(session.buffer) = last
  BY <1>4, <1>6
<1>10. reader'.next = last /\ reader'.got = reader.got \o Numbers(start, last)
  BY <1>7, <1>8, <1>9
<1>11. reader'.gaps = reader.gaps \cup ((next + 1)..start)
  <2>1. CASE next < base
    BY <1>8, <2>1
  <2>2. CASE ~(next < base)
    <3>1. start = next
      BY <1>4, <2>2
    <3>2. (next + 1)..start = {}
      BY <1>4, <3>1
    <3> QED
      BY <1>8, <2>2, <3>2
  <2> QED
    BY <2>1, <2>2
<1> HIDE DEF start, next, last
<1>12. ExactUpTo(reader.got, reader.gaps, next)
  BY <1>0 DEF ReaderExact, ExactUpTo, next
<1>13. PICK all, told : all = reader'.got /\ told = reader'.gaps
  OBVIOUS
<1>14. all = reader.got \o Numbers(start, last) /\ told = reader.gaps \cup ((next + 1)..start)
  BY <1>10, <1>11, <1>13
<1>15. /\ all \in Seq(Nat) /\ told \in SUBSET Nat
       /\ ExactUpTo(all, told, last)
  <2>1. PICK got, gaps : got = reader.got /\ gaps = reader.gaps
    OBVIOUS
  <2>2. /\ got \in Seq(Nat) /\ gaps \in SUBSET Nat
        /\ ExactUpTo(got, gaps, next)
        /\ all = got \o Numbers(start, last) /\ told = gaps \cup ((next + 1)..start)
    BY <1>1, <1>12, <1>14, <2>1
  <2>3. /\ next \in Nat /\ start \in Nat /\ last \in Nat
        /\ next <= start /\ start <= last
    BY <1>4, <1>5
  <2> QED
    BY <2>2, <2>3, ReadsOn
<1>16. reader' = [next |-> last, got |-> all, gaps |-> told]
  BY <1>8, <1>9, <1>13
<1>17. reader' \in [next : Nat, got : Seq(Nat), gaps : SUBSET Nat]
  BY <1>4, <1>15, <1>16, BoundsType
<1>18. Follows'
  <2>1. Buffered' = Buffered
    BY DEF Read, Buffered, outVars
  <2> QED
    BY <1>2, <1>4, <1>10, <2>1 DEF Follows
<1>19. ReaderExact'
  BY <1>10, <1>13, <1>15 DEF ReaderExact, ExactUpTo
<1> QED
  BY <1>17, <1>18, <1>19

(* Before a process is started nothing has come. *)
LEMMA ChildStart == ChildInit => ChildInv
<1> SUFFICES ASSUME ChildInit PROVE ChildInv
  OBVIOUS
<1>1. ChildTypeOK
  <2>1. <<>> \in Seq(Nat) /\ Len(<<>>) = 0 /\ <<>> \in Seq(Units)
    OBVIOUS
  <2>2. /\ session \in [base : Nat, buffer : Seq(Nat)]
        /\ reader \in [next : Nat, got : Seq(Nat), gaps : SUBSET Nat]
    BY <2>1 DEF ChildInit
  <2>3. command \in [kept : Nat, bytes : 0..Limit, torn : BOOLEAN, timedOut : BOOLEAN,
                     answer : {"none", "whole", "truncated", "error"}]
    BY BoundsType DEF ChildInit
  <2>4. Len(session.buffer) <= Capacity
    BY <2>1, BoundsType DEF ChildInit
  <2>5. /\ use \in {"none", "session", "command", "unstartable"}
        /\ holders \in SUBSET {"process", "descendant"}
        /\ exited \in BOOLEAN /\ listed \in BOOLEAN /\ killed \in BOOLEAN
    BY DEF ChildInit
  <2>6. /\ written \in 0..MaxOutput /\ arrived \in 0..written
        /\ chars \in SUBSET Characters /\ split \in SUBSET chars /\ text \in Seq(Units)
    BY <2>1, BoundsType DEF ChildInit
  <2> QED
    BY <2>2, <2>3, <2>4, <2>5, <2>6 DEF ChildTypeOK
<1>2. Idle /\ Follows /\ KeepsAll /\ WholeIsWhole
  BY DEF ChildInit, Idle, Follows, KeepsAll, WholeIsWhole, Buffered
<1>3. ReaderExact
  <2>1. reader.next = 0 /\ reader.gaps = {} /\ reader.got = <<>>
    BY DEF ChildInit
  <2>2. Len(reader.got) = 0 /\ Range(reader.got) = {}
    BY <2>1 DEF Range
  <2> QED
    BY <2>1, <2>2 DEF ReaderExact
<1>4. Stream
  <2>1. Buffered = 0 /\ session.base = 0 /\ session.buffer = <<>>
    BY DEF ChildInit, Buffered
  <2>2. Numbers(0, 0) = <<>>
    BY NumbersNone
  <2> QED
    BY <2>1, <2>2 DEF Stream
<1>5. Written /\ TextExact
  <2>1. DOMAIN text = {} /\ Range(text) = {} /\ chars = {}
    BY DEF ChildInit, Range
  <2> QED
    BY <2>1 DEF Written, TextExact
<1> QED
  BY <1>1, <1>2, <1>3, <1>4, <1>5 DEF ChildInv

(* The process writes a character. *)
LEMMA WriteExact ==
    ASSUME ChildInv, NEW n \in 1..4, WriteOutput(n)
    PROVE  /\ written' \in 0..MaxOutput /\ arrived \in 0..written'
           /\ chars' \in SUBSET Characters /\ split \in SUBSET chars'
           /\ Written' /\ TextExact'
<1> DEFINE new == [first |-> written + 1, last |-> written + n]
<1>0. ChildTypeOK /\ Written /\ TextExact
  BY DEF ChildInv
<1>1. /\ written + n <= MaxOutput /\ written' = written + n /\ chars' = chars \cup {new}
      /\ UNCHANGED <<arrived, text, split>>
  BY DEF WriteOutput
<1>2. written \in Nat /\ MaxOutput \in Nat /\ arrived \in 0..written /\ split \in SUBSET chars
      /\ chars \in SUBSET Characters
  BY <1>0, BoundsType DEF ChildTypeOK
<1>3. new \in Characters /\ new.first = written + 1 /\ new.last = written + n
  BY <1>1, <1>2 DEF Characters, Bytes
<1> HIDE DEF new
<1>4. \A c \in chars : c.first \in Nat /\ c.last \in Nat
  BY <1>2, BoundsType DEF Characters, Bytes
<1>5. Written'
  <2>1. \A c \in chars' : c.first <= c.last /\ c.last <= c.first + 3 /\ c.last <= written'
    BY <1>0, <1>1, <1>2, <1>3, <1>4 DEF Written
  <2>2. \A c \in chars' : c.first <= arrived' /\ arrived' < c.last => c \in split'
    BY <1>0, <1>1, <1>2, <1>3, <1>4 DEF Written
  <2> QED
    BY <1>0, <1>1, <2>1, <2>2 DEF Written
<1>6. TextExact'
  <2>1. \A c \in chars' \ split' : c.last <= arrived' => UnitsOf(c) \subseteq Range(text')
    BY <1>0, <1>1, <1>2, <1>3 DEF TextExact
  <2> QED
    BY <1>0, <1>1, <2>1 DEF TextExact
<1> QED
  BY <1>1, <1>2, <1>3, <1>5, <1>6

(* What a data event adds to the text. *)
LEMMA DecodedExact ==
    ASSUME ChildInv, NEW n \in 1..MaxOutput, Data(n), NEW t \in ToString(arrived, arrived'),
           text' = text \o t
    PROVE  /\ arrived' \in 0..written /\ split' \in SUBSET chars
           /\ t \in Seq(Units) /\ text' \in Seq(Units) /\ Len(text') = Len(text) + Len(t)
           /\ Written' /\ TextExact'
<1> DEFINE lo == arrived
           hi == arrived + n
           more == Decoded(lo, hi)
           m == Len(text)
           k == Len(t)
<1>0. ChildTypeOK /\ Written /\ TextExact
  BY DEF ChildInv
<1>1. /\ hi <= written /\ arrived' = hi /\ UNCHANGED <<written, chars>>
      /\ split' = split \cup {c \in chars : c.first <= hi /\ hi < c.last}
  BY DEF Data
<1>2. /\ written \in Nat /\ written <= MaxOutput /\ MaxOutput \in Nat /\ lo \in Nat /\ hi \in Nat
      /\ split \in SUBSET chars /\ chars \in SUBSET Characters /\ text \in Seq(Units) /\ lo < hi
  BY <1>0, BoundsType DEF ChildTypeOK
<1>3. Shaped
  BY <1>0 DEF Written, Shaped
<1>4. /\ t \in Seq(Units) /\ Range(t) = more
      /\ \A i, j \in 1..k : i < j => t[i].at < t[j].at
  <2>1. t \in ToString(lo, hi) /\ hi \in 0..MaxOutput
    BY <1>1, <1>2
  <2> QED
    BY <1>2, <1>3, <2>1, ToStringIs
<1>5. more \subseteq Units /\ \A u \in more : lo < u.at /\ u.at <= hi
  <2>1. hi \in 0..MaxOutput
    BY <1>1, <1>2
  <2> QED
    BY <1>2, <1>3, <2>1, DecodedIs
<1>6. /\ m \in Nat /\ DOMAIN text = 1..m /\ k \in Nat /\ DOMAIN t = 1..k
      /\ \A i \in 1..m : text[i] \in Units /\ text[i].at <= lo
      /\ \A i \in 1..k : t[i] \in more
  BY <1>0, <1>2, <1>4, LenProperties, ElementOfSeq DEF Written, Range
<1>7. /\ text' \in Seq(Units) /\ Len(text') = m + k
      /\ \A i \in 1..(m + k) : text'[i] = IF i <= m THEN text[i] ELSE t[i - m]
  BY <1>2, <1>4, ConcatProperties
<1>8. DOMAIN text' = 1..(m + k)
  BY <1>7, LenProperties
<1> HIDE DEF lo, hi, more, m, k
<1>9. Range(text') = Range(text) \cup more
  <2>1. ASSUME NEW i \in 1..(m + k) PROVE text'[i] \in Range(text) \cup more
    <3>1. CASE i <= m
      <4>1. i \in 1..m /\ text'[i] = text[i]
        BY <1>6, <1>7, <3>1
      <4> QED
        BY <1>6, <4>1 DEF Range
    <3>2. CASE ~(i <= m)
      <4>1. i - m \in 1..k
        BY <1>6, <3>2
      <4> QED
        BY <1>6, <1>7, <3>2, <4>1
    <3> QED
      BY <3>1, <3>2
  <2>2. ASSUME NEW u \in Range(text) PROVE u \in Range(text')
    <3>1. PICK i \in 1..m : u = text[i]
      BY <1>6, <2>2 DEF Range
    <3>2. i \in 1..(m + k) /\ text'[i] = u
      BY <1>6, <1>7, <3>1
    <3> QED
      BY <1>8, <3>2 DEF Range
  <2>3. ASSUME NEW u \in more PROVE u \in Range(text')
    <3>1. PICK i \in 1..k : u = t[i]
      BY <1>4, <1>6, <2>3 DEF Range
    <3>2. m + i \in 1..(m + k) /\ ~(m + i <= m) /\ (m + i) - m = i
      BY <1>6, <3>1
    <3>3. text'[m + i] = u
      BY <1>7, <3>1, <3>2
    <3> QED
      BY <1>8, <3>2, <3>3 DEF Range
  <2> QED
    BY <1>8, <2>1, <2>2, <2>3 DEF Range
<1>10. ASSUME NEW i \in 1..(m + k), NEW j \in 1..(m + k), i < j PROVE text'[i].at < text'[j].at
  <2>1. CASE j <= m
    <3>1. i \in 1..m /\ j \in 1..m /\ text'[i] = text[i] /\ text'[j] = text[j]
      BY <1>6, <1>7, <1>10, <2>1
    <3> QED
      BY <1>0, <1>6, <1>10, <3>1 DEF TextExact
  <2>2. CASE i <= m /\ ~(j <= m)
    <3>1. i \in 1..m /\ j - m \in 1..k /\ text'[i] = text[i] /\ text'[j] = t[j - m]
      BY <1>6, <1>7, <2>2
    <3>2. text[i].at <= lo /\ lo < t[j - m].at /\ text[i].at \in Nat /\ t[j - m].at \in Nat
      BY <1>5, <1>6, <3>1, BoundsType DEF Units, Bytes
    <3> QED
      BY <1>2, <3>1, <3>2
  <2>3. CASE ~(i <= m)
    <3>1. /\ i - m \in 1..k /\ j - m \in 1..k /\ i - m < j - m
          /\ text'[i] = t[i - m] /\ text'[j] = t[j - m]
      BY <1>6, <1>7, <1>10, <2>3
    <3> QED
      BY <1>4, <3>1
  <2> QED
    BY <1>6, <1>10, <2>1, <2>2, <2>3
<1>11. Written'
  <2>1. \A c \in chars' : c.first <= c.last /\ c.last <= c.first + 3 /\ c.last <= written'
    BY <1>0, <1>1 DEF Written
  <2>2. \A c \in chars' : c.first <= arrived' /\ arrived' < c.last => c \in split'
    BY <1>1
  <2>3. ASSUME NEW i \in DOMAIN text' PROVE text'[i].at <= arrived'
    <3>1. text'[i] \in Range(text) \cup more
      BY <1>9, <2>3 DEF Range
    <3>2. CASE text'[i] \in more
      BY <1>1, <1>5, <3>2
    <3>3. CASE text'[i] \in Range(text)
      <4>1. PICK j \in 1..m : text'[i] = text[j]
        BY <1>6, <3>3 DEF Range
      <4>2. text[j].at <= lo /\ text[j].at \in Nat
        BY <1>6, BoundsType DEF Units, Bytes
      <4> QED
        BY <1>1, <1>2, <4>1, <4>2
    <3> QED
      BY <3>1, <3>2, <3>3
  <2> QED
    BY <2>1, <2>2, <2>3 DEF Written
<1>12. ASSUME NEW c \in chars' \ split', c.last <= arrived' PROVE UnitsOf(c) \subseteq Range(text')
  <2>0. c \in chars /\ c \notin split /\ c.last <= hi /\ c.first \in Nat /\ c.last \in Nat
    BY <1>1, <1>2, <1>12, BoundsType DEF Characters, Bytes
  <2>1. CASE c.last <= lo
    <3>1. UnitsOf(c) \subseteq Range(text)
      BY <1>0, <2>0, <2>1 DEF TextExact, lo
    <3> QED
      BY <1>9, <3>1
  <2>2. CASE lo < c.first
    <3>1. UnitsOf(c) \subseteq more
      BY <2>0, <2>2 DEF more, Decoded
    <3> QED
      BY <1>9, <3>1
  <2>3. CASE c.first <= lo /\ lo < c.last
    BY <1>0, <2>0, <2>3 DEF Written, lo
  <2> QED
    BY <1>2, <2>0, <2>1, <2>2, <2>3
<1>13. ASSUME NEW u \in Range(text')
       PROVE  \/ \E c \in chars' : u \in UnitsOf(c)
              \/ ~u.whole /\ \E c \in split' : c.first <= u.at /\ u.at <= c.last
  <2>1. CASE u \in Range(text)
    BY <1>0, <1>1, <2>1 DEF TextExact
  <2>2. CASE u \in more
    <3>1. \/ \E c \in chars : u \in UnitsOf(c)
          \/ \E c \in chars : lo < c.first /\ c.first <= hi /\ hi < c.last /\ u = Damaged(hi)
          \/ \E b \in (lo + 1)..hi : u = Damaged(b) /\ \E c \in chars : c.first <= lo /\ b <= c.last
      BY <2>2, DecodedCases DEF more
    <3>2. CASE \E c \in chars : u \in UnitsOf(c)
      BY <1>1, <3>2
    <3>3. ASSUME NEW c \in chars, c.first <= hi, hi < c.last, u = Damaged(hi)
          PROVE  ~u.whole /\ \E d \in split' : d.first <= u.at /\ u.at <= d.last
      <4>1. c \in split' /\ ~u.whole /\ u.at = hi
        BY <1>1, <3>3 DEF Damaged
      <4>2. c.last \in Nat
        BY <1>2 DEF Characters, Bytes
      <4> QED
        BY <1>2, <3>3, <4>1, <4>2
    <3>4. ASSUME NEW b \in (lo + 1)..hi, u = Damaged(b), NEW c \in chars, c.first <= lo, b <= c.last
          PROVE  ~u.whole /\ \E d \in split' : d.first <= u.at /\ u.at <= d.last
      <4>1. c.first \in Nat /\ c.last \in Nat /\ ~u.whole /\ u.at = b
        BY <1>2, <3>4 DEF Characters, Bytes, Damaged
      <4>2. c \in split
        BY <1>0, <1>2, <3>4, <4>1 DEF Written, lo
      <4> QED
        BY <1>1, <1>2, <3>4, <4>1, <4>2
    <3> QED
      BY <3>1, <3>2, <3>3, <3>4
  <2> QED
    BY <1>9, <2>1, <2>2
<1>14. TextExact'
  BY <1>8, <1>10, <1>12, <1>13 DEF TextExact
<1>15. arrived' \in 0..written /\ split' \in SUBSET chars
  BY <1>1, <1>2
<1> QED
  BY <1>4, <1>7, <1>11, <1>14, <1>15 DEF m, k

(* Every step of the process, of its events and of the Agent keeps it. *)
LEMMA ChildStep == ChildInv /\ [ChildNext]_childVars => ChildInv'
<1> SUFFICES ASSUME ChildInv, [ChildNext]_childVars PROVE ChildInv'
  OBVIOUS
<1>0. /\ ChildTypeOK /\ Idle /\ Written /\ TextExact
      /\ Stream /\ Follows /\ ReaderExact /\ KeepsAll /\ WholeIsWhole
  BY DEF ChildInv
(* steps that touch neither the output nor the buffer nor the client *)
<1>1. ASSUME UNCHANGED <<session, reader, outVars>>, Buffered' = Buffered,
             ChildTypeOK', Idle', KeepsAll', WholeIsWhole'
      PROVE  ChildInv'
  <2>1. Stream' /\ Follows' /\ ReaderExact'
    BY <1>0, <1>1 DEF Stream, Follows, ReaderExact
  <2>2. Written' /\ TextExact'
    BY <1>0, <1>1 DEF Written, TextExact, outVars
  <2> QED
    BY <1>1, <2>1, <2>2 DEF ChildInv
<1>2. ASSUME NEW n \in 1..4, WriteOutput(n) PROVE ChildInv'
  <2>0. /\ holders # {}
        /\ UNCHANGED <<use, holders, arrived, text, split, exited, session, listed, reader, command, killed>>
    BY <1>2 DEF WriteOutput
  <2>1. /\ written' \in 0..MaxOutput /\ arrived \in 0..written'
        /\ chars' \in SUBSET Characters /\ split \in SUBSET chars'
        /\ Written' /\ TextExact'
    BY <1>2, WriteExact
  <2>2. ChildTypeOK'
    BY <1>0, <2>0, <2>1 DEF ChildTypeOK
  <2>3. Idle' /\ KeepsAll' /\ WholeIsWhole'
    BY <1>0, <2>0 DEF Idle, KeepsAll, WholeIsWhole
  <2>4. Stream' /\ Follows' /\ ReaderExact'
    BY <1>0, <2>0 DEF Stream, Follows, ReaderExact, Buffered
  <2> QED
    BY <2>1, <2>2, <2>3, <2>4 DEF ChildInv
<1>3. CASE Fork \/ (\E p \in holders : ProcessEnds(p)) \/ StartSession \/ Kill
           \/ (\E force \in BOOLEAN : Forget(force)) \/ ProcessExit
  <2>0. UNCHANGED <<session, reader, outVars, command>>
    BY <1>3 DEF Fork, ProcessEnds, StartSession, Kill, Forget, ProcessExit
  <2>1. ChildTypeOK'
    <3>1. /\ use' \in {"none", "session", "command", "unstartable"}
          /\ exited' \in BOOLEAN /\ listed' \in BOOLEAN /\ killed' \in BOOLEAN
      BY <1>0, <1>3 DEF Fork, ProcessEnds, StartSession, Kill, Forget, ProcessExit, ChildTypeOK
    <3>2. holders' \in SUBSET {"process", "descendant"}
      BY <1>0, <1>3 DEF Fork, ProcessEnds, StartSession, Kill, Forget, ProcessExit, ChildTypeOK
    <3> QED
      BY <1>0, <2>0, <3>1, <3>2 DEF ChildTypeOK, outVars
  <2>2. Idle' /\ KeepsAll' /\ WholeIsWhole'
    BY <1>0, <1>3, <2>0
    DEF Fork, ProcessEnds, StartSession, Kill, Forget, ProcessExit, Idle, KeepsAll, WholeIsWhole, outVars
  <2>3. Buffered' = Buffered
    BY <1>3, <2>0 DEF Fork, ProcessEnds, StartSession, Kill, Forget, ProcessExit, Buffered, outVars
  <2> QED
    BY <1>1, <2>0, <2>1, <2>2, <2>3
<1>4. CASE Run \/ RunFails \/ RunTimeout \/ Answer
  <2>0. UNCHANGED <<session, reader, outVars>>
    BY <1>4 DEF Run, RunFails, RunTimeout, Answer
  <2>1. ChildTypeOK'
    BY <1>0, <1>4, <2>0, BoundsType
    DEF Run, RunFails, RunTimeout, KillShell, Answer, ChildTypeOK, outVars
  <2>2. Idle'
    BY <1>0, <1>4, <2>0
    DEF Run, RunFails, RunTimeout, KillShell, Answer, Idle, ChildTypeOK, outVars
  <2>3. KeepsAll' /\ WholeIsWhole'
    <3>1. CASE Run
      <4>1. UNCHANGED <<command, text>> /\ command.kept = 0 /\ text = <<>> /\ Len(text) = 0
        BY <1>0, <2>0, <3>1 DEF Run, Idle, outVars
      <4>2. command.answer # "whole"
        BY <1>0, <3>1 DEF Run, KeepsAll
      <4>3. ~command.torn
        BY <1>0, <3>1 DEF Run, Idle
      <4> QED
        BY <4>1, <4>2, <4>3 DEF KeepsAll, WholeIsWhole
    <3>2. CASE RunFails
      <4>1. command'.answer = "error" /\ use' = "unstartable"
        BY <1>0, <3>2 DEF RunFails, ChildTypeOK
      <4> QED
        BY <4>1 DEF KeepsAll, WholeIsWhole
    <3>3. CASE RunTimeout
      <4>1. /\ command'.answer = command.answer /\ command'.kept = command.kept
            /\ command'.bytes = command.bytes /\ command'.torn = command.torn
            /\ UNCHANGED <<use, holders, arrived, written, text>>
        BY <1>0, <3>3 DEF RunTimeout, KillShell, ChildTypeOK, outVars
      <4> QED
        BY <1>0, <4>1 DEF KeepsAll, WholeIsWhole
    <3>4. CASE Answer
      <4>1. /\ command'.answer = IF command.bytes >= Limit THEN "truncated" ELSE "whole"
            /\ command'.kept = command.kept /\ command'.bytes = command.bytes
            /\ command'.torn = command.torn
            /\ use = "command" /\ holders = {} /\ arrived = written
            /\ UNCHANGED <<use, holders, arrived, written, text>>
        BY <1>0, <3>4 DEF Answer, OnClose, ChildTypeOK, outVars
      <4>2. command.bytes \in Nat /\ Limit \in Nat
        BY <1>0, BoundsType DEF ChildTypeOK
      <4>3. command'.answer = "whole" => command.bytes < Limit
        BY <4>1, <4>2
      <4> QED
        BY <1>0, <4>1, <4>3 DEF KeepsAll, WholeIsWhole
    <3> QED
      BY <1>4, <3>1, <3>2, <3>3, <3>4
  <2>4. Buffered' = Buffered
    <3>1. CASE Run
      <4>1. text = <<>> /\ Len(text) = 0 /\ use = "none" /\ use' = "command"
        BY <1>0, <3>1 DEF Run, Idle
      <4> QED
        BY <4>1 DEF Buffered
    <3>2. CASE RunFails \/ RunTimeout \/ Answer
      BY <2>0, <3>2 DEF RunFails, RunTimeout, Answer, Buffered, outVars
    <3> QED
      BY <1>4, <3>1, <3>2
  <2> QED
    BY <1>1, <2>0, <2>1, <2>2, <2>3, <2>4
<1>5. CASE Read
  <2>1. UNCHANGED <<use, holders, outVars, exited, session, listed, command, killed>>
    BY <1>5 DEF Read
  <2>2. ChildTypeOK' /\ Follows' /\ ReaderExact'
    BY <1>0, <1>5, <2>1, ReadExact DEF ChildTypeOK, outVars
  <2>3. Idle' /\ Stream' /\ KeepsAll' /\ WholeIsWhole'
    BY <1>0, <2>1 DEF Idle, Stream, Buffered, KeepsAll, WholeIsWhole, outVars
  <2>4. Written' /\ TextExact'
    BY <1>0, <2>1 DEF Written, TextExact, outVars
  <2> QED
    BY <2>2, <2>3, <2>4 DEF ChildInv
<1>6. CASE StartFails
  <2>0. /\ UNCHANGED <<holders, split, exited, reader, command, killed>> /\ use = "none"
        /\ use' = "unstartable" /\ listed' = TRUE /\ written' = 1 /\ arrived' = 1
        /\ chars' = {[first |-> 1, last |-> 1]} /\ text' = <<Whole(1, 1)>>
        /\ session' = ProcAppend(session, Numbers(0, 1))
    BY <1>6 DEF StartFails
  <2>1. session.base <= 0 /\ session.buffer = Numbers(session.base, 0)
    <3>1. Buffered = 0
      BY <1>0, <2>0 DEF Idle, Buffered
    <3> QED
      BY <1>0, <3>1 DEF Stream
  <2>2. /\ session' \in [base : Nat, buffer : Seq(Nat)]
        /\ Len(session'.buffer) <= Capacity
        /\ session'.base <= 1 /\ session'.buffer = Numbers(session'.base, 1)
    <3>1. session \in [base : Nat, buffer : Seq(Nat)]
      BY <1>0 DEF ChildTypeOK
    <3>2. 0 \in Nat /\ 1 \in Nat /\ 0 <= 1
      OBVIOUS
    <3> QED
      BY <2>0, <2>1, <3>1, <3>2, AppendKeeps
  <2>3. /\ Len(text') = 1 /\ DOMAIN text' = {1} /\ text'[1] = Whole(1, 1)
        /\ Range(text') = {Whole(1, 1)}
    BY <2>0 DEF Range
  <2>4. split = {} /\ 1 \in Bytes
    BY <1>0, <2>0, BoundsType DEF Idle, ChildTypeOK, Bytes
  <2>5. ChildTypeOK'
    <3>1. text' \in Seq(Units) /\ chars' \in SUBSET Characters
      BY <2>0, <2>4 DEF Units, Whole, Characters
    <3> QED
      BY <1>0, <2>0, <2>2, <2>4, <3>1, BoundsType DEF ChildTypeOK
  <2>6. Idle' /\ KeepsAll' /\ WholeIsWhole'
    BY <1>0, <2>0 DEF Idle, KeepsAll, WholeIsWhole
  <2>7. Written' /\ TextExact'
    <3>1. Written'
      BY <2>0, <2>3 DEF Written, Whole
    <3>2. \A c \in chars' : UnitsOf(c) = {Whole(1, 1)}
      BY <2>0 DEF UnitsOf
    <3>3. TextExact'
      BY <2>0, <2>3, <3>2 DEF TextExact
    <3> QED
      BY <3>1, <3>3
  <2>8. Stream' /\ Follows'
    <3>1. Buffered' = 1
      BY <2>0, <2>3 DEF Buffered
    <3>2. reader'.next <= 1
      <4>1. Buffered = 0 /\ reader.next \in Nat
        BY <1>0, <2>0 DEF Idle, Buffered, ChildTypeOK
      <4> QED
        BY <1>0, <2>0, <4>1 DEF Follows
    <3> QED
      BY <2>2, <3>1, <3>2 DEF Stream, Follows
  <2>9. ReaderExact'
    BY <1>0, <2>0 DEF ReaderExact
  <2> QED
    BY <2>5, <2>6, <2>7, <2>8, <2>9 DEF ChildInv
<1>7. ASSUME NEW n \in 1..MaxOutput, Data(n) PROVE ChildInv'
  <2>0. PICK t \in ToString(arrived, arrived') :
          /\ text' = text \o t
          /\ \/ /\ use = "session" /\ UNCHANGED command
                /\ session' = ProcAppend(session, Numbers(Len(text), Len(text')))
             \/ use = "command" /\ Add(t) /\ UNCHANGED session
    BY <1>7 DEF Data
  <2>1. /\ arrived + n <= written /\ arrived' = arrived + n
        /\ UNCHANGED <<use, holders, written, chars, exited, listed, reader, killed>>
        /\ use \in {"session", "command"} /\ arrived # written
    <3>1. arrived + n <= written /\ arrived' = arrived + n
          /\ UNCHANGED <<use, holders, written, chars, exited, listed, reader, killed>>
      BY <1>7 DEF Data
    <3>2. arrived # written
      BY <1>0, <3>1, BoundsType DEF ChildTypeOK
    <3> QED
      BY <2>0, <3>1, <3>2
  <2>2. /\ arrived' \in 0..written /\ split' \in SUBSET chars
        /\ t \in Seq(Units) /\ text' \in Seq(Units) /\ Len(text') = Len(text) + Len(t)
        /\ Written' /\ TextExact'
    BY <1>7, <2>0, DecodedExact
  <2>3. Len(text) \in Nat /\ Len(t) \in Nat /\ Len(text') \in Nat
    BY <1>0, <2>2, LenProperties DEF ChildTypeOK
  <2>4. Idle' /\ ReaderExact'
    <3>1. Idle'
      BY <1>0, <2>1 DEF Idle
    <3> QED
      BY <1>0, <2>1, <3>1 DEF ReaderExact
  <2>5. CASE use = "session"
    <3>1. session' = ProcAppend(session, Numbers(Len(text), Len(text'))) /\ UNCHANGED command
      BY <2>0, <2>5
    <3>2. session.base <= Len(text) /\ session.buffer = Numbers(session.base, Len(text))
      BY <1>0, <2>5 DEF Stream, Buffered
    <3>3. /\ session' \in [base : Nat, buffer : Seq(Nat)]
          /\ Len(session'.buffer) <= Capacity
          /\ session'.base <= Len(text') /\ session'.buffer = Numbers(session'.base, Len(text'))
      <4>1. session \in [base : Nat, buffer : Seq(Nat)]
        BY <1>0 DEF ChildTypeOK
      <4>2. PICK a \in Nat, b \in Nat : a = Len(text) /\ b = Len(text')
        BY <2>3
      <4>3. a <= b
        BY <2>2, <2>3, <4>2
      <4> QED
        BY <3>1, <3>2, <4>1, <4>2, <4>3, AppendKeeps
    <3>4. ChildTypeOK'
      BY <1>0, <2>1, <2>2, <3>1, <3>3 DEF ChildTypeOK
    <3>5. Stream' /\ Follows'
      <4>1. Buffered' = Len(text') /\ reader.next <= Len(text) /\ reader' = reader
        BY <1>0, <2>1, <2>5 DEF Follows, Buffered
      <4>2. reader.next \in Nat
        BY <1>0 DEF ChildTypeOK
      <4> QED
        BY <2>2, <2>3, <3>3, <4>1, <4>2 DEF Stream, Follows
    <3>6. KeepsAll' /\ WholeIsWhole'
      BY <1>0, <2>1, <2>5, <3>1 DEF KeepsAll, WholeIsWhole
    <3> QED
      BY <2>2, <2>4, <3>4, <3>5, <3>6 DEF ChildInv
  <2>6. CASE use = "command"
    <3>1. Add(t) /\ UNCHANGED session
      BY <2>0, <2>6
    <3>2. /\ command.kept \in Nat /\ command.bytes \in 0..Limit /\ Limit \in Nat
          /\ ByteLength(t) \in Nat
      BY <1>0, <2>2, ByteLengthIs, BoundsType DEF ChildTypeOK
    <3>3. /\ command' \in [kept : Nat, bytes : 0..Limit, torn : BOOLEAN, timedOut : BOOLEAN,
                           answer : {"none", "whole", "truncated", "error"}]
          /\ command'.answer = command.answer
          /\ command'.bytes < Limit => /\ command.bytes < Limit
                                       /\ command'.kept = command.kept + Len(t)
                                       /\ command'.torn = command.torn
      <4>0. command \in [kept : Nat, bytes : 0..Limit, torn : BOOLEAN, timedOut : BOOLEAN,
                         answer : {"none", "whole", "truncated", "error"}]
        BY <1>0 DEF ChildTypeOK
      <4>1. CASE Limit - command.bytes = 0 /\ UNCHANGED command
        BY <3>2, <4>0, <4>1
      <4>2. CASE /\ 0 < Limit - command.bytes /\ ByteLength(t) <= Limit - command.bytes
                 /\ command' = [command EXCEPT !.kept = @ + Len(t), !.bytes = @ + ByteLength(t)]
        <5>1. PICK k \in Nat, b \in 0..Limit :
                k = command.kept + Len(t) /\ b = command.bytes + ByteLength(t)
          BY <2>3, <3>2, <4>2
        <5>2. command' = [command EXCEPT !.kept = k, !.bytes = b]
          BY <4>2, <5>1
        <5>3. b < Limit => command.bytes < Limit
          BY <3>2, <5>1
        <5> QED
          BY <4>0, <5>1, <5>2, <5>3
      <4>3. ASSUME NEW i \in 0..(Len(t) - 1), NEW torn \in BOOLEAN,
                   command' = [command EXCEPT !.kept = @ + (IF torn THEN i + 1 ELSE i),
                                              !.bytes = Limit, !.torn = torn]
            PROVE  /\ command' \in [kept : Nat, bytes : 0..Limit, torn : BOOLEAN, timedOut : BOOLEAN,
                                    answer : {"none", "whole", "truncated", "error"}]
                   /\ command'.answer = command.answer /\ ~(command'.bytes < Limit)
        <5>1. PICK k \in Nat : k = command.kept + (IF torn THEN i + 1 ELSE i)
          BY <2>3, <3>2
        <5>2. command' = [command EXCEPT !.kept = k, !.bytes = Limit, !.torn = torn]
          BY <4>3, <5>1
        <5>3. command' = [kept |-> k, bytes |-> Limit, torn |-> torn,
                          timedOut |-> command.timedOut, answer |-> command.answer]
          BY <4>0, <5>2
        <5>4. Limit \in 0..Limit /\ ~(Limit < Limit)
          BY <3>2
        <5>5. command.timedOut \in BOOLEAN /\ command.answer \in {"none", "whole", "truncated", "error"}
          BY <4>0
        <5> QED
          BY <5>3, <5>4, <5>5
      <4>4. CASE \E i \in 0..(Len(t) - 1), torn \in BOOLEAN :
                   command' = [command EXCEPT !.kept = @ + (IF torn THEN i + 1 ELSE i),
                                              !.bytes = Limit, !.torn = torn]
        BY <4>3, <4>4
      <4>5. CASE \E i \in 0..(Len(t) - 1) :
                   /\ CutAfter(t, i, Limit - command.bytes)
                   /\ LET torn == ByteLength(SubSeq(t, 1, i)) < Limit - command.bytes IN
                      command' = [command EXCEPT !.kept = @ + (IF torn THEN i + 1 ELSE i),
                                                 !.bytes = Limit, !.torn = torn]
        <5>1. PICK i \in 0..(Len(t) - 1) :
                   LET torn == ByteLength(SubSeq(t, 1, i)) < Limit - command.bytes IN
                   command' = [command EXCEPT !.kept = @ + (IF torn THEN i + 1 ELSE i),
                                              !.bytes = Limit, !.torn = torn]
          BY <4>5
        <5>2. PICK torn \in BOOLEAN : torn = (ByteLength(SubSeq(t, 1, i)) < Limit - command.bytes)
          <6>1. SubSeq(t, 1, i) \in Seq(Units)
            <7>1. 1 \in Int /\ i \in Int /\ \A j \in 1..i : t[j] \in Units
              BY <2>2, <2>3, ElementOfSeq
            <7> QED
              BY <7>1, SubSeqProperties
          <6>2. ByteLength(SubSeq(t, 1, i)) \in Nat
            BY <6>1, ByteLengthIs
          <6>3. PICK x \in Nat, y \in Int :
                    x = ByteLength(SubSeq(t, 1, i)) /\ y = Limit - command.bytes
            BY <3>2, <6>2
          <6>4. (x < y) \in BOOLEAN
            OBVIOUS
          <6> QED
            BY <6>3, <6>4
        <5>3. command' = [command EXCEPT !.kept = @ + (IF torn THEN i + 1 ELSE i),
                                         !.bytes = Limit, !.torn = torn]
          BY <5>1, <5>2
        <5> QED
          BY <4>4, <5>3
      <4> QED
        BY <3>1, <4>1, <4>2, <4>5 DEF Add
    <3>4. ChildTypeOK'
      BY <1>0, <2>1, <2>2, <3>1, <3>3 DEF ChildTypeOK
    <3>5. command.answer # "whole"
      BY <1>0, <2>1 DEF KeepsAll
    <3>6. KeepsAll' /\ WholeIsWhole'
      BY <1>0, <2>1, <2>2, <2>6, <3>3, <3>5 DEF KeepsAll, WholeIsWhole
    <3>7. Stream' /\ Follows'
      BY <1>0, <2>1, <2>6, <3>1 DEF Stream, Follows, Buffered
    <3> QED
      BY <2>2, <2>4, <3>4, <3>6, <3>7 DEF ChildInv
  <2> QED
    BY <2>1, <2>5, <2>6
<1>8. CASE UNCHANGED childVars
  BY <1>0, <1>1, <1>8
  DEF childVars, outVars, ChildTypeOK, Idle, Buffered, KeepsAll, WholeIsWhole
<1> QED
  BY <1>2, <1>3, <1>4, <1>5, <1>6, <1>7, <1>8 DEF ChildNext

(* The invariant of a process's output holds throughout. *)
THEOREM ChildInvariance == ChildSpec => []ChildInv
BY ChildStart, ChildStep, PTL DEF ChildSpec

(* For any buffer, limit and length of output, and wherever data events end:
   the decoded text has every character no two events shared; a client gets
   every unit of it once and in order or is told that it is gone; what a
   command answers as whole is all of it. *)
THEOREM OutputExactHolds == ChildSpec => []OutputExact
<1>1. ChildInv => OutputExact
  BY DEF ChildInv, OutputExact
<1> QED
  BY <1>1, ChildInvariance, PTL

-----------------------------------------------------------------------------
(* All parts together.                                                     *)

(* The Agent begins with every part at its beginning, and a step of it is a
   step of one part that leaves the others. *)
LEMMA PartsInit == Init => LinkInit /\ PipeInit /\ ChildInit /\ TabInit
  BY DEF Init

LEMMA PartsStep ==
    [Next]_vars => /\ [LinkNext]_linkVars /\ [PipeNext]_pipeVars
                   /\ [ChildNext]_childVars /\ [TabNext]_tabVars
<1> SUFFICES ASSUME [Next]_vars
             PROVE  /\ [LinkNext]_linkVars /\ [PipeNext]_pipeVars
                    /\ [ChildNext]_childVars /\ [TabNext]_tabVars
  OBVIOUS
<1>1. CASE UNCHANGED vars
  BY <1>1 DEF vars
<1>2. CASE Next
  BY <1>2 DEF Next, InLink, InPipe, InChild, InTab
<1> QED
  BY <1>1, <1>2

(* The invariants of the parts are those of the Agent that has all of them. *)
THEOREM AgentInvariance == Spec => [](LinkInv /\ PipeInv /\ ChildInv /\ TabInv)
<1>1. Init => LinkInv /\ PipeInv /\ ChildInv /\ TabInv
  BY PartsInit, LinkStart, PipeStart, ChildStart, TabStart
<1>2. /\ LinkInv /\ PipeInv /\ ChildInv /\ TabInv
      /\ [Next]_vars
      => (LinkInv /\ PipeInv /\ ChildInv /\ TabInv)'
  BY PartsStep, LinkStep, PipeStep, ChildStep, TabStep
<1> QED
  BY <1>1, <1>2, PTL DEF Spec

(* The types of every part, in the Agent that has all of them. *)
THEOREM AgentTypes == Spec => []TypeOK
<1>1. LinkInv /\ PipeInv /\ ChildInv /\ TabInv => TypeOK
  BY DEF LinkInv, PipeInv, ChildInv, TabInv, TypeOK
<1> QED
  BY <1>1, AgentInvariance, PTL

(* The invariants of the run, each for every value of the constants. *)
THEOREM AgentCorrect ==
    Spec => [](/\ OneWay /\ BeatsWithSocket /\ OneHelper
               /\ OutputExact /\ OneInTab)
<1>1. PipeInv => OneHelper
  BY DEF PipeInv
<1>2. LinkInv => OneWay /\ BeatsWithSocket
  BY OneWayFollows DEF LinkInv
<1>3. ChildInv => OutputExact
  BY DEF ChildInv, OutputExact
<1>4. TabInv => OneInTab
  BY DEF TabInv, TabTypeOK, AtAgent, OneLease, OneInTab
<1> QED
  BY <1>1, <1>2, <1>3, <1>4, AgentInvariance, PTL
=============================================================================
