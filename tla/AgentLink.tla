------------------------------ MODULE AgentLink ------------------------------
(***************************************************************************)
(* How the Agent keeps its one connection to the Core (yourhand-agent.mjs: *)
(* scheduleReconnect, connectRemote with its handlers, shutdown).          *)
(*                                                                         *)
(* Two timers, an await in the middle of connecting, and sockets that end  *)
(* in their own time.  A socket's name is free again once its close event  *)
(* has been handled.                                                       *)
(***************************************************************************)
EXTENDS Naturals, FiniteSets

CONSTANTS Sockets

NoSocket == "none"
ASSUME SocketsType == NoSocket \notin Sockets

VARIABLES
    mode,       \* of the process: starting, running, closing (shuttingDown), gone
    ws,         \* the variable ws
    state,      \* readyState of each socket; "closed": its close event is due
    ready,      \* ready, in the closure of each socket
    deadline,   \* sockets whose connectionDeadline is set
    timer,      \* reconnectTimer is set
    attempt,    \* connectRemote awaits initNative
    heartbeat,  \* the socket the variable heartbeat was set for
    beating     \* sockets whose interval runs

linkVars == <<mode, ws, state, ready, deadline, timer, attempt, heartbeat, beating>>

LinkTypeOK ==
    /\ mode \in {"starting", "running", "closing", "gone"}
    /\ ws \in Sockets \cup {NoSocket} /\ heartbeat \in Sockets \cup {NoSocket}
    /\ state \in [Sockets -> {"free", "connecting", "open", "closing", "closed"}]
    /\ ready \in SUBSET Sockets /\ deadline \in SUBSET Sockets /\ beating \in SUBSET Sockets
    /\ timer \in BOOLEAN /\ attempt \in BOOLEAN

Blank(m) ==
    /\ mode' = m /\ ws' = NoSocket /\ state' = [s \in Sockets |-> "free"]
    /\ ready' = {} /\ deadline' = {} /\ timer' = FALSE /\ attempt' = (m = "starting")
    /\ heartbeat' = NoSocket /\ beating' = {}

LinkInit ==
    /\ mode = "starting" /\ ws = NoSocket /\ state = [s \in Sockets |-> "free"]
    /\ ready = {} /\ deadline = {} /\ timer = FALSE /\ attempt = TRUE
    /\ heartbeat = NoSocket /\ beating = {}

Set(s, x) == state' = [state EXCEPT ![s] = x]

-----------------------------------------------------------------------------

NoRetry == timer' = timer                         \* mutant: forgotten on one of its ways
ScheduleReconnect == timer' = (timer \/ mode # "closing")

(* The reconnect timer: connectRemote, unless a socket is there. *)
Fire ==
    /\ timer /\ timer' = FALSE
    /\ attempt' = (mode # "closing" /\ (ws = NoSocket \/ state[ws] \notin {"connecting", "open"}))
    /\ UNCHANGED <<mode, ws, state, ready, deadline, heartbeat, beating>>

(* connectRemote goes on after initNative, whatever has happened meanwhile. *)
Connect(s) ==
    /\ attempt /\ state[s] = "free"
    /\ attempt' = FALSE
    /\ mode' = IF mode = "starting" THEN "running" ELSE mode
    /\ ws' = s /\ Set(s, "connecting") /\ ready' = ready \ {s}
    /\ deadline' = deadline \cup {s}
    /\ UNCHANGED <<timer, heartbeat, beating>>

(* initNative or what follows it throws. *)
AttemptFails ==
    /\ attempt
    /\ IF mode = "starting" THEN Blank("gone")
       ELSE /\ attempt' = FALSE /\ ScheduleReconnect
            /\ UNCHANGED <<mode, ws, state, ready, deadline, heartbeat, beating>>

(* The handshake is over; or the socket fails, or the Core or the network
   ends it. *)
Opens(s) ==
    /\ state[s] = "connecting" /\ Set(s, "open")
    /\ UNCHANGED <<mode, ws, ready, deadline, timer, attempt, heartbeat, beating>>
SocketEnds(s) ==
    /\ state[s] \in {"connecting", "open", "closing"} /\ Set(s, "closed")
    /\ UNCHANGED <<mode, ws, ready, deadline, timer, attempt, heartbeat, beating>>

(* A challenge that cannot be signed. *)
CannotSign(s) ==
    /\ s = ws /\ mode # "closing" /\ state[s] = "open" /\ s \notin ready
    /\ Set(s, "closing")
    /\ UNCHANGED <<mode, ws, ready, deadline, timer, attempt, heartbeat, beating>>

(* auth_ok: markReady. *)
MarkReady(s) ==
    /\ s = ws /\ mode # "closing" /\ s \notin ready /\ state[s] = "open"
    /\ ready' = ready \cup {s} /\ deadline' = deadline \ {s}
    /\ heartbeat' = s /\ beating' = beating \cup {s}
    /\ UNCHANGED <<mode, ws, state, timer, attempt>>

(* connectionDeadline. *)
NotConnected(s)     == state[s] = "connecting"    \* mutant: an open socket left waiting
NotAuthenticated(s) == state[s] = "connecting" \/ (state[s] = "open" /\ s \notin ready)

Deadline(s) ==
    /\ s \in deadline /\ deadline' = deadline \ {s}
    /\ IF NotAuthenticated(s) THEN Set(s, "closed") ELSE UNCHANGED state
    /\ UNCHANGED <<mode, ws, ready, timer, attempt, heartbeat, beating>>

(* The close event. *)
KeepBeating == UNCHANGED <<heartbeat, beating>>   \* mutant: the interval not cleared
StopBeating == heartbeat' = NoSocket /\ beating' = beating \ {heartbeat}

CloseEvent(s) ==
    /\ state[s] = "closed" /\ Set(s, "free")
    /\ deadline' = deadline \ {s}
    /\ IF s = ws
       THEN /\ ready' = ready \ {s} /\ StopBeating /\ ws' = NoSocket /\ ScheduleReconnect
       ELSE UNCHANGED <<ready, heartbeat, beating, ws, timer>>
    /\ UNCHANGED <<mode, attempt>>

(* SIGINT or SIGTERM, and the end of the process; it may also just die.
   Somebody starts it again. *)
Shutdown ==
    /\ mode \in {"starting", "running"} /\ mode' = "closing"
    /\ timer' = FALSE /\ beating' = beating \ {heartbeat}
    /\ state' = [s \in Sockets |-> IF s = ws /\ state[s] \in {"connecting", "open"}
                                   THEN "closing" ELSE state[s]]
    /\ UNCHANGED <<ws, ready, deadline, attempt, heartbeat>>
AgentExits == mode # "gone" /\ Blank("gone")
AgentStarts == mode = "gone" /\ Blank("starting")

LinkNext ==
    \/ Fire \/ AttemptFails \/ Shutdown \/ AgentExits \/ AgentStarts
    \/ \E s \in Sockets : Connect(s) \/ Opens(s) \/ SocketEnds(s) \/ CannotSign(s) \/ MarkReady(s)
                          \/ Deadline(s) \/ CloseEvent(s)

(* Timers fire, an await ends, and a socket that is closed or closing says so
   (ws gives up a closing handshake by itself).  Nothing is assumed of the
   network, of the Core, or of whoever starts and stops the Agent. *)
Attempt == AttemptFails \/ \E s \in Sockets : Connect(s)
Finish(s) == state[s] = "closing" /\ SocketEnds(s)
LinkFairness ==
    /\ WF_linkVars(Fire) /\ WF_linkVars(Attempt)
    /\ \A s \in Sockets : WF_linkVars(Deadline(s)) /\ WF_linkVars(Finish(s)) /\ WF_linkVars(CloseEvent(s))

LinkSpec == LinkInit /\ [][LinkNext]_linkVars /\ LinkFairness

-----------------------------------------------------------------------------
(* Properties.                                                             *)

(* A running Agent has exactly one way to the Core: a timer, an attempt or a
   socket.  None would leave it offline for good, two would open two sockets
   that take the device from each other; a socket other than ws is never
   left (yourhand-agent.mjs:564-633). *)
OneWay ==
    /\ mode = "running" =>
        Cardinality({w \in {"timer", "attempt", "socket"} :
                        \/ w = "timer" /\ timer
                        \/ w = "attempt" /\ attempt
                        \/ w = "socket" /\ ws # NoSocket}) = 1
    /\ \A s \in Sockets : state[s] # "free" => s = ws

(* Heartbeats are sent for the authenticated socket in use and for no other,
   over any number of connections: an interval that outlived its socket would
   be one more with every reconnect. *)
BeatsWithSocket ==
    \A s \in Sockets : s \in beating <=> mode = "running" /\ s = ws /\ s \in ready

(* A running Agent is, again and again, authenticated or trying anew: a
   silent Core, a socket that hangs before authentication, a helper that will
   not start do not end it.  (An authenticated socket whose peer is gone
   without a sign has no such deadline and counts as connected here.) *)
NeverGivesUp == []<>(mode # "running" \/ attempt \/ (ws # NoSocket /\ ws \in ready))

-----------------------------------------------------------------------------
(* What the proofs add.  Of a timer, an attempt and a socket there is never
   more than one, whatever the mode, and one in a process that is to stay; an
   interval that runs is the one the variable heartbeat was set for. *)
NeverTwo ==
    /\ timer => ~attempt
    /\ timer \/ attempt => ws = NoSocket
Stays ==
    /\ mode = "running" => timer \/ attempt \/ ws # NoSocket
    /\ mode = "starting" => attempt
    /\ mode = "closing" => ~timer
    /\ mode = "gone" => ~timer /\ ~attempt /\ ws = NoSocket
NoOther == \A s \in Sockets : state[s] # "free" => s = ws
Remembered == \A s \in beating : s = heartbeat

LinkInv == LinkTypeOK /\ NeverTwo /\ Stays /\ NoOther /\ Remembered /\ BeatsWithSocket
=============================================================================
