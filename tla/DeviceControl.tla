--------------------------- MODULE DeviceControl ---------------------------
(***************************************************************************)
(* One paired device, driven by several accounts through the Core.         *)
(*                                                                         *)
(* The Core (server-multiuser.js) keeps the live Agent sessions (devices), *)
(* the requests it waits for (pending) and, through DeviceTaskLocks, one   *)
(* reservation per device.  A mutating request takes a reservation for     *)
(* itself unless its account already holds one by name.  The Agent         *)
(* (yourhand-agent.mjs) runs whatever it receives and answers on the       *)
(* socket the request came by.  Sockets are replaced and closed, members   *)
(* come and go, and work outlives the request that asked for it.           *)
(*                                                                         *)
(* Devices do not interact, so the module has one.  Time advances in       *)
(* ticks; a timer fires within the tick in which it is due.                *)
(***************************************************************************)
EXTENDS Naturals

CONSTANTS
    Users, Owner,   \* the accounts, and the one that paired the device
    Rpcs,           \* the requests made (each a fresh crypto.randomUUID())
    Caller,         \* the account of each request
    Kind,           \* control, content (of the screen or files) or ping
    Tasks,          \* names given to acquire_device_lock
    Sockets,        \* the connections the Agent makes
    Lease,          \* leaseMs, in ticks
    Timeout,        \* the RPC timer, in ticks
    CoreMayRestart  \* whether the Core process may die and come back

None   == "none"
Kinds  == {"control", "content", "ping"}
Shares == {"operator", "viewer", "none"}

ASSUME UsersType   == Owner \in Users /\ None \notin Users
ASSUME CallerType  == Caller \in [Rpcs -> Users] /\ Kind \in [Rpcs -> Kinds]
ASSUME NamesType   == Tasks \cap Rpcs = {} /\ None \notin Tasks \cup Rpcs
ASSUME SocketsType == None \notin Sockets
ASSUME TimesType   == /\ Timeout \in Nat /\ Lease \in Nat /\ Timeout < Lease
                      /\ CoreMayRestart \in BOOLEAN

VARIABLES
    active,     \* devices.status is 'active'
    share,      \* device_shares.role of the accounts that are not the owner
    sock,       \* the Core's end of each connection
    session,    \* the socket in the Core's devices map
    agent,      \* the Agent's current socket
    lock,       \* DeviceTaskLocks.active of the device
    at,         \* where each request stands: pending, or what it was told
    ws,         \* the socket a request was sent on
    left,       \* ticks left on its timer
    requests,   \* requests on their way to the Agent
    replies,    \* replies on their way to the Core
    work,       \* what the Agent makes of each request
    waiver      \* history: why a request still under way lost its reservation

coreVars  == <<session, lock, at, ws, left>>
agentVars == <<agent, requests, replies, work>>
vars      == <<active, share, sock, coreVars, agentVars, waiver>>

NoLock  == [user |-> None, task |-> None, left |-> 0]
Locks   == [user : Users, task : Tasks \cup Rpcs, left : 1..Lease] \cup {NoLock}
(* What an Agent's reply says: an answer, value or error, or an error whose
   text has "disconnect" or "outcome uncertain" in it.  The Agent's own errors
   never do (its journal's OUTCOME_UNCERTAIN is not matched by the pattern);
   a page's exception, a file name or a tool's message it passes on may. *)
Whats   == {"answer", "uncertain"}
Answers == Whats \cup {"revoked", "timeout", "disconnected", "unsent", "lost"}
Causes  == {"released", "expired", "revoked", "session", "agent", "restart"}

TypeOK ==
    /\ active \in BOOLEAN
    /\ share \in [Users -> Shares]
    /\ sock \in [Sockets -> {"new", "open", "live", "closing", "closed"}]
    /\ session \in Sockets \cup {None} /\ agent \in Sockets \cup {None}
    /\ lock \in Locks
    /\ at \in [Rpcs -> {"idle", "pending"} \cup Answers]
    /\ ws \in [Rpcs -> Sockets \cup {None}]
    /\ left \in [Rpcs -> 0..Timeout]
    /\ requests \in SUBSET Rpcs
    /\ replies \in SUBSET [call : Rpcs, what : Whats]
    /\ work \in [Rpcs -> {"none", "running", "orphan"}]
    /\ waiver \in [Rpcs -> Causes \cup {None}]

Init ==
    /\ active = TRUE
    /\ share = [u \in Users |-> "none"]
    /\ sock = [s \in Sockets |-> "new"] /\ session = None /\ agent = None
    /\ lock = NoLock
    /\ at = [r \in Rpcs |-> "idle"] /\ ws = [r \in Rpcs |-> None]
    /\ left = [r \in Rpcs |-> 0]
    /\ requests = {} /\ replies = {}
    /\ work = [r \in Rpcs |-> "none"]
    /\ waiver = [r \in Rpcs |-> None]

(* getDeviceForUser: the account's role on the device. *)
Role(u)       == IF ~active THEN "none" ELSE IF u = Owner THEN "owner" ELSE share[u]
CanOperate(u) == Role(u) \in {"owner", "operator"}

(* A mutating request on its way to the Agent, or at work there.  What is sent
   on a socket the Agent has left goes nowhere. *)
Underway(r) ==
    /\ Kind[r] = "control"
    /\ (r \in requests /\ agent = ws[r]) \/ work[r] \in {"running", "orphan"}

Waive(S, why) ==
    waiver' = [r \in Rpcs |-> IF Underway(r) /\ r \in S /\ waiver[r] = None
                              THEN why ELSE waiver[r]]
(* Requests that are no longer under way have no history. *)
Over(S) == waiver' = [r \in Rpcs |-> IF r \in S THEN None ELSE waiver[r]]

Of(u) == {r \in Rpcs : Caller[r] = u}

(* A request settles: its timer is cleared. *)
Settle(r, a) == at' = [at EXCEPT ![r] = a] /\ left' = [left EXCEPT ![r] = 0]
SettleAll(S, a) ==
    /\ at' = [r \in Rpcs |-> IF r \in S THEN a ELSE at[r]]
    /\ left' = [r \in Rpcs |-> IF r \in S THEN 0 ELSE left[r]]

-----------------------------------------------------------------------------
(* DeviceTaskLocks.  A row whose time is up counts as absent in every method;
   here it goes with the tick. *)

ReserveLonger(u, t) ==              \* mutant: a renewal adds to the lease
    lock' = [user |-> u, task |-> t, left |-> lock.left + Lease]
Reserve(u, t) == lock' = [user |-> u, task |-> t, left |-> Lease]

(* dropIfUnauthorized(), then acquire() or the account's own named row. *)
Available == lock # NoLock => ~CanOperate(lock.user)

(* releaseFinished(): only the reservation the request took for itself. *)
ReleaseAny(r) ==                    \* mutant: the task ID not compared
    lock' = IF lock.user = Caller[r] THEN NoLock ELSE lock
ReleaseFinished(r) ==
    lock' = IF lock.task = r THEN NoLock ELSE lock

-----------------------------------------------------------------------------
(* Sockets and sessions.                                                   *)

(* connectRemote() and the upgrade: only for an active device. *)
Connect(s) ==
    /\ agent = None /\ sock[s] = "new" /\ active
    /\ agent' = s /\ sock' = [sock EXCEPT ![s] = "open"]
    /\ UNCHANGED <<active, share, coreVars, requests, replies, work, waiver>>

(* A signed challenge makes the socket the session; an older one is told to
   close.  The device's status is not looked at again. *)
Replace(s) ==
    [x \in Sockets |-> IF x = s THEN "live"
                       ELSE IF x = session /\ sock[x] = "live" THEN "closing" ELSE sock[x]]

Authenticate(s) ==
    /\ sock[s] = "open"
    /\ sock' = Replace(s) /\ session' = s
    /\ UNCHANGED <<active, share, lock, at, ws, left, agentVars, waiver>>

(* No signature in time, or a bad one. *)
AuthFails(s) ==
    /\ sock[s] = "open"
    /\ sock' = [sock EXCEPT ![s] = "closed"]
    /\ UNCHANGED <<active, share, coreVars, agentVars, waiver>>

(* Mutants of DropDevice: the old session's close not told from the new
   one's; the requests of every socket rejected; none of them. *)
DropAnySession(s) ==
    /\ session' = None /\ lock' = NoLock
    /\ Waive(Rpcs, "session")
    /\ SettleAll({r \in Rpcs : at[r] = "pending" /\ ws[r] = s}, "disconnected")
DropOnlySession(s) ==
    /\ IF session = s
       THEN session' = None /\ lock' = NoLock /\ Waive(Rpcs, "session")
       ELSE UNCHANGED <<session, lock, waiver>>
    /\ SettleAll({r \in Rpcs : at[r] = "pending" /\ ws[r] = s /\ session = s}, "disconnected")

(* dropDevice(): a replaced socket leaves the new session alone. *)
DropDevice(s) ==
    /\ IF session = s
       THEN session' = None /\ lock' = NoLock /\ Waive(Rpcs, "session")
       ELSE UNCHANGED <<session, lock, waiver>>
    /\ SettleAll({r \in Rpcs : at[r] = "pending" /\ ws[r] = s}, "disconnected")

(* The Core learns that an authenticated socket is closed. *)
SocketCloses(s) ==
    /\ sock[s] \in {"live", "closing"}
    /\ sock' = [sock EXCEPT ![s] = "closed"]
    /\ DropDevice(s)
    /\ UNCHANGED <<active, share, ws, agentVars>>

(* The Agent's end goes: network, terminate() or the process itself.  What
   was on its way to it is lost; the Core may learn of it much later. *)
AgentLosesSocket ==
    /\ agent # None /\ agent' = None
    /\ requests' = {r \in requests : ws[r] # agent}
    /\ Over(requests \ requests')
    /\ UNCHANGED <<active, share, sock, coreVars, replies, work>>

-----------------------------------------------------------------------------
(* Who may use the device.                                                 *)

(* An invitation accepted, a member removed, a member leaving. *)
SetShare(u, x) ==
    /\ active /\ u # Owner /\ share[u] # x
    /\ share' = [share EXCEPT ![u] = x]
    /\ IF x = "operator" THEN UNCHANGED waiver ELSE Waive(Of(u), "revoked")
    /\ UNCHANGED <<active, sock, coreVars, agentVars>>

(* DELETE /api/devices/:id by the owner, with onDeviceRevoked(). *)
Unpair ==
    /\ active /\ active' = FALSE
    /\ IF session = None
       THEN Waive(Rpcs, "revoked") /\ UNCHANGED <<sock, session, lock, at, left>>
       ELSE /\ DropDevice(session)
            /\ sock' = [sock EXCEPT ![session] = "closing"]
    /\ UNCHANGED <<share, ws, agentVars>>

(* The same key enrolled again: same device, same members. *)
Enroll ==
    /\ ~active /\ active' = TRUE
    /\ UNCHANGED <<share, sock, coreVars, agentVars, waiver>>

-----------------------------------------------------------------------------
(* Requests.                                                               *)

Online == active /\ session # None /\ sock[session] = "live"

Permitted(r) ==
    IF Kind[r] = "ping" THEN Role(Caller[r]) # "none" ELSE CanOperate(Caller[r])

(* rpcDispatch(), and probeDeviceFromWeb() for a ping: everything else throws
   and changes nothing. *)
Dispatch(r) ==
    /\ at[r] = "idle" /\ Online /\ Permitted(r)
    /\ \/ Kind[r] # "control" /\ UNCHANGED lock
       \/ Kind[r] = "control" /\ Available /\ Reserve(Caller[r], r)
       \/ /\ Kind[r] = "control"
          /\ lock.user = Caller[r] /\ lock.task \in Tasks
          /\ UNCHANGED lock
    /\ at' = [at EXCEPT ![r] = "pending"]
    /\ ws' = [ws EXCEPT ![r] = session]
    /\ left' = [left EXCEPT ![r] = Timeout]
    /\ requests' = requests \cup {r}
    /\ UNCHANGED <<active, share, sock, session, agent, replies, work, waiver>>

(* The callback of ws.send reports that the request could not be written. *)
KeepOnFailure(r) == UNCHANGED lock      \* mutant: releaseFinished forgotten
ReleaseUnsent(r) == ReleaseFinished(r)

SendFails(r) ==
    /\ at[r] = "pending" /\ r \in requests
    /\ requests' = requests \ {r}
    /\ Settle(r, "unsent") /\ ReleaseUnsent(r)
    /\ Over({r})
    /\ UNCHANGED <<active, share, sock, session, ws, agent, replies, work>>

(* The response handler: a late reply finds nothing pending; a member removed
   meanwhile is not told the result. *)
Respond(m) ==
    LET r == m.call IN
    /\ m \in replies /\ sock[ws[r]] \in {"live", "closing"}
    /\ replies' = replies \ {m}
    /\ \/ at[r] # "pending" /\ UNCHANGED <<at, left, lock>>
       \/ /\ at[r] = "pending" /\ Role(Caller[r]) = "none"
          /\ Settle(r, "revoked") /\ ReleaseFinished(r)
       \/ /\ at[r] = "pending" /\ Role(Caller[r]) # "none"
          /\ Settle(r, m.what)
          /\ IF m.what = "uncertain" THEN UNCHANGED lock ELSE ReleaseFinished(r)
    /\ UNCHANGED <<active, share, sock, session, ws, agent, requests, work, waiver>>

(* Mutants of RpcTimeout: the reservation released; the timer cleared with
   the session. *)
RpcTimeoutReleases(r) ==
    /\ at[r] = "pending" /\ left[r] = 0
    /\ Settle(r, "timeout") /\ ReleaseFinished(r)
    /\ UNCHANGED <<active, share, sock, session, ws, agentVars, waiver>>
RpcTimeoutOfSession(r) ==
    /\ at[r] = "pending" /\ left[r] = 0 /\ ws[r] = session
    /\ Settle(r, "timeout")
    /\ UNCHANGED <<active, share, sock, session, lock, ws, agentVars, waiver>>

(* The RPC timer: nobody knows what the Agent is doing, the reservation stays. *)
RpcTimeout(r) ==
    /\ at[r] = "pending" /\ left[r] = 0
    /\ Settle(r, "timeout")
    /\ UNCHANGED <<active, share, sock, session, lock, ws, agentVars, waiver>>

(* Time passes, when no timer is overdue. *)
Tick ==
    /\ \A r \in Rpcs : at[r] = "pending" => left[r] > 0
    /\ lock # NoLock \/ \E r \in Rpcs : at[r] = "pending"
    /\ left' = [r \in Rpcs |-> IF at[r] = "pending" THEN left[r] - 1 ELSE left[r]]
    /\ IF lock.left > 1
       THEN /\ lock' = [user |-> lock.user, task |-> lock.task, left |-> lock.left - 1]
            /\ UNCHANGED waiver
       ELSE lock' = NoLock /\ Waive(Of(lock.user), "expired")
    /\ UNCHANGED <<active, share, sock, session, at, ws, agentVars>>

(* acquire_device_lock: a new name, or a row of one's own renewed. *)
AcquireLock(u, t) ==
    /\ Online /\ CanOperate(u)
    /\ \/ lock = NoLock /\ t \in Tasks
       \/ lock.user = u /\ lock.task = t
    /\ Reserve(u, t)
    /\ UNCHANGED <<active, share, sock, session, at, ws, left, agentVars, waiver>>

(* release_device_lock: device_lock_status tells an account the name of its
   own row, a request's included. *)
ReleaseLock(u) ==
    /\ Online /\ CanOperate(u) /\ lock.user = u
    /\ lock' = NoLock /\ Waive(Of(u), "released")
    /\ UNCHANGED <<active, share, sock, session, at, ws, left, agentVars>>

(* The Core dies: sockets, requests and reservations were in its memory. *)
CoreRestart ==
    /\ CoreMayRestart
    /\ sock' = [s \in Sockets |-> IF sock[s] = "new" THEN "new" ELSE "closed"]
    /\ session' = None /\ lock' = NoLock
    /\ SettleAll({r \in Rpcs : at[r] = "pending"}, "lost")
    /\ replies' = {}
    /\ Waive(Rpcs, "restart")
    /\ UNCHANGED <<active, share, ws, agent, requests, work>>

-----------------------------------------------------------------------------
(* The Agent.  Requests run side by side.                                  *)

Receive(r) ==
    /\ r \in requests /\ agent = ws[r]
    /\ requests' = requests \ {r}
    /\ work' = [work EXCEPT ![r] = "running"]
    /\ UNCHANGED <<active, share, sock, coreVars, agent, replies, waiver>>

(* A reply goes out by the request's own socket, or not at all. *)
Reply(r, w) ==
    replies' = IF agent = ws[r] THEN replies \cup {[call |-> r, what |-> w]} ELSE replies

Finish(r) ==
    /\ work[r] = "running"
    /\ work' = [work EXCEPT ![r] = "none"]
    /\ \E w \in Whats : Reply(r, w)
    /\ Over({r})
    /\ UNCHANGED <<active, share, sock, coreVars, agent, requests>>

(* nativeCall or a CDP call times out on the Agent: an error is sent while
   the helper or the tab is still at it. *)
StopWaiting(r) ==
    /\ work[r] = "running"
    /\ work' = [work EXCEPT ![r] = "orphan"]
    /\ Reply(r, "answer")
    /\ Waive({r}, "agent")
    /\ UNCHANGED <<active, share, sock, coreVars, agent, requests>>

OrphanEnds(r) ==
    /\ work[r] = "orphan"
    /\ work' = [work EXCEPT ![r] = "none"]
    /\ Over({r})
    /\ UNCHANGED <<active, share, sock, coreVars, agent, requests, replies>>

-----------------------------------------------------------------------------
SocketStep(s) == Connect(s) \/ Authenticate(s) \/ AuthFails(s) \/ SocketCloses(s)

RpcStep(r) ==
    \/ Dispatch(r) \/ SendFails(r) \/ RpcTimeout(r)
    \/ Receive(r) \/ Finish(r) \/ StopWaiting(r) \/ OrphanEnds(r)

UserStep(u) ==
    \/ \E x \in Shares : SetShare(u, x)
    \/ \E t \in Tasks \cup Rpcs : AcquireLock(u, t)
    \/ ReleaseLock(u)

Next ==
    \/ \E s \in Sockets : SocketStep(s)
    \/ \E r \in Rpcs : RpcStep(r)
    \/ \E m \in replies : Respond(m)
    \/ \E u \in Users : UserStep(u)
    \/ AgentLosesSocket \/ Unpair \/ Enroll \/ Tick \/ CoreRestart

Spec == Init /\ [][Next]_vars

(* The clock runs and the event loop fires its timers. *)
Fairness == WF_vars(Tick) /\ \A r \in Rpcs : WF_vars(RpcTimeout(r))

FairSpec == Spec /\ Fairness

-----------------------------------------------------------------------------
(* Properties.                                                             *)

(* Two mutating requests of different accounts that the Core has both sent
   and may both still be running *)
Conflict(r, q) == Underway(r) /\ Underway(q) /\ Caller[r] # Caller[q]

(* Mutating requests of two accounts are never under way at the same time,
   timed out or not, unless one of them lost its reservation while it ran:
   its account released it, it expired, the account lost the right, the
   session ended, the Agent gave up first, or the Core died. *)
Exclusive ==
    \A r, q \in Rpcs : Conflict(r, q) => waiver[r] # None \/ waiver[q] # None

(* A reservation that a request took for itself outlives it only when nobody
   knows what became of the request, or its error reads as if nobody did. *)
NoLeaseLeak ==
    lock.task \in Rpcs =>
        at[lock.task] \in {"pending", "timeout", "uncertain", "disconnected"}

(* Whatever is open, waits or is held belongs to the session: at most one
   authenticated connection is open for traffic and it is the one requests
   are sent on, no request waits on a socket that is closed, and no
   reservation outlives the session it was made in. *)
NothingOrphaned ==
    /\ \A s \in Sockets : sock[s] = "live" => session = s
    /\ \A r \in Rpcs : at[r] = "pending" => sock[ws[r]] \in {"live", "closing"}
    /\ session = None => lock = NoLock

(* "A replaced/stale socket must never remove the new session or reject its
   requests" (dropDevice). *)
StaleSocketHarmless ==
    [][\A s \in Sockets :
         sock[s] = "live" /\ sock'[s] = "live" =>
            /\ session = s => session' = s
            /\ \A r \in Rpcs : at[r] = "pending" /\ ws[r] = s => at'[r] # "disconnected"]_vars

(* Requests that start or settle, those of other accounts included, neither
   end nor take over a named reservation of an account that may hold it. *)
ReservationSticky ==
    [][/\ at' # at /\ session' = session
       /\ lock.task \in Tasks /\ CanOperate(lock.user)
       => lock' = lock]_vars

(* Every request is settled, whatever happens to sockets and members. *)
RpcSettles == \A r \in Rpcs : at[r] = "pending" ~> at[r] # "pending"

(* What the code says is not kept. *)

(* request q of one account is let through while r of another is under way *)
LetThrough(q, r) ==
    /\ Kind[q] = "control" /\ at[q] = "idle" /\ at'[q] = "pending"
    /\ Underway(r) /\ Caller[r] # Caller[q]

(* "Never grant another account GUI control while a timed-out side effect may
   still be executing on the Agent" (until the lease expires; rpcDispatch). *)
TimedOutKeepsDevice ==
    [][\A r, q \in Rpcs : LetThrough(q, r) /\ work[r] = "running" /\ at[r] = "timeout" =>
         waiver[r] \in {"released", "expired", "revoked", "agent", "restart"}]_vars

(* "raw filesystem/screen contents require the owner's explicit Operator
   grant even when the RPC is read-only" (rpcDispatch). *)
ContentForOperators ==
    [][\A r \in Rpcs : Kind[r] = "content" /\ at[r] = "pending" /\ at'[r] = "answer"
                         => CanOperate(Caller[r])]_vars
-----------------------------------------------------------------------------
(* The inductive invariant behind the safety properties.                   *)

(* A request that still has its reservation runs under the one row of the
   device, its own or one named by its account. *)
Covered ==
    \A r \in Rpcs : Underway(r) /\ waiver[r] = None =>
        /\ lock.user = Caller[r] /\ CanOperate(Caller[r])
        /\ lock.task = r \/ lock.task \in Tasks

(* A request is sent once, answered after it was received, and answered while
   at work only if the Agent has stopped waiting. *)
SentOnce ==
    /\ \A r \in Rpcs : at[r] = "idle" => r \notin requests /\ work[r] = "none"
    /\ \A r \in requests : work[r] = "none"
    /\ \A m \in replies :
         /\ at[m.call] # "idle" /\ m.call \notin requests
         /\ work[m.call] # "running"
         /\ work[m.call] = "orphan" /\ Kind[m.call] = "control" => waiver[m.call] # None

(* Requests are sent on sockets that have been connected. *)
Connected ==
    /\ session # None => sock[session] # "new"
    /\ \A r \in requests : ws[r] # None /\ sock[ws[r]] # "new"

(* The session is the one live socket, whatever waits waits on a socket whose
   close is still to come, and without a session there is no row. *)
Attached ==
    /\ session # None => sock[session] = "live"
    /\ \A s \in Sockets : sock[s] = "live" => session = s
    /\ \A r \in Rpcs : at[r] = "pending" => ws[r] # None /\ sock[ws[r]] \in {"live", "closing"}
    /\ session = None => lock = NoLock

Inv == TypeOK /\ Covered /\ SentOnce /\ Connected /\ Attached /\ NoLeaseLeak
=============================================================================
