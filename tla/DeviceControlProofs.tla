------------------------ MODULE DeviceControlProofs ------------------------
(***************************************************************************)
(* Proofs about DeviceControl, for every set of accounts, requests,        *)
(* reservations and sockets, and every lease longer than the RPC timer.    *)
(***************************************************************************)
EXTENDS DeviceControl, TLAPS

(* Everything but the lock, the request table and the history keeps its type
   in every step. *)
LEMMA TypeStep == TypeOK /\ [Next]_vars => TypeOK'
<1> SUFFICES ASSUME TypeOK, [Next]_vars PROVE TypeOK'
  OBVIOUS
<1> USE UsersType, CallerType, NamesType, SocketsType, TimesType DEF TypeOK
<1>1. ASSUME NEW S, NEW why \in Causes, Waive(S, why) \/ Over(S)
      PROVE  waiver' \in [Rpcs -> Causes \cup {None}]
  BY <1>1 DEF Waive, Over
<1>2. ASSUME NEW r \in Rpcs, NEW a \in Answers, Settle(r, a)
      PROVE  /\ at' \in [Rpcs -> {"idle", "pending"} \cup Answers]
             /\ left' \in [Rpcs -> 0..Timeout]
  BY <1>2 DEF Settle
<1>3. ASSUME NEW S, NEW a \in Answers, SettleAll(S, a)
      PROVE  /\ at' \in [Rpcs -> {"idle", "pending"} \cup Answers]
             /\ left' \in [Rpcs -> 0..Timeout]
  BY <1>3 DEF SettleAll
<1>4. NoLock \in Locks
  BY DEF Locks
<1>5. ASSUME NEW u \in Users, NEW t \in Tasks \cup Rpcs, Reserve(u, t) PROVE lock' \in Locks
  BY <1>5 DEF Reserve, Locks
<1>6. ASSUME NEW r \in Rpcs, ReleaseFinished(r) PROVE lock' \in Locks
  BY <1>4, <1>6 DEF ReleaseFinished
<1>7. ASSUME NEW s \in Sockets, DropDevice(s)
      PROVE  /\ session' \in Sockets \cup {None} /\ lock' \in Locks
             /\ waiver' \in [Rpcs -> Causes \cup {None}]
             /\ at' \in [Rpcs -> {"idle", "pending"} \cup Answers]
             /\ left' \in [Rpcs -> 0..Timeout]
  <2>1. "session" \in Causes /\ "disconnected" \in Answers
    BY DEF Causes, Answers
  <2> QED
    BY <1>1, <1>3, <1>4, <1>7, <2>1 DEF DropDevice
<1>8. ASSUME NEW s \in Sockets, SocketStep(s) PROVE TypeOK'
  <2>1. CASE Connect(s)
    BY <2>1 DEF Connect, coreVars
  <2>2. CASE Authenticate(s)
    BY <2>2 DEF Authenticate, Replace, agentVars
  <2>3. CASE AuthFails(s)
    BY <2>3 DEF AuthFails, coreVars, agentVars
  <2>4. CASE SocketCloses(s)
    BY <2>4, <1>7 DEF SocketCloses, agentVars
  <2> QED
    BY <1>8, <2>1, <2>2, <2>3, <2>4 DEF SocketStep
<1>9. ASSUME NEW r \in Rpcs, RpcStep(r) PROVE TypeOK'
  <2>1. CASE Dispatch(r)
    <3>1. lock' \in Locks
      BY <1>5, <2>1 DEF Dispatch
    <3>2. at' \in [Rpcs -> {"idle", "pending"} \cup Answers]
      BY <2>1 DEF Dispatch
    <3>3. left' \in [Rpcs -> 0..Timeout] /\ ws' \in [Rpcs -> Sockets \cup {None}]
      BY <2>1 DEF Dispatch
    <3> QED
      BY <2>1, <3>1, <3>2, <3>3 DEF Dispatch
  <2>2. CASE SendFails(r)
    <3>1. "unsent" \in Answers /\ "released" \in Causes
      BY DEF Answers, Causes
    <3> QED
      BY <1>1, <1>2, <1>6, <2>2, <3>1 DEF SendFails, ReleaseUnsent
  <2>3. CASE RpcTimeout(r)
    <3>1. "timeout" \in Answers
      BY DEF Answers
    <3> QED
      BY <1>2, <2>3, <3>1 DEF RpcTimeout, agentVars
  <2>4. CASE Receive(r)
    BY <2>4 DEF Receive, coreVars
  <2>5. ASSUME NEW w \in Whats, Reply(r, w) PROVE replies' \in SUBSET [call : Rpcs, what : Whats]
    BY <2>5 DEF Reply
  <2>6. CASE Finish(r)
    <3>1. "released" \in Causes
      BY DEF Causes
    <3> QED
      BY <1>1, <2>5, <2>6, <3>1 DEF Finish, coreVars
  <2>7. CASE StopWaiting(r)
    <3>1. "agent" \in Causes /\ "answer" \in Whats
      BY DEF Causes, Whats
    <3> QED
      BY <1>1, <2>5, <2>7, <3>1 DEF StopWaiting, coreVars
  <2>8. CASE OrphanEnds(r)
    <3>1. "released" \in Causes
      BY DEF Causes
    <3> QED
      BY <1>1, <2>8, <3>1 DEF OrphanEnds, coreVars
  <2> QED
    BY <1>9, <2>1, <2>2, <2>3, <2>4, <2>6, <2>7, <2>8 DEF RpcStep
<1>10. ASSUME NEW m \in replies, Respond(m) PROVE TypeOK'
  <2>1. m.call \in Rpcs /\ m.what \in Answers /\ "revoked" \in Answers
    BY DEF Whats, Answers
  <2>2. lock' \in Locks
    BY <1>6, <1>10, <2>1 DEF Respond
  <2>3. /\ at' \in [Rpcs -> {"idle", "pending"} \cup Answers]
        /\ left' \in [Rpcs -> 0..Timeout]
    BY <1>2, <1>10, <2>1 DEF Respond
  <2> QED
    BY <1>10, <2>2, <2>3 DEF Respond
<1>11. ASSUME NEW u \in Users, UserStep(u) PROVE TypeOK'
  <2>1. "revoked" \in Causes /\ "released" \in Causes
    BY DEF Causes
  <2>2. ASSUME NEW x \in Shares, SetShare(u, x) PROVE TypeOK'
    <3>1. waiver' \in [Rpcs -> Causes \cup {None}]
      BY <1>1, <2>1, <2>2 DEF SetShare
    <3> QED
      BY <2>2, <3>1 DEF SetShare, coreVars, agentVars
  <2>3. ASSUME NEW t \in Tasks \cup Rpcs, AcquireLock(u, t) PROVE TypeOK'
    BY <1>5, <2>3 DEF AcquireLock, agentVars
  <2>4. CASE ReleaseLock(u)
    BY <1>1, <1>4, <2>1, <2>4 DEF ReleaseLock, agentVars
  <2> QED
    BY <1>11, <2>2, <2>3, <2>4 DEF UserStep
<1>12. CASE AgentLosesSocket
  <2>1. "released" \in Causes
    BY DEF Causes
  <2> QED
    BY <1>1, <1>12, <2>1 DEF AgentLosesSocket, coreVars
<1>13. CASE Unpair
  <2>1. "revoked" \in Causes
    BY DEF Causes
  <2> QED
    BY <1>1, <1>7, <1>13, <2>1 DEF Unpair, agentVars
<1>14. CASE Enroll
  BY <1>14 DEF Enroll, coreVars, agentVars
<1>15. CASE Tick
  <2>1. "expired" \in Causes
    BY DEF Causes
  <2>2. waiver' \in [Rpcs -> Causes \cup {None}]
    BY <1>1, <1>15, <2>1 DEF Tick
  <2>3. left' \in [Rpcs -> 0..Timeout]
    BY <1>15 DEF Tick
  <2>4. lock' \in Locks
    <3>1. CASE lock.left > 1
      <4>1. lock \in [user : Users, task : Tasks \cup Rpcs, left : 1..Lease]
        BY <3>1 DEF Locks, NoLock
      <4>2. lock.left - 1 \in 1..Lease
        BY <3>1, <4>1
      <4> QED
        BY <1>15, <3>1, <4>1, <4>2 DEF Tick, Locks
    <3>2. CASE ~(lock.left > 1)
      BY <1>4, <1>15, <3>2 DEF Tick
    <3> QED
      BY <3>1, <3>2
  <2> QED
    BY <1>15, <2>2, <2>3, <2>4 DEF Tick, agentVars
<1>16. CASE CoreRestart
  <2>1. "restart" \in Causes /\ "lost" \in Answers
    BY DEF Causes, Answers
  <2> QED
    BY <1>1, <1>3, <1>4, <1>16, <2>1 DEF CoreRestart
<1>17. CASE UNCHANGED vars
  BY <1>17 DEF vars, coreVars, agentVars
<1> QED
  BY <1>8, <1>9, <1>10, <1>11, <1>12, <1>13, <1>14, <1>15, <1>16, <1>17 DEF Next

-----------------------------------------------------------------------------
(* No connection becomes new again, and the session and what is sent on it
   belong to a connection that was made: every step keeps Connected. *)
LEMMA ConnectedStep == TypeOK /\ Connected /\ [Next]_vars => Connected'
<1> SUFFICES ASSUME TypeOK, Connected, [Next]_vars PROVE Connected'
  OBVIOUS
<1> USE SocketsType DEF TypeOK, Connected
<1>1. ASSUME \A s \in Sockets : sock[s] # "new" => sock'[s] # "new",
             session' \in {session, None}, requests' \subseteq requests, ws' = ws
      PROVE  Connected'
  BY <1>1
<1>2. ASSUME NEW s \in Sockets, SocketStep(s) PROVE Connected'
  <2>1. CASE Connect(s)
    BY <2>1 DEF Connect, coreVars
  <2>2. CASE Authenticate(s)
    BY <2>2 DEF Authenticate, Replace, agentVars
  <2>3. CASE AuthFails(s)
    BY <2>3 DEF AuthFails, coreVars, agentVars
  <2>4. CASE SocketCloses(s)
    BY <1>1, <2>4 DEF SocketCloses, DropDevice, agentVars
  <2> QED
    BY <1>2, <2>1, <2>2, <2>3, <2>4 DEF SocketStep
<1>3. ASSUME NEW r \in Rpcs, RpcStep(r) PROVE Connected'
  <2>1. CASE Dispatch(r)
    BY <2>1 DEF Dispatch, Online
  <2>2. CASE SendFails(r) \/ RpcTimeout(r)
    BY <1>1, <2>2 DEF SendFails, RpcTimeout, agentVars
  <2>3. CASE Receive(r) \/ Finish(r) \/ StopWaiting(r) \/ OrphanEnds(r)
    BY <1>1, <2>3 DEF Receive, Finish, StopWaiting, OrphanEnds, coreVars
  <2> QED
    BY <1>3, <2>1, <2>2, <2>3 DEF RpcStep
<1>4. ASSUME NEW m \in replies, Respond(m) PROVE Connected'
  BY <1>1, <1>4 DEF Respond
<1>5. ASSUME NEW u \in Users, UserStep(u) PROVE Connected'
  BY <1>1, <1>5 DEF UserStep, SetShare, AcquireLock, ReleaseLock, coreVars, agentVars
<1>6. CASE AgentLosesSocket
  BY <1>1, <1>6 DEF AgentLosesSocket, coreVars
<1>7. CASE Unpair
  <2>1. \A s \in Sockets : sock[s] # "new" => sock'[s] # "new"
    BY <1>7 DEF Unpair
  <2> QED
    BY <1>1, <1>7, <2>1 DEF Unpair, DropDevice, agentVars
<1>8. CASE Enroll \/ Tick
  BY <1>1, <1>8 DEF Enroll, Tick, coreVars, agentVars
<1>9. CASE CoreRestart
  BY <1>1, <1>9 DEF CoreRestart
<1>10. CASE UNCHANGED vars
  BY <1>10 DEF vars, coreVars, agentVars
<1> QED
  BY <1>2, <1>3, <1>4, <1>5, <1>6, <1>7, <1>8, <1>9, <1>10 DEF Next

(* A request travels to the Agent once, and a reply to it comes when the
   Agent is done or has stopped waiting: every step keeps SentOnce. *)
LEMMA SentOnceStep == TypeOK /\ SentOnce /\ [Next]_vars => SentOnce'
<1> SUFFICES ASSUME TypeOK, SentOnce, [Next]_vars PROVE SentOnce'
  OBVIOUS
<1> USE UsersType, CallerType, NamesType DEF TypeOK
<1>1. ASSUME NEW S, NEW why \in Causes, Waive(S, why), NEW q \in Rpcs
      PROVE  waiver[q] # None => waiver'[q] # None
  BY <1>1 DEF Waive
<1>2. ASSUME NEW S, NEW a \in Answers, SettleAll(S, a), NEW q \in Rpcs
      PROVE  at[q] # "idle" => at'[q] # "idle"
  BY <1>2 DEF SettleAll, Answers, Whats
<1>3. ASSUME NEW r \in Rpcs, NEW a \in Answers, at[r] # "idle", Settle(r, a), NEW q \in Rpcs
      PROVE  at[q] = "idle" <=> at'[q] = "idle"
  BY <1>3 DEF Settle, Answers, Whats
(* The Core's bookkeeping changes nothing here *)
<1>4. ASSUME \A q \in Rpcs : at'[q] = "idle" => at[q] = "idle",
             \A q \in Rpcs : at[q] # "idle" => at'[q] # "idle",
             \A q \in Rpcs : waiver[q] # None => waiver'[q] # None,
             requests' \subseteq requests, replies' \subseteq replies, work' = work
      PROVE  SentOnce'
  BY <1>4 DEF SentOnce
<1>5. "session" \in Causes /\ "revoked" \in Causes /\ "released" \in Causes
      /\ "expired" \in Causes /\ "restart" \in Causes /\ "agent" \in Causes
  BY DEF Causes
<1>6. /\ "disconnected" \in Answers /\ "lost" \in Answers /\ "unsent" \in Answers
      /\ "timeout" \in Answers /\ "revoked" \in Answers /\ Whats \subseteq Answers
  BY DEF Answers, Whats
<1>7. ASSUME NEW s \in Sockets, DropDevice(s), requests' = requests, replies' = replies, work' = work
      PROVE  SentOnce'
  BY <1>1, <1>2, <1>4, <1>5, <1>6, <1>7 DEF DropDevice, SettleAll
<1>8. ASSUME NEW s \in Sockets, SocketStep(s) PROVE SentOnce'
  BY <1>4, <1>7, <1>8
  DEF SocketStep, Connect, Authenticate, AuthFails, SocketCloses, coreVars, agentVars
<1>9. ASSUME NEW r \in Rpcs, RpcStep(r) PROVE SentOnce'
  <2>1. CASE Dispatch(r)
    <3>1. at' = [at EXCEPT ![r] = "pending"] /\ at[r] = "idle" /\ requests' = requests \cup {r}
          /\ UNCHANGED <<replies, work, waiver>>
      BY <2>1 DEF Dispatch
    <3> QED
      BY <3>1 DEF SentOnce
  <2>2. CASE SendFails(r)
    BY <1>3, <1>6, <2>2 DEF SendFails, Over, SentOnce
  <2>3. CASE RpcTimeout(r)
    BY <1>3, <1>4, <1>6, <2>3 DEF RpcTimeout, agentVars
  <2>4. CASE Receive(r)
    <3>1. work' = [work EXCEPT ![r] = "running"] /\ r \in requests /\ requests' = requests \ {r}
          /\ UNCHANGED <<at, replies, waiver>>
      BY <2>4 DEF Receive, coreVars
    <3> QED
      BY <3>1 DEF SentOnce
  <2>5. ASSUME NEW w \in Whats, Reply(r, w), NEW m \in replies'
        PROVE  m \in replies \/ m.call = r
    BY <2>5 DEF Reply
  <2>6. CASE Finish(r)
    <3>1. work[r] = "running" /\ work' = [work EXCEPT ![r] = "none"] /\ UNCHANGED <<at, requests>>
      BY <2>6 DEF Finish, coreVars
    <3>2. \A m \in replies' : m \in replies \/ m.call = r
      BY <2>5, <2>6 DEF Finish
    <3>3. \A q \in Rpcs : q # r => waiver'[q] = waiver[q]
      BY <2>6 DEF Finish, Over
    <3>4. at[r] # "idle" /\ r \notin requests
      BY <3>1 DEF SentOnce
    <3> QED
      BY <3>1, <3>2, <3>3, <3>4 DEF SentOnce
  <2>7. CASE StopWaiting(r)
    <3>1. work[r] = "running" /\ work' = [work EXCEPT ![r] = "orphan"] /\ UNCHANGED <<at, requests>>
      BY <2>7 DEF StopWaiting, coreVars
    <3>2. "answer" \in Whats
      BY DEF Whats
    <3>3. \A m \in replies' : m \in replies \/ m.call = r
      BY <2>5, <2>7, <3>2 DEF StopWaiting
    <3>4. \A q \in Rpcs : waiver[q] # None => waiver'[q] # None
      BY <1>1, <1>5, <2>7 DEF StopWaiting
    <3>5. Kind[r] = "control" => waiver'[r] # None
      BY <2>7 DEF StopWaiting, Waive, Underway, None
    <3>6. at[r] # "idle" /\ r \notin requests
      BY <3>1 DEF SentOnce
    <3> QED
      BY <3>1, <3>3, <3>4, <3>5, <3>6 DEF SentOnce
  <2>8. CASE OrphanEnds(r)
    <3>1. work[r] = "orphan" /\ work' = [work EXCEPT ![r] = "none"] /\ UNCHANGED <<at, requests, replies>>
      BY <2>8 DEF OrphanEnds, coreVars
    <3>2. \A q \in Rpcs : q # r => waiver'[q] = waiver[q]
      BY <2>8 DEF OrphanEnds, Over
    <3> QED
      BY <3>1, <3>2 DEF SentOnce
  <2> QED
    BY <1>9, <2>1, <2>2, <2>3, <2>4, <2>6, <2>7, <2>8 DEF RpcStep
<1>10. ASSUME NEW m \in replies, Respond(m) PROVE SentOnce'
  <2>1. m.call \in Rpcs /\ m.what \in Answers
    BY <1>6
  <2>2. at' = at \/ (at[m.call] # "idle" /\ \E a \in Answers : Settle(m.call, a))
    BY <1>6, <1>10, <2>1 DEF Respond
  <2>3. /\ \A q \in Rpcs : at'[q] = "idle" => at[q] = "idle"
        /\ \A q \in Rpcs : at[q] # "idle" => at'[q] # "idle"
    BY <1>3, <2>1, <2>2
  <2> QED
    BY <1>4, <1>10, <2>3 DEF Respond
<1>11. ASSUME NEW u \in Users, UserStep(u) PROVE SentOnce'
  BY <1>1, <1>4, <1>5, <1>11
  DEF UserStep, SetShare, AcquireLock, ReleaseLock, coreVars, agentVars
<1>12. CASE AgentLosesSocket
  <2>1. \A q \in Rpcs : q \notin requests \/ q \in requests' => waiver'[q] = waiver[q]
    BY <1>12 DEF AgentLosesSocket, Over
  <2> QED
    BY <1>12, <2>1 DEF AgentLosesSocket, SentOnce, coreVars
<1>13. CASE Unpair
  BY <1>1, <1>4, <1>5, <1>7, <1>13 DEF Unpair, agentVars
<1>14. CASE Enroll
  BY <1>4, <1>14 DEF Enroll, coreVars, agentVars
<1>15. CASE Tick
  BY <1>1, <1>4, <1>5, <1>15 DEF Tick, agentVars
<1>16. CASE CoreRestart
  BY <1>1, <1>2, <1>4, <1>5, <1>6, <1>16 DEF CoreRestart, SettleAll
<1>17. CASE UNCHANGED vars
  BY <1>4, <1>17 DEF vars, coreVars, agentVars
<1> QED
  BY <1>8, <1>9, <1>10, <1>11, <1>12, <1>13, <1>14, <1>15, <1>16, <1>17 DEF Next

-----------------------------------------------------------------------------
(* While the device has a row of an account that may operate it, whatever
   still has its reservation belongs to that account. *)
LEMMA OneHolder ==
    ASSUME TypeOK, Covered, NEW q \in Rpcs, Underway(q), waiver[q] = None
    PROVE  lock # NoLock /\ ~Available /\ lock.user = Caller[q]
<1> USE UsersType, CallerType
<1>1. lock.user = Caller[q] /\ CanOperate(lock.user) /\ Caller[q] # None
  BY DEF Covered
<1> QED
  BY <1>1 DEF NoLock, Available

(* Every step keeps Covered: a reservation goes to another account, or goes
   away, only when whatever ran under it has lost it. *)
LEMMA CoveredStep == TypeOK /\ Covered /\ SentOnce /\ Connected /\ [Next]_vars => Covered'
<1> SUFFICES ASSUME TypeOK, Covered, SentOnce, Connected, [Next]_vars PROVE Covered'
  OBVIOUS
<1> USE UsersType, CallerType, NamesType, SocketsType DEF TypeOK
<1>1. ASSUME NEW S, NEW why \in Causes, Waive(S, why), NEW q \in Rpcs, Underway(q)
      PROVE  /\ q \in S => waiver'[q] # None
             /\ waiver'[q] = None => waiver[q] = None
  BY <1>1 DEF Waive, Causes, None
<1>2. ASSUME NEW S, Over(S), NEW q \in Rpcs, q \notin S PROVE waiver'[q] = waiver[q]
  BY <1>2 DEF Over
<1>3. "session" \in Causes /\ "revoked" \in Causes /\ "released" \in Causes
      /\ "expired" \in Causes /\ "restart" \in Causes /\ "agent" \in Causes
  BY DEF Causes
(* the row stands and no account loses a right *)
<1>4. ASSUME lock' = lock, \A u \in Users : CanOperate(u) => CanOperate(u)',
             \A q \in Rpcs : Underway(q)' /\ waiver'[q] = None => Underway(q) /\ waiver[q] = None
      PROVE  Covered'
  BY <1>4 DEF Covered
(* everything under way loses its reservation *)
<1>5. ASSUME \A q \in Rpcs : Underway(q)' => waiver'[q] # None
      PROVE  Covered'
  BY <1>5 DEF Covered
(* the row of r goes, and r is over *)
<1>6. ASSUME NEW r \in Rpcs, ReleaseFinished(r), UNCHANGED <<active, share>>,
             Underway(r)' => waiver'[r] # None,
             \A q \in Rpcs : q # r /\ Underway(q)' /\ waiver'[q] = None
                                => Underway(q) /\ waiver[q] = None
      PROVE  Covered'
  <2>1. \A u \in Users : CanOperate(u) => CanOperate(u)'
    BY <1>6 DEF CanOperate, Role
  <2>2. CASE lock.task = r
    <3>1. \A q \in Rpcs : q # r => ~(Underway(q) /\ waiver[q] = None)
      BY <2>2 DEF Covered
    <3> QED
      BY <1>5, <1>6, <3>1
  <2>3. CASE lock.task # r
    <3>1. lock' = lock
      BY <1>6, <2>3 DEF ReleaseFinished
    <3> QED
      BY <1>6, <2>1, <3>1 DEF Covered
  <2> QED
    BY <2>2, <2>3
<1>7. ASSUME UNCHANGED <<active, share>>, NEW u \in Users
      PROVE  CanOperate(u)' = CanOperate(u)
  BY <1>7 DEF CanOperate, Role
<1>8. ASSUME NEW s \in Sockets, DropDevice(s), UNCHANGED <<ws, agentVars>>,
             session = s \/ UNCHANGED <<active, share>>
      PROVE  Covered'
  <2>1. \A q \in Rpcs : Underway(q)' => Underway(q)
    BY <1>8 DEF Underway, agentVars
  <2>2. CASE session = s
    BY <1>1, <1>3, <1>5, <1>8, <2>1, <2>2 DEF DropDevice
  <2>3. CASE session # s
    BY <1>4, <1>7, <1>8, <2>1, <2>3 DEF DropDevice
  <2> QED
    BY <2>2, <2>3
<1>9. ASSUME NEW s \in Sockets, SocketStep(s) PROVE Covered'
  <2>1. CASE Connect(s)
    <3>1. \A q \in requests : ws[q] # s
      BY <2>1 DEF Connect, Connected
    <3>2. \A q \in Rpcs : Underway(q)' => Underway(q)
      BY <2>1, <3>1 DEF Connect, Underway, coreVars
    <3> QED
      BY <1>4, <1>7, <2>1, <3>2 DEF Connect, coreVars
  <2>2. CASE Authenticate(s) \/ AuthFails(s)
    <3>1. \A q \in Rpcs : Underway(q)' => Underway(q)
      BY <2>2 DEF Authenticate, AuthFails, Underway, coreVars, agentVars
    <3> QED
      BY <1>4, <1>7, <2>2, <3>1 DEF Authenticate, AuthFails, coreVars
  <2>3. CASE SocketCloses(s)
    BY <1>8, <2>3 DEF SocketCloses
  <2> QED
    BY <1>9, <2>1, <2>2, <2>3 DEF SocketStep
<1>10. ASSUME NEW r \in Rpcs, RpcStep(r) PROVE Covered'
  <2>1. CASE Dispatch(r)
    <3>1. \A q \in Rpcs : q # r /\ Underway(q)' => Underway(q)
      BY <2>1 DEF Dispatch, Underway
    <3>2. UNCHANGED <<active, share, waiver>>
      BY <2>1 DEF Dispatch
    <3>3. CASE Kind[r] # "control" /\ UNCHANGED lock
      <4>1. ~Underway(r)'
        BY <3>3 DEF Underway
      <4> QED
        BY <1>4, <1>7, <3>1, <3>2, <3>3, <4>1
    <3>4. CASE Kind[r] = "control" /\ Available /\ Reserve(Caller[r], r)
      <4>1. CanOperate(Caller[r])'
        BY <1>7, <2>1, <3>2, <3>4 DEF Dispatch, Permitted
      <4>2. \A q \in Rpcs : ~(Underway(q) /\ waiver[q] = None)
        BY <3>4, OneHolder
      <4>3. lock'.user = Caller[r] /\ lock'.task = r
        BY <3>4 DEF Reserve
      <4> QED
        BY <3>1, <3>2, <4>1, <4>2, <4>3 DEF Covered
    <3>5. CASE Kind[r] = "control" /\ lock.user = Caller[r] /\ lock.task \in Tasks /\ UNCHANGED lock
      <4>1. CanOperate(Caller[r])'
        BY <1>7, <2>1, <3>2, <3>5 DEF Dispatch, Permitted
      <4>2. \A u \in Users : CanOperate(u)' = CanOperate(u)
        BY <1>7, <3>2
      <4> QED
        BY <3>1, <3>2, <3>5, <4>1, <4>2 DEF Covered
    <3> QED
      BY <2>1, <3>3, <3>4, <3>5 DEF Dispatch
  <2>2. CASE SendFails(r)
    <3>1. ~Underway(r)'
      BY <2>2 DEF SendFails, SentOnce, Underway
    <3>2. \A q \in Rpcs : q # r /\ Underway(q)' => Underway(q)
      BY <2>2 DEF SendFails, Underway
    <3> QED
      BY <1>2, <1>6, <2>2, <3>1, <3>2 DEF SendFails, ReleaseUnsent
  <2>3. CASE RpcTimeout(r)
    <3>1. \A q \in Rpcs : Underway(q)' => Underway(q)
      BY <2>3 DEF RpcTimeout, Underway, agentVars
    <3> QED
      BY <1>4, <1>7, <2>3, <3>1 DEF RpcTimeout
  <2>4. CASE Receive(r)
    <3>1. \A q \in Rpcs : Underway(q)' => Underway(q)
      BY <2>4 DEF Receive, Underway, coreVars
    <3> QED
      BY <1>4, <1>7, <2>4, <3>1 DEF Receive, coreVars
  <2>5. CASE Finish(r) \/ OrphanEnds(r)
    <3>1. ~Underway(r)'
      BY <2>5 DEF Finish, OrphanEnds, SentOnce, Underway
    <3>2. \A q \in Rpcs : q # r /\ Underway(q)' => Underway(q)
      BY <2>5 DEF Finish, OrphanEnds, Underway, coreVars
    <3>3. lock' = lock /\ UNCHANGED <<active, share>> /\ Over({r})
      BY <2>5 DEF Finish, OrphanEnds, coreVars
    <3> QED
      BY <1>2, <1>4, <1>7, <3>1, <3>2, <3>3
  <2>6. CASE StopWaiting(r)
    <3>1. \A q \in Rpcs : Underway(q)' => Underway(q)
      BY <2>6 DEF StopWaiting, Underway, coreVars
    <3> QED
      BY <1>1, <1>3, <1>4, <1>7, <2>6, <3>1 DEF StopWaiting, coreVars
  <2> QED
    BY <1>10, <2>1, <2>2, <2>3, <2>4, <2>5, <2>6 DEF RpcStep
<1>11. ASSUME NEW m \in replies, Respond(m) PROVE Covered'
  <2>1. m.call \in Rpcs
    OBVIOUS
  <2>2. \A q \in Rpcs : Underway(q)' = Underway(q) /\ waiver'[q] = waiver[q]
    BY <1>11 DEF Respond, Underway
  <2>3. Underway(m.call) => waiver[m.call] # None
    BY <1>11, <2>1 DEF SentOnce, Underway
  <2>4. UNCHANGED <<active, share>>
    BY <1>11 DEF Respond
  <2>5. CASE UNCHANGED lock
    BY <1>4, <1>7, <2>2, <2>4, <2>5
  <2>6. CASE ReleaseFinished(m.call)
    BY <1>6, <2>1, <2>2, <2>3, <2>4, <2>6
  <2> QED
    BY <1>11, <2>5, <2>6 DEF Respond
<1>12. ASSUME NEW u \in Users, UserStep(u) PROVE Covered'
  <2>1. ASSUME NEW x \in Shares, SetShare(u, x) PROVE Covered'
    <3>1. /\ lock' = lock /\ share' = [share EXCEPT ![u] = x] /\ active' = active /\ u # Owner
          /\ \A q \in Rpcs : Underway(q)' = Underway(q)
      BY <2>1 DEF SetShare, Underway, coreVars, agentVars
    <3>2. \A v \in Users : v # u => CanOperate(v)' = CanOperate(v)
      BY <3>1 DEF CanOperate, Role
    <3>3. CASE x = "operator"
      <4>1. CanOperate(u) => CanOperate(u)'
        BY <3>1, <3>3 DEF CanOperate, Role
      <4> QED
        BY <1>4, <2>1, <3>1, <3>2, <3>3, <4>1 DEF SetShare
    <3>4. CASE x # "operator"
      <4>1. Waive(Of(u), "revoked")
        BY <2>1, <3>4 DEF SetShare
      <4>2. \A q \in Rpcs : Underway(q) /\ waiver'[q] = None => waiver[q] = None /\ Caller[q] # u
        BY <1>1, <1>3, <4>1 DEF Of
      <4> QED
        BY <3>1, <3>2, <4>2 DEF Covered
    <3> QED
      BY <3>3, <3>4
  <2>2. ASSUME NEW t \in Tasks \cup Rpcs, AcquireLock(u, t) PROVE Covered'
    <3>1. /\ lock'.user = u /\ lock'.task = t
          /\ \A q \in Rpcs : Underway(q)' = Underway(q)
          /\ UNCHANGED <<active, share, waiver>>
      BY <2>2 DEF AcquireLock, Reserve, Underway, agentVars
    <3>2. CASE lock = NoLock
      BY <1>5, <3>1, <3>2, OneHolder
    <3>3. CASE lock.user = u /\ lock.task = t
      <4>1. \A v \in Users : CanOperate(v)' = CanOperate(v)
        BY <1>7, <3>1
      <4> QED
        BY <3>1, <3>3, <4>1 DEF Covered
    <3> QED
      BY <2>2, <3>2, <3>3 DEF AcquireLock
  <2>3. CASE ReleaseLock(u)
    <3>1. \A q \in Rpcs : Underway(q)' = Underway(q)
      BY <2>3 DEF ReleaseLock, Underway, agentVars
    <3>2. \A q \in Rpcs : Underway(q) /\ waiver[q] = None => q \in Of(u)
      BY <2>3, OneHolder DEF ReleaseLock, Of
    <3> QED
      BY <1>1, <1>3, <1>5, <2>3, <3>1, <3>2 DEF ReleaseLock
  <2> QED
    BY <1>12, <2>1, <2>2, <2>3 DEF UserStep
<1>13. CASE AgentLosesSocket
  <2>1. \A q \in Rpcs : Underway(q)' => Underway(q) /\ q \notin requests \ requests'
    BY <1>13 DEF AgentLosesSocket, Underway, SentOnce, Connected, coreVars
  <2> QED
    BY <1>2, <1>4, <1>7, <1>13, <2>1 DEF AgentLosesSocket, coreVars
<1>14. CASE Unpair
  <2>1. CASE session = None
    <3>1. \A q \in Rpcs : Underway(q)' = Underway(q)
      BY <1>14 DEF Unpair, Underway, agentVars
    <3> QED
      BY <1>1, <1>3, <1>5, <1>14, <2>1, <3>1 DEF Unpair
  <2>2. CASE session # None
    BY <1>8, <1>14, <2>2 DEF Unpair
  <2> QED
    BY <2>1, <2>2
<1>15. CASE Enroll
  <2>1. \A u \in Users : ~CanOperate(u)
    BY <1>15 DEF Enroll, CanOperate, Role
  <2>2. \A q \in Rpcs : Underway(q)' = Underway(q) /\ waiver'[q] = waiver[q]
    BY <1>15 DEF Enroll, Underway, coreVars, agentVars
  <2> QED
    BY <1>5, <2>1, <2>2 DEF Covered
<1>16. CASE Tick
  <2>1. \A q \in Rpcs : Underway(q)' = Underway(q)
    BY <1>16 DEF Tick, Underway, agentVars
  <2>2. \A u \in Users : CanOperate(u)' = CanOperate(u)
    BY <1>7, <1>16 DEF Tick
  <2>3. CASE lock.left > 1
    <3>1. lock'.user = lock.user /\ lock'.task = lock.task /\ waiver' = waiver
      BY <1>16, <2>3 DEF Tick
    <3> QED
      BY <2>1, <2>2, <3>1 DEF Covered
  <2>4. CASE ~(lock.left > 1)
    <3>1. Waive(Of(lock.user), "expired")
      BY <1>16, <2>4 DEF Tick
    <3>2. \A q \in Rpcs : Underway(q) /\ waiver[q] = None => q \in Of(lock.user)
      BY OneHolder DEF Of
    <3> QED
      BY <1>1, <1>3, <1>5, <2>1, <3>1, <3>2
  <2> QED
    BY <2>3, <2>4
<1>17. CASE CoreRestart
  <2>1. \A q \in Rpcs : Underway(q)' = Underway(q)
    BY <1>17 DEF CoreRestart, Underway
  <2> QED
    BY <1>1, <1>3, <1>5, <1>17, <2>1 DEF CoreRestart
<1>18. CASE UNCHANGED vars
  BY <1>4, <1>7, <1>18 DEF vars, coreVars, agentVars, Underway
<1> QED
  BY <1>9, <1>10, <1>11, <1>12, <1>13, <1>14, <1>15, <1>16, <1>17, <1>18 DEF Next

-----------------------------------------------------------------------------
(* Every step keeps Attached: a socket that stops being the session's is told
   to close or is closed, and takes what waits on it and the row with it. *)
LEMMA AttachedStep == TypeOK /\ Attached /\ [Next]_vars => Attached'
<1> SUFFICES ASSUME TypeOK, Attached, [Next]_vars PROVE Attached'
  OBVIOUS
<1> USE UsersType, CallerType, NamesType, SocketsType DEF TypeOK
(* sockets and session stand, nothing begins to wait, no row appears *)
<1>1. ASSUME UNCHANGED <<sock, session, ws>>, \A r \in Rpcs : at'[r] = "pending" => at[r] = "pending",
             lock = NoLock => lock' = NoLock
      PROVE  Attached'
  BY <1>1 DEF Attached
<1>2. ASSUME NEW S, NEW a \in Answers, SettleAll(S, a), NEW r \in Rpcs, at'[r] = "pending"
      PROVE  at[r] = "pending" /\ r \notin S
  BY <1>2 DEF SettleAll, Answers, Whats
<1>3. ASSUME NEW r \in Rpcs, NEW a \in Answers, Settle(r, a), NEW q \in Rpcs, at'[q] = "pending"
      PROVE  at[q] = "pending"
  BY <1>3 DEF Settle, Answers, Whats
<1>4. ASSUME NEW r \in Rpcs, ReleaseFinished(r), lock = NoLock PROVE lock' = NoLock
  BY <1>4 DEF ReleaseFinished
<1>5. /\ "disconnected" \in Answers /\ "lost" \in Answers /\ "unsent" \in Answers
      /\ "timeout" \in Answers /\ "revoked" \in Answers /\ Whats \subseteq Answers
  BY DEF Answers, Whats
<1>6. ASSUME NEW s \in Sockets, SocketStep(s) PROVE Attached'
  <2>1. CASE Connect(s) \/ AuthFails(s)
    <3>1. /\ UNCHANGED <<session, lock, at, ws>> /\ sock[s] \in {"new", "open"}
          /\ sock' = [sock EXCEPT ![s] = "open"] \/ sock' = [sock EXCEPT ![s] = "closed"]
      BY <2>1 DEF Connect, AuthFails, coreVars
    <3> QED
      BY <3>1 DEF Attached
  <2>2. CASE Authenticate(s)
    <3>1. /\ session' = s /\ UNCHANGED <<at, ws>> /\ sock[s] = "open"
          /\ \A x \in Sockets : sock'[x] = IF x = s THEN "live"
                 ELSE IF x = session /\ sock[x] = "live" THEN "closing" ELSE sock[x]
      BY <2>2 DEF Authenticate, Replace
    <3> QED
      BY <3>1 DEF Attached
  <2>3. CASE SocketCloses(s)
    <3>1. /\ sock' = [sock EXCEPT ![s] = "closed"] /\ ws' = ws
          /\ \/ session = s /\ session' = None /\ lock' = NoLock
             \/ session # s /\ UNCHANGED <<session, lock>>
      BY <2>3 DEF SocketCloses, DropDevice
    <3>2. \A r \in Rpcs : at'[r] = "pending" => at[r] = "pending" /\ ws[r] # s
      BY <1>2, <1>5, <2>3 DEF SocketCloses, DropDevice
    <3> QED
      BY <3>1, <3>2 DEF Attached
  <2> QED
    BY <1>6, <2>1, <2>2, <2>3 DEF SocketStep
<1>7. ASSUME NEW r \in Rpcs, RpcStep(r) PROVE Attached'
  <2>1. CASE Dispatch(r)
    <3>1. /\ session # None /\ UNCHANGED <<sock, session>>
          /\ at' = [at EXCEPT ![r] = "pending"] /\ ws' = [ws EXCEPT ![r] = session]
      BY <2>1 DEF Dispatch, Online
    <3> QED
      BY <3>1 DEF Attached
  <2>2. CASE SendFails(r) \/ RpcTimeout(r)
    <3>1. \A q \in Rpcs : at'[q] = "pending" => at[q] = "pending"
      BY <1>3, <1>5, <2>2 DEF SendFails, RpcTimeout
    <3> QED
      BY <1>1, <1>4, <2>2, <3>1 DEF SendFails, ReleaseUnsent, RpcTimeout
  <2>3. CASE Receive(r) \/ Finish(r) \/ StopWaiting(r) \/ OrphanEnds(r)
    BY <1>1, <2>3 DEF Receive, Finish, StopWaiting, OrphanEnds, coreVars
  <2> QED
    BY <1>7, <2>1, <2>2, <2>3 DEF RpcStep
<1>8. ASSUME NEW m \in replies, Respond(m) PROVE Attached'
  <2>1. m.call \in Rpcs /\ m.what \in Answers
    BY <1>5
  <2>2. \A q \in Rpcs : at'[q] = "pending" => at[q] = "pending"
    BY <1>3, <1>5, <1>8, <2>1 DEF Respond
  <2> QED
    BY <1>1, <1>4, <1>8, <2>1, <2>2 DEF Respond
<1>9. ASSUME NEW u \in Users, UserStep(u) PROVE Attached'
  <2>1. ASSUME NEW x \in Shares, SetShare(u, x) PROVE Attached'
    BY <1>1, <2>1 DEF SetShare, coreVars
  <2>2. ASSUME NEW t \in Tasks \cup Rpcs, AcquireLock(u, t) PROVE Attached'
    BY <2>2 DEF AcquireLock, Online, Attached
  <2>3. CASE ReleaseLock(u)
    BY <1>1, <2>3 DEF ReleaseLock
  <2> QED
    BY <1>9, <2>1, <2>2, <2>3 DEF UserStep
<1>10. CASE AgentLosesSocket \/ Enroll
  BY <1>1, <1>10 DEF AgentLosesSocket, Enroll, coreVars
<1>11. CASE Unpair
  <2>1. CASE session = None
    BY <1>1, <1>11, <2>1 DEF Unpair
  <2>2. CASE session # None
    <3>1. /\ sock' = [sock EXCEPT ![session] = "closing"] /\ ws' = ws
          /\ session' = None /\ lock' = NoLock
      BY <1>11, <2>2 DEF Unpair, DropDevice
    <3>2. \A r \in Rpcs : at'[r] = "pending" => at[r] = "pending"
      BY <1>2, <1>5, <1>11, <2>2 DEF Unpair, DropDevice
    <3> QED
      BY <2>2, <3>1, <3>2 DEF Attached
  <2> QED
    BY <2>1, <2>2
<1>12. CASE Tick
  <2>1. lock = NoLock => lock' = NoLock
    BY <1>12 DEF Tick, NoLock
  <2> QED
    BY <1>1, <1>12, <2>1 DEF Tick
<1>13. CASE CoreRestart
  <2>1. \A r \in Rpcs : at'[r] # "pending"
    BY <1>2, <1>5, <1>13 DEF CoreRestart
  <2>2. \A s \in Sockets : sock'[s] # "live"
    BY <1>13 DEF CoreRestart
  <2> QED
    BY <1>13, <2>1, <2>2 DEF CoreRestart, Attached
<1>14. CASE UNCHANGED vars
  BY <1>1, <1>14 DEF vars, coreVars
<1> QED
  BY <1>6, <1>7, <1>8, <1>9, <1>10, <1>11, <1>12, <1>13, <1>14 DEF Next

(* Every step keeps NoLeaseLeak: a request whose outcome is known takes its
   reservation with it, and nobody can reserve under a request's name anew. *)
LEMMA NoLeaseLeakStep == TypeOK /\ NoLeaseLeak /\ [Next]_vars => NoLeaseLeak'
<1> SUFFICES ASSUME TypeOK, NoLeaseLeak, [Next]_vars PROVE NoLeaseLeak'
  OBVIOUS
<1> USE UsersType, CallerType, NamesType, SocketsType DEF TypeOK
<1> DEFINE Unknown == {"pending", "timeout", "uncertain", "disconnected"}
(* the row stands, or goes, and no request becomes any better known *)
<1>1. ASSUME lock'.task \in {lock.task, None},
             \A r \in Rpcs : at[r] \in Unknown => at'[r] \in Unknown
      PROVE  NoLeaseLeak'
  BY <1>1 DEF NoLeaseLeak
<1>2. NoLock.task = None
  BY DEF NoLock
(* request r is settled, and its own row goes unless nobody knows *)
<1>3. ASSUME NEW r \in Rpcs, NEW a \in Answers, Settle(r, a),
             ReleaseFinished(r) \/ (a \in Unknown /\ UNCHANGED lock)
      PROVE  NoLeaseLeak'
  <2>1. \A q \in Rpcs : q # r => at'[q] = at[q]
    BY <1>3 DEF Settle
  <2>2. at'[r] = a
    BY <1>3 DEF Settle
  <2>3. CASE ReleaseFinished(r)
    BY <1>2, <2>1, <2>3 DEF ReleaseFinished, NoLeaseLeak
  <2>4. CASE a \in Unknown /\ UNCHANGED lock
    BY <2>1, <2>2, <2>4 DEF NoLeaseLeak
  <2> QED
    BY <1>3, <2>3, <2>4
<1>4. ASSUME NEW s \in Sockets, DropDevice(s) PROVE NoLeaseLeak'
  <2>1. \A r \in Rpcs : at[r] \in Unknown => at'[r] \in Unknown
    BY <1>4 DEF DropDevice, SettleAll
  <2> QED
    BY <1>1, <1>2, <1>4, <2>1 DEF DropDevice
<1>5. ASSUME NEW s \in Sockets, SocketStep(s) PROVE NoLeaseLeak'
  BY <1>1, <1>4, <1>5 DEF SocketStep, Connect, Authenticate, AuthFails, SocketCloses, coreVars
<1>6. ASSUME NEW r \in Rpcs, RpcStep(r) PROVE NoLeaseLeak'
  <2>1. CASE Dispatch(r)
    <3>1. at' = [at EXCEPT ![r] = "pending"] /\ (lock' = lock \/ Reserve(Caller[r], r))
      BY <2>1 DEF Dispatch
    <3> QED
      BY <3>1 DEF Reserve, NoLeaseLeak
  <2>2. CASE SendFails(r)
    <3>1. "unsent" \in Answers /\ Settle(r, "unsent") /\ ReleaseFinished(r)
      BY <2>2 DEF SendFails, ReleaseUnsent, Answers
    <3> QED
      BY <1>3, <3>1
  <2>3. CASE RpcTimeout(r)
    BY <1>3, <2>3 DEF RpcTimeout, Answers
  <2>4. CASE Receive(r) \/ Finish(r) \/ StopWaiting(r) \/ OrphanEnds(r)
    BY <1>1, <2>4 DEF Receive, Finish, StopWaiting, OrphanEnds, coreVars
  <2> QED
    BY <1>6, <2>1, <2>2, <2>3, <2>4 DEF RpcStep
<1>7. ASSUME NEW m \in replies, Respond(m) PROVE NoLeaseLeak'
  <2>1. m.call \in Rpcs /\ m.what \in Whats /\ "revoked" \in Answers /\ Whats \subseteq Answers
    BY DEF Answers, Whats
  <2>2. CASE UNCHANGED <<at, left, lock>>
    BY <1>1, <2>2
  <2>3. CASE Settle(m.call, "revoked") /\ ReleaseFinished(m.call)
    BY <1>3, <2>1, <2>3
  <2>4. CASE Settle(m.call, m.what) /\ (ReleaseFinished(m.call) \/ (m.what = "uncertain" /\ UNCHANGED lock))
    BY <1>3, <2>1, <2>4
  <2> QED
    BY <1>7, <2>2, <2>3, <2>4 DEF Respond
<1>8. ASSUME NEW u \in Users, UserStep(u) PROVE NoLeaseLeak'
  <2>1. ASSUME NEW x \in Shares, SetShare(u, x) PROVE NoLeaseLeak'
    BY <1>1, <2>1 DEF SetShare, coreVars
  <2>2. ASSUME NEW t \in Tasks \cup Rpcs, AcquireLock(u, t) PROVE NoLeaseLeak'
    BY <2>2 DEF AcquireLock, Reserve, NoLeaseLeak
  <2>3. CASE ReleaseLock(u)
    BY <1>1, <1>2, <2>3 DEF ReleaseLock
  <2> QED
    BY <1>8, <2>1, <2>2, <2>3 DEF UserStep
<1>9. CASE AgentLosesSocket \/ Enroll
  BY <1>1, <1>9 DEF AgentLosesSocket, Enroll, coreVars
<1>10. CASE Unpair
  BY <1>1, <1>4, <1>10 DEF Unpair
<1>11. CASE Tick
  BY <1>1, <1>2, <1>11 DEF Tick
<1>12. CASE CoreRestart
  BY <1>2, <1>12 DEF CoreRestart, NoLeaseLeak
<1>13. CASE UNCHANGED vars
  BY <1>1, <1>13 DEF vars, coreVars
<1> QED
  BY <1>5, <1>6, <1>7, <1>8, <1>9, <1>10, <1>11, <1>12, <1>13 DEF Next

(* The invariant holds at the start and is kept by every step of the Core,
   the Agent, the accounts and the clock. *)
THEOREM Invariance == Spec => []Inv
<1>1. Init => Inv
  <2> USE UsersType, TimesType
  <2>1. Init => TypeOK
    BY DEF Init, TypeOK, Locks, Shares
  <2>2. Init => Covered /\ SentOnce /\ Connected
    BY DEF Init, Covered, SentOnce, Connected, Underway
  <2>3. Init => Attached /\ NoLeaseLeak
    BY NamesType DEF Init, Attached, NoLeaseLeak, NoLock
  <2> QED
    BY <2>1, <2>2, <2>3 DEF Inv
<1>2. Inv /\ [Next]_vars => Inv'
  BY TypeStep, CoveredStep, SentOnceStep, ConnectedStep, AttachedStep, NoLeaseLeakStep DEF Inv
<1> QED
  BY <1>1, <1>2, PTL DEF Spec

(* Every variable of the device's control state keeps its type in every
   reachable state. *)
THEOREM TypeCorrect == Spec => []TypeOK
<1>1. Inv => TypeOK
  BY DEF Inv
<1> QED
  BY <1>1, Invariance, PTL

(* Whatever the accounts, requests and sockets do, mutating requests of two
   accounts are under way together only if one of them lost its reservation. *)
THEOREM ExclusiveHolds == Spec => []Exclusive
<1>1. Inv => Exclusive
  BY OneHolder DEF Inv, Exclusive, Conflict
<1> QED
  BY <1>1, Invariance, PTL

(* At most one authenticated connection carries traffic, no request waits on
   a socket that is closed, and no reservation outlives its session, however
   the Agent's sockets are replaced and closed and the Core restarted. *)
THEOREM NothingOrphanedHolds == Spec => []NothingOrphaned
<1>1. Inv => NothingOrphaned
  BY DEF Inv, Attached, NothingOrphaned
<1> QED
  BY <1>1, Invariance, PTL

(* The reservation a request took for itself outlives it only if nobody knows
   what became of it. *)
THEOREM NoLeaseLeakHolds == Spec => []NoLeaseLeak
<1>1. Inv => NoLeaseLeak
  BY DEF Inv
<1> QED
  BY <1>1, Invariance, PTL

(* No step of another socket, the close of a replaced one included, ends the
   session of a live socket or rejects what waits on it. *)
THEOREM StaleSocketHarmlessHolds == Spec => StaleSocketHarmless
<1> DEFINE Harmless(s) ==
      sock[s] = "live" /\ sock'[s] = "live" =>
         /\ session = s => session' = s
         /\ \A r \in Rpcs : at[r] = "pending" /\ ws[r] = s => at'[r] # "disconnected"
<1>1. ASSUME TypeOK, Attached, [Next]_vars, NEW s \in Sockets PROVE Harmless(s)
  <2> USE CallerType, SocketsType DEF TypeOK
  <2> SUFFICES ASSUME sock[s] = "live", sock'[s] = "live"
      PROVE /\ session = s => session' = s
            /\ \A r \in Rpcs : at[r] = "pending" /\ ws[r] = s => at'[r] # "disconnected"
    OBVIOUS
  <2>0. session = s
    BY <1>1 DEF Attached
  <2>1. ASSUME NEW r \in Rpcs, NEW a \in Answers \ {"disconnected"}, Settle(r, a), NEW q \in Rpcs
        PROVE  at[q] = "pending" => at'[q] # "disconnected"
    BY <2>1 DEF Settle
  <2>2. /\ "lost" \in Answers /\ "unsent" \in Answers /\ "timeout" \in Answers
        /\ "revoked" \in Answers /\ Whats \subseteq Answers \ {"disconnected"}
    BY DEF Answers, Whats
  <2>3. ASSUME NEW x \in Sockets, SocketStep(x)
        PROVE  session' = s /\ \A r \in Rpcs : at[r] = "pending" /\ ws[r] = s => at'[r] # "disconnected"
    <3>1. CASE Connect(x) \/ AuthFails(x)
      BY <2>0, <3>1 DEF Connect, AuthFails, coreVars
    <3>2. CASE Authenticate(x)
      BY <1>1, <2>0, <3>2 DEF Authenticate, Replace
    <3>3. CASE SocketCloses(x)
      <4>1. x # s
        BY <1>1, <3>3 DEF SocketCloses
      <4> QED
        BY <2>0, <3>3, <4>1 DEF SocketCloses, DropDevice, SettleAll
    <3> QED
      BY <2>3, <3>1, <3>2, <3>3 DEF SocketStep
  <2>4. ASSUME NEW r \in Rpcs, RpcStep(r)
        PROVE  session' = session /\ \A q \in Rpcs : at[q] = "pending" => at'[q] # "disconnected"
    <3>1. CASE Dispatch(r)
      BY <3>1 DEF Dispatch
    <3>2. CASE SendFails(r) \/ RpcTimeout(r)
      BY <2>1, <2>2, <3>2 DEF SendFails, RpcTimeout
    <3>3. CASE Receive(r) \/ Finish(r) \/ StopWaiting(r) \/ OrphanEnds(r)
      BY <3>3 DEF Receive, Finish, StopWaiting, OrphanEnds, coreVars
    <3> QED
      BY <2>4, <3>1, <3>2, <3>3 DEF RpcStep
  <2>5. ASSUME NEW m \in replies, Respond(m)
        PROVE  session' = session /\ \A q \in Rpcs : at[q] = "pending" => at'[q] # "disconnected"
    <3>1. m.call \in Rpcs /\ m.what \in Answers \ {"disconnected"}
          /\ "revoked" \in Answers \ {"disconnected"}
      BY <1>1, <2>2
    <3>2. session' = session
          /\ (at' = at \/ Settle(m.call, "revoked") \/ Settle(m.call, m.what))
      BY <2>5 DEF Respond
    <3> QED
      BY <2>1, <3>1, <3>2
  <2>6. ASSUME NEW u \in Users, UserStep(u) PROVE UNCHANGED <<session, at>>
    BY <2>6 DEF UserStep, SetShare, AcquireLock, ReleaseLock, coreVars
  <2>7. ~Unpair
    BY <1>1, <2>0 DEF Unpair
  <2>8. ~CoreRestart
    BY <1>1 DEF CoreRestart
  <2>9. CASE AgentLosesSocket \/ Enroll \/ Tick \/ UNCHANGED vars
    BY <2>9 DEF AgentLosesSocket, Enroll, Tick, vars, coreVars
  <2> QED
    BY <1>1, <2>0, <2>3, <2>4, <2>5, <2>6, <2>7, <2>8, <2>9 DEF Next
<1>2. Inv /\ [Next]_vars => [\A s \in Sockets : Harmless(s)]_vars
  BY <1>1 DEF Inv
<1> QED
  BY <1>2, Invariance, PTL DEF Spec, StaleSocketHarmless

(* No request that starts or settles ends or takes over a named reservation
   of an account that may hold it, while the session lasts. *)
THEOREM ReservationStickyHolds == Spec => ReservationSticky
<1> DEFINE Sticky ==
      /\ at' # at /\ session' = session
      /\ lock.task \in Tasks /\ CanOperate(lock.user)
      => lock' = lock
<1>1. ASSUME TypeOK, Attached, [Next]_vars PROVE Sticky
  <2> USE UsersType, CallerType, NamesType, SocketsType DEF TypeOK
  <2> SUFFICES ASSUME at' # at, session' = session, lock.task \in Tasks, CanOperate(lock.user)
      PROVE lock' = lock
    OBVIOUS
  <2>0. lock # NoLock /\ session # None /\ ~Available
    BY <1>1 DEF NoLock, Available, Attached
  <2>1. ASSUME NEW r \in Rpcs, ReleaseFinished(r) PROVE lock' = lock
    BY <2>1 DEF ReleaseFinished
  <2>2. ASSUME NEW s \in Sockets, DropDevice(s) PROVE lock' = lock
    BY <2>2 DEF DropDevice
  <2>3. ASSUME NEW s \in Sockets, SocketStep(s) PROVE lock' = lock
    BY <2>2, <2>3 DEF SocketStep, Connect, Authenticate, AuthFails, SocketCloses, coreVars
  <2>4. ASSUME NEW r \in Rpcs, RpcStep(r) PROVE lock' = lock
    BY <2>0, <2>1, <2>4
    DEF RpcStep, Dispatch, SendFails, ReleaseUnsent, RpcTimeout, Receive, Finish, StopWaiting,
        OrphanEnds, coreVars
  <2>5. ASSUME NEW m \in replies, Respond(m) PROVE lock' = lock
    <3>1. m.call \in Rpcs
      BY <1>1
    <3> QED
      BY <2>1, <2>5, <3>1 DEF Respond
  <2>6. ASSUME NEW u \in Users, UserStep(u) PROVE FALSE
    <3>1. at' = at
      BY <2>6 DEF UserStep, SetShare, AcquireLock, ReleaseLock, coreVars
    <3> QED
      BY <1>1, <3>1
  <2>7. CASE Unpair
    BY <1>1, <2>0, <2>2, <2>7 DEF Unpair
  <2>8. ~CoreRestart
    BY <2>0 DEF CoreRestart
  <2>9. ~(AgentLosesSocket \/ Enroll \/ Tick \/ UNCHANGED vars)
    BY DEF AgentLosesSocket, Enroll, Tick, vars, coreVars
  <2> QED
    BY <1>1, <2>3, <2>4, <2>5, <2>6, <2>7, <2>8, <2>9 DEF Next
<1>2. Inv /\ [Next]_vars => [Sticky]_vars
  BY <1>1 DEF Inv
<1> QED
  BY <1>2, Invariance, PTL DEF Spec, ReservationSticky
=============================================================================
