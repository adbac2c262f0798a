------------------------- MODULE GuardedVerdictProofs -------------------------
(***************************************************************************)
(* What the verdicts of GuardedAction are worth: a call told "stale", or   *)
(* "rejected" by the browser route, has done nothing and never will; one   *)
(* observation serves one action; no two calls are told different things;  *)
(* and, its database intact, the system implements GuardedOutcome.         *)
(***************************************************************************)
EXTENDS GuardedActionProofs

-----------------------------------------------------------------------------
(* How a call gets from the Core to the device.                            *)

(* The first turn of call c ends in a dispatch. *)
Started(c) ==
    /\ coreUp /\ pc[c] = "idle" /\ row[OpOf[c]].state = "absent"
    /\ Kind(c) # "exec" => PayloadOf[c] \in fresh
    /\ fresh' = fresh \ {PayloadOf[c]}
    /\ row' = Dispatch(OpOf[c], PayloadOf[c])
    /\ UNCHANGED answer
    /\ \/ pc' = [pc EXCEPT ![c] = "performing"] /\ requests' = requests \cup {c}
       \/ Kind(c) = "browser" /\ pc' = [pc EXCEPT ![c] = "probing"] /\ requests' = requests

(* ... or in a verdict given without asking the device. *)
SettledAtOnce(c, v) ==
    /\ coreUp /\ pc[c] = "idle" /\ row[OpOf[c]].state = "absent"
    /\ v = "stale" => PayloadOf[c] \notin fresh /\ Kind(c) # "exec"
    /\ v = "rejected" => PayloadOf[c] \in fresh /\ Kind(c) # "exec"
    /\ fresh' \in {fresh, fresh \ {PayloadOf[c]}}
    /\ SettleAtOnce(c, v)
    /\ requests' = requests

(* The first turn of a call: dispatched, or settled at once. *)
LEMMA SubmitCases ==
  ASSUME NEW c \in Calls, Submit(c)
  PROVE  Started(c) \/ \E v \in {"stale", "rejected", "unknown"} : SettledAtOnce(c, v)
<1>1. coreUp /\ pc[c] = "idle" /\ row[OpOf[c]].state = "absent" /\ FirstTurn(c)
  BY DEF Submit, FirstSeen, Ready
<1> DEFINE p == PayloadOf[c]
           Sends == /\ Kind(c) # "exec" => p \in fresh
                    /\ fresh' = fresh \ {p} /\ row' = Dispatch(OpOf[c], p)
                    /\ \/ Goto(c, "performing") /\ requests' = requests \cup {c}
                       \/ Kind(c) = "browser" /\ Goto(c, "probing") /\ requests' = requests
           Settles(v) == /\ v = "stale" => p \notin fresh /\ Kind(c) # "exec"
                         /\ v = "rejected" => p \in fresh /\ Kind(c) # "exec"
                         /\ fresh' \in {fresh, fresh \ {p}}
                         /\ SettleAtOnce(c, v) /\ requests' = requests
<1>2. Sends \/ \E v \in {"stale", "rejected", "unknown"} : Settles(v)
  <2>1. Kind(c) \in Kinds
    BY KindOfType, PayloadOfType DEF Kind
  <2> QED
    BY <1>1, <2>1 DEF FirstTurn, Consume, Kinds, Native
<1>3. CASE Sends
  BY <1>1, <1>3 DEF Started, Goto
<1>4. ASSUME NEW v \in {"stale", "rejected", "unknown"}, Settles(v)
      PROVE  SettledAtOnce(c, v)
  BY <1>1, <1>4 DEF SettledAtOnce
<1> QED
  BY <1>2, <1>3, <1>4

(* Requests and probes come from a first turn; observations are only spent;
   only a restored database forgets an operation. *)
LEMMA CoreReach ==
  ASSUME TypeOK, [Next]_vars
  PROVE  /\ \A d \in Calls : d \in requests' => \/ d \in requests \/ Started(d)
                                                \/ pc[d] = "probing" /\ pc'[d] = "performing"
         /\ \A d \in Calls : pc'[d] = "probing" => pc[d] = "probing" \/ Started(d)
         /\ \A d \in Calls : pc'[d] = "idle" => pc[d] = "idle"
         /\ fresh' \subseteq fresh
         /\ \A o \in Ops : row'[o].state = "absent" => \/ row[o].state = "absent"
                                                       \/ ~coreUp /\ restores' # restores
<1> USE OpOfType, PayloadOfType
<1> DEFINE Goal ==
      /\ \A d \in Calls : d \in requests' => \/ d \in requests \/ Started(d)
                                             \/ pc[d] = "probing" /\ pc'[d] = "performing"
      /\ \A d \in Calls : pc'[d] = "probing" => pc[d] = "probing" \/ Started(d)
      /\ \A d \in Calls : pc'[d] = "idle" => pc[d] = "idle"
      /\ fresh' \subseteq fresh
      /\ \A o \in Ops : row'[o].state = "absent" => \/ row[o].state = "absent"
                                                    \/ ~coreUp /\ restores' # restores
<1>1. ASSUME UNCHANGED <<row, pc>>, requests' \subseteq requests, fresh' \subseteq fresh
      PROVE  Goal
  BY <1>1
<1>2. ASSUME NEW c \in Calls, NEW v, Close(c, v), pc[c] # "idle",
             requests' \subseteq requests, fresh' = fresh
      PROVE  Goal
  <2>1. pc' = [pc EXCEPT ![c] = "answered"]
    BY <1>2 DEF Close, Tell
  <2>2. \A o \in Ops : row'[o] = row[o] \/ row'[o].state # "absent"
    BY <1>2 DEF Close, Finish, Uncertain, Settled, TypeOK
  <2> QED
    BY <1>2, <2>1, <2>2 DEF TypeOK
<1>3. ASSUME NEW c \in Calls, Submit(c) PROVE Goal
  <2>1. CASE Started(c)
    BY <2>1 DEF Started, Dispatch, TypeOK
  <2>2. ASSUME NEW v, SettledAtOnce(c, v) PROVE Goal
    BY <2>2 DEF SettledAtOnce, SettleAtOnce, Tell, TypeOK
  <2> QED
    BY <1>3, <2>1, <2>2, SubmitCases
<1>4. ASSUME NEW c \in Calls, Resubmit(c) PROVE Goal
  BY <1>4 DEF Resubmit, Tell, TypeOK, netVars
<1>5. ASSUME NEW c \in Calls, ProbeOk(c) PROVE Goal
  <2>1. CASE Close(c, "unknown") /\ UNCHANGED requests
    BY <1>2, <1>5, <2>1 DEF ProbeOk
  <2>2. CASE requests' = requests \cup {c} /\ Goto(c, "performing") /\ UNCHANGED row
    BY <1>5, <2>2 DEF ProbeOk, Goto, TypeOK
  <2> QED
    BY <1>5, <2>1, <2>2 DEF ProbeOk
<1>6. ASSUME NEW c \in Calls, ProbeFails(c) \/ Verified(c) \/ RpcGivesUp(c) \/ SendFails(c)
      PROVE  Goal
  BY <1>2, <1>6 DEF ProbeFails, Verified, RpcGivesUp, SendFails, netVars
<1>7. ASSUME NEW c \in Calls, CrashInSubmit(c) PROVE Goal
  BY <1>7 DEF CrashInSubmit, Down, Insert, Dispatch, netVars, TypeOK
<1>8. ASSUME NEW m \in replies, CoreReply(m) PROVE Goal
  <2>1. m.call \in Calls
    BY DEF TypeOK
  <2>2. CASE UNCHANGED <<row, pc, answer>>
    BY <1>1, <1>8, <2>2 DEF CoreReply
  <2>3. CASE pc[m.call] = "performing" /\ Close(m.call, Classify(Kind(m.call), m.what))
    BY <1>2, <1>8, <2>1, <2>3 DEF CoreReply
  <2>4. CASE pc[m.call] = "performing" /\ Goto(m.call, "verifying") /\ UNCHANGED row
    BY <1>8, <2>1, <2>4 DEF CoreReply, Goto, TypeOK
  <2> QED
    BY <1>8, <2>2, <2>3, <2>4 DEF CoreReply
<1>9. CASE CoreCrash
  BY <1>9 DEF CoreCrash, Down, netVars, TypeOK
<1>10. ASSUME NEW o \in Ops, RestoreBackup(o) PROVE Goal
  <2>1. restores' # restores
    BY <1>10, BoundsType DEF RestoreBackup, TypeOK
  <2> QED
    BY <1>10, <2>1 DEF RestoreBackup, netVars
<1>11. ASSUME NEW c \in Calls, AgentStep(c) \/ WorkerStep(c) PROVE Goal
  BY <1>1, <1>11 DEF AgentStep, Reserve, ReserveFails, Reuse, Complete, WaitTimeout,
     CrashInReserve, Receive, WorkerStep, WorkerStart, WorkerInput, WorkerDone, WorkerRefuses,
     WorkerThrows, WorkerStops, WorkerUnsure, WorkerVars, coreVars, netVars
<1>12. CASE \/ \E p \in Payloads : ExpireFrame(p)
            \/ ChangeAccess \/ CoreRestart \/ HelperExits
            \/ Lose \/ AgentCrash \/ AgentRestart \/ UNCHANGED vars
  BY <1>1, <1>12 DEF ExpireFrame, ChangeAccess, CoreRestart, HelperExits, Lose, AgentCrash,
     AgentRestart, vars, coreVars, netVars
<1> QED
  BY <1>3, <1>4, <1>5, <1>6, <1>7, <1>8, <1>9, <1>10, <1>11, <1>12 DEF Next, CoreStep

(* A worker comes from a request, and only a running one delivers. *)
LEMMA DeviceReach ==
  ASSUME TypeOK, [Next]_vars
  PROVE  \A d \in Calls :
           /\ worker'[d].state # "none" => worker[d].state # "none" \/ d \in requests
           /\ worker'[d].state \in {"queued", "running"} =>
                worker[d].state \in {"queued", "running"} \/ d \in requests
           /\ delivered'[d] = delivered[d] \/ worker[d].state = "running"
<1> DEFINE Goal ==
      \A d \in Calls :
        /\ worker'[d].state # "none" => worker[d].state # "none" \/ d \in requests
        /\ worker'[d].state \in {"queued", "running"} =>
             worker[d].state \in {"queued", "running"} \/ d \in requests
        /\ delivered'[d] = delivered[d] \/ worker[d].state = "running"
<1>1. ASSUME UNCHANGED <<worker, delivered>> PROVE Goal
  BY <1>1
<1>2. ASSUME NEW c \in Calls, CoreStep(c) PROVE Goal
  BY <1>1, <1>2 DEF CoreStep, Submit, Resubmit, ProbeOk, ProbeFails, Verified, RpcGivesUp,
     SendFails, CrashInSubmit, Down, agentVars
<1>3. ASSUME NEW c \in Calls, Reserve(c) PROVE Goal
  BY <1>3 DEF Reserve, Receive, At, TypeOK
<1>4. ASSUME NEW c \in Calls,
             \/ ReserveFails(c) \/ Reuse(c) \/ Complete(c) \/ WaitTimeout(c) \/ CrashInReserve(c)
      PROVE  Goal
  BY <1>1, <1>4 DEF ReserveFails, Reuse, Complete, WaitTimeout, CrashInReserve, agentVars
<1>5. ASSUME NEW c \in Calls, WorkerStep(c) PROVE Goal
  <2>1. worker[c].state \in {"queued", "running"}
    BY <1>5 DEF WorkerStep, WorkerStart, WorkerInput, WorkerDone, WorkerRefuses, WorkerThrows,
       WorkerStops, WorkerUnsure
  <2>2. \A d \in Calls : d # c => worker'[d] = worker[d] /\ delivered'[d] = delivered[d]
    BY <1>5 DEF WorkerStep, WorkerStart, WorkerInput, WorkerDone, WorkerRefuses, WorkerThrows,
       WorkerStops, WorkerUnsure, Over, TypeOK
  <2>3. delivered' = delivered \/ worker[c].state = "running"
    BY <1>5 DEF WorkerStep, WorkerStart, WorkerInput, WorkerDone, WorkerRefuses, WorkerThrows,
       WorkerStops, WorkerUnsure
  <2> QED
    BY <2>1, <2>2, <2>3
<1>6. CASE HelperExits
  BY <1>6 DEF HelperExits, At, TypeOK
<1>7. CASE \/ \E m \in replies : CoreReply(m)
           \/ \E p \in Payloads : ExpireFrame(p)
           \/ \E o \in Ops : RestoreBackup(o)
           \/ ChangeAccess \/ CoreCrash \/ CoreRestart
           \/ Lose \/ AgentCrash \/ AgentRestart \/ UNCHANGED vars
  BY <1>1, <1>7 DEF CoreReply, ExpireFrame, RestoreBackup, ChangeAccess, CoreCrash, Down,
     CoreRestart, Lose, AgentCrash, AgentRestart, vars, agentVars
<1> QED
  BY <1>2, <1>3, <1>4, <1>5, <1>6, <1>7 DEF Next, AgentStep

(* An answer is given once, by the turn that ends the call, and a final one
   stands in the row. *)
Answers(d) ==
    /\ coreUp /\ pc[d] # "answered" /\ pc'[d] = "answered"
    /\ answer'[d] \in Final => /\ row'[OpOf[d]].outcome = answer'[d]
                               /\ row'[OpOf[d]].payload = PayloadOf[d]

(* Every step leaves a call's answer alone or gives it. *)
LEMMA AnswerStep ==
  ASSUME TypeOK, RowShape, ActiveRow, [Next]_vars, NEW d \in Calls
  PROVE  \/ answer'[d] = answer[d] /\ (pc[d] = "answered" => pc'[d] = "answered")
         \/ Answers(d)
<1> USE OpOfType, PayloadOfType
<1> DEFINE Goal == \/ answer'[d] = answer[d] /\ (pc[d] = "answered" => pc'[d] = "answered")
                   \/ Answers(d)
<1>1. ASSUME NEW c \in Calls, NEW l, Goto(c, l), pc[c] # "answered" PROVE Goal
  BY <1>1 DEF Goto, TypeOK
<1>2. ASSUME NEW c \in Calls, NEW v \in Final \cup {"unknown"}, Close(c, v), Active(c)
      PROVE Goal
  <2>1. coreUp /\ row[OpOf[c]].payload = PayloadOf[c] /\ pc[c] # "answered"
    BY <1>2 DEF ActiveRow, Active
  <2>2. answer'[c] \in Final => answer'[c] = v /\ row' = Finish(OpOf[c], v)
    BY <1>2 DEF Close, Tell, TypeOK, Final
  <2>3. pc' = [pc EXCEPT ![c] = "answered"]
    BY <1>2, CloseEffect
  <2>4. PICK w \in {v, "unknown"} : answer' = [answer EXCEPT ![c] = w]
    BY <1>2, CloseEffect
  <2>5. CASE d # c
    BY <2>3, <2>4, <2>5 DEF TypeOK
  <2>6. CASE d = c
    BY <2>1, <2>2, <2>3, <2>4, <2>6 DEF Answers, Finish, Settled, TypeOK, Final
  <2> QED
    BY <2>5, <2>6
<1>3. ASSUME UNCHANGED <<pc, answer>> PROVE Goal
  BY <1>3
<1>4. ASSUME NEW c \in Calls, Submit(c) PROVE Goal
  <2>1. CASE Started(c)
    BY <2>1 DEF Started, TypeOK
  <2>2. ASSUME NEW v, SettledAtOnce(c, v) PROVE Goal
    BY <2>2 DEF SettledAtOnce, SettleAtOnce, Tell, Answers, TypeOK
  <2> QED
    BY <1>4, <2>1, <2>2, SubmitCases
<1>5. ASSUME NEW c \in Calls, Resubmit(c) PROVE Goal
  <2>1. coreUp /\ pc[c] = "idle" /\ UNCHANGED row /\ Tell(c, Recall(c, row[OpOf[c]]))
    BY <1>5 DEF Resubmit, Ready
  <2>2. Recall(c, row[OpOf[c]]) \in Final =>
          row[OpOf[c]].outcome = Recall(c, row[OpOf[c]]) /\ row[OpOf[c]].payload = PayloadOf[c]
    BY DEF Recall, Final
  <2> QED
    BY <2>1, <2>2 DEF Tell, Answers, TypeOK
<1>6. ASSUME NEW c \in Calls,
             ProbeOk(c) \/ ProbeFails(c) \/ Verified(c) \/ RpcGivesUp(c) \/ SendFails(c)
      PROVE  Goal
  <2>1. Active(c) /\ pc[c] # "answered" /\ Classify(Kind(c), "failed") \in Final \cup {"unknown"}
    BY <1>6 DEF Active, ProbeOk, ProbeFails, Verified, RpcGivesUp, SendFails, Classify, Final
  <2>2. \/ \E v \in Final \cup {"unknown"} : Close(c, v)
        \/ Goto(c, "performing")
    BY <1>6, <2>1 DEF ProbeOk, ProbeFails, Verified, RpcGivesUp, SendFails, Final
  <2> QED
    BY <1>1, <1>2, <2>1, <2>2
<1>7. ASSUME NEW m \in replies, CoreReply(m) PROVE Goal
  <2>1. m.call \in Calls /\ Classify(Kind(m.call), m.what) \in Final \cup {"unknown"}
    BY DEF TypeOK, Classify, Final
  <2>2. CASE pc[m.call] = "performing" /\ Close(m.call, Classify(Kind(m.call), m.what))
    BY <1>2, <2>1, <2>2 DEF Active
  <2>3. CASE pc[m.call] = "performing" /\ Goto(m.call, "verifying")
    BY <1>1, <2>1, <2>3
  <2> QED
    BY <1>3, <1>7, <2>2, <2>3 DEF CoreReply
<1>8. ASSUME CoreCrash \/ \E c \in Calls : CrashInSubmit(c) PROVE Goal
  BY <1>8 DEF CoreCrash, CrashInSubmit, Ready, Down, TypeOK
<1>9. ASSUME NEW c \in Calls, AgentStep(c) \/ WorkerStep(c) PROVE Goal
  BY <1>3, <1>9 DEF AgentStep, Reserve, ReserveFails, Reuse, Complete, WaitTimeout,
     CrashInReserve, WorkerStep, WorkerStart, WorkerInput, WorkerDone, WorkerRefuses,
     WorkerThrows, WorkerStops, WorkerUnsure, WorkerVars, coreVars
<1>10. CASE \/ \E p \in Payloads : ExpireFrame(p)
            \/ \E o \in Ops : RestoreBackup(o)
            \/ ChangeAccess \/ CoreRestart \/ HelperExits
            \/ Lose \/ AgentCrash \/ AgentRestart \/ UNCHANGED vars
  BY <1>3, <1>10 DEF ExpireFrame, RestoreBackup, ChangeAccess, CoreRestart, HelperExits, Lose,
     AgentCrash, AgentRestart, vars, coreVars
<1> QED
  BY <1>4, <1>5, <1>6, <1>7, <1>8, <1>9, <1>10 DEF Next, CoreStep

(* Only one call starts in a step, and no other call gets any further. *)
LEMMA StartedAlone ==
  ASSUME TypeOK, NEW c \in Calls, NEW d \in Calls, Started(c), Started(d)
  PROVE  c = d
<1>1. pc[d] = "idle" /\ pc'[d] # "idle"
  BY DEF Started, TypeOK
<1>2. c # d => pc'[d] = pc[d]
  BY DEF Started, TypeOK
<1> QED
  BY <1>1, <1>2

(* What becomes engaged was engaged, or starts from a live observation. *)
LEMMA EngagedStep ==
  ASSUME TypeOK, [Next]_vars, NEW c \in Calls, Engaged(c)'
  PROVE  Engaged(c) \/ Started(c)
  BY CoreReach, DeviceReach DEF Engaged

(* A request that gets a worker has left the network. *)
LEMMA RequestTaken ==
  ASSUME TypeOK, [Next]_vars, NEW d \in Calls, worker[d].state = "none", worker'[d].state # "none"
  PROVE  d \in requests /\ d \notin requests'
<1>1. ASSUME UNCHANGED worker PROVE FALSE
  BY <1>1
<1>2. ASSUME NEW c \in Calls, CoreStep(c) PROVE FALSE
  BY <1>1, <1>2 DEF CoreStep, Submit, Resubmit, ProbeOk, ProbeFails, Verified, RpcGivesUp,
     SendFails, CrashInSubmit, Down, agentVars
<1>3. ASSUME NEW c \in Calls, Reserve(c) PROVE d \in requests /\ d \notin requests'
  BY <1>3 DEF Reserve, Receive, TypeOK
<1>4. ASSUME NEW c \in Calls,
             \/ ReserveFails(c) \/ Reuse(c) \/ Complete(c) \/ WaitTimeout(c) \/ CrashInReserve(c)
      PROVE  FALSE
  BY <1>1, <1>4 DEF ReserveFails, Reuse, Complete, WaitTimeout, CrashInReserve, agentVars
<1>5. ASSUME NEW c \in Calls, WorkerStep(c) PROVE FALSE
  BY <1>5 DEF WorkerStep, WorkerStart, WorkerInput, WorkerDone, WorkerRefuses, WorkerThrows,
     WorkerStops, WorkerUnsure, Over, TypeOK
<1>6. CASE HelperExits
  BY <1>6 DEF HelperExits, At, TypeOK
<1>7. CASE \/ \E m \in replies : CoreReply(m)
           \/ \E p \in Payloads : ExpireFrame(p)
           \/ \E o \in Ops : RestoreBackup(o)
           \/ ChangeAccess \/ CoreCrash \/ CoreRestart
           \/ Lose \/ AgentCrash \/ AgentRestart \/ UNCHANGED vars
  BY <1>1, <1>7 DEF CoreReply, ExpireFrame, RestoreBackup, ChangeAccess, CoreCrash, Down,
     CoreRestart, Lose, AgentCrash, AgentRestart, vars, agentVars
<1> QED
  BY <1>2, <1>3, <1>4, <1>5, <1>6, <1>7 DEF Next, AgentStep

-----------------------------------------------------------------------------
(* One observation, one action.                                            *)

(* Observations are the memory of a running Core: one that is down has none. *)
LEMMA FreshWhileUp ==
  ASSUME TypeOK, ~coreUp => fresh = {}, [Next]_vars
  PROVE  (~coreUp => fresh = {})'
<1>1. fresh' \subseteq fresh
  BY CoreReach
<1>2. coreUp' = coreUp \/ fresh' = {} \/ coreUp'
  <2>1. ASSUME NEW c \in Calls, CoreStep(c) \/ AgentStep(c) \/ WorkerStep(c)
        PROVE  coreUp' = coreUp \/ fresh' = {}
    BY <2>1 DEF CoreStep, Submit, Resubmit, ProbeOk, ProbeFails, Verified, RpcGivesUp,
       SendFails, CrashInSubmit, Down, AgentStep, Reserve, ReserveFails, Reuse, Complete,
       WaitTimeout, CrashInReserve, WorkerStep, WorkerStart, WorkerInput, WorkerDone,
       WorkerRefuses, WorkerThrows, WorkerStops, WorkerUnsure, WorkerVars, coreVars
  <2> QED
    BY <2>1 DEF Next, CoreReply, ExpireFrame, RestoreBackup, ChangeAccess, CoreCrash, Down,
       CoreRestart, Lose, AgentCrash, AgentRestart, HelperExits, vars, coreVars
<1> QED
  BY <1>1, <1>2

(* No step gives two requests that act the same live observation, nor one
   whose observation is still there to be used again. *)
LEMMA SpentOnceStep ==
  ASSUME TypeOK, SpentOnce, [Next]_vars
  PROVE  SpentOnce'
<1>1. (~coreUp => fresh = {})'
  BY FreshWhileUp DEF SpentOnce
<1>2. ASSUME NEW c \in Calls, Engaged(c)', Kind(c) # "exec" PROVE PayloadOf[c] \notin fresh'
  <2>1. CASE Engaged(c)
    BY <1>2, <2>1, CoreReach DEF SpentOnce
  <2>2. CASE Started(c)
    BY <2>2 DEF Started
  <2> QED
    BY <1>2, <2>1, <2>2, EngagedStep
<1>3. ASSUME NEW c \in Calls, NEW d \in Calls, Engaged(c)', Engaged(d)', Kind(c) # "exec",
             PayloadOf[d] = PayloadOf[c]
      PROVE  c = d
  <2>1. Engaged(c) \/ Started(c)
    BY <1>3, EngagedStep
  <2>2. Engaged(d) \/ Started(d)
    BY <1>3, EngagedStep
  <2>3. Kind(d) # "exec"
    BY <1>3 DEF Kind
  <2>4. ~(Engaged(c) /\ Started(d)) /\ ~(Engaged(d) /\ Started(c))
    BY <1>3, <2>3 DEF SpentOnce, Started
  <2> QED
    BY <1>3, <2>1, <2>2, <2>4, StartedAlone DEF SpentOnce
<1> QED
  BY <1>1, <1>2, <1>3 DEF SpentOnce, Kind

(* What a call cannot have done before its send, and before its answer. *)
LEMMA UntoldStep ==
  ASSUME TypeOK, RowShape, ActiveRow, Untold, [Next]_vars
  PROVE  Untold'
<1>1. ASSUME NEW d \in Calls, pc'[d] \in {"idle", "probing"}
      PROVE  d \notin requests' /\ worker'[d].state = "none"
  <2>1. pc[d] \in {"idle", "probing"}
    BY <1>1, CoreReach DEF Started
  <2>2. d \notin requests /\ worker[d].state = "none"
    BY <2>1 DEF Untold
  <2>3. Started(d) => d \notin requests'
    BY <1>1, <2>2 DEF Started, TypeOK
  <2> QED
    BY <1>1, <2>2, <2>3, CoreReach, DeviceReach
<1>2. ASSUME NEW d \in Calls, pc'[d] # "answered" PROVE answer'[d] = None
  BY <1>2, AnswerStep DEF Untold, Answers
<1>3. ASSUME NEW d \in Calls, pc'[d] = "probing" PROVE Kind(d) = "browser"
  BY <1>3, CoreReach DEF Untold, Started, TypeOK
<1>4. ASSUME NEW d \in Calls, d \in requests' PROVE worker'[d].state = "none"
  <2>1. worker[d].state = "none"
    BY <1>4, CoreReach DEF Untold, Started
  <2>2. worker'[d].state # "none" => d \in requests /\ d \notin requests'
    BY <2>1, RequestTaken
  <2> QED
    BY <1>4, <2>2
<1> QED
  BY <1>1, <1>2, <1>3, <1>4 DEF Untold, Kind

-----------------------------------------------------------------------------
(* What is void stays void.                                                *)

(* What can have no effect never gets one: no call with the same request is
   sent, asked or run again. *)
LEMMA VoidStable ==
  ASSUME TypeOK, SpentOnce, [Next]_vars, NEW o \in Ops, NEW p, Void(o, p)
  PROVE  Void(o, p)'
<1>1. row'[o].state # "absent" \/ p \notin fresh'
  BY CoreReach DEF Void, SpentOnce
<1>2. ASSUME NEW d \in Calls, OpOf[d] = o, PayloadOf[d] = p
      PROVE  /\ delivered'[d] = 0 /\ d \notin requests' /\ pc'[d] # "probing"
             /\ worker'[d].state \notin {"queued", "running"}
  <2>1. ~Started(d)
    BY <1>2 DEF Void, Started, Kind
  <2> QED
    BY <1>2, <2>1, CoreReach, DeviceReach DEF Void
<1> QED
  BY <1>1, <1>2 DEF Void

(* A worker that ended before its first input, and spent the observation. *)
LEMMA WorkerVoid ==
  ASSUME TypeOK, Owned, SpentOnce, Untold, VoidResults,
         NEW c \in Calls, worker[c].result \in NoInput
  PROVE  Void(OpOf[c], PayloadOf[c])
<1>1. /\ Kind(c) # "exec" /\ worker[c].state = "over" /\ delivered[c] = 0
      /\ c \notin requests /\ pc[c] # "probing"
  BY DEF VoidResults, Untold
<1>2. PayloadOf[c] \notin fresh
  BY <1>1 DEF SpentOnce, Engaged
<1>3. ASSUME NEW d \in Calls, PayloadOf[d] = PayloadOf[c], d # c
      PROVE  /\ delivered[d] = 0 /\ d \notin requests /\ pc[d] # "probing"
             /\ worker[d].state \notin {"queued", "running"}
  <2>1. ~Engaged(d)
    BY <1>1, <1>3 DEF SpentOnce, Engaged
  <2> QED
    BY <2>1 DEF Engaged, Owned
<1> QED
  BY <1>1, <1>2, <1>3 DEF Void, Kind

(* A result that says so tells the truth, from the worker to the Core. *)
LEMMA VoidResultsStep ==
  ASSUME TypeOK, RowShape, FileShape, Owned, SpentOnce, Untold, VoidResults, [Next]_vars
  PROVE  VoidResults'
<1> USE OpOfType, PayloadOfType
<1>1. ASSUME NEW o \in Ops, NEW p, Void(o, p) PROVE Void(o, p)'
  BY <1>1, VoidStable
<1> DEFINE Ended(d) == Kind(d) # "exec" /\ worker'[d].state = "over" /\ delivered'[d] = 0
           Carried == /\ \A o \in Ops : file'[o].result \in NoInput =>
                           \/ file'[o] = file[o]
                           \/ \E c \in Calls : /\ OpOf[c] = o /\ file'[o].payload = PayloadOf[c]
                                               /\ Void(o, PayloadOf[c])
                      /\ \A m \in replies' : m.what \in NoInput =>
                           m \in replies \/ Void(OpOf[m.call], PayloadOf[m.call])
(* The Agent passes on what the worker or its own journal says. *)
<1>2. Carried
  <2>1. ASSUME UNCHANGED file, \A m \in replies' : m \in replies \/ m.what \notin NoInput
        PROVE  Carried
    BY <2>1
  <2>2. ASSUME NEW c \in Calls, NEW x \in {Damaged, Reserved(c)},
               file' \in {file, [file EXCEPT ![OpOf[c]] = x]},
               \A m \in replies' : m \in replies \/ m.what \notin NoInput
        PROVE  Carried
    <3>1. \A o \in Ops : file'[o] = file[o] \/ file'[o].result = None
      BY <2>2 DEF TypeOK, Damaged, Reserved
    <3> QED
      BY <2>2, <3>1 DEF NoInput, None
  <2>3. ASSUME NEW c \in Calls, Reserve(c) \/ ReserveFails(c) \/ CrashInReserve(c) PROVE Carried
    BY <2>2, <2>3 DEF Reserve, ReserveFails, CrashInReserve, Send, NoInput
  <2>4. ASSUME NEW c \in Calls, Reuse(c) PROVE Carried
    <3>1. FromFile(c, file[OpOf[c]]) \in NoInput => Void(OpOf[c], PayloadOf[c])
      BY DEF FromFile, VoidResults, NoInput
    <3>2. file' = file /\ \A m \in replies' :
            m \in replies \/ m = [call |-> c, what |-> FromFile(c, file[OpOf[c]])]
      BY <2>4 DEF Reuse, Send, agentVars
    <3> QED
      BY <3>1, <3>2
  <2>5. ASSUME NEW c \in Calls, Complete(c) PROVE Carried
    <3>1. worker[c].result \in NoInput => Void(OpOf[c], PayloadOf[c])
      BY WorkerVoid
    <3>2. \A o \in Ops : \/ file'[o] = file[o]
                         \/ /\ o = OpOf[c] /\ file'[o].payload = PayloadOf[c]
                            /\ file'[o].result = worker[c].result
      BY <2>5 DEF Complete, TypeOK
    <3>3. \A m \in replies' : \/ m \in replies \/ m.what = "OUTCOME_UNCERTAIN"
                              \/ m = [call |-> c, what |-> worker[c].result]
      BY <2>5 DEF Complete, Send
    <3> QED
      BY <3>1, <3>2, <3>3 DEF NoInput
  <2>6. ASSUME NEW c \in Calls, WaitTimeout(c) PROVE Carried
    BY <2>1, <2>6 DEF WaitTimeout, Send, NoInput
  <2>7. CASE HelperExits
    BY <2>1, <2>7 DEF HelperExits, NoInput
  <2>8. ASSUME NEW c \in Calls, CoreStep(c) \/ WorkerStep(c) PROVE Carried
    BY <2>1, <2>8 DEF CoreStep, Submit, Resubmit, ProbeOk, ProbeFails, Verified, RpcGivesUp,
       SendFails, CrashInSubmit, Down, WorkerStep, WorkerStart, WorkerInput, WorkerDone,
       WorkerRefuses, WorkerThrows, WorkerStops, WorkerUnsure, WorkerVars, netVars, agentVars
  <2>9. CASE \/ \E m \in replies : CoreReply(m)
             \/ \E p \in Payloads : ExpireFrame(p)
             \/ \E o \in Ops : RestoreBackup(o)
             \/ ChangeAccess \/ CoreCrash \/ CoreRestart
             \/ Lose \/ AgentCrash \/ AgentRestart \/ UNCHANGED vars
    BY <2>1, <2>9 DEF CoreReply, ExpireFrame, RestoreBackup, ChangeAccess, CoreCrash, Down,
       CoreRestart, Lose, AgentCrash, AgentRestart, vars, netVars, agentVars
  <2> QED
    BY <2>3, <2>4, <2>5, <2>6, <2>7, <2>8, <2>9 DEF Next, AgentStep
(* The worker says so only before its first input. *)
<1>3. ASSUME NEW d \in Calls, worker'[d].result \in NoInput PROVE Ended(d)
  <2>1. ASSUME worker'[d] = worker[d], delivered'[d] = delivered[d] \/ worker[d].state = "running"
        PROVE  Ended(d)
    BY <1>3, <2>1 DEF VoidResults
  <2>2. ASSUME NEW c \in Calls, WorkerRefuses(c) PROVE Ended(d)
    <3>1. CASE d = c
      BY <1>3, <2>2, <3>1 DEF WorkerRefuses, Untouched, Over, Native, NoInput, TypeOK
    <3>2. CASE d # c
      BY <2>1, <2>2, <3>2 DEF WorkerRefuses, Over, TypeOK
    <3> QED
      BY <3>1, <3>2
  <2>3. ASSUME NEW c \in Calls, \/ WorkerStart(c) \/ WorkerInput(c) \/ WorkerDone(c)
                                \/ WorkerThrows(c) \/ WorkerStops(c) \/ WorkerUnsure(c)
        PROVE  Ended(d)
    <3>1. \/ worker'[d] = worker[d]
          \/ worker'[d].result \notin NoInput
      BY <2>3 DEF WorkerStart, WorkerInput, WorkerDone, WorkerThrows, WorkerStops, WorkerUnsure,
         Over, At, NoInput, None, TypeOK
    <3> QED
      BY <1>3, <2>1, <3>1, DeviceReach
  <2>4. ASSUME NEW c \in Calls, AgentStep(c) PROVE Ended(d)
    <3>1. worker'[d] = worker[d] \/ worker'[d].result \notin NoInput
      BY <2>4 DEF AgentStep, Reserve, ReserveFails, Reuse, Complete, WaitTimeout, CrashInReserve,
         agentVars, At, NoInput, None, TypeOK
    <3> QED
      BY <1>3, <2>1, <3>1, DeviceReach
  <2>5. CASE HelperExits
    <3>1. worker'[d] = worker[d] \/ worker'[d].result \notin NoInput
      BY <2>5 DEF HelperExits, At, NoInput, None
    <3> QED
      BY <1>3, <2>1, <3>1, DeviceReach
  <2>6. ASSUME NEW c \in Calls, CoreStep(c) PROVE Ended(d)
    BY <2>1, <2>6 DEF CoreStep, Submit, Resubmit, ProbeOk, ProbeFails, Verified, RpcGivesUp,
       SendFails, CrashInSubmit, Down, agentVars
  <2>7. CASE \/ \E m \in replies : CoreReply(m)
             \/ \E p \in Payloads : ExpireFrame(p)
             \/ \E o \in Ops : RestoreBackup(o)
             \/ ChangeAccess \/ CoreCrash \/ CoreRestart
             \/ Lose \/ AgentCrash \/ AgentRestart \/ UNCHANGED vars
    BY <2>1, <2>7 DEF CoreReply, ExpireFrame, RestoreBackup, ChangeAccess, CoreCrash, Down,
       CoreRestart, Lose, AgentCrash, AgentRestart, vars, agentVars
  <2> QED
    BY <2>2, <2>3, <2>4, <2>5, <2>6, <2>7 DEF Next, WorkerStep
<1>4. \A o \in Ops : file'[o].result \in NoInput => Void(o, file[o].payload)'
  <2> SUFFICES ASSUME NEW o \in Ops, file'[o].result \in NoInput
               PROVE  Void(o, file[o].payload)'
    OBVIOUS
  <2>1. PICK p : file'[o].payload = p /\ Void(o, p)
    BY <1>2 DEF VoidResults
  <2>2. Void(o, p)'
    BY <1>1, <2>1
  <2> QED
    BY <2>1, <2>2 DEF Void
<1>5. \A m \in replies' : m.what \in NoInput => Void(OpOf[m.call], PayloadOf[m.call])'
  <2> SUFFICES ASSUME NEW m \in replies', m.what \in NoInput
               PROVE  Void(OpOf[m.call], PayloadOf[m.call])'
    OBVIOUS
  <2>1. OpOf[m.call] \in Ops
    BY ShapeStep DEF TypeOK
  <2> QED
    BY <1>1, <1>2, <2>1 DEF VoidResults
<1> QED
  BY <1>3, <1>4, <1>5 DEF VoidResults, Kind

-----------------------------------------------------------------------------
(* What the rows say.                                                      *)

(* How an active call comes to the final verdict v that enters its row. *)
Decides(c, v) ==
    \/ pc[c] = "probing" /\ pc'[c] = "answered"
    \/ v = "confirmed"
    \/ v = "rejected" /\ Kind(c) \in Native
    \/ \E m \in replies : m.call = c /\ v = Classify(Kind(c), m.what)

(* A row is written once by the call that is dispatched or settled at once,
   closed once by that call, and forgotten only with the whole database. *)
LEMMA RowStep ==
  ASSUME TypeOK, RowShape, ActiveRow, [Next]_vars, NEW o \in Ops
  PROVE  \/ row'[o] = row[o]
         \/ row'[o] = NoRow /\ ~coreUp /\ restores' = restores + 1
         \/ row[o].state = "absent" /\ row'[o].state # "absent" /\ row'[o].outcome = None
         \/ \E c \in Calls, v \in {"stale", "rejected", "unknown"} :
              OpOf[c] = o /\ SettledAtOnce(c, v)
         \/ /\ row[o].state = "running" /\ row'[o].state # "absent"
            /\ row'[o].payload = row[o].payload
            /\ row'[o].outcome # None =>
                 \E c \in Calls : /\ OpOf[c] = o /\ row[o].payload = PayloadOf[c]
                                  /\ pc'[c] = "answered" /\ Decides(c, row'[o].outcome)
<1> USE OpOfType, PayloadOfType
<1> DEFINE Closed == /\ row[o].state = "running" /\ row'[o].state # "absent"
                     /\ row'[o].payload = row[o].payload
                     /\ row'[o].outcome # None =>
                          \E c \in Calls : /\ OpOf[c] = o /\ row[o].payload = PayloadOf[c]
                                           /\ pc'[c] = "answered" /\ Decides(c, row'[o].outcome)
           Goal == \/ row'[o] = row[o]
                   \/ row'[o] = NoRow /\ ~coreUp /\ restores' = restores + 1
                   \/ row[o].state = "absent" /\ row'[o].state # "absent" /\ row'[o].outcome = None
                   \/ \E c \in Calls, v \in {"stale", "rejected", "unknown"} :
                        OpOf[c] = o /\ SettledAtOnce(c, v)
                   \/ Closed
<1>1. ASSUME UNCHANGED row PROVE Goal
  BY <1>1
<1>2. ASSUME NEW c \in Calls, NEW v \in Final \cup {"unknown"}, Close(c, v), Active(c),
             v \in Final /\ pc'[c] = "answered" => Decides(c, v)
      PROVE  Goal
  <2>1. pc' = [pc EXCEPT ![c] = "answered"]
    BY <1>2, CloseEffect
  <2>2. pc'[c] = "answered"
    BY <2>1 DEF TypeOK
  <2>3. row[OpOf[c]].payload = PayloadOf[c]
    BY <1>2 DEF ActiveRow
  <2>4. \/ row' = row
        \/ /\ row[OpOf[c]].state = "running"
           /\ \/ row' = Finish(OpOf[c], v) /\ v \in Final
              \/ row' = Uncertain(OpOf[c])
    BY <1>2 DEF Close, MayClose
  <2>5. CASE o # OpOf[c] \/ row' = row
    BY <2>4, <2>5 DEF Finish, Uncertain, TypeOK
  <2>6. CASE o = OpOf[c] /\ row' # row
    <3>1. CASE row' = Finish(o, v) /\ v \in Final
      <4>1. row'[o].outcome = v /\ row'[o].payload = row[o].payload /\ row'[o].state = "completed"
        BY <3>1 DEF Finish, Settled, TypeOK
      <4> QED
        BY <1>2, <2>2, <2>3, <2>4, <2>6, <3>1, <4>1
    <3>2. CASE row' = Uncertain(o)
      <4>1. row'[o].outcome = None /\ row'[o].payload = row[o].payload
            /\ row'[o].state = "needs_review"
        BY <3>2 DEF Uncertain, Settled, TypeOK
      <4> QED
        BY <2>4, <2>6, <4>1
    <3> QED
      BY <2>4, <2>6, <3>1, <3>2
  <2> QED
    BY <2>5, <2>6
<1>3. ASSUME NEW c \in Calls, Submit(c) PROVE Goal
  <2>1. CASE Started(c)
    BY <2>1 DEF Started, Dispatch, TypeOK
  <2>2. ASSUME NEW v \in {"stale", "rejected", "unknown"}, SettledAtOnce(c, v) PROVE Goal
    <3>1. CASE OpOf[c] = o
      BY <2>2, <3>1
    <3>2. CASE OpOf[c] # o
      BY <2>2, <3>2 DEF SettledAtOnce, SettleAtOnce, TypeOK
    <3> QED
      BY <3>1, <3>2
  <2> QED
    BY <1>3, <2>1, <2>2, SubmitCases
<1>4. ASSUME NEW c \in Calls, Resubmit(c) PROVE Goal
  BY <1>1, <1>4 DEF Resubmit
<1>5. ASSUME NEW c \in Calls, ProbeOk(c) \/ ProbeFails(c) PROVE Goal
  <2>1. Active(c) /\ \A v : pc'[c] = "answered" => Decides(c, v)
    BY <1>5 DEF Active, ProbeOk, ProbeFails, Decides
  <2>2. UNCHANGED row \/ \E v \in Final \cup {"unknown"} : Close(c, v)
    BY <1>5 DEF ProbeOk, ProbeFails, Final
  <2> QED
    BY <1>1, <1>2, <2>1, <2>2
<1>6. ASSUME NEW c \in Calls, Verified(c) \/ RpcGivesUp(c) \/ SendFails(c) PROVE Goal
  <2>1. Active(c)
    BY <1>6 DEF Active, Verified, RpcGivesUp, SendFails
  <2>2. \E v \in {"confirmed", "unknown", Classify(Kind(c), "failed")} : Close(c, v)
    BY <1>6 DEF Verified, RpcGivesUp, SendFails
  <2>3. \A v \in {"confirmed", "unknown", Classify(Kind(c), "failed")} :
          v \in Final \cup {"unknown"} /\ (v \in Final => Decides(c, v))
    BY DEF Final, Classify, Decides
  <2> QED
    BY <1>2, <2>1, <2>2, <2>3
<1>7. ASSUME NEW m \in replies, CoreReply(m) PROVE Goal
  <2> DEFINE v == Classify(Kind(m.call), m.what)
  <2>1. m.call \in Calls /\ v \in Final \cup {"unknown"} /\ Decides(m.call, v)
    BY DEF TypeOK, Classify, Final, Decides
  <2>2. CASE pc[m.call] = "performing" /\ Close(m.call, v)
    BY <1>2, <2>1, <2>2 DEF Active
  <2>3. CASE UNCHANGED row
    BY <1>1, <2>3
  <2> QED
    BY <1>7, <2>2, <2>3 DEF CoreReply
<1>8. ASSUME NEW c \in Calls, CrashInSubmit(c) PROVE Goal
  BY <1>8 DEF CrashInSubmit, FirstSeen, Insert, Dispatch, TypeOK
<1>9. ASSUME NEW q \in Ops, RestoreBackup(q) PROVE Goal
  BY <1>9 DEF RestoreBackup, TypeOK
<1>10. ASSUME NEW c \in Calls, AgentStep(c) \/ WorkerStep(c) PROVE Goal
  BY <1>1, <1>10 DEF AgentStep, Reserve, ReserveFails, Reuse, Complete, WaitTimeout,
     CrashInReserve, WorkerStep, WorkerStart, WorkerInput, WorkerDone, WorkerRefuses,
     WorkerThrows, WorkerStops, WorkerUnsure, WorkerVars, coreVars
<1>11. CASE \/ \E p \in Payloads : ExpireFrame(p)
            \/ ChangeAccess \/ CoreCrash \/ CoreRestart \/ HelperExits
            \/ Lose \/ AgentCrash \/ AgentRestart \/ UNCHANGED vars
  BY <1>1, <1>11 DEF ExpireFrame, ChangeAccess, CoreCrash, CoreRestart, HelperExits, Lose,
     AgentCrash, AgentRestart, vars, coreVars
<1> QED
  BY <1>3, <1>4, <1>5, <1>6, <1>7, <1>8, <1>9, <1>10, <1>11 DEF Next, CoreStep

(* Restored databases are only counted. *)
LEMMA RestoresStep ==
  ASSUME TypeOK, [Next]_vars
  PROVE  restores' = restores \/ restores' = restores + 1
<1>1. ASSUME NEW c \in Calls, CoreStep(c) \/ AgentStep(c) \/ WorkerStep(c)
      PROVE  restores' = restores
  BY <1>1 DEF CoreStep, Submit, Resubmit, ProbeOk, ProbeFails, Verified, RpcGivesUp,
     SendFails, CrashInSubmit, Down, AgentStep, Reserve, ReserveFails, Reuse, Complete,
     WaitTimeout, CrashInReserve, WorkerStep, WorkerStart, WorkerInput, WorkerDone,
     WorkerRefuses, WorkerThrows, WorkerStops, WorkerUnsure, WorkerVars, coreVars
<1> QED
  BY <1>1 DEF Next, CoreReply, ExpireFrame, RestoreBackup, ChangeAccess, CoreCrash, Down,
     CoreRestart, Lose, AgentCrash, AgentRestart, HelperExits, vars, coreVars

(* A call that was not engaged and does not start has no input to its name. *)
LEMMA NotEngaged ==
  ASSUME TypeOK, Owned, FileDone, [Next]_vars, NEW d \in Calls, ~Engaged(d), ~Started(d)
  PROVE  /\ delivered'[d] = 0 /\ d \notin requests' /\ pc'[d] # "probing"
         /\ worker'[d].state \notin {"queued", "running"}
<1>1. ~Engaged(d)'
  BY EngagedStep
<1>2. Owned'
  BY OwnedStep
<1> QED
  BY <1>1, <1>2 DEF Engaged, Owned

(* Settled at once as stale, or as rejected with the observation live: no
   call with the same request has been sent. *)
LEMMA SettledVoid ==
  ASSUME TypeOK, Owned, FileDone, SpentOnce, restores = 0 => RowFirst, [Next]_vars,
         NEW c \in Calls, NEW v, SettledAtOnce(c, v), SaysVoid(PayloadOf[c], v)
  PROVE  Void(OpOf[c], PayloadOf[c])'
<1> USE OpOfType, PayloadOfType
<1>1. ASSUME NEW d \in Calls, OpOf[d] = OpOf[c], PayloadOf[d] = PayloadOf[c]
      PROVE  ~Engaged(d) /\ ~Started(d)
  <2>1. ~Started(d)
    BY <1>1 DEF SettledAtOnce, SettleAtOnce, Tell, Started, TypeOK
  <2>2. CASE v = "stale" /\ restores = 0
    BY <1>1, <2>1, <2>2 DEF RowFirst, SettledAtOnce
  <2>3. CASE v = "rejected"
    BY <1>1, <2>1, <2>3 DEF SpentOnce, SettledAtOnce, Kind
  <2> QED
    BY <2>2, <2>3 DEF SaysVoid
<1>2. row'[OpOf[c]].state # "absent"
  BY DEF SettledAtOnce, SettleAtOnce, TypeOK
<1>3. KindOf[PayloadOf[c]] # "exec"
  BY DEF SaysVoid, SettledAtOnce, Kind
<1> QED
  BY <1>1, <1>2, <1>3, NotEngaged DEF Void

(* Ended in the probe: only this call had spent the observation, and it was
   not sent. *)
LEMMA ProbedVoid ==
  ASSUME TypeOK, Owned, FileDone, SpentOnce, Untold, [Next]_vars,
         NEW c \in Calls, pc[c] = "probing", pc'[c] = "answered"
  PROVE  Void(OpOf[c], PayloadOf[c])'
<1> USE OpOfType, PayloadOfType
<1>1. Kind(c) # "exec" /\ Engaged(c) /\ PayloadOf[c] \notin fresh
  BY DEF Untold, SpentOnce, Engaged
<1>2. ASSUME NEW d \in Calls, PayloadOf[d] = PayloadOf[c], d # c
      PROVE  ~Engaged(d) /\ ~Started(d)
  BY <1>1, <1>2 DEF SpentOnce, Started, Kind
<1>3. c \notin requests' /\ worker'[c].state = "none"
  <2>1. c \notin requests /\ worker[c].state = "none" /\ ~Started(c)
    BY DEF Untold, Started
  <2> QED
    BY <2>1, CoreReach, DeviceReach
<1>4. delivered'[c] = 0
  <2>1. Owned'
    BY OwnedStep
  <2> QED
    BY <1>3, <2>1 DEF Owned
<1>5. PayloadOf[c] \notin fresh'
  BY <1>1, CoreReach
<1> QED
  BY <1>1, <1>2, <1>3, <1>4, <1>5, NotEngaged DEF Void, Kind

(* Every verdict that says the device was not touched is true. *)
LEMMA VoidVerdictsStep ==
  ASSUME TypeOK, RowShape, ActiveRow, Owned, FileDone, SpentOnce, Untold, VoidResults,
         VoidVerdicts, restores = 0 => RowFirst, [Next]_vars
  PROVE  VoidVerdicts'
<1> USE OpOfType, PayloadOfType
<1>1. ASSUME NEW o \in Ops, NEW p, Void(o, p) PROVE Void(o, p)'
  BY <1>1, VoidStable
<1>2. ASSUME NEW p, NEW v, SaysVoid(p, v)'
      PROVE  SaysVoid(p, v) /\ v \in {"stale", "rejected"}
  BY <1>2, RestoresStep DEF SaysVoid, TypeOK
<1>3. ASSUME NEW o \in Ops, SaysVoid(row[o].payload, row[o].outcome)'
      PROVE  Void(o, row[o].payload)'
  <2> DEFINE p == row'[o].payload
             v == row'[o].outcome
  <2>1. SaysVoid(p, v) /\ v \in {"stale", "rejected"}
    BY <1>2, <1>3 DEF SaysVoid
  <2>2. CASE row'[o] = row[o]
    <3>1. Void(o, row[o].payload)
      BY <2>1, <2>2 DEF VoidVerdicts
    <3>2. PICK q : q = row[o].payload /\ q = row'[o].payload
      BY <2>2
    <3>3. Void(o, q)'
      BY <1>1, <3>1, <3>2
    <3> QED
      BY <3>2, <3>3 DEF Void
  <2>3. CASE row'[o] = NoRow \/ v = None
    BY <2>1, <2>3 DEF NoRow, None
  <2>4. ASSUME NEW c \in Calls, NEW w \in {"stale", "rejected", "unknown"},
               OpOf[c] = o, SettledAtOnce(c, w)
        PROVE  Void(o, row[o].payload)'
    <3>1. p = PayloadOf[c] /\ (v = w \/ v = None)
      BY <2>4 DEF SettledAtOnce, SettleAtOnce, TypeOK
    <3>2. v = w
      BY <2>1, <3>1 DEF None
    <3>3. Void(OpOf[c], PayloadOf[c])'
      BY <2>1, <2>4, <3>1, <3>2, SettledVoid
    <3> QED
      BY <2>4, <3>1, <3>3 DEF Void
  <2>5. ASSUME NEW c \in Calls, OpOf[c] = o, row[o].payload = PayloadOf[c],
               row'[o].payload = row[o].payload, pc'[c] = "answered", Decides(c, v)
        PROVE  Void(o, row[o].payload)'
    <3>1. SaysVoid(PayloadOf[c], v)
      BY <2>1, <2>5
    <3>2. CASE pc[c] = "probing"
      <4>1. Void(OpOf[c], PayloadOf[c])'
        BY <2>5, <3>2, ProbedVoid
      <4> QED
        BY <2>5, <4>1 DEF Void
    <3>3. ASSUME NEW m \in replies, m.call = c, v = Classify(Kind(c), m.what)
          PROVE  Void(o, row[o].payload)'
      <4>1. m.what \in NoInput
        BY <2>1, <3>1, <3>3 DEF Classify, SaysVoid, NoInput, Native, Kind
      <4>2. Void(OpOf[c], PayloadOf[c])'
        BY <1>1, <3>3, <4>1 DEF VoidResults
      <4> QED
        BY <2>5, <4>2 DEF Void
    <3>4. ~(v = "rejected" /\ Kind(c) \in Native)
      BY <3>1 DEF SaysVoid, Native, Kind
    <3> QED
      BY <2>1, <2>5, <3>2, <3>3, <3>4 DEF Decides
  <2> QED
    BY <2>2, <2>3, <2>4, <2>5, RowStep
<1>4. ASSUME NEW c \in Calls, SaysVoid(PayloadOf[c], answer[c])'
      PROVE  Void(OpOf[c], PayloadOf[c])'
  <2>1. SaysVoid(PayloadOf[c], answer'[c]) /\ answer'[c] \in Final
    BY <1>2, <1>4 DEF SaysVoid, Final
  <2>2. CASE answer'[c] = answer[c]
    BY <1>1, <2>1, <2>2 DEF VoidVerdicts
  <2>3. CASE Answers(c)
    <3>1. row'[OpOf[c]].outcome = answer'[c] /\ row'[OpOf[c]].payload = PayloadOf[c]
      BY <2>1, <2>3 DEF Answers
    <3>2. PICK o \in Ops : o = OpOf[c]
      OBVIOUS
    <3>3. Void(o, row[o].payload)'
      BY <1>3, <1>4, <3>1, <3>2 DEF SaysVoid
    <3> QED
      BY <3>1, <3>2, <3>3 DEF Void
  <2> QED
    BY <2>2, <2>3, AnswerStep
<1> QED
  BY <1>3, <1>4 DEF VoidVerdicts

-----------------------------------------------------------------------------
(* The row comes first.                                                    *)

(* A journal file is written for a request taken off the network, or behind a
   worker that has ended. *)
LEMMA FileStep ==
  ASSUME TypeOK, [Next]_vars, NEW o \in Ops, file'[o] # file[o]
  PROVE  \E c \in Calls : /\ OpOf[c] = o
                          /\ \/ c \in requests /\ c \notin requests' /\ UNCHANGED pc
                             \/ worker[c].state = "over"
<1> USE OpOfType
<1>1. ASSUME UNCHANGED file PROVE FALSE
  BY <1>1
<1>2. ASSUME NEW c \in Calls, Receive(c), UNCHANGED pc,
             \A q \in Ops : q # OpOf[c] => file'[q] = file[q]
      PROVE  c \in requests /\ c \notin requests' /\ UNCHANGED pc /\ OpOf[c] = o
  BY <1>2 DEF Receive
<1>3. ASSUME NEW c \in Calls, Reserve(c) \/ ReserveFails(c) \/ CrashInReserve(c)
      PROVE  c \in requests /\ c \notin requests' /\ UNCHANGED pc /\ OpOf[c] = o
  <2>1. Receive(c) /\ UNCHANGED pc
    BY <1>3 DEF Reserve, ReserveFails, CrashInReserve, coreVars
  <2>2. \A q \in Ops : q # OpOf[c] => file'[q] = file[q]
    BY <1>3 DEF Reserve, ReserveFails, CrashInReserve, TypeOK
  <2> QED
    BY <1>2, <2>1, <2>2
<1>4. ASSUME NEW c \in Calls, Complete(c) PROVE worker[c].state = "over" /\ OpOf[c] = o
  BY <1>4 DEF Complete, Returned, TypeOK
<1>5. ASSUME NEW c \in Calls, Reuse(c) \/ WaitTimeout(c) PROVE FALSE
  BY <1>1, <1>5 DEF Reuse, WaitTimeout, agentVars
<1>6. ASSUME NEW c \in Calls, CoreStep(c) \/ WorkerStep(c) PROVE FALSE
  BY <1>1, <1>6 DEF CoreStep, Submit, Resubmit, ProbeOk, ProbeFails, Verified, RpcGivesUp,
     SendFails, CrashInSubmit, Down, WorkerStep, WorkerStart, WorkerInput, WorkerDone,
     WorkerRefuses, WorkerThrows, WorkerStops, WorkerUnsure, WorkerVars, agentVars
<1>7. CASE \/ \E m \in replies : CoreReply(m)
           \/ \E p \in Payloads : ExpireFrame(p)
           \/ \E q \in Ops : RestoreBackup(q)
           \/ ChangeAccess \/ CoreCrash \/ CoreRestart \/ HelperExits
           \/ Lose \/ AgentCrash \/ AgentRestart \/ UNCHANGED vars
  BY <1>1, <1>7 DEF CoreReply, ExpireFrame, RestoreBackup, ChangeAccess, CoreCrash, Down,
     CoreRestart, HelperExits, Lose, AgentCrash, AgentRestart, vars, agentVars
<1> QED
  BY <1>3, <1>4, <1>5, <1>6, <1>7 DEF Next, AgentStep

(* A row keeps its request, and a final verdict for good. *)
LEMMA RowKept ==
  ASSUME TypeOK, RowShape, ActiveRow, [Next]_vars, restores' = restores,
         NEW o \in Ops, row[o].state # "absent"
  PROVE  /\ row'[o].state # "absent" /\ row'[o].payload = row[o].payload
         /\ row[o].outcome \in Final => row'[o] = row[o]
<1>1. restores \in Nat
  BY BoundsType DEF TypeOK
<1>2. row[o].outcome \in Final => row[o].state # "running"
  BY DEF RowShape, Final, None
<1>3. ~(\E c \in Calls, v \in {"stale", "rejected", "unknown"} :
          OpOf[c] = o /\ SettledAtOnce(c, v))
  BY DEF SettledAtOnce
<1> QED
  BY <1>1, <1>2, <1>3, RowStep

(* As long as no database has been put back, the row of an operation precedes
   everything else about it. *)
LEMMA RowFirstStep ==
  ASSUME TypeOK, RowShape, ActiveRow, Owned, FileDone, SpentOnce, Untold,
         RowFirst, [Next]_vars, restores' = restores
  PROVE  RowFirst'
<1> USE OpOfType, PayloadOfType
<1>1. ASSUME NEW o \in Ops, row[o].state # "absent"
      PROVE  row'[o].state # "absent" /\ row'[o].payload = row[o].payload
             /\ (row[o].outcome \in Final => row'[o] = row[o])
  BY <1>1, RowKept
<1>2. ASSUME NEW c \in Calls, Started(c)
      PROVE  /\ row'[OpOf[c]].state # "absent" /\ row'[OpOf[c]].payload = PayloadOf[c]
             /\ \A d \in Calls : OpOf[d] = OpOf[c] => ~Engaged(d)
             /\ file'[OpOf[c]] = file[OpOf[c]] /\ file[OpOf[c]].state = "absent"
  <2>1. row'[OpOf[c]].state # "absent" /\ row'[OpOf[c]].payload = PayloadOf[c]
    BY <1>2 DEF Started, Dispatch, TypeOK
  <2>2. \A d \in Calls : OpOf[d] = OpOf[c] => ~Engaged(d)
    BY <1>2 DEF Started, RowFirst
  <2>3. file'[OpOf[c]] = file[OpOf[c]]
    BY <2>2, FileStep DEF Engaged
  <2> QED
    BY <1>2, <2>1, <2>2, <2>3 DEF Started, RowFirst
<1>3. ASSUME NEW o \in Ops, row'[o].state = "absent" PROVE file'[o].state = "absent"
  <2>1. row[o].state = "absent" /\ file[o].state = "absent"
    BY <1>3, CoreReach DEF RowFirst
  <2>2. \A d \in Calls : OpOf[d] = o => ~Engaged(d)
    BY <2>1 DEF RowFirst
  <2>3. file'[o] = file[o]
    BY <2>2, FileStep DEF Engaged
  <2> QED
    BY <2>1, <2>3
<1>4. ASSUME NEW c \in Calls, Engaged(c)'
      PROVE  row'[OpOf[c]].state # "absent" /\ row'[OpOf[c]].payload = PayloadOf[c]
  BY <1>1, <1>2, <1>4, EngagedStep DEF RowFirst
<1>5. ASSUME NEW c \in Calls, NEW d \in Calls, Engaged(c)', Engaged(d)', OpOf[d] = OpOf[c]
      PROVE  c = d
  <2>1. (Engaged(c) \/ Started(c)) /\ (Engaged(d) \/ Started(d))
    BY <1>5, EngagedStep
  <2> QED
    BY <1>2, <1>5, <2>1, StartedAlone DEF RowFirst
<1>6. ASSUME NEW c \in Calls, c \in requests' \/ pc'[c] = "probing"
      PROVE  file'[OpOf[c]].state = "absent"
  <2>1. CASE Started(c)
    BY <1>2, <2>1
  <2>2. CASE ~Started(c)
    <3>1. c \in requests \/ pc[c] = "probing"
      BY <1>6, <2>2, CoreReach
    <3>2. file[OpOf[c]].state = "absent" /\ worker[c].state # "over"
      BY <3>1 DEF RowFirst, Untold
    <3>3. ASSUME NEW d \in Calls, OpOf[d] = OpOf[c], d \in requests \/ worker[d].state = "over"
          PROVE  d = c
      BY <3>1, <3>3 DEF RowFirst, Engaged
    <3>4. ~(c \in requests /\ c \notin requests' /\ UNCHANGED pc)
      BY <1>6 DEF Untold
    <3>5. file'[OpOf[c]] = file[OpOf[c]]
      BY <3>2, <3>3, <3>4, FileStep
    <3> QED
      BY <3>2, <3>5
  <2> QED
    BY <2>1, <2>2
<1>7. ASSUME NEW c \in Calls, answer'[c] \in Final
      PROVE  row'[OpOf[c]].outcome = answer'[c] /\ row'[OpOf[c]].payload = PayloadOf[c]
  <2>1. CASE answer'[c] = answer[c]
    <3>1. row[OpOf[c]].outcome = answer[c] /\ row[OpOf[c]].payload = PayloadOf[c]
      BY <1>7, <2>1 DEF RowFirst
    <3>2. row[OpOf[c]].state # "absent"
      BY <1>7, <2>1, <3>1 DEF RowShape, Final, None
    <3> QED
      BY <1>1, <1>7, <2>1, <3>1, <3>2
  <2>2. CASE Answers(c)
    BY <1>7, <2>2 DEF Answers
  <2> QED
    BY <2>1, <2>2, AnswerStep
<1> QED
  BY <1>3, <1>4, <1>5, <1>6, <1>7 DEF RowFirst

-----------------------------------------------------------------------------
(* The invariant, and what follows from it.                                *)

(* The invariant holds at the start ... *)
LEMMA VerdictInit == Init => VerdictInv
<1> SUFFICES ASSUME Init PROVE VerdictInv
  OBVIOUS
<1>1. Inv
  BY InvInit
<1>2. \A c \in Calls : ~Engaged(c)
  BY DEF Init, Engaged, At
<1>3. SpentOnce /\ Untold
  BY <1>2 DEF SpentOnce, Untold, Init, At
<1>4. VoidResults
  BY DEF Init, VoidResults, NoFile, At, NoInput, None
<1>5. VoidVerdicts
  BY DEF Init, VoidVerdicts, SaysVoid, NoRow, None
<1>6. RowFirst
  BY <1>2 DEF Init, RowFirst, NoFile, Final, None
<1> QED
  BY <1>1, <1>3, <1>4, <1>5, <1>6 DEF VerdictInv

(* ... and is preserved by every step. *)
LEMMA VerdictNext == VerdictInv /\ [Next]_vars => VerdictInv'
<1> SUFFICES ASSUME VerdictInv, [Next]_vars PROVE VerdictInv'
  OBVIOUS
<1>1. Inv /\ Inv' /\ SpentOnce /\ Untold /\ VoidResults /\ VoidVerdicts
      /\ (restores = 0 => RowFirst)
  BY InvNext DEF VerdictInv
<1>2. SpentOnce' /\ Untold'
  BY <1>1, SpentOnceStep, UntoldStep DEF Inv
<1>3. VoidResults'
  BY <1>1, VoidResultsStep DEF Inv
<1>4. VoidVerdicts'
  BY <1>1, VoidVerdictsStep DEF Inv
<1>5. restores' = 0 => RowFirst'
  <2>1. restores' = 0 => restores = 0 /\ restores' = restores
    BY <1>1, RestoresStep, BoundsType DEF Inv, TypeOK
  <2> QED
    BY <1>1, <2>1, RowFirstStep DEF Inv
<1> QED
  BY <1>1, <1>2, <1>3, <1>4, <1>5 DEF VerdictInv

(* Every reachable state satisfies it. *)
THEOREM VerdictInvariance == Spec => []VerdictInv
  BY VerdictInit, VerdictNext, PTL DEF Spec

(* A call told "stale" by a Core that has not lost its database has not
   touched the device, nor has nor will any repeat of it. *)
THEOREM StaleTruth == Spec => [](restores = 0 => StaleUntouched)
<1>1. VerdictInv => (restores = 0 => StaleUntouched)
  BY DEF VerdictInv, VoidVerdicts, SaysVoid, Void, StaleUntouched, Same
<1> QED
  BY VerdictInvariance, <1>1, PTL

(* A browser call told "rejected" has not touched the page, nor has nor will
   any repeat of it, restored databases included. *)
THEOREM BrowserRejectedTruth == Spec => []BrowserRejectedUntouched
<1>1. VerdictInv => BrowserRejectedUntouched
  BY DEF VerdictInv, VoidVerdicts, SaysVoid, Void, BrowserRejectedUntouched, Same, Kind
<1> QED
  BY VerdictInvariance, <1>1, PTL

(* Of all calls that act on one observation, under whatever keys, at most one
   has any effect, restored databases included. *)
THEOREM OneShotHolds == Spec => []OneShotObservation
<1>1. VerdictInv => OneShotObservation
  <2> SUFFICES ASSUME VerdictInv, NEW c \in Calls, NEW d \in Calls, Kind(c) # "exec",
                      PayloadOf[c] = PayloadOf[d], delivered[c] > 0, delivered[d] > 0
               PROVE  c = d
    BY DEF OneShotObservation
  <2>1. worker[c].state # "none" /\ worker[d].state # "none"
    BY DEF VerdictInv, Inv, TypeOK, Owned
  <2> QED
    BY <2>1 DEF VerdictInv, SpentOnce, Engaged
<1> QED
  BY VerdictInvariance, <1>1, PTL

(* A request of a Core that has not lost its database is the only one of its
   operation and finds no file on the Agent. *)
THEOREM FirstContactHolds == Spec => []FirstContact
<1>1. VerdictInv => FirstContact
  <2> SUFFICES ASSUME VerdictInv, restores = 0, NEW c \in Calls, c \in requests
               PROVE  /\ file[OpOf[c]].state = "absent"
                      /\ \A d \in Calls : d # c /\ OpOf[d] = OpOf[c] => ~Engaged(d)
    BY DEF FirstContact, Engaged, VerdictInv, Inv, TypeOK
  <2> QED
    BY DEF VerdictInv, RowFirst, Engaged
<1> QED
  BY VerdictInvariance, <1>1, PTL

(* Repeats of a request are never told two different final verdicts, until a
   database is put back. *)
THEOREM OneVerdictHolds == Spec => [](restores = 0 => OneVerdict)
<1>1. VerdictInv => (restores = 0 => OneVerdict)
  BY DEF VerdictInv, RowFirst, OneVerdict, Same
<1> QED
  BY VerdictInvariance, <1>1, PTL

-----------------------------------------------------------------------------
(* The refinement of GuardedOutcome.                                       *)

(* A step either gives no answer, and enters no verdict, or leaves the device
   alone and gives one, which is the verdict it enters. *)
LEMMA OutcomeMoves ==
  ASSUME TypeOK, RowShape, ActiveRow, [Next]_vars
  PROVE  \/ /\ UNCHANGED answer
            /\ \A o \in Ops : row'[o].outcome \in {row[o].outcome, None}
         \/ /\ UNCHANGED delivered
            /\ \E c \in Calls :
                 /\ pc[c] # "answered"
                 /\ \A d \in Calls : d # c => answer'[d] = answer[d]
                 /\ \A o \in Ops : \/ row'[o].outcome = row[o].outcome
                                   \/ o = OpOf[c] /\ row'[o].outcome \in {None, answer'[c]}
<1> USE OpOfType, PayloadOfType
<1> DEFINE Silent == /\ UNCHANGED answer
                     /\ \A o \in Ops : row'[o].outcome \in {row[o].outcome, None}
           Speaks(c) ==
             /\ pc[c] # "answered"
             /\ \A d \in Calls : d # c => answer'[d] = answer[d]
             /\ \A o \in Ops : \/ row'[o].outcome = row[o].outcome
                               \/ o = OpOf[c] /\ row'[o].outcome \in {None, answer'[c]}
           Goal == Silent \/ (UNCHANGED delivered /\ \E c \in Calls : Speaks(c))
<1>1. ASSUME UNCHANGED <<row, answer>> PROVE Silent
  BY <1>1
<1>2. ASSUME NEW c \in Calls, NEW v \in Final \cup {"unknown"}, Close(c, v), Active(c)
      PROVE  Speaks(c)
  <2>0. pc[c] # "answered" /\ \A d \in Calls : d # c => answer'[d] = answer[d]
    <3>1. PICK w \in {v, "unknown"} : answer' = [answer EXCEPT ![c] = w]
      BY <1>2, CloseEffect
    <3> QED
      BY <1>2, <3>1 DEF TypeOK, Active
  <2>1. \/ row' = row \/ row' = Uncertain(OpOf[c])
        \/ row' = Finish(OpOf[c], v) /\ Tell(c, v)
    BY <1>2 DEF Close
  <2>2. CASE row' = row
    BY <2>0, <2>2
  <2>3. CASE row' = Uncertain(OpOf[c])
    <3>1. row'[OpOf[c]].outcome = None
      BY <2>3 DEF Uncertain, Settled, TypeOK
    <3>2. \A o \in Ops : o # OpOf[c] => row'[o] = row[o]
      BY <2>3 DEF Uncertain, TypeOK
    <3> QED
      BY <2>0, <3>1, <3>2
  <2>4. CASE row' = Finish(OpOf[c], v) /\ Tell(c, v)
    <3>1. row'[OpOf[c]].outcome = v
      BY <2>4 DEF Finish, Settled, TypeOK
    <3>2. \A o \in Ops : o # OpOf[c] => row'[o] = row[o]
      BY <2>4 DEF Finish, TypeOK
    <3>3. answer'[c] = v
      BY <2>4 DEF Tell, TypeOK
    <3> QED
      BY <2>0, <3>1, <3>2, <3>3
  <2> QED
    BY <2>1, <2>2, <2>3, <2>4
<1>3. ASSUME NEW c \in Calls, Submit(c) PROVE Goal
  <2>1. UNCHANGED delivered
    BY <1>3 DEF Submit, agentVars
  <2>2. CASE Started(c)
    <3>1. \A o \in Ops : row'[o] = row[o] \/ row'[o].outcome = None
      BY <2>2 DEF Started, Dispatch, TypeOK
    <3> QED
      BY <2>2, <3>1 DEF Started
  <2>3. ASSUME NEW v, SettledAtOnce(c, v) PROVE Speaks(c)
    BY <2>3 DEF SettledAtOnce, SettleAtOnce, Tell, TypeOK
  <2> QED
    BY <1>3, <2>1, <2>2, <2>3, SubmitCases
<1>4. ASSUME NEW c \in Calls, Resubmit(c) PROVE Goal
  BY <1>4 DEF Resubmit, Ready, Tell, TypeOK, agentVars
<1>5. ASSUME NEW c \in Calls,
             ProbeOk(c) \/ ProbeFails(c) \/ Verified(c) \/ RpcGivesUp(c) \/ SendFails(c)
      PROVE  Goal
  <2>1. Active(c) /\ UNCHANGED delivered /\ Classify(Kind(c), "failed") \in Final \cup {"unknown"}
    BY <1>5 DEF Active, ProbeOk, ProbeFails, Verified, RpcGivesUp, SendFails, Classify, Final,
       agentVars
  <2>2. \/ \E v \in Final \cup {"unknown"} : Close(c, v)
        \/ Goto(c, "performing") /\ UNCHANGED row
    BY <1>5, <2>1 DEF ProbeOk, ProbeFails, Verified, RpcGivesUp, SendFails, Final
  <2> QED
    BY <1>1, <1>2, <2>1, <2>2 DEF Goto
<1>6. ASSUME NEW m \in replies, CoreReply(m) PROVE Goal
  <2>1. /\ m.call \in Calls /\ Classify(Kind(m.call), m.what) \in Final \cup {"unknown"}
        /\ UNCHANGED delivered
    BY <1>6 DEF CoreReply, TypeOK, Classify, Final, agentVars
  <2>2. CASE pc[m.call] = "performing" /\ Close(m.call, Classify(Kind(m.call), m.what))
    BY <1>2, <2>1, <2>2 DEF Active
  <2>3. CASE UNCHANGED <<row, answer>>
    BY <1>1, <2>3
  <2> QED
    BY <1>6, <2>2, <2>3 DEF CoreReply, Goto
<1>7. ASSUME NEW c \in Calls, CrashInSubmit(c) PROVE Goal
  <2>1. \A o \in Ops : row'[o] = row[o] \/ row'[o].outcome = None
    BY <1>7 DEF CrashInSubmit, Insert, Dispatch, TypeOK
  <2> QED
    BY <1>7, <2>1 DEF CrashInSubmit, Down
<1>8. ASSUME NEW q \in Ops, RestoreBackup(q) PROVE Goal
  <2>1. \A o \in Ops : row'[o] = row[o] \/ row'[o].outcome = None
    BY <1>8 DEF RestoreBackup, NoRow, TypeOK
  <2> QED
    BY <1>8, <2>1 DEF RestoreBackup
<1>9. ASSUME NEW c \in Calls, AgentStep(c) \/ WorkerStep(c) PROVE Goal
  BY <1>1, <1>9 DEF AgentStep, Reserve, ReserveFails, Reuse, Complete, WaitTimeout,
     CrashInReserve, WorkerStep, WorkerStart, WorkerInput, WorkerDone, WorkerRefuses,
     WorkerThrows, WorkerStops, WorkerUnsure, WorkerVars, coreVars
<1>10. CASE \/ \E p \in Payloads : ExpireFrame(p)
            \/ ChangeAccess \/ CoreCrash \/ CoreRestart \/ HelperExits
            \/ Lose \/ AgentCrash \/ AgentRestart \/ UNCHANGED vars
  BY <1>1, <1>10 DEF ExpireFrame, ChangeAccess, CoreCrash, Down, CoreRestart, HelperExits, Lose,
     AgentCrash, AgentRestart, vars, coreVars
<1> QED
  BY <1>3, <1>4, <1>5, <1>6, <1>7, <1>8, <1>9, <1>10 DEF Next, CoreStep

(* The mapped variables of GuardedOutcome. *)
Effect == [o \in Ops |-> EffectOf(o)]
Told   == [o \in Ops |-> ToldOf(o)]

(* At the start nothing was touched and nothing told. *)
LEMMA OutcomeInit == Init => Outcome!Init
<1> SUFFICES ASSUME Init PROVE Outcome!Init
  OBVIOUS
<1>1. \A c \in Calls : Steps(c) \in Nat \ {0}
  BY StepsOfType, PayloadOfType DEF Steps
<1>2. ASSUME NEW o \in Ops PROVE EffectOf(o) = "open"
  BY <1>1 DEF Init, EffectOf, NoRow, None
<1>3. ASSUME NEW o \in Ops PROVE ToldOf(o) = {}
  BY DEF Init, ToldOf, None
<1> QED
  BY <1>2, <1>3 DEF Outcome!Init

(* Behind a row that says stale nothing has moved, and nobody is about to. *)
LEMMA VoidEffect ==
  ASSUME VerdictInv, restores = 0, NEW o \in Ops, row[o].outcome = "stale",
         NEW d \in Calls, OpOf[d] = o
  PROVE  delivered[d] = 0 /\ worker[d].state # "running"
<1>1. Void(o, row[o].payload)
  BY DEF VerdictInv, VoidVerdicts, SaysVoid
<1>2. CASE PayloadOf[d] = row[o].payload
  BY <1>1, <1>2 DEF Void
<1>3. CASE PayloadOf[d] # row[o].payload
  BY <1>3 DEF VerdictInv, Inv, RowFirst, Engaged, Owned
<1> QED
  BY <1>2, <1>3

(* A step that gives no answer: an input, or nothing that is seen outside. *)
LEMMA SilentStep ==
  ASSUME VerdictInv, [Next]_vars, restores = 0, restores' = 0, UNCHANGED answer,
         \A o \in Ops : row'[o].outcome \in {row[o].outcome, None}
  PROVE  [Outcome!Next]_(Outcome!vars)
<1> USE OpOfType, PayloadOfType
<1>1. TypeOK /\ RowShape /\ ActiveRow /\ BoundedInput /\ Owned /\ RowFirst
  BY DEF VerdictInv, Inv
<1>2. \A c \in Calls : Steps(c) \in Nat \ {0} /\ delivered[c] \in Nat /\ delivered[c] <= Steps(c)
  BY <1>1, StepsOfType DEF Steps, TypeOK, BoundedInput
<1>3. ASSUME NEW o \in Ops PROVE row'[o].outcome = "stale" <=> row[o].outcome = "stale"
  <2>1. row[o].outcome = "stale" => row'[o] = row[o]
    <3>1. row[o].outcome = "stale" => row[o].state # "absent"
      BY <1>1 DEF RowShape, None
    <3> QED
      BY <1>1, <3>1, RowKept DEF Final
  <2> QED
    BY <2>1 DEF None
<1>4. Told' = Told
  BY DEF Told, ToldOf
<1>5. CASE UNCHANGED delivered
  <2>1. ASSUME NEW o \in Ops PROVE EffectOf(o)' = EffectOf(o)
    BY <1>3, <1>5 DEF EffectOf, Steps
  <2>2. Effect' = Effect
    BY <2>1 DEF Effect
  <2> QED
    BY <1>4, <2>2 DEF Effect, Told, Outcome!vars
<1>6. ASSUME NEW c \in Calls, delivered[c] < Steps(c),
             delivered' = [delivered EXCEPT ![c] = @ + 1]
      PROVE  [Outcome!Next]_(Outcome!vars)
  <2> DEFINE o == OpOf[c]
  <2>1. delivered'[c] = delivered[c] + 1 /\ \A d \in Calls : d # c => delivered'[d] = delivered[d]
    BY <1>1, <1>6 DEF TypeOK
  <2>2. worker[c].state = "running"
    BY <1>1, <1>2, <2>1, DeviceReach
  <2>3. \A d \in Calls : OpOf[d] = o /\ d # c => delivered[d] = 0
    BY <1>1, <2>2 DEF Owned
  <2>4. row[o].outcome # "stale" /\ row'[o].outcome # "stale"
    BY <1>3, <2>2, VoidEffect
  <2>5. EffectOf(o) = IF delivered[c] > 0 THEN "begun" ELSE "open"
    BY <1>2, <1>6, <2>3, <2>4 DEF EffectOf
  <2>6. EffectOf(o)' = IF delivered'[c] = Steps(c) THEN "whole" ELSE "begun"
    BY <1>2, <2>1, <2>3, <2>4 DEF EffectOf, Steps
  <2>7. ASSUME NEW q \in Ops, q # o PROVE EffectOf(q)' = EffectOf(q)
    BY <1>3, <2>1, <2>7 DEF EffectOf, Steps
  <2>8. Effect' = [Effect EXCEPT ![o] = EffectOf(o)']
    BY <2>7 DEF Effect
  <2>9. CASE delivered'[c] = Steps(c)
    <3>1. Effect[o] \in {"open", "begun"} /\ Effect' = [Effect EXCEPT ![o] = "whole"]
      BY <2>5, <2>6, <2>8, <2>9 DEF Effect
    <3>2. Outcome!Complete(o)
      BY <1>4, <3>1 DEF Outcome!Complete, Outcome!Advance, Effect, Told
    <3> QED
      BY <3>2 DEF Outcome!Next
  <2>10. CASE delivered'[c] # Steps(c) /\ delivered[c] > 0
    <3>1. Effect' = Effect
      BY <2>5, <2>6, <2>8, <2>10 DEF Effect
    <3> QED
      BY <1>4, <3>1 DEF Effect, Told, Outcome!vars
  <2>11. CASE delivered'[c] # Steps(c) /\ ~(delivered[c] > 0)
    <3>1. Effect[o] \in {"open"} /\ Effect' = [Effect EXCEPT ![o] = "begun"]
      BY <2>5, <2>6, <2>8, <2>11 DEF Effect
    <3>2. Outcome!Begin(o)
      BY <1>4, <3>1 DEF Outcome!Begin, Outcome!Advance, Effect, Told
    <3> QED
      BY <3>2 DEF Outcome!Next
  <2> QED
    BY <2>9, <2>10, <2>11
<1> QED
  BY <1>1, <1>5, <1>6, InputStep

(* A step that answers call c: a definite answer, or one that promises
   nothing. *)
LEMMA SpeakingStep ==
  ASSUME VerdictInv, VerdictInv', [Next]_vars, restores = 0, restores' = 0,
         UNCHANGED delivered, NEW c \in Calls, pc[c] # "answered",
         \A d \in Calls : d # c => answer'[d] = answer[d],
         \A o \in Ops : \/ row'[o].outcome = row[o].outcome
                        \/ o = OpOf[c] /\ row'[o].outcome \in {None, answer'[c]}
  PROVE  [Outcome!Next]_(Outcome!vars)
<1> USE OpOfType, PayloadOfType
<1> DEFINE o == OpOf[c]
<1>1. /\ TypeOK /\ RowShape /\ ActiveRow /\ RowFirst /\ RowFirst' /\ answer[c] = None
      /\ \A d \in Calls : Steps(d) \in Nat \ {0}
  BY StepsOfType DEF VerdictInv, Inv, Untold, Steps
<1>2. ASSUME NEW q \in Ops, row[q].outcome \in Final PROVE row'[q] = row[q]
  <2>1. row[q].state # "absent"
    BY <1>1, <1>2 DEF RowShape, Final, None
  <2> QED
    BY <1>1, <1>2, <2>1, RowKept
<1>3. ASSUME NEW q \in Ops, q # o \/ answer'[c] # "stale" PROVE EffectOf(q)' = EffectOf(q)
  <2>1. row'[q].outcome = "stale" <=> row[q].outcome = "stale"
    BY <1>2, <1>3 DEF Final, None
  <2> QED
    BY <2>1 DEF EffectOf, Steps
<1>4. ASSUME NEW q \in Ops, q # o \/ answer'[c] \notin {"confirmed", "stale"}
      PROVE  ToldOf(q)' = ToldOf(q)
  <2>1. ASSUME NEW x \in {"confirmed", "stale"}, NEW d \in Calls, OpOf[d] = q
        PROVE  answer'[d] = x <=> answer[d] = x
    BY <1>1, <1>4, <2>1 DEF None
  <2> QED
    BY <2>1 DEF ToldOf
<1>4a. ASSUME answer'[c] \in {"confirmed", "stale"}
      PROVE  Told' = [Told EXCEPT ![o] = @ \cup {answer'[c]}]
  <2>1. ASSUME NEW x \in {"confirmed", "stale"}, NEW d \in Calls
        PROVE  answer'[d] = x <=> (answer[d] = x \/ (d = c /\ x = answer'[c]))
    BY <1>1, <2>1 DEF None
  <2>2. ToldOf(o)' = ToldOf(o) \cup {answer'[c]}
    <3>1. ASSUME NEW x PROVE x \in ToldOf(o)' <=> (x \in ToldOf(o) \/ x = answer'[c])
      BY <1>4a, <2>1 DEF ToldOf
    <3> QED
      BY <3>1
  <2> QED
    BY <1>4, <2>2 DEF Told
<1>5. CASE answer'[c] = "confirmed"
  <2>1. row'[o].outcome = "confirmed"
    BY <1>1, <1>5 DEF RowFirst, Final
  <2>2. EffectOf(o) = "whole"
    <3>1. EffectOf(o)' = "whole"
      <4>1. Performed(o, row[o].payload)'
        BY <2>1 DEF VerdictInv, Inv, CoreTruth
      <4> QED
        BY <2>1, <4>1 DEF EffectOf, Performed, Steps
    <3> QED
      BY <1>3, <1>5, <3>1
  <2>3. Effect' = Effect
    BY <1>3, <1>5 DEF Effect
  <2>4. Told' = [Told EXCEPT ![o] = @ \cup {"confirmed"}]
    BY <1>5, <1>4a
  <2>5. Outcome!Confirm(o)
    BY <2>2, <2>3, <2>4 DEF Outcome!Confirm, Effect, Told
  <2> QED
    BY <2>5 DEF Outcome!Next
<1>6. CASE answer'[c] = "stale"
  <2>1. row'[o].outcome = "stale"
    BY <1>1, <1>6 DEF RowFirst, Final
  <2>2. EffectOf(o)' = "void"
    BY <2>1 DEF EffectOf
  <2>3. Told' = [Told EXCEPT ![o] = @ \cup {"stale"}]
    BY <1>6, <1>4a
  <2>4. Effect' = [Effect EXCEPT ![o] = "void"]
    BY <1>3, <2>2 DEF Effect
  <2>5. CASE row[o].outcome = "stale"
    <3>1. EffectOf(o) = "void"
      BY <2>5 DEF EffectOf
    <3>2. Effect' = Effect
      BY <2>4, <3>1 DEF Effect
    <3>3. Outcome!Repeat(o)
      BY <2>3, <3>1, <3>2 DEF Outcome!Repeat, Effect, Told
    <3> QED
      BY <3>3 DEF Outcome!Next
  <2>6. CASE row[o].outcome # "stale"
    <3>1. ASSUME NEW d \in Calls, OpOf[d] = o PROVE delivered[d] = 0
      <4>1. Void(o, row[o].payload)'
        BY <2>1 DEF VerdictInv, VoidVerdicts, SaysVoid
      <4>2. CASE PayloadOf[d] = row'[o].payload
        BY <3>1, <4>1, <4>2 DEF Void
      <4>3. CASE PayloadOf[d] # row'[o].payload
        BY <3>1, <4>3 DEF VerdictInv, Inv, RowFirst, Engaged, Owned
      <4> QED
        BY <4>2, <4>3
    <3>2. EffectOf(o) = "open"
      BY <1>1, <2>6, <3>1 DEF EffectOf
    <3>3. Outcome!Reject(o)
      BY <2>3, <2>4, <3>2 DEF Outcome!Reject, Outcome!Advance, Effect, Told
    <3> QED
      BY <3>3 DEF Outcome!Next
  <2> QED
    BY <2>5, <2>6
<1>7. CASE answer'[c] \notin {"confirmed", "stale"}
  <2>1. Effect' = Effect
    BY <1>3, <1>7 DEF Effect
  <2>2. Told' = Told
    BY <1>4, <1>7 DEF Told
  <2> QED
    BY <2>1, <2>2 DEF Effect, Told, Outcome!vars
<1> QED
  BY <1>5, <1>6, <1>7

(* As long as no database has been put back, every step is a step of the
   promise or leaves it as it is. *)
LEMMA OutcomeStep ==
  ASSUME VerdictInv, VerdictInv', [Next]_vars, restores' = 0
  PROVE  [Outcome!Next]_(Outcome!vars)
<1>1. restores = 0
  BY RestoresStep DEF VerdictInv, Inv, TypeOK
<1> QED
  BY <1>1, OutcomeMoves, SilentStep, SpeakingStep DEF VerdictInv, Inv

(* The whole pipeline of Core, network, Agent and worker gives each operation
   no more than one effect, confirms only a whole one and calls stale only one
   that never begins, at least until the Core's database is first put back. *)
THEOREM OutcomeUntilRestored ==
  Spec => Outcome!Init /\ [][restores' = 0 => [Outcome!Next]_(Outcome!vars)]_vars
<1>1. Init => Outcome!Init
  BY OutcomeInit
<1>2. ASSUME VerdictInv, VerdictInv', [Next]_vars
      PROVE  [restores' = 0 => [Outcome!Next]_(Outcome!vars)]_vars
  BY <1>2, OutcomeStep
<1> QED
  BY <1>1, <1>2, VerdictInvariance, PTL DEF Spec

(* With its database intact, the pipeline implements GuardedOutcome. *)
THEOREM OutcomeImplemented ==
  ASSUME MaxRestores = 0
  PROVE  Spec => ImplementsOutcome
<1>1. Init => Outcome!Init
  BY OutcomeInit
<1>2. ASSUME VerdictInv, VerdictInv', [Next]_vars
      PROVE  [Outcome!Next]_(Outcome!vars)
  <2>1. restores' = 0
    BY <1>2 DEF VerdictInv, Inv, TypeOK
  <2> QED
    BY <1>2, <2>1, OutcomeStep
<1> QED
  BY <1>1, <1>2, VerdictInvariance, PTL DEF Spec, ImplementsOutcome, Outcome!Spec

=============================================================================
