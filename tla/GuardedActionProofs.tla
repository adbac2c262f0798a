------------------------- MODULE GuardedActionProofs -------------------------
(***************************************************************************)
(* Proofs about GuardedAction, for every set of operations, calls and      *)
(* request bodies and every bound.                                         *)
(***************************************************************************)
EXTENDS GuardedAction, TLAPS

-----------------------------------------------------------------------------
(* What the parts of the Core's turns do.                                  *)

(* Closing a call answers it with its verdict or "unknown" and leaves the row
   alone or settles it. *)
LEMMA CloseEffect ==
  ASSUME TypeOK, RowShape, NEW c \in Calls, NEW v \in Final \cup {"unknown"}, Close(c, v)
  PROVE  /\ row' \in [Ops -> Rows]
         /\ RowShape'
         /\ \A o \in Ops : row'[o].payload = row[o].payload
         /\ \A o \in Ops : row'[o].state = "absent" <=> row[o].state = "absent"
         /\ \A o \in Ops : row'[o].outcome = row[o].outcome
                             \/ (o = OpOf[c] /\ row'[o].outcome = v)
         /\ pc' = [pc EXCEPT ![c] = "answered"]
         /\ \E w \in {v, "unknown"} : answer' = [answer EXCEPT ![c] = w]
<1> DEFINE o == OpOf[c]
<1>1. o \in Ops
  BY OpOfType
<1>2. row[o] \in Rows
  BY <1>1 DEF TypeOK
<1>3. CASE MayClose(o) /\ v \in Final /\ row' = Finish(o, v) /\ Tell(c, v)
  BY <1>1, <1>2, <1>3 DEF TypeOK, RowShape, Rows, MayClose, Tell, Finish, Settled
<1>4. CASE MayClose(o) /\ row' = Uncertain(o) /\ Tell(c, "unknown")
  BY <1>1, <1>2, <1>4 DEF TypeOK, RowShape, Rows, MayClose, Tell, Uncertain, Settled
<1>5. CASE UNCHANGED row /\ Tell(c, "unknown")
  BY <1>5 DEF TypeOK, RowShape, Tell
<1> QED
  BY <1>3, <1>4, <1>5 DEF Close

(* A turn that settles the operation at once writes a well-formed row. *)
LEMMA FirstTurnEffect ==
  ASSUME TypeOK, RowShape, NEW c \in Calls, row[OpOf[c]].state = "absent", FirstTurn(c)
  PROVE  /\ fresh' \in SUBSET Payloads
         /\ requests' \in {requests, requests \cup {c}}
         /\ \E r \in Rows :
              /\ row' = [row EXCEPT ![OpOf[c]] = r]
              /\ r.state # "absent" /\ r.payload = PayloadOf[c]
              /\ r.outcome # "confirmed"
              /\ IF r.state = "completed" THEN r.outcome \in Final ELSE r.outcome = None
         /\ \E s \in {"answered", "performing", "probing"} : pc' = [pc EXCEPT ![c] = s]
         /\ \E w \in {"stale", "rejected", "unknown"} :
              answer' \in {answer, [answer EXCEPT ![c] = w]}
<1>1. PayloadOf[c] \in Payloads /\ OpOf[c] \in Ops
  BY OpOfType, PayloadOfType
<1>2. ASSUME NEW v \in {"stale", "rejected", "unknown"}, SettleAtOnce(c, v)
      PROVE  \E r \in Rows :
               /\ row' = [row EXCEPT ![OpOf[c]] = r]
               /\ r.state # "absent" /\ r.payload = PayloadOf[c]
               /\ r.outcome # "confirmed"
               /\ IF r.state = "completed" THEN r.outcome \in Final ELSE r.outcome = None
  <2> DEFINE r == [state   |-> IF v \in Final THEN "completed" ELSE "needs_review",
                   payload |-> PayloadOf[c], epoch |-> epoch,
                   outcome |-> IF v \in Final THEN v ELSE None]
  <2>1. r \in Rows
    BY <1>1 DEF Rows, TypeOK, None, Final
  <2> WITNESS r \in Rows
  <2> QED
    BY <1>2 DEF SettleAtOnce, None, Final
<1>3. ASSUME row' = Dispatch(OpOf[c], PayloadOf[c])
      PROVE  \E r \in Rows :
               /\ row' = [row EXCEPT ![OpOf[c]] = r]
               /\ r.state # "absent" /\ r.payload = PayloadOf[c]
               /\ r.outcome # "confirmed"
               /\ IF r.state = "completed" THEN r.outcome \in Final ELSE r.outcome = None
  <2> DEFINE r == [state |-> "running", payload |-> PayloadOf[c], epoch |-> epoch,
                   outcome |-> None]
  <2>1. r \in Rows
    BY <1>1 DEF Rows, TypeOK, None, Final
  <2> WITNESS r \in Rows
  <2> QED
    BY <1>3 DEF Dispatch, None, Final
<1>4. \/ \E v \in {"stale", "rejected", "unknown"} :
           SettleAtOnce(c, v) /\ requests' = requests /\ fresh' \in {fresh, fresh \ {PayloadOf[c]}}
      \/ /\ row' = Dispatch(OpOf[c], PayloadOf[c]) /\ fresh' = fresh \ {PayloadOf[c]}
         /\ \/ requests' = requests \cup {c} /\ Goto(c, "performing")
            \/ requests' = requests /\ Goto(c, "probing")
  BY DEF FirstTurn, Consume
<1> QED
  <2>1. CASE \E v \in {"stale", "rejected", "unknown"} :
               SettleAtOnce(c, v) /\ requests' = requests
               /\ fresh' \in {fresh, fresh \ {PayloadOf[c]}}
    BY <1>2, <2>1 DEF SettleAtOnce, Tell, TypeOK
  <2>2. CASE /\ row' = Dispatch(OpOf[c], PayloadOf[c]) /\ fresh' = fresh \ {PayloadOf[c]}
             /\ \/ requests' = requests \cup {c} /\ Goto(c, "performing")
                \/ requests' = requests /\ Goto(c, "probing")
    BY <1>3, <2>2 DEF Goto, TypeOK
  <2> QED
    BY <1>4, <2>1, <2>2

-----------------------------------------------------------------------------
(* Types and the shape of the two journals.                                *)

LEMMA ShapeStep ==
  ASSUME TypeOK, RowShape, FileShape, [Next]_vars
  PROVE  TypeOK' /\ RowShape' /\ FileShape'
<1> USE OpOfType, PayloadOfType, KindOfType, StepsOfType, BoundsType
<1> DEFINE Goal == TypeOK' /\ RowShape' /\ FileShape'
<1>1. ASSUME NEW c \in Calls, Submit(c) PROVE Goal
  <2>1. UNCHANGED <<coreUp, epoch, restores, access, replies, agentVars>>
    BY <1>1 DEF Submit, FirstSeen
  <2>2. PICK r \in Rows : row' = [row EXCEPT ![OpOf[c]] = r]
          /\ IF r.state = "completed" THEN r.outcome \in Final ELSE r.outcome = None
    BY <1>1, FirstTurnEffect DEF Submit, FirstSeen
  <2>3. pc' \in [Calls -> {"idle", "probing", "performing", "verifying", "answered", "lost"}]
    BY <1>1, FirstTurnEffect DEF Submit, FirstSeen, TypeOK
  <2>4. answer' \in [Calls -> Verdicts \cup {None}]
    BY <1>1, FirstTurnEffect DEF Submit, FirstSeen, TypeOK, Verdicts, Final
  <2>5. fresh' \in SUBSET Payloads /\ requests' \in SUBSET Calls
    BY <1>1, FirstTurnEffect DEF Submit, FirstSeen, TypeOK
  <2> QED
    BY <2>1, <2>2, <2>3, <2>4, <2>5 DEF TypeOK, RowShape, FileShape, agentVars
<1>2. ASSUME NEW c \in Calls, Resubmit(c) PROVE Goal
  BY <1>2 DEF Resubmit, Recall, FirstSeen, Ready, Tell, TypeOK, RowShape, FileShape, netVars, agentVars,
     Verdicts, Final
<1>3. ASSUME NEW c \in Calls, NEW v \in Final \cup {"unknown"}, Close(c, v),
             requests' \in SUBSET Calls, replies' \in SUBSET replies,
             UNCHANGED <<coreUp, epoch, restores, access, fresh, agentVars>>
      PROVE  Goal
  <2>1. row' \in [Ops -> Rows] /\ RowShape'
    BY <1>3, CloseEffect
  <2>2. pc' \in [Calls -> {"idle", "probing", "performing", "verifying", "answered", "lost"}]
    BY <1>3, CloseEffect DEF TypeOK
  <2>3. answer' \in [Calls -> Verdicts \cup {None}]
    <3>1. PICK w \in {v, "unknown"} : answer' = [answer EXCEPT ![c] = w]
      BY <1>3, CloseEffect
    <3>2. w \in Verdicts /\ answer \in [Calls -> Verdicts \cup {None}]
      BY DEF TypeOK, Verdicts, Final
    <3> QED
      BY <3>1, <3>2
  <2> QED
    BY <1>3, <2>1, <2>2, <2>3 DEF TypeOK, FileShape, agentVars
<1>4. ASSUME NEW c \in Calls, NEW l \in {"performing", "verifying"}, Goto(c, l),
             requests' \in SUBSET Calls, replies' \in SUBSET replies,
             UNCHANGED <<coreUp, epoch, restores, access, row, fresh, agentVars>>
      PROVE  Goal
  BY <1>4 DEF Goto, TypeOK, RowShape, FileShape, agentVars
<1>5. ASSUME NEW c \in Calls, ProbeOk(c) PROVE Goal
  BY <1>3, <1>4, <1>5 DEF ProbeOk, TypeOK
<1>6. ASSUME NEW c \in Calls, ProbeFails(c) PROVE Goal
  BY <1>3, <1>6 DEF ProbeFails, TypeOK, netVars, Final
<1>7. ASSUME NEW m \in replies, CoreReply(m) PROVE Goal
  <2>1. m.call \in Calls /\ Classify(Kind(m.call), m.what) \in Final \cup {"unknown"}
    BY DEF TypeOK, Classify, Final
  <2>2. CASE UNCHANGED <<row, pc, answer>>
    BY <1>7, <2>2 DEF CoreReply, TypeOK, RowShape, FileShape, agentVars
  <2> QED
    BY <1>3, <1>4, <1>7, <2>1, <2>2 DEF CoreReply, TypeOK
<1>8. ASSUME NEW c \in Calls, Verified(c) PROVE Goal
  BY <1>3, <1>8 DEF Verified, TypeOK, netVars, Final
<1>9. ASSUME NEW c \in Calls, RpcGivesUp(c) PROVE Goal
  BY <1>3, <1>9 DEF RpcGivesUp, TypeOK, netVars
<1>10. ASSUME NEW c \in Calls, SendFails(c) PROVE Goal
  <2>1. Classify(Kind(c), "failed") \in Final \cup {"unknown"}
    BY DEF Classify, Final
  <2> QED
    BY <1>3, <1>10, <2>1 DEF SendFails, TypeOK
<1>11. ASSUME NEW c \in Calls, CrashInSubmit(c) PROVE Goal
  <2>1. PICK s \in {"queued", "running"}, e \in 0..MaxEpoch :
          row' = [row EXCEPT ![OpOf[c]] = [state |-> s, payload |-> PayloadOf[c],
                                           epoch |-> e, outcome |-> None]]
    BY <1>11 DEF CrashInSubmit, Insert, Dispatch, TypeOK
  <2>2. row' \in [Ops -> Rows] /\ RowShape'
    BY <2>1 DEF TypeOK, Rows, RowShape
  <2> QED
    BY <1>11, <2>2 DEF CrashInSubmit, Down, TypeOK, FileShape, netVars, agentVars
<1>12. ASSUME CoreCrash PROVE Goal
  BY <1>12 DEF CoreCrash, Down, TypeOK, RowShape, FileShape, netVars, agentVars
<1>13. ASSUME CoreRestart PROVE Goal
  BY <1>13 DEF CoreRestart, TypeOK, RowShape, FileShape, netVars, agentVars
<1>14. ASSUME NEW o \in Ops, RestoreBackup(o) PROVE Goal
  BY <1>14 DEF RestoreBackup, NoRow, Rows, TypeOK, RowShape, FileShape, netVars, agentVars
<1>15. ASSUME ChangeAccess PROVE Goal
  BY <1>15 DEF ChangeAccess, TypeOK, RowShape, FileShape, netVars, agentVars
<1>16. ASSUME NEW p \in Payloads, ExpireFrame(p) PROVE Goal
  BY <1>16 DEF ExpireFrame, TypeOK, RowShape, FileShape, netVars, agentVars
<1>17. CASE Lose
  BY <1>17 DEF Lose, TypeOK, RowShape, FileShape, coreVars, agentVars
<1>31. ASSUME NEW c \in Calls, NEW x \in {Damaged, Reserved(c)},
              file' = [file EXCEPT ![OpOf[c]] = x]
       PROVE  file' \in [Ops -> Files] /\ FileShape'
  <2>1. x \in Files /\ x.state # "completed" /\ x.result = None
    BY DEF Damaged, Reserved, Files, None
  <2> QED
    BY <1>31, <2>1 DEF TypeOK, FileShape
<1>18. ASSUME NEW c \in Calls, Reserve(c) PROVE Goal
  BY <1>18 DEF Reserve, Unreserved, Receive, Reserved, At, Files, Workers, None, TypeOK, RowShape,
     FileShape, coreVars
<1>19. ASSUME NEW c \in Calls, ReserveFails(c) PROVE Goal
  <2>1. replies' \in SUBSET [call : Calls, what : Replies] /\ requests' \in SUBSET Calls
    BY <1>19 DEF ReserveFails, Receive, Send, Replies, TypeOK
  <2>2. file' \in [Ops -> Files] /\ FileShape'
    BY <1>19, <1>31 DEF ReserveFails, TypeOK, FileShape
  <2> QED
    BY <1>19, <2>1, <2>2 DEF ReserveFails, TypeOK, RowShape, coreVars
<1>20. ASSUME NEW c \in Calls, Reuse(c) PROVE Goal
  BY <1>20 DEF Reuse, Receive, FromFile, Send, Replies, Results, TypeOK, RowShape, FileShape,
     coreVars, agentVars
<1>21. ASSUME NEW c \in Calls, Complete(c) PROVE Goal
  <2>1. replies' \in SUBSET [call : Calls, what : Replies]
    BY <1>21 DEF Complete, Returned, Send, Replies, Results, TypeOK
  <2>2. ASSUME NEW r \in Values,
               file' = [file EXCEPT ![OpOf[c]] =
                          [state |-> "completed", payload |-> PayloadOf[c], result |-> r]]
        PROVE  file' \in [Ops -> Files] /\ FileShape'
    BY <2>2 DEF Files, TypeOK, FileShape
  <2>3. file' \in [Ops -> Files] /\ FileShape'
    BY <1>21, <2>2 DEF Complete, Returned, TypeOK, FileShape
  <2> QED
    BY <1>21, <2>1, <2>3 DEF Complete, Returned, TypeOK, RowShape, coreVars
<1>22. ASSUME NEW c \in Calls, WaitTimeout(c) PROVE Goal
  BY <1>22 DEF WaitTimeout, Send, Replies, TypeOK, RowShape, FileShape, coreVars
<1>23. ASSUME NEW c \in Calls, CrashInReserve(c) PROVE Goal
  <2>1. file' \in [Ops -> Files] /\ FileShape'
    BY <1>23, <1>31 DEF CrashInReserve, TypeOK, FileShape
  <2> QED
    BY <1>23, <2>1 DEF CrashInReserve, Receive, TypeOK, RowShape, coreVars
<1>24. ASSUME AgentCrash \/ AgentRestart PROVE Goal
  BY <1>24 DEF AgentCrash, AgentRestart, TypeOK, RowShape, FileShape, coreVars, netVars
<1>25. ASSUME NEW c \in Calls, WorkerStart(c) PROVE Goal
  BY <1>25 DEF WorkerStart, At, WorkerVars, Workers, TypeOK, RowShape, FileShape,
     coreVars, netVars
<1>26. ASSUME NEW c \in Calls, WorkerInput(c) PROVE Goal
  BY <1>26 DEF WorkerInput, WorkerVars, TypeOK, RowShape, FileShape, coreVars, netVars
<1>27. ASSUME NEW c \in Calls,
              WorkerDone(c) \/ WorkerRefuses(c) \/ WorkerThrows(c) \/ WorkerStops(c)
       PROVE  Goal
  <2>1. PICK r \in Results : Over(c, r)
    BY <1>27 DEF WorkerDone, WorkerRefuses, WorkerThrows, WorkerStops, Results, Values, Errors
  <2>2. UNCHANGED <<WorkerVars, delivered>>
    BY <1>27 DEF WorkerDone, WorkerRefuses, WorkerThrows, WorkerStops
  <2> QED
    BY <2>1, <2>2 DEF Over, Workers, WorkerVars, TypeOK, RowShape, FileShape, coreVars, netVars
<1>28. ASSUME NEW c \in Calls, WorkerUnsure(c) PROVE Goal
  BY <1>28 DEF WorkerUnsure, Over, Workers, Results, Values, Errors, WorkerVars, TypeOK,
     RowShape, FileShape, coreVars, netVars
<1>29. ASSUME HelperExits PROVE Goal
  BY <1>29 DEF HelperExits, At, Workers, Replies, TypeOK, RowShape, FileShape, coreVars
<1>30. CASE UNCHANGED vars
  BY <1>30 DEF vars, coreVars, netVars, agentVars, TypeOK, RowShape, FileShape
<1> QED
  BY <1>1, <1>2, <1>5, <1>6, <1>7, <1>8, <1>9, <1>10, <1>11, <1>12, <1>13, <1>14, <1>15,
     <1>16, <1>17, <1>18, <1>19, <1>20, <1>21, <1>22, <1>23, <1>24, <1>25, <1>26, <1>27,
     <1>28, <1>29, <1>30
  DEF Next, CoreStep, AgentStep, WorkerStep

-----------------------------------------------------------------------------
(* At most one worker per operation.                                       *)

(* A worker stands behind a file of its own operation, alone, and a completed
   file has none left. *)
LEMMA OwnedStep ==
  ASSUME TypeOK, Owned, FileDone, [Next]_vars
  PROVE  Owned' /\ FileDone'
<1> USE OpOfType, PayloadOfType
<1> DEFINE Goal == Owned' /\ FileDone'
<1>1. ASSUME UNCHANGED <<file, worker, delivered>> PROVE Goal
  BY <1>1 DEF Owned, FileDone
(* A file that leaves "absent" without a worker, or is replaced by one that is
   not completed while nobody works behind it. *)
<1>2. ASSUME NEW c \in Calls, NEW x \in {Damaged, Reserved(c)}, file[OpOf[c]].state = "absent",
             file' \in {file, [file EXCEPT ![OpOf[c]] = x]}, UNCHANGED <<worker, delivered>>
      PROVE  Goal
  <2>1. x.state \notin {"absent", "completed"}
    BY DEF Damaged, Reserved
  <2> QED
    BY <1>2, <2>1 DEF Owned, FileDone, TypeOK
<1>3. ASSUME NEW c \in Calls, Reserve(c) PROVE Goal
  BY <1>3 DEF Reserve, Unreserved, Reserved, At, Owned, FileDone, TypeOK, Workers
<1>4. ASSUME NEW c \in Calls, Complete(c) PROVE Goal
  <2>1. worker[c].state = "over" /\ UNCHANGED <<worker, delivered>>
    BY <1>4 DEF Complete, Returned
  <2>2. \A o \in Ops : \/ file'[o] = file[o]
                       \/ o = OpOf[c] /\ file'[o].state = "completed"
    BY <1>4 DEF Complete, Returned, TypeOK
  <2>3. Owned'
    BY <2>1, <2>2 DEF Owned
  <2>4. FileDone'
    BY <2>1, <2>2 DEF Owned, FileDone
  <2> QED
    BY <2>3, <2>4
<1>5. ASSUME NEW c \in Calls, NEW w \in Workers, w.state \in {"running", "over"},
             worker[c].state \in {"queued", "running"},
             worker' = [worker EXCEPT ![c] = w],
             \/ delivered' = delivered
             \/ delivered' = [delivered EXCEPT ![c] = delivered[c] + 1],
             UNCHANGED file
      PROVE  Goal
  <2>1. worker \in [Calls -> Workers] /\ delivered \in [Calls -> Nat]
    BY DEF TypeOK
  <2>2. \A d \in Calls : worker'[d] = IF d = c THEN w ELSE worker[d]
    BY <1>5, <2>1
  <2>3. \A d \in Calls : d # c => delivered'[d] = delivered[d]
    BY <1>5, <2>1
  <2>4. Owned'
    BY <1>5, <2>2, <2>3 DEF Owned
  <2>5. FileDone'
    BY <1>5, <2>2 DEF FileDone
  <2> QED
    BY <2>4, <2>5
<1>6. ASSUME NEW c \in Calls, WorkerStep(c) PROVE Goal
  <2>1. CASE WorkerStart(c)
    <3>1. At("running") \in Workers /\ At("running").state = "running"
      BY DEF At, Workers
    <3>2. /\ worker[c].state = "queued" /\ worker' = [worker EXCEPT ![c] = At("running")]
          /\ delivered' = delivered /\ file' = file
      BY <2>1 DEF WorkerStart, WorkerVars
    <3> QED
      BY <1>5, <3>1, <3>2
  <2>2. CASE WorkerInput(c)
    BY <2>2 DEF WorkerInput, WorkerVars, Owned, FileDone, TypeOK, Workers
  <2>3. CASE WorkerDone(c) \/ WorkerRefuses(c) \/ WorkerThrows(c) \/ WorkerStops(c)
    <3>1. PICK r \in Results : worker' = [worker EXCEPT ![c] = [state |-> "over", result |-> r]]
      BY <2>3 DEF WorkerDone, WorkerRefuses, WorkerThrows, WorkerStops, Over,
         Results, Values, Errors
    <3>2. worker[c].state = "running" /\ delivered' = delivered /\ file' = file
      BY <2>3 DEF WorkerDone, WorkerRefuses, WorkerThrows, WorkerStops, WorkerVars
    <3>3. [state |-> "over", result |-> r] \in Workers
      BY DEF Workers
    <3> QED
      BY <1>5, <3>1, <3>2, <3>3
  <2>4. CASE WorkerUnsure(c)
    <3>1. PICK r \in Results : worker' = [worker EXCEPT ![c] = [state |-> "over", result |-> r]]
      BY <2>4 DEF WorkerUnsure, Over, Results, Values, Errors
    <3>2. /\ worker[c].state = "running" /\ file' = file
          /\ \/ delivered' = delivered
             \/ delivered' = [delivered EXCEPT ![c] = delivered[c] + 1]
      BY <2>4 DEF WorkerUnsure, WorkerVars
    <3>3. [state |-> "over", result |-> r] \in Workers
      BY DEF Workers
    <3> QED
      BY <1>5, <3>1, <3>2, <3>3
  <2> QED
    BY <1>6, <2>1, <2>2, <2>3, <2>4 DEF WorkerStep
<1>7. ASSUME HelperExits PROVE Goal
  BY <1>7 DEF HelperExits, At, Owned, FileDone, TypeOK, Workers
<1>8. ASSUME NEW c \in Calls, CoreStep(c) PROVE Goal
  BY <1>1, <1>8 DEF CoreStep, Submit, Resubmit, ProbeOk, ProbeFails, Verified, RpcGivesUp,
     SendFails, CrashInSubmit, Down, agentVars
<1>9. ASSUME NEW c \in Calls, AgentStep(c) PROVE Goal
  <2>1. CASE ReserveFails(c) \/ CrashInReserve(c)
    BY <1>2, <2>1 DEF ReserveFails, CrashInReserve, Unreserved
  <2>2. CASE Reuse(c) \/ WaitTimeout(c)
    BY <1>1, <2>2 DEF Reuse, WaitTimeout, agentVars
  <2> QED
    BY <1>3, <1>4, <1>9, <2>1, <2>2 DEF AgentStep
<1>10. CASE \/ \E m \in replies : CoreReply(m)
            \/ \E p \in Payloads : ExpireFrame(p)
            \/ \E o \in Ops : RestoreBackup(o)
            \/ ChangeAccess \/ CoreCrash \/ CoreRestart
            \/ Lose \/ AgentCrash \/ AgentRestart \/ UNCHANGED vars
  BY <1>1, <1>10 DEF CoreReply, ExpireFrame, RestoreBackup, ChangeAccess, CoreCrash, Down,
     CoreRestart, Lose, AgentCrash, AgentRestart, vars, agentVars
<1> QED
  BY <1>6, <1>7, <1>8, <1>9, <1>10 DEF Next

-----------------------------------------------------------------------------
(* Nothing is called done before its last input.                           *)

(* What has been performed stays performed. *)
LEMMA PerformedStable ==
  ASSUME TypeOK, NEW o, NEW p, Performed(o, p),
         \/ UNCHANGED delivered
         \/ \E c \in Calls : /\ delivered[c] < Steps(c)
                             /\ delivered' = [delivered EXCEPT ![c] = @ + 1]
  PROVE  Performed(o, p)'
<1>1. PICK d \in Calls : OpOf[d] = o /\ PayloadOf[d] = p /\ delivered[d] = Steps(d)
  BY DEF Performed
<1>2. delivered'[d] = delivered[d]
  <2>1. CASE UNCHANGED delivered
    BY <2>1
  <2>2. ASSUME NEW c \in Calls, delivered[c] < Steps(c),
               delivered' = [delivered EXCEPT ![c] = @ + 1]
        PROVE  delivered'[d] = delivered[d]
    <3>1. c # d
      BY <1>1, <2>2, StepsOfType, PayloadOfType DEF Steps, TypeOK
    <3> QED
      BY <2>2, <3>1 DEF TypeOK
  <2> QED
    BY <2>1, <2>2
<1> QED
  BY <1>1, <1>2 DEF Performed, Steps

(* Every step adds at most one input, never beyond the request. *)
LEMMA InputStep ==
  ASSUME TypeOK, BoundedInput, [Next]_vars
  PROVE  /\ BoundedInput'
         /\ \/ UNCHANGED delivered
            \/ \E c \in Calls : /\ delivered[c] < Steps(c)
                                /\ delivered' = [delivered EXCEPT ![c] = @ + 1]
<1>1. ASSUME UNCHANGED delivered PROVE BoundedInput'
  BY <1>1 DEF BoundedInput, Steps
<1>2. ASSUME NEW c \in Calls, delivered[c] < Steps(c),
             delivered' = [delivered EXCEPT ![c] = @ + 1]
      PROVE  BoundedInput'
  <2> SUFFICES ASSUME NEW d \in Calls
               PROVE  delivered'[d] <= Steps(d)
    BY DEF BoundedInput, Steps
  <2>1. Steps(d) \in Nat /\ delivered[d] \in Nat /\ delivered[d] <= Steps(d)
    BY StepsOfType, PayloadOfType DEF Steps, TypeOK, BoundedInput
  <2>2. delivered'[d] = IF d = c THEN delivered[d] + 1 ELSE delivered[d]
    BY <1>2 DEF TypeOK
  <2> QED
    BY <1>2, <2>1, <2>2
<1>3. \/ UNCHANGED delivered
      \/ \E c \in Calls : /\ delivered[c] < Steps(c)
                          /\ delivered' = [delivered EXCEPT ![c] = @ + 1]
  <2>1. CASE \E c \in Calls : WorkerInput(c) \/ WorkerUnsure(c)
    BY <2>1 DEF WorkerInput, WorkerUnsure
  <2>2. ASSUME NEW c \in Calls, WorkerStep(c), ~WorkerInput(c), ~WorkerUnsure(c)
        PROVE  UNCHANGED delivered
    BY <2>2 DEF WorkerStep, WorkerStart, WorkerDone, WorkerRefuses, WorkerThrows, WorkerStops
  <2>3. ASSUME NEW c \in Calls, CoreStep(c) PROVE UNCHANGED delivered
    BY <2>3 DEF CoreStep, Submit, Resubmit, ProbeOk, ProbeFails, Verified, RpcGivesUp,
       SendFails, CrashInSubmit, Down, agentVars
  <2>4. ASSUME NEW c \in Calls, AgentStep(c) PROVE UNCHANGED delivered
    BY <2>4 DEF AgentStep, Reserve, ReserveFails, Reuse, Complete, WaitTimeout,
       CrashInReserve, agentVars
  <2>5. CASE \/ \E m \in replies : CoreReply(m)
             \/ \E p \in Payloads : ExpireFrame(p)
             \/ \E o \in Ops : RestoreBackup(o)
             \/ ChangeAccess \/ CoreCrash \/ CoreRestart \/ HelperExits
             \/ Lose \/ AgentCrash \/ AgentRestart \/ UNCHANGED vars
    BY <2>5 DEF CoreReply, ExpireFrame, RestoreBackup, ChangeAccess, CoreCrash, Down,
       CoreRestart, HelperExits, Lose, AgentCrash, AgentRestart, vars, agentVars
  <2> QED
    BY <2>1, <2>2, <2>3, <2>4, <2>5 DEF Next
<1> QED
  BY <1>1, <1>2, <1>3

(* "confirmed" is true wherever the Core holds it. *)
LEMMA CoreTruthStep ==
  ASSUME TypeOK, RowShape, ActiveRow, BoundedInput, CoreTruth, DeviceTruth, [Next]_vars
  PROVE  ActiveRow' /\ CoreTruth'
<1> USE OpOfType, PayloadOfType
<1> DEFINE Goal == ActiveRow' /\ CoreTruth'
<1>1. ASSUME NEW o, NEW p, Performed(o, p) PROVE Performed(o, p)'
  BY <1>1, InputStep, PerformedStable
<1>2. ASSUME UNCHANGED <<coreUp, row, pc, answer>> PROVE Goal
  BY <1>1, <1>2 DEF ActiveRow, Active, CoreTruth
<1>3. ASSUME NEW c \in Calls, NEW v \in Final \cup {"unknown"}, Close(c, v), UNCHANGED coreUp,
             Active(c), v = "confirmed" => Performed(OpOf[c], PayloadOf[c])
      PROVE  Goal
  <2>1. /\ \A o \in Ops : row'[o].payload = row[o].payload
        /\ \A o \in Ops : row'[o].state = "absent" <=> row[o].state = "absent"
        /\ \A o \in Ops : row'[o].outcome = row[o].outcome
                            \/ (o = OpOf[c] /\ row'[o].outcome = v)
    BY <1>3, CloseEffect
  <2>2. \A d \in Calls : pc'[d] = IF d = c THEN "answered" ELSE pc[d]
    BY <1>3, CloseEffect DEF TypeOK
  <2>3. \A d \in Calls : answer'[d] \in {answer[d], v, "unknown"}
                           /\ (d # c => answer'[d] = answer[d])
    BY <1>3, CloseEffect DEF TypeOK
  <2>4. ActiveRow'
    BY <1>3, <2>1, <2>2 DEF ActiveRow, Active
  <2>5. ASSUME NEW d \in Calls, pc'[d] = "verifying" \/ answer'[d] = "confirmed"
        PROVE  Performed(OpOf[d], PayloadOf[d])'
    <3>1. Performed(OpOf[d], PayloadOf[d])
      BY <1>3, <2>2, <2>3, <2>5 DEF CoreTruth
    <3> QED
      BY <1>1, <3>1
  <2>6. ASSUME NEW o \in Ops, row'[o].outcome = "confirmed"
        PROVE  Performed(o, row[o].payload)'
    <3>1. Performed(o, row[o].payload)
      BY <1>3, <2>1, <2>6 DEF CoreTruth, ActiveRow
    <3> DEFINE p == row[o].payload
    <3>2. Performed(o, p) /\ row'[o].payload = row[o].payload
      BY <2>1, <3>1
    <3> QED
      BY <1>1, <3>2 DEF Performed, Steps
  <2> QED
    BY <2>4, <2>5, <2>6 DEF CoreTruth
<1>4. ASSUME NEW c \in Calls, NEW l \in {"performing", "verifying"}, Goto(c, l), Active(c),
             UNCHANGED <<coreUp, row>>,
             l = "verifying" => Performed(OpOf[c], PayloadOf[c])
      PROVE  Goal
  <2>1. \A d \in Calls : pc'[d] = IF d = c THEN l ELSE pc[d]
    BY <1>4 DEF Goto, TypeOK
  <2>2. UNCHANGED <<coreUp, row, answer>>
    BY <1>4 DEF Goto
  <2> QED
    BY <1>1, <1>4, <2>1, <2>2 DEF ActiveRow, Active, CoreTruth
<1>5. ASSUME NEW c \in Calls, Submit(c) PROVE Goal
  <2>1. PICK r \in Rows : /\ row' = [row EXCEPT ![OpOf[c]] = r]
                          /\ r.state # "absent" /\ r.payload = PayloadOf[c]
                          /\ r.outcome # "confirmed"
    BY <1>5, FirstTurnEffect DEF Submit, FirstSeen
  <2>2. \A d \in Calls : d # c => pc'[d] = pc[d] /\ answer'[d] = answer[d]
    BY <1>5, FirstTurnEffect DEF Submit, FirstSeen, TypeOK
  <2>3. pc'[c] # "verifying" /\ (answer'[c] = "confirmed" => answer[c] = "confirmed")
    BY <1>5, FirstTurnEffect DEF Submit, FirstSeen, TypeOK
  <2>4. \A d \in Calls : Active(d) => OpOf[d] # OpOf[c]
    BY <1>5 DEF Submit, FirstSeen, ActiveRow
  <2>5. coreUp /\ UNCHANGED coreUp
    BY <1>5 DEF Submit, FirstSeen, Ready
  <2>6. ActiveRow'
    BY <2>1, <2>2, <2>4, <2>5 DEF ActiveRow, Active, TypeOK
  <2>7. CoreTruth'
    BY <1>1, <2>1, <2>2, <2>3 DEF CoreTruth, TypeOK
  <2> QED
    BY <2>6, <2>7
<1>6. ASSUME NEW c \in Calls, Resubmit(c) PROVE Goal
  <2>1. UNCHANGED <<coreUp, row>> /\ pc' = [pc EXCEPT ![c] = "answered"]
    BY <1>6 DEF Resubmit, Recall, FirstSeen, Tell
  <2>2. \A d \in Calls : answer'[d] = "confirmed" =>
           answer[d] = "confirmed"
           \/ (d = c /\ row[OpOf[c]].payload = PayloadOf[c] /\ row[OpOf[c]].outcome = "confirmed")
    BY <1>6 DEF Resubmit, Recall, FirstSeen, Tell, TypeOK
  <2>3. \A d \in Calls : pc'[d] \in {pc[d], "answered"}
    BY <2>1 DEF TypeOK
  <2> QED
    BY <1>1, <2>1, <2>2, <2>3 DEF ActiveRow, Active, CoreTruth
<1>7. ASSUME NEW c \in Calls, ProbeOk(c) PROVE Goal
  <2>1. Active(c)
    BY <1>7 DEF ProbeOk, Active
  <2>2. CASE Goto(c, "performing") /\ UNCHANGED row
    BY <1>4, <1>7, <2>1, <2>2 DEF ProbeOk
  <2>3. CASE Close(c, "unknown")
    BY <1>3, <1>7, <2>1, <2>3 DEF ProbeOk
  <2> QED
    BY <1>7, <2>2, <2>3 DEF ProbeOk
<1>8. ASSUME NEW c \in Calls, ProbeFails(c) PROVE Goal
  BY <1>3, <1>8 DEF ProbeFails, Active, Final
<1>9. ASSUME NEW m \in replies, CoreReply(m) PROVE Goal
  <2> DEFINE c == m.call
             v == Classify(Kind(c), m.what)
  <2>1. c \in Calls /\ v \in Final \cup {"unknown"}
    BY DEF TypeOK, Classify, Final
  <2>2. v = "confirmed" => Performed(OpOf[c], PayloadOf[c])
    BY DEF Classify, DeviceTruth
  <2>3. UNCHANGED coreUp
    BY <1>9 DEF CoreReply
  <2>4. CASE UNCHANGED <<row, pc, answer>>
    BY <1>2, <2>3, <2>4
  <2>5. CASE pc[c] = "performing" /\ Close(c, v)
    BY <1>3, <2>1, <2>2, <2>3, <2>5 DEF Active
  <2>6. CASE pc[c] = "performing" /\ v = "confirmed" /\ Goto(c, "verifying") /\ UNCHANGED row
    BY <1>4, <2>1, <2>2, <2>3, <2>6 DEF Active
  <2> QED
    BY <1>9, <2>4, <2>5, <2>6 DEF CoreReply
<1>10. ASSUME NEW c \in Calls, Verified(c) PROVE Goal
  BY <1>3, <1>10 DEF Verified, Active, CoreTruth, Final
<1>11. ASSUME NEW c \in Calls, RpcGivesUp(c) PROVE Goal
  BY <1>3, <1>11 DEF RpcGivesUp, Active
<1>12. ASSUME NEW c \in Calls, SendFails(c) PROVE Goal
  <2>1. /\ Classify(Kind(c), "failed") \in Final \cup {"unknown"}
        /\ Classify(Kind(c), "failed") # "confirmed"
    BY DEF Classify, Final
  <2> QED
    BY <1>3, <1>12, <2>1 DEF SendFails, Active
<1>13. ASSUME NEW c \in Calls, CrashInSubmit(c) PROVE Goal
  <2>1. \A d \in Calls : ~Active(d)'
    BY <1>13 DEF CrashInSubmit, Active, TypeOK
  <2>2. UNCHANGED answer
    BY <1>13 DEF CrashInSubmit, Down
  <2>3. \A o \in Ops : row'[o] = row[o] \/ row'[o].outcome = None
    BY <1>13 DEF CrashInSubmit, Insert, Dispatch, TypeOK
  <2> QED
    BY <1>1, <2>1, <2>2, <2>3 DEF ActiveRow, Active, CoreTruth, None
<1>14. ASSUME CoreCrash PROVE Goal
  <2>1. \A d \in Calls : ~Active(d)'
    BY <1>14 DEF CoreCrash, Active, TypeOK
  <2>2. UNCHANGED <<answer, row>>
    BY <1>14 DEF CoreCrash, Down
  <2> QED
    BY <1>1, <2>1, <2>2 DEF ActiveRow, Active, CoreTruth
<1>15. ASSUME CoreRestart PROVE Goal
  BY <1>1, <1>15 DEF CoreRestart, ActiveRow, Active, CoreTruth
<1>16. ASSUME NEW o \in Ops, RestoreBackup(o) PROVE Goal
  <2>1. UNCHANGED <<coreUp, pc, answer>> /\ ~coreUp
    BY <1>16 DEF RestoreBackup
  <2>2. \A q \in Ops : row'[q] = row[q] \/ row'[q].outcome = None
    BY <1>16 DEF RestoreBackup, NoRow, TypeOK
  <2> QED
    BY <1>1, <2>1, <2>2 DEF ActiveRow, Active, CoreTruth, None
<1>17. CASE \/ \E c \in Calls : AgentStep(c) \/ WorkerStep(c)
            \/ \E p \in Payloads : ExpireFrame(p)
            \/ ChangeAccess \/ HelperExits
            \/ Lose \/ AgentCrash \/ AgentRestart \/ UNCHANGED vars
  <2>1. UNCHANGED <<coreUp, row, pc, answer>>
    BY <1>17 DEF AgentStep, Reserve, ReserveFails, Reuse, Complete, WaitTimeout,
       CrashInReserve, WorkerStep, WorkerStart, WorkerInput, WorkerDone, WorkerRefuses,
       WorkerThrows, WorkerStops, WorkerUnsure, WorkerVars, ExpireFrame, ChangeAccess,
       HelperExits, Lose, AgentCrash, AgentRestart, vars, coreVars
  <2> QED
    BY <1>2, <2>1
<1> QED
  BY <1>5, <1>6, <1>7, <1>8, <1>9, <1>10, <1>11, <1>12, <1>13, <1>14, <1>15, <1>16, <1>17
  DEF Next, CoreStep

(* "ok" is true wherever the device side holds it. *)
LEMMA DeviceTruthStep ==
  ASSUME TypeOK, BoundedInput, DeviceTruth, [Next]_vars
  PROVE  DeviceTruth'
<1> USE OpOfType, PayloadOfType
<1>1. ASSUME NEW o, NEW p, Performed(o, p) PROVE Performed(o, p)'
  BY <1>1, InputStep, PerformedStable
<1>2. ASSUME UNCHANGED <<worker, delivered, file>>,
             \A m \in replies' : m \in replies \/ m.what # "ok"
      PROVE  DeviceTruth'
  BY <1>2 DEF DeviceTruth, Performed, Steps
(* A file that is replaced by one without a result. *)
<1>3. ASSUME NEW c \in Calls, NEW x \in {Damaged, Reserved(c)},
             file' \in {file, [file EXCEPT ![OpOf[c]] = x]}, UNCHANGED delivered,
             \A d \in Calls : worker'[d].result = "ok" => worker[d].result = "ok",
             \A m \in replies' : m \in replies \/ m.what # "ok"
      PROVE  DeviceTruth'
  <2>1. \A o \in Ops : file'[o] = file[o] \/ file'[o].result = None
    BY <1>3 DEF TypeOK, Damaged, Reserved
  <2> QED
    BY <1>3, <2>1 DEF DeviceTruth, Performed, Steps, None
<1>4. ASSUME NEW c \in Calls, Reserve(c) PROVE DeviceTruth'
  <2>1. \A d \in Calls : worker'[d].result = "ok" => worker[d].result = "ok"
    BY <1>4 DEF Reserve, Unreserved, At, None, TypeOK
  <2> QED
    BY <1>3, <1>4, <2>1 DEF Reserve
<1>5. ASSUME NEW c \in Calls, ReserveFails(c) PROVE DeviceTruth'
  BY <1>3, <1>5 DEF ReserveFails, Send
<1>6. ASSUME NEW c \in Calls, Reuse(c) PROVE DeviceTruth'
  <2>1. FromFile(c, file[OpOf[c]]) = "ok" => Performed(OpOf[c], PayloadOf[c])
    BY DEF FromFile, DeviceTruth
  <2>2. UNCHANGED <<worker, delivered, file>>
    BY <1>6 DEF Reuse, agentVars
  <2>3. \A m \in replies' : \/ m \in replies
                            \/ m = [call |-> c, what |-> FromFile(c, file[OpOf[c]])]
    BY <1>6 DEF Reuse, Send
  <2> QED
    BY <2>1, <2>2, <2>3 DEF DeviceTruth, Performed, Steps
<1>7. ASSUME NEW c \in Calls, Complete(c) PROVE DeviceTruth'
  <2> DEFINE r == worker[c].result
  <2>1. r = "ok" => Performed(OpOf[c], PayloadOf[c])
    BY DEF DeviceTruth, Performed
  <2>2. UNCHANGED <<worker, delivered>>
    BY <1>7 DEF Complete, Returned
  <2>3. \A m \in replies' : \/ m \in replies
                            \/ m = [call |-> c, what |-> r]
                            \/ m.what = "OUTCOME_UNCERTAIN"
    BY <1>7 DEF Complete, Returned, Send
  <2>4. \A o \in Ops : \/ file'[o] = file[o]
                       \/ o = OpOf[c] /\ file'[o].payload = PayloadOf[c] /\ file'[o].result = r
    BY <1>7 DEF Complete, Returned, TypeOK
  <2> QED
    BY <2>1, <2>2, <2>3, <2>4 DEF DeviceTruth, Performed, Steps
<1>8. ASSUME NEW c \in Calls, CrashInReserve(c) PROVE DeviceTruth'
  BY <1>3, <1>8 DEF CrashInReserve
<1>9. ASSUME NEW c \in Calls, WorkerStep(c) PROVE DeviceTruth'
  <2>1. UNCHANGED <<file, replies>>
    BY <1>9 DEF WorkerStep, WorkerStart, WorkerInput, WorkerDone, WorkerRefuses,
       WorkerThrows, WorkerStops, WorkerUnsure, WorkerVars, netVars
  <2>2. \A d \in Calls : worker'[d].result = "ok" => delivered'[d] = Steps(d)
    BY <1>9 DEF WorkerStep, WorkerStart, WorkerInput, WorkerDone, WorkerRefuses,
       WorkerThrows, WorkerStops, WorkerUnsure, WorkerVars, AllDone, Over, At, None, TypeOK, DeviceTruth
  <2>3. \A o \in Ops : file'[o].result = "ok" => Performed(o, file[o].payload)'
    <3> SUFFICES ASSUME NEW o \in Ops, file[o].result = "ok"
                 PROVE  Performed(o, file[o].payload)'
      BY <2>1
    <3> DEFINE p == file[o].payload
    <3>1. Performed(o, p) /\ p' = p
      BY <2>1 DEF DeviceTruth
    <3> QED
      BY <1>1, <3>1 DEF Performed, Steps
  <2>4. \A m \in replies' : m.what = "ok" => Performed(OpOf[m.call], PayloadOf[m.call])'
    BY <1>1, <2>1 DEF DeviceTruth
  <2> QED
    BY <2>1, <2>2, <2>3, <2>4 DEF DeviceTruth, Performed, Steps
<1>10. ASSUME NEW c \in Calls, WaitTimeout(c) PROVE DeviceTruth'
  BY <1>2, <1>10 DEF WaitTimeout, Send
<1>11. ASSUME NEW c \in Calls, CoreStep(c) PROVE DeviceTruth'
  BY <1>2, <1>11 DEF CoreStep, Submit, Resubmit, ProbeOk, ProbeFails, Verified, RpcGivesUp,
     SendFails, CrashInSubmit, Down, netVars, agentVars
<1>12. ASSUME HelperExits PROVE DeviceTruth'
  <2>1. UNCHANGED <<file, delivered>>
    BY <1>12 DEF HelperExits
  <2>2. \A d \in Calls : worker'[d].result = "ok" => worker[d].result = "ok"
    BY <1>12 DEF HelperExits, At, None, TypeOK
  <2>3. \A m \in replies' : m \in replies \/ m.what # "ok"
    BY <1>12 DEF HelperExits
  <2> QED
    BY <2>1, <2>2, <2>3 DEF DeviceTruth, Performed, Steps
<1>13. CASE \/ \E m \in replies : CoreReply(m)
            \/ \E p \in Payloads : ExpireFrame(p)
            \/ \E o \in Ops : RestoreBackup(o)
            \/ ChangeAccess \/ CoreCrash \/ CoreRestart
            \/ Lose \/ AgentCrash \/ AgentRestart \/ UNCHANGED vars
  BY <1>2, <1>13 DEF CoreReply, ExpireFrame, RestoreBackup, ChangeAccess, CoreCrash, Down,
     CoreRestart, Lose, AgentCrash, AgentRestart, vars, netVars, agentVars
<1> QED
  BY <1>4, <1>5, <1>6, <1>7, <1>8, <1>9, <1>10, <1>11, <1>12, <1>13 DEF Next, AgentStep

-----------------------------------------------------------------------------
(* The invariant, and what follows from it.                                *)

(* The invariant holds at the start ... *)
LEMMA InvInit == Init => Inv
<1> SUFFICES ASSUME Init PROVE Inv
  OBVIOUS
<1> USE OpOfType, PayloadOfType, KindOfType, StepsOfType, BoundsType
<1>1. TypeOK
  BY DEF Init, TypeOK, NoRow, Rows, NoFile, Files, At, Workers, None, Verdicts
<1>2. RowShape /\ FileShape
  BY DEF Init, RowShape, FileShape, NoRow, NoFile
<1>3. Owned /\ FileDone
  BY DEF Init, Owned, FileDone, NoFile, At
<1>4. ActiveRow /\ BoundedInput
  BY DEF Init, ActiveRow, Active, BoundedInput, Steps
<1>5. CoreTruth /\ DeviceTruth
  BY DEF Init, CoreTruth, DeviceTruth, NoRow, NoFile, At, None
<1> QED
  BY <1>1, <1>2, <1>3, <1>4, <1>5 DEF Inv

(* ... and is preserved by every step. *)
LEMMA InvNext == Inv /\ [Next]_vars => Inv'
  BY ShapeStep, OwnedStep, InputStep, CoreTruthStep, DeviceTruthStep DEF Inv

(* Every reachable state satisfies the invariant. *)
THEOREM Invariance == Spec => []Inv
<1> QED
  BY InvInit, InvNext, PTL DEF Spec

(* Every variable keeps its type: among others, only the six states of a
   call and the five of a row ever occur. *)
THEOREM TypeCorrect == Spec => []TypeOK
<1>1. Inv => TypeOK
  BY DEF Inv
<1> QED
  BY Invariance, <1>1, PTL

(* One idempotency key never puts the input of two requests into the device,
   for any number of crashes, repeats and restored backups. *)
THEOREM AtMostOnceHolds == Spec => []AtMostOnce
<1>1. Inv => AtMostOnce
  BY OpOfType DEF Inv, TypeOK, Owned, AtMostOnce
<1> QED
  BY Invariance, <1>1, PTL

(* A call told "confirmed" asked for inputs that have all been delivered. *)
THEOREM ConfirmedTruth == Spec => []ConfirmedHappened
<1>1. Inv => ConfirmedHappened
  BY DEF Inv, CoreTruth, ConfirmedHappened
<1> QED
  BY Invariance, <1>1, PTL

(* The two journals tell the truth of what they hold as completed. *)
THEOREM RecordsTruth == Spec => []RecordsTrue
<1>1. Inv => RecordsTrue
  BY OpOfType DEF Inv, CoreTruth, DeviceTruth, FileDone, RecordsTrue
<1> QED
  BY Invariance, <1>1, PTL
=============================================================================
