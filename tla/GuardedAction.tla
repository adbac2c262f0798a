--------------------------- MODULE GuardedAction ---------------------------
(***************************************************************************)
(* A guarded device action from the tool call to the input it injects.     *)
(*                                                                         *)
(* The Core (server-multiuser.js, durableComputerAction) keys every        *)
(* guarded call by an operation, the hash of user, device and idempotency  *)
(* key, and records it in the SQLite table of OperationJournal before it   *)
(* sends anything.  The engines (execution/engine.js, browser.js) consume  *)
(* a one-shot observation and classify what comes back.  The Agent keeps a *)
(* second journal, one fsynced file per operation (yh-action-journal.mjs), *)
(* around the side effect, which a third process performs: the native      *)
(* helper, a browser tab or a spawned shell.                               *)
(*                                                                         *)
(* A step is one turn of an event loop: everything between two awaits.     *)
(* Where the turn commits to disk more than once, a crash between the two  *)
(* commits is an action of its own.                                        *)
(***************************************************************************)
EXTENDS Naturals

CONSTANTS
    Ops,          \* operations of one user on one device: one per idempotency key
    Calls,        \* tool calls a client may make
    Payloads,     \* request bodies (what the two fingerprints hash)
    OpOf,         \* the operation a call names
    PayloadOf,    \* the request body a call carries
    KindOf,       \* the route of a request body
    StepsOf,      \* the inputs a request body asks for
    MaxEpoch,     \* bound: Core processes that follow one another
    MaxRestores   \* bound: times the Core's database is put back from a backup

Kinds   == {"click", "semantic", "browser", "exec"}
Native  == {"click", "semantic"}
None    == "none"

ASSUME OpOfType      == OpOf \in [Calls -> Ops]
ASSUME PayloadOfType == PayloadOf \in [Calls -> Payloads]
ASSUME KindOfType    == KindOf \in [Payloads -> Kinds]
ASSUME StepsOfType   == /\ StepsOf \in [Payloads -> Nat \ {0}]
                        /\ \A p \in Payloads : KindOf[p] # "semantic" => StepsOf[p] = 1
ASSUME BoundsType    == MaxEpoch \in Nat /\ MaxRestores \in Nat

VARIABLES
    coreUp,       \* the Core process runs
    epoch,        \* EXECUTION_OWNER_EPOCH of the running (or last) Core
    restores,     \* restores from backup so far
    access,       \* the user may operate the device (linked to it, and not as a viewer)
    row,          \* yh_operation_journal
    fresh,        \* request bodies whose observation is live in the engine
    pc,           \* where each call stands in the Core
    answer,       \* what each call was told
    requests,     \* calls whose request is on its way to the Agent
    replies,      \* replies on their way to the Core
    agentUp,      \* the Agent process runs
    file,         \* the Agent's journal file of each operation
    waiting,      \* calls whose perform() the Agent is awaiting
    worker,       \* the helper, tab or shell doing a call's side effect
    delivered     \* inputs a call has put into the device

coreVars  == <<coreUp, epoch, restores, access, row, fresh, pc, answer>>
netVars   == <<requests, replies>>
agentVars == <<agentUp, file, waiting, worker, delivered>>
vars      == <<coreVars, netVars, agentVars>>

(***************************************************************************)
(* Verdicts.  "unknown" stands for every answer that says to inspect the   *)
(* device first (unverifiable, timed_out, needs_review); "approval" is a   *)
(* rejection with the code USER_APPROVAL_REQUIRED.                         *)
(***************************************************************************)
Final    == {"confirmed", "rejected", "approval", "stale"}
Verdicts == Final \cup {"unknown", "conflict"}

(* What the worker hands to the Agent: a value ... *)
Values   == {"ok", "stopped", "unknown-after-input", "stale-value", "not-dispatched"}
(* ... or a thrown error. *)
Errors   == {"STALE_REFERENCE", "USER_APPROVAL_REQUIRED", "failed", "INPUT_UNCERTAIN"}
Results  == Values \cup Errors
(* What the Agent may send back: those, its own errors and its journal's. *)
Replies  == Results \cup {"exited", "timeout", "OUTCOME_UNCERTAIN", "INVALID_REQUEST"}

NoRow    == [state |-> "absent", payload |-> None, epoch |-> 0, outcome |-> None]
Rows     == [state : {"absent", "queued", "running", "completed", "needs_review"},
             payload : Payloads \cup {None}, epoch : 0..MaxEpoch,
             outcome : Final \cup {None}]
NoFile   == [state |-> "absent", payload |-> None, result |-> None]
Files    == [state : {"absent", "damaged", "running", "completed"},
             payload : Payloads \cup {None}, result : Values \cup {None}]
At(s)    == [state |-> s, result |-> None]
Workers  == [state : {"none", "queued", "running", "over"}, result : Results \cup {None}]

Kind(c)  == KindOf[PayloadOf[c]]
Steps(c) == StepsOf[PayloadOf[c]]

TypeOK ==
    /\ coreUp \in BOOLEAN /\ agentUp \in BOOLEAN /\ access \in BOOLEAN
    /\ epoch \in 0..MaxEpoch /\ restores \in 0..MaxRestores
    /\ row \in [Ops -> Rows]
    /\ fresh \in SUBSET Payloads
    /\ pc \in [Calls -> {"idle", "probing", "performing", "verifying", "answered", "lost"}]
    /\ answer \in [Calls -> Verdicts \cup {None}]
    /\ requests \in SUBSET Calls
    /\ replies \in SUBSET [call : Calls, what : Replies]
    /\ file \in [Ops -> Files]
    /\ waiting \in SUBSET Calls
    /\ worker \in [Calls -> Workers]
    /\ delivered \in [Calls -> Nat]

(* The observations the calls refer to have been taken. *)
Init ==
    /\ coreUp = TRUE /\ agentUp = TRUE /\ access = TRUE
    /\ epoch = 0 /\ restores = 0
    /\ row = [o \in Ops |-> NoRow]
    /\ fresh = {p \in Payloads : KindOf[p] # "exec"}
    /\ pc = [c \in Calls |-> "idle"]
    /\ answer = [c \in Calls |-> None]
    /\ requests = {} /\ replies = {}
    /\ file = [o \in Ops |-> NoFile]
    /\ waiting = {}
    /\ worker = [c \in Calls |-> At("none")]
    /\ delivered = [c \in Calls |-> 0]

-----------------------------------------------------------------------------
(* OperationJournal: each operator is one statement on the table.  Only a
   completed row has an outcome. *)

Insert(o, p) ==
    [row EXCEPT ![o] = [state |-> "queued", payload |-> p, epoch |-> 0, outcome |-> None]]

Dispatch(o, p) ==
    [row EXCEPT ![o] = [state |-> "running", payload |-> p, epoch |-> epoch, outcome |-> None]]

(* finish() and uncertain() touch a row only while it runs under this epoch
   and only for a user who may still operate the device (the Core gives the
   journal a getDeviceForUser that leaves viewers out). *)
MayClose(o) == access /\ row[o].state = "running" /\ row[o].epoch = epoch

Settled(o, s, v) ==
    [state |-> s, payload |-> row[o].payload, epoch |-> row[o].epoch, outcome |-> v]
Finish(o, v)  == [row EXCEPT ![o] = Settled(o, "completed", v)]
Uncertain(o)  == [row EXCEPT ![o] = Settled(o, "needs_review", None)]

-----------------------------------------------------------------------------
(* The Core.                                                               *)

Tell(c, v) == pc' = [pc EXCEPT ![c] = "answered"] /\ answer' = [answer EXCEPT ![c] = v]
Goto(c, l) == pc' = [pc EXCEPT ![c] = l] /\ UNCHANGED answer

(* The end of durableComputerAction once perform() has settled with verdict
   v.  finish() throws for a user who has lost access, and for an outcome of
   more than 8192 bytes (the output of a shell command); the catch then calls
   uncertain(), whose own error is swallowed. *)
Close(c, v) ==
    LET o == OpOf[c] IN
    \/ /\ MayClose(o) /\ v \in Final
       /\ row' = Finish(o, v) /\ Tell(c, v)
    \/ /\ MayClose(o) /\ (v = "unknown" \/ (v = "confirmed" /\ Kind(c) = "exec"))
       /\ row' = Uncertain(o) /\ Tell(c, "unknown")
    \/ /\ ~MayClose(o)
       /\ UNCHANGED row /\ Tell(c, "unknown")

(* Mutants of Classify: an exec error read as a result; the browser route's
   "attempted" flag forgotten. *)
ClassifyErrorsOk(k, r)    == IF r \in {"ok", "failed"} THEN "confirmed" ELSE "unknown"
ClassifyUnattempted(k, r) ==
    CASE r = "ok" -> "confirmed"
      [] r \in {"not-dispatched", "timeout", "OUTCOME_UNCERTAIN"} -> "rejected"
      [] OTHER -> "unknown"

(* ExecutionEngine.perform and BrowserExecution.perform: what a reply means
   on each route.  A rejected exec request throws out of perform(). *)
Classify(k, r) ==
    CASE r = "ok" -> "confirmed"
      [] r \in {"STALE_REFERENCE", "stale-value"} /\ k # "exec" -> "stale"
      [] r = "not-dispatched" -> "rejected"
      [] r = "USER_APPROVAL_REQUIRED" -> "approval"
      [] r \in {"stopped", "failed", "exited", "INVALID_REQUEST"} /\ k \in Native -> "rejected"
      [] OTHER -> "unknown"

(* The engine's lease: one native action per account and device; one guarded
   action per tab (all browser calls of the model share a tab). *)
Busy(c) ==
    \E d \in Calls : /\ pc[d] \in {"probing", "performing", "verifying"}
                     /\ Kind(d) # "exec"
                     /\ (Kind(d) \in Native) = (Kind(c) \in Native)

(* An observation serves one action, whatever becomes of it. *)
Keep(p)    == UNCHANGED fresh                      \* mutant: frames.delete forgotten
Consume(p) == fresh' = fresh \ {p}

(* The first call for an operation runs to its first await in one turn: row
   queued, row running, then the engine's own checks and the send.  Closing
   in the same turn cannot fail: access was just checked. *)
SettleAtOnce(c, v) ==
    /\ row' = [row EXCEPT ![OpOf[c]] =
                 [state   |-> IF v \in Final THEN "completed" ELSE "needs_review",
                  payload |-> PayloadOf[c], epoch |-> epoch,
                  outcome |-> IF v \in Final THEN v ELSE None]]
    /\ Tell(c, v)

FirstTurn(c) ==
    LET p == PayloadOf[c] IN
    \/ /\ Kind(c) # "exec" /\ p \notin fresh
       /\ SettleAtOnce(c, "stale") /\ UNCHANGED <<fresh, requests>>
    \/ \* invalid coordinates or steps, or the lease is taken: nothing consumed
       /\ Kind(c) # "exec" /\ p \in fresh
       /\ SettleAtOnce(c, "rejected") /\ UNCHANGED <<fresh, requests>>
    \/ \* rpcDispatch throws: device gone or held by another task
       /\ Kind(c) \in Native /\ p \in fresh /\ ~Busy(c)
       /\ Consume(p)
       /\ SettleAtOnce(c, "rejected") /\ UNCHANGED requests
    \/ /\ Kind(c) = "exec"
       /\ SettleAtOnce(c, "unknown") /\ UNCHANGED <<fresh, requests>>
    \/ \* sent
       /\ Kind(c) \in Native => p \in fresh /\ ~Busy(c)
       /\ Kind(c) # "browser"
       /\ row' = Dispatch(OpOf[c], p)
       /\ Consume(p)
       /\ requests' = requests \cup {c}
       /\ Goto(c, "performing")
    \/ \* the browser route first asks for the list of tabs
       /\ Kind(c) = "browser" /\ p \in fresh /\ ~Busy(c)
       /\ row' = Dispatch(OpOf[c], p)
       /\ Consume(p)
       /\ Goto(c, "probing") /\ UNCHANGED requests

Ready(c) == coreUp /\ access /\ pc[c] = "idle"

(* Mutant of FirstSeen: a row left running by an earlier Core is run again. *)
FirstSeenThisEpoch(o) ==
    row[o].state = "absent" \/ (row[o].state = "running" /\ row[o].epoch < epoch)
FirstSeen(o) == row[o].state = "absent"

Submit(c) ==
    /\ Ready(c) /\ FirstSeen(OpOf[c])
    /\ FirstTurn(c)
    /\ UNCHANGED <<coreUp, epoch, restores, access, replies, agentVars>>

(* The same key again: the stored outcome, or a request to review.  Other
   arguments under the key are refused. *)
RecallUnsure(c, r) ==                \* mutant: an unfinished row counts as refused
    IF r.payload # PayloadOf[c] THEN "conflict"
    ELSE IF r.state = "completed" THEN r.outcome ELSE "rejected"
Recall(c, r) ==
    IF r.payload # PayloadOf[c] THEN "conflict"
    ELSE IF r.state = "completed" THEN r.outcome ELSE "unknown"

Resubmit(c) ==
    /\ Ready(c) /\ ~FirstSeen(OpOf[c])
    /\ Tell(c, Recall(c, row[OpOf[c]]))
    /\ UNCHANGED <<coreUp, epoch, restores, access, row, fresh, netVars, agentVars>>

(* probing: BrowserExecution compares the tab with the observed one; then the
   guarded script goes out as a control command. *)
ProbeOk(c) ==
    /\ coreUp /\ pc[c] = "probing"
    /\ \/ /\ access
          /\ requests' = requests \cup {c} /\ Goto(c, "performing")
          /\ UNCHANGED row
       \/ \* the dispatch is refused after "attempted" was set
          Close(c, "unknown") /\ UNCHANGED requests
    /\ UNCHANGED <<coreUp, epoch, restores, access, fresh, replies, agentVars>>

ProbeFails(c) ==
    /\ coreUp /\ pc[c] = "probing"
    /\ \E v \in {"stale", "rejected", "unknown"} : Close(c, v)
    /\ UNCHANGED <<coreUp, epoch, restores, access, fresh, netVars, agentVars>>

(* The response handler.  A reply nobody waits for is dropped; without access
   the requester is told nothing of it.  A confirmed click may first take one
   more observation to verify the window title or the page. *)
CoreReply(m) ==
    LET c == m.call  v == Classify(Kind(c), m.what) IN
    /\ coreUp /\ m \in replies
    /\ replies' = replies \ {m}
    /\ \/ pc[c] # "performing" /\ UNCHANGED <<row, pc, answer>>
       \/ /\ pc[c] = "performing"
          /\ Close(c, v)
       \/ /\ pc[c] = "performing" /\ access
          /\ v = "confirmed" /\ Kind(c) \in {"click", "browser"}
          /\ Goto(c, "verifying") /\ UNCHANGED row
    /\ UNCHANGED <<coreUp, epoch, restores, access, fresh, requests, agentVars>>

(* A failed verification changes the goal, not the verdict. *)
Verified(c) ==
    /\ coreUp /\ pc[c] = "verifying"
    /\ Close(c, "confirmed")
    /\ UNCHANGED <<coreUp, epoch, restores, access, fresh, netVars, agentVars>>

(* The RPC timer fires, or the device's socket closes under the request. *)
RpcGivesUpOnClose(c) ==              \* mutant: no timer, only the closing socket
    /\ coreUp /\ pc[c] = "performing" /\ ~agentUp
    /\ Close(c, "unknown")
    /\ UNCHANGED <<coreUp, epoch, restores, access, fresh, netVars, agentVars>>

RpcGivesUp(c) ==
    /\ coreUp /\ pc[c] = "performing"
    /\ Close(c, "unknown")
    /\ UNCHANGED <<coreUp, epoch, restores, access, fresh, netVars, agentVars>>

(* ws.send reports an error: the request never left. *)
SendFails(c) ==
    /\ coreUp /\ pc[c] = "performing" /\ c \in requests
    /\ requests' = requests \ {c}
    /\ Close(c, Classify(Kind(c), "failed"))
    /\ UNCHANGED <<coreUp, epoch, restores, access, fresh, replies, agentVars>>

(* The owner revokes the user's grant or makes it a viewer's, or gives it back. *)
ChangeAccess ==
    /\ coreUp /\ access' = ~access
    /\ UNCHANGED <<coreUp, epoch, restores, row, fresh, pc, answer, netVars, agentVars>>

(* The engine's frame expires (30 s). *)
ExpireFrame(p) ==
    /\ coreUp /\ p \in fresh
    /\ fresh' = fresh \ {p}
    /\ UNCHANGED <<coreUp, epoch, restores, access, row, pc, answer, netVars, agentVars>>

(* A Core crash loses every call in progress and every frame. *)
Down ==
    /\ coreUp /\ epoch < MaxEpoch
    /\ coreUp' = FALSE /\ fresh' = {}
    /\ UNCHANGED <<epoch, restores, access, answer, netVars, agentVars>>

CoreCrash ==
    /\ Down
    /\ pc' = [c \in Calls |->
                IF pc[c] \in {"probing", "performing", "verifying"} THEN "lost" ELSE pc[c]]
    /\ UNCHANGED row

(* ... or hits the first turn of call c between its commits: after submit(),
   or after dispatch() and before the send. *)
CrashInSubmit(c) ==
    /\ Ready(c) /\ FirstSeen(OpOf[c])
    /\ Down
    /\ pc' = [d \in Calls |->
                IF d = c \/ pc[d] \in {"probing", "performing", "verifying"}
                THEN "lost" ELSE pc[d]]
    /\ row' \in {Insert(OpOf[c], PayloadOf[c]), Dispatch(OpOf[c], PayloadOf[c])}

CoreRestart ==
    /\ ~coreUp /\ epoch < MaxEpoch
    /\ coreUp' = TRUE /\ epoch' = epoch + 1
    /\ UNCHANGED <<restores, access, row, fresh, pc, answer, netVars, agentVars>>

(* The operator puts back a database saved before operation o was submitted. *)
RestoreBackup(o) ==
    /\ ~coreUp /\ restores < MaxRestores
    /\ restores' = restores + 1
    /\ row' = [row EXCEPT ![o] = NoRow]
    /\ UNCHANGED <<coreUp, epoch, access, fresh, pc, answer, netVars, agentVars>>

-----------------------------------------------------------------------------
(* The network: what is in flight may be lost with the socket.             *)

Lose ==
    /\ \/ \E c \in requests : requests' = requests \ {c} /\ UNCHANGED replies
       \/ \E m \in replies  : replies' = replies \ {m} /\ UNCHANGED requests
    /\ UNCHANGED <<coreVars, agentVars>>

-----------------------------------------------------------------------------
(* The Agent: FileActionJournal.execute around the side effect.            *)

Send(c, w) == replies' = replies \cup {[call |-> c, what |-> w]}

Reserved(c) == [state |-> "running", payload |-> PayloadOf[c], result |-> None]
Damaged     == [state |-> "damaged", payload |-> None, result |-> None]

Receive(c) == agentUp /\ c \in requests /\ requests' = requests \ {c}

(* Mutant of Unreserved: a reservation without a result may be taken over. *)
UnfinishedFile(o) == file[o].state \in {"absent", "running"}
Unreserved(o)     == file[o].state = "absent"

(* No file yet: the reservation is on disk before the worker starts. *)
Reserve(c) ==
    /\ Receive(c)
    /\ Unreserved(OpOf[c])
    /\ file' = [file EXCEPT ![OpOf[c]] = Reserved(c)]
    /\ waiting' = waiting \cup {c}
    /\ worker' = [worker EXCEPT ![c] = At("queued")]
    /\ UNCHANGED <<coreVars, replies, agentUp, delivered>>

(* The reservation fails: no file could be opened, it was not written, or it
   was written and not flushed. *)
ReserveFails(c) ==
    /\ Receive(c)
    /\ Unreserved(OpOf[c])
    /\ \/ UNCHANGED file
       \/ \E x \in {Damaged, Reserved(c)} : file' = [file EXCEPT ![OpOf[c]] = x]
    /\ Send(c, "OUTCOME_UNCERTAIN")
    /\ UNCHANGED <<coreVars, agentUp, waiting, worker, delivered>>

(* A file exists: answer from it, whatever it says, and perform nothing. *)
FromAnyFile(c, f) ==                 \* mutant: the state of the record not looked at
    IF f.payload # PayloadOf[c] THEN "INVALID_REQUEST" ELSE f.result
FromFile(c, f) ==
    IF f.state = "damaged" THEN "OUTCOME_UNCERTAIN"
    ELSE IF f.payload # PayloadOf[c] THEN "INVALID_REQUEST"
    ELSE IF f.state = "completed" THEN f.result ELSE "OUTCOME_UNCERTAIN"

Reuse(c) ==
    /\ Receive(c)
    /\ ~Unreserved(OpOf[c])
    /\ Send(c, FromFile(c, file[OpOf[c]]))
    /\ UNCHANGED <<coreVars, agentVars>>

Returned(c) == worker[c].state = "over"

(* perform() resolved: the result replaces the reservation by a rename, then
   the reply goes out.  perform() rejected: the reservation stays. *)
Complete(c) ==
    LET r == worker[c].result IN
    /\ agentUp /\ c \in waiting /\ Returned(c)
    /\ waiting' = waiting \ {c}
    /\ \/ /\ r \in Values
          /\ file' = [file EXCEPT ![OpOf[c]] =
                        [state |-> "completed", payload |-> PayloadOf[c], result |-> r]]
          /\ Send(c, r)
       \/ \* result above 128 KiB, or the temporary file cannot be written
          /\ r \in Values
          /\ UNCHANGED file /\ Send(c, "OUTCOME_UNCERTAIN")
       \/ /\ r \in Errors
          /\ UNCHANGED file /\ Send(c, r)
    /\ UNCHANGED <<coreVars, requests, agentUp, worker, delivered>>

(* nativeCall and the CDP call stop waiting; the worker does not stop. *)
WaitTimeout(c) ==
    /\ agentUp /\ c \in waiting /\ Kind(c) # "exec"
    /\ waiting' = waiting \ {c}
    /\ Send(c, "timeout")
    /\ UNCHANGED <<coreVars, requests, agentUp, file, worker, delivered>>

AgentCrash ==
    /\ agentUp
    /\ agentUp' = FALSE /\ waiting' = {}
    /\ UNCHANGED <<coreVars, netVars, file, worker, delivered>>

(* ... between opening the reservation and its fsync, or right after it. *)
CrashInReserve(c) ==
    /\ Receive(c)
    /\ Unreserved(OpOf[c])
    /\ agentUp' = FALSE /\ waiting' = {}
    /\ \E x \in {Damaged, Reserved(c)} : file' = [file EXCEPT ![OpOf[c]] = x]
    /\ UNCHANGED <<coreVars, replies, worker, delivered>>

AgentRestart ==
    /\ ~agentUp /\ agentUp' = TRUE
    /\ UNCHANGED <<coreVars, netVars, file, waiting, worker, delivered>>

-----------------------------------------------------------------------------
(* The worker: it outlives the Agent's wait and the Agent itself.          *)

Over(c, r) == worker' = [worker EXCEPT ![c] = [state |-> "over", result |-> r]]

WorkerVars == <<coreVars, netVars, agentUp, file, waiting>>

(* The native helper reads one line at a time. *)
WorkerStart(c) ==
    /\ worker[c].state = "queued"
    /\ Kind(c) \in Native =>
         \A d \in Calls : Kind(d) \in Native => worker[d].state # "running"
    /\ worker' = [worker EXCEPT ![c] = At("running")]
    /\ UNCHANGED <<WorkerVars, delivered>>

(* One input reaches the device (and its postcondition, if any, holds). *)
WorkerInput(c) ==
    /\ worker[c].state = "running" /\ delivered[c] < Steps(c)
    /\ delivered' = [delivered EXCEPT ![c] = @ + 1]
    /\ UNCHANGED <<WorkerVars, worker>>

AnyDone(c) == TRUE                   \* mutant: the batch is left early and called done
AllDone(c) == delivered[c] = Steps(c)

WorkerDone(c) ==
    /\ worker[c].state = "running" /\ AllDone(c)
    /\ Over(c, "ok")
    /\ UNCHANGED <<WorkerVars, delivered>>

(* Checks made before any input: ConsumeFrame, the page's element state, the
   spawn of the shell. *)
AnyTime(c)   == TRUE                 \* mutant: the frame is checked inside the batch
Untouched(c) == delivered[c] = 0

WorkerRefuses(c) ==
    /\ worker[c].state = "running" /\ Untouched(c)
    /\ \/ Kind(c) \in Native /\ Over(c, "STALE_REFERENCE")
       \/ Kind(c) = "browser" /\ \E r \in {"stale-value", "not-dispatched"} : Over(c, r)
       \/ Kind(c) = "exec" /\ Over(c, "failed")
    /\ UNCHANGED <<WorkerVars, delivered>>

(* RequireInteractive throws before the click, SemanticGuard before any step
   of a batch: an approval prompt, a locked session, a lost foreground. *)
WorkerThrows(c) ==
    /\ worker[c].state = "running" /\ Kind(c) \in Native
    /\ Kind(c) = "click" => Untouched(c)
    /\ \E r \in {"USER_APPROVAL_REQUIRED", "failed"} : Over(c, r)
    /\ UNCHANGED <<WorkerVars, delivered>>

(* SemanticBatch stops at a step that has not touched the device: a failed
   assert, or a control that is not there. *)
WorkerStops(c) ==
    /\ worker[c].state = "running" /\ Kind(c) = "semantic"
    /\ Over(c, "stopped")
    /\ UNCHANGED <<WorkerVars, delivered>>

(* An input that may or may not have arrived: SendInput accepts part of the
   events, an invoked control's postcondition does not hold. *)
WorkerUnsure(c) ==
    /\ worker[c].state = "running" /\ Kind(c) \in Native
    /\ delivered[c] < Steps(c)
    /\ delivered' \in {delivered, [delivered EXCEPT ![c] = @ + 1]}
    /\ Over(c, IF Kind(c) = "click" THEN "INPUT_UNCERTAIN" ELSE "unknown-after-input")
    /\ UNCHANGED WorkerVars

(* The helper process exits: whatever it was doing stops, and every native
   call the Agent awaits is rejected with "Native helper exited". *)
HelperExits ==
    LET hit == {c \in Calls : /\ Kind(c) \in Native
                              /\ worker[c].state \in {"queued", "running"}}
    IN  /\ hit # {}
        /\ worker' = [c \in Calls |-> IF c \in hit THEN At("over") ELSE worker[c]]
        /\ waiting' = waiting \ hit
        /\ replies' = replies \cup {[call |-> c, what |-> "exited"] : c \in hit \cap waiting}
        /\ UNCHANGED <<coreVars, requests, agentUp, file, delivered>>

-----------------------------------------------------------------------------
CoreStep(c) ==
    \/ Submit(c) \/ Resubmit(c) \/ ProbeOk(c) \/ ProbeFails(c) \/ Verified(c)
    \/ RpcGivesUp(c) \/ SendFails(c) \/ CrashInSubmit(c)

AgentStep(c) ==
    \/ Reserve(c) \/ ReserveFails(c) \/ Reuse(c) \/ Complete(c)
    \/ WaitTimeout(c) \/ CrashInReserve(c)

WorkerStep(c) ==
    \/ WorkerStart(c) \/ WorkerInput(c) \/ WorkerDone(c) \/ WorkerRefuses(c)
    \/ WorkerThrows(c) \/ WorkerStops(c) \/ WorkerUnsure(c)

Next ==
    \/ \E c \in Calls : CoreStep(c) \/ AgentStep(c) \/ WorkerStep(c)
    \/ \E m \in replies : CoreReply(m)
    \/ \E p \in Payloads : ExpireFrame(p)
    \/ \E o \in Ops : RestoreBackup(o)
    \/ ChangeAccess \/ CoreCrash \/ CoreRestart
    \/ Lose \/ AgentCrash \/ AgentRestart \/ HelperExits

Spec == Init /\ [][Next]_vars

(* The RPC timer, the probe and the verification all settle while the Core
   runs; a message left alone is processed by the Core's event loop. *)
Fairness == \A c \in Calls :
    WF_vars(RpcGivesUp(c)) /\ WF_vars(ProbeFails(c)) /\ WF_vars(Verified(c))

FairSpec == Spec /\ Fairness

-----------------------------------------------------------------------------
(* Properties.                                                             *)

Same(c, d)      == OpOf[c] = OpOf[d] /\ PayloadOf[c] = PayloadOf[d]
Performed(o, p) == \E d \in Calls : OpOf[d] = o /\ PayloadOf[d] = p /\ delivered[d] = Steps(d)
Active(c)       == pc[c] \in {"probing", "performing", "verifying"}

(* Whatever crashes, however often the client repeats the key and even if the
   Core forgets the operation, only one request ever puts input into the
   device under an operation.  (The reservation of FileActionJournal.) *)
AtMostOnce ==
    \A c, d \in Calls :
        OpOf[c] = OpOf[d] /\ delivered[c] > 0 /\ delivered[d] > 0 => c = d

(* A call told "confirmed", directly or from either journal, belongs to a
   request whose inputs have all been delivered. *)
ConfirmedHappened ==
    \A c \in Calls : answer[c] = "confirmed" => Performed(OpOf[c], PayloadOf[c])

(* A row closed as confirmed, and a completed journal file that says ok (what
   computer_operation_status shows), tell the truth, and no worker of the
   operation is still at it. *)
RecordsTrue ==
    \A o \in Ops :
        /\ row[o].outcome = "confirmed" => Performed(o, row[o].payload)
        /\ file[o].state = "completed" =>
             /\ file[o].result = "ok" => Performed(o, file[o].payload)
             /\ \A c \in Calls : OpOf[c] = o => worker[c].state \notin {"queued", "running"}

(* A call told that its observation is stale has not touched the device, and
   neither has, nor ever will, another call for the same request: the caller
   may observe again and act under a new key. *)
StaleUntouched ==
    \A c, d \in Calls : answer[c] = "stale" /\ Same(c, d) => delivered[d] = 0

(* The browser route knows whether its script dispatched: rejected there means
   no input, ever. *)
BrowserRejectedUntouched ==
    \A c, d \in Calls :
        answer[c] = "rejected" /\ Kind(c) = "browser" /\ Same(c, d) => delivered[d] = 0

(* The Core alone, its database intact, sends an operation to the Agent at
   most once: a request in flight is the only one and finds no file. *)
FirstContact ==
    \A c \in requests : restores = 0 =>
        /\ file[OpOf[c]].state = "absent"
        /\ \A d \in Calls : d # c /\ OpOf[d] = OpOf[c] =>
             d \notin requests /\ worker[d].state = "none"

(* Two calls for the same request are never given two different final
   verdicts, whichever of them ran it and whatever crashed in between. *)
OneVerdict ==
    \A c, d \in Calls :
        Same(c, d) /\ answer[c] \in Final /\ answer[d] \in Final => answer[c] = answer[d]

(* One observation authorizes one action: of two calls that act on the same
   observation, under the same key or under two, at most one has any effect. *)
OneShotObservation ==
    \A c, d \in Calls :
        /\ Kind(c) # "exec" /\ PayloadOf[c] = PayloadOf[d]
        /\ delivered[c] > 0 /\ delivered[d] > 0
        => c = d

(* A call in progress is answered unless the Core goes down first. *)
CallSettles ==
    \A c \in Calls : Active(c) ~> pc[c] \in {"answered", "lost"}

(* "Windows needs local administrator approval.  No GUI input was sent."
   (engine.js) *)
ApprovalUntouched ==
    \A c \in Calls : answer[c] = "approval" => delivered[c] = 0

(* What a client may rely on per operation: GuardedOutcome.                 *)
EffectOf(o) ==
    IF row[o].outcome = "stale" THEN "void"
    ELSE IF \E c \in Calls : OpOf[c] = o /\ delivered[c] = Steps(c) THEN "whole"
    ELSE IF \E c \in Calls : OpOf[c] = o /\ delivered[c] > 0 THEN "begun"
    ELSE "open"

ToldOf(o) == {answer[c] : c \in {d \in Calls : OpOf[d] = o}} \cap {"confirmed", "stale"}

Outcome == INSTANCE GuardedOutcome
             WITH effect <- [o \in Ops |-> EffectOf(o)], told <- [o \in Ops |-> ToldOf(o)]

(* With its database intact the system implements GuardedOutcome. *)
ImplementsOutcome == Outcome!Spec

-----------------------------------------------------------------------------
(* The inductive invariant behind TypeOK, AtMostOnce, ConfirmedHappened and
   RecordsTrue.                                                            *)

RowShape ==
    \A o \in Ops : IF row[o].state = "completed" THEN row[o].outcome \in Final
                   ELSE row[o].outcome = None

FileShape ==
    \A o \in Ops : IF file[o].state = "completed" THEN file[o].result \in Values
                   ELSE file[o].result = None

(* A worker exists only behind a file, and one per operation. *)
Owned ==
    \A c \in Calls :
        /\ IF worker[c].state = "none" THEN delivered[c] = 0
           ELSE file[OpOf[c]].state # "absent"
        /\ \A d \in Calls : /\ OpOf[c] = OpOf[d]
                            /\ worker[c].state # "none" /\ worker[d].state # "none"
                            => c = d

(* A completed file has no worker left. *)
FileDone ==
    \A c \in Calls : file[OpOf[c]].state = "completed" =>
                        worker[c].state \notin {"queued", "running"}

(* A call in progress runs in a live Core, under a row with its own request. *)
ActiveRow ==
    \A c \in Calls : Active(c) => /\ coreUp
                                  /\ row[OpOf[c]].state # "absent"
                                  /\ row[OpOf[c]].payload = PayloadOf[c]

BoundedInput == \A c \in Calls : delivered[c] <= Steps(c)

(* "confirmed" is true wherever the Core holds it, "ok" wherever the Agent or
   the network does. *)
CoreTruth ==
    /\ \A c \in Calls : pc[c] = "verifying" \/ answer[c] = "confirmed" =>
                          Performed(OpOf[c], PayloadOf[c])
    /\ \A o \in Ops : row[o].outcome = "confirmed" => Performed(o, row[o].payload)

DeviceTruth ==
    /\ \A c \in Calls : worker[c].result = "ok" => delivered[c] = Steps(c)
    /\ \A o \in Ops : file[o].result = "ok" => Performed(o, file[o].payload)
    /\ \A m \in replies : m.what = "ok" => Performed(OpOf[m.call], PayloadOf[m.call])

Inv == /\ TypeOK /\ RowShape /\ FileShape
       /\ Owned /\ FileDone
       /\ ActiveRow /\ BoundedInput /\ CoreTruth /\ DeviceTruth
-----------------------------------------------------------------------------
(* The inductive invariant behind the properties of verdicts.              *)

(* A call from its dispatch on: probing, on its way or handed to a worker. *)
Engaged(c) == pc[c] = "probing" \/ c \in requests \/ worker[c].state # "none"

(* The call that acts on an observation spends it for all others. *)
SpentOnce ==
    /\ ~coreUp => fresh = {}
    /\ \A c \in Calls : Engaged(c) /\ Kind(c) # "exec" =>
         /\ PayloadOf[c] \notin fresh
         /\ \A d \in Calls : Engaged(d) /\ PayloadOf[d] = PayloadOf[c] => c = d

(* What a call cannot have done before its send, and before its answer. *)
Untold ==
    \A c \in Calls :
        /\ pc[c] \in {"idle", "probing"} => c \notin requests /\ worker[c].state = "none"
        /\ pc[c] = "probing" => Kind(c) = "browser"
        /\ c \in requests => worker[c].state = "none"
        /\ pc[c] # "answered" => answer[c] = None

(* Nothing done for request p of operation o has touched the device, and
   nothing ever will: no observation, or no row, lets it be sent again. *)
Void(o, p) ==
    /\ KindOf[p] # "exec"
    /\ row[o].state # "absent" \/ p \notin fresh
    /\ \A d \in Calls : OpOf[d] = o /\ PayloadOf[d] = p =>
         /\ delivered[d] = 0 /\ d \notin requests /\ pc[d] # "probing"
         /\ worker[d].state \notin {"queued", "running"}

(* The results that say so are true wherever the device side holds them ... *)
NoInput == {"STALE_REFERENCE", "stale-value", "not-dispatched"}

VoidResults ==
    /\ \A c \in Calls : worker[c].result \in NoInput =>
         Kind(c) # "exec" /\ worker[c].state = "over" /\ delivered[c] = 0
    /\ \A o \in Ops : file[o].result \in NoInput => Void(o, file[o].payload)
    /\ \A m \in replies : m.what \in NoInput => Void(OpOf[m.call], PayloadOf[m.call])

(* ... and so are the verdicts that say so.  A Core that has forgotten an
   operation calls it stale whatever became of it. *)
SaysVoid(p, v) == (v = "stale" /\ restores = 0) \/ (v = "rejected" /\ KindOf[p] = "browser")

VoidVerdicts ==
    /\ \A c \in Calls : SaysVoid(PayloadOf[c], answer[c]) => Void(OpOf[c], PayloadOf[c])
    /\ \A o \in Ops : SaysVoid(row[o].payload, row[o].outcome) => Void(o, row[o].payload)

(* While no database has been put back, the row of an operation precedes all
   that is done for it, belongs to the only call that is sent, and holds every
   final verdict given. *)
RowFirst ==
    /\ \A o \in Ops : row[o].state = "absent" => file[o].state = "absent"
    /\ \A c \in Calls :
         /\ Engaged(c) => /\ row[OpOf[c]].state # "absent"
                          /\ row[OpOf[c]].payload = PayloadOf[c]
                          /\ \A d \in Calls : Engaged(d) /\ OpOf[d] = OpOf[c] => c = d
         /\ c \in requests \/ pc[c] = "probing" => file[OpOf[c]].state = "absent"
         /\ answer[c] \in Final => /\ row[OpOf[c]].outcome = answer[c]
                                   /\ row[OpOf[c]].payload = PayloadOf[c]

VerdictInv == /\ Inv /\ SpentOnce /\ Untold /\ VoidResults /\ VoidVerdicts
              /\ restores = 0 => RowFirst
=============================================================================
