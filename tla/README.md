# A TLA+ model of YourHand Community

YourHand lets an account drive its paired Windows PCs through a Core server.
A client calls tools on the Core, the Core sends requests over a WebSocket to
the Agent on the PC, and the Agent lets a native helper, a browser tab or a
shell act. This directory holds the TLA+ model of the parts of that system
whose correctness depends on order, failure and time, the TLC runs that check
it, and TLAPS proofs of its main invariants.

Sources: `SRV` is `src/server-multiuser.js`, `AG` `src/yourhand-agent.mjs`,
`NAT` `src/native/YourHandNative.cs`, `ENG` and `BR` `src/src/execution/engine.js`
and `browser.js`, `ST` and `WEB` `src/src/multiuser/store.js` and `web.js`, `INS`
`installer.js`; other files are named by their base name.

## 1. Inventory

| component | state | operations | interacts with |
|---|---|---|---|
| guarded action pipeline (SRV 258-292) | none of its own | `durableComputerAction` | operation journal, engines |
| operation journal (`operation-journal.js`) | SQLite rows: state, fingerprint, owner epoch, outcome | submit, dispatch, finish, uncertain, row | pipeline, `computer_operation_status` |
| execution engine (ENG), browser execution (BR) | observations, in-memory operations, leases | observe, act, perform | RPC to the Agent |
| Agent action journal (`yh-action-journal.mjs`) | one fsynced file per action | execute, status | Agent dispatch |
| Agent dispatch (AG) | - | message handler, `dispatch` | Core by WebSocket, the parts below |
| Agent's connection (AG 564-651) | `ws`, `reconnectTimer`, `heartbeat`, each socket's `ready` and deadline | scheduleReconnect, connectRemote, markReady, close, shutdown | Core |
| Agent's helper pipe (AG 124-160) | `nativeProc`, `nativeInit`, `nativePending` | initNative, nativeCallInner | native helper |
| Agent's processes (AG 296-426) | `procSessions`, each with a ring buffer; the output of a command | start, read, kill, forget; execLocal | Windows |
| Agent's browser calls (AG 186-279) | none; each looks for the browser itself | status, start, tabs, eval, navigate, close_tab | CDP port |
| native helper (NAT) | observation frames | observe, semantic batch, click preview, ... | Windows |
| RPC dispatch and sessions (SRV 120-213, 293-396) | `devices`, `pending` | rpcDispatch, response, timers, dropDevice, upgrade, auth, close | locks, store, Agent |
| device task locks (`device-task-locks.js`) | one lease per device, in memory | info, acquire, release, dropIfUnauthorized, forceReleaseDevice | RPC dispatch, lock tools |
| store (`store.js`, routes in `web.js`) | SQLite: devices, members, invitations, pairing codes, sessions | revoke, share, accept, enroll, ... | everything that asks for a role |
| task ledger (`task-ledger.js`) | one row per task with a revision | get, list, save | checkpoint tools |
| OAuth server (`oauth.js`) | codes, access and refresh tokens | authorize, exchange, refresh | web clients, every tool call |
| usage meter (`usage-meter.js`) | rows of intervals | record, summary | the wrapper of every tool |
| call telemetry | SQLite table | record, summary | the same wrapper, web routes |
| capability planner (`capability-router.js`, SRV 731-827) | none | chooseRoute, computer_plan, computer_background_task, computer_doctor | three RPCs to the Agent |
| enrolment and Setup (INS, AG 18-60, `YourHandManager.cs`) | the profile's files: key, configuration, bootstrap, package; Setup's backup | Setup's steps, loadOrEnrollConfig, Manager's start, stop, uninstall | store by `/api/device/enroll` |
| desktop route (`router.js`) | none | pure functions | engine |
| tool registry, MCP and web servers, front end | - | plumbing, I/O | the rest |

What is hard in it: three processes on two machines and a database, each of
which may die alone; one Core event loop in which accounts' requests overlap at
every `await`; sockets that are replaced while the close of the old one is
still to come; timers on both ends of the wire that race late answers; side
effects that cannot be taken back and must not be repeated; rights that change
while a request is in flight. `PROJECT.json` lists the hazards by line.

What makes the components correct, in short: an action's effect happens at most
once per idempotency key and answers about it are true (pipeline, both journals,
engines, helper); commands of two accounts are not at work on a device together,
and reservations neither leak nor vanish (dispatch, locks); sessions and
requests are not confused by old sockets and every request settles (sessions);
codes, invitations and tokens are used once (store, OAuth); a revision is saved
once (ledger); time is counted once (usage meter).

## 2. Modules

### GuardedAction: one device, one account, one or more idempotency keys

State: the Core's journal (`row`), its live observations (`fresh`), where each
tool call stands (`pc`, `answer`), the messages on the wire, the Agent's journal
(`file`), the calls whose `perform()` the Agent awaits (`waiting`), the helper,
tab or shell at work (`worker`) and the inputs that reached the device
(`delivered`). A step is one turn of an event loop, from one `await` to the next;
where a turn commits to disk more than once, the crash in between is an action
(`CrashInSubmit`, `CrashInReserve`).

| actions | code |
|---|---|
| `Submit`, `Recall`, `Resubmit`, `Goto`, `Close` | `durableComputerAction`, `OperationJournal` |
| `ProbeOk`, `ProbeFails`, `CoreReply`, `Verified`, `RpcGivesUp`, `Classify` | `ExecutionEngine.perform`, `BrowserExecution.perform`, the RPC timer |
| `Receive`, `Reserve`, `ReserveFails`, `Reuse`, `Complete` | `FileActionJournal.execute` under the Agent's dispatch |
| `WorkerStart`, `WorkerInput`, `WorkerDone`, `WorkerRefuses`, `WorkerThrows`, `WorkerStops`, `WorkerUnsure`, `HelperExits`, `WaitTimeout` | `SemanticBatch`, `ClickPreview`, `Inject`, the helper's pipe |
| `CoreCrash`, `CoreRestart`, `AgentCrash`, `AgentRestart`, `Lose`, `RestoreBackup`, `ChangeAccess`, `ExpireFrame` | environment |

Abstractions: a request is a member of a small set (what the two fingerprints
hash); its route is click, batch, browser or shell; all answers that say "look at
the device first" are `unknown`; the model's helper may fail at any step.
`RestoreBackup` is an operator putting the database back from before an
operation, the only action that is not code of the repository.

`MCGuardedAction` has the instances TLC runs. `MCGuardedScenarios` puts two of
them in one run, with operations and observations of their own: by its constraint
(`OneScenario`) a behaviour makes the calls of one and never those of the other.

### GuardedOutcome: what a client may rely on

Per operation, the effect goes from open to begun and whole, or is closed without
effect; "confirmed" is told only of a whole effect and "stale" only of one that
never begins. `GuardedAction!ImplementsOutcome` is the refinement: the effect is
read off the inputs delivered and the journal row, the answers off the calls.

### DeviceControl: one device, several accounts

State: whether the device is paired (`active`), members' roles (`share`), both
ends of the connections (`sock`, `agent`), the Core's session, the one lease of
`DeviceTaskLocks` (`lock`), the requests (`at`, `ws`, `left`), the messages, and
what the Agent makes of each request (`work`: running, or an orphan the Agent no
longer waits for). `waiver` is a history variable: why a request that is still
under way lost its reservation. It is read by no action.

| actions | code |
|---|---|
| `Connect`, `AgentLosesSocket` | `connectRemote`, its close handler; the upgrade |
| `Authenticate`, `AuthFails`, `SocketCloses`, `DropDevice` | connection handler, `dropDevice` |
| `SetShare`, `Unpair`, `Enroll` | `acceptDeviceShareInvite`, `revokeDeviceShare`, `revokeDevice` with `onDeviceRevoked`, `_enrollRow` |
| `Dispatch`, `SendFails`, `Respond`, `RpcTimeout` | `rpcDispatch`, `probeDeviceFromWeb`, the response handler, the RPC timer |
| `AcquireLock`, `ReleaseLock`, `Tick` | the lock tools, expiry |
| `Receive`, `Finish`, `StopWaiting`, `OrphanEnds` | the Agent's message handler, `nativeCallInner`, the helper |
| `CoreRestart` | the Core's memory is lost |

Abstractions: time is in ticks and a timer fires in the tick in which it is due;
the clamps of the timers (at most 180 s for a request, 15 minutes for a lease)
appear as `Timeout < Lease`. Devices do not share state, so one is enough. A
reservation's name given by a client does not have the `rpc_` form the Core gives
its own; renewing or releasing such a row by its name, which
`device_lock_status` shows, is modelled. Permission means the account's role on
the device; OAuth scopes are left out, every call has the scope it needs. An
answer is `uncertain` when its text matches the pattern of SRV 186: none of the
Agent's own messages does (`OUTCOME_UNCERTAIN` has an underscore), but text it
quotes from a page, a file name or a tool may, and keeps the lease to its expiry.

### DeviceStore and DeviceInstall: from a pairing code to a paired profile

`DeviceStore` has the tables: `devices` (a key stands for its row), `codes`,
`invites`, `shares`. A statement or a transaction is a step; `revokeDevice` is
two, so `RevokeDies` is the Core's death between them. Histories: how often and
with which codes a device was paired, how often an account was admitted, and
the invitations such a death spared.

`DeviceInstall` EXTENDS it with one Windows profile: `key`, `config`, `boot` and
the package's files (`runtime`), where Setup stands with its backup (`saved`,
`created`, `started`, `restored`), and the Agent processes.

| actions | code |
|---|---|
| `CreatePairingCode`, `ExpireCode`, `Enroll` | `createPairingCode`, `_enrollRow` |
| `CreateInvite`, `ExpireInvite`, `AcceptInvite`, `RemoveMember` | the sharing routes |
| `Leave`, `Revoke`, `RevokeDies` | `revokeDevice` of a member and of the owner |
| `RunSetup`, `Downloaded`, `BackUp`, `CopyFile`, `CopyFails`, `Configure`, `StartNew`, `WatchEnds`, `Rollback`, `Noticed` | `Main` of Setup (INS 101-180) with `CopyTree` and `RollbackRuntime` |
| `Launch`, `LoadConfig`, `AskCore`, `SaveConfig`, `Die` | the Manager's or Windows' start, `loadOrEnrollConfig`, its end at any point |
| `Uninstall`, `FinishUninstall` | the Manager's removal and the helper it leaves |

`AskCore` is the one step the Core and the profile take together: it is
`DeviceStore!Enroll` for the token and key the Agent sent. A file is "old", "new"
or absent; a running Agent locks `node.exe` and nothing else. One Setup runs at a
time. `FinishUninstall` is one attempt of the loop that deletes the profile
(`YourHandManager.cs` 106-111): what is in use stays, and another attempt may
follow; that there are at most 18 is left to choice. `DeviceControl` takes the store's changes of role and status as happening
at any time; `DeviceStore` says which can happen.

### OAuthGrants and GrantChain

`OAuthGrants` has codes and pairs of tokens with their states, what clients have
been told (`wallet`) and which codes were presented wrongly. `IssueTokens` is two
inserts after a committed mark or revocation; each prefix is a disjunct, and
every answer may be lost. `GrantChain` is what that is to amount to: the right to
renew an authorization is a baton that is handed on or dropped and never comes
back; `ImplementsChain` maps the code, or the one live refresh token, to its
holder. Client registration, scopes and the proof are data: `fits` says whether
all of them match.

### TaskLedger

One task's `row`, what each conversation last `read`, the request it has under
way (`sent`) with the revision it was made under, and how often each request was
carried out (`saves`). `SavedOnce` relates the two. `Save` may leave the request unanswered, to be sent again; `Refuse` is every
error of `save` and of the tool. What a checkpoint says is the set of requests
whose progress is in it.

### UsageMeter

A wall clock that may be set (`SetClock`), the running calls with their length by
`performance.now`, and the rows. `UnionMs` is the sort and sweep of `unionMs`:
`InOrder` is the sorted arrangement of the intervals, `Sweep` the loop over it, a
fold of the community modules. The properties compare it and the clipped week
with the number of instants at which some call was running.

### Planning

What is true of the device, what each call has asked and `heard`, and its `plan`.
The three requests of `currentCapabilities` are answered in any order, at any
moment, or not at all, while the device changes (`SaysIn` is what a device in a
state answers). `ChooseRoute`, `Suggested` are the two decision procedures.

### AgentLink

The Agent's `ws`, each socket's `state`, `ready` and `deadline`, the reconnect
`timer`, the await inside `connectRemote` (`attempt`), the `heartbeat` variable
and the intervals that really run (`beating`).

| actions | code |
|---|---|
| `Fire`, `Connect`, `AttemptFails` | the reconnect timer; `connectRemote` before and after `await initNative()` |
| `Opens`, `SocketEnds`, `CannotSign`, `MarkReady`, `Deadline`, `CloseEvent` | events of a socket and its 30 s deadline |
| `Shutdown`, `AgentExits`, `AgentStarts` | signals, the end of the process, its next start |

The length of the back-off is left out: the timer fires some time.

### NativePipe

`proc`, `init` and `pending` are the Agent's variables, `waiting` the calls that
await `nativeInit`; each helper has a `life`, a `queue` and `answers`. The event
that a helper is gone comes in its own turn, so calls are still written to a dead
one. The Agent's own shutdown is left out.

### ChildOutput

A process, a descendant that may hold its pipes, and data, exit and close events.
`StartSession`, `Read`, `Kill`, `Forget` are `procStart` and `procCall`,
`ProcAppend` is `procAppend`; `Run`, `Add`, `RunTimeout`, `Answer` are `execLocal`.

Output is bytes, written as UTF-8 characters of one to four (`chars`). A data event
brings any number of them and is decoded by itself (`ToString`): the beginning of
a character at the event's end is one U+FFFD, and each byte of its rest, in the
next event, another. `text` is the history of what was decoded, in the units of
JavaScript strings, and `split` of the characters inside which an event ended;
neither is read by the code. A session's buffer and offsets are places in `text`,
so that a reader's loss or repetition shows. A command's output is cut by bytes of
the text encoded again (`CutAfter`): a U+FFFD counts three, and the character the
limit falls in becomes U+FFFD (`torn`). One of the two streams is modelled, and a
program that writes text, not arbitrary bytes. `write` and `close_stdin` change
nothing the Agent keeps and are left out.

### BrowserTab

`observe` and `act` of `BrowserExecution`, each of whose requests is a step, over
an Agent that looks for the browser anew in every request (`EnsureBrowser`) while
the page navigates and the browser exits. `working` is an evaluation at the Agent,
whether the Core still waits or not. Keys, journals and the classification of
errors are `GuardedAction`'s. The lease is per account, device and tab; one
account is modelled, since the device's reservation keeps others away
(`DeviceControl`). `started` is the history of the observations that started a
browser.

### MCCoreServices and MCAgentServices

The parts above share no state, so nothing is gained by interleaving them: these
modules put them side by side, and a behaviour follows one (`focus`) while the
others stay in their initial state. Each part's behaviours are thereby exactly
those of its own specification, and its invariants are checked over the sum, not
the product, of the parts' states. `MCAgentServices` EXTENDS its four parts,
`MCCoreServices` its five. `MCAgentServices!Fairness` is each part's fairness, of
its own steps.

## 3. Runs

| run | question | bounds |
|---|---|---|
| GuardedBatch | are answers about a two-step batch true, final, never overtaken, and given at all; refinement of GuardedOutcome | batch repeated, its key reused for a click; 3 Core processes, any number of Agent crashes; with fairness |
| GuardedRestore | does the Agent's journal alone keep an action from happening twice, do both journals tell the truth, does the Core alone send an operation once while its database is intact; is an observation good for one action; is "rejected" of the browser route true | two scenarios: a shell command repeated, its key reused for a click; a browser action repeated under its key and under another; each with 3 Core processes, 1 restored database |
| DeviceExclusive | can two accounts' commands be at work together; do leases leak or vanish; do stale sockets do harm | owner and member, one mutating request each, one named reservation, two connections, lease of 2 ticks over a timeout of 1, any number of Core restarts, role changes, unpairings |
| DeviceSettle | does every request settle | a mutating request and another account's ping, with fairness |
| Enrollment | is a profile's identity always one the Core paired; is nothing lost by a Setup that fails | two accounts, two keys, two codes, two pairings per device; a package of node.exe and one other file; two Agent processes, two runs of Setup |
| CoreServices | are codes, invitations and tokens used once over crashes and lost answers (refinement of GrantChain); is no checkpoint lost or saved twice; is time counted once; is a plan true | owner, member and a third account, one device, two codes, two invitations; two authorizations, three pairs of tokens; two savers, three requests, two devices; three calls on a clock of 5 instants, lengths to 3, a week of 2; one planning call, two changes of the device |
| AgentServices | one way to the Core; one helper, with every pending call, and every call settled; output exact but for characters split between two events; one action in a tab | two sockets; three calls over two helpers; five bytes of output in characters of one to four, a buffer of 2 units, a limit of 7 bytes; two observations, two actions, two addresses, two element states; with fairness |
| GuardedApproval, DeviceTimedOut, DeviceContent, InstallerBackup, BrowserObserve | does the code keep a sentence it states; it does not, see below | those of the part's other run; `BrowserTab` alone with two observations |

The bounds are those in which the interesting cases happen: two calls are enough
for a repeat and a third for a reused key, two steps for a batch that is stopped
half-way, two Core processes for a row of an earlier owner and a third for a
repeat after that. A conflict is between two accounts, a stale socket needs two
connections, and with a lease one tick longer than the timeout both a lease that
outlives its timed-out request and one that expires under it occur. A third pair
of tokens is one renewed from a renewed one; two invitations are what a removed
member comes back with; three intervals can nest, touch and leave a gap; a buffer
of 2 under 5 bytes drops its head in the middle of a chunk and twice; a limit of
7 bytes holds the two U+FFFD (6 bytes) of a split character and cuts in, before or
after a character that follows; a second helper is started while calls wait on the first; a second socket exists
while the close of the first is due. Every
property has a mutant in the modules (an operator marked `mutant`, a plausible
slip in the same code) that makes its run fail.

Fairness. `GuardedAction` assumes only that the timers and settled promises of a
live Core fire: the RPC timer, the end of the browser's probe and of the title
verification. `DeviceControl` assumes that the clock advances and that a due RPC
timer fires. Nothing is assumed of the network, the Agent, the helper, the users
or of a Core coming back up. `AgentLink` assumes that the reconnect timer and the
authentication deadline fire, that the await on the helper's start ends, and that
a socket that is closing or closed says so; `NativePipe` that the start's and the
calls' timers fire; `ChildOutput` that a command's timer fires, a killed process
ends and events that are due are handled. Nothing is assumed of the peer, the
helper or a descendant. No fairness is stated for the other parts: they have no
liveness property.

### What the code says and does not keep

Five runs end in a counterexample, each of a sentence in the code:

* `GuardedApproval` - "No GUI input was sent" (ENG 133) is told after earlier
  steps of a batch were delivered, because the approval guard runs before each
  step (NAT 621).
* `DeviceTimedOut` - "Never grant another account GUI control while a timed-out
  side effect may still be executing" (SRV 179-180): the socket's close releases
  the lease (SRV 295).
* `InstallerBackup` - "Never delete the backup when rollback failed" (INS 174):
  the condition asks whether an Agent runs once the message box is closed
  (INS 176), which the user may have started meanwhile.
* `DeviceContent` - content that requires Operator (SRV 149-150) reaches a member
  made viewer while the request ran (SRV 373).
* `BrowserObserve` - "Does not require the Windows foreground or start a browser
  automatically" (SRV 706) of an observation: it asks for the status first and goes
  on only if a browser runs (BR 51-52), but the requests that follow start one
  when it has exited since (BR 53-55, AG 212, AG 265).

Three more readings of the code go the same way and are part of the model, each
an allowed case of a property above rather than a run of its own: `canEscalate`
(`router.js` 32-36 and its test) takes a rejected action for one that did
nothing, while the engine also rejects batches that stopped, or whose helper
exited, after input (`WorkerStops`, `HelperExits`); a timeout that the Agent
reports itself frees the device though the helper is still at work, because its
text is not among those that keep the lease (SRV 186, `StopWaiting`); and an
explicit reservation, promised "until released or lease expiration" (SRV 496),
goes with the Agent's connection (SRV 295, `DropDevice`).

What other parts allow, and their properties name: a character that two data
events share is lost as U+FFFD, and neither the answer, its `truncated` nor an
offset tells the reader, since each event is decoded alone (AG 316, AG 394;
`TextExact` in `OutputExact`); a tab's lease ends with the Core's call and not
with the evaluation (`OneInTab`); a Core that dies inside `revokeDevice` leaves
invitations that hold again after a re-pairing (`InvitesEndWithPairing`); a
client that loses the answer to a refresh has lost the authorization, since the
old token is revoked first (`ImplementsChain`, where the baton is dropped).

`Exclusive` says what is left of the mutual exclusion: two accounts' requests
are under way together only if one of them lost its reservation by a cause the
history names.

## 4. Proofs

TLAPS proves the following for every value of the constants under the `ASSUME`s
of the modules, which TLC evaluates in every run: types of the constants; names
that stand for "nobody" or "none" are not members of the sets; at least one step
per request and one step unless it is a batch; the RPC timeout shorter than the
lease; request names distinct from reservation names; authorizations distinct
from pairs of tokens; an output of at least one byte; a database made while
the clock was in its range. The module a theorem is about is the one named
before `Proofs`, or one that module EXTENDS.

| module | theorems | from |
|---|---|---|
| GuardedActionProofs | `TypeCorrect`, `AtMostOnceHolds`, `ConfirmedTruth`, `RecordsTruth` | `Inv` |
| GuardedVerdictProofs | `StaleTruth`, `OneVerdictHolds`, `BrowserRejectedTruth`, `OneShotHolds`, `FirstContactHolds`, `OutcomeUntilRestored`, `OutcomeImplemented` | `VerdictInv` |
| DeviceControlProofs | `TypeCorrect`, `ExclusiveHolds`, `NothingOrphanedHolds`, `NoLeaseLeakHolds`, `StaleSocketHarmlessHolds`, `ReservationStickyHolds` | `Inv` |
| DeviceStoreProofs | `UsedOnceHolds`, `AccessGrantedHolds`, `InvitesEndHolds` | `StoreInv` |
| DeviceInstallProofs | `InstallTypes`, `ConfigTrueHolds`, `InstallIsStore`, `SetupRecoverableHolds` | `InstallInv` |
| UsageMeterProofs | `UsageTypes`, `UsageExactHolds` | `UsageInv` |
| CoreServicesProofs | `GrantTypes`, `GrantOneRenewal`, `GrantChainImplemented` | `GrantInv` |
| | `LedgerTypes`, `LedgerSavedOnce` | `LedgerInv` |
| | `PlansSoundHolds` | `PlanInv` |
| | `PartsImplemented`, `ServiceTypes`, `ServicesCorrect` | the five parts' |
| AgentProofs | `OneWayHolds`, `BeatsWithSocketHolds`, `OneHelperHolds`, `OutputExactHolds`, `OneInTabHolds` | `LinkInv`, `PipeInv`, `ChildInv`, `TabInv` |
| | `AgentInvariance`, `AgentTypes`, `AgentCorrect` | all four |

Each inductive invariant is defined in the component's module (`GrantInv` and
`LedgerInv` with their proofs) and was checked by TLC with the constants of the
component's run before it was proved. The proofs have a lemma or a
step per action, and below it one per conjunct the action can disturb.

Guarded actions, `Inv`. None of the properties is inductive alone. It adds that a
worker exists only behind a journal file and only one per operation (`Owned`),
that a completed file has no live worker (`FileDone`), that a call in progress
runs in a live Core under a row with its own request (`ActiveRow`), and that "ok"
is true wherever it travels - worker, file, message, row, answer (`CoreTruth`,
`DeviceTruth`). At-most-once follows from `Owned`: two deliveries would need two
workers. The proof does not use the Core's row at all, which is why it covers a
restored database.

Guarded actions, `VerdictInv`. A call that acts on an observation spends it for
all others (`SpentOnce`). A request is `Void` when nothing done for it has touched
the device and, for want of an observation or because of its row, nothing can be
sent for it again; results and verdicts that say so are true wherever they are
held (`VoidResults`, `VoidVerdicts`). While no database was put back, the row
precedes all that is done for an operation, belongs to the one call that is sent,
and holds every final answer given (`RowFirst`). `StaleTruth`
and `OneVerdictHolds` are stated while `restores = 0`, `OutcomeUntilRestored` for
every step before the first restored database, and `OutcomeImplemented`, the
refinement of a whole behaviour, for `MaxRestores = 0`: a Core whose database was put back to before an operation
finds no row for it, sees that its observation is gone and calls it stale,
whatever became of it. The restriction is thus the code's, not the proof's;
`FirstContact` has it in the property itself. `OneShotHolds` and
`BrowserRejectedTruth` need none. The refinement takes each action and shows
the step of `GuardedOutcome`'s effect or answers that it is, or that both stay.

Device control. `Covered` strengthens `Exclusive`: a request that is under way
and has lost nothing runs under the device's one row, held by its own account,
which may still operate the device, in its own name or a named one. Two such
requests of different accounts would make one row belong to both. `SentOnce`
supplies what the steps need of the messages (a reply to a request that is still
at work means that the Agent stopped waiting, so releasing its row is accounted
for), `Connected` that a fresh socket carries no old requests. `Attached` ties
pending requests and the reservation to the session: it gives `NothingOrphaned`,
and lets the close of a replaced socket be shown to touch nothing of the new one.
`NoLeaseLeak` is inductive given `Attached`, since whatever settles a request
finds the reservation it took. The two action properties are proved action by
action from `Inv`.

Store and installer. `StoreInv` adds to `UsedOnce`, `AccessGranted` and
`InvitesEndWithPairing` that a code which paired a device is used (`PairedIsUsed`)
and that the codes and invitations counted are finite sets (`Countable`), the
counts being cardinalities. `InstallInv` contains it, since `AskCore` and the
removal are steps of the store, too: `DeviceInstallProofs` cites the store's
lemmas for them, and `InstallIsStore` says that all the installation does to the
Core's tables are steps of the store. `AgentHolds` says what an Agent at each point has in hand, which
makes `ConfigTrue` survive a reply that was lost and a second Setup. `FilesKept`
is what `SetupRecoverable` needs of the steps before the last: from the first copy
on every file Setup found is in the backup; where saving them stopped, it is in
the backup or untouched; after a rollback it is back; created files were not there.
`StagesTrue` says what cannot have happened yet at each stage.

OAuth. `GrantInv` adds that nothing is issued under a code that is still new or open
(`UnusedIsEmpty`), that a pair not yet issued has neither token nor authorization
(`NewIsBlank`), that a misused code has nothing under it (`BurntIsEmpty`), and
states uniqueness over pairs of equal authorization (`OneLive`). One lemma,
`IssueStep`, covers `issueTokens` with every place the process may die in it; the
exchange and the rotation both cite it. For the refinement of `GrantChain` the
holder of an authorization's baton is a set of at most one credential
(`Holders`), and a step passes it to a pair not used before, drops it, or leaves
it (`PassesStep`).

Task ledger. `LedgerInv` adds that what a conversation read at the present revision
is exactly what the row holds (`ReadsAreExact`), that a request made under the
present revision holds the row's progress, its own and nothing else, and has not
been carried out (`CallsAreExact`), and that no two conversations send the same
request (`OwnRequests`). A save accepted by its revision therefore drops nothing
and was not carried out before.

Agent. `LinkInv`: of a timer, an attempt and a socket there are never two in any
mode (`NeverTwo`), one in a process that is to stay (`Stays`), and the interval
that runs is the one the variable `heartbeat` remembers (`Remembered`), so that
clearing that one stops all. `PipeInv`: a helper that lives, or whose exit event is
due, is the one in use (`InUse`), so that a helper is started only when nothing is
pending. `ChildInv`: a session's buffer is, exactly, the places in
`text` from its base to the last (`Stream`); appending and cutting are lemmas about
such runs of numbers (`NumbersJoin`, `NumbersCut`), and a reader's step one about
what it has and what it was told of (`ReadsOn`). A command keeps all that was
decoded until its limit (`KeepsAll`), and a character that has arrived in part is
known to be split (`Written`). `DecodedExact` says what a data event adds to
`TextExact`: in order, after all that was there, and each character whole unless
an event ended inside it. It needs that a decoded event is a finite set of units
(`UnitsFinite`), so that it can be put in order. `TabInv`: an evaluation at the Agent
belongs to an action that holds the tab's lease or is uncertain (`AtAgent`,
`OneLease`).

Usage meter. `UsageInv` says no more than that the rows are finitely many and that
no interval ends before it begins; the rest is about the algorithm. `UnionCounts`
states it for any finite set of such intervals: the sweep returns the number of
instants in their union. It needs induction over data, of which the library's
theorems take an operator as a parameter. The proofs go around that by a least
counterexample: the finite sets of places are well-founded under strict
inclusion (`FS_StrictSubsetOrderingWellFounded`), and that fact needs no
parameter (`LeastNatural`). With it `InOrderSorts` shows that a sorted arrangement
exists - each interval goes to the place given by the number of those before it -
and is therefore the one chosen; `FoldExists` and `FoldIsRun` that the library's
fold is the run of its steps; `JoinStep` that each step keeps `Swept`: total and
open interval together count the instants covered so far. `LastWeekExact` is the
same lemma for the clipped intervals, once it is shown that clipping neither adds
an instant of the week nor loses one, wherever the clock was set.

Planner. `HeardIsTrue`: what a call has heard of a question is, as a whole, what
the device would have said to it in one state it had during the call, or nothing.
All the facts a screen route rests on come from the one answer about the session,
which is why one state witnesses all of them although three answers are
combined. `Stages` keeps the present state among those seen while a question is
open. A plan is then taken apart by what `ChooseRoute` can return. `DoctorAgrees` is
a statement about the two procedures and holds of all sets of facts.

The parts together. A step of `MCCoreServices` is a step of one part and leaves
the variables of the others, so its specification implies that of each part
(`PartsImplemented`), and with it all that was proved of the part by itself
(`ServicesCorrect`). For `MCAgentServices` the same is shown of the invariants,
not of whole specifications: a part's own fairness is not assumed while the
behaviour follows another part.

Only model-checked: the five liveness properties (`CallSettles`, `RpcSettles`,
`NeverGivesUp`, `CallsSettle`, `CommandSettles`), which need fairness and ENABLED
and are beyond TLAPS here. Every invariant, action
property and refinement of a passing run is a theorem; those that a restored
database breaks (`StaleUntouched`, `OneVerdict`, `ImplementsOutcome`) until one is
restored.

## 5. Plan

Next: the execution engine's in-memory tables with their caps, the helper's own
frame table, and two Setups at once. The first two would refine refusals that
the model has as a choice (`WorkerRefuses`, a row's outcome); the third extends
`DeviceInstall`.

## 6. Not modelled

Telemetry (an append-only table nothing reads back into a decision), the tool
registry and HTTP plumbing, sign-in (Google's verdict and a session row), display
names, the front end and voice code, the repository's CI, the Manager's window,
Win32 calls, screen capture and file operations (direct I/O), the Desktop
Commander bridge (a third-party server), the desktop route (a pure choice between
two requests that are both modelled), and the network capability policy and
`canEscalate`, which the server does not call.
