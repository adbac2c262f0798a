---------------------------- MODULE DeviceInstall ----------------------------
(***************************************************************************)
(* One Windows profile and the Core it is paired with: the Setup program   *)
(* the Core builds (installer.js), the Agent's enrollment                  *)
(* (yourhand-agent.mjs), and the Manager that starts, stops and removes    *)
(* the Agent (YourHandManager.cs).                                         *)
(*                                                                         *)
(* Setup looks for a running Agent twice, saves the files it will replace, *)
(* copies the package file by file, starts the Agent and, when it does not *)
(* stay up, puts the files back.  Between any two of its steps an Agent    *)
(* may be started or die, a file operation may fail, and the profile may   *)
(* be cleaned by an uninstallation.  One Setup runs at a time.             *)
(***************************************************************************)
EXTENDS DeviceStore

CONSTANTS
    Files,         \* the files of the package
    Node,          \* the one that is locked while an Agent runs
    Procs,         \* Agent processes
    MaxSetups      \* bound: times Setup is run

ASSUME NodeIsFile  == Node \in Files
ASSUME SetupsBound == MaxSetups \in Nat

VARIABLES
    key,       \* device-private.pem and device-public.pem
    config,    \* yourhand-config.json: the device it names, by its key
    boot,      \* yourhand-bootstrap.json: the token in it
    runtime,   \* the version of each file of the package, in the profile
    setup,     \* where Setup stands
    saved,     \* Setup's backup directory: what it holds of each file
    created,   \* Setup's list of files that were not there
    started,   \* agentStarted
    restored,  \* the rollback: not tried, "yes" (rollbackSucceeded) or "failed"
    before,    \* history: the files there when Setup began to replace them
    setups,    \* bound: runs of Setup so far
    agent,     \* each Agent process: where it stands, its token and key
    cleaning   \* a removal is under way (/finish-uninstall)

pcVars == <<key, config, boot, runtime, setup, saved, created, started, restored,
            before, setups, agent, cleaning>>
vars   == <<coreVars, pcVars>>

Off      == [at |-> "off", token |-> None, key |-> None]
Versions == {"old", "new", None}
Stages   == {"idle", "download", "backup", "copy", "start", "watch", "failed", "notice"}
NoFiles  == [f \in Files |-> None]

TypeOK ==
    /\ StoreTypeOK
    /\ key \in Keys \cup {None} /\ config \in Keys \cup {None}
    /\ boot \in Codes \cup {None}
    /\ runtime \in [Files -> Versions] /\ saved \in [Files -> Versions]
    /\ before \in [Files -> Versions]
    /\ setup \in [stage : Stages, token : Codes \cup {None}, copied : SUBSET Files]
    /\ created \in SUBSET Files /\ \A f \in created : saved[f] = None
    /\ started \in BOOLEAN /\ restored \in {"no", "yes", "failed"} /\ cleaning \in BOOLEAN
    /\ setups \in 0..MaxSetups
    /\ agent \in [Procs -> [at : {"off", "up", "asking", "paired", "running"},
                            token : Codes \cup {None}, key : Keys \cup {None}]]

(* A profile with no Agent, or with an earlier version installed by Setup and
   waiting to be paired. *)
Init ==
    /\ StoreInit
    /\ key = None /\ config = None /\ boot = None
    /\ runtime \in {NoFiles, [f \in Files |-> "old"]}
    /\ setup = [stage |-> "idle", token |-> None, copied |-> {}]
    /\ saved = NoFiles /\ created = {} /\ before = NoFiles
    /\ started = FALSE /\ restored = "no" /\ setups = 0
    /\ agent = [p \in Procs |-> Off]
    /\ cleaning = FALSE

IsAgentRunning == \E p \in Procs : agent[p].at # "off"
Installed      == \A f \in Files : runtime[f] # None
Stage(s)       == setup' = [setup EXCEPT !.stage = s]

(* File.Copy over a file and File.Delete: a running executable refuses. *)
Writable(f) == f = Node => ~IsAgentRunning

-----------------------------------------------------------------------------
(* Setup.                                                                  *)

profileVars == <<key, config, runtime, agent, cleaning>>
listVars    == <<saved, created, started, restored, before>>

(* Setup carries the token its download was made for, whatever became of it
   since.  With an Agent running it opens the Manager and ends. *)
RunSetup(c) ==
    /\ setup.stage = "idle" /\ setups < MaxSetups
    /\ codes[c].state # "new" /\ ~IsAgentRunning
    /\ setup' = [stage |-> "download", token |-> c, copied |-> {}]
    /\ setups' = setups + 1
    /\ created' = {} /\ started' = FALSE /\ restored' = "no" /\ before' = NoFiles
    /\ saved' = NoFiles            \* a directory of its own; an older one stays
    /\ UNCHANGED <<coreVars, profileVars, boot>>

(* The download ends.  A bad package, or an Agent started meanwhile, ends
   Setup with no file changed. *)
Downloaded ==
    /\ setup.stage = "download"
    /\ Stage("idle") \/ (~IsAgentRunning /\ Stage("backup"))
    /\ UNCHANGED <<coreVars, profileVars, listVars, boot, setups>>

(* CopyTree's first loop: files that are there are saved, the others listed.
   It may stop anywhere; nothing has been replaced then. *)
SaveExecutable(S) ==               \* mutant: only the executable is saved
    /\ saved' = [f \in Files |-> IF f \in S /\ f = Node THEN runtime[f] ELSE None]
    /\ created' = {f \in S : runtime[f] = None}
ListEverything(S) ==               \* mutant: what is saved is listed as well
    /\ saved' = [f \in Files |-> IF f \in S THEN runtime[f] ELSE None]
    /\ created' = S
SaveFiles(S) ==
    /\ saved' = [f \in Files |-> IF f \in S THEN runtime[f] ELSE None]
    /\ created' = {f \in S : runtime[f] = None}

BackUp ==
    /\ setup.stage = "backup" /\ before' = runtime
    /\ \/ SaveFiles(Files) /\ Stage("copy")
       \/ \E S \in SUBSET Files : SaveFiles(S) /\ Stage("failed")
    /\ UNCHANGED <<coreVars, profileVars, boot, started, restored, setups>>

(* CopyTree's second loop, a file at a time in some order. *)
CopyFile(f) ==
    /\ setup.stage = "copy" /\ f \notin setup.copied /\ Writable(f)
    /\ setup' = [setup EXCEPT !.copied = @ \cup {f}]
    /\ runtime' = [runtime EXCEPT ![f] = "new"]
    /\ UNCHANGED <<coreVars, key, config, agent, cleaning, listVars, boot, setups>>

CopyFails ==
    /\ setup.stage = "copy" /\ Stage("failed")
    /\ UNCHANGED <<coreVars, profileVars, listVars, boot, setups>>

(* "Existing Community device identity survives repair/update". *)
WriteBootstrap == boot' = IF config = None THEN setup.token ELSE boot
Configure ==
    /\ setup.stage = "copy" /\ setup.copied = Files
    /\ WriteBootstrap /\ Stage("start")
    /\ UNCHANGED <<coreVars, profileVars, listVars, setups>>

(* Process.Start, or its failure. *)
StartNew ==
    /\ setup.stage = "start"
    /\ \/ \E p \in Procs :
             /\ agent[p] = Off /\ runtime[Node] # None
             /\ agent' = [agent EXCEPT ![p].at = "up"]
             /\ started' = TRUE /\ Stage("watch")
       \/ Stage("failed") /\ UNCHANGED <<agent, started>>
    /\ UNCHANGED <<coreVars, key, config, runtime, cleaning, saved, created, restored,
                   before, boot, setups>>

(* 1800 ms later.  finally deletes the backup if the Agent is still up after
   the messages; it may have died, and the deletion may fail. *)
Forget == saved' = NoFiles
WatchEnds ==
    /\ setup.stage = "watch"
    /\ IF IsAgentRunning THEN Stage("idle") /\ (Forget \/ UNCHANGED saved)
       ELSE Stage("failed") /\ UNCHANGED saved
    /\ UNCHANGED <<coreVars, profileVars, created, started, restored, before, boot, setups>>

(* RollbackRuntime: what was created is deleted, what was saved is put back;
   it may stop anywhere.  Not while an Agent runs. *)
PutBack(f) == IF f \in created THEN None
              ELSE IF saved[f] # None THEN saved[f] ELSE runtime[f]
Rollback ==
    /\ setup.stage = "failed" /\ Stage("notice")
    /\ \/ IsAgentRunning /\ UNCHANGED <<runtime, restored>>
       \/ /\ ~IsAgentRunning
          /\ \E S \in SUBSET Files :
                /\ runtime' = [f \in Files |-> IF f \in S THEN PutBack(f) ELSE runtime[f]]
                /\ restored' = IF S = Files THEN "yes" ELSE "failed"
    /\ UNCHANGED <<coreVars, key, config, agent, cleaning, saved, created, started,
                   before, boot, setups>>

(* The user closes the message, and finally decides about the backup. *)
AlwaysForget == TRUE               \* mutant: the backup is a temporary file
MayForget == restored = "yes" \/ (started /\ IsAgentRunning)
Noticed ==
    /\ setup.stage = "notice" /\ Stage("idle")
    /\ IF MayForget THEN Forget ELSE UNCHANGED saved
    /\ UNCHANGED <<coreVars, profileVars, created, started, restored, before, boot, setups>>

-----------------------------------------------------------------------------
(* The Agent process.                                                      *)

onlyAgent == <<runtime, setup, listVars, setups, cleaning>>

(* StartAgent of the Manager, and the Run key at logon. *)
Launch(p) ==
    /\ ~IsAgentRunning /\ Installed
    /\ agent' = [agent EXCEPT ![p].at = "up"]
    /\ UNCHANGED <<coreVars, onlyAgent, key, config, boot>>

(* loadOrEnrollConfig and ensureDeviceKeys.  k is the key pair found, or
   a new one. *)
Fresh(k) == devices[k] = NoDevice /\ \A p \in Procs : agent[p].key # k
LoadConfig(p) ==
    /\ agent[p].at = "up" /\ Installed
    /\ \/ /\ config # None
          /\ agent' = [agent EXCEPT ![p] = [at |-> "running", token |-> None, key |-> config]]
          /\ UNCHANGED key
       \/ /\ config = None /\ boot # None
          /\ \E k \in Keys :
                /\ IF key # None THEN k = key ELSE Fresh(k)
                /\ key' = k
                /\ agent' = [agent EXCEPT ![p] = [at |-> "asking", token |-> boot, key |-> k]]
    /\ UNCHANGED <<coreVars, onlyAgent, config, boot>>

(* The enroll request reaches the Core (its refusal, or no reply, ends the
   process: Die). *)
AskAndAssume(p) ==                 \* mutant: the reply's status not looked at
    /\ agent[p].at = "asking"
    /\ agent' = [agent EXCEPT ![p].at = "paired"]
    /\ UNCHANGED <<coreVars, onlyAgent, key, config, boot>>
AskCore(p) ==
    /\ agent[p].at = "asking"
    /\ Enroll(agent[p].token, agent[p].key)
    /\ agent' = [agent EXCEPT ![p].at = "paired"]
    /\ UNCHANGED <<key, config, boot, runtime, setup, listVars, setups, cleaning>>

(* The reply arrives: the configuration is renamed into place, then the
   bootstrap file is removed, if it can be. *)
SaveConfig(p) ==
    /\ agent[p].at = "paired"
    /\ config' = agent[p].key
    /\ boot' \in {boot, None}
    /\ agent' = [agent EXCEPT ![p].at = "running"]
    /\ UNCHANGED <<coreVars, onlyAgent, key>>

(* No configuration and no bootstrap, a refusal, a lost reply, a crash,
   StopAgent. *)
Die(p) ==
    /\ agent[p].at # "off"
    /\ agent' = [agent EXCEPT ![p] = Off]
    /\ UNCHANGED <<coreVars, onlyAgent, key, config, boot>>

-----------------------------------------------------------------------------
(* Uninstall kills every Agent and leaves a helper that deletes the profile.
   An Agent started before the helper is done keeps node.exe. *)

Uninstall ==
    /\ ~cleaning /\ cleaning' = TRUE
    /\ agent' = [p \in Procs |-> Off]
    /\ UNCHANGED <<coreVars, key, config, boot, runtime, setup, listVars, setups>>

(* One attempt of its loop: what is not in use is deleted; if something is,
   there may be another attempt (18 in all, a second apart). *)
FinishUninstall ==
    /\ cleaning /\ cleaning' \in (IF \A f \in Files : Writable(f) THEN {FALSE} ELSE BOOLEAN)
    /\ key' = None /\ config' = None /\ boot' = None
    /\ runtime' = [f \in Files |-> IF Writable(f) THEN None ELSE runtime[f]]
    /\ before' = NoFiles
    /\ UNCHANGED <<coreVars, agent, setup, saved, created, started, restored, setups>>

Setup == \/ \E c \in Codes : RunSetup(c)
         \/ Downloaded \/ BackUp \/ CopyFails \/ Configure \/ StartNew \/ WatchEnds
         \/ Rollback \/ Noticed
         \/ \E f \in Files : CopyFile(f)

Agent == \E p \in Procs :
            Launch(p) \/ LoadConfig(p) \/ AskCore(p) \/ SaveConfig(p) \/ Die(p)

Next == \/ Web /\ UNCHANGED pcVars
        \/ Setup \/ Agent \/ Uninstall \/ FinishUninstall

Spec == Init /\ [][Next]_vars

-----------------------------------------------------------------------------
(* Properties.                                                             *)

(* The device a profile takes itself for, on disk or in a running Agent, is
   one the Core has paired with that key, and the token of the pairing is
   spent: whatever reply was lost, and whichever Setup came in between. *)
ConfigTrue ==
    /\ config # None => \E c \in paired[config] : codes[c].state = "used"
    /\ \A p \in Procs : agent[p].at = "running" => paired[agent[p].key] # {}

(* When Setup ends, the package is in place, or every file it found is there
   as it was or held by the backup: "it is the only local recovery copy"
   (installer.js:174).  Excepted is the case of BackupKept. *)
SetupRecoverable ==
    [][setup.stage # "idle" /\ setup'.stage = "idle" =>
          \/ \A f \in Files : runtime[f] = "new"
          \/ \A f \in Files : before[f] # None => before[f] \in {runtime[f], saved'[f]}
          \/ restored = "failed" /\ started /\ IsAgentRunning]_vars

(* "Never delete the backup when rollback failed" (installer.js:174).  The
   code asks instead whether an Agent it once started, or any other, runs
   when the user closes the message. *)
BackupKept ==
    [][restored = "failed" /\ setup.stage = "notice" => saved' = saved]_vars
-----------------------------------------------------------------------------
(* The inductive invariant behind TypeOK, ConfigTrue and SetupRecoverable. *)

(* An Agent that asks has a token and a key, and one that has the Core's reply
   has a key the Core has paired. *)
AgentHolds ==
    \A p \in Procs :
        /\ agent[p].at = "asking" => agent[p].token # None /\ agent[p].key # None
        /\ agent[p].at \in {"paired", "running"} =>
               agent[p].key # None /\ paired[agent[p].key] # {}

(* What Setup has noted at each stage of this run. *)
StagesTrue ==
    /\ setup.stage \in {"download", "backup"} => before = NoFiles /\ setup.copied = {}
    /\ setup.stage \in {"download", "backup", "copy", "start"} => ~started
    /\ setup.stage \notin {"idle", "notice"} => restored = "no"

(* The file is in the backup as it was, or was neither saved nor replaced. *)
Kept(f) == saved[f] = before[f] \/ (saved[f] = None /\ runtime[f] = before[f])

(* Setup came as far as a running Agent. *)
WasUp == setup.stage = "watch" \/ (setup.stage \in {"failed", "notice"} /\ started /\ restored = "no")

(* The files Setup found, until the profile is cleaned under it: all in the
   backup from the first copy on, one or the other where saving them stopped,
   back in place after a rollback; the package is in place once it has been
   started. *)
FilesKept ==
    before # NoFiles =>
        /\ setup.stage = "copy" => \A f \in setup.copied : runtime[f] = "new"
        /\ setup.stage \in {"copy", "start", "watch"} => saved = before
        /\ setup.stage = "start" \/ WasUp => \A f \in Files : runtime[f] = "new"
        /\ setup.stage \in {"failed", "notice"} => \A f \in Files : Kept(f)
        /\ setup.stage \in {"copy", "start", "watch", "failed", "notice"} =>
               \A f \in created : before[f] = None
        /\ setup.stage = "notice" /\ restored = "yes" =>
               \A f \in Files : before[f] # None => runtime[f] = before[f]

InstallInv == TypeOK /\ StoreInv /\ ConfigTrue /\ AgentHolds /\ StagesTrue /\ FilesKept
=============================================================================
