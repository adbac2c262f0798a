------------------------- MODULE DeviceInstallProofs -------------------------
(***************************************************************************)
(* Proofs about DeviceInstall, for every set of files, Agent processes,    *)
(* keys and codes, wherever Setup, an Agent or the Core dies, and whatever *)
(* is started or uninstalled in between.                                   *)
(***************************************************************************)
EXTENDS DeviceInstall, DeviceStoreProofs

(* The stage of Setup is all that Stage changes. *)
LEMMA StageOnly ==
    ASSUME TypeOK, NEW s \in Stages, Stage(s)
    PROVE  /\ setup' \in [stage : Stages, token : Codes \cup {None}, copied : SUBSET Files]
           /\ setup'.stage = s /\ setup'.token = setup.token /\ setup'.copied = setup.copied
  BY DEF TypeOK, Stage

(* Every step of the profile leaves the Core's tables alone or is one of the
   Core's own, and no pairing is forgotten. *)
LEMMA CoreMoves ==
    ASSUME TypeOK, AgentHolds, [Next]_vars
    PROVE  /\ [StoreNext]_coreVars
           /\ \A k \in Keys : paired[k] \subseteq paired'[k]
<1>1. \/ UNCHANGED coreVars \/ Web
      \/ \E p \in Procs : agent[p].at = "asking" /\ Enroll(agent[p].token, agent[p].key)
  BY DEF Next, Setup, RunSetup, Downloaded, BackUp, CopyFile, CopyFails, Configure, StartNew,
         WatchEnds, Rollback, Noticed, Agent, Launch, LoadConfig, AskCore, SaveConfig, Die,
         Uninstall, FinishUninstall, vars
<1>2. [StoreNext]_coreVars
  <2>1. ASSUME NEW p \in Procs, agent[p].at = "asking", Enroll(agent[p].token, agent[p].key)
        PROVE  StoreNext
    <3>1. agent[p].token \in Codes /\ agent[p].key \in Keys
      BY <2>1 DEF TypeOK, AgentHolds
    <3> QED
      BY <2>1, <3>1 DEF StoreNext
  <2> QED
    BY <1>1, <2>1 DEF StoreNext
<1>3. \A k \in Keys : paired[k] \subseteq paired'[k]
  <2>1. CASE UNCHANGED <<pairing, paired>>
    BY <2>1
  <2>2. ASSUME NEW c \in Codes, NEW k \in Keys, Enroll(c, k)
        PROVE  \A l \in Keys : paired[l] \subseteq paired'[l]
    BY <2>2 DEF Enroll, TypeOK, StoreTypeOK
  <2> QED
    BY <1>2, <2>1, <2>2, CodesStep DEF TypeOK
<1> QED
  BY <1>2, <1>3

-----------------------------------------------------------------------------
(* Types.                                                                  *)

(* Every step of Setup, of an Agent and of a removal keeps the types. *)
LEMMA InstallTypeStep ==
    ASSUME TypeOK, StagesTrue, AgentHolds, [Next]_vars
    PROVE  TypeOK'
<1> USE NodeIsFile, SetupsBound, UsersType
<1>0. StoreTypeOK'
  BY CoreMoves, StoreTypeStep DEF TypeOK
<1> DEFINE
      Config == /\ key' \in Keys \cup {None} /\ config' \in Keys \cup {None}
                /\ boot' \in Codes \cup {None}
      Copies == /\ runtime' \in [Files -> Versions] /\ saved' \in [Files -> Versions]
                /\ before' \in [Files -> Versions]
                /\ created' \in SUBSET Files /\ \A f \in created' : saved'[f] = None
      Counts == /\ started' \in BOOLEAN /\ restored' \in {"no", "yes", "failed"}
                /\ cleaning' \in BOOLEAN /\ setups' \in 0..MaxSetups
      Stand  == setup' \in [stage : Stages, token : Codes \cup {None}, copied : SUBSET Files]
      Agents == agent' \in [Procs -> [at : {"off", "up", "asking", "paired", "running"},
                                      token : Codes \cup {None}, key : Keys \cup {None}]]
<1>1. SUFFICES Config /\ Copies /\ Counts /\ Stand /\ Agents
  BY <1>0 DEF TypeOK
<1>2. UNCHANGED <<key, config, boot>> => Config
  BY DEF TypeOK
<1>3. UNCHANGED <<runtime, saved, before, created>> => Copies
  BY DEF TypeOK
<1>4. UNCHANGED <<started, restored, cleaning, setups>> => Counts
  BY DEF TypeOK
<1>5. /\ UNCHANGED setup => Stand
      /\ (\E s \in Stages : Stage(s)) => Stand
  BY StageOnly DEF TypeOK
<1>6. UNCHANGED agent => Agents
  BY DEF TypeOK
<1>7. /\ "idle" \in Stages /\ "download" \in Stages /\ "backup" \in Stages /\ "copy" \in Stages
      /\ "start" \in Stages /\ "watch" \in Stages /\ "failed" \in Stages /\ "notice" \in Stages
      /\ NoFiles \in [Files -> Versions]
  BY DEF Stages, NoFiles, Versions
<1>8. ASSUME NEW p \in Procs, NEW x \in {"off", "up", "asking", "paired", "running"},
             agent' = [agent EXCEPT ![p].at = x]
      PROVE  Agents
  BY <1>8 DEF TypeOK
<1>9. ASSUME NEW p \in Procs, NEW x \in {"off", "up", "asking", "paired", "running"},
             NEW t \in Codes \cup {None}, NEW k \in Keys \cup {None},
             agent' = [agent EXCEPT ![p] = [at |-> x, token |-> t, key |-> k]]
      PROVE  Agents
  BY <1>9 DEF TypeOK
(* Setup *)
<1>10. ASSUME NEW c \in Codes, RunSetup(c) PROVE Config /\ Copies /\ Counts /\ Stand /\ Agents
  <2>1. Config /\ Agents
    BY <1>2, <1>6, <1>10 DEF RunSetup, profileVars
  <2>2. Stand
    BY <1>7, <1>10 DEF RunSetup
  <2>3. Copies
    BY <1>7, <1>10 DEF RunSetup, profileVars, TypeOK
  <2>4. Counts
    <3>1. setups \in 0..MaxSetups /\ setups < MaxSetups /\ setups' = setups + 1 /\ cleaning' = cleaning
          /\ started' = FALSE /\ restored' = "no"
      BY <1>10 DEF RunSetup, profileVars, TypeOK
    <3>2. setups' \in 0..MaxSetups
      BY <3>1
    <3>3. cleaning \in BOOLEAN
      BY DEF TypeOK
    <3> QED
      BY <3>1, <3>2, <3>3
  <2> QED
    BY <2>1, <2>2, <2>3, <2>4
<1>11. CASE Downloaded \/ CopyFails
  BY <1>2, <1>3, <1>4, <1>5, <1>6, <1>7, <1>11 DEF Downloaded, CopyFails, profileVars, listVars
<1>12. CASE BackUp
  <2>1. Config /\ Counts /\ Stand /\ Agents
    BY <1>2, <1>4, <1>5, <1>6, <1>7, <1>12 DEF BackUp, profileVars
  <2>2. PICK S \in SUBSET Files : SaveFiles(S) /\ before' = runtime /\ runtime' = runtime
    BY <1>12 DEF BackUp, profileVars
  <2>3. Copies
    BY <2>2 DEF SaveFiles, TypeOK, Versions
  <2> QED
    BY <2>1, <2>3
<1>13. ASSUME NEW f \in Files, CopyFile(f) PROVE Config /\ Copies /\ Counts /\ Stand /\ Agents
  <2>1. Config /\ Counts /\ Agents
    BY <1>2, <1>4, <1>6, <1>13 DEF CopyFile, listVars
  <2>2. Stand
    BY <1>13 DEF CopyFile, TypeOK
  <2>3. Copies
    BY <1>13 DEF CopyFile, listVars, TypeOK, Versions
  <2> QED
    BY <2>1, <2>2, <2>3
<1>14. CASE Configure
  <2>1. Copies /\ Counts /\ Stand /\ Agents
    BY <1>3, <1>4, <1>5, <1>6, <1>7, <1>14 DEF Configure, profileVars, listVars
  <2>2. Config
    BY <1>14 DEF Configure, WriteBootstrap, profileVars, TypeOK
  <2> QED
    BY <2>1, <2>2
<1>15. CASE StartNew
  <2>1. Config /\ Copies /\ Stand
    BY <1>2, <1>3, <1>5, <1>7, <1>15 DEF StartNew
  <2>2. Counts /\ Agents
    BY <1>6, <1>8, <1>15 DEF StartNew, TypeOK
  <2> QED
    BY <2>1, <2>2
<1>16. Forget /\ UNCHANGED <<runtime, before, created>> => Copies
  BY <1>7 DEF Forget, TypeOK, NoFiles
<1>17. CASE WatchEnds \/ Noticed
  BY <1>2, <1>3, <1>4, <1>5, <1>6, <1>7, <1>16, <1>17 DEF WatchEnds, Noticed, profileVars
<1>18. CASE Rollback
  <2>1. Config /\ Stand /\ Agents
    BY <1>2, <1>5, <1>6, <1>7, <1>18 DEF Rollback
  <2>2. Counts
    BY <1>18 DEF Rollback, TypeOK
  <2>3. ASSUME NEW f \in Files PROVE PutBack(f) \in Versions
    BY DEF PutBack, TypeOK, Versions
  <2>4. runtime' \in [Files -> Versions]
    <3>1. runtime \in [Files -> Versions]
      BY DEF TypeOK
    <3> QED
      BY <1>18, <2>3, <3>1 DEF Rollback
  <2>5. Copies
    BY <1>18, <2>4 DEF Rollback, TypeOK
  <2> QED
    BY <2>1, <2>2, <2>5
(* the Agent *)
<1>19. ASSUME NEW p \in Procs,
              Launch(p) \/ LoadConfig(p) \/ AskCore(p) \/ SaveConfig(p) \/ Die(p)
       PROVE  Config /\ Copies /\ Counts /\ Stand /\ Agents
  <2>1. Copies /\ Counts /\ Stand
    BY <1>3, <1>4, <1>5, <1>19
    DEF Launch, LoadConfig, AskCore, SaveConfig, Die, onlyAgent, listVars
  <2>2. CASE Launch(p)
    BY <1>2, <1>8, <2>1, <2>2 DEF Launch
  <2>3. CASE LoadConfig(p)
    <3>1. CASE /\ config # None
               /\ agent' = [agent EXCEPT ![p] = [at |-> "running", token |-> None, key |-> config]]
               /\ UNCHANGED key
      <4>1. config \in Keys \cup {None}
        BY DEF TypeOK
      <4>2. Agents
        BY <1>9, <3>1, <4>1
      <4> QED
        BY <1>2, <2>1, <2>3, <3>1, <4>2 DEF LoadConfig
    <3>2. ASSUME NEW k \in Keys, key' = k,
                 agent' = [agent EXCEPT ![p] = [at |-> "asking", token |-> boot, key |-> k]]
          PROVE  Config /\ Agents
      <4>1. boot \in Codes \cup {None}
        BY DEF TypeOK
      <4>2. Agents
        BY <1>9, <3>2, <4>1
      <4> QED
        BY <2>3, <3>2, <4>2 DEF LoadConfig, TypeOK
    <3> QED
      BY <2>1, <2>3, <3>1, <3>2 DEF LoadConfig
  <2>4. CASE AskCore(p)
    BY <1>2, <1>8, <2>1, <2>4 DEF AskCore
  <2>5. CASE SaveConfig(p)
    <3>1. Agents
      BY <1>8, <2>5 DEF SaveConfig
    <3>2. Config
      BY <2>5 DEF SaveConfig, TypeOK
    <3> QED
      BY <2>1, <3>1, <3>2
  <2>6. CASE Die(p)
    <3>1. agent' = [agent EXCEPT ![p] = [at |-> "off", token |-> None, key |-> None]]
      BY <2>6 DEF Die, Off
    <3>2. Agents
      BY <1>9, <3>1
    <3> QED
      BY <1>2, <2>1, <2>6, <3>2 DEF Die
  <2> QED
    BY <1>19, <2>2, <2>3, <2>4, <2>5, <2>6
(* removal *)
<1>20. CASE Uninstall
  <2>1. Config /\ Copies /\ Stand
    BY <1>2, <1>3, <1>5, <1>20 DEF Uninstall, listVars
  <2>2. Counts /\ Agents
    BY <1>20 DEF Uninstall, listVars, Off, TypeOK
  <2> QED
    BY <2>1, <2>2
<1>21. CASE FinishUninstall
  <2>1. Stand /\ Agents
    BY <1>5, <1>6, <1>21 DEF FinishUninstall
  <2>2. Copies
    BY <1>7, <1>21 DEF FinishUninstall, TypeOK, Versions
  <2>3. Config /\ Counts
    BY <1>21 DEF FinishUninstall, TypeOK
  <2> QED
    BY <2>1, <2>2, <2>3
<1>22. CASE UNCHANGED pcVars
  BY <1>2, <1>3, <1>4, <1>5, <1>6, <1>22 DEF pcVars
<1> QED
  BY <1>10, <1>11, <1>12, <1>13, <1>14, <1>15, <1>17, <1>18, <1>19, <1>20, <1>21, <1>22
  DEF Next, Setup, Agent, vars

-----------------------------------------------------------------------------
(* What an Agent, and the profile, hold of a pairing.                      *)

(* An Agent gets a token and a key before it asks, and is paired with that
   key before it runs; the profile is given the key of a paired Agent. *)
LEMMA AgentStep ==
    ASSUME InstallInv, [Next]_vars
    PROVE  AgentHolds' /\ ConfigTrue'
<1> USE UsersType DEF InstallInv
<1>1. \A k \in Keys : paired[k] \subseteq paired'[k]
  BY CoreMoves
<1>2. PairedIsUsed'
  BY CoreMoves, StoreInvStep DEF StoreInv
<1>3. \A k \in Keys : paired'[k] \subseteq Codes
  BY CoreMoves, StoreInvStep DEF StoreInv, StoreTypeOK
(* a key that was paired still is, with a code that is used *)
<1>4. ASSUME NEW k \in Keys, paired[k] # {}
      PROVE  paired'[k] # {} /\ \E c \in paired'[k] : codes'[c].state = "used"
  BY <1>1, <1>2, <1>4 DEF PairedIsUsed
<1>5. /\ config # None => config \in Keys /\ paired[config] # {}
      /\ \A p \in Procs : agent[p].key # None => agent[p].key \in Keys
  BY DEF TypeOK, ConfigTrue
(* no Agent gets any further, and the profile's device stands *)
<1>6. ASSUME config' \in {config, None},
             \A p \in Procs : agent'[p] = agent[p] \/ agent'[p].at \in {"off", "up"}
      PROVE  AgentHolds' /\ ConfigTrue'
  <2>1. AgentHolds'
    BY <1>4, <1>5, <1>6 DEF AgentHolds
  <2>2. ConfigTrue'
    BY <1>4, <1>5, <1>6, <2>1 DEF AgentHolds, ConfigTrue
  <2> QED
    BY <2>1, <2>2
(* Agent p goes on to x with that token and key *)
<1>7. ASSUME NEW p \in Procs, NEW x \in {"asking", "paired", "running"},
             agent'[p].at = x, agent'[p].key \in Keys,
             x = "asking" => agent'[p].token # None,
             x # "asking" => paired'[agent'[p].key] # {},
             \A q \in Procs : q # p => agent'[q] = agent[q],
             config' = config \/ (config' = agent'[p].key /\ x = "running")
      PROVE  AgentHolds' /\ ConfigTrue'
  <2>1. AgentHolds'
    BY <1>4, <1>5, <1>7 DEF AgentHolds
  <2>2. config' # None => \E c \in paired'[config'] : codes'[c].state = "used"
    BY <1>2, <1>4, <1>5, <1>7 DEF PairedIsUsed
  <2>3. ConfigTrue'
    BY <2>1, <2>2 DEF AgentHolds, ConfigTrue
  <2> QED
    BY <2>1, <2>3
<1>8. ASSUME Setup \/ Uninstall \/ FinishUninstall \/ UNCHANGED pcVars
      PROVE  AgentHolds' /\ ConfigTrue'
  <2>1. CASE StartNew
    BY <1>6, <2>1 DEF StartNew, TypeOK
  <2>2. CASE Uninstall
    BY <1>6, <2>2 DEF Uninstall, Off, TypeOK
  <2>3. CASE FinishUninstall
    <3>1. config' = None /\ UNCHANGED agent
      BY <2>3 DEF FinishUninstall
    <3> QED
      BY <1>6, <3>1
  <2>4. CASE UNCHANGED <<config, agent>>
    BY <1>6, <2>4
  <2> QED
    BY <1>8, <2>1, <2>2, <2>3, <2>4
    DEF Setup, RunSetup, Downloaded, BackUp, CopyFile, CopyFails, Configure, WatchEnds, Rollback,
        Noticed, profileVars, pcVars
<1>9. ASSUME NEW p \in Procs, Launch(p) \/ Die(p) PROVE AgentHolds' /\ ConfigTrue'
  BY <1>6, <1>9 DEF Launch, Die, Off, TypeOK
<1>10. ASSUME NEW p \in Procs, LoadConfig(p) PROVE AgentHolds' /\ ConfigTrue'
  <2>1. config' = config /\ boot \in Codes \cup {None} /\ agent \in [Procs ->
            [at : {"off", "up", "asking", "paired", "running"},
             token : Codes \cup {None}, key : Keys \cup {None}]]
    BY <1>10 DEF LoadConfig, TypeOK
  <2>2. CASE /\ config # None
             /\ agent' = [agent EXCEPT ![p] = [at |-> "running", token |-> None, key |-> config]]
    <3>1. agent'[p].at = "running" /\ agent'[p].key = config
          /\ \A q \in Procs : q # p => agent'[q] = agent[q]
      BY <2>1, <2>2
    <3>2. config \in Keys /\ paired'[config] # {}
      BY <1>4, <1>5, <2>2
    <3> QED
      BY <1>7, <2>1, <3>1, <3>2
  <2>3. ASSUME NEW k \in Keys, boot # None,
               agent' = [agent EXCEPT ![p] = [at |-> "asking", token |-> boot, key |-> k]]
        PROVE  AgentHolds' /\ ConfigTrue'
    <3>1. agent'[p].at = "asking" /\ agent'[p].key = k /\ agent'[p].token = boot
          /\ \A q \in Procs : q # p => agent'[q] = agent[q]
      BY <2>1, <2>3
    <3> QED
      BY <1>7, <2>1, <2>3, <3>1
  <2> QED
    BY <1>10, <2>2, <2>3 DEF LoadConfig
<1>11. ASSUME NEW p \in Procs, AskCore(p) PROVE AgentHolds' /\ ConfigTrue'
  <2>1. /\ agent[p].at = "asking" /\ config' = config
        /\ agent' = [agent EXCEPT ![p].at = "paired"]
        /\ paired' = [paired EXCEPT ![agent[p].key] = @ \cup {agent[p].token}]
    BY <1>11 DEF AskCore, Enroll
  <2>2. agent[p].key \in Keys
    BY <1>5, <2>1 DEF AgentHolds
  <2>3. paired'[agent[p].key] # {}
    BY <2>1, <2>2 DEF TypeOK, StoreTypeOK
  <2>4. agent'[p].at = "paired" /\ agent'[p].key = agent[p].key
        /\ \A q \in Procs : q # p => agent'[q] = agent[q]
    BY <2>1 DEF TypeOK
  <2> QED
    BY <1>7, <2>1, <2>2, <2>3, <2>4
<1>12. ASSUME NEW p \in Procs, SaveConfig(p) PROVE AgentHolds' /\ ConfigTrue'
  <2>1. /\ agent[p].at = "paired" /\ config' = agent[p].key
        /\ agent' = [agent EXCEPT ![p].at = "running"]
    BY <1>12 DEF SaveConfig
  <2>2. agent[p].key \in Keys /\ paired'[agent[p].key] # {}
    BY <1>4, <1>5, <2>1 DEF AgentHolds
  <2>3. agent'[p].at = "running" /\ agent'[p].key = agent[p].key
        /\ \A q \in Procs : q # p => agent'[q] = agent[q]
    BY <2>1 DEF TypeOK
  <2> QED
    BY <1>7, <2>1, <2>2, <2>3
<1> QED
  BY <1>8, <1>9, <1>10, <1>11, <1>12 DEF Next, Agent, vars

-----------------------------------------------------------------------------
(* What Setup notes, and the files it found.                               *)

(* Setup's variables tell at each stage what it has done in this run. *)
LEMMA StagesStep ==
    ASSUME TypeOK, StagesTrue, [Next]_vars
    PROVE  StagesTrue'
<1> USE UsersType DEF StagesTrue
<1>0. /\ "idle" \in Stages /\ "download" \in Stages /\ "backup" \in Stages /\ "copy" \in Stages
      /\ "start" \in Stages /\ "watch" \in Stages /\ "failed" \in Stages /\ "notice" \in Stages
  BY DEF Stages
<1>1. ASSUME NEW c \in Codes, RunSetup(c) PROVE StagesTrue'
  BY <1>1 DEF RunSetup
<1>2. CASE Downloaded \/ CopyFails
  BY <1>0, <1>2, StageOnly DEF Downloaded, CopyFails, listVars
<1>3. CASE BackUp
  <2>1. /\ setup.stage = "backup" /\ UNCHANGED <<started, restored>>
        /\ Stage("copy") \/ Stage("failed")
    BY <1>3 DEF BackUp
  <2> QED
    BY <1>0, <2>1, StageOnly
<1>4. ASSUME NEW f \in Files, CopyFile(f) PROVE StagesTrue'
  BY <1>4 DEF CopyFile, listVars, TypeOK
<1>5. CASE Configure
  BY <1>0, <1>5, StageOnly DEF Configure, listVars
<1>6. CASE StartNew
  <2>1. setup.stage = "start" /\ restored' = restored /\ (Stage("watch") \/ Stage("failed"))
    BY <1>6 DEF StartNew
  <2> QED
    BY <1>0, <2>1, StageOnly
<1>7. CASE WatchEnds \/ Noticed \/ Rollback
  <2>1. setup.stage # "idle" /\ \/ Stage("idle") \/ Stage("notice")
                                \/ (setup.stage = "watch" /\ Stage("failed") /\ restored' = restored)
    BY <1>7 DEF WatchEnds, Noticed, Rollback
  <2> QED
    BY <1>0, <2>1, StageOnly
<1>8. CASE Agent \/ Uninstall
  BY <1>8 DEF Agent, Launch, LoadConfig, AskCore, SaveConfig, Die, Uninstall, onlyAgent, listVars
<1>9. CASE FinishUninstall
  BY <1>9 DEF FinishUninstall
<1>10. CASE UNCHANGED pcVars
  BY <1>10 DEF pcVars
<1> QED
  BY <1>1, <1>2, <1>3, <1>4, <1>5, <1>6, <1>7, <1>8, <1>9, <1>10 DEF Next, Setup, vars

(* A rollback, wherever it stops, loses none of the files Setup had found,
   and one that does not stop has put them all back. *)
LEMMA RollbackKeeps ==
    ASSUME TypeOK, StagesTrue, FilesKept, Rollback, before # NoFiles
    PROVE  FilesKept'
<1>0. "notice" \in Stages
  BY DEF Stages
<1>1. /\ setup.stage = "failed" /\ setup'.stage = "notice" /\ restored = "no"
      /\ UNCHANGED <<saved, created, started, before>>
  BY <1>0, StageOnly DEF Rollback, StagesTrue
<1>2. \A f \in Files : Kept(f)
  BY <1>1 DEF FilesKept
<1>3. \A f \in created : f \in Files /\ before[f] = None /\ saved[f] = None
  BY <1>1 DEF FilesKept, TypeOK
<1>4. CASE UNCHANGED <<runtime, restored>>
  <2>1. \A f \in Files : Kept(f)'
    BY <1>1, <1>2, <1>4 DEF Kept
  <2>2. WasUp' => WasUp
    BY <1>1, <1>4 DEF WasUp
  <2> QED
    BY <1>1, <1>3, <1>4, <2>1, <2>2 DEF FilesKept
<1>5. ASSUME NEW S \in SUBSET Files,
             runtime' = [f \in Files |-> IF f \in S THEN PutBack(f) ELSE runtime[f]],
             restored' = IF S = Files THEN "yes" ELSE "failed"
      PROVE  FilesKept'
  <2>1. ASSUME NEW f \in Files
        PROVE  /\ Kept(f)'
               /\ f \in S /\ before[f] # None => runtime'[f] = before[f]
    <3>1. Kept(f)
      BY <1>2
    <3>2. runtime'[f] = IF f \in S THEN PutBack(f) ELSE runtime[f]
      BY <1>5
    <3>3. CASE f \in created
      BY <1>1, <1>3, <3>1, <3>2, <3>3 DEF Kept
    <3>4. CASE f \notin created
      BY <1>1, <3>1, <3>2, <3>4 DEF Kept, PutBack
    <3> QED
      BY <3>3, <3>4
  <2>2. ~WasUp'
    BY <1>1, <1>5 DEF WasUp
  <2>3. restored' = "yes" => S = Files
    BY <1>5
  <2> QED
    BY <1>1, <1>3, <2>1, <2>2, <2>3 DEF FilesKept
<1> QED
  BY <1>4, <1>5 DEF Rollback

(* Every step keeps the files Setup has found: in the profile, or in its
   backup. *)
LEMMA FilesStep ==
    ASSUME TypeOK, StagesTrue, FilesKept, [Next]_vars
    PROVE  FilesKept'
<1> SUFFICES ASSUME before' # NoFiles PROVE FilesKept'
  BY DEF FilesKept
<1>0. /\ "idle" \in Stages /\ "download" \in Stages /\ "backup" \in Stages /\ "copy" \in Stages
      /\ "start" \in Stages /\ "watch" \in Stages /\ "failed" \in Stages /\ "notice" \in Stages
  BY DEF Stages
(* Setup stands where it is, or ends *)
<1>1. ASSUME UNCHANGED <<runtime, saved, created, started, restored, before>>, setup' = setup
      PROVE  FilesKept'
  <2>1. WasUp' = WasUp /\ \A f \in Files : Kept(f)' = Kept(f)
    BY <1>1 DEF WasUp, Kept
  <2> QED
    BY <1>1, <2>1 DEF FilesKept
<1>2. ASSUME setup'.stage \in {"idle", "download", "backup"} PROVE FilesKept'
  BY <1>2 DEF FilesKept, WasUp
<1>3. ASSUME NEW c \in Codes, RunSetup(c) PROVE FilesKept'
  BY <1>2, <1>3 DEF RunSetup
<1>4. CASE Downloaded
  BY <1>0, <1>2, <1>4, StageOnly DEF Downloaded
<1>5. CASE BackUp
  <2>1. /\ setup.stage = "backup" /\ before' = runtime /\ UNCHANGED <<runtime, started, restored>>
        /\ setup'.stage \in {"copy", "failed"} /\ setup'.copied = setup.copied
    BY <1>0, <1>5, StageOnly DEF BackUp, profileVars
  <2>2. CASE SaveFiles(Files) /\ Stage("copy")
    <3>1. setup'.stage = "copy"
      BY <1>0, <2>2, StageOnly
    <3>2. saved' = before' /\ \A f \in created' : before'[f] = None
      BY <2>1, <2>2 DEF SaveFiles, TypeOK
    <3>3. setup.copied = {}
      BY <2>1 DEF StagesTrue
    <3> QED
      BY <2>1, <3>1, <3>2, <3>3 DEF FilesKept, WasUp
  <2>3. ASSUME NEW S \in SUBSET Files, SaveFiles(S), Stage("failed") PROVE FilesKept'
    <3>1. setup'.stage = "failed" /\ ~started
      BY <1>0, <2>1, <2>3, StageOnly DEF StagesTrue
    <3>2. \A f \in Files : Kept(f)'
      BY <2>1, <2>3 DEF SaveFiles, Kept
    <3>3. \A f \in created' : before'[f] = None
      BY <2>1, <2>3 DEF SaveFiles
    <3> QED
      BY <2>1, <3>1, <3>2, <3>3 DEF FilesKept, WasUp
  <2> QED
    BY <1>5, <2>2, <2>3 DEF BackUp
<1>6. ASSUME NEW f \in Files, CopyFile(f) PROVE FilesKept'
  <2>1. /\ setup.stage = "copy" /\ setup'.stage = "copy" /\ setup'.copied = setup.copied \cup {f}
        /\ runtime' = [runtime EXCEPT ![f] = "new"]
        /\ UNCHANGED <<saved, created, started, restored, before>>
    BY <1>6 DEF CopyFile, listVars, TypeOK
  <2>2. \A g \in setup'.copied : runtime'[g] = "new"
    BY <2>1 DEF FilesKept, TypeOK
  <2> QED
    BY <2>1, <2>2 DEF FilesKept, WasUp
<1>7. CASE CopyFails
  <2>1. /\ setup.stage = "copy" /\ setup'.stage = "failed" /\ ~started
        /\ UNCHANGED <<runtime, saved, created, started, restored, before>>
    BY <1>0, <1>7, StageOnly DEF CopyFails, profileVars, listVars, StagesTrue
  <2>2. \A f \in Files : Kept(f)'
    BY <2>1 DEF FilesKept, Kept
  <2> QED
    BY <2>1, <2>2 DEF FilesKept, WasUp
<1>8. CASE Configure
  <2>1. /\ setup.stage = "copy" /\ setup'.stage = "start" /\ setup.copied = Files
        /\ UNCHANGED <<runtime, saved, created, started, restored, before>>
    BY <1>0, <1>8, StageOnly DEF Configure, profileVars, listVars
  <2> QED
    BY <2>1 DEF FilesKept, WasUp
<1>9. CASE StartNew
  <2>1. /\ setup.stage = "start" /\ UNCHANGED <<runtime, saved, created, restored, before>>
        /\ \/ setup'.stage = "watch"
           \/ setup'.stage = "failed" /\ ~started'
    BY <1>0, <1>9, StageOnly DEF StartNew, StagesTrue
  <2>2. \A f \in Files : runtime'[f] = "new" /\ Kept(f)'
    BY <2>1 DEF FilesKept, Kept
  <2> QED
    BY <2>1, <2>2 DEF FilesKept, WasUp, StagesTrue
<1>10. CASE WatchEnds
  <2>1. CASE setup'.stage = "idle"
    BY <1>2, <2>1
  <2>2. CASE setup'.stage # "idle"
    <3>1. /\ setup.stage = "watch" /\ setup'.stage = "failed" /\ restored = "no"
          /\ UNCHANGED <<runtime, saved, created, started, restored, before>>
      BY <1>0, <1>10, <2>2, StageOnly DEF WatchEnds, profileVars, StagesTrue
    <3>2. \A f \in Files : runtime'[f] = "new" /\ Kept(f)'
      BY <3>1 DEF FilesKept, Kept, WasUp
    <3> QED
      BY <3>1, <3>2 DEF FilesKept
  <2> QED
    BY <2>1, <2>2
<1>11. CASE Rollback
  <2>1. before # NoFiles
    BY <1>11 DEF Rollback
  <2> QED
    BY <1>11, <2>1, RollbackKeeps
<1>12. CASE Noticed
  BY <1>0, <1>2, <1>12, StageOnly DEF Noticed
<1>13. CASE Agent \/ Uninstall \/ UNCHANGED pcVars
  BY <1>1, <1>13
  DEF Agent, Launch, LoadConfig, AskCore, SaveConfig, Die, Uninstall, onlyAgent, listVars, pcVars
<1>14. ~FinishUninstall
  BY DEF FinishUninstall
<1> QED
  BY <1>3, <1>4, <1>5, <1>6, <1>7, <1>8, <1>9, <1>10, <1>11, <1>12, <1>13, <1>14
  DEF Next, Setup, vars

-----------------------------------------------------------------------------
(* The invariant holds in a profile with no Agent or an earlier version. *)
LEMMA InstallInit == Init => InstallInv
<1> SUFFICES ASSUME Init PROVE InstallInv
  OBVIOUS
<1>1. StoreInv
  BY StoreInitInv DEF Init
<1>2. TypeOK
  <2>1. NoFiles \in [Files -> Versions] /\ [f \in Files |-> "old"] \in [Files -> Versions]
    BY DEF NoFiles, Versions
  <2>2. runtime \in [Files -> Versions] /\ saved \in [Files -> Versions] /\ before \in [Files -> Versions]
    BY <2>1 DEF Init
  <2>3. setup \in [stage : Stages, token : Codes \cup {None}, copied : SUBSET Files]
    BY DEF Init, Stages
  <2>4. agent \in [Procs -> [at : {"off", "up", "asking", "paired", "running"},
                             token : Codes \cup {None}, key : Keys \cup {None}]]
    BY DEF Init, Off
  <2>5. StoreTypeOK
    BY <1>1 DEF StoreInv
  <2>6. /\ key \in Keys \cup {None} /\ config \in Keys \cup {None} /\ boot \in Codes \cup {None}
        /\ created \in SUBSET Files /\ \A f \in created : saved[f] = None
        /\ started \in BOOLEAN /\ restored \in {"no", "yes", "failed"} /\ cleaning \in BOOLEAN
    BY DEF Init
  <2>7. setups \in 0..MaxSetups
    BY SetupsBound DEF Init
  <2> QED
    BY <2>2, <2>3, <2>4, <2>5, <2>6, <2>7 DEF TypeOK
<1>3. AgentHolds
  BY DEF Init, AgentHolds, Off
<1>4. ConfigTrue
  BY DEF Init, ConfigTrue, Off
<1>5. StagesTrue /\ FilesKept
  BY DEF Init, StagesTrue, FilesKept
<1> QED
  BY <1>1, <1>2, <1>3, <1>4, <1>5 DEF InstallInv

(* Every step of Setup, an Agent, a removal and the Core keeps it. *)
LEMMA InstallStep == InstallInv /\ [Next]_vars => InstallInv'
<1> SUFFICES ASSUME InstallInv, [Next]_vars PROVE InstallInv'
  OBVIOUS
<1>1. StoreInv'
  BY CoreMoves, StoreInvStep DEF InstallInv
<1> QED
  BY <1>1, InstallTypeStep, AgentStep, StagesStep, FilesStep DEF InstallInv

(* Every reachable state satisfies it. *)
THEOREM InstallInvariance == Spec => []InstallInv
  BY InstallInit, InstallStep, PTL DEF Spec

(* Every variable of the profile, of Setup and of its Agents keeps its type. *)
THEOREM InstallTypes == Spec => []TypeOK
<1>1. InstallInv => TypeOK
  BY DEF InstallInv
<1> QED
  BY <1>1, InstallInvariance, PTL

(* The device a profile takes itself for was paired by the Core with that
   key, with a token that is spent, whatever reply was lost and whoever died. *)
THEOREM ConfigTrueHolds == Spec => []ConfigTrue
<1>1. InstallInv => ConfigTrue
  BY DEF InstallInv
<1> QED
  BY <1>1, InstallInvariance, PTL

(* The Core's tables under Setup, Agents and removals behave as DeviceStore
   says: what is proved of the store holds of the installation. *)
THEOREM InstallIsStore == Spec => StoreSpec
<1>1. Init => StoreInit
  BY DEF Init
<1>2. ASSUME InstallInv, [Next]_vars PROVE [StoreNext]_coreVars
  BY <1>2, CoreMoves DEF InstallInv
<1> QED
  BY <1>1, <1>2, InstallInvariance, PTL DEF Spec, StoreSpec

(* However Setup ends, the new package is in place, or every file it found is
   there as it was or in the backup it leaves, but for the case of the finding
   BackupKept. *)
THEOREM SetupRecoverableHolds == Spec => SetupRecoverable
<1> DEFINE Recoverable ==
      setup.stage # "idle" /\ setup'.stage = "idle" =>
          \/ \A f \in Files : runtime[f] = "new"
          \/ \A f \in Files : before[f] # None => before[f] \in {runtime[f], saved'[f]}
          \/ restored = "failed" /\ started /\ IsAgentRunning
<1>1. ASSUME InstallInv, [Next]_vars PROVE Recoverable
  <2> SUFFICES ASSUME setup.stage # "idle", setup'.stage = "idle"
      PROVE  \/ \A f \in Files : runtime[f] = "new"
             \/ \A f \in Files : before[f] # None => before[f] \in {runtime[f], saved'[f]}
             \/ restored = "failed" /\ started /\ IsAgentRunning
    OBVIOUS
  <2> USE <1>1 DEF InstallInv
  <2>0. /\ "backup" \in Stages /\ "copy" \in Stages /\ "start" \in Stages
        /\ "watch" \in Stages /\ "failed" \in Stages /\ "notice" \in Stages
    BY DEF Stages
  <2>1. CASE before = NoFiles
    BY <2>1 DEF NoFiles
  <2>2. CASE before # NoFiles /\ WatchEnds
    BY <2>2 DEF WatchEnds, FilesKept, WasUp
  <2>3. CASE before # NoFiles /\ Noticed
    <3>1. setup.stage = "notice"
      BY <2>3 DEF Noticed
    <3>2. CASE restored = "yes"
      BY <2>3, <3>1, <3>2 DEF FilesKept
    <3>3. CASE restored # "yes" /\ started /\ IsAgentRunning
      <4>1. restored \in {"no", "failed"}
        BY <3>3 DEF TypeOK
      <4> QED
        BY <2>3, <3>1, <3>3, <4>1 DEF FilesKept, WasUp
    <3>4. CASE ~MayForget
      <4>1. saved' = saved
        BY <2>3, <3>4 DEF Noticed
      <4>2. \A f \in Files : Kept(f)
        BY <2>3, <3>1 DEF FilesKept
      <4> QED
        BY <4>1, <4>2 DEF Kept
    <3> QED
      BY <3>2, <3>3, <3>4 DEF MayForget
  <2>4. CASE Downloaded
    BY <2>1, <2>4 DEF Downloaded, StagesTrue
  <2>5. CASE \/ \E c \in Codes : RunSetup(c)
             \/ \E f \in Files : CopyFile(f)
    BY <2>5 DEF RunSetup, CopyFile, TypeOK
  <2>6. CASE BackUp \/ CopyFails \/ Configure \/ StartNew \/ Rollback
    BY <2>0, <2>6, StageOnly DEF BackUp, CopyFails, Configure, StartNew, Rollback
  <2>7. CASE Agent \/ Uninstall \/ FinishUninstall \/ UNCHANGED pcVars
    BY <2>7 DEF Agent, Launch, LoadConfig, AskCore, SaveConfig, Die, Uninstall, FinishUninstall,
                onlyAgent, pcVars
  <2> QED
    BY <2>1, <2>2, <2>3, <2>4, <2>5, <2>6, <2>7 DEF Next, Setup, vars
<1>2. InstallInv /\ [Next]_vars => [Recoverable]_vars
  BY <1>1
<1> QED
  BY <1>2, InstallInvariance, PTL DEF Spec, SetupRecoverable
=============================================================================
