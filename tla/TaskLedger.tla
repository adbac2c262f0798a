----------------------------- MODULE TaskLedger -----------------------------
(***************************************************************************)
(* The checkpoint of one task (task-ledger.js and the checkpoint tools of  *)
(* server-multiuser.js), saved by several conversations of one account.    *)
(*                                                                         *)
(* A conversation reads the checkpoint, adds what it has done, and saves   *)
(* it under the revision it read.  Requests travel; answers may be lost;   *)
(* whoever got none sends the same request again, or reads.  What a        *)
(* checkpoint says is abstracted to the requests whose progress is in it.  *)
(***************************************************************************)
EXTENDS Naturals

CONSTANTS
    Savers,      \* conversations of the account
    Requests,    \* the calls of checkpoint_save with something new to save
    Devices,     \* devices a task may be linked to
    Nothing      \* no device, no request

VARIABLES
    row,       \* the row of yourhand_task_checkpoints
    operator,  \* devices the account may operate (getDeviceForUser)
    read,      \* the revision and progress each conversation last read
    sent,      \* the request each has under way, with its arguments
    fresh,     \* requests not made yet
    saves      \* history: how often each request was carried out

ledgerVars == <<row, operator, read, sent, fresh, saves>>

NoRow     == [revision |-> 0, device |-> Nothing, done |-> {}]
NoCall    == [id |-> Nothing, expected |-> 0, device |-> Nothing, done |-> {}]

LedgerTypeOK ==
    /\ row \in [revision : Nat, device : Devices \cup {Nothing}, done : SUBSET Requests]
    /\ operator \in SUBSET Devices
    /\ read \in [Savers -> [revision : Nat, done : SUBSET Requests]]
    /\ sent \in [Savers -> [id : Requests \cup {Nothing}, expected : Nat,
                            device : Devices \cup {Nothing}, done : SUBSET Requests]]
    /\ fresh \in SUBSET Requests /\ saves \in [Requests -> Nat]

LedgerInit ==
    /\ row = NoRow /\ operator = Devices
    /\ read = [s \in Savers |-> [revision |-> 0, done |-> {}]]
    /\ sent = [s \in Savers |-> NoCall]
    /\ fresh = Requests /\ saves = [q \in Requests |-> 0]

-----------------------------------------------------------------------------

(* checkpoint_get. *)
Get(s) ==
    /\ read' = [read EXCEPT ![s] = [revision |-> row.revision, done |-> row.done]]
    /\ UNCHANGED <<row, operator, sent, fresh, saves>>

(* checkpoint_save is called: the checkpoint replaces the one that was read. *)
Call(s, q, d) ==
    /\ sent[s] = NoCall /\ q \in fresh
    /\ fresh' = fresh \ {q}
    /\ sent' = [sent EXCEPT ![s] = [id |-> q, expected |-> read[s].revision, device |-> d,
                                    done |-> read[s].done \cup {q}]]
    /\ UNCHANGED <<row, operator, read, saves>>

(* The transaction of save(): the revision, then the device. *)
NotAhead(c) == c.expected <= row.revision         \* mutant: an older one accepted
Current(c) == row.revision = c.expected
SameDevice(c) == row.revision # 0 => row.device = c.device

Accepts(c) == c.device \in operator /\ Current(c) /\ SameDevice(c)

Save(s) ==
    LET c == sent[s] IN
    /\ c # NoCall /\ Accepts(c)
    /\ row' = [revision |-> c.expected + 1, device |-> c.device, done |-> c.done]
    /\ saves' = [saves EXCEPT ![c.id] = @ + 1]
    /\ \/ /\ sent' = [sent EXCEPT ![s] = NoCall]
          /\ read' = [read EXCEPT ![s] = [revision |-> row'.revision, done |-> row'.done]]
       \/ UNCHANGED <<sent, read>>          \* no answer; it may be sent again
    /\ UNCHANGED <<operator, fresh>>

(* A conflict, another device, no permission: told as such, and given up. *)
Refuse(s) ==
    /\ sent[s] # NoCall /\ ~Accepts(sent[s])
    /\ sent' = [sent EXCEPT ![s] = NoCall]
    /\ UNCHANGED <<row, operator, read, fresh, saves>>

(* The conversation ends, or does not want to know any more. *)
GiveUp(s) ==
    /\ sent[s] # NoCall
    /\ sent' = [sent EXCEPT ![s] = NoCall]
    /\ UNCHANGED <<row, operator, read, fresh, saves>>

(* The owner of a device changes what the account may do on it. *)
ChangeAccess(d) ==
    /\ operator' = IF d \in operator THEN operator \ {d} ELSE operator \cup {d}
    /\ UNCHANGED <<row, read, sent, fresh, saves>>

LedgerNext ==
    \/ \E s \in Savers : Get(s) \/ Save(s) \/ Refuse(s) \/ GiveUp(s)
    \/ \E s \in Savers, q \in Requests, d \in Devices : Call(s, q, d)
    \/ \E d \in Devices : ChangeAccess(d)

LedgerSpec == LedgerInit /\ [][LedgerNext]_ledgerVars

-----------------------------------------------------------------------------
(* Properties.                                                             *)

(* A request is carried out once at most, though it is sent again when its
   answer was lost; and what was carried out is in every later checkpoint,
   whoever saved after it and from however old a reading: the checkpoint holds
   the requests that were carried out, answered or not (task-ledger.js:34). *)
SavedOnce == \A q \in Requests : saves[q] = IF q \in row.done THEN 1 ELSE 0
=============================================================================
