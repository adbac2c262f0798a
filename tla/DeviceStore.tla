----------------------------- MODULE DeviceStore -----------------------------
(***************************************************************************)
(* The Core's tables of paired devices, pairing codes, invitations and     *)
(* members (store.js), as the routes of web.js use them.                   *)
(*                                                                         *)
(* A statement, or a transaction, is one step: the Core is one process and *)
(* its database driver is synchronous.  Only revokeDevice commits twice,   *)
(* so only there can the process die with half of its work done.           *)
(*                                                                         *)
(* A device row is made once for a public key and keeps its id, so a key   *)
(* stands for the device.                                                  *)
(***************************************************************************)
EXTENDS Naturals, FiniteSets

CONSTANTS
    Users,        \* the accounts, each with one verified email
    Keys,         \* the public keys Agents have
    Codes,        \* pairing codes, each with its installer token
    Invites,      \* invitation tokens
    MaxPairings   \* bound: times a device is paired

None  == "none"
Roles == {"viewer", "operator"}

ASSUME UsersType == None \notin Users /\ None \notin Keys
ASSUME PairingsType == MaxPairings \in Nat

VARIABLES
    devices,   \* devices: owner and status of each key's row
    codes,     \* pairing_codes
    invites,   \* device_share_invites
    shares,    \* device_shares.role
    pairing,   \* history: how often each device was paired
    paired,    \* history: the codes each device was paired with
    spared,    \* history: invitations left by a revocation the Core died in
    entries    \* history: how often each account was admitted to each device

storeVars == <<devices, codes, invites, shares>>
coreVars  == <<storeVars, pairing, paired, spared, entries>>

NoDevice == [owner |-> None, status |-> "absent"]
NoCode   == [user |-> None, state |-> "new"]
NoInvite == [device |-> None, owner |-> None, target |-> None, role |-> None,
             state |-> "new"]

StoreTypeOK ==
    /\ devices \in [Keys -> [owner : Users, status : {"active", "revoked"}] \cup {NoDevice}]
    /\ codes \in [Codes -> [user : Users, state : {"open", "used", "expired"}] \cup {NoCode}]
    /\ invites \in [Invites -> {NoInvite} \cup
           [device : Keys, owner : Users, target : Users, role : Roles,
            state : {"open", "consumed", "expired", "deleted"}]]
    /\ shares \in [Keys -> [Users -> Roles \cup {None}]]
    /\ pairing \in [Keys -> 0..MaxPairings]
    /\ paired \in [Keys -> SUBSET Codes]
    /\ spared \in SUBSET Invites
    /\ entries \in [Keys -> [Users -> Nat]]

StoreInit ==
    /\ devices = [k \in Keys |-> NoDevice]
    /\ codes = [c \in Codes |-> NoCode]
    /\ invites = [i \in Invites |-> NoInvite]
    /\ shares = [k \in Keys |-> [u \in Users |-> None]]
    /\ pairing = [k \in Keys |-> 0]
    /\ paired = [k \in Keys |-> {}]
    /\ spared = {}
    /\ entries = [k \in Keys |-> [u \in Users |-> 0]]

-----------------------------------------------------------------------------
(* Who may do what.                                                        *)

Active(k)         == devices[k].status = "active"
OwnerDevice(u, k) == Active(k) /\ devices[k].owner = u
Member(u, k)      == Active(k) /\ devices[k].owner # u /\ shares[k][u] # None

(* _enrollRow reads the key's row, whatever its status. *)
KeyIsFree(u, k) == devices[k].owner \in {None, u}

(* The rows a code or an invitation is looked up by. *)
OpenCode(c)  == codes[c].state = "open"
Sent(i)      == invites[i].state \in {"open", "consumed"}   \* mutant: consumed_at
OpenInvite(i) == invites[i].state = "open"

AnyAccount(u, i) == u # invites[i].owner          \* mutant: email not compared
Addressed(u, i)  == u = invites[i].target

-----------------------------------------------------------------------------
(* Pairing.                                                                *)

(* createPairingCode: the code of the dashboard and the token of the
   installer are two columns of the row. *)
CreatePairingCode(u, c) ==
    /\ codes[c].state = "new"
    /\ codes' = [codes EXCEPT ![c] = [user |-> u, state |-> "open"]]
    /\ UNCHANGED <<devices, invites, shares, pairing, paired, spared, entries>>

ExpireCode(c) ==
    /\ codes[c].state = "open"
    /\ codes' = [codes EXCEPT ![c].state = "expired"]
    /\ UNCHANGED <<devices, invites, shares, pairing, paired, spared, entries>>

(* _enrollRow.  A refusal rolls the transaction back. *)
Enroll(c, k) ==
    LET u == codes[c].user IN
    /\ OpenCode(c) /\ KeyIsFree(u, k)
    /\ pairing[k] < MaxPairings
    /\ codes' = [codes EXCEPT ![c].state = "used"]
    /\ devices' = [devices EXCEPT ![k] = [owner |-> u, status |-> "active"]]
    /\ pairing' = [pairing EXCEPT ![k] = @ + 1]
    /\ paired' = [paired EXCEPT ![k] = @ \cup {c}]
    /\ UNCHANGED <<invites, shares, spared, entries>>

-----------------------------------------------------------------------------
(* Sharing.                                                                *)

CreateInvite(u, k, i, t, r) ==
    /\ invites[i].state = "new"
    /\ OwnerDevice(u, k) /\ t # u
    /\ invites' = [invites EXCEPT ![i] =
           [device |-> k, owner |-> u, target |-> t, role |-> r, state |-> "open"]]
    /\ UNCHANGED <<devices, codes, shares, pairing, paired, spared, entries>>

ExpireInvite(i) ==
    /\ invites[i].state = "open"
    /\ invites' = [invites EXCEPT ![i].state = "expired"]
    /\ UNCHANGED <<devices, codes, shares, pairing, paired, spared, entries>>

(* acceptDeviceShareInvite, one transaction. *)
AcceptInvite(u, i) ==
    LET k == invites[i].device IN
    /\ OpenInvite(i) /\ Addressed(u, i)
    /\ OwnerDevice(invites[i].owner, k)
    /\ invites' = [invites EXCEPT ![i].state = "consumed"]
    /\ shares' = [shares EXCEPT ![k][u] = invites[i].role]
    /\ entries' = [entries EXCEPT ![k][u] = @ + 1]
    /\ UNCHANGED <<devices, codes, pairing, paired, spared>>

RemoveMember(u, k, m) ==
    /\ OwnerDevice(u, k) /\ shares[k][m] # None
    /\ shares' = [shares EXCEPT ![k][m] = None]
    /\ UNCHANGED <<devices, codes, invites, pairing, paired, spared, entries>>

(* revokeDevice of a member, of the owner, and of the owner when the Core
   dies after the first commit. *)
Leave(u, k) ==
    /\ Member(u, k)
    /\ shares' = [shares EXCEPT ![k][u] = None]
    /\ UNCHANGED <<devices, codes, invites, pairing, paired, spared, entries>>

(* Rows of consumed and expired invitations go too; nothing reads them again,
   so here they keep their state. *)
KeepInvites(k) == invites' = invites              \* mutant: invitations kept
DeleteInvites(k) ==
    invites' = [i \in Invites |->
        IF invites[i].device = k /\ OpenInvite(i) THEN [invites[i] EXCEPT !.state = "deleted"]
        ELSE invites[i]]

Revoke(u, k) ==
    /\ OwnerDevice(u, k)
    /\ devices' = [devices EXCEPT ![k].status = "revoked"]
    /\ DeleteInvites(k)
    /\ UNCHANGED <<codes, shares, pairing, paired, spared, entries>>

RevokeDies(u, k) ==
    /\ OwnerDevice(u, k)
    /\ devices' = [devices EXCEPT ![k].status = "revoked"]
    /\ spared' = spared \cup {i \in Invites : invites[i].device = k /\ OpenInvite(i)}
    /\ UNCHANGED <<codes, invites, shares, pairing, paired, entries>>

-----------------------------------------------------------------------------

Web ==
    \/ \E u \in Users, c \in Codes : CreatePairingCode(u, c)
    \/ \E c \in Codes : ExpireCode(c)
    \/ \E u, t \in Users, k \in Keys, i \in Invites, r \in Roles : CreateInvite(u, k, i, t, r)
    \/ \E i \in Invites : ExpireInvite(i)
    \/ \E u \in Users, i \in Invites : AcceptInvite(u, i)
    \/ \E u, m \in Users, k \in Keys : RemoveMember(u, k, m)
    \/ \E u \in Users, k \in Keys : Leave(u, k) \/ Revoke(u, k) \/ RevokeDies(u, k)

StoreNext == Web \/ \E c \in Codes, k \in Keys : Enroll(c, k)

StoreSpec == StoreInit /\ [][StoreNext]_coreVars

-----------------------------------------------------------------------------
(* Properties.                                                             *)

(* A code pairs one device, once (store.js:229): presented again, for this
   key or for another one, it pairs nothing. *)
OneDevicePerCode ==
    /\ \A k, l \in Keys : k # l => paired[k] \cap paired[l] = {}
    /\ \A k \in Keys : pairing[k] = Cardinality(paired[k])

(* Whoever may use a device of another account was invited to it by its
   owner, by email and in that role, and accepted; revocation and re-pairing,
   which leave the members in place (store.js:243), change nothing in that. *)
AccessGranted ==
    \A k \in Keys, u \in Users : shares[k][u] # None =>
        \E i \in Invites : /\ invites[i].device = k /\ invites[i].target = u
                           /\ invites[i].owner = devices[k].owner
                           /\ invites[i].role = shares[k][u]
                           /\ invites[i].state = "consumed"

Accepted(k, u) ==
    {i \in Invites :
        invites[i].device = k /\ invites[i].target = u /\ invites[i].state = "consumed"}

(* An invitation admits its account once (store.js:175): who has left or was
   removed comes back only with another one. *)
EntryPerInvite ==
    \A k \in Keys, u \in Users :
        entries[k][u] = Cardinality(Accepted(k, u))

UsedOnce == OneDevicePerCode /\ EntryPerInvite

(* An invitation does not outlive the pairing it was made in (store.js:147),
   unless the Core died between the two commits of the revocation: re-pairing
   the device does not bring it back. *)
InvitesEndWithPairing ==
    \A i \in Invites : OpenInvite(i) => Active(invites[i].device) \/ i \in spared

-----------------------------------------------------------------------------
(* The inductive invariant behind them.                                    *)

(* A code that paired a device is used and stays so. *)
PairedIsUsed == \A k \in Keys : \A c \in paired[k] : codes[c].state = "used"

(* Only what happened is counted. *)
Countable ==
    \A k \in Keys : IsFiniteSet(paired[k]) /\ \A u \in Users : IsFiniteSet(Accepted(k, u))

StoreInv ==
    /\ StoreTypeOK /\ PairedIsUsed /\ Countable
    /\ UsedOnce /\ AccessGranted /\ InvitesEndWithPairing
=============================================================================
