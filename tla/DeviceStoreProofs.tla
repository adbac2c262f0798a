-------------------------- MODULE DeviceStoreProofs --------------------------
(***************************************************************************)
(* Proofs about DeviceStore, for every set of accounts, keys, pairing      *)
(* codes and invitations, wherever the Core dies in a revocation.          *)
(***************************************************************************)
EXTENDS DeviceStore, FiniteSetTheorems, TLAPS

(* One more element of a finite set is one more counted. *)
LEMMA CountOneMore ==
    ASSUME NEW S, IsFiniteSet(S), NEW x, x \notin S
    PROVE  IsFiniteSet(S \cup {x}) /\ Cardinality(S \cup {x}) = Cardinality(S) + 1
  BY FS_AddElement

-----------------------------------------------------------------------------
(* Types.                                                                  *)

(* Every route of the web server, and the enrollment of a device, keeps the
   types of the tables. *)
LEMMA StoreTypeStep == StoreTypeOK /\ [StoreNext]_coreVars => StoreTypeOK'
<1> SUFFICES ASSUME StoreTypeOK, [StoreNext]_coreVars PROVE StoreTypeOK'
  OBVIOUS
<1> USE UsersType, PairingsType DEF StoreTypeOK
<1>1. ASSUME NEW u \in Users, NEW c \in Codes, CreatePairingCode(u, c) PROVE StoreTypeOK'
  BY <1>1 DEF CreatePairingCode
<1>2. ASSUME NEW c \in Codes, ExpireCode(c) PROVE StoreTypeOK'
  <2>1. codes[c] \in [user : Users, state : {"open", "used", "expired"}]
    BY <1>2 DEF ExpireCode, NoCode
  <2> QED
    BY <1>2, <2>1 DEF ExpireCode
<1>3. ASSUME NEW u \in Users, NEW t \in Users, NEW k \in Keys, NEW i \in Invites, NEW r \in Roles,
             CreateInvite(u, k, i, t, r)
      PROVE  StoreTypeOK'
  BY <1>3 DEF CreateInvite
<1>4. ASSUME NEW i \in Invites, invites[i].state # "new"
      PROVE  invites[i] \in [device : Keys, owner : Users, target : Users, role : Roles,
                             state : {"open", "consumed", "expired", "deleted"}]
  BY <1>4 DEF NoInvite
<1>5. ASSUME NEW i \in Invites, ExpireInvite(i) PROVE StoreTypeOK'
  BY <1>4, <1>5 DEF ExpireInvite
<1>6. ASSUME NEW u \in Users, NEW i \in Invites, AcceptInvite(u, i) PROVE StoreTypeOK'
  <2>1. /\ invites[i].device \in Keys /\ invites[i].role \in Roles
        /\ invites' = [invites EXCEPT ![i].state = "consumed"]
        /\ shares' = [shares EXCEPT ![invites[i].device][u] = invites[i].role]
        /\ entries' = [entries EXCEPT ![invites[i].device][u] = @ + 1]
        /\ UNCHANGED <<devices, codes, pairing, paired, spared>>
    BY <1>4, <1>6 DEF AcceptInvite, OpenInvite
  <2>2. invites' \in [Invites -> {NoInvite} \cup
           [device : Keys, owner : Users, target : Users, role : Roles,
            state : {"open", "consumed", "expired", "deleted"}]]
    <3>1. invites[i] \in [device : Keys, owner : Users, target : Users, role : Roles,
                          state : {"open", "consumed", "expired", "deleted"}]
      BY <1>4, <1>6 DEF AcceptInvite, OpenInvite
    <3> QED
      BY <2>1, <3>1
  <2>3. shares' \in [Keys -> [Users -> Roles \cup {None}]]
    BY <2>1
  <2>4. entries' \in [Keys -> [Users -> Nat]]
    BY <2>1
  <2> QED
    BY <2>1, <2>2, <2>3, <2>4
<1>7. ASSUME NEW u \in Users, NEW m \in Users, NEW k \in Keys, RemoveMember(u, k, m)
      PROVE  StoreTypeOK'
  BY <1>7 DEF RemoveMember
<1>8. ASSUME NEW u \in Users, NEW k \in Keys, Leave(u, k) PROVE StoreTypeOK'
  BY <1>8 DEF Leave
<1>9. ASSUME NEW u \in Users, NEW k \in Keys, OwnerDevice(u, k),
             devices' = [devices EXCEPT ![k].status = "revoked"]
      PROVE  devices' \in [Keys -> [owner : Users, status : {"active", "revoked"}] \cup {NoDevice}]
  <2>1. devices[k] \in [owner : Users, status : {"active", "revoked"}]
    BY <1>9 DEF OwnerDevice, Active, NoDevice
  <2> QED
    BY <1>9, <2>1
<1>10. ASSUME NEW u \in Users, NEW k \in Keys, Revoke(u, k) PROVE StoreTypeOK'
  <2>1. invites' \in [Invites -> {NoInvite} \cup
           [device : Keys, owner : Users, target : Users, role : Roles,
            state : {"open", "consumed", "expired", "deleted"}]]
    BY <1>4, <1>10 DEF Revoke, DeleteInvites, OpenInvite
  <2> QED
    BY <1>9, <1>10, <2>1 DEF Revoke
<1>11. ASSUME NEW u \in Users, NEW k \in Keys, RevokeDies(u, k) PROVE StoreTypeOK'
  BY <1>9, <1>11 DEF RevokeDies
<1>12. ASSUME NEW c \in Codes, NEW k \in Keys, Enroll(c, k) PROVE StoreTypeOK'
  <2>1. codes[c] \in [user : Users, state : {"open", "used", "expired"}]
    BY <1>12 DEF Enroll, OpenCode, NoCode
  <2>2. pairing[k] + 1 \in 0..MaxPairings
    BY <1>12 DEF Enroll
  <2> QED
    BY <1>12, <2>1, <2>2 DEF Enroll
<1>13. CASE UNCHANGED coreVars
  BY <1>13 DEF coreVars, storeVars
<1> QED
  BY <1>1, <1>2, <1>3, <1>5, <1>6, <1>7, <1>8, <1>10, <1>11, <1>12, <1>13 DEF StoreNext, Web

-----------------------------------------------------------------------------
(* What a step can do to codes, to invitations and to owners.              *)

(* A used code stays used, and a key gets a code only when it uses it up. *)
LEMMA CodesStep ==
    ASSUME StoreTypeOK, [StoreNext]_coreVars
    PROVE  /\ \A c \in Codes : codes[c].state = "used" => codes'[c].state = "used"
           /\ \/ UNCHANGED <<pairing, paired>>
              \/ \E c \in Codes, k \in Keys : Enroll(c, k)
<1> USE DEF StoreTypeOK
<1>1. ASSUME NEW c \in Codes, NEW k \in Keys, Enroll(c, k)
      PROVE  \A d \in Codes : codes[d].state = "used" => codes'[d].state = "used"
  BY <1>1 DEF Enroll
<1>2. ASSUME NEW c \in Codes, ExpireCode(c) \/ \E u \in Users : CreatePairingCode(u, c)
      PROVE  /\ UNCHANGED <<pairing, paired>>
             /\ \A d \in Codes : codes[d].state = "used" => codes'[d].state = "used"
  BY <1>2 DEF ExpireCode, CreatePairingCode
<1>3. ASSUME \/ \E i \in Invites : ExpireInvite(i)
             \/ \E u, t \in Users, k \in Keys, i \in Invites, r \in Roles : CreateInvite(u, k, i, t, r)
             \/ \E u \in Users, i \in Invites : AcceptInvite(u, i)
             \/ \E u, m \in Users, k \in Keys : RemoveMember(u, k, m)
             \/ \E u \in Users, k \in Keys : Leave(u, k) \/ Revoke(u, k) \/ RevokeDies(u, k)
             \/ UNCHANGED coreVars
      PROVE  UNCHANGED <<codes, pairing, paired>>
  BY <1>3 DEF ExpireInvite, CreateInvite, AcceptInvite, RemoveMember, Leave, Revoke, RevokeDies,
              coreVars, storeVars
<1> QED
  BY <1>1, <1>2, <1>3 DEF StoreNext, Web

(* A device keeps its owner, an accepted invitation stays as it is, and a
   share is given by accepting one. *)
LEMMA SharesStep ==
    ASSUME StoreTypeOK, [StoreNext]_coreVars
    PROVE  /\ \A k \in Keys : devices'[k].owner = devices[k].owner \/ devices[k].owner = None
           /\ \A i \in Invites : invites[i].state = "consumed" => invites'[i] = invites[i]
           /\ \/ \E u \in Users, i \in Invites : AcceptInvite(u, i)
              \/ /\ UNCHANGED entries
                 /\ \A i \in Invites : invites'[i].state = "consumed" => invites[i].state = "consumed"
                 /\ \A k \in Keys, u \in Users : shares'[k][u] \in {shares[k][u], None}
<1> USE DEF StoreTypeOK
<1> DEFINE Goal ==
      /\ \A k \in Keys : devices'[k].owner = devices[k].owner \/ devices[k].owner = None
      /\ \A i \in Invites : invites[i].state = "consumed" => invites'[i] = invites[i]
      /\ UNCHANGED entries
      /\ \A i \in Invites : invites'[i].state = "consumed" => invites[i].state = "consumed"
      /\ \A k \in Keys, u \in Users : shares'[k][u] \in {shares[k][u], None}
<1>1. ASSUME NEW c \in Codes, NEW k \in Keys, Enroll(c, k) PROVE Goal
  <2>1. \A l \in Keys : devices'[l].owner = devices[l].owner \/ devices[l].owner = None
    BY <1>1 DEF Enroll, KeyIsFree
  <2> QED
    BY <1>1, <2>1 DEF Enroll
<1>2. ASSUME UNCHANGED <<devices, invites, shares, entries>> PROVE Goal
  BY <1>2
<1>3. ASSUME NEW c \in Codes, ExpireCode(c) \/ \E u \in Users : CreatePairingCode(u, c) PROVE Goal
  BY <1>2, <1>3 DEF ExpireCode, CreatePairingCode
<1>4. ASSUME NEW u \in Users, NEW t \in Users, NEW k \in Keys, NEW i \in Invites, NEW r \in Roles,
             CreateInvite(u, k, i, t, r)
      PROVE  Goal
  BY <1>4 DEF CreateInvite
<1>5. ASSUME NEW i \in Invites, ExpireInvite(i) PROVE Goal
  BY <1>5 DEF ExpireInvite
<1>6. ASSUME NEW u \in Users, NEW i \in Invites, AcceptInvite(u, i)
      PROVE  /\ devices' = devices
             /\ \A j \in Invites : invites[j].state = "consumed" => invites'[j] = invites[j]
  BY <1>6 DEF AcceptInvite, OpenInvite
<1>7. ASSUME NEW u \in Users, NEW k \in Keys, Leave(u, k) \/ \E m \in Users : RemoveMember(u, k, m)
      PROVE  Goal
  <2>1. PICK m \in Users : shares' = [shares EXCEPT ![k][m] = None]
    BY <1>7 DEF Leave, RemoveMember
  <2>2. \A l \in Keys, v \in Users : shares'[l][v] \in {shares[l][v], None}
    BY <2>1
  <2> QED
    BY <1>7, <2>2 DEF Leave, RemoveMember
<1>8. ASSUME NEW u \in Users, NEW k \in Keys, Revoke(u, k) \/ RevokeDies(u, k) PROVE Goal
  <2>1. devices' = [devices EXCEPT ![k].status = "revoked"] /\ UNCHANGED <<shares, entries>>
    BY <1>8 DEF Revoke, RevokeDies
  <2>2. \A l \in Keys : devices'[l].owner = devices[l].owner
    <3>1. devices[k] \in [owner : Users, status : {"active", "revoked"}]
      BY <1>8 DEF Revoke, RevokeDies, OwnerDevice, Active, NoDevice
    <3> QED
      BY <2>1, <3>1
  <2>3. \A i \in Invites :
            invites'[i] = invites[i]
            \/ (invites[i].state = "open" /\ invites'[i] = [invites[i] EXCEPT !.state = "deleted"])
    BY <1>8 DEF Revoke, RevokeDies, DeleteInvites, OpenInvite
  <2>4. \A i \in Invites : invites'[i].state = "consumed" <=> invites[i].state = "consumed"
    <3>1. ASSUME NEW i \in Invites, invites[i].state = "open",
                 invites'[i] = [invites[i] EXCEPT !.state = "deleted"]
          PROVE  invites'[i].state = "deleted"
      <4>1. invites[i] \in [device : Keys, owner : Users, target : Users, role : Roles,
                            state : {"open", "consumed", "expired", "deleted"}]
        BY <3>1 DEF NoInvite
      <4> QED
        BY <3>1, <4>1
    <3> QED
      BY <2>3, <3>1
  <2> QED
    BY <2>1, <2>2, <2>3, <2>4
<1>9. CASE UNCHANGED coreVars
  BY <1>2, <1>9 DEF coreVars, storeVars
<1> QED
  BY <1>1, <1>3, <1>4, <1>5, <1>6, <1>7, <1>8, <1>9 DEF StoreNext, Web

-----------------------------------------------------------------------------
(* The parts of the invariant.                                             *)

(* A code pairs one device, once. *)
LEMMA PairingStep ==
    ASSUME StoreInv, [StoreNext]_coreVars
    PROVE  PairedIsUsed' /\ OneDevicePerCode' /\ \A k \in Keys : IsFiniteSet(paired'[k])
<1> USE DEF StoreInv, StoreTypeOK, PairedIsUsed, Countable, UsedOnce, OneDevicePerCode
<1>1. \A c \in Codes : codes[c].state = "used" => codes'[c].state = "used"
  BY CodesStep
<1>2. CASE UNCHANGED <<pairing, paired>>
  BY <1>1, <1>2
<1>3. ASSUME NEW c \in Codes, NEW k \in Keys, Enroll(c, k)
      PROVE  PairedIsUsed' /\ OneDevicePerCode' /\ \A l \in Keys : IsFiniteSet(paired'[l])
  <2>1. /\ codes[c].state = "open" /\ codes'[c].state = "used"
        /\ pairing' = [pairing EXCEPT ![k] = @ + 1]
        /\ paired' = [paired EXCEPT ![k] = @ \cup {c}]
    BY <1>3 DEF Enroll, OpenCode
  <2>2. \A l \in Keys : c \notin paired[l]
    BY <2>1
  <2>3. paired'[k] = paired[k] \cup {c} /\ pairing'[k] = pairing[k] + 1
        /\ \A l \in Keys : l # k => paired'[l] = paired[l] /\ pairing'[l] = pairing[l]
    BY <2>1
  <2>4. IsFiniteSet(paired'[k]) /\ Cardinality(paired'[k]) = Cardinality(paired[k]) + 1
    BY <2>2, <2>3, CountOneMore
  <2>5. PairedIsUsed'
    BY <1>1, <2>1, <2>3
  <2>6. \A l, m \in Keys : l # m => paired'[l] \cap paired'[m] = {}
    BY <2>2, <2>3
  <2>7. \A l \in Keys : pairing'[l] = Cardinality(paired'[l]) /\ IsFiniteSet(paired'[l])
    BY <2>3, <2>4
  <2> QED
    BY <2>5, <2>6, <2>7
<1> QED
  BY <1>2, <1>3, CodesStep

(* An invitation admits its account once. *)
LEMMA EntryStep ==
    ASSUME StoreInv, [StoreNext]_coreVars
    PROVE  EntryPerInvite' /\ \A k \in Keys, u \in Users : IsFiniteSet(Accepted(k, u)')
<1> USE DEF StoreInv, StoreTypeOK, Countable, UsedOnce, EntryPerInvite
<1>1. CASE /\ UNCHANGED entries
           /\ \A i \in Invites : invites[i].state = "consumed" => invites'[i] = invites[i]
           /\ \A i \in Invites : invites'[i].state = "consumed" => invites[i].state = "consumed"
  <2>1. \A k \in Keys, u \in Users : Accepted(k, u)' = Accepted(k, u)
    BY <1>1 DEF Accepted
  <2> QED
    BY <1>1, <2>1
<1>2. ASSUME NEW v \in Users, NEW i \in Invites, AcceptInvite(v, i)
      PROVE  EntryPerInvite' /\ \A k \in Keys, u \in Users : IsFiniteSet(Accepted(k, u)')
  <2> DEFINE l == invites[i].device
  <2>1. /\ invites[i].state = "open" /\ v = invites[i].target
        /\ invites' = [invites EXCEPT ![i].state = "consumed"]
        /\ entries' = [entries EXCEPT ![l][v] = @ + 1]
    BY <1>2 DEF AcceptInvite, OpenInvite, Addressed
  <2>2. /\ invites[i] \in [device : Keys, owner : Users, target : Users, role : Roles,
                           state : {"open", "consumed", "expired", "deleted"}]
        /\ l \in Keys
    BY <2>1 DEF NoInvite
  <2>3. /\ invites'[i].state = "consumed" /\ invites'[i].device = l /\ invites'[i].target = v
        /\ \A j \in Invites : j # i => invites'[j] = invites[j]
    BY <2>1, <2>2
  <2>4. ASSUME NEW k \in Keys, NEW u \in Users
        PROVE  entries'[k][u] = Cardinality(Accepted(k, u)') /\ IsFiniteSet(Accepted(k, u)')
    <3>1. CASE k = l /\ u = v
      <4>1. Accepted(k, u)' = Accepted(k, u) \cup {i} /\ i \notin Accepted(k, u)
        BY <2>1, <2>3, <3>1 DEF Accepted
      <4>2. entries'[k][u] = entries[k][u] + 1
        BY <2>1, <2>2, <3>1
      <4>3. Cardinality(Accepted(k, u) \cup {i}) = Cardinality(Accepted(k, u)) + 1
            /\ IsFiniteSet(Accepted(k, u) \cup {i})
        BY <4>1, CountOneMore
      <4> QED
        BY <4>1, <4>2, <4>3
    <3>2. CASE ~(k = l /\ u = v)
      <4>1. Accepted(k, u)' = Accepted(k, u)
        BY <2>1, <2>3, <3>2 DEF Accepted
      <4>2. entries'[k][u] = entries[k][u]
        BY <2>1, <2>2, <3>2
      <4> QED
        BY <4>1, <4>2
    <3> QED
      BY <3>1, <3>2
  <2> QED
    BY <2>4
<1> QED
  BY <1>1, <1>2, SharesStep

(* Every member was invited by the owner, in that role, and accepted. *)
LEMMA AccessStep == StoreInv /\ [StoreNext]_coreVars => AccessGranted'
<1> SUFFICES ASSUME StoreInv, [StoreNext]_coreVars, NEW k \in Keys, NEW u \in Users, shares'[k][u] # None
    PROVE  \E i \in Invites : /\ invites'[i].device = k /\ invites'[i].target = u
                              /\ invites'[i].owner = devices'[k].owner
                              /\ invites'[i].role = shares'[k][u]
                              /\ invites'[i].state = "consumed"
  BY DEF AccessGranted
<1> USE UsersType DEF StoreInv, StoreTypeOK
<1>1. CASE shares'[k][u] = shares[k][u]
  <2>1. PICK i \in Invites : /\ invites[i].device = k /\ invites[i].target = u
                             /\ invites[i].owner = devices[k].owner
                             /\ invites[i].role = shares[k][u]
                             /\ invites[i].state = "consumed"
    BY <1>1 DEF AccessGranted
  <2>2. invites[i].owner \in Users
    BY <2>1 DEF NoInvite
  <2>3. devices'[k].owner = devices[k].owner /\ invites'[i] = invites[i]
    BY <2>1, <2>2, SharesStep
  <2> QED
    BY <1>1, <2>1, <2>3
<1>2. ASSUME NEW v \in Users, NEW i \in Invites, AcceptInvite(v, i), shares'[k][u] # shares[k][u]
      PROVE  /\ invites'[i].device = k /\ invites'[i].target = u
             /\ invites'[i].owner = devices'[k].owner
             /\ invites'[i].role = shares'[k][u]
             /\ invites'[i].state = "consumed"
  <2>1. /\ invites[i].state = "open" /\ v = invites[i].target
        /\ invites' = [invites EXCEPT ![i].state = "consumed"]
        /\ shares' = [shares EXCEPT ![invites[i].device][v] = invites[i].role]
        /\ devices[invites[i].device].owner = invites[i].owner /\ devices' = devices
    BY <1>2 DEF AcceptInvite, OpenInvite, Addressed, OwnerDevice
  <2>2. invites[i] \in [device : Keys, owner : Users, target : Users, role : Roles,
                        state : {"open", "consumed", "expired", "deleted"}]
    BY <2>1 DEF NoInvite
  <2>3. k = invites[i].device /\ u = v /\ shares'[k][u] = invites[i].role
    BY <1>2, <2>1, <2>2
  <2> QED
    BY <2>1, <2>2, <2>3
<1> QED
  BY <1>1, <1>2, SharesStep

(* An invitation ends with the pairing it was made in. *)
LEMMA InvitesStep == StoreInv /\ [StoreNext]_coreVars => InvitesEndWithPairing'
<1> SUFFICES ASSUME StoreInv, [StoreNext]_coreVars, NEW i \in Invites, invites'[i].state = "open"
    PROVE  devices'[invites'[i].device].status = "active" \/ i \in spared'
  BY DEF InvitesEndWithPairing, OpenInvite, Active
<1> USE DEF StoreInv, StoreTypeOK
<1>1. invites[i].state = "open" =>
          /\ devices[invites[i].device].status = "active" \/ i \in spared
          /\ invites[i] \in [device : Keys, owner : Users, target : Users, role : Roles,
                             state : {"open", "consumed", "expired", "deleted"}]
  BY DEF InvitesEndWithPairing, OpenInvite, Active, NoInvite
<1>2. CASE UNCHANGED <<devices, invites, spared>>
  BY <1>1, <1>2
<1>3. ASSUME NEW c \in Codes, NEW k \in Keys, Enroll(c, k)
      PROVE  devices'[invites'[i].device].status = "active" \/ i \in spared'
  <2>1. devices' = [devices EXCEPT ![k] = [owner |-> codes[c].user, status |-> "active"]]
        /\ UNCHANGED <<invites, spared>>
    BY <1>3 DEF Enroll
  <2> QED
    BY <1>1, <2>1
<1>4. ASSUME NEW u \in Users, NEW t \in Users, NEW k \in Keys, NEW j \in Invites, NEW r \in Roles,
             CreateInvite(u, k, j, t, r)
      PROVE  devices'[invites'[i].device].status = "active" \/ i \in spared'
  BY <1>1, <1>4 DEF CreateInvite, OwnerDevice, Active
<1>5. ASSUME NEW j \in Invites, ExpireInvite(j) \/ \E u \in Users : AcceptInvite(u, j)
      PROVE  devices'[invites'[i].device].status = "active" \/ i \in spared'
  <2>1. /\ UNCHANGED <<devices, spared>>
        /\ invites[j].state = "open"
        /\ \/ invites' = [invites EXCEPT ![j].state = "expired"]
           \/ invites' = [invites EXCEPT ![j].state = "consumed"]
    BY <1>5 DEF ExpireInvite, AcceptInvite, OpenInvite
  <2>2. i # j /\ invites'[i] = invites[i]
    <3>1. invites[j] \in [device : Keys, owner : Users, target : Users, role : Roles,
                          state : {"open", "consumed", "expired", "deleted"}]
      BY <2>1 DEF NoInvite
    <3> QED
      BY <2>1, <3>1
  <2> QED
    BY <1>1, <2>1, <2>2
<1>6. ASSUME NEW u \in Users, NEW k \in Keys, Revoke(u, k)
      PROVE  devices'[invites'[i].device].status = "active" \/ i \in spared'
  <2>1. /\ devices' = [devices EXCEPT ![k].status = "revoked"] /\ spared' = spared
        /\ invites'[i] = IF invites[i].device = k /\ invites[i].state = "open"
                         THEN [invites[i] EXCEPT !.state = "deleted"] ELSE invites[i]
    BY <1>6 DEF Revoke, DeleteInvites, OpenInvite
  <2>2. invites[i].device # k /\ invites'[i] = invites[i]
    BY <1>1, <2>1
  <2> QED
    BY <1>1, <2>1, <2>2
<1>7. ASSUME NEW u \in Users, NEW k \in Keys, RevokeDies(u, k)
      PROVE  devices'[invites'[i].device].status = "active" \/ i \in spared'
  <2>1. /\ devices' = [devices EXCEPT ![k].status = "revoked"] /\ invites' = invites
        /\ spared' = spared \cup {j \in Invites : invites[j].device = k /\ invites[j].state = "open"}
    BY <1>7 DEF RevokeDies, OpenInvite
  <2> QED
    BY <1>1, <2>1
<1>8. ASSUME \/ \E u \in Users, c \in Codes : CreatePairingCode(u, c)
             \/ \E c \in Codes : ExpireCode(c)
             \/ \E u, m \in Users, k \in Keys : RemoveMember(u, k, m)
             \/ \E u \in Users, k \in Keys : Leave(u, k)
             \/ UNCHANGED coreVars
      PROVE  UNCHANGED <<devices, invites, spared>>
  BY <1>8 DEF CreatePairingCode, ExpireCode, RemoveMember, Leave, coreVars, storeVars
<1> QED
  BY <1>2, <1>3, <1>4, <1>5, <1>6, <1>7, <1>8 DEF StoreNext, Web

-----------------------------------------------------------------------------
(* An empty database satisfies the invariant. *)
LEMMA StoreInitInv == StoreInit => StoreInv
<1> SUFFICES ASSUME StoreInit PROVE StoreInv
  OBVIOUS
<1> USE DEF StoreInit
<1>1. StoreTypeOK
  BY PairingsType DEF StoreTypeOK
<1>2. \A k \in Keys, u \in Users : Accepted(k, u) = {}
  BY DEF Accepted, NoInvite
<1>3. Countable /\ UsedOnce
  BY <1>2, FS_EmptySet DEF Countable, UsedOnce, OneDevicePerCode, EntryPerInvite
<1>4. PairedIsUsed /\ AccessGranted /\ InvitesEndWithPairing
  BY DEF PairedIsUsed, AccessGranted, InvitesEndWithPairing, OpenInvite, NoInvite
<1> QED
  BY <1>1, <1>3, <1>4 DEF StoreInv

(* Every statement of the web server, and the Core's death between two of
   them, keeps it. *)
LEMMA StoreInvStep == StoreInv /\ [StoreNext]_coreVars => StoreInv'
<1> SUFFICES ASSUME StoreInv, [StoreNext]_coreVars PROVE StoreInv'
  OBVIOUS
<1>1. StoreTypeOK'
  BY StoreTypeStep DEF StoreInv
<1> QED
  BY <1>1, PairingStep, EntryStep, AccessStep, InvitesStep DEF StoreInv, Countable, UsedOnce

(* Every reachable state of the tables satisfies it. *)
THEOREM StoreInvariance == StoreSpec => []StoreInv
  BY StoreInitInv, StoreInvStep, PTL DEF StoreSpec

(* A pairing code pairs one device, once, and an invitation admits its account
   once (store.js:175, store.js:229). *)
THEOREM UsedOnceHolds == StoreSpec => []UsedOnce
<1>1. StoreInv => UsedOnce
  BY DEF StoreInv
<1> QED
  BY <1>1, StoreInvariance, PTL

(* Whoever may use a device of another account was invited by its owner, in
   that role, and accepted, however often the device was revoked and paired
   again (store.js:243). *)
THEOREM AccessGrantedHolds == StoreSpec => []AccessGranted
<1>1. StoreInv => AccessGranted
  BY DEF StoreInv
<1> QED
  BY <1>1, StoreInvariance, PTL

(* An invitation does not outlive its pairing unless the Core died between
   the two commits of a revocation (store.js:147). *)
THEOREM InvitesEndHolds == StoreSpec => []InvitesEndWithPairing
<1>1. StoreInv => InvitesEndWithPairing
  BY DEF StoreInv
<1> QED
  BY <1>1, StoreInvariance, PTL
=============================================================================
