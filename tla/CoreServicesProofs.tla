------------------------- MODULE CoreServicesProofs -------------------------
(***************************************************************************)
(* Proofs about the parts of the Core that keep state of their own, for     *)
(* every value of the constants: the OAuth server, the task ledger and the  *)
(* planner, then all parts together.  DeviceStoreProofs and                 *)
(* UsageMeterProofs hold those of the other two.                            *)
(***************************************************************************)
EXTENDS MCCoreServices, DeviceStoreProofs, UsageMeterProofs

-----------------------------------------------------------------------------
(* OAuth, wherever the process dies between two statements.                 *)

(* Nothing was issued for a code before it was exchanged. *)
UnusedIsEmpty ==
    \A g \in Grants, i \in Issues : code[g] \in {"new", "open"} => grant[i] # g

OneLive ==
    \A i, j \in Issues :
        refresh[i] = "live" /\ refresh[j] = "live" /\ grant[i] = grant[j] => i = j

(* A pair that is still to be issued has no token and no authorization; any
   other was issued under one. *)
NewIsBlank ==
    \A i \in Issues :
        IF access[i] = "new" THEN refresh[i] = "new" /\ grant[i] = Nobody
        ELSE grant[i] \in Grants

BurntIsEmpty ==
    \A g \in misused : code[g] = "used" /\ \A i \in Issues : grant[i] # g

GrantInv == GrantTypeOK /\ UnusedIsEmpty /\ OneLive /\ NewIsBlank /\ BurntIsEmpty

(* Before the first authorization there is nothing to keep. *)
LEMMA GrantInitInv == GrantInit => GrantInv
  BY GrantsType DEF GrantInit, GrantInv, GrantTypeOK, UnusedIsEmpty, OneLive, NewIsBlank, BurntIsEmpty, Nobody

(* What issueTokens leaves behind, wherever the process died in it, when no
   other token of the authorization is live in the table it starts from. *)
LEMMA IssueStep ==
    ASSUME GrantInv, NEW g \in Grants, NEW j \in Issues,
           NEW before \in [Issues -> {"new", "live", "revoked", "expired"}],
           \A i \in Issues : before[i] = "live" => refresh[i] = "live" /\ grant[i] # g,
           \A i \in Issues : refresh[i] = "new" => before[i] = "new",
           IssueTokens(g, j, before)
    PROVE  /\ access' \in [Issues -> {"new", "live", "expired"}]
           /\ refresh' \in [Issues -> {"new", "live", "revoked", "expired"}]
           /\ grant' \in [Issues -> Grants \cup {Nobody}]
           /\ wallet' \in SUBSET (Grants \cup Issues)
           /\ OneLive' /\ NewIsBlank'
           /\ \A i \in Issues : grant'[i] = grant[i] \/ grant'[i] = g
<1> USE DEF GrantInv
<1>1. access[j] = "new" /\ refresh[j] = "new" /\ grant[j] = Nobody /\ before[j] = "new"
  BY DEF IssueTokens, NewIsBlank
<1>2. CASE refresh' = before /\ UNCHANGED <<access, grant, wallet>>
  BY <1>2 DEF GrantTypeOK, OneLive, NewIsBlank
<1>3. CASE /\ access' = [access EXCEPT ![j] = "live"]
           /\ grant' = [grant EXCEPT ![j] = g]
           /\ \/ refresh' = before /\ UNCHANGED wallet
              \/ refresh' = [before EXCEPT ![j] = "live"] /\ Tell({j})
  <2>1. /\ access' \in [Issues -> {"new", "live", "expired"}]
        /\ grant' \in [Issues -> Grants \cup {Nobody}]
        /\ refresh' \in [Issues -> {"new", "live", "revoked", "expired"}]
    BY <1>3 DEF GrantTypeOK
  <2>2. wallet' \in SUBSET (Grants \cup Issues)
    BY <1>3 DEF GrantTypeOK, Tell
  <2>3. \A i \in Issues : i # j =>
            /\ access'[i] = access[i] /\ grant'[i] = grant[i] /\ refresh'[i] = before[i]
    BY <1>3 DEF GrantTypeOK
  <2>4. access'[j] = "live" /\ grant'[j] = g
    BY <1>3 DEF GrantTypeOK
  <2>5. OneLive'
    BY <2>3, <2>4 DEF OneLive
  <2>6. NewIsBlank'
    BY <2>3, <2>4 DEF NewIsBlank
  <2> QED
    BY <2>1, <2>2, <2>3, <2>4, <2>5, <2>6
<1> QED
  BY <1>2, <1>3 DEF IssueTokens

(* A code is used up by the first who presents it, and by nobody else. *)
LEMMA ExchangeStep ==
    ASSUME GrantInv, NEW g \in Grants, NEW i \in Issues, NEW fits \in BOOLEAN,
           Exchange(g, i, fits)
    PROVE  GrantInv'
<1> USE DEF GrantInv
<1>1. code[g] = "open" /\ code' = [code EXCEPT ![g] = "used"]
  BY DEF Exchange, UnusedCode, ConsumeCode
<1>2. /\ code' \in [Grants -> {"new", "open", "used", "expired"}] /\ code'[g] = "used"
      /\ \A h \in Grants : h # g => code'[h] = code[h]
  BY <1>1 DEF GrantTypeOK
<1>3. \A k \in Issues : grant[k] # g
  BY <1>1 DEF UnusedIsEmpty
<1>4. g \notin misused
  BY <1>1 DEF BurntIsEmpty, GrantTypeOK
<1>5. CASE fits
  <2>1. IssueTokens(g, i, refresh) /\ misused' = misused
    BY <1>5 DEF Exchange
  <2>2. refresh \in [Issues -> {"new", "live", "revoked", "expired"}]
    BY DEF GrantTypeOK
  <2>3. /\ access' \in [Issues -> {"new", "live", "expired"}]
        /\ refresh' \in [Issues -> {"new", "live", "revoked", "expired"}]
        /\ grant' \in [Issues -> Grants \cup {Nobody}]
        /\ wallet' \in SUBSET (Grants \cup Issues)
        /\ OneLive' /\ NewIsBlank'
        /\ \A k \in Issues : grant'[k] = grant[k] \/ grant'[k] = g
    BY <1>3, <2>1, <2>2, IssueStep
  <2>4. UnusedIsEmpty'
    BY <1>2, <2>3 DEF UnusedIsEmpty
  <2>5. BurntIsEmpty'
    BY <1>2, <1>4, <2>1, <2>3 DEF BurntIsEmpty, GrantTypeOK
  <2> QED
    BY <1>2, <2>1, <2>3, <2>4, <2>5 DEF GrantTypeOK
<1>6. CASE ~fits
  <2>1. misused' = misused \cup {g} /\ UNCHANGED <<access, refresh, grant, wallet>>
    BY <1>6 DEF Exchange
  <2>2. GrantTypeOK'
    BY <1>2, <2>1 DEF GrantTypeOK
  <2>3. UnusedIsEmpty' /\ OneLive' /\ NewIsBlank'
    BY <1>2, <2>1 DEF UnusedIsEmpty, OneLive, NewIsBlank
  <2>4. BurntIsEmpty'
    BY <1>2, <1>3, <2>1 DEF BurntIsEmpty, GrantTypeOK
  <2> QED
    BY <2>2, <2>3, <2>4
<1> QED
  BY <1>5, <1>6

(* A token is revoked before the pair that takes its place is issued. *)
LEMMA RenewStep ==
    ASSUME GrantInv, NEW i \in Issues, NEW j \in Issues, Renew(i, j)
    PROVE  GrantInv'
<1> USE DEF GrantInv
<1>1. /\ refresh[i] = "live" /\ UNCHANGED <<code, misused>>
      /\ IssueTokens(grant[i], j, Revoked(i))
  BY DEF Renew
<1>0. grant[i] \in Grants
  BY <1>1 DEF NewIsBlank
<1>2. /\ Revoked(i) \in [Issues -> {"new", "live", "revoked", "expired"}]
      /\ Revoked(i)[i] = "revoked"
      /\ \A k \in Issues : k # i => Revoked(i)[k] = refresh[k]
  BY DEF Revoked, GrantTypeOK
<1>3. \A k \in Issues : Revoked(i)[k] = "live" => refresh[k] = "live" /\ grant[k] # grant[i]
  BY <1>1, <1>2 DEF OneLive
<1>4. \A k \in Issues : refresh[k] = "new" => Revoked(i)[k] = "new"
  BY <1>1, <1>2
<1>5. /\ access' \in [Issues -> {"new", "live", "expired"}]
      /\ refresh' \in [Issues -> {"new", "live", "revoked", "expired"}]
      /\ grant' \in [Issues -> Grants \cup {Nobody}]
      /\ wallet' \in SUBSET (Grants \cup Issues)
      /\ OneLive' /\ NewIsBlank'
      /\ \A k \in Issues : grant'[k] = grant[k] \/ grant'[k] = grant[i]
  BY <1>0, <1>1, <1>2, <1>3, <1>4, IssueStep
<1>6. UnusedIsEmpty' /\ BurntIsEmpty'
  BY <1>0, <1>1, <1>5 DEF UnusedIsEmpty, BurntIsEmpty
<1> QED
  BY <1>1, <1>5, <1>6 DEF GrantTypeOK

(* The clock runs out for a code, or for a pair: first the access token, then
   the refresh token. *)
LEMMA ExpireStep ==
    ASSUME GrantInv, NEW x \in Grants \cup Issues, Expire(x)
    PROVE  GrantInv'
<1> USE DEF GrantInv
<1>1. UNCHANGED <<grant, wallet, misused>>
  BY DEF Expire
<1>2. CASE /\ x \in Grants /\ code[x] = "open"
           /\ code' = [code EXCEPT ![x] = "expired"] /\ UNCHANGED <<access, refresh>>
  BY <1>1, <1>2 DEF GrantTypeOK, UnusedIsEmpty, OneLive, NewIsBlank, BurntIsEmpty
<1>3. CASE /\ x \in Issues /\ access[x] = "live"
           /\ access' = [access EXCEPT ![x] = "expired"] /\ UNCHANGED <<code, refresh>>
  BY <1>1, <1>3 DEF GrantTypeOK, UnusedIsEmpty, OneLive, NewIsBlank, BurntIsEmpty
<1>4. CASE /\ x \in Issues /\ access[x] = "expired" /\ refresh[x] = "live"
           /\ refresh' = [refresh EXCEPT ![x] = "expired"] /\ UNCHANGED <<code, access>>
  BY <1>1, <1>4 DEF GrantTypeOK, UnusedIsEmpty, OneLive, NewIsBlank, BurntIsEmpty
<1> QED
  BY <1>2, <1>3, <1>4 DEF Expire

(* Every request, wherever the process dies in it, keeps the invariant. *)
LEMMA GrantStepInv == GrantInv /\ [GrantNext]_grantVars => GrantInv'
<1> SUFFICES ASSUME GrantInv, [GrantNext]_grantVars PROVE GrantInv'
  OBVIOUS
<1>1. ASSUME NEW g \in Grants, Authorize(g) PROVE GrantInv'
  <2>1. /\ code[g] = "new" /\ code' = [code EXCEPT ![g] = "open"] /\ Tell({g})
        /\ UNCHANGED <<access, refresh, grant, misused>>
    BY <1>1 DEF Authorize
  <2>2. GrantTypeOK'
    BY <2>1 DEF GrantInv, GrantTypeOK, Tell
  <2> QED
    BY <2>1, <2>2 DEF GrantInv, GrantTypeOK, UnusedIsEmpty, OneLive, NewIsBlank, BurntIsEmpty
<1>2. CASE UNCHANGED grantVars
  BY <1>2 DEF grantVars, GrantInv, GrantTypeOK, UnusedIsEmpty, OneLive, NewIsBlank, BurntIsEmpty
<1> QED
  BY <1>1, <1>2, ExchangeStep, RenewStep, ExpireStep DEF GrantNext

(* Every reachable state satisfies it. *)
LEMMA GrantInvariance == GrantSpec => []GrantInv
  BY GrantInitInv, GrantStepInv, PTL DEF GrantSpec

(* The tables of the OAuth server keep their types. *)
THEOREM GrantTypes == GrantSpec => []GrantTypeOK
<1>1. GrantInv => GrantTypeOK
  BY DEF GrantInv
<1> QED
  BY <1>1, GrantInvariance, PTL

(* One refresh token at most renews an authorization, and none does while its
   code is open or after the code was presented wrongly (oauth.js:62-67,
   oauth.js:81), wherever the process died. *)
THEOREM GrantOneRenewal == GrantSpec => []OneRenewal
<1>1. GrantInv => OneRenewal
  BY DEF GrantInv, OneRenewal, OneLive, UnusedIsEmpty, BurntIsEmpty, Pairs
<1> QED
  BY <1>1, GrantInvariance, PTL

-----------------------------------------------------------------------------
(* The server implements the baton of GrantChain.                          *)

(* What renews a grant: the open code, the live refresh token, or nothing. *)
Renews(x, g) ==
    \/ code[g] = "open" /\ x = g
    \/ code[g] # "open" /\ x \in Pairs(g) /\ refresh[x] = "live"
    \/ code[g] # "open" /\ x = Nobody /\ \A i \in Pairs(g) : refresh[i] # "live"

(* A step that gives the baton of grant g to a credential that is neither
   spent nor held, or drops it. *)
Passes(g, x) ==
    /\ Holder(g) # Nobody /\ Spent' = Spent \cup {Holder(g)}
    /\ Holder(g)' = x /\ \A h \in Grants : h # g => Holder(h)' = Holder(h)
    /\ \/ x = Nobody
       \/ x \in (Grants \cup Issues) \ Spent /\ \A h \in Grants : Holder(h) # x

(* Such a step is one of GrantChain. *)
LEMMA PassesStep ==
    ASSUME NEW g \in Grants, NEW x, Passes(g, x)
    PROVE  Chain!Next
<1>1. Holders' = [Holders EXCEPT ![g] = x] /\ Holders[g] = Holder(g)
  BY DEF Passes, Holders
<1>2. CASE x = Nobody
  BY <1>1, <1>2 DEF Passes, Chain!Next, Chain!Drop
<1>3. CASE x \in (Grants \cup Issues) \ Spent /\ \A h \in Grants : Holder(h) # x
  <2>1. x \notin Chain!Held
    BY <1>3 DEF Chain!Held, Holders
  <2>2. Chain!HandOn(g)
    BY <1>1, <1>3, <2>1 DEF Passes, Chain!HandOn, Chain!Give
  <2> QED
    BY <2>2 DEF Chain!Next
<1> QED
  BY <1>2, <1>3 DEF Passes

(* Under the invariant exactly one thing renews a grant. *)
LEMMA RenewerIsHolder ==
    ASSUME GrantInv, NEW g \in Grants
    PROVE  /\ Renews(Holder(g), g)
           /\ \A x : Renews(x, g) => Holder(g) = x
<1>1. CASE code[g] = "open"
  BY <1>1 DEF Renews, Holder
<1>2. CASE code[g] # "open" /\ \E i \in Pairs(g) : refresh[i] = "live"
  <2>1. Holder(g) \in Pairs(g) /\ refresh[Holder(g)] = "live"
    BY <1>2 DEF Holder
  <2> QED
    BY <1>2, <2>1 DEF Renews, Pairs, GrantInv, OneLive
<1>3. CASE code[g] # "open" /\ \A i \in Pairs(g) : refresh[i] # "live"
  BY <1>3 DEF Renews, Holder
<1> QED
  BY <1>1, <1>2, <1>3

(* Every step of the server hands the baton on, drops it, begins a new one,
   or leaves every baton where it is. *)
LEMMA ChainStep ==
    ASSUME GrantInv, GrantInv', [GrantNext]_grantVars
    PROVE  [Chain!Next]_(Chain!vars)
<1> USE GrantsType
<1>1. ASSUME NEW g \in Grants
      PROVE  Renews(Holder(g), g) /\ \A x : Renews(x, g) => Holder(g) = x
  BY <1>1, RenewerIsHolder
(* the same in the next state *)
<1>2. ASSUME NEW g \in Grants, NEW x, Renews(x, g)' PROVE Holder(g)' = x
  <2>1. CASE code'[g] = "open"
    BY <1>2, <2>1 DEF Renews, Holder
  <2>2. CASE code'[g] # "open" /\ x \in Pairs(g)' /\ refresh'[x] = "live"
    <3>1. Holder(g)' = CHOOSE i \in Pairs(g)' : refresh'[i] = "live"
      BY <2>2 DEF Holder
    <3>2. Holder(g)' \in Pairs(g)' /\ refresh'[Holder(g)'] = "live"
      BY <2>2, <3>1
    <3> QED
      BY <2>2, <3>2 DEF Pairs, GrantInv, OneLive
  <2>3. CASE code'[g] # "open" /\ x = Nobody /\ \A i \in Pairs(g)' : refresh'[i] # "live"
    BY <2>3 DEF Holder
  <2> QED
    BY <1>2, <2>1, <2>2, <2>3 DEF Renews
(* a grant of which nothing changes keeps what renews it *)
<1>3. ASSUME NEW h \in Grants, code'[h] = "open" <=> code[h] = "open",
             code[h] # "open" => \A i \in Issues :
                 grant'[i] = h /\ refresh'[i] = "live" <=> grant[i] = h /\ refresh[i] = "live"
      PROVE  Holder(h)' = Holder(h)
  <2>1. PICK x : x = Holder(h) /\ Renews(x, h)
    BY <1>1, <1>3
  <2>2. Renews(x, h)'
    BY <1>3, <2>1 DEF Renews, Pairs
  <2> QED
    BY <1>2, <1>3, <2>1, <2>2
<1>4. GrantTypeOK /\ UnusedIsEmpty /\ OneLive /\ NewIsBlank
      /\ GrantTypeOK' /\ UnusedIsEmpty' /\ OneLive' /\ NewIsBlank'
  BY DEF GrantInv
(* a pair that is still to be issued is neither spent nor held *)
<1>5. ASSUME NEW j \in Issues, access[j] = "new"
      PROVE  j \in (Grants \cup Issues) \ Spent /\ \A h \in Grants : Holder(h) # j
  <2>1. refresh[j] = "new" /\ grant[j] = Nobody
    BY <1>4, <1>5 DEF NewIsBlank
  <2> QED
    BY <1>1, <2>1 DEF Renews, Pairs, Spent
(* issueTokens for a grant whose baton was just laid down *)
<1>6. ASSUME NEW g \in Grants, NEW j \in Issues, NEW before,
             IssueTokens(g, j, before), code'[g] # "open",
             before \in [Issues -> {"new", "live", "revoked", "expired"}],
             Holder(g) # Nobody, Spent' = Spent \cup {Holder(g)},
             \A h \in Grants : h # g => code'[h] = code[h],
             \A i \in Issues : before[i] = "live" => grant[i] # g,
             \A i \in Issues : before[i] = "live" <=> refresh[i] = "live" /\ grant[i] # g
      PROVE  Chain!Next
  <2>1. access[j] = "new" /\ grant[j] = Nobody /\ refresh[j] = "new" /\ before[j] # "live"
    BY <1>4, <1>6 DEF IssueTokens, NewIsBlank
  <2>2. \/ refresh' = before /\ grant' = grant
        \/ refresh' = before /\ grant' = [grant EXCEPT ![j] = g]
        \/ refresh' = [before EXCEPT ![j] = "live"] /\ grant' = [grant EXCEPT ![j] = g]
    BY <1>6 DEF IssueTokens
  <2>3. ASSUME NEW h \in Grants, h # g PROVE Holder(h)' = Holder(h)
    <3>1. \A i \in Issues :
              grant'[i] = h /\ refresh'[i] = "live" <=> grant[i] = h /\ refresh[i] = "live"
      BY <1>4, <1>6, <2>1, <2>2, <2>3 DEF GrantTypeOK
    <3> QED
      BY <1>3, <1>6, <2>3, <3>1
  <2>4. CASE refresh' = before
    <3>1. \A i \in Issues : grant'[i] = g => refresh'[i] # "live"
      BY <1>4, <1>6, <2>1, <2>2, <2>4 DEF GrantTypeOK
    <3>2. Renews(Nobody, g)'
      BY <1>6, <3>1 DEF Renews, Pairs
    <3>3. Holder(g)' = Nobody
      BY <1>2, <3>2
    <3>4. Passes(g, Nobody)
      BY <1>6, <2>3, <3>3 DEF Passes
    <3> QED
      BY <3>4, PassesStep
  <2>5. CASE refresh' = [before EXCEPT ![j] = "live"] /\ grant' = [grant EXCEPT ![j] = g]
    <3>1. Renews(j, g)'
      BY <1>4, <1>6, <2>5 DEF Renews, Pairs, GrantTypeOK
    <3>2. Holder(g)' = j
      BY <1>2, <3>1
    <3>3. Passes(g, j)
      BY <1>5, <1>6, <2>1, <2>3, <3>2 DEF Passes
    <3> QED
      BY <3>3, PassesStep
  <2> QED
    BY <2>2, <2>4, <2>5
(* a grant whose baton is laid down and not picked up *)
<1>7. ASSUME NEW g \in Grants, Holder(g) # Nobody, Renews(Nobody, g)',
             Spent' = Spent \cup {Holder(g)},
             \A h \in Grants : h # g => Holder(h)' = Holder(h)
      PROVE  Chain!Next
  <2>1. Passes(g, Nobody)
    BY <1>2, <1>7 DEF Passes
  <2> QED
    BY <2>1, PassesStep
<1>8. ASSUME NEW g \in Grants, Authorize(g) PROVE Chain!Next
  <2>1. /\ code[g] = "new" /\ code' = [code EXCEPT ![g] = "open"]
        /\ UNCHANGED <<access, refresh, grant, misused>>
    BY <1>8 DEF Authorize
  <2>2. Holder(g) = Nobody
    <3>1. Renews(Nobody, g)
      BY <1>4, <2>1 DEF Renews, Pairs, UnusedIsEmpty
    <3> QED
      BY <1>1, <3>1
  <2>3. Holder(g)' = g
    <3>1. Renews(g, g)'
      BY <1>4, <2>1 DEF Renews, GrantTypeOK
    <3> QED
      BY <1>2, <3>1
  <2>4. \A h \in Grants : h # g => Holder(h)' = Holder(h)
    BY <1>3, <1>4, <2>1 DEF GrantTypeOK
  <2>5. Spent' = Spent /\ g \notin Spent
    BY <1>4, <2>1 DEF Spent, GrantTypeOK
  <2>6. \A h \in Grants : Holder(h) # g
    BY <1>1, <2>1, <2>2 DEF Renews, Pairs
  <2>7. Chain!Begin(g)
    BY <2>2, <2>3, <2>4, <2>5, <2>6 DEF Chain!Begin, Chain!Give, Chain!Held, Holders
  <2> QED
    BY <2>7 DEF Chain!Next
<1>9. ASSUME NEW g \in Grants, NEW i \in Issues, NEW fits \in BOOLEAN, Exchange(g, i, fits)
      PROVE  Chain!Next
  <2>1. code[g] = "open" /\ code' = [code EXCEPT ![g] = "used"]
    BY <1>9 DEF Exchange, UnusedCode, ConsumeCode
  <2>2. Holder(g) = g /\ g # Nobody
    BY <2>1 DEF Holder
  <2>3. /\ code'[g] = "used" /\ \A h \in Grants : h # g => code'[h] = code[h]
        /\ \A k \in Issues : grant[k] # g
    BY <1>4, <2>1 DEF GrantTypeOK, UnusedIsEmpty
  <2>4. CASE fits
    <3>1. IssueTokens(g, i, refresh)
      BY <1>9, <2>4 DEF Exchange
    <3>2. \A k \in Issues : refresh'[k] \in {"revoked", "expired"} <=> refresh[k] \in {"revoked", "expired"}
      <4>1. refresh[i] = "new"
        BY <1>4, <3>1 DEF IssueTokens, NewIsBlank
      <4> QED
        BY <1>4, <3>1, <4>1 DEF IssueTokens, GrantTypeOK
    <3>3. Spent' = Spent \cup {g}
      BY <2>1, <2>3, <3>2 DEF Spent
    <3> QED
      BY <1>4, <1>6, <2>2, <2>3, <3>1, <3>3 DEF GrantTypeOK
  <2>5. CASE ~fits
    <3>1. UNCHANGED <<access, refresh, grant>>
      BY <1>9, <2>5 DEF Exchange
    <3>2. Renews(Nobody, g)'
      BY <2>3, <3>1 DEF Renews, Pairs
    <3>3. Spent' = Spent \cup {g}
      BY <2>1, <2>3, <3>1 DEF Spent
    <3>4. \A h \in Grants : h # g => Holder(h)' = Holder(h)
      BY <1>3, <2>3, <3>1
    <3> QED
      BY <1>7, <2>2, <3>2, <3>3, <3>4
  <2> QED
    BY <2>4, <2>5
<1>10. ASSUME NEW i \in Issues, NEW j \in Issues, Renew(i, j) PROVE Chain!Next
  <2> DEFINE g == grant[i]
  <2>1. refresh[i] = "live" /\ IssueTokens(g, j, Revoked(i)) /\ code' = code
    BY <1>10 DEF Renew
  <2>2. g \in Grants /\ code[g] # "open"
    BY <1>4, <2>1 DEF NewIsBlank, UnusedIsEmpty
  <2>3. Holder(g) = i /\ i # Nobody
    <3>1. Renews(i, g)
      BY <2>1, <2>2 DEF Renews, Pairs
    <3> QED
      BY <1>1, <2>2, <3>1
  <2>4. /\ Revoked(i) \in [Issues -> {"new", "live", "revoked", "expired"}]
        /\ Revoked(i)[i] = "revoked"
        /\ \A k \in Issues : k # i => Revoked(i)[k] = refresh[k]
    BY <1>4 DEF Revoked, GrantTypeOK
  <2>5. \A k \in Issues : Revoked(i)[k] = "live" <=> refresh[k] = "live" /\ grant[k] # g
    BY <1>4, <2>1, <2>4 DEF OneLive
  <2>6. Spent' = Spent \cup {i}
    <3>1. refresh[j] = "new" /\ j # i
      BY <1>4, <2>1 DEF IssueTokens, NewIsBlank
    <3>2. \A k \in Issues : k # j => refresh'[k] = Revoked(i)[k]
      BY <2>1, <2>4 DEF IssueTokens
    <3>3. refresh'[j] \in {"new", "live"}
      BY <2>1, <2>4, <3>1 DEF IssueTokens
    <3> QED
      BY <2>1, <2>4, <3>1, <3>2, <3>3 DEF Spent
  <2> HIDE DEF g
  <2> QED
    BY <1>6, <2>1, <2>2, <2>3, <2>4, <2>5, <2>6
<1>11. ASSUME NEW x \in Grants \cup Issues, Expire(x) PROVE Chain!Next \/ UNCHANGED Chain!vars
  <2>1. CASE /\ x \in Grants /\ code[x] = "open"
             /\ code' = [code EXCEPT ![x] = "expired"] /\ UNCHANGED <<access, refresh>>
    <3>1. grant' = grant
      BY <1>11 DEF Expire
    <3>2. Holder(x) = x /\ x # Nobody
      BY <2>1 DEF Holder
    <3>3. /\ code'[x] = "expired" /\ \A h \in Grants : h # x => code'[h] = code[h]
          /\ \A k \in Issues : grant[k] # x
      BY <1>4, <2>1 DEF GrantTypeOK, UnusedIsEmpty
    <3>4. Renews(Nobody, x)'
      BY <2>1, <3>1, <3>3 DEF Renews, Pairs
    <3>5. Spent' = Spent \cup {x}
      BY <2>1, <3>3 DEF Spent
    <3>6. \A h \in Grants : h # x => Holder(h)' = Holder(h)
      BY <1>3, <2>1, <3>1, <3>3
    <3> QED
      BY <1>7, <2>1, <3>2, <3>4, <3>5, <3>6
  <2>2. CASE UNCHANGED <<code, refresh>>
    <3>1. grant' = grant
      BY <1>11 DEF Expire
    <3>2. \A h \in Grants : Holder(h)' = Holder(h)
      BY <1>3, <2>2, <3>1
    <3> QED
      BY <2>2, <3>2 DEF Chain!vars, Holders, Spent
  <2>3. CASE /\ x \in Issues /\ refresh[x] = "live"
             /\ refresh' = [refresh EXCEPT ![x] = "expired"] /\ UNCHANGED <<code, access>>
    <3>1. grant' = grant
      BY <1>11 DEF Expire
    <3>2. PICK g \in Grants : g = grant[x] /\ code[g] # "open"
      BY <1>4, <2>3 DEF NewIsBlank, UnusedIsEmpty
    <3>3. Holder(g) = x /\ x # Nobody
      <4>1. Renews(x, g)
        BY <2>3, <3>2 DEF Renews, Pairs
      <4> QED
        BY <1>1, <2>3, <3>2, <4>1
    <3>4. refresh'[x] = "expired" /\ \A k \in Issues : k # x => refresh'[k] = refresh[k]
      BY <1>4, <2>3 DEF GrantTypeOK
    <3>5. Renews(Nobody, g)'
      BY <1>4, <2>3, <3>1, <3>2, <3>4 DEF Renews, Pairs, OneLive
    <3>6. Spent' = Spent \cup {x}
      BY <2>3, <3>4 DEF Spent
    <3>7. \A h \in Grants : h # g => Holder(h)' = Holder(h)
      BY <1>3, <2>3, <3>1, <3>2, <3>4
    <3> QED
      BY <1>7, <3>2, <3>3, <3>5, <3>6, <3>7
  <2> QED
    BY <1>11, <2>1, <2>2, <2>3 DEF Expire
<1>12. CASE UNCHANGED grantVars
  <2>1. \A h \in Grants : Holder(h)' = Holder(h)
    BY <1>3, <1>12 DEF grantVars
  <2> QED
    BY <1>12, <2>1 DEF Chain!vars, Holders, Spent, grantVars
<1> QED
  BY <1>8, <1>9, <1>10, <1>11, <1>12 DEF GrantNext

(* What renews an authorization is handed on from the code to one refresh
   token after the other or dropped, is never in two hands and never comes
   back, wherever the process died: the OAuth server implements GrantChain. *)
THEOREM GrantChainImplemented == GrantSpec => ImplementsChain
<1>1. GrantInit => Chain!Init
  <2> SUFFICES ASSUME GrantInit PROVE Chain!Init
    OBVIOUS
  <2>1. ASSUME NEW g \in Grants PROVE Holder(g) = Nobody
    BY <2>1, GrantsType DEF GrantInit, Holder, Pairs
  <2> QED
    BY <2>1 DEF GrantInit, Chain!Init, Holders, Spent
<1>2. GrantInv /\ GrantInv' /\ [GrantNext]_grantVars => [Chain!Next]_(Chain!vars)
  BY ChainStep
<1> QED
  BY <1>1, <1>2, GrantInvariance, PTL DEF GrantSpec, ImplementsChain, Chain!Spec

-----------------------------------------------------------------------------
(* The task ledger.  What a conversation read is what the checkpoint held   *)
(* at that revision; the revision is therefore enough to tell whether a     *)
(* save would drop anything, and whether it was carried out before.         *)

Live(s) == sent[s] # NoCall

(* What was read at the present revision is what the checkpoint holds. *)
ReadsAreExact ==
    \A s \in Savers :
        /\ read[s].revision <= row.revision
        /\ read[s].revision = row.revision => read[s].done = row.done

(* A request that would be accepted adds its own progress and no more. *)
CallsAreExact ==
    \A s \in Savers : Live(s) =>
        /\ sent[s].id \in Requests \ fresh
        /\ sent[s].expected <= row.revision
        /\ sent[s].expected = row.revision =>
               sent[s].done = row.done \cup {sent[s].id} /\ sent[s].id \notin row.done

OwnRequests ==
    \A s, t \in Savers : Live(s) /\ Live(t) /\ sent[s].id = sent[t].id => s = t

LedgerInv ==
    /\ LedgerTypeOK /\ ReadsAreExact /\ CallsAreExact /\ OwnRequests
    /\ fresh \cap row.done = {}
    /\ SavedOnce

LEMMA LedgerInitInv == LedgerInit => LedgerInv
  BY DEF LedgerInit, LedgerInv, LedgerTypeOK, NoRow, NoCall, ReadsAreExact, CallsAreExact, OwnRequests,
         Live, SavedOnce

(* The step that matters: a save carried out, answered or not. *)
LEMMA SaveStep ==
    ASSUME LedgerInv, NEW s \in Savers, Save(s)
    PROVE  LedgerInv'
<1> DEFINE c == sent[s]
<1> USE DEF LedgerInv
<1>1. /\ c.id \in Requests /\ c.id \notin fresh /\ c.id \notin row.done
      /\ c.expected = row.revision /\ c.done = row.done \cup {c.id}
      /\ row.revision \in Nat /\ row.done \in SUBSET Requests
      /\ c.device \in Devices \cup {Nothing} /\ c.done \in SUBSET Requests
  BY DEF Save, Accepts, Current, CallsAreExact, Live, LedgerTypeOK
<1>2. /\ row'.revision = row.revision + 1 /\ row'.done = row.done \cup {c.id}
      /\ row' \in [revision : Nat, device : Devices \cup {Nothing}, done : SUBSET Requests]
  BY <1>1 DEF Save
<1>3. saves' = [saves EXCEPT ![c.id] = @ + 1] /\ UNCHANGED <<operator, fresh>>
  BY DEF Save
<1>4. \/ /\ sent' = [sent EXCEPT ![s] = NoCall]
         /\ read' = [read EXCEPT ![s] = [revision |-> row'.revision, done |-> row'.done]]
      \/ UNCHANGED <<sent, read>>
  BY DEF Save
<1>5. LedgerTypeOK'
  <2>1. saves' \in [Requests -> Nat]
    BY <1>1, <1>3 DEF LedgerTypeOK
  <2>2. /\ sent' \in [Savers -> [id : Requests \cup {Nothing}, expected : Nat,
                                device : Devices \cup {Nothing}, done : SUBSET Requests]]
        /\ read' \in [Savers -> [revision : Nat, done : SUBSET Requests]]
    BY <1>2, <1>4 DEF LedgerTypeOK, NoCall
  <2> QED
    BY <1>2, <1>3, <2>1, <2>2 DEF LedgerTypeOK
<1>6. ReadsAreExact'
  <2> SUFFICES ASSUME NEW t \in Savers
               PROVE  /\ read'[t].revision <= row'.revision
                      /\ read'[t].revision = row'.revision => read'[t].done = row'.done
    BY DEF ReadsAreExact
  <2>1. \/ read'[t] = read[t]
        \/ read'[t] = [revision |-> row'.revision, done |-> row'.done]
    BY <1>4 DEF LedgerTypeOK
  <2>2. read[t].revision \in Nat /\ read[t].revision <= row.revision
    BY DEF LedgerTypeOK, ReadsAreExact
  <2> QED
    BY <1>1, <1>2, <2>1, <2>2
<1>7. \A t \in Savers : sent'[t] = sent[t] \/ sent'[t] = NoCall
  BY <1>4 DEF LedgerTypeOK
<1>8. CallsAreExact'
  <2> SUFFICES ASSUME NEW t \in Savers, sent'[t] # NoCall
               PROVE  /\ sent'[t].id \in Requests \ fresh'
                      /\ sent'[t].expected <= row'.revision
                      /\ sent'[t].expected # row'.revision
    BY DEF CallsAreExact, Live, NoCall
  <2>1. sent'[t] = sent[t] /\ sent[t].expected \in Nat
    BY <1>7 DEF LedgerTypeOK
  <2>2. sent[t].id \in Requests \ fresh /\ sent[t].expected <= row.revision
    BY <2>1 DEF CallsAreExact, Live
  <2> QED
    BY <1>1, <1>2, <1>3, <2>1, <2>2
<1>9. OwnRequests'
  BY <1>7 DEF OwnRequests, Live, NoCall
<1>10. (fresh \cap row.done = {})'
  BY <1>1, <1>2, <1>3
<1>11. SavedOnce'
  <2> SUFFICES ASSUME NEW q \in Requests
               PROVE  saves'[q] = IF q \in row'.done THEN 1 ELSE 0
    BY DEF SavedOnce
  <2>1. saves[q] = IF q \in row.done THEN 1 ELSE 0
    BY DEF SavedOnce
  <2> QED
    BY <1>1, <1>2, <1>3, <2>1 DEF LedgerTypeOK
<1> QED
  BY <1>5, <1>6, <1>8, <1>9, <1>10, <1>11

(* A new request is made from what was read, whenever that was. *)
LEMMA CallStep ==
    ASSUME LedgerInv, NEW s \in Savers, NEW q \in Requests, NEW d \in Devices, Call(s, q, d)
    PROVE  LedgerInv'
<1> USE DEF LedgerInv
<1> DEFINE new == [id |-> q, expected |-> read[s].revision, device |-> d,
                   done |-> read[s].done \cup {q}]
<1>1. /\ q \in fresh /\ fresh' = fresh \ {q} /\ sent' = [sent EXCEPT ![s] = new]
      /\ UNCHANGED <<row, operator, read, saves>>
  BY DEF Call
<1>2. LedgerTypeOK'
  BY <1>1 DEF LedgerTypeOK
<1>3. ReadsAreExact' /\ SavedOnce' /\ (fresh \cap row.done = {})'
  BY <1>1 DEF ReadsAreExact, SavedOnce
<1>4. /\ sent'[s] = new
      /\ \A t \in Savers : t # s => sent'[t] = sent[t]
  BY <1>1 DEF LedgerTypeOK
<1>5. CallsAreExact'
  <2> SUFFICES ASSUME NEW t \in Savers, sent'[t] # NoCall
               PROVE  /\ sent'[t].id \in Requests \ fresh'
                      /\ sent'[t].expected <= row.revision
                      /\ sent'[t].expected = row.revision =>
                             /\ sent'[t].done = row.done \cup {sent'[t].id}
                             /\ sent'[t].id \notin row.done
    BY <1>1 DEF CallsAreExact, Live, NoCall
  <2>1. CASE t = s
    <3>1. sent'[t].id = q /\ sent'[t].expected = read[s].revision
          /\ sent'[t].done = read[s].done \cup {q}
      BY <1>4, <2>1
    <3>2. read[s].revision <= row.revision
          /\ (read[s].revision = row.revision => read[s].done = row.done)
      BY DEF ReadsAreExact
    <3> QED
      BY <1>1, <3>1, <3>2
  <2>2. CASE t # s
    BY <1>1, <1>4, <2>2 DEF CallsAreExact, Live
  <2> QED
    BY <2>1, <2>2
<1>6. OwnRequests'
  <2> SUFFICES ASSUME NEW t \in Savers, NEW u \in Savers, sent'[t] # NoCall, sent'[u] # NoCall,
                      sent'[t].id = sent'[u].id
               PROVE  t = u
    BY DEF OwnRequests, Live, NoCall
  <2>1. \A v \in Savers : v # s /\ sent'[v] # NoCall => sent'[v] = sent[v] /\ sent'[v].id # q
    BY <1>1, <1>4 DEF CallsAreExact, Live
  <2>2. sent'[s].id = q
    BY <1>4
  <2> QED
    BY <2>1, <2>2 DEF OwnRequests, Live
<1> QED
  BY <1>2, <1>3, <1>5, <1>6

(* A call that is over leaves the checkpoint as it is. *)
LEMMA EndStep ==
    ASSUME LedgerInv, NEW s \in Savers, Refuse(s) \/ GiveUp(s)
    PROVE  LedgerInv'
<1> USE DEF LedgerInv
<1>1. sent' = [sent EXCEPT ![s] = NoCall] /\ UNCHANGED <<row, operator, read, fresh, saves>>
  BY DEF Refuse, GiveUp
<1>2. LedgerTypeOK'
  BY <1>1 DEF LedgerTypeOK, NoCall
<1>3. \A t \in Savers : sent'[t] = sent[t] \/ sent'[t] = NoCall
  BY <1>1 DEF LedgerTypeOK
<1>4. CallsAreExact' /\ OwnRequests'
  BY <1>1, <1>3 DEF CallsAreExact, OwnRequests, Live, NoCall
<1> QED
  BY <1>1, <1>2, <1>4 DEF ReadsAreExact, SavedOnce

LEMMA LedgerStepInv == LedgerInv /\ [LedgerNext]_ledgerVars => LedgerInv'
<1> SUFFICES ASSUME LedgerInv, [LedgerNext]_ledgerVars PROVE LedgerInv'
  OBVIOUS
<1>1. ASSUME NEW s \in Savers, Get(s) PROVE LedgerInv'
  <2>1. /\ read' = [read EXCEPT ![s] = [revision |-> row.revision, done |-> row.done]]
        /\ UNCHANGED <<row, operator, sent, fresh, saves>>
    BY <1>1 DEF Get
  <2>2. LedgerTypeOK'
    BY <2>1 DEF LedgerInv, LedgerTypeOK
  <2>3. \A t \in Savers : \/ read'[t] = read[t]
                          \/ read'[t] = [revision |-> row.revision, done |-> row.done]
    BY <2>1 DEF LedgerInv, LedgerTypeOK
  <2>4. ReadsAreExact'
    BY <2>1, <2>3 DEF LedgerInv, LedgerTypeOK, ReadsAreExact
  <2>5. CallsAreExact' /\ OwnRequests'
    BY <2>1 DEF LedgerInv, CallsAreExact, OwnRequests, Live, NoCall
  <2> QED
    BY <2>1, <2>2, <2>4, <2>5 DEF LedgerInv, SavedOnce
<1>2. ASSUME NEW d \in Devices, ChangeAccess(d) PROVE LedgerInv'
  BY <1>2 DEF ChangeAccess, LedgerInv, LedgerTypeOK, ReadsAreExact, CallsAreExact, OwnRequests, Live,
              NoCall, SavedOnce
<1>3. CASE UNCHANGED ledgerVars
  BY <1>3 DEF ledgerVars, LedgerInv, LedgerTypeOK, ReadsAreExact, CallsAreExact, OwnRequests, Live, NoCall,
              SavedOnce
<1> QED
  BY <1>1, <1>2, <1>3, SaveStep, CallStep, EndStep DEF LedgerNext

LEMMA LedgerInvariance == LedgerSpec => []LedgerInv
  BY LedgerInitInv, LedgerStepInv, PTL DEF LedgerSpec

(* The types of the ledger, for every number of revisions. *)
THEOREM LedgerTypes == LedgerSpec => []LedgerTypeOK
<1>1. LedgerInv => LedgerTypeOK
  BY DEF LedgerInv
<1> QED
  BY <1>1, LedgerInvariance, PTL

(* A save that is sent again after its answer was lost is carried out once,
   however often it is sent and whoever saved in between, and no later save
   drops it (task-ledger.js:34), for any number of conversations. *)
THEOREM LedgerSavedOnce == LedgerSpec => []SavedOnce
<1>1. LedgerInv => SavedOnce
  BY DEF LedgerInv
<1> QED
  BY <1>1, LedgerInvariance, PTL

-----------------------------------------------------------------------------
(* The planner.  A plan is made of the facts of one call, each of which the *)
(* device gave in one of the states it was in meanwhile.                    *)

Plans == {NoPlan} \cup {Wait(r) : r \in Waits} \cup {Go(r) : r \in Screen \cup Behind}

(* What chooseRoute returns, and what it calls ready only with. *)
LEMMA BackgroundReturns ==
    ASSUME NEW kind \in Alternates, NEW start \in BOOLEAN, NEW F \in SUBSET Facts
    PROVE  LET p == Background(kind, start, F) IN
           /\ p \in {Wait(r) : r \in Waits} \cup {Go(r) : r \in Behind}
           /\ p.ready /\ p.route = "browser.cdp" => "running" \in F
<1>1. CASE kind \in Direct /\ "direct" \in F
  BY <1>1 DEF Background, Direct, Wait, Go, Behind, Waits
<1>2. CASE kind \in Direct /\ "direct" \notin F
  BY <1>2 DEF Background, Direct, Wait, Go, Behind, Waits
<1>3. CASE kind = "browser" /\ "running" \in F
  BY <1>3 DEF Background, Direct, Wait, Go, Behind, Waits
<1>4. CASE kind = "browser" /\ "running" \notin F
  BY <1>4 DEF Background, Direct, Wait, Go, Behind, Waits
<1> QED
  BY <1>1, <1>2, <1>3, <1>4 DEF Alternates

LEMMA NotOnScreen ==
    ASSUME NEW p \in {Wait(r) : r \in Waits} \cup {Go(r) : r \in Behind}
    PROVE  /\ p \in {Wait(r) : r \in Waits} \cup {Go(r) : r \in Screen \cup Behind}
           /\ p.ready => p.route \notin Screen
  BY DEF Wait, Go, Screen, Behind

LEMMA RouteReturns ==
    ASSUME NEW t \in Tasks, NEW F \in SUBSET Facts
    PROVE  LET p == ChooseRoute(t, F) IN
           /\ p \in {Wait(r) : r \in Waits} \cup {Go(r) : r \in Screen \cup Behind}
           /\ p.ready /\ t.admin => "elevated" \in F
           /\ p.ready /\ p.route \in Screen => Unlocked(F) /\ "approvalPending" \notin F
           /\ p.ready /\ p.route = "browser.cdp" => "running" \in F
<1> DEFINE p == ChooseRoute(t, F)
<1>1. /\ t.kind \in Alternates \cup {"desktop"} /\ t.start \in BOOLEAN
      /\ t.alternate \in Alternates \cup {"none"}
  BY DEF Tasks, Direct, Alternates
<1>2. CASE t.kind = "desktop" /\ "approvalPending" \in F
  BY <1>2 DEF ChooseRoute, Wait, Waits
<1>3. CASE /\ ~(t.kind = "desktop" /\ "approvalPending" \in F)
           /\ t.admin /\ "elevated" \notin F
  BY <1>3 DEF ChooseRoute, Wait, Waits
<1>4. CASE /\ ~(t.admin /\ "elevated" \notin F) /\ t.kind # "desktop"
  <2>1. p = Background(t.kind, t.start, F)
    BY <1>4 DEF ChooseRoute
  <2>2. /\ p \in {Wait(r) : r \in Waits} \cup {Go(r) : r \in Behind}
        /\ p.ready /\ p.route = "browser.cdp" => "running" \in F
    BY <1>1, <1>4, <2>1, BackgroundReturns
  <2> QED
    BY <1>4, <2>2, NotOnScreen
<1>5. CASE /\ ~(t.admin /\ "elevated" \notin F) /\ t.kind = "desktop"
           /\ "approvalPending" \notin F /\ Unlocked(F)
  BY <1>5 DEF ChooseRoute, Go, Screen
<1>6. CASE /\ ~(t.admin /\ "elevated" \notin F) /\ t.kind = "desktop"
           /\ "approvalPending" \notin F /\ ~Unlocked(F)
  <2> DEFINE b == Background(t.alternate, FALSE, F)
  <2>1. CASE t.alternate # "none" /\ b.ready
    <3>1. p = b
      BY <1>6, <2>1 DEF ChooseRoute
    <3>2. t.alternate \in Alternates
      BY <1>1, <2>1
    <3>3. /\ b \in {Wait(r) : r \in Waits} \cup {Go(r) : r \in Behind}
          /\ b.ready /\ b.route = "browser.cdp" => "running" \in F
      BY <3>2, BackgroundReturns
    <3> QED
      BY <1>6, <2>1, <3>1, <3>3, NotOnScreen
  <2>2. CASE ~(t.alternate # "none" /\ b.ready)
    BY <1>6, <2>2 DEF ChooseRoute, Wait, Waits
  <2> QED
    BY <2>1, <2>2
<1> QED
  BY <1>2, <1>3, <1>4, <1>5, <1>6

(* The answers to the three questions have no fact in common. *)
LEMMA AnswersApart ==
    ASSUME NEW d, NEW q \in Questions
    PROVE  /\ SaysIn(d, q) \subseteq FactsOf(q) /\ FactsOf(q) \subseteq Facts
           /\ \A r \in Questions : q # r => SaysIn(d, q) \cap FactsOf(r) = {}
<1>1. CASE q = "session"
  BY <1>1 DEF Questions, SaysIn, FactsOf, Facts
<1>2. CASE q = "system"
  BY <1>2 DEF Questions, SaysIn, FactsOf, Facts
<1>3. CASE q = "browser"
  BY <1>3 DEF Questions, SaysIn, FactsOf, Facts
<1> QED
  BY <1>1, <1>2, <1>3 DEF Questions

LEMMA PlanInitInv == PlanInit => PlanInv
  BY ChangesType DEF PlanInit, PlanInv, PlanTypeOK, HeardIsTrue, Stages, Conditions, NoPlan

(* A call is made: nothing has been heard of any question. *)
LEMMA AskStep ==
    ASSUME PlanInv, NEW a \in Asks, NEW t \in Tasks, Ask(a, t)
    PROVE  PlanInv'
<1>1. PlanTypeOK'
  BY DEF PlanInv, PlanTypeOK, Ask
<1>2. heard[a] = {} /\ plan[a] = NoPlan
  BY DEF PlanInv, Stages, Ask
<1>3. HeardIsTrue'
  BY <1>2 DEF PlanInv, PlanTypeOK, HeardIsTrue, Ask
<1>4. Stages'
  <2>1. t # NoTask
    <3>1. t.kind \in Direct \cup {"browser", "desktop"}
      BY DEF Tasks
    <3>2. NoTask.kind = "none" /\ "none" \notin Direct \cup {"browser", "desktop"}
      BY DEF NoTask, Direct
    <3> QED
      BY <3>1, <3>2
  <2> QED
    BY <1>2, <2>1 DEF PlanInv, PlanTypeOK, Stages, Ask
<1> QED
  BY <1>1, <1>3, <1>4 DEF PlanInv

(* An answer adds what the device says now to the facts of its own question. *)
LEMMA HearStep ==
    ASSUME PlanInv, NEW a \in Asks, NEW q \in Questions, Hear(a, q)
    PROVE  PlanInv'
<1> USE DEF PlanInv
<1>1. PICK F \in {{}, Says(q)} :
        /\ heard' = [heard EXCEPT ![a] = @ \cup F]
        /\ plan' = [plan EXCEPT ![a] = IF open[a] = {q} THEN ChooseRoute(asked[a], heard[a] \cup F)
                                       ELSE NoPlan]
  BY DEF Hear
<1>2. /\ q \in open[a] /\ open' = [open EXCEPT ![a] = @ \ {q}]
      /\ UNCHANGED <<device, changes, asked, seen>>
  BY DEF Hear
<1>3. asked[a] \in Tasks /\ device \in seen[a]
  BY <1>2 DEF PlanTypeOK, Stages
<1>4. F \subseteq FactsOf(q) /\ FactsOf(q) \subseteq Facts
      /\ \A r \in Questions : q # r => F \cap FactsOf(r) = {}
  BY AnswersApart DEF Says
<1>5. heard[a] \cup F \in SUBSET Facts
  BY <1>4 DEF PlanTypeOK
<1>6. PlanTypeOK'
  <2>1. ChooseRoute(asked[a], heard[a] \cup F) \in
            {Wait(r) : r \in Waits} \cup {Go(r) : r \in Screen \cup Behind}
    BY <1>3, <1>5, RouteReturns
  <2>2. /\ open' \in [Asks -> SUBSET Questions] /\ heard' \in [Asks -> SUBSET Facts]
        /\ DOMAIN plan' = DOMAIN plan
    BY <1>1, <1>2, <1>5 DEF PlanTypeOK
  <2>3. plan \in [Asks -> Plans]
    BY DEF PlanTypeOK, Plans
  <2>4. plan' \in [Asks -> Plans]
    BY <1>1, <2>1, <2>3 DEF Plans
  <2> QED
    BY <1>2, <2>2, <2>4 DEF PlanTypeOK, Plans
<1>7. HeardIsTrue'
  <2> SUFFICES ASSUME NEW b \in Asks, NEW r \in Questions, heard'[b] \cap FactsOf(r) # {}
               PROVE  r \notin open'[b] /\ \E d \in seen'[b] : heard'[b] \cap FactsOf(r) = SaysIn(d, r)
    BY DEF HeardIsTrue
  <2>1. CASE b # a \/ r # q
    <3>1. heard'[b] \cap FactsOf(r) = heard[b] \cap FactsOf(r)
      BY <1>1, <1>4, <2>1 DEF PlanTypeOK
    <3>2. open'[b] \subseteq open[b]
      BY <1>2 DEF PlanTypeOK
    <3> QED
      BY <1>2, <3>1, <3>2 DEF HeardIsTrue
  <2>2. CASE b = a /\ r = q
    <3>1. heard[a] \cap FactsOf(q) = {}
      BY <1>2 DEF HeardIsTrue
    <3>2. heard'[a] \cap FactsOf(q) = F
      BY <1>1, <1>4, <3>1 DEF PlanTypeOK
    <3>3. F = SaysIn(device, q)
      BY <2>2, <3>2 DEF Says
    <3> QED
      BY <1>2, <1>3, <2>2, <3>2, <3>3 DEF PlanTypeOK
  <2> QED
    BY <2>1, <2>2
<1>8. Stages'
  <2> SUFFICES ASSUME NEW b \in Asks
               PROVE  /\ open'[b] # {} => device' \in seen'[b] /\ plan'[b] = NoPlan
                      /\ asked'[b] = NoTask => open'[b] = {} /\ heard'[b] = {} /\ plan'[b] = NoPlan
                      /\ plan'[b] # NoPlan => seen'[b] # {} /\ plan'[b] = ChooseRoute(asked'[b], heard'[b])
    BY DEF Stages
  <2>1. CASE b # a
    BY <1>1, <1>2, <2>1 DEF PlanTypeOK, Stages
  <2>2. CASE b = a
    <3>1. asked[a] # NoTask
      BY <1>2 DEF Stages
    <3>2. plan'[a] # NoPlan => plan'[a] = ChooseRoute(asked[a], heard[a] \cup F)
      BY <1>1 DEF PlanTypeOK
    <3>3. /\ heard'[a] = heard[a] \cup F /\ open'[a] = open[a] \ {q}
          /\ open[a] # {q} => plan'[a] = NoPlan
      BY <1>1, <1>2, <1>6 DEF PlanTypeOK, Stages
    <3> QED
      BY <1>2, <1>3, <2>2, <3>1, <3>2, <3>3
  <2> QED
    BY <2>1, <2>2
<1> QED
  BY <1>6, <1>7, <1>8

(* The device changes: what was said before was said in a state seen before. *)
LEMMA ChangeStep ==
    ASSUME PlanInv, NEW c \in Conditions, Change(c)
    PROVE  PlanInv'
<1> USE DEF PlanInv
<1>1. \A a \in Asks : /\ seen[a] \subseteq seen'[a]
                      /\ open[a] # {} => device' \in seen'[a]
  BY DEF PlanTypeOK, Change
<1>2. UNCHANGED <<asked, open, heard, plan>>
  BY DEF Change
<1>3. PlanTypeOK'
  <2>1. device' \in SUBSET Conditions /\ changes' \in 0..MaxChanges
    BY ChangesType DEF PlanTypeOK, Change
  <2>2. seen' \in [Asks -> SUBSET SUBSET Conditions]
    BY <2>1 DEF PlanTypeOK, Change
  <2> QED
    BY <1>2, <2>1, <2>2 DEF PlanTypeOK
<1>4. HeardIsTrue'
  BY <1>1, <1>2 DEF HeardIsTrue
<1>5. Stages'
  BY <1>1, <1>2 DEF Stages
<1> QED
  BY <1>3, <1>4, <1>5

LEMMA PlanStepInv == PlanInv /\ [PlanNext]_planVars => PlanInv'
<1> SUFFICES ASSUME PlanInv, [PlanNext]_planVars
             PROVE  PlanInv'
  OBVIOUS
<1>1. CASE UNCHANGED planVars
  BY <1>1 DEF planVars, PlanInv, PlanTypeOK, HeardIsTrue, Stages
<1>2. CASE PlanNext
  BY <1>2, AskStep, HearStep, ChangeStep DEF PlanNext
<1> QED
  BY <1>1, <1>2

LEMMA PlanInvariance == PlanSpec => []PlanInv
  BY PlanInitInv, PlanStepInv, PTL DEF PlanSpec

(* What a call is told is ready was ready in one state of the device: the
   facts about the screen come from one answer. *)
LEMMA PlanInvWitnesses == PlanInv => ReadyIsWitnessed
<1> SUFFICES ASSUME PlanInv, NEW a \in Asks, plan[a].ready
             PROVE  /\ \E d \in seen[a] :
                        /\ asked[a].admin => "elevated" \in d
                        /\ plan[a].route \in Screen => "foreground" \in d /\ d \cap {"locked", "approval"} = {}
                    /\ plan[a].route = "browser.cdp" => \E d \in seen[a] : "browser" \in d
  BY DEF ReadyIsWitnessed
<1> DEFINE F == heard[a]
<1>1. /\ plan[a] = ChooseRoute(asked[a], F) /\ seen[a] # {} /\ F \in SUBSET Facts
      /\ asked[a] \in Tasks
  BY DEF PlanInv, Stages, PlanTypeOK, NoPlan
<1>2. /\ asked[a].admin => "elevated" \in F
      /\ plan[a].route \in Screen => "interactive" \in F
      /\ plan[a].route = "browser.cdp" => "running" \in F
  BY <1>1, RouteReturns DEF Unlocked
<1>3. \A q \in Questions : F \cap FactsOf(q) # {} =>
          \E d \in seen[a] : F \cap FactsOf(q) = SaysIn(d, q)
  BY DEF PlanInv, HeardIsTrue
<1>4. \E d \in seen[a] : /\ "elevated" \in F => "elevated" \in d
                         /\ "interactive" \in F =>
                                "foreground" \in d /\ d \cap {"locked", "approval"} = {}
  <2>1. CASE "elevated" \in F \/ "interactive" \in F
    <3>1. PICK d \in seen[a] : F \cap FactsOf("session") = SaysIn(d, "session")
      BY <1>3, <2>1 DEF Questions, FactsOf
    <3>2. /\ "elevated" \in F => "elevated" \in SaysIn(d, "session")
          /\ "interactive" \in F => "interactive" \in SaysIn(d, "session")
      BY <3>1 DEF FactsOf
    <3> QED
      BY <3>2 DEF SaysIn
  <2>2. CASE ~("elevated" \in F \/ "interactive" \in F)
    BY <1>1, <2>2
  <2> QED
    BY <2>1, <2>2
<1>5. "running" \in F => \E d \in seen[a] : "browser" \in d
  <2> SUFFICES ASSUME "running" \in F
               PROVE  \E d \in seen[a] : "browser" \in d
    OBVIOUS
  <2>1. PICK d \in seen[a] : F \cap FactsOf("browser") = SaysIn(d, "browser")
    BY <1>3 DEF Questions, FactsOf
  <2>2. "running" \in SaysIn(d, "browser")
    BY <2>1 DEF FactsOf
  <2> QED
    BY <2>2 DEF SaysIn
<1> QED
  BY <1>2, <1>4, <1>5

(* Of the same answers the doctor and the planner say the same, whatever the
   answers are. *)
LEMMA PlannersAgree == DoctorAgrees
<1> SUFFICES ASSUME NEW a \in Asks
             PROVE  LET p == ChooseRoute([NoTask EXCEPT !.kind = "desktop"], heard[a]) IN
                    /\ Suggested(heard[a]) = "windows.uia_then_guarded_preview" <=> p.ready
                    /\ Suggested(heard[a]) = "wait_for_local_admin_approval"
                        <=> p.route = "waiting_for_user_approval"
  BY DEF DoctorAgrees
<1> DEFINE F == heard[a]
           t == [NoTask EXCEPT !.kind = "desktop"]
<1>1. t.kind = "desktop" /\ t.admin = FALSE /\ t.alternate = "none"
  BY DEF NoTask
<1> HIDE DEF t
<1>2. CASE "approvalPending" \in F
  BY <1>1, <1>2 DEF ChooseRoute, Suggested, Wait, t
<1>3. CASE "approvalPending" \notin F /\ Unlocked(F)
  BY <1>1, <1>3 DEF ChooseRoute, Suggested, Interactive, Go, t
<1>4. CASE "approvalPending" \notin F /\ ~Unlocked(F)
  BY <1>1, <1>4 DEF ChooseRoute, Suggested, Interactive, Wait, t
<1> QED
  BY <1>2, <1>3, <1>4

(* The planner (capability-router.js, computer_plan, computer_doctor): a task
   is called ready only if the device was ready for it at one moment of the
   call, however its three answers come apart; doctor and planner agree. *)
THEOREM PlansSoundHolds == PlanSpec => []PlansSound
<1>1. PlanInv => PlansSound
  BY PlanInvWitnesses, PlannersAgree DEF PlansSound
<1> QED
  BY <1>1, PlanInvariance, PTL

-----------------------------------------------------------------------------
(* All parts together.                                                      *)

LEMMA PartsInit ==
    Init => StoreInit /\ GrantInit /\ LedgerInit /\ UsageInit /\ PlanInit
  BY DEF Init

(* A step of the Core is a step of one part and leaves the others. *)
LEMMA PartsStep ==
    [Next]_vars =>
        /\ [StoreNext]_coreVars /\ [GrantNext]_grantVars /\ [LedgerNext]_ledgerVars
        /\ [UsageNext]_usageVars /\ [PlanNext]_planVars
<1> SUFFICES ASSUME [Next]_vars
             PROVE  /\ [StoreNext]_coreVars /\ [GrantNext]_grantVars /\ [LedgerNext]_ledgerVars
                    /\ [UsageNext]_usageVars /\ [PlanNext]_planVars
  OBVIOUS
<1>1. CASE UNCHANGED vars
  BY <1>1 DEF vars
<1>2. CASE Next
  BY <1>2 DEF Next
<1> QED
  BY <1>1, <1>2

(* What is proved of a part by itself is therefore true of the Core that has
   all of them: each part goes on as its own specification says. *)
THEOREM PartsImplemented ==
    Spec => StoreSpec /\ GrantSpec /\ LedgerSpec /\ UsageSpec /\ PlanSpec
  BY PartsInit, PartsStep, PTL
     DEF Spec, vars, StoreSpec, GrantSpec, LedgerSpec, UsageSpec, PlanSpec

(* The types of every part, in the Core that has all of them. *)
THEOREM ServiceTypes == Spec => []TypeOK
<1>1. StoreInv => StoreTypeOK
  BY DEF StoreInv
<1>2. UsageInv => UsageTypeOK
  BY DEF UsageInv
<1>3. PlanInv => PlanTypeOK
  BY DEF PlanInv
<1>4. StoreTypeOK /\ GrantTypeOK /\ LedgerTypeOK /\ UsageTypeOK /\ PlanTypeOK => TypeOK
  BY DEF TypeOK
<1> QED
  BY <1>1, <1>2, <1>3, <1>4, PartsImplemented, StoreInvariance, GrantTypes, LedgerTypes,
     UsageInvariance, PlanInvariance, PTL

(* The checks of the run, each for every value of the constants. *)
THEOREM ServicesCorrect ==
    Spec => /\ [](UsedOnce /\ AccessGranted /\ InvitesEndWithPairing)
            /\ [](OneRenewal /\ SavedOnce /\ UsageExact /\ PlansSound)
            /\ ImplementsChain
  BY PartsImplemented, UsedOnceHolds, AccessGrantedHolds, InvitesEndHolds, GrantOneRenewal,
     LedgerSavedOnce, UsageExactHolds, PlansSoundHolds, GrantChainImplemented, PTL
=============================================================================
