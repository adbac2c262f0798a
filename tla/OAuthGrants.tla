----------------------------- MODULE OAuthGrants -----------------------------
(***************************************************************************)
(* The OAuth server of the Core (oauth.js): codes are exchanged for an     *)
(* access and a refresh token, refresh tokens for the next pair.           *)
(*                                                                         *)
(* Every statement is a commit of its own.  A request runs without         *)
(* interleaving, but the process may die between two of its statements,    *)
(* and its answer may be lost; the client then presents what it has again. *)
(* A code is named after the authorization it was made for.                *)
(***************************************************************************)
CONSTANTS
    Grants,   \* authorizations, and their codes
    Issues    \* pairs of tokens issued

Nobody == "none"

(* Codes and pairs of tokens are rows of different tables. *)
ASSUME GrantsType == Nobody \notin Grants \cup Issues /\ Grants \cap Issues = {}

VARIABLES
    code,      \* oauth_auth_codes
    access,    \* oauth_access_tokens
    refresh,   \* oauth_refresh_tokens
    grant,     \* the authorization a pair was issued under
    wallet,    \* the codes and refresh tokens a client was told
    misused    \* history: codes presented with the wrong client or proof

grantVars == <<code, access, refresh, grant, wallet, misused>>

GrantTypeOK ==
    /\ code \in [Grants -> {"new", "open", "used", "expired"}]
    /\ access \in [Issues -> {"new", "live", "expired"}]
    /\ refresh \in [Issues -> {"new", "live", "revoked", "expired"}]
    /\ grant \in [Issues -> Grants \cup {Nobody}]
    /\ wallet \in SUBSET (Grants \cup Issues)
    /\ misused \in SUBSET Grants

GrantInit ==
    /\ code = [g \in Grants |-> "new"]
    /\ access = [i \in Issues |-> "new"] /\ refresh = [i \in Issues |-> "new"]
    /\ grant = [i \in Issues |-> Nobody]
    /\ wallet = {} /\ misused = {}

(* A set of credentials is told to the client, or the answer is lost. *)
Tell(S) == wallet' \in {wallet, wallet \cup S}

-----------------------------------------------------------------------------

(* /oauth/authorize: createCode, and the redirect with the code. *)
Authorize(g) ==
    /\ code[g] = "new"
    /\ code' = [code EXCEPT ![g] = "open"]
    /\ Tell({g})
    /\ UNCHANGED <<access, refresh, grant, misused>>

(* issueTokens: two inserts, after which before is the refresh table without
   the second.  Death between them leaves an access token nobody was told;
   death before them leaves nothing. *)
IssueTokens(g, i, before) ==
    /\ access[i] = "new"
    /\ \/ refresh' = before /\ UNCHANGED <<access, grant, wallet>>
       \/ /\ access' = [access EXCEPT ![i] = "live"]
          /\ grant' = [grant EXCEPT ![i] = g]
          /\ \/ refresh' = before /\ UNCHANGED wallet
             \/ refresh' = [before EXCEPT ![i] = "live"] /\ Tell({i})

(* consumeCode marks the row whatever the rest of the request is worth. *)
ConsumeCode(g) == code' = [code EXCEPT ![g] = "used"]

KnownCode(g) == code[g] \in {"open", "used"}      \* mutant: used_at not compared
UnusedCode(g) == code[g] = "open"

(* grant_type=authorization_code.  fits: the client, the redirect, the
   resource and the verifier are the ones of the row. *)
Exchange(g, i, fits) ==
    /\ g \in wallet /\ UnusedCode(g)
    /\ ConsumeCode(g)
    /\ IF fits THEN IssueTokens(g, i, refresh) /\ UNCHANGED misused
       ELSE misused' = misused \cup {g} /\ UNCHANGED <<access, refresh, grant, wallet>>

(* grant_type=refresh_token, rotateRefresh: revoked first, then the new pair.
   A token presented by another client is refused and stays as it is. *)
Unrevoked(i) == refresh                           \* mutant: not rotated
Revoked(i)   == [refresh EXCEPT ![i] = "revoked"]

Renew(i, j) ==
    /\ i \in wallet /\ refresh[i] = "live"
    /\ IssueTokens(grant[i], j, Revoked(i))
    /\ UNCHANGED <<code, misused>>

Expire(x) ==
    /\ \/ /\ x \in Grants /\ code[x] = "open"
          /\ code' = [code EXCEPT ![x] = "expired"] /\ UNCHANGED <<access, refresh>>
       \/ /\ x \in Issues /\ access[x] = "live"
          /\ access' = [access EXCEPT ![x] = "expired"] /\ UNCHANGED <<code, refresh>>
       \/ /\ x \in Issues /\ access[x] = "expired" /\ refresh[x] = "live"
          /\ refresh' = [refresh EXCEPT ![x] = "expired"] /\ UNCHANGED <<code, access>>
    /\ UNCHANGED <<grant, wallet, misused>>

GrantNext ==
    \/ \E g \in Grants : Authorize(g)
    \/ \E g \in Grants, i \in Issues, fits \in BOOLEAN : Exchange(g, i, fits)
    \/ \E i, j \in Issues : Renew(i, j)
    \/ \E x \in Grants \cup Issues : Expire(x)

GrantSpec == GrantInit /\ [][GrantNext]_grantVars

-----------------------------------------------------------------------------
(* Properties.                                                             *)

Pairs(g) == {i \in Issues : grant[i] = g}

(* At any time one refresh token at most renews an authorization, none does
   while its code is open, and none ever does once the code was presented with
   the wrong client, redirect, resource or verifier, to whoever presents it
   afterwards (oauth.js:62-67, oauth.js:81), wherever the process died between
   the statements. *)
OneRenewal ==
    /\ \A g \in Grants : \A i, j \in Pairs(g) :
           refresh[i] = "live" /\ refresh[j] = "live" => i = j
    /\ \A g \in Grants : code[g] = "open" \/ g \in misused => Pairs(g) = {}

Holder(g) ==
    IF code[g] = "open" THEN g
    ELSE IF \E i \in Pairs(g) : refresh[i] = "live"
         THEN CHOOSE i \in Pairs(g) : refresh[i] = "live"
         ELSE Nobody

Holders == [g \in Grants |-> Holder(g)]

Spent ==
    {g \in Grants : code[g] \in {"used", "expired"}} \cup
    {i \in Issues : refresh[i] \in {"revoked", "expired"}}

Chain == INSTANCE GrantChain WITH
    Credentials <- Grants \cup Issues, holder <- Holders, spent <- Spent

(* The server implements the baton of GrantChain: what renews a grant is
   handed on or dropped, and never comes back. *)
ImplementsChain == Chain!Spec
=============================================================================
