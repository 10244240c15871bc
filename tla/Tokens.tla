------------------------------- MODULE Tokens -------------------------------
(***************************************************************************)
(* Tokens that are mailed to an account and entered once: TokenService,    *)
(* and the methods of AuthService that use it to verify an email address   *)
(* (verifyAccount) or to set a password (resetPassword).                   *)
(*                                                                         *)
(* There is at most one row for an account and a type of token, the key of *)
(* the table.  A new token replaces the old one in three queries, and a    *)
(* token that is entered is looked up, deleted by its key, and then acted  *)
(* on.  The codes of a key are numbered in the order they are stored; a    *)
(* code somebody makes up matches none.                                    *)
(***************************************************************************)
EXTENDS Requests, Sequences

CONSTANTS
    Keys,      \* pairs of an account and a type of token
    LifeSec, RenewSec,
    MaxTokens, MaxNow  \* bounds: tokens stored for a key, last instant of the clock

ASSUME LifeAssumption == LifeSec \in Nat /\ RenewSec \in Nat

VARIABLES
    now,
    token,    \* the row of each key
    issued,   \* the number of tokens that have been stored for it, and mailed
    accepted  \* the codes that have been acted on, in order

tokenVars == <<now, token, issued, accepted>>

\* No row.
NoToken == [code |-> 0, createdAt |-> 0]
Stored(k) == token[k] # NoToken

TokenRequest(h, op, at, on, k, code) ==
    /\ Begin(h, [op |-> op, at |-> at, by |-> 0, on |-> on, arg |-> k, seen |-> code])
    /\ UNCHANGED tokenVars

Is(h, op, at, k) == At(h, op, at) /\ req[h].arg = k

\* A verification keeps away from all requests about its key, while two requests for a
\* token, which are sent again if the mail is late, only keep away from verifications.
Sending(k, h) == {<<"send", k, h>>}
Entering(k) == {<<"send", k, g>> : g \in Handlers}

-----------------------------------------------------------------------------

\* createToken: the row, whether it may be renewed, its deletion, a new row.
CreateTokenStart(h, k) ==
    /\ issued[k] < MaxTokens
    /\ Stored(k) => token[k].createdAt + RenewSec <= now
    /\ TokenRequest(h, "create", IF Stored(k) THEN "delete" ELSE "store", Sending(k, h), k, 0)

\* delete rejects if another request has deleted the row.
DeleteOld(h, k) ==
    /\ Is(h, "create", "delete", k)
    /\ IF Stored(k)
       THEN token' = [token EXCEPT ![k] = NoToken] /\ Goto(h, "store", 0)
       ELSE UNCHANGED token /\ End(h)
    /\ UNCHANGED <<now, issued, accepted>>

\* Mutant: a row that is there already is skipped, and the new token mailed all the same.
StoreSkipping(h, k) ==
    /\ Is(h, "create", "store", k)
    /\ issued[k] < MaxTokens
    /\ issued' = [issued EXCEPT ![k] = @ + 1]
    /\ IF Stored(k) THEN UNCHANGED token
       ELSE token' = [token EXCEPT ![k] = [code |-> issued'[k], createdAt |-> now]]
    /\ End(h)
    /\ UNCHANGED <<now, accepted>>

\* Mutant: the token is stored and never mailed.
StoreSilently(h, k) ==
    /\ Is(h, "create", "store", k)
    /\ issued[k] < MaxTokens
    /\ ~ Stored(k)
    /\ token' = [token EXCEPT ![k] = [code |-> issued[k] + 1, createdAt |-> now]]
    /\ End(h)
    /\ UNCHANGED <<now, issued, accepted>>

\* create rejects if another request has stored one.
Store(h, k) ==
    /\ Is(h, "create", "store", k)
    /\ IF Stored(k) THEN UNCHANGED <<token, issued>>
       ELSE /\ issued[k] < MaxTokens
            /\ issued' = [issued EXCEPT ![k] = @ + 1]
            /\ token' = [token EXCEPT ![k] = [code |-> issued[k] + 1, createdAt |-> now]]
    /\ End(h)
    /\ UNCHANGED <<now, accepted>>

CreateToken(h, k) == CreateTokenStart(h, k) \/ DeleteOld(h, k) \/ Store(h, k)

\* verifyToken: the code of the row, which has not expired.
VerifyToken(h, k, code) ==
    /\ Stored(k) /\ token[k].code = code
    /\ token[k].createdAt + LifeSec >= now
    /\ TokenRequest(h, "verify", "expire", Entering(k), k, code)

\* Mutant: deleteMany, which does not mind that there is nothing to delete.
ExpireMany(h, k) ==
    /\ Is(h, "verify", "expire", k)
    /\ token' = [token EXCEPT ![k] = NoToken]
    /\ Goto(h, "apply", req[h].seen)
    /\ UNCHANGED <<now, issued, accepted>>

\* verifyAndExpireToken: the deletion, by the key.
ExpireToken(h, k) ==
    /\ Is(h, "verify", "expire", k)
    /\ IF Stored(k)
       THEN token' = [token EXCEPT ![k] = NoToken] /\ Goto(h, "apply", req[h].seen)
       ELSE UNCHANGED token /\ End(h)
    /\ UNCHANGED <<now, issued, accepted>>

\* markAccountAsVerified or updateAccountPassword.
Apply(h, k) ==
    /\ Is(h, "verify", "apply", k)
    /\ accepted' = [accepted EXCEPT ![k] = Append(@, req[h].seen)]
    /\ End(h)
    /\ UNCHANGED <<now, token, issued>>

\* verifyAccount and resetPassword.
Use(h, k) ==
    \/ \E code \in 1..issued[k] : VerifyToken(h, k, code)
    \/ ExpireToken(h, k) \/ Apply(h, k)

TokensTick ==
    /\ now < MaxNow
    /\ now' = now + 1
    /\ UNCHANGED <<requestVars, token, issued, accepted>>

-----------------------------------------------------------------------------

TokensInit ==
    /\ now = 0
    /\ token = [k \in Keys |-> NoToken]
    /\ issued = [k \in Keys |-> 0]
    /\ accepted = [k \in Keys |-> <<>>]

TokensNext ==
    \/ \E h \in Handlers : \/ \E k \in Keys : CreateToken(h, k) \/ Use(h, k)
                           \/ Abort(h) /\ UNCHANGED tokenVars
    \/ TokensTick

tokensVars == <<requestVars, tokenVars>>
TokensSpec == RequestsInit /\ TokensInit /\ [][TokensNext]_tokensVars

-----------------------------------------------------------------------------
(* Properties. *)

\* A row holds a token that has been mailed, and was created by now.
TokensTypeOK ==
    /\ now \in Nat
    /\ issued \in [Keys -> Nat]
    /\ token \in [Keys -> [code : Nat, createdAt : Nat]]
    /\ accepted \in [Keys -> Seq(Nat)]
    /\ \A k \in Keys : token[k].code <= issued[k] /\ token[k].createdAt <= now

\* Requests for a key on their way to act on a token they have deleted.
Applying(k) == {h \in Handlers : Is(h, "verify", "apply", k)}

\* However requests race, fail and repeat, every acceptance has used up a token of its
\* own: no more are accepted, or about to be, than have been stored and are gone.
EveryUseTakesOne ==
    \A k \in Keys :
        Len(accepted[k]) + Cardinality(Applying(k)) + (IF Stored(k) THEN 1 ELSE 0)
            <= issued[k]

Requested(k, op) == \E h \in Handlers : req[h].op = op /\ req[h].arg = k

\* If verifications keep apart and no query rejects, a race of requests for a token leaves
\* the last one mailed valid: once all have been answered it is stored, unless it has been
\* used.
NewestIsLive ==
    manner \in {"subject", "serial"} /\ ~ failing =>
        \A k \in Keys :
            \/ issued[k] = 0 \/ token[k].code = issued[k]
            \/ \E i \in DOMAIN accepted[k] : accepted[k][i] = issued[k]
            \/ Requested(k, "create") \/ Requested(k, "verify")
=============================================================================
