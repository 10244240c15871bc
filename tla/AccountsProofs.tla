--------------------------- MODULE AccountsProofs ---------------------------
(***************************************************************************)
(* Proofs about Tokens and Accounts, for any number of keys, accounts,     *)
(* super admins, bans, requests for verification and requests in flight,   *)
(* any lifetime of a token, and any manner of sending requests.            *)
(***************************************************************************)
EXTENDS Tokens, Accounts, RequestsProofs

-----------------------------------------------------------------------------
(* Tokens: what a request is. *)

Ops == {"idle", "create", "verify"}

\* What a slot holds.
TokenRequests == [op : Ops, at : {"", "delete", "store", "expire", "apply"},
                  by : {0}, on : SUBSET ({"send"} \X Keys \X Handlers),
                  arg : Keys \cup {0}, seen : Nat]

ReqOK == req \in [Handlers -> TokenRequests]

TokensInv == ReqOK /\ TokensTypeOK

LEMMA IdleType == Idle \in TokenRequests
  BY DEF Idle, TokenRequests, Ops

-----------------------------------------------------------------------------
(* Type correctness. *)

LEMMA BeginType ==
    ASSUME TokensInv, NEW h \in Handlers, NEW k \in Keys, NEW code \in Nat,
           NEW op \in {"create", "verify"}, NEW at \in {"delete", "store", "expire"},
           NEW on \in SUBSET ({"send"} \X Keys \X Handlers),
           TokenRequest(h, op, at, on, k, code)
    PROVE  TokensInv'
<1> DEFINE r == [op |-> op, at |-> at, by |-> 0, on |-> on, arg |-> k, seen |-> code]
<1>1. r \in TokenRequests
  BY DEF TokenRequests, Ops
<1>2. req' = [req EXCEPT ![h] = r] /\ UNCHANGED tokenVars
  BY DEF TokenRequest, Begin
<1>3. ReqOK'
  BY <1>1, <1>2 DEF TokensInv, ReqOK
<1> QED BY <1>2, <1>3 DEF TokensInv, TokensTypeOK, tokenVars

\* A request goes on, or ends.
LEMMA ReqStep ==
    ASSUME ReqOK, NEW h \in Handlers,
           \/ End(h) \/ Abort(h)
           \/ \E at \in {"store", "apply"}, seen \in Nat : Goto(h, at, seen)
    PROVE  ReqOK'
<1>1. CASE End(h) \/ Abort(h)
  BY <1>1, IdleType DEF ReqOK, End, Abort
<1>2. ASSUME NEW at \in {"store", "apply"}, NEW seen \in Nat, Goto(h, at, seen)
      PROVE  ReqOK'
  <2>1. [req[h] EXCEPT !.at = at, !.seen = seen] \in TokenRequests
    BY DEF ReqOK, TokenRequests
  <2>2. req' = [req EXCEPT ![h] = [req[h] EXCEPT !.at = at, !.seen = seen]]
    BY <1>2 DEF Goto
  <2> QED BY <2>1, <2>2 DEF ReqOK
<1> QED BY <1>1, <1>2

\* What that leaves in the slot, and the others alone.
LEMMA ReqMoves ==
    ASSUME ReqOK, NEW h \in Handlers, NEW at, NEW seen
    PROVE  /\ Goto(h, at, seen) =>
                /\ req'[h].op = req[h].op /\ req'[h].at = at /\ req'[h].arg = req[h].arg
                /\ \A g \in Handlers \ {h} : req'[g] = req[g]
           /\ End(h) => /\ req'[h] = Idle
                        /\ \A g \in Handlers \ {h} : req'[g] = req[g]
<1>1. req[h] \in TokenRequests
  BY DEF ReqOK
<1>2. ASSUME Goto(h, at, seen)
      PROVE  /\ req'[h].op = req[h].op /\ req'[h].at = at /\ req'[h].arg = req[h].arg
             /\ \A g \in Handlers \ {h} : req'[g] = req[g]
  <2>1. req' = [req EXCEPT ![h] = [req[h] EXCEPT !.at = at, !.seen = seen]]
    BY <1>2 DEF Goto
  <2>2. /\ req'[h] = [req[h] EXCEPT !.at = at, !.seen = seen]
        /\ \A g \in Handlers \ {h} : req'[g] = req[g]
    BY <2>1 DEF ReqOK
  <2> QED BY <1>1, <2>2 DEF TokenRequests
<1> QED BY <1>2 DEF End, ReqOK

LEMMA OnType ==
    ASSUME NEW k \in Keys, NEW h \in Handlers
    PROVE  /\ Sending(k, h) \in SUBSET ({"send"} \X Keys \X Handlers)
           /\ Entering(k) \in SUBSET ({"send"} \X Keys \X Handlers)
  BY DEF Sending, Entering

\* A row is deleted.
LEMMA DeletionType ==
    ASSUME TokensTypeOK, NEW k \in Keys, UNCHANGED <<now, issued, accepted>>,
           token' = token \/ token' = [token EXCEPT ![k] = NoToken]
    PROVE  TokensTypeOK'
<1>1. NoToken \in [code : Nat, createdAt : Nat] /\ NoToken.code = 0 /\ NoToken.createdAt = 0
  BY DEF NoToken
<1>2. token' \in [Keys -> [code : Nat, createdAt : Nat]]
  BY <1>1 DEF TokensTypeOK
<1>3. \A l \in Keys : token'[l] = token[l] \/ token'[l] = NoToken
  BY DEF TokensTypeOK
<1>4. \A l \in Keys : token'[l].code <= issued[l] /\ token'[l].createdAt <= now
  BY <1>1, <1>3 DEF TokensTypeOK
<1> QED BY <1>2, <1>4 DEF TokensTypeOK

LEMMA TokensInitType == RequestsInit /\ TokensInit => TokensInv
<1> SUFFICES ASSUME RequestsInit, TokensInit PROVE ReqOK /\ TokensTypeOK
  BY DEF TokensInv
<1>1. ReqOK
  BY IdleType DEF RequestsInit, ReqOK
<1>2. TokensTypeOK
  BY DEF TokensInit, TokensTypeOK, NoToken
<1> QED BY <1>1, <1>2

LEMMA TokensStepType == TokensInv /\ [TokensNext]_tokensVars => TokensInv'
<1> SUFFICES ASSUME TokensInv, [TokensNext]_tokensVars PROVE TokensInv'
  OBVIOUS
<1> USE DEF TokensInv
<1>1. ASSUME NEW h \in Handlers, NEW k \in Keys, CreateTokenStart(h, k)
      PROVE  TokensInv'
  BY <1>1, BeginType, OnType DEF CreateTokenStart
<1>2. ASSUME NEW h \in Handlers, NEW k \in Keys, DeleteOld(h, k) PROVE TokensInv'
  <2>1. ReqOK'
    BY <1>2, ReqStep DEF DeleteOld
  <2>2. token' = token \/ token' = [token EXCEPT ![k] = NoToken]
    BY <1>2 DEF DeleteOld
  <2> QED BY <1>2, <2>1, <2>2, DeletionType DEF DeleteOld
<1>3. ASSUME NEW h \in Handlers, NEW k \in Keys, Store(h, k) PROVE TokensInv'
  <2>1. ReqOK'
    BY <1>3, ReqStep DEF Store
  <2>2. CASE Stored(k)
    BY <1>3, <2>1, <2>2 DEF Store, TokensTypeOK
  <2>3. CASE ~ Stored(k)
    <3> DEFINE t == [code |-> issued[k] + 1, createdAt |-> now]
    <3>1. issued[k] + 1 \in Nat /\ t \in [code : Nat, createdAt : Nat]
      BY DEF TokensTypeOK
    <3>2. /\ issued' = [issued EXCEPT ![k] = issued[k] + 1]
          /\ token' = [token EXCEPT ![k] = t]
          /\ UNCHANGED <<now, accepted>>
      BY <1>3, <2>3 DEF Store
    <3>3. issued' \in [Keys -> Nat] /\ token' \in [Keys -> [code : Nat, createdAt : Nat]]
      BY <3>1, <3>2 DEF TokensTypeOK
    <3>4. \A l \in Keys : token'[l].code <= issued'[l] /\ token'[l].createdAt <= now
      BY <3>1, <3>2 DEF TokensTypeOK
    <3> QED BY <2>1, <3>2, <3>3, <3>4 DEF TokensTypeOK
  <2> QED BY <2>2, <2>3
<1>4. ASSUME NEW h \in Handlers, NEW k \in Keys, NEW code \in 1..issued[k],
             VerifyToken(h, k, code)
      PROVE  TokensInv'
  <2>1. code \in Nat
    BY DEF TokensTypeOK
  <2> QED BY <1>4, <2>1, BeginType, OnType DEF VerifyToken
<1>5. ASSUME NEW h \in Handlers, NEW k \in Keys, ExpireToken(h, k) PROVE TokensInv'
  <2>1. req[h].seen \in Nat
    BY DEF ReqOK, TokenRequests
  <2>2. ReqOK'
    BY <1>5, <2>1, ReqStep DEF ExpireToken
  <2>3. token' = token \/ token' = [token EXCEPT ![k] = NoToken]
    BY <1>5 DEF ExpireToken
  <2> QED BY <1>5, <2>2, <2>3, DeletionType DEF ExpireToken
<1>6. ASSUME NEW h \in Handlers, NEW k \in Keys, Apply(h, k) PROVE TokensInv'
  <2>1. ReqOK'
    BY <1>6, ReqStep DEF Apply
  <2>2. req[h].seen \in Nat
    BY DEF ReqOK, TokenRequests
  <2>3. accepted' \in [Keys -> Seq(Nat)]
    <3>1. Append(accepted[k], req[h].seen) \in Seq(Nat)
      BY <2>2 DEF TokensTypeOK
    <3> QED BY <1>6, <3>1 DEF Apply, TokensTypeOK
  <2> QED BY <1>6, <2>1, <2>3 DEF Apply, TokensTypeOK
<1>7. ASSUME NEW h \in Handlers, Abort(h), UNCHANGED tokenVars PROVE TokensInv'
  <2>1. ReqOK'
    BY <1>7, ReqStep
  <2> QED BY <1>7, <2>1 DEF TokensTypeOK, tokenVars
<1>8. CASE TokensTick
  BY <1>8 DEF TokensTick, requestVars, ReqOK, TokensTypeOK
<1>9. CASE UNCHANGED tokensVars
  BY <1>9 DEF tokensVars, tokenVars, requestVars, ReqOK, TokensTypeOK
<1> QED
  BY <1>1, <1>2, <1>3, <1>4, <1>5, <1>6, <1>7, <1>8, <1>9
  DEF TokensNext, CreateToken, Use

\* The row of a key holds a code that has been mailed, whatever its requests do.
THEOREM TokensTypeCorrect == TokensSpec => []TokensTypeOK
<1>1. TokensInv => TokensTypeOK
  BY DEF TokensInv
<1> QED BY <1>1, TokensInitType, TokensStepType, PTL DEF TokensSpec

-----------------------------------------------------------------------------
(* Every use takes a token.  The invariant is inductive with the types alone: what has *)
(* to be counted is how each step moves a key's requests that are about to act on a    *)
(* token.                                                                              *)

LEMMA ApplyingFinite ==
    ASSUME NEW k \in Keys
    PROVE  IsFiniteSet(Applying(k)) /\ Cardinality(Applying(k)) \in Nat
<1>1. Applying(k) \in SUBSET Handlers
  BY DEF Applying
<1>2. IsFiniteSet(Applying(k))
  BY <1>1, HandlersAssumption, FS_Subset
<1> QED BY <1>2, FS_CardinalityType

\* What is about to happen to a key, and what is left for it.
Count(k) == Len(accepted[k]) + Cardinality(Applying(k)) + (IF Stored(k) THEN 1 ELSE 0)
Used == \A k \in Keys : Count(k) <= issued[k]

\* A slot that is not about to act on a token of k is taken, or left.
LEMMA ApplyingShrinks ==
    ASSUME ReqOK, ReqOK', NEW h \in Handlers, NEW k \in Keys,
           ~ Is(h, "verify", "apply", k)',
           \A g \in Handlers \ {h} : req'[g] = req[g]
    PROVE  /\ Cardinality(Applying(k)') <= Cardinality(Applying(k))
           /\ Cardinality(Applying(k)') \in Nat
           /\ Is(h, "verify", "apply", k) =>
                Cardinality(Applying(k)') = Cardinality(Applying(k)) - 1
<1>1. Applying(k)' = Applying(k) \ {h}
  BY DEF Applying, Is, At
<1>2. IsFiniteSet(Applying(k)) /\ Cardinality(Applying(k)) \in Nat
  BY ApplyingFinite
<1>3. IsFiniteSet(Applying(k)') /\ Cardinality(Applying(k)') =
        IF h \in Applying(k) THEN Cardinality(Applying(k)) - 1 ELSE Cardinality(Applying(k))
  BY <1>1, <1>2, FS_RemoveElement
<1>4. Cardinality(Applying(k)') \in Nat
  BY <1>3, FS_CardinalityType
<1>5. Is(h, "verify", "apply", k) => h \in Applying(k)
  BY DEF Applying
<1> QED BY <1>2, <1>3, <1>4, <1>5

\* A slot comes to be about to act on a token of k.
LEMMA ApplyingGrows ==
    ASSUME NEW h \in Handlers, NEW k \in Keys,
           \A g \in Handlers \ {h} : req'[g] = req[g]
    PROVE  Cardinality(Applying(k)') <= Cardinality(Applying(k)) + 1
<1>1. IsFiniteSet(Applying(k)) /\ Cardinality(Applying(k)) \in Nat
  BY ApplyingFinite
<1>2. Applying(k)' \in SUBSET (Applying(k) \cup {h})
  BY DEF Applying, Is, At
<1>3. /\ IsFiniteSet(Applying(k) \cup {h})
      /\ Cardinality(Applying(k) \cup {h}) <= Cardinality(Applying(k)) + 1
  BY <1>1, FS_AddElement
<1>4. Cardinality(Applying(k)') <= Cardinality(Applying(k) \cup {h})
  BY <1>2, <1>3, FS_Subset
<1>5. Cardinality(Applying(k)') \in Nat /\ Cardinality(Applying(k) \cup {h}) \in Nat
  BY <1>2, <1>3, FS_Subset, FS_CardinalityType
<1> QED BY <1>1, <1>3, <1>4, <1>5

\* A step that neither accepts nor stores: no key has more of what is about to happen,
\* than a row that went.
LEMMA NoUse ==
    ASSUME TokensInv, ReqOK', Used, NEW h \in Handlers, NEW k \in Keys,
           UNCHANGED <<issued, accepted>>,
           \A g \in Handlers \ {h} : req'[g] = req[g],
           \A l \in Keys \ {k} : token'[l] = token[l] /\ ~ Is(h, "verify", "apply", l)',
           \/ ~ Is(h, "verify", "apply", k)' /\ token'[k] \in {token[k], NoToken}
           \/ Stored(k) /\ token'[k] = NoToken
    PROVE  Used'
<1> SUFFICES ASSUME NEW l \in Keys PROVE Count(l)' <= issued'[l]
  BY DEF Used
<1>1. /\ Cardinality(Applying(l)) \in Nat /\ Len(accepted[l]) \in Nat
      /\ issued[l] \in Nat /\ Count(l) <= issued[l]
  BY ApplyingFinite DEF TokensInv, TokensTypeOK, Used
<1>2. Cardinality(Applying(l)') \in Nat
  <2>1. Applying(l)' \in SUBSET Handlers
    BY DEF Applying
  <2> QED BY <2>1, HandlersAssumption, FS_Subset, FS_CardinalityType
<1>3. CASE ~ Is(h, "verify", "apply", l)'
  <2>1. Cardinality(Applying(l)') <= Cardinality(Applying(l))
    BY <1>3, ApplyingShrinks DEF TokensInv
  <2>2. token'[l] = token[l] \/ token'[l] = NoToken
    BY <1>3
  <2>3. (IF Stored(l)' THEN 1 ELSE 0) <= (IF Stored(l) THEN 1 ELSE 0)
    BY <2>2 DEF Stored
  <2>4. Count(l)' = Len(accepted[l]) + Cardinality(Applying(l)') + (IF Stored(l)' THEN 1 ELSE 0)
    BY DEF Count
  <2> QED BY <1>1, <1>2, <2>1, <2>3, <2>4 DEF Count
<1>4. CASE Is(h, "verify", "apply", l)'
  <2>1. l = k /\ Stored(l) /\ ~ Stored(l)'
    BY <1>4 DEF Stored
  <2>2. Cardinality(Applying(l)') <= Cardinality(Applying(l)) + 1
    BY ApplyingGrows
  <2>3. Count(l)' = Len(accepted[l]) + Cardinality(Applying(l)') + 0
    BY <2>1 DEF Count
  <2>4. Count(l) = Len(accepted[l]) + Cardinality(Applying(l)) + 1
    BY <2>1 DEF Count
  <2> QED BY <1>1, <1>2, <2>2, <2>3, <2>4
<1> QED BY <1>3, <1>4

UsedInv == TokensInv /\ Used

LEMMA UsedInit == RequestsInit /\ TokensInit => UsedInv
<1> SUFFICES ASSUME RequestsInit, TokensInit, NEW k \in Keys PROVE Count(k) <= issued[k]
  BY TokensInitType DEF UsedInv, Used
<1>1. Applying(k) = {}
  BY DEF Applying, Is, At, RequestsInit, Idle
<1>2. Len(accepted[k]) = 0 /\ ~ Stored(k) /\ issued[k] = 0
  BY DEF TokensInit, Stored
<1>3. Count(k) = 0 + 0 + 0
  BY <1>1, <1>2, FS_EmptySet DEF Count
<1> QED BY <1>2, <1>3

LEMMA UsedStep == UsedInv /\ [TokensNext]_tokensVars => UsedInv'
<1> SUFFICES ASSUME UsedInv, [TokensNext]_tokensVars PROVE Used'
  BY TokensStepType DEF UsedInv
<1>0. TokensInv /\ TokensInv' /\ Used
  BY TokensStepType DEF UsedInv
<1>1. /\ ReqOK /\ ReqOK'
      /\ \A k \in Keys : Count(k) <= issued[k] /\ issued[k] \in Nat /\ Len(accepted[k]) \in Nat
  BY <1>0 DEF TokensInv, TokensTypeOK, Used
<1>2. ASSUME NEW h \in Handlers, Is(h, "idle", "", 0)' \/ ~ At(h, "verify", "apply")',
             \A g \in Handlers \ {h} : req'[g] = req[g], UNCHANGED tokenVars
      PROVE  Used'
  <2>1. CASE Keys = {}
    BY <2>1 DEF Used
  <2>2. CASE Keys # {}
    <3>1. PICK k \in Keys : TRUE
      BY <2>2
    <3>2. \A l \in Keys : ~ Is(h, "verify", "apply", l)'
      BY <1>2 DEF Is, At
    <3> QED BY <1>0, <1>1, <1>2, <3>1, <3>2, NoUse DEF tokenVars
  <2> QED BY <2>1, <2>2
<1>3. ASSUME NEW h \in Handlers, NEW k \in Keys, CreateTokenStart(h, k) PROVE Used'
  <2>1. ~ At(h, "verify", "apply")' /\ UNCHANGED tokenVars
    BY <1>1, <1>3 DEF CreateTokenStart, TokenRequest, Begin, At, ReqOK
  <2>2. \A g \in Handlers \ {h} : req'[g] = req[g]
    BY <1>1, <1>3 DEF CreateTokenStart, TokenRequest, Begin, ReqOK
  <2> QED BY <1>2, <2>1, <2>2
<1>4. ASSUME NEW h \in Handlers, NEW k \in Keys, NEW code, VerifyToken(h, k, code) PROVE Used'
  <2>1. ~ At(h, "verify", "apply")' /\ UNCHANGED tokenVars
    BY <1>1, <1>4 DEF VerifyToken, TokenRequest, Begin, At, ReqOK
  <2>2. \A g \in Handlers \ {h} : req'[g] = req[g]
    BY <1>1, <1>4 DEF VerifyToken, TokenRequest, Begin, ReqOK
  <2> QED BY <1>2, <2>1, <2>2
<1>5. ASSUME NEW h \in Handlers, NEW k \in Keys, DeleteOld(h, k) PROVE Used'
  <2>1. \A g \in Handlers \ {h} : req'[g] = req[g]
    BY <1>1, <1>5, ReqMoves DEF DeleteOld
  <2>2. ~ At(h, "verify", "apply")'
    <3>1. CASE Goto(h, "store", 0)
      <4>1. req'[h].at = "store"
        BY <1>1, <3>1, ReqMoves
      <4> QED BY <4>1 DEF At
    <3>2. CASE End(h)
      <4>1. req'[h] = Idle /\ Idle.op = "idle"
        BY <1>1, <3>2, ReqMoves DEF Idle
      <4> QED BY <4>1 DEF At
    <3> QED BY <1>5, <3>1, <3>2 DEF DeleteOld
  <2>3. token' = token \/ token' = [token EXCEPT ![k] = NoToken]
    BY <1>5 DEF DeleteOld
  <2>4. /\ \A l \in Keys \ {k} : token'[l] = token[l]
        /\ token'[k] \in {token[k], NoToken}
    BY <1>0, <2>3 DEF TokensInv, TokensTypeOK
  <2>5. \A l \in Keys : ~ Is(h, "verify", "apply", l)'
    BY <2>2 DEF Is, At
  <2>6. UNCHANGED <<issued, accepted>>
    BY <1>5 DEF DeleteOld
  <2> QED BY <1>0, <1>1, <2>1, <2>4, <2>5, <2>6, NoUse
<1>6. ASSUME NEW h \in Handlers, NEW k \in Keys, ExpireToken(h, k) PROVE Used'
  <2>1. \A g \in Handlers \ {h} : req'[g] = req[g]
    BY <1>1, <1>6, ReqMoves DEF ExpireToken
  <2>2. UNCHANGED <<issued, accepted>>
    BY <1>6 DEF ExpireToken
  <2>3. req'[h].arg = k \/ req'[h] = Idle
    <3>1. req[h].arg = k
      BY <1>6 DEF ExpireToken, Is
    <3> QED BY <1>1, <1>6, <3>1, ReqMoves DEF ExpireToken
  <2>4. \A l \in Keys \ {k} : ~ Is(h, "verify", "apply", l)'
    <3>1. Idle.op = "idle"
      BY DEF Idle
    <3> QED BY <2>3, <3>1 DEF Is, At
  <2>5. CASE Stored(k)
    <3>1. token' = [token EXCEPT ![k] = NoToken]
      BY <1>6, <2>5 DEF ExpireToken
    <3>2. token'[k] = NoToken /\ \A l \in Keys \ {k} : token'[l] = token[l]
      BY <1>0, <3>1 DEF TokensInv, TokensTypeOK
    <3> QED BY <1>0, <1>1, <2>1, <2>2, <2>4, <2>5, <3>2, NoUse
  <2>6. CASE ~ Stored(k)
    <3>1. UNCHANGED token /\ End(h)
      BY <1>6, <2>6 DEF ExpireToken
    <3>2. ~ Is(h, "verify", "apply", k)'
      BY <1>1, <3>1 DEF End, Is, At, Idle, ReqOK
    <3> QED BY <1>0, <1>1, <2>1, <2>2, <2>4, <3>1, <3>2, NoUse
  <2> QED BY <2>5, <2>6
<1>7. ASSUME NEW h \in Handlers, Abort(h), UNCHANGED tokenVars PROVE Used'
  <2>1. ~ At(h, "verify", "apply")' /\ \A g \in Handlers \ {h} : req'[g] = req[g]
    BY <1>1, <1>7 DEF Abort, At, Idle, ReqOK
  <2> QED BY <1>2, <1>7, <2>1
\* A request that ends where it was not about to act on a token.
<1>8. ASSUME NEW h \in Handlers, NEW k \in Keys, Store(h, k) PROVE Used'
  <2>1. /\ req' = [req EXCEPT ![h] = Idle] /\ UNCHANGED accepted
    BY <1>8 DEF Store, End
  <2>2. ~ At(h, "verify", "apply")' /\ \A g \in Handlers \ {h} : req'[g] = req[g]
    BY <1>1, <2>1 DEF At, Idle, ReqOK
  <2>3. CASE Stored(k)
    BY <1>2, <1>8, <2>2, <2>3 DEF Store, tokenVars
  <2>4. CASE ~ Stored(k)
    <3> SUFFICES ASSUME NEW l \in Keys PROVE Count(l)' <= issued'[l]
      BY DEF Used
    <3>1. /\ Cardinality(Applying(l)') <= Cardinality(Applying(l))
          /\ Cardinality(Applying(l)') \in Nat
      BY <1>1, <2>2, ApplyingShrinks DEF Is, At
    <3>2. /\ issued' = [issued EXCEPT ![k] = issued[k] + 1]
          /\ token' = [token EXCEPT ![k] = [code |-> issued[k] + 1, createdAt |-> now]]
      BY <1>8, <2>4 DEF Store
    <3>3. Count(l)' = Len(accepted[l]) + Cardinality(Applying(l)') + (IF Stored(l)' THEN 1 ELSE 0)
      BY <2>1 DEF Count
    <3>4. Cardinality(Applying(l)) \in Nat /\ Len(accepted[l]) \in Nat /\ issued[l] \in Nat
      BY <1>1, ApplyingFinite
    <3>5. CASE l = k
      <4>1. issued'[l] = issued[l] + 1
        BY <1>0, <3>2, <3>5 DEF TokensInv, TokensTypeOK
      <4>2. Len(accepted[l]) + Cardinality(Applying(l)) + 0 <= issued[l]
        BY <1>1, <2>4, <3>5 DEF Count
      <4> QED BY <3>1, <3>3, <3>4, <4>1, <4>2
    <3>6. CASE l # k
      <4>1. issued'[l] = issued[l] /\ Stored(l)' = Stored(l)
        BY <1>0, <3>2, <3>6 DEF TokensInv, TokensTypeOK, Stored
      <4>2. Count(l) <= issued[l]
        BY <1>1
      <4> QED BY <3>1, <3>3, <3>4, <4>1, <4>2 DEF Count
    <3> QED BY <3>5, <3>6
  <2> QED BY <2>3, <2>4
<1>9. ASSUME NEW h \in Handlers, NEW k \in Keys, Apply(h, k) PROVE Used'
  <2> SUFFICES ASSUME NEW l \in Keys PROVE Count(l)' <= issued'[l]
    BY DEF Used
  <2>1. /\ req' = [req EXCEPT ![h] = Idle] /\ UNCHANGED <<token, issued>>
        /\ Is(h, "verify", "apply", k)
        /\ accepted' = [accepted EXCEPT ![k] = Append(accepted[k], req[h].seen)]
    BY <1>9 DEF Apply, End
  <2>2. ~ Is(h, "verify", "apply", l)' /\ \A g \in Handlers \ {h} : req'[g] = req[g]
    BY <1>1, <2>1 DEF Is, At, Idle, ReqOK
  <2>3. /\ Cardinality(Applying(l)') <= Cardinality(Applying(l))
        /\ Cardinality(Applying(l)') \in Nat
        /\ Is(h, "verify", "apply", l) =>
             Cardinality(Applying(l)') = Cardinality(Applying(l)) - 1
    BY <1>1, <2>2, ApplyingShrinks
  <2>4. /\ Cardinality(Applying(l)) \in Nat /\ Len(accepted[l]) \in Nat
        /\ issued[l] \in Nat /\ Count(l) <= issued[l] /\ Stored(l)' = Stored(l)
    BY <1>1, <2>1, ApplyingFinite DEF Stored
  <2>5. Count(l)' = Len(accepted'[l]) + Cardinality(Applying(l)') + (IF Stored(l) THEN 1 ELSE 0)
    BY <2>4 DEF Count
  <2>6. CASE l = k
    <3>1. req[h].seen \in Nat /\ accepted[l] \in Seq(Nat)
      BY <1>0, <1>1 DEF ReqOK, TokenRequests, TokensInv, TokensTypeOK
    <3>2. accepted'[l] = Append(accepted[l], req[h].seen)
      BY <1>0, <2>1, <2>6 DEF TokensInv, TokensTypeOK
    <3>3. Len(accepted'[l]) = Len(accepted[l]) + 1
      BY <3>1, <3>2
    <3>4. Cardinality(Applying(l)') = Cardinality(Applying(l)) - 1
      BY <2>1, <2>3, <2>6
    <3> QED BY <2>1, <2>4, <2>5, <3>3, <3>4 DEF Count
  <2>7. CASE l # k
    <3>1. accepted'[l] = accepted[l]
      BY <1>0, <2>1, <2>7 DEF TokensInv, TokensTypeOK
    <3> QED BY <2>1, <2>3, <2>4, <2>5, <3>1 DEF Count
  <2> QED BY <2>6, <2>7
<1>10. CASE TokensTick \/ UNCHANGED tokensVars
  <2>1. UNCHANGED <<req, token, issued, accepted>>
    BY <1>10 DEF TokensTick, tokensVars, tokenVars, requestVars
  <2> QED BY <1>1, <2>1 DEF Used, Count, Stored, Applying, Is, At
<1> QED
  BY <1>3, <1>4, <1>5, <1>6, <1>7, <1>8, <1>9, <1>10 DEF TokensNext, CreateToken, Use

\* However requests race, fail and repeat, no more tokens of a key are acted on than have
\* been stored for it.
THEOREM EveryUseTakesItsToken == TokensSpec => []EveryUseTakesOne
<1>1. UsedInv => EveryUseTakesOne
  BY DEF UsedInv, Used, Count, EveryUseTakesOne
<1> QED BY <1>1, UsedInit, UsedStep, PTL DEF TokensSpec

-----------------------------------------------------------------------------
(* The newest token is live.  A second invariant says where the newest token of a key  *)
(* is: in its row, used, or about to be replaced or acted on by a request in flight.   *)

Newest(k) ==
    \/ issued[k] = 0 \/ Stored(k)
    \/ \E i \in DOMAIN accepted[k] : accepted[k][i] = issued[k]
    \/ \E h \in Handlers : Is(h, "create", "store", k)
    \/ \E h \in Handlers : Is(h, "verify", "apply", k) /\ req[h].seen = issued[k]

\* A request in flight is about its key; a verification that keeps apart has the newest.
Marked(h) ==
    /\ req[h].op = "create" => req[h].arg \in Keys /\ req[h].on = Sending(req[h].arg, h)
    /\ req[h].op = "verify" => req[h].arg \in Keys /\ req[h].on = Entering(req[h].arg)
    /\ Apart /\ req[h].op = "verify" => req[h].seen = issued[req[h].arg]

NewestInv ==
    /\ TokensInv /\ Exclusive
    /\ \A k \in Keys : Stored(k) => token[k].code = issued[k]
    /\ \A h \in Handlers : Marked(h)
    /\ Apart /\ ~ failing => \A k \in Keys : Newest(k)

\* A request arrives.
LEMMA NewestBegins ==
    ASSUME NewestInv, TokensInv', NEW h \in Handlers, NEW k \in Keys, NEW op \in {"create", "verify"},
           NEW at, NEW on, NEW code, TokenRequest(h, op, at, on, k, code),
           on = IF op = "create" THEN Sending(k, h) ELSE Entering(k),
           op = "verify" => code = issued[k]
    PROVE  NewestInv'
<1> DEFINE r == [op |-> op, at |-> at, by |-> 0, on |-> on, arg |-> k, seen |-> code]
<1>1. /\ Begin(h, r) /\ req' = [req EXCEPT ![h] = r] /\ ~ Busy(h)
      /\ UNCHANGED <<token, issued, accepted, manner, failing>>
  BY DEF TokenRequest, Begin, tokenVars
<1>2. r.op = op /\ r.arg = k /\ r.on = on /\ r.seen = code
  OBVIOUS
<1> HIDE DEF r
<1>3. req'[h] = r /\ (\A g \in Handlers \ {h} : req'[g] = req[g]) /\ DOMAIN req = Handlers
  BY <1>1 DEF NewestInv, TokensInv, ReqOK
<1>4. Exclusive'
  BY <1>1, <1>3, ExclusiveBegin DEF NewestInv
<1>5. ASSUME NEW g \in Handlers PROVE Marked(g)'
  <2>1. CASE g = h
    BY <1>1, <1>2, <1>3, <2>1 DEF Marked, Sending, Entering, Apart
  <2>2. CASE g # h
    BY <1>1, <1>3, <2>2 DEF NewestInv, Marked, Sending, Entering, Apart
  <2> QED BY <2>1, <2>2
<1>6. ASSUME NEW l \in Keys, Newest(l) PROVE Newest(l)'
  <2>1. \A g \in Handlers : Is(g, "create", "store", l) \/ Is(g, "verify", "apply", l) =>
            req'[g] = req[g]
    BY <1>1, <1>3 DEF Is, At, Busy
  <2> QED BY <1>1, <1>6, <2>1 DEF Newest, Is, At, Stored
<1> QED BY <1>1, <1>4, <1>5, <1>6 DEF NewestInv, Stored, Apart

\* A request about k goes on, or ends.
LEMMA NewestGoesOn ==
    ASSUME NewestInv, TokensInv', NEW h \in Handlers, NEW k \in Keys, NEW r,
           Busy(h), req[h].arg = k, req' = [req EXCEPT ![h] = r], UNCHANGED <<manner, failing>>,
           (r.op # "idle" => /\ r.op = req[h].op /\ r.by = req[h].by
                             /\ r.on = req[h].on /\ r.arg = k),
           (r.op = "verify" => r.seen = req[h].seen),
           \A l \in Keys \ {k} : UNCHANGED <<token[l], issued[l], accepted[l]>>,
           (issued'[k] = issued[k] \/ (req[h].op = "create" /\ r.op = "idle")),
           (Stored(k)' => token'[k].code = issued'[k]),
           (Apart /\ ~ failing => Newest(k)')
    PROVE  NewestInv'
<1>1. /\ DOMAIN req = Handlers /\ Exclusive /\ req'[h] = r
      /\ \A g \in Handlers \ {h} : req'[g] = req[g]
  BY DEF NewestInv, TokensInv, ReqOK
<1>2. Exclusive'
  BY <1>1, ExclusiveGoesOn
<1>3. ASSUME NEW g \in Handlers \ {h} PROVE Marked(g)'
  <2>1. Marked(g) /\ Marked(h) /\ req'[g] = req[g]
    BY <1>1 DEF NewestInv
  <2>2. CASE UNCHANGED issued[req[g].arg]
    BY <2>1, <2>2 DEF Marked, Sending, Entering, Apart
  <2>3. CASE req[g].op = "verify" /\ ~ UNCHANGED issued[req[g].arg]
    <3>1. req[g].arg = k /\ req[h].op = "create"
      BY <2>1, <2>3 DEF Marked
    <3>2. <<"send", k, h>> \in req[g].on /\ <<"send", k, h>> \in req[h].on /\ Busy(g)
      BY <2>1, <2>3, <3>1 DEF Marked, Sending, Entering, Busy
    <3>3. ~ Apart
      BY <1>1, <3>2, OneInFlight
    <3> QED BY <2>1, <3>3 DEF Marked, Sending, Entering, Apart
  <2>4. CASE req[g].op # "verify"
    BY <2>1, <2>4 DEF Marked, Sending, Entering, Apart
  <2> QED BY <2>2, <2>3, <2>4
<1>4. Marked(h)'
  <2>1. Marked(h)
    BY DEF NewestInv
  <2> QED BY <1>1, <2>1 DEF Marked, Sending, Entering, Apart
<1>5. ASSUME NEW l \in Keys \ {k} PROVE Stored(l)' => token'[l].code = issued'[l]
  BY DEF NewestInv, Stored
<1>6. ASSUME NEW l \in Keys \ {k}, Newest(l) PROVE Newest(l)'
  <2>1. \A g \in Handlers : Is(g, "create", "store", l) \/ Is(g, "verify", "apply", l) =>
            req'[g] = req[g]
    BY <1>1 DEF Is, At
  <2> QED BY <1>6, <2>1 DEF Newest, Is, At, Stored
<1> QED BY <1>2, <1>3, <1>4, <1>5, <1>6 DEF NewestInv, Apart

\* What a slot holds that goes on, or ends.
LEMMA SlotGoesOn ==
    ASSUME ReqOK, NEW h \in Handlers, NEW at, NEW seen, Goto(h, at, seen)
    PROVE  \E r : /\ req' = [req EXCEPT ![h] = r] /\ UNCHANGED <<manner, failing>>
                  /\ r.op = req[h].op /\ r.by = req[h].by /\ r.on = req[h].on
                  /\ r.arg = req[h].arg /\ r.at = at /\ r.seen = seen
<1>1. req[h] \in TokenRequests
  BY DEF ReqOK
<1> DEFINE r == [req[h] EXCEPT !.at = at, !.seen = seen]
<1>2. req' = [req EXCEPT ![h] = r] /\ UNCHANGED <<manner, failing>>
  BY DEF Goto
<1>3. /\ r.op = req[h].op /\ r.by = req[h].by /\ r.on = req[h].on
      /\ r.arg = req[h].arg /\ r.at = at /\ r.seen = seen
  BY <1>1 DEF TokenRequests
<1> HIDE DEF r
<1> QED BY <1>2, <1>3

\* The row is deleted, and the request goes on.
LEMMA NewestDeleted ==
    ASSUME NewestInv, TokensInv', NEW h \in Handlers, Busy(h), NEW k \in Keys, req[h].arg = k,
           token'[k] = NoToken, \A l \in Keys \ {k} : token'[l] = token[l],
           UNCHANGED <<issued, accepted>>,
           \/ req[h].op = "create" /\ Goto(h, "store", 0)
           \/ req[h].op = "verify" /\ Goto(h, "apply", req[h].seen)
    PROVE  NewestInv'
<1>1. ReqOK
  BY DEF NewestInv, TokensInv
<1>2. PICK r : /\ req' = [req EXCEPT ![h] = r] /\ UNCHANGED <<manner, failing>>
               /\ r.op = req[h].op /\ r.by = req[h].by /\ r.on = req[h].on /\ r.arg = k
               /\ r.op = "create" => r.at = "store"
               /\ r.op = "verify" => r.at = "apply" /\ r.seen = req[h].seen
  BY <1>1, SlotGoesOn
<1>3. req'[h] = r
  BY <1>1, <1>2 DEF ReqOK
<1>4. ~ Stored(k)'
  BY DEF Stored
<1>5. Apart => Newest(k)'
  <2>1. CASE req[h].op = "create"
    <3>1. Is(h, "create", "store", k)'
      BY <1>2, <1>3, <2>1 DEF Is, At
    <3> QED BY <3>1 DEF Newest
  <2>2. CASE req[h].op = "verify"
    <3>1. Is(h, "verify", "apply", k)' /\ req'[h].seen = req[h].seen
      BY <1>2, <1>3, <2>2 DEF Is, At
    <3>2. Apart => req[h].seen = issued[k]
      BY <2>2 DEF NewestInv, Marked
    <3> QED BY <3>1, <3>2 DEF Newest
  <2> QED BY <2>1, <2>2
<1> QED BY <1>2, <1>4, <1>5, NewestGoesOn

\* A request that finds nothing to do ends.
LEMMA NewestEnds ==
    ASSUME NewestInv, TokensInv', NEW h \in Handlers, NEW k \in Keys, req[h].arg = k,
           Busy(h), End(h), UNCHANGED <<token, issued, accepted>>,
           Stored(k) \/ ~ Is(h, "create", "store", k), ~ Is(h, "verify", "apply", k)
    PROVE  NewestInv'
<1>1. req' = [req EXCEPT ![h] = Idle] /\ UNCHANGED <<manner, failing>>
      /\ \A g \in Handlers \ {h} : req'[g] = req[g]
  BY DEF End, NewestInv, TokensInv, ReqOK
<1>2. Idle.op = "idle"
  BY DEF Idle
<1>3. Stored(k)' => token'[k].code = issued'[k]
  BY DEF NewestInv, Stored
<1>4. ASSUME Apart, ~ failing PROVE Newest(k)'
  <2>1. Newest(k)
    BY <1>4 DEF NewestInv
  <2>2. CASE Stored(k)
    BY <2>2 DEF Newest, Stored
  <2>3. CASE ~ Stored(k)
    <3>1. \A g \in Handlers : Is(g, "create", "store", k) \/ Is(g, "verify", "apply", k) =>
            req'[g] = req[g]
      BY <1>1, <2>3
    <3> QED BY <2>1, <2>3, <3>1 DEF Newest, Is, At
  <2> QED BY <2>2, <2>3
<1> HIDE DEF Idle
<1> QED BY <1>1, <1>2, <1>3, <1>4, NewestGoesOn

LEMMA NewestInvInit == RequestsInit /\ TokensInit => NewestInv
<1> SUFFICES ASSUME RequestsInit, TokensInit PROVE NewestInv
  OBVIOUS
<1>1. \A h \in Handlers : req[h].op = "idle"
  BY DEF RequestsInit, Idle
<1>2. Exclusive /\ \A h \in Handlers : Marked(h)
  BY <1>1 DEF Exclusive, Busy, Marked
<1>3. \A k \in Keys : ~ Stored(k) /\ Newest(k)
  BY DEF TokensInit, Stored, Newest
<1> QED BY <1>2, <1>3, TokensInitType DEF NewestInv

LEMMA NewestStored ==
    ASSUME NewestInv, TokensInv', NEW h \in Handlers, NEW k \in Keys, Store(h, k)
    PROVE  NewestInv'
<1>1. /\ Is(h, "create", "store", k) /\ End(h) /\ UNCHANGED accepted
      /\ Busy(h) /\ req[h].arg = k /\ req[h].op = "create"
  BY DEF Store, Is, At, Busy
<1>2. CASE Stored(k)
  <2>1. UNCHANGED <<token, issued>> /\ ~ Is(h, "verify", "apply", k)
    BY <1>1, <1>2 DEF Store, Is, At
  <2> QED BY <1>1, <1>2, <2>1, NewestEnds
<1>3. CASE ~ Stored(k)
  <2> DEFINE row == [code |-> issued[k] + 1, createdAt |-> now]
  <2>1. /\ issued' = [issued EXCEPT ![k] = issued[k] + 1]
        /\ token' = [token EXCEPT ![k] = row]
    BY <1>3 DEF Store
  <2>2. /\ issued \in [Keys -> Nat] /\ token \in [Keys -> [code : Nat, createdAt : Nat]]
        /\ row.code = issued[k] + 1
    BY DEF NewestInv, TokensInv, TokensTypeOK
  <2> HIDE DEF row
  <2>3. /\ issued'[k] = issued[k] + 1 /\ issued[k] \in Nat /\ token'[k] = row
        /\ \A l \in Keys \ {k} : issued'[l] = issued[l] /\ token'[l] = token[l]
    BY <2>1, <2>2
  <2>4. Stored(k)' /\ token'[k].code = issued'[k]
    BY <2>2, <2>3 DEF Stored, NoToken
  <2>5. Newest(k)'
    BY <2>4 DEF Newest
  <2>6. req' = [req EXCEPT ![h] = Idle] /\ UNCHANGED <<manner, failing>> /\ Idle.op = "idle"
    BY <1>1 DEF End, Idle
  <2> HIDE DEF Idle
  <2> QED BY <1>1, <2>3, <2>4, <2>5, <2>6, NewestGoesOn
<1> QED BY <1>2, <1>3

LEMMA NewestApplied ==
    ASSUME NewestInv, TokensInv', NEW h \in Handlers, NEW k \in Keys, Apply(h, k)
    PROVE  NewestInv'
<1>1. /\ req[h].op = "verify" /\ Busy(h) /\ req[h].arg = k /\ UNCHANGED <<token, issued>>
      /\ accepted' = [accepted EXCEPT ![k] = Append(accepted[k], req[h].seen)]
  BY DEF Apply, Is, At, Busy
<1>2. req' = [req EXCEPT ![h] = Idle] /\ UNCHANGED <<manner, failing>> /\ Idle.op = "idle"
  BY DEF Apply, End, Idle
<1>3. accepted \in [Keys -> Seq(Nat)] /\ req[h].seen \in Nat
  BY DEF NewestInv, TokensInv, TokensTypeOK, ReqOK, TokenRequests
<1>4. /\ accepted'[k] = Append(accepted[k], req[h].seen)
      /\ \A l \in Keys \ {k} : accepted'[l] = accepted[l]
  BY <1>1, <1>3
<1>5. Apart => req[h].seen = issued[k]
  BY <1>1 DEF NewestInv, Marked
<1>6. Len(accepted[k]) + 1 \in DOMAIN accepted'[k]
      /\ accepted'[k][Len(accepted[k]) + 1] = req[h].seen
  BY <1>3, <1>4
<1>7. Apart => Newest(k)'
  BY <1>1, <1>5, <1>6 DEF Newest
<1>8. Stored(k)' => token'[k].code = issued'[k]
  BY <1>1 DEF NewestInv, Stored
<1> HIDE DEF Idle
<1> QED BY <1>1, <1>2, <1>4, <1>7, <1>8, NewestGoesOn

LEMMA NewestInvStep == NewestInv /\ [TokensNext]_tokensVars => NewestInv'
<1> SUFFICES ASSUME NewestInv, [TokensNext]_tokensVars PROVE NewestInv'
  OBVIOUS
<1>1. TokensInv' /\ TokensTypeOK /\ ReqOK
  BY TokensStepType DEF NewestInv, TokensInv
<1>0. ASSUME NEW k \in Keys, token' = [token EXCEPT ![k] = NoToken]
      PROVE  token'[k] = NoToken /\ \A l \in Keys \ {k} : token'[l] = token[l]
  BY <1>0, <1>1 DEF TokensTypeOK
<1>2. ASSUME NEW h \in Handlers, NEW k \in Keys, CreateTokenStart(h, k) PROVE NewestInv'
  <2>1. \E at : TokenRequest(h, "create", at, Sending(k, h), k, 0)
    BY <1>2 DEF CreateTokenStart
  <2> QED BY <1>1, <2>1, NewestBegins
<1>3. ASSUME NEW h \in Handlers, NEW k \in Keys, NEW code \in 1..issued[k],
             VerifyToken(h, k, code)
      PROVE  NewestInv'
  <2>1. code = issued[k]
    BY <1>3 DEF VerifyToken, NewestInv
  <2> QED BY <1>1, <1>3, <2>1, NewestBegins DEF VerifyToken
<1>4. ASSUME NEW h \in Handlers, NEW k \in Keys, DeleteOld(h, k) PROVE NewestInv'
  <2>1. /\ req[h].op = "create" /\ req[h].at = "delete" /\ req[h].arg = k /\ Busy(h)
        /\ UNCHANGED <<issued, accepted>>
    BY <1>4 DEF DeleteOld, Is, At, Busy
  <2>2. CASE Stored(k)
    BY <1>0, <1>1, <1>4, <2>1, <2>2, NewestDeleted DEF DeleteOld
  <2>3. CASE ~ Stored(k)
    BY <1>1, <1>4, <2>1, <2>3, NewestEnds DEF DeleteOld, Is, At
  <2> QED BY <2>2, <2>3
<1>5. ASSUME NEW h \in Handlers, NEW k \in Keys, ExpireToken(h, k) PROVE NewestInv'
  <2>1. /\ req[h].op = "verify" /\ req[h].at = "expire" /\ req[h].arg = k /\ Busy(h)
        /\ UNCHANGED <<issued, accepted>>
    BY <1>5 DEF ExpireToken, Is, At, Busy
  <2>2. CASE Stored(k)
    BY <1>0, <1>1, <1>5, <2>1, <2>2, NewestDeleted DEF ExpireToken
  <2>3. CASE ~ Stored(k)
    BY <1>1, <1>5, <2>1, <2>3, NewestEnds DEF ExpireToken, Is, At
  <2> QED BY <2>2, <2>3
<1>6. ASSUME NEW h \in Handlers, Abort(h), UNCHANGED tokenVars PROVE NewestInv'
  <2>1. /\ req' = [req EXCEPT ![h] = Idle] /\ UNCHANGED <<manner, failing>> /\ failing
        /\ Idle.op = "idle" /\ Busy(h) /\ UNCHANGED <<token, issued, accepted>>
    BY <1>6 DEF Abort, Idle, tokenVars
  <2>2. req[h].op \in {"create", "verify"}
    BY <1>1, <2>1 DEF ReqOK, TokenRequests, Ops, Busy
  <2>3. PICK k \in Keys : k = req[h].arg
    BY <2>2 DEF NewestInv, Marked
  <2>4. Stored(k)' => token'[k].code = issued'[k]
    BY <2>1 DEF NewestInv, Stored
  <2> HIDE DEF Idle
  <2> QED BY <1>1, <2>1, <2>3, <2>4, NewestGoesOn
<1>7. CASE TokensTick \/ UNCHANGED tokensVars
  <2>1. UNCHANGED <<req, manner, failing, token, issued, accepted>>
    BY <1>7 DEF TokensTick, tokensVars, tokenVars, requestVars
  <2> QED BY <1>1, <2>1 DEF NewestInv, Exclusive, Waits, Busy, Marked, Newest, Stored, Is, At,
                            Sending, Entering, Apart
<1> QED
  BY <1>1, <1>2, <1>3, <1>4, <1>5, <1>6, <1>7, NewestStored, NewestApplied
  DEF TokensNext, CreateToken, Use

\* If verifications keep apart and no query rejects, the last token mailed for a key is
\* stored or used once every request for it is answered: the strengthening says which
\* request in flight has it meanwhile.
THEOREM NewestTokenIsLive == TokensSpec => []NewestIsLive
<1>1. ASSUME NewestInv PROVE NewestIsLive
  <2> SUFFICES ASSUME Apart, ~ failing, NEW k \in Keys
               PROVE  \/ issued[k] = 0 \/ token[k].code = issued[k]
                      \/ \E i \in DOMAIN accepted[k] : accepted[k][i] = issued[k]
                      \/ Requested(k, "create") \/ Requested(k, "verify")
    BY DEF NewestIsLive, Apart
  <2>1. Newest(k) /\ (Stored(k) => token[k].code = issued[k])
    BY <1>1 DEF NewestInv
  <2> QED BY <2>1 DEF Newest, Requested, Is, At
<1> QED BY <1>1, NewestInvInit, NewestInvStep, PTL DEF TokensSpec

-----------------------------------------------------------------------------
(* Accounts: what a request is, and what is known of it. *)

Moves == {"pending", "blocked"}
Decisions == Emails \X BOOLEAN
AccountRow == [registered : BOOLEAN, verified : BOOLEAN, disabled : BOOLEAN, admin : BOOLEAN]
VerificationRow ==
    [of : Emails, status : {"pending", "blocked", "completed"}, verified : BOOLEAN]
BanEntry == [of : Emails, banned : BOOLEAN]
Flags == [verified : BOOLEAN, disabled : BOOLEAN]

AccountRequests ==
    [op : {"idle", "register", "update", "ask", "move", "verify", "ban", "role"},
     at : {"", "store", "check", "write", "row", "account"},
     by : Emails \cup SuperAdmins \cup {0}, on : SUBSET ({"account"} \X Emails),
     arg : Emails \cup Moves \cup Decisions \cup {0}, seen : Nat \cup Flags]

\* A ban that says b of a has been recorded.
Recorded(a, b) == \E i \in DOMAIN ban : ban[i].of = a /\ ban[i].banned = b

\* What is known of a request in flight: what it is about is there, a ban whose row is
\* written is on record, and so is the one of an account that an update has read disabled.
Known(r) ==
    /\ r.op \in {"register", "ask"} => r.arg \in Emails
    /\ r.op = "update" => /\ r.arg \in Emails /\ Registered(r.arg) /\ r.seen \in Flags
                          /\ r.seen.disabled => Recorded(r.arg, TRUE)
    /\ r.op = "move" => r.arg \in Moves /\ r.seen \in Ids
    /\ r.op \in {"verify", "ban", "role"} => r.arg \in Decisions /\ Registered(r.arg[1])
    /\ r.op = "verify" /\ r.at = "row" => r.seen \in Ids
    /\ r.op = "ban" /\ r.at = "account" => Recorded(r.arg[1], r.arg[2])

InFlight == req \in [Handlers -> AccountRequests] /\ \A h \in Handlers : Known(req[h])

AccountsInv == AccountsTypeOK /\ DisabledOnRecord /\ InFlight /\ IsFiniteSet(Ids)

-----------------------------------------------------------------------------
(* What a step keeps, and what its request becomes. *)

\* Nothing that is known of a request is lost: there are no deletions.
Grows ==
    /\ Ids \subseteq Ids'
    /\ \A a \in Emails : Registered(a) => Registered(a)'
    /\ \A a \in Emails, b \in BOOLEAN : Recorded(a, b) => Recorded(a, b)'

LEMMA IdleKnown == Idle \in AccountRequests /\ Known(Idle)
  BY DEF Idle, AccountRequests, Known

LEMMA DecisionParts ==
    ASSUME NEW d \in Decisions
    PROVE  d[1] \in Emails /\ d[2] \in BOOLEAN
  BY DEF Decisions

LEMMA KnownKept ==
    ASSUME Grows, NEW r \in AccountRequests, Known(r)
    PROVE  Known(r)'
<1>1. r.op \in {"verify", "ban", "role"} => Registered(r.arg[1])'
  BY DecisionParts DEF Known, Grows
<1>2. r.op = "ban" /\ r.at = "account" => Recorded(r.arg[1], r.arg[2])'
  BY DecisionParts DEF Known, Grows
<1>3. r.op = "update" => Registered(r.arg)' /\ (r.seen.disabled => Recorded(r.arg, TRUE)')
  BY DEF Known, Grows
<1> QED BY <1>1, <1>2, <1>3 DEF Known, Grows

LEMMA SlotKept ==
    ASSUME InFlight, Grows, NEW h \in Handlers, NEW r \in AccountRequests,
           req' = [req EXCEPT ![h] = r], Known(r)'
    PROVE  InFlight'
<1>1. req' \in [Handlers -> AccountRequests]
  BY DEF InFlight
<1>2. ASSUME NEW g \in Handlers PROVE Known(req[g])'
  <2>1. CASE g = h
    BY <2>1 DEF InFlight
  <2>2. CASE g # h
    <3>1. req'[g] = req[g] /\ Known(req[g]) /\ req[g] \in AccountRequests
      BY <2>2 DEF InFlight
    <3>2. Known(req[g])'
      <4>1. ASSUME NEW q \in AccountRequests, Known(q) PROVE Known(q)'
        BY <4>1, KnownKept
      <4> QED BY <3>1, <4>1
    <3> QED BY <3>2
  <2> QED BY <2>1, <2>2
<1> QED BY <1>1, <1>2 DEF InFlight

\* Nothing but a slot changes.
LEMMA SlotOnly ==
    ASSUME AccountsInv, NEW h \in Handlers, NEW r \in AccountRequests,
           req' = [req EXCEPT ![h] = r], UNCHANGED accountVars, Known(r)
    PROVE  AccountsInv'
<1>1. Grows
  BY DEF Grows, Ids, Registered, Recorded, accountVars
<1>2. Known(r)'
  BY <1>1, KnownKept
<1>3. InFlight'
  BY <1>1, <1>2, SlotKept DEF AccountsInv
<1> QED BY <1>3 DEF AccountsInv, AccountsTypeOK, DisabledOnRecord, accountVars, Ids, Registered

\* A request ends.
LEMMA EndKept ==
    ASSUME InFlight, Grows, NEW h \in Handlers, End(h)
    PROVE  InFlight'
<1>1. Idle \in AccountRequests /\ Known(Idle)'
  BY IdleKnown DEF Known, Idle
<1> QED BY <1>1, SlotKept DEF End

\* A request goes on to another query.
Next1(r, at) == [r EXCEPT !.at = at, !.seen = 0]
LEMMA GoesOnTyped ==
    ASSUME NEW r \in AccountRequests, NEW at \in {"store", "account"}
    PROVE  /\ Next1(r, at) \in AccountRequests
           /\ Next1(r, at).op = r.op /\ Next1(r, at).at = at /\ Next1(r, at).arg = r.arg
           /\ Next1(r, at).by = r.by /\ Next1(r, at).on = r.on
  BY DEF AccountRequests, Next1

LEMMA GotoSlot ==
    ASSUME NEW h \in Handlers, NEW at, Goto(h, at, 0)
    PROVE  req' = [req EXCEPT ![h] = Next1(req[h], at)]
  BY DEF Goto, Next1

\* The account of a is written: it stays registered, and flags are set only of one that is.
LEMMA AccountWrite ==
    ASSUME AccountsInv, NEW h \in Handlers, NEW a \in Emails, NEW row \in AccountRow,
           End(h), UNCHANGED <<verification, ban>>, account' = [account EXCEPT ![a] = row],
           Registered(a) => row.registered,
           row.verified \/ row.disabled \/ row.admin => row.registered,
           row.disabled => account[a].disabled \/ Recorded(a, TRUE)
    PROVE  AccountsInv'
<1>1. /\ account' \in [Emails -> AccountRow]
      /\ account'[a] = row
      /\ \A c \in Emails \ {a} : account'[c] = account[c]
  BY DEF AccountsInv, AccountsTypeOK, AccountRow
<1>2. Grows
  BY <1>1 DEF Grows, Ids, Registered, Recorded
<1>3. AccountsTypeOK'
  BY <1>1 DEF AccountsInv, AccountsTypeOK, AccountRow, Ids, Registered
<1>4. DisabledOnRecord'
  <2> SUFFICES ASSUME NEW c \in Emails, account'[c].disabled PROVE Recorded(c, TRUE)'
    BY DEF DisabledOnRecord, Recorded
  <2>1. Recorded(c, TRUE)
    BY <1>1 DEF AccountsInv, DisabledOnRecord, Recorded
  <2> QED BY <1>2, <2>1 DEF Grows
<1>5. InFlight'
  BY <1>2, EndKept DEF AccountsInv
<1> QED BY <1>3, <1>4, <1>5 DEF AccountsInv, Ids

\* A row of a request for verification is updated.
LEMMA VerificationWrite ==
    ASSUME AccountsInv, NEW h \in Handlers, NEW i \in Ids, NEW row \in VerificationRow,
           UNCHANGED <<account, ban>>, verification' = [verification EXCEPT ![i] = row]
    PROVE  Grows /\ AccountsTypeOK' /\ DisabledOnRecord' /\ IsFiniteSet(Ids)'
<1>1. /\ Ids' = Ids
      /\ verification'[i] = row
      /\ \A j \in Ids \ {i} : verification'[j] = verification[j]
  BY DEF Ids
<1>2. \A j \in Ids' : verification'[j] \in VerificationRow
  BY <1>1 DEF AccountsInv, AccountsTypeOK, VerificationRow
<1>3. Grows
  BY <1>1 DEF Grows, Registered, Recorded
<1> QED BY <1>1, <1>2, <1>3
        DEF AccountsInv, AccountsTypeOK, DisabledOnRecord, VerificationRow, Registered

-----------------------------------------------------------------------------
(* One lemma for each kind of step. *)

\* A request arrives.
LEMMA Arrives ==
    ASSUME AccountsInv, NEW h \in Handlers, NEW a \in Emails,
           NEW op \in {"register", "update", "ask", "move", "verify", "ban", "role"},
           NEW at \in {"store", "check", "write", "row"}, NEW by \in Emails \cup SuperAdmins,
           NEW arg \in Emails \cup Moves \cup Decisions, NEW seen \in Nat \cup Flags,
           op \in {"register", "ask"} => arg \in Emails,
           op = "update" => /\ arg \in Emails /\ Registered(arg) /\ seen \in Flags
                            /\ seen.disabled => Recorded(arg, TRUE),
           op = "move" => arg \in Moves /\ seen \in Ids,
           op \in {"verify", "ban", "role"} => arg \in Decisions /\ Registered(arg[1]),
           op = "verify" => seen \in Ids,
           AccountRequest(h, op, at, by, a, arg, seen)
    PROVE  AccountsInv'
<1> DEFINE r == [op |-> op, at |-> at, by |-> by, on |-> {<<"account", a>>},
                 arg |-> arg, seen |-> seen]
<1>1. r \in AccountRequests
  <2>1. {<<"account", a>>} \in SUBSET ({"account"} \X Emails)
    OBVIOUS
  <2> QED BY <2>1 DEF AccountRequests
<1>2. Known(r)
  BY DEF Known
<1>3. req' = [req EXCEPT ![h] = r] /\ UNCHANGED accountVars
  BY DEF AccountRequest, Begin
<1> HIDE DEF r
<1> QED BY <1>1, <1>2, <1>3, SlotOnly

\* A request ends, and nothing else happens.
LEMMA EndsAccount ==
    ASSUME AccountsInv, NEW h \in Handlers, End(h) \/ Abort(h), UNCHANGED accountVars
    PROVE  AccountsInv'
  BY IdleKnown, SlotOnly DEF End, Abort

LEMMA RegisterStep ==
    ASSUME AccountsInv, NEW h \in Handlers, RegisterStore(h)
    PROVE  AccountsInv'
<1> DEFINE a == req[h].arg
<1>1. a \in Emails
  BY DEF RegisterStore, At, AccountsInv, InFlight, Known
<1>2. CASE Registered(a)
  BY <1>2, EndsAccount DEF RegisterStore, accountVars
<1>3. CASE ~ Registered(a)
  <2>1. /\ account' = [account EXCEPT ![a] = NewAccount] /\ End(h)
        /\ UNCHANGED <<verification, ban>>
    BY <1>3 DEF RegisterStore
  <2>2. /\ NewAccount \in AccountRow /\ NewAccount.registered
        /\ ~ NewAccount.disabled
    BY DEF NewAccount, NoAccount, AccountRow
  <2> QED BY <1>1, <2>1, <2>2, AccountWrite
<1> QED BY <1>2, <1>3

LEMMA UpdateStep ==
    ASSUME AccountsInv, NEW h \in Handlers, UpdateAccount(h)
    PROVE  AccountsInv'
<1>1. ASSUME NEW p \in Emails, NEW a \in Emails, UpdateStart(h, p, a) PROVE AccountsInv'
  <2> DEFINE seen == [verified |-> account[a].verified, disabled |-> account[a].disabled]
  <2>1. account[a] \in AccountRow
    BY DEF AccountsInv, AccountsTypeOK, AccountRow
  <2>2. seen \in Flags /\ (seen.disabled => Recorded(a, TRUE))
    BY <2>1 DEF Flags, AccountRow, AccountsInv, DisabledOnRecord, Recorded
  <2>3. AccountRequest(h, "update", "write", p, a, a, seen) /\ Registered(a)
    BY <1>1 DEF UpdateStart
  <2> HIDE DEF seen
  <2> QED BY <2>2, <2>3, Arrives
<1>2. CASE UpdateWrite(h)
  <2> DEFINE a == req[h].arg
             seen == req[h].seen
             row == [account[a] EXCEPT !.verified = seen.verified, !.disabled = seen.disabled]
  <2>1. a \in Emails /\ Registered(a) /\ seen \in Flags /\ (seen.disabled => Recorded(a, TRUE))
    BY <1>2 DEF UpdateWrite, At, AccountsInv, InFlight, Known
  <2>2. account[a] \in AccountRow /\ seen.verified \in BOOLEAN /\ seen.disabled \in BOOLEAN
    BY <2>1 DEF AccountsInv, AccountsTypeOK, AccountRow, Flags
  <2>3. row \in AccountRow /\ row.registered /\ row.disabled = seen.disabled
    BY <2>1, <2>2 DEF AccountRow, Registered
  <2>4. /\ account' = [account EXCEPT ![a] = row] /\ End(h)
        /\ UNCHANGED <<verification, ban>>
    <3>1. /\ account' = [account EXCEPT ![a].verified = seen.verified,
                                       ![a].disabled = seen.disabled]
          /\ End(h) /\ UNCHANGED <<verification, ban>>
      BY <1>2 DEF UpdateWrite
    <3>2. /\ account \in [Emails -> AccountRow] /\ account' \in [Emails -> AccountRow]
          /\ \A c \in Emails : account'[c] = IF c = a THEN row ELSE account[c]
      BY <2>1, <2>2, <3>1 DEF AccountsInv, AccountsTypeOK, AccountRow
    <3>3. account' = [account EXCEPT ![a] = row]
      BY <3>2
    <3> QED BY <3>1, <3>3
  <2> HIDE DEF row, a, seen
  <2> QED BY <2>1, <2>3, <2>4, AccountWrite
<1> QED BY <1>1, <1>2 DEF UpdateAccount

LEMMA AskStep ==
    ASSUME AccountsInv, NEW h \in Handlers, CreateVerificationRequest(h)
    PROVE  AccountsInv'
<1>1. ASSUME NEW a \in Emails, AskStart(h, a) PROVE AccountsInv'
  BY <1>1, Arrives DEF AskStart
<1>2. ASSUME AskCheck(h), Goto(h, "store", 0) PROVE AccountsInv'
  <2> DEFINE r == Next1(req[h], "store")
  <2>1. req[h] \in AccountRequests /\ Known(req[h]) /\ req[h].op = "ask"
    BY <1>2 DEF AccountsInv, InFlight, AskCheck, At
  <2>2. r \in AccountRequests /\ Known(r)
    BY <2>1, GoesOnTyped DEF Known
  <2>3. req' = [req EXCEPT ![h] = r] /\ UNCHANGED accountVars
    BY <1>2, GotoSlot DEF AskCheck
  <2> HIDE DEF r
  <2> QED BY <2>2, <2>3, SlotOnly
<1>3. CASE AskCheck(h)
  BY <1>2, <1>3, EndsAccount DEF AskCheck
<1>4. CASE AskStore(h)
  <2> DEFINE row == [of |-> req[h].arg, status |-> "pending", verified |-> FALSE]
             n == NextId(verification)
  <2>1. req[h].arg \in Emails
    BY <1>4 DEF AskStore, At, AccountsInv, InFlight, Known
  <2>2. row \in VerificationRow
    BY <2>1 DEF VerificationRow
  <2> HIDE DEF row
  <2>3. verification' = Insert(verification, row) /\ End(h) /\ UNCHANGED <<account, ban>>
    BY <1>4 DEF AskStore, row
  <2>4. n \in Nat
    BY FS_CardinalityType DEF AccountsInv, NextId, Ids
  <2>5. /\ Ids' = Ids \cup {n}
        /\ \A i \in Ids' : verification'[i] = (IF i \in Ids THEN verification[i] ELSE row)
    <3>1. verification' = [i \in Ids \cup {n} |-> IF i \in Ids THEN verification[i] ELSE row]
      BY <2>3 DEF Insert, Ids
    <3> HIDE DEF n
    <3>2. DOMAIN verification' = Ids \cup {n}
      BY <3>1
    <3>3. \A i \in Ids \cup {n} :
            verification'[i] = (IF i \in Ids THEN verification[i] ELSE row)
      BY <3>1
    <3>4. Ids' = DOMAIN verification'
      BY DEF Ids
    <3> QED BY <3>2, <3>3, <3>4
  <2>6. IsFiniteSet(Ids')
    BY <2>5, FS_AddElement DEF AccountsInv
  <2>7. \A i \in Ids' : verification'[i] \in VerificationRow
    BY <2>2, <2>5 DEF AccountsInv, AccountsTypeOK, VerificationRow
  <2>8. AccountsTypeOK'
    BY <2>3, <2>4, <2>5, <2>7 DEF AccountsInv, AccountsTypeOK, VerificationRow, Registered
  <2>9. Grows
    BY <2>3, <2>5 DEF Grows, Registered, Recorded
  <2>10. InFlight'
    BY <2>3, <2>9, EndKept DEF AccountsInv
  <2> QED BY <2>3, <2>6, <2>8, <2>10 DEF AccountsInv, DisabledOnRecord
<1> QED BY <1>1, <1>3, <1>4 DEF CreateVerificationRequest

LEMMA MoveStep ==
    ASSUME AccountsInv, NEW h \in Handlers, MoveVerificationRequest(h)
    PROVE  AccountsInv'
<1>1. ASSUME NEW p \in Emails, NEW i \in Ids, NEW from, NEW to \in Moves,
             MoveStart(h, p, i, from, to)
      PROVE  AccountsInv'
  <2>1. i \in Nat /\ verification[i].of \in Emails
    BY DEF AccountsInv, AccountsTypeOK
  <2> QED BY <1>1, <2>1, Arrives DEF MoveStart
<1>2. CASE MoveWrite(h)
  <2> DEFINE i == req[h].seen
             row == [verification[i] EXCEPT !.status = req[h].arg]
  <2>1. i \in Ids /\ req[h].arg \in Moves
    BY <1>2 DEF MoveWrite, At, AccountsInv, InFlight, Known
  <2>2. verification[i] \in VerificationRow
    BY <2>1 DEF AccountsInv, AccountsTypeOK, VerificationRow
  <2>3. row \in VerificationRow
    BY <2>1, <2>2 DEF VerificationRow, Moves
  <2>4. /\ verification' = [verification EXCEPT ![i] = row] /\ End(h)
        /\ UNCHANGED <<account, ban>>
    BY <1>2 DEF MoveWrite
  <2> HIDE DEF row, i
  <2>5. Grows /\ AccountsTypeOK' /\ DisabledOnRecord' /\ IsFiniteSet(Ids)'
    BY <2>1, <2>3, <2>4, VerificationWrite
  <2>6. InFlight'
    BY <2>4, <2>5, EndKept DEF AccountsInv
  <2> QED BY <2>5, <2>6 DEF AccountsInv
<1> QED BY <1>1, <1>2 DEF MoveVerificationRequest, Moves

LEMMA VerifyStep ==
    ASSUME AccountsInv, NEW h \in Handlers, VerifyAccount(h)
    PROVE  AccountsInv'
<1>1. ASSUME NEW p \in Emails, NEW a \in Emails, NEW b \in BOOLEAN,
             VerifyStart(h, p, a, b)
      PROVE  AccountsInv'
  <2>1. PICK i \in Open(a) : AccountRequest(h, "verify", "row", p, a, <<a, b>>, i)
    BY <1>1 DEF VerifyStart
  <2>2. i \in Ids /\ i \in Nat
    BY DEF Open, AccountsInv, AccountsTypeOK
  <2>3. <<a, b>> \in Decisions /\ <<a, b>>[1] = a /\ Registered(a)
    BY <1>1 DEF Decisions, VerifyStart
  <2> QED BY <2>1, <2>2, <2>3, Arrives
<1>2. CASE VerifyRow(h)
  <2> DEFINE i == req[h].seen
             row == [verification[i] EXCEPT !.status = "completed", !.verified = req[h].arg[2]]
  <2>1. /\ i \in Ids /\ req[h].arg \in Decisions /\ Registered(req[h].arg[1])
        /\ req[h] \in AccountRequests /\ req[h].op = "verify"
    BY <1>2 DEF VerifyRow, At, AccountsInv, InFlight, Known
  <2>2. verification[i] \in VerificationRow /\ req[h].arg[2] \in BOOLEAN
        /\ req[h].arg[1] \in Emails
    BY <2>1, DecisionParts DEF AccountsInv, AccountsTypeOK, VerificationRow
  <2>3. row \in VerificationRow
    BY <2>2 DEF VerificationRow
  <2>4. /\ verification' = [verification EXCEPT ![i] = row]
        /\ Goto(h, "account", 0) /\ UNCHANGED <<account, ban>>
    <3>1. /\ verification' = [verification EXCEPT ![i].status = "completed",
                                                  ![i].verified = req[h].arg[2]]
          /\ Goto(h, "account", 0) /\ UNCHANGED <<account, ban>>
      BY <1>2 DEF VerifyRow
    <3>2. DOMAIN verification' = Ids /\ verification' = [j \in Ids |-> verification'[j]]
      BY <3>1 DEF Ids
    <3>3. \A j \in Ids : verification'[j] = IF j = i THEN row ELSE verification[j]
      BY <2>1, <2>2, <3>1 DEF Ids, VerificationRow
    <3>4. verification' = [j \in Ids |-> IF j = i THEN row ELSE verification[j]]
      BY <3>2, <3>3
    <3> QED BY <3>1, <3>4 DEF Ids
  <2> HIDE DEF row
  <2>5. Grows /\ AccountsTypeOK' /\ DisabledOnRecord' /\ IsFiniteSet(Ids)'
    BY <2>1, <2>3, <2>4, VerificationWrite
  <2>6. PICK r \in AccountRequests : /\ r = Next1(req[h], "account")
                                     /\ r.op = "verify" /\ r.at = "account" /\ r.arg = req[h].arg
    BY <2>1, GoesOnTyped
  <2>7. Known(r)'
    BY <2>1, <2>2, <2>5, <2>6 DEF Known, Grows
  <2>8. InFlight'
    <3>1. req' = [req EXCEPT ![h] = r]
      BY <2>4, <2>6, GotoSlot
    <3> QED BY <2>5, <2>7, <3>1, SlotKept DEF AccountsInv
  <2> QED BY <2>5, <2>8 DEF AccountsInv
<1>3. CASE VerifyFlag(h)
  <2> DEFINE a == req[h].arg[1]
             row == [account[a] EXCEPT !.verified = req[h].arg[2]]
  <2>1. a \in Emails /\ req[h].arg[2] \in BOOLEAN /\ Registered(a)
    BY <1>3, DecisionParts DEF VerifyFlag, At, AccountsInv, InFlight, Known
  <2>2. account[a] \in AccountRow
    BY <2>1 DEF AccountsInv, AccountsTypeOK, AccountRow
  <2>3. row \in AccountRow /\ row.registered /\ row.disabled = account[a].disabled
    BY <2>1, <2>2 DEF AccountRow, Registered
  <2>4. /\ account' = [account EXCEPT ![a] = row] /\ End(h)
        /\ UNCHANGED <<verification, ban>>
    BY <1>3 DEF VerifyFlag
  <2> HIDE DEF row, a
  <2> QED BY <2>1, <2>3, <2>4, AccountWrite
<1> QED BY <1>1, <1>2, <1>3 DEF VerifyAccount

LEMMA BanStep ==
    ASSUME AccountsInv, NEW h \in Handlers, BanAccount(h)
    PROVE  AccountsInv'
<1>1. ASSUME NEW p \in Emails, NEW a \in Emails, NEW b \in BOOLEAN, BanStart(h, p, a, b)
      PROVE  AccountsInv'
  <2>1. <<a, b>> \in Decisions /\ <<a, b>>[1] = a
    BY DEF Decisions
  <2> QED BY <1>1, <2>1, Arrives DEF BanStart
<1>2. CASE BanRow(h)
  <2> DEFINE e == [of |-> req[h].arg[1], banned |-> req[h].arg[2]]
  <2>1. /\ req[h].arg \in Decisions /\ Registered(req[h].arg[1])
        /\ req[h] \in AccountRequests /\ req[h].op = "ban"
    BY <1>2 DEF BanRow, At, AccountsInv, InFlight, Known
  <2>2. req[h].arg[1] \in Emails /\ req[h].arg[2] \in BOOLEAN
    BY <2>1, DecisionParts
  <2>3. e \in BanEntry
    BY <2>2 DEF BanEntry
  <2>4. ban' = Append(ban, e) /\ Goto(h, "account", 0) /\ UNCHANGED <<account, verification>>
    BY <1>2 DEF BanRow
  <2>5. e.of = req[h].arg[1] /\ e.banned = req[h].arg[2]
    OBVIOUS
  <2> HIDE DEF e
  <2>6. /\ ban' \in Seq(BanEntry)
        /\ Len(ban) + 1 \in DOMAIN ban' /\ ban'[Len(ban) + 1] = e
        /\ \A i \in DOMAIN ban : i \in DOMAIN ban' /\ ban'[i] = ban[i]
    BY <2>3, <2>4 DEF AccountsInv, AccountsTypeOK, BanEntry
  <2>7. Grows
    BY <2>4, <2>6 DEF Grows, Ids, Registered, Recorded
  <2>8. AccountsTypeOK'
    BY <2>4, <2>6 DEF AccountsInv, AccountsTypeOK, BanEntry, Ids, Registered
  <2>9. DisabledOnRecord'
    BY <2>4, <2>6 DEF AccountsInv, DisabledOnRecord
  <2>10. PICK r \in AccountRequests : /\ r = Next1(req[h], "account")
                                      /\ r.op = "ban" /\ r.arg = req[h].arg
    BY <2>1, GoesOnTyped
  <2>11. Recorded(r.arg[1], r.arg[2])'
    BY <2>5, <2>6, <2>10 DEF Recorded
  <2>12. Known(r)'
    BY <2>1, <2>2, <2>7, <2>10, <2>11 DEF Known, Grows
  <2>13. InFlight'
    <3>1. req' = [req EXCEPT ![h] = r]
      BY <2>4, <2>10, GotoSlot
    <3> QED BY <2>7, <2>12, <3>1, SlotKept DEF AccountsInv
  <2> QED BY <2>4, <2>8, <2>9, <2>13 DEF AccountsInv, Ids
<1>3. CASE BanFlag(h)
  <2> DEFINE a == req[h].arg[1]
             row == [account[a] EXCEPT !.disabled = req[h].arg[2]]
  <2>1. /\ a \in Emails /\ req[h].arg[2] \in BOOLEAN /\ Registered(a)
        /\ Recorded(a, req[h].arg[2])
    BY <1>3, DecisionParts DEF BanFlag, At, AccountsInv, InFlight, Known
  <2>2. account[a] \in AccountRow
    BY <2>1 DEF AccountsInv, AccountsTypeOK, AccountRow
  <2>3. row \in AccountRow /\ row.registered /\ row.disabled = req[h].arg[2]
    BY <2>1, <2>2 DEF AccountRow, Registered
  <2>4. /\ account' = [account EXCEPT ![a] = row] /\ End(h)
        /\ UNCHANGED <<verification, ban>>
    BY <1>3 DEF BanFlag
  <2>5. row.disabled => Recorded(a, TRUE)
    BY <2>1, <2>3
  <2> HIDE DEF row, a
  <2> QED BY <2>1, <2>3, <2>4, <2>5, AccountWrite
<1> QED BY <1>1, <1>2, <1>3 DEF BanAccount

LEMMA RoleStep ==
    ASSUME AccountsInv, NEW h \in Handlers, AdminRole(h)
    PROVE  AccountsInv'
<1>1. ASSUME NEW p \in SuperAdmins, NEW a \in Emails, NEW b \in BOOLEAN, RoleStart(h, p, a, b)
      PROVE  AccountsInv'
  <2>1. <<a, b>> \in Decisions /\ <<a, b>>[1] = a
    BY DEF Decisions
  <2> QED BY <1>1, <2>1, Arrives DEF RoleStart
<1>2. CASE RoleWrite(h)
  <2> DEFINE a == req[h].arg[1]
             row == [account[a] EXCEPT !.admin = req[h].arg[2]]
  <2>1. a \in Emails /\ req[h].arg[2] \in BOOLEAN /\ Registered(a)
    BY <1>2, DecisionParts DEF RoleWrite, At, AccountsInv, InFlight, Known
  <2>2. account[a] \in AccountRow
    BY <2>1 DEF AccountsInv, AccountsTypeOK, AccountRow
  <2>3. row \in AccountRow /\ row.registered /\ row.disabled = account[a].disabled
    BY <2>1, <2>2 DEF AccountRow, Registered
  <2>4. /\ account' = [account EXCEPT ![a] = row] /\ End(h)
        /\ UNCHANGED <<verification, ban>>
    BY <1>2 DEF RoleWrite
  <2> HIDE DEF row, a
  <2> QED BY <2>1, <2>3, <2>4, AccountWrite
<1> QED BY <1>1, <1>2 DEF AdminRole

-----------------------------------------------------------------------------

LEMMA AccountsInvInit == RequestsInit /\ AccountsInit => AccountsInv
<1> SUFFICES ASSUME RequestsInit, AccountsInit PROVE AccountsInv
  OBVIOUS
<1>1. NoAccount \in AccountRow /\ NewAccount \in AccountRow /\ NewAccount.registered
      /\ ~ NewAccount.disabled /\ ~ NoAccount.disabled
      /\ ~ NoAccount.verified /\ ~ NoAccount.admin
  BY DEF NoAccount, NewAccount, AccountRow
<1>2. Ids = {} /\ IsFiniteSet({})
  BY FS_EmptySet DEF AccountsInit, Ids
<1>3. \A a \in Emails : account[a] = NewAccount \/ account[a] = NoAccount
  BY DEF AccountsInit
<1>4. account \in [Emails -> AccountRow]
  BY <1>1 DEF AccountsInit
<1>5. AccountsTypeOK
  BY <1>1, <1>2, <1>3, <1>4 DEF AccountsInit, AccountsTypeOK, AccountRow, Registered
<1>6. DisabledOnRecord
  BY <1>1, <1>3 DEF DisabledOnRecord
<1>7. InFlight
  BY IdleKnown DEF RequestsInit, InFlight
<1> QED BY <1>2, <1>5, <1>6, <1>7 DEF AccountsInv

LEMMA AccountsInvStep == AccountsInv /\ [AccountsNext]_accountsVars => AccountsInv'
<1> SUFFICES ASSUME AccountsInv, [AccountsNext]_accountsVars PROVE AccountsInv'
  OBVIOUS
<1>1. ASSUME NEW h \in Handlers, NEW a \in Emails, RegisterStart(h, a) PROVE AccountsInv'
  BY <1>1, Arrives DEF RegisterStart
<1>2. ASSUME NEW h \in Handlers, Abort(h), UNCHANGED accountVars PROVE AccountsInv'
  BY <1>2, EndsAccount
<1>3. CASE UNCHANGED accountsVars
  BY <1>3 DEF accountsVars, requestVars, accountVars, AccountsInv, AccountsTypeOK,
              DisabledOnRecord, InFlight, Known, Recorded, Registered, Ids
<1> QED
  BY <1>1, <1>2, <1>3, RegisterStep, UpdateStep, AskStep, MoveStep, VerifyStep, BanStep, RoleStep
  DEF AccountsNext

\* Whatever requests race and fail, flags and rows belong to accounts that are there.
THEOREM AccountsTypeCorrect == AccountsSpec => []AccountsTypeOK
<1>1. AccountsInv => AccountsTypeOK
  BY DEF AccountsInv
<1> QED BY <1>1, AccountsInvInit, AccountsInvStep, PTL DEF AccountsSpec

\* Nobody is disabled without a ban on record, although the two are written by queries of
\* which either may fail: the strengthening says that a ban about to disable an account
\* has its row.
THEOREM DisabledWithRecord == AccountsSpec => []DisabledOnRecord
<1>1. AccountsInv => DisabledOnRecord
  BY DEF AccountsInv
<1> QED BY <1>1, AccountsInvInit, AccountsInvStep, PTL DEF AccountsSpec

-----------------------------------------------------------------------------
(* Requests for verification.  Two more facts need clients that keep requests about an *)
(* account apart, and what those in flight have read: a second invariant.              *)

\* A request of a has been decided in its favour.
Certified(a) ==
    \E i \in Ids : /\ verification[i].of = a /\ verification[i].verified
                   /\ verification[i].status = "completed"

Single(a) == \A i, j \in Open(a) : i = j

\* What a request in flight has read of its account is still so.
Settled(r) ==
    /\ r.op = "update" => /\ <<"account", r.arg>> \in r.on
                          /\ r.seen.verified => Certified(r.arg)
    /\ r.op = "ask" => <<"account", r.arg>> \in r.on
    /\ r.op = "ask" /\ r.at = "store" => Open(r.arg) = {}
    /\ r.op = "move" => /\ <<"account", verification[r.seen].of>> \in r.on
                        /\ r.seen \in Open(verification[r.seen].of)
    /\ r.op = "verify" => <<"account", r.arg[1]>> \in r.on
    /\ r.op = "verify" /\ r.at = "row" => r.seen \in Open(r.arg[1])
    /\ r.op = "verify" /\ r.at = "account" /\ r.arg[2] => Certified(r.arg[1])

Decided ==
    /\ \A a \in Emails : Single(a) /\ (account[a].verified => Certified(a))
    /\ \A h \in Handlers : Settled(req[h])

VerificationInv ==
    AccountsInv /\ Exclusive /\ Ids = 1..Cardinality(Ids) /\ (Apart => Decided)

LEMMA IdleSettled == Settled(Idle)
  BY DEF Settled, Idle

\* Only rows of a change, or are added.
OnlyRowsOf(a) ==
    /\ Ids \subseteq Ids'
    /\ \A i \in Ids' : \/ i \in Ids /\ verification'[i] = verification[i]
                       \/ verification'[i].of = a /\ (i \in Ids => verification[i].of = a)

LEMMA OthersKept ==
    ASSUME NEW a, OnlyRowsOf(a), NEW b \in Emails, b # a
    PROVE  /\ Open(b)' = Open(b)
           /\ Certified(b) => Certified(b)'
<1>1. \A i : i \in Open(b)' <=> i \in Open(b)
  BY DEF OnlyRowsOf, Open
<1>2. Open(b)' = Open(b)
  BY <1>1
<1>3. Certified(b) => Certified(b)'
  BY DEF OnlyRowsOf, Certified
<1> QED BY <1>2, <1>3

LEMMA SettledKept ==
    ASSUME AccountsInv, NEW a \in Emails, OnlyRowsOf(a), NEW r \in AccountRequests,
           Known(r), Settled(r), <<"account", a>> \notin r.on
    PROVE  Settled(r)'
<1>1. CASE r.op = "ask"
  <2>1. r.arg \in Emails /\ r.arg # a
    BY <1>1 DEF Known, Settled
  <2>2. Open(r.arg)' = Open(r.arg)
    BY <2>1, OthersKept
  <2> QED BY <1>1, <2>2 DEF Settled
<1>2. CASE r.op = "move"
  <2>1. r.seen \in Ids /\ verification[r.seen].of \in Emails /\ verification[r.seen].of # a
    BY <1>2 DEF Known, Settled, AccountsInv, AccountsTypeOK
  <2>2. verification'[r.seen] = verification[r.seen]
    BY <2>1 DEF OnlyRowsOf
  <2>3. r.seen \in Open(verification[r.seen].of)'
    BY <1>2, <2>1, <2>2 DEF Settled, Open, OnlyRowsOf
  <2> QED BY <1>2, <2>2, <2>3 DEF Settled
<1>3. CASE r.op = "verify"
  <2>1. r.arg[1] \in Emails /\ r.arg[1] # a
    BY <1>3, DecisionParts DEF Known, Settled
  <2>2. Open(r.arg[1])' = Open(r.arg[1]) /\ (Certified(r.arg[1]) => Certified(r.arg[1])')
    BY <2>1, OthersKept
  <2> QED BY <1>3, <2>2 DEF Settled
<1>4. CASE r.op = "update"
  <2>1. r.arg \in Emails /\ r.arg # a
    BY <1>4 DEF Known, Settled
  <2>2. Certified(r.arg) => Certified(r.arg)'
    BY <2>1, OthersKept
  <2> QED BY <1>4, <2>2 DEF Settled
<1> QED BY <1>1, <1>2, <1>3, <1>4 DEF Settled

\* A request arrives that has read of its account what is so.
LEMMA ArrivesSettled ==
    ASSUME VerificationInv, AccountsInv', NEW h \in Handlers, NEW r, Begin(h, r),
           UNCHANGED accountVars, Apart => Settled(r)
    PROVE  VerificationInv'
<1>1. UNCHANGED <<account, verification, manner>> /\ req' = [req EXCEPT ![h] = r]
  BY DEF accountVars, Begin
<1>2. DOMAIN req = Handlers /\ Exclusive
  BY DEF VerificationInv, AccountsInv, InFlight
<1>3. Exclusive'
  BY <1>2, ExclusiveBegin
<1>4. ASSUME Apart, NEW g \in Handlers PROVE Settled(req[g])'
  <2>1. ASSUME NEW q, Settled(q) PROVE Settled(q)'
    BY <1>1, <2>1 DEF Settled, Open, Certified, Ids
  <2>2. Settled(req'[g])
    BY <1>1, <1>2, <1>4 DEF VerificationInv, Decided
  <2> QED BY <2>1, <2>2
<1>5. Decided => \A a \in Emails : Single(a)' /\ (account'[a].verified => Certified(a)')
  BY <1>1 DEF Decided, Single, Open, Certified, Ids
<1> QED BY <1>1, <1>3, <1>4, <1>5 DEF VerificationInv, Decided, Apart, Ids

\* One goes on or ends that changes no row, and verifies an account only if that is decided.
LEMMA RowsStay ==
    ASSUME VerificationInv, AccountsInv', NEW h \in Handlers, NEW r,
           req' = [req EXCEPT ![h] = r], manner' = manner, UNCHANGED verification,
           r.op # "idle" => r.op = req[h].op /\ r.by = req[h].by /\ r.on = req[h].on,
           Apart => Settled(r),
           Apart => \A a \in Emails :
                        account'[a].verified => account[a].verified \/ Certified(a)
    PROVE  VerificationInv'
<1>2. DOMAIN req = Handlers /\ Exclusive
  BY DEF VerificationInv, AccountsInv, InFlight
<1>3. Exclusive'
  BY <1>2, ExclusiveGoesOn
<1>4. ASSUME Apart, NEW g \in Handlers PROVE Settled(req[g])'
  <2>1. ASSUME NEW q, Settled(q) PROVE Settled(q)'
    BY <2>1 DEF Settled, Open, Certified, Ids
  <2>2. Settled(req'[g])
    BY <1>2, <1>4 DEF VerificationInv, Decided
  <2> QED BY <2>1, <2>2
<1>5. ASSUME Apart, NEW a \in Emails
      PROVE  Single(a)' /\ (account'[a].verified => Certified(a)')
  BY <1>5 DEF VerificationInv, Decided, Single, Open, Certified, Ids
<1> QED BY <1>3, <1>4, <1>5 DEF VerificationInv, Decided, Apart, Ids

\* One goes on or ends that writes a row of its account.
LEMMA RowsOfOne ==
    ASSUME VerificationInv, AccountsInv', NEW h \in Handlers, NEW r, NEW a \in Emails,
           req' = [req EXCEPT ![h] = r], manner' = manner, UNCHANGED account,
           r.op # "idle" => r.op = req[h].op /\ r.by = req[h].by /\ r.on = req[h].on,
           Busy(h), OnlyRowsOf(a), Ids' = 1..Cardinality(Ids'),
           Apart => /\ <<"account", a>> \in req[h].on
                    /\ Single(a)' /\ Settled(r)' /\ (Certified(a) => Certified(a)')
    PROVE  VerificationInv'
<1>1. DOMAIN req = Handlers /\ Exclusive /\ AccountsInv
  BY DEF VerificationInv, AccountsInv, InFlight
<1>2. Exclusive'
  BY <1>1, ExclusiveGoesOn
<1>3. ASSUME Apart, NEW g \in Handlers PROVE Settled(req[g])'
  <2>1. CASE g = h
    BY <1>1, <1>3, <2>1
  <2>2. CASE g # h
    <3>1. /\ req'[g] = req[g] /\ req[g] \in AccountRequests
          /\ Known(req[g]) /\ Settled(req[g])
      BY <1>1, <1>3, <2>2 DEF VerificationInv, AccountsInv, InFlight, Decided
    <3>2. ASSUME NEW q \in AccountRequests, Known(q), Settled(q), <<"account", a>> \notin q.on
          PROVE  Settled(q)'
      BY <1>1, <3>2, SettledKept
    <3>3. CASE <<"account", a>> \notin req[g].on
      BY <3>1, <3>2, <3>3
    <3>4. CASE <<"account", a>> \in req[g].on
      <4>1. ~ Busy(g)
        BY <1>1, <1>3, <2>2, <3>4, OneInFlight
      <4>2. req'[g].op = "idle"
        BY <3>1, <4>1 DEF Busy
      <4> QED BY <4>2 DEF Settled
    <3> QED BY <3>3, <3>4
  <2> QED BY <2>1, <2>2
<1>4. ASSUME Apart, NEW b \in Emails
      PROVE  Single(b)' /\ (account'[b].verified => Certified(b)')
  <2>1. Single(b) /\ (account[b].verified => Certified(b))
    BY <1>4 DEF VerificationInv, Decided
  <2>2. CASE b = a
    BY <1>4, <2>1, <2>2
  <2>3. CASE b # a
    <3>1. Open(b)' = Open(b) /\ (Certified(b) => Certified(b)')
      BY <2>3, OthersKept
    <3> QED BY <2>1, <3>1 DEF Single
  <2> QED BY <2>2, <2>3
<1> QED BY <1>2, <1>3, <1>4 DEF VerificationInv, Decided, Apart

-----------------------------------------------------------------------------

LEMMA VerificationInvInit == RequestsInit /\ AccountsInit => VerificationInv
<1> SUFFICES ASSUME RequestsInit, AccountsInit PROVE VerificationInv
  OBVIOUS
<1>1. AccountsInv
  BY AccountsInvInit
<1>2. Ids = {} /\ Cardinality(Ids) = 0
  BY FS_EmptySet DEF AccountsInit, Ids
<1>3. \A h \in Handlers : req[h].op = "idle"
  BY DEF RequestsInit, Idle
<1>4. Exclusive
  BY <1>3 DEF Exclusive, Busy
<1>5. \A a \in Emails : ~ account[a].verified /\ Open(a) = {}
  BY <1>2 DEF AccountsInit, NewAccount, NoAccount, Open
<1>6. Decided
  BY <1>3, <1>5 DEF Decided, Settled, Single
<1> QED BY <1>1, <1>2, <1>4, <1>6 DEF VerificationInv

\* A request ends, and no row is changed.
LEMMA EndsSettled ==
    ASSUME VerificationInv, AccountsInv', NEW h \in Handlers, End(h) \/ Abort(h),
           UNCHANGED verification,
           Apart => \A a \in Emails :
                        account'[a].verified => account[a].verified \/ Certified(a)
    PROVE  VerificationInv'
<1>1. req' = [req EXCEPT ![h] = Idle] /\ manner' = manner
  BY DEF End, Abort
<1>2. Idle.op = "idle" /\ Settled(Idle)
  BY IdleSettled DEF Idle
<1> HIDE DEF Idle
<1> QED BY <1>1, <1>2, RowsStay

LEMMA UpdateSettles ==
    ASSUME VerificationInv, AccountsInv', NEW h \in Handlers, UpdateAccount(h)
    PROVE  VerificationInv'
<1>0. AccountsInv /\ req[h] \in AccountRequests /\ Known(req[h])
  BY DEF VerificationInv, AccountsInv, InFlight
<1>1. ASSUME NEW p \in Emails, NEW a \in Emails, UpdateStart(h, p, a) PROVE VerificationInv'
  <2> DEFINE seen == [verified |-> account[a].verified, disabled |-> account[a].disabled]
             r == [op |-> "update", at |-> "write", by |-> p, on |-> {<<"account", a>>},
                   arg |-> a, seen |-> seen]
  <2>1. Apart => Settled(r)
    BY DEF Settled, VerificationInv, Decided
  <2>2. Begin(h, r) /\ UNCHANGED accountVars
    BY <1>1 DEF UpdateStart, AccountRequest
  <2> HIDE DEF r
  <2> QED BY <2>1, <2>2, ArrivesSettled
<1>2. CASE UpdateWrite(h)
  <2> DEFINE a == req[h].arg
             seen == req[h].seen
  <2>1. req[h].op = "update" /\ a \in Emails /\ seen \in Flags
    BY <1>0, <1>2 DEF UpdateWrite, At, Known
  <2>2. /\ account' = [account EXCEPT ![a].verified = seen.verified,
                                     ![a].disabled = seen.disabled]
        /\ End(h) /\ UNCHANGED verification
    BY <1>2 DEF UpdateWrite
  <2>3. account \in [Emails -> AccountRow]
    BY <1>0 DEF AccountsInv, AccountsTypeOK, AccountRow
  <2>4. \A c \in Emails :
            account'[c].verified = IF c = a THEN seen.verified ELSE account[c].verified
    BY <2>1, <2>2, <2>3 DEF AccountRow
  <2>5. Apart /\ seen.verified => Certified(a)
    BY <2>1 DEF VerificationInv, Decided, Settled
  <2> HIDE DEF a, seen
  <2>6. Apart => \A c \in Emails :
            account'[c].verified => account[c].verified \/ Certified(c)
    BY <2>4, <2>5
  <2> QED BY <2>2, <2>6, EndsSettled
<1> QED BY <1>1, <1>2 DEF UpdateAccount

LEMMA AskSettles ==
    ASSUME VerificationInv, AccountsInv', NEW h \in Handlers, CreateVerificationRequest(h)
    PROVE  VerificationInv'
<1>0. AccountsInv /\ req[h] \in AccountRequests /\ Known(req[h])
  BY DEF VerificationInv, AccountsInv, InFlight
<1>1. ASSUME NEW a \in Emails, AskStart(h, a) PROVE VerificationInv'
  <2> DEFINE r == [op |-> "ask", at |-> "check", by |-> a, on |-> {<<"account", a>>},
                   arg |-> a, seen |-> 0]
  <2>1. Settled(r)
    BY DEF Settled
  <2>2. Begin(h, r) /\ UNCHANGED accountVars
    BY <1>1 DEF AskStart, AccountRequest
  <2> HIDE DEF r
  <2> QED BY <2>1, <2>2, ArrivesSettled
<1>2. ASSUME AskCheck(h), Open(req[h].arg) = {}, Goto(h, "store", 0) PROVE VerificationInv'
  <2> DEFINE r == Next1(req[h], "store")
  <2>1. r.op = req[h].op /\ r.by = req[h].by /\ r.on = req[h].on
        /\ r.arg = req[h].arg /\ req[h].op = "ask"
    BY <1>0, <1>2, GoesOnTyped DEF AskCheck, At
  <2>2. Apart => Settled(req[h])
    BY DEF VerificationInv, Decided
  <2>3. Apart => Settled(r)
    BY <1>2, <2>1, <2>2 DEF Settled
  <2>4. req' = [req EXCEPT ![h] = r] /\ UNCHANGED <<account, verification, manner>>
    BY <1>2, GotoSlot DEF AskCheck, accountVars, Goto
  <2> HIDE DEF r
  <2> QED BY <2>1, <2>3, <2>4, RowsStay
<1>3. CASE AskCheck(h)
  BY <1>2, <1>3, EndsSettled DEF AskCheck, accountVars
<1>4. CASE AskStore(h)
  <2>0. PICK a \in Emails : a = req[h].arg /\ Busy(h)
    BY <1>0, <1>4 DEF AskStore, Known, At, Busy
  <2> DEFINE row == [of |-> a, status |-> "pending", verified |-> FALSE]
             n == NextId(verification)
  <2>1. /\ At(h, "ask", "store") /\ verification' = Insert(verification, row)
        /\ req' = [req EXCEPT ![h] = Idle] /\ UNCHANGED <<account, ban, manner>>
    BY <1>4, <2>0 DEF AskStore, End
  <2>3. row.of = a
    OBVIOUS
  <2> HIDE DEF row
  <2>4. /\ Ids' = Ids \cup {n} /\ n \notin Ids
        /\ Ids' = 1..Cardinality(Ids')
        /\ verification'[n] = row
        /\ \A i \in Ids : verification'[i] = verification[i]
    <3> DEFINE T == Insert(verification, row)
    <3>1. DOMAIN verification = 1..Cardinality(DOMAIN verification)
          /\ Cardinality(DOMAIN verification) \in Nat
      BY FS_CardinalityType DEF VerificationInv, AccountsInv, Ids
    <3>2. /\ DOMAIN T = DOMAIN verification \cup {n} /\ n \notin DOMAIN verification
          /\ DOMAIN T = 1..Cardinality(DOMAIN T)
          /\ T[n] = row /\ \A i \in DOMAIN verification : T[i] = verification[i]
      BY <3>1, InsertRow
    <3>3. verification' = T
      BY <2>1
    <3> HIDE DEF T
    <3> QED BY <3>2, <3>3 DEF Ids
  <2> HIDE DEF n
  <2>5. OnlyRowsOf(a)
    BY <2>3, <2>4 DEF OnlyRowsOf
  <2>6. Apart => Settled(req[h])
    BY DEF VerificationInv, Decided
  <2>7. Apart => <<"account", a>> \in req[h].on /\ Open(a) = {}
    BY <2>0, <2>1, <2>6 DEF Settled, At
  <2>8. ASSUME Apart PROVE Single(a)'
    <3>1. \A i \in Open(a)' : i = n
      BY <2>4, <2>7, <2>8 DEF Open
    <3> QED BY <3>1 DEF Single
  <2>9. Certified(a) => Certified(a)'
    BY <2>4 DEF Certified
  <2>10. Idle.op = "idle" /\ Settled(Idle)'
    BY DEF Idle, Settled
  <2> HIDE DEF Idle
  <2> QED BY <2>0, <2>1, <2>4, <2>5, <2>7, <2>8, <2>9, <2>10, RowsOfOne
<1> QED BY <1>1, <1>3, <1>4 DEF CreateVerificationRequest

\* A row that is open is written.
LEMMA RowWritten ==
    ASSUME VerificationInv, NEW i \in Ids, NEW row \in VerificationRow,
           NEW a, a = verification[i].of, row.of = a,
           verification' = [verification EXCEPT ![i] = row]
    PROVE  /\ OnlyRowsOf(a) /\ Ids' = 1..Cardinality(Ids')
           /\ verification'[i] = row
           /\ \A j : j \in Open(a)' => j \in Open(a) \/ (j = i /\ row.status # "completed")
           /\ i \in Open(a) => (Certified(a) => Certified(a)')
<1>1. /\ Ids' = Ids
      /\ verification'[i] = row
      /\ \A j \in Ids \ {i} : verification'[j] = verification[j]
  BY DEF Ids
<1>3. OnlyRowsOf(a) /\ Ids' = 1..Cardinality(Ids')
  BY <1>1 DEF OnlyRowsOf, VerificationInv
<1>4. \A j : j \in Open(a)' => j \in Open(a) \/ (j = i /\ row.status # "completed")
  BY <1>1 DEF Open
<1>5. ASSUME i \in Open(a), Certified(a) PROVE Certified(a)'
  <2>1. verification[i].status # "completed"
    BY <1>5 DEF Open
  <2> QED BY <1>1, <1>5, <2>1 DEF Certified
<1> QED BY <1>1, <1>3, <1>4, <1>5

LEMMA MoveSettles ==
    ASSUME VerificationInv, AccountsInv', NEW h \in Handlers, MoveVerificationRequest(h)
    PROVE  VerificationInv'
<1>0. AccountsInv /\ req[h] \in AccountRequests /\ Known(req[h])
  BY DEF VerificationInv, AccountsInv, InFlight
<1>1. ASSUME NEW p \in Emails, NEW i \in Ids, NEW from \in Moves, NEW to \in Moves,
             MoveStart(h, p, i, from, to)
      PROVE  VerificationInv'
  <2> DEFINE r == [op |-> "move", at |-> "write", by |-> p,
                   on |-> {<<"account", verification[i].of>>}, arg |-> to, seen |-> i]
  <2>1. Settled(r)
    BY <1>1 DEF Settled, MoveStart, Moves, Open
  <2>2. Begin(h, r) /\ UNCHANGED accountVars
    BY <1>1 DEF MoveStart, AccountRequest
  <2> HIDE DEF r
  <2> QED BY <2>1, <2>2, ArrivesSettled
<1>2. CASE MoveWrite(h)
  <2>0. PICK i \in Ids : i = req[h].seen
    BY <1>0, <1>2 DEF MoveWrite, At, Known
  <2>9. PICK a \in Emails : a = verification[i].of
    BY <1>0 DEF AccountsInv, AccountsTypeOK
  <2> DEFINE row == [verification[i] EXCEPT !.status = req[h].arg]
  <2>1. req[h].arg \in Moves /\ Busy(h) /\ req[h].op = "move"
    BY <1>0, <1>2 DEF MoveWrite, At, Known, Busy
  <2>2. verification[i] \in VerificationRow
    BY <1>0, <2>1 DEF AccountsInv, AccountsTypeOK, VerificationRow
  <2>3. row \in VerificationRow /\ row.of = a
    BY <2>1, <2>2, <2>9 DEF VerificationRow, Moves
  <2>4. /\ verification' = [verification EXCEPT ![i] = row]
        /\ req' = [req EXCEPT ![h] = Idle] /\ UNCHANGED <<account, manner>>
    BY <1>2, <2>0 DEF MoveWrite, End
  <2> HIDE DEF row
  <2>5. /\ OnlyRowsOf(a) /\ Ids' = 1..Cardinality(Ids')
        /\ \A j : j \in Open(a)' => j \in Open(a) \/ j = i
        /\ i \in Open(a) => (Certified(a) => Certified(a)')
    BY <2>3, <2>4, <2>9, RowWritten
  <2>6. ASSUME Apart PROVE <<"account", a>> \in req[h].on /\ i \in Open(a) /\ Single(a)
    BY <2>0, <2>1, <2>6, <2>9 DEF VerificationInv, Decided, Settled
  <2>7. Idle.op = "idle" /\ Settled(Idle)'
    BY DEF Idle, Settled
  <2> HIDE DEF Idle
  <2>8. Apart => Single(a)'
    BY <2>5, <2>6 DEF Single
  <2> QED BY <2>1, <2>4, <2>5, <2>6, <2>7, <2>8, RowsOfOne
<1> QED BY <1>1, <1>2 DEF MoveVerificationRequest, Moves

LEMMA VerifySettles ==
    ASSUME VerificationInv, AccountsInv', NEW h \in Handlers, VerifyAccount(h)
    PROVE  VerificationInv'
<1>0. AccountsInv /\ req[h] \in AccountRequests /\ Known(req[h])
  BY DEF VerificationInv, AccountsInv, InFlight
<1>1. ASSUME NEW p \in Emails, NEW a \in Emails, NEW b \in BOOLEAN,
             VerifyStart(h, p, a, b)
      PROVE  VerificationInv'
  <2>1. PICK i \in Open(a) : AccountRequest(h, "verify", "row", p, a, <<a, b>>, i)
    BY <1>1 DEF VerifyStart
  <2> DEFINE r == [op |-> "verify", at |-> "row", by |-> p, on |-> {<<"account", a>>},
                   arg |-> <<a, b>>, seen |-> i]
  <2>2. Settled(r)
    BY DEF Settled
  <2>3. Begin(h, r) /\ UNCHANGED accountVars
    BY <2>1 DEF AccountRequest
  <2> HIDE DEF r
  <2> QED BY <2>2, <2>3, ArrivesSettled
<1>2. CASE VerifyRow(h)
  <2>0. PICK i \in Ids, a \in Emails, c \in Emails :
            i = req[h].seen /\ a = req[h].arg[1] /\ c = verification[i].of
    BY <1>0, <1>2, DecisionParts DEF VerifyRow, At, Known, AccountsInv, AccountsTypeOK
  <2>9. PICK r : r = Next1(req[h], "account")
    OBVIOUS
  <2> DEFINE row == [verification[i] EXCEPT !.status = "completed", !.verified = req[h].arg[2]]
  <2>1. req[h].arg[2] \in BOOLEAN /\ Busy(h) /\ req[h].op = "verify"
    BY <1>0, <1>2, DecisionParts DEF VerifyRow, At, Known, Busy
  <2>2. verification[i] \in VerificationRow
    BY <1>0, <2>1 DEF AccountsInv, AccountsTypeOK, VerificationRow
  <2>3. row \in VerificationRow /\ row.of = c
        /\ row.status = "completed" /\ row.verified = req[h].arg[2]
    BY <2>0, <2>1, <2>2 DEF VerificationRow
  <2>4. /\ verification' = [verification EXCEPT ![i] = row]
        /\ Goto(h, "account", 0) /\ UNCHANGED <<account, manner>>
    <3>1. /\ verification' = [verification EXCEPT ![i].status = "completed",
                                                  ![i].verified = req[h].arg[2]]
          /\ Goto(h, "account", 0) /\ UNCHANGED <<account, manner>>
      BY <1>2, <2>0 DEF VerifyRow, Goto
    <3>2. DOMAIN verification' = Ids /\ verification' = [j \in Ids |-> verification'[j]]
      BY <3>1 DEF Ids
    <3>3. \A j \in Ids : verification'[j] = IF j = i THEN row ELSE verification[j]
      BY <2>1, <2>2, <3>1 DEF Ids, VerificationRow
    <3>4. verification' = [j \in Ids |-> IF j = i THEN row ELSE verification[j]]
      BY <3>2, <3>3
    <3> QED BY <3>1, <3>4 DEF Ids
  <2>5. /\ r.op = req[h].op /\ r.by = req[h].by /\ r.on = req[h].on
        /\ r.arg = req[h].arg /\ r.at = "account" /\ req' = [req EXCEPT ![h] = r]
    BY <1>0, <2>4, <2>9, GoesOnTyped, GotoSlot
  <2> HIDE DEF row
  <2>6. /\ OnlyRowsOf(c) /\ Ids' = 1..Cardinality(Ids')
        /\ verification'[i] = row
        /\ \A j : j \in Open(c)' => j \in Open(c)
        /\ i \in Open(c) => (Certified(c) => Certified(c)')
    BY <2>0, <2>3, <2>4, RowWritten
  <2>7. ASSUME Apart
        PROVE  <<"account", a>> \in req[h].on /\ i \in Open(a) /\ Single(a) /\ c = a
    <3>1. Settled(req[h]) /\ Single(a)
      BY <2>7 DEF VerificationInv, Decided
    <3>2. req[h].at = "row"
      BY <1>2 DEF VerifyRow, At
    <3> QED BY <2>0, <2>1, <3>1, <3>2 DEF Settled, Open
  <2>8. ASSUME Apart PROVE Single(c)' /\ Settled(r)' /\ (Certified(c) => Certified(c)')
    <3>1. Single(c)' /\ (Certified(c) => Certified(c)')
      BY <2>6, <2>7, <2>8 DEF Single
    <3>2. r.arg[2] => Certified(r.arg[1])'
      <4>1. i \in Ids' /\ verification'[i] = row
        BY <2>6 DEF OnlyRowsOf
      <4>2. r.arg[2] => Certified(c)'
        BY <2>3, <2>5, <4>1 DEF Certified
      <4> QED BY <2>0, <2>5, <2>7, <2>8, <4>2
    <3>3. <<"account", r.arg[1]>> \in r.on
      BY <2>0, <2>5, <2>7, <2>8
    <3> QED BY <2>1, <2>5, <3>1, <3>2, <3>3 DEF Settled
  <2> QED BY <2>1, <2>4, <2>5, <2>6, <2>7, <2>8, RowsOfOne
<1>3. CASE VerifyFlag(h)
  <2> DEFINE a == req[h].arg[1]
             row == [account[a] EXCEPT !.verified = req[h].arg[2]]
  <2>1. /\ a \in Emails /\ req[h].arg[2] \in BOOLEAN
        /\ req[h].op = "verify" /\ req[h].at = "account"
    BY <1>0, <1>3, DecisionParts DEF VerifyFlag, At, Known
  <2>2. account[a] \in AccountRow
    BY <1>0, <2>1 DEF AccountsInv, AccountsTypeOK, AccountRow
  <2>3. row.verified = req[h].arg[2]
    BY <2>2 DEF AccountRow
  <2>4. /\ account' = [account EXCEPT ![a] = row] /\ End(h) /\ UNCHANGED verification
    BY <1>3 DEF VerifyFlag
  <2> HIDE DEF row
  <2>5. account'[a] = row /\ \A c \in Emails \ {a} : account'[c] = account[c]
    BY <1>0, <2>1, <2>4 DEF AccountsInv, AccountsTypeOK
  <2>6. ASSUME Apart, req[h].arg[2] PROVE Certified(a)
    BY <2>1, <2>6 DEF VerificationInv, Decided, Settled
  <2>7. Apart => \A c \in Emails :
            account'[c].verified => account[c].verified \/ Certified(c)
    BY <2>3, <2>5, <2>6
  <2> QED BY <2>4, <2>7, EndsSettled
<1> QED BY <1>1, <1>2, <1>3 DEF VerifyAccount

\* Requests that write no row, and verify nobody.
LEMMA OthersSettle ==
    ASSUME VerificationInv, AccountsInv', NEW h \in Handlers,
           \/ RegisterStore(h) \/ BanAccount(h) \/ AdminRole(h)
           \/ \E a \in Emails : RegisterStart(h, a)
           \/ Abort(h) /\ UNCHANGED accountVars
    PROVE  VerificationInv'
<1>0. AccountsInv /\ req[h] \in AccountRequests /\ Known(req[h])
  BY DEF VerificationInv, AccountsInv, InFlight
<1>1. ASSUME NEW op \in {"register", "ban", "role"}, NEW at, NEW by, NEW a, NEW arg, NEW seen,
             AccountRequest(h, op, at, by, a, arg, seen)
      PROVE  VerificationInv'
  <2> DEFINE r == [op |-> op, at |-> at, by |-> by, on |-> {<<"account", a>>},
                   arg |-> arg, seen |-> seen]
  <2>1. Settled(r)
    BY DEF Settled
  <2>2. Begin(h, r) /\ UNCHANGED accountVars
    BY <1>1 DEF AccountRequest
  <2> HIDE DEF r
  <2> QED BY <2>1, <2>2, ArrivesSettled
<1>2. CASE RegisterStore(h)
  <2>1. End(h) /\ UNCHANGED verification
    BY <1>2 DEF RegisterStore
  <2>2. \A a \in Emails : account'[a].verified => account[a].verified
    <3>1. NewAccount.verified = FALSE
      BY DEF NewAccount, NoAccount
    <3> HIDE DEF NewAccount
    <3> QED BY <1>0, <1>2, <3>1 DEF RegisterStore, AccountsInv, AccountsTypeOK
  <2> QED BY <2>1, <2>2, EndsSettled
<1>3. CASE BanRow(h)
  <2> DEFINE r == Next1(req[h], "account")
  <2>1. r.op = req[h].op /\ r.by = req[h].by /\ r.on = req[h].on /\ req[h].op = "ban"
    BY <1>0, <1>3, GoesOnTyped DEF BanRow, At
  <2>2. Settled(r)
    BY <2>1 DEF Settled
  <2>3. req' = [req EXCEPT ![h] = r] /\ UNCHANGED <<account, verification, manner>>
    BY <1>3, GotoSlot DEF BanRow, Goto
  <2> HIDE DEF r
  <2> QED BY <2>1, <2>2, <2>3, RowsStay
<1>4. CASE BanFlag(h) \/ RoleWrite(h)
  <2>1. End(h) /\ UNCHANGED verification
    BY <1>4 DEF BanFlag, RoleWrite
  <2>2. \A a \in Emails : account'[a].verified = account[a].verified
    <3>1. account \in [Emails -> AccountRow]
      BY <1>0 DEF AccountsInv, AccountsTypeOK, AccountRow
    <3>2. \E e : \/ account' = [account EXCEPT ![e].disabled = req[h].arg[2]]
                \/ account' = [account EXCEPT ![e].admin = req[h].arg[2]]
      BY <1>4 DEF BanFlag, RoleWrite
    <3> QED BY <3>1, <3>2 DEF AccountRow
  <2> QED BY <2>1, <2>2, EndsSettled
<1>5. CASE Abort(h) /\ UNCHANGED accountVars
  BY <1>5, EndsSettled DEF accountVars
<1> QED
  BY <1>1, <1>2, <1>3, <1>4, <1>5
  DEF RegisterStart, BanAccount, BanStart, AdminRole, RoleStart

LEMMA VerificationInvStep ==
    VerificationInv /\ [AccountsNext]_accountsVars => VerificationInv'
<1> SUFFICES ASSUME VerificationInv, [AccountsNext]_accountsVars PROVE VerificationInv'
  OBVIOUS
<1>1. AccountsInv'
  BY AccountsInvStep DEF VerificationInv
<1>2. CASE UNCHANGED accountsVars
  BY <1>1, <1>2 DEF accountsVars, requestVars, accountVars, VerificationInv, Exclusive, Waits,
                    Busy, Decided, Settled, Single, Certified, Open, Ids, Apart
<1> QED
  BY <1>1, <1>2, UpdateSettles, AskSettles, MoveSettles, VerifySettles, OthersSettle DEF AccountsNext

\* While requests about an account keep apart, it is verified only with a request that
\* has been decided in its favour: the strengthening says so of a decision that has
\* written the request and not the account yet, however its queries fail.
THEOREM VerifiedWithRequest == AccountsSpec => []VerifiedOnRequest
<1>1. VerificationInv => VerifiedOnRequest
  BY DEF VerificationInv, Decided, Certified, VerifiedOnRequest, Apart
<1> QED BY <1>1, VerificationInvInit, VerificationInvStep, PTL DEF AccountsSpec

\* While they keep apart, nobody has two requests that are open: the strengthening says
\* that whoever is about to store one has none.
THEOREM OneRequestIsOpen == AccountsSpec => []OneOpenVerification
<1>1. ASSUME VerificationInv PROVE OneOpenVerification
  <2> SUFFICES ASSUME Apart, NEW a \in Emails PROVE Cardinality(Open(a)) <= 1
    BY DEF OneOpenVerification, Apart
  <2>1. Single(a)
    BY <1>1 DEF VerificationInv, Decided
  <2> QED BY <2>1, AtMostOne DEF Single
<1> QED BY <1>1, VerificationInvInit, VerificationInvStep, PTL DEF AccountsSpec
=============================================================================
