------------------------------ MODULE Accounts ------------------------------
(***************************************************************************)
(* Accounts and what administrators decide about them: AccountService      *)
(* (createAccount, updateAccount), AccountVerificationService and          *)
(* AdminAccountService.                                                    *)
(*                                                                         *)
(* An account asks to be verified, another one blocks, unblocks or decides *)
(* the request: only the methods that give and take the role of an         *)
(* administrator ask for one.  A decision writes the request and then the  *)
(* account, a ban writes a row of its own and then the account, and        *)
(* although either pair is given to $transaction its queries are made on   *)
(* the service's own connection: each commits by itself.                   *)
(*                                                                         *)
(* Accounts and requests are never deleted, so that the query that only    *)
(* looks up whether an account is there is part of the step after it.      *)
(***************************************************************************)
EXTENDS Requests, Sequences

CONSTANTS
    Emails,              \* the accounts there may be, each of its own address
    SuperAdmins,         \* those that give and take roles, there from the start
    MaxRequests, MaxBans \* bounds: requests for verification, bans and unbans

VARIABLES
    account,      \* by address
    verification, \* the rows of AccountVerification, by id
    ban           \* AccountBan: its rows, in order, only ever added to

accountVars == <<account, verification, ban>>

NoAccount == [registered |-> FALSE, verified |-> FALSE, disabled |-> FALSE, admin |-> FALSE]
NewAccount == [NoAccount EXCEPT !.registered = TRUE]
Registered(a) == account[a].registered

Ids == DOMAIN verification
Open(a) == {i \in Ids : verification[i].of = a /\ verification[i].status # "completed"}
Has(a, status) == \E i \in Open(a) : verification[i].status = status

AccountRequest(h, op, at, by, a, arg, seen) ==
    /\ Begin(h, [op |-> op, at |-> at, by |-> by, on |-> {<<"account", a>>},
                 arg |-> arg, seen |-> seen])
    /\ UNCHANGED accountVars

-----------------------------------------------------------------------------
(* AccountService. *)

\* createAccount, of register: no account has the address; its roles and its row, in one
\* query, which the unique key refuses if another request has stored it first.
RegisterStart(h, a) ==
    ~ Registered(a) /\ AccountRequest(h, "register", "store", a, a, a, 0)

RegisterStore(h) ==
    /\ At(h, "register", "store")
    /\ account' = IF Registered(req[h].arg) THEN account
                  ELSE [account EXCEPT ![req[h].arg] = NewAccount]
    /\ End(h)
    /\ UNCHANGED <<verification, ban>>

\* updateAccount, of anybody's account: its row is read, and all of it is written back
\* with the new password, the flags with it.
UpdateStart(h, p, a) ==
    /\ Registered(p) /\ Registered(a)
    /\ AccountRequest(h, "update", "write", p, a, a,
                      [verified |-> account[a].verified, disabled |-> account[a].disabled])

UpdateWrite(h) ==
    /\ At(h, "update", "write")
    /\ account' = [account EXCEPT ![req[h].arg].verified = req[h].seen.verified,
                                 ![req[h].arg].disabled = req[h].seen.disabled]
    /\ End(h)
    /\ UNCHANGED <<verification, ban>>

UpdateAccount(h) == (\E p, a \in Emails : UpdateStart(h, p, a)) \/ UpdateWrite(h)

-----------------------------------------------------------------------------
(* AccountVerificationService. *)

AskStart(h, a) ==
    /\ Registered(a) /\ ~ account[a].verified
    /\ AccountRequest(h, "ask", "check", a, a, a, 0)

\* Mutant: a request that is blocked does not keep its account from asking again.
AskCheckPending(h) ==
    /\ At(h, "ask", "check")
    /\ IF Has(req[h].arg, "pending") THEN End(h) ELSE Goto(h, "store", 0)
    /\ UNCHANGED accountVars

AskCheck(h) ==
    /\ At(h, "ask", "check")
    /\ IF Open(req[h].arg) # {} THEN End(h) ELSE Goto(h, "store", 0)
    /\ UNCHANGED accountVars

AskStore(h) ==
    /\ At(h, "ask", "store")
    /\ Cardinality(Ids) < MaxRequests
    /\ verification' =
        Insert(verification, [of |-> req[h].arg, status |-> "pending", verified |-> FALSE])
    /\ End(h)
    /\ UNCHANGED <<account, ban>>

\* createVerificationRequest.
CreateVerificationRequest(h) ==
    (\E a \in Emails : AskStart(h, a)) \/ AskCheck(h) \/ AskStore(h)

MoveStart(h, p, i, from, to) ==
    /\ Registered(p) /\ verification[i].status = from
    /\ AccountRequest(h, "move", "write", p, verification[i].of, to, i)

MoveWrite(h) ==
    /\ At(h, "move", "write")
    /\ verification' = [verification EXCEPT ![req[h].seen].status = req[h].arg]
    /\ End(h)
    /\ UNCHANGED <<account, ban>>

\* blockVerificationRequest and unblockVerificationRequest.
MoveVerificationRequest(h) ==
    \/ \E p \in Emails, i \in Ids : \/ MoveStart(h, p, i, "pending", "blocked")
                                    \/ MoveStart(h, p, i, "blocked", "pending")
    \/ MoveWrite(h)

-----------------------------------------------------------------------------
(* AdminAccountService. *)

\* verifyAccount: somebody else's account, of which findFirst, in no order, finds a
\* request that is pending.
VerifyStart(h, p, a, isVerified) ==
    /\ Registered(p) /\ Registered(a) /\ a # p
    /\ \E i \in Open(a) : /\ verification[i].status = "pending"
                          /\ AccountRequest(h, "verify", "row", p, a, <<a, isVerified>>, i)

VerifyRow(h) ==
    /\ At(h, "verify", "row")
    /\ verification' = [verification EXCEPT ![req[h].seen].status = "completed",
                                            ![req[h].seen].verified = req[h].arg[2]]
    /\ Goto(h, "account", 0)
    /\ UNCHANGED <<account, ban>>

VerifyFlag(h) ==
    /\ At(h, "verify", "account")
    /\ account' = [account EXCEPT ![req[h].arg[1]].verified = req[h].arg[2]]
    /\ End(h)
    /\ UNCHANGED <<verification, ban>>

\* Mutant: the account is written before the request.
VerifyAccountFirst(h) ==
    \/ \E p, a \in Emails, b \in BOOLEAN : VerifyStart(h, p, a, b)
    \/ /\ At(h, "verify", "row")
       /\ account' = [account EXCEPT ![req[h].arg[1]].verified = req[h].arg[2]]
       /\ Goto(h, "account", req[h].seen)
       /\ UNCHANGED <<verification, ban>>
    \/ /\ At(h, "verify", "account")
       /\ verification' = [verification EXCEPT ![req[h].seen].status = "completed",
                                               ![req[h].seen].verified = req[h].arg[2]]
       /\ End(h)
       /\ UNCHANGED <<account, ban>>

VerifyAccount(h) ==
    \/ \E p, a \in Emails, b \in BOOLEAN : VerifyStart(h, p, a, b)
    \/ VerifyRow(h) \/ VerifyFlag(h)

BanStart(h, p, a, isBanned) ==
    /\ Registered(p) /\ Registered(a) /\ a # p
    /\ AccountRequest(h, "ban", "row", p, a, <<a, isBanned>>, 0)

BanRow(h) ==
    /\ At(h, "ban", "row")
    /\ Len(ban) < MaxBans
    /\ ban' = Append(ban, [of |-> req[h].arg[1], banned |-> req[h].arg[2]])
    /\ Goto(h, "account", 0)
    /\ UNCHANGED <<account, verification>>

BanFlag(h) ==
    /\ At(h, "ban", "account")
    /\ account' = [account EXCEPT ![req[h].arg[1]].disabled = req[h].arg[2]]
    /\ End(h)
    /\ UNCHANGED <<verification, ban>>

\* Mutant: the account is written before the row.
BanAccountFirst(h) ==
    \/ \E p, a \in Emails, b \in BOOLEAN : BanStart(h, p, a, b)
    \/ /\ At(h, "ban", "row")
       /\ account' = [account EXCEPT ![req[h].arg[1]].disabled = req[h].arg[2]]
       /\ Goto(h, "account", 0)
       /\ UNCHANGED <<verification, ban>>
    \/ /\ At(h, "ban", "account")
       /\ Len(ban) < MaxBans
       /\ ban' = Append(ban, [of |-> req[h].arg[1], banned |-> req[h].arg[2]])
       /\ End(h)
       /\ UNCHANGED <<account, verification>>

BanAccount(h) ==
    \/ \E p, a \in Emails, b \in BOOLEAN : BanStart(h, p, a, b)
    \/ BanRow(h) \/ BanFlag(h)

\* Mutant: a role for an address that has no account.
RoleStartAny(h, p, a, admin) ==
    /\ a # p /\ account[a].admin # admin
    /\ AccountRequest(h, "role", "write", p, a, <<a, admin>>, 0)

\* grantAdminRole and revokeAdminRole: nothing is left to do if the role is there, or is
\* not; the write rejects if another request has made it so meanwhile.
RoleStart(h, p, a, admin) ==
    /\ Registered(a) /\ a # p /\ account[a].admin # admin
    /\ AccountRequest(h, "role", "write", p, a, <<a, admin>>, 0)

RoleWrite(h) ==
    /\ At(h, "role", "write")
    /\ account' = [account EXCEPT ![req[h].arg[1]].admin = req[h].arg[2]]
    /\ End(h)
    /\ UNCHANGED <<verification, ban>>

AdminRole(h) ==
    \/ \E p \in SuperAdmins, a \in Emails, b \in BOOLEAN : RoleStart(h, p, a, b)
    \/ RoleWrite(h)

-----------------------------------------------------------------------------

AccountsInit ==
    /\ account = [a \in Emails |-> IF a \in SuperAdmins THEN NewAccount ELSE NoAccount]
    /\ verification = <<>>
    /\ ban = <<>>

AccountsNext ==
    \E h \in Handlers :
        \/ \E a \in Emails : RegisterStart(h, a)
        \/ RegisterStore(h) \/ UpdateAccount(h)
        \/ CreateVerificationRequest(h) \/ MoveVerificationRequest(h)
        \/ VerifyAccount(h) \/ BanAccount(h) \/ AdminRole(h)
        \/ Abort(h) /\ UNCHANGED accountVars

accountsVars == <<requestVars, accountVars>>
AccountsSpec == RequestsInit /\ AccountsInit /\ [][AccountsNext]_accountsVars

-----------------------------------------------------------------------------
(* Properties. *)

\* What is known of an address, and every request and ban, belongs to an account.
AccountsTypeOK ==
    /\ account \in [Emails -> [registered : BOOLEAN, verified : BOOLEAN,
                               disabled : BOOLEAN, admin : BOOLEAN]]
    /\ Ids \subseteq Nat
    /\ \A i \in Ids :
        verification[i] \in [of : Emails, status : {"pending", "blocked", "completed"},
                             verified : BOOLEAN]
    /\ ban \in Seq([of : Emails, banned : BOOLEAN])
    /\ \A a \in Emails :
        account[a].verified \/ account[a].disabled \/ account[a].admin => Registered(a)

\* If requests about an account keep apart it is verified only with a request that says
\* so, however the queries of the decision fail; and it has no more than one that is open.
VerifiedOnRequest ==
    manner \in {"subject", "serial"} =>
        \A a \in Emails :
            account[a].verified =>
                \E i \in Ids : /\ verification[i].of = a /\ verification[i].verified
                               /\ verification[i].status = "completed"

OneOpenVerification ==
    manner \in {"subject", "serial"} => \A a \in Emails : Cardinality(Open(a)) <= 1

\* However bans race and fail, nobody is disabled without a ban on record.
DisabledOnRecord ==
    \A a \in Emails : account[a].disabled =>
        \E i \in DOMAIN ban : ban[i].of = a /\ ban[i].banned
=============================================================================
