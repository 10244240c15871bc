---------------------------- MODULE Organization ----------------------------
(***************************************************************************)
(* Organizations, their members and the roles of the members, the module   *)
(* organization: OrganizationService, OrganizationMemberService and the    *)
(* guard of OrganizationRoleService.  A method looks up the organization   *)
(* of the URL, then a row, and writes the row by its id.  The two lookups  *)
(* are one step: no organization is ever deleted, and one that is verified *)
(* stays so unless two admins decide on it at once.                        *)
(*                                                                         *)
(* A grant and a transfer replace the roles of a member in a transaction   *)
(* at read committed: deleteMany removes the rows its statement sees, and  *)
(* the rows created become visible with the commit.                        *)
(***************************************************************************)
EXTENDS Requests

CONSTANTS
    Accounts,           \* account ids
    Granted,            \* roles that are granted and revoked
    MaxOrgs, MaxMembers \* bounds: organizations, member rows

ASSUME GrantedAssumption == Granted \subseteq {"manager", "memberManager", "activityManager"}
ASSUME BoundsAssumption == MaxOrgs \in Nat /\ MaxMembers \in Nat

VARIABLES
    org,    \* Organization rows: owner, status; who founded it, and the accounts whose
            \* ownership another gave away: nobody takes the role of the owner from these
    member  \* Member rows, with the MemberRole rows of each

organizationVars == <<org, member>>

OrganizationStatus == {"pending", "cancelled", "verified", "rejected"}
MemberStatus == {"pending", "cancelled", "approved", "rejected", "removed", "left"}
MemberRole == {"owner", "manager", "memberManager", "activityManager"}

OrganizationMemberRoleWeight ==
    [owner |-> 4, manager |-> 3, memberManager |-> 2, activityManager |-> 1]
Weight(r) == OrganizationMemberRoleWeight[r]

RowsOf(a, o) == {m \in DOMAIN member : member[m].account = a /\ member[m].org = o}
With(rows, st) == {m \in rows : member[m].status = st}
Verified(o) == org[o].status = "verified"

\* The things a request is about: a membership, or the organization.
Membership(a, o) == {<<"member", a, o>>}
MembershipOf(m) == Membership(member[m].account, member[m].org)
Of(o) == {<<"org", o>>}

Arrives(h, op, at, a, on, arg, seen) ==
    /\ Begin(h, [op |-> op, at |-> at, by |-> a, on |-> on, arg |-> arg, seen |-> seen])
    /\ UNCHANGED organizationVars

SetStatus(m, st) == [member EXCEPT ![m].status = st]

\* The update by id of a row that was read before.
Write(h, op, m, st) ==
    /\ At(h, op, "write") /\ req[h].seen = m
    /\ member' = SetStatus(m, st)
    /\ UNCHANGED org
    /\ End(h)

-----------------------------------------------------------------------------
(* Organizations. *)

\* Mutant: the member is written outside the transaction that creates the organization.
CreateAlone(h, a) ==
    /\ NextId(member) <= MaxMembers
    /\ ~ Busy(h) /\ UNCHANGED <<requestVars, org>>
    /\ member' = Insert(member, [account |-> a, org |-> NextId(org),
                                 status |-> "approved", roles |-> {"owner"}])

\* create, one transaction: the founder is its owner and first member.
Create(h, a) ==
    /\ NextId(org) <= MaxOrgs /\ NextId(member) <= MaxMembers
    /\ ~ Busy(h) /\ UNCHANGED requestVars
    /\ org' = Insert(org, [owner |-> a, status |-> "pending", founder |-> a, displaced |-> {}])
    /\ member' = Insert(member, [account |-> a, org |-> NextId(org),
                                 status |-> "approved", roles |-> {"owner"}])

\* Mutant: an organization that is no longer pending can be decided on again.
UpdateStatusAlways(h, o, st) ==
    \/ Arrives(h, "status", "write", 0, Of(o), <<o, st>>, 0)
    \/ /\ At(h, "status", "write") /\ req[h].arg = <<o, st>>
       /\ org' = [org EXCEPT ![o].status = st]
       /\ UNCHANGED member
       /\ End(h)

\* updateStatus, by an admin: from pending to cancelled, verified or rejected.
UpdateStatus(h, o, st) ==
    \/ /\ org[o].status = "pending"
       /\ Arrives(h, "status", "write", 0, Of(o), <<o, st>>, 0)
    \/ /\ At(h, "status", "write") /\ req[h].arg = <<o, st>>
       /\ org' = [org EXCEPT ![o].status = st]
       /\ UNCHANGED member
       /\ End(h)

-----------------------------------------------------------------------------
(* Members. *)

\* findFirst of join: any row of the account in the organization, 0 if there is none.
FirstOf(rows) == IF rows = {} THEN {0} ELSE rows

JoinRow(h, a, o) ==
    /\ At(h, "join", "write") /\ req[h].by = a /\ req[h].arg = o
    /\ \/ /\ req[h].seen # 0
          /\ member' = SetStatus(req[h].seen, "pending")
       \/ /\ req[h].seen = 0 /\ NextId(member) <= MaxMembers
          /\ member' = Insert(member, [account |-> a, org |-> o,
                                       status |-> "pending", roles |-> {}])
    /\ UNCHANGED org
    /\ End(h)

\* Mutant: a row that has been cancelled, left, rejected or removed is not found.
JoinAnew(h, a, o) ==
    \/ /\ Verified(o)
       /\ With(RowsOf(a, o), "pending") \cup With(RowsOf(a, o), "approved") = {}
       /\ Arrives(h, "join", "write", a, Membership(a, o), o, 0)
    \/ JoinRow(h, a, o)

Join(h, a, o) ==
    \/ /\ Verified(o)
       /\ \E m \in FirstOf(RowsOf(a, o)) :
             /\ m # 0 => member[m].status \notin {"pending", "approved"}
             /\ Arrives(h, "join", "write", a, Membership(a, o), o, m)
    \/ JoinRow(h, a, o)

\* cancel and leave: a row of the account with the status they start from.
FromOwn(h, op, a, o, from, to) ==
    \/ /\ Verified(o)
       /\ \E m \in With(RowsOf(a, o), from) :
             Arrives(h, op, "write", a, Membership(a, o), o, m)
    \/ \E m \in RowsOf(a, o) : Write(h, op, m, to)

\* Mutant: an approved row of the account is cancelled as well.
CancelAny(h, a, o) ==
    \E st \in {"pending", "approved"} : FromOwn(h, "cancel", a, o, st, "cancelled")

Cancel(h, a, o) == FromOwn(h, "cancel", a, o, "pending", "cancelled")
Leave(h, a, o) == FromOwn(h, "leave", a, o, "approved", "left")

\* approve, reject, approve-back and remove look the row up by its id alone.
ById(h, op, m, from, to) ==
    \/ /\ member[m].status \in from
       /\ Arrives(h, op, "write", 0, MembershipOf(m), m, m)
    \/ Write(h, op, m, to)

\* The first two ask for the organization of the URL, whosever row it is.
Pending(o) == IF Verified(o) THEN {"pending"} ELSE {}
Approve(h, o, m) == ById(h, "approve", m, Pending(o), "approved")
Reject(h, o, m) == ById(h, "reject", m, Pending(o), "rejected")
ApproveBack(h, m) == ById(h, "approveBack", m, {"rejected", "removed"}, "approved")
Remove(h, m) == ById(h, "remove", m, {"approved"}, "removed")

-----------------------------------------------------------------------------
(* Roles. *)

\* validateApprovedMember.
Approved(m, o) == member[m].org = o /\ member[m].status = "approved"

SetRoles(table, m, gone, new) ==
    [table EXCEPT ![m].roles = (@ \ gone) \cup {new}]

\* validateAccountMemberGrantRole, which compares an account id with a member id; it
\* finds an approved row of the granter, and then the roles of that row.
MayGrant(h, op, a, m, r) ==
    \/ /\ a # m
       /\ \E g \in With(RowsOf(a, member[m].org), "approved") :
             Arrives(h, op, "roles", a, MembershipOf(m), <<m, r>>, g)
    \/ /\ At(h, op, "roles") /\ req[h].by = a /\ req[h].arg = <<m, r>>
       /\ IF \E s \in member[req[h].seen].roles : Weight(r) < Weight(s)
          THEN Goto(h, "target", 0) ELSE End(h)
       /\ UNCHANGED organizationVars

\* The controllers look the target up in the organization of the granter.
Target(h, op, a, m, r) ==
    /\ At(h, op, "target") /\ req[h].by = a /\ req[h].arg = <<m, r>>
    /\ IF Approved(m, member[m].org) THEN Goto(h, "change", 0) ELSE End(h)
    /\ UNCHANGED organizationVars

GrantRole(h, a, m, r) ==
    \/ MayGrant(h, "grant", a, m, r)
    \/ Target(h, "grant", a, m, r)
    \/ /\ At(h, "grant", "change") /\ req[h].by = a /\ req[h].arg = <<m, r>>
       /\ Goto(h, "commit", member[m].roles)
       /\ UNCHANGED organizationVars
    \/ /\ At(h, "grant", "commit") /\ req[h].by = a /\ req[h].arg = <<m, r>>
       \* A row with this role that the deletion did not see violates the key.
       /\ \/ r \notin member[m].roles \ req[h].seen
             /\ member' = SetRoles(member, m, req[h].seen, r)
          \/ r \in member[m].roles \ req[h].seen /\ UNCHANGED member
       /\ UNCHANGED org
       /\ End(h)

RevokeRole(h, a, m, r) ==
    \/ MayGrant(h, "revoke", a, m, r)
    \/ Target(h, "revoke", a, m, r)
    \/ /\ At(h, "revoke", "change") /\ req[h].by = a /\ req[h].arg = <<m, r>>
       /\ member' = [member EXCEPT ![m].roles = @ \ {r}]
       /\ UNCHANGED org
       /\ End(h)

\* The controller asks whether the account has the role of the owner, and discards the
\* answer: every approved member passes (whether it is still one is asked again below).
\* The target is read, then an approved row of the account, then the roles to delete.
TransferRead(h, a, o, m) ==
    \/ /\ With(RowsOf(a, o), "approved") # {}
       /\ Approved(m, o)
       /\ Arrives(h, "transfer", "owner", a,
                  Of(o) \cup Membership(a, o) \cup MembershipOf(m), <<o, m>>, 0)
    \/ /\ At(h, "transfer", "owner") /\ req[h].by = a /\ req[h].arg = <<o, m>>
       /\ LET own == With(RowsOf(a, o), "approved")
          IN  \/ \E w \in own \ {m} : Goto(h, "clear", [row |-> w, gone |-> {}, of |-> {}])
              \/ (own = {} \/ m \in own) /\ End(h)
       /\ UNCHANGED organizationVars
    \/ /\ At(h, "transfer", "clear") /\ req[h].by = a /\ req[h].arg = <<o, m>>
       /\ Goto(h, "commit", [req[h].seen EXCEPT !.gone = member[req[h].seen.row].roles,
                                                !.of = member[m].roles])
       /\ UNCHANGED organizationVars

\* The account a hands the organization o over to the member m.
HandOver(a, o, m) ==
    [org EXCEPT ![o].owner = member[m].account,
                ![o].displaced = (@ \cup {org[o].owner}) \ {a, member[m].account}]

\* Mutant: the roles of the member who hands over are kept.
TransferKeeping(h, a, o, m) ==
    /\ At(h, "transfer", "commit") /\ req[h].by = a /\ req[h].arg = <<o, m>>
    /\ member' = SetRoles(SetRoles(member, req[h].seen.row, {}, "manager"),
                          m, req[h].seen.of, "owner")
    /\ org' = HandOver(a, o, m)
    /\ End(h)

TransferCommit(h, a, o, m) ==
    LET w == req[h].seen
    IN  /\ At(h, "transfer", "commit") /\ req[h].by = a /\ req[h].arg = <<o, m>>
        /\ \/ /\ "manager" \notin member[w.row].roles \ w.gone
              /\ "owner" \notin member[m].roles \ w.of
              /\ member' = SetRoles(SetRoles(member, w.row, w.gone, "manager"),
                                    m, w.of, "owner")
              /\ org' = HandOver(a, o, m)
           \/ /\ "manager" \in member[w.row].roles \ w.gone
                 \/ "owner" \in member[m].roles \ w.of
              /\ UNCHANGED organizationVars
        /\ End(h)

TransferOwnership(h, a, o, m) == TransferRead(h, a, o, m) \/ TransferCommit(h, a, o, m)

-----------------------------------------------------------------------------

OrganizationInit == org = <<>> /\ member = <<>>

OfAccount(h, a, o) ==
    \/ Join(h, a, o) \/ Cancel(h, a, o) \/ Leave(h, a, o)
    \/ \E m \in DOMAIN member : TransferOwnership(h, a, o, m)

OfMember(h, m) ==
    \/ \E o \in DOMAIN org : Approve(h, o, m) \/ Reject(h, o, m)
    \/ ApproveBack(h, m) \/ Remove(h, m)
    \/ \E a \in Accounts, r \in Granted : GrantRole(h, a, m, r) \/ RevokeRole(h, a, m, r)

OrganizationNext ==
    \E h \in Handlers :
        \/ \E a \in Accounts : Create(h, a)
        \/ \E o \in DOMAIN org, st \in OrganizationStatus \ {"pending"} :
              UpdateStatus(h, o, st)
        \/ \E a \in Accounts, o \in DOMAIN org : OfAccount(h, a, o)
        \/ \E m \in DOMAIN member : OfMember(h, m)
        \/ Abort(h) /\ UNCHANGED organizationVars

organizationAllVars == <<requestVars, organizationVars>>
OrganizationSpec ==
    RequestsInit /\ OrganizationInit /\ [][OrganizationNext]_organizationAllVars

-----------------------------------------------------------------------------
(* Properties. *)

OrgRow == [owner : Accounts, status : OrganizationStatus,
           founder : Accounts, displaced : SUBSET Accounts]
MemberRow == [account : Accounts, org : DOMAIN org, status : MemberStatus,
              roles : SUBSET MemberRole]

\* The tables are well formed: a member is one of an organization there is.
OrganizationTypeOK ==
    /\ DOMAIN org = 1..Cardinality(DOMAIN org)
    /\ DOMAIN member = 1..Cardinality(DOMAIN member)
    /\ org \in [DOMAIN org -> OrgRow]
    /\ member \in [DOMAIN member -> MemberRow]

\* An account that waits for the answers to its own requests is in an organization at
\* most once, however often it leaves and comes back, so that findFirst has no choice.
OneMembership ==
    manner \in {"client", "subject", "serial"} =>
        \A a \in Accounts, o \in DOMAIN org : Cardinality(RowsOf(a, o)) <= 1

\* Any approved member may hand its organization over, and takes the role of the owner
\* from nobody but itself.  While requests about an organization keep apart, those who have
\* the role are the account the organization names and those who lost it that way: who
\* hands over has the role no more, nobody else comes to it, and no grant gives it.
OwnerRoleIsOwners ==
    manner \in {"subject", "serial"} =>
        \A m \in DOMAIN member :
            LET o == member[m].org
            IN  "owner" \in member[m].roles
                    => member[m].account \in {org[o].owner} \cup org[o].displaced

\* While requests about an organization keep apart, only organizations that have been
\* verified, and still are, have members other than the one who founded them.
MembersOfVerified ==
    manner \in {"subject", "serial"} =>
        \A m \in DOMAIN member :
            LET o == member[m].org
            IN  member[m].account # org[o].founder => Verified(o)

\* What a membership promises, by account and organization.
Standing ==
    [p \in Accounts \X (1..MaxOrgs) |->
        IF RowsOf(p[1], p[2]) # {}
        THEN member[CHOOSE m \in RowsOf(p[1], p[2]) : TRUE].status ELSE "none"]

L == INSTANCE MembershipLifecycle WITH Accounts <- Accounts, Orgs <- 1..MaxOrgs,
                                       standing <- Standing

\* While requests about one membership keep apart, the queries of the handlers add up to
\* the atomic steps the comments above the methods name ("pending -> cancelled", ...).
KeepsLifecycle == manner \in {"subject", "serial"} => UNCHANGED L!vars \/ L!Next
ImplementsMembership == L!Init /\ [][KeepsLifecycle]_organizationAllVars
=============================================================================
