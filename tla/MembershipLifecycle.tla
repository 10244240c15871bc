------------------------ MODULE MembershipLifecycle ------------------------
(***************************************************************************)
(* What the methods of OrganizationMemberService promise of a membership,  *)
(* in the words above each of them: its status changes in one step, and    *)
(* only so.                                                                *)
(***************************************************************************)
CONSTANTS Accounts, Orgs

VARIABLES standing  \* "none", or the status of the account in the organization

vars == <<standing>>

Init == standing = [p \in Accounts \X Orgs |-> "none"]

Change(a, o, from, to) ==
    /\ standing[<<a, o>>] \in from
    /\ standing' = [standing EXCEPT ![<<a, o>>] = to]

Found(a, o) == Change(a, o, {"none"}, "approved")
Join(a, o) ==
    Change(a, o, {"none", "cancelled", "left", "rejected", "removed"}, "pending")
Cancel(a, o) == Change(a, o, {"pending"}, "cancelled")
Leave(a, o) == Change(a, o, {"approved"}, "left")
Approve(a, o) == Change(a, o, {"pending"}, "approved")
Reject(a, o) == Change(a, o, {"pending"}, "rejected")
ApproveBack(a, o) == Change(a, o, {"rejected", "removed"}, "approved")
Remove(a, o) == Change(a, o, {"approved"}, "removed")

Next ==
    \E a \in Accounts, o \in Orgs :
        \/ Found(a, o) \/ Join(a, o) \/ Cancel(a, o) \/ Leave(a, o)
        \/ Approve(a, o) \/ Reject(a, o) \/ ApproveBack(a, o) \/ Remove(a, o)

Spec == Init /\ [][Next]_vars
=============================================================================
