------------------------ MODULE RegistrationLifecycle ------------------------
(***************************************************************************)
(* What the registration endpoints promise, one atomic operation each: the *)
(* states a registration goes through, that an account has one current     *)
(* registration per shift, and that a shift counts the approved ones.      *)
(* ShiftRegistration implements it as long as no two requests in flight    *)
(* are about the same account and a request names the right shift.         *)
(***************************************************************************)
EXTENDS Naturals, FiniteSets

CONSTANTS Accounts, Shifts,
          Ids   \* the ids a registration can get

VARIABLES
    reg,     \* registrations by id: account, shift, status, active
    joined   \* the number of participants of each existing shift

vars == <<reg, joined>>

Init ==
    /\ reg = <<>>
    /\ joined \in [Shifts -> {0}]

Count(r) ==
    [s \in DOMAIN joined |->
        Cardinality({i \in DOMAIN r : r[i].shift = s /\ r[i].status = "approved"})]

\* The registrations become r, and every shift counts its approved ones.
Become(r) == reg' = r /\ joined' = Count(r)

Current(a, s) ==
    {i \in DOMAIN reg : reg[i].acct = a /\ reg[i].shift = s /\ reg[i].active}

\* A new registration replaces one that is neither pending nor approved.
Register(a, s, id) ==
    /\ id \notin DOMAIN reg /\ s \in DOMAIN joined
    /\ \A i \in Current(a, s) : reg[i].status \notin {"pending", "approved"}
    /\ Become([i \in DOMAIN reg \cup {id} |->
                  IF i = id
                  THEN [acct |-> a, shift |-> s, status |-> "pending", active |-> TRUE]
                  ELSE [reg[i] EXCEPT !.active = @ /\ i \notin Current(a, s)]])

\* An active registration in one of the states `from' changes to the state `to'.
Change(i, from, to) ==
    /\ reg[i].active /\ reg[i].status \in from
    /\ Become([reg EXCEPT ![i].status = to])

Cancel(i) == Change(i, {"pending"}, "cancelled")
Reject(i) == Change(i, {"pending"}, "rejected")
Leave(i)  == Change(i, {"approved"}, "left")
Remove(i) == Change(i, {"approved"}, "removed")

\* An approval may cancel pending registrations C of one account for other shifts.
Approve(i, C) ==
    /\ reg[i].active /\ reg[i].status \in {"pending", "rejected", "removed"}
    /\ \A c \in C : /\ reg[c].active /\ reg[c].status = "pending"
                    /\ reg[c].shift # reg[i].shift
    /\ \A c, d \in C : reg[c].acct = reg[d].acct
    /\ Become([k \in DOMAIN reg |->
                  IF k = i THEN [reg[k] EXCEPT !.status = "approved"]
                  ELSE IF k \in C THEN [reg[k] EXCEPT !.status = "cancelled"]
                  ELSE reg[k]])

\* A deleted shift takes its registrations along.
Delete(s) ==
    /\ s \in DOMAIN joined
    /\ reg' = [i \in {k \in DOMAIN reg : reg[k].shift # s} |-> reg[i]]
    /\ joined' = [t \in DOMAIN joined \ {s} |-> joined[t]]

Next ==
    \/ \E a \in Accounts, s \in Shifts, id \in Ids :
          Register(a, s, id)
    \/ \E i \in DOMAIN reg :
          \/ Cancel(i) \/ Reject(i) \/ Leave(i) \/ Remove(i)
          \/ \E C \in SUBSET (DOMAIN reg \ {i}) : Approve(i, C)
    \/ \E s \in Shifts : Delete(s)

Spec == Init /\ [][Next]_vars
=============================================================================
