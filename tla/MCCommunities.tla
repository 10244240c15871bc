--------------------------- MODULE MCCommunities ---------------------------
(***************************************************************************)
(* Small instances of Organization, Chats and Reports for TLC.  The        *)
(* services share no rows, so that each behaviour is one service's:        *)
(* `service' says whose.  Init pairs the manners of the clients with the   *)
(* services whose properties speak of them.  The transfers of ownership    *)
(* are also checked alone, as "ownership", with more accounts.             *)
(***************************************************************************)
EXTENDS Organization, Chats, Reports, TLC

CONSTANT Insiders  \* the accounts that take part in the service "organization"

VARIABLE service

allVars == <<requestVars, organizationVars, chatVars, reportVars, service>>

CommunitiesInit ==
    /\ RequestsInit /\ OrganizationInit /\ ChatsInit /\ ReportsInit
    /\ \/ service = "ownership" /\ manner = "subject" /\ ~ failing
       \/ service = "organization" /\ manner \in {"client", "subject"} /\ ~ failing
       \/ service = "chat" /\ manner \in {"any", "subject"} /\ ~ failing
       \/ service = "report" /\ manner \in {"any", "subject"} /\ ~ failing
       \/ service \in {"organization", "chat", "report"} /\ manner = "serial" /\ failing

\* A transfer takes the ownership of a third from it: three accounts come together, and of
\* the other methods only GrantRole goes on.
OwnershipNext ==
    \E h \in Handlers :
        \/ \E a \in Accounts : Create(h, a)
        \/ \E o \in DOMAIN org : UpdateStatus(h, o, "verified")
        \/ \E a \in Accounts, o \in DOMAIN org, m \in DOMAIN member :
              \/ Join(h, a, o) \/ Approve(h, o, m) \/ TransferOwnership(h, a, o, m)
              \/ \E r \in Granted \cap {"manager"} : GrantRole(h, a, m, r)

\* Everything else is checked with two accounts; and nothing is promised to clients that
\* wait for their own answers only, of the roles.
AmongInsiders ==
    /\ \A m \in DOMAIN member' : member'[m].account \in Insiders
    /\ \A h \in Handlers : /\ req'[h].by \in Insiders \cup {0}
                           /\ manner = "client" => req'[h].op \notin {"grant", "revoke"}

\* Clients that do not keep apart are promised nothing of the messages of a group.
MessagesOfTwo ==
    manner = "any" => \A h \in Handlers :
        req'[h].op \in {"send", "read"} => ~ chat'[req'[h].arg[1]].group

CommunitiesNext ==
    /\ \/ /\ \/ service = "organization" /\ OrganizationNext /\ AmongInsiders
             \/ service = "ownership" /\ OwnershipNext
          /\ UNCHANGED <<chatVars, reportVars>>
       \/ /\ service = "chat" /\ ChatsNext /\ MessagesOfTwo
          /\ UNCHANGED <<organizationVars, reportVars>>
       \/ /\ service = "report" /\ ReportsNext
          /\ UNCHANGED <<organizationVars, chatVars>>
    /\ UNCHANGED service

CommunitiesSpec == CommunitiesInit /\ [][CommunitiesNext]_allVars

\* The types of the organizations, of the chats and of the reports.
CommunitiesTypeOK == OrganizationTypeOK /\ ChatsTypeOK /\ ReportsTypeOK

Interchangeable == Permutations(Handlers) \cup Permutations(Chatters)
=============================================================================
