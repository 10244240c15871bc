\* Memberships, chats and reports: two requests at a time.
SPECIFICATION CommunitiesSpec
CONSTANTS
    Handlers = {h1, h2}
    MaxAborts = 1
    Accounts = {1, 2, 3}
    Insiders = {1, 2}
    Granted = {"manager", "activityManager"}
    MaxOrgs = 1
    MaxMembers = 3
    Chatters = {c1, c2}
    MaxChats = 1
    MaxParts = 3
    MaxMessages = 2
    Reporters = {1, 2}
    Admins = {2}
    Targets = {1}
    MaxReports = 2
SYMMETRY Interchangeable
INVARIANTS CommunitiesTypeOK OneMembership OwnerRoleIsOwners MembersOfVerified
           GroupOwnerTakesPart 
           DecidedAfterAnswer OneOpenReport
PROPERTIES ImplementsMembership ClosedStaysClosed
CHECK_DEADLOCK FALSE
