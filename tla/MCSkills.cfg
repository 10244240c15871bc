\* The hours of a skill, one review after the other: refuted.
SPECIFICATION ServicesSpec
CONSTANTS
    Handlers = {h1, h2}
    MaxAborts = 1
    Keys = {k1}
    LifeSec = 2
    RenewSec = 1
    MaxTokens = 3
    MaxNow = 3
    Emails = {1, 2}
    SuperAdmins = {1}
    MaxRequests = 2
    MaxBans = 2
    Volunteers = {1}
    Staff = {9}
    StartTime = 1
    EndTime = 2
    CheckInMinutesLimit = 0
    CheckOutMinutesLimit = 1
    LastMinute = 4
    Completed = {"s1", "s2"}
    Upcoming = {"s3"}
    Duration <- Hours
    ShiftSkill <- Skills
    Completions = {0, 1}
    MaxReviews = 3
    Raters = {1, 2}
    Shifts = {"s1", "s2"}
    Approved <- ApprovedFor
    Scores = {1, 4}
    MaxRatings = 3
    Instants = {1, 2}
    MaxShifts = 2
    RowIds = {1, 2, 3, 4}
    Kinds <- RowKinds
    Queries <- SearchQueries
    Searchers = {1}
    ActivityPage = 1
    OrganizationPage = 1
    ActivityMisses = 2
    OrganizationMisses = 2
    SpacingSec = 2
    MaxEdits = 1
    MaxSearches = 3
    MaxSecond = 3
    PastShifts = {1, 2, 3}
    PageOfShifts = 1
    Day = 2
    MaxChanges = 1
    MaxHour = 4
SYMMETRY Interchangeable
INVARIANT SkillsAddUp
CHECK_DEADLOCK FALSE
