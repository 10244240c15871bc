\* The activities in the end, nothing failing.
SPECIFICATION Spec
CONSTANTS
    Runs = {interval, endpoint}
    Interval = interval
    interval = interval  endpoint = endpoint
    Activities = {1, 2, 3}
    ActivityOf <- OneEach
    InitShifts = {1, 2, 3}
    Windows <- Crossing
    PageSize = 1
    MaxNow = 2
    MaxEdits = 0
    MaxFails = 0
PROPERTY ActivitiesSettle
