\* The task against managers, the clock and failing queries; one row per page.
SPECIFICATION Spec
CONSTANTS
    Runs = {interval, endpoint}
    Interval = interval
    interval = interval  endpoint = endpoint
    Activities = {1, 2}
    ActivityOf <- TwoAndOne
    InitShifts = {1, 2}
    Windows <- Inverted
    PageSize = 1
    MaxNow = 2
    MaxEdits = 2
    MaxFails = 1
INVARIANTS TypeOK OneRun
PROPERTIES ShiftsSettle ActivitiesSettleButOnePage
