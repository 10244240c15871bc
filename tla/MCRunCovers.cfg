\* One run over shifts that are due, with the clock, managers and failures standing still.
SPECIFICATION Spec
CONSTANTS
    Runs = {interval, endpoint}
    Interval = interval
    interval = interval  endpoint = endpoint
    Activities = {1, 2, 3}
    ActivityOf <- OneEach
    InitShifts = {1, 2, 3}
    Windows <- Crossing
    PageSize = 1
    MaxNow = 0
    MaxEdits = 0
    MaxFails = 0
INVARIANT RunCoversShifts
