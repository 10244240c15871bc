\* Two joins of one account for one shift at the same time.
SPECIFICATION Spec
CONSTANTS
    a1 = a1  a2 = a2  m1 = m1  m2 = m2  h1 = h1  h2 = h2
    NULL = NULL  UNDEF = UNDEF
    Accounts = {a1}
    Censors = {m1}
    Shifts = {1}
    Handlers = {h1, h2}
    Limits <- NoLimits
    Windows <- OneWindow
    Editable = {}
    MaxRegs = 3
    MaxJoined = 1
    MaxBatch = 0
    MaxNow = 1
    Isolation = "none"
    SameShiftUrls = FALSE
INVARIANT OneActiveRegistration
