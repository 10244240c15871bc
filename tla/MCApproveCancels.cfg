\* The pending registrations an approval leaves behind, one request at a time.
SPECIFICATION Spec
CONSTANTS
    a1 = a1  a2 = a2  m1 = m1  m2 = m2  h1 = h1  h2 = h2
    NULL = NULL  UNDEF = UNDEF
    Accounts = {a1, m1}
    Censors = {m1}
    Shifts = {1, 2}
    Handlers = {h1}
    Limits <- NoLimits
    Windows <- TwoWindows
    Editable = {}
    MaxRegs = 2
    MaxJoined = 2
    MaxBatch = 2
    MaxNow = 1
    Isolation = "none"
    SameShiftUrls = TRUE
PROPERTY ApprovalCancelsPending
