\* One request at a time over two overlapping shifts, one of them edited and deleted; batches, a manager who volunteers.
SPECIFICATION Spec
CONSTANTS
    a1 = a1  a2 = a2  m1 = m1  m2 = m2  h1 = h1  h2 = h2
    NULL = NULL  UNDEF = UNDEF
    Accounts = {a1, m1}
    Censors = {m1}
    Shifts = {1, 2}
    Handlers = {h1}
    Limits <- OneOrNull
    Windows <- Ending
    Editable = {1}
    MaxRegs = 2
    MaxJoined = 2
    MaxBatch = 2
    MaxNow = 0
    Isolation = "none"
    SameShiftUrls = TRUE
INVARIANTS TypeOK SlotsCoverFree
PROPERTY ImplementsLifecycle
