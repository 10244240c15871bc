\* Two handlers that race on two limited shifts; a client waits for its own request.
SPECIFICATION Spec
CONSTANTS
    a1 = a1  a2 = a2  m1 = m1  m2 = m2  h1 = h1  h2 = h2
    NULL = NULL  UNDEF = UNDEF
    Accounts = {a1}
    Censors = {m1}
    Shifts = {1, 2}
    Handlers = {h1, h2}
    Limits = {1}
    Windows <- OneWindow
    Editable = {}
    MaxRegs = 2
    MaxJoined = 1
    MaxBatch = 0
    MaxNow = 0
    Isolation = "client"
    SameShiftUrls = FALSE
SYMMETRY HandlerSymmetry
INVARIANTS SlotsConserved OneActiveRegistration
