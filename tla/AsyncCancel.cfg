\* One transfer at a time whose future may be dropped before it is ready.
CONSTANTS
    ControlClients = {}
    InClients = {r}
    OutClients = {w}
    NumQh = 3
    NumQtd = 3
    Lens = {2}
    MaxInFlight = 1
    MayCancel = TRUE
    BusErrors = FALSE
SPECIFICATION Spec
INVARIANT DmaSafe
