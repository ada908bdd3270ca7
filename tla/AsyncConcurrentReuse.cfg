\* Two transfers at once, one of which may take the answer to an earlier doorbell.
CONSTANTS
    ControlClients = {}
    InClients = {r}
    OutClients = {w}
    NumQh = 3
    NumQtd = 2
    Lens = {0}
    MaxInFlight = 2
    MayCancel = FALSE
    BusErrors = FALSE
SPECIFICATION Spec
INVARIANT DmaSafe
