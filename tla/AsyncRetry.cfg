\* One transfer at a time over a bus that loses packets.
CONSTANTS
    ControlClients = {k}
    InClients = {r}
    OutClients = {w}
    NumQh = 2
    NumQtd = 3
    Lens = {0, 3, 4}
    MaxInFlight = 1
    MayCancel = FALSE
    BusErrors = TRUE
SPECIFICATION Spec
INVARIANT RetriesAreFree
