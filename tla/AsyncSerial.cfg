\* One transfer at a time: an endpoint of each kind, data of none, one short and
\* two full packets; the device is free never to answer.
CONSTANTS
    ControlClients = {k}
    InClients = {r}
    OutClients = {w}
    NumQh = 2
    NumQtd = 3
    Lens = {0, 3, 4}
    MaxInFlight = 1
    MayCancel = FALSE
    BusErrors = TRUE
SPECIFICATION FairSpec
INVARIANTS TypeOK DmaSafe ResultHonest OutTerminated ToggleInSync
PROPERTIES ImplementsPools ReturnsWhenOver DoorbellAnswered
