\* One transfer at a time whose future may be dropped at any await, and a pool with
\* one qTD too few for a write that needs a zero-length packet.  After a drop the
\* schedule is broken, and the program may stop.
CONSTANTS
    ControlClients = {}
    InClients = {r}
    OutClients = {w}
    NumQh = 2
    NumQtd = 1
    Lens = {2}
    MaxInFlight = 1
    MayCancel = TRUE
    BusErrors = FALSE
SPECIFICATION Spec
PROPERTY ImplementsPools
CHECK_DEADLOCK FALSE
