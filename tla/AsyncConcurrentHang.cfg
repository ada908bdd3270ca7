\* Two transfers at once share one doorbell and one acknowledgement bit.
CONSTANTS
    ControlClients = {}
    InClients = {r}
    OutClients = {w}
    NumQh = 3
    NumQtd = 2
    Lens = {0}
    MaxInFlight = 2
    MayCancel = FALSE
    BusErrors = FALSE
SPECIFICATION FairSpec
PROPERTY DoorbellAnswered
