\* A reader and a writer at once, as the MIDI crate runs them, each with a QH.
CONSTANTS
    ControlClients = {}
    InClients = {r}
    OutClients = {w}
    NumQh = 3
    NumQtd = 3
    Lens = {2}
    MaxInFlight = 2
    MayCancel = FALSE
    BusErrors = FALSE
SPECIFICATION Spec
INVARIANTS ScheduleExact ResultHonest
