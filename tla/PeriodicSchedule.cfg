\* Four pipes for four clients and three qTDs, so that three pipes are linked and the
\* fourth panics, or two pipes with packets of up to twice the receive buffer; two frames.
CONSTANTS
    c1 = c1
    c2 = c2
    c3 = c3
    c4 = c4
    Clients = {c1, c2, c3, c4}
    NumQh = 5
    NumQtd = 3
    Frames = 2
    BufSize = 1
    MaxPacketSize = 2
    Numbers = 2
SPECIFICATION MCSpec
SYMMETRY ClientSymmetry
INVARIANTS TypeOK ScheduleExact DmaSafe PacketsIntact NeverStuck
PROPERTY ImplementsPools
