\* One control and two bulk pipes, with the smallest qTD pool that suffices or one well
\* under the bound.
\* Fields all zeros, all ones and one bit, packets of 64 and of 2047 bytes; a buffer at
\* the start of a page and one at its end.  Buffers for no, one and two MIDI packets,
\* reads of up to three.  Three attachments: a bounce at plug-in and one later, and an
\* enumeration tried twice.
CONSTANTS
    Clients = {c1, c2, c3}
    NumQh = 3
    NumQtd = 7
    FewQtds = 4
    QhAddr = {6, 29}
    SentinelAddr = {7, 29}
    QtdAddr = {5, 8, 29}
    Addresses = {{}, {0, 1, 2, 3, 4, 5, 6}}
    Numbers = {{}, {0, 1, 2, 3}}
    PacketSizes = {{6}, {0, 1, 2, 3, 4, 5, 6, 7, 8, 9, 10}}
    Lengths = {{}, {0, 1, 2, 3, 4, 5, 6, 7, 8, 9, 10, 11, 12, 13, 14}}
    Statuses = {{}, {0, 3}, {6}}
    Buffers = {8192, 12287}
    Offsets = {0, 1, 4096, 16385, 20479}
    EndpointNumbers = {p1, p2}
    Events = {e1, e2}
    MaxDescriptors = 4
    SendSizes = {3, 4, 11}
    ReadSizes = {0, 2}
    MaxPackets = 3
    MaxSessions = 3
    Attempts = 2
    ForceFullSpeed = FALSE
    Instances = {Gpt0}
    MaxCount = 3
    Delays = {0, 2, 3, 5}
SPECIFICATION EachSpec
INVARIANTS TypeOK Exclusive SupplyHolds
INVARIANTS TypesOK LinksRead EndpointRead TransferRead ResultRead BytesReached
INVARIANTS FindsFirst ReadsAll WritesAll
INVARIANTS SessionKnown ChirpUndisturbed OnTime StartsUp
PROPERTIES WriteEnds ResetOnce Reported
