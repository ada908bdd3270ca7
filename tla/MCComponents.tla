---------------------------- MODULE MCComponents ----------------------------
(* For TLC, the components whose states are few, side by side: the pools,    *)
(* the words of EhciWords, the MIDI driver, the root port with its           *)
(* application, a timer, and the start of the controller.  The pool of qTDs  *)
(* has either all of its slots, or so few that allocations fail half way.    *)
EXTENDS UsbPools

CONSTANTS
    FewQtds,
    QhAddr, SentinelAddr, QtdAddr, Addresses, Numbers, PacketSizes, Lengths, Statuses,
    Buffers, Offsets,
    EndpointNumbers, Events, MaxDescriptors, SendSizes, ReadSizes, MaxPackets,
    MaxSessions, Attempts, ForceFullSpeed,
    Instances, MaxCount, Delays

Small == INSTANCE UsbPools WITH NumQtd <- FewQtds

VARIABLES stage, asked, heads, qh, qtd, told
wordVars == <<stage, asked, heads, qh, qtd, told>>
Memory == INSTANCE EhciWords

VARIABLES seen, visitor, midi, reading, received, writing, wire
midiVars == <<seen, visitor, midi, reading, received, writing, wire>>
Driver == INSTANCE Midi

VARIABLES port, woken, detector, status, task, portsc, attempt, session, lastReset, unheard
portVars == <<port, woken, detector, status, task, portsc, attempt, session, lastReset, unheard>>
RootPort == INSTANCE DeviceDetect WITH stage <- task

VARIABLES load, mode, running, count, over, flag, wanted, wait, age
timerVars == <<load, mode, running, count, over, flag, wanted, wait, age>>
Timer == INSTANCE Gpt WITH asked <- wait

VARIABLES at, read, reg, chained
initVars == <<at, read, reg, chained>>
Boot == INSTANCE HostInit

VARIABLE part       \* which component runs

allVars == <<vars, wordVars, midiVars, portVars, timerVars, initVars, part>>

EachInit ==
    /\ Init /\ Memory!Init /\ Driver!Init /\ RootPort!Init /\ Timer!Init
    /\ Boot!Init
    /\ part \in {"pools", "few", "words", "midi", "port", "timer", "init"}
    /\ part = "init" \/ \A f \in DOMAIN reg : ~reg[f]

\* The program has stopped, as it may.
Panicked == \E c \in Clients : phase[c] = "panicked"

EachNext ==
    /\ \/ part = "pools" /\ Next /\ UNCHANGED <<wordVars, midiVars, portVars>>
       \/ part = "few" /\ Small!Next /\ UNCHANGED <<wordVars, midiVars, portVars>>
       \/ part = "few" /\ Panicked /\ UNCHANGED <<vars, wordVars, midiVars, portVars>>
       \/ part = "words" /\ Memory!Next /\ UNCHANGED <<vars, midiVars, portVars>>
       \/ part = "midi" /\ Driver!Next /\ UNCHANGED <<vars, wordVars, portVars>>
       \/ part = "port" /\ RootPort!Next /\ UNCHANGED <<vars, wordVars, midiVars>>
    /\ UNCHANGED <<timerVars, initVars, part>>

StartNext ==
    /\ \/ part = "timer" /\ Timer!Next /\ UNCHANGED initVars
       \/ part = "init" /\ Boot!Next /\ UNCHANGED timerVars
    /\ UNCHANGED <<vars, wordVars, midiVars, portVars, part>>

\* A component that runs is as fair as its own specification says.
EachSpec ==
    /\ EachInit /\ [][EachNext \/ StartNext]_allVars
    /\ part = "midi" => WF_midiVars(Driver!WriteTransfer \/ Driver!WriteReturns)
    /\ part = "port" => RootPort!Fairness

\* Whoever is granted a pipe finds its qTDs, and nothing panics, in a pool of the
\* size PoolLargeEnough asks for (transfer.rs:565-570).
SupplyHolds == part # "few" => NeverExhausted

\* The constants and the states of the other modules are what these say.
TypesOK ==
    /\ Memory!ConstantsOK /\ Memory!TypeOK
    /\ Driver!TypeOK /\ RootPort!TypeOK /\ Timer!TypeOK /\ Boot!TypeOK

LinksRead == Memory!LinksRead
EndpointRead == Memory!EndpointRead
TransferRead == Memory!TransferRead
ResultRead == Memory!ResultRead
BytesReached == Memory!BytesReached

FindsFirst == Driver!FindsFirst
ReadsAll == Driver!ReadsAll
WritesAll == Driver!WritesAll
WriteEnds == Driver!WriteEnds

SessionKnown == RootPort!SessionKnown
ChirpUndisturbed == RootPort!ChirpUndisturbed
OnTime == Timer!OnTime
StartsUp == Boot!StartsUp
ResetOnce == RootPort!ResetOnce
Reported == RootPort!Reported
=============================================================================
