-------------------------- MODULE PeriodicSchedule --------------------------
(***************************************************************************)
(* Interrupt pipes on the EHCI periodic schedule: the frame list and the   *)
(* chain of QHs behind it (src/host/schedule.rs), the pipe that is polled  *)
(* as a stream and re-armed for every packet (interrupt_pipe.rs), its      *)
(* allocation (transfer.rs) and its Drop, and the controller that walks    *)
(* the chain of each frame by DMA at the same time.                        *)
(*                                                                         *)
(* A client is one place in the application that owns an interrupt pipe.   *)
(* All clients belong to one task, so the one that runs keeps the CPU to   *)
(* the end of the call; the controller steps between any two accesses to   *)
(* memory it can see.                                                      *)
(***************************************************************************)
EXTENDS Naturals, FiniteSets

CONSTANTS
    Clients,
    NumQh,          \* NUM_QH
    NumQtd,         \* NUM_QTD
    Frames,         \* entries of the frame list
    BufSize,        \* the size of a RecvBuf
    MaxPacketSize,  \* of the endpoints, in the same unit
    Numbers         \* bound: packets are numbered modulo Numbers

ASSUME SizesAssumption ==
    /\ NumQh \in Nat \ {0} /\ NumQtd \in Nat /\ Frames \in Nat \ {0}
    /\ BufSize \in Nat \ {0} /\ MaxPacketSize \in Nat \ {0}
    /\ Numbers \in Nat \ {0} /\ Numbers % 2 = 0

Nobody == "nobody"
ASSUME NobodyAssumption == Nobody \notin Clients

Qhs == 2 .. NumQh               \* the QHs of the bulk/interrupt pipes
NoQh == NumQh + 1               \* the TERMINATE link
Qtds == 0 .. NumQtd - 1
NoQtd == NumQtd                 \* the TERMINATE next pointer
Bufs == 0 .. NumQh - 2          \* recv_bufs

Lower(a, b) == IF a < b THEN a ELSE b

VARIABLES
    pc,             \* where each client stands
    running,        \* the client whose call is on the CPU, or Nobody
    cursor,         \* the frame list entry its loop has come to
    crossed,        \* the controller has started a frame since its wait began
    pipe,           \* the Pooled guard of each client
    slot,           \* its QtdSlot
    qtdAllocated,
    entry,          \* the frame list
    hlink, qh, qtd, buf,            \* memory the controller shares
    hcAt, hcNext,                   \* the QH it has fetched and its link
    sent, last,     \* the device: the number of packets it has sent, the last of them
    got, item       \* the number of packets the stream has returned, the last of them

clientVars == <<pc, running, cursor>>
poolVars   == <<pipe, slot, qtdAllocated>>
linkVars   == <<entry, hlink>>
hcVars     == <<hcAt, hcNext>>
devVars    == <<sent, last>>
itemVars   == <<got, item>>
vars       == <<clientVars, crossed, poolVars, linkVars, qh, qtd, buf, hcVars, devVars, itemVars>>

QhOf(c) == pipe[c] + 1
BufOf(c) == pipe[c] - 1

(* Control states.  Between calls a client rests in the first line. *)
Resting == {"idle", "waiting", "open", "ended", "panicked"}
Linking == {"link", "publish"}
Polling == {"copy", "rearm", "attach"}
Closing == {"unhead", "unchain", "wait"}
Linked  == {"open", "ended"} \cup Polling
Holding == Linking \cup Linked \cup Closing

\* A packet of c: which one, and its size; an empty one is like any other.
NoPacket == [of |-> Nobody, n |-> 0, len |-> 0]
Packet(c, n, len) == IF len = 0 THEN NoPacket ELSE [of |-> c, n |-> n, len |-> len]

FreeQtd == [st |-> "zero", rem |-> 0]
ResetQh == [ep |-> Nobody, cur |-> NoQtd, next |-> NoQtd, st |-> "halted", dt |-> FALSE]

-----------------------------------------------------------------------------
(* The pools, as UsbPools describes them. *)
PhaseBar == [c \in Clients |->
    IF pc[c] \in Holding THEN "holding" ELSE pc[c]]
KindBar == [c \in Clients |-> IF pc[c] = "idle" THEN "none" ELSE "interrupt"]
SlotsBar == [c \in Clients |-> [i \in 1 .. (IF pc[c] \in Holding THEN 1 ELSE 0) |-> slot[c]]]

Pools == INSTANCE UsbPools WITH phase <- PhaseBar, kind <- KindBar, slots <- SlotsBar

-----------------------------------------------------------------------------
Init ==
    /\ pc = [c \in Clients |-> "idle"]
    /\ running = Nobody /\ cursor = 0 /\ crossed = TRUE
    /\ pipe = [c \in Clients |-> Pools!NoPipe]
    /\ slot = [c \in Clients |-> NoQtd]
    /\ qtdAllocated = {}
    /\ entry = [f \in 0 .. Frames - 1 |-> NoQh]
    /\ hlink = [q \in Qhs |-> NoQh]
    /\ qh = [q \in Qhs |-> ResetQh]
    /\ qtd = [t \in Qtds |-> FreeQtd]
    /\ buf = [b \in Bufs |-> NoPacket]
    /\ hcAt = NoQh /\ hcNext = NoQh
    /\ sent = [c \in Clients |-> 0]
    /\ last = [c \in Clients |-> NoPacket]
    /\ got = [c \in Clients |-> 0]
    /\ item = [c \in Clients |-> NoPacket]

Goto(c, l) == pc' = [pc EXCEPT ![c] = l]

-----------------------------------------------------------------------------
(* Allocation *)

\* alloc_interrupt_pipe waits for a pipe; try_alloc_interrupt_pipe does not wait.
Call(c) ==
    /\ pc[c] = "idle" /\ running = Nobody
    /\ Goto(c, "waiting")
    /\ UNCHANGED <<running, cursor, crossed, poolVars, linkVars, qh, qtd, buf, hcVars,
                   devVars, itemVars>>

GiveUp(c) ==
    /\ pc[c] = "waiting" /\ running = Nobody
    /\ Goto(c, "idle")
    /\ UNCHANGED <<running, cursor, crossed, poolVars, linkVars, qh, qtd, buf, hcVars,
                   devVars, itemVars>>

\* The qTD of a pipe: IN, Active, one whole packet.
ArmedQtd == [st |-> "active", rem |-> MaxPacketSize]

\* do_alloc_interrupt_pipe up to attach_qtd: a qTD is taken, QH and qTD are set up
\* and joined, the QH with DATA0.
Begin(c) ==
    /\ pc[c] = "waiting" /\ running = Nobody
    /\ \E p \in Pools!FreePipes("interrupt"), t \in Pools!FreeQtds :
          /\ \A u \in Pools!FreeQtds : t <= u
          /\ pipe' = [pipe EXCEPT ![c] = p]
          /\ slot' = [slot EXCEPT ![c] = t]
          /\ qtdAllocated' = qtdAllocated \cup {t}
          /\ hlink' = [hlink EXCEPT ![p + 1] = NoQh]
          /\ qh' = [qh EXCEPT ![p + 1] = [ResetQh EXCEPT !.ep = c, !.next = t, !.st = "idle"]]
          /\ qtd' = [qtd EXCEPT ![t] = ArmedQtd]
    /\ Goto(c, "link") /\ running' = c
    /\ UNCHANGED <<cursor, crossed, entry, buf, hcVars, devVars, itemVars>>

\* There is no qTD: the expect panics, and nothing runs on the CPU any more.
Panic(c) ==
    /\ pc[c] = "waiting" /\ running = Nobody
    /\ Pools!FreePipes("interrupt") # {} /\ Pools!FreeQtds = {}
    /\ Goto(c, "panicked") /\ running' = c
    /\ UNCHANGED <<cursor, crossed, poolVars, linkVars, qh, qtd, buf, hcVars, devVars, itemVars>>

\* link_qh_to_periodic_schedule: the old head behind the new QH ...
LinkQh(c) ==
    /\ pc[c] = "link" /\ running = c
    /\ hlink' = [hlink EXCEPT ![QhOf(c)] = entry[0]]
    /\ Goto(c, "publish") /\ cursor' = 0
    /\ UNCHANGED <<running, crossed, poolVars, entry, qh, qtd, buf, hcVars, devVars, itemVars>>

\* Mutant: the loop takes one turn too many.
NextEntryPast(c, l) ==
    IF cursor < Frames
    THEN cursor' = cursor + 1 /\ UNCHANGED <<pc, running>>
    ELSE cursor' = 0 /\ Goto(c, l) /\ running' = IF l = "open" THEN Nobody ELSE running

\* One turn of a loop over the frame list, after which the client is at l.
NextEntry(c, l) ==
    IF cursor + 1 < Frames
    THEN cursor' = cursor + 1 /\ UNCHANGED <<pc, running>>
    ELSE cursor' = 0 /\ Goto(c, l) /\ running' = IF l = "open" THEN Nobody ELSE running

\* ... and the new QH into every entry, one after the other.
PublishEntry(c) ==
    /\ pc[c] = "publish" /\ running = c
    /\ entry' = [entry EXCEPT ![cursor] = QhOf(c)]
    /\ NextEntry(c, "open")
    /\ UNCHANGED <<crossed, poolVars, hlink, qh, qtd, buf, hcVars, devVars, itemVars>>

-----------------------------------------------------------------------------
(* poll_next *)

\* Mutant: a halted qTD is treated like a completed one.
PollHalted(c) ==
    /\ pc[c] \in {"open", "ended"} /\ running = Nobody
    /\ qtd[slot[c]].st # "active"
    /\ Goto(c, "copy") /\ running' = c
    /\ UNCHANGED <<cursor, crossed, poolVars, linkVars, qh, qtd, buf, hcVars, devVars, itemVars>>

\* The qTD is not Active any more: a packet, or the end of the stream.  While it is
\* Active the poll changes nothing here; a stream that has ended may be polled again.
Poll(c) ==
    /\ pc[c] \in {"open", "ended"} /\ running = Nobody
    /\ \/ /\ qtd[slot[c]].st = "halted"
          /\ Goto(c, "ended") /\ UNCHANGED running
       \/ /\ qtd[slot[c]].st = "done"
          /\ Goto(c, "copy") /\ running' = c
    /\ UNCHANGED <<cursor, crossed, poolVars, linkVars, qh, qtd, buf, hcVars, devVars, itemVars>>

\* Mutant: the remaining bytes are taken off the size of the buffer.
ReceivedOfBuffer(c) ==
    LET room == Lower(MaxPacketSize, BufSize)
    IN  room - Lower(qtd[slot[c]].rem, room)

\* What was received, cut to the size of an InterruptPacket.
Received(c) == Lower(MaxPacketSize - qtd[slot[c]].rem, BufSize)

\* The packet is copied out of the receive buffer.
Copy(c) ==
    /\ pc[c] = "copy" /\ running = c
    /\ item' = [item EXCEPT ![c] =
          IF Received(c) = 0 THEN NoPacket ELSE [buf[BufOf(c)] EXCEPT !.len = Received(c)]]
    /\ got' = [got EXCEPT ![c] = (@ + 1) % Numbers]
    /\ Goto(c, "rearm")
    /\ UNCHANGED <<running, cursor, crossed, poolVars, linkVars, qh, qtd, buf, hcVars, devVars>>

\* The qTD is initialised afresh ...
Rearm(c) ==
    /\ pc[c] = "rearm" /\ running = c
    /\ qtd' = [qtd EXCEPT ![slot[c]] = ArmedQtd]
    /\ Goto(c, "attach")
    /\ UNCHANGED <<running, cursor, crossed, poolVars, linkVars, qh, buf, hcVars, devVars, itemVars>>

\* Mutant: attach_qtd, which clears the overlay's token and with it the toggle.
ReattachedData0(q, t) == [q EXCEPT !.next = t, !.st = "idle", !.dt = FALSE]

\* reattach_qtd_preserve_toggle
Reattached(q, t) == [q EXCEPT !.next = t]

\* ... and joined to the QH again; the application has its packet.
Reattach(c) ==
    /\ pc[c] = "attach" /\ running = c
    /\ qh' = [qh EXCEPT ![QhOf(c)] = Reattached(@, slot[c])]
    /\ last' = [last EXCEPT ![c] = NoPacket] /\ item' = [item EXCEPT ![c] = NoPacket]
    /\ Goto(c, "open") /\ running' = Nobody
    /\ UNCHANGED <<cursor, crossed, poolVars, linkVars, qtd, buf, hcVars, sent, got>>

-----------------------------------------------------------------------------
(* Drop *)

Drop(c) ==
    /\ pc[c] \in {"open", "ended"} /\ running = Nobody
    /\ Goto(c, "unhead") /\ running' = c /\ cursor' = 0
    /\ UNCHANGED <<crossed, poolVars, linkVars, qh, qtd, buf, hcVars, devVars, itemVars>>

\* unlink_qh_from_periodic_schedule: the entries that point at the QH take its
\* successor, one after the other ...
UnheadEntry(c) ==
    /\ pc[c] = "unhead" /\ running = c
    /\ entry' = [entry EXCEPT ![cursor] = IF @ = QhOf(c) THEN hlink[QhOf(c)] ELSE @]
    /\ NextEntry(c, "unchain")
    /\ UNCHANGED <<crossed, poolVars, hlink, qh, qtd, buf, hcVars, devVars, itemVars>>

\* The QH the walk from the first entry comes to after i links.
Walk[i \in 0 .. NumQh] ==
    IF i = 0 THEN entry[0]
    ELSE IF Walk[i - 1] = NoQh THEN NoQh ELSE hlink[Walk[i - 1]]

\* Mutant: the walk starts behind the first QH.
PredecessorsLate(q) == {Walk[i] : i \in {j \in 1 .. NumQh - 1 : Walk[j] # NoQh /\ Walk[j + 1] = q}}

\* Mutant: only the QH at the head is looked at.
PredecessorsHead(q) == {p \in {entry[0]} \cap Qhs : hlink[p] = q}

\* The predecessor of q, when the walk of NUM_QH links meets it.
Predecessors(q) == {Walk[i] : i \in {j \in 0 .. NumQh - 1 : Walk[j] # NoQh /\ Walk[j + 1] = q}}

\* ... and so does its predecessor.
Unchain(c) ==
    /\ pc[c] = "unchain" /\ running = c
    /\ hlink' = [p \in Qhs |->
          IF p \in Predecessors(QhOf(c)) THEN hlink[QhOf(c)] ELSE hlink[p]]
    /\ Goto(c, "wait") /\ crossed' = FALSE
    /\ UNCHANGED <<running, cursor, poolVars, entry, qh, qtd, buf, hcVars, devVars, itemVars>>

\* The endpoint is configured anew before it gets another pipe: the device is at
\* DATA0, and its packets are counted from there.
Reconfigured(c) ==
    /\ sent' = [sent EXCEPT ![c] = 0] /\ got' = [got EXCEPT ![c] = 0]
    /\ last' = [last EXCEPT ![c] = NoPacket] /\ item' = [item EXCEPT ![c] = NoPacket]

\* Nobody reads a QH or a buffer of no pipe (DmaSafe), so that they may be back at
\* their initial values now rather than when init_endpoint resets the QH.
Forgotten(c) ==
    /\ hlink' = [hlink EXCEPT ![QhOf(c)] = NoQh]
    /\ qh' = [qh EXCEPT ![QhOf(c)] = ResetQh]
    /\ buf' = [buf EXCEPT ![BufOf(c)] = NoPacket]

\* Mutants: there is no wait; the bitmap keeps the slot.
FreeAtOnce(c) ==
    /\ pc[c] = "wait" /\ running = c
    /\ pipe' = [pipe EXCEPT ![c] = Pools!NoPipe]
    /\ qtd' = [qtd EXCEPT ![slot[c]] = FreeQtd]
    /\ slot' = [slot EXCEPT ![c] = NoQtd]
    /\ qtdAllocated' = qtdAllocated \ {slot[c]}
    /\ Forgotten(c) /\ Reconfigured(c)
    /\ Goto(c, "idle") /\ running' = Nobody
    /\ UNCHANGED <<cursor, crossed, entry, hcVars>>
FreeNoBitmap(c) ==
    /\ pc[c] = "wait" /\ running = c /\ crossed
    /\ pipe' = [pipe EXCEPT ![c] = Pools!NoPipe]
    /\ qtd' = [qtd EXCEPT ![slot[c]] = FreeQtd]
    /\ slot' = [slot EXCEPT ![c] = NoQtd]
    /\ Forgotten(c) /\ Reconfigured(c)
    /\ Goto(c, "idle") /\ running' = Nobody
    /\ UNCHANGED <<cursor, crossed, qtdAllocated, entry, hcVars>>

\* The wait of 1 ms is over, which is a frame; the guards drop.
Free(c) ==
    /\ pc[c] = "wait" /\ running = c /\ crossed
    /\ pipe' = [pipe EXCEPT ![c] = Pools!NoPipe]
    /\ qtd' = [qtd EXCEPT ![slot[c]] = FreeQtd]
    /\ slot' = [slot EXCEPT ![c] = NoQtd]
    /\ qtdAllocated' = qtdAllocated \ {slot[c]}
    /\ Forgotten(c) /\ Reconfigured(c)
    /\ Goto(c, "idle") /\ running' = Nobody
    /\ UNCHANGED <<cursor, crossed, entry, hcVars>>

-----------------------------------------------------------------------------
(* The controller (EHCI 4.4 and 4.10) and the devices *)

\* A frame starts from its entry, wherever the last one has come to.
HcFrame ==
    /\ hcAt' = NoQh
    /\ \E f \in 0 .. Frames - 1 : hcNext' = entry[f]
    /\ crossed' = TRUE
    /\ UNCHANGED <<clientVars, poolVars, linkVars, qh, qtd, buf, devVars, itemVars>>

\* It fetches the next QH of the chain, with its link.
HcAdvance ==
    /\ hcNext \in Qhs
    /\ hcAt' = hcNext /\ hcNext' = hlink[hcNext]
    /\ UNCHANGED <<clientVars, crossed, poolVars, linkVars, qh, qtd, buf, devVars, itemVars>>

\* The overlay is idle and its next qTD active: load it.
HcFetch ==
    /\ hcAt # NoQh
    /\ qh[hcAt].st = "idle" /\ qh[hcAt].next # NoQtd
    /\ LET t == qh[hcAt].next IN
       /\ qtd[t].st = "active"
       /\ qh' = [qh EXCEPT ![hcAt].cur = t, ![hcAt].next = NoQtd, ![hcAt].st = "active"]
    /\ UNCHANGED <<clientVars, crossed, poolVars, linkVars, qtd, buf, hcVars, devVars, itemVars>>

\* The data toggle of the packet that c's device sends next.
DevToggle(c) == sent[c] % 2 = 1

\* The device has a packet of len, and is done with it.
Sends(c, len) ==
    /\ sent' = [sent EXCEPT ![c] = (@ + 1) % Numbers]
    /\ last' = [last EXCEPT ![c] = Packet(c, sent[c], len)]

\* Bound: a packet of len for the pipe of buffer b ends within the last buffer.  What
\* the linker has put behind recv_bufs is not modelled.
Fits(b, len) == b * BufSize + len <= (NumQh - 1) * BufSize

\* Where a packet of len for the pipe of buffer b ends up: there, and behind it.
Stored(b, packet) ==
    [x \in Bufs |->
        IF packet.len > 0 /\ b <= x /\ (x - b) * BufSize < packet.len THEN packet ELSE buf[x]]

\* A packet is accepted and ends the qTD, unless its toggle makes it a repetition.
HcPacket ==
    /\ hcAt # NoQh /\ qh[hcAt].st = "active"
    /\ \E len \in 0 .. MaxPacketSize :
       LET t == qh[hcAt].cur
           c == qh[hcAt].ep
       IN /\ Fits(hcAt - 2, len) /\ Sends(c, len)
          /\ IF qh[hcAt].dt # DevToggle(c)
             THEN UNCHANGED <<qh, qtd, buf>>
             ELSE /\ qtd' = [qtd EXCEPT ![t] = [st |-> "done", rem |-> MaxPacketSize - len]]
                  /\ buf' = Stored(hcAt - 2, Packet(c, sent[c], len))
                  /\ qh' = [qh EXCEPT ![hcAt].st = "idle", ![hcAt].cur = NoQtd, ![hcAt].dt = ~@]
    /\ UNCHANGED <<clientVars, crossed, poolVars, linkVars, hcVars, itemVars>>

\* The device stalls or is gone.
HcHalt ==
    /\ hcAt # NoQh /\ qh[hcAt].st = "active"
    /\ qh' = [qh EXCEPT ![hcAt].st = "halted", ![hcAt].cur = NoQtd]
    /\ qtd' = [qtd EXCEPT ![qh[hcAt].cur].st = "halted"]
    /\ UNCHANGED <<clientVars, crossed, poolVars, linkVars, buf, hcVars, devVars, itemVars>>

-----------------------------------------------------------------------------
Run(c) ==
    \/ Call(c) \/ GiveUp(c) \/ Begin(c) \/ Panic(c) \/ LinkQh(c) \/ PublishEntry(c)
    \/ Poll(c) \/ Copy(c) \/ Rearm(c) \/ Reattach(c)
    \/ Drop(c) \/ UnheadEntry(c) \/ Unchain(c) \/ Free(c)

Controller == HcFrame \/ HcAdvance \/ HcFetch \/ HcPacket \/ HcHalt

Next == (\E c \in Clients : Run(c)) \/ Controller

Spec == Init /\ [][Next]_vars
-----------------------------------------------------------------------------
(* Properties *)

TypeOK ==
    /\ pc \in [Clients -> Resting \cup Holding]
    /\ running \in Clients \cup {Nobody}
    /\ cursor \in 0 .. Frames - 1 /\ crossed \in BOOLEAN
    /\ pipe \in [Clients -> 1 .. NumQh]
    /\ slot \in [Clients -> Qtds \cup {NoQtd}]
    /\ \A c \in Clients :
          IF pc[c] \in Holding THEN pipe[c] # NumQh /\ slot[c] # NoQtd
                               ELSE pipe[c] = NumQh /\ slot[c] = NoQtd
    /\ qtdAllocated \subseteq Qtds
    /\ entry \in [0 .. Frames - 1 -> Qhs \cup {NoQh}]
    /\ hlink \in [Qhs -> Qhs \cup {NoQh}]
    /\ qh \in [Qhs -> [ep : Clients \cup {Nobody}, cur : Qtds \cup {NoQtd},
                       next : Qtds \cup {NoQtd}, st : {"idle", "active", "halted"},
                       dt : BOOLEAN]]
    /\ qtd \in [Qtds -> [st : {"zero", "active", "done", "halted"}, rem : 0 .. MaxPacketSize]]
    /\ hcAt \in Qhs \cup {NoQh} /\ hcNext \in Qhs \cup {NoQh}

\* The QHs reached from the QH start by following horizontal links in memory.
Reach(start) ==
    {q \in Qhs : \A S \in SUBSET Qhs :
        ({start} \cap Qhs \subseteq S /\ \A r \in S : hlink[r] \in Qhs => hlink[r] \in S)
            => q \in S}

\* At every moment each frame's chain ends and has every pipe that is linked; the
\* only other QH it may have is the one being linked or unlinked, and between two
\* calls there is none (schedule.rs:178-249).
ScheduleExact ==
    \A f \in DOMAIN entry :
        LET chain == Reach(entry[f])
            others == chain \ {QhOf(c) : c \in {d \in Clients : pc[d] \in Linked}}
        IN  /\ \A c \in Clients : pc[c] \in Linked => QhOf(c) \in chain
            /\ others \subseteq {QhOf(c) : c \in {d \in Clients : running = d}}
            /\ \A q \in chain : q \notin Reach(hlink[q])

\* Whatever the controller holds or can reach from the frame list is the QH of a
\* pipe that has not been freed, initialised for it, with no qTD but the pipe's own
\* (interrupt_pipe.rs:195-202 and 215-220).
DmaSafe ==
    \A q \in ({hcAt} \cap Qhs) \cup Reach(hcNext) \cup UNION {Reach(entry[f]) : f \in DOMAIN entry} :
        \E c \in Clients :
            /\ pc[c] \in Holding /\ QhOf(c) = q /\ qh[q].ep = c
            /\ {qh[q].next, qh[q].cur} \subseteq {slot[c], NoQtd}

\* The part of a packet that an InterruptPacket holds.
Cut(packet) == [packet EXCEPT !.len = Lower(@, BufSize)]

\* The buffer of c has the end of another pipe's packet, one that is larger than the
\* buffer in front of it.
Overrun(c) == buf[BufOf(c)].of # c /\ buf[BufOf(c)].len > BufSize

\* The packets a stream returns are those the device has sent, each once and in order:
\* a packet that was sent is waiting in the receive buffer or has been returned.  They
\* are returned unchanged up to the 64 bytes of an InterruptPacket, and nothing but a
\* larger packet of another pipe can change them (interrupt_pipe.rs:134-174,
\* transfer.rs:640-648).
PacketsIntact ==
    \A c \in Clients :
        /\ pc[c] \in Linked =>
              sent[c] = (got[c] + (IF qtd[slot[c]].st = "done" /\ pc[c] # "rearm" THEN 1 ELSE 0))
                           % Numbers
        /\ pc[c] \in {"rearm", "attach"} => item[c] = Cut(last[c]) \/ Overrun(c)

\* Between two polls a pipe can go on: the controller executes its qTD or will find
\* it, or the next poll will see that it is over.  No pipe is left waiting for a
\* packet that nobody fetches (interrupt_pipe.rs:109-114 and 144-174).
NeverStuck ==
    \A c \in Clients : pc[c] \in {"open", "ended"} =>
        LET q == qh[QhOf(c)]
            st == qtd[slot[c]].st
        IN  \/ st = "active" /\ q.st = "active" /\ q.cur = slot[c]
            \/ st = "active" /\ q.st = "idle" /\ q.next = slot[c]
            \/ st = "done" /\ q.st = "idle"
            \/ st = "halted" /\ q.st = "halted"

\* Interrupt pipes take pipes and qTDs from the pools, or panic, only as UsbPools
\* allows, and give both back.
ImplementsPools == Pools!Spec
=============================================================================
