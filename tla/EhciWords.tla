----------------------------- MODULE EhciWords -----------------------------
(***************************************************************************)
(* The words the driver and the controller exchange through memory         *)
(* (src/ehci.rs): links, the token of a qTD, its buffer pointers, and the  *)
(* characteristics, capabilities and overlay of a QH.  One QH and one qTD  *)
(* are built for a transfer, linked, retired by the controller, re-armed   *)
(* if they belong to an interrupt pipe, and unlinked.                      *)
(*                                                                         *)
(* A 32-bit word is the set of its bits that are one: | is union, & ~m     *)
(* takes bits away, and a shift moves them, those past bit 31 getting      *)
(* lost.  Buffer pointers are numbers, since arithmetic is done on them.   *)
(***************************************************************************)
EXTENDS Naturals

CONSTANTS
    QhAddr, SentinelAddr,   \* addresses of the QH and of the async sentinel
    QtdAddr,                \* address of the qTD
    Addresses,              \* USB addresses of devices
    Numbers,                \* endpoint numbers
    PacketSizes,            \* maximum packet sizes
    Lengths,                \* lengths of transfers
    Statuses,               \* what the controller leaves in bits 0 .. 6 of a token
    Buffers,                \* addresses of data buffers
    Offsets                 \* bytes of a buffer that are looked at

Bits == 0 .. 31
Words == SUBSET Bits

\* repr(align(64)) and repr(align(32)), and the ranges the code documents.
ConstantsOK ==
    /\ QhAddr \in SUBSET (6 .. 31) /\ SentinelAddr \in SUBSET (6 .. 31)
    /\ QtdAddr \in SUBSET (5 .. 31)
    /\ QhAddr # {} /\ QhAddr # SentinelAddr
    /\ Addresses \subseteq SUBSET (0 .. 6)
    /\ Numbers \subseteq SUBSET (0 .. 3)
    /\ PacketSizes \subseteq SUBSET (0 .. 10)
    /\ Lengths \subseteq SUBSET (0 .. 14)
    /\ Statuses \subseteq SUBSET (0 .. 6)
    /\ Buffers \subseteq Nat /\ Offsets \subseteq Nat

Shl(bits, n) == {b + n : b \in bits} \cap Bits
Flag(on, n) == IF on THEN {n} ELSE {}

\* The bits lo .. hi of a word as a number.
Field(word, lo, hi) == {b - lo : b \in word \cap (lo .. hi)}

-----------------------------------------------------------------------------
(* Links *)

Terminate == {0}                    \* LINK_TERMINATE
TypeQh == {1}                       \* link_type::QH

LinkPointer(addr, typ) == (addr \ (0 .. 4)) \cup typ
LinkAddress(link) == link \ (0 .. 4)
LinkIsTerminate(link) == 0 \in link

-----------------------------------------------------------------------------
(* Transfer descriptors *)

PidOut == {}
PidIn == {0}
PidSetup == {1}

Active == 7
Halted == 6
Errors == {6, 5, 4, 3, 2}           \* QTD_TOKEN_ERROR_MASK
Toggle == 31

\* qtd_token; three tries before the queue halts
QtdToken(pid, total, toggle, ioc) ==
    {Active} \cup Shl(pid, 8) \cup Shl({0, 1}, 10) \cup Shl(total, 16)
        \cup Flag(toggle, Toggle) \cup Flag(ioc, 15)

\* Mutant: a byte of status and flags too much.
BytesRemainingUnmasked(token) == Field(token, 16, 31)

BytesRemaining(token) == Field(token, 16, 30)
IsComplete(token) == Active \notin token
HasError(token) == token \cap Errors # {}

PageSize == 4096
PageOf(addr) == addr - (addr % PageSize)

\* Mutant: the later pages are counted from the next page boundary.
PagesRoundedUp(data) ==
    [i \in 0 .. 4 |-> IF i = 0 THEN data ELSE PageOf(data + PageSize - 1) + i * PageSize]

\* The buffer itself, and the four pages behind the one it starts in.
Pages(data) == [i \in 0 .. 4 |-> IF i = 0 THEN data ELSE PageOf(data) + i * PageSize]

\* TransferDescriptor::init
InitQtd(token, data) ==
    [next |-> Terminate, altNext |-> Terminate, token |-> token, buffer |-> Pages(data)]

-----------------------------------------------------------------------------
(* Queue heads *)

SpeedFull == {}
SpeedLow == {0}
SpeedHigh == {1}

\* Mutant: every control endpoint has the flag of full and low speed.
CharacteristicsHighToo(address, number, speed, packetSize, control, head) ==
    address \cup Shl(number, 8) \cup Shl(speed, 12)
        \cup Flag(control, 14) \cup Flag(head, 15) \cup Shl(packetSize, 16)
        \cup Flag(control, 27) \cup Shl(0 .. 3, 28)

\* qh_characteristics; the NAK counter reloads 15
Characteristics(address, number, speed, packetSize, control, head) ==
    address \cup Shl(number, 8) \cup Shl(speed, 12)
        \cup Flag(control, 14) \cup Flag(head, 15) \cup Shl(packetSize, 16)
        \cup Flag(control /\ speed # SpeedHigh, 27) \cup Shl(0 .. 3, 28)

\* qh_capabilities
Capabilities(smask, cmask, hubAddr, hubPort, mult) ==
    smask \cup Shl(cmask, 8) \cup Shl(hubAddr, 16) \cup Shl(hubPort, 23) \cup Shl(mult, 30)

NewQh == [link |-> Terminate, characteristics |-> {}, capabilities |-> {},
          next |-> Terminate, token |-> {}]
NewQtd == [next |-> Terminate, altNext |-> Terminate, token |-> {},
           buffer |-> [i \in 0 .. 4 |-> 0]]

InitSentinel(addr) ==
    [link |-> LinkPointer(addr, TypeQh),
     characteristics |-> Characteristics({}, {}, SpeedHigh, {}, FALSE, TRUE),
     capabilities |-> Capabilities({}, {}, {}, {}, {0}),
     next |-> Terminate, token |-> {Halted}]

InitEndpoint(characteristics, capabilities) ==
    [link |-> Terminate, characteristics |-> characteristics, capabilities |-> capabilities,
     next |-> Terminate, token |-> {Halted}]

AttachQtd(q, addr) == [q EXCEPT !.next = addr, !.token = {}]

ReattachQtd(q, addr) == [q EXCEPT !.next = addr]

SetOverlayToggle(q, on) == [q EXCEPT !.token = IF on THEN @ \cup {Toggle} ELSE @ \ {Toggle}]

-----------------------------------------------------------------------------
VARIABLES
    stage,      \* "idle", "built", "linked", "retired"
    asked,      \* the transfer the driver was asked for
    heads,      \* the link of the async sentinel, and an entry of the frame list
    qh, qtd,    \* memory shared with the controller
    told        \* the outcome as the controller knows it, and the toggle it is to use next

vars == <<stage, asked, heads, qh, qtd, told>>

Schedules == {"async", "periodic"}
ScheduleOf(x) == IF x.kind = "interrupt" THEN "periodic" ELSE "async"

\* What do_control_transfer, do_bulk_transfer and do_alloc_interrupt_pipe are called
\* with; a control transfer stands here for any one of its stages.
Transfers ==
    {x \in [kind : {"control", "bulk", "interrupt"},
            address : Addresses, number : Numbers,
            speed : {SpeedFull, SpeedLow, SpeedHigh}, packetSize : PacketSizes,
            pid : {PidOut, PidIn, PidSetup}, total : Lengths \cup PacketSizes,
            toggle : BOOLEAN, ioc : BOOLEAN, data : Buffers] :
        /\ x.kind = "control" => x.number = {}
        /\ x.kind # "control" => x.pid # PidSetup
        /\ x.kind = "interrupt" =>
              x.pid = PidIn /\ x.total = x.packetSize /\ ~x.toggle /\ x.ioc}

Nothing == [kind |-> "none"]
NotTold == [left |-> {}, status |-> {}, toggle |-> FALSE]

Init ==
    /\ stage = "idle" /\ asked = Nothing
    /\ heads = [s \in Schedules |->
          IF s = "async" THEN InitSentinel(SentinelAddr).link ELSE Terminate]
    /\ qh = NewQh /\ qtd = NewQtd
    /\ told = NotTold

\* The override for bulk endpoints of High Speed: 512, the only size USB 2.0 allows them,
\* in place of any smaller one (cotton-usb-host asks for 64).
ActualPacketSize(x) ==
    IF x.kind = "bulk" /\ x.speed = SpeedHigh /\ x.packetSize \subseteq 0 .. 8
    THEN {9} ELSE x.packetSize

CharacteristicsOf(x) ==
    LET word == Characteristics(x.address, x.number, x.speed, ActualPacketSize(x),
                                x.kind = "control", FALSE)
    IN  IF x.kind = "interrupt" THEN word \ (28 .. 31) ELSE word

CapabilitiesOf(x) ==
    Capabilities(IF x.kind = "interrupt" THEN {0} ELSE {}, {}, {}, {}, {0})

\* The toggle is in the token of a control stage, in the overlay otherwise.
TokenOf(x) == QtdToken(x.pid, x.total, x.kind = "control" /\ x.toggle, x.ioc)

\* Mutant: the toggle is set first, and cleared by the attaching.
BuiltQhEarly(x) ==
    LET q == InitEndpoint(CharacteristicsOf(x), CapabilitiesOf(x))
    IN  AttachQtd(IF x.kind # "control" /\ x.toggle THEN SetOverlayToggle(q, TRUE) ELSE q, QtdAddr)

BuiltQh(x) ==
    LET q == AttachQtd(InitEndpoint(CharacteristicsOf(x), CapabilitiesOf(x)), QtdAddr)
    IN  IF x.kind # "control" /\ x.toggle THEN SetOverlayToggle(q, TRUE) ELSE q

Build(x) ==
    /\ stage = "idle"
    /\ asked' = x
    /\ qtd' = InitQtd(TokenOf(x), x.data)
    /\ qh' = BuiltQh(x)
    /\ told' = [NotTold EXCEPT !.toggle = x.toggle]
    /\ stage' = "built"
    /\ UNCHANGED heads

\* Mutant: the successor is not taken over.
LinkOnly ==
    /\ stage = "built"
    /\ heads' = [heads EXCEPT ![ScheduleOf(asked)] = LinkPointer(QhAddr, TypeQh)]
    /\ stage' = "linked"
    /\ UNCHANGED <<asked, qh, qtd, told>>

\* link_qh_to_async_schedule, link_qh_to_periodic_schedule
Link ==
    /\ stage = "built"
    /\ LET s == ScheduleOf(asked) IN
       /\ qh' = [qh EXCEPT !.link = heads[s]]
       /\ heads' = [heads EXCEPT ![s] = LinkPointer(QhAddr, TypeQh)]
    /\ stage' = "linked"
    /\ UNCHANGED <<asked, qtd, told>>

\* The controller executes the qTD, with left bytes to go, and writes it back.
Retire(left, status, toggle) ==
    /\ stage = "linked" /\ left \subseteq asked.total
    /\ LET token == status \cup Shl(asked.pid, 8) \cup Shl(left, 16)
                       \cup Flag(toggle, Toggle) \cup Flag(asked.ioc, 15)
       IN  /\ qtd' = [qtd EXCEPT !.token = token]
           /\ qh' = [qh EXCEPT !.token = token, !.next = qtd.next]
    /\ told' = [left |-> left, status |-> status, toggle |-> toggle]
    /\ stage' = "retired"
    /\ UNCHANGED <<asked, heads>>

\* An interrupt pipe delivers its packet and re-arms.
Rearm ==
    /\ stage = "retired" /\ asked.kind = "interrupt" /\ Halted \notin qtd.token
    /\ qtd' = InitQtd(TokenOf(asked), asked.data)
    /\ qh' = ReattachQtd(qh, QtdAddr)
    /\ stage' = "linked"
    /\ UNCHANGED <<asked, heads, told>>

\* unlink_qh_from_async_schedule, unlink_qh_from_periodic_schedule
Unlink ==
    /\ stage \in {"linked", "retired"}
    /\ heads' = [s \in Schedules |->
          IF s = ScheduleOf(asked) /\ LinkAddress(heads[s]) = LinkAddress(QhAddr)
          THEN qh.link ELSE heads[s]]
    /\ stage' = "idle"
    /\ asked' = Nothing /\ qh' = NewQh /\ qtd' = NewQtd /\ told' = NotTold

Next ==
    \/ \E x \in Transfers : Build(x)
    \/ Link
    \/ \E left \in Lengths \cup PacketSizes, status \in Statuses, toggle \in BOOLEAN :
          Retire(left, status, toggle)
    \/ Rearm
    \/ Unlink

Spec == Init /\ [][Next]_vars

-----------------------------------------------------------------------------
(* The controller's reading of these words (EHCI 3.5, 3.6) *)

HcEndpoint(q) ==
    [address |-> Field(q.characteristics, 0, 6),
     inactivate |-> 7 \in q.characteristics,
     number |-> Field(q.characteristics, 8, 11),
     speed |-> Field(q.characteristics, 12, 13),
     toggleFromQtd |-> 14 \in q.characteristics,
     head |-> 15 \in q.characteristics,
     packetSize |-> Field(q.characteristics, 16, 26),
     controlFlag |-> 27 \in q.characteristics,
     nakReload |-> Field(q.characteristics, 28, 31),
     smask |-> Field(q.capabilities, 0, 7),
     cmask |-> Field(q.capabilities, 8, 15),
     mult |-> Field(q.capabilities, 30, 31)]

HcTransfer(t) ==
    [active |-> Active \in t.token, halted |-> Halted \in t.token,
     pid |-> Field(t.token, 8, 9),
     tries |-> Field(t.token, 10, 11),
     page |-> Field(t.token, 12, 14),
     ioc |-> 15 \in t.token,
     total |-> Field(t.token, 16, 30),
     last |-> 0 \in t.next]

HcToggle == IF HcEndpoint(qh).toggleFromQtd THEN Toggle \in qtd.token ELSE Toggle \in qh.token

\* Where the controller finds byte k of the buffer.
HcAddress(t, k) ==
    LET at == (t.buffer[0] % PageSize) + k
    IN  PageOf(t.buffer[at \div PageSize]) + (at % PageSize)

-----------------------------------------------------------------------------
(* Properties *)

TypeOK ==
    /\ stage \in {"idle", "built", "linked", "retired"}
    /\ asked \in Transfers \cup {Nothing}
    /\ stage = "idle" <=> asked = Nothing
    /\ heads \in [Schedules -> Words]
    /\ qh \in [link : Words, characteristics : Words, capabilities : Words,
               next : Words, token : Words]
    /\ qtd \in [next : Words, altNext : Words, token : Words, buffer : [0 .. 4 -> Nat]]
    /\ told \in [left : Words, status : Words, toggle : BOOLEAN]

IsLinked == stage \in {"linked", "retired"}

\* The controller and the walks of the driver find the QH in its schedule, and only
\* there, with the rest of the schedule behind it; when it is unlinked the schedule is
\* as before (schedule.rs:117-171, 188-236).
LinksRead ==
    /\ IsLinked =>
          /\ LinkAddress(heads[ScheduleOf(asked)]) = QhAddr
          /\ Field(heads[ScheduleOf(asked)], 0, 2) = {1}
    /\ LET behind(s) == IF IsLinked /\ s = ScheduleOf(asked) THEN qh.link ELSE heads[s]
       IN  /\ LinkIsTerminate(behind("periodic"))
           /\ LinkAddress(behind("async")) = SentinelAddr
           /\ Field(behind("async"), 0, 2) = {1}

\* The controller reads from the QH the endpoint that was asked for: no argument runs
\* into another's bits.  Only a bulk endpoint of a High-Speed device has 512-byte packets
\* when fewer were asked for.  The NAK counter is off in the periodic schedule as EHCI wants
\* it, a control endpoint of full or low speed has its flag, only a periodic QH has a
\* micro-frame mask, and none is the head of the list (ehci.rs:383-439,
\* transfer.rs:412-435 and 607-623).
EndpointRead ==
    IsLinked =>
        HcEndpoint(qh) =
            [address |-> asked.address, inactivate |-> FALSE,
             number |-> asked.number, speed |-> asked.speed,
             toggleFromQtd |-> asked.kind = "control",
             head |-> FALSE,
             packetSize |->
                IF asked.kind = "bulk" /\ asked.speed = SpeedHigh
                   /\ \A b \in asked.packetSize : b < 9
                THEN {9} ELSE asked.packetSize,
             controlFlag |-> asked.kind = "control" /\ asked.speed # SpeedHigh,
             nakReload |-> IF asked.kind = "interrupt" THEN {} ELSE 0 .. 3,
             smask |-> IF asked.kind = "interrupt" THEN {0} ELSE {},
             cmask |-> {}, mult |-> {0}]

\* The controller finds the overlay idle with the qTD next, reads from it the transfer
\* asked for, from its first page, and starts with the right toggle: that of the call,
\* and after a re-arming that of the packets before (ehci.rs:186-201, 536-574).
TransferRead ==
    stage = "linked" =>
        /\ Active \notin qh.token /\ Halted \notin qh.token
        /\ qh.next = QtdAddr
        /\ HcTransfer(qtd) =
              [active |-> TRUE, halted |-> FALSE, pid |-> asked.pid, tries |-> {0, 1},
               page |-> {}, ioc |-> asked.ioc, total |-> asked.total, last |-> TRUE]
        /\ HcToggle = told.toggle

\* The driver reads from a retired qTD what the controller wrote there: what is left,
\* and whether it failed (ehci.rs:203-207, 250-267).
ResultRead ==
    stage = "retired" =>
        /\ IsComplete(qtd.token)
        /\ BytesRemaining(qtd.token) = told.left
        /\ HasError(qtd.token) <=> \E b \in 2 .. 6 : b \in told.status

\* Every byte of a buffer that the five pointers can reach is transferred to and from
\* where it is (ehci.rs:237-248).
BytesReached ==
    stage \in {"built", "linked"} =>
        \A k \in Offsets :
            (asked.data % PageSize) + k < 5 * PageSize => HcAddress(qtd, k) = asked.data + k
=============================================================================
