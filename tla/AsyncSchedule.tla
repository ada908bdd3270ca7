---------------------------- MODULE AsyncSchedule ----------------------------
(***************************************************************************)
(* Control and bulk transfers on the EHCI asynchronous schedule: the       *)
(* futures of src/host/transfer.rs and futures.rs, the circular list and   *)
(* the doorbell of schedule.rs, and the controller hardware that walks the *)
(* list by DMA at the same time.                                           *)
(*                                                                         *)
(* A client is one caller, on one endpoint, with at most one transfer of   *)
(* its own.  All futures belong to one task, so a client that a poll has   *)
(* entered (running) keeps the CPU until the poll returns Pending or the   *)
(* transfer returns; the controller can step between any two accesses to   *)
(* memory it can see.  Wakers and interrupts are not here: a future may be *)
(* polled at any time.                                                     *)
(***************************************************************************)
EXTENDS Integers, FiniteSets, Sequences

CONSTANTS
    ControlClients,     \* callers of control_transfer
    InClients,          \* callers of bulk_in_transfer
    OutClients,         \* callers of bulk_out_transfer
    NumQh,              \* NUM_QH
    NumQtd,             \* NUM_QTD
    Lens,               \* lengths of the data buffers, in half packets
    MaxInFlight,        \* transfers the application keeps in flight at once
    MayCancel,          \* whether it drops futures before they are ready
    BusErrors           \* whether a packet may go unanswered and be retried

Clients == ControlClients \cup InClients \cup OutClients

ASSUME ClientsAssumption ==
    /\ ControlClients \cap InClients = {}
    /\ ControlClients \cap OutClients = {}
    /\ InClients \cap OutClients = {}
ASSUME LensAssumption == Lens \subseteq Nat
ASSUME SizesAssumption == NumQh \in Nat \ {0} /\ NumQtd \in Nat /\ MaxInFlight \in Nat
ASSUME SwitchesAssumption == MayCancel \in BOOLEAN /\ BusErrors \in BOOLEAN

Nobody == "nobody"
ASSUME NobodyAssumption == Nobody \notin Clients

Sentinel == 0
Qhs == 0 .. NumQh               \* qh_pool: the sentinel and one QH per pipe
NoQh == NumQh + 1               \* the TERMINATE link
Qtds == 0 .. NumQtd - 1
NoQtd == NumQtd                 \* the TERMINATE next pointer

PacketSize == 2                 \* the endpoint's: one packet is two half packets

Lower(a, b) == IF a < b THEN a ELSE b

(* Transfers: a kind and the length of the data stage. *)
NoTransfer == [kind |-> "none", len |-> 0]
TransfersOf(c) ==
    IF c \in ControlClients
    THEN {[kind |-> "controlNone", len |-> 0]}
         \cup [kind : {"controlIn", "controlOut"}, len : Lens]
    ELSE IF c \in InClients
    THEN [kind : {"bulkIn"}, len : Lens]
    ELSE [kind : {"bulkOutFixed", "bulkOutVariable"}, len : Lens]
Transfers == UNION {TransfersOf(c) : c \in Clients}

IsControl(x) == x.kind \in {"controlNone", "controlIn", "controlOut"}

\* Mutant: the zero-length packet goes to the fixed-size transfers.
NeedZlpSwapped(x) == x.kind = "bulkOutFixed" /\ x.len > 0 /\ x.len % PacketSize = 0

\* A variable-size OUT of a whole number of packets ends with a zero-length one.
NeedZlp(x) == x.kind = "bulkOutVariable" /\ x.len > 0 /\ x.len % PacketSize = 0

Stage(dir, len) == [dir |-> dir, len |-> len]

\* The qTD chain built for x: direction and length of each stage.
Chain(x) ==
    CASE x.kind = "controlNone" -> <<Stage("setup", 0), Stage("in", 0)>>
      [] x.kind = "controlIn"   -> <<Stage("setup", 0), Stage("in", x.len), Stage("out", 0)>>
      [] x.kind = "controlOut"  -> <<Stage("setup", 0), Stage("out", x.len), Stage("in", 0)>>
      [] x.kind = "bulkIn"      -> <<Stage("in", x.len)>>
      [] OTHER                  -> IF NeedZlp(x)
                                   THEN <<Stage("out", x.len), Stage("out", 0)>>
                                   ELSE <<Stage("out", x.len)>>

DataStage(x) == IF x.kind = "controlNone" THEN 0 ELSE IF IsControl(x) THEN 2 ELSE 1

\* The stages whose qTD TransferComplete examines besides the last one.
CheckedStages(x) == {DataStage(x)} \ {0, Len(Chain(x))}

VARIABLES
    (* the clients *)
    pc,             \* where each client's future stands
    xfer,           \* the transfer it was called with
    running,        \* the client whose poll is on the CPU, or Nobody
    outcome,        \* what the transfer is going to return
    toggle,         \* data_toggle, the caller's cell for a bulk endpoint
    (* the pools *)
    pipe, slots, qtdAllocated,
    (* memory and registers the controller shares *)
    hlink,          \* horizontal_link of each QH
    qh,             \* endpoint and overlay of each QH
    qtd,            \* the qTD pool
    ase, iaa, aai,  \* USBCMD.ASE, USBCMD.IAA and USBSTS.AAI
    (* the controller's own state *)
    hcAt,           \* the QH it has fetched
    hcNext,         \* the horizontal link it fetched with it
    (* what happened on the bus, for the properties only *)
    wire,           \* of each client's transfer
    devToggle       \* the device's side of each bulk endpoint's data toggle

clientVars == <<pc, xfer, running, outcome, toggle>>
poolVars   == <<pipe, slots, qtdAllocated>>
memVars    == <<hlink, qh, qtd, ase, iaa, aai>>
hcVars     == <<hcAt, hcNext>>
busVars    == <<wire, devToggle>>
vars       == <<clientVars, poolVars, memVars, hcVars, busVars>>

QhOf(c) == pipe[c] + 1
SlotSet(c) == {slots[c][i] : i \in DOMAIN slots[c]}

(* Control states.  A future rests in "pipe", "status" and "advance". *)
Resting   == {"idle", "pipe", "returned"}
InList    == {"status", "overlay", "unlink"}        \* linked, not yet unlinked
Published == InList \cup {"ring", "advance", "clear", "finish"}
Holding   == {"link", "publish"} \cup Published

-----------------------------------------------------------------------------
(* The pools, as UsbPools describes them. *)
PhaseBar == [c \in Clients |->
    IF pc[c] = "pipe" THEN "waiting" ELSE IF pc[c] \in Holding THEN "holding" ELSE "idle"]
KindOf(x) ==
    CASE x.kind = "controlNone"                  -> "controlNoData"
      [] x.kind \in {"controlIn", "controlOut"} -> "controlData"
      [] OTHER                                   -> IF NeedZlp(x) THEN "bulkZlp" ELSE "bulk"
KindBar == [c \in Clients |->
    IF PhaseBar[c] = "idle" THEN "none" ELSE KindOf(xfer[c])]

Pools == INSTANCE UsbPools WITH phase <- PhaseBar, kind <- KindBar

-----------------------------------------------------------------------------
EmptySlots == [i \in 1 .. 0 |-> 0]
NoOutcome == [tag |-> "none", n |-> 0]
Ok(n) == [tag |-> "ok", n |-> n]
Failed == [tag |-> "error", n |-> 0]
Busy == [tag |-> "allPipesInUse", n |-> 0]

\* A qTD: its status, direction, remaining bytes and sticky XactErr bit.
FreeQtd == [st |-> "zero", dir |-> "out", rem |-> 0, err |-> FALSE, next |-> NoQtd]
\* A QH: the endpoint in its characteristics; in its overlay the qTD being executed
\* (while st is "active"), the next one, the status and the data toggle.
ResetQh == [ep |-> Nobody, cur |-> NoQtd, next |-> NoQtd, st |-> "halted", dt |-> FALSE]
NoWire == [done |-> 0, units |-> 0, short |-> FALSE, retried |-> FALSE, halted |-> FALSE]

Init ==
    /\ pc = [c \in Clients |-> "idle"]
    /\ xfer = [c \in Clients |-> NoTransfer]
    /\ running = Nobody
    /\ outcome = [c \in Clients |-> NoOutcome]
    /\ toggle = [c \in Clients |-> FALSE]
    /\ pipe = [c \in Clients |-> Pools!NoPipe]
    /\ slots = [c \in Clients |-> EmptySlots]
    /\ qtdAllocated = {}
    /\ hlink = [q \in Qhs |-> IF q = Sentinel THEN Sentinel ELSE NoQh]
    /\ qh = [q \in Qhs |-> ResetQh]
    /\ qtd = [t \in Qtds |-> FreeQtd]
    /\ ase = FALSE /\ iaa = FALSE /\ aai = FALSE
    /\ hcAt = Sentinel /\ hcNext = Sentinel
    /\ wire = [c \in Clients |-> NoWire]
    /\ devToggle = [c \in Clients |-> FALSE]

Goto(c, l) == pc' = [pc EXCEPT ![c] = l]

InFlight == {c \in Clients : pc[c] # "idle"}

-----------------------------------------------------------------------------
(* The client: do_control_transfer and do_bulk_transfer *)

\* A transfer is called; its future waits for a pipe.
Call(c, x) ==
    /\ pc[c] = "idle" /\ running = Nobody
    /\ Cardinality(InFlight) < MaxInFlight
    /\ Goto(c, "pipe")
    /\ xfer' = [xfer EXCEPT ![c] = x]
    /\ UNCHANGED <<running, outcome, toggle, poolVars, memVars, hcVars, busVars>>

\* Mutants: every transfer starts with DATA0; the halt bit is left set.
AttachedData0(c, first) ==
    [ResetQh EXCEPT !.ep = c, !.next = first, !.st = "idle"]
AttachedHalted(c, first) ==
    [ResetQh EXCEPT !.ep = c, !.next = first, !.dt = toggle[c]]

\* init_endpoint, attach_qtd and set_overlay_toggle on the QH q for client c:
\* its overlay points at the first qTD and carries the caller's toggle.
Attached(c, first) ==
    [ResetQh EXCEPT !.ep = c, !.next = first, !.st = "idle", !.dt = toggle[c]]

\* The qTDs s initialised for the chain of x and linked in order.
Built(s, x) ==
    [t \in Qtds |->
        IF \E i \in DOMAIN s : s[i] = t
        THEN LET i == CHOOSE j \in DOMAIN s : s[j] = t
             IN  [st |-> "active", dir |-> Chain(x)[i].dir, rem |-> Chain(x)[i].len,
                  err |-> FALSE, next |-> IF i = Len(Chain(x)) THEN NoQtd ELSE s[i + 1]]
        ELSE qtd[t]]

\* A pipe is granted: QH and chain are set up, none of it linked yet.
Begin(c) ==
    /\ pc[c] = "pipe" /\ running = Nobody
    /\ \E p \in Pools!FreePipes(KindBar[c]) :
       \E s \in [1 .. Len(Chain(xfer[c])) -> Qtds] :
          /\ Pools!FirstFit(s, Len(Chain(xfer[c])))
          /\ pipe' = [pipe EXCEPT ![c] = p]
          /\ slots' = [slots EXCEPT ![c] = s]
          /\ qtdAllocated' = qtdAllocated \cup {s[i] : i \in DOMAIN s}
          /\ hlink' = [hlink EXCEPT ![p + 1] = NoQh]
          /\ qh' = [qh EXCEPT ![p + 1] = Attached(c, s[1])]
          /\ qtd' = Built(s, xfer[c])
    /\ wire' = [wire EXCEPT ![c] = NoWire]
    /\ Goto(c, "link") /\ running' = c
    /\ UNCHANGED <<xfer, outcome, toggle, ase, iaa, aai, hcVars, devToggle>>

\* Mutant: the pipe guard is forgotten on the error path.
BeginFailsKeepingPipe(c) ==
    /\ pc[c] = "pipe" /\ running = Nobody
    /\ Pools!TooFewQtds(c)
    /\ \E p \in Pools!FreePipes(KindBar[c]) : pipe' = [pipe EXCEPT ![c] = p]
    /\ Goto(c, "returned")
    /\ outcome' = [outcome EXCEPT ![c] = Busy]
    /\ UNCHANGED <<xfer, running, toggle, slots, qtdAllocated, memVars, hcVars, busVars>>

\* A pipe is granted but the qTDs run out: the QH has been initialised, the
\* guards drop and the call returns AllPipesInUse.
BeginFails(c) ==
    /\ pc[c] = "pipe" /\ running = Nobody
    /\ Pools!TooFewQtds(c)
    /\ \E p \in Pools!FreePipes(KindBar[c]) :
          /\ hlink' = [hlink EXCEPT ![p + 1] = NoQh]
          /\ qh' = [qh EXCEPT ![p + 1] = [ResetQh EXCEPT !.ep = c]]
    /\ Goto(c, "returned")
    /\ outcome' = [outcome EXCEPT ![c] = Busy]
    /\ UNCHANGED <<xfer, running, toggle, poolVars, qtd, ase, iaa, aai, hcVars, busVars>>

\* link_qh_to_async_schedule, first write: the new QH to the sentinel's successor.
LinkQh(c) ==
    /\ pc[c] = "link" /\ running = c
    /\ hlink' = [hlink EXCEPT ![QhOf(c)] = hlink[Sentinel]]
    /\ Goto(c, "publish")
    /\ UNCHANGED <<xfer, running, outcome, toggle, poolVars, qh, qtd, ase, iaa, aai,
                   hcVars, busVars>>

\* Second write: the sentinel to the new QH; then the schedule is enabled.
Publish(c) ==
    /\ pc[c] = "publish" /\ running = c
    /\ hlink' = [hlink EXCEPT ![Sentinel] = QhOf(c)]
    /\ ase' = TRUE
    /\ Goto(c, "status")
    /\ UNCHANGED <<xfer, running, outcome, toggle, poolVars, qh, qtd, iaa, aai,
                   hcVars, busVars>>

StageQtd(c, i) == qtd[slots[c][i]]
StatusQtd(c) == StageQtd(c, Len(Chain(xfer[c])))

\* Mutant: the remaining bytes of the status stage.
RemainingOfStatus(c) == StatusQtd(c).rem

Remaining(c) == StageQtd(c, DataStage(xfer[c])).rem

\* The byte count a transfer without errors returns.
ByteCount(c) ==
    CASE xfer[c].kind \in {"controlIn", "bulkIn"} -> xfer[c].len - Remaining(c)
      [] xfer[c].kind = "controlNone"             -> 0
      [] OTHER                                    -> xfer[c].len

CheckedHalted(c) == \E i \in CheckedStages(xfer[c]) : StageQtd(c, i).st = "halted"

\* Mutant: a halt is looked for in the data qTD only.
HaltSeenInData(c) == CheckedHalted(c)

HaltSeen(c) == qh[QhOf(c)].st = "halted" \/ CheckedHalted(c)

\* One of the QTD_TOKEN_ERROR_MASK bits is set.
HasError(t) == t.st = "halted" \/ t.err

\* TransferComplete::poll reads the last qTD's token: still Active, or the
\* transfer is over and the error bits decide what it returns.  A bulk transfer
\* counts its bytes here, a control transfer once the QH is stopped (Finish).
PollStatus(c) ==
    /\ pc[c] = "status" /\ running \in {Nobody, c}
    /\ running' = c
    /\ \/ /\ StatusQtd(c).st = "active"
          /\ Goto(c, "overlay")
          /\ UNCHANGED outcome
       \/ /\ StatusQtd(c).st # "active"
          /\ Goto(c, "unlink")
          /\ outcome' = [outcome EXCEPT ![c] =
                IF \/ HasError(StatusQtd(c))
                   \/ \E i \in CheckedStages(xfer[c]) : HasError(StageQtd(c, i))
                THEN Failed
                ELSE Ok(IF IsControl(xfer[c]) THEN 0 ELSE ByteCount(c))]
    /\ UNCHANGED <<xfer, toggle, poolVars, memVars, hcVars, busVars>>

\* The last qTD was Active: a halted overlay or data qTD ends the wait all the
\* same, otherwise the poll returns Pending.
PollOverlay(c) ==
    /\ pc[c] = "overlay" /\ running = c
    /\ \/ /\ HaltSeen(c)
          /\ Goto(c, "unlink")
          /\ outcome' = [outcome EXCEPT ![c] = Failed]
          /\ UNCHANGED running
       \/ /\ ~HaltSeen(c)
          /\ Goto(c, "status")
          /\ running' = Nobody
          /\ UNCHANGED outcome
    /\ UNCHANGED <<xfer, toggle, poolVars, memVars, hcVars, busVars>>

\* The QHs visited from the sentinel in search of q's predecessor: the least
\* set with the sentinel and every link that is followed.
WalkTo(q) ==
    {p \in Qhs : \A S \in SUBSET Qhs :
        (Sentinel \in S /\ \A r \in S : hlink[r] \in Qhs \ {q} => hlink[r] \in S) => p \in S}

\* Mutant: the predecessor is linked back to the sentinel.
BypassToSentinel(q) == Sentinel

\* What the predecessor of q is linked to: q's own successor.
Bypass(q) == hlink[q]

\* unlink_qh_from_async_schedule: the walk ends at q's predecessor, which takes
\* q's own link, or back at the sentinel, when q is not in the list.
Unlink(c) ==
    /\ pc[c] = "unlink" /\ running = c
    /\ LET q == QhOf(c) IN
       /\ \E p \in WalkTo(q) : hlink[p] \in {q, Sentinel}
       /\ hlink' = [p \in Qhs |->
             IF p \in WalkTo(q) /\ hlink[p] = q THEN Bypass(q) ELSE hlink[p]]
    /\ Goto(c, "ring")
    /\ UNCHANGED <<xfer, running, outcome, toggle, poolVars, qh, qtd, ase, iaa, aai,
                   hcVars, busVars>>

\* Mutant: the write to USBCMD loses the doorbell bit.
RingLost(c) ==
    /\ pc[c] = "ring" /\ running = c
    /\ Goto(c, "advance")
    /\ UNCHANGED <<xfer, running, outcome, toggle, poolVars, memVars, hcVars, busVars>>

\* wait_async_advance sets USBCMD.IAA.
Ring(c) ==
    /\ pc[c] = "ring" /\ running = c
    /\ iaa' = TRUE
    /\ Goto(c, "advance")
    /\ UNCHANGED <<xfer, running, outcome, toggle, poolVars, hlink, qh, qtd, ase, aai,
                   hcVars, busVars>>

\* AsyncAdvanceWait::poll reads USBSTS.AAI.
PollAdvance(c) ==
    /\ pc[c] = "advance" /\ running \in {Nobody, c}
    /\ IF aai THEN Goto(c, "clear") /\ running' = c
              ELSE UNCHANGED pc /\ running' = Nobody
    /\ UNCHANGED <<xfer, outcome, toggle, poolVars, memVars, hcVars, busVars>>

\* Mutant: the status bit stays set.
ClearAaiForgotten(c) ==
    /\ pc[c] = "clear" /\ running = c
    /\ Goto(c, "finish")
    /\ UNCHANGED <<xfer, running, outcome, toggle, poolVars, memVars, hcVars, busVars>>

\* ... and acknowledges it (write one to clear).
ClearAai(c) ==
    /\ pc[c] = "clear" /\ running = c
    /\ aai' = FALSE
    /\ Goto(c, "finish")
    /\ UNCHANGED <<xfer, running, outcome, toggle, poolVars, hlink, qh, qtd, ase, iaa,
                   hcVars, busVars>>

\* Mutants: the bitmap keeps the slots; the caller keeps the guards.
DropGuardsNoBitmap(c) ==
    /\ qtd' = [t \in Qtds |-> IF t \in SlotSet(c) THEN FreeQtd ELSE qtd[t]]
    /\ slots' = [slots EXCEPT ![c] = EmptySlots]
    /\ pipe' = [pipe EXCEPT ![c] = Pools!NoPipe]
    /\ UNCHANGED qtdAllocated
DropGuardsKept(c) ==
    /\ qtd' = [t \in Qtds |-> IF t \in SlotSet(c) THEN FreeQtd ELSE qtd[t]]
    /\ qtdAllocated' = qtdAllocated \ SlotSet(c)
    /\ pipe' = [pipe EXCEPT ![c] = Pools!NoPipe]
    /\ UNCHANGED slots

\* The guards of client c drop: its qTDs are zeroed and free, its pipe too.
DropGuards(c) ==
    /\ qtd' = [t \in Qtds |-> IF t \in SlotSet(c) THEN FreeQtd ELSE qtd[t]]
    /\ qtdAllocated' = qtdAllocated \ SlotSet(c)
    /\ slots' = [slots EXCEPT ![c] = EmptySlots]
    /\ pipe' = [pipe EXCEPT ![c] = Pools!NoPipe]

\* The end of the transfer: the byte count of a control transfer, the toggle of
\* a bulk transfer, then the guards.
Finish(c) ==
    /\ pc[c] = "finish" /\ running = c
    /\ outcome' = [outcome EXCEPT ![c] =
          IF IsControl(xfer[c]) /\ outcome[c].tag = "ok" THEN Ok(ByteCount(c)) ELSE @]
    /\ toggle' = [toggle EXCEPT ![c] = IF IsControl(xfer[c]) THEN @ ELSE qh[QhOf(c)].dt]
    /\ DropGuards(c)
    /\ Goto(c, "returned") /\ running' = Nobody
    /\ UNCHANGED <<xfer, hlink, qh, ase, iaa, aai, hcVars, busVars>>

\* The caller takes the result.
Return(c) ==
    /\ pc[c] = "returned" /\ running = Nobody
    /\ Goto(c, "idle")
    /\ xfer' = [xfer EXCEPT ![c] = NoTransfer]
    /\ outcome' = [outcome EXCEPT ![c] = NoOutcome]
    /\ wire' = [wire EXCEPT ![c] = NoWire]
    /\ UNCHANGED <<running, toggle, poolVars, memVars, hcVars, devToggle>>

\* The caller drops the future where it rests.  Nothing unlinks the QH.
Cancel(c) ==
    /\ MayCancel
    /\ pc[c] \in {"pipe", "status", "advance"} /\ running = Nobody
    /\ DropGuards(c)
    /\ Goto(c, "idle")
    /\ xfer' = [xfer EXCEPT ![c] = NoTransfer]
    /\ wire' = [wire EXCEPT ![c] = NoWire]
    /\ UNCHANGED <<running, outcome, toggle, hlink, qh, ase, iaa, aai, hcVars, devToggle>>

-----------------------------------------------------------------------------
(* The controller (EHCI 4.8 and 4.10), as the driver relies on it *)

\* It moves on to the QH whose link it fetched with the previous one and fetches
\* that QH's link.  Back at the head of the list it holds nothing it fetched
\* before, and answers the doorbell.
HcAdvance ==
    /\ ase /\ hcNext \in Qhs
    /\ hcAt' = hcNext
    /\ hcNext' = hlink[hcNext]
    /\ aai' = (aai \/ (iaa /\ hcNext = Sentinel))
    /\ iaa' = (iaa /\ hcNext # Sentinel)
    /\ UNCHANGED <<clientVars, poolVars, hlink, qh, qtd, ase, busVars>>

\* The overlay is idle and its next qTD active: load it.
HcFetch ==
    /\ ase /\ hcAt # Sentinel
    /\ qh[hcAt].st = "idle" /\ qh[hcAt].next # NoQtd
    /\ LET t == qh[hcAt].next IN
       /\ qtd[t].st = "active"
       /\ qh' = [qh EXCEPT ![hcAt].cur = t, ![hcAt].next = qtd[t].next,
                           ![hcAt].st = "active"]
    /\ UNCHANGED <<clientVars, poolVars, hlink, qtd, ase, iaa, aai, hcVars, busVars>>

IsBulk(c) == c \in InClients \cup OutClients

\* Only the traffic of a transfer in flight is recorded.
OnWire(c, w) == wire' = IF pc[c] \in Holding THEN [wire EXCEPT ![c] = w] ELSE wire

\* One packet on the bus.  An IN ends with its last byte or a short packet.
\* The qTD's remaining count is kept in the qTD itself: nobody reads it earlier.
HcPacket ==
    /\ ase /\ hcAt # Sentinel /\ qh[hcAt].st = "active"
    /\ LET t == qh[hcAt].cur
           c == qh[hcAt].ep
           full == Lower(PacketSize, qtd[t].rem)
       IN \E n \in IF qtd[t].dir = "in" THEN 0 .. full ELSE {full} :
          LET rem == qtd[t].rem - n
              over == rem = 0 \/ (qtd[t].dir = "in" /\ n < PacketSize)
          IN
          /\ qtd' = [qtd EXCEPT ![t].rem = rem,
                                ![t].st = IF over THEN "done" ELSE @]
          /\ qh' = [qh EXCEPT ![hcAt].st = IF over THEN "idle" ELSE @,
                              ![hcAt].cur = IF over THEN NoQtd ELSE @,
                              ![hcAt].dt = IF IsBulk(c) THEN ~@ ELSE @]
          /\ OnWire(c, [wire[c] EXCEPT !.done = IF over THEN @ + 1 ELSE @,
                                       !.units = @ + n,
                                       !.short = n < PacketSize])
          /\ devToggle' = [devToggle EXCEPT ![c] = IF IsBulk(c) THEN ~@ ELSE @]
    /\ UNCHANGED <<clientVars, poolVars, hlink, ase, iaa, aai, hcVars>>

\* A packet gets no valid answer and will be tried again.  The qTD remembers it
\* to the end.
HcRetry ==
    /\ BusErrors /\ ase /\ hcAt # Sentinel /\ qh[hcAt].st = "active"
    /\ qtd' = [qtd EXCEPT ![qh[hcAt].cur].err = TRUE]
    /\ OnWire(qh[hcAt].ep, [wire[qh[hcAt].ep] EXCEPT !.retried = TRUE])
    /\ UNCHANGED <<clientVars, poolVars, hlink, qh, ase, iaa, aai, hcVars, devToggle>>

\* The device stalls or stops answering: the queue halts.
HcHalt ==
    /\ ase /\ hcAt # Sentinel /\ qh[hcAt].st = "active"
    /\ qh' = [qh EXCEPT ![hcAt].st = "halted", ![hcAt].cur = NoQtd]
    /\ qtd' = [qtd EXCEPT ![qh[hcAt].cur].st = "halted"]
    /\ OnWire(qh[hcAt].ep, [wire[qh[hcAt].ep] EXCEPT !.halted = TRUE])
    /\ UNCHANGED <<clientVars, poolVars, hlink, ase, iaa, aai, hcVars, devToggle>>

-----------------------------------------------------------------------------
Run(c) ==   \* everything an executor does for c
    \/ Begin(c) \/ BeginFails(c)
    \/ LinkQh(c) \/ Publish(c)
    \/ PollStatus(c) \/ PollOverlay(c)
    \/ Unlink(c) \/ Ring(c) \/ PollAdvance(c) \/ ClearAai(c)
    \/ Finish(c) \/ Return(c)

Controller == HcAdvance \/ HcFetch \/ HcPacket \/ HcRetry \/ HcHalt

Next ==
    \/ \E c \in Clients :
          \/ \E x \in TransfersOf(c) : Call(c, x)
          \/ Run(c)
          \/ Cancel(c)
    \/ Controller

\* The executor polls each woken future again and again, whatever others do in
\* between, and the controller never stops walking an enabled schedule.  Nothing
\* says that a device answers.
Fairness == WF_vars(HcAdvance) /\ \A c \in Clients : SF_vars(Run(c))

Spec == Init /\ [][Next]_vars
FairSpec == Spec /\ Fairness

-----------------------------------------------------------------------------
(* Properties *)

TypeOK ==
    /\ pc \in [Clients -> Resting \cup Holding]
    /\ xfer \in [Clients -> Transfers \cup {NoTransfer}]
    /\ running \in Clients \cup {Nobody}
    /\ outcome \in [Clients -> [tag : {"none", "ok", "error", "allPipesInUse"}, n : Int]]
    /\ toggle \in [Clients -> BOOLEAN]
    /\ pipe \in [Clients -> 0 .. NumQh]
    /\ slots = [c \in Clients |-> slots[c]]
    /\ \A c \in Clients :
          slots[c] \in [1 .. (IF pc[c] \in Holding THEN Len(Chain(xfer[c])) ELSE 0) -> Qtds]
    /\ qtdAllocated \subseteq Qtds
    /\ hlink \in [Qhs -> Qhs \cup {NoQh}]
    /\ qh \in [Qhs -> [ep : Clients \cup {Nobody}, cur : Qtds \cup {NoQtd},
                       next : Qtds \cup {NoQtd}, st : {"idle", "active", "halted"},
                       dt : BOOLEAN]]
    /\ qtd \in [Qtds -> [st : {"zero", "active", "done", "halted"},
                         dir : {"setup", "in", "out"}, rem : Nat, err : BOOLEAN, next : Qtds \cup {NoQtd}]]
    /\ ase \in BOOLEAN /\ iaa \in BOOLEAN /\ aai \in BOOLEAN
    /\ hcAt \in Qhs /\ hcNext \in Qhs \cup {NoQh}
    /\ wire \in [Clients -> [done : Nat, units : Nat, short : BOOLEAN,
                         retried : BOOLEAN, halted : BOOLEAN]]
    /\ devToggle \in [Clients -> BOOLEAN]

\* The QHs reached from the set From by following horizontal links in memory.
Reach(From) ==
    {q \in Qhs : \A S \in SUBSET Qhs :
        (From \cap Qhs \subseteq S /\ \A r \in S : hlink[r] \in Qhs => hlink[r] \in S)
            => q \in S}

\* The schedule is a ring through the sentinel and exactly the QHs of the
\* transfers that have published theirs and not yet unlinked it, however links
\* and unlinks of several transfers interleave (schedule.rs:117-172).
ScheduleExact ==
    LET R == Reach({Sentinel}) IN
    /\ R = {Sentinel} \cup {QhOf(c) : c \in {d \in Clients : pc[d] \in InList}}
    /\ \A p, q \in R : hlink[p] = hlink[q] => p = q

\* Until the doorbell is answered a QH and its qTDs belong to the transfer that
\* built them: whatever the controller holds or can still reach through memory is
\* a QH of a transfer that has not given it back, initialised for that transfer,
\* and points only at that transfer's qTDs (schedule.rs:264-265 and 307-309).
DmaSafe ==
    /\ hcNext # NoQh
    /\ \A q \in {hcAt} \cup Reach({Sentinel, hcNext}) :
          q # Sentinel =>
          /\ hlink[q] # NoQh
          /\ \E c \in Clients :
                /\ pc[c] \in Published /\ QhOf(c) = q /\ qh[q].ep = c
                /\ {qh[q].next, qh[q].cur} \subseteq SlotSet(c) \cup {NoQtd}
                /\ \A t \in SlotSet(c) : qtd[t].next \in SlotSet(c) \cup {NoQtd}

\* What a transfer returns is what happened on the bus: Ok only after every stage
\* of the chain completed, with the number of units the data stage moved; an
\* error only after the device halted the queue or a packet had to be retried
\* (futures.rs:41-110, transfer.rs:322-360 and 519-533).
ResultHonest ==
    \A c \in Clients : pc[c] = "returned" =>
        /\ outcome[c].tag = "ok" =>
              /\ wire[c].done = Len(Chain(xfer[c])) /\ ~wire[c].halted
              /\ outcome[c].n = wire[c].units
        /\ outcome[c].tag = "error" => wire[c].halted \/ wire[c].retried
        /\ outcome[c].tag # "none"

\* qtd_token asks for "3 retries before halting" (ehci.rs:191), so a packet that
\* is answered at a later try should not fail the transfer: an error means that
\* the chain did not complete.
RetriesAreFree ==
    \A c \in Clients :
        pc[c] = "returned" /\ outcome[c].tag = "error" => wire[c].done < Len(Chain(xfer[c]))

\* A variable-size OUT that succeeded ended with a short packet, so the device
\* knows where it ends (transfer.rs:437-444, USB 2.0 5.8).
OutTerminated ==
    \A c \in Clients :
        pc[c] = "returned" /\ xfer[c].kind = "bulkOutVariable" /\ outcome[c].tag = "ok"
            => wire[c].short

\* Between transfers the caller's data_toggle agrees with the device's side of the
\* endpoint, so no packet of the next transfer is taken for a repetition
\* (transfer.rs:472-482 and 539-545).
ToggleInSync ==
    \A c \in InClients \cup OutClients :
        pc[c] \in Resting => toggle[c] = devToggle[c]

\* The transfers implement the pools: they take pipes and qTDs only as UsbPools
\* allows and give all of them back together.
ImplementsPools == Pools!Spec

\* A transfer returns once its chain has completed or the device has halted it;
\* the controller leaves the last qTD Active when an earlier one halts
\* (futures.rs:58-88).
ReturnsWhenOver ==
    \A c \in Clients :
        (pc[c] = "status" /\ (wire[c].halted \/ wire[c].done = Len(Chain(xfer[c]))))
            ~> pc[c] = "returned"

\* A transfer that rings the doorbell is answered and returns (schedule.rs:262-275).
DoorbellAnswered ==
    \A c \in Clients : pc[c] = "ring" ~> pc[c] = "returned"
=============================================================================
