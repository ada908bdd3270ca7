# Verification of imxrt-usbh

TLA+ models of `imxrt-usbh`, an asynchronous USB host driver for the EHCI
controller of the NXP i.MX RT 1062, with TLC runs on small instances and TLAPS
proofs for every instance. Paths are relative to the repository; `host/` stands
for `src/host/`.

## 1. Inventory

The program is single-core and bare-metal. Three kinds of agent share its state:

* **tasks**: Rust futures polled by an RTIC executor. Everything between two
  awaits that return `Pending` is one poll, and no other future of the task runs
  meanwhile;
* **the interrupt handler**, which preempts tasks between any two instructions;
* **the EHCI controller**, which reads and writes QHs, qTDs and the frame list by
  DMA at any time, and whose registers tasks and handler both write.

| Component | State it keeps | Operations | What makes it correct |
|---|---|---|---|
| Resource pools (`host/statics.rs`, `schedule.rs:37-107`, `interrupt_pipe.rs:15-38`) | `control_pipes`, `bulk_pipes`, `qtd_allocated` | `Pool::alloc`, `try_alloc`, `alloc_qtd`, the drop of `Pipe` and `QtdSlot` | guards are exclusive, nothing leaks on any path, whoever has a pipe finds its qTDs |
| Asynchronous transfers (`host/transfer.rs`, `futures.rs`, `schedule.rs:113-316`) | QH links and overlays, qTD tokens, `USBCMD.ASE/IAA`, `USBSTS.AAI`, the callers' data toggles | control, bulk IN and bulk OUT transfer; link, unlink, ring, poll | memory is reused only once the controller has let go of it; results are what happened on the bus; every transfer that is over returns |
| Interrupt service and wakers (`host/shared.rs`, `futures.rs`) | `USBSTS`, `USBINTR`, seven waker cells | `on_irq`, `register`, `wake`, the unmask at the end of a poll | no completion goes unnoticed: mask on handling, unmask on polling |
| Device detection (`host/device_detect.rs`, `trait_impl.rs:19-53`) | `PORTSC1`, the last status, `ENHOSTDISCONDETECT` | `poll_next`, `reset_root_port` | a device that left and came back is not taken for the one that was reset; one device is reset once; the disconnect detector is off during the chirp |
| Interrupt pipes (`host/interrupt_pipe.rs`, `transfer.rs:560-691`, `schedule.rs:174-249`) | frame list, its QH chain, receive buffers | allocate, `poll_next`, drop | the chain is exact, packets are delivered once, memory is freed after the controller left it |
| EHCI words (`src/ehci.rs`) | none | token, link, characteristics and capabilities codecs | fields do not spill into each other |
| Controller bring-up (`host/controller.rs`) | PHY, USBMODE, frame list base, list address | `new`, `init`, `port_speed` | schedules are never enabled over uninitialised lists |
| GPT (`src/gpt.rs`) | GPTIMER registers, `USBSTS.TI0/TI1` | load, mode, reset, run, stop, `is_elapsed` | a timer elapses after the delay asked for, and is seen |
| USB MIDI (`cotton-usb-host-midi/src/midi.rs`) | parser state, endpoints | `IdentifyMidi`, `read_packets`, `write_packets` | endpoints of one interface are found, empty packets are dropped, the rest kept in order |
| Example (`examples/`) | one task | enumerate, then read in a loop | it awaits one transfer after the other |

How they meet: a transfer takes a pipe and qTDs from the pools, builds and links
memory the controller walks, and waits on a waker that the interrupt handler
wakes; device detection, transfers and interrupt pipes all write `USBINTR`; the
GPT and the handler both acknowledge `USBSTS`; the MIDI driver and the example
call transfers through cotton-usb-host.

Hard behaviours: the interleaving of several transfers with the controller's walk
and with one shared doorbell; a future dropped at an await; halts and short
packets in the middle of a chain; failures half way through allocation; a handler
between a task's read and write of `USBINTR`; a latched flag cleared by a write
that comes later than the read; a frame that starts while a pipe is being unlinked entry by
entry. `PROJECT.json` lists them line by line under
`hazards`.

## 2. Plan

Most important first.

1. `UsbPools`, then `UsbPoolsProofs`: the abstract specification of the pools and
   its theorems.
2. `AsyncSchedule`: control and bulk transfers against the controller; refines
   `UsbPools`.
3. `AsyncScheduleProofs`: that every step of `AsyncSchedule` is a step of
   `UsbPools` or a stutter, and type correctness. `AsyncSafetyProofs`: its other safety
   properties.
4. `IrqWake` and `IrqWakeProofs`: handler, wakers, `USBSTS` and `USBINTR` with one
   step per register access; no lost wake-up, checked and proved.
5. `DeviceDetect`, `DeviceDetectProofs`: port, latch, PHY detector, the stream, the root
   reset and the application that starts over.
6. `PeriodicSchedule`: frame list and interrupt pipes, the controller's walk per frame,
   re-arming, Drop; refines `UsbPools` too. `PeriodicScheduleProofs`: that, and each of
   its invariants.
7. `EhciWords`: the words driver and controller exchange, bit by bit; `EhciWordsProofs`.
8. `Midi`, `Gpt`, `HostInit`.
9. `MCComponents`, `ComponentsProofs`: the components with few states side by side, and
   what is proved of them.

## 3. Modules

### `UsbPools`

A client is one call of the `HostController` trait. `phase` is where its future
stands, `kind` which transfer it is, `pipe` and `slots` are the guards it owns
(`Pooled`, `QtdSlot`), `qtdAllocated` the bitmap. `Begin` is the poll in which the
pool grants a pipe: the code goes on to allocate every qTD without another await
(`transfer.rs:201-208`, `446-452`, `590-592`), so it is one action. `BeginFails` is
the `?` on the second or third `alloc_qtd`, `Panic` the `expect` of
`do_alloc_interrupt_pipe`, `GiveUp` a future dropped while waiting or a failed
`try_alloc_interrupt_pipe`. `Release` is the drop of all guards.

`Pool` itself is in cotton-usb-host and is external: it hands out some free token.
That it wakes a waiter when a token comes back is not modelled.

### `AsyncSchedule`

One action per access to memory or a register that the controller can see, so the
controller interleaves with each of them; `running` keeps the CPU with a poll until
it returns `Pending`.

| Model | Code |
|---|---|
| `Call`, `Begin`, `BeginFails` | `control_transfer`, `do_control_transfer` and `do_bulk_transfer` up to the link |
| `LinkQh`, `Publish` | the two writes of `link_qh_to_async_schedule`, `enable_async_schedule` |
| `PollStatus`, `PollOverlay` | `TransferComplete::poll`: the last token, then the overlay and the data token |
| `Unlink`, `Ring` | `unlink_qh_from_async_schedule`, `wait_async_advance` |
| `PollAdvance`, `ClearAai` | the read and the write of `AsyncAdvanceWait::poll` |
| `Finish`, `Return` | byte count, toggle, drop of the guards, result |
| `Cancel` | the caller drops the future |
| `HcAdvance`, `HcFetch`, `HcPacket`, `HcRetry`, `HcHalt` | EHCI hardware (external): walk, qTD fetch, one packet, a failed try, a halt |
| `wire`, `devToggle` | what happened on the bus; observed, never read by the driver |

The controller is modelled as the driver relies on it: it may hold one QH and the
link it fetched with it, follows links as memory has them when it moves on, and
answers the doorbell when it is back at the head of the list, where it holds
nothing older. Status, remaining bytes and the sticky transaction-error bit of a
qTD change in the qTD itself; the hardware keeps them in the overlay until the qTD
retires, and no code reads them before that.

Lengths count half packets: 3 is a transfer with a short last packet, 4 one of two
full packets, 0 an empty one. The `% PacketSize` test for the zero-length packet is
then the code's. Errors other than a halt and a retried transaction (babble, buffer
error, missed micro-frame) end in a halt or behave like a retry here. `PacketSize` is
the endpoint's, of a bulk transfer the `actual_packet_size` of `transfer.rs:412-419`; how
it comes about and the QH characteristics are in `EhciWords`.

Refinement: `Pools == INSTANCE UsbPools WITH phase <- PhaseBar, kind <- KindBar`;
`pipe`, `slots` and `qtdAllocated` are the same variables. `ImplementsPools` is
`Pools!Spec`.

### `IrqWake`

What lies between an event and the poll that sees it. Futures are abstract: a
transfer, a stream or a doorbell that is under way or over (`done`).

| Model | Code |
|---|---|
| `IrqRead`, `IrqAck`, `IrqWake` | `UsbShared::on_irq`: the read of `USBSTS`, its acknowledgement, then wakers and mask |
| `Register`, `Check`, `ClearAai`, `ReadIntr`, `WriteIntr` | the accesses of a poll: `TransferComplete`, `AsyncAdvanceWait`, `ImxrtInterruptPipe`, `ImxrtDeviceDetect` |
| `Start`, `Poll`, `Drop` | the executor and the caller (external) |
| `ClearElapsed` | `Gpt::clear_elapsed` |
| `Complete`, `Threshold`, `PortChange`, `Answer`, `TimerElapses` | hardware (external): memory first, the status bit with the interrupt threshold |

Polls run at one priority and do not preempt each other, as with the example's only
task; the handler preempts them between any two accesses, and events happen at any
time, between the handler's steps too. `UI` stands for the NXP bits UAI and UPI,
which are enabled, acknowledged, masked and tested together with it. How the port
stream decides that something changed, and what a pipe delivers, is left to
`DeviceDetect` and `PeriodicSchedule`.

### `DeviceDetect`

`PORTSC1` with what the driver uses of it: CCS, the latched CSC, PSPD and PR. The task of
the example polls the stream, resets the port for every device reported, enumerates, and
starts over with a fresh stream when that fails (`ENUM_ATTEMPTS` times in a row).

| Model | Code |
|---|---|
| `PollRead`, `PollClear`, `PollReport`, `PollPending` | `ImxrtDeviceDetect::poll_next`: the read of the port, `clear_connect_change`, `port_event` with what is reported, what is only noted |
| `ResetRead`, `ResetBegin`, `ResetEnd` | `reset_root_port(true)` and `(false)`, each a read and a write |
| `Enumerated`, `Retry`, `GiveUp`, `UseEnds` | the event loop of `rtic_usb_midi_keyboard.rs`; what enumeration does is external |
| `Attach`, `Detach`, `Chirp` | devices, at any moment (external) |

`session` and `lastReset` count attachments; the driver never sees them, the properties
compare its belief with them. `woken` is set when CSC goes from zero to one and cleared by
a poll; that a pending stream is then polled is the subject of `IrqWake`. `unheard` marks
the one moment where a device can come without anybody being told: the port was read empty
with CSC set, and CSC not yet cleared. PEC, OCC and FPR are never set. `ForceFullSpeed` is
the `hub-support` feature.

### `PeriodicSchedule`

Interrupt pipes from their allocation to their Drop. The loops over the frame list take
one action per entry (`cursor`), because the controller may start a frame between two.

| Model | Code |
|---|---|
| `Call`, `GiveUp`, `Begin`, `Panic` | `alloc_interrupt_pipe`, `try_alloc_interrupt_pipe`, `do_alloc_interrupt_pipe` |
| `LinkQh`, `PublishEntry` | `link_qh_to_periodic_schedule` |
| `Poll`, `Copy`, `Rearm`, `Reattach` | `ImxrtInterruptPipe::poll_next` |
| `Drop`, `UnheadEntry`, `Unchain`, `Free` | `Drop`, `unlink_qh_from_periodic_schedule`, the wait of 1 ms, the guards |
| `HcFrame`, `HcAdvance`, `HcFetch`, `HcPacket`, `HcHalt` | EHCI hardware (external) |

The stream of a pipe whose qTD halted ends (`ended`) and stays linked until it is dropped.
`crossed` says that a frame began since the unlinking: the wait is longer than a frame. A
device numbers its packets modulo `Numbers` (an even number, so that the toggle is the
number's parity); `sent`, `last` and `got`, `item` are what was sent and what was returned.
Packets may be larger than the 64-byte receive buffer (`MaxPacketSize` above `BufSize`), as
the code asks for what the endpoint descriptor says: they go on into the buffer of the next
pipe (`Stored`), and the copy is cut to an `InterruptPacket`. What the linker has put behind
the last buffer is not modelled, so no packet goes beyond it (`Fits`). All endpoints have one
`MaxPacketSize`; one with less is one whose device only sends shorter packets.
`Reconfigured` assumes that an endpoint is configured anew before it gets another pipe. A
pipe that is reopened without that starts at DATA0 while the device may be at DATA1, and
one packet is lost; the code leaves that to its caller.

Refinement: `Pools == INSTANCE UsbPools WITH phase <- PhaseBar, kind <- KindBar, slots <-
SlotsBar`.

### `EhciWords`

A word is the set of its bits that are one, so that `|`, `& !m` and shifts are set
operations and a field that spills into another is seen. A QH and a qTD are built, linked
into the asynchronous or periodic schedule, retired by the controller, re-armed for an
interrupt pipe, unlinked. `HcEndpoint`, `HcTransfer`, `HcToggle` and `HcAddress` are the
controller's reading of the same memory, written from the field tables the comments of
`ehci.rs` cite; the properties compare what it reads with what the driver was asked for.
The size of a High-Speed bulk endpoint's packets is raised to 512 where less was asked for
(`ActualPacketSize`, `transfer.rs:412-419`), and `EndpointRead` says so.

### `Midi`

`Describe` visits the descriptors of a device in any order a configuration can have
(`IdentifyMidi`), `New` makes the driver. `ReadCall`, `ReadReady`, `ReadOver` are
`read_packets`; `WriteCall`, `WriteTransfer`, `WriteFails`, `WriteReturns`, `WriteOver` are
`write_packets`, one step per transfer, with a device that has or has not taken the
packets of a transfer that fails. Reads and writes run at once. Packets are opaque values.

### `Gpt`

One action per method, and `Count` and `Elapse` for the counter. `wanted`, `asked` and
`age` are the delay as the documentation has it and how long the counter has run; the code
does not read them. The flag is here beside its own timer only; the interrupt handler that
clears it as well is in `IrqWake`.

### `HostInit`

`ImxrtHostController::init`, one step per register access, from the reset of the core to
the unmasking of interrupts, while the hardware finishes the reset in its own time
(`HwReset`) and devices come and go (`HwConnect`). Before `init` the core is at rest, as
EHCI requires of a reset, and its other registers hold anything.

### `MCPeriodicSchedule`, `MCIrqWake`, `MCComponents`

Model-checking instances. `MCComponents` holds the pools twice (a pool that suffices,
one that does not) and `EhciWords`, `Midi`, `DeviceDetect`, `Gpt` and `HostInit`; `part`
picks the one that runs, the others rest in their initial states. They share no state in the
code either, but for `PORTSC1`, which `init` leaves as `DeviceDetect!Init` has it or with
a change latched. `MCPeriodicSchedule` restricts `Next` to the two kinds of behaviours of section 4.

### Proof modules

`UsbPoolsProofs`, `AsyncScheduleProofs`, `AsyncSafetyProofs`, `PeriodicScheduleProofs`,
`IrqWakeProofs`, `DeviceDetectProofs`, `EhciWordsProofs` and `ComponentsProofs`: see section 6.
Some extend the module they are about, the last two `MCComponents`, because the properties of
a run over several components are stated there.

## 4. Runs

| Run | Question | Result |
|---|---|---|
| `serial` | one transfer at a time | `DmaSafe`, `ResultHonest`, `OutTerminated`, `ToggleInSync` and the refinement hold; a transfer that is over returns, a doorbell is answered |
| `concurrent` | a bulk read and a bulk write at once | the list stays exact, results are honest |
| `dropped` | futures dropped at any await, or failing half way for want of a qTD | pools are respected |
| `dropped_dma` | the same, and memory? | **violated**, finding below |
| `concurrent_reuse`, `concurrent_hang` | two transfers and one doorbell | **violated**, findings below |
| `retried` | does a successful retry cost the transfer? | **violated**, finding below |
| `periodic` | interrupt pipes come and go, one may find no qTD, packets may be larger than the buffer | chains are exact at every access, memory is freed after the controller left it, no packet is lost, repeated or stuck, none is changed but by a larger packet of the pipe in front, pools are respected |
| `components` | pools: are guards exclusive, does the pool size suffice? | yes; with fewer qTDs guards stay exclusive while allocations fail half way or panic |
| | words: does each side read what the other wrote? | links, endpoint, transfer, result and buffer pages are read back |
| | MIDI: endpoints, packets | the first endpoints of MIDI interfaces are found, reads and writes keep their packets in order, a write ends |
| | root port | a device that came back is known as another, is reset once, the detector is off during the chirp, and the stream ends up with what the port says |
| | timer, bring-up | a timer elapses on time; the controller runs on this driver's lists only |
| `wake` | a pipe and the port stream: is a wake-up ever lost? | no |
| `wake_live` | a transfer and the doorbell: is a wake-up ever lost, does the interrupt let the poll run? | no; it does |
| `timer` | is an elapsed timer seen? | **violated**, finding below |

Bounds of the transfers. `MaxInFlight` is 1 in the serial runs: the example awaits one
transfer after the other, and control transfers are serialised by their pool anyway.
Two transfers in flight suffice for every pairing of link, unlink and doorbell;
three pipes (`NumQh = 3`) let both links stand in the list with the controller on
either. `Lens` has an empty, a short and a two-packet transfer where results
matter and one packet where only the list does. A control chain has three qTDs, the
longest there is. `BusErrors` is off where only the schedule is in question. `dropped`
has one qTD, so that a write that needs a zero-length packet fails half way; after a
drop the list is broken (`dropped_dma`) and the program may stop, so deadlock is not
checked there.

Interrupt pipes. Two frames are the least with a first entry and another, that the loop has
not come to yet; clients are interchangeable, and two numbers tell a packet from the one
before it. `MCPeriodicSchedule` has two kinds of behaviours (`callers`). In one, four clients
compete for four pipes and three qTDs: there is a pipe at the head, one in the middle and one
at the end of the chain, each of which may be unlinked, and the fourth may panic; devices only
NAK, because a packet changes no link. In the other two clients have the last two pipes, with
packets of none, all and twice the buffer (`BufSize = 1`, `MaxPacketSize = 2`), and devices may
halt: the first pipe's packets can run into the second's buffer, and what a packet does to the
QHs and qTDs meets links and unlinks of the other pipe.

Components. Three clients on three pipes leave one waiting now and then; `NumQtd = 7` is
`3 + 2 * (NumQh - 1)`, the least `PoolLargeEnough` admits, `FewQtds = 4` fails at every
place. Fields are all zeros, all ones or one bit, which shows any overlap; buffers start
at the first and at the last byte of a page. Four descriptors have two interfaces with an
endpoint each; a MIDI buffer holds no packet, one, or two with bytes to spare.
Three attachments allow a bounce at plug-in and a change later; two attempts a retry and
its failure. A counter of at most three has delays of zero, within, at and beyond its width.

Wake-ups. `IrqWake` has two futures per run: a lost wake-up takes one future, the handler
and at most one other poll that writes `USBINTR` or takes the status, and the two runs
have a future of every kind. Nothing else is bounded there: futures start, end, are dropped
and start again without limit.

## 5. Findings

* **One doorbell for all transfers.** `USBCMD.IAA` and `USBSTS.AAI` exist once.
  Two transfers that ring before the controller answers get one acknowledgement;
  the first poll clears it (`futures.rs:133-136`) and the other future waits for
  ever (`concurrent_hang`). And `wait_async_advance` does not look for an AAI that
  is already set, so the answer to one doorbell may be taken for that to a later
  one: the QH is freed and reused while the controller holds it
  (`concurrent_reuse`). `midi.rs:212-215` invites concurrent reads and writes and
  `mod.rs:76` counts on concurrent bulk transfers. With one transfer at a time
  neither can happen (`serial`).
* **A dropped future leaves its QH linked.** The guards free qTDs and pipe, and
  nothing unlinks (`transfer.rs:303-318`); `select` over a transfer, which
  `midi.rs:214-215` suggests, drops futures (`dropped_dma`).
* **A retried packet fails the transfer.** `futures.rs:96` treats the sticky
  `XACT_ERR` bit of a completed qTD as an error although three tries were asked
  for (`retried`).
* **The handler clears the timers' flags.** `on_irq` acknowledges all it read but
  AAI, `TI0` and `TI1` among it, so a transfer's interrupt makes an elapsed timer
  look as if it were running (`timer`; `shared.rs:79`, `gpt.rs:180-196`).

Two more things came up that no run is needed to show. `do_alloc_interrupt_pipe` gives the qTD
`max_packet_size` bytes of a 64-byte `RecvBuf` (`transfer.rs:640-648`, `statics.rs:124-129`)
and compares the two nowhere: a larger packet runs into the buffer of the next pipe, whose
stream may return it, or behind the last buffer into whatever the linker put there.
`PacketsIntact` says exactly that (`Overrun`). And the list of steps over `init` (`controller.rs:155`) and `DEVELOPER_GUIDE.md:439`
still enable the disconnect detector at initialisation. The code leaves that to the device
stream (`controller.rs:301-310`), and so does the model.

## 6. Proofs

`UsbPoolsProofs` proves, for every set of clients and every `NumQh` and `NumQtd`:

* `Invariance`: `Spec => []IInv`, `IInv == TypeOK /\ Exclusive /\ PipesMatch`.
  `Exclusive` alone is not inductive: that a pipe granted by `FreePipes` is new
  needs the type of `pipe`, and that a failed call owns nothing needs
  `PipesMatch` with `DOMAIN slots[c] = 1 .. Held(c)` of `TypeOK`.
* `Typing` and `ExclusiveHolds` follow.
* `NeverExhaustedHolds`: if `PoolLargeEnough`, that is `NumQtd >= 3 + 2 * (NumQh -
  1)`, then `NeverExhausted`. The argument counts: the i-th qTD of the transfer
  on pipe p is given a position of its own among `3 + 2 * (NumQh - 1)`, an
  injection from the allocated qTDs that misses the positions of a free pipe
  (`EnoughLeft`). For the repository, `NUM_QH = 4` needs 9 and `NUM_QTD` is 16, so
  the panic of `transfer.rs:590-592` cannot happen.

`AsyncScheduleProofs` proves, for every set of clients, every pool size, any number
of transfers in flight, with dropped futures and bus errors:

* `Refinement`: `Spec => ImplementsPools`. The invariant is `Books`: the types of
  what a client owns, with `XferOK` (a client that was called knows its transfer)
  and `PipeOK` (it has a pipe of its kind exactly while it holds qTDs). Without
  `PipeOK` a future dropped while it waits would not map to `GiveUp`, which leaves
  the pools alone. `SameHolders` disposes of the steps that move nobody between idle,
  waiting and holding, the controller's included; calls, grants, failures and drops
  have a lemma each.
* `Typing`: `Spec => []TypeOK`, from `IInv == TypeOK /\ XferOK /\ PipeOK /\ QhOK`.
  `TypeOK` is not inductive alone: the controller writes through the qTD pointer of
  an executing overlay and books its packets on the endpoint of that QH, so `QhOK` is
  needed (a QH that is not halted has an endpoint, one that executes has a qTD), and
  that `QhOf(c)` is a QH of the pool needs `PipeOK`. This holds of a QH left linked by
  a dropped future too: what is wrong there is whose memory it is, not that it is none.
* `TransfersExclusive` and `TransfersSupplied` carry `ExclusiveHolds` and
  `NeverExhaustedHolds` over, through the refinement (`Held` is `UsbPools` with its
  theorems, under the same substitution).

`AsyncSafetyProofs` proves the rest of what the runs check of `AsyncSchedule`, for every set
of clients, every pool size and every length, bus errors included, when no future is dropped
(`~MayCancel`). A dropped future does break the schedule (`dropped_dma`), so the hypothesis is
not one of convenience.

* `ResultsHonest`, `OutsTerminated`, `TogglesInSync`, with any number of transfers in flight.
  The invariant `TransferInv` says how far each transfer is: the qTDs of its chain are retired
  up to `Done(c)`, the overlay is at that one, the bytes that went over the bus are those its
  tokens count, and the device's toggle is that of the next packet (`Progress`). `OwnedOK`, that
  only the QH of a transfer in flight has work for the controller, keeps other transfers out of
  it; it rests on `TransfersExclusive`.
* `SchedulesExact`, with any number in flight. A step moves one link, and the property speaks of
  what can be reached, so the invariant (`RingInv`) is that the links of the QHs in use are a
  ring: they stay among these, no two lead to the same, and no smaller set with the sentinel is
  closed under them. `RingGrows` and `RingShrinks` say that inserting and removing keep it one;
  `Linking` is about the QH that has its link and is not yet the sentinel's.
* `TransfersDmaSafe`, when transfers are made one at a time (`MaxInFlight <= 1`). `HcInv` says
  that what the controller holds is the sentinel or a QH not answered for, that a QH taken out
  leads back to the sentinel, and that the answer to the doorbell means the controller is off
  it. With two in flight it does not (`concurrent_reuse`).

`PeriodicScheduleProofs` proves each invariant that `periodic` checks, for every set of
clients, every pool size and every length of the frame list:

* `PipesRefine`: `Spec => ImplementsPools`, and through it `PipesSupplied`: with a pool of the
  size asked for nobody panics.
* `PeriodicTyping`, `NeverStuckHolds`, `PacketsIntactHolds` from `PipeInv`. The qTD of a pipe and
  its overlay are in one of five states (`PipeOK`: executing, offered, completed, failed,
  detached), and `PacketOK` ties them to the packets: the toggles agree, sent and returned packets
  differ by the one in the buffer. `PacketsIntactHolds` is for packets of any size: what a
  buffer holds is the pipe's own packet, or the end of one that is larger than a buffer.
* `SchedulesPeriodic` from `ListInv`: there is a list without repetition of the QHs that are
  linked, the links lead along it, and every entry of the frame list is its head or, for frames
  a loop has or has not come to, what that loop makes of it (`Fed`). That the walk of an unlink
  finds the predecessor is a walk along this list (`WalkFinds`); where an induction on the place in
  the list would be wanted, the least place that is an exception is taken instead (`Least`).
* `PipesDmaSafe` from `DmaInv`: the controller holds QHs that are `Visible`, and that of a Drop
  stops being visible when a frame starts after it was unlinked (`crossed`), because
  no entry and no QH in the chain leads to it then. So the wait of 1 ms in Drop is
  enough whatever the number of pipes.

`IrqWakeProofs` proves, for any number of transfers and interrupt pipes, with or
without the port stream and the doorbell, whether interrupts are taken at once or not:

* `WakeupsKept`: `Spec => []NoLostWakeup`. Two parts of the invariant carry it. `Armed`:
  a future at rest that nobody woke is registered and has all its interrupts enabled,
  because what the handler masks it has woken, and because what a poll writes back to
  `USBINTR` is at least what is there (`ReadEnough`: one poll at a time, and the handler
  only masks). `Announced`: what happened since a poll looked is in the status, held back
  until the threshold, or read by the handler under way. For the doorbell that rests on
  `AnswerKept`, that the handler leaves AAI to the poll.
* `Typing`: `Spec => []TypeOK`.

`DeviceDetectProofs` proves, for any number of attachments and attempts, with and without
high speed: `SessionKnownHolds`, `ChirpUndisturbedHolds`, `ResetOnceHolds` and `Typing`. None
of the three properties is inductive. `IInv` relates four things that change at different
accesses: the port, the value of it a poll or reset has read, the status the stream
believes, and the session that was reset.

* `PortLocals`: only the reset holds PR, and only a flag that was read set is cleared, so a
  write of `PORTSC1` destroys nothing else.
* `ChangeIsNew`, `ArrivalIsNew`: a change that is latched or was read, and a device found
  where the last read saw none, belong to a session not reset yet. From them `KnownIsReset`:
  a device that is believed and not latched as changed was reset in this session, also in a
  poll that is about to report. `SessionKnown` is the part of it between polls.
* `UnknownIsNew`: but for retries, a device the stream does not know of was not reset;
  `ResetOnce` follows at the end of the reset.
* `HighIsReset`: high speed is settled by a reset, so nothing that was not reset is read as
  high; from it `DetectorOff`, which gives `ChirpUndisturbed`.

`EhciWordsProofs` proves `LinksReadHolds`, `EndpointReadHolds`, `TransferReadHolds`,
`ResultReadHolds` and `BytesReachedHolds` for all values of the ranges that `ehci.rs` documents,
where the run has all ones, all zeros and single bits. A word is first said bit by bit
(`CharacteristicsBits`, `TokenBits`), a field then follows from its bits (`FieldIs`). The
invariant `WordsInv` says which word is where: `HeadsInv` that each schedule is as before but
for the QH in front, `ReadyInv` and `RetiredInv` that overlay and qTD hold the driver's or the
controller's word, with the toggle where the controller looks for it. `ReadyInv` is what a
re-armed pipe restores: its overlay keeps the word of the retired qTD, whose toggle stays
and whose status must not be active or halted.

`ComponentsProofs` proves, as statements about what the run `components` checks, whatever
part runs:

* `SessionKnownHolds`, `ChirpUndisturbedHolds`, `ResetOnceHolds`: `EachSpec` implies the
  specification of the root port (`PortAlone`), whose theorems carry over.
* `ElapsesOnTime` for every counter width: `OnTime` with the type invariant and `LoadWanted`
  (the load register holds the documented delay less one).
* `StartsUpHolds`, from `BootInv`: what each step of `init` sets up lasts, because only a reset
  takes it back and there is none after the first; it needs that the value of PORTSC1
  that is written back has no latched change (`~read["csc"]`).
* `SupplyHoldsAlways`: `NeverExhausted` from the invariant of `UsbPoolsProofs` and its counting.
* `PoolsExclusive`: `Exclusive` and `TypeOK` of the pools, also with so few qTDs that allocations
  fail half way. A pool of `FewQtds` is a second instance of the pools with the theorems
  (`Fewer`), whose steps are those of `Small` (`SameFew`); what holds of its slots holds of them
  among the `NumQtd` (`FewerInside`).
* `WritesAllHolds`, from `WriteInv`: the packets on the wire are the first of the call's, as
  many as are counted, or those of one failed transfer more.
* `WriteProgresses`: each turn of the loop of a write counts a packet more at least and never
  more than there are, because a buffer that is not refused has room for one (`LoopInv`). With
  fairness of a turn, `WriteEnds` is immediate; without the refusal it would be false.
* `FindsFirstHolds`, from `FindInv`: the visitor's flag says whether the interface described
  last is a MIDI one, and each endpoint kept is the first candidate. A descriptor adds at most
  the last candidate (`CandidatesAfter`).
* `ReadsAllHolds`, from `ReadInv`: what is returned is what the loop of `read_packets` makes of
  the transfer. The loop is a recursive function, and what it computes is stated without one:
  `Buffer(p, size, i)` has in place k the packet with k - 1 others that are not empty before it
  (`Origin`), as far as the buffer goes. One turn of the loop takes `Buffer(p, size, i - 1)` to
  `Buffer(p, size, i)` (`BufferNext`, which counts with `Kept`), and both start empty; if they ever
  differed, they would differ at a smallest i (`Smallest`), which one turn excludes (`ParsedIs`).
  The same argument as for the walk of an unlink, and no induction.
* `TypesOKHolds`: the type invariants of all five components beside the pools. That a link, a
  token or a characteristics word has 32 bits comes from what a shift does to the bits it moves
  out (`ShlWord`; `TypingStep` in `EhciWordsProofs`), that a read returns no more than there is
  room for from `ParsedReads`, that a write does not count past its packets from `WriteInv`.

Assumptions: in `UsbPools`, that `NumQh` is a positive and `NumQtd` a natural number;
in `AsyncSchedule` also that the three sets of clients are disjoint, lengths are natural
numbers and `Nobody` is no client; in `PeriodicSchedule` that sizes are positive, packets are
numbered by an even number and `Nobody` is no client; in `IrqWake` that transfers, interrupt pipes and the
two others are distinct and `Nobody` is none of them. For the other components they
are hypotheses of the theorems: `ConstantsOK` of the root port (`MaxSessions` is a natural
number, `Attempts` a positive one, `ForceFullSpeed` a Boolean) and of `EhciWords` (alignments and
widths); `TimerConstants` (`MaxCount` is positive and delays are natural numbers);
that `FewQtds` is a natural number and at most `NumQtd`; `MidiConstants` (the sizes of both buffers are natural numbers and no endpoint number is
`None`).

Every invariant and every action property that a run checks is proved, `DmaSafe` and what else
is about the doorbell under the hypothesis said above. Only model-checked is liveness
(`ReturnsWhenOver`, `DoorbellAnswered`, `Noticed`, `Reported`, `WriteEnds`): it rests on fairness,
which is beyond the prover. `WakeupsKept` and `WriteProgresses` are the parts of `Noticed` and
`WriteEnds` that need none.

## 7. Fairness

`FairSpec` adds weak fairness of `HcAdvance`, since an enabled schedule is walked
without end, and strong fairness of `Run(c)`: the executor polls a future again
once it is woken, other futures may have the CPU in between, so a client's steps
are enabled again and again rather than always. That every completion does wake
the future is assumed here; it is the subject of `IrqWake`. The two are not
composed: what `AsyncSchedule` needs of the other is that a future whose transfer is over is
polled again, and that is `NoLostWakeup` and `Noticed` there. A poll of `IrqWake` looks at its
transfer in one step, where `futures.rs:49-95` reads the status qTD, the overlay and the data
qTD one after the other. For wake-ups this is no loss: a transfer that is over stays over, and
one that ends after the first of these reads is one that ends after the step, latched in the
status until the poll has enabled its interrupt. No fairness is assumed
of `HcFetch`, `HcPacket`, `HcRetry` and `HcHalt` (a device may answer NAK for ever)
nor of `Call` and `Cancel`.

`IrqWake`'s `FairSpec` takes an enabled interrupt before the next instruction of a
task (`Prompt`), as the core does; `wake` is checked without that, since the
write that unmasks may take a while to be felt. The handler runs to its end and the
interrupt threshold passes (weak fairness). A poll once entered goes on, and a woken
future is polled again, whenever that is possible again and again with no interrupt
waiting: the condition keeps the assumption from hiding an interrupt storm. Nothing
is assumed of hardware events, `Start` and `Drop`, nor of polls nobody was woken for.

`DeviceDetect`'s `Fairness`: the task goes on (weak fairness of `Driver`) unless it sleeps
and was not woken, and the application goes on (weak fairness of `Application`) unless it
uses a device that is still there, whose reads may succeed for ever; reads of a device
that is gone fail. Nothing is assumed of devices. `Reported` then says that the stream ends
up with what the port says once devices stop coming and going, `unheard` excepted.

`Midi` has weak fairness of `WriteTransfer \/ WriteReturns`: the device takes the transfers
of a write, unless one fails or the future is dropped. `WriteEnds` then says that the loop
makes progress with every buffer size that is not refused.

## 8. Not modelled

* cotton-usb-host: its `Pool` and the reset and enumeration of a reported device are
  modelled from their use; `UsbBus`, hubs and descriptor parsing are not in this repository.
* Host system errors: the handler masks and acknowledges them and the driver does nothing
  about a stopped controller, so there is no behaviour a property could hold it to.
* In the controller, the writes to the PHY and to `SBUSCFG` before the reset, whose effects
  are electrical or on the bus; `port_speed` and `device_status`, which only read; the three
  functions that re-enable interrupts, which nothing calls.
* In `ehci.rs`, `link_after`, which nothing calls, the software fields of a QH and `Debug`.
* In `gpt.rs`, `set_interrupt_enabled` and the readers: no handler of this repository uses
  the timer interrupt.
* In the MIDI crate, the accessors and the printing of packets.
* Cache and memory attributes (buffers are non-cacheable), logging, and the example's board
  set-up.
* A concurrent caller of `reset_root_port` or of a second device-detect stream: the example
  has one task, and one stream at a time.
