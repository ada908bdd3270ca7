------------------------------- MODULE IrqWake -------------------------------
(***************************************************************************)
(* How a future learns that its event has happened: the USB interrupt      *)
(* handler (src/host/shared.rs), the poll functions of futures.rs,         *)
(* interrupt_pipe.rs and device_detect.rs, and the registers USBSTS and    *)
(* USBINTR all of them write.                                              *)
(*                                                                         *)
(* The handler masks what it serviced and every poll unmasks what it waits *)
(* for, by a read and a write the handler may come between.  Futures run   *)
(* at one priority, so polls do not preempt each other; the handler        *)
(* preempts them between any two accesses, and the hardware raises events  *)
(* at any time, between the steps of the handler too.                      *)
(***************************************************************************)
EXTENDS Naturals, FiniteSets

CONSTANTS
    Transfers,      \* TransferComplete futures, each with a pipe waker of its own
    IntPipes,       \* ImxrtInterruptPipe streams, likewise
    Others,         \* which of Advance and Device take part
    UsesTimer,      \* whether a general purpose timer runs beside the host
    Prompt          \* whether an interrupt is taken at once, or some time after a
                    \* write has enabled it

Advance == "advance"        \* AsyncAdvanceWait
Device == "device"          \* ImxrtDeviceDetect
Pipes == Transfers \cup IntPipes
Futures == Pipes \cup Others

ASSUME FuturesAssumption ==
    /\ Transfers \cap IntPipes = {}
    /\ Others \subseteq {Advance, Device} /\ Pipes \cap {Advance, Device} = {}
ASSUME SwitchesAssumption == UsesTimer \in BOOLEAN /\ Prompt \in BOOLEAN

Nobody == "nobody"
ASSUME NobodyAssumption == Nobody \notin Futures

\* Bits of USBSTS; USBINTR has the same ones, but for TI0 which nobody enables.
\* UI stands for the UAI and UPI that come with it; a system error is left out.
StsBits == {"UI", "UEI", "PCI", "AAI", "TI0"}

\* The bits that report the event f waits for, and that its poll enables.
Events(f) ==
    IF f \in Pipes THEN {"UI", "UEI"} ELSE IF f = Device THEN {"PCI"} ELSE {"AAI"}

\* The bits on which on_irq wakes f.
WokenBy(f) ==
    IF f \in Pipes THEN {"UI", "UEI"} ELSE IF f = Device THEN {"PCI"} ELSE {"AAI"}

VARIABLES
    (* futures *)
    pc,         \* "off", or where the poll of each future stands; "rest" is Pending
    running,    \* the future being polled, or Nobody
    waker,      \* whether its waker cell is full
    woken,      \* whether its task has been scheduled
    verdict,    \* what the running poll is about to return,
    arm,        \* the bits it is about to enable,
    reg,        \* USBINTR as it read it: locals, reset when the poll ends
    (* registers *)
    sts, intr,
    (* the handler *)
    isr,        \* "off", or its next step
    status,     \* USBSTS as it read it
    (* hardware *)
    done,       \* what happened to each future's transfer, port or doorbell:
                \* "no" while one is under way, "ok" or "halted" when it is over
    due,        \* status bits held back until the interrupt threshold
    elapsed     \* the timer has elapsed since it was cleared

taskVars == <<pc, running, verdict, arm, reg>>
wakeVars == <<waker, woken>>
isrVars  == <<isr, status>>
hwVars   == <<done, due, elapsed>>
vars     == <<taskVars, wakeVars, sts, intr, isrVars, hwVars>>

Polling == {"register", "check", "clear", "read", "write"}

Init ==
    /\ pc = [f \in Futures |-> "off"]
    /\ running = Nobody
    /\ waker = [f \in Futures |-> FALSE]
    /\ woken = [f \in Futures |-> FALSE]
    /\ verdict = "pending" /\ arm = {} /\ reg = {}
    /\ sts = {}
    /\ intr = {"UI", "UEI", "PCI", "AAI"}
    /\ isr = "off" /\ status = {}
    /\ done = [f \in Futures |-> IF f \in Transfers \cup {Advance} THEN "ok" ELSE "no"]
    /\ due = {}
    /\ elapsed = FALSE

-----------------------------------------------------------------------------
(* on_irq *)

\* An enabled bit is set: the handler preempts and reads USBSTS.
IrqRead ==
    /\ isr = "off" /\ sts \cap intr # {}
    /\ status' = sts
    /\ isr' = "ack"
    /\ UNCHANGED <<taskVars, wakeVars, sts, intr, hwVars>>

\* Mutant: AAI is acknowledged like the others.
AcknowledgedAll == status

\* What it writes back to USBSTS to clear: all it read but AAI.
Acknowledged == status \ {"AAI"}

IrqAck ==
    /\ isr = "ack"
    /\ sts' = sts \ Acknowledged
    /\ isr' = "wake"
    /\ UNCHANGED <<taskVars, wakeVars, intr, status, hwVars>>

\* Mutant: nothing is masked.
ServicedNone == {}

\* What it masks: the interrupt bits it read, the timers' not among them.
Serviced == status \ {"TI0"}

\* Futures whose waker it calls; calling it empties the cell.
Called == {f \in Futures : WokenBy(f) \cap status # {}}

\* It wakes and masks.  Nothing the hardware does in between matters to either.
IrqWake ==
    /\ isr = "wake"
    /\ woken' = [f \in Futures |-> woken[f] \/ (f \in Called /\ waker[f])]
    /\ waker' = [f \in Futures |-> waker[f] /\ f \notin Called]
    /\ intr' = intr \ Serviced
    /\ isr' = "off" /\ status' = {}
    /\ UNCHANGED <<taskVars, sts, hwVars>>

-----------------------------------------------------------------------------
(* Futures *)

Goto(f, l) == pc' = [pc EXCEPT ![f] = l]

\* No interrupt is waiting to be taken.
Calm == sts \cap intr = {}

\* The handler is not on the CPU, and does not want it.
Thread == isr = "off" /\ (Prompt => Calm)

\* A future is made and polled for the first time, or a stream is polled again:
\* a transfer has been linked, a doorbell rung, an interrupt pipe that had halted
\* replaced by a new one.
Start(f) ==
    /\ Thread /\ running = Nobody /\ pc[f] = "off"
    /\ running' = f /\ Goto(f, "register")
    /\ done' = IF f \in Transfers \/ f = Advance \/ done[f] = "halted"
               THEN [done EXCEPT ![f] = "no"] ELSE done
    /\ UNCHANGED <<verdict, arm, reg, wakeVars, sts, intr, isrVars, due, elapsed>>

\* The executor polls a pending future, because it was woken or because another
\* future of its task was.
Poll(f) ==
    /\ Thread /\ running = Nobody /\ pc[f] = "rest"
    /\ running' = f /\ Goto(f, "register")
    /\ woken' = [woken EXCEPT ![f] = FALSE]
    /\ UNCHANGED <<verdict, arm, reg, waker, sts, intr, isrVars, hwVars>>

\* The caller drops a pending future; its waker stays in the cell, its transfer or
\* doorbell under way.
Drop(f) ==
    /\ Thread /\ running = Nobody /\ pc[f] = "rest"
    /\ Goto(f, "off")
    /\ UNCHANGED <<running, verdict, arm, reg, wakeVars, sts, intr, isrVars, hwVars>>

Register(f) ==
    /\ Thread /\ running = f /\ pc[f] = "register"
    /\ waker' = [waker EXCEPT ![f] = TRUE]
    /\ Goto(f, "check")
    /\ UNCHANGED <<running, verdict, arm, reg, woken, sts, intr, isrVars, hwVars>>

\* The poll goes on to enable the bits b and then returns v.
ThenEnable(f, b, v) ==
    /\ arm' = b /\ verdict' = v /\ Goto(f, "read")
    /\ UNCHANGED running

\* Mutant: the early return is missing, and the poll falls through to modify_reg.
NoReturn(f) ==
    /\ Goto(f, "read")
    /\ UNCHANGED <<running, verdict, arm>>

ReturnReady(f) ==
    /\ Goto(f, "off") /\ running' = Nobody
    /\ UNCHANGED <<verdict, arm>>

\* TransferComplete: a transfer that is over is Ready at once.
CheckTransfer(f) ==
    /\ f \in Transfers
    /\ IF done[f] = "no" THEN ThenEnable(f, Events(f), "pending") ELSE ReturnReady(f)
    /\ UNCHANGED <<done, sts>>

\* ImxrtInterruptPipe: a packet re-arms the qTD, a halt ends the stream.
CheckIntPipe(f) ==
    /\ f \in IntPipes
    /\ CASE done[f] = "no"     -> ThenEnable(f, Events(f), "pending")
         [] done[f] = "ok"     -> ThenEnable(f, Events(f), "ready")
         [] done[f] = "halted" -> ThenEnable(f, {"PCI"}, "ready")
    /\ done' = IF done[f] = "ok" THEN [done EXCEPT ![f] = "no"] ELSE done
    /\ UNCHANGED sts

\* ImxrtDeviceDetect: a change of the port is taken and reported.
CheckDevice(f) ==
    /\ f = Device
    /\ ThenEnable(f, Events(f), IF done[f] = "no" THEN "pending" ELSE "ready")
    /\ done' = [done EXCEPT ![f] = "no"]
    /\ UNCHANGED sts

\* AsyncAdvanceWait reads AAI.
CheckAdvance(f) ==
    /\ f = Advance
    /\ IF "AAI" \in sts
       THEN Goto(f, "clear") /\ UNCHANGED <<running, verdict, arm>>
       ELSE ThenEnable(f, Events(f), "pending")
    /\ UNCHANGED <<done, sts>>

Check(f) ==
    /\ Thread /\ running = f /\ pc[f] = "check"
    /\ CheckTransfer(f) \/ CheckIntPipe(f) \/ CheckDevice(f) \/ CheckAdvance(f)
    /\ UNCHANGED <<reg, wakeVars, intr, isrVars, due, elapsed>>

\* ... and acknowledges it.
ClearAai(f) ==
    /\ Thread /\ running = f /\ pc[f] = "clear"
    /\ sts' = sts \ {"AAI"}
    /\ ReturnReady(f)
    /\ UNCHANGED <<reg, wakeVars, intr, isrVars, hwVars>>

\* modify_reg on USBINTR: the read,
ReadIntr(f) ==
    /\ Thread /\ running = f /\ pc[f] = "read"
    /\ reg' = intr
    /\ Goto(f, "write")
    /\ UNCHANGED <<running, verdict, arm, wakeVars, sts, intr, isrVars, hwVars>>

\* Mutant: the other bits are not kept.
EnabledOnly == arm

\* what it makes of it,
Enabled == reg \cup arm

\* and the write, with which the poll ends.
WriteIntr(f) ==
    /\ Thread /\ running = f /\ pc[f] = "write"
    /\ intr' = Enabled
    /\ Goto(f, IF verdict = "ready" THEN "off" ELSE "rest")
    /\ running' = Nobody
    /\ verdict' = "pending" /\ arm' = {} /\ reg' = {}
    /\ UNCHANGED <<wakeVars, sts, isrVars, hwVars>>

\* Gpt::clear_elapsed, by a task that saw the timer elapse.
ClearElapsed ==
    /\ Thread /\ elapsed /\ "TI0" \in sts
    /\ sts' = sts \ {"TI0"}
    /\ elapsed' = FALSE
    /\ UNCHANGED <<taskVars, wakeVars, intr, isrVars, done, due>>

-----------------------------------------------------------------------------
(* Hardware *)

\* A qTD of the pipe f retires or halts in memory; the status bit follows with
\* the interrupt threshold.
Complete(f) ==
    /\ f \in Pipes /\ done[f] = "no"
    /\ \/ done' = [done EXCEPT ![f] = "ok"] /\ due' = due \cup {"UI"}
       \/ /\ done' = [done EXCEPT ![f] = "halted"]
          /\ \E b \in {"UI", "UEI"} : due' = due \cup {b}
    /\ UNCHANGED <<taskVars, wakeVars, sts, intr, isrVars, elapsed>>

Threshold ==
    /\ due # {}
    /\ sts' = sts \cup due
    /\ due' = {}
    /\ UNCHANGED <<taskVars, wakeVars, intr, isrVars, done, elapsed>>

\* A device arrives or leaves; other changes of the port raise the same bit.
PortChange ==
    /\ Device \in Futures
    /\ done' \in {done, [done EXCEPT ![Device] = "ok"]}
    /\ sts' = sts \cup {"PCI"}
    /\ UNCHANGED <<taskVars, wakeVars, intr, isrVars, due, elapsed>>

\* The doorbell is answered.
Answer ==
    /\ Advance \in Futures /\ done[Advance] = "no"
    /\ done' = [done EXCEPT ![Advance] = "ok"]
    /\ sts' = sts \cup {"AAI"}
    /\ UNCHANGED <<taskVars, wakeVars, intr, isrVars, due, elapsed>>

TimerElapses ==
    /\ UsesTimer /\ ~elapsed
    /\ elapsed' = TRUE
    /\ sts' = sts \cup {"TI0"}
    /\ UNCHANGED <<taskVars, wakeVars, intr, isrVars, done, due>>

-----------------------------------------------------------------------------
Handler == IrqRead \/ IrqAck \/ IrqWake

\* The rest of a poll once the executor has entered it.
PollStep(f) == Register(f) \/ Check(f) \/ ClearAai(f) \/ ReadIntr(f) \/ WriteIntr(f)

Task(f) == Start(f) \/ Poll(f) \/ Drop(f) \/ PollStep(f)

Hardware ==
    \/ \E f \in Pipes : Complete(f)
    \/ Threshold \/ PortChange \/ Answer \/ TimerElapses

Next ==
    \/ Handler
    \/ \E f \in Futures : Task(f)
    \/ ClearElapsed
    \/ Hardware

\* The handler runs to its end; a poll once entered goes on and a woken future is
\* polled, provided the interrupt does not keep the CPU for itself; the interrupt
\* threshold passes.
Fairness ==
    /\ WF_vars(Handler)
    /\ WF_vars(Threshold)
    /\ \A f \in Futures :
          /\ SF_vars(Calm /\ PollStep(f))
          /\ SF_vars(Calm /\ woken[f] /\ Poll(f))

Spec == Init /\ [][Next]_vars
FairSpec == Spec /\ Fairness

-----------------------------------------------------------------------------
(* Properties *)

TypeOK ==
    /\ pc \in [Futures -> {"off", "rest"} \cup Polling]
    /\ running \in Futures \cup {Nobody}
    /\ \A f \in Futures : /\ pc[f] \in Polling <=> running = f
                          /\ pc[f] \in {"read", "write"} => arm # {}
    /\ waker \in [Futures -> BOOLEAN]
    /\ woken \in [Futures -> BOOLEAN]
    /\ verdict \in {"pending", "ready"}
    /\ arm \subseteq StsBits /\ reg \subseteq StsBits
    /\ sts \subseteq StsBits /\ intr \subseteq StsBits /\ due \subseteq StsBits
    /\ isr \in {"off", "ack", "wake"} /\ status \subseteq StsBits
    /\ done \in [Futures -> {"no", "ok", "halted"}]
    /\ elapsed \in BOOLEAN

\* The handler is going to wake f: its interrupt is enabled and pending or about
\* to be, or the handler is under way and has read it.
WakeComing(f) ==
    /\ waker[f]
    /\ \E b \in Events(f) :
          \/ b \in intr /\ b \in sts \cup due
          \/ isr # "off" /\ b \in status

\* No wake-up is lost: a pending future whose event has happened has been woken or
\* is about to be, whichever poll, acknowledgement, mask and event came in
\* between (shared.rs:21-24, interrupt_pipe.rs:89).
NoLostWakeup ==
    \A f \in Futures :
        pc[f] = "rest" /\ done[f] # "no" => woken[f] \/ WakeComing(f)

\* A future whose event has happened becomes Ready or is dropped; in particular the
\* interrupt that reports it does not keep the CPU from the poll (shared.rs:18-24).
Noticed ==
    \A f \in Futures : (pc[f] = "rest" /\ done[f] # "no") ~> pc[f] = "off"

\* A timer that has elapsed is seen to have, until clear_elapsed (gpt.rs:181-183).
ElapsedSeen == elapsed => "TI0" \in sts
=============================================================================
