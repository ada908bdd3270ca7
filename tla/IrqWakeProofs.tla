---------------------------- MODULE IrqWakeProofs ----------------------------
(***************************************************************************)
(* That no wake-up is lost, for any number of transfers and pipes.         *)
(***************************************************************************)
EXTENDS IrqWake, TLAPS

\* A poll that has registered its waker has it called or still has it in the cell.
Registered ==
    \A f \in Futures :
        pc[f] \in {"check", "clear", "read", "write"} => waker[f] \/ woken[f]

\* A poll that is going to be Pending is going to enable what its future waits for.
WillArm ==
    \A f \in Futures :
        pc[f] \in {"read", "write"} /\ verdict = "pending" => arm = Events(f)

\* What a poll read from USBINTR is at most too much: the handler only masks.
ReadEnough == \A f \in Futures : pc[f] = "write" => intr \subseteq reg

\* A future at rest that nobody woke can be woken: it is registered and its
\* interrupts are enabled.
Armed ==
    \A f \in Futures :
        pc[f] = "rest" /\ ~woken[f] => waker[f] /\ Events(f) \subseteq intr

\* A future that found nothing when it looked.
Unseen(f) == pc[f] = "rest" \/ (pc[f] \in {"read", "write"} /\ verdict = "pending")

\* What happened since is still to be reported.
Announced ==
    \A f \in Futures :
        Unseen(f) /\ done[f] # "no" /\ ~woken[f] =>
            \E b \in Events(f) : b \in sts \cup due \/ (isr # "off" /\ b \in status)

\* The answer to a doorbell stays in USBSTS until its future takes it.
AnswerKept ==
    Advance \in Futures /\ pc[Advance] # "off" /\ done[Advance] # "no" => "AAI" \in sts

\* Only the doorbell's future acknowledges.
OnlyAdvanceClears == \A f \in Futures : pc[f] = "clear" => f = Advance

IInv ==
    /\ TypeOK
    /\ Registered /\ WillArm /\ ReadEnough
    /\ Armed /\ Announced /\ AnswerKept /\ OnlyAdvanceClears

-----------------------------------------------------------------------------
\* The bits of a future.
LEMMA Bits ==
    ASSUME NEW f \in Futures
    PROVE  /\ Events(f) \subseteq StsBits /\ Events(f) # {} /\ WokenBy(f) = Events(f)
           /\ "TI0" \notin Events(f)
           /\ f # Advance => "AAI" \notin Events(f)
           /\ f = Advance => Events(f) = {"AAI"}
           /\ f = Device => Events(f) = {"PCI"}
           /\ f \in Pipes => Events(f) = {"UI", "UEI"}
BY FuturesAssumption DEF Events, WokenBy, StsBits, Futures, Pipes, Advance, Device

\* What a check comes to: the poll goes on to enable something, is Ready, or
\* acknowledges the doorbell.
CheckOutcome(f) ==
    \/ /\ pc' = [pc EXCEPT ![f] = "read"]
       /\ running' = running
       /\ arm' \subseteq StsBits /\ arm' # {} /\ verdict' \in {"pending", "ready"}
       /\ verdict' = "pending" =>
             arm' = Events(f) /\ (done'[f] = "no" \/ (f = Advance /\ "AAI" \notin sts))
    \/ /\ pc' = [pc EXCEPT ![f] = "off"]
       /\ running' = Nobody /\ UNCHANGED <<verdict, arm>>
    \/ /\ pc' = [pc EXCEPT ![f] = "clear"]
       /\ f = Advance
       /\ UNCHANGED <<running, verdict, arm>>

LEMMA CheckOutcomes ==
    ASSUME TypeOK, NEW f \in Futures, Check(f)
    PROVE  /\ running = f /\ pc[f] = "check"
           /\ UNCHANGED <<reg, wakeVars, sts, intr, isrVars, due, elapsed>>
           /\ done' \in [Futures -> {"no", "ok", "halted"}]
           /\ \A g \in Futures : g # f \/ f = Advance => done'[g] = done[g]
           /\ CheckOutcome(f)
<1>1. CASE CheckTransfer(f)
  BY <1>1, Bits
     DEF Check, CheckTransfer, ThenEnable, ReturnReady, Goto, CheckOutcome, TypeOK, Pipes
<1>2. CASE CheckIntPipe(f)
  <2>1. f # Advance /\ f \in Pipes
    BY <1>2, FuturesAssumption DEF CheckIntPipe, Pipes
  <2> USE <1>2, <2>1 DEF Check, CheckIntPipe, ThenEnable, Goto, CheckOutcome
  <2>2. CASE done[f] = "no"
    BY <2>2, Bits DEF TypeOK
  <2>3. CASE done[f] = "ok"
    BY <2>3, Bits DEF TypeOK
  <2>4. CASE done[f] = "halted"
    BY <2>4 DEF TypeOK, StsBits
  <2> QED BY <2>2, <2>3, <2>4 DEF TypeOK
<1>3. CASE CheckDevice(f)
  BY <1>3, Bits DEF Check, CheckDevice, ThenEnable, Goto, CheckOutcome, TypeOK, Device, Advance
<1>4. CASE CheckAdvance(f)
  BY <1>4, Bits DEF Check, CheckAdvance, ThenEnable, Goto, CheckOutcome, TypeOK
<1> QED BY <1>1, <1>2, <1>3, <1>4 DEF Check, wakeVars, isrVars

\* Type correctness is inductive.
LEMMA TypeStep ==
    ASSUME TypeOK, [Next]_vars
    PROVE  TypeOK'
<1> USE DEF TypeOK, Polling, StsBits, taskVars, wakeVars, isrVars, hwVars
<1>1. CASE IrqRead
  BY <1>1 DEF IrqRead
<1>2. CASE IrqAck
  BY <1>2 DEF IrqAck, Acknowledged
<1>3. CASE IrqWake
  BY <1>3 DEF IrqWake, Serviced, Called
<1>4. ASSUME NEW f \in Futures, Start(f) PROVE TypeOK'
  BY <1>4, NobodyAssumption DEF Start, Goto
<1>5. ASSUME NEW f \in Futures, Poll(f) PROVE TypeOK'
  BY <1>5, NobodyAssumption DEF Poll, Goto
<1>6. ASSUME NEW f \in Futures, Drop(f) PROVE TypeOK'
  BY <1>6 DEF Drop, Goto
<1>7. ASSUME NEW f \in Futures, Register(f) PROVE TypeOK'
  BY <1>7 DEF Register, Goto
<1>8. ASSUME NEW f \in Futures, Check(f) PROVE TypeOK'
  <2>1. /\ running = f /\ pc[f] = "check"
        /\ UNCHANGED <<reg, waker, woken, sts, intr, isr, status, due, elapsed>>
        /\ done' \in [Futures -> {"no", "ok", "halted"}]
        /\ CheckOutcome(f)
    BY <1>8, CheckOutcomes
  <2>2. CASE pc' = [pc EXCEPT ![f] = "read"] /\ running' = running
             /\ arm' \subseteq StsBits /\ arm' # {} /\ verdict' \in {"pending", "ready"}
    BY <2>1, <2>2
  <2>3. CASE pc' = [pc EXCEPT ![f] = "off"] /\ running' = Nobody
             /\ UNCHANGED <<verdict, arm>>
    BY <2>1, <2>3, NobodyAssumption
  <2>4. CASE pc' = [pc EXCEPT ![f] = "clear"] /\ UNCHANGED <<running, verdict, arm>>
    BY <2>1, <2>4
  <2> QED BY <2>1, <2>2, <2>3, <2>4 DEF CheckOutcome
<1>9. ASSUME NEW f \in Futures, ClearAai(f) PROVE TypeOK'
  BY <1>9, NobodyAssumption DEF ClearAai, ReturnReady, Goto
<1>10. ASSUME NEW f \in Futures, ReadIntr(f) PROVE TypeOK'
  BY <1>10 DEF ReadIntr, Goto
<1>11. ASSUME NEW f \in Futures, WriteIntr(f) PROVE TypeOK'
  BY <1>11, NobodyAssumption DEF WriteIntr, Enabled, Goto
<1>12. CASE ClearElapsed
  BY <1>12 DEF ClearElapsed
<1>13. ASSUME NEW f \in Pipes, Complete(f) PROVE TypeOK'
  BY <1>13 DEF Complete, Futures
<1>14. CASE Threshold
  BY <1>14 DEF Threshold
<1>15. CASE PortChange
  BY <1>15 DEF PortChange, Futures
<1>16. CASE Answer
  BY <1>16 DEF Answer
<1>17. CASE TimerElapses
  BY <1>17 DEF TimerElapses
<1>18. CASE UNCHANGED vars
  BY <1>18 DEF vars
<1> QED BY <1>1, <1>2, <1>3, <1>4, <1>5, <1>6, <1>7, <1>8, <1>9, <1>10, <1>11, <1>12,
           <1>13, <1>14, <1>15, <1>16, <1>17, <1>18
  DEF Next, Handler, Task, PollStep, Hardware

\* Registered: the handler moves a waker from its cell to the executor.
LEMMA RegisteredStep ==
    ASSUME IInv, [Next]_vars
    PROVE  Registered'
<1> USE DEF IInv, TypeOK, Polling, Registered, taskVars, wakeVars, isrVars, hwVars
<1>1. CASE UNCHANGED <<pc, waker, woken>>
  BY <1>1
<1>2. CASE IrqWake
  BY <1>2 DEF IrqWake, Serviced, Called
<1>3. ASSUME NEW f \in Futures, Start(f) PROVE Registered'
  BY <1>3 DEF Start, Goto
<1>4. ASSUME NEW f \in Futures, Poll(f) PROVE Registered'
  BY <1>4 DEF Poll, Goto
<1>5. ASSUME NEW f \in Futures, Drop(f) PROVE Registered'
  BY <1>5 DEF Drop, Goto
<1>6. ASSUME NEW f \in Futures, Register(f) PROVE Registered'
  BY <1>6 DEF Register, Goto
<1>7. ASSUME NEW f \in Futures, Check(f) PROVE Registered'
  BY <1>7, CheckOutcomes DEF CheckOutcome
<1>8. ASSUME NEW f \in Futures, ClearAai(f) PROVE Registered'
  BY <1>8 DEF ClearAai, ReturnReady, Goto
<1>9. ASSUME NEW f \in Futures, ReadIntr(f) PROVE Registered'
  BY <1>9 DEF ReadIntr, Goto
<1>10. ASSUME NEW f \in Futures, WriteIntr(f) PROVE Registered'
  BY <1>10 DEF WriteIntr, Enabled, Goto
<1> QED BY <1>1, <1>2, <1>3, <1>4, <1>5, <1>6, <1>7, <1>8, <1>9, <1>10
  DEF Next, Handler, Task, PollStep, Hardware, IrqRead, IrqAck, ClearElapsed,
      Complete, Threshold, PortChange, Answer, TimerElapses, vars

\* WillArm: only one poll runs, and it keeps what it decided.
LEMMA WillArmStep ==
    ASSUME IInv, [Next]_vars
    PROVE  WillArm'
<1> USE DEF IInv, TypeOK, Polling, WillArm, taskVars, wakeVars, isrVars, hwVars
<1>1. CASE UNCHANGED <<pc, verdict, arm>>
  BY <1>1
<1>2. ASSUME NEW f \in Futures, Start(f) PROVE WillArm'
  BY <1>2 DEF Start, Goto
<1>3. ASSUME NEW f \in Futures, Poll(f) PROVE WillArm'
  BY <1>3 DEF Poll, Goto
<1>4. ASSUME NEW f \in Futures, Drop(f) PROVE WillArm'
  BY <1>4 DEF Drop, Goto
<1>5. ASSUME NEW f \in Futures, Register(f) PROVE WillArm'
  BY <1>5 DEF Register, Goto
<1>6. ASSUME NEW f \in Futures, Check(f) PROVE WillArm'
  BY <1>6, CheckOutcomes DEF CheckOutcome
<1>7. ASSUME NEW f \in Futures, ClearAai(f) PROVE WillArm'
  BY <1>7 DEF ClearAai, ReturnReady, Goto
<1>8. ASSUME NEW f \in Futures, ReadIntr(f) PROVE WillArm'
  BY <1>8 DEF ReadIntr, Goto
<1>9. ASSUME NEW f \in Futures, WriteIntr(f) PROVE WillArm'
  BY <1>9 DEF WriteIntr, Enabled, Goto
<1> QED BY <1>1, <1>2, <1>3, <1>4, <1>5, <1>6, <1>7, <1>8, <1>9
  DEF Next, Handler, Task, PollStep, Hardware, IrqRead, IrqAck, IrqWake,
      ClearElapsed, Complete, Threshold, PortChange, Answer, TimerElapses, vars

\* ReadEnough: no other poll enables anything in between.
LEMMA ReadEnoughStep ==
    ASSUME IInv, [Next]_vars
    PROVE  ReadEnough'
<1> USE DEF IInv, TypeOK, Polling, ReadEnough, taskVars, wakeVars, isrVars, hwVars
<1>1. CASE UNCHANGED <<pc, intr, reg>>
  BY <1>1
<1>2. CASE IrqWake
  BY <1>2 DEF IrqWake, Serviced, Called
<1>3. ASSUME NEW f \in Futures, Start(f) PROVE ReadEnough'
  BY <1>3 DEF Start, Goto
<1>4. ASSUME NEW f \in Futures, Poll(f) PROVE ReadEnough'
  BY <1>4 DEF Poll, Goto
<1>5. ASSUME NEW f \in Futures, Drop(f) PROVE ReadEnough'
  BY <1>5 DEF Drop, Goto
<1>6. ASSUME NEW f \in Futures, Register(f) PROVE ReadEnough'
  BY <1>6 DEF Register, Goto
<1>7. ASSUME NEW f \in Futures, Check(f) PROVE ReadEnough'
  BY <1>7, CheckOutcomes DEF CheckOutcome
<1>8. ASSUME NEW f \in Futures, ClearAai(f) PROVE ReadEnough'
  BY <1>8 DEF ClearAai, ReturnReady, Goto
<1>9. ASSUME NEW f \in Futures, ReadIntr(f) PROVE ReadEnough'
  BY <1>9 DEF ReadIntr, Goto
<1>10. ASSUME NEW f \in Futures, WriteIntr(f) PROVE ReadEnough'
  BY <1>10 DEF WriteIntr, Enabled, Goto
<1> QED BY <1>1, <1>2, <1>3, <1>4, <1>5, <1>6, <1>7, <1>8, <1>9, <1>10
  DEF Next, Handler, Task, PollStep, Hardware, IrqRead, IrqAck, ClearElapsed,
      Complete, Threshold, PortChange, Answer, TimerElapses, vars

\* OnlyAdvanceClears: by what the checks lead to.
LEMMA OnlyAdvanceClearsStep ==
    ASSUME IInv, [Next]_vars
    PROVE  OnlyAdvanceClears'
<1> USE DEF IInv, TypeOK, Polling, OnlyAdvanceClears, taskVars, wakeVars, isrVars,
            hwVars
<1>1. CASE UNCHANGED <<pc>>
  BY <1>1
<1>2. ASSUME NEW f \in Futures, Start(f) PROVE OnlyAdvanceClears'
  BY <1>2 DEF Start, Goto
<1>3. ASSUME NEW f \in Futures, Poll(f) PROVE OnlyAdvanceClears'
  BY <1>3 DEF Poll, Goto
<1>4. ASSUME NEW f \in Futures, Drop(f) PROVE OnlyAdvanceClears'
  BY <1>4 DEF Drop, Goto
<1>5. ASSUME NEW f \in Futures, Register(f) PROVE OnlyAdvanceClears'
  BY <1>5 DEF Register, Goto
<1>6. ASSUME NEW f \in Futures, Check(f) PROVE OnlyAdvanceClears'
  BY <1>6, CheckOutcomes DEF CheckOutcome
<1>7. ASSUME NEW f \in Futures, ClearAai(f) PROVE OnlyAdvanceClears'
  BY <1>7 DEF ClearAai, ReturnReady, Goto
<1>8. ASSUME NEW f \in Futures, ReadIntr(f) PROVE OnlyAdvanceClears'
  BY <1>8 DEF ReadIntr, Goto
<1>9. ASSUME NEW f \in Futures, WriteIntr(f) PROVE OnlyAdvanceClears'
  BY <1>9 DEF WriteIntr, Enabled, Goto
<1> QED BY <1>1, <1>2, <1>3, <1>4, <1>5, <1>6, <1>7, <1>8, <1>9
  DEF Next, Handler, Task, PollStep, Hardware, IrqRead, IrqAck, IrqWake,
      ClearElapsed, Complete, Threshold, PortChange, Answer, TimerElapses, vars

\* AnswerKept: the handler leaves AAI alone.
LEMMA AnswerKeptStep ==
    ASSUME IInv, [Next]_vars
    PROVE  AnswerKept'
<1> USE DEF IInv, TypeOK, Polling, AnswerKept, taskVars, wakeVars, isrVars, hwVars
<1>1. CASE UNCHANGED <<pc, done, sts>>
  BY <1>1
<1>2. CASE IrqAck
  BY <1>2 DEF IrqAck, Acknowledged
<1>3. ASSUME NEW f \in Futures, Start(f) PROVE AnswerKept'
  BY <1>3 DEF Start, Goto
<1>4. ASSUME NEW f \in Futures, Poll(f) PROVE AnswerKept'
  BY <1>4 DEF Poll, Goto
<1>5. ASSUME NEW f \in Futures, Drop(f) PROVE AnswerKept'
  BY <1>5 DEF Drop, Goto
<1>6. ASSUME NEW f \in Futures, Register(f) PROVE AnswerKept'
  BY <1>6 DEF Register, Goto
<1>7. ASSUME NEW f \in Futures, Check(f) PROVE AnswerKept'
  BY <1>7, CheckOutcomes DEF CheckOutcome
<1>8. ASSUME NEW f \in Futures, ClearAai(f) PROVE AnswerKept'
  BY <1>8 DEF ClearAai, ReturnReady, Goto, OnlyAdvanceClears
<1>9. ASSUME NEW f \in Futures, ReadIntr(f) PROVE AnswerKept'
  BY <1>9 DEF ReadIntr, Goto
<1>10. ASSUME NEW f \in Futures, WriteIntr(f) PROVE AnswerKept'
  BY <1>10 DEF WriteIntr, Enabled, Goto
<1>11. CASE ClearElapsed
  BY <1>11 DEF ClearElapsed
<1>12. ASSUME NEW f \in Pipes, Complete(f) PROVE AnswerKept'
  BY <1>12, FuturesAssumption DEF Complete
<1>13. CASE Threshold
  BY <1>13 DEF Threshold
<1>14. CASE PortChange
  BY <1>14 DEF PortChange, Device, Advance
<1>15. CASE Answer
  BY <1>15 DEF Answer
<1>16. CASE TimerElapses
  BY <1>16 DEF TimerElapses
<1> QED BY <1>1, <1>2, <1>3, <1>4, <1>5, <1>6, <1>7, <1>8, <1>9, <1>10, <1>11, <1>12,
           <1>13, <1>14, <1>15, <1>16
  DEF Next, Handler, Task, PollStep, Hardware, IrqRead, IrqWake, vars

\* Armed: what the handler masks it also wakes, and no write takes a bit away.
LEMMA ArmedStep ==
    ASSUME IInv, [Next]_vars
    PROVE  Armed'
<1> USE DEF IInv, TypeOK, Polling, Armed, taskVars, wakeVars, isrVars, hwVars
<1>1. CASE UNCHANGED <<pc, woken, waker, intr>>
  BY <1>1
<1>2. CASE IrqWake
  BY <1>2, Bits DEF IrqWake, Serviced, Called
<1>3. ASSUME NEW f \in Futures, Start(f) PROVE Armed'
  BY <1>3 DEF Start, Goto
<1>4. ASSUME NEW f \in Futures, Poll(f) PROVE Armed'
  BY <1>4 DEF Poll, Goto
<1>5. ASSUME NEW f \in Futures, Drop(f) PROVE Armed'
  BY <1>5 DEF Drop, Goto
<1>6. ASSUME NEW f \in Futures, Register(f) PROVE Armed'
  BY <1>6 DEF Register, Goto
<1>7. ASSUME NEW f \in Futures, Check(f) PROVE Armed'
  BY <1>7, CheckOutcomes DEF CheckOutcome
<1>8. ASSUME NEW f \in Futures, ClearAai(f) PROVE Armed'
  BY <1>8 DEF ClearAai, ReturnReady, Goto
<1>9. ASSUME NEW f \in Futures, ReadIntr(f) PROVE Armed'
  BY <1>9 DEF ReadIntr, Goto
<1>10. ASSUME NEW f \in Futures, WriteIntr(f) PROVE Armed'
  BY <1>10 DEF WriteIntr, Enabled, Goto, Registered, WillArm, ReadEnough
<1> QED BY <1>1, <1>2, <1>3, <1>4, <1>5, <1>6, <1>7, <1>8, <1>9, <1>10
  DEF Next, Handler, Task, PollStep, Hardware, IrqRead, IrqAck, ClearElapsed,
      Complete, Threshold, PortChange, Answer, TimerElapses, vars

\* Announced: an event's bit is due as soon as it is in memory, and the handler clears
\* no bit it has not read.
LEMMA AnnouncedStep ==
    ASSUME IInv, [Next]_vars
    PROVE  Announced'
<1> USE DEF IInv, TypeOK, Polling, Announced, Unseen, taskVars, wakeVars, isrVars,
            hwVars
<1>1. CASE IrqRead
  BY <1>1, Bits DEF IrqRead
<1>2. CASE IrqAck
  BY <1>2, Bits DEF IrqAck, Acknowledged
<1>3. CASE IrqWake
  BY <1>3, Bits DEF IrqWake, Serviced, Called, Armed, Registered
<1>4. ASSUME NEW f \in Futures, Start(f) PROVE Announced'
  BY <1>4, Bits DEF Start, Goto
<1>5. ASSUME NEW f \in Futures, Poll(f) PROVE Announced'
  BY <1>5, Bits DEF Poll, Goto
<1>6. ASSUME NEW f \in Futures, Drop(f) PROVE Announced'
  BY <1>6, Bits DEF Drop, Goto
<1>7. ASSUME NEW f \in Futures, Register(f) PROVE Announced'
  BY <1>7, Bits DEF Register, Goto
<1>8. ASSUME NEW f \in Futures, Check(f) PROVE Announced'
  BY <1>8, Bits, CheckOutcomes DEF CheckOutcome, AnswerKept
<1>9. ASSUME NEW f \in Futures, ClearAai(f) PROVE Announced'
  BY <1>9, Bits DEF ClearAai, ReturnReady, Goto, OnlyAdvanceClears
<1>10. ASSUME NEW f \in Futures, ReadIntr(f) PROVE Announced'
  BY <1>10, Bits DEF ReadIntr, Goto
<1>11. ASSUME NEW f \in Futures, WriteIntr(f) PROVE Announced'
  BY <1>11, Bits DEF WriteIntr, Enabled, Goto
<1>12. CASE ClearElapsed
  BY <1>12, Bits DEF ClearElapsed
<1>13. ASSUME NEW f \in Pipes, Complete(f) PROVE Announced'
  BY <1>13, Bits, FuturesAssumption DEF Complete
<1>14. CASE Threshold
  BY <1>14, Bits DEF Threshold
<1>15. CASE PortChange
  BY <1>15, Bits DEF PortChange, Futures
<1>16. CASE Answer
  BY <1>16, Bits DEF Answer
<1>17. CASE TimerElapses
  BY <1>17, Bits DEF TimerElapses
<1>18. CASE UNCHANGED vars
  BY <1>18 DEF vars
<1> QED BY <1>1, <1>2, <1>3, <1>4, <1>5, <1>6, <1>7, <1>8, <1>9, <1>10, <1>11, <1>12,
           <1>13, <1>14, <1>15, <1>16, <1>17, <1>18
  DEF Next, Handler, Task, PollStep, Hardware

\* The invariant holds initially and is inductive.
THEOREM Invariance == Spec => []IInv
<1>1. Init => IInv
  BY NobodyAssumption
  DEF Init, IInv, TypeOK, Polling, StsBits, Registered, WillArm, ReadEnough, Armed,
      Announced, Unseen, AnswerKept, OnlyAdvanceClears
<1>2. IInv /\ [Next]_vars => IInv'
  <2> SUFFICES ASSUME IInv, [Next]_vars PROVE IInv'
    OBVIOUS
  <2>1. TypeOK'
    BY TypeStep DEF IInv
  <2> QED BY <2>1, RegisteredStep, WillArmStep, ReadEnoughStep, OnlyAdvanceClearsStep,
             AnswerKeptStep, ArmedStep, AnnouncedStep
          DEF IInv
<1> QED BY <1>1, <1>2, PTL DEF Spec

\* Type correctness, for any number of futures.
THEOREM Typing == Spec => []TypeOK
<1>1. IInv => TypeOK
  BY DEF IInv
<1> QED BY <1>1, Invariance, PTL

\* No wake-up is lost (shared.rs:21-24): a pending future whose event happened has
\* been woken or is about to be, for any number of transfers and pipes.
THEOREM WakeupsKept == Spec => []NoLostWakeup
<1>1. IInv => NoLostWakeup
  <2> SUFFICES ASSUME IInv, NEW f \in Futures,
                      pc[f] = "rest", done[f] # "no", ~woken[f]
               PROVE  WakeComing(f)
    BY DEF NoLostWakeup
  <2>1. waker[f] /\ Events(f) \subseteq intr
    BY DEF IInv, Armed
  <2>2. PICK b \in Events(f) : b \in sts \cup due \/ (isr # "off" /\ b \in status)
    BY DEF IInv, Announced, Unseen
  <2> QED BY <2>1, <2>2 DEF WakeComing
<1> QED BY <1>1, Invariance, PTL
=============================================================================
