------------------------- MODULE DeviceDetectProofs -------------------------
(***************************************************************************)
(* That no device passes for another, that none is reset twice, and that   *)
(* the detector is off during a reset, for any number of attachments and   *)
(* of attempts, with and without high speed.                               *)
(***************************************************************************)
EXTENDS DeviceDetect, TLAPS

\* What the constants are.
ConstantsOK ==
    /\ MaxSessions \in Nat
    /\ Attempts \in Nat \ {0}
    /\ ForceFullSpeed \in BOOLEAN

\* The poll is on its way to a report, or the reset to an enumeration.
Polling == stage \in {"clear", "report"}
Resetting == stage \in {"found", "reset", "hold", "end"}

\* Only the reset holds PR, only a set flag is cleared.
PortLocals ==
    /\ port.pr => stage \in {"hold", "end"}
    /\ Polling => ~portsc.pr
    /\ stage = "clear" => portsc.csc
    /\ stage \in {"reset", "end"} => ~portsc.csc

\* The application knows of a device from its report on.
Believed == Resetting \/ stage \in {"enumerate", "use"} => status # Absent

\* A change that is latched is of a device not reset yet, and so is one that was read.
ChangeIsNew ==
    /\ port.ccs /\ port.csc => lastReset < session
    /\ Polling /\ portsc.ccs /\ portsc.csc => lastReset < session

\* So is a device where the last read found none.
ArrivalIsNew == Polling /\ ~portsc.ccs /\ port.ccs => lastReset < session

\* But for retries, a device that the stream does not know of has not been reset ...
UnknownIsNew ==
    /\ attempt = 0 /\ status = Absent /\ port.ccs => lastReset < session
    /\ attempt = 0 /\ status = Absent /\ Polling /\ portsc.ccs => lastReset < session
    /\ attempt = 0 /\ Resetting => lastReset < session

\* ... and one that is at high speed has.
HighIsReset ==
    /\ port.ccs /\ port.pspd = HighSpeed => lastReset = session \/ stage \in {"hold", "end"}
    /\ attempt = 0 /\ status = Absent /\ Polling /\ portsc.ccs => portsc.pspd # HighSpeed

\* A device that is known and not latched as changed was reset in this session, also
\* when the poll that read no change is about to report.
KnownIsReset ==
    /\ \/ stage \in {"asleep", "poll", "enumerate", "use"}
       \/ stage = "report" /\ ~portsc.csc
    /\ status # Absent /\ port.ccs /\ ~port.csc
    => lastReset = session

DetectorOff == attempt = 0 /\ Resetting => ~detector

IInv ==
    /\ TypeOK /\ PortLocals /\ Believed
    /\ ChangeIsNew /\ ArrivalIsNew /\ UnknownIsNew
    /\ HighIsReset /\ KnownIsReset /\ DetectorOff

-----------------------------------------------------------------------------
\* The fields of PORTSC1 after each access to it.
LEMMA PortTypes ==
    ASSUME NEW v \in Port
    PROVE  /\ v.ccs \in BOOLEAN /\ v.csc \in BOOLEAN /\ v.pr \in BOOLEAN
           /\ v.pspd \in 0 .. 3
BY DEF Port

LEMMA AttachFields ==
    ASSUME port \in Port, woken \in BOOLEAN, Attach
    PROVE  /\ port' \in Port /\ woken' \in BOOLEAN
           /\ port'.ccs = TRUE /\ port'.csc = TRUE /\ port'.pspd # HighSpeed
           /\ port'.pr = port.pr
<1>1. PICK s \in {FullSpeed, LowSpeed} :
          /\ port' = [[port EXCEPT !.ccs = TRUE, !.pspd = s] EXCEPT !.csc = TRUE]
          /\ woken' = (woken \/ ~port.csc)
  BY DEF Attach, Change
<1>2. s \in 0 .. 3 /\ s # HighSpeed
  BY DEF FullSpeed, LowSpeed, HighSpeed
<1>3. port' = [ccs |-> TRUE, csc |-> TRUE, pspd |-> s, pr |-> port.pr]
  BY <1>1 DEF Port
<1>4. woken' \in BOOLEAN
  BY <1>1
<1> QED BY <1>2, <1>3, <1>4 DEF Port

LEMMA DetachFields ==
    ASSUME port \in Port, woken \in BOOLEAN, Detach
    PROVE  /\ port' \in Port /\ woken' \in BOOLEAN
           /\ port'.ccs = FALSE /\ port'.csc = TRUE /\ port'.pr = port.pr
<1>1. /\ port' = [[port EXCEPT !.ccs = FALSE, !.pspd = NotConnected] EXCEPT !.csc = TRUE]
      /\ woken' = (woken \/ ~port.csc)
  BY DEF Detach, Change
<1>2. port' = [ccs |-> FALSE, csc |-> TRUE, pspd |-> NotConnected, pr |-> port.pr]
  BY <1>1 DEF Port
<1>3. woken' \in BOOLEAN
  BY <1>1
<1> QED BY <1>2, <1>3 DEF Port, NotConnected

LEMMA ChirpFields ==
    ASSUME port \in Port, Chirp
    PROVE  /\ port' \in Port
           /\ port'.ccs = port.ccs /\ port'.csc = port.csc /\ port'.pr = port.pr
           /\ port.pr
<1>1. PICK s \in {FullSpeed, HighSpeed} : port' = [port EXCEPT !.pspd = s]
  BY DEF Chirp
<1>2. s \in 0 .. 3
  BY DEF FullSpeed, HighSpeed
<1> QED BY <1>1, <1>2 DEF Port, Chirp

LEMMA ClearFields ==
    ASSUME port \in Port, portsc \in Port, ~portsc.pr, PollClear
    PROVE  /\ port' \in Port
           /\ port'.ccs = port.ccs /\ port'.pspd = port.pspd
           /\ port'.csc = FALSE /\ port'.pr = FALSE
BY DEF PollClear, Written, Safe, Port

LEMMA BeginFields ==
    ASSUME port \in Port, portsc \in Port, ~portsc.csc, ResetBegin
    PROVE  /\ port' \in Port
           /\ port'.ccs = port.ccs /\ port'.pspd = port.pspd
           /\ port'.csc = port.csc /\ port'.pr = TRUE
BY DEF ResetBegin, Written, Port

LEMMA EndFields ==
    ASSUME port \in Port, portsc \in Port, ResetEnd
    PROVE  /\ port' \in Port
           /\ port'.ccs = port.ccs /\ port'.pspd = port.pspd
           /\ port'.csc = FALSE /\ port'.pr = FALSE
BY DEF ResetEnd, Written, Port

LEMMA ReadFields ==
    ASSUME port \in Port, ResetRead
    PROVE  portsc' \in Port /\ portsc'.csc = FALSE
BY DEF ResetRead, Safe, Port

LEMMA Initially ==
    ASSUME ConstantsOK, Init
    PROVE  IInv
<1>1. port \in Port /\ portsc = port /\ ~port.ccs /\ ~port.pr
  BY DEF Init, Port, NotConnected
<1>2. TypeOK
  <2>1. attempt \in 0 .. Attempts - 1 /\ session \in 0 .. MaxSessions /\ lastReset \in 0 .. session
    BY DEF Init, ConstantsOK
  <2> QED BY <1>1, <2>1 DEF Init, TypeOK, DeviceStatus, Stages
<1> QED
  BY <1>1, <1>2 DEF Init, IInv, Polling, Resetting, PortLocals, Believed, ChangeIsNew,
     ArrivalIsNew, UnknownIsNew, HighIsReset, KnownIsReset, DetectorOff

LEMMA HardwareStep ==
    ASSUME ConstantsOK, IInv, Hardware
    PROVE  IInv'
<1> USE DEF IInv, TypeOK, Polling, Resetting, PortLocals, Believed, ChangeIsNew,
            ArrivalIsNew, UnknownIsNew, HighIsReset, KnownIsReset, DetectorOff, ConstantsOK
<1>1. CASE Attach
  <2>1. /\ ~port.ccs /\ session' = session + 1 /\ session < MaxSessions
        /\ unheard' \in BOOLEAN
        /\ UNCHANGED <<detector, status, stage, portsc, attempt, lastReset>>
    BY <1>1 DEF Attach
  <2>2. TypeOK' /\ PortLocals' /\ Believed'
    BY <1>1, <2>1, AttachFields
  <2>3. ChangeIsNew' /\ ArrivalIsNew' /\ UnknownIsNew'
    BY <1>1, <2>1, AttachFields
  <2>4. HighIsReset' /\ KnownIsReset' /\ DetectorOff'
    BY <1>1, <2>1, AttachFields
  <2> QED BY <2>2, <2>3, <2>4
<1>2. CASE Detach
  <2>1. UNCHANGED <<detector, status, stage, portsc, attempt, session, lastReset, unheard>>
    BY <1>2 DEF Detach
  <2> QED BY <1>2, <2>1, DetachFields
<1>3. CASE Chirp
  <2>1. UNCHANGED <<woken, detector, status, stage, portsc, attempt, session, lastReset, unheard>>
    BY <1>3 DEF Chirp
  <2> QED BY <1>3, <2>1, ChirpFields
<1> QED BY <1>1, <1>2, <1>3 DEF Hardware

LEMMA PollStep ==
    ASSUME ConstantsOK, IInv, PollRead \/ PollClear \/ PollReport \/ PollPending
    PROVE  IInv'
<1> USE DEF IInv, TypeOK, Polling, Resetting, PortLocals, Believed, ChangeIsNew,
            ArrivalIsNew, UnknownIsNew, HighIsReset, KnownIsReset, DetectorOff, ConstantsOK
<1>1. CASE PollRead
  <2>1. /\ stage \in {"poll", "asleep"} /\ portsc' = port
        /\ woken' \in BOOLEAN /\ unheard' \in BOOLEAN
        /\ stage' = IF port.csc THEN "clear" ELSE "report"
        /\ UNCHANGED <<port, detector, status, attempt, session, lastReset>>
    BY <1>1 DEF PollRead
  <2>2. TypeOK'
    BY <2>1 DEF Stages
  <2>3. PortLocals' /\ Believed'
    BY <2>1
  <2>4. ChangeIsNew' /\ ArrivalIsNew' /\ UnknownIsNew'
    BY <2>1
  <2>5. HighIsReset' /\ KnownIsReset' /\ DetectorOff'
    BY <2>1
  <2> QED BY <2>2, <2>3, <2>4, <2>5
<1>2. CASE PollClear
  <2>1. /\ stage = "clear" /\ stage' = "report"
        /\ UNCHANGED <<woken, detector, status, portsc, attempt, session, lastReset, unheard>>
    BY <1>2 DEF PollClear
  <2> QED BY <1>2, <2>1, ClearFields DEF Stages
<1>3. Now \in DeviceStatus /\ (Now = Absent <=> ~portsc.ccs)
      /\ (Now = "high" => portsc.pspd = HighSpeed)
  BY DEF Now, StatusFromPortsc, DeviceStatus, Present, Absent, Port, LowSpeed, HighSpeed
<1>4. CASE PollReport
  <2>1. PICK report \in Event :
            /\ detector' = DetectorAfter(report)
            /\ status' = report
            /\ stage' = IF report = Absent THEN "poll" ELSE "found"
            /\ attempt' = IF report = Absent THEN 0 ELSE attempt
    BY <1>4 DEF PollReport
  <2>2. /\ stage = "report"
        /\ UNCHANGED <<port, woken, portsc, session, lastReset, unheard>>
    BY <1>4 DEF PollReport
  <2>3. CASE report = Absent
    <3>1. ~portsc.ccs \/ portsc.csc
      BY <2>1, <2>3, <1>3 DEF Event, PortEvent
    <3> QED BY <2>1, <2>2, <2>3, <3>1 DEF Stages, DetectorAfter, Absent, DeviceStatus
  <2>4. CASE report # Absent
    <3>1. report = Now /\ status = Absent /\ portsc.ccs
      BY <2>1, <2>4, <1>3 DEF Event, PortEvent
    <3> QED BY <2>1, <2>2, <2>4, <3>1, <1>3 DEF Stages, DetectorAfter
  <2> QED BY <2>3, <2>4
<1>5. CASE PollPending
  <2>1. /\ (status = Absent) = (Now = Absent)
        /\ Now # Absent => ~portsc.csc
    BY <1>5, <1>3 DEF PollPending, Event, PortEvent
  <2> QED BY <1>5, <2>1, <1>3 DEF PollPending, Stages
<1> QED BY <1>1, <1>2, <1>4, <1>5

LEMMA ResetStep ==
    ASSUME ConstantsOK, IInv, ResetRead \/ ResetBegin \/ ResetEnd
    PROVE  IInv'
<1> USE DEF IInv, TypeOK, Polling, Resetting, PortLocals, Believed, ChangeIsNew,
            ArrivalIsNew, UnknownIsNew, HighIsReset, KnownIsReset, DetectorOff, ConstantsOK
<1>1. CASE ResetRead
  <2>1. /\ \/ stage = "found" /\ stage' = "reset"
           \/ stage = "hold" /\ stage' = "end"
        /\ UNCHANGED <<port, woken, detector, status, attempt, session, lastReset, unheard>>
    BY <1>1 DEF ResetRead
  <2> QED BY <1>1, <2>1, ReadFields DEF Stages
<1>2. CASE ResetBegin
  <2>1. /\ stage = "reset" /\ stage' = "hold"
        /\ UNCHANGED <<woken, detector, status, portsc, attempt, session, lastReset, unheard>>
    BY <1>2 DEF ResetBegin
  <2> QED BY <1>2, <2>1, BeginFields DEF Stages
<1>3. CASE ResetEnd
  <2>1. /\ stage = "end" /\ stage' = "enumerate" /\ lastReset' = session
        /\ UNCHANGED <<woken, detector, status, portsc, attempt, session, unheard>>
    BY <1>3 DEF ResetEnd
  <2>2. TypeOK'
    <3>1. port' \in Port
      BY <1>3, EndFields
    <3> QED BY <2>1, <3>1 DEF Stages
  <2>5. PortLocals' /\ Believed'
    BY <1>3, <2>1, EndFields
  <2>3. ChangeIsNew' /\ ArrivalIsNew' /\ UnknownIsNew'
    BY <1>3, <2>1, EndFields
  <2>4. HighIsReset' /\ KnownIsReset' /\ DetectorOff'
    BY <1>3, <2>1, EndFields
  <2> QED BY <2>2, <2>3, <2>4, <2>5
<1> QED BY <1>1, <1>2, <1>3

LEMMA ApplicationStep ==
    ASSUME ConstantsOK, IInv, Application
    PROVE  IInv'
<1> USE DEF IInv, TypeOK, Polling, Resetting, PortLocals, Believed, ChangeIsNew,
            ArrivalIsNew, UnknownIsNew, HighIsReset, KnownIsReset, DetectorOff, ConstantsOK, Stages
<1>1. CASE Enumerated
  BY <1>1 DEF Enumerated
<1>2. CASE Retry
  BY <1>2 DEF Retry, Absent, DeviceStatus
<1>3. CASE GiveUp
  BY <1>3 DEF GiveUp
<1>4. CASE UseEnds
  BY <1>4 DEF UseEnds
<1> QED BY <1>1, <1>2, <1>3, <1>4 DEF Application

LEMMA Invariance ==
    ASSUME ConstantsOK
    PROVE  Spec => []IInv
<1>1. Init => IInv
  BY Initially
<1>2. IInv /\ [Next]_vars => IInv'
  <2>1. CASE Next
    BY <2>1, HardwareStep, PollStep, ResetStep, ApplicationStep DEF Next, Driver
  <2>2. CASE UNCHANGED vars
    BY <2>2 DEF vars, IInv, TypeOK, Polling, Resetting, PortLocals, Believed, ChangeIsNew,
                ArrivalIsNew, UnknownIsNew, HighIsReset, KnownIsReset, DetectorOff
  <2> QED BY <2>1, <2>2
<1> QED BY <1>1, <1>2, PTL DEF Spec

-----------------------------------------------------------------------------
\* A device that left and came back never passes for the one that was reset
\* (device_detect.rs:29-40, trait_impl.rs:39-45), for any number of attachments.
THEOREM SessionKnownHolds ==
    ASSUME ConstantsOK
    PROVE  Spec => []SessionKnown
<1>1. IInv => SessionKnown
  BY DEF IInv, KnownIsReset, SessionKnown
<1> QED BY <1>1, Invariance, PTL

\* The detector is off during a reset that is no retry (controller.rs:301-310).
THEOREM ChirpUndisturbedHolds ==
    ASSUME ConstantsOK
    PROVE  Spec => []ChirpUndisturbed
<1>1. IInv => ChirpUndisturbed
  BY DEF IInv, TypeOK, PortLocals, DetectorOff, Resetting, ChirpUndisturbed
<1> QED BY <1>1, Invariance, PTL

\* But for retries, a session is reset once (device_detect.rs:42-46, trait_impl.rs:39-45).
THEOREM ResetOnceHolds ==
    ASSUME ConstantsOK
    PROVE  Spec => ResetOnce
<1>1. IInv => (stage = "end" /\ stage' = "enumerate" /\ attempt = 0 => lastReset < session)
  BY DEF IInv, UnknownIsNew, Resetting
<1> QED BY <1>1, Invariance, PTL DEF ResetOnce

\* The locals of the stream and of the application stay in range.
THEOREM Typing ==
    ASSUME ConstantsOK
    PROVE  Spec => []TypeOK
<1>1. IInv => TypeOK
  BY DEF IInv
<1> QED BY <1>1, Invariance, PTL
=============================================================================
