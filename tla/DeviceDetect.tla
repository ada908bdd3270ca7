---------------------------- MODULE DeviceDetect ----------------------------
(***************************************************************************)
(* The root port: its register PORTSC1 with the latched connect change     *)
(* (CSC), the device-detect stream that reads and clears it, the port      *)
(* reset, and the application that polls the stream, resets the port for   *)
(* every device reported, and starts over with a fresh stream when the     *)
(* enumeration fails (src/host/device_detect.rs, trait_impl.rs, controller *)
(* .rs and the event loop of the example).                                 *)
(*                                                                         *)
(* Devices come and go between any two register accesses.  A session is    *)
(* one attachment of a device; sessions are counted only to say which one  *)
(* the application knows of, the driver does not see them.                 *)
(***************************************************************************)
EXTENDS Naturals

CONSTANTS
    MaxSessions,        \* bound: devices are attached so many times
    Attempts,           \* ENUM_ATTEMPTS of the application
    ForceFullSpeed      \* PFSC, the hub-support feature: no chirp

\* The PSPD field.
FullSpeed == 0
LowSpeed == 1
HighSpeed == 2
NotConnected == 3

Absent == "absent"
Present == {"full", "low", "high"}
DeviceStatus == {Absent} \cup Present

VARIABLES
    port,       \* PORTSC1: CCS, CSC, PSPD and PR
    woken,      \* a port change interrupt has called for a poll not yet made
    detector,   \* ENHOSTDISCONDETECT of the PHY
    status,     \* the status the stream last reported or silently noted
    stage,      \* where the application's task stands
    portsc,     \* the value of PORTSC1 a local variable holds
    attempt,    \* enumerations that failed in a row
    session,    \* how many times a device was attached
    lastReset,  \* the session in which the port was last reset
    unheard     \* a device came in the one moment nobody notices, see Attach

vars == <<port, woken, detector, status, stage, portsc, attempt, session,
          lastReset, unheard>>

Port == [ccs : BOOLEAN, csc : BOOLEAN, pspd : 0 .. 3, pr : BOOLEAN]

Stages == {"asleep", "poll", "clear", "report", "found", "reset", "hold", "end",
           "enumerate", "use"}

TypeOK ==
    /\ port \in Port
    /\ woken \in BOOLEAN
    /\ detector \in BOOLEAN
    /\ status \in DeviceStatus
    /\ stage \in Stages
    /\ portsc \in Port
    /\ attempt \in 0 .. Attempts - 1
    /\ session \in 0 .. MaxSessions
    /\ lastReset \in 0 .. session
    /\ unheard \in BOOLEAN

\* After ImxrtHostController::init, with nothing plugged in.
Init ==
    /\ port = [ccs |-> FALSE, csc |-> FALSE, pspd |-> NotConnected, pr |-> FALSE]
    /\ woken = FALSE
    /\ detector = FALSE
    /\ status = Absent
    /\ stage = "poll"
    /\ portsc = port
    /\ attempt = 0
    /\ session = 0
    /\ lastReset = 0
    /\ unheard = FALSE

-----------------------------------------------------------------------------
(* The port *)

\* PORTSC1 after a write of v: CSC is cleared by a one and not set by anything,
\* CCS and PSPD are read-only.
Written(v) == [port EXCEPT !.csc = @ /\ ~v.csc, !.pr = v.pr]

\* portsc1_read_safe: the write-one-to-clear bits are masked out of what was read.
Safe(v) == [v EXCEPT !.csc = FALSE]

\* The port change interrupt is raised when CSC goes from zero to one; that a
\* stream which waits is then polled is what IrqWake shows.
Change(now) ==
    /\ port' = [now EXCEPT !.csc = TRUE]
    /\ woken' = (woken \/ ~port.csc)

\* A device is plugged in.  It goes unheard when the stream, which had nothing to
\* report, has read a latched change of an empty port and not cleared it yet: the
\* latch is set already, so there is no new interrupt, and the stream sleeps on.
Attach ==
    /\ ~port.ccs
    /\ session < MaxSessions
    /\ session' = session + 1
    /\ \E s \in {FullSpeed, LowSpeed} :
          Change([port EXCEPT !.ccs = TRUE, !.pspd = s])
    /\ unheard' = (stage = "clear" /\ status = Absent /\ ~portsc.ccs)
    /\ UNCHANGED <<detector, status, stage, portsc, attempt, lastReset>>

Detach ==
    /\ port.ccs
    /\ Change([port EXCEPT !.ccs = FALSE, !.pspd = NotConnected])
    /\ UNCHANGED <<detector, status, stage, portsc, attempt, session, lastReset, unheard>>

\* The speed of a device that is not a low-speed one is settled anew in the reset.
Chirp ==
    /\ port.ccs /\ port.pr /\ port.pspd # LowSpeed
    /\ ~ForceFullSpeed
    /\ \E s \in {FullSpeed, HighSpeed} : port' = [port EXCEPT !.pspd = s]
    /\ UNCHANGED <<woken, detector, status, stage, portsc, attempt, session, lastReset, unheard>>

Hardware == Attach \/ Detach \/ Chirp

-----------------------------------------------------------------------------
(* ImxrtDeviceDetect::poll_next *)

StatusFromPortsc(v) ==
    IF ~v.ccs THEN Absent
    ELSE CASE v.pspd = LowSpeed  -> "low"
           [] v.pspd = HighSpeed -> "high"
           [] OTHER              -> "full"

\* What to report, if anything: the empty set is None.
PortEvent(previous, now, changed) ==
    IF (previous # Absent) # (now # Absent) THEN {now}
    ELSE IF now # Absent /\ changed THEN {Absent}
    ELSE {}

\* Mutant: the flag is cleared whether it was read set or not.
PollReadClearing ==
    /\ stage \in {"poll", "asleep"}
    /\ portsc' = port
    /\ woken' = FALSE
    /\ unheard' = FALSE
    /\ stage' = "clear"
    /\ UNCHANGED <<port, detector, status, attempt, session, lastReset>>

\* The waker is registered and the port read.
PollRead ==
    /\ stage \in {"poll", "asleep"}
    /\ portsc' = port
    /\ woken' = FALSE
    /\ unheard' = FALSE
    /\ stage' = IF port.csc THEN "clear" ELSE "report"
    /\ UNCHANGED <<port, detector, status, attempt, session, lastReset>>

\* clear_connect_change writes back what was read, with CSC and no other flag.
PollClear ==
    /\ stage = "clear"
    /\ port' = Written([Safe(portsc) EXCEPT !.csc = TRUE])
    /\ stage' = "report"
    /\ UNCHANGED <<woken, detector, status, portsc, attempt, session, lastReset, unheard>>

Now == StatusFromPortsc(portsc)
Event == PortEvent(status, Now, portsc.csc)

\* Mutant: a report of a slower device leaves the detector alone.
DetectorSticky(report) == detector \/ report = "high"

\* The disconnect detector after a report.
DetectorAfter(report) == report = "high"

\* The application takes the report: Absent ends what it was doing, a device is
\* reset next.  A disconnect also forgets earlier failures.
PollReport ==
    /\ stage = "report"
    /\ \E report \in Event :
          /\ detector' = DetectorAfter(report)
          /\ status' = report
          /\ stage' = IF report = Absent THEN "poll" ELSE "found"
          /\ attempt' = IF report = Absent THEN 0 ELSE attempt
    /\ UNCHANGED <<port, woken, portsc, session, lastReset, unheard>>

\* Mutant: the waker is registered at the end of the poll.
PollPendingLate ==
    /\ stage = "report"
    /\ Event = {}
    /\ detector' = (detector \/ (Now # status /\ Now = "high"))
    /\ status' = Now
    /\ woken' = FALSE
    /\ stage' = "asleep"
    /\ UNCHANGED <<port, portsc, attempt, session, lastReset, unheard>>

\* Nothing to report: a change of speed is noted, and Pending returned.
PollPending ==
    /\ stage = "report"
    /\ Event = {}
    /\ detector' = (detector \/ (Now # status /\ Now = "high"))
    /\ status' = Now
    /\ stage' = "asleep"
    /\ UNCHANGED <<port, woken, portsc, attempt, session, lastReset, unheard>>

-----------------------------------------------------------------------------
(* reset_root_port and the application *)

ResetRead ==
    /\ stage \in {"found", "hold"}
    /\ portsc' = Safe(port)
    /\ stage' = IF stage = "found" THEN "reset" ELSE "end"
    /\ UNCHANGED <<port, woken, detector, status, attempt, session, lastReset, unheard>>

\* reset_root_port(true)
ResetBegin ==
    /\ stage = "reset"
    /\ port' = Written([portsc EXCEPT !.pr = TRUE])
    /\ stage' = "hold"
    /\ UNCHANGED <<woken, detector, status, portsc, attempt, session, lastReset, unheard>>

\* Mutant: the change latched before or during the reset is kept.
ResetEndKeeping ==
    /\ stage = "end"
    /\ port' = Written([portsc EXCEPT !.pr = FALSE])
    /\ lastReset' = session
    /\ stage' = "enumerate"
    /\ UNCHANGED <<woken, detector, status, portsc, attempt, session, unheard>>

\* reset_root_port(false) also clears CSC: the session starts afresh.
ResetEnd ==
    /\ stage = "end"
    /\ port' = Written([portsc EXCEPT !.pr = FALSE, !.csc = TRUE])
    /\ lastReset' = session
    /\ stage' = "enumerate"
    /\ UNCHANGED <<woken, detector, status, portsc, attempt, session, unheard>>

\* The device the application enumerated is still there.
Known == port.ccs /\ lastReset = session

\* Enumeration succeeds: the device is used, or is of no use and the next event
\* awaited.
Enumerated ==
    /\ stage = "enumerate"
    /\ Known
    /\ attempt' = 0
    /\ \E s \in {"use", "poll"} : stage' = s
    /\ UNCHANGED <<port, woken, detector, status, portsc, session, lastReset, unheard>>

\* It fails and is retried with a fresh stream, which believes the port empty.
Retry ==
    /\ stage = "enumerate"
    /\ attempt + 1 < Attempts
    /\ attempt' = attempt + 1
    /\ status' = Absent
    /\ stage' = "poll"
    /\ UNCHANGED <<port, woken, detector, portsc, session, lastReset, unheard>>

\* It fails for the last time: the old stream is polled again.
GiveUp ==
    /\ stage = "enumerate"
    /\ attempt + 1 = Attempts
    /\ stage' = "poll"
    /\ UNCHANGED <<port, woken, detector, status, portsc, attempt, session, lastReset, unheard>>

\* A read of the device fails.
UseEnds ==
    /\ stage = "use"
    /\ stage' = "poll"
    /\ UNCHANGED <<port, woken, detector, status, portsc, attempt, session, lastReset, unheard>>

Driver ==
    \/ PollRead \/ PollClear \/ PollReport \/ PollPending
    \/ ResetRead \/ ResetBegin \/ ResetEnd

Application == Enumerated \/ Retry \/ GiveUp \/ UseEnds

Next == Hardware \/ Driver \/ Application

Spec == Init /\ [][Next]_vars

\* A task goes on unless it sleeps without having been woken, or reads a device
\* that is still there; reads of one that is gone fail.
Fairness ==
    /\ WF_vars((stage = "asleep" => woken) /\ Driver)
    /\ WF_vars((stage = "use" => ~Known) /\ Application)

FairSpec == Spec /\ Fairness

-----------------------------------------------------------------------------
(* Properties *)

\* Outside of a poll that has read the flag and of a reset, the stream says that a
\* device is there only of the session the port was reset in, unless a change is
\* latched for the next poll: no device that left and came back, between two polls,
\* between the read and the clearing of the flag, or around the reset, passes for
\* the one that was enumerated (device_detect.rs:29-40, trait_impl.rs:39-45).
SessionKnown ==
    /\ stage \in {"asleep", "poll", "enumerate", "use"}
    /\ status # Absent
    /\ port.ccs /\ ~port.csc
    => lastReset = session

\* But for retries, a device is reset and enumerated once: contact bounce at plug-in
\* and the change of speed during the reset are no reason to do it again
\* (device_detect.rs:42-46, trait_impl.rs:39-45).
ResetOnce ==
    [][stage = "end" /\ stage' = "enumerate" /\ attempt = 0 => lastReset < session]_vars

\* The PHY's detector is off while the port is reset, so that it does not disturb
\* the chirp (controller.rs:301-310), unless the reset is a retry.
ChirpUndisturbed == port.pr /\ attempt = 0 => ~detector

\* When devices stop coming and going, the stream ends up saying what the port
\* says, unless the last device came unheard.
Reported == <>[](unheard \/ (status # Absent <=> port.ccs))
=============================================================================
