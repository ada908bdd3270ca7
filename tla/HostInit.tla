------------------------------ MODULE HostInit ------------------------------
(***************************************************************************)
(* ImxrtHostController::init, one step per register access, while the      *)
(* controller takes its time to reset and devices come and go              *)
(* (src/host/controller.rs).  The PHY is up before it.                     *)
(***************************************************************************)
EXTENDS Naturals

VARIABLES
    at,         \* the next step of init
    read,       \* what init has read from a register
    reg,        \* the registers of the core
    chained     \* the sentinel QH has been linked to itself

vars == <<at, read, reg, chained>>

Steps == {"reset", "spin", "mode", "sentinel", "async", "frames", "mask", "status",
          "acknowledge", "run", "port", "power", "unmask", "done"}

\* Whether the bits RST, RS and PSE of USBCMD are set, USBMODE says host, ASYNCLISTADDR
\* has the sentinel and PERIODICLISTBASE the frame list, USBSTS.PCI is set, USBINTR is
\* not zero, and CCS, CSC and PP of PORTSC1 are set.
Fields == {"rst", "rs", "pse", "host", "async", "frames", "pci", "intr", "ccs", "csc", "pp"}

TypeOK ==
    /\ at \in Steps
    /\ read \in [{"pci", "csc"} -> BOOLEAN]
    /\ reg \in [Fields -> BOOLEAN]
    /\ chained \in BOOLEAN

\* A controller at rest, whatever an earlier program left in its other registers.
Init ==
    /\ at = "reset"
    /\ read = [f \in {"pci", "csc"} |-> FALSE]
    /\ reg \in [Fields -> BOOLEAN]
    /\ \A f \in {"rst", "rs", "pse", "async", "frames"} : ~reg[f]
    /\ chained = FALSE

-----------------------------------------------------------------------------
(* init *)

Step(from, to) == at = from /\ at' = to
Set(fields) == reg' = [f \in Fields |-> f \in fields \/ reg[f]]

ResetController == Step("reset", "spin") /\ Set({"rst"}) /\ UNCHANGED <<read, chained>>

\* The controller clears RST when it has been reset.
Spin == Step("spin", "mode") /\ ~reg["rst"] /\ UNCHANGED <<read, reg, chained>>

SetHostMode == Step("mode", "sentinel") /\ Set({"host"}) /\ UNCHANGED <<read, chained>>

InitSentinel == Step("sentinel", "async") /\ chained' = TRUE /\ UNCHANGED <<read, reg>>

SetAsyncList == Step("async", "frames") /\ Set({"async"}) /\ UNCHANGED <<read, chained>>

SetFrameList == Step("frames", "mask") /\ Set({"frames"}) /\ UNCHANGED <<read, chained>>

Mask ==
    /\ Step("mask", "status")
    /\ reg' = [reg EXCEPT !["intr"] = FALSE]
    /\ UNCHANGED <<read, chained>>

ReadStatus ==
    /\ Step("status", "acknowledge")
    /\ read' = [read EXCEPT !["pci"] = reg["pci"]]
    /\ UNCHANGED <<reg, chained>>

\* Ones clear.
AckStatus ==
    /\ Step("acknowledge", "run")
    /\ reg' = [reg EXCEPT !["pci"] = @ /\ ~read["pci"]]
    /\ UNCHANGED <<read, chained>>

RunController == Step("run", "port") /\ Set({"rs", "pse"}) /\ UNCHANGED <<read, chained>>

\* Mutant: the port is read as it is.
ReadPortRaw ==
    /\ Step("port", "power")
    /\ read' = [read EXCEPT !["csc"] = reg["csc"]]
    /\ UNCHANGED <<reg, chained>>

\* portsc1_read_safe takes out what a write of ones would clear.
ReadPort ==
    /\ Step("port", "power")
    /\ read' = [read EXCEPT !["csc"] = FALSE]
    /\ UNCHANGED <<reg, chained>>

PowerPort ==
    /\ Step("power", "unmask")
    /\ reg' = [reg EXCEPT !["pp"] = TRUE, !["csc"] = @ /\ ~read["csc"]]
    /\ UNCHANGED <<read, chained>>

Unmask == Step("unmask", "done") /\ Set({"intr"}) /\ UNCHANGED <<read, chained>>

-----------------------------------------------------------------------------
(* The hardware *)

\* The reset takes every register of the core back to its default; a device that is
\* attached is detected anew.
HwReset ==
    /\ reg["rst"]
    /\ reg' = [f \in Fields |-> f \in {"ccs", "csc", "pci"} /\ reg["ccs"]]
    /\ UNCHANGED <<at, read, chained>>

HwConnect ==
    /\ at # "done"
    /\ reg' = [reg EXCEPT !["ccs"] = ~@, !["csc"] = TRUE, !["pci"] = @ \/ ~reg["csc"]]
    /\ UNCHANGED <<at, read, chained>>

\* From here the handler and the device-detect stream go on.
Done == at = "done" /\ UNCHANGED vars

Next ==
    \/ ResetController \/ Spin \/ SetHostMode \/ InitSentinel \/ SetAsyncList \/ SetFrameList
    \/ Mask \/ ReadStatus \/ AckStatus \/ RunController \/ ReadPort \/ PowerPort \/ Unmask
    \/ HwReset \/ HwConnect \/ Done

Spec == Init /\ [][Next]_vars

-----------------------------------------------------------------------------
(* Properties *)

\* Once the reset has been waited for, the controller runs in host mode only and on this
\* driver's lists, which it can walk by then.  When init is over it does run, the port
\* has power, interrupts are let through, and a device that was attached meanwhile has
\* its change latched for the stream, whatever was acknowledged on the way
\* (controller.rs:196-299, 417-419).
StartsUp ==
    /\ at \notin {"reset", "spin"} /\ reg["rs"] =>
          reg["host"] /\ reg["async"] /\ reg["frames"] /\ chained
    /\ at = "done" =>
          /\ reg["rs"] /\ reg["pse"] /\ reg["pp"] /\ reg["intr"]
          /\ reg["ccs"] => reg["csc"]
=============================================================================
