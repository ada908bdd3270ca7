-------------------------- MODULE ComponentsProofs --------------------------
(***************************************************************************)
(* What holds of the pools and of the root port for every value of their   *)
(* constants holds of them beside the other components; and what holds of  *)
(* a timer, of the start of the controller, of the MIDI driver and of all. *)
(***************************************************************************)
EXTENDS MCComponents, UsbPoolsProofs, EhciWordsProofs, Sequences, FiniteSetTheorems,
        WellFoundedInduction, TLAPS

-----------------------------------------------------------------------------
(* The timers *)

\* What the constants are.
TimerConstants == MaxCount \in Nat \ {0} /\ Delays \subseteq Nat

\* The load register holds the delay as documented, less one.
LoadWanted == \A g \in Instances : load[g] + 1 = wanted[g]

TimerInv == Timer!TypeOK /\ LoadWanted /\ Timer!OnTime

\* A delay fits the counter and is none of zero microseconds.
LEMMA ClampFits ==
    ASSUME TimerConstants, NEW us \in Delays
    PROVE  Timer!Clamp(us) \in 1 .. MaxCount /\ Timer!CountOf(us) \in 0 .. MaxCount - 1
                /\ Timer!CountOf(us) + 1 = Timer!Clamp(us)
BY DEF TimerConstants, Timer!Clamp, Timer!CountOf

LEMMA TimerInit ==
    ASSUME TimerConstants, Timer!Init
    PROVE  TimerInv
BY DEF TimerConstants, Timer!Init, TimerInv, Timer!TypeOK, LoadWanted, Timer!OnTime

LEMMA TimerStep ==
    ASSUME TimerConstants, TimerInv, [Timer!Next]_(Timer!vars)
    PROVE  TimerInv'
<1> USE DEF TimerInv, Timer!TypeOK, LoadWanted, Timer!OnTime, TimerConstants, Timer!ctrlVars
<1>1. ASSUME NEW g \in Instances, NEW us \in Delays, Timer!SetLoad(g, us) PROVE TimerInv'
  BY <1>1, ClampFits DEF Timer!SetLoad
<1>2. ASSUME NEW g \in Instances, NEW m \in {"oneShot", "repeat"}, Timer!SetMode(g, m) PROVE TimerInv'
  BY <1>2 DEF Timer!SetMode
<1>3. ASSUME NEW g \in Instances, Timer!Run(g) \/ Timer!Stop(g) PROVE TimerInv'
  BY <1>3 DEF Timer!Run, Timer!Stop
<1>4. ASSUME NEW g \in Instances, Timer!Reset(g) PROVE TimerInv'
  BY <1>4 DEF Timer!Reset, Timer!Loaded
<1>5. ASSUME NEW g \in Instances, Timer!ClearElapsed(g) PROVE TimerInv'
  BY <1>5 DEF Timer!ClearElapsed
<1>6. ASSUME NEW g \in Instances, Timer!Count(g) PROVE TimerInv'
  BY <1>6 DEF Timer!Count
<1>7. ASSUME NEW g \in Instances, Timer!Elapse(g) PROVE TimerInv'
  <2>1. CASE mode[g] = "repeat"
    <3>1. /\ ~over[g]
          /\ count' = [count EXCEPT ![g] = load[g]] /\ wait' = [wait EXCEPT ![g] = wanted[g]]
          /\ age' = [age EXCEPT ![g] = 0]
          /\ UNCHANGED <<load, mode, running, wanted, over>>
      BY <1>7, <2>1 DEF Timer!Elapse, Timer!Loaded
    <3>2. Timer!TypeOK'
      <4>1. flag' = [flag EXCEPT ![g] = TRUE]
        BY <1>7 DEF Timer!Elapse
      <4>2. count' \in [Instances -> 0 .. MaxCount - 1] /\ wait' \in [Instances -> 1 .. MaxCount]
        BY <3>1
      <4>3. 0 \in 0 .. MaxCount
        OBVIOUS
      <4>4. age' \in [Instances -> 0 .. MaxCount]
        BY <3>1, <4>3
      <4>5. flag' \in [Instances -> BOOLEAN]
        BY <4>1
      <4> QED BY <3>1, <4>2, <4>4, <4>5
    <3>3. ASSUME NEW h \in Instances
          PROVE  age'[h] + (IF over'[h] THEN 0 ELSE count'[h] + 1) = wait'[h]
      <4>1. CASE h = g
        BY <3>1, <4>1
      <4>2. CASE h # g
        BY <3>1, <4>2
      <4> QED BY <4>1, <4>2
    <3> QED BY <3>1, <3>2, <3>3
  <2>2. CASE mode[g] # "repeat"
    <3>1. /\ ~over[g] /\ count[g] = 0 /\ age[g] + 1 = wait[g]
          /\ over' = [over EXCEPT ![g] = TRUE] /\ age' = [age EXCEPT ![g] = age[g] + 1]
          /\ UNCHANGED <<load, mode, running, wanted, count, wait>>
      BY <1>7, <2>2 DEF Timer!Elapse
    <3>2. Timer!TypeOK'
      BY <1>7, <3>1 DEF Timer!Elapse
    <3>3. ASSUME NEW h \in Instances
          PROVE  age'[h] + (IF over'[h] THEN 0 ELSE count'[h] + 1) = wait'[h]
      <4>1. CASE h = g
        BY <3>1, <4>1
      <4>2. CASE h # g
        BY <3>1, <4>2
      <4> QED BY <4>1, <4>2
    <3> QED BY <3>1, <3>2, <3>3
  <2> QED BY <2>1, <2>2
<1>8. CASE UNCHANGED Timer!vars
  BY <1>8 DEF Timer!vars
<1> QED BY <1>1, <1>2, <1>3, <1>4, <1>5, <1>6, <1>7, <1>8 DEF Timer!Next

LEMMA TimerAlways ==
    ASSUME TimerConstants
    PROVE  EachSpec => []TimerInv
<1>1. EachInit => TimerInv
  BY TimerInit DEF EachInit
<1>2. TimerInv /\ [EachNext \/ StartNext]_allVars => TimerInv'
  <2>1. ASSUME [EachNext \/ StartNext]_allVars
        PROVE  UNCHANGED timerVars \/ Timer!Next
    BY <2>1 DEF EachNext, StartNext, allVars
  <2> QED BY <2>1, TimerStep DEF timerVars, Timer!vars, Timer!ctrlVars
<1>3. EachSpec => EachInit /\ [][EachNext \/ StartNext]_allVars
  BY PTL DEF EachSpec
<1> QED BY <1>1, <1>2, <1>3, PTL

\* A timer elapses after the delay asked for (gpt.rs:157-164), for every width of the
\* counter and any sequence of calls, whatever the other components do.
THEOREM ElapsesOnTime ==
    ASSUME TimerConstants
    PROVE  EachSpec => []OnTime
<1>1. TimerInv => OnTime
  BY DEF TimerInv, OnTime
<1> QED BY <1>1, TimerAlways, PTL

-----------------------------------------------------------------------------
Ports == INSTANCE DeviceDetectProofs WITH stage <- task

\* The root port and its application move on their own.
LEMMA SamePort ==
    ASSUME RootPort!Next
    PROVE  Ports!Next
<1>1. /\ RootPort!Attach => Ports!Attach
      /\ RootPort!Detach => Ports!Detach
      /\ RootPort!Chirp => Ports!Chirp
  BY DEF
    RootPort!Attach, Ports!Attach, RootPort!Detach, Ports!Detach, RootPort!Chirp,
    Ports!Chirp, RootPort!Change, Ports!Change, RootPort!FullSpeed, Ports!FullSpeed,
    RootPort!LowSpeed, Ports!LowSpeed, RootPort!HighSpeed, Ports!HighSpeed,
    RootPort!NotConnected, Ports!NotConnected, RootPort!Absent, Ports!Absent
<1>2. /\ RootPort!PollRead => Ports!PollRead
      /\ RootPort!PollClear => Ports!PollClear
      /\ RootPort!PollReport => Ports!PollReport
      /\ RootPort!PollPending => Ports!PollPending
  BY DEF
    RootPort!PollRead, Ports!PollRead, RootPort!PollClear, Ports!PollClear,
    RootPort!PollReport, Ports!PollReport, RootPort!PollPending, Ports!PollPending,
    RootPort!Written, Ports!Written, RootPort!Safe, Ports!Safe, RootPort!Event,
    Ports!Event, RootPort!PortEvent, Ports!PortEvent, RootPort!StatusFromPortsc,
    Ports!StatusFromPortsc, RootPort!Now, Ports!Now, RootPort!DetectorAfter,
    Ports!DetectorAfter, RootPort!LowSpeed, Ports!LowSpeed, RootPort!HighSpeed,
    Ports!HighSpeed, RootPort!Absent, Ports!Absent
<1>3. /\ RootPort!ResetRead => Ports!ResetRead
      /\ RootPort!ResetBegin => Ports!ResetBegin
      /\ RootPort!ResetEnd => Ports!ResetEnd
  BY DEF
    RootPort!ResetRead, Ports!ResetRead, RootPort!ResetBegin, Ports!ResetBegin,
    RootPort!ResetEnd, Ports!ResetEnd, RootPort!Written, Ports!Written, RootPort!Safe,
    Ports!Safe
<1>4. /\ RootPort!Enumerated => Ports!Enumerated
      /\ RootPort!Retry => Ports!Retry
      /\ RootPort!GiveUp => Ports!GiveUp
      /\ RootPort!UseEnds => Ports!UseEnds
  BY DEF
    RootPort!Enumerated, Ports!Enumerated, RootPort!Retry, Ports!Retry, RootPort!GiveUp,
    Ports!GiveUp, RootPort!UseEnds, Ports!UseEnds, RootPort!Known, Ports!Known,
    RootPort!Absent, Ports!Absent
<1> QED BY <1>1, <1>2, <1>3, <1>4
   DEF RootPort!Next, Ports!Next, RootPort!Hardware, Ports!Hardware, RootPort!Driver,
       Ports!Driver, RootPort!Application, Ports!Application

LEMMA PortAlone == EachSpec => Ports!Spec
<1>1. EachInit => Ports!Init
  BY DEF EachInit, RootPort!Init, Ports!Init, RootPort!NotConnected, Ports!NotConnected,
     RootPort!Absent, Ports!Absent
<1>2. ASSUME [EachNext \/ StartNext]_allVars
      PROVE  [Ports!Next]_(Ports!vars)
  <2>1. UNCHANGED portVars \/ RootPort!Next
    BY <1>2 DEF EachNext, StartNext, allVars
  <2> QED BY <2>1, SamePort DEF portVars, Ports!vars
<1>3. EachSpec => EachInit /\ [][EachNext \/ StartNext]_allVars
  BY PTL DEF EachSpec
<1> QED BY <1>1, <1>2, <1>3, PTL DEF Ports!Spec

\* A device that left and came back never passes for the one that was reset
\* (device_detect.rs:29-40, trait_impl.rs:39-45), for any number of attachments.
THEOREM SessionKnownHolds ==
    ASSUME Ports!ConstantsOK
    PROVE  EachSpec => []SessionKnown
<1>1. Ports!SessionKnown => SessionKnown
  BY DEF Ports!SessionKnown, SessionKnown, RootPort!SessionKnown, Ports!Absent, RootPort!Absent
<1> QED BY <1>1, PortAlone, Ports!SessionKnownHolds, PTL

\* The detector is off during a reset that is no retry (controller.rs:301-310), whatever
\* attached, left or changed speed before.
THEOREM ChirpUndisturbedHolds ==
    ASSUME Ports!ConstantsOK
    PROVE  EachSpec => []ChirpUndisturbed
<1>1. Ports!ChirpUndisturbed => ChirpUndisturbed
  BY DEF Ports!ChirpUndisturbed, ChirpUndisturbed, RootPort!ChirpUndisturbed
<1> QED BY <1>1, PortAlone, Ports!ChirpUndisturbedHolds, PTL

\* But for retries, a session is reset once (device_detect.rs:42-46, trait_impl.rs:39-45).
THEOREM ResetOnceHolds ==
    ASSUME Ports!ConstantsOK
    PROVE  EachSpec => ResetOnce
<1>1. Ports!ResetOnce => ResetOnce
  BY DEF Ports!ResetOnce, ResetOnce, RootPort!ResetOnce, Ports!vars, RootPort!vars
<1> QED BY <1>1, PortAlone, Ports!ResetOnceHolds, PTL

-----------------------------------------------------------------------------
(* The start of the controller *)

\* The steps of init from which on what one of them has done must last.
Reset == Boot!Steps \ {"reset", "spin"}
Hosted == Reset \ {"mode"}
Chained == Hosted \ {"sentinel"}
Listed == Chained \ {"async"}
Framed == Listed \ {"frames"}
Started == {"port", "power", "unmask", "done"}
Powered == {"unmask", "done"}

\* Nothing but a reset takes back what init has set up, and there is none after the first.
\* The change of a device attached since then stays latched.
BootInv ==
    /\ Boot!TypeOK /\ ~read["csc"]
    /\ reg["rst"] => at = "spin"
    /\ at \in Hosted => reg["host"]
    /\ at \in Chained => chained
    /\ at \in Listed => reg["async"]
    /\ at \in Framed => reg["frames"]
    /\ reg["rs"] <=> at \in Started
    /\ reg["pse"] <=> at \in Started
    /\ at \in Powered => reg["pp"]
    /\ at = "done" => reg["intr"]
    /\ at \in Reset \/ (at = "spin" /\ ~reg["rst"]) => (reg["ccs"] => reg["csc"])

LEMMA BootInit ==
    ASSUME Boot!Init
    PROVE  BootInv
BY DEF Boot!Init, BootInv, Boot!TypeOK, Boot!Steps, Boot!Fields, Reset, Hosted, Chained, Listed,
       Framed, Started, Powered

LEMMA BootStep ==
    ASSUME BootInv, [Boot!Next]_(Boot!vars)
    PROVE  BootInv'
<1> USE DEF BootInv, Boot!TypeOK, Boot!Steps, Boot!Fields, Reset, Hosted, Chained, Listed, Framed,
            Started, Powered, Boot!Step, Boot!Set
<1>1. CASE Boot!ResetController
  BY <1>1 DEF Boot!ResetController
<1>2. CASE Boot!Spin
  BY <1>2 DEF Boot!Spin
<1>3. CASE Boot!SetHostMode
  BY <1>3 DEF Boot!SetHostMode
<1>4. CASE Boot!InitSentinel
  BY <1>4 DEF Boot!InitSentinel
<1>5. CASE Boot!SetAsyncList
  BY <1>5 DEF Boot!SetAsyncList
<1>6. CASE Boot!SetFrameList
  BY <1>6 DEF Boot!SetFrameList
<1>7. CASE Boot!Mask
  BY <1>7 DEF Boot!Mask
<1>8. CASE Boot!ReadStatus
  BY <1>8 DEF Boot!ReadStatus
<1>9. CASE Boot!AckStatus
  BY <1>9 DEF Boot!AckStatus
<1>10. CASE Boot!RunController
  BY <1>10 DEF Boot!RunController
<1>11. CASE Boot!ReadPort
  BY <1>11 DEF Boot!ReadPort
<1>12. CASE Boot!PowerPort
  BY <1>12 DEF Boot!PowerPort
<1>13. CASE Boot!Unmask
  BY <1>13 DEF Boot!Unmask
<1>14. CASE Boot!HwReset
  BY <1>14 DEF Boot!HwReset
<1>15. CASE Boot!HwConnect
  BY <1>15 DEF Boot!HwConnect
<1>16. CASE Boot!Done \/ UNCHANGED Boot!vars
  BY <1>16 DEF Boot!Done, Boot!vars
<1> QED BY <1>1, <1>2, <1>3, <1>4, <1>5, <1>6, <1>7, <1>8, <1>9, <1>10, <1>11, <1>12, <1>13, <1>14,
           <1>15, <1>16 DEF Boot!Next

LEMMA BootAlways == EachSpec => []BootInv
<1>1. EachInit => BootInv
  BY BootInit DEF EachInit
<1>2. BootInv /\ [EachNext \/ StartNext]_allVars => BootInv'
  <2>1. ASSUME [EachNext \/ StartNext]_allVars
        PROVE  UNCHANGED initVars \/ Boot!Next
    BY <2>1 DEF EachNext, StartNext, allVars
  <2> QED BY <2>1, BootStep DEF initVars, Boot!vars
<1>3. EachSpec => EachInit /\ [][EachNext \/ StartNext]_allVars
  BY PTL DEF EachSpec
<1> QED BY <1>1, <1>2, <1>3, PTL

\* The controller runs in host mode and on this driver's lists only, and when init is over
\* it runs, with the port powered, interrupts let through and no device missed
\* (controller.rs:196-299, 417-419), whatever the registers held before, however long the
\* reset takes and however often devices come and go meanwhile.
THEOREM StartsUpHolds == EachSpec => []StartsUp
<1>1. BootInv => StartsUp
  BY DEF BootInv, StartsUp, Boot!StartsUp, Boot!TypeOK, Boot!Steps, Reset, Hosted, Chained, Listed,
         Framed, Started, Powered
<1> QED BY <1>1, BootAlways, PTL

-----------------------------------------------------------------------------
(* The pools *)

SupplyInv == part # "few" => IInv /\ Running

\* A pool of the size asked for never runs out (transfer.rs:565-570), for every number of
\* clients, pipes and qTDs, while the other components run too.
THEOREM SupplyHoldsAlways ==
    ASSUME PoolLargeEnough
    PROVE  EachSpec => []SupplyHolds
<1>1. EachInit => SupplyInv
  BY InitInv DEF EachInit, SupplyInv, Init, Running
<1>2. SupplyInv /\ [EachNext \/ StartNext]_allVars => SupplyInv'
  <2>1. SUFFICES ASSUME SupplyInv, [EachNext \/ StartNext]_allVars, part' # "few"
                 PROVE  IInv' /\ Running'
    BY DEF SupplyInv
  <2>2. part' = part /\ [Next]_vars
    BY <2>1 DEF EachNext, StartNext, allVars
  <2>3. IInv /\ Running /\ ~Shortage
    BY <2>1, <2>2, NoShortage DEF SupplyInv
  <2> QED BY <2>2, <2>3, NextInv, RunningStep
<1>3. EachSpec => EachInit /\ [][EachNext \/ StartNext]_allVars
  BY PTL DEF EachSpec
<1>4. SupplyInv => SupplyHolds
  BY NoShortage DEF SupplyInv, SupplyHolds, NeverExhausted, Running, Shortage
<1> QED BY <1>1, <1>2, <1>3, <1>4, PTL

\* The pool that is too small, with the theorems of UsbPools.
Fewer == INSTANCE UsbPoolsProofs WITH NumQtd <- FewQtds

\* Two instances of one module: equal operators, definition by definition.
LEMMA SameFew ==
    ASSUME Small!Next
    PROVE  Fewer!Next
<1>1. /\ Fewer!NoPipe = Small!NoPipe /\ Fewer!NoKind = Small!NoKind /\ Fewer!Kinds = Small!Kinds
      /\ Fewer!QtdIdx = Small!QtdIdx /\ Fewer!FreeQtds = Small!FreeQtds
  BY DEF Fewer!NoPipe, Small!NoPipe, Fewer!NoKind, Small!NoKind, Fewer!Kinds, Small!Kinds,
     Fewer!QtdIdx, Small!QtdIdx, Fewer!FreeQtds, Small!FreeQtds
<1>2. \A k : Fewer!PipesFor(k) = Small!PipesFor(k) /\ Fewer!QtdNeed(k) = Small!QtdNeed(k)
  BY DEF Fewer!PipesFor, Small!PipesFor, Fewer!BulkPipes, Small!BulkPipes, Fewer!ControlPipe,
     Small!ControlPipe, Fewer!QtdNeed, Small!QtdNeed
<1>3. \A k : Fewer!FreePipes(k) = Small!FreePipes(k)
  BY <1>2 DEF Fewer!FreePipes, Small!FreePipes
<1>4. \A c : Fewer!SlotSet(c) = Small!SlotSet(c)
  BY Zenon DEF Fewer!SlotSet, Small!SlotSet
<1>5. \A c : Fewer!TooFewQtds(c) <=> Small!TooFewQtds(c)
  BY <1>1, <1>2, <1>3, Zenon DEF Fewer!TooFewQtds, Small!TooFewQtds, Fewer!Cardinality,
     Small!Cardinality
<1>6. \A t, n : Fewer!FirstFit(t, n) <=> Small!FirstFit(t, n)
  BY <1>1 DEF Fewer!FirstFit, Small!FirstFit
<1>7. ASSUME NEW c \in Clients
      PROVE  /\ \A k \in Small!Kinds : Small!Call(c, k) => Fewer!Call(c, k)
             /\ Small!BeginFails(c) => Fewer!BeginFails(c)
             /\ Small!Panic(c) => Fewer!Panic(c)
             /\ Small!GiveUp(c) => Fewer!GiveUp(c)
             /\ Small!Release(c) => Fewer!Release(c)
  BY <1>1, <1>4, <1>5 DEF Fewer!Call, Small!Call, Fewer!BeginFails, Small!BeginFails, Fewer!Panic,
     Small!Panic, Fewer!GiveUp, Small!GiveUp, Fewer!Release, Small!Release
<1>8. ASSUME NEW c \in Clients, Small!Begin(c)
      PROVE  Fewer!Begin(c)
  BY <1>1, <1>2, <1>3, <1>6, <1>8, Zenon DEF Fewer!Begin, Small!Begin
<1> QED BY <1>1, <1>7, <1>8 DEF Fewer!Next, Small!Next, Fewer!Running, Small!Running

PoolsInv == IF part = "few" THEN Fewer!IInv ELSE IInv

\* What a small pool hands out, a larger one might.
LEMMA FewerInside ==
    ASSUME FewQtds \in Nat, FewQtds <= NumQtd, Fewer!IInv
    PROVE  TypeOK /\ Exclusive
<1>1. Fewer!QtdIdx \subseteq QtdIdx
  BY NumQtdAssumption DEF Fewer!QtdIdx, QtdIdx
<1>2. /\ Fewer!NoPipe = NoPipe /\ Fewer!NoKind = NoKind /\ Fewer!Kinds = Kinds /\ Fewer!Pipes = Pipes
  BY DEF Fewer!NoPipe, NoPipe, Fewer!NoKind, NoKind, Fewer!Kinds, Kinds, Fewer!Pipes, Pipes,
     Fewer!ControlPipe, ControlPipe, Fewer!BulkPipes, BulkPipes
<1>3. \A c \in Clients : Fewer!Held(c) = Held(c)
  <2>1. \A k : Fewer!QtdNeed(k) = QtdNeed(k)
    BY DEF Fewer!QtdNeed, QtdNeed
  <2> QED BY <2>1 DEF Fewer!Held, Held
<1>4. TypeOK
  <2>1. /\ slots \in [Clients -> UNION {[1 .. n -> Fewer!QtdIdx] : n \in 0 .. 3}]
        /\ qtdAllocated \subseteq Fewer!QtdIdx
    BY DEF Fewer!IInv, Fewer!TypeOK
  <2>2. slots \in [Clients -> UNION {[1 .. n -> QtdIdx] : n \in 0 .. 3}]
    <3>1. ASSUME NEW n \in 0 .. 3
          PROVE  [1 .. n -> Fewer!QtdIdx] \subseteq [1 .. n -> QtdIdx]
      BY <1>1
    <3>2. UNION {[1 .. n -> Fewer!QtdIdx] : n \in 0 .. 3}
              \subseteq UNION {[1 .. n -> QtdIdx] : n \in 0 .. 3}
      BY <3>1
    <3> QED BY <2>1, <3>2
  <2>3. /\ phase \in [Clients -> {"idle", "waiting", "holding", "panicked"}]
        /\ kind \in [Clients -> Kinds \cup {NoKind}]
        /\ \A c \in Clients : phase[c] = "idle" <=> kind[c] = NoKind
        /\ pipe \in [Clients -> Pipes \cup {NoPipe}]
        /\ \A c \in Clients : DOMAIN slots[c] = 1 .. Held(c)
    BY <1>2, <1>3, Zenon DEF Fewer!IInv, Fewer!TypeOK
  <2> QED BY <1>1, <2>1, <2>2, <2>3, Zenon DEF TypeOK
<1>5. Exclusive
  <2>1. \A c : Fewer!SlotSet(c) = SlotSet(c)
    BY Zenon DEF Fewer!SlotSet, SlotSet
  <2> QED BY <1>2, <2>1, Zenon DEF Fewer!IInv, Fewer!Exclusive, Exclusive
<1> QED BY <1>4, <1>5

\* Guards are exclusive and the bitmap says who holds what (the SAFETY comment of
\* QtdSlot::drop) with a pool of any size, also one that fails allocations half way.
THEOREM PoolsExclusive ==
    ASSUME FewQtds \in Nat, FewQtds <= NumQtd
    PROVE  EachSpec => [](TypeOK /\ Exclusive)
<1>1. Fewer!NumQhAssumption /\ Fewer!NumQtdAssumption
  BY NumQhAssumption DEF Fewer!NumQhAssumption, Fewer!NumQtdAssumption
<1>2. EachInit => PoolsInv
  <2>1. Init => Fewer!Init
    BY DEF Init, Fewer!Init, NoKind, Fewer!NoKind, NoPipe, Fewer!NoPipe
  <2> QED BY <1>1, <2>1, InitInv, Fewer!InitInv DEF EachInit, PoolsInv
<1>3. PoolsInv /\ [EachNext \/ StartNext]_allVars => PoolsInv'
  <2>1. SUFFICES ASSUME PoolsInv, [EachNext \/ StartNext]_allVars
                 PROVE  PoolsInv'
    OBVIOUS
  <2>2. /\ part' = part
        /\ IF part = "few" THEN Small!Next \/ UNCHANGED vars ELSE [Next]_vars
    BY <2>1 DEF EachNext, StartNext, allVars
  <2>3. CASE part = "few"
    <3>1. [Fewer!Next]_(Fewer!vars)
      BY <2>2, <2>3, SameFew DEF vars, Fewer!vars
    <3>2. Fewer!IInv'
      BY <1>1, <2>1, <2>3, <3>1, Fewer!NextInv DEF PoolsInv
    <3> QED BY <2>2, <2>3, <3>2 DEF PoolsInv
  <2>4. CASE part # "few"
    BY <2>1, <2>2, <2>4, NextInv DEF PoolsInv
  <2> QED BY <2>3, <2>4
<1>4. EachSpec => EachInit /\ [][EachNext \/ StartNext]_allVars
  BY PTL DEF EachSpec
<1>5. PoolsInv => TypeOK /\ Exclusive
  BY FewerInside DEF PoolsInv, IInv
<1> QED BY <1>2, <1>3, <1>4, <1>5, PTL

-----------------------------------------------------------------------------
(* The MIDI driver: writes *)

\* s has the first elements of t.
Begins(s, t) == Len(s) <= Len(t) /\ \A i \in 1 .. Len(s) : s[i] = t[i]

LEMMA BeginsPrefix ==
    ASSUME NEW S, NEW s \in Seq(S), NEW t \in Seq(S), Begins(s, t)
    PROVE  Driver!IsPrefix(s, t) /\ (Len(s) = Len(t) => s = t)
<1>1. Len(s) \in Nat /\ Len(t) \in Nat
  OBVIOUS
<1>2. SubSeq(s, 1, Len(s)) = [i \in 1 .. Len(s) |-> s[i]]
  BY <1>1
<1>3. SubSeq(t, 1, Len(s)) = [i \in 1 .. Len(s) |-> t[i]]
  BY <1>1
<1>4. SubSeq(s, 1, Len(s)) = SubSeq(t, 1, Len(s))
  BY <1>2, <1>3 DEF Begins
<1>5. ASSUME Len(s) = Len(t) PROVE s = t
  BY <1>5 DEF Begins
<1> QED BY <1>4, <1>5 DEF Begins, Driver!IsPrefix

\* The next elements of t behind those.
LEMMA BeginsLonger ==
    ASSUME NEW S, NEW s \in Seq(S), NEW t \in Seq(S), Begins(s, t), NEW n \in Nat,
           Len(s) + n <= Len(t)
    PROVE  LET u == s \o SubSeq(t, Len(s) + 1, Len(s) + n)
           IN  u \in Seq(S) /\ Len(u) = Len(s) + n /\ Begins(u, t)
<1>1. PICK k : k = Len(s) /\ k \in Nat /\ Len(t) \in Nat /\ k + n <= Len(t)
  OBVIOUS
<1>2. PICK v : v = SubSeq(t, k + 1, k + n)
  OBVIOUS
<1>3. v \in Seq(S) /\ Len(v) = n /\ \A i \in 1 .. n : v[i] = t[k + i]
  <2>1. \A i \in k + 1 .. k + n : t[i] \in S
    BY <1>1
  <2>2. v \in Seq(S) /\ Len(v) = n
    BY <1>1, <1>2, <2>1
  <2>3. ASSUME NEW i \in 1 .. n
        PROVE  v[i] = t[k + i]
    BY <1>1, <1>2
  <2> QED BY <2>2, <2>3
<1>4. s \o v \in Seq(S) /\ Len(s \o v) = k + n
  BY <1>1, <1>3
<1>5. ASSUME NEW i \in 1 .. k + n
      PROVE  (s \o v)[i] = t[i]
  <2>1. CASE i <= k
    <3>1. i \in 1 .. Len(s)
      BY <1>1, <2>1
    <3>2. (s \o v)[i] = s[i]
      BY <1>1, <1>3, <2>1
    <3> QED BY <3>1, <3>2 DEF Begins
  <2>2. CASE ~(i <= k)
    <3>1. i - k \in 1 .. n /\ k + (i - k) = i
      BY <1>1, <2>2
    <3>2. (s \o v)[i] = v[i - k]
      BY <1>1, <1>3, <2>2
    <3> QED BY <1>3, <3>1, <3>2
  <2> QED BY <2>1, <2>2
<1>6. Begins(s \o v, t)
  BY <1>1, <1>4, <1>5 DEF Begins
<1> QED BY <1>1, <1>2, <1>4, <1>6

\* What the constants are.
MidiConstants ==
    SendSizes \subseteq Nat /\ ReadSizes \subseteq Nat /\ Driver!None \notin EndpointNumbers

Calls == [stage : {"idle", "loop", "returned"}, packets : Seq(Events), size : Nat, sent : Nat,
          result : {"none", "ok", "error", "noSuchEndpoint", "bufferTooSmall"}]

\* The device has the packets counted as sent, and after a failed transfer perhaps its own.
WriteInv ==
    /\ writing \in Calls /\ wire \in Seq(Events)
    /\ Begins(wire, writing.packets) /\ writing.sent <= Len(wire)
    /\ writing.stage = "loop" => Len(wire) = writing.sent /\ writing.result = "none"
    /\ writing.result = "ok" => Len(wire) = Len(writing.packets)
    /\ writing.result \in {"noSuchEndpoint", "bufferTooSmall"} => Len(wire) = 0
    /\ writing.stage = "idle" => Len(wire) = 0

LEMMA WriteInit ==
    ASSUME Driver!Init
    PROVE  WriteInv
BY DEF Driver!Init, Driver!NotWriting, WriteInv, Calls, Begins

\* What the steps of the loop write into the call.
LEMMA SentWritten ==
    ASSUME NEW w \in Calls, NEW n \in Nat, NEW v, v = [w EXCEPT !.sent = @ + n]
    PROVE  /\ v \in Calls /\ v.packets = w.packets /\ v.sent = w.sent + n
           /\ v.stage = w.stage /\ v.result = w.result
BY DEF Calls

LEMMA ResultWritten ==
    ASSUME NEW w \in Calls, NEW r \in {"ok", "error"},
           NEW v, v = [w EXCEPT !.stage = "returned", !.result = r]
    PROVE  /\ v \in Calls /\ v.packets = w.packets /\ v.sent = w.sent
           /\ v.stage = "returned" /\ v.result = r
<1>1. v = [stage |-> "returned", packets |-> w.packets, size |-> w.size, sent |-> w.sent,
           result |-> r]
  BY DEF Calls
<1>2. w.packets \in Seq(Events) /\ w.size \in Nat /\ w.sent \in Nat
  BY DEF Calls
<1> QED BY <1>1, <1>2 DEF Calls

LEMMA CallStarted ==
    ASSUME NEW ps \in Seq(Events), NEW size \in Nat, NEW l \in {"loop", "returned"},
           NEW r \in {"none", "noSuchEndpoint", "bufferTooSmall"}, NEW v,
           v = [stage |-> l, packets |-> ps, size |-> size, sent |-> 0, result |-> r]
    PROVE  /\ v \in Calls /\ v.packets = ps /\ v.sent = 0 /\ v.stage = l /\ v.result = r
<1>1. /\ l \in {"idle", "loop", "returned"} /\ 0 \in Nat
      /\ r \in {"none", "ok", "error", "noSuchEndpoint", "bufferTooSmall"}
  OBVIOUS
<1>2. v \in Calls
  BY <1>1 DEF Calls
<1> QED BY <1>2

LEMMA ChunkTaken ==
    ASSUME MidiConstants, WriteInv, writing.stage = "loop", writing.sent < Len(writing.packets)
    PROVE  /\ Driver!Count(writing) \in Nat
           /\ wire \o Driver!Chunk(writing) \in Seq(Events)
           /\ Len(wire \o Driver!Chunk(writing)) = writing.sent + Driver!Count(writing)
           /\ Begins(wire \o Driver!Chunk(writing), writing.packets)
<1>1. PICK n : n = Driver!Count(writing)
  OBVIOUS
<1>2. /\ writing.size \in Nat /\ writing.sent \in Nat /\ Len(writing.packets) \in Nat
      /\ writing.packets \in Seq(Events) /\ wire \in Seq(Events) /\ Len(wire) = writing.sent
  BY DEF WriteInv, Calls
<1>3. writing.size \div 4 \in Nat
  BY <1>2
<1>4. n \in Nat /\ n <= Len(writing.packets) - writing.sent
  BY <1>1, <1>2, <1>3 DEF Driver!Count, Driver!Smaller, Driver!PacketSize
<1>5. Begins(wire, writing.packets) /\ Len(wire) + n <= Len(writing.packets)
  BY <1>2, <1>4 DEF WriteInv
<1>6. PICK u : u = wire \o SubSeq(writing.packets, Len(wire) + 1, Len(wire) + n)
  OBVIOUS
<1>7. u \in Seq(Events) /\ Len(u) = Len(wire) + n /\ Begins(u, writing.packets)
  BY <1>2, <1>4, <1>5, <1>6, BeginsLonger
<1>8. u = wire \o Driver!Chunk(writing)
  BY <1>1, <1>2, <1>6 DEF Driver!Chunk
<1> QED BY <1>1, <1>2, <1>4, <1>7, <1>8

LEMMA WriteStep ==
    ASSUME MidiConstants, WriteInv, [Driver!Next]_midiVars
    PROVE  WriteInv'
<1>1. CASE Driver!WriteCall
  <2>1. PICK size \in SendSizes, n \in 0 .. MaxPackets : \E packets \in [1 .. n -> Events] :
            writing' = [Driver!NotWriting EXCEPT
                !.packets = packets, !.size = size,
                !.stage = IF midi.bulkOut = Driver!None \/ Driver!TooSmall(size)
                          THEN "returned" ELSE "loop",
                !.result = IF midi.bulkOut = Driver!None THEN "noSuchEndpoint"
                           ELSE IF Driver!TooSmall(size) THEN "bufferTooSmall" ELSE "none"]
    BY <1>1 DEF Driver!WriteCall
  <2>2. PICK l, r :
            /\ l = IF midi.bulkOut = Driver!None \/ Driver!TooSmall(size)
                   THEN "returned" ELSE "loop"
            /\ r = IF midi.bulkOut = Driver!None THEN "noSuchEndpoint"
                   ELSE IF Driver!TooSmall(size) THEN "bufferTooSmall" ELSE "none"
    OBVIOUS
  <2>3. PICK packets \in [1 .. n -> Events] : writing' =
            [Driver!NotWriting EXCEPT !.packets = packets, !.size = size, !.stage = l, !.result = r]
    BY <2>1, <2>2
  <2>4. \/ l = "loop" /\ r = "none"
        \/ l = "returned" /\ r \in {"noSuchEndpoint", "bufferTooSmall"}
    BY <2>2
  <2>5. wire' = wire /\ writing.stage = "idle"
    BY <1>1 DEF Driver!WriteCall
  <2>6. /\ packets \in Seq(Events) /\ size \in Nat /\ l \in {"loop", "returned"}
        /\ r \in {"none", "noSuchEndpoint", "bufferTooSmall"}
    BY <2>4 DEF MidiConstants
  <2>7. /\ writing' \in Calls /\ writing'.packets = packets /\ writing'.sent = 0
        /\ writing'.stage = l /\ writing'.result = r
    <3>1. writing' = [stage |-> l, packets |-> packets, size |-> size, sent |-> 0, result |-> r]
      BY <2>3 DEF Driver!NotWriting
    <3> QED BY <2>6, <3>1, CallStarted
  <2>8. Len(wire) = 0 /\ wire \in Seq(Events)
    BY <2>5 DEF WriteInv
  <2>9. Begins(wire, packets)
    BY <2>6, <2>8 DEF Begins
  <2> QED BY <2>4, <2>5, <2>7, <2>8, <2>9 DEF WriteInv
<1>2. CASE Driver!WriteTransfer
  <2>1. /\ writing.stage = "loop" /\ writing.sent < Len(writing.packets)
        /\ wire' = wire \o Driver!Chunk(writing)
        /\ writing' = [writing EXCEPT !.sent = @ + Driver!Count(writing)]
    BY <1>2 DEF Driver!WriteTransfer
  <2>2. /\ Driver!Count(writing) \in Nat
        /\ wire' \in Seq(Events) /\ Len(wire') = writing.sent + Driver!Count(writing)
        /\ Begins(wire', writing.packets)
    BY <2>1, ChunkTaken
  <2>3. /\ writing' \in Calls /\ writing'.packets = writing.packets
        /\ writing'.sent = writing.sent + Driver!Count(writing)
        /\ writing'.stage = "loop" /\ writing'.result = "none"
    <3>1. PICK n : n = Driver!Count(writing) /\ n \in Nat
      BY <2>2
    <3>2. PICK w : w = writing /\ w \in Calls
      BY DEF WriteInv
    <3>3. writing' = [w EXCEPT !.sent = @ + n]
      BY <2>1, <3>1, <3>2
    <3>4. w.stage = "loop" /\ w.result = "none"
      BY <2>1, <3>2 DEF WriteInv
    <3> QED BY <3>1, <3>2, <3>3, <3>4, SentWritten
  <2>4. writing.sent \in Nat
    BY DEF WriteInv, Calls
  <2> QED BY <2>2, <2>3, <2>4 DEF WriteInv
<1>3. CASE Driver!WriteFails
  <2>1. /\ writing.stage = "loop" /\ writing.sent < Len(writing.packets)
        /\ wire' = wire \/ wire' = wire \o Driver!Chunk(writing)
        /\ writing' = [writing EXCEPT !.stage = "returned", !.result = "error"]
    BY <1>3 DEF Driver!WriteFails
  <2>2. /\ wire' \in Seq(Events) /\ Begins(wire', writing.packets)
        /\ writing.sent <= Len(wire')
    <3>1. CASE wire' = wire
      BY <3>1 DEF WriteInv, Begins
    <3>2. CASE wire' = wire \o Driver!Chunk(writing)
      <4>1. /\ Driver!Count(writing) \in Nat
            /\ wire' \in Seq(Events) /\ Len(wire') = writing.sent + Driver!Count(writing)
            /\ Begins(wire', writing.packets)
        BY <2>1, <3>2, ChunkTaken
      <4>2. writing.sent \in Nat
        BY DEF WriteInv, Calls
      <4> QED BY <4>1, <4>2
    <3> QED BY <2>1, <3>1, <3>2
  <2>3. /\ writing' \in Calls /\ writing'.packets = writing.packets
        /\ writing'.sent = writing.sent
        /\ writing'.stage = "returned" /\ writing'.result = "error"
    BY <2>1, ResultWritten DEF WriteInv
  <2> QED BY <2>2, <2>3 DEF WriteInv
<1>4. CASE Driver!WriteReturns
  <2>1. /\ writing.stage = "loop" /\ writing.sent >= Len(writing.packets) /\ wire' = wire
        /\ writing' = [writing EXCEPT !.stage = "returned", !.result = "ok"]
    BY <1>4 DEF Driver!WriteReturns
  <2>2. /\ writing' \in Calls /\ writing'.packets = writing.packets
        /\ writing'.sent = writing.sent
        /\ writing'.stage = "returned" /\ writing'.result = "ok"
    BY <2>1, ResultWritten DEF WriteInv
  <2>3. Len(wire) = Len(writing.packets)
    BY <2>1 DEF WriteInv, Calls, Begins
  <2> QED BY <2>1, <2>2, <2>3 DEF WriteInv
<1>5. CASE Driver!WriteOver
  <2>1. writing' = Driver!NotWriting /\ wire' = <<>>
    BY <1>5 DEF Driver!WriteOver
  <2> QED BY <2>1 DEF Driver!NotWriting, WriteInv, Calls, Begins
<1>6. CASE UNCHANGED <<writing, wire>>
  BY <1>6 DEF WriteInv, Begins
<1> QED BY <1>1, <1>2, <1>3, <1>4, <1>5, <1>6
        DEF midiVars, Driver!Next, Driver!Describe, Driver!New, Driver!Skip, Driver!ReadCall,
            Driver!ReadReady, Driver!ReadOver

LEMMA WriteAlways ==
    ASSUME MidiConstants
    PROVE  EachSpec => []WriteInv
<1>1. EachInit => WriteInv
  BY WriteInit DEF EachInit
<1>2. WriteInv /\ [EachNext \/ StartNext]_allVars => WriteInv'
  <2>1. ASSUME [EachNext \/ StartNext]_allVars
        PROVE  [Driver!Next]_midiVars
    BY <2>1 DEF EachNext, StartNext, allVars
  <2> QED BY <2>1, WriteStep
<1>3. EachSpec => EachInit /\ [][EachNext \/ StartNext]_allVars
  BY PTL DEF EachSpec
<1> QED BY <1>1, <1>2, <1>3, PTL

\* The device gets the packets of a write in order, each once, all of them when the call
\* succeeds and none of a call that is refused (midi.rs:299-306), for every buffer and
\* every number of packets, and wherever a transfer fails.
THEOREM WritesAllHolds ==
    ASSUME MidiConstants
    PROVE  EachSpec => []WritesAll
<1>1. WriteInv => WritesAll
  <2>1. SUFFICES ASSUME WriteInv
                 PROVE  WritesAll
    OBVIOUS
  <2>2. /\ wire \in Seq(Events) /\ writing.packets \in Seq(Events)
        /\ Begins(wire, writing.packets)
    BY <2>1 DEF WriteInv, Calls
  <2>3. /\ Driver!IsPrefix(wire, writing.packets)
        /\ Len(wire) = Len(writing.packets) => wire = writing.packets
    BY <2>2, BeginsPrefix
  <2>4. Len(wire) = 0 => wire = <<>>
    BY <2>2
  <2> QED BY <2>1, <2>3, <2>4 DEF WriteInv, WritesAll, Driver!WritesAll
<1> QED BY <1>1, WriteAlways, PTL

\* A call that goes on has a buffer for one packet at least, and counts no more than it has.
LoopInv ==
    writing.stage = "loop" => writing.size >= 4 /\ writing.sent <= Len(writing.packets)

\* A step of the loop that stays in it is a transfer of one packet at least.
Progress ==
    writing.stage = "loop" /\ writing'.stage = "loop" =>
        /\ writing'.packets = writing.packets /\ writing'.size = writing.size
        /\ writing.sent < writing'.sent /\ writing'.sent <= Len(writing.packets)

\* How many packets a transfer takes.
LEMMA CountTakes ==
    ASSUME NEW w \in Calls, w.sent < Len(w.packets), w.size >= 4
    PROVE  Driver!Count(w) \in 1 .. Len(w.packets) - w.sent
<1>1. PICK left : left = Len(w.packets) - w.sent
  OBVIOUS
<1>2. left \in Nat /\ left >= 1
  BY <1>1 DEF Calls
<1>3. w.size \div 4 \in Nat /\ w.size \div 4 >= 1
  BY DEF Calls
<1> QED BY <1>1, <1>2, <1>3 DEF Driver!Count, Driver!Smaller, Driver!PacketSize

LEMMA LoopStep ==
    ASSUME MidiConstants, WriteInv, LoopInv, [Driver!Next]_midiVars
    PROVE  LoopInv' /\ (writing' = writing \/ Progress)
<1>1. CASE Driver!WriteCall
  <2>1. PICK size \in SendSizes, n \in 0 .. MaxPackets : \E packets \in [1 .. n -> Events] :
            writing' = [Driver!NotWriting EXCEPT
                !.packets = packets, !.size = size,
                !.stage = IF midi.bulkOut = Driver!None \/ Driver!TooSmall(size)
                          THEN "returned" ELSE "loop",
                !.result = IF midi.bulkOut = Driver!None THEN "noSuchEndpoint"
                           ELSE IF Driver!TooSmall(size) THEN "bufferTooSmall" ELSE "none"]
    BY <1>1 DEF Driver!WriteCall
  <2>2. PICK l, r :
            /\ l = IF midi.bulkOut = Driver!None \/ Driver!TooSmall(size)
                   THEN "returned" ELSE "loop"
            /\ r = IF midi.bulkOut = Driver!None THEN "noSuchEndpoint"
                   ELSE IF Driver!TooSmall(size) THEN "bufferTooSmall" ELSE "none"
    OBVIOUS
  <2>3. PICK packets \in [1 .. n -> Events] : writing' =
            [Driver!NotWriting EXCEPT !.packets = packets, !.size = size, !.stage = l, !.result = r]
    BY <2>1, <2>2
  <2>4. writing' = [stage |-> l, packets |-> packets, size |-> size, sent |-> 0, result |-> r]
    BY <2>3 DEF Driver!NotWriting
  <2>5. /\ writing'.stage = l /\ writing'.size = size /\ writing'.sent = 0
        /\ writing'.packets = packets
    BY <2>4
  <2>6. size \in Nat /\ packets \in Seq(Events)
    BY DEF MidiConstants
  <2>7. l = "loop" => size >= 4
    BY <2>2, <2>6 DEF Driver!TooSmall, Driver!PacketSize
  <2>8. Len(packets) \in Nat
    BY <2>6
  <2>9. writing.stage = "idle"
    BY <1>1 DEF Driver!WriteCall
  <2> QED BY <2>5, <2>7, <2>8, <2>9 DEF LoopInv, Progress
<1>2. CASE Driver!WriteTransfer
  <2>1. PICK w, n : /\ w = writing /\ n = Driver!Count(w)
                    /\ w.stage = "loop" /\ w.sent < Len(w.packets)
                    /\ writing' = [w EXCEPT !.sent = @ + n]
    BY <1>2 DEF Driver!WriteTransfer
  <2>2. w \in Calls /\ w.size >= 4
    BY <2>1 DEF WriteInv, LoopInv
  <2>3. n \in 1 .. Len(w.packets) - w.sent
    BY <2>1, <2>2, CountTakes
  <2>4. w.sent \in Nat /\ Len(w.packets) \in Nat
    BY <2>2 DEF Calls
  <2>5. /\ writing'.stage = w.stage /\ writing'.packets = w.packets
        /\ writing'.size = w.size /\ writing'.sent = w.sent + n
    BY <2>1, <2>2 DEF Calls
  <2> QED BY <2>1, <2>2, <2>3, <2>4, <2>5 DEF LoopInv, Progress
<1>3. CASE Driver!WriteFails \/ Driver!WriteReturns \/ Driver!WriteOver
  <2>1. PICK r \in {"ok", "error"} :
            \/ writing' = [writing EXCEPT !.stage = "returned", !.result = r]
            \/ writing' = Driver!NotWriting
    BY <1>3 DEF Driver!WriteFails, Driver!WriteReturns, Driver!WriteOver
  <2>2. writing'.stage # "loop"
    <3>1. PICK w : w = writing /\ w \in Calls
      BY DEF WriteInv
    <3>2. CASE writing' = [writing EXCEPT !.stage = "returned", !.result = r]
      BY <3>1, <3>2, ResultWritten
    <3>3. CASE writing' = Driver!NotWriting
      BY <3>3 DEF Driver!NotWriting
    <3> QED BY <2>1, <3>2, <3>3
  <2> QED BY <2>2 DEF LoopInv, Progress
<1>4. CASE UNCHANGED writing
  BY <1>4 DEF LoopInv
<1> QED BY <1>1, <1>2, <1>3, <1>4
        DEF midiVars, Driver!Next, Driver!Describe, Driver!New, Driver!Skip, Driver!ReadCall,
            Driver!ReadReady, Driver!ReadOver

\* What WriteEnds rests on beside fairness: a buffer that is not refused has room for a packet
\* (midi.rs:299-306), so each turn of the loop sends one at least, and a call of n packets
\* makes n transfers at most, for every buffer size and number of packets.
THEOREM WriteProgresses ==
    ASSUME MidiConstants
    PROVE  EachSpec => [][Progress]_writing
<1>1. EachInit => LoopInv
  BY DEF EachInit, Driver!Init, Driver!NotWriting, LoopInv
<1>2. WriteInv /\ LoopInv /\ [EachNext \/ StartNext]_allVars => LoopInv' /\ [Progress]_writing
  <2>1. ASSUME [EachNext \/ StartNext]_allVars
        PROVE  [Driver!Next]_midiVars
    BY <2>1 DEF EachNext, StartNext, allVars
  <2> QED BY <2>1, LoopStep
<1>3. EachSpec => EachInit /\ [][EachNext \/ StartNext]_allVars
  BY PTL DEF EachSpec
<1> QED BY <1>1, <1>2, <1>3, WriteAlways, PTL

-----------------------------------------------------------------------------
(* The MIDI driver: its endpoints *)

Descriptors == Driver!Interfaces \cup Driver!Endpoints

\* The interface described last is a MIDI Streaming one.
InMidi ==
    \E j \in 1 .. Len(seen) :
        /\ seen[j].type = "interface" /\ seen[j].midi
        /\ \A k \in j + 1 .. Len(seen) : seen[k].type = "endpoint"

\* num is that of the first candidate, if there are some.
Found(in, num) ==
    IF Driver!Candidates(in) = {} THEN num = Driver!None
    ELSE \E i \in Driver!Candidates(in) :
            seen[i].num = num /\ \A j \in Driver!Candidates(in) : i <= j

\* The visitor remembers what the descriptors before this one say.
FindInv ==
    /\ seen \in Seq(Descriptors)
    /\ visitor \in [interface : BOOLEAN, config : {Driver!None, "current"},
                    epIn : EndpointNumbers \cup {Driver!None},
                    epOut : EndpointNumbers \cup {Driver!None}]
    /\ visitor.interface <=> InMidi
    /\ Found(TRUE, visitor.epIn) /\ Found(FALSE, visitor.epOut)
    /\ visitor.interface => visitor.config = "current"
    /\ visitor.epIn # Driver!None => visitor.config = "current"

LEMMA CandidatesAfter ==
    ASSUME NEW d \in Descriptors, NEW in \in BOOLEAN, seen \in Seq(Descriptors),
           seen' = Append(seen, d)
    PROVE  /\ d.type = "endpoint" /\ d.bulk /\ d.in = in /\ InMidi =>
                Driver!Candidates(in)' = Driver!Candidates(in) \cup {Len(seen) + 1}
           /\ ~(d.type = "endpoint" /\ d.bulk /\ d.in = in /\ InMidi) =>
                Driver!Candidates(in)' = Driver!Candidates(in)
<1>1. PICK n \in Nat : n = Len(seen)
  OBVIOUS
<1>2. /\ DOMAIN seen = 1 .. n /\ DOMAIN seen' = 1 .. n + 1
      /\ \A i \in 1 .. n : seen'[i] = seen[i]
      /\ seen'[n + 1] = d
  BY <1>1
<1>3. ASSUME NEW i \in 1 .. n
      PROVE  i \in Driver!Candidates(in)' <=> i \in Driver!Candidates(in)
  <2>1. \A j \in 1 .. i - 1 : j \in 1 .. n /\ \A k \in j + 1 .. i - 1 : k \in 1 .. n
    BY <1>1, <1>3
  <2>2. seen'[i] = seen[i] /\ \A j \in 1 .. i - 1 : seen'[j] = seen[j]
    BY <1>2, <2>1
  <2>3. \A j \in 1 .. i - 1 : \A k \in j + 1 .. i - 1 : seen'[k] = seen[k]
    BY <1>2, <2>1
  <2>4. i \in DOMAIN seen /\ i \in DOMAIN seen'
    BY <1>1, <1>2
  <2> QED BY <2>2, <2>3, <2>4 DEF Driver!Candidates
<1>4. n + 1 \in Driver!Candidates(in)' <=>
        d.type = "endpoint" /\ d.bulk /\ d.in = in /\ InMidi
  <2>1. (n + 1) - 1 = n /\ \A j \in 1 .. n : \A k \in j + 1 .. n : k \in 1 .. n
    BY <1>1
  <2> QED BY <1>1, <1>2, <2>1 DEF Driver!Candidates, InMidi
<1>5. Driver!Candidates(in) \subseteq 1 .. n /\ Driver!Candidates(in)' \subseteq 1 .. n + 1
  BY <1>2 DEF Driver!Candidates
<1>6. 1 .. n + 1 = (1 .. n) \cup {n + 1} /\ n + 1 \notin 1 .. n
  BY <1>1
<1> QED BY <1>1, <1>3, <1>4, <1>5, <1>6

\* A later candidate does not come first.
LEMMA FoundAfter ==
    ASSUME NEW d \in Descriptors, NEW in \in BOOLEAN, seen \in Seq(Descriptors),
           seen' = Append(seen, d), NEW num, Found(in, num),
           num \in EndpointNumbers \cup {Driver!None}, Driver!None \notin EndpointNumbers
    PROVE  IF d.type = "endpoint" /\ d.bulk /\ d.in = in /\ InMidi /\ num = Driver!None
           THEN Found(in, d.num)' ELSE Found(in, num)'
<1>1. PICK n \in Nat : n = Len(seen)
  OBVIOUS
<1>2. /\ \A i \in 1 .. n : seen'[i] = seen[i] /\ seen[i] \in Descriptors
      /\ seen'[n + 1] = d
  BY <1>1
<1>3. Driver!Candidates(in) \subseteq 1 .. n
  BY <1>1 DEF Driver!Candidates
<1>4. CASE d.type = "endpoint" /\ d.bulk /\ d.in = in /\ InMidi
  <2>1. Driver!Candidates(in)' = Driver!Candidates(in) \cup {n + 1}
    BY <1>1, <1>4, CandidatesAfter
  <2>2. CASE Driver!Candidates(in) = {}
    <3>1. num = Driver!None /\ Driver!Candidates(in)' = {n + 1}
      BY <2>1, <2>2 DEF Found
    <3>2. n + 1 <= n + 1 /\ seen'[n + 1].num = d.num
      BY <1>2
    <3>3. Driver!Candidates(in)' # {} /\ n + 1 \in Driver!Candidates(in)'
          /\ \A j \in Driver!Candidates(in)' : n + 1 <= j
      BY <3>1, <3>2
    <3>4. Found(in, d.num)'
      BY <3>2, <3>3, Zenon DEF Found
    <3> QED BY <1>4, <3>1, <3>4
  <2>3. CASE Driver!Candidates(in) # {}
    <3>1. PICK i \in Driver!Candidates(in) :
              seen[i].num = num /\ \A j \in Driver!Candidates(in) : i <= j
      BY <2>3 DEF Found
    <3>2. i \in 1 .. n /\ i <= n + 1 /\ seen'[i] = seen[i]
      <4>1. i \in 1 .. n
        BY <1>3
      <4>2. i <= n + 1
        BY <4>1
      <4>3. seen'[i] = seen[i]
        BY <1>2, <4>1
      <4> QED BY <4>1, <4>2, <4>3
    <3>3. seen[i].num \in EndpointNumbers
      BY <1>2, <3>1, <3>2 DEF Driver!Candidates, Descriptors, Driver!Interfaces, Driver!Endpoints
    <3>4. num # Driver!None
      BY <3>1, <3>3
    <3>5. Found(in, num)'
      BY <2>1, <3>1, <3>2 DEF Found
    <3> QED BY <3>4, <3>5
  <2> QED BY <2>2, <2>3
<1>5. CASE ~(d.type = "endpoint" /\ d.bulk /\ d.in = in /\ InMidi)
  <2>1. Driver!Candidates(in)' = Driver!Candidates(in)
    BY <1>5, CandidatesAfter
  <2>2. Found(in, num)'
    BY <1>2, <1>3, <2>1 DEF Found
  <2> QED BY <1>5, <2>2
<1> QED BY <1>4, <1>5

LEMMA NothingFound ==
    ASSUME seen' = <<>>, visitor' = Driver!NewVisitor
    PROVE  FindInv'
<1>1. Len(seen') = 0 /\ DOMAIN seen' = {} /\ seen' \in Seq(Descriptors)
  OBVIOUS
<1>2. \A in : Driver!Candidates(in)' = {}
  BY <1>1 DEF Driver!Candidates
<1>3. ~InMidi'
  BY <1>1 DEF InMidi
<1> QED BY <1>1, <1>2, <1>3 DEF FindInv, Found, Driver!NewVisitor, Driver!None

LEMMA FindInit ==
    ASSUME Driver!Init
    PROVE  FindInv
<1>1. seen = <<>> /\ visitor = Driver!NewVisitor
  BY DEF Driver!Init
<1>2. Len(seen) = 0 /\ DOMAIN seen = {} /\ seen \in Seq(Descriptors)
  BY <1>1
<1>3. \A in : Driver!Candidates(in) = {}
  BY <1>2 DEF Driver!Candidates
<1>4. ~InMidi
  BY <1>2 DEF InMidi
<1> QED BY <1>1, <1>2, <1>3, <1>4 DEF FindInv, Found, Driver!NewVisitor, Driver!None

\* What is found is the first candidate.
LEMMA FoundFirst ==
    ASSUME NEW in \in BOOLEAN, NEW num, seen \in Seq(Descriptors), Found(in, num)
    PROVE  num = Driver!First(in)
<1>1. CASE Driver!Candidates(in) = {}
  BY <1>1 DEF Found, Driver!First
<1>2. CASE Driver!Candidates(in) # {}
  <2>1. PICK i \in Driver!Candidates(in) :
            seen[i].num = num /\ \A j \in Driver!Candidates(in) : i <= j
    BY <1>2 DEF Found
  <2>2. PICK k : k = CHOOSE i_1 \in Driver!Candidates(in) :
                        \A j \in Driver!Candidates(in) : i_1 <= j
    OBVIOUS
  <2>3. k \in Driver!Candidates(in) /\ \A j \in Driver!Candidates(in) : k <= j
    BY <2>1, <2>2
  <2>4. Driver!Candidates(in) \subseteq Nat
    BY DEF Driver!Candidates
  <2>5. k = i
    BY <2>1, <2>3, <2>4
  <2> QED BY <1>2, <2>1, <2>2, <2>5 DEF Driver!First
<1> QED BY <1>1, <1>2

LEMMA FoundSome ==
    ASSUME NEW in \in BOOLEAN, NEW num, seen \in Seq(Descriptors), Found(in, num),
           Driver!None \notin EndpointNumbers
    PROVE  Driver!Candidates(in) = {} <=> num = Driver!None
<1>1. ASSUME NEW i \in Driver!Candidates(in)
      PROVE  seen[i].num \in EndpointNumbers
  <2>1. seen[i] \in Descriptors /\ seen[i].type = "endpoint"
    BY <1>1 DEF Driver!Candidates
  <2> QED BY <2>1 DEF Descriptors, Driver!Interfaces, Driver!Endpoints
<1> QED BY <1>1 DEF Found

LEMMA FindStep ==
    ASSUME MidiConstants, FindInv, [Driver!Next]_midiVars
    PROVE  FindInv'
<1>1. ASSUME NEW d \in Descriptors, Driver!Describe(d)
      PROVE  FindInv'
  <2>1. seen \in Seq(Descriptors) /\ seen' = Append(seen, d) /\ seen' \in Seq(Descriptors)
    BY <1>1 DEF FindInv, Driver!Describe
  <2>2. PICK v : v = visitor /\ v \in
            [interface : BOOLEAN, config : {Driver!None, "current"},
             epIn : EndpointNumbers \cup {Driver!None},
             epOut : EndpointNumbers \cup {Driver!None}]
    BY DEF FindInv
  <2>3. PICK w : w = visitor'
    OBVIOUS
  <2>4. /\ v.interface <=> InMidi
        /\ Found(TRUE, v.epIn) /\ Found(FALSE, v.epOut)
        /\ v.interface => v.config = "current"
        /\ v.epIn # Driver!None => v.config = "current"
    BY <2>2 DEF FindInv
  <2>5. w = IF d.type = "interface" THEN Driver!OnInterface(v, d) ELSE Driver!OnEndpoint(v, d)
    BY <1>1, <2>2, <2>3 DEF Driver!Describe
  <2>6. PICK n \in Nat : n = Len(seen)
    BY <2>1
  <2>7. /\ Len(seen') = n + 1 /\ seen'[n + 1] = d
        /\ \A i \in 1 .. n : seen'[i] = seen[i]
    BY <2>1, <2>6
  <2>8. CASE d.type = "interface"
    <3>1. d.midi \in BOOLEAN
      BY <2>8 DEF Descriptors, Driver!Interfaces, Driver!Endpoints
    <3>2. /\ w \in [interface : BOOLEAN, config : {Driver!None, "current"},
                   epIn : EndpointNumbers \cup {Driver!None},
                   epOut : EndpointNumbers \cup {Driver!None}]
          /\ w.interface = d.midi /\ w.epIn = v.epIn /\ w.epOut = v.epOut
          /\ w.config = IF d.midi THEN "current" ELSE v.config
      BY <2>2, <2>5, <2>8, <3>1 DEF Driver!OnInterface
    <3>3. InMidi' <=> d.midi
      <4>1. ASSUME d.midi PROVE InMidi'
        <5>1. n + 1 \in 1 .. n + 1 /\ (n + 1) + 1 .. n + 1 = {}
          BY <2>6
        <5> QED BY <2>7, <2>8, <4>1, <5>1 DEF InMidi
      <4>2. ASSUME InMidi' PROVE d.midi
        <5>1. PICK j \in 1 .. n + 1 : /\ seen'[j].midi
                                     /\ \A k \in j + 1 .. n + 1 : seen'[k].type = "endpoint"
          BY <2>7, <4>2 DEF InMidi
        <5>2. j = n + 1 \/ n + 1 \in j + 1 .. n + 1
          BY <2>6, <5>1
        <5> QED BY <2>7, <2>8, <5>1, <5>2
      <4> QED BY <4>1, <4>2
    <3>4. Found(TRUE, v.epIn)' /\ Found(FALSE, v.epOut)'
      BY <2>1, <2>2, <2>4, <2>8, FoundAfter DEF MidiConstants
    <3> QED BY <2>1, <2>3, <2>4, <3>2, <3>3, <3>4 DEF FindInv
  <2>9. CASE d.type # "interface"
    <3>1. /\ d.type = "endpoint" /\ d.bulk \in BOOLEAN /\ d.in \in BOOLEAN
          /\ d.num \in EndpointNumbers
      BY <2>9 DEF Descriptors, Driver!Interfaces, Driver!Endpoints
    <3>2. InMidi' <=> InMidi
      <4>1. ASSUME InMidi PROVE InMidi'
        <5>1. PICK j \in 1 .. n : /\ seen[j].type = "interface" /\ seen[j].midi
                                 /\ \A k \in j + 1 .. n : seen[k].type = "endpoint"
          BY <2>6, <4>1 DEF InMidi
        <5>2. ASSUME NEW k \in j + 1 .. n + 1
              PROVE  seen'[k].type = "endpoint"
          <6>1. k = n + 1 \/ (k \in j + 1 .. n /\ k \in 1 .. n)
            BY <2>6
          <6> QED BY <2>7, <3>1, <5>1, <6>1
        <5>3. j \in 1 .. n + 1 /\ seen'[j] = seen[j]
          BY <2>6, <2>7
        <5> QED BY <2>7, <5>1, <5>2, <5>3 DEF InMidi
      <4>2. ASSUME InMidi' PROVE InMidi
        <5>1. PICK j \in 1 .. n + 1 : /\ seen'[j].type = "interface" /\ seen'[j].midi
                                     /\ \A k \in j + 1 .. n + 1 : seen'[k].type = "endpoint"
          BY <2>7, <4>2 DEF InMidi
        <5>2. j # n + 1
          BY <2>7, <3>1, <5>1
        <5>3. j \in 1 .. n /\ \A k \in j + 1 .. n : k \in 1 .. n /\ k \in j + 1 .. n + 1
          BY <2>6, <5>2
        <5> QED BY <2>6, <2>7, <5>1, <5>3 DEF InMidi
      <4> QED BY <4>1, <4>2
    <3>3. /\ w \in [interface : BOOLEAN, config : {Driver!None, "current"},
                   epIn : EndpointNumbers \cup {Driver!None},
                   epOut : EndpointNumbers \cup {Driver!None}]
          /\ w.interface = v.interface /\ w.config = v.config
          /\ w.epIn = IF v.interface /\ d.bulk /\ d.in /\ v.epIn = Driver!None
                     THEN d.num ELSE v.epIn
          /\ w.epOut = IF v.interface /\ d.bulk /\ ~d.in /\ v.epOut = Driver!None
                      THEN d.num ELSE v.epOut
      BY <2>2, <2>5, <2>9, <3>1 DEF Driver!OnEndpoint
    <3>4. Found(TRUE, w.epIn)'
      <4>1. IF d.type = "endpoint" /\ d.bulk /\ d.in = TRUE /\ InMidi /\ v.epIn = Driver!None
            THEN Found(TRUE, d.num)' ELSE Found(TRUE, v.epIn)'
        BY <2>1, <2>2, <2>4, FoundAfter DEF MidiConstants
      <4> QED BY <2>4, <3>1, <3>3, <4>1
    <3>5. Found(FALSE, w.epOut)'
      <4>1. IF d.type = "endpoint" /\ d.bulk /\ d.in = FALSE /\ InMidi /\ v.epOut = Driver!None
            THEN Found(FALSE, d.num)' ELSE Found(FALSE, v.epOut)'
        BY <2>1, <2>2, <2>4, FoundAfter DEF MidiConstants
      <4> QED BY <2>4, <3>1, <3>3, <4>1
    <3>6. w.interface \/ w.epIn # Driver!None => w.config = "current"
      BY <2>4, <3>3
    <3> QED BY <2>1, <2>3, <2>4, <3>2, <3>3, <3>4, <3>5, <3>6 DEF FindInv
  <2> QED BY <2>8, <2>9
<1>2. ASSUME seen' = <<>>, visitor' = Driver!NewVisitor
      PROVE  FindInv'
  BY <1>2, NothingFound DEF FindInv
<1>3. ASSUME UNCHANGED <<seen, visitor>>
      PROVE  FindInv'
  <2>1. seen' = seen /\ visitor' = visitor
    BY <1>3
  <2>2. \A in : Driver!Candidates(in)' = Driver!Candidates(in)
    BY <2>1 DEF Driver!Candidates
  <2>3. InMidi' <=> InMidi
    BY <2>1 DEF InMidi
  <2>4. \A in, num : Found(in, num)' <=> Found(in, num)
    BY <2>1, <2>2 DEF Found
  <2> QED BY <2>1, <2>3, <2>4 DEF FindInv
<1> QED BY <1>1, <1>2, <1>3
        DEF Descriptors, midiVars, Driver!Next, Driver!New, Driver!Skip, Driver!ReadCall,
            Driver!ReadReady, Driver!ReadOver, Driver!WriteCall, Driver!WriteTransfer,
            Driver!WriteFails, Driver!WriteReturns, Driver!WriteOver

LEMMA FindAlways ==
    ASSUME MidiConstants
    PROVE  EachSpec => []FindInv
<1>1. EachInit => FindInv
  BY FindInit DEF EachInit
<1>2. FindInv /\ [EachNext \/ StartNext]_allVars => FindInv'
  <2>1. ASSUME [EachNext \/ StartNext]_allVars
        PROVE  [Driver!Next]_midiVars
    BY <2>1 DEF EachNext, StartNext, allVars
  <2> QED BY <2>1, FindStep
<1>3. EachSpec => EachInit /\ [][EachNext \/ StartNext]_allVars
  BY PTL DEF EachSpec
<1> QED BY <1>1, <1>2, <1>3, PTL

\* The visitor finds the first bulk endpoint of each direction that belongs to a MIDI
\* Streaming interface, and identifies a device that has the IN one (midi.rs:93-97,
\* 189-196), for every number of descriptors in every order.
THEOREM FindsFirstHolds ==
    ASSUME MidiConstants
    PROVE  EachSpec => []FindsFirst
<1>1. FindInv => FindsFirst
  <2>1. SUFFICES ASSUME FindInv
                 PROVE  FindsFirst
    OBVIOUS
  <2>2. visitor.epIn = Driver!First(TRUE) /\ visitor.epOut = Driver!First(FALSE)
    BY <2>1, FoundFirst DEF FindInv
  <2>3. Driver!Candidates(TRUE) = {} <=> visitor.epIn = Driver!None
    BY <2>1, FoundSome DEF FindInv, MidiConstants
  <2> QED BY <2>1, <2>2, <2>3 DEF FindInv, FindsFirst, Driver!FindsFirst, Driver!Identify,
             Driver!None
<1> QED BY <1>1, FindAlways, PTL

-----------------------------------------------------------------------------
(* The MIDI driver: what a read returns *)

Packets == Events \cup {Driver!Empty}

\* How many of the first i packets are not empty.
Kept(p, i) == Cardinality(Driver!Places(p, i))

LEMMA KeptNone ==
    ASSUME NEW p
    PROVE  Kept(p, 0) = 0
<1>1. Driver!Places(p, 0) = {}
  BY DEF Driver!Places
<1> QED BY <1>1, FS_EmptySet DEF Kept

LEMMA KeptFinite ==
    ASSUME NEW p, NEW i \in Nat
    PROVE  IsFiniteSet(Driver!Places(p, i)) /\ Kept(p, i) \in Nat
<1>1. IsFiniteSet(1 .. i)
  BY FS_Interval
<1>2. Driver!Places(p, i) \subseteq 1 .. i
  BY DEF Driver!Places
<1>3. IsFiniteSet(Driver!Places(p, i))
  BY <1>1, <1>2, FS_Subset
<1> QED BY <1>3, FS_CardinalityType DEF Kept

\* One packet more.
LEMMA KeptNext ==
    ASSUME NEW p, NEW i \in Nat \ {0}
    PROVE  /\ p[i] # Driver!Empty => Kept(p, i) = Kept(p, i - 1) + 1
           /\ p[i] = Driver!Empty => Kept(p, i) = Kept(p, i - 1)
<1>1. i - 1 \in Nat /\ i \notin 1 .. i - 1 /\ 1 .. i = (1 .. i - 1) \cup {i}
  OBVIOUS
<1>2. IsFiniteSet(Driver!Places(p, i - 1))
  BY <1>1, KeptFinite
<1>3. ASSUME p[i] # Driver!Empty
      PROVE  Kept(p, i) = Kept(p, i - 1) + 1
  <2>1. Driver!Places(p, i) = Driver!Places(p, i - 1) \cup {i}
    BY <1>1, <1>3 DEF Driver!Places
  <2>2. i \notin Driver!Places(p, i - 1)
    BY <1>1 DEF Driver!Places
  <2> QED BY <1>2, <2>1, <2>2, FS_AddElement DEF Kept
<1>4. ASSUME p[i] = Driver!Empty
      PROVE  Kept(p, i) = Kept(p, i - 1)
  <2>1. Driver!Places(p, i) = Driver!Places(p, i - 1)
    BY <1>1, <1>4 DEF Driver!Places
  <2> QED BY <2>1 DEF Kept
<1> QED BY <1>3, <1>4

LEMMA KeptGrows ==
    ASSUME NEW p, NEW i \in Nat, NEW j \in Nat, j <= i
    PROVE  Kept(p, j) <= Kept(p, i)
<1>1. Driver!Places(p, j) \subseteq Driver!Places(p, i)
  BY DEF Driver!Places
<1> QED BY <1>1, KeptFinite, FS_Subset DEF Kept

\* Packets that are not empty have places of their own.
LEMMA KeptApart ==
    ASSUME NEW p, NEW n \in Nat, NEW i \in Driver!Places(p, n), NEW j \in Driver!Places(p, n),
           Kept(p, i) = Kept(p, j)
    PROVE  i = j
<1>1. ASSUME NEW k \in Driver!Places(p, n), NEW l \in Driver!Places(p, n), k < l
      PROVE  Kept(p, k) < Kept(p, l)
  <2>1. k \in Nat /\ l \in Nat \ {0} /\ l - 1 \in Nat /\ k <= l - 1 /\ p[l] # Driver!Empty
    BY <1>1 DEF Driver!Places
  <2>2. Kept(p, l) = Kept(p, l - 1) + 1
    BY <2>1, KeptNext
  <2>3. Kept(p, k) <= Kept(p, l - 1)
    BY <2>1, KeptGrows
  <2>4. Kept(p, k) \in Nat /\ Kept(p, l - 1) \in Nat
    BY <2>1, KeptFinite
  <2> QED BY <2>2, <2>3, <2>4
<1>2. i \in Nat /\ j \in Nat
  BY DEF Driver!Places
<1>3. Kept(p, i) \in Nat
  BY <1>2, KeptFinite
<1>4. ~(i < j) /\ ~(j < i)
  BY <1>1, <1>3
<1> QED BY <1>2, <1>4

\* The packet in place k of the buffer, and the buffer after i packets.
Origin(p, k) == CHOOSE j \in Driver!Places(p, Len(p)) : Kept(p, j) = k
Buffer(p, size, i) == [k \in 1 .. Driver!Smaller(Kept(p, i), size) |-> p[Origin(p, k)]]

LEMMA OriginIs ==
    ASSUME NEW p \in Seq(Packets), NEW j \in Driver!Places(p, Len(p))
    PROVE  Origin(p, Kept(p, j)) = j
<1>1. Len(p) \in Nat
  OBVIOUS
<1>2. Origin(p, Kept(p, j)) \in Driver!Places(p, Len(p)) /\ Kept(p, Origin(p, Kept(p, j))) = Kept(p, j)
  BY DEF Origin
<1> QED BY <1>1, <1>2, KeptApart

\* The loop puts a packet into the buffer, or does not.
LEMMA BufferNext ==
    ASSUME NEW p \in Seq(Packets), NEW size \in Nat, NEW i \in 1 .. Len(p)
    PROVE  Buffer(p, size, i) =
             IF p[i] # Driver!Empty /\ Len(Buffer(p, size, i - 1)) < size
             THEN Append(Buffer(p, size, i - 1), p[i])
             ELSE Buffer(p, size, i - 1)
<1>1. /\ i \in Nat \ {0} /\ i - 1 \in Nat /\ Len(p) \in Nat
      /\ Kept(p, i) \in Nat /\ Kept(p, i - 1) \in Nat
  BY KeptFinite
<1>2. PICK n \in Nat : n = Driver!Smaller(Kept(p, i - 1), size)
  BY <1>1 DEF Driver!Smaller
<1>3. PICK b : b = Buffer(p, size, i - 1)
  OBVIOUS
<1>4. b = [k \in 1 .. n |-> p[Origin(p, k)]]
  BY <1>2, <1>3, Zenon DEF Buffer
<1>5. Len(b) = n
  BY <1>4
<1>6. CASE p[i] # Driver!Empty /\ n < size
  <2>1. n = Kept(p, i - 1) /\ Kept(p, i) = n + 1 /\ Driver!Smaller(Kept(p, i), size) = n + 1
    BY <1>1, <1>2, <1>6, KeptNext DEF Driver!Smaller
  <2>2. Origin(p, n + 1) = i
    <3>1. i \in Driver!Places(p, Len(p))
      BY <1>6 DEF Driver!Places
    <3> QED BY <2>1, <3>1, OriginIs
  <2>3. PICK T : T = {p[Origin(p, k)] : k \in Nat}
    OBVIOUS
  <2>4. b \in [1 .. n -> T] /\ p[i] \in T
    <3>1. \A k \in 1 .. n : p[Origin(p, k)] \in T
      BY <2>3
    <3>2. p[i] \in T
      <4>1. n + 1 \in Nat
        OBVIOUS
      <4> QED BY <2>2, <2>3, <4>1
    <3> QED BY <1>4, <3>1, <3>2
  <2>5. PICK a : a = Append(b, p[i])
    OBVIOUS
  <2>6. a = [k \in 1 .. n + 1 |-> IF k = n + 1 THEN p[i] ELSE b[k]]
    <3>1. b \in Seq(T) /\ Len(b) = n
      BY <1>5, <2>4
    <3> HIDE <1>4
    <3>2. a \in Seq(T) /\ Len(a) = n + 1 /\ a[n + 1] = p[i] /\ \A k \in 1 .. n : a[k] = b[k]
      BY <2>4, <2>5, <3>1
    <3> QED BY <3>2
  <2>7. a = [k \in 1 .. n + 1 |-> p[Origin(p, k)]]
    BY <1>4, <2>2, <2>6
  <2> QED BY <1>3, <1>5, <1>6, <2>1, <2>5, <2>7 DEF Buffer
<1>7. CASE p[i] # Driver!Empty /\ ~(n < size)
  <2>1. Driver!Smaller(Kept(p, i), size) = n
    BY <1>1, <1>2, <1>7, KeptNext DEF Driver!Smaller
  <2> QED BY <1>3, <1>4, <1>5, <1>7, <2>1 DEF Buffer
<1>8. CASE p[i] = Driver!Empty
  <2>1. Driver!Smaller(Kept(p, i), size) = n
    BY <1>1, <1>2, <1>8, KeptNext
  <2> QED BY <1>3, <1>4, <1>8, <2>1 DEF Buffer
<1> QED BY <1>6, <1>7, <1>8

\* A set of numbers has a least element, which stands in for induction.
LEMMA Smallest ==
    ASSUME NEW S \in SUBSET Nat, S # {}
    PROVE  \E m \in S : \A k \in S : m <= k
<1>1. IsWellFoundedOn(OpToRel(<, Nat), Nat)
  BY NatLessThanWellFounded
<1>2. PICK m \in S : \A k \in S : <<k, m>> \notin OpToRel(<, Nat)
  BY <1>1, WFMin
<1>3. m \in Nat /\ \A k \in S : k \in Nat /\ ~(k < m)
  BY <1>2 DEF OpToRel
<1> QED BY <1>3

\* What the loop has in the buffer when it has seen all packets.
LEMMA ParsedIs ==
    ASSUME NEW p \in Seq(Packets), NEW size \in Nat
    PROVE  Driver!Parsed(p, size) = Buffer(p, size, Len(p))
<1> DEFINE Turn(b, i) == IF p[i] # Driver!Empty /\ Len(b) < size THEN Append(b, p[i]) ELSE b
<1>1. Len(p) \in Nat
  OBVIOUS
<1>2. PICK w : w = [i \in 0 .. Len(p) |-> Buffer(p, size, i)]
  OBVIOUS
<1>3. w[0] = <<>>
  <2>1. Driver!Smaller(Kept(p, 0), size) = 0
    BY KeptNone DEF Driver!Smaller
  <2>2. Buffer(p, size, 0) = <<>>
    BY <2>1 DEF Buffer
  <2> QED BY <1>1, <1>2, <2>2
<1>4. \A i \in 1 .. Len(p) : w[i] = Turn(w[i - 1], i)
  <2>1. ASSUME NEW i \in 1 .. Len(p)
        PROVE  w[i] = Turn(w[i - 1], i)
    <3>1. i \in 0 .. Len(p) /\ i - 1 \in 0 .. Len(p)
      BY <1>1
    <3>2. w[i] = Buffer(p, size, i) /\ w[i - 1] = Buffer(p, size, i - 1)
      BY <1>2, <3>1
    <3> QED BY <3>2, BufferNext, Zenon
  <2> QED BY <2>1
<1>5. \A i \in 0 .. Len(p) : i = 0 \/ (i \in 1 .. Len(p) /\ i - 1 \in 0 .. Len(p))
  BY <1>1
<1>6. w = [i \in 0 .. Len(p) |-> IF i = 0 THEN <<>> ELSE Turn(w[i - 1], i)]
  <2>1. \A i \in 0 .. Len(p) : w[i] = IF i = 0 THEN <<>> ELSE Turn(w[i - 1], i)
    BY <1>3, <1>4, <1>5, Zenon
  <2> HIDE DEF Turn
  <2> QED BY <1>2, <2>1
<1>7. PICK buf : /\ buf = [i \in 0 .. Len(p) |-> IF i = 0 THEN <<>> ELSE Turn(buf[i - 1], i)]
                 /\ Driver!Parsed(p, size) = buf[Len(p)]
  BY <1>6, Zenon DEF Driver!Parsed
<1> HIDE DEF Turn
<1>8. {i \in 0 .. Len(p) : buf[i] # w[i]} = {}
  <2>1. SUFFICES ASSUME {i \in 0 .. Len(p) : buf[i] # w[i]} # {}
                 PROVE  FALSE
    OBVIOUS
  <2>2. PICK m \in {i \in 0 .. Len(p) : buf[i] # w[i]} :
               \A k \in {i \in 0 .. Len(p) : buf[i] # w[i]} : m <= k
    <3>1. {i \in 0 .. Len(p) : buf[i] # w[i]} \in SUBSET Nat
      OBVIOUS
    <3> QED BY <2>1, <3>1, Smallest
  <2>3. m # 0
    BY <1>1, <1>3, <1>7, <2>2
  <2>4. m \in 1 .. Len(p) /\ m - 1 \in 0 .. Len(p) /\ ~(m <= m - 1)
    BY <1>1, <2>2, <2>3
  <2>5. buf[m - 1] = w[m - 1]
    BY <2>2, <2>4
  <2> QED BY <1>4, <1>7, <2>2, <2>3, <2>4, <2>5, Zenon
<1>9. Len(p) \in 0 .. Len(p) /\ w[Len(p)] = Buffer(p, size, Len(p))
  BY <1>1, <1>2
<1> QED BY <1>7, <1>8, <1>9

\* What ReadsAll says of a buffer.
LEMMA ParsedReads ==
    ASSUME NEW p \in Seq(Packets), NEW size \in Nat
    PROVE  /\ Len(Driver!Parsed(p, size)) = Driver!Smaller(Kept(p, Len(p)), size)
           /\ Len(Driver!Parsed(p, size)) <= size
           /\ \A i \in Driver!Places(p, Len(p)) :
                 Kept(p, i) <= size => Driver!Parsed(p, size)[Kept(p, i)] = p[i]
<1>1. Len(p) \in Nat /\ Kept(p, Len(p)) \in Nat
  BY KeptFinite
<1>2. PICK n \in Nat : n = Driver!Smaller(Kept(p, Len(p)), size)
  BY <1>1 DEF Driver!Smaller
<1>3. PICK b : b = Driver!Parsed(p, size)
  OBVIOUS
<1>4. b = [k \in 1 .. n |-> p[Origin(p, k)]]
  BY <1>2, <1>3, ParsedIs, Zenon DEF Buffer
<1>5. Len(b) = n
  BY <1>4
<1>6. n <= size
  BY <1>1, <1>2 DEF Driver!Smaller
<1>7. ASSUME NEW i \in Driver!Places(p, Len(p)), Kept(p, i) <= size
      PROVE  b[Kept(p, i)] = p[i]
  <2>1. i \in Nat \ {0} /\ i - 1 \in Nat /\ i <= Len(p) /\ p[i] # Driver!Empty
    BY <1>1 DEF Driver!Places
  <2>2. Kept(p, i) = Kept(p, i - 1) + 1 /\ Kept(p, i - 1) \in Nat
    BY <2>1, KeptNext, KeptFinite
  <2>3. Kept(p, i) <= Kept(p, Len(p))
    BY <1>1, <2>1, KeptGrows
  <2>4. Kept(p, i) \in 1 .. n
    BY <1>1, <1>2, <1>7, <2>2, <2>3 DEF Driver!Smaller
  <2> QED BY <1>4, <2>4, OriginIs
<1> QED BY <1>2, <1>3, <1>5, <1>6, <1>7

Outcome(p, size) == Driver!Parsed(p, size)

\* A read that is over has in its buffer what the loop makes of the transfer.
ReadInv ==
    /\ reading = [stage |-> reading.stage, size |-> reading.size, packets |-> reading.packets]
    /\ reading.stage \in {"idle", "pending", "ok"} /\ reading.size \in Nat
    /\ IF reading.stage = "ok"
       THEN received \in Seq(Packets) /\ reading.packets = Outcome(received, reading.size)
       ELSE reading.packets = <<>>

LEMMA NoRead ==
    /\ Driver!NotReading.stage = "idle" /\ Driver!NotReading.size = 0
    /\ Driver!NotReading.packets = <<>>
    /\ Driver!NotReading = [stage |-> Driver!NotReading.stage, size |-> Driver!NotReading.size,
                            packets |-> Driver!NotReading.packets]
BY DEF Driver!NotReading

LEMMA ReadStep ==
    ASSUME MidiConstants, ReadInv, [Driver!Next]_midiVars
    PROVE  ReadInv'
<1>1. CASE Driver!ReadCall
  <2>1. PICK n \in Nat : reading' = [Driver!NotReading EXCEPT !.stage = "pending", !.size = n]
    BY <1>1 DEF Driver!ReadCall, MidiConstants
  <2>2. reading' = [stage |-> "pending", size |-> n, packets |-> <<>>]
    BY <2>1 DEF Driver!NotReading
  <2> QED BY <2>2 DEF ReadInv
<1>2. CASE Driver!ReadReady
  <2>1. PICK n \in 0 .. MaxPackets, spare \in 0 .. Driver!PacketSize - 1 :
        \E packets \in [1 .. (n * Driver!PacketSize + spare) \div Driver!PacketSize -> Packets] :
            /\ received' = packets
            /\ reading' = [reading EXCEPT !.stage = "ok",
                              !.packets = Driver!Parsed(packets, reading.size)]
    BY <1>2, Zenon DEF Driver!ReadReady, Packets
  <2>2. PICK m \in Nat : m = (n * Driver!PacketSize + spare) \div Driver!PacketSize
    BY DEF Driver!PacketSize
  <2>3. PICK packets \in [1 .. m -> Packets] :
            /\ received' = packets
            /\ reading' = [reading EXCEPT !.stage = "ok",
                              !.packets = Driver!Parsed(packets, reading.size)]
    BY <2>1, <2>2
  <2>4. packets \in Seq(Packets)
    OBVIOUS
  <2>5. PICK b : b = Outcome(packets, reading.size)
    OBVIOUS
  <2>6. reading' = [stage |-> "ok", size |-> reading.size, packets |-> b]
    BY <2>3, <2>5 DEF ReadInv, Outcome
  <2>7. /\ reading'.stage = "ok" /\ reading'.size = reading.size /\ reading'.packets = b
        /\ reading.size \in Nat
    BY <2>6 DEF ReadInv
  <2>8. Outcome(received, reading.size)' = b
    BY <2>3, <2>5, <2>7
  <2> QED BY <2>3, <2>4, <2>6, <2>7, <2>8 DEF ReadInv
<1>3. CASE reading' = Driver!NotReading
  BY <1>3, NoRead DEF ReadInv
<1>4. CASE UNCHANGED <<reading, received>>
  BY <1>4 DEF ReadInv
<1> QED BY <1>1, <1>2, <1>3, <1>4
        DEF midiVars, Driver!Next, Driver!Describe, Driver!New, Driver!Skip, Driver!ReadOver,
            Driver!WriteCall, Driver!WriteTransfer, Driver!WriteFails, Driver!WriteReturns,
            Driver!WriteOver

LEMMA ReadAlways ==
    ASSUME MidiConstants
    PROVE  EachSpec => []ReadInv
<1>1. EachInit => ReadInv
  BY NoRead DEF EachInit, Driver!Init, ReadInv
<1>2. ReadInv /\ [EachNext \/ StartNext]_allVars => ReadInv'
  <2>1. ASSUME [EachNext \/ StartNext]_allVars
        PROVE  [Driver!Next]_midiVars
    BY <2>1 DEF EachNext, StartNext, allVars
  <2> QED BY <2>1, ReadStep
<1>3. EachSpec => EachInit /\ [][EachNext \/ StartNext]_allVars
  BY PTL DEF EachSpec
<1> QED BY <1>1, <1>2, <1>3, PTL

\* A read returns the packets of the transfer that are not empty, in their order, as far
\* as they fit, and nothing else (midi.rs:252-261), for every buffer and every number of
\* packets, wherever the empty ones are among them.
THEOREM ReadsAllHolds ==
    ASSUME MidiConstants
    PROVE  EachSpec => []ReadsAll
<1>1. ReadInv => ReadsAll
  <2>1. SUFFICES ASSUME ReadInv, reading.stage = "ok"
                 PROVE  ReadsAll
    BY DEF ReadsAll, Driver!ReadsAll
  <2>2. /\ received \in Seq(Packets) /\ reading.size \in Nat
        /\ reading.packets = Driver!Parsed(received, reading.size)
    BY <2>1 DEF ReadInv, Outcome
  <2>3. PICK size, b : size = reading.size /\ b = reading.packets
    OBVIOUS
  <2>4. /\ Len(b) = Driver!Smaller(Kept(received, Len(received)), size)
        /\ \A i \in Driver!Places(received, Len(received)) :
              Kept(received, i) <= size => b[Kept(received, i)] = received[i]
    BY <2>2, <2>3, ParsedReads
  <2>5. \A i : Driver!Cardinality(Driver!Places(received, i)) = Kept(received, i)
    BY Zenon DEF Kept, Cardinality, Driver!Cardinality
  <2> QED BY <2>3, <2>4, <2>5, Zenon DEF ReadsAll, Driver!ReadsAll
<1> QED BY <1>1, ReadAlways, PTL

-----------------------------------------------------------------------------
(* All of them *)

\* Only a visitor that has found an IN endpoint makes a driver.
DriverInv == midi = Driver!NoDriver \/ midi.bulkIn \in EndpointNumbers

LEMMA DriverAlways ==
    ASSUME MidiConstants
    PROVE  EachSpec => []DriverInv
<1>1. EachInit => DriverInv
  BY DEF EachInit, Driver!Init, DriverInv
<1>2. FindInv /\ DriverInv /\ [EachNext \/ StartNext]_allVars => DriverInv'
  <2>1. SUFFICES ASSUME FindInv, DriverInv, [Driver!Next]_midiVars
                 PROVE  DriverInv'
    BY DEF EachNext, StartNext, allVars
  <2>2. CASE Driver!New
    <3>1. visitor.epIn # Driver!None /\ midi'.bulkIn = visitor.epIn
      BY <2>2 DEF Driver!New, Driver!Identify
    <3> QED BY <2>1, <3>1 DEF FindInv, DriverInv
  <2>3. CASE midi' = Driver!NoDriver
    BY <2>3 DEF DriverInv, Driver!NoDriver
  <2>4. CASE UNCHANGED midi
    BY <2>1, <2>4 DEF DriverInv
  <2> QED BY <2>1, <2>2, <2>3, <2>4
          DEF midiVars, Driver!Next, Driver!Describe, Driver!Skip, Driver!ReadCall,
              Driver!ReadReady, Driver!ReadOver, Driver!WriteCall, Driver!WriteTransfer,
              Driver!WriteFails, Driver!WriteReturns, Driver!WriteOver
<1>3. EachSpec => EachInit /\ [][EachNext \/ StartNext]_allVars
  BY PTL DEF EachSpec
<1> QED BY <1>1, <1>2, <1>3, FindAlways, PTL

LEMMA DriverTyped ==
    ASSUME FindInv, ReadInv, WriteInv, DriverInv
    PROVE  Driver!TypeOK
<1>1. Len(reading.packets) <= reading.size
  <2>1. CASE reading.stage = "ok"
    BY <2>1, ParsedReads DEF ReadInv, Outcome
  <2>2. CASE reading.stage # "ok"
    BY <2>2 DEF ReadInv
  <2> QED BY <2>1, <2>2
<1>2. writing.sent \in 0 .. Len(writing.packets)
  <2>1. writing.sent \in Nat /\ Len(wire) \in Nat /\ Len(writing.packets) \in Nat
    BY DEF WriteInv, Calls
  <2>2. writing.sent <= Len(wire) /\ Len(wire) <= Len(writing.packets)
    BY DEF WriteInv, Begins
  <2> QED BY <2>1, <2>2
<1>3. reading.stage \in {"idle", "pending", "ok"} /\ writing.stage \in {"idle", "loop", "returned"}
  BY DEF ReadInv, WriteInv, Calls
<1> QED BY <1>1, <1>2, <1>3 DEF FindInv, DriverInv, Descriptors, Driver!TypeOK

\* The variables of every component stay in their types, whatever happens and however the
\* bounds are chosen: words have 32 bits and buffers may be anywhere (ehci.rs), counters
\* stay within their width (gpt.rs:143-155), no more packets are returned than there is
\* room for (midi.rs:252-261).
THEOREM TypesOKHolds ==
    ASSUME Memory!ConstantsOK, Ports!ConstantsOK, TimerConstants, MidiConstants
    PROVE  EachSpec => []TypesOK
<1>1. TimerInv => Timer!TypeOK
  BY DEF TimerInv
<1>2. BootInv => Boot!TypeOK
  BY DEF BootInv
<1>3. FindInv /\ ReadInv /\ WriteInv /\ DriverInv => Driver!TypeOK
  BY DriverTyped
<1>4. Ports!TypeOK => RootPort!TypeOK
  BY DEF Ports!TypeOK, RootPort!TypeOK, Ports!Port, RootPort!Port, Ports!DeviceStatus,
         RootPort!DeviceStatus, Ports!Stages, RootPort!Stages, Ports!Present, RootPort!Present,
         Ports!Absent, RootPort!Absent
<1>5. Memory!TypeOK /\ Driver!TypeOK /\ RootPort!TypeOK /\ Timer!TypeOK /\ Boot!TypeOK => TypesOK
  BY DEF TypesOK
<1> QED BY <1>1, <1>2, <1>3, <1>4, <1>5, TimerAlways, BootAlways, FindAlways, ReadAlways,
           WriteAlways, DriverAlways, PortAlone, Ports!Typing, WordsTyped, PTL

=============================================================================
