---------------------- MODULE PeriodicScheduleProofs -----------------------
(***************************************************************************)
(* PeriodicSchedule for every set of clients, every pool size and every    *)
(* length of the frame list: it is type correct and implements UsbPools,   *)
(* its pipes never stop by themselves, their packets arrive, the chain has *)
(* the pipes that are linked, and the controller stays within their memory.*)
(***************************************************************************)
EXTENDS PeriodicSchedule, FiniteSetTheorems, TLAPS

\* The states in which a client has the CPU.
Busy == Linking \cup Polling \cup Closing \cup {"panicked"}

Holders == {c \in Clients : pc[c] \in Holding}

\* Who holds what, and who runs.
Books ==
    /\ pc \in [Clients -> Resting \cup Holding]
    /\ running \in Clients \cup {Nobody}
    /\ \A c \in Clients : running = c <=> pc[c] \in Busy
    /\ cursor \in 0 .. Frames - 1 /\ crossed \in BOOLEAN
    /\ pipe \in [Clients -> 1 .. NumQh]
    /\ slot \in [Clients -> Qtds \cup {NoQtd}]
    /\ \A c \in Clients :
          IF pc[c] \in Holding THEN pipe[c] # NumQh /\ slot[c] # NoQtd
                               ELSE pipe[c] = NumQh /\ slot[c] = NoQtd
    /\ \A c, d \in Holders : c # d => pipe[c] # pipe[d] /\ slot[c] # slot[d]
    /\ qtdAllocated = {slot[c] : c \in Holders}

LEMMA ControlStates ==
    /\ Holding = {"link", "publish", "open", "ended", "copy", "rearm", "attach",
                  "unhead", "unchain", "wait"}
    /\ Busy = {"link", "publish", "copy", "rearm", "attach", "unhead", "unchain", "wait",
               "panicked"}
    /\ Linked = {"open", "ended", "copy", "rearm", "attach"}
    /\ Resting = {"idle", "waiting", "open", "ended", "panicked"}
BY DEF Holding, Busy, Linked, Resting, Linking, Polling, Closing

\* The indices of the pools.
LEMMA PoolRanges ==
    /\ Pools!PipesFor("interrupt") = 1 .. NumQh - 1
    /\ Pools!NoPipe = NumQh /\ Pools!QtdIdx = Qtds
    /\ NoQtd \notin Qtds /\ NoQh \notin Qhs
    /\ \A p \in 1 .. NumQh : p # NumQh => p + 1 \in Qhs /\ p - 1 \in Bufs
BY SizesAssumption
   DEF Pools!PipesFor, Pools!BulkPipes, Pools!NoPipe, Pools!QtdIdx, Qtds, NoQtd, Qhs, NoQh, Bufs

LEMMA HolderRanges ==
    ASSUME Books, NEW c \in Holders
    PROVE  /\ QhOf(c) \in Qhs /\ BufOf(c) \in Bufs /\ slot[c] \in Qtds
           /\ QhOf(c) # NoQh /\ slot[c] # NoQtd
           /\ \A d \in Holders : d # c =>
                 QhOf(d) # QhOf(c) /\ BufOf(d) # BufOf(c) /\ slot[d] # slot[c]
<1>1. pipe[c] \in 1 .. NumQh /\ pipe[c] # NumQh /\ slot[c] \in Qtds
  BY DEF Books, Holders
<1>2. \A d \in Holders : d # c => pipe[d] # pipe[c] /\ slot[d] # slot[c] /\ pipe[d] \in 1 .. NumQh
  BY DEF Books, Holders
<1>3. QhOf(c) \in Qhs /\ BufOf(c) \in Bufs
  BY <1>1, PoolRanges DEF QhOf, BufOf
<1>4. \A d \in Holders : d # c => QhOf(d) # QhOf(c) /\ BufOf(d) # BufOf(c)
  BY <1>1, <1>2, SizesAssumption DEF QhOf, BufOf
<1>5. NoQh \notin Qhs
  BY SizesAssumption DEF Qhs, NoQh
<1> QED BY <1>1, <1>2, <1>3, <1>4, <1>5, PoolRanges

-----------------------------------------------------------------------------
(* The pools *)

\* A client moves on, with the guards it has.
LEMMA MoveBooks ==
    ASSUME Books, NEW c \in Clients, NEW l \in Resting \cup Holding,
           pc' = [pc EXCEPT ![c] = l], UNCHANGED poolVars,
           pc[c] \in Holding <=> l \in Holding,
           running \in {Nobody, c}, running' = IF l \in Busy THEN c ELSE Nobody,
           cursor' \in 0 .. Frames - 1, crossed' \in BOOLEAN
    PROVE  Books'
<1>1. pipe' = pipe /\ slot' = slot /\ qtdAllocated' = qtdAllocated
  BY DEF poolVars
<1>2. \A d \in Clients : pc'[d] \in Holding <=> pc[d] \in Holding
  BY DEF Books
<1>3. Holders' = Holders
  BY <1>2 DEF Holders
<1>4. \A d \in Clients : running' = d <=> pc'[d] \in Busy
  <2>1. \A d \in Clients \ {c} : pc[d] \notin Busy
    BY NobodyAssumption DEF Books
  <2> QED BY <2>1, NobodyAssumption DEF Books
<1>5. pc' \in [Clients -> Resting \cup Holding] /\ running' \in Clients \cup {Nobody}
  BY DEF Books
<1> QED BY <1>1, <1>2, <1>3, <1>4, <1>5 DEF Books

\* One that holds guards before and after is the same for the pools.
LEMMA MoveHidden ==
    ASSUME Books, NEW c \in Clients, NEW l \in Holding,
           pc' = [pc EXCEPT ![c] = l] \/ pc' = pc, UNCHANGED poolVars, pc[c] \in Holding
    PROVE  UNCHANGED Pools!vars
<1>1. pipe' = pipe /\ slot' = slot /\ qtdAllocated' = qtdAllocated
  BY DEF poolVars
<1>2. \A d \in Clients : /\ pc'[d] \in Holding <=> pc[d] \in Holding
                         /\ pc[d] \notin Holding => pc'[d] = pc[d]
                         /\ pc'[d] = "idle" <=> pc[d] = "idle"
  BY ControlStates DEF Books
<1>3. PhaseBar' = PhaseBar
  BY <1>2 DEF PhaseBar
<1>4. KindBar' = KindBar
  BY <1>2 DEF KindBar
<1>5. SlotsBar' = SlotsBar
  BY <1>1, <1>2 DEF SlotsBar
<1> QED BY <1>1, <1>3, <1>4, <1>5 DEF Pools!vars

LEMMA CallBooks ==
    ASSUME Books, NEW c \in Clients, Call(c)
    PROVE  Books' /\ Pools!Call(c, "interrupt")
<1>1. pc[c] = "idle" /\ running = Nobody /\ pc' = [pc EXCEPT ![c] = "waiting"]
      /\ UNCHANGED <<running, cursor, crossed, poolVars>>
  BY DEF Call, Goto
<1>2. Books'
  BY <1>1, MoveBooks, ControlStates DEF Books
<1>3. PhaseBar[c] = "idle" /\ PhaseBar' = [PhaseBar EXCEPT ![c] = "waiting"]
  BY <1>1, ControlStates DEF Books, PhaseBar
<1>4. KindBar' = [KindBar EXCEPT ![c] = "interrupt"]
  BY <1>1 DEF Books, KindBar
<1>5. SlotsBar' = SlotsBar
  BY <1>1, ControlStates DEF Books, SlotsBar, poolVars
<1> QED BY <1>1, <1>2, <1>3, <1>4, <1>5 DEF Pools!Call, poolVars

LEMMA GiveUpBooks ==
    ASSUME Books, NEW c \in Clients, GiveUp(c)
    PROVE  Books' /\ Pools!GiveUp(c)
<1>1. pc[c] = "waiting" /\ running = Nobody /\ pc' = [pc EXCEPT ![c] = "idle"]
      /\ UNCHANGED <<running, cursor, crossed, poolVars>>
  BY DEF GiveUp, Goto
<1>2. Books'
  BY <1>1, MoveBooks, ControlStates DEF Books
<1>3. PhaseBar[c] = "waiting" /\ PhaseBar' = [PhaseBar EXCEPT ![c] = "idle"]
  BY <1>1, ControlStates DEF Books, PhaseBar
<1>4. KindBar' = [KindBar EXCEPT ![c] = "none"]
  BY <1>1 DEF Books, KindBar
<1>5. SlotsBar' = SlotsBar
  BY <1>1, ControlStates DEF Books, SlotsBar, poolVars
<1> QED BY <1>1, <1>2, <1>3, <1>4, <1>5 DEF Pools!GiveUp, Pools!NoKind, poolVars

LEMMA PanicBooks ==
    ASSUME Books, NEW c \in Clients, Panic(c)
    PROVE  Books' /\ Pools!Panic(c)
<1>1. pc[c] = "waiting" /\ running = Nobody /\ pc' = [pc EXCEPT ![c] = "panicked"]
      /\ running' = c /\ UNCHANGED <<cursor, crossed, poolVars>>
      /\ Pools!FreePipes("interrupt") # {} /\ Pools!FreeQtds = {}
  BY DEF Panic, Goto
<1>2. Books'
  BY <1>1, MoveBooks, ControlStates DEF Books
<1>3. PhaseBar[c] = "waiting" /\ PhaseBar' = [PhaseBar EXCEPT ![c] = "panicked"]
  BY <1>1, ControlStates DEF Books, PhaseBar
<1>4. KindBar' = KindBar /\ KindBar[c] = "interrupt"
  BY <1>1 DEF Books, KindBar
<1>5. SlotsBar' = SlotsBar
  BY <1>1, ControlStates DEF Books, SlotsBar, poolVars
<1>6. Pools!TooFewQtds(c)
  <2>1. Pools!Cardinality({}) = 0
    BY FS_EmptySet, Zenon DEF Pools!Cardinality, Cardinality
  <2>2. Pools!QtdNeed("interrupt") = 1
    BY DEF Pools!QtdNeed
  <2> QED BY <1>1, <1>4, <2>1, <2>2 DEF Pools!TooFewQtds
<1> QED BY <1>1, <1>2, <1>3, <1>4, <1>5, <1>6 DEF Pools!Panic, poolVars

\* A pipe and the lowest free qTD are taken together.
LEMMA BeginBooks ==
    ASSUME Books, NEW c \in Clients, Begin(c)
    PROVE  Books' /\ Pools!Begin(c)
<1>1. PICK p \in Pools!FreePipes("interrupt"), t \in Pools!FreeQtds :
          /\ \A u \in Pools!FreeQtds : t <= u
          /\ pipe' = [pipe EXCEPT ![c] = p]
          /\ slot' = [slot EXCEPT ![c] = t]
          /\ qtdAllocated' = qtdAllocated \cup {t}
  BY DEF Begin
<1>2. pc[c] = "waiting" /\ running = Nobody /\ pc' = [pc EXCEPT ![c] = "link"]
      /\ running' = c /\ UNCHANGED <<cursor, crossed>>
  BY DEF Begin, Goto
<1>3. /\ p \in 1 .. NumQh /\ p # NumQh /\ \A d \in Clients : pipe[d] # p
      /\ t \in Qtds /\ t # NoQtd /\ t \notin qtdAllocated
  BY PoolRanges, SizesAssumption DEF Pools!FreePipes, Pools!FreeQtds
<1>4. Holders' = Holders \cup {c} /\ c \notin Holders
  BY <1>2, ControlStates DEF Books, Holders
<1>5. qtdAllocated' = {slot'[d] : d \in Holders'}
  BY <1>1, <1>4 DEF Books, Holders
<1>6. \A d, e \in Holders' : d # e => pipe'[d] # pipe'[e] /\ slot'[d] # slot'[e]
  BY <1>1, <1>3, <1>4 DEF Books, Holders
<1>7. \A d \in Clients : running' = d <=> pc'[d] \in Busy
  <2>1. \A d \in Clients : pc[d] \notin Busy
    BY <1>2, NobodyAssumption DEF Books
  <2> QED BY <1>2, <2>1, ControlStates DEF Books
<1>8. Books'
  BY <1>1, <1>2, <1>3, <1>5, <1>6, <1>7, ControlStates DEF Books
<1>9. PhaseBar[c] = "waiting" /\ PhaseBar' = [PhaseBar EXCEPT ![c] = "holding"]
  BY <1>2, ControlStates DEF Books, PhaseBar
<1>10. KindBar' = KindBar /\ KindBar[c] = "interrupt"
  BY <1>2 DEF Books, KindBar
<1>11. PICK s : s = [i \in 1 .. 1 |-> t]
  OBVIOUS
<1>12. SlotsBar' = [SlotsBar EXCEPT ![c] = s]
  <2>1. pc'[c] \in Holding /\ slot'[c] = t
    BY <1>1, <1>2, ControlStates DEF Books
  <2>2. \A d \in Clients : d # c => pc'[d] = pc[d] /\ slot'[d] = slot[d]
    BY <1>1, <1>2 DEF Books
  <2>3. SlotsBar'[c] = s
    BY <1>11, <2>1, Zenon DEF SlotsBar
  <2>4. \A d \in Clients : d # c => SlotsBar'[d] = SlotsBar[d]
    BY <2>2, Zenon DEF SlotsBar
  <2>5. PICK old : old = SlotsBar
    OBVIOUS
  <2>6. PICK new : new = SlotsBar'
    OBVIOUS
  <2>7. DOMAIN old = Clients /\ old = [d \in Clients |-> old[d]]
    BY <2>5, Zenon DEF SlotsBar
  <2>8. DOMAIN new = Clients /\ new = [d \in Clients |-> new[d]]
    BY <2>6, Zenon DEF SlotsBar
  <2>9. new[c] = s /\ \A d \in Clients : d # c => new[d] = old[d]
    BY <2>3, <2>4, <2>5, <2>6, Zenon
  <2>10. new = [old EXCEPT ![c] = s]
    BY <2>7, <2>8, <2>9
  <2> QED BY <2>5, <2>6, <2>10, Zenon
<1>13. Pools!QtdNeed("interrupt") = 1
  BY DEF Pools!QtdNeed
<1>14. Pools!FirstFit(s, 1) /\ s \in [1 .. 1 -> Pools!QtdIdx]
  <2>1. s \in [1 .. 1 -> Pools!FreeQtds] /\ s[1] = t /\ \A i \in 1 .. 1 : i = 1
    BY <1>11
  <2>2. \A f \in Pools!FreeQtds : ~(f < t)
    BY <1>1, SizesAssumption DEF Pools!FreeQtds, Pools!QtdIdx
  <2> QED BY <2>1, <2>2 DEF Pools!FirstFit, Pools!FreeQtds
<1>15. qtdAllocated' = qtdAllocated \cup {s[i] : i \in DOMAIN s}
  BY <1>1, <1>11
<1>16. Pools!Begin(c)
  BY <1>1, <1>9, <1>10, <1>12, <1>13, <1>14, <1>15 DEF Pools!Begin
<1> QED BY <1>8, <1>16

LEMMA FreeBooks ==
    ASSUME Books, NEW c \in Clients, Free(c)
    PROVE  Books' /\ Pools!Release(c)
<1>1. /\ pc[c] = "wait" /\ running = c
      /\ pipe' = [pipe EXCEPT ![c] = Pools!NoPipe]
      /\ slot' = [slot EXCEPT ![c] = NoQtd]
      /\ qtdAllocated' = qtdAllocated \ {slot[c]}
      /\ pc' = [pc EXCEPT ![c] = "idle"] /\ running' = Nobody
      /\ UNCHANGED <<cursor, crossed>>
  BY DEF Free, Goto
<1>2. Holders' = Holders \ {c} /\ c \in Holders
  BY <1>1, ControlStates DEF Books, Holders
<1>3. qtdAllocated' = {slot'[d] : d \in Holders'}
  <2>1. \A d \in Holders' : slot'[d] = slot[d] /\ slot[d] # slot[c]
    BY <1>1, <1>2 DEF Books, Holders
  <2> QED BY <1>1, <1>2, <2>1 DEF Books
<1>4. \A d, e \in Holders' : d # e => pipe'[d] # pipe'[e] /\ slot'[d] # slot'[e]
  BY <1>1, <1>2 DEF Books, Holders
<1>5. \A d \in Clients : running' = d <=> pc'[d] \in Busy
  BY <1>1, NobodyAssumption, ControlStates DEF Books
<1>6. Books'
  <2>1. pipe' \in [Clients -> 1 .. NumQh] /\ slot' \in [Clients -> Qtds \cup {NoQtd}]
    BY <1>1, PoolRanges, SizesAssumption DEF Books
  <2>2. pc' \in [Clients -> Resting \cup Holding] /\ running' \in Clients \cup {Nobody}
    BY <1>1, ControlStates DEF Books
  <2>3. \A d \in Clients :
          IF pc'[d] \in Holding THEN pipe'[d] # NumQh /\ slot'[d] # NoQtd
                                 ELSE pipe'[d] = NumQh /\ slot'[d] = NoQtd
    BY <1>1, PoolRanges, ControlStates DEF Books
  <2> QED BY <1>1, <1>3, <1>4, <1>5, <2>1, <2>2, <2>3 DEF Books
<1>7. PhaseBar[c] = "holding" /\ PhaseBar' = [PhaseBar EXCEPT ![c] = "idle"]
  BY <1>1, ControlStates DEF Books, PhaseBar
<1>8. KindBar' = [KindBar EXCEPT ![c] = "none"]
  BY <1>1 DEF Books, KindBar
<1>9. SlotsBar' = [SlotsBar EXCEPT ![c] = [i \in 1 .. 0 |-> 0]]
  <2>1. \A d \in Clients : d # c => slot'[d] = slot[d] /\ pc'[d] = pc[d]
    BY <1>1 DEF Books
  <2>2. \A d \in Clients : SlotsBar'[d] = IF d = c THEN [i \in 1 .. 0 |-> 0] ELSE SlotsBar[d]
    <3>1. SlotsBar'[c] = [i \in 1 .. 0 |-> slot'[c]]
      BY <1>1, ControlStates DEF Books, SlotsBar
    <3>2. [i \in 1 .. 0 |-> slot'[c]] = [i \in 1 .. 0 |-> 0]
      OBVIOUS
    <3>3. \A d \in Clients : d # c => SlotsBar'[d] = SlotsBar[d]
      BY <2>1 DEF SlotsBar
    <3> QED BY <3>1, <3>2, <3>3
  <2> QED BY <2>2 DEF SlotsBar
<1>10. Pools!SlotSet(c) = {slot[c]}
  BY <1>1, ControlStates DEF Pools!SlotSet, SlotsBar
<1> QED BY <1>1, <1>6, <1>7, <1>8, <1>9, <1>10 DEF Pools!Release, Pools!NoKind

LEMMA SameBooks ==
    ASSUME Books, UNCHANGED <<pc, running, poolVars>>,
           cursor' \in 0 .. Frames - 1, crossed' \in BOOLEAN
    PROVE  Books' /\ UNCHANGED Pools!vars
<1>1. pipe' = pipe /\ slot' = slot /\ qtdAllocated' = qtdAllocated
  BY DEF poolVars
<1> QED BY <1>1 DEF Books, Holders, Pools!vars, PhaseBar, KindBar, SlotsBar

\* A turn of a loop over the frame list.
LEMMA TurnBooks ==
    ASSUME Books, NEW c \in Clients, NEW l \in {"open", "unchain"},
           pc[c] = IF l = "open" THEN "publish" ELSE "unhead", running = c,
           NextEntry(c, l), UNCHANGED <<crossed, poolVars>>
    PROVE  Books' /\ UNCHANGED Pools!vars
<1>1. CASE cursor + 1 < Frames
  <2>1. cursor' \in 0 .. Frames - 1 /\ UNCHANGED <<pc, running>>
    BY <1>1, SizesAssumption DEF Books, NextEntry
  <2> QED BY <2>1, SameBooks DEF Books
<1>2. CASE ~(cursor + 1 < Frames)
  <2>1. /\ pc' = [pc EXCEPT ![c] = l] /\ cursor' \in 0 .. Frames - 1
        /\ running' = IF l = "open" THEN Nobody ELSE c
    BY <1>2, SizesAssumption DEF NextEntry, Goto
  <2>2. Books'
    BY <2>1, MoveBooks, ControlStates DEF Books
  <2>3. UNCHANGED Pools!vars
    BY <2>1, MoveHidden, ControlStates
  <2> QED BY <2>2, <2>3
<1> QED BY <1>1, <1>2

\* Between the guards' being taken and given back a pipe keeps them.
LEMMA MidBooks ==
    ASSUME Books, NEW c \in Clients,
           \/ LinkQh(c) \/ PublishEntry(c) \/ Poll(c) \/ Copy(c) \/ Rearm(c) \/ Reattach(c)
           \/ Drop(c) \/ UnheadEntry(c) \/ Unchain(c)
    PROVE  Books' /\ UNCHANGED Pools!vars
<1>1. CASE PublishEntry(c)
  <2>1. /\ pc[c] = "publish" /\ running = c /\ NextEntry(c, "open")
        /\ UNCHANGED <<crossed, poolVars>>
    BY <1>1 DEF PublishEntry
  <2> QED BY <2>1, TurnBooks
<1>2. CASE UnheadEntry(c)
  <2>1. /\ pc[c] = "unhead" /\ running = c /\ NextEntry(c, "unchain")
        /\ UNCHANGED <<crossed, poolVars>>
    BY <1>2 DEF UnheadEntry
  <2> QED BY <2>1, TurnBooks
<1>3. ASSUME NEW l \in Holding, pc' = [pc EXCEPT ![c] = l], pc[c] \in Holding,
             running \in {Nobody, c}, running' = (IF l \in Busy THEN c ELSE Nobody),
             UNCHANGED poolVars, cursor' \in {cursor, 0}, crossed' \in {crossed, FALSE}
      PROVE  Books' /\ UNCHANGED Pools!vars
  <2>1. cursor' \in 0 .. Frames - 1
    BY <1>3, SizesAssumption DEF Books
  <2>2. crossed' \in BOOLEAN
    BY <1>3, Zenon DEF Books
  <2>3. Books'
    BY <1>3, <2>1, <2>2, MoveBooks
  <2>4. UNCHANGED Pools!vars
    BY <1>3, MoveHidden
  <2> QED BY <2>3, <2>4
<1>4. CASE LinkQh(c) \/ Copy(c) \/ Rearm(c) \/ Reattach(c)
  BY <1>3, <1>4, ControlStates DEF LinkQh, Copy, Rearm, Reattach, Goto
<1>5. CASE Poll(c)
  BY <1>3, <1>5, ControlStates DEF Poll, Goto
<1>6. CASE Drop(c) \/ Unchain(c)
  BY <1>3, <1>6, ControlStates DEF Drop, Unchain, Goto
<1> QED BY <1>1, <1>2, <1>4, <1>5, <1>6

LEMMA StillBooks ==
    ASSUME Books, UNCHANGED vars \/ Controller
    PROVE  Books' /\ UNCHANGED Pools!vars
<1>1. UNCHANGED <<pc, running, cursor, poolVars>> /\ crossed' \in {crossed, TRUE}
  BY DEF vars, clientVars, Controller, HcFrame, HcAdvance, HcFetch, HcPacket, HcHalt
<1> QED BY <1>1, SameBooks DEF Books

LEMMA InitBooks ==
    ASSUME Init
    PROVE  Books /\ Pools!Init
<1>1. /\ pc = [c \in Clients |-> "idle"]
      /\ running = Nobody /\ cursor = 0 /\ crossed = TRUE
      /\ pipe = [c \in Clients |-> NumQh]
      /\ slot = [c \in Clients |-> NoQtd]
      /\ qtdAllocated = {}
  BY PoolRanges DEF Init
<1>2. Holders = {}
  BY <1>1, ControlStates DEF Holders
<1>3. Books
  BY <1>1, <1>2, SizesAssumption, NobodyAssumption, ControlStates DEF Books
<1>4. PhaseBar = [c \in Clients |-> "idle"] /\ KindBar = [c \in Clients |-> "none"]
  BY <1>1, ControlStates DEF PhaseBar, KindBar
<1>5. SlotsBar = [c \in Clients |-> [i \in 1 .. 0 |-> 0]]
  <2>1. \A c \in Clients : SlotsBar[c] = [i \in 1 .. 0 |-> 0]
    <3>1. \A c \in Clients : SlotsBar[c] = [i \in 1 .. 0 |-> slot[c]]
      BY <1>1, ControlStates DEF SlotsBar
    <3>2. \A c \in Clients : [i \in 1 .. 0 |-> slot[c]] = [i \in 1 .. 0 |-> 0]
      OBVIOUS
    <3> QED BY <3>1, <3>2
  <2> QED BY <2>1 DEF SlotsBar
<1> QED BY <1>1, <1>3, <1>4, <1>5, PoolRanges DEF Pools!Init, Pools!NoKind

LEMMA StepBooks ==
    ASSUME Books, [Next]_vars
    PROVE  Books' /\ [Pools!Next]_(Pools!vars)
<1>1. CASE UNCHANGED vars \/ Controller
  BY <1>1, StillBooks
<1>2. ASSUME NEW c \in Clients, Run(c)
      PROVE  Books' /\ [Pools!Next]_(Pools!vars)
  <2>1. CASE \/ LinkQh(c) \/ PublishEntry(c) \/ Poll(c) \/ Copy(c) \/ Rearm(c) \/ Reattach(c)
             \/ Drop(c) \/ UnheadEntry(c) \/ Unchain(c)
    BY <2>1, MidBooks
  <2>2. CASE Call(c) \/ GiveUp(c) \/ Begin(c) \/ Panic(c) \/ Free(c)
    <3>1. running = Nobody \/ (running = c /\ pc[c] # "panicked")
      BY <2>2 DEF Call, GiveUp, Begin, Panic, Free
    <3>2. \A d \in Clients : pc[d] # "panicked"
      BY <3>1, NobodyAssumption, ControlStates DEF Books
    <3>3. Pools!Running
      BY <3>2 DEF Pools!Running, PhaseBar
    <3>4. "interrupt" \in Pools!Kinds
      BY DEF Pools!Kinds
    <3> QED BY <2>2, <3>3, <3>4, CallBooks, GiveUpBooks, BeginBooks, PanicBooks, FreeBooks
            DEF Pools!Next
  <2> QED BY <1>2, <2>1, <2>2 DEF Run
<1> QED BY <1>1, <1>2 DEF Next

\* Interrupt pipes take pipes and qTDs only as UsbPools allows and give both back
\* (transfer.rs:565-577, interrupt_pipe.rs:204-222).
THEOREM PipesRefine == Spec => ImplementsPools
<1>1. Init => Books /\ Pools!Init
  BY InitBooks
<1>2. Books /\ [Next]_vars => Books' /\ [Pools!Next]_(Pools!vars)
  BY StepBooks
<1> QED BY <1>1, <1>2, PTL DEF Spec, ImplementsPools, Pools!Spec

-----------------------------------------------------------------------------
(* What UsbPools promises, for the pipes.  Held is Pools with its theorems. *)

Held == INSTANCE UsbPoolsProofs WITH phase <- PhaseBar, kind <- KindBar, slots <- SlotsBar

\* Two instances of one module: equal operators, definition by definition.
LEMMA SameOperators ==
    /\ Held!NoPipe = Pools!NoPipe /\ Held!NoKind = Pools!NoKind /\ Held!Kinds = Pools!Kinds
    /\ Held!vars = Pools!vars /\ Held!QtdIdx = Pools!QtdIdx
    /\ \A k : Held!FreePipes(k) = Pools!FreePipes(k) /\ Held!QtdNeed(k) = Pools!QtdNeed(k)
    /\ \A c : Held!SlotSet(c) = Pools!SlotSet(c)
    /\ \A c : Held!TooFewQtds(c) <=> Pools!TooFewQtds(c)
    /\ \A s, n : Held!FirstFit(s, n) <=> Pools!FirstFit(s, n)
<1>1. /\ Held!NoPipe = Pools!NoPipe /\ Held!NoKind = Pools!NoKind /\ Held!Kinds = Pools!Kinds
      /\ Held!QtdIdx = Pools!QtdIdx /\ Held!FreeQtds = Pools!FreeQtds /\ Held!vars = Pools!vars
  BY DEF Held!NoPipe, Pools!NoPipe, Held!NoKind, Pools!NoKind, Held!Kinds, Pools!Kinds,
     Held!QtdIdx, Pools!QtdIdx, Held!FreeQtds, Pools!FreeQtds, Held!vars, Pools!vars
<1>2. \A k : Held!PipesFor(k) = Pools!PipesFor(k) /\ Held!QtdNeed(k) = Pools!QtdNeed(k)
  BY DEF Held!PipesFor, Pools!PipesFor, Held!BulkPipes, Pools!BulkPipes, Held!ControlPipe,
     Pools!ControlPipe, Held!QtdNeed, Pools!QtdNeed
<1>3. \A k : Held!FreePipes(k) = Pools!FreePipes(k)
  BY <1>2 DEF Held!FreePipes, Pools!FreePipes
<1>4. \A c : Held!SlotSet(c) = Pools!SlotSet(c)
  BY Zenon DEF Held!SlotSet, Pools!SlotSet
<1>5. \A c : Held!TooFewQtds(c) <=> Pools!TooFewQtds(c)
  BY <1>1, <1>2, <1>3, Zenon DEF Held!TooFewQtds, Pools!TooFewQtds,
     Held!Cardinality, Pools!Cardinality
<1>6. \A s, n : Held!FirstFit(s, n) <=> Pools!FirstFit(s, n)
  BY <1>1 DEF Held!FirstFit, Pools!FirstFit
<1> QED BY <1>1, <1>2, <1>3, <1>4, <1>5, <1>6

LEMMA SameStep ==
    ASSUME [Pools!Next]_(Pools!vars)
    PROVE  [Held!Next]_(Held!vars)
<1>1. CASE UNCHANGED Pools!vars
  BY <1>1 DEF Held!vars, Pools!vars
<1>2. ASSUME NEW c \in Clients, NEW k \in Pools!Kinds, Pools!Call(c, k)
      PROVE  Held!Call(c, k)
  BY <1>2 DEF Held!Call, Pools!Call
<1>3. ASSUME NEW c \in Clients, Pools!Begin(c)
      PROVE  Held!Begin(c)
  BY <1>3, SameOperators, Zenon DEF Held!Begin, Pools!Begin
<1>4. ASSUME NEW c \in Clients
      PROVE  /\ Pools!BeginFails(c) => Held!BeginFails(c)
             /\ Pools!Panic(c) => Held!Panic(c)
             /\ Pools!GiveUp(c) => Held!GiveUp(c)
             /\ Pools!Release(c) => Held!Release(c)
  BY SameOperators DEF Held!BeginFails, Pools!BeginFails, Held!Panic, Pools!Panic,
     Held!GiveUp, Pools!GiveUp, Held!Release, Pools!Release
<1> QED BY SameOperators, <1>1, <1>2, <1>3, <1>4
        DEF Held!Next, Pools!Next, Held!Running, Pools!Running

LEMMA SameSpec == Pools!Spec => Held!Spec
<1>1. Pools!Init => Held!Init
  BY DEF Pools!Init, Held!Init, Pools!NoKind, Held!NoKind, Pools!NoPipe, Held!NoPipe
<1>2. [Pools!Next]_(Pools!vars) => [Held!Next]_(Held!vars)
  BY SameStep
<1> QED BY <1>1, <1>2, PTL DEF Pools!Spec, Held!Spec

LEMMA HeldAssumptions == Held!NumQhAssumption /\ Held!NumQtdAssumption
BY SizesAssumption DEF Held!NumQhAssumption, Held!NumQtdAssumption

\* No call has run into the expect of do_alloc_interrupt_pipe.
NoPanic == \A c \in Clients : pc[c] # "panicked"

\* With a qTD pool as large as UsbPools asks for, whoever gets a pipe gets its qTD
\* and nothing panics (transfer.rs:565-570), whatever the controller does.
THEOREM PipesSupplied ==
    ASSUME Pools!PoolLargeEnough
    PROVE  Spec => []NoPanic
<1>1. Held!PoolLargeEnough
  BY DEF Held!PoolLargeEnough, Pools!PoolLargeEnough
<1>2. Held!Spec => []Held!NeverExhausted
  BY <1>1, HeldAssumptions, Held!NeverExhaustedHolds, PTL
<1>3. Held!NeverExhausted => NoPanic
  BY ControlStates DEF Held!NeverExhausted, NoPanic, PhaseBar
<1> QED BY <1>2, <1>3, PipesRefine, SameSpec, PTL DEF ImplementsPools

-----------------------------------------------------------------------------
(* The pipes *)

QhSet == [ep : Clients \cup {Nobody}, cur : Qtds \cup {NoQtd}, next : Qtds \cup {NoQtd},
          st : {"idle", "active", "halted"}, dt : BOOLEAN]
QtdSet == [st : {"zero", "active", "done", "halted"}, rem : 0 .. MaxPacketSize]
PacketSet == [of : Clients \cup {Nobody}, n : 0 .. Numbers - 1, len : 0 .. MaxPacketSize]

\* The types of what the driver, the controller and the devices share.
Memory ==
    /\ entry \in [0 .. Frames - 1 -> Qhs \cup {NoQh}]
    /\ hlink \in [Qhs -> Qhs \cup {NoQh}]
    /\ qh \in [Qhs -> QhSet]
    /\ qtd \in [Qtds -> QtdSet]
    /\ buf \in [Bufs -> PacketSet]
    /\ hcAt \in Qhs \cup {NoQh} /\ hcNext \in Qhs \cup {NoQh}
    /\ sent \in [Clients -> 0 .. Numbers - 1] /\ got \in [Clients -> 0 .. Numbers - 1]
    /\ last \in [Clients -> PacketSet] /\ item \in [Clients -> PacketSet]

\* A QH with overlay h, and a qTD in state st.
Overlay(q, st, cur, next) == qh[q].st = st /\ qh[q].cur = cur /\ qh[q].next = next

\* The qTD of c is executed, or waits to be fetched, or is done, or has halted the QH,
\* or has been made ready but not yet joined to the QH.
Executing(c) ==
    /\ pc[c] \notin Polling /\ qtd[slot[c]].st = "active"
    /\ Overlay(QhOf(c), "active", slot[c], NoQtd)
Offered(c) ==
    /\ pc[c] \notin Polling /\ qtd[slot[c]].st = "active"
    /\ Overlay(QhOf(c), "idle", NoQtd, slot[c])
Completed(c) ==
    /\ pc[c] # "attach" /\ qtd[slot[c]].st = "done"
    /\ Overlay(QhOf(c), "idle", NoQtd, NoQtd)
Failed(c) ==
    /\ pc[c] \notin Polling /\ qtd[slot[c]].st = "halted"
    /\ Overlay(QhOf(c), "halted", NoQtd, NoQtd)
Detached(c) ==
    /\ pc[c] = "attach" /\ qtd[slot[c]].st = "active"
    /\ Overlay(QhOf(c), "idle", NoQtd, NoQtd)

PipeOK(c) ==
    /\ qh[QhOf(c)].ep = c
    /\ Executing(c) \/ Offered(c) \/ Completed(c) \/ Failed(c) \/ Detached(c)

\* A packet was sent that the stream has not returned.
Pending(c) == qtd[slot[c]].st = "done" /\ pc[c] # "rearm"

\* The toggles agree, no packet is lost or counted twice, and the last one is where
\* the driver looks for it, unless a larger one of another pipe has come there.
PacketOK(c) ==
    /\ qh[QhOf(c)].dt <=> DevToggle(c)
    /\ sent[c] = (got[c] + (IF Pending(c) THEN 1 ELSE 0)) % Numbers
    /\ qtd[slot[c]].st = "done" =>
          /\ qtd[slot[c]].rem = MaxPacketSize - last[c].len
          /\ last[c].len = 0 => last[c] = NoPacket
          /\ last[c].len > 0 => buf[BufOf(c)] = last[c] \/ Overrun(c)
    /\ pc[c] \in {"rearm", "attach"} => item[c] = Cut(last[c]) \/ Overrun(c)

PipeInv ==
    /\ \A c \in Holders : PipeOK(c) /\ PacketOK(c)
    /\ \A c \in Clients \ Holders : sent[c] = 0 /\ got[c] = 0
    /\ \A q \in Qhs : qh[q].st # "halted" => \E c \in Holders : QhOf(c) = q


-----------------------------------------------------------------------------
(* Type correctness *)

LEMMA InitMemory ==
    ASSUME Init
    PROVE  Memory
<1>1. NoPacket \in PacketSet /\ ResetQh \in QhSet /\ FreeQtd \in QtdSet
  BY SizesAssumption DEF NoPacket, PacketSet, ResetQh, QhSet, FreeQtd, QtdSet
<1>2. 0 \in 0 .. Numbers - 1
  BY SizesAssumption
<1> QED BY <1>1, <1>2 DEF Init, Memory

LEMMA PacketTypes ==
    ASSUME NEW c \in Clients \cup {Nobody}, NEW n \in 0 .. Numbers - 1, NEW len \in 0 .. MaxPacketSize
    PROVE  Packet(c, n, len) \in PacketSet /\ NoPacket \in PacketSet
BY SizesAssumption DEF Packet, PacketSet, NoPacket

LEMMA Counted ==
    ASSUME NEW n \in 0 .. Numbers - 1
    PROVE  (n + 1) % Numbers = IF n + 1 = Numbers THEN 0 ELSE n + 1
<1>1. CASE n + 1 = Numbers
  BY <1>1, SizesAssumption
<1>2. CASE n + 1 # Numbers
  BY <1>2, SizesAssumption
<1> QED BY <1>1, <1>2

\* What the clients do to the schedule and the pipes.
LEMMA RunMemory ==
    ASSUME Books, Memory, NEW c \in Clients, Run(c)
    PROVE  Memory'
<1>1. CASE Call(c) \/ GiveUp(c) \/ Panic(c) \/ Poll(c) \/ Drop(c)
  BY <1>1 DEF Memory, Call, GiveUp, Panic, Poll, Drop, linkVars, hcVars, devVars, itemVars
<1>2. CASE Begin(c)
  <2>1. PICK p \in Pools!FreePipes("interrupt"), t \in Pools!FreeQtds :
            /\ hlink' = [hlink EXCEPT ![p + 1] = NoQh]
            /\ qh' = [qh EXCEPT ![p + 1] = [ResetQh EXCEPT !.ep = c, !.next = t, !.st = "idle"]]
            /\ qtd' = [qtd EXCEPT ![t] = ArmedQtd]
    BY <1>2 DEF Begin
  <2>2. t \in Qtds
    BY PoolRanges DEF Pools!FreeQtds
  <2>3. [ResetQh EXCEPT !.ep = c, !.next = t, !.st = "idle"] \in QhSet /\ ArmedQtd \in QtdSet
    <3>1. ArmedQtd \in QtdSet
      BY SizesAssumption DEF ArmedQtd, QtdSet
    <3>2. ResetQh \in QhSet
      BY DEF ResetQh, QhSet
    <3> QED BY <2>2, <3>1, <3>2 DEF QhSet
  <2>4. UNCHANGED <<entry, buf, hcVars, devVars, itemVars>>
    BY <1>2 DEF Begin
  <2>5. hlink' \in [Qhs -> Qhs \cup {NoQh}] /\ qh' \in [Qhs -> QhSet] /\ qtd' \in [Qtds -> QtdSet]
    BY <2>1, <2>3 DEF Memory
  <2> QED BY <2>4, <2>5 DEF Memory, hcVars, devVars, itemVars
<1>3. CASE LinkQh(c)
  <2>1. entry[0] \in Qhs \cup {NoQh}
    BY SizesAssumption DEF Memory
  <2> QED BY <1>3, <2>1 DEF Memory, LinkQh, hcVars, devVars, itemVars
<1>4. CASE PublishEntry(c)
  <2>1. QhOf(c) \in Qhs
    BY <1>4, HolderRanges, ControlStates DEF PublishEntry, Holders
  <2> QED BY <1>4, <2>1 DEF Memory, PublishEntry, hcVars, devVars, itemVars
<1>5. CASE Copy(c)
  <2>1. BufOf(c) \in Bufs /\ slot[c] \in Qtds
    BY <1>5, HolderRanges, ControlStates DEF Copy, Holders
  <2>2. qtd[slot[c]].rem \in 0 .. MaxPacketSize /\ buf[BufOf(c)] \in PacketSet
    BY <2>1 DEF Memory, QtdSet
  <2>3. Received(c) \in 0 .. MaxPacketSize
    BY <2>2, SizesAssumption DEF Received, Lower
  <2>4. [buf[BufOf(c)] EXCEPT !.len = Received(c)] \in PacketSet /\ NoPacket \in PacketSet
    BY <2>2, <2>3, SizesAssumption DEF PacketSet, NoPacket
  <2>5. PICK i \in PacketSet : item' = [item EXCEPT ![c] = i]
    BY <1>5, <2>4 DEF Copy
  <2>6. got' \in [Clients -> 0 .. Numbers - 1]
    <3>1. got \in [Clients -> 0 .. Numbers - 1] /\ got' = [got EXCEPT ![c] = (got[c] + 1) % Numbers]
      BY <1>5 DEF Copy, Memory
    <3>2. got[c] \in 0 .. Numbers - 1
      BY <3>1
    <3>3. (got[c] + 1) % Numbers \in 0 .. Numbers - 1
      BY <3>2, Counted, SizesAssumption
    <3> QED BY <3>1, <3>3
  <2> QED BY <1>5, <2>5, <2>6 DEF Memory, Copy, linkVars, hcVars, devVars
<1>6. CASE Rearm(c)
  <2>1. ArmedQtd \in QtdSet
    BY SizesAssumption DEF ArmedQtd, QtdSet
  <2> QED BY <1>6, <2>1 DEF Memory, Rearm, linkVars, hcVars, devVars, itemVars
<1>7. CASE Reattach(c)
  <2>1. QhOf(c) \in Qhs
    BY <1>7, HolderRanges, ControlStates DEF Reattach, Holders
  <2>2. PICK r : r = Reattached(qh[QhOf(c)], slot[c])
    OBVIOUS
  <2>3. r \in QhSet
    <3>1. qh[QhOf(c)] \in QhSet /\ slot[c] \in Qtds \cup {NoQtd}
      BY <2>1 DEF Memory, Books
    <3> QED BY <2>2, <3>1 DEF QhSet, Reattached
  <2>4. NoPacket \in PacketSet
    BY SizesAssumption DEF PacketSet, NoPacket
  <2>5. qh' = [qh EXCEPT ![QhOf(c)] = r]
    BY <1>7, <2>2 DEF Reattach
  <2>6. qh' \in [Qhs -> QhSet]
    BY <2>3, <2>5 DEF Memory
  <2> QED BY <1>7, <2>4, <2>6 DEF Memory, Reattach, linkVars, hcVars
<1>8. CASE UnheadEntry(c)
  <2>1. QhOf(c) \in Qhs
    BY <1>8, HolderRanges, ControlStates DEF UnheadEntry, Holders
  <2> QED BY <1>8, <2>1 DEF Memory, UnheadEntry, hcVars, devVars, itemVars
<1>9. CASE Unchain(c)
  <2>1. QhOf(c) \in Qhs
    BY <1>9, HolderRanges, ControlStates DEF Unchain, Holders
  <2> QED BY <1>9, <2>1 DEF Memory, Unchain, hcVars, devVars, itemVars
<1>10. CASE Free(c)
  <2>1. NoPacket \in PacketSet /\ ResetQh \in QhSet /\ FreeQtd \in QtdSet /\ 0 \in 0 .. Numbers - 1
    BY SizesAssumption DEF NoPacket, PacketSet, ResetQh, QhSet, FreeQtd, QtdSet
  <2> QED BY <1>10, <2>1 DEF Memory, Free, Forgotten, Reconfigured, hcVars
<1> QED BY <1>1, <1>2, <1>3, <1>4, <1>5, <1>6, <1>7, <1>8, <1>9, <1>10 DEF Run

\* What the controller finds in a QH that is not halted belongs to a pipe.
LEMMA HcHolder ==
    ASSUME Books, Memory, PipeInv, hcAt # NoQh, qh[hcAt].st # "halted"
    PROVE  \E c \in Holders :
              /\ hcAt = QhOf(c) /\ hcAt \in Qhs /\ slot[c] \in Qtds /\ BufOf(c) = hcAt - 2
              /\ PipeOK(c) /\ PacketOK(c) /\ qh[hcAt].ep = c
              /\ qh[hcAt].st = "active" => Executing(c)
              /\ qh[hcAt].st = "idle" /\ qh[hcAt].next # NoQtd => Offered(c)
<1>1. hcAt \in Qhs
  BY DEF Memory
<1>2. PICK c \in Holders : QhOf(c) = hcAt
  BY <1>1 DEF PipeInv
<1>3. PipeOK(c) /\ PacketOK(c) /\ slot[c] \in Qtds
  BY <1>2, HolderRanges DEF PipeInv
<1>4. BufOf(c) = hcAt - 2
  BY <1>2, SizesAssumption DEF QhOf, BufOf, Books, Holders
<1> QED BY <1>1, <1>2, <1>3, <1>4
        DEF PipeOK, Executing, Offered, Completed, Failed, Detached, Overlay

LEMMA ToggleFlips ==
    ASSUME NEW n \in 0 .. Numbers - 1
    PROVE  (((n + 1) % Numbers) % 2 = 1) <=> (n % 2 # 1)
<1>1. CASE n + 1 = Numbers
  BY <1>1, Counted, SizesAssumption
<1>2. CASE n + 1 # Numbers
  BY <1>2, Counted, SizesAssumption
<1> QED BY <1>1, <1>2

\* PipeOK and PacketOK of a client are about what it owns.
LEMMA PipeFrame ==
    ASSUME NEW c \in Clients, PipeOK(c), PacketOK(c),
           pc'[c] = pc[c], pipe'[c] = pipe[c], slot'[c] = slot[c],
           qh'[QhOf(c)] = qh[QhOf(c)], qtd'[slot[c]] = qtd[slot[c]],
           \/ buf'[BufOf(c)] = buf[BufOf(c)]
           \/ buf'[BufOf(c)].of # c /\ buf'[BufOf(c)].len > BufSize,
           sent'[c] = sent[c], got'[c] = got[c], last'[c] = last[c], item'[c] = item[c]
    PROVE  PipeOK(c)' /\ PacketOK(c)'
<1>1. QhOf(c)' = QhOf(c) /\ BufOf(c)' = BufOf(c)
  BY DEF QhOf, BufOf
<1>2. PipeOK(c)'
  BY <1>1 DEF PipeOK, Executing, Offered, Completed, Failed, Detached, Overlay
<1>3. Overrun(c) => Overrun(c)'
  BY <1>1 DEF Overrun
<1>4. buf'[BufOf(c)] # buf[BufOf(c)] => Overrun(c)'
  BY <1>1 DEF Overrun
<1>5. PacketOK(c)'
  <2>1. (qh[QhOf(c)].dt <=> DevToggle(c))'
    BY <1>1 DEF PacketOK, DevToggle
  <2>2. (sent[c] = (got[c] + (IF Pending(c) THEN 1 ELSE 0)) % Numbers)'
    BY <1>1 DEF PacketOK, Pending
  <2>3. (qtd[slot[c]].st = "done" =>
          /\ qtd[slot[c]].rem = MaxPacketSize - last[c].len
          /\ last[c].len = 0 => last[c] = NoPacket
          /\ last[c].len > 0 => buf[BufOf(c)] = last[c] \/ Overrun(c))'
    BY <1>1, <1>3, <1>4 DEF PacketOK
  <2>4. (pc[c] \in {"rearm", "attach"} => item[c] = Cut(last[c]) \/ Overrun(c))'
    BY <1>1, <1>3, <1>4 DEF PacketOK, Cut
  <2> QED BY <2>1, <2>2, <2>3, <2>4 DEF PacketOK
<1> QED BY <1>2, <1>5

\* A step of a client that keeps its pipe, or of the controller for it, leaves the
\* other pipes alone.
LEMMA OneClient ==
    ASSUME Books, PipeInv, NEW c \in Holders, Holders' = Holders, pipe' = pipe, slot' = slot,
           \A d \in Clients \ {c} : /\ pc'[d] = pc[d] /\ sent'[d] = sent[d] /\ got'[d] = got[d]
                                    /\ last'[d] = last[d] /\ item'[d] = item[d],
           \A q \in Qhs \ {QhOf(c)} : qh'[q] = qh[q],
           \A t \in Qtds \ {slot[c]} : qtd'[t] = qtd[t],
           \A b \in Bufs \ {BufOf(c)} :
              buf'[b] = buf[b] \/ (buf'[b].of = c /\ buf'[b].len > BufSize),
           PipeOK(c)', PacketOK(c)'
    PROVE  PipeInv'
<1>1. ASSUME NEW d \in Holders, d # c
      PROVE  PipeOK(d)' /\ PacketOK(d)'
  <2>1. /\ QhOf(d) \in Qhs \ {QhOf(c)} /\ slot[d] \in Qtds \ {slot[c]}
        /\ BufOf(d) \in Bufs \ {BufOf(c)} /\ d \in Clients \ {c}
    BY <1>1, HolderRanges DEF Holders
  <2>2. PipeOK(d) /\ PacketOK(d)
    BY DEF PipeInv
  <2> QED BY <2>1, <2>2, PipeFrame
<1>2. \A d \in Clients \ Holders : sent'[d] = 0 /\ got'[d] = 0
  BY DEF PipeInv
<1>3. \A d \in Clients : QhOf(d)' = QhOf(d)
  BY DEF QhOf
<1>4. \A q \in Qhs : qh'[q].st # "halted" => \E d \in Holders : QhOf(d)' = q
  <2>1. ASSUME NEW q \in Qhs, q # QhOf(c), qh'[q].st # "halted"
        PROVE  \E d \in Holders : QhOf(d)' = q
    BY <1>3, <2>1 DEF PipeInv, Holders
  <2> QED BY <1>3, <2>1 DEF Holders
<1> QED BY <1>1, <1>2, <1>4 DEF PipeInv

\* A QH with its overlay overwritten, and the pool when it is that of QH q.
Rewritten(h, st, cur, next, dt) ==
    [h EXCEPT !.st = st, !.cur = cur, !.next = next, !.dt = dt]

LEMMA OverlayWritten ==
    ASSUME Memory, NEW q \in Qhs, NEW st \in {"idle", "active", "halted"},
           NEW cur \in Qtds \cup {NoQtd}, NEW next \in Qtds \cup {NoQtd}, NEW dt \in BOOLEAN,
           qh' = [qh EXCEPT ![q] = Rewritten(qh[q], st, cur, next, dt)]
    PROVE  /\ qh' \in [Qhs -> QhSet] /\ \A p \in Qhs \ {q} : qh'[p] = qh[p]
           /\ qh'[q].ep = qh[q].ep /\ qh'[q].dt = dt /\ Overlay(q, st, cur, next)'
<1>1. PICK r : r = Rewritten(qh[q], st, cur, next, dt)
  OBVIOUS
<1>2. qh[q] \in QhSet
  BY DEF Memory
<1>3. /\ r \in QhSet /\ r.st = st /\ r.cur = cur /\ r.next = next /\ r.dt = dt
      /\ r.ep = qh[q].ep
  BY <1>1, <1>2 DEF QhSet, Rewritten
<1>4. qh' = [qh EXCEPT ![q] = r]
  BY <1>1
<1>5. qh' \in [Qhs -> QhSet] /\ qh'[q] = r /\ \A p \in Qhs \ {q} : qh'[p] = qh[p]
  BY <1>3, <1>4 DEF Memory
<1> QED BY <1>3, <1>5 DEF Overlay

LEMMA FetchStep ==
    ASSUME Books, Memory, PipeInv, HcFetch
    PROVE  Memory' /\ PipeInv'
<1>1. /\ hcAt # NoQh /\ qh[hcAt].st = "idle" /\ qh[hcAt].next # NoQtd
      /\ UNCHANGED <<clientVars, poolVars, linkVars, qtd, buf, hcVars, devVars, itemVars>>
      /\ qh' = [qh EXCEPT ![hcAt].cur = qh[hcAt].next, ![hcAt].next = NoQtd, ![hcAt].st = "active"]
  BY DEF HcFetch
<1>2. PICK c \in Holders :
          /\ hcAt = QhOf(c) /\ hcAt \in Qhs /\ slot[c] \in Qtds
          /\ PipeOK(c) /\ PacketOK(c) /\ qh[hcAt].ep = c /\ Offered(c)
  BY <1>1, HcHolder
<1>3. qh[hcAt].next = slot[c] /\ qh[hcAt] \in QhSet
  BY <1>2 DEF Offered, Overlay, Memory
<1>4. qh' = [qh EXCEPT ![hcAt] = Rewritten(qh[hcAt], "active", slot[c], NoQtd, qh[hcAt].dt)]
  <2>1. PICK r : r = [qh[hcAt] EXCEPT !.cur = slot[c], !.next = NoQtd, !.st = "active"]
    OBVIOUS
  <2>2. r = Rewritten(qh[hcAt], "active", slot[c], NoQtd, qh[hcAt].dt)
    BY <1>3, <2>1 DEF QhSet, Rewritten
  <2>3. qh' = [qh EXCEPT ![hcAt] = r]
    BY <1>1, <1>2, <1>3, <2>1 DEF Memory
  <2> QED BY <2>2, <2>3
<1>5. /\ qh' \in [Qhs -> QhSet] /\ \A p \in Qhs \ {hcAt} : qh'[p] = qh[p]
      /\ qh'[hcAt].ep = qh[hcAt].ep /\ qh'[hcAt].dt = qh[hcAt].dt
      /\ qh'[hcAt].st = "active" /\ qh'[hcAt].cur = slot[c] /\ qh'[hcAt].next = NoQtd
  <2>1. PICK q \in Qhs, t \in Qtds, b \in BOOLEAN : q = hcAt /\ t = slot[c] /\ b = qh[hcAt].dt
    BY <1>2, <1>3 DEF QhSet
  <2>2. qh' = [qh EXCEPT ![q] = Rewritten(qh[q], "active", t, NoQtd, b)]
    BY <1>4, <2>1
  <2>3. /\ qh' \in [Qhs -> QhSet] /\ \A p \in Qhs \ {q} : qh'[p] = qh[p]
        /\ qh'[q].ep = qh[q].ep /\ qh'[q].dt = b /\ Overlay(q, "active", t, NoQtd)'
    BY <2>2, OverlayWritten
  <2> QED BY <2>1, <2>3 DEF Overlay
<1>6. UNCHANGED <<pc, pipe, slot, qtd, buf, sent, got, last, item>>
  BY <1>1 DEF clientVars, poolVars, devVars, itemVars
<1>7. PipeOK(c)' /\ PacketOK(c)'
  BY <1>2, <1>5, <1>6 DEF PipeOK, Offered, Executing, Overlay, PacketOK, Pending, DevToggle,
     Overrun, Cut, QhOf, BufOf
<1>8. Holders' = Holders
  BY <1>6 DEF Holders
<1>9. PipeInv'
  BY <1>2, <1>5, <1>6, <1>7, <1>8, OneClient
<1>10. Memory'
  BY <1>1, <1>5, <1>6 DEF Memory, linkVars, hcVars
<1> QED BY <1>9, <1>10

\* A packet goes to the buffer of its pipe, and to others only when it is larger.
LEMMA StoredThere ==
    ASSUME buf \in [Bufs -> PacketSet], NEW b \in Bufs, NEW packet \in PacketSet,
           NEW f, f = Stored(b, packet)
    PROVE  /\ f \in [Bufs -> PacketSet]
           /\ packet.len > 0 => f[b] = packet
           /\ \A x \in Bufs \ {b} : f[x] = buf[x] \/ (f[x] = packet /\ packet.len > BufSize)
<1>1. f \in [Bufs -> PacketSet]
  BY DEF Stored
<1>2. b \in Nat /\ BufSize \in Nat /\ packet.len \in 0 .. MaxPacketSize /\ MaxPacketSize \in Nat
  BY SizesAssumption DEF Bufs, PacketSet
<1>3. ASSUME packet.len > 0
      PROVE  f[b] = packet
  <2>1. (b - b) * BufSize = 0
    BY <1>2
  <2>2. b <= b /\ (b - b) * BufSize < packet.len
    BY <1>2, <1>3, <2>1
  <2> QED BY <1>3, <2>2 DEF Stored
<1>4. ASSUME NEW x \in Bufs \ {b}
      PROVE  f[x] = buf[x] \/ (f[x] = packet /\ packet.len > BufSize)
  <2>1. x \in Nat
    BY SizesAssumption DEF Bufs
  <2>2. CASE b <= x
    <3>1. PICK k \in Nat : k = x - b - 1
      BY <1>2, <1>4, <2>1, <2>2
    <3>2. (x - b) * BufSize = k * BufSize + BufSize
      BY <1>2, <2>1, <3>1
    <3>3. k * BufSize >= 0
      BY <1>2, <3>1
    <3>4. (x - b) * BufSize < packet.len => packet.len > BufSize
      <4>1. PICK m \in Nat : m = k * BufSize
        BY <1>2, <3>1, <3>3
      <4> QED BY <1>2, <3>2, <4>1
    <3> QED BY <3>4 DEF Stored
  <2>3. CASE ~(b <= x)
    BY <2>3 DEF Stored
  <2> QED BY <2>2, <2>3
<1> QED BY <1>1, <1>3, <1>4

LEMMA PacketStep ==
    ASSUME Books, Memory, PipeInv, HcPacket
    PROVE  Memory' /\ PipeInv'
<1>1. /\ hcAt # NoQh /\ qh[hcAt].st = "active"
      /\ UNCHANGED <<pc, pipe, slot, hlink, entry, hcAt, hcNext, got, item>>
  BY DEF HcPacket, clientVars, poolVars, linkVars, hcVars, itemVars
<1>2. PICK c \in Holders :
          /\ hcAt = QhOf(c) /\ hcAt \in Qhs /\ slot[c] \in Qtds /\ BufOf(c) = hcAt - 2
          /\ PipeOK(c) /\ PacketOK(c) /\ qh[hcAt].ep = c /\ Executing(c)
  BY <1>1, HcHolder
<1>3. /\ qh[hcAt].cur = slot[c] /\ qh[hcAt].next = NoQtd /\ qh[hcAt] \in QhSet
      /\ qtd[slot[c]].st = "active" /\ pc[c] \notin Polling /\ c \in Clients
  BY <1>2 DEF Executing, Overlay, Memory, Holders
<1>4. qh[hcAt].dt = DevToggle(c)
  BY <1>2, <1>3 DEF PacketOK, QhSet, DevToggle
<1>5. PICK len \in 0 .. MaxPacketSize :
          /\ Sends(c, len)
          /\ qtd' = [qtd EXCEPT ![slot[c]] = [st |-> "done", rem |-> MaxPacketSize - len]]
          /\ buf' = Stored(hcAt - 2, Packet(c, sent[c], len))
          /\ qh' = [qh EXCEPT ![hcAt].st = "idle", ![hcAt].cur = NoQtd, ![hcAt].dt = ~@]
  BY <1>2, <1>3, <1>4 DEF HcPacket
<1>6. qh' = [qh EXCEPT ![hcAt] = Rewritten(qh[hcAt], "idle", NoQtd, NoQtd, ~qh[hcAt].dt)]
  <2>1. PICK r : r = [qh[hcAt] EXCEPT !.st = "idle", !.cur = NoQtd, !.dt = ~qh[hcAt].dt]
    OBVIOUS
  <2>2. r = Rewritten(qh[hcAt], "idle", NoQtd, NoQtd, ~qh[hcAt].dt)
    BY <1>3, <2>1 DEF QhSet, Rewritten
  <2>3. qh' = [qh EXCEPT ![hcAt] = r]
    BY <1>2, <1>5, <2>1 DEF Memory
  <2> QED BY <2>2, <2>3
<1>7. /\ qh' \in [Qhs -> QhSet] /\ \A p \in Qhs \ {hcAt} : qh'[p] = qh[p]
      /\ qh'[hcAt].ep = c /\ qh'[hcAt].dt = ~qh[hcAt].dt
      /\ qh'[hcAt].st = "idle" /\ qh'[hcAt].cur = NoQtd /\ qh'[hcAt].next = NoQtd
  <2>1. PICK q \in Qhs, b \in BOOLEAN : q = hcAt /\ b = ~qh[hcAt].dt
    BY <1>2, <1>3 DEF QhSet
  <2>2. qh' = [qh EXCEPT ![q] = Rewritten(qh[q], "idle", NoQtd, NoQtd, b)]
    BY <1>6, <2>1
  <2>3. /\ qh' \in [Qhs -> QhSet] /\ \A p \in Qhs \ {q} : qh'[p] = qh[p]
        /\ qh'[q].ep = qh[q].ep /\ qh'[q].dt = b /\ Overlay(q, "idle", NoQtd, NoQtd)'
    BY <2>2, OverlayWritten
  <2> QED BY <1>2, <2>1, <2>3 DEF Overlay
<1>8. PICK n \in 0 .. Numbers - 1 : n = sent[c]
  BY <1>3 DEF Memory
<1>9. PICK packet \in PacketSet : packet = Packet(c, n, len)
  BY <1>3, PacketTypes
<1>10. packet.len = len /\ (len = 0 => packet = NoPacket) /\ (len > 0 => packet.of = c)
  BY <1>9, SizesAssumption DEF Packet, NoPacket
<1>11. /\ buf' \in [Bufs -> PacketSet]
       /\ len > 0 => buf'[BufOf(c)] = packet
       /\ \A x \in Bufs \ {BufOf(c)} :
             buf'[x] = buf[x] \/ (buf'[x].of = c /\ buf'[x].len > BufSize)
  <2>1. PICK b \in Bufs : b = BufOf(c)
    BY HolderRanges
  <2>2. buf' = Stored(b, packet) /\ buf \in [Bufs -> PacketSet]
    BY <1>2, <1>5, <1>8, <1>9, <2>1 DEF Memory
  <2>3. /\ buf' \in [Bufs -> PacketSet]
        /\ packet.len > 0 => buf'[b] = packet
        /\ \A x \in Bufs \ {b} : buf'[x] = buf[x] \/ (buf'[x] = packet /\ packet.len > BufSize)
    BY <2>2, StoredThere
  <2>4. packet.len > BufSize => packet.of = c
    BY <1>10, SizesAssumption
  <2> QED BY <1>10, <2>1, <2>3, <2>4
<1>12. /\ sent' = [sent EXCEPT ![c] = (n + 1) % Numbers] /\ last' = [last EXCEPT ![c] = packet]
  BY <1>5, <1>8, <1>9 DEF Sends
<1>13. /\ sent'[c] = (n + 1) % Numbers /\ last'[c] = packet
       /\ sent' \in [Clients -> 0 .. Numbers - 1] /\ last' \in [Clients -> PacketSet]
       /\ \A d \in Clients \ {c} : sent'[d] = sent[d] /\ last'[d] = last[d]
  <2>1. (n + 1) % Numbers \in 0 .. Numbers - 1
    BY Counted, SizesAssumption
  <2> QED BY <1>3, <1>12, <2>1 DEF Memory
<1>14. /\ qtd'[slot[c]].st = "done" /\ qtd'[slot[c]].rem = MaxPacketSize - len
       /\ qtd' \in [Qtds -> QtdSet] /\ \A t \in Qtds \ {slot[c]} : qtd'[t] = qtd[t]
  <2>1. PICK d : d = [st |-> "done", rem |-> MaxPacketSize - len]
    OBVIOUS
  <2>2. d \in QtdSet
    BY <2>1, SizesAssumption DEF QtdSet
  <2> QED BY <1>2, <1>5, <2>1, <2>2 DEF Memory
<1>15. PipeOK(c)'
  BY <1>1, <1>2, <1>3, <1>7, <1>14 DEF PipeOK, Completed, Overlay, QhOf, Polling
<1>16. PacketOK(c)'
  <2>1. QhOf(c)' = hcAt /\ BufOf(c)' = BufOf(c)
    BY <1>1, <1>2 DEF QhOf, BufOf
  <2>2. pc[c] # "rearm" /\ pc[c] # "attach"
    BY <1>3 DEF Polling
  <2>3. (qh[QhOf(c)].dt <=> DevToggle(c))'
    <3>1. qh'[hcAt].dt = ~(n % 2 = 1)
      BY <1>4, <1>7, <1>8 DEF DevToggle
    <3>2. sent'[c] % 2 = 1 <=> ~(n % 2 = 1)
      BY <1>13, ToggleFlips
    <3> QED BY <2>1, <3>1, <3>2 DEF DevToggle
  <2>4. sent'[c] = (got'[c] + 1) % Numbers
    <3>1. n = (got[c] + 0) % Numbers /\ got[c] \in 0 .. Numbers - 1
      BY <1>2, <1>3, <1>8 DEF PacketOK, Pending, Memory
    <3>2. n = got[c]
      BY <3>1, SizesAssumption
    <3> QED BY <1>1, <1>13, <3>2
  <2>5. Pending(c)'
    BY <1>1, <1>14, <2>2 DEF Pending
  <2> QED BY <1>1, <1>10, <1>11, <1>13, <1>14, <2>1, <2>2, <2>3, <2>4, <2>5 DEF PacketOK
<1>17. Holders' = Holders
  BY <1>1 DEF Holders
<1>18. PipeInv'
  BY <1>1, <1>2, <1>7, <1>11, <1>13, <1>14, <1>15, <1>16, <1>17, OneClient
<1>19. Memory'
  BY <1>1, <1>7, <1>11, <1>13, <1>14 DEF Memory
<1> QED BY <1>18, <1>19

LEMMA HaltStep ==
    ASSUME Books, Memory, PipeInv, HcHalt
    PROVE  Memory' /\ PipeInv'
<1>1. /\ hcAt # NoQh /\ qh[hcAt].st = "active"
      /\ qh' = [qh EXCEPT ![hcAt].st = "halted", ![hcAt].cur = NoQtd]
      /\ qtd' = [qtd EXCEPT ![qh[hcAt].cur].st = "halted"]
      /\ UNCHANGED <<pc, pipe, slot, hlink, entry, buf, hcAt, hcNext, sent, last, got, item>>
  BY DEF HcHalt, clientVars, poolVars, linkVars, hcVars, devVars, itemVars
<1>2. PICK c \in Holders :
          /\ hcAt = QhOf(c) /\ hcAt \in Qhs /\ slot[c] \in Qtds
          /\ PipeOK(c) /\ PacketOK(c) /\ qh[hcAt].ep = c /\ Executing(c)
  BY <1>1, HcHolder
<1>3. /\ qh[hcAt].cur = slot[c] /\ qh[hcAt].next = NoQtd /\ qh[hcAt] \in QhSet
      /\ qtd[slot[c]].st = "active" /\ pc[c] \notin Polling /\ c \in Clients
  BY <1>2 DEF Executing, Overlay, Memory, Holders
<1>4. qh' = [qh EXCEPT ![hcAt] = Rewritten(qh[hcAt], "halted", NoQtd, NoQtd, qh[hcAt].dt)]
  <2>1. PICK r : r = [qh[hcAt] EXCEPT !.st = "halted", !.cur = NoQtd]
    OBVIOUS
  <2>2. r = Rewritten(qh[hcAt], "halted", NoQtd, NoQtd, qh[hcAt].dt)
    BY <1>3, <2>1 DEF QhSet, Rewritten
  <2>3. qh' = [qh EXCEPT ![hcAt] = r]
    BY <1>1, <1>2, <2>1 DEF Memory
  <2> QED BY <2>2, <2>3
<1>5. /\ qh' \in [Qhs -> QhSet] /\ \A p \in Qhs \ {hcAt} : qh'[p] = qh[p]
      /\ qh'[hcAt].ep = c /\ qh'[hcAt].dt = qh[hcAt].dt
      /\ qh'[hcAt].st = "halted" /\ qh'[hcAt].cur = NoQtd /\ qh'[hcAt].next = NoQtd
  <2>1. PICK q \in Qhs, b \in BOOLEAN : q = hcAt /\ b = qh[hcAt].dt
    BY <1>2, <1>3 DEF QhSet
  <2>2. qh' = [qh EXCEPT ![q] = Rewritten(qh[q], "halted", NoQtd, NoQtd, b)]
    BY <1>4, <2>1
  <2>3. /\ qh' \in [Qhs -> QhSet] /\ \A p \in Qhs \ {q} : qh'[p] = qh[p]
        /\ qh'[q].ep = qh[q].ep /\ qh'[q].dt = b /\ Overlay(q, "halted", NoQtd, NoQtd)'
    BY <2>2, OverlayWritten
  <2> QED BY <1>2, <2>1, <2>3 DEF Overlay
<1>6. /\ qtd' \in [Qtds -> QtdSet] /\ qtd'[slot[c]].st = "halted"
      /\ \A t \in Qtds \ {slot[c]} : qtd'[t] = qtd[t]
  <2>1. PICK d : d = [qtd[slot[c]] EXCEPT !.st = "halted"]
    OBVIOUS
  <2>2. d \in QtdSet /\ d.st = "halted"
    BY <1>2, <2>1 DEF Memory, QtdSet
  <2>3. qtd' = [qtd EXCEPT ![slot[c]] = d]
    BY <1>1, <1>3, <2>1 DEF Memory
  <2> QED BY <1>2, <2>2, <2>3 DEF Memory
<1>7. PipeOK(c)'
  BY <1>1, <1>2, <1>3, <1>5, <1>6 DEF PipeOK, Failed, Overlay, QhOf
<1>8. PacketOK(c)'
  BY <1>1, <1>2, <1>3, <1>5, <1>6 DEF PacketOK, Pending, DevToggle, Overrun, Cut, QhOf, BufOf
<1>9. Holders' = Holders
  BY <1>1 DEF Holders
<1>10. PipeInv'
  BY <1>1, <1>2, <1>5, <1>6, <1>7, <1>8, <1>9, OneClient
<1>11. Memory'
  BY <1>1, <1>5, <1>6 DEF Memory
<1> QED BY <1>10, <1>11

\* Only the controller's place, or nothing, changes.
LEMMA PipesStill ==
    ASSUME PipeInv, UNCHANGED <<pc, pipe, slot, qh, qtd, buf, devVars, itemVars>>
    PROVE  PipeInv'
BY DEF PipeInv, Holders, PipeOK, Executing, Offered, Completed, Failed, Detached, Overlay,
   PacketOK, Pending, DevToggle, Overrun, Cut, QhOf, BufOf, devVars, itemVars

LEMMA ControllerPipes ==
    ASSUME Books, Memory, PipeInv, Controller \/ UNCHANGED vars
    PROVE  Memory' /\ PipeInv'
<1>1. CASE HcFrame
  <2>1. /\ UNCHANGED <<pc, pipe, slot, qh, qtd, buf, devVars, itemVars, linkVars>>
        /\ hcAt' = NoQh /\ \E f \in 0 .. Frames - 1 : hcNext' = entry[f]
    BY <1>1 DEF HcFrame, clientVars, poolVars
  <2> QED BY <2>1, PipesStill DEF Memory, linkVars, devVars, itemVars
<1>2. CASE HcAdvance
  <2>1. /\ UNCHANGED <<pc, pipe, slot, qh, qtd, buf, devVars, itemVars, linkVars>>
        /\ hcNext \in Qhs /\ hcAt' = hcNext /\ hcNext' = hlink[hcNext]
    BY <1>2 DEF HcAdvance, clientVars, poolVars
  <2> QED BY <2>1, PipesStill DEF Memory, linkVars, devVars, itemVars
<1>3. CASE UNCHANGED vars
  <2>1. UNCHANGED <<pc, pipe, slot, qh, qtd, buf, devVars, itemVars, linkVars, hcVars>>
    BY <1>3 DEF vars, clientVars, poolVars
  <2> QED BY <2>1, PipesStill DEF Memory, linkVars, devVars, itemVars, hcVars
<1> QED BY <1>1, <1>2, <1>3, FetchStep, PacketStep, HaltStep DEF Controller

\* A client without a pipe moves.
LEMMA NoHolderMoves ==
    ASSUME PipeInv, Holders' = Holders, \A d \in Holders : pc'[d] = pc[d],
           UNCHANGED <<pipe, slot, qh, qtd, buf, devVars, itemVars>>
    PROVE  PipeInv'
<1>1. UNCHANGED <<sent, got, last, item>>
  BY DEF devVars, itemVars
<1>2. \A d \in Holders : PipeOK(d)' /\ PacketOK(d)'
  BY <1>1, PipeFrame DEF PipeInv, Holders
<1>3. \A d \in Clients : QhOf(d)' = QhOf(d)
  BY DEF QhOf
<1> QED BY <1>1, <1>2, <1>3 DEF PipeInv, Holders

\* A client with a pipe moves and touches neither QH nor qTD.
LEMMA HolderMoves ==
    ASSUME Books, PipeInv, NEW c \in Holders, Holders' = Holders,
           \A d \in Clients \ {c} : pc'[d] = pc[d],
           pc[c] \notin Polling,
           pc'[c] \in Polling => pc'[c] = "copy" /\ qtd[slot[c]].st = "done",
           UNCHANGED <<pipe, slot, qh, qtd, buf, devVars, itemVars>>
    PROVE  PipeInv'
<1>1. UNCHANGED <<sent, got, last, item>>
  BY DEF devVars, itemVars
<1>2. PipeOK(c) /\ PacketOK(c)
  BY DEF PipeInv
<1>3. PipeOK(c)'
  <2>1. pc[c] # "attach"
    BY DEF Polling
  <2>2. CASE pc'[c] \in Polling
    BY <1>2, <2>1, <2>2
       DEF PipeOK, Executing, Offered, Completed, Failed, Detached, Overlay, QhOf
  <2>3. CASE pc'[c] \notin Polling
    <3>1. pc'[c] # "attach"
      BY <2>3 DEF Polling
    <3> QED BY <1>2, <2>1, <2>3, <3>1
            DEF PipeOK, Executing, Offered, Completed, Failed, Detached, Overlay, QhOf
  <2> QED BY <2>2, <2>3
<1>4. PacketOK(c)'
  <2>1. pc'[c] \notin {"rearm", "attach"} /\ pc[c] # "rearm"
    BY DEF Polling
  <2> QED BY <1>1, <1>2, <2>1 DEF PacketOK, Pending, DevToggle, Overrun, QhOf, BufOf
<1> QED BY <1>1, <1>3, <1>4, OneClient

LEMMA MovePipes ==
    ASSUME Books, PipeInv, NEW c \in Clients,
           \/ Call(c) \/ GiveUp(c) \/ Panic(c) \/ LinkQh(c) \/ PublishEntry(c) \/ Poll(c)
           \/ Drop(c) \/ UnheadEntry(c) \/ Unchain(c)
    PROVE  PipeInv'
<1>1. UNCHANGED <<pipe, slot, qh, qtd, buf, devVars, itemVars>>
  BY DEF Call, GiveUp, Panic, LinkQh, PublishEntry, Poll, Drop, UnheadEntry, Unchain, poolVars
<1>2. CASE Call(c) \/ GiveUp(c) \/ Panic(c)
  <2>1. PICK l \in {"waiting", "idle", "panicked"} :
            pc' = [pc EXCEPT ![c] = l] /\ pc[c] \in {"idle", "waiting"}
    BY <1>2 DEF Call, GiveUp, Panic, Goto
  <2>2. Holders' = Holders /\ \A d \in Holders : pc'[d] = pc[d]
    BY <2>1, ControlStates DEF Books, Holders
  <2> QED BY <1>1, <2>2, NoHolderMoves
<1>3. ASSUME NEW l \in Holding, pc' = [pc EXCEPT ![c] = l] \/ (pc' = pc /\ l = pc[c]),
             pc[c] \in Holding \ Polling,
             l \in Polling => l = "copy" /\ qtd[slot[c]].st = "done"
      PROVE  PipeInv'
  <2>1. c \in Holders /\ Holders' = Holders /\ pc'[c] = l /\ \A d \in Clients \ {c} : pc'[d] = pc[d]
    BY <1>3 DEF Books, Holders
  <2> QED BY <1>1, <1>3, <2>1, HolderMoves
<1>4. CASE LinkQh(c)
  BY <1>3, <1>4, ControlStates DEF LinkQh, Goto, Polling
<1>5. CASE PublishEntry(c)
  BY <1>3, <1>5, ControlStates DEF PublishEntry, NextEntry, Goto, Polling
<1>6. CASE Poll(c)
  BY <1>3, <1>6, ControlStates DEF Poll, Goto, Polling
<1>7. CASE Drop(c)
  BY <1>3, <1>7, ControlStates DEF Drop, Goto, Polling
<1>8. CASE UnheadEntry(c)
  BY <1>3, <1>8, ControlStates DEF UnheadEntry, NextEntry, Goto, Polling
<1>9. CASE Unchain(c)
  BY <1>3, <1>9, ControlStates DEF Unchain, Goto, Polling
<1> QED BY <1>2, <1>4, <1>5, <1>6, <1>7, <1>8, <1>9

LEMMA BeginPipes ==
    ASSUME Books, Memory, PipeInv, NEW c \in Clients, Begin(c)
    PROVE  PipeInv'
<1>1. PICK p \in Pools!FreePipes("interrupt"), t \in Pools!FreeQtds :
          /\ pipe' = [pipe EXCEPT ![c] = p]
          /\ slot' = [slot EXCEPT ![c] = t]
          /\ qh' = [qh EXCEPT ![p + 1] = [ResetQh EXCEPT !.ep = c, !.next = t, !.st = "idle"]]
          /\ qtd' = [qtd EXCEPT ![t] = ArmedQtd]
  BY DEF Begin
<1>2. /\ pc[c] = "waiting" /\ pc' = [pc EXCEPT ![c] = "link"]
      /\ UNCHANGED <<buf, sent, last, got, item>>
  BY DEF Begin, Goto, devVars, itemVars
<1>3. /\ p + 1 \in Qhs /\ \A d \in Clients : pipe[d] # p
      /\ p \in Nat /\ t \in Qtds /\ t # NoQtd /\ t \notin qtdAllocated
  BY PoolRanges, SizesAssumption DEF Pools!FreePipes, Pools!FreeQtds
<1>4. Holders' = Holders \cup {c} /\ c \notin Holders
  BY <1>2, ControlStates DEF Books, Holders
<1>5. ASSUME NEW d \in Holders
      PROVE  PipeOK(d)' /\ PacketOK(d)'
  <2>1. /\ QhOf(d) \in Qhs /\ slot[d] \in Qtds /\ d # c /\ d \in Clients
        /\ pipe[d] \in 1 .. NumQh /\ slot[d] \in qtdAllocated
    BY <1>4, HolderRanges DEF Books, Holders
  <2>2. QhOf(d) # p + 1 /\ slot[d] # t
    BY <1>3, <2>1, SizesAssumption DEF QhOf
  <2>3. /\ pc'[d] = pc[d] /\ pipe'[d] = pipe[d] /\ slot'[d] = slot[d]
        /\ qh'[QhOf(d)] = qh[QhOf(d)] /\ qtd'[slot[d]] = qtd[slot[d]]
    BY <1>1, <1>2, <2>1, <2>2 DEF Books, Memory
  <2>4. PipeOK(d) /\ PacketOK(d)
    BY DEF PipeInv
  <2> QED BY <1>2, <2>1, <2>3, <2>4, PipeFrame
<1>6. /\ QhOf(c)' = p + 1 /\ slot'[c] = t /\ pc'[c] = "link"
      /\ sent'[c] = 0 /\ got'[c] = 0 /\ qtd'[t].st = "active"
  <2>1. QhOf(c)' = p + 1 /\ slot'[c] = t /\ pc'[c] = "link"
    BY <1>1, <1>2 DEF Books, QhOf
  <2>2. sent'[c] = 0 /\ got'[c] = 0
    BY <1>2, <1>4 DEF PipeInv
  <2>3. qtd'[t].st = "active"
    BY <1>1, <1>3 DEF Memory, ArmedQtd
  <2> QED BY <2>1, <2>2, <2>3
<1>7. /\ qh'[p + 1].ep = c /\ qh'[p + 1].st = "idle" /\ qh'[p + 1].cur = NoQtd
      /\ qh'[p + 1].next = t /\ qh'[p + 1].dt = FALSE
      /\ \A q \in Qhs : q # p + 1 => qh'[q] = qh[q]
  <2>1. PICK r : r = [ResetQh EXCEPT !.ep = c, !.next = t, !.st = "idle"]
    OBVIOUS
  <2>2. r.ep = c /\ r.st = "idle" /\ r.cur = NoQtd /\ r.next = t /\ r.dt = FALSE
    BY <2>1 DEF ResetQh
  <2>3. qh' = [qh EXCEPT ![p + 1] = r]
    BY <1>1, <2>1
  <2>4. qh'[p + 1] = r /\ \A q \in Qhs : q # p + 1 => qh'[q] = qh[q]
    BY <1>3, <2>3 DEF Memory
  <2> QED BY <2>2, <2>4
<1>8. PipeOK(c)'
  BY <1>6, <1>7 DEF PipeOK, Offered, Overlay, Polling
<1>9. PacketOK(c)'
  <2>1. 0 = (0 + 0) % Numbers /\ ~(0 % 2 = 1)
    BY SizesAssumption
  <2> QED BY <1>6, <1>7, <2>1 DEF PacketOK, Pending, DevToggle
<1>10. \A d \in Clients \ Holders' : sent'[d] = 0 /\ got'[d] = 0
  BY <1>2, <1>4 DEF PipeInv
<1>11. ASSUME NEW q \in Qhs, qh'[q].st # "halted"
       PROVE  \E d \in Holders' : QhOf(d)' = q
  <2>1. CASE q = p + 1
    BY <1>4, <1>6, <2>1
  <2>2. CASE q # p + 1
    <3>1. PICK d \in Holders : QhOf(d) = q
      BY <1>7, <1>11, <2>2 DEF PipeInv
    <3>2. QhOf(d)' = QhOf(d)
      BY <1>1, <1>4 DEF QhOf, Books, Holders
    <3> QED BY <1>4, <3>1, <3>2
  <2> QED BY <2>1, <2>2
<1> QED BY <1>4, <1>5, <1>8, <1>9, <1>10, <1>11 DEF PipeInv

\* The packet is handed over as it was sent.
LEMMA CopyPipes ==
    ASSUME Books, Memory, PipeInv, NEW c \in Clients, Copy(c)
    PROVE  PipeInv'
<1>1. /\ pc[c] = "copy" /\ pc' = [pc EXCEPT ![c] = "rearm"]
      /\ item' = [item EXCEPT ![c] =
            IF Received(c) = 0 THEN NoPacket ELSE [buf[BufOf(c)] EXCEPT !.len = Received(c)]]
      /\ got' = [got EXCEPT ![c] = (got[c] + 1) % Numbers]
      /\ UNCHANGED <<pipe, slot, qh, qtd, buf, sent, last>>
  BY DEF Copy, Goto, poolVars, devVars
<1>2. c \in Holders /\ Holders' = Holders
  BY <1>1, ControlStates DEF Books, Holders
<1>3. PipeOK(c) /\ PacketOK(c) /\ slot[c] \in Qtds /\ BufOf(c) \in Bufs
  BY <1>2, HolderRanges DEF PipeInv
<1>4. Completed(c)
  BY <1>1, <1>3 DEF PipeOK, Executing, Offered, Failed, Detached, Polling
<1>5. qtd[slot[c]].st = "done"
  BY <1>4 DEF Completed
<1>6. /\ pc'[c] = "rearm" /\ \A d \in Clients \ {c} : pc'[d] = pc[d] /\ got'[d] = got[d] /\ item'[d] = item[d]
      /\ got'[c] = (got[c] + 1) % Numbers
      /\ item'[c] = IF Received(c) = 0 THEN NoPacket ELSE [buf[BufOf(c)] EXCEPT !.len = Received(c)]
  BY <1>1 DEF Books, Memory
<1>7. PipeOK(c)'
  BY <1>1, <1>3, <1>4, <1>6 DEF PipeOK, Completed, Overlay, QhOf
<1>8. PacketOK(c)'
  <2>1. sent'[c] = (got'[c] + 0) % Numbers
    <3>1. sent[c] = (got[c] + 1) % Numbers
      BY <1>1, <1>3, <1>5 DEF PacketOK, Pending
    <3>2. (got[c] + 1) % Numbers \in 0 .. Numbers - 1
      <4>1. got[c] \in 0 .. Numbers - 1
        BY DEF Memory
      <4> QED BY <4>1, Counted, SizesAssumption
    <3>3. PICK n \in 0 .. Numbers - 1 : n = (got[c] + 1) % Numbers
      BY <3>2
    <3>4. n = (n + 0) % Numbers
      BY SizesAssumption
    <3> QED BY <1>1, <1>6, <3>1, <3>3, <3>4
  <2>2. item'[c] = Cut(last[c]) \/ Overrun(c)
    <3>1. /\ qtd[slot[c]].rem = MaxPacketSize - last[c].len
          /\ last[c].len = 0 => last[c] = NoPacket
          /\ last[c].len > 0 => buf[BufOf(c)] = last[c] \/ Overrun(c)
          /\ last[c] \in PacketSet
      BY <1>3, <1>5 DEF PacketOK, Memory
    <3>2. last[c].len \in 0 .. MaxPacketSize
      BY <3>1 DEF PacketSet
    <3>3. Received(c) = Lower(last[c].len, BufSize)
      <4>1. PICK n \in 0 .. MaxPacketSize : n = last[c].len
        BY <3>2
      <4>2. MaxPacketSize - (MaxPacketSize - n) = n
        BY SizesAssumption
      <4> QED BY <3>1, <4>1, <4>2, Zenon DEF Received
    <3>4. CASE last[c].len = 0
      <4>1. Received(c) = 0 /\ Lower(0, BufSize) = 0
        BY <3>3, <3>4, SizesAssumption DEF Lower
      <4>2. Cut(NoPacket) = NoPacket
        BY <4>1 DEF Cut, NoPacket
      <4> QED BY <1>6, <3>1, <3>4, <4>1, <4>2
    <3>5. CASE last[c].len # 0 /\ ~Overrun(c)
      <4>1. buf[BufOf(c)] = last[c] /\ Received(c) # 0
        BY <3>1, <3>2, <3>3, <3>5, SizesAssumption DEF Lower
      <4> QED BY <1>6, <3>3, <4>1 DEF Cut
    <3> QED BY <3>4, <3>5
  <2>3. ~Pending(c)'
    BY <1>6 DEF Pending
  <2> QED BY <1>1, <1>3, <2>1, <2>2, <2>3 DEF PacketOK, DevToggle, Overrun, QhOf, BufOf
<1> QED BY <1>1, <1>2, <1>6, <1>7, <1>8, OneClient

LEMMA RearmPipes ==
    ASSUME Books, Memory, PipeInv, NEW c \in Clients, Rearm(c)
    PROVE  PipeInv'
<1>1. /\ pc[c] = "rearm" /\ pc' = [pc EXCEPT ![c] = "attach"]
      /\ qtd' = [qtd EXCEPT ![slot[c]] = ArmedQtd]
      /\ UNCHANGED <<pipe, slot, qh, buf, sent, last, got, item>>
  BY DEF Rearm, Goto, poolVars, devVars, itemVars
<1>2. c \in Holders /\ Holders' = Holders
  BY <1>1, ControlStates DEF Books, Holders
<1>3. PipeOK(c) /\ PacketOK(c) /\ slot[c] \in Qtds
  BY <1>2, HolderRanges DEF PipeInv
<1>4. Completed(c)
  BY <1>1, <1>3 DEF PipeOK, Executing, Offered, Failed, Detached, Polling
<1>5. /\ pc'[c] = "attach" /\ \A d \in Clients \ {c} : pc'[d] = pc[d]
      /\ qtd'[slot[c]].st = "active" /\ \A t \in Qtds \ {slot[c]} : qtd'[t] = qtd[t]
  BY <1>1, <1>3 DEF Books, Memory, ArmedQtd
<1>6. PipeOK(c)'
  BY <1>1, <1>3, <1>4, <1>5 DEF PipeOK, Completed, Detached, Overlay, QhOf
<1>7. PacketOK(c)'
  BY <1>1, <1>3, <1>5 DEF PacketOK, Pending, DevToggle, Overrun, QhOf, BufOf
<1> QED BY <1>1, <1>2, <1>5, <1>6, <1>7, OneClient

LEMMA ReattachPipes ==
    ASSUME Books, Memory, PipeInv, NEW c \in Clients, Reattach(c)
    PROVE  PipeInv'
<1>1. /\ pc[c] = "attach" /\ pc' = [pc EXCEPT ![c] = "open"]
      /\ qh' = [qh EXCEPT ![QhOf(c)] = Reattached(qh[QhOf(c)], slot[c])]
      /\ last' = [last EXCEPT ![c] = NoPacket] /\ item' = [item EXCEPT ![c] = NoPacket]
      /\ UNCHANGED <<pipe, slot, qtd, buf, sent, got>>
  BY DEF Reattach, Goto, poolVars
<1>2. c \in Holders /\ Holders' = Holders
  BY <1>1, ControlStates DEF Books, Holders
<1>3. PipeOK(c) /\ PacketOK(c) /\ slot[c] \in Qtds /\ QhOf(c) \in Qhs
  BY <1>2, HolderRanges DEF PipeInv
<1>4. Detached(c)
  BY <1>1, <1>3 DEF PipeOK, Executing, Offered, Failed, Completed, Polling
<1>5. /\ pc'[c] = "open"
      /\ \A d \in Clients \ {c} : pc'[d] = pc[d] /\ last'[d] = last[d] /\ item'[d] = item[d]
  BY <1>1 DEF Books, Memory
<1>6. /\ qh'[QhOf(c)].ep = qh[QhOf(c)].ep /\ qh'[QhOf(c)].st = qh[QhOf(c)].st
      /\ qh'[QhOf(c)].cur = qh[QhOf(c)].cur /\ qh'[QhOf(c)].dt = qh[QhOf(c)].dt
      /\ qh'[QhOf(c)].next = slot[c] /\ \A q \in Qhs \ {QhOf(c)} : qh'[q] = qh[q]
  <2>1. PICK r : r = Reattached(qh[QhOf(c)], slot[c])
    OBVIOUS
  <2>2. qh[QhOf(c)] \in QhSet
    BY <1>3 DEF Memory
  <2>3. /\ r.ep = qh[QhOf(c)].ep /\ r.st = qh[QhOf(c)].st /\ r.cur = qh[QhOf(c)].cur
        /\ r.dt = qh[QhOf(c)].dt /\ r.next = slot[c]
    BY <2>1, <2>2 DEF Reattached, QhSet
  <2>4. qh'[QhOf(c)] = r /\ \A q \in Qhs \ {QhOf(c)} : qh'[q] = qh[q]
    BY <1>1, <1>3, <2>1 DEF Memory
  <2> QED BY <2>3, <2>4
<1>7. PipeOK(c)'
  <2>1. pc'[c] \notin Polling
    BY <1>5 DEF Polling
  <2> QED BY <1>1, <1>3, <1>4, <1>6, <2>1 DEF PipeOK, Offered, Detached, Overlay, QhOf
<1>8. PacketOK(c)'
  BY <1>1, <1>3, <1>4, <1>5, <1>6 DEF PacketOK, Detached, Pending, DevToggle, QhOf, BufOf
<1> QED BY <1>1, <1>2, <1>5, <1>6, <1>7, <1>8, OneClient

LEMMA FreePipes ==
    ASSUME Books, Memory, PipeInv, NEW c \in Clients, Free(c)
    PROVE  PipeInv'
<1>1. /\ pc[c] = "wait" /\ pc' = [pc EXCEPT ![c] = "idle"]
      /\ pipe' = [pipe EXCEPT ![c] = Pools!NoPipe] /\ slot' = [slot EXCEPT ![c] = NoQtd]
      /\ qtd' = [qtd EXCEPT ![slot[c]] = FreeQtd]
      /\ qh' = [qh EXCEPT ![QhOf(c)] = ResetQh] /\ buf' = [buf EXCEPT ![BufOf(c)] = NoPacket]
      /\ sent' = [sent EXCEPT ![c] = 0] /\ got' = [got EXCEPT ![c] = 0]
      /\ last' = [last EXCEPT ![c] = NoPacket] /\ item' = [item EXCEPT ![c] = NoPacket]
  BY DEF Free, Goto, Forgotten, Reconfigured
<1>2. c \in Holders /\ Holders' = Holders \ {c}
  BY <1>1, ControlStates DEF Books, Holders
<1>3. ASSUME NEW d \in Holders, d # c
      PROVE  PipeOK(d)' /\ PacketOK(d)'
  <2>1. /\ QhOf(d) # QhOf(c) /\ slot[d] # slot[c] /\ BufOf(d) # BufOf(c)
        /\ QhOf(d) \in Qhs /\ slot[d] \in Qtds /\ BufOf(d) \in Bufs /\ d \in Clients
    BY <1>2, <1>3, HolderRanges DEF Holders
  <2>2. /\ pc'[d] = pc[d] /\ pipe'[d] = pipe[d] /\ slot'[d] = slot[d]
    BY <1>1, <1>3, <2>1 DEF Books
  <2>3. /\ qh'[QhOf(d)] = qh[QhOf(d)] /\ qtd'[slot[d]] = qtd[slot[d]]
        /\ buf'[BufOf(d)] = buf[BufOf(d)]
    BY <1>1, <2>1 DEF Memory
  <2>4. sent'[d] = sent[d] /\ got'[d] = got[d] /\ last'[d] = last[d] /\ item'[d] = item[d]
    BY <1>1, <1>3, <2>1 DEF Memory
  <2>5. PipeOK(d) /\ PacketOK(d)
    BY DEF PipeInv
  <2> QED BY <2>1, <2>2, <2>3, <2>4, <2>5, PipeFrame
<1>4. \A d \in Clients \ Holders' : sent'[d] = 0 /\ got'[d] = 0
  <2>1. \A d \in Clients : d # c => sent'[d] = sent[d] /\ got'[d] = got[d]
    BY <1>1 DEF Memory
  <2>2. sent'[c] = 0 /\ got'[c] = 0
    BY <1>1 DEF Memory
  <2> QED BY <1>2, <2>1, <2>2 DEF PipeInv
<1>5. ASSUME NEW q \in Qhs, qh'[q].st # "halted"
      PROVE  \E d \in Holders' : QhOf(d)' = q
  <2>1. q # QhOf(c) /\ qh'[q] = qh[q]
    BY <1>1, <1>5 DEF Memory, ResetQh
  <2>2. PICK d \in Holders : QhOf(d) = q
    BY <1>5, <2>1 DEF PipeInv
  <2>3. d # c /\ d \in Clients
    BY <2>1, <2>2 DEF Holders
  <2>4. QhOf(d)' = QhOf(d)
    BY <1>1, <2>3 DEF QhOf, Books
  <2> QED BY <1>2, <2>2, <2>3, <2>4
<1> QED BY <1>2, <1>3, <1>4, <1>5 DEF PipeInv

-----------------------------------------------------------------------------
(* What follows for the pipes *)

LEMMA InitPipes ==
    ASSUME Init
    PROVE  PipeInv
<1>1. Holders = {}
  BY ControlStates DEF Init, Holders
<1>2. \A q \in Qhs : qh[q].st = "halted"
  BY DEF Init, ResetQh
<1>3. \A c \in Clients : sent[c] = 0 /\ got[c] = 0
  BY DEF Init
<1> QED BY <1>1, <1>2, <1>3 DEF PipeInv

PipeContext == Books /\ Memory /\ PipeInv

LEMMA StepPipes ==
    ASSUME PipeContext, [Next]_vars
    PROVE  PipeContext'
<1>1. Books /\ Memory /\ PipeInv /\ Books'
  BY StepBooks DEF PipeContext
<1>2. CASE Controller \/ UNCHANGED vars
  BY <1>1, <1>2, ControllerPipes DEF PipeContext
<1>3. ASSUME NEW c \in Clients, Run(c)
      PROVE  PipeContext'
  <2>1. Memory'
    BY <1>1, <1>3, RunMemory
  <2>2. PipeInv'
    BY <1>1, <1>3, MovePipes, BeginPipes, CopyPipes, RearmPipes, ReattachPipes, FreePipes DEF Run
  <2> QED BY <1>1, <2>1, <2>2 DEF PipeContext
<1> QED BY <1>2, <1>3 DEF Next

\* The invariant of the pipes: the QH, the qTD, the receive buffer and the packets of
\* a pipe agree at every step of its polls, of its Drop and of the controller.
THEOREM PipeInvariance == Spec => []PipeContext
<1>1. Init => PipeContext
  BY InitBooks, InitMemory, InitPipes DEF PipeContext
<1>2. PipeContext /\ [Next]_vars => PipeContext'
  BY StepPipes
<1> QED BY <1>1, <1>2, PTL DEF Spec

\* PeriodicSchedule is type correct: no step of a poll, of a Drop or of the controller
\* uses a pipe, a qTD or a link that is none.
THEOREM PeriodicTyping == Spec => []TypeOK
<1>1. PipeContext => TypeOK
  BY DEF PipeContext, Books, Memory, TypeOK, QhSet, QtdSet, Holders, NoQtd
<1> QED BY <1>1, PipeInvariance, PTL

\* No pipe waits for a packet that nobody fetches (interrupt_pipe.rs:109-114 and
\* 144-174), with any number of pipes and whatever their devices do.
THEOREM NeverStuckHolds == Spec => []NeverStuck
<1>1. ASSUME PipeContext
      PROVE  NeverStuck
  <2>1. ASSUME NEW c \in Clients, pc[c] \in {"open", "ended"}
        PROVE  c \in Holders /\ PipeOK(c) /\ pc[c] # "attach"
    BY <1>1, <2>1, ControlStates DEF PipeContext, PipeInv, Holders
  <2> QED BY <2>1 DEF NeverStuck, PipeOK, Executing, Offered, Completed, Failed, Detached, Overlay
<1> QED BY <1>1, PipeInvariance, PTL

\* What a stream returns is what its device has sent, each packet once, in order and
\* unchanged up to the size of an InterruptPacket (interrupt_pipe.rs:134-174,
\* transfer.rs:640-648), for every number of pipes and every size of their packets; only
\* a packet of another pipe that is larger than a receive buffer can change it.
THEOREM PacketsIntactHolds == Spec => []PacketsIntact
<1>1. ASSUME PipeContext
      PROVE  PacketsIntact
  <2>1. ASSUME NEW c \in Clients, pc[c] \in Linked
        PROVE  PacketOK(c)
    BY <1>1, <2>1 DEF PipeContext, PipeInv, Holders, Holding
  <2>2. {"rearm", "attach"} \subseteq Linked
    BY ControlStates
  <2> QED BY <2>1, <2>2 DEF PacketsIntact, PacketOK, Pending
<1> QED BY <1>1, PipeInvariance, PTL

-----------------------------------------------------------------------------
(* The schedule *)

\* Element i of a list s of n QHs, and the end of it.
At(s, n, i) == IF i \in 1 .. n THEN s[i] ELSE NoQh

\* The links h lead from head through s and no further.
IsList(h, n, s, head) ==
    /\ n \in Nat /\ s \in [1 .. n -> Qhs]
    /\ \A i, j \in 1 .. n : s[i] = s[j] => i = j
    /\ head = At(s, n, 1)
    /\ \A i \in 1 .. n : h[s[i]] = At(s, n, i + 1)

Elements(s, n) == {s[i] : i \in 1 .. n}

\* A set of numbers has a least element, which stands in for induction.
LEMMA Least ==
    ASSUME NEW S \in SUBSET Nat, S # {}
    PROVE  \E m \in S : \A k \in S : m <= k
<1>1. IsWellFoundedOn(OpToRel(<, Nat), Nat)
  BY NatLessThanWellFounded
<1>2. PICK m \in S : \A k \in S : <<k, m>> \notin OpToRel(<, Nat)
  BY <1>1, WFMin
<1>3. m \in Nat /\ \A k \in S : k \in Nat /\ ~(k < m)
  BY <1>2 DEF OpToRel
<1> QED BY <1>3

LEMMA ListElements ==
    ASSUME NEW h, NEW n, NEW s, NEW head, IsList(h, n, s, head)
    PROVE  /\ Elements(s, n) \subseteq Qhs /\ head \in Elements(s, n) \cup {NoQh}
           /\ \A q \in Elements(s, n) : h[q] \in Elements(s, n) \cup {NoQh}
           /\ \A i \in 1 .. n : s[i] # NoQh
           /\ NoQh \notin Qhs
<1>1. n \in Nat /\ s \in [1 .. n -> Qhs]
  BY DEF IsList
<1>2. \A i : At(s, n, i) \in Elements(s, n) \cup {NoQh}
  BY DEF At, Elements
<1>3. \A q \in Elements(s, n) : h[q] \in Elements(s, n) \cup {NoQh}
  BY <1>2 DEF IsList, Elements
<1>4. NoQh \notin Qhs
  BY SizesAssumption DEF NoQh, Qhs
<1> QED BY <1>1, <1>2, <1>3, <1>4 DEF IsList, Elements

LEMMA ListFrame ==
    ASSUME NEW h, NEW g, NEW n, NEW s, NEW head, IsList(h, n, s, head),
           \A q \in Elements(s, n) : g[q] = h[q]
    PROVE  IsList(g, n, s, head)
BY DEF IsList, Elements

\* The QHs of a list are those that are reached from its head.
LEMMA ListReach ==
    ASSUME NEW n, NEW s, NEW head, IsList(hlink, n, s, head)
    PROVE  Reach(head) = Elements(s, n)
<1>1. n \in Nat /\ s \in [1 .. n -> Qhs]
  BY DEF IsList
<1>2. ASSUME NEW q \in Reach(head)
      PROVE  q \in Elements(s, n)
  <2>1. Elements(s, n) \in SUBSET Qhs
    BY ListElements
  <2>2. {head} \cap Qhs \subseteq Elements(s, n)
    BY ListElements
  <2>3. \A r \in Elements(s, n) : hlink[r] \in Qhs => hlink[r] \in Elements(s, n)
    BY ListElements
  <2> QED BY <1>2, <2>1, <2>2, <2>3 DEF Reach
<1>3. ASSUME NEW S \in SUBSET Qhs, {head} \cap Qhs \subseteq S,
             \A r \in S : hlink[r] \in Qhs => hlink[r] \in S
      PROVE  Elements(s, n) \subseteq S
  <2>1. SUFFICES ASSUME {i \in 1 .. n : s[i] \notin S} # {}
                 PROVE  FALSE
    BY DEF Elements
  <2>2. {i \in 1 .. n : s[i] \notin S} \in SUBSET Nat
    OBVIOUS
  <2>3. PICK m \in {i \in 1 .. n : s[i] \notin S} :
            \A i \in {j \in 1 .. n : s[j] \notin S} : m <= i
    BY <2>1, <2>2, Least
  <2>4. m \in 1 .. n /\ s[m] \notin S /\ s[m] \in Qhs
    BY <1>1, <2>3
  <2>5. CASE m = 1
    <3>1. head = s[1]
      BY <1>1, <2>4, <2>5 DEF IsList, At
    <3> QED BY <1>3, <2>4, <2>5, <3>1
  <2>6. CASE m # 1
    <3>1. m - 1 \in 1 .. n /\ m - 1 < m /\ m - 1 + 1 = m
      BY <1>1, <2>4, <2>6
    <3>2. s[m - 1] \in S
      BY <1>1, <2>3, <3>1
    <3>3. hlink[s[m - 1]] = s[m]
      BY <2>4, <3>1 DEF IsList, At
    <3> QED BY <1>3, <2>4, <3>2, <3>3
  <2> QED BY <2>5, <2>6
<1>4. ASSUME NEW q \in Elements(s, n)
      PROVE  q \in Reach(head)
  <2>1. q \in Qhs
    BY ListElements
  <2> QED BY <1>3, <2>1 DEF Reach
<1> QED BY <1>2, <1>4

\* The list behind element k.
Behind(s, n, k) == [i \in 1 .. n - k |-> s[i + k]]

LEMMA ListBehind ==
    ASSUME NEW h, NEW n, NEW s, NEW head, IsList(h, n, s, head), NEW k \in 1 .. n
    PROVE  /\ IsList(h, n - k, Behind(s, n, k), h[s[k]])
           /\ \A i \in 1 .. k : s[i] \notin Elements(Behind(s, n, k), n - k)
           /\ \A i \in 1 .. n : i > k => s[i] \in Elements(Behind(s, n, k), n - k)
           /\ Elements(Behind(s, n, k), n - k) \subseteq Elements(s, n)
<1>1. n \in Nat /\ s \in [1 .. n -> Qhs] /\ n - k \in Nat
  BY DEF IsList
<1>2. PICK t : t = Behind(s, n, k)
  OBVIOUS
<1>3. /\ t \in [1 .. n - k -> Qhs]
      /\ \A i \in 1 .. n - k : t[i] = s[i + k] /\ i + k \in 1 .. n
  BY <1>1, <1>2 DEF Behind
<1>4. \A i, j \in 1 .. n - k : t[i] = t[j] => i = j
  <2>1. ASSUME NEW i \in 1 .. n - k, NEW j \in 1 .. n - k, t[i] = t[j]
        PROVE  i = j
    <3>1. i + k = j + k
      BY <1>3, <2>1 DEF IsList
    <3> QED BY <1>1, <3>1
  <2> QED BY <2>1
<1>5. \A i \in 1 .. n - k + 1 : At(t, n - k, i) = At(s, n, i + k)
  <2>1. ASSUME NEW i \in 1 .. n - k + 1
        PROVE  At(t, n - k, i) = At(s, n, i + k)
    <3>1. CASE i = n - k + 1
      <4>1. i \notin 1 .. n - k /\ i + k \notin 1 .. n
        BY <1>1, <3>1
      <4> QED BY <4>1 DEF At
    <3>2. CASE i # n - k + 1
      <4>1. i \in 1 .. n - k
        BY <1>1, <3>2
      <4> QED BY <1>3, <4>1 DEF At
    <3> QED BY <3>1, <3>2
  <2> QED BY <2>1
<1>6. h[s[k]] = At(t, n - k, 1)
  <2>1. h[s[k]] = At(s, n, k + 1) /\ 1 \in 1 .. n - k + 1 /\ 1 + k = k + 1
    BY <1>1 DEF IsList
  <2>2. At(t, n - k, 1) = At(s, n, 1 + k)
    BY <1>5, <2>1
  <2> QED BY <2>1, <2>2
<1>7. \A i \in 1 .. n - k : h[t[i]] = At(t, n - k, i + 1)
  <2>1. ASSUME NEW i \in 1 .. n - k
        PROVE  h[t[i]] = At(t, n - k, i + 1)
    <3>1. h[t[i]] = At(s, n, i + k + 1)
      BY <1>3 DEF IsList
    <3>2. i + 1 \in 1 .. n - k + 1 /\ i + 1 + k = i + k + 1
      BY <1>1
    <3>3. At(t, n - k, i + 1) = At(s, n, i + 1 + k)
      BY <1>5, <3>2
    <3> QED BY <3>1, <3>2, <3>3
  <2> QED BY <2>1
<1>8. IsList(h, n - k, t, h[s[k]])
  BY <1>1, <1>3, <1>4, <1>6, <1>7 DEF IsList
<1>9. ASSUME NEW i \in 1 .. k
      PROVE  s[i] \notin Elements(t, n - k)
  <2>1. SUFFICES ASSUME NEW j \in 1 .. n - k, t[j] = s[i]
                 PROVE  FALSE
    BY DEF Elements
  <2>2. i \in 1 .. n /\ j + k \in 1 .. n /\ s[i] = s[j + k]
    BY <1>1, <1>3, <2>1
  <2>3. i = j + k
    BY <2>2 DEF IsList
  <2> QED BY <1>1, <2>3
<1>10. ASSUME NEW i \in 1 .. n, i > k
       PROVE  s[i] \in Elements(t, n - k)
  <2>1. i - k \in 1 .. n - k /\ i - k + k = i
    BY <1>1, <1>10
  <2>2. t[i - k] = s[i]
    BY <1>3, <2>1
  <2> QED BY <2>1, <2>2 DEF Elements
<1>11. Elements(t, n - k) \subseteq Elements(s, n)
  BY <1>3 DEF Elements
<1> QED BY <1>2, <1>8, <1>9, <1>10, <1>11

\* Nothing in a list is reached from what is behind it.
LEMMA ListAcyclic ==
    ASSUME NEW n, NEW s, NEW head, IsList(hlink, n, s, head), NEW q \in Elements(s, n)
    PROVE  q \notin Reach(hlink[q])
<1>1. PICK k \in 1 .. n : s[k] = q
  BY DEF Elements
<1>2. n \in Nat
  BY DEF IsList
<1>3. k \in 1 .. k
  BY <1>2
<1>4. IsList(hlink, n - k, Behind(s, n, k), hlink[q]) /\ q \notin Elements(Behind(s, n, k), n - k)
  BY <1>1, <1>3, ListBehind
<1> QED BY <1>4, ListReach

\* A QH that is put in front of a list.
LEMMA ListGrows ==
    ASSUME NEW h, NEW n, NEW s, NEW head, IsList(h, n, s, head),
           NEW q \in Qhs, q \notin Elements(s, n), h[q] = head
    PROVE  \E t : IsList(h, n + 1, t, q) /\ Elements(t, n + 1) = Elements(s, n) \cup {q}
<1>1. n \in Nat /\ s \in [1 .. n -> Qhs]
  BY DEF IsList
<1>2. PICK t : t = [i \in 1 .. n + 1 |-> IF i = 1 THEN q ELSE s[i - 1]]
  OBVIOUS
<1>3. \A i \in 1 .. n + 1 : i # 1 => i - 1 \in 1 .. n
  BY <1>1
<1>4. /\ t \in [1 .. n + 1 -> Qhs] /\ t[1] = q
      /\ \A i \in 1 .. n : i + 1 \in 1 .. n + 1 /\ t[i + 1] = s[i]
      /\ \A i \in 1 .. n + 1 : i # 1 => t[i] = s[i - 1]
  <2>1. \A i \in 1 .. n : i + 1 \in 1 .. n + 1 /\ i + 1 # 1 /\ i + 1 - 1 = i
    BY <1>1
  <2>2. 1 \in 1 .. n + 1
    BY <1>1
  <2> QED BY <1>1, <1>2, <1>3, <2>1, <2>2
<1>5. \A i, j \in 1 .. n + 1 : t[i] = t[j] => i = j
  <2>1. ASSUME NEW i \in 1 .. n + 1, NEW j \in 1 .. n + 1, t[i] = t[j], i # 1, j # 1
        PROVE  i = j
    <3>1. i - 1 = j - 1
      BY <1>3, <1>4, <2>1 DEF IsList
    <3> QED BY <1>1, <3>1
  <2>2. \A i \in 1 .. n + 1 : i # 1 => t[i] # q
    BY <1>3, <1>4 DEF Elements
  <2> QED BY <1>4, <2>1, <2>2
<1>6. \A i \in 1 .. n + 1 : At(t, n + 1, i + 1) = At(s, n, i)
  <2>1. ASSUME NEW i \in 1 .. n + 1
        PROVE  At(t, n + 1, i + 1) = At(s, n, i)
    <3>1. CASE i = n + 1
      <4>1. i \notin 1 .. n /\ i + 1 \notin 1 .. n + 1
        BY <1>1, <3>1
      <4> QED BY <4>1 DEF At
    <3>2. CASE i # n + 1
      <4>1. i \in 1 .. n
        BY <1>1, <3>2
      <4> QED BY <1>4, <4>1 DEF At
    <3> QED BY <3>1, <3>2
  <2> QED BY <2>1
<1>7. \A i \in 1 .. n + 1 : h[t[i]] = At(t, n + 1, i + 1)
  <2>1. ASSUME NEW i \in 1 .. n + 1
        PROVE  h[t[i]] = At(s, n, i)
    <3>1. CASE i = 1
      BY <1>4, <3>1 DEF IsList
    <3>2. CASE i # 1
      <4>1. i - 1 \in 1 .. n /\ i - 1 + 1 = i
        BY <1>1, <3>2
      <4>2. h[s[i - 1]] = At(s, n, i - 1 + 1)
        BY <4>1 DEF IsList
      <4> QED BY <1>4, <3>2, <4>1, <4>2
    <3> QED BY <3>1, <3>2
  <2> QED BY <1>6, <2>1
<1>8. IsList(h, n + 1, t, q)
  <2>1. At(t, n + 1, 1) = q /\ n + 1 \in Nat
    BY <1>1, <1>4 DEF At
  <2> QED BY <1>4, <1>5, <1>7, <2>1 DEF IsList
<1>9. Elements(t, n + 1) = Elements(s, n) \cup {q}
  <2>1. ASSUME NEW r \in Elements(t, n + 1)
        PROVE  r \in Elements(s, n) \cup {q}
    BY <1>3, <1>4, <2>1 DEF Elements
  <2>2. ASSUME NEW r \in Elements(s, n) \cup {q}
        PROVE  r \in Elements(t, n + 1)
    <3>1. 1 \in 1 .. n + 1
      BY <1>1
    <3> QED BY <1>4, <2>2, <3>1 DEF Elements
  <2> QED BY <2>1, <2>2
<1> QED BY <1>8, <1>9

\* A QH that is taken out of a list.
LEMMA ListShrinks ==
    ASSUME NEW h, NEW g, NEW n, NEW s, NEW head, IsList(h, n, s, head),
           NEW q \in Elements(s, n),
           \A r \in Elements(s, n) \ {q} : g[r] = IF h[r] = q THEN h[q] ELSE h[r]
    PROVE  /\ n - 1 \in Nat
           /\ \E t : /\ IsList(g, n - 1, t, IF head = q THEN h[q] ELSE head)
                    /\ Elements(t, n - 1) = Elements(s, n) \ {q}
<1>1. n \in Nat /\ s \in [1 .. n -> Qhs]
  BY DEF IsList
<1>2. PICK k \in 1 .. n : s[k] = q
  BY DEF Elements
<1>3. PICK t : t = [i \in 1 .. n - 1 |-> IF i < k THEN s[i] ELSE s[i + 1]]
  OBVIOUS
<1>4. n \in Nat /\ n - 1 \in Nat /\ k \in Nat /\ k >= 1 /\ k <= n
  BY <1>1, <1>2
<1>5. /\ t \in [1 .. n - 1 -> Qhs]
      /\ \A i \in 1 .. n - 1 : i < k => i \in 1 .. n /\ t[i] = s[i]
      /\ \A i \in 1 .. n - 1 : ~(i < k) => i + 1 \in 1 .. n /\ t[i] = s[i + 1]
  <2>1. \A i \in 1 .. n - 1 : i \in 1 .. n /\ i + 1 \in 1 .. n
    BY <1>1
  <2> QED BY <1>1, <1>3, <2>1
<1>6. \A i, j \in 1 .. n : s[i] = s[j] => i = j
  BY DEF IsList
<1>7. \A i, j \in 1 .. n - 1 : t[i] = t[j] => i = j
  <2>1. ASSUME NEW i \in 1 .. n - 1, NEW j \in 1 .. n - 1, t[i] = t[j]
        PROVE  i = j
    <3>1. CASE i < k /\ j < k
      BY <1>5, <1>6, <2>1, <3>1
    <3>2. CASE i < k /\ ~(j < k)
      <4>1. i = j + 1
        BY <1>5, <1>6, <2>1, <3>2
      <4> QED BY <1>4, <3>2, <4>1
    <3>3. CASE ~(i < k) /\ j < k
      <4>1. i + 1 = j
        BY <1>5, <1>6, <2>1, <3>3
      <4> QED BY <1>4, <3>3, <4>1
    <3>4. CASE ~(i < k) /\ ~(j < k)
      <4>1. i + 1 = j + 1
        BY <1>5, <1>6, <2>1, <3>4
      <4> QED BY <1>4, <4>1
    <3> QED BY <3>1, <3>2, <3>3, <3>4
  <2> QED BY <2>1
<1>8. \A i \in 1 .. n - 1 : t[i] # q
  <2>1. ASSUME NEW i \in 1 .. n - 1, t[i] = q
        PROVE  FALSE
    <3>1. CASE i < k
      <4>1. i = k
        BY <1>2, <1>5, <1>6, <2>1, <3>1
      <4> QED BY <1>4, <3>1, <4>1
    <3>2. CASE ~(i < k)
      <4>1. i + 1 = k
        BY <1>2, <1>5, <1>6, <2>1, <3>2
      <4> QED BY <1>4, <3>2, <4>1
    <3> QED BY <3>1, <3>2
  <2> QED BY <2>1
<1>9. \A i \in 1 .. n : At(t, n - 1, i) = At(s, n, IF i < k THEN i ELSE i + 1)
  <2>1. ASSUME NEW i \in 1 .. n
        PROVE  At(t, n - 1, i) = At(s, n, IF i < k THEN i ELSE i + 1)
    <3>1. CASE i = n
      <4>1. i \notin 1 .. n - 1 /\ ~(i < k) /\ i + 1 \notin 1 .. n
        BY <1>4, <3>1
      <4> QED BY <4>1 DEF At
    <3>2. CASE i # n
      <4>1. i \in 1 .. n - 1
        BY <1>4, <3>2
      <4> QED BY <1>5, <4>1 DEF At
    <3> QED BY <3>1, <3>2
  <2> QED BY <2>1
<1>10. h[q] = At(s, n, k + 1)
  BY <1>2 DEF IsList
<1>11. \A i \in 1 .. n : h[s[i]] = q <=> i + 1 = k
  <2>1. ASSUME NEW i \in 1 .. n
        PROVE  h[s[i]] = q <=> i + 1 = k
    <3>1. h[s[i]] = At(s, n, i + 1)
      BY DEF IsList
    <3>2. CASE i + 1 \in 1 .. n
      BY <1>2, <1>6, <3>1, <3>2 DEF At
    <3>3. CASE i + 1 \notin 1 .. n
      <4>1. q # NoQh
        BY <1>2, ListElements
      <4> QED BY <1>4, <3>1, <3>3, <4>1 DEF At
    <3> QED BY <3>2, <3>3
  <2> QED BY <2>1
<1>12. \A i \in 1 .. n - 1 : g[t[i]] = At(t, n - 1, i + 1)
  <2>1. ASSUME NEW i \in 1 .. n - 1
        PROVE  g[t[i]] = At(t, n - 1, i + 1)
    <3>1. i \in 1 .. n /\ i + 1 \in 1 .. n /\ i + 1 + 1 = i + 2
      BY <1>4
    <3>2. t[i] \in Elements(s, n) \ {q}
      BY <1>5, <1>8 DEF Elements
    <3>3. CASE i + 1 < k
      <4>1. i < k /\ i + 1 # k
        BY <1>4, <3>3
      <4>2. g[t[i]] = At(s, n, i + 1)
        BY <1>5, <1>11, <3>1, <3>2, <4>1 DEF IsList
      <4> QED BY <1>9, <3>1, <3>3, <4>2
    <3>4. CASE i + 1 = k
      <4>1. i < k /\ ~(i + 1 < k)
        BY <1>4, <3>4
      <4>2. g[t[i]] = h[q]
        BY <1>5, <1>11, <3>1, <3>2, <3>4, <4>1
      <4>3. At(t, n - 1, i + 1) = At(s, n, i + 1 + 1)
        BY <1>9, <3>1, <4>1
      <4> QED BY <1>10, <3>4, <4>2, <4>3
    <3>5. CASE i + 1 > k
      <4>1. ~(i < k) /\ ~(i + 1 < k) /\ i + 1 + 1 # k
        BY <1>4, <3>5
      <4>2. g[t[i]] = At(s, n, i + 1 + 1)
        <5>1. PICK j \in 1 .. n : j = i + 1
          BY <3>1
        <5>2. t[i] = s[j]
          BY <1>5, <4>1, <5>1, Zenon
        <5>3. h[s[j]] = At(s, n, j + 1)
          BY Zenon DEF IsList
        <5>4. h[s[j]] # q
          BY <1>11, <4>1, <5>1, Zenon
        <5>5. g[t[i]] = h[t[i]]
          BY <3>2, <5>2, <5>4
        <5> QED BY <5>1, <5>2, <5>3, <5>5, Zenon
      <4> QED BY <1>9, <3>1, <4>1, <4>2
    <3> QED BY <1>4, <3>3, <3>4, <3>5
  <2> QED BY <2>1
<1>13. (IF head = q THEN h[q] ELSE head) = At(t, n - 1, 1)
  <2>1. 1 \in 1 .. n
    BY <1>4
  <2>2. head = s[1]
    BY <2>1 DEF IsList, At
  <2>3. CASE k = 1
    <3>1. At(t, n - 1, 1) = At(s, n, 1 + 1) /\ head = q
      BY <1>2, <1>9, <2>1, <2>2, <2>3
    <3> QED BY <1>10, <2>3, <3>1
  <2>4. CASE k # 1
    <3>1. 1 < k
      BY <1>4, <2>4
    <3>2. head # q
      BY <1>2, <1>6, <2>1, <2>2, <2>4
    <3> QED BY <1>9, <2>1, <2>2, <3>1, <3>2 DEF At
  <2> QED BY <2>3, <2>4
<1>14. IsList(g, n - 1, t, IF head = q THEN h[q] ELSE head)
  BY <1>4, <1>5, <1>7, <1>12, <1>13 DEF IsList
<1>15. Elements(t, n - 1) = Elements(s, n) \ {q}
  <2>1. Elements(t, n - 1) \subseteq Elements(s, n) \ {q}
    BY <1>5, <1>8 DEF Elements
  <2>2. ASSUME NEW i \in 1 .. n, s[i] # q
        PROVE  s[i] \in Elements(t, n - 1)
    <3>1. CASE i < k
      <4>1. i \in 1 .. n - 1
        BY <1>4, <3>1
      <4> QED BY <1>5, <3>1, <4>1 DEF Elements
    <3>2. CASE ~(i < k)
      <4>1. i # k
        BY <1>2, <2>2
      <4>2. i - 1 \in 1 .. n - 1 /\ ~(i - 1 < k) /\ i - 1 + 1 = i
        BY <1>4, <3>2, <4>1
      <4> QED BY <1>5, <4>2 DEF Elements
    <3> QED BY <3>1, <3>2
  <2> QED BY <2>1, <2>2 DEF Elements
<1> QED BY <1>4, <1>14, <1>15

\* A list has no more elements than there are QHs.
LEMMA ListLength ==
    ASSUME NEW h, NEW n, NEW s, NEW head, IsList(h, n, s, head)
    PROVE  n <= NumQh - 1
<1>1. n \in Nat /\ s \in [1 .. n -> Qhs]
  BY DEF IsList
<1>2. IsFiniteSet(1 .. n) /\ Cardinality(1 .. n) = n
  BY <1>1, FS_Interval
<1>3. IsFiniteSet(Qhs) /\ Cardinality(Qhs) = NumQh - 1
  BY SizesAssumption, FS_Interval DEF Qhs
<1>4. ASSUME ~(n <= NumQh - 1)
      PROVE  FALSE
  <2>1. Cardinality(Qhs) < Cardinality(1 .. n)
    BY <1>1, <1>2, <1>3, <1>4, SizesAssumption
  <2>2. \E i, j \in 1 .. n : i # j /\ s[i] = s[j]
    BY <1>1, <1>2, <1>3, <2>1, FS_PigeonHole
  <2> QED BY <2>2 DEF IsList
<1> QED BY <1>4

\* The walk of Unchain goes through the list that the first entry heads.
LEMMA WalkIs ==
    ASSUME NEW n, NEW s, IsList(hlink, n, s, entry[0])
    PROVE  \A i \in 0 .. NumQh : Walk[i] = At(s, n, i + 1)
<1>1. n \in Nat /\ s \in [1 .. n -> Qhs] /\ NumQh \in Nat
  BY SizesAssumption DEF IsList
<1>2. \A i \in 1 .. NumQh : At(s, n, i + 1) =
          IF At(s, n, i) = NoQh THEN NoQh ELSE hlink[At(s, n, i)]
  <2>1. ASSUME NEW i \in 1 .. NumQh
        PROVE  At(s, n, i + 1) = IF At(s, n, i) = NoQh THEN NoQh ELSE hlink[At(s, n, i)]
    <3>1. CASE i \in 1 .. n
      <4>1. s[i] # NoQh
        BY <3>1, ListElements
      <4>2. At(s, n, i) = s[i] /\ hlink[s[i]] = At(s, n, i + 1)
        BY <3>1 DEF At, IsList
      <4> QED BY <4>1, <4>2
    <3>2. CASE i \notin 1 .. n
      <4>1. i + 1 \notin 1 .. n
        BY <1>1, <3>2
      <4> QED BY <3>2, <4>1 DEF At
    <3> QED BY <3>1, <3>2
  <2> QED BY <2>1
<1>3. PICK w : w = [i \in 0 .. NumQh |-> At(s, n, i + 1)]
  OBVIOUS
<1>4. w = [i \in 0 .. NumQh |-> IF i = 0 THEN entry[0]
                                ELSE IF w[i - 1] = NoQh THEN NoQh ELSE hlink[w[i - 1]]]
  <2>1. w[0] = entry[0]
    <3>1. 0 \in 0 .. NumQh /\ 0 + 1 = 1
      BY <1>1
    <3> QED BY <1>3, <3>1 DEF IsList
  <2>2. ASSUME NEW i \in 0 .. NumQh, i # 0
        PROVE  w[i] = IF w[i - 1] = NoQh THEN NoQh ELSE hlink[w[i - 1]]
    <3>1. i \in 1 .. NumQh /\ i - 1 \in 0 .. NumQh /\ i - 1 + 1 = i
      BY <1>1, <2>2
    <3>2. w[i - 1] = At(s, n, i) /\ w[i] = At(s, n, i + 1)
      BY <1>3, <3>1
    <3> QED BY <1>2, <3>1, <3>2
  <2> QED BY <1>3, <2>1, <2>2
<1>5. Walk = [i \in 0 .. NumQh |-> IF i = 0 THEN entry[0]
                                   ELSE IF Walk[i - 1] = NoQh THEN NoQh ELSE hlink[Walk[i - 1]]]
  BY <1>4, Zenon DEF Walk
<1>6. SUFFICES ASSUME {i \in 0 .. NumQh : Walk[i] # w[i]} # {}
               PROVE  FALSE
  BY <1>3
<1>7. {i \in 0 .. NumQh : Walk[i] # w[i]} \in SUBSET Nat
  BY <1>1
<1>8. PICK m \in {i \in 0 .. NumQh : Walk[i] # w[i]} :
          \A i \in {j \in 0 .. NumQh : Walk[j] # w[j]} : m <= i
  BY <1>6, <1>7, Least
<1>9. m \in 0 .. NumQh /\ Walk[m] # w[m]
  BY <1>8
<1>10. CASE m = 0
  BY <1>4, <1>5, <1>9, <1>10
<1>11. CASE m # 0
  <2>1. m - 1 \in 0 .. NumQh /\ m - 1 < m
    BY <1>1, <1>9, <1>11
  <2>2. Walk[m - 1] = w[m - 1]
    BY <1>1, <1>8, <2>1
  <2>3. w[m] = IF w[m - 1] = NoQh THEN NoQh ELSE hlink[w[m - 1]]
    BY <1>4, <1>9, <1>11
  <2>4. Walk[m] = IF Walk[m - 1] = NoQh THEN NoQh ELSE hlink[Walk[m - 1]]
    BY <1>5, <1>9, <1>11
  <2> QED BY <1>9, <2>2, <2>3, <2>4, Zenon
<1> QED BY <1>10, <1>11

\* It finds the predecessor of a QH behind the first one.
LEMMA WalkFinds ==
    ASSUME NEW n, NEW s, IsList(hlink, n, s, entry[0]), NEW q \in Qhs
    PROVE  Predecessors(q) = {r \in Elements(s, n) : hlink[r] = q}
<1>1. n \in Nat /\ n <= NumQh - 1 /\ NumQh \in Nat /\ NumQh >= 1 /\ q # NoQh
  <2>1. n <= NumQh - 1
    BY ListLength
  <2>2. q # NoQh
    BY ListElements
  <2> QED BY <2>1, <2>2, SizesAssumption DEF IsList
<1>2. \A i \in 0 .. NumQh - 1 : Walk[i] = At(s, n, i + 1) /\ Walk[i + 1] = At(s, n, i + 2)
  <2>1. ASSUME NEW i \in 0 .. NumQh - 1
        PROVE  Walk[i] = At(s, n, i + 1) /\ Walk[i + 1] = At(s, n, i + 2)
    <3>1. i \in 0 .. NumQh /\ i + 1 \in 0 .. NumQh /\ i + 1 + 1 = i + 2
      BY <1>1
    <3> QED BY <3>1, WalkIs
  <2> QED BY <2>1
<1>3. ASSUME NEW i \in 0 .. NumQh - 1, Walk[i] # NoQh, Walk[i + 1] = q
      PROVE  Walk[i] \in Elements(s, n) /\ hlink[Walk[i]] = q
  <2>1. i + 1 \in 1 .. n
    BY <1>2, <1>3 DEF At
  <2>2. Walk[i] = s[i + 1] /\ hlink[s[i + 1]] = At(s, n, i + 1 + 1) /\ i + 1 + 1 = i + 2
    BY <1>1, <1>2, <2>1 DEF At, IsList
  <2> QED BY <1>2, <1>3, <2>1, <2>2 DEF Elements
<1>4. ASSUME NEW k \in 1 .. n, hlink[s[k]] = q
      PROVE  k - 1 \in 0 .. NumQh - 1 /\ Walk[k - 1] = s[k] /\ Walk[k - 1 + 1] = q /\ s[k] # NoQh
  <2>1. k - 1 \in 0 .. NumQh - 1 /\ k - 1 + 1 = k /\ k - 1 + 2 = k + 1
    BY <1>1
  <2>2. Walk[k - 1] = At(s, n, k) /\ Walk[k - 1 + 1] = At(s, n, k + 1)
    BY <1>2, <2>1
  <2>3. s[k] # NoQh
    BY ListElements
  <2> QED BY <1>4, <2>1, <2>2, <2>3 DEF At, IsList
<1>5. ASSUME NEW r \in Predecessors(q)
      PROVE  r \in Elements(s, n) /\ hlink[r] = q
  BY <1>3, <1>5 DEF Predecessors
<1>6. ASSUME NEW r \in Elements(s, n), hlink[r] = q
      PROVE  r \in Predecessors(q)
  BY <1>4, <1>6 DEF Predecessors, Elements
<1> QED BY <1>5, <1>6

Chained == Linked \cup {"unhead", "unchain"}
Sweeping == {"publish", "unhead", "unchain"}

\* The QHs that the memory chains.
InChain == {QhOf(c) : c \in {d \in Clients : pc[d] \in Chained}}

\* What the loops over the frame list have done, when the list starts at head.
Fed(head) ==
    /\ (\A c \in Clients : pc[c] \notin Sweeping) =>
          \A f \in 0 .. Frames - 1 : entry[f] = head
    /\ \A c \in Clients : pc[c] = "publish" =>
          /\ hlink[QhOf(c)] = head
          /\ \A f \in 0 .. Frames - 1 : entry[f] = IF f < cursor THEN QhOf(c) ELSE head
    /\ \A c \in Clients : pc[c] = "unhead" =>
          \A f \in 0 .. Frames - 1 :
              entry[f] = IF f < cursor /\ head = QhOf(c) THEN hlink[QhOf(c)] ELSE head
    /\ \A c \in Clients : pc[c] = "unchain" =>
          \A f \in 0 .. Frames - 1 :
              entry[f] = IF head = QhOf(c) THEN hlink[QhOf(c)] ELSE head

\* The chain is a list of the QHs that are linked, whatever a client is doing to it.
ListInv ==
    \E n \in 0 .. NumQh : \E s \in [1 .. n -> Qhs] :
        /\ IsList(hlink, n, s, At(s, n, 1))
        /\ Elements(s, n) = InChain
        /\ Fed(At(s, n, 1))

LEMMA ListTaken ==
    ASSUME ListInv
    PROVE  \E n, s, head : IsList(hlink, n, s, head) /\ Elements(s, n) = InChain /\ Fed(head)
BY DEF ListInv

LEMMA ListGiven ==
    ASSUME NEW n, NEW s, NEW head, IsList(hlink, n, s, head)', Elements(s, n) = InChain',
           Fed(head)'
    PROVE  ListInv'
<1>1. IsList(hlink', n, s, head)
  BY DEF IsList, At
<1>2. n \in Nat /\ s \in [1 .. n -> Qhs] /\ head = At(s, n, 1)
  BY <1>1 DEF IsList
<1>3. n <= NumQh - 1
  BY <1>1, ListLength
<1>4. n \in 0 .. NumQh
  BY <1>2, <1>3, SizesAssumption
<1>5. /\ IsList(hlink, n, s, At(s, n, 1))' /\ Elements(s, n)' = InChain'
      /\ Fed(At(s, n, 1))'
  BY <1>2, At(s, n, 1)' = At(s, n, 1) DEF Elements, At
<1> QED BY <1>2, <1>4, <1>5 DEF ListInv

\* While nobody else has the CPU.
LEMMA Alone ==
    ASSUME Books, NEW c \in Clients, running \in {Nobody, c}
    PROVE  \A d \in Clients \ {c} : pc[d] \notin Busy \cup Sweeping
BY NobodyAssumption, ControlStates DEF Books, Sweeping

\* After a step no loop is under way, or only that of c.
LEMMA FedAll ==
    ASSUME NEW head, \A d \in Clients : pc'[d] \notin Sweeping,
           \A f \in 0 .. Frames - 1 : entry'[f] = head
    PROVE  Fed(head)'
BY DEF Fed, Sweeping

LEMMA FedBy ==
    ASSUME NEW head, NEW c \in Clients, \A d \in Clients \ {c} : pc'[d] \notin Sweeping,
           \/ /\ pc'[c] = "publish" /\ hlink'[QhOf(c)'] = head
              /\ \A f \in 0 .. Frames - 1 : entry'[f] = IF f < cursor' THEN QhOf(c)' ELSE head
           \/ /\ pc'[c] = "unhead"
              /\ \A f \in 0 .. Frames - 1 :
                    entry'[f] = IF f < cursor' /\ head = QhOf(c)' THEN hlink'[QhOf(c)'] ELSE head
           \/ /\ pc'[c] = "unchain"
              /\ \A f \in 0 .. Frames - 1 :
                    entry'[f] = IF head = QhOf(c)' THEN hlink'[QhOf(c)'] ELSE head
    PROVE  Fed(head)'
<1>1. \A d \in Clients : pc'[d] \in Sweeping => d = c
  OBVIOUS
<1>2. pc'[c] \in Sweeping
  BY DEF Sweeping
<1>3. \A d \in Clients : pc'[d] = "publish" =>
          /\ hlink'[QhOf(d)'] = head
          /\ \A f \in 0 .. Frames - 1 : entry'[f] = IF f < cursor' THEN QhOf(d)' ELSE head
  BY <1>1 DEF Sweeping
<1>4. \A d \in Clients : pc'[d] = "unhead" => \A f \in 0 .. Frames - 1 :
          entry'[f] = IF f < cursor' /\ head = QhOf(d)' THEN hlink'[QhOf(d)'] ELSE head
  BY <1>1 DEF Sweeping
<1>5. \A d \in Clients : pc'[d] = "unchain" => \A f \in 0 .. Frames - 1 :
          entry'[f] = IF head = QhOf(d)' THEN hlink'[QhOf(d)'] ELSE head
  BY <1>1 DEF Sweeping
<1> QED BY <1>2, <1>3, <1>4, <1>5 DEF Fed

\* A QH that is being set up, linked or given back is not in the chain.
LEMMA NotChained ==
    ASSUME Books, NEW c \in Holders, pc[c] \in {"link", "publish", "wait"}
    PROVE  QhOf(c) \notin InChain /\ QhOf(c) \in Qhs
<1>1. \A d \in Clients : pc[d] \in Chained => d \in Holders /\ d # c
  BY ControlStates DEF Chained, Holders
<1> QED BY <1>1, HolderRanges DEF InChain

LEMMA AreChained ==
    ASSUME Books
    PROVE  InChain \subseteq Qhs /\ NoQh \notin InChain
<1>1. \A d \in Clients : pc[d] \in Chained => d \in Holders
  BY ControlStates DEF Chained, Holders
<1> QED BY <1>1, HolderRanges DEF InChain

\* Neither the chain nor a loop is touched.
LEMMA ListStill ==
    ASSUME ListInv, UNCHANGED <<entry, hlink, cursor, pipe>>,
           \A d \in Clients : \/ pc'[d] = pc[d]
                              \/ pc[d] \in Linked /\ pc'[d] \in Linked
                              \/ {pc[d], pc'[d]} \cap (Chained \cup Sweeping) = {}
    PROVE  ListInv'
<1>1. PICK n, s, head : IsList(hlink, n, s, head) /\ Elements(s, n) = InChain /\ Fed(head)
  BY ListTaken
<1>2. \A d \in Clients : QhOf(d)' = QhOf(d)
  BY DEF QhOf
<1>3. \A d \in Clients : pc'[d] \in Chained <=> pc[d] \in Chained
  BY DEF Chained
<1>4. InChain' = InChain
  BY <1>2, <1>3 DEF InChain
<1>5. \A d \in Clients : pc'[d] = pc[d] \/ {pc[d], pc'[d]} \cap Sweeping = {}
  BY ControlStates DEF Sweeping
<1>6. Fed(head)'
  <2>1. \A d \in Clients : \A l \in Sweeping : pc'[d] = l <=> pc[d] = l
    BY <1>5
  <2>2. (\A d \in Clients : pc'[d] \notin Sweeping) =>
            \A f \in 0 .. Frames - 1 : entry'[f] = head
    BY <1>1, <2>1 DEF Fed
  <2>3. \A d \in Clients : pc'[d] = "publish" =>
            /\ hlink'[QhOf(d)'] = head
            /\ \A f \in 0 .. Frames - 1 : entry'[f] = IF f < cursor' THEN QhOf(d)' ELSE head
    BY <1>1, <1>2, <2>1 DEF Fed, Sweeping
  <2>4. \A d \in Clients : pc'[d] = "unhead" => \A f \in 0 .. Frames - 1 :
            entry'[f] = IF f < cursor' /\ head = QhOf(d)' THEN hlink'[QhOf(d)'] ELSE head
    BY <1>1, <1>2, <2>1 DEF Fed, Sweeping
  <2>5. \A d \in Clients : pc'[d] = "unchain" => \A f \in 0 .. Frames - 1 :
            entry'[f] = IF head = QhOf(d)' THEN hlink'[QhOf(d)'] ELSE head
    BY <1>1, <1>2, <2>1 DEF Fed, Sweeping
  <2> QED BY <2>2, <2>3, <2>4, <2>5 DEF Fed
<1>7. IsList(hlink, n, s, head)'
  BY <1>1 DEF IsList, At
<1> QED BY <1>1, <1>4, <1>6, <1>7, ListGiven

\* The link of a QH that is not in the chain changes.
LEMMA ListLoose ==
    ASSUME Books, ListInv, NEW c \in Clients, running \in {Nobody, c},
           pc[c] \notin Chained \cup Sweeping, pc'[c] \notin Chained \cup Sweeping,
           \A d \in Clients \ {c} : pc'[d] = pc[d] /\ pipe'[d] = pipe[d],
           entry' = entry, \A q \in InChain : hlink'[q] = hlink[q]
    PROVE  ListInv'
<1>1. PICK n, s, head : IsList(hlink, n, s, head) /\ Elements(s, n) = InChain /\ Fed(head)
  BY ListTaken
<1>2. \A d \in Clients : pc[d] \in Chained <=> pc'[d] \in Chained
  OBVIOUS
<1>3. \A d \in Clients : pc[d] \in Chained => QhOf(d)' = QhOf(d)
  BY DEF QhOf
<1>4. InChain' = InChain
  BY <1>2, <1>3 DEF InChain
<1>5. \A d \in Clients : pc[d] \notin Sweeping /\ pc'[d] \notin Sweeping
  BY Alone
<1>6. Fed(head)'
  <2>1. \A f \in 0 .. Frames - 1 : entry'[f] = head
    BY <1>1, <1>5 DEF Fed
  <2> QED BY <1>5, <2>1, FedAll
<1>7. IsList(hlink', n, s, head)
  BY <1>1, ListFrame
<1>8. IsList(hlink, n, s, head)'
  BY <1>7 DEF IsList, At
<1> QED BY <1>1, <1>4, <1>6, <1>8, ListGiven

LEMMA QuietList ==
    ASSUME Books, ListInv,
           \/ UNCHANGED vars \/ Controller
           \/ \E c \in Clients : \/ Call(c) \/ GiveUp(c) \/ Panic(c) \/ Poll(c) \/ Copy(c)
                                 \/ Rearm(c) \/ Reattach(c)
    PROVE  ListInv'
<1>1. CASE UNCHANGED vars \/ Controller
  <2>1. UNCHANGED <<entry, hlink, cursor, pipe, pc>>
    BY <1>1 DEF vars, Controller, HcFrame, HcAdvance, HcFetch, HcPacket, HcHalt,
                clientVars, poolVars, linkVars
  <2> QED BY <2>1, ListStill
<1>2. ASSUME NEW c \in Clients,
             \/ Call(c) \/ GiveUp(c) \/ Panic(c) \/ Poll(c) \/ Copy(c) \/ Rearm(c) \/ Reattach(c)
      PROVE  ListInv'
  <2>1. UNCHANGED <<entry, hlink, cursor, pipe>>
    BY <1>2 DEF Call, GiveUp, Panic, Poll, Copy, Rearm, Reattach, poolVars, linkVars
  <2>2. \E l : /\ pc' = [pc EXCEPT ![c] = l]
               /\ \/ pc[c] \in Linked /\ l \in Linked
                  \/ pc[c] \in {"idle", "waiting"} /\ l \in {"idle", "waiting", "panicked"}
    BY <1>2, ControlStates DEF Call, GiveUp, Panic, Poll, Copy, Rearm, Reattach, Goto
  <2>3. \A d \in Clients : \/ pc'[d] = pc[d]
                           \/ pc[d] \in Linked /\ pc'[d] \in Linked
                           \/ /\ pc[d] \in {"idle", "waiting"}
                              /\ pc'[d] \in {"idle", "waiting", "panicked"}
    BY <2>2 DEF Books
  <2>4. {"idle", "waiting", "panicked"} \cap (Chained \cup Sweeping) = {}
    BY ControlStates DEF Chained, Sweeping
  <2> QED BY <2>1, <2>3, <2>4, ListStill
<1> QED BY <1>1, <1>2

LEMMA LooseList ==
    ASSUME Books, ListInv, NEW c \in Clients, Begin(c) \/ Free(c)
    PROVE  ListInv'
<1>1. running \in {Nobody, c} /\ entry' = entry
  BY DEF Begin, Free
<1>2. {"waiting", "link", "wait", "idle"} \cap (Chained \cup Sweeping) = {}
  BY ControlStates DEF Chained, Sweeping
<1>3. CASE Begin(c)
  <2>1. PICK p \in Pools!FreePipes("interrupt") :
            /\ pipe' = [pipe EXCEPT ![c] = p]
            /\ hlink' = [hlink EXCEPT ![p + 1] = NoQh]
    BY <1>3 DEF Begin
  <2>2. \A d \in Clients : pipe[d] # p /\ pipe[d] \in Nat
    BY SizesAssumption DEF Pools!FreePipes, Books
  <2>3. p \in Nat
    BY PoolRanges, SizesAssumption DEF Pools!FreePipes
  <2>4. \A q \in InChain : q # p + 1
    BY <2>2, <2>3 DEF InChain, QhOf
  <2>5. pc[c] = "waiting" /\ pc' = [pc EXCEPT ![c] = "link"]
    BY <1>3 DEF Begin, Goto
  <2>6. \A q \in InChain : hlink'[q] = hlink[q]
    BY <2>1, <2>4
  <2>7. \A d \in Clients \ {c} : pc'[d] = pc[d] /\ pipe'[d] = pipe[d]
    BY <2>1, <2>5
  <2>8. pc'[c] = "link"
    BY <2>5 DEF Books
  <2>9. pc[c] \notin Chained \cup Sweeping /\ pc'[c] \notin Chained \cup Sweeping
    BY <1>2, <2>5, <2>8
  <2> QED BY <1>1, <2>6, <2>7, <2>9, ListLoose
<1>4. CASE Free(c)
  <2>1. c \in Holders /\ pc[c] = "wait" /\ pc' = [pc EXCEPT ![c] = "idle"]
    BY <1>4, ControlStates DEF Free, Goto, Holders
  <2>2. \A q \in InChain : hlink'[q] = hlink[q]
    BY <1>4, <2>1, NotChained, AreChained DEF Free, Forgotten
  <2>3. \A d \in Clients \ {c} : pc'[d] = pc[d] /\ pipe'[d] = pipe[d]
    BY <1>4, <2>1 DEF Free
  <2>4. pc'[c] = "idle"
    BY <2>1 DEF Books
  <2>5. pc[c] \notin Chained \cup Sweeping /\ pc'[c] \notin Chained \cup Sweeping
    BY <1>2, <2>1, <2>4
  <2> QED BY <1>1, <2>2, <2>3, <2>5, ListLoose
<1> QED BY <1>3, <1>4

\* A client begins a loop.
LEMMA LinkList ==
    ASSUME Books, Memory, ListInv, NEW c \in Clients, LinkQh(c)
    PROVE  ListInv'
<1>1. PICK n, s, head : IsList(hlink, n, s, head) /\ Elements(s, n) = InChain /\ Fed(head)
  BY ListTaken
<1>2. /\ pc[c] = "link" /\ c \in Holders /\ running = c
      /\ pc' = [pc EXCEPT ![c] = "publish"] /\ pc'[c] = "publish"
      /\ cursor' = 0 /\ pipe' = pipe /\ entry' = entry
      /\ hlink' = [hlink EXCEPT ![QhOf(c)] = entry[0]]
  BY ControlStates DEF LinkQh, Goto, Books, Holders, poolVars
<1>3. \A d \in Clients : QhOf(d)' = QhOf(d)
  BY <1>2 DEF QhOf
<1>4. QhOf(c) \notin InChain /\ QhOf(c) \in Qhs
  BY <1>2, NotChained
<1>5. \A d \in Clients \ {c} : pc'[d] = pc[d] /\ pc[d] \notin Sweeping
  BY <1>2, Alone DEF Books
<1>6. pc[c] \notin Sweeping /\ pc[c] \notin Chained /\ pc'[c] \notin Chained
  BY <1>2, ControlStates DEF Sweeping, Chained
<1>7. \A f \in 0 .. Frames - 1 : entry[f] = head
  BY <1>1, <1>5, <1>6 DEF Fed
<1>8. \A d \in Clients : pc'[d] \in Chained <=> pc[d] \in Chained
  BY <1>5, <1>6
<1>9. InChain' = InChain
  BY <1>3, <1>8 DEF InChain
<1>10. IsList(hlink', n, s, head)
  BY <1>1, <1>2, <1>4, AreChained, ListFrame DEF Memory
<1>11. Fed(head)'
  <2>1. 0 \in 0 .. Frames - 1 /\ \A f \in 0 .. Frames - 1 : ~(f < 0)
    BY SizesAssumption
  <2>2. hlink'[QhOf(c)'] = head
    BY <1>2, <1>3, <1>4, <1>7, <2>1 DEF Memory
  <2>3. \A f \in 0 .. Frames - 1 : entry'[f] = IF f < cursor' THEN QhOf(c)' ELSE head
    BY <1>2, <1>7, <2>1
  <2> QED BY <1>2, <1>5, <2>2, <2>3, FedBy
<1>12. IsList(hlink, n, s, head)'
  BY <1>10 DEF IsList, At
<1> QED BY <1>1, <1>9, <1>11, <1>12, ListGiven

LEMMA DropList ==
    ASSUME Books, ListInv, NEW c \in Clients, Drop(c)
    PROVE  ListInv'
<1>1. PICK n, s, head : IsList(hlink, n, s, head) /\ Elements(s, n) = InChain /\ Fed(head)
  BY ListTaken
<1>2. /\ pc[c] \in {"open", "ended"} /\ running = Nobody
      /\ pc' = [pc EXCEPT ![c] = "unhead"] /\ pc'[c] = "unhead"
      /\ cursor' = 0 /\ pipe' = pipe /\ entry' = entry /\ hlink' = hlink
  BY DEF Drop, Goto, Books, poolVars, linkVars
<1>3. \A d \in Clients : QhOf(d)' = QhOf(d)
  BY <1>2 DEF QhOf
<1>4. \A d \in Clients \ {c} : pc'[d] = pc[d] /\ pc[d] \notin Sweeping
  BY <1>2, Alone DEF Books
<1>5. pc[c] \notin Sweeping /\ pc[c] \in Chained /\ pc'[c] \in Chained
  BY <1>2, ControlStates DEF Sweeping, Chained
<1>6. \A f \in 0 .. Frames - 1 : entry[f] = head
  BY <1>1, <1>4, <1>5 DEF Fed
<1>7. \A d \in Clients : pc'[d] \in Chained <=> pc[d] \in Chained
  BY <1>4, <1>5
<1>8. InChain' = InChain
  BY <1>3, <1>7 DEF InChain
<1>9. Fed(head)'
  <2>1. \A f \in 0 .. Frames - 1 : ~(f < cursor')
    BY <1>2
  <2>2. \A f \in 0 .. Frames - 1 :
            entry'[f] = IF f < cursor' /\ head = QhOf(c)' THEN hlink'[QhOf(c)'] ELSE head
    BY <1>2, <1>6, <2>1
  <2> QED BY <1>2, <1>4, <2>2, FedBy
<1>10. IsList(hlink, n, s, head)'
  BY <1>1, <1>2 DEF IsList, At
<1> QED BY <1>1, <1>8, <1>9, <1>10, ListGiven

\* One turn of the loop that publishes a QH; with the last one the QH is in the chain.
LEMMA PublishList ==
    ASSUME Books, Memory, ListInv, NEW c \in Clients, PublishEntry(c)
    PROVE  ListInv'
<1>1. PICK n, s, head : IsList(hlink, n, s, head) /\ Elements(s, n) = InChain /\ Fed(head)
  BY ListTaken
<1>2. /\ pc[c] = "publish" /\ c \in Holders /\ running = c /\ pipe' = pipe /\ hlink' = hlink
      /\ entry' = [entry EXCEPT ![cursor] = QhOf(c)]
  BY ControlStates DEF PublishEntry, Holders, poolVars
<1>3. PICK q : q = QhOf(c)
  OBVIOUS
<1>4. \A d \in Clients : QhOf(d)' = QhOf(d)
  BY <1>2 DEF QhOf
<1>5. q \notin InChain /\ q \in Qhs
  BY <1>2, <1>3, NotChained
<1>6. \A d \in Clients \ {c} : pc[d] \notin Sweeping
  BY <1>2, Alone
<1>7. /\ hlink[q] = head
      /\ \A f \in 0 .. Frames - 1 : entry[f] = IF f < cursor THEN q ELSE head
  BY <1>1, <1>2, <1>3 DEF Fed
<1>8. cursor \in 0 .. Frames - 1 /\ Frames \in Nat
  BY SizesAssumption DEF Books
<1>9. \A f \in 0 .. Frames - 1 : entry'[f] = IF f < cursor + 1 THEN q ELSE head
  <2>1. \A f \in 0 .. Frames - 1 : entry'[f] = IF f = cursor THEN q ELSE entry[f]
    BY <1>2, <1>3 DEF Memory
  <2>2. \A f \in 0 .. Frames - 1 : f < cursor + 1 <=> f < cursor \/ f = cursor
    BY <1>8
  <2> QED BY <1>7, <2>1, <2>2
<1>10. CASE cursor + 1 < Frames
  <2>1. cursor' = cursor + 1 /\ pc' = pc
    BY <1>10 DEF PublishEntry, NextEntry
  <2>2. InChain' = InChain
    BY <1>4, <2>1 DEF InChain
  <2>3. /\ hlink'[QhOf(c)'] = head
        /\ \A f \in 0 .. Frames - 1 : entry'[f] = IF f < cursor' THEN QhOf(c)' ELSE head
    BY <1>2, <1>3, <1>4, <1>7, <1>9, <2>1
  <2>4. Fed(head)'
    BY <1>2, <1>6, <2>1, <2>3, FedBy
  <2>5. IsList(hlink, n, s, head)'
    BY <1>1, <1>2 DEF IsList, At
  <2> QED BY <1>1, <2>2, <2>4, <2>5, ListGiven
<1>11. CASE ~(cursor + 1 < Frames)
  <2>1. pc' = [pc EXCEPT ![c] = "open"] /\ pc'[c] = "open"
    BY <1>11 DEF PublishEntry, NextEntry, Goto, Books
  <2>2. \A d \in Clients : pc'[d] \in Chained <=> pc[d] \in Chained \/ d = c
    BY <2>1, ControlStates DEF Chained, Books
  <2>3. InChain' = InChain \cup {q}
    BY <1>3, <1>4, <2>2 DEF InChain
  <2>4. PICK t : IsList(hlink, n + 1, t, q) /\ Elements(t, n + 1) = Elements(s, n) \cup {q}
    BY <1>1, <1>5, <1>7, ListGrows
  <2>5. \A d \in Clients : pc'[d] \notin Sweeping
    BY <1>6, <2>1, ControlStates DEF Sweeping, Books
  <2>6. \A f \in 0 .. Frames - 1 : entry'[f] = q
    BY <1>8, <1>9, <1>11
  <2>7. Fed(q)'
    BY <2>5, <2>6, FedAll
  <2>8. PICK m : m = n + 1
    OBVIOUS
  <2>9. IsList(hlink, m, t, q)' /\ Elements(t, m) = InChain'
    BY <1>1, <1>2, <2>3, <2>4, <2>8 DEF IsList, At
  <2> QED BY <2>7, <2>9, ListGiven
<1> QED BY <1>10, <1>11

\* One turn of the loop that takes a QH out of the entries.
LEMMA UnheadList ==
    ASSUME Books, Memory, ListInv, NEW c \in Clients, UnheadEntry(c)
    PROVE  ListInv'
<1>1. PICK n, s, head : IsList(hlink, n, s, head) /\ Elements(s, n) = InChain /\ Fed(head)
  BY ListTaken
<1>2. /\ pc[c] = "unhead" /\ running = c /\ pipe' = pipe /\ hlink' = hlink
      /\ entry' = [entry EXCEPT ![cursor] = IF @ = QhOf(c) THEN hlink[QhOf(c)] ELSE @]
  BY DEF UnheadEntry, poolVars
<1>3. PICK q, next : q = QhOf(c) /\ next = hlink[QhOf(c)]
  OBVIOUS
<1>4. \A d \in Clients : QhOf(d)' = QhOf(d)
  BY <1>2 DEF QhOf
<1>5. QhOf(c)' = q /\ hlink'[QhOf(c)'] = next
  BY <1>2, <1>3, <1>4
<1>6. \A d \in Clients \ {c} : pc[d] \notin Sweeping
  BY <1>2, Alone
<1>7. \A f \in 0 .. Frames - 1 : entry[f] = IF f < cursor /\ head = q THEN next ELSE head
  BY <1>1, <1>2, <1>3 DEF Fed
<1>8. cursor \in 0 .. Frames - 1 /\ Frames \in Nat
  BY SizesAssumption DEF Books
<1>9. \A f \in 0 .. Frames - 1 :
          entry'[f] = IF f < cursor + 1 /\ head = q THEN next ELSE head
  <2>1. entry[cursor] = head
    BY <1>7, <1>8
  <2>2. \A f \in 0 .. Frames - 1 :
            entry'[f] = IF f = cursor THEN (IF head = q THEN next ELSE head) ELSE entry[f]
    BY <1>2, <1>3, <1>8, <2>1 DEF Memory
  <2>3. \A f \in 0 .. Frames - 1 : f < cursor + 1 <=> f < cursor \/ f = cursor
    BY <1>8
  <2> QED BY <1>7, <2>2, <2>3
<1>10. pc'[c] \in {"unhead", "unchain"} /\ \A d \in Clients \ {c} : pc'[d] = pc[d]
  BY <1>2 DEF UnheadEntry, NextEntry, Goto, Books
<1>11. \A d \in Clients : pc'[d] \in Chained <=> pc[d] \in Chained
  BY <1>2, <1>10, ControlStates DEF Chained
<1>12. InChain' = InChain
  BY <1>4, <1>11 DEF InChain
<1>13. Fed(head)'
  <2>1. CASE cursor + 1 < Frames
    <3>1. cursor' = cursor + 1 /\ pc'[c] = "unhead"
      BY <1>2, <2>1 DEF UnheadEntry, NextEntry
    <3>2. \A f \in 0 .. Frames - 1 :
              entry'[f] = IF f < cursor' /\ head = QhOf(c)' THEN hlink'[QhOf(c)'] ELSE head
      BY <1>5, <1>9, <3>1
    <3> QED BY <1>6, <1>10, <3>1, <3>2, FedBy
  <2>2. CASE ~(cursor + 1 < Frames)
    <3>1. pc'[c] = "unchain"
      BY <1>2, <2>2 DEF UnheadEntry, NextEntry, Goto, Books
    <3>2. \A f \in 0 .. Frames - 1 : f < cursor + 1
      BY <1>8, <2>2
    <3>3. \A f \in 0 .. Frames - 1 :
              entry'[f] = IF head = QhOf(c)' THEN hlink'[QhOf(c)'] ELSE head
      BY <1>5, <1>9, <3>2
    <3> QED BY <1>6, <1>10, <3>1, <3>3, FedBy
  <2> QED BY <2>1, <2>2
<1>14. IsList(hlink, n, s, head)'
  BY <1>1, <1>2 DEF IsList, At
<1> QED BY <1>1, <1>12, <1>13, <1>14, ListGiven

\* What Unchain does to the links of the chain, whether the QH was the first one,
\* which the walk does not come to any more, or another one.
LEMMA UnchainLinks ==
    ASSUME Books, Memory, NEW c \in Clients, Unchain(c),
           NEW n, NEW s, NEW head, IsList(hlink, n, s, head), Elements(s, n) = InChain, Fed(head)
    PROVE  /\ QhOf(c) \in Elements(s, n)
           /\ entry[0] = IF head = QhOf(c) THEN hlink[QhOf(c)] ELSE head
           /\ \A r \in Elements(s, n) :
                 hlink'[r] = IF hlink[r] = QhOf(c) THEN hlink[QhOf(c)] ELSE hlink[r]
<1>1. PICK q, next : q = QhOf(c) /\ next = hlink[QhOf(c)]
  OBVIOUS
<1>2. /\ pc[c] = "unchain"
      /\ hlink' = [p \in Qhs |-> IF p \in Predecessors(q) THEN next ELSE hlink[p]]
  BY <1>1 DEF Unchain
<1>3. q \in Elements(s, n) /\ q \in Qhs /\ Elements(s, n) \subseteq Qhs
  <2>1. q \in InChain
    BY <1>1, <1>2 DEF InChain, Chained
  <2> QED BY <2>1, AreChained
<1>4. entry[0] = IF head = q THEN next ELSE head
  BY <1>1, <1>2, SizesAssumption DEF Fed
<1>5. \A r \in Elements(s, n) : r \in Predecessors(q) <=> hlink[r] = q
  <2>1. CASE head # q
    <3>1. entry[0] = head
      BY <1>4, <2>1
    <3>2. IsList(hlink, n, s, entry[0])
      BY <3>1
    <3>3. Predecessors(q) = {r \in Elements(s, n) : hlink[r] = q}
      BY <1>3, <3>2, WalkFinds
    <3> QED BY <3>3
  <2>2. CASE head = q
    <3>1. n \in Nat /\ 1 \in 1 .. n /\ s[1] = q
      <4>1. n \in Nat /\ n # 0
        BY <1>3 DEF IsList, Elements
      <4> QED BY <2>2, <4>1 DEF IsList, At
    <3>2. IsList(hlink, n - 1, Behind(s, n, 1), next)
          /\ Elements(Behind(s, n, 1), n - 1) \subseteq Elements(s, n)
      BY <1>1, <3>1, ListBehind
    <3>3. entry[0] = next
      BY <1>4, <2>2
    <3>4. PICK m, t : m = n - 1 /\ t = Behind(s, n, 1)
      OBVIOUS
    <3>5. IsList(hlink, m, t, entry[0])
      BY <3>2, <3>3, <3>4
    <3>6. Predecessors(q) = {r \in Elements(t, m) : hlink[r] = q}
      BY <1>3, <3>5, WalkFinds
    <3>7. \A r \in Elements(s, n) : hlink[r] # q
      <4>1. SUFFICES ASSUME NEW i \in 1 .. n, hlink[s[i]] = q
                     PROVE  FALSE
        BY DEF Elements
      <4>2. At(s, n, i + 1) = q /\ q # NoQh
        BY <1>3, <4>1, AreChained DEF IsList
      <4>3. i + 1 \in 1 .. n /\ s[i + 1] = s[1]
        BY <3>1, <4>2 DEF At
      <4>4. i + 1 = 1
        BY <3>1, <4>3 DEF IsList
      <4> QED BY <3>1, <4>4
    <3> QED BY <3>2, <3>4, <3>6, <3>7
  <2> QED BY <2>1, <2>2
<1>6. \A r \in Elements(s, n) : hlink'[r] = IF hlink[r] = q THEN next ELSE hlink[r]
  BY <1>2, <1>3, <1>5
<1> QED BY <1>1, <1>3, <1>4, <1>6

LEMMA UnchainList ==
    ASSUME Books, Memory, ListInv, NEW c \in Clients, Unchain(c)
    PROVE  /\ ListInv'
           /\ hlink'[QhOf(c)] = hlink[QhOf(c)] /\ hlink[QhOf(c)] \in InChain' \cup {NoQh}
<1>1. PICK n, s, head : IsList(hlink, n, s, head) /\ Elements(s, n) = InChain /\ Fed(head)
  BY ListTaken
<1>2. PICK q, next : q = QhOf(c) /\ next = hlink[QhOf(c)]
  OBVIOUS
<1>3. /\ q \in Elements(s, n)
      /\ entry[0] = IF head = q THEN next ELSE head
      /\ \A r \in Elements(s, n) : hlink'[r] = IF hlink[r] = q THEN next ELSE hlink[r]
  BY <1>1, <1>2, UnchainLinks
<1>4. /\ pc[c] = "unchain" /\ pc' = [pc EXCEPT ![c] = "wait"] /\ pc'[c] = "wait"
      /\ running = c /\ pipe' = pipe /\ entry' = entry
  BY DEF Unchain, Goto, Books, poolVars
<1>5. next # q
  <2>1. q \notin Reach(next)
    BY <1>1, <1>2, <1>3, ListAcyclic
  <2>2. q \in Qhs
    BY <1>1, <1>3, AreChained
  <2>3. ASSUME next = q PROVE q \in Reach(next)
    BY <2>2, <2>3 DEF Reach
  <2> QED BY <2>1, <2>3
<1>6. PICK first : first = IF head = q THEN next ELSE head
  OBVIOUS
<1>7. PICK t : IsList(hlink', n - 1, t, first) /\ Elements(t, n - 1) = Elements(s, n) \ {q}
  BY <1>1, <1>2, <1>3, <1>6, ListShrinks
<1>8. PICK m : m = n - 1
  OBVIOUS
<1>9. \A d \in Clients : pc'[d] \in Chained <=> pc[d] \in Chained /\ d # c
  BY <1>4, ControlStates DEF Chained
<1>10. InChain' = InChain \ {q}
  <2>1. \A d \in Clients : QhOf(d)' = QhOf(d)
    BY <1>4 DEF QhOf
  <2>2. \A d \in Clients : pc[d] \in Chained => d \in Holders
    BY ControlStates DEF Chained, Holders
  <2>3. c \in Holders /\ \A d \in Clients : pc[d] \in Chained /\ d # c => QhOf(d) # q
    BY <1>2, <1>4, <2>2, HolderRanges, ControlStates DEF Holders
  <2> QED BY <1>2, <1>9, <2>1, <2>3 DEF InChain
<1>11. \A d \in Clients : pc'[d] \notin Sweeping
  BY <1>4, Alone, ControlStates DEF Sweeping
<1>12. \A f \in 0 .. Frames - 1 : entry'[f] = first
  BY <1>1, <1>2, <1>4, <1>6 DEF Fed
<1>13. Fed(first)'
  BY <1>11, <1>12, FedAll
<1>14. IsList(hlink, m, t, first)' /\ Elements(t, m) = InChain'
  BY <1>1, <1>7, <1>8, <1>10 DEF IsList, At
<1>15. ListInv'
  BY <1>13, <1>14, ListGiven
<1>16. next \in InChain' \cup {NoQh}
  BY <1>1, <1>2, <1>3, <1>5, <1>10, ListElements
<1> QED BY <1>2, <1>3, <1>5, <1>15, <1>16

LEMMA StepList ==
    ASSUME PipeContext, ListInv, [Next]_vars
    PROVE  ListInv'
<1>1. Books /\ Memory
  BY DEF PipeContext
<1>2. CASE UNCHANGED vars \/ Controller
  BY <1>1, <1>2, QuietList
<1>3. ASSUME NEW c \in Clients, Run(c)
      PROVE  ListInv'
  BY <1>1, <1>3, QuietList, LooseList, LinkList, DropList, PublishList, UnheadList, UnchainList
     DEF Run
<1> QED BY <1>2, <1>3 DEF Next

LEMMA InitList ==
    ASSUME Init
    PROVE  ListInv
<1>1. \A c \in Clients : pc[c] = "idle"
  BY DEF Init
<1>2. InChain = {}
  BY <1>1, ControlStates DEF InChain, Chained
<1>3. PICK s : s = [i \in 1 .. 0 |-> NoQh]
  OBVIOUS
<1>4. s \in [1 .. 0 -> Qhs] /\ 1 .. 0 = {} /\ 0 \in 0 .. NumQh
  BY <1>3, SizesAssumption
<1>5. At(s, 0, 1) = NoQh
  BY <1>4 DEF At
<1>6. IsList(hlink, 0, s, NoQh)
  BY <1>4, <1>5 DEF IsList
<1>7. Elements(s, 0) = {}
  BY <1>4 DEF Elements
<1>8. Fed(NoQh)
  <2>1. \A f \in 0 .. Frames - 1 : entry[f] = NoQh
    BY DEF Init
  <2> QED BY <1>1, <2>1 DEF Fed
<1>9. IsList(hlink, 0, s, At(s, 0, 1)) /\ Fed(At(s, 0, 1))
  BY <1>5, <1>6, <1>8
<1> QED BY <1>2, <1>4, <1>7, <1>9 DEF ListInv

\* The chain of one frame.
LEMMA EntryList ==
    ASSUME Books, ListInv, NEW f \in 0 .. Frames - 1
    PROVE  \E n, s : /\ IsList(hlink, n, s, entry[f])
                     /\ \A d \in Clients : pc[d] \in Linked => QhOf(d) \in Elements(s, n)
                     /\ Elements(s, n) \subseteq
                           {QhOf(d) : d \in {e \in Clients : pc[e] \in Linked \/ running = e}}
<1>1. PICK n, s, head : IsList(hlink, n, s, head) /\ Elements(s, n) = InChain /\ Fed(head)
  BY ListTaken
<1>2. \A d \in Clients : pc[d] \in Linked => QhOf(d) \in Elements(s, n)
  BY <1>1 DEF InChain, Chained
<1>3. Elements(s, n) \subseteq
          {QhOf(d) : d \in {e \in Clients : pc[e] \in Linked \/ running = e}}
  <2>1. \A d \in Clients : pc[d] \in Chained => pc[d] \in Linked \/ running = d
    BY ControlStates DEF Books, Chained
  <2> QED BY <1>1, <2>1 DEF InChain
<1>4. CASE entry[f] = head
  <2>1. IsList(hlink, n, s, entry[f])
    BY <1>1, <1>4
  <2> QED BY <1>2, <1>3, <2>1
<1>5. ASSUME NEW c \in Clients, pc[c] = "publish", entry[f] = QhOf(c), hlink[QhOf(c)] = head
      PROVE  \E m, t : /\ IsList(hlink, m, t, entry[f])
                       /\ Elements(t, m) = Elements(s, n) \cup {QhOf(c)}
  <2>1. QhOf(c) \in Qhs /\ QhOf(c) \notin Elements(s, n)
    BY <1>1, <1>5, NotChained, ControlStates DEF Holders
  <2>2. PICK q : q = QhOf(c)
    OBVIOUS
  <2>3. \E t : IsList(hlink, n + 1, t, q) /\ Elements(t, n + 1) = Elements(s, n) \cup {q}
    BY <1>1, <1>5, <2>1, <2>2, ListGrows
  <2> QED BY <1>5, <2>2, <2>3
<1>6. ASSUME NEW c \in Clients, pc[c] \in {"unhead", "unchain"}, head = QhOf(c),
             entry[f] = hlink[QhOf(c)]
      PROVE  \E m, t : /\ IsList(hlink, m, t, entry[f])
                       /\ Elements(t, m) = Elements(s, n) \ {QhOf(c)}
  <2>1. n \in Nat /\ 1 \in 1 .. n /\ s[1] = QhOf(c)
    <3>1. QhOf(c) \in InChain
      BY <1>6 DEF InChain, Chained
    <3>2. n \in Nat /\ n # 0
      BY <1>1, <3>1 DEF IsList, Elements
    <3> QED BY <1>1, <1>6, <3>2 DEF IsList, At
  <2>2. PICK t : t = Behind(s, n, 1)
    OBVIOUS
  <2>3. /\ IsList(hlink, n - 1, t, hlink[s[1]])
        /\ \A i \in 1 .. 1 : s[i] \notin Elements(t, n - 1)
        /\ \A i \in 1 .. n : i > 1 => s[i] \in Elements(t, n - 1)
        /\ Elements(t, n - 1) \subseteq Elements(s, n)
    BY <1>1, <2>1, <2>2, ListBehind
  <2>4. \A i \in 1 .. n : s[i] # s[1] => i > 1
    BY <2>1
  <2>5. 1 \in 1 .. 1
    OBVIOUS
  <2>6. Elements(t, n - 1) = Elements(s, n) \ {s[1]}
    BY <2>3, <2>4, <2>5 DEF Elements
  <2> QED BY <1>6, <2>1, <2>3, <2>6
<1>7. CASE entry[f] # head
  <2>1. PICK c \in Clients : pc[c] \in Sweeping
    BY <1>1, <1>7 DEF Fed
  <2>2. running = c /\ c \in Holders
    BY <2>1, ControlStates DEF Sweeping, Books, Holders
  <2>3. CASE pc[c] = "publish"
    <3>1. entry[f] = QhOf(c) /\ hlink[QhOf(c)] = head
      BY <1>1, <1>7, <2>3 DEF Fed
    <3>2. PICK m, t : /\ IsList(hlink, m, t, entry[f])
                      /\ Elements(t, m) = Elements(s, n) \cup {QhOf(c)}
      BY <1>5, <2>3, <3>1
    <3> QED BY <1>2, <1>3, <2>2, <3>2
  <2>4. CASE pc[c] \in {"unhead", "unchain"}
    <3>1. head = QhOf(c) /\ entry[f] = hlink[QhOf(c)]
      BY <1>1, <1>7, <2>4 DEF Fed
    <3>2. PICK m, t : /\ IsList(hlink, m, t, entry[f])
                      /\ Elements(t, m) = Elements(s, n) \ {QhOf(c)}
      BY <1>6, <2>4, <3>1
    <3>3. \A d \in Clients : pc[d] \in Linked => QhOf(d) # QhOf(c)
      <4>1. \A d \in Clients : pc[d] \in Linked => d \in Holders /\ d # c
        BY <2>4, ControlStates DEF Holders
      <4> QED BY <2>2, <4>1, HolderRanges
    <3> QED BY <1>2, <1>3, <3>2, <3>3
  <2> QED BY <2>1, <2>3, <2>4 DEF Sweeping
<1> QED BY <1>4, <1>7

LEMMA ListExact ==
    ASSUME Books, Memory, ListInv
    PROVE  ScheduleExact
<1>1. DOMAIN entry = 0 .. Frames - 1
  BY DEF Memory
<1>2. ASSUME NEW f \in 0 .. Frames - 1
      PROVE  /\ \A c \in Clients : pc[c] \in Linked => QhOf(c) \in Reach(entry[f])
             /\ Reach(entry[f]) \ {QhOf(c) : c \in {d \in Clients : pc[d] \in Linked}} \subseteq
                   {QhOf(c) : c \in {d \in Clients : running = d}}
             /\ \A q \in Reach(entry[f]) : q \notin Reach(hlink[q])
  <2>1. PICK n, s : /\ IsList(hlink, n, s, entry[f])
                    /\ \A d \in Clients : pc[d] \in Linked => QhOf(d) \in Elements(s, n)
                    /\ Elements(s, n) \subseteq
                         {QhOf(d) : d \in {e \in Clients : pc[e] \in Linked \/ running = e}}
    BY EntryList
  <2>2. PICK first : first = entry[f]
    OBVIOUS
  <2>3. Reach(entry[f]) = Elements(s, n)
    BY <2>1, <2>2, ListReach
  <2>4. \A q \in Elements(s, n) : q \notin Reach(hlink[q])
    BY <2>1, <2>2, ListAcyclic
  <2> QED BY <2>1, <2>3, <2>4
<1> QED BY <1>1, <1>2 DEF ScheduleExact

\* At every moment the chain of each frame has every pipe that is linked, no other QH
\* but the one being linked or unlinked, and an end (schedule.rs:178-249), for every
\* number of pipes and every length of the frame list.
THEOREM SchedulesPeriodic == Spec => []ScheduleExact
<1>1. Init => ListInv
  BY InitList
<1>2. PipeContext /\ PipeContext' /\ ListInv /\ [Next]_vars => ListInv'
  BY StepList
<1>3. PipeContext /\ ListInv => ScheduleExact
  BY ListExact DEF PipeContext
<1> QED BY <1>1, <1>2, <1>3, PipeInvariance, PTL DEF Spec

-----------------------------------------------------------------------------
(* The controller *)

\* The QHs an entry may point at.
Entered == {QhOf(c) : c \in {d \in Clients : pc[d] \in Chained \cup {"publish"}}}

\* The QHs the controller may hold.  That of a Drop is among them until a frame has
\* started since it was unlinked.
Visible == {QhOf(c) : c \in {d \in Holders : pc[d] # "link" /\ ~(pc[d] = "wait" /\ crossed)}}

DmaInv ==
    /\ \A c \in Clients : pc[c] = "wait" => hlink[QhOf(c)] \in InChain \cup {NoQh}
    /\ {hcAt, hcNext} \subseteq Visible \cup {NoQh}

LEMMA EntryRange ==
    ASSUME Books, ListInv
    PROVE  \A f \in 0 .. Frames - 1 : entry[f] \in Entered \cup {NoQh}
<1>1. PICK n, s, head : IsList(hlink, n, s, head) /\ Elements(s, n) = InChain /\ Fed(head)
  BY ListTaken
<1>2. head \in InChain \cup {NoQh} /\ \A q \in InChain : hlink[q] \in InChain \cup {NoQh}
  BY <1>1, ListElements
<1>3. InChain \subseteq Entered
  BY DEF InChain, Entered
<1>4. ASSUME NEW f \in 0 .. Frames - 1
      PROVE  entry[f] \in Entered \cup {NoQh}
  <2>1. CASE \A c \in Clients : pc[c] \notin Sweeping
    BY <1>1, <1>2, <1>3, <2>1 DEF Fed
  <2>2. ASSUME NEW c \in Clients, pc[c] = "publish"
        PROVE  entry[f] \in Entered \cup {NoQh}
    <3>1. QhOf(c) \in Entered
      BY <2>2 DEF Entered
    <3>2. entry[f] = QhOf(c) \/ entry[f] = head
      BY <1>1, <2>2 DEF Fed
    <3> QED BY <1>2, <1>3, <3>1, <3>2
  <2>3. ASSUME NEW c \in Clients, pc[c] \in {"unhead", "unchain"}
        PROVE  entry[f] \in Entered \cup {NoQh}
    <3>1. QhOf(c) \in InChain
      BY <2>3 DEF InChain, Chained
    <3>2. entry[f] = hlink[QhOf(c)] \/ entry[f] = head
      BY <1>1, <2>3 DEF Fed
    <3> QED BY <1>2, <1>3, <3>1, <3>2
  <2> QED BY <2>1, <2>2, <2>3 DEF Sweeping
<1> QED BY <1>4

LEMMA EnteredVisible ==
    ASSUME Books
    PROVE  InChain \subseteq Entered /\ Entered \subseteq Visible /\ Visible \subseteq Qhs
<1>1. \A d \in Clients : pc[d] \in Chained \cup {"publish"} =>
          d \in Holders /\ pc[d] \notin {"link", "wait"}
  BY ControlStates DEF Chained, Holders
<1>2. \A d \in Holders : QhOf(d) \in Qhs
  BY HolderRanges
<1>3. InChain \subseteq Entered
  BY DEF InChain, Entered
<1>4. Entered \subseteq Visible
  BY <1>1 DEF Entered, Visible
<1> QED BY <1>2, <1>3, <1>4 DEF Visible

\* What they link to is as visible.
LEMMA VisibleClosed ==
    ASSUME Books, ListInv, DmaInv
    PROVE  \A q \in Visible : hlink[q] \in Visible \cup {NoQh}
<1>1. PICK n, s, head : IsList(hlink, n, s, head) /\ Elements(s, n) = InChain /\ Fed(head)
  BY ListTaken
<1>2. head \in InChain \cup {NoQh} /\ \A q \in InChain : hlink[q] \in InChain \cup {NoQh}
  BY <1>1, ListElements
<1>3. InChain \subseteq Visible
  BY EnteredVisible
<1>4. ASSUME NEW c \in Holders, pc[c] # "link"
      PROVE  hlink[QhOf(c)] \in InChain \cup {NoQh}
  <2>1. CASE pc[c] = "publish"
    BY <1>1, <1>2, <2>1 DEF Fed, Holders
  <2>2. CASE pc[c] = "wait"
    BY <2>2 DEF DmaInv, Holders
  <2>3. CASE pc[c] \in Chained
    BY <1>2, <2>3 DEF InChain, Holders
  <2> QED BY <1>4, <2>1, <2>2, <2>3, ControlStates DEF Holders, Chained
<1> QED BY <1>3, <1>4 DEF Visible

LEMMA RunRange ==
    ASSUME Books, NEW c \in Clients, Run(c)
    PROVE  /\ running \in {Nobody, c}
           /\ \A d \in Clients \ {c} : pc'[d] = pc[d] /\ QhOf(d)' = QhOf(d)
           /\ c \in Holders /\ pc[c] # "link" /\ ~(pc[c] = "wait" /\ crossed) =>
                 QhOf(c)' = QhOf(c) /\ pc'[c] \in Holding \ {"link"}
           /\ pc'[c] = "wait" => Unchain(c) /\ ~crossed'
<1>1. CASE Call(c) \/ GiveUp(c) \/ Panic(c)
  <2>1. /\ running \in {Nobody, c} /\ pipe' = pipe /\ crossed' = crossed
        /\ pc[c] \in {"idle", "waiting"}
        /\ \E l \in {"idle", "waiting", "panicked"} : pc' = [pc EXCEPT ![c] = l]
    BY <1>1 DEF Call, GiveUp, Panic, Goto, poolVars
  <2>2. c \notin Holders /\ pc'[c] # "wait" /\ \A d \in Clients \ {c} : pc'[d] = pc[d]
    BY <2>1, ControlStates DEF Holders, Books
  <2> QED BY <2>1, <2>2 DEF QhOf
<1>2. CASE Begin(c)
  <2>1. /\ running \in {Nobody, c} /\ crossed' = crossed /\ pc[c] = "waiting"
        /\ pc' = [pc EXCEPT ![c] = "link"] /\ \E p : pipe' = [pipe EXCEPT ![c] = p]
    BY <1>2 DEF Begin, Goto
  <2>2. c \notin Holders /\ pc'[c] # "wait"
        /\ \A d \in Clients \ {c} : pc'[d] = pc[d] /\ pipe'[d] = pipe[d]
    BY <2>1, ControlStates DEF Holders, Books
  <2> QED BY <2>1, <2>2 DEF QhOf
<1>3. CASE Free(c)
  <2>1. /\ running \in {Nobody, c} /\ crossed' = crossed /\ pc[c] = "wait" /\ crossed
        /\ pc' = [pc EXCEPT ![c] = "idle"] /\ \E p : pipe' = [pipe EXCEPT ![c] = p]
    BY <1>3 DEF Free, Goto
  <2>2. pc'[c] # "wait" /\ \A d \in Clients \ {c} : pc'[d] = pc[d] /\ pipe'[d] = pipe[d]
    BY <2>1 DEF Books
  <2> QED BY <2>1, <2>2 DEF QhOf
<1>4. CASE Unchain(c)
  <2>1. /\ running \in {Nobody, c} /\ pipe' = pipe /\ crossed' = FALSE
        /\ pc' = [pc EXCEPT ![c] = "wait"]
    BY <1>4 DEF Unchain, Goto, poolVars
  <2>2. pc'[c] = "wait" /\ \A d \in Clients \ {c} : pc'[d] = pc[d]
    BY <2>1 DEF Books
  <2> QED BY <1>4, <2>1, <2>2, ControlStates DEF QhOf
<1>5. CASE \/ LinkQh(c) \/ PublishEntry(c) \/ Poll(c) \/ Copy(c) \/ Rearm(c) \/ Reattach(c)
           \/ Drop(c) \/ UnheadEntry(c)
  <2>1. /\ running \in {Nobody, c} /\ pipe' = pipe /\ crossed' = crossed
        /\ pc' = pc \/ \E l \in Holding \ {"link", "wait"} : pc' = [pc EXCEPT ![c] = l]
        /\ pc[c] # "wait"
    BY <1>5, ControlStates
       DEF LinkQh, PublishEntry, Poll, Copy, Rearm, Reattach, Drop, UnheadEntry, NextEntry, Goto,
           poolVars
  <2>2. pc'[c] # "wait" /\ \A d \in Clients \ {c} : pc'[d] = pc[d]
    BY <2>1 DEF Books
  <2>3. c \in Holders /\ pc[c] # "link" => pc'[c] \in Holding \ {"link"}
    BY <2>1 DEF Books, Holders
  <2> QED BY <2>1, <2>2, <2>3 DEF QhOf
<1> QED BY <1>1, <1>2, <1>3, <1>4, <1>5 DEF Run

LEMMA RunDma ==
    ASSUME Books, Memory, ListInv, DmaInv, NEW c \in Clients, Run(c)
    PROVE  DmaInv'
<1>1. /\ running \in {Nobody, c}
      /\ \A d \in Clients \ {c} : pc'[d] = pc[d] /\ QhOf(d)' = QhOf(d)
      /\ c \in Holders /\ pc[c] # "link" /\ ~(pc[c] = "wait" /\ crossed) =>
            QhOf(c)' = QhOf(c) /\ pc'[c] \in Holding \ {"link"}
      /\ pc'[c] = "wait" => Unchain(c) /\ ~crossed'
  BY RunRange
<1>2. \A d \in Clients \ {c} : pc[d] # "wait"
  BY <1>1, Alone, ControlStates
<1>3. ASSUME pc'[c] = "wait"
      PROVE  hlink'[QhOf(c)'] \in InChain' \cup {NoQh}
  <2>1. Unchain(c) /\ QhOf(c)' = QhOf(c)
    BY <1>1, <1>3 DEF Unchain, poolVars, QhOf
  <2>2. hlink'[QhOf(c)] = hlink[QhOf(c)] /\ hlink[QhOf(c)] \in InChain' \cup {NoQh}
    BY <2>1, UnchainList
  <2> QED BY <2>1, <2>2
<1>4. ASSUME NEW d \in Holders, pc[d] # "link", ~(pc[d] = "wait" /\ crossed)
      PROVE  QhOf(d) \in Visible'
  <2>1. QhOf(d)' = QhOf(d) /\ d \in Holders'
    BY <1>1, <1>4 DEF Holders
  <2>2. pc'[d] # "link" /\ ~(pc'[d] = "wait" /\ crossed')
    BY <1>1, <1>2, <1>4 DEF Holders
  <2> QED BY <2>1, <2>2 DEF Visible
<1>5. Visible \subseteq Visible'
  BY <1>4 DEF Visible
<1>6. hcAt' = hcAt /\ hcNext' = hcNext
  BY DEF Run, Call, GiveUp, Panic, Begin, LinkQh, PublishEntry, Poll, Copy, Rearm, Reattach,
         Drop, UnheadEntry, Unchain, Free, hcVars
<1> QED BY <1>1, <1>2, <1>3, <1>5, <1>6 DEF DmaInv

LEMMA ControllerDma ==
    ASSUME Books, Memory, ListInv, DmaInv, UNCHANGED vars \/ Controller
    PROVE  DmaInv'
<1>1. pc' = pc /\ pipe' = pipe /\ hlink' = hlink
  BY DEF vars, Controller, HcFrame, HcAdvance, HcFetch, HcPacket, HcHalt, clientVars, poolVars,
         linkVars
<1>2. /\ InChain' = InChain /\ Entered' = Entered /\ \A c \in Clients : QhOf(c)' = QhOf(c)
      /\ Holders' = Holders
  BY <1>1 DEF InChain, Entered, QhOf, Holders
<1>3. \A c \in Clients : pc'[c] = "wait" => hlink'[QhOf(c)'] \in InChain' \cup {NoQh}
  BY <1>1, <1>2 DEF DmaInv
<1>4. CASE HcFrame
  <2>1. hcAt' = NoQh /\ hcNext' \in Entered \cup {NoQh}
    BY <1>4, EntryRange DEF HcFrame
  <2>2. Entered \subseteq Visible'
    <3>1. \A d \in Clients : pc[d] \in Chained \cup {"publish"} =>
              d \in Holders' /\ pc'[d] \notin {"link", "wait"}
      BY <1>1, <1>2, ControlStates DEF Chained, Holders
    <3>2. Entered' \subseteq Visible'
      BY <1>1, <3>1 DEF Entered, Visible
    <3> QED BY <1>2, <3>2
  <2> QED BY <1>3, <2>1, <2>2 DEF DmaInv
<1>5. CASE HcAdvance
  <2>1. crossed' = crossed /\ hcAt' = hcNext /\ hcNext' = hlink[hcNext] /\ hcNext \in Qhs
    BY <1>5 DEF HcAdvance
  <2>2. Visible' = Visible
    BY <1>1, <1>2, <2>1 DEF Visible, QhOf
  <2>3. hcNext \in Visible
    BY <2>1, PoolRanges DEF DmaInv
  <2>4. hlink[hcNext] \in Visible \cup {NoQh}
    BY <2>3, VisibleClosed
  <2> QED BY <1>3, <2>1, <2>2, <2>3, <2>4 DEF DmaInv
<1>6. CASE HcFetch \/ HcPacket \/ HcHalt \/ UNCHANGED vars
  <2>1. crossed' = crossed /\ hcAt' = hcAt /\ hcNext' = hcNext
    BY <1>6 DEF HcFetch, HcPacket, HcHalt, vars, hcVars
  <2>2. Visible' = Visible
    BY <1>1, <1>2, <2>1 DEF Visible, QhOf
  <2> QED BY <1>3, <2>1, <2>2 DEF DmaInv
<1> QED BY <1>4, <1>5, <1>6 DEF Controller

LEMMA DmaHolds ==
    ASSUME PipeContext, ListInv, DmaInv
    PROVE  DmaSafe
<1>1. Books /\ Memory /\ PipeInv
  BY DEF PipeContext
<1>2. Visible \in SUBSET Qhs /\ \A f \in 0 .. Frames - 1 : entry[f] \in Visible \cup {NoQh}
  BY <1>1, EnteredVisible, EntryRange
<1>3. NoQh \notin Qhs
  BY PoolRanges
<1>4. \A r \in Visible : hlink[r] \in Qhs => hlink[r] \in Visible
  BY <1>1, <1>3, VisibleClosed
<1>5. ASSUME NEW x \in Visible \cup {NoQh}
      PROVE  Reach(x) \subseteq Visible
  <2>1. {x} \cap Qhs \subseteq Visible
    BY <1>3
  <2> QED BY <1>2, <1>4, <2>1 DEF Reach
<1>6. {hcAt} \cap Qhs \subseteq Visible /\ Reach(hcNext) \subseteq Visible
  BY <1>3, <1>5 DEF DmaInv
<1>7. DOMAIN entry = 0 .. Frames - 1
  BY <1>1 DEF Memory
<1>8. \A f \in DOMAIN entry : Reach(entry[f]) \subseteq Visible
  BY <1>2, <1>5, <1>7
<1>9. ASSUME NEW q \in Visible
      PROVE  \E c \in Clients : /\ pc[c] \in Holding /\ QhOf(c) = q /\ qh[q].ep = c
                                /\ {qh[q].next, qh[q].cur} \subseteq {slot[c], NoQtd}
  <2>1. PICK c \in Holders : QhOf(c) = q
    BY DEF Visible
  <2>2. PipeOK(c)
    BY <1>1 DEF PipeInv
  <2>3. qh[q].next \in {slot[c], NoQtd} /\ qh[q].cur \in {slot[c], NoQtd} /\ qh[q].ep = c
    BY <2>1, <2>2 DEF PipeOK, Executing, Offered, Completed, Failed, Detached, Overlay
  <2> QED BY <2>1, <2>3 DEF Holders
<1> QED BY <1>6, <1>8, <1>9 DEF DmaSafe

LEMMA InitDma ==
    ASSUME Init
    PROVE  DmaInv
BY DEF Init, DmaInv

\* The controller holds or reaches no QH but that of a pipe that has not been freed,
\* initialised for it and with no qTD but its own (interrupt_pipe.rs:195-202 and 215-220):
\* one frame of waiting in Drop is enough, for every number of pipes and every length of
\* the frame list.
THEOREM PipesDmaSafe == Spec => []DmaSafe
<1>1. Init => ListInv /\ DmaInv
  BY InitList, InitDma
<1>2. PipeContext /\ PipeContext' /\ ListInv /\ DmaInv /\ [Next]_vars => ListInv' /\ DmaInv'
  <2>1. SUFFICES ASSUME PipeContext, PipeContext', ListInv, DmaInv, [Next]_vars
                 PROVE  ListInv' /\ DmaInv'
    OBVIOUS
  <2>2. Books /\ Memory /\ ListInv'
    BY <2>1, StepList DEF PipeContext
  <2>3. CASE UNCHANGED vars \/ Controller
    BY <2>1, <2>2, <2>3, ControllerDma
  <2>4. CASE \E c \in Clients : Run(c)
    BY <2>1, <2>2, <2>4, RunDma
  <2> QED BY <2>1, <2>2, <2>3, <2>4 DEF Next
<1>3. PipeContext /\ ListInv /\ DmaInv => DmaSafe
  BY DmaHolds
<1> QED BY <1>1, <1>2, <1>3, PipeInvariance, PTL DEF Spec
=============================================================================
