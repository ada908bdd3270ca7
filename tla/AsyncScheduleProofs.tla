------------------------ MODULE AsyncScheduleProofs ------------------------
(***************************************************************************)
(* AsyncSchedule for every set of clients, every pool size, any number of  *)
(* transfers in flight, dropped futures included: it is type correct, and  *)
(* it implements UsbPools.                                                 *)
(***************************************************************************)
EXTENDS AsyncSchedule, TLAPS

\* A client that has been called knows its transfer.
XferOK == \A c \in Clients :
    IF pc[c] = "idle" THEN xfer[c] = NoTransfer ELSE xfer[c] \in TransfersOf(c)

\* A client has a pipe of its kind exactly while it holds qTDs.
PipeOK == \A c \in Clients :
    IF pc[c] \in Holding THEN pipe[c] \in Pools!PipesFor(KindBar[c])
                         ELSE pipe[c] = Pools!NoPipe

\* A QH that is not halted belongs to a client; one that executes has a qTD.
QhOK == \A q \in Qhs :
    /\ qh[q].st # "halted" => qh[q].ep \in Clients
    /\ qh[q].st = "active" => qh[q].cur \in Qtds

IInv == TypeOK /\ XferOK /\ PipeOK /\ QhOK

StageSet == [dir : {"setup", "in", "out"}, len : Nat]

-----------------------------------------------------------------------------
(* Transfers and their chains *)

\* What a client may be called with.
LEMMA TransferKinds ==
    ASSUME NEW c \in Clients, NEW x \in TransfersOf(c)
    PROVE  /\ x \in Transfers
           /\ x.kind \in {"controlNone", "controlIn", "controlOut",
                          "bulkIn", "bulkOutFixed", "bulkOutVariable"}
           /\ x.len \in Nat
           /\ IsControl(x) <=> c \in ControlClients
<1>1. x \in Transfers
  BY DEF Transfers
<1>2. CASE c \in ControlClients
  <2>1. CASE x = [kind |-> "controlNone", len |-> 0]
    BY <1>1, <1>2, <2>1 DEF IsControl
  <2>2. CASE x \in [kind : {"controlIn", "controlOut"}, len : Lens]
    <3>1. x.kind \in {"controlIn", "controlOut"} /\ x.len \in Lens
      BY <2>2
    <3> QED BY <1>1, <1>2, <3>1, LensAssumption DEF IsControl
  <2> QED BY <1>2, <2>1, <2>2 DEF TransfersOf
<1>3. CASE c \notin ControlClients
  BY <1>1, <1>3, LensAssumption DEF TransfersOf, IsControl
<1> QED BY <1>2, <1>3

\* A chain has one to three stages, and the stages poll looks at are among them.
LEMMA ChainShape ==
    ASSUME NEW c \in Clients, NEW x \in TransfersOf(c)
    PROVE  /\ Len(Chain(x)) \in 1 .. 3
           /\ \A i \in 1 .. Len(Chain(x)) : Chain(x)[i] \in StageSet
           /\ DataStage(x) \in 0 .. Len(Chain(x))
           /\ DataStage(x) = 0 <=> x.kind = "controlNone"
           /\ CheckedStages(x) \subseteq 1 .. Len(Chain(x))
<1>1. /\ x.kind \in {"controlNone", "controlIn", "controlOut",
                      "bulkIn", "bulkOutFixed", "bulkOutVariable"}
      /\ x.len \in Nat
  BY TransferKinds
<1>2. \A d \in {"setup", "in", "out"}, n \in Nat : Stage(d, n) \in StageSet
  BY DEF Stage, StageSet
<1>3. /\ Len(Chain(x)) \in 1 .. 3
      /\ \A i \in 1 .. Len(Chain(x)) : Chain(x)[i] \in StageSet
  <2>1. CASE x.kind = "controlNone"
    BY <1>2, <2>1 DEF Chain
  <2>2. CASE x.kind = "controlIn"
    BY <1>1, <1>2, <2>2 DEF Chain
  <2>3. CASE x.kind = "controlOut"
    BY <1>1, <1>2, <2>3 DEF Chain
  <2>4. CASE x.kind = "bulkIn"
    BY <1>1, <1>2, <2>4 DEF Chain
  <2>5. CASE x.kind \in {"bulkOutFixed", "bulkOutVariable"}
    BY <1>1, <1>2, <2>5 DEF Chain
  <2> QED BY <1>1, <2>1, <2>2, <2>3, <2>4, <2>5
<1>4. DataStage(x) \in 0 .. Len(Chain(x)) /\ (DataStage(x) = 0 <=> x.kind = "controlNone")
  <2>1. CASE x.kind \in {"controlIn", "controlOut"}
    <3>1. Len(Chain(x)) = 3
      BY <2>1 DEF Chain
    <3> QED BY <2>1, <3>1 DEF DataStage, IsControl
  <2>2. CASE x.kind = "controlNone"
    BY <1>3, <2>2 DEF DataStage
  <2>3. CASE x.kind \in {"bulkIn", "bulkOutFixed", "bulkOutVariable"}
    <3>1. DataStage(x) = 1 /\ x.kind # "controlNone"
      BY <2>3 DEF DataStage, IsControl
    <3>2. Len(Chain(x)) >= 1
      BY <1>3
    <3> QED BY <1>3, <3>1, <3>2
  <2> QED BY <1>1, <2>1, <2>2, <2>3
<1>5. CheckedStages(x) \subseteq 1 .. Len(Chain(x))
  BY <1>3, <1>4 DEF CheckedStages
<1> QED BY <1>3, <1>4, <1>5

\* The kind of a transfer in the terms of UsbPools: it needs as many qTDs as its
\* chain has stages, and its pipe is one that UsbPools grants.
LEMMA KindFacts ==
    ASSUME NEW c \in Clients, NEW x \in TransfersOf(c)
    PROVE  /\ KindOf(x) \in Pools!Kinds
           /\ KindOf(x) # "interrupt"
           /\ Pools!QtdNeed(KindOf(x)) = Len(Chain(x))
<1>1. CASE x.kind = "controlNone"
  BY <1>1 DEF KindOf, Pools!Kinds, Pools!QtdNeed, Chain
<1>2. CASE x.kind \in {"controlIn", "controlOut"}
  BY <1>2 DEF KindOf, Pools!Kinds, Pools!QtdNeed, Chain
<1>3. CASE x.kind = "bulkIn"
  BY <1>3 DEF KindOf, Pools!Kinds, Pools!QtdNeed, Chain, NeedZlp
<1>4. CASE x.kind \in {"bulkOutFixed", "bulkOutVariable"}
  <2>1. CASE NeedZlp(x)
    BY <1>4, <2>1 DEF KindOf, Pools!Kinds, Pools!QtdNeed, Chain
  <2>2. CASE ~NeedZlp(x)
    BY <1>4, <2>2 DEF KindOf, Pools!Kinds, Pools!QtdNeed, Chain
  <2> QED BY <2>1, <2>2
<1> QED BY <1>1, <1>2, <1>3, <1>4, TransferKinds

\* The pipes of UsbPools, in numbers.
LEMMA PipeRange ==
    /\ \A k \in Pools!Kinds : Pools!PipesFor(k) \subseteq 0 .. NumQh - 1
    /\ Pools!NoPipe = NumQh
    /\ Pools!QtdIdx = Qtds
    /\ \A p \in 0 .. NumQh - 1 : p + 1 \in Qhs \ {Sentinel}
BY SizesAssumption DEF Pools!PipesFor, Pools!BulkPipes, Pools!ControlPipe, Pools!NoPipe,
   Pools!QtdIdx, Qtds, Qhs, Sentinel

-----------------------------------------------------------------------------
(* Who holds what: the part of the invariant about clients and pools *)

Books ==
    /\ pc \in [Clients -> Resting \cup Holding]
    /\ xfer \in [Clients -> Transfers \cup {NoTransfer}]
    /\ pipe \in [Clients -> 0 .. NumQh]
    /\ slots = [c \in Clients |-> slots[c]]
    /\ \A c \in Clients :
          slots[c] \in [1 .. (IF pc[c] \in Holding THEN Len(Chain(xfer[c])) ELSE 0) -> Qtds]
    /\ qtdAllocated \subseteq Qtds
    /\ XferOK
    /\ PipeOK

\* A step that moves no client between idle, waiting and holding changes nothing
\* that UsbPools sees.
LEMMA SameHolders ==
    ASSUME Books, UNCHANGED <<xfer, poolVars>>,
           pc' \in [Clients -> Resting \cup Holding],
           \A d \in Clients : /\ pc'[d] \in Holding <=> pc[d] \in Holding
                              /\ pc'[d] = "pipe" <=> pc[d] = "pipe"
                              /\ pc'[d] = "idle" <=> pc[d] = "idle"
    PROVE  Books' /\ UNCHANGED Pools!vars
<1>1. PhaseBar' = PhaseBar
  BY DEF PhaseBar
<1>2. KindBar' = KindBar
  BY <1>1 DEF KindBar
<1>3. UNCHANGED <<pipe, slots, qtdAllocated, xfer>>
  BY DEF poolVars
<1>4. XferOK'
  BY <1>3 DEF Books, XferOK
<1>5. PipeOK'
  BY <1>2, <1>3 DEF Books, PipeOK
<1> QED BY <1>1, <1>2, <1>3, <1>4, <1>5 DEF Books, Pools!vars

\* The control states, told apart.
LEMMA ControlStates ==
    /\ Resting \cap Holding = {}
    /\ {"idle", "pipe", "returned"} \subseteq Resting
    /\ {"link", "publish", "status", "overlay", "unlink", "ring", "advance", "clear",
        "finish"} \subseteq Holding
BY DEF Resting, Holding, Published, InList

\* The four ways client c can move, as UsbPools sees them.
LEMMA CallBooks ==
    ASSUME Books, NEW c \in Clients, NEW x \in TransfersOf(c), Call(c, x)
    PROVE  Books' /\ Pools!Call(c, KindOf(x))
<1>1. /\ pc[c] = "idle" /\ pc' = [pc EXCEPT ![c] = "pipe"]
      /\ xfer' = [xfer EXCEPT ![c] = x]
      /\ UNCHANGED <<pipe, slots, qtdAllocated>>
  BY DEF Call, Goto, poolVars
<1>2. PhaseBar[c] = "idle" /\ PhaseBar' = [PhaseBar EXCEPT ![c] = "waiting"]
  BY <1>1, ControlStates DEF Books, PhaseBar
<1>3. KindBar' = [KindBar EXCEPT ![c] = KindOf(x)]
  BY <1>1, <1>2 DEF Books, KindBar, PhaseBar
<1>4. xfer' \in [Clients -> Transfers \cup {NoTransfer}] /\ XferOK'
  BY <1>1, TransferKinds DEF Books, XferOK
<1>5. PipeOK'
  BY <1>1, <1>3, ControlStates DEF Books, PipeOK
<1>6. \A d \in Clients :
        slots'[d] \in [1 .. (IF pc'[d] \in Holding THEN Len(Chain(xfer'[d])) ELSE 0) -> Qtds]
  BY <1>1, ControlStates DEF Books
<1>7. pc' \in [Clients -> Resting \cup Holding]
  BY <1>1, ControlStates DEF Books
<1>8. Books'
  BY <1>1, <1>4, <1>5, <1>6, <1>7 DEF Books
<1> QED BY <1>1, <1>2, <1>3, <1>8 DEF Pools!Call

LEMMA BeginBooks ==
    ASSUME Books, NEW c \in Clients, Begin(c)
    PROVE  Books' /\ Pools!Begin(c)
<1> DEFINE k == KindBar[c]
<1>1. /\ pc[c] = "pipe" /\ pc' = [pc EXCEPT ![c] = "link"]
      /\ UNCHANGED xfer
  BY DEF Begin, Goto
<1>2. PhaseBar[c] = "waiting" /\ PhaseBar' = [PhaseBar EXCEPT ![c] = "holding"]
  BY <1>1, ControlStates DEF Books, PhaseBar
<1>3. KindBar' = KindBar
  BY <1>1, <1>2 DEF Books, KindBar, PhaseBar
<1>4. xfer[c] \in TransfersOf(c) /\ k = KindOf(xfer[c])
  BY <1>1, <1>2 DEF Books, XferOK, KindBar
<1>5. k \in Pools!Kinds /\ Pools!QtdNeed(k) = Len(Chain(xfer[c]))
  BY <1>4, KindFacts
<1>6. PICK p \in Pools!FreePipes(k) :
      \E s \in [1 .. Len(Chain(xfer[c])) -> Qtds] :
          /\ Pools!FirstFit(s, Len(Chain(xfer[c])))
          /\ pipe' = [pipe EXCEPT ![c] = p]
          /\ slots' = [slots EXCEPT ![c] = s]
          /\ qtdAllocated' = qtdAllocated \cup {s[i] : i \in DOMAIN s}
  BY DEF Begin
<1>7. PICK s \in [1 .. Len(Chain(xfer[c])) -> Qtds] :
          /\ Pools!FirstFit(s, Len(Chain(xfer[c])))
          /\ pipe' = [pipe EXCEPT ![c] = p]
          /\ slots' = [slots EXCEPT ![c] = s]
          /\ qtdAllocated' = qtdAllocated \cup {s[i] : i \in DOMAIN s}
  BY <1>6
<1>8. p \in Pools!PipesFor(k)
  BY DEF Pools!FreePipes
<1>9. Pools!Begin(c)
  BY <1>2, <1>3, <1>5, <1>7, PipeRange DEF Pools!Begin
<1>10. PipeOK'
  BY <1>1, <1>3, <1>7, <1>8, ControlStates DEF Books, PipeOK
<1>11. pipe' \in [Clients -> 0 .. NumQh]
  BY <1>5, <1>7, <1>8, PipeRange, SizesAssumption DEF Books
<1>12. \A d \in Clients :
        slots'[d] \in [1 .. (IF pc'[d] \in Holding THEN Len(Chain(xfer'[d])) ELSE 0) -> Qtds]
  BY <1>1, <1>7, ControlStates DEF Books
<1>13. qtdAllocated' \subseteq Qtds
  BY <1>7 DEF Books
<1>14. XferOK'
  BY <1>1, ControlStates DEF Books, XferOK
<1>15. pc' \in [Clients -> Resting \cup Holding]
  BY <1>1, ControlStates DEF Books
<1> QED BY <1>1, <1>7, <1>9, <1>10, <1>11, <1>12, <1>13, <1>14, <1>15 DEF Books

LEMMA BeginFailsBooks ==
    ASSUME Books, NEW c \in Clients, BeginFails(c)
    PROVE  Books' /\ Pools!BeginFails(c)
<1>1. /\ pc[c] = "pipe" /\ pc' = [pc EXCEPT ![c] = "returned"]
      /\ UNCHANGED <<xfer, pipe, slots, qtdAllocated>>
      /\ Pools!TooFewQtds(c)
  BY DEF BeginFails, Goto, poolVars
<1>2. PhaseBar[c] = "waiting" /\ PhaseBar' = [PhaseBar EXCEPT ![c] = "idle"]
  BY <1>1, ControlStates DEF Books, PhaseBar
<1>3. KindBar' = [KindBar EXCEPT ![c] = "none"]
  BY <1>1, <1>2 DEF Books, KindBar, PhaseBar
<1>4. KindBar[c] # "interrupt"
  BY <1>1, <1>2, KindFacts DEF Books, XferOK, KindBar
<1>5. PipeOK'
  BY <1>1, <1>3, ControlStates DEF Books, PipeOK
<1>6. XferOK'
  BY <1>1 DEF Books, XferOK
<1>7. \A d \in Clients :
        slots'[d] \in [1 .. (IF pc'[d] \in Holding THEN Len(Chain(xfer'[d])) ELSE 0) -> Qtds]
  BY <1>1, ControlStates DEF Books
<1>8. pc' \in [Clients -> Resting \cup Holding]
  BY <1>1, ControlStates DEF Books
<1>9. Books'
  BY <1>1, <1>5, <1>6, <1>7, <1>8 DEF Books
<1> QED BY <1>1, <1>2, <1>3, <1>4, <1>9 DEF Pools!BeginFails, Pools!NoKind

\* The guards of a client that holds some drop, whether it is returned to its
\* caller (l is "returned") or its future is dropped ("idle").
LEMMA DropBooks ==
    ASSUME Books, NEW c \in Clients, NEW l \in {"returned", "idle"},
           pc[c] \in Holding, DropGuards(c), Goto(c, l),
           xfer' = IF l = "idle" THEN [xfer EXCEPT ![c] = NoTransfer] ELSE xfer
    PROVE  Books' /\ Pools!Release(c)
<1>1. /\ pc' = [pc EXCEPT ![c] = l] /\ l \notin Holding /\ l # "pipe" /\ l \in Resting
      /\ pc[c] # "pipe" /\ pc[c] # "idle"
  BY ControlStates DEF Goto
<1>2. /\ pipe' = [pipe EXCEPT ![c] = Pools!NoPipe]
      /\ slots' = [slots EXCEPT ![c] = EmptySlots]
      /\ qtdAllocated' = qtdAllocated \ SlotSet(c)
  BY DEF DropGuards
<1>3. PhaseBar[c] = "holding" /\ PhaseBar' = [PhaseBar EXCEPT ![c] = "idle"]
  BY <1>1 DEF Books, PhaseBar
<1>4. \A d \in Clients \ {c} : xfer'[d] = xfer[d]
  BY DEF Books
<1>5. KindBar' = [KindBar EXCEPT ![c] = "none"]
  BY <1>1, <1>3, <1>4 DEF Books, KindBar, PhaseBar
<1>6. PipeOK'
  BY <1>1, <1>2, <1>5 DEF Books, PipeOK
<1>7. XferOK' /\ xfer' \in [Clients -> Transfers \cup {NoTransfer}]
  BY <1>1 DEF Books, XferOK
<1>8. \A d \in Clients :
        slots'[d] \in [1 .. (IF pc'[d] \in Holding THEN Len(Chain(xfer'[d])) ELSE 0) -> Qtds]
  BY <1>1, <1>2, <1>4 DEF Books, EmptySlots
<1>9. pipe' \in [Clients -> 0 .. NumQh]
  BY <1>2, PipeRange, SizesAssumption DEF Books
<1>10. slots' = [d \in Clients |-> slots'[d]]
  BY <1>2 DEF Books
<1>11. Books'
  BY <1>1, <1>2, <1>6, <1>7, <1>8, <1>9, <1>10 DEF Books
<1>12. Pools!Release(c)
  BY <1>2, <1>3, <1>5 DEF Pools!Release, Pools!NoKind, Pools!SlotSet, SlotSet, EmptySlots
<1> QED BY <1>11, <1>12

LEMMA FinishBooks ==
    ASSUME Books, NEW c \in Clients, Finish(c)
    PROVE  Books' /\ Pools!Release(c)
<1>1. /\ pc[c] \in Holding /\ DropGuards(c) /\ Goto(c, "returned")
      /\ xfer' = xfer
  BY ControlStates DEF Finish
<1> QED BY <1>1, DropBooks

LEMMA CancelBooks ==
    ASSUME Books, NEW c \in Clients, Cancel(c)
    PROVE  Books' /\ (Pools!GiveUp(c) \/ Pools!Release(c))
<1>1. /\ pc[c] \in {"pipe", "status", "advance"}
      /\ DropGuards(c) /\ Goto(c, "idle")
      /\ xfer' = [xfer EXCEPT ![c] = NoTransfer]
  BY DEF Cancel
<1>2. CASE pc[c] \in Holding
  BY <1>1, <1>2, DropBooks
<1>3. CASE pc[c] = "pipe"
  <2>1. pc' = [pc EXCEPT ![c] = "idle"] /\ pc[c] \notin Holding /\ pc[c] # "idle"
    BY <1>1, <1>3, ControlStates DEF Goto
  <2>2. slots[c] = EmptySlots /\ SlotSet(c) = {} /\ pipe[c] = Pools!NoPipe
    BY <2>1 DEF Books, PipeOK, EmptySlots, SlotSet
  <2>3. UNCHANGED <<pipe, slots, qtdAllocated>>
    BY <1>1, <2>2 DEF Books, DropGuards
  <2>4. PhaseBar[c] = "waiting" /\ PhaseBar' = [PhaseBar EXCEPT ![c] = "idle"]
    BY <1>3, <2>1, ControlStates DEF Books, PhaseBar
  <2>5. KindBar' = [KindBar EXCEPT ![c] = "none"]
    BY <1>1, <2>1, <2>4 DEF Books, KindBar, PhaseBar
  <2>6. PipeOK'
    BY <2>1, <2>3, <2>5, ControlStates DEF Books, PipeOK
  <2>7. XferOK' /\ xfer' \in [Clients -> Transfers \cup {NoTransfer}]
    BY <1>1, <2>1 DEF Books, XferOK
  <2>8. \A d \in Clients :
          slots'[d] \in [1 .. (IF pc'[d] \in Holding THEN Len(Chain(xfer'[d])) ELSE 0) -> Qtds]
    BY <1>1, <2>1, <2>3, ControlStates DEF Books
  <2>9. Books'
    BY <2>1, <2>3, <2>6, <2>7, <2>8, ControlStates DEF Books
  <2> QED BY <2>3, <2>4, <2>5, <2>9 DEF Pools!GiveUp, Pools!NoKind
<1> QED BY <1>1, <1>2, <1>3, ControlStates

LEMMA ReturnBooks ==
    ASSUME Books, NEW c \in Clients, Return(c)
    PROVE  Books' /\ UNCHANGED Pools!vars
<1>1. /\ pc[c] = "returned" /\ pc' = [pc EXCEPT ![c] = "idle"]
      /\ xfer' = [xfer EXCEPT ![c] = NoTransfer]
      /\ UNCHANGED <<pipe, slots, qtdAllocated>>
  BY DEF Return, Goto, poolVars
<1>2. PhaseBar' = PhaseBar
  BY <1>1, ControlStates DEF Books, PhaseBar
<1>3. PhaseBar[c] = "idle" /\ PhaseBar'[c] = "idle"
  BY <1>1, <1>2, ControlStates DEF Books, PhaseBar
<1>4. KindBar' = KindBar
  BY <1>1, <1>2, <1>3 DEF Books, KindBar
<1>5. PipeOK'
  BY <1>1, <1>4, ControlStates DEF Books, PipeOK
<1>6. XferOK' /\ xfer' \in [Clients -> Transfers \cup {NoTransfer}]
  BY <1>1 DEF Books, XferOK
<1>7. \A d \in Clients :
        slots'[d] \in [1 .. (IF pc'[d] \in Holding THEN Len(Chain(xfer'[d])) ELSE 0) -> Qtds]
  BY <1>1, ControlStates DEF Books
<1>8. Books'
  BY <1>1, <1>5, <1>6, <1>7, ControlStates DEF Books
<1> QED BY <1>1, <1>2, <1>4, <1>8 DEF Pools!vars

\* The steps of a client between the publication and the answer, and those of
\* the controller, leave everything as it is.
LEMMA MidBooks ==
    ASSUME Books, NEW c \in Clients,
           \/ LinkQh(c) \/ Publish(c) \/ PollStatus(c) \/ PollOverlay(c)
           \/ Unlink(c) \/ Ring(c) \/ PollAdvance(c) \/ ClearAai(c)
    PROVE  Books' /\ UNCHANGED Pools!vars
<1>1. UNCHANGED <<xfer, poolVars>>
  BY DEF LinkQh, Publish, PollStatus, PollOverlay, Unlink, Ring, PollAdvance, ClearAai
<1>2. \E l \in {"publish", "status", "overlay", "unlink", "ring", "advance", "clear", "finish"} :
        pc[c] \in Holding /\ (pc' = [pc EXCEPT ![c] = l] \/ pc' = pc)
  BY ControlStates
     DEF LinkQh, Publish, PollStatus, PollOverlay, Unlink, Ring, PollAdvance, ClearAai, Goto
<1>3. pc[c] \notin {"idle", "pipe"}
  BY <1>2, ControlStates
<1>4. PICK l \in {"publish", "status", "overlay", "unlink", "ring", "advance", "clear", "finish"} :
        pc' = [pc EXCEPT ![c] = l] \/ pc' = pc
  BY <1>2
<1>5. l \in Holding /\ l \notin {"idle", "pipe"}
  BY ControlStates
<1>6. /\ pc' \in [Clients -> Resting \cup Holding]
      /\ \A d \in Clients : /\ pc'[d] \in Holding <=> pc[d] \in Holding
                            /\ pc'[d] = "pipe" <=> pc[d] = "pipe"
                            /\ pc'[d] = "idle" <=> pc[d] = "idle"
  BY <1>2, <1>3, <1>4, <1>5 DEF Books
<1> QED BY <1>1, <1>6, SameHolders

LEMMA StillBooks ==
    ASSUME Books, UNCHANGED vars \/ Controller
    PROVE  Books' /\ UNCHANGED Pools!vars
<1>1. UNCHANGED <<pc, xfer, poolVars>>
  BY DEF vars, clientVars, Controller, HcAdvance, HcFetch, HcPacket, HcRetry, HcHalt
<1>2. pc' \in [Clients -> Resting \cup Holding]
  BY <1>1 DEF Books
<1> QED BY <1>1, <1>2, SameHolders

-----------------------------------------------------------------------------
(* The refinement *)

LEMMA InitBooks ==
    ASSUME Init
    PROVE  Books /\ Pools!Init
<1>1. /\ pc = [c \in Clients |-> "idle"]
      /\ xfer = [c \in Clients |-> NoTransfer]
      /\ pipe = [c \in Clients |-> Pools!NoPipe]
      /\ slots = [c \in Clients |-> EmptySlots]
      /\ qtdAllocated = {}
  BY DEF Init
<1>2. PhaseBar = [c \in Clients |-> "idle"]
  BY <1>1, ControlStates DEF PhaseBar
<1>3. KindBar = [c \in Clients |-> "none"]
  BY <1>2 DEF KindBar
<1>4. Books
  BY <1>1, ControlStates, PipeRange, SizesAssumption DEF Books, XferOK, PipeOK, EmptySlots
<1> QED BY <1>1, <1>2, <1>3, <1>4 DEF Pools!Init, Pools!NoKind, EmptySlots

LEMMA StepBooks ==
    ASSUME Books, [Next]_vars
    PROVE  Books' /\ [Pools!Next]_(Pools!vars)
<1>1. Pools!Running
  BY DEF Pools!Running, PhaseBar
<1>2. CASE UNCHANGED vars \/ Controller
  BY <1>2, StillBooks
<1>3. ASSUME NEW c \in Clients, NEW x \in TransfersOf(c), Call(c, x)
      PROVE  Books' /\ Pools!Next
  <2>1. Books' /\ Pools!Call(c, KindOf(x)) /\ KindOf(x) \in Pools!Kinds
    BY <1>3, CallBooks, KindFacts
  <2> QED BY <1>1, <2>1 DEF Pools!Next
<1>4. ASSUME NEW c \in Clients, Run(c)
      PROVE  Books' /\ [Pools!Next]_(Pools!vars)
  <2>1. CASE Begin(c)
    BY <1>1, <2>1, BeginBooks DEF Pools!Next
  <2>2. CASE BeginFails(c)
    BY <1>1, <2>2, BeginFailsBooks DEF Pools!Next
  <2>3. CASE \/ LinkQh(c) \/ Publish(c) \/ PollStatus(c) \/ PollOverlay(c)
             \/ Unlink(c) \/ Ring(c) \/ PollAdvance(c) \/ ClearAai(c)
    BY <2>3, MidBooks
  <2>4. CASE Finish(c)
    BY <1>1, <2>4, FinishBooks DEF Pools!Next
  <2>5. CASE Return(c)
    BY <2>5, ReturnBooks
  <2> QED BY <1>4, <2>1, <2>2, <2>3, <2>4, <2>5 DEF Run
<1>5. ASSUME NEW c \in Clients, Cancel(c)
      PROVE  Books' /\ Pools!Next
  BY <1>1, <1>5, CancelBooks DEF Pools!Next
<1> QED BY <1>2, <1>3, <1>4, <1>5 DEF Next

\* The transfers take pipes and qTDs only as UsbPools allows and give all of
\* them back together, dropped futures included.
THEOREM Refinement == Spec => ImplementsPools
<1>1. Init => Books /\ Pools!Init
  BY InitBooks
<1>2. Books /\ [Next]_vars => Books' /\ [Pools!Next]_(Pools!vars)
  BY StepBooks
<1> QED BY <1>1, <1>2, PTL DEF Spec, ImplementsPools, Pools!Spec

-----------------------------------------------------------------------------
(* Type correctness: what is left is the memory the controller shares *)

QhSet == [ep : Clients \cup {Nobody}, cur : Qtds \cup {NoQtd}, next : Qtds \cup {NoQtd},
          st : {"idle", "active", "halted"}, dt : BOOLEAN]
QtdSet == [st : {"zero", "active", "done", "halted"}, dir : {"setup", "in", "out"},
           rem : Nat, err : BOOLEAN, next : Qtds \cup {NoQtd}]
WireSet == [done : Nat, units : Nat, short : BOOLEAN, retried : BOOLEAN, halted : BOOLEAN]
OutcomeSet == [tag : {"none", "ok", "error", "allPipesInUse"}, n : Int]

Memory ==
    /\ running \in Clients \cup {Nobody}
    /\ outcome \in [Clients -> OutcomeSet]
    /\ toggle \in [Clients -> BOOLEAN]
    /\ hlink \in [Qhs -> Qhs \cup {NoQh}]
    /\ qh \in [Qhs -> QhSet]
    /\ qtd \in [Qtds -> QtdSet]
    /\ ase \in BOOLEAN /\ iaa \in BOOLEAN /\ aai \in BOOLEAN
    /\ hcAt \in Qhs /\ hcNext \in Qhs \cup {NoQh}
    /\ wire \in [Clients -> WireSet]
    /\ devToggle \in [Clients -> BOOLEAN]
    /\ QhOK

LEMMA TypeSplit == TypeOK /\ XferOK /\ PipeOK /\ QhOK <=> Books /\ Memory
BY DEF TypeOK, Books, Memory, QhSet, QtdSet, WireSet, OutcomeSet

\* The QH of a client with a pipe is one of the pool.
LEMMA QhOfHolder ==
    ASSUME Books, NEW c \in Clients, pc[c] \in Holding
    PROVE  /\ QhOf(c) \in Qhs \ {Sentinel}
           /\ xfer[c] \in TransfersOf(c)
           /\ slots[c] \in [1 .. Len(Chain(xfer[c])) -> Qtds]
<1>1. pc[c] # "idle" /\ pc[c] # "pipe"
  BY ControlStates
<1>2. xfer[c] \in TransfersOf(c) /\ KindBar[c] = KindOf(xfer[c])
  BY <1>1 DEF Books, XferOK, KindBar, PhaseBar
<1>3. pipe[c] \in 0 .. NumQh - 1
  BY <1>2, KindFacts, PipeRange DEF Books, PipeOK
<1> QED BY <1>2, <1>3, PipeRange DEF Books, QhOf

LEMMA InitMemory ==
    ASSUME Init
    PROVE  Memory
<1>1. Sentinel \in Qhs
  BY SizesAssumption DEF Sentinel, Qhs
<1>2. NoOutcome \in OutcomeSet /\ NoWire \in WireSet /\ FreeQtd \in QtdSet
      /\ ResetQh \in QhSet /\ ResetQh.st = "halted"
  BY DEF NoOutcome, OutcomeSet, NoWire, WireSet, FreeQtd, QtdSet, ResetQh, QhSet
<1>3. /\ running = Nobody
      /\ outcome = [c \in Clients |-> NoOutcome]
      /\ toggle = [c \in Clients |-> FALSE]
      /\ hlink = [q \in Qhs |-> IF q = Sentinel THEN Sentinel ELSE NoQh]
      /\ qh = [q \in Qhs |-> ResetQh]
      /\ qtd = [t \in Qtds |-> FreeQtd]
      /\ ase = FALSE /\ iaa = FALSE /\ aai = FALSE
      /\ hcAt = Sentinel /\ hcNext = Sentinel
      /\ wire = [c \in Clients |-> NoWire]
      /\ devToggle = [c \in Clients |-> FALSE]
  BY DEF Init
<1> QED BY <1>1, <1>2, <1>3 DEF Memory, QhOK

LEMMA BeginMemory ==
    ASSUME Books, Memory, NEW c \in Clients, Begin(c)
    PROVE  Memory'
<1> DEFINE x == xfer[c]
<1>1. x \in TransfersOf(c) /\ KindBar[c] = KindOf(x)
  <2>1. pc[c] = "pipe"
    BY DEF Begin
  <2> QED BY <2>1, ControlStates DEF Books, XferOK, KindBar, PhaseBar
<1>2. PICK p \in Pools!FreePipes(KindBar[c]) :
      \E s \in [1 .. Len(Chain(x)) -> Qtds] :
          /\ hlink' = [hlink EXCEPT ![p + 1] = NoQh]
          /\ qh' = [qh EXCEPT ![p + 1] = Attached(c, s[1])]
          /\ qtd' = Built(s, x)
  BY DEF Begin
<1>3. PICK s \in [1 .. Len(Chain(x)) -> Qtds] :
          /\ hlink' = [hlink EXCEPT ![p + 1] = NoQh]
          /\ qh' = [qh EXCEPT ![p + 1] = Attached(c, s[1])]
          /\ qtd' = Built(s, x)
  BY <1>2
<1>4. p + 1 \in Qhs
  <2>1. p \in Pools!PipesFor(KindOf(x)) /\ KindOf(x) \in Pools!Kinds
    BY <1>1, KindFacts DEF Pools!FreePipes
  <2> QED BY <2>1, PipeRange
<1>5. Len(Chain(x)) \in 1 .. 3 /\ \A i \in 1 .. Len(Chain(x)) : Chain(x)[i] \in StageSet
  BY <1>1, ChainShape
<1>6. s[1] \in Qtds
  <2>1. PICK n \in 1 .. 3 : n = Len(Chain(x))
    BY <1>5, Zenon
  <2>2. 1 \in 1 .. n
    OBVIOUS
  <2> QED BY <2>1, <2>2, Zenon
<1>7. /\ Attached(c, s[1]) \in QhSet
      /\ Attached(c, s[1]).ep = c /\ Attached(c, s[1]).st = "idle"
  <2>1. toggle[c] \in BOOLEAN
    BY DEF Memory
  <2>2. PICK d \in BOOLEAN : d = toggle[c]
    BY <2>1
  <2>3. PICK t \in Qtds : t = s[1]
    BY <1>6
  <2>4. Attached(c, s[1]) = [ResetQh EXCEPT !.ep = c, !.next = t, !.st = "idle", !.dt = d]
    BY <2>2, <2>3 DEF Attached
  <2> DEFINE a == [ResetQh EXCEPT !.ep = c, !.next = t, !.st = "idle", !.dt = d]
  <2>5. a \in QhSet /\ a.ep = c /\ a.st = "idle"
    BY DEF ResetQh, QhSet
  <2> HIDE DEF a
  <2> QED BY <2>4, <2>5 DEF a
<1>8. qh' \in [Qhs -> QhSet] /\ QhOK'
  BY <1>3, <1>7 DEF Memory, QhOK
<1>9. qtd' \in [Qtds -> QtdSet]
  <2> SUFFICES ASSUME NEW t \in Qtds
               PROVE  Built(s, x)[t] \in QtdSet
    BY <1>3 DEF Built
  <2>1. CASE \E i \in DOMAIN s : s[i] = t
    <3> DEFINE i == CHOOSE j \in DOMAIN s : s[j] = t
    <3>1. i \in 1 .. Len(Chain(x))
      BY <2>1
    <3>2. Chain(x)[i].dir \in {"setup", "in", "out"} /\ Chain(x)[i].len \in Nat
      BY <1>5, <3>1 DEF StageSet
    <3>3. (IF i = Len(Chain(x)) THEN NoQtd ELSE s[i + 1]) \in Qtds \cup {NoQtd}
      BY <1>5, <3>1
    <3>4. Built(s, x)[t] =
            [st |-> "active", dir |-> Chain(x)[i].dir, rem |-> Chain(x)[i].len,
             err |-> FALSE, next |-> IF i = Len(Chain(x)) THEN NoQtd ELSE s[i + 1]]
      BY <2>1 DEF Built
    <3> QED BY <3>2, <3>3, <3>4 DEF QtdSet
  <2>2. CASE ~ \E i \in DOMAIN s : s[i] = t
    BY <2>2 DEF Built, Memory
  <2> QED BY <2>1, <2>2
<1>10. hlink' \in [Qhs -> Qhs \cup {NoQh}]
  BY <1>3, <1>4 DEF Memory
<1>11. wire' \in [Clients -> WireSet]
  BY DEF Begin, Memory, NoWire, WireSet
<1>12. /\ running' = c
       /\ UNCHANGED <<outcome, toggle, ase, iaa, aai, hcAt, hcNext, devToggle>>
  BY DEF Begin, hcVars
<1> QED BY <1>8, <1>9, <1>10, <1>11, <1>12 DEF Memory

LEMMA BeginFailsMemory ==
    ASSUME Books, Memory, NEW c \in Clients, BeginFails(c)
    PROVE  Memory'
<1>1. PICK p \in Pools!FreePipes(KindBar[c]) :
          /\ hlink' = [hlink EXCEPT ![p + 1] = NoQh]
          /\ qh' = [qh EXCEPT ![p + 1] = [ResetQh EXCEPT !.ep = c]]
  BY DEF BeginFails
<1>2. qh' \in [Qhs -> QhSet] /\ QhOK'
  <2>1. [ResetQh EXCEPT !.ep = c] \in QhSet /\ [ResetQh EXCEPT !.ep = c].st = "halted"
    BY DEF ResetQh, QhSet
  <2> QED BY <1>1, <2>1 DEF Memory, QhOK
<1>3. hlink' \in [Qhs -> Qhs \cup {NoQh}]
  BY <1>1 DEF Memory
<1>4. outcome' \in [Clients -> OutcomeSet]
  BY DEF BeginFails, Memory, Busy, OutcomeSet
<1>5. UNCHANGED <<running, toggle, qtd, ase, iaa, aai, hcAt, hcNext, wire, devToggle>>
  BY DEF BeginFails, hcVars, busVars
<1> QED BY <1>2, <1>3, <1>4, <1>5 DEF Memory

\* The byte count of a transfer that holds its qTDs.
LEMMA ByteCountInt ==
    ASSUME Books, Memory, NEW c \in Clients, pc[c] \in Holding
    PROVE  ByteCount(c) \in Int
<1>1. /\ xfer[c] \in TransfersOf(c)
      /\ slots[c] \in [1 .. Len(Chain(xfer[c])) -> Qtds]
  BY QhOfHolder
<1>2. /\ xfer[c].len \in Nat
      /\ DataStage(xfer[c]) \in 0 .. Len(Chain(xfer[c]))
      /\ DataStage(xfer[c]) = 0 <=> xfer[c].kind = "controlNone"
      /\ Len(Chain(xfer[c])) \in 1 .. 3
  BY <1>1, TransferKinds, ChainShape
<1>3. CASE xfer[c].kind \in {"controlIn", "bulkIn"}
  <2>1. DataStage(xfer[c]) \in 1 .. Len(Chain(xfer[c]))
    BY <1>2, <1>3
  <2>2. slots[c][DataStage(xfer[c])] \in Qtds
    BY <1>1, <2>1
  <2>3. Remaining(c) \in Nat
    BY <2>2 DEF Remaining, StageQtd, Memory, QtdSet
  <2>4. ByteCount(c) = xfer[c].len - Remaining(c)
    BY <1>3 DEF ByteCount
  <2> QED BY <1>2, <2>3, <2>4
<1>4. CASE xfer[c].kind = "controlNone"
  BY <1>4 DEF ByteCount
<1>5. CASE xfer[c].kind \notin {"controlIn", "bulkIn", "controlNone"}
  BY <1>2, <1>5 DEF ByteCount
<1> QED BY <1>3, <1>4, <1>5

LEMMA PollMemory ==
    ASSUME Books, Memory, NEW c \in Clients, PollStatus(c) \/ PollOverlay(c)
    PROVE  Memory'
<1>1. /\ UNCHANGED <<toggle, hlink, qh, qtd, ase, iaa, aai, hcAt, hcNext, wire, devToggle>>
      /\ running' \in {running, c, Nobody}
  BY DEF PollStatus, PollOverlay, memVars, hcVars, busVars
<1>2. outcome' \in [Clients -> OutcomeSet]
  <2>1. pc[c] \in Holding
    BY ControlStates DEF PollStatus, PollOverlay
  <2>2. Failed \in OutcomeSet /\ \A n \in Int : Ok(n) \in OutcomeSet
    BY DEF Failed, Ok, OutcomeSet
  <2>3. ByteCount(c) \in Int /\ 0 \in Int
    BY <2>1, ByteCountInt
  <2>4. PICK o \in OutcomeSet :
          outcome' = outcome \/ outcome' = [outcome EXCEPT ![c] = o]
    <3>1. CASE PollStatus(c)
      BY <2>2, <2>3, <3>1 DEF PollStatus
    <3>2. CASE PollOverlay(c)
      BY <2>2, <3>2 DEF PollOverlay
    <3> QED BY <3>1, <3>2
  <2> QED BY <2>4 DEF Memory
<1> QED BY <1>1, <1>2 DEF Memory, QhOK

\* The writes to the list and to the registers.
LEMMA LinkMemory ==
    ASSUME Books, Memory, NEW c \in Clients,
           \/ LinkQh(c) \/ Publish(c) \/ Unlink(c)
           \/ Ring(c) \/ PollAdvance(c) \/ ClearAai(c)
    PROVE  Memory'
<1>1. /\ UNCHANGED <<outcome, toggle, qh, qtd, hcAt, hcNext, wire, devToggle>>
      /\ running' \in {running, c, Nobody}
  BY DEF LinkQh, Publish, Unlink, Ring, PollAdvance, ClearAai, memVars, hcVars, busVars
<1>2. ase' \in BOOLEAN /\ iaa' \in BOOLEAN /\ aai' \in BOOLEAN
  BY DEF Memory, LinkQh, Publish, Unlink, Ring, PollAdvance, ClearAai, memVars
<1>3. pc[c] \in Holding
  BY ControlStates DEF LinkQh, Publish, Unlink, Ring, PollAdvance, ClearAai
<1>4. QhOf(c) \in Qhs
  BY <1>3, QhOfHolder
<1>5. hlink' \in [Qhs -> Qhs \cup {NoQh}]
  <2>1. Sentinel \in Qhs
    BY SizesAssumption DEF Sentinel, Qhs
  <2>2. CASE LinkQh(c)
    BY <2>1, <2>2 DEF LinkQh, Memory
  <2>3. CASE Publish(c)
    BY <1>4, <2>3 DEF Publish, Memory
  <2>4. CASE Unlink(c)
    <3>1. hlink' = [p \in Qhs |-> IF p \in WalkTo(QhOf(c)) /\ hlink[p] = QhOf(c)
                                  THEN hlink[QhOf(c)] ELSE hlink[p]]
      BY <2>4 DEF Unlink, Bypass
    <3> QED BY <1>4, <3>1 DEF Memory
  <2>5. CASE Ring(c) \/ PollAdvance(c) \/ ClearAai(c)
    BY <2>5 DEF Ring, PollAdvance, ClearAai, Memory, memVars
  <2> QED BY <2>2, <2>3, <2>4, <2>5
<1> QED BY <1>1, <1>2, <1>5 DEF Memory, QhOK

\* The end of a transfer.
LEMMA EndMemory ==
    ASSUME Books, Memory, NEW c \in Clients, Finish(c) \/ Return(c) \/ Cancel(c)
    PROVE  Memory'
<1>1. UNCHANGED <<hlink, qh, ase, iaa, aai, hcAt, hcNext, devToggle>>
  BY DEF Finish, Return, Cancel, memVars, hcVars, busVars
<1>2. running' \in Clients \cup {Nobody}
  BY DEF Finish, Return, Cancel, Memory
<1>3. qtd' \in [Qtds -> QtdSet]
  <2>1. FreeQtd \in QtdSet
    BY DEF FreeQtd, QtdSet
  <2> QED BY <2>1 DEF Finish, Return, Cancel, DropGuards, Memory, memVars
<1>4. wire' \in [Clients -> WireSet]
  <2>1. NoWire \in WireSet
    BY DEF NoWire, WireSet
  <2>2. wire' = wire \/ wire' = [wire EXCEPT ![c] = NoWire]
    BY DEF Finish, Return, Cancel, busVars
  <2> QED BY <2>1, <2>2 DEF Memory
<1>5. toggle' \in [Clients -> BOOLEAN]
  <2>1. CASE Finish(c)
    <3>1. pc[c] \in Holding
      BY <2>1, ControlStates DEF Finish
    <3>2. qh[QhOf(c)].dt \in BOOLEAN
      BY <3>1, QhOfHolder DEF Memory, QhSet
    <3>3. toggle[c] \in BOOLEAN
      BY DEF Memory
    <3>4. \E d \in BOOLEAN : toggle' = [toggle EXCEPT ![c] = d]
      BY <2>1, <3>2, <3>3 DEF Finish
    <3> QED BY <3>4 DEF Memory
  <2>2. CASE Return(c) \/ Cancel(c)
    BY <2>2 DEF Return, Cancel, Memory
  <2> QED BY <2>1, <2>2
<1>6. outcome' \in [Clients -> OutcomeSet]
  <2>1. CASE Finish(c)
    <3>1. pc[c] \in Holding
      BY <2>1, ControlStates DEF Finish
    <3>2. ByteCount(c) \in Int
      BY <3>1, ByteCountInt
    <3>3. Ok(ByteCount(c)) \in OutcomeSet /\ outcome[c] \in OutcomeSet
      BY <3>2 DEF Ok, OutcomeSet, Memory
    <3>4. \E o \in OutcomeSet : outcome' = [outcome EXCEPT ![c] = o]
      BY <2>1, <3>3 DEF Finish
    <3> QED BY <3>4 DEF Memory
  <2>2. CASE Return(c) \/ Cancel(c)
    BY <2>2 DEF Return, Cancel, Memory, NoOutcome, OutcomeSet
  <2> QED BY <2>1, <2>2
<1> QED BY <1>1, <1>2, <1>3, <1>4, <1>5, <1>6 DEF Memory, QhOK

\* The controller.
LEMMA OnWireType ==
    ASSUME Memory, NEW c \in Clients, NEW w \in WireSet, OnWire(c, w)
    PROVE  wire' \in [Clients -> WireSet]
BY DEF OnWire, Memory

LEMMA HcAdvanceMemory ==
    ASSUME Memory, HcAdvance
    PROVE  Memory'
BY DEF HcAdvance, Memory, QhOK, clientVars, busVars

\* The QH the controller executes belongs to a client and has a qTD.
LEMMA HcActive ==
    ASSUME Memory, qh[hcAt].st = "active"
    PROVE  /\ hcAt \in Qhs /\ qh[hcAt] \in QhSet
           /\ qh[hcAt].ep \in Clients /\ qh[hcAt].cur \in Qtds
           /\ qtd[qh[hcAt].cur] \in QtdSet
           /\ wire[qh[hcAt].ep] \in WireSet
<1>1. hcAt \in Qhs /\ qh[hcAt].st # "halted"
  BY DEF Memory
<1>2. qh[hcAt].ep \in Clients /\ qh[hcAt].cur \in Qtds
  BY <1>1 DEF Memory, QhOK
<1> QED BY <1>1, <1>2 DEF Memory

LEMMA HcFetchMemory ==
    ASSUME Memory, HcFetch
    PROVE  Memory'
<1> DEFINE t == qh[hcAt].next
<1>1. /\ hcAt \in Qhs /\ qh[hcAt] \in QhSet /\ qh[hcAt].st = "idle" /\ t # NoQtd
      /\ qh' = [qh EXCEPT ![hcAt].cur = t, ![hcAt].next = qtd[t].next, ![hcAt].st = "active"]
      /\ UNCHANGED <<running, outcome, toggle, hlink, qtd, ase, iaa, aai, hcAt, hcNext,
                     wire, devToggle>>
  BY DEF HcFetch, Memory, clientVars, hcVars, busVars
<1>2. t \in Qtds
  BY <1>1 DEF QhSet
<1>3. qtd[t].next \in Qtds \cup {NoQtd}
  BY <1>2 DEF Memory, QtdSet
<1>4. qh[hcAt].ep \in Clients
  BY <1>1 DEF Memory, QhOK
<1> DEFINE r == [qh[hcAt] EXCEPT !.cur = t, !.next = qtd[t].next, !.st = "active"]
<1>5. qh' = [qh EXCEPT ![hcAt] = r]
  BY <1>1 DEF Memory
<1>6. r \in QhSet /\ r.ep \in Clients /\ r.cur \in Qtds
  BY <1>1, <1>2, <1>3, <1>4 DEF QhSet
<1>7. qh' \in [Qhs -> QhSet] /\ QhOK'
  BY <1>1, <1>5, <1>6 DEF Memory, QhOK
<1> QED BY <1>1, <1>7 DEF Memory

\* A qTD and the record of the bus with some fields overwritten.
LEMMA QtdUpdate ==
    ASSUME NEW d \in QtdSet, NEW m \in Nat, NEW v \in {"zero", "active", "done", "halted"}
    PROVE  [d EXCEPT !.rem = m, !.st = v] \in QtdSet
BY DEF QtdSet

LEMMA WireUpdate ==
    ASSUME NEW w \in WireSet, NEW m \in Nat, NEW n \in Nat, NEW b \in BOOLEAN
    PROVE  [w EXCEPT !.done = m, !.units = n, !.short = b] \in WireSet
BY DEF WireSet

LEMMA HcPacketMemory ==
    ASSUME Memory, HcPacket
    PROVE  Memory'
<1> DEFINE t == qh[hcAt].cur
           c == qh[hcAt].ep
<1>1. /\ hcAt \in Qhs /\ qh[hcAt] \in QhSet /\ c \in Clients /\ t \in Qtds
      /\ qtd[t] \in QtdSet /\ wire[c] \in WireSet
  BY HcActive DEF HcPacket
<1>2. qtd[t].rem \in Nat /\ Lower(PacketSize, qtd[t].rem) \in 0 .. qtd[t].rem
  BY <1>1 DEF QtdSet, Lower, PacketSize
<1>3. PICK n \in 0 .. qtd[t].rem, over \in BOOLEAN :
        /\ qtd' = [qtd EXCEPT ![t].rem = qtd[t].rem - n,
                              ![t].st = IF over THEN "done" ELSE @]
        /\ qh' = [qh EXCEPT ![hcAt].st = IF over THEN "idle" ELSE @,
                            ![hcAt].cur = IF over THEN NoQtd ELSE @,
                            ![hcAt].dt = IF IsBulk(c) THEN ~@ ELSE @]
        /\ OnWire(c, [wire[c] EXCEPT !.done = IF over THEN @ + 1 ELSE @,
                                     !.units = @ + n,
                                     !.short = n < PacketSize])
        /\ devToggle' = [devToggle EXCEPT ![c] = IF IsBulk(c) THEN ~@ ELSE @]
  <2>1. PICK n \in IF qtd[t].dir = "in" THEN 0 .. Lower(PacketSize, qtd[t].rem)
                   ELSE {Lower(PacketSize, qtd[t].rem)} :
        LET rem == qtd[t].rem - n
            over == rem = 0 \/ (qtd[t].dir = "in" /\ n < PacketSize)
        IN
        /\ qtd' = [qtd EXCEPT ![t].rem = rem,
                              ![t].st = IF over THEN "done" ELSE @]
        /\ qh' = [qh EXCEPT ![hcAt].st = IF over THEN "idle" ELSE @,
                            ![hcAt].cur = IF over THEN NoQtd ELSE @,
                            ![hcAt].dt = IF IsBulk(c) THEN ~@ ELSE @]
        /\ OnWire(c, [wire[c] EXCEPT !.done = IF over THEN @ + 1 ELSE @,
                                     !.units = @ + n,
                                     !.short = n < PacketSize])
        /\ devToggle' = [devToggle EXCEPT ![c] = IF IsBulk(c) THEN ~@ ELSE @]
    BY Zenon DEF HcPacket
  <2>2. n \in 0 .. qtd[t].rem
    <3>1. PICK most : most = Lower(PacketSize, qtd[t].rem)
      OBVIOUS
    <3>2. PICK rem \in Nat : rem = qtd[t].rem /\ most \in 0 .. rem
      BY <1>2, <3>1
    <3>3. n \in 0 .. most \/ n = most
      BY <2>1, <3>1, Zenon
    <3>4. n \in 0 .. rem
      BY <3>2, <3>3
    <3> QED BY <3>2, <3>4
  <2>3. (qtd[t].rem - n = 0 \/ (qtd[t].dir = "in" /\ n < PacketSize)) \in BOOLEAN
    OBVIOUS
  <2> QED BY <2>1, <2>2, <2>3, Zenon
<1>4. qtd' \in [Qtds -> QtdSet]
  <2> DEFINE r == [qtd[t] EXCEPT !.rem = qtd[t].rem - n, !.st = IF over THEN "done" ELSE @]
  <2>1. r \in QtdSet
    <3>1. /\ qtd[t].rem - n \in Nat
          /\ (IF over THEN "done" ELSE qtd[t].st) \in {"zero", "active", "done", "halted"}
      BY <1>1, <1>2 DEF QtdSet
    <3> QED BY <1>1, <3>1, QtdUpdate, Zenon
  <2>2. qtd' = [qtd EXCEPT ![t] = r]
    BY <1>3, Zenon
  <2> HIDE DEF r
  <2> QED BY <2>1, <2>2 DEF Memory
<1>5. qh' \in [Qhs -> QhSet] /\ QhOK'
  <2> DEFINE r == [qh[hcAt] EXCEPT !.st = IF over THEN "idle" ELSE @,
                                   !.cur = IF over THEN NoQtd ELSE @,
                                   !.dt = IF IsBulk(c) THEN ~@ ELSE @]
  <2>1. r \in QhSet /\ r.ep \in Clients /\ (r.st = "active" => r.cur \in Qtds)
    BY <1>1 DEF QhSet
  <2>2. qh' = [qh EXCEPT ![hcAt] = r]
    BY <1>3, Zenon
  <2> HIDE DEF r
  <2> QED BY <1>1, <2>1, <2>2 DEF Memory, QhOK
<1>6. wire' \in [Clients -> WireSet]
  <2> DEFINE w == [wire[c] EXCEPT !.done = IF over THEN @ + 1 ELSE @,
                                  !.units = @ + n, !.short = n < PacketSize]
  <2>1. w \in WireSet
    <3>1. /\ (IF over THEN wire[c].done + 1 ELSE wire[c].done) \in Nat
          /\ wire[c].units + n \in Nat
      BY <1>1, <1>2 DEF WireSet
    <3>2. (n < PacketSize) \in BOOLEAN
      BY <1>2 DEF PacketSize
    <3> QED BY <1>1, <3>1, <3>2, WireUpdate, Zenon
  <2>2. OnWire(c, w)
    BY <1>3
  <2> HIDE DEF w
  <2> QED BY <1>1, <2>1, <2>2, OnWireType
<1>7. devToggle' \in [Clients -> BOOLEAN]
  BY <1>1, <1>3 DEF Memory
<1>8. UNCHANGED <<running, outcome, toggle, hlink, ase, iaa, aai, hcAt, hcNext>>
  BY DEF HcPacket, clientVars, hcVars
<1> QED BY <1>4, <1>5, <1>6, <1>7, <1>8 DEF Memory

LEMMA HcFailMemory ==
    ASSUME Memory, HcRetry \/ HcHalt
    PROVE  Memory'
<1> DEFINE t == qh[hcAt].cur
           c == qh[hcAt].ep
<1>1. /\ hcAt \in Qhs /\ qh[hcAt] \in QhSet /\ c \in Clients /\ t \in Qtds
      /\ qtd[t] \in QtdSet /\ wire[c] \in WireSet
  BY HcActive DEF HcRetry, HcHalt
<1>2. qtd' \in [Qtds -> QtdSet]
  <2>1. [qtd[t] EXCEPT !.err = TRUE] \in QtdSet /\ [qtd[t] EXCEPT !.st = "halted"] \in QtdSet
    BY <1>1 DEF QtdSet
  <2>2. \/ qtd' = [qtd EXCEPT ![t] = [qtd[t] EXCEPT !.err = TRUE]]
        \/ qtd' = [qtd EXCEPT ![t] = [qtd[t] EXCEPT !.st = "halted"]]
    BY Zenon DEF HcRetry, HcHalt
  <2> QED BY <2>1, <2>2 DEF Memory
<1>3. qh' \in [Qhs -> QhSet] /\ QhOK'
  <2> DEFINE r == [qh[hcAt] EXCEPT !.st = "halted", !.cur = NoQtd]
  <2>1. r \in QhSet /\ r.st = "halted"
    BY <1>1 DEF QhSet
  <2>2. qh' = qh \/ qh' = [qh EXCEPT ![hcAt] = r]
    BY Zenon DEF HcRetry, HcHalt
  <2> HIDE DEF r
  <2> QED BY <1>1, <2>1, <2>2 DEF Memory, QhOK
<1>4. wire' \in [Clients -> WireSet]
  <2>1. [wire[c] EXCEPT !.retried = TRUE] \in WireSet /\ [wire[c] EXCEPT !.halted = TRUE] \in WireSet
    BY <1>1 DEF WireSet
  <2>2. OnWire(c, [wire[c] EXCEPT !.retried = TRUE]) \/ OnWire(c, [wire[c] EXCEPT !.halted = TRUE])
    BY DEF HcRetry, HcHalt
  <2> QED BY <1>1, <2>1, <2>2, OnWireType
<1>5. UNCHANGED <<running, outcome, toggle, hlink, ase, iaa, aai, hcAt, hcNext, devToggle>>
  BY DEF HcRetry, HcHalt, clientVars, hcVars
<1> QED BY <1>2, <1>3, <1>4, <1>5 DEF Memory

LEMMA StepMemory ==
    ASSUME Books, Memory, [Next]_vars
    PROVE  Memory'
<1>1. CASE UNCHANGED vars
  BY <1>1 DEF vars, clientVars, memVars, hcVars, busVars, Memory, QhOK
<1>2. CASE Controller
  BY <1>2, HcAdvanceMemory, HcFetchMemory, HcPacketMemory, HcFailMemory DEF Controller
<1>3. ASSUME NEW c \in Clients, NEW x \in TransfersOf(c), Call(c, x)
      PROVE  Memory'
  BY <1>3 DEF Call, memVars, hcVars, busVars, Memory, QhOK
<1>4. ASSUME NEW c \in Clients, Run(c) \/ Cancel(c)
      PROVE  Memory'
  BY <1>4, BeginMemory, BeginFailsMemory, PollMemory, LinkMemory, EndMemory DEF Run
<1> QED BY <1>1, <1>2, <1>3, <1>4 DEF Next

\* IInv holds throughout.
THEOREM Invariance == Spec => []IInv
<1>1. Init => Books /\ Memory
  BY InitBooks, InitMemory
<1>2. Books /\ Memory /\ [Next]_vars => Books' /\ Memory'
  BY StepBooks, StepMemory
<1>3. Books /\ Memory => IInv
  BY TypeSplit DEF IInv
<1> QED BY <1>1, <1>2, <1>3, PTL DEF Spec

\* AsyncSchedule is type correct: no step of the driver or the controller
\* follows a link, a qTD pointer or a pipe index that leads nowhere.
THEOREM Typing == Spec => []TypeOK
<1>1. IInv => TypeOK
  BY DEF IInv
<1> QED BY <1>1, Invariance, PTL

-----------------------------------------------------------------------------
(* What UsbPools promises, for the transfers.  Held is Pools with its theorems. *)

Held == INSTANCE UsbPoolsProofs WITH phase <- PhaseBar, kind <- KindBar

\* Two instances of one module: equal operators, definition by definition.
LEMMA SameOperators ==
    /\ Held!NoPipe = Pools!NoPipe /\ Held!NoKind = Pools!NoKind /\ Held!Kinds = Pools!Kinds
    /\ Held!vars = Pools!vars
    /\ \A k : Held!FreePipes(k) = Pools!FreePipes(k) /\ Held!QtdNeed(k) = Pools!QtdNeed(k)
    /\ \A c : Held!SlotSet(c) = Pools!SlotSet(c)
    /\ \A c : Held!TooFewQtds(c) <=> Pools!TooFewQtds(c)
    /\ Held!QtdIdx = Pools!QtdIdx
    /\ \A s, n : Held!FirstFit(s, n) <=> Pools!FirstFit(s, n)
<1>1. /\ Held!NoPipe = Pools!NoPipe /\ Held!NoKind = Pools!NoKind /\ Held!Kinds = Pools!Kinds
      /\ Held!QtdIdx = Pools!QtdIdx /\ Held!FreeQtds = Pools!FreeQtds /\ Held!vars = Pools!vars
  BY DEF Held!NoPipe, Pools!NoPipe, Held!NoKind, Pools!NoKind, Held!Kinds, Pools!Kinds,
     Held!QtdIdx, Pools!QtdIdx, Held!FreeQtds, Pools!FreeQtds, Held!vars, Pools!vars
<1>2. \A k : Held!PipesFor(k) = Pools!PipesFor(k) /\ Held!QtdNeed(k) = Pools!QtdNeed(k)
  BY DEF Held!PipesFor, Pools!PipesFor, Held!BulkPipes, Pools!BulkPipes, Held!ControlPipe,
     Pools!ControlPipe, Held!QtdNeed, Pools!QtdNeed
<1>3. \A k : Held!FreePipes(k) = Pools!FreePipes(k)
  BY <1>2 DEF Held!FreePipes, Pools!FreePipes
<1>4. \A c : Held!SlotSet(c) = Pools!SlotSet(c) /\ (Held!TooFewQtds(c) <=> Pools!TooFewQtds(c))
  <2>1. \A c : Held!SlotSet(c) = Pools!SlotSet(c)
    BY Zenon DEF Held!SlotSet, Pools!SlotSet
  <2>2. \A c : Held!TooFewQtds(c) <=> Pools!TooFewQtds(c)
    BY <1>1, <1>2, <1>3, Zenon DEF Held!TooFewQtds, Pools!TooFewQtds,
       Held!Cardinality, Pools!Cardinality
  <2> QED BY <2>1, <2>2
<1>5. \A s, n : Held!FirstFit(s, n) <=> Pools!FirstFit(s, n)
  BY <1>1 DEF Held!FirstFit, Pools!FirstFit
<1> QED BY <1>1, <1>2, <1>3, <1>4, <1>5

LEMMA SameStep ==
    ASSUME [Pools!Next]_(Pools!vars)
    PROVE  [Held!Next]_(Held!vars)
<1>1. CASE UNCHANGED Pools!vars
  BY <1>1 DEF Held!vars, Pools!vars
<1>2. ASSUME NEW c \in Clients, NEW k \in Pools!Kinds, Pools!Call(c, k)
      PROVE  Held!Call(c, k)
  BY <1>2 DEF Held!Call, Pools!Call
<1>3. ASSUME NEW c \in Clients, Pools!Begin(c)
      PROVE  Held!Begin(c)
  BY <1>3, SameOperators, Zenon DEF Held!Begin, Pools!Begin
<1>4. ASSUME NEW c \in Clients
      PROVE  /\ Pools!BeginFails(c) => Held!BeginFails(c)
             /\ Pools!Panic(c) => Held!Panic(c)
             /\ Pools!GiveUp(c) => Held!GiveUp(c)
             /\ Pools!Release(c) => Held!Release(c)
  BY SameOperators DEF Held!BeginFails, Pools!BeginFails, Held!Panic, Pools!Panic,
     Held!GiveUp, Pools!GiveUp, Held!Release, Pools!Release
<1> QED BY SameOperators, <1>1, <1>2, <1>3, <1>4 DEF Held!Next, Pools!Next, Held!Running, Pools!Running

LEMMA SameSpec == Pools!Spec => Held!Spec
<1>1. Pools!Init => Held!Init
  BY DEF Pools!Init, Held!Init, Pools!NoKind, Held!NoKind, Pools!NoPipe, Held!NoPipe
<1>2. [Pools!Next]_(Pools!vars) => [Held!Next]_(Held!vars)
  BY SameStep
<1> QED BY <1>1, <1>2, PTL DEF Pools!Spec, Held!Spec

LEMMA HeldAssumptions == Held!NumQhAssumption /\ Held!NumQtdAssumption
BY SizesAssumption DEF Held!NumQhAssumption, Held!NumQtdAssumption

\* Whatever is dropped or fails, no two transfers ever own the same QH or qTD and
\* the bitmap marks exactly the qTDs owned (the SAFETY comments of schedule.rs:50-73
\* and transfer.rs:214-218, for transfers that run against the controller).
THEOREM TransfersExclusive == Spec => []Pools!Exclusive
<1>1. Held!Exclusive => Pools!Exclusive
  BY Zenon DEF Held!Exclusive, Pools!Exclusive, Held!SlotSet, Pools!SlotSet,
     Held!NoPipe, Pools!NoPipe
<1> QED BY <1>1, Refinement, SameSpec, HeldAssumptions, Held!ExclusiveHolds, PTL
        DEF ImplementsPools

\* A transfer whose turn it is finds its qTDs, so BeginFails never happens.
Supplied == \A c \in Clients : pc[c] = "pipe" => ~Pools!TooFewQtds(c)

\* With a qTD pool as large as UsbPools asks for, no transfer that is granted a
\* pipe returns AllPipesInUse (transfer.rs:201-208 and 449-452).
THEOREM TransfersSupplied ==
    ASSUME Pools!PoolLargeEnough
    PROVE  Spec => []Supplied
<1>1. Held!PoolLargeEnough
  BY DEF Held!PoolLargeEnough, Pools!PoolLargeEnough
<1>2. Held!Spec => []Held!NeverExhausted
  BY <1>1, HeldAssumptions, Held!NeverExhaustedHolds, PTL
<1>3. Held!NeverExhausted => Supplied
  BY SameOperators DEF Held!NeverExhausted, Supplied, PhaseBar
<1> QED BY <1>2, <1>3, Refinement, SameSpec, PTL DEF ImplementsPools
=============================================================================
