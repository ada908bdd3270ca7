------------------------- MODULE AsyncSafetyProofs --------------------------
(***************************************************************************)
(* What the transfers of AsyncSchedule return and where their QHs are, for *)
(* every set of clients and every pool size, as long as no future is       *)
(* dropped before it is ready: the results are honest, the data toggles    *)
(* agree and the schedule is exact with any number of transfers in flight; *)
(* the controller stays within memory that belongs to a transfer when they *)
(* are made one at a time.                                                 *)
(***************************************************************************)
EXTENDS AsyncScheduleProofs, FiniteSetTheorems

Stages(c) == 1 .. Len(Chain(xfer[c]))
Done(c) == wire[c].done

\* The qTD after stage i of the chain of c.
NextQtd(c, i) == IF i = Len(Chain(xfer[c])) THEN NoQtd ELSE slots[c][i + 1]

\* Stage i of the chain of c: the first Done(c) stages are done, the next one is
\* the one the controller is about to execute, executes or has halted on.
StageOK(c, i) ==
    LET d == StageQtd(c, i) IN
    /\ d.dir = Chain(xfer[c])[i].dir
    /\ d.next = NextQtd(c, i)
    /\ d.rem <= Chain(xfer[c])[i].len
    /\ d.err => wire[c].retried
    /\ i <= Done(c) => d.st = "done" /\ (d.dir # "in" => d.rem = 0)
    /\ i > Done(c) =>
          /\ d.st = IF i = Done(c) + 1 /\ wire[c].halted THEN "halted" ELSE "active"
          /\ d.rem % PacketSize = Chain(xfer[c])[i].len % PacketSize

\* The overlay of the QH of c.
OverlayOK(c) ==
    LET h == qh[QhOf(c)] IN
    /\ h.ep = c
    /\ h.st = "idle" =>
          /\ ~wire[c].halted /\ h.cur = NoQtd
          /\ h.next = IF Done(c) = Len(Chain(xfer[c])) THEN NoQtd ELSE slots[c][Done(c) + 1]
    /\ h.st = "active" =>
          /\ ~wire[c].halted /\ Done(c) < Len(Chain(xfer[c]))
          /\ h.cur = slots[c][Done(c) + 1] /\ h.next = NextQtd(c, Done(c) + 1)
    /\ h.st = "halted" =>
          /\ wire[c].halted /\ Done(c) < Len(Chain(xfer[c]))
          /\ h.cur = NoQtd /\ h.next = NextQtd(c, Done(c) + 1)

\* What went over the bus for c: the bytes of the data stage, the short packet at
\* the end of a variable-size OUT, the toggle of a bulk endpoint.
TrafficOK(c) ==
    /\ Done(c) <= Len(Chain(xfer[c]))
    /\ wire[c].units = IF DataStage(xfer[c]) = 0 THEN 0 ELSE xfer[c].len - Remaining(c)
    /\ xfer[c].kind = "bulkOutVariable" /\ Done(c) = Len(Chain(xfer[c])) => wire[c].short
    /\ IsBulk(c) => qh[QhOf(c)].dt = devToggle[c]

Progress(c) ==
    /\ \A i \in Stages(c) : StageOK(c, i)
    /\ OverlayOK(c)
    /\ TrafficOK(c)

\* A transfer that has read its last qTD is over, and knows what happened to it.
Decided == {"unlink", "ring", "advance", "clear", "finish"}
OutcomeOK(c) ==
    /\ outcome[c].tag = "ok" =>
          /\ Done(c) = Len(Chain(xfer[c])) /\ ~wire[c].halted
          /\ pc[c] = "returned" \/ ~IsControl(xfer[c]) => outcome[c].n = wire[c].units
          /\ xfer[c].kind = "bulkOutVariable" => wire[c].short
    /\ outcome[c].tag = "error" => wire[c].halted \/ wire[c].retried
    /\ outcome[c].tag # "none"

OverOK(c) == Done(c) = Len(Chain(xfer[c])) \/ wire[c].halted

\* Only the QH of a transfer in flight has work for the controller.
Busied(q) == qh[q].st = "active" \/ (qh[q].st = "idle" /\ qh[q].next # NoQtd)
OwnedOK(q) ==
    Busied(q) => pc[qh[q].ep] \in Holding /\ QhOf(qh[q].ep) = q

TransferInv ==
    /\ \A c \in Clients : pc[c] \in Holding => Progress(c)
    /\ \A c \in Clients : pc[c] \in Decided => OverOK(c)
    /\ \A c \in Clients : pc[c] \in Decided \cup {"returned"} => OutcomeOK(c)
    /\ \A q \in Qhs : OwnedOK(q)
    /\ ToggleInSync

-----------------------------------------------------------------------------
(* Chains and holders *)

\* Only the data stage moves bytes, and a variable-size OUT ends with a stage
\* whose last packet is short.
LEMMA ChainLengths ==
    ASSUME NEW c \in Clients, NEW x \in TransfersOf(c)
    PROVE  /\ \A i \in 1 .. Len(Chain(x)) :
                 Chain(x)[i].len = IF i = DataStage(x) THEN x.len ELSE 0
           /\ x.kind \in {"controlOut", "bulkOutFixed", "bulkOutVariable"} =>
                 Chain(x)[DataStage(x)].dir = "out"
           /\ x.kind = "bulkOutVariable" =>
                 /\ Chain(x)[Len(Chain(x))].dir = "out"
                 /\ \/ Chain(x)[Len(Chain(x))].len = 0
                    \/ Chain(x)[Len(Chain(x))].len % PacketSize = 1
<1>1. /\ x.kind \in {"controlNone", "controlIn", "controlOut",
                      "bulkIn", "bulkOutFixed", "bulkOutVariable"}
      /\ x.len \in Nat
  BY TransferKinds
<1>2. CASE x.kind = "controlNone"
  BY <1>2 DEF Chain, DataStage, Stage
<1>3. CASE x.kind = "controlIn"
  BY <1>3 DEF Chain, DataStage, Stage, IsControl
<1>4. CASE x.kind = "controlOut"
  BY <1>4 DEF Chain, DataStage, Stage, IsControl
<1>5. CASE x.kind = "bulkIn"
  BY <1>5 DEF Chain, DataStage, Stage, IsControl
<1>6. CASE x.kind = "bulkOutFixed"
  BY <1>6 DEF Chain, DataStage, Stage, IsControl, NeedZlp
<1>7. CASE x.kind = "bulkOutVariable"
  <2>1. CASE NeedZlp(x)
    BY <1>7, <2>1 DEF Chain, DataStage, Stage, IsControl
  <2>2. CASE ~NeedZlp(x)
    <3>1. x.len = 0 \/ x.len % PacketSize = 1
      BY <1>1, <1>7, <2>2 DEF NeedZlp, PacketSize
    <3> QED BY <1>7, <2>2, <3>1 DEF Chain, DataStage, Stage, IsControl
  <2> QED BY <2>1, <2>2
<1> QED BY <1>1, <1>2, <1>3, <1>4, <1>5, <1>6, <1>7

\* What the invariants of AsyncScheduleProofs say.
Context == Books /\ Memory /\ Pools!Exclusive

\* The types of what a client holds.
LEMMA HolderTypes ==
    ASSUME Context, NEW c \in Clients, pc[c] \in Holding
    PROVE  /\ QhOf(c) \in Qhs \ {Sentinel} /\ qh[QhOf(c)] \in QhSet
           /\ xfer[c] \in TransfersOf(c) /\ xfer[c].len \in Nat
           /\ Len(Chain(xfer[c])) \in 1 .. 3
           /\ DataStage(xfer[c]) \in 0 .. Len(Chain(xfer[c]))
           /\ \A i \in Stages(c) : /\ slots[c][i] \in Qtds
                                   /\ slots[c][i] \in SlotSet(c)
                                   /\ StageQtd(c, i) \in QtdSet
                                   /\ Chain(xfer[c])[i] \in StageSet
           /\ wire[c] \in WireSet
<1>1. /\ QhOf(c) \in Qhs \ {Sentinel}
      /\ xfer[c] \in TransfersOf(c)
      /\ slots[c] \in [1 .. Len(Chain(xfer[c])) -> Qtds]
  BY QhOfHolder DEF Context
<1>2. \A i \in Stages(c) : slots[c][i] \in Qtds /\ slots[c][i] \in SlotSet(c)
  BY <1>1 DEF Stages, SlotSet
<1>3. \A i \in Stages(c) : StageQtd(c, i) \in QtdSet
  BY <1>2 DEF StageQtd, Context, Memory
<1> QED BY <1>1, <1>2, <1>3, TransferKinds, ChainShape DEF Context, Memory, Stages

\* No two holders share a QH or a qTD, and no holder has a qTD twice.
LEMMA HoldersApart ==
    ASSUME Context, NEW c \in Clients, pc[c] \in Holding
    PROVE  /\ \A i, j \in Stages(c) : i # j => slots[c][i] # slots[c][j]
           /\ \A d \in Clients \ {c} : pc[d] \in Holding =>
                 /\ QhOf(d) # QhOf(c)
                 /\ \A i \in Stages(d) : slots[d][i] \notin SlotSet(c)
<1>1. DOMAIN slots[c] = Stages(c)
  BY QhOfHolder DEF Context, Stages
<1>2. \A i, j \in Stages(c) : i # j => slots[c][i] # slots[c][j]
  BY <1>1 DEF Context, Pools!Exclusive
<1>3. ASSUME NEW d \in Clients \ {c}, pc[d] \in Holding
      PROVE  /\ QhOf(d) # QhOf(c)
             /\ \A i \in Stages(d) : slots[d][i] \notin SlotSet(c)
  <2>1. pipe[c] = pipe[d] => pipe[c] = Pools!NoPipe
    BY <1>3 DEF Context, Pools!Exclusive
  <2>2. SlotSet(c) \cap SlotSet(d) = {}
    BY <1>3 DEF Context, Pools!Exclusive, Pools!SlotSet, SlotSet
  <2>3. QhOf(c) \in Qhs \ {Sentinel} /\ pipe[c] \in 0 .. NumQh /\ pipe[d] \in 0 .. NumQh
    BY QhOfHolder DEF Context, Books
  <2>4. pipe[c] # Pools!NoPipe
    BY <2>3, PipeRange, SizesAssumption DEF QhOf, Qhs
  <2>5. QhOf(d) # QhOf(c)
    BY <2>1, <2>3, <2>4, SizesAssumption DEF QhOf
  <2>6. \A i \in Stages(d) : slots[d][i] \in SlotSet(d)
    BY <1>3, HolderTypes
  <2> QED BY <2>2, <2>5, <2>6
<1> QED BY <1>2, <1>3

\* Progress(c) is about what c holds and nothing else.
LEMMA ProgressFrame ==
    ASSUME NEW c, Progress(c),
           xfer'[c] = xfer[c], slots'[c] = slots[c], pipe'[c] = pipe[c],
           wire'[c] = wire[c], devToggle'[c] = devToggle[c],
           qh'[QhOf(c)] = qh[QhOf(c)],
           \A i \in Stages(c) : qtd'[slots[c][i]] = qtd[slots[c][i]],
           DataStage(xfer[c]) # 0 => DataStage(xfer[c]) \in Stages(c)
    PROVE  Progress(c)'
<1>1. Stages(c)' = Stages(c) /\ Done(c)' = Done(c) /\ QhOf(c)' = QhOf(c)
  BY DEF Stages, Done, QhOf
<1>2. \A i \in Stages(c) : StageQtd(c, i)' = StageQtd(c, i) /\ NextQtd(c, i)' = NextQtd(c, i)
  BY DEF StageQtd, NextQtd
<1>3. \A i \in Stages(c)' : StageOK(c, i)'
  BY <1>1, <1>2 DEF Progress, StageOK
<1>4. OverlayOK(c)'
  BY <1>1 DEF Progress, OverlayOK, NextQtd
<1>5. DataStage(xfer[c]) # 0 => Remaining(c)' = Remaining(c)
  BY <1>2 DEF Remaining
<1>6. TrafficOK(c)'
  BY <1>1, <1>5 DEF Progress, TrafficOK, IsBulk
<1> QED BY <1>3, <1>4, <1>6 DEF Progress

-----------------------------------------------------------------------------
(* The controller *)

\* Whatever has work for the controller is the QH of the client it names.
LEMMA BusyHolder ==
    ASSUME Context, TransferInv, Busied(hcAt)
    PROVE  /\ hcAt \in Qhs /\ qh[hcAt].ep \in Clients /\ pc[qh[hcAt].ep] \in Holding
           /\ QhOf(qh[hcAt].ep) = hcAt /\ Progress(qh[hcAt].ep)
<1>1. hcAt \in Qhs /\ qh[hcAt].st # "halted"
  BY DEF Busied, Context, Memory
<1>2. qh[hcAt].ep \in Clients
  BY <1>1 DEF Context, Memory, QhOK
<1> QED BY <1>1, <1>2 DEF TransferInv, OwnedOK

\* A step of the controller for client c: it touches the QH and the qTDs of c and
\* what happened to c, no more.
LEMMA ForClient ==
    ASSUME Context, TransferInv, NEW c \in Clients, pc[c] \in Holding,
           UNCHANGED <<clientVars, poolVars>>,
           \A q \in Qhs \ {QhOf(c)} : qh'[q] = qh[q],
           \A t \in Qtds \ SlotSet(c) : qtd'[t] = qtd[t],
           \A d \in Clients \ {c} : wire'[d] = wire[d] /\ devToggle'[d] = devToggle[d],
           Progress(c)',
           pc[c] \in Decided => OverOK(c)' /\ OutcomeOK(c)'
    PROVE  TransferInv'
<1>1. UNCHANGED <<pc, xfer, outcome, toggle, pipe, slots>>
  BY DEF clientVars, poolVars
<1>2. ASSUME NEW d \in Clients \ {c}, pc[d] \in Holding
      PROVE  Progress(d)'
  <2>1. /\ QhOf(d) \in Qhs /\ QhOf(d) # QhOf(c)
        /\ \A i \in Stages(d) : slots[d][i] \in Qtds \ SlotSet(c)
        /\ DataStage(xfer[d]) # 0 => DataStage(xfer[d]) \in Stages(d)
    BY <1>2, HolderTypes, HoldersApart DEF Stages
  <2>2. Progress(d)
    BY <1>2 DEF TransferInv
  <2> QED BY <1>1, <2>1, <2>2, ProgressFrame
<1>3. \A d \in Clients : pc'[d] \in Holding => Progress(d)'
  BY <1>1, <1>2
<1>4. \A d \in Clients : pc'[d] \in Decided => OverOK(d)'
  BY <1>1 DEF TransferInv, OverOK, Done
<1>5. \A d \in Clients : pc'[d] \in Decided \cup {"returned"} => OutcomeOK(d)'
  <2>1. pc[c] # "returned"
    BY ControlStates
  <2> QED BY <1>1, <2>1 DEF TransferInv, OutcomeOK, Done
<1>6. \A q \in Qhs : OwnedOK(q)'
  <2>1. QhOf(c)' = QhOf(c) /\ qh'[QhOf(c)].ep = c
    BY <1>1 DEF Progress, OverlayOK, QhOf
  <2>2. ASSUME NEW q \in Qhs, q = QhOf(c)
        PROVE  OwnedOK(q)'
    BY <1>1, <2>1, <2>2 DEF OwnedOK
  <2>3. ASSUME NEW q \in Qhs, q # QhOf(c)
        PROVE  OwnedOK(q)'
    BY <1>1, <2>3 DEF TransferInv, OwnedOK, Busied, QhOf
  <2> QED BY <2>2, <2>3
<1>7. ToggleInSync'
  BY <1>1, ControlStates DEF TransferInv, ToggleInSync, Clients
<1> QED BY <1>3, <1>4, <1>5, <1>6, <1>7 DEF TransferInv

LEMMA DoneRange ==
    ASSUME Context, NEW c \in Clients, pc[c] \in Holding, Progress(c)
    PROVE  /\ Len(Chain(xfer[c])) \in 1 .. 3
           /\ Done(c) \in 0 .. Len(Chain(xfer[c]))
<1>1. Len(Chain(xfer[c])) \in 1 .. 3 /\ wire[c] \in WireSet
  BY HolderTypes
<1>2. Done(c) \in Nat /\ Done(c) <= Len(Chain(xfer[c]))
  BY <1>1 DEF Done, WireSet, Progress, TrafficOK
<1> QED BY <1>1, <1>2

\* The stage that the overlay of c points at.
LEMMA CurrentStage ==
    ASSUME Context, NEW c \in Clients, pc[c] \in Holding, Progress(c),
           Done(c) < Len(Chain(xfer[c]))
    PROVE  /\ Done(c) \in Nat /\ Done(c) + 1 \in Stages(c)
           /\ slots[c][Done(c) + 1] \in Qtds
           /\ \A i \in Stages(c) : i # Done(c) + 1 =>
                 slots[c][i] # slots[c][Done(c) + 1]
<1>1. Done(c) \in Nat /\ Len(Chain(xfer[c])) \in 1 .. 3
  BY HolderTypes DEF Done, WireSet
<1>2. Done(c) + 1 \in Stages(c)
  BY <1>1 DEF Stages
<1> QED BY <1>1, <1>2, HolderTypes, HoldersApart

\* The pool of QHs with some fields of q overwritten.
OneQh(f, q, a, b, v, d) ==
    /\ f[q].ep = qh[q].ep /\ f[q].cur = a /\ f[q].next = b /\ f[q].st = v /\ f[q].dt = d
    /\ \A p \in Qhs \ {q} : f[p] = qh[p]

LEMMA LoadedQh ==
    ASSUME Memory, NEW q \in Qhs, NEW a, NEW b, NEW v
    PROVE  OneQh([qh EXCEPT ![q].cur = a, ![q].next = b, ![q].st = v], q, a, b, v, qh[q].dt)
<1> DEFINE r == [qh[q] EXCEPT !.cur = a, !.next = b, !.st = v]
<1>1. [qh EXCEPT ![q].cur = a, ![q].next = b, ![q].st = v] = [qh EXCEPT ![q] = r]
  BY DEF Memory
<1>2. r.ep = qh[q].ep /\ r.cur = a /\ r.next = b /\ r.st = v /\ r.dt = qh[q].dt
  BY DEF Memory, QhSet
<1> HIDE DEF r
<1> QED BY <1>1, <1>2 DEF OneQh, Memory

LEMMA PacketQh ==
    ASSUME Memory, NEW q \in Qhs, NEW a, NEW v, NEW d
    PROVE  OneQh([qh EXCEPT ![q].st = v, ![q].cur = a, ![q].dt = d], q, a, qh[q].next, v, d)
<1> DEFINE r == [qh[q] EXCEPT !.st = v, !.cur = a, !.dt = d]
<1>1. [qh EXCEPT ![q].st = v, ![q].cur = a, ![q].dt = d] = [qh EXCEPT ![q] = r]
  BY DEF Memory
<1>2. r.ep = qh[q].ep /\ r.cur = a /\ r.next = qh[q].next /\ r.st = v /\ r.dt = d
  BY DEF Memory, QhSet
<1> HIDE DEF r
<1> QED BY <1>1, <1>2 DEF OneQh, Memory

LEMMA HaltedQh ==
    ASSUME Memory, NEW q \in Qhs, NEW a, NEW v
    PROVE  OneQh([qh EXCEPT ![q].st = v, ![q].cur = a], q, a, qh[q].next, v, qh[q].dt)
<1> DEFINE r == [qh[q] EXCEPT !.st = v, !.cur = a]
<1>1. [qh EXCEPT ![q].st = v, ![q].cur = a] = [qh EXCEPT ![q] = r]
  BY DEF Memory
<1>2. r.ep = qh[q].ep /\ r.cur = a /\ r.next = qh[q].next /\ r.st = v /\ r.dt = qh[q].dt
  BY DEF Memory, QhSet
<1> HIDE DEF r
<1> QED BY <1>1, <1>2 DEF OneQh, Memory

LEMMA FetchStep ==
    ASSUME Context, TransferInv, HcFetch
    PROVE  TransferInv'
<1>1. PICK c \in Clients, t \in Qtds :
        /\ c = qh[hcAt].ep /\ t = qh[hcAt].next
        /\ hcAt \in Qhs /\ pc[c] \in Holding /\ QhOf(c) = hcAt /\ Progress(c)
        /\ qh[hcAt].st = "idle" /\ t # NoQtd /\ qtd[t].st = "active"
        /\ OneQh(qh', hcAt, t, qtd[t].next, "active", qh[hcAt].dt)
        /\ UNCHANGED <<clientVars, poolVars, qtd, hcAt, wire, devToggle>>
  <2>1. /\ Busied(hcAt) /\ qh[hcAt].next # NoQtd
        /\ UNCHANGED <<clientVars, poolVars, qtd, hcAt, wire, devToggle>>
    BY DEF HcFetch, Busied, busVars, hcVars
  <2>2. hcAt \in Qhs /\ qh[hcAt].next \in Qtds
    BY <2>1 DEF Context, Memory, QhSet
  <2>3. OneQh(qh', hcAt, qh[hcAt].next, qtd[qh[hcAt].next].next, "active", qh[hcAt].dt)
    BY <2>2, LoadedQh, Zenon DEF HcFetch, Context
  <2>4. /\ qh[hcAt].ep \in Clients /\ pc[qh[hcAt].ep] \in Holding
        /\ QhOf(qh[hcAt].ep) = hcAt /\ Progress(qh[hcAt].ep)
    BY <2>1, BusyHolder
  <2>5. /\ qh[hcAt].st = "idle" /\ qh[hcAt].next # NoQtd
        /\ qtd[qh[hcAt].next].st = "active"
    BY DEF HcFetch
  <2> QED BY <2>1, <2>2, <2>3, <2>4, <2>5
<1>2. /\ ~wire[c].halted /\ qh[hcAt].cur = NoQtd
      /\ Done(c) # Len(Chain(xfer[c])) /\ t = slots[c][Done(c) + 1]
  BY <1>1 DEF Progress, OverlayOK
<1>3. Done(c) < Len(Chain(xfer[c]))
  BY <1>1, <1>2, DoneRange
<1>4. qtd[t].next = NextQtd(c, Done(c) + 1)
  <2>1. Done(c) + 1 \in Stages(c)
    BY <1>1, <1>3, CurrentStage
  <2>2. StageOK(c, Done(c) + 1)
    BY <1>1, <2>1, Zenon DEF Progress
  <2> QED BY <1>2, <2>2, Zenon DEF StageOK, StageQtd
<1>5. UNCHANGED <<pc, xfer, outcome, toggle, pipe, slots, qtd, hcAt, wire, devToggle>>
  BY <1>1 DEF clientVars, poolVars
<1>6. Progress(c)'
  <2>1. Stages(c)' = Stages(c) /\ Done(c)' = Done(c) /\ QhOf(c)' = hcAt
    BY <1>1, <1>5 DEF Stages, Done, QhOf
  <2>2. \A i \in Stages(c)' : StageOK(c, i)'
    <3>1. \A i \in Stages(c) : StageOK(c, i)
      BY <1>1 DEF Progress
    <3> QED BY <1>5, <2>1, <3>1 DEF StageOK, StageQtd, NextQtd
  <2>3. /\ qh'[hcAt].ep = c /\ qh'[hcAt].st = "active" /\ qh'[hcAt].cur = t
        /\ qh'[hcAt].next = qtd[t].next /\ qh'[hcAt].dt = qh[hcAt].dt
    BY <1>1 DEF OneQh
  <2>4. OverlayOK(c)'
    BY <1>1, <1>2, <1>3, <1>4, <1>5, <2>1, <2>3 DEF OverlayOK, NextQtd
  <2>5. TrafficOK(c)'
    BY <1>1, <1>5, <2>1, <2>3 DEF Progress, TrafficOK, IsBulk, Remaining, StageQtd
  <2> QED BY <2>2, <2>4, <2>5 DEF Progress
<1>7. pc[c] \in Decided => OverOK(c)' /\ OutcomeOK(c)'
  BY <1>1, <1>5 DEF TransferInv, OverOK, OutcomeOK, Done
<1>8. /\ \A q \in Qhs \ {QhOf(c)} : qh'[q] = qh[q]
      /\ \A r \in Qtds \ SlotSet(c) : qtd'[r] = qtd[r]
      /\ \A d \in Clients \ {c} : wire'[d] = wire[d] /\ devToggle'[d] = devToggle[d]
  BY <1>1 DEF OneQh
<1>9. c \in Clients /\ pc[c] \in Holding /\ UNCHANGED <<clientVars, poolVars>>
  BY <1>1
<1> QED BY <1>6, <1>7, <1>8, <1>9, ForClient

\* The pool of qTDs with some fields of t overwritten.
OneQtd(f, t, m, v, e) ==
    /\ f[t].dir = qtd[t].dir /\ f[t].next = qtd[t].next
    /\ f[t].rem = m /\ f[t].st = v /\ f[t].err = e
    /\ \A u \in Qtds \ {t} : f[u] = qtd[u]

LEMMA PacketQtd ==
    ASSUME Memory, NEW t \in Qtds, NEW m, NEW v
    PROVE  OneQtd([qtd EXCEPT ![t].rem = m, ![t].st = v], t, m, v, qtd[t].err)
<1> DEFINE r == [qtd[t] EXCEPT !.rem = m, !.st = v]
<1>1. [qtd EXCEPT ![t].rem = m, ![t].st = v] = [qtd EXCEPT ![t] = r]
  BY DEF Memory
<1>2. /\ r.dir = qtd[t].dir /\ r.next = qtd[t].next
      /\ r.rem = m /\ r.st = v /\ r.err = qtd[t].err
  BY DEF Memory, QtdSet
<1> HIDE DEF r
<1> QED BY <1>1, <1>2 DEF OneQtd, Memory

LEMMA FailedQtd ==
    ASSUME Memory, NEW t \in Qtds
    PROVE  /\ OneQtd([qtd EXCEPT ![t].err = TRUE], t, qtd[t].rem, qtd[t].st, TRUE)
           /\ OneQtd([qtd EXCEPT ![t].st = "halted"], t, qtd[t].rem, "halted", qtd[t].err)
<1>1. OneQtd([qtd EXCEPT ![t].err = TRUE], t, qtd[t].rem, qtd[t].st, TRUE)
  BY DEF Memory, QtdSet, OneQtd
<1>2. OneQtd([qtd EXCEPT ![t].st = "halted"], t, qtd[t].rem, "halted", qtd[t].err)
  BY DEF Memory, QtdSet, OneQtd
<1> QED BY <1>1, <1>2

\* The QH that executes, its client and its qTD.
LEMMA Executing ==
    ASSUME Context, TransferInv, qh[hcAt].st = "active",
           NEW c, c = qh[hcAt].ep, NEW t, t = qh[hcAt].cur
    PROVE  /\ hcAt \in Qhs /\ c \in Clients /\ pc[c] \in Holding
           /\ QhOf(c) = hcAt /\ Progress(c)
           /\ ~wire[c].halted /\ Done(c) < Len(Chain(xfer[c])) /\ Done(c) \in Nat
           /\ Done(c) + 1 \in Stages(c)
           /\ t = slots[c][Done(c) + 1] /\ t \in Qtds /\ t \in SlotSet(c)
           /\ \A i \in Stages(c) : i # Done(c) + 1 => slots[c][i] # t
           /\ qh[hcAt].next = NextQtd(c, Done(c) + 1)
           /\ pc[c] \notin Decided
<1>1. /\ hcAt \in Qhs /\ c \in Clients /\ pc[c] \in Holding
      /\ QhOf(c) = hcAt /\ Progress(c)
  BY BusyHolder DEF Busied
<1>2. /\ ~wire[c].halted /\ Done(c) < Len(Chain(xfer[c]))
      /\ t = slots[c][Done(c) + 1] /\ qh[hcAt].next = NextQtd(c, Done(c) + 1)
  BY <1>1 DEF Progress, OverlayOK
<1>3. /\ Done(c) \in Nat /\ Done(c) + 1 \in Stages(c)
      /\ t \in Qtds /\ t \in SlotSet(c)
      /\ \A i \in Stages(c) : i # Done(c) + 1 => slots[c][i] # t
  BY <1>1, <1>2, CurrentStage, HolderTypes
<1>4. pc[c] \notin Decided
  BY <1>1, <1>2, <1>3, DoneRange DEF TransferInv, OverOK
<1> QED BY <1>1, <1>2, <1>3, <1>4

\* One packet for client c, in the terms of its chain: n half packets move, and
\* the stage is over or not.
LEMMA PacketStage ==
    ASSUME Context, TransferInv, HcPacket
    PROVE  \E c \in Clients, t \in Qtds, n \in 0 .. 2, over \in BOOLEAN :
             LET k == Done(c) IN
             /\ qh[hcAt].st = "active" /\ c = qh[hcAt].ep /\ t = qh[hcAt].cur
             /\ n <= qtd[t].rem
             /\ over <=> (qtd[t].rem = n \/ (qtd[t].dir = "in" /\ n < 2))
             /\ qtd[t].dir # "in" => n = 2 \/ qtd[t].rem = n
             /\ OneQtd(qtd', t, qtd[t].rem - n, IF over THEN "done" ELSE qtd[t].st, qtd[t].err)
             /\ OneQh(qh', hcAt, IF over THEN NoQtd ELSE t, qh[hcAt].next,
                      IF over THEN "idle" ELSE "active",
                      IF IsBulk(c) THEN ~qh[hcAt].dt ELSE qh[hcAt].dt)
             /\ wire' = [wire EXCEPT ![c] =
                    [wire[c] EXCEPT !.done = IF over THEN @ + 1 ELSE @,
                                    !.units = @ + n, !.short = n < PacketSize]]
             /\ devToggle' = [devToggle EXCEPT ![c] = IF IsBulk(c) THEN ~@ ELSE @]
             /\ UNCHANGED <<clientVars, poolVars, hcAt>>
<1> DEFINE t == qh[hcAt].cur
           c == qh[hcAt].ep
<1>1. /\ hcAt \in Qhs /\ qh[hcAt].st = "active" /\ c \in Clients /\ pc[c] \in Holding
      /\ t \in Qtds
  <2>1. qh[hcAt].st = "active"
    BY DEF HcPacket
  <2> QED BY <2>1, Executing
<1>2. qtd[t].rem \in Nat
  BY <1>1 DEF Context, Memory, QtdSet
<1>3. PICK n \in IF qtd[t].dir = "in" THEN 0 .. Lower(PacketSize, qtd[t].rem)
                 ELSE {Lower(PacketSize, qtd[t].rem)} :
        LET rem == qtd[t].rem - n
            over == rem = 0 \/ (qtd[t].dir = "in" /\ n < PacketSize)
        IN
        /\ qtd' = [qtd EXCEPT ![t].rem = rem,
                              ![t].st = IF over THEN "done" ELSE @]
        /\ qh' = [qh EXCEPT ![hcAt].st = IF over THEN "idle" ELSE @,
                            ![hcAt].cur = IF over THEN NoQtd ELSE @,
                            ![hcAt].dt = IF IsBulk(c) THEN ~@ ELSE @]
        /\ OnWire(c, [wire[c] EXCEPT !.done = IF over THEN @ + 1 ELSE @,
                                     !.units = @ + n,
                                     !.short = n < PacketSize])
        /\ devToggle' = [devToggle EXCEPT ![c] = IF IsBulk(c) THEN ~@ ELSE @]
  BY Zenon DEF HcPacket
<1>4. /\ n \in 0 .. 2 /\ n <= qtd[t].rem
      /\ qtd[t].dir # "in" => n = 2 \/ qtd[t].rem = n
  <2>1. PICK most : most = Lower(PacketSize, qtd[t].rem)
    OBVIOUS
  <2>2. PICK rem \in Nat : rem = qtd[t].rem
    BY <1>2
  <2>3. most = IF 2 < rem THEN 2 ELSE rem
    BY <2>1, <2>2, Zenon DEF Lower, PacketSize
  <2>4. most \in 0 .. 2 /\ most <= rem /\ (most = 2 \/ most = rem)
    BY <2>2, <2>3
  <2>5. n \in (IF qtd[t].dir = "in" THEN 0 .. most ELSE {most})
    BY <1>3, <2>1, Zenon
  <2>6. /\ n \in 0 .. most
        /\ qtd[t].dir # "in" => n = most
    <3>1. CASE qtd[t].dir = "in"
      BY <2>5, <3>1, Zenon
    <3>2. CASE qtd[t].dir # "in"
      <4>1. n = most
        BY <2>5, <3>2, Zenon
      <4>2. most \in 0 .. most
        BY <2>4
      <4> QED BY <3>2, <4>1, <4>2, Zenon
    <3> QED BY <3>1, <3>2, Zenon
  <2>7. n \in 0 .. 2 /\ n <= rem
    BY <2>2, <2>4, <2>6
  <2> QED BY <2>2, <2>4, <2>6, <2>7, Zenon
<1>5. PICK over \in BOOLEAN :
        over <=> (qtd[t].rem - n = 0 \/ (qtd[t].dir = "in" /\ n < PacketSize))
  OBVIOUS
<1>6. qtd' = [qtd EXCEPT ![t].rem = qtd[t].rem - n, ![t].st = IF over THEN "done" ELSE @]
  BY <1>3, <1>5, Zenon
<1>7. OneQtd(qtd', t, qtd[t].rem - n, IF over THEN "done" ELSE qtd[t].st, qtd[t].err)
  BY <1>1, <1>6, PacketQtd, Zenon DEF Context
<1>8. qh' = [qh EXCEPT ![hcAt].st = IF over THEN "idle" ELSE @,
                       ![hcAt].cur = IF over THEN NoQtd ELSE @,
                       ![hcAt].dt = IF IsBulk(c) THEN ~@ ELSE @]
  BY <1>3, <1>5, Zenon
<1>9. OneQh(qh', hcAt, IF over THEN NoQtd ELSE t, qh[hcAt].next,
            IF over THEN "idle" ELSE "active", IF IsBulk(c) THEN ~qh[hcAt].dt ELSE qh[hcAt].dt)
  BY <1>1, <1>8, PacketQh, Zenon DEF Context
<1>10. wire' = [wire EXCEPT ![c] = [wire[c] EXCEPT !.done = IF over THEN @ + 1 ELSE @,
                                    !.units = @ + n, !.short = n < PacketSize]]
  BY <1>1, <1>3, <1>5, Zenon DEF OnWire
<1>11. devToggle' = [devToggle EXCEPT ![c] = IF IsBulk(c) THEN ~@ ELSE @]
  BY <1>3
<1>12. UNCHANGED <<clientVars, poolVars, hcAt>>
  BY DEF HcPacket, hcVars
<1>13. over <=> (qtd[t].rem = n \/ (qtd[t].dir = "in" /\ n < 2))
  BY <1>2, <1>4, <1>5 DEF PacketSize
<1> HIDE DEF t, c
<1> QED BY <1>1, <1>4, <1>7, <1>9, <1>10, <1>11, <1>12, <1>13, Zenon DEF t, c

\* What the bus records of a packet.
LEMMA PacketWire ==
    ASSUME Context, NEW c \in Clients, NEW n \in 0 .. 2, NEW over \in BOOLEAN,
           wire' = [wire EXCEPT ![c] =
               [wire[c] EXCEPT !.done = IF over THEN @ + 1 ELSE @,
                               !.units = @ + n, !.short = n < PacketSize]]
    PROVE  /\ Done(c)' = IF over THEN Done(c) + 1 ELSE Done(c)
           /\ wire'[c].units = wire[c].units + n
           /\ wire'[c].short <=> n < 2
           /\ wire'[c].retried = wire[c].retried /\ wire'[c].halted = wire[c].halted
           /\ \A d \in Clients \ {c} : wire'[d] = wire[d]
<1> DEFINE r == [wire[c] EXCEPT !.done = IF over THEN @ + 1 ELSE @,
                                !.units = @ + n, !.short = n < PacketSize]
<1>1. wire[c] \in WireSet
  BY DEF Context, Memory
<1>2. /\ r.done = IF over THEN wire[c].done + 1 ELSE wire[c].done
      /\ r.units = wire[c].units + n /\ r.short = (n < PacketSize)
      /\ r.retried = wire[c].retried /\ r.halted = wire[c].halted
  BY <1>1 DEF WireSet
<1>3. wire' = [wire EXCEPT ![c] = r]
  OBVIOUS
<1> HIDE DEF r
<1>4. wire'[c] = r /\ \A d \in Clients \ {c} : wire'[d] = wire[d]
  BY <1>3 DEF Context, Memory
<1> QED BY <1>2, <1>4 DEF Done, PacketSize

LEMMA PacketStep ==
    ASSUME Context, TransferInv, HcPacket
    PROVE  TransferInv'
<1>1. PICK c \in Clients, t \in Qtds, n \in 0 .. 2, over \in BOOLEAN :
        /\ qh[hcAt].st = "active" /\ c = qh[hcAt].ep /\ t = qh[hcAt].cur
        /\ n <= qtd[t].rem
        /\ over <=> (qtd[t].rem = n \/ (qtd[t].dir = "in" /\ n < 2))
        /\ qtd[t].dir # "in" => n = 2 \/ qtd[t].rem = n
        /\ OneQtd(qtd', t, qtd[t].rem - n, IF over THEN "done" ELSE qtd[t].st, qtd[t].err)
        /\ OneQh(qh', hcAt, IF over THEN NoQtd ELSE t, qh[hcAt].next,
                 IF over THEN "idle" ELSE "active",
                 IF IsBulk(c) THEN ~qh[hcAt].dt ELSE qh[hcAt].dt)
        /\ wire' = [wire EXCEPT ![c] =
               [wire[c] EXCEPT !.done = IF over THEN @ + 1 ELSE @,
                               !.units = @ + n, !.short = n < PacketSize]]
        /\ devToggle' = [devToggle EXCEPT ![c] = IF IsBulk(c) THEN ~@ ELSE @]
        /\ UNCHANGED <<clientVars, poolVars, hcAt>>
  BY PacketStage, Zenon
<1> DEFINE k == Done(c)
           x == xfer[c]
           len == Len(Chain(x))
<1>2. /\ hcAt \in Qhs /\ pc[c] \in Holding
      /\ QhOf(c) = hcAt /\ Progress(c)
      /\ ~wire[c].halted /\ k < len /\ k \in Nat /\ k + 1 \in Stages(c)
      /\ t = slots[c][k + 1] /\ t \in SlotSet(c)
      /\ \A i \in Stages(c) : i # k + 1 => slots[c][i] # t
      /\ qh[hcAt].next = NextQtd(c, k + 1)
      /\ pc[c] \notin Decided
  BY <1>1, Executing, Zenon
<1>3. UNCHANGED <<pc, xfer, pipe, slots, hcAt>>
  BY <1>1 DEF clientVars, poolVars
<1>4. /\ Done(c)' = IF over THEN k + 1 ELSE k
      /\ wire'[c].units = wire[c].units + n
      /\ wire'[c].short <=> n < 2
      /\ wire'[c].retried = wire[c].retried /\ wire'[c].halted = wire[c].halted
      /\ \A d \in Clients \ {c} : wire'[d] = wire[d]
  <2>1. wire' = [wire EXCEPT ![c] =
               [wire[c] EXCEPT !.done = IF over THEN @ + 1 ELSE @,
                               !.units = @ + n, !.short = n < PacketSize]]
    BY <1>1
  <2>2. n \in 0 .. 2 /\ over \in BOOLEAN
    OBVIOUS
  <2> QED BY <2>1, <2>2, PacketWire
<1>5. Stages(c)' = Stages(c) /\ QhOf(c)' = hcAt
  BY <1>2, <1>3 DEF Stages, QhOf
<1>6. /\ x \in TransfersOf(c) /\ x.len \in Nat /\ len \in 1 .. 3 /\ DataStage(x) \in 0 .. len
      /\ \A i \in Stages(c) : /\ slots[c][i] \in Qtds /\ StageQtd(c, i) \in QtdSet
                              /\ Chain(x)[i] \in StageSet
  BY <1>2, HolderTypes
<1>7. /\ \A i \in Stages(c) : i # k + 1 => StageQtd(c, i)' = StageQtd(c, i)
      /\ StageQtd(c, k + 1) = qtd[t] /\ qtd'[slots[c][k + 1]] = qtd'[t]
  BY <1>1, <1>2, <1>3, <1>6 DEF StageQtd, OneQtd
<1>8. /\ qtd'[t].dir = qtd[t].dir /\ qtd'[t].next = qtd[t].next
      /\ qtd'[t].rem = qtd[t].rem - n /\ qtd'[t].err = qtd[t].err
      /\ qtd'[t].st = IF over THEN "done" ELSE "active"
  <2>1. qtd[t].st = "active"
    BY <1>2, <1>7 DEF Progress, StageOK
  <2> QED BY <1>1, <2>1 DEF OneQtd
<1>9. /\ qtd[t].dir = Chain(x)[k + 1].dir /\ qtd[t].next = NextQtd(c, k + 1)
      /\ qtd[t].rem <= Chain(x)[k + 1].len /\ (qtd[t].err => wire[c].retried)
      /\ qtd[t].rem % PacketSize = Chain(x)[k + 1].len % PacketSize
      /\ qtd[t].rem \in Nat /\ Chain(x)[k + 1].len \in Nat
  <2>1. StageOK(c, k + 1) /\ k + 1 > k
    BY <1>2 DEF Progress
  <2>2. qtd[t] \in QtdSet /\ Chain(x)[k + 1] \in StageSet
    BY <1>2, <1>6, <1>7
  <2> QED BY <1>7, <2>1, <2>2 DEF StageOK, QtdSet, StageSet
<1>10. \A i \in Stages(c) : StageOK(c, i)'
  <2> SUFFICES ASSUME NEW i \in Stages(c)
               PROVE  StageOK(c, i)'
    OBVIOUS
  <2>1. NextQtd(c, i)' = NextQtd(c, i)
    BY <1>3 DEF NextQtd
  <2>2. StageOK(c, i)
    BY <1>2 DEF Progress
  <2>3. CASE i # k + 1
    <3>1. StageQtd(c, i)' = StageQtd(c, i)
      BY <1>7, <2>3
    <3>2. (i <= Done(c)' <=> i <= k) /\ ~wire'[c].halted /\ i \in Nat
      BY <1>2, <1>4, <1>6, <2>3 DEF Stages
    <3> QED BY <1>2, <1>3, <1>4, <2>1, <2>2, <3>1, <3>2 DEF StageOK
  <2>4. CASE i = k + 1
    <3>1. StageQtd(c, i)' = qtd'[t]
      BY <1>3, <1>7, <2>4 DEF StageQtd
    <3>2. (i <= Done(c)' <=> over) /\ i \in Nat /\ Done(c)' \in Nat
      BY <1>2, <1>4, <2>4
    <3>3. over => (qtd[t].dir # "in" => qtd[t].rem - n = 0)
      <4>1. over => (qtd[t].dir # "in" => qtd[t].rem = n)
        BY <1>1, Zenon
      <4>2. qtd[t].rem = n => qtd[t].rem - n = 0
        OBVIOUS
      <4> QED BY <4>1, <4>2, Zenon
    <3>4. ~over => n = 2 /\ (qtd[t].rem - n) % PacketSize = qtd[t].rem % PacketSize
      <4>1. PICK rem \in Nat : rem = qtd[t].rem
        BY <1>9
      <4>2. n <= rem
        BY <1>1, <4>1, Zenon
      <4>3. ~over => rem # n /\ (qtd[t].dir = "in" => ~(n < 2))
        BY <1>1, <4>1, Zenon
      <4>4. qtd[t].dir # "in" => n = 2 \/ rem = n
        BY <1>1, <4>1, Zenon
      <4>5. ~over => n = 2
        <5>1. n < 2 \/ n = 2
          OBVIOUS
        <5> QED BY <4>3, <4>4, <5>1, Zenon
      <4>6. n = 2 => (rem - n) % PacketSize = rem % PacketSize
        BY <4>2 DEF PacketSize
      <4> QED BY <4>1, <4>5, <4>6, Zenon
    <3>5. qtd[t].rem - n <= Chain(x)[i].len
      BY <1>9, <2>4
    <3> QED BY <1>2, <1>3, <1>4, <1>8, <1>9, <2>1, <2>4, <3>1, <3>2, <3>3, <3>4, <3>5 DEF StageOK
  <2> QED BY <2>3, <2>4
<1>11. OverlayOK(c)'
  <2>1. /\ qh'[hcAt].ep = c /\ qh'[hcAt].cur = (IF over THEN NoQtd ELSE t)
        /\ qh'[hcAt].next = NextQtd(c, k + 1)
        /\ qh'[hcAt].st = IF over THEN "idle" ELSE "active"
    BY <1>1, <1>2 DEF OneQh
  <2>3. CASE over
    BY <1>2, <1>3, <1>4, <1>5, <1>6, <2>1, <2>3 DEF OverlayOK, NextQtd
  <2>4. CASE ~over
    BY <1>2, <1>3, <1>4, <1>5, <1>6, <2>1, <2>4 DEF OverlayOK, NextQtd
  <2> QED BY <2>3, <2>4
<1>12. TrafficOK(c)'
  <2>1. Done(c)' <= len
    BY <1>2, <1>4, <1>6
  <2>2. wire'[c].units = IF DataStage(x) = 0 THEN 0 ELSE x.len - Remaining(c)'
    <3>1. wire[c].units = IF DataStage(x) = 0 THEN 0 ELSE x.len - Remaining(c)
      BY <1>2 DEF Progress, TrafficOK
    <3>2. CASE DataStage(x) = k + 1
      <4>1. Remaining(c) = qtd[t].rem /\ Remaining(c)' = qtd[t].rem - n
        BY <1>3, <1>7, <1>8, <3>2 DEF Remaining, StageQtd
      <4> QED BY <1>2, <1>4, <1>6, <1>9, <3>1, <3>2, <4>1
    <3>3. CASE DataStage(x) # k + 1
      <4>1. Chain(x)[k + 1].len = 0
        BY <1>2, <1>6, <3>3, ChainLengths DEF Stages
      <4>2. n = 0
        BY <1>1, <1>9, <4>1
      <4>3. DataStage(x) # 0 => Remaining(c)' = Remaining(c)
        BY <1>3, <1>6, <1>7, <3>3 DEF Remaining, Stages
      <4>4. wire[c].units \in Nat
        BY DEF Context, Memory, WireSet
      <4> QED BY <1>4, <3>1, <4>2, <4>3, <4>4
    <3> QED BY <3>2, <3>3
  <2>3. x.kind = "bulkOutVariable" /\ Done(c)' = len => wire'[c].short
    <3> SUFFICES ASSUME x.kind = "bulkOutVariable", Done(c)' = len
                 PROVE  n < 2
      BY <1>4
    <3>1. over /\ k + 1 = len
      BY <1>2, <1>4
    <3>2. Chain(x)[k + 1].dir = "out"
          /\ (Chain(x)[k + 1].len = 0 \/ Chain(x)[k + 1].len % PacketSize = 1)
      BY <1>6, <3>1, ChainLengths
    <3>3. qtd[t].rem = n
      BY <1>1, <1>9, <3>1, <3>2
    <3> QED BY <1>9, <3>2, <3>3 DEF PacketSize
  <2>4. IsBulk(c) => qh'[hcAt].dt = devToggle'[c]
    <3>1. IsBulk(c) => qh[hcAt].dt = devToggle[c]
      BY <1>2 DEF Progress, TrafficOK
    <3>2. qh'[hcAt].dt = (IF IsBulk(c) THEN ~qh[hcAt].dt ELSE qh[hcAt].dt)
      BY <1>1 DEF OneQh
    <3>3. devToggle'[c] = IF IsBulk(c) THEN ~devToggle[c] ELSE devToggle[c]
      BY <1>1 DEF Context, Memory
    <3> QED BY <3>1, <3>2, <3>3
  <2> QED BY <1>3, <1>5, <2>1, <2>2, <2>3, <2>4 DEF TrafficOK, IsBulk
<1>13. Progress(c)'
  BY <1>5, <1>10, <1>11, <1>12 DEF Progress
<1>14. /\ \A q \in Qhs \ {QhOf(c)} : qh'[q] = qh[q]
       /\ \A r \in Qtds \ SlotSet(c) : qtd'[r] = qtd[r]
       /\ \A d \in Clients \ {c} : devToggle'[d] = devToggle[d]
  BY <1>1, <1>2 DEF OneQh, OneQtd, Context, Memory
<1>15. UNCHANGED <<clientVars, poolVars>>
  BY <1>1
<1> QED BY <1>2, <1>4, <1>13, <1>14, <1>15, ForClient

\* A packet goes unanswered, or the queue halts.
LEMMA FailStep ==
    ASSUME Context, TransferInv, HcRetry \/ HcHalt
    PROVE  TransferInv'
<1>1. PICK c \in Clients, t \in Qtds :
        /\ c = qh[hcAt].ep /\ t = qh[hcAt].cur /\ qh[hcAt].st = "active"
        /\ hcAt \in Qhs /\ pc[c] \in Holding
        /\ QhOf(c) = hcAt /\ Progress(c)
        /\ ~wire[c].halted /\ Done(c) < Len(Chain(xfer[c])) /\ Done(c) \in Nat
        /\ Done(c) + 1 \in Stages(c)
        /\ t = slots[c][Done(c) + 1] /\ t \in SlotSet(c)
        /\ \A i \in Stages(c) : i # Done(c) + 1 => slots[c][i] # t
        /\ qh[hcAt].next = NextQtd(c, Done(c) + 1)
        /\ pc[c] \notin Decided
  <2>1. qh[hcAt].st = "active"
    BY DEF HcRetry, HcHalt
  <2> QED BY <2>1, Executing
<1>2. /\ UNCHANGED <<clientVars, poolVars, hcAt, devToggle>>
      /\ \/ /\ OneQtd(qtd', t, qtd[t].rem, qtd[t].st, TRUE)
            /\ qh' = qh
            /\ wire' = [wire EXCEPT ![c].retried = TRUE]
         \/ /\ OneQtd(qtd', t, qtd[t].rem, "halted", qtd[t].err)
            /\ OneQh(qh', hcAt, NoQtd, qh[hcAt].next, "halted", qh[hcAt].dt)
            /\ wire' = [wire EXCEPT ![c].halted = TRUE]
  <2>1. Memory /\ c = qh[hcAt].ep /\ t = qh[hcAt].cur /\ hcAt \in Qhs /\ pc[c] \in Holding
    BY <1>1 DEF Context
  <2>2. CASE HcRetry
    BY <2>1, <2>2, FailedQtd, Zenon DEF HcRetry, OnWire, hcVars
  <2>3. CASE HcHalt
    BY <2>1, <2>3, FailedQtd, HaltedQh, Zenon DEF HcHalt, OnWire, hcVars
  <2> QED BY <2>2, <2>3
<1>3. UNCHANGED <<pc, xfer, pipe, slots, hcAt, devToggle>>
  BY <1>2 DEF clientVars, poolVars
<1>4. /\ wire'[c].done = wire[c].done /\ wire'[c].units = wire[c].units
      /\ wire'[c].short = wire[c].short
      /\ wire[c].retried => wire'[c].retried
      /\ \A d \in Clients \ {c} : wire'[d] = wire[d]
  <2>1. \/ wire' = [wire EXCEPT ![c].retried = TRUE]
        \/ wire' = [wire EXCEPT ![c].halted = TRUE]
    BY <1>2, Zenon
  <2>2. wire \in [Clients -> WireSet]
    BY Zenon DEF Context, Memory
  <2>3. CASE wire' = [wire EXCEPT ![c].retried = TRUE]
    BY <2>2, <2>3 DEF WireSet
  <2>4. CASE wire' = [wire EXCEPT ![c].halted = TRUE]
    BY <2>2, <2>4 DEF WireSet
  <2> QED BY <2>1, <2>3, <2>4, Zenon
<1>5. /\ Done(c)' = Done(c) /\ Stages(c)' = Stages(c) /\ QhOf(c)' = hcAt
      /\ \A i \in Stages(c) : NextQtd(c, i)' = NextQtd(c, i)
  BY <1>1, <1>3, <1>4 DEF Done, Stages, QhOf, NextQtd
<1>6. \A i \in Stages(c) : slots[c][i] \in Qtds
  BY <1>1, HolderTypes
<1>7. /\ \A u \in Qtds \ {t} : qtd'[u] = qtd[u]
      /\ qtd'[t].dir = qtd[t].dir /\ qtd'[t].next = qtd[t].next /\ qtd'[t].rem = qtd[t].rem
  BY <1>2, Zenon DEF OneQtd
<1>8. qtd[t].st = "active"
  <2>1. Done(c) + 1 \in Stages(c) /\ Done(c) \in Nat /\ ~wire[c].halted
        /\ t = slots[c][Done(c) + 1]
    BY <1>1
  <2>2. StageOK(c, Done(c) + 1)
    BY <1>1, <2>1, Zenon DEF Progress
  <2>3. Done(c) + 1 > Done(c)
    BY <2>1
  <2> QED BY <2>1, <2>2, <2>3, Zenon DEF StageOK, StageQtd
<1>9. \A i \in Stages(c) : i # Done(c) + 1 => StageQtd(c, i)' = StageQtd(c, i)
  BY <1>1, <1>3, <1>6, <1>7 DEF StageQtd
<1>10. StageQtd(c, Done(c) + 1) = qtd[t] /\ qtd'[slots'[c][Done(c) + 1]] = qtd'[t]
  BY <1>1, <1>3 DEF StageQtd
<1>11. \/ /\ wire'[c].retried /\ ~wire'[c].halted /\ qh' = qh /\ qtd'[t].st = "active"
       \/ /\ wire'[c].halted /\ qtd'[t].st = "halted" /\ qtd'[t].err = qtd[t].err
          /\ qh'[hcAt].ep = c /\ qh'[hcAt].cur = NoQtd /\ qh'[hcAt].next = qh[hcAt].next
          /\ qh'[hcAt].st = "halted" /\ qh'[hcAt].dt = qh[hcAt].dt
  <2>1. wire[c] \in WireSet
    BY DEF Context, Memory
  <2>2. CASE wire' = [wire EXCEPT ![c].retried = TRUE] /\ qh' = qh
             /\ OneQtd(qtd', t, qtd[t].rem, qtd[t].st, TRUE)
    <3>1. wire'[c].retried /\ ~wire'[c].halted
      BY <1>1, <2>1, <2>2 DEF Context, Memory, WireSet
    <3> QED BY <1>8, <2>2, <3>1 DEF OneQtd
  <2>3. CASE /\ wire' = [wire EXCEPT ![c].halted = TRUE]
             /\ OneQtd(qtd', t, qtd[t].rem, "halted", qtd[t].err)
             /\ OneQh(qh', hcAt, NoQtd, qh[hcAt].next, "halted", qh[hcAt].dt)
    <3>1. wire'[c].halted
      BY <2>1, <2>3 DEF Context, Memory, WireSet
    <3> QED BY <1>1, <2>3, <3>1 DEF OneQtd, OneQh
  <2> QED BY <1>2, <2>2, <2>3
<1>12. \A i \in Stages(c) : StageOK(c, i)'
  <2> SUFFICES ASSUME NEW i \in Stages(c)
               PROVE  StageOK(c, i)'
    OBVIOUS
  <2>1. StageOK(c, i) /\ i \in Nat
    BY <1>1 DEF Progress, Stages
  <2>2. CASE i # Done(c) + 1
    <3>1. StageQtd(c, i)' = StageQtd(c, i)
      BY <1>9, <2>2
    <3> QED BY <1>1, <1>3, <1>4, <1>5, <2>1, <2>2, <3>1 DEF StageOK
  <2>3. CASE i = Done(c) + 1
    <3>1. StageQtd(c, i) = qtd[t] /\ StageQtd(c, i)' = qtd'[t]
      BY <1>10, <2>3 DEF StageQtd
    <3>2. i > Done(c) /\ ~(i <= Done(c)) /\ i = Done(c)' + 1 /\ ~(i <= Done(c)') /\ i > Done(c)'
      BY <1>1, <1>5, <2>3
    <3>3. NextQtd(c, i)' = NextQtd(c, i)
      BY <1>5
    <3>4. /\ qtd[t].dir = Chain(xfer[c])[i].dir /\ qtd[t].next = NextQtd(c, i)
          /\ qtd[t].rem <= Chain(xfer[c])[i].len
          /\ qtd[t].err => wire[c].retried
          /\ qtd[t].rem % PacketSize = Chain(xfer[c])[i].len % PacketSize
      BY <2>1, <3>1, <3>2 DEF StageOK
    <3>5. /\ qtd'[t].err => wire'[c].retried
          /\ qtd'[t].st = IF wire'[c].halted THEN "halted" ELSE "active"
      BY <1>4, <1>11, <3>4
    <3>6. /\ StageQtd(c, i)'.dir = Chain(xfer'[c])[i].dir
          /\ StageQtd(c, i)'.next = NextQtd(c, i)'
          /\ StageQtd(c, i)'.rem = qtd[t].rem /\ xfer'[c] = xfer[c]
      BY <1>3, <1>7, <3>1, <3>3, <3>4
    <3>7. /\ StageQtd(c, i)'.err => wire'[c].retried
          /\ StageQtd(c, i)'.st = IF wire'[c].halted THEN "halted" ELSE "active"
      BY <3>1, <3>5
    <3> QED BY <3>2, <3>4, <3>6, <3>7 DEF StageOK
  <2> QED BY <2>2, <2>3
<1>13. OverlayOK(c)'
  BY <1>1, <1>3, <1>5, <1>11 DEF Progress, OverlayOK
<1>14. TrafficOK(c)'
  <2>1. DataStage(xfer[c]) # 0 => Remaining(c)' = Remaining(c)
    <3>1. DataStage(xfer[c]) # 0 => DataStage(xfer[c]) \in Stages(c)
      BY <1>1, HolderTypes DEF Stages
    <3>2. CASE DataStage(xfer[c]) = Done(c) + 1
      <4>1. t = slots[c][DataStage(xfer[c])]
        BY <1>1, <3>2
      <4>2. Remaining(c) = qtd[t].rem /\ Remaining(c)' = qtd'[t].rem
        BY <1>3, <4>1 DEF Remaining, StageQtd
      <4> QED BY <1>7, <4>2
    <3>3. CASE DataStage(xfer[c]) # Done(c) + 1
      BY <1>3, <1>9, <3>1, <3>3 DEF Remaining
    <3> QED BY <3>2, <3>3
  <2>2. qh'[hcAt].dt = qh[hcAt].dt
    BY <1>11
  <2> QED BY <1>1, <1>3, <1>4, <1>5, <2>1, <2>2 DEF Progress, TrafficOK, IsBulk
<1>15. Progress(c)'
  BY <1>5, <1>12, <1>13, <1>14 DEF Progress
<1>16. /\ \A q \in Qhs \ {QhOf(c)} : qh'[q] = qh[q]
       /\ \A r \in Qtds \ SlotSet(c) : qtd'[r] = qtd[r]
       /\ \A d \in Clients \ {c} : devToggle'[d] = devToggle[d]
  BY <1>1, <1>2 DEF OneQh, OneQtd
<1>17. UNCHANGED <<clientVars, poolVars>>
  BY <1>2
<1> QED BY <1>1, <1>4, <1>15, <1>16, <1>17, ForClient

-----------------------------------------------------------------------------
(* The clients *)

\* A step of client c that leaves its QH, its qTDs and the bus alone.
LEMMA InPlace ==
    ASSUME Context, TransferInv, NEW c \in Clients, NEW l \in Holding,
           pc[c] \in Holding, pc' = [pc EXCEPT ![c] = l],
           UNCHANGED <<xfer, toggle, poolVars, qh, qtd, wire, devToggle>>,
           \A d \in Clients \ {c} : outcome'[d] = outcome[d],
           l \in Decided => OverOK(c) /\ OutcomeOK(c)'
    PROVE  TransferInv'
<1>1. UNCHANGED <<xfer, toggle, pipe, slots, qh, qtd, wire, devToggle>>
  BY DEF poolVars
<1>2. /\ pc'[c] = l /\ \A d \in Clients \ {c} : pc'[d] = pc[d]
      /\ \A d \in Clients : pc'[d] \in Holding <=> pc[d] \in Holding
  BY DEF Context, Books
<1>3. \A d \in Clients : pc'[d] \in Holding => Progress(d)'
  <2> SUFFICES ASSUME NEW d \in Clients, pc[d] \in Holding
               PROVE  Progress(d)'
    BY <1>2
  <2>1. Progress(d) /\ (DataStage(xfer[d]) # 0 => DataStage(xfer[d]) \in Stages(d))
    BY HolderTypes DEF TransferInv, Stages
  <2> QED BY <1>1, <2>1, ProgressFrame
<1>4. \A d \in Clients : pc'[d] \in Decided => OverOK(d)'
  BY <1>1, <1>2 DEF TransferInv, OverOK, Done
<1>5. \A d \in Clients : pc'[d] \in Decided \cup {"returned"} => OutcomeOK(d)'
  <2>1. l # "returned"
    BY ControlStates
  <2> QED BY <1>1, <1>2, <2>1 DEF TransferInv, OutcomeOK, Done
<1>6. \A q \in Qhs : OwnedOK(q)'
  <2>1. \A q \in Qhs : Busied(q) => qh[q].ep \in Clients
    BY DEF Busied, Context, Memory, QhOK
  <2> QED BY <1>1, <1>2, <2>1 DEF TransferInv, OwnedOK, Busied, QhOf
<1>7. ToggleInSync'
  <2>1. \A d \in Clients : pc'[d] \in Resting <=> pc[d] \in Resting
    BY <1>2, ControlStates
  <2> QED BY <1>1, <2>1 DEF TransferInv, ToggleInSync, Clients
<1> QED BY <1>3, <1>4, <1>5, <1>6, <1>7 DEF TransferInv

\* A chain that is over has not halted, and its byte count is what went over the bus.
LEMMA ChainOver ==
    ASSUME Context, NEW c \in Clients, pc[c] \in Holding, Progress(c),
           Done(c) = Len(Chain(xfer[c]))
    PROVE  /\ ~wire[c].halted
           /\ ByteCount(c) = wire[c].units
           /\ xfer[c].kind = "bulkOutVariable" => wire[c].short
           /\ ~Busied(QhOf(c))
<1>1. /\ qh[QhOf(c)] \in QhSet /\ xfer[c] \in TransfersOf(c) /\ xfer[c].len \in Nat
      /\ DataStage(xfer[c]) \in 0 .. Len(Chain(xfer[c])) /\ Len(Chain(xfer[c])) \in 1 .. 3
      /\ \A i \in Stages(c) : StageQtd(c, i) \in QtdSet
  BY HolderTypes
<1>2. qh[QhOf(c)].st = "idle"
  BY <1>1 DEF Progress, OverlayOK, QhSet
<1>3. ~wire[c].halted /\ ~Busied(QhOf(c))
  BY <1>2 DEF Progress, OverlayOK, Busied
<1>4. wire[c].units = IF DataStage(xfer[c]) = 0 THEN 0 ELSE xfer[c].len - Remaining(c)
  BY DEF Progress, TrafficOK
<1>5. xfer[c].kind \in {"controlNone", "controlIn", "controlOut",
                        "bulkIn", "bulkOutFixed", "bulkOutVariable"}
      /\ (DataStage(xfer[c]) = 0 <=> xfer[c].kind = "controlNone")
  BY <1>1, TransferKinds, ChainShape
<1>6. CASE xfer[c].kind = "controlNone"
  BY <1>3, <1>4, <1>5, <1>6 DEF ByteCount
<1>7. CASE xfer[c].kind \in {"controlIn", "bulkIn"}
  BY <1>3, <1>4, <1>5, <1>7 DEF ByteCount
<1>8. CASE xfer[c].kind \in {"controlOut", "bulkOutFixed", "bulkOutVariable"}
  <2> DEFINE i == DataStage(xfer[c])
  <2>1. i \in Stages(c) /\ i <= Done(c) /\ i # 0
    BY <1>1, <1>5, <1>8 DEF Stages
  <2>2. Chain(xfer[c])[i].dir = "out"
    BY <1>1, <1>8, ChainLengths
  <2>3. StageQtd(c, i).rem = 0
    BY <2>1, <2>2 DEF Progress, StageOK
  <2>4. wire[c].units = xfer[c].len
    BY <1>1, <1>4, <2>1, <2>3 DEF Remaining
  <2>5. ByteCount(c) = xfer[c].len
    BY <1>8 DEF ByteCount
  <2> QED BY <1>3, <1>8, <2>4, <2>5 DEF Progress, TrafficOK
<1> QED BY <1>5, <1>6, <1>7, <1>8

\* A stage that went wrong shows in what the bus recorded.
LEMMA ErrorSeen ==
    ASSUME Context, NEW c \in Clients, pc[c] \in Holding, Progress(c), NEW i \in Stages(c),
           HasError(StageQtd(c, i))
    PROVE  wire[c].halted \/ wire[c].retried
<1>1. StageOK(c, i) /\ i \in Nat /\ Done(c) \in Nat
  BY DoneRange DEF Progress, Stages
<1> QED BY <1>1 DEF StageOK, HasError

\* A last stage that is not Active any more ends the transfer.
LEMMA LastOver ==
    ASSUME Context, NEW c \in Clients, pc[c] \in Holding, Progress(c),
           StatusQtd(c).st # "active"
    PROVE  /\ OverOK(c)
           /\ ~HasError(StatusQtd(c)) => Done(c) = Len(Chain(xfer[c]))
<1> DEFINE n == Len(Chain(xfer[c]))
<1>1. n \in 1 .. 3 /\ n \in Stages(c) /\ Done(c) \in 0 .. n /\ StatusQtd(c) = StageQtd(c, n)
  <2>1. n \in 1 .. 3 /\ Done(c) \in 0 .. n
    BY DoneRange, Zenon
  <2>2. PICK last \in 1 .. 3 : last = n
    BY <2>1, Zenon
  <2>3. last \in 1 .. last
    OBVIOUS
  <2> QED BY <2>1, <2>2, <2>3, Zenon DEF Stages, StatusQtd
<1>2. StageOK(c, n)
  BY <1>1 DEF Progress
<1>3. n > Done(c) => wire[c].halted /\ StatusQtd(c).st = "halted"
  BY <1>1, <1>2 DEF StageOK
<1> QED BY <1>1, <1>3 DEF OverOK, HasError

LEMMA PollStatusStep ==
    ASSUME Context, TransferInv, NEW c \in Clients, PollStatus(c)
    PROVE  TransferInv'
<1>1. /\ pc[c] = "status" /\ pc[c] \in Holding /\ Progress(c)
      /\ UNCHANGED <<xfer, toggle, poolVars, qh, qtd, wire, devToggle>>
  BY ControlStates DEF PollStatus, TransferInv, memVars, busVars
<1>2. CASE pc' = [pc EXCEPT ![c] = "overlay"] /\ UNCHANGED outcome
  <2>1. "overlay" \in Holding /\ ("overlay" \in Decided => OverOK(c) /\ OutcomeOK(c)')
    BY ControlStates DEF Decided
  <2>2. \A d \in Clients \ {c} : outcome'[d] = outcome[d]
    BY <1>2
  <2> QED BY <1>1, <1>2, <2>1, <2>2, InPlace, Zenon
<1>3. CASE /\ StatusQtd(c).st # "active"
           /\ pc' = [pc EXCEPT ![c] = "unlink"]
           /\ outcome' = [outcome EXCEPT ![c] =
                IF \/ HasError(StatusQtd(c))
                   \/ \E i \in CheckedStages(xfer[c]) : HasError(StageQtd(c, i))
                THEN Failed
                ELSE Ok(IF IsControl(xfer[c]) THEN 0 ELSE ByteCount(c))]
  <2>1. OverOK(c) /\ (~HasError(StatusQtd(c)) => Done(c) = Len(Chain(xfer[c])))
    BY <1>1, <1>3, LastOver
  <2>2. /\ CheckedStages(xfer[c]) \subseteq Stages(c) /\ Len(Chain(xfer[c])) \in Stages(c)
    <3>1. xfer[c] \in TransfersOf(c) /\ Len(Chain(xfer[c])) \in 1 .. 3
      BY <1>1, HolderTypes
    <3>2. CheckedStages(xfer[c]) \subseteq 1 .. Len(Chain(xfer[c]))
      BY <3>1, ChainShape
    <3>3. PICK n \in 1 .. 3 : n = Len(Chain(xfer[c]))
      BY <3>1, Zenon
    <3>4. n \in 1 .. n
      OBVIOUS
    <3> QED BY <3>2, <3>3, <3>4, Zenon DEF Stages
  <2>3. /\ wire' = wire /\ xfer' = xfer /\ Done(c)' = Done(c) /\ pc'[c] = "unlink"
        /\ outcome \in [Clients -> OutcomeSet]
    BY <1>1, <1>3 DEF Done, Context, Books, Memory
  <2>4. "unlink" \in Holding /\ \A d \in Clients \ {c} : outcome'[d] = outcome[d]
    BY <1>3, <2>3, ControlStates
  <2>5. CASE \/ HasError(StatusQtd(c))
             \/ \E i \in CheckedStages(xfer[c]) : HasError(StageQtd(c, i))
    <3>1. outcome'[c] = Failed
      BY <1>3, <2>3, <2>5
    <3>2. wire[c].halted \/ wire[c].retried
      BY <1>1, <2>2, <2>5, ErrorSeen DEF StatusQtd
    <3>3. OutcomeOK(c)'
      BY <2>3, <3>1, <3>2 DEF OutcomeOK, Failed
    <3> QED BY <1>1, <1>3, <2>1, <2>4, <3>3, InPlace, Zenon
  <2>6. CASE ~(\/ HasError(StatusQtd(c))
               \/ \E i \in CheckedStages(xfer[c]) : HasError(StageQtd(c, i)))
    <3>1. outcome'[c] = Ok(IF IsControl(xfer[c]) THEN 0 ELSE ByteCount(c))
      BY <1>3, <2>3, <2>6
    <3>2. Done(c) = Len(Chain(xfer[c]))
      BY <2>1, <2>6
    <3>3. /\ ~wire[c].halted /\ ByteCount(c) = wire[c].units
          /\ xfer[c].kind = "bulkOutVariable" => wire[c].short
      BY <1>1, <3>2, ChainOver
    <3>4. OutcomeOK(c)'
      BY <2>3, <3>1, <3>2, <3>3 DEF OutcomeOK, Ok
    <3> QED BY <1>1, <1>3, <2>1, <2>4, <3>4, InPlace, Zenon
  <2> QED BY <2>5, <2>6
<1> QED BY <1>2, <1>3 DEF PollStatus, Goto

LEMMA PollOverlayStep ==
    ASSUME Context, TransferInv, NEW c \in Clients, PollOverlay(c)
    PROVE  TransferInv'
<1>1. /\ pc[c] = "overlay" /\ pc[c] \in Holding /\ Progress(c)
      /\ UNCHANGED <<xfer, toggle, poolVars, qh, qtd, wire, devToggle>>
  BY ControlStates DEF PollOverlay, TransferInv, memVars, busVars
<1>2. CASE ~HaltSeen(c)
  <2>1. /\ pc' = [pc EXCEPT ![c] = "status"] /\ outcome' = outcome
        /\ "status" \in Holding
        /\ "status" \in Decided => OverOK(c) /\ OutcomeOK(c)'
    BY <1>2, ControlStates DEF PollOverlay, Goto, Decided
  <2>2. \A d \in Clients \ {c} : outcome'[d] = outcome[d]
    BY <2>1
  <2> QED BY <1>1, <2>1, <2>2, InPlace, Zenon
<1>3. CASE HaltSeen(c)
  <2>1. /\ pc' = [pc EXCEPT ![c] = "unlink"] /\ "unlink" \in Holding
        /\ outcome' = [outcome EXCEPT ![c] = Failed]
    BY <1>3, ControlStates DEF PollOverlay, Goto
  <2>2. wire[c].halted
    <3>1. CASE qh[QhOf(c)].st = "halted"
      BY <1>1, <3>1 DEF Progress, OverlayOK
    <3>2. CASE CheckedHalted(c)
      <4>1. xfer[c] \in TransfersOf(c)
        BY <1>1, HolderTypes
      <4>2. PICK i \in Stages(c) : StageQtd(c, i).st = "halted"
        BY <3>2, <4>1, ChainShape DEF CheckedHalted, Stages
      <4>3. StageOK(c, i) /\ i \in Nat /\ Done(c) \in Nat
        BY <1>1, DoneRange DEF Progress, Stages
      <4> QED BY <4>2, <4>3 DEF StageOK
    <3> QED BY <1>3, <3>1, <3>2 DEF HaltSeen
  <2>3. outcome'[c] = Failed /\ wire' = wire /\ \A d \in Clients \ {c} : outcome'[d] = outcome[d]
    BY <1>1, <2>1 DEF Context, Memory
  <2>4. OverOK(c) /\ OutcomeOK(c)'
    BY <2>2, <2>3 DEF OverOK, OutcomeOK, Failed
  <2> QED BY <1>1, <2>1, <2>3, <2>4, InPlace, Zenon
<1> QED BY <1>2, <1>3

\* The writes to the list and to the registers.
LEMMA RegisterStep ==
    ASSUME Context, TransferInv, NEW c \in Clients,
           \/ LinkQh(c) \/ Publish(c) \/ Unlink(c)
           \/ Ring(c) \/ PollAdvance(c) \/ ClearAai(c)
    PROVE  TransferInv'
<1>1. /\ pc[c] \in Holding /\ outcome' = outcome
      /\ UNCHANGED <<xfer, toggle, poolVars, qh, qtd, wire, devToggle>>
  BY ControlStates
     DEF LinkQh, Publish, Unlink, Ring, PollAdvance, ClearAai, memVars, busVars
<1>2. PICK l \in Holding :
        pc' = [pc EXCEPT ![c] = l] /\ (l \in Decided => pc[c] \in Decided)
  <2>1. CASE LinkQh(c) \/ Publish(c)
    BY <2>1, ControlStates DEF LinkQh, Publish, Goto, Decided
  <2>2. CASE Unlink(c) \/ Ring(c) \/ ClearAai(c)
    BY <2>2, ControlStates DEF Unlink, Ring, ClearAai, Goto, Decided
  <2>3. CASE PollAdvance(c)
    <3>1. pc[c] = "advance" /\ (pc' = [pc EXCEPT ![c] = "clear"] \/ pc' = pc)
      BY <2>3 DEF PollAdvance, Goto
    <3>2. pc' = pc => pc' = [pc EXCEPT ![c] = "advance"]
      BY <3>1 DEF Context, Books
    <3> QED BY <3>1, <3>2, ControlStates DEF Decided
  <2> QED BY <2>1, <2>2, <2>3
<1>3. l # "returned" /\ pc[c] # "returned" /\ pc'[c] = l
  BY <1>1, <1>2, ControlStates DEF Context, Books
<1>4. l \in Decided => OverOK(c) /\ OutcomeOK(c)'
  BY <1>1, <1>2, <1>3 DEF TransferInv, OutcomeOK, Done
<1>5. \A d \in Clients \ {c} : outcome'[d] = outcome[d]
  BY <1>1
<1> QED BY <1>1, <1>2, <1>4, <1>5, InPlace, Zenon

\* A step of client c that touches no QH, no qTD and no record of another client.
LEMMA OthersKeep ==
    ASSUME Context, TransferInv, NEW c \in Clients, NEW l,
           pc' = [pc EXCEPT ![c] = l],
           \A d \in Clients \ {c} :
              /\ xfer'[d] = xfer[d] /\ pipe'[d] = pipe[d] /\ slots'[d] = slots[d]
              /\ outcome'[d] = outcome[d] /\ toggle'[d] = toggle[d]
              /\ wire'[d] = wire[d] /\ devToggle'[d] = devToggle[d],
           \A d \in Clients \ {c} : pc[d] \in Holding =>
              /\ qh'[QhOf(d)] = qh[QhOf(d)]
              /\ \A i \in Stages(d) : qtd'[slots[d][i]] = qtd[slots[d][i]]
    PROVE  \A d \in Clients \ {c} :
              /\ pc'[d] \in Holding => Progress(d)'
              /\ pc'[d] \in Decided => OverOK(d)'
              /\ pc'[d] \in Decided \cup {"returned"} => OutcomeOK(d)'
              /\ d \in InClients \cup OutClients /\ pc'[d] \in Resting =>
                    toggle'[d] = devToggle'[d]
<1> SUFFICES ASSUME NEW d \in Clients \ {c}
             PROVE  /\ pc'[d] \in Holding => Progress(d)'
                    /\ pc'[d] \in Decided => OverOK(d)'
                    /\ pc'[d] \in Decided \cup {"returned"} => OutcomeOK(d)'
                    /\ d \in InClients \cup OutClients /\ pc'[d] \in Resting =>
                          toggle'[d] = devToggle'[d]
  OBVIOUS
<1>1. pc'[d] = pc[d]
  BY DEF Context, Books
<1>2. ASSUME pc[d] \in Holding
      PROVE  Progress(d)'
  <2>1. Progress(d) /\ (DataStage(xfer[d]) # 0 => DataStage(xfer[d]) \in Stages(d))
    BY <1>2, HolderTypes DEF TransferInv, Stages
  <2> QED BY <1>2, <2>1, ProgressFrame
<1>3. pc'[d] \in Decided => OverOK(d)'
  BY <1>1 DEF TransferInv, OverOK, Done
<1>4. pc'[d] \in Decided \cup {"returned"} => OutcomeOK(d)'
  BY <1>1 DEF TransferInv, OutcomeOK, Done
<1>5. d \in InClients \cup OutClients /\ pc'[d] \in Resting => toggle'[d] = devToggle'[d]
  BY <1>1 DEF TransferInv, ToggleInSync
<1> QED BY <1>1, <1>2, <1>3, <1>4, <1>5

\* A QH that keeps its contents and is not client c's has the same owner.
LEMMA OwnerKept ==
    ASSUME Context, TransferInv, NEW c \in Clients, NEW l,
           pc' = [pc EXCEPT ![c] = l],
           \A d \in Clients \ {c} : pipe'[d] = pipe[d],
           NEW q \in Qhs, qh'[q] = qh[q],
           pc[c] \in Holding => q # QhOf(c) \/ ~Busied(q)
    PROVE  OwnedOK(q)'
<1> SUFFICES ASSUME Busied(q)
             PROVE  OwnedOK(q)'
  BY DEF OwnedOK, Busied
<1>1. /\ qh[q].ep \in Clients /\ pc[qh[q].ep] \in Holding /\ QhOf(qh[q].ep) = q
  BY DEF Busied, Context, Memory, QhOK, TransferInv, OwnedOK
<1>2. qh[q].ep # c
  BY <1>1
<1>3. pc'[qh[q].ep] = pc[qh[q].ep] /\ pipe'[qh[q].ep] = pipe[qh[q].ep]
  BY <1>1, <1>2 DEF Context, Books
<1> QED BY <1>1, <1>3 DEF OwnedOK, QhOf

\* Control clients are not bulk clients.
LEMMA BulkClients ==
    ASSUME NEW c \in Clients, NEW x \in TransfersOf(c)
    PROVE  /\ IsBulk(c) <=> c \in InClients \cup OutClients
           /\ IsBulk(c) <=> ~IsControl(x)
BY TransferKinds, ClientsAssumption DEF IsBulk, Clients

\* The three ends of a call: the guards drop, the caller takes the result, and a
\* pipe whose qTDs ran out is given back.
LEMMA FinishStep ==
    ASSUME Context, TransferInv, NEW c \in Clients, Finish(c)
    PROVE  TransferInv'
<1>1. /\ pc[c] = "finish" /\ pc[c] \in Holding /\ pc[c] \in Decided
      /\ Progress(c) /\ OverOK(c) /\ OutcomeOK(c)
      /\ pc' = [pc EXCEPT ![c] = "returned"]
      /\ UNCHANGED <<xfer, qh, wire, devToggle>>
  BY ControlStates DEF Finish, Goto, TransferInv, Decided, busVars
<1>2. /\ outcome' = [outcome EXCEPT ![c] =
              IF IsControl(xfer[c]) /\ outcome[c].tag = "ok" THEN Ok(ByteCount(c)) ELSE @]
      /\ toggle' = [toggle EXCEPT ![c] = IF IsControl(xfer[c]) THEN @ ELSE qh[QhOf(c)].dt]
      /\ qtd' = [t \in Qtds |-> IF t \in SlotSet(c) THEN FreeQtd ELSE qtd[t]]
      /\ slots' = [slots EXCEPT ![c] = EmptySlots]
      /\ pipe' = [pipe EXCEPT ![c] = Pools!NoPipe]
  BY <1>1 DEF Finish, DropGuards
<1>3. \A d \in Clients \ {c} :
         /\ xfer'[d] = xfer[d] /\ pipe'[d] = pipe[d] /\ slots'[d] = slots[d]
         /\ outcome'[d] = outcome[d] /\ toggle'[d] = toggle[d]
         /\ wire'[d] = wire[d] /\ devToggle'[d] = devToggle[d]
  BY <1>1, <1>2 DEF Context, Books, Memory
<1>4. \A d \in Clients \ {c} : pc[d] \in Holding =>
         /\ qh'[QhOf(d)] = qh[QhOf(d)]
         /\ \A i \in Stages(d) : qtd'[slots[d][i]] = qtd[slots[d][i]]
  BY <1>1, <1>2, HolderTypes, HoldersApart
<1>5. \A d \in Clients \ {c} :
         /\ pc'[d] \in Holding => Progress(d)'
         /\ pc'[d] \in Decided => OverOK(d)'
         /\ pc'[d] \in Decided \cup {"returned"} => OutcomeOK(d)'
         /\ d \in InClients \cup OutClients /\ pc'[d] \in Resting => toggle'[d] = devToggle'[d]
  BY <1>1, <1>3, <1>4, OthersKeep, Zenon
<1>6. pc'[c] = "returned" /\ pc'[c] \notin Holding /\ pc'[c] \notin Decided
  BY <1>1, ControlStates DEF Context, Books, Decided
<1>7. OutcomeOK(c)'
  <2>1. xfer' = xfer /\ wire' = wire /\ Done(c)' = Done(c) /\ outcome[c] \in OutcomeSet
    BY <1>1 DEF Done, Context, Memory
  <2>2. outcome'[c] = IF IsControl(xfer[c]) /\ outcome[c].tag = "ok" THEN Ok(ByteCount(c))
                                                                 ELSE outcome[c]
    BY <1>2 DEF Context, Memory
  <2>3. CASE IsControl(xfer[c]) /\ outcome[c].tag = "ok"
    <3>1. Done(c) = Len(Chain(xfer[c])) /\ ~wire[c].halted
      BY <1>1, <2>3 DEF OutcomeOK
    <3>2. ByteCount(c) = wire[c].units /\ (xfer[c].kind = "bulkOutVariable" => wire[c].short)
      BY <1>1, <3>1, ChainOver
    <3>3. outcome'[c].tag = "ok" /\ outcome'[c].n = ByteCount(c)
      BY <2>2, <2>3 DEF Ok
    <3> QED BY <2>1, <3>1, <3>2, <3>3 DEF OutcomeOK
  <2>4. CASE ~(IsControl(xfer[c]) /\ outcome[c].tag = "ok")
    <3>1. outcome'[c] = outcome[c]
      BY <2>2, <2>4
    <3>2. pc[c] # "returned" /\ pc'[c] = "returned"
      BY <1>1, <1>6
    <3> QED BY <1>1, <2>1, <2>4, <3>1, <3>2 DEF OutcomeOK
  <2> QED BY <2>3, <2>4
<1>8. \A q \in Qhs : OwnedOK(q)'
  <2>1. ~Busied(QhOf(c))
    <3>1. CASE Done(c) = Len(Chain(xfer[c]))
      BY <1>1, <3>1, ChainOver
    <3>2. CASE wire[c].halted
      BY <1>1, <3>2, HolderTypes DEF Progress, OverlayOK, Busied, QhSet
    <3> QED BY <1>1, <3>1, <3>2 DEF OverOK
  <2> QED BY <1>1, <1>3, <2>1, OwnerKept
<1>9. ToggleInSync'
  <2>1. c \in InClients \cup OutClients => toggle'[c] = devToggle'[c]
    <3>1. xfer[c] \in TransfersOf(c)
      BY <1>1, HolderTypes
    <3>2. IsBulk(c) => toggle'[c] = qh[QhOf(c)].dt
      BY <1>2, <3>1, BulkClients DEF Context, Memory
    <3>3. IsBulk(c) => qh[QhOf(c)].dt = devToggle[c]
      BY <1>1 DEF Progress, TrafficOK
    <3> QED BY <1>1, <3>1, <3>2, <3>3, BulkClients
  <2> QED BY <1>5, <2>1 DEF ToggleInSync, Clients
<1> QED BY <1>5, <1>6, <1>7, <1>8, <1>9 DEF TransferInv

LEMMA ReturnStep ==
    ASSUME Context, TransferInv, NEW c \in Clients, Return(c)
    PROVE  TransferInv'
<1>1. /\ pc[c] = "returned" /\ pc[c] \notin Holding
      /\ pc' = [pc EXCEPT ![c] = "idle"]
      /\ UNCHANGED <<toggle, pipe, slots, qh, qtd, devToggle>>
      /\ xfer' = [xfer EXCEPT ![c] = NoTransfer]
      /\ outcome' = [outcome EXCEPT ![c] = NoOutcome]
      /\ wire' = [wire EXCEPT ![c] = NoWire]
  BY ControlStates DEF Return, Goto, poolVars, memVars
<1>2. \A d \in Clients \ {c} :
         /\ xfer'[d] = xfer[d] /\ pipe'[d] = pipe[d] /\ slots'[d] = slots[d]
         /\ outcome'[d] = outcome[d] /\ toggle'[d] = toggle[d]
         /\ wire'[d] = wire[d] /\ devToggle'[d] = devToggle[d]
  BY <1>1 DEF Context, Books, Memory
<1>3. \A d \in Clients \ {c} : pc[d] \in Holding =>
         /\ qh'[QhOf(d)] = qh[QhOf(d)]
         /\ \A i \in Stages(d) : qtd'[slots[d][i]] = qtd[slots[d][i]]
  BY <1>1
<1>4. \A d \in Clients \ {c} :
         /\ pc'[d] \in Holding => Progress(d)'
         /\ pc'[d] \in Decided => OverOK(d)'
         /\ pc'[d] \in Decided \cup {"returned"} => OutcomeOK(d)'
         /\ d \in InClients \cup OutClients /\ pc'[d] \in Resting => toggle'[d] = devToggle'[d]
  BY <1>1, <1>2, <1>3, OthersKeep, Zenon
<1>5. pc'[c] = "idle" /\ pc'[c] \notin Holding /\ pc'[c] \notin Decided
  BY <1>1, ControlStates DEF Context, Books, Decided
<1>6. \A q \in Qhs : OwnedOK(q)'
  BY <1>1, <1>2, OwnerKept
<1>7. ToggleInSync'
  <2>1. c \in InClients \cup OutClients => toggle'[c] = devToggle'[c]
    BY <1>1, ControlStates DEF TransferInv, ToggleInSync
  <2> QED BY <1>4, <2>1 DEF ToggleInSync, Clients
<1> QED BY <1>4, <1>5, <1>6, <1>7 DEF TransferInv

LEMMA CallStep ==
    ASSUME Context, TransferInv, NEW c \in Clients, NEW x \in TransfersOf(c), Call(c, x)
    PROVE  TransferInv'
<1>1. /\ pc[c] = "idle" /\ pc[c] \notin Holding
      /\ pc' = [pc EXCEPT ![c] = "pipe"]
      /\ UNCHANGED <<outcome, toggle, pipe, slots, qh, qtd, wire, devToggle>>
      /\ xfer' = [xfer EXCEPT ![c] = x]
  BY ControlStates DEF Call, Goto, poolVars, memVars, busVars
<1>2. \A d \in Clients \ {c} :
         /\ xfer'[d] = xfer[d] /\ pipe'[d] = pipe[d] /\ slots'[d] = slots[d]
         /\ outcome'[d] = outcome[d] /\ toggle'[d] = toggle[d]
         /\ wire'[d] = wire[d] /\ devToggle'[d] = devToggle[d]
  BY <1>1 DEF Context, Books
<1>3. \A d \in Clients \ {c} : pc[d] \in Holding =>
         /\ qh'[QhOf(d)] = qh[QhOf(d)]
         /\ \A i \in Stages(d) : qtd'[slots[d][i]] = qtd[slots[d][i]]
  BY <1>1
<1>4. \A d \in Clients \ {c} :
         /\ pc'[d] \in Holding => Progress(d)'
         /\ pc'[d] \in Decided => OverOK(d)'
         /\ pc'[d] \in Decided \cup {"returned"} => OutcomeOK(d)'
         /\ d \in InClients \cup OutClients /\ pc'[d] \in Resting => toggle'[d] = devToggle'[d]
  BY <1>1, <1>2, <1>3, OthersKeep, Zenon
<1>5. pc'[c] = "pipe" /\ pc'[c] \notin Holding /\ pc'[c] \notin Decided
  BY <1>1, ControlStates DEF Context, Books, Decided
<1>6. \A q \in Qhs : OwnedOK(q)'
  BY <1>1, <1>2, OwnerKept
<1>7. ToggleInSync'
  <2>1. c \in InClients \cup OutClients => toggle'[c] = devToggle'[c]
    BY <1>1, ControlStates DEF TransferInv, ToggleInSync
  <2> QED BY <1>4, <2>1 DEF ToggleInSync, Clients
<1> QED BY <1>4, <1>5, <1>6, <1>7 DEF TransferInv

\* A pipe the pool can grant is not the QH of anybody.
LEMMA FreePipe ==
    ASSUME Context, NEW c \in Clients, pc[c] = "pipe", NEW p \in Pools!FreePipes(KindBar[c])
    PROVE  /\ p + 1 \in Qhs \ {Sentinel} /\ p \in 0 .. NumQh
           /\ xfer[c] \in TransfersOf(c)
           /\ \A d \in Clients : pc[d] \in Holding => QhOf(d) # p + 1
<1>1. xfer[c] \in TransfersOf(c) /\ KindBar[c] = KindOf(xfer[c])
  BY ControlStates DEF Context, Books, XferOK, KindBar, PhaseBar
<1>2. p \in 0 .. NumQh - 1 /\ p + 1 \in Qhs \ {Sentinel} /\ \A d \in Clients : pipe[d] # p
  BY <1>1, KindFacts, PipeRange DEF Pools!FreePipes
<1>3. \A d \in Clients : pipe[d] \in 0 .. NumQh
  BY DEF Context, Books
<1> QED BY <1>1, <1>2, <1>3, SizesAssumption DEF QhOf

LEMMA BeginFailsStep ==
    ASSUME Context, TransferInv, NEW c \in Clients, BeginFails(c)
    PROVE  TransferInv'
<1>1. /\ pc[c] = "pipe" /\ pc[c] \notin Holding
      /\ pc' = [pc EXCEPT ![c] = "returned"]
      /\ UNCHANGED <<xfer, toggle, pipe, slots, qtd, wire, devToggle>>
      /\ outcome' = [outcome EXCEPT ![c] = Busy]
  BY ControlStates DEF BeginFails, Goto, poolVars, busVars
<1>2. PICK p \in Pools!FreePipes(KindBar[c]) : qh' = [qh EXCEPT ![p + 1] = [ResetQh EXCEPT !.ep = c]]
  BY DEF BeginFails
<1>3. p + 1 \in Qhs /\ \A d \in Clients : pc[d] \in Holding => QhOf(d) # p + 1
  BY <1>1, FreePipe
<1>4. /\ qh'[p + 1].st = "halted" /\ \A q \in Qhs \ {p + 1} : qh'[q] = qh[q]
  BY <1>2, <1>3 DEF Context, Memory, ResetQh
<1>5. \A d \in Clients \ {c} :
         /\ xfer'[d] = xfer[d] /\ pipe'[d] = pipe[d] /\ slots'[d] = slots[d]
         /\ outcome'[d] = outcome[d] /\ toggle'[d] = toggle[d]
         /\ wire'[d] = wire[d] /\ devToggle'[d] = devToggle[d]
  BY <1>1 DEF Context, Memory
<1>6. \A d \in Clients \ {c} : pc[d] \in Holding =>
         /\ qh'[QhOf(d)] = qh[QhOf(d)]
         /\ \A i \in Stages(d) : qtd'[slots[d][i]] = qtd[slots[d][i]]
  BY <1>1, <1>3, <1>4, HolderTypes
<1>7. \A d \in Clients \ {c} :
         /\ pc'[d] \in Holding => Progress(d)'
         /\ pc'[d] \in Decided => OverOK(d)'
         /\ pc'[d] \in Decided \cup {"returned"} => OutcomeOK(d)'
         /\ d \in InClients \cup OutClients /\ pc'[d] \in Resting => toggle'[d] = devToggle'[d]
  BY <1>1, <1>5, <1>6, OthersKeep, Zenon
<1>8. pc'[c] = "returned" /\ pc'[c] \notin Holding /\ pc'[c] \notin Decided
  BY <1>1, ControlStates DEF Context, Books, Decided
<1>9. OutcomeOK(c)'
  <2>1. outcome'[c] = Busy
    BY <1>1 DEF Context, Memory
  <2> QED BY <2>1 DEF OutcomeOK, Busy
<1>10. \A q \in Qhs : OwnedOK(q)'
  <2>1. ASSUME NEW q \in Qhs, q = p + 1
        PROVE  OwnedOK(q)'
    BY <1>4, <2>1 DEF OwnedOK, Busied
  <2>2. ASSUME NEW q \in Qhs, q # p + 1
        PROVE  OwnedOK(q)'
    BY <1>1, <1>4, <1>5, <2>2, OwnerKept
  <2> QED BY <2>1, <2>2
<1>11. ToggleInSync'
  <2>1. c \in InClients \cup OutClients => toggle'[c] = devToggle'[c]
    BY <1>1, ControlStates DEF TransferInv, ToggleInSync
  <2> QED BY <1>7, <2>1 DEF ToggleInSync, Clients
<1> QED BY <1>7, <1>8, <1>9, <1>10, <1>11 DEF TransferInv

\* The slots a transfer takes are free and all different.
LEMMA FreshSlots ==
    ASSUME Context, NEW n \in Nat, NEW s \in [1 .. n -> Qtds], Pools!FirstFit(s, n)
    PROVE  /\ \A i, j \in 1 .. n : i # j => s[i] # s[j]
           /\ \A i \in 1 .. n : \A d \in Clients : s[i] \notin SlotSet(d)
<1>1. /\ \A i, j \in 1 .. n : i < j => s[i] < s[j]
      /\ \A i \in 1 .. n : s[i] \in Qtds \ qtdAllocated
  BY PipeRange DEF Pools!FirstFit, Pools!FreeQtds
<1>2. \A i, j \in 1 .. n : i # j => s[i] # s[j]
  <2>1. \A i \in 1 .. n : s[i] \in Int
    BY <1>1 DEF Qtds
  <2> QED BY <1>1, <2>1
<1>3. \A d \in Clients : SlotSet(d) \subseteq qtdAllocated
  BY DEF Context, Pools!Exclusive, Pools!SlotSet, SlotSet
<1> QED BY <1>1, <1>2, <1>3

\* The stages of a chain just built.
LEMMA BuiltStages ==
    ASSUME NEW x, NEW n \in Nat, n = Len(Chain(x)), NEW s \in [1 .. n -> Qtds],
           \A i, j \in 1 .. n : i # j => s[i] # s[j]
    PROVE  /\ \A i \in 1 .. n :
                 Built(s, x)[s[i]] =
                    [st |-> "active", dir |-> Chain(x)[i].dir, rem |-> Chain(x)[i].len,
                     err |-> FALSE, next |-> IF i = n THEN NoQtd ELSE s[i + 1]]
           /\ \A t \in Qtds : (\A i \in 1 .. n : s[i] # t) => Built(s, x)[t] = qtd[t]
<1>1. ASSUME NEW i \in 1 .. n
      PROVE  Built(s, x)[s[i]] =
                [st |-> "active", dir |-> Chain(x)[i].dir, rem |-> Chain(x)[i].len,
                 err |-> FALSE, next |-> IF i = n THEN NoQtd ELSE s[i + 1]]
  <2>1. s[i] \in Qtds /\ \E j \in DOMAIN s : s[j] = s[i]
    OBVIOUS
  <2>2. (CHOOSE j \in DOMAIN s : s[j] = s[i]) = i
    OBVIOUS
  <2> QED BY <2>1, <2>2 DEF Built
<1>2. ASSUME NEW t \in Qtds, \A i \in 1 .. n : s[i] # t
      PROVE  Built(s, x)[t] = qtd[t]
  <2>1. ~ \E i \in DOMAIN s : s[i] = t
    BY <1>2
  <2> QED BY <2>1 DEF Built
<1> QED BY <1>1, <1>2

LEMMA BeginStep ==
    ASSUME Context, TransferInv, NEW c \in Clients, Begin(c)
    PROVE  TransferInv'
<1>0. PICK x, n : x = xfer[c] /\ n = Len(Chain(x))
  OBVIOUS
<1>1. /\ pc[c] = "pipe" /\ pc[c] \notin Holding
      /\ pc' = [pc EXCEPT ![c] = "link"]
      /\ UNCHANGED <<xfer, outcome, toggle, devToggle>>
      /\ wire' = [wire EXCEPT ![c] = NoWire]
  BY ControlStates DEF Begin, Goto
<1>2. PICK p \in Pools!FreePipes(KindBar[c]) : \E s \in [1 .. n -> Qtds] :
          /\ Pools!FirstFit(s, n)
          /\ pipe' = [pipe EXCEPT ![c] = p]
          /\ slots' = [slots EXCEPT ![c] = s]
          /\ qh' = [qh EXCEPT ![p + 1] = Attached(c, s[1])]
          /\ qtd' = Built(s, x)
  BY <1>0 DEF Begin
<1>3. PICK s \in [1 .. n -> Qtds] :
          /\ Pools!FirstFit(s, n)
          /\ pipe' = [pipe EXCEPT ![c] = p]
          /\ slots' = [slots EXCEPT ![c] = s]
          /\ qh' = [qh EXCEPT ![p + 1] = Attached(c, s[1])]
          /\ qtd' = Built(s, x)
  BY <1>2
<1>4. /\ p + 1 \in Qhs /\ p \in 0 .. NumQh /\ x \in TransfersOf(c)
      /\ \A d \in Clients : pc[d] \in Holding => QhOf(d) # p + 1
  BY <1>0, <1>1, FreePipe
<1>5. /\ n \in 1 .. 3 /\ n \in Nat /\ x.len \in Nat /\ DataStage(x) \in 0 .. n
      /\ \A i \in 1 .. n : Chain(x)[i] \in StageSet
      /\ \A i \in 1 .. n : Chain(x)[i].len = IF i = DataStage(x) THEN x.len ELSE 0
  BY <1>0, <1>4, ChainShape, ChainLengths, TransferKinds
<1>6. /\ \A i, j \in 1 .. n : i # j => s[i] # s[j]
      /\ \A i \in 1 .. n : \A d \in Clients : s[i] \notin SlotSet(d)
  BY <1>3, <1>5, FreshSlots
<1>7. /\ \A i \in 1 .. n : qtd'[s[i]] =
            [st |-> "active", dir |-> Chain(x)[i].dir, rem |-> Chain(x)[i].len,
             err |-> FALSE, next |-> IF i = n THEN NoQtd ELSE s[i + 1]]
      /\ \A t \in Qtds : (\A i \in 1 .. n : s[i] # t) => qtd'[t] = qtd[t]
  <2>1. qtd' = Built(s, x)
    BY <1>3
  <2>2. n \in Nat /\ n = Len(Chain(x)) /\ \A i, j \in 1 .. n : i # j => s[i] # s[j]
    BY <1>0, <1>5, <1>6
  <2>3. /\ \A i \in 1 .. n : Built(s, x)[s[i]] =
               [st |-> "active", dir |-> Chain(x)[i].dir, rem |-> Chain(x)[i].len,
                err |-> FALSE, next |-> IF i = n THEN NoQtd ELSE s[i + 1]]
        /\ \A t \in Qtds : (\A i \in 1 .. n : s[i] # t) => Built(s, x)[t] = qtd[t]
    BY <2>2, BuiltStages
  <2> QED BY <2>1, <2>3
<1>8. /\ pc'[c] = "link" /\ pipe'[c] = p /\ slots'[c] = s /\ wire'[c] = NoWire
      /\ QhOf(c)' = p + 1 /\ Stages(c)' = 1 .. n /\ Done(c)' = 0
  BY <1>0, <1>1, <1>3 DEF Context, Books, Memory, QhOf, Stages, Done, NoWire
<1>9. /\ qh'[p + 1] = Attached(c, s[1]) /\ \A q \in Qhs \ {p + 1} : qh'[q] = qh[q]
  BY <1>3, <1>4 DEF Context, Memory
<1>10. \A d \in Clients \ {c} :
          /\ xfer'[d] = xfer[d] /\ pipe'[d] = pipe[d] /\ slots'[d] = slots[d]
          /\ outcome'[d] = outcome[d] /\ toggle'[d] = toggle[d]
          /\ wire'[d] = wire[d] /\ devToggle'[d] = devToggle[d]
  BY <1>1, <1>3 DEF Context, Books, Memory
<1>11. \A d \in Clients \ {c} : pc[d] \in Holding =>
          /\ qh'[QhOf(d)] = qh[QhOf(d)]
          /\ \A i \in Stages(d) : qtd'[slots[d][i]] = qtd[slots[d][i]]
  <2> SUFFICES ASSUME NEW d \in Clients \ {c}, pc[d] \in Holding
               PROVE  /\ qh'[QhOf(d)] = qh[QhOf(d)]
                      /\ \A i \in Stages(d) : qtd'[slots[d][i]] = qtd[slots[d][i]]
    OBVIOUS
  <2>1. QhOf(d) \in Qhs /\ \A i \in Stages(d) : slots[d][i] \in Qtds /\ slots[d][i] \in SlotSet(d)
    BY HolderTypes
  <2> QED BY <1>4, <1>6, <1>7, <1>9, <2>1
<1>12. \A d \in Clients \ {c} :
          /\ pc'[d] \in Holding => Progress(d)'
          /\ pc'[d] \in Decided => OverOK(d)'
          /\ pc'[d] \in Decided \cup {"returned"} => OutcomeOK(d)'
          /\ d \in InClients \cup OutClients /\ pc'[d] \in Resting => toggle'[d] = devToggle'[d]
  BY <1>1, <1>10, <1>11, OthersKeep, Zenon
<1>13. Progress(c)'
  <2>1. \A i \in 1 .. n : StageQtd(c, i)' =
            [st |-> "active", dir |-> Chain(x)[i].dir, rem |-> Chain(x)[i].len,
             err |-> FALSE, next |-> IF i = n THEN NoQtd ELSE s[i + 1]]
    BY <1>7, <1>8 DEF StageQtd
  <2>2. /\ wire'[c].done = 0 /\ wire'[c].units = 0 /\ ~wire'[c].halted
    BY <1>8 DEF NoWire
  <2>3. \A i \in Stages(c)' : StageOK(c, i)'
    <3> SUFFICES ASSUME NEW i \in 1 .. n
                 PROVE  StageOK(c, i)'
      BY <1>8
    <3>1. NextQtd(c, i)' = IF i = n THEN NoQtd ELSE s[i + 1]
      BY <1>0, <1>1, <1>8 DEF NextQtd
    <3>2. Chain(x)[i].len \in Nat /\ i \in Nat /\ i > 0 /\ ~(i <= 0) /\ xfer' = xfer
      BY <1>1, <1>5 DEF StageSet
    <3> QED BY <1>0, <1>8, <2>1, <2>2, <3>1, <3>2 DEF StageOK
  <2>4. /\ qh'[p + 1].ep = c /\ qh'[p + 1].cur = NoQtd /\ qh'[p + 1].next = s[1]
        /\ qh'[p + 1].st = "idle" /\ qh'[p + 1].dt = toggle[c]
    BY <1>9 DEF Attached, ResetQh
  <2>5. OverlayOK(c)'
    <3>1. qh'[QhOf(c)'] = qh'[p + 1] /\ slots'[c][Done(c)' + 1] = s[1]
      BY <1>8
    <3>2. Done(c)' # Len(Chain(xfer'[c]))
      <4>1. n # 0 /\ xfer'[c] = x
        BY <1>0, <1>1, <1>5
      <4> QED BY <1>0, <1>8, <4>1
    <3> QED BY <2>2, <2>4, <3>1, <3>2 DEF OverlayOK
  <2>6. TrafficOK(c)'
    <3>1. DataStage(x) # 0 => Remaining(c)' = x.len
      BY <1>0, <1>1, <1>5, <2>1 DEF Remaining
    <3>2. IsBulk(c) => toggle[c] = devToggle[c]
      BY <1>1, ControlStates DEF TransferInv, ToggleInSync, IsBulk
    <3>3. xfer'[c] = x /\ x.len - x.len = 0 /\ Done(c)' <= n /\ Done(c)' # n
      <4>1. n # 0 /\ 0 <= n
        BY <1>5
      <4>2. xfer'[c] = x /\ x.len - x.len = 0
        BY <1>0, <1>1, <1>5
      <4> QED BY <1>8, <4>1, <4>2
    <3>4. IsBulk(c) => qh'[QhOf(c)'].dt = devToggle'[c]
      BY <1>1, <1>8, <2>4, <3>2 DEF IsBulk
    <3>5. wire'[c].units = IF DataStage(x) = 0 THEN 0 ELSE x.len - Remaining(c)'
      BY <1>5, <2>2, <3>1, <3>3
    <3> QED BY <1>0, <3>3, <3>4, <3>5 DEF TrafficOK, IsBulk
  <2> QED BY <2>3, <2>5, <2>6 DEF Progress
<1>14. pc'[c] \in Holding /\ pc'[c] \notin Resting /\ pc'[c] \notin Decided \cup {"returned"}
  BY <1>8, ControlStates DEF Decided
<1>15. \A q \in Qhs : OwnedOK(q)'
  <2>1. ASSUME NEW q \in Qhs, q = p + 1
        PROVE  OwnedOK(q)'
    <3>1. qh'[q].ep = c
      BY <1>9, <2>1 DEF Attached, ResetQh
    <3> QED BY <1>8, <1>14, <2>1, <3>1 DEF OwnedOK
  <2>2. ASSUME NEW q \in Qhs, q # p + 1
        PROVE  OwnedOK(q)'
    BY <1>1, <1>9, <1>10, <2>2, OwnerKept
  <2> QED BY <2>1, <2>2
<1>16. ToggleInSync'
  BY <1>12, <1>14 DEF ToggleInSync, Clients
<1> QED BY <1>12, <1>13, <1>14, <1>15, <1>16 DEF TransferInv

\* Steps that touch nothing TransferInv is about: the walk of the controller.
LEMMA StillTransfers ==
    ASSUME TransferInv,
           UNCHANGED <<pc, xfer, outcome, toggle, pipe, slots, qh, qtd, wire, devToggle>>
    PROVE  TransferInv'
<1>1. /\ \A c \in Clients : Progress(c)' <=> Progress(c)
      /\ \A c \in Clients : (OverOK(c)' <=> OverOK(c)) /\ (OutcomeOK(c)' <=> OutcomeOK(c))
  BY DEF Progress, StageOK, OverlayOK, TrafficOK, OverOK, OutcomeOK, Stages, Done, NextQtd,
     StageQtd, Remaining, QhOf
<1>2. \A q \in Qhs : OwnedOK(q)' <=> OwnedOK(q)
  BY DEF OwnedOK, Busied, QhOf
<1>3. ToggleInSync' <=> ToggleInSync
  BY DEF ToggleInSync
<1> QED BY <1>1, <1>2, <1>3 DEF TransferInv

-----------------------------------------------------------------------------
(* What the transfers return *)

LEMMA InitTransfers == Init => TransferInv
<1> SUFFICES ASSUME Init
             PROVE  TransferInv
  OBVIOUS
<1>1. \A c \in Clients : pc[c] = "idle" /\ pc[c] \notin Holding /\ toggle[c] = devToggle[c]
  BY ControlStates DEF Init
<1>2. \A q \in Qhs : ~Busied(q)
  BY DEF Init, ResetQh, Busied
<1> QED BY <1>1, <1>2 DEF TransferInv, Decided, OwnedOK, ToggleInSync, Clients

LEMMA StepTransfers ==
    ASSUME ~MayCancel, Context, Context', TransferInv, [Next]_vars
    PROVE  TransferInv'
<1>1. CASE UNCHANGED vars
  BY <1>1, StillTransfers DEF vars, clientVars, poolVars, memVars, busVars
<1>2. CASE Controller
  <2>1. CASE HcAdvance
    BY <2>1, StillTransfers DEF HcAdvance, clientVars, poolVars, busVars
  <2> QED BY <1>2, <2>1, FetchStep, PacketStep, FailStep DEF Controller
<1>3. ASSUME NEW c \in Clients, Run(c)
      PROVE  TransferInv'
  BY <1>3, BeginStep, BeginFailsStep, PollStatusStep, PollOverlayStep, RegisterStep,
     FinishStep, ReturnStep DEF Run
<1> QED BY <1>1, <1>2, <1>3, CallStep DEF Next, Cancel

\* What is always true of a transfer in flight.
THEOREM TransferInvariance ==
    ASSUME ~MayCancel
    PROVE  Spec => []TransferInv
<1>1. Init => TransferInv
  BY InitTransfers
<1>2. Context /\ Context' /\ TransferInv /\ [Next]_vars => TransferInv'
  BY StepTransfers
<1>3. IInv /\ Pools!Exclusive => Context
  BY TypeSplit DEF IInv, Context
<1> QED BY <1>1, <1>2, <1>3, Invariance, TransfersExclusive, PTL DEF Spec

\* What a transfer returns is what happened on the bus, whatever other transfers
\* the controller serves in between (futures.rs:41-110, transfer.rs:322-360).
THEOREM ResultsHonest ==
    ASSUME ~MayCancel
    PROVE  Spec => []ResultHonest
<1>1. TransferInv => ResultHonest
  BY DEF TransferInv, OutcomeOK, ResultHonest, Done
<1> QED BY <1>1, TransferInvariance, PTL

\* A variable-size OUT that returns Ok has sent a short packet (transfer.rs:437-444).
THEOREM OutsTerminated ==
    ASSUME ~MayCancel
    PROVE  Spec => []OutTerminated
<1>1. TransferInv => OutTerminated
  BY DEF TransferInv, OutcomeOK, OutTerminated
<1> QED BY <1>1, TransferInvariance, PTL

\* The caller's data toggle and the device's agree whenever no transfer of the
\* endpoint is in flight (transfer.rs:472-482 and 539-545).
THEOREM TogglesInSync ==
    ASSUME ~MayCancel
    PROVE  Spec => []ToggleInSync
<1>1. TransferInv => ToggleInSync
  BY DEF TransferInv
<1> QED BY <1>1, TransferInvariance, PTL

-----------------------------------------------------------------------------
(* The schedule *)

\* The links h lead from every member of R to another and around all of R.
IsRing(h, R) ==
    /\ \A q \in R : h[q] \in R
    /\ \A p, q \in R : h[p] = h[q] => p = q
    /\ \A S \in SUBSET R : Sentinel \in S /\ (\A r \in S : h[r] \in S) => S = R

Listed == {c \in Clients : pc[c] \in InList}
InRing == {Sentinel} \cup {QhOf(c) : c \in Listed}

\* Between the two writes of a link nobody else runs, so the new QH still leads
\* where the sentinel does.
Linking ==
    \A c \in Clients : pc[c] \in {"link", "publish"} =>
        /\ running = c
        /\ pc[c] = "publish" => hlink[QhOf(c)] = hlink[Sentinel]

RingInv == IsRing(hlink, InRing) /\ Linking

\* A QH is inserted after the sentinel.
LEMMA RingGrows ==
    ASSUME NEW h, NEW g, NEW R, IsRing(h, R), Sentinel \in R, NEW q, q \notin R,
           g[q] = h[Sentinel], g[Sentinel] = q, \A r \in R \ {Sentinel} : g[r] = h[r]
    PROVE  IsRing(g, R \cup {q})
<1>1. \A r \in R : h[r] \in R
  BY DEF IsRing
<1>2. \A r \in R \cup {q} : g[r] \in R \cup {q}
  BY <1>1
<1>3. \A p, r \in R \cup {q} : g[p] = g[r] => p = r
  <2>1. \A r \in R \cup {q} : r # Sentinel => g[r] \in R /\ g[r] # q
    BY <1>1
  <2>2. \A r \in R \ {Sentinel} : g[r] # g[q]
    BY DEF IsRing
  <2>3. \A p, r \in R \ {Sentinel} : g[p] = g[r] => p = r
    BY DEF IsRing
  <2> QED BY <2>1, <2>2, <2>3
<1>4. ASSUME NEW S \in SUBSET (R \cup {q}), Sentinel \in S, \A r \in S : g[r] \in S
      PROVE  S = R \cup {q}
  <2>1. q \in S /\ h[Sentinel] \in S
    BY <1>4
  <2>2. \A r \in S \ {q} : h[r] \in S \ {q}
    BY <1>1, <1>4, <2>1
  <2>3. S \ {q} = R
    BY <1>4, <2>2 DEF IsRing
  <2> QED BY <2>1, <2>3
<1> QED BY <1>2, <1>3, <1>4 DEF IsRing

\* A QH is taken out: its predecessor takes its link.
LEMMA RingShrinks ==
    ASSUME NEW h, NEW g, NEW R, IsRing(h, R), NEW q \in R, q # Sentinel,
           \A r \in R \ {q} : g[r] = IF h[r] = q THEN h[q] ELSE h[r]
    PROVE  IsRing(g, R \ {q})
<1>1. /\ \A r \in R : h[r] \in R
      /\ \A p, r \in R : h[p] = h[r] => p = r
  BY DEF IsRing
<1>2. \A r \in R \ {q} : g[r] \in R \ {q}
  BY <1>1
<1>3. \A p, r \in R \ {q} : g[p] = g[r] => p = r
  BY <1>1
<1>4. ASSUME NEW S \in SUBSET (R \ {q}), Sentinel \in S, \A r \in S : g[r] \in S
      PROVE  S = R \ {q}
  <2>1. CASE \E p \in S : h[p] = q
    <3>1. h[q] \in S
      BY <1>4, <2>1
    <3>2. \A r \in S \cup {q} : h[r] \in S \cup {q}
      BY <1>4, <3>1
    <3>3. S \cup {q} \in SUBSET R
      OBVIOUS
    <3>4. S \cup {q} = R
      BY <1>4, <3>2, <3>3 DEF IsRing
    <3> QED BY <3>4
  <2>2. CASE \A p \in S : h[p] # q
    <3>1. \A r \in S : h[r] \in S
      BY <1>4, <2>2
    <3>2. S = R
      BY <1>4, <3>1 DEF IsRing
    <3> QED BY <3>2
  <2> QED BY <2>1, <2>2
<1> QED BY <1>2, <1>3, <1>4 DEF IsRing

\* The walk from the sentinel in search of q comes by q's predecessor.
LEMMA WalkFinds ==
    ASSUME NEW R, R \subseteq Qhs, Sentinel \in R, IsRing(hlink, R),
           NEW p \in R, NEW q \in R, hlink[p] = q
    PROVE  p \in WalkTo(q)
<1> SUFFICES ASSUME NEW S \in SUBSET Qhs, Sentinel \in S,
                    \A r \in S : hlink[r] \in Qhs \ {q} => hlink[r] \in S,
                    p \notin S
             PROVE  FALSE
  BY DEF WalkTo
<1>1. \A r \in S \cap R : hlink[r] \in S \cap R
  BY DEF IsRing
<1>2. S \cap R = R
  BY <1>1 DEF IsRing
<1> QED BY <1>2

\* From the sentinel the ring is reached and nothing else.
LEMMA RingReached ==
    ASSUME NEW R, R \subseteq Qhs, Sentinel \in R, IsRing(hlink, R)
    PROVE  Reach({Sentinel}) = R
<1>1. ASSUME NEW q \in R
      PROVE  q \in Reach({Sentinel})
  <2> SUFFICES ASSUME NEW S \in SUBSET Qhs, {Sentinel} \cap Qhs \subseteq S,
                      \A r \in S : hlink[r] \in Qhs => hlink[r] \in S
               PROVE  q \in S
    BY DEF Reach
  <2>1. \A r \in S \cap R : hlink[r] \in S \cap R
    BY DEF IsRing
  <2>2. S \cap R = R
    BY <2>1 DEF IsRing
  <2> QED BY <2>2
<1>2. ASSUME NEW q \in Reach({Sentinel})
      PROVE  q \in R
  <2>1. R \in SUBSET Qhs /\ {Sentinel} \cap Qhs \subseteq R
    OBVIOUS
  <2>2. \A r \in R : hlink[r] \in Qhs => hlink[r] \in R
    BY DEF IsRing
  <2> QED BY <2>1, <2>2 DEF Reach
<1> QED BY <1>1, <1>2

\* A ring depends on its own links only.
LEMMA RingFrame ==
    ASSUME NEW h, NEW g, NEW R, IsRing(h, R), \A r \in R : g[r] = h[r]
    PROVE  IsRing(g, R)
BY DEF IsRing

LEMMA RingTypes ==
    ASSUME Context
    PROVE  /\ InRing \subseteq Qhs /\ Sentinel \in InRing
           /\ \A c \in Clients : pc[c] \in InList =>
                 QhOf(c) \in InRing /\ QhOf(c) # Sentinel
           /\ \A c \in Clients : pc[c] \in Holding \ InList => QhOf(c) \notin InRing
<1>1. \A c \in Clients : pc[c] \in Holding => QhOf(c) \in Qhs \ {Sentinel}
  BY HolderTypes
<1>2. \A c \in Listed : pc[c] \in Holding
  BY DEF Listed, InList, Holding, Published
<1>3. Sentinel \in Qhs
  BY SizesAssumption DEF Sentinel, Qhs
<1>4. ASSUME NEW c \in Clients, pc[c] \in Holding \ InList
      PROVE  QhOf(c) \notin InRing
  <2>1. \A d \in Listed : d \in Clients \ {c} /\ pc[d] \in Holding
    BY <1>2, <1>4 DEF Listed
  <2>2. \A d \in Listed : QhOf(d) # QhOf(c)
    BY <1>4, <2>1, HoldersApart
  <2> QED BY <1>1, <1>4, <2>2 DEF InRing
<1> QED BY <1>1, <1>2, <1>3, <1>4 DEF InRing, Listed

LEMMA SameRing ==
    ASSUME \A c \in Clients : /\ pc'[c] \in InList <=> pc[c] \in InList
                              /\ pc[c] \in InList => pipe'[c] = pipe[c]
    PROVE  InRing' = InRing
<1>1. Listed' = Listed
  BY DEF Listed
<1>2. \A c \in Listed : pipe'[c] = pipe[c]
  BY DEF Listed
<1> QED BY <1>1, <1>2 DEF InRing, QhOf

\* Whoever enters or keeps the CPU is the only one who may be linking.
LEMMA LinkingAlone ==
    ASSUME Linking, NEW c \in Clients, running \in {Nobody, c},
           \A d \in Clients \ {c} : pc'[d] = pc[d],
           pc'[c] \in {"link", "publish"} => running' = c,
           pc'[c] = "publish" => hlink'[QhOf(c)'] = hlink'[Sentinel]
    PROVE  Linking'
<1>1. \A d \in Clients \ {c} : pc'[d] \notin {"link", "publish"}
  BY NobodyAssumption DEF Linking
<1> QED BY <1>1 DEF Linking

\* Steps of a client that write no link.
LEMMA NoLinkStep ==
    ASSUME Context, RingInv, NEW c \in Clients,
           \/ \E x \in TransfersOf(c) : Call(c, x)
           \/ PollStatus(c) \/ PollOverlay(c) \/ Ring(c) \/ PollAdvance(c) \/ ClearAai(c)
           \/ Finish(c) \/ Return(c)
    PROVE  RingInv'
<1>1. /\ hlink' = hlink /\ running \in {Nobody, c}
      /\ \A d \in Clients \ {c} : pc'[d] = pc[d] /\ pipe'[d] = pipe[d]
      /\ pc'[c] \in InList <=> pc[c] \in InList
      /\ pc[c] \in InList => pipe'[c] = pipe[c]
      /\ pc'[c] \notin {"link", "publish"}
  <2>1. CASE \E x \in TransfersOf(c) : Call(c, x)
    BY <2>1 DEF Call, Goto, Context, Books, poolVars, memVars, InList
  <2>2. CASE PollStatus(c) \/ PollOverlay(c)
    BY <2>2 DEF PollStatus, PollOverlay, Goto, Context, Books, poolVars, memVars, InList
  <2>3. CASE Ring(c) \/ PollAdvance(c) \/ ClearAai(c)
    BY <2>3 DEF Ring, PollAdvance, ClearAai, Goto, Context, Books, poolVars, memVars, InList
  <2>4. CASE Finish(c)
    BY <2>4 DEF Finish, DropGuards, Goto, Context, Books, InList
  <2>5. CASE Return(c)
    BY <2>5 DEF Return, Goto, Context, Books, poolVars, memVars, InList
  <2> QED BY <2>1, <2>2, <2>3, <2>4, <2>5
<1>2. InRing' = InRing
  BY <1>1, SameRing
<1>3. Linking'
  BY <1>1, LinkingAlone DEF RingInv
<1> QED BY <1>1, <1>2, <1>3 DEF RingInv

\* A granted pipe has a QH outside the schedule, so initialising it is harmless.
LEMMA GrantStep ==
    ASSUME Context, RingInv, NEW c \in Clients, Begin(c) \/ BeginFails(c)
    PROVE  RingInv'
<1>1. PICK p \in Pools!FreePipes(KindBar[c]) : hlink' = [hlink EXCEPT ![p + 1] = NoQh]
  BY DEF Begin, BeginFails
<1>2. /\ pc[c] = "pipe" /\ running = Nobody
      /\ \A d \in Clients \ {c} : pc'[d] = pc[d] /\ pipe'[d] = pipe[d]
      /\ pc'[c] \in {"link", "returned"} /\ (pc'[c] = "link" => running' = c)
  BY DEF Begin, BeginFails, Goto, Context, Books, poolVars
<1>3. p + 1 \in Qhs \ {Sentinel} /\ \A d \in Clients : pc[d] \in Holding => QhOf(d) # p + 1
  BY <1>2, FreePipe
<1>4. p + 1 \notin InRing
  BY <1>3 DEF InRing, Listed, InList, Holding, Published
<1>5. \A r \in InRing : hlink'[r] = hlink[r]
  BY <1>1, <1>4, RingTypes DEF Context, Memory
<1>6. InRing' = InRing
  BY <1>2, SameRing DEF InList
<1>7. Linking'
  BY <1>2, LinkingAlone DEF RingInv
<1> QED BY <1>5, <1>6, <1>7, RingFrame DEF RingInv

LEMMA LinkQhStep ==
    ASSUME Context, RingInv, NEW c \in Clients, LinkQh(c)
    PROVE  RingInv'
<1>1. /\ pc[c] = "link" /\ running = c /\ running' = c /\ pipe' = pipe
      /\ \A d \in Clients \ {c} : pc'[d] = pc[d]
      /\ pc'[c] = "publish"
      /\ hlink' = [hlink EXCEPT ![QhOf(c)] = hlink[Sentinel]]
  BY DEF LinkQh, Goto, Context, Books, poolVars
<1>2. pc[c] \in Holding \ InList
  BY <1>1 DEF Holding, InList
<1>3. QhOf(c) \in Qhs /\ QhOf(c) \notin InRing /\ QhOf(c)' = QhOf(c) /\ Sentinel \in InRing
  BY <1>1, <1>2, RingTypes, HolderTypes DEF QhOf
<1>4. \A r \in InRing : hlink'[r] = hlink[r]
  BY <1>1, <1>3, RingTypes DEF Context, Memory
<1>5. hlink'[QhOf(c)] = hlink[Sentinel]
  BY <1>1, <1>3 DEF Context, Memory
<1>6. InRing' = InRing
  BY <1>1, SameRing DEF InList
<1>7. Linking'
  BY <1>1, <1>3, <1>4, <1>5, LinkingAlone DEF RingInv
<1> QED BY <1>4, <1>6, <1>7, RingFrame DEF RingInv

LEMMA PublishStep ==
    ASSUME Context, RingInv, NEW c \in Clients, Publish(c)
    PROVE  RingInv'
<1>1. PICK q : q = QhOf(c)
  OBVIOUS
<1>2. /\ pc[c] = "publish" /\ running = c /\ pipe' = pipe
      /\ \A d \in Clients \ {c} : pc'[d] = pc[d]
      /\ pc'[c] = "status"
      /\ hlink' = [hlink EXCEPT ![Sentinel] = q]
  BY <1>1 DEF Publish, Goto, Context, Books, poolVars
<1>3. /\ q \in Qhs /\ q # Sentinel /\ q \notin InRing
      /\ Sentinel \in InRing /\ InRing \subseteq Qhs
  BY <1>1, <1>2, RingTypes, HolderTypes DEF Holding, InList
<1>4. hlink[q] = hlink[Sentinel]
  BY <1>1, <1>2 DEF RingInv, Linking
<1>5. /\ hlink'[q] = hlink[Sentinel] /\ hlink'[Sentinel] = q
      /\ \A r \in InRing \ {Sentinel} : hlink'[r] = hlink[r]
  BY <1>2, <1>3, <1>4 DEF Context, Memory
<1>6. IsRing(hlink', InRing \cup {q})
  BY <1>3, <1>5, RingGrows DEF RingInv
<1>7. InRing' = InRing \cup {q}
  <2>1. Listed' = Listed \cup {c}
    BY <1>2 DEF Listed, InList
  <2> QED BY <1>1, <1>2, <2>1 DEF InRing, QhOf
<1>8. Linking'
  BY <1>2, LinkingAlone DEF RingInv
<1> QED BY <1>6, <1>7, <1>8 DEF RingInv

\* The walk finds the predecessor, whatever was published since.
LEMMA UnlinkStep ==
    ASSUME Context, RingInv, NEW c \in Clients, Unlink(c)
    PROVE  RingInv'
<1>1. PICK q : q = QhOf(c)
  OBVIOUS
<1>2. /\ pc[c] = "unlink" /\ running = c /\ pipe' = pipe
      /\ \A d \in Clients \ {c} : pc'[d] = pc[d]
      /\ pc'[c] = "ring"
      /\ hlink' = [p \in Qhs |-> IF p \in WalkTo(q) /\ hlink[p] = q THEN hlink[q] ELSE hlink[p]]
  BY <1>1 DEF Unlink, Goto, Bypass, Context, Books, poolVars
<1>3. /\ q # Sentinel /\ q \in InRing
      /\ Sentinel \in InRing /\ InRing \subseteq Qhs
  BY <1>1, <1>2, RingTypes DEF InList
<1>4. \A p \in InRing : hlink[p] = q => p \in WalkTo(q)
  BY <1>3, WalkFinds DEF RingInv
<1>5. \A r \in InRing \ {q} : hlink'[r] = IF hlink[r] = q THEN hlink[q] ELSE hlink[r]
  BY <1>2, <1>3, <1>4
<1>6. IsRing(hlink', InRing \ {q})
  BY <1>3, <1>5, RingShrinks DEF RingInv
<1>7. InRing' = InRing \ {q}
  <2>1. Listed' = Listed \ {c}
    BY <1>2 DEF Listed, InList
  <2>2. \A d \in Listed \ {c} : QhOf(d) # q
    <3>1. \A d \in Listed : d \in Clients /\ pc[d] \in Holding
      BY DEF Listed, InList, Holding, Published
    <3>2. pc[c] \in Holding
      BY <1>2 DEF Holding, Published, InList
    <3> QED BY <1>1, <3>1, <3>2, HoldersApart
  <2> QED BY <1>1, <1>2, <1>3, <2>1, <2>2 DEF InRing, QhOf
<1>8. Linking'
  BY <1>2, LinkingAlone DEF RingInv
<1> QED BY <1>6, <1>7, <1>8 DEF RingInv

LEMMA InitRing == Init => RingInv
<1> SUFFICES ASSUME Init
             PROVE  RingInv
  OBVIOUS
<1>1. \A c \in Clients : pc[c] = "idle"
  BY DEF Init
<1>2. InRing = {Sentinel}
  BY <1>1 DEF InRing, Listed, InList
<1>3. hlink[Sentinel] = Sentinel
  BY SizesAssumption DEF Init, Qhs, Sentinel
<1> QED BY <1>1, <1>2, <1>3 DEF RingInv, IsRing, Linking

LEMMA StepRing ==
    ASSUME ~MayCancel, Context, RingInv, [Next]_vars
    PROVE  RingInv'
<1>1. ASSUME UNCHANGED <<pc, running, pipe, hlink>>
      PROVE  RingInv'
  <2>1. InRing' = InRing
    BY <1>1, SameRing
  <2>2. Linking'
    BY <1>1 DEF RingInv, Linking, QhOf
  <2> QED BY <1>1, <2>1, <2>2 DEF RingInv
<1>2. CASE UNCHANGED vars \/ Controller
  BY <1>1, <1>2 DEF vars, Controller, HcAdvance, HcFetch, HcPacket, HcRetry, HcHalt,
     clientVars, poolVars, memVars
<1>3. ASSUME NEW c \in Clients, (\E x \in TransfersOf(c) : Call(c, x)) \/ Run(c)
      PROVE  RingInv'
  BY <1>3, NoLinkStep, GrantStep, LinkQhStep, PublishStep, UnlinkStep DEF Run
<1> QED BY <1>2, <1>3 DEF Next, Cancel

\* The links of the QHs in use are always a ring.
THEOREM RingInvariance ==
    ASSUME ~MayCancel
    PROVE  Spec => []RingInv
<1>1. Init => RingInv
  BY InitRing
<1>2. Context /\ RingInv /\ [Next]_vars => RingInv'
  BY StepRing
<1>3. IInv /\ Pools!Exclusive => Context
  BY TypeSplit DEF IInv, Context
<1> QED BY <1>1, <1>2, <1>3, Invariance, TransfersExclusive, PTL DEF Spec

\* The schedule is exactly the sentinel and the QHs of the transfers that have
\* published theirs and not yet unlinked it, in whatever order any number of
\* transfers link and unlink (schedule.rs:117-172).
THEOREM SchedulesExact ==
    ASSUME ~MayCancel
    PROVE  Spec => []ScheduleExact
<1>1. Context /\ RingInv => ScheduleExact
  <2> SUFFICES ASSUME Context, RingInv
               PROVE  ScheduleExact
    OBVIOUS
  <2>1. Reach({Sentinel}) = InRing
    BY RingTypes, RingReached DEF RingInv
  <2> QED BY <2>1 DEF ScheduleExact, InRing, Listed, RingInv, IsRing
<1>2. IInv /\ Pools!Exclusive => Context
  BY TypeSplit DEF IInv, Context
<1> QED BY <1>1, <1>2, Invariance, TransfersExclusive, RingInvariance, PTL

-----------------------------------------------------------------------------
(* What the controller holds, when transfers are made one at a time *)

Alone == \A c, d \in Clients : pc[c] # "idle" /\ pc[d] # "idle" => c = d

\* A QH the controller may hold: the sentinel, or one its transfer has not had
\* answered for.
Lent == {Sentinel} \cup {QhOf(c) : c \in {d \in Clients : pc[d] \in Published}}
HeldByHc(c) == QhOf(c) \in {hcAt, hcNext}

\* A QH taken out of the ring still leads back to it.  The doorbell is answered
\* when the controller holds it no more.
HcInv ==
    /\ {hcAt, hcNext} \subseteq Lent
    /\ \A c \in Clients : pc[c] \in Published \ InList => hlink[QhOf(c)] = Sentinel
    /\ \A c \in Clients : pc[c] \in {"clear", "finish"} => ~HeldByHc(c)
    /\ aai => \E c \in Clients : pc[c] \in {"advance", "clear"} /\ ~HeldByHc(c)
    /\ iaa => ~aai /\ \E c \in Clients : pc[c] = "advance"

SerialInv == Alone /\ HcInv

\* HcInv when nobody but c is in flight.
HcOf(c) ==
    /\ \A q \in {hcAt, hcNext} : q # Sentinel => pc[c] \in Published /\ q = QhOf(c)
    /\ pc[c] \in Published \ InList => hlink[QhOf(c)] = Sentinel
    /\ pc[c] \in {"clear", "finish"} => ~HeldByHc(c)
    /\ aai => pc[c] \in {"advance", "clear"} /\ ~HeldByHc(c)
    /\ iaa => ~aai /\ pc[c] = "advance"

LEMMA HcSplit ==
    ASSUME NEW c \in Clients, \A d \in Clients \ {c} : pc[d] = "idle", HcInv
    PROVE  HcOf(c)
<1>1. \A d \in Clients : pc[d] \in Published => d = c
  BY DEF Published, InList
<1>2. \A d \in Clients : pc[d] \in {"advance", "clear"} => d = c
  OBVIOUS
<1> QED BY <1>1, <1>2 DEF HcInv, HcOf, Lent

LEMMA HcJoin ==
    ASSUME NEW c \in Clients, \A d \in Clients \ {c} : pc'[d] = "idle", HcOf(c)'
    PROVE  Alone' /\ HcInv'
<1>1. \A d \in Clients : pc'[d] \in Published \cup {"clear", "finish"} => d = c
  BY DEF Published, InList
<1>2. {hcAt, hcNext}' \subseteq Lent'
  BY DEF HcOf, Lent
<1>3. \A d \in Clients : pc'[d] \in Published \ InList => hlink'[QhOf(d)'] = Sentinel
  BY <1>1 DEF HcOf
<1>4. \A d \in Clients : pc'[d] \in {"clear", "finish"} => ~HeldByHc(d)'
  BY <1>1 DEF HcOf
<1>5. /\ aai' => \E d \in Clients : pc'[d] \in {"advance", "clear"} /\ ~HeldByHc(d)'
      /\ iaa' => ~aai' /\ \E d \in Clients : pc'[d] = "advance"
  BY DEF HcOf
<1> QED BY <1>2, <1>3, <1>4, <1>5 DEF HcInv, Alone

\* The ring of a transfer that is alone.
LEMMA AloneRing ==
    ASSUME Context, RingInv, NEW c \in Clients, \A d \in Clients \ {c} : pc[d] = "idle"
    PROVE  /\ pc[c] \notin InList => hlink[Sentinel] = Sentinel
           /\ pc[c] \in InList =>
                 /\ hlink[Sentinel] = QhOf(c) /\ hlink[QhOf(c)] = Sentinel
                 /\ QhOf(c) # Sentinel /\ QhOf(c) \in Qhs
<1>1. IsRing(hlink, InRing)
  BY DEF RingInv
<1>2. CASE pc[c] \notin InList
  <2>1. InRing = {Sentinel}
    BY <1>2 DEF InRing, Listed, InList
  <2> QED BY <1>1, <1>2, <2>1 DEF IsRing
<1>3. CASE pc[c] \in InList
  <2>1. PICK q : q = QhOf(c)
    OBVIOUS
  <2>2. q # Sentinel /\ q \in Qhs
    BY <1>3, <2>1, HolderTypes DEF InList, Published, Holding
  <2>3. Listed = {c}
    BY <1>3 DEF Listed, InList
  <2>4. InRing = {Sentinel, q}
    BY <2>1, <2>3 DEF InRing
  <2>5. hlink[Sentinel] = q
    <3> SUFFICES ASSUME hlink[Sentinel] = Sentinel
                 PROVE  FALSE
      BY <1>1, <2>4 DEF IsRing
    <3>1. {Sentinel} \in SUBSET InRing /\ \A r \in {Sentinel} : hlink[r] \in {Sentinel}
      BY <2>4
    <3>2. {Sentinel} = InRing
      BY <1>1, <3>1 DEF IsRing
    <3> QED BY <2>2, <2>4, <3>2
  <2>6. hlink[q] = Sentinel
    BY <1>1, <2>2, <2>4, <2>5 DEF IsRing
  <2> QED BY <1>3, <2>1, <2>2, <2>5, <2>6
<1> QED BY <1>2, <1>3

LEMMA AloneAdvance ==
    ASSUME Context, RingInv, NEW c \in Clients, \A d \in Clients \ {c} : pc[d] = "idle",
           HcOf(c), HcAdvance
    PROVE  HcOf(c)'
<1>1. /\ hcAt' = hcNext /\ hcNext' = hlink[hcNext] /\ pc' = pc /\ hlink' = hlink
      /\ aai' = (aai \/ (iaa /\ hcNext = Sentinel)) /\ iaa' = (iaa /\ hcNext # Sentinel)
      /\ QhOf(c)' = QhOf(c)
  BY DEF HcAdvance, clientVars, poolVars, QhOf
<1>2. pc[c] \in Published => QhOf(c) # Sentinel
  BY HolderTypes DEF Published, Holding
<1>3. CASE hcNext = Sentinel
  <2>1. CASE pc[c] \in InList
    <3>1. hcAt' = Sentinel /\ hcNext' = QhOf(c) /\ ~aai' /\ ~iaa'
      BY <1>1, <1>3, <2>1, AloneRing DEF HcOf, InList
    <3> QED BY <1>1, <2>1, <3>1 DEF HcOf, Published, InList
  <2>2. CASE pc[c] \notin InList
    <3>1. hcAt' = Sentinel /\ hcNext' = Sentinel /\ ~iaa'
      BY <1>1, <1>3, <2>2, AloneRing
    <3>2. aai' => pc[c] \in {"advance", "clear"}
      BY <1>1 DEF HcOf
    <3>3. pc'[c] \in {"advance", "clear", "finish"} => ~HeldByHc(c)'
      BY <1>1, <1>2, <3>1 DEF HeldByHc, Published
    <3> QED BY <1>1, <3>1, <3>2, <3>3 DEF HcOf
  <2> QED BY <2>1, <2>2
<1>4. CASE hcNext # Sentinel
  <2>1. pc[c] \in Published /\ hcNext = QhOf(c) /\ HeldByHc(c)
    BY <1>4 DEF HcOf, HeldByHc
  <2>2. ~aai /\ pc[c] \notin {"clear", "finish"}
    BY <2>1 DEF HcOf
  <2>3. hlink[QhOf(c)] = Sentinel
    BY <2>1, AloneRing DEF HcOf
  <2>4. hcAt' = QhOf(c) /\ hcNext' = Sentinel /\ ~aai' /\ (iaa' => iaa)
    BY <1>1, <1>4, <2>1, <2>2, <2>3
  <2> QED BY <1>1, <2>1, <2>2, <2>4 DEF HcOf
<1> QED BY <1>3, <1>4

\* A step of the only client in flight.
LEMMA AloneRun ==
    ASSUME Context, RingInv, NEW c \in Clients, \A d \in Clients \ {c} : pc[d] = "idle",
           HcOf(c), Run(c)
    PROVE  HcOf(c)' /\ \A d \in Clients \ {c} : pc'[d] = "idle"
<1>1. CASE Begin(c) \/ BeginFails(c) \/ LinkQh(c) \/ Return(c)
  <2>1. /\ pc[c] \notin Published /\ pc'[c] \notin Published
        /\ pc[c] \notin {"advance", "clear", "finish"} /\ pc'[c] \notin {"clear", "finish"}
        /\ \A d \in Clients \ {c} : pc'[d] = pc[d]
        /\ UNCHANGED <<iaa, aai, hcAt, hcNext>>
    BY <1>1 DEF Begin, BeginFails, LinkQh, Return, Goto, Context, Books, Published, InList,
       hcVars, memVars
  <2> QED BY <2>1 DEF HcOf
<1>2. CASE Publish(c) \/ PollStatus(c) \/ PollOverlay(c)
  <2>1. /\ pc'[c] \in InList /\ pc[c] \notin {"advance", "clear", "finish"}
        /\ pc[c] \in Published \cup {"publish"}
        /\ pc'[c] \in Published /\ pc'[c] \notin {"clear", "finish"}
        /\ \A d \in Clients \ {c} : pc'[d] = pc[d]
        /\ UNCHANGED <<iaa, aai, hcAt, hcNext>> /\ QhOf(c)' = QhOf(c)
    BY <1>2 DEF Publish, PollStatus, PollOverlay, Goto, Context, Books, Published, InList,
       hcVars, memVars, poolVars, QhOf
  <2> QED BY <2>1 DEF HcOf
<1>3. CASE Unlink(c)
  <2>1. /\ pc[c] = "unlink" /\ pc'[c] = "ring"
        /\ \A d \in Clients \ {c} : pc'[d] = pc[d]
        /\ UNCHANGED <<iaa, aai, hcAt, hcNext>> /\ QhOf(c)' = QhOf(c)
        /\ hlink' = [p \in Qhs |-> IF p \in WalkTo(QhOf(c)) /\ hlink[p] = QhOf(c)
                                    THEN hlink[QhOf(c)] ELSE hlink[p]]
    BY <1>3 DEF Unlink, Bypass, Goto, Context, Books, hcVars, poolVars, QhOf
  <2>2. hlink[QhOf(c)] = Sentinel /\ QhOf(c) \in Qhs
    BY <2>1, AloneRing DEF InList
  <2>3. hlink'[QhOf(c)] = Sentinel
    BY <2>1, <2>2
  <2> QED BY <2>1, <2>3 DEF HcOf, Published, InList
<1>4. CASE Ring(c) \/ PollAdvance(c) \/ ClearAai(c)
  <2>1. /\ pc[c] \in {"ring", "advance", "clear"} /\ pc'[c] \in {"advance", "clear", "finish"}
        /\ \A d \in Clients \ {c} : pc'[d] = pc[d]
        /\ UNCHANGED <<hlink, hcAt, hcNext>> /\ QhOf(c)' = QhOf(c)
    BY <1>4 DEF Ring, PollAdvance, ClearAai, Goto, Context, Books, memVars, hcVars, poolVars, QhOf
  <2>2. HeldByHc(c)' = HeldByHc(c) /\ hlink[QhOf(c)] = Sentinel
    BY <2>1 DEF HeldByHc, HcOf, Published, InList
  <2>3. pc[c] \in Published /\ pc'[c] \in Published
    BY <2>1 DEF Published
  <2>4. CASE Ring(c)
    <3>1. pc[c] = "ring" /\ pc'[c] = "advance" /\ iaa' = TRUE /\ aai' = aai
      BY <2>4 DEF Ring, Goto, Context, Books
    <3> QED BY <2>1, <2>2, <2>3, <3>1 DEF HcOf
  <2>5. CASE PollAdvance(c)
    <3>1. pc[c] = "advance" /\ pc'[c] = (IF aai THEN "clear" ELSE "advance") /\ iaa' = iaa /\ aai' = aai
      BY <2>5 DEF PollAdvance, Goto, Context, Books, memVars
    <3> QED BY <2>1, <2>2, <2>3, <3>1 DEF HcOf
  <2>6. CASE ClearAai(c)
    <3>1. pc[c] = "clear" /\ pc'[c] = "finish" /\ iaa' = iaa /\ aai' = FALSE
      BY <2>6 DEF ClearAai, Goto, Context, Books
    <3> QED BY <2>1, <2>2, <2>3, <3>1 DEF HcOf
  <2> QED BY <1>4, <2>4, <2>5, <2>6
<1>5. CASE Finish(c)
  <2>1. /\ pc[c] = "finish" /\ pc'[c] = "returned"
        /\ \A d \in Clients \ {c} : pc'[d] = pc[d]
        /\ UNCHANGED <<iaa, aai, hcAt, hcNext>>
    BY <1>5 DEF Finish, Goto, Context, Books, hcVars
  <2>2. hcAt = Sentinel /\ hcNext = Sentinel
    BY <2>1 DEF HcOf, HeldByHc
  <2> QED BY <2>1, <2>2 DEF HcOf, Published, InList
<1> QED BY <1>1, <1>2, <1>3, <1>4, <1>5 DEF Run

LEMMA AloneCall ==
    ASSUME MaxInFlight <= 1, Alone, HcInv,
           NEW c \in Clients, NEW x \in TransfersOf(c), Call(c, x)
    PROVE  \A d \in Clients : pc[d] = "idle"
<1> SUFFICES ASSUME NEW d \in Clients, pc[d] # "idle"
             PROVE  FALSE
  OBVIOUS
<1>1. InFlight = {d}
  BY DEF InFlight, Alone
<1>2. Cardinality(InFlight) = 1
  BY <1>1, FS_Singleton
<1> QED BY <1>2, SizesAssumption DEF Call

LEMMA InitSerial == Init => SerialInv
<1> SUFFICES ASSUME Init
             PROVE  SerialInv
  OBVIOUS
<1>1. \A c \in Clients : pc[c] = "idle"
  BY DEF Init
<1> QED BY <1>1 DEF Init, SerialInv, Alone, HcInv, Lent, Published, InList

LEMMA StepSerial ==
    ASSUME ~MayCancel, MaxInFlight <= 1, Context, RingInv, SerialInv, [Next]_vars
    PROVE  SerialInv'
<1>1. ASSUME UNCHANGED <<pc, pipe, hlink, iaa, aai, hcAt, hcNext>>
      PROVE  SerialInv'
  <2>1. Lent' = Lent /\ \A c \in Clients : HeldByHc(c)' = HeldByHc(c) /\ QhOf(c)' = QhOf(c)
    BY <1>1 DEF Lent, HeldByHc, QhOf
  <2> QED BY <1>1, <2>1 DEF SerialInv, Alone, HcInv
<1>2. CASE UNCHANGED vars \/ HcFetch \/ HcPacket \/ HcRetry \/ HcHalt
  BY <1>1, <1>2 DEF vars, HcFetch, HcPacket, HcRetry, HcHalt,
     clientVars, poolVars, memVars, hcVars
<1>3. CASE \A c \in Clients : pc[c] = "idle"
  <2>1. hcAt = Sentinel /\ hcNext = Sentinel /\ ~aai /\ ~iaa
    BY <1>3 DEF SerialInv, HcInv, Lent, Published, InList
  <2>2. CASE HcAdvance
    <3>1. InRing = {Sentinel}
      BY <1>3 DEF InRing, Listed, InList
    <3>2. hlink[Sentinel] = Sentinel
      BY <3>1 DEF RingInv, IsRing
    <3>3. /\ hcAt' = Sentinel /\ hcNext' = Sentinel /\ ~aai' /\ ~iaa' /\ pc' = pc
      BY <2>1, <2>2, <3>2 DEF HcAdvance, clientVars
    <3> QED BY <1>3, <3>3 DEF SerialInv, Alone, HcInv, Lent, Published, InList
  <2>3. ASSUME NEW c \in Clients, NEW x \in TransfersOf(c), Call(c, x)
        PROVE  SerialInv'
    <3>1. /\ \A d \in Clients \ {c} : pc'[d] = "idle"
          /\ pc'[c] = "pipe"
          /\ UNCHANGED <<iaa, aai, hcAt, hcNext>>
      BY <1>3, <2>3 DEF Call, Goto, Context, Books, memVars, hcVars
    <3>2. HcOf(c)'
      BY <2>1, <3>1 DEF HcOf, Published, InList
    <3> QED BY <3>1, <3>2, HcJoin DEF SerialInv
  <2>4. ASSUME NEW c \in Clients
        PROVE  ~Run(c)
    BY <1>3 DEF Run, Begin, BeginFails, LinkQh, Publish, PollStatus, PollOverlay, Unlink, Ring,
       PollAdvance, ClearAai, Finish, Return
  <2> QED BY <1>2, <2>2, <2>3, <2>4 DEF Next, Controller, Cancel
<1>4. ASSUME NEW c \in Clients, pc[c] # "idle"
      PROVE  SerialInv'
  <2>1. /\ \A d \in Clients \ {c} : pc[d] = "idle"
        /\ HcOf(c)
    BY <1>4, HcSplit DEF SerialInv, Alone
  <2>2. CASE HcAdvance
    <3>1. HcOf(c)' /\ pc' = pc
      BY <2>1, <2>2, AloneAdvance DEF HcAdvance, clientVars
    <3> QED BY <2>1, <3>1, HcJoin DEF SerialInv
  <2>3. ASSUME NEW d \in Clients
        PROVE  \A x \in TransfersOf(d) : ~Call(d, x)
    BY <1>4, AloneCall DEF SerialInv
  <2>4. ASSUME NEW d \in Clients, Run(d)
        PROVE  SerialInv'
    <3>1. pc[d] # "idle"
      BY <2>4 DEF Run, Begin, BeginFails, LinkQh, Publish, PollStatus, PollOverlay, Unlink, Ring,
         PollAdvance, ClearAai, Finish, Return
    <3>2. Run(c)
      BY <2>1, <2>4, <3>1
    <3> QED BY <2>1, <3>2, AloneRun, HcJoin DEF SerialInv
  <2> QED BY <1>2, <2>2, <2>3, <2>4 DEF Next, Controller, Cancel
<1> QED BY <1>3, <1>4

\* What the qTDs and the overlay of a holder point at.
LEMMA OwnPointers ==
    ASSUME Context, TransferInv, NEW c \in Clients, pc[c] \in Holding
    PROVE  /\ qh[QhOf(c)].ep = c
           /\ {qh[QhOf(c)].next, qh[QhOf(c)].cur} \subseteq SlotSet(c) \cup {NoQtd}
           /\ \A t \in SlotSet(c) : qtd[t].next \in SlotSet(c) \cup {NoQtd}
<1>1. PICK n \in 1 .. 3 : n = Len(Chain(xfer[c])) /\ Done(c) \in 0 .. n
  BY DoneRange DEF TransferInv
<1>2. /\ DOMAIN slots[c] = 1 .. n
      /\ \A i \in 1 .. n : slots[c][i] \in SlotSet(c)
  BY <1>1, QhOfHolder, HolderTypes DEF Context, Stages
<1>3. \A i \in 1 .. n : NextQtd(c, i) \in SlotSet(c) \cup {NoQtd}
  BY <1>1, <1>2 DEF NextQtd
<1>4. \A i \in 1 .. n : qtd[slots[c][i]].next = NextQtd(c, i)
  BY <1>1 DEF TransferInv, Progress, Stages, StageOK, StageQtd
<1>5. \A t \in SlotSet(c) : qtd[t].next \in SlotSet(c) \cup {NoQtd}
  BY <1>2, <1>3, <1>4 DEF SlotSet
<1>6. PICK k \in 1 .. n + 1 : k = Done(c) + 1
  BY <1>1
<1>7. k # n + 1 => k \in 1 .. n
  BY <1>1
<1>8. OverlayOK(c) /\ (Done(c) = n <=> k = n + 1) /\ (Done(c) < n <=> k # n + 1)
  BY <1>1, <1>6 DEF TransferInv, Progress
<1>9. qh[QhOf(c)].st \in {"idle", "active", "halted"}
  BY HolderTypes DEF QhSet
<1>10. {qh[QhOf(c)].next, qh[QhOf(c)].cur} \subseteq SlotSet(c) \cup {NoQtd}
  BY <1>1, <1>2, <1>3, <1>6, <1>7, <1>8, <1>9 DEF OverlayOK
<1> QED BY <1>5, <1>8, <1>10 DEF OverlayOK

\* One transfer at a time: the doorbell is answered only once the controller has
\* let go of the QH, and then it holds the sentinel alone.
THEOREM SerialInvariance ==
    ASSUME ~MayCancel, MaxInFlight <= 1
    PROVE  Spec => []SerialInv
<1>1. Init => SerialInv
  BY InitSerial
<1>2. Context /\ RingInv /\ SerialInv /\ [Next]_vars => SerialInv'
  BY StepSerial
<1>3. IInv /\ Pools!Exclusive => Context
  BY TypeSplit DEF IInv, Context
<1> QED BY <1>1, <1>2, <1>3, Invariance, TransfersExclusive, RingInvariance, PTL DEF Spec

\* One transfer at a time, the controller never holds or reaches a QH whose transfer
\* has given it back, nor a qTD of another transfer (schedule.rs:264-265, 307-309).
THEOREM TransfersDmaSafe ==
    ASSUME ~MayCancel, MaxInFlight <= 1
    PROVE  Spec => []DmaSafe
<1>1. Context /\ TransferInv /\ RingInv /\ SerialInv => DmaSafe
  <2> SUFFICES ASSUME Context, TransferInv, RingInv, SerialInv
               PROVE  DmaSafe
    OBVIOUS
  <2>1. Lent \subseteq Qhs /\ {Sentinel, hcAt, hcNext} \subseteq Lent
    <3>1. \A c \in Clients : pc[c] \in Published => QhOf(c) \in Qhs
      BY HolderTypes DEF Holding
    <3> QED BY <3>1, SizesAssumption DEF Lent, SerialInv, HcInv, Sentinel, Qhs
  <2>2. \A q \in Lent : hlink[q] \in Lent
    <3>1. InRing \subseteq Lent
      BY DEF InRing, Listed, Lent, Published
    <3>2. \A q \in InRing : hlink[q] \in Lent
      BY <3>1 DEF RingInv, IsRing
    <3>3. \A c \in Clients : pc[c] \in Published => hlink[QhOf(c)] \in Lent
      BY <2>1, <3>2, RingTypes DEF SerialInv, HcInv
    <3>4. hlink[Sentinel] \in Lent
      BY <3>2, RingTypes
    <3> QED BY <3>3, <3>4 DEF Lent
  <2>3. Reach({Sentinel, hcNext}) \subseteq Lent
    BY <2>1, <2>2 DEF Reach
  <2>4. hcNext # NoQh /\ \A q \in Lent : hlink[q] # NoQh
    BY <2>1, <2>2, SizesAssumption DEF Qhs, NoQh
  <2>5. ASSUME NEW q \in {hcAt} \cup Reach({Sentinel, hcNext}), q # Sentinel
        PROVE  \E c \in Clients :
                  /\ pc[c] \in Published /\ QhOf(c) = q /\ qh[q].ep = c
                  /\ {qh[q].next, qh[q].cur} \subseteq SlotSet(c) \cup {NoQtd}
                  /\ \A t \in SlotSet(c) : qtd[t].next \in SlotSet(c) \cup {NoQtd}
    <3>1. PICK c \in Clients : pc[c] \in Published /\ QhOf(c) = q
      BY <2>1, <2>3, <2>5 DEF Lent
    <3> QED BY <3>1, OwnPointers DEF Holding
  <2> QED BY <2>1, <2>3, <2>4, <2>5 DEF DmaSafe
<1>2. IInv /\ Pools!Exclusive => Context
  BY TypeSplit DEF IInv, Context
<1> QED BY <1>1, <1>2, Invariance, TransfersExclusive, TransferInvariance, RingInvariance,
           SerialInvariance, PTL
=============================================================================
