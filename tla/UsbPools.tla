------------------------------ MODULE UsbPools ------------------------------
(***************************************************************************)
(* The static pools of the host driver (src/host/statics.rs) and who holds *)
(* what: one control pipe, NumQh - 1 bulk/interrupt pipes and NumQtd       *)
(* transfer descriptors (qTDs).  A client is one caller of the             *)
(* HostController trait: it waits for a pipe, takes the qTDs its transfer  *)
(* needs in the same poll, and gives everything back when the transfer     *)
(* ends, when its future is dropped or when its interrupt pipe is dropped. *)
(*                                                                         *)
(* This is what the pools promise whatever the controller hardware does in *)
(* between; AsyncSchedule, which says what it does, implements it.         *)
(***************************************************************************)
EXTENDS Naturals, FiniteSets

CONSTANTS
    Clients,    \* callers of control_transfer, bulk_*_transfer, *alloc_interrupt_pipe
    NumQh,      \* NUM_QH: the control pipe and NumQh - 1 bulk/interrupt pipes
    NumQtd      \* NUM_QTD: slots of the qTD pool

ASSUME NumQhAssumption == NumQh \in Nat \ {0}
ASSUME NumQtdAssumption == NumQtd \in Nat

NoPipe == NumQh             \* no index: not a pipe
ControlPipe == 0
BulkPipes == 1 .. NumQh - 1
Pipes == {ControlPipe} \cup BulkPipes
QtdIdx == 0 .. NumQtd - 1

NoKind == "none"
Kinds == {"controlNoData", "controlData", "bulk", "bulkZlp", "interrupt"}

\* The pool a transfer of kind k draws its pipe from.
PipesFor(k) ==
    IF k \in {"controlNoData", "controlData"} THEN {ControlPipe} ELSE BulkPipes

\* Mutant: the zero-length packet takes a third qTD.
QtdNeedZlp3(k) ==
    IF k \in {"controlData", "bulkZlp"} THEN 3 ELSE IF k = "controlNoData" THEN 2 ELSE 1

\* The qTDs a transfer of kind k takes: setup and status, and data if there
\* is a data phase; one for bulk, and one more for a trailing zero-length packet.
QtdNeed(k) ==
    CASE k = "controlNoData" -> 2
      [] k = "controlData"   -> 3
      [] k = "bulk"          -> 1
      [] k = "bulkZlp"       -> 2
      [] k = "interrupt"     -> 1

VARIABLES
    phase,          \* "idle", "waiting" for a pipe, "holding", or "panicked"
    kind,           \* the transfer of each client, NoKind while it is idle
    pipe,           \* the Pooled guard of each client, NoPipe if it has none
    slots,          \* the QtdSlot guards of each client, in the order taken
    qtdAllocated    \* the bitmap: indices marked allocated

vars == <<phase, kind, pipe, slots, qtdAllocated>>

SlotSet(c) == {slots[c][i] : i \in DOMAIN slots[c]}

\* How many qTDs client c holds.
Held(c) == IF phase[c] = "holding" THEN QtdNeed(kind[c]) ELSE 0

TypeOK ==
    /\ phase \in [Clients -> {"idle", "waiting", "holding", "panicked"}]
    /\ kind \in [Clients -> Kinds \cup {NoKind}]
    /\ \A c \in Clients : phase[c] = "idle" <=> kind[c] = NoKind
    /\ pipe \in [Clients -> Pipes \cup {NoPipe}]
    /\ slots \in [Clients -> UNION {[1 .. n -> QtdIdx] : n \in 0 .. 3}]
    /\ \A c \in Clients : DOMAIN slots[c] = 1 .. Held(c)
    /\ qtdAllocated \subseteq QtdIdx

-----------------------------------------------------------------------------
FreePipes(k) == {p \in PipesFor(k) : \A c \in Clients : pipe[c] # p}

\* Mutant: the bitmap is not consulted.
AllQtds == QtdIdx

FreeQtds == QtdIdx \ qtdAllocated

\* s is what n calls of alloc_qtd return one after the other: each takes the
\* lowest index not taken yet.
FirstFit(s, n) ==
    /\ s \in [1 .. n -> FreeQtds]
    /\ \A i, j \in 1 .. n : i < j => s[i] < s[j]
    /\ \A i \in 1 .. n : \A f \in FreeQtds :
          f < s[i] => \E j \in 1 .. n : s[j] = f

Init ==
    /\ phase = [c \in Clients |-> "idle"]
    /\ kind = [c \in Clients |-> NoKind]
    /\ pipe = [c \in Clients |-> NoPipe]
    /\ slots = [c \in Clients |-> [i \in 1 .. 0 |-> 0]]
    /\ qtdAllocated = {}

\* A transfer is called: its future now waits in Pool::alloc.
Call(c, k) ==
    /\ phase[c] = "idle"
    /\ phase' = [phase EXCEPT ![c] = "waiting"]
    /\ kind' = [kind EXCEPT ![c] = k]
    /\ UNCHANGED <<pipe, slots, qtdAllocated>>

\* The pool grants a pipe; the same poll goes on to allocate every qTD.
Begin(c) ==
    /\ phase[c] = "waiting"
    /\ \E p \in FreePipes(kind[c]) : pipe' = [pipe EXCEPT ![c] = p]
    /\ \E s \in [1 .. QtdNeed(kind[c]) -> QtdIdx] :
          /\ FirstFit(s, QtdNeed(kind[c]))
          /\ slots' = [slots EXCEPT ![c] = s]
          /\ qtdAllocated' = qtdAllocated \cup {s[i] : i \in DOMAIN s}
    /\ phase' = [phase EXCEPT ![c] = "holding"]
    /\ UNCHANGED kind

TooFewQtds(c) ==
    /\ FreePipes(kind[c]) # {}
    /\ Cardinality(FreeQtds) < QtdNeed(kind[c])

\* alloc_qtd returned None part of the way: the guards taken so far drop and
\* the call returns AllPipesInUse.
BeginFails(c) ==
    /\ phase[c] = "waiting"
    /\ kind[c] # "interrupt"
    /\ TooFewQtds(c)
    /\ phase' = [phase EXCEPT ![c] = "idle"]
    /\ kind' = [kind EXCEPT ![c] = NoKind]
    /\ UNCHANGED <<pipe, slots, qtdAllocated>>

\* do_alloc_interrupt_pipe expects a qTD and panics when there is none.
Panic(c) ==
    /\ phase[c] = "waiting"
    /\ kind[c] = "interrupt"
    /\ TooFewQtds(c)
    /\ phase' = [phase EXCEPT ![c] = "panicked"]
    /\ UNCHANGED <<kind, pipe, slots, qtdAllocated>>

\* No pipe is granted: the future is dropped while it waits, or
\* try_alloc_interrupt_pipe found the pool empty and returned AllPipesInUse.
GiveUp(c) ==
    /\ phase[c] = "waiting"
    /\ phase' = [phase EXCEPT ![c] = "idle"]
    /\ kind' = [kind EXCEPT ![c] = NoKind]
    /\ UNCHANGED <<pipe, slots, qtdAllocated>>

\* Mutant: the guards outlive the transfer.
ReleaseKeepingSlots(c) ==
    /\ phase[c] = "holding"
    /\ phase' = [phase EXCEPT ![c] = "idle"]
    /\ kind' = [kind EXCEPT ![c] = NoKind]
    /\ pipe' = [pipe EXCEPT ![c] = NoPipe]
    /\ UNCHANGED <<slots, qtdAllocated>>

\* The guards drop: the end of a transfer, a dropped future or a dropped
\* interrupt pipe.
Release(c) ==
    /\ phase[c] = "holding"
    /\ phase' = [phase EXCEPT ![c] = "idle"]
    /\ kind' = [kind EXCEPT ![c] = NoKind]
    /\ pipe' = [pipe EXCEPT ![c] = NoPipe]
    /\ slots' = [slots EXCEPT ![c] = [i \in 1 .. 0 |-> 0]]
    /\ qtdAllocated' = qtdAllocated \ SlotSet(c)

\* A panic stops the program.
Running == \A c \in Clients : phase[c] # "panicked"

Next ==
    /\ Running
    /\ \E c \in Clients :
          \/ \E k \in Kinds : Call(c, k)
          \/ Begin(c)
          \/ BeginFails(c)
          \/ Panic(c)
          \/ GiveUp(c)
          \/ Release(c)

Spec == Init /\ [][Next]_vars

-----------------------------------------------------------------------------
(* Properties *)

\* Guards are exclusive and nothing leaks: two clients never hold the same pipe
\* or the same qTD, a client never holds a qTD twice, and the bitmap marks
\* exactly the slots some guard owns (the claim of the SAFETY comment in
\* QtdSlot::drop, "enforced by the allocation bitmap").
Exclusive ==
    /\ \A c, d \in Clients : c # d =>
          /\ pipe[c] = pipe[d] => pipe[c] = NoPipe
          /\ SlotSet(c) \cap SlotSet(d) = {}
    /\ \A c \in Clients : \A i, j \in DOMAIN slots[c] :
          i # j => slots[c][i] # slots[c][j]
    /\ qtdAllocated = UNION {SlotSet(c) : c \in Clients}

\* Whoever gets a pipe also gets its qTDs: the pipe pools bound the use of the
\* qTD pool, so the expect of do_alloc_interrupt_pipe never panics and no
\* transfer fails half way through its allocations (transfer.rs:565-570).
NeverExhausted ==
    \A c \in Clients :
        /\ phase[c] = "waiting" => ~TooFewQtds(c)
        /\ phase[c] # "panicked"

\* A client has a pipe of its kind exactly while it holds qTDs.  With TypeOK and
\* Exclusive this is inductive.
PipesMatch ==
    \A c \in Clients :
        IF phase[c] = "holding" THEN pipe[c] \in PipesFor(kind[c]) ELSE pipe[c] = NoPipe

\* The pool size under which NeverExhausted holds: three qTDs for the control
\* transfer, two for each bulk transfer.  NUM_QH = 4 needs 9; NUM_QTD is 16.
PoolLargeEnough == NumQtd >= 3 + 2 * (NumQh - 1)
=============================================================================
