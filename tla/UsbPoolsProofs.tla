--------------------------- MODULE UsbPoolsProofs ---------------------------
(***************************************************************************)
(* The pools of UsbPools, for every number of clients, pipes and qTDs.     *)
(*                                                                         *)
(* TypeOK, Exclusive and PipesMatch together are inductive.  From them     *)
(* NeverExhausted follows by counting: every allocated qTD sits at one     *)
(* position of one pipe's transfer, the pipes have 3 + 2 * (NumQh - 1)     *)
(* positions, and those of a free pipe are empty.                          *)
(***************************************************************************)
EXTENDS UsbPools, FiniteSetTheorems, TLAPS

IInv == TypeOK /\ Exclusive /\ PipesMatch

\* The control pipe is not a bulk pipe and NoPipe is no pipe.
LEMMA NoClash == ControlPipe \notin BulkPipes /\ NoPipe \notin Pipes
BY NumQhAssumption DEF ControlPipe, BulkPipes, NoPipe, Pipes

\* A transfer takes between one and three qTDs, three only for control.
LEMMA NeedRange ==
    ASSUME NEW k \in Kinds
    PROVE  /\ QtdNeed(k) \in 1 .. 3
           /\ PipesFor(k) = BulkPipes => QtdNeed(k) <= 2
           /\ PipesFor(k) \subseteq Pipes
<1>1. QtdNeed(k) \in 1 .. 3
  BY DEF Kinds, QtdNeed
<1>2. PipesFor(k) = BulkPipes => QtdNeed(k) <= 2
  <2>1. CASE k \in {"controlNoData", "controlData"}
    BY <2>1, NoClash DEF PipesFor
  <2>2. CASE k \in {"bulk", "bulkZlp", "interrupt"}
    BY <2>2 DEF QtdNeed
  <2> QED BY <2>1, <2>2 DEF Kinds
<1>3. PipesFor(k) \subseteq Pipes
  BY DEF PipesFor, Pipes
<1> QED BY <1>1, <1>2, <1>3

\* The initial state satisfies the invariant.
LEMMA InitInv == Init => IInv
<1> SUFFICES ASSUME Init PROVE IInv
  OBVIOUS
<1>1. TypeOK
  <2>1. [i \in 1 .. 0 |-> 0] \in [1 .. 0 -> QtdIdx]
    OBVIOUS
  <2>2. [i \in 1 .. 0 |-> 0] \in UNION {[1 .. n -> QtdIdx] : n \in 0 .. 3}
    BY <2>1
  <2> QED BY <2>2 DEF Init, TypeOK, Held, Kinds, NoKind
<1>2. Exclusive
  <2>1. \A c \in Clients : SlotSet(c) = {}
    BY DEF Init, SlotSet
  <2> QED BY <2>1 DEF Init, Exclusive
<1>3. PipesMatch
  BY DEF Init, PipesMatch
<1> QED BY <1>1, <1>2, <1>3 DEF IInv

\* Exclusive is about pipes, slots and bitmap only.
LEMMA ExclusiveUnchanged ==
    ASSUME Exclusive, UNCHANGED <<pipe, slots, qtdAllocated>>
    PROVE  Exclusive'
<1>1. \A c \in Clients : SlotSet(c)' = SlotSet(c)
  BY DEF SlotSet
<1>2. /\ \A c, d \in Clients : c # d =>
            /\ pipe'[c] = pipe'[d] => pipe'[c] = NoPipe
            /\ SlotSet(c)' \cap SlotSet(d)' = {}
      /\ \A c \in Clients : \A i, j \in DOMAIN slots'[c] :
            i # j => slots'[c][i] # slots'[c][j]
  BY <1>1 DEF Exclusive
<1>3. qtdAllocated' = UNION {SlotSet(c)' : c \in Clients}
  BY <1>1 DEF Exclusive
<1> QED BY <1>2, <1>3 DEF Exclusive

\* A step that leaves pipes, slots and bitmap alone and moves one client between
\* phases that hold nothing preserves the invariant.
LEMMA QuietStep ==
    ASSUME IInv, NEW c \in Clients, phase[c] # "holding",
           NEW ph \in {"idle", "waiting", "panicked"}, NEW k \in Kinds \cup {NoKind},
           ph = "idle" <=> k = NoKind,
           phase' = [phase EXCEPT ![c] = ph], kind' = [kind EXCEPT ![c] = k],
           UNCHANGED <<pipe, slots, qtdAllocated>>
    PROVE  IInv'
<1> USE DEF IInv
<1>1. TypeOK'
  BY DEF TypeOK, Held
<1>2. Exclusive'
  BY ExclusiveUnchanged
<1>3. PipesMatch'
  BY DEF TypeOK, PipesMatch
<1> QED BY <1>1, <1>2, <1>3

\* Begin gives the client a free pipe and fresh qTDs.
LEMMA BeginStep ==
    ASSUME IInv, NEW c \in Clients, Begin(c)
    PROVE  IInv'
<1> USE DEF IInv
<1>1. PICK p \in FreePipes(kind[c]) : pipe' = [pipe EXCEPT ![c] = p]
  BY DEF Begin
<1> DEFINE n == QtdNeed(kind[c])
<1>2. PICK s \in [1 .. n -> QtdIdx] :
         /\ FirstFit(s, n)
         /\ slots' = [slots EXCEPT ![c] = s]
         /\ qtdAllocated' = qtdAllocated \cup {s[i] : i \in DOMAIN s}
  BY DEF Begin
<1>3. kind[c] \in Kinds /\ phase[c] = "waiting" /\ pipe[c] = NoPipe
  BY DEF Begin, TypeOK, PipesMatch
<1>4. n \in 1 .. 3 /\ p \in PipesFor(kind[c]) /\ p \in Pipes
  BY <1>3, NeedRange DEF FreePipes
<1> HIDE DEF n
<1>5. /\ s \in [1 .. n -> FreeQtds]
      /\ \A i, j \in 1 .. n : i < j => s[i] < s[j]
  BY <1>2 DEF FirstFit
<1>6. /\ phase' = [phase EXCEPT ![c] = "holding"]
      /\ kind' = kind
  BY DEF Begin
<1>7. TypeOK'
  <2>1. slots' \in [Clients -> UNION {[1 .. m -> QtdIdx] : m \in 0 .. 3}]
    BY <1>2, <1>4 DEF TypeOK
  <2>2. \A d \in Clients : DOMAIN slots'[d] = 1 .. Held(d)'
    BY <1>2, <1>6 DEF TypeOK, Held, n
  <2>3. qtdAllocated' \subseteq QtdIdx
    BY <1>2 DEF TypeOK
  <2>4. pipe' \in [Clients -> Pipes \cup {NoPipe}]
    BY <1>1, <1>4 DEF TypeOK
  <2> QED BY <1>3, <1>6, <2>1, <2>2, <2>3, <2>4, Zenon DEF TypeOK, NoKind, Kinds
<1>8. Exclusive'
  <2>1. SlotSet(c)' = {s[i] : i \in 1 .. n} /\ SlotSet(c)' \cap qtdAllocated = {}
    BY <1>2, <1>5 DEF SlotSet, FreeQtds, TypeOK
  <2>2. \A d \in Clients : d # c => SlotSet(d)' = SlotSet(d)
    BY <1>2 DEF SlotSet, TypeOK
  <2>3. \A d \in Clients : SlotSet(d) \subseteq qtdAllocated
    BY DEF Exclusive
  <2>4. \A d, e \in Clients : d # e => SlotSet(d)' \cap SlotSet(e)' = {}
    BY <2>1, <2>2, <2>3 DEF Exclusive
  <2>5. \A d, e \in Clients : d # e => (pipe'[d] = pipe'[e] => pipe'[d] = NoPipe)
    BY <1>1 DEF FreePipes, Exclusive, TypeOK
  <2>6. \A d \in Clients : \A i, j \in DOMAIN slots'[d] :
           i # j => slots'[d][i] # slots'[d][j]
    <3> SUFFICES ASSUME NEW d \in Clients, NEW i \in DOMAIN slots'[d],
                        NEW j \in DOMAIN slots'[d], i # j
                 PROVE  slots'[d][i] # slots'[d][j]
      OBVIOUS
    <3>1. CASE d = c
      <4>1. slots'[d] = s /\ i \in 1 .. n /\ j \in 1 .. n
        BY <1>2, <3>1 DEF TypeOK
      <4>2. s[i] \in Nat /\ s[j] \in Nat
        BY <4>1 DEF QtdIdx
      <4>3. i < j \/ j < i
        BY <1>4, <4>1
      <4> QED BY <1>5, <4>1, <4>2, <4>3
    <3>2. CASE d # c
      BY <1>2, <3>2 DEF Exclusive, TypeOK
    <3> QED BY <3>1, <3>2
  <2>7. SlotSet(c) = {}
    BY <1>3 DEF SlotSet, TypeOK, Held
  <2>8. qtdAllocated' = UNION {SlotSet(d)' : d \in Clients}
    <3>1. {s[i] : i \in DOMAIN s} = SlotSet(c)'
      BY <2>1
    <3> QED BY <1>2, <2>2, <2>7, <3>1 DEF Exclusive
  <2> QED BY <2>4, <2>5, <2>6, <2>8 DEF Exclusive
<1>9. PipesMatch'
  BY <1>1, <1>4, <1>6 DEF PipesMatch, TypeOK
<1> QED BY <1>7, <1>8, <1>9

\* Release takes the client's pipe and qTDs away from nobody else.
LEMMA ReleaseStep ==
    ASSUME IInv, NEW c \in Clients, Release(c)
    PROVE  IInv'
<1> USE DEF IInv
<1> DEFINE e == [i \in 1 .. 0 |-> 0]
<1>1. e \in [1 .. 0 -> QtdIdx] /\ DOMAIN e = 1 .. 0
  OBVIOUS
<1>2. slots' = [slots EXCEPT ![c] = e]
  BY DEF Release
<1> HIDE DEF e
<1>3. TypeOK'
  <2>1. slots' \in [Clients -> UNION {[1 .. m -> QtdIdx] : m \in 0 .. 3}]
    BY <1>1, <1>2 DEF TypeOK
  <2>2. \A d \in Clients : DOMAIN slots'[d] = 1 .. Held(d)'
    BY <1>1, <1>2 DEF TypeOK, Held, Release
  <2> QED BY <2>1, <2>2 DEF TypeOK, Release, NoKind, Kinds
<1>4. Exclusive'
  <2>1. SlotSet(c)' = {}
    BY <1>1, <1>2 DEF SlotSet, TypeOK
  <2>2. \A d \in Clients : d # c => SlotSet(d)' = SlotSet(d)
    BY <1>2 DEF SlotSet, TypeOK
  <2>3. qtdAllocated' = UNION {SlotSet(d)' : d \in Clients}
    BY <2>1, <2>2 DEF Exclusive, Release
  <2>4. \A d \in Clients : \A i, j \in DOMAIN slots'[d] :
           i # j => slots'[d][i] # slots'[d][j]
    BY <1>1, <1>2 DEF Exclusive, TypeOK
  <2>5. \A d, f \in Clients : d # f => (pipe'[d] = pipe'[f] => pipe'[d] = NoPipe)
    BY DEF Exclusive, Release, TypeOK
  <2> QED BY <2>1, <2>2, <2>3, <2>4, <2>5 DEF Exclusive
<1>5. PipesMatch'
  BY DEF PipesMatch, Release, TypeOK
<1> QED BY <1>3, <1>4, <1>5

\* Every step preserves the invariant.
LEMMA NextInv == IInv /\ [Next]_vars => IInv'
<1> SUFFICES ASSUME IInv, [Next]_vars PROVE IInv'
  OBVIOUS
<1>1. ASSUME NEW c \in Clients, NEW k \in Kinds, Call(c, k)
      PROVE  IInv'
  <2>1. NoKind \notin Kinds
    BY DEF NoKind, Kinds
  <2> QED BY <1>1, <2>1, QuietStep DEF Call
<1>2. ASSUME NEW c \in Clients, Begin(c)
      PROVE  IInv'
  BY <1>2, BeginStep
<1>3. ASSUME NEW c \in Clients, BeginFails(c) \/ GiveUp(c)
      PROVE  IInv'
  BY <1>3, QuietStep DEF BeginFails, GiveUp
<1>4. ASSUME NEW c \in Clients, Panic(c)
      PROVE  IInv'
  <2>1. kind \in [Clients -> Kinds \cup {NoKind}] /\ kind[c] \in Kinds
    BY <1>4 DEF Panic, IInv, TypeOK, Kinds
  <2>2. kind' = [kind EXCEPT ![c] = kind[c]]
    BY <1>4, <2>1 DEF Panic
  <2>3. kind[c] # NoKind
    BY <2>1 DEF NoKind, Kinds
  <2> QED BY <1>4, <2>1, <2>2, <2>3, QuietStep DEF Panic
<1>5. ASSUME NEW c \in Clients, Release(c)
      PROVE  IInv'
  BY <1>5, ReleaseStep
<1>6. CASE UNCHANGED vars
  <2>1. TypeOK' /\ PipesMatch'
    BY <1>6 DEF vars, IInv, TypeOK, Held, PipesMatch
  <2> QED BY <1>6, <2>1, ExclusiveUnchanged DEF vars, IInv
<1> QED BY <1>1, <1>2, <1>3, <1>4, <1>5, <1>6 DEF Next

THEOREM Invariance == Spec => []IInv
<1> QED BY InitInv, NextInv, PTL DEF Spec

\* TypeOK holds in every reachable state.
THEOREM Typing == Spec => []TypeOK
<1>1. IInv => TypeOK
  BY DEF IInv
<1> QED BY <1>1, Invariance, PTL

\* Guards are exclusive and nothing leaks, in every reachable state.
THEOREM ExclusiveHolds == Spec => []Exclusive
<1>1. IInv => Exclusive
  BY DEF IInv
<1> QED BY <1>1, Invariance, PTL

-----------------------------------------------------------------------------
(* Counting *)

Positions == 1 .. 3 + 2 * (NumQh - 1)

\* Where the i-th qTD of the transfer on pipe p sits among all positions.
Position(p, i) == IF p = ControlPipe THEN i ELSE 3 + 2 * (p - 1) + i

PositionsOf(p) == IF p = ControlPipe THEN 1 .. 3 ELSE 3 + 2 * (p - 1) + 1 .. 3 + 2 * (p - 1) + 2

Owner(t) == CHOOSE c \in Clients : t \in SlotSet(c)
IndexOf(t) == CHOOSE i \in DOMAIN slots[Owner(t)] : slots[Owner(t)][i] = t

\* Positions of different pipes, and different positions of one pipe, differ.
LEMMA PositionInjective ==
    ASSUME NEW p \in Pipes, NEW q \in Pipes, NEW i \in 1 .. 3, NEW j \in 1 .. 3,
           p # ControlPipe => i <= 2, q # ControlPipe => j <= 2
    PROVE  /\ Position(p, i) \in Positions
           /\ Position(p, i) \in PositionsOf(p)
           /\ Position(p, i) = Position(q, j) => p = q /\ i = j
           /\ Position(p, i) \in PositionsOf(q) => p = q
<1> USE NumQhAssumption DEF Position, PositionsOf, Positions, Pipes, BulkPipes, ControlPipe
<1>1. CASE p = 0 /\ q = 0
  BY <1>1
<1>2. CASE p = 0 /\ q # 0
  BY <1>2
<1>3. CASE p # 0 /\ q = 0
  BY <1>3
<1>4. CASE p # 0 /\ q # 0
  BY <1>4
<1> QED BY <1>1, <1>2, <1>3, <1>4

\* A free pipe leaves all its positions empty, so the rest bound the allocated
\* qTDs and what is left covers any transfer on that pipe.
LEMMA EnoughLeft ==
    ASSUME IInv, PoolLargeEnough, NEW k \in Kinds, NEW p \in FreePipes(k)
    PROVE  Cardinality(FreeQtds) >= QtdNeed(k)
<1> USE NumQhAssumption, NumQtdAssumption
<1> DEFINE g == [t \in qtdAllocated |-> Position(pipe[Owner(t)], IndexOf(t))]
           T == Positions \ PositionsOf(p)
<1>1. p \in Pipes /\ \A c \in Clients : pipe[c] # p
  BY NeedRange DEF FreePipes
<1>2. \A t \in qtdAllocated :
         /\ Owner(t) \in Clients /\ pipe[Owner(t)] \in Pipes
         /\ IndexOf(t) \in 1 .. 3 /\ slots[Owner(t)][IndexOf(t)] = t
         /\ pipe[Owner(t)] # ControlPipe => IndexOf(t) <= 2
  <2> SUFFICES ASSUME NEW t \in qtdAllocated
               PROVE  /\ Owner(t) \in Clients /\ pipe[Owner(t)] \in Pipes
                      /\ IndexOf(t) \in 1 .. 3 /\ slots[Owner(t)][IndexOf(t)] = t
                      /\ pipe[Owner(t)] # ControlPipe => IndexOf(t) <= 2
    OBVIOUS
  <2>1. Owner(t) \in Clients /\ t \in SlotSet(Owner(t))
    BY DEF IInv, Exclusive, Owner
  <2> DEFINE c == Owner(t)
  <2> HIDE DEF c
  <2>2. IndexOf(t) \in DOMAIN slots[c] /\ slots[c][IndexOf(t)] = t
    BY <2>1 DEF SlotSet, IndexOf, c
  <2>3. c \in Clients /\ DOMAIN slots[c] = 1 .. Held(c)
    BY <2>1 DEF IInv, TypeOK, c
  <2>4. phase[c] = "holding" /\ IndexOf(t) \in 1 .. QtdNeed(kind[c])
    BY <2>2, <2>3 DEF Held
  <2>5. kind[c] \in Kinds
    BY <2>3, <2>4 DEF IInv, TypeOK
  <2>6. pipe[c] \in PipesFor(kind[c])
    BY <2>3, <2>4 DEF IInv, PipesMatch
  <2>7. pipe[c] # ControlPipe => QtdNeed(kind[c]) <= 2
    BY <2>5, <2>6, NeedRange DEF PipesFor
  <2> QED BY <2>2, <2>3, <2>4, <2>5, <2>6, <2>7, NeedRange DEF c
<1>3. g \in [qtdAllocated -> T]
  BY <1>1, <1>2, PositionInjective
<1>4. \A t, u \in qtdAllocated : g[t] = g[u] => t = u
  <2> SUFFICES ASSUME NEW t \in qtdAllocated, NEW u \in qtdAllocated, g[t] = g[u]
               PROVE  t = u
    OBVIOUS
  <2>1. pipe[Owner(t)] = pipe[Owner(u)] /\ IndexOf(t) = IndexOf(u)
    BY <1>2, PositionInjective
  <2>2. Owner(t) = Owner(u)
    BY <1>2, <2>1, NoClash DEF IInv, Exclusive
  <2> QED BY <1>2, <2>1, <2>2
<1>5. g \in Injection(qtdAllocated, T)
  BY <1>3, <1>4 DEF Injection, IsInjective
<1> HIDE DEF g
<1>6. /\ IsFiniteSet(T)
      /\ Cardinality(T) = 3 + 2 * (NumQh - 1) - (IF p = ControlPipe THEN 3 ELSE 2)
  <2>1. PositionsOf(p) \subseteq Positions
    BY <1>1 DEF PositionsOf, Positions, Pipes, BulkPipes, ControlPipe
  <2>2. Positions \cap PositionsOf(p) = PositionsOf(p)
    BY <2>1
  <2>3. /\ IsFiniteSet(Positions)
        /\ Cardinality(Positions) = 3 + 2 * (NumQh - 1)
    BY FS_Interval DEF Positions
  <2>4. Cardinality(PositionsOf(p)) = IF p = ControlPipe THEN 3 ELSE 2
    <3>1. CASE p = ControlPipe
      <4>1. PICK m \in Int : m = 1
        OBVIOUS
      <4>2. PICK n \in Int : n = 3
        OBVIOUS
      <4>3. Cardinality(m .. n) = IF m > n THEN 0 ELSE n - m + 1
        BY FS_Interval
      <4>4. Cardinality(m .. n) = 3
        BY <4>1, <4>2, <4>3
      <4> QED BY <3>1, <4>1, <4>2, <4>4 DEF PositionsOf
    <3>2. CASE p # ControlPipe
      <4>1. p \in Nat
        BY <1>1 DEF Pipes, BulkPipes, ControlPipe
      <4> DEFINE a == 3 + 2 * (p - 1)
      <4>2. a \in Int
        BY <4>1
      <4> HIDE DEF a
      <4>3. Cardinality(a + 1 .. a + 2) = 2
        BY <4>2, FS_Interval
      <4> QED BY <3>2, <4>3 DEF PositionsOf, a
    <3> QED BY <3>1, <3>2
  <2> QED BY <2>2, <2>3, <2>4, FS_Difference
<1> HIDE DEF T
<1>7. /\ IsFiniteSet(qtdAllocated)
      /\ Cardinality(qtdAllocated) <= Cardinality(T)
      /\ Cardinality(qtdAllocated) \in Nat
  BY <1>5, <1>6, FS_Injection, FS_CardinalityType
<1>8. Cardinality(FreeQtds) = NumQtd - Cardinality(qtdAllocated)
  <2>1. IsFiniteSet(QtdIdx) /\ Cardinality(QtdIdx) = NumQtd
    BY FS_Interval DEF QtdIdx
  <2>2. QtdIdx \cap qtdAllocated = qtdAllocated
    BY DEF IInv, TypeOK
  <2> QED BY <2>1, <2>2, FS_Difference DEF FreeQtds
<1>9. QtdNeed(k) \in 1 .. 3 /\ (p # ControlPipe => QtdNeed(k) <= 2)
  <2>1. p # ControlPipe => PipesFor(k) = BulkPipes
    BY DEF FreePipes, PipesFor
  <2> QED BY <2>1, NeedRange
<1> QED BY <1>6, <1>7, <1>8, <1>9 DEF PoolLargeEnough

Shortage == \E c \in Clients : phase[c] = "waiting" /\ TooFewQtds(c)

LEMMA NoShortage ==
    ASSUME PoolLargeEnough, IInv
    PROVE  ~Shortage
<1> SUFFICES ASSUME NEW c \in Clients, phase[c] = "waiting", TooFewQtds(c)
             PROVE  FALSE
  BY DEF Shortage
<1>1. kind[c] \in Kinds
  BY DEF IInv, TypeOK
<1>2. PICK p \in FreePipes(kind[c]) : TRUE
  BY DEF TooFewQtds
<1>3. Cardinality(FreeQtds) >= QtdNeed(kind[c])
  BY <1>1, <1>2, EnoughLeft
<1>4. QtdNeed(kind[c]) \in Int
  BY <1>1, NeedRange
<1>5. Cardinality(FreeQtds) \in Int
  <2>1. IsFiniteSet(QtdIdx)
    BY NumQtdAssumption, FS_Interval DEF QtdIdx
  <2>2. IsFiniteSet(FreeQtds)
    BY <2>1, FS_Subset DEF FreeQtds
  <2> QED BY <2>2, FS_CardinalityType
<1> QED BY <1>3, <1>4, <1>5 DEF TooFewQtds

\* Without a shortage nothing panics.
LEMMA RunningStep ==
    ASSUME IInv, ~Shortage, Running, [Next]_vars
    PROVE  Running'
<1> SUFFICES ASSUME NEW c \in Clients
             PROVE  phase'[c] # "panicked"
  BY DEF Running
<1>1. DOMAIN phase = Clients /\ phase[c] # "panicked"
  BY DEF IInv, TypeOK, Running
<1>2. \A d \in Clients : ~Panic(d)
  BY DEF Shortage, Panic
<1>3. \A d \in Clients : \A v \in {"idle", "waiting", "holding"} :
         phase' = [phase EXCEPT ![d] = v] => phase'[c] # "panicked"
  BY <1>1
<1>4. CASE Next
  BY <1>2, <1>3, <1>4 DEF Next, Call, Begin, BeginFails, GiveUp, Release
<1>5. CASE UNCHANGED vars
  BY <1>1, <1>5 DEF vars
<1> QED BY <1>4, <1>5

\* With a pool of 3 + 2 * (NumQh - 1) qTDs no client that is granted a pipe ever
\* lacks a qTD: no transfer fails half way and do_alloc_interrupt_pipe never panics.
THEOREM NeverExhaustedHolds ==
    ASSUME PoolLargeEnough
    PROVE  Spec => []NeverExhausted
<1>1. Init => Running
  BY DEF Init, Running
<1>2. IInv /\ ~Shortage /\ Running /\ [Next]_vars => Running'
  BY RunningStep
<1>3. IInv => ~Shortage
  BY NoShortage
<1>4. ~Shortage /\ Running => NeverExhausted
  BY DEF Shortage, Running, NeverExhausted
<1> QED BY <1>1, <1>2, <1>3, <1>4, Invariance, PTL DEF Spec
=============================================================================
