-------------------------- MODULE EhciWordsProofs ---------------------------
(***************************************************************************)
(* What is read from the words of EhciWords is what was written into them, *)
(* by the driver and by the controller, for every address, endpoint,       *)
(* packet size, length, status and buffer in the ranges the code documents *)
(* (ConstantsOK), and whatever ran before.  A field of a word is first     *)
(* said bit by bit: which bits below 32 are one.                           *)
(***************************************************************************)
EXTENDS MCComponents, TLAPS

Bits == Memory!Bits

-----------------------------------------------------------------------------
(* Bits and fields *)

LEMMA ShlBits ==
    ASSUME NEW bits \in SUBSET Nat, NEW n \in Nat, NEW b \in Bits
    PROVE  b \in Memory!Shl(bits, n) <=> b - n \in bits
BY DEF Bits, Memory!Bits, Memory!Shl

\* The bits lo .. hi of a word are those of value.
Holds(word, lo, hi, value) ==
    /\ value \subseteq 0 .. hi - lo
    /\ \A b \in lo .. hi : b \in word <=> b - lo \in value

LEMMA FieldIs ==
    ASSUME NEW word, NEW lo \in Nat, NEW hi \in Nat, NEW value, Holds(word, lo, hi, value)
    PROVE  Memory!Field(word, lo, hi) = value
<1>1. ASSUME NEW c \in Memory!Field(word, lo, hi)
      PROVE  c \in value
  BY DEF Holds, Memory!Field
<1>2. ASSUME NEW c \in value
      PROVE  c \in Memory!Field(word, lo, hi)
  <2>1. c \in 0 .. hi - lo
    BY DEF Holds
  <2>2. c + lo \in lo .. hi /\ (c + lo) - lo = c
    BY <2>1
  <2> QED BY <2>2 DEF Holds, Memory!Field
<1> QED BY <1>1, <1>2

-----------------------------------------------------------------------------
(* The words of an endpoint *)

LEMMA CharacteristicsBits ==
    ASSUME NEW address \in SUBSET (0 .. 6), NEW number \in SUBSET (0 .. 3),
           NEW speed \in SUBSET {0, 1}, NEW size \in SUBSET (0 .. 10),
           NEW control \in BOOLEAN, NEW b \in Bits
    PROVE  b \in Memory!Characteristics(address, number, speed, size, control, FALSE) <=>
                \/ b \in address \/ b - 8 \in number \/ b - 12 \in speed
                \/ b - 16 \in size
                \/ control /\ b = 14
                \/ control /\ speed # Memory!SpeedHigh /\ b = 27
                \/ b - 28 \in 0 .. 3
<1>1. /\ number \in SUBSET Nat /\ speed \in SUBSET Nat /\ size \in SUBSET Nat
      /\ 0 .. 3 \in SUBSET Nat
  OBVIOUS
<1>2. /\ b \in Memory!Shl(number, 8) <=> b - 8 \in number
      /\ b \in Memory!Shl(speed, 12) <=> b - 12 \in speed
      /\ b \in Memory!Shl(size, 16) <=> b - 16 \in size
      /\ b \in Memory!Shl(0 .. 3, 28) <=> b - 28 \in 0 .. 3
  BY <1>1, ShlBits
<1>3. /\ b \in Memory!Flag(control, 14) <=> control /\ b = 14
      /\ b \in Memory!Flag(control /\ speed # Memory!SpeedHigh, 27) <=>
            control /\ speed # Memory!SpeedHigh /\ b = 27
      /\ b \notin Memory!Flag(FALSE, 15)
  BY DEF Memory!Flag
<1> QED BY <1>2, <1>3 DEF Memory!Characteristics

\* A word with the lower bits of another.
Agrees(word, full) == \A b \in 0 .. 27 : b \in word <=> b \in full

\* full is the word qh_characteristics makes of these arguments.
EndpointWord(full, address, number, speed, size, control) ==
    /\ address \in SUBSET (0 .. 6) /\ number \in SUBSET (0 .. 3)
    /\ speed \in SUBSET {0, 1} /\ size \in SUBSET (0 .. 10) /\ control \in BOOLEAN
    /\ full = Memory!Characteristics(address, number, speed, size, control, FALSE)

\* They are read from a word.
EndpointFields(word, address, number, speed, size, control) ==
    /\ Memory!Field(word, 0, 6) = address
    /\ 7 \notin word
    /\ Memory!Field(word, 8, 11) = number
    /\ Memory!Field(word, 12, 13) = speed
    /\ 14 \in word <=> control
    /\ 15 \notin word
    /\ Memory!Field(word, 16, 26) = size
    /\ 27 \in word <=> control /\ speed # Memory!SpeedHigh

LEMMA CharacteristicsFields ==
    ASSUME NEW address, NEW number, NEW speed, NEW size, NEW control, NEW full, NEW word,
           EndpointWord(full, address, number, speed, size, control), Agrees(word, full)
    PROVE  EndpointFields(word, address, number, speed, size, control)
<1>0. /\ address \in SUBSET (0 .. 6) /\ number \in SUBSET (0 .. 3)
      /\ speed \in SUBSET {0, 1} /\ size \in SUBSET (0 .. 10) /\ control \in BOOLEAN
      /\ full = Memory!Characteristics(address, number, speed, size, control, FALSE)
  BY DEF EndpointWord
<1>1. /\ \A c \in address : c \in 0 .. 6
      /\ \A c \in number : c \in 0 .. 3
      /\ \A c \in speed : c \in 0 .. 1
      /\ \A c \in size : c \in 0 .. 10
  BY <1>0
<1>2. ASSUME NEW b \in 0 .. 27
      PROVE  b \in word <=>
                \/ b \in address \/ b - 8 \in number \/ b - 12 \in speed
                \/ b - 16 \in size
                \/ control /\ b = 14
                \/ control /\ speed # Memory!SpeedHigh /\ b = 27
  <2>1. b \in Bits
    BY DEF Bits, Memory!Bits
  <2>2. b - 28 \notin 0 .. 3
    OBVIOUS
  <2>3. b \in full <=>
                \/ b \in address \/ b - 8 \in number \/ b - 12 \in speed
                \/ b - 16 \in size
                \/ control /\ b = 14
                \/ control /\ speed # Memory!SpeedHigh /\ b = 27
    BY <1>0, <2>1, <2>2, CharacteristicsBits
  <2> QED BY <2>3 DEF Agrees
<1>3. Memory!Field(word, 0, 6) = address
  <2>1. \A b \in 0 .. 6 : b \in word <=> b - 0 \in address
    BY <1>1, <1>2
  <2>2. address \subseteq 0 .. 6 - 0
    BY <1>1
  <2>3. Holds(word, 0, 6, address)
    BY <2>1, <2>2 DEF Holds
  <2> QED BY <2>3, FieldIs
<1>4. Memory!Field(word, 8, 11) = number
  <2>1. \A b \in 8 .. 11 : b \in word <=> b - 8 \in number
    BY <1>1, <1>2
  <2>2. number \subseteq 0 .. 11 - 8
    BY <1>1
  <2>3. Holds(word, 8, 11, number)
    BY <2>1, <2>2 DEF Holds
  <2> QED BY <2>3, FieldIs
<1>5. Memory!Field(word, 12, 13) = speed
  <2>1. \A b \in 12 .. 13 : b \in word <=> b - 12 \in speed
    BY <1>1, <1>2
  <2>2. speed \subseteq 0 .. 13 - 12
    BY <1>1
  <2>3. Holds(word, 12, 13, speed)
    BY <2>1, <2>2 DEF Holds
  <2> QED BY <2>3, FieldIs
<1>6. Memory!Field(word, 16, 26) = size
  <2>1. \A b \in 16 .. 26 : b \in word <=> b - 16 \in size
    BY <1>1, <1>2
  <2>2. size \subseteq 0 .. 26 - 16
    BY <1>1
  <2>3. Holds(word, 16, 26, size)
    BY <2>1, <2>2 DEF Holds
  <2> QED BY <2>3, FieldIs
<1>7. /\ 7 \notin word /\ 15 \notin word /\ (14 \in word <=> control)
      /\ 27 \in word <=> control /\ speed # Memory!SpeedHigh
  BY <1>1, <1>2
<1> QED BY <1>3, <1>4, <1>5, <1>6, <1>7 DEF EndpointFields

LEMMA CapabilitiesFields ==
    ASSUME NEW smask \in SUBSET {0}
    PROVE  LET word == Memory!Capabilities(smask, {}, {}, {}, {0})
           IN  /\ Memory!Field(word, 0, 7) = smask
               /\ Memory!Field(word, 8, 15) = {}
               /\ Memory!Field(word, 30, 31) = {0}
               /\ word \in Memory!Words
<1>1. PICK word : word = Memory!Capabilities(smask, {}, {}, {}, {0})
  OBVIOUS
<1>2. Memory!Shl({}, 8) = {} /\ Memory!Shl({}, 16) = {} /\ Memory!Shl({}, 23) = {}
  BY DEF Memory!Shl
<1>3. Memory!Shl({0}, 30) = {30}
  BY DEF Memory!Shl, Memory!Bits
<1>4. word = smask \cup {30}
  BY <1>1, <1>2, <1>3 DEF Memory!Capabilities
<1>5. \A c \in smask : c = 0
  OBVIOUS
<1>6. Memory!Field(word, 0, 7) = smask
  <2>1. Holds(word, 0, 7, smask)
    BY <1>4, <1>5 DEF Holds
  <2> QED BY <2>1, FieldIs
<1>7. Memory!Field(word, 8, 15) = {}
  <2>1. Holds(word, 8, 15, {})
    BY <1>4, <1>5 DEF Holds
  <2> QED BY <2>1, FieldIs
<1>8. Memory!Field(word, 30, 31) = {0}
  <2>1. Holds(word, 30, 31, {0})
    BY <1>4, <1>5 DEF Holds
  <2> QED BY <2>1, FieldIs
<1>9. word \in Memory!Words
  BY <1>4, <1>5 DEF Memory!Words, Memory!Bits
<1> QED BY <1>1, <1>6, <1>7, <1>8, <1>9

-----------------------------------------------------------------------------
(* The token of a qTD, from the driver and from the controller *)

LEMMA TokenBits ==
    ASSUME NEW pid \in SUBSET {0, 1}, NEW total \in SUBSET (0 .. 14), NEW toggle \in BOOLEAN,
           NEW ioc \in BOOLEAN, NEW b \in Bits
    PROVE  b \in Memory!QtdToken(pid, total, toggle, ioc) <=>
                \/ b = 7 \/ b - 8 \in pid \/ b - 10 \in {0, 1} \/ b - 16 \in total
                \/ toggle /\ b = 31
                \/ ioc /\ b = 15
<1>1. pid \in SUBSET Nat /\ total \in SUBSET Nat /\ {0, 1} \in SUBSET Nat
  OBVIOUS
<1>2. /\ b \in Memory!Shl(pid, 8) <=> b - 8 \in pid
      /\ b \in Memory!Shl({0, 1}, 10) <=> b - 10 \in {0, 1}
      /\ b \in Memory!Shl(total, 16) <=> b - 16 \in total
  BY <1>1, ShlBits
<1>3. /\ b \in Memory!Flag(toggle, Memory!Toggle) <=> toggle /\ b = 31
      /\ b \in Memory!Flag(ioc, 15) <=> ioc /\ b = 15
  BY DEF Memory!Flag, Memory!Toggle
<1> QED BY <1>2, <1>3 DEF Memory!QtdToken, Memory!Active

\* word is the token qtd_token makes of these arguments.
TokenWord(word, pid, total, toggle, ioc) ==
    /\ pid \in SUBSET {0, 1} /\ total \in SUBSET (0 .. 14)
    /\ toggle \in BOOLEAN /\ ioc \in BOOLEAN
    /\ word = Memory!QtdToken(pid, total, toggle, ioc)

\* They are read from it.
TokenRead(word, pid, total, toggle, ioc) ==
    /\ 7 \in word /\ 6 \notin word
    /\ Memory!Field(word, 8, 9) = pid
    /\ Memory!Field(word, 10, 11) = {0, 1}
    /\ Memory!Field(word, 12, 14) = {}
    /\ 15 \in word <=> ioc
    /\ Memory!Field(word, 16, 30) = total
    /\ 31 \in word <=> toggle

LEMMA TokenFields ==
    ASSUME NEW pid, NEW total, NEW toggle, NEW ioc, NEW word,
           TokenWord(word, pid, total, toggle, ioc)
    PROVE  TokenRead(word, pid, total, toggle, ioc)
<1>0. /\ pid \in SUBSET {0, 1} /\ total \in SUBSET (0 .. 14)
      /\ toggle \in BOOLEAN /\ ioc \in BOOLEAN
      /\ word = Memory!QtdToken(pid, total, toggle, ioc)
  BY DEF TokenWord
<1>1. (\A c \in pid : c \in 0 .. 1) /\ \A c \in total : c \in 0 .. 14
  BY <1>0
<1>2. ASSUME NEW b \in 0 .. 31
      PROVE  b \in word <=>
                \/ b = 7 \/ b - 8 \in pid \/ b = 10 \/ b = 11 \/ b - 16 \in total
                \/ toggle /\ b = 31
                \/ ioc /\ b = 15
  <2>1. b \in Bits
    BY DEF Bits, Memory!Bits
  <2>2. b - 10 \in {0, 1} <=> b = 10 \/ b = 11
    OBVIOUS
  <2> QED BY <1>0, <2>1, <2>2, TokenBits
<1>3. Memory!Field(word, 8, 9) = pid
  <2>1. Holds(word, 8, 9, pid)
    BY <1>1, <1>2 DEF Holds
  <2> QED BY <2>1, FieldIs
<1>4. Memory!Field(word, 10, 11) = {0, 1}
  <2>1. Holds(word, 10, 11, {0, 1})
    BY <1>1, <1>2 DEF Holds
  <2> QED BY <2>1, FieldIs
<1>5. Memory!Field(word, 12, 14) = {}
  <2>1. Holds(word, 12, 14, {})
    BY <1>1, <1>2 DEF Holds
  <2> QED BY <2>1, FieldIs
<1>6. Memory!Field(word, 16, 30) = total
  <2>1. Holds(word, 16, 30, total)
    BY <1>1, <1>2 DEF Holds
  <2> QED BY <2>1, FieldIs
<1>7. /\ 7 \in word /\ 6 \notin word /\ (15 \in word <=> ioc)
      /\ 31 \in word <=> toggle
  BY <1>1, <1>2
<1> QED BY <1>3, <1>4, <1>5, <1>6, <1>7 DEF TokenRead

\* What the controller writes back.
Retired(bits, pid, left, toggle, ioc) ==
    bits \cup Memory!Shl(pid, 8) \cup Memory!Shl(left, 16)
        \cup Memory!Flag(toggle, Memory!Toggle) \cup Memory!Flag(ioc, 15)

LEMMA RetiredFields ==
    ASSUME NEW bits \in SUBSET (0 .. 6), NEW pid \in SUBSET {0, 1}, NEW left \in SUBSET (0 .. 14),
           NEW toggle \in BOOLEAN, NEW ioc \in BOOLEAN,
           NEW word, word = Retired(bits, pid, left, toggle, ioc)
    PROVE  /\ 7 \notin word
           /\ \A b \in 2 .. 6 : b \in word <=> b \in bits
           /\ Memory!Field(word, 16, 30) = left
           /\ 31 \in word <=> toggle
<1>1. /\ \A c \in bits : c \in 0 .. 6
      /\ \A c \in pid : c \in 0 .. 1
      /\ \A c \in left : c \in 0 .. 14
  OBVIOUS
<1>2. ASSUME NEW b \in 0 .. 31
      PROVE  b \in word <=>
                \/ b \in bits \/ b - 8 \in pid \/ b - 16 \in left
                \/ toggle /\ b = 31
                \/ ioc /\ b = 15
  <2>1. b \in Bits /\ pid \in SUBSET Nat /\ left \in SUBSET Nat
    BY DEF Bits, Memory!Bits
  <2>2. /\ b \in Memory!Shl(pid, 8) <=> b - 8 \in pid
        /\ b \in Memory!Shl(left, 16) <=> b - 16 \in left
    BY <2>1, ShlBits
  <2>3. /\ b \in Memory!Flag(toggle, Memory!Toggle) <=> toggle /\ b = 31
        /\ b \in Memory!Flag(ioc, 15) <=> ioc /\ b = 15
    BY DEF Memory!Flag, Memory!Toggle
  <2> QED BY <2>2, <2>3 DEF Retired
<1>3. Memory!Field(word, 16, 30) = left
  <2>1. Holds(word, 16, 30, left)
    BY <1>1, <1>2 DEF Holds
  <2> QED BY <2>1, FieldIs
<1>4. 7 \notin word /\ (31 \in word <=> toggle)
  BY <1>1, <1>2
<1>5. \A b \in 2 .. 6 : b \in word <=> b \in bits
  BY <1>1, <1>2
<1> QED BY <1>3, <1>4, <1>5

-----------------------------------------------------------------------------
(* Links and pages *)

LEMMA LinkFields ==
    ASSUME NEW addr \in SUBSET (6 .. 31)
    PROVE  /\ Memory!LinkAddress(Memory!LinkPointer(addr, Memory!TypeQh)) = addr
           /\ Memory!Field(Memory!LinkPointer(addr, Memory!TypeQh), 0, 2) = {1}
<1>1. PICK link : link = Memory!LinkPointer(addr, Memory!TypeQh)
  OBVIOUS
<1>2. link = addr \cup {1} /\ \A c \in addr : c \in 6 .. 31
  BY <1>1 DEF Memory!LinkPointer, Memory!TypeQh
<1>3. Memory!LinkAddress(link) = addr
  BY <1>2 DEF Memory!LinkAddress
<1>4. Holds(link, 0, 2, {1})
  BY <1>2 DEF Holds
<1>5. Memory!Field(link, 0, 2) = {1}
  BY <1>4, FieldIs
<1> QED BY <1>1, <1>3, <1>5

\* Where byte k of a buffer at data is, if five pointers reach it.
LEMMA PageOfByte ==
    ASSUME NEW data \in Nat, NEW k \in Nat, (data % 4096) + k < 5 * 4096
    PROVE  LET n == (data % 4096) + k
               base == IF n \div 4096 = 0 THEN data
                       ELSE (data - (data % 4096)) + (n \div 4096) * 4096
           IN  /\ n \in Nat /\ n \div 4096 \in 0 .. 4
               /\ (base - (base % 4096)) + (n % 4096) = data + k
OBVIOUS

-----------------------------------------------------------------------------
(* The invariant *)

\* A schedule without the QH.
Rest(s) == IF s = "async" THEN Memory!LinkPointer(SentinelAddr, Memory!TypeQh)
           ELSE Memory!Terminate

\* The QH is in its schedule and the rest behind it.
HeadsInv ==
    /\ heads = [s \in Memory!Schedules |->
          IF Memory!IsLinked /\ s = Memory!ScheduleOf(asked)
          THEN Memory!LinkPointer(QhAddr, Memory!TypeQh) ELSE Rest(s)]
    /\ Memory!IsLinked => qh.link = Rest(Memory!ScheduleOf(asked))

IsQh(q) == q = [link |-> q.link, characteristics |-> q.characteristics,
                capabilities |-> q.capabilities, next |-> q.next, token |-> q.token]

\* The endpoint's words are those of the transfer asked for, from the building on.
QhInv ==
    stage # "idle" =>
        /\ asked \in Memory!Transfers /\ IsQh(qh) /\ told.toggle \in BOOLEAN
        /\ qh.characteristics = Memory!CharacteristicsOf(asked)
        /\ qh.capabilities = Memory!CapabilitiesOf(asked)

\* The qTD and the overlay are ready for the controller, with the toggle where the
\* controller takes it from.
ReadyInv ==
    stage \in {"built", "linked"} =>
        /\ qtd = Memory!InitQtd(Memory!TokenOf(asked), asked.data)
        /\ qh.next = QtdAddr /\ 6 \notin qh.token /\ 7 \notin qh.token
        /\ IF asked.kind = "control" THEN asked.toggle = told.toggle
           ELSE 31 \in qh.token <=> told.toggle

\* The controller has written one word into both.
RetiredInv ==
    stage = "retired" =>
        /\ told.status \in SUBSET (0 .. 6) /\ told.left \in SUBSET (0 .. 14)
        /\ qtd.token = Retired(told.status, asked.pid, told.left, told.toggle, asked.ioc)
        /\ qh.token = qtd.token

WordsInv ==
    /\ stage \in {"idle", "built", "linked", "retired"}
    /\ HeadsInv /\ QhInv /\ ReadyInv /\ RetiredInv

LEMMA TransferTypes ==
    ASSUME Memory!ConstantsOK, NEW x \in Memory!Transfers
    PROVE  /\ x.kind \in {"control", "bulk", "interrupt"}
           /\ x.address \in SUBSET (0 .. 6) /\ x.number \in SUBSET (0 .. 3)
           /\ x.speed \in SUBSET {0, 1} /\ x.packetSize \in SUBSET (0 .. 10)
           /\ x.pid \in SUBSET {0, 1} /\ x.total \in SUBSET (0 .. 14)
           /\ x.toggle \in BOOLEAN /\ x.ioc \in BOOLEAN /\ x.data \in Nat
<1>1. /\ x.kind \in {"control", "bulk", "interrupt"}
      /\ x.address \in Addresses /\ x.number \in Numbers
      /\ x.speed \in {Memory!SpeedFull, Memory!SpeedLow, Memory!SpeedHigh}
      /\ x.packetSize \in PacketSizes
      /\ x.pid \in {Memory!PidOut, Memory!PidIn, Memory!PidSetup}
      /\ x.total \in Lengths \cup PacketSizes
      /\ x.toggle \in BOOLEAN /\ x.ioc \in BOOLEAN /\ x.data \in Buffers
  BY DEF Memory!Transfers
<1>2. x.speed \in SUBSET {0, 1} /\ x.pid \in SUBSET {0, 1}
  BY <1>1 DEF Memory!SpeedFull, Memory!SpeedLow, Memory!SpeedHigh, Memory!PidOut, Memory!PidIn,
              Memory!PidSetup
<1>3. x.address \in SUBSET (0 .. 6) /\ x.number \in SUBSET (0 .. 3) /\ x.data \in Nat
  BY <1>1 DEF Memory!ConstantsOK
<1>4. x.packetSize \in SUBSET (0 .. 10)
  BY <1>1 DEF Memory!ConstantsOK
<1>5. x.total \in SUBSET (0 .. 14)
  <2>1. CASE x.total \in Lengths
    BY <2>1 DEF Memory!ConstantsOK
  <2>2. CASE x.total \in PacketSizes
    <3>1. x.total \in SUBSET (0 .. 10)
      BY <2>2 DEF Memory!ConstantsOK
    <3> QED BY <3>1
  <2> QED BY <1>1, <2>1, <2>2
<1> QED BY <1>1, <1>2, <1>3, <1>4, <1>5

\* The packet size in the QH fits its field.
LEMMA PacketSizeFits ==
    ASSUME Memory!ConstantsOK, NEW x \in Memory!Transfers
    PROVE  Memory!ActualPacketSize(x) \in SUBSET (0 .. 10)
<1>1. x.packetSize \in SUBSET (0 .. 10)
  BY TransferTypes
<1>2. {9} \in SUBSET (0 .. 10)
  OBVIOUS
<1> QED BY <1>1, <1>2 DEF Memory!ActualPacketSize

\* An interrupt transfer starts with DATA0.
LEMMA InterruptTransfer ==
    ASSUME NEW x \in Memory!Transfers
    PROVE  x.kind = "interrupt" => ~x.toggle
BY DEF Memory!Transfers

LEMMA BuiltWords ==
    ASSUME NEW x, x.toggle \in BOOLEAN, NEW q, q = Memory!BuiltQh(x)
    PROVE  /\ IsQh(q)
           /\ q.characteristics = Memory!CharacteristicsOf(x)
           /\ q.capabilities = Memory!CapabilitiesOf(x)
           /\ q.next = QtdAddr /\ 6 \notin q.token /\ 7 \notin q.token
           /\ 31 \in q.token <=> (x.kind # "control" /\ x.toggle)
<1>1. PICK c, m : c = Memory!CharacteristicsOf(x) /\ m = Memory!CapabilitiesOf(x)
  OBVIOUS
<1>2. PICK r : r = Memory!InitEndpoint(c, m)
  OBVIOUS
<1>3. r = [link |-> Memory!Terminate, characteristics |-> c, capabilities |-> m,
           next |-> Memory!Terminate, token |-> {6}]
  BY <1>2 DEF Memory!InitEndpoint, Memory!Halted
<1>4. PICK p : p = Memory!AttachQtd(r, QtdAddr)
  OBVIOUS
<1>5. p = [link |-> Memory!Terminate, characteristics |-> c, capabilities |-> m,
           next |-> QtdAddr, token |-> {}]
  <2>1. p = [[r EXCEPT !.next = QtdAddr] EXCEPT !.token = {}]
    BY <1>4 DEF Memory!AttachQtd
  <2>2. PICK u : u = [r EXCEPT !.next = QtdAddr]
    OBVIOUS
  <2>3. u = [link |-> Memory!Terminate, characteristics |-> c, capabilities |-> m,
             next |-> QtdAddr, token |-> {6}]
    BY <1>3, <2>2
  <2>4. p = [u EXCEPT !.token = {}]
    BY <2>1, <2>2
  <2> QED BY <2>3, <2>4
<1>6. PICK v : v = Memory!SetOverlayToggle(p, TRUE)
  OBVIOUS
<1>7. v = [link |-> Memory!Terminate, characteristics |-> c, capabilities |-> m,
           next |-> QtdAddr, token |-> {31}]
  BY <1>5, <1>6 DEF Memory!SetOverlayToggle, Memory!Toggle
<1>8. q = IF x.kind # "control" /\ x.toggle THEN v ELSE p
  BY <1>1, <1>2, <1>4, <1>6 DEF Memory!BuiltQh
<1>9. \E w \in {{}, {31}} :
        /\ q = [link |-> Memory!Terminate, characteristics |-> c, capabilities |-> m,
                next |-> QtdAddr, token |-> w]
        /\ w = {31} <=> (x.kind # "control" /\ x.toggle)
  BY <1>5, <1>7, <1>8
<1>10. PICK w \in {{}, {31}} :
        /\ q = [link |-> Memory!Terminate, characteristics |-> c, capabilities |-> m,
                next |-> QtdAddr, token |-> w]
        /\ w = {31} <=> (x.kind # "control" /\ x.toggle)
  BY <1>9
<1>11. /\ q.link = Memory!Terminate /\ q.characteristics = c /\ q.capabilities = m
       /\ q.next = QtdAddr /\ q.token = w
  BY <1>10
<1>12. IsQh(q)
  BY <1>10, <1>11 DEF IsQh
<1>13. 6 \notin w /\ 7 \notin w /\ (31 \in w <=> w = {31})
  BY <1>10
<1> QED BY <1>1, <1>10, <1>11, <1>12, <1>13

LEMMA WordsInit ==
    ASSUME Memory!Init
    PROVE  WordsInv
<1>1. stage = "idle" /\ ~Memory!IsLinked
  BY DEF Memory!Init, Memory!IsLinked
<1>2. heads = [s \in Memory!Schedules |-> Rest(s)]
  BY DEF Memory!Init, Memory!InitSentinel, Rest
<1> QED BY <1>1, <1>2 DEF WordsInv, HeadsInv, QhInv, ReadyInv, RetiredInv

LEMMA BuildStep ==
    ASSUME Memory!ConstantsOK, WordsInv, NEW x \in Memory!Transfers, Memory!Build(x)
    PROVE  WordsInv'
<1>1. /\ stage = "idle" /\ stage' = "built" /\ asked' = x /\ heads' = heads
      /\ qtd' = Memory!InitQtd(Memory!TokenOf(x), x.data) /\ qh' = Memory!BuiltQh(x)
      /\ told' = [Memory!NotTold EXCEPT !.toggle = x.toggle]
  BY DEF Memory!Build
<1>2. told'.toggle = x.toggle /\ x.toggle \in BOOLEAN
  BY <1>1, TransferTypes DEF Memory!NotTold
<1>3. PICK q : q = qh'
  OBVIOUS
<1>4. /\ IsQh(q)
      /\ q.characteristics = Memory!CharacteristicsOf(x)
      /\ q.capabilities = Memory!CapabilitiesOf(x)
      /\ q.next = QtdAddr /\ 6 \notin q.token /\ 7 \notin q.token
      /\ 31 \in q.token <=> (x.kind # "control" /\ x.toggle)
  BY <1>1, <1>2, <1>3, BuiltWords
<1>5. QhInv'
  BY <1>1, <1>2, <1>3, <1>4 DEF QhInv, IsQh
<1>6. ReadyInv'
  BY <1>1, <1>2, <1>3, <1>4 DEF ReadyInv
<1>7. HeadsInv'
  BY <1>1 DEF WordsInv, HeadsInv, Memory!IsLinked
<1>8. RetiredInv'
  BY <1>1 DEF RetiredInv
<1> QED BY <1>1, <1>5, <1>6, <1>7, <1>8 DEF WordsInv

LEMMA LinkStep ==
    ASSUME WordsInv, Memory!Link
    PROVE  WordsInv'
<1>1. PICK s : s = Memory!ScheduleOf(asked) /\ s \in Memory!Schedules
  BY DEF Memory!ScheduleOf, Memory!Schedules
<1>2. /\ stage = "built" /\ stage' = "linked" /\ asked' = asked /\ qtd' = qtd /\ told' = told
      /\ qh' = [qh EXCEPT !.link = heads[s]]
      /\ heads' = [heads EXCEPT ![s] = Memory!LinkPointer(QhAddr, Memory!TypeQh)]
  BY <1>1 DEF Memory!Link
<1>3. heads = [t \in Memory!Schedules |-> Rest(t)]
  BY <1>2 DEF WordsInv, HeadsInv, Memory!IsLinked
<1>4. PICK q, p, l : q = qh' /\ p = qh /\ l = heads[s] /\ l = Rest(s)
  BY <1>1, <1>3
<1>5. IsQh(p)
  BY <1>2, <1>4 DEF WordsInv, QhInv
<1>6. q = [p EXCEPT !.link = l]
  BY <1>2, <1>4
<1>7. /\ IsQh(q) /\ q.link = l /\ q.characteristics = p.characteristics
      /\ q.capabilities = p.capabilities /\ q.next = p.next /\ q.token = p.token
  BY <1>5, <1>6 DEF IsQh
<1>8. HeadsInv'
  <2>1. Memory!IsLinked' /\ Memory!ScheduleOf(asked)' = s
    BY <1>1, <1>2 DEF Memory!IsLinked, Memory!ScheduleOf
  <2>2. heads' = [t \in Memory!Schedules |->
            IF t = s THEN Memory!LinkPointer(QhAddr, Memory!TypeQh) ELSE Rest(t)]
    BY <1>1, <1>2, <1>3
  <2> QED BY <1>4, <1>7, <2>1, <2>2 DEF HeadsInv, Rest
<1>9. QhInv'
  BY <1>2, <1>4, <1>7 DEF WordsInv, QhInv, IsQh, Memory!CharacteristicsOf,
     Memory!ActualPacketSize, Memory!CapabilitiesOf
<1>10. ReadyInv'
  BY <1>2, <1>4, <1>7 DEF WordsInv, ReadyInv
<1>11. RetiredInv'
  BY <1>2 DEF RetiredInv
<1> QED BY <1>2, <1>8, <1>9, <1>10, <1>11 DEF WordsInv

LEMMA RetireStep ==
    ASSUME Memory!ConstantsOK, WordsInv, NEW left, NEW bits \in SUBSET (0 .. 6),
           NEW toggle \in BOOLEAN, Memory!Retire(left, bits, toggle)
    PROVE  WordsInv'
<1>1. PICK token : token = Retired(bits, asked.pid, left, toggle, asked.ioc)
  OBVIOUS
<1>2. /\ stage = "linked" /\ stage' = "retired" /\ asked' = asked /\ heads' = heads
      /\ left \subseteq asked.total
      /\ qtd' = [qtd EXCEPT !.token = token]
      /\ qh' = [qh EXCEPT !.token = token, !.next = qtd.next]
      /\ told' = [left |-> left, status |-> bits, toggle |-> toggle]
  BY <1>1 DEF Memory!Retire, Retired
<1>3. asked.total \in SUBSET (0 .. 14)
  BY <1>2, TransferTypes DEF WordsInv, QhInv
<1>4. told'.left \in SUBSET (0 .. 14) /\ told'.status = bits /\ told'.toggle = toggle
  BY <1>2, <1>3
<1>5. qtd'.token = token
  <2>1. qtd = Memory!InitQtd(Memory!TokenOf(asked), asked.data)
    BY <1>2 DEF WordsInv, ReadyInv
  <2> QED BY <1>2, <2>1 DEF Memory!InitQtd
<1>6. PICK q, p, n : q = qh' /\ p = qh /\ n = qtd.next
  OBVIOUS
<1>7. IsQh(p)
  BY <1>2, <1>6 DEF WordsInv, QhInv
<1>8. q = [p EXCEPT !.token = token, !.next = n]
  BY <1>2, <1>6
<1>9. q = [link |-> p.link, characteristics |-> p.characteristics,
           capabilities |-> p.capabilities, next |-> n, token |-> token]
  BY <1>7, <1>8 DEF IsQh
<1>10. /\ q.link = p.link /\ q.characteristics = p.characteristics
       /\ q.capabilities = p.capabilities /\ q.next = n /\ q.token = token
  BY <1>9
<1>11. IsQh(q)
  BY <1>9, <1>10 DEF IsQh
<1>12. HeadsInv'
  BY <1>2, <1>6, <1>10 DEF WordsInv, HeadsInv, Memory!IsLinked, Memory!ScheduleOf, Rest
<1>13. QhInv'
  BY <1>2, <1>4, <1>6, <1>10, <1>11
     DEF WordsInv, QhInv, IsQh, Memory!CharacteristicsOf, Memory!ActualPacketSize,
         Memory!CapabilitiesOf
<1>14. ReadyInv'
  BY <1>2 DEF ReadyInv
<1>15. RetiredInv'
  <2>1. qtd'.token = Retired(told'.status, asked'.pid, told'.left, told'.toggle, asked'.ioc)
    BY <1>1, <1>2, <1>4, <1>5
  <2> QED BY <1>4, <1>5, <1>6, <1>10, <2>1 DEF RetiredInv, Retired
<1> QED BY <1>2, <1>12, <1>13, <1>14, <1>15 DEF WordsInv

LEMMA RearmStep ==
    ASSUME Memory!ConstantsOK, WordsInv, Memory!Rearm
    PROVE  WordsInv'
<1>1. /\ stage = "retired" /\ stage' = "linked" /\ asked' = asked /\ heads' = heads
      /\ told' = told /\ asked.kind = "interrupt" /\ 6 \notin qtd.token
      /\ qtd' = Memory!InitQtd(Memory!TokenOf(asked), asked.data)
      /\ qh' = [qh EXCEPT !.next = QtdAddr]
  BY DEF Memory!Rearm, Memory!ReattachQtd, Memory!Halted
<1>2. PICK q, p : q = qh' /\ p = qh
  OBVIOUS
<1>3. IsQh(p) /\ asked \in Memory!Transfers /\ told.toggle \in BOOLEAN
  BY <1>1, <1>2 DEF WordsInv, QhInv
<1>4. q = [p EXCEPT !.next = QtdAddr]
  BY <1>1, <1>2
<1>5. q = [link |-> p.link, characteristics |-> p.characteristics,
           capabilities |-> p.capabilities, next |-> QtdAddr, token |-> p.token]
  BY <1>3, <1>4 DEF IsQh
<1>6. /\ q.link = p.link /\ q.characteristics = p.characteristics
      /\ q.capabilities = p.capabilities /\ q.next = QtdAddr /\ q.token = p.token
  BY <1>5
<1>7. IsQh(q)
  BY <1>5, <1>6 DEF IsQh
<1>8. 6 \notin p.token /\ 7 \notin p.token /\ (31 \in p.token <=> told.toggle)
  <2>1. /\ told.status \in SUBSET (0 .. 6) /\ told.left \in SUBSET (0 .. 14)
        /\ p.token = Retired(told.status, asked.pid, told.left, told.toggle, asked.ioc)
        /\ p.token = qtd.token
    BY <1>1, <1>2 DEF WordsInv, RetiredInv
  <2>2. asked.pid \in SUBSET {0, 1} /\ asked.ioc \in BOOLEAN
    BY <1>3, TransferTypes
  <2>3. PICK bits \in SUBSET (0 .. 6), left \in SUBSET (0 .. 14) :
            p.token = Retired(bits, asked.pid, left, told.toggle, asked.ioc)
    BY <2>1
  <2>4. 7 \notin p.token /\ (31 \in p.token <=> told.toggle)
    BY <1>3, <2>2, <2>3, RetiredFields
  <2> QED BY <1>1, <2>1, <2>4
<1>9. HeadsInv'
  BY <1>1, <1>2, <1>6 DEF WordsInv, HeadsInv, Memory!IsLinked, Memory!ScheduleOf, Rest
<1>10. QhInv'
  BY <1>1, <1>2, <1>3, <1>6, <1>7
     DEF WordsInv, QhInv, IsQh, Memory!CharacteristicsOf, Memory!ActualPacketSize,
         Memory!CapabilitiesOf
<1>11. ReadyInv'
  BY <1>1, <1>2, <1>6, <1>8 DEF ReadyInv, Memory!TokenOf
<1>12. RetiredInv'
  BY <1>1 DEF RetiredInv
<1> QED BY <1>1, <1>9, <1>10, <1>11, <1>12 DEF WordsInv

LEMMA UnlinkStep ==
    ASSUME Memory!ConstantsOK, WordsInv, Memory!Unlink
    PROVE  WordsInv'
<1>1. /\ stage \in {"linked", "retired"} /\ stage' = "idle"
      /\ heads' = [s \in Memory!Schedules |->
            IF s = Memory!ScheduleOf(asked)
               /\ Memory!LinkAddress(heads[s]) = Memory!LinkAddress(QhAddr)
            THEN qh.link ELSE heads[s]]
  BY DEF Memory!Unlink
<1>2. Memory!LinkAddress(Memory!LinkPointer(QhAddr, Memory!TypeQh)) = Memory!LinkAddress(QhAddr)
  <2>1. QhAddr \in SUBSET (6 .. 31)
    BY DEF Memory!ConstantsOK
  <2>2. Memory!LinkAddress(QhAddr) = QhAddr
    BY <2>1 DEF Memory!LinkAddress
  <2> QED BY <2>1, <2>2, LinkFields
<1>3. /\ heads = [s \in Memory!Schedules |->
            IF s = Memory!ScheduleOf(asked)
            THEN Memory!LinkPointer(QhAddr, Memory!TypeQh) ELSE Rest(s)]
      /\ qh.link = Rest(Memory!ScheduleOf(asked))
  BY <1>1 DEF WordsInv, HeadsInv, Memory!IsLinked
<1>4. heads' = [s \in Memory!Schedules |-> Rest(s)]
  BY <1>1, <1>2, <1>3
<1>5. HeadsInv'
  BY <1>1, <1>4 DEF HeadsInv, Memory!IsLinked, Rest
<1> QED BY <1>1, <1>5 DEF WordsInv, QhInv, ReadyInv, RetiredInv

LEMMA WordsStep ==
    ASSUME Memory!ConstantsOK, WordsInv, [Memory!Next]_wordVars
    PROVE  WordsInv'
<1>1. ASSUME NEW x \in Memory!Transfers, Memory!Build(x)
      PROVE  WordsInv'
  BY <1>1, BuildStep
<1>2. ASSUME NEW left \in Lengths \cup PacketSizes, NEW bits \in Statuses,
             NEW toggle \in BOOLEAN, Memory!Retire(left, bits, toggle)
      PROVE  WordsInv'
  <2>1. bits \in SUBSET (0 .. 6)
    BY DEF Memory!ConstantsOK
  <2> QED BY <1>2, <2>1, RetireStep
<1>3. CASE UNCHANGED wordVars
  BY <1>3 DEF wordVars, WordsInv, HeadsInv, QhInv, ReadyInv, RetiredInv, Memory!IsLinked,
              Memory!ScheduleOf, IsQh, Rest, Memory!CharacteristicsOf, Memory!ActualPacketSize,
              Memory!CapabilitiesOf,
              Memory!TokenOf, Retired
<1> QED BY <1>1, <1>2, <1>3, LinkStep, RearmStep, UnlinkStep DEF Memory!Next

LEMMA WordsAlways ==
    ASSUME Memory!ConstantsOK
    PROVE  EachSpec => []WordsInv
<1>1. EachInit => WordsInv
  BY WordsInit DEF EachInit
<1>2. WordsInv /\ [EachNext \/ StartNext]_allVars => WordsInv'
  <2>1. ASSUME [EachNext \/ StartNext]_allVars
        PROVE  [Memory!Next]_wordVars
    BY <2>1 DEF EachNext, StartNext, allVars
  <2> QED BY <2>1, WordsStep
<1>3. EachSpec => EachInit /\ [][EachNext \/ StartNext]_allVars
  BY PTL DEF EachSpec
<1> QED BY <1>1, <1>2, <1>3, PTL

-----------------------------------------------------------------------------
(* What is read *)

\* The controller and the walks of the driver find the QH in its schedule and only there,
\* and unlinking leaves the schedule as it was (schedule.rs:117-171, 188-236), for every
\* address of the alignment ehci.rs asks for.
THEOREM LinksReadHolds ==
    ASSUME Memory!ConstantsOK
    PROVE  EachSpec => []LinksRead
<1>1. ASSUME WordsInv PROVE LinksRead
  <2>1. PICK s : s = Memory!ScheduleOf(asked) /\ s \in Memory!Schedules
    BY DEF Memory!ScheduleOf, Memory!Schedules
  <2>2. QhAddr \in SUBSET (6 .. 31) /\ SentinelAddr \in SUBSET (6 .. 31)
    BY DEF Memory!ConstantsOK
  <2>3. Memory!IsLinked =>
            /\ heads[s] = Memory!LinkPointer(QhAddr, Memory!TypeQh)
            /\ qh.link = Rest(s)
    BY <1>1, <2>1 DEF WordsInv, HeadsInv
  <2>4. ASSUME NEW t \in Memory!Schedules
        PROVE  (IF Memory!IsLinked /\ t = s THEN qh.link ELSE heads[t]) = Rest(t)
    BY <1>1, <2>1, <2>3 DEF WordsInv, HeadsInv
  <2>5. Memory!LinkIsTerminate(Rest("periodic"))
    BY DEF Rest, Memory!LinkIsTerminate, Memory!Terminate
  <2>6. Rest("async") = Memory!LinkPointer(SentinelAddr, Memory!TypeQh)
    BY DEF Rest
  <2>7. /\ Memory!LinkAddress(Rest("async")) = SentinelAddr
        /\ Memory!Field(Rest("async"), 0, 2) = {1}
    BY <2>2, <2>6, LinkFields
  <2>8. Memory!IsLinked =>
            Memory!LinkAddress(heads[s]) = QhAddr /\ Memory!Field(heads[s], 0, 2) = {1}
    BY <2>2, <2>3, LinkFields
  <2>9. "async" \in Memory!Schedules /\ "periodic" \in Memory!Schedules
    BY DEF Memory!Schedules
  <2> QED BY <2>1, <2>4, <2>5, <2>7, <2>8, <2>9 DEF LinksRead, Memory!LinksRead
<1> QED BY <1>1, WordsAlways, PTL

\* The controller reads from the QH the endpoint that was asked for, with 512-byte packets
\* for a High-Speed bulk endpoint asked with less (ehci.rs:383-439, transfer.rs:412-435 and
\* 607-623): whatever the address, the number, the speed and the packet size, no argument
\* runs into another's bits.
THEOREM EndpointReadHolds ==
    ASSUME Memory!ConstantsOK
    PROVE  EachSpec => []EndpointRead
<1>1. ASSUME WordsInv, Memory!IsLinked
      PROVE  Memory!HcEndpoint(qh) =
            [address |-> asked.address, inactivate |-> FALSE,
             number |-> asked.number, speed |-> asked.speed,
             toggleFromQtd |-> asked.kind = "control",
             head |-> FALSE,
             packetSize |->
                IF asked.kind = "bulk" /\ asked.speed = Memory!SpeedHigh
                   /\ \A b \in asked.packetSize : b < 9
                THEN {9} ELSE asked.packetSize,
             controlFlag |-> asked.kind = "control" /\ asked.speed # Memory!SpeedHigh,
             nakReload |-> IF asked.kind = "interrupt" THEN {} ELSE 0 .. 3,
             smask |-> IF asked.kind = "interrupt" THEN {0} ELSE {},
             cmask |-> {}, mult |-> {0}]
  <2>1. /\ asked \in Memory!Transfers
        /\ qh.characteristics = Memory!CharacteristicsOf(asked)
        /\ qh.capabilities = Memory!CapabilitiesOf(asked)
    BY <1>1 DEF WordsInv, QhInv, Memory!IsLinked
  <2>2a. PICK x \in Memory!Transfers : x = asked
    BY <2>1
  <2>2b. PICK word, caps : word = qh.characteristics /\ caps = qh.capabilities
    OBVIOUS
  <2>2. x = asked /\ word = qh.characteristics /\ caps = qh.capabilities
    BY <2>2a, <2>2b
  <2>3. /\ x.kind \in {"control", "bulk", "interrupt"}
        /\ x.address \in SUBSET (0 .. 6) /\ x.number \in SUBSET (0 .. 3)
        /\ x.speed \in SUBSET {0, 1} /\ x.packetSize \in SUBSET (0 .. 10)
    BY TransferTypes
  <2>3a. PICK size \in SUBSET (0 .. 10) : size = Memory!ActualPacketSize(x)
    BY PacketSizeFits
  <2>3b. size = IF x.kind = "bulk" /\ x.speed = Memory!SpeedHigh
                   /\ \A b \in x.packetSize : b < 9
                THEN {9} ELSE x.packetSize
    <3>1. x.packetSize \subseteq 0 .. 8 <=> \A b \in x.packetSize : b < 9
      BY <2>3
    <3> QED BY <2>3a, <3>1 DEF Memory!ActualPacketSize
  <2>4. PICK control \in BOOLEAN : control = (x.kind = "control")
    OBVIOUS
  <2>5. PICK full : full =
            Memory!Characteristics(x.address, x.number, x.speed, size, control, FALSE)
    OBVIOUS
  <2>6. word = IF x.kind = "interrupt" THEN full \ (28 .. 31) ELSE full
    BY <2>1, <2>2, <2>3a, <2>4, <2>5 DEF Memory!CharacteristicsOf
  <2>7. Agrees(word, full)
    BY <2>6 DEF Agrees
  <2>8. /\ Memory!Field(word, 0, 6) = x.address
        /\ 7 \notin word
        /\ Memory!Field(word, 8, 11) = x.number
        /\ Memory!Field(word, 12, 13) = x.speed
        /\ 14 \in word <=> control
        /\ 15 \notin word
        /\ Memory!Field(word, 16, 26) = size
        /\ 27 \in word <=> control /\ x.speed # Memory!SpeedHigh
    <3>1. EndpointWord(full, x.address, x.number, x.speed, size, control)
      BY <2>3, <2>5 DEF EndpointWord
    <3>2. EndpointFields(word, x.address, x.number, x.speed, size, control)
      BY <2>7, <3>1, CharacteristicsFields
    <3> QED BY <3>2 DEF EndpointFields
  <2>9. Memory!Field(word, 28, 31) = IF x.kind = "interrupt" THEN {} ELSE 0 .. 3
    <3>1. CASE x.kind = "interrupt"
      <4>1. Holds(word, 28, 31, {})
        BY <2>6, <3>1 DEF Holds
      <4> QED BY <3>1, <4>1, FieldIs
    <3>2. CASE x.kind # "interrupt"
      <4>1. \A b \in 28 .. 31 : b \in full
        <5>1. ASSUME NEW b \in 28 .. 31 PROVE b \in full
          <6>1. b \in Bits /\ b - 28 \in 0 .. 3
            BY DEF Bits, Memory!Bits
          <6> QED BY <2>3, <2>5, <6>1, CharacteristicsBits
        <5> QED BY <5>1
      <4>2. \A b \in 28 .. 31 : b - 28 \in 0 .. 3
        OBVIOUS
      <4>3. 0 .. 3 \subseteq 0 .. 31 - 28
        OBVIOUS
      <4>4. Holds(word, 28, 31, 0 .. 3)
        BY <2>6, <3>2, <4>1, <4>2, <4>3 DEF Holds
      <4> QED BY <3>2, <4>4, FieldIs
    <3> QED BY <3>1, <3>2
  <2>10. PICK smask \in SUBSET {0} : smask = IF x.kind = "interrupt" THEN {0} ELSE {}
    OBVIOUS
  <2>11. caps = Memory!Capabilities(smask, {}, {}, {}, {0})
    BY <2>1, <2>2, <2>10 DEF Memory!CapabilitiesOf
  <2>12. /\ Memory!Field(caps, 0, 7) = smask
         /\ Memory!Field(caps, 8, 15) = {}
         /\ Memory!Field(caps, 30, 31) = {0}
    BY <2>11, CapabilitiesFields
  <2>13. /\ (7 \in word) = FALSE /\ (14 \in word) = (x.kind = "control") /\ (15 \in word) = FALSE
         /\ (27 \in word) = (x.kind = "control" /\ x.speed # Memory!SpeedHigh)
    <3>1. (7 \in word) = FALSE
      BY <2>8
    <3>2. (15 \in word) = FALSE
      BY <2>8
    <3>3. (14 \in word) = (x.kind = "control")
      <4>1. 14 \in word <=> x.kind = "control"
        BY <2>4, <2>8
      <4> QED BY <4>1
    <3>4. (27 \in word) = (x.kind = "control" /\ x.speed # Memory!SpeedHigh)
      <4>1. 27 \in word <=> (x.kind = "control" /\ x.speed # Memory!SpeedHigh)
        BY <2>4, <2>8
      <4> QED BY <4>1
    <3> QED BY <3>1, <3>2, <3>3, <3>4
  <2> QED BY <2>2, <2>3b, <2>8, <2>9, <2>10, <2>12, <2>13 DEF Memory!HcEndpoint
<1>2. WordsInv => EndpointRead
  BY <1>1 DEF EndpointRead, Memory!EndpointRead
<1> QED BY <1>2, WordsAlways, PTL

\* The controller reads from the qTD the transfer asked for, and starts with the right
\* toggle, also when an interrupt pipe has been re-armed any number of times
\* (ehci.rs:186-201, 536-574).
THEOREM TransferReadHolds ==
    ASSUME Memory!ConstantsOK
    PROVE  EachSpec => []TransferRead
<1>1. ASSUME WordsInv, stage = "linked"
      PROVE  /\ Memory!Active \notin qh.token /\ Memory!Halted \notin qh.token
             /\ qh.next = QtdAddr
             /\ Memory!HcTransfer(qtd) =
                   [active |-> TRUE, halted |-> FALSE, pid |-> asked.pid, tries |-> {0, 1},
                    page |-> {}, ioc |-> asked.ioc, total |-> asked.total, last |-> TRUE]
             /\ Memory!HcToggle = told.toggle
  <2>1. /\ asked \in Memory!Transfers /\ told.toggle \in BOOLEAN
        /\ qh.characteristics = Memory!CharacteristicsOf(asked)
        /\ qtd = Memory!InitQtd(Memory!TokenOf(asked), asked.data)
        /\ qh.next = QtdAddr /\ 6 \notin qh.token /\ 7 \notin qh.token
        /\ IF asked.kind = "control" THEN asked.toggle = told.toggle
           ELSE 31 \in qh.token <=> told.toggle
    BY <1>1 DEF WordsInv, QhInv, ReadyInv
  <2>2a. PICK x \in Memory!Transfers : x = asked
    BY <2>1
  <2>2b. PICK word, chars : word = qtd.token /\ chars = qh.characteristics
    OBVIOUS
  <2>2. x = asked /\ word = qtd.token /\ chars = qh.characteristics
    BY <2>2a, <2>2b
  <2>3. PICK toggle \in BOOLEAN : toggle = (x.kind = "control" /\ x.toggle)
    BY TransferTypes
  <2>4. word = Memory!QtdToken(x.pid, x.total, toggle, x.ioc) /\ qtd.next = {0}
    BY <2>1, <2>2, <2>3 DEF Memory!InitQtd, Memory!TokenOf, Memory!Terminate
  <2>5. /\ 7 \in word /\ 6 \notin word
        /\ Memory!Field(word, 8, 9) = x.pid
        /\ Memory!Field(word, 10, 11) = {0, 1}
        /\ Memory!Field(word, 12, 14) = {}
        /\ 15 \in word <=> x.ioc
        /\ Memory!Field(word, 16, 30) = x.total
        /\ 31 \in word <=> toggle
    <3>1. TokenWord(word, x.pid, x.total, toggle, x.ioc)
      BY <2>3, <2>4, TransferTypes DEF TokenWord
    <3>2. TokenRead(word, x.pid, x.total, toggle, x.ioc)
      BY <3>1, TokenFields
    <3> QED BY <3>2 DEF TokenRead
  <2>6. x.ioc \in BOOLEAN
    BY TransferTypes
  <2>7. Memory!HcTransfer(qtd) =
            [active |-> TRUE, halted |-> FALSE, pid |-> asked.pid, tries |-> {0, 1},
             page |-> {}, ioc |-> asked.ioc, total |-> asked.total, last |-> TRUE]
    <3>1. (7 \in word) = TRUE /\ (6 \in word) = FALSE /\ (15 \in word) = x.ioc
      BY <2>5, <2>6
    <3>2. (0 \in qtd.next) = TRUE
      BY <2>4
    <3> QED BY <2>2, <2>5, <3>1, <3>2 DEF Memory!HcTransfer, Memory!Active, Memory!Halted
  <2>8. Memory!HcEndpoint(qh).toggleFromQtd = (14 \in chars)
    BY <2>2 DEF Memory!HcEndpoint
  <2>9. 14 \in chars <=> x.kind = "control"
    <3>1. /\ x.address \in SUBSET (0 .. 6) /\ x.number \in SUBSET (0 .. 3)
          /\ x.speed \in SUBSET {0, 1} /\ x.packetSize \in SUBSET (0 .. 10)
      BY TransferTypes
    <3>1a. PICK size \in SUBSET (0 .. 10) : size = Memory!ActualPacketSize(x)
      BY PacketSizeFits
    <3>2. PICK control \in BOOLEAN : control = (x.kind = "control")
      OBVIOUS
    <3>3. PICK full : full =
              Memory!Characteristics(x.address, x.number, x.speed, size, control, FALSE)
      OBVIOUS
    <3>4. chars = IF x.kind = "interrupt" THEN full \ (28 .. 31) ELSE full
      BY <2>1, <2>2, <3>1a, <3>2, <3>3 DEF Memory!CharacteristicsOf
    <3>5. Agrees(chars, full)
      BY <3>4 DEF Agrees
    <3>6. 14 \in chars <=> control
      <4>1. EndpointWord(full, x.address, x.number, x.speed, size, control)
        BY <3>1, <3>3 DEF EndpointWord
      <4>2. EndpointFields(chars, x.address, x.number, x.speed, size, control)
        BY <3>5, <4>1, CharacteristicsFields
      <4> QED BY <4>2 DEF EndpointFields
    <3> QED BY <3>2, <3>6
  <2>10. Memory!HcToggle = told.toggle
    <3>1. CASE x.kind = "control"
      <4>1. Memory!HcToggle = (31 \in word)
        BY <2>2, <2>8, <2>9, <3>1 DEF Memory!HcToggle, Memory!Toggle
      <4>2. 31 \in word <=> told.toggle
        BY <2>1, <2>2, <2>3, <2>5, <3>1
      <4> QED BY <2>1, <4>1, <4>2
    <3>2. CASE x.kind # "control"
      <4>1. Memory!HcToggle = (31 \in qh.token)
        BY <2>2, <2>8, <2>9, <3>2 DEF Memory!HcToggle, Memory!Toggle
      <4>2. 31 \in qh.token <=> told.toggle
        BY <2>1, <2>2, <3>2
      <4> QED BY <2>1, <4>1, <4>2
    <3> QED BY <3>1, <3>2
  <2> QED BY <2>1, <2>7, <2>10 DEF Memory!Active, Memory!Halted
<1>2. WordsInv => TransferRead
  BY <1>1 DEF TransferRead, Memory!TransferRead
<1> QED BY <1>2, WordsAlways, PTL

\* The driver reads from a retired qTD how many bytes are left and whether the transfer
\* failed (ehci.rs:203-207, 250-267), for every count and every status.
THEOREM ResultReadHolds ==
    ASSUME Memory!ConstantsOK
    PROVE  EachSpec => []ResultRead
<1>1. ASSUME WordsInv, stage = "retired"
      PROVE  /\ Memory!IsComplete(qtd.token)
             /\ Memory!BytesRemaining(qtd.token) = told.left
             /\ Memory!HasError(qtd.token) <=> \E b \in 2 .. 6 : b \in told.status
  <2>1. /\ asked \in Memory!Transfers /\ told.toggle \in BOOLEAN
        /\ told.status \in SUBSET (0 .. 6) /\ told.left \in SUBSET (0 .. 14)
        /\ qtd.token = Retired(told.status, asked.pid, told.left, told.toggle, asked.ioc)
    BY <1>1 DEF WordsInv, QhInv, RetiredInv
  <2>2. PICK bits \in SUBSET (0 .. 6), left \in SUBSET (0 .. 14), toggle \in BOOLEAN,
             x \in Memory!Transfers :
            /\ bits = told.status /\ left = told.left /\ toggle = told.toggle /\ x = asked
            /\ qtd.token = Retired(bits, x.pid, left, toggle, x.ioc)
    BY <2>1
  <2>2a. PICK word : word = qtd.token /\ word = Retired(bits, x.pid, left, toggle, x.ioc)
    BY <2>2
  <2>3. x.pid \in SUBSET {0, 1} /\ x.ioc \in BOOLEAN
    BY TransferTypes
  <2>4. /\ 7 \notin word
        /\ \A b \in 2 .. 6 : b \in word <=> b \in bits
        /\ Memory!Field(word, 16, 30) = left
    BY <2>2a, <2>3, RetiredFields
  <2>5. Memory!HasError(word) <=> \E b \in 2 .. 6 : b \in bits
    BY <2>4 DEF Memory!HasError, Memory!Errors
  <2> QED BY <2>2, <2>2a, <2>4, <2>5 DEF Memory!IsComplete, Memory!BytesRemaining, Memory!Active
<1>2. WordsInv => ResultRead
  BY <1>1 DEF ResultRead, Memory!ResultRead
<1> QED BY <1>2, WordsAlways, PTL

\* Every byte that the five pointers reach is transferred to and from where it is
\* (ehci.rs:237-248), wherever the buffer starts.
THEOREM BytesReachedHolds ==
    ASSUME Memory!ConstantsOK
    PROVE  EachSpec => []BytesReached
<1>1. ASSUME WordsInv, stage \in {"built", "linked"}, NEW k \in Offsets,
             (asked.data % Memory!PageSize) + k < 5 * Memory!PageSize
      PROVE  Memory!HcAddress(qtd, k) = asked.data + k
  <2>1. /\ asked \in Memory!Transfers
        /\ qtd = Memory!InitQtd(Memory!TokenOf(asked), asked.data)
    BY <1>1 DEF WordsInv, QhInv, ReadyInv
  <2>2. PICK data \in Nat : data = asked.data
    BY <2>1, TransferTypes
  <2>3. PICK buffer : buffer = qtd.buffer
    OBVIOUS
  <2>4. buffer = [i \in 0 .. 4 |-> IF i = 0 THEN data
                                  ELSE (data - (data % 4096)) + i * 4096]
    BY <2>1, <2>2, <2>3 DEF Memory!InitQtd, Memory!Pages, Memory!PageOf, Memory!PageSize
  <2>5. k \in Nat
    BY DEF Memory!ConstantsOK
  <2>6. PICK n : n = (data % 4096) + k
    OBVIOUS
  <2>7. PICK base : base = IF n \div 4096 = 0 THEN data
                           ELSE (data - (data % 4096)) + (n \div 4096) * 4096
    OBVIOUS
  <2>8. /\ n \in Nat /\ n \div 4096 \in 0 .. 4
        /\ (base - (base % 4096)) + (n % 4096) = data + k
    <3>1. (data % 4096) + k < 5 * 4096
      BY <1>1, <2>2 DEF Memory!PageSize
    <3> QED BY <2>5, <2>6, <2>7, <3>1, PageOfByte
  <2>9. buffer[0] = data
    BY <2>4
  <2>10. buffer[n \div 4096] = base
    BY <2>4, <2>7, <2>8
  <2>11. Memory!HcAddress(qtd, k) = (base - (base % 4096)) + (n % 4096)
    BY <2>3, <2>6, <2>9, <2>10 DEF Memory!HcAddress, Memory!PageOf, Memory!PageSize
  <2> QED BY <2>2, <2>8, <2>11
<1>2. WordsInv => BytesReached
  BY <1>1 DEF BytesReached, Memory!BytesReached
<1> QED BY <1>2, WordsAlways, PTL

-----------------------------------------------------------------------------
(* Words *)

Words == SUBSET Bits
Qhs == [link : Words, characteristics : Words, capabilities : Words, next : Words, token : Words]
Qtds == [next : Words, altNext : Words, token : Words, buffer : [0 .. 4 -> Nat]]

\* Whatever is shifted, a word has 32 bits.
LEMMA ShlWord ==
    ASSUME NEW bits, NEW n
    PROVE  Memory!Shl(bits, n) \in Words
BY DEF Memory!Shl, Words, Bits

LEMMA FlagWord ==
    ASSUME NEW on, NEW n \in Bits
    PROVE  Memory!Flag(on, n) \in Words
BY DEF Memory!Flag, Words

\* A buffer pointer may be any address; the words of a qTD are built from the arguments.
LEMMA QtdWords ==
    ASSUME Memory!ConstantsOK, NEW x \in Memory!Transfers
    PROVE  Memory!InitQtd(Memory!TokenOf(x), x.data) \in Qtds
<1>1. x.data \in Nat
  BY TransferTypes
<1>2. Memory!Pages(x.data) \in [0 .. 4 -> Nat]
  BY <1>1 DEF Memory!Pages, Memory!PageOf, Memory!PageSize
<1>3. Memory!TokenOf(x) \in Words
  <2>1. 7 \in Bits /\ 15 \in Bits /\ 31 \in Bits
    BY DEF Bits, Memory!Bits
  <2>2. PICK t : t = (x.kind = "control" /\ x.toggle)
    OBVIOUS
  <2>3. Memory!Flag(t, 31) \in Words /\ Memory!Flag(x.ioc, 15) \in Words /\ {7} \in Words
    BY <2>1, FlagWord DEF Words
  <2> QED BY <2>2, <2>3, ShlWord
          DEF Memory!TokenOf, Memory!QtdToken, Memory!Active, Memory!Toggle, Words
<1>4. Memory!Terminate \in Words
  BY DEF Memory!Terminate, Words, Bits, Memory!Bits
<1> QED BY <1>2, <1>3, <1>4 DEF Memory!InitQtd, Qtds

LEMMA QhWords ==
    ASSUME Memory!ConstantsOK, NEW x \in Memory!Transfers
    PROVE  Memory!BuiltQh(x) \in Qhs
<1>1. PICK q : q = Memory!BuiltQh(x)
  OBVIOUS
<1>2. x.toggle \in BOOLEAN /\ x.address \in SUBSET (0 .. 6)
  BY TransferTypes
<1>3. /\ Memory!CharacteristicsOf(x) \in Words /\ Memory!CapabilitiesOf(x) \in Words
  <2>1. 14 \in Bits /\ 15 \in Bits /\ 27 \in Bits /\ 0 \in Bits /\ x.address \in Words
    BY <1>2 DEF Bits, Memory!Bits, Words
  <2>2. PICK w : w = Memory!Characteristics(x.address, x.number, x.speed,
                                            Memory!ActualPacketSize(x), x.kind = "control", FALSE)
    OBVIOUS
  <2>3. w \in Words
    <3>1. \A on : /\ Memory!Flag(on, 14) \in Words /\ Memory!Flag(on, 15) \in Words
                  /\ Memory!Flag(on, 27) \in Words
      BY <2>1, FlagWord
    <3> QED BY <2>1, <2>2, <3>1, ShlWord DEF Memory!Characteristics, Words
  <2>4. Memory!CharacteristicsOf(x) \in Words
    BY <2>2, <2>3 DEF Memory!CharacteristicsOf, Words
  <2>5. Memory!CapabilitiesOf(x) \in Words
    BY <2>1, ShlWord DEF Memory!CapabilitiesOf, Memory!Capabilities, Words
  <2> QED BY <2>4, <2>5
<1>4. PICK c, m : c = Memory!CharacteristicsOf(x) /\ m = Memory!CapabilitiesOf(x)
  OBVIOUS
<1>5. QtdAddr \in Words /\ {0} \in Words /\ {} \in Words /\ {31} \in Words
  BY DEF Memory!ConstantsOK, Words, Bits, Memory!Bits
<1>6. \E w \in {{}, {31}} : q = [link |-> {0}, characteristics |-> c, capabilities |-> m,
                                 next |-> QtdAddr, token |-> w]
  <2>1. PICK r : r = Memory!AttachQtd(Memory!InitEndpoint(c, m), QtdAddr)
    OBVIOUS
  <2>2. r = [link |-> {0}, characteristics |-> c, capabilities |-> m,
             next |-> QtdAddr, token |-> {}]
    BY <2>1 DEF Memory!AttachQtd, Memory!InitEndpoint, Memory!Terminate
  <2>3. PICK v : v = Memory!SetOverlayToggle(r, TRUE)
    OBVIOUS
  <2>4. v = [link |-> {0}, characteristics |-> c, capabilities |-> m,
             next |-> QtdAddr, token |-> {31}]
    BY <2>2, <2>3 DEF Memory!SetOverlayToggle, Memory!Toggle
  <2>5. q = r \/ q = v
    BY <1>1, <1>4, <2>1, <2>3 DEF Memory!BuiltQh
  <2> QED BY <2>2, <2>4, <2>5
<1> QED BY <1>1, <1>3, <1>4, <1>5, <1>6 DEF Qhs

LEMMA NoTransfer ==
    ASSUME NEW x \in Memory!Transfers
    PROVE  x # Memory!Nothing
<1>1. x.kind \in {"control", "bulk", "interrupt"}
  BY DEF Memory!Transfers
<1>2. Memory!Nothing.kind = "none"
  BY DEF Memory!Nothing
<1> QED BY <1>1, <1>2

\* The state after an unlinking, and at first.
LEMMA BlankTyped ==
    /\ Memory!NewQh \in Qhs /\ Memory!NewQtd \in Qtds
    /\ Memory!NotTold \in [left : Words, status : Words, toggle : BOOLEAN]
<1>1. {} \in Words /\ {0} \in Words
  BY DEF Words, Bits, Memory!Bits
<1> QED BY <1>1 DEF Memory!NewQh, Memory!NewQtd, Memory!NotTold, Memory!Terminate, Qhs, Qtds

LEMMA TypingStep ==
    ASSUME Memory!ConstantsOK, Memory!TypeOK, [Memory!Next]_wordVars
    PROVE  Memory!TypeOK'
<1> DEFINE Typed == /\ stage \in {"idle", "built", "linked", "retired"}
                    /\ asked \in Memory!Transfers \cup {Memory!Nothing}
                    /\ stage = "idle" <=> asked = Memory!Nothing
                    /\ heads \in [Memory!Schedules -> Words]
                    /\ qh \in Qhs /\ qtd \in Qtds
                    /\ told \in [left : Words, status : Words, toggle : BOOLEAN]
<1>1. Typed /\ (Typed' => Memory!TypeOK')
  BY DEF Memory!TypeOK, Memory!Words, Words, Bits, Qhs, Qtds
<1>2. Memory!LinkPointer(QhAddr, Memory!TypeQh) \in Words
  BY DEF Memory!ConstantsOK, Memory!LinkPointer, Memory!TypeQh, Words, Bits, Memory!Bits
<1>3. ASSUME NEW x \in Memory!Transfers, Memory!Build(x)
      PROVE  Typed'
  <2>1. told' \in [left : Words, status : Words, toggle : BOOLEAN]
    <3>1. told' = [left |-> {}, status |-> {}, toggle |-> x.toggle]
      BY <1>3 DEF Memory!Build, Memory!NotTold
    <3> QED BY <3>1, TransferTypes DEF Words
  <2>2. qh' \in Qhs /\ qtd' \in Qtds
    BY <1>3, QhWords, QtdWords DEF Memory!Build
  <2> QED BY <1>1, <1>3, <2>1, <2>2, NoTransfer DEF Memory!Build
<1>4. CASE Memory!Link
  <2>1. PICK s \in Memory!Schedules :
            /\ qh' = [qh EXCEPT !.link = heads[s]]
            /\ heads' = [heads EXCEPT ![s] = Memory!LinkPointer(QhAddr, Memory!TypeQh)]
    <3>1. Memory!ScheduleOf(asked) \in Memory!Schedules
      BY DEF Memory!ScheduleOf, Memory!Schedules
    <3> QED BY <1>4, <3>1 DEF Memory!Link
  <2>2. heads' \in [Memory!Schedules -> Words]
    BY <1>1, <1>2, <2>1
  <2>3. qh' \in Qhs
    BY <1>1, <2>1 DEF Qhs
  <2> QED BY <1>1, <1>4, <2>2, <2>3 DEF Memory!Link
<1>5. ASSUME NEW left, NEW bits \in Statuses, NEW toggle \in BOOLEAN,
             Memory!Retire(left, bits, toggle)
      PROVE  Typed'
  <2>1. /\ stage = "linked" /\ stage' = "retired" /\ asked' = asked /\ heads' = heads
        /\ left \subseteq asked.total
        /\ told' = [left |-> left, status |-> bits, toggle |-> toggle]
    BY <1>5 DEF Memory!Retire
  <2>2. PICK token : token = bits \cup Memory!Shl(asked.pid, 8) \cup Memory!Shl(left, 16)
                         \cup Memory!Flag(toggle, Memory!Toggle) \cup Memory!Flag(asked.ioc, 15)
    OBVIOUS
  <2>3. qtd' = [qtd EXCEPT !.token = token] /\ qh' = [qh EXCEPT !.token = token, !.next = qtd.next]
    BY <1>5, <2>2 DEF Memory!Retire
  <2>4. bits \in Words /\ 15 \in Bits /\ 31 \in Bits
    BY DEF Memory!ConstantsOK, Words, Bits, Memory!Bits
  <2>5. token \in Words
    <3>1. Memory!Flag(toggle, Memory!Toggle) \in Words /\ Memory!Flag(asked.ioc, 15) \in Words
      BY <2>4, FlagWord DEF Memory!Toggle
    <3> QED BY <2>2, <2>4, <3>1, ShlWord DEF Words
  <2>6. left \in Words
    <3>1. asked \in Memory!Transfers
      BY <1>1, <2>1
    <3>2. asked.total \in SUBSET (0 .. 14)
      BY <3>1, TransferTypes
    <3> QED BY <2>1, <3>2 DEF Words, Bits, Memory!Bits
  <2>7. qtd' \in Qtds /\ qh' \in Qhs
    BY <1>1, <2>3, <2>5 DEF Qtds, Qhs
  <2> QED BY <1>1, <2>1, <2>4, <2>6, <2>7
<1>6. CASE Memory!Rearm
  <2>1. /\ stage = "retired" /\ stage' = "linked" /\ asked' = asked /\ heads' = heads
        /\ told' = told /\ qtd' = Memory!InitQtd(Memory!TokenOf(asked), asked.data)
        /\ qh' = [qh EXCEPT !.next = QtdAddr]
    BY <1>6 DEF Memory!Rearm, Memory!ReattachQtd
  <2>2. asked \in Memory!Transfers
    BY <1>1, <2>1
  <2>3. QtdAddr \in Words
    BY DEF Memory!ConstantsOK, Words, Bits, Memory!Bits
  <2>4. qtd' \in Qtds
    BY <2>1, <2>2, QtdWords
  <2>5. qh' \in Qhs
    BY <1>1, <2>1, <2>3 DEF Qhs
  <2> QED BY <1>1, <2>1, <2>2, <2>4, <2>5
<1>7. CASE Memory!Unlink
  <2>1. /\ stage' = "idle" /\ asked' = Memory!Nothing /\ qh' = Memory!NewQh
        /\ qtd' = Memory!NewQtd /\ told' = Memory!NotTold
    BY <1>7 DEF Memory!Unlink
  <2>2. PICK t, a : heads' = [s \in Memory!Schedules |->
            IF s = t /\ Memory!LinkAddress(heads[s]) = a THEN qh.link ELSE heads[s]]
    BY <1>7 DEF Memory!Unlink
  <2>3. qh.link \in Words /\ \A s \in Memory!Schedules : heads[s] \in Words
    BY <1>1 DEF Qhs
  <2>4. heads' \in [Memory!Schedules -> Words]
    BY <2>2, <2>3
  <2>5. /\ qh' \in Qhs /\ qtd' \in Qtds
        /\ told' \in [left : Words, status : Words, toggle : BOOLEAN]
    BY <2>1, BlankTyped, Zenon
  <2>6. stage' = "idle" /\ asked' = Memory!Nothing
    BY <2>1
  <2> QED BY <1>1, <2>4, <2>5, <2>6
<1>8. CASE UNCHANGED wordVars
  BY <1>1, <1>8 DEF wordVars
<1> HIDE DEF Typed
<1> QED BY <1>1, <1>3, <1>4, <1>5, <1>6, <1>7, <1>8 DEF Memory!Next

LEMMA WordsTyped ==
    ASSUME Memory!ConstantsOK
    PROVE  EachSpec => []Memory!TypeOK
<1>1. EachInit => Memory!TypeOK
  <2>1. SUFFICES ASSUME Memory!Init
                 PROVE  Memory!TypeOK
    BY DEF EachInit
  <2>2. heads \in [Memory!Schedules -> Words]
    <3>1. Memory!LinkPointer(SentinelAddr, Memory!TypeQh) \in Words /\ Memory!Terminate \in Words
      BY DEF Memory!ConstantsOK, Memory!LinkPointer, Memory!TypeQh, Memory!Terminate, Words, Bits,
             Memory!Bits
    <3> QED BY <2>1, <3>1 DEF Memory!Init, Memory!InitSentinel
  <2>3. /\ stage = "idle" /\ asked = Memory!Nothing /\ qh \in Qhs /\ qtd \in Qtds
        /\ told \in [left : Words, status : Words, toggle : BOOLEAN]
    BY <2>1, BlankTyped DEF Memory!Init
  <2> QED BY <2>2, <2>3 DEF Memory!TypeOK, Memory!Words, Words, Bits, Qhs, Qtds
<1>2. Memory!TypeOK /\ [EachNext \/ StartNext]_allVars => Memory!TypeOK'
  <2>1. ASSUME [EachNext \/ StartNext]_allVars
        PROVE  [Memory!Next]_wordVars
    BY <2>1 DEF EachNext, StartNext, allVars
  <2> QED BY <2>1, TypingStep
<1>3. EachSpec => EachInit /\ [][EachNext \/ StartNext]_allVars
  BY PTL DEF EachSpec
<1> QED BY <1>1, <1>2, <1>3, PTL

=============================================================================
