-------------------------------- MODULE Midi --------------------------------
(***************************************************************************)
(* The USB MIDI driver (cotton-usb-host-midi/src/midi.rs): the visitor     *)
(* that finds the MIDI Streaming interface among a device's descriptors,   *)
(* and the driver that reads packets from its bulk IN endpoint and writes  *)
(* packets to its bulk OUT endpoint, both at the same time if the          *)
(* application wants.  The transfers are those of AsyncSchedule; here they *)
(* take or bring some packets, or fail.                                    *)
(***************************************************************************)
EXTENDS Naturals, FiniteSets, Sequences, SequencesExt

CONSTANTS
    EndpointNumbers,
    Events,             \* packets that are not empty
    MaxDescriptors,     \* bound: interfaces and endpoints of a device
    SendSizes,          \* sizes of send_buf, in bytes
    ReadSizes,          \* sizes of packet_buf, in packets
    MaxPackets          \* bound: packets in a call of write_packets or in a read

None == "none"
Empty == "empty"

PacketSize == 4         \* bytes of a USB-MIDI event packet

Interfaces == [type : {"interface"}, midi : BOOLEAN]
Endpoints == [type : {"endpoint"}, bulk : BOOLEAN, in : BOOLEAN, num : EndpointNumbers]

Smaller(a, b) == IF a < b THEN a ELSE b

VARIABLES
    seen,       \* the descriptors visited so far
    visitor,    \* IdentifyMidi
    midi,       \* Midi: its endpoints, once there is a driver
    reading,    \* the call of read_packets: its stage, its buffer and its result
    received,   \* what the device sent for it
    writing,    \* the call of write_packets: its stage, its arguments, sent and result
    wire        \* the packets of this call the device has taken

vars == <<seen, visitor, midi, reading, received, writing, wire>>

NewVisitor == [interface |-> FALSE, config |-> None, epIn |-> None, epOut |-> None]
NoDriver == [bulkIn |-> None, bulkOut |-> None]
NotReading == [stage |-> "idle", size |-> 0, packets |-> <<>>]
NotWriting == [stage |-> "idle", packets |-> <<>>, size |-> 0, sent |-> 0, result |-> "none"]

Init ==
    /\ seen = <<>>
    /\ visitor = NewVisitor
    /\ midi = NoDriver
    /\ reading = NotReading /\ received = <<>>
    /\ writing = NotWriting /\ wire = <<>>

-----------------------------------------------------------------------------
(* IdentifyMidi: one configuration is described, its interfaces in order, each
   followed by its endpoints. *)

\* Mutant: the endpoints of every interface behind the MIDI one are its own.
OnInterfaceSticky(v, d) ==
    IF d.midi THEN [v EXCEPT !.interface = TRUE, !.config = "current"] ELSE v

OnInterface(v, d) ==
    IF d.midi THEN [v EXCEPT !.interface = TRUE, !.config = "current"]
              ELSE [v EXCEPT !.interface = FALSE]

OnEndpoint(v, d) ==
    IF ~v.interface \/ ~d.bulk THEN v
    ELSE IF d.in
    THEN [v EXCEPT !.epIn = IF @ = None THEN d.num ELSE @]
    ELSE [v EXCEPT !.epOut = IF @ = None THEN d.num ELSE @]

\* A descriptor is visited.
Describe(d) ==
    /\ midi = NoDriver /\ Len(seen) < MaxDescriptors
    /\ d.type = "endpoint" => seen # <<>>
    /\ seen' = Append(seen, d)
    /\ visitor' = IF d.type = "interface" THEN OnInterface(visitor, d) ELSE OnEndpoint(visitor, d)
    /\ UNCHANGED <<midi, reading, received, writing, wire>>

Identify(v) == IF v.epIn # None THEN v.config ELSE None

\* All descriptors are visited: the device is a MIDI device and gets a driver.
New ==
    /\ midi = NoDriver /\ Identify(visitor) # None
    /\ midi' = [bulkIn |-> visitor.epIn, bulkOut |-> visitor.epOut]
    /\ seen' = <<>> /\ visitor' = NewVisitor
    /\ UNCHANGED <<reading, received, writing, wire>>

\* It is none, and the next device is looked at; or the driver is given up.
Skip ==
    /\ \/ midi = NoDriver /\ seen # <<>> /\ Identify(visitor) = None
       \/ midi # NoDriver /\ reading = NotReading /\ writing = NotWriting
    /\ midi' = NoDriver
    /\ seen' = <<>> /\ visitor' = NewVisitor
    /\ UNCHANGED <<reading, received, writing, wire>>

-----------------------------------------------------------------------------
(* read_packets *)

ReadCall ==
    /\ midi # NoDriver /\ reading.stage = "idle"
    /\ \E n \in ReadSizes : reading' = [NotReading EXCEPT !.stage = "pending", !.size = n]
    /\ UNCHANGED <<seen, visitor, midi, received, writing, wire>>

\* Mutant: an empty packet takes its place in the buffer.
ParsedWithEmpty(packets, size) == SubSeq(packets, 1, Smaller(Len(packets), size))

\* The packets of a transfer that go into a buffer for size of them: what is in it
\* when the loop has seen i of them.
Parsed(packets, size) ==
    LET buf[i \in 0 .. Len(packets)] ==
          IF i = 0 THEN <<>>
          ELSE IF packets[i] # Empty /\ Len(buf[i - 1]) < size
               THEN Append(buf[i - 1], packets[i])
               ELSE buf[i - 1]
    IN  buf[Len(packets)]

\* The bulk IN transfer brings whole packets, and perhaps some bytes more.
ReadReady ==
    /\ reading.stage = "pending"
    /\ \E n \in 0 .. MaxPackets, spare \in 0 .. PacketSize - 1 :
       \E packets \in [1 .. (n * PacketSize + spare) \div PacketSize -> Events \cup {Empty}] :
          /\ received' = packets
          /\ reading' = [reading EXCEPT !.stage = "ok", !.packets = Parsed(packets, reading.size)]
    /\ UNCHANGED <<seen, visitor, midi, writing, wire>>

\* It fails, or the call has returned, or its future is dropped.
ReadOver ==
    /\ reading.stage # "idle"
    /\ reading' = NotReading /\ received' = <<>>
    /\ UNCHANGED <<seen, visitor, midi, writing, wire>>

-----------------------------------------------------------------------------
(* write_packets *)

\* Mutant: any buffer will do.
TooSmallNever(size) == FALSE

TooSmall(size) == size < PacketSize

WriteCall ==
    /\ midi # NoDriver /\ writing.stage = "idle"
    /\ \E size \in SendSizes, n \in 0 .. MaxPackets : \E packets \in [1 .. n -> Events] :
          writing' = [NotWriting EXCEPT
              !.packets = packets, !.size = size,
              !.stage = IF midi.bulkOut = None \/ TooSmall(size) THEN "returned" ELSE "loop",
              !.result = IF midi.bulkOut = None THEN "noSuchEndpoint"
                         ELSE IF TooSmall(size) THEN "bufferTooSmall" ELSE "none"]
    /\ UNCHANGED <<seen, visitor, midi, reading, received, wire>>

\* pack: how many packets of those left go into the buffer.
Count(w) == Smaller(Len(w.packets) - w.sent, w.size \div PacketSize)

\* Mutant: every transfer starts with the first packet.
ChunkFirst(w) == SubSeq(w.packets, 1, Count(w))

Chunk(w) == SubSeq(w.packets, w.sent + 1, w.sent + Count(w))

\* The device takes one transfer.
WriteTransfer ==
    /\ writing.stage = "loop" /\ writing.sent < Len(writing.packets)
    /\ wire' = wire \o Chunk(writing)
    /\ writing' = [writing EXCEPT !.sent = @ + Count(writing)]
    /\ UNCHANGED <<seen, visitor, midi, reading, received>>

\* A transfer fails, with its packets taken or not.
WriteFails ==
    /\ writing.stage = "loop" /\ writing.sent < Len(writing.packets)
    /\ wire' \in {wire, wire \o Chunk(writing)}
    /\ writing' = [writing EXCEPT !.stage = "returned", !.result = "error"]
    /\ UNCHANGED <<seen, visitor, midi, reading, received>>

WriteReturns ==
    /\ writing.stage = "loop" /\ writing.sent >= Len(writing.packets)
    /\ writing' = [writing EXCEPT !.stage = "returned", !.result = "ok"]
    /\ UNCHANGED <<seen, visitor, midi, reading, received, wire>>

\* The caller takes the result, or drops the future.
WriteOver ==
    /\ writing.stage # "idle"
    /\ writing' = NotWriting /\ wire' = <<>>
    /\ UNCHANGED <<seen, visitor, midi, reading, received>>

-----------------------------------------------------------------------------
Next ==
    \/ \E d \in Interfaces \cup Endpoints : Describe(d)
    \/ New \/ Skip
    \/ ReadCall \/ ReadReady \/ ReadOver
    \/ WriteCall \/ WriteTransfer \/ WriteFails \/ WriteReturns \/ WriteOver

Spec == Init /\ [][Next]_vars

\* The loop of a write goes on as long as the bus takes its transfers.
FairSpec == Spec /\ WF_vars(WriteTransfer \/ WriteReturns)

-----------------------------------------------------------------------------
(* Properties *)

TypeOK ==
    /\ seen \in Seq(Interfaces \cup Endpoints)
    /\ visitor \in [interface : BOOLEAN, config : {None, "current"},
                    epIn : EndpointNumbers \cup {None}, epOut : EndpointNumbers \cup {None}]
    /\ midi = NoDriver \/ midi.bulkIn \in EndpointNumbers
    /\ reading.stage \in {"idle", "pending", "ok"}
    /\ Len(reading.packets) <= reading.size
    /\ writing.stage \in {"idle", "loop", "returned"}
    /\ writing.sent \in 0 .. Len(writing.packets)

\* The bulk endpoints of one direction that the MIDI interfaces among the
\* descriptors visited have, each by its place.
Candidates(in) ==
    {i \in DOMAIN seen :
        /\ seen[i].type = "endpoint" /\ seen[i].bulk /\ seen[i].in = in
        /\ \E j \in 1 .. i - 1 :
              /\ seen[j].type = "interface" /\ seen[j].midi
              /\ \A k \in j + 1 .. i - 1 : seen[k].type = "endpoint"}

First(in) ==
    IF Candidates(in) = {} THEN None
    ELSE seen[CHOOSE i \in Candidates(in) : \A j \in Candidates(in) : i <= j].num

\* The visitor finds the first bulk endpoint of each direction that belongs to a MIDI
\* Streaming interface, and identifies a device that has the IN one, whatever other
\* interfaces and endpoints come before, between and after (midi.rs:93-97, 189-196).
FindsFirst ==
    midi = NoDriver =>
        /\ visitor.epIn = First(TRUE) /\ visitor.epOut = First(FALSE)
        /\ Identify(visitor) # None <=> Candidates(TRUE) # {}

\* Where the first n of these packets are not empty.
Places(packets, n) == {i \in 1 .. n : packets[i] # Empty}

\* A read returns the packets of the transfer that are not empty, in their order, as
\* far as they fit: the k-th of them in place k, and nothing else (midi.rs:252-261).
ReadsAll ==
    reading.stage = "ok" =>
        LET count(i) == Cardinality(Places(received, i))
        IN  /\ Len(reading.packets) = Smaller(count(Len(received)), reading.size)
            /\ \A i \in Places(received, Len(received)) :
                  count(i) <= reading.size => reading.packets[count(i)] = received[i]

\* The device gets the packets of a write in order, each once: all of them when it
\* succeeds, those before the transfer that failed in any case, and none of a call
\* that is refused (midi.rs:299-306).
WritesAll ==
    /\ IsPrefix(wire, writing.packets)
    /\ writing.sent <= Len(wire)
    /\ writing.result = "ok" => wire = writing.packets
    /\ writing.result \in {"noSuchEndpoint", "bufferTooSmall"} => wire = <<>>

\* A write whose transfers are taken comes to an end: every turn of the loop sends
\* something (midi.rs:314-327).
WriteEnds == writing.stage = "loop" ~> writing.stage # "loop"
=============================================================================
