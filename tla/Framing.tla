------------------------------ MODULE Framing ------------------------------
(***************************************************************************)
(* The byte stream under the session. The desktop hands a packet (header   *)
(* and payload in one buffer) to a bulk transfer, which the controller     *)
(* delivers one USB packet at a time; the PSP's frame loop reads a header  *)
(* in one call and then the payload in up to MaxTries calls               *)
(* (apps/psp/src/main.c). DevLink sees of all this only that a packet may  *)
(* be lost and the stream be off a boundary ("payload", skew).             *)
(*                                                                         *)
(* Bytes are counted in units: a header is HeaderUnits of them. A unit is  *)
(* the pair of the packet it belongs to and its place in it. Text that     *)
(* happens to carry the magic number where a header is looked for is not   *)
(* modelled.                                                               *)
(***************************************************************************)
EXTENDS Integers, Sequences

CONSTANTS
    HeaderUnits,   \* PSPDL_PACKET_HEADER_SIZE
    PayloadSizes,  \* payload sizes of the five kinds of packet
    PayloadCap,    \* sizeof(payload_buf)
    UsbPackets,    \* largest USB packet: 64 bytes at full, 512 at high speed
    MaxTries,      \* attempts at a payload that find nothing (100)
    MaxSends,      \* bound: packets sent in one behaviour
    FaultKinds,    \* the adverse events this instance allows
    MaxFaults      \* bound: how many of them may happen

\* No header is ever cut in two: it is smaller than a USB packet.
ASSUME FramingAssumption ==
    /\ HeaderUnits \in Nat \ {0}
    /\ PayloadCap \in Nat /\ PayloadSizes \subseteq 0..PayloadCap
    /\ UsbPackets # {} /\ \A u \in UsbPackets : u \in Nat /\ u > HeaderUnits
    /\ MaxTries \in Nat \ {0} /\ MaxSends \in Nat /\ MaxFaults \in Nat
    /\ FaultKinds \subseteq {"slow", "read", "cut"}

VARIABLES
    usbPacket,  \* the speed the bus came up at
    sent,       \* history: the payload size of every packet sent so far
    sending,    \* what the transfer under way has not yet delivered
    pipe,       \* bulk OUT endpoint: delivered, not yet read
    mode,       \* the PSP is at its "header" read or in its "payload" loop
    hdr,        \* rx_hdr: the packet whose header was read last
    body,       \* payload_buf[0 .. pay_received)
    tries,      \* pay_ticks
    accepted,   \* history: what reached the handshake or router_dispatch
    cutMidway,  \* history: a transfer ended with a part of its packet delivered
    faults      \* adverse events so far, at most MaxFaults

hostVars == <<usbPacket, sent, sending>>
pspVars  == <<mode, hdr, body, tries, accepted>>
vars     == <<hostVars, pipe, pspVars, cutMidway, faults>>

Fault(kind) ==
    /\ kind \in FaultKinds /\ faults < MaxFaults
    /\ faults' = faults + 1

\* A transfer under way brings nothing while the PSP waits for a payload.
Stall == Fault("slow") /\ UNCHANGED cutMidway

NoFault == UNCHANGED <<cutMidway, faults>>

Smaller(a, b) == IF a < b THEN a ELSE b

\* The first k elements of s, and the others.
Front(s, k) == SubSeq(s, 1, k)
Rest(s, k)  == SubSeq(s, k + 1, Len(s))

PacketUnits(n, size) == [i \in 1..(HeaderUnits + size) |-> <<n, i>>]

Payload(n) == Rest(PacketUnits(n, sent[n]), HeaderUnits)

-----------------------------------------------------------------------------
(* Desktop: transport_send and the controller underneath it.               *)

BeginSend ==
    /\ sending = <<>> /\ Len(sent) < MaxSends
    /\ \E size \in PayloadSizes :
          /\ sent' = Append(sent, size)
          /\ sending' = PacketUnits(Len(sent) + 1, size)
    /\ UNCHANGED <<usbPacket, pipe, pspVars, cutMidway, faults>>

\* One USB packet arrives.
Deliver ==
    /\ sending # <<>>
    /\ LET k == Smaller(usbPacket, Len(sending))
       IN  /\ pipe' = pipe \o Front(sending, k)
           /\ sending' = Rest(sending, k)
    /\ UNCHANGED <<usbPacket, sent, pspVars, cutMidway, faults>>

\* The transfer times out or fails; what was delivered stays delivered. The
\* loop closes the device, opens it again and goes on with another packet.
SendCut ==
    /\ sending # <<>> /\ Fault("cut")
    /\ sending' = <<>>
    /\ cutMidway' = (cutMidway \/ sending[1][2] > 1)
    /\ UNCHANGED <<usbPacket, sent, pipe, pspVars>>

-----------------------------------------------------------------------------
(* PSP: the receive of a frame.                                            *)

Accept(n, units) ==
    /\ accepted' = Append(accepted, [hdr |-> n, body |-> units])
    /\ mode' = "header"
    /\ hdr' = n /\ body' = units

\* A full header, from the first unit of a packet on.
IsHeader(units) ==
    Len(units) = HeaderUnits /\ units[1][2] = 1

\* Seeded fault: pay_received is not set to 0 for a new payload.
StartPayloadKeeps(n) ==
    /\ mode' = "payload"
    /\ hdr' = n
    /\ tries' = 0
    /\ UNCHANGED <<body, accepted>>

StartPayload(n) ==
    /\ mode' = "payload"
    /\ hdr' = n /\ body' = <<>>
    /\ tries' = 0
    /\ UNCHANGED accepted

\* Seeded fault: bytes short of a header are left for the next frame.
ReadHeaderWaits ==
    /\ mode = "header" /\ Len(pipe) >= HeaderUnits
    /\ LET units == Front(pipe, HeaderUnits)
           n     == units[1][1]
       IN  /\ pipe' = Rest(pipe, HeaderUnits)
           /\ \/ ~IsHeader(units) /\ UNCHANGED pspVars
              \/ IsHeader(units) /\ sent[n] = 0
                   /\ Accept(n, <<>>) /\ UNCHANGED tries
              \/ IsHeader(units) /\ sent[n] \in 1..PayloadCap
                   /\ StartPayload(n)
    /\ UNCHANGED <<hostVars, cutMidway, faults>>

\* Seeded fault: what is there beyond a complete packet is thrown away.
ReadHeaderFlushes ==
    /\ mode = "header" /\ pipe # <<>>
    /\ LET k     == Smaller(HeaderUnits, Len(pipe))
           units == Front(pipe, k)
           n     == units[1][1]
       IN  \/ ~IsHeader(units) /\ pipe' = Rest(pipe, k) /\ UNCHANGED pspVars
           \/ IsHeader(units) /\ sent[n] = 0
                /\ pipe' = <<>> /\ Accept(n, <<>>) /\ UNCHANGED tries
           \/ IsHeader(units) /\ sent[n] \in 1..PayloadCap
                /\ pipe' = Rest(pipe, k) /\ StartPayload(n)
    /\ UNCHANGED <<hostVars, cutMidway, faults>>

\* A short read, one without the magic number or the header of a payload that is
\* too large is consumed all the same. Without a payload the packet is complete.
ReadHeader ==
    /\ mode = "header" /\ pipe # <<>>
    /\ LET k     == Smaller(HeaderUnits, Len(pipe))
           units == Front(pipe, k)
           n     == units[1][1]
       IN  /\ pipe' = Rest(pipe, k)
           /\ \/ /\ ~IsHeader(units) \/ sent[n] > PayloadCap
                 /\ UNCHANGED pspVars
              \/ IsHeader(units) /\ sent[n] = 0
                   /\ Accept(n, <<>>) /\ UNCHANGED tries
              \/ IsHeader(units) /\ sent[n] \in 1..PayloadCap
                   /\ StartPayload(n)
    /\ UNCHANGED <<hostVars, cutMidway, faults>>

\* One attempt at the payload that finds something.
ReadPayload ==
    /\ mode = "payload" /\ pipe # <<>>
    /\ LET k     == Smaller(sent[hdr] - Len(body), Len(pipe))
           units == body \o Front(pipe, k)
       IN  /\ pipe' = Rest(pipe, k)
           /\ IF Len(units) >= sent[hdr]
              THEN Accept(hdr, units)
              ELSE body' = units /\ UNCHANGED <<mode, hdr, accepted>>
    /\ UNCHANGED <<hostVars, tries, cutMidway, faults>>

\* Seeded fault: an incomplete payload is passed on.
PayloadDroppedNot ==
    IF tries + 1 < MaxTries
    THEN tries' = tries + 1 /\ NoFault /\ UNCHANGED <<mode, hdr, body, accepted>>
    ELSE /\ IF sending = <<>> THEN NoFault ELSE Stall
         /\ tries' = tries + 1
         /\ Accept(hdr, body)

\* An attempt that finds nothing: after MaxTries of them the packet is given
\* up. A transfer under way that brings nothing for so long is a fault.
PayloadMissing ==
    IF tries + 1 < MaxTries
    THEN tries' = tries + 1 /\ NoFault /\ UNCHANGED <<mode, hdr, body, accepted>>
    ELSE /\ IF sending = <<>> THEN NoFault ELSE Stall
         /\ tries' = tries + 1
         /\ mode' = "header" /\ UNCHANGED <<hdr, body, accepted>>

WaitPayload ==
    /\ mode = "payload" /\ pipe = <<>>
    /\ PayloadMissing
    /\ UNCHANGED <<hostVars, pipe>>

\* transport_receive fails: a payload begun is given up.
ReadError ==
    /\ Fault("read")
    /\ mode' = "header"
    /\ UNCHANGED <<hostVars, pipe, hdr, body, tries, accepted, cutMidway>>

PspRead == ReadHeader \/ ReadPayload \/ WaitPayload

Init ==
    /\ usbPacket \in UsbPackets
    /\ sent = <<>> /\ sending = <<>> /\ pipe = <<>>
    /\ mode = "header" /\ hdr = 0 /\ body = <<>> /\ tries = 0
    /\ accepted = <<>>
    /\ cutMidway = FALSE /\ faults = 0

Next ==
    \/ BeginSend
    \/ Deliver
    \/ SendCut
    \/ PspRead
    \/ ReadError

Spec == Init /\ [][Next]_vars

\* The controller goes on delivering and the frame loop goes on reading.
FairSpec == Spec /\ WF_vars(Deliver) /\ WF_vars(PspRead)

-----------------------------------------------------------------------------
\* The payload loop never reads past the packet it is in, nor past payload_buf.
TypeOK ==
    /\ usbPacket \in UsbPackets
    /\ sent \in Seq(PayloadSizes) /\ Len(sent) <= MaxSends
    /\ \A q \in {sending, pipe, body} :
          \A i \in DOMAIN q : q[i] \in (1..MaxSends) \X (1..HeaderUnits + PayloadCap)
    /\ mode \in {"header", "payload"}
    /\ hdr \in 0..Len(sent)
    /\ mode = "payload" => Len(body) < sent[hdr] /\ tries < MaxTries
    /\ Len(body) <= PayloadCap
    /\ tries \in 0..MaxTries
    /\ cutMidway \in BOOLEAN /\ faults \in 0..MaxFaults

\* What the PSP acts on are packets the desktop sent, in the order sent and none
\* twice. Unless a transfer ended with a part of its packet delivered, each has
\* all of its own payload and nothing else, whatever was misread, delayed or
\* given up. After such a transfer this does not hold: see ChecksumValidated.
AcceptedIntact ==
    /\ ~cutMidway => \A i \in DOMAIN accepted :
                        accepted[i].body = Payload(accepted[i].hdr)
    /\ \A i, j \in DOMAIN accepted :
          i < j => accepted[i].hdr < accepted[j].hdr

\* "A structured packet protocol with checksum validation for reliable data
\* transmission" (README.md:16): a packet the PSP acts on has its own payload,
\* also when a transfer is cut between two USB packets. There is no checksum:
\* the beginning of the next packet completes the payload that was cut.
ChecksumValidated ==
    \A i \in DOMAIN accepted : accepted[i].body = Payload(accepted[i].hdr)

\* Without adverse events nothing is lost either: the reader is never early for
\* a payload that is still on its way.
NothingLost ==
    faults = 0 => \A i \in DOMAIN accepted : accepted[i].hdr = i

\* A stream that has been off its boundary finds back to it: a packet sent when
\* the reader has done all it can with what it had is accepted, unless something
\* adverse happens while it is on its way.
Realigns ==
    \A n \in 1..MaxSends, f \in 0..MaxFaults :
        /\ Len(sent) = n /\ sending = PacketUnits(n, sent[n])
        /\ mode = "header" /\ ~ENABLED ReadHeader
        /\ faults = f
        ~> faults # f \/ \E i \in DOMAIN accepted : accepted[i].hdr = n
=============================================================================
