------------------------------ MODULE UsbLink ------------------------------
(***************************************************************************)
(* The USB link between the desktop companion and the PSP: the two bulk    *)
(* pipes, the handle the desktop holds on the device, and what one call of *)
(* transport_initialize / _send / _receive / _shutdown does to them.       *)
(*                                                                         *)
(* libusb, the cable and the PSP's USB controller are not in the           *)
(* repository; they are modelled by what the two transport files rely on.  *)
(***************************************************************************)
EXTENDS Integers, Sequences

CONSTANTS
    Versions,       \* protocol versions a build may carry
    OutCap,         \* packets the host-to-PSP pipe holds before a send blocks
    InCap,          \* packets the PSP-to-host pipe holds before a send fails
    TimeoutTicks,   \* USB_TIMEOUT_MS in ticks (one tick is one PSP frame)
    FaultKinds,     \* the adverse events this instance allows
    MaxFaults       \* bound: how many of them may happen

ASSUME LinkAssumption ==
    /\ Versions # {}
    /\ OutCap \in Nat \ {0}
    /\ InCap \in Nat \ {0}
    /\ TimeoutTicks \in Nat \ {0}
    /\ MaxFaults \in Nat
    /\ FaultKinds \subseteq {"unplug", "crash", "stall", "io", "payload",
                             "resident"}

VARIABLES
    attached,    \* the PSP enumerates as FFFF:0001 on the host's bus
    handle,      \* g_usb_handle: "closed" (nullptr), "open", or "gone": still
                 \* held by the desktop after the device went away
    out,         \* bulk OUT pipe: packets the host sent, the PSP has not read
    in,          \* bulk IN pipe: packets the PSP sent, the host has not read
    skew,        \* the PSP reads the OUT byte stream off a packet boundary
    pspRunning,  \* the PSP application is running, so it polls the OUT pipe
    faults       \* adverse events so far, at most MaxFaults

linkVars == <<attached, handle, out, in, skew, pspRunning, faults>>

-----------------------------------------------------------------------------
(* A packet as far as the session can tell: the statistics, git and        *)
(* notification payloads are one class of packet, DATA.                    *)

MessageIds == {"HELLO", "HEARTBEAT", "DATA", "CONTROL"}

Packet == [id : MessageIds, ver : Versions, cmd : 0..2]

Message(id, ver) == [id |-> id, ver |-> ver, cmd |-> 0]

\* Seeded fault: the command byte is not written into the payload.
ControlMessageBlank(ver, cmd) == [id |-> "CONTROL", ver |-> ver, cmd |-> 0]

ControlMessage(ver, cmd) == [id |-> "CONTROL", ver |-> ver, cmd |-> cmd]

Fault(kind) ==
    /\ kind \in FaultKinds
    /\ faults < MaxFaults
    /\ faults' = faults + 1

NoFault == UNCHANGED faults

-----------------------------------------------------------------------------
(* Desktop side.                                                           *)

\* transport_initialize: an open handle is kept, otherwise the device must be
\* there to be opened; claiming it may still fail, and then all is released.
TransportOpen(ok) ==
    /\ IF handle # "closed"
       THEN ok /\ UNCHANGED <<handle, faults>>
       ELSE \/ ok /\ attached /\ handle' = "open" /\ NoFault
            \/ ~ok /\ ~attached /\ UNCHANGED <<handle, faults>>
            \/ ~ok /\ attached /\ Fault("io") /\ UNCHANGED handle
    /\ UNCHANGED <<attached, out, in, skew, pspRunning>>

\* transport_shutdown: the handle is released; the device keeps what it queued.
TransportClose == handle' = "closed"

SendBlocked == handle = "open" /\ Len(out) = OutCap

\* transport_send of p. It fails at once without a usable device, after the
\* timeout when nobody drains the pipe, and on a transfer error, where the
\* device may have taken the packet all the same.
HostSend(p, waited, ok) ==
    /\ \/ /\ ok /\ handle = "open" /\ ~SendBlocked
          /\ out' = Append(out, p)
          /\ NoFault
       \/ ~ok /\ handle # "open" /\ UNCHANGED <<out, faults>>
       \/ /\ ~ok /\ SendBlocked /\ ~pspRunning /\ waited >= TimeoutTicks
          /\ UNCHANGED <<out, faults>>
       \/ /\ ~ok /\ handle = "open" /\ Fault("io")
          /\ \/ UNCHANGED out
             \/ ~SendBlocked /\ out' = Append(out, p)
    /\ UNCHANGED <<attached, in, skew, pspRunning>>

\* transport_receive, its three outcomes: a packet, OK with no bytes after the
\* timeout, an error.
HostReceives ==
    /\ handle = "open" /\ in # <<>>
    /\ in' = Tail(in)
    /\ UNCHANGED <<attached, out, skew, pspRunning>>

HostReceiveTimesOut(waited) ==
    /\ handle = "open" /\ in = <<>>
    /\ waited >= TimeoutTicks
    /\ UNCHANGED linkVars

HostReceiveFails ==
    /\ IF handle = "open" THEN Fault("io") ELSE NoFault
    /\ UNCHANGED <<attached, out, in, skew, pspRunning>>

-----------------------------------------------------------------------------
(* PSP side.                                                               *)

\* transport_send on the PSP: the driver queues the packet for the host.
DeviceSendOk == attached /\ Len(in) < InCap

\* The device leaves the bus: both pipes are flushed, the desktop's handle is
\* still non-null but dead.
Detach ==
    /\ attached' = FALSE
    /\ handle' = IF handle = "open" THEN "gone" ELSE handle
    /\ out' = <<>>
    /\ in' = <<>>
    /\ skew' = FALSE

LinkTypeOK ==
    /\ attached \in BOOLEAN
    /\ handle \in {"closed", "open", "gone"}
    /\ out \in Seq(Packet)
    /\ in \in Seq(Packet)
    /\ skew \in BOOLEAN
    /\ pspRunning \in BOOLEAN
    /\ faults \in 0..MaxFaults

LinkInit ==
    /\ attached = FALSE
    /\ handle = "closed"
    /\ out = <<>>
    /\ in = <<>>
    /\ skew = FALSE
    /\ pspRunning = FALSE
    /\ faults = 0
=============================================================================
