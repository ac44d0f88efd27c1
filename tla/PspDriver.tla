----------------------------- MODULE PspDriver -----------------------------
(***************************************************************************)
(* The PSP's USB driver over several launches of the application: the      *)
(* start-up of apps/psp/src/transport_usb.c step by step, each of which    *)
(* the firmware may refuse and at each of which the HOME button may end    *)
(* the program, the kernel module it loads                                 *)
(* (apps/psp/driver/pspdl_driver_kernel.c) with its registration, event    *)
(* flag and callbacks, and the requests its ioctl hands to the USB stack.  *)
(*                                                                         *)
(* The firmware is not in the repository. It is modelled by what the two   *)
(* files rely on: a call is carried out or refused, and once the program   *)
(* has left the firmware takes apart as much as it likes of what the       *)
(* program left behind, the bus first, then the drivers, then the module   *)
(* (transport_usb.c:125), before the next launch finds the rest            *)
(* ("if it's already in memory from a previous run", transport_usb.c:24).  *)
(***************************************************************************)
EXTENDS Integers, Sequences

CONSTANTS
    Late,         \* a request may be completed after the call that queued it
    MaxLaunches,  \* bound: launches of the application
    MaxRefused,   \* bound: firmware calls refused
    MaxPlugs,     \* bound: cable events
    MaxSends      \* bound: packets the application sends

ASSUME DriverAssumption ==
    /\ Late \in BOOLEAN
    /\ MaxLaunches \in Nat /\ MaxRefused \in Nat
    /\ MaxPlugs \in Nat /\ MaxSends \in Nat

VARIABLES
    app,         \* "none", where transport_initialize is, or "run"
    mock,        \* g_mock_mode
    fd,          \* g_io_fd >= 0
    failed,      \* a start or activation failed: "USB Err" in g_status_msg
    prx,         \* the module: "absent", "loaded", "started"
    registered,  \* g_registered
    known,       \* how often the USB stack's list holds a g_usb_driver
    kept,        \* history: of these, those it refused to let go
    started,     \* what the USB stack has started: "bus", "driver"
    active,      \* sceUsbActivate: the PSP shows up on a bus
    event,       \* g_usb_event, 0 for its negative values
    flags,       \* the event flags that exist in the kernel
    created,     \* how many it has created
    cable,       \* a host is at the other end
    txBuf,       \* g_tx_buf: the number of the packet copied to it last
    queued,      \* packets whose requests the USB stack holds, all on g_tx_buf
    asked,       \* history: how many packets the ioctl was given
    onWire,      \* history: what went out, as the packet and whose request it was
    launches, refused, plugs  \* counters for the bounds

appVars   == <<app, mock, fd, failed>>
stackVars == <<prx, registered, known, kept>>
flagVars  == <<event, flags, created>>
usbVars   == <<started, active, flagVars>>
ioVars    == <<txBuf, queued, asked, onWire>>
counters  == <<launches, refused, plugs>>
vars      == <<appVars, stackVars, usbVars, cable, ioVars, counters>>

\* A call of the firmware: carried out, or refused at its own will.
Outcome(ok) ==
    /\ ok \/ refused < MaxRefused
    /\ refused' = IF ok THEN refused ELSE refused + 1

Goto(step) == app' = step /\ UNCHANGED <<mock, failed>>

\* Every failed step of the start-up ends in mock mode, and reports success.
MockMode == app' = "run" /\ mock' = TRUE /\ UNCHANGED failed

-----------------------------------------------------------------------------
(* The kernel module.                                                      *)

\* module_start: the ioctl device, nothing of USB.
ModuleStart == prx' = "started" /\ UNCHANGED <<registered, known, kept>>

\* Seeded fault: module_stop leaves the driver registered.
ModuleStopForgets ==
    prx' = "absent" /\ registered' = FALSE /\ UNCHANGED <<known, kept, refused>>

\* module_stop does not look at what sceUsbbdUnregister returns: the module is
\* gone also when the USB stack keeps its driver.
ModuleStop ==
    /\ prx' = "absent"
    /\ registered' = FALSE
    /\ \E ok \in BOOLEAN :
          /\ Outcome(ok)
          /\ ~registered => ok
          /\ known' = IF registered /\ ok THEN known - 1 ELSE known
          /\ kept' = IF ok THEN kept ELSE kept + 1

\* PSPDL_IOCTL_INIT, when the USB stack agrees.
Register ==
    /\ registered' = TRUE
    /\ known' = IF registered THEN known ELSE known + 1

\* start_func and, below, stop_func are called by the USB stack. A flag that
\* cannot be created is not missed.
StartFunc(ok) ==
    IF event # 0 \/ ~ok
    THEN UNCHANGED flagVars
    ELSE /\ created' = created + 1
         /\ event' = created'
         /\ flags' = flags \cup {created'}

\* Seeded fault: the flag is deleted, its handle stays.
StopFuncKeepsHandle ==
    flags' = flags \ {event} /\ UNCHANGED <<event, created>>

StopFunc ==
    /\ flags' = flags \ {event}
    /\ event' = 0
    /\ UNCHANGED created

-----------------------------------------------------------------------------
(* transport_initialize.                                                   *)

Launch ==
    /\ app = "none" /\ launches < MaxLaunches
    /\ launches' = launches + 1
    /\ app' = "open" /\ mock' = FALSE /\ failed' = FALSE /\ fd' = FALSE
    /\ UNCHANGED <<stackVars, usbVars, cable, ioVars, refused, plugs>>

\* Seeded fault: the driver of an earlier run is not looked for.
TryOpenNever ==
    /\ app = "open"
    /\ Goto("load")
    /\ UNCHANGED <<fd, stackVars, usbVars, refused>>

\* A device there is opened; without one the module is loaded first.
TryOpen ==
    /\ app = "open"
    /\ \E ok \in BOOLEAN :
          /\ Outcome(ok \/ prx # "started")
          /\ ok => prx = "started"
          /\ fd' = ok
          /\ Goto(IF ok THEN "init" ELSE "load")
    /\ UNCHANGED <<stackVars, usbVars>>

\* A module left in memory by an earlier launch cannot be loaded again.
LoadPrx ==
    /\ app = "load"
    /\ \E ok \in BOOLEAN :
          /\ Outcome(ok \/ prx # "absent")
          /\ ok => prx = "absent"
          /\ IF ok THEN prx' = "loaded" /\ Goto("start")
                   ELSE MockMode /\ UNCHANGED prx
    /\ UNCHANGED <<fd, registered, known, kept, usbVars>>

StartPrx ==
    /\ app = "start"
    /\ \E ok \in BOOLEAN :
          /\ Outcome(ok)
          /\ IF ok THEN ModuleStart /\ Goto("reopen")
                   ELSE MockMode /\ UNCHANGED stackVars
    /\ UNCHANGED <<fd, usbVars>>

Reopen ==
    /\ app = "reopen"
    /\ \E ok \in BOOLEAN :
          /\ Outcome(ok)
          /\ fd' = ok
          /\ IF ok THEN Goto("init") ELSE MockMode
    /\ UNCHANGED <<stackVars, usbVars>>

\* A driver that is registered needs nothing of the USB stack.
IoctlInit ==
    /\ app = "init"
    /\ \E ok \in BOOLEAN :
          /\ Outcome(ok)
          /\ registered => ok
          /\ IF ok THEN Register /\ Goto("usbbus")
                   ELSE MockMode /\ UNCHANGED <<registered, known>>
    /\ UNCHANGED <<fd, prx, kept, usbVars>>

\* sceUsbStart of the bus. What is started already is refused. What fails from
\* here on is shown, and the start-up goes on.
StartBus ==
    /\ app = "usbbus" /\ app' = "usbdriver"
    /\ \/ /\ "bus" \notin started /\ Outcome(TRUE)
          /\ started' = started \cup {"bus"} /\ UNCHANGED failed
       \/ Outcome("bus" \in started) /\ failed' = TRUE /\ UNCHANGED started
    /\ UNCHANGED <<mock, fd, stackVars, active, flagVars>>

\* sceUsbStart of the driver, which calls start_func.
StartUsb ==
    /\ app = "usbdriver" /\ app' = "activate"
    /\ \/ /\ "driver" \notin started
          /\ \E flag \in BOOLEAN : Outcome(flag) /\ StartFunc(flag)
          /\ started' = started \cup {"driver"} /\ UNCHANGED failed
       \/ /\ Outcome("driver" \in started) /\ failed' = TRUE
          /\ UNCHANGED <<started, flagVars>>
    /\ UNCHANGED <<mock, fd, stackVars, active>>

Activate ==
    /\ app = "activate" /\ app' = "run"
    /\ LET ready == started = {"bus", "driver"} IN
       \/ ready /\ Outcome(TRUE) /\ active' = TRUE /\ UNCHANGED failed
       \/ Outcome(~ready) /\ failed' = TRUE /\ UNCHANGED active
    /\ UNCHANGED <<mock, fd, stackVars, started, flagVars>>

StartUp ==
    /\ \/ TryOpen \/ LoadPrx \/ StartPrx \/ Reopen \/ IoctlInit
       \/ StartBus \/ StartUsb \/ Activate
    /\ UNCHANGED <<cable, ioVars, launches, plugs>>

-----------------------------------------------------------------------------
(* Running.                                                                *)

\* usb_attach and usb_detach set a bit in the event flag that nobody waits for.
PlugOrUnplug ==
    /\ plugs < MaxPlugs /\ plugs' = plugs + 1
    /\ cable' = ~cable
    /\ queued' = IF cable THEN <<>> ELSE queued
    /\ UNCHANGED <<appVars, stackVars, usbVars, txBuf, asked, onWire>>
    /\ UNCHANGED <<launches, refused>>

\* All that transport_send asks for: it does not know whether a host is there.
CanSend == app = "run" /\ ~mock /\ fd

Sent(packet, request) ==
    onWire' = Append(onWire, [packet |-> packet, request |-> request])

\* The USB stack does a request at once, holds it, or refuses it.
DoneAtOnce  == active /\ cable /\ queued = <<>> /\ UNCHANGED queued
HeldBack    == /\ Late /\ "driver" \in started
               /\ queued' = Append(queued, asked') /\ UNCHANGED onWire
SendRefused == UNCHANGED <<queued, onWire>>

\* Seeded fault: the packet is copied only once its request is done.
IoctlSendNoCopy ==
    /\ CanSend /\ asked < MaxSends
    /\ asked' = asked + 1
    /\ \/ DoneAtOnce /\ Sent(asked', asked') /\ txBuf' = asked'
       \/ (HeldBack \/ SendRefused) /\ UNCHANGED txBuf
    /\ UNCHANGED <<appVars, stackVars, usbVars, cable, counters>>

\* PSPDL_IOCTL_SEND: the packet is copied to g_tx_buf and a request for it, on
\* the ioctl's stack, is handed to the USB stack. The ioctl returns at once:
\* the request may be done by then, be left behind, or be refused, but the
\* buffer is overwritten in any case.
IoctlSend ==
    /\ CanSend /\ asked < MaxSends
    /\ asked' = asked + 1
    /\ txBuf' = asked'
    /\ \/ DoneAtOnce /\ Sent(txBuf', asked')
       \/ HeldBack
       \/ SendRefused
    /\ UNCHANGED <<appVars, stackVars, usbVars, cable, counters>>

\* The host reads: the oldest request left behind sends what g_tx_buf holds.
CompleteSend ==
    /\ queued # <<>> /\ active /\ cable
    /\ Sent(txBuf, Head(queued))
    /\ queued' = Tail(queued)
    /\ UNCHANGED <<appVars, stackVars, usbVars, cable, txBuf, asked, counters>>

\* sceKernelExitGame, from main after a transport_shutdown that does nothing or
\* from exit_callback, whose thread runs since before the start-up.
Exit ==
    /\ app # "none"
    /\ app' = "none" /\ mock' = FALSE /\ failed' = FALSE /\ fd' = FALSE
    /\ UNCHANGED <<stackVars, usbVars, cable, ioVars, counters>>

-----------------------------------------------------------------------------
(* What the firmware may take apart once the program has left.             *)

TakeOffBus ==
    /\ app = "none" /\ active
    /\ active' = FALSE
    /\ UNCHANGED <<appVars, stackVars, started, flagVars, cable, ioVars, counters>>

\* The requests of a driver that is stopped are given up.
StopUsb ==
    /\ app = "none" /\ ~active
    /\ \E d \in started :
          /\ started' = started \ {d}
          /\ IF d = "driver" THEN StopFunc /\ queued' = <<>>
                             ELSE UNCHANGED <<flagVars, queued>>
    /\ UNCHANGED <<appVars, stackVars, active, cable, counters>>
    /\ UNCHANGED <<txBuf, asked, onWire>>

\* module_stop is run only for a module that was started.
Unload ==
    /\ app = "none" /\ prx # "absent" /\ "driver" \notin started
    /\ \/ prx = "started" /\ ModuleStop
       \/ prx = "loaded" /\ prx' = "absent"
          /\ UNCHANGED <<registered, known, kept, refused>>
    /\ txBuf' = 0
    /\ UNCHANGED <<appVars, usbVars, cable, queued, asked, onWire>>
    /\ UNCHANGED <<launches, plugs>>

Init ==
    /\ app = "none" /\ mock = FALSE /\ fd = FALSE /\ failed = FALSE
    /\ prx = "absent" /\ registered = FALSE /\ known = 0 /\ kept = 0
    /\ started = {} /\ active = FALSE
    /\ event = 0 /\ flags = {} /\ created = 0
    /\ cable \in BOOLEAN
    /\ txBuf = 0 /\ queued = <<>> /\ asked = 0 /\ onWire = <<>>
    /\ launches = 0 /\ refused = 0 /\ plugs = 0

Next ==
    \/ Launch
    \/ StartUp
    \/ PlugOrUnplug
    \/ IoctlSend
    \/ CompleteSend
    \/ Exit
    \/ TakeOffBus
    \/ StopUsb
    \/ Unload

Spec == Init /\ [][Next]_vars

-----------------------------------------------------------------------------
\* The USB stack and the module agree over any sequence of launches, wherever
\* each was left and whatever was refused: the stack holds the module's driver
\* once and no other, except for those it refused to let go when their module
\* was unloaded, and only a registered driver is started and put on the bus.
StackHoldsDriver ==
    /\ known = kept + (IF registered THEN 1 ELSE 0)
    /\ active => started = {"bus", "driver"}
    /\ "driver" \in started => registered
    /\ registered => prx = "started"

\* The attach callback never sets a flag that was deleted, also after a driver
\* that was stopped is started again, and no flag is leaked.
FlagOwned ==
    /\ event # 0 => event \in flags /\ "driver" \in started
    /\ flags \subseteq {event}

\* A launch that is refused nothing, over whatever earlier launches have left
\* behind, gets a device on the bus. The only exception: a program that left
\* between loading the module and starting it. The module in memory is then
\* neither opened nor loaded, and each launch ends in mock mode until the
\* firmware unloads it.
CleanLaunchWorks ==
    refused = 0 /\ app = "run" =>
        IF mock THEN prx = "loaded" ELSE fd /\ active

\* "Waiting for Host..." is shown only with the device on the bus.
StatusHonest == app = "run" /\ ~mock /\ ~failed => active

\* A request is on g_tx_buf until the USB stack completes it, however late, and
\* a packet given to the ioctl in the meantime goes out in its place. But never
\* one from before its own, and what goes out never goes back to an older one.
SentNeverOlder ==
    /\ \A i \in DOMAIN onWire : onWire[i].packet >= onWire[i].request
    /\ \A i, j \in DOMAIN onWire : i < j =>
          /\ onWire[i].request < onWire[j].request
          /\ onWire[i].packet <= onWire[j].packet

\* "Shutdown must always release communication resources before termination"
\* (docs/architecture/system_lifecycle.md:169): once the program has left, its
\* driver is neither on the bus nor registered. It is, when the firmware does
\* not clean up: transport_shutdown does nothing (transport_usb.c:123-129).
ReleasedBeforeTermination == app = "none" => ~active /\ started = {} /\ ~registered
=============================================================================
