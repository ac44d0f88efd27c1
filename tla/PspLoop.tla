------------------------------ MODULE PspLoop ------------------------------
(***************************************************************************)
(* The PSP application's frame loop (apps/psp/src/main.c) with the session *)
(* part of router_dispatch. A frame is one action: the loop is a single    *)
(* thread and its transport calls do not block. The screen (ui.c) has no   *)
(* influence on the session and is a module of its own.                    *)
(***************************************************************************)
EXTENDS UsbLink

CONSTANTS
    WatchdogFrames,  \* frames without a packet before CONNECTED is given up
    MaxKeys          \* bound: pad combinations pressed in one behaviour

ASSUME PspAssumption ==
    /\ WatchdogFrames \in Nat \ {0}
    /\ MaxKeys \in Nat

VARIABLES
    pspVersion,  \* the protocol version compiled into the PSP build
    mock,        \* g_mock_mode: the driver could not be started
    pState,      \* state
    ticks,       \* ticks_since_last_packet
    cmd,         \* g_remote_command
    keys,        \* history: pad combinations pressed so far, at most MaxKeys
    obeyed       \* history: CONTROL packets that reached g_remote_command

pspVars == <<pspVersion, mock, pState, ticks, cmd, keys, obeyed>>

-----------------------------------------------------------------------------
\* What the pad asks of this frame: START leaves the loop, SELECT+SQUARE sets
\* command 1, SELECT+TRIANGLE command 2.
Press(key) ==
    \/ key = "none" /\ UNCHANGED keys
    \/ key # "none" /\ keys < MaxKeys /\ keys' = keys + 1

AfterKeys(key) == CASE key = "square"   -> 1
                    [] key = "triangle" -> 2
                    [] OTHER            -> cmd

\* Seeded faults: the watchdog counts and never fires; it does not count; it
\* allows the five seconds its comment speaks of and no more.
WatchdogNeverFires(s, t) ==
    /\ ticks' = IF s = "CONNECTED" THEN t + 1 ELSE t
    /\ pState' = s
WatchdogStuck(s, t) == ticks' = t /\ pState' = s
WatchdogAsCommented(s, t) ==
    /\ ticks' = IF s = "CONNECTED" THEN t + 1 ELSE t
    /\ pState' = IF s = "CONNECTED" /\ t + 1 > TimeoutTicks
                 THEN "DISCONNECTED" ELSE s

\* The connection watchdog, at the end of every frame, for the state s and the
\* counter t the frame has reached.
Watchdog(s, t) ==
    /\ ticks' = IF s = "CONNECTED" THEN t + 1 ELSE t
    /\ pState' = IF s = "CONNECTED" /\ t + 1 > WatchdogFrames
                 THEN "DISCONNECTED" ELSE s

\* Nothing to read: the pipe is empty, or mock mode never reads.
FrameIdle(key) ==
    /\ mock \/ out = <<>>
    /\ Watchdog(pState, ticks)
    /\ cmd' = AfterKeys(key)
    /\ UNCHANGED <<linkVars, obeyed>>

\* A header that is short, or not a header: the stream is off a boundary. The
\* bytes are consumed and the watchdog is not reset.
FrameJunk(key) ==
    /\ ~mock /\ skew /\ out # <<>>
    /\ out' = Tail(out)
    /\ skew' \in BOOLEAN
    /\ Watchdog(pState, ticks)
    /\ cmd' = AfterKeys(key)
    /\ UNCHANGED <<attached, handle, in, pspRunning, faults, obeyed>>

\* Seeded fault: a packet does not reset the watchdog.
RearmedNot == ticks

\* What a packet sets ticks_since_last_packet to, before the watchdog looks.
Rearmed == 0

\* Seeded fault: the version is not compared.
AcceptableAnyVersion(p) == p.id = "HELLO"

\* Seeded fault: the message id is not looked at.
AcceptableAnyMessage(p) == p.ver = pspVersion

\* A HELLO this build answers.
Acceptable(p) == p.id = "HELLO" /\ p.ver = pspVersion

\* HELLO while DISCONNECTED: the version must match and the reply must be
\* queued. HELLO while CONNECTED is routed like any packet, hence ignored.
FramePacket(key) ==
    /\ ~mock /\ ~skew /\ out # <<>>
    /\ out' = Tail(out)
    /\ LET p == Head(out)
       IN  /\ IF pState = "DISCONNECTED" /\ Acceptable(p)
              THEN \/ /\ DeviceSendOk /\ NoFault
                      /\ in' = Append(in, Message("HELLO", pspVersion))
                      /\ Watchdog("CONNECTED", Rearmed)
                   \/ /\ IF DeviceSendOk THEN Fault("io") ELSE NoFault
                      /\ Watchdog("DISCONNECTED", Rearmed)
                      /\ UNCHANGED in
              ELSE Watchdog(pState, Rearmed) /\ UNCHANGED <<in, faults>>
           /\ IF pState = "CONNECTED" /\ p.id = "CONTROL"
              THEN cmd' = p.cmd /\ obeyed' = obeyed + 1
              ELSE cmd' = AfterKeys(key) /\ UNCHANGED obeyed
    /\ UNCHANGED <<attached, handle, skew, pspRunning>>

\* The header was read but its payload was not: too few bytes in 100 attempts,
\* or a read error. The packet is dropped, the watchdog is reset, the session
\* state stays; what was left of the payload is read as headers later.
FramePayloadLost(key) ==
    /\ ~mock /\ ~skew /\ out # <<>>
    /\ Head(out).id \in {"DATA", "CONTROL"}
    /\ Fault("payload")
    /\ out' = Tail(out)
    /\ skew' \in BOOLEAN
    /\ Watchdog(pState, Rearmed)
    /\ cmd' = AfterKeys(key)
    /\ UNCHANGED <<attached, handle, in, pspRunning, obeyed>>

\* transport_receive reports an error.
FrameError(key) ==
    /\ ~mock
    /\ IF attached THEN Fault("io") ELSE NoFault
    /\ Watchdog("DISCONNECTED", ticks)
    /\ cmd' = AfterKeys(key)
    /\ UNCHANGED <<attached, handle, out, in, skew, pspRunning, obeyed>>

\* A frame that reaches the receive: neither START nor a pending command.
Frame ==
    /\ pspRunning /\ cmd # 1
    /\ \E key \in {"none", "square", "triangle"} :
          /\ Press(key)
          /\ AfterKeys(key) # 2
          /\ \/ FrameIdle(key)
             \/ FrameJunk(key)
             \/ FramePacket(key)
             \/ FramePayloadLost(key)
             \/ FrameError(key)
    /\ UNCHANGED <<pspVersion, mock>>

\* The process is gone and with it all of its state. transport_shutdown leaves
\* the teardown to the firmware, which takes the device off the bus; on exit to
\* the menu the driver may instead stay resident with the device attached.
LeaveGame(resident) ==
    /\ pspRunning' = FALSE
    /\ pState' = "DISCONNECTED" /\ ticks' = 0 /\ cmd' = 0 /\ mock' = FALSE
    /\ IF resident
       THEN Fault("resident") /\ UNCHANGED <<attached, handle, out, in, skew>>
       ELSE Detach /\ NoFault
    /\ UNCHANGED <<pspVersion, obeyed>>

ExitToMenu ==
    /\ pspRunning
    /\ \/ cmd = 1 /\ UNCHANGED keys
       \/ Press("start")
    /\ \E resident \in BOOLEAN : (resident => attached) /\ LeaveGame(resident)

ColdReset ==
    /\ pspRunning /\ cmd # 1
    /\ \E key \in {"none", "triangle"} : Press(key) /\ AfterKeys(key) = 2
    /\ LeaveGame(FALSE)

PspFrame == Frame \/ ExitToMenu \/ ColdReset

\* main's start-up: transport_initialize always reports success. With a driver
\* left from an earlier run it opens that one; otherwise it starts the driver,
\* with or without the device showing up on a bus, or falls back to mock mode.
PspLaunch ==
    /\ ~pspRunning
    /\ pspRunning' = TRUE
    /\ IF attached
       THEN UNCHANGED <<attached, mock>>
       ELSE /\ attached' \in BOOLEAN
            /\ mock' \in BOOLEAN
            /\ ~(attached' /\ mock')
    /\ UNCHANGED <<handle, out, in, skew, faults,
                   pspVersion, pState, ticks, cmd, keys, obeyed>>

\* The cable.
Unplug ==
    /\ attached /\ Fault("unplug")
    /\ Detach
    /\ UNCHANGED <<pspRunning, pspVars>>

Plug ==
    /\ ~attached /\ pspRunning /\ ~mock
    /\ attached' = TRUE
    /\ UNCHANGED <<handle, out, in, skew, pspRunning, faults, pspVars>>

PspTypeOK ==
    /\ pspVersion \in Versions
    /\ mock \in BOOLEAN
    /\ pState \in {"DISCONNECTED", "CONNECTED"}
    /\ ticks \in 0..(WatchdogFrames + 1)
    /\ pState = "CONNECTED" => ticks <= WatchdogFrames
    /\ cmd \in 0..2
    /\ keys \in 0..MaxKeys
    /\ obeyed \in Nat

PspInit ==
    /\ pspVersion \in Versions
    /\ mock = FALSE
    /\ pState = "DISCONNECTED"
    /\ ticks = 0
    /\ cmd = 0
    /\ keys = 0
    /\ obeyed = 0
=============================================================================
