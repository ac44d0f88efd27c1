---------------------------- MODULE DesktopLoop ----------------------------
(***************************************************************************)
(* The desktop companion's main loop (apps/desktop/src/main.cpp) and the   *)
(* part of its HTTP dashboard that the loop shares: the connection state   *)
(* it shows and the two remote-command triggers. dpc is the statement the  *)
(* loop is at; between two of its steps the PSP, the dashboard's user and  *)
(* the cable may act.                                                      *)
(***************************************************************************)
EXTENDS UsbLink

CONSTANTS
    DesktopVersion,  \* the protocol version compiled into the desktop
    HelloTicks,      \* a HELLO is repeated after this long (1 s)
    BeatTicks,       \* a HEARTBEAT is due after this long (2 s)
    SleepTicks,      \* the pauses between passes (100 ms, 2 s when searching)
    SlackTicks,      \* longest a pass computes metrics for, unless it stalls
    MaxClicks        \* bound: dashboard commands clicked in one behaviour

ASSUME DesktopAssumption ==
    /\ DesktopVersion \in Versions
    /\ HelloTicks \in Nat \ {0}
    /\ BeatTicks \in Nat \ {0}
    /\ SleepTicks \in Nat \ {0}
    /\ SlackTicks \in 0..TimeoutTicks
    /\ SleepTicks <= TimeoutTicks
    /\ MaxClicks \in Nat

VARIABLES
    dpc,         \* where the loop is; "Down" when no desktop process runs
    dState,      \* state
    httpState,   \* HttpServer::m_connection_state
    sinceHello,  \* age of last_hello_time, saturating at HelloTicks
    sinceBeat,   \* age of last_heartbeat_time, saturating at BeatTicks
    busy,        \* how long the statement dpc names has taken so far
    stalled,     \* the loop hangs in popen("git ...")
    trigExit,    \* HttpServer::m_trigger_exit
    trigReboot,  \* HttpServer::m_trigger_reboot
    clicks       \* history: commands clicked so far, at most MaxClicks

desktopVars == <<dpc, dState, httpState, sinceHello, sinceBeat, busy, stalled,
                 trigExit, trigReboot, clicks>>

timerVars == <<sinceHello, sinceBeat>>
uiVars    == <<httpState, trigExit, trigReboot, clicks>>

DesktopSteps == {"Poll", "SendExit", "SendReboot", "Search", "Open", "Hello",
                 "Await", "Beat", "Stats", "Git", "Notif", "Drain", "Sleep"}

Capped(n, cap) == IF n < cap THEN n ELSE cap

At(step) == dpc = step /\ ~stalled

Goto(step) == dpc' = step /\ busy' = 0 /\ UNCHANGED stalled

\* Passing from one metric to the next keeps the time the pass has computed.
GoOn(step) ==
    /\ dpc' = step
    /\ busy' = IF step = "Drain" THEN 0 ELSE busy
    /\ UNCHANGED stalled

-----------------------------------------------------------------------------
\* Seeded fault: transport_shutdown is forgotten on a lost session.
DisconnectKeepsHandle ==
    /\ handle' = handle
    /\ dState' = "DISCONNECTED"
    /\ Goto("Poll")

\* transport_shutdown(); state = STATE_DISCONNECTED; continue
Disconnect ==
    /\ TransportClose
    /\ dState' = "DISCONNECTED"
    /\ Goto("Poll")

\* Seeded fault: the trigger is read and not cleared.
ClearExitForgets == UNCHANGED <<trigExit, trigReboot>>

\* check_and_clear_exit / check_and_clear_reboot: an atomic exchange.
ClearExit   == trigExit' = FALSE /\ UNCHANGED trigReboot
ClearReboot == trigReboot' = FALSE /\ UNCHANGED trigExit

\* The top of a pass: one trigger is consumed, and only while connected.
PollControl ==
    /\ At("Poll")
    /\ \/ /\ dState = "CONNECTED" /\ trigExit
          /\ ClearExit
          /\ Goto("SendExit")
       \/ /\ dState = "CONNECTED" /\ ~trigExit /\ trigReboot
          /\ ClearReboot
          /\ Goto("SendReboot")
       \/ /\ ~(dState = "CONNECTED" /\ (trigExit \/ trigReboot))
          /\ Goto(CASE dState = "DISCONNECTED" -> "Search"
                    [] dState = "HANDSHAKING"  -> "Hello"
                    [] OTHER                   -> "Beat")
          /\ UNCHANGED <<trigExit, trigReboot>>
    /\ UNCHANGED <<dState, httpState, clicks, timerVars, linkVars>>

\* The CONTROL packet; what transport_send returns is ignored.
SendControl(step, cmd) ==
    /\ At(step)
    /\ \E ok \in BOOLEAN :
          HostSend(ControlMessage(DesktopVersion, cmd), busy, ok)
    /\ Goto("Beat")
    /\ UNCHANGED <<handle, dState, uiVars, timerVars>>

\* Seeded fault: the search does not tell the dashboard.
SearchDeviceSilent ==
    /\ At("Search")
    /\ Goto("Open")
    /\ UNCHANGED <<dState, uiVars, timerVars, linkVars>>

SearchDevice ==
    /\ At("Search")
    /\ httpState' = "DISCONNECTED"
    /\ Goto("Open")
    /\ UNCHANGED <<dState, trigExit, trigReboot, clicks, timerVars, linkVars>>

\* On success last_hello_time is set two seconds back, so a HELLO is due.
OpenDevice ==
    /\ At("Open")
    /\ \E ok \in BOOLEAN :
          /\ TransportOpen(ok)
          /\ IF ok
             THEN /\ httpState' = "HANDSHAKING"
                  /\ dState' = "HANDSHAKING"
                  /\ sinceHello' = HelloTicks
                  /\ Goto("Hello")
             ELSE /\ Goto("Sleep")
                  /\ UNCHANGED <<httpState, dState, sinceHello>>
    /\ UNCHANGED <<sinceBeat, trigExit, trigReboot, clicks>>

HelloDue == sinceHello >= HelloTicks

\* last_hello_time becomes the moment the pass looked at the clock, not the end
\* of the send.
SendHello ==
    /\ At("Hello")
    /\ IF HelloDue
       THEN \E ok \in BOOLEAN :
              /\ HostSend(Message("HELLO", DesktopVersion), busy, ok)
              /\ IF ok
                 THEN /\ sinceHello' = Capped(busy, HelloTicks)
                      /\ Goto("Await")
                      /\ UNCHANGED <<handle, dState>>
                 ELSE Disconnect /\ UNCHANGED sinceHello
       ELSE Goto("Await") /\ UNCHANGED <<dState, sinceHello, linkVars>>
    /\ UNCHANGED <<sinceBeat, uiVars>>

\* The reply's protocol version is printed, not compared. A read that is short
\* or garbled ("io") leaves the handshake pending.
AwaitReply ==
    /\ At("Await")
    /\ \/ /\ HostReceives
          /\ UNCHANGED handle
          /\ \/ /\ Head(in).id = "HELLO" /\ NoFault
                /\ httpState' = "CONNECTED"
                /\ dState' = "CONNECTED"
                /\ sinceBeat' = 0
                /\ Goto("Beat")
             \/ /\ Fault("io")
                /\ Goto("Sleep")
                /\ UNCHANGED <<httpState, dState, sinceBeat>>
       \/ /\ HostReceiveTimesOut(busy)
          /\ Goto("Sleep")
          /\ UNCHANGED <<httpState, dState, sinceBeat>>
       \/ HostReceiveFails /\ Disconnect /\ UNCHANGED <<httpState, sinceBeat>>
    /\ UNCHANGED <<sinceHello, trigExit, trigReboot, clicks>>

BeatDue == sinceBeat >= BeatTicks

\* As for HELLO, the timer restarts from the beginning of the pass.
SendHeartbeat ==
    /\ At("Beat")
    /\ IF BeatDue
       THEN \E ok \in BOOLEAN :
              /\ HostSend(Message("HEARTBEAT", DesktopVersion), busy, ok)
              /\ IF ok
                 THEN /\ sinceBeat' = Capped(busy, BeatTicks)
                      /\ Goto("Stats")
                      /\ UNCHANGED <<handle, dState>>
                 ELSE Disconnect /\ UNCHANGED sinceBeat
       ELSE Goto("Stats") /\ UNCHANGED <<dState, sinceBeat, linkVars>>
    /\ UNCHANGED <<sinceHello, uiVars>>

\* One of the three application payloads: sent when its interval has elapsed
\* (for git and notifications, when enabled and there is one).
SendData(step, next) ==
    /\ At(step)
    /\ \/ GoOn(next) /\ UNCHANGED <<dState, linkVars>>
       \/ \E ok \in BOOLEAN :
            /\ HostSend(Message("DATA", DesktopVersion), busy, ok)
            /\ IF ok THEN GoOn(next) /\ UNCHANGED <<handle, dState>>
                     ELSE Disconnect
    /\ UNCHANGED <<uiVars, timerVars>>

SendStats == SendData("Stats", "Git")
SendGit   == SendData("Git", "Notif")
SendNotif == SendData("Notif", "Drain")

\* "Receive check to keep the transport read channel clear": whatever arrives
\* is dropped, nothing else tells a connected desktop that its peer is gone.
DrainReceive ==
    /\ At("Drain")
    /\ \/ HostReceives /\ NoFault /\ Goto("Sleep") /\ UNCHANGED <<handle, dState>>
       \/ HostReceiveTimesOut(busy) /\ Goto("Sleep") /\ UNCHANGED dState
       \/ HostReceiveFails /\ Disconnect
    /\ UNCHANGED <<uiVars, timerVars>>

WakeUp ==
    /\ At("Sleep") /\ busy = SleepTicks
    /\ Goto("Poll")
    /\ UNCHANGED <<dState, uiVars, timerVars, linkVars>>

DesktopStep ==
    \/ PollControl
    \/ SendControl("SendExit", 1)
    \/ SendControl("SendReboot", 2)
    \/ SearchDevice
    \/ OpenDevice
    \/ SendHello
    \/ AwaitReply
    \/ SendHeartbeat
    \/ SendStats
    \/ SendGit
    \/ SendNotif
    \/ DrainReceive
    \/ WakeUp

-----------------------------------------------------------------------------
\* POST /api/control, on the dashboard's own thread and in any session state.
ClickControl ==
    /\ dpc # "Down" /\ clicks < MaxClicks
    /\ clicks' = clicks + 1
    /\ \/ trigExit' = TRUE /\ UNCHANGED trigReboot
       \/ trigReboot' = TRUE /\ UNCHANGED trigExit
    /\ UNCHANGED <<dpc, dState, httpState, busy, stalled, timerVars, linkVars>>

DesktopStart ==
    /\ dpc = "Down"
    /\ Goto("Poll")
    /\ UNCHANGED <<dState, uiVars, timerVars, linkVars>>

\* The process is killed (the loop has no other way out); the operating system
\* releases the handle, the dashboard and its triggers go with it.
DesktopCrash ==
    /\ dpc # "Down" /\ Fault("crash")
    /\ TransportClose
    /\ dpc' = "Down" /\ busy' = 0 /\ stalled' = FALSE
    /\ dState' = "DISCONNECTED" /\ httpState' = "DISCONNECTED"
    /\ sinceHello' = 0 /\ sinceBeat' = 0
    /\ trigExit' = FALSE /\ trigReboot' = FALSE
    /\ UNCHANGED <<clicks, attached, out, in, skew, pspRunning>>

\* GitService runs "git status" through popen with no time limit.
Stall ==
    /\ At("Git") /\ Fault("stall")
    /\ stalled' = TRUE
    /\ UNCHANGED <<dpc, dState, busy, uiVars, timerVars,
                   attached, handle, out, in, skew, pspRunning>>

Resume ==
    /\ stalled
    /\ stalled' = FALSE
    /\ UNCHANGED <<dpc, dState, busy, uiVars, timerVars, linkVars>>

-----------------------------------------------------------------------------
\* The statements the loop may spend a tick in: a sleep, a receive with nothing
\* to read, computing metrics, a send the full pipe holds up.
MayWait ==
    \/ dpc = "Down"
    \/ stalled
    \/ dpc = "Sleep" /\ busy < SleepTicks
    \/ /\ dpc \in {"Await", "Drain"}
       /\ handle = "open" /\ in = <<>> /\ busy < TimeoutTicks
    \/ dpc \in {"Stats", "Git", "Notif"} /\ busy < SlackTicks
    \/ /\ \/ dpc \in {"SendExit", "SendReboot", "Stats", "Git", "Notif"}
          \/ dpc = "Hello" /\ HelloDue
          \/ dpc = "Beat" /\ BeatDue
       /\ SendBlocked
       /\ pspRunning \/ busy < TimeoutTicks

DesktopClock ==
    /\ sinceHello' = Capped(sinceHello + 1, HelloTicks)
    /\ sinceBeat' = Capped(sinceBeat + 1, BeatTicks)
    /\ busy' = IF dpc = "Down" THEN 0 ELSE Capped(busy + 1, TimeoutTicks)
    /\ UNCHANGED <<dpc, dState, stalled, uiVars>>

DesktopTypeOK ==
    /\ dpc \in DesktopSteps \cup {"Down"}
    /\ dState \in {"DISCONNECTED", "HANDSHAKING", "CONNECTED"}
    /\ httpState \in {"DISCONNECTED", "HANDSHAKING", "CONNECTED"}
    /\ sinceHello \in 0..HelloTicks
    /\ sinceBeat \in 0..BeatTicks
    /\ busy \in 0..TimeoutTicks
    /\ stalled \in BOOLEAN
    /\ trigExit \in BOOLEAN
    /\ trigReboot \in BOOLEAN
    /\ clicks \in 0..MaxClicks

DesktopInit ==
    /\ dpc = "Down"
    /\ dState = "DISCONNECTED"
    /\ httpState = "DISCONNECTED"
    /\ sinceHello = 0
    /\ sinceBeat = 0
    /\ busy = 0
    /\ stalled = FALSE
    /\ trigExit = FALSE
    /\ trigReboot = FALSE
    /\ clicks = 0
=============================================================================
