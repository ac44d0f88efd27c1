------------------------------ MODULE DevLink ------------------------------
(***************************************************************************)
(* The whole session: the desktop's main loop and the PSP's frame loop     *)
(* joined by the USB link, with the user, the cable and the operating      *)
(* systems as environment.                                                 *)
(*                                                                         *)
(* Time advances by ticks. A tick is one PSP frame, and the desktop can be *)
(* in one of three situations when it passes: in a statement that takes    *)
(* time (MayWait), stalled, or not running.                                *)
(***************************************************************************)
EXTENDS DesktopLoop, PspLoop, FiniteSets

\* The watchdog outlasts the longest gap between two heartbeats: a pass that
\* waits out its receive, sleeps and computes, and one frame of delivery. The
\* build has 500 frames of at least 16.7 ms against 5.1 s plus the computing.
ASSUME TimingAssumption ==
    /\ BeatTicks <= TimeoutTicks
    /\ WatchdogFrames > TimeoutTicks + SleepTicks + SlackTicks

vars == <<linkVars, desktopVars, pspVars>>

Tick ==
    /\ MayWait
    /\ DesktopClock
    /\ IF pspRunning THEN PspFrame ELSE UNCHANGED <<linkVars, pspVars>>

DesktopAlone ==
    \/ DesktopStep
    \/ ClickControl
    \/ DesktopStart
    \/ DesktopCrash
    \/ Stall
    \/ Resume

PspAlone == PspLaunch \/ Unplug \/ Plug

Next ==
    \/ Tick
    \/ DesktopAlone /\ UNCHANGED pspVars
    \/ PspAlone /\ UNCHANGED desktopVars

Init == LinkInit /\ DesktopInit /\ PspInit

(***************************************************************************)
(* Fairness: a running loop keeps running, time passes, and a command that *)
(* popen started ends. Nobody is bound to start a program, to plug a cable *)
(* or to click.                                                            *)
(***************************************************************************)
Fairness ==
    /\ WF_vars(DesktopStep /\ UNCHANGED pspVars)
    /\ WF_vars(Tick)
    /\ WF_vars(Resume /\ UNCHANGED pspVars)

Spec == Init /\ [][Next]_vars

FairSpec == Spec /\ Fairness

-----------------------------------------------------------------------------
TypeOK == LinkTypeOK /\ DesktopTypeOK /\ PspTypeOK

\* The loop's state and the USB handle never drift apart: the desktop is out
\* of a session exactly when it holds no handle (so that a search really opens
\* the device, and no failed path leaks a claimed interface), and a handle on
\* a present device means the device is still enumerated.
HandleMatchesState ==
    /\ (dState = "DISCONNECTED") <=> (handle = "closed")
    /\ handle = "open" => attached

\* What the dashboard shows lags the loop only between losing a session and
\* the next search: outside those two statements it shows the loop's state.
DashboardHonest ==
    httpState = dState \/ (dState = "DISCONNECTED" /\ dpc \in {"Poll", "Search"})

\* A session is never established across protocol versions, on either side,
\* although only the PSP compares them.
VersionGate ==
    dState = "CONNECTED" \/ pState = "CONNECTED" => pspVersion = DesktopVersion

CountOf(id, s) == Cardinality({i \in 1..Len(s) : s[i].id = id})

ControlsIn(s) == CountOf("CONTROL", s)

Pending == (IF trigExit THEN 1 ELSE 0) + (IF trigReboot THEN 1 ELSE 0)
             + (IF dpc \in {"SendExit", "SendReboot"} THEN 1 ELSE 0)

\* A remote command is carried out at most once: clicks that are waiting, in
\* flight or already obeyed never outnumber the clicks made, whatever is
\* lost, retried, crashed or reconnected in between.
CommandAtMostOnce == Pending + ControlsIn(out) + obeyed <= clicks

\* As long as nothing adverse happened, a desktop that is CONNECTED and holds a
\* live handle has a CONNECTED PSP at the other end: the watchdog never fires
\* on a desktop that merely waits out its receive timeout between heartbeats.
HealthyAgreement ==
    faults = 0 /\ dState = "CONNECTED" /\ handle = "open"
        => pspRunning /\ pState = "CONNECTED"

\* Whatever the two loops, the cable and the operating systems do is a session
\* in the sense of the module Session: CONNECTED is entered on the PSP only by
\* answering one HELLO of its version that the desktop sent, on the desktop
\* only by consuming one such answer, and never otherwise.
Agreement == INSTANCE Session WITH
        agree   <- pspVersion = DesktopVersion,
        host    <- dState,
        psp     <- pState,
        offers  <- CountOf("HELLO", out),
        replies <- Len(in)

SessionImplemented == Agreement!Spec

-----------------------------------------------------------------------------
(***************************************************************************)
(* What keeps the invariants true. Where the loop is tells its state.      *)
(***************************************************************************)
StepMatchesState ==
    /\ dpc \in {"Down", "Search", "Open"} => dState = "DISCONNECTED"
    /\ dpc \in {"Hello", "Await"} => dState = "HANDSHAKING"
    /\ dpc \in {"SendExit", "SendReboot", "Beat", "Stats", "Git", "Notif",
                "Drain"} => dState = "CONNECTED"

DesktopPacket == [id : MessageIds, ver : {DesktopVersion}, cmd : 0..2]
PspPacket     == [id : {"HELLO"}, ver : {pspVersion}, cmd : {0}]

\* The desktop only sends its own version, the PSP only replies HELLO, and only
\* to a version it shares.
PacketsVersioned ==
    /\ out \in Seq(DesktopPacket)
    /\ in \in Seq(PspPacket)
    /\ in # <<>> => pspVersion = DesktopVersion

(***************************************************************************)
(* A session in which nothing adverse has happened. Off the bus or not yet *)
(* opened, there is nothing in the pipes and the PSP is DISCONNECTED;      *)
(* during the handshake at most one HELLO is under way, and it is either a *)
(* request or the reply; once CONNECTED, the PSP's frames since the last   *)
(* packet are bounded by where the desktop is in its pass.                 *)
(***************************************************************************)
QuietLink ==
    /\ attached => pspRunning /\ ~mock
    /\ ~skew /\ ~stalled
    /\ handle # "open" => out = <<>> /\ in = <<>> /\ pState = "DISCONNECTED"

QuietHandshake ==
    /\ Len(out) <= (IF dpc = "Await" /\ busy = 0 THEN 1 ELSE 0)
    /\ \/ pState = "DISCONNECTED" /\ in = <<>>
       \/ /\ pState = "CONNECTED" /\ Len(in) = 1 /\ out = <<>>
          /\ dpc = "Await" /\ ticks <= 1

\* Frames without a packet that a healthy PSP may have seen when the desktop is
\* where it is and the OUT pipe is empty.
QuietBound ==
    CASE dpc \in {"Stats", "Git", "Notif"} -> 1 + Capped(busy, SlackTicks)
      [] dpc = "Drain"                     -> 1 + SlackTicks + busy
      [] dpc = "Sleep"                     -> 1 + SlackTicks + TimeoutTicks + busy
      [] OTHER -> 1 + SlackTicks + TimeoutTicks + SleepTicks

QuietConnected ==
    /\ pState = "CONNECTED" /\ in = <<>>
    /\ out = <<>> => ticks <= QuietBound
    /\ dpc \in {"Sleep", "Poll", "SendExit", "SendReboot"} => BeatDue
    /\ dpc = "Beat" => BeatDue \/ ticks <= 1
    /\ dpc = "Drain" => sinceBeat >= Capped(busy, BeatTicks)

HealthySession ==
    faults = 0 =>
        /\ QuietLink
        /\ handle = "open" /\ dState = "HANDSHAKING" => QuietHandshake
        /\ handle = "open" /\ dState = "CONNECTED" => QuietConnected

-----------------------------------------------------------------------------
NoMoreFaults == faults = MaxFaults

\* A PSP whose desktop has gone gives the session up.
DeadDesktopNoticed ==
    dpc = "Down" /\ pState = "CONNECTED"
        ~> dpc # "Down" \/ pState = "DISCONNECTED"

\* A desktop whose device has gone releases the dead handle.
DeadDeviceNoticed == handle = "gone" ~> handle # "gone"

Compatible == pspRunning /\ ~mock /\ ~skew /\ pspVersion = DesktopVersion

\* With a PSP that is itself DISCONNECTED the handshake goes through: from an
\* open handle the two sides reach CONNECTED, unless something adverse happens
\* or the device goes away.
HandshakeCompletes ==
    /\ dState = "HANDSHAKING" /\ handle = "open" /\ Compatible
    /\ pState = "DISCONNECTED" /\ NoMoreFaults
    ~> \/ dState = "CONNECTED" /\ pState = "CONNECTED"
       \/ handle # "open" \/ ~pspRunning

\* An exit clicked while connected ends the PSP application, unless the session
\* is lost first.
ExitCarriedOut ==
    trigExit /\ dState = "CONNECTED" /\ pState = "CONNECTED" /\ Compatible
        /\ NoMoreFaults
        ~> ~pspRunning \/ dState # "CONNECTED" \/ pState # "CONNECTED"

\* docs/architecture/system_lifecycle.md: "The system should return to the
\* Connected state automatically after successful reconnection." Once both
\* programs keep running over a present, compatible device, both sides are
\* CONNECTED again and again.
Reconnects ==
    <>[](dpc # "Down" /\ attached /\ Compatible)
        => []<>(dState = "CONNECTED" /\ pState = "CONNECTED")
=============================================================================
