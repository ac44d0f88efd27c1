---------------------------- MODULE DevLink_proofs ----------------------------
(***************************************************************************)
(* The session between desktop and PSP, for every value of the constants:  *)
(* type correctness; safety of control and versions; a healthy session is  *)
(* never broken by the watchdog; a remote command is obeyed at most once;  *)
(* and the two loops over the link implement the abstract Session.         *)
(***************************************************************************)
EXTENDS DevLink, SequenceTheorems, FiniteSetTheorems, FunctionTheorems, TLAPS

-----------------------------------------------------------------------------
(***************************************************************************)
(* Type correctness of the session, for every value of the constants: the  *)
(* counters stay within their bounds, the pipes hold packets only, and the *)
(* two loops are always at a statement they have.                          *)
(***************************************************************************)
(***************************************************************************)
(* The link's operators, once for all their callers.                       *)
(***************************************************************************)
LEMMA FaultType ==
    ASSUME NEW kind, faults \in 0..MaxFaults, Fault(kind)
    PROVE  faults' \in 0..MaxFaults
BY LinkAssumption DEF Fault

LEMMA MessageType ==
    \A ver \in Versions :
        /\ \A id \in MessageIds : Message(id, ver) \in Packet
        /\ \A c \in 0..2 : ControlMessage(ver, c) \in Packet
BY DEF Message, ControlMessage, Packet, MessageIds

LEMMA TailType ==
    ASSUME NEW S, NEW s \in Seq(S), s # <<>>
    PROVE  Head(s) \in S /\ Tail(s) \in Seq(S)
OBVIOUS

LEMMA AppendType ==
    ASSUME NEW S, NEW s \in Seq(S), NEW e \in S
    PROVE  Append(s, e) \in Seq(S)
OBVIOUS

LEMMA EmptyType == ASSUME NEW S PROVE <<>> \in Seq(S)
OBVIOUS

LEMMA HostSendType ==
    ASSUME LinkTypeOK, NEW p \in Packet, NEW waited, NEW ok,
           HostSend(p, waited, ok)
    PROVE  /\ out' \in Seq(Packet) /\ faults' \in 0..MaxFaults
           /\ UNCHANGED <<attached, in, skew, pspRunning>>
<1>1. CASE UNCHANGED <<out, faults>>
  BY <1>1 DEF HostSend, LinkTypeOK
<1>2. CASE out' = Append(out, p) /\ NoFault
  BY <1>2 DEF HostSend, LinkTypeOK, NoFault
<1>3. CASE Fault("io") /\ (UNCHANGED out \/ out' = Append(out, p))
  BY <1>3, FaultType DEF HostSend, LinkTypeOK
<1>4. QED
  BY <1>1, <1>2, <1>3 DEF HostSend, NoFault

LEMMA TransportOpenType ==
    ASSUME LinkTypeOK, NEW ok, TransportOpen(ok)
    PROVE  LinkTypeOK'
<1>1. faults' \in 0..MaxFaults
  BY FaultType DEF TransportOpen, LinkTypeOK, NoFault
<1>2. QED
  BY <1>1 DEF TransportOpen, LinkTypeOK

LEMMA HostReceiveTypes ==
    ASSUME LinkTypeOK
    PROVE  /\ HostReceives => /\ in' \in Seq(Packet)
                              /\ UNCHANGED <<attached, out, skew, pspRunning>>
           /\ HostReceiveFails => /\ faults' \in 0..MaxFaults
                                  /\ UNCHANGED <<attached, out, in, skew,
                                                 pspRunning>>
<1>1. HostReceives => in' \in Seq(Packet)
  BY TailType DEF HostReceives, LinkTypeOK
<1>2. HostReceiveFails => faults' \in 0..MaxFaults
  BY FaultType DEF HostReceiveFails, LinkTypeOK, NoFault
<1>3. QED
  BY <1>1, <1>2 DEF HostReceives, HostReceiveFails

-----------------------------------------------------------------------------
(***************************************************************************)
(* The desktop's own variables are typed after any of its steps, and the   *)
(* link with them.                                                         *)
(***************************************************************************)
LEMMA DesktopStepType ==
    ASSUME LinkTypeOK, DesktopTypeOK, DesktopStep
    PROVE  LinkTypeOK' /\ DesktopTypeOK'
<1> USE LinkAssumption, DesktopAssumption, MessageType
<1> USE DEF At, Goto, DesktopTypeOK, DesktopSteps, uiVars, timerVars
<1>1. CASE PollControl
  <2>1. trigExit' \in BOOLEAN /\ trigReboot' \in BOOLEAN
    BY <1>1, Zenon DEF PollControl, ClearExit, ClearReboot
  <2>2. LinkTypeOK' /\ clicks' \in 0..MaxClicks /\ stalled' \in BOOLEAN
    BY <1>1 DEF PollControl, linkVars, LinkTypeOK
  <2>3. QED
    BY <1>1, <2>1, <2>2 DEF PollControl
<1>2. ASSUME NEW step, NEW c \in 0..2, SendControl(step, c)
      PROVE  LinkTypeOK' /\ DesktopTypeOK'
  <2>1. PICK ok \in BOOLEAN :
          HostSend(ControlMessage(DesktopVersion, c), busy, ok)
    BY <1>2 DEF SendControl
  <2>2. ControlMessage(DesktopVersion, c) \in Packet
    OBVIOUS
  <2>3. LinkTypeOK'
    BY <1>2, <2>1, <2>2, HostSendType DEF SendControl, LinkTypeOK
  <2>4. QED
    BY <1>2, <2>3 DEF SendControl
<1>3. CASE SearchDevice
  BY <1>3 DEF SearchDevice, linkVars, LinkTypeOK
<1>4. CASE OpenDevice
  <2>1. LinkTypeOK'
    BY <1>4, TransportOpenType DEF OpenDevice
  <2>2. DesktopTypeOK'
    BY <1>4 DEF OpenDevice
  <2>3. QED
    BY <2>1, <2>2
<1>5. CASE SendHello
  <2>1. LinkTypeOK'
    <3>1. CASE UNCHANGED linkVars
      BY <3>1 DEF linkVars, LinkTypeOK
    <3>2. ASSUME NEW ok \in BOOLEAN,
                 HostSend(Message("HELLO", DesktopVersion), busy, ok),
                 UNCHANGED handle \/ handle' = "closed"
          PROVE  LinkTypeOK'
      <4>1. Message("HELLO", DesktopVersion) \in Packet
        BY DEF MessageIds
      <4>2. QED
        BY <3>2, <4>1, HostSendType DEF LinkTypeOK
    <3>3. QED
      BY <1>5, <3>1, <3>2 DEF SendHello, Disconnect, TransportClose
  <2>2. DesktopTypeOK'
    <3>1. Capped(busy, HelloTicks) \in 0..HelloTicks
      BY DEF Capped
    <3>2. QED
      BY <1>5, <3>1 DEF SendHello, Disconnect
  <2>3. QED
    BY <2>1, <2>2
<1>6. CASE AwaitReply
  <2>1. LinkTypeOK'
    <3>1. CASE HostReceives
      BY <1>6, <3>1, HostReceiveTypes, FaultType
         DEF AwaitReply, LinkTypeOK, NoFault, HostReceiveTimesOut,
             HostReceiveFails, HostReceives
    <3>2. CASE HostReceiveFails
      BY <1>6, <3>2, HostReceiveTypes
         DEF AwaitReply, LinkTypeOK, Disconnect, TransportClose, HostReceives,
             HostReceiveTimesOut, linkVars
    <3>3. CASE HostReceiveTimesOut(busy)
      BY <3>3 DEF HostReceiveTimesOut, linkVars, LinkTypeOK
    <3>4. QED
      BY <1>6, <3>1, <3>2, <3>3 DEF AwaitReply
  <2>2. DesktopTypeOK'
    BY <1>6 DEF AwaitReply, Disconnect
  <2>3. QED
    BY <2>1, <2>2
<1>7. CASE SendHeartbeat
  <2>1. LinkTypeOK'
    <3>1. CASE UNCHANGED linkVars
      BY <3>1 DEF linkVars, LinkTypeOK
    <3>2. ASSUME NEW ok \in BOOLEAN,
                 HostSend(Message("HEARTBEAT", DesktopVersion), busy, ok),
                 UNCHANGED handle \/ handle' = "closed"
          PROVE  LinkTypeOK'
      <4>1. Message("HEARTBEAT", DesktopVersion) \in Packet
        BY DEF MessageIds
      <4>2. QED
        BY <3>2, <4>1, HostSendType DEF LinkTypeOK
    <3>3. QED
      BY <1>7, <3>1, <3>2 DEF SendHeartbeat, Disconnect, TransportClose
  <2>2. DesktopTypeOK'
    <3>1. Capped(busy, BeatTicks) \in 0..BeatTicks
      BY DEF Capped
    <3>2. QED
      BY <1>7, <3>1 DEF SendHeartbeat, Disconnect
  <2>3. QED
    BY <2>1, <2>2
<1>8. ASSUME NEW step, NEW next \in {"Git", "Notif", "Drain"},
             SendData(step, next)
      PROVE  LinkTypeOK' /\ DesktopTypeOK'
  <2>1. LinkTypeOK'
    <3>1. CASE UNCHANGED linkVars
      BY <3>1 DEF linkVars, LinkTypeOK
    <3>2. ASSUME NEW ok \in BOOLEAN,
                 HostSend(Message("DATA", DesktopVersion), busy, ok),
                 UNCHANGED handle \/ handle' = "closed"
          PROVE  LinkTypeOK'
      <4>1. Message("DATA", DesktopVersion) \in Packet
        BY DEF MessageIds
      <4>2. QED
        BY <3>2, <4>1, HostSendType DEF LinkTypeOK
    <3>3. QED
      BY <1>8, <3>1, <3>2 DEF SendData, Disconnect, TransportClose
  <2>2. DesktopTypeOK'
    BY <1>8 DEF SendData, Disconnect, GoOn
  <2>3. QED
    BY <2>1, <2>2
<1>9. CASE DrainReceive
  <2>1. LinkTypeOK'
    <3>1. CASE HostReceives /\ NoFault /\ UNCHANGED handle
      BY <3>1, HostReceiveTypes DEF LinkTypeOK, NoFault
    <3>2. CASE HostReceiveFails /\ Disconnect
      BY <3>2, HostReceiveTypes DEF LinkTypeOK, Disconnect, TransportClose
    <3>3. CASE HostReceiveTimesOut(busy)
      BY <3>3 DEF HostReceiveTimesOut, linkVars, LinkTypeOK
    <3>4. QED
      BY <1>9, <3>1, <3>2, <3>3 DEF DrainReceive
  <2>2. DesktopTypeOK'
    BY <1>9 DEF DrainReceive, Disconnect
  <2>3. QED
    BY <2>1, <2>2
<1>10. CASE WakeUp
  BY <1>10 DEF WakeUp, linkVars, LinkTypeOK
<1>11. QED
  BY <1>1, <1>2, <1>3, <1>4, <1>5, <1>6, <1>7, <1>8, <1>9, <1>10
     DEF DesktopStep, SendStats, SendGit, SendNotif

LEMMA DesktopAloneType ==
    ASSUME LinkTypeOK, DesktopTypeOK, DesktopAlone
    PROVE  LinkTypeOK' /\ DesktopTypeOK'
<1> USE LinkAssumption, DesktopAssumption
<1> USE DEF At, Goto, DesktopTypeOK, DesktopSteps, uiVars, timerVars
<1>1. CASE DesktopStep
  BY <1>1, DesktopStepType
<1>2. CASE ClickControl
  <2>1. trigExit' \in BOOLEAN /\ trigReboot' \in BOOLEAN
    BY <1>2, Zenon DEF ClickControl
  <2>2. QED
    BY <1>2, <2>1 DEF ClickControl, linkVars, LinkTypeOK
<1>3. CASE DesktopStart
  BY <1>3 DEF DesktopStart, linkVars, LinkTypeOK
<1>4. CASE DesktopCrash
  <2>1. /\ trigExit' \in BOOLEAN /\ trigReboot' \in BOOLEAN
        /\ stalled' \in BOOLEAN
    BY <1>4, Zenon DEF DesktopCrash
  <2>2. LinkTypeOK'
    BY <1>4, FaultType DEF DesktopCrash, TransportClose, LinkTypeOK
  <2>3. QED
    BY <1>4, <2>1, <2>2 DEF DesktopCrash
<1>5. CASE Stall
  BY <1>5, FaultType DEF Stall, LinkTypeOK
<1>6. CASE Resume
  <2>1. stalled' \in BOOLEAN
    BY <1>6, Zenon DEF Resume
  <2>2. QED
    BY <1>6, <2>1 DEF Resume, linkVars, LinkTypeOK
<1>7. QED
  BY <1>1, <1>2, <1>3, <1>4, <1>5, <1>6 DEF DesktopAlone

-----------------------------------------------------------------------------
(***************************************************************************)
(* The PSP's frame.                                                        *)
(***************************************************************************)
TicksType ==
    /\ pState \in {"DISCONNECTED", "CONNECTED"}
    /\ ticks \in 0..(WatchdogFrames + 1)
    /\ pState = "CONNECTED" => ticks <= WatchdogFrames

LEMMA WatchdogType ==
    ASSUME NEW s \in {"DISCONNECTED", "CONNECTED"},
           NEW t \in 0..(WatchdogFrames + 1), Watchdog(s, t),
           s = "CONNECTED" => t <= WatchdogFrames
    PROVE  TicksType'
BY PspAssumption DEF Watchdog, TicksType

LEMMA KeysType ==
    ASSUME PspTypeOK, NEW key, Press(key)
    PROVE  keys' \in 0..MaxKeys /\ AfterKeys(key) \in 0..2
<1>1. keys' \in 0..MaxKeys
  BY PspAssumption DEF PspTypeOK, Press
<1>2. AfterKeys(key) \in 0..2
  BY DEF PspTypeOK, AfterKeys
<1>3. QED
  BY <1>1, <1>2

LEMMA FrameType ==
    ASSUME LinkTypeOK, PspTypeOK, Frame
    PROVE  LinkTypeOK' /\ PspTypeOK'
<1>1. PICK key \in {"none", "square", "triangle"} :
        /\ Press(key)
        /\ \/ FrameIdle(key) \/ FrameJunk(key) \/ FramePacket(key)
           \/ FramePayloadLost(key) \/ FrameError(key)
  BY DEF Frame
<1>2. keys' \in 0..MaxKeys /\ AfterKeys(key) \in 0..2
  BY <1>1, KeysType
<1>3. UNCHANGED <<pspVersion, mock>>
  BY DEF Frame
<1>4. ASSUME TicksType', cmd' \in 0..2, obeyed' \in Nat
      PROVE  PspTypeOK'
  BY <1>2, <1>3, <1>4 DEF PspTypeOK, TicksType
<1>5. CASE FrameIdle(key)
  <2>1. LinkTypeOK'
    BY <1>5 DEF FrameIdle, linkVars, LinkTypeOK
  <2>2. TicksType'
    BY <1>5, WatchdogType DEF FrameIdle, PspTypeOK
  <2>3. QED
    BY <1>2, <1>4, <1>5, <2>1, <2>2 DEF FrameIdle, PspTypeOK
<1>6. CASE FrameJunk(key)
  <2>1. LinkTypeOK'
    BY <1>6, TailType DEF FrameJunk, LinkTypeOK
  <2>2. TicksType'
    BY <1>6, WatchdogType DEF FrameJunk, PspTypeOK
  <2>3. QED
    BY <1>2, <1>4, <1>6, <2>1, <2>2 DEF FrameJunk, PspTypeOK
<1>7. CASE FramePacket(key)
  <2>1. Head(out) \in Packet /\ out' \in Seq(Packet)
    BY <1>7, TailType DEF FramePacket, LinkTypeOK
  <2>2. Message("HELLO", pspVersion) \in Packet
    BY MessageType DEF PspTypeOK, MessageIds
  <2>3. in' \in Seq(Packet)
    <3>1. in' = in \/ in' = Append(in, Message("HELLO", pspVersion))
      BY <1>7, Zenon DEF FramePacket
    <3>2. QED
      BY <2>2, <3>1 DEF LinkTypeOK
  <2>4. faults' \in 0..MaxFaults
    BY <1>7, FaultType DEF FramePacket, LinkTypeOK, NoFault
  <2>5. LinkTypeOK'
    BY <1>7, <2>1, <2>3, <2>4 DEF FramePacket, LinkTypeOK
  <2>6. TicksType'
    <3>1. PICK s \in {"DISCONNECTED", "CONNECTED"} : Watchdog(s, 0)
      BY <1>7 DEF FramePacket, Rearmed, PspTypeOK
    <3>2. QED
      BY <3>1, WatchdogType, PspAssumption
  <2>7. cmd' \in 0..2 /\ obeyed' \in Nat
    BY <1>2, <1>7, <2>1 DEF FramePacket, Packet, PspTypeOK
  <2>8. QED
    BY <1>4, <2>5, <2>6, <2>7
<1>8. CASE FramePayloadLost(key)
  <2>1. LinkTypeOK'
    BY <1>8, TailType, FaultType DEF FramePayloadLost, LinkTypeOK
  <2>2. TicksType'
    BY <1>8, WatchdogType, PspAssumption DEF FramePayloadLost, PspTypeOK, Rearmed
  <2>3. QED
    BY <1>2, <1>4, <1>8, <2>1, <2>2 DEF FramePayloadLost, PspTypeOK
<1>9. CASE FrameError(key)
  <2>1. LinkTypeOK'
    BY <1>9, FaultType DEF FrameError, LinkTypeOK, NoFault
  <2>2. TicksType'
    BY <1>9, WatchdogType DEF FrameError, PspTypeOK
  <2>3. QED
    BY <1>2, <1>4, <1>9, <2>1, <2>2 DEF FrameError, PspTypeOK
<1>10. QED
  BY <1>1, <1>5, <1>6, <1>7, <1>8, <1>9

LEMMA LeaveGameType ==
    ASSUME LinkTypeOK, PspTypeOK, NEW resident \in BOOLEAN, LeaveGame(resident),
           keys' \in 0..MaxKeys
    PROVE  LinkTypeOK' /\ PspTypeOK'
<1>1. mock' \in BOOLEAN /\ pspRunning' \in BOOLEAN
  BY Zenon DEF LeaveGame
<1>2. attached' \in BOOLEAN /\ skew' \in BOOLEAN
  BY Zenon DEF LeaveGame, Detach, LinkTypeOK
<1>3. /\ handle' \in {"closed", "open", "gone"}
      /\ out' \in Seq(Packet) /\ in' \in Seq(Packet)
  <2>1. CASE Detach
    BY <2>1 DEF Detach, LinkTypeOK
  <2>2. CASE UNCHANGED <<handle, out, in>>
    BY <2>2 DEF LinkTypeOK
  <2>3. QED
    BY <2>1, <2>2 DEF LeaveGame
<1>4. faults' \in 0..MaxFaults
  BY FaultType DEF LeaveGame, LinkTypeOK, NoFault
<1>5. PspTypeOK'
  BY <1>1, PspAssumption DEF LeaveGame, PspTypeOK
<1>6. QED
  BY <1>1, <1>2, <1>3, <1>4, <1>5 DEF LinkTypeOK

LEMMA PspFrameType ==
    ASSUME LinkTypeOK, PspTypeOK, PspFrame
    PROVE  LinkTypeOK' /\ PspTypeOK'
<1>1. CASE ExitToMenu
  <2>1. keys' \in 0..MaxKeys
    BY <1>1, KeysType DEF ExitToMenu, PspTypeOK
  <2>2. QED
    BY <1>1, <2>1, LeaveGameType DEF ExitToMenu
<1>2. CASE ColdReset
  <2>1. keys' \in 0..MaxKeys
    BY <1>2, KeysType DEF ColdReset
  <2>2. QED
    BY <1>2, <2>1, LeaveGameType DEF ColdReset
<1>3. QED
  BY <1>1, <1>2, FrameType DEF PspFrame

LEMMA PspAloneType ==
    ASSUME LinkTypeOK, PspTypeOK, PspAlone
    PROVE  LinkTypeOK' /\ PspTypeOK'
<1>1. CASE PspLaunch
  <2>1. pspRunning' \in BOOLEAN /\ attached' \in BOOLEAN /\ mock' \in BOOLEAN
    BY <1>1, Zenon DEF PspLaunch, LinkTypeOK, PspTypeOK
  <2>2. QED
    BY <1>1, <2>1 DEF PspLaunch, LinkTypeOK, PspTypeOK
<1>2. CASE Unplug
  <2>1. attached' \in BOOLEAN /\ skew' \in BOOLEAN
    BY <1>2, Zenon DEF Unplug, Detach
  <2>2. faults' \in 0..MaxFaults
    BY <1>2, FaultType DEF Unplug, LinkTypeOK
  <2>3. QED
    BY <1>2, <2>1, <2>2 DEF Unplug, Detach, pspVars, LinkTypeOK, PspTypeOK
<1>3. CASE Plug
  <2>1. attached' \in BOOLEAN
    BY <1>3, Zenon DEF Plug
  <2>2. QED
    BY <1>3, <2>1 DEF Plug, pspVars, LinkTypeOK, PspTypeOK
<1>4. QED
  BY <1>1, <1>2, <1>3 DEF PspAlone

LEMMA ClockType ==
    ASSUME DesktopTypeOK, DesktopClock
    PROVE  DesktopTypeOK'
BY LinkAssumption, DesktopAssumption
   DEF DesktopClock, DesktopTypeOK, Capped, uiVars

-----------------------------------------------------------------------------
\* Type correctness (main.cpp and main.c): the type invariant of the session.
LEMMA TypeStep ==
    ASSUME TypeOK, [Next]_vars
    PROVE  TypeOK'
<1>1. CASE Tick
  <2>1. DesktopTypeOK'
    BY <1>1, ClockType DEF Tick, TypeOK
  <2>2. LinkTypeOK' /\ PspTypeOK'
    <3>1. CASE pspRunning
      BY <1>1, <3>1, PspFrameType DEF Tick, TypeOK
    <3>2. CASE ~pspRunning
      BY <1>1, <3>2 DEF Tick, TypeOK, linkVars, pspVars, LinkTypeOK, PspTypeOK
    <3>3. QED
      BY <3>1, <3>2
  <2>3. QED
    BY <2>1, <2>2 DEF TypeOK
<1>2. CASE DesktopAlone /\ UNCHANGED pspVars
  <2>1. LinkTypeOK' /\ DesktopTypeOK'
    BY <1>2, DesktopAloneType DEF TypeOK
  <2>2. PspTypeOK'
    BY <1>2 DEF TypeOK, pspVars, PspTypeOK
  <2>3. QED
    BY <2>1, <2>2 DEF TypeOK
<1>3. CASE PspAlone /\ UNCHANGED desktopVars
  <2>1. LinkTypeOK' /\ PspTypeOK'
    BY <1>3, PspAloneType DEF TypeOK
  <2>2. DesktopTypeOK'
    BY <1>3 DEF TypeOK, desktopVars, DesktopTypeOK
  <2>3. QED
    BY <2>1, <2>2 DEF TypeOK
<1>4. CASE UNCHANGED vars
  BY <1>4 DEF vars, linkVars, desktopVars, pspVars, TypeOK, LinkTypeOK,
              DesktopTypeOK, PspTypeOK
<1>5. QED
  BY <1>1, <1>2, <1>3, <1>4 DEF Next

THEOREM TypeCorrect == Spec => []TypeOK
<1>1. Init => TypeOK
  <2> SUFFICES ASSUME Init
               PROVE  TypeOK
    OBVIOUS
  <2>1. /\ attached \in BOOLEAN /\ skew \in BOOLEAN /\ pspRunning \in BOOLEAN
        /\ stalled \in BOOLEAN /\ trigExit \in BOOLEAN
        /\ trigReboot \in BOOLEAN /\ mock \in BOOLEAN
    BY Zenon DEF Init, LinkInit, DesktopInit, PspInit
  <2>2. LinkTypeOK
    BY <2>1, LinkAssumption DEF Init, LinkInit, LinkTypeOK
  <2>3. DesktopTypeOK
    BY <2>1, LinkAssumption, DesktopAssumption
       DEF Init, DesktopInit, DesktopTypeOK, DesktopSteps
  <2>4. PspTypeOK
    BY <2>1, PspAssumption DEF Init, PspInit, PspTypeOK
  <2>5. QED
    BY <2>2, <2>3, <2>4 DEF TypeOK
<1>2. TypeOK /\ [Next]_vars => TypeOK'
  BY TypeStep
<1>3. QED
  BY <1>1, <1>2, PTL DEF Spec

-----------------------------------------------------------------------------
(***************************************************************************)
(* Safety of the session, for every value of the constants: the desktop's  *)
(* state and its USB handle agree, the dashboard shows that state, and no  *)
(* session is established across protocol versions.                        *)
(***************************************************************************)
LEMMA HostSendEffect ==
    ASSUME NEW p, NEW waited, NEW ok, HostSend(p, waited, ok)
    PROVE  /\ out' = out \/ out' = Append(out, p)
           /\ UNCHANGED <<attached, in, skew, pspRunning>>
BY DEF HostSend

-----------------------------------------------------------------------------
(***************************************************************************)
(* Control: where the loop is, the state it is in, the handle it holds and *)
(* what the dashboard shows.                                               *)
(***************************************************************************)
ControlInv == StepMatchesState /\ HandleMatchesState /\ DashboardHonest

LEMMA ControlDesktop ==
    ASSUME TypeOK, ControlInv, DesktopAlone
    PROVE  ControlInv'
<1> USE DEF ControlInv, StepMatchesState, HandleMatchesState, DashboardHonest,
            At, Goto, uiVars, timerVars, linkVars
<1>1. CASE PollControl
  BY <1>1 DEF PollControl, TypeOK, DesktopTypeOK
<1>2. ASSUME NEW step \in {"SendExit", "SendReboot"}, NEW c,
             SendControl(step, c)
      PROVE  ControlInv'
  BY <1>2, HostSendEffect DEF SendControl
<1>3. CASE SearchDevice
  BY <1>3 DEF SearchDevice
<1>4. CASE OpenDevice
  BY <1>4 DEF OpenDevice, TransportOpen
<1>5. CASE SendHello
  BY <1>5, HostSendEffect DEF SendHello, Disconnect, TransportClose
<1>6. CASE AwaitReply
  BY <1>6 DEF AwaitReply, Disconnect, TransportClose, HostReceives,
              HostReceiveTimesOut, HostReceiveFails
<1>7. CASE SendHeartbeat
  BY <1>7, HostSendEffect DEF SendHeartbeat, Disconnect, TransportClose
<1>8. ASSUME NEW step \in {"Stats", "Git", "Notif"},
             NEW next \in {"Git", "Notif", "Drain"}, SendData(step, next)
      PROVE  ControlInv'
  BY <1>8, HostSendEffect DEF SendData, GoOn, Disconnect, TransportClose
<1>9. CASE DrainReceive
  BY <1>9 DEF DrainReceive, Disconnect, TransportClose, HostReceives,
              HostReceiveTimesOut, HostReceiveFails
<1>10. CASE WakeUp
  BY <1>10 DEF WakeUp
<1>11. CASE ClickControl
  BY <1>11 DEF ClickControl
<1>12. CASE DesktopStart
  BY <1>12 DEF DesktopStart
<1>13. CASE DesktopCrash
  BY <1>13 DEF DesktopCrash, TransportClose
<1>14. CASE Stall \/ Resume
  BY <1>14 DEF Stall, Resume
<1>15. QED
  BY <1>1, <1>2, <1>3, <1>4, <1>5, <1>6, <1>7, <1>8, <1>9, <1>10, <1>11,
     <1>12, <1>13, <1>14
     DEF DesktopAlone, DesktopStep, SendStats, SendGit, SendNotif

\* A frame does not touch the bus or the handle.
LEMMA FrameKeeps ==
    ASSUME Frame
    PROVE  UNCHANGED <<attached, handle, pspRunning, pspVersion, mock>>
<1>1. PICK key \in {"none", "square", "triangle"} :
        \/ FrameIdle(key) \/ FrameJunk(key) \/ FramePacket(key)
        \/ FramePayloadLost(key) \/ FrameError(key)
  BY DEF Frame
<1>2. UNCHANGED <<attached, handle, pspRunning>>
  BY <1>1 DEF FrameIdle, FrameJunk, FramePacket, FramePayloadLost, FrameError,
              linkVars
<1>3. QED
  BY <1>2 DEF Frame

\* What the PSP and the cable can do to the handle.
LEMMA DeviceKeepsHandle ==
    ASSUME HandleMatchesState, UNCHANGED dState, PspFrame \/ PspAlone
    PROVE  HandleMatchesState'
<1> USE DEF HandleMatchesState
<1>1. CASE Frame
  BY <1>1, FrameKeeps
<1>2. ASSUME NEW resident \in BOOLEAN, LeaveGame(resident)
      PROVE  HandleMatchesState'
  BY <1>2 DEF LeaveGame, Detach
<1>3. CASE PspLaunch \/ Unplug \/ Plug
  BY <1>3 DEF PspLaunch, Unplug, Plug, Detach
<1>4. QED
  BY <1>1, <1>2, <1>3 DEF PspFrame, PspAlone, ExitToMenu, ColdReset

LEMMA ControlStep ==
    ASSUME TypeOK, ControlInv, [Next]_vars
    PROVE  ControlInv'
<1> USE DEF ControlInv
<1>1. CASE Tick
  <2>1. HandleMatchesState'
    <3>1. CASE pspRunning
      BY <1>1, <3>1, DeviceKeepsHandle DEF Tick, DesktopClock
    <3>2. CASE ~pspRunning
      BY <1>1, <3>2 DEF Tick, DesktopClock, linkVars, HandleMatchesState
    <3>3. QED
      BY <3>1, <3>2
  <2>2. StepMatchesState' /\ DashboardHonest'
    BY <1>1 DEF Tick, DesktopClock, uiVars, StepMatchesState, DashboardHonest
  <2>3. QED
    BY <2>1, <2>2
<1>2. CASE DesktopAlone /\ UNCHANGED pspVars
  BY <1>2, ControlDesktop
<1>3. CASE PspAlone /\ UNCHANGED desktopVars
  <2>1. HandleMatchesState'
    BY <1>3, DeviceKeepsHandle DEF desktopVars
  <2>2. StepMatchesState' /\ DashboardHonest'
    BY <1>3 DEF desktopVars, StepMatchesState, DashboardHonest
  <2>3. QED
    BY <2>1, <2>2
<1>4. CASE UNCHANGED vars
  BY <1>4 DEF vars, linkVars, desktopVars, StepMatchesState,
              HandleMatchesState, DashboardHonest
<1>5. QED
  BY <1>1, <1>2, <1>3, <1>4 DEF Next

\* The three facts about the desktop's control state are inductive together:
\* where the loop is decides its state, and the state what it may hold and show.
LEMMA ControlAlways == Spec => []ControlInv
<1>1. Init => ControlInv
  BY DEF Init, LinkInit, DesktopInit, ControlInv, StepMatchesState,
         HandleMatchesState, DashboardHonest
<1>2. TypeOK /\ ControlInv /\ [Next]_vars => ControlInv'
  BY ControlStep
<1>3. QED
  BY <1>1, <1>2, TypeCorrect, PTL DEF Spec

\* The desktop holds a USB handle exactly while it is in a session, whichever
\* of main.cpp's seven failure paths it leaves the session by.
THEOREM HandleCorrect == Spec => []HandleMatchesState
<1>1. ControlInv => HandleMatchesState
  BY DEF ControlInv
<1>2. QED
  BY <1>1, ControlAlways, PTL

\* The dashboard (http_server.cpp's m_connection_state) shows the loop's state,
\* but for the steps between losing a session and the next search.
THEOREM DashboardCorrect == Spec => []DashboardHonest
<1>1. ControlInv => DashboardHonest
  BY DEF ControlInv
<1>2. QED
  BY <1>1, ControlAlways, PTL

-----------------------------------------------------------------------------
(***************************************************************************)
(* Versions: a reply exists only when the versions agree, and only a reply *)
(* makes the desktop CONNECTED.                                            *)
(***************************************************************************)
VersionInv == PacketsVersioned /\ VersionGate

LEMMA DesktopMessages ==
    /\ \A id \in MessageIds : Message(id, DesktopVersion) \in DesktopPacket
    /\ \A c \in 0..2 : ControlMessage(DesktopVersion, c) \in DesktopPacket
BY DEF Message, ControlMessage, DesktopPacket, MessageIds

\* The obligations of a step: the pipes keep their types, a reply that is new
\* or a side that becomes CONNECTED finds the versions equal.
LEMMA VersionKept ==
    ASSUME VersionInv, UNCHANGED pspVersion,
           out' \in Seq(DesktopPacket), in' \in Seq(PspPacket),
           \/ pspVersion = DesktopVersion
           \/ /\ in' = in \/ in' = <<>>
              /\ dState' = "CONNECTED" => dState = "CONNECTED"
              /\ pState' = "CONNECTED" => pState = "CONNECTED"
    PROVE  VersionInv'
<1>1. UNCHANGED <<DesktopPacket, PspPacket>>
  BY DEF DesktopPacket, PspPacket
<1>2. QED
  BY <1>1 DEF VersionInv, PacketsVersioned, VersionGate

\* A desktop step that puts at most one of its own messages into the OUT pipe,
\* leaves the IN pipe and does not become CONNECTED.
LEMMA VersionSend ==
    ASSUME VersionInv, NEW p \in DesktopPacket,
           out' = out \/ out' = Append(out, p),
           UNCHANGED <<in, pspVersion, pState>>,
           dState' = "CONNECTED" => dState = "CONNECTED"
    PROVE  VersionInv'
<1>1. out' \in Seq(DesktopPacket) /\ in' \in Seq(PspPacket)
  BY AppendType DEF VersionInv, PacketsVersioned
<1>2. QED
  BY <1>1, VersionKept

LEMMA VersionDesktop ==
    ASSUME VersionInv, DesktopAlone, UNCHANGED pspVars
    PROVE  VersionInv'
<1> USE DesktopMessages DEF Goto, uiVars, timerVars, linkVars, pspVars
<1>0. ASSUME UNCHANGED <<out, in>>, dState' = "CONNECTED" => dState = "CONNECTED"
      PROVE  VersionInv'
  BY <1>0, VersionKept DEF VersionInv, PacketsVersioned
<1>1. ASSUME NEW step, NEW c \in 0..2, SendControl(step, c)
      PROVE  VersionInv'
  <2>1. /\ out' = out \/ out' = Append(out, ControlMessage(DesktopVersion, c))
        /\ in' = in
    BY <1>1, HostSendEffect DEF SendControl
  <2>2. QED
    BY <1>1, <2>1, VersionSend DEF SendControl
<1>2. CASE OpenDevice
  BY <1>0, <1>2 DEF OpenDevice, TransportOpen
<1>3. CASE SendHello
  <2>1. /\ out' = out \/ out' = Append(out, Message("HELLO", DesktopVersion))
        /\ in' = in
    BY <1>3, HostSendEffect DEF SendHello
  <2>2. QED
    BY <1>3, <2>1, VersionSend DEF SendHello, Disconnect, MessageIds
<1>4. CASE AwaitReply
  <2>1. CASE HostReceives
    <3>1. in # <<>> /\ in' = Tail(in) /\ out' = out
      BY <2>1 DEF HostReceives
    <3>2. in' \in Seq(PspPacket)
      BY <3>1, TailType DEF VersionInv, PacketsVersioned
    <3>3. pspVersion = DesktopVersion
      BY <3>1 DEF VersionInv, PacketsVersioned
    <3>4. QED
      BY <3>1, <3>2, <3>3, VersionKept DEF VersionInv, PacketsVersioned
  <2>2. CASE HostReceiveTimesOut(busy) \/ HostReceiveFails
    BY <1>0, <1>4, <2>2
       DEF AwaitReply, HostReceives, HostReceiveTimesOut, HostReceiveFails,
           Disconnect
  <2>3. QED
    BY <1>4, <2>1, <2>2 DEF AwaitReply
<1>5. CASE SendHeartbeat
  <2>1. /\ \/ out' = out
           \/ out' = Append(out, Message("HEARTBEAT", DesktopVersion))
        /\ in' = in
    BY <1>5, HostSendEffect DEF SendHeartbeat
  <2>2. QED
    BY <1>5, <2>1, VersionSend DEF SendHeartbeat, Disconnect, MessageIds
<1>6. ASSUME NEW step, NEW next, SendData(step, next)
      PROVE  VersionInv'
  <2>1. /\ out' = out \/ out' = Append(out, Message("DATA", DesktopVersion))
        /\ in' = in
    BY <1>6, HostSendEffect DEF SendData
  <2>2. QED
    BY <1>6, <2>1, VersionSend DEF SendData, Disconnect, MessageIds
<1>7. CASE DrainReceive
  <2>1. CASE HostReceives
    <3>1. in # <<>> /\ in' = Tail(in) /\ out' = out
      BY <2>1 DEF HostReceives
    <3>2. in' \in Seq(PspPacket)
      BY <3>1, TailType DEF VersionInv, PacketsVersioned
    <3>3. pspVersion = DesktopVersion
      BY <3>1 DEF VersionInv, PacketsVersioned
    <3>4. QED
      BY <3>1, <3>2, <3>3, VersionKept DEF VersionInv, PacketsVersioned
  <2>2. CASE HostReceiveTimesOut(busy) \/ HostReceiveFails
    BY <1>0, <1>7, <2>2
       DEF DrainReceive, HostReceives, HostReceiveTimesOut, HostReceiveFails,
           Disconnect
  <2>3. QED
    BY <1>7, <2>1, <2>2 DEF DrainReceive
<1>8. CASE PollControl \/ SearchDevice \/ WakeUp
  BY <1>0, <1>8 DEF PollControl, SearchDevice, WakeUp
<1>9. CASE ClickControl \/ DesktopStart \/ Resume
  BY <1>0, <1>9 DEF ClickControl, DesktopStart, Resume
<1>10. CASE DesktopCrash \/ Stall
  BY <1>0, <1>10 DEF DesktopCrash, Stall
<1>11. QED
  BY <1>1, <1>2, <1>3, <1>4, <1>5, <1>6, <1>7, <1>8, <1>9, <1>10
     DEF DesktopAlone, DesktopStep, SendStats, SendGit, SendNotif

\* A frame answers a HELLO only if its version is the PSP's own.
LEMMA VersionFrame ==
    ASSUME VersionInv, UNCHANGED dState, Frame
    PROVE  VersionInv'
<1>1. PICK key :
        \/ FrameIdle(key) \/ FrameJunk(key) \/ FramePacket(key)
        \/ FramePayloadLost(key) \/ FrameError(key)
  BY DEF Frame
<1>2. UNCHANGED pspVersion
  BY DEF Frame
<1>3. ASSUME out' = out \/ (out # <<>> /\ out' = Tail(out)), in' = in,
             pState' = "CONNECTED" => pState = "CONNECTED"
      PROVE  VersionInv'
  <2>1. out' \in Seq(DesktopPacket)
    BY <1>3, TailType DEF VersionInv, PacketsVersioned
  <2>2. QED
    BY <1>2, <1>3, <2>1, VersionKept DEF VersionInv, PacketsVersioned
<1>4. CASE FrameIdle(key)
  BY <1>3, <1>4 DEF FrameIdle, Watchdog, linkVars
<1>5. CASE FrameJunk(key)
  BY <1>3, <1>5 DEF FrameJunk, Watchdog
<1>6. CASE FramePacket(key)
  <2>1. Head(out) \in DesktopPacket /\ out # <<>> /\ out' = Tail(out)
    BY <1>6, TailType DEF FramePacket, VersionInv, PacketsVersioned
  <2>2. CASE pState = "DISCONNECTED" /\ Acceptable(Head(out))
    <3>1. pspVersion = DesktopVersion
      BY <2>1, <2>2 DEF Acceptable, DesktopPacket
    <3>2. in' = in \/ in' = Append(in, Message("HELLO", pspVersion))
      BY <1>6, Zenon DEF FramePacket
    <3>3. Message("HELLO", pspVersion) \in PspPacket
      BY DEF Message, PspPacket
    <3>4. in' \in Seq(PspPacket)
      BY <3>2, <3>3, AppendType DEF VersionInv, PacketsVersioned
    <3>5. out' \in Seq(DesktopPacket)
      BY <2>1, TailType DEF VersionInv, PacketsVersioned
    <3>6. QED
      BY <1>2, <3>1, <3>4, <3>5, VersionKept
  <2>3. CASE ~(pState = "DISCONNECTED" /\ Acceptable(Head(out)))
    BY <1>3, <1>6, <2>1, <2>3 DEF FramePacket, Watchdog
  <2>4. QED
    BY <2>2, <2>3
<1>7. CASE FramePayloadLost(key)
  BY <1>3, <1>7 DEF FramePayloadLost, Watchdog
<1>8. CASE FrameError(key)
  BY <1>3, <1>8 DEF FrameError, Watchdog
<1>9. QED
  BY <1>1, <1>4, <1>5, <1>6, <1>7, <1>8

LEMMA VersionDevice ==
    ASSUME VersionInv, UNCHANGED dState, PspFrame \/ PspAlone
    PROVE  VersionInv'
<1>1. ASSUME UNCHANGED pspVersion,
             \/ out' = <<>> /\ in' = <<>>
             \/ UNCHANGED <<out, in>>,
             pState' = "CONNECTED" => pState = "CONNECTED"
      PROVE  VersionInv'
  <2>1. out' \in Seq(DesktopPacket) /\ in' \in Seq(PspPacket)
    BY <1>1, EmptyType DEF VersionInv, PacketsVersioned
  <2>2. QED
    BY <1>1, <2>1, VersionKept
<1>2. ASSUME NEW resident \in BOOLEAN, LeaveGame(resident)
      PROVE  VersionInv'
  BY <1>1, <1>2 DEF LeaveGame, Detach
<1>3. CASE PspAlone
  BY <1>1, <1>3 DEF PspAlone, PspLaunch, Unplug, Plug, Detach, pspVars
<1>4. QED
  BY <1>2, <1>3, VersionFrame DEF PspFrame, ExitToMenu, ColdReset

LEMMA VersionStep ==
    ASSUME VersionInv, [Next]_vars
    PROVE  VersionInv'
<1>1. CASE Tick
  <2>1. CASE pspRunning
    BY <1>1, <2>1, VersionDevice DEF Tick, DesktopClock
  <2>2. CASE ~pspRunning
    BY <1>1, <2>2, VersionKept
       DEF Tick, DesktopClock, linkVars, pspVars, VersionInv, PacketsVersioned
  <2>3. QED
    BY <2>1, <2>2
<1>2. CASE DesktopAlone /\ UNCHANGED pspVars
  BY <1>2, VersionDesktop
<1>3. CASE PspAlone /\ UNCHANGED desktopVars
  BY <1>3, VersionDevice DEF desktopVars
<1>4. CASE UNCHANGED vars
  BY <1>4, VersionKept
     DEF vars, linkVars, desktopVars, pspVars, VersionInv, PacketsVersioned
<1>5. QED
  BY <1>1, <1>2, <1>3, <1>4 DEF Next

LEMMA VersionAlways == Spec => []VersionInv
<1>1. Init => VersionInv
  BY DEF Init, LinkInit, DesktopInit, PspInit, VersionInv, PacketsVersioned,
         VersionGate
<1>2. VersionInv /\ [Next]_vars => VersionInv'
  BY VersionStep
<1>3. QED
  BY <1>1, <1>2, PTL DEF Spec

\* Neither side is ever CONNECTED to a peer of another protocol version,
\* although only the PSP compares versions (main.c:199).
THEOREM VersionGateCorrect == Spec => []VersionGate
<1>1. VersionInv => VersionGate
  BY DEF VersionInv
<1>2. QED
  BY <1>1, VersionAlways, PTL

-----------------------------------------------------------------------------
(***************************************************************************)
(* The watchdog never breaks a healthy session, for every value of the     *)
(* constants that TimingAssumption allows. The induction is on             *)
(* HealthySession: it bounds the PSP's frame counter by the desktop's      *)
(* place in its pass, so that the counter can only reach WatchdogFrames    *)
(* where a heartbeat is due and time does not pass before it is sent.      *)
(***************************************************************************)
LEMMA LenFacts ==
    ASSUME NEW S, NEW s \in Seq(S)
    PROVE  /\ Len(s) \in Nat
           /\ (s = <<>>) <=> (Len(s) = 0)
           /\ s # <<>> => Len(Tail(s)) = Len(s) - 1
           /\ \A e \in S : Append(s, e) # <<>> /\ Len(Append(s, e)) = Len(s) + 1
OBVIOUS

LEMMA OneOrNone == \A n \in Nat : n <= 1 /\ n # 0 => n = 1
OBVIOUS

LEMMA NoFaultHappens ==
    ASSUME faults \in 0..MaxFaults, faults' = 0, NEW kind
    PROVE  ~Fault(kind)
BY LinkAssumption DEF Fault

\* In a healthy session a send fails only on a dead handle.
LEMMA HealthySend ==
    ASSUME TypeOK, QuietLink, HandleMatchesState, faults' = 0,
           NEW p \in Packet, NEW waited, NEW ok \in BOOLEAN,
           HostSend(p, waited, ok)
    PROVE  /\ faults = 0
           /\ UNCHANGED <<attached, in, skew, pspRunning>>
           /\ ok => handle = "open" /\ out' = Append(out, p)
           /\ ~ok => handle # "open" /\ out' = out
<1>1. ~Fault("io")
  BY NoFaultHappens DEF TypeOK, LinkTypeOK
<1>2. handle = "open" => pspRunning
  BY DEF HandleMatchesState, QuietLink
<1>3. QED
  BY <1>1, <1>2 DEF HostSend, NoFault

\* A frame only ever adds to the faults.
LEMMA FaultFreeFrame ==
    ASSUME TypeOK, Frame, faults' = 0
    PROVE  faults = 0
<1>1. PICK key :
        \/ FrameIdle(key) \/ FrameJunk(key) \/ FramePacket(key)
        \/ FramePayloadLost(key) \/ FrameError(key)
  BY DEF Frame
<1>2. ~Fault("io") /\ ~Fault("payload")
  BY NoFaultHappens DEF TypeOK, LinkTypeOK
<1>3. UNCHANGED faults
  BY <1>1, <1>2 DEF FrameIdle, FrameJunk, FramePacket, FramePayloadLost,
                    FrameError, NoFault, linkVars
<1>4. QED
  BY <1>3

LEMMA HealthyReceiveFails ==
    ASSUME TypeOK, faults' = 0, HostReceiveFails
    PROVE  /\ faults = 0 /\ handle # "open"
           /\ UNCHANGED <<attached, out, in, skew, pspRunning>>
BY NoFaultHappens DEF TypeOK, LinkTypeOK, HostReceiveFails, NoFault

-----------------------------------------------------------------------------
(***************************************************************************)
(* The desktop's steps.                                                    *)
(***************************************************************************)
HealthyInv == TypeOK /\ ControlInv /\ HealthySession

LEMMA ConstantTypes ==
    /\ TimeoutTicks \in Nat /\ TimeoutTicks >= 1
    /\ SleepTicks \in Nat /\ SleepTicks >= 1
    /\ SlackTicks \in Nat
    /\ BeatTicks \in Nat /\ BeatTicks <= TimeoutTicks
    /\ OutCap \in Nat /\ OutCap >= 1 /\ InCap \in Nat /\ InCap >= 1
    /\ WatchdogFrames \in Nat
    /\ WatchdogFrames >= 1 + TimeoutTicks + SleepTicks + SlackTicks
BY LinkAssumption, DesktopAssumption, PspAssumption, TimingAssumption

\* Losing a dead handle leaves nothing to be said about the session.
LEMMA HealthyDisconnect ==
    ASSUME QuietLink, Disconnect, handle # "open",
           UNCHANGED <<attached, out, in, skew, pspRunning, mock, pState>>
    PROVE  HealthySession'
BY DEF QuietLink, Disconnect, TransportClose, Goto, HealthySession

\* The steps that neither send nor receive, in a session on an open handle.
LEMMA HealthyPass ==
    ASSUME HealthyInv, UNCHANGED pspVars, faults' = 0,
           PollControl \/ SearchDevice \/ OpenDevice \/ WakeUp
    PROVE  HealthySession'
<1> USE ConstantTypes DEF HealthyInv, At, Goto, uiVars, timerVars, pspVars
<1>1. CASE PollControl
  BY <1>1 DEF PollControl, linkVars, HealthySession, QuietLink, QuietHandshake,
              QuietConnected, QuietBound, BeatDue, ControlInv, StepMatchesState
<1>2. CASE SearchDevice
  BY <1>2 DEF SearchDevice, linkVars, HealthySession, QuietLink, ControlInv,
              StepMatchesState
<1>3. CASE OpenDevice
  <2>1. ~Fault("io")
    BY NoFaultHappens DEF TypeOK, LinkTypeOK
  <2>2. handle = "closed" /\ dState = "DISCONNECTED"
    BY <1>3 DEF OpenDevice, ControlInv, StepMatchesState, HandleMatchesState
  <2>3. faults = 0 /\ UNCHANGED <<attached, out, in, skew, pspRunning>>
    BY <1>3, <2>1, <2>2 DEF OpenDevice, TransportOpen, NoFault
  <2>4. out = <<>> /\ in = <<>> /\ pState = "DISCONNECTED"
    BY <2>2, <2>3 DEF HealthySession, QuietLink
  <2>5. QED
    BY <1>3, <2>2, <2>3, <2>4
       DEF OpenDevice, HealthySession, QuietLink, QuietHandshake
<1>4. CASE WakeUp
  BY <1>4 DEF WakeUp, linkVars, HealthySession, QuietLink, QuietHandshake,
              QuietConnected, QuietBound, BeatDue
<1>5. QED
  BY <1>1, <1>2, <1>3, <1>4

LEMMA HealthySends ==
    ASSUME HealthyInv, UNCHANGED pspVars, faults' = 0,
           \/ SendControl("SendExit", 1) \/ SendControl("SendReboot", 2)
           \/ SendHello \/ SendHeartbeat
    PROVE  HealthySession'
<1> USE ConstantTypes DEF HealthyInv, At, Goto, uiVars, timerVars, pspVars
<1>0. /\ LinkTypeOK /\ out \in Seq(Packet) /\ HandleMatchesState
      /\ faults = 0 => QuietLink
      /\ busy \in Nat /\ sinceBeat \in Nat /\ ticks \in Nat
  BY DEF TypeOK, LinkTypeOK, DesktopTypeOK, PspTypeOK, ControlInv, HealthySession
<1>1. ASSUME NEW step \in {"SendExit", "SendReboot"}, NEW c \in 0..2,
             SendControl(step, c)
      PROVE  HealthySession'
  <2>1. PICK ok \in BOOLEAN :
          HostSend(ControlMessage(DesktopVersion, c), busy, ok)
    BY <1>1 DEF SendControl
  <2>2. ControlMessage(DesktopVersion, c) \in Packet
    BY MessageType, DesktopAssumption
  <2>3. faults = 0
    BY <2>1, NoFaultHappens DEF HostSend, NoFault, TypeOK, LinkTypeOK
  <2>4. dState = "CONNECTED"
    BY <1>1 DEF SendControl, ControlInv, StepMatchesState
  <2>5. CASE ok
    <3>1. handle = "open" /\ out' # <<>> /\ in' = in
      BY ZenonT(30), <1>0, <2>1, <2>2, <2>3, <2>5, HealthySend, LenFacts
    <3>2. QED
      BY <1>0, <1>1, <2>1, <2>2, <2>3, <2>4, <3>1, HealthySend
         DEF SendControl, HealthySession, QuietLink, QuietConnected, BeatDue
  <2>6. CASE ~ok
    BY <1>0, <1>1, <2>1, <2>2, <2>3, <2>6, HealthySend
       DEF SendControl, HealthySession, QuietLink
  <2>7. QED
    BY <2>5, <2>6
<1>2. CASE SendHello
  <2>1. dState = "HANDSHAKING" /\ dpc = "Hello"
    BY <1>2 DEF SendHello, ControlInv, StepMatchesState
  <2>2. CASE ~HelloDue
    BY <1>2, <2>1, <2>2
       DEF SendHello, linkVars, HealthySession, QuietLink, QuietHandshake
  <2>3. CASE HelloDue
    <3>1. PICK ok \in BOOLEAN :
            /\ HostSend(Message("HELLO", DesktopVersion), busy, ok)
            /\ IF ok THEN Goto("Await") /\ UNCHANGED <<handle, dState>>
                     ELSE Disconnect
      BY <1>2, <2>3 DEF SendHello
    <3>2. Message("HELLO", DesktopVersion) \in Packet
      BY MessageType, DesktopAssumption DEF MessageIds
    <3>3. faults = 0
      BY <3>1, NoFaultHappens DEF HostSend, NoFault, TypeOK, LinkTypeOK
    <3>4. CASE ok
      <4>0. /\ handle = "open" /\ in' = in
            /\ out' = Append(out, Message("HELLO", DesktopVersion))
        BY <1>0, <3>1, <3>2, <3>3, <3>4, HealthySend
      <4>1. handle = "open" /\ Len(out') = Len(out) + 1 /\ in' = in
        BY <1>0, <3>2, <4>0, LenFacts
      <4>2. Len(out) = 0 /\ pState = "DISCONNECTED" /\ in = <<>>
        BY <1>0, <2>1, <3>3, <4>1, LenFacts DEF HealthySession, QuietHandshake
      <4>3. QuietHandshake'
        BY <3>1, <3>4, <4>1, <4>2 DEF QuietHandshake
      <4>4. QuietLink'
        BY <1>0, <1>2, <3>1, <3>2, <3>3, <3>4, <4>1, HealthySend DEF QuietLink
      <4>5. QED
        BY <2>1, <3>1, <3>4, <4>3, <4>4 DEF HealthySession
    <3>5. CASE ~ok
      BY <1>0, <3>1, <3>2, <3>3, <3>5, HealthySend, HealthyDisconnect
    <3>6. QED
      BY <3>4, <3>5
  <2>4. QED
    BY <2>2, <2>3
<1>3. CASE SendHeartbeat
  <2>1. dState = "CONNECTED" /\ dpc = "Beat"
    BY <1>3 DEF SendHeartbeat, ControlInv, StepMatchesState
  <2>2. CASE ~BeatDue
    BY <1>0, <1>3, <2>1, <2>2
       DEF SendHeartbeat, linkVars, HealthySession, QuietLink, QuietConnected,
           QuietBound, Capped
  <2>3. CASE BeatDue
    <3>1. PICK ok \in BOOLEAN :
            /\ HostSend(Message("HEARTBEAT", DesktopVersion), busy, ok)
            /\ IF ok THEN Goto("Stats") /\ UNCHANGED <<handle, dState>>
                     ELSE Disconnect
      BY <1>3, <2>3 DEF SendHeartbeat
    <3>2. Message("HEARTBEAT", DesktopVersion) \in Packet
      BY MessageType, DesktopAssumption DEF MessageIds
    <3>3. faults = 0
      BY <3>1, NoFaultHappens DEF HostSend, NoFault, TypeOK, LinkTypeOK
    <3>4. CASE ok
      <4>1. handle = "open" /\ out' # <<>> /\ in' = in
        BY <1>0, <3>1, <3>2, <3>3, <3>4, HealthySend, LenFacts
      <4>2. QED
        BY <1>0, <2>1, <3>1, <3>2, <3>3, <3>4, <4>1, HealthySend
           DEF HealthySession, QuietLink, QuietConnected
    <3>5. CASE ~ok
      BY <1>0, <3>1, <3>2, <3>3, <3>5, HealthySend, HealthyDisconnect
    <3>6. QED
      BY <3>4, <3>5
  <2>4. QED
    BY <2>2, <2>3
<1>4. QED
  BY <1>1, <1>2, <1>3

LEMMA HealthyData ==
    ASSUME HealthyInv, UNCHANGED pspVars, faults' = 0,
           NEW step \in {"Stats", "Git", "Notif"},
           NEW next \in {"Git", "Notif", "Drain"},
           step # next, step = "Notif" => next = "Drain",
           step # "Notif" => next # "Drain",
           SendData(step, next)
    PROVE  HealthySession'
<1> USE ConstantTypes
    DEF HealthyInv, At, Goto, GoOn, uiVars, timerVars, pspVars
<1>0. /\ LinkTypeOK /\ out \in Seq(Packet) /\ HandleMatchesState
      /\ faults = 0 => QuietLink
      /\ busy \in Nat /\ sinceBeat \in Nat /\ ticks \in Nat
  BY DEF TypeOK, LinkTypeOK, DesktopTypeOK, PspTypeOK, ControlInv, HealthySession
<1>1. /\ dState = "CONNECTED" /\ dpc = step
      /\ UNCHANGED <<sinceBeat, ticks, pState, mock>>
  BY DEF SendData, ControlInv, StepMatchesState
<1>2. CASE GoOn(next) /\ UNCHANGED <<dState, linkVars>>
  <2>1. dpc' = next /\ next # "Stats"
        /\ UNCHANGED <<dState, handle, out, in, attached, skew, pspRunning, faults>>
        /\ UNCHANGED stalled
    BY <1>2 DEF linkVars
  <2>2. ASSUME faults = 0
        PROVE  QuietLink'
    BY <1>0, <1>1, <2>1, <2>2 DEF QuietLink
  <2>3. ASSUME faults = 0, handle = "open"
        PROVE  QuietConnected'
    <3>1. QuietConnected
      BY <1>1, <2>3 DEF HealthySession
    <3>2. CASE next # "Drain"
      BY <1>0, <1>1, <1>2, <2>1, <3>1, <3>2 DEF QuietConnected, QuietBound, Capped
    <3>3. CASE next = "Drain"
      BY <1>0, <1>1, <1>2, <2>1, <3>1, <3>3 DEF QuietConnected, QuietBound, Capped
    <3>4. QED
      BY <3>2, <3>3
  <2>4. QED
    BY <1>1, <2>1, <2>2, <2>3 DEF HealthySession
<1>3. CASE ~(GoOn(next) /\ UNCHANGED <<dState, linkVars>>)
  <2>1. PICK ok \in BOOLEAN :
          /\ HostSend(Message("DATA", DesktopVersion), busy, ok)
          /\ IF ok THEN GoOn(next) /\ UNCHANGED <<handle, dState>>
                   ELSE Disconnect
    BY <1>3 DEF SendData
  <2>2. Message("DATA", DesktopVersion) \in Packet
    BY MessageType, DesktopAssumption DEF MessageIds
  <2>3. faults = 0
    BY <2>1, NoFaultHappens DEF HostSend, NoFault, TypeOK, LinkTypeOK
  <2>4. CASE ok
    <3>1. handle = "open" /\ out' # <<>> /\ in' = in
      BY <1>0, <2>1, <2>2, <2>3, <2>4, HealthySend, LenFacts
    <3>2. QuietLink'
      <4>1. UNCHANGED <<attached, skew, pspRunning>>
        BY <1>0, <2>1, <2>2, <2>3, HealthySend
      <4>2. handle' = "open" /\ stalled' = stalled /\ mock' = mock
        BY <1>1, <2>1, <2>4, <3>1
      <4>3. QED
        BY <1>0, <2>3, <4>1, <4>2 DEF QuietLink
    <3>3. QuietConnected'
      BY <1>0, <1>1, <2>1, <2>3, <2>4, <3>1
         DEF HealthySession, QuietConnected, Capped
    <3>4. QED
      BY <1>1, <2>1, <2>4, <3>2, <3>3 DEF HealthySession
  <2>5. CASE ~ok
    BY <1>0, <2>1, <2>2, <2>3, <2>5, HealthySend, HealthyDisconnect
  <2>6. QED
    BY <2>4, <2>5
<1>4. QED
  BY <1>2, <1>3

LEMMA HealthyReceives ==
    ASSUME HealthyInv, UNCHANGED pspVars, faults' = 0,
           AwaitReply \/ DrainReceive
    PROVE  HealthySession'
<1> USE ConstantTypes DEF HealthyInv, At, Goto, uiVars, timerVars, pspVars
<1>0. /\ out \in Seq(Packet) /\ in \in Seq(Packet)
      /\ faults = 0 => QuietLink
      /\ busy \in 0..TimeoutTicks /\ sinceBeat \in 0..BeatTicks /\ ticks \in Nat
  BY DEF TypeOK, LinkTypeOK, DesktopTypeOK, PspTypeOK, HealthySession
<1>1. CASE AwaitReply
  <2>1. dState = "HANDSHAKING" /\ dpc = "Await"
    BY <1>1 DEF AwaitReply, ControlInv, StepMatchesState
  <2>2. CASE HostReceives
    <3>1. ~Fault("io")
      BY NoFaultHappens DEF TypeOK, LinkTypeOK
    <3>2. handle = "open" /\ in # <<>> /\ in' = Tail(in)
      BY <2>2 DEF HostReceives
    <3>3. /\ NoFault /\ handle' = handle
          /\ dState' = "CONNECTED" /\ dpc' = "Beat" /\ stalled' = stalled
      BY <1>1, <2>2, <3>1, <3>2
         DEF AwaitReply, HostReceiveTimesOut, HostReceiveFails
    <3>4. faults = 0
      BY <3>3 DEF NoFault
    <3>5. /\ pState = "CONNECTED" /\ Len(in) = 1 /\ out = <<>> /\ ticks <= 1
      BY <2>1, <3>2, <3>4 DEF HealthySession, QuietHandshake
    <3>6. in' = <<>>
      BY <1>0, <3>2, <3>5
    <3>7. QuietConnected'
      BY SMTT(30), <1>0, <2>2, <3>3, <3>5, <3>6
         DEF HostReceives, QuietConnected, QuietBound
    <3>8. QuietLink'
      BY <1>0, <2>2, <3>2, <3>3, <3>4 DEF HostReceives, QuietLink
    <3>9. QED
      BY <3>3, <3>7, <3>8 DEF HealthySession
  <2>3. CASE HostReceiveTimesOut(busy) /\ Goto("Sleep") /\ UNCHANGED dState
    <3>1. /\ UNCHANGED linkVars /\ in = <<>> /\ busy # 0
          /\ dpc' = "Sleep" /\ dState' = dState /\ stalled' = stalled
      BY <1>0, <2>3 DEF HostReceiveTimesOut
    <3>2. QED
      BY <1>0, <2>1, <3>1, LenFacts
         DEF linkVars, HealthySession, QuietLink, QuietHandshake
  <2>4. CASE HostReceiveFails /\ Disconnect
    BY <1>0, <2>4, HealthyReceiveFails, HealthyDisconnect
  <2>5. QED
    BY <1>1, <2>2, <2>3, <2>4 DEF AwaitReply
<1>2. CASE DrainReceive
  <2>1. dState = "CONNECTED" /\ dpc = "Drain"
    BY <1>2 DEF DrainReceive, ControlInv, StepMatchesState
  <2>2. CASE HostReceives /\ NoFault
    BY <2>1, <2>2
       DEF HostReceives, NoFault, HealthySession, QuietConnected
  <2>3. CASE HostReceiveTimesOut(busy) /\ Goto("Sleep") /\ UNCHANGED dState
    <3>1. sinceBeat' = sinceBeat
      BY <1>2 DEF DrainReceive
    <3>2. busy = TimeoutTicks
      BY <1>0, <2>3 DEF HostReceiveTimesOut
    <3>3. QED
      BY <1>0, <2>1, <2>3, <3>1, <3>2
         DEF HostReceiveTimesOut, linkVars, HealthySession, QuietLink,
             QuietConnected, QuietBound, BeatDue, Capped
  <2>4. CASE HostReceiveFails /\ Disconnect
    BY <1>0, <2>4, HealthyReceiveFails, HealthyDisconnect
  <2>5. QED
    BY <1>2, <2>2, <2>3, <2>4 DEF DrainReceive
<1>3. QED
  BY <1>1, <1>2

LEMMA HealthyDesktop ==
    ASSUME HealthyInv, DesktopAlone, UNCHANGED pspVars, faults' = 0
    PROVE  HealthySession'
<1>1. CASE DesktopStep
  BY <1>1, HealthyPass, HealthySends, HealthyData, HealthyReceives
     DEF DesktopStep, SendStats, SendGit, SendNotif
<1>2. CASE ClickControl
  BY <1>2 DEF ClickControl, linkVars, pspVars, timerVars, HealthyInv,
              HealthySession, QuietLink, QuietHandshake, QuietConnected,
              QuietBound, BeatDue
<1>3. CASE DesktopStart
  BY <1>3 DEF DesktopStart, Goto, linkVars, pspVars, HealthyInv, ControlInv,
              StepMatchesState, HealthySession, QuietLink
<1>4. CASE DesktopCrash \/ Stall
  BY <1>4, NoFaultHappens DEF DesktopCrash, Stall, HealthyInv, TypeOK, LinkTypeOK
<1>5. CASE Resume
  BY <1>5 DEF Resume, linkVars, HealthyInv, HealthySession, QuietLink
<1>6. QED
  BY <1>1, <1>2, <1>3, <1>4, <1>5 DEF DesktopAlone

-----------------------------------------------------------------------------
(***************************************************************************)
(* The PSP's frame, and the time that passes with it.                      *)
(***************************************************************************)

\* In a healthy session a frame has nothing to read, reads a packet, or finds
\* the device off the bus; nothing else can happen to it.
LEMMA HealthyFrameCases ==
    ASSUME TypeOK, QuietLink, faults' = 0, Frame
    PROVE  /\ faults = 0
           /\ UNCHANGED <<attached, handle, skew, pspRunning, mock>>
           /\ \/ /\ mock \/ out = <<>>
                 /\ Watchdog(pState, ticks) /\ UNCHANGED <<out, in>>
              \/ ~mock /\ out # <<>> /\ \E key : FramePacket(key)
              \/ ~attached /\ Watchdog("DISCONNECTED", ticks) /\ UNCHANGED <<out, in>>
<1>1. PICK key :
        \/ FrameIdle(key) \/ FrameJunk(key) \/ FramePacket(key)
        \/ FramePayloadLost(key) \/ FrameError(key)
  BY DEF Frame
<1>2. UNCHANGED <<attached, handle, pspRunning, mock>>
  BY FrameKeeps
<1>3. ~Fault("io") /\ ~Fault("payload")
  BY NoFaultHappens DEF TypeOK, LinkTypeOK
<1>4. CASE FrameIdle(key)
  BY <1>2, <1>4 DEF FrameIdle, linkVars
<1>5. CASE FrameJunk(key)
  BY <1>5 DEF FrameJunk, QuietLink
<1>6. CASE FramePacket(key)
  BY <1>2, <1>3, <1>6 DEF FramePacket, NoFault
<1>7. CASE FramePayloadLost(key)
  BY <1>3, <1>7 DEF FramePayloadLost
<1>8. CASE FrameError(key)
  BY <1>2, <1>3, <1>8 DEF FrameError, NoFault
<1>9. QED
  BY <1>1, <1>4, <1>5, <1>6, <1>7, <1>8

\* Off the bus the PSP stays DISCONNECTED.
LEMMA HealthyFrameOff ==
    ASSUME HealthyInv, Frame, faults' = 0, handle # "open", UNCHANGED stalled
    PROVE  HealthySession'
<1>1. faults = 0
  BY FaultFreeFrame DEF HealthyInv
<1>2. QuietLink
  BY <1>1 DEF HealthyInv, HealthySession
<1>3. out = <<>> /\ in = <<>> /\ pState = "DISCONNECTED"
  BY <1>2 DEF QuietLink
<1>4. /\ UNCHANGED <<attached, handle, skew, pspRunning, mock, out, in>>
      /\ pState' = "DISCONNECTED"
  BY <1>2, <1>3, HealthyFrameCases DEF HealthyInv, Watchdog
<1>5. QED
  BY <1>2, <1>3, <1>4 DEF HealthySession, QuietLink

\* During the handshake the frame answers the HELLO that is under way.
LEMMA HealthyFrameHandshake ==
    ASSUME HealthyInv, Frame, faults' = 0, MayWait, DesktopClock,
           handle = "open", dState = "HANDSHAKING"
    PROVE  HealthySession'
<1> USE ConstantTypes DEF HealthyInv
<1>0. /\ out \in Seq(Packet) /\ in \in Seq(Packet)
      /\ busy \in 0..TimeoutTicks /\ ticks \in Nat
  BY DEF TypeOK, LinkTypeOK, DesktopTypeOK, PspTypeOK
<1>1. faults = 0
  BY FaultFreeFrame
<1>2. QuietLink /\ QuietHandshake /\ attached /\ ~mock
  BY <1>1 DEF HealthySession, QuietLink, ControlInv, HandleMatchesState
<1>3. /\ UNCHANGED <<dpc, dState, stalled, attached, handle, skew, pspRunning, mock>>
      /\ busy' # 0
  <2>1. dpc # "Down"
    BY DEF ControlInv, StepMatchesState
  <2>2. busy' # 0
    BY <1>0, <2>1 DEF DesktopClock, Capped
  <2>3. QED
    BY <1>2, <2>2, HealthyFrameCases DEF DesktopClock
<1>4. dpc \in {"Await", "Sleep"} /\ pState = "DISCONNECTED" /\ in = <<>>
  <2>1. dpc \in {"Await", "Sleep"}
    BY <1>0, <1>2
       DEF MayWait, ControlInv, StepMatchesState, QuietHandshake, QuietLink,
           SendBlocked
  <2>2. dpc = "Await" => in = <<>>
    BY <1>2 DEF MayWait, QuietLink, ControlInv, StepMatchesState
  <2>3. QED
    BY SMTT(30), <1>0, <1>2, <2>1, <2>2, LenFacts DEF QuietHandshake
<1>5. CASE out = <<>>
  <2>1. out' = <<>> /\ in' = <<>> /\ pState' = "DISCONNECTED"
    BY <1>2, <1>4, <1>5, HealthyFrameCases DEF Watchdog
  <2>2. QED
    BY <1>1, <1>2, <1>3, <2>1 DEF HealthySession, QuietLink, QuietHandshake
<1>6. CASE out # <<>>
  <2>1. dpc = "Await" /\ Len(out) = 1
    <3>1. Len(out) \in Nat /\ Len(out) # 0
      BY <1>0, <1>6
    <3>2. CASE dpc = "Await" /\ busy = 0
      <4>1. Len(out) <= 1
        BY <1>2, <3>2 DEF QuietHandshake
      <4>2. Len(out) = 1
        BY <3>1, <4>1, OneOrNone
      <4>3. QED
        BY <3>2, <4>2
    <3>3. CASE ~(dpc = "Await" /\ busy = 0)
      <4>1. Len(out) <= 0
        BY <1>2, <3>3 DEF QuietHandshake
      <4>2. QED
        BY <3>1, <4>1
    <3>4. QED
      BY <3>2, <3>3
  <2>2. PICK key : FramePacket(key)
    BY <1>2, <1>6, HealthyFrameCases
  <2>3. out' = <<>>
    BY <1>0, <2>1, <2>2 DEF FramePacket
  <2>4. CASE in' = in /\ pState' = "DISCONNECTED"
    BY <1>1, <1>2, <1>3, <1>4, <2>3, <2>4
       DEF HealthySession, QuietLink, QuietHandshake
  <2>5. CASE /\ in' = Append(in, Message("HELLO", pspVersion))
             /\ Watchdog("CONNECTED", Rearmed)
    <3>1. pState' = "CONNECTED" /\ ticks' = 1
      BY <2>5 DEF Watchdog, Rearmed
    <3>2. Len(in') = 1
      BY <1>4, <2>5
    <3>3. QuietHandshake'
      BY <1>3, <2>1, <2>3, <3>1, <3>2 DEF QuietHandshake
    <3>4. QuietLink' /\ handle' = "open" /\ dState' = "HANDSHAKING"
      BY <1>2, <1>3 DEF QuietLink
    <3>5. QED
      BY <3>3, <3>4 DEF HealthySession
  <2>6. QED
    BY <1>4, <2>2, <2>4, <2>5 DEF FramePacket, Watchdog
<1>7. QED
  BY <1>5, <1>6

\* While connected, the tick either reads a packet, which rearms the watchdog, or
\* counts one frame more, which where the desktop may wait is within the bound.
LEMMA HealthyFrameConnected ==
    ASSUME HealthyInv, Frame, faults' = 0, MayWait, DesktopClock,
           handle = "open", dState = "CONNECTED"
    PROVE  HealthySession'
<1> USE ConstantTypes DEF HealthyInv
<1>0. /\ out \in Seq(Packet) /\ in \in Seq(Packet)
      /\ busy \in 0..TimeoutTicks /\ sinceBeat \in 0..BeatTicks /\ ticks \in Nat
  BY DEF TypeOK, LinkTypeOK, DesktopTypeOK, PspTypeOK
<1>1. faults = 0
  BY FaultFreeFrame
<1>2. QuietLink /\ QuietConnected /\ attached /\ ~mock
  BY <1>1 DEF HealthySession, QuietLink, ControlInv, HandleMatchesState
<1>3. /\ UNCHANGED <<dpc, dState, stalled, attached, handle, skew, pspRunning, mock>>
      /\ busy' = Capped(busy + 1, TimeoutTicks)
      /\ sinceBeat' = Capped(sinceBeat + 1, BeatTicks)
  <2>1. dpc # "Down"
    BY DEF ControlInv, StepMatchesState
  <2>2. QED
    BY <1>2, <2>1, HealthyFrameCases DEF DesktopClock
<1>4. /\ dpc' \in {"Sleep", "Poll", "SendExit", "SendReboot"} => BeatDue'
      /\ dpc' = "Drain" => sinceBeat' >= Capped(busy', BeatTicks)
  BY <1>0, <1>2, <1>3 DEF QuietConnected, BeatDue, Capped
<1>5. CASE out = <<>>
  <2>1. /\ \/ dpc = "Sleep" /\ busy < SleepTicks
           \/ dpc = "Drain" /\ busy < TimeoutTicks
           \/ dpc \in {"Stats", "Git", "Notif"} /\ busy < SlackTicks
    BY <1>0, <1>2, <1>5, LenFacts
       DEF MayWait, SendBlocked, QuietLink, ControlInv, StepMatchesState
  <2>2. Watchdog(pState, ticks) /\ out' = <<>> /\ in' = <<>>
    BY <1>2, <1>5, HealthyFrameCases DEF QuietConnected
  <2>3. ticks <= QuietBound
    BY <1>2, <1>5 DEF QuietConnected
  <2>4. /\ QuietBound' \in Nat
        /\ ticks + 1 <= QuietBound' /\ QuietBound' <= WatchdogFrames
    <3>0. busy' = busy + 1 /\ dpc' = dpc
      BY <1>0, <1>3, <2>1, DesktopAssumption DEF Capped
    <3>1. CASE dpc = "Sleep" /\ busy < SleepTicks
      <4>1. QuietBound = 1 + SlackTicks + TimeoutTicks + busy
        BY <3>1 DEF QuietBound
      <4>2. QuietBound' = 1 + SlackTicks + TimeoutTicks + (busy + 1)
        BY <3>0, <3>1 DEF QuietBound
      <4>3. QED
        BY <1>0, <2>3, <3>1, <4>1, <4>2
    <3>2. CASE dpc = "Drain" /\ busy < TimeoutTicks
      <4>1. QuietBound = 1 + SlackTicks + busy
        BY <3>2 DEF QuietBound
      <4>2. QuietBound' = 1 + SlackTicks + (busy + 1)
        BY <3>0, <3>2 DEF QuietBound
      <4>3. QED
        BY <1>0, <2>3, <3>2, <4>1, <4>2
    <3>3. CASE dpc \in {"Stats", "Git", "Notif"} /\ busy < SlackTicks
      <4>1. QuietBound = 1 + Capped(busy, SlackTicks)
        BY <3>3 DEF QuietBound
      <4>2. QuietBound' = 1 + Capped(busy + 1, SlackTicks)
        BY <3>0, <3>3 DEF QuietBound
      <4>3. QED
        BY <1>0, <2>3, <3>3, <4>1, <4>2 DEF Capped
    <3>4. QED
      BY <2>1, <3>1, <3>2, <3>3
  <2>5. ticks' = ticks + 1 /\ pState' = "CONNECTED"
    <3>1. pState = "CONNECTED"
      BY <1>2 DEF QuietConnected
    <3>2. ~(ticks + 1 > WatchdogFrames)
      BY <1>0, <2>4
    <3>3. QED
      BY <2>2, <3>1, <3>2 DEF Watchdog
  <2>6. QuietConnected'
    BY <1>3, <1>4, <2>1, <2>2, <2>4, <2>5 DEF QuietConnected
  <2>7. QuietLink'
    BY <1>2, <1>3, <2>2 DEF QuietLink
  <2>8. QED
    BY <1>3, <2>6, <2>7 DEF HealthySession
<1>6. CASE out # <<>>
  <2>1. PICK key : FramePacket(key)
    BY <1>2, <1>6, HealthyFrameCases
  <2>2. Watchdog("CONNECTED", Rearmed) /\ in' = <<>>
    BY <1>2, <2>1 DEF FramePacket, QuietConnected
  <2>3. ticks' = 1 /\ pState' = "CONNECTED"
    BY <2>2 DEF Watchdog, Rearmed
  <2>4. 1 <= QuietBound'
    <3>1. busy' \in Nat
      BY <1>0, <1>3 DEF Capped
    <3>2. CASE dpc' \in {"Stats", "Git", "Notif"}
      <4>1. QuietBound' = 1 + Capped(busy', SlackTicks)
        BY <3>2 DEF QuietBound
      <4>2. Capped(busy', SlackTicks) \in {busy', SlackTicks}
        BY DEF Capped
      <4>3. QED
        BY <3>1, <4>1, <4>2
    <3>3. CASE dpc' = "Drain"
      BY <3>1, <3>3 DEF QuietBound
    <3>4. CASE dpc' = "Sleep"
      BY <3>1, <3>4 DEF QuietBound
    <3>5. CASE dpc' \notin {"Stats", "Git", "Notif", "Drain", "Sleep"}
      BY <3>5 DEF QuietBound
    <3>6. QED
      BY <3>2, <3>3, <3>4, <3>5
  <2>5. QuietConnected'
    BY <1>4, <2>2, <2>3, <2>4 DEF QuietConnected
  <2>6. QuietLink' /\ handle' = "open" /\ dState' = "CONNECTED"
    BY <1>2, <1>3 DEF QuietLink
  <2>7. QED
    BY <2>5, <2>6 DEF HealthySession
<1>7. QED
  BY <1>5, <1>6

\* The device leaves the bus: nothing is in the pipes and no session is left.
LEMMA HealthyLeave ==
    ASSUME HealthyInv, faults' = 0, UNCHANGED stalled,
           NEW resident \in BOOLEAN, LeaveGame(resident)
    PROVE  HealthySession'
<1>1. ~resident
  BY NoFaultHappens DEF HealthyInv, TypeOK, LinkTypeOK, LeaveGame
<1>2. faults = 0 /\ Detach /\ pState' = "DISCONNECTED"
  BY <1>1 DEF LeaveGame, NoFault
<1>3. handle' # "open" /\ ~attached' /\ ~skew' /\ out' = <<>> /\ in' = <<>>
  BY <1>2 DEF Detach
<1>4. ~stalled'
  BY <1>2 DEF HealthyInv, HealthySession, QuietLink
<1>5. QED
  BY <1>2, <1>3, <1>4 DEF HealthySession, QuietLink

LEMMA HealthyTick ==
    ASSUME HealthyInv, Tick, faults' = 0
    PROVE  HealthySession'
<1> USE DEF HealthyInv
<1>0. MayWait /\ DesktopClock /\ UNCHANGED <<stalled, dState, dpc>>
  BY DEF Tick, DesktopClock
<1>1. CASE pspRunning /\ Frame
  <2>1. CASE handle # "open"
    BY <1>0, <1>1, <2>1, HealthyFrameOff
  <2>2. CASE handle = "open"
    <3>1. dState \in {"HANDSHAKING", "CONNECTED"}
      BY <2>2 DEF ControlInv, HandleMatchesState, TypeOK, DesktopTypeOK
    <3>2. QED
      BY <1>0, <1>1, <2>2, <3>1, HealthyFrameHandshake, HealthyFrameConnected
  <2>3. QED
    BY <2>1, <2>2
<1>2. CASE pspRunning /\ (ExitToMenu \/ ColdReset)
  BY <1>0, <1>2, HealthyLeave DEF ExitToMenu, ColdReset
<1>3. CASE ~pspRunning
  <2>1. UNCHANGED <<linkVars, pspVars>>
    BY <1>3 DEF Tick
  <2>2. faults = 0 /\ QuietLink
    BY <2>1 DEF linkVars, HealthySession
  <2>3. handle # "open"
    BY <1>3, <2>2 DEF QuietLink, ControlInv, HandleMatchesState
  <2>4. QED
    BY <1>0, <2>1, <2>2, <2>3 DEF linkVars, pspVars, HealthySession, QuietLink
<1>4. QED
  BY <1>1, <1>2, <1>3 DEF Tick, PspFrame

LEMMA HealthyDevice ==
    ASSUME HealthyInv, PspAlone, UNCHANGED desktopVars, faults' = 0
    PROVE  HealthySession'
<1> USE DEF HealthyInv, desktopVars, timerVars
<1>1. CASE PspLaunch
  <2>1. /\ faults = 0 /\ ~pspRunning /\ pspRunning'
        /\ UNCHANGED <<handle, out, in, skew, pState, stalled>>
    BY <1>1 DEF PspLaunch
  <2>2. QuietLink /\ ~attached
    BY <2>1 DEF HealthySession, QuietLink
  <2>3. handle # "open"
    BY <2>2 DEF ControlInv, HandleMatchesState
  <2>4. ~(attached' /\ mock')
    BY <1>1, <2>2 DEF PspLaunch
  <2>5. QED
    BY <2>1, <2>2, <2>3, <2>4 DEF HealthySession, QuietLink
<1>2. CASE Unplug
  BY <1>2, NoFaultHappens DEF Unplug, TypeOK, LinkTypeOK
<1>3. CASE Plug
  <2>1. /\ faults = 0 /\ ~attached /\ pspRunning /\ ~mock
        /\ UNCHANGED <<handle, out, in, skew, pspRunning, mock, pState, stalled>>
    BY <1>3 DEF Plug, pspVars
  <2>2. handle # "open" /\ QuietLink
    BY <2>1 DEF ControlInv, HandleMatchesState, HealthySession
  <2>3. QED
    BY <2>1, <2>2 DEF HealthySession, QuietLink
<1>4. QED
  BY <1>1, <1>2, <1>3 DEF PspAlone

-----------------------------------------------------------------------------
LEMMA HealthyStep ==
    ASSUME TypeOK, ControlInv, HealthySession, [Next]_vars
    PROVE  HealthySession'
<1>0. HealthyInv
  BY DEF HealthyInv
<1>1. CASE faults' # 0
  BY <1>1 DEF HealthySession
<1>2. CASE faults' = 0 /\ Tick
  BY <1>0, <1>2, HealthyTick
<1>3. CASE faults' = 0 /\ DesktopAlone /\ UNCHANGED pspVars
  BY <1>0, <1>3, HealthyDesktop
<1>4. CASE faults' = 0 /\ PspAlone /\ UNCHANGED desktopVars
  BY <1>0, <1>4, HealthyDevice
<1>5. CASE UNCHANGED vars
  BY <1>5 DEF vars, linkVars, desktopVars, pspVars, HealthySession, QuietLink,
              QuietHandshake, QuietConnected, QuietBound, BeatDue
<1>6. QED
  BY <1>1, <1>2, <1>3, <1>4, <1>5 DEF Next

\* A healthy session is never given up by the watchdog: without faults, a desktop
\* that is CONNECTED over a live handle has a CONNECTED PSP (main.c:233-241
\* against the timeouts and sleeps of main.cpp:180-354).
THEOREM HealthyCorrect == Spec => []HealthyAgreement
<1>1. Init => ControlInv /\ HealthySession
  BY DEF Init, LinkInit, DesktopInit, PspInit, ControlInv, StepMatchesState,
         HandleMatchesState, DashboardHonest, HealthySession, QuietLink
<1>2. TypeOK /\ ControlInv /\ [Next]_vars => ControlInv'
  BY ControlStep
<1>3. TypeOK /\ ControlInv /\ HealthySession /\ [Next]_vars => HealthySession'
  BY HealthyStep
<1>4. ControlInv /\ HealthySession => HealthyAgreement
  BY DEF ControlInv, HandleMatchesState, HealthySession, QuietLink,
         QuietConnected, HealthyAgreement
<1>5. QED
  BY <1>1, <1>2, <1>3, <1>4, TypeCorrect, PTL DEF Spec

-----------------------------------------------------------------------------
(***************************************************************************)
(* The two loops over the link implement the abstract Session, and obey a  *)
(* remote command at most once, for every value of the constants. Both     *)
(* rest on counting the packets of one kind in a pipe.                     *)
(***************************************************************************)
Places(id, s) == {i \in 1..Len(s) : s[i].id = id}

One(b) == IF b THEN 1 ELSE 0

LEMMA CountIs == \A id, s : CountOf(id, s) = Cardinality(Places(id, s))
BY DEF CountOf, Places

LEMMA PlacesFinite ==
    ASSUME NEW id, NEW s \in Seq(Packet)
    PROVE  IsFiniteSet(Places(id, s)) /\ CountOf(id, s) \in Nat
<1>1. Places(id, s) \in SUBSET (1..Len(s))
  BY DEF Places
<1>2. IsFiniteSet(1..Len(s))
  BY FS_Interval
<1>3. IsFiniteSet(Places(id, s))
  BY <1>1, <1>2, FS_Subset
<1>4. QED
  BY <1>3, CountIs, FS_CardinalityType

LEMMA CountAppend ==
    ASSUME NEW id, NEW s \in Seq(Packet), NEW p \in Packet
    PROVE  CountOf(id, Append(s, p)) = CountOf(id, s) + One(p.id = id)
<1> DEFINE n == Len(s) + 1
<1>1. Places(id, Append(s, p)) = IF p.id = id THEN Places(id, s) \cup {n}
                                              ELSE Places(id, s)
  BY DEF Places
<1>2. n \notin Places(id, s)
  BY DEF Places
<1>3. CASE p.id = id
  <2>1. Cardinality(Places(id, s) \cup {n}) = Cardinality(Places(id, s)) + 1
    BY <1>2, PlacesFinite, FS_AddElement
  <2>2. QED
    BY <1>1, <1>3, <2>1, CountIs DEF One
<1>4. CASE p.id # id
  BY <1>1, <1>4, PlacesFinite, CountIs DEF One
<1>5. QED
  BY <1>3, <1>4

LEMMA CountTail ==
    ASSUME NEW id, NEW s \in Seq(Packet), s # <<>>
    PROVE  CountOf(id, s) = CountOf(id, Tail(s)) + One(Head(s).id = id)
<1> DEFINE A == Places(id, Tail(s))
           B == Places(id, s) \ {1}
           f == [i \in A |-> i + 1]
<1>1. Tail(s) \in Seq(Packet) /\ Len(Tail(s)) = Len(s) - 1 /\ Len(s) \in Nat
      /\ Len(s) >= 1
  OBVIOUS
<1>2. \A i \in 1..Len(Tail(s)) : Tail(s)[i] = s[i + 1]
  OBVIOUS
<1>3. f \in [A -> B]
  BY <1>1, <1>2 DEF Places
<1>4. \A i, j \in A : f[i] = f[j] => i = j
  BY DEF Places
<1>5. \A j \in B : \E i \in A : f[i] = j
  <2>1. TAKE j \in B
  <2>2. j - 1 \in A /\ f[j - 1] = j
    BY <1>1, <1>2 DEF Places
  <2>3. QED
    BY <2>2
<1>6. f \in Bijection(A, B)
  BY <1>3, <1>4, <1>5, Fun_IsBij
<1>7. Cardinality(B) = Cardinality(A)
  <2>1. IsFiniteSet(A)
    BY <1>1, PlacesFinite
  <2>2. ExistsBijection(A, B)
    BY <1>6 DEF ExistsBijection
  <2>3. QED
    BY <2>1, <2>2, FS_Bijection
<1>8. Cardinality(B) = IF 1 \in Places(id, s)
                       THEN Cardinality(Places(id, s)) - 1
                       ELSE Cardinality(Places(id, s))
  BY PlacesFinite, FS_RemoveElement
<1>9. 1 \in Places(id, s) <=> Head(s).id = id
  BY <1>1 DEF Places
<1>10. Cardinality(Places(id, s)) \in Nat
  BY PlacesFinite, CountIs
<1>11. QED
  BY <1>7, <1>8, <1>9, <1>10, CountIs DEF One

LEMMA CountEmpty == ASSUME NEW id PROVE CountOf(id, <<>>) = 0
<1>1. Places(id, <<>>) = {}
  BY DEF Places
<1>2. QED
  BY <1>1, FS_EmptySet, CountIs

-----------------------------------------------------------------------------
(***************************************************************************)
(* Commands. A step moves a command from a trigger to the loop, from the   *)
(* loop to the pipe, from the pipe to the PSP, or loses it.                *)
(***************************************************************************)
Sending == {"SendExit", "SendReboot"}

LEMMA PendingNat == Pending \in Nat
BY DEF Pending

\* A step that leaves the triggers alone and does not go to send one.
LEMMA PendingKept ==
    ASSUME UNCHANGED <<trigExit, trigReboot>>,
           dpc' = dpc \/ dpc' \notin Sending
    PROVE  Pending' <= Pending
BY DEF Pending, Sending

LEMMA CommandKept ==
    ASSUME TypeOK, TypeOK', CommandAtMostOnce,
           Pending' <= Pending, UNCHANGED clicks,
           \/ out' = out \/ out' = <<>> \/ (out # <<>> /\ out' = Tail(out))
           \/ \E p \in Packet : p.id # "CONTROL" /\ out' = Append(out, p),
           UNCHANGED obeyed
    PROVE  CommandAtMostOnce'
<1>1. out \in Seq(Packet) /\ obeyed \in Nat /\ clicks \in Nat
  BY DesktopAssumption DEF TypeOK, LinkTypeOK, PspTypeOK, DesktopTypeOK
<1>2. ControlsIn(out') <= ControlsIn(out) /\ ControlsIn(out) \in Nat
      /\ ControlsIn(out') \in Nat
  <2>1. CountOf("CONTROL", out) \in Nat /\ CountOf("CONTROL", out') \in Nat
    BY PlacesFinite DEF TypeOK, LinkTypeOK
  <2>2. CASE out' = out \/ out' = <<>>
    BY <2>1, <2>2, CountEmpty DEF ControlsIn
  <2>3. CASE out # <<>> /\ out' = Tail(out)
    BY <1>1, <2>1, <2>3, CountTail DEF ControlsIn, One
  <2>4. CASE \E p \in Packet : p.id # "CONTROL" /\ out' = Append(out, p)
    BY <1>1, <2>1, <2>4, CountAppend DEF ControlsIn, One
  <2>5. QED
    BY <2>2, <2>3, <2>4
<1>3. Pending \in Nat /\ Pending' \in Nat /\ Pending' <= Pending
  <2>1. Pending \in Nat
    BY PendingNat
  <2>2. Pending' \in Nat
    BY DEF Pending
  <2>3. QED
    BY <2>1, <2>2
<1>4. Pending + ControlsIn(out) + obeyed <= clicks
  BY DEF CommandAtMostOnce
<1>5. Pending' + ControlsIn(out') + obeyed' <= clicks'
  BY <1>1, <1>2, <1>3, <1>4
<1>6. QED
  BY <1>5 DEF CommandAtMostOnce

LEMMA CommandPoll ==
    ASSUME TypeOK, TypeOK', CommandAtMostOnce, PollControl, UNCHANGED pspVars
    PROVE  CommandAtMostOnce'
<1> USE DEF PollControl, At, Goto, ClearExit, ClearReboot
<1>1. Pending' <= Pending
  <2>1. CASE trigExit /\ trigExit' = FALSE /\ UNCHANGED trigReboot
    BY <2>1 DEF Pending
  <2>2. CASE trigReboot /\ trigReboot' = FALSE /\ UNCHANGED trigExit
    BY <2>2 DEF Pending
  <2>3. CASE UNCHANGED <<trigExit, trigReboot>>
                /\ dpc' \in {"Search", "Hello", "Beat"}
    BY <2>3, PendingKept DEF Sending
  <2>4. QED
    BY <2>1, <2>2, <2>3
<1>2. UNCHANGED <<clicks, out, obeyed>>
  BY DEF linkVars, pspVars
<1>3. QED
  BY <1>1, <1>2, CommandKept

LEMMA OneMoves ==
    \A a, b, c, d, m \in Nat : b + 1 = a /\ a + c + d <= m
                              => b + (c + 1) + d <= m
OBVIOUS

\* The command leaves the loop: into the pipe, or nowhere.
LEMMA CommandSent ==
    ASSUME TypeOK, TypeOK', CommandAtMostOnce, UNCHANGED pspVars,
           NEW step \in Sending, NEW c \in 0..2, SendControl(step, c)
    PROVE  CommandAtMostOnce'
<1> DEFINE p == ControlMessage(DesktopVersion, c)
<1>1. out' = out \/ out' = Append(out, p)
  BY HostSendEffect DEF SendControl
<1>2. /\ dpc = step /\ dpc' = "Beat"
      /\ UNCHANGED <<trigExit, trigReboot, clicks, obeyed>>
  BY DEF SendControl, At, Goto, uiVars, pspVars
<1>3. Pending' + 1 = Pending
  BY <1>2 DEF Pending, Sending
<1>4. p \in Packet
  BY MessageType, DesktopAssumption
<1>5. CASE out' = out
  <2>1. Pending' <= Pending
    BY <1>2, PendingKept DEF Sending
  <2>2. QED
    BY <1>2, <1>5, <2>1, CommandKept
<1>6. CASE out' = Append(out, p)
  <2>1. out \in Seq(Packet) /\ obeyed \in Nat /\ clicks \in Nat
    BY DesktopAssumption DEF TypeOK, LinkTypeOK, PspTypeOK, DesktopTypeOK
  <2>2. p.id = "CONTROL"
    BY DEF ControlMessage
  <2>3. ControlsIn(out') = ControlsIn(out) + 1 /\ ControlsIn(out) \in Nat
    BY <1>4, <1>6, <2>1, <2>2, CountAppend, PlacesFinite DEF ControlsIn, One
  <2>4. Pending \in Nat /\ Pending' \in Nat
    BY <1>3, PendingNat DEF Pending
  <2>5. Pending + ControlsIn(out) + obeyed <= clicks
    BY DEF CommandAtMostOnce
  <2>6. Pending' + ControlsIn(out') + obeyed' <= clicks'
    <3>1. Pending' + (ControlsIn(out) + 1) + obeyed <= clicks
      BY <1>3, <2>1, <2>3, <2>4, <2>5, OneMoves
    <3>2. obeyed' = obeyed /\ clicks' = clicks
      BY <1>2
    <3>3. QED
      BY <2>3, <3>1, <3>2
  <2>7. QED
    BY <2>6 DEF CommandAtMostOnce
<1>7. QED
  BY <1>1, <1>5, <1>6

LEMMA CommandClicked ==
    ASSUME TypeOK, TypeOK', CommandAtMostOnce, ClickControl, UNCHANGED pspVars
    PROVE  CommandAtMostOnce'
<1>1. /\ clicks' = clicks + 1 /\ UNCHANGED <<dpc, out, obeyed>>
      /\ \/ trigExit' = TRUE /\ UNCHANGED trigReboot
         \/ trigReboot' = TRUE /\ UNCHANGED trigExit
  BY DEF ClickControl, linkVars, pspVars
<1>2. Pending' <= Pending + 1
  <2>1. CASE trigExit' = TRUE /\ UNCHANGED <<trigReboot, dpc>>
    BY <2>1 DEF Pending
  <2>2. CASE trigReboot' = TRUE /\ UNCHANGED <<trigExit, dpc>>
    BY <2>2 DEF Pending
  <2>3. QED
    BY <1>1, <2>1, <2>2
<1>3. Pending \in Nat /\ Pending' \in Nat
  BY PendingNat DEF Pending
<1>4. ControlsIn(out) \in Nat /\ obeyed \in Nat /\ clicks \in Nat
  <2>1. out \in Seq(Packet) /\ obeyed \in Nat /\ clicks \in Nat
    BY DesktopAssumption DEF TypeOK, LinkTypeOK, PspTypeOK, DesktopTypeOK
  <2>2. QED
    BY <2>1, PlacesFinite DEF ControlsIn
<1>5. Pending + ControlsIn(out) + obeyed <= clicks
  BY DEF CommandAtMostOnce
<1>6. Pending' + ControlsIn(out) + obeyed <= clicks + 1
  BY <1>2, <1>3, <1>4, <1>5
<1>7. QED
  BY <1>1, <1>6 DEF CommandAtMostOnce

\* The sends of the loop that are not commands.
LEMMA CommandData ==
    ASSUME TypeOK, TypeOK', CommandAtMostOnce,
           NEW id \in MessageIds \ {"CONTROL"},
           \/ out' = out \/ out' = Append(out, Message(id, DesktopVersion)),
           UNCHANGED <<trigExit, trigReboot, clicks, obeyed>>,
           dpc' \notin Sending
    PROVE  CommandAtMostOnce'
<1>1. /\ Message(id, DesktopVersion) \in Packet
      /\ Message(id, DesktopVersion).id # "CONTROL"
  BY MessageType, DesktopAssumption DEF Message
<1>2. Pending' <= Pending
  BY PendingKept
<1>3. QED
  BY <1>1, <1>2, CommandKept

LEMMA CommandDesktop ==
    ASSUME TypeOK, TypeOK', CommandAtMostOnce, DesktopAlone, UNCHANGED pspVars
    PROVE  CommandAtMostOnce'
<1> USE DEF At, Goto, uiVars, linkVars, pspVars
<1>1. CASE SendHello
  <2>1. out' = out \/ out' = Append(out, Message("HELLO", DesktopVersion))
    BY <1>1, HostSendEffect DEF SendHello
  <2>2. dpc' \notin Sending
    BY <1>1 DEF SendHello, Disconnect, Sending
  <2>3. "HELLO" \in MessageIds \ {"CONTROL"}
    BY DEF MessageIds
  <2>4. UNCHANGED <<trigExit, trigReboot, clicks, obeyed>>
    BY <1>1 DEF SendHello
  <2>5. QED
    BY <2>1, <2>2, <2>3, <2>4, CommandData
<1>2. CASE SendHeartbeat
  <2>1. out' = out \/ out' = Append(out, Message("HEARTBEAT", DesktopVersion))
    BY <1>2, HostSendEffect DEF SendHeartbeat
  <2>2. dpc' \notin Sending
    BY <1>2 DEF SendHeartbeat, Disconnect, Sending
  <2>3. "HEARTBEAT" \in MessageIds \ {"CONTROL"}
    BY DEF MessageIds
  <2>4. UNCHANGED <<trigExit, trigReboot, clicks, obeyed>>
    BY <1>2 DEF SendHeartbeat
  <2>5. QED
    BY <2>1, <2>2, <2>3, <2>4, CommandData
<1>3. ASSUME NEW step, NEW next \in {"Git", "Notif", "Drain"},
             SendData(step, next)
      PROVE  CommandAtMostOnce'
  <2>1. out' = out \/ out' = Append(out, Message("DATA", DesktopVersion))
    BY <1>3, HostSendEffect DEF SendData
  <2>2. dpc' \notin Sending
    BY <1>3 DEF SendData, GoOn, Disconnect, Sending
  <2>3. "DATA" \in MessageIds \ {"CONTROL"}
    BY DEF MessageIds
  <2>4. UNCHANGED <<trigExit, trigReboot, clicks, obeyed>>
    BY <1>3 DEF SendData
  <2>5. QED
    BY <2>1, <2>2, <2>3, <2>4, CommandData
<1>4. ASSUME UNCHANGED <<trigExit, trigReboot, clicks, obeyed, out>>,
             dpc' = dpc \/ dpc' \notin Sending
      PROVE  CommandAtMostOnce'
  BY <1>4, PendingKept, CommandKept
<1>5. CASE AwaitReply \/ DrainReceive
  BY <1>4, <1>5 DEF AwaitReply, DrainReceive, Disconnect, HostReceives,
                    HostReceiveTimesOut, HostReceiveFails, Sending
<1>6. CASE SearchDevice \/ OpenDevice \/ WakeUp
  BY <1>4, <1>6 DEF SearchDevice, OpenDevice, TransportOpen, WakeUp, Sending
<1>7. CASE DesktopStart \/ Stall \/ Resume
  BY <1>4, <1>7 DEF DesktopStart, Stall, Resume, Sending
<1>8. CASE DesktopCrash
  <2>1. Pending' = 0 /\ UNCHANGED <<clicks, obeyed, out>>
    BY <1>8 DEF DesktopCrash, Pending
  <2>2. QED
    BY <2>1, PendingNat, CommandKept
<1>9. QED
  BY <1>1, <1>2, <1>3, <1>5, <1>6, <1>7, <1>8, CommandPoll, CommandSent,
     CommandClicked
     DEF DesktopAlone, DesktopStep, SendStats, SendGit, SendNotif, Sending

\* A frame takes one packet out of the pipe and obeys it, or does not.
LEMMA CommandFrame ==
    ASSUME TypeOK, TypeOK', CommandAtMostOnce, Frame, UNCHANGED <<dpc, uiVars>>
    PROVE  CommandAtMostOnce'
<1>1. PICK key :
        \/ FrameIdle(key) \/ FrameJunk(key) \/ FramePacket(key)
        \/ FramePayloadLost(key) \/ FrameError(key)
  BY DEF Frame
<1>2. Pending' <= Pending /\ UNCHANGED clicks
  BY PendingKept DEF uiVars
<1>3. CASE FrameIdle(key) \/ FrameJunk(key) \/ FramePayloadLost(key)
             \/ FrameError(key)
  <2>1. UNCHANGED obeyed
    BY <1>3 DEF FrameIdle, FrameJunk, FramePayloadLost, FrameError
  <2>2. out' = out \/ (out # <<>> /\ out' = Tail(out))
    BY <1>3 DEF FrameIdle, FrameJunk, FramePayloadLost, FrameError, linkVars
  <2>3. QED
    BY <1>2, <2>1, <2>2, CommandKept
<1>4. CASE FramePacket(key)
  <2>1. out # <<>> /\ out' = Tail(out)
    BY <1>4 DEF FramePacket
  <2>2. CASE UNCHANGED obeyed
    BY <1>2, <2>1, <2>2, CommandKept
  <2>3. CASE Head(out).id = "CONTROL" /\ obeyed' = obeyed + 1
    <3>1. out \in Seq(Packet) /\ out' \in Seq(Packet)
          /\ obeyed \in Nat /\ clicks \in Nat
      BY DesktopAssumption DEF TypeOK, LinkTypeOK, PspTypeOK, DesktopTypeOK
    <3>2. /\ ControlsIn(out') + 1 = ControlsIn(out)
          /\ ControlsIn(out) \in Nat /\ ControlsIn(out') \in Nat
      BY <2>1, <2>3, <3>1, CountTail, PlacesFinite DEF ControlsIn, One
    <3>3. Pending' = Pending /\ Pending \in Nat
      BY PendingNat DEF uiVars, Pending
    <3>4. Pending + ControlsIn(out) + obeyed <= clicks
      BY DEF CommandAtMostOnce
    <3>5. Pending' + ControlsIn(out') + obeyed' <= clicks'
      BY <1>2, <2>3, <3>1, <3>2, <3>3, <3>4
    <3>6. QED
      BY <3>5 DEF CommandAtMostOnce
  <2>4. QED
    BY <1>4, <2>2, <2>3 DEF FramePacket
<1>5. QED
  BY <1>1, <1>3, <1>4

LEMMA CommandDevice ==
    ASSUME TypeOK, TypeOK', CommandAtMostOnce, PspFrame \/ PspAlone,
           UNCHANGED <<dpc, uiVars>>
    PROVE  CommandAtMostOnce'
<1>1. ASSUME out' = out \/ out' = <<>>, UNCHANGED obeyed
      PROVE  CommandAtMostOnce'
  BY <1>1, PendingKept, CommandKept DEF uiVars
<1>2. ASSUME NEW resident, LeaveGame(resident)
      PROVE  CommandAtMostOnce'
  BY <1>1, <1>2 DEF LeaveGame, Detach
<1>3. CASE PspAlone
  BY <1>1, <1>3 DEF PspAlone, PspLaunch, Unplug, Plug, Detach, pspVars
<1>4. QED
  BY <1>2, <1>3, CommandFrame DEF PspFrame, ExitToMenu, ColdReset

LEMMA CommandStep ==
    ASSUME TypeOK, TypeOK', CommandAtMostOnce, [Next]_vars
    PROVE  CommandAtMostOnce'
<1>1. ASSUME UNCHANGED <<linkVars, pspVars, dpc, uiVars>>
      PROVE  CommandAtMostOnce'
  BY <1>1, PendingKept, CommandKept DEF linkVars, pspVars, uiVars
<1>2. CASE Tick
  <2>1. UNCHANGED <<dpc, uiVars>>
    BY <1>2 DEF Tick, DesktopClock
  <2>2. QED
    BY <1>1, <1>2, <2>1, CommandDevice DEF Tick
<1>3. CASE DesktopAlone /\ UNCHANGED pspVars
  BY <1>3, CommandDesktop
<1>4. CASE PspAlone /\ UNCHANGED desktopVars
  BY <1>4, CommandDevice DEF desktopVars, uiVars
<1>5. CASE UNCHANGED vars
  BY <1>1, <1>5 DEF vars, desktopVars, uiVars
<1>6. QED
  BY <1>2, <1>3, <1>4, <1>5 DEF Next

\* A click on the dashboard (http_server.cpp) is obeyed by the PSP (main.c) at
\* most once, whatever is lost, retried or restarted in between.
THEOREM CommandCorrect == Spec => []CommandAtMostOnce
<1>1. Init => CommandAtMostOnce
  BY CountEmpty DEF Init, LinkInit, DesktopInit, PspInit, CommandAtMostOnce,
                    Pending, ControlsIn
<1>2. TypeOK /\ TypeOK' /\ CommandAtMostOnce /\ [Next]_vars
        => CommandAtMostOnce'
  BY CommandStep
<1>3. QED
  BY <1>1, <1>2, TypeCorrect, PTL DEF Spec

-----------------------------------------------------------------------------
(***************************************************************************)
(* The refinement: every step of the two loops is a step of Session, or    *)
(* changes nothing that Session sees.                                      *)
(***************************************************************************)
SessionStep == [Agreement!Next]_(Agreement!vars)

LEMMA PipeTypes ==
    ASSUME TypeOK
    PROVE  /\ out \in Seq(Packet) /\ in \in Seq(Packet)
           /\ CountOf("HELLO", out) \in Nat /\ Len(in) \in Nat
BY PlacesFinite DEF TypeOK, LinkTypeOK

\* A send of the loop is an offer exactly if it is a HELLO.
LEMMA HelloAppended ==
    ASSUME TypeOK, NEW p \in Packet, out' = Append(out, p)
    PROVE  CountOf("HELLO", out') = CountOf("HELLO", out) + One(p.id = "HELLO")
BY PipeTypes, CountAppend

LEMMA MessageIs ==
    /\ \A id : Message(id, DesktopVersion).id = id
    /\ \A c : ControlMessage(DesktopVersion, c).id = "CONTROL"
    /\ \A id \in MessageIds : Message(id, DesktopVersion) \in Packet
    /\ \A c \in 0..2 : ControlMessage(DesktopVersion, c) \in Packet
BY MessageType, DesktopAssumption DEF Message, ControlMessage

\* Steps of the loop that put no HELLO into the pipe.
LEMMA SessionQuiet ==
    ASSUME TypeOK, UNCHANGED <<pspVersion, pState, in>>,
           \/ out' = out
           \/ \E p \in Packet : p.id # "HELLO" /\ out' = Append(out, p),
           dState' = dState \/ dState' = "DISCONNECTED"
    PROVE  SessionStep
<1>1. CountOf("HELLO", out') = CountOf("HELLO", out)
  BY HelloAppended, PipeTypes DEF One
<1>2. CASE dState' = dState
  BY <1>1, <1>2 DEF SessionStep, Agreement!vars
<1>3. CASE dState' = "DISCONNECTED"
  BY <1>1, <1>3 DEF SessionStep, Agreement!Next, Agreement!HostLeaves
<1>4. QED
  BY <1>2, <1>3

LEMMA SessionReplies ==
    ASSUME TypeOK, HostReceives, UNCHANGED <<pspVersion, pState>>,
           \/ dState' = dState
           \/ dState = "HANDSHAKING" /\ dState' = "CONNECTED"
    PROVE  SessionStep
<1>1. /\ in # <<>> /\ in' = Tail(in) /\ out' = out
  BY DEF HostReceives
<1>2. Len(in) > 0 /\ Len(in') = Len(in) - 1
  BY <1>1, PipeTypes
<1>3. CASE dState' = dState
  BY <1>1, <1>2, <1>3 DEF SessionStep, Agreement!Next, Agreement!ReplyIgnored
<1>4. CASE dState = "HANDSHAKING" /\ dState' = "CONNECTED"
  BY <1>1, <1>2, <1>4 DEF SessionStep, Agreement!Next, Agreement!Accept
<1>5. QED
  BY <1>3, <1>4

LEMMA SessionDesktop ==
    ASSUME TypeOK, StepMatchesState, DesktopAlone, UNCHANGED pspVars
    PROVE  SessionStep
<1> USE DEF At, linkVars, pspVars
<1>1. ASSUME NEW step, NEW c \in 0..2, SendControl(step, c)
      PROVE  SessionStep
  <2>1. out' = out \/ out' = Append(out, ControlMessage(DesktopVersion, c))
    BY <1>1, HostSendEffect DEF SendControl
  <2>2. UNCHANGED <<in, dState>>
    BY <1>1, HostSendEffect DEF SendControl
  <2>3. QED
    BY <2>1, <2>2, MessageIs, SessionQuiet
<1>2. CASE SendHello
  <2>1. dState = "HANDSHAKING" /\ in' = in
    BY <1>2, HostSendEffect DEF SendHello, StepMatchesState
  <2>2. dState' = "HANDSHAKING" \/ dState' = "DISCONNECTED"
    BY <1>2, <2>1 DEF SendHello, Disconnect
  <2>3. out' = out \/ out' = Append(out, Message("HELLO", DesktopVersion))
    BY <1>2, HostSendEffect DEF SendHello
  <2>4. CASE out' = out
    BY <2>1, <2>2, <2>4, SessionQuiet
  <2>5. CASE out' = Append(out, Message("HELLO", DesktopVersion))
    <3>1. CountOf("HELLO", out') = CountOf("HELLO", out) + 1
      BY <2>5, MessageIs, HelloAppended DEF One, MessageIds
    <3>2. QED
      BY <2>1, <2>2, <3>1 DEF SessionStep, Agreement!Next, Agreement!Offer
  <2>6. QED
    BY <2>3, <2>4, <2>5
<1>3. CASE SendHeartbeat
  <2>1. out' = out \/ out' = Append(out, Message("HEARTBEAT", DesktopVersion))
    BY <1>3, HostSendEffect DEF SendHeartbeat
  <2>2. in' = in /\ (dState' = dState \/ dState' = "DISCONNECTED")
    BY <1>3, HostSendEffect DEF SendHeartbeat, Disconnect
  <2>3. QED
    BY <2>1, <2>2, MessageIs, SessionQuiet DEF MessageIds
<1>4. ASSUME NEW step, NEW next, SendData(step, next)
      PROVE  SessionStep
  <2>1. out' = out \/ out' = Append(out, Message("DATA", DesktopVersion))
    BY <1>4, HostSendEffect DEF SendData
  <2>2. in' = in /\ (dState' = dState \/ dState' = "DISCONNECTED")
    BY <1>4, HostSendEffect DEF SendData, Disconnect
  <2>3. QED
    BY <2>1, <2>2, MessageIs, SessionQuiet DEF MessageIds
<1>5. CASE AwaitReply
  <2>1. dState = "HANDSHAKING"
    BY <1>5 DEF AwaitReply, StepMatchesState
  <2>2. CASE HostReceives
    BY <1>5, <2>1, <2>2, SessionReplies
       DEF AwaitReply, HostReceives, HostReceiveTimesOut, HostReceiveFails
  <2>3. CASE ~HostReceives
    BY <1>5, <2>3, SessionQuiet
       DEF AwaitReply, HostReceiveTimesOut, HostReceiveFails, Disconnect
  <2>4. QED
    BY <2>2, <2>3
<1>6. CASE DrainReceive
  <2>1. CASE HostReceives /\ UNCHANGED dState
    BY <2>1, SessionReplies
  <2>2. CASE ~(HostReceives /\ UNCHANGED dState)
    BY <1>6, <2>2, SessionQuiet
       DEF DrainReceive, HostReceiveTimesOut, HostReceiveFails, Disconnect
  <2>3. QED
    BY <2>1, <2>2
<1>7. CASE OpenDevice
  <2>1. UNCHANGED <<out, in>> /\ dState = "DISCONNECTED"
        /\ (dState' = dState \/ dState' = "HANDSHAKING")
    BY <1>7 DEF OpenDevice, TransportOpen, StepMatchesState
  <2>2. CASE dState' = dState
    BY <2>1, <2>2, SessionQuiet
  <2>3. CASE dState' = "HANDSHAKING"
    BY <2>1, <2>3 DEF SessionStep, Agreement!Next, Agreement!Begin
  <2>4. QED
    BY <2>1, <2>2, <2>3
<1>8. CASE PollControl \/ SearchDevice \/ WakeUp
  BY <1>8, SessionQuiet DEF PollControl, SearchDevice, WakeUp
<1>9. CASE ClickControl \/ DesktopStart \/ Resume
  BY <1>9, SessionQuiet DEF ClickControl, DesktopStart, Resume
<1>10. CASE DesktopCrash \/ Stall
  BY <1>10, SessionQuiet DEF DesktopCrash, Stall
<1>11. QED
  BY <1>1, <1>2, <1>3, <1>4, <1>5, <1>6, <1>7, <1>8, <1>9, <1>10
     DEF DesktopAlone, DesktopStep, SendStats, SendGit, SendNotif

\* The watchdog only ever leaves a session.
LEMMA WatchdogLeaves ==
    ASSUME NEW s, NEW t, Watchdog(s, t)
    PROVE  pState' = s \/ pState' = "DISCONNECTED"
BY DEF Watchdog

\* A packet just read leaves the watchdog a frame or more.
LEMMA WatchdogSpares ==
    ASSUME NEW s, Watchdog(s, Rearmed)
    PROVE  pState' = s
BY LinkAssumption, DesktopAssumption, TimingAssumption, PspAssumption
   DEF Watchdog, Rearmed

LEMMA SessionFrameTakes ==
    ASSUME TypeOK, out # <<>>, out' = Tail(out), in' = in,
           UNCHANGED <<pspVersion, dState>>,
           pState' = pState \/ pState' = "DISCONNECTED"
    PROVE  SessionStep
<1>1. CountOf("HELLO", out') = CountOf("HELLO", out)
      \/ /\ CountOf("HELLO", out) > 0
         /\ CountOf("HELLO", out') = CountOf("HELLO", out) - 1
  <2>1. CountOf("HELLO", out) = CountOf("HELLO", out')
                                  + One(Head(out).id = "HELLO")
    BY PipeTypes, CountTail
  <2>2. out' \in Seq(Packet)
    BY PipeTypes
  <2>3. CountOf("HELLO", out') \in Nat
    BY <2>2, PlacesFinite
  <2>4. QED
    BY <2>1, <2>3 DEF One
<1>2. CASE CountOf("HELLO", out') # CountOf("HELLO", out)
  BY <1>1, <1>2 DEF SessionStep, Agreement!Next, Agreement!OfferIgnored
<1>3. CASE CountOf("HELLO", out') = CountOf("HELLO", out) /\ pState' = pState
  BY <1>3 DEF SessionStep, Agreement!vars
<1>4. CASE CountOf("HELLO", out') = CountOf("HELLO", out)
             /\ pState' = "DISCONNECTED"
  BY <1>4 DEF SessionStep, Agreement!Next, Agreement!PspLeaves
<1>5. QED
  BY <1>2, <1>3, <1>4

LEMMA SessionFrame ==
    ASSUME TypeOK, PacketsVersioned, Frame, UNCHANGED dState
    PROVE  SessionStep
<1>1. PICK key :
        \/ FrameIdle(key) \/ FrameJunk(key) \/ FramePacket(key)
        \/ FramePayloadLost(key) \/ FrameError(key)
  BY DEF Frame
<1>2. UNCHANGED pspVersion
  BY DEF Frame
<1>3. CASE FrameIdle(key) \/ FrameError(key)
  <2>1. UNCHANGED <<out, in>>
    BY <1>3 DEF FrameIdle, FrameError, linkVars
  <2>2. pState' = pState \/ pState' = "DISCONNECTED"
    BY <1>3, WatchdogLeaves DEF FrameIdle, FrameError
  <2>3. CASE pState' = pState
    BY <1>2, <2>1, <2>3 DEF SessionStep, Agreement!vars
  <2>4. CASE pState' = "DISCONNECTED"
    BY <1>2, <2>1, <2>4 DEF SessionStep, Agreement!Next, Agreement!PspLeaves
  <2>5. QED
    BY <2>2, <2>3, <2>4
<1>4. CASE FrameJunk(key) \/ FramePayloadLost(key)
  <2>1. pState' = pState \/ pState' = "DISCONNECTED"
    BY <1>4, WatchdogLeaves DEF FrameJunk, FramePayloadLost
  <2>2. QED
    BY <1>2, <1>4, <2>1, SessionFrameTakes DEF FrameJunk, FramePayloadLost
<1>5. CASE FramePacket(key)
  <2>1. out # <<>> /\ out' = Tail(out)
    BY <1>5 DEF FramePacket
  <2>2. CASE Watchdog(pState, Rearmed) /\ UNCHANGED in
    BY <1>2, <2>1, <2>2, WatchdogLeaves, SessionFrameTakes
  <2>3. CASE Watchdog("DISCONNECTED", Rearmed) /\ UNCHANGED in
    BY <1>2, <2>1, <2>3, WatchdogLeaves, SessionFrameTakes
  <2>4. CASE /\ pState = "DISCONNECTED" /\ Acceptable(Head(out))
             /\ in' = Append(in, Message("HELLO", pspVersion))
             /\ Watchdog("CONNECTED", Rearmed)
    <3>1. pState' = "CONNECTED"
      BY <2>4, WatchdogSpares
    <3>2. Len(in') = Len(in) + 1
      BY <2>4, PipeTypes
    <3>3. Head(out).id = "HELLO" /\ pspVersion = DesktopVersion
      <4>1. Head(out).id = "HELLO" /\ Head(out).ver = pspVersion
        BY <2>4 DEF Acceptable
      <4>2. Head(out).ver = DesktopVersion
        <5>1. Head(out) \in DesktopPacket
          BY <2>1, TailType DEF PacketsVersioned
        <5>2. QED
          BY <5>1 DEF DesktopPacket
      <4>3. QED
        BY <4>1, <4>2
    <3>4. /\ CountOf("HELLO", out') \in Nat
          /\ CountOf("HELLO", out) = CountOf("HELLO", out') + 1
      <4>1. out' \in Seq(Packet)
        BY <2>1, PipeTypes
      <4>2. QED
        BY <2>1, <3>3, <4>1, PipeTypes, CountTail, PlacesFinite DEF One
    <3>5. QED
      BY <1>2, <2>4, <3>1, <3>2, <3>3, <3>4 DEF SessionStep, Agreement!Next, Agreement!Grant
  <2>5. QED
    BY <1>5, <2>2, <2>3, <2>4, Zenon DEF FramePacket
<1>6. QED
  BY <1>1, <1>3, <1>4, <1>5

LEMMA SessionDevice ==
    ASSUME TypeOK, PacketsVersioned, PspFrame \/ PspAlone, UNCHANGED dState
    PROVE  SessionStep
<1>1. ASSUME UNCHANGED <<pspVersion, out, in>>,
             pState' = pState \/ pState' = "DISCONNECTED"
      PROVE  SessionStep
  <2>1. CASE pState' = pState
    BY <1>1, <2>1 DEF SessionStep, Agreement!vars
  <2>2. CASE pState' = "DISCONNECTED"
    BY <1>1, <2>2 DEF SessionStep, Agreement!Next, Agreement!PspLeaves
  <2>3. QED
    BY <1>1, <2>1, <2>2
<1>2. ASSUME UNCHANGED pspVersion, Detach,
             pState' = pState \/ pState' = "DISCONNECTED"
      PROVE  SessionStep
  <2>1. CountOf("HELLO", out') = 0 /\ Len(in') = 0
    BY <1>2, CountEmpty DEF Detach
  <2>2. QED
    BY <1>2, <2>1 DEF SessionStep, Agreement!Next, Agreement!Flushed
<1>3. ASSUME NEW resident, LeaveGame(resident)
      PROVE  SessionStep
  BY <1>1, <1>2, <1>3 DEF LeaveGame
<1>4. CASE PspLaunch \/ Plug
  BY <1>1, <1>4 DEF PspLaunch, Plug, pspVars
<1>5. CASE Unplug
  BY <1>2, <1>5 DEF Unplug, pspVars
<1>6. QED
  BY <1>3, <1>4, <1>5, SessionFrame
     DEF PspFrame, PspAlone, ExitToMenu, ColdReset

LEMMA SessionRefined ==
    ASSUME TypeOK, StepMatchesState, PacketsVersioned, [Next]_vars
    PROVE  SessionStep
<1>1. ASSUME UNCHANGED <<linkVars, pspVars, dState>>
      PROVE  SessionStep
  BY <1>1 DEF SessionStep, Agreement!vars, linkVars, pspVars
<1>2. CASE Tick
  <2>1. UNCHANGED dState
    BY <1>2 DEF Tick, DesktopClock
  <2>2. QED
    BY <1>1, <1>2, <2>1, SessionDevice DEF Tick
<1>3. CASE DesktopAlone /\ UNCHANGED pspVars
  BY <1>3, SessionDesktop
<1>4. CASE PspAlone /\ UNCHANGED desktopVars
  BY <1>4, SessionDevice DEF desktopVars
<1>5. CASE UNCHANGED vars
  BY <1>1, <1>5 DEF vars, desktopVars
<1>6. QED
  BY <1>2, <1>3, <1>4, <1>5 DEF Next

\* The two loops implement the abstract session (Session.tla): whatever the
\* cable, the operating systems and the dashboard's user do, the PSP becomes
\* CONNECTED only by answering a HELLO (main.c:195-215), and the desktop only
\* by consuming such an answer (main.cpp:156-168).
THEOREM SessionCorrect == Spec => SessionImplemented
<1>1. Init => Agreement!Init
  BY CountEmpty DEF Init, LinkInit, DesktopInit, PspInit, Agreement!Init
<1>2. TypeOK /\ ControlInv /\ VersionInv /\ [Next]_vars => [Agreement!Next]_(Agreement!vars)
  BY SessionRefined DEF SessionStep, ControlInv, VersionInv
<1>3. QED
  BY <1>1, <1>2, TypeCorrect, ControlAlways, VersionAlways, PTL
     DEF Spec, SessionImplemented, Agreement!Spec
=============================================================================
