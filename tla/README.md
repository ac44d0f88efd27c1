# PSP DevLink: TLA+ models, model checking and proofs

PSP DevLink joins a desktop program and a Sony PSP over USB. The desktop
searches for the PSP, shakes hands, and then sends heartbeats, system
statistics, git status, notifications and remote commands; the PSP shows them
on its screen. This directory holds TLA+ modules of the system, the TLC
configurations that check them, and TLAPS proofs of the properties that matter
most. Paths below are relative to the repository.

    tlasany DevLink.tla
    tlc -workers 2 -config DevLink.cfg MCDevLink.tla
    tlapm DevLink_proofs.tla

## The system

| Component | Source | State | Operations |
|---|---|---|---|
| Desktop transport | `apps/desktop/src/transport_usb.cpp` | `g_usb_handle` | initialize, send, receive (5 s timeout each), shutdown |
| Desktop main loop | `apps/desktop/src/main.cpp` | `state`, five timers | search, handshake, heartbeat, three payloads, drain, sleep |
| HTTP dashboard | `apps/desktop/src/http_server.cpp` | connection state, telemetry, log, two command triggers | status, config, control; a thread of its own |
| Configuration | `apps/desktop/src/config_service.cpp` | intervals and switches, `config.ini` | load, save |
| Notification service | `apps/desktop/src/notification_service.cpp` | queue, parser state | D-Bus listener thread, `get_latest` |
| Git, system service | `git_service.cpp`, `system_service.cpp` | last CPU sample | `get_metrics`, git through `popen` |
| PSP main loop | `apps/psp/src/main.c` | `state`, `ticks_since_last_packet`, edge flags | one frame: pad, receive, handshake or route, watchdog, render |
| PSP router | `apps/psp/src/message_router.c` | latest payloads, `g_remote_command` | `router_dispatch` |
| PSP transport | `apps/psp/src/transport_usb.c` | file descriptor, mock mode | initialize, send, receive (do not block), shutdown (does nothing) |
| PSP driver | `apps/psp/driver/pspdl_driver_kernel.c` | registration, request buffers | ioctls, start and stop |
| PSP screen | `apps/psp/src/ui.c` | history, popup | add, toggle, clear, dismiss, render |
| Protocol | `shared/protocol` | none | headers and payloads to bytes and back |

The two programs share nothing but the USB pipes. The desktop's main loop and
its HTTP thread share the connection state (a mutex), the triggers (atomics)
and the configuration (nothing). The PSP program is one thread.

What is hard here, and what correctness means:

* **Session agreement.** Each side has its own idea of the session and loses it
  in its own way: the desktop by a failed transfer, the PSP by a frame-counting
  watchdog or a receive error. A side that gives up does not tell the other.
  In a healthy session both must be CONNECTED; a lost peer must be noticed.
* **Timing.** A connected pass ends with a receive to which the PSP never
  answers, so it waits out the 5 s timeout: heartbeats go out about every
  5.1 s, not every 2 s as their own timer says. The watchdog must be longer.
* **Handle discipline.** Seven failure paths must release the handle.
* **Versions.** Only the PSP compares them.
* **Remote commands.** Two triggers set by another thread, consumed by the loop,
  sent without looking at the result; a command must not be carried out twice.
* **Faults.** Cable, kill and restart of the desktop, exit of the PSP program
  with or without its driver staying resident, transfer errors, lost payloads
  that leave the byte stream off a packet boundary, a `git` that hangs.
* **Bytes.** A packet is split by the bus and read in pieces; there is no
  checksum, and the PSP must find back to a packet boundary. Every field goes
  through bytes and back, and all payloads through one buffer.
* **The PSP's driver.** Six firmware calls of the start-up can be refused, and
  what an earlier launch left behind is found by the next. A request may be
  completed after the ioctl that made it, and all use one transmit buffer.
* **One client at a time.** The server reads a request with one `recv` without a
  timeout, and puts texts into its JSON as they are.
* **Notifications.** A parser over another program's text, a pipe that is polled
  below a buffer that reads ahead, a queue, and a send that may fail.
* **The dashboard.** A server thread beside the loop; a page that polls on a
  timer, whatever has become of earlier polls; a log with a limit; settings that
  live in the page, in memory and in a file that is rewritten in place.
* **Screen.** One button with two meanings, a bounded history, a popup that
  ages, and texts of any length on 68 columns.

## Modules

    UsbLink          the pipes, the handle, one operator per transport call
      DesktopLoop    main.cpp, the dashboard's triggers and connection state
      PspLoop        main.c, the session part of router_dispatch
        DevLink      both over one link, time, fairness, the properties
          MCDevLink  for TLC
    Session          what the two loops promise each other; DevLink implements it
    Framing          the bytes of the OUT pipe, split and read in pieces
    Codec            packets and payloads to bytes and back, one receive buffer
    PspDriver        the PSP's start-up and kernel driver over several launches
    NotifPipeline    dbus-monitor, the parser, the queue, the way to the screen
    StatusPage       the loop, the HTTP server and the page: state, metrics, log
    Settings         the page's widgets, the configuration and config.ini
      SettingsLoop   the main loop as their reader
    PspUi            ui.c's notifications: history and popup
      Layout         where ui_render puts its texts

    DevLink_proofs, Framing_proofs, Codec_proofs, PspDriver_proofs,
    NotifPipeline_proofs, StatusPage_proofs, Settings_proofs: each about the
    module it is named after, the last also about SettingsLoop; PspScreen_proofs
    about PspUi and Layout

Each of the others has its `MC...` module for TLC.

**UsbLink.** `out` and `in` are the bulk pipes as sequences of packets, `handle`
is `g_usb_handle` ("gone" is a non-null handle on a device that left),
`attached` says the device enumerates. A packet is its message id, version and
command byte; the three payload kinds are one id, `DATA`, since no step tells
them apart. `HostSend` and the three receive outcomes are `transport_send` and
`transport_receive` with every return path, among them a send that reports an
error although the packet arrived, and a receive that reports OK with no bytes.
`skew` abstracts the byte stream: after a lost payload the PSP may read headers
from the middle of something.

**DesktopLoop.** `dpc` is the statement the loop is at. `PollControl`,
`SearchDevice`, `OpenDevice`, `SendHello`, `AwaitReply`, `SendHeartbeat`,
`SendStats`, `SendGit`, `SendNotif`, `DrainReceive` and `WakeUp` are the
statements of a pass in their order; each failure path is the action
`Disconnect` in the step that has it. `ClickControl` is the HTTP thread.
`busy` is the time the present statement has taken; `MayWait` says which
statements can take time at all, and `DesktopClock` lets it pass. The timers
of HELLO and heartbeat restart from the time at which the pass read the clock
(`now`), not from the end of the send, hence `Capped(busy, ...)`.

**PspLoop.** One frame is one action, because its transport calls do not
block: `FrameIdle`, `FrameJunk`, `FramePacket`, `FramePayloadLost`,
`FrameError` are the ways through the receive, each ending with `Watchdog`;
`ExitToMenu` and `ColdReset` are the ways out. `PspLaunch` covers
`transport_initialize` and its mock mode.

**DevLink.** A `Tick` is one PSP frame and one unit of desktop time: the
desktop must be in a statement that takes time (`MayWait`) and the PSP, if it
runs, does a frame. Everything else the desktop does happens between two ticks.

**PspUi.** One frame is the composition of the calls it makes: pad edges,
`CirclePress`, `AddNotification`, `Age`. A notification stands for its three
strings; `Empty` is one with an empty `app_name`.

**Session.** The abstract promise: an offer by the desktop, a grant by the PSP,
acceptance by the desktop, and either side leaving whenever it wants. Its state
is a function of DevLink's (`Agreement` in `DevLink`): the two loops' states, the
number of HELLOs in the OUT pipe and of replies in the IN pipe, whether the
versions agree.

**Framing.** What `UsbLink` abstracts to "a packet" and `skew`: the desktop hands
header and payload to one bulk transfer (`BeginSend`), the controller delivers it
one USB packet at a time (`Deliver`), the PSP reads a header in one call
(`ReadHeader`) and the payload in up to `MaxTries` (`ReadPayload`,
`WaitPayload`). A unit of the stream knows its packet and its place in it; a
header is recognised by its first unit.

**Codec.** The serialisers and deserialisers byte by byte, with the widths, the
little-endian order, the offsets, the cuts and the terminators of the C code. A
behaviour is any sequence of packets through the PSP's one payload buffer, with
junk among them (`Misread`).

**PspDriver.** `app` is where `transport_initialize` is; each firmware call is a
step that may be refused (`Outcome`), the start of the bus and that of the driver
each by itself, and `Exit` may end the program at each of them, since the thread
of `exit_callback` runs before them. Nothing is released by it. What the firmware
then takes apart is its own choice: `TakeOffBus`, `StopUsb` (which calls
`stop_func`) and `Unload` (which runs `module_stop`) may happen or not, in the only
order the files rely on. `module_stop` does not look at the result of
`sceUsbbdUnregister`: `kept` counts the drivers the USB stack did not let go.
`IoctlSend` copies a packet to the transmit buffer and is completed at once, leaves
a request behind or is refused; `CompleteSend` is the USB stack. The `RECV` ioctl
belongs to `Framing`; `PSPDL_IOCTL_SHUTDOWN` is sent by nobody.

**NotifPipeline.** `PrintLine` is dbus-monitor, `kernel` the pipe that `select`
looks at, `stdio` what `fgets` has read ahead. `ReadLine` is the parser's step for
one line; a string it finds no value in (empty, or continued on another line) is
a gap. `GiveUpMonitor` and `SelectFails` are the ways to simulated notifications
(`PushMock`), besides an `Init` without a pipe; in `pclose` the listener waits for
dbus-monitor, which ends at the next line it prints. `SendNext` takes one entry of
the queue in a pass of the main loop, and `PspFrame` shows it or, on a PSP that is
DISCONNECTED or does not get the payload, discards it. `dropped` and `discarded`
count what is lost on the way.

**StatusPage.** The loop's locked calls into `HttpServer` one at a time (`Call`),
the server's thread (`HandleClient`), clients that connect, send nothing and hold
it in `recv` until they leave (`Connect`, `HangUp`), the page's polls and answers,
several under way at once and in any order (`FetchStatus`, `ShowAnswer`), and its
log cursor. A notification in the log and the branch are plain texts or quoted
ones; an answer that holds a quoted one is not `Parsable`, and the page ignores it.

**Settings.** A change on the page posts all widgets (`SubmitConfig`), an answer
to a poll fills those without focus (`Refresh`), unless the page cannot parse it.
The server's thread takes a request (`TakeRequest`), with its settings or, if they
had not arrived by the one `recv`, without; sets the fields one by one (`SetField`)
and saves. `BeginSave` and `EndSave` are the two ends of `save`, between which the
file is empty and the process may be killed (`Crash`), and `SaveFails` is a `save`
that cannot open it; `Start` is the constructor and `load`.

**SettingsLoop.** A pass of the main loop reads the fields one by one and in any
order (`ReadField`), without a lock, while `Settings` goes on (`Meanwhile`). An
aligned field is read as it was before or after its write.

**Layout.** Every text of `ui_render` as row, column and length, depending on the
lengths of what was received; `Page` is the set of all texts of a frame. It
extends `PspUi`, whose frame decides on drawer and popup.

## Runs

| Run | Configuration | Checks | Distinct states |
|---|---|---|---|
| `session` | `DevLink.cfg` | six invariants of the session, the refinement of `Session`, four liveness properties | 409 thousand |
| `reconnect` | `DevLinkReconnect.cfg` | `Reconnects`, violated | |
| `psp_screen` | `PspUi.cfg` | five invariants, an action property, a liveness property | 23 thousand |
| `framing` | `Framing.cfg` | three invariants, a liveness property | 97 thousand |
| `framing_cut` | `FramingCut.cfg` | `ChecksumValidated`, violated | |
| `codec` | `Codec.cfg` | an invariant | 57 646 |
| `psp_driver` | `PspDriver.cfg` | four invariants | 401 thousand |
| `psp_shutdown` | `PspShutdown.cfg` | `ReleasedBeforeTermination`, violated | |
| `notifications` | `Notifications.cfg` | three invariants, a liveness property | 105 thousand |
| `notif_icon` | `NotifIcon.cfg` | `IconSkipped`, violated | |
| `status_page` | `StatusPage.cfg` | two invariants, two liveness properties | 726 thousand |
| `settings` | `Settings.cfg` | three invariants, an action property, a liveness property | 1.2 million |

*Session.* Safety: `HandleMatchesState` (handle held exactly in a session),
`DashboardHonest` (what the dashboard shows), `VersionGate` (no session across
versions), `CommandAtMostOnce` (commands pending, in flight and obeyed never
exceed clicks), `HealthyAgreement` (without faults the desktop and the PSP
agree), `SessionImplemented` (every step is one of `Session` or none). Liveness:
`DeadDesktopNoticed`, `DeadDeviceNoticed`, `HandshakeCompletes`,
`ExitCarriedOut`.

*Screen.* `PopupIsNewest`, `NoAdjacentDuplicates`, `DismissKeepsHistory`,
`PopupExpires`; `TextsApart` (no text overwrites another, but side borders are
overwritten by a branch that is too long), `NotificationsFit` (a notification
stays in its row, ends in dots exactly when it was cut, and in the popup reaches
the border only with a long title or text).

*Stream and bytes.* `AcceptedIntact` (what is acted on is a packet as sent),
`NothingLost`, `Realigns` (the stream finds back to a boundary); `Delivered` (what
the router stores is what was sent, cut to what fits). `TypeOK` of `Framing` has
the bound of the payload buffer.

*Driver.* `StackHoldsDriver` (the USB stack holds the module's driver once, and
besides only those it refused to let go), `FlagOwned` (no callback sets a deleted
event flag, none is leaked), `CleanLaunchWorks` (wherever earlier launches ended, a
launch that is refused nothing works, unless one ended between loading the module
and starting it), `SentNeverOlder` (late requests send what is newer, never older).

*Notifications.* `FieldsTogether` (no mixture of two calls), `OnceInOrder`,
`LostOnlyByFailure` (the queue is the newest notifications, and those that left it
are shown, on their way, or counted as lost), `ForwardedByNext`.

*Page.* `ShownOnceInOrder`, `NothingSkipped`, `LogReachesPage` (every entry of the log
comes to be on the page), `PageFollows` (the page settles on what the desktop shows).

*Settings.* `SavedSurvives`: a start comes up with what was last saved, or with the
defaults. A save that cannot open the file loses only what it was saving; a kill
inside `save` loses everything saved before as well, because the file is empty by
then. `NeverMixed` (settings of two posts are in force together only while the
second is being set, and are never saved), `AdjustmentsSaved` (the last choices are
in the file), `WidgetsFollow`; `ReadTogether` (a pass without a request being set in
it reads settings that belong together).

The definitions marked "Seeded fault" are plausible bugs, at least one for
every property of a run: replacing the definition after them by the fault makes TLC find the
property violated. `WatchdogAsCommented` is one of them: the comment beside the
watchdog says `5 seconds (500 * 10ms)`, and a watchdog that really allowed only
5 s would break healthy sessions. The build is saved by the frame being longer
than its 10 ms delay: rendering waits for a vertical blank, so 500 frames take
at least 8.3 s.

### What the violated runs show

`Reconnects` states `docs/architecture/system_lifecycle.md:115`: "The system
should return to the Connected state automatically after successful
reconnection."

* *Restart of the desktop.* The PSP is still CONNECTED and ignores a HELLO
  (`main.c:195`), but the HELLO resets its watchdog (`main.c:149`). The desktop
  repeats HELLO every 5.1 s, more often than the watchdog fires. Both sides
  stay where they are until the cable is pulled or the PSP program is left.
* *A long stall of the desktop.* A `git` that hangs for longer than the
  watchdog leaves the PSP DISCONNECTED and the desktop CONNECTED. The PSP
  discards all but HELLO, the desktop sends no HELLO: they never meet again.

Both use `FairSpec`, one fault each and nothing else. The run allows either fault
and stops at the first counterexample; with `FaultKinds = {"crash"}` or
`FaultKinds = {"stall"}` it shows the one or the other.

* *An empty icon* (`IconSkipped`). `notification_service.cpp:117` says
  `// Skip icon` of the second string. A string without text is not counted
  (`:112`), so that with an empty icon the summary is skipped and the body
  becomes the summary; the next string of the message, or of none, the body.

* *A transfer that is cut* (`ChecksumValidated`). `README.md:16` promises "checksum
  validation for reliable data transmission". There is no checksum: a payload that
  was cut between two USB packets is completed by the next packet, and acted on.
* *Shutdown* (`ReleasedBeforeTermination`). `system_lifecycle.md:169`: "Shutdown
  must always release communication resources before termination." The PSP's
  `transport_shutdown` does nothing and `exit_callback` does not call it.

### Disagreements with the documents that no run shows

They were met while modelling. The models have the behaviour in question, and the
properties name it as their exception or condition:

* `index_html.h:591`: `// Update background log messages`. Texts go into the JSON as
  they are (`http_server.cpp:262`, `:271`), and `main.cpp:305` logs those of
  notifications: with one quote or backslash no answer can be parsed while the
  entry is in the log, the page's `catch` (`index_html.h:598`) drops the answer, and
  the page stands still (`Parsable`).
* The same comment once the log is full: after 100 entries (`http_server.cpp:128`)
  its length never exceeds the page's cursor (`index_html.h:592`), and nothing new
  is shown until the page is reloaded (`overflowed`).
* `docs/HANDOFF.md:35`: "Web page slider adjustments update `config.ini`
  immediately". With the body of a post in a second segment nothing is set and the
  answer is "success" (`http_server.cpp:206`, `:299`; `missed`). With a poll under
  way its answer restores the old value in the widget (`index_html.h:576`), and the
  next post sends that one (`putBack`).
* `docs/HANDOFF.md:26`: "Hooked variables thread-safely inside the main loop." The
  four settings are set and read without a lock (`http_server.cpp:292`,
  `main.cpp:211`): a data race in C++, and a pass may read some of them before and
  some after (`clean` in `ReadTogether`).
* `ui.c:213-215` puts two cards side by side, the right one in columns 34 to 65; a
  branch is padded but not cut (`ui.c:421`) and leaves it (`BranchOverBorder`).

### What the code does not guarantee

Some properties hold only under a condition, because the code is like that. The
condition is part of the property and named here:

* A transfer that is cut between two USB packets (`AcceptedIntact`, `cutMidway`).
* A request completed after its ioctl has returned sends the packet that is in
  the transmit buffer by then, so a packet may go out twice and one not at all;
  `SentNeverOlder` says what remains.
* A driver the USB stack refuses to unregister stays with it when its module is gone
  (`StackHoldsDriver`, `kept`). A module that was loaded and not started can be
  neither opened nor loaded again (`CleanLaunchWorks`).
* `fgets` reads ahead of `select`: the last lines of a notification can wait until
  dbus-monitor prints something else (`ForwardedByNext`).
* A command whose send fails is lost, and one clicked without a session is sent in
  the next, however much later (`ExitCarriedOut`, `CommandAtMostOnce`).
* The page's liveness (`PageFollows`, `LogReachesPage`, `WidgetsFollow`) needs
  answers that can be parsed from some time on, and no silent client that holds the
  server's thread for ever; `LogReachesPage` also a log that does not overflow.
* `AdjustmentsSaved` excepts a choice put back on the page (`putBack`) and a request
  read before its body or whose save failed (`missed`).
* `ReadTogether` is about passes in which no request was being set (`clean`).
* A branch of more than 18 characters overwrites the border of its card, one of more
  than 25 the left card's in the next row; a title or text of more than 38 reaches
  the popup's border; a status of more than 51 goes on in the next row, where it
  meets nothing (`TextsApart`, `NotificationsFit`).

### Bounds

* `OutCap = InCap = 2`: both "empty", "one packet" and "full" occur.
* `TimeoutTicks = BeatTicks = HelloTicks = 2`, `SleepTicks = SlackTicks = 1`,
  `WatchdogFrames = 5`: the smallest values with the order of the real ones that
  let a wait be interrupted. 5 is the least value `TimingAssumption` allows;
  with 4, TLC refutes `HealthyAgreement`, so the assumption is tight. The real
  values, in frames of 16.7 ms, are 300 for the timeout, 120 for the heartbeat,
  60 for HELLO, 6 for the sleep (120 while searching, when the PSP has no
  session) and 500 for the watchdog: what is left for
  computing metrics in one pass is a little over 3 s.
* `MaxFaults = 2`: two faults let one hit the recovery from the other.
  `MaxClicks = 2` has exit and reboot together and one twice. `MaxKeys = 1`: a second key press finds the program gone or going.
* `Versions = {1, 2}`: the PSP's is chosen initially, equal or different.
* Screen: three notifications, a history of three, a popup of two frames; the
  history overflows, and every notification can return after being shifted out.
  The strings of one fill their arrays, those of another just do not fit, the
  third is short; a branch is padded, fits its card, or fills its array.
* `Framing`: headers of two units, payloads of none, one and three, USB packets of
  three units (a packet is split) and of eight (it is not); four packets and two
  faults, so that what the second fault meets is the recovery from the first.
* `Codec`: bytes of three values, so that 16, 32 and 64 bits end at 8, 80 and 6560,
  and arrays of two and three characters: strings that end early, fill the array,
  and go on after a zero.
* `PspDriver`: three launches, two refusals, two cable events, three packets.
* `NotifPipeline`: two calls, each with one of three sets of empty strings, one
  other message, one simulated notification, one failure.
* `StatusPage`: two polls at once, three entries for a log of two, one session, one
  restart or reload, at most one silent client waiting.
* `Settings`: two settings of two values, two requests at once, two changes (the
  least for settings of two posts to meet), one end of the process; saves fail as
  often as there are posts. A silent client comes when nobody waits: one that
  comes while others wait holds the thread after them just the same.

### Fairness

`WF(DesktopStep)` and `WF(Tick)`: both loops run as long as their process does
and time passes; neither loop has a way to wait for ever, all its waits having
a timeout. `WF(Resume)`: a `git` command ends. `WF(Next)` in
`PspUi` and `WF(ScreenNext)` in `Layout`: the PSP's frame loop runs. `Framing`: `WF(Deliver)`, the controller goes on
delivering what a transfer holds, and `WF(PspRead)`, the frame loop reads.
`NotifPipeline`: dbus-monitor prints what it has begun, the listener, the main
loop and the PSP run; `ForwardedByNext` is about behaviours that have a session for
good. `StatusPage`: the loop finishes the calls it has begun, the server's thread
runs, the page polls, and every answer arrives. `SettingsLoop` (`FairLoop`): the same
of its server and page. Nobody is assumed to start either program, plug a cable, begin a session,
press a key, change a setting, let go of a widget or hang up.

## Proofs

Checked by TLAPS, for every value of the constants that the assumption of the
module allows (`LinkAssumption`, `DesktopAssumption`, `PspAssumption` and
`TimingAssumption` for `DevLink`; `UiAssumption` and `LayoutAssumption` for the
screen; one each for the others). All invariants and action properties that the
passing runs check are proved:

| Theorem | Module | Says |
|---|---|---|
| `TypeCorrect` | `DevLink_proofs` | `Spec => []TypeOK` |
| `HandleCorrect`, `DashboardCorrect` | `DevLink_proofs` | `[]HandleMatchesState`, `[]DashboardHonest` |
| `VersionGateCorrect` | `DevLink_proofs` | `[]VersionGate` |
| `HealthyCorrect` | `DevLink_proofs` | `[]HealthyAgreement` |
| `CommandCorrect` | `DevLink_proofs` | `[]CommandAtMostOnce` |
| `SessionCorrect` | `DevLink_proofs` | `Spec => SessionImplemented` |
| `TypeCorrect`, `AcceptedIntactCorrect`, `NothingLostCorrect` | `Framing_proofs` | `[]TypeOK`, `[]AcceptedIntact`, `[]NothingLost` |
| `FieldsTogetherCorrect`, `OnceInOrderCorrect`, `LostOnlyByFailureCorrect` | `NotifPipeline_proofs` | `[]FieldsTogether`, `[]OnceInOrder`, `[]LostOnlyByFailure` |
| `ShownOnceCorrect`, `NothingSkippedCorrect` | `StatusPage_proofs` | `[]ShownOnceInOrder`, `[]NothingSkipped` |
| `SavedCorrect` | `Settings_proofs` | `Spec => SavedSurvives`, an action property |
| `NeverMixedCorrect`, `AdjustmentsCorrect` | `Settings_proofs` | `[]NeverMixed`, `[]AdjustmentsSaved` |
| `ReadTogetherCorrect` | `Settings_proofs` | `SpecLoop => []ReadTogether` |
| `UiTypeCorrect`, `PopupCorrect`, `HistoryCorrect` | `PspScreen_proofs` | `[]TypeOK`, `[]PopupIsNewest`, `[]NoAdjacentDuplicates` |
| `DismissCorrect` | `PspScreen_proofs` | `Spec => DismissKeepsHistory`, an action property |
| `TextsApartCorrect`, `NotificationsFitCorrect` | `PspScreen_proofs` | `[]TextsApart`, `[]NotificationsFit` |
| `StatsRoundTrip`, `GitRoundTrip`, `NotifRoundTrip` | `Codec_proofs` | what is unpacked is what was packed |
| `CodecCorrect`, `CodecTypeCorrect` | `Codec_proofs` | `[]Delivered`, `[]TypeOK` |
| `StackCorrect`, `FlagCorrect`, `StatusCorrect`, `CleanLaunchCorrect` | `PspDriver_proofs` | `[]StackHoldsDriver`, `[]FlagOwned`, `[]StatusHonest`, `[]CleanLaunchWorks` |
| `SentNeverOlderCorrect` | `PspDriver_proofs` | `[]SentNeverOlder` |

`StatusHonest` and the `TypeOK` of `Codec` (the end of every string) are proved only;
no run repeats them.
Where the invariant of a proof is not the property itself, TLC has checked it on
the instance of the module's run.

*Control.* `HandleMatchesState` is not inductive: that a failed HELLO finds the
loop HANDSHAKING must be known. `StepMatchesState` ties `dpc` to the state, and
the two are inductive together with `DashboardHonest`.

*Versions.* `PacketsVersioned` says what is in the pipes: on the way out only
the desktop's version, on the way in only HELLO of the PSP's, and nothing at all
unless the versions agree. With it the desktop's unchecked acceptance of a reply
is safe, also of one left over from an earlier session.

*Healthy sessions.* `HealthySession` is the inductive strengthening of
`HealthyAgreement`. It says where packets can be during a handshake
(`QuietHandshake`: one HELLO, as request or as reply), and, once connected,
bounds the watchdog's counter by the desktop's place in its pass (`QuietBound`):
at most the computing time while metrics are gathered, plus the receive's wait
in the drain, plus the pause in the sleep. At the top of the next pass a
heartbeat is due (`BeatDue`, because `BeatTicks <= TimeoutTicks`) and no time
passes before it is sent. `TimingAssumption` is what closes the induction.

*Commands and the refinement.* Both count packets: `CountOf` of a pipe is the
cardinality of the set of its positions that hold the message (`Places`), and the
lemmas say by how much appending, taking the head and emptying a pipe change it.
A command moves from a trigger to the pipe to the PSP without being duplicated.
For the refinement every step of `DevLink` is taken to the step of `Session` it
is, under the invariants of *Control* and *Versions*.

*Bytes.* A field's bytes are the digits of its number, and adding them up again
gives it back below its width; offsets are those of consecutive fields. The
invariant says that while a packet is on its way it is the packing of what was
sent, so that what is unpacked can be replaced by it, whatever the buffer held.

*Stream.* The bytes in the pipe and those of the transfer under way are one
`stream`: a delivery leaves it as it is, a send extends it, a cut takes its end
and a read its front. Order needs only that units of the stream are not from
before the packet read last (`Ordered`, `Later`), so it survives every fault.
That a payload is whole needs that each unit is followed by the rest of its
packet (`Whole`), which a transfer cut midway breaks and nothing else, a reader
off its boundary included. That nothing is lost needs in addition that packets
follow each other without a gap (`Consecutive`) and that the transfer under way
has stopped at the start of its packet or behind the header (`SendingInv`): a
header is smaller than a USB packet, so where one begins all of it can be read.
This is the one fact of `FramingAssumption` that the argument rests on.

*Notification lines.* Likewise for the lines that dbus-monitor has printed or is
about to, in whichever buffer they are. `Printed` says that the strings of a call
follow it and each other; `ParserInv`, that the parser is at some place of some
call, holds the fields up to there (`Holds`), and that the stream goes on with
the next one. A notification without a value for a string makes the parser count
short, which is why the third field is only known if the call has no gaps.
The way to the screen is one `path`; what the parser has yet to begin is newer
than all of it. For `LostOnlyByFailure` the notifications ever queued are those that left the
queue followed by it (`Accounted`), and a step that moves or loses one of the first
leaves the rest in their order (`KeptTrans`).

*Log.* The answers that are on their way hold copies of the log of any age.
`GrowthInv` compares any two of them and the page: what the longer one has more is
newer (`Newer`), so that showing what lies beyond the page's cursor never repeats
an entry, whichever answer comes next.

*Settings.* `KnownInv` follows everything that could become the settings: requests on
their way, the fields and the file. While a request is being set, the fields up to
`next` are its own and the others those of one earlier submission. `SavedInv` says
what a start would find: what was last saved, or nothing. For `AdjustmentsSaved` the
invariant says where the user's last choice is: in the last request in the queue
with settings, or, if none is left, the fields (`LastInQueue`), and then the file
(`SteadyInv`); `ChoiceInv` ties it to the widgets. `ReadInv` adds the reader: as long
as no request is being set the fields stay, and what was read of them is theirs.

*Driver.* The four control properties are inductive together with what a step of
the start-up has already seen to (`StepsDone`) and with what cannot be left half
done without a refusal (`CleanSteps`). `RequestInv` orders the requests that wait
and says that the buffer holds the newest packet while any waits.

*Screen.* Every call of a frame takes a good screen to a good screen (`Good`:
typed, within bounds, popup newest, no repetition); a frame composes them. That
texts fit then follows from the capacities of the strings (`CutFits`), and that
they are apart from the cells each part of the page keeps to (`ApartWithin`): a
status that runs on into row 6 ends before the column where the cards begin.

Only model-checked: all liveness (`DeadDesktopNoticed`, `DeadDeviceNoticed`,
`HandshakeCompletes`, `ExitCarriedOut`, `PopupExpires`, `Realigns`, `ForwardedByNext`, `PageFollows`, `LogReachesPage`, `WidgetsFollow`):
it rests on fairness and, in `Realigns`, on ENABLED, which the prover does not
reason about. The violated properties of the other runs are TLC's alone.

## Not modelled

* *System service*: reads `/proc` and computes percentages, pure input and
  arithmetic on one thread. Of the *git service* only that it may hang is
  modelled, not the counting of lines.
* *Screen*: colours, the number of digits of numbers (the longest of their type is
  taken, but for the memory), and the flip of the two
  buffers, which depends on the timing of the display.
* *HTTP*: binding and listening, the parsing of requests, starting and stopping
  the thread; the page's layout and style.
* *Driver*: descriptors and endpoint tables, which are data for the firmware, and
  the memory a late receive is written to.
* *Text that looks like a header* in the middle of a payload (`Framing`).
* Logging, the deployment scripts, `test_hello`, and the third-party sources under
  `reference/`, which are not built.

libusb, the cable, the PSP firmware, dbus-monitor, the browser and the operating
systems are modelled only by what the code relies on: calls return what the
source distinguishes, a device that leaves flushes its pipes.

## What could follow

* `Framing` under `DevLink`, in place of `skew`: a refinement whose mapping cuts the
  byte stream into packets.
