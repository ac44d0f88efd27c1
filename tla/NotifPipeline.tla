--------------------------- MODULE NotifPipeline ---------------------------
(***************************************************************************)
(* A desktop notification on its way to the PSP's screen: dbus-monitor     *)
(* prints a Notify call line by line into a pipe, the listener thread      *)
(* reads and parses the lines (notification_service.cpp) and queues what   *)
(* it understood, the main loop hands one entry per pass to the PSP        *)
(* (main.cpp), whose router passes it to the screen (message_router.c).    *)
(*                                                                         *)
(* The text of a line is abstracted to the call it belongs to, the field   *)
(* it carries, and whether the parser finds a value in it: an empty        *)
(* string, or one whose closing quote is on a later line, is a gap.        *)
(***************************************************************************)
EXTENDS Integers, Sequences

CONSTANTS
    GapSets,      \* the sets of fields a call may leave empty
    MaxCalls,     \* bound: Notify calls made
    MaxSignals,   \* bound: other messages dbus-monitor prints
    MaxMocks,     \* bound: simulated notifications
    MaxFailures   \* bound: sessions lost, failed sends, a monitor ended or given up

Fields == {"app", "icon", "summary", "body"}

ASSUME NotifAssumption ==
    /\ \A gaps \in GapSets : gaps \subseteq Fields
    /\ MaxCalls \in Nat /\ MaxSignals \in Nat /\ MaxMocks \in Nat
    /\ MaxFailures \in Nat

VARIABLES
    calls,       \* history: the gaps of every Notify call made
    printing,    \* lines of the message dbus-monitor is printing
    kernel,      \* lines in the pipe, which select() looks at
    stdio,       \* lines fgets has read ahead into its own buffer
    ended,       \* dbus-monitor has exited
    inNotify, stringIndex, appName, summary,  \* the parser's locals
    fallback,    \* use_fallback: simulated notifications, for good
    mocks,       \* simulated notifications so far
    queue,       \* m_queue
    taken,       \* history: everything that was ever queued
    ready,       \* the desktop is CONNECTED and notifications are enabled
    wire,        \* notifications sent, not yet read by the PSP
    shown,       \* history: notifications handed to the screen
    dropped,     \* history: how many a failed send or a lost session took along
    discarded,   \* history: how many the PSP read but did not route
    signals, failures  \* counters for the bounds

monitorVars == <<calls, printing, ended, signals>>
parserVars  == <<inNotify, stringIndex, appName, summary>>
lostVars    == <<dropped, discarded>>
loopVars    == <<ready, wire, shown, lostVars>>
vars == <<monitorVars, kernel, stdio, parserVars, fallback, mocks, queue, taken,
          loopVars, failures>>

Line(kind, n, field) == [kind |-> kind, call |-> n, field |-> field]

\* What dbus-monitor prints of call n: its strings in the order of the
\* signature, and at least one string of the hints that follow.
CallLines(n, gaps) ==
    LET Str(f) == Line(IF f \in gaps THEN "gap" ELSE "string", n, f)
    IN  <<Line("notify", n, "none"), Str("app"), Str("icon"), Str("summary"),
          Str("body"), Line("string", n, "hint")>>

Nothing == [call |-> 0, field |-> "none"]
Value(line) == [call |-> line.call, field |-> line.field]

Mock(i) == [call |-> i, field |-> "mock"]

-----------------------------------------------------------------------------
(* dbus-monitor, outside the repository.                                   *)

NotifyCall ==
    /\ ~ended /\ printing = <<>> /\ Len(calls) < MaxCalls
    /\ \E gaps \in GapSets :
          /\ calls' = Append(calls, gaps)
          /\ printing' = CallLines(Len(calls) + 1, gaps)
    /\ UNCHANGED <<kernel, stdio, ended, parserVars, fallback, mocks, queue,
                   taken, loopVars, signals, failures>>

OtherMessage ==
    /\ ~ended /\ printing = <<>> /\ signals < MaxSignals
    /\ signals' = signals + 1
    /\ printing' = <<Line("other", 0, "none")>>
    /\ UNCHANGED <<calls, kernel, stdio, ended, parserVars, fallback, mocks,
                   queue, taken, loopVars, failures>>

\* Once the listener has closed the pipe, the first line ends dbus-monitor.
PrintLine ==
    /\ printing # <<>>
    /\ IF fallback
       THEN ended' = TRUE /\ printing' = <<>> /\ UNCHANGED kernel
       ELSE /\ kernel' = Append(kernel, Head(printing)) /\ printing' = Tail(printing)
            /\ UNCHANGED ended
    /\ UNCHANGED <<calls, stdio, parserVars, fallback, mocks, queue, taken,
                   loopVars, signals, failures>>

MonitorEnds ==
    /\ ~ended /\ failures < MaxFailures
    /\ ended' = TRUE /\ failures' = failures + 1
    /\ printing' = <<>>
    /\ UNCHANGED <<calls, kernel, stdio, parserVars, fallback, mocks, queue,
                   taken, loopVars, signals>>

-----------------------------------------------------------------------------
(* The listener thread.                                                    *)

\* push_mock_notification, under the mutex; real notifications use it too.
Push(entry) == queue' = Append(queue, entry) /\ taken' = Append(taken, entry)

\* Seeded fault: the fields of the call before are still there.
BeginNotifyKeeps == inNotify' = TRUE /\ UNCHANGED <<stringIndex, appName, summary>>

BeginNotify ==
    /\ inNotify' = TRUE /\ stringIndex' = 0
    /\ appName' = Nothing /\ summary' = Nothing

\* The strings are told apart by counting those with a value: the first is the
\* application, the second the icon, which is skipped, the third the summary,
\* and the fourth the body, which completes the notification.
TakeString(value) ==
    /\ appName' = IF stringIndex = 0 THEN value ELSE appName
    /\ summary' = IF stringIndex = 2 THEN value ELSE summary
    /\ stringIndex' = stringIndex + 1
    /\ IF stringIndex = 3
       THEN /\ Push([app |-> appName, summary |-> summary, body |-> value])
            /\ inNotify' = FALSE
       ELSE UNCHANGED <<inNotify, queue, taken>>

Parse(line) ==
    \/ /\ line.kind = "notify" /\ BeginNotify
       /\ UNCHANGED <<queue, taken>>
    \/ /\ line.kind = "string" /\ inNotify
       /\ TakeString(Value(line))
    \/ /\ line.kind = "other" /\ inNotify' = FALSE
       /\ UNCHANGED <<stringIndex, appName, summary, queue, taken>>
    \/ /\ \/ line.kind = "gap"
          \/ line.kind = "string" /\ ~inNotify
       /\ UNCHANGED <<parserVars, queue, taken>>

\* One pass of the listener: select() says whether the pipe has anything, and
\* fgets then takes one line, from its own buffer if that holds one; otherwise
\* it reads all the pipe has into it first. Lines in the buffer alone do not
\* make select() return.
ReadLine ==
    /\ ~fallback /\ (kernel # <<>> \/ ended)
    /\ \/ /\ stdio # <<>>
          /\ Parse(Head(stdio))
          /\ stdio' = Tail(stdio) /\ UNCHANGED kernel
       \/ /\ stdio = <<>> /\ kernel # <<>>
          /\ Parse(Head(kernel))
          /\ stdio' = Tail(kernel) /\ kernel' = <<>>
    /\ UNCHANGED <<monitorVars, fallback, mocks, loopVars, failures>>

\* fgets finds the end of the output.
GiveUpMonitor ==
    /\ ~fallback /\ ended /\ kernel = <<>> /\ stdio = <<>>
    /\ fallback' = TRUE
    /\ UNCHANGED <<monitorVars, kernel, stdio, parserVars, mocks, queue, taken,
                   loopVars, failures>>

\* select() fails: the pipe is closed with whatever was in it, and in pclose the
\* listener waits for dbus-monitor to exit.
SelectFails ==
    /\ ~fallback /\ failures < MaxFailures
    /\ failures' = failures + 1
    /\ fallback' = TRUE /\ kernel' = <<>> /\ stdio' = <<>>
    /\ UNCHANGED <<monitorVars, parserVars, mocks, queue, taken, loopVars>>

\* Every ten seconds, for as long as the program runs.
PushMock ==
    /\ fallback /\ ended /\ mocks < MaxMocks
    /\ mocks' = mocks + 1
    /\ LET m == Mock(mocks')
       IN  Push([app |-> m, summary |-> m, body |-> m])
    /\ UNCHANGED <<monitorVars, kernel, stdio, parserVars, fallback, loopVars,
                   failures>>

Listen == ReadLine \/ GiveUpMonitor \/ PushMock

-----------------------------------------------------------------------------
(* The main loop and the PSP.                                              *)

\* Seeded faults: an entry is taken off the queue although nobody can be sent it;
\* it is taken off only once it was sent; the check for an empty queue is off by
\* one.
SendNextAnytime ==
    /\ queue # <<>>
    /\ queue' = Tail(queue)
    /\ wire' = IF ready THEN Append(wire, Head(queue)) ELSE wire
    /\ UNCHANGED <<monitorVars, kernel, stdio, parserVars, fallback, mocks,
                   taken, ready, shown, lostVars, failures>>

SendNextKeeps ==
    /\ ready /\ queue # <<>>
    /\ wire' = Append(wire, Head(queue))
    /\ \/ queue' = Tail(queue) /\ UNCHANGED <<ready, failures>>
       \/ /\ failures < MaxFailures /\ failures' = failures + 1
          /\ ready' = FALSE /\ UNCHANGED queue
    /\ UNCHANGED <<monitorVars, kernel, stdio, parserVars, fallback, mocks,
                   taken, shown, lostVars>>

SendNextOneLeft ==
    /\ ready /\ Len(queue) > 1
    /\ queue' = Tail(queue) /\ wire' = Append(wire, Head(queue))
    /\ UNCHANGED <<monitorVars, kernel, stdio, parserVars, fallback, mocks,
                   taken, ready, shown, lostVars, failures>>

\* When the interval has elapsed, get_latest takes the oldest entry; when its send
\* fails the session ends and the entry is gone, although the device may have got
\* it all the same.
SendNext ==
    /\ ready /\ queue # <<>>
    /\ queue' = Tail(queue)
    /\ \/ /\ wire' = Append(wire, Head(queue))
          /\ UNCHANGED <<ready, dropped, failures>>
       \/ /\ failures < MaxFailures
          /\ failures' = failures + 1 /\ ready' = FALSE
          /\ \/ wire' = Append(wire, Head(queue)) /\ UNCHANGED dropped
             \/ dropped' = dropped + 1 /\ UNCHANGED wire
    /\ UNCHANGED <<monitorVars, kernel, stdio, parserVars, fallback, mocks,
                   taken, shown, discarded>>

\* A session begins, or the dashboard enables notifications.
Open ==
    /\ ~ready /\ ready' = TRUE
    /\ UNCHANGED <<monitorVars, kernel, stdio, parserVars, fallback, mocks,
                   queue, taken, wire, shown, lostVars, failures>>

\* A session ends or the dashboard disables notifications; the device may take
\* what it had not read with it.
Close ==
    /\ ready /\ failures < MaxFailures
    /\ ready' = FALSE /\ failures' = failures + 1
    /\ \/ UNCHANGED <<wire, dropped>>
       \/ wire' = <<>> /\ dropped' = dropped + Len(wire)
    /\ UNCHANGED <<monitorVars, kernel, stdio, parserVars, fallback, mocks,
                   queue, taken, shown, discarded>>

\* One packet per frame. With a session, router_dispatch stores it in
\* g_current_notif and the frame goes on to hand it to ui_add_notification. A PSP
\* that is DISCONNECTED, or does not get the payload, drops it without a word.
PspFrame ==
    /\ wire # <<>> /\ wire' = Tail(wire)
    /\ \/ shown' = Append(shown, Head(wire)) /\ UNCHANGED discarded
       \/ discarded' = discarded + 1 /\ UNCHANGED shown
    /\ UNCHANGED <<monitorVars, kernel, stdio, parserVars, fallback, mocks,
                   queue, taken, ready, dropped, failures>>

\* Without a pipe to dbus-monitor there are only simulated notifications.
Init ==
    /\ calls = <<>> /\ printing = <<>> /\ kernel = <<>> /\ stdio = <<>>
    /\ fallback \in BOOLEAN /\ ended = fallback
    /\ inNotify = FALSE /\ stringIndex = -1
    /\ appName = Nothing /\ summary = Nothing
    /\ mocks = 0
    /\ queue = <<>> /\ taken = <<>>
    /\ ready = FALSE /\ wire = <<>> /\ shown = <<>>
    /\ dropped = 0 /\ discarded = 0
    /\ signals = 0 /\ failures = 0

Next ==
    \/ NotifyCall
    \/ OtherMessage
    \/ PrintLine
    \/ MonitorEnds
    \/ Listen
    \/ SelectFails
    \/ SendNext
    \/ Open
    \/ Close
    \/ PspFrame

Spec == Init /\ [][Next]_vars

\* The monitor prints what it has begun, and the threads and the PSP's frames
\* keep running. Nobody has to begin a session or to enable notifications.
FairSpec ==
    /\ Spec
    /\ WF_vars(PrintLine) /\ WF_vars(Listen)
    /\ WF_vars(SendNext) /\ WF_vars(PspFrame)

-----------------------------------------------------------------------------
Owner(entry) == entry.body.call

Real(entries) == {i \in DOMAIN entries : entries[i].body.field # "mock"}

\* The three fields of a notification come from one call, and if all of that
\* call's strings have a value they are its application, summary and body.
FieldsTogether ==
    \A i \in Real(taken) :
        LET e == taken[i] IN
        /\ e.app.call = Owner(e) /\ e.summary.call = Owner(e)
        /\ calls[Owner(e)] = {} =>
              /\ e.app.field = "app" /\ e.summary.field = "summary"
              /\ e.body.field = "body"

\* From the calls to the screen, over lost and new sessions: no call becomes two
\* notifications, none is sent twice, and none overtakes another.
OnceInOrder ==
    LET entries == shown \o wire \o queue IN
    \A i, j \in Real(entries) :
        i < j => Owner(entries[i]) < Owner(entries[j])

\* The entries of new are entries of old, in their order.
Kept(new, old) ==
    \E f \in [1..Len(new) -> 1..Len(old)] :
        /\ \A i \in 1..Len(new) : new[i] = old[f[i]]
        /\ \A i, j \in 1..Len(new) : i < j => f[i] < f[j]

\* Whatever fails, the queue holds all of the newest notifications, and those that
\* left it are on the screen or on their way there in their order, except for
\* exactly those that a failed send, a lost session or a PSP that did not route
\* them took along. Without a failure only the PSP loses any.
LostOnlyByFailure ==
    LET left == Len(taken) - Len(queue) IN
    /\ queue = SubSeq(taken, left + 1, Len(taken))
    /\ Kept(shown \o wire, SubSeq(taken, 1, left))
    /\ left = Len(shown) + Len(wire) + dropped + discarded
    /\ failures = 0 => dropped = 0

TakenCall(n) == \E i \in Real(taken) : Owner(taken[i]) = n
ShownCall(n) == \E i \in Real(shown) : Owner(shown[i]) = n

ReadAhead(n) == \E i \in DOMAIN stdio : stdio[i] = Line("string", n, "body")

\* What fgets has read ahead waits for more output, but no longer: as soon as the
\* pipe holds anything newer, a call waiting there goes on to the screen if the
\* desktop gets a session for good. It does not when the listener gives up on the
\* pipe first, or when notifications were lost on the way.
ForwardedByNext ==
    <>[]ready =>
        \A n \in 1..MaxCalls :
            (n <= Len(calls) /\ calls[n] = {} /\ kernel # <<>> /\ ReadAhead(n))
                ~> \/ ShownCall(n)
                   \/ fallback /\ ~TakenCall(n)
                   \/ dropped + discarded > 0

\* "// Skip icon" (notification_service.cpp:117): the string that is skipped is
\* the icon, so that summary and body are what the call gave as such.
IconSkipped ==
    \A i \in Real(taken) :
        taken[i].summary.field = "summary" /\ taken[i].body.field = "body"
=============================================================================
