----------------------------- MODULE StatusPage -----------------------------
(***************************************************************************)
(* What the dashboard shows of the desktop: the main loop writes the       *)
(* connection state, the metrics and the event log into HttpServer, one    *)
(* locked call at a time; the server's thread answers the page's polls,    *)
(* one client at a time (http_server.cpp); the page (index_html.h) polls   *)
(* on a timer whether or not earlier polls have been answered, and puts    *)
(* each answer on the screen when it arrives.                              *)
(*                                                                         *)
(* A log entry is the process that wrote it and a number; of the metrics   *)
(* only the session they were collected in is kept. Of the texts that come *)
(* from elsewhere, a notification in the log and the branch, it matters    *)
(* whether they are plain: the server puts them into its JSON as they are. *)
(* Commands and settings are the concern of DesktopLoop and Settings.      *)
(***************************************************************************)
EXTENDS Integers, Sequences

CONSTANTS
    LogCap,       \* entries HttpServer keeps (100)
    MaxFlights,   \* bound: polls without an answer on the page yet
    MaxEntries,   \* bound: log entries written
    MaxSessions,  \* bound: sessions with the PSP
    MaxRestarts   \* bound: restarts of the desktop, reloads of the page

ASSUME StatusAssumption ==
    /\ LogCap \in Nat \ {0} /\ MaxFlights \in Nat \ {0}
    /\ MaxEntries \in Nat /\ MaxSessions \in Nat /\ MaxRestarts \in Nat

\* A session number; 0 where there are no metrics.
NoMetrics == 0

\* A quote or a backslash in a text ends the JSON string it is put into, or makes
\* it invalid.
Texts == {"plain", "quoted"}

VARIABLES
    loop,          \* the main loop's own state
    calls,         \* the calls into HttpServer it has yet to make
    session,       \* sessions so far
    entries,       \* history: log entries written so far, by any process
    m_state,       \* m_connection_state
    m_telemetry,   \* m_telemetry with m_has_telemetry
    m_git,         \* m_git with m_has_git ...
    m_branch,      \* ... and its branch
    m_logs,
    quoted,        \* which entries ever logged were no plain text
    life,          \* history: which process of the desktop this is
    sent,          \* clients waiting for the server's thread, oldest first
    answers,       \* answers on their way to the page
    page,          \* connectionState, telemetry, git and lastLogsCount
    logBox,        \* history: the entries the page has put in its log box
    overflowed,    \* history: an entry has been dropped from m_logs
    restarts

loopVars   == <<loop, calls, session, entries, life>>
serverVars == <<m_state, m_telemetry, m_git, m_branch, m_logs, quoted, overflowed>>
netVars    == <<sent, answers>>
pageVars   == <<page, logBox>>
vars == <<loopVars, serverVars, netVars, pageVars, restarts>>

FreshPage == [state |-> "DISCONNECTED", telemetry |-> NoMetrics,
              git |-> NoMetrics, count |-> 0]

-----------------------------------------------------------------------------
(* The main loop, as far as HttpServer sees it.                            *)

SetState(s) == <<"state", s, "plain">>
Metric(kind, text) == <<kind, session, text>>
LogEntry(text) == <<"log", 0, text>>

\* The locked calls the loop makes, in their order, in a part of its pass that
\* leaves it in state s. A session that is lost is shown as such at the top of
\* the next pass only.
Pass(s, script) ==
    /\ calls = <<>>
    /\ calls' = script
    /\ loop' = s
    /\ UNCHANGED <<entries, life, serverVars, netVars, pageVars, restarts>>

SearchFails ==
    /\ loop = "DISCONNECTED" /\ m_state # "DISCONNECTED"
    /\ Pass(loop, <<SetState("DISCONNECTED")>>) /\ UNCHANGED session

SearchSucceeds ==
    /\ loop = "DISCONNECTED" /\ session < MaxSessions
    /\ session' = session + 1
    /\ Pass("HANDSHAKING", <<SetState("DISCONNECTED"), SetState("HANDSHAKING"),
                             LogEntry("plain")>>)

HandshakeCompletes ==
    /\ loop = "HANDSHAKING"
    /\ Pass("CONNECTED", <<SetState("CONNECTED"), LogEntry("plain")>>)
    /\ UNCHANGED session

Collect ==
    /\ loop = "CONNECTED"
    /\ \/ m_telemetry # session /\ Pass(loop, <<Metric("telemetry", "plain")>>)
       \/ \E branch \in Texts :
             /\ <<m_git, m_branch>> # <<session, branch>>
             /\ Pass(loop, <<Metric("git", branch)>>)
    /\ UNCHANGED session

NotificationCaptured ==
    /\ loop = "CONNECTED" /\ entries < MaxEntries
    /\ \E text \in Texts : Pass(loop, <<LogEntry(text)>>)
    /\ UNCHANGED session

SessionLost ==
    /\ loop # "DISCONNECTED"
    /\ Pass("DISCONNECTED", <<LogEntry("plain")>>) /\ UNCHANGED session

LoopPass == SearchFails \/ SearchSucceeds \/ HandshakeCompletes \/ Collect
                \/ NotificationCaptured \/ SessionLost

\* add_log: the oldest entry makes room.
PushLog(log, e) ==
    LET all == Append(log, e)
    IN  IF Len(all) > LogCap THEN Tail(all) ELSE all

\* One call: update_connection_state, update_telemetry, update_git or add_log.
Call ==
    /\ calls # <<>>
    /\ LET op == Head(calls)[1]  arg == Head(calls)[2]  text == Head(calls)[3] IN
       /\ op = "log" => entries < MaxEntries
       /\ m_state' = IF op = "state" THEN arg ELSE m_state
       /\ m_telemetry' = IF op = "telemetry" THEN arg ELSE m_telemetry
       /\ m_git' = IF op = "git" THEN arg ELSE m_git
       /\ m_branch' = IF op = "git" THEN text ELSE m_branch
       /\ entries' = IF op = "log" THEN entries + 1 ELSE entries
       /\ m_logs' = IF op = "log" THEN PushLog(m_logs, <<life, entries'>>)
                    ELSE m_logs
       /\ quoted' = IF op = "log" /\ text = "quoted"
                    THEN quoted \union {<<life, entries'>>} ELSE quoted
       /\ overflowed' = (overflowed \/ (op = "log" /\ Len(m_logs) = LogCap))
    /\ calls' = Tail(calls)
    /\ UNCHANGED <<loop, session, life, netVars, pageVars, restarts>>

-----------------------------------------------------------------------------
(* The server's thread.                                                    *)

Logged(e) == \E i \in DOMAIN m_logs : m_logs[i] = e

\* Whether the browser can parse an answer made now: the log is always in it, the
\* branch only while connected.
Parsable ==
    /\ \A e \in quoted : ~Logged(e)
    /\ m_state = "CONNECTED" /\ m_git # NoMetrics => m_branch = "plain"

\* Seeded fault: the log, too, is sent only while connected.
StatusLogInSession ==
    LET InSession(m, none) == IF m_state = "CONNECTED" THEN m ELSE none
    IN  [state |-> m_state, telemetry |-> InSession(m_telemetry, NoMetrics),
         git |-> InSession(m_git, NoMetrics), logs |-> InSession(m_logs, <<>>),
         parsable |-> Parsable]

\* The answer to GET /api/status, put together under the mutex: metrics only
\* while connected, and the whole log.
Status ==
    LET InSession(m) == IF m_state = "CONNECTED" THEN m ELSE NoMetrics
    IN  [state |-> m_state, telemetry |-> InSession(m_telemetry),
         git |-> InSession(m_git), logs |-> m_logs, parsable |-> Parsable]

\* A client that connects and sends nothing.
Silent == 0

Held == sent # <<>> /\ Head(sent) = Silent

\* Seeded fault: the thread takes a client and never answers it.
HandleClientDrops ==
    /\ sent # <<>> /\ sent' = Tail(sent)
    /\ UNCHANGED answers
    /\ UNCHANGED <<loopVars, serverVars, pageVars, restarts>>

\* accept, recv, answer, close: the next client has to wait for all of it, also for
\* a request that has yet to come, because recv has no timeout.
HandleClient ==
    /\ sent # <<>> /\ ~Held
    /\ sent' = Tail(sent)
    /\ answers' = answers \union {[id |-> Head(sent), status |-> Status]}
    /\ UNCHANGED <<loopVars, serverVars, pageVars, restarts>>

\* Any program may connect and send nothing.
Connect ==
    /\ \A i \in DOMAIN sent : sent[i] # Silent
    /\ sent' = Append(sent, Silent)
    /\ UNCHANGED <<loopVars, serverVars, answers, pageVars, restarts>>

\* It goes away again: recv returns 0, and the connection is closed unanswered.
HangUp ==
    /\ Held /\ sent' = Tail(sent)
    /\ UNCHANGED <<loopVars, serverVars, answers, pageVars, restarts>>

\* The desktop program is ended and started again, at any point of its work. Its
\* state is lost, and the polls it has not answered fail; what it has answered
\* is with the browser already.
Restart ==
    /\ restarts < MaxRestarts /\ restarts' = restarts + 1
    /\ life' = life + 1
    /\ loop' = "DISCONNECTED" /\ calls' = <<>>
    /\ m_state' = "DISCONNECTED"
    /\ m_telemetry' = NoMetrics /\ m_git' = NoMetrics /\ m_branch' = "plain"
    /\ m_logs' = <<>>
    /\ sent' = <<>>
    /\ UNCHANGED <<session, entries, quoted, overflowed, answers, pageVars>>

-----------------------------------------------------------------------------
(* The page.                                                               *)

InFlight == {sent[i] : i \in DOMAIN sent} \union {a.id : a \in answers}

\* setInterval(fetchStatus, 500) does not wait for the polls before.
FetchStatus ==
    /\ \E id \in 1..MaxFlights :
          /\ id \notin InFlight
          /\ \A k \in 1..(id - 1) : k \in InFlight
          /\ sent' = Append(sent, id)
    /\ UNCHANGED <<loopVars, serverVars, answers, pageVars, restarts>>

\* Seeded faults: a longer log is shown from its start; the cursor is taken for
\* the index of an entry already shown.
NewEntriesLate(logs, count) == SubSeq(logs, count + 2, Len(logs))

NewEntriesAll(logs, count) == IF Len(logs) > count THEN logs ELSE <<>>

\* The log of the page grows by what the answer holds beyond lastLogsCount.
NewEntries(logs, count) == SubSeq(logs, count + 1, Len(logs))

\* An answer arrives, in whatever order the browser completes its polls. One that
\* cannot be parsed changes nothing on the page.
ShowAnswer(a) ==
    /\ answers' = answers \ {a}
    /\ IF a.status.parsable
       THEN /\ logBox' = logBox \o NewEntries(a.status.logs, page.count)
            /\ page' = [state |-> a.status.state,
                        telemetry |-> a.status.telemetry, git |-> a.status.git,
                        count |-> IF Len(a.status.logs) > page.count
                                  THEN Len(a.status.logs) ELSE page.count]
       ELSE UNCHANGED pageVars
    /\ UNCHANGED <<loopVars, serverVars, sent, restarts>>

ShowStatus == \E a \in answers : ShowAnswer(a)

\* The user opens the page again.
Reload ==
    /\ restarts < MaxRestarts /\ restarts' = restarts + 1
    /\ page' = FreshPage /\ logBox' = <<>>
    /\ sent' = SelectSeq(sent, LAMBDA c : c = Silent) /\ answers' = {}
    /\ UNCHANGED <<loopVars, serverVars>>

Init ==
    /\ loop = "DISCONNECTED" /\ calls = <<>> /\ session = 0 /\ entries = 0
    /\ m_state = "DISCONNECTED" /\ m_telemetry = NoMetrics
    /\ m_git = NoMetrics /\ m_branch = "plain"
    /\ m_logs = <<>> /\ quoted = {} /\ life = 0
    /\ sent = <<>> /\ answers = {}
    /\ page = FreshPage /\ logBox = <<>> /\ overflowed = FALSE
    /\ restarts = 0

Next == LoopPass \/ Call \/ HandleClient \/ Connect \/ HangUp \/ Restart
            \/ FetchStatus \/ ShowStatus \/ Reload

Spec == Init /\ [][Next]_vars

\* A call the loop is about to make is made, the server's thread and the timer
\* run, and every answer reaches the page. A silent client need not go away.
FairSpec ==
    /\ Spec
    /\ WF_vars(Call) /\ WF_vars(HandleClient) /\ WF_vars(FetchStatus)
    /\ \A id \in 1..MaxFlights :
          WF_vars(\E a \in answers : a.id = id /\ ShowAnswer(a))
-----------------------------------------------------------------------------
\* However polls overtake each other, the log drops entries and the desktop is
\* restarted: the page shows no entry twice, and those of one process in the
\* order they were written.
ShownOnceInOrder ==
    \A i, j \in DOMAIN logBox :
        i < j /\ logBox[i][1] = logBox[j][1] => logBox[i][2] < logBox[j][2]

\* As long as the desktop was not restarted and its log has dropped nothing, the
\* page has skipped nothing either: it shows the log up to its cursor.
NothingSkipped ==
    life = 0 /\ ~overflowed => logBox = [i \in 1..page.count |-> <<0, i>>]

Visible == [state |-> Status.state, telemetry |-> Status.telemetry,
            git |-> Status.git]

PageView == [state |-> page.state, telemetry |-> page.telemetry,
             git |-> page.git]

\* When the desktop stops changing, the page comes to show it and stays with it,
\* although an older answer may arrive after a newer one: as long as the answers
\* can be parsed and no silent client holds the server's thread for ever.
PageFollows ==
    <>[][UNCHANGED Visible]_vars /\ <>[]Parsable /\ []<>~Held
        => <>[](PageView = Visible)

Shown(e) == \E i \in DOMAIN logBox : logBox[i] = e

\* The page comes to show every entry the desktop has, under the same conditions,
\* unless the log overflows or the desktop is restarted.
LogReachesPage ==
    <>[]Parsable /\ []<>~Held =>
        []<>((\A i \in DOMAIN m_logs : Shown(m_logs[i])) \/ overflowed \/ life > 0)
=============================================================================
