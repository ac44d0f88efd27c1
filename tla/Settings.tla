------------------------------ MODULE Settings ------------------------------
(***************************************************************************)
(* The settings, in the four places that hold them: the widgets of the     *)
(* dashboard (index_html.h), the fields of ConfigService that the main     *)
(* loop reads, the file config.ini (config_service.cpp), and the requests  *)
(* and answers between page and server (http_server.cpp).                  *)
(*                                                                         *)
(* A request carries all of the widgets; the server's thread sets the      *)
(* fields one by one, without a lock, and saves them. An answer carries    *)
(* all of the fields. The settings are numbered in the order in which they *)
(* are set; what the main loop reads of them is in SettingsLoop.           *)
(***************************************************************************)
EXTENDS Integers, Sequences

CONSTANTS
    NumSettings, \* the settings that have a widget (4)
    Values,
    Default,     \* the values compiled into the desktop
    None,        \* no widget; no file
    MaxFlights,  \* bound: requests the page waits for
    MaxChanges,  \* bound: changes the user makes
    MaxCrashes   \* bound: ends of the desktop's process

Keys == 1..NumSettings

Configs == [Keys -> Values]

ASSUME SettingsAssumption ==
    /\ NumSettings \in Nat \ {0}
    /\ Default \in Configs
    /\ None \notin Keys /\ None \notin Configs
    /\ MaxFlights \in Nat \ {0} /\ MaxChanges \in Nat /\ MaxCrashes \in Nat

VARIABLES
    widgets,   \* what the page shows
    focus,     \* document.activeElement, if it is one of the widgets
    sent,      \* requests waiting for the server's thread, oldest first
    answers,   \* answers on their way to the page
    phase,     \* of the desktop; "applying" while a request's settings are
               \* set, "loading" and "saving" while save runs
    next,      \* while applying: the setting to be set next; otherwise 1
    config,    \* its ConfigService
    file,      \* config.ini: the settings it has a line for
    wanted,    \* history: the user's last choice for every setting
    posted,    \* history: the settings the page has submitted
    written,   \* history: the last settings a save completed
    cut,       \* history: a save since then has opened the file
    putBack,   \* history: an answer has undone a choice on the page
    missed,    \* history: a request was answered, and its settings had not arrived
               \* when it was read, or the file could not be opened
    crashes    \* how often the desktop's process has ended

pageVars == <<widgets, focus, sent, answers>>
hostVars == <<phase, next, config, file>>
histVars == <<wanted, posted, written, cut, putBack, missed, crashes>>
vars == <<pageVars, hostVars, histVars>>

\* The settings of a file without any line.
Empty == [k \in {} |-> Default]

-----------------------------------------------------------------------------
(* The page and its user.                                                  *)

\* A change sends all of the widgets; the poll carries nothing.
Request(id, kind, body) == [id |-> id, kind |-> kind, body |-> body]

\* A client that has connected and sent nothing.
Silent == Request(0, "silent", None)

InFlight == {sent[i].id : i \in DOMAIN sent} \union {a.id : a \in answers}

FreeId(id) == id \notin InFlight /\ \A k \in 1..(id - 1) : k \in InFlight

Reachable == phase \in {"up", "applying", "saving"}

\* The page comes from the desktop, and stays when that ends.
PageOpen == Reachable \/ crashes > 0

\* The browser has a connection to spare.
SendFrom(kind, body) ==
    \E id \in 1..MaxFlights :
        FreeId(id) /\ sent' = Append(sent, Request(id, kind, body))

\* The user takes hold of a widget, or of none.
Focus(k) ==
    /\ PageOpen
    /\ focus # k /\ focus' = k
    /\ UNCHANGED <<widgets, sent, answers, hostVars, histVars>>

\* Seeded fault: a change made while a request is under way is not sent.
SubmitConfigBusy(v) ==
    /\ PageOpen
    /\ focus \in Keys /\ widgets[focus] # v /\ Len(posted) < MaxChanges
    /\ widgets' = [widgets EXCEPT ![focus] = v]
    /\ wanted' = [wanted EXCEPT ![focus] = v]
    /\ IF Reachable /\ InFlight = {}
       THEN posted' = Append(posted, widgets') /\ SendFrom("config", widgets')
       ELSE UNCHANGED <<sent, posted>>
    /\ UNCHANGED <<focus, answers, hostVars, written, cut, putBack, missed,
                   crashes>>

\* ... and changes it: submitConfig.
SubmitConfig(v) ==
    /\ PageOpen
    /\ focus \in Keys /\ widgets[focus] # v /\ Len(posted) < MaxChanges
    /\ widgets' = [widgets EXCEPT ![focus] = v]
    /\ wanted' = [wanted EXCEPT ![focus] = v]
    /\ posted' = Append(posted, widgets')
    /\ IF Reachable THEN SendFrom("config", widgets') ELSE UNCHANGED sent
    /\ UNCHANGED <<focus, answers, hostVars, written, cut, putBack, missed,
                   crashes>>

\* setInterval(fetchStatus, 500)
FetchStatus ==
    /\ Reachable /\ SendFrom("status", None)
    /\ UNCHANGED <<widgets, focus, answers, hostVars, histVars>>

\* Seeded fault: the widgets are the page's own.
RefreshNever(shown) == widgets

\* Update config widgets if not actively being adjusted by user.
Refresh(shown) == [k \in Keys |-> IF k = focus THEN widgets[k] ELSE shown[k]]

\* The answer to a change changes nothing; that to a poll does, unless the page
\* cannot parse it.
ShowAnswer(a) ==
    /\ answers' = answers \ {a}
    /\ widgets' = IF a.kind = "status" /\ a.body # None THEN Refresh(a.body)
                  ELSE widgets
    /\ putBack' = (putBack \/ \E k \in Keys : widgets[k] = wanted[k] /\ widgets'[k] # wanted[k])
    /\ UNCHANGED <<focus, sent, hostVars, wanted, posted, written, cut, missed,
                   crashes>>

-----------------------------------------------------------------------------
(* The server's thread, one request after the other.                       *)

Answered(r, body) ==
    /\ sent' = Tail(sent)
    /\ answers' = answers \union {[r EXCEPT !.body = body]}

Serving(kind) == phase = "up" /\ sent # <<>> /\ Head(sent).kind = kind

\* The log and the branch, which the answer holds too, may make it unreadable.
AnswerStatus ==
    /\ Serving("status")
    /\ \E body \in {config, None} : Answered(Head(sent), body)
    /\ UNCHANGED <<widgets, focus, hostVars, histVars>>

\* Another client that sends nothing holds the thread in recv until it closes its
\* connection. Bound: it comes when nobody waits; one that comes while others wait
\* holds the thread after them, as if it had come then.
Connect ==
    /\ Reachable /\ sent = <<>>
    /\ sent' = Append(sent, Silent)
    /\ UNCHANGED <<widgets, focus, answers, hostVars, histVars>>

HangUp ==
    /\ Serving("silent") /\ sent' = Tail(sent)
    /\ UNCHANGED <<widgets, focus, answers, hostVars, histVars>>

\* POST /api/config. If the one recv returned before the body was there, the
\* request carries no settings and goes on like any other.
TakeRequest ==
    /\ Serving("config") /\ phase' = "applying"
    /\ \/ next' = 1 /\ UNCHANGED missed
       \/ next' = NumSettings + 1 /\ missed' = TRUE
    /\ UNCHANGED <<pageVars, config, file, wanted, posted, written, cut, putBack,
                   crashes>>

\* Seeded fault: the last setting is not reached.
SetFieldOneLess ==
    /\ phase = "applying" /\ next \in Keys
    /\ config' = [config EXCEPT ![next] = Head(sent).body[next]]
    /\ next' = IF next + 1 = NumSettings THEN NumSettings + 1 ELSE next + 1
    /\ UNCHANGED <<pageVars, phase, file, histVars>>

SetField ==
    /\ phase = "applying" /\ next \in Keys
    /\ config' = [config EXCEPT ![next] = Head(sent).body[next]]
    /\ next' = next + 1
    /\ UNCHANGED <<pageVars, phase, file, histVars>>

Applied == phase = "applying" /\ next = NumSettings + 1

\* Seeded fault: the first line goes to the file at once.
BeginSaveLineByLine ==
    /\ Applied
    /\ file' = [k \in {1} |-> config[k]]
    /\ phase' = "saving" /\ cut' = TRUE
    /\ next' = 1
    /\ UNCHANGED <<pageVars, config, wanted, posted, written, putBack, missed,
                   crashes>>

\* save opens the file, which leaves it empty.
BeginSave ==
    /\ Applied
    /\ file' = Empty /\ phase' = "saving" /\ cut' = TRUE
    /\ next' = 1
    /\ UNCHANGED <<pageVars, config, wanted, posted, written, putBack, missed,
                   crashes>>

\* ... or save cannot open it, and the page hears of success all the same.
SaveFails ==
    /\ Applied /\ missed' = TRUE
    /\ phase' = "up" /\ next' = 1
    /\ Answered(Head(sent), None)
    /\ UNCHANGED <<widgets, focus, config, file, wanted, posted, written, cut,
                   putBack, crashes>>

\* The lines of the file are in the stream's buffer, which they do not fill: the
\* file has all of them when it is closed, at the end of save.
Lines == config

\* Only then is the request answered; load's save has nobody to answer.
EndSave ==
    /\ phase \in {"loading", "saving"}
    /\ file' = Lines /\ phase' = "up"
    /\ written' = config /\ cut' = FALSE
    /\ IF phase = "saving" THEN Answered(Head(sent), None)
                            ELSE UNCHANGED <<sent, answers>>
    /\ UNCHANGED <<widgets, focus, next, config, wanted, posted, putBack, missed,
                   crashes>>

Serve == AnswerStatus \/ TakeRequest \/ SetField \/ BeginSave \/ EndSave

-----------------------------------------------------------------------------
(* The desktop's process.                                                  *)

\* It ends at any point; requests that were not answered fail on the page, which
\* stays open.
Crash ==
    /\ phase # "down" /\ crashes < MaxCrashes
    /\ crashes' = crashes + 1
    /\ phase' = "down" /\ sent' = <<>> /\ next' = 1
    /\ UNCHANGED <<widgets, focus, answers, config, file, wanted, posted,
                   written, cut, putBack, missed>>

\* What has no line in the file has its default.
Loaded ==
    [k \in Keys |-> IF file # None /\ k \in DOMAIN file THEN file[k]
                    ELSE Default[k]]

\* The constructor, and load: a file that does not exist is written.
Start ==
    /\ phase = "down"
    /\ config' = Loaded
    /\ IF file = None
       THEN phase' = "loading" /\ file' = Empty /\ cut' = TRUE
       ELSE phase' = "up" /\ UNCHANGED <<file, cut>>
    /\ UNCHANGED <<pageVars, next, wanted, posted, written, putBack, missed,
                   crashes>>

\* The desktop was started before, and the page shows its settings; or it never
\* was.
Init ==
    /\ config = Default /\ file \in {None, Default}
    /\ phase = (IF file = None THEN "down" ELSE "up") /\ next = 1
    /\ widgets = Default /\ focus = None
    /\ sent = <<>> /\ answers = {}
    /\ wanted = Default /\ posted = <<>> /\ written = Default
    /\ cut = FALSE /\ putBack = FALSE /\ missed = FALSE /\ crashes = 0

Next ==
    \/ \E k \in Keys \union {None} : Focus(k)
    \/ \E v \in Values : SubmitConfig(v)
    \/ FetchStatus
    \/ \E a \in answers : ShowAnswer(a)
    \/ Serve
    \/ Connect
    \/ HangUp
    \/ SaveFails
    \/ Crash
    \/ Start

Spec == Init /\ [][Next]_vars

-----------------------------------------------------------------------------
\* A desktop that is started comes up with the last settings that were saved, also
\* when later ones could not be; a save that was cut short has lost all of them,
\* and leaves the defaults, not some of each.
SavedSurvives ==
    [][phase = "down" /\ phase' = "up" => config' = IF cut THEN Default ELSE written]_vars

\* The defaults, or what the page submitted at one time.
Known == {Default} \union {posted[i] : i \in DOMAIN posted}

\* Settings from two submissions are in force only while the second one is being
\* set, and then they are the first ones of the one and the others of the other;
\* what is saved is never mixed.
NeverMixed ==
    /\ phase \notin {"down", "applying"} => config \in Known
    /\ phase = "applying" =>
          \E old, new \in Known :
              config = [k \in Keys |-> IF k < next THEN new[k] ELSE old[k]]
    /\ written \in Known

\* When the user lets go of the widgets and the desktop stays up, the page comes to
\* show the settings it runs with, although an older answer may arrive after a
\* newer one: as long as the answers can be parsed, and no client that sends
\* nothing holds the server's thread for ever.
WidgetsFollow ==
    (/\ <>[](focus = None /\ phase # "down")
     /\ <>[](\A a \in answers : a.kind = "status" => a.body # None)
     /\ []<>~Serving("silent"))
        => <>[](widgets = config)

\* The page has submitted settings, nothing is under way, and the desktop has not
\* ended.
Settled ==
    crashes = 0 /\ phase = "up" /\ sent = <<>> /\ posted # <<>>

\* When nothing is under way and the desktop has not ended, the file has the user's
\* last choice for every setting. The exceptions are a choice that an answer from
\* before it has put back on the page, and a request whose settings had not
\* arrived when it was read or could not be saved.
AdjustmentsSaved == Settled /\ ~putBack /\ ~missed => file = wanted
=============================================================================
