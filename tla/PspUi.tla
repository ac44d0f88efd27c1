------------------------------- MODULE PspUi -------------------------------
(***************************************************************************)
(* The notification part of the PSP's screen: the history and the popup of *)
(* ui.c, fed by router_dispatch and driven by the pad, one frame of main.c *)
(* at a time. In a frame the pad acts first, then a received notification  *)
(* enters, then the screen is rendered, which is what ages the popup.      *)
(*                                                                         *)
(* Drawing is left out, and so are the statistics and the git status,      *)
(* which are overwritten by each packet and only printed.                  *)
(***************************************************************************)
EXTENDS Integers, Sequences

CONSTANTS
    Notifications,  \* app name, summary and body of a notification, as one
    Empty,          \* a notification whose app_name is the empty string
    HistorySize,    \* entries s_notif_history holds (5)
    PopupFrames     \* s_popup_ticks of a new popup (500)

ASSUME UiAssumption ==
    /\ Notifications # {}
    /\ Empty \notin Notifications
    /\ HistorySize \in Nat \ {0}
    /\ PopupFrames \in Nat \ {0}

VARIABLES
    history,     \* the first s_notif_history_count entries, newest first
    showing,     \* s_showing_history
    popup,       \* s_popup_active
    popupTicks,  \* s_popup_ticks
    popupNotif,  \* s_active_popup_notif
    selectHeld,  \* select_was_pressed
    circleHeld   \* circle_was_pressed

uiVars == <<history, showing, popup, popupTicks, popupNotif, selectHeld,
            circleHeld>>

\* The part of the state one frame works on; the operators below are the calls
\* the frame makes, in order.
Screen == [history : Seq(Notifications), popup : BOOLEAN,
           popupTicks : 0..PopupFrames, popupNotif : Notifications \cup {Empty}]

-----------------------------------------------------------------------------
Raise(s, n) ==
    [history |-> s.history, popup |-> TRUE, popupTicks |-> PopupFrames,
     popupNotif |-> n]

Lower(s) ==
    [history |-> s.history, popup |-> FALSE, popupTicks |-> 0,
     popupNotif |-> s.popupNotif]

\* Seeded fault: a shown history is cleared before the popup is looked at.
CircleClearsFirst(s, shown) ==
    IF shown THEN [s EXCEPT !.history = <<>>]
    ELSE IF s.popup THEN Lower(s)
    ELSE s

\* ui_handle_circle_press: a popup is dismissed first; without one, CIRCLE
\* clears the history if it is being shown.
CirclePress(s, shown) ==
    IF s.popup THEN Lower(s)
    ELSE IF shown THEN [s EXCEPT !.history = <<>>]
    ELSE s

IsNewest(h, n) == h # <<>> /\ Head(h) = n

\* Seeded fault: the shift is bounded by the array's size, off by one.
PushOverruns(h, n) ==
    <<n>> \o SubSeq(h, 1, IF Len(h) < HistorySize THEN Len(h) ELSE HistorySize)

\* The array shifts right by one and its last entry falls off the end.
Push(h, n) ==
    <<n>> \o SubSeq(h, 1, IF Len(h) < HistorySize THEN Len(h) ELSE HistorySize - 1)

\* Seeded fault: only a notification that is up counts as a repetition.
AddNotificationAgain(s, n) ==
    IF n = Empty THEN s
    ELSE IF s.popup /\ IsNewest(s.history, n) THEN s
    ELSE Raise([s EXCEPT !.history = Push(s.history, n)], n)

\* ui_add_notification: a repetition of the newest entry is not recorded again,
\* it only raises the popup when none is up.
AddNotification(s, n) ==
    IF n = Empty THEN s
    ELSE IF IsNewest(s.history, n)
    THEN IF s.popup THEN s ELSE Raise(s, n)
    ELSE Raise([s EXCEPT !.history = Push(s.history, n)], n)

\* Seeded fault: the popup is not lowered when its time is over.
AgeStays(s) ==
    IF s.popup /\ s.popupTicks > 0
    THEN [s EXCEPT !.popupTicks = s.popupTicks - 1] ELSE s

\* The end of ui_render: a popup is drawn once more at zero ticks, and lowered.
Age(s) ==
    IF ~s.popup THEN s
    ELSE IF s.popupTicks > 0 THEN [s EXCEPT !.popupTicks = s.popupTicks - 1]
    ELSE Lower(s)

-----------------------------------------------------------------------------
Current == [history |-> history, popup |-> popup, popupTicks |-> popupTicks,
            popupNotif |-> popupNotif]

Become(s) ==
    /\ history' = s.history
    /\ popup' = s.popup
    /\ popupTicks' = s.popupTicks
    /\ popupNotif' = s.popupNotif

\* Seeded fault: CIRCLE acts in every frame it is down.
CircleActsHeld(circle) == circle

\* SELECT and CIRCLE act when they go down, not while they are held.
SelectActs(select) == select /\ ~selectHeld
CircleActs(circle) == circle /\ ~circleHeld

\* One frame with these buttons down and the notification n received; n is
\* Empty in a frame that received none.
Frame(select, circle, n) ==
    LET shown   == IF SelectActs(select) THEN ~showing ELSE showing
        pressed == IF CircleActs(circle) THEN CirclePress(Current, shown)
                                         ELSE Current
    IN  /\ Become(Age(AddNotification(pressed, n)))
        /\ showing' = shown
        /\ selectHeld' = select
        /\ circleHeld' = circle

Init ==
    /\ history = <<>>
    /\ showing = FALSE
    /\ popup = FALSE
    /\ popupTicks = 0
    /\ popupNotif = Empty
    /\ selectHeld = FALSE
    /\ circleHeld = FALSE

Next == \E select, circle \in BOOLEAN, n \in Notifications \cup {Empty} :
            Frame(select, circle, n)

\* The frame loop keeps running while the application does.
Spec == Init /\ [][Next]_uiVars /\ WF_uiVars(Next)

-----------------------------------------------------------------------------
\* The counters stay in their ranges and the history within its array.
TypeOK ==
    /\ Current \in Screen
    /\ Len(history) <= HistorySize
    /\ showing \in BOOLEAN /\ selectHeld \in BOOLEAN /\ circleHeld \in BOOLEAN

\* A popup on screen is always the newest entry of the history: dismissing,
\* clearing and repeated notifications never leave a popup whose entry is gone
\* or covered.
PopupIsNewest == popup => IsNewest(history, popupNotif)

\* The duplicate check works across shifts and clears: no two neighbouring
\* entries of the history are equal.
NoAdjacentDuplicates ==
    \A i \in 1..(Len(history) - 1) : history[i] # history[i + 1]

\* One press of CIRCLE does one thing: the press that dismisses a popup never
\* goes on, in the following frames of the same press, to clear the history.
DismissKeepsHistory ==
    [][circleHeld /\ circleHeld' /\ history # <<>> => history' # <<>>]_uiVars

\* A frame that raises the popup leaves it aged by just that frame.
Raised == popup' /\ popupTicks' = PopupFrames - 1

\* A popup leaves the screen by itself, unless notifications keep raising it.
PopupExpires == []<>~popup \/ []<><<Raised>>_uiVars
=============================================================================
