--------------------------- MODULE PspScreen_proofs ---------------------------
(***************************************************************************)
(* The PSP's screen, for every value of the constants: first the state     *)
(* behind it (PspUi), then where its texts are put (Layout).               *)
(***************************************************************************)
EXTENDS Layout, SequenceTheorems, TLAPS

-----------------------------------------------------------------------------
(***************************************************************************)
(* The notification screen, for every history size, popup time and set of  *)
(* notifications: its types, and that a popup is the newest entry of the   *)
(* history. Each call a frame makes is shown to take a good screen to a    *)
(* good screen; a frame is their composition.                              *)
(***************************************************************************)
\* Stronger than the type: within the array's bounds, popups being newest.
Bounded(s) == s \in Screen /\ Len(s.history) <= HistorySize
Newest(s)  == s.popup => IsNewest(s.history, s.popupNotif)
NoRepeats(h) == \A i \in 1..(Len(h) - 1) : h[i] # h[i + 1]

Good(s) == Bounded(s) /\ Newest(s) /\ NoRepeats(s.history)

LEMMA PushFacts ==
    ASSUME NEW h \in Seq(Notifications), NEW n \in Notifications,
           Len(h) <= HistorySize
    PROVE  /\ Push(h, n) \in Seq(Notifications)
           /\ IsNewest(Push(h, n), n)
           /\ Len(Push(h, n)) <= HistorySize
           /\ Len(Push(h, n)) <= Len(h) + 1
           /\ \A i \in 1..(Len(Push(h, n)) - 1) : Push(h, n)[i + 1] = h[i]
<1> DEFINE m == IF Len(h) < HistorySize THEN Len(h) ELSE HistorySize - 1
           t == SubSeq(h, 1, m)
<1>1. m \in 0..Len(h) /\ m + 1 <= HistorySize
  BY UiAssumption
<1>2. /\ t \in Seq(Notifications) /\ Len(t) = m
      /\ \A i \in 1..m : t[i] = h[i]
  <2> HIDE DEF m
  <2>1. QED
    BY <1>1
<1>3. Push(h, n) = <<n>> \o t
  BY DEF Push
<1> HIDE DEF t, m
<1>4. /\ <<n>> \o t \in Seq(Notifications)
      /\ Len(<<n>> \o t) = m + 1
      /\ (<<n>> \o t)[1] = n
      /\ \A i \in 1..m : (<<n>> \o t)[i + 1] = t[i]
  BY <1>1, <1>2
<1>5. QED
  BY <1>1, <1>2, <1>3, <1>4 DEF IsNewest
-----------------------------------------------------------------------------
\* A screen given by its fields, and what EXCEPT makes of one.
ScreenOf(h, p, k, n) ==
    [history |-> h, popup |-> p, popupTicks |-> k, popupNotif |-> n]

LEMMA GoodFields ==
    ASSUME NEW h \in Seq(Notifications), NEW p \in BOOLEAN,
           NEW k \in 0..PopupFrames, NEW n \in Notifications \cup {Empty},
           Len(h) <= HistorySize, NoRepeats(h), p => IsNewest(h, n)
    PROVE  Good(ScreenOf(h, p, k, n))
<1>1. ScreenOf(h, p, k, n) \in Screen
  BY DEF ScreenOf, Screen
<1>2. /\ ScreenOf(h, p, k, n).history = h /\ ScreenOf(h, p, k, n).popup = p
      /\ ScreenOf(h, p, k, n).popupNotif = n
  BY DEF ScreenOf
<1>3. QED
  BY <1>1, <1>2 DEF Good, Bounded, Newest

LEMMA ScreenFields ==
    ASSUME NEW s \in Screen
    PROVE  /\ s.history \in Seq(Notifications) /\ s.popup \in BOOLEAN
           /\ s.popupTicks \in 0..PopupFrames
           /\ s.popupNotif \in Notifications \cup {Empty}
           /\ s = ScreenOf(s.history, s.popup, s.popupTicks, s.popupNotif)
           /\ \A n : Raise(s, n) = ScreenOf(s.history, TRUE, PopupFrames, n)
           /\ Lower(s) = ScreenOf(s.history, FALSE, 0, s.popupNotif)
           /\ [s EXCEPT !.history = <<>>]
                = ScreenOf(<<>>, s.popup, s.popupTicks, s.popupNotif)
           /\ \A k : [s EXCEPT !.popupTicks = k]
                = ScreenOf(s.history, s.popup, k, s.popupNotif)
<1>1. /\ s.history \in Seq(Notifications) /\ s.popup \in BOOLEAN
      /\ s.popupTicks \in 0..PopupFrames
      /\ s.popupNotif \in Notifications \cup {Empty}
  BY DEF Screen
<1>2. s = ScreenOf(s.history, s.popup, s.popupTicks, s.popupNotif)
  BY DEF Screen, ScreenOf
<1>3. ASSUME NEW n
      PROVE  Raise(s, n) = ScreenOf(s.history, TRUE, PopupFrames, n)
  BY DEF ScreenOf, Raise
<1>4. Lower(s) = ScreenOf(s.history, FALSE, 0, s.popupNotif)
  BY DEF ScreenOf, Lower
<1>5. [s EXCEPT !.history = <<>>]
        = ScreenOf(<<>>, s.popup, s.popupTicks, s.popupNotif)
  BY DEF Screen, ScreenOf
<1>6. ASSUME NEW k
      PROVE  [s EXCEPT !.popupTicks = k]
               = ScreenOf(s.history, s.popup, k, s.popupNotif)
  BY DEF Screen, ScreenOf
<1>7. /\ \A n : Raise(s, n) = ScreenOf(s.history, TRUE, PopupFrames, n)
      /\ \A k : [s EXCEPT !.popupTicks = k]
           = ScreenOf(s.history, s.popup, k, s.popupNotif)
  BY <1>3, <1>6
<1>8. QED
  BY <1>1, <1>2, <1>4, <1>5, <1>7

LEMMA LowerGood ==
    ASSUME NEW s, Good(s)
    PROVE  Good(Lower(s))
<1>1. s \in Screen /\ Len(s.history) <= HistorySize /\ NoRepeats(s.history)
  BY DEF Good, Bounded
<1>2. /\ s.history \in Seq(Notifications)
      /\ s.popupNotif \in Notifications \cup {Empty}
      /\ Lower(s) = ScreenOf(s.history, FALSE, 0, s.popupNotif)
  BY <1>1, ScreenFields
<1>3. FALSE \in BOOLEAN /\ 0 \in 0..PopupFrames
      /\ (FALSE => IsNewest(s.history, s.popupNotif))
  BY UiAssumption
<1>4. Good(ScreenOf(s.history, FALSE, 0, s.popupNotif))
  BY <1>1, <1>2, <1>3, GoodFields, Zenon
<1>5. QED
  BY <1>2, <1>4

\* The calls of a frame.
LEMMA CircleGood ==
    ASSUME NEW s, Good(s), NEW shown \in BOOLEAN
    PROVE  Good(CirclePress(s, shown))
<1>0. s \in Screen /\ Len(s.history) <= HistorySize /\ NoRepeats(s.history)
  BY DEF Good, Bounded
<1>1. CASE s.popup
  <2>1. CirclePress(s, shown) = Lower(s)
    BY <1>1, Zenon DEF CirclePress
  <2>2. QED
    BY <2>1, LowerGood
<1>2. CASE ~s.popup /\ shown
  <2>1. <<>> \in Seq(Notifications) /\ Len(<<>>) <= HistorySize /\ NoRepeats(<<>>)
    BY UiAssumption DEF NoRepeats
  <2>2. Good(ScreenOf(<<>>, s.popup, s.popupTicks, s.popupNotif))
    BY <1>0, <1>2, <2>1, ScreenFields, GoodFields
  <2>3. CirclePress(s, shown) = [s EXCEPT !.history = <<>>]
    BY <1>2, Zenon DEF CirclePress
  <2>4. QED
    BY <1>0, <2>2, <2>3, ScreenFields
<1>3. CASE ~s.popup /\ ~shown
  BY <1>3 DEF CirclePress
<1>4. QED
  BY <1>1, <1>2, <1>3

LEMMA RaiseGood ==
    ASSUME NEW s, Bounded(s), NoRepeats(s.history),
           NEW n \in Notifications, IsNewest(s.history, n)
    PROVE  Good(Raise(s, n))
<1>1. s \in Screen /\ Len(s.history) <= HistorySize
  BY DEF Bounded
<1>2. Good(ScreenOf(s.history, TRUE, PopupFrames, n))
  <2>1. PopupFrames \in 0..PopupFrames
    BY UiAssumption
  <2>2. QED
    BY <1>1, <2>1, ScreenFields, GoodFields
<1>3. QED
  BY <1>1, <1>2, ScreenFields

LEMMA AddGood ==
    ASSUME NEW s, Good(s), NEW n \in Notifications \cup {Empty}
    PROVE  Good(AddNotification(s, n))
<1>1. CASE n = Empty
  BY <1>1 DEF AddNotification
<1>2. CASE n # Empty /\ IsNewest(s.history, n)
  BY <1>2, RaiseGood DEF AddNotification, Good
<1>3. CASE n # Empty /\ ~IsNewest(s.history, n)
  <2> DEFINE h == Push(s.history, n)
             t == [s EXCEPT !.history = h]
  <2>1. n \in Notifications /\ s.history \in Seq(Notifications)
        /\ Len(s.history) <= HistorySize /\ s \in Screen
    BY <1>3 DEF Good, Bounded, Screen
  <2>2. /\ h \in Seq(Notifications) /\ Len(h) <= HistorySize /\ IsNewest(h, n)
        /\ Len(h) <= Len(s.history) + 1
        /\ \A i \in 1..(Len(h) - 1) : h[i + 1] = s.history[i]
    BY <2>1, PushFacts
  <2>3. NoRepeats(h)
    <3> HIDE DEF h
    <3>1. SUFFICES ASSUME NEW i \in 1..(Len(h) - 1)
                   PROVE  h[i] # h[i + 1]
      BY DEF NoRepeats
    <3>2. CASE i = 1
      <4>1. h[1] = n /\ h[2] = s.history[1] /\ s.history # <<>>
        BY <2>1, <2>2, <3>2 DEF IsNewest
      <4>2. QED
        BY <1>3, <2>1, <3>2, <4>1 DEF IsNewest
    <3>3. CASE i # 1
      <4>1. i - 1 \in 1..(Len(s.history) - 1) /\ i - 1 \in 1..(Len(h) - 1)
        BY <2>1, <2>2, <3>3
      <4>2. h[i] = s.history[i - 1] /\ h[i + 1] = s.history[i]
        BY <2>2, <3>3, <4>1
      <4>3. s.history[i - 1] # s.history[(i - 1) + 1]
        BY <4>1 DEF Good, NoRepeats
      <4>4. QED
        BY <4>2, <4>3
    <3>4. QED
      BY <3>2, <3>3
  <2>4. t \in Screen /\ t.history = h
    <3> HIDE DEF h
    <3>1. QED
      BY <2>1, <2>2 DEF Screen
  <2>5. Good(Raise(t, n))
    <3> HIDE DEF h, t
    <3>1. QED
      BY <2>1, <2>2, <2>3, <2>4, RaiseGood DEF Bounded
  <2>6. QED
    BY <1>3, <2>5 DEF AddNotification
<1>4. QED
  BY <1>1, <1>2, <1>3

LEMMA AgeGood ==
    ASSUME NEW s, Good(s)
    PROVE  Good(Age(s))
<1> USE DEF Good, Bounded, Newest, NoRepeats, Screen
<1>1. CASE s.popup /\ s.popupTicks > 0
  BY <1>1, UiAssumption DEF Age
<1>2. CASE s.popup /\ ~(s.popupTicks > 0)
  <2>1. Age(s) = Lower(s)
    BY <1>2, Zenon DEF Age
  <2>2. QED
    BY <2>1, LowerGood
<1>3. CASE ~s.popup
  BY <1>3 DEF Age
<1>4. QED
  BY <1>1, <1>2, <1>3

-----------------------------------------------------------------------------
UiInv == /\ Good(Current)
         /\ showing \in BOOLEAN /\ selectHeld \in BOOLEAN /\ circleHeld \in BOOLEAN

LEMMA FrameGood ==
    ASSUME UiInv, NEW select \in BOOLEAN, NEW circle \in BOOLEAN,
           NEW n \in Notifications \cup {Empty}, Frame(select, circle, n)
    PROVE  UiInv'
<1> DEFINE shown   == IF SelectActs(select) THEN ~showing ELSE showing
           pressed == IF CircleActs(circle) THEN CirclePress(Current, shown)
                                            ELSE Current
           after   == Age(AddNotification(pressed, n))
<1>1. shown \in BOOLEAN
  BY DEF UiInv
<1>2. Good(pressed)
  <2>1. Good(Current)
    BY DEF UiInv
  <2>2. Good(CirclePress(Current, shown))
    <3> HIDE DEF shown
    <3>1. QED
      BY <1>1, <2>1, CircleGood
  <2>3. QED
    BY <2>1, <2>2
<1>3. Good(after)
  <2> HIDE DEF pressed
  <2>1. QED
    BY <1>2, AddGood, AgeGood
<1>4. /\ Become(after) /\ showing' = shown
      /\ selectHeld' = select /\ circleHeld' = circle
  BY DEF Frame
<1>5. Current' = after
  <2> HIDE DEF after
  <2>1. after \in Screen
    BY <1>3 DEF Good, Bounded
  <2>2. QED
    BY <1>4, <2>1 DEF Current, Become, Screen
<1>6. Good(Current')
  <2> HIDE DEF after
  <2>1. QED
    BY <1>3, <1>5
<1>7. showing' \in BOOLEAN /\ selectHeld' \in BOOLEAN /\ circleHeld' \in BOOLEAN
  <2> HIDE DEF shown
  <2>1. QED
    BY <1>1, <1>4
<1>8. QED
  BY <1>6, <1>7 DEF UiInv, Good, Bounded, Newest, NoRepeats

LEMMA UiInduction ==
    /\ Init => UiInv
    /\ UiInv /\ [Next]_uiVars => UiInv'
<1>1. Init => UiInv
  <2> SUFFICES ASSUME Init PROVE UiInv
    OBVIOUS
  <2>1. Current = ScreenOf(<<>>, FALSE, 0, Empty)
    BY DEF Init, Current, ScreenOf
  <2>2. <<>> \in Seq(Notifications) /\ Len(<<>>) <= HistorySize /\ NoRepeats(<<>>)
        /\ 0 \in 0..PopupFrames
    BY UiAssumption DEF NoRepeats
  <2>3. Good(ScreenOf(<<>>, FALSE, 0, Empty))
    BY <2>2, GoodFields
  <2>4. showing \in BOOLEAN /\ selectHeld \in BOOLEAN /\ circleHeld \in BOOLEAN
    BY DEF Init
  <2>5. QED
    BY <2>1, <2>3, <2>4 DEF UiInv
<1>2. ASSUME UiInv, Next PROVE UiInv'
  BY <1>2, FrameGood DEF Next
<1>3. ASSUME UiInv, UNCHANGED uiVars PROVE UiInv'
  BY <1>3 DEF uiVars, UiInv, Good, Bounded, Newest, NoRepeats, Current
<1>4. QED
  BY <1>1, <1>2, <1>3

\* The counters stay in their ranges and the history within its array, for any
\* sequence of frames (ui.c:24-63, 85-97, 537-550).
THEOREM UiTypeCorrect == Spec => []TypeOK
<1>1. UiInv => TypeOK
  BY DEF UiInv, Good, Bounded, TypeOK, Current
<1>2. QED
  BY <1>1, UiInduction, PTL DEF Spec

\* A popup on screen is always the newest entry of the history.
THEOREM PopupCorrect == Spec => []PopupIsNewest
<1>1. UiInv => PopupIsNewest
  BY DEF UiInv, Good, Newest, PopupIsNewest, Current
<1>2. QED
  BY <1>1, UiInduction, PTL DEF Spec

\* The history never holds the same notification twice in a row.
THEOREM HistoryCorrect == Spec => []NoAdjacentDuplicates
<1>1. UiInv => NoAdjacentDuplicates
  BY DEF UiInv, Good, NoRepeats, NoAdjacentDuplicates, Current
<1>2. QED
  BY <1>1, UiInduction, PTL DEF Spec

\* Receiving and ageing never empty the history.
LEMMA HistoryStays ==
    ASSUME NEW s, Good(s), NEW n \in Notifications \cup {Empty}, s.history # <<>>
    PROVE  Age(AddNotification(s, n)).history # <<>>
<1> DEFINE a == AddNotification(s, n)
<1>1. s \in Screen /\ s.history \in Seq(Notifications) /\ Len(s.history) <= HistorySize
  BY DEF Good, Bounded, Screen
<1>2. a.history # <<>>
  <2>1. CASE n = Empty \/ (IsNewest(s.history, n) /\ s.popup)
    BY <2>1 DEF AddNotification
  <2>2. CASE n # Empty /\ IsNewest(s.history, n) /\ ~s.popup
    BY <2>2 DEF AddNotification, Raise
  <2>3. CASE n # Empty /\ ~IsNewest(s.history, n)
    <3> DEFINE h == Push(s.history, n)
               t == [s EXCEPT !.history = h]
    <3>1. h # <<>>
      BY <1>1, <2>3, PushFacts DEF IsNewest
    <3>2. a = Raise(t, n)
      BY <2>3 DEF AddNotification
    <3> HIDE DEF h
    <3>3. t.history = h
      BY <1>1 DEF Screen
    <3> HIDE DEF t, a
    <3>4. QED
      BY <3>1, <3>2, <3>3 DEF Raise
  <2>4. QED
    BY <2>1, <2>2, <2>3
<1>3. a \in Screen
  BY AddGood DEF Good, Bounded
<1> HIDE DEF a
<1>4. Age(a).history = a.history
  BY <1>3 DEF Age, Lower, Screen
<1>5. QED
  BY <1>2, <1>4 DEF a

\* One press of CIRCLE does one thing: the press that dismisses a popup does not
\* go on to clear the history in the frames it is held for, and neither does a
\* notification received or a popup's end in them (main.c:125-137, ui.c:24-63, 537-550).
THEOREM DismissCorrect == Spec => DismissKeepsHistory
<1>1. ASSUME UiInv, [Next]_uiVars, circleHeld, circleHeld', history # <<>>
      PROVE  history' # <<>>
  <2>1. CASE UNCHANGED uiVars
    BY <1>1, <2>1 DEF uiVars
  <2>2. CASE Next
    <3>1. PICK select \in BOOLEAN, circle \in BOOLEAN, n \in Notifications \cup {Empty} :
              Frame(select, circle, n)
      BY <2>2 DEF Next
    <3>2. ~CircleActs(circle)
      BY <1>1 DEF CircleActs
    <3>3. history' = Age(AddNotification(Current, n)).history
      BY <3>1, <3>2 DEF Frame, Become
    <3>4. Good(Current) /\ Current.history # <<>>
      BY <1>1 DEF UiInv, Current
    <3>5. QED
      BY <3>3, <3>4, HistoryStays
  <2>3. QED
    BY <1>1, <2>1, <2>2
<1>2. UiInv /\ [Next]_uiVars
        => [circleHeld /\ circleHeld' /\ history # <<>> => history' # <<>>]_uiVars
  BY <1>1
<1>3. QED
  BY <1>2, UiInduction, PTL DEF Spec, DismissKeepsHistory

-----------------------------------------------------------------------------
(***************************************************************************)
(* The texts of the PSP's screen, for every length the strings can have    *)
(* and every history they can form: notifications fit their rows, and no   *)
(* text is overwritten, but for the borders by a branch that is too long.  *)
(***************************************************************************)
Shown == Notifications \union {Empty}

\* The screen's invariant, and the types of what else decides on lengths.
ScreenInv ==
    /\ UiInv
    /\ current \in Shown
    /\ branch \in 0..31
    /\ memory \in 7..15
    /\ status \in 0..52

LEMMA ScreenInduction ==
    /\ ScreenInit => ScreenInv
    /\ ScreenInv /\ [ScreenNext]_screenVars => ScreenInv'
<1>1. ScreenInit => ScreenInv
  BY UiInduction, LayoutAssumption DEF ScreenInit, ScreenInv, Shown
<1>2. ASSUME ScreenInv, ScreenNext PROVE ScreenInv'
  <2>1. PICK select \in BOOLEAN, circle \in BOOLEAN, n \in Shown :
            Frame(select, circle, n) /\ Received(n) /\ UNCHANGED status
    BY <1>2 DEF ScreenNext, Shown
  <2>2. UiInv'
    BY <1>2, <2>1, UiInduction DEF ScreenInv, Next, Shown
  <2>3. current' \in Shown /\ branch' \in 0..31 /\ memory' \in 7..15
    BY <1>2, <2>1, LayoutAssumption DEF ScreenInv, Received, Shown
  <2>4. QED
    BY <1>2, <2>1, <2>2, <2>3 DEF ScreenInv
<1>3. ASSUME ScreenInv, UNCHANGED screenVars PROVE ScreenInv'
  <2>1. UiInv'
    BY <1>3, UiInduction DEF ScreenInv, screenVars
  <2>2. QED
    BY <1>3, <2>1 DEF ScreenInv, screenVars
<1>4. QED
  BY <1>1, <1>2, <1>3

-----------------------------------------------------------------------------
\* A text that was cut to its room, and its prefix, end where the room ends.
LEMMA CutFits ==
    ASSUME NEW row \in Nat, NEW col \in Nat, NEW prefix \in Nat,
           NEW wanted \in Nat, NEW room \in Nat,
           room >= 3, col + prefix + room <= Columns
    PROVE  LET t == CutText(row, col, prefix, wanted, room)
           IN  InRow(t) /\ (t.dots <=> t.len < t.wanted)
<1> DEFINE t == CutText(row, col, prefix, wanted, room)
<1>1. /\ t.col = col /\ t.len = prefix + Smaller(wanted, room)
      /\ t.wanted = prefix + wanted /\ t.dots = (wanted > room /\ room >= 3)
  BY DEF CutText
<1> HIDE DEF t
<1>2. Smaller(wanted, room) \in Nat /\ Smaller(wanted, room) <= room
  BY DEF Smaller
<1>3. InRow(t)
  BY <1>1, <1>2 DEF InRow, Columns
<1>4. CASE wanted > room
  <2>1. t.dots
    BY <1>1, <1>4
  <2>2. t.len < t.wanted
    BY <1>1, <1>4 DEF Smaller
  <2>3. QED
    BY <1>3, <2>1, <2>2 DEF t
<1>5. CASE ~(wanted > room)
  <2>1. ~t.dots
    BY <1>1, <1>5
  <2>2. ~(t.len < t.wanted)
    BY <1>1, <1>5 DEF Smaller
  <2>3. QED
    BY <1>3, <2>1, <2>2 DEF t
<1>6. QED
  BY <1>4, <1>5

LEMMA Lengths ==
    ASSUME NEW n \in Shown
    PROVE  /\ AppLen[n] \in 0..23 /\ SummaryLen[n] \in 0..51
           /\ BodyLen[n] \in 0..51 /\ MessageLen(n) \in Nat
<1>1. AppLen[n] \in 0..23 /\ SummaryLen[n] \in 0..51 /\ BodyLen[n] \in 0..51
  BY LayoutAssumption DEF Shown
<1>2. QED
  BY <1>1 DEF MessageLen

LEMMA EntryFits ==
    ASSUME ScreenInv, NEW i \in DOMAIN history
    PROVE  InRow(Entry(i)) /\ (Entry(i).dots <=> Entry(i).len < Entry(i).wanted)
<1>1. history[i] \in Shown /\ i \in Nat
  BY DEF ScreenInv, UiInv, Good, Bounded, Screen, Current, Shown
<1> DEFINE n == history[i]
<1>2. AppLen[n] \in 0..23 /\ MessageLen(n) \in Nat
  BY <1>1, Lengths
<1>3. /\ EntryPrefix(n) \in Nat /\ EntryRoom(n) \in Nat /\ EntryRow(i) \in Nat
      /\ EntryRoom(n) >= 3 /\ 2 + EntryPrefix(n) + EntryRoom(n) <= Columns
  <2> HIDE DEF n
  <2>1. QED
    BY <1>1, <1>2 DEF EntryPrefix, EntryRoom, EntryRow, Columns
<1>4. QED
  BY <1>2, <1>3, CutFits DEF Entry

LEMMA TickerFits ==
    ASSUME ScreenInv
    PROVE  InRow(Ticker) /\ (Ticker.dots <=> Ticker.len < Ticker.wanted)
<1>1. AppLen[current] \in 0..23 /\ MessageLen(current) \in Nat
  BY Lengths DEF ScreenInv
<1>2. CASE connected /\ AppLen[current] > 0
  <2> DEFINE prefix == 8 + AppLen[current] + 2
  <2>1. /\ prefix \in Nat /\ 66 - prefix \in Nat /\ 66 - prefix >= 3
        /\ 1 + prefix + (66 - prefix) <= Columns
    BY <1>1 DEF Columns
  <2>2. Ticker = CutText(22, 1, prefix, MessageLen(current), 66 - prefix)
    BY <1>2 DEF Ticker
  <2> HIDE DEF prefix
  <2>3. QED
    BY ZenonT(30), <1>1, <2>1, <2>2, CutFits
<1>3. CASE ~(connected /\ AppLen[current] > 0)
  BY <1>3 DEF Ticker, Text, InRow, Columns
<1>4. QED
  BY <1>2, <1>3

LEMMA PopupFits ==
    ASSUME ScreenInv, NEW t \in Popup
    PROVE  t.col + t.len <= IF Larger(SummaryLen[popupNotif], BodyLen[popupNotif]) <= 38
                            THEN 57 ELSE 59
<1>1. popupNotif \in Shown
  BY DEF ScreenInv, UiInv, Good, Bounded, Screen, Current, Shown
<1>2. PICK a \in 0..23, b \in 0..51, c \in 0..51 :
          a = AppLen[popupNotif] /\ b = SummaryLen[popupNotif] /\ c = BodyLen[popupNotif]
  BY <1>1, Lengths
<1>3. t \in {Text(8, 12, 18), Text(9, 12, 7 + a), Text(10, 12, 7 + Smaller(b, 40)),
             Text(11, 12, 7 + Smaller(c, 40)), Text(13, 12, 37)}
  BY <1>2 DEF Popup
<1>4. t.col = 12
      /\ t.len \in {18, 7 + a, 7 + Smaller(b, 40), 7 + Smaller(c, 40), 37}
  BY <1>3 DEF Text
<1>5. t.col + t.len <= IF Larger(b, c) <= 38 THEN 57 ELSE 59
  BY <1>2, <1>4 DEF Smaller, Larger
<1>6. QED
  BY <1>2, <1>5

\* Whatever the lengths of its strings, a notification stays in its row of the
\* drawer and the ticker, cut exactly where dots say so, and goes at most one
\* column over the popup's border (ui.c:139-157, 295-323, 475-515).
THEOREM NotificationsFitCorrect == ScreenSpec => []NotificationsFit
<1>1. ScreenInv => NotificationsFit
  <2> SUFFICES ASSUME ScreenInv PROVE NotificationsFit
    OBVIOUS
  <2>1. \A t \in {Entry(i) : i \in DOMAIN history} \union {Ticker} :
            InRow(t) /\ (t.dots <=> t.len < t.wanted)
    BY EntryFits, TickerFits
  <2>2. \A t \in Popup :
            t.col + t.len <= IF Larger(SummaryLen[popupNotif], BodyLen[popupNotif]) <= 38
                             THEN 57 ELSE 59
    BY PopupFits
  <2>3. QED
    BY <2>1, <2>2 DEF NotificationsFit
<1>2. QED
  BY <1>1, ScreenInduction, PTL DEF ScreenSpec

-----------------------------------------------------------------------------
\* Two texts of which neither overwrites the other, or that are the exception.
Clear(s, t) == Apart(s, t) \/ BranchOverBorder(s, t)

\* The texts of T are clear of each other, within the cells from a to b.
ApartWithin(T, a, b) ==
    /\ \A t \in T : First(t) \in Int /\ Last(t) \in Int /\ First(t) >= a /\ Last(t) <= b
    /\ \A s, t \in T : s # t => Clear(s, t)

LEMMA HeaderApart ==
    ASSUME ScreenInv
    PROVE  ApartWithin(Header, 0, 408)
<1> DEFINE a == Text(0, 0, 65)
           b == Text(1, 0, 62)
           c == Text(2, 0, 65)
           d == Text(4, 2, 40)
           e == Text(5, 2, 15 + status)
<1>1. status \in 0..52 /\ 15 + status \in Nat
  BY DEF ScreenInv
<1>2. /\ First(a) = 0   /\ Last(a) = 64
      /\ First(b) = 68  /\ Last(b) = 129
      /\ First(c) = 136 /\ Last(c) = 200
      /\ First(d) = 274 /\ Last(d) = 313
      /\ First(e) = 342 /\ Last(e) = 342 + (15 + status) - 1
  BY <1>1 DEF Text, First, Last, Columns
<1>3. Header = {a, b, c, d, e}
  BY DEF Header
<1> HIDE DEF a, b, c, d, e
<1>4. QED
  BY <1>1, <1>2, <1>3 DEF ApartWithin, Clear, Apart

LEMMA FooterApart ==
    ApartWithin(Footer, 1224, 1424)
<1> DEFINE a == Text(18, 0, 65)
           b == Text(19, 0, 67)
           c == Text(20, 0, 65)
<1>1. /\ First(a) = 1224 /\ Last(a) = 1288
      /\ First(b) = 1292 /\ Last(b) = 1358
      /\ First(c) = 1360 /\ Last(c) = 1424
  BY DEF Text, First, Last, Columns
<1>2. Footer = {a, b, c}
  BY DEF Footer
<1> HIDE DEF a, b, c
<1>3. QED
  BY <1>1, <1>2 DEF ApartWithin, Clear, Apart

LEMMA BottomApart ==
    ASSUME ScreenInv
    PROVE  ApartWithin({Ticker} \union Fill, 1497, 1630)
<1>1. AppLen[current] \in 0..23 /\ MessageLen(current) \in Nat
  BY Lengths DEF ScreenInv
<1>2. Ticker.row = 22 /\ Ticker.col = 1 /\ Ticker.len \in 1..66
  <2>1. CASE connected /\ AppLen[current] > 0
    <3> DEFINE prefix == 8 + AppLen[current] + 2
               text   == MessageLen(current)
    <3>1. Ticker = CutText(22, 1, prefix, text, 66 - prefix)
      BY <2>1 DEF Ticker
    <3>2. prefix \in 11..33 /\ text \in Nat
      BY <1>1, <2>1
    <3> HIDE DEF prefix, text
    <3>3. /\ Ticker.row = 22 /\ Ticker.col = 1
          /\ Ticker.len = prefix + Smaller(text, 66 - prefix)
      BY <3>1 DEF CutText
    <3>4. QED
      BY <3>2, <3>3 DEF Smaller
  <2>2. CASE ~(connected /\ AppLen[current] > 0)
    BY <2>2 DEF Ticker, Text
  <2>3. QED
    BY <2>1, <2>2
<1> DEFINE t == Ticker
           a == Text(22, 1 + Ticker.len, 67 - Ticker.len)
           b == Text(23, 1, 66)
<1>3. PICK l \in 1..66 : l = Ticker.len
  BY <1>2
<1>4. /\ First(t) = 1497 /\ Last(t) = 1497 + l - 1
      /\ First(a) = 1497 + l /\ Last(a) = 1563
      /\ First(b) = 1565 /\ Last(b) = 1630
  BY <1>2, <1>3 DEF Text, First, Last, Columns
<1>5. {Ticker} \union Fill = {t, a, b}
  BY DEF Fill
<1> HIDE DEF t, a, b
<1>6. QED
  BY <1>4, <1>5 DEF ApartWithin, Clear, Apart

LEMMA EntryCells ==
    ASSUME ScreenInv, NEW i \in DOMAIN history
    PROVE  /\ i \in 1..5
           /\ First(Entry(i)) = (7 + i) * 68 + 2
           /\ Last(Entry(i)) \in Int /\ Last(Entry(i)) < (8 + i) * 68
<1>1. /\ history \in Seq(Notifications) /\ Len(history) <= HistorySize
      /\ HistorySize \in Nat /\ HistorySize <= 5
  BY UiAssumption, LayoutAssumption DEF ScreenInv, UiInv, Good, Bounded, Screen, Current
<1>2. i \in 1..5
  <2>1. i \in 1..Len(history) /\ Len(history) \in Nat
    BY <1>1, LenProperties
  <2>2. QED
    BY <1>1, <2>1
<1>3. Entry(i).row = 7 + i /\ Entry(i).col = 2 /\ Entry(i).len \in Int
  <2> DEFINE n == history[i]
  <2>1. n \in Shown
    BY <1>1 DEF Shown
  <2>2. AppLen[n] \in 0..23 /\ MessageLen(n) \in Nat
    BY <2>1, Lengths
  <2>3. Entry(i) = CutText(EntryRow(i), 2, EntryPrefix(n), MessageLen(n), EntryRoom(n))
    BY DEF Entry
  <2> HIDE DEF n
  <2>4. EntryPrefix(n) \in Nat /\ EntryRoom(n) \in Int
    BY <2>2 DEF EntryPrefix, EntryRoom
  <2>5. Smaller(MessageLen(n), EntryRoom(n)) \in Int
    BY <2>2, <2>4 DEF Smaller
  <2>6. QED
    BY <2>3, <2>4, <2>5 DEF CutText, EntryRow
<1>4. 2 + Entry(i).len <= 68
  BY <1>3, EntryFits DEF InRow, Columns
<1>5. QED
  BY <1>2, <1>3, <1>4 DEF First, Last, Columns

LEMMA DrawerApart ==
    ASSUME ScreenInv
    PROVE  ApartWithin(Drawer, 410, 1061)
<1> DEFINE a == Text(6, 2, 44)
           b == Text(15, 2, 40)
           c == Text(10, 5, 31)
<1>1. /\ First(a) = 410  /\ Last(a) = 453
      /\ First(b) = 1022 /\ Last(b) = 1061
      /\ First(c) = 685  /\ Last(c) = 715
  BY DEF Text, First, Last, Columns
<1>2. Drawer = {a, b} \union IF history = <<>> THEN {c} ELSE {Entry(i) : i \in DOMAIN history}
  BY DEF Drawer
<1> HIDE DEF a, b, c
<1>3. CASE history = <<>>
  BY <1>1, <1>2, <1>3 DEF ApartWithin, Clear, Apart
<1>4. CASE history # <<>>
  <2>1. ASSUME NEW t \in Drawer
        PROVE  t = a \/ t = b \/ \E i \in DOMAIN history : t = Entry(i)
    BY <1>2, <1>4
  <2>2. ASSUME NEW i \in DOMAIN history
        PROVE  /\ First(Entry(i)) >= 546 /\ Last(Entry(i)) < 884
               /\ First(Entry(i)) \in Int /\ Last(Entry(i)) \in Int
    BY EntryCells
  <2>3. ASSUME NEW t \in Drawer
        PROVE  First(t) \in Int /\ Last(t) \in Int /\ First(t) >= 410 /\ Last(t) <= 1061
    BY <1>1, <2>1, <2>2
  <2>4. ASSUME NEW i \in DOMAIN history, NEW j \in DOMAIN history, Entry(i) # Entry(j)
        PROVE  Apart(Entry(i), Entry(j))
    <3>1. i # j
      BY <2>4
    <3>2. QED
      BY <2>4, <3>1, EntryCells DEF Apart
  <2>5. ASSUME NEW s \in Drawer, NEW t \in Drawer, s # t
        PROVE  Apart(s, t)
    <3>1. CASE s \in {a, b} /\ t \in {a, b}
      BY <1>1, <2>5, <3>1 DEF Apart
    <3>2. CASE s \in {a, b} /\ \E i \in DOMAIN history : t = Entry(i)
      BY <1>1, <2>2, <3>2 DEF Apart
    <3>3. CASE t \in {a, b} /\ \E i \in DOMAIN history : s = Entry(i)
      BY <1>1, <2>2, <3>3 DEF Apart
    <3>4. CASE (\E i \in DOMAIN history : s = Entry(i)) /\ (\E i \in DOMAIN history : t = Entry(i))
      BY <2>4, <2>5, <3>4
    <3>5. QED
      BY <2>1, <3>1, <3>2, <3>3, <3>4
  <2>6. QED
    BY <2>3, <2>5 DEF ApartWithin, Clear
<1>5. QED
  BY <1>3, <1>4

\* Two parts of the screen, one behind the other.
LEMMA BothApart ==
    ASSUME NEW S, NEW T, NEW a \in Int, NEW b \in Int, NEW c \in Int, NEW d \in Int,
           ApartWithin(S, a, b), ApartWithin(T, c, d), a <= b, b < c, c <= d
    PROVE  ApartWithin(S \union T, a, d)
<1>1. ASSUME NEW t \in S \union T
      PROVE  First(t) \in Int /\ Last(t) \in Int /\ First(t) >= a /\ Last(t) <= d
  BY DEF ApartWithin
<1>2. ASSUME NEW s \in S \union T, NEW t \in S \union T, s # t
      PROVE  Clear(s, t)
  <2>1. CASE s \in S /\ t \in T
    BY <2>1 DEF ApartWithin, Clear, Apart
  <2>2. CASE s \in T /\ t \in S
    BY <2>2 DEF ApartWithin, Clear, Apart
  <2>3. QED
    BY <1>2, <2>1, <2>2 DEF ApartWithin
<1>3. QED
  BY <1>1, <1>2 DEF ApartWithin

\* What is on the two cards: their top and bottom lines, the ends of the rows
\* between those, and texts, of which each card has at most three in a row.
IsLine(t)  == /\ t.row \in {6, 16}
              /\ \/ t.col = 1 /\ t.len = 28
                 \/ t.col = 34 /\ t.len = 29
IsSide(t)  == t.row \in 7..15 /\ t.col \in {1, 28, 34, 62} /\ t.len = 1
IsLeft(t)  == /\ t.row \in {8, 10, 12, 14} /\ t.len \in Nat
              /\ \/ t.col = 3 /\ t.len <= 25 /\ (connected /\ t.row <= 10 => t.len = 5)
                 \/ t.col = 8 /\ t.len = 12 /\ connected /\ t.row <= 10
                 \/ t.col = 20 /\ t.len = 4 /\ connected /\ t.row <= 10
IsRight(t) == /\ t.row \in {8, 10, 12, 14} /\ t.col = 36 /\ t.len \in Nat
              /\ \/ t.len <= 26
                 \/ t = BranchText /\ t.row = 8 /\ branch > 18 /\ t.len = 8 + branch

Cards == CardBorders \union LeftCard \union RightCard

LEMMA CardTexts ==
    ASSUME ScreenInv, NEW t \in Cards
    PROVE  /\ IsLine(t) \/ IsSide(t) \/ IsLeft(t) \/ IsRight(t)
           /\ IsSide(t) => t \in SideBorders
           /\ t = Text(t.row, t.col, t.len)
<1>1. branch \in 0..31 /\ memory \in 7..15
  BY DEF ScreenInv
<1>2. CASE t \in SideBorders
  <2>1. PICK r \in 7..15, c \in {1, 28, 34, 62} : t = Text(r, c, 1)
    BY <1>2 DEF SideBorders
  <2>2. QED
    BY <1>2, <2>1 DEF Text, IsSide
<1>3. CASE t \in CardBorders \ SideBorders
  <2>1. t \in {Text(r, 1, 28) : r \in {6, 16}} \/ t \in {Text(r, 34, 29) : r \in {6, 16}}
    BY <1>3 DEF CardBorders
  <2>2. CASE t \in {Text(r, 1, 28) : r \in {6, 16}}
    <3>1. PICK r \in {6, 16} : t = Text(r, 1, 28)
      BY <2>2
    <3>2. QED
      BY <3>1 DEF Text, IsLine, IsSide
  <2>3. CASE t \in {Text(r, 34, 29) : r \in {6, 16}}
    <3>1. PICK r \in {6, 16} : t = Text(r, 34, 29)
      BY <2>3
    <3>2. QED
      BY <3>1 DEF Text, IsLine, IsSide
  <2>4. QED
    BY <2>1, <2>2, <2>3
<1>4. CASE t \in LeftCard
  <2>1. PICK r \in {8, 10, 12, 14}, c \in {3, 8, 20}, l \in Nat :
          /\ t = Text(r, c, l)
          /\ \/ c = 3 /\ l <= 25 /\ (connected /\ r <= 10 => l = 5)
             \/ c = 8 /\ l = 12 /\ connected /\ r <= 10
             \/ c = 20 /\ l = 4 /\ connected /\ r <= 10
    BY <1>1, <1>4 DEF LeftCard
  <2>2. t.row = r /\ t.col = c /\ t.len = l
    BY <2>1 DEF Text
  <2>3. IsLeft(t) /\ ~IsSide(t)
    BY <2>1, <2>2 DEF IsLeft, IsSide
  <2>4. QED
    BY <2>1, <2>2, <2>3
<1>5. CASE t \in RightCard
  <2>1. CASE t = BranchText
    <3>1. t.row = 8 /\ t.col = 36 /\ t.len = 8 + BranchShown
      BY <2>1 DEF BranchText, Text
    <3>2. IsRight(t) /\ ~IsSide(t)
      BY <1>1, <2>1, <3>1 DEF IsRight, IsSide, BranchShown, Larger
    <3>3. QED
      BY <2>1, <3>1, <3>2 DEF BranchText
  <2>2. CASE t # BranchText
    <3>1. PICK r \in {8, 10, 12, 14}, l \in {16, 22, 25} : t = Text(r, 36, l)
      BY <1>5, <2>2 DEF RightCard
    <3>2. t.row = r /\ t.col = 36 /\ t.len = l
      BY <3>1 DEF Text
    <3>3. IsRight(t) /\ ~IsSide(t)
      BY <3>1, <3>2 DEF IsRight, IsSide
    <3>4. QED
      BY <3>1, <3>2, <3>3
  <2>3. QED
    BY <2>1, <2>2
<1>6. QED
  BY <1>2, <1>3, <1>4, <1>5 DEF Cards

LEMMA CardCells ==
    ASSUME ScreenInv, NEW t \in Cards
    PROVE  First(t) \in Int /\ Last(t) \in Int /\ First(t) >= 409 /\ Last(t) <= 1162
<1>1. branch \in 0..31
  BY DEF ScreenInv
<1>2. CASE IsLine(t)
  BY <1>2 DEF IsLine, First, Last, Columns
<1>3. CASE IsSide(t)
  BY <1>3 DEF IsSide, First, Last, Columns
<1>4. CASE IsLeft(t)
  BY <1>4 DEF IsLeft, First, Last, Columns
<1>5. CASE IsRight(t)
  BY <1>1, <1>5 DEF IsRight, First, Last, Columns
<1>6. QED
  BY CardTexts, <1>2, <1>3, <1>4, <1>5

\* A text further down: only a branch of more than 25 characters gets there, and
\* all that is there in the next row are side borders.
LEMMA RowsApart ==
    ASSUME ScreenInv, NEW s \in Cards, NEW t \in Cards, s.row < t.row
    PROVE  Clear(s, t)
<1>1. branch \in 0..31
  BY DEF ScreenInv
<1>2. t.row \in 6..16 /\ t.col \in 1..62 /\ t.len \in Nat
  BY CardTexts DEF IsLine, IsSide, IsLeft, IsRight
<1>3. CASE s.col + s.len <= 68 /\ s.row \in Int /\ s.col \in Int /\ s.len \in Int
  <2> DEFINE a == s.row
             b == s.col
             l == s.len
             c == t.row
             d == t.col
  <2>1. /\ a \in Int /\ b \in Int /\ l \in Int /\ c \in Int /\ d \in Int
        /\ a < c /\ b + l <= 68 /\ 1 <= d
    BY <1>2, <1>3
  <2>2. Last(s) = a * 68 + b + l - 1 /\ First(t) = c * 68 + d
    BY DEF First, Last, Columns
  <2> HIDE DEF a, b, l, c, d
  <2>3. QED
    BY <2>1, <2>2 DEF Clear, Apart
<1>4. CASE s = BranchText /\ s.row = 8 /\ s.col = 36 /\ branch > 18 /\ s.len = 8 + branch
  <2>1. CASE t.row > 9
    BY <1>1, <1>2, <1>4, <2>1 DEF Clear, Apart, First, Last, Columns
  <2>2. CASE t.row = 9
    <3>1. IsSide(t)
      BY <2>2, CardTexts DEF IsLine, IsLeft, IsRight
    <3>2. t \in SideBorders
      BY <3>1, CardTexts
    <3>3. QED
      BY <1>4, <3>2 DEF Clear, BranchOverBorder
  <2>3. QED
    BY <1>2, <1>4, <2>1, <2>2
<1>5. QED
  BY <1>3, <1>4, CardTexts DEF IsLine, IsSide, IsLeft, IsRight

\* A text further to the right in the same row.
LEMMA ColumnsApart ==
    ASSUME ScreenInv, NEW s \in Cards, NEW t \in Cards, s.row = t.row, s.col < t.col
    PROVE  Clear(s, t)
<1>1. branch \in 0..31
  BY DEF ScreenInv
<1>2. /\ s.row \in Int /\ s.col \in Int /\ s.len \in Int
      /\ t.row \in Int /\ t.col \in Int /\ t.len \in Int
  BY CardTexts, <1>1 DEF IsLine, IsSide, IsLeft, IsRight
<1>3. CASE s.col + s.len <= t.col
  BY <1>2, <1>3 DEF Clear, Apart, First, Last, Columns
<1>4. CASE s = BranchText /\ branch > 18 /\ t \in SideBorders
  BY <1>4 DEF Clear, BranchOverBorder
<1>5. CASE IsLine(s)
  BY <1>3, <1>5, CardTexts DEF IsLine, IsSide, IsLeft, IsRight
<1>6. CASE IsSide(s)
  BY <1>2, <1>3, <1>6 DEF IsSide
<1>7. CASE IsLeft(s)
  <2>1. CASE IsLeft(t)
    BY <1>2, <1>3, <1>7, <2>1 DEF IsLeft
  <2>2. CASE ~IsLeft(t)
    BY <1>3, <1>7, <2>2, CardTexts DEF IsLine, IsSide, IsLeft, IsRight
  <2>3. QED
    BY <2>1, <2>2
<1>8. CASE IsRight(s)
  <2>1. IsSide(t) /\ t.col = 62
    BY <1>8, CardTexts DEF IsLine, IsSide, IsLeft, IsRight
  <2>2. t \in SideBorders
    BY <2>1, CardTexts
  <2>3. QED
    BY <1>3, <1>4, <1>8, <2>1, <2>2 DEF IsRight
<1>9. QED
  BY <1>5, <1>6, <1>7, <1>8, CardTexts

\* No two texts begin in the same cell.
LEMMA OneText ==
    ASSUME ScreenInv, NEW s \in Cards, NEW t \in Cards, s.row = t.row, s.col = t.col
    PROVE  s = t
<1> DEFINE LeftLen(r, c) ==
               IF connected
               THEN IF r = 12 THEN 15 ELSE IF r = 14 THEN 10 + memory
                    ELSE IF c = 3 THEN 5 ELSE IF c = 8 THEN 12 ELSE 4
               ELSE IF r <= 10 THEN 21 ELSE IF r = 12 THEN 19 ELSE 18
           RightLen(r) ==
               IF ~connected THEN 22
               ELSE IF r = 8 THEN 8 + BranchShown ELSE IF r = 14 THEN 16 ELSE 25
<1>1. CASE s \in LeftCard /\ t \in LeftCard
  <2>1. ASSUME NEW u \in LeftCard
        PROVE  u.len = LeftLen(u.row, u.col)
    <3>1. PICK r, c, l : u = Text(r, c, l) /\ l = LeftLen(r, c)
      <4>1. CASE connected
        BY <4>1 DEF LeftCard
      <4>2. CASE ~connected
        BY <4>2 DEF LeftCard
      <4>3. QED
        BY <4>1, <4>2
    <3>2. u.row = r /\ u.col = c /\ u.len = l
      BY <3>1 DEF Text
    <3>3. QED
      BY <3>1, <3>2
  <2> HIDE DEF LeftLen
  <2>2. s.len = t.len
    BY <1>1, <2>1
  <2>3. QED
    BY <2>2, CardTexts
<1>2. CASE s \in RightCard /\ t \in RightCard
  <2>1. ASSUME NEW u \in RightCard
        PROVE  u.len = RightLen(u.row)
    <3>1. PICK r, l : u = Text(r, 36, l) /\ l = RightLen(r)
      <4>1. CASE connected
        BY <4>1 DEF RightCard, BranchText
      <4>2. CASE ~connected
        BY <4>2 DEF RightCard
      <4>3. QED
        BY <4>1, <4>2
    <3>2. u.row = r /\ u.len = l
      BY <3>1 DEF Text
    <3>3. QED
      BY <3>1, <3>2
  <2> HIDE DEF RightLen
  <2>2. s.len = t.len
    BY <1>2, <2>1
  <2>3. QED
    BY <2>2, CardTexts
<1>3. CASE s \in CardBorders /\ t \in CardBorders
  <2>1. s.len = t.len
    BY <1>3 DEF CardBorders, SideBorders, Text
  <2>2. QED
    BY <2>1, CardTexts
<1>4. ASSUME NEW u \in Cards
      PROVE  /\ u \in LeftCard => u.col \in {3, 8, 20}
             /\ u \in RightCard => u.col = 36
             /\ u \in CardBorders => u.col \in {1, 28, 34, 62}
  <2>1. u \in LeftCard => u.col \in {3, 8, 20}
    BY DEF LeftCard, Text
  <2>2. u \in RightCard => u.col = 36
    BY DEF RightCard, BranchText, Text
  <2>3. u \in CardBorders => u.col \in {1, 28, 34, 62}
    BY DEF CardBorders, SideBorders, Text
  <2>4. QED
    BY <2>1, <2>2, <2>3
<1>5. QED
  BY <1>1, <1>2, <1>3, <1>4 DEF Cards

LEMMA CardsApart ==
    ASSUME ScreenInv
    PROVE  ApartWithin(Cards, 409, 1162)
<1>1. ASSUME NEW s \in Cards, NEW t \in Cards, s # t
      PROVE  Clear(s, t)
  <2>1. s.row \in Int /\ s.col \in Int /\ t.row \in Int /\ t.col \in Int
    BY CardTexts DEF IsLine, IsSide, IsLeft, IsRight
  <2>2. Clear(s, t) <=> Clear(t, s)
    <3>1. {s, t} = {t, s}
      OBVIOUS
    <3>2. BranchOverBorder(s, t) <=> BranchOverBorder(t, s)
      BY <3>1 DEF BranchOverBorder
    <3>3. QED
      BY <3>2 DEF Clear, Apart
  <2>3. CASE s.row # t.row
    BY <2>1, <2>2, <2>3, RowsApart
  <2>4. CASE s.row = t.row /\ s.col # t.col
    BY <2>1, <2>2, <2>4, ColumnsApart
  <2>5. QED
    BY <1>1, <2>3, <2>4, OneText
<1>2. QED
  BY <1>1, CardCells DEF ApartWithin

\* No text of the page is overwritten by another one, for every status, branch
\* and notification that the buffers can hold: what runs on into the next row
\* ends before the first text there. Only a branch of more than 18 characters
\* overwrites side borders (ui.c:139-157, 213, 295-323, 334-456).
THEOREM TextsApartCorrect == ScreenSpec => []TextsApart
<1>1. ScreenInv => TextsApart
  <2> SUFFICES ASSUME ScreenInv PROVE TextsApart
    OBVIOUS
  <2> DEFINE middle == IF showing THEN Drawer ELSE Cards
             end    == {Ticker} \union Fill
  <2>1. ApartWithin(middle, 409, 1223)
    BY DrawerApart, CardsApart DEF ApartWithin
  <2>2. Page = ((Header \union middle) \union Footer) \union end
    BY DEF Page, Cards
  <2> HIDE DEF middle, end
  <2>3. ApartWithin(Header \union middle, 0, 1223)
    BY <2>1, HeaderApart, BothApart
  <2>4. ApartWithin((Header \union middle) \union Footer, 0, 1424)
    BY <2>3, FooterApart, BothApart
  <2>5. ApartWithin(end, 1497, 1630)
    BY BottomApart DEF end
  <2>6. ApartWithin(((Header \union middle) \union Footer) \union end, 0, 1630)
    BY <2>4, <2>5, BothApart
  <2>7. QED
    BY <2>2, <2>6 DEF TextsApart, ApartWithin, Clear
<1>2. QED
  BY <1>1, ScreenInduction, PTL DEF ScreenSpec
=============================================================================
