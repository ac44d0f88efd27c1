------------------------------- MODULE Layout -------------------------------
(***************************************************************************)
(* Where ui_render puts its texts on the 68 columns of the PSP's debug     *)
(* screen, which goes on in the next row when a text does not fit. The     *)
(* lengths vary with what was received: names and texts of notifications,  *)
(* the branch, the memory, the status line of the start-up. A percentage   *)
(* (a byte), a temperature (16 bits) and a count of files (32 bits) are    *)
(* given the length of the longest of their type. What a text says and its *)
(* colour are left out.                                                    *)
(***************************************************************************)
EXTENDS PspUi

CONSTANTS
    AppLen, SummaryLen, BodyLen,  \* strlen of a notification's strings
    BranchLens,                   \* strlen of branch_name, as received
    MemoryLens,                   \* length of "free/total" in GB, as received
    StatusLens                    \* strlen of g_status_msg after the start-up

\* The capacities are those of payload.h; the longest status is that of three
\* failed USB calls (transport_usb.c:75). The desktop has less than 100,000 GB of
\* memory: 64 bits of bytes could fill 27 characters.
ASSUME LayoutAssumption ==
    /\ AppLen \in [Notifications \union {Empty} -> 0..23]
    /\ SummaryLen \in [Notifications \union {Empty} -> 0..51]
    /\ BodyLen \in [Notifications \union {Empty} -> 0..51]
    /\ BranchLens \subseteq 0..31 /\ BranchLens # {}
    /\ MemoryLens \subseteq 7..15 /\ MemoryLens # {}
    /\ StatusLens \subseteq 0..52 /\ StatusLens # {}
    /\ HistorySize <= 5

VARIABLES
    connected,  \* conn_state of the frame
    current,    \* g_current_notif, the last notification received
    branch,     \* strlen of g_current_git.branch_name
    memory,     \* length of g_current_stats' free and total memory, as shown
    status

screenVars == <<uiVars, connected, current, branch, memory, status>>

Columns == 68

Smaller(a, b) == IF a < b THEN a ELSE b
Larger(a, b)  == IF a > b THEN a ELSE b

\* A text of len characters from column col of a row on; of a text that was cut,
\* "wanted" is its full length, and dots says that its end became "...".
Text(row, col, len) ==
    [row |-> row, col |-> col, len |-> len, wanted |-> len, dots |-> FALSE]

\* strncpy to the room there is after a prefix, and the dots if that cuts.
CutText(row, col, prefix, wanted, room) ==
    [row |-> row, col |-> col, len |-> prefix + Smaller(wanted, room),
     wanted |-> prefix + wanted, dots |-> wanted > room /\ room >= 3]

\* "summary - body"
MessageLen(n) == SummaryLen[n] + 3 + BodyLen[n]

-----------------------------------------------------------------------------
Header == {Text(0, 0, 65), Text(1, 0, 62), Text(2, 0, 65), Text(4, 2, 40),
           Text(5, 2, 15 + status)}

Footer == {Text(18, 0, 65), Text(19, 0, 67), Text(20, 0, 65)}

\* Seeded faults: the room for the message forgets the prefix; the entries begin
\* with the row of the title.
EntryRoomWhole(n) == 62
EntryRowAtTitle(i) == 5 + i

EntryPrefix(n) == 4 + AppLen[n] + 2
EntryRoom(n) == 62 - EntryPrefix(n)
EntryRow(i) == 7 + i

\* The history drawer: its title, the entries and the keys.
Entry(i) ==
    LET n == history[i]
    IN  CutText(EntryRow(i), 2, EntryPrefix(n), MessageLen(n), EntryRoom(n))

Drawer == {Text(6, 2, 44), Text(15, 2, 40)}
              \union IF history = <<>> THEN {Text(10, 5, 31)}
                                       ELSE {Entry(i) : i \in DOMAIN history}

\* Each card has its top and bottom line and a "|" at both ends of the rows in
\* between; the blanks between those are not counted as a text.
SideBorders == {Text(r, c, 1) : r \in 7..15, c \in {1, 28, 34, 62}}

CardBorders == {Text(r, 1, 28) : r \in {6, 16}} \union {Text(r, 34, 29) : r \in {6, 16}}
                   \union SideBorders

\* Bars and percentages, temperature and memory.
LeftCard ==
    IF connected
    THEN {Text(r, 3, 5) : r \in {8, 10}} \union {Text(r, 8, 12) : r \in {8, 10}}
             \union {Text(r, 20, 4) : r \in {8, 10}}
             \union {Text(12, 3, 15), Text(14, 3, 10 + memory)}
    ELSE {Text(8, 3, 21), Text(10, 3, 21), Text(12, 3, 19), Text(14, 3, 18)}

BranchShown == Larger(14, branch)

\* "%-14s": padded to 14, but not cut.
BranchText == Text(8, 36, 8 + BranchShown)

RightCard ==
    IF connected
    THEN {BranchText, Text(10, 36, 25), Text(12, 36, 25), Text(14, 36, 16)}
    ELSE {Text(r, 36, 22) : r \in {8, 10, 12, 14}}

\* The ticker shows the last notification while there is a session; spaces fill
\* its row up to the last column, and clear most of the next one.
Ticker ==
    IF connected /\ AppLen[current] > 0
    THEN CutText(22, 1, 8 + AppLen[current] + 2, MessageLen(current),
                 66 - (8 + AppLen[current] + 2))
    ELSE Text(22, 1, 33)

Fill == {Text(22, 1 + Ticker.len, 67 - Ticker.len), Text(23, 1, 66)}

\* The popup overwrites rows 7 to 15 between its borders at columns 10 and 57.
Popup ==
    IF ~popup THEN {}
    ELSE {Text(8, 12, 18), Text(9, 12, 7 + AppLen[popupNotif]),
          Text(10, 12, 7 + Smaller(SummaryLen[popupNotif], 40)),
          Text(11, 12, 7 + Smaller(BodyLen[popupNotif], 40)), Text(13, 12, 37)}

Page ==
    Header \union Footer \union {Ticker} \union Fill
        \union IF showing THEN Drawer ELSE CardBorders \union LeftCard \union RightCard

-----------------------------------------------------------------------------
ScreenInit ==
    /\ Init
    /\ connected = FALSE /\ current = Empty
    /\ branch = 0 /\ memory = 7
    /\ status \in StatusLens

\* A notification, one without an application's name, a git status, statistics
\* or none of them was received. Only a session receives, and one that is lost
\* leaves what was last received where it is.
Received(n) ==
    \/ n # Empty /\ connected' = TRUE /\ current' = n /\ UNCHANGED <<branch, memory>>
    \/ n = Empty /\ connected' = TRUE /\ current' = Empty /\ UNCHANGED <<branch, memory>>
    \/ /\ n = Empty /\ connected' = TRUE
       /\ branch' \in BranchLens /\ UNCHANGED <<current, memory>>
    \/ /\ n = Empty /\ connected' = TRUE
       /\ memory' \in MemoryLens /\ UNCHANGED <<current, branch>>
    \/ n = Empty /\ connected' \in BOOLEAN /\ UNCHANGED <<current, branch, memory>>

ScreenNext ==
    \E select, circle \in BOOLEAN, n \in Notifications \union {Empty} :
        Frame(select, circle, n) /\ Received(n) /\ UNCHANGED status

ScreenSpec ==
    ScreenInit /\ [][ScreenNext]_screenVars /\ WF_screenVars(ScreenNext)

-----------------------------------------------------------------------------
First(t) == t.row * Columns + t.col
Last(t)  == First(t) + t.len - 1

InRow(t) == t.col + t.len <= Columns

Apart(s, t) == Last(s) < First(t) \/ Last(t) < First(s)

\* A branch of more than 18 characters goes over the border of its card, and one
\* of more than 25 over that of the other card in the next row.
BranchOverBorder(s, t) ==
    branch > 18 /\ BranchText \in {s, t} /\ {s, t} \cap SideBorders # {}

\* No text is overwritten by another one, the popup aside, whatever was received
\* and although a status or a branch may run on into the next row. Only a branch
\* that is too long overwrites borders, and nothing else.
TextsApart ==
    \A s, t \in Page : s # t => Apart(s, t) \/ BranchOverBorder(s, t)

\* Whatever the lengths of its strings, a notification stays in its row of the
\* drawer, of the ticker and of the popup, and in the first two it either is
\* shown whole or ends in dots, never both. In the popup only a title or a text
\* of more than 38 characters reaches its border, and none goes further than one
\* column behind it.
NotificationsFit ==
    /\ \A t \in {Entry(i) : i \in DOMAIN history} \union {Ticker} :
          InRow(t) /\ (t.dots <=> t.len < t.wanted)
    /\ \A t \in Popup :
          t.col + t.len <= IF Larger(SummaryLen[popupNotif], BodyLen[popupNotif]) <= 38
                           THEN 57 ELSE 59
=============================================================================
