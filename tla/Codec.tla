------------------------------- MODULE Codec -------------------------------
(***************************************************************************)
(* Packets as bytes (shared/protocol/src/packet.c and payload.c), and what *)
(* becomes of them on the way from the desktop's structures (main.cpp) to  *)
(* the PSP's (main.c, message_router.c): little-endian fields at fixed     *)
(* offsets, strings cut to fixed sizes, one receive buffer for payloads of *)
(* every kind.                                                             *)
(*                                                                         *)
(* A byte is a number below Base and a character is a byte; arrays count   *)
(* from 1, so that byte i of the C code is byte i + 1 here.                *)
(***************************************************************************)
EXTENDS Integers, Sequences

CONSTANTS
    Base,      \* values of a byte (256)
    Magic,     \* PSPDL_PROTOCOL_MAGIC
    Version,   \* of the protocol
    NameLen,   \* branch_name (32)
    AppLen,    \* app_name (24)
    TextLen,   \* summary and body (52)
    BufLen,    \* payload_buf (512)
    StatsInputs, GitInputs, NotifInputs, Commands  \* what the desktop collects

Weight == <<1, Base, Base * Base, Base * Base * Base>>
Word == Weight[4] * Base

Bytes  == 0..(Base - 1)
Bytes2 == 0..(Base * Base - 1)
Bytes4 == 0..(Word - 1)
Bytes8 == 0..(Word * Word - 1)

\* A C array of n characters.
Chars(n) == [1..n -> Bytes]

StatsType == [cpu_usage : Bytes, ram_usage : Bytes, cpu_temp : Bytes2,
              ram_total : Bytes8, ram_free : Bytes8]
GitType == [modified_files : Bytes4, untracked_files : Bytes4,
            branch_name : Chars(NameLen)]
NotifType == [app_name : Chars(AppLen), summary : Chars(TextLen),
              body : Chars(TextLen)]

\* What router_dispatch fills in.
ShownType == [stats : StatsType, git : GitType, notif : NotifType,
              command : Bytes]

StatsSize == 20
GitSize   == 8 + NameLen
NotifSize == AppLen + TextLen + TextLen
ControlSize == 1
HeaderSize == 12

Ids == [STATS |-> 3, GIT |-> 4, NOTIF |-> 5, CONTROL |-> 6]

SizeOf(id) ==
    CASE id = Ids.STATS   -> StatsSize
      [] id = Ids.GIT     -> GitSize
      [] id = Ids.NOTIF   -> NotifSize
      [] id = Ids.CONTROL -> ControlSize

ASSUME CodecAssumption ==
    /\ Base \in Nat /\ Base > 1
    /\ Magic \in Bytes2 /\ Version \in Bytes2
    /\ NameLen \in Nat \ {0} /\ AppLen \in Nat \ {0} /\ TextLen \in Nat \ {0}
    /\ \A n \in {StatsSize, GitSize, NotifSize} :
          BufLen \in Nat /\ n <= BufLen /\ n \in Bytes4
    /\ 6 \in Bytes4
    /\ StatsInputs \subseteq StatsType /\ GitInputs \subseteq GitType
    /\ NotifInputs \subseteq NotifType /\ Commands \subseteq Bytes

-----------------------------------------------------------------------------
(* Numbers and strings.                                                    *)

\* The k-th byte of v, the lowest first: (uint8_t)((v >> 8 * (k - 1)) & 0xFF).
Byte(v, k) == (v \div Weight[k]) % Base

\* Byte k of the eight of a 64-bit number.
LongByte(v, k) == IF k <= 4 THEN Byte(v, k) ELSE Byte(v \div Word, k - 4)

\* The number whose bytes are in b from place at on.
Value2(b, at) == b[at] + Base * b[at + 1]
Value4(b, at) == Value2(b, at) + Weight[3] * Value2(b, at + 2)
Value8(b, at) == Value4(b, at) + Word * Value4(b, at + 4)

\* The string in array s ends before place i.
EndsBefore(s, i) == \E j \in 1..i : s[j] = 0

\* Character i of s as it is packed in a field of n: nothing after the first
\* zero, and nothing in the last place.
Packed(s, n, i) == IF i = n \/ EndsBefore(s, i) THEN 0 ELSE s[i]

\* A string as it is after it was packed: strncpy leaves out what Packed would.
Clip(s, n) == [i \in 1..n |-> Packed(s, n, i)]

\* The array of n characters read back from a field at place at.
Unpacked(b, at, n) == [i \in 1..n |-> IF i = n THEN 0 ELSE b[at + i - 1]]

-----------------------------------------------------------------------------
(* The payloads.                                                           *)

PackStats(s) ==
    [i \in 1..StatsSize |->
        CASE i = 1 -> s.cpu_usage
          [] i = 2 -> s.ram_usage
          [] i \in 3..4 -> Byte(s.cpu_temp, i - 2)
          [] i \in 5..12 -> LongByte(s.ram_total, i - 4)
          [] OTHER -> LongByte(s.ram_free, i - 12)]

UnpackStats(b) ==
    [cpu_usage |-> b[1], ram_usage |-> b[2], cpu_temp |-> Value2(b, 3),
     ram_total |-> Value8(b, 5), ram_free |-> Value8(b, 13)]

PackGit(g) ==
    [i \in 1..GitSize |->
        IF i <= 4 THEN Byte(g.modified_files, i)
        ELSE IF i <= 8 THEN Byte(g.untracked_files, i - 4)
             ELSE Packed(g.branch_name, NameLen, i - 8)]

\* Seeded fault: the second number is read where the first one is.
UnpackGitTwice(b) ==
    [modified_files |-> Value4(b, 1), untracked_files |-> Value4(b, 1),
     branch_name |-> Unpacked(b, 9, NameLen)]

UnpackGit(b) ==
    [modified_files |-> Value4(b, 1), untracked_files |-> Value4(b, 5),
     branch_name |-> Unpacked(b, 9, NameLen)]

PackNotif(n) ==
    [i \in 1..NotifSize |->
        IF i <= AppLen THEN Packed(n.app_name, AppLen, i)
        ELSE IF i <= AppLen + TextLen
             THEN Packed(n.summary, TextLen, i - AppLen)
             ELSE Packed(n.body, TextLen, i - AppLen - TextLen)]

UnpackNotif(b) ==
    [app_name |-> Unpacked(b, 1, AppLen),
     summary |-> Unpacked(b, AppLen + 1, TextLen),
     body |-> Unpacked(b, AppLen + TextLen + 1, TextLen)]

ClipGit(g) == [g EXCEPT !.branch_name = Clip(g.branch_name, NameLen)]

ClipNotif(n) ==
    [app_name |-> Clip(n.app_name, AppLen),
     summary |-> Clip(n.summary, TextLen), body |-> Clip(n.body, TextLen)]

\* pspl_serialize_header for a packet of this desktop.
PackHeader(id, size) ==
    [i \in 1..HeaderSize |->
        CASE i <= 2 -> Byte(Magic, i)
          [] i \in 3..4 -> Byte(Version, i - 2)
          [] i \in 5..8 -> Byte(id, i - 4)
          [] OTHER -> Byte(size, i - 8)]

UnpackHeader(b) ==
    [magic |-> Value2(b, 1), version |-> Value2(b, 3), id |-> Value4(b, 5),
     size |-> Value4(b, 9)]

-----------------------------------------------------------------------------
VARIABLES
    header, payload,  \* the packet on the wire; <<>> when there is none
    payload_buf,      \* the PSP's buffer, which keeps what it held before
    current,          \* g_current_stats, _git and _notif, g_remote_command
    sent              \* history: the latest of each kind that was sent

vars == <<header, payload, payload_buf, current, sent>>

Zeros(n) == [i \in 1..n |-> 0]

NoStats == [cpu_usage |-> 0, ram_usage |-> 0, cpu_temp |-> 0, ram_total |-> 0,
            ram_free |-> 0]
NoGit == [modified_files |-> 0, untracked_files |-> 0,
          branch_name |-> Zeros(NameLen)]
NoNotif == [app_name |-> Zeros(AppLen), summary |-> Zeros(TextLen),
            body |-> Zeros(TextLen)]
Initially == [stats |-> NoStats, git |-> NoGit, notif |-> NoNotif, command |-> 0]

\* router_dispatch: a payload smaller than its structure changes nothing.
Dispatch(cur, h, b) ==
    CASE h.id = Ids.STATS /\ h.size >= StatsSize ->
            [cur EXCEPT !.stats = UnpackStats(b)]
      [] h.id = Ids.GIT /\ h.size >= GitSize ->
            [cur EXCEPT !.git = UnpackGit(b)]
      [] h.id = Ids.NOTIF /\ h.size >= NotifSize ->
            [cur EXCEPT !.notif = UnpackNotif(b)]
      [] h.id = Ids.CONTROL /\ h.size >= ControlSize ->
            [cur EXCEPT !.command = b[1]]
      [] OTHER -> cur

Put(id, bytes) ==
    /\ header = <<>>
    /\ header' = PackHeader(id, SizeOf(id)) /\ payload' = bytes
    /\ UNCHANGED <<payload_buf, current>>

SendStats(s) ==
    /\ Put(Ids.STATS, PackStats(s))
    /\ sent' = [sent EXCEPT !.stats = s]

\* The strings are copied with strncpy into cleared arrays before they are
\* packed, which clips them the first time.
SendGit(g) ==
    /\ Put(Ids.GIT, PackGit(ClipGit(g)))
    /\ sent' = [sent EXCEPT !.git = ClipGit(g)]

SendNotif(n) ==
    /\ Put(Ids.NOTIF, PackNotif(ClipNotif(n)))
    /\ sent' = [sent EXCEPT !.notif = ClipNotif(n)]

SendControl(c) ==
    /\ Put(Ids.CONTROL, <<c>>)
    /\ sent' = [sent EXCEPT !.command = c]

\* What the PSP may take for a packet when it has lost its place in the stream: a
\* header with the right magic and some size. If that is large enough, the bytes
\* count as what was sent.
Misread ==
    /\ header = <<>>
    /\ \E id \in {Ids.STATS, Ids.GIT, Ids.NOTIF, Ids.CONTROL} :
          \E size \in {1, SizeOf(id) - 1, SizeOf(id)} \ {0} :
             /\ header' = PackHeader(id, size)
             /\ payload' = [i \in 1..size |-> Base - 1]
             /\ sent' = Dispatch(sent, UnpackHeader(header'), payload')
    /\ UNCHANGED <<payload_buf, current>>

\* Header, magic, payload into the front of payload_buf, dispatch.
Receive ==
    /\ header # <<>>
    /\ LET h == UnpackHeader(header)
           buf == [i \in 1..BufLen |-> IF i <= h.size THEN payload[i]
                                       ELSE payload_buf[i]]
       IN  IF h.magic = Magic /\ h.size <= BufLen
           THEN payload_buf' = buf /\ current' = Dispatch(current, h, buf)
           ELSE UNCHANGED <<payload_buf, current>>
    /\ header' = <<>> /\ payload' = <<>>
    /\ UNCHANGED sent

Init ==
    /\ header = <<>> /\ payload = <<>>
    /\ payload_buf = Zeros(BufLen)
    /\ current = Initially /\ sent = Initially

Next ==
    \/ \E s \in StatsInputs : SendStats(s)
    \/ \E g \in GitInputs : SendGit(g)
    \/ \E n \in NotifInputs : SendNotif(n)
    \/ \E c \in Commands : SendControl(c)
    \/ Misread
    \/ Receive

Spec == Init /\ [][Next]_vars

-----------------------------------------------------------------------------
Terminated(shown) ==
    /\ shown.git.branch_name[NameLen] = 0
    /\ shown.notif.app_name[AppLen] = 0
    /\ shown.notif.summary[TextLen] = 0 /\ shown.notif.body[TextLen] = 0

\* Everything fits its field, and every string the PSP draws ends inside its
\* array, whatever bytes came.
TypeOK ==
    /\ header = <<>> \/ header \in [1..HeaderSize -> Bytes]
    /\ header # <<>> => payload \in [1..UnpackHeader(header).size -> Bytes]
    /\ payload_buf \in [1..BufLen -> Bytes]
    /\ {current, sent} \subseteq ShownType
    /\ Terminated(current)

\* What the PSP shows is what the desktop sent last of that kind, every number
\* exactly and every string as far as it fits, whatever kinds of packet have gone
\* through the buffer before.
Delivered == header = <<>> => current = sent
=============================================================================
