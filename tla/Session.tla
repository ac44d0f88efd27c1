------------------------------ MODULE Session ------------------------------
(***************************************************************************)
(* What the two loops promise each other, without the loops: how a session *)
(* is offered by the desktop, granted by the PSP and accepted by the       *)
(* desktop, with both sides free to leave at any time and with messages    *)
(* that may be lost, ignored or found by a later session. DevLink          *)
(* implements it.                                                          *)
(***************************************************************************)
EXTENDS Naturals

VARIABLES
    agree,    \* the two builds carry the same protocol version
    host,     \* the desktop's side of the session
    psp,      \* the PSP's side of the session
    offers,   \* HELLOs on their way to the PSP
    replies   \* answers on their way to the desktop

vars == <<agree, host, psp, offers, replies>>

Init ==
    /\ agree \in BOOLEAN
    /\ host = "DISCONNECTED" /\ psp = "DISCONNECTED"
    /\ offers = 0 /\ replies = 0

Begin ==
    /\ host = "DISCONNECTED" /\ host' = "HANDSHAKING"
    /\ UNCHANGED <<psp, offers, replies>>

\* An offer may be on its way although the sender was told that it failed.
Offer ==
    /\ host = "HANDSHAKING" /\ host' \in {"HANDSHAKING", "DISCONNECTED"}
    /\ offers' = offers + 1
    /\ UNCHANGED <<psp, replies>>

\* The PSP takes one side of a session only by answering an offer of its own
\* version; there is no other way into CONNECTED.
Grant ==
    /\ agree /\ psp = "DISCONNECTED" /\ offers > 0
    /\ psp' = "CONNECTED"
    /\ offers' = offers - 1 /\ replies' = replies + 1
    /\ UNCHANGED host

\* The desktop takes the other only by consuming one answer.
Accept ==
    /\ host = "HANDSHAKING" /\ replies > 0
    /\ host' = "CONNECTED"
    /\ replies' = replies - 1
    /\ UNCHANGED <<psp, offers>>

OfferIgnored ==
    /\ offers > 0 /\ offers' = offers - 1
    /\ psp' \in {psp, "DISCONNECTED"}
    /\ UNCHANGED <<host, replies>>

ReplyIgnored ==
    /\ replies > 0 /\ replies' = replies - 1
    /\ UNCHANGED <<host, psp, offers>>

HostLeaves == host' = "DISCONNECTED" /\ UNCHANGED <<psp, offers, replies>>

PspLeaves == psp' = "DISCONNECTED" /\ UNCHANGED <<host, offers, replies>>

\* The device leaves the bus, with or without its application.
Flushed ==
    /\ psp' \in {psp, "DISCONNECTED"}
    /\ offers' = 0 /\ replies' = 0
    /\ UNCHANGED host

Next ==
    /\ UNCHANGED agree
    /\ \/ Begin
       \/ Offer
       \/ Grant
       \/ Accept
       \/ OfferIgnored
       \/ ReplyIgnored
       \/ HostLeaves
       \/ PspLeaves
       \/ Flushed

Spec == Init /\ [][Next]_vars
=============================================================================
