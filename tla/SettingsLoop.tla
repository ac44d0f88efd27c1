----------------------------- MODULE SettingsLoop -----------------------------
(***************************************************************************)
(* The main loop as the reader of the settings: in a pass it reads the     *)
(* fields of ConfigService one by one, in an order of its own and without  *)
(* a lock (main.cpp), while the server's thread may be setting them.       *)
(* An aligned field is read as it was before or after its write.           *)
(***************************************************************************)
EXTENDS Settings

VARIABLES
    used,   \* the settings read so far in the pass
    clean   \* history: no request was being applied at any time of the pass

loopVars == <<used, clean>>

\* The loop runs once the settings are loaded.
Running == phase \in {"up", "applying", "saving"}

\* Seeded fault: what was read in the pass before is kept.
NextPassKeeps ==
    /\ Running /\ DOMAIN used = Keys
    /\ \E k \in Keys : used' = [i \in Keys \ {k} |-> used[i]]
    /\ clean' = (phase # "applying")
    /\ UNCHANGED vars

NextPass ==
    /\ Running /\ DOMAIN used = Keys
    /\ used' = Empty /\ clean' = (phase # "applying")
    /\ UNCHANGED vars

ReadField ==
    /\ Running
    /\ \E k \in Keys \ DOMAIN used :
          used' = [i \in DOMAIN used \union {k} |-> IF i = k THEN config[k] ELSE used[i]]
    /\ UNCHANGED <<vars, clean>>

\* The page, the server's thread and the desktop's process go on meanwhile; the
\* pass ends with the process.
Meanwhile ==
    /\ Next
    /\ used' = IF phase' = "down" \/ phase = "down" THEN Empty ELSE used
    /\ clean' = (phase' # "applying" /\ (clean \/ phase' = "down"))

InitLoop == Init /\ used = Empty /\ clean = TRUE

NextLoop == Meanwhile \/ NextPass \/ ReadField

SpecLoop == InitLoop /\ [][NextLoop]_<<vars, loopVars>>

\* The server's thread and the page's timer run, and every answer reaches the
\* page. Nobody has to start the desktop, to let go of a widget or to hang up.
FairLoop ==
    /\ SpecLoop
    /\ WF_vars(Serve) /\ WF_vars(FetchStatus)
    /\ \A id \in 1..MaxFlights :
          WF_vars(\E a \in answers : a.id = id /\ ShowAnswer(a))

-----------------------------------------------------------------------------
\* Nothing locks the settings, and a pass takes as long as it takes: what it reads
\* belongs together, as the defaults or as something the page submitted, when no
\* request was being applied meanwhile.
ReadTogether == DOMAIN used = Keys /\ clean => used \in Known
=============================================================================
