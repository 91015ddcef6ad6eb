---------------------------- MODULE SessionContract ----------------------------
(***************************************************************************)
(* What the transport seam promises to the layers above it about the       *)
(* connection flag, whatever the threads behind it do: it goes up only     *)
(* because a broker accepted a CONNECT, at most once for each CONNECT; so  *)
(* a flag that went down, because the session ended, because disconnect()  *)
(* ended it or because the pump gave it up, stays down until another       *)
(* session is dialled and accepted.                                        *)
(***************************************************************************)
CONSTANT Threads

VARIABLES
    flag,      \* what is_connected() answers
    dialled,   \* a CONNECT is out and not answered
    accepted   \* the threads that have an acceptance to report

cvars == <<flag, dialled, accepted>>

CInit == flag = FALSE /\ dialled = FALSE /\ accepted = {}

\* The client dials, and what was out before is forgotten; or it fails to.
Dial == dialled' \in BOOLEAN /\ UNCHANGED <<flag, accepted>>

GiveUp == dialled' = FALSE /\ UNCHANGED <<flag, accepted>>

\* Some thread reads the acceptance ...
Accept ==
    /\ dialled /\ dialled' = FALSE
    /\ \E t \in Threads : accepted' = accepted \cup {t}
    /\ UNCHANGED flag

\* ... and reports it, once, unless it is restarted before it can.
Report ==
    /\ \E t \in accepted : accepted' = accepted \ {t}
    /\ flag' = TRUE
    /\ UNCHANGED dialled

Forget ==
    /\ \E t \in accepted : accepted' = accepted \ {t}
    /\ UNCHANGED <<flag, dialled>>

\* Anybody may find the session over, or end it.
Lower == flag' = FALSE /\ UNCHANGED <<dialled, accepted>>

CNext == Dial \/ GiveUp \/ Accept \/ Report \/ Forget \/ Lower

CSpec == CInit /\ [][CNext]_cvars
=============================================================================
