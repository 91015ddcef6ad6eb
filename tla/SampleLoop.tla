------------------------------ MODULE SampleLoop ------------------------------
(***************************************************************************)
(* The main loop of the c2d-led sample over the transport seam: connect,   *)
(* publish telemetry while is_connected(), disconnect, again               *)
(* (samples/c2d-led/src/main.c:263-279; telemetry and kinetis-meter loop   *)
(* the same way).  MqttClient leaves the application free to call          *)
(* anything; here it makes exactly these calls, while the command          *)
(* callbacks of the C2D worker publish as they do there.  What the quota   *)
(* drops before it reaches the transport is Sdk's.                         *)
(***************************************************************************)
EXTENDS MqttClient

VARIABLES
    main,    \* which call of the loop the application thread is in
    lost     \* history: messages that were not sent since the loop last
             \* connected, counted up to 2

svars == <<vars, main, lost>>

MainPc == {"connect", "serve", "send", "disconnect"}

\* connect() fails, or is still at work: the loop calls it again.
MainConnecting ==
    /\ main = "connect"
    /\ \/ ConnectEnter \/ ConnectUnresolved \/ ConnectOpen \/ ConnackFails \/ ConnackInput
       \/ ConnackMissing \/ ConnackAbort \/ ConnackTaken \/ SubscribeFails \/ LowerFlag
    /\ UNCHANGED <<main, lost>>

MainConnected ==
    /\ main = "connect"
    /\ SubscribeOk
    /\ main' = "serve"
    /\ UNCHANGED lost

\* An event the thread's own call raised.
MainEvent == Event("app") /\ UNCHANGED <<main, lost>>

\* Mutant: is_connected() is not asked again after the first message.
MainServeUnasked ==
    /\ main = "serve" /\ app = "run" /\ Out("app") /\ (connected \/ lost > 0)
    /\ main' = "send"
    /\ UNCHANGED <<vars, lost>>

\* is_connected() answers TRUE: the heartbeat is sent to the transport ...
MainServe ==
    /\ main = "serve" /\ app = "run" /\ Out("app") /\ connected
    /\ main' = "send"
    /\ UNCHANGED <<vars, lost>>

Lose == lost' = IF lost < 2 THEN lost + 1 ELSE 2

\* ... which drops it if the flag went down ...
MainPublish ==
    /\ main = "send"
    /\ \/ AppPublish /\ UNCHANGED lost
       \/ ~connected /\ Lose /\ UNCHANGED vars
    /\ main' = "serve"

\* ... or if the session is over, or the write ends it.
MainSend ==
    /\ main = "serve"
    /\ AppSend
    /\ IF mqtt = "up" /\ Out("app")' THEN UNCHANGED lost ELSE Lose
    /\ UNCHANGED main

\* is_connected() answers FALSE: the inner loop ends.
MainLinkLost ==
    /\ main = "serve" /\ app = "run" /\ Out("app") /\ ~connected
    /\ main' = "disconnect" /\ lost' = 0
    /\ UNCHANGED vars

\* Mutant: the loop ends after its first disconnect.
MainDisconnectStops ==
    /\ main = "disconnect"
    /\ DisconnectEnter \/ DisconnectCheck \/ DisconnectEnd \/ LowerFlag
    /\ UNCHANGED <<main, lost>>

MainDisconnect ==
    /\ main = "disconnect"
    /\ DisconnectEnter \/ DisconnectCheck \/ DisconnectEnd \/ LowerFlag
    /\ main' = IF app' = "run" THEN "connect" ELSE "disconnect"
    /\ UNCHANGED lost

Main == MainConnecting \/ MainConnected \/ MainEvent \/ MainServe
        \/ MainPublish \/ MainSend \/ MainLinkLost \/ MainDisconnect
-----------------------------------------------------------------------------
C2d == Worker /\ UNCHANGED <<main, lost>>

PumpThread == Pump /\ UNCHANGED <<main, lost>>

Peer == Payload /\ UNCHANGED <<main, lost>>

SInit == Init /\ main = "connect" /\ lost = 0

SNext == Main \/ C2d \/ PumpThread \/ Peer

\* The network is not required to work, only not to fail for ever: a broker
\* that is dialled again and again accepts a connection in the end, and so
\* for each later step of connect().
NetworkRecovers ==
    /\ SF_svars(MainConnecting /\ app' = "await")
    /\ SF_svars(MainConnecting /\ HandleConnack("app"))
    /\ SF_svars(MainConnecting /\ ConnackTaken)
    /\ SF_svars(MainConnected)

\* As in MqttClient; and a command callback publishes only so many messages.
SFairness ==
    /\ SF_svars(Main) /\ WF_svars(PumpThread)
    /\ WF_svars(C2d) /\ SF_svars(C2d /\ WorkerReturn)

SSpec == SInit /\ [][SNext]_svars /\ SFairness /\ NetworkRecovers
-----------------------------------------------------------------------------
\* connect() is not refused with -EALREADY in the loop: the call before it
\* left the flag down, unless two threads' events met in the session.  (Then
\* the loop retries until the pump, which ConnectedIsServed says is there,
\* lowers the flag.)
NeverAlreadyConnected ==
    main = "connect" /\ app = "run" /\ Out("app") /\ connected => sock \in disturbed

\* The flag is read three times on a message's way (is_connected(), publish()
\* and the library), yet the loop loses no more than one message to each
\* session before it sees that the session is over.
OneLostPerSession == lost <= 1 \/ sock \in disturbed

\* A pump that ended, for whatever reason, does not go unnoticed: the loop
\* reaches its disconnect and so its next connect.
DeadPumpNoticed ==
    PeerFinishes =>
        (main \in {"serve", "send"} /\ pump \in {"exit", "none"} ~> main = "disconnect")

\* No descriptor is free for connect(): abandoned sockets hold them all.
Starved == app = "dial" /\ open = Sockets

\* However its sessions end, and however often, the loop comes back to
\* serving, until the abandoned sockets have used up the network stack's.
Reconnects ==
    PeerFinishes => (main \in {"connect", "disconnect"} ~> (main = "serve" \/ Starved))
=============================================================================
