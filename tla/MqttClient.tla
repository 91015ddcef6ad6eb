------------------------------ MODULE MqttClient ------------------------------
(***************************************************************************)
(* The MQTT transport seam, lib/zephyr-layer/iotc_mqtt_client.c.           *)
(*                                                                         *)
(* Three threads share its file-scope state: the application thread, which *)
(* calls connect, disconnect and publish; the message pump that connect    *)
(* creates; and the C2D work queue, on which the command callbacks run and *)
(* publish their acknowledgements.  Every mqtt_*() call of Zephyr works    *)
(* under the client's mutex, but for two things: it releases the mutex     *)
(* around every call of mqtt_evt_handler(), whose stores are steps of      *)
(* their own in the thread that made the call; and the pump keeps it while *)
(* it waits for the payload of a PUBLISH.                                  *)
(***************************************************************************)
EXTENDS Naturals

CONSTANTS
    MaxSockets,    \* bound: sockets the network stack has for this client
    MaxC2d         \* bound: C2D work items there is memory for

ASSUME BoundsAssumption == MaxSockets \in Nat /\ MaxC2d \in Nat

VARIABLES
    (* iotc_mqtt_client.c *)
    connected,     \* the flag is_connected() returns and publish() checks
    pump_run,      \* asks the pump loop to go on
    connack_sem,   \* the semaphore the CONNACK handler gives
    app,           \* where the application thread stands in the API
    pump,          \* where the one static pump thread stands
    pump_fd,       \* fds[0].fd, the socket the pump polls
    worker,        \* where the C2D work queue's thread stands
    c2d_queue,     \* number of work items submitted to c2d_workq and not freed
    handler,       \* what each thread has still to do in mqtt_evt_handler(),
                   \* and in the library after it
    (* Zephyr's MQTT library and socket layer *)
    mqtt,          \* state of struct mqtt_client
    sock,          \* client.transport.tls.sock, 0 after mqtt_client_init()
    open,          \* sockets that were opened and not closed
    held,          \* the pump holds the client's mutex, waiting for a payload
    (* history *)
    told,          \* session the last status event announced, 0 for DISCONNECTED
    lowered,       \* open sockets whose flag the pump's exit took down
    disturbed      \* sessions with the events of two threads in them: dialled
                   \* while an event was being handled or with its traces left,
                   \* or with two events at once, one of them its CONNACK

appVars    == <<app, pump_run, connack_sem>>
pumpVars   == <<pump, pump_fd>>
workVars   == <<worker, c2d_queue>>
clientVars == <<mqtt, sock, open>>
histVars   == <<told, lowered, disturbed>>
sessionVars == <<connected, clientVars, held, handler, histVars>>
vars == <<appVars, pumpVars, workVars, sessionVars>>

Sockets == 1..MaxSockets
Threads == {"app", "pump", "worker"}

AppPc    == {"run", "dial", "await", "sem", "abort", "sub", "close", "end", "flag", "send"}
PumpPc   == {"none", "start", "poll", "input", "payload", "live", "exit"}
WorkerPc == {"idle", "callback", "send"}
Stages   == {"none", "raise", "lower", "reset"}

\* The thread is in its own code, not in an event.
Out(t) == handler[t] = "none"

Quiet == \A t \in Threads : Out(t)

Enters(t, stage) == handler' = [handler EXCEPT ![t] = stage]
-----------------------------------------------------------------------------
(***************************************************************************)
(* Zephyr's client_disconnect(), reached from mqtt_abort, mqtt_disconnect  *)
(* and every failed transport read or write, in the thread that made the   *)
(* call: it closes the socket and raises one event.  From an established   *)
(* session that is MQTT_EVT_DISCONNECT; before it, a failed                *)
(* MQTT_EVT_CONNACK, which is only logged.                                 *)
(***************************************************************************)
ClientDisconnect(t) ==
    /\ open' = open \ {sock}
    /\ Enters(t, IF mqtt = "up" THEN "lower" ELSE "reset")
    /\ lowered' = lowered \ {sock}
    /\ disturbed' = IF \A u \in Threads \ {t} : handler[u] # "raise"
                    THEN disturbed ELSE disturbed \cup {sock}
    /\ UNCHANGED <<connected, mqtt, sock, told>>

\* mqtt_input() reads an accepting CONNACK.
HandleConnack(t) ==
    /\ mqtt = "tcp" /\ sock \in open
    /\ mqtt' = "up"
    /\ Enters(t, "raise")
    /\ disturbed' = IF \A u \in Threads \ {t} : Out(u) THEN disturbed ELSE disturbed \cup {sock}
    /\ UNCHANGED <<connected, sock, open, held, told, lowered>>

\* mqtt_publish() in any thread: taken, refused locally, or a failed write.
MqttPublish(t) ==
    /\ ~held /\ UNCHANGED held
    /\ \/ (mqtt = "up" => sock \in open)
          /\ UNCHANGED <<connected, clientVars, handler, histVars>>
       \/ mqtt = "up" /\ ClientDisconnect(t)

\* MQTT_EVT_CONNACK: the flag, the semaphore, the status callback.
EventRaise(t) ==
    /\ handler[t] = "raise"
    /\ connected' = TRUE
    /\ connack_sem' = 1
    /\ told' = sock
    /\ Enters(t, "none")
    /\ UNCHANGED <<app, pump_run, pumpVars, workVars, clientVars, held, lowered, disturbed>>

\* Mutant: the DISCONNECT event leaves the flag for the pump's exit to lower.
EventLowerNothing(t) ==
    /\ handler[t] = "lower"
    /\ told' = 0
    /\ Enters(t, "reset")
    /\ UNCHANGED <<connected, appVars, pumpVars, workVars, clientVars, held, lowered, disturbed>>

\* Mutant: a DISCONNECT event that finds the flag down is not forwarded.
EventLowerSilent(t) ==
    /\ handler[t] = "lower"
    /\ connected' = FALSE
    /\ told' = IF connected THEN 0 ELSE told
    /\ Enters(t, "reset")
    /\ UNCHANGED <<appVars, pumpVars, workVars, clientVars, held, lowered, disturbed>>

\* MQTT_EVT_DISCONNECT: the flag and the status callback.
EventLower(t) ==
    /\ handler[t] = "lower"
    /\ connected' = FALSE
    /\ told' = 0
    /\ Enters(t, "reset")
    /\ UNCHANGED <<appVars, pumpVars, workVars, clientVars, held, lowered, disturbed>>

\* client_reset(), which ends client_disconnect() under the mutex again.
ClientReset(t) ==
    /\ handler[t] = "reset" /\ ~held
    /\ mqtt' = "idle"
    /\ Enters(t, "none")
    /\ UNCHANGED <<connected, appVars, pumpVars, workVars, sock, open, held, histVars>>

Event(t) == EventRaise(t) \/ EventLower(t) \/ ClientReset(t)
-----------------------------------------------------------------------------
(***************************************************************************)
(* iotc_mqtt_client_connect(), on the application thread.                  *)
(***************************************************************************)
\* With the flag up it is -EALREADY, and nothing changes.
ConnectEnter ==
    /\ app = "run" /\ Out("app") /\ ~connected
    /\ connack_sem' = 0
    /\ app' = "dial"
    /\ UNCHANGED <<pump_run, pumpVars, workVars, sessionVars>>

\* The broker's name does not resolve: only the semaphore was reset.
ConnectUnresolved ==
    /\ app = "dial"
    /\ app' = "run"
    /\ UNCHANGED <<pump_run, connack_sem, pumpVars, workVars, sessionVars>>

\* The session of socket s begins, clean or with the events of the one before.
Redialled(s) ==
    /\ sock' = s
    /\ disturbed' = IF Quiet /\ ~connected /\ told \notin {s} \ {0}
                    THEN disturbed \ {s} ELSE disturbed \cup {s}

\* mqtt_client_init() wipes the client, whatever socket it still held and
\* whoever held its mutex, and mqtt_connect() fails or leaves a new socket
\* with CONNECT written to it.
ConnectOpen ==
    /\ app = "dial"
    /\ held' = FALSE
    /\ \/ /\ mqtt' = "idle" /\ Redialled(0)
          /\ app' = "run"
          /\ UNCHANGED open
       \/ \E s \in Sockets \ open :
          /\ mqtt' = "tcp" /\ Redialled(s) /\ open' = open \cup {s}
          /\ app' = "await"
    /\ UNCHANGED <<pump_run, connack_sem, pumpVars, workVars, connected, handler, told, lowered>>

\* mqtt_abort()
Abort ==
    IF mqtt = "idle" THEN UNCHANGED <<connected, clientVars, handler, histVars>>
    ELSE ClientDisconnect("app")

\* poll() or mqtt_input() fails or times out; mqtt_abort().
ConnackFails ==
    /\ app = "await" /\ ~held
    /\ Abort
    /\ app' = "run"
    /\ UNCHANGED <<pump_run, connack_sem, pumpVars, workVars, held>>

\* The socket is readable: mqtt_input() reads an accepting CONNACK, or
\* something else (a refusal, or nothing because a pump read it first).
ConnackInput ==
    /\ app = "await" /\ ~held
    /\ app' = "sem"
    /\ \/ HandleConnack("app")
       \/ mqtt # "idle" /\ sock \in open /\ UNCHANGED sessionVars
    /\ UNCHANGED <<pump_run, connack_sem, pumpVars, workVars>>

\* Mutant: a refused or missing CONNACK returns without mqtt_abort().
ConnackMissingNoAbort ==
    /\ app = "sem" /\ Out("app")
    /\ connack_sem = 0 \/ ~connected
    /\ connack_sem' = 0
    /\ app' = "run"
    /\ UNCHANGED <<pump_run, pumpVars, workVars, sessionVars>>

\* Mutant: the wait for the CONNACK semaphore has no timeout.
ConnackMissingForever ==
    /\ app = "sem" /\ Out("app")
    /\ connack_sem = 1 /\ ~connected
    /\ connack_sem' = 0
    /\ app' = "abort"
    /\ UNCHANGED <<pump_run, pumpVars, workVars, sessionVars>>

\* k_sem_take() fails, or succeeds with the flag down again.
ConnackMissing ==
    /\ app = "sem" /\ Out("app")
    /\ connack_sem = 0 \/ ~connected
    /\ connack_sem' = 0
    /\ app' = "abort"
    /\ UNCHANGED <<pump_run, pumpVars, workVars, sessionVars>>

\* ... and mqtt_abort().
ConnackAbort ==
    /\ app = "abort" /\ ~held
    /\ Abort
    /\ app' = "run"
    /\ UNCHANGED <<pump_run, connack_sem, pumpVars, workVars, held>>

\* k_sem_take() succeeds and the flag is up.
ConnackTaken ==
    /\ app = "sem" /\ Out("app")
    /\ connack_sem = 1 /\ connected
    /\ connack_sem' = 0
    /\ app' = "sub"
    /\ UNCHANGED <<pump_run, pumpVars, workVars, sessionVars>>

\* Mutant: a failed mqtt_subscribe() returns without disconnecting.
SubscribeFailsKeepsSession ==
    /\ app = "sub" /\ ~held
    /\ app' = "run"
    /\ UNCHANGED <<pump_run, connack_sem, pumpVars, workVars, sessionVars>>

\* mqtt_subscribe() fails or is refused; mqtt_disconnect() follows.
SubscribeFails ==
    /\ app = "sub" /\ ~held
    /\ IF mqtt = "up" THEN ClientDisconnect("app")
       ELSE UNCHANGED <<connected, clientVars, handler, histVars>>
    /\ app' = "flag"
    /\ UNCHANGED <<pump_run, connack_sem, pumpVars, workVars, held>>

\* Mutant: connect() raises the flag itself when it succeeds.
SubscribeOkRaises ==
    /\ app = "sub" /\ ~held
    /\ mqtt = "up" /\ sock \in open
    /\ connected' = TRUE
    /\ pump_run' = TRUE
    /\ pump' = "start" /\ pump_fd' = 0
    /\ Enters("pump", "none")
    /\ disturbed' = IF Out("pump") THEN disturbed ELSE disturbed \cup {sock, told}
    /\ app' = "run"
    /\ UNCHANGED <<connack_sem, workVars, clientVars, held, told, lowered>>

\* SUBSCRIBE is written: the pump is created, over whatever thread still
\* runs on the one static stack, and connect() returns 0.
SubscribeOk ==
    /\ app = "sub" /\ ~held
    /\ mqtt = "up" /\ sock \in open
    /\ pump_run' = TRUE
    /\ pump' = "start" /\ pump_fd' = 0
    /\ Enters("pump", "none")
    /\ disturbed' = IF Out("pump") THEN disturbed ELSE disturbed \cup {sock, told}
    /\ app' = "run"
    /\ UNCHANGED <<connack_sem, workVars, connected, clientVars, held, told, lowered>>

\* "connected = false", after mqtt_disconnect() in connect() or disconnect().
LowerFlag ==
    /\ app = "flag" /\ Out("app")
    /\ connected' = FALSE
    /\ app' = "run"
    /\ UNCHANGED <<pump_run, connack_sem, pumpVars, workVars, clientVars, held, handler, histVars>>
-----------------------------------------------------------------------------
(***************************************************************************)
(* iotc_mqtt_client_disconnect(), on the application thread.  pump_tid is  *)
(* set exactly while pump_run is raised and needs no variable.             *)
(***************************************************************************)
DisconnectEnter ==
    /\ app = "run" /\ Out("app")
    /\ pump_run' = FALSE
    /\ app' = "close"
    /\ UNCHANGED <<connack_sem, pumpVars, workVars, sessionVars>>

\* k_thread_join() returned, because the pump had ended or after five seconds
\* with a result nobody looks at: is there a session to end?
DisconnectCheck ==
    /\ app = "close"
    /\ app' = IF connected THEN "end" ELSE "run"
    /\ UNCHANGED <<pump_run, connack_sem, pumpVars, workVars, sessionVars>>

\* Mutant: mqtt_disconnect() is left to the pump.
DisconnectEndNothing ==
    /\ app = "end"
    /\ app' = "flag"
    /\ UNCHANGED <<pump_run, connack_sem, pumpVars, workVars, sessionVars>>

\* mqtt_disconnect(), refused when the session is over.
DisconnectEnd ==
    /\ app = "end" /\ ~held
    /\ IF mqtt = "up" THEN ClientDisconnect("app")
       ELSE UNCHANGED <<connected, clientVars, handler, histVars>>
    /\ app' = "flag"
    /\ UNCHANGED <<pump_run, connack_sem, pumpVars, workVars, held>>
-----------------------------------------------------------------------------
(***************************************************************************)
(* iotc_mqtt_client_publish(), on the application thread or the C2D        *)
(* worker: the flag is checked, then mqtt_publish() takes the mutex.       *)
(***************************************************************************)
AppPublish ==
    /\ app = "run" /\ Out("app") /\ connected
    /\ app' = "send"
    /\ UNCHANGED <<pump_run, connack_sem, pumpVars, workVars, sessionVars>>

AppSend ==
    /\ app = "send"
    /\ MqttPublish("app")
    /\ app' = "run"
    /\ UNCHANGED <<pump_run, connack_sem, pumpVars, workVars>>

\* c2d_work_handler(): the item is handed to iotc-c-lib's callbacks.
WorkerTake ==
    /\ worker = "idle" /\ c2d_queue > 0
    /\ worker' = "callback"
    /\ UNCHANGED <<appVars, pumpVars, c2d_queue, sessionVars>>

\* The callback publishes: an acknowledgement, telemetry, both or neither.
WorkerPublish ==
    /\ worker = "callback" /\ Out("worker") /\ connected
    /\ worker' = "send"
    /\ UNCHANGED <<appVars, pumpVars, c2d_queue, sessionVars>>

WorkerSend ==
    /\ worker = "send"
    /\ MqttPublish("worker")
    /\ worker' = "callback"
    /\ UNCHANGED <<appVars, pumpVars, c2d_queue>>

WorkerReturn ==
    /\ worker = "callback" /\ Out("worker")
    /\ worker' = "idle"
    /\ c2d_queue' = c2d_queue - 1
    /\ UNCHANGED <<appVars, pumpVars, sessionVars>>
-----------------------------------------------------------------------------
(***************************************************************************)
(* pump_thread_fn().                                                       *)
(***************************************************************************)
\* Mutant: the loop never looks at pump_run.
PumpAgainForever == pump' = "poll"

\* while (pump_run)
PumpAgain == pump' = IF pump_run THEN "poll" ELSE "exit"

PumpStart ==
    /\ pump = "start"
    /\ pump_fd' = sock
    /\ PumpAgain
    /\ UNCHANGED <<appVars, workVars, sessionVars>>

\* poll(): the keepalive is due, the socket is readable, or an error.
PumpPoll ==
    /\ pump = "poll"
    /\ \/ pump' = "live"
       \/ pump_fd \in open /\ pump' = "input"
       \/ pump' = "exit"
    /\ UNCHANGED <<appVars, pump_fd, workVars, sessionVars>>

\* mqtt_input() consumes a packet that changes nothing here (PUBACK, SUBACK,
\* PINGRESP, a PUBLISH whose copy cannot be allocated); a hang-up that poll()
\* reported with the data ends the loop.
PumpInput ==
    /\ pump = "input" /\ ~held
    /\ mqtt # "idle" /\ sock \in open
    /\ pump' \in {"live", "exit"}
    /\ UNCHANGED <<appVars, pump_fd, workVars, sessionVars>>

\* mqtt_input() meets a PUBLISH, and handle_publish() reads its payload: it
\* blocks, under the mutex, until the peer has sent all of it.
PumpHandlePublish ==
    /\ pump = "input" /\ ~held
    /\ mqtt = "up" /\ sock \in open
    /\ c2d_queue < MaxC2d
    /\ pump' = "payload" /\ held' = TRUE
    /\ UNCHANGED <<appVars, pump_fd, workVars, connected, clientVars, handler, histVars>>

\* The copy is complete and queued.
PumpPayload ==
    /\ pump = "payload"
    /\ held' = FALSE
    /\ c2d_queue' = c2d_queue + 1
    /\ pump' \in {"live", "exit"}
    /\ UNCHANGED <<appVars, pump_fd, worker, connected, clientVars, handler, histVars>>

\* The read fails, or the acknowledgement of what was queued does;
\* mqtt_input() hears of neither.
PumpPayloadFails ==
    /\ pump = "payload"
    /\ held' = FALSE
    /\ c2d_queue' \in {c2d_queue, c2d_queue + 1}
    /\ ClientDisconnect("pump")
    /\ pump' \in {"live", "exit"}
    /\ UNCHANGED <<appVars, pump_fd, worker>>

\* A pump that outlived its session reads the next session's CONNACK.
PumpConnack ==
    /\ pump = "input" /\ ~held
    /\ HandleConnack("pump")
    /\ pump' \in {"live", "exit"}
    /\ UNCHANGED <<appVars, pump_fd, workVars>>

\* mqtt_input() or mqtt_live() meets a transport failure.
PumpTransportFails ==
    /\ \/ pump = "input" /\ mqtt # "idle"
       \/ pump = "live" /\ Out("pump") /\ mqtt = "up"
    /\ ~held /\ UNCHANGED held
    /\ ClientDisconnect("pump")
    /\ pump' = "exit"
    /\ UNCHANGED <<appVars, pump_fd, workVars>>

\* mqtt_input() on a closed client is -ENOTCONN.
PumpInputClosed ==
    /\ pump = "input" /\ ~held /\ mqtt = "idle"
    /\ pump' = "exit"
    /\ UNCHANGED <<appVars, pump_fd, workVars, sessionVars>>

\* mqtt_live(): nothing is due, or PINGREQ is sent.
PumpLive ==
    /\ pump = "live" /\ Out("pump") /\ ~held
    /\ PumpAgain
    /\ UNCHANGED <<appVars, pump_fd, workVars, sessionVars>>

\* mqtt_live() on a client that is not up: the ping is refused.
PumpLiveRefused ==
    /\ pump = "live" /\ Out("pump") /\ ~held
    /\ mqtt # "up"
    /\ pump' = "exit"
    /\ UNCHANGED <<appVars, pump_fd, workVars, sessionVars>>

\* Mutant: the thread ends without lowering the flag.
PumpExitKeepsFlag ==
    /\ pump = "exit" /\ Out("pump")
    /\ pump' = "none"
    /\ UNCHANGED <<appVars, pump_fd, workVars, sessionVars>>

\* The loop was left: the flag goes down, and neither the socket nor the
\* status callback hears of it.
PumpExit ==
    /\ pump = "exit" /\ Out("pump")
    /\ pump' = "none" /\ pump_fd' = 0
    /\ connected' = FALSE
    /\ lowered' = IF connected /\ sock \in open THEN lowered \cup {sock} ELSE lowered
    /\ UNCHANGED <<appVars, workVars, clientVars, held, handler, told, disturbed>>
-----------------------------------------------------------------------------
Init ==
    /\ connected = FALSE /\ pump_run = FALSE /\ connack_sem = 0
    /\ app = "run" /\ pump = "none" /\ pump_fd = 0
    /\ worker = "idle" /\ c2d_queue = 0
    /\ mqtt = "idle" /\ sock = 0 /\ open = {} /\ held = FALSE
    /\ handler = [t \in Threads |-> "none"]
    /\ told = 0 /\ lowered = {} /\ disturbed = {}

Connect == ConnectEnter \/ ConnectUnresolved \/ ConnectOpen \/ ConnackFails \/ ConnackInput
           \/ ConnackMissing \/ ConnackAbort \/ ConnackTaken \/ SubscribeFails \/ SubscribeOk

Disconnect == DisconnectEnter \/ DisconnectCheck \/ DisconnectEnd

Publish == AppPublish \/ AppSend

App == Connect \/ Disconnect \/ LowerFlag \/ Publish \/ Event("app")

Worker == WorkerTake \/ WorkerPublish \/ WorkerSend \/ WorkerReturn \/ Event("worker")

Pump == PumpStart \/ PumpPoll \/ PumpInput \/ PumpHandlePublish
        \/ PumpConnack \/ PumpTransportFails \/ PumpInputClosed \/ PumpLive
        \/ PumpLiveRefused \/ PumpExit \/ Event("pump")

\* What ends the pump's wait for a payload is up to the peer and the network.
Payload == PumpPayload \/ PumpPayloadFails

Next == App \/ Worker \/ Pump \/ Payload

\* Zephyr's scheduler runs every ready thread, k_mutex hands over to the
\* longest waiter of the highest priority, and the waits of connect(),
\* disconnect() and poll() have timeouts.  A ping that falls due while the
\* client is not up is refused in the end.  Nothing obliges the application
\* to call the API, nor the peer to finish a payload: Payload is not fair.
InCall == (app # "run" \/ ~Out("app")) /\ App
Fairness == SF_vars(InCall) /\ WF_vars(Pump) /\ SF_vars(PumpLiveRefused) /\ SF_vars(Worker)

Spec == Init /\ [][Next]_vars /\ Fairness
-----------------------------------------------------------------------------
TypeOK ==
    /\ connected \in BOOLEAN /\ pump_run \in BOOLEAN /\ connack_sem \in {0, 1}
    /\ app \in AppPc /\ pump \in PumpPc /\ worker \in WorkerPc
    /\ pump_fd \in {0} \cup Sockets
    /\ c2d_queue \in 0..MaxC2d
    /\ mqtt \in {"idle", "tcp", "up"}
    /\ sock \in {0} \cup Sockets
    /\ open \subseteq Sockets /\ held \in BOOLEAN
    /\ handler \in [Threads -> Stages]
    /\ told \in {0} \cup Sockets
    /\ lowered \subseteq open /\ disturbed \subseteq {0} \cup Sockets

\* The flag the application and the worker trust: while it is up the MQTT
\* session is established and its socket is open, or a thread that closed
\* the socket is about to lower it in the DISCONNECT event.  Otherwise the
\* session had the events of two threads in it.
ConnectedMeansUp ==
    connected => \/ mqtt = "up" /\ sock \in open
                 \/ \E t \in Threads : handler[t] = "lower"
                 \/ sock \in disturbed

\* The flag is never up with nobody to serve the link or to lower it:
\* whenever the application is outside connect() and disconnect(), a raised
\* flag has a pump; and that pump polls this socket, once the application's
\* own event is over and unless two threads' events met in the session.
ConnectedIsServed ==
    connected /\ app \in {"run", "send"} =>
        /\ pump # "none"
        /\ Out("app") => pump = "start" \/ pump_fd = sock \/ sock \in disturbed

\* The status callback's view, whenever no event is being handled: a session
\* that is established was announced, and one that was announced CONNECTED
\* and not DISCONNECTED still has its socket.
StatusMirrorsSockets ==
    Quiet => /\ mqtt = "up" => told = sock \/ sock \in disturbed
             /\ told \in Sockets => told \in open \cup disturbed

\* A socket is abandoned (open, and no longer the client's, or the client's
\* with its flag down for good) only when the pump's exit lowered the flag of
\* a live session, or two threads' events met in it: every other path closes
\* what it opened before the next mqtt_client_init() wipes the client.
OnlyPumpExitLeaks ==
    /\ open \ {sock} \subseteq lowered \cup disturbed
    /\ Quiet /\ mqtt = "up" /\ sock \in open /\ ~connected => sock \in lowered \cup disturbed

\* When disconnect() returns the flag is down, and no socket is left open but
\* the abandoned ones.
DisconnectEnds ==
    [][(app = "close" \/ app = "flag") /\ app' = "run" =>
          ~connected' /\ open' \subseteq lowered \cup disturbed]_vars

\* handle_publish() waits for a payload without a timeout, and with the
\* client's mutex: a peer that stops in the middle of a PUBLISH holds the
\* pump, and every call that needs the mutex, for as long as it likes.
PeerFinishes == []<>(pump # "payload")

\* But for that the pump obeys: once disconnect() lowers pump_run the thread
\* ends, unless the application connects again ...
PumpStops == PeerFinishes => (~pump_run ~> (pump = "none" \/ pump_run))

\* ... and connect, disconnect and publish come back.
CallsReturn == PeerFinishes => (app # "run" ~> app = "run")

\* The contract of SessionContract: a CONNECT is out while the client is not
\* up, and who read its CONNACK has the event still to handle.
Contract == INSTANCE SessionContract WITH
    flag     <- connected,
    dialled  <- mqtt = "tcp",
    accepted <- {t \in Threads : handler[t] = "raise"}

\* The threads of this module never break the contract.
KeepsContract == Contract!CSpec

\* iotconnect.h:166 "Graceful MQTT disconnect; stops the message pump.", and
\* iotc_mqtt_client.h:61: when disconnect() returns, no pump is left.
DisconnectStopsPump ==
    [][app = "close" /\ app' = "run" => pump = "none"]_vars
=============================================================================
