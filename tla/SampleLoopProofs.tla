---------------------------- MODULE SampleLoopProofs ----------------------------
(***************************************************************************)
(* The sample's loop over the transport, for any number of sockets and     *)
(* commands: what was proved of the transport holds under the loop, and    *)
(* what the loop itself relies on follows.                                 *)
(***************************************************************************)
EXTENDS SampleLoop, MqttClientProofs

\* Where in the API the loop's thread can be.
LoopPlaced ==
    \/ main = "connect" /\ app \in {"run", "dial", "await", "sem", "abort", "sub", "flag"}
    \/ main = "serve" /\ app \in {"run", "send"}
    \/ main = "send" /\ app = "run"
    \/ main = "disconnect" /\ app \in {"run", "close", "end", "flag"}

\* The flag is down, or the thread that would ask for it is about to lower it.
FlagFalls == ~connected \/ handler["app"] = "lower"

\* In a clean session: connect() is called over a falling flag, and the loop
\* that lost a message finds the flag down before it sends another.
Loses ==
    /\ main = "connect" /\ app = "run" => FlagFalls
    /\ main = "serve" /\ app = "run" => lost = 0 \/ (lost = 1 /\ FlagFalls)
    /\ main = "send" \/ app = "send" => lost = 0

LoopInv ==
    /\ LoopPlaced
    /\ lost \in 0..2
    /\ main \in {"connect", "disconnect"} => lost = 0
    /\ Clean => Loses
-----------------------------------------------------------------------------
\* Every step of the composition is a step of the transport, or none.
LEMMA StepsTransport == SNext => [Next]_vars
  <1>1. MainConnecting \/ MainConnected => App
    BY DEF MainConnecting, MainConnected, Connect, App
  <1>2. MainPublish \/ MainSend => [App]_vars
    BY DEF MainPublish, MainSend, Publish, App
  <1>3. MainDisconnect \/ MainEvent => App
    BY DEF MainDisconnect, MainEvent, Disconnect, App
  <1>4. MainServe \/ MainLinkLost => UNCHANGED vars
    BY DEF MainServe, MainLinkLost
  <1>5. C2d \/ PumpThread \/ Peer => Worker \/ Pump \/ Payload BY DEF C2d, PumpThread, Peer
  <1> QED BY <1>1, <1>2, <1>3, <1>4, <1>5 DEF SNext, Main, Next

LEMMA LoopInitInv == SInit => LoopInv
  <1> SUFFICES ASSUME SInit PROVE LoopInv OBVIOUS
  <1>1. main = "connect" /\ app = "run" /\ lost = 0 BY DEF SInit, Init
  <1>2. ~connected BY Zenon DEF SInit, Init
  <1> QED BY <1>1, <1>2 DEF LoopInv, LoopPlaced, Loses, FlagFalls

\* The other threads leave the application where it is; they clean no session
\* up, and raise the flag only while it waits for a CONNACK.
LEMMA OthersFrame ==
    ASSUME IInv, Worker \/ Pump \/ Payload
    PROVE  /\ app' = app /\ handler'["app"] = handler["app"]
           /\ Clean' => Clean
           /\ Clean' /\ connected' => connected \/ app \in {"await", "sem", "abort"}
  <1> USE DEF IInv
  <1>0. "app" \in Threads /\ "pump" \in Threads /\ "worker" \in Threads BY DEF Threads
  <1>1. CASE Event("pump") \/ Event("worker")
    <2>1. PICK t \in {"pump", "worker"} : Event(t) BY <1>1
    <2>2. /\ app' = app /\ sock' = sock /\ disturbed' = disturbed
          /\ Enters(t, "none") \/ Enters(t, "reset")
          /\ connected' => connected \/ handler[t] = "raise"
      BY <2>1 DEF Event, EventRaise, EventLower, ClientReset, appVars, clientVars, histVars
    <2>3. handler'["app"] = handler["app"]
      BY <1>0, <2>2 DEF Enters, TypeOK, Stages
    <2> QED BY <1>0, <2>1, <2>2, <2>3 DEF Calls, Clean, Waiting, Some
  <1>2. CASE PumpIdle \/ WorkerTake \/ WorkerPublish \/ WorkerReturn
             \/ (WorkerSend /\ UNCHANGED <<connected, clientVars, handler, histVars>>)
    BY <1>2 DEF PumpIdle, PumpStart, PumpPoll, PumpInput, PumpHandlePublish, PumpPayload,
       PumpInputClosed, PumpLive, PumpLiveRefused, WorkerTake, WorkerPublish, WorkerReturn,
       WorkerSend, appVars, sessionVars, clientVars, histVars, Clean
  <1>3. CASE PumpTransportFails \/ PumpPayloadFails \/ (WorkerSend /\ ClientDisconnect("worker"))
    <2>1. PICK t \in {"pump", "worker"} : ClientDisconnect(t)
      BY <1>3 DEF PumpTransportFails, PumpPayloadFails
    <2>2. handler'["app"] = handler["app"]
      BY <1>0, <2>1 DEF ClientDisconnect, Enters, TypeOK
    <2>3. app' = app
      BY <1>3 DEF PumpTransportFails, PumpPayloadFails, WorkerSend, appVars
    <2> QED BY <2>1, <2>2, <2>3 DEF ClientDisconnect, Clean
  <1>4. CASE PumpConnack
    <2>1. handler'["app"] = handler["app"]
      BY <1>0, <1>4 DEF PumpConnack, HandleConnack, Enters, TypeOK
    <2> QED BY <1>4, <2>1 DEF PumpConnack, HandleConnack, appVars, Clean
  <1>5. CASE PumpExit
    BY <1>5 DEF PumpExit, appVars, clientVars, Clean
  <1>6. \/ PumpIdle \/ PumpTransportFails \/ PumpPayloadFails \/ PumpConnack \/ PumpExit
        \/ Event("pump") \/ Event("worker") \/ WorkerTake \/ WorkerPublish \/ WorkerReturn
        \/ (WorkerSend /\ ClientDisconnect("worker"))
        \/ (WorkerSend /\ UNCHANGED <<connected, clientVars, handler, histVars>>)
    BY DEF Worker, Pump, Payload, PumpIdle, WorkerSend, MqttPublish
  <1> QED BY <1>1, <1>2, <1>3, <1>4, <1>5, <1>6
-----------------------------------------------------------------------------
\* The other threads move no part of the loop.
LEMMA OthersKeepLoop ==
    ASSUME IInv, LoopInv, C2d \/ PumpThread \/ Peer PROVE LoopInv'
  <1>1. UNCHANGED <<main, lost>> /\ (Worker \/ Pump \/ Payload) BY DEF C2d, PumpThread, Peer
  <1>2. /\ app' = app /\ handler'["app"] = handler["app"]
        /\ Clean' => Clean
        /\ Clean' /\ connected' => connected \/ app \in {"await", "sem", "abort"}
    BY <1>1, OthersFrame
  <1>3. Clean' => Loses'
    <2> SUFFICES ASSUME Clean' PROVE Loses' OBVIOUS
    <2>1. Loses BY <1>2 DEF LoopInv
    <2>2. app = "run" /\ FlagFalls => FlagFalls' BY <1>2 DEF FlagFalls
    <2> QED BY <1>1, <1>2, <2>1, <2>2 DEF Loses
  <1> QED BY <1>1, <1>2, <1>3 DEF LoopInv, LoopPlaced

\* The event of the application's own call.
LEMMA EventKeepsLoop ==
    ASSUME IInv, LoopInv, MainEvent PROVE LoopInv'
  <1>1. /\ UNCHANGED <<main, lost, app, sock, disturbed>>
        /\ connected' => (connected /\ handler["app"] # "lower") \/ handler["app"] = "raise"
    BY DEF MainEvent, Event, EventRaise, EventLower, ClientReset, appVars, clientVars, histVars
  <1>2. Clean' => Loses'
    <2> SUFFICES ASSUME Clean' PROVE Loses' OBVIOUS
    <2>1. Loses BY <1>1 DEF LoopInv, Clean
    <2>2. app = "run" /\ FlagFalls => FlagFalls' BY <1>1 DEF FlagFalls, IInv, Placed
    <2> QED BY <1>1, <2>1, <2>2 DEF Loses
  <1> QED BY <1>1, <1>2 DEF LoopInv, LoopPlaced

\* connect() leaves the flag down, or about to go down, when it fails.
LEMMA ConnectKeepsLoop ==
    ASSUME IInv, LoopInv, MainConnecting \/ MainConnected PROVE LoopInv'
  <1> USE DEF IInv
  <1>1. main = "connect" /\ lost' = lost /\ lost = 0
    BY DEF MainConnecting, MainConnected, LoopInv
  <1>2. CASE MainConnected
    <2>1. app' = "run" /\ main' = "serve" BY <1>2 DEF MainConnected, SubscribeOk
    <2> QED BY <1>1, <2>1 DEF LoopInv, LoopPlaced, Loses
  <1>3. CASE MainConnecting
    <2>1. main' = "connect" BY <1>1, <1>3 DEF MainConnecting
    <2>2. app' \in {"run", "dial", "await", "sem", "abort", "sub", "flag"}
      BY <1>3 DEF MainConnecting, ConnectEnter, ConnectUnresolved, ConnectOpen, ConnackFails,
         ConnackInput, ConnackMissing, ConnackAbort, ConnackTaken, SubscribeFails, LowerFlag
    <2>3. ASSUME Clean', app' = "run" PROVE FlagFalls'
      <3>1. CASE ConnectOpen
        BY <2>3, <3>1, DialKeepsSession DEF FlagFalls, Calls
      <3>2. CASE ConnectUnresolved
        <4>1. Clean /\ app = "dial" /\ connected' = connected
          BY <2>3, <3>2 DEF ConnectUnresolved, sessionVars, clientVars, histVars, Clean
        <4> QED BY <4>1 DEF Calls, Dials, FlagFalls
      <3>3. CASE (ConnackFails \/ ConnackAbort) /\ mqtt = "idle"
        <4>1. Clean /\ connected' = connected
          BY <2>3, <3>3
          DEF ConnackFails, ConnackAbort, Abort, clientVars, histVars, Clean
        <4> QED BY <3>3, <4>1 DEF Session, Settled, Up, FlagFalls
      <3>4. CASE (ConnackFails \/ ConnackAbort) /\ mqtt # "idle"
        <4>1. ClientDisconnect("app") /\ Out("app") /\ "app" \in Threads
          BY <3>4 DEF ConnackFails, ConnackAbort, Abort, Placed, Out, Threads
        <4>2. Clean /\ connected' = connected
              /\ handler'["app"] = (IF mqtt = "up" THEN "lower" ELSE "reset")
          BY <2>3, <4>1, ClosingKeepsSession
        <4> QED BY <4>2 DEF Session, Settled, Up, FlagFalls
      <3>5. CASE LowerFlag BY <3>5 DEF LowerFlag, FlagFalls
      <3>6. ~(ConnectEnter \/ ConnackInput \/ ConnackMissing \/ ConnackTaken \/ SubscribeFails)
        BY <2>3 DEF ConnectEnter, ConnackInput, ConnackMissing, ConnackTaken, SubscribeFails
      <3> QED BY <1>3, <3>1, <3>2, <3>3, <3>4, <3>5, <3>6 DEF MainConnecting
    <2> QED BY <1>1, <2>1, <2>2, <2>3 DEF LoopInv, LoopPlaced, Loses
  <1> QED BY <1>2, <1>3

\* The inner loop: a message is lost only with the flag down or falling, and
\* then no other before the next session.
LEMMA ServeKeepsLoop ==
    ASSUME IInv, LoopInv, MainServe \/ MainPublish \/ MainSend \/ MainLinkLost
    PROVE  LoopInv'
  <1> USE DEF IInv
  <1>1. CASE MainServe
    <2>1. /\ main = "serve" /\ app = "run" /\ Out("app") /\ connected /\ main' = "send"
          /\ UNCHANGED <<app, lost, sock, disturbed>>
      BY <1>1 DEF MainServe, vars, appVars, sessionVars, clientVars, histVars
    <2>2. Clean => lost = 0 BY <2>1 DEF LoopInv, Loses, FlagFalls, Out
    <2> QED BY <2>1, <2>2 DEF LoopInv, LoopPlaced, Loses, Clean
  <1>2. CASE MainLinkLost
    <2>1. main' = "disconnect" /\ app = "run" /\ app' = app /\ lost' = 0
      BY <1>2 DEF MainLinkLost, vars, appVars
    <2> QED BY <2>1 DEF LoopInv, LoopPlaced, Loses
  <1>3. CASE MainPublish
    <2>1. main = "send" /\ main' = "serve" BY <1>3 DEF MainPublish
    <2>2. CASE AppPublish /\ UNCHANGED lost
      <3>1. app' = "send" /\ UNCHANGED <<sock, disturbed>>
        BY <2>2 DEF AppPublish, sessionVars, clientVars, histVars
      <3> QED BY <2>1, <2>2, <3>1 DEF LoopInv, LoopPlaced, Loses, Clean
    <2>3. CASE ~connected /\ Lose /\ UNCHANGED vars
      <3>1. ~connected' /\ app' = app /\ UNCHANGED <<sock, disturbed>>
        BY <2>3 DEF vars, appVars, sessionVars, clientVars, histVars
      <3>2. lost' \in 0..2 /\ (lost = 0 => lost' = 1) BY <2>3 DEF Lose, LoopInv
      <3> QED BY <2>1, <3>1, <3>2 DEF LoopInv, LoopPlaced, Loses, FlagFalls, Clean
    <2> QED BY <1>3, <2>2, <2>3 DEF MainPublish
  <1>4. CASE MainSend
    <2>1. main = "serve" /\ main' = "serve" /\ app = "send" /\ app' = "run" /\ MqttPublish("app")
      BY <1>4 DEF MainSend, AppSend
    <2>2. lost' \in 0..2 /\ (lost = 0 => lost' \in {0, 1})
          /\ (lost' # lost => mqtt # "up" \/ ~Out("app")')
      BY <1>4 DEF MainSend, Lose, LoopInv
    <2>3. ASSUME Clean' PROVE lost' = 0 \/ (lost' = 1 /\ FlagFalls')
      <3>1. Out("app") /\ "app" \in Threads BY <2>1 DEF Placed, Out, Threads
      <3>2. Clean
        BY <2>1, <2>3 DEF MqttPublish, ClientDisconnect, clientVars, histVars, Clean
      <3>3. lost = 0 BY <2>1, <3>2 DEF LoopInv, Loses
      <3>4. CASE UNCHANGED <<connected, clientVars, handler, histVars>>
        <4>1. Out("app")' BY <3>1, <3>4 DEF Out
        <4>2. lost' # lost => ~connected'
          BY <2>2, <3>2, <3>4, <4>1 DEF Session, Settled, Up
        <4> QED BY <2>2, <3>3, <4>2 DEF FlagFalls
      <3>5. CASE mqtt = "up" /\ ClientDisconnect("app")
        <4>1. handler'["app"] = "lower" BY <3>1, <3>5, ClosingKeepsSession
        <4> QED BY <2>2, <3>3, <4>1 DEF FlagFalls
      <3> QED BY <2>1, <3>4, <3>5 DEF MqttPublish
    <2> QED BY <2>1, <2>2, <2>3 DEF LoopInv, LoopPlaced, Loses
  <1> QED BY <1>1, <1>2, <1>3, <1>4

\* disconnect() returns with the flag down.
LEMMA DisconnectKeepsLoop ==
    ASSUME IInv, LoopInv, MainDisconnect PROVE LoopInv'
  <1>1. main = "disconnect" /\ lost' = lost /\ lost = 0 BY DEF MainDisconnect, LoopInv
  <1>2. \/ app' \in {"close", "end", "flag"}
        \/ app' = "run" /\ ~connected'
    BY DEF MainDisconnect, DisconnectEnter, DisconnectCheck, DisconnectEnd, LowerFlag,
           sessionVars
  <1>3. main' = IF app' = "run" THEN "connect" ELSE "disconnect" BY DEF MainDisconnect
  <1> QED BY <1>1, <1>2, <1>3 DEF LoopInv, LoopPlaced, Loses, FlagFalls

LEMMA LoopStutter == ASSUME LoopInv, UNCHANGED svars PROVE LoopInv'
  BY DEF LoopInv, LoopPlaced, Loses, FlagFalls, Clean, svars, vars, appVars, sessionVars,
         clientVars, histVars
-----------------------------------------------------------------------------
\* The transport's invariant and the loop's hold together throughout.
THEOREM LoopInvariance == SSpec => [](IInv /\ LoopInv)
  <1>1. SInit => IInv /\ LoopInv BY InitInv, LoopInitInv DEF SInit
  <1>2. IInv /\ LoopInv /\ [SNext]_svars => (IInv /\ LoopInv)'
    <2> SUFFICES ASSUME IInv, LoopInv, [SNext]_svars PROVE IInv' /\ LoopInv' OBVIOUS
    <2>1. [Next]_vars BY StepsTransport DEF svars
    <2>2. ASSUME SNext PROVE LoopInv'
      <3>1. CASE C2d \/ PumpThread \/ Peer BY <3>1, OthersKeepLoop
      <3>2. CASE MainEvent BY <3>2, EventKeepsLoop
      <3>3. CASE MainConnecting \/ MainConnected BY <3>3, ConnectKeepsLoop
      <3>4. CASE MainServe \/ MainPublish \/ MainSend \/ MainLinkLost BY <3>4, ServeKeepsLoop
      <3>5. CASE MainDisconnect BY <3>5, DisconnectKeepsLoop
      <3> QED BY <2>2, <3>1, <3>2, <3>3, <3>4, <3>5, Zenon DEF SNext, Main
    <2> QED BY <2>1, <2>2, LoopStutter, NextInv
  <1> QED BY <1>1, <1>2, PTL DEF SSpec

\* The loop's connect() is never refused because the session before it is
\* still up.
THEOREM ConnectIsNeverRefused == SSpec => []NeverAlreadyConnected
  <1>1. LoopInv => NeverAlreadyConnected
    BY DEF LoopInv, Loses, FlagFalls, Clean, Out, NeverAlreadyConnected
  <1> QED BY <1>1, LoopInvariance, PTL

\* The loop loses no more than one message to each session.
THEOREM OneMessagePerSession == SSpec => []OneLostPerSession
  <1>1. ASSUME LoopInv PROVE OneLostPerSession
    <2>1. Clean => lost <= 1 BY <1>1 DEF LoopInv, LoopPlaced, Loses
    <2> QED BY <2>1 DEF Clean, OneLostPerSession
  <1> QED BY <1>1, LoopInvariance, PTL

\* In the loop the transport does nothing it does not do alone.
THEOREM LoopRunsTransport == SSpec => Init /\ [][Next]_vars
  <1>1. SInit => Init BY DEF SInit
  <1>2. [SNext]_svars => [Next]_vars BY StepsTransport DEF svars
  <1> QED BY <1>1, <1>2, PTL DEF SSpec
=============================================================================
