--------------------------- MODULE MqttClientProofs ---------------------------
(***************************************************************************)
(* Proofs about MqttClient, for any number of sockets and queued work      *)
(* items: its type invariant, its safety invariants, what disconnect()     *)
(* leaves behind, and that it keeps SessionContract.                       *)
(*                                                                         *)
(* None of the safety invariants is inductive alone.  What a raised flag   *)
(* means depends on which thread is in which half of an event, and that on *)
(* where each thread can be when it raises one (Placed); what a dial may   *)
(* lose depends on who still owns the socket (Settled); and a session that *)
(* had the events of two threads in it (disturbed) promises nothing until  *)
(* the next dial.  IInv is what every step preserves.                      *)
(***************************************************************************)
EXTENDS MqttClient, TLAPS

Some(stage) == \E t \in Threads : handler[t] = stage

\* Where a thread can be while it handles an event.
Placed ==
    /\ handler["app"] # "none" => app \in {"run", "sem", "flag"}
    /\ handler["app"] = "raise" => app = "sem"
    /\ handler["worker"] # "none" => worker = "callback"
    /\ handler["worker"] # "raise"
    /\ handler["pump"] # "none" => pump \in {"live", "exit"}

\* A queued item is counted until its callback returned, and a payload being
\* read has its room.
Counted ==
    /\ worker # "idle" => c2d_queue > 0
    /\ pump = "payload" => c2d_queue < MaxC2d

\* The session had the events of one thread at a time.
Clean == sock \notin disturbed

\* Who reads the CONNACK is alone with it until it raised the flag.
Raising == \A t \in Threads : handler[t] = "raise" =>
    /\ mqtt = "up" /\ sock \in open /\ ~connected
    /\ \A u \in Threads \ {t} : Out(u)

\* client_disconnect() has closed the socket before it raises its event.
Closing == Some("lower") \/ Some("reset") => sock \notin open

Up == connected => /\ mqtt = "up" /\ ~Some("reset")
                   /\ sock \in open \/ Some("lower")

Dialled == mqtt = "tcp" => sock # 0 /\ told # sock

Closed == mqtt = "idle" => sock \notin open

\* An established session was announced, and has its flag or lost it to the
\* pump's exit; one whose socket is closed is being torn down.
Live == mqtt = "up" /\ sock \in open =>
    \/ Some("raise")
    \/ told = sock /\ (connected \/ sock \in lowered)

Dead == mqtt = "up" /\ sock \notin open => Some("lower") \/ Some("reset")

Settled == Raising /\ Closing /\ Up /\ Dialled /\ Closed /\ Live /\ Dead

\* A session announced CONNECTED has its socket, or its DISCONNECT is due.
Announced == told \in Sockets => told \in open \cup disturbed \/ Some("lower")

Leaks == open \ {sock} \subseteq lowered \cup disturbed

Session == (Clean => Settled) /\ Announced /\ Leaks

\* The application waits for a CONNACK as long as one is due, and its calls
\* leave what they promise.
Waiting == Some("raise") \/ (mqtt = "tcp" /\ sock \in open) => app \in {"await", "sem", "abort"}

Dials == app = "dial" => ~connected

Ended == app = "flag" => sock \notin open

\* A raised flag has a pump on its socket, or connect() still at work.
Polled == connected => \/ pump = "start" \/ pump_fd = sock
                       \/ app \in {"await", "sem", "abort", "sub", "flag"}
                       \/ handler["app"] = "lower"

Calls == Clean => Waiting /\ Dials /\ Ended /\ Polled

\* Even in a disturbed session.
Pumped == connected /\ pump = "none" => \/ app = "sem" /\ connack_sem = 1 /\ Out("app")
                                        \/ app \in {"sub", "flag"}

IInv == TypeOK /\ Placed /\ Counted /\ Session /\ Calls /\ Pumped
-----------------------------------------------------------------------------
(***************************************************************************)
(* What any thread can do to the session.                                  *)
(***************************************************************************)
\* The steps of client_disconnect() and of the handlers keep types and places.
LEMMA EntersType ==
    ASSUME TypeOK, NEW t \in Threads, NEW stage \in Stages, Enters(t, stage)
    PROVE  /\ handler' \in [Threads -> Stages]
           /\ handler'[t] = stage
           /\ \A u \in Threads \ {t} : handler'[u] = handler[u]
  BY DEF TypeOK, Enters

\* Closing the socket keeps the session facts, and its event is due.
LEMMA ClosingKeepsSession ==
    ASSUME TypeOK, Session, NEW t \in Threads, Out(t), ClientDisconnect(t)
    PROVE  /\ Session'
           /\ UNCHANGED <<connected, mqtt, sock, told>> /\ sock \notin open'
           /\ handler' \in [Threads -> Stages]
           /\ handler'[t] = (IF mqtt = "up" THEN "lower" ELSE "reset")
           /\ \A u \in Threads \ {t} : handler'[u] = handler[u]
           /\ open' \subseteq Sockets /\ lowered' \subseteq open'
           /\ disturbed' \subseteq {0} \cup Sockets
           /\ Clean' => Clean /\ ~Some("raise")
  <1>0. /\ UNCHANGED <<connected, mqtt, sock, told>> /\ open' = open \ {sock}
        /\ lowered' = lowered \ {sock}
        /\ disturbed' \in {disturbed, disturbed \cup {sock}}
        /\ sock \notin disturbed' => \A u \in Threads \ {t} : handler[u] # "raise"
    BY DEF ClientDisconnect
  <1>1. /\ handler' \in [Threads -> Stages]
        /\ handler'[t] = (IF mqtt = "up" THEN "lower" ELSE "reset")
        /\ \A u \in Threads \ {t} : handler'[u] = handler[u]
    <2>1. (IF mqtt = "up" THEN "lower" ELSE "reset") \in Stages BY DEF Stages
    <2> QED BY <2>1, EntersType DEF ClientDisconnect
  <1>2. Clean' => Clean /\ ~Some("raise")
    BY <1>0 DEF Clean, Some, Out
  <1>3. ASSUME Clean' PROVE Settled'
    <2>0. Settled /\ Clean BY <1>2, <1>3 DEF Session
    <2>1. Raising' BY <1>1, <1>2, <1>3 DEF Raising, Some
    <2>2. Closing' /\ Closed' /\ Live' BY <1>0 DEF Closing, Closed, Live
    <2>3. Up' BY <1>0, <1>1, <2>0 DEF Settled, Up, Some
    <2>4. Dialled' BY <1>0, <2>0 DEF Settled, Dialled
    <2>5. Dead' BY <1>0, <1>1 DEF Dead, Some
    <2> QED BY <2>1, <2>2, <2>3, <2>4, <2>5 DEF Settled
  <1>4. Announced'
    <2>1. Some("lower") => Some("lower")' BY <1>1 DEF Some, Out
    <2>2. CASE told # sock BY <1>0, <2>1, <2>2 DEF Session, Announced
    <2>3. CASE told = sock /\ sock \in disturbed BY <1>0, <2>3 DEF Announced
    <2>4. CASE mqtt = "up" BY <1>1, <2>4 DEF Announced, Some
    <2>5. CASE Clean /\ mqtt # "up" /\ told = sock
      <3>1. sock \notin open BY <2>5 DEF Session, Settled, Dialled, Closed, TypeOK
      <3> QED BY <1>0, <2>1, <2>5, <3>1 DEF Session, Announced
    <2> QED BY <2>2, <2>3, <2>4, <2>5 DEF Clean
  <1>5. Leaks' BY <1>0 DEF Session, Leaks
  <1> QED BY <1>0, <1>1, <1>2, <1>3, <1>4, <1>5 DEF Session, TypeOK

\* An accepting CONNACK keeps the session facts; its event is due.
LEMMA ConnackKeepsSession ==
    ASSUME TypeOK, Session, NEW t \in Threads, Out(t), HandleConnack(t)
    PROVE  /\ Session'
           /\ UNCHANGED <<connected, sock, open, held, told, lowered>>
           /\ mqtt = "tcp" /\ mqtt' = "up" /\ sock \in open
           /\ handler' \in [Threads -> Stages] /\ handler'[t] = "raise"
           /\ \A u \in Threads \ {t} : handler'[u] = handler[u]
           /\ disturbed' \subseteq {0} \cup Sockets
           /\ Clean' => Clean /\ ~connected
  <1>0. /\ UNCHANGED <<connected, sock, open, held, told, lowered>>
        /\ mqtt = "tcp" /\ mqtt' = "up" /\ sock \in open
        /\ disturbed' \in {disturbed, disturbed \cup {sock}}
        /\ sock \notin disturbed' => \A u \in Threads \ {t} : Out(u)
    BY DEF HandleConnack
  <1>1. /\ handler' \in [Threads -> Stages] /\ handler'[t] = "raise"
        /\ \A u \in Threads \ {t} : handler'[u] = handler[u]
    <2>1. "raise" \in Stages BY DEF Stages
    <2> QED BY <2>1, EntersType DEF HandleConnack
  <1>2. Clean' => Clean /\ ~connected
    BY <1>0 DEF Clean, Session, Settled, Up
  <1>3. ASSUME Clean' PROVE Settled'
    <2>0. /\ Settled /\ Clean /\ ~connected
          /\ \A u \in Threads \ {t} : handler'[u] = "none"
      BY <1>0, <1>1, <1>2, <1>3 DEF Session, Clean, Out
    <2>1. Raising' BY <1>0, <1>1, <2>0 DEF Raising, Out
    <2>2. Closing' BY <1>0, <1>1, <2>0 DEF Closing, Some
    <2>3. Up' /\ Dialled' /\ Closed' /\ Dead' BY <1>0, <2>0 DEF Up, Dialled, Closed, Dead
    <2>4. Live' BY <1>1 DEF Live, Some
    <2> QED BY <2>1, <2>2, <2>3, <2>4 DEF Settled
  <1>4. Announced'
    <2>1. Some("lower") => Some("lower")' BY <1>1 DEF Some, Out
    <2> QED BY <1>0, <2>1 DEF Session, Announced
  <1>5. Leaks' BY <1>0 DEF Session, Leaks
  <1> QED BY <1>0, <1>1, <1>2, <1>3, <1>4, <1>5 DEF Session, TypeOK

\* A step that touches none of it keeps the session facts.
LEMMA IdleKeepsSession ==
    ASSUME Session, UNCHANGED <<connected, clientVars, handler, histVars>>
    PROVE  Session'
  BY DEF Session, Clean, Settled, Raising, Closing, Up, Dialled, Closed, Live, Dead, Announced,
         Leaks, Some, Out, clientVars, histVars

\* The event of an accepted CONNACK: the flag is up, and the session announced.
LEMMA RaiseKeepsSession ==
    ASSUME TypeOK, Session, NEW t \in Threads, EventRaise(t)
    PROVE  Session'
  <1>0. /\ handler[t] = "raise" /\ connected' = TRUE /\ told' = sock
        /\ UNCHANGED <<mqtt, sock, open, lowered, disturbed, app>>
        /\ handler' \in [Threads -> Stages] /\ handler'[t] = "none"
        /\ \A u \in Threads \ {t} : handler'[u] = handler[u]
    <2>1. "none" \in Stages BY DEF Stages
    <2> QED BY <2>1, EntersType DEF EventRaise, clientVars
  <1>1. ASSUME Clean' PROVE Settled' /\ sock \in open
    <2>0. /\ Settled /\ mqtt = "up" /\ sock \in open
          /\ \A u \in Threads : handler'[u] = "none"
      BY <1>0, <1>1 DEF Session, Clean, Settled, Raising, Out
    <2>1. Raising' /\ Closing' BY <1>0, <2>0 DEF Raising, Closing, Some
    <2>2. Up' BY <1>0, <2>0 DEF Up, Some
    <2>3. Dialled' /\ Closed' /\ Live' /\ Dead' BY <1>0, <2>0 DEF Dialled, Closed, Live, Dead
    <2> QED BY <2>0, <2>1, <2>2, <2>3 DEF Settled
  <1>2. Announced' BY <1>0, <1>1 DEF Announced, Clean
  <1>3. Leaks' BY <1>0 DEF Session, Leaks
  <1> QED BY <1>1, <1>2, <1>3 DEF Session

\* MQTT_EVT_DISCONNECT: the flag is down, over a closed socket.
LEMMA LowerKeepsSession ==
    ASSUME TypeOK, Session, NEW t \in Threads, EventLower(t)
    PROVE  Session'
  <1>0. /\ handler[t] = "lower" /\ connected' = FALSE /\ told' = 0
        /\ UNCHANGED <<mqtt, sock, open, lowered, disturbed>>
        /\ handler' \in [Threads -> Stages] /\ handler'[t] = "reset"
        /\ \A u \in Threads \ {t} : handler'[u] = handler[u]
    <2>1. "reset" \in Stages BY DEF Stages
    <2> QED BY <2>1, EntersType DEF EventLower, clientVars
  <1>1. ASSUME Clean' PROVE Settled'
    <2>0. Settled /\ sock \notin open
      BY <1>0, <1>1 DEF Session, Clean, Settled, Closing, Some
    <2>1. Raising' BY <1>0, <2>0 DEF Settled, Raising, Out
    <2>2. Closing' /\ Up' /\ Closed' /\ Live' BY <1>0, <2>0 DEF Closing, Up, Closed, Live
    <2>3. Dialled' BY <1>0, <2>0 DEF Settled, Dialled
    <2>4. Dead' BY <1>0 DEF Dead, Some
    <2> QED BY <2>1, <2>2, <2>3, <2>4 DEF Settled
  <1>2. Announced' BY <1>0 DEF Announced, Sockets
  <1>3. Leaks' BY <1>0 DEF Session, Leaks
  <1> QED BY <1>1, <1>2, <1>3 DEF Session

\* client_reset(), behind the event.
LEMMA ResetKeepsSession ==
    ASSUME TypeOK, Session, NEW t \in Threads, ClientReset(t)
    PROVE  Session'
  <1>0. /\ handler[t] = "reset" /\ mqtt' = "idle"
        /\ UNCHANGED <<connected, told, sock, open, lowered, disturbed>>
        /\ handler' \in [Threads -> Stages] /\ handler'[t] = "none"
        /\ \A u \in Threads \ {t} : handler'[u] = handler[u]
    <2>1. "none" \in Stages BY DEF Stages
    <2> QED BY <2>1, EntersType DEF ClientReset, histVars
  <1>1. ASSUME Clean' PROVE Settled'
    <2>0. Settled /\ sock \notin open /\ ~connected
      BY <1>0, <1>1 DEF Session, Clean, Settled, Closing, Up, Some
    <2>1. Raising' BY <1>0, <2>0 DEF Settled, Raising, Out
    <2>2. Closing' /\ Up' /\ Closed' /\ Live' BY <1>0, <2>0 DEF Closing, Up, Closed, Live
    <2>3. Dialled' /\ Dead' BY <1>0 DEF Dialled, Dead
    <2> QED BY <2>1, <2>2, <2>3 DEF Settled
  <1>2. Announced'
    <2>1. Some("lower") => Some("lower")' BY <1>0 DEF Some
    <2> QED BY <1>0, <2>1 DEF Session, Announced
  <1>3. Leaks' BY <1>0 DEF Session, Leaks
  <1> QED BY <1>1, <1>2, <1>3 DEF Session

\* "connected = false" over a closed socket, or over a disturbed session.
LEMMA FlagDownKeepsSession ==
    ASSUME TypeOK, Session, Clean => sock \notin open, connected' = FALSE,
           UNCHANGED <<clientVars, handler, histVars>>
    PROVE  Session'
  <1> USE DEF clientVars, histVars
  <1>1. ASSUME Clean' PROVE Settled'
    <2>1. Settled /\ sock \notin open BY <1>1 DEF Session, Clean
    <2>2. Raising' BY <2>1 DEF Settled, Raising, Out
    <2>3. Closing' /\ Up' /\ Live' /\ Closed' BY <2>1 DEF Closing, Up, Live, Closed
    <2>4. Dialled' /\ Dead' BY <2>1 DEF Settled, Dialled, Dead, Some
    <2> QED BY <2>2, <2>3, <2>4 DEF Settled
  <1>2. Announced' /\ Leaks' BY DEF Session, Announced, Leaks, Some
  <1> QED BY <1>1, <1>2 DEF Session

\* The pump's exit lowers the flag of a session whose socket stays.
LEMMA ExitKeepsSession ==
    ASSUME TypeOK, Session, PumpExit
    PROVE  Session' /\ lowered' \subseteq open'
  <1>0. /\ connected' = FALSE /\ UNCHANGED <<mqtt, sock, open, handler, told, disturbed>>
        /\ lowered \subseteq lowered'
        /\ connected /\ sock \in open => sock \in lowered'
        /\ lowered' \subseteq open'
    BY DEF PumpExit, clientVars, TypeOK
  <1>1. ASSUME Clean' PROVE Settled'
    <2>1. Settled BY <1>0, <1>1 DEF Session, Clean
    <2>2. Raising' BY <1>0, <2>1 DEF Settled, Raising, Out
    <2>3. Closing' /\ Up' /\ Closed' BY <1>0, <2>1 DEF Settled, Closing, Up, Closed, Some
    <2>4. Dialled' /\ Dead' BY <1>0, <2>1 DEF Settled, Dialled, Dead, Some
    <2>5. Live' BY <1>0, <2>1 DEF Settled, Live, Some
    <2> QED BY <2>2, <2>3, <2>4, <2>5 DEF Settled
  <1>2. Announced' /\ Leaks' BY <1>0 DEF Session, Announced, Leaks, Some
  <1> QED BY <1>0, <1>1, <1>2 DEF Session

\* A dial may lose an open socket only as the pump's exit or two threads left
\* it, and what it finds settled is a clean session.
LEMMA DialKeepsSession ==
    ASSUME TypeOK, Session, Clean => Dials /\ Waiting, ConnectOpen
    PROVE  /\ Session'
           /\ sock' \in {0} \cup Sockets /\ open' \subseteq Sockets /\ lowered' \subseteq open'
           /\ disturbed' \subseteq {0} \cup Sockets
           /\ Clean' => ~connected' /\ \A t \in Threads : handler'[t] = "none"
  <1>0. UNCHANGED <<connected, handler, told, lowered>> /\ app = "dial"
    BY DEF ConnectOpen
  <1>1. sock \in open => sock \in lowered \cup disturbed
    <2>1. ASSUME Clean, sock \in open PROVE sock \in lowered
      <3>1. Settled /\ ~connected /\ mqtt # "tcp" /\ ~Some("raise")
        BY <1>0, <2>1 DEF Session, Dials, Waiting
      <3> QED BY <2>1, <3>1 DEF Settled, Closed, Live, TypeOK
    <2> QED BY <2>1 DEF Clean
  <1>2. PICK s \in ({0} \cup Sockets) \ open :
           /\ sock' = s
           /\ \/ s = 0 /\ mqtt' = "idle" /\ open' = open
              \/ s \in Sockets /\ mqtt' = "tcp" /\ open' = open \cup {s}
           /\ \/ disturbed' = disturbed \cup {s}
              \/ /\ disturbed' = disturbed \ {s} /\ told \notin {s} \ {0}
                 /\ Quiet /\ ~connected
    <2>1. 0 \notin open BY DEF TypeOK, Sockets
    <2>2. ASSUME NEW s, Redialled(s)
          PROVE  /\ sock' = s
                 /\ \/ disturbed' = disturbed \cup {s}
                    \/ /\ disturbed' = disturbed \ {s} /\ told \notin {s} \ {0}
                       /\ Quiet /\ ~connected
      <3>1. CASE Quiet /\ ~connected /\ told \notin {s} \ {0}
        BY <2>2, <3>1 DEF Redialled
      <3>2. CASE ~(Quiet /\ ~connected /\ told \notin {s} \ {0})
        BY <2>2, <3>2 DEF Redialled
      <3> QED BY <3>1, <3>2
    <2>3. CASE mqtt' = "idle" /\ Redialled(0) /\ UNCHANGED open
      BY <2>1, <2>2, <2>3
    <2>4. ASSUME NEW s \in Sockets \ open, mqtt' = "tcp", Redialled(s), open' = open \cup {s}
          PROVE  \E z \in ({0} \cup Sockets) \ open :
                   /\ sock' = z
                   /\ \/ z = 0 /\ mqtt' = "idle" /\ open' = open
                      \/ z \in Sockets /\ mqtt' = "tcp" /\ open' = open \cup {z}
                   /\ \/ disturbed' = disturbed \cup {z}
                      \/ /\ disturbed' = disturbed \ {z} /\ told \notin {z} \ {0}
                         /\ Quiet /\ ~connected
      <3> WITNESS s \in ({0} \cup Sockets) \ open
      <3> QED BY <2>2, <2>4
    <2> QED BY <2>3, <2>4 DEF ConnectOpen
  <1>3. Clean' => /\ ~connected' /\ \A t \in Threads : handler'[t] = "none"
                  /\ told \notin {sock'} \ {0}
    BY <1>0, <1>2 DEF Clean, Quiet, Out
  <1>4. ASSUME Clean' PROVE Settled'
    <2>1. Raising' /\ Closing' BY <1>3, <1>4 DEF Raising, Closing, Some
    <2>2. Up' /\ Live' /\ Dead' BY <1>2, <1>3, <1>4 DEF Up, Live, Dead
    <2>3. Dialled' BY <1>0, <1>2, <1>3, <1>4 DEF Dialled, Sockets
    <2>4. Closed' BY <1>2 DEF Closed
    <2> QED BY <2>1, <2>2, <2>3, <2>4 DEF Settled
  <1>5. Announced'
    <2>1. Some("lower") => Some("lower")' BY <1>0 DEF Some
    <2> QED BY <1>0, <1>2, <2>1 DEF Session, Announced, Sockets
  <1>6. Leaks' BY <1>0, <1>1, <1>2 DEF Session, Leaks
  <1> QED BY <1>0, <1>2, <1>3, <1>4, <1>5, <1>6 DEF Session, TypeOK
-----------------------------------------------------------------------------
\* A freshly booted transport satisfies the inductive invariant.
LEMMA InitInv == Init => IInv
  <1> SUFFICES ASSUME Init PROVE IInv OBVIOUS
  <1>0. /\ connected = FALSE /\ pump_run = FALSE /\ held = FALSE
        /\ \A t \in Threads : handler[t] = "none"
        /\ handler \in [Threads -> Stages]
    <2>1. connected = FALSE /\ pump_run = FALSE /\ held = FALSE BY Zenon DEF Init
    <2>2. handler = [t \in Threads |-> "none"] BY DEF Init
    <2> QED BY <2>1, <2>2 DEF Stages
  <1>1. TypeOK
    <2>1. connected \in BOOLEAN /\ pump_run \in BOOLEAN /\ held \in BOOLEAN
      BY <1>0, Zenon
    <2>2. /\ connack_sem \in {0, 1} /\ c2d_queue \in 0..MaxC2d
          /\ app \in AppPc /\ pump \in PumpPc /\ worker \in WorkerPc
          /\ mqtt \in {"idle", "tcp", "up"}
      BY BoundsAssumption DEF Init, AppPc, PumpPc, WorkerPc
    <2>3. /\ pump_fd \in {0} \cup Sockets /\ sock \in {0} \cup Sockets
          /\ open \subseteq Sockets /\ told \in {0} \cup Sockets
          /\ lowered \subseteq open /\ disturbed \subseteq {0} \cup Sockets
      BY DEF Init
    <2> QED BY <1>0, <2>1, <2>2, <2>3 DEF TypeOK
  <1>2. Placed /\ Counted BY <1>0 DEF Init, Placed, Counted, Threads
  <1>3. Session
    BY <1>0 DEF Init, Session, Settled, Raising, Closing, Up, Dialled, Closed, Live, Dead,
                Announced, Leaks, Some, Sockets
  <1>4. Calls /\ Pumped
    BY <1>0 DEF Init, Calls, Waiting, Dials, Ended, Polled, Pumped, Some
  <1> QED BY <1>1, <1>2, <1>3, <1>4 DEF IInv

\* The application's steps that touch no session: entering a call, the waits
\* and checks inside it, a call that is refused.
AppIdle ==
    \/ ConnectEnter \/ ConnectUnresolved \/ ConnackMissing \/ ConnackTaken
    \/ DisconnectEnter \/ DisconnectCheck \/ AppPublish
    \/ ConnackInput /\ UNCHANGED sessionVars
    \/ (ConnackFails \/ ConnackAbort) /\ mqtt = "idle"
    \/ (SubscribeFails \/ DisconnectEnd) /\ mqtt # "up"
    \/ AppSend /\ UNCHANGED <<connected, clientVars, handler, histVars>>

LEMMA AppIdleStep == ASSUME IInv, AppIdle PROVE IInv'
  <1> USE DEF IInv
  <1>0. /\ UNCHANGED <<connected, mqtt, sock, open, handler, told, lowered, disturbed>>
        /\ UNCHANGED <<pump, pump_fd, worker, c2d_queue, held>>
    BY DEF AppIdle, ConnectEnter, ConnectUnresolved, ConnackMissing, ConnackTaken,
       DisconnectEnter, DisconnectCheck, AppPublish, ConnackInput, ConnackFails, ConnackAbort,
       Abort, SubscribeFails, DisconnectEnd, AppSend, MqttPublish, sessionVars, clientVars,
       histVars, pumpVars, workVars
  <1>1. Session' BY <1>0, IdleKeepsSession DEF clientVars, histVars
  <1>2. \/ app = "run" /\ Out("app") /\ app' = "dial" /\ ~connected
        \/ app = "dial" /\ app' = "run"
        \/ app = "sem" /\ Out("app") /\ app' = "abort" /\ (connack_sem = 0 \/ ~connected)
        \/ app = "sem" /\ Out("app") /\ app' = "sub" /\ connected
        \/ app = "run" /\ Out("app") /\ app' = "close"
        \/ app = "close" /\ app' = (IF connected THEN "end" ELSE "run")
        \/ app = "run" /\ Out("app") /\ app' = "send"
        \/ app = "await" /\ app' = "sem"
        \/ app \in {"await", "abort"} /\ app' = "run" /\ mqtt = "idle"
        \/ app \in {"sub", "end"} /\ app' = "flag" /\ mqtt # "up"
        \/ app = "send" /\ app' = "run"
    BY DEF AppIdle, ConnectEnter, ConnectUnresolved, ConnackMissing, ConnackTaken,
       DisconnectEnter, DisconnectCheck, AppPublish, ConnackInput, ConnackFails, ConnackAbort,
       SubscribeFails, DisconnectEnd, AppSend
  <1>3. TypeOK'
    <2>1. pump_run' \in BOOLEAN /\ connack_sem' \in {0, 1}
      BY DEF TypeOK, AppIdle, ConnectEnter, ConnectUnresolved, ConnackMissing, ConnackTaken,
         DisconnectEnter, DisconnectCheck, AppPublish, ConnackInput, ConnackFails,
         ConnackAbort, SubscribeFails, DisconnectEnd, AppSend
    <2>2. app' \in AppPc BY <1>2 DEF AppPc
    <2> QED BY <1>0, <2>1, <2>2 DEF TypeOK
  <1>4. Placed' /\ Counted' BY <1>0, <1>2 DEF Placed, Counted, Out
  <1>5. ASSUME Clean' PROVE Waiting' /\ Dials' /\ Ended' /\ Polled'
    <2>1. Settled /\ Waiting /\ Dials /\ Ended /\ Polled
      BY <1>0, <1>5 DEF Session, Calls, Clean
    <2>2. Some("raise") => ~connected /\ mqtt = "up" BY <2>1 DEF Settled, Raising, Some
    <2>3. connected => mqtt = "up" BY <2>1 DEF Settled, Up
    <2>4. Waiting' BY <1>0, <1>2, <2>1, <2>2, <2>3 DEF Waiting, Some
    <2>5. Dials' BY <1>0, <1>2 DEF Dials
    <2>6. Ended' BY <1>0, <1>2, <2>1 DEF Ended, Settled, Closed, Waiting, TypeOK
    <2>7. Polled' BY <1>0, <1>2, <2>1, <2>3 DEF Polled
    <2> QED BY <2>4, <2>5, <2>6, <2>7
  <1>6. Pumped'
    <2>1. app \notin {"sem", "sub", "flag"} => ~(connected /\ pump = "none") BY DEF Pumped
    <2> QED BY <1>0, <1>2, <2>1 DEF Pumped, Out
  <1> QED BY <1>1, <1>3, <1>4, <1>5, <1>6 DEF Calls

\* The application's steps that close the socket.
AppCloses ==
    /\ \/ (ConnackFails \/ ConnackAbort) /\ mqtt # "idle"
       \/ (SubscribeFails \/ DisconnectEnd) /\ mqtt = "up"
       \/ AppSend
    /\ ClientDisconnect("app")

LEMMA AppCloseStep == ASSUME IInv, AppCloses PROVE IInv'
  <1> USE DEF IInv
  <1>0. /\ UNCHANGED <<pump_run, connack_sem, pump, pump_fd, worker, c2d_queue, held>>
    BY DEF AppCloses, ConnackFails, ConnackAbort, SubscribeFails, DisconnectEnd, AppSend,
       MqttPublish, pumpVars, workVars
  <1>1. \/ app \in {"await", "abort"} /\ app' = "run" /\ mqtt # "idle"
        \/ app \in {"sub", "end"} /\ app' = "flag" /\ mqtt = "up"
        \/ app = "send" /\ app' = "run"
    BY DEF AppCloses, ConnackFails, ConnackAbort, SubscribeFails, DisconnectEnd, AppSend
  <1>2. Out("app") /\ "app" \in Threads BY <1>1 DEF Placed, Out, Threads
  <1>3. /\ Session' /\ UNCHANGED <<connected, mqtt, sock, told>> /\ sock \notin open'
        /\ handler' \in [Threads -> Stages]
        /\ handler'["app"] = (IF mqtt = "up" THEN "lower" ELSE "reset")
        /\ \A u \in Threads \ {"app"} : handler'[u] = handler[u]
        /\ open' \subseteq Sockets /\ lowered' \subseteq open'
        /\ disturbed' \subseteq {0} \cup Sockets
        /\ Clean' => Clean /\ ~Some("raise")
    BY <1>2, ClosingKeepsSession DEF AppCloses
  <1>4. TypeOK' BY <1>0, <1>1, <1>3 DEF TypeOK, AppPc
  <1>5. Placed' /\ Counted' BY <1>0, <1>1, <1>3 DEF Placed, Counted, Threads
  <1>6. ASSUME Clean' PROVE Waiting' /\ Dials' /\ Ended' /\ Polled'
    <2>1. Settled /\ Polled BY <1>3, <1>6 DEF Session, Calls
    <2>2. Waiting' BY <1>3, <1>6 DEF Waiting, Some, Threads
    <2>3. Dials' /\ Ended' BY <1>1, <1>3 DEF Dials, Ended
    <2>4. Polled' BY <1>0, <1>1, <1>3, <2>1 DEF Polled, Settled, Up
    <2> QED BY <2>2, <2>3, <2>4
  <1>7. Pumped'
    <2>1. ~(connected /\ pump = "none") \/ app' = "flag" BY <1>1 DEF Pumped
    <2> QED BY <1>0, <1>3, <2>1 DEF Pumped
  <1> QED BY <1>3, <1>4, <1>5, <1>6, <1>7 DEF Calls

\* mqtt_client_init() and mqtt_connect().
LEMMA OpenStep == ASSUME IInv, ConnectOpen PROVE IInv'
  <1> USE DEF IInv
  <1>0. /\ UNCHANGED <<pump_run, connack_sem, pump, pump_fd, worker, c2d_queue>>
        /\ UNCHANGED <<connected, handler, told, lowered>> /\ held' = FALSE
        /\ app = "dial"
        /\ \/ app' = "run" /\ mqtt' = "idle"
           \/ app' = "await" /\ mqtt' = "tcp"
    BY DEF ConnectOpen, pumpVars, workVars
  <1>1. /\ Session'
        /\ sock' \in {0} \cup Sockets /\ open' \subseteq Sockets /\ lowered' \subseteq open'
        /\ disturbed' \subseteq {0} \cup Sockets
        /\ Clean' => ~connected' /\ \A t \in Threads : handler'[t] = "none"
    BY DialKeepsSession DEF Calls
  <1>2. TypeOK'
    <2>1. app' \in AppPc /\ mqtt' \in {"idle", "tcp", "up"} BY <1>0 DEF AppPc
    <2>2. held' \in BOOLEAN BY <1>0, Zenon
    <2> QED BY <1>0, <1>1, <2>1, <2>2 DEF TypeOK
  <1>3. Placed' /\ Counted' BY <1>0 DEF Placed, Counted
  <1>4. Calls' BY <1>0, <1>1 DEF Calls, Waiting, Dials, Ended, Polled, Some
  <1>5. Pumped' BY <1>0 DEF Pumped
  <1> QED BY <1>1, <1>2, <1>3, <1>4, <1>5

\* connect() or a pump reads the CONNACK.
LEMMA ConnackStep ==
    ASSUME IInv, PumpConnack \/ (ConnackInput /\ HandleConnack("app")) PROVE IInv'
  <1> USE DEF IInv
  <1>1. PICK t \in Threads :
           /\ HandleConnack(t)
           /\ \/ t = "app" /\ app = "await" /\ app' = "sem" /\ pump' = pump
              \/ t = "pump" /\ app' = app /\ pump = "input" /\ pump' \in {"live", "exit"}
    BY DEF PumpConnack, ConnackInput, Threads, appVars, pumpVars
  <1>2. UNCHANGED <<pump_run, connack_sem, pump_fd, worker, c2d_queue>>
    BY DEF PumpConnack, ConnackInput, appVars, pumpVars, workVars
  <1>3. Out(t) BY <1>1 DEF Placed, Out
  <1>4. /\ Session' /\ UNCHANGED <<connected, sock, open, held, told, lowered>>
        /\ mqtt = "tcp" /\ mqtt' = "up" /\ sock \in open
        /\ handler' \in [Threads -> Stages] /\ handler'[t] = "raise"
        /\ \A u \in Threads \ {t} : handler'[u] = handler[u]
        /\ disturbed' \subseteq {0} \cup Sockets
        /\ Clean' => Clean /\ ~connected
    BY <1>1, <1>3, ConnackKeepsSession
  <1>5. TypeOK' BY <1>1, <1>2, <1>4 DEF TypeOK, AppPc, PumpPc
  <1>6. Placed' /\ Counted' BY <1>1, <1>2, <1>4 DEF Placed, Counted, Threads
  <1>7. ASSUME Clean' PROVE Waiting' /\ Dials' /\ Ended' /\ Polled'
    <2>1. Waiting /\ ~connected' BY <1>4, <1>7 DEF Calls
    <2>2. app' \in {"await", "sem", "abort"} BY <1>1, <1>4, <2>1 DEF Waiting
    <2> QED BY <2>1, <2>2 DEF Waiting, Dials, Ended, Polled
  <1>8. Pumped'
    <2>1. connected /\ pump = "none" => app \notin {"await"} BY DEF Pumped
    <2> QED BY <1>1, <1>2, <1>4, <2>1 DEF Pumped, Out, Threads
  <1> QED BY <1>4, <1>5, <1>6, <1>7, <1>8 DEF Calls

\* SUBSCRIBE is written and the pump created.
LEMMA SubscribeOkStep == ASSUME IInv, SubscribeOk PROVE IInv'
  <1> USE DEF IInv
  <1>0. /\ app = "sub" /\ app' = "run" /\ pump_run' = TRUE /\ pump' = "start" /\ pump_fd' = 0
        /\ UNCHANGED <<connack_sem, worker, c2d_queue, connected, mqtt, sock, open, held,
                       told, lowered>>
        /\ mqtt = "up"
    BY DEF SubscribeOk, workVars, clientVars
  <1>1. /\ handler' \in [Threads -> Stages] /\ handler'["pump"] = "none"
        /\ \A u \in Threads \ {"pump"} : handler'[u] = handler[u]
    <2>1. "none" \in Stages /\ "pump" \in Threads BY DEF Stages, Threads
    <2> QED BY <2>1, EntersType DEF SubscribeOk
  <1>2. \/ disturbed' = disturbed /\ handler' = handler
        \/ disturbed' = disturbed \cup {sock, told}
    BY DEF SubscribeOk, Enters, Out, TypeOK
  <1>3. Session'
    <2>1. CASE disturbed' = disturbed /\ handler' = handler
      BY <1>0, <2>1, IdleKeepsSession DEF clientVars, histVars
    <2>2. CASE disturbed' = disturbed \cup {sock, told}
      BY <1>0, <2>2 DEF Session, Clean, Announced, Leaks
    <2> QED BY <1>2, <2>1, <2>2
  <1>4. TypeOK'
    <2>1. pump_run' \in BOOLEAN BY <1>0, Zenon
    <2>2. app' \in AppPc /\ pump' \in PumpPc BY <1>0 DEF AppPc, PumpPc
    <2>3. disturbed' \subseteq {0} \cup Sockets BY <1>2 DEF TypeOK
    <2> QED BY <1>0, <1>1, <2>1, <2>2, <2>3 DEF TypeOK
  <1>5. Placed' /\ Counted'
    <2>1. Out("app") BY <1>0 DEF Placed, Out
    <2> QED BY <1>0, <1>1, <2>1 DEF Placed, Counted, Threads, Out
  <1>6. ASSUME Clean' PROVE Waiting' /\ Dials' /\ Ended' /\ Polled'
    <2>1. handler' = handler /\ Clean BY <1>0, <1>2, <1>6 DEF Clean
    <2>2. Waiting BY <2>1 DEF Calls
    <2> QED BY <1>0, <2>1, <2>2 DEF Waiting, Dials, Ended, Polled, Some
  <1>7. Pumped' BY <1>0 DEF Pumped
  <1> QED BY <1>3, <1>4, <1>5, <1>6, <1>7 DEF Calls

\* "connected = false", after mqtt_disconnect().
LEMMA LowerFlagStep == ASSUME IInv, LowerFlag PROVE IInv'
  <1> USE DEF IInv
  <1>0. /\ app = "flag" /\ Out("app") /\ app' = "run" /\ connected' = FALSE
        /\ UNCHANGED <<pump_run, connack_sem, pump, pump_fd, worker, c2d_queue, mqtt, sock,
                       open, held, handler, told, lowered, disturbed>>
    BY DEF LowerFlag, pumpVars, workVars, clientVars, histVars
  <1>1. Session'
    <2>1. Clean => sock \notin open BY <1>0 DEF Calls, Ended
    <2> QED BY <1>0, <2>1, FlagDownKeepsSession DEF clientVars, histVars
  <1>2. TypeOK'
    <2>1. connected' \in BOOLEAN BY <1>0, Zenon
    <2> QED BY <1>0, <2>1 DEF TypeOK, AppPc
  <1>3. Placed' /\ Counted' BY <1>0 DEF Placed, Counted, Out
  <1>4. Calls' BY <1>0 DEF Calls, Clean, Waiting, Dials, Ended, Polled, Some
  <1>5. Pumped' BY <1>0 DEF Pumped
  <1> QED BY <1>1, <1>2, <1>3, <1>4, <1>5
\* The second half of an event, in whatever thread.
LEMMA EventStep == ASSUME IInv, NEW t \in Threads, Event(t) PROVE IInv'
  <1> USE DEF IInv
  <1>0. /\ UNCHANGED <<app, pump_run, pump, pump_fd, worker, c2d_queue, sock, open, held,
                       lowered, disturbed>>
        /\ Enters(t, "none") \/ Enters(t, "reset")
    BY DEF Event, EventRaise, EventLower, ClientReset, appVars, pumpVars, workVars, clientVars,
           histVars
  <1>1. /\ handler' \in [Threads -> Stages] /\ handler'[t] \in {"none", "reset"}
        /\ \A u \in Threads \ {t} : handler'[u] = handler[u]
        /\ handler[t] # "none"
    <2>1. "none" \in Stages /\ "reset" \in Stages BY DEF Stages
    <2> QED BY <1>0, <2>1, EntersType DEF Event, EventRaise, EventLower, ClientReset
  <1>2. Placed' /\ Counted'
    BY <1>0, <1>1 DEF Placed, Counted, Threads
  <1>3. CASE EventRaise(t)
    <2>0. /\ handler[t] = "raise" /\ connected' = TRUE /\ connack_sem' = 1 /\ told' = sock
          /\ UNCHANGED mqtt /\ handler'[t] = "none"
      BY <1>1, <1>3, EntersType DEF EventRaise, clientVars, Stages
    <2>1. Session' BY <1>3, RaiseKeepsSession
    <2>2. TypeOK'
      <3>1. connected' \in BOOLEAN BY <2>0, Zenon
      <3> QED BY <1>0, <1>1, <2>0, <3>1 DEF TypeOK
    <2>3. ASSUME Clean' PROVE Waiting' /\ Dials' /\ Ended' /\ Polled'
      <3>1. app \in {"await", "sem", "abort"}
        BY <1>0, <2>0, <2>3 DEF Calls, Clean, Waiting, Some
      <3> QED BY <1>0, <3>1 DEF Waiting, Dials, Ended, Polled
    <2>4. Pumped'
      <3>1. t = "app" => app = "sem" BY <2>0 DEF Placed
      <3>2. t = "pump" => pump # "none" BY <2>0 DEF Placed
      <3>3. t # "worker" BY <2>0 DEF Placed
      <3> QED BY <1>0, <2>0, <3>1, <3>2, <3>3 DEF Pumped, Out, Threads
    <2> QED BY <1>2, <2>1, <2>2, <2>3, <2>4 DEF Calls
  <1>4. CASE EventLower(t)
    <2>0. /\ connected' = FALSE /\ UNCHANGED <<mqtt, connack_sem>> /\ told' = 0
          /\ handler'[t] = "reset"
      BY <1>1, <1>4, EntersType DEF EventLower, clientVars, appVars, Stages
    <2>1. Session' BY <1>4, LowerKeepsSession
    <2>2. TypeOK'
      <3>1. connected' \in BOOLEAN BY <2>0, Zenon
      <3> QED BY <1>0, <1>1, <2>0, <3>1 DEF TypeOK
    <2>3. ASSUME Clean' PROVE Waiting' /\ Dials' /\ Ended' /\ Polled'
      <3>1. Waiting /\ Ended BY <1>0, <2>3 DEF Calls, Clean
      <3> QED BY <1>0, <1>1, <2>0, <3>1 DEF Waiting, Dials, Ended, Polled, Some
    <2>4. Pumped' BY <2>0 DEF Pumped
    <2> QED BY <1>2, <2>1, <2>2, <2>3, <2>4 DEF Calls
  <1>5. CASE ClientReset(t)
    <2>0. /\ handler[t] = "reset" /\ handler'[t] = "none" /\ mqtt' = "idle"
          /\ UNCHANGED <<connected, connack_sem, told>>
      BY <1>1, <1>5, EntersType DEF ClientReset, appVars, histVars, Stages
    <2>1. Session' BY <1>5, ResetKeepsSession
    <2>2. TypeOK' BY <1>0, <1>1, <2>0 DEF TypeOK
    <2>3. ASSUME Clean' PROVE Waiting' /\ Dials' /\ Ended' /\ Polled'
      <3>1. Waiting /\ Dials /\ Ended BY <1>0, <2>3 DEF Calls, Clean
      <3>2. ~connected BY <1>0, <2>0, <2>3 DEF Session, Clean, Settled, Up, Some
      <3> QED BY <1>0, <1>1, <2>0, <3>1, <3>2 DEF Waiting, Dials, Ended, Polled, Some
    <2>4. Pumped'
      <3>1. handler'["app"] # "none" => handler["app"] # "none"
        BY <1>1, <2>0 DEF Threads
      <3> QED BY <1>0, <2>0, <3>1 DEF Pumped, Out
    <2> QED BY <1>2, <2>1, <2>2, <2>3, <2>4 DEF Calls
  <1> QED BY <1>3, <1>4, <1>5 DEF Event

\* The C2D worker: it takes, publishes and frees, and a write of its may
\* close the socket.
LEMMA WorkerStep ==
    ASSUME IInv, WorkerTake \/ WorkerPublish \/ WorkerSend \/ WorkerReturn PROVE IInv'
  <1> USE DEF IInv
  <1>0. /\ UNCHANGED <<app, pump_run, connack_sem, pump, pump_fd, held, connected, mqtt, sock,
                       told>>
        /\ \/ /\ worker = "idle" /\ worker' = "callback" /\ c2d_queue > 0
              /\ UNCHANGED c2d_queue
           \/ /\ worker = "callback" /\ worker' = "send" /\ Out("worker")
              /\ UNCHANGED c2d_queue
           \/ /\ worker = "send" /\ worker' = "callback" /\ UNCHANGED c2d_queue
           \/ /\ worker = "callback" /\ worker' = "idle" /\ c2d_queue' = c2d_queue - 1
              /\ Out("worker")
    BY DEF WorkerTake, WorkerPublish, WorkerSend, WorkerReturn, MqttPublish, ClientDisconnect,
           appVars, pumpVars, sessionVars, clientVars, histVars
  <1>1. worker' \in WorkerPc /\ c2d_queue' \in 0..MaxC2d /\ Counted'
    BY <1>0, BoundsAssumption DEF TypeOK, Counted, WorkerPc
  <1>2. CASE UNCHANGED <<connected, clientVars, handler, histVars>>
    <2>1. Session' BY <1>2, IdleKeepsSession
    <2>2. UNCHANGED <<open, handler, lowered, disturbed>>
      BY <1>2 DEF clientVars, histVars
    <2>3. TypeOK' BY <1>0, <1>1, <2>2 DEF TypeOK
    <2>4. Placed' BY <1>0, <2>2 DEF Placed, Out
    <2>5. Calls' /\ Pumped'
      BY <1>0, <2>2 DEF Calls, Clean, Waiting, Dials, Ended, Polled, Pumped, Some, Out
    <2> QED BY <1>1, <2>1, <2>3, <2>4, <2>5
  <1>3. CASE WorkerSend /\ ClientDisconnect("worker")
    <2>0. worker = "send" /\ worker' = "callback" BY <1>3 DEF WorkerSend
    <2>1. Out("worker") /\ "worker" \in Threads BY <2>0 DEF Placed, Out, Threads
    <2>2. /\ Session' /\ sock \notin open'
          /\ handler' \in [Threads -> Stages]
          /\ handler'["worker"] = (IF mqtt = "up" THEN "lower" ELSE "reset")
          /\ \A u \in Threads \ {"worker"} : handler'[u] = handler[u]
          /\ open' \subseteq Sockets /\ lowered' \subseteq open'
          /\ disturbed' \subseteq {0} \cup Sockets
          /\ Clean' => Clean /\ ~Some("raise")
      BY <1>3, <2>1, ClosingKeepsSession
    <2>3. TypeOK' BY <1>0, <1>1, <2>2 DEF TypeOK
    <2>4. Placed' BY <1>0, <2>0, <2>2 DEF Placed, Threads
    <2>5. ASSUME Clean' PROVE Waiting' /\ Dials' /\ Ended' /\ Polled'
      <3>1. Dials /\ Polled BY <2>2, <2>5 DEF Calls
      <3>2. Waiting' BY <1>0, <2>2, <2>5 DEF Waiting, Some, Threads
      <3> QED BY <1>0, <2>2, <3>1, <3>2 DEF Dials, Ended, Polled, Threads
    <2>6. Pumped' BY <1>0, <2>2 DEF Pumped, Out, Threads
    <2> QED BY <1>1, <2>2, <2>3, <2>4, <2>5, <2>6 DEF Calls
  <1> QED BY <1>2, <1>3 DEF WorkerTake, WorkerPublish, WorkerSend, WorkerReturn, MqttPublish,
             sessionVars

\* The pump's steps that touch no session.
PumpIdle == PumpStart \/ PumpPoll \/ PumpInput \/ PumpHandlePublish \/ PumpPayload
            \/ PumpInputClosed \/ PumpLive \/ PumpLiveRefused

LEMMA PumpIdleStep == ASSUME IInv, PumpIdle PROVE IInv'
  <1> USE DEF IInv
  <1>0. /\ UNCHANGED <<app, pump_run, connack_sem, worker, connected, mqtt, sock, open, handler,
                       told, lowered, disturbed>>
        /\ held' \in BOOLEAN
        /\ pump \notin {"none", "exit"}
        /\ (pump = "live" => Out("pump"))
        /\ (pump # "start" => UNCHANGED pump_fd) /\ (pump = "start" => pump_fd' = sock)
        /\ pump' \in {"poll", "input", "payload", "live", "exit"}
    BY Zenon DEF PumpIdle, PumpStart, PumpPoll, PumpInput, PumpHandlePublish, PumpPayload, PumpInputClosed,
       PumpLive, PumpLiveRefused, PumpAgain, appVars, workVars, sessionVars, clientVars, histVars, TypeOK
  <1>1. c2d_queue' \in 0..MaxC2d /\ Counted'
    <2>1. \/ c2d_queue' = c2d_queue /\ (pump' = "payload" => c2d_queue < MaxC2d)
          \/ pump = "payload" /\ pump' # "payload" /\ c2d_queue' = c2d_queue + 1
      BY DEF PumpIdle, PumpStart, PumpPoll, PumpInput, PumpHandlePublish, PumpPayload,
             PumpInputClosed, PumpLive, PumpLiveRefused, PumpAgain, workVars
    <2> QED BY <1>0, <2>1, BoundsAssumption DEF TypeOK, Counted
  <1>2. Session' BY <1>0, IdleKeepsSession DEF clientVars, histVars
  <1>3. TypeOK' BY <1>0, <1>1 DEF TypeOK, PumpPc
  <1>4. Placed' BY <1>0 DEF Placed, Out
  <1>5. Calls' BY <1>0 DEF Calls, Clean, Waiting, Dials, Ended, Polled, Some
  <1>6. Pumped' BY <1>0 DEF Pumped
  <1> QED BY <1>1, <1>2, <1>3, <1>4, <1>5, <1>6

\* The pump's steps that close the socket.
LEMMA PumpCloseStep == ASSUME IInv, PumpTransportFails \/ PumpPayloadFails PROVE IInv'
  <1> USE DEF IInv
  <1>0. /\ UNCHANGED <<app, pump_run, connack_sem, pump_fd, worker>>
        /\ held' \in BOOLEAN
        /\ pump \in {"input", "live", "payload"} /\ (pump = "live" => Out("pump"))
        /\ pump' \in {"live", "exit"}
        /\ ClientDisconnect("pump")
    <2>1. held' \in BOOLEAN
      BY Zenon DEF PumpTransportFails, PumpPayloadFails, TypeOK
    <2> QED BY <2>1 DEF PumpTransportFails, PumpPayloadFails, appVars, workVars
  <1>1. c2d_queue' \in 0..MaxC2d /\ Counted'
    <2>1. \/ c2d_queue' = c2d_queue
          \/ pump = "payload" /\ c2d_queue' = c2d_queue + 1
      BY DEF PumpTransportFails, PumpPayloadFails, workVars
    <2> QED BY <1>0, <2>1, BoundsAssumption DEF TypeOK, Counted
  <1>2. Out("pump") /\ "pump" \in Threads BY <1>0 DEF Placed, Out, Threads
  <1>3. /\ Session' /\ UNCHANGED <<connected, mqtt, sock, told>> /\ sock \notin open'
        /\ handler' \in [Threads -> Stages]
        /\ handler'["pump"] = (IF mqtt = "up" THEN "lower" ELSE "reset")
        /\ \A u \in Threads \ {"pump"} : handler'[u] = handler[u]
        /\ open' \subseteq Sockets /\ lowered' \subseteq open'
        /\ disturbed' \subseteq {0} \cup Sockets
        /\ Clean' => Clean /\ ~Some("raise")
    BY <1>0, <1>2, ClosingKeepsSession
  <1>4. TypeOK' BY <1>0, <1>1, <1>3 DEF TypeOK, PumpPc
  <1>5. Placed' BY <1>0, <1>3 DEF Placed, Threads
  <1>6. ASSUME Clean' PROVE Waiting' /\ Dials' /\ Ended' /\ Polled'
    <2>1. Dials /\ Polled BY <1>3, <1>6 DEF Calls
    <2>2. Waiting' BY <1>3, <1>6 DEF Waiting, Some, Threads
    <2> QED BY <1>0, <1>3, <2>1, <2>2 DEF Dials, Ended, Polled, Threads
  <1>7. Pumped' BY <1>0 DEF Pumped
  <1> QED BY <1>1, <1>3, <1>4, <1>5, <1>6, <1>7 DEF Calls

\* The pump's exit.
LEMMA PumpExitStep == ASSUME IInv, PumpExit PROVE IInv'
  <1> USE DEF IInv
  <1>0. /\ pump = "exit" /\ Out("pump") /\ pump' = "none" /\ pump_fd' = 0 /\ connected' = FALSE
        /\ UNCHANGED <<app, pump_run, connack_sem, worker, c2d_queue, mqtt, sock, open, held,
                       handler, told, disturbed>>
    BY DEF PumpExit, appVars, workVars, clientVars
  <1>1. Session' /\ lowered' \subseteq open' BY ExitKeepsSession
  <1>2. TypeOK'
    <2>1. connected' \in BOOLEAN BY <1>0, Zenon
    <2> QED BY <1>0, <1>1, <2>1 DEF TypeOK, PumpPc
  <1>3. Placed' /\ Counted' BY <1>0 DEF Placed, Counted, Out
  <1>4. Calls' BY <1>0 DEF Calls, Clean, Waiting, Dials, Ended, Polled, Some
  <1>5. Pumped' BY <1>0 DEF Pumped
  <1> QED BY <1>1, <1>2, <1>3, <1>4, <1>5

\* A step that leaves the variables alone keeps the invariant.
LEMMA StutterStep == ASSUME IInv, UNCHANGED vars PROVE IInv'
  <1>1. Session' BY IdleKeepsSession DEF IInv, vars, sessionVars
  <1> QED BY <1>1 DEF IInv, TypeOK, Placed, Counted, Calls, Clean, Waiting, Dials, Ended, Polled,
            Pumped, Some, Out, vars, appVars, pumpVars, workVars, sessionVars, clientVars, histVars

\* Every step of every thread keeps the inductive invariant.
LEMMA NextInv == IInv /\ [Next]_vars => IInv'
  <1> SUFFICES ASSUME IInv, [Next]_vars PROVE IInv' OBVIOUS
  <1>0. "app" \in Threads /\ "pump" \in Threads /\ "worker" \in Threads BY DEF Threads
  <1>1. CASE Event("app") \/ Event("pump") \/ Event("worker") BY <1>0, <1>1, EventStep
  <1>2. CASE Connect
    <2>1. AppIdle \/ AppCloses \/ ConnectOpen \/ SubscribeOk
          \/ PumpConnack \/ (ConnackInput /\ HandleConnack("app"))
      BY <1>2 DEF Connect, ConnackFails, ConnackAbort, Abort, ConnackInput, SubscribeFails,
                  AppIdle, AppCloses
    <2> QED BY <2>1, AppIdleStep, AppCloseStep, OpenStep, SubscribeOkStep, ConnackStep
  <1>3. CASE Disconnect \/ Publish
    <2>1. AppIdle \/ AppCloses
      BY <1>3 DEF Disconnect, Publish, DisconnectEnd, AppSend, MqttPublish, AppIdle, AppCloses
    <2> QED BY <2>1, AppIdleStep, AppCloseStep
  <1>4. CASE LowerFlag BY <1>4, LowerFlagStep
  <1>5. CASE Worker BY <1>1, <1>5, WorkerStep DEF Worker
  <1>6. CASE Pump \/ Payload
    <2>1. \/ PumpIdle \/ PumpTransportFails \/ PumpPayloadFails \/ PumpExit \/ PumpConnack
          \/ Event("pump")
      BY <1>6, Zenon DEF Pump, Payload, PumpIdle
    <2>2. CASE PumpIdle BY <2>2, PumpIdleStep
    <2>3. CASE PumpTransportFails \/ PumpPayloadFails BY <2>3, PumpCloseStep
    <2>4. CASE PumpExit BY <2>4, PumpExitStep
    <2>5. CASE PumpConnack BY <2>5, ConnackStep
    <2> QED BY <1>1, <2>1, <2>2, <2>3, <2>4, <2>5
  <1>7. CASE UNCHANGED vars BY <1>7, StutterStep
  <1> QED BY <1>1, <1>2, <1>3, <1>4, <1>5, <1>6, <1>7 DEF Next, App

\* The inductive invariant holds throughout: the socket, the flag, the client's
\* state, the pump, the events and the application's place in a call agree.
THEOREM Invariance == Spec => []IInv
  BY InitInv, NextInv, PTL DEF Spec
-----------------------------------------------------------------------------
\* What the state of iotc_mqtt_client.c ranges over, in every behaviour.
THEOREM TypeCorrect == Spec => []TypeOK
  <1>1. IInv => TypeOK BY DEF IInv
  <1> QED BY <1>1, Invariance, PTL

\* The flag publish() trusts is up over an established session on an open
\* socket, or until the event of whoever closed it lowers it.
THEOREM FlagIsHonest == Spec => []ConnectedMeansUp
  <1>1. IInv => ConnectedMeansUp
    BY DEF IInv, Session, Clean, Settled, Up, Some, ConnectedMeansUp
  <1> QED BY <1>1, Invariance, PTL

\* Outside connect() and disconnect() a raised flag has a pump behind it, and
\* on its socket.
THEOREM FlagIsServed == Spec => []ConnectedIsServed
  <1>1. IInv => ConnectedIsServed
    BY DEF IInv, Calls, Clean, Polled, Pumped, Out, ConnectedIsServed
  <1> QED BY <1>1, Invariance, PTL

\* With no event under way the status callback's account is the sockets'.
THEOREM StatusIsHonest == Spec => []StatusMirrorsSockets
  <1>1. ASSUME IInv PROVE StatusMirrorsSockets
    <2>1. ASSUME Quiet PROVE ~Some("raise") /\ ~Some("lower") /\ ~Some("reset")
      BY <2>1 DEF Quiet, Out, Some
    <2> QED BY <1>1, <2>1 DEF IInv, Session, Clean, Settled, Live, Dead, Announced,
              StatusMirrorsSockets
  <1> QED BY <1>1, Invariance, PTL

\* Only the pump's exit, or two threads' events in one session, can make a
\* later mqtt_client_init() lose a socket.
THEOREM LeaksComeFromPumpExit == Spec => []OnlyPumpExitLeaks
  <1>1. ASSUME IInv PROVE OnlyPumpExitLeaks
    <2>1. ASSUME Quiet PROVE ~Some("raise") BY <2>1 DEF Quiet, Out, Some
    <2> QED BY <1>1, <2>1 DEF IInv, Session, Clean, Settled, Live, Leaks, OnlyPumpExitLeaks
  <1> QED BY <1>1, Invariance, PTL
-----------------------------------------------------------------------------
\* disconnect() returns over a lowered flag, and over no open socket but the
\* ones the pump's exit or two threads had abandoned.
THEOREM DisconnectLeavesNothing == Spec => DisconnectEnds
  <1>1. ASSUME IInv, [Next]_vars, app = "close" \/ app = "flag", app' = "run"
        PROVE  ~connected' /\ open' \subseteq lowered \cup disturbed
    <2>0. open \ {sock} \subseteq lowered \cup disturbed BY <1>1 DEF IInv, Session, Leaks
    <2>1. CASE DisconnectCheck
      <3>1. app = "close" /\ ~connected /\ ~connected' /\ open' = open
        BY <1>1, <2>1 DEF DisconnectCheck, sessionVars, clientVars
      <3>2. ASSUME Clean, sock \in open PROVE sock \in lowered
        <4>1. Settled /\ Waiting BY <1>1, <3>2 DEF IInv, Session, Calls
        <4>2. mqtt = "up" /\ ~Some("raise")
          BY <1>1, <3>1, <3>2, <4>1 DEF Settled, Closed, Waiting, IInv, TypeOK
        <4> QED BY <3>1, <3>2, <4>1, <4>2 DEF Settled, Live
      <3> QED BY <2>0, <3>1, <3>2 DEF Clean
    <2>2. CASE LowerFlag
      <3>1. app = "flag" /\ ~connected' /\ open' = open
        BY <2>2 DEF LowerFlag, clientVars
      <3>2. sock \in open => sock \in disturbed
        BY <1>1, <3>1 DEF IInv, Calls, Ended, Clean
      <3> QED BY <2>0, <3>1, <3>2
    <2>3. CASE ~DisconnectCheck /\ ~LowerFlag
      <3>1. ~Connect
        BY <1>1 DEF Connect, ConnectEnter, ConnectUnresolved, ConnectOpen, ConnackFails,
           ConnackInput, ConnackMissing, ConnackAbort, ConnackTaken, SubscribeFails, SubscribeOk
      <3>2. ~(DisconnectEnter \/ DisconnectEnd \/ Publish)
        BY <1>1 DEF DisconnectEnter, DisconnectEnd, Publish, AppPublish, AppSend
      <3>3. \A t \in Threads : ~Event(t)
        BY <1>1 DEF Event, EventRaise, EventLower, ClientReset, appVars
      <3>4. ~Event("app") /\ ~Event("pump") /\ ~Event("worker") BY <3>3 DEF Threads
      <3>5. ~Worker
        BY <1>1, <3>4 DEF Worker, WorkerTake, WorkerPublish, WorkerSend, WorkerReturn, appVars
      <3>6. ~(Pump \/ Payload)
        BY <1>1, <3>4 DEF Pump, Payload, PumpStart, PumpPoll, PumpInput, PumpHandlePublish,
           PumpPayload, PumpPayloadFails, PumpConnack, PumpTransportFails, PumpInputClosed,
           PumpLive, PumpLiveRefused, PumpExit, appVars
      <3>7. app' = app
        BY <1>1, <2>3, <3>1, <3>2, <3>4, <3>5, <3>6 DEF Next, App, Disconnect, vars, appVars
      <3> QED BY <1>1, <3>7
    <2> QED BY <2>1, <2>2, <2>3
  <1>2. IInv /\ [Next]_vars => [(app = "close" \/ app = "flag") /\ app' = "run" =>
                                  ~connected' /\ open' \subseteq lowered \cup disturbed]_vars
    BY <1>1
  <1> QED BY <1>2, Invariance, PTL DEF Spec, DisconnectEnds
-----------------------------------------------------------------------------
(***************************************************************************)
(* The refinement: every step of a thread is a step of SessionContract or  *)
(* changes nothing the contract sees.                                      *)
(***************************************************************************)
Accepted == {t \in Threads : handler[t] = "raise"}

\* Entering a later half of an event, or leaving it, reports no acceptance.
LEMMA EntersAccepted ==
    ASSUME TypeOK, NEW t \in Threads, NEW stage \in Stages, Enters(t, stage)
    PROVE  Accepted' = IF stage = "raise" THEN Accepted \cup {t} ELSE Accepted \ {t}
  BY EntersType DEF Accepted

\* client_disconnect() leaves the flag to its event: the contract sees nothing.
LEMMA ClosingKeepsContract ==
    ASSUME TypeOK, NEW t \in Threads, Out(t), ClientDisconnect(t)
    PROVE  UNCHANGED Contract!cvars
  <1>1. Accepted' = Accepted
    <2>1. (IF mqtt = "up" THEN "lower" ELSE "reset") \in Stages \ {"raise"} BY DEF Stages
    <2> QED BY <2>1, EntersAccepted DEF ClientDisconnect, Accepted, Out
  <1> QED BY <1>1 DEF ClientDisconnect, Contract!cvars, Accepted

\* Reading the accepting CONNACK is the contract's Accept.
LEMMA ConnackKeepsContract ==
    ASSUME TypeOK, NEW t \in Threads, HandleConnack(t)
    PROVE  Contract!CNext
  <1>1. Accepted' = Accepted \cup {t}
    <2>1. "raise" \in Stages BY DEF Stages
    <2> QED BY <2>1, EntersAccepted DEF HandleConnack
  <1>2. Contract!Accept BY <1>1 DEF HandleConnack, Contract!Accept, Accepted
  <1> QED BY <1>2 DEF Contract!CNext

\* The events: Report, Lower, and a client that is idle again.
LEMMA EventKeepsContract ==
    ASSUME TypeOK, NEW t \in Threads, Event(t)
    PROVE  Contract!CNext
  <1>0. "none" \in Stages /\ "reset" \in Stages BY DEF Stages
  <1>1. CASE EventRaise(t)
    <2>1. Accepted' = Accepted \ {t} /\ t \in Accepted /\ connected' = TRUE /\ UNCHANGED mqtt
      BY <1>0, <1>1, EntersAccepted DEF EventRaise, clientVars, Accepted
    <2>2. Contract!Report BY <2>1 DEF Contract!Report, Accepted
    <2> QED BY <2>2 DEF Contract!CNext
  <1>2. CASE EventLower(t)
    <2>1. Accepted' = Accepted /\ connected' = FALSE /\ UNCHANGED mqtt
      BY <1>0, <1>2, EntersAccepted DEF EventLower, clientVars, Accepted
    <2>2. Contract!Lower BY <2>1 DEF Contract!Lower, Accepted
    <2> QED BY <2>2 DEF Contract!CNext
  <1>3. CASE ClientReset(t)
    <2>1. Accepted' = Accepted /\ mqtt' = "idle" /\ UNCHANGED connected
      BY <1>0, <1>3, EntersAccepted DEF ClientReset, Accepted
    <2>2. Contract!GiveUp BY <2>1 DEF Contract!GiveUp, Accepted
    <2> QED BY <2>2 DEF Contract!CNext
  <1> QED BY <1>1, <1>2, <1>3 DEF Event

\* A step that touches neither the flag, the client's state nor an event.
LEMMA IdleKeepsContract ==
    ASSUME UNCHANGED <<connected, mqtt, handler>>
    PROVE  UNCHANGED Contract!cvars
  BY DEF Contract!cvars

\* Lowering the flag alone is the contract's Lower.
LEMMA LoweringKeepsContract ==
    ASSUME connected' = FALSE, UNCHANGED <<mqtt, handler>>
    PROVE  Contract!CNext
  <1>1. Contract!Lower BY DEF Contract!Lower
  <1> QED BY <1>1 DEF Contract!CNext

\* The pump's creation forgets what the thread before it had to report.
LEMMA CreationKeepsContract ==
    ASSUME TypeOK, SubscribeOk
    PROVE  [Contract!CNext]_(Contract!cvars)
  <1>1. Accepted' = Accepted \ {"pump"} /\ UNCHANGED <<connected, mqtt>>
    <2>1. "none" \in Stages /\ "pump" \in Threads BY DEF Stages, Threads
    <2> QED BY <2>1, EntersAccepted DEF SubscribeOk, clientVars
  <1>2. CASE "pump" \in Accepted
    <2>1. Contract!Forget BY <1>1, <1>2 DEF Contract!Forget, Accepted
    <2> QED BY <2>1 DEF Contract!CNext
  <1>3. CASE "pump" \notin Accepted BY <1>1, <1>3 DEF Contract!cvars, Accepted
  <1> QED BY <1>2, <1>3

\* Every step of the threads is a step of the contract or a stutter.
LEMMA StepKeepsContract == IInv /\ [Next]_vars => [Contract!CNext]_(Contract!cvars)
  <1> SUFFICES ASSUME IInv, [Next]_vars PROVE [Contract!CNext]_(Contract!cvars)
    OBVIOUS
  <1> USE DEF IInv
  <1>0. "app" \in Threads /\ "pump" \in Threads /\ "worker" \in Threads BY DEF Threads
  <1>1. CASE Event("app") \/ Event("pump") \/ Event("worker")
    BY <1>0, <1>1, EventKeepsContract
  <1>2. CASE AppIdle \/ WorkerTake \/ WorkerPublish \/ WorkerReturn \/ PumpIdle
    <2>1. UNCHANGED <<connected, mqtt, handler>>
      BY <1>2 DEF AppIdle, ConnectEnter, ConnectUnresolved, ConnackMissing, ConnackTaken,
         DisconnectEnter, DisconnectCheck, AppPublish, ConnackInput, ConnackFails, ConnackAbort,
         Abort, SubscribeFails, DisconnectEnd, AppSend, WorkerTake, WorkerPublish, WorkerReturn,
         PumpIdle, PumpStart, PumpPoll, PumpInput, PumpHandlePublish, PumpPayload,
         PumpInputClosed, PumpLive, PumpLiveRefused, sessionVars, clientVars
    <2> QED BY <2>1, IdleKeepsContract
  <1>3. CASE AppCloses \/ (WorkerSend /\ ClientDisconnect("worker"))
             \/ PumpTransportFails \/ PumpPayloadFails
    <2>1. PICK t \in Threads : Out(t) /\ ClientDisconnect(t)
      <3>1. CASE AppCloses
        <4>1. Out("app")
          BY <3>1 DEF AppCloses, ConnackFails, ConnackAbort, SubscribeFails, DisconnectEnd,
             AppSend, Placed, Out
        <4> QED BY <1>0, <3>1, <4>1 DEF AppCloses
      <3>2. CASE WorkerSend /\ ClientDisconnect("worker")
        <4>1. Out("worker") BY <3>2 DEF WorkerSend, Placed, Out
        <4> QED BY <1>0, <3>2, <4>1
      <3>3. CASE PumpTransportFails \/ PumpPayloadFails
        <4>1. Out("pump") BY <3>3 DEF PumpTransportFails, PumpPayloadFails, Placed, Out
        <4> QED BY <1>0, <3>3, <4>1 DEF PumpTransportFails, PumpPayloadFails
      <3> QED BY <1>3, <3>1, <3>2, <3>3
    <2> QED BY <2>1, ClosingKeepsContract
  <1>4. CASE WorkerSend /\ UNCHANGED <<connected, clientVars, handler, histVars>>
    BY <1>4, IdleKeepsContract DEF clientVars
  <1>5. CASE ConnectOpen
    <2>1. UNCHANGED <<connected, handler>> /\ (mqtt' = "tcp") \in BOOLEAN
      BY <1>5 DEF ConnectOpen
    <2>2. Contract!Dial BY <2>1 DEF Contract!Dial
    <2> QED BY <2>2 DEF Contract!CNext
  <1>6. CASE (ConnackInput /\ HandleConnack("app")) \/ PumpConnack
    BY <1>0, <1>6, ConnackKeepsContract DEF PumpConnack
  <1>7. CASE SubscribeOk BY <1>7, CreationKeepsContract
  <1>8. CASE LowerFlag \/ PumpExit
    <2>1. connected' = FALSE /\ UNCHANGED <<mqtt, handler>>
      BY <1>8 DEF LowerFlag, PumpExit, clientVars
    <2> QED BY <2>1, LoweringKeepsContract
  <1>9. CASE UNCHANGED vars
    BY <1>9, IdleKeepsContract DEF vars, sessionVars, clientVars
  <1>10. CASE App
    <2>1. \/ AppIdle \/ AppCloses \/ ConnectOpen \/ SubscribeOk \/ LowerFlag \/ Event("app")
          \/ (ConnackInput /\ HandleConnack("app"))
      BY <1>10 DEF App, Connect, Disconnect, Publish, ConnackFails, ConnackAbort, Abort,
         ConnackInput, SubscribeFails, DisconnectEnd, AppSend, MqttPublish, AppIdle, AppCloses
    <2> QED BY <1>1, <1>2, <1>3, <1>5, <1>6, <1>7, <1>8, <2>1
  <1>11. CASE Worker
    <2>1. \/ WorkerTake \/ WorkerPublish \/ WorkerReturn \/ Event("worker")
          \/ WorkerSend /\ ClientDisconnect("worker")
          \/ WorkerSend /\ UNCHANGED <<connected, clientVars, handler, histVars>>
      BY <1>11 DEF Worker, WorkerSend, MqttPublish
    <2> QED BY <1>1, <1>2, <1>3, <1>4, <2>1
  <1>12. CASE Pump \/ Payload
    <2>1. \/ PumpIdle \/ PumpTransportFails \/ PumpPayloadFails \/ PumpExit \/ PumpConnack
          \/ Event("pump")
      BY <1>12, Zenon DEF Pump, Payload, PumpIdle
    <2> QED BY <1>1, <1>2, <1>3, <1>6, <1>8, <2>1
  <1> QED BY <1>9, <1>10, <1>11, <1>12 DEF Next

\* The transport seam keeps its contract: the threads of iotc_mqtt_client.c
\* implement SessionContract.
THEOREM Refinement == Spec => KeepsContract
  <1>1. Init => Contract!CInit
    BY Zenon DEF Init, Contract!CInit
  <1> QED BY <1>1, StepKeepsContract, Invariance, PTL DEF Spec, Contract!CSpec, KeepsContract
=============================================================================
