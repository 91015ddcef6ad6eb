-------------------------------- MODULE SoftAp ---------------------------------
(***************************************************************************)
(* The soft-AP provisioning sample, samples/softap-provisioning/src: the   *)
(* boot decision of main.c, the setup portal of portal.c, the auto-connect *)
(* thread of lib/zephyr-layer/iotc_wifi_autoconnect.c, and the shell that  *)
(* "still works too" (portal.c:535), over the Wi-Fi store of WifiStore and *)
(* the per-field identity store (SaveField of IdentityStore).              *)
(*                                                                         *)
(* The HTTP server runs every handler on its one thread, "http"; the shell *)
(* is the other thread that writes what the next boot reads.  A body comes *)
(* in two pieces, between which other requests are served.                 *)
(***************************************************************************)
EXTENDS WifiStore, Integers

CONSTANTS
    Configs,     \* bound: the fields of the configurations, 0 for one not there
    MaxOps,      \* bound: requests and shell commands in one behaviour
    MaxResets    \* bound: boots of one behaviour but the first

\* Blank is an empty value that was saved.
Names == {"duid", "cpid", "env"}
Fields == Names \cup {"cert", "key"}
Blank == -1

\* Each of cpid, env and uid may be there, empty or not; with none the
\* configuration is rejected.
ASSUME SoftApAssumption ==
    /\ Configs \subseteq [Names -> {0, 1, Blank}]
    /\ \A c \in Configs : \E f \in Names : c[f] # 0
    /\ Callers = {"http", "shell"} /\ MaxOps \in Nat /\ MaxResets \in Nat
    /\ Networks \cap {"none", "junk", "half"} = {}
    /\ \E s \in SUBSET Networks : Full(s)

VARIABLES
    main,        \* where main() stands
    text,        \* what the string in each resource's body buffer parses to
    len,         \* body_buf.len of each resource, 1 for any length but 0
    sending,     \* the body each resource's client is in the middle of
    due,         \* what each thread has still to save of each field, 0 for nothing
    stored,      \* identity in flash, 0 for none; cert and key by generation
    auto,        \* where the auto-connect thread stands
    up,          \* net_if_oper_state() of the station
    l4,          \* l4_connected_sem
    (* history *)
    alone,       \* the thread's provisioning runs unmixed and its cert is saved
    torn,        \* cert and key were cut, failed or mixed since the last whole pair
    unsaved,     \* a save failed, which the handlers ignore
    answered,    \* parts of the setup the portal took, with a 200
    misread,     \* a request with a body was handled by another one's
    gens, ops, resets

portalVars == <<text, len, sending, misread>>
saveVars   == <<due, stored, alone, torn, unsaved, gens>>
netVars    == <<main, auto, up, l4>>
vars == <<storeVars, netVars, portalVars, saveVars, answered, ops, resets>>

Resources == {"wifi", "provision", "config"}

\* Bodies a client sends: Junk is rejected, for what it says or its length.
\* Half is the first piece of one, and what is left when the rest never comes.
None == "none"  Junk == "junk"  Half == "half"
Good == [wifi |-> Networks, provision |-> {"name"}, config |-> {"json"}]
Bodies(r) == Good[r] \cup {Junk}

Complete == \A f \in Fields : stored[f] > 0

\* What a setup takes: /api/wifi, /api/provision, and the two fields that only
\* /api/config brings.
Setup == {"wifi", "provision", "cpid", "env"}

Provisioning(t) == due[t]["key"] # 0
HalfPair(t)     == Provisioning(t) /\ due[t]["cert"] = 0

\* The thread is in the middle of a handler or a command.
Busy(t) == at[t] # "idle" \/ \E f \in Fields : due[t][f] # 0

Op == ops < MaxOps /\ ops' = ops + 1
-----------------------------------------------------------------------------
(***************************************************************************)
(* Saves: one entry of the settings a call, every result ignored.          *)
(***************************************************************************)
StartSaves(t, d) ==
    /\ due' = [due EXCEPT ![t] = d]
    /\ UNCHANGED <<stored, torn, unsaved>>

\* What the JSON has is saved, whatever it is; one field is enough.
ApplyConfig(t, c) ==
    /\ StartSaves(t, [f \in Fields |-> IF f \in Names THEN c[f] ELSE 0])
    /\ UNCHANGED <<alone, gens>>

\* iotc_provision_selfsigned() made a pair, which is saved after the names.
Provision(t, cpid, env) ==
    LET others == {u \in Callers \ {t} : Provisioning(u)}
    IN /\ gens' = gens + 1
       /\ alone' = [u \in Callers |-> IF u = t THEN others = {}
                                      ELSE alone[u] /\ u \notin others]
       /\ StartSaves(t, [duid |-> 1, cpid |-> cpid, env |-> env,
                         cert |-> gens + 1, key |-> gens + 1])

\* Mutant: a failed key generation does not return: the certificate there
\* was is saved with the new key.
KeygenFailsGoesOn(t) ==
    /\ gens' = gens + 1
    /\ alone' = [alone EXCEPT ![t] = TRUE]
    /\ StartSaves(t, [duid |-> 1, cpid |-> 0, env |-> 0,
                      cert |-> stored["cert"], key |-> gens + 1])

KeygenFails(t) == UNCHANGED saveVars

\* The order of the calls in provision_handler() and cmd_provision(), and in
\* iotc_identity_apply_config_json().
Place(t) == IF Provisioning(t) THEN [duid |-> 1, cpid |-> 2, env |-> 3, cert |-> 4, key |-> 5]
                               ELSE [cpid |-> 1, env |-> 2, duid |-> 3, cert |-> 4, key |-> 5]

\* The portal answers 200 whatever came of the saves.
Answered(t, f) ==
    answered' = IF t = "http" /\ f = "key" THEN answered \cup {"provision"}
                ELSE IF t = "http" /\ f \in {"cpid", "env"} /\ due[t][f] # Blank
                     THEN answered \cup {f} ELSE answered

SaveNext(t, f) ==
    /\ due[t][f] # 0
    /\ \A e \in Fields : due[t][e] # 0 => Place(t)[f] <= Place(t)[e]
    /\ due' = [due EXCEPT ![t] = [@ EXCEPT ![f] = 0]]
    /\ \/ /\ stored' = [stored EXCEPT ![f] = due[t][f]]
          /\ torn' = IF f = "key" THEN ~alone[t] ELSE torn
          /\ UNCHANGED <<alone, unsaved>>
       \/ /\ unsaved' = TRUE
          /\ torn' = (torn \/ f = "key")
          /\ alone' = [alone EXCEPT ![t] = alone[t] /\ f # "cert"]
          /\ UNCHANGED stored
    /\ Answered(t, f)
    /\ UNCHANGED <<storeVars, netVars, portalVars, gens, ops, resets>>
-----------------------------------------------------------------------------
(***************************************************************************)
(* The portal.  The server calls body_accumulate() with each piece; one    *)
(* client holds a resource from its first piece to its last, or its abort. *)
(***************************************************************************)
Serving == main = "portal" /\ ~Busy("http")

\* A piece goes behind what the buffer holds.  cJSON parses the first value
\* in the string and ignores what follows.
PostFirst(r, c) ==
    /\ Serving /\ sending[r] = None
    /\ Op
    /\ text' = [text EXCEPT ![r] = IF len[r] = 0 THEN Half
                                   ELSE IF @ = Half THEN Junk ELSE @]
    /\ len' = [len EXCEPT ![r] = 1]
    /\ sending' = [sending EXCEPT ![r] = c]
    /\ UNCHANGED <<storeVars, netVars, misread, saveVars, answered, resets>>

\* Mutant: an aborted request leaves its length behind.
PostAbortKeeps(r) ==
    /\ Serving /\ sending[r] # None
    /\ sending' = [sending EXCEPT ![r] = None]
    /\ UNCHANGED <<storeVars, netVars, text, len, misread, saveVars, answered, ops, resets>>

\* HTTP_SERVER_TRANSACTION_ABORTED: the length goes to 0, the string stays.
PostAbort(r) ==
    /\ Serving /\ sending[r] # None
    /\ sending' = [sending EXCEPT ![r] = None]
    /\ len' = [len EXCEPT ![r] = 0]
    /\ UNCHANGED <<storeVars, netVars, text, misread, saveVars, answered, ops, resets>>

\* The handler of r parsed c: 400 without effect, or what the step does.
Handle(r, c) ==
    \/ c \notin Good[r] /\ UNCHANGED <<storeVars, saveVars>>
    \/ c \in Good[r] /\ r = "wifi" /\ StoreCall("http", c) /\ UNCHANGED saveVars
    \/ /\ c \in Good[r] /\ r = "provision"
       /\ Provision("http", 0, 0) \/ KeygenFails("http")
       /\ UNCHANGED storeVars
    \/ /\ c \in Good[r] /\ r = "config"
       /\ \E j \in Configs : ApplyConfig("http", j)
       /\ UNCHANGED storeVars

\* HTTP_SERVER_REQUEST_DATA_FINAL after the first piece.
PostLast(r) ==
    /\ Serving /\ sending[r] # None
    /\ text' = [text EXCEPT ![r] = IF @ = Half THEN sending[r] ELSE @]
    /\ len' = [len EXCEPT ![r] = 0]
    /\ sending' = [sending EXCEPT ![r] = None]
    /\ misread' = (misread \/ text'[r] # sending[r])
    /\ Handle(r, text'[r])
    /\ UNCHANGED <<netVars, answered, ops, resets>>

\* A request without a body: the string of the one before it is parsed.
PostEmpty(r) ==
    /\ Serving /\ sending[r] = None
    /\ Op
    /\ Handle(r, text[r])
    /\ UNCHANGED <<netVars, portalVars, answered, resets>>

\* Mutant: the answer does not depend on what the store said.
HttpStoredUnchecked ==
    /\ StoreReturn("http")
    /\ answered' = answered \cup {"wifi"}
    /\ UNCHANGED <<netVars, portalVars, saveVars, ops, resets>>

\* wifi_handler() answers 200 or 500.
HttpStored ==
    /\ StoreReturn("http")
    /\ answered' = IF at["http"] = "ok" THEN answered \cup {"wifi"} ELSE answered
    /\ UNCHANGED <<netVars, portalVars, saveVars, ops, resets>>

HttpStore ==
    /\ StoreStep("http")
    /\ UNCHANGED <<netVars, portalVars, saveVars, answered, ops, resets>>

Portal == HttpStore \/ HttpStored \/ (\E f \in Fields : SaveNext("http", f))
          \/ \E r \in Resources :
                (\E c \in Bodies(r) : PostFirst(r, c)) \/ PostAbort(r) \/ PostLast(r) \/ PostEmpty(r)
-----------------------------------------------------------------------------
(***************************************************************************)
(* The shell: iotc wifi, iotc config, iotcprov provision.                  *)
(***************************************************************************)
CmdWifi(n) ==
    /\ ~Busy("shell") /\ Op
    /\ StoreCall("shell", n)
    /\ UNCHANGED <<netVars, portalVars, saveVars, answered, resets>>

CmdConfig(c) ==
    /\ ~Busy("shell") /\ Op
    /\ ApplyConfig("shell", c)
    /\ UNCHANGED <<storeVars, netVars, portalVars, answered, resets>>

\* Without <cpid> [env] the build's are saved: its cpid may be empty, its env
\* becomes "poc" then.
CmdProvision(cpid) ==
    /\ ~Busy("shell") /\ Op
    /\ Provision("shell", cpid, 1) \/ KeygenFails("shell")
    /\ UNCHANGED <<storeVars, netVars, portalVars, answered, resets>>

ShellStore ==
    /\ StoreStep("shell") \/ StoreReturn("shell")
    /\ UNCHANGED <<netVars, portalVars, saveVars, answered, ops, resets>>

Shell == (\E n \in Networks : CmdWifi(n)) \/ (\E c \in Configs : CmdConfig(c))
         \/ CmdProvision(Blank) \/ CmdProvision(1) \/ ShellStore
         \/ \E f \in Fields : SaveNext("shell", f)
-----------------------------------------------------------------------------
(***************************************************************************)
(* main(): the portal unless everything is stored and can be joined.       *)
(***************************************************************************)
Others == <<storeVars, portalVars, saveVars, answered, ops, resets>>

\* portal_run() parks in the portal, or returns when it cannot be brought up.
\* network_up() has the state of the network sent again, or fails before.
Boot ==
    /\ main = "boot"
    /\ \/ Complete /\ known # {} /\ main' = "join" /\ l4' = up
       \/ Complete /\ known # {} /\ main' = "stopped" /\ UNCHANGED l4
       \/ ~(Complete /\ known # {}) /\ main' \in {"portal", "stopped"} /\ UNCHANGED l4
    /\ UNCHANGED <<Others, auto, up>>

\* The semaphore was given: SNTP and the SDK come up, or main() returns.
JoinOk ==
    /\ main = "join" /\ l4
    /\ main' \in {"run", "stopped"}
    /\ l4' = FALSE
    /\ UNCHANGED <<Others, auto, up>>

\* CONFIG_SOFTAP_PROV_WIFI_FALLBACK_TIMEOUT.
JoinTimeout ==
    /\ main = "join" /\ ~l4
    /\ main' \in {"portal", "stopped"}
    /\ UNCHANGED <<Others, auto, up, l4>>

Main == Boot \/ JoinOk \/ JoinTimeout
-----------------------------------------------------------------------------
(***************************************************************************)
(* The auto-connect thread and the radio.                                  *)
(***************************************************************************)

\* Mutant: the request is made while main() waits for the network only.
AutoConnectJoining ==
    /\ auto = "check" /\ ~up /\ known # {} /\ main = "join"
    /\ auto' = "wait"
    /\ UNCHANGED <<Others, main, up, l4>>

\* NET_REQUEST_WIFI_CONNECT_STORED; with the link up, or with nothing stored,
\* the thread only sleeps.
AutoConnect ==
    /\ auto = "check" /\ ~up /\ known # {}
    /\ auto' = "wait"
    /\ UNCHANGED <<Others, main, up, l4>>

\* Associated, or 30 s and 10 s more have passed: the next request aborts the
\* attempt if it is still in flight.
AutoWaited ==
    /\ auto = "wait"
    /\ auto' = "check"
    /\ UNCHANGED <<Others, main, up, l4>>

\* NET_EVENT_L4_CONNECTED, for which network_up() has registered.
LinkUp ==
    /\ auto = "wait" /\ ~up
    /\ up' = TRUE
    /\ l4' = (l4 \/ main = "join")
    /\ UNCHANGED <<Others, main, auto>>

LinkDown ==
    /\ up
    /\ up' = FALSE
    /\ UNCHANGED <<Others, main, auto, l4>>

\* The reboot /api/finish schedules, two seconds and any request later, the
\* shell's, or a power failure.
Reset ==
    /\ resets < MaxResets
    /\ resets' = resets + 1
    /\ StoreReset
    /\ torn' = (torn \/ \E t \in Callers : HalfPair(t))
    /\ due' = [t \in Callers |-> [f \in Fields |-> 0]]
    /\ main' = "boot" /\ auto' = "check" /\ up' = FALSE /\ l4' = FALSE
    /\ text' = [r \in Resources |-> Junk] /\ len' = [r \in Resources |-> 0]
    /\ sending' = [r \in Resources |-> None]
    /\ UNCHANGED <<misread, stored, alone, unsaved, gens, answered, ops>>
-----------------------------------------------------------------------------
\* A device from the box, or one whose set-up in an earlier boot was whole or
\* went half way; its Wi-Fi store is full when it has networks at all.
Init ==
    /\ StoreInit
    /\ main = "boot" /\ auto = "check" /\ up = FALSE /\ l4 = FALSE
    /\ text = [r \in Resources |-> Junk] /\ len = [r \in Resources |-> 0]
    /\ sending = [r \in Resources |-> None] /\ misread = FALSE
    /\ due = [t \in Callers |-> [f \in Fields |-> 0]]
    /\ alone = [t \in Callers |-> FALSE] /\ torn = FALSE /\ unsaved = FALSE
    /\ ops = 0 /\ resets = 0
    /\ answered \in {{}, {"wifi"}, {"provision", "cpid"}, Setup \ {"wifi"}, Setup}
    /\ known = IF "wifi" \in answered THEN CHOOSE s \in SUBSET Networks : Full(s) ELSE {}
    /\ stored = [f \in Fields |-> IF f \in {"cpid", "env"} \ answered THEN 0
                                   ELSE IF "provision" \in answered THEN 1 ELSE 0]
    /\ gens = IF "provision" \in answered THEN 1 ELSE 0

Next == Portal \/ Shell \/ Main \/ AutoConnect \/ AutoWaited \/ LinkUp \/ LinkDown \/ Reset

\* The auto-connect thread is scheduled, and a network that is tried again and
\* again accepts the device in the end.
Fairness == WF_vars(AutoConnect) /\ WF_vars(AutoWaited) /\ SF_vars(LinkUp)

Spec == Init /\ [][Next]_vars /\ Fairness
-----------------------------------------------------------------------------
\* The certificate and the key the next boot will use belong together, unless
\* a pair is half written, was cut there, was saved in part, or two threads
\* saved pairs at the same time; the next whole pair mends it.
PairMatches == stored["cert"] = stored["key"] \/ torn \/ \E t \in Callers : HalfPair(t)

\* portal.c:127 "a single body buffer per resource is sufficient": whatever
\* requests are aborted, interleaved or empty, a request with a body is
\* handled by that body.
HandlesOwnBody == ~misread

\* A setup all of whose parts the portal took is enough for the next boot to
\* leave it: only a save that failed, an empty value that was saved over a part,
\* or evictions that came to nothing or are not over, can be in the way.
AnsweredIsEnough ==
    Setup \subseteq answered =>
        /\ unsaved \/ (\E f \in Names : stored[f] = Blank) \/ Complete
        /\ wasted > 0 \/ known # {} \/ \E t \in Callers : at[t] = "again"

\* The station comes up while networks are stored, from whichever thread they
\* came and after every drop of the link and every reset.
Associates == known # {} ~> up \/ known = {}
=============================================================================
