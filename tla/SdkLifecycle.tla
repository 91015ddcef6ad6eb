----------------------------- MODULE SdkLifecycle -----------------------------
(***************************************************************************)
(* The SDK singleton, lib/iotconnect.c, and the TLS credential slots it    *)
(* registers, lib/zephyr-layer/iotc_tls_credentials.c (RAM backend,        *)
(* CONFIG_IOTCONNECT_DRA).                                                 *)
(*                                                                         *)
(* init() copies the application's strings to the heap; the TLS subsystem  *)
(* keeps the pointers it is given.  Copies are numbered by the init() that *)
(* made them, and a slot, a descriptor field or s_config holds the number  *)
(* of the copy it points into, 0 for NULL.  The application may call       *)
(* init, connect and deinit in any order, each from its one thread; the    *)
(* two TLS handshakes are steps of their own because they read the slots.  *)
(***************************************************************************)
EXTENDS Naturals

CONSTANT MaxInits    \* bound: init() calls that copy a configuration

ASSUME InitsAssumption == MaxInits \in Nat

VARIABLES
    (* iotconnect.c *)
    call,        \* the call in progress and its handshake: "none", "dra", "mqtt"
    s_inited,
    s_config,    \* the copy s_config points into
    supplied,    \* the credentials that copy holds
    s_creds,     \* what the retained descriptor points to, per credential
    s_creds_registered,
    (* external: the TLS subsystem, iotc-c-lib's MQTT configuration, the heap *)
    slot,        \* what each (sec tag, type) slot points to
    resolved,    \* iotc-c-lib holds a broker host and client id
    freed,       \* copies given back to the heap
    (* history *)
    copies,      \* number of copies made
    failed,      \* copies whose init() failed after the DRA CA was registered
    overwritten  \* some init() ran while the SDK was initialised

sdkVars == <<s_inited, s_config, supplied>>
tlsVars == <<s_creds, s_creds_registered, slot>>
histVars == <<copies, failed, overwritten>>
vars == <<call, sdkVars, tlsVars, resolved, freed, histVars>>

Credentials == {"dra", "broker", "cert", "key"}
Copy        == 0..MaxInits
Nothing     == [c \in Credentials |-> 0]
-----------------------------------------------------------------------------
\* iotc_tls_credentials_register() of descriptor d: a populated slot is
\* -EEXIST and left alone, and that counts as success.
Register(d) ==
    slot' = [c \in Credentials |-> IF slot[c] = 0 THEN d[c] ELSE slot[c]]

\* The order in which the descriptor is registered.
Before == [broker |-> {}, dra |-> {"broker"}, cert |-> {"broker", "dra"},
           key |-> {"broker", "dra", "cert"}]

\* The same, refused at one credential: those before it were added.
RegisterFails(d) ==
    \E refused \in Credentials :
        /\ slot[refused] = 0 /\ d[refused] # 0
        /\ slot' = [c \in Credentials |->
                       IF slot[c] = 0 /\ c \in Before[refused] THEN d[c] ELSE slot[c]]

\* Mutant: only the CAs are deleted.
ClearCaOnly(d) ==
    [c \in Credentials |-> IF d[c] # 0 /\ c \in {"dra", "broker"} THEN 0 ELSE slot[c]]

\* iotc_tls_credentials_clear(): only what the descriptor names is deleted.
Clear(d) == [c \in Credentials |-> IF d[c] # 0 THEN 0 ELSE slot[c]]

\* Mutant: s_config forgets its strings instead of freeing them.
FreeConfigForgets ==
    /\ UNCHANGED freed
    /\ s_config' = 0 /\ supplied' = {}

\* free_config_strings(), which leaves NULL behind.
FreeConfig ==
    /\ freed' = IF s_config = 0 THEN freed ELSE freed \cup {s_config}
    /\ s_config' = 0 /\ supplied' = {}
-----------------------------------------------------------------------------
(***************************************************************************)
(* iotconnect_sdk_init().                                                  *)
(***************************************************************************)

\* The copies are made over whatever s_config held; the identity cannot be
\* copied or iotcl_init() fails, and they are freed again.
InitCopyFails ==
    /\ call = "none" /\ copies < MaxInits
    /\ copies' = copies + 1
    /\ freed' = freed \cup {copies + 1}
    /\ s_config' = 0 /\ supplied' = {}
    /\ resolved' \in {resolved, FALSE}
    /\ overwritten' = (overwritten \/ s_inited)
    /\ UNCHANGED <<call, s_inited, tlsVars, failed>>

\* The descriptor is wiped, the DRA CA is registered and discovery starts,
\* or registration fails and the copies are freed.
InitRegister ==
    /\ call = "none" /\ copies < MaxInits
    /\ copies' = copies + 1
    /\ resolved' = FALSE
    /\ overwritten' = (overwritten \/ s_inited)
    /\ \E given \in SUBSET Credentials :
          LET d == [Nothing EXCEPT !["dra"] = IF "dra" \in given THEN copies + 1 ELSE 0]
          IN  /\ s_creds' = d
              /\ \/ /\ Register(d) /\ s_creds_registered' = TRUE
                    /\ s_config' = copies + 1 /\ supplied' = given
                    /\ call' = "dra"
                    /\ UNCHANGED freed
                 \/ /\ RegisterFails(d)
                    /\ freed' = freed \cup {copies + 1}
                    /\ s_config' = 0 /\ supplied' = {}
                    /\ UNCHANGED <<call, s_creds_registered>>
    /\ UNCHANGED <<s_inited, failed>>

InitDraFails ==
    /\ call = "dra"
    /\ call' = "none"
    /\ resolved' = FALSE
    /\ FreeConfig
    /\ failed' = failed \cup {s_config}
    /\ UNCHANGED <<s_inited, tlsVars, copies, overwritten>>

InitDraOk ==
    /\ call = "dra"
    /\ call' = "none"
    /\ resolved' = TRUE
    /\ s_inited' = TRUE
    /\ UNCHANGED <<s_config, supplied, tlsVars, freed, histVars>>
-----------------------------------------------------------------------------
(***************************************************************************)
(* iotconnect_sdk_connect() and iotconnect_sdk_deinit().                   *)
(***************************************************************************)

\* The descriptor connect() registers: the DRA CA init() left in it and what
\* s_config holds now.  For a symmetric key the device fields are not set.
Descriptor(symmetric) ==
    LET now(c) == IF c \in supplied THEN s_config ELSE 0
        ca == [s_creds EXCEPT !["broker"] = now("broker")]
    IN  IF symmetric THEN ca ELSE [ca EXCEPT !["cert"] = now("cert"), !["key"] = now("key")]

AuthTypes == IF supplied \cap {"cert", "key"} = {} THEN BOOLEAN ELSE {FALSE}

\* Mutant: connect() wipes the descriptor before it fills it in.
ConnectRegisterWiped ==
    /\ call = "none" /\ s_inited /\ resolved
    /\ \E symmetric \in AuthTypes : s_creds' = [Descriptor(symmetric) EXCEPT !["dra"] = 0]
    /\ Register(s_creds') /\ s_creds_registered' = TRUE /\ call' = "mqtt"
    /\ UNCHANGED <<sdkVars, resolved, freed, histVars>>

ConnectRegister ==
    /\ call = "none" /\ s_inited /\ resolved
    /\ \E symmetric \in AuthTypes :
          LET d == Descriptor(symmetric)
          IN  /\ s_creds' = d
              /\ \/ Register(d) /\ s_creds_registered' = TRUE /\ call' = "mqtt"
                 \/ RegisterFails(d) /\ UNCHANGED <<s_creds_registered, call>>
    /\ UNCHANGED <<sdkVars, resolved, freed, histVars>>

\* iotc_mqtt_client_connect() returns, connected or not (module MqttClient).
ConnectReturns ==
    /\ call = "mqtt"
    /\ call' = "none"
    /\ UNCHANGED <<sdkVars, tlsVars, resolved, freed, histVars>>

\* iotconnect_sdk_deinit(): the slots are cleared before the strings go.
Deinit ==
    /\ call = "none" /\ s_inited
    /\ resolved' = FALSE
    /\ IF s_creds_registered
       THEN slot' = Clear(s_creds) /\ s_creds_registered' = FALSE /\ s_creds' = Nothing
       ELSE UNCHANGED tlsVars
    /\ FreeConfig
    /\ s_inited' = FALSE
    /\ UNCHANGED <<call, histVars>>
-----------------------------------------------------------------------------
Init ==
    /\ call = "none"
    /\ s_inited = FALSE /\ s_config = 0 /\ supplied = {}
    /\ s_creds = Nothing /\ s_creds_registered = FALSE /\ slot = Nothing
    /\ resolved = FALSE /\ freed = {}
    /\ copies = 0 /\ failed = {} /\ overwritten = FALSE

InitCall == InitCopyFails \/ InitRegister \/ InitDraFails \/ InitDraOk

Next == InitCall \/ ConnectRegister \/ ConnectReturns \/ Deinit

Spec == Init /\ [][Next]_vars
-----------------------------------------------------------------------------
TypeOK ==
    /\ call \in {"none", "dra", "mqtt"}
    /\ s_inited \in BOOLEAN /\ s_config \in Copy /\ supplied \subseteq Credentials
    /\ s_creds \in [Credentials -> Copy] /\ s_creds_registered \in BOOLEAN
    /\ slot \in [Credentials -> Copy]
    /\ resolved \in BOOLEAN /\ freed \subseteq Copy
    /\ copies \in Copy /\ failed \subseteq Copy /\ overwritten \in BOOLEAN

\* A TLS slot never points into freed memory, but for the DRA CA of an
\* init() that failed after registering it: deinit() clears before it frees,
\* and a failed registration or a second init() strands nothing else.
OnlyFailedInitDangles ==
    \A c \in Credentials : slot[c] \in freed => c = "dra" /\ slot[c] \in failed

\* The broker handshake reads no freed memory, and if no init() was made
\* over a live SDK it reads exactly the credentials of the last init().
BrokerHandshakeIsCurrent ==
    call = "mqtt" => \A c \in {"broker", "cert", "key"} :
        /\ slot[c] \notin freed
        /\ ~overwritten => slot[c] = IF c \in supplied THEN s_config ELSE 0

\* Every copy of the strings is held by s_config or was freed, unless an
\* init() was made over a live SDK.
NoCopyLost == ~overwritten => (1..copies) \ freed \subseteq {s_config}

\* iotconnect.c:432 "tls_credential_add() is idempotent (re-registering the
\* DRA slot is harmless)": the discovery handshake never reads freed memory.
DraHandshakeIsLive == call = "dra" => slot["dra"] \notin freed
=============================================================================
