------------------------------- MODULE SdkProofs -------------------------------
(***************************************************************************)
(* The safety of lib/iotconnect.c: of the singleton for any number of      *)
(* init() calls, of the telemetry quota for any limits and any number of   *)
(* changes to them, and of the two in one program.                         *)
(*                                                                         *)
(* What makes deinit() and the failure paths of init() safe is a relation  *)
(* between three pointers to each credential: the one in s_config, the one *)
(* in the retained descriptor and the one in the TLS slot.                 *)
(***************************************************************************)
EXTENDS Sdk, TLAPS

Device == {"broker", "cert", "key"}

\* Copies are numbered in the order they were made, and s_config's is live.
Numbered ==
    /\ copies \in Copy
    /\ s_config \in 0..copies /\ freed \subseteq 1..copies /\ s_config \notin freed
    /\ slot \in [Credentials -> 0..copies] /\ s_creds \in [Credentials -> 0..copies]

\* A copy is held by an initialised SDK or by the init() in progress, and
\* either has registered something.
Held ==
    /\ s_inited \/ call = "dra" => s_creds_registered
    /\ s_config # 0 => s_inited \/ call = "dra"
    /\ s_config = 0 => supplied = {}

\* Discovery runs for the newest copy, of which only the DRA CA is used yet.
Discovering ==
    call = "dra" => /\ s_config = copies /\ s_config # 0
                    /\ \A c \in Device : s_creds[c] = 0 /\ slot[c] # s_config

\* A slot that points into s_config's copy is one that deinit() will clear,
\* and it and the descriptor point only to credentials that copy holds.
Named ==
    \A c \in Credentials : s_config # 0 =>
        /\ slot[c] = s_config => s_creds[c] # 0
        /\ s_config \in {slot[c], s_creds[c]} => c = "dra" \/ c \in supplied

\* The slot of the discovery CA is taken by the time connect() registers.
Added == (call = "dra" \/ resolved) /\ s_creds["dra"] # 0 => slot["dra"] # 0

\* Neither a device slot nor the descriptor's device fields dangle.
Intact ==
    /\ \A c \in Device : slot[c] \notin freed /\ s_creds[c] \notin freed
    /\ slot["dra"] \in freed => slot["dra"] \in failed

\* Without an init() over a live SDK no other copy is pointed to, or lost.
Own ==
    ~overwritten =>
        /\ \A c \in Device : /\ slot[c] \in {0, s_config}
                             /\ s_creds[c] \in {0, s_config}
                             /\ s_creds[c] # 0 => c \in supplied
        /\ (1..copies) \ freed \subseteq {s_config}

Shape ==
    /\ call \in {"none", "dra", "mqtt"} /\ supplied \subseteq Credentials
    /\ s_inited \in BOOLEAN /\ s_creds_registered \in BOOLEAN /\ resolved \in BOOLEAN
    /\ overwritten \in BOOLEAN /\ failed \subseteq Copy

Current == call = "mqtt" /\ ~overwritten =>
               \A c \in Device : slot[c] = IF c \in supplied THEN s_config ELSE 0

IInv == Shape /\ Numbered /\ Held /\ Discovering /\ Named /\ Added /\ Intact /\ Own /\ Current
-----------------------------------------------------------------------------
\* Registration, whole or refused half way, only fills slots that are empty,
\* and only with what the descriptor names.
LEMMA Adds ==
    ASSUME Numbered, NEW d \in [Credentials -> 0..copies], Register(d) \/ RegisterFails(d)
    PROVE  /\ slot' \in [Credentials -> 0..copies]
           /\ \A c \in Credentials : slot'[c] = slot[c] \/ (slot[c] = 0 /\ slot'[c] = d[c])
  <1>1. PICK added \in SUBSET Credentials :
           slot' = [c \in Credentials |-> IF slot[c] = 0 /\ c \in added THEN d[c] ELSE slot[c]]
    <2>1. CASE Register(d)
      <3>1. slot' = [c \in Credentials |->
                       IF slot[c] = 0 /\ c \in Credentials THEN d[c] ELSE slot[c]]
        BY <2>1 DEF Register
      <3> QED BY <3>1
    <2>2. CASE RegisterFails(d)
      <3>1. PICK refused \in Credentials :
               slot' = [c \in Credentials |->
                          IF slot[c] = 0 /\ c \in Before[refused] THEN d[c] ELSE slot[c]]
        BY <2>2 DEF RegisterFails
      <3>2. Before[refused] \in SUBSET Credentials BY DEF Before, Credentials
      <3> QED BY <3>1, <3>2
    <2> QED BY <2>1, <2>2
  <1>2. \A c \in Credentials : slot[c] \in 0..copies /\ d[c] \in 0..copies BY DEF Numbered
  <1> QED BY <1>1, <1>2

\* What connect() puts into the descriptor.
LEMMA Described ==
    ASSUME Numbered, Shape, NEW symmetric \in AuthTypes
    PROVE  /\ Descriptor(symmetric) \in [Credentials -> 0..copies]
           /\ Descriptor(symmetric)["dra"] = s_creds["dra"]
           /\ \A c \in Device :
                 \/ Descriptor(symmetric)[c] = IF c \in supplied THEN s_config ELSE 0
                 \/ c \notin supplied /\ Descriptor(symmetric)[c] = s_creds[c]
  <1> DEFINE now(c) == IF c \in supplied THEN s_config ELSE 0
             ca == [s_creds EXCEPT !["broker"] = now("broker")]
  <1>1. \A c \in Credentials : now(c) \in 0..copies
    BY InitsAssumption DEF Numbered, Copy
  <1>2. ca \in [Credentials -> 0..copies] BY <1>1 DEF Numbered, Credentials
  <1>3. /\ ca["dra"] = s_creds["dra"] /\ ca["broker"] = now("broker")
        /\ ca["cert"] = s_creds["cert"] /\ ca["key"] = s_creds["key"]
    BY DEF Numbered, Credentials
  <1>4. CASE symmetric
    <2>1. supplied \cap {"cert", "key"} = {} BY <1>4 DEF AuthTypes
    <2>2. Descriptor(symmetric) = ca BY <1>4 DEF Descriptor
    <2> QED BY <1>2, <1>3, <2>1, <2>2 DEF Device
  <1>5. CASE ~symmetric
    <2> DEFINE d == [ca EXCEPT !["cert"] = now("cert"), !["key"] = now("key")]
    <2>1. Descriptor(symmetric) = d BY <1>5 DEF Descriptor
    <2>2. d \in [Credentials -> 0..copies] BY <1>1, <1>2 DEF Credentials
    <2>3. /\ d["dra"] = ca["dra"] /\ d["broker"] = ca["broker"]
          /\ d["cert"] = now("cert") /\ d["key"] = now("key")
      BY <1>2 DEF Credentials
    <2> QED BY <1>3, <2>1, <2>2, <2>3 DEF Device
  <1> QED BY <1>4, <1>5

LEMMA InitInv == Init => IInv
  <1> SUFFICES ASSUME Init PROVE IInv OBVIOUS
  <1> USE InitsAssumption DEF Init
  <1>1. Numbered BY DEF Numbered, Nothing, Copy
  <1>2. Shape /\ Held /\ Discovering BY DEF Shape, Held, Discovering
  <1>3. Named /\ Added /\ Intact /\ Own /\ Current
    BY DEF Named, Added, Intact, Own, Current, Nothing, Device, Credentials
  <1> QED BY <1>1, <1>2, <1>3 DEF IInv
-----------------------------------------------------------------------------
\* init(): the copies cannot be made.
LEMMA CopyFailsStep == ASSUME IInv, InitCopyFails PROVE IInv'
  <1> USE InitsAssumption DEF IInv, InitCopyFails, tlsVars
  <1>1. copies \in Nat /\ copies' = copies + 1 /\ copies' \in Copy /\ copies <= MaxInits
    BY DEF Numbered, Copy
  <1>2. Numbered'
    <2>1. slot \in [Credentials -> 0..copies'] /\ s_creds \in [Credentials -> 0..copies']
      BY <1>1 DEF Numbered
    <2>2. freed' \subseteq 1..copies' BY <1>1 DEF Numbered
    <2>3. 0 \in 0..copies' /\ 0 \notin freed' BY <1>1, <2>2
    <2> QED BY <1>1, <2>1, <2>2, <2>3 DEF Numbered
  <1>3. Shape' /\ Held' /\ Discovering' BY DEF Shape, Held, Discovering
  <1>4. Named' /\ Added' /\ Current'
    <2>1. resolved' => resolved OBVIOUS
    <2>2. Added' BY <2>1, Zenon DEF Added
    <2> QED BY <2>2 DEF Named, Current
  <1>5. Intact'
    <2>1. \A c \in Credentials : slot[c] # copies + 1 /\ s_creds[c] # copies + 1
      BY <1>1 DEF Numbered
    <2> QED BY <2>1 DEF Intact, Device, Credentials
  <1>6. Own'
    <2>1. SUFFICES ASSUME ~overwritten' PROVE Own' BY DEF Own
    <2>2. s_config = 0 /\ ~overwritten BY <2>1 DEF Held
    <2>3. (1..copies') \ freed' \subseteq {0} BY <1>1, <2>2 DEF Own
    <2> QED BY <2>2, <2>3 DEF Own, Held
  <1> QED BY <1>2, <1>3, <1>4, <1>5, <1>6

\* init(): the discovery CA is registered, or refused.
LEMMA RegisterStep == ASSUME IInv, InitRegister PROVE IInv'
  <1> USE InitsAssumption DEF IInv
  <1>1. /\ call = "none" /\ copies \in Nat /\ copies' = copies + 1 /\ copies' \in Copy
        /\ ~resolved' /\ overwritten' = (overwritten \/ s_inited)
        /\ UNCHANGED <<s_inited, failed>>
    BY DEF InitRegister, Numbered, Copy
  <1>2. PICK given \in SUBSET Credentials :
          LET d == [Nothing EXCEPT !["dra"] = IF "dra" \in given THEN copies + 1 ELSE 0]
          IN  /\ s_creds' = d
              /\ \/ /\ Register(d) /\ s_creds_registered' = TRUE
                    /\ s_config' = copies + 1 /\ supplied' = given
                    /\ call' = "dra"
                    /\ UNCHANGED freed
                 \/ /\ RegisterFails(d)
                    /\ freed' = freed \cup {copies + 1}
                    /\ s_config' = 0 /\ supplied' = {}
                    /\ UNCHANGED <<call, s_creds_registered>>
    BY DEF InitRegister
  <1> DEFINE d == s_creds'
  <1>3. /\ d["dra"] = IF "dra" \in given THEN copies + 1 ELSE 0
        /\ \A c \in Device : d[c] = 0
        /\ d \in [Credentials -> 0..copies']
    BY <1>1, <1>2 DEF Nothing, Device, Credentials
  <1>4. \A c \in Credentials : slot[c] \in 0..copies BY DEF Numbered
  <1>5. CASE Register(d) /\ call' = "dra"
    <2>1. /\ s_creds_registered' = TRUE /\ s_config' = copies + 1 /\ supplied' = given
          /\ UNCHANGED freed
      BY <1>1, <1>2, <1>5
    <2>2. \A c \in Credentials : slot'[c] = IF slot[c] = 0 THEN d[c] ELSE slot[c]
      BY <1>5 DEF Register
    <2>3. slot' \in [Credentials -> 0..copies'] BY <1>1, <1>3, <1>4, <1>5 DEF Register
    <2>4. Numbered' BY <1>1, <1>3, <2>1, <2>3 DEF Numbered
    <2>5. \A c \in Device : slot'[c] = slot[c] BY <1>3, <2>2 DEF Device, Credentials
    <2>6. "dra" \in Credentials BY DEF Credentials
    <2>7. Shape' /\ Held'
      <3>1. overwritten' \in BOOLEAN /\ resolved' \in BOOLEAN
        <4>1. overwritten' \in BOOLEAN BY <1>1, Zenon DEF Shape
        <4>2. resolved' \in BOOLEAN BY DEF InitRegister
        <4> QED BY <4>1, <4>2
      <3>2. Shape' BY <1>1, <1>5, <2>1, <3>1 DEF Shape
      <3>3. Held' BY <1>1, <1>5, <2>1 DEF Held
      <3> QED BY <3>2, <3>3
    <2>8. Discovering' BY <1>1, <1>3, <1>4, <2>1, <2>5 DEF Discovering, Device, Credentials
    <2>9. Named' BY <1>1, <1>3, <1>4, <2>1, <2>2, <2>5, <2>6 DEF Named, Device, Credentials
    <2>10. Added' BY <1>3, <2>2, <2>6 DEF Added
    <2>11. Intact'
      <3>1. copies + 1 \notin freed BY <1>1 DEF Numbered
      <3>2. 0 \notin freed BY DEF Numbered
      <3> QED BY <1>1, <1>3, <2>1, <2>2, <2>5, <2>6, <3>1, <3>2 DEF Intact
    <2>12. Own'
      <3>1. SUFFICES ASSUME ~overwritten' PROVE Own' BY DEF Own
      <3>2. s_config = 0 /\ ~overwritten BY <1>1, <3>1 DEF Held
      <3>3. (1..copies') \ freed' \subseteq {copies + 1} BY <1>1, <2>1, <3>2 DEF Own
      <3> QED BY <1>3, <2>1, <2>5, <3>2, <3>3 DEF Own
    <2>13. Current' BY <1>5 DEF Current
    <2> QED BY <2>4, <2>7, <2>8, <2>9, <2>10, <2>11, <2>12, <2>13
  <1>6. CASE RegisterFails(d) /\ call' = call
    <2>1. /\ freed' = freed \cup {copies + 1} /\ s_config' = 0 /\ supplied' = {}
          /\ UNCHANGED <<call, s_creds_registered>>
      BY <1>1, <1>2, <1>6
    <2>2. slot' = slot
      <3>1. PICK refused \in Credentials :
               /\ slot[refused] = 0 /\ d[refused] # 0
               /\ slot' = [c \in Credentials |->
                             IF slot[c] = 0 /\ c \in Before[refused] THEN d[c] ELSE slot[c]]
        BY <1>6 DEF RegisterFails
      <3>2. refused = "dra" BY <1>3, <3>1 DEF Device, Credentials
      <3>3. Before[refused] = {"broker"} BY <3>2 DEF Before
      <3>4. \A c \in Credentials : slot'[c] = slot[c] BY <1>3, <3>1, <3>3 DEF Device
      <3>5. slot' \in [Credentials -> 0..copies'] BY <1>1, <1>3, <1>4, <3>1
      <3> QED BY <3>4, <3>5 DEF Numbered
    <2>3. Numbered'
      <3>1. slot' \in [Credentials -> 0..copies'] BY <1>1, <1>4, <2>2 DEF Numbered
      <3>2. freed' \subseteq 1..copies' BY <1>1, <2>1 DEF Numbered
      <3>3. 0 \in 0..copies' /\ 0 \notin freed' BY <1>1, <3>2
      <3> QED BY <1>1, <1>3, <2>1, <3>1, <3>2, <3>3 DEF Numbered
    <2>4. Shape'
      <3>1. overwritten' \in BOOLEAN BY <1>1, Zenon DEF Shape
      <3>2. resolved' \in BOOLEAN BY DEF InitRegister
      <3> QED BY <1>1, <2>1, <3>1, <3>2 DEF Shape
    <2>5. Held' /\ Discovering' /\ Named' /\ Added' /\ Current'
      <3>1. Held' BY <1>1, <2>1 DEF Held
      <3> QED BY <1>1, <2>1, <3>1 DEF Discovering, Named, Added, Current
    <2>6. Intact'
      <3>1. \A c \in Credentials : slot[c] # copies + 1 BY <1>1, <1>4
      <3>2. 0 \notin freed' BY <1>1, <2>1 DEF Numbered
      <3> QED BY <1>1, <1>3, <2>1, <2>2, <3>1, <3>2 DEF Intact, Device, Credentials
    <2>7. Own'
      <3>1. SUFFICES ASSUME ~overwritten' PROVE Own' BY DEF Own
      <3>2. s_config = 0 /\ ~overwritten BY <1>1, <3>1 DEF Held
      <3>3. (1..copies') \ freed' \subseteq {0} BY <1>1, <2>1, <3>2 DEF Own
      <3> QED BY <1>3, <2>1, <2>2, <3>2, <3>3 DEF Own
    <2> QED BY <2>3, <2>4, <2>5, <2>6, <2>7
  <1> QED BY <1>1, <1>2, <1>5, <1>6

\* init(): discovery ends, and one that failed frees the copies.
LEMMA DiscoveryStep == ASSUME IInv, InitDraFails \/ InitDraOk PROVE IInv'
  <1> USE DEF IInv
  <1>1. CASE InitDraFails
    <2> USE <1>1 DEF InitDraFails, FreeConfig, tlsVars
    <2>1. s_config # 0 /\ s_config \in 1..copies /\ s_config \in Copy
      BY InitsAssumption DEF Discovering, Numbered, Copy
    <2>2. Numbered'
      <3>1. freed' = freed \cup {s_config} BY <2>1
      <3>2. 0 \in 0..copies /\ 0 \notin freed'
        BY <2>1, <3>1, InitsAssumption DEF Numbered, Copy
      <3> QED BY <2>1, <3>1, <3>2 DEF Numbered
    <2>3. Shape' BY <2>1 DEF Shape
    <2>4. Held' /\ Discovering' BY DEF Held, Discovering
    <2>5. Named' /\ Added' /\ Current' BY DEF Named, Added, Current
    <2>6. Intact' BY <2>1 DEF Intact, Discovering
    <2>7. Own' BY <2>1 DEF Own, Discovering
    <2> QED BY <2>2, <2>3, <2>4, <2>5, <2>6, <2>7
  <1>2. CASE InitDraOk
    <2> USE <1>2 DEF InitDraOk, tlsVars, histVars
    <2>1. Numbered' /\ Shape' BY DEF Numbered, Shape
    <2>2. Held' /\ Discovering' /\ Current' BY DEF Held, Discovering, Current
    <2>3. Named' /\ Added' BY DEF Named, Added
    <2>4. Intact' /\ Own' BY DEF Intact, Own
    <2> QED BY <2>1, <2>2, <2>3, <2>4
  <1> QED BY <1>1, <1>2

\* connect(): the credentials are registered, all of them or some.
LEMMA ConnectStep == ASSUME IInv, ConnectRegister PROVE IInv'
  <1> USE DEF IInv
  <1>1. /\ call = "none" /\ s_inited /\ resolved
        /\ UNCHANGED <<s_inited, s_config, supplied, resolved, freed, copies, failed, overwritten>>
    BY DEF ConnectRegister, sdkVars, histVars
  <1>2. PICK symmetric \in AuthTypes :
          /\ s_creds' = Descriptor(symmetric)
          /\ \/ /\ Register(Descriptor(symmetric)) /\ s_creds_registered' = TRUE
                /\ call' = "mqtt"
             \/ /\ RegisterFails(Descriptor(symmetric))
                /\ UNCHANGED <<s_creds_registered, call>>
    BY DEF ConnectRegister
  <1> DEFINE d == s_creds'
  <1>3. /\ d \in [Credentials -> 0..copies] /\ d["dra"] = s_creds["dra"]
        /\ \A c \in Device : \/ d[c] = IF c \in supplied THEN s_config ELSE 0
                             \/ c \notin supplied /\ d[c] = s_creds[c]
    BY <1>2, Described
  <1>4. Register(d) \/ RegisterFails(d) BY <1>2
  <1>5. /\ slot' \in [Credentials -> 0..copies]
        /\ \A c \in Credentials : slot'[c] = slot[c] \/ (slot[c] = 0 /\ slot'[c] = d[c])
    BY <1>3, <1>4, Adds
  <1>6. Device \subseteq Credentials /\ "dra" \in Credentials BY DEF Device, Credentials
  <1>7. slot'["dra"] = slot["dra"] BY <1>1, <1>3, <1>5, <1>6 DEF Added
  <1>8. s_creds_registered = TRUE BY <1>1 DEF Held, Shape
  <1>9. s_config = 0 => supplied = {} BY DEF Held
  <1>10. Numbered' BY <1>1, <1>3, <1>5 DEF Numbered
  <1>11. Shape' /\ Held' /\ Discovering'
    <2>1. call' \in {"none", "mqtt"} /\ s_creds_registered' = TRUE BY <1>1, <1>2, <1>8
    <2>2. Shape' BY <1>1, <2>1 DEF Shape
    <2>3. Held' BY <1>1, <2>1 DEF Held
    <2> QED BY <2>1, <2>2, <2>3 DEF Discovering
  <1>12. Named'
    <2> SUFFICES ASSUME NEW c \in Credentials, s_config # 0
                 PROVE  /\ slot'[c] = s_config => d[c] # 0
                        /\ s_config \in {slot'[c], d[c]} => c = "dra" \/ c \in supplied
      BY <1>1 DEF Named
    <2>1. CASE c = "dra" BY <1>3, <1>7, <2>1 DEF Named
    <2>2. CASE c \in Device
      <3>1. /\ slot[c] = s_config => s_creds[c] # 0
            /\ s_config \in {slot[c], s_creds[c]} => c = "dra" \/ c \in supplied
            /\ c # "dra"
        BY <2>2 DEF Named, Device
      <3>2. slot'[c] = slot[c] \/ (slot[c] = 0 /\ slot'[c] = d[c]) BY <1>5
      <3>3. \/ d[c] = IF c \in supplied THEN s_config ELSE 0
            \/ c \notin supplied /\ d[c] = s_creds[c]
        BY <1>3, <2>2
      <3>4. CASE c \in supplied BY <3>3, <3>4
      <3>5. CASE c \notin supplied BY <3>1, <3>2, <3>3, <3>5
      <3> QED BY <3>4, <3>5
    <2> QED BY <2>1, <2>2 DEF Device, Credentials
  <1>13. Added' BY <1>1, <1>3, <1>7 DEF Added
  <1>14. Intact'
    <2>1. s_config \notin freed /\ 0 \notin freed BY DEF Numbered
    <2>2. ASSUME NEW c \in Device PROVE slot'[c] \notin freed /\ d[c] \notin freed
      <3>1. d[c] \notin freed BY <1>3, <2>1 DEF Intact
      <3>2. slot'[c] = slot[c] \/ slot'[c] = d[c] BY <1>5, <1>6
      <3> QED BY <3>1, <3>2 DEF Intact
    <2> QED BY <1>1, <1>7, <2>2 DEF Intact
  <1>15. Own'
    <2>1. SUFFICES ASSUME ~overwritten PROVE Own' BY <1>1 DEF Own
    <2>2. (1..copies) \ freed \subseteq {s_config} BY <2>1 DEF Own
    <2>3. ASSUME NEW c \in Device
          PROVE  /\ slot'[c] \in {0, s_config} /\ d[c] \in {0, s_config}
                 /\ d[c] # 0 => c \in supplied
      <3>1. /\ slot[c] \in {0, s_config} /\ s_creds[c] \in {0, s_config}
            /\ s_creds[c] # 0 => c \in supplied
        BY <2>1 DEF Own
      <3>2. d[c] \in {0, s_config} /\ (d[c] # 0 => c \in supplied) BY <1>3, <3>1
      <3>3. slot'[c] = slot[c] \/ slot'[c] = d[c] BY <1>5, <1>6
      <3> QED BY <3>1, <3>2, <3>3
    <2> QED BY <1>1, <2>2, <2>3 DEF Own
  <1>16. Current'
    <2> SUFFICES ASSUME call' = "mqtt", ~overwritten, NEW c \in Device
                 PROVE  slot'[c] = IF c \in supplied THEN s_config ELSE 0
      BY <1>1 DEF Current
    <2>1. slot'[c] = IF slot[c] = 0 THEN d[c] ELSE slot[c]
      <3>1. Register(d) BY <1>1, <1>2
      <3> QED BY <1>6, <3>1 DEF Register
    <2>2. /\ slot[c] \in {0, s_config}
          /\ s_creds[c] # 0 => c \in supplied
      BY DEF Own
    <2>3. CASE c \in supplied BY <1>3, <2>1, <2>2, <2>3
    <2>4. CASE c \notin supplied
      <3>1. d[c] = 0 BY <1>3, <2>2, <2>4
      <3>2. slot[c] = 0
        <4>1. s_config # 0 /\ slot[c] = s_config => c = "dra" \/ c \in supplied
          BY <1>6 DEF Named
        <4>2. c # "dra" BY DEF Device
        <4> QED BY <2>2, <2>4, <4>1, <4>2
      <3> QED BY <2>1, <2>4, <3>1, <3>2
    <2> QED BY <2>3, <2>4
  <1> QED BY <1>10, <1>11, <1>12, <1>13, <1>14, <1>15, <1>16

\* connect() is over.
LEMMA ReturnStep == ASSUME IInv, ConnectReturns PROVE IInv'
  <1> USE DEF IInv, ConnectReturns, sdkVars, tlsVars, histVars
  <1>1. Numbered' /\ Shape' BY DEF Numbered, Shape
  <1>2. Held' /\ Discovering' /\ Current' BY DEF Held, Discovering, Current
  <1>3. Named' /\ Added' BY DEF Named, Added
  <1>4. Intact' /\ Own' BY DEF Intact, Own
  <1> QED BY <1>1, <1>2, <1>3, <1>4

\* deinit(): what points into the copies is cleared before they are freed.
LEMMA DeinitStep == ASSUME IInv, Deinit PROVE IInv'
  <1> USE DEF IInv
  <1>1. /\ call = "none" /\ call' = "none" /\ s_inited' = FALSE /\ resolved' = FALSE
        /\ s_config' = 0 /\ supplied' = {}
        /\ freed' = IF s_config = 0 THEN freed ELSE freed \cup {s_config}
        /\ UNCHANGED <<copies, failed, overwritten>>
    BY DEF Deinit, FreeConfig, histVars
  <1>2. /\ slot' = Clear(s_creds) /\ s_creds_registered' = FALSE /\ s_creds' = Nothing
    BY DEF Deinit, Held
  <1>3. copies \in Nat /\ 0 \in 0..copies /\ s_config \in 0..copies
    BY InitsAssumption DEF Numbered, Copy
  <1>4. \A c \in Credentials : slot'[c] = IF s_creds[c] # 0 THEN 0 ELSE slot[c]
    BY <1>2 DEF Clear
  <1>5. \A c \in Credentials : slot'[c] \in {0, slot[c]} /\ slot'[c] \in 0..copies
    BY <1>3, <1>4 DEF Numbered
  <1>6. \A c \in Credentials : s_config # 0 => slot'[c] # s_config
    BY <1>4 DEF Named
  <1>7. 0 \notin freed' BY <1>1, <1>3 DEF Numbered
  <1>8. Device \subseteq Credentials /\ "dra" \in Credentials BY DEF Device, Credentials
  <1>9. Numbered'
    <2>1. slot' \in [Credentials -> 0..copies] BY <1>2, <1>5 DEF Clear
    <2>2. s_creds' \in [Credentials -> 0..copies] BY <1>2, <1>3 DEF Nothing
    <2>3. freed' \subseteq 1..copies BY <1>1, <1>3 DEF Numbered
    <2> QED BY <1>1, <1>3, <1>7, <2>1, <2>2, <2>3 DEF Numbered
  <1>10. Shape' BY <1>1, <1>2 DEF Shape
  <1>11. Held' /\ Discovering' /\ Named' /\ Current'
    BY <1>1 DEF Held, Discovering, Named, Current
  <1>12. Added' BY <1>1 DEF Added
  <1>13. Intact'
    <2>1. \A c \in Credentials : slot'[c] \in freed' => slot'[c] \in freed /\ slot'[c] = slot[c]
      BY <1>1, <1>5, <1>6, <1>7
    <2>2. \A c \in Device : s_creds'[c] = 0 BY <1>2, <1>8 DEF Nothing
    <2> QED BY <1>1, <1>7, <1>8, <2>1, <2>2 DEF Intact
  <1>14. Own'
    <2> SUFFICES ASSUME ~overwritten PROVE Own' BY <1>1 DEF Own
    <2>1. \A c \in Device : slot'[c] = 0 /\ s_creds'[c] = 0
      BY <1>2, <1>5, <1>6, <1>8 DEF Own, Nothing
    <2>2. (1..copies) \ freed' \subseteq {0} BY <1>1, <1>3 DEF Own
    <2> QED BY <1>1, <2>1, <2>2 DEF Own
  <1> QED BY <1>9, <1>10, <1>11, <1>12, <1>13, <1>14
-----------------------------------------------------------------------------
LEMMA StutterStep == ASSUME IInv, UNCHANGED vars PROVE IInv'
  <1> USE DEF IInv, vars, sdkVars, tlsVars, histVars
  <1>1. Numbered' /\ Shape' BY DEF Numbered, Shape
  <1>2. Held' /\ Discovering' /\ Current' BY DEF Held, Discovering, Current
  <1>3. Named' /\ Added' BY DEF Named, Added
  <1>4. Intact' /\ Own' BY DEF Intact, Own
  <1> QED BY <1>1, <1>2, <1>3, <1>4

\* IInv is inductive.
THEOREM Invariance == Spec => []IInv
  <1>1. ASSUME IInv, [Next]_vars PROVE IInv'
    <2>1. CASE InitCopyFails BY <1>1, <2>1, CopyFailsStep
    <2>2. CASE InitRegister BY <1>1, <2>2, RegisterStep
    <2>3. CASE InitDraFails \/ InitDraOk BY <1>1, <2>3, DiscoveryStep
    <2>4. CASE ConnectRegister BY <1>1, <2>4, ConnectStep
    <2>5. CASE ConnectReturns BY <1>1, <2>5, ReturnStep
    <2>6. CASE Deinit BY <1>1, <2>6, DeinitStep
    <2>7. CASE UNCHANGED vars BY <1>1, <2>7, StutterStep
    <2> QED BY <1>1, <2>1, <2>2, <2>3, <2>4, <2>5, <2>6, <2>7 DEF Next, InitCall
  <1> QED BY <1>1, InitInv, PTL DEF Spec

\* Every variable keeps its type.
THEOREM TypeCorrect == Spec => []TypeOK
  <1>1. ASSUME IInv PROVE TypeOK
    <2>1. 0..copies \subseteq Copy /\ 1..copies \subseteq Copy /\ copies \in Copy
      BY <1>1, InitsAssumption DEF IInv, Numbered, Copy
    <2> QED BY <1>1, <2>1 DEF IInv, Numbered, Shape, TypeOK
  <1> QED BY <1>1, Invariance, PTL

\* deinit() and the failures of init() leave no TLS slot pointing into freed
\* memory, but for the CA of a discovery that failed.
THEOREM NoOtherSlotDangles == Spec => []OnlyFailedInitDangles
  <1>1. ASSUME IInv PROVE OnlyFailedInitDangles
    BY <1>1 DEF IInv, Intact, OnlyFailedInitDangles, Device, Credentials
  <1> QED BY <1>1, Invariance, PTL

\* The broker handshake reads live memory, and without an init() over a live
\* SDK exactly the credentials of the last init().
THEOREM HandshakeReadsLastInit == Spec => []BrokerHandshakeIsCurrent
  <1>1. ASSUME IInv PROVE BrokerHandshakeIsCurrent
    BY <1>1 DEF IInv, Intact, Current, BrokerHandshakeIsCurrent, Device
  <1> QED BY <1>1, Invariance, PTL

\* No copy of the application's strings leaks, unless init() is called over
\* a live SDK.
THEOREM CopiesAreFreed == Spec => []NoCopyLost
  <1>1. ASSUME IInv PROVE NoCopyLost
    BY <1>1 DEF IInv, Own, NoCopyLost
  <1> QED BY <1>1, Invariance, PTL

\* iotconnect.c:432 calls re-registering the DRA slot harmless: it is, for the
\* discovery handshake too, as long as no discovery has failed.
THEOREM RetryNeedsFailure == Spec => [](failed = {} => DraHandshakeIsLive)
  <1>1. OnlyFailedInitDangles => (failed = {} => DraHandshakeIsLive)
    BY DEF OnlyFailedInitDangles, DraHandshakeIsLive, Credentials
  <1> QED BY <1>1, NoOtherSlotDangles, PTL
-----------------------------------------------------------------------------
(***************************************************************************)
(* The overshoot of the quota, when two threads publish telemetry: of its  *)
(* publishers only QuotaAssumption is used.                                *)
(***************************************************************************)

\* The thread has passed the check and has not stored yet.
Inside(p) == pc[p] \in {"load", "store"}

\* What a thread inside may see and write while no other is: the counter may
\* have reached the limit since its check, and then stays there.
Single(p) ==
    /\ pc[p] = "load" => s_msg_sent <= top
    /\ pc[p] = "store" => reg[p] < top \/ (reg[p] = top /\ s_msg_sent >= top)

\* With both inside, nothing was stored since the second one's check.
Both(p) ==
    /\ pc[p] = "load" => s_msg_sent < top
    /\ pc[p] = "store" => reg[p] < top

Pair(p, q) == (Inside(q) => Both(p)) /\ (~Inside(q) => Single(p))

\* The limit in force is never above the highest one there was.
Limit == s_msg_limit <= top /\ (s_msg_limit = 0 => unlimited)

QuotaInv(a, b) == QuotaTypeOK /\ Limit /\ (~unlimited => Overshoot /\ Pair(a, b) /\ Pair(b, a))
-----------------------------------------------------------------------------
\* A step of one thread in msg_limited_publish() keeps the variables in range.
LEMMA CountType ==
    ASSUME QuotaTypeOK, NEW p \in Publishers, Count(p) \/ Paused(p) \/ Handed(p)
    PROVE  QuotaTypeOK'
  <1> USE QuotaAssumption DEF QuotaTypeOK, Goto, quota
  <1>1. CASE Check(p) \/ Paused(p) \/ Handed(p)
    BY <1>1 DEF Check, Paused, Handed, quotaVars
  <1>2. CASE Load(p) BY <1>2 DEF Load
  <1>3. CASE Store(p)
    <2>1. s_msg_sent' \in 0..MaxSent BY <1>3 DEF Store
    <2>2. reg' \in [Publishers -> 0..MaxSent] BY <1>3 DEF Store
    <2> QED BY <1>3, <2>1, <2>2 DEF Store
  <1> QED BY <1>1, <1>2, <1>3 DEF Count

\* A step of one of the two threads keeps the relation between them.
LEMMA CountPair ==
    ASSUME NEW p \in Publishers, NEW q \in Publishers, p # q, QuotaTypeOK, Limit,
           ~unlimited, Overshoot, Pair(p, q), Pair(q, p),
           Count(p) \/ Paused(p) \/ Handed(p)
    PROVE  Overshoot' /\ Pair(p, q)' /\ Pair(q, p)'
  <1> USE QuotaAssumption DEF QuotaTypeOK, Goto, quota, Pair, Single, Both, Inside
  <1>0. top \in Nat /\ s_msg_limit \in Nat /\ s_msg_sent \in Nat
        /\ reg[p] \in Nat /\ reg[q] \in Nat
    OBVIOUS
  <1>1. CASE Check(p)
    <2>1. s_msg_sent < top BY <1>0, <1>1 DEF Check, UnderQuota, Limit
    <2>2. UNCHANGED <<s_msg_sent, top, unlimited, reg>> /\ pc'[p] = "load" /\ pc'[q] = pc[q]
      BY <1>1 DEF Check
    <2>3. pc[q] = "store" => reg[q] < top BY <1>0, <2>1, <1>1 DEF Check
    <2> QED BY <1>0, <2>1, <2>2, <2>3 DEF Overshoot
  <1>2. CASE Paused(p) BY <1>2 DEF Paused, quotaVars, Overshoot
  <1>3. CASE Load(p)
    <2>1. /\ UNCHANGED <<s_msg_sent, top, unlimited>> /\ pc'[p] = "store" /\ pc'[q] = pc[q]
          /\ pc[p] = "load" /\ reg'[p] = s_msg_sent /\ reg'[q] = reg[q]
      BY <1>3 DEF Load
    <2> QED BY <1>0, <2>1 DEF Overshoot
  <1>4. CASE Store(p)
    <2>1. /\ UNCHANGED <<top, unlimited>> /\ pc'[p] = "publish" /\ pc'[q] = pc[q]
          /\ pc[p] = "store" /\ reg'[q] = reg[q]
          /\ s_msg_sent' <= reg[p] + 1 /\ s_msg_sent' \in Nat
      BY <1>0, <1>4 DEF Store
    <2> QED BY <1>0, <2>1 DEF Overshoot
  <1>5. CASE Handed(p)
    <2>1. /\ UNCHANGED <<s_msg_sent, top, unlimited, reg>> /\ pc'[q] = pc[q]
          /\ pc[p] = "publish" /\ pc'[p] = "check"
      BY <1>5 DEF Handed
    <2> QED BY <1>0, <2>1 DEF Overshoot
  <1> QED BY <1>1, <1>2, <1>3, <1>4, <1>5 DEF Count

\* Raising what bounds a number keeps the bound.
LEMMA Raised == \A m, n, k \in Nat : k <= m + 1 /\ m <= n => k <= n + 1
  OBVIOUS

\* `iotc limit` only moves the limit and, upwards, the highest there was.
LEMMA SetKeeps ==
    ASSUME NEW a \in Publishers, NEW b \in Publishers, QuotaInv(a, b),
           NEW l \in Limits, SetMsgLimit(l)
    PROVE  QuotaInv(a, b)'
  <1> USE QuotaAssumption DEF QuotaInv, QuotaTypeOK
  <1>1. top' \in Nat /\ top \in Nat /\ l \in Nat /\ top <= top' /\ l <= top'
        /\ UNCHANGED <<s_msg_sent, pc, reg>>
    BY DEF SetMsgLimit
  <1>2. QuotaTypeOK' BY DEF SetMsgLimit
  <1>3. Limit' BY <1>1 DEF SetMsgLimit, Limit
  <1>4. ASSUME ~unlimited' PROVE Overshoot' /\ Pair(a, b)' /\ Pair(b, a)'
    <2>1. ~unlimited BY <1>4 DEF SetMsgLimit
    <2>2. s_msg_sent \in Nat /\ reg \in [Publishers -> Nat] OBVIOUS
    <2>3. ASSUME NEW p \in Publishers PROVE (Single(p) => Single(p)') /\ (Both(p) => Both(p)')
      <3>1. reg[p] \in Nat BY <2>2
      <3> QED BY <1>1, <2>2, <3>1 DEF Single, Both
    <2>4. Pair(a, b)' /\ Pair(b, a)' BY <1>1, <2>1, <2>3 DEF Pair, Inside
    <2>5. Overshoot' BY <1>1, <2>1, <2>2, Raised DEF Overshoot
    <2> QED BY <2>4, <2>5
  <1> QED BY <1>2, <1>3, <1>4
-----------------------------------------------------------------------------
\* With two publishing threads, as the samples have, msg_limited_publish()
\* never counts past the highest limit by more than one, though it takes no
\* lock, for any limits the shell sets and however the threads preempt.
THEOREM OvershootByOne ==
    ASSUME NEW a \in Publishers, NEW b \in Publishers, a # b, Publishers = {a, b}
    PROVE  QuotaSpec => []Overshoot
  <1>1. QuotaInit => QuotaInv(a, b)
    <2> SUFFICES ASSUME QuotaInit PROVE QuotaInv(a, b) OBVIOUS
    <2> USE QuotaAssumption DEF QuotaInit
    <2>1. QuotaTypeOK
      <3>1. 0 \in 0..MaxSent /\ 0 \in 0..MaxSets OBVIOUS
      <3> QED BY <3>1 DEF QuotaTypeOK
    <2>2. Limit /\ Overshoot BY DEF Limit, Overshoot
    <2>3. Pair(a, b) /\ Pair(b, a) BY DEF Pair, Single, Both, Inside
    <2> QED BY <2>1, <2>2, <2>3 DEF QuotaInv
  <1>2. QuotaInv(a, b) /\ [QuotaNext]_quotaVars => QuotaInv(a, b)'
    <2> SUFFICES ASSUME QuotaInv(a, b), [QuotaNext]_quotaVars PROVE QuotaInv(a, b)' OBVIOUS
    <2>1. ASSUME NEW p \in Publishers, Count(p) \/ Paused(p) \/ Handed(p) PROVE QuotaInv(a, b)'
      <3>1. QuotaTypeOK' BY <2>1, CountType DEF QuotaInv
      <3>2. UNCHANGED quota
        BY <2>1 DEF Count, Check, Load, Store, Paused, Handed, quotaVars
      <3>3. Limit' BY <3>2 DEF quota, Limit, QuotaInv
      <3>4. ASSUME ~unlimited PROVE Overshoot' /\ Pair(a, b)' /\ Pair(b, a)'
        <4>1. CASE p = a BY <2>1, <3>4, <4>1, CountPair DEF QuotaInv
        <4>2. CASE p = b BY <2>1, <3>4, <4>2, CountPair DEF QuotaInv
        <4> QED BY <4>1, <4>2
      <3> QED BY <3>1, <3>2, <3>3, <3>4 DEF QuotaInv, quota
    <2>2. ASSUME NEW l \in Limits, SetMsgLimit(l) PROVE QuotaInv(a, b)'
      BY <2>2, SetKeeps
    <2>3. CASE UNCHANGED quotaVars
      BY <2>3 DEF QuotaInv, quotaVars, quota, QuotaTypeOK, Limit, Overshoot, Pair, Single, Both, Inside
    <2> QED BY <2>1, <2>2, <2>3 DEF QuotaNext
  <1>3. QuotaInv(a, b) => Overshoot BY DEF QuotaInv, Overshoot
  <1> QED BY <1>1, <1>2, <1>3, PTL DEF QuotaSpec
-----------------------------------------------------------------------------
\* In the program the singleton and the quota each do nothing they do not do
\* alone: telemetry touches no credential, and no init() or deinit() starts
\* the count again.
THEOREM SdkRunsParts == AllSpec => Spec /\ QuotaSpec
  <1>1. AllInit => Init /\ QuotaInit BY DEF AllInit
  <1>2. [AllNext]_sdkAll => [Next]_vars
    BY DEF AllNext, Lifecycle, Send, Shell, sdkAll
  <1>3. [AllNext]_sdkAll => [QuotaNext]_quotaVars
    <2> SUFFICES ASSUME [AllNext]_sdkAll PROVE [QuotaNext]_quotaVars OBVIOUS
    <2>1. CASE Lifecycle BY <2>1 DEF Lifecycle
    <2>2. CASE \E p \in Publishers : Send(p) BY <2>2 DEF Send, QuotaNext
    <2>3. CASE Shell BY <2>3 DEF Shell, QuotaNext
    <2>4. CASE UNCHANGED sdkAll BY <2>4 DEF sdkAll
    <2> QED BY <2>1, <2>2, <2>3, <2>4 DEF AllNext
  <1> QED BY <1>1, <1>2, <1>3, PTL DEF AllSpec, Spec, QuotaSpec

\* The samples' two publishers, the loop and the command callbacks, pass the
\* limit by one, whatever the application does with the SDK meanwhile.
THEOREM SdkOvershootByOne ==
    ASSUME NEW a \in Publishers, NEW b \in Publishers, a # b, Publishers = {a, b}
    PROVE  AllSpec => []Overshoot
  <1>1. QuotaSpec => []Overshoot BY OvershootByOne
  <1> QED BY <1>1, SdkRunsParts, PTL
=============================================================================
