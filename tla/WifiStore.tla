------------------------------- MODULE WifiStore -------------------------------
(***************************************************************************)
(* The Wi-Fi credential store, lib/zephyr-layer/iotc_wifi_store.c.         *)
(*                                                                         *)
(* iotc_wifi_credentials_store() makes up to four calls into Zephyr's      *)
(* wifi_credentials, each of which takes that library's own mutex: the     *)
(* set, and when it answers -ENOBUFS the listing that picks a victim, the  *)
(* deletion and the set again.  The setup portal's HTTP thread and the     *)
(* shell (`iotc wifi`) both call it, and nothing orders the two.           *)
(***************************************************************************)
EXTENDS Naturals, FiniteSets

CONSTANTS
    Networks,    \* SSIDs
    NoNetwork,   \* a local that is not in use
    MaxEntries,  \* CONFIG_WIFI_CREDENTIALS_MAX_ENTRIES
    Callers      \* threads that store networks

ASSUME WifiAssumption ==
    /\ MaxEntries \in Nat \ {0}
    /\ IsFiniteSet(Networks) /\ IsFiniteSet(Callers) /\ NoNetwork \notin Networks

VARIABLES
    known,      \* external: the networks in Zephyr's store, which is in flash
    at,         \* the next call each caller makes, or what it has to return
    ssid,       \* creds->header.ssid of each call
    oldest,     \* o.ssid, the entry the listing picked
    (* history *)
    crossed,    \* callers whose call ran beside another one
    filled,     \* the store was full at some time
    wasted      \* evictions that made room for no entry

storeVars == <<known, at, ssid, oldest, crossed, filled, wasted>>

Goto(t, call) == at' = [at EXCEPT ![t] = call]

Room(n) == n \in known \/ Cardinality(known) < MaxEntries
Full(s) == Cardinality(s) = MaxEntries
Storing == {t \in Callers : at[t] # "idle"}
-----------------------------------------------------------------------------
\* A call begins.
StoreCall(t, n) ==
    /\ at[t] = "idle"
    /\ Goto(t, "set")
    /\ ssid' = [ssid EXCEPT ![t] = n]
    /\ crossed' = IF Storing = {} THEN crossed ELSE crossed \cup Storing \cup {t}
    /\ UNCHANGED <<known, oldest, filled, wasted>>

\* wifi_credentials_set_personal_struct(): overwrites the entry of that SSID
\* or takes a free one; the flash may fail.
Set(n) == Room(n) /\ known' = known \cup {n} /\ filled' = (filled \/ Full(known'))

StoreSet(t) ==
    /\ at[t] = "set"
    /\ \/ Set(ssid[t]) /\ Goto(t, "ok")
       \/ Room(ssid[t]) /\ Goto(t, "error") /\ UNCHANGED <<known, filled>>
       \/ ~Room(ssid[t]) /\ Goto(t, "pick") /\ UNCHANGED <<known, filled>>
    /\ UNCHANGED <<ssid, oldest, crossed, wasted>>

\* Mutant: the victim may be the network being stored, or any other name.
StorePickAny(t) ==
    /\ at[t] = "pick"
    /\ \E n \in Networks : oldest' = [oldest EXCEPT ![t] = n] /\ Goto(t, "delete")
    /\ UNCHANGED <<known, ssid, crossed, filled, wasted>>

\* wifi_credentials_for_each_ssid(): the first entry listed that is not the
\* new network's; the order of the listing is Zephyr's.
StorePick(t) ==
    /\ at[t] = "pick"
    /\ LET others == known \ {ssid[t]}
       IN IF others = {} THEN Goto(t, "full") /\ UNCHANGED oldest
          ELSE \E n \in others : oldest' = [oldest EXCEPT ![t] = n] /\ Goto(t, "delete")
    /\ UNCHANGED <<known, ssid, crossed, filled, wasted>>

\* Mutant: the store is emptied to make room.
StoreDeleteAll(t) ==
    /\ at[t] = "delete"
    /\ known' = {}
    /\ Goto(t, "again")
    /\ oldest' = [oldest EXCEPT ![t] = NoNetwork]
    /\ UNCHANGED <<ssid, crossed, filled, wasted>>

\* wifi_credentials_delete_by_ssid(), which may fail.
StoreDelete(t) ==
    /\ at[t] = "delete"
    /\ \/ known' = known \ {oldest[t]} /\ Goto(t, "again")
       \/ UNCHANGED known /\ Goto(t, "error")
    /\ oldest' = [oldest EXCEPT ![t] = NoNetwork]
    /\ UNCHANGED <<ssid, crossed, filled, wasted>>

\* The set is retried once, and its result is the call's.  The eviction was
\* for nothing if it fails, or if another caller stored the network meanwhile.
StoreSetAgain(t) ==
    /\ at[t] = "again"
    /\ \/ /\ Set(ssid[t]) /\ Goto(t, "ok")
          /\ wasted' = IF ssid[t] \in known THEN wasted + 1 ELSE wasted
       \/ /\ \/ Room(ssid[t]) /\ Goto(t, "error")
             \/ ~Room(ssid[t]) /\ Goto(t, "full")
          /\ wasted' = wasted + 1
          /\ UNCHANGED <<known, filled>>
    /\ UNCHANGED <<ssid, oldest, crossed>>

StoreStep(t) == StoreSet(t) \/ StorePick(t) \/ StoreDelete(t) \/ StoreSetAgain(t)

\* The caller takes the result.
StoreReturn(t) ==
    /\ at[t] \in {"ok", "error", "full"}
    /\ Goto(t, "idle")
    /\ ssid' = [ssid EXCEPT ![t] = NoNetwork]
    /\ crossed' = crossed \ {t}
    /\ UNCHANGED <<known, oldest, filled, wasted>>

\* A reset cuts the calls in progress; what is in flash stays.
StoreReset ==
    /\ at' = [t \in Callers |-> "idle"]
    /\ ssid' = [t \in Callers |-> NoNetwork] /\ oldest' = ssid'
    /\ crossed' = {}
    /\ wasted' = wasted + Cardinality({t \in Callers : at[t] = "again"})
    /\ UNCHANGED <<known, filled>>

StoreInit ==
    /\ known \in SUBSET Networks /\ Cardinality(known) <= MaxEntries
    /\ at = [t \in Callers |-> "idle"]
    /\ ssid = [t \in Callers |-> NoNetwork] /\ oldest = ssid
    /\ crossed = {} /\ filled = Full(known) /\ wasted = 0

StoreNext == \E t \in Callers :
                StoreStep(t) \/ StoreReturn(t) \/ \E n \in Networks : StoreCall(t, n)

StoreSpec == StoreInit /\ [][StoreNext \/ StoreReset]_storeVars
-----------------------------------------------------------------------------
StoreTypeOK ==
    /\ known \subseteq Networks /\ IsFiniteSet(known)
    /\ at \in [Callers -> {"idle", "set", "pick", "delete", "again", "ok", "error", "full"}]
    /\ ssid \in [Callers -> Networks \cup {NoNetwork}]
    /\ oldest \in [Callers -> Networks \cup {NoNetwork}]
    /\ crossed \subseteq Callers /\ filled \in BOOLEAN /\ wasted \in Nat

\* iotc_wifi.h:14 "the oldest stored network (never the one being stored) is
\* evicted and the store retried, so reprovisioning can never dead-end on 'no
\* space left'": a call that had the store to itself never answers that.
NoSpaceNeedsRace == \A t \in Callers : at[t] = "full" => t \in crossed

\* A call costs at most one of the other networks, whatever fails and
\* whenever the power goes: a store that was full once lacks only what calls
\* in progress have evicted, and what was evicted for nothing.
OneEvictionPerCall ==
    filled => Cardinality(known) + Cardinality({t \in Callers : at[t] = "again"}) + wasted
                >= MaxEntries
=============================================================================
